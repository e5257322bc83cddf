------------------------------ MODULE Registry ------------------------------
(***************************************************************************)
(* Residents and their meters: services/resident_service.py.               *)
(*                                                                         *)
(* A request is two steps: its handler loads and checks, then it commits.  *)
(* Uniqueness is checked in between by nobody but the database, which rolls*)
(* the whole commit back.  Requests that are refused by their own checks   *)
(* change nothing and are left out, as are names, audit rows and is_active *)
(* (module Sessions).  Loads take no lock (SQLite, session.py).            *)
(***************************************************************************)
EXTENDS Integers, Sequences, FiniteSets

CONSTANTS
    Houses, Mobiles, Emails, Serials,
    None,               \* an e-mail address that is not known
    Calls,              \* requests that can be in flight at once
    FirstResidents,     \* the residents and meters that the exploration starts with
    FirstMeters,
    MaxRequests         \* bound: requests that are explored

Resident == [mobile: Mobiles, email: Emails \cup {None}]

\* The unique columns of the residents table.
Distinct(table) ==
    \A g, h \in DOMAIN table :
      g # h => /\ table[g].mobile # table[h].mobile
               /\ table[g].email # table[h].email \/ table[g].email = None

ASSUME RegistryAssumption ==
    /\ None \notin Houses \cup Mobiles \cup Emails \cup Serials
    /\ DOMAIN FirstResidents \subseteq Houses
    /\ \A h \in DOMAIN FirstResidents : FirstResidents[h] \in Resident
    /\ Distinct(FirstResidents)
    /\ DOMAIN FirstMeters \subseteq Serials
    /\ \A s \in DOMAIN FirstMeters : FirstMeters[s] \in DOMAIN FirstResidents
    /\ MaxRequests \in Nat

VARIABLES
    requests,   \* requests begun so far
    mingled,    \* history: whether two calls have been in flight at once
    residents,  \* the residents table: by house number, which never changes
    meters,     \* the meters table: whom a serial number is assigned to
    call        \* call[c]: what the handler of call c has loaded

Idle == [op |-> "idle"]

Put(f, x, value) == [y \in DOMAIN f \cup {x} |-> IF y = x THEN value ELSE f[y]]

RegistryOK ==
    /\ DOMAIN residents \subseteq Houses
    /\ \A h \in DOMAIN residents : residents[h] \in Resident
    /\ Distinct(residents)
    /\ DOMAIN meters \subseteq Serials
    /\ \A s \in DOMAIN meters : meters[s] \in DOMAIN residents

RegistryInit ==
    /\ requests = 0 /\ mingled = FALSE
    /\ residents = FirstResidents
    /\ meters = FirstMeters
    /\ call = [c \in Calls |-> Idle]

Become(c, state) == call' = [call EXCEPT ![c] = state]

\* Call c begins, and its handler has loaded what it needs.
Begin(c, state) ==
    /\ call[c] = Idle
    /\ requests < MaxRequests
    /\ requests' = requests + 1
    /\ mingled' = (mingled \/ \E o \in Calls : call[o] # Idle)
    /\ Become(c, state)
    /\ UNCHANGED <<residents, meters>>

\* Mutant: the columns are not unique in the schema.
CommitAnyway(c, newResidents, newMeters, fits) ==
    /\ residents' = newResidents
    /\ meters' = newMeters
    /\ Become(c, Idle)
    /\ UNCHANGED <<requests, mingled>>

\* The call is over; a commit that breaks a unique column stores nothing.
Commit(c, newResidents, newMeters, fits) ==
    /\ residents' = IF fits THEN newResidents ELSE residents
    /\ meters' = IF fits THEN newMeters ELSE meters
    /\ Become(c, Idle)
    /\ UNCHANGED <<requests, mingled>>

\* SQLAlchemy writes a column when its value differs from the one loaded.
Column(seen, new, current) == IF new = seen THEN current ELSE new

Rewritten(current, seen, mobile, email) ==
    [mobile |-> Column(seen.mobile, mobile, current.mobile),
     email |-> Column(seen.email, email, current.email)]

MobileFree(mobile, house) ==
    \A h \in DOMAIN residents : residents[h].mobile = mobile => h = house

SerialFree(serial) == serial \notin DOMAIN meters

\* A resident with a meter, or without one yet.  E-mail addresses are not checked.
CreateResident(c, h) ==
    /\ h \notin DOMAIN residents
    /\ \E resident \in Resident, serial \in Serials \cup {None} :
         /\ MobileFree(resident.mobile, h)
         /\ SerialFree(serial)
         /\ Begin(c, [op |-> "create", house |-> h, resident |-> resident,
                      serial |-> serial])

StoreResident(c) ==
    /\ call[c].op = "create"
    /\ LET h == call[c].house
           new == Put(residents, h, call[c].resident)
           s == call[c].serial
       IN  Commit(c, new, IF s = None THEN meters ELSE Put(meters, s, h),
                  h \notin DOMAIN residents /\ Distinct(new) /\ SerialFree(s))

\* By an administrator, who can set an e-mail address but not clear it.
UpdateResident(c, h) ==
    \E mobile \in Mobiles, email \in Emails \cup {None} :
      /\ MobileFree(mobile, h)
      /\ email = None => residents[h].email = None
      /\ Begin(c, [op |-> "update", house |-> h, seen |-> residents[h],
                   mobile |-> mobile, email |-> email])

\* By the resident.
UpdateOwnEmail(c, h) ==
    \E email \in Emails \cup {None} :
      Begin(c, [op |-> "update", house |-> h, seen |-> residents[h],
                mobile |-> residents[h].mobile, email |-> email])

StoreUpdate(c) ==
    /\ call[c].op = "update"
    /\ LET h == call[c].house
           new == [residents EXCEPT ![h] =
                     Rewritten(@, call[c].seen, call[c].mobile, call[c].email)]
       IN  Commit(c, new, meters, Distinct(new))

\* Meters the resident has already stay as they are.
AssignMeter(c, h) ==
    \E s \in Serials :
      /\ SerialFree(s)
      /\ Begin(c, [op |-> "assign", serial |-> s, house |-> h])

StoreMeter(c) ==
    /\ call[c].op = "assign"
    /\ Commit(c, residents, Put(meters, call[c].serial, call[c].house),
              SerialFree(call[c].serial))

RegistryRequest(c) ==
    \/ \E h \in Houses : CreateResident(c, h)
    \/ \E h \in DOMAIN residents :
         UpdateResident(c, h) \/ UpdateOwnEmail(c, h) \/ AssignMeter(c, h)

RegistryStep(c) == StoreResident(c) \/ StoreUpdate(c) \/ StoreMeter(c)
=============================================================================
