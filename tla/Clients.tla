------------------------------ MODULE Clients ------------------------------
(***************************************************************************)
(* The devices that hold sessions, composed with the handlers of Sessions: *)
(* the administrator's web client (admin_web/api_client.py, auth.py and    *)
(* Home.py) and the mobile client (_request of api_client.dart).  A request*)
(* that is answered 401 is sent again after one refresh; a second 401 signs*)
(* the device out.  Only the mobile client's submitReading keeps the       *)
(* session then; it is not among the requests here.                        *)
(*                                                                         *)
(* A request that is served at once changes no session and is left out.    *)
(* What a device sends is what it holds when it sends it: the calls of one *)
(* device share its session.                                               *)
(***************************************************************************)
EXTENDS Sessions

VARIABLE device     \* device[d]: the session that d has stored

vars == <<world, tables, call, device>>

SignedOut == [token |-> 0]

\* access and refresh token, stored and dropped together.
Stored == {SignedOut} \cup [owner: Subjects, exp: Nat, token: Nat]

SignedIn(d) == device[d] # SignedOut

TypeOK == TablesOK /\ device \in [Devices -> Stored]

Init ==
    /\ SessionsInit
    /\ device = [d \in Devices |-> SignedOut]

Put(d, session) == device' = [device EXCEPT ![d] = session]

-----------------------------------------------------------------------------
(* Requests with a stored session.                                         *)

\* deps.get_current_resident and get_current_admin: the access token has not run
\* out, and the account is active.  Refresh tokens play no part in it.
Served(d) == device[d].exp > now /\ account[device[d].owner].active

\* A request of d is answered 401.
Call(c, d) ==
    /\ SignedIn(d)
    /\ ~Served(d)
    /\ Begin(c, [op |-> "denied", device |-> d])
    /\ UNCHANGED device

\* The refresh request carries the token that d holds by now, if any.
SendRefresh(c) ==
    /\ call[c].op = "denied"
    /\ LET d == call[c].device
       IN  Become(c, IF SignedIn(d)
                     THEN [op |-> "refresh", device |-> d, token |-> device[d].token]
                     ELSE Idle)
    /\ UNCHANGED <<world, tables, device>>

\* Mutant: the refresh token that comes with the pair is not stored.
StoredAccess(d, pair) ==
    [owner |-> tokens[pair.token].owner, exp |-> pair.exp,
     token |-> IF SignedIn(d) THEN device[d].token ELSE pair.token]

StoredPair(d, pair) ==
    [owner |-> tokens[pair.token].owner, exp |-> pair.exp, token |-> pair.token]

\* A pair arrives, after a login or a refresh.
TakePair(c) ==
    /\ call[c].op = "pair"
    /\ LET d == call[c].device
       IN  /\ Put(d, StoredPair(d, call[c]))
           /\ Become(c, IF call[c].then = "resend" THEN [op |-> "resend", device |-> d]
                        ELSE Idle)
    /\ UNCHANGED <<world, tables>>

\* Mutant: a refresh that is refused is tried again.
TryAgain(c, d) == Become(c, [op |-> "denied", device |-> d]) /\ UNCHANGED device

\* The 401 stands, and whatever session d holds by now is dropped.
TakeNo(c, d) == Become(c, Idle) /\ Put(d, SignedOut)

\* The refresh brought no pair.
TakeRefusal(c) ==
    /\ call[c].op = "refused"
    /\ TakeNo(c, call[c].device)
    /\ UNCHANGED <<world, tables>>

\* The request once more, with the session that d holds by now.
Resend(c) ==
    /\ call[c].op = "resend"
    /\ LET d == call[c].device
       IN  IF SignedIn(d) /\ Served(d)
           THEN Become(c, Idle) /\ UNCHANGED device
           ELSE TakeNo(c, d)
    /\ UNCHANGED <<world, tables>>

-----------------------------------------------------------------------------
(* Logging out.                                                            *)

Logout(c, d) ==
    /\ SignedIn(d)
    /\ Begin(c, [op |-> "logout", device |-> d, token |-> device[d].token])
    /\ UNCHANGED device

\* The local session is cleared whatever the answer.
TakeBye(c) ==
    /\ call[c].op = "bye"
    /\ Put(call[c].device, SignedOut)
    /\ Become(c, Idle)
    /\ UNCHANGED <<world, tables>>

LoggingOut(c) == call[c].op \in {"logout", "drop", "bye"}

-----------------------------------------------------------------------------
(* Faults and time.                                                        *)

Awaited(c) == "device" \in DOMAIN call[c] /\ call[c].device # Nobody

WithClient == {"denied", "pair", "refused", "resend", "bye"}

\* The answer never reaches the device: the handler, if it is not done, goes on.
GiveUp(c) ==
    /\ Awaited(c)
    /\ faults < MaxFaults
    /\ faults' = faults + 1
    /\ IF LoggingOut(c) THEN Put(call[c].device, SignedOut) ELSE UNCHANGED device
    /\ Become(c, IF call[c].op \in WithClient THEN Idle
                 ELSE [call[c] EXCEPT !.device = Nobody])
    /\ UNCHANGED <<now, requests, mingled, tables>>

\* The backend restarts.  Codes, tokens and devices are stored; what handlers had
\* loaded is gone, and every client sees its connection close.
Crash ==
    /\ faults < MaxFaults
    /\ faults' = faults + 1
    /\ call' = [c \in Calls |-> Idle]
    /\ device' = [d \in Devices |->
                    IF \E c \in Calls : LoggingOut(c) /\ call[c].device = d
                    THEN SignedOut ELSE device[d]]
    /\ UNCHANGED <<now, requests, mingled, tables>>

Tick ==
    /\ now < MaxTime
    /\ now' = now + 1
    /\ UNCHANGED <<faults, requests, mingled, tables, call, device>>

-----------------------------------------------------------------------------

\* Requests of people: with a form in hand, on a device where nobody is signed in,
\* or of an administrator about a resident.
Ask(c) ==
    \/ \E r \in Residents :
         \/ ResetResidentPassword(c, r)
         \/ DeactivateResident(c, r)
         \/ UpdateResident(c, r)
         \/ \E purpose \in Purposes : RequestCode(c, r, purpose) \/ VerifyCode(c, r, purpose)
    \/ \E f \in forms : ConfirmPasswordReset(c, f)
    \/ \E d \in Devices :
         /\ ~SignedIn(d)
         /\ \/ \E o \in Subjects : Login(c, d, o)
            \/ \E f \in forms : SetSignupPassword(c, d, f)

\* What the backend or the client does next for call c.
Step(c) ==
    \/ HandlerStep(c) /\ UNCHANGED device
    \/ SendRefresh(c) \/ TakePair(c) \/ TakeRefusal(c) \/ Resend(c) \/ TakeBye(c)

Next ==
    \/ \E c \in Calls :
         \/ Step(c)
         \/ Ask(c) /\ UNCHANGED device
         \/ \E d \in Devices : Call(c, d) \/ Logout(c, d)
         \/ GiveUp(c)
    \/ Crash
    \/ Tick

Spec == Init /\ [][Next]_vars

\* Handlers run in a pool of threads and clients wait with a timeout: a call that
\* has begun goes on.
FairSpec == Spec /\ \A c \in Calls : WF_vars(Step(c))
=============================================================================
