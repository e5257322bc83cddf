------------------------------ MODULE Sessions ------------------------------
(***************************************************************************)
(* Accounts, one-time codes and refresh tokens: services/auth_service.py,  *)
(* with the operations of services/resident_service.py that end sessions.  *)
(* Module Clients adds the devices that call these handlers.               *)
(*                                                                         *)
(* An action is one load or one commit.  call[c] holds what the handler of *)
(* call c has loaded, and then its answer until the device takes it.  The  *)
(* client of a call may be gone (Nobody) while its handler still runs.     *)
(* Requests that are refused at once change nothing and are left out; so   *)
(* are audit rows, the administrator's last_login_at and the rate limits.  *)
(***************************************************************************)
EXTENDS Integers, Sequences, FiniteSets

CONSTANTS
    Residents, Admins,  \* the subjects of sessions
    Devices,            \* apps and browser sessions
    Nobody,             \* the client of a call that nobody waits for
    Calls,              \* requests that can be in flight at once
    MaxAttempts,        \* max_attempts of a one-time code
    CodeTTL,            \* OTP_EXPIRY_MINUTES
    FormTTL,            \* SIGNUP_TOKEN_TTL and PASSWORD_RESET_TOKEN_TTL
    AccessTTL,          \* ACCESS_TOKEN_TTL_MINUTES
    RefreshTTL,         \* RefreshTTL[o]: REFRESH_TOKEN_TTL_DAYS_RESIDENT, _ADMIN
    MaxTime,            \* bound: the clock that is explored
    MaxRequests,        \* bound: requests that are explored
    MaxFaults           \* bound: restarts and lost answers that are explored

Subjects == Residents \cup Admins

ASSUME SessionsAssumption ==
    /\ Residents \cap Admins = {}
    /\ Nobody \notin Devices
    /\ {MaxAttempts, CodeTTL, FormTTL, AccessTTL} \subseteq Nat
    /\ {MaxTime, MaxRequests, MaxFaults} \subseteq Nat
    /\ RefreshTTL \in [Subjects -> Nat]

VARIABLES
    now,        \* the clock
    faults,     \* restarts and lost answers so far
    requests,   \* requests begun so far
    mingled,    \* history: whether two calls have been in flight at once
    account,    \* residents and admin_users: is_active and password_hash
    codes,      \* the otp_requests table, in the order of otp_id
    forms,      \* signup and reset tokens that people hold (signed, not stored)
    tokens,     \* the refresh_tokens table, in the order of refresh_token_id
    call        \* call[c]: how far call c has got

world == <<now, faults, requests, mingled>>
tables == <<account, codes, forms, tokens>>

Purposes == {"signup", "reset"}

\* era: how often the password has been replaced (history).
Account == [active: BOOLEAN, password: {"none", "chosen", "random"}, era: Nat]

\* guesses: wrong codes judged against it (history).
Code == [owner: Residents, purpose: Purposes, expires: Nat,
         attempts: Nat, used: BOOLEAN, guesses: Nat]

Form == [owner: Residents, scope: Purposes, exp: Nat]

\* session: the first token of the chain; era: that of the password the session
\* was opened with (history, both).
Token == [owner: Subjects, expires: Nat, revoked: BOOLEAN, next: Nat,
          session: Nat, era: Nat]

Client == Devices \cup {Nobody}
Idle == [op |-> "idle"]

CallState ==
    {Idle}
    \cup [op: {"send"}, owner: Residents, purpose: Purposes]
    \cup [op: {"judge"}, owner: Residents, purpose: Purposes, code: Nat,
          attempts: Nat, right: BOOLEAN]
    \cup [op: {"onboard"}, device: Client, owner: Residents]
    \cup [op: {"issue"}, device: Client, owner: Subjects, era: Nat]
    \cup [op: {"replace"}, owner: Residents, by: {"chosen", "random"}]
    \cup [op: {"set"}, owner: Residents, seen: BOOLEAN, active: BOOLEAN,
          revoke: BOOLEAN]
    \cup [op: {"revoke"}, device: Client, owner: Residents \cup Admins]
    \cup [op: {"refresh", "rotate", "logout", "drop"}, device: Client, token: Nat]
    \cup [op: {"retire"}, device: Client, token: Nat, new: Nat, exp: Nat]
    \cup [op: {"pair"}, device: Devices, token: Nat, exp: Nat,
          then: {"idle", "resend"}]
    \cup [op: {"denied", "refused", "resend", "bye"}, device: Devices]

TablesOK ==
    /\ account \in [Subjects -> Account]
    /\ codes \in Seq(Code)
    /\ forms \subseteq Form
    /\ tokens \in Seq(Token)
    /\ call \in [Calls -> CallState]

\* Residents who have signed up and residents who have not; nobody signed in.
SessionsInit ==
    /\ now = 0 /\ faults = 0 /\ requests = 0 /\ mingled = FALSE
    /\ account \in [Subjects -> [active: {TRUE}, password: {"none", "chosen"}, era: {0}]]
    /\ \A a \in Admins : account[a].password = "chosen"
    /\ codes = <<>> /\ forms = {} /\ tokens = <<>>
    /\ call = [c \in Calls |-> Idle]

-----------------------------------------------------------------------------
(* What the handlers are made of.                                          *)

Become(c, state) == call' = [call EXCEPT ![c] = state]

\* Call c begins, and its handler has loaded what it needs.
Begin(c, state) ==
    /\ call[c] = Idle
    /\ requests < MaxRequests
    /\ requests' = requests + 1
    /\ mingled' = (mingled \/ \E o \in Calls : call[o] # Idle)
    /\ Become(c, state)
    /\ UNCHANGED <<now, faults, tables>>

\* The handler has answered d, which may have stopped waiting.
Answer(c, d, state) == Become(c, IF d = Nobody THEN Idle ELSE state)

\* _issue_token_pair: a row of its own commit.
NewToken(o, session, era) ==
    [owner |-> o, expires |-> now + RefreshTTL[o], revoked |-> FALSE, next |-> 0,
     session |-> session, era |-> era]

\* revoke_all_refresh_tokens: one UPDATE over the rows of the subject.
AllRevoked(o) ==
    [k \in DOMAIN tokens |->
       IF tokens[k].owner = o THEN [tokens[k] EXCEPT !.revoked = TRUE] ELSE tokens[k]]

Revoke(c) ==
    /\ call[c].op = "revoke"
    /\ tokens' = AllRevoked(call[c].owner)
    /\ Answer(c, call[c].device, [op |-> "refused", device |-> call[c].device])
    /\ UNCHANGED <<world, account, codes, forms>>

-----------------------------------------------------------------------------
(* One-time codes.                                                         *)

\* _find_matching_resident: somebody knows the house and mobile number of r.
Matching(r) == account[r].active

Onboarded(r) == account[r].password # "none"

\* Signing up and resetting exclude each other.
RequestCode(c, r, purpose) ==
    /\ Matching(r)
    /\ (purpose = "reset") = Onboarded(r)
    /\ Begin(c, [op |-> "send", owner |-> r, purpose |-> purpose])

SendCode(c) ==
    /\ call[c].op = "send"
    /\ codes' = Append(codes, [owner |-> call[c].owner, purpose |-> call[c].purpose,
                               expires |-> now + CodeTTL, attempts |-> 0,
                               used |-> FALSE, guesses |-> 0])
    /\ Become(c, Idle)
    /\ UNCHANGED <<world, account, forms, tokens>>

\* Mutant: used codes are not filtered out.
SentTo(r, purpose) ==
    {i \in DOMAIN codes : codes[i].owner = r /\ codes[i].purpose = purpose}

\* The codes that the verification's query ranges over.
Pending(r, purpose) ==
    {i \in DOMAIN codes : /\ codes[i].owner = r /\ codes[i].purpose = purpose
                          /\ ~codes[i].used}

\* Mutant: one attempt more is allowed.
AttemptsLeftAtLimit(code) == code.attempts <= MaxAttempts

AttemptsLeft(code) == code.attempts < MaxAttempts

\* The newest pending code is the one that counts; an older one counts again
\* once the newer has been used.
VerifyCode(c, r, purpose) ==
    /\ Matching(r)
    /\ purpose = "signup" => ~Onboarded(r)
    /\ \E i \in Pending(r, purpose), right \in BOOLEAN :
         /\ \A j \in Pending(r, purpose) : j <= i
         /\ codes[i].expires >= now
         /\ AttemptsLeft(codes[i])
         /\ Begin(c, [op |-> "judge", owner |-> r, purpose |-> purpose, code |-> i,
                      attempts |-> codes[i].attempts, right |-> right])

\* Mutant: attempts are counted down.
CountedDown(attempts) == attempts - 1

Counted(attempts) == attempts + 1

\* attempt_count is written as one more than was loaded.  The code that is right
\* is used up, and answered with a token for the next step of the form.
JudgeCode(c) ==
    /\ call[c].op = "judge"
    /\ LET i == call[c].code
       IN  IF call[c].right
           THEN /\ codes' = [codes EXCEPT ![i].used = TRUE]
                /\ forms' = forms \cup {[owner |-> call[c].owner,
                                         scope |-> call[c].purpose,
                                         exp |-> now + FormTTL]}
           ELSE /\ codes' = [codes EXCEPT ![i].attempts = Counted(call[c].attempts),
                                          ![i].guesses = @ + 1]
                /\ UNCHANGED forms
    /\ Become(c, Idle)
    /\ UNCHANGED <<world, account, tokens>>

-----------------------------------------------------------------------------
(* Passwords.                                                              *)

NewPassword(r, by) ==
    account' = [account EXCEPT ![r].password = by, ![r].era = @ + 1]

\* _decode_scoped_token: the token of a form is not stored, it is good until it expires.
Good(f, scope) == f.scope = scope /\ now < f.exp

SetSignupPassword(c, d, f) ==
    /\ Good(f, "signup")
    /\ account[f.owner].active
    /\ ~Onboarded(f.owner)
    /\ Begin(c, [op |-> "onboard", device |-> d, owner |-> f.owner])

\* The password is committed, and then a session is opened.
Onboard(c) ==
    /\ call[c].op = "onboard"
    /\ NewPassword(call[c].owner, "chosen")
    /\ Become(c, [op |-> "issue", device |-> call[c].device, owner |-> call[c].owner,
                  era |-> account[call[c].owner].era + 1])
    /\ UNCHANGED <<world, codes, forms, tokens>>

ConfirmPasswordReset(c, f) ==
    /\ Good(f, "reset")
    /\ account[f.owner].active
    /\ Begin(c, [op |-> "replace", owner |-> f.owner, by |-> "chosen"])

\* By the administrator: a random password that nobody knows.
ResetResidentPassword(c, r) ==
    Begin(c, [op |-> "replace", owner |-> r, by |-> "random"])

\* Mutant: the handler returns once the password is set.
NothingMore(r) == Idle

\* What is left to do once the password is set, in a transaction of its own.
ThenRevoke(r) == [op |-> "revoke", device |-> Nobody, owner |-> r]

Replace(c) ==
    /\ call[c].op = "replace"
    /\ NewPassword(call[c].owner, call[c].by)
    /\ Become(c, ThenRevoke(call[c].owner))
    /\ UNCHANGED <<world, codes, forms, tokens>>

-----------------------------------------------------------------------------
(* is_active: deactivation revokes, an ordinary update does not.           *)

DeactivateResident(c, r) ==
    Begin(c, [op |-> "set", owner |-> r, seen |-> account[r].active,
              active |-> FALSE, revoke |-> TRUE])

UpdateResident(c, r) ==
    \E active \in BOOLEAN :
      Begin(c, [op |-> "set", owner |-> r, seen |-> account[r].active,
                active |-> active, revoke |-> FALSE])

\* A column that is set to the value it was loaded with is not written.
SetActive(c) ==
    /\ call[c].op = "set"
    /\ LET r == call[c].owner
       IN  /\ account' = IF call[c].active = call[c].seen THEN account
                         ELSE [account EXCEPT ![r].active = call[c].active]
           /\ Become(c, IF call[c].revoke THEN ThenRevoke(r) ELSE Idle)
    /\ UNCHANGED <<world, codes, forms, tokens>>

-----------------------------------------------------------------------------
(* Sessions: login, refresh and logout.                                    *)

\* Residents and administrators alike: the password is checked against the hash that
\* was loaded.  Nobody can enter a random one.
Login(c, d, o) ==
    /\ account[o].active
    /\ account[o].password = "chosen"
    /\ Begin(c, [op |-> "issue", device |-> d, owner |-> o, era |-> account[o].era])

Issue(c) ==
    /\ call[c].op = "issue"
    /\ LET o == call[c].owner
           k == Len(tokens) + 1
       IN  /\ tokens' = Append(tokens, NewToken(o, k, call[c].era))
           /\ Answer(c, call[c].device,
                     [op |-> "pair", device |-> call[c].device, token |-> k,
                      exp |-> now + AccessTTL, then |-> "idle"])
    /\ UNCHANGED <<world, account, codes, forms>>

Live(k) == ~tokens[k].revoked

\* Mutant: a revoked token is rotated once more.
Tolerated(c, k) == [call[c] EXCEPT !.op = "rotate"]

\* A revoked token that is presented again ends every session of its subject.
OnReuse(c, k) ==
    [op |-> "revoke", device |-> call[c].device, owner |-> tokens[k].owner]

\* The token of a refresh request is looked up.
LoadRefresh(c) ==
    /\ call[c].op = "refresh"
    /\ LET k == call[c].token
           d == call[c].device
       IN  \/ /\ ~Live(k)
              /\ Become(c, OnReuse(c, k))
           \/ /\ Live(k) /\ tokens[k].expires < now
              /\ Answer(c, d, [op |-> "refused", device |-> d])
           \/ /\ Live(k) /\ tokens[k].expires >= now
              /\ Become(c, [call[c] EXCEPT !.op = "rotate"])
    /\ UNCHANGED <<world, tables>>

\* Rotation: the new token is committed before the old one is revoked.
Rotate(c) ==
    /\ call[c].op = "rotate"
    /\ LET old == tokens[call[c].token]
       IN  /\ tokens' = Append(tokens, NewToken(old.owner, old.session, old.era))
           /\ Become(c, [op |-> "retire", device |-> call[c].device,
                         token |-> call[c].token, new |-> Len(tokens) + 1,
                         exp |-> now + AccessTTL])
    /\ UNCHANGED <<world, account, codes, forms>>

\* Mutant: the old token only learns its successor.
LinkedOnly(token, new) == [token EXCEPT !.next = new]

Retired(token, new) == [token EXCEPT !.revoked = TRUE, !.next = new]

Retire(c) ==
    /\ call[c].op = "retire"
    /\ tokens' = [tokens EXCEPT ![call[c].token] = Retired(@, call[c].new)]
    /\ Answer(c, call[c].device,
              [op |-> "pair", device |-> call[c].device, token |-> call[c].new,
               exp |-> call[c].exp, then |-> "resend"])
    /\ UNCHANGED <<world, account, codes, forms>>

\* Logging out with a token that is revoked already changes nothing.
LoadLogout(c) ==
    /\ call[c].op = "logout"
    /\ IF Live(call[c].token)
       THEN Become(c, [call[c] EXCEPT !.op = "drop"])
       ELSE Answer(c, call[c].device, [op |-> "bye", device |-> call[c].device])
    /\ UNCHANGED <<world, tables>>

Drop(c) ==
    /\ call[c].op = "drop"
    /\ tokens' = [tokens EXCEPT ![call[c].token].revoked = TRUE]
    /\ Answer(c, call[c].device, [op |-> "bye", device |-> call[c].device])
    /\ UNCHANGED <<world, account, codes, forms>>

-----------------------------------------------------------------------------

\* What the backend does next for call c.
HandlerStep(c) ==
    \/ Revoke(c) \/ SendCode(c) \/ JudgeCode(c)
    \/ Onboard(c) \/ Replace(c) \/ SetActive(c) \/ Issue(c)
    \/ LoadRefresh(c) \/ Rotate(c) \/ Retire(c)
    \/ LoadLogout(c) \/ Drop(c)
=============================================================================
