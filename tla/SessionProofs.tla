--------------------------- MODULE SessionProofs ---------------------------
(***************************************************************************)
(* Proofs about sessions and one-time codes for every set of residents,    *)
(* administrators, devices and calls, every lifetime of codes and tokens,  *)
(* and any number of requests, restarts and lost answers.                  *)
(***************************************************************************)
EXTENDS SessionProperties, TLAPS, SequenceTheorems, FiniteSetTheorems

-----------------------------------------------------------------------------
(* The inductive invariant.  What a call holds is a value x of CallState,  *)
(* so the parts about calls are stated of x and then of every call[c].     *)

Counters == {now, faults, requests} \subseteq Nat /\ mingled \in BOOLEAN

\* The tokens that a call names are rows of the table.
Points(x) ==
    /\ x.op \in {"refresh", "rotate", "logout", "drop", "retire", "pair"}
         => x.token \in DOMAIN tokens
    /\ x.op = "retire" => x.new \in DOMAIN tokens

\* Sessions are opened for people who have a password.
Enrolled(x) == x.op = "issue" => account[x.owner].password # "none"

\* What a call has loaded is still what the tables say.
Fresh(x) ==
    /\ x.op = "judge" =>
         /\ x.code \in DOMAIN codes
         /\ codes[x.code].owner = x.owner /\ codes[x.code].purpose = x.purpose
         /\ ~codes[x.code].used
         /\ codes[x.code].attempts = x.attempts
         /\ codes[x.code].attempts < MaxAttempts
    /\ x.op = "onboard" => account[x.owner].password = "none"
    /\ x.op = "issue" => x.era = account[x.owner].era
    /\ x.op = "rotate" => Live(x.token)

CallsHold == \A c \in Calls : Points(call[c]) /\ Enrolled(call[c])

DevicesPoint == \A d \in Devices : SignedIn(d) => device[d].token \in DOMAIN tokens

OwnersAreOnboarded ==
    \A k \in DOMAIN tokens : account[tokens[k].owner].password # "none"

\* While no two calls have overlapped, a call has the tables to itself.
Alone ==
    ~mingled =>
      \A b, c \in Calls : call[b] # Idle /\ call[c] # Idle => b = c

CallsAreFresh == ~mingled => \A c \in Calls : Fresh(call[c])

\* The column counts the wrong codes that were judged.
AttemptsAreGuesses ==
    ~mingled =>
      \A i \in DOMAIN codes :
        codes[i].guesses = codes[i].attempts /\ codes[i].attempts <= MaxAttempts

\* A token that outlives a password is about to be revoked.
OutdatedAreRevoked ==
    Orderly =>
      \A k \in LiveTokens :
        \/ tokens[k].era = account[tokens[k].owner].era
        \/ \E c \in Calls : call[c].op = "revoke" /\ call[c].owner = tokens[k].owner

IInv ==
    /\ TypeOK /\ Counters
    /\ CallsHold /\ DevicesPoint /\ OwnersAreOnboarded
    /\ Alone /\ CallsAreFresh
    /\ AttemptsAreGuesses /\ OutdatedAreRevoked

-----------------------------------------------------------------------------
(* Data.                                                                   *)

LEMMA FunctionIsSeq ==
    ASSUME NEW S, NEW n \in Nat, NEW f \in [1..n -> S]
    PROVE  f \in Seq(S) /\ Len(f) = n
OBVIOUS

LEMMA CallFields ==
    ASSUME NEW x \in CallState
    PROVE  /\ x.op \in {"idle", "send", "judge", "onboard", "issue", "replace", "set",
                        "revoke", "refresh", "rotate", "logout", "drop", "retire",
                        "pair", "denied", "refused", "resend", "bye"}
           /\ x.op = "idle" => x = Idle
           /\ x.op = "send" => x.owner \in Residents /\ x.purpose \in Purposes
           /\ x.op = "judge" => /\ x.owner \in Residents /\ x.purpose \in Purposes
                                /\ x.code \in Nat /\ x.attempts \in Nat
                                /\ x.right \in BOOLEAN
           /\ x.op = "onboard" => x.device \in Client /\ x.owner \in Residents
           /\ x.op = "issue" =>
                x.device \in Client /\ x.owner \in Subjects /\ x.era \in Nat
           /\ x.op = "replace" => x.owner \in Residents /\ x.by \in {"chosen", "random"}
           /\ x.op = "set" => /\ x.owner \in Residents /\ x.seen \in BOOLEAN
                              /\ x.active \in BOOLEAN /\ x.revoke \in BOOLEAN
           /\ x.op = "revoke" => x.device \in Client /\ x.owner \in Subjects
           /\ x.op \in {"refresh", "rotate", "logout", "drop"} =>
                x.device \in Client /\ x.token \in Nat
           /\ x.op = "retire" =>
                x.device \in Client /\ x.token \in Nat /\ x.new \in Nat /\ x.exp \in Nat
           /\ x.op = "pair" => /\ x.device \in Devices /\ x.token \in Nat
                               /\ x.exp \in Nat /\ x.then \in {"idle", "resend"}
           /\ x.op \in {"denied", "refused", "resend", "bye"} => x.device \in Devices
BY DEF CallState, Idle, Subjects

\* The calls that have a device, written out.
LEMMA CallWithDevice ==
    ASSUME NEW x \in CallState
    PROVE  /\ x.op = "onboard" =>
                x = [op |-> "onboard", device |-> x.device, owner |-> x.owner]
           /\ x.op = "issue" =>
                x = [op |-> "issue", device |-> x.device, owner |-> x.owner, era |-> x.era]
           /\ x.op = "revoke" =>
                x = [op |-> "revoke", device |-> x.device, owner |-> x.owner]
           /\ x.op \in {"refresh", "rotate", "logout", "drop"} =>
                x = [op |-> x.op, device |-> x.device, token |-> x.token]
           /\ x.op = "retire" =>
                x = [op |-> "retire", device |-> x.device, token |-> x.token,
                     new |-> x.new, exp |-> x.exp]
BY DEF CallState, Idle

LEMMA IdleIsSound ==
    Idle \in CallState /\ Points(Idle) /\ Enrolled(Idle) /\ Fresh(Idle)
BY DEF CallState, Idle, Points, Enrolled, Fresh

-----------------------------------------------------------------------------
(* Steps.                                                                  *)

\* Call c goes on, or ends, and the tables may change with it.  What is left to
\* show of a step is what it does to the tables.
LEMMA CallGoesOn ==
    ASSUME IInv, NEW c \in Calls, NEW x \in CallState,
           call[c] # Idle, call' = [call EXCEPT ![c] = x],
           Counters', mingled' = mingled,
           Points(x)', Enrolled(x)', ~mingled => Fresh(x)',
           \A k \in DOMAIN tokens : k \in DOMAIN tokens',
           \A o \in Subjects : account[o].password # "none" => account'[o].password # "none"
    PROVE  call' \in [Calls -> CallState] /\ CallsHold' /\ Alone' /\ CallsAreFresh'
<1> \A b \in Calls : call[b] \in CallState
  BY DEF IInv, TypeOK, TablesOK
<1> \A b \in Calls : call'[b] = IF b = c THEN x ELSE call[b]
  BY DEF IInv, TypeOK, TablesOK
<1>1. call' \in [Calls -> CallState]
  BY DEF IInv, TypeOK, TablesOK
<1>2. CallsHold'
  <2>1. ASSUME NEW b \in Calls, b # c PROVE Points(call[b])' /\ Enrolled(call[b])'
    BY <2>1, CallFields DEF IInv, CallsHold, Points, Enrolled
  <2>2. QED  BY <2>1 DEF CallsHold, Points, Enrolled
<1>3. Alone'
  BY DEF IInv, Alone
<1>4. CallsAreFresh'
  <2>1. ASSUME ~mingled, NEW b \in Calls, b # c PROVE call[b] = Idle
    BY <2>1 DEF IInv, Alone
  <2>2. ASSUME ~mingled, NEW b \in Calls PROVE Fresh(call[b])'
    BY <2>1, <2>2, IdleIsSound DEF Fresh, Idle
  <2>3. QED  BY <2>2 DEF CallsAreFresh
<1>5. QED  BY <1>1, <1>2, <1>3, <1>4

\* A step that leaves the tables alone.
LEMMA QuietStep ==
    ASSUME IInv, NEW c \in Calls, NEW x \in CallState,
           call[c] # Idle, call' = [call EXCEPT ![c] = x],
           UNCHANGED tables, Counters', mingled' = mingled,
           faults' = faults => call[c].op # "revoke",
           faults' = faults \/ faults' > 0,
           Points(x), Enrolled(x), ~mingled => Fresh(x),
           device' \in [Devices -> Stored], DevicesPoint'
    PROVE  IInv'
<1>1. Points(x)' /\ Enrolled(x)' /\ (~mingled => Fresh(x)')
  BY DEF Points, Enrolled, Fresh, Live, tables
<1>2. call' \in [Calls -> CallState] /\ CallsHold' /\ Alone' /\ CallsAreFresh'
  BY <1>1, CallGoesOn DEF tables
<1>3. TypeOK'
  BY <1>2 DEF IInv, TypeOK, TablesOK, tables
<1>4. OwnersAreOnboarded' /\ AttemptsAreGuesses'
  BY DEF IInv, OwnersAreOnboarded, AttemptsAreGuesses, tables
<1>5. OutdatedAreRevoked'
  <2>1. CASE faults' = faults
    BY <2>1 DEF IInv, OutdatedAreRevoked, Orderly, LiveTokens, Live, tables,
                TypeOK, TablesOK
  <2>2. CASE faults' > 0
    BY <2>2 DEF OutdatedAreRevoked, Orderly, Counters
  <2>3. QED  BY <2>1, <2>2
<1>6. QED  BY <1>2, <1>3, <1>4, <1>5 DEF IInv

\* A call begins.
LEMMA BeginStep ==
    ASSUME IInv, NEW c \in Calls, NEW x \in CallState, Begin(c, x), UNCHANGED device,
           Points(x), Enrolled(x), Fresh(x)
    PROVE  IInv'
<1> USE DEF Begin, Become
<1> \A b \in Calls : call'[b] = IF b = c THEN x ELSE call[b]
  BY DEF IInv, TypeOK, TablesOK
<1>1. TypeOK' /\ Counters'
  BY DEF IInv, TypeOK, TablesOK, tables, Counters
<1>2. CallsHold'
  BY DEF IInv, CallsHold, Points, Enrolled, tables
<1>3. DevicesPoint' /\ OwnersAreOnboarded'
  BY DEF IInv, DevicesPoint, SignedIn, OwnersAreOnboarded, tables
<1>4. ~mingled' => ~mingled /\ \A b \in Calls : call[b] = Idle
  OBVIOUS
<1>5. Alone'
  BY <1>4 DEF Alone
<1>6. CallsAreFresh'
  BY <1>4 DEF IInv, CallsAreFresh, Fresh, Live, tables
<1>7. AttemptsAreGuesses'
  BY <1>4 DEF IInv, AttemptsAreGuesses, tables
<1>8. OutdatedAreRevoked'
  BY <1>4 DEF IInv, OutdatedAreRevoked, Orderly, LiveTokens, Live, tables, Idle
<1>9. QED  BY <1>1, <1>2, <1>3, <1>5, <1>6, <1>7, <1>8 DEF IInv

\* What a request has loaded when it begins.
LEMMA RequestStep ==
    ASSUME IInv, NEW c \in Calls,
           \/ Ask(c) /\ UNCHANGED device
           \/ \E d \in Devices : Call(c, d) \/ Logout(c, d)
    PROVE  IInv'
<1> DEFINE Sound(x) == x \in CallState /\ Points(x) /\ Enrolled(x) /\ Fresh(x)
<1> USE DEF Points, Enrolled, Fresh, CallState
<1>1. SUFFICES \E x : Sound(x) /\ Begin(c, x) /\ UNCHANGED device
  BY <1>1, BeginStep
<1>2. ASSUME NEW r \in Residents,
             \/ ResetResidentPassword(c, r) \/ DeactivateResident(c, r)
             \/ UpdateResident(c, r) \/ \E p \in Purposes : RequestCode(c, r, p),
             UNCHANGED device
      PROVE  \E x : Sound(x) /\ Begin(c, x) /\ UNCHANGED device
  <2>1. account[r].active \in BOOLEAN
    BY DEF IInv, TypeOK, TablesOK, Account, Subjects
  <2>2. CASE ResetResidentPassword(c, r)
    <3>1. Sound([op |-> "replace", owner |-> r, by |-> "random"])
      OBVIOUS
    <3>2. QED  BY <1>2, <2>2, <3>1 DEF ResetResidentPassword
  <2>3. ASSUME NEW active \in BOOLEAN, NEW revoke \in BOOLEAN
        PROVE  Sound([op |-> "set", owner |-> r, seen |-> account[r].active,
                      active |-> active, revoke |-> revoke])
    BY <2>1
  <2>4. CASE DeactivateResident(c, r) \/ UpdateResident(c, r)
    BY <1>2, <2>3, <2>4 DEF DeactivateResident, UpdateResident
  <2>5. ASSUME NEW p \in Purposes, RequestCode(c, r, p)
        PROVE  \E x : Sound(x) /\ Begin(c, x) /\ UNCHANGED device
    <3>1. Sound([op |-> "send", owner |-> r, purpose |-> p])
      OBVIOUS
    <3>2. QED  BY <1>2, <2>5, <3>1 DEF RequestCode
  <2>6. QED  BY <1>2, <2>2, <2>4, <2>5
<1>3. ASSUME NEW r \in Residents, NEW p \in Purposes, VerifyCode(c, r, p), UNCHANGED device
      PROVE  \E x : Sound(x) /\ Begin(c, x) /\ UNCHANGED device
  <2>1. PICK i \in Pending(r, p), right \in BOOLEAN :
          /\ AttemptsLeft(codes[i])
          /\ Begin(c, [op |-> "judge", owner |-> r, purpose |-> p, code |-> i,
                       attempts |-> codes[i].attempts, right |-> right])
    BY <1>3 DEF VerifyCode
  <2>2. i \in DOMAIN codes /\ codes[i] \in Code
    BY <2>1 DEF Pending, IInv, TypeOK, TablesOK
  <2>3. Sound([op |-> "judge", owner |-> r, purpose |-> p, code |-> i,
               attempts |-> codes[i].attempts, right |-> right])
    BY <2>1, <2>2 DEF Pending, AttemptsLeft, Code, IInv, TypeOK, TablesOK
  <2>4. QED  BY <1>3, <2>1, <2>3
<1>4. ASSUME NEW f \in forms, ConfirmPasswordReset(c, f), UNCHANGED device
      PROVE  \E x : Sound(x) /\ Begin(c, x) /\ UNCHANGED device
  <2>1. f.owner \in Residents
    BY DEF IInv, TypeOK, TablesOK, Form
  <2>2. Sound([op |-> "replace", owner |-> f.owner, by |-> "chosen"])
    BY <2>1
  <2>3. QED  BY <1>4, <2>2 DEF ConfirmPasswordReset
<1>5. ASSUME NEW d \in Devices, NEW o \in Subjects, Login(c, d, o), UNCHANGED device
      PROVE  \E x : Sound(x) /\ Begin(c, x) /\ UNCHANGED device
  <2>1. account[o].era \in Nat /\ account[o].password = "chosen"
    BY <1>5 DEF Login, IInv, TypeOK, TablesOK, Account
  <2>2. Sound([op |-> "issue", device |-> d, owner |-> o, era |-> account[o].era])
    BY <2>1 DEF Client
  <2>3. QED  BY <1>5, <2>2 DEF Login
<1>6. ASSUME NEW d \in Devices, NEW f \in forms, SetSignupPassword(c, d, f),
             UNCHANGED device
      PROVE  \E x : Sound(x) /\ Begin(c, x) /\ UNCHANGED device
  <2>1. f.owner \in Residents
    BY DEF IInv, TypeOK, TablesOK, Form
  <2>2. Sound([op |-> "onboard", device |-> d, owner |-> f.owner])
    BY <1>6, <2>1 DEF SetSignupPassword, Onboarded, Client
  <2>3. QED  BY <1>6, <2>2 DEF SetSignupPassword
<1>7. ASSUME NEW d \in Devices, Call(c, d)
      PROVE  \E x : Sound(x) /\ Begin(c, x) /\ UNCHANGED device
  <2>1. Sound([op |-> "denied", device |-> d])
    BY DEF Client
  <2>2. QED  BY <1>7, <2>1 DEF Call
<1>8. ASSUME NEW d \in Devices, Logout(c, d)
      PROVE  \E x : Sound(x) /\ Begin(c, x) /\ UNCHANGED device
  <2>1. device[d].token \in DOMAIN tokens /\ device[d].token \in Nat
    BY <1>8 DEF Logout, IInv, DevicesPoint, TypeOK, TablesOK
  <2>2. Sound([op |-> "logout", device |-> d, token |-> device[d].token])
    BY <2>1 DEF Client
  <2>3. QED  BY <1>8, <2>2 DEF Logout
<1>9. QED  BY <1>2, <1>3, <1>4, <1>5, <1>6, <1>7, <1>8 DEF Ask

LEMMA RowFields ==
    ASSUME TypeOK
    PROVE  /\ \A k \in DOMAIN tokens : /\ tokens[k] \in Token
                                      /\ tokens[k].owner \in Subjects
                                      /\ tokens[k].session \in Nat
                                      /\ tokens[k].era \in Nat
                                      /\ tokens[k].revoked \in BOOLEAN
           /\ \A i \in DOMAIN codes : /\ codes[i] \in Code
                                     /\ codes[i].owner \in Residents
                                     /\ codes[i].attempts \in Nat
                                     /\ codes[i].guesses \in Nat
           /\ DOMAIN tokens = 1..Len(tokens) /\ Len(tokens) \in Nat
           /\ DOMAIN codes = 1..Len(codes) /\ Len(codes) \in Nat
<1>1. tokens \in Seq(Token) /\ codes \in Seq(Code)
  BY DEF TypeOK, TablesOK
<1>2. \A k \in DOMAIN tokens : tokens[k] \in Token
  BY <1>1
<1>3. \A i \in DOMAIN codes : codes[i] \in Code
  BY <1>1
<1>4. QED  BY <1>1, <1>2, <1>3 DEF Token, Code

\* What an answer leaves of its call.
LEMMA AnswerIs ==
    ASSUME NEW c \in Calls, NEW d \in Client, NEW x, Answer(c, d, x)
    PROVE  \/ call' = [call EXCEPT ![c] = x] /\ d \in Devices
           \/ call' = [call EXCEPT ![c] = Idle]
BY DEF Answer, Become, Client

\* The handlers' lookups, and what the devices do with the answers.
LEMMA ClientStep ==
    ASSUME IInv, NEW c \in Calls,
           \/ (LoadRefresh(c) \/ LoadLogout(c)) /\ UNCHANGED device
           \/ SendRefresh(c) \/ TakePair(c) \/ TakeRefusal(c) \/ Resend(c) \/ TakeBye(c)
    PROVE  IInv'
<1> DEFINE Sound(x) == /\ x \in CallState /\ Points(x) /\ Enrolled(x)
                       /\ (~mingled => Fresh(x))
<1>1. /\ call[c] \in CallState /\ Sound(call[c])
      /\ \A b \in Calls : call[b] \in CallState
  BY DEF IInv, TypeOK, TablesOK, CallsHold, CallsAreFresh
<1>2. /\ UNCHANGED <<world, tables>>
      /\ call[c] # Idle /\ call[c].op # "revoke"
  BY DEF LoadRefresh, LoadLogout, SendRefresh, TakePair, TakeRefusal, Resend, TakeBye, Idle
<1>3. Counters' /\ mingled' = mingled /\ faults' = faults
  BY <1>2 DEF IInv, Counters, world
<1>4. SUFFICES /\ \E x : Sound(x) /\ call' = [call EXCEPT ![c] = x]
               /\ device' \in [Devices -> Stored] /\ DevicesPoint'
  BY <1>2, <1>3, QuietStep
<1>5. Sound(Idle)
  BY IdleIsSound
<1>6. ASSUME UNCHANGED device PROVE device' \in [Devices -> Stored] /\ DevicesPoint'
  BY <1>2, <1>6 DEF IInv, TypeOK, DevicesPoint, SignedIn, tables
<1>7. ASSUME NEW d \in Devices, NEW op \in {"denied", "refused", "resend", "bye"}
      PROVE  Sound([op |-> op, device |-> d])
  BY DEF CallState, Points, Enrolled, Fresh
<1>8. ASSUME NEW d, Put(d, SignedOut)
      PROVE  device' \in [Devices -> Stored] /\ DevicesPoint'
  BY <1>2, <1>8 DEF IInv, TypeOK, Put, DevicesPoint, SignedIn, SignedOut, Stored, tables
<1>9. CASE LoadRefresh(c) /\ UNCHANGED device
  <2>1. /\ call[c].device \in Client /\ call[c].token \in DOMAIN tokens
        /\ call[c] = [op |-> "refresh", device |-> call[c].device, token |-> call[c].token]
    BY <1>1, <1>9, CallFields, CallWithDevice DEF LoadRefresh, Points
  <2>2. tokens[call[c].token].owner \in Subjects
    BY <2>1, RowFields DEF IInv
  <2>3. Sound(OnReuse(c, call[c].token))
    BY <2>1, <2>2 DEF OnReuse, CallState, Points, Enrolled, Fresh, Subjects
  <2>4. Live(call[c].token) => Sound([call[c] EXCEPT !.op = "rotate"])
    <3>1. [call[c] EXCEPT !.op = "rotate"]
            = [op |-> "rotate", device |-> call[c].device, token |-> call[c].token]
      BY <2>1
    <3>2. call[c].token \in Nat
      BY <1>1, <1>9, CallFields DEF LoadRefresh
    <3>3. QED  BY <2>1, <3>1, <3>2 DEF CallState, Points, Enrolled, Fresh
  <2>5. QED
    BY <1>5, <1>6, <1>7, <1>9, <2>1, <2>3, <2>4, AnswerIs DEF LoadRefresh, Become
<1>10. CASE LoadLogout(c) /\ UNCHANGED device
  <2>1. /\ call[c].device \in Client /\ call[c].token \in DOMAIN tokens
        /\ call[c].token \in Nat
        /\ call[c] = [op |-> "logout", device |-> call[c].device, token |-> call[c].token]
    BY <1>1, <1>10, CallFields, CallWithDevice DEF LoadLogout, Points
  <2>2. Sound([call[c] EXCEPT !.op = "drop"])
    <3>1. [call[c] EXCEPT !.op = "drop"]
            = [op |-> "drop", device |-> call[c].device, token |-> call[c].token]
      BY <2>1
    <3>2. QED  BY <2>1, <3>1 DEF CallState, Points, Enrolled, Fresh
  <2>3. QED  BY <1>5, <1>6, <1>7, <1>10, <2>1, <2>2, AnswerIs DEF LoadLogout, Become
<1>11. CASE SendRefresh(c)
  <2>1. call[c].device \in Devices
    BY <1>1, <1>11, CallFields DEF SendRefresh
  <2>2. ASSUME NEW d \in Devices, SignedIn(d)
        PROVE  Sound([op |-> "refresh", device |-> d, token |-> device[d].token])
    <3>1. device[d].token \in DOMAIN tokens /\ device[d].token \in Nat
      BY <2>2, RowFields DEF IInv, DevicesPoint
    <3>2. QED  BY <3>1 DEF CallState, Points, Enrolled, Fresh, Client
  <2>3. QED  BY <1>5, <1>6, <1>11, <2>1, <2>2 DEF SendRefresh, Become
<1>12. CASE TakePair(c)
  <2>1. /\ call[c].device \in Devices /\ call[c].token \in DOMAIN tokens
        /\ call[c].token \in Nat /\ call[c].exp \in Nat
        /\ tokens[call[c].token].owner \in Subjects
    BY <1>1, <1>12, CallFields, RowFields DEF TakePair, Points, IInv
  <2>2. StoredPair(call[c].device, call[c]) \in Stored
    BY <2>1 DEF StoredPair, Stored
  <2>3. device' \in [Devices -> Stored] /\ DevicesPoint'
    BY <1>2, <1>12, <2>1, <2>2
    DEF TakePair, Put, IInv, TypeOK, DevicesPoint, SignedIn, StoredPair, tables
  <2>4. QED  BY <1>5, <1>7, <1>12, <2>1, <2>3 DEF TakePair, Become
<1>13. CASE TakeRefusal(c)
  BY <1>5, <1>8, <1>13 DEF TakeRefusal, TakeNo, Become
<1>14. CASE Resend(c)
  BY <1>5, <1>6, <1>8, <1>14 DEF Resend, TakeNo, Become
<1>15. CASE TakeBye(c)
  BY <1>5, <1>8, <1>15 DEF TakeBye, Become
<1>16. QED  BY <1>9, <1>10, <1>11, <1>12, <1>13, <1>14, <1>15

-----------------------------------------------------------------------------
(* The handlers' commits.                                                  *)

\* What is to be shown of a commit, on top of what CallGoesOn shows.
LEMMA CommitStep ==
    ASSUME IInv, NEW c \in Calls, NEW x \in CallState,
           call[c] # Idle, call' = [call EXCEPT ![c] = x], UNCHANGED <<world, device>>,
           Points(x)', Enrolled(x)', ~mingled => Fresh(x)',
           account' \in [Subjects -> Account], codes' \in Seq(Code),
           forms' \subseteq Form, tokens' \in Seq(Token),
           \A k \in DOMAIN tokens : k \in DOMAIN tokens',
           \A o \in Subjects : account[o].password # "none" => account'[o].password # "none",
           OwnersAreOnboarded', AttemptsAreGuesses', OutdatedAreRevoked'
    PROVE  IInv'
<1>1. Counters' /\ mingled' = mingled
  BY DEF IInv, Counters, world
<1>2. call' \in [Calls -> CallState] /\ CallsHold' /\ Alone' /\ CallsAreFresh'
  BY <1>1, CallGoesOn
<1>3. TypeOK' /\ DevicesPoint'
  BY <1>2 DEF IInv, TypeOK, TablesOK, DevicesPoint, SignedIn
<1>4. QED  BY <1>1, <1>2, <1>3 DEF IInv

\* Codes come and go without the tokens.
LEMMA TokensAreKept ==
    ASSUME IInv, NEW c \in Calls, NEW x, call' = [call EXCEPT ![c] = x],
           call[c].op # "revoke", UNCHANGED <<world, account, tokens>>
    PROVE  OwnersAreOnboarded' /\ OutdatedAreRevoked'
BY DEF IInv, TypeOK, TablesOK, OwnersAreOnboarded, OutdatedAreRevoked, Orderly,
       LiveTokens, Live, world

\* Codes are kept by whoever does not write them.
LEMMA CodesAreKept ==
    ASSUME IInv, UNCHANGED <<world, codes>>
    PROVE  AttemptsAreGuesses'
BY DEF IInv, AttemptsAreGuesses, world

LEMMA SendCodeStep ==
    ASSUME IInv, NEW c \in Calls, SendCode(c), UNCHANGED device
    PROVE  IInv'
<1> USE DEF SendCode, Become
<1> DEFINE code == [owner |-> call[c].owner, purpose |-> call[c].purpose,
                    expires |-> now + CodeTTL, attempts |-> 0,
                    used |-> FALSE, guesses |-> 0]
<1>1. call[c] \in CallState /\ codes \in Seq(Code)
  BY DEF IInv, TypeOK, TablesOK
<1>2. code \in Code
  <2>1. now + CodeTTL \in Nat
    BY SessionsAssumption DEF IInv, Counters
  <2>2. call[c].owner \in Residents /\ call[c].purpose \in Purposes
    BY <1>1, CallFields
  <2>3. QED  BY <2>1, <2>2 DEF Code
<1>3. codes' = Append(codes, code)
  OBVIOUS
<1>4. codes' \in Seq(Code) /\ Len(codes') = Len(codes) + 1
      /\ \A i \in 1..Len(codes) : codes'[i] = codes[i]
      /\ codes'[Len(codes) + 1] = code
  <2> HIDE DEF code
  <2>1. QED  BY <1>1, <1>2, <1>3
<1>5. AttemptsAreGuesses'
  <2>1. MaxAttempts \in Nat
    BY SessionsAssumption
  <2>2. QED
    BY <1>1, <1>4, <2>1 DEF IInv, AttemptsAreGuesses, world
<1>6. call[c] # Idle /\ call[c].op # "revoke"
  BY DEF Idle
<1>7. OwnersAreOnboarded' /\ OutdatedAreRevoked'
  BY <1>6, TokensAreKept
<1>8. Points(Idle)' /\ Enrolled(Idle)' /\ Fresh(Idle)'
  BY DEF Points, Enrolled, Fresh, Idle
<1>9. /\ account' \in [Subjects -> Account] /\ forms' \subseteq Form
      /\ tokens' \in Seq(Token)
  BY DEF IInv, TypeOK, TablesOK
<1>10. QED
  BY <1>4, <1>5, <1>6, <1>7, <1>8, <1>9, IdleIsSound, CommitStep

\* What a judgement makes of a code.
LEMMA UsedCode ==
    ASSUME NEW x \in Code
    PROVE  LET y == [x EXCEPT !.used = TRUE]
           IN  y \in Code /\ y.attempts = x.attempts /\ y.guesses = x.guesses
<1>1. [x EXCEPT !.used = TRUE] \in Code
  BY Zenon DEF Code
<1>2. [x EXCEPT !.used = TRUE].attempts = x.attempts
  BY DEF Code
<1>3. [x EXCEPT !.used = TRUE].guesses = x.guesses
  BY DEF Code
<1>4. QED  BY <1>1, <1>2, <1>3

LEMMA GuessedCode ==
    ASSUME NEW x \in Code, NEW a \in Nat
    PROVE  LET y == [x EXCEPT !.attempts = a, !.guesses = @ + 1]
           IN  y \in Code /\ y.attempts = a /\ y.guesses = x.guesses + 1
<1> DEFINE z == [x EXCEPT !.attempts = a]
<1>1. z \in Code /\ z.attempts = a /\ z.guesses = x.guesses
  BY DEF Code
<1>2. x.guesses + 1 \in Nat
  BY DEF Code
<1>3. [x EXCEPT !.attempts = a, !.guesses = @ + 1] = [z EXCEPT !.guesses = x.guesses + 1]
  BY <1>1 DEF Code
<1>4. ASSUME NEW v \in Code, NEW g \in Nat
      PROVE  LET y == [v EXCEPT !.guesses = g]
             IN  y \in Code /\ y.attempts = v.attempts /\ y.guesses = g
  BY DEF Code
<1> HIDE DEF z
<1>5. QED  BY <1>1, <1>2, <1>3, <1>4

LEMMA JudgeCodeStep ==
    ASSUME IInv, NEW c \in Calls, JudgeCode(c), UNCHANGED device
    PROVE  IInv'
<1> USE DEF JudgeCode, Become
<1> DEFINE i == call[c].code
<1>1. call[c] \in CallState /\ codes \in Seq(Code) /\ call[c].op = "judge"
  BY DEF IInv, TypeOK, TablesOK
<1>2. /\ call[c].owner \in Residents /\ call[c].purpose \in Purposes
      /\ call[c].attempts \in Nat /\ i \in Nat
  BY <1>1, CallFields
<1>3. /\ DOMAIN codes' = DOMAIN codes
      /\ \A j \in DOMAIN codes : j # i => codes'[j] = codes[j]
  OBVIOUS
<1>4. i \in DOMAIN codes =>
        IF call[c].right
        THEN codes'[i] = [codes[i] EXCEPT !.used = TRUE]
        ELSE codes'[i] = [codes[i] EXCEPT !.attempts = call[c].attempts + 1,
                                          !.guesses = @ + 1]
  BY DEF Counted
<1>5. \A j \in DOMAIN codes : codes[j] \in Code
  BY RowFields DEF IInv
<1>6. \A j \in DOMAIN codes : codes'[j] \in Code
  <2>1. call[c].attempts + 1 \in Nat
    BY <1>2
  <2>2. i \in DOMAIN codes => [codes[i] EXCEPT !.used = TRUE] \in Code
    BY <1>5, UsedCode
  <2>3. i \in DOMAIN codes =>
          [codes[i] EXCEPT !.attempts = call[c].attempts + 1, !.guesses = @ + 1] \in Code
    BY <1>5, <2>1, GuessedCode
  <2>4. QED  BY <1>3, <1>4, <1>5, <2>2, <2>3
<1>7. codes' \in Seq(Code)
  <2>1. DOMAIN codes = 1..Len(codes) /\ Len(codes) \in Nat
    BY <1>1
  <2>2. codes' = [j \in 1..Len(codes) |-> codes'[j]]
    BY <2>1
  <2>3. codes' \in [1..Len(codes) -> Code]
    BY <1>6, <2>1, <2>2
  <2>4. QED  BY <2>1, <2>3, FunctionIsSeq
<1>8. AttemptsAreGuesses'
  <2>1. SUFFICES ASSUME ~mingled, NEW j \in DOMAIN codes
                 PROVE  /\ codes'[j].guesses = codes'[j].attempts
                        /\ codes'[j].attempts <= MaxAttempts
    BY <1>3 DEF AttemptsAreGuesses, world
  <2>2. /\ codes[j].guesses = codes[j].attempts /\ codes[j].attempts <= MaxAttempts
    BY <2>1 DEF IInv, AttemptsAreGuesses
  <2>3. i \in DOMAIN codes /\ codes[i].attempts = call[c].attempts
        /\ codes[i].attempts < MaxAttempts
    BY <1>1, <2>1 DEF IInv, CallsAreFresh, Fresh
  <2>4. MaxAttempts \in Nat
    BY SessionsAssumption
  <2>5. CASE j # i
    BY <1>3, <2>2, <2>5
  <2>6. CASE j = i
    <3>1. codes[i] \in Code
      BY <1>5, <2>3
    <3>2. CASE call[c].right
      BY <1>4, <2>2, <2>3, <2>6, <3>1, <3>2, UsedCode
    <3>3. CASE ~call[c].right
      <4>1. /\ codes'[i].attempts = call[c].attempts + 1
            /\ codes'[i].guesses = codes[i].guesses + 1
        <5>1. call[c].attempts + 1 \in Nat
          BY <1>2
        <5>2. LET y == [codes[i] EXCEPT !.attempts = call[c].attempts + 1, !.guesses = @ + 1]
              IN  y.attempts = call[c].attempts + 1 /\ y.guesses = codes[i].guesses + 1
          BY <3>1, <5>1, GuessedCode
        <5>3. QED  BY <1>4, <2>3, <3>3, <5>2
      <4>2. QED  BY <1>2, <2>2, <2>3, <2>4, <2>6, <4>1
    <3>4. QED  BY <3>2, <3>3
  <2>7. QED  BY <2>5, <2>6
<1>9. call[c] # Idle /\ call[c].op # "revoke"
  BY DEF Idle
<1>10. OwnersAreOnboarded' /\ OutdatedAreRevoked'
  BY <1>9, TokensAreKept
<1>11. Points(Idle)' /\ Enrolled(Idle)' /\ Fresh(Idle)'
  BY DEF Points, Enrolled, Fresh, Idle
<1>12. forms' \subseteq Form
  <2>1. now + FormTTL \in Nat
    BY SessionsAssumption DEF IInv, Counters
  <2>2. QED  BY <1>2, <2>1 DEF IInv, TypeOK, TablesOK, Form
<1>13. account' \in [Subjects -> Account] /\ tokens' \in Seq(Token)
  BY DEF IInv, TypeOK, TablesOK
<1>14. QED
  BY <1>7, <1>8, <1>9, <1>10, <1>11, <1>12, <1>13, IdleIsSound, CommitStep

\* A new password is one, and nobody else's changes.
LEMMA NewPasswordIs ==
    ASSUME account \in [Subjects -> Account], NEW r \in Residents,
           NEW by \in {"chosen", "random"}, NewPassword(r, by)
    PROVE  /\ account' \in [Subjects -> Account]
           /\ account'[r].password = by /\ account'[r].era = account[r].era + 1
           /\ \A o \in Subjects \ {r} : account'[o] = account[o]
<1>1. r \in Subjects /\ account[r] \in Account
  BY DEF Subjects
<1> DEFINE z == [account[r] EXCEPT !.password = by]
<1>2. z \in Account /\ z.password = by /\ z.era = account[r].era
  BY <1>1 DEF Account
<1>3. account[r].era + 1 \in Nat
  BY <1>1 DEF Account
<1>4. account' = [account EXCEPT ![r] = [z EXCEPT !.era = account[r].era + 1]]
  BY <1>1, <1>2 DEF NewPassword
<1>5. ASSUME NEW v \in Account, NEW e \in Nat
      PROVE  LET y == [v EXCEPT !.era = e]
             IN  y \in Account /\ y.password = v.password /\ y.era = e
  BY DEF Account
<1> HIDE DEF z
<1>6. LET y == [z EXCEPT !.era = account[r].era + 1]
      IN  y \in Account /\ y.password = by /\ y.era = account[r].era + 1
  BY <1>2, <1>3, <1>5
<1>7. QED  BY <1>1, <1>4, <1>6

LEMMA OnboardStep ==
    ASSUME IInv, NEW c \in Calls, Onboard(c), UNCHANGED device
    PROVE  IInv'
<1> DEFINE o == call[c].owner
<1>0. PICK x : x = [op |-> "issue", device |-> call[c].device, owner |-> o,
                    era |-> account[o].era + 1]
  OBVIOUS
<1> USE DEF Onboard
<1>1. call[c] \in CallState /\ account \in [Subjects -> Account] /\ call[c] # Idle
  BY DEF IInv, TypeOK, TablesOK, Idle
<1>2. o \in Residents /\ o \in Subjects /\ call[c].device \in Client
  BY <1>1, CallFields DEF Subjects
<1>3. /\ account' \in [Subjects -> Account]
      /\ account'[o].password = "chosen" /\ account'[o].era = account[o].era + 1
      /\ \A p \in Subjects \ {o} : account'[p] = account[p]
  BY <1>1, <1>2, NewPasswordIs
<1>4. x \in CallState
  BY <1>0, <1>1, <1>2 DEF CallState, Account
<1>5. Points(x)' /\ Enrolled(x)' /\ Fresh(x)'
  BY <1>0, <1>3 DEF Points, Enrolled, Fresh
<1>6. OwnersAreOnboarded'
  BY <1>3, RowFields DEF IInv, OwnersAreOnboarded
<1>7. AttemptsAreGuesses'
  BY CodesAreKept
<1>8. OutdatedAreRevoked'
  <2>1. SUFFICES ASSUME ~mingled, faults = 0, NEW k \in LiveTokens
                 PROVE  \/ tokens[k].era = account'[tokens[k].owner].era
                        \/ \E b \in Calls : call'[b].op = "revoke"
                                            /\ call'[b].owner = tokens[k].owner
    BY DEF OutdatedAreRevoked, Orderly, LiveTokens, Live, world
  <2>2. k \in DOMAIN tokens /\ tokens[k].owner \in Subjects
    BY RowFields DEF IInv, LiveTokens
  <2>3. tokens[k].owner # o
    BY <1>1, <2>1, <2>2 DEF IInv, CallsAreFresh, Fresh, OwnersAreOnboarded
  <2>4. \A b \in Calls : call[b].op # "revoke"
    BY <1>1, <2>1 DEF IInv, Alone, Idle
  <2>5. QED  BY <1>3, <2>1, <2>2, <2>3, <2>4 DEF IInv, OutdatedAreRevoked, Orderly
<1>9. /\ call' = [call EXCEPT ![c] = x] /\ UNCHANGED <<world, device>>
      /\ codes' \in Seq(Code) /\ forms' \subseteq Form /\ tokens' \in Seq(Token)
      /\ UNCHANGED tokens
  BY <1>0 DEF Become, IInv, TypeOK, TablesOK
<1>10. \A p \in Subjects : account[p].password # "none" => account'[p].password # "none"
  BY <1>3
<1>11. QED
  BY <1>1, <1>3, <1>4, <1>5, <1>6, <1>7, <1>8, <1>9, <1>10, CommitStep

LEMMA ReplaceStep ==
    ASSUME IInv, NEW c \in Calls, Replace(c), UNCHANGED device
    PROVE  IInv'
<1> DEFINE o == call[c].owner
<1>0. PICK x : x = ThenRevoke(o)
  OBVIOUS
<1> USE DEF Replace
<1>1. call[c] \in CallState /\ account \in [Subjects -> Account] /\ call[c] # Idle
  BY DEF IInv, TypeOK, TablesOK, Idle
<1>2. o \in Residents /\ o \in Subjects /\ call[c].by \in {"chosen", "random"}
  BY <1>1, CallFields DEF Subjects
<1>3. /\ account' \in [Subjects -> Account]
      /\ account'[o].password # "none"
      /\ \A p \in Subjects \ {o} : account'[p] = account[p]
  BY <1>1, <1>2, NewPasswordIs
<1>4. x \in CallState
  BY <1>0, <1>2 DEF CallState, ThenRevoke, Client
<1>5. Points(x)' /\ Enrolled(x)' /\ Fresh(x)'
  BY <1>0 DEF Points, Enrolled, Fresh, ThenRevoke
<1>6. OwnersAreOnboarded'
  BY <1>3, RowFields DEF IInv, OwnersAreOnboarded
<1>7. AttemptsAreGuesses'
  BY CodesAreKept
<1>8. OutdatedAreRevoked'
  <2>1. SUFFICES ASSUME Orderly, NEW k \in LiveTokens
                 PROVE  \/ tokens[k].era = account'[tokens[k].owner].era
                        \/ \E b \in Calls : call'[b].op = "revoke"
                                            /\ call'[b].owner = tokens[k].owner
    BY DEF OutdatedAreRevoked, Orderly, LiveTokens, Live, world
  <2>2. k \in DOMAIN tokens /\ tokens[k].owner \in Subjects
    BY RowFields DEF IInv, LiveTokens
  <2>3. call'[c].op = "revoke" /\ call'[c].owner = o
        /\ \A b \in Calls \ {c} : call'[b] = call[b]
    BY DEF Become, ThenRevoke, IInv, TypeOK, TablesOK
  <2>4. QED  BY <1>3, <2>1, <2>2, <2>3 DEF IInv, OutdatedAreRevoked
<1>9. /\ call' = [call EXCEPT ![c] = x] /\ UNCHANGED <<world, device>>
      /\ codes' \in Seq(Code) /\ forms' \subseteq Form /\ tokens' \in Seq(Token)
      /\ UNCHANGED tokens
  BY <1>0 DEF Become, IInv, TypeOK, TablesOK
<1>10. \A p \in Subjects : account[p].password # "none" => account'[p].password # "none"
  BY <1>3
<1>11. QED
  BY <1>1, <1>3, <1>4, <1>5, <1>6, <1>7, <1>8, <1>9, <1>10, CommitStep

LEMMA SetActiveStep ==
    ASSUME IInv, NEW c \in Calls, SetActive(c), UNCHANGED device
    PROVE  IInv'
<1> DEFINE o == call[c].owner
<1>0. PICK x : x = IF call[c].revoke THEN ThenRevoke(o) ELSE Idle
  OBVIOUS
<1> USE DEF SetActive
<1>1. /\ call[c] \in CallState /\ account \in [Subjects -> Account]
      /\ call[c] # Idle /\ call[c].op # "revoke"
  BY DEF IInv, TypeOK, TablesOK, Idle
<1>2. o \in Residents /\ o \in Subjects /\ call[c].active \in BOOLEAN
  BY <1>1, CallFields DEF Subjects
<1>3. /\ account' \in [Subjects -> Account]
      /\ \A p \in Subjects : /\ account'[p].password = account[p].password
                             /\ account'[p].era = account[p].era
  <2>1. ASSUME NEW v \in Account, NEW b \in BOOLEAN
        PROVE  [v EXCEPT !.active = b] \in Account
    BY Zenon DEF Account
  <2>2. ASSUME NEW v \in Account, NEW b
        PROVE  LET y == [v EXCEPT !.active = b]
               IN  y.password = v.password /\ y.era = v.era
    BY DEF Account
  <2>3. account[o] \in Account
    BY <1>1, <1>2
  <2>4. \/ account' = account
        \/ account' = [account EXCEPT ![o] = [account[o] EXCEPT !.active = call[c].active]]
    OBVIOUS
  <2>5. PICK v : v = [account[o] EXCEPT !.active = call[c].active]
    OBVIOUS
  <2>6. v \in Account
    BY <1>2, <2>1, <2>3, <2>5
  <2>7. v.password = account[o].password /\ v.era = account[o].era
    BY <2>2, <2>3, <2>5
  <2>8. QED  BY <1>1, <1>2, <2>4, <2>5, <2>6, <2>7
<1>4. x \in CallState
  BY <1>0, <1>2, IdleIsSound DEF CallState, ThenRevoke, Client
<1>5. Points(x)' /\ Enrolled(x)' /\ Fresh(x)'
  BY <1>0 DEF Points, Enrolled, Fresh, ThenRevoke, Idle
<1>6. OwnersAreOnboarded'
  BY <1>3, RowFields DEF IInv, OwnersAreOnboarded
<1>7. AttemptsAreGuesses'
  BY CodesAreKept
<1>8. OutdatedAreRevoked'
  <2>1. SUFFICES ASSUME Orderly, NEW k \in LiveTokens
                 PROVE  \/ tokens[k].era = account'[tokens[k].owner].era
                        \/ \E b \in Calls : call'[b].op = "revoke"
                                            /\ call'[b].owner = tokens[k].owner
    BY DEF OutdatedAreRevoked, Orderly, LiveTokens, Live, world
  <2>2. k \in DOMAIN tokens /\ tokens[k].owner \in Subjects
    BY RowFields DEF IInv, LiveTokens
  <2>3. \A b \in Calls \ {c} : call'[b] = call[b]
    BY DEF Become, IInv, TypeOK, TablesOK
  <2>4. QED  BY <1>1, <1>3, <2>1, <2>2, <2>3 DEF IInv, OutdatedAreRevoked
<1>9. /\ call' = [call EXCEPT ![c] = x] /\ UNCHANGED <<world, device>>
      /\ codes' \in Seq(Code) /\ forms' \subseteq Form /\ tokens' \in Seq(Token)
      /\ UNCHANGED tokens
  BY <1>0 DEF Become, IInv, TypeOK, TablesOK
<1>10. QED
  BY <1>1, <1>3, <1>4, <1>5, <1>6, <1>7, <1>8, <1>9, CommitStep

\* Revoking a token, with or without a successor, changes nothing else of it.
LEMMA RevokedToken ==
    ASSUME NEW x \in Token
    PROVE  LET y == [x EXCEPT !.revoked = TRUE]
           IN  /\ y \in Token /\ y.revoked
               /\ y.owner = x.owner /\ y.session = x.session /\ y.era = x.era
<1>1. [x EXCEPT !.revoked = TRUE] \in Token
  BY Zenon DEF Token
<1>2. [x EXCEPT !.revoked = TRUE].revoked
  BY DEF Token
<1>3. LET y == [x EXCEPT !.revoked = TRUE]
      IN  y.owner = x.owner /\ y.session = x.session /\ y.era = x.era
  BY DEF Token
<1>4. QED  BY <1>1, <1>2, <1>3

LEMMA RetiredToken ==
    ASSUME NEW x \in Token, NEW new \in Nat
    PROVE  LET y == Retired(x, new)
           IN  /\ y \in Token /\ y.revoked
               /\ y.owner = x.owner /\ y.session = x.session /\ y.era = x.era
<1> DEFINE z == [x EXCEPT !.revoked = TRUE]
<1>1. z \in Token /\ z.revoked
      /\ z.owner = x.owner /\ z.session = x.session /\ z.era = x.era
  BY RevokedToken
<1>2. Retired(x, new) = [z EXCEPT !.next = new]
  BY DEF Retired, Token
<1>3. ASSUME NEW v \in Token
      PROVE  [v EXCEPT !.next = new] \in Token
  BY Zenon DEF Token
<1>4. ASSUME NEW v \in Token
      PROVE  LET y == [v EXCEPT !.next = new]
             IN  /\ y.revoked = v.revoked /\ y.owner = v.owner
                 /\ y.session = v.session /\ y.era = v.era
  BY DEF Token
<1> HIDE DEF z
<1>5. QED  BY <1>1, <1>2, <1>3, <1>4

\* Tokens are revoked, by a call that is done with them.
LEMMA TokensAreRevoked ==
    ASSUME IInv, NEW c \in Calls, NEW x, call' = [call EXCEPT ![c] = x],
           UNCHANGED <<world, account>>, DOMAIN tokens' = DOMAIN tokens,
           \A k \in DOMAIN tokens :
             /\ tokens'[k] \in Token
             /\ tokens'[k].owner = tokens[k].owner /\ tokens'[k].era = tokens[k].era
             /\ tokens[k].revoked => tokens'[k].revoked,
           call[c].op = "revoke" =>
             \A k \in DOMAIN tokens :
               tokens[k].owner = call[c].owner => tokens'[k].revoked
    PROVE  OwnersAreOnboarded' /\ OutdatedAreRevoked'
<1>1. OwnersAreOnboarded'
  BY DEF IInv, OwnersAreOnboarded
<1>2. SUFFICES ASSUME Orderly, NEW k \in DOMAIN tokens, ~tokens'[k].revoked
               PROVE  \/ tokens'[k].era = account[tokens'[k].owner].era
                      \/ \E b \in Calls : call'[b].op = "revoke"
                                          /\ call'[b].owner = tokens'[k].owner
  BY <1>1 DEF OutdatedAreRevoked, Orderly, LiveTokens, Live, world
<1>3. k \in LiveTokens
  BY <1>2 DEF LiveTokens, Live
<1>4. \A b \in Calls \ {c} : call'[b] = call[b]
  BY DEF IInv, TypeOK, TablesOK
<1>5. QED  BY <1>2, <1>3, <1>4 DEF IInv, OutdatedAreRevoked

\* A token is issued for whoever has a password, the present one.
LEMMA TokenIsIssued ==
    ASSUME IInv, NEW c \in Calls, NEW x, call' = [call EXCEPT ![c] = x],
           call[c] # Idle, call[c].op # "revoke", UNCHANGED <<world, account>>,
           NEW t \in Token, tokens' = Append(tokens, t),
           account[t.owner].password # "none",
           Orderly => \/ t.era = account[t.owner].era
                      \/ \E b \in Calls : call[b].op = "revoke"
    PROVE  /\ tokens' \in Seq(Token)
           /\ \A k \in DOMAIN tokens : k \in DOMAIN tokens'
           /\ Len(tokens) + 1 \in DOMAIN tokens'
           /\ tokens'[Len(tokens) + 1] = t
           /\ \A k \in DOMAIN tokens : tokens'[k] = tokens[k]
           /\ OwnersAreOnboarded' /\ OutdatedAreRevoked'
<1>1. tokens \in Seq(Token)
  BY DEF IInv, TypeOK, TablesOK
<1>2. /\ tokens' \in Seq(Token)
      /\ DOMAIN tokens' = DOMAIN tokens \cup {Len(tokens) + 1}
      /\ tokens'[Len(tokens) + 1] = t
      /\ \A k \in DOMAIN tokens : tokens'[k] = tokens[k]
  BY <1>1
<1>3. OwnersAreOnboarded'
  BY <1>2 DEF IInv, OwnersAreOnboarded
<1>4. OutdatedAreRevoked'
  <2>1. SUFFICES ASSUME Orderly, NEW k \in DOMAIN tokens', ~tokens'[k].revoked
                 PROVE  tokens'[k].era = account[tokens'[k].owner].era
    BY DEF OutdatedAreRevoked, Orderly, LiveTokens, Live, world
  <2>2. \A b \in Calls : call[b].op # "revoke"
    BY <2>1 DEF IInv, Alone, Orderly, Idle
  <2>3. CASE k = Len(tokens) + 1
    BY <1>2, <2>1, <2>2, <2>3 DEF Orderly
  <2>4. CASE k \in DOMAIN tokens
    BY <1>2, <2>1, <2>2, <2>4 DEF IInv, OutdatedAreRevoked, LiveTokens, Live
  <2>5. QED  BY <1>2, <2>1, <2>3, <2>4
<1>5. QED  BY <1>2, <1>3, <1>4

LEMMA RevokeStep ==
    ASSUME IInv, NEW c \in Calls, Revoke(c), UNCHANGED device
    PROVE  IInv'
<1> USE DEF Revoke
<1>1. /\ call[c] \in CallState /\ call[c] # Idle /\ call[c].device \in Client
      /\ \A k \in DOMAIN tokens : tokens[k] \in Token
      /\ DOMAIN tokens = 1..Len(tokens) /\ Len(tokens) \in Nat
  BY CallFields, RowFields DEF IInv, TypeOK, TablesOK, Idle
<1>2. PICK x : /\ call' = [call EXCEPT ![c] = x]
               /\ \/ x = Idle
                  \/ /\ call[c].device \in Devices
                     /\ x = [op |-> "refused", device |-> call[c].device]
  BY <1>1, AnswerIs
<1>3. x \in CallState /\ Points(x)' /\ Enrolled(x)' /\ Fresh(x)'
  BY <1>2, IdleIsSound DEF CallState, Points, Enrolled, Fresh, Idle
<1>4. /\ DOMAIN tokens' = DOMAIN tokens
      /\ \A k \in DOMAIN tokens :
           tokens'[k] = IF tokens[k].owner = call[c].owner
                        THEN [tokens[k] EXCEPT !.revoked = TRUE] ELSE tokens[k]
  BY DEF AllRevoked
<1>5. \A k \in DOMAIN tokens :
        /\ tokens'[k] \in Token
        /\ tokens'[k].owner = tokens[k].owner /\ tokens'[k].era = tokens[k].era
        /\ tokens[k].revoked => tokens'[k].revoked
        /\ tokens[k].owner = call[c].owner => tokens'[k].revoked
  <2>1. SUFFICES ASSUME NEW k \in DOMAIN tokens
                 PROVE  /\ tokens'[k] \in Token
                        /\ tokens'[k].owner = tokens[k].owner
                        /\ tokens'[k].era = tokens[k].era
                        /\ tokens[k].revoked => tokens'[k].revoked
                        /\ tokens[k].owner = call[c].owner => tokens'[k].revoked
    OBVIOUS
  <2>2. tokens[k] \in Token
    BY <1>1
  <2>3. CASE tokens[k].owner # call[c].owner
    BY <1>4, <2>2, <2>3
  <2>4. CASE tokens[k].owner = call[c].owner
    <3>1. tokens'[k] = [tokens[k] EXCEPT !.revoked = TRUE]
      BY <1>4, <2>4
    <3>2. QED  BY <2>2, <3>1, RevokedToken
  <2>5. QED  BY <2>3, <2>4
<1>6. tokens' \in Seq(Token)
  <2>1. tokens' = [k \in DOMAIN tokens |-> tokens'[k]]
    BY DEF AllRevoked
  <2>2. tokens' \in [1..Len(tokens) -> Token]
    BY <1>1, <1>5, <2>1
  <2>3. QED  BY <1>1, <2>2, FunctionIsSeq
<1>7. OwnersAreOnboarded' /\ OutdatedAreRevoked'
  BY <1>2, <1>4, <1>5, TokensAreRevoked
<1>8. AttemptsAreGuesses'
  BY CodesAreKept
<1>9. account' \in [Subjects -> Account] /\ codes' \in Seq(Code) /\ forms' \subseteq Form
  BY DEF IInv, TypeOK, TablesOK
<1>10. QED
  BY <1>1, <1>2, <1>3, <1>4, <1>6, <1>7, <1>8, <1>9, CommitStep

\* One token is revoked, by the call that has loaded it.
LEMMA OneTokenRevokedStep ==
    ASSUME IInv, NEW c \in Calls, Retire(c) \/ Drop(c), UNCHANGED device
    PROVE  IInv'
<1> DEFINE i == call[c].token
<1>1. /\ call[c] \in CallState /\ call[c] # Idle /\ call[c].op # "revoke"
      /\ call[c].device \in Client /\ i \in DOMAIN tokens
      /\ Retire(c) => /\ call[c].new \in Nat /\ call[c].new \in DOMAIN tokens
                      /\ call[c].exp \in Nat
      /\ \A k \in DOMAIN tokens : tokens[k] \in Token
      /\ DOMAIN tokens = 1..Len(tokens) /\ Len(tokens) \in Nat
  BY CallFields, RowFields
  DEF IInv, TypeOK, TablesOK, Idle, CallsHold, Points, Retire, Drop
<1>2. PICK x : /\ call' = [call EXCEPT ![c] = x]
               /\ \/ x = Idle
                  \/ /\ call[c].device \in Devices
                     /\ \/ x = [op |-> "bye", device |-> call[c].device]
                        \/ /\ Retire(c)
                           /\ x = [op |-> "pair", device |-> call[c].device,
                                   token |-> call[c].new, exp |-> call[c].exp,
                                   then |-> "resend"]
  BY <1>1, AnswerIs DEF Retire, Drop
<1>3. x \in CallState
  BY <1>1, <1>2, IdleIsSound DEF CallState
<1>4. PICK v : v \in {Retired(tokens[i], call[c].new), [tokens[i] EXCEPT !.revoked = TRUE]}
               /\ (Retire(c) \/ v = [tokens[i] EXCEPT !.revoked = TRUE])
               /\ tokens' = [tokens EXCEPT ![i] = v]
  BY DEF Retire, Drop
<1>5. v \in Token /\ v.revoked /\ v.owner = tokens[i].owner /\ v.era = tokens[i].era
  <2>1. CASE v = [tokens[i] EXCEPT !.revoked = TRUE]
    BY <1>1, <2>1, RevokedToken
  <2>2. CASE Retire(c) /\ v = Retired(tokens[i], call[c].new)
    BY <1>1, <2>2, RetiredToken
  <2>3. QED  BY <1>4, <2>1, <2>2
<1>6. /\ DOMAIN tokens' = DOMAIN tokens
      /\ \A k \in DOMAIN tokens : tokens'[k] = IF k = i THEN v ELSE tokens[k]
  BY <1>4
<1>7. \A k \in DOMAIN tokens :
        /\ tokens'[k] \in Token
        /\ tokens'[k].owner = tokens[k].owner /\ tokens'[k].era = tokens[k].era
        /\ tokens[k].revoked => tokens'[k].revoked
  BY <1>1, <1>5, <1>6
<1>8. tokens' \in Seq(Token)
  <2>1. tokens' = [k \in DOMAIN tokens |-> tokens'[k]]
    BY <1>4
  <2>2. tokens' \in [1..Len(tokens) -> Token]
    BY <1>1, <1>7, <2>1
  <2>3. QED  BY <1>1, <2>2, FunctionIsSeq
<1>9. Points(x)' /\ Enrolled(x)' /\ Fresh(x)'
  BY <1>1, <1>2, <1>6 DEF Points, Enrolled, Fresh, Idle
<1>10. /\ UNCHANGED <<world, device>> /\ UNCHANGED <<account, codes, forms>>
       /\ account' \in [Subjects -> Account] /\ codes' \in Seq(Code) /\ forms' \subseteq Form
  BY DEF Retire, Drop, IInv, TypeOK, TablesOK
<1>11. OwnersAreOnboarded' /\ OutdatedAreRevoked'
  BY <1>1, <1>2, <1>6, <1>7, <1>10, TokensAreRevoked
<1>12. AttemptsAreGuesses'
  BY <1>10, CodesAreKept
<1>13. QED
  BY <1>1, <1>2, <1>3, <1>6, <1>8, <1>9, <1>10, <1>11, <1>12, CommitStep

\* What is issued expires at a time.
LEMMA Deadlines ==
    ASSUME IInv
    PROVE  /\ now + AccessTTL \in Nat
           /\ \A o \in Subjects : now + RefreshTTL[o] \in Nat
<1>1. now \in Nat /\ AccessTTL \in Nat
  BY SessionsAssumption DEF IInv, Counters
<1>2. \A o \in Subjects : RefreshTTL[o] \in Nat
  BY SessionsAssumption
<1>3. QED  BY <1>1, <1>2

LEMMA IssueStep ==
    ASSUME IInv, NEW c \in Calls, Issue(c), UNCHANGED device
    PROVE  IInv'
<1> DEFINE o == call[c].owner
           n == Len(tokens) + 1
<1> USE DEF Issue
<1>1. /\ call[c] \in CallState /\ call[c] # Idle /\ call[c].op # "revoke"
      /\ call[c].device \in Client /\ o \in Subjects /\ call[c].era \in Nat
      /\ Len(tokens) \in Nat
  BY CallFields, RowFields DEF IInv, TypeOK, TablesOK, Idle
<1>2. now + RefreshTTL[o] \in Nat /\ now + AccessTTL \in Nat
  BY <1>1, Deadlines
<1>3. PICK t : t = NewToken(o, n, call[c].era)
  OBVIOUS
<1>4. t \in Token /\ t.owner = o /\ t.era = call[c].era
  BY <1>1, <1>2, <1>3 DEF NewToken, Token
<1>5. PICK x : /\ call' = [call EXCEPT ![c] = x]
               /\ \/ x = Idle
                  \/ /\ call[c].device \in Devices
                     /\ x = [op |-> "pair", device |-> call[c].device, token |-> n,
                             exp |-> now + AccessTTL, then |-> "idle"]
  BY <1>1, AnswerIs
<1>6. x \in CallState
  BY <1>1, <1>2, <1>5, IdleIsSound DEF CallState
<1>7. account[o].password # "none" /\ (Orderly => call[c].era = account[o].era)
  BY DEF IInv, CallsHold, Enrolled, CallsAreFresh, Fresh, Orderly
<1>8. /\ UNCHANGED <<world, device>> /\ UNCHANGED <<account, codes, forms>>
      /\ account' \in [Subjects -> Account] /\ codes' \in Seq(Code) /\ forms' \subseteq Form
      /\ tokens' = Append(tokens, t)
  BY <1>3 DEF IInv, TypeOK, TablesOK
<1>9. /\ tokens' \in Seq(Token)
      /\ \A k \in DOMAIN tokens : k \in DOMAIN tokens'
      /\ n \in DOMAIN tokens'
      /\ OwnersAreOnboarded' /\ OutdatedAreRevoked'
  BY <1>1, <1>4, <1>5, <1>7, <1>8, TokenIsIssued
<1>10. Points(x)' /\ Enrolled(x)' /\ Fresh(x)'
  BY <1>5, <1>9 DEF Points, Enrolled, Fresh, Idle
<1>11. AttemptsAreGuesses'
  BY <1>8, CodesAreKept
<1>12. QED
  BY <1>1, <1>5, <1>6, <1>8, <1>9, <1>10, <1>11, CommitStep

LEMMA RotateStep ==
    ASSUME IInv, NEW c \in Calls, Rotate(c), UNCHANGED device
    PROVE  IInv'
<1> DEFINE old == tokens[call[c].token]
           n == Len(tokens) + 1
<1> USE DEF Rotate
<1>1. /\ call[c] \in CallState /\ call[c] # Idle /\ call[c].op # "revoke"
      /\ call[c].device \in Client
      /\ call[c].token \in DOMAIN tokens /\ call[c].token \in Nat
      /\ old.owner \in Subjects /\ old.session \in Nat /\ old.era \in Nat
      /\ Len(tokens) \in Nat
  BY CallFields, RowFields DEF IInv, TypeOK, TablesOK, Idle, CallsHold, Points
<1>2. now + RefreshTTL[old.owner] \in Nat /\ now + AccessTTL \in Nat
  BY <1>1, Deadlines
<1>3. PICK t : t = NewToken(old.owner, old.session, old.era)
  OBVIOUS
<1>4. t \in Token /\ t.owner = old.owner /\ t.era = old.era
  BY <1>1, <1>2, <1>3 DEF NewToken, Token
<1>5. PICK x : /\ x = [op |-> "retire", device |-> call[c].device,
                       token |-> call[c].token, new |-> n, exp |-> now + AccessTTL]
               /\ call' = [call EXCEPT ![c] = x]
  BY DEF Become
<1>6. x \in CallState
  BY <1>1, <1>2, <1>5 DEF CallState
<1>7. account[old.owner].password # "none"
  BY <1>1 DEF IInv, OwnersAreOnboarded
<1>8. Orderly => old.era = account[old.owner].era \/ \E b \in Calls : call[b].op = "revoke"
  <2>1. ~mingled => call[c].token \in LiveTokens
    BY <1>1 DEF IInv, CallsAreFresh, Fresh, LiveTokens
  <2>2. QED  BY <2>1 DEF IInv, OutdatedAreRevoked, Orderly
<1>9. /\ UNCHANGED <<world, device>> /\ UNCHANGED <<account, codes, forms>>
      /\ account' \in [Subjects -> Account] /\ codes' \in Seq(Code) /\ forms' \subseteq Form
      /\ tokens' = Append(tokens, t)
  BY <1>3 DEF IInv, TypeOK, TablesOK
<1>10. /\ tokens' \in Seq(Token)
       /\ \A k \in DOMAIN tokens : k \in DOMAIN tokens'
       /\ n \in DOMAIN tokens'
       /\ OwnersAreOnboarded' /\ OutdatedAreRevoked'
  BY <1>1, <1>4, <1>5, <1>7, <1>8, <1>9, TokenIsIssued
<1>11. Points(x)' /\ Enrolled(x)' /\ Fresh(x)'
  BY <1>1, <1>5, <1>10 DEF Points, Enrolled, Fresh
<1>12. AttemptsAreGuesses'
  BY <1>9, CodesAreKept
<1>13. QED
  BY <1>1, <1>5, <1>6, <1>9, <1>10, <1>11, <1>12, CommitStep

-----------------------------------------------------------------------------
(* Faults and time.                                                        *)

LEMMA GiveUpStep ==
    ASSUME IInv, NEW c \in Calls, GiveUp(c)
    PROVE  IInv'
<1> DEFINE d == call[c].device
<1> USE DEF GiveUp
<1>1. call[c] \in CallState /\ faults \in Nat /\ Points(call[c]) /\ Enrolled(call[c])
  BY DEF IInv, TypeOK, TablesOK, Counters, CallsHold
<1>2. call[c].op \in {"onboard", "issue", "revoke", "refresh", "rotate", "logout",
                      "drop", "retire", "denied", "pair", "refused", "resend", "bye"}
  BY <1>1 DEF Awaited, CallState, Idle
<1>3. d \in Devices
  BY <1>1, <1>2, CallFields DEF Awaited, Client
<1>4. PICK x : /\ call' = [call EXCEPT ![c] = x]
               /\ x = IF call[c].op \in WithClient THEN Idle
                      ELSE [call[c] EXCEPT !.device = Nobody]
  BY DEF Become
<1>5. /\ x \in CallState /\ Points(x) /\ Enrolled(x)
      /\ (Fresh(call[c]) => Fresh(x))
  <2>1. CASE call[c].op \in WithClient
    BY <1>4, <2>1, IdleIsSound
  <2>2. CASE call[c].op = "onboard"
    <3>1. x = [op |-> "onboard", device |-> Nobody, owner |-> call[c].owner]
      BY <1>1, <1>4, <2>2, CallWithDevice DEF WithClient
    <3>2. QED
      BY <1>1, <2>2, <3>1, CallFields DEF CallState, Client, Points, Enrolled, Fresh
  <2>3. CASE call[c].op = "issue"
    <3>1. x = [op |-> "issue", device |-> Nobody, owner |-> call[c].owner,
               era |-> call[c].era]
      BY <1>1, <1>4, <2>3, CallWithDevice DEF WithClient
    <3>2. QED
      BY <1>1, <2>3, <3>1, CallFields DEF CallState, Client, Points, Enrolled, Fresh
  <2>4. CASE call[c].op = "revoke"
    <3>1. x = [op |-> "revoke", device |-> Nobody, owner |-> call[c].owner]
      BY <1>1, <1>4, <2>4, CallWithDevice DEF WithClient
    <3>2. QED
      BY <1>1, <2>4, <3>1, CallFields
      DEF CallState, Client, Points, Enrolled, Fresh, Subjects
  <2>5. CASE call[c].op \in {"refresh", "rotate", "logout", "drop"}
    <3>1. x = [op |-> call[c].op, device |-> Nobody, token |-> call[c].token]
      BY <1>1, <1>4, <2>5, CallWithDevice DEF WithClient
    <3>2. QED
      BY <1>1, <2>5, <3>1, CallFields DEF CallState, Client, Points, Enrolled, Fresh
  <2>6. CASE call[c].op = "retire"
    <3>1. x = [op |-> "retire", device |-> Nobody, token |-> call[c].token,
               new |-> call[c].new, exp |-> call[c].exp]
      BY <1>1, <1>4, <2>6, CallWithDevice DEF WithClient
    <3>2. QED
      BY <1>1, <2>6, <3>1, CallFields DEF CallState, Client, Points, Enrolled, Fresh
  <2>7. QED  BY <1>2, <2>1, <2>2, <2>3, <2>4, <2>5, <2>6 DEF WithClient
<1>6. ~mingled => Fresh(x)
  BY <1>5 DEF IInv, CallsAreFresh
<1>7. device' \in [Devices -> Stored] /\ DevicesPoint'
  BY <1>3 DEF IInv, TypeOK, Put, DevicesPoint, SignedIn, SignedOut, Stored, tables
<1>8. UNCHANGED tables /\ Counters' /\ mingled' = mingled /\ faults' > 0
      /\ faults' # faults /\ call[c] # Idle
  BY <1>1, <1>2 DEF IInv, Counters, Idle
<1>9. QED
  BY <1>4, <1>5, <1>6, <1>7, <1>8, QuietStep

LEMMA CrashStep ==
    ASSUME IInv, Crash
    PROVE  IInv'
<1> USE DEF Crash
<1>1. /\ faults \in Nat /\ faults' > 0 /\ \A c \in Calls : call'[c] = Idle
  BY DEF IInv, Counters
<1>2. device' \in [Devices -> Stored] /\ DevicesPoint'
  BY DEF IInv, TypeOK, DevicesPoint, SignedIn, SignedOut, Stored, tables
<1>3. TypeOK' /\ Counters'
  BY <1>2, IdleIsSound DEF IInv, TypeOK, TablesOK, Counters, tables
<1>4. CallsHold' /\ Alone' /\ CallsAreFresh'
  BY <1>1 DEF CallsHold, Alone, CallsAreFresh, Points, Enrolled, Fresh, Idle
<1>5. OwnersAreOnboarded' /\ AttemptsAreGuesses' /\ OutdatedAreRevoked'
  BY <1>1 DEF IInv, OwnersAreOnboarded, AttemptsAreGuesses, OutdatedAreRevoked,
              Orderly, tables
<1>6. QED  BY <1>2, <1>3, <1>4, <1>5 DEF IInv

LEMMA TimeStep ==
    ASSUME IInv, Tick \/ UNCHANGED vars
    PROVE  IInv'
<1>1. /\ UNCHANGED <<faults, requests, mingled, tables, call, device>>
      /\ now' \in Nat
  BY DEF Tick, vars, world, IInv, Counters
<1>2. TypeOK' /\ Counters'
  BY <1>1 DEF IInv, TypeOK, TablesOK, Counters, tables
<1>3. CallsHold' /\ DevicesPoint' /\ OwnersAreOnboarded' /\ Alone'
  BY <1>1 DEF IInv, CallsHold, Points, Enrolled, DevicesPoint, SignedIn,
              OwnersAreOnboarded, Alone, tables
<1>4. CallsAreFresh' /\ AttemptsAreGuesses' /\ OutdatedAreRevoked'
  BY <1>1 DEF IInv, CallsAreFresh, Fresh, AttemptsAreGuesses, OutdatedAreRevoked,
              Orderly, LiveTokens, Live, tables
<1>5. QED  BY <1>2, <1>3, <1>4 DEF IInv

-----------------------------------------------------------------------------
(* The invariant.                                                          *)

LEMMA InitIInv == Init => IInv
<1> SUFFICES ASSUME Init PROVE IInv
  OBVIOUS
<1> USE DEF Init, SessionsInit
<1>1. account \in [Subjects -> Account]
  <2>1. ASSUME NEW x \in [active: {TRUE}, password: {"none", "chosen"}, era: {0}]
        PROVE  x \in Account
    <3>1. x = [active |-> TRUE, password |-> x.password, era |-> 0]
          /\ x.password \in {"none", "chosen"}
      OBVIOUS
    <3>2. [active |-> TRUE, password |-> x.password, era |-> 0] \in Account
      BY <3>1 DEF Account
    <3>3. QED  BY <3>1, <3>2, Zenon
  <2>2. QED  BY <2>1
<1>2. codes \in Seq(Code) /\ tokens \in Seq(Token) /\ forms \subseteq Form
  OBVIOUS
<1>3. call \in [Calls -> CallState] /\ device \in [Devices -> Stored]
  BY IdleIsSound DEF Stored
<1>4. TypeOK
  BY <1>1, <1>2, <1>3 DEF TypeOK, TablesOK
<1>5. Counters
  <2>1. {now, faults, requests} \subseteq Nat
    OBVIOUS
  <2>2. mingled \in BOOLEAN
    BY Zenon
  <2>3. QED  BY <2>1, <2>2 DEF Counters
<1>6. CallsHold /\ DevicesPoint /\ OwnersAreOnboarded /\ Alone
  BY DEF CallsHold, Points, Enrolled, Idle, DevicesPoint, SignedIn,
         OwnersAreOnboarded, Alone
<1>7. CallsAreFresh /\ AttemptsAreGuesses /\ OutdatedAreRevoked
  BY DEF CallsAreFresh, Fresh, Idle, AttemptsAreGuesses, OutdatedAreRevoked, LiveTokens
<1>8. QED  BY <1>4, <1>5, <1>6, <1>7 DEF IInv

LEMMA NextIInv == IInv /\ [Next]_vars => IInv'
<1> SUFFICES ASSUME IInv, [Next]_vars PROVE IInv'
  OBVIOUS
<1>1. ASSUME NEW c \in Calls, HandlerStep(c), UNCHANGED device PROVE IInv'
  BY <1>1, RevokeStep, SendCodeStep, JudgeCodeStep, OnboardStep, ReplaceStep,
     SetActiveStep, IssueStep, RotateStep, OneTokenRevokedStep, ClientStep
  DEF HandlerStep
<1>2. ASSUME NEW c \in Calls, Step(c) PROVE IInv'
  BY <1>1, <1>2, ClientStep DEF Step
<1>3. ASSUME NEW c \in Calls,
             \/ Ask(c) /\ UNCHANGED device
             \/ \E d \in Devices : Call(c, d) \/ Logout(c, d)
      PROVE  IInv'
  BY <1>3, RequestStep
<1>4. QED
  BY <1>2, <1>3, GiveUpStep, CrashStep, TimeStep DEF Next

-----------------------------------------------------------------------------
(* Theorems.                                                               *)

\* The strengthened invariant holds of every run of handlers and devices, however
\* many calls overlap, wherever the backend restarts and whatever answers are lost.
THEOREM InductiveInvariant == Spec => []IInv
BY InitIInv, NextIInv, PTL DEF Spec

\* The tables, the calls and what devices store keep their types: each call refers
\* to rows that exist by the time its handler uses them.
THEOREM TypeCorrect == Spec => []TypeOK
<1>1. IInv => TypeOK
  BY DEF IInv
<1>2. QED  BY <1>1, InductiveInvariant, PTL

\* While no two calls overlap, no one-time code is tried more than max_attempts
\* times with a wrong guess: the column counts every one of them.
THEOREM GuessesCounted == Spec => []GuessesAreCounted
<1>1. IInv => GuessesAreCounted
  BY DEF IInv, AttemptsAreGuesses, GuessesAreCounted
<1>2. QED  BY <1>1, InductiveInvariant, PTL

\* With handlers one at a time and none cut off, no refresh token survives of a
\* session that was opened before the password was replaced.
THEOREM ResetsEndSessions == Spec => []ResetEndsSessions
<1>1. IInv => ResetEndsSessions
  <2>1. SUFFICES ASSUME IInv, Orderly, AllIdle, NEW k \in LiveTokens
                 PROVE  tokens[k].era = account[tokens[k].owner].era
    BY DEF ResetEndsSessions
  <2>2. \A c \in Calls : call[c].op # "revoke"
    BY <2>1 DEF AllIdle, Idle
  <2>3. QED  BY <2>1, <2>2 DEF IInv, OutdatedAreRevoked
<1>2. QED  BY <1>1, InductiveInvariant, PTL

\* Forms are handed out by the handler that judges codes, and by it alone.
LEMMA FormsFromCodes ==
    ASSUME [Next]_vars, forms' # forms
    PROVE  \E c \in Calls : JudgeCode(c)
<1> USE DEF tables, world, Begin
<1>1. ASSUME NEW c \in Calls, Step(c), ~JudgeCode(c) PROVE forms' = forms
  BY <1>1 DEF Step, HandlerStep, Revoke, SendCode, Onboard, Replace, SetActive, Issue,
              LoadRefresh, Rotate, Retire, LoadLogout, Drop,
              SendRefresh, TakePair, TakeRefusal, Resend, TakeBye
<1>2. ASSUME NEW c \in Calls, Ask(c) PROVE forms' = forms
  BY <1>2 DEF Ask, ResetResidentPassword, DeactivateResident, UpdateResident,
              RequestCode, VerifyCode, ConfirmPasswordReset, Login, SetSignupPassword
<1>3. ASSUME NEW c \in Calls, NEW d \in Devices, Call(c, d) \/ Logout(c, d)
      PROVE  forms' = forms
  BY <1>3 DEF Call, Logout
<1>4. (\E c \in Calls : GiveUp(c)) \/ Crash \/ Tick \/ UNCHANGED vars => forms' = forms
  BY DEF GiveUp, Crash, Tick, vars
<1>5. QED  BY <1>1, <1>2, <1>3, <1>4 DEF Next

\* While no two calls overlap, a form to set a password costs an unused code of the
\* same person and purpose that has attempts left, and uses it up.
THEOREM FormsCostCodes == Spec => EveryFormCostsACode
<1> DEFINE A == ~mingled' =>
                  \A f \in forms' \ forms :
                    \E i \in DOMAIN codes :
                      /\ codes[i].owner = f.owner /\ codes[i].purpose = f.scope
                      /\ ~codes[i].used /\ codes'[i].used
                      /\ codes[i].attempts < MaxAttempts
<1>1. IInv /\ [Next]_vars => A
  <2>1. SUFFICES ASSUME IInv, [Next]_vars, ~mingled', NEW f \in forms' \ forms
                 PROVE  \E i \in DOMAIN codes :
                          /\ codes[i].owner = f.owner /\ codes[i].purpose = f.scope
                          /\ ~codes[i].used /\ codes'[i].used
                          /\ codes[i].attempts < MaxAttempts
    OBVIOUS
  <2>2. PICK c \in Calls : JudgeCode(c)
    BY <2>1, FormsFromCodes
  <2>3. ~mingled /\ call[c].op = "judge"
    BY <2>1, <2>2 DEF JudgeCode, world
  <2>4. /\ call[c].code \in DOMAIN codes
        /\ codes[call[c].code].owner = call[c].owner
        /\ codes[call[c].code].purpose = call[c].purpose
        /\ ~codes[call[c].code].used
        /\ codes[call[c].code].attempts < MaxAttempts
    BY <2>1, <2>3 DEF IInv, CallsAreFresh, Fresh
  <2>5. /\ f = [owner |-> call[c].owner, scope |-> call[c].purpose, exp |-> now + FormTTL]
        /\ codes' = [codes EXCEPT ![call[c].code].used = TRUE]
    BY <2>1, <2>2 DEF JudgeCode
  <2>6. codes[call[c].code] \in Code
    BY <2>1, <2>4, RowFields DEF IInv
  <2>7. codes'[call[c].code].used
    BY <2>4, <2>5, <2>6 DEF Code
  <2>8. QED  BY <2>4, <2>5, <2>7
<1>2. QED  BY <1>1, InductiveInvariant, PTL DEF Spec, EveryFormCostsACode

\* The handlers that write tokens, and no others.
LEMMA TokenWriters ==
    ASSUME [Next]_vars, tokens' # tokens
    PROVE  \E c \in Calls : Revoke(c) \/ Issue(c) \/ Rotate(c) \/ Retire(c) \/ Drop(c)
<1> USE DEF tables, world, Begin
<1>1. ASSUME NEW c \in Calls, Step(c),
             ~(Revoke(c) \/ Issue(c) \/ Rotate(c) \/ Retire(c) \/ Drop(c))
      PROVE  tokens' = tokens
  BY <1>1 DEF Step, HandlerStep, SendCode, JudgeCode, Onboard, Replace, SetActive,
              LoadRefresh, LoadLogout,
              SendRefresh, TakePair, TakeRefusal, Resend, TakeBye
<1>2. ASSUME NEW c \in Calls, Ask(c) PROVE tokens' = tokens
  BY <1>2 DEF Ask, ResetResidentPassword, DeactivateResident, UpdateResident,
              RequestCode, VerifyCode, ConfirmPasswordReset, Login, SetSignupPassword
<1>3. ASSUME NEW c \in Calls, NEW d \in Devices, Call(c, d) \/ Logout(c, d)
      PROVE  tokens' = tokens
  BY <1>3 DEF Call, Logout
<1>4. (\E c \in Calls : GiveUp(c)) \/ Crash \/ Tick \/ UNCHANGED vars => tokens' = tokens
  BY DEF GiveUp, Crash, Tick, vars
<1>5. QED  BY <1>1, <1>2, <1>3, <1>4 DEF Next

\* Tokens that are there stay, in their session, and once revoked are so for good.
LEMMA TokensStayRevoked ==
    ASSUME IInv, [Next]_vars, NEW k \in DOMAIN tokens
    PROVE  /\ k \in DOMAIN tokens'
           /\ tokens'[k].session = tokens[k].session
           /\ tokens[k].revoked => tokens'[k].revoked
<1>1. /\ tokens[k] \in Token /\ tokens \in Seq(Token)
  BY RowFields DEF IInv, TypeOK, TablesOK
<1>2. CASE tokens' = tokens
  BY <1>2
<1>3. ASSUME NEW c \in Calls, Revoke(c)
      PROVE  /\ k \in DOMAIN tokens'
             /\ tokens'[k].session = tokens[k].session
             /\ tokens[k].revoked => tokens'[k].revoked
  <2>1. k \in DOMAIN tokens'
        /\ tokens'[k] = IF tokens[k].owner = call[c].owner
                        THEN [tokens[k] EXCEPT !.revoked = TRUE] ELSE tokens[k]
    BY <1>3 DEF Revoke, AllRevoked
  <2>2. QED  BY <1>1, <2>1, RevokedToken
<1>4. ASSUME NEW c \in Calls, Issue(c) \/ Rotate(c)
      PROVE  k \in DOMAIN tokens' /\ tokens'[k] = tokens[k]
  BY <1>1, <1>4 DEF Issue, Rotate
<1>5. ASSUME NEW c \in Calls, Retire(c)
      PROVE  /\ k \in DOMAIN tokens'
             /\ tokens'[k].session = tokens[k].session
             /\ tokens[k].revoked => tokens'[k].revoked
  <2>1. call[c].new \in Nat
    BY <1>5, CallFields DEF Retire, IInv, TypeOK, TablesOK
  <2>2. k \in DOMAIN tokens'
        /\ tokens'[k] = IF k = call[c].token THEN Retired(tokens[k], call[c].new)
                        ELSE tokens[k]
    BY <1>5 DEF Retire
  <2>3. QED  BY <1>1, <2>1, <2>2, RetiredToken
<1>6. ASSUME NEW c \in Calls, Drop(c)
      PROVE  /\ k \in DOMAIN tokens'
             /\ tokens'[k].session = tokens[k].session
             /\ tokens[k].revoked => tokens'[k].revoked
  <2>1. k \in DOMAIN tokens'
        /\ tokens'[k] = IF k = call[c].token THEN [tokens[k] EXCEPT !.revoked = TRUE]
                        ELSE tokens[k]
    BY <1>6 DEF Drop
  <2>2. QED  BY <1>1, <2>1, RevokedToken
<1>7. QED  BY <1>2, <1>3, <1>4, <1>5, <1>6, TokenWriters

\* A new token opens a session of its own, or, while no two calls overlap, goes on
\* with one that has a live token.
LEMMA NewTokens ==
    ASSUME IInv, [Next]_vars, NEW k \in DOMAIN tokens' \ DOMAIN tokens
    PROVE  \/ tokens'[k].session \notin DOMAIN tokens
           \/ mingled'
           \/ \E j \in LiveTokens : tokens[j].session = tokens'[k].session
<1>1. tokens \in Seq(Token) /\ DOMAIN tokens = 1..Len(tokens) /\ Len(tokens) \in Nat
  BY RowFields DEF IInv, TypeOK, TablesOK
<1>2. PICK c \in Calls : Revoke(c) \/ Issue(c) \/ Rotate(c) \/ Retire(c) \/ Drop(c)
  BY TokenWriters
<1>3. ~(Revoke(c) \/ Retire(c) \/ Drop(c))
  BY DEF Revoke, AllRevoked, Retire, Drop
<1>4. CASE Issue(c)
  <2>1. PICK t : /\ tokens' = Append(tokens, t)
                 /\ t.session = Len(tokens) + 1
    BY <1>4 DEF Issue, NewToken
  <2>2. tokens'[k] = t
    BY <1>1, <2>1
  <2>3. QED  BY <1>1, <2>1, <2>2
<1>5. CASE Rotate(c)
  <2>1. PICK t : /\ tokens' = Append(tokens, t)
                 /\ t.session = tokens[call[c].token].session
    BY <1>5 DEF Rotate, NewToken
  <2>2. tokens'[k] = t
    BY <1>1, <2>1
  <2>3. ~mingled => call[c].token \in LiveTokens
    BY <1>5 DEF Rotate, IInv, CallsHold, Points, CallsAreFresh, Fresh, LiveTokens
  <2>4. mingled' = mingled
    BY <1>5 DEF Rotate, world
  <2>5. QED  BY <2>1, <2>2, <2>3, <2>4
<1>6. QED  BY <1>2, <1>3, <1>4, <1>5

\* While no two calls overlap, a session none of whose tokens is live stays so,
\* whatever is presented, whoever restarts or stops waiting.
THEOREM SessionsStayEnded == Spec => EndedSessionsStayEnded
<1> DEFINE A == ~mingled' =>
                  \A s \in DOMAIN tokens :
                    (\A k \in DOMAIN tokens : tokens[k].session = s => ~Live(k))
                      => (\A k \in DOMAIN tokens' :
                            tokens'[k].session = s => tokens'[k].revoked)
<1>1. IInv /\ [Next]_vars => A
  <2>1. SUFFICES ASSUME IInv, [Next]_vars, ~mingled', NEW s \in DOMAIN tokens,
                        \A k \in DOMAIN tokens : tokens[k].session = s => ~Live(k),
                        NEW k \in DOMAIN tokens', tokens'[k].session = s
                 PROVE  tokens'[k].revoked
    OBVIOUS
  <2>2. CASE k \in DOMAIN tokens
    BY <2>1, <2>2, TokensStayRevoked DEF Live
  <2>3. CASE k \notin DOMAIN tokens
    BY <2>1, <2>3, NewTokens DEF LiveTokens
  <2>4. QED  BY <2>2, <2>3
<1>2. QED  BY <1>1, InductiveInvariant, PTL DEF Spec, EndedSessionsStayEnded

-----------------------------------------------------------------------------
(* Rotation.  A session gains a token when rotation begins and loses one   *)
(* when it ends; in between the two commits, and until the device has      *)
(* taken the pair, the call in flight tells what is missing.               *)

LiveIn(s) == {k \in LiveTokens : tokens[k].session = s}

BeingReplaced(s) ==
    \E c \in Calls : call[c].op = "retire" /\ tokens[call[c].token].session = s

Allowance(s) == IF BeingReplaced(s) THEN 2 + faults ELSE 1 + faults

SessionsAreRooted == \A k \in DOMAIN tokens : tokens[k].session \in DOMAIN tokens

RotationsAreOfLiveTokens ==
    \A c \in Calls : call[c].op = "retire" => Live(call[c].token)

LiveTokensAreFew == \A s \in DOMAIN tokens : Cardinality(LiveIn(s)) <= Allowance(s)

\* A call that rotates does so for a device that still holds the token it sent, and
\* the new token is nobody's yet.
InStep(x) ==
    /\ x.op \in {"refresh", "rotate", "retire"} =>
         /\ x.device \in Devices /\ SignedIn(x.device)
         /\ device[x.device].token = x.token
    /\ x.op = "retire" =>
         /\ x.new # x.token /\ tokens[x.new].next = 0
         /\ \A d \in Devices : SignedIn(d) => device[d].token # x.new
    /\ x.op = "pair" =>
         /\ tokens[x.token].next = 0
         /\ \A d \in Devices : SignedIn(d) /\ d # x.device => device[d].token # x.token

PairForDevice(d) == \E c \in Calls : call[c].op = "pair" /\ call[c].device = d

DevicesAreInStep ==
    /\ \A c \in Calls : InStep(call[c])
    /\ \A d, e \in Devices :
         SignedIn(d) /\ SignedIn(e) /\ d # e => device[d].token # device[e].token
    /\ \A d \in Devices :
         SignedIn(d) => tokens[device[d].token].next = 0 \/ PairForDevice(d)

RotationInv ==
    /\ ~mingled =>
         SessionsAreRooted /\ RotationsAreOfLiveTokens /\ LiveTokensAreFew
    /\ Orderly => DevicesAreInStep

\* While calls do not overlap, a call that is under way is alone.
LEMMA OthersAreIdle ==
    ASSUME IInv, ~mingled, NEW c \in Calls, call[c] # Idle
    PROVE  \A b \in Calls : b # c => call[b] = Idle
BY DEF IInv, Alone

LEMMA CallBecomes ==
    ASSUME IInv, NEW c \in Calls, NEW x, Become(c, x)
    PROVE  call'[c] = x /\ \A b \in Calls : b # c => call'[b] = call[b]
BY DEF IInv, TypeOK, TablesOK, Become

\* A column of every token is what it was, and a token that is revoked stays so.
SameTokens ==
    /\ DOMAIN tokens' = DOMAIN tokens
    /\ \A k \in DOMAIN tokens :
         /\ tokens'[k].session = tokens[k].session
         /\ tokens[k].revoked => tokens'[k].revoked

SameNext == \A k \in DOMAIN tokens : tokens'[k].next = tokens[k].next

\* The handlers that revoke without rotating.
LEMMA RevokersEffect ==
    ASSUME IInv, NEW c \in Calls, Revoke(c) \/ Drop(c)
    PROVE  /\ SameTokens /\ SameNext
           /\ call[c] # Idle /\ call[c].op \notin {"pair", "retire"}
           /\ \E x : Become(c, x) /\ x.op \in {"idle", "refused", "bye"}
<1>1. \A k \in DOMAIN tokens : tokens[k] \in Token
  BY RowFields DEF IInv
<1>2. ASSUME NEW t \in Token, NEW y, y = [t EXCEPT !.revoked = TRUE]
      PROVE  y.session = t.session /\ y.next = t.next /\ y.revoked
  BY <1>2 DEF Token
<1>3. CASE Revoke(c)
  <2>1. /\ DOMAIN tokens' = DOMAIN tokens
        /\ \A k \in DOMAIN tokens :
             \/ tokens'[k] = tokens[k]
             \/ tokens'[k] = [tokens[k] EXCEPT !.revoked = TRUE]
    BY <1>3 DEF Revoke, AllRevoked
  <2>2. SameTokens /\ SameNext
    BY <1>1, <1>2, <2>1 DEF SameTokens, SameNext
  <2>3. \E x : Become(c, x) /\ x.op \in {"idle", "refused", "bye"}
    BY <1>3 DEF Revoke, Answer, Idle
  <2>4. QED  BY <1>3, <2>2, <2>3 DEF Revoke, Idle
<1>4. CASE Drop(c)
  <2>1. /\ DOMAIN tokens' = DOMAIN tokens
        /\ \A k \in DOMAIN tokens :
             \/ tokens'[k] = tokens[k]
             \/ tokens'[k] = [tokens[k] EXCEPT !.revoked = TRUE]
    BY <1>4 DEF Drop
  <2>2. SameTokens /\ SameNext
    BY <1>1, <1>2, <2>1 DEF SameTokens, SameNext
  <2>3. \E x : Become(c, x) /\ x.op \in {"idle", "refused", "bye"}
    BY <1>4 DEF Drop, Answer, Idle
  <2>4. QED  BY <1>4, <2>2, <2>3 DEF Drop, Idle
<1>5. QED  BY <1>3, <1>4

\* A token t more, that opens a session or goes on with that of the token rotated.
LEMMA IssueEffect ==
    ASSUME IInv, NEW c \in Calls, Issue(c)
    PROVE  /\ call[c] # Idle /\ call[c].op \notin {"pair", "retire"}
           /\ \E t : /\ tokens' = Append(tokens, t)
                     /\ t.session = Len(tokens) + 1 /\ t.next = 0 /\ ~t.revoked
           /\ \E x : /\ Become(c, x)
                     /\ x = Idle \/ (x.op = "pair" /\ x.token = Len(tokens) + 1)
BY DEF Issue, NewToken, Answer, Idle

LEMMA RotateEffect ==
    ASSUME IInv, NEW c \in Calls, Rotate(c)
    PROVE  /\ call[c] # Idle /\ call[c].op = "rotate" /\ call[c].token \in DOMAIN tokens
           /\ \E t : /\ tokens' = Append(tokens, t)
                     /\ t.session = tokens[call[c].token].session
                     /\ t.next = 0 /\ ~t.revoked
           /\ \E x : /\ Become(c, x)
                     /\ x.op = "retire" /\ x.device = call[c].device
                     /\ x.token = call[c].token /\ x.new = Len(tokens) + 1
BY DEF Rotate, NewToken, Idle, IInv, CallsHold, Points

LEMMA RetireEffect ==
    ASSUME IInv, NEW c \in Calls, Retire(c), NEW k, k = call[c].token
    PROVE  /\ call[c] # Idle /\ call[c].op = "retire"
           /\ k \in DOMAIN tokens /\ call[c].new \in DOMAIN tokens
           /\ SameTokens /\ tokens'[k].revoked
           /\ \A j \in DOMAIN tokens : j # k => tokens'[j] = tokens[j]
           /\ \E x : /\ Become(c, x)
                     /\ \/ x = Idle /\ call[c].device = Nobody
                        \/ /\ x.op = "pair" /\ x.token = call[c].new
                           /\ x.device = call[c].device
<1>1. call[c].op = "retire" /\ call[c] # Idle
  BY DEF Retire, Idle
<1>2. k \in DOMAIN tokens /\ call[c].new \in DOMAIN tokens
  BY <1>1 DEF IInv, CallsHold, Points
<1>3. tokens[k] \in Token /\ call[c].new \in Nat
  BY <1>2, RowFields DEF IInv
<1>4. PICK y : y = Retired(tokens[k], call[c].new)
  OBVIOUS
<1>5. y.revoked /\ y.session = tokens[k].session
  BY <1>3, <1>4, RetiredToken
<1>6. tokens' = [tokens EXCEPT ![k] = y]
  BY <1>4 DEF Retire
<1>7. SameTokens /\ tokens'[k].revoked /\ \A j \in DOMAIN tokens : j # k => tokens'[j] = tokens[j]
  BY <1>2, <1>5, <1>6 DEF SameTokens
<1>8. \E x : /\ Become(c, x)
             /\ \/ x = Idle /\ call[c].device = Nobody
                \/ /\ x.op = "pair" /\ x.token = call[c].new
                   /\ x.device = call[c].device
  BY DEF Retire, Answer
<1>9. QED  BY <1>1, <1>2, <1>7, <1>8

\* Call c goes on, or begins, and no token changes.
Quiet(c, x) ==
    /\ UNCHANGED <<tokens, faults>>
    /\ Become(c, x)
    /\ call[c].op # "retire" /\ x.op # "retire"
    /\ \/ /\ call[c].op # "pair" /\ x.op \notin {"refresh", "rotate", "pair"}
          /\ \/ UNCHANGED device
             \/ \E d \in Devices : device' = [device EXCEPT ![d] = SignedOut]
       \/ /\ UNCHANGED device
          /\ call[c].op # "pair" /\ x.op = "refresh" /\ x.device \in Devices
          /\ SignedIn(x.device) /\ x.token = device[x.device].token
       \/ /\ UNCHANGED device
          /\ call[c].op = "refresh" /\ x.op = "rotate"
          /\ x.device = call[c].device /\ x.token = call[c].token
       \/ TakePair(c) /\ x.op \in {"idle", "resend"}

LEMMA RequestIsQuiet ==
    ASSUME IInv, NEW c \in Calls,
           \/ Ask(c) /\ UNCHANGED device
           \/ \E d \in Devices : Call(c, d) \/ Logout(c, d)
    PROVE  \E x : Begin(c, x) /\ Quiet(c, x)
<1>1. ASSUME NEW x, Begin(c, x), UNCHANGED device,
             x.op \notin {"refresh", "rotate", "pair", "retire"}
      PROVE  Quiet(c, x)
  BY <1>1 DEF Begin, Quiet, Idle, tables
<1>2. ASSUME NEW x, Begin(c, x), UNCHANGED device,
             x.op \in {"replace", "set", "send", "judge", "issue", "onboard", "denied", "logout"}
      PROVE  \E y : Begin(c, y) /\ Quiet(c, y)
  BY <1>1, <1>2
<1>3. CASE \E d \in Devices : Call(c, d) \/ Logout(c, d)
  BY <1>2, <1>3 DEF Call, Logout
<1>4. CASE Ask(c) /\ UNCHANGED device
  <2>1. CASE \E r \in Residents :
               \/ ResetResidentPassword(c, r) \/ DeactivateResident(c, r) \/ UpdateResident(c, r)
               \/ \E purpose \in Purposes : RequestCode(c, r, purpose)
    BY <1>2, <1>4, <2>1 DEF ResetResidentPassword, DeactivateResident, UpdateResident, RequestCode
  <2>2. CASE \E r \in Residents, purpose \in Purposes : VerifyCode(c, r, purpose)
    BY <1>2, <1>4, <2>2 DEF VerifyCode
  <2>3. CASE \E f \in forms : ConfirmPasswordReset(c, f)
    BY <1>2, <1>4, <2>3 DEF ConfirmPasswordReset
  <2>4. CASE \E d \in Devices : \/ \E o \in Subjects : Login(c, d, o)
                               \/ \E f \in forms : SetSignupPassword(c, d, f)
    BY <1>2, <1>4, <2>4 DEF Login, SetSignupPassword
  <2>5. QED  BY <1>4, <2>1, <2>2, <2>3, <2>4 DEF Ask
<1>5. QED  BY <1>3, <1>4

LEMMA StepIsQuiet ==
    ASSUME IInv, NEW c \in Calls, Step(c),
           ~(Revoke(c) \/ Drop(c) \/ Issue(c) \/ Rotate(c) \/ Retire(c))
    PROVE  /\ call[c] # Idle /\ mingled' = mingled
           /\ \E x : Quiet(c, x)
<1> USE DEF tables, world
<1>1. ASSUME UNCHANGED <<tokens, faults, device, mingled>>, NEW x, Become(c, x),
             call[c].op \in {"send", "judge", "onboard", "replace", "set", "logout", "denied",
                             "refresh", "resend"},
             x.op \in {"idle", "issue", "revoke", "drop", "bye", "refused"}
      PROVE  call[c] # Idle /\ mingled' = mingled /\ \E y : Quiet(c, y)
  <2>1. Quiet(c, x)
    BY <1>1 DEF Quiet
  <2>2. QED  BY <1>1, <2>1 DEF Idle
<1>2. ASSUME UNCHANGED device,
             \/ SendCode(c) \/ JudgeCode(c) \/ Onboard(c) \/ Replace(c) \/ SetActive(c)
      PROVE  call[c] # Idle /\ mingled' = mingled /\ \E y : Quiet(c, y)
  BY <1>1, <1>2 DEF SendCode, JudgeCode, Onboard, Replace, SetActive, ThenRevoke, Idle
<1>3. ASSUME UNCHANGED device, LoadRefresh(c)
      PROVE  call[c] # Idle /\ mingled' = mingled /\ \E y : Quiet(c, y)
  <2>1. call[c].op = "refresh" /\ UNCHANGED <<tokens, faults, mingled>>
    BY <1>3 DEF LoadRefresh
  <2>2. ASSUME NEW x, x = [call[c] EXCEPT !.op = "rotate"], Become(c, x)
        PROVE  Quiet(c, x)
    <3>1. x.op = "rotate" /\ x.device = call[c].device /\ x.token = call[c].token
      <4>1. call[c] = [op |-> "refresh", device |-> call[c].device, token |-> call[c].token]
        <5>1. call[c] \in CallState
          BY DEF IInv, TypeOK, TablesOK
        <5>2. QED  BY <5>1, <2>1, CallWithDevice
      <4>2. QED  BY <2>2, <4>1
    <3>2. QED  BY <1>3, <2>1, <2>2, <3>1 DEF Quiet
  <2>3. ASSUME NEW x, Become(c, x), x.op \in {"idle", "revoke", "refused"}
        PROVE  \E y : Quiet(c, y)
    BY <1>1, <1>3, <2>1, <2>3
  <2>4. \/ Become(c, [call[c] EXCEPT !.op = "rotate"])
        \/ \E x : Become(c, x) /\ x.op \in {"idle", "revoke", "refused"}
    BY <1>3 DEF LoadRefresh, OnReuse, Answer, Idle
  <2>5. QED  BY <2>1, <2>2, <2>3, <2>4 DEF Idle
<1>4. ASSUME UNCHANGED device, LoadLogout(c)
      PROVE  call[c] # Idle /\ mingled' = mingled /\ \E y : Quiet(c, y)
  <2>1. call[c].op = "logout" /\ UNCHANGED <<tokens, faults, mingled>>
    BY <1>4 DEF LoadLogout
  <2>2. call[c] = [op |-> "logout", device |-> call[c].device, token |-> call[c].token]
    <3>1. call[c] \in CallState
      BY DEF IInv, TypeOK, TablesOK
    <3>2. QED  BY <3>1, <2>1, CallWithDevice
  <2>3. PICK y : y = [call[c] EXCEPT !.op = "drop"]
    OBVIOUS
  <2>4. y.op = "drop"
    BY <2>2, <2>3
  <2>5. \/ Become(c, y)
        \/ \E x : Become(c, x) /\ x.op \in {"idle", "bye"}
    BY <1>4, <2>3 DEF LoadLogout, Answer, Idle
  <2>6. QED  BY <1>1, <1>4, <2>1, <2>4, <2>5
<1>5. ASSUME SendRefresh(c)
      PROVE  call[c] # Idle /\ mingled' = mingled /\ \E y : Quiet(c, y)
  <2>1. call[c].op = "denied" /\ UNCHANGED <<tokens, faults, mingled, device>>
    BY <1>5 DEF SendRefresh
  <2>2. CASE SignedIn(call[c].device)
    <3>1. PICK x : x = [op |-> "refresh", device |-> call[c].device,
                        token |-> device[call[c].device].token]
      OBVIOUS
    <3>2. Become(c, x)
      BY <1>5, <2>2, <3>1 DEF SendRefresh
    <3>3. call[c].device \in Devices
      <4>1. call[c] \in CallState
        BY DEF IInv, TypeOK, TablesOK
      <4>2. QED  BY <4>1, <2>1, CallFields
    <3>4. Quiet(c, x)
      BY <2>1, <2>2, <3>1, <3>2, <3>3 DEF Quiet
    <3>5. QED  BY <2>1, <3>4 DEF Idle
  <2>3. CASE ~SignedIn(call[c].device)
    BY <1>1, <1>5, <2>1, <2>3 DEF SendRefresh, Idle
  <2>4. QED  BY <2>2, <2>3
<1>6. ASSUME TakePair(c)
      PROVE  call[c] # Idle /\ mingled' = mingled /\ \E y : Quiet(c, y)
  <2>1. call[c].op = "pair" /\ UNCHANGED <<tokens, faults, mingled>>
    BY <1>6 DEF TakePair
  <2>2. \E x : Become(c, x) /\ x.op \in {"idle", "resend"}
    BY <1>6 DEF TakePair, Idle
  <2>3. QED  BY <1>6, <2>1, <2>2 DEF Quiet, Idle
<1>7. ASSUME TakeRefusal(c) \/ Resend(c) \/ TakeBye(c)
      PROVE  call[c] # Idle /\ mingled' = mingled /\ \E y : Quiet(c, y)
  <2>1. call[c].op \in {"refused", "resend", "bye"} /\ UNCHANGED <<tokens, faults, mingled>>
    BY <1>7 DEF TakeRefusal, Resend, TakeBye
  <2>2. call[c].device \in Devices
    <3>1. call[c] \in CallState
      BY DEF IInv, TypeOK, TablesOK
    <3>2. QED  BY <3>1, <2>1, CallFields
  <2>3. /\ Become(c, Idle)
        /\ \/ UNCHANGED device
           \/ device' = [device EXCEPT ![call[c].device] = SignedOut]
    BY <1>7 DEF TakeRefusal, Resend, TakeBye, TakeNo, Put
  <2>4. Quiet(c, Idle)
    BY <2>1, <2>2, <2>3 DEF Quiet, Idle
  <2>5. QED  BY <2>1, <2>4 DEF Idle
<1>8. QED
  BY <1>2, <1>3, <1>4, <1>5, <1>6, <1>7 DEF Step, HandlerStep

\* The faulty steps: no token changes, and no rotation begins.
Fault ==
    /\ UNCHANGED <<tokens, mingled>>
    /\ faults' = faults + 1
    /\ \A b \in Calls : call'[b].op = "retire" =>
         call[b].op = "retire" /\ call'[b].token = call[b].token

LEMMA FaultsAreFaults ==
    ASSUME IInv, (\E c \in Calls : GiveUp(c)) \/ Crash
    PROVE  Fault
<1>1. ASSUME NEW c \in Calls, GiveUp(c) PROVE Fault
  <2>1. UNCHANGED <<tokens, mingled>> /\ faults' = faults + 1
    BY <1>1 DEF GiveUp, tables
  <2>2. PICK x : /\ Become(c, x)
                 /\ \/ x = Idle
                    \/ x = [call[c] EXCEPT !.device = Nobody]
    BY <1>1 DEF GiveUp
  <2>3. call'[c] = x /\ \A b \in Calls : b # c => call'[b] = call[b]
    BY <2>2, CallBecomes
  <2>4. CASE x.op = "retire"
    <3>1. call[c] \in CallState
      BY DEF IInv, TypeOK, TablesOK
    <3>2. x = [call[c] EXCEPT !.device = Nobody]
      BY <2>2, <2>4 DEF Idle
    <3>3. call[c].op = "retire" /\ x.token = call[c].token
      <4>1. "op" \in DOMAIN call[c] /\ (call[c].op = "retire" => "token" \in DOMAIN call[c])
        BY <3>1 DEF CallState, Idle
      <4>2. x.op = call[c].op
        BY <3>2, <4>1
      <4>3. call[c].op = "retire"
        BY <2>4, <4>2
      <4>4. QED  BY <3>2, <4>1, <4>3
    <3>4. QED  BY <2>1, <2>3, <3>3 DEF Fault
  <2>5. QED  BY <2>1, <2>3, <2>4 DEF Fault
<1>2. ASSUME Crash PROVE Fault
  BY <1>2 DEF Crash, Fault, tables, Idle
<1>3. QED  BY <1>1, <1>2

Writes(c) == Revoke(c) \/ Drop(c) \/ Issue(c) \/ Rotate(c) \/ Retire(c)

\* A step is a commit to the tokens, a fault, or nothing that the tokens notice.
LEMMA StepKinds ==
    ASSUME IInv, [Next]_vars
    PROVE  \/ UNCHANGED <<tokens, faults, call, device, mingled>>
           \/ \E c \in Calls : Writes(c) /\ UNCHANGED <<device, faults, mingled>>
           \/ Fault
           \/ \E c \in Calls : \E x :
                /\ Quiet(c, x)
                /\ mingled => mingled'
                /\ ~mingled' => \A b \in Calls : b # c => call[b] = Idle
<1>1. CASE Tick \/ UNCHANGED vars
  BY <1>1 DEF Tick, vars, world, tables
<1>2. CASE (\E c \in Calls : GiveUp(c)) \/ Crash
  BY <1>2, FaultsAreFaults
<1>3. ASSUME NEW c \in Calls,
             \/ Ask(c) /\ UNCHANGED device
             \/ \E d \in Devices : Call(c, d) \/ Logout(c, d)
      PROVE  \E x : /\ Quiet(c, x)
                    /\ mingled => mingled'
                    /\ ~mingled' => \A b \in Calls : b # c => call[b] = Idle
  <2>1. PICK x : Begin(c, x) /\ Quiet(c, x)
    BY <1>3, RequestIsQuiet
  <2>2. QED  BY <2>1 DEF Begin
<1>4. ASSUME NEW c \in Calls, Step(c), Writes(c)
      PROVE  UNCHANGED <<device, faults, mingled>>
  <2>1. call[c].op \in {"revoke", "drop", "issue", "rotate", "retire"}
        /\ UNCHANGED <<faults, mingled>>
    BY <1>4 DEF Writes, Revoke, Drop, Issue, Rotate, Retire, world
  <2>2. UNCHANGED device
    BY <1>4, <2>1 DEF Step, SendRefresh, TakePair, TakeRefusal, Resend, TakeBye
  <2>3. QED  BY <2>1, <2>2
<1>5. ASSUME NEW c \in Calls, Step(c), ~Writes(c)
      PROVE  \E x : /\ Quiet(c, x)
                    /\ mingled => mingled'
                    /\ ~mingled' => \A b \in Calls : b # c => call[b] = Idle
  BY <1>5, StepIsQuiet, OthersAreIdle DEF Writes
<1>6. QED  BY <1>1, <1>2, <1>3, <1>4, <1>5 DEF Next

-----------------------------------------------------------------------------
(* The live tokens of a session are few.                                   *)

TokensInHand == SessionsAreRooted /\ RotationsAreOfLiveTokens /\ LiveTokensAreFew

LEMMA LiveInIsFinite ==
    ASSUME IInv, NEW s
    PROVE  IsFiniteSet(LiveIn(s)) /\ Cardinality(LiveIn(s)) \in Nat
<1>1. DOMAIN tokens = 1..Len(tokens) /\ Len(tokens) \in Nat
  BY DEF IInv, TypeOK, TablesOK
<1>2. IsFiniteSet(1..Len(tokens))
  BY <1>1, FS_Interval
<1>3. LiveIn(s) \in SUBSET (1..Len(tokens))
  BY <1>1 DEF LiveIn, LiveTokens
<1>4. IsFiniteSet(LiveIn(s))
  BY <1>2, <1>3, FS_Subset
<1>5. QED  BY <1>4, FS_CardinalityType

\* A session that gains no live token, and whose allowance does not shrink.
LEMMA StillFew ==
    ASSUME IInv, LiveTokensAreFew, NEW s \in DOMAIN tokens,
           LiveIn(s)' \subseteq LiveIn(s),
           Allowance(s)' >= Allowance(s), Allowance(s) \in Nat, Allowance(s)' \in Nat
    PROVE  Cardinality(LiveIn(s)') <= Allowance(s)'
<1>1. IsFiniteSet(LiveIn(s)) /\ Cardinality(LiveIn(s)) \in Nat
  BY LiveInIsFinite
<1>2. LiveIn(s)' \in SUBSET LiveIn(s)
  OBVIOUS
<1>3. IsFiniteSet(LiveIn(s)') /\ Cardinality(LiveIn(s)') <= Cardinality(LiveIn(s))
  BY <1>1, <1>2, FS_Subset
<1>4. Cardinality(LiveIn(s)') \in Nat
  BY <1>3, FS_CardinalityType
<1>5. Cardinality(LiveIn(s)) <= Allowance(s)
  BY DEF LiveTokensAreFew
<1>6. QED  BY <1>1, <1>3, <1>4, <1>5

LEMMA Allowances ==
    ASSUME faults \in Nat, NEW s
    PROVE  /\ Allowance(s) \in Nat /\ Allowance(s) >= 1 + faults
           /\ Allowance(s) <= 2 + faults
           /\ ~BeingReplaced(s) => Allowance(s) = 1 + faults
           /\ BeingReplaced(s) => Allowance(s) = 2 + faults
BY DEF Allowance

LEMMA NextAllowances ==
    ASSUME faults' \in Nat, NEW s
    PROVE  /\ Allowance(s)' \in Nat /\ Allowance(s)' >= 1 + faults'
           /\ BeingReplaced(s)' => Allowance(s)' = 2 + faults'
<1>1. PICK a : a = Allowance(s)'
  OBVIOUS
<1>2. PICK f \in Nat : f = faults'
  OBVIOUS
<1>3. CASE BeingReplaced(s)'
  <2>1. a = 2 + f
    BY <1>1, <1>2, <1>3 DEF Allowance, BeingReplaced
  <2>2. a \in Nat /\ a >= 1 + f
    BY <2>1
  <2>3. QED  BY <1>1, <1>2, <2>1, <2>2
<1>4. CASE ~BeingReplaced(s)'
  <2>1. a = 1 + f
    BY <1>1, <1>2, <1>4 DEF Allowance, BeingReplaced
  <2>2. a \in Nat /\ a >= 1 + f
    BY <2>1
  <2>3. QED  BY <1>1, <1>2, <1>4, <2>2
<1>5. QED  BY <1>3, <1>4

\* Steps that leave every token in its session, and revoke some, while no rotation
\* is under way, neither before nor after.
LEMMA TokensKeep ==
    ASSUME IInv, TokensInHand, faults' = faults, SameTokens,
           \A b \in Calls : call[b].op # "retire" /\ call'[b].op # "retire"
    PROVE  TokensInHand'
<1>1. faults \in Nat /\ faults' \in Nat
  BY DEF IInv, Counters
<1>2. SessionsAreRooted' /\ RotationsAreOfLiveTokens'
  BY DEF TokensInHand, SessionsAreRooted, RotationsAreOfLiveTokens, SameTokens
<1>3. ASSUME NEW s \in DOMAIN tokens' PROVE Cardinality(LiveIn(s)') <= Allowance(s)'
  <2>1. s \in DOMAIN tokens
    BY <1>3 DEF SameTokens
  <2>2. LiveIn(s)' \subseteq LiveIn(s)
    BY DEF LiveIn, LiveTokens, Live, SameTokens
  <2>3. ~BeingReplaced(s)
    BY DEF BeingReplaced
  <2>4. Allowance(s) \in Nat /\ Allowance(s)' \in Nat /\ Allowance(s)' >= Allowance(s)
    BY <1>1, <2>3, Allowances, NextAllowances
  <2>5. QED  BY <2>1, <2>2, <2>4, StillFew DEF TokensInHand
<1>4. LiveTokensAreFew'
  BY <1>3 DEF LiveTokensAreFew
<1>5. QED  BY <1>2, <1>4 DEF TokensInHand

\* Rotations that are cut off are paid for by the count of faults.
LEMMA TokensInFault ==
    ASSUME IInv, TokensInHand, Fault
    PROVE  TokensInHand'
<1>1. faults \in Nat /\ faults' \in Nat /\ faults' = faults + 1 /\ tokens' = tokens
  BY DEF IInv, Counters, Fault
<1>2. SessionsAreRooted' /\ RotationsAreOfLiveTokens'
  BY <1>1 DEF TokensInHand, SessionsAreRooted, RotationsAreOfLiveTokens, Fault, Live
<1>3. ASSUME NEW s \in DOMAIN tokens' PROVE Cardinality(LiveIn(s)') <= Allowance(s)'
  <2>1. LiveIn(s)' \subseteq LiveIn(s)
    BY <1>1 DEF LiveIn, LiveTokens, Live
  <2>2. Allowance(s) \in Nat /\ Allowance(s)' \in Nat /\ Allowance(s)' >= Allowance(s)
    BY <1>1, Allowances, NextAllowances
  <2>3. QED  BY <1>1, <2>1, <2>2, StillFew DEF TokensInHand
<1>4. LiveTokensAreFew'
  BY <1>3 DEF LiveTokensAreFew
<1>5. QED  BY <1>2, <1>4 DEF TokensInHand

LEMMA TokensAtIssue ==
    ASSUME IInv, TokensInHand, ~mingled, faults' = faults, NEW c \in Calls, Issue(c)
    PROVE  TokensInHand'
<1>1. faults \in Nat /\ faults' \in Nat
  BY DEF IInv, Counters
<1>2. PICK t : /\ tokens' = Append(tokens, t)
               /\ t.session = Len(tokens) + 1 /\ t.next = 0 /\ ~t.revoked
  BY IssueEffect
<1>3. PICK x : /\ Become(c, x)
               /\ x = Idle \/ (x.op = "pair" /\ x.token = Len(tokens) + 1)
  BY IssueEffect
<1>4. /\ call'[c] = x /\ x.op # "retire"
      /\ \A b \in Calls : b # c => call'[b] = call[b] /\ call[b] = Idle
  BY <1>3, IssueEffect, CallBecomes, OthersAreIdle DEF Idle
<1>5. \A b \in Calls : call[b].op # "retire" /\ call'[b].op # "retire"
  BY <1>4, IssueEffect DEF Idle
<1>6. tokens \in Seq(Token) /\ DOMAIN tokens = 1..Len(tokens) /\ Len(tokens) \in Nat
  BY DEF IInv, TypeOK, TablesOK
<1>7. /\ DOMAIN tokens' = DOMAIN tokens \cup {Len(tokens) + 1}
      /\ tokens'[Len(tokens) + 1] = t
      /\ \A k \in DOMAIN tokens : tokens'[k] = tokens[k]
      /\ Len(tokens) + 1 \notin DOMAIN tokens
  BY <1>2, <1>6
<1>8. SessionsAreRooted' /\ RotationsAreOfLiveTokens'
  BY <1>2, <1>5, <1>7 DEF TokensInHand, SessionsAreRooted, RotationsAreOfLiveTokens
<1>9. ASSUME NEW s \in DOMAIN tokens' PROVE Cardinality(LiveIn(s)') <= Allowance(s)'
  <2>1. CASE s \in DOMAIN tokens
    <3>1. LiveIn(s)' \subseteq LiveIn(s)
      BY <1>2, <1>7, <2>1 DEF LiveIn, LiveTokens, Live
    <3>2. ~BeingReplaced(s)
      BY <1>5 DEF BeingReplaced
    <3>3. Allowance(s) \in Nat /\ Allowance(s)' \in Nat /\ Allowance(s)' >= Allowance(s)
      BY <1>1, <3>2, Allowances, NextAllowances
    <3>4. QED  BY <2>1, <3>1, <3>3, StillFew DEF TokensInHand
  <2>2. CASE s = Len(tokens) + 1
    <3>1. LiveIn(s)' = {s}
      BY <1>2, <1>7, <2>2 DEF LiveIn, LiveTokens, Live, TokensInHand, SessionsAreRooted
    <3>2. Cardinality(LiveIn(s)') = 1
      BY <3>1, FS_Singleton
    <3>3. QED  BY <1>1, <3>2, NextAllowances
  <2>3. QED  BY <1>7, <2>1, <2>2
<1>10. LiveTokensAreFew'
  BY <1>9 DEF LiveTokensAreFew
<1>11. QED  BY <1>8, <1>10 DEF TokensInHand

\* The session of the token that is rotated has one more, until it is retired.
LEMMA TokensAtRotation ==
    ASSUME IInv, TokensInHand, ~mingled, faults' = faults, NEW c \in Calls, Rotate(c)
    PROVE  TokensInHand'
<1>1. faults \in Nat /\ faults' \in Nat
  BY DEF IInv, Counters
<1>2. PICK k : k = call[c].token
  OBVIOUS
<1>3. call[c].op = "rotate" /\ call[c] # Idle /\ k \in DOMAIN tokens /\ ~tokens[k].revoked
  BY <1>2, RotateEffect DEF IInv, CallsAreFresh, Fresh, Live
<1>4. PICK t : /\ tokens' = Append(tokens, t)
               /\ t.session = tokens[k].session
               /\ t.next = 0 /\ ~t.revoked
  BY <1>2, RotateEffect
<1>5. PICK x : Become(c, x) /\ x.op = "retire" /\ x.token = k
  BY <1>2, RotateEffect
<1>6. /\ call'[c] = x
      /\ \A b \in Calls : b # c => call'[b] = Idle /\ call[b] = Idle
  BY <1>3, <1>5, CallBecomes, OthersAreIdle
<1>7. tokens \in Seq(Token) /\ DOMAIN tokens = 1..Len(tokens) /\ Len(tokens) \in Nat
  BY DEF IInv, TypeOK, TablesOK
<1>8. PICK n : n = Len(tokens) + 1
  OBVIOUS
<1>9. /\ DOMAIN tokens' = DOMAIN tokens \cup {n}
      /\ tokens'[n] = t /\ n \notin DOMAIN tokens
      /\ \A j \in DOMAIN tokens : tokens'[j] = tokens[j]
  BY <1>4, <1>7, <1>8
<1>10. \A j \in DOMAIN tokens : tokens[j].session \in DOMAIN tokens
  BY DEF TokensInHand, SessionsAreRooted
<1>11. SessionsAreRooted'
  BY <1>3, <1>4, <1>9, <1>10 DEF SessionsAreRooted
<1>12. RotationsAreOfLiveTokens'
  BY <1>3, <1>5, <1>6, <1>9 DEF RotationsAreOfLiveTokens, Live, Idle
<1>13. \A s : ~BeingReplaced(s)
  BY <1>3, <1>6 DEF BeingReplaced, Idle
<1>14. ASSUME NEW s \in DOMAIN tokens' PROVE Cardinality(LiveIn(s)') <= Allowance(s)'
  <2>1. CASE s \in DOMAIN tokens /\ s # tokens[k].session
    <3>1. LiveIn(s)' \subseteq LiveIn(s)
      BY <1>4, <1>9, <2>1 DEF LiveIn, LiveTokens, Live
    <3>2. Allowance(s) \in Nat /\ Allowance(s)' \in Nat /\ Allowance(s)' >= Allowance(s)
      BY <1>1, <1>13, Allowances, NextAllowances
    <3>3. QED  BY <2>1, <3>1, <3>2, StillFew DEF TokensInHand
  <2>2. CASE s = tokens[k].session
    <3>1. LiveIn(s)' = LiveIn(s) \cup {n} /\ n \notin LiveIn(s)
      BY <1>4, <1>9, <2>2 DEF LiveIn, LiveTokens, Live
    <3>2. IsFiniteSet(LiveIn(s)) /\ Cardinality(LiveIn(s)) \in Nat
      BY LiveInIsFinite
    <3>3. Cardinality(LiveIn(s)') = Cardinality(LiveIn(s)) + 1
      BY <3>1, <3>2, FS_AddElement
    <3>4. Cardinality(LiveIn(s)) <= 1 + faults
      <4>1. s \in DOMAIN tokens
        BY <1>3, <1>10, <2>2
      <4>2. Cardinality(LiveIn(s)) <= Allowance(s)
        BY <4>1 DEF TokensInHand, LiveTokensAreFew
      <4>3. QED  BY <1>1, <1>13, <4>2, Allowances
    <3>5. BeingReplaced(s)'
      BY <1>3, <1>5, <1>6, <1>9, <2>2 DEF BeingReplaced
    <3>6. Allowance(s)' = 2 + faults
      BY <1>1, <3>5, NextAllowances
    <3>7. QED  BY <1>1, <3>2, <3>3, <3>4, <3>6
  <2>3. CASE s = n
    <3>1. ASSUME NEW j \in DOMAIN tokens' PROVE tokens'[j].session # s
      <4>1. CASE j \in DOMAIN tokens
        BY <1>9, <1>10, <2>3, <4>1
      <4>2. CASE j = n
        BY <1>3, <1>4, <1>9, <1>10, <2>3, <4>2
      <4>3. QED  BY <1>9, <3>1, <4>1, <4>2
    <3>2. LiveIn(s)' = {}
      BY <3>1 DEF LiveIn, LiveTokens
    <3>3. QED  BY <1>1, <3>2, FS_EmptySet, NextAllowances
  <2>4. QED  BY <1>9, <2>1, <2>2, <2>3
<1>15. LiveTokensAreFew'
  BY <1>14 DEF LiveTokensAreFew
<1>16. QED  BY <1>11, <1>12, <1>15 DEF TokensInHand

LEMMA TokensAtRetirement ==
    ASSUME IInv, TokensInHand, ~mingled, faults' = faults, NEW c \in Calls, Retire(c)
    PROVE  TokensInHand'
<1>1. faults \in Nat /\ faults' \in Nat
  BY DEF IInv, Counters
<1>2. PICK k : k = call[c].token
  OBVIOUS
<1>3. /\ call[c].op = "retire" /\ call[c] # Idle /\ k \in DOMAIN tokens
      /\ SameTokens /\ tokens'[k].revoked
      /\ \A j \in DOMAIN tokens : j # k => tokens'[j] = tokens[j]
  BY <1>2, RetireEffect
<1>4. PICK x : Become(c, x) /\ x.op # "retire"
  <2>1. \E x : Become(c, x) /\ (x = Idle \/ x.op = "pair")
    BY <1>2, RetireEffect
  <2>2. QED  BY <2>1 DEF Idle
<1>5. /\ call'[c] = x
      /\ \A b \in Calls : b # c => call'[b] = Idle /\ call[b] = Idle
  BY <1>3, <1>4, CallBecomes, OthersAreIdle
<1>6. ~tokens[k].revoked
  BY <1>2, <1>3 DEF TokensInHand, RotationsAreOfLiveTokens, Live
<1>7. SessionsAreRooted' /\ RotationsAreOfLiveTokens'
  BY <1>3, <1>4, <1>5
  DEF TokensInHand, SessionsAreRooted, RotationsAreOfLiveTokens, SameTokens, Idle
<1>8. ASSUME NEW s \in DOMAIN tokens' PROVE Cardinality(LiveIn(s)') <= Allowance(s)'
  <2>1. s \in DOMAIN tokens
    BY <1>3, <1>8 DEF SameTokens
  <2>2. CASE s # tokens[k].session
    <3>1. LiveIn(s)' \subseteq LiveIn(s)
      BY <1>3 DEF LiveIn, LiveTokens, Live, SameTokens
    <3>2. ~BeingReplaced(s)
      BY <1>2, <1>5, <2>2 DEF BeingReplaced, Idle
    <3>3. Allowance(s) \in Nat /\ Allowance(s)' \in Nat /\ Allowance(s)' >= Allowance(s)
      BY <1>1, <3>2, Allowances, NextAllowances
    <3>4. QED  BY <2>1, <3>1, <3>3, StillFew DEF TokensInHand
  <2>3. CASE s = tokens[k].session
    <3>1. k \in LiveIn(s)
      BY <1>3, <1>6, <2>3 DEF LiveIn, LiveTokens, Live
    <3>2. LiveIn(s)' \in SUBSET (LiveIn(s) \ {k})
      BY <1>3 DEF LiveIn, LiveTokens, Live, SameTokens
    <3>3. IsFiniteSet(LiveIn(s)) /\ Cardinality(LiveIn(s)) \in Nat
      BY LiveInIsFinite
    <3>4. IsFiniteSet(LiveIn(s) \ {k})
          /\ Cardinality(LiveIn(s) \ {k}) = Cardinality(LiveIn(s)) - 1
      BY <3>1, <3>3, FS_RemoveElement
    <3>5. IsFiniteSet(LiveIn(s)') /\ Cardinality(LiveIn(s)') <= Cardinality(LiveIn(s) \ {k})
      BY <3>2, <3>4, FS_Subset
    <3>6. Cardinality(LiveIn(s)') \in Nat
      BY <3>5, FS_CardinalityType
    <3>7. Cardinality(LiveIn(s)) <= Allowance(s) /\ Allowance(s) <= 2 + faults
          /\ Allowance(s) \in Nat
      BY <1>1, <2>1, Allowances DEF TokensInHand, LiveTokensAreFew
    <3>8. Allowance(s)' \in Nat /\ Allowance(s)' >= 1 + faults'
      BY <1>1, NextAllowances
    <3>9. QED  BY <1>1, <3>3, <3>4, <3>5, <3>6, <3>7, <3>8
  <2>4. QED  BY <2>2, <2>3
<1>9. LiveTokensAreFew'
  BY <1>8 DEF LiveTokensAreFew
<1>10. QED  BY <1>7, <1>9 DEF TokensInHand

LEMMA TokensStep ==
    ASSUME IInv, [Next]_vars, ~mingled', ~mingled => TokensInHand
    PROVE  TokensInHand'
<1>1. CASE UNCHANGED <<tokens, faults, call, device, mingled>>
  <2>1. TokensInHand
    BY <1>1
  <2>2. QED
    BY <1>1, <2>1
    DEF TokensInHand, SessionsAreRooted, RotationsAreOfLiveTokens, LiveTokensAreFew,
        LiveIn, LiveTokens, Live, Allowance, BeingReplaced
<1>2. CASE Fault
  BY <1>2, TokensInFault DEF Fault
<1>3. ASSUME NEW c \in Calls, Writes(c), UNCHANGED <<device, faults, mingled>>
      PROVE  TokensInHand'
  <2>1. ASSUME Revoke(c) \/ Drop(c) PROVE TokensInHand'
    <3>1. SameTokens /\ call[c] # Idle /\ call[c].op # "retire"
      BY <2>1, RevokersEffect
    <3>2. PICK x : Become(c, x) /\ x.op # "retire"
      BY <2>1, RevokersEffect
    <3>3. \A b \in Calls : call[b].op # "retire" /\ call'[b].op # "retire"
      BY <1>3, <3>1, <3>2, CallBecomes, OthersAreIdle DEF Idle
    <3>4. QED  BY <1>3, <3>1, <3>3, TokensKeep
  <2>2. QED
    BY <1>3, <2>1, TokensAtIssue, TokensAtRotation, TokensAtRetirement DEF Writes
<1>4. ASSUME NEW c \in Calls, NEW x, Quiet(c, x), mingled => mingled',
             \A b \in Calls : b # c => call[b] = Idle
      PROVE  TokensInHand'
  <2>1. call'[c] = x /\ \A b \in Calls : b # c => call'[b] = call[b]
    BY <1>4, CallBecomes DEF Quiet
  <2>2. \A b \in Calls : call[b].op # "retire" /\ call'[b].op # "retire"
    BY <1>4, <2>1 DEF Quiet, Idle
  <2>3. SameTokens /\ faults' = faults
    BY <1>4 DEF Quiet, SameTokens
  <2>4. QED  BY <1>4, <2>2, <2>3, TokensKeep
<1>5. QED  BY <1>1, <1>2, <1>3, <1>4, StepKinds

-----------------------------------------------------------------------------
(* Devices keep in step with the rotation of their tokens.                 *)

\* What is left to show of a step of call c, the only one under way.
LEMMA DevicesGoOn ==
    ASSUME IInv, NEW c \in Calls, NEW x, Become(c, x),
           \A b \in Calls : b # c => call[b] = Idle,
           InStep(x)',
           \A d, e \in Devices :
             device'[d] # SignedOut /\ device'[e] # SignedOut /\ d # e
               => device'[d].token # device'[e].token,
           \A d \in Devices :
             device'[d] # SignedOut
               => tokens'[device'[d].token].next = 0 \/ (x.op = "pair" /\ x.device = d)
    PROVE  DevicesAreInStep'
<1>1. call'[c] = x /\ \A b \in Calls : b # c => call'[b] = Idle
  BY CallBecomes
<1>2. ASSUME NEW b \in Calls PROVE InStep(call[b])'
  <2>1. PICK y : y = call'[b]
    OBVIOUS
  <2>2. InStep(y)'
    <3>1. CASE b = c
      BY <1>1, <2>1, <3>1
    <3>2. CASE b # c
      BY <1>1, <2>1, <3>2 DEF InStep, Idle
    <3>3. QED  BY <3>1, <3>2
  <2>3. QED  BY <2>1, <2>2 DEF InStep
<1>3. \A d \in Devices :
        SignedIn(d)' => tokens'[device'[d].token].next = 0 \/ PairForDevice(d)'
  BY <1>1 DEF SignedIn, PairForDevice
<1>4. QED  BY <1>2, <1>3 DEF DevicesAreInStep, SignedIn

\* No pair is on its way: every device holds the last token of its session.
LEMMA DevicesBefore ==
    ASSUME IInv, DevicesAreInStep, \A b \in Calls : call[b].op # "pair"
    PROVE  \A d \in Devices :
             SignedIn(d) => /\ tokens[device[d].token].next = 0
                            /\ device[d].token \in DOMAIN tokens
BY DEF DevicesAreInStep, PairForDevice, IInv, DevicesPoint

LEMMA DevicesAtQuiet ==
    ASSUME IInv, DevicesAreInStep, NEW c \in Calls, NEW x, Quiet(c, x),
           \A b \in Calls : b # c => call[b] = Idle
    PROVE  DevicesAreInStep'
<1>1. Become(c, x) /\ tokens' = tokens /\ device \in [Devices -> Stored]
  BY DEF Quiet, IInv, TypeOK
<1>2. \A d, e \in Devices : SignedIn(d) /\ SignedIn(e) /\ d # e
                              => device[d].token # device[e].token
  BY DEF DevicesAreInStep
<1>3. InStep(call[c])
  BY DEF DevicesAreInStep
<1>4. ASSUME call[c].op # "pair",
             \A d \in Devices : device'[d] # SignedOut => device'[d] = device[d],
             x.op # "pair", InStep(x)'
      PROVE  DevicesAreInStep'
  <2>1. \A b \in Calls : call[b].op # "pair"
    BY <1>4 DEF Idle
  <2>2. \A d \in Devices : device'[d] # SignedOut => tokens'[device'[d].token].next = 0
    BY <1>1, <1>4, <2>1, DevicesBefore DEF SignedIn
  <2>3. \A d, e \in Devices :
          device'[d] # SignedOut /\ device'[e] # SignedOut /\ d # e
            => device'[d].token # device'[e].token
    BY <1>2, <1>4 DEF SignedIn
  <2>4. QED  BY <1>1, <1>4, <2>2, <2>3, DevicesGoOn
<1>5. CASE /\ call[c].op # "pair" /\ x.op \notin {"refresh", "rotate", "pair"}
           /\ \/ UNCHANGED device
              \/ \E d \in Devices : device' = [device EXCEPT ![d] = SignedOut]
  <2>1. x.op # "retire" /\ InStep(x)'
    BY <1>5 DEF Quiet, InStep
  <2>2. \A d \in Devices : device'[d] # SignedOut => device'[d] = device[d]
    BY <1>1, <1>5
  <2>3. QED  BY <1>4, <1>5, <2>1, <2>2
<1>6. CASE /\ UNCHANGED device
           /\ call[c].op # "pair" /\ x.op = "refresh" /\ x.device \in Devices
           /\ SignedIn(x.device) /\ x.token = device[x.device].token
  <2>1. InStep(x)'
    BY <1>6 DEF InStep, SignedIn
  <2>2. QED  BY <1>4, <1>6, <2>1
<1>7. CASE /\ UNCHANGED device
           /\ call[c].op = "refresh" /\ x.op = "rotate"
           /\ x.device = call[c].device /\ x.token = call[c].token
  <2>1. InStep(x)'
    BY <1>3, <1>7 DEF InStep, SignedIn
  <2>2. QED  BY <1>4, <1>7, <2>1
<1>8. CASE TakePair(c) /\ x.op \in {"idle", "resend"}
  <2>1. PICK e, p : e = call[c].device /\ p = StoredPair(e, call[c])
    OBVIOUS
  <2>2. call[c].op = "pair" /\ device' = [device EXCEPT ![e] = p] /\ p.token = call[c].token
    BY <1>8, <2>1 DEF TakePair, Put, StoredPair
  <2>3. e \in Devices
    <3>1. call[c] \in CallState
      BY DEF IInv, TypeOK, TablesOK
    <3>2. QED  BY <2>1, <2>2, <3>1, CallFields
  <2>4. device'[e] = p /\ \A d \in Devices : d # e => device'[d] = device[d]
    BY <1>1, <2>2, <2>3
  <2>5. /\ tokens[p.token].next = 0
        /\ \A d \in Devices : SignedIn(d) /\ d # e => device[d].token # p.token
    BY <1>3, <2>1, <2>2 DEF InStep
  <2>6. InStep(x)'
    BY <1>8 DEF InStep
  <2>7. ASSUME NEW d \in Devices, device'[d] # SignedOut
        PROVE  tokens'[device'[d].token].next = 0
    <3>1. CASE d = e
      BY <1>1, <2>4, <2>5, <3>1
    <3>2. CASE d # e
      <4>1. ~PairForDevice(d)
        BY <2>1, <3>2 DEF PairForDevice, Idle
      <4>2. QED  BY <1>1, <2>4, <2>7, <3>2, <4>1 DEF DevicesAreInStep, SignedIn
    <3>3. QED  BY <3>1, <3>2
  <2>8. ASSUME NEW d \in Devices, NEW f \in Devices,
               device'[d] # SignedOut, device'[f] # SignedOut, d # f
        PROVE  device'[d].token # device'[f].token
    BY <1>2, <2>4, <2>5, <2>8 DEF SignedIn
  <2>9. QED  BY <1>1, <2>6, <2>7, <2>8, DevicesGoOn
<1>9. QED  BY <1>5, <1>6, <1>7, <1>8 DEF Quiet

LEMMA DevicesAtCommit ==
    ASSUME IInv, DevicesAreInStep, ~mingled, UNCHANGED device,
           NEW c \in Calls, Writes(c)
    PROVE  DevicesAreInStep'
<1>1. /\ tokens \in Seq(Token) /\ DOMAIN tokens = 1..Len(tokens) /\ Len(tokens) \in Nat
      /\ InStep(call[c])
  BY DEF IInv, TypeOK, TablesOK, DevicesAreInStep
<1>2. call[c] # Idle /\ call[c].op # "pair"
  <2>1. CASE Revoke(c) \/ Drop(c)
    BY <2>1, RevokersEffect
  <2>2. CASE Issue(c)
    BY <2>2, IssueEffect
  <2>3. CASE Rotate(c) \/ Retire(c)
    BY <2>3 DEF Rotate, Retire, Idle
  <2>4. QED  BY <2>1, <2>2, <2>3 DEF Writes
<1>3. \A b \in Calls : b # c => call[b] = Idle
  BY <1>2, OthersAreIdle
<1>4. \A d \in Devices :
        SignedIn(d) => tokens[device[d].token].next = 0 /\ device[d].token \in DOMAIN tokens
  BY <1>2, <1>3, DevicesBefore DEF Idle
<1>5. \A d, e \in Devices :
        device'[d] # SignedOut /\ device'[e] # SignedOut /\ d # e
          => device'[d].token # device'[e].token
  BY DEF DevicesAreInStep, SignedIn
<1>6. CASE Revoke(c) \/ Drop(c)
  <2>1. PICK x : Become(c, x) /\ x.op \in {"idle", "refused", "bye"}
    BY <1>6, RevokersEffect
  <2>2. InStep(x)'
    BY <2>1 DEF InStep
  <2>3. \A d \in Devices : device'[d] # SignedOut => tokens'[device'[d].token].next = 0
    <3>1. SameNext
      BY <1>6, RevokersEffect
    <3>2. QED  BY <1>4, <3>1 DEF SameNext, SignedIn
  <2>4. QED  BY <1>3, <1>5, <2>1, <2>2, <2>3, DevicesGoOn
<1>7. ASSUME NEW t, tokens' = Append(tokens, t), t.next = 0
      PROVE  /\ tokens'[Len(tokens) + 1].next = 0
             /\ \A d \in Devices : device'[d] # SignedOut =>
                  /\ device'[d].token # Len(tokens) + 1
                  /\ tokens'[device'[d].token].next = 0
  BY <1>1, <1>4, <1>7 DEF SignedIn
<1>8. CASE Issue(c)
  <2>1. PICK t : tokens' = Append(tokens, t) /\ t.next = 0
    BY <1>8, IssueEffect
  <2>2. PICK x : /\ Become(c, x)
                 /\ x = Idle \/ (x.op = "pair" /\ x.token = Len(tokens) + 1)
    BY <1>8, IssueEffect
  <2>3. InStep(x)'
    BY <1>7, <2>1, <2>2 DEF InStep, Idle, SignedIn
  <2>4. QED  BY <1>3, <1>5, <1>7, <2>1, <2>2, <2>3, DevicesGoOn
<1>9. CASE Rotate(c)
  <2>1. PICK t : tokens' = Append(tokens, t) /\ t.next = 0
    BY <1>9, RotateEffect
  <2>2. PICK x : /\ Become(c, x)
                 /\ x.op = "retire" /\ x.device = call[c].device
                 /\ x.token = call[c].token /\ x.new = Len(tokens) + 1
    BY <1>9, RotateEffect
  <2>3. call[c].op = "rotate" /\ call[c].token \in DOMAIN tokens
    BY <1>9, RotateEffect
  <2>4. x.new # x.token
    BY <1>1, <2>2, <2>3
  <2>5. InStep(x)'
    BY <1>1, <1>7, <2>1, <2>2, <2>3, <2>4 DEF InStep, SignedIn
  <2>6. QED  BY <1>3, <1>5, <1>7, <2>1, <2>2, <2>5, DevicesGoOn
<1>10. CASE Retire(c)
  <2>1. PICK k, n, e : k = call[c].token /\ n = call[c].new /\ e = call[c].device
    OBVIOUS
  <2>2. /\ call[c].op = "retire" /\ n \in DOMAIN tokens
        /\ \A j \in DOMAIN tokens : j # k => tokens'[j] = tokens[j]
        /\ \E x : /\ Become(c, x)
                  /\ \/ x = Idle /\ e = Nobody
                     \/ x.op = "pair" /\ x.token = n /\ x.device = e
    BY <1>10, <2>1, RetireEffect
  <2>3. /\ e \in Devices /\ SignedIn(e) /\ device[e].token = k
        /\ n # k /\ tokens[n].next = 0
        /\ \A d \in Devices : SignedIn(d) => device[d].token # n
    BY <1>1, <2>1, <2>2 DEF InStep
  <2>4. PICK x : Become(c, x) /\ x.op = "pair" /\ x.token = n /\ x.device = e
    BY <2>2, <2>3, SessionsAssumption
  <2>5. InStep(x)'
    BY <2>2, <2>3, <2>4 DEF InStep, SignedIn
  <2>6. ASSUME NEW d \in Devices, device'[d] # SignedOut, d # e
        PROVE  tokens'[device'[d].token].next = 0
    <3>1. device[d].token # k
      BY <2>3, <2>6 DEF DevicesAreInStep, SignedIn
    <3>2. QED  BY <1>4, <2>2, <2>6, <3>1 DEF SignedIn
  <2>7. QED  BY <1>3, <1>5, <2>4, <2>5, <2>6, DevicesGoOn
<1>11. QED  BY <1>6, <1>8, <1>9, <1>10 DEF Writes

LEMMA DevicesStep ==
    ASSUME IInv, [Next]_vars, Orderly', Orderly => DevicesAreInStep
    PROVE  DevicesAreInStep'
<1>1. CASE UNCHANGED <<tokens, faults, call, device, mingled>>
  <2>1. DevicesAreInStep
    BY <1>1 DEF Orderly
  <2>2. QED
    BY <1>1, <2>1 DEF DevicesAreInStep, InStep, SignedIn, PairForDevice
<1>2. CASE Fault
  BY <1>2 DEF Fault, Orderly, IInv, Counters
<1>3. ASSUME NEW c \in Calls, Writes(c), UNCHANGED <<device, faults, mingled>>
      PROVE  DevicesAreInStep'
  BY <1>3, DevicesAtCommit DEF Orderly
<1>4. ASSUME NEW c \in Calls, NEW x, Quiet(c, x), mingled => mingled',
             ~mingled' => \A b \in Calls : b # c => call[b] = Idle
      PROVE  DevicesAreInStep'
  <2>1. Orderly /\ \A b \in Calls : b # c => call[b] = Idle
    BY <1>4 DEF Orderly, Quiet
  <2>2. QED  BY <1>4, <2>1, DevicesAtQuiet
<1>5. QED  BY <1>1, <1>2, <1>3, <1>4, StepKinds

-----------------------------------------------------------------------------
(* Theorems about rotation.                                                *)

\* What is true of the tokens of sessions and of the devices that hold them, in the
\* middle of a rotation as well.
THEOREM RotationHolds == Spec => []RotationInv
<1>1. Init => RotationInv
  <2>1. SUFFICES ASSUME Init PROVE RotationInv
    OBVIOUS
  <2>2. /\ DOMAIN tokens = {} /\ \A c \in Calls : call[c] = Idle
        /\ \A d \in Devices : ~SignedIn(d)
    BY <2>1 DEF Init, SessionsInit, SignedIn
  <2>3. SessionsAreRooted /\ RotationsAreOfLiveTokens /\ LiveTokensAreFew
    BY <2>2 DEF SessionsAreRooted, RotationsAreOfLiveTokens, LiveTokensAreFew, Idle
  <2>4. DevicesAreInStep
    BY <2>2 DEF DevicesAreInStep, InStep, Idle
  <2>5. QED  BY <2>3, <2>4 DEF RotationInv
<1>2. IInv /\ RotationInv /\ [Next]_vars => RotationInv'
  <2>1. SUFFICES ASSUME IInv, RotationInv, [Next]_vars PROVE RotationInv'
    OBVIOUS
  <2>2. ~mingled' => TokensInHand'
    BY <2>1, TokensStep DEF RotationInv, TokensInHand
  <2>3. Orderly' => DevicesAreInStep'
    BY <2>1, DevicesStep DEF RotationInv
  <2>4. QED  BY <2>2, <2>3 DEF RotationInv, TokensInHand
<1>3. QED  BY <1>1, <1>2, InductiveInvariant, PTL DEF Spec

\* While no two calls overlap and none is under way, a session has one live token,
\* and one more for every restart and lost answer at most.
THEOREM OneTokenPerChain == Spec => []OneTokenPerSession
<1>1. RotationInv => OneTokenPerSession
  <2>1. SUFFICES ASSUME RotationInv, ~mingled, AllIdle, NEW s \in DOMAIN tokens
                 PROVE  Cardinality({k \in LiveTokens : tokens[k].session = s}) <= 1 + faults
    BY DEF OneTokenPerSession
  <2>2. ~BeingReplaced(s)
    BY <2>1 DEF AllIdle, BeingReplaced, Idle
  <2>3. Allowance(s) = 1 + faults
    BY <2>2 DEF Allowance
  <2>4. QED  BY <2>1, <2>3 DEF RotationInv, LiveTokensAreFew, LiveIn
<1>2. QED  BY <1>1, RotationHolds, PTL

\* Handlers one at a time, none of them cut off: a device that is signed in holds the
\* last token of its session, so that its next refresh is not taken for reuse.
THEOREM DevicesHoldTheLastToken == Spec => []DevicesKeepUp
<1>1. RotationInv => DevicesKeepUp
  <2>1. SUFFICES ASSUME RotationInv, Orderly, AllIdle, NEW d \in Devices, SignedIn(d)
                 PROVE  tokens[device[d].token].next = 0
    BY DEF DevicesKeepUp
  <2>2. ~PairForDevice(d)
    BY <2>1 DEF AllIdle, PairForDevice, Idle
  <2>3. QED  BY <2>1, <2>2 DEF RotationInv, DevicesAreInStep
<1>2. QED  BY <1>1, RotationHolds, PTL
=============================================================================
