------------------------- MODULE SessionProperties -------------------------
(***************************************************************************)
(* What sessions and credentials promise.  Where a promise is kept only    *)
(* while calls do not overlap, mingled says so; how overlapping breaks it  *)
(* is in the README.                                                       *)
(***************************************************************************)
EXTENDS Clients

AllIdle == \A c \in Calls : call[c] = Idle

\* Handlers one at a time so far, and none of them cut off.
Orderly == ~mingled /\ faults = 0

LiveTokens == {k \in DOMAIN tokens : Live(k)}

\* When a password has been replaced, by the resident or by an administrator, no
\* refresh token survives of a session that was opened with an earlier one
\* (confirm_password_reset, reset_resident_password).
ResetEndsSessions ==
    Orderly /\ AllIdle
      => \A k \in LiveTokens : tokens[k].era = account[tokens[k].owner].era

\* A session has one live refresh token: what refresh_tokens issues replaces what
\* it was shown.  A restart between its two commits leaves one more.
OneTokenPerSession ==
    ~mingled /\ AllIdle
      => \A s \in DOMAIN tokens :
           Cardinality({k \in LiveTokens : tokens[k].session = s}) <= 1 + faults

\* The device that is signed in holds the last token of its session: client and
\* backend agree on the rotation, so that a refresh is never taken for reuse of
\* a token that has been rotated out.
DevicesKeepUp ==
    Orderly /\ AllIdle
      => \A d \in Devices : SignedIn(d) => tokens[device[d].token].next = 0

\* No more than max_attempts wrong codes are judged against a one-time code.
GuessesAreCounted ==
    ~mingled => \A i \in DOMAIN codes : codes[i].guesses <= MaxAttempts

\* A person holds a form to set a password only by a code of that purpose that was
\* unused and had attempts left, and it is used up by it (_verify_and_consume_otp).
EveryFormCostsACode ==
    [][ ~mingled' =>
        \A f \in forms' \ forms :
          \E i \in DOMAIN codes :
            /\ codes[i].owner = f.owner /\ codes[i].purpose = f.scope
            /\ ~codes[i].used /\ codes'[i].used
            /\ codes[i].attempts < MaxAttempts ]_vars

\* A session that has ended stays ended: no token of it becomes live once none is,
\* whatever is presented afterwards, whoever restarts or stops waiting.
EndedSessionsStayEnded ==
    [][ ~mingled' =>
        \A s \in DOMAIN tokens :
          (\A k \in DOMAIN tokens : tokens[k].session = s => ~Live(k))
            => (\A k \in DOMAIN tokens' : tokens'[k].session = s => tokens'[k].revoked) ]_vars

\* Every request comes to an end, at the backend and at the client: the retry after
\* a 401 is made once.
RequestsEnd == \A c \in Calls : call[c] # Idle ~> call[c] = Idle
=============================================================================
