----------------------------- MODULE MCSessions -----------------------------
(* Small instances of the sessions.                                        *)
EXTENDS SessionProperties, TLC

MCRefreshTTL == [o \in Subjects |-> 1]
=============================================================================
