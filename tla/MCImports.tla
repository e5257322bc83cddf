----------------------------- MODULE MCImports -----------------------------
(* Small instances of the import.                                          *)
EXTENDS ImportProperties, TLC

CONSTANTS h1, h2, p1, p2, e1, s1, s2

R(house, mobile, email, serial) ==
    [house |-> house, mobile |-> mobile, email |-> email, serial |-> serial]

MCResidents == [h \in {h1} |-> [mobile |-> p1, email |-> None]]

MCMeters == [s \in {s1} |-> h1]

\* Two houses; one address for both; one mobile number or one serial number for
\* both; a number of the other house; a row without its number.
MCSheets ==
    { <<R(h1, p1, e1, s1), R(h2, p2, None, s2)>>,
      <<R(h2, p2, e1, s2), R(h1, p1, e1, s1)>>,
      <<R(h1, p2, None, s1), R(h2, p2, None, s2)>>,
      <<R(h1, p2, None, s2), R(h2, p1, None, s2)>>,
      <<R(h2, p1, e1, s2)>>,
      <<R(h1, None, None, s1), R(h2, p2, e1, s2)>> }
=============================================================================
