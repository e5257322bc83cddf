------------------------------ MODULE MCPhoto ------------------------------
(* Small instances of the photo pipeline.                                  *)
EXTENDS PhotoProperties, TLC

\* A percentage, and the values around the threshold and the end of the range.
MCConfidences == {-1, 0, 84, 85, 100, 9800}
=============================================================================
