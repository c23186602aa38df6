------------------------------- MODULE Absence -------------------------------
(* No value: what the code holds None for, a file that is not there, a result  *)
(* that was not obtained.  The components that one instance extends share it.  *)
CONSTANT None
=============================================================================
