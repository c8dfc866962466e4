------------------------------ MODULE Absence ------------------------------
(* The value that stands for "none" in the modules that are run together.   *)
CONSTANT None
=============================================================================
