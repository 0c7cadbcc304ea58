----------------------------- MODULE MCWorkbench ----------------------------
(* Small instances of WorkbenchStore for TLC.                              *)
EXTENDS WorkbenchStore, TLC

\* The calls are interchangeable.
CallSymmetry == Permutations(Calls)
=============================================================================
