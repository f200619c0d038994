----------------------------- MODULE MCRuntime -----------------------------
(* RuntimeFile on small instances.                                         *)
EXTENDS RuntimeFile, TLC

\* Sound: saves are alike and so are keys, and no property names one.
Alike == Permutations(Saves) \cup Permutations(Keys)
=============================================================================
