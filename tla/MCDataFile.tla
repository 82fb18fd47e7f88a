---------------------------- MODULE MCDataFile ----------------------------
(* Small instances of DataFile for TLC: inodes, keys and values are          *)
(* interchangeable.                                                          *)
EXTENDS DataFile, TLC

Symmetry == Permutations(Inodes) \cup Permutations(Keys) \cup Permutations(Values)
=============================================================================
