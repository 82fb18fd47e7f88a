--------------------------- MODULE MCDataMongodb ----------------------------
(* Small instances of DataMongodb for TLC: clients, keys, names and scalars  *)
(* are interchangeable.                                                      *)
EXTENDS DataMongodb, TLC

Symmetry == Permutations(Clients) \cup Permutations(Keys) \cup Permutations(Names)
              \cup Permutations(Scalars)
=============================================================================
