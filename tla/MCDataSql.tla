----------------------------- MODULE MCDataSql -----------------------------
(* Small instances of DataSql for TLC.  Keys and values are interchangeable. *)
EXTENDS DataSql, TLC

Symmetry == Permutations(Keys) \cup Permutations(Vals)

\* No action reads ret: states that differ in it alone have the same successors.
\* Sound for the state invariants that do not mention ret and for the action
\* properties, which mention only ret', and only those are in the runs using it.
View == <<created, row, rowsFrame, storageFrame, frame, storage_changed_, batch>>
=============================================================================
