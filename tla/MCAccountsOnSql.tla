-------------------------- MODULE MCAccountsOnSql --------------------------
(* A small instance of AccountsOnSql for TLC: passwords are interchangeable, *)
(* and no action or property reads ret.                                      *)
EXTENDS AccountsOnSql, TLC

Symmetry == Permutations(Passwords)
View == <<users, hashes, call, guesses, created, row, rowsFrame, storageFrame,
          frame, storage_changed_, batch>>
=============================================================================
