---------------------------- MODULE MCAuthData ----------------------------
(* Small instances of AuthData for TLC: threads, accounts and passwords are *)
(* interchangeable.                                                         *)
EXTENDS AuthData, TLC

Symmetry == Permutations(Threads) \cup Permutations(Emails) \cup Permutations(Passwords)
=============================================================================
