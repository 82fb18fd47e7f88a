------------------------------ MODULE MCMail --------------------------------
(* Small instances of Mail for TLC: callers and addresses are                *)
(* interchangeable.                                                          *)
EXTENDS Mail, TLC

Symmetry == Permutations(Callers) \cup Permutations(Addresses)
=============================================================================
