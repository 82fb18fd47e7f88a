----------------------------- MODULE MCService -----------------------------
(* Small instances of Service for TLC: workers, accounts and locales are     *)
(* interchangeable, sessions are when none of them is local.                 *)
EXTENDS Service, TLC

Symmetry == Permutations(Workers) \cup Permutations(Emails) \cup Permutations(Locales)
              \cup Permutations(LocalSessions) \cup Permutations(Sessions \ LocalSessions)
=============================================================================
