------------------------------ MODULE Accounts ------------------------------
(***************************************************************************)
(* What IAuth (opncms/module/auth.h) promises about the accounts: a call   *)
(* begins, changes the account it names in single steps that depend on     *)
(* nothing but the call and the account as it is now, and ends.  AuthData  *)
(* is shown to implement this when one thread calls it, on a driver that   *)
(* answers and in a process that lives; so is AccountsOnSql, where a cache *)
(* stands between the calls and the accounts, with Lagging TRUE.           *)
(***************************************************************************)
EXTENDS Naturals

CONSTANTS
    Emails, Passwords, MAX_LOGIN_ATTEMPTS, None, Nobody,
    Absent,     \* a field that an account does not have
    Lagging     \* TRUE: the status and the count a check goes by may be older ones

VARIABLES
    account, \* [Emails -> accounts or None]
    doing    \* the call in progress and its account

New == 0
Active == 1
Blocked == 2

Ops == {"create", "reset", "forgot", "check", "change", "block", "unblock", "verify",
        "activate", "deactivate", "count"}
Nothing == [op |-> "none", email |-> Nobody]

Account == {a \in [password : Passwords \cup {Absent}, status : {New, Active, Blocked},
                   attempts : 0..MAX_LOGIN_ATTEMPTS \cup {Absent}] :
               a.password # Absent => a.attempts # Absent}

Is(e, status) == account[e] # None /\ account[e].status = status

\* What active(email, flag) makes where there is no account.
Bare(status) == [password |-> Absent, status |-> status, attempts |-> Absent]

\* A count is stored if the account is active, or was when its status was read.
Counts(e) == Is(e, Active) \/ (Lagging /\ Is(e, Blocked))

\* How a call op may change the account e, and into what.
Becomes(op, e, a) ==
    \/ /\ op = "create" /\ account[e] = None
       /\ \E pw \in Passwords : a = [password |-> pw, status |-> New, attempts |-> 0]
    \/ op = "verify" /\ Is(e, New) /\ a = [account[e] EXCEPT !.status = Active]
    \* The right password: the count restarts.
    \/ /\ op \in {"check", "change"} /\ Is(e, Active) /\ account[e].password # Absent
       /\ a = [account[e] EXCEPT !.attempts = 0]
    \* A wrong one: it counts, or it was the last.
    \/ /\ op \in {"check", "change"} /\ Is(e, Active) /\ account[e].attempts # Absent
       /\ a = IF account[e].attempts + 1 >= MAX_LOGIN_ATTEMPTS
              THEN [account[e] EXCEPT !.status = Blocked]
              ELSE [account[e] EXCEPT !.attempts = @ + 1]
    \* A wrong one after a status that was older, or a count that was higher: more
    \* is counted or the account is blocked early, but never less is counted.
    \/ /\ Lagging /\ op \in {"check", "change"} /\ Counts(e) /\ account[e].attempts # Absent
       /\ \/ a = [account[e] EXCEPT !.status = Blocked]
          \/ \E n \in 1..MAX_LOGIN_ATTEMPTS - 1 :
                n > account[e].attempts /\ a = [account[e] EXCEPT !.attempts = n]
    \/ /\ op = "change" /\ Is(e, Active) /\ account[e].password # Absent
       /\ \E pw \in Passwords : a = [account[e] EXCEPT !.password = pw, !.attempts = 0]
    \/ /\ op = "forgot" /\ account[e] # None
       /\ \E pw \in Passwords : a = [password |-> pw, status |-> Active, attempts |-> 0]
    \/ op = "block" /\ account[e] # None /\ a = [account[e] EXCEPT !.status = Blocked]
    \/ /\ op \in {"unblock", "activate"} /\ account[e] # None
       /\ a = [account[e] EXCEPT !.status = Active]
    \/ op = "deactivate" /\ account[e] # None /\ a = [account[e] EXCEPT !.status = New]
    \/ /\ op \in {"activate", "deactivate"} /\ account[e] = None
       /\ a = Bare(IF op = "activate" THEN Active ELSE New)
    \/ /\ op = "count" /\ Counts(e)
       /\ \E n \in 0..MAX_LOGIN_ATTEMPTS : a = [account[e] EXCEPT !.attempts = n]

Begin ==
    /\ doing = Nothing
    /\ \E op \in Ops, e \in Emails : doing' = [op |-> op, email |-> e]
    /\ UNCHANGED account

\* The last change of a call is also its end.
Change ==
    /\ doing # Nothing
    /\ \E a \in Account :
          /\ Becomes(doing.op, doing.email, a)
          /\ account' = [account EXCEPT ![doing.email] = a]
    /\ doing' \in {doing, Nothing}

End == doing' = Nothing /\ UNCHANGED account

Init == account = [e \in Emails |-> None] /\ doing = Nothing
Next == Begin \/ Change \/ End
Spec == Init /\ [][Next]_<<account, doing>>
=============================================================================
