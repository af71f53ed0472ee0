---------------------------- MODULE PasswordCache ----------------------------
(* What passwordMgr.c promises its callers: a cache that keeps the password *)
(* last typed for each account.                                             *)
CONSTANTS Accounts, Passwords, Unknown

VARIABLE cache          \* the password remembered for each account

Init == cache = [a \in Accounts |-> Unknown]

\* The user answered the question for account a.  What is remembered for
\* the other accounts stays.
Learn(a, pw) == cache' = [cache EXCEPT ![a] = pw]

Next == \E a \in Accounts, pw \in Passwords : Learn(a, pw)

Spec == Init /\ [][Next]_cache
=============================================================================
