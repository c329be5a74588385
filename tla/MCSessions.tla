----------------------------- MODULE MCSessions -----------------------------
(***************************************************************************)
(* Instances of Sessions for TLC.                                          *)
(***************************************************************************)
EXTENDS Sessions, TLC

CONSTANTS r1, r2, t1, t2, t3, ip1, ip2

Symmetric == Permutations(Requests) \cup Permutations(Tokens) \cup Permutations(Ips)

Customers(made, tries, asked, begun, ended) ==
    [tokens |-> made, wrong |-> tries, codes |-> asked, changes |-> begun, logouts |-> ended]

\* Tabs that refresh, with a logout; a change of the account among two sessions, and
\* next to a logout; wrong passwords and codes, with a change and without.
MCBudgets == {Customers(3, 0, 0, 0, 1), Customers(2, 0, 0, 1, 0), Customers(1, 0, 0, 1, 1),
              Customers(1, 1, 1, 1, 0), Customers(1, 2, 1, 0, 0)}
=============================================================================
