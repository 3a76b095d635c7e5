------------------------------ MODULE MCAccess ------------------------------
(* Two accounts and two page requests on two instances; two keys and two   *)
(* consumers; two drivers or riders and a table of one; two addresses and    *)
(* two accounts with room for one, and three attempts.                       *)
EXTENDS Access, TLC

CONSTANTS u1, u2, r1, r2, i1, i2, k1, k2, c1, c2, d1, d2, a1, a2, a3, ip1, ip2, e1, e2

Users     == {u1, u2}
Requests  == {r1, r2}
Instances == {i1, i2}
Keys      == {k1, k2}
Consumers == {c1, c2}
Drivers   == {d1, d2}
IPs       == {ip1, ip2}
Emails    == {e1, e2}
Attempts  == {a1, a2, a3}

Symmetry ==
    Permutations(Requests) \cup Permutations(Instances)
      \cup Permutations(Keys) \cup Permutations(Consumers)
=============================================================================
