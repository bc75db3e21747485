---------------------------- MODULE MCTaskQueue -----------------------------
(* TaskQueue for TLC: clients and addresses are model values. *)
EXTENDS TaskQueue

CONSTANTS c1, c2, n1, n2, n3

OneClient == {c1}
TwoClients == {c1, c2}
Addresses == {n1, n2, n3}
AllowValues == {0, 1}
=============================================================================
