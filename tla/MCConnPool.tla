----------------------------- MODULE MCConnPool -----------------------------
(* Instances of ConnPool for TLC. *)
EXTENDS ConnPool

CONSTANTS c1, c2, c3, c4, u1, m1, j1, j2

===============================================================================
