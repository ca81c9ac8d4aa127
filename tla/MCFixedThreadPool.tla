-------------------------- MODULE MCFixedThreadPool --------------------------
(* FixedThreadPool for TLC: five tasks, two of which add another one.       *)
EXTENDS FixedThreadPool

CONSTANTS w1, w2, c1, c2, t1, t2, t3, t4, t5

TwoChildren == [t \in Tasks |-> CASE t = t1 -> t4 [] t = t2 -> t5 [] OTHER -> NoTask]
=============================================================================
