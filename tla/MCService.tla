----------------------------- MODULE MCService ------------------------------
(***************************************************************************)
(* An instance of Service for TLC: all tests are of one node.              *)
(***************************************************************************)
EXTENDS Service

CONSTANTS a1, a2, t1, t2, n1

MCNodeOf == [t \in Testers |-> n1]

\* What a start launches and one to lose, and what one test launches.
MCMaxPids ==
  [tag \in Tags |-> IF tag = "service" THEN Rules * (Checked + 1) + 1 ELSE Checked]
=============================================================================
