------------------------------ MODULE MCFlowState -----------------------------
(***************************************************************************)
(* A small instance of FlowState with two workloads: more process trees    *)
(* than entries with timestamps in order, and a longer time with           *)
(* timestamps out of order.                                                *)
(***************************************************************************)
EXTENDS FlowState, TLC

\* Process trees are interchangeable.
RootSymmetry == Permutations(Roots)

Crowded == [trees |-> 3, latest |-> 2, skew |-> 0]
Late == [trees |-> 2, latest |-> 3, skew |-> 1]
MCWorkloads == {Crowded, Late}
===============================================================================
