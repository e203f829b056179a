---------------------------- MODULE MCEvaluator ----------------------------
(***************************************************************************)
(* Instances of Evaluator for TLC.                                         *)
(***************************************************************************)
EXTENDS Evaluator

CONSTANTS x, e1, e2

\* No hooks, both by value, and a named hook on either side.
Hooking == {[pre |-> None, post |-> None],
            [pre |-> "callable", post |-> "name"]}
=============================================================================
