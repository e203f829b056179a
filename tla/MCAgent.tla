------------------------------- MODULE MCAgent -------------------------------
(***************************************************************************)
(* Instances of Agent for TLC.                                             *)
(***************************************************************************)
EXTENDS Agent, TLC

SomeLimits == {<<2, 0>>, <<0, 2>>, <<1, 1>>}
Texts == {{}, {"x"}, {"x", "y"}}
Sizes == {1, 3, 5}

\* Runs are interchangeable, and so are keys.
Interchangeable == Permutations(Run) \cup Permutations(Key)

\* No step of an episode looks at the memory: what one program may do with it is
\* explored in the first action of a script, and every episode without it.  A
\* call that leaves the memory alone is checked, and not gone on from.
OneProgram ==
    \/ answer = NoAnswer
    \/ /\ answer.op \in {"write", "gateway"}
       /\ control = "scripted" /\ phase = "stone" /\ Len(trace) = 2
       /\ batch = <<>> /\ limits = <<1, 1>> /\ complete = "unset"
=============================================================================
