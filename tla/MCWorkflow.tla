----------------------------- MODULE MCWorkflow -----------------------------
(***************************************************************************)
(* Instances for TLC.  The stages are those of the documents' examples: an *)
(* inspection that must resolve a predicate-backed and a plain finding, a  *)
(* build that asks for the first of them and is checkpointed, a run that   *)
(* is judged by its command; and a survey without findings that a patch    *)
(* can put in the inspection's place.                                      *)
(***************************************************************************)
EXTENDS Workflow

CONSTANTS f, g, n1, n2, inspect, build, survey

Nothing == [n \in StageName |-> {}]

Inspect == [name |-> inspect, inputs |-> {}, asks |-> Nothing, fields |-> {f, g}, backed |-> {f},
            needles |-> [x \in Field |-> IF x = f THEN {n1, n2} ELSE {}],
            free |-> FALSE, command |-> FALSE, max |-> 2, repair |-> TRUE, checkpoint |-> FALSE]
Build == [Inspect EXCEPT !.name = build, !.inputs = {inspect}, !.asks[inspect] = {f},
                         !.fields = {}, !.backed = {}, !.needles = [x \in Field |-> {}],
                         !.free = TRUE, !.max = 1, !.checkpoint = TRUE]
Survey == [Build EXCEPT !.name = survey, !.inputs = {}, !.asks = Nothing, !.max = 0,
                        !.checkpoint = FALSE, !.repair = FALSE, !.command = TRUE]
\* A build that asks the survey for a finding it does not declare.
Misbuilt == [Build EXCEPT !.inputs = {survey}, !.asks = [Nothing EXCEPT ![survey] = {f}]]

WorkflowStages == {Inspect, Build, Survey, Misbuilt}

Quiet == [decision |-> FALSE, passed |-> FALSE, resolves |-> {}, values |-> {},
          updates |-> [x \in Field |-> "none"], field |-> NoField,
          quality |-> "good", shows |-> {}]
Probe(x, quality, shows) == [Quiet EXCEPT !.field = x, !.quality = quality, !.shows = shows]
Update(x, state) == [Quiet EXCEPT !.updates[x] = state]
Decides(o) == [o EXCEPT !.decision = TRUE, !.passed = TRUE]
Resolving(o, x) == [o EXCEPT !.resolves = {x}]

InspectOutcomes ==
  {Quiet, Decides(Quiet),
   Probe(f, "good", {n1}), Probe(f, "wrong", {n1, n2}),
   Probe(f, "truncated", {n2}), Probe(f, "generated", {n1, n2}), Probe(f, "empty", {}),
   Probe(g, "good", {}), Probe(g, "barred", {}),
   Resolving(Quiet, f), Resolving(Probe(f, "good", {n1}), f), Resolving(Probe(g, "good", {}), f),
   Decides(Resolving(Quiet, g)),
   [Quiet EXCEPT !.values = {f}], Decides([Quiet EXCEPT !.values = {g}]),
   Update(f, "unknown"), Update(f, "resolved"), Decides(Update(g, "resolved"))}
=============================================================================
