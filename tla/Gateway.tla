------------------------------ MODULE Gateway ------------------------------
(***************************************************************************)
(* The Gateway's attempt service as the Stone evaluator sees it through    *)
(* gateway_env.rs.  The Gateway is not part of this repository: what is    *)
(* written here is exactly what the evaluator depends on.                  *)
(*                                                                         *)
(* An attempt is a child execution with its own workspace transaction.     *)
(* The evaluator reads its state ("active" or not), its controller state   *)
(* and the status its controller reported.  Controllers run concurrently   *)
(* with the evaluator.  Every call can fail: it may be refused, or be      *)
(* applied while its reply is lost; which of the two can happen in a model *)
(* is the constant Faults.                                                 *)
(***************************************************************************)
CONSTANTS
    Attempt,  \* the attempt identifiers the Gateway can hand out
    Faults,   \* the ways a call may fail: a subset of FaultKinds
    Lenient   \* TRUE iff repeating a call that is already done succeeds

FaultKinds == {"refused", "lost"}

ASSUME FaultsAssumption == Faults \subseteq FaultKinds
ASSUME LenientAssumption == Lenient \in BOOLEAN

VARIABLES
    gState,       \* attempt record field `state`
    gController,  \* metadata `controller_state`, folded into the four classes the code tells apart
    gSucceeded,   \* attempts whose `controller_result_status` is "succeeded"
    gMerged       \* attempts whose workspace a parent accepted

gvars == <<gState, gController, gSucceeded, gMerged>>

\* "starting" and "running" are treated alike by the evaluator, and so are
\* "exited", "failed" and "terminated": they are "running" and "stopped" here.
AttemptState == {"none", "active", "failed", "rolled_back"}
ControllerState == {"absent", "running", "terminating", "stopped"}

GatewayTypeOK ==
    /\ gState \in [Attempt -> AttemptState]
    /\ gController \in [Attempt -> ControllerState]
    /\ gSucceeded \subseteq Attempt
    /\ gMerged \subseteq Attempt

GatewayInit ==
    /\ gState = [a \in Attempt |-> "none"]
    /\ gController = [a \in Attempt |-> "absent"]
    /\ gSucceeded = {}
    /\ gMerged = {}

Exists(a) == gState[a] # "none"
Active(a) == gState[a] = "active"
Settled(a) == gState[a] \in {"failed", "rolled_back"}
Live(a) == gController[a] \in {"running", "terminating"}

-----------------------------------------------------------------------------
(***************************************************************************)
(* Replies.  A call whose effect took place answers "ok", or "error" when  *)
(* its reply is lost.  A call without effect answers "error" when it is    *)
(* refused or was not legal; a lenient Gateway answers "ok" to a call      *)
(* whose effect is already in place.                                       *)
(***************************************************************************)
Reply == {"ok", "error"}

Applied == {"ok"} \cup (IF "lost" \in Faults THEN {"error"} ELSE {})

Unapplied(legal, repeated) ==
    IF Lenient /\ repeated
    THEN {"ok"} \cup (IF "refused" \in Faults THEN {"error"} ELSE {})
    ELSE IF legal /\ "refused" \notin Faults THEN {} ELSE {"error"}

ReadReply == {"ok"} \cup (IF Faults = {} THEN {} ELSE {"error"})

-----------------------------------------------------------------------------
(***************************************************************************)
(* The calls that change the Gateway's state.                              *)
(***************************************************************************)

\* attempt_spawn and attempt_fork; `start` starts the controller at once.
Create(a, start, r) ==
    /\ gState[a] = "none"
    /\ \/ /\ r \in Applied
          /\ gState' = [gState EXCEPT ![a] = "active"]
          /\ gController' = [gController EXCEPT ![a] =
                                IF start THEN "running" ELSE "absent"]
       \/ /\ r \in Unapplied(TRUE, FALSE)
          /\ UNCHANGED <<gState, gController>>
    /\ UNCHANGED <<gSucceeded, gMerged>>

Start(a, r) ==
    LET legal == Active(a) /\ gController[a] = "absent" IN
    /\ \/ /\ legal /\ r \in Applied
          /\ gController' = [gController EXCEPT ![a] = "running"]
       \/ /\ r \in Unapplied(legal, Live(a))
          /\ UNCHANGED gController
    /\ UNCHANGED <<gState, gSucceeded, gMerged>>

Terminate(a, r) ==
    LET legal == gController[a] = "running" IN
    /\ \/ /\ legal /\ r \in Applied
          /\ gController' = [gController EXCEPT ![a] = "terminating"]
       \/ /\ r \in Unapplied(legal, gController[a] \in {"terminating", "stopped"})
          /\ UNCHANGED gController
    /\ UNCHANGED <<gState, gSucceeded, gMerged>>

\* attempt_finish, by anyone: `outcome` is the state it leaves the attempt in.
\* Rolling back (attempt_discard) is Finish(a, "rolled_back", r).
Finish(a, outcome, r) ==
    /\ \/ /\ Active(a) /\ r \in Applied
          /\ gState' = [gState EXCEPT ![a] = outcome]
       \/ /\ r \in Unapplied(Active(a), gState[a] = outcome)
          /\ UNCHANGED gState
    /\ UNCHANGED <<gController, gSucceeded, gMerged>>

\* The parent takes the child's workspace; the child is reclaimed.
Accept(a, r) ==
    /\ \/ /\ Active(a) /\ r \in Applied
          /\ gState' = [gState EXCEPT ![a] = "rolled_back"]
          /\ gMerged' = gMerged \cup {a}
       \/ /\ r \in Unapplied(Active(a), a \in gMerged)
          /\ UNCHANGED <<gState, gMerged>>
    /\ UNCHANGED <<gController, gSucceeded>>

\* attempt_report, by the child's controller or by its parent.
Report(a, succeeded) ==
    /\ Active(a)
    /\ gSucceeded' = IF succeeded THEN gSucceeded \cup {a} ELSE gSucceeded \ {a}
    /\ UNCHANGED <<gState, gController, gMerged>>

-----------------------------------------------------------------------------
(***************************************************************************)
(* What a running child does on its own.                                   *)
(***************************************************************************)
ControllerStops(a) ==
    /\ Live(a)
    /\ gController' = [gController EXCEPT ![a] = "stopped"]
    /\ UNCHANGED <<gState, gSucceeded, gMerged>>

ChildReports(a) ==
    /\ Live(a)
    /\ \E succeeded \in BOOLEAN : Report(a, succeeded)

ChildFinishes(a) ==
    /\ Live(a) /\ Active(a)
    /\ \E outcome \in {"failed", "rolled_back"} : Finish(a, outcome, "ok")

ChildStep == \E a \in Attempt : ControllerStops(a) \/ ChildReports(a) \/ ChildFinishes(a)

=============================================================================
