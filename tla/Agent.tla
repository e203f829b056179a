-------------------------------- MODULE Agent --------------------------------
(***************************************************************************)
(* AgentSession: an episode of the builtin controls.  react asks a model   *)
(* for actions, executes them and shows the model what happened, scripted  *)
(* executes a list of actions it was given.  A Stone action runs in the    *)
(* session of one guest, whose working memory is that of Context, and a    *)
(* Linux action at the Gateway; both may answer with a run that goes on.   *)
(* An event of the trace is [event, ok, run, cleanup]: whether a result is *)
(* ok, the run it names as still running, and active_run_cleanup.          *)
(***************************************************************************)
EXTENDS Context

CONSTANTS
    Limits,   \* the limits <<max_rounds, max_turns>> considered, 0 for none
    Run,      \* the runs the Gateway may start
    NoRun,    \* no run, or none that the result names
    MaxBatch  \* actions of one model answer or script

ASSUME AgentAssumption ==
    /\ Limits \subseteq Nat \X Nat
    /\ NoRun \notin Run
    /\ MaxBatch \in Nat

VARIABLES
    control,   \* "react" or "scripted"
    limits,    \* AgentSession.max_rounds and max_turns
    phase,     \* where the control is, or the tool that is at work
    rounds, turns,
    batch,     \* the actions that are left of the answer or the script
    sawTool,   \* the answer had a tool call
    pending,   \* the result of the tool call just made: [ok, run]
    messages,  \* what the next request shows the model, past the task
    trace,     \* AgentSession.trace
    result,    \* AgentRunResult
    complete,  \* what is at the completion path, "unset" if there is none
    runs       \* the runs at the Gateway

episode == <<control, limits, rounds, turns, batch, sawTool, pending, messages, trace, result>>
agentVars == <<episode, phase, complete, runs>>
vars == <<agentVars, contextVars>>

ToolName == {"file", "stone", "linux"}
Action == ToolName \cup {"final"}
Batches == UNION {[1..n -> Action] : n \in 0..MaxBatch}
Phase == {"round", "request", "actions", "cleanup", "result", "done"} \cup ToolName

Event(name, ok, run, cleanup) == [event |-> name, ok |-> ok, run |-> run, cleanup |-> cleanup]
Plain(name) == Event(name, TRUE, NoRun, "none")
EpisodeEnd(ok) == Event("episode_end", ok, NoRun, "none")
NoPending == [ok |-> FALSE, run |-> NoRun]
NoResult == [done |-> FALSE, ok |-> FALSE, rounds |-> 0, turns |-> 0]

\* run_control, up to the start of the control.
AgentInit ==
    /\ control \in {"react", "scripted"}
    /\ limits \in Limits
    /\ phase = IF control = "react" THEN "round" ELSE "actions"
    /\ rounds = 0 /\ turns = 0 /\ sawTool = FALSE /\ pending = NoPending
    /\ batch \in IF control = "react" THEN {<<>>} ELSE Batches
    /\ messages = <<>>
    /\ trace = <<Plain("episode_start")>>
    /\ result = NoResult
    /\ complete \in {"unset", "absent", "present"}
    /\ runs = [r \in Run |-> "none"]
    /\ ContextInit

-----------------------------------------------------------------------------
(***************************************************************************)
(* The end of an episode.                                                  *)
(***************************************************************************)
\* finish_with_error, round_limit_result and turn_limit_result; events are what
\* was pushed before.
FinishWithError(events) ==
    /\ trace' = trace \o events \o <<EpisodeEnd(FALSE)>>
    /\ result' = [done |-> TRUE, ok |-> FALSE, rounds |-> rounds', turns |-> turns']
    /\ phase' = "done"

FinishWith(events) ==
    /\ trace' = trace \o events \o <<EpisodeEnd(TRUE)>>
    /\ result' = [done |-> TRUE, ok |-> TRUE, rounds |-> rounds', turns |-> turns']
    /\ phase' = "done"

Continue(events, next) ==
    /\ trace' = trace \o events
    /\ phase' = next
    /\ UNCHANGED result

Reached(limit, count) == limit > 0 /\ count >= limit

-----------------------------------------------------------------------------
(***************************************************************************)
(* A round of react.                                                       *)
(***************************************************************************)
\* react finds no model gateway.
NoGateway ==
    /\ phase = "round" /\ rounds = 0
    /\ UNCHANGED <<control, limits, rounds, turns, batch, sawTool, pending, messages, complete, runs>>
    /\ FinishWithError(<<>>)
    /\ UNCHANGED contextVars

StartRound ==
    /\ phase = "round"
    /\ UNCHANGED <<control, limits, turns, batch, sawTool, pending, messages, complete, runs>>
    /\ IF Reached(limits[1], rounds)
       THEN UNCHANGED rounds /\ FinishWithError(<<>>)
       ELSE rounds' = rounds + 1 /\ Continue(<<Plain("model_request")>>, "request")
    /\ UNCHANGED contextVars

\* The model gateway fails, or answers without text, with text that holds no
\* actions, or with actions.
ModelAnswers ==
    /\ phase = "request"
    /\ UNCHANGED <<control, limits, rounds, turns, pending, complete, runs>>
    /\ LET answered == <<Plain("model_response")>> IN
       \/ UNCHANGED <<batch, sawTool, messages>> /\ FinishWithError(<<>>)
       \/ UNCHANGED <<batch, sawTool, messages>> /\ FinishWithError(answered)
       \/ \E actions \in Batches :
             /\ messages' = messages \o answered
             /\ batch' = actions /\ sawTool' = FALSE
             /\ IF actions = <<>> THEN FinishWithError(answered) ELSE Continue(answered, "actions")
    /\ UNCHANGED contextVars

\* Faulty variant: the limit is looked at when the turn has been counted.
NextActionLate ==
    /\ phase = "actions" /\ batch # <<>>
    /\ UNCHANGED <<control, limits, rounds, pending, messages, complete, runs>>
    /\ IF Reached(limits[2], turns)
       THEN /\ turns' = turns + 1
            /\ UNCHANGED <<batch, sawTool>> /\ FinishWithError(<<>>)
       ELSE /\ turns' = turns + 1
            /\ batch' = Tail(batch)
            /\ IF Head(batch) = "final"
               THEN UNCHANGED sawTool /\ FinishWith(<<Plain("agent_final")>>)
               ELSE sawTool' = TRUE /\ Continue(<<Plain("tool_call")>>, Head(batch))
    /\ UNCHANGED contextVars

\* The next action of the answer or of the script.
NextAction ==
    /\ phase = "actions" /\ batch # <<>>
    /\ UNCHANGED <<control, limits, rounds, pending, messages, complete, runs>>
    /\ IF Reached(limits[2], turns)
       THEN UNCHANGED <<turns, batch, sawTool>> /\ FinishWithError(<<>>)
       ELSE /\ turns' = turns + 1
            /\ batch' = Tail(batch)
            /\ IF Head(batch) = "final"
               THEN UNCHANGED sawTool /\ FinishWith(<<Plain("agent_final")>>)
               ELSE sawTool' = TRUE /\ Continue(<<Plain("tool_call")>>, Head(batch))
    /\ UNCHANGED contextVars

\* No action is left: react asks again if there was a tool call, a script must
\* have ended with a final value.
NoAction ==
    /\ phase = "actions" /\ batch = <<>>
    /\ UNCHANGED <<control, limits, rounds, turns, batch, sawTool, pending, messages, complete, runs>>
    /\ IF control = "react" /\ sawTool THEN Continue(<<>>, "round") ELSE FinishWithError(<<>>)
    /\ UNCHANGED contextVars

-----------------------------------------------------------------------------
(***************************************************************************)
(* The tools.  A tool may create or remove what is at the completion path. *)
(***************************************************************************)
Touched == IF complete = "unset" THEN {"unset"} ELSE {"absent", "present"}

Answered(ok, run) ==
    /\ pending' = [ok |-> ok, run |-> run]
    /\ phase' = IF control = "react" /\ run # NoRun THEN "cleanup" ELSE "result"
    /\ UNCHANGED <<control, limits, rounds, turns, batch, sawTool, messages, trace, result>>

\* read, write, edit, list, find and search.
FileTool ==
    /\ phase = "file"
    /\ \E ok \in BOOLEAN : Answered(ok, NoRun)
    /\ complete' \in Touched
    /\ UNCHANGED <<runs, contextVars>>

\* The program of a Stone action uses the memory of its session; with a Gateway
\* it uses that of the attempt.
StoneStep ==
    /\ phase = "stone"
    /\ \/ \E key \in Key, size \in ContentSize, text \in Text, archived \in BOOLEAN :
             Write(key, size, text, archived)
       \/ \E query \in Text, keys \in SUBSET Key, limit \in 1..Cardinality(Key) :
             Read(query, keys, limit)
       \/ \E focus \in Text, tokens \in 0..(MaxTokens + 1), keys \in SeqOf(Key, 2) :
             Project(focus, tokens, keys)
       \/ \E rev \in 0..MaxRevision, ok \in BOOLEAN : CallGateway(rev, 0, ok)
    /\ UNCHANGED agentVars

\* The program ends.  It may have started a run, and may return a record of it;
\* the result of a failed program names none.
StoneTool ==
    /\ phase = "stone"
    /\ \E ok \in BOOLEAN, started \in SUBSET {r \in Run : runs[r] = "none"} :
          /\ Cardinality(started) <= 1
          /\ runs' = [r \in Run |-> IF r \in started THEN "running" ELSE runs[r]]
          /\ \E run \in (IF ok THEN started ELSE {}) \cup {NoRun} : Answered(ok, run)
    /\ complete' \in Touched
    /\ UNCHANGED contextVars

\* run_linux: a script has no Gateway for it.  The Gateway refuses, runs the
\* command to its end, lets it go on past the timeout, or its reply is lost.
LinuxTool ==
    /\ phase = "linux"
    /\ \/ Answered(FALSE, NoRun) /\ UNCHANGED runs
       \/ /\ control = "react"
          /\ \E r \in Run, ok \in BOOLEAN :
                /\ runs[r] = "none"
                /\ \/ runs' = [runs EXCEPT ![r] = "over"] /\ Answered(ok, NoRun)
                   \/ /\ runs' = [runs EXCEPT ![r] = "running"]
                      /\ \/ Answered(ok, r)
                         \/ Answered(FALSE, NoRun)
    /\ complete' \in Touched
    /\ UNCHANGED contextVars

\* A run ends by itself, and may have written the completion path as well.
RunEnds(r) ==
    /\ runs[r] = "running"
    /\ runs' = [runs EXCEPT ![r] = "over"]
    /\ complete' \in Touched
    /\ UNCHANGED <<episode, phase, contextVars>>

-----------------------------------------------------------------------------
(***************************************************************************)
(* The result of a tool.                                                   *)
(***************************************************************************)
\* A result is recorded and shown to the model; react ends when a result is ok
\* and the completion path exists, a script when a result is not ok.
Recorded(cleanup) ==
    LET event == Event("tool_result", pending.ok, pending.run, cleanup) IN
    /\ messages' = IF control = "react" THEN Append(messages, event) ELSE messages
    /\ pending' = NoPending
    /\ UNCHANGED <<control, limits, rounds, turns, batch, sawTool, complete>>
    /\ IF control = "react" /\ pending.ok /\ complete = "present"
       THEN FinishWith(<<event, Plain("auto_final")>>)
       ELSE IF control = "scripted" /\ ~pending.ok THEN FinishWithError(<<event>>)
       ELSE Continue(<<event>>, "actions")

\* Faulty variant: only the run of a successful result is terminated.
TerminateActiveRunIfOk ==
    /\ phase = "cleanup"
    /\ \/ pending.ok /\ runs' = [runs EXCEPT ![pending.run] = "over"] /\ Recorded("stopped")
       \/ ~pending.ok /\ UNCHANGED runs /\ Recorded("none")
    /\ UNCHANGED contextVars

\* terminate_active_linux_run: the answer, or the error, goes into the result.
TerminateActiveRun ==
    /\ phase = "cleanup"
    /\ \/ runs' = [runs EXCEPT ![pending.run] = "over"] /\ Recorded("stopped")
       \/ runs' = [runs EXCEPT ![pending.run] = "over"] /\ Recorded("error")
       \/ UNCHANGED runs /\ Recorded("running")
       \/ UNCHANGED runs /\ Recorded("error")
    /\ UNCHANGED contextVars

ToolResult ==
    /\ phase = "result"
    /\ Recorded("none")
    /\ UNCHANGED <<runs, contextVars>>

Next ==
    \/ NoGateway
    \/ StartRound
    \/ ModelAnswers
    \/ NextAction
    \/ NoAction
    \/ FileTool
    \/ StoneStep
    \/ StoneTool
    \/ LinuxTool
    \/ \E r \in Run : RunEnds(r)
    \/ TerminateActiveRun
    \/ ToolResult

Spec == AgentInit /\ [][Next]_vars

-----------------------------------------------------------------------------
(***************************************************************************)
(* Properties.                                                             *)
(***************************************************************************)
\* Where a trace has events of these names, and how many it has.
Places(events, names) == {i \in DOMAIN events : events[i].event \in names}
Count(events, names) == Cardinality(Places(events, names))

\* Messages are the answers and results of a trace, in their order.
Shows(events, shown) ==
    LET places == Places(events, {"model_response", "tool_result"}) IN
    /\ Len(shown) = Cardinality(places)
    /\ \A i \in places : shown[Cardinality({j \in places : j <= i})] = events[i]

AgentTypeOK ==
    /\ control \in {"react", "scripted"} /\ limits \in Limits /\ phase \in Phase
    /\ rounds \in Nat /\ turns \in Nat /\ sawTool \in BOOLEAN
    /\ pending \in [ok : BOOLEAN, run : Run \cup {NoRun}]
    /\ complete \in {"unset", "absent", "present"}
    /\ runs \in [Run -> {"none", "running", "over"}]

\* The trace, the result and what the model is shown tell one story: each tool
\* call is followed by its result, the counts are those of the trace and within
\* the limits, an episode ends once, and well only with a final value or a result
\* that is ok; a request shows the model each answer and result so far.
EpisodeAccounts ==
    /\ \A i \in DOMAIN trace :
          /\ trace[i].event = "tool_call" /\ i < Len(trace) => trace[i + 1].event = "tool_result"
          /\ trace[i].event = "tool_result" => trace[i - 1].event = "tool_call"
          /\ trace[i].event = "episode_end" => i = Len(trace)
    /\ rounds = Count(trace, {"model_request"})
    /\ turns = Count(trace, {"tool_call", "agent_final"})
    /\ limits[1] > 0 => rounds <= limits[1]
    /\ limits[2] > 0 => turns <= limits[2]
    /\ result.done <=> trace[Len(trace)].event = "episode_end"
    /\ result.done =>
          /\ result.rounds = rounds /\ result.turns = turns
          /\ result.ok <=> trace[Len(trace) - 1].event \in {"agent_final", "auto_final"}
          /\ trace[Len(trace) - 1].event = "auto_final" => trace[Len(trace) - 2].ok
    /\ phase = "request" => Shows(trace, messages)

\* A run that react was told is still running has been stopped when the model
\* hears of it, or the result says that the attempt to stop it failed.
RunsAreStopped ==
    control = "react" =>
        \A i \in DOMAIN trace : trace[i].run # NoRun =>
            /\ trace[i].cleanup \in {"stopped", "running", "error"}
            /\ trace[i].cleanup = "stopped" => runs[trace[i].run] = "over"

=============================================================================
