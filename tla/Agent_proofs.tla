----------------------------- MODULE Agent_proofs -----------------------------
(***************************************************************************)
(* Proofs about Agent: whatever a model answers and whatever the Gateway   *)
(* replies, react tells the model of no run as still running that it has   *)
(* not stopped, or failed to stop; the trace, the counts and the result of *)
(* an episode add up; the memory of Context is what it is counted as, and  *)
(* its answers are the best there are.                                     *)
(***************************************************************************)
EXTENDS Agent, SequenceTheorems, FiniteSetTheorems, WellFoundedInduction, TLAPS

Cleanup == {"none", "stopped", "running", "error"}
EventName == {"episode_start", "model_request", "model_response", "tool_call", "tool_result",
              "agent_final", "auto_final", "episode_end"}
EventType == [event : EventName, ok : BOOLEAN, run : Run \cup {NoRun}, cleanup : Cleanup]

\* What an event of an episode with control c may say of a run, as the runs are.
Accounted(e, c, states) ==
    c = "react" /\ e.run # NoRun =>
        /\ e.cleanup \in {"stopped", "running", "error"}
        /\ e.cleanup = "stopped" => states[e.run] = "over"

AllAccounted(events, c, states) ==
    /\ events \in Seq(EventType)
    /\ \A i \in DOMAIN events : Accounted(events[i], c, states)

\* A result that names a run waits for the cleanup where react awaits it.
PendingInv ==
    /\ phase = "cleanup" => control = "react" /\ pending.run # NoRun
    /\ phase = "result" /\ control = "react" => pending.run = NoRun

AgentInv ==
    /\ AgentTypeOK /\ batch \in Seq(Action)
    /\ PendingInv
    /\ AllAccounted(trace, control, runs)

\* A trace as EpisodeAccounts has it: a call is followed by its result and a result
\* preceded by its call, and nothing comes after the end.
Story(events) ==
    /\ events \in Seq(EventType) /\ events # <<>>
    /\ \A i \in DOMAIN events :
          /\ events[i].event = "tool_call" /\ i < Len(events) => events[i + 1].event = "tool_result"
          /\ events[i].event = "tool_result" => i > 1 /\ events[i - 1].event = "tool_call"
          /\ events[i].event = "episode_end" => i = Len(events)

\* A trace and what is counted of it.
Counted(events, asked, acted) ==
    /\ Story(events)
    /\ asked = Count(events, {"model_request"})
    /\ acted = Count(events, {"tool_call", "agent_final"})

\* The counts are within the limits that are set.
Within(asked, acted) ==
    /\ limits[1] > 0 => asked <= limits[1]
    /\ limits[2] > 0 => acted <= limits[2]

\* Which event a control in a phase has just pushed.
Standing(where, name) ==
    /\ where \in {"round", "request", "actions"} =>
          name \in {"episode_start", "model_request", "model_response", "tool_result"}
    /\ where \in ToolName \cup {"cleanup", "result"} => name = "tool_call"
    /\ where = "done" => name = "episode_end"

\* The result of an episode, against a trace that has come to its end.
Concluded(events, asked, acted, res) ==
    /\ res.done /\ res.rounds = asked /\ res.turns = acted
    /\ res.ok <=> events[Len(events) - 1].event \in {"agent_final", "auto_final"}
    /\ events[Len(events) - 1].event = "auto_final" => events[Len(events) - 2].ok

\* EpisodeAccounts is no invariant of the steps by itself: whether the next event
\* may be pushed depends on the phase, and only in some is the model's view whole.
EpisodeInv ==
    /\ Counted(trace, rounds, turns)
    /\ Standing(phase, Last(trace).event)
    /\ Within(rounds, turns)
    /\ IF phase = "done" THEN Concluded(trace, rounds, turns, result) ELSE ~result.done
    /\ messages \in Seq(EventType)
    /\ control = "react" /\ phase # "done" => Shows(trace, messages)
    /\ control = "scripted" => phase \notin {"round", "request", "cleanup"}

\* What the memory keeps between the calls of a program: finitely many items, each
\* within its limit, which is what makes their bytes a number that can be counted,
\* and no two of one revision, which is what makes their ranking total.
HeldItem == {i \in Item : i.size <= MaxItemBytes}
Distinct(set) == \A i, j \in set : i # j => i.revision # j.revision
ContextInv ==
    /\ revision \in Nat /\ nextId \in Nat
    /\ items \subseteq HeldItem /\ IsFiniteSet(items) /\ Distinct(items)
    /\ written \in [Key -> Nat]
    /\ MemoryIsKept

-----------------------------------------------------------------------------
(***************************************************************************)
(* Traces.                                                                 *)
(***************************************************************************)
\* An event alone.
LEMMA SingleAccounted ==
    ASSUME NEW e \in EventType, NEW c, NEW states, Accounted(e, c, states)
    PROVE  AllAccounted(<<e>>, c, states)
<1>1. <<e>> \in Seq(EventType) /\ DOMAIN <<e>> = {1} /\ <<e>>[1] = e
  OBVIOUS
<1>. QED  BY <1>1 DEF AllAccounted

\* Events that name no run are accounted for.
LEMMA PlainAccounted ==
    ASSUME NEW name \in EventName, NEW c, NEW states
    PROVE  AllAccounted(<<>>, c, states) /\ AllAccounted(<<Plain(name)>>, c, states)
<1>1. "none" \in Cleanup /\ NoRun \in Run \cup {NoRun} /\ TRUE \in BOOLEAN
  BY DEF Cleanup
<1>2. Plain(name) \in EventType /\ Plain(name).run = NoRun
  BY DEF Plain, Event, EventType, EventName, Cleanup
<1>3. Accounted(Plain(name), c, states)
  BY <1>2 DEF Accounted
<1>4. AllAccounted(<<>>, c, states)
  BY DEF AllAccounted
<1>. QED  BY <1>2, <1>3, <1>4, SingleAccounted

\* So is the end of an episode.
LEMMA EndAccounted ==
    ASSUME NEW ok \in BOOLEAN, NEW c, NEW states
    PROVE  AllAccounted(<<EpisodeEnd(ok)>>, c, states)
<1>1. "none" \in Cleanup /\ NoRun \in Run \cup {NoRun} /\ "episode_end" \in EventName
  BY DEF Cleanup, EventName
<1>2. EpisodeEnd(ok) \in EventType /\ EpisodeEnd(ok).run = NoRun
  BY DEF EpisodeEnd, Event, EventType, EventName, Cleanup
<1>3. Accounted(EpisodeEnd(ok), c, states)
  BY <1>2, Zenon DEF Accounted
<1>. QED  BY <1>2, <1>3, SingleAccounted, Zenon

\* The event of a result is accounted for if what it says of its run is true.
LEMMA ResultAccounted ==
    ASSUME NEW ok \in BOOLEAN, NEW run \in Run \cup {NoRun}, NEW cleanup \in Cleanup,
           NEW c, NEW states,
           c = "react" /\ run # NoRun =>
               cleanup # "none" /\ (cleanup = "stopped" => states[run] = "over")
    PROVE  AllAccounted(<<Event("tool_result", ok, run, cleanup)>>, c, states)
<1> DEFINE e == Event("tool_result", ok, run, cleanup)
<1>1. e \in EventType /\ e.run = run /\ e.cleanup = cleanup
  <2>1. "tool_result" \in EventName
    BY DEF EventName
  <2>. QED  BY <2>1 DEF Event, EventType
<1> HIDE DEF e
<1>2. Accounted(e, c, states)
  BY <1>1 DEF Accounted, Cleanup
<1>3. AllAccounted(<<e>>, c, states)
  BY <1>1, <1>2, SingleAccounted
<1>. QED  BY <1>3, Zenon DEF e

\* Two sequences of one element make one of two.
LEMMA Pair ==
    ASSUME NEW S, NEW x \in S, NEW y \in S
    PROVE  <<x>> \o <<y>> = <<x, y>>
<1>1. <<x>> \o <<y>> \in Seq(S) /\ <<x, y>> \in Seq(S)
  OBVIOUS
<1>2. Len(<<x>> \o <<y>>) = 2 /\ Len(<<x, y>>) = 2
  OBVIOUS
<1>3. \A i \in 1..2 : (<<x>> \o <<y>>)[i] = <<x, y>>[i]
  OBVIOUS
<1>. QED  BY <1>1, <1>2, <1>3, SeqEqual

\* Two parts of a trace make a trace.
LEMMA JoinedAccounted ==
    ASSUME NEW first, NEW second, NEW c, NEW states,
           AllAccounted(first, c, states), AllAccounted(second, c, states)
    PROVE  AllAccounted(first \o second, c, states)
BY DEF AllAccounted

\* A run that is over stays over, and what was said of it stays true.
LEMMA KeptAccounted ==
    ASSUME NEW events, NEW c, NEW states, NEW states2,
           AllAccounted(events, c, states),
           \A r \in Run : states[r] = "over" => states2[r] = "over"
    PROVE  AllAccounted(events, c, states2)
<1> SUFFICES ASSUME NEW i \in DOMAIN events
             PROVE  Accounted(events[i], c, states2)
  BY DEF AllAccounted
<1>1. events[i] \in EventType /\ Accounted(events[i], c, states)
  BY DEF AllAccounted
<1>2. events[i].run \in Run \cup {NoRun}
  BY <1>1 DEF EventType
<1>. QED  BY <1>1, <1>2 DEF Accounted

-----------------------------------------------------------------------------
(***************************************************************************)
(* The steps.                                                              *)
(***************************************************************************)
\* A step adds events that are accounted for, and ends no run's being over.
LEMMA StepAccounted ==
    ASSUME AgentInv, NEW events, AllAccounted(events, control, runs'),
           control' = control, \A r \in Run : runs[r] = "over" => runs'[r] = "over",
           \/ trace' = trace
           \/ trace' = trace \o events
           \/ \E ok \in BOOLEAN : trace' = trace \o events \o <<EpisodeEnd(ok)>>
    PROVE  AllAccounted(trace, control, runs)'
<1>1. AllAccounted(trace, control, runs')
  BY KeptAccounted DEF AgentInv
<1>2. AllAccounted(trace \o events, control, runs')
  BY <1>1, JoinedAccounted
<1>3. \A ok \in BOOLEAN : AllAccounted(trace \o events \o <<EpisodeEnd(ok)>>, control, runs')
  <2> TAKE ok \in BOOLEAN
  <2>1. AllAccounted(<<EpisodeEnd(ok)>>, control, runs')
    BY EndAccounted, Zenon
  <2>. QED  BY <1>2, <2>1, JoinedAccounted
<1>4. AllAccounted(trace', control, runs')
  BY <1>1, <1>2, <1>3
<1>5. AllAccounted(trace', control', runs')
  BY <1>4
<1>. QED  BY <1>5 DEF AllAccounted, Accounted

\* The states an episode goes through without a run ending or being told of.
LEMMA PlainStep ==
    ASSUME AgentInv, control' = control, runs' = runs,
           \/ trace' = trace
           \/ \E name \in EventName :
                 \/ trace' = trace \o <<Plain(name)>>
                 \/ \E ok \in BOOLEAN : trace' = trace \o <<Plain(name)>> \o <<EpisodeEnd(ok)>>
           \/ \E ok \in BOOLEAN : trace' = trace \o <<>> \o <<EpisodeEnd(ok)>>
           \/ trace' = trace \o <<>>
    PROVE  AllAccounted(trace, control, runs)'
<1>1. \A name \in EventName : AllAccounted(<<Plain(name)>>, control, runs')
  BY PlainAccounted
<1>2. AllAccounted(<<>>, control, runs')
  BY PlainAccounted DEF EventName
<1>. QED  BY <1>1, <1>2, StepAccounted

\* An episode starts in the invariant.
LEMMA InitInv == AgentInit => AgentInv
<1> SUFFICES ASSUME AgentInit PROVE AgentInv
  OBVIOUS
<1>1. AgentTypeOK /\ PendingInv
  BY DEF AgentInit, AgentTypeOK, PendingInv, Phase, NoPending, ToolName
<1>2. batch \in Seq(Action)
  <2>1. \A b \in Batches : b \in Seq(Action)
    BY AgentAssumption DEF Batches
  <2>2. <<>> \in Seq(Action)
    OBVIOUS
  <2>3. batch = <<>> \/ batch \in Batches
    BY DEF AgentInit
  <2>. QED  BY <2>1, <2>2, <2>3
<1>3. AllAccounted(trace, control, runs)
  BY PlainAccounted DEF AgentInit, EventName
<1>. QED  BY <1>1, <1>2, <1>3 DEF AgentInv

\* The start of a round keeps the invariant.
LEMMA RoundInv == AgentInv /\ (NoGateway \/ StartRound) => AgentInv'
<1> SUFFICES ASSUME AgentInv, NoGateway \/ StartRound PROVE AgentInv'
  OBVIOUS
<1> USE DEF NoGateway, StartRound, FinishWithError, Continue
<1>1. AgentTypeOK'
  BY DEF AgentInv, AgentTypeOK, Phase
<1>2. (batch \in Seq(Action) /\ PendingInv)'
  BY DEF AgentInv, PendingInv
<1>3. AllAccounted(trace, control, runs)'
  <2>1. "model_request" \in EventName
    BY DEF EventName
  <2>. QED  BY <2>1, PlainStep
<1>. QED  BY <1>1, <1>2, <1>3 DEF AgentInv

\* So does the answer of the model.
LEMMA AnswerInv == AgentInv /\ ModelAnswers => AgentInv'
<1> SUFFICES ASSUME AgentInv, ModelAnswers PROVE AgentInv'
  OBVIOUS
<1> USE DEF ModelAnswers, FinishWithError, Continue
<1>1. AgentTypeOK'
  BY DEF AgentInv, AgentTypeOK, Phase
<1>2. (batch \in Seq(Action))'
  <2>1. \A b \in Batches : b \in Seq(Action)
    BY AgentAssumption DEF Batches
  <2>. QED  BY <2>1 DEF AgentInv
<1>3. PendingInv'
  BY DEF AgentInv, PendingInv
<1>4. AllAccounted(trace, control, runs)'
  <2>1. "model_response" \in EventName
    BY DEF EventName
  <2>. QED  BY <2>1, PlainStep
<1>. QED  BY <1>1, <1>2, <1>3, <1>4 DEF AgentInv

\* So does the choice of the next action: only a tool is started for a tool call.
LEMMA ActionInv == AgentInv /\ (NextAction \/ NoAction) => AgentInv'
<1> SUFFICES ASSUME AgentInv, NextAction \/ NoAction PROVE AgentInv'
  OBVIOUS
<1> USE DEF NextAction, NoAction, FinishWithError, FinishWith, Continue
<1>1. batch # <<>> => Head(batch) \in Action /\ Tail(batch) \in Seq(Action)
  BY DEF AgentInv
<1>2. AgentTypeOK'
  <2>1. phase' \in Phase /\ turns' \in Nat
    BY <1>1 DEF AgentInv, AgentTypeOK, Phase, Action
  <2>2. sawTool' = sawTool \/ sawTool' = TRUE
    OBVIOUS
  <2>3. sawTool' \in BOOLEAN
    BY <2>2 DEF AgentInv, AgentTypeOK
  <2>. QED  BY <2>1, <2>3 DEF AgentInv, AgentTypeOK
<1>3. (batch \in Seq(Action))'
  BY <1>1 DEF AgentInv
<1>4. PendingInv'
  BY <1>1 DEF AgentInv, PendingInv, Action, ToolName
<1>5. AllAccounted(trace, control, runs)'
  <2>1. "agent_final" \in EventName /\ "tool_call" \in EventName
    BY DEF EventName
  <2>. QED  BY <2>1, PlainStep
<1>. QED  BY <1>2, <1>3, <1>4, <1>5 DEF AgentInv

\* So does a tool, whatever it answers and whatever it does to the runs.
LEMMA ToolInv == AgentInv /\ (FileTool \/ StoneStep \/ StoneTool \/ LinuxTool) => AgentInv'
<1> SUFFICES ASSUME AgentInv, FileTool \/ StoneStep \/ StoneTool \/ LinuxTool PROVE AgentInv'
  OBVIOUS
<1>1. CASE StoneStep
  BY <1>1 DEF StoneStep, agentVars, episode, AgentInv, AgentTypeOK, PendingInv, AllAccounted, Accounted
<1>2. CASE FileTool \/ StoneTool \/ LinuxTool
  <2> USE DEF FileTool, StoneTool, LinuxTool
  <2>1. PICK ok \in BOOLEAN, run \in Run \cup {NoRun} : Answered(ok, run)
    BY <1>2
  <2>2. runs' \in [Run -> {"none", "running", "over"}]
    BY <1>2 DEF AgentInv, AgentTypeOK
  <2>3. \A r \in Run : runs[r] = "over" => runs'[r] = "over"
    BY <1>2 DEF AgentInv, AgentTypeOK
  <2>4. complete' \in {"unset", "absent", "present"}
    BY <1>2 DEF Touched
  <2>5. AgentTypeOK'
    BY <2>1, <2>2, <2>4 DEF Answered, AgentInv, AgentTypeOK, Phase
  <2>6. (batch \in Seq(Action) /\ PendingInv)'
    BY <2>1 DEF Answered, AgentInv, PendingInv
  <2>7. AllAccounted(<<>>, control, runs')
    BY PlainAccounted DEF EventName
  <2>8. AllAccounted(trace, control, runs)'
    BY <2>1, <2>3, <2>7, StepAccounted DEF Answered
  <2>. QED  BY <2>5, <2>6, <2>8 DEF AgentInv
<1>. QED  BY <1>1, <1>2

\* So does a run that ends by itself.
LEMMA RunEndsInv == AgentInv /\ (\E r \in Run : RunEnds(r)) => AgentInv'
<1> SUFFICES ASSUME AgentInv, NEW r \in Run, RunEnds(r) PROVE AgentInv'
  OBVIOUS
<1>1. runs' \in [Run -> {"none", "running", "over"}]
      /\ \A q \in Run : runs[q] = "over" => runs'[q] = "over"
  BY DEF RunEnds, AgentInv, AgentTypeOK
<1>2. (AgentTypeOK /\ batch \in Seq(Action) /\ PendingInv)'
  BY <1>1 DEF RunEnds, Touched, episode, AgentInv, AgentTypeOK, PendingInv
<1>3. AllAccounted(<<>>, control, runs')
  BY PlainAccounted DEF EventName
<1>4. AllAccounted(trace, control, runs)'
  BY <1>1, <1>3, StepAccounted DEF RunEnds, episode
<1>. QED  BY <1>2, <1>4 DEF AgentInv

\* A result is recorded as it is: what it says of its run is true by then.
LEMMA RecordedInv ==
    ASSUME AgentInv, NEW cleanup \in Cleanup, Recorded(cleanup),
           runs' \in [Run -> {"none", "running", "over"}],
           \A r \in Run : runs[r] = "over" => runs'[r] = "over",
           control = "react" /\ pending.run # NoRun =>
               cleanup # "none" /\ (cleanup = "stopped" => runs'[pending.run] = "over")
    PROVE  AgentInv'
<1>. DEFINE event == Event("tool_result", pending.ok, pending.run, cleanup)
<1>1. pending.ok \in BOOLEAN /\ pending.run \in Run \cup {NoRun}
  BY DEF AgentInv, AgentTypeOK
<1>2. AllAccounted(<<event>>, control, runs')
  BY <1>1, ResultAccounted
<1>3. AllAccounted(<<Plain("auto_final")>>, control, runs')
  BY PlainAccounted DEF EventName
<1>4. <<event>> \o <<Plain("auto_final")>> = <<event, Plain("auto_final")>>
  <2> HIDE DEF event
  <2>1. event \in EventType /\ Plain("auto_final") \in EventType
    BY <1>2, <1>3 DEF AllAccounted
  <2>. QED  BY <2>1, Pair
<1>5. AllAccounted(<<event, Plain("auto_final")>>, control, runs')
  BY <1>2, <1>3, <1>4, JoinedAccounted
<1>6. (AgentTypeOK /\ batch \in Seq(Action) /\ PendingInv)'
  BY DEF Recorded, FinishWith, FinishWithError, Continue, AgentInv, AgentTypeOK, PendingInv,
         NoPending, Phase
<1>7. \/ trace' = trace \o <<event>>
      \/ trace' = trace \o <<event>> \o <<EpisodeEnd(FALSE)>>
      \/ trace' = trace \o <<event, Plain("auto_final")>> \o <<EpisodeEnd(TRUE)>>
  BY DEF Recorded, FinishWith, FinishWithError, Continue
<1> HIDE DEF event
<1>8. AllAccounted(trace, control, runs)'
  BY <1>2, <1>5, <1>7, StepAccounted DEF Recorded
<1>. QED  BY <1>6, <1>8 DEF AgentInv

\* So does the recording of a result, with the cleanup or without.
LEMMA ResultInv == AgentInv /\ (TerminateActiveRun \/ ToolResult) => AgentInv'
<1>1. AgentInv /\ ToolResult => AgentInv'
  BY RecordedInv DEF ToolResult, AgentInv, AgentTypeOK, PendingInv, Cleanup
<1>2. AgentInv /\ TerminateActiveRun => AgentInv'
  BY RecordedInv DEF TerminateActiveRun, AgentInv, AgentTypeOK, PendingInv, Cleanup
<1>. QED  BY <1>1, <1>2

\* The invariant holds throughout.
LEMMA AgentInvariance == Spec => []AgentInv
<1>1. AgentInv /\ UNCHANGED vars => AgentInv'
  BY DEF vars, agentVars, episode, AgentInv, AgentTypeOK, PendingInv, AllAccounted, Accounted
<1>2. AgentInv /\ [Next]_vars => AgentInv'
  BY <1>1, RoundInv, AnswerInv, ActionInv, ToolInv, RunEndsInv, ResultInv DEF Next
<1>. QED  BY <1>2, InitInv, PTL DEF Spec

-----------------------------------------------------------------------------
(***************************************************************************)
(* What a trace says when an event is pushed.                              *)
(***************************************************************************)
\* The events the model makes are events.
LEMMA EventTypes ==
    /\ \A name \in EventName : Plain(name) \in EventType /\ Plain(name).event = name
    /\ \A ok \in BOOLEAN : /\ EpisodeEnd(ok) \in EventType
                           /\ EpisodeEnd(ok).event = "episode_end"
    /\ \A ok \in BOOLEAN, run \in Run \cup {NoRun}, cleanup \in Cleanup :
          LET e == Event("tool_result", ok, run, cleanup) IN
          e \in EventType /\ e.event = "tool_result" /\ e.ok = ok
<1>1. "none" \in Cleanup /\ "episode_end" \in EventName /\ "tool_result" \in EventName
  BY DEF Cleanup, EventName
<1>2. \A name \in EventName, ok \in BOOLEAN, run \in Run \cup {NoRun}, cleanup \in Cleanup :
         LET e == Event(name, ok, run, cleanup) IN
         e \in EventType /\ e.event = name /\ e.ok = ok
  BY DEF Event, EventType
<1>3. NoRun \in Run \cup {NoRun} /\ TRUE \in BOOLEAN
  OBVIOUS
<1>4. \A name \in EventName : Plain(name) \in EventType /\ Plain(name).event = name
  BY <1>1, <1>2, <1>3, Zenon DEF Plain
<1>5. \A ok \in BOOLEAN : EpisodeEnd(ok) \in EventType /\ EpisodeEnd(ok).event = "episode_end"
  BY <1>1, <1>2, <1>3, ZenonT(40) DEF EpisodeEnd
<1>6. \A ok \in BOOLEAN, run \in Run \cup {NoRun}, cleanup \in Cleanup :
          LET e == Event("tool_result", ok, run, cleanup) IN
          e \in EventType /\ e.event = "tool_result" /\ e.ok = ok
  BY <1>1, <1>2, Zenon
<1>. QED  BY <1>4, <1>5, <1>6, Zenon

\* The places of a trace are finitely many, and a pushed event may add the last.
LEMMA PlacesPushed ==
    ASSUME NEW t \in Seq(EventType), NEW e \in EventType, NEW names
    PROVE  /\ Places(t, names) \subseteq 1..Len(t)
           /\ IsFiniteSet(Places(t, names))
           /\ Len(t) \in Nat /\ Append(t, e) \in Seq(EventType)
           /\ Places(Append(t, e), names) =
                 Places(t, names) \cup {i \in {Len(t) + 1} : e.event \in names}
<1> DEFINE u == Append(t, e)
<1>1. Len(t) \in Nat /\ DOMAIN t = 1..Len(t)
  OBVIOUS
<1>2. u \in Seq(EventType) /\ DOMAIN u = 1..(Len(t) + 1) /\ u[Len(t) + 1] = e
      /\ \A i \in 1..Len(t) : u[i] = t[i]
  BY AppendProperties
<1> HIDE DEF u
<1>3. Places(t, names) \subseteq 1..Len(t)
  BY <1>1 DEF Places
<1>4. IsFiniteSet(Places(t, names))
  <2>1. IsFiniteSet(1..Len(t))
    BY <1>1, FS_Interval
  <2>. QED  BY <1>3, <2>1, FS_Subset, Zenon
<1>5. Places(u, names) = Places(t, names) \cup {i \in {Len(t) + 1} : e.event \in names}
  <2>1. ASSUME NEW i
        PROVE  i \in Places(u, names) <=>
                  i \in Places(t, names) \/ (i = Len(t) + 1 /\ e.event \in names)
    <3>1. i \in 1..(Len(t) + 1) <=> i \in 1..Len(t) \/ i = Len(t) + 1
      BY <1>1
    <3>2. Len(t) + 1 \notin 1..Len(t)
      BY <1>1
    <3>3. i \in Places(u, names) <=> i \in 1..(Len(t) + 1) /\ u[i].event \in names
      BY <1>2 DEF Places
    <3>4. i \in Places(t, names) <=> i \in 1..Len(t) /\ t[i].event \in names
      BY <1>1 DEF Places
    <3>. QED  BY <1>2, <3>1, <3>2, <3>3, <3>4
  <2>. QED  BY <2>1
<1>. QED  BY <1>1, <1>2, <1>3, <1>4, <1>5 DEF u

\* A count goes up by one with an event of its names.
LEMMA CountPushed ==
    ASSUME NEW t \in Seq(EventType), NEW e \in EventType, NEW names
    PROVE  /\ Count(t, names) \in Nat
           /\ e.event \in names => Count(Append(t, e), names) = Count(t, names) + 1
           /\ e.event \notin names => Count(Append(t, e), names) = Count(t, names)
<1>1. Count(t, names) \in Nat
  BY PlacesPushed, FS_CardinalityType DEF Count
<1>2. CASE e.event \in names
  <2>1. Places(Append(t, e), names) = Places(t, names) \cup {Len(t) + 1}
    <3>1. {i \in {Len(t) + 1} : e.event \in names} = {Len(t) + 1}
      BY <1>2
    <3>. QED  BY <3>1, PlacesPushed
  <2>2. Len(t) + 1 \notin Places(t, names)
    <3>1. Places(t, names) \subseteq 1..Len(t) /\ Len(t) \in Nat
      BY PlacesPushed
    <3>. QED  BY <3>1
  <2>. QED  BY <1>1, <1>2, <2>1, <2>2, PlacesPushed, FS_AddElement DEF Count
<1>3. CASE e.event \notin names
  <2>1. Places(Append(t, e), names) = Places(t, names)
    <3>1. {i \in {Len(t) + 1} : e.event \in names} = {}
      BY <1>3
    <3>2. Places(Append(t, e), names) =
             Places(t, names) \cup {i \in {Len(t) + 1} : e.event \in names}
      BY PlacesPushed, ZenonT(40)
    <3>. QED  BY <3>1, <3>2
  <2>. QED  BY <1>1, <1>3, <2>1 DEF Count
<1>. QED  BY <1>1, <1>2, <1>3

\* What was shown of a trace is still shown, and a pushed answer or result is shown
\* when it is appended to the messages as well.
LEMMA ShowsPushed ==
    ASSUME NEW t \in Seq(EventType), NEW e \in EventType, NEW shown \in Seq(EventType),
           Shows(t, shown)
    PROVE  /\ e.event \in {"model_response", "tool_result"} =>
                  Shows(Append(t, e), Append(shown, e))
           /\ e.event \notin {"model_response", "tool_result"} => Shows(Append(t, e), shown)
<1> DEFINE names == {"model_response", "tool_result"}
           P == Places(t, names)
           Q == Places(Append(t, e), names)
           Upto(S, i) == Cardinality({j \in S : j <= i})
<1>1. Len(t) \in Nat /\ IsFiniteSet(P) /\ P \subseteq 1..Len(t)
      /\ Q = P \cup {i \in {Len(t) + 1} : e.event \in names}
  BY PlacesPushed
<1>2. Len(shown) = Cardinality(P) /\ \A i \in P : shown[Upto(P, i)] = t[i]
  BY DEF Shows
<1>3. /\ \A i \in 1..Len(t) : Append(t, e)[i] = t[i]
      /\ Append(t, e)[Len(t) + 1] = e
  BY AppendProperties
<1> HIDE DEF P, Q, names
<1>4. \A i \in P : Upto(Q, i) = Upto(P, i) /\ Upto(P, i) \in 1..Len(shown)
  <2> SUFFICES ASSUME NEW i \in P
               PROVE  Upto(Q, i) = Upto(P, i) /\ Upto(P, i) \in 1..Len(shown)
    OBVIOUS
  <2>1. i \in 1..Len(t) /\ ~(Len(t) + 1 <= i)
    BY <1>1
  <2>2. {j \in Q : j <= i} = {j \in P : j <= i}
    BY <1>1, <2>1
  <2>3. {j \in P : j <= i} \subseteq P /\ i \in {j \in P : j <= i}
    BY <2>1
  <2>4. IsFiniteSet({j \in P : j <= i}) /\ Upto(P, i) <= Cardinality(P)
    BY <1>1, <2>3, FS_Subset
  <2>5. Upto(P, i) \in Nat /\ Upto(P, i) # 0
    BY <2>3, <2>4, FS_CardinalityType, FS_EmptySet
  <2>6. Upto(Q, i) = Upto(P, i)
    BY <2>2
  <2>7. Upto(P, i) \in 1..Len(shown)
    <3>1. Len(shown) = Cardinality(P) /\ Len(shown) \in Nat
      BY <1>2
    <3> HIDE DEF Upto
    <3>. QED  BY <2>4, <2>5, <3>1
  <2>. QED  BY <2>6, <2>7
<1>5. CASE e.event \in names
  <2>1. Q = P \cup {Len(t) + 1} /\ Len(t) + 1 \notin P
    BY <1>1, <1>5
  <2>2. Cardinality(Q) = Len(shown) + 1 /\ Len(shown) \in Nat
    <3>1. Cardinality(P \cup {Len(t) + 1}) = Cardinality(P) + 1
      BY <1>1, <2>1, FS_AddElement
    <3>2. Cardinality(P) \in Nat
      BY <1>1, FS_CardinalityType
    <3>. QED  BY <1>2, <2>1, <3>1, <3>2
  <2>3. /\ Len(Append(shown, e)) = Len(shown) + 1
        /\ \A k \in 1..Len(shown) : Append(shown, e)[k] = shown[k]
        /\ Append(shown, e)[Len(shown) + 1] = e
    BY AppendProperties
  <2>4. {j \in Q : j <= Len(t) + 1} = Q
    <3>1. \A j \in Q : j <= Len(t) + 1
      BY <1>1, <2>1
    <3>. QED  BY <3>1
  <2>5. \A i \in Q : Append(shown, e)[Upto(Q, i)] = Append(t, e)[i]
    <3> TAKE i \in Q
    <3>1. CASE i = Len(t) + 1
      BY <1>3, <2>2, <2>3, <2>4, <3>1
    <3>2. CASE i \in P
      BY <1>1, <1>2, <1>3, <1>4, <2>3, <3>2
    <3>. QED  BY <2>1, <3>1, <3>2
  <2>6. Shows(Append(t, e), Append(shown, e))
    BY <2>2, <2>3, <2>5 DEF Shows, Q, names
  <2>. QED  BY <1>5, <2>6 DEF names
<1>6. CASE e.event \notin names
  <2>1. Q = P
    BY <1>1, <1>6
  <2>2. \A i \in Q : shown[Upto(Q, i)] = Append(t, e)[i]
    BY <1>1, <1>2, <1>3, <1>4, <2>1
  <2>3. Shows(Append(t, e), shown)
    BY <1>2, <2>1, <2>2 DEF Shows, Q, names
  <2>. QED  BY <1>6, <2>3 DEF names
<1>. QED  BY <1>5, <1>6

\* The story goes on with a result after a call, and with no result elsewhere.
LEMMA StoryPushed ==
    ASSUME NEW t, Story(t), NEW e \in EventType,
           Last(t).event # "episode_end",
           e.event = "tool_result" <=> Last(t).event = "tool_call"
    PROVE  /\ Story(Append(t, e)) /\ Last(Append(t, e)) = e
           /\ Len(Append(t, e)) = Len(t) + 1 /\ Append(t, e)[Len(t)] = Last(t)
           /\ \A i \in DOMAIN t : Append(t, e)[i] = t[i]
<1> DEFINE u == Append(t, e)
<1>1. t \in Seq(EventType) /\ Len(t) \in Nat /\ Len(t) > 0 /\ DOMAIN t = 1..Len(t)
  BY EmptySeq DEF Story
<1>2. u \in Seq(EventType) /\ u # <<>> /\ Len(u) = Len(t) + 1 /\ DOMAIN u = 1..(Len(t) + 1)
      /\ u[Len(t) + 1] = e /\ \A i \in 1..Len(t) : u[i] = t[i]
  BY <1>1, AppendProperties
<1>3. Last(t) = t[Len(t)] /\ Last(u) = u[Len(u)]
  BY DEF Last
<1> HIDE DEF u
<1>4. \A i \in DOMAIN u : u[i].event = "tool_call" /\ i < Len(u) => u[i + 1].event = "tool_result"
  <2> SUFFICES ASSUME NEW i \in DOMAIN u, u[i].event = "tool_call", i < Len(u)
               PROVE  u[i + 1].event = "tool_result"
    OBVIOUS
  <2>1. i \in 1..Len(t) /\ i + 1 \in 1..(Len(t) + 1)
    BY <1>1, <1>2
  <2>2. CASE i = Len(t)
    BY <1>1, <1>2, <1>3, <2>2
  <2>3. CASE i # Len(t)
    <3>1. i < Len(t) /\ i + 1 \in 1..Len(t)
      BY <1>1, <2>1, <2>3
    <3>. QED  BY <1>1, <1>2, <2>1, <3>1 DEF Story
  <2>. QED  BY <2>2, <2>3
<1>5. \A i \in DOMAIN u : u[i].event = "tool_result" => i > 1 /\ u[i - 1].event = "tool_call"
  <2> SUFFICES ASSUME NEW i \in DOMAIN u, u[i].event = "tool_result"
               PROVE  i > 1 /\ u[i - 1].event = "tool_call"
    OBVIOUS
  <2>1. CASE i = Len(t) + 1
    BY <1>1, <1>2, <1>3, <2>1
  <2>2. CASE i # Len(t) + 1
    <3>1. i \in 1..Len(t) /\ u[i] = t[i]
      BY <1>1, <1>2, <2>2
    <3>2. i > 1 /\ t[i - 1].event = "tool_call"
      BY <1>1, <3>1 DEF Story
    <3>3. i - 1 \in 1..Len(t)
      BY <1>1, <3>1, <3>2
    <3>. QED  BY <1>2, <3>2, <3>3
  <2>. QED  BY <2>1, <2>2
<1>6. \A i \in DOMAIN u : u[i].event = "episode_end" => i = Len(u)
  <2> SUFFICES ASSUME NEW i \in DOMAIN u, u[i].event = "episode_end", i # Len(u)
               PROVE  FALSE
    OBVIOUS
  <2>1. i \in 1..Len(t) /\ u[i] = t[i]
    BY <1>1, <1>2
  <2>2. i = Len(t)
    BY <1>1, <2>1 DEF Story
  <2>. QED  BY <1>3, <2>1, <2>2
<1>7. Story(u)
  BY <1>2, <1>4, <1>5, <1>6 DEF Story
<1>8. Last(u) = e /\ u[Len(t)] = Last(t) /\ \A i \in DOMAIN t : u[i] = t[i]
  BY <1>1, <1>2, <1>3
<1>. QED  BY <1>2, <1>7, <1>8, Zenon DEF u

\* So do the counts.
LEMMA CountedPushed ==
    ASSUME NEW t, NEW asked, NEW acted, Counted(t, asked, acted), NEW e \in EventType,
           Last(t).event # "episode_end",
           e.event = "tool_result" <=> Last(t).event = "tool_call"
    PROVE  /\ e.event = "model_request" => Counted(Append(t, e), asked + 1, acted)
           /\ e.event \in {"tool_call", "agent_final"} => Counted(Append(t, e), asked, acted + 1)
           /\ e.event \notin {"model_request", "tool_call", "agent_final"} =>
                 Counted(Append(t, e), asked, acted)
           /\ Last(Append(t, e)) = e /\ Append(t, e) \in Seq(EventType)
           /\ Append(t, e)[Len(Append(t, e)) - 1] = Last(t)
<1>1. Story(t) /\ t \in Seq(EventType)
  BY DEF Counted, Story
<1>2. Story(Append(t, e)) /\ Last(Append(t, e)) = e
      /\ Len(Append(t, e)) = Len(t) + 1 /\ Append(t, e)[Len(t)] = Last(t)
  BY <1>1, StoryPushed
<1>3. /\ e.event = "model_request" => Count(Append(t, e), {"model_request"}) = asked + 1
      /\ e.event # "model_request" => Count(Append(t, e), {"model_request"}) = asked
  BY <1>1, CountPushed DEF Counted
<1>4. /\ e.event \in {"tool_call", "agent_final"} =>
            Count(Append(t, e), {"tool_call", "agent_final"}) = acted + 1
      /\ e.event \notin {"tool_call", "agent_final"} =>
            Count(Append(t, e), {"tool_call", "agent_final"}) = acted
  BY <1>1, CountPushed DEF Counted
<1>5. Append(t, e)[Len(Append(t, e)) - 1] = Last(t)
  <2>1. Len(t) \in Nat
    BY <1>1
  <2>2. Len(Append(t, e)) - 1 = Len(t)
    BY <1>2, <2>1
  <2>. QED  BY <1>2, <2>2, Zenon
<1>6. Append(t, e) \in Seq(EventType)
  BY <1>1
<1>. QED  BY <1>2, <1>3, <1>4, <1>5, <1>6 DEF Counted

\* What the model writes as a concatenation, one event after the other.
LEMMA Pushes ==
    ASSUME NEW t \in Seq(EventType), NEW e \in EventType, NEW f \in EventType,
           NEW g \in EventType
    PROVE  /\ t \o <<>> = t /\ t \o <<e>> = Append(t, e)
           /\ t \o <<>> \o <<e>> = Append(t, e)
           /\ t \o <<e>> \o <<f>> = Append(Append(t, e), f)
           /\ t \o <<e, f>> \o <<g>> = Append(Append(Append(t, e), f), g)
<1>1. /\ t \o <<>> = t /\ t \o <<e>> = Append(t, e)
      /\ Append(t, e) \in Seq(EventType) /\ Append(Append(t, e), f) \in Seq(EventType)
  OBVIOUS
<1>2. \A s \in Seq(EventType), x \in EventType : s \o <<x>> = Append(s, x)
  OBVIOUS
<1>3. t \o <<e, f>> = Append(Append(t, e), f)
  <2>1. <<e, f>> = <<e>> \o <<f>>
    BY Pair
  <2>2. <<e>> \in Seq(EventType) /\ <<f>> \in Seq(EventType)
    OBVIOUS
  <2>3. t \o (<<e>> \o <<f>>) = (t \o <<e>>) \o <<f>>
    BY <2>2, ConcatAssociative
  <2>. QED  BY <1>1, <1>2, <2>1, <2>3
<1>. QED  BY <1>1, <1>2, <1>3, Zenon

-----------------------------------------------------------------------------
(***************************************************************************)
(* The steps, as an account of the episode.                                *)
(***************************************************************************)
\* An episode may end where no call waits for its result; ok is what is said of it.
LEMMA EndEpisode ==
    ASSUME NEW t, NEW ok \in BOOLEAN, Counted(t, rounds', turns'),
           Last(t).event \notin {"tool_call", "episode_end"},
           ok <=> Last(t).event \in {"agent_final", "auto_final"},
           Last(t).event = "auto_final" => Len(t) > 1 /\ t[Len(t) - 1].ok,
           trace' = Append(t, EpisodeEnd(ok)),
           result' = [done |-> TRUE, ok |-> ok, rounds |-> rounds', turns |-> turns'],
           phase' = "done", limits' = limits, Within(rounds', turns'),
           messages' \in Seq(EventType)
    PROVE  EpisodeInv'
<1> DEFINE e == EpisodeEnd(ok)
           u == Append(t, e)
<1>1. e \in EventType /\ e.event = "episode_end"
  BY EventTypes, Zenon
<1> HIDE DEF e
<1>2. Counted(u, rounds', turns') /\ Last(u) = e /\ u[Len(u) - 1] = Last(t)
  BY <1>1, CountedPushed
<1>3. Last(t).event = "auto_final" => u[Len(u) - 2].ok
  <2> SUFFICES ASSUME Last(t).event = "auto_final" PROVE u[Len(u) - 2].ok
    OBVIOUS
  <2>1. t \in Seq(EventType) /\ Len(t) \in Nat /\ Len(t) > 1
    BY DEF Counted, Story
  <2>2. u[Len(t) - 1] = t[Len(t) - 1] /\ Len(u) - 2 = Len(t) - 1
    BY <1>1, <2>1, AppendProperties
  <2>. QED  BY <2>2
<1>4. trace' = u
  BY DEF e
<1> HIDE DEF u
<1>5. Counted(trace', rounds', turns')
  BY <1>2, <1>4
<1>6. Standing(phase', Last(trace').event)
  BY <1>1, <1>2, <1>4 DEF Standing, ToolName
<1>7. Concluded(trace', rounds', turns', result')
  <2>1. result'.done /\ result'.rounds = rounds' /\ result'.turns = turns' /\ result'.ok = ok
    OBVIOUS
  <2>. QED  BY <1>2, <1>3, <1>4, <2>1 DEF Concluded
<1>. QED  BY <1>5, <1>6, <1>7 DEF EpisodeInv, Within, Counted, Story, Count, Places, Standing, Concluded

\* The events that end a trace with nothing pushed before, in a phase of the control.
LEMMA FailEpisode ==
    ASSUME AgentInv, EpisodeInv, phase \in {"round", "request", "actions"},
           trace' = trace \o <<>> \o <<EpisodeEnd(FALSE)>>,
           result' = [done |-> TRUE, ok |-> FALSE, rounds |-> rounds', turns |-> turns'],
           phase' = "done", limits' = limits, rounds' = rounds, turns' = turns,
           messages' = messages
    PROVE  EpisodeInv'
<1>1. EpisodeEnd(FALSE) \in EventType
  BY EventTypes, Zenon
<1>2. trace \in Seq(EventType)
  BY DEF AgentInv, AllAccounted
<1>3. trace' = Append(trace, EpisodeEnd(FALSE))
  BY <1>1, <1>2, Pushes
<1>4. Last(trace).event \in {"episode_start", "model_request", "model_response", "tool_result"}
  BY DEF EpisodeInv, Standing
<1>. QED  BY <1>3, <1>4, EndEpisode DEF EpisodeInv, Within

\* The counts after a step that pushes an event.
LEMMA PushedCounts ==
    ASSUME AgentInv, EpisodeInv, NEW e \in EventType, phase # "done",
           e.event = "tool_result" <=> Last(trace).event = "tool_call",
           rounds' = IF e.event = "model_request" THEN rounds + 1 ELSE rounds,
           turns' = IF e.event \in {"tool_call", "agent_final"} THEN turns + 1 ELSE turns
    PROVE  LET u == Append(trace, e) IN
           Counted(u, rounds', turns') /\ Last(u) = e /\ u[Len(u) - 1] = Last(trace)
<1> DEFINE u == Append(trace, e)
<1>1. Counted(trace, rounds, turns)
  BY DEF EpisodeInv
<1>2. Last(trace).event # "episode_end"
  <2>1. phase \in Phase
    BY DEF AgentInv, AgentTypeOK
  <2>. QED  BY <2>1 DEF EpisodeInv, Standing, Phase
<1>3. /\ e.event = "model_request" => Counted(u, rounds + 1, turns)
      /\ e.event \in {"tool_call", "agent_final"} => Counted(u, rounds, turns + 1)
      /\ e.event \notin {"model_request", "tool_call", "agent_final"} =>
            Counted(u, rounds, turns)
      /\ Last(u) = e /\ u[Len(u) - 1] = Last(trace)
  BY <1>1, <1>2, CountedPushed
<1> HIDE DEF u
<1>4. CASE e.event = "model_request"
  <2>1. rounds' = rounds + 1 /\ turns' = turns
    BY <1>4
  <2>. QED  BY <1>3, <1>4, <2>1 DEF u
<1>5. CASE e.event \in {"tool_call", "agent_final"}
  <2>1. rounds' = rounds /\ turns' = turns + 1
    BY <1>5
  <2>. QED  BY <1>3, <1>5, <2>1 DEF u
<1>6. CASE e.event \notin {"model_request", "tool_call", "agent_final"}
  <2>1. rounds' = rounds /\ turns' = turns
    BY <1>6
  <2>. QED  BY <1>3, <1>6, <2>1 DEF u
<1>. QED  BY <1>4, <1>5, <1>6

\* A step that goes on with another phase, and pushes an event.
LEMMA PushEpisode ==
    ASSUME AgentInv, EpisodeInv, NEW e \in EventType,
           trace' = trace \o <<e>>, phase # "done", e.event # "episode_end",
           e.event = "tool_result" <=> Last(trace).event = "tool_call",
           rounds' = IF e.event = "model_request" THEN rounds + 1 ELSE rounds,
           turns' = IF e.event \in {"tool_call", "agent_final"} THEN turns + 1 ELSE turns,
           IF e.event \in {"model_response", "tool_result"} /\ control = "react"
               THEN messages' = Append(messages, e) ELSE messages' = messages,
           Standing(phase', e.event), phase' # "done", Within(rounds', turns'),
           control' = control, limits' = limits, result' = result,
           control = "scripted" => phase' \notin {"round", "request", "cleanup"}
    PROVE  EpisodeInv'
<1>1. trace \in Seq(EventType) /\ messages \in Seq(EventType) /\ Story(trace)
      /\ Counted(trace, rounds, turns)
  BY DEF EpisodeInv, Counted, Story
<1>2. trace' = Append(trace, e)
  BY <1>1, Pushes
<1>4. Counted(trace', rounds', turns') /\ Last(trace') = e
  BY <1>2, PushedCounts
<1>5. messages' \in Seq(EventType)
  <2>1. messages' = messages \/ messages' = Append(messages, e)
    OBVIOUS
  <2>2. Append(messages, e) \in Seq(EventType)
    BY <1>1, AppendProperties
  <2>. QED  BY <1>1, <2>1, <2>2
<1>6. control = "react" => Shows(trace', messages')
  BY <1>1, <1>2, ShowsPushed DEF EpisodeInv
<1>7. Standing(phase', Last(trace').event)
  BY <1>4
<1>8. ~result'.done
  BY DEF EpisodeInv
<1>. QED  BY <1>4, <1>5, <1>6, <1>7, <1>8
     DEF EpisodeInv, Within, Counted, Story, Count, Places, Standing, Concluded, Shows

\* A step that pushes an event and ends the episode.
LEMMA LastEpisode ==
    ASSUME AgentInv, EpisodeInv, NEW e \in EventType, NEW ok \in BOOLEAN, phase # "done",
           trace' = trace \o <<e>> \o <<EpisodeEnd(ok)>>,
           e.event \notin {"tool_call", "episode_end", "auto_final"},
           e.event = "tool_result" <=> Last(trace).event = "tool_call",
           ok <=> e.event = "agent_final",
           rounds' = IF e.event = "model_request" THEN rounds + 1 ELSE rounds,
           turns' = IF e.event \in {"tool_call", "agent_final"} THEN turns + 1 ELSE turns,
           result' = [done |-> TRUE, ok |-> ok, rounds |-> rounds', turns |-> turns'],
           phase' = "done", limits' = limits, Within(rounds', turns'),
           messages' \in Seq(EventType)
    PROVE  EpisodeInv'
<1> DEFINE u == Append(trace, e)
<1>1. Counted(u, rounds', turns') /\ Last(u) = e
  BY PushedCounts
<1>2. trace' = Append(u, EpisodeEnd(ok))
  <2>1. EpisodeEnd(ok) \in EventType /\ trace \in Seq(EventType)
    BY EventTypes, Zenon DEF AgentInv, AllAccounted
  <2>. QED  BY <2>1, Pushes
<1> HIDE DEF u
<1>. QED  BY <1>1, <1>2, EndEpisode

\* An episode starts in the account.
LEMMA InitEpisode == AgentInit => EpisodeInv
<1> SUFFICES ASSUME AgentInit PROVE EpisodeInv
  OBVIOUS
<1> DEFINE e == Plain("episode_start")
<1>1. e \in EventType /\ e.event = "episode_start"
  BY EventTypes, Zenon DEF EventName
<1> HIDE DEF e
<1>2. trace = <<e>> /\ messages = <<>> /\ rounds = 0 /\ turns = 0 /\ result = NoResult
  BY DEF AgentInit, e
<1>3. trace \in Seq(EventType) /\ trace # <<>> /\ Len(trace) = 1 /\ DOMAIN trace = {1}
      /\ trace[1] = e
  BY <1>1, <1>2
<1>4. \A names : "episode_start" \notin names => Places(trace, names) = {}
  BY <1>1, <1>3 DEF Places
<1>5. Cardinality({}) = 0
  BY FS_EmptySet
<1>6. Story(trace)
  BY <1>1, <1>3 DEF Story
<1>7. Counted(trace, rounds, turns)
  BY <1>2, <1>4, <1>5, <1>6 DEF Counted, Count
<1>8. Shows(trace, messages)
  <2>1. Places(trace, {"model_response", "tool_result"}) = {}
    BY <1>4
  <2>2. Len(messages) = 0
    BY <1>2
  <2>. QED  BY <1>5, <2>1, <2>2 DEF Shows
<1>9. Standing(phase, Last(trace).event)
  BY <1>1, <1>3 DEF AgentInit, Standing, Last, ToolName
<1>10. Within(rounds, turns)
  <2>1. limits[1] \in Nat /\ limits[2] \in Nat
    BY AgentAssumption DEF AgentInit
  <2>. QED  BY <1>2, <2>1 DEF Within
<1>. QED  BY <1>2, <1>7, <1>8, <1>9, <1>10 DEF EpisodeInv, AgentInit, NoResult

\* The start of a round keeps the account.
LEMMA RoundEpisode == AgentInv /\ EpisodeInv /\ (NoGateway \/ StartRound) => EpisodeInv'
<1> SUFFICES ASSUME AgentInv, EpisodeInv, NoGateway \/ StartRound PROVE EpisodeInv'
  OBVIOUS
<1>1. CASE NoGateway
  BY <1>1, FailEpisode DEF NoGateway, FinishWithError
<1>2. CASE StartRound /\ Reached(limits[1], rounds)
  BY <1>2, FailEpisode DEF StartRound, FinishWithError
<1>3. CASE StartRound /\ ~Reached(limits[1], rounds)
  <2> DEFINE e == Plain("model_request")
  <2>1. e \in EventType /\ e.event = "model_request"
    BY EventTypes, Zenon DEF EventName
  <2> HIDE DEF e
  <2>2. phase = "round" /\ control' = control /\ limits' = limits /\ turns' = turns
        /\ messages' = messages /\ rounds' = rounds + 1 /\ trace' = trace \o <<e>>
        /\ phase' = "request" /\ result' = result
    BY <1>3 DEF StartRound, Continue, e
  <2>3. Within(rounds', turns')
    BY <1>3, <2>2, AgentAssumption DEF Reached, Within, EpisodeInv, AgentInv, AgentTypeOK
  <2>4. Standing(phase', e.event) /\ Last(trace).event # "tool_call"
    BY <2>1, <2>2 DEF Standing, EpisodeInv, ToolName
  <2>5. control # "scripted"
    BY <2>2 DEF EpisodeInv
  <2>. QED  BY <2>1, <2>2, <2>3, <2>4, <2>5, PushEpisode
<1>. QED  BY <1>1, <1>2, <1>3

\* So does the answer of the model, which the next request will show it.
LEMMA AnswerEpisode == AgentInv /\ EpisodeInv /\ ModelAnswers => EpisodeInv'
<1> SUFFICES ASSUME AgentInv, EpisodeInv, ModelAnswers PROVE EpisodeInv'
  OBVIOUS
<1> DEFINE e == Plain("model_response")
<1>1. e \in EventType /\ e.event = "model_response" /\ EpisodeEnd(FALSE) \in EventType
  BY EventTypes, Zenon DEF EventName
<1>2. trace \in Seq(EventType) /\ messages \in Seq(EventType)
  BY DEF EpisodeInv, AgentInv, AllAccounted
<1> HIDE DEF e
<1>3. phase = "request" /\ control' = control /\ limits' = limits
      /\ rounds' = rounds /\ turns' = turns
  BY DEF ModelAnswers
<1>4. Last(trace).event # "tool_call" /\ control = "react"
  <2>1. control \in {"react", "scripted"}
    BY DEF AgentInv, AgentTypeOK
  <2>. QED  BY <1>3, <2>1 DEF Standing, EpisodeInv
<1>5. Within(rounds', turns')
  BY <1>3 DEF EpisodeInv, Within
<1>6. messages \o <<e>> = Append(messages, e) /\ messages \o <<e>> \in Seq(EventType)
  BY <1>1, <1>2
<1>7. CASE UNCHANGED messages /\ FinishWithError(<<>>)
  BY <1>3, <1>7, FailEpisode DEF FinishWithError
<1>8. CASE messages' \in Seq(EventType) /\ FinishWithError(<<e>>)
  BY <1>1, <1>3, <1>4, <1>5, <1>8, LastEpisode DEF FinishWithError
<1>9. CASE messages' = messages \o <<e>> /\ Continue(<<e>>, "actions")
  <2>1. Standing("actions", e.event)
    BY <1>1 DEF Standing, ToolName
  <2>. QED  BY <1>1, <1>3, <1>4, <1>5, <1>6, <1>9, <2>1, PushEpisode DEF Continue
<1>10. \/ UNCHANGED messages /\ FinishWithError(<<>>)
       \/ UNCHANGED messages /\ FinishWithError(<<e>>)
       \/ messages' = messages \o <<e>> /\ FinishWithError(<<e>>)
       \/ messages' = messages \o <<e>> /\ Continue(<<e>>, "actions")
  BY Zenon DEF ModelAnswers, e
<1>. QED  BY <1>2, <1>6, <1>7, <1>8, <1>9, <1>10

\* So does the next action, which is counted unless the limit is reached.
LEMMA ActionEpisode == AgentInv /\ EpisodeInv /\ (NextAction \/ NoAction) => EpisodeInv'
<1> SUFFICES ASSUME AgentInv, EpisodeInv, NextAction \/ NoAction PROVE EpisodeInv'
  OBVIOUS
<1>1. phase = "actions" /\ control' = control /\ limits' = limits
      /\ rounds' = rounds /\ messages' = messages
  BY DEF NextAction, NoAction
<1>2. CASE FinishWithError(<<>>) /\ turns' = turns
  BY <1>1, <1>2, FailEpisode DEF FinishWithError
<1>3. CASE NoAction
  <2>1. CASE control = "react" /\ sawTool
    <3>1. trace \in Seq(EventType)
      BY DEF AgentInv, AllAccounted
    <3>2. trace' = trace /\ phase' = "round" /\ UNCHANGED <<result, turns>>
      BY <1>3, <2>1, <3>1 DEF NoAction, Continue
    <3>. QED  BY <1>1, <2>1, <3>2
         DEF EpisodeInv, Within, Counted, Story, Count, Places, Standing, Shows, ToolName
  <2>2. CASE ~(control = "react" /\ sawTool)
    BY <1>2, <1>3, <2>2 DEF NoAction
  <2>. QED  BY <2>1, <2>2
<1>4. CASE NextAction /\ Reached(limits[2], turns)
  BY <1>2, <1>4 DEF NextAction
<1>5. CASE NextAction /\ ~Reached(limits[2], turns)
  <2>1. turns' = turns + 1 /\ Within(rounds', turns')
    BY <1>1, <1>5, AgentAssumption
       DEF NextAction, Reached, Within, EpisodeInv, AgentInv, AgentTypeOK
  <2>2. Last(trace).event # "tool_call"
    BY <1>1 DEF Standing, EpisodeInv
  <2>3. CASE Head(batch) = "final"
    <3> DEFINE e == Plain("agent_final")
    <3>1. e \in EventType /\ e.event = "agent_final"
      BY EventTypes, Zenon DEF EventName
    <3> HIDE DEF e
    <3>2. FinishWith(<<e>>)
      BY <1>5, <2>3 DEF NextAction, e
    <3>3. messages' \in Seq(EventType)
      BY <1>1 DEF EpisodeInv
    <3>. QED  BY <1>1, <2>1, <2>2, <3>1, <3>2, <3>3, LastEpisode DEF FinishWith
  <2>4. CASE Head(batch) # "final"
    <3> DEFINE e == Plain("tool_call")
    <3>1. e \in EventType /\ e.event = "tool_call"
      BY EventTypes, Zenon DEF EventName
    <3> HIDE DEF e
    <3>2. Continue(<<e>>, Head(batch)) /\ batch # <<>>
      BY <1>5, <2>4 DEF NextAction, e
    <3>3. Head(batch) \in ToolName
      BY <2>4, <3>2 DEF AgentInv, Action
    <3>4. Standing(Head(batch), e.event)
      BY <3>1, <3>3 DEF Standing, ToolName
    <3>5. Head(batch) \notin {"done", "round", "request", "cleanup"}
      BY <3>3 DEF ToolName
    <3>. QED  BY <1>1, <2>1, <2>2, <3>1, <3>2, <3>4, <3>5, PushEpisode DEF Continue
  <2>. QED  BY <2>3, <2>4
<1>. QED  BY <1>3, <1>4, <1>5

\* So do the tools, and a run that ends by itself: they push nothing.
LEMMA ToolEpisode ==
    ASSUME AgentInv, EpisodeInv,
           \/ FileTool \/ StoneStep \/ StoneTool \/ LinuxTool
           \/ \E r \in Run : RunEnds(r)
           \/ UNCHANGED vars
    PROVE  EpisodeInv'
<1>1. CASE UNCHANGED <<episode, phase>>
  BY <1>1 DEF episode, EpisodeInv, Within, Counted, Story, Count, Places, Standing, Concluded, Shows
<1>2. ASSUME NEW ok, NEW run, Answered(ok, run), phase \in ToolName PROVE EpisodeInv'
  <2>1. phase' \in {"cleanup", "result"} /\ (control = "scripted" => phase' = "result")
    BY <1>2 DEF Answered
  <2>2. UNCHANGED <<control, limits, rounds, turns, messages, trace, result>>
    BY <1>2 DEF Answered
  <2>3. phase # "done" /\ Last(trace).event = "tool_call"
    BY <1>2 DEF EpisodeInv, Standing, ToolName
  <2>4. Standing(phase', Last(trace).event) /\ phase' \notin {"done", "round", "request"}
    BY <2>1, <2>3 DEF Standing, ToolName
  <2>. QED  BY <2>1, <2>2, <2>3, <2>4
       DEF EpisodeInv, Within, Counted, Story, Count, Places, Standing, Concluded, Shows
<1>3. CASE FileTool \/ StoneTool \/ LinuxTool
  <2>1. \E ok, run : Answered(ok, run)
    BY <1>3 DEF FileTool, StoneTool, LinuxTool
  <2>2. phase \in ToolName
    BY <1>3 DEF FileTool, StoneTool, LinuxTool, ToolName
  <2>. QED  BY <1>2, <2>1, <2>2
<1>4. StoneStep \/ (\E r \in Run : RunEnds(r)) \/ UNCHANGED vars => UNCHANGED <<episode, phase>>
  BY DEF StoneStep, RunEnds, vars, agentVars
<1>. QED  BY <1>1, <1>3, <1>4

\* So does a recorded result, which may end the episode, well or not.
LEMMA RecordedEpisode ==
    ASSUME AgentInv, EpisodeInv, NEW cleanup \in Cleanup, Recorded(cleanup),
           phase \in {"cleanup", "result"}
    PROVE  EpisodeInv'
<1> DEFINE e == Event("tool_result", pending.ok, pending.run, cleanup)
           f == Plain("auto_final")
<1>1. pending.ok \in BOOLEAN /\ pending.run \in Run \cup {NoRun}
      /\ control \in {"react", "scripted"}
  BY DEF AgentInv, AgentTypeOK
<1>2. e \in EventType /\ e.event = "tool_result" /\ e.ok = pending.ok
  BY <1>1, EventTypes, Zenon
<1>3. f \in EventType /\ f.event = "auto_final" /\ EpisodeEnd(TRUE) \in EventType
  BY EventTypes, Zenon DEF EventName
<1>4. control' = control /\ limits' = limits /\ rounds' = rounds /\ turns' = turns
      /\ messages' = (IF control = "react" THEN Append(messages, e) ELSE messages)
      /\ IF control = "react" /\ pending.ok /\ complete = "present"
         THEN FinishWith(<<e, f>>)
         ELSE IF control = "scripted" /\ ~pending.ok THEN FinishWithError(<<e>>)
         ELSE Continue(<<e>>, "actions")
  BY DEF Recorded
<1> HIDE DEF e, f
<1>5. phase # "done" /\ Last(trace).event = "tool_call"
  BY DEF EpisodeInv, Standing
<1>6. messages' \in Seq(EventType) /\ trace \in Seq(EventType)
  <2>1. messages \in Seq(EventType) /\ Append(messages, e) \in Seq(EventType)
    BY <1>2 DEF EpisodeInv
  <2>. QED  BY <1>4, <2>1 DEF AgentInv, AllAccounted
<1>7. Within(rounds', turns')
  BY <1>4 DEF EpisodeInv, Within
<1>8. CASE FinishWith(<<e, f>>) /\ pending.ok
  <2> DEFINE u == Append(trace, e)
             w == Append(u, f)
  <2>1. Counted(u, rounds', turns') /\ Last(u) = e
    BY <1>2, <1>4, <1>5, PushedCounts
  <2>2. trace' = Append(w, EpisodeEnd(TRUE))
    <3>1. trace' = trace \o <<e, f>> \o <<EpisodeEnd(TRUE)>>
      BY <1>8, Zenon DEF FinishWith
    <3> DEFINE g == EpisodeEnd(TRUE)
    <3>2. g \in EventType
      BY <1>3
    <3> HIDE DEF g
    <3>3. trace \o <<e, f>> \o <<g>> = Append(Append(Append(trace, e), f), g)
      BY <1>2, <1>3, <1>6, <3>2, Pushes
    <3>4. trace \o <<e, f>> \o <<EpisodeEnd(TRUE)>> =
             Append(Append(Append(trace, e), f), EpisodeEnd(TRUE))
      BY <3>3, Zenon DEF g
    <3>. QED  BY <3>1, <3>4, Zenon
  <2> HIDE DEF u
  <2>3. Counted(w, rounds', turns') /\ Last(w) = f /\ w[Len(w) - 1] = e
    BY <1>2, <1>3, <2>1, CountedPushed
  <2>4. Len(w) > 1
    <3>1. u \in Seq(EventType) /\ u # <<>>
      BY <2>1 DEF Counted, Story
    <3>2. Len(w) = Len(u) + 1 /\ Len(u) \in Nat \ {0}
      BY <1>3, <3>1, EmptySeq, AppendProperties
    <3>. QED  BY <3>2
  <2> HIDE DEF w
  <2>. QED  BY <1>2, <1>3, <1>4, <1>6, <1>7, <1>8, <2>2, <2>3, <2>4, EndEpisode DEF FinishWith
<1>9. CASE FinishWithError(<<e>>)
  BY <1>2, <1>4, <1>5, <1>6, <1>7, <1>9, LastEpisode DEF FinishWithError
<1>10. CASE Continue(<<e>>, "actions")
  <2>1. Standing("actions", e.event)
    BY <1>2 DEF Standing, ToolName
  <2>. QED  BY <1>2, <1>4, <1>5, <1>7, <1>10, <2>1, PushEpisode DEF Continue
<1>. QED  BY <1>4, <1>8, <1>9, <1>10

\* The account is kept throughout.
LEMMA EpisodeInvariance == Spec => []EpisodeInv
<1>1. AgentInv /\ EpisodeInv /\ (TerminateActiveRun \/ ToolResult) => EpisodeInv'
  BY RecordedEpisode DEF TerminateActiveRun, ToolResult, Cleanup
<1>2. AgentInv /\ EpisodeInv /\ [Next]_vars => EpisodeInv'
  BY <1>1, RoundEpisode, AnswerEpisode, ActionEpisode, ToolEpisode DEF Next
<1>. QED  BY <1>2, InitEpisode, AgentInvariance, PTL DEF Spec

-----------------------------------------------------------------------------
(***************************************************************************)
(* The memory.                                                             *)
(***************************************************************************)
\* The bytes of items add up: this is why an account kept by differences is right.
LEMMA BytesAdd ==
    ASSUME NEW S, S \subseteq HeldItem, IsFiniteSet(S),
           NEW T, T \subseteq HeldItem, IsFiniteSet(T),
           S \cap T = {}
    PROVE  BytesOf(S) \in Nat /\ BytesOf(T) \in Nat /\ BytesOf(S \cup T) = BytesOf(S) + BytesOf(T)
<1> DEFINE Each(X) == UNION {{i} \X (1..Bytes(i)) : i \in X}
           most == MaxItemBytes + Envelope
<1>1. \A i \in HeldItem : Bytes(i) \in Nat /\ Bytes(i) <= most
  <2>1. Envelope \in Nat /\ MaxItemBytes \in Nat /\ ContentSize \subseteq Nat
    BY LimitAssumption
  <2> TAKE i \in HeldItem
  <2>2. i.size \in Nat /\ i.size <= MaxItemBytes
    BY <2>1 DEF HeldItem, Item
  <2>. QED  BY <2>1, <2>2 DEF Bytes
<1>2. most \in Nat /\ IsFiniteSet(1..most)
  <2>1. most \in Nat
    BY LimitAssumption
  <2>. QED  BY <2>1, FS_Interval
<1>3. ASSUME NEW X, X \subseteq HeldItem, IsFiniteSet(X)
      PROVE  IsFiniteSet(Each(X)) /\ Cardinality(Each(X)) \in Nat
  <2>1. IsFiniteSet(X \X (1..most))
    BY <1>2, <1>3, FS_Product
  <2>2. Each(X) \subseteq X \X (1..most)
    <3> SUFFICES ASSUME NEW i \in X, NEW p \in {i} \X (1..Bytes(i))
                 PROVE  p \in X \X (1..most)
      BY Zenon
    <3>1. Bytes(i) \in Nat /\ Bytes(i) <= most
      BY <1>1, <1>3
    <3>2. PICK n \in 1..Bytes(i) : p = <<i, n>>
      OBVIOUS
    <3>3. n \in 1..most
      BY <1>2, <3>1, <3>2
    <3>. QED  BY <3>2, <3>3, Zenon
  <2>. QED  BY <2>1, <2>2, FS_Subset, FS_CardinalityType, Zenon
<1>4. Each(S \cup T) = Each(S) \cup Each(T)
  BY Zenon
<1>5. Each(S) \cap Each(T) = {}
  <2> SUFFICES ASSUME NEW p, p \in Each(S), p \in Each(T) PROVE FALSE
    BY Zenon
  <2>1. PICK i \in S : p \in {i} \X (1..Bytes(i))
    BY Zenon
  <2>2. PICK j \in T : p \in {j} \X (1..Bytes(j))
    BY Zenon
  <2>3. p[1] = i /\ p[1] = j
    BY <2>1, <2>2
  <2>. QED  BY <2>3
<1>6. IsFiniteSet(Each(S)) /\ Cardinality(Each(S)) \in Nat
  BY <1>3
<1>7. IsFiniteSet(Each(T)) /\ Cardinality(Each(T)) \in Nat
  BY <1>3
<1>8. \A X : BytesOf(X) = Cardinality(Each(X))
  BY Zenon DEF BytesOf
<1> HIDE DEF Each
<1>9. Cardinality(Each(S) \cup Each(T)) = Cardinality(Each(S)) + Cardinality(Each(T))
  <2>1. Cardinality(Each(S) \cup Each(T)) =
           Cardinality(Each(S)) + Cardinality(Each(T)) - Cardinality(Each(S) \cap Each(T))
    BY <1>6, <1>7, FS_Union
  <2>2. Cardinality(Each(S) \cap Each(T)) = 0
    BY <1>5, FS_EmptySet
  <2>. QED  BY <1>6, <1>7, <2>1, <2>2
<1>. QED  BY <1>4, <1>6, <1>7, <1>8, <1>9

\* Nothing is no bytes.
LEMMA NoBytes == BytesOf({}) = 0
<1>1. UNION {{i} \X (1..Bytes(i)) : i \in {}} = {}
  OBVIOUS
<1>. QED  BY <1>1, FS_EmptySet DEF BytesOf

\* A write keeps the account: the item of the key goes, the new one comes, and the
\* limits were looked at before.
LEMMA WriteKept ==
    ASSUME ContextInv, NEW key \in Key, NEW size \in ContentSize, NEW text \in Text,
           NEW archived \in BOOLEAN, Write(key, size, text, archived)
    PROVE  ContextInv'
<1> DEFINE prior == {i \in items : i.key = key}
           rest == items \ prior
           item == [key |-> key, id |-> nextId + 1, revision |-> revision + 1,
                    supersedes |-> IF prior = {} THEN 0 ELSE (CHOOSE i \in prior : TRUE).id,
                    size |-> size, text |-> text]
           new == IF archived THEN {} ELSE {item}
<1>1. /\ revision \in Nat /\ nextId \in Nat
      /\ items \subseteq HeldItem /\ IsFiniteSet(items) /\ Distinct(items)
      /\ written \in [Key -> Nat]
  BY DEF ContextInv
<1>2. /\ \A k \in Key : {i.id : i \in {j \in items : j.key = k}} = {written[k]} \ {0}
      /\ totalBytes = BytesOf(items) /\ totalBytes <= MaxBytes
      /\ Cardinality(items) <= MaxItems
      /\ remoteCount # Unknown => items = {}
      /\ \A i, j \in items : i.id < j.id => i.revision < j.revision
      /\ \A i \in items : i.supersedes < i.id /\ i.id <= nextId /\ i.revision <= revision
  BY DEF ContextInv, MemoryIsKept
<1>3. \A i \in items : /\ i \in HeldItem /\ i.key \in Key
                       /\ i.id \in Nat /\ i.revision \in Nat /\ i.supersedes \in Nat
  BY <1>1 DEF HeldItem, Item
<1>4. CASE answer' = [op |-> "refused"] /\ UNCHANGED <<memory, written>>
  BY <1>4 DEF ContextInv, Distinct, memory, MemoryIsKept
<1>5. CASE /\ size <= MaxItemBytes
           /\ archived \/ prior # {} \/ Cardinality(items) < MaxItems
           /\ BytesAfter(prior, new) <= MaxBytes
           /\ revision' = item.revision /\ nextId' = item.id
           /\ totalBytes' = BytesAfter(prior, new)
           /\ items' = rest \cup new
           /\ remoteCount' = Unknown
           /\ written' = [written EXCEPT ![key] = IF archived THEN 0 ELSE item.id]
  <2>1. /\ item.key = key /\ item.id = nextId + 1 /\ item.revision = revision + 1
        /\ item.supersedes \in Nat /\ item.supersedes < item.id
        /\ item.size = size
    <3>1. CASE prior = {}
      BY <1>1, <3>1
    <3>2. CASE prior # {}
      <4>1. (CHOOSE i \in prior : TRUE) \in prior
        BY <3>2, Zenon
      <4>2. (CHOOSE i \in prior : TRUE).id \in Nat /\ (CHOOSE i \in prior : TRUE).id <= nextId
        BY <1>2, <1>3, <4>1
      <4>. QED  BY <1>1, <3>2, <4>2
    <3>. QED  BY <3>1, <3>2
  <2>2. item \in HeldItem
    <3>1. item \in Item
      BY <1>1, <2>1 DEF Item
    <3>. QED  BY <1>5, <2>1, <3>1 DEF HeldItem
  <2> HIDE DEF item
  <2>3. new \subseteq HeldItem /\ IsFiniteSet(new) /\ Cardinality(new) \in {0, 1}
        /\ (archived => Cardinality(new) = 0)
    <3>1. IsFiniteSet({}) /\ Cardinality({}) = 0
      BY FS_EmptySet
    <3>2. IsFiniteSet({item}) /\ Cardinality({item}) = 1
      BY FS_Singleton
    <3>. QED  BY <2>2, <3>1, <3>2
  <2>4. rest \subseteq HeldItem /\ prior \subseteq HeldItem /\ IsFiniteSet(rest) /\ IsFiniteSet(prior)
        /\ prior \cup rest = items /\ prior \cap rest = {}
    <3>1. rest \subseteq items /\ prior \subseteq items
      OBVIOUS
    <3>2. IsFiniteSet(rest) /\ IsFiniteSet(prior)
      BY <1>1, <3>1, FS_Subset, Zenon
    <3>. QED  BY <1>1, <3>1, <3>2
  <2>5. \A i \in new : i = item /\ ~archived
    OBVIOUS
  <2>6. \A i \in items : i \in rest <=> i.key # key
    OBVIOUS
  <2>7. rest \cap new = {}
    <3>1. item \notin rest
      BY <2>1
    <3>. QED  BY <2>5, <3>1
  <2>8. rest \subseteq items
    OBVIOUS
  <2>9. prior # {} => Cardinality(prior) >= 1
    BY <2>4, FS_EmptySet, FS_CardinalityType
  <2>10. written' \in [Key -> Nat] /\ \A k \in Key : k # key => written'[k] = written[k]
    BY <1>1, <1>5, <2>1
  <2>11. written'[key] = IF archived THEN 0 ELSE nextId + 1
    BY <1>1, <1>5, <2>1
  <2>12. new = IF archived THEN {} ELSE {item}
    OBVIOUS
  <2>13. totalBytes' = BytesOf(items') /\ totalBytes' <= MaxBytes
    <3> HIDE DEF prior, rest, new
    <3>1. BytesOf(prior) \in Nat /\ BytesOf(rest) \in Nat
          /\ BytesOf(prior \cup rest) = BytesOf(prior) + BytesOf(rest)
      BY <2>4, BytesAdd
    <3>2. BytesOf(new) \in Nat /\ BytesOf(rest \cup new) = BytesOf(rest) + BytesOf(new)
      BY <2>3, <2>4, <2>7, BytesAdd
    <3>3. BytesAfter(prior, new) = BytesOf(prior \cup rest) - BytesOf(prior) + BytesOf(new)
      BY <1>2, <2>4 DEF BytesAfter
    <3>4. BytesAfter(prior, new) = BytesOf(rest \cup new)
      BY <3>1, <3>2, <3>3
    <3>. QED  BY <1>5, <3>4
  <2>14. IsFiniteSet(items') /\ items' \subseteq HeldItem
    <3> HIDE DEF prior, rest, new
    <3>. QED  BY <1>5, <2>3, <2>4, FS_Union
  <2>15. Cardinality(items') <= MaxItems
    <3> HIDE DEF prior, rest, new
    <3>1. Cardinality(items') <= Cardinality(rest) + Cardinality(new)
      <4>1. Cardinality(rest \cup new) =
               Cardinality(rest) + Cardinality(new) - Cardinality(rest \cap new)
        BY <2>3, <2>4, FS_Union
      <4>2. Cardinality(rest \cap new) = 0
        BY <2>7, FS_EmptySet
      <4>3. Cardinality(rest) \in Nat /\ Cardinality(new) \in Nat
        BY <2>3, <2>4, FS_CardinalityType
      <4>. QED  BY <1>5, <4>1, <4>2, <4>3
    <3>2. Cardinality(items) = Cardinality(prior) + Cardinality(rest)
      <4>1. Cardinality(prior \cup rest) =
               Cardinality(prior) + Cardinality(rest) - Cardinality(prior \cap rest)
        BY <2>4, FS_Union
      <4>2. Cardinality(prior \cap rest) = 0
        BY <2>4, FS_EmptySet
      <4>3. Cardinality(rest) \in Nat /\ Cardinality(prior) \in Nat
        BY <2>4, FS_CardinalityType
      <4>4. items = prior \cup rest
        BY <2>4
      <4>. QED  BY <4>1, <4>2, <4>3, <4>4
    <3>3. Cardinality(rest) \in Nat /\ Cardinality(prior) \in Nat /\ Cardinality(items') \in Nat
          /\ MaxItems \in Nat
      BY <2>4, <2>14, FS_CardinalityType, LimitAssumption
    <3>. QED  BY <1>2, <1>5, <2>3, <2>9, <3>1, <3>2, <3>3
  <2>16. \A k \in Key : {i.id : i \in {j \in items' : j.key = k}} = {written'[k]} \ {0}
    <3> SUFFICES ASSUME NEW k \in Key
                 PROVE  {i.id : i \in {j \in items' : j.key = k}} = {written'[k]} \ {0}
      OBVIOUS
    <3>1. CASE k # key
      <4>1. {j \in items' : j.key = k} = {j \in items : j.key = k}
        <5> HIDE DEF rest, new
        <5>. QED  BY <1>5, <2>1, <2>5, <2>6, <2>8, <3>1
      <4>. QED  BY <1>2, <2>10, <3>1, <4>1
    <3>2. CASE k = key
      <4>1. {j \in items' : j.key = k} = new
        <5> HIDE DEF rest, new
        <5>. QED  BY <1>5, <2>1, <2>5, <2>6, <2>8, <3>2
      <4>2. CASE archived
        BY <2>11, <2>12, <3>2, <4>1, <4>2
      <4>3. CASE ~archived
        <5>1. {i.id : i \in new} = {nextId + 1}
          BY <2>1, <2>12, <4>3
        <5>. QED  BY <1>1, <2>11, <3>2, <4>1, <4>3, <5>1
      <4>. QED  BY <4>2, <4>3
    <3>. QED  BY <3>1, <3>2
  <2> HIDE DEF prior, rest, new
  <2>17. \A i \in items' : i \in items \/ i = item
    BY <1>5, <2>5, <2>8
  <2>18. revision' = revision + 1 /\ nextId' = nextId + 1
    BY <1>5, <2>1
  <2>19. \A i \in items' : i.supersedes < i.id /\ i.id <= nextId' /\ i.revision <= revision'
    <3> TAKE i \in items'
    <3>1. CASE i \in items
      BY <1>1, <1>2, <1>3, <2>18, <3>1
    <3>2. CASE i = item
      BY <1>1, <2>1, <2>18, <3>2
    <3>. QED  BY <2>17, <3>1, <3>2
  <2>20. \A i, j \in items' : i.id < j.id => i.revision < j.revision
    <3> SUFFICES ASSUME NEW i \in items', NEW j \in items', i.id < j.id
                 PROVE  i.revision < j.revision
      OBVIOUS
    <3>1. CASE i \in items /\ j \in items
      BY <1>2, <3>1
    <3>2. CASE i \in items /\ j = item
      BY <1>1, <1>2, <1>3, <2>1, <3>2
    <3>3. CASE i = item
      <4>1. j \in items \/ j = item
        BY <2>17
      <4>. QED  BY <1>1, <1>2, <1>3, <2>1, <3>3, <4>1
    <3>. QED  BY <2>17, <3>1, <3>2, <3>3
  <2>21. revision' \in Nat /\ nextId' \in Nat /\ remoteCount' = Unknown
    BY <1>1, <1>5, <2>18
  <2>22. MemoryIsKept'
    BY <2>13, <2>15, <2>16, <2>19, <2>20, <2>21 DEF MemoryIsKept, BytesOf, Bytes
  <2>23. \A i, j \in items' : i # j => i.revision # j.revision
    <3> SUFFICES ASSUME NEW i \in items', NEW j \in items', i # j
                 PROVE  i.revision # j.revision
      OBVIOUS
    <3>1. CASE i \in items /\ j \in items
      BY <1>1, <3>1 DEF Distinct
    <3>2. CASE i \in items /\ j = item
      BY <1>1, <1>2, <1>3, <2>1, <3>2
    <3>3. CASE i = item
      <4>1. j \in items
        BY <2>17, <3>3
      <4>. QED  BY <1>1, <1>2, <1>3, <2>1, <3>3, <4>1
    <3>. QED  BY <2>17, <3>1, <3>2, <3>3
  <2>. QED  BY <2>10, <2>14, <2>21, <2>22, <2>23 DEF ContextInv, Distinct
<1>. QED  BY <1>4, <1>5 DEF Write

\* So does every other call.
LEMMA ContextKept ==
    ASSUME ContextInv, StoneStep
    PROVE  ContextInv'
<1>1. CASE UNCHANGED <<memory, written>>
  BY <1>1 DEF memory, ContextInv, Distinct, MemoryIsKept, BytesOf, Bytes
<1>2. ASSUME NEW rev \in 0..MaxRevision, SwitchToGateway(rev, 0), written' = [k \in Key |-> 0]
      PROVE  ContextInv'
  <2>1. revision' \in Nat /\ nextId' \in Nat /\ items' = {} /\ totalBytes' = 0
        /\ written' \in [Key -> Nat] /\ \A k \in Key : written'[k] = 0
    BY <1>2, LimitAssumption DEF SwitchToGateway, ContextInv
  <2>2. MaxBytes \in Nat /\ MaxItems \in Nat
    BY LimitAssumption
  <2>3. IsFiniteSet({}) /\ Cardinality({}) = 0
    BY FS_EmptySet
  <2>4. MemoryIsKept'
    <3>1. BytesOf(items') = 0
      BY <2>1, NoBytes
    <3>. QED  BY <2>1, <2>2, <2>3, <3>1 DEF MemoryIsKept, BytesOf, Bytes
  <2>. QED  BY <2>1, <2>3, <2>4 DEF ContextInv, Distinct
<1>3. \A key \in Key, size \in ContentSize, text \in Text, archived \in BOOLEAN :
         Write(key, size, text, archived) => ContextInv'
  BY WriteKept
<1>4. \/ \E key \in Key, size \in ContentSize, text \in Text, archived \in BOOLEAN :
            Write(key, size, text, archived)
      \/ UNCHANGED <<memory, written>>
      \/ \E rev \in 0..MaxRevision :
            SwitchToGateway(rev, 0) /\ written' = [k \in Key |-> 0]
  BY DEF StoneStep, Read, Project, CallGateway
<1>. QED  BY <1>1, <1>2, <1>3, <1>4

\* Nothing is held at first, and only the program of a Stone action changes it.
LEMMA ContextInvariance == Spec => []ContextInv
<1>1. AgentInit => ContextInv
  <2> SUFFICES ASSUME ContextInit PROVE ContextInv
    BY DEF AgentInit
  <2>1. IsFiniteSet({}) /\ Cardinality({}) = 0
    BY FS_EmptySet
  <2>2. MaxBytes \in Nat /\ MaxItems \in Nat
    BY LimitAssumption
  <2>3. MemoryIsKept
    BY <2>1, <2>2, NoBytes DEF ContextInit, MemoryIsKept
  <2>. QED  BY <2>1, <2>3 DEF ContextInit, ContextInv, Distinct
<1>2. ContextInv /\ [Next]_vars => ContextInv'
  <2> SUFFICES ASSUME ContextInv, [Next]_vars PROVE ContextInv'
    OBVIOUS
  <2>1. CASE UNCHANGED contextVars
    BY <2>1 DEF contextVars, memory, ContextInv, Distinct, MemoryIsKept, BytesOf, Bytes
  <2>2. CASE StoneStep
    BY <2>2, ContextKept
  <2>3. UNCHANGED contextVars \/ StoneStep
    BY DEF Next, NoGateway, StartRound, ModelAnswers, NextAction, NoAction, FileTool, StoneTool,
           LinuxTool, RunEnds, TerminateActiveRun, ToolResult, vars
  <2>. QED  BY <2>1, <2>2, <2>3
<1>. QED  BY <1>1, <1>2, PTL DEF Spec

-----------------------------------------------------------------------------
(***************************************************************************)
(* What a projection takes and a read returns.                             *)
(***************************************************************************)
\* A set of naturals that is not empty has a least one.
LEMMA Least ==
    ASSUME NEW S, S \subseteq Nat, S # {}
    PROVE  \E m \in S : \A n \in S : m <= n
<1> DEFINE below == OpToRel(<, Nat)
<1>1. PICK m \in S : \A n \in S : <<n, m>> \notin below
  BY NatLessThanWellFounded, WFMin
<1>2. \A n \in S : n < m => <<n, m>> \in below
  BY DEF OpToRel
<1> HIDE DEF below
<1>3. ASSUME NEW n \in S PROVE m <= n
  <2>1. m \in Nat /\ n \in Nat /\ ~(n < m)
    BY <1>1, <1>2
  <2>. QED  BY <2>1
<1>. QED  BY <1>3

\* Items whose revisions differ are in a strict and total order.
LEMMA Order ==
    ASSUME NEW set, set \subseteq HeldItem, Distinct(set), NEW query
    PROVE  /\ \A i \in set : ~Precedes(i, i, query)
           /\ \A i, j \in set : i # j => Precedes(i, j, query) \/ Precedes(j, i, query)
           /\ \A i, j, k \in set :
                 Precedes(i, j, query) /\ Precedes(j, k, query) => Precedes(i, k, query)
<1>1. \A i \in set : Relevance(i, query) \in Nat /\ i.revision \in Nat
  <2> TAKE i \in set
  <2>1. i.text \in Text /\ i.revision \in Nat
    BY DEF HeldItem, Item
  <2>2. IsFiniteSet(i.text \cap query)
    BY <2>1, TextAssumption, FS_Subset
  <2>. QED  BY <2>1, <2>2, FS_CardinalityType DEF Relevance
<1>2. \A i, j \in set : i # j => i.revision # j.revision
  BY DEF Distinct
<1> HIDE DEF Relevance
<1>. QED  BY <1>1, <1>2 DEF Precedes

\* The place of an item: how many precede it, and itself.
Place(set, query, i) == Cardinality({j \in set : Precedes(j, i, query)}) + 1

\* The places are the numbers up to the size of the set, one for each item, and
\* smaller for an item that precedes another.
LEMMA Placed ==
    ASSUME NEW set, set \subseteq HeldItem, IsFiniteSet(set), Distinct(set), NEW query
    PROVE  /\ \A i \in set : Place(set, query, i) \in 1..Cardinality(set)
           /\ \A i, j \in set : Precedes(i, j, query) <=> Place(set, query, i) < Place(set, query, j)
           /\ \A i, j \in set : Place(set, query, i) = Place(set, query, j) => i = j
           /\ \A n \in 1..Cardinality(set) : \E i \in set : Place(set, query, i) = n
<1> DEFINE Below(i) == {j \in set : Precedes(j, i, query)}
           N == Cardinality(set)
           P(i) == Place(set, query, i)
<1>1. N \in Nat
  BY FS_CardinalityType
<1>2. \A i \in set : IsFiniteSet(Below(i)) /\ Cardinality(Below(i)) \in Nat
                     /\ i \notin Below(i)
  <2> TAKE i \in set
  <2>1. Below(i) \subseteq set
    OBVIOUS
  <2>2. IsFiniteSet(Below(i))
    BY <2>1, FS_Subset, Zenon
  <2>3. i \notin Below(i)
    BY Order
  <2>. QED  BY <2>2, <2>3, FS_CardinalityType
<1>3. \A i \in set : P(i) = Cardinality(Below(i)) + 1
  BY DEF Place
<1> HIDE DEF P
<1>4. \A i \in set : Cardinality(Below(i) \cup {i}) = Cardinality(Below(i)) + 1
  BY <1>2, FS_AddElement
<1>5. ASSUME NEW i \in set PROVE P(i) \in 1..N
  <2>1. Below(i) \cup {i} \subseteq set
    OBVIOUS
  <2>2. Cardinality(Below(i) \cup {i}) <= N
    BY <2>1, FS_Subset, Zenon
  <2> HIDE DEF Below, N
  <2>. QED  BY <1>1, <1>2, <1>3, <1>4, <2>2
<1>6. ASSUME NEW i \in set, NEW j \in set, Precedes(i, j, query) PROVE P(i) < P(j)
  <2>1. Below(i) \cup {i} \subseteq Below(j)
    BY <1>6, Order
  <2>2. Cardinality(Below(i) \cup {i}) <= Cardinality(Below(j))
    BY <1>2, <2>1, FS_Subset, Zenon
  <2> HIDE DEF Below, N
  <2>. QED  BY <1>2, <1>3, <1>4, <2>2
<1>7. ASSUME NEW i \in set, NEW j \in set, P(i) < P(j) PROVE Precedes(i, j, query)
  <2>1. ~(P(j) < P(i)) /\ i # j
    BY <1>1, <1>5, <1>7
  <2>2. Precedes(i, j, query) \/ Precedes(j, i, query)
    BY <2>1, Order
  <2>. QED  BY <1>6, <2>1, <2>2
<1>8. ASSUME NEW i \in set, NEW j \in set, P(i) = P(j) PROVE i = j
  <2>1. ~(P(j) < P(i)) /\ ~(P(i) < P(j))
    BY <1>1, <1>5, <1>8
  <2>. QED  BY <1>6, <2>1, Order
<1>9. \A n \in 1..N : \E i \in set : P(i) = n
  <2> DEFINE f == [i \in set |-> P(i)]
  <2>1. f \in Injection(set, 1..N)
    <3>1. f \in [set -> 1..N]
      BY <1>5
    <3>2. \A i, j \in set : f[i] = f[j] => i = j
      BY <1>8
    <3>. QED  BY <3>1, <3>2 DEF Injection, IsInjective
  <2>2. IsFiniteSet(1..N) /\ Cardinality(1..N) = N
    BY <1>1, FS_Interval
  <2>3. f \in Surjection(set, 1..N)
    BY <2>1, <2>2, FS_Injection, Zenon
  <2>. QED  BY <2>3 DEF Surjection
<1>. QED  BY <1>5, <1>6, <1>7, <1>8, <1>9 DEF P

\* The items can be listed so that one that precedes another comes first, and are.
LEMMA Sorted ==
    ASSUME NEW set, set \subseteq HeldItem, IsFiniteSet(set), Distinct(set), NEW query,
           NEW s, s = Ranked(set, query)
    PROVE  /\ s \in Seq(set) /\ Len(s) = Cardinality(set)
           /\ \A i \in set : \E m \in 1..Len(s) : s[m] = i
           /\ \A m, n \in 1..Len(s) : m # n => s[m] # s[n]
           /\ \A m, n \in 1..Len(s) : m < n => Precedes(s[m], s[n], query)
<1> DEFINE N == Cardinality(set)
           D == 1..N
           P(i) == Place(set, query, i)
           at(m) == CHOOSE i \in set : P(i) = m
           t == [m \in D |-> at(m)]
           Ordered(u) == \A m, n \in DOMAIN u : m < n => Precedes(u[m], u[n], query)
<1>1. N \in Nat /\ IsFiniteSet(D) /\ Cardinality(D) = N
  BY FS_CardinalityType, FS_Interval
<1>2. /\ \A i, j \in set : Precedes(i, j, query) <=> P(i) < P(j)
      /\ \A n \in D : \E i \in set : P(i) = n
  BY Placed
<1> HIDE DEF P
<1>3. \A m \in D : at(m) \in set /\ P(at(m)) = m
  BY <1>2, Zenon
<1> HIDE DEF at
<1>4. t \in [D -> set] /\ \A m, n \in D : m # n => t[m] # t[n]
  BY <1>3
<1>5. t \in SetToSeqs(set)
  BY <1>4, Zenon DEF SetToSeqs
<1>6. Ordered(t)
  BY <1>2, <1>3
<1>7. s \in SetToSeqs(set) /\ Ordered(s)
  <2> HIDE DEF t
  <2>1. \E u \in SetToSeqs(set) : Ordered(u)
    BY <1>5, <1>6
  <2>. QED  BY <2>1, Zenon DEF Ranked
<1>8. s \in [D -> set] /\ \A m, n \in D : m # n => s[m] # s[n]
  BY <1>7 DEF SetToSeqs
<1>9. s \in Seq(set) /\ Len(s) = N /\ DOMAIN s = D
  BY <1>1, <1>8
<1>10. \A i \in set : \E m \in D : s[m] = i
  <2>1. s \in Injection(D, set)
    BY <1>8 DEF Injection, IsInjective
  <2>2. s \in Surjection(D, set)
    BY <1>1, <2>1, FS_Injection, Zenon
  <2>. QED  BY <2>2 DEF Surjection
<1>. QED  BY <1>7, <1>8, <1>9, <1>10

\* The first items of a sequence are taken one after the other: there are stages.
Begun(required) == [items |-> required, full |-> FALSE]
Stages(f, required, ranked, budget, last) ==
    f = [n \in 0..last |-> IF n = 0 THEN Begun(required)
                           ELSE TakeOne(f[n - 1], ranked[n], budget)]

\* However long the sequence, and Take is the last of them.
LEMMA TakeInStages ==
    ASSUME NEW required, NEW ranked, NEW budget, Len(ranked) \in Nat
    PROVE  \E f : Stages(f, required, ranked, budget, Len(ranked))
                  /\ Take(required, ranked, budget) = f[Len(ranked)]
<1> DEFINE Has(N) == \E f : Stages(f, required, ranked, budget, N)
           Lacks == {N \in Nat : ~Has(N)}
<1>1. Lacks = {}
  <2> SUFFICES ASSUME Lacks # {} PROVE FALSE
    OBVIOUS
  <2>1. PICK N \in Lacks : \A n \in Lacks : N <= n
    <3>1. Lacks \subseteq Nat
      OBVIOUS
    <3> HIDE DEF Lacks
    <3>. QED  BY <3>1, Least
  <2>2. CASE N = 0
    <3> DEFINE f == [n \in 0..0 |-> Begun(required)]
    <3>1. f = [n \in 0..0 |-> IF n = 0 THEN Begun(required)
                              ELSE TakeOne(f[n - 1], ranked[n], budget)]
      <4>1. \A n \in 0..0 : n = 0
        OBVIOUS
      <4>2. \A n \in 0..0 : Begun(required) = IF n = 0 THEN Begun(required)
                                              ELSE TakeOne(f[n - 1], ranked[n], budget)
        BY <4>1, Zenon
      <4>. QED  BY <4>2, Zenon
    <3>2. Stages(f, required, ranked, budget, N)
      BY <2>2, <3>1, Zenon DEF Stages
    <3>. QED  BY <3>2, Zenon
  <2>3. CASE N # 0
    <3>1. N \in Nat /\ N - 1 \in Nat /\ N - 1 \notin Lacks
      BY <2>1, <2>3
    <3>2. PICK f : Stages(f, required, ranked, budget, N - 1)
      BY <3>1
    <3> DEFINE g == [n \in 0..N |-> IF n = N THEN TakeOne(f[N - 1], ranked[N], budget) ELSE f[n]]
               h(n) == IF n = 0 THEN Begun(required) ELSE TakeOne(g[n - 1], ranked[n], budget)
    <3>3. \A n \in 0..(N - 1) : f[n] = IF n = 0 THEN Begun(required)
                                       ELSE TakeOne(f[n - 1], ranked[n], budget)
      BY <3>2, Zenon DEF Stages
    <3>4. \A n \in 0..(N - 1) : g[n] = f[n]
      BY <3>1
    <3>5. g[N] = TakeOne(f[N - 1], ranked[N], budget)
      BY <3>1
    <3>6. ASSUME NEW n \in 0..N PROVE g[n] = h(n)
      <4> HIDE DEF g
      <4>1. CASE n = N
        <5>1. N - 1 \in 0..(N - 1)
          BY <3>1
        <5>2. g[N - 1] = f[N - 1]
          BY <3>4, <5>1
        <5>. QED  BY <2>3, <3>5, <4>1, <5>2
      <4>2. CASE n = 0
        BY <2>3, <3>1, <3>3, <3>4, <4>2
      <4>3. CASE n # N /\ n # 0
        <5>1. n \in 0..(N - 1) /\ n - 1 \in 0..(N - 1)
          BY <3>1, <4>3
        <5>2. g[n] = f[n] /\ g[n - 1] = f[n - 1]
          BY <3>4, <5>1
        <5>3. f[n] = TakeOne(f[n - 1], ranked[n], budget)
          BY <3>3, <4>3, <5>1
        <5>. QED  BY <4>3, <5>2, <5>3
      <4>. QED  BY <4>1, <4>2, <4>3
    <3>7. g = [n \in 0..N |-> g[n]]
      OBVIOUS
    <3>8. g = [n \in 0..N |-> h(n)]
      <4> HIDE DEF g, h
      <4>. QED  BY <3>6, <3>7, Zenon
    <3>9. Stages(g, required, ranked, budget, N)
      <4> HIDE DEF g
      <4>. QED  BY <3>8, Zenon DEF Stages
    <3>. QED  BY <3>9, Zenon
  <2>. QED  BY <2>2, <2>3
<1> DEFINE t == CHOOSE f : Stages(f, required, ranked, budget, Len(ranked))
<1>2. Stages(t, required, ranked, budget, Len(ranked))
  BY <1>1, Zenon
<1>3. Take(required, ranked, budget) = t[Len(ranked)]
  BY Zenon DEF Take, Stages, Begun
<1>. QED  BY <1>2, <1>3, Zenon

\* What n stages have taken: the required items and, of the n items tried, those that
\* fit; one that does not fit would not fit without those that rank below it either.
Taken(taken, all, required, ranked, n, focus, budget) ==
    /\ taken \in [items : SUBSET all, full : BOOLEAN]
    /\ required \subseteq taken.items
    /\ \A i \in taken.items \ required : \E m \in 1..n : i = ranked[m]
    /\ TextBytes(taken.items) <= budget
    /\ taken.full <=> \E m \in 1..n : ranked[m] \notin taken.items
    /\ \A m \in 1..n : ranked[m] \notin taken.items =>
          TextBytes({i \in taken.items : i \in required \/ Precedes(i, ranked[m], focus)}
                    \cup {ranked[m]}) > budget

\* A text has a length.
LEMMA TextIsCounted ==
    ASSUME NEW S, S \subseteq HeldItem, IsFiniteSet(S)
    PROVE  TextBytes(S) \in Int
<1>1. BytesOf(S) \in Nat
  <2>1. {} \subseteq HeldItem /\ IsFiniteSet({}) /\ S \cap {} = {}
    BY FS_EmptySet
  <2>. QED  BY <2>1, BytesAdd
<1>2. Cardinality(S) \in Nat /\ Frame \in Nat
  BY FS_CardinalityType, LimitAssumption
<1>. QED  BY <1>1, <1>2 DEF TextBytes

\* One more item is tried.
LEMMA TakenOne ==
    ASSUME NEW all, all \subseteq HeldItem, IsFiniteSet(all), Distinct(all),
           NEW required \in SUBSET all, NEW focus, NEW budget \in Int,
           NEW ranked, ranked = Ranked(all \ required, focus),
           NEW n \in Nat, n + 1 <= Len(ranked),
           NEW taken, Taken(taken, all, required, ranked, n, focus, budget)
    PROVE  Taken(TakeOne(taken, ranked[n + 1], budget), all, required, ranked, n + 1, focus, budget)
<1> DEFINE item == ranked[n + 1]
           I == taken.items
           Ahead(set, out) == {i \in set : i \in required \/ Precedes(i, out, focus)}
           next == TakeOne(taken, item, budget)
<1>1. all \ required \subseteq HeldItem /\ IsFiniteSet(all \ required) /\ Distinct(all \ required)
  BY FS_Subset DEF Distinct
<1>2. /\ ranked \in Seq(all \ required)
      /\ \A m, k \in 1..Len(ranked) : m # k => ranked[m] # ranked[k]
      /\ \A m, k \in 1..Len(ranked) : m < k => Precedes(ranked[m], ranked[k], focus)
  <2> DEFINE rest == all \ required
  <2>1. rest \subseteq HeldItem /\ IsFiniteSet(rest) /\ Distinct(rest) /\ ranked = Ranked(rest, focus)
    BY <1>1
  <2> HIDE DEF rest
  <2>2. ranked \in Seq(rest)
    BY <2>1, Sorted
  <2>3. \A m, k \in 1..Len(ranked) : m # k => ranked[m] # ranked[k]
    BY <2>1, Sorted
  <2>4. \A m, k \in 1..Len(ranked) : m < k => Precedes(ranked[m], ranked[k], focus)
    BY <2>1, Sorted
  <2>. QED  BY <2>2, <2>3, <2>4 DEF rest
<1>3. /\ Len(ranked) \in Nat /\ n + 1 \in 1..Len(ranked) /\ 1..(n + 1) = 1..n \cup {n + 1}
      /\ \A m \in 1..n : m \in 1..Len(ranked) /\ m < n + 1 /\ m # n + 1
  <2>1. Len(ranked) \in Nat
    BY <1>2
  <2>2. 1..(n + 1) = 1..n \cup {n + 1}
    OBVIOUS
  <2>3. \A m \in 1..n : m \in 1..Len(ranked) /\ m < n + 1 /\ m # n + 1
    BY <2>1
  <2>4. n + 1 \in 1..Len(ranked)
    BY <2>1
  <2>. QED  BY <2>1, <2>2, <2>3, <2>4
<1>4. item \in all /\ item \notin required
  BY <1>2, <1>3
<1>5. /\ taken \in [items : SUBSET all, full : BOOLEAN]
      /\ required \subseteq I
      /\ \A i \in I \ required : \E m \in 1..n : i = ranked[m]
      /\ TextBytes(I) <= budget
      /\ taken.full <=> \E m \in 1..n : ranked[m] \notin I
      /\ \A m \in 1..n : ranked[m] \notin I => TextBytes(Ahead(I, ranked[m]) \cup {ranked[m]}) > budget
  BY DEF Taken
<1>6. I \subseteq all /\ taken.full \in BOOLEAN
  BY <1>5
<1>7. IsFiniteSet(I \cup {item}) /\ I \cup {item} \subseteq HeldItem
  <2>1. I \cup {item} \subseteq all
    BY <1>4, <1>6
  <2>. QED  BY <2>1, FS_Subset
<1>8. TextBytes(I \cup {item}) \in Int
  BY <1>7, TextIsCounted
<1>9. TextBytes(I) \in Int
  <2>1. IsFiniteSet(I) /\ I \subseteq HeldItem
    BY <1>6, FS_Subset
  <2>. QED  BY <2>1, TextIsCounted
<1>10. \A m \in 1..n : ranked[m] # item /\ Precedes(ranked[m], item, focus)
  BY <1>2, <1>3
<1>11. item \notin I
  BY <1>4, <1>5, <1>10
<1>12. ASSUME TextBytes(I \cup {item}) > budget
       PROVE  Taken(next, all, required, ranked, n + 1, focus, budget)
  <2>1. next = [taken EXCEPT !.full = TRUE]
    BY <1>12 DEF TakeOne
  <2>2. next \in [items : SUBSET all, full : BOOLEAN] /\ next.items = I /\ next.full = TRUE
    BY <1>5, <2>1
  <2>3. Ahead(I, item) = I
    <3>1. ASSUME NEW i \in I, i \notin required PROVE Precedes(i, item, focus)
      <4>1. PICK m \in 1..n : i = ranked[m]
        BY <1>5, <3>1
      <4>. QED  BY <1>10, <4>1
    <3> HIDE DEF I, item
    <3>. QED  BY <3>1
  <2>4. \A i \in I \ required : \E m \in 1..(n + 1) : i = ranked[m]
    BY <1>3, <1>5
  <2>5. \E m \in 1..(n + 1) : ranked[m] \notin I
    BY <1>3, <1>11
  <2>6. \A m \in 1..(n + 1) :
           ranked[m] \notin I => TextBytes(Ahead(I, ranked[m]) \cup {ranked[m]}) > budget
    <3> TAKE m \in 1..(n + 1)
    <3>1. CASE m = n + 1
      <4>1. ranked[m] = item
        BY <3>1
      <4> HIDE DEF item, Ahead
      <4>. QED  BY <1>12, <2>3, <4>1
    <3>2. CASE m \in 1..n
      BY <1>5, <3>2
    <3>. QED  BY <1>3, <3>1, <3>2
  <2> HIDE DEF I, item, next
  <2>. QED  BY <1>5, <2>2, <2>4, <2>5, <2>6 DEF Taken
<1>13. ASSUME ~(TextBytes(I \cup {item}) > budget)
       PROVE  Taken(next, all, required, ranked, n + 1, focus, budget)
  <2> DEFINE J == I \cup {item}
  <2>1. next = [taken EXCEPT !.items = J]
    BY <1>13 DEF TakeOne
  <2>2. J \subseteq all
    BY <1>4, <1>6
  <2>3. next \in [items : SUBSET all, full : BOOLEAN] /\ next.items = J /\ next.full = taken.full
    <3> HIDE DEF J
    <3>. QED  BY <1>5, <2>1, <2>2
  <2>4. TextBytes(J) <= budget
    BY <1>8, <1>13
  <2>5. required \subseteq J /\ \A i \in J \ required : \E m \in 1..(n + 1) : i = ranked[m]
    BY <1>3, <1>5
  <2>6. \A m \in 1..n : ranked[m] \notin J <=> ranked[m] \notin I
    BY <1>10
  <2>7. ranked[n + 1] \in J
    OBVIOUS
  <2>8. next.full <=> \E m \in 1..(n + 1) : ranked[m] \notin J
    <3> HIDE DEF J, next
    <3>. QED  BY <1>3, <1>5, <2>3, <2>6, <2>7
  <2>9. \A m \in 1..n : ~Precedes(item, ranked[m], focus)
    <3> TAKE m \in 1..n
    <3>1. Precedes(ranked[m], item, focus) /\ ranked[m] \in all
      <4>1. m \in 1..Len(ranked)
        BY <1>3
      <4>2. ranked[m] \in all \ required
        BY <1>2, <4>1
      <4>. QED  BY <1>10, <4>2
    <3>. QED  BY <1>4, <3>1, Order
  <2>10. \A m \in 1..n : Ahead(J, ranked[m]) = Ahead(I, ranked[m])
    BY <1>4, <2>9
  <2>11. \A m \in 1..(n + 1) :
            ranked[m] \notin J => TextBytes(Ahead(J, ranked[m]) \cup {ranked[m]}) > budget
    <3> TAKE m \in 1..(n + 1)
    <3>1. CASE m = n + 1
      BY <2>7, <3>1
    <3>2. CASE m \in 1..n
      <4> HIDE DEF J, Ahead
      <4>. QED  BY <1>5, <2>6, <2>10, <3>2
    <3>. QED  BY <1>3, <3>1, <3>2
  <2> HIDE DEF J, item, next
  <2>. QED  BY <2>3, <2>4, <2>5, <2>8, <2>11 DEF Taken
<1>. QED  BY <1>12, <1>13

\* All of them are tried.
LEMMA TakenAll ==
    ASSUME NEW all, all \subseteq HeldItem, IsFiniteSet(all), Distinct(all),
           NEW required \in SUBSET all, NEW focus, NEW budget \in Int,
           TextBytes(required) <= budget,
           NEW ranked, ranked = Ranked(all \ required, focus)
    PROVE  Taken(Take(required, ranked, budget), all, required, ranked, Len(ranked), focus, budget)
<1>1. Len(ranked) \in Nat
  <2>1. all \ required \subseteq HeldItem /\ IsFiniteSet(all \ required)
        /\ Distinct(all \ required)
    BY FS_Subset DEF Distinct
  <2>. QED  BY <2>1, Sorted, FS_CardinalityType
<1> DEFINE last == Len(ranked)
<1>2. PICK f : /\ Stages(f, required, ranked, budget, last)
               /\ Take(required, ranked, budget) = f[last]
  BY <1>1, TakeInStages
<1> HIDE DEF last
<1>3. last \in Nat /\ last = Len(ranked)
  BY <1>1 DEF last
<1>4. /\ f[0] = Begun(required)
      /\ \A n \in 1..last : f[n] = TakeOne(f[n - 1], ranked[n], budget)
  <2>1. \A n \in 0..last : f[n] = IF n = 0 THEN Begun(required)
                                  ELSE TakeOne(f[n - 1], ranked[n], budget)
    BY <1>2, Zenon DEF Stages
  <2>2. 0 \in 0..last /\ \A n \in 1..last : n \in 0..last /\ n # 0
    BY <1>3
  <2>. QED  BY <2>1, <2>2
<1> DEFINE Good(n) == Taken(f[n], all, required, ranked, n, focus, budget)
           bad == {n \in 0..last : ~Good(n)}
<1>5. Good(0)
  <2>1. f[0] \in [items : SUBSET all, full : BOOLEAN]
        /\ f[0].items = required /\ f[0].full = FALSE
    BY <1>4 DEF Begun
  <2>2. 1..0 = {}
    OBVIOUS
  <2>. QED  BY <2>1, <2>2 DEF Taken
<1>6. ASSUME NEW n \in Nat, n + 1 <= last, Good(n) PROVE Good(n + 1)
  <2>1. f[n + 1] = TakeOne(f[n], ranked[n + 1], budget)
    <3>1. n + 1 \in 1..last /\ (n + 1) - 1 = n
      BY <1>3, <1>6
    <3>. QED  BY <1>4, <3>1
  <2>2. Taken(TakeOne(f[n], ranked[n + 1], budget), all, required, ranked, n + 1, focus, budget)
    BY <1>3, <1>6, TakenOne
  <2>. QED  BY <2>1, <2>2
<1> HIDE DEF Good
<1>7. bad = {}
  <2> SUFFICES ASSUME bad # {} PROVE FALSE
    OBVIOUS
  <2>1. PICK n \in bad : \A m \in bad : n <= m
    <3>1. bad \subseteq Nat
      OBVIOUS
    <3> HIDE DEF bad
    <3>. QED  BY <3>1, Least
  <2>2. n \in 0..last /\ ~Good(n) /\ n # 0
    BY <1>5, <2>1
  <2>3. n - 1 \in Nat /\ n - 1 \in 0..last /\ (n - 1) + 1 = n /\ n <= last /\ ~(n <= n - 1)
    BY <1>3, <2>2
  <2>4. Good(n - 1)
    BY <2>1, <2>3
  <2>. QED  BY <1>6, <2>2, <2>3, <2>4
<1>8. Good(last)
  <2>1. last \in 0..last
    BY <1>3
  <2>. QED  BY <1>7, <2>1
<1>. QED  BY <1>2, <1>3, <1>8 DEF Good

\* The smaller of two numbers.
LEMMA Smaller ==
    ASSUME NEW m \in Int, NEW n \in Int
    PROVE  /\ Min({m, n}) \in {m, n}
           /\ Min({m, n}) <= m /\ Min({m, n}) <= n
<1>1. \E x \in {m, n} : \A y \in {m, n} : x <= y
  BY Z3
<1> DEFINE x == CHOOSE x \in {m, n} : \A y \in {m, n} : x <= y
<1>2. x \in {m, n} /\ \A y \in {m, n} : x <= y
  BY <1>1, Zenon
<1>3. Min({m, n}) = x
  BY Zenon DEF Min
<1> HIDE DEF x
<1>. QED  BY <1>2, <1>3

\* A projection takes what it should.
LEMMA ProjectBest ==
    ASSUME ContextInv, NEW focus, NEW tokens \in Int, NEW keys, Project(focus, tokens, keys)
    PROVE  AnswersAreBest'
<1> DEFINE K == ToSet(keys)
           required == {i \in items : i.key \in K}
           ranked == Ranked(items \ required, focus)
           budget == 4 * tokens
           taken == Take(required, ranked, budget)
<1>1. items' = items
  BY DEF Project, memory
<1>2. CASE answer' = [op |-> "refused"]
  BY <1>2 DEF AnswersAreBest
<1>3. CASE /\ \A k \in K : \E i \in items : i.key = k
           /\ TextBytes(required) <= budget
           /\ answer' = [op |-> "project", focus |-> focus, budget |-> budget,
                         required |-> K, items |-> taken.items, truncated |-> taken.full]
  <2>1. items \subseteq HeldItem /\ IsFiniteSet(items) /\ Distinct(items)
    BY DEF ContextInv
  <2>2. required \in SUBSET items /\ budget \in Int
    OBVIOUS
  <2>3. \A i \in items : i \in required <=> i.key \in K
    OBVIOUS
  <2> HIDE DEF K, required, budget
  <2>4. Taken(taken, items, required, ranked, Len(ranked), focus, budget)
    BY <1>3, <2>1, <2>2, TakenAll, Zenon
  <2>5. \A i \in items \ required : \E m \in 1..Len(ranked) : ranked[m] = i
    <3> DEFINE rest == items \ required
    <3>1. rest \subseteq HeldItem /\ IsFiniteSet(rest) /\ Distinct(rest)
      BY <2>1, FS_Subset DEF Distinct
    <3> HIDE DEF rest
    <3>2. \A i \in rest : \E m \in 1..Len(Ranked(rest, focus)) : Ranked(rest, focus)[m] = i
      BY <3>1, Sorted
    <3>. QED  BY <3>2 DEF rest
  <2>6. \A m \in 1..Len(ranked) : ranked[m] \in items
    <3> DEFINE rest == items \ required
    <3>1. rest \subseteq HeldItem /\ IsFiniteSet(rest) /\ Distinct(rest)
      BY <2>1, FS_Subset DEF Distinct
    <3> HIDE DEF rest
    <3>2. Ranked(rest, focus) \in Seq(rest)
      BY <3>1, Sorted
    <3>. QED  BY <3>2 DEF rest
  <2> HIDE DEF ranked, taken
  <2> DEFINE I == taken.items
  <2>7. /\ taken \in [items : SUBSET items, full : BOOLEAN]
        /\ required \subseteq I
        /\ TextBytes(I) <= budget
        /\ taken.full <=> \E m \in 1..Len(ranked) : ranked[m] \notin I
        /\ \A m \in 1..Len(ranked) : ranked[m] \notin I =>
              TextBytes({i \in I : i \in required \/ Precedes(i, ranked[m], focus)}
                        \cup {ranked[m]}) > budget
    BY <2>4 DEF Taken
  <2>8. I \subseteq items /\ taken.full \in BOOLEAN
    BY <2>7
  <2> HIDE DEF I
  <2>9. \A k \in K : \E i \in I : i.key = k
    BY <1>3, <2>3, <2>7
  <2>10. taken.full <=> I # items
    BY <2>5, <2>6, <2>7, <2>8
  <2>11. \A out \in items \ I :
            TextBytes({i \in I : i.key \in K \/ Precedes(i, out, focus)} \cup {out}) > budget
    <3> TAKE out \in items \ I
    <3>1. PICK m \in 1..Len(ranked) : ranked[m] = out
      BY <2>5, <2>7
    <3>2. {i \in I : i.key \in K \/ Precedes(i, out, focus)}
             = {i \in I : i \in required \/ Precedes(i, ranked[m], focus)}
      BY <2>3, <2>8, <3>1
    <3>. QED  BY <2>7, <3>1, <3>2
  <2>12. /\ answer'.op = "project" /\ answer'.focus = focus /\ answer'.budget = budget
         /\ answer'.required = K /\ answer'.items = I /\ answer'.truncated = taken.full
    BY <1>3 DEF I
  <2>. QED  BY <1>1, <2>7, <2>9, <2>10, <2>11, <2>12 DEF AnswersAreBest
<1>. QED  BY <1>2, <1>3 DEF Project

\* A read returns the first of the sorted matches.
LEMMA ReadBest ==
    ASSUME ContextInv, NEW query, NEW keys, NEW limit \in Nat, Read(query, keys, limit)
    PROVE  AnswersAreBest'
<1> DEFINE M == {i \in items : /\ keys = {} \/ i.key \in keys
                               /\ query = {} \/ Relevance(i, query) > 0}
           s == Ranked(M, query)
           n == Min({limit, Len(s)})
           t == SubSeq(s, 1, n)
<1>1. answer' = [op |-> "read", query |-> query, matches |-> M, limit |-> limit, items |-> t]
  BY DEF Read
<1>2. M \subseteq HeldItem /\ IsFiniteSet(M) /\ Distinct(M)
  <2>1. M \subseteq items /\ items \subseteq HeldItem /\ IsFiniteSet(items) /\ Distinct(items)
    BY DEF ContextInv
  <2>. QED  BY <2>1, FS_Subset DEF Distinct
<1>3. s = Ranked(M, query)
  OBVIOUS
<1> HIDE DEF M, s
<1>4. s \in Seq(M) /\ Len(s) = Cardinality(M)
  BY <1>2, <1>3, Sorted
<1>5. \A i \in M : \E m \in 1..Len(s) : s[m] = i
  BY <1>2, <1>3, Sorted
<1>6. \A m, k \in 1..Len(s) : m < k => Precedes(s[m], s[k], query)
  BY <1>2, <1>3, Sorted
<1>7. n \in 0..Len(s) /\ n = Min({limit, Cardinality(M)})
  <2>1. Len(s) \in Nat
    BY <1>4
  <2>2. /\ Min({limit, Len(s)}) \in {limit, Len(s)}
        /\ Min({limit, Len(s)}) <= limit /\ Min({limit, Len(s)}) <= Len(s)
    BY <2>1, Smaller
  <2>. QED  BY <1>4, <2>1, <2>2
<1> HIDE DEF n
<1>8. \A m \in 1..n : m \in 1..Len(s) /\ s[m] \in M
  <2>1. Len(s) \in Nat
    BY <1>4
  <2>2. \A m \in 1..n : m \in 1..Len(s)
    BY <1>7, <2>1
  <2>. QED  BY <1>4, <2>2
<1>9. t \in Seq(M) /\ Len(t) = n /\ DOMAIN t = 1..n /\ \A m \in 1..n : t[m] = s[m]
  <2>1. n \in Int /\ n >= 0 /\ n - 1 + 1 = n
    BY <1>4, <1>7
  <2>2. /\ t \in Seq(M)
        /\ Len(t) = IF 1 <= n THEN n - 1 + 1 ELSE 0
        /\ \A m \in 1..(n - 1 + 1) : t[m] = s[1 + m - 1]
    BY <1>8, <2>1, SubSeqProperties
  <2> HIDE DEF t
  <2>3. Len(t) = n
    BY <2>1, <2>2
  <2>4. \A m \in 1..n : t[m] = s[m]
    <3> TAKE m \in 1..n
    <3>1. 1 + m - 1 = m /\ m \in 1..(n - 1 + 1)
      BY <2>1
    <3>. QED  BY <2>2, <3>1
  <2>. QED  BY <2>2, <2>3, <2>4
<1> HIDE DEF t
<1>10. \A m, k \in DOMAIN t : m < k => Precedes(t[m], t[k], query)
  BY <1>6, <1>8, <1>9
<1>11. \A out \in M \ ToSet(t) : \A m \in DOMAIN t : Precedes(t[m], out, query)
  <2> TAKE out \in M \ ToSet(t)
  <2> TAKE m \in DOMAIN t
  <2>1. PICK k \in 1..Len(s) : s[k] = out
    BY <1>5
  <2>2. k \notin 1..n
    BY <1>9, <2>1 DEF ToSet
  <2>3. m \in 1..n /\ m \in 1..Len(s) /\ t[m] = s[m]
    BY <1>8, <1>9
  <2>4. m < k
    BY <1>4, <1>7, <2>2, <2>3
  <2>. QED  BY <1>6, <2>1, <2>3, <2>4
<1>12. /\ answer'.op = "read" /\ answer'.query = query /\ answer'.matches = M
       /\ answer'.limit = limit /\ answer'.items = t
  BY <1>1
<1>13. /\ Len(t) = Min({limit, Cardinality(M)})
       /\ \A m, k \in DOMAIN t : m < k => Precedes(t[m], t[k], query)
       /\ \A out \in M \ ToSet(t) : \A m \in DOMAIN t : Precedes(t[m], out, query)
  BY <1>7, <1>9, <1>10, <1>11
<1>. QED  BY <1>12, <1>13 DEF AnswersAreBest

\* Only a projection or a read gives an answer that must be best, and the memory
\* stays as it was for as long as that answer stands.
LEMMA AnswersInvariance == Spec => []AnswersAreBest
<1>1. AgentInit => AnswersAreBest
  BY DEF AgentInit, ContextInit, NoAnswer, AnswersAreBest
<1>2. ContextInv /\ AnswersAreBest /\ [Next]_vars => AnswersAreBest'
  <2> SUFFICES ASSUME ContextInv, AnswersAreBest, [Next]_vars PROVE AnswersAreBest'
    OBVIOUS
  <2>1. CASE UNCHANGED contextVars
    <3>1. answer' = answer /\ items' = items
      BY <2>1 DEF contextVars, memory
    <3>. QED  BY <3>1 DEF AnswersAreBest
  <2>2. ASSUME answer'.op \in {"write", "gateway", "refused"} PROVE AnswersAreBest'
    BY <2>2 DEF AnswersAreBest
  <2>3. CASE StoneStep
    <3>1. \A query \in Text, keys \in SUBSET Key, limit \in Nat :
             Read(query, keys, limit) => AnswersAreBest'
      BY ReadBest
    <3>2. \A focus \in Text, tokens \in Int : \A keys :
             Project(focus, tokens, keys) => AnswersAreBest'
      BY ProjectBest
    <3>3. \A tokens \in 0..(MaxTokens + 1) : tokens \in Int
      OBVIOUS
    <3>4. \A limit \in 1..Cardinality(Key) : limit \in Nat
      OBVIOUS
    <3>5. \/ \E query \in Text, keys \in SUBSET Key, limit \in 1..Cardinality(Key) :
                Read(query, keys, limit)
          \/ \E focus \in Text, tokens \in 0..(MaxTokens + 1) : \E keys : Project(focus, tokens, keys)
          \/ answer'.op \in {"write", "gateway", "refused"}
      <4>1. \A key, size, text, archived :
               Write(key, size, text, archived) => answer'.op \in {"write", "gateway", "refused"}
        BY DEF Write
      <4>2. \A rev, ok : CallGateway(rev, 0, ok) => answer'.op \in {"write", "gateway", "refused"}
        BY DEF CallGateway
      <4>. QED  BY <2>3, <4>1, <4>2, Zenon DEF StoneStep
    <3>. QED  BY <2>2, <3>1, <3>2, <3>3, <3>4, <3>5
  <2>4. UNCHANGED contextVars \/ StoneStep
    BY DEF Next, NoGateway, StartRound, ModelAnswers, NextAction, NoAction, FileTool, StoneTool,
           LinuxTool, RunEnds, TerminateActiveRun, ToolResult, vars
  <2>. QED  BY <2>1, <2>3, <2>4
<1>. QED  BY <1>1, <1>2, ContextInvariance, PTL DEF Spec

-----------------------------------------------------------------------------
\* The state of an episode is well typed, however long it goes on.
THEOREM AgentIsTyped == Spec => []AgentTypeOK
BY AgentInvariance, PTL DEF AgentInv

\* react shows the model no run as still running that it did not stop or fail to
\* stop, whatever is done at the Gateway and whichever replies are lost.
THEOREM ReportedRunsAreStopped == Spec => []RunsAreStopped
<1>1. AgentInv => RunsAreStopped
  BY DEF AgentInv, AllAccounted, Accounted, RunsAreStopped
<1>. QED  BY <1>1, AgentInvariance, PTL

\* The trace of an AgentSession pairs calls and results, its counts are those of the
\* AgentRunResult and within max_rounds and max_turns, the episode ends once, and each
\* request shows the model every answer and result so far, however many rounds there
\* are.
THEOREM EpisodesAddUp == Spec => []EpisodeAccounts
<1>1. AgentInv /\ EpisodeInv => EpisodeAccounts
  <2> SUFFICES ASSUME AgentInv, EpisodeInv PROVE EpisodeAccounts
    OBVIOUS
  <2>1. Story(trace) /\ rounds = Count(trace, {"model_request"})
        /\ turns = Count(trace, {"tool_call", "agent_final"})
    BY DEF EpisodeInv, Counted
  <2>2. /\ limits[1] > 0 => rounds <= limits[1]
        /\ limits[2] > 0 => turns <= limits[2]
    BY DEF EpisodeInv, Within
  <2>3. phase = "request" => Shows(trace, messages)
    <3>1. control \in {"react", "scripted"}
      BY DEF AgentInv, AgentTypeOK
    <3>. QED  BY <3>1 DEF EpisodeInv
  <2>4. result.done <=> trace[Len(trace)].event = "episode_end"
    <3>1. phase \in Phase
      BY DEF AgentInv, AgentTypeOK
    <3>2. phase = "done" <=> Last(trace).event = "episode_end"
      BY <3>1 DEF EpisodeInv, Standing, Phase
    <3>3. phase = "done" <=> result.done
      BY DEF EpisodeInv, Concluded
    <3>. QED  BY <3>2, <3>3 DEF Last
  <2>5. result.done => Concluded(trace, rounds, turns, result)
    BY DEF EpisodeInv
  <2>6. \A i \in DOMAIN trace :
           /\ trace[i].event = "tool_call" /\ i < Len(trace) => trace[i + 1].event = "tool_result"
           /\ trace[i].event = "tool_result" => trace[i - 1].event = "tool_call"
           /\ trace[i].event = "episode_end" => i = Len(trace)
    BY <2>1 DEF Story
  <2>. QED  BY <2>1, <2>2, <2>3, <2>4, <2>5, <2>6 DEF EpisodeAccounts, Concluded
<1>. QED  BY <1>1, AgentInvariance, EpisodeInvariance, PTL

\* What ContextState::write counts is what it holds, within each of its limits, and
\* it holds of each key what was last written, over any sequence of calls of any
\* sizes and of switches to the Gateway's memory.
THEOREM MemoryIsAccounted == Spec => []MemoryIsKept
BY ContextInvariance, PTL DEF ContextInv

\* What ContextState::project leaves out would not fit its budget, not even without
\* what ranks below it, and ContextState::read returns the best matches, best first,
\* for any texts, sizes, budgets and limits.
THEOREM BestIsAnswered == Spec => []AnswersAreBest
BY AnswersInvariance
=============================================================================
