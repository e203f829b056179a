-------------------------- MODULE Processes_proofs --------------------------
(***************************************************************************)
(* Proofs about external processes, for any number of processes and ids,   *)
(* both backends, any faults, timeouts and slices.                         *)
(***************************************************************************)
EXTENDS Processes, TLAPS

-----------------------------------------------------------------------------
(* The inductive invariant *)

Held(x) == state[x] \in {"running", "over"}

RequestSteps == {"observe", "look", "terminate"}
ChildSteps == {"feed", "poll", "expire", "kill", "reap"}
ReadSteps == {"read", "read late"}
DaemonSteps == {"stopping", "kill daemon", "judge"}

\* What the call being made has in hand: a request is about a run that started, a
\* child of run() is reaped only between poll() and reading its output and is in
\* nobody else's hands, a daemon is one the program has a handle of.
CallInv ==
  /\ step \in RequestSteps => backend = "gateway" /\ Held(target)
  /\ step \in ChildSteps => backend = "local" /\ Held(target) /\ target \notin handles
  /\ step \in ReadSteps =>
       backend = "local" /\ state[target] = "reaped" /\ target \notin handles
  /\ step \in DaemonSteps => backend = "local" /\ target \in handles

\* Once it gives up, a call has spent its timeout.
SpentInv ==
  step \in {"kill", "reap", "read late"} \/ (step = "terminate" /\ verb = "complete")
    => clock >= Ticks(limit)

\* Handles are of processes that started and are never reaped; they have no capture
\* files, which are for children of run().
OwnInv ==
  /\ \A x \in Proc : state[x] = "none" => x \notin handles \cup files
  /\ handles \cap files = {}
  /\ backend = "gateway" => files = {}
  /\ \A x \in handles : Held(x)

\* A process keeps its id until it is reaped, and nobody else has it.
PidInv ==
  backend = "local" =>
    \A x \in Proc : Held(x) =>
      pid[x] \in Pid \ foreign /\ \A y \in Proc \ {x} : Held(y) => pid[y] # pid[x]

\* Every step keeps the types.
LEMMA TypesNext ==
    ASSUME ProcessTypeOK, [Next]_vars
    PROVE  ProcessTypeOK'
<1>1. ASSUME NEW x \in Proc, NEW timeout \in Timeouts, NEW kind \in {"run", "background", "complete"}, Exec(kind, x, timeout) PROVE ProcessTypeOK'
  BY <1>1, TimeAssumption, BackendsAssumption DEF Exec, Begin, ProcessTypeOK, machine, Kinds, Steps, Answers, call, Idle, End, Failure, Ticks, Least
<1>2. ASSUME NEW x \in Proc, NEW p \in Pid, NEW timeout \in Timeouts, NEW fed \in BOOLEAN, RunLocal(x, p, timeout, fed) PROVE ProcessTypeOK'
  BY <1>2, TimeAssumption, BackendsAssumption DEF RunLocal, Fork, Free, Begin, ProcessTypeOK, machine, Kinds, Steps, Answers, call, Idle, End, Failure, Ticks
<1>3. ASSUME NEW x \in Proc, NEW timeout \in Timeouts, Stop(x, timeout) PROVE ProcessTypeOK'
  BY <1>3, TimeAssumption, BackendsAssumption DEF Stop, Signal, Begin, ProcessTypeOK, machine, Kinds, Steps, Answers, call, Idle, End, Failure, Ticks
<1>4. ASSUME NEW x \in Proc, NEW timeout \in Timeouts \cup {0}, Observe(x, timeout) PROVE ProcessTypeOK'
  BY <1>4, TimeAssumption, BackendsAssumption DEF Observe, Begin, ProcessTypeOK, machine, Kinds, Steps, Answers, call, Idle, End, Failure, Ticks
<1>5. ASSUME NEW x \in Proc, Terminate(x) PROVE ProcessTypeOK'
  BY <1>5, TimeAssumption, BackendsAssumption DEF Terminate, Begin, ProcessTypeOK, machine, Kinds, Steps, Answers, call, Idle, End, Failure, Ticks
<1>6. ASSUME NEW x \in Proc, NEW p \in Pid, StartDaemon(x, p) PROVE ProcessTypeOK'
  BY <1>6, TimeAssumption, BackendsAssumption DEF StartDaemon, Fork, Free, ProcessTypeOK, machine, Kinds, Steps, Answers, call, Idle, End, Failure, Ticks
<1>7. ASSUME Observed PROVE ProcessTypeOK'
  <2>1. /\ verb' \in Kinds /\ step' \in Steps /\ target' \in Proc \cup {None}
        /\ limit' \in Nat /\ deadline' \in Nat \cup {None}
        /\ (Idle => target = None)' /\ (~Idle => target \in Proc)'
    <3>1. CASE End
      BY <3>1 DEF End, ProcessTypeOK, Kinds, Steps, Idle
    <3>2. CASE Step("look")
      BY <3>2, <1>7 DEF Observed, Step, ProcessTypeOK, Steps, Idle
    <3>. QED
      BY <1>7, <3>1, <3>2 DEF Observed, Return
  <2>2. /\ told' \in [kind : Answers, proc : Proc \cup {None}, spent : Nat, timeout : Nat]
        /\ told'.kind \in {"done", "timeout", "stopped"} => told'.proc \in Proc
    BY <1>7, TimeAssumption DEF Observed, Step, Return, ProcessTypeOK, Idle, Answers, Ticks
  <2>3. handles' \subseteq Proc
    BY <1>7 DEF Observed, ProcessTypeOK, Idle
  <2>. QED
    BY <1>7, <2>1, <2>2, <2>3 DEF Observed, ProcessTypeOK, machine
<1>8. ASSUME Look PROVE ProcessTypeOK'
  <2>1. PICK ms \in Nat : Step("terminate") \/ Wait(ms)
    <3>1. limit * Millisecond - clock \in Int
      BY TimeAssumption DEF ProcessTypeOK
    <3>2. ASSUME limit * Millisecond - clock > 0
          PROVE  Least((limit * Millisecond - clock) \div Millisecond, Slice) \in Nat
      BY <3>1, <3>2, TimeAssumption DEF Least
    <3>. QED
      BY <1>8, <3>1, <3>2 DEF Look, Ticks
  <2>2. clock + Ticks(ms) \in Nat
    BY TimeAssumption DEF ProcessTypeOK, Ticks
  <2>3. /\ verb' \in Kinds /\ step' \in Steps /\ target' \in Proc \cup {None}
        /\ limit' \in Nat /\ deadline' \in Nat \cup {None}
        /\ (Idle => target = None)' /\ (~Idle => target \in Proc)'
    BY <1>8, <2>1, <2>2 DEF Look, Step, Wait, ProcessTypeOK, Steps, Idle
  <2>. QED
    BY <1>8, <2>3 DEF Look, ProcessTypeOK, machine
<1>9. ASSUME Terminated PROVE ProcessTypeOK'
  BY <1>9, TimeAssumption, BackendsAssumption DEF Terminated, Return, ProcessTypeOK, machine, Kinds, Steps, Answers, call, Idle, End, Failure, Ticks
<1>10. ASSUME Poll PROVE ProcessTypeOK'
  BY <1>10, TimeAssumption, BackendsAssumption DEF Poll, Reaped, Step, ProcessTypeOK, machine, Kinds, Steps, Answers, call, Idle, End, Failure, Ticks
<1>11. ASSUME Expire PROVE ProcessTypeOK'
  BY <1>11, TimeAssumption, BackendsAssumption DEF Expire, Step, ProcessTypeOK, machine, Kinds, Steps, Answers, call, Idle, End, Failure, Ticks
<1>12. ASSUME Kill PROVE ProcessTypeOK'
  BY <1>12, TimeAssumption, BackendsAssumption DEF Kill, Signal, Step, ProcessTypeOK, machine, Kinds, Steps, Answers, call, Idle, End, Failure, Ticks
<1>13. ASSUME Reap PROVE ProcessTypeOK'
  BY <1>13, TimeAssumption, BackendsAssumption DEF Reap, Reaped, Step, ProcessTypeOK, machine, Kinds, Steps, Answers, call, Idle, End, Failure, Ticks
<1>14. ASSUME Read PROVE ProcessTypeOK'
  <2>1. /\ verb' \in Kinds /\ step' \in Steps /\ target' \in Proc \cup {None}
        /\ limit' \in Nat /\ deadline' \in Nat \cup {None}
        /\ (Idle => target = None)' /\ (~Idle => target \in Proc)'
    <3>1. End
      BY <1>14 DEF Read, Return, Raise
    <3>. QED
      BY <3>1 DEF End, ProcessTypeOK, Kinds, Steps, Idle
  <2>2. /\ told' \in [kind : Answers, proc : Proc \cup {None}, spent : Nat, timeout : Nat]
        /\ told'.kind \in {"done", "timeout", "stopped"} => told'.proc \in Proc
    <3>1. CASE told' = Failure
      BY <3>1 DEF Failure, Answers
    <3>2. CASE Return(IF step = "read" THEN "done" ELSE "timeout")
      <4>1. target \in Proc /\ clock \in Nat /\ Ticks(limit) \in Nat
        <5>1. ~Idle
          BY <1>14 DEF Read, Idle
        <5>2. clock \in Nat /\ limit * Millisecond \in Nat
          BY TimeAssumption DEF ProcessTypeOK
        <5>. QED
          BY <5>1, <5>2 DEF ProcessTypeOK, Ticks
      <4>2. PICK kind \in {"done", "timeout"} : Return(kind)
        BY <3>2
      <4>3. told' = [kind |-> kind, proc |-> target, spent |-> clock, timeout |-> Ticks(limit)]
        BY <4>2 DEF Return
      <4>. QED
        BY <4>1, <4>3 DEF Answers
    <3>. QED
      BY <1>14, <3>1, <3>2 DEF Read, Raise
  <2>3. raised' \subseteq Proc /\ files' \subseteq Proc
    BY <1>14 DEF Read, Raise, ProcessTypeOK, Idle
  <2>. QED
    BY <1>14, <2>1, <2>2, <2>3 DEF Read, ProcessTypeOK, machine
<1>15. ASSUME AwaitStop PROVE ProcessTypeOK'
  <2>1. step = "stopping" /\ step' \in {"kill daemon", "judge"}
    BY <1>15 DEF AwaitStop, Step
  <2>2. UNCHANGED <<backend, machine, handles, raised, files, clock, told, verb, target, limit, deadline>>
    BY <1>15 DEF AwaitStop, Step
  <2>. QED  BY <2>1, <2>2 DEF ProcessTypeOK, machine, Steps, Idle
<1>16. ASSUME KillDaemon PROVE ProcessTypeOK'
  BY <1>16, TimeAssumption, BackendsAssumption DEF KillDaemon, Signal, Step, ProcessTypeOK, machine, Kinds, Steps, Answers, call, Idle, End, Failure, Ticks
<1>17. ASSUME Judge PROVE ProcessTypeOK'
  BY <1>17, TimeAssumption, BackendsAssumption DEF Judge, Return, ProcessTypeOK, machine, Kinds, Steps, Answers, call, Idle, End, Failure, Ticks
<1>18. ASSUME NEW x \in Proc, Exits(x) PROVE ProcessTypeOK'
  BY <1>18 DEF Exits, ProcessTypeOK, Idle, call
<1>19. ASSUME NEW p \in Pid, ForeignStarts(p) PROVE ProcessTypeOK'
  BY <1>19 DEF ForeignStarts, ProcessTypeOK, Idle, call
<1>20. ASSUME NEW p \in Pid, ForeignEnds(p) PROVE ProcessTypeOK'
  BY <1>20 DEF ForeignEnds, ProcessTypeOK, Idle, call
<1>21. ASSUME ExecRefused PROVE ProcessTypeOK'
  BY <1>21, TimeAssumption, BackendsAssumption DEF ExecRefused, ProcessTypeOK, machine, Kinds, Steps, Answers, call, Idle, End, Failure, Ticks
<1>22. ASSUME RequestFails PROVE ProcessTypeOK'
  BY <1>22, TimeAssumption, BackendsAssumption DEF RequestFails, Raise, ProcessTypeOK, machine, Kinds, Steps, Answers, call, Idle, End, Failure, Ticks
<1>23. ASSUME SpawnFails PROVE ProcessTypeOK'
  BY <1>23, TimeAssumption, BackendsAssumption DEF SpawnFails, ProcessTypeOK, machine, Kinds, Steps, Answers, call, Idle, End, Failure, Ticks
<1>24. ASSUME Fed PROVE ProcessTypeOK'
  BY <1>24, TimeAssumption, BackendsAssumption DEF Fed, Step, ProcessTypeOK, machine, Kinds, Steps, Answers, call, Idle, End, Failure, Ticks
<1>25. ASSUME FeedFails PROVE ProcessTypeOK'
  BY <1>25, TimeAssumption, BackendsAssumption DEF FeedFails, Raise, ProcessTypeOK, machine, Kinds, Steps, Answers, call, Idle, End, Failure, Ticks
<1>26. ASSUME Tick PROVE ProcessTypeOK'
  BY <1>26, TimeAssumption DEF Tick, ProcessTypeOK, Idle, call, machine
<1>27. CASE UNCHANGED vars
  BY <1>27 DEF vars, ProcessTypeOK, Idle, call, machine
<1>. QED
  BY <1>1, <1>2, <1>3, <1>4, <1>5, <1>6, <1>7, <1>8, <1>9, <1>10, <1>11, <1>12, <1>13, <1>14, <1>15, <1>16, <1>17, <1>18, <1>19, <1>20, <1>21, <1>22, <1>23, <1>24, <1>25, <1>26, <1>27
     DEF Next, Program, Serve, Environment

\* What a call has in hand stays in its hands.
LEMMA CallNext ==
    ASSUME ProcessTypeOK, CallInv, OwnInv, [Next]_vars
    PROVE  CallInv'
<1>1. ASSUME NEW x \in Proc, NEW timeout \in Timeouts, NEW kind \in {"run", "background", "complete"}, Exec(kind, x, timeout) PROVE CallInv'
  BY <1>1, TimeAssumption DEF Exec, Begin, ProcessTypeOK, CallInv, OwnInv, Held, RequestSteps, ChildSteps, ReadSteps, DaemonSteps, machine, call, Idle, End, Failure, Ticks
<1>2. ASSUME NEW x \in Proc, NEW p \in Pid, NEW timeout \in Timeouts, NEW fed \in BOOLEAN, RunLocal(x, p, timeout, fed) PROVE CallInv'
  BY <1>2, TimeAssumption DEF RunLocal, Fork, Free, Begin, ProcessTypeOK, CallInv, OwnInv, Held, RequestSteps, ChildSteps, ReadSteps, DaemonSteps, machine, call, Idle, End, Failure, Ticks
<1>3. ASSUME NEW x \in Proc, NEW timeout \in Timeouts, Stop(x, timeout) PROVE CallInv'
  BY <1>3, TimeAssumption DEF Stop, Signal, Begin, ProcessTypeOK, CallInv, OwnInv, Held, RequestSteps, ChildSteps, ReadSteps, DaemonSteps, machine, call, Idle, End, Failure, Ticks
<1>4. ASSUME NEW x \in Proc, NEW timeout \in Timeouts \cup {0}, Observe(x, timeout) PROVE CallInv'
  BY <1>4 DEF Observe, Begin, ProcessTypeOK, CallInv, OwnInv, Held, RequestSteps, ChildSteps, ReadSteps, DaemonSteps, machine
<1>5. ASSUME NEW x \in Proc, Terminate(x) PROVE CallInv'
  BY <1>5 DEF Terminate, Begin, ProcessTypeOK, CallInv, OwnInv, Held, RequestSteps, ChildSteps, ReadSteps, DaemonSteps, machine
<1>6. ASSUME NEW x \in Proc, NEW p \in Pid, StartDaemon(x, p) PROVE CallInv'
  BY <1>6, TimeAssumption DEF StartDaemon, Fork, Free, ProcessTypeOK, CallInv, OwnInv, Held, RequestSteps, ChildSteps, ReadSteps, DaemonSteps, machine, call, Idle, End, Failure, Ticks
<1>7. ASSUME Observed PROVE CallInv'
  BY <1>7, TimeAssumption DEF Observed, Step, Return, ProcessTypeOK, CallInv, OwnInv, Held, RequestSteps, ChildSteps, ReadSteps, DaemonSteps, machine, call, Idle, End, Failure, Ticks
<1>8. ASSUME Look PROVE CallInv'
  BY <1>8, TimeAssumption DEF Look, Wait, Step, ProcessTypeOK, CallInv, OwnInv, Held, RequestSteps, ChildSteps, ReadSteps, DaemonSteps, machine, call, Idle, End, Failure, Ticks
<1>9. ASSUME Terminated PROVE CallInv'
  BY <1>9, TimeAssumption DEF Terminated, Return, ProcessTypeOK, CallInv, OwnInv, Held, RequestSteps, ChildSteps, ReadSteps, DaemonSteps, machine, call, Idle, End, Failure, Ticks
<1>10. ASSUME Poll PROVE CallInv'
  <2>1. target \in Proc /\ backend = "local" /\ Held(target) /\ target \notin handles
    BY <1>10 DEF Poll, CallInv, ProcessTypeOK, Idle, ChildSteps
  <2>2. UNCHANGED <<backend, target, handles>>
    BY <1>10 DEF Poll, Step
  <2>3. CASE state[target] = "over"
    <3>1. state'[target] = "reaped" /\ step' = "read"
      BY <1>10, <2>1, <2>3 DEF Poll, Reaped, Step, ProcessTypeOK
    <3>. QED
      BY <2>1, <2>2, <3>1 DEF CallInv, RequestSteps, ChildSteps, ReadSteps, DaemonSteps
  <2>4. CASE state[target] # "over"
    <3>1. state' = state /\ step' = "expire"
      BY <1>10, <2>4 DEF Poll, Step
    <3>. QED
      BY <2>1, <2>2, <3>1 DEF CallInv, Held, RequestSteps, ChildSteps, ReadSteps, DaemonSteps
  <2>. QED
    BY <2>3, <2>4
<1>11. ASSUME Expire PROVE CallInv'
  BY <1>11, TimeAssumption DEF Expire, Step, ProcessTypeOK, CallInv, OwnInv, Held, RequestSteps, ChildSteps, ReadSteps, DaemonSteps, machine, call, Idle, End, Failure, Ticks
<1>12. ASSUME Kill PROVE CallInv'
  BY <1>12, TimeAssumption DEF Kill, Signal, Step, ProcessTypeOK, CallInv, OwnInv, Held, RequestSteps, ChildSteps, ReadSteps, DaemonSteps, machine, call, Idle, End, Failure, Ticks
<1>13. ASSUME Reap PROVE CallInv'
  BY <1>13, TimeAssumption DEF Reap, Reaped, Step, ProcessTypeOK, CallInv, OwnInv, Held, RequestSteps, ChildSteps, ReadSteps, DaemonSteps, machine, call, Idle, End, Failure, Ticks
<1>14. ASSUME Read PROVE CallInv'
  BY <1>14, TimeAssumption DEF Read, Return, Raise, ProcessTypeOK, CallInv, OwnInv, Held, RequestSteps, ChildSteps, ReadSteps, DaemonSteps, machine, call, Idle, End, Failure, Ticks
<1>15. ASSUME AwaitStop PROVE CallInv'
  BY <1>15, TimeAssumption DEF AwaitStop, Step, ProcessTypeOK, CallInv, OwnInv, Held, RequestSteps, ChildSteps, ReadSteps, DaemonSteps, machine, call, Idle, End, Failure, Ticks
<1>16. ASSUME KillDaemon PROVE CallInv'
  BY <1>16, TimeAssumption DEF KillDaemon, Signal, Step, ProcessTypeOK, CallInv, OwnInv, Held, RequestSteps, ChildSteps, ReadSteps, DaemonSteps, machine, call, Idle, End, Failure, Ticks
<1>17. ASSUME Judge PROVE CallInv'
  BY <1>17, TimeAssumption DEF Judge, Return, ProcessTypeOK, CallInv, OwnInv, Held, RequestSteps, ChildSteps, ReadSteps, DaemonSteps, machine, call, Idle, End, Failure, Ticks
<1>18. ASSUME NEW x \in Proc, Exits(x) PROVE CallInv'
  BY <1>18, TimeAssumption DEF Exits, ProcessTypeOK, CallInv, OwnInv, Held, RequestSteps, ChildSteps, ReadSteps, DaemonSteps, machine, call, Idle, End, Failure, Ticks
<1>19. ASSUME NEW p \in Pid, ForeignStarts(p) PROVE CallInv'
  BY <1>19, TimeAssumption DEF ForeignStarts, Free, ProcessTypeOK, CallInv, OwnInv, Held, RequestSteps, ChildSteps, ReadSteps, DaemonSteps, machine, call, Idle, End, Failure, Ticks
<1>20. ASSUME NEW p \in Pid, ForeignEnds(p) PROVE CallInv'
  BY <1>20, TimeAssumption DEF ForeignEnds, ProcessTypeOK, CallInv, OwnInv, Held, RequestSteps, ChildSteps, ReadSteps, DaemonSteps, machine, call, Idle, End, Failure, Ticks
<1>21. ASSUME ExecRefused PROVE CallInv'
  BY <1>21, TimeAssumption DEF ExecRefused, ProcessTypeOK, CallInv, OwnInv, Held, RequestSteps, ChildSteps, ReadSteps, DaemonSteps, machine, call, Idle, End, Failure, Ticks
<1>22. ASSUME RequestFails PROVE CallInv'
  BY <1>22, TimeAssumption DEF RequestFails, Raise, ProcessTypeOK, CallInv, OwnInv, Held, RequestSteps, ChildSteps, ReadSteps, DaemonSteps, machine, call, Idle, End, Failure, Ticks
<1>23. ASSUME SpawnFails PROVE CallInv'
  BY <1>23, TimeAssumption DEF SpawnFails, ProcessTypeOK, CallInv, OwnInv, Held, RequestSteps, ChildSteps, ReadSteps, DaemonSteps, machine, call, Idle, End, Failure, Ticks
<1>24. ASSUME Fed PROVE CallInv'
  BY <1>24, TimeAssumption DEF Fed, Step, ProcessTypeOK, CallInv, OwnInv, Held, RequestSteps, ChildSteps, ReadSteps, DaemonSteps, machine, call, Idle, End, Failure, Ticks
<1>25. ASSUME FeedFails PROVE CallInv'
  BY <1>25, TimeAssumption DEF FeedFails, Raise, ProcessTypeOK, CallInv, OwnInv, Held, RequestSteps, ChildSteps, ReadSteps, DaemonSteps, machine, call, Idle, End, Failure, Ticks
<1>26. ASSUME Tick PROVE CallInv'
  BY <1>26, TimeAssumption DEF Tick, ProcessTypeOK, CallInv, OwnInv, Held, RequestSteps, ChildSteps, ReadSteps, DaemonSteps, machine, call, Idle, End, Failure, Ticks
<1>27. CASE UNCHANGED vars
  BY <1>27 DEF vars, ProcessTypeOK, CallInv, OwnInv, Held, RequestSteps, ChildSteps, ReadSteps, DaemonSteps, machine, call, Idle, End, Failure, Ticks
<1>. QED
  BY <1>1, <1>2, <1>3, <1>4, <1>5, <1>6, <1>7, <1>8, <1>9, <1>10, <1>11, <1>12, <1>13, <1>14, <1>15, <1>16, <1>17, <1>18, <1>19, <1>20, <1>21, <1>22, <1>23, <1>24, <1>25, <1>26, <1>27
     DEF Next, Program, Serve, Environment

\* A call gives up only when its time is over, and time does not go back.
LEMMA SpentNext ==
    ASSUME ProcessTypeOK, SpentInv, [Next]_vars
    PROVE  SpentInv'
<1>1. ASSUME NEW x \in Proc, NEW timeout \in Timeouts, NEW kind \in {"run", "background", "complete"}, Exec(kind, x, timeout) PROVE SpentInv'
  BY <1>1, TimeAssumption DEF Exec, Begin, ProcessTypeOK, SpentInv, machine, call, Idle, End, Failure, Ticks
<1>2. ASSUME NEW x \in Proc, NEW p \in Pid, NEW timeout \in Timeouts, NEW fed \in BOOLEAN, RunLocal(x, p, timeout, fed) PROVE SpentInv'
  BY <1>2, TimeAssumption DEF RunLocal, Fork, Free, Begin, ProcessTypeOK, SpentInv, machine, call, Idle, End, Failure, Ticks
<1>3. ASSUME NEW x \in Proc, NEW timeout \in Timeouts, Stop(x, timeout) PROVE SpentInv'
  BY <1>3, TimeAssumption DEF Stop, Signal, Begin, ProcessTypeOK, SpentInv, machine, call, Idle, End, Failure, Ticks
<1>4. ASSUME NEW x \in Proc, NEW timeout \in Timeouts \cup {0}, Observe(x, timeout) PROVE SpentInv'
  BY <1>4, TimeAssumption DEF Observe, Begin, ProcessTypeOK, SpentInv, machine, call, Idle, End, Failure, Ticks
<1>5. ASSUME NEW x \in Proc, Terminate(x) PROVE SpentInv'
  BY <1>5, TimeAssumption DEF Terminate, Begin, ProcessTypeOK, SpentInv, machine, call, Idle, End, Failure, Ticks
<1>6. ASSUME NEW x \in Proc, NEW p \in Pid, StartDaemon(x, p) PROVE SpentInv'
  BY <1>6, TimeAssumption DEF StartDaemon, Fork, Free, ProcessTypeOK, SpentInv, machine, call, Idle, End, Failure, Ticks
<1>7. ASSUME Observed PROVE SpentInv'
  BY <1>7, TimeAssumption DEF Observed, Step, Return, ProcessTypeOK, SpentInv, machine, call, Idle, End, Failure, Ticks
<1>8. ASSUME Look PROVE SpentInv'
  <2>1. limit * Millisecond \in Nat /\ clock \in Nat
    BY TimeAssumption DEF ProcessTypeOK
  <2>2. UNCHANGED <<limit, clock>>
    BY <1>8 DEF Look, Step, Wait
  <2>3. CASE limit * Millisecond - clock <= 0
    <3>1. clock >= limit * Millisecond
      BY <2>1, <2>3
    <3>. QED
      BY <2>2, <3>1 DEF SpentInv, Ticks
  <2>4. CASE ~(limit * Millisecond - clock <= 0)
    <3>1. step' = "observe"
      BY <1>8, <2>4 DEF Look, Wait, Ticks
    <3>. QED
      BY <3>1 DEF SpentInv
  <2>. QED
    BY <2>3, <2>4
<1>9. ASSUME Terminated PROVE SpentInv'
  BY <1>9, TimeAssumption DEF Terminated, Return, ProcessTypeOK, SpentInv, machine, call, Idle, End, Failure, Ticks
<1>10. ASSUME Poll PROVE SpentInv'
  BY <1>10, TimeAssumption DEF Poll, Reaped, Step, ProcessTypeOK, SpentInv, machine, call, Idle, End, Failure, Ticks
<1>11. ASSUME Expire PROVE SpentInv'
  BY <1>11, TimeAssumption DEF Expire, Step, ProcessTypeOK, SpentInv, machine, call, Idle, End, Failure, Ticks
<1>12. ASSUME Kill PROVE SpentInv'
  BY <1>12, TimeAssumption DEF Kill, Signal, Step, ProcessTypeOK, SpentInv, machine, call, Idle, End, Failure, Ticks
<1>13. ASSUME Reap PROVE SpentInv'
  BY <1>13, TimeAssumption DEF Reap, Reaped, Step, ProcessTypeOK, SpentInv, machine, call, Idle, End, Failure, Ticks
<1>14. ASSUME Read PROVE SpentInv'
  BY <1>14, TimeAssumption DEF Read, Return, Raise, ProcessTypeOK, SpentInv, machine, call, Idle, End, Failure, Ticks
<1>15. ASSUME AwaitStop PROVE SpentInv'
  BY <1>15, TimeAssumption DEF AwaitStop, Step, ProcessTypeOK, SpentInv, machine, call, Idle, End, Failure, Ticks
<1>16. ASSUME KillDaemon PROVE SpentInv'
  BY <1>16, TimeAssumption DEF KillDaemon, Signal, Step, ProcessTypeOK, SpentInv, machine, call, Idle, End, Failure, Ticks
<1>17. ASSUME Judge PROVE SpentInv'
  BY <1>17, TimeAssumption DEF Judge, Return, ProcessTypeOK, SpentInv, machine, call, Idle, End, Failure, Ticks
<1>18. ASSUME NEW x \in Proc, Exits(x) PROVE SpentInv'
  BY <1>18, TimeAssumption DEF Exits, ProcessTypeOK, SpentInv, machine, call, Idle, End, Failure, Ticks
<1>19. ASSUME NEW p \in Pid, ForeignStarts(p) PROVE SpentInv'
  BY <1>19, TimeAssumption DEF ForeignStarts, Free, ProcessTypeOK, SpentInv, machine, call, Idle, End, Failure, Ticks
<1>20. ASSUME NEW p \in Pid, ForeignEnds(p) PROVE SpentInv'
  BY <1>20, TimeAssumption DEF ForeignEnds, ProcessTypeOK, SpentInv, machine, call, Idle, End, Failure, Ticks
<1>21. ASSUME ExecRefused PROVE SpentInv'
  BY <1>21, TimeAssumption DEF ExecRefused, ProcessTypeOK, SpentInv, machine, call, Idle, End, Failure, Ticks
<1>22. ASSUME RequestFails PROVE SpentInv'
  BY <1>22, TimeAssumption DEF RequestFails, Raise, ProcessTypeOK, SpentInv, machine, call, Idle, End, Failure, Ticks
<1>23. ASSUME SpawnFails PROVE SpentInv'
  BY <1>23, TimeAssumption DEF SpawnFails, ProcessTypeOK, SpentInv, machine, call, Idle, End, Failure, Ticks
<1>24. ASSUME Fed PROVE SpentInv'
  BY <1>24, TimeAssumption DEF Fed, Step, ProcessTypeOK, SpentInv, machine, call, Idle, End, Failure, Ticks
<1>25. ASSUME FeedFails PROVE SpentInv'
  BY <1>25, TimeAssumption DEF FeedFails, Raise, ProcessTypeOK, SpentInv, machine, call, Idle, End, Failure, Ticks
<1>26. ASSUME Tick PROVE SpentInv'
  <2>1. limit * Millisecond \in Nat /\ clock \in Nat
    BY TimeAssumption DEF ProcessTypeOK
  <2>2. UNCHANGED <<verb, step, limit>> /\ clock' = clock + 1
    BY <1>26 DEF Tick, call
  <2>3. CASE clock >= limit * Millisecond
    <3>1. clock + 1 >= limit * Millisecond
      BY <2>1, <2>3
    <3>. QED
      BY <2>2, <3>1 DEF SpentInv, Ticks
  <2>4. CASE ~(clock >= limit * Millisecond)
    BY <2>2, <2>4 DEF SpentInv, Ticks
  <2>. QED
    BY <2>3, <2>4
<1>27. CASE UNCHANGED vars
  BY <1>27 DEF vars, ProcessTypeOK, SpentInv, machine, call, Idle, End, Failure, Ticks
<1>. QED
  BY <1>1, <1>2, <1>3, <1>4, <1>5, <1>6, <1>7, <1>8, <1>9, <1>10, <1>11, <1>12, <1>13, <1>14, <1>15, <1>16, <1>17, <1>18, <1>19, <1>20, <1>21, <1>22, <1>23, <1>24, <1>25, <1>26, <1>27
     DEF Next, Program, Serve, Environment

\* No step hands out a process twice.
LEMMA OwnNext ==
    ASSUME ProcessTypeOK, CallInv, OwnInv, [Next]_vars
    PROVE  OwnInv'
<1>1. ASSUME NEW x \in Proc, NEW timeout \in Timeouts, NEW kind \in {"run", "background", "complete"}, Exec(kind, x, timeout) PROVE OwnInv'
  BY <1>1, TimeAssumption DEF Exec, Begin, ProcessTypeOK, CallInv, OwnInv, Held, RequestSteps, ChildSteps, ReadSteps, DaemonSteps, machine, call, Idle, End, Failure, Ticks
<1>2. ASSUME NEW x \in Proc, NEW p \in Pid, NEW timeout \in Timeouts, NEW fed \in BOOLEAN, RunLocal(x, p, timeout, fed) PROVE OwnInv'
  BY <1>2, TimeAssumption DEF RunLocal, Fork, Free, Begin, ProcessTypeOK, CallInv, OwnInv, Held, RequestSteps, ChildSteps, ReadSteps, DaemonSteps, machine, call, Idle, End, Failure, Ticks
<1>3. ASSUME NEW x \in Proc, NEW timeout \in Timeouts, Stop(x, timeout) PROVE OwnInv'
  BY <1>3, TimeAssumption DEF Stop, Signal, Begin, ProcessTypeOK, CallInv, OwnInv, Held, RequestSteps, ChildSteps, ReadSteps, DaemonSteps, machine, call, Idle, End, Failure, Ticks
<1>4. ASSUME NEW x \in Proc, NEW timeout \in Timeouts \cup {0}, Observe(x, timeout) PROVE OwnInv'
  BY <1>4, TimeAssumption DEF Observe, Begin, ProcessTypeOK, CallInv, OwnInv, Held, RequestSteps, ChildSteps, ReadSteps, DaemonSteps, machine, call, Idle, End, Failure, Ticks
<1>5. ASSUME NEW x \in Proc, Terminate(x) PROVE OwnInv'
  BY <1>5, TimeAssumption DEF Terminate, Begin, ProcessTypeOK, CallInv, OwnInv, Held, RequestSteps, ChildSteps, ReadSteps, DaemonSteps, machine, call, Idle, End, Failure, Ticks
<1>6. ASSUME NEW x \in Proc, NEW p \in Pid, StartDaemon(x, p) PROVE OwnInv'
  BY <1>6, TimeAssumption DEF StartDaemon, Fork, Free, ProcessTypeOK, CallInv, OwnInv, Held, RequestSteps, ChildSteps, ReadSteps, DaemonSteps, machine, call, Idle, End, Failure, Ticks
<1>7. ASSUME Observed PROVE OwnInv'
  BY <1>7, TimeAssumption DEF Observed, Step, Return, ProcessTypeOK, CallInv, OwnInv, Held, RequestSteps, ChildSteps, ReadSteps, DaemonSteps, machine, call, Idle, End, Failure, Ticks
<1>8. ASSUME Look PROVE OwnInv'
  BY <1>8, TimeAssumption DEF Look, Wait, Step, ProcessTypeOK, CallInv, OwnInv, Held, RequestSteps, ChildSteps, ReadSteps, DaemonSteps, machine, call, Idle, End, Failure, Ticks
<1>9. ASSUME Terminated PROVE OwnInv'
  BY <1>9, TimeAssumption DEF Terminated, Return, ProcessTypeOK, CallInv, OwnInv, Held, RequestSteps, ChildSteps, ReadSteps, DaemonSteps, machine, call, Idle, End, Failure, Ticks
<1>10. ASSUME Poll PROVE OwnInv'
  BY <1>10, TimeAssumption DEF Poll, Reaped, Step, ProcessTypeOK, CallInv, OwnInv, Held, RequestSteps, ChildSteps, ReadSteps, DaemonSteps, machine, call, Idle, End, Failure, Ticks
<1>11. ASSUME Expire PROVE OwnInv'
  BY <1>11, TimeAssumption DEF Expire, Step, ProcessTypeOK, CallInv, OwnInv, Held, RequestSteps, ChildSteps, ReadSteps, DaemonSteps, machine, call, Idle, End, Failure, Ticks
<1>12. ASSUME Kill PROVE OwnInv'
  BY <1>12, TimeAssumption DEF Kill, Signal, Step, ProcessTypeOK, CallInv, OwnInv, Held, RequestSteps, ChildSteps, ReadSteps, DaemonSteps, machine, call, Idle, End, Failure, Ticks
<1>13. ASSUME Reap PROVE OwnInv'
  BY <1>13, TimeAssumption DEF Reap, Reaped, Step, ProcessTypeOK, CallInv, OwnInv, Held, RequestSteps, ChildSteps, ReadSteps, DaemonSteps, machine, call, Idle, End, Failure, Ticks
<1>14. ASSUME Read PROVE OwnInv'
  BY <1>14, TimeAssumption DEF Read, Return, Raise, ProcessTypeOK, CallInv, OwnInv, Held, RequestSteps, ChildSteps, ReadSteps, DaemonSteps, machine, call, Idle, End, Failure, Ticks
<1>15. ASSUME AwaitStop PROVE OwnInv'
  BY <1>15, TimeAssumption DEF AwaitStop, Step, ProcessTypeOK, CallInv, OwnInv, Held, RequestSteps, ChildSteps, ReadSteps, DaemonSteps, machine, call, Idle, End, Failure, Ticks
<1>16. ASSUME KillDaemon PROVE OwnInv'
  BY <1>16, TimeAssumption DEF KillDaemon, Signal, Step, ProcessTypeOK, CallInv, OwnInv, Held, RequestSteps, ChildSteps, ReadSteps, DaemonSteps, machine, call, Idle, End, Failure, Ticks
<1>17. ASSUME Judge PROVE OwnInv'
  BY <1>17, TimeAssumption DEF Judge, Return, ProcessTypeOK, CallInv, OwnInv, Held, RequestSteps, ChildSteps, ReadSteps, DaemonSteps, machine, call, Idle, End, Failure, Ticks
<1>18. ASSUME NEW x \in Proc, Exits(x) PROVE OwnInv'
  BY <1>18, TimeAssumption DEF Exits, ProcessTypeOK, CallInv, OwnInv, Held, RequestSteps, ChildSteps, ReadSteps, DaemonSteps, machine, call, Idle, End, Failure, Ticks
<1>19. ASSUME NEW p \in Pid, ForeignStarts(p) PROVE OwnInv'
  BY <1>19, TimeAssumption DEF ForeignStarts, Free, ProcessTypeOK, CallInv, OwnInv, Held, RequestSteps, ChildSteps, ReadSteps, DaemonSteps, machine, call, Idle, End, Failure, Ticks
<1>20. ASSUME NEW p \in Pid, ForeignEnds(p) PROVE OwnInv'
  BY <1>20, TimeAssumption DEF ForeignEnds, ProcessTypeOK, CallInv, OwnInv, Held, RequestSteps, ChildSteps, ReadSteps, DaemonSteps, machine, call, Idle, End, Failure, Ticks
<1>21. ASSUME ExecRefused PROVE OwnInv'
  BY <1>21, TimeAssumption DEF ExecRefused, ProcessTypeOK, CallInv, OwnInv, Held, RequestSteps, ChildSteps, ReadSteps, DaemonSteps, machine, call, Idle, End, Failure, Ticks
<1>22. ASSUME RequestFails PROVE OwnInv'
  BY <1>22, TimeAssumption DEF RequestFails, Raise, ProcessTypeOK, CallInv, OwnInv, Held, RequestSteps, ChildSteps, ReadSteps, DaemonSteps, machine, call, Idle, End, Failure, Ticks
<1>23. ASSUME SpawnFails PROVE OwnInv'
  BY <1>23, TimeAssumption DEF SpawnFails, ProcessTypeOK, CallInv, OwnInv, Held, RequestSteps, ChildSteps, ReadSteps, DaemonSteps, machine, call, Idle, End, Failure, Ticks
<1>24. ASSUME Fed PROVE OwnInv'
  BY <1>24, TimeAssumption DEF Fed, Step, ProcessTypeOK, CallInv, OwnInv, Held, RequestSteps, ChildSteps, ReadSteps, DaemonSteps, machine, call, Idle, End, Failure, Ticks
<1>25. ASSUME FeedFails PROVE OwnInv'
  BY <1>25, TimeAssumption DEF FeedFails, Raise, ProcessTypeOK, CallInv, OwnInv, Held, RequestSteps, ChildSteps, ReadSteps, DaemonSteps, machine, call, Idle, End, Failure, Ticks
<1>26. ASSUME Tick PROVE OwnInv'
  BY <1>26, TimeAssumption DEF Tick, ProcessTypeOK, CallInv, OwnInv, Held, RequestSteps, ChildSteps, ReadSteps, DaemonSteps, machine, call, Idle, End, Failure, Ticks
<1>27. CASE UNCHANGED vars
  BY <1>27 DEF vars, ProcessTypeOK, CallInv, OwnInv, Held, RequestSteps, ChildSteps, ReadSteps, DaemonSteps, machine, call, Idle, End, Failure, Ticks
<1>. QED
  BY <1>1, <1>2, <1>3, <1>4, <1>5, <1>6, <1>7, <1>8, <1>9, <1>10, <1>11, <1>12, <1>13, <1>14, <1>15, <1>16, <1>17, <1>18, <1>19, <1>20, <1>21, <1>22, <1>23, <1>24, <1>25, <1>26, <1>27
     DEF Next, Program, Serve, Environment

\* A new process gets a free id.
LEMMA PidNext ==
    ASSUME ProcessTypeOK, CallInv, PidInv, [Next]_vars
    PROVE  PidInv'
<1>1. ASSUME NEW x \in Proc, NEW timeout \in Timeouts, NEW kind \in {"run", "background", "complete"}, Exec(kind, x, timeout) PROVE PidInv'
  BY <1>1, TimeAssumption DEF Exec, Begin, ProcessTypeOK, CallInv, PidInv, Held, Owners, RequestSteps, ChildSteps, machine, call, Idle, End, Failure, Ticks
<1>2. ASSUME NEW x \in Proc, NEW p \in Pid, NEW timeout \in Timeouts, NEW fed \in BOOLEAN, RunLocal(x, p, timeout, fed) PROVE PidInv'
  BY <1>2, TimeAssumption DEF RunLocal, Fork, Free, Begin, ProcessTypeOK, CallInv, PidInv, Held, Owners, RequestSteps, ChildSteps, machine, call, Idle, End, Failure, Ticks
<1>3. ASSUME NEW x \in Proc, NEW timeout \in Timeouts, Stop(x, timeout) PROVE PidInv'
  BY <1>3, TimeAssumption DEF Stop, Signal, Begin, ProcessTypeOK, CallInv, PidInv, Held, Owners, RequestSteps, ChildSteps, machine, call, Idle, End, Failure, Ticks
<1>4. ASSUME NEW x \in Proc, NEW timeout \in Timeouts \cup {0}, Observe(x, timeout) PROVE PidInv'
  BY <1>4, TimeAssumption DEF Observe, Begin, ProcessTypeOK, CallInv, PidInv, Held, Owners, RequestSteps, ChildSteps, machine, call, Idle, End, Failure, Ticks
<1>5. ASSUME NEW x \in Proc, Terminate(x) PROVE PidInv'
  BY <1>5, TimeAssumption DEF Terminate, Begin, ProcessTypeOK, CallInv, PidInv, Held, Owners, RequestSteps, ChildSteps, machine, call, Idle, End, Failure, Ticks
<1>6. ASSUME NEW x \in Proc, NEW p \in Pid, StartDaemon(x, p) PROVE PidInv'
  BY <1>6, TimeAssumption DEF StartDaemon, Fork, Free, ProcessTypeOK, CallInv, PidInv, Held, Owners, RequestSteps, ChildSteps, machine, call, Idle, End, Failure, Ticks
<1>7. ASSUME Observed PROVE PidInv'
  BY <1>7, TimeAssumption DEF Observed, Step, Return, ProcessTypeOK, CallInv, PidInv, Held, Owners, RequestSteps, ChildSteps, machine, call, Idle, End, Failure, Ticks
<1>8. ASSUME Look PROVE PidInv'
  BY <1>8, TimeAssumption DEF Look, Wait, Step, ProcessTypeOK, CallInv, PidInv, Held, Owners, RequestSteps, ChildSteps, machine, call, Idle, End, Failure, Ticks
<1>9. ASSUME Terminated PROVE PidInv'
  BY <1>9, TimeAssumption DEF Terminated, Return, ProcessTypeOK, CallInv, PidInv, Held, Owners, RequestSteps, ChildSteps, machine, call, Idle, End, Failure, Ticks
<1>10. ASSUME Poll PROVE PidInv'
  BY <1>10, TimeAssumption DEF Poll, Reaped, Step, ProcessTypeOK, CallInv, PidInv, Held, Owners, RequestSteps, ChildSteps, machine, call, Idle, End, Failure, Ticks
<1>11. ASSUME Expire PROVE PidInv'
  BY <1>11, TimeAssumption DEF Expire, Step, ProcessTypeOK, CallInv, PidInv, Held, Owners, RequestSteps, ChildSteps, machine, call, Idle, End, Failure, Ticks
<1>12. ASSUME Kill PROVE PidInv'
  BY <1>12, TimeAssumption DEF Kill, Signal, Step, ProcessTypeOK, CallInv, PidInv, Held, Owners, RequestSteps, ChildSteps, machine, call, Idle, End, Failure, Ticks
<1>13. ASSUME Reap PROVE PidInv'
  BY <1>13, TimeAssumption DEF Reap, Reaped, Step, ProcessTypeOK, CallInv, PidInv, Held, Owners, RequestSteps, ChildSteps, machine, call, Idle, End, Failure, Ticks
<1>14. ASSUME Read PROVE PidInv'
  BY <1>14, TimeAssumption DEF Read, Return, Raise, ProcessTypeOK, CallInv, PidInv, Held, Owners, RequestSteps, ChildSteps, machine, call, Idle, End, Failure, Ticks
<1>15. ASSUME AwaitStop PROVE PidInv'
  BY <1>15, TimeAssumption DEF AwaitStop, Step, ProcessTypeOK, CallInv, PidInv, Held, Owners, RequestSteps, ChildSteps, machine, call, Idle, End, Failure, Ticks
<1>16. ASSUME KillDaemon PROVE PidInv'
  BY <1>16, TimeAssumption DEF KillDaemon, Signal, Step, ProcessTypeOK, CallInv, PidInv, Held, Owners, RequestSteps, ChildSteps, machine, call, Idle, End, Failure, Ticks
<1>17. ASSUME Judge PROVE PidInv'
  BY <1>17, TimeAssumption DEF Judge, Return, ProcessTypeOK, CallInv, PidInv, Held, Owners, RequestSteps, ChildSteps, machine, call, Idle, End, Failure, Ticks
<1>18. ASSUME NEW x \in Proc, Exits(x) PROVE PidInv'
  BY <1>18, TimeAssumption DEF Exits, ProcessTypeOK, CallInv, PidInv, Held, Owners, RequestSteps, ChildSteps, machine, call, Idle, End, Failure, Ticks
<1>19. ASSUME NEW p \in Pid, ForeignStarts(p) PROVE PidInv'
  BY <1>19, TimeAssumption DEF ForeignStarts, Free, ProcessTypeOK, CallInv, PidInv, Held, Owners, RequestSteps, ChildSteps, machine, call, Idle, End, Failure, Ticks
<1>20. ASSUME NEW p \in Pid, ForeignEnds(p) PROVE PidInv'
  BY <1>20, TimeAssumption DEF ForeignEnds, ProcessTypeOK, CallInv, PidInv, Held, Owners, RequestSteps, ChildSteps, machine, call, Idle, End, Failure, Ticks
<1>21. ASSUME ExecRefused PROVE PidInv'
  BY <1>21, TimeAssumption DEF ExecRefused, ProcessTypeOK, CallInv, PidInv, Held, Owners, RequestSteps, ChildSteps, machine, call, Idle, End, Failure, Ticks
<1>22. ASSUME RequestFails PROVE PidInv'
  BY <1>22, TimeAssumption DEF RequestFails, Raise, ProcessTypeOK, CallInv, PidInv, Held, Owners, RequestSteps, ChildSteps, machine, call, Idle, End, Failure, Ticks
<1>23. ASSUME SpawnFails PROVE PidInv'
  BY <1>23, TimeAssumption DEF SpawnFails, ProcessTypeOK, CallInv, PidInv, Held, Owners, RequestSteps, ChildSteps, machine, call, Idle, End, Failure, Ticks
<1>24. ASSUME Fed PROVE PidInv'
  BY <1>24, TimeAssumption DEF Fed, Step, ProcessTypeOK, CallInv, PidInv, Held, Owners, RequestSteps, ChildSteps, machine, call, Idle, End, Failure, Ticks
<1>25. ASSUME FeedFails PROVE PidInv'
  BY <1>25, TimeAssumption DEF FeedFails, Raise, ProcessTypeOK, CallInv, PidInv, Held, Owners, RequestSteps, ChildSteps, machine, call, Idle, End, Failure, Ticks
<1>26. ASSUME Tick PROVE PidInv'
  BY <1>26, TimeAssumption DEF Tick, ProcessTypeOK, CallInv, PidInv, Held, Owners, RequestSteps, ChildSteps, machine, call, Idle, End, Failure, Ticks
<1>27. CASE UNCHANGED vars
  BY <1>27 DEF vars, ProcessTypeOK, CallInv, PidInv, Held, Owners, RequestSteps, ChildSteps, machine, call, Idle, End, Failure, Ticks
<1>. QED
  BY <1>1, <1>2, <1>3, <1>4, <1>5, <1>6, <1>7, <1>8, <1>9, <1>10, <1>11, <1>12, <1>13, <1>14, <1>15, <1>16, <1>17, <1>18, <1>19, <1>20, <1>21, <1>22, <1>23, <1>24, <1>25, <1>26, <1>27
     DEF Next, Program, Serve, Environment

\* Whoever is signalled has not been reaped.
LEMMA SignalNext ==
    ASSUME ProcessTypeOK, CallInv, OwnInv, PidInv, SignalsHitTheirOwn, [Next]_vars
    PROVE  SignalsHitTheirOwn'
<1>1. ASSUME NEW x \in Proc, NEW timeout \in Timeouts, NEW kind \in {"run", "background", "complete"}, Exec(kind, x, timeout) PROVE SignalsHitTheirOwn'
  BY <1>1, TimeAssumption DEF Exec, Begin, ProcessTypeOK, CallInv, OwnInv, PidInv, SignalsHitTheirOwn, Held, Owners, RequestSteps, ChildSteps, ReadSteps, DaemonSteps, machine, call, Idle, End, Failure, Ticks
<1>2. ASSUME NEW x \in Proc, NEW p \in Pid, NEW timeout \in Timeouts, NEW fed \in BOOLEAN, RunLocal(x, p, timeout, fed) PROVE SignalsHitTheirOwn'
  BY <1>2, TimeAssumption DEF RunLocal, Fork, Free, Begin, ProcessTypeOK, CallInv, OwnInv, PidInv, SignalsHitTheirOwn, Held, Owners, RequestSteps, ChildSteps, ReadSteps, DaemonSteps, machine, call, Idle, End, Failure, Ticks
<1>3. ASSUME NEW x \in Proc, NEW timeout \in Timeouts, Stop(x, timeout) PROVE SignalsHitTheirOwn'
  BY <1>3, TimeAssumption DEF Stop, Signal, Begin, ProcessTypeOK, CallInv, OwnInv, PidInv, SignalsHitTheirOwn, Held, Owners, RequestSteps, ChildSteps, ReadSteps, DaemonSteps, machine, call, Idle, End, Failure, Ticks
<1>4. ASSUME NEW x \in Proc, NEW timeout \in Timeouts \cup {0}, Observe(x, timeout) PROVE SignalsHitTheirOwn'
  BY <1>4, TimeAssumption DEF Observe, Begin, ProcessTypeOK, CallInv, OwnInv, PidInv, SignalsHitTheirOwn, Held, Owners, RequestSteps, ChildSteps, ReadSteps, DaemonSteps, machine, call, Idle, End, Failure, Ticks
<1>5. ASSUME NEW x \in Proc, Terminate(x) PROVE SignalsHitTheirOwn'
  BY <1>5, TimeAssumption DEF Terminate, Begin, ProcessTypeOK, CallInv, OwnInv, PidInv, SignalsHitTheirOwn, Held, Owners, RequestSteps, ChildSteps, ReadSteps, DaemonSteps, machine, call, Idle, End, Failure, Ticks
<1>6. ASSUME NEW x \in Proc, NEW p \in Pid, StartDaemon(x, p) PROVE SignalsHitTheirOwn'
  BY <1>6, TimeAssumption DEF StartDaemon, Fork, Free, ProcessTypeOK, CallInv, OwnInv, PidInv, SignalsHitTheirOwn, Held, Owners, RequestSteps, ChildSteps, ReadSteps, DaemonSteps, machine, call, Idle, End, Failure, Ticks
<1>7. ASSUME Observed PROVE SignalsHitTheirOwn'
  BY <1>7, TimeAssumption DEF Observed, Step, Return, ProcessTypeOK, CallInv, OwnInv, PidInv, SignalsHitTheirOwn, Held, Owners, RequestSteps, ChildSteps, ReadSteps, DaemonSteps, machine, call, Idle, End, Failure, Ticks
<1>8. ASSUME Look PROVE SignalsHitTheirOwn'
  BY <1>8, TimeAssumption DEF Look, Wait, Step, ProcessTypeOK, CallInv, OwnInv, PidInv, SignalsHitTheirOwn, Held, Owners, RequestSteps, ChildSteps, ReadSteps, DaemonSteps, machine, call, Idle, End, Failure, Ticks
<1>9. ASSUME Terminated PROVE SignalsHitTheirOwn'
  BY <1>9, TimeAssumption DEF Terminated, Return, ProcessTypeOK, CallInv, OwnInv, PidInv, SignalsHitTheirOwn, Held, Owners, RequestSteps, ChildSteps, ReadSteps, DaemonSteps, machine, call, Idle, End, Failure, Ticks
<1>10. ASSUME Poll PROVE SignalsHitTheirOwn'
  BY <1>10, TimeAssumption DEF Poll, Reaped, Step, ProcessTypeOK, CallInv, OwnInv, PidInv, SignalsHitTheirOwn, Held, Owners, RequestSteps, ChildSteps, ReadSteps, DaemonSteps, machine, call, Idle, End, Failure, Ticks
<1>11. ASSUME Expire PROVE SignalsHitTheirOwn'
  BY <1>11, TimeAssumption DEF Expire, Step, ProcessTypeOK, CallInv, OwnInv, PidInv, SignalsHitTheirOwn, Held, Owners, RequestSteps, ChildSteps, ReadSteps, DaemonSteps, machine, call, Idle, End, Failure, Ticks
<1>12. ASSUME Kill PROVE SignalsHitTheirOwn'
  BY <1>12, TimeAssumption DEF Kill, Signal, Step, ProcessTypeOK, CallInv, OwnInv, PidInv, SignalsHitTheirOwn, Held, Owners, RequestSteps, ChildSteps, ReadSteps, DaemonSteps, machine, call, Idle, End, Failure, Ticks
<1>13. ASSUME Reap PROVE SignalsHitTheirOwn'
  BY <1>13, TimeAssumption DEF Reap, Reaped, Step, ProcessTypeOK, CallInv, OwnInv, PidInv, SignalsHitTheirOwn, Held, Owners, RequestSteps, ChildSteps, ReadSteps, DaemonSteps, machine, call, Idle, End, Failure, Ticks
<1>14. ASSUME Read PROVE SignalsHitTheirOwn'
  BY <1>14, TimeAssumption DEF Read, Return, Raise, ProcessTypeOK, CallInv, OwnInv, PidInv, SignalsHitTheirOwn, Held, Owners, RequestSteps, ChildSteps, ReadSteps, DaemonSteps, machine, call, Idle, End, Failure, Ticks
<1>15. ASSUME AwaitStop PROVE SignalsHitTheirOwn'
  BY <1>15, TimeAssumption DEF AwaitStop, Step, ProcessTypeOK, CallInv, OwnInv, PidInv, SignalsHitTheirOwn, Held, Owners, RequestSteps, ChildSteps, ReadSteps, DaemonSteps, machine, call, Idle, End, Failure, Ticks
<1>16. ASSUME KillDaemon PROVE SignalsHitTheirOwn'
  BY <1>16, TimeAssumption DEF KillDaemon, Signal, Step, ProcessTypeOK, CallInv, OwnInv, PidInv, SignalsHitTheirOwn, Held, Owners, RequestSteps, ChildSteps, ReadSteps, DaemonSteps, machine, call, Idle, End, Failure, Ticks
<1>17. ASSUME Judge PROVE SignalsHitTheirOwn'
  BY <1>17, TimeAssumption DEF Judge, Return, ProcessTypeOK, CallInv, OwnInv, PidInv, SignalsHitTheirOwn, Held, Owners, RequestSteps, ChildSteps, ReadSteps, DaemonSteps, machine, call, Idle, End, Failure, Ticks
<1>18. ASSUME NEW x \in Proc, Exits(x) PROVE SignalsHitTheirOwn'
  BY <1>18, TimeAssumption DEF Exits, ProcessTypeOK, CallInv, OwnInv, PidInv, SignalsHitTheirOwn, Held, Owners, RequestSteps, ChildSteps, ReadSteps, DaemonSteps, machine, call, Idle, End, Failure, Ticks
<1>19. ASSUME NEW p \in Pid, ForeignStarts(p) PROVE SignalsHitTheirOwn'
  BY <1>19, TimeAssumption DEF ForeignStarts, Free, ProcessTypeOK, CallInv, OwnInv, PidInv, SignalsHitTheirOwn, Held, Owners, RequestSteps, ChildSteps, ReadSteps, DaemonSteps, machine, call, Idle, End, Failure, Ticks
<1>20. ASSUME NEW p \in Pid, ForeignEnds(p) PROVE SignalsHitTheirOwn'
  BY <1>20, TimeAssumption DEF ForeignEnds, ProcessTypeOK, CallInv, OwnInv, PidInv, SignalsHitTheirOwn, Held, Owners, RequestSteps, ChildSteps, ReadSteps, DaemonSteps, machine, call, Idle, End, Failure, Ticks
<1>21. ASSUME ExecRefused PROVE SignalsHitTheirOwn'
  BY <1>21, TimeAssumption DEF ExecRefused, ProcessTypeOK, CallInv, OwnInv, PidInv, SignalsHitTheirOwn, Held, Owners, RequestSteps, ChildSteps, ReadSteps, DaemonSteps, machine, call, Idle, End, Failure, Ticks
<1>22. ASSUME RequestFails PROVE SignalsHitTheirOwn'
  BY <1>22, TimeAssumption DEF RequestFails, Raise, ProcessTypeOK, CallInv, OwnInv, PidInv, SignalsHitTheirOwn, Held, Owners, RequestSteps, ChildSteps, ReadSteps, DaemonSteps, machine, call, Idle, End, Failure, Ticks
<1>23. ASSUME SpawnFails PROVE SignalsHitTheirOwn'
  BY <1>23, TimeAssumption DEF SpawnFails, ProcessTypeOK, CallInv, OwnInv, PidInv, SignalsHitTheirOwn, Held, Owners, RequestSteps, ChildSteps, ReadSteps, DaemonSteps, machine, call, Idle, End, Failure, Ticks
<1>24. ASSUME Fed PROVE SignalsHitTheirOwn'
  BY <1>24, TimeAssumption DEF Fed, Step, ProcessTypeOK, CallInv, OwnInv, PidInv, SignalsHitTheirOwn, Held, Owners, RequestSteps, ChildSteps, ReadSteps, DaemonSteps, machine, call, Idle, End, Failure, Ticks
<1>25. ASSUME FeedFails PROVE SignalsHitTheirOwn'
  BY <1>25, TimeAssumption DEF FeedFails, Raise, ProcessTypeOK, CallInv, OwnInv, PidInv, SignalsHitTheirOwn, Held, Owners, RequestSteps, ChildSteps, ReadSteps, DaemonSteps, machine, call, Idle, End, Failure, Ticks
<1>26. ASSUME Tick PROVE SignalsHitTheirOwn'
  BY <1>26, TimeAssumption DEF Tick, ProcessTypeOK, CallInv, OwnInv, PidInv, SignalsHitTheirOwn, Held, Owners, RequestSteps, ChildSteps, ReadSteps, DaemonSteps, machine, call, Idle, End, Failure, Ticks
<1>27. CASE UNCHANGED vars
  BY <1>27 DEF vars, ProcessTypeOK, CallInv, OwnInv, PidInv, SignalsHitTheirOwn, Held, Owners, RequestSteps, ChildSteps, ReadSteps, DaemonSteps, machine, call, Idle, End, Failure, Ticks
<1>. QED
  BY <1>1, <1>2, <1>3, <1>4, <1>5, <1>6, <1>7, <1>8, <1>9, <1>10, <1>11, <1>12, <1>13, <1>14, <1>15, <1>16, <1>17, <1>18, <1>19, <1>20, <1>21, <1>22, <1>23, <1>24, <1>25, <1>26, <1>27
     DEF Next, Program, Serve, Environment

\* A true answer stays true while no process starts again.
LEMMA AnswersStay ==
    ASSUME ProcessTypeOK, AnswersAreTrue, told' = told,
           \A x \in Proc : state[x] \in {"over", "reaped"} => state'[x] \in {"over", "reaped"}
    PROVE  AnswersAreTrue'
<1>1. told.kind \in {"done", "timeout", "stopped"} => Over(told.proc)'
  <2>1. told.kind \in {"done", "timeout", "stopped"} => told.proc \in Proc
    BY DEF ProcessTypeOK
  <2>. QED
    BY <2>1 DEF AnswersAreTrue, Over
<1>. QED
  BY <1>1 DEF AnswersAreTrue

\* An answer is given when it is true, and stays true: no process starts twice.
LEMMA AnswerNext ==
    ASSUME ProcessTypeOK, CallInv, SpentInv, OwnInv, AnswersAreTrue, [Next]_vars
    PROVE  AnswersAreTrue'
<1>1. ASSUME NEW x \in Proc, NEW timeout \in Timeouts, NEW kind \in {"run", "background", "complete"}, Exec(kind, x, timeout) PROVE AnswersAreTrue'
  BY <1>1, TimeAssumption DEF Exec, Begin, ProcessTypeOK, CallInv, SpentInv, OwnInv, AnswersAreTrue, Over, Held, RequestSteps, ChildSteps, ReadSteps, DaemonSteps, machine, call, Idle, End, Failure, Ticks
<1>2. ASSUME NEW x \in Proc, NEW p \in Pid, NEW timeout \in Timeouts, NEW fed \in BOOLEAN, RunLocal(x, p, timeout, fed) PROVE AnswersAreTrue'
  BY <1>2, TimeAssumption DEF RunLocal, Fork, Free, Begin, ProcessTypeOK, CallInv, SpentInv, OwnInv, AnswersAreTrue, Over, Held, RequestSteps, ChildSteps, ReadSteps, DaemonSteps, machine, call, Idle, End, Failure, Ticks
<1>3. ASSUME NEW x \in Proc, NEW timeout \in Timeouts, Stop(x, timeout) PROVE AnswersAreTrue'
  BY <1>3, TimeAssumption DEF Stop, Signal, Begin, ProcessTypeOK, CallInv, SpentInv, OwnInv, AnswersAreTrue, Over, Held, RequestSteps, ChildSteps, ReadSteps, DaemonSteps, machine, call, Idle, End, Failure, Ticks
<1>4. ASSUME NEW x \in Proc, NEW timeout \in Timeouts \cup {0}, Observe(x, timeout) PROVE AnswersAreTrue'
  BY <1>4, TimeAssumption DEF Observe, Begin, ProcessTypeOK, CallInv, SpentInv, OwnInv, AnswersAreTrue, Over, Held, RequestSteps, ChildSteps, ReadSteps, DaemonSteps, machine, call, Idle, End, Failure, Ticks
<1>5. ASSUME NEW x \in Proc, Terminate(x) PROVE AnswersAreTrue'
  BY <1>5, TimeAssumption DEF Terminate, Begin, ProcessTypeOK, CallInv, SpentInv, OwnInv, AnswersAreTrue, Over, Held, RequestSteps, ChildSteps, ReadSteps, DaemonSteps, machine, call, Idle, End, Failure, Ticks
<1>6. ASSUME NEW x \in Proc, NEW p \in Pid, StartDaemon(x, p) PROVE AnswersAreTrue'
  BY <1>6, TimeAssumption DEF StartDaemon, Fork, Free, ProcessTypeOK, CallInv, SpentInv, OwnInv, AnswersAreTrue, Over, Held, RequestSteps, ChildSteps, ReadSteps, DaemonSteps, machine, call, Idle, End, Failure, Ticks
<1>7. ASSUME Observed PROVE AnswersAreTrue'
  BY <1>7, TimeAssumption DEF Observed, Step, Return, ProcessTypeOK, CallInv, SpentInv, OwnInv, AnswersAreTrue, Over, Held, RequestSteps, ChildSteps, ReadSteps, DaemonSteps, machine, call, Idle, End, Failure, Ticks
<1>8. ASSUME Look PROVE AnswersAreTrue'
  BY <1>8, TimeAssumption DEF Look, Wait, Step, ProcessTypeOK, CallInv, SpentInv, OwnInv, AnswersAreTrue, Over, Held, RequestSteps, ChildSteps, ReadSteps, DaemonSteps, machine, call, Idle, End, Failure, Ticks
<1>9. ASSUME Terminated PROVE AnswersAreTrue'
  BY <1>9, TimeAssumption DEF Terminated, Return, ProcessTypeOK, CallInv, SpentInv, OwnInv, AnswersAreTrue, Over, Held, RequestSteps, ChildSteps, ReadSteps, DaemonSteps, machine, call, Idle, End, Failure, Ticks
<1>10. ASSUME Poll PROVE AnswersAreTrue'
  <2>1. target \in Proc /\ Held(target)
    BY <1>10 DEF Poll, CallInv, ProcessTypeOK, Idle, ChildSteps
  <2>2. told' = told
    BY <1>10 DEF Poll
  <2>3. \A x \in Proc : state[x] \in {"over", "reaped"} => state'[x] \in {"over", "reaped"}
    BY <1>10, <2>1 DEF Poll, Reaped, ProcessTypeOK
  <2>. QED
    BY <2>2, <2>3, AnswersStay
<1>11. ASSUME Expire PROVE AnswersAreTrue'
  BY <1>11, TimeAssumption DEF Expire, Step, ProcessTypeOK, CallInv, SpentInv, OwnInv, AnswersAreTrue, Over, Held, RequestSteps, ChildSteps, ReadSteps, DaemonSteps, machine, call, Idle, End, Failure, Ticks
<1>12. ASSUME Kill PROVE AnswersAreTrue'
  BY <1>12, TimeAssumption DEF Kill, Signal, Step, ProcessTypeOK, CallInv, SpentInv, OwnInv, AnswersAreTrue, Over, Held, RequestSteps, ChildSteps, ReadSteps, DaemonSteps, machine, call, Idle, End, Failure, Ticks
<1>13. ASSUME Reap PROVE AnswersAreTrue'
  <2>1. target \in Proc /\ Held(target)
    BY <1>13 DEF Reap, CallInv, ProcessTypeOK, Idle, ChildSteps
  <2>2. told' = told
    BY <1>13 DEF Reap
  <2>3. \A x \in Proc : state[x] \in {"over", "reaped"} => state'[x] \in {"over", "reaped"}
    BY <1>13, <2>1 DEF Reap, Reaped, ProcessTypeOK
  <2>. QED
    BY <2>2, <2>3, AnswersStay
<1>14. ASSUME Read PROVE AnswersAreTrue'
  <2>1. target \in Proc /\ state[target] = "reaped" /\ state' = state
    BY <1>14 DEF Read, CallInv, ProcessTypeOK, Idle, ReadSteps, machine
  <2>2. CASE told' = Failure
    BY <2>2 DEF AnswersAreTrue, Failure
  <2>3. CASE Return(IF step = "read" THEN "done" ELSE "timeout")
    <3>1. /\ told'.kind = IF step = "read" THEN "done" ELSE "timeout"
          /\ told'.proc = target /\ told'.spent = clock /\ told'.timeout = Ticks(limit)
      BY <2>3 DEF Return
    <3>2. step # "read" => clock >= Ticks(limit)
      BY <1>14 DEF Read, SpentInv
    <3>. QED
      BY <2>1, <3>1, <3>2 DEF AnswersAreTrue, Over
  <2>. QED
    BY <1>14, <2>2, <2>3 DEF Read, Raise
<1>15. ASSUME AwaitStop PROVE AnswersAreTrue'
  BY <1>15, TimeAssumption DEF AwaitStop, Step, ProcessTypeOK, CallInv, SpentInv, OwnInv, AnswersAreTrue, Over, Held, RequestSteps, ChildSteps, ReadSteps, DaemonSteps, machine, call, Idle, End, Failure, Ticks
<1>16. ASSUME KillDaemon PROVE AnswersAreTrue'
  BY <1>16, TimeAssumption DEF KillDaemon, Signal, Step, ProcessTypeOK, CallInv, SpentInv, OwnInv, AnswersAreTrue, Over, Held, RequestSteps, ChildSteps, ReadSteps, DaemonSteps, machine, call, Idle, End, Failure, Ticks
<1>17. ASSUME Judge PROVE AnswersAreTrue'
  BY <1>17, TimeAssumption DEF Judge, Return, ProcessTypeOK, CallInv, SpentInv, OwnInv, AnswersAreTrue, Over, Held, RequestSteps, ChildSteps, ReadSteps, DaemonSteps, machine, call, Idle, End, Failure, Ticks, Alive
<1>18. ASSUME NEW x \in Proc, Exits(x) PROVE AnswersAreTrue'
  <2>2. told' = told
    BY <1>18 DEF Exits
  <2>3. \A y \in Proc : state[y] \in {"over", "reaped"} => state'[y] \in {"over", "reaped"}
    BY <1>18 DEF Exits, ProcessTypeOK
  <2>. QED
    BY <2>2, <2>3, AnswersStay
<1>19. ASSUME NEW p \in Pid, ForeignStarts(p) PROVE AnswersAreTrue'
  BY <1>19, TimeAssumption DEF ForeignStarts, Free, ProcessTypeOK, CallInv, SpentInv, OwnInv, AnswersAreTrue, Over, Held, RequestSteps, ChildSteps, ReadSteps, DaemonSteps, machine, call, Idle, End, Failure, Ticks
<1>20. ASSUME NEW p \in Pid, ForeignEnds(p) PROVE AnswersAreTrue'
  BY <1>20, TimeAssumption DEF ForeignEnds, ProcessTypeOK, CallInv, SpentInv, OwnInv, AnswersAreTrue, Over, Held, RequestSteps, ChildSteps, ReadSteps, DaemonSteps, machine, call, Idle, End, Failure, Ticks
<1>21. ASSUME ExecRefused PROVE AnswersAreTrue'
  BY <1>21, TimeAssumption DEF ExecRefused, ProcessTypeOK, CallInv, SpentInv, OwnInv, AnswersAreTrue, Over, Held, RequestSteps, ChildSteps, ReadSteps, DaemonSteps, machine, call, Idle, End, Failure, Ticks
<1>22. ASSUME RequestFails PROVE AnswersAreTrue'
  BY <1>22, TimeAssumption DEF RequestFails, Raise, ProcessTypeOK, CallInv, SpentInv, OwnInv, AnswersAreTrue, Over, Held, RequestSteps, ChildSteps, ReadSteps, DaemonSteps, machine, call, Idle, End, Failure, Ticks
<1>23. ASSUME SpawnFails PROVE AnswersAreTrue'
  BY <1>23, TimeAssumption DEF SpawnFails, ProcessTypeOK, CallInv, SpentInv, OwnInv, AnswersAreTrue, Over, Held, RequestSteps, ChildSteps, ReadSteps, DaemonSteps, machine, call, Idle, End, Failure, Ticks
<1>24. ASSUME Fed PROVE AnswersAreTrue'
  BY <1>24, TimeAssumption DEF Fed, Step, ProcessTypeOK, CallInv, SpentInv, OwnInv, AnswersAreTrue, Over, Held, RequestSteps, ChildSteps, ReadSteps, DaemonSteps, machine, call, Idle, End, Failure, Ticks
<1>25. ASSUME FeedFails PROVE AnswersAreTrue'
  BY <1>25, TimeAssumption DEF FeedFails, Raise, ProcessTypeOK, CallInv, SpentInv, OwnInv, AnswersAreTrue, Over, Held, RequestSteps, ChildSteps, ReadSteps, DaemonSteps, machine, call, Idle, End, Failure, Ticks
<1>26. ASSUME Tick PROVE AnswersAreTrue'
  BY <1>26, TimeAssumption DEF Tick, ProcessTypeOK, CallInv, SpentInv, OwnInv, AnswersAreTrue, Over, Held, RequestSteps, ChildSteps, ReadSteps, DaemonSteps, machine, call, Idle, End, Failure, Ticks
<1>27. CASE UNCHANGED vars
  BY <1>27 DEF vars, ProcessTypeOK, CallInv, SpentInv, OwnInv, AnswersAreTrue, Over, Held, RequestSteps, ChildSteps, ReadSteps, DaemonSteps, machine, call, Idle, End, Failure, Ticks
<1>. QED
  BY <1>1, <1>2, <1>3, <1>4, <1>5, <1>6, <1>7, <1>8, <1>9, <1>10, <1>11, <1>12, <1>13, <1>14, <1>15, <1>16, <1>17, <1>18, <1>19, <1>20, <1>21, <1>22, <1>23, <1>24, <1>25, <1>26, <1>27
     DEF Next, Program, Serve, Environment

\* A call that returns lets go of nothing that still runs.
LEMMA LeftNext ==
    ASSUME ProcessTypeOK, CallInv, OwnInv, NothingIsLeftBehind, [Next]_vars
    PROVE  NothingIsLeftBehind'
<1>1. ASSUME NEW x \in Proc, NEW timeout \in Timeouts, NEW kind \in {"run", "background", "complete"}, Exec(kind, x, timeout) PROVE NothingIsLeftBehind'
  <2>1. \A y \in Proc : y # target
    BY <1>1, NoneAssumption DEF Exec, Begin, ProcessTypeOK
  <2>. QED
    BY <1>1, <2>1 DEF Exec, Begin, NothingIsLeftBehind, ProcessTypeOK
<1>2. ASSUME NEW x \in Proc, NEW p \in Pid, NEW timeout \in Timeouts, NEW fed \in BOOLEAN, RunLocal(x, p, timeout, fed) PROVE NothingIsLeftBehind'
  <2>1. \A y \in Proc : y # target
    BY <1>2, NoneAssumption DEF RunLocal, Fork, Begin, ProcessTypeOK
  <2>. QED
    BY <1>2, <2>1 DEF RunLocal, Fork, Begin, NothingIsLeftBehind, ProcessTypeOK
<1>3. ASSUME NEW x \in Proc, NEW timeout \in Timeouts, Stop(x, timeout) PROVE NothingIsLeftBehind'
  <2>1. \A y \in Proc : y # target
    BY <1>3, NoneAssumption DEF Stop, Signal, Begin, ProcessTypeOK
  <2>. QED
    BY <1>3, <2>1 DEF Stop, Signal, Begin, NothingIsLeftBehind, ProcessTypeOK
<1>4. ASSUME NEW x \in Proc, NEW timeout \in Timeouts \cup {0}, Observe(x, timeout) PROVE NothingIsLeftBehind'
  <2>1. \A y \in Proc : y # target
    BY <1>4, NoneAssumption DEF Observe, Begin, machine, ProcessTypeOK
  <2>. QED
    BY <1>4, <2>1 DEF Observe, Begin, machine, NothingIsLeftBehind, ProcessTypeOK
<1>5. ASSUME NEW x \in Proc, Terminate(x) PROVE NothingIsLeftBehind'
  <2>1. \A y \in Proc : y # target
    BY <1>5, NoneAssumption DEF Terminate, Begin, machine, ProcessTypeOK
  <2>. QED
    BY <1>5, <2>1 DEF Terminate, Begin, machine, NothingIsLeftBehind, ProcessTypeOK
<1>6. ASSUME NEW x \in Proc, NEW p \in Pid, StartDaemon(x, p) PROVE NothingIsLeftBehind'
  BY <1>6, TimeAssumption DEF StartDaemon, Fork, Free, ProcessTypeOK, CallInv, OwnInv, NothingIsLeftBehind, Held, RequestSteps, ChildSteps, ReadSteps, DaemonSteps, machine, call, Idle, End, Failure, Ticks
<1>7. ASSUME Observed PROVE NothingIsLeftBehind'
  BY <1>7, TimeAssumption DEF Observed, Step, Return, ProcessTypeOK, CallInv, OwnInv, NothingIsLeftBehind, Held, RequestSteps, ChildSteps, ReadSteps, DaemonSteps, machine, call, Idle, End, Failure, Ticks
<1>8. ASSUME Look PROVE NothingIsLeftBehind'
  BY <1>8, TimeAssumption DEF Look, Wait, Step, ProcessTypeOK, CallInv, OwnInv, NothingIsLeftBehind, Held, RequestSteps, ChildSteps, ReadSteps, DaemonSteps, machine, call, Idle, End, Failure, Ticks
<1>9. ASSUME Terminated PROVE NothingIsLeftBehind'
  BY <1>9, TimeAssumption DEF Terminated, Return, ProcessTypeOK, CallInv, OwnInv, NothingIsLeftBehind, Held, RequestSteps, ChildSteps, ReadSteps, DaemonSteps, machine, call, Idle, End, Failure, Ticks
<1>10. ASSUME Poll PROVE NothingIsLeftBehind'
  BY <1>10, TimeAssumption DEF Poll, Reaped, Step, ProcessTypeOK, CallInv, OwnInv, NothingIsLeftBehind, Held, RequestSteps, ChildSteps, ReadSteps, DaemonSteps, machine, call, Idle, End, Failure, Ticks
<1>11. ASSUME Expire PROVE NothingIsLeftBehind'
  BY <1>11, TimeAssumption DEF Expire, Step, ProcessTypeOK, CallInv, OwnInv, NothingIsLeftBehind, Held, RequestSteps, ChildSteps, ReadSteps, DaemonSteps, machine, call, Idle, End, Failure, Ticks
<1>12. ASSUME Kill PROVE NothingIsLeftBehind'
  BY <1>12, TimeAssumption DEF Kill, Signal, Step, ProcessTypeOK, CallInv, OwnInv, NothingIsLeftBehind, Held, RequestSteps, ChildSteps, ReadSteps, DaemonSteps, machine, call, Idle, End, Failure, Ticks
<1>13. ASSUME Reap PROVE NothingIsLeftBehind'
  BY <1>13, TimeAssumption DEF Reap, Reaped, Step, ProcessTypeOK, CallInv, OwnInv, NothingIsLeftBehind, Held, RequestSteps, ChildSteps, ReadSteps, DaemonSteps, machine, call, Idle, End, Failure, Ticks
<1>14. ASSUME Read PROVE NothingIsLeftBehind'
  BY <1>14, TimeAssumption DEF Read, Return, Raise, ProcessTypeOK, CallInv, OwnInv, NothingIsLeftBehind, Held, RequestSteps, ChildSteps, ReadSteps, DaemonSteps, machine, call, Idle, End, Failure, Ticks
<1>15. ASSUME AwaitStop PROVE NothingIsLeftBehind'
  BY <1>15, TimeAssumption DEF AwaitStop, Step, ProcessTypeOK, CallInv, OwnInv, NothingIsLeftBehind, Held, RequestSteps, ChildSteps, ReadSteps, DaemonSteps, machine, call, Idle, End, Failure, Ticks
<1>16. ASSUME KillDaemon PROVE NothingIsLeftBehind'
  BY <1>16, TimeAssumption DEF KillDaemon, Signal, Step, ProcessTypeOK, CallInv, OwnInv, NothingIsLeftBehind, Held, RequestSteps, ChildSteps, ReadSteps, DaemonSteps, machine, call, Idle, End, Failure, Ticks
<1>17. ASSUME Judge PROVE NothingIsLeftBehind'
  BY <1>17, TimeAssumption DEF Judge, Return, ProcessTypeOK, CallInv, OwnInv, NothingIsLeftBehind, Held, RequestSteps, ChildSteps, ReadSteps, DaemonSteps, machine, call, Idle, End, Failure, Ticks
<1>18. ASSUME NEW x \in Proc, Exits(x) PROVE NothingIsLeftBehind'
  BY <1>18, TimeAssumption DEF Exits, ProcessTypeOK, CallInv, OwnInv, NothingIsLeftBehind, Held, RequestSteps, ChildSteps, ReadSteps, DaemonSteps, machine, call, Idle, End, Failure, Ticks
<1>19. ASSUME NEW p \in Pid, ForeignStarts(p) PROVE NothingIsLeftBehind'
  BY <1>19, TimeAssumption DEF ForeignStarts, Free, ProcessTypeOK, CallInv, OwnInv, NothingIsLeftBehind, Held, RequestSteps, ChildSteps, ReadSteps, DaemonSteps, machine, call, Idle, End, Failure, Ticks
<1>20. ASSUME NEW p \in Pid, ForeignEnds(p) PROVE NothingIsLeftBehind'
  BY <1>20, TimeAssumption DEF ForeignEnds, ProcessTypeOK, CallInv, OwnInv, NothingIsLeftBehind, Held, RequestSteps, ChildSteps, ReadSteps, DaemonSteps, machine, call, Idle, End, Failure, Ticks
<1>21. ASSUME ExecRefused PROVE NothingIsLeftBehind'
  BY <1>21, TimeAssumption DEF ExecRefused, ProcessTypeOK, CallInv, OwnInv, NothingIsLeftBehind, Held, RequestSteps, ChildSteps, ReadSteps, DaemonSteps, machine, call, Idle, End, Failure, Ticks
<1>22. ASSUME RequestFails PROVE NothingIsLeftBehind'
  BY <1>22, TimeAssumption DEF RequestFails, Raise, ProcessTypeOK, CallInv, OwnInv, NothingIsLeftBehind, Held, RequestSteps, ChildSteps, ReadSteps, DaemonSteps, machine, call, Idle, End, Failure, Ticks
<1>23. ASSUME SpawnFails PROVE NothingIsLeftBehind'
  BY <1>23, TimeAssumption DEF SpawnFails, ProcessTypeOK, CallInv, OwnInv, NothingIsLeftBehind, Held, RequestSteps, ChildSteps, ReadSteps, DaemonSteps, machine, call, Idle, End, Failure, Ticks
<1>24. ASSUME Fed PROVE NothingIsLeftBehind'
  BY <1>24, TimeAssumption DEF Fed, Step, ProcessTypeOK, CallInv, OwnInv, NothingIsLeftBehind, Held, RequestSteps, ChildSteps, ReadSteps, DaemonSteps, machine, call, Idle, End, Failure, Ticks
<1>25. ASSUME FeedFails PROVE NothingIsLeftBehind'
  BY <1>25, TimeAssumption DEF FeedFails, Raise, ProcessTypeOK, CallInv, OwnInv, NothingIsLeftBehind, Held, RequestSteps, ChildSteps, ReadSteps, DaemonSteps, machine, call, Idle, End, Failure, Ticks
<1>26. ASSUME Tick PROVE NothingIsLeftBehind'
  BY <1>26, TimeAssumption DEF Tick, ProcessTypeOK, CallInv, OwnInv, NothingIsLeftBehind, Held, RequestSteps, ChildSteps, ReadSteps, DaemonSteps, machine, call, Idle, End, Failure, Ticks
<1>27. CASE UNCHANGED vars
  BY <1>27 DEF vars, ProcessTypeOK, CallInv, OwnInv, NothingIsLeftBehind, Held, RequestSteps, ChildSteps, ReadSteps, DaemonSteps, machine, call, Idle, End, Failure, Ticks
<1>. QED
  BY <1>1, <1>2, <1>3, <1>4, <1>5, <1>6, <1>7, <1>8, <1>9, <1>10, <1>11, <1>12, <1>13, <1>14, <1>15, <1>16, <1>17, <1>18, <1>19, <1>20, <1>21, <1>22, <1>23, <1>24, <1>25, <1>26, <1>27
     DEF Next, Program, Serve, Environment

-----------------------------------------------------------------------------
(* Theorems *)

IInv ==
  /\ ProcessTypeOK
  /\ CallInv
  /\ SpentInv
  /\ OwnInv
  /\ PidInv

\* Before the first call nothing runs and nobody holds anything.
LEMMA InitHolds ==
    ASSUME Init
    PROVE  IInv /\ AnswersAreTrue /\ NothingIsLeftBehind /\ SignalsHitTheirOwn
<1>1. ProcessTypeOK
  <2>1. /\ verb \in Kinds /\ step \in Steps /\ target = None /\ Idle
        /\ limit \in Nat /\ deadline \in Nat \cup {None}
    BY DEF Init, Kinds, Steps, Idle
  <2>2. /\ told \in [kind : Answers, proc : Proc \cup {None}, spent : Nat, timeout : Nat]
        /\ told.kind \notin {"done", "timeout", "stopped"}
    BY DEF Init, NoAnswer, Answers
  <2>3. /\ state \in [Proc -> {"none", "running", "over", "reaped"}]
        /\ pid \in [Proc -> Pid \cup {None}]
        /\ clock \in 0..MaxTime
    BY TimeAssumption DEF Init
  <2>. QED
    BY <2>1, <2>2, <2>3 DEF Init, ProcessTypeOK
<1>2. CallInv
  BY DEF Init, CallInv, RequestSteps, ChildSteps, ReadSteps, DaemonSteps
<1>3. SpentInv
  BY DEF Init, SpentInv
<1>4. OwnInv
  BY DEF Init, OwnInv, Held
<1>5. PidInv
  BY DEF Init, PidInv, Held
<1>6. AnswersAreTrue
  BY DEF Init, AnswersAreTrue, NoAnswer
<1>7. NothingIsLeftBehind
  BY DEF Init, NothingIsLeftBehind
<1>8. SignalsHitTheirOwn
  BY DEF Init, SignalsHitTheirOwn
<1>. QED
  BY <1>1, <1>2, <1>3, <1>4, <1>5, <1>6, <1>7, <1>8 DEF IInv

\* Whatever processes, other programs, the clock and the Gateway do, a call keeps
\* hold of what it is about, gives up only when its time is over, and ids are free
\* before they are given out.
THEOREM ProcessInvariance == Spec => []IInv
<1>1. Init => IInv
  BY InitHolds
<1>2. IInv /\ [Next]_vars => IInv'
  <2>. SUFFICES ASSUME IInv, [Next]_vars PROVE IInv'
    OBVIOUS
  <2>. USE DEF IInv
  <2>1. ProcessTypeOK'
    BY TypesNext
  <2>2. CallInv'
    BY CallNext
  <2>3. SpentInv'
    BY SpentNext
  <2>4. OwnInv'
    BY OwnNext
  <2>5. PidInv'
    BY PidNext
  <2>. QED
    BY <2>1, <2>2, <2>3, <2>4, <2>5
<1>. QED
  BY <1>1, <1>2, PTL DEF Spec

\* The variables keep their types, the call in progress its process.
THEOREM ProcessTypes == Spec => []ProcessTypeOK
<1>1. IInv => ProcessTypeOK
  BY DEF IInv
<1>. QED
  BY <1>1, ProcessInvariance, PTL

\* A process that run(), run_wait(), run_terminate() or stop_daemon() reports done,
\* timed out or stopped runs no more, and a timeout was really spent.
THEOREM AnswersTrue == Spec => []AnswersAreTrue
<1>1. Init => AnswersAreTrue
  BY InitHolds
<1>2. IInv /\ AnswersAreTrue /\ [Next]_vars => AnswersAreTrue'
  BY AnswerNext DEF IInv
<1>. QED
  BY <1>1, <1>2, ProcessInvariance, PTL DEF Spec

\* Only a call that raised leaves a process, a zombie or a capture file behind.
THEOREM NothingLeftBehind == Spec => []NothingIsLeftBehind
<1>1. Init => NothingIsLeftBehind
  BY InitHolds
<1>2. IInv /\ NothingIsLeftBehind /\ [Next]_vars => NothingIsLeftBehind'
  BY LeftNext DEF IInv
<1>. QED
  BY <1>1, <1>2, ProcessInvariance, PTL DEF Spec

\* No signal reaches a process that has been given the id of a child or a daemon.
THEOREM SignalsOwn == Spec => []SignalsHitTheirOwn
<1>1. Init => SignalsHitTheirOwn
  BY InitHolds
<1>2. IInv /\ SignalsHitTheirOwn /\ [Next]_vars => SignalsHitTheirOwn'
  BY SignalNext DEF IInv
<1>. QED
  BY <1>1, <1>2, ProcessInvariance, PTL DEF Spec
=============================================================================
