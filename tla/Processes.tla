------------------------------ MODULE Processes ------------------------------
(***************************************************************************)
(* External processes: run(), run_complete() (also spelled await run()),   *)
(* run_wait(), run_status(), run_terminate(), start_daemon() and           *)
(* stop_daemon().  With a Gateway attached the process belongs to the      *)
(* Gateway and every call is a request; without one it is a child of the   *)
(* runtime, polled, killed and reaped here.                                *)
(*                                                                         *)
(* The evaluator makes one call at a time; processes end when they like,   *)
(* other programs take free process ids, and time passes.  Output, exit    *)
(* codes, environments and the records' texts are left out, and so are     *)
(* daemon_status() and wait_port(), which only look.                       *)
(***************************************************************************)
EXTENDS Integers

CONSTANTS
  Proc, Pid, None,
  Backends,     \* where processes run: "gateway", "local"
  Faults,       \* what a request may meet: "refused", "lost" (the reply)
  Timeouts,     \* timeout_ms arguments
  Millisecond,  \* ticks of the clock in a millisecond
  Slice,        \* WAIT_SLICE of run_complete, in milliseconds
  Budget,       \* the longest first observation, in milliseconds
  MaxTime       \* bound: the clock of one call

ASSUME NoneAssumption == None \notin Proc
ASSUME BackendsAssumption == Backends \subseteq {"gateway", "local"}
ASSUME FaultsAssumption == Faults \subseteq {"refused", "lost"}
ASSUME TimeAssumption ==
  /\ Timeouts \subseteq Nat \ {0}
  /\ Millisecond \in Nat \ {0} /\ Slice \in Nat \ {0} /\ Budget \in Nat \ {0}
  /\ MaxTime \in Nat

VARIABLES
  backend,  \* gateway_runtime::enabled(), fixed for a task
  state,    \* of each process: "none", "running", "over" or "reaped"
  doomed,   \* processes that were sent SIGKILL
  pid,      \* the id each local process was given
  foreign,  \* ids that other programs' processes have
  stray,    \* history: a signal reached a process it was not meant for
  handles,  \* processes the program has a handle of
  raised,   \* history: processes of calls that ended with an error
  files,    \* local processes whose capture files exist
  verb,     \* the call being made: its kind,
  step,     \*   how far it is, "idle" without one,
  target,   \*   the process it is about,
  limit,    \*   its timeout_ms
  deadline, \*   and when the present wait ends, or None
  clock,    \* ticks since the call began
  told      \* what the last call returned

machine == <<state, doomed, pid, foreign, stray>>
call == <<verb, step, target, limit, deadline>>
vars == <<backend, machine, handles, raised, files, call, clock, told>>

Idle == step = "idle"
NoAnswer == [kind |-> "none", proc |-> None, spent |-> 0, timeout |-> 0]
Failure == [kind |-> "error", proc |-> None, spent |-> 0, timeout |-> 0]
Ticks(ms) == ms * Millisecond
Least(a, b) == IF a < b THEN a ELSE b

Init ==
  /\ backend \in Backends
  /\ state = [x \in Proc |-> "none"] /\ doomed = {}
  /\ pid = [x \in Proc |-> None] /\ foreign = {} /\ stray = FALSE
  /\ handles = {} /\ raised = {} /\ files = {}
  /\ verb = "none" /\ step = "idle" /\ target = None /\ limit = 0 /\ deadline = None
  /\ clock = 0 /\ told = NoAnswer

Begin(kind, x, timeout, first, until) ==
  /\ verb' = kind /\ step' = first /\ target' = x /\ limit' = timeout /\ deadline' = until
  /\ clock' = 0

Step(next) == step' = next /\ UNCHANGED <<verb, target, limit, deadline>>

End == verb' = "none" /\ step' = "idle" /\ target' = None /\ limit' = 0 /\ deadline' = None

Return(kind) ==
  /\ End
  /\ told' = [kind |-> kind, proc |-> target, spent |-> clock, timeout |-> Ticks(limit)]

Raise ==
  /\ End
  /\ told' = Failure
  /\ raised' = raised \cup {target}

-----------------------------------------------------------------------------
(* The machine *)

\* A zombie keeps its id until it is reaped.
Owners(p) == {x \in Proc : pid[x] = p /\ state[x] \in {"running", "over"}}
Free(p) == p \notin foreign /\ Owners(p) = {}

Exits(x) ==
  /\ state[x] = "running"
  /\ state' = [state EXCEPT ![x] = "over"]
  /\ UNCHANGED <<backend, doomed, pid, foreign, stray, handles, raised, files, call, clock, told>>

Dies(x) == x \in doomed /\ Exits(x)

ForeignStarts(p) ==
  /\ backend = "local" /\ Free(p)
  /\ foreign' = foreign \cup {p}
  /\ UNCHANGED <<backend, state, doomed, pid, stray, handles, raised, files, call, clock, told>>

ForeignEnds(p) ==
  /\ p \in foreign
  /\ foreign' = foreign \ {p}
  /\ UNCHANGED <<backend, state, doomed, pid, stray, handles, raised, files, call, clock, told>>

Tick ==
  /\ ~Idle /\ clock < MaxTime
  /\ clock' = clock + 1
  /\ UNCHANGED <<backend, machine, handles, raised, files, call, told>>

\* kill(2) with the id of x: whoever has that id is hit.
Signal(x) ==
  /\ stray' = (stray \/ pid[x] \in foreign \/ Owners(pid[x]) \ {x} # {})
  /\ UNCHANGED <<state, pid, foreign>>

-----------------------------------------------------------------------------
(* Requests to the Gateway.  A wait of 0 ms is one without limit. *)

Wait(ms) ==
  /\ step' = "observe"
  /\ deadline' = IF ms = 0 THEN None ELSE clock + Ticks(ms)
  /\ UNCHANGED <<verb, target, limit>>

\* linux.exec: the process is started and observed for a while.
Exec(kind, x, timeout) ==
  /\ backend = "gateway" /\ Idle
  /\ state[x] = "none"
  /\ state' = [state EXCEPT ![x] = "running"]
  /\ Begin(kind, x, timeout, "observe",
           Ticks(IF kind = "background" THEN 1 ELSE Least(timeout, Budget)))
  /\ UNCHANGED <<backend, doomed, pid, foreign, stray, handles, raised, files, told>>

ExecRefused ==
  /\ backend = "gateway" /\ Idle /\ "refused" \in Faults
  /\ told' = Failure
  /\ UNCHANGED <<backend, machine, handles, raised, files, call, clock>>

\* run_wait(), run_status(), and daemon_status() of a Gateway run.
Observe(x, timeout) ==
  /\ backend = "gateway" /\ Idle
  /\ x \in handles
  /\ Begin("wait", x, timeout, "observe", IF timeout = 0 THEN None ELSE Ticks(timeout))
  /\ UNCHANGED <<backend, machine, handles, raised, files, told>>

\* The Gateway answers when the process is over or the limit has passed.
Observed ==
  /\ step = "observe"
  /\ \/ state[target] # "running"
     \/ deadline # None /\ clock >= deadline
  /\ IF state[target] = "running" /\ verb = "complete"
       THEN Step("look") /\ UNCHANGED <<told, handles>>
       ELSE /\ Return(IF state[target] = "running" THEN "still_running" ELSE "done")
            /\ handles' = handles \cup {target}
  /\ UNCHANGED <<backend, machine, raised, files, clock>>

\* The reply of a request is lost, or it is refused after the process started.
RequestFails ==
  /\ step \in {"observe", "terminate"} /\ backend = "gateway"
  /\ Faults # {}
  /\ \/ UNCHANGED state
     \/ /\ step = "terminate" /\ "lost" \in Faults
        /\ state' = [state EXCEPT ![target] = "over"]
  /\ Raise
  /\ UNCHANGED <<backend, doomed, pid, foreign, stray, handles, files, clock>>

\* Faulty variant: every observation is given the whole timeout again.
LookRestarted ==
  /\ step = "look"
  /\ Wait(Least(limit, Slice))
  /\ UNCHANGED <<backend, machine, handles, raised, files, clock, told>>

\* The head of run_complete's loop: what remains of the total timeout is cut
\* to whole milliseconds.
Look ==
  LET remaining == Ticks(limit) - clock IN
  /\ step = "look"
  /\ IF remaining <= 0 THEN Step("terminate")
     ELSE Wait(Least(remaining \div Millisecond, Slice))
  /\ UNCHANGED <<backend, machine, handles, raised, files, clock, told>>

\* run_terminate(), and stop_daemon() of a Gateway run.
Terminate(x) ==
  /\ backend = "gateway" /\ Idle
  /\ x \in handles
  /\ Begin("terminate", x, 0, "terminate", None)
  /\ UNCHANGED <<backend, machine, handles, raised, files, told>>

\* The Gateway ends the run, if it is not over already; run_complete calls it a
\* timeout either way.
Terminated ==
  /\ step = "terminate"
  /\ state' = [state EXCEPT ![target] = "over"]
  /\ Return(IF verb = "complete" THEN "timeout" ELSE "stopped")
  /\ UNCHANGED <<backend, doomed, pid, foreign, stray, handles, raised, files, clock>>

-----------------------------------------------------------------------------
(* Children of the runtime *)

Fork(x, p) ==
  /\ backend = "local" /\ Idle
  /\ state[x] = "none" /\ Free(p)
  /\ state' = [state EXCEPT ![x] = "running"]
  /\ pid' = [pid EXCEPT ![x] = p]
  /\ UNCHANGED <<doomed, foreign, stray>>

\* run() up to the spawn; fed says that there is standard input to write.
RunLocal(x, p, timeout, fed) ==
  /\ Fork(x, p)
  /\ files' = files \cup {x}
  /\ Begin("run", x, timeout, IF fed THEN "feed" ELSE "poll", None)
  /\ UNCHANGED <<backend, handles, raised, told>>

\* The spawn fails: the capture files are removed again.
SpawnFails ==
  /\ backend = "local" /\ Idle
  /\ told' = Failure
  /\ UNCHANGED <<backend, machine, handles, raised, files, call, clock>>

\* write_all returns once the pipe has taken the input: if it is longer than the
\* pipe, when the child reads it.
Fed ==
  /\ step = "feed"
  /\ Step("poll")
  /\ UNCHANGED <<backend, machine, handles, raised, files, clock, told>>

\* The child closed its end: run() fails and leaves child and files as they are.
FeedFails ==
  /\ step = "feed"
  /\ Raise
  /\ UNCHANGED <<backend, machine, handles, files, clock>>

Reaped == [state EXCEPT ![target] = "reaped"]

\* Faulty variant: any child that is over is reaped.
PollAny ==
  /\ step = "poll"
  /\ state' = [x \in Proc |-> IF state[x] = "over" THEN "reaped" ELSE state[x]]
  /\ Step(IF state[target] = "over" THEN "read" ELSE "expire")
  /\ UNCHANGED <<backend, doomed, pid, foreign, stray, handles, raised, files, clock, told>>

\* try_wait, which reaps a child that is over.
Poll ==
  /\ step = "poll"
  /\ IF state[target] = "over"
       THEN state' = Reaped /\ Step("read")
       ELSE Step("expire") /\ UNCHANGED state
  /\ UNCHANGED <<backend, doomed, pid, foreign, stray, handles, raised, files, clock, told>>

\* The clock is read after try_wait; the child may have ended in between.
Expire ==
  /\ step = "expire"
  /\ Step(IF clock >= Ticks(limit) THEN "kill" ELSE "poll")
  /\ UNCHANGED <<backend, machine, handles, raised, files, clock, told>>

\* Faulty variant: the killed child is not waited for.
KillUnreaped ==
  /\ step = "kill"
  /\ doomed' = doomed \cup {target}
  /\ Signal(target)
  /\ Step("read late")
  /\ UNCHANGED <<backend, handles, raised, files, clock, told>>

Kill ==
  /\ step = "kill"
  /\ doomed' = doomed \cup {target}
  /\ Signal(target)
  /\ Step("reap")
  /\ UNCHANGED <<backend, handles, raised, files, clock, told>>

Reap ==
  /\ step = "reap" /\ state[target] = "over"
  /\ state' = Reaped
  /\ Step("read late")
  /\ UNCHANGED <<backend, doomed, pid, foreign, stray, handles, raised, files, clock, told>>

\* The captured output is read and the files are removed, unless reading fails.
Read ==
  /\ step \in {"read", "read late"}
  /\ \/ /\ files' = files \ {target}
        /\ Return(IF step = "read" THEN "done" ELSE "timeout")
        /\ UNCHANGED raised
     \/ Raise /\ UNCHANGED files
  /\ UNCHANGED <<backend, machine, handles, clock>>

-----------------------------------------------------------------------------
(* Daemons *)

\* The child is forgotten: nobody ever reaps it.
StartDaemon(x, p) ==
  /\ Fork(x, p)
  /\ handles' = handles \cup {x}
  /\ told' = [kind |-> "started", proc |-> x, spent |-> 0, timeout |-> 0]
  /\ UNCHANGED <<backend, raised, files, call, clock>>

\* process_alive: a zombie is not alive, an id that somebody else has is.
Alive(x) == state[x] = "running" \/ pid[x] \in foreign \/ Owners(pid[x]) \ {x} # {}

\* stop_daemon: SIGTERM, which a daemon may ignore.
Stop(x, timeout) ==
  /\ backend = "local" /\ Idle
  /\ x \in handles
  /\ Signal(x)
  /\ Begin("stop", x, timeout, "stopping", Ticks(timeout))
  /\ UNCHANGED <<backend, doomed, handles, raised, files, told>>

AwaitStop ==
  /\ step = "stopping"
  /\ ~Alive(target) \/ clock >= deadline
  /\ Step(IF Alive(target) THEN "kill daemon" ELSE "judge")
  /\ UNCHANGED <<backend, machine, handles, raised, files, clock, told>>

KillDaemon ==
  /\ step = "kill daemon"
  /\ doomed' = IF state[target] = "running" THEN doomed \cup {target} ELSE doomed
  /\ Signal(target)
  /\ Step("judge")
  /\ UNCHANGED <<backend, handles, raised, files, clock, told>>

\* Faulty variant: SIGKILL is taken to have worked.
JudgeByKill ==
  /\ step = "judge"
  /\ Return("stopped")
  /\ UNCHANGED <<backend, machine, handles, raised, files, clock>>

\* One more look, 50 ms after the kill.
Judge ==
  /\ step = "judge"
  /\ Return(IF Alive(target) THEN "still_running" ELSE "stopped")
  /\ UNCHANGED <<backend, machine, handles, raised, files, clock>>

-----------------------------------------------------------------------------
\* What the runtime and the Gateway do of their own accord once a call is made.
Serve ==
  \/ Observed \/ Look \/ Terminated
  \/ Poll \/ Expire \/ Kill \/ Reap \/ Read
  \/ AwaitStop \/ KillDaemon \/ Judge

Program ==
  \E x \in Proc :
    \/ \E timeout \in Timeouts :
         \/ \E kind \in {"run", "background", "complete"} : Exec(kind, x, timeout)
         \/ \E p \in Pid, fed \in BOOLEAN : RunLocal(x, p, timeout, fed)
         \/ Stop(x, timeout)
    \/ \E timeout \in Timeouts \cup {0} : Observe(x, timeout)
    \/ Terminate(x)
    \/ \E p \in Pid : StartDaemon(x, p)

Environment ==
  \/ \E x \in Proc : Exits(x)
  \/ \E p \in Pid : ForeignStarts(p) \/ ForeignEnds(p)
  \/ ExecRefused \/ RequestFails \/ SpawnFails
  \/ Fed \/ FeedFails
  \/ Tick

Next == Program \/ Serve \/ Environment

\* The evaluator and the Gateway make progress, time passes and SIGKILL works in
\* the end; programs, processes and faults are free.
Fairness ==
  /\ WF_vars(Serve) /\ WF_vars(Tick)
  /\ \A x \in Proc : WF_vars(Dies(x))

Spec == Init /\ [][Next]_vars /\ Fairness

-----------------------------------------------------------------------------
(* Properties *)

Over(x) == state[x] \in {"over", "reaped"}

Kinds == {"none", "run", "background", "complete", "wait", "terminate", "stop"}
Steps == {"idle", "observe", "look", "terminate", "feed", "poll", "expire", "kill", "reap",
          "read", "read late", "stopping", "kill daemon", "judge"}
Answers == {"none", "error", "done", "timeout", "stopped", "still_running", "started"}

\* Type invariant of the external processes.
ProcessTypeOK ==
  /\ backend \in Backends
  /\ state \in [Proc -> {"none", "running", "over", "reaped"}]
  /\ doomed \subseteq Proc /\ foreign \subseteq Pid /\ stray \in BOOLEAN
  /\ pid \in [Proc -> Pid \cup {None}]
  /\ handles \subseteq Proc /\ raised \subseteq Proc /\ files \subseteq Proc
  /\ verb \in Kinds /\ step \in Steps /\ target \in Proc \cup {None}
  /\ limit \in Nat /\ deadline \in Nat \cup {None}
  /\ Idle => target = None
  /\ ~Idle => target \in Proc
  /\ clock \in 0..MaxTime
  /\ told \in [kind : Answers, proc : Proc \cup {None}, spent : Nat, timeout : Nat]
  /\ told.kind \in {"done", "timeout", "stopped"} => told.proc \in Proc

\* An answer says what is: a process reported done, timed out or stopped runs no
\* more, and a timeout is reported only when the whole timeout was spent.
AnswersAreTrue ==
  /\ told.kind \in {"done", "timeout", "stopped"} => Over(told.proc)
  /\ told.kind = "timeout" => told.spent >= told.timeout

\* Only a call that raised an error leaves anything behind: every running process
\* is in the hands of the program or of a call, run() that returns has reaped its
\* child, so that only daemons become zombies, and has removed its capture files.
NothingIsLeftBehind ==
  \A x \in Proc \ raised :
    /\ state[x] = "running" => x \in handles \/ x = target
    /\ backend = "local" /\ state[x] = "over" => x \in handles \/ x = target
    /\ x \in files => x = target

\* SIGTERM and SIGKILL reach the child or daemon they are meant for, though ids
\* are used again: a zombie nobody reaps keeps its id.
SignalsHitTheirOwn == ~stray

\* A call with a timeout ends, whatever its process does: run() from the time its
\* input is written.
CallsEnd ==
  /\ verb = "run" /\ step = "poll" ~> Idle
  /\ \A kind \in {"background", "complete", "stop", "terminate"} :
       verb = kind ~> Idle
=============================================================================
