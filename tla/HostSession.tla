---------------------------- MODULE HostSession ----------------------------
(***************************************************************************)
(* The warm session of the host's MCP server: one waymark process, the     *)
(* guest, that serves task frames over its standard input and output and   *)
(* keeps a Stone session from call to call.  The host makes one call at a  *)
(* time, waits with a deadline, and replaces the guest after any failure.  *)
(*                                                                         *)
(* A result frame carries the id of its task, which the host never         *)
(* compares: that an answer belongs to its call rests on the order of      *)
(* frames and on getting rid of every guest that still owes one.           *)
(*                                                                         *)
(* What a program computes is left out: a call is its number, a session    *)
(* the set of calls whose bindings it holds.                               *)
(***************************************************************************)
EXTENDS Integers, Sequences

CONSTANTS
  Guest, None,
  MaxCalls,  \* bound: calls the client makes
  Faults     \* what may go wrong: "crash" (of a guest), "steal" (a frame),
             \* "refuse" (a frame), "spawn" (of a guest), "host" (a crash of it)

ASSUME HostAssumption ==
  /\ MaxCalls \in Nat
  /\ None \notin Guest
  /\ Faults \subseteq {"crash", "steal", "refuse", "spawn", "host"}

VARIABLES
  \* the host
  proc,      \* WarmStdioBackend.proc
  step,      \* of eval(): "idle", "start", "send", "await" or "fail"
  call,      \* the number of the latest call, next_id
  late,      \* the deadline of the call has passed
  \* the guests
  state,     \* of each: "none", "reading", "evaluating", "answering" or "dead"
  request,   \* frames in its standard input
  reply,     \* frames in its standard output
  task,      \* the call it evaluates
  session,   \* calls whose bindings it holds
  piped,     \* guests whose pipes a host still holds
  \* history
  answer,    \* of each call: "none", "result", "timeout", "failed" or "nobody"
  source,    \* the call whose result it was answered with
  evaluated, \* how often each call was evaluated
  memory     \* calls whose bindings the client may count on

host == <<proc, step, call, late>>
guests == <<state, request, reply, task, session, piped>>
history == <<answer, source, evaluated, memory>>
vars == <<host, guests, history>>

Call == 1..MaxCalls
Alive(g) == g \in Guest /\ state[g] \in {"reading", "evaluating", "answering"}

Init ==
  /\ proc = None /\ step = "idle" /\ call = 0 /\ late = FALSE
  /\ state = [g \in Guest |-> "none"]
  /\ request = [g \in Guest |-> <<>>] /\ reply = [g \in Guest |-> <<>>]
  /\ task = [g \in Guest |-> None] /\ session = [g \in Guest |-> {}]
  /\ piped = {}
  /\ answer = [n \in Call |-> "none"] /\ source = [n \in Call |-> None]
  /\ evaluated = [n \in Call |-> 0] /\ memory = {}

-----------------------------------------------------------------------------
(* The host *)

\* A tool call of the client reaches eval().
Begin ==
  /\ step = "idle" /\ call < MaxCalls
  /\ call' = call + 1 /\ step' = "start" /\ late' = FALSE
  /\ UNCHANGED <<proc, guests, history>>

SpawnAs(g) ==
  /\ state[g] = "none"
  /\ state' = [state EXCEPT ![g] = "reading"]
  /\ piped' = piped \cup {g}
  /\ proc' = g /\ step' = "send"
  /\ UNCHANGED <<call, late, request, reply, task, session, history>>

\* Faulty variant: a new guest for every call.
EnsureStartedFresh ==
  /\ step = "start"
  /\ \E g \in Guest : SpawnAs(g)

\* ensure_started(): a guest that has not ended is kept, otherwise one is spawned.
EnsureStarted ==
  /\ step = "start"
  /\ \/ /\ Alive(proc)
        /\ step' = "send"
        /\ UNCHANGED <<proc, call, late, guests, history>>
     \/ /\ ~Alive(proc)
        /\ \/ \E g \in Guest : SpawnAs(g)
           \/ /\ "spawn" \in Faults
              /\ step' = "fail"
              /\ UNCHANGED <<proc, call, late, guests, history>>

\* next_task_id() and write_frame(): the pipe of a guest that ended is broken.
Send ==
  /\ step = "send"
  /\ IF Alive(proc)
       THEN /\ request' = [request EXCEPT ![proc] = Append(@, call)]
            /\ step' = "await"
       ELSE /\ step' = "fail"
            /\ UNCHANGED request
  /\ UNCHANGED <<proc, call, late, state, reply, task, session, piped, history>>

\* read_frame() returns: the call is answered with what came.
Receive ==
  /\ step = "await" /\ reply[proc] # <<>>
  /\ reply' = [reply EXCEPT ![proc] = Tail(@)]
  /\ answer' = [answer EXCEPT ![call] = "result"]
  /\ source' = [source EXCEPT ![call] = Head(reply[proc])]
  /\ memory' = IF Alive(proc) THEN memory \cup {call} ELSE {}
  /\ step' = "idle"
  /\ UNCHANGED <<proc, call, late, state, request, task, session, piped, evaluated>>

\* The guest ended before it answered: end of file.
EndOfFile ==
  /\ step = "await" /\ reply[proc] = <<>> /\ ~Alive(proc)
  /\ step' = "fail"
  /\ UNCHANGED <<proc, call, late, guests, history>>

\* Time passes while the host waits; a reply may arrive at the same moment.
Tick ==
  /\ step = "await" /\ ~late
  /\ late' = TRUE
  /\ UNCHANGED <<proc, step, call, guests, history>>

Settle(kind) ==
  /\ answer' = [answer EXCEPT ![call] = kind]
  /\ memory' = {}
  /\ UNCHANGED <<source, evaluated>>

\* Faulty variant: the call is given up and the guest kept.
KeepGuest(kind) ==
  /\ step' = "idle"
  /\ Settle(kind)
  /\ UNCHANGED <<proc, call, late, guests>>

\* close(kill=True): the guest is killed and reaped, its pipes are closed, and
\* only then is the call answered.
KillGuest(kind) ==
  /\ proc' = None /\ step' = "idle"
  /\ state' = [g \in Guest |-> IF g = proc THEN "dead" ELSE state[g]]
  /\ piped' = piped \ {proc}
  /\ Settle(kind)
  /\ UNCHANGED <<call, late, request, reply, task, session>>

\* Faulty variant: the wait has no deadline.
ExpireNever == FALSE /\ KillGuest("timeout")

\* read_exact() runs into the deadline.
Expire == step = "await" /\ late /\ KillGuest("timeout")

Fail == step = "fail" /\ KillGuest("failed")

\* The host ends: at the end of its input it asks the guest to shut down and
\* waits; the client may start it again.
Shutdown ==
  /\ step = "idle" /\ proc # None
  /\ proc' = None
  /\ state' = [state EXCEPT ![proc] = "dead"]
  /\ piped' = piped \ {proc}
  /\ memory' = {}
  /\ UNCHANGED <<step, call, late, request, reply, task, session, answer, source, evaluated>>

\* The host dies, in the middle of a call or between two: nobody answers.
HostCrashes ==
  /\ "host" \in Faults
  /\ step # "idle" \/ proc # None
  /\ proc' = None /\ step' = "idle"
  /\ piped' = piped \ {proc}
  /\ answer' = IF step = "idle" THEN answer ELSE [answer EXCEPT ![call] = "nobody"]
  /\ memory' = {}
  /\ UNCHANGED <<call, late, state, request, reply, task, session, source, evaluated>>

-----------------------------------------------------------------------------
(* A guest: run_task_server_stream() *)

\* The frame is a task for this guest: it is evaluated in the guest's session.
Accept(g) ==
  LET n == Head(request[g]) IN
  /\ state[g] = "reading" /\ request[g] # <<>>
  /\ request' = [request EXCEPT ![g] = Tail(@)]
  /\ state' = [state EXCEPT ![g] = "evaluating"]
  /\ task' = [task EXCEPT ![g] = n]
  /\ evaluated' = [evaluated EXCEPT ![n] = @ + 1]
  /\ UNCHANGED <<host, reply, session, piped, answer, source, memory>>

\* The frame is too long or no JSON the guest reads: the server ends.
Refuse(g) ==
  /\ "refuse" \in Faults
  /\ state[g] = "reading" /\ request[g] # <<>>
  /\ state' = [state EXCEPT ![g] = "dead"]
  /\ UNCHANGED <<host, request, reply, task, session, piped, history>>

\* The program ends, with or without an error, and leaves its bindings.
Finish(g) ==
  /\ state[g] = "evaluating"
  /\ state' = [state EXCEPT ![g] = "answering"]
  /\ session' = [session EXCEPT ![g] = @ \cup {task[g]}]
  /\ UNCHANGED <<host, request, reply, task, piped, history>>

\* write_frame(): with the pipe closed the server ends.
Reply(g) ==
  /\ state[g] = "answering"
  /\ IF g \in piped
       THEN /\ reply' = [reply EXCEPT ![g] = Append(@, task[g])]
            /\ state' = [state EXCEPT ![g] = "reading"]
       ELSE /\ state' = [state EXCEPT ![g] = "dead"]
            /\ UNCHANGED reply
  /\ task' = [task EXCEPT ![g] = None]
  /\ UNCHANGED <<host, request, session, piped, history>>

\* End of input.
Leave(g) ==
  /\ state[g] = "reading" /\ g \notin piped /\ request[g] = <<>>
  /\ state' = [state EXCEPT ![g] = "dead"]
  /\ UNCHANGED <<host, request, reply, task, session, piped, history>>

\* A guest with no call in hand that dies takes its session with it, and nobody
\* tells the client.
Crash(g) ==
  /\ "crash" \in Faults /\ Alive(g)
  /\ state' = [state EXCEPT ![g] = "dead"]
  /\ memory' = IF g = proc /\ step \in {"idle", "start"} THEN {} ELSE memory
  /\ UNCHANGED <<host, request, reply, task, session, piped, answer, source, evaluated>>

\* A process that an earlier program left behind shares the guest's standard
\* input and reads the frame in its place.
Steal(g) ==
  /\ "steal" \in Faults
  /\ session[g] # {} /\ request[g] # <<>>
  /\ request' = [request EXCEPT ![g] = Tail(@)]
  /\ UNCHANGED <<host, state, reply, task, session, piped, history>>

-----------------------------------------------------------------------------
HostStep == EnsureStarted \/ Send \/ Receive \/ EndOfFile \/ Expire \/ Fail
GuestStep(g) == Accept(g) \/ Finish(g) \/ Reply(g) \/ Leave(g)

Next ==
  \/ Begin \/ HostStep \/ Tick \/ Shutdown \/ HostCrashes
  \/ \E g \in Guest : GuestStep(g) \/ Refuse(g) \/ Crash(g) \/ Steal(g)

\* The host runs and time passes; nothing is assumed of guests, whose programs
\* may never end.
Fairness == WF_vars(HostStep) /\ WF_vars(Tick)

Spec == Init /\ [][Next]_vars /\ Fairness

-----------------------------------------------------------------------------
(* Properties *)

\* Type invariant of the session.
SessionTypeOK ==
  /\ proc \in Guest \cup {None}
  /\ step \in {"idle", "start", "send", "await", "fail"}
  /\ call \in 0..MaxCalls /\ late \in BOOLEAN
  /\ state \in [Guest -> {"none", "reading", "evaluating", "answering", "dead"}]
  /\ request \in [Guest -> Seq(Call)] /\ reply \in [Guest -> Seq(Call)]
  /\ task \in [Guest -> Call \cup {None}]
  /\ session \in [Guest -> SUBSET Call] /\ piped \subseteq Guest
  /\ answer \in [Call -> {"none", "result", "timeout", "failed", "nobody"}]
  /\ source \in [Call -> Call \cup {None}]
  /\ evaluated \in [Call -> Nat] /\ memory \subseteq Call

\* The result a call is answered with is its own, and the call was evaluated once:
\* nothing is repeated, and no answer of an earlier call is read late.
AnswersAreOwn ==
  \A n \in Call :
    /\ evaluated[n] <= 1
    /\ answer[n] = "result" => source[n] = n /\ evaluated[n] = 1

\* Two calls are never evaluated side by side: a guest evaluates the call in hand,
\* or one of a host that died.
OneCallEvaluates ==
  \A g \in Guest :
    state[g] \in {"evaluating", "answering"} =>
      \/ g = proc /\ step = "await" /\ task[g] = call
      \/ answer[task[g]] = "nobody"

\* No call meets another: neither its answer nor its evaluation (eval).
CallsAreApart == AnswersAreOwn /\ OneCallEvaluates

\* Bindings last: a call is evaluated in a session that holds those of every call
\* answered before it, unless the client was told of a failure, started a new
\* host, or the guest died between two calls.
BindingsLast ==
  step = "await" /\ state[proc] \in {"evaluating", "answering"} =>
    memory \subseteq session[proc]

\* Every call is answered, unless the host itself dies.
CallsAreAnswered == step # "idle" ~> step = "idle"
=============================================================================
