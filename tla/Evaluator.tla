----------------------------- MODULE Evaluator -----------------------------
(***************************************************************************)
(* The tree evaluator of Stone programs.  Its recursion is a stack of      *)
(* frames, one for every construct that is being evaluated, and the state  *)
(* it carries along (scopes of locals and files, errors caught, async      *)
(* depth, the hook flag, the transition log) must agree with that stack    *)
(* however control leaves a construct: by the end of its block, break,     *)
(* continue, return or an error.  What survives an evaluation is the       *)
(* session the next one starts from.                                       *)
(*                                                                         *)
(* A program is the choice of what to evaluate next.  A value is plain     *)
(* data, a file handle or a lambda with its captures; an effect (run(),    *)
(* model_call()) is its outcome, and of a run the helpers that observe it. *)
(* Attempt scopes, frontiers, workflows and compiled loops have modules of *)
(* their own.                                                              *)
(***************************************************************************)
EXTENDS Integers, Sequences, FiniteSets

CONSTANTS
  Name, None,
  Error,           \* errors programs tell apart
  Hooks,           \* how a call of an effect is hooked: records of pre and post,
                   \* each None, "callable" or "name"
  MaxFrames,       \* bound: constructs nested
  MaxFiles,        \* bound: files opened
  MaxEvents,       \* bound: events logged when an effect may start
  MaxRetries,      \* bound: retries of model_infer()
  MaxEvaluations,  \* bound: evaluations of the session
  MaxSteps         \* bound: expressions and statements evaluated in all

ASSUME EvaluatorAssumption ==
  /\ MaxFrames \in Nat /\ MaxFiles \in Nat /\ MaxEvents \in Nat
  /\ MaxRetries \in Nat /\ MaxEvaluations \in Nat /\ MaxSteps \in Nat
  /\ None \notin Name \cup Error
  /\ Hooks \subseteq [pre : {None, "callable", "name"}, post : {None, "callable", "name"}]

VARIABLES
  running,  \* an evaluation is under way
  flow,     \* EvalFlow or an error on its way out: "run", "end", "break",
            \* "continue", "return" or "raise"
  value,    \* of the expression evaluated last, or returned
  error,    \* the error on its way out
  frames,   \* constructs being evaluated, innermost last
  scopes, nextFile, caught, asyncs, hooking, transitions, log,  \* EvalState
  session,  \* StoneSession: locals and next_transition_id
  \* history
  evaluations, opened, managed, executed, steps

steady == <<running, session, evaluations>>
control == <<flow, value, error, frames>>
context == <<caught, asyncs, hooking>>
events == <<transitions, log, executed>>
files == <<nextFile, opened, managed>>
vars == <<steady, control, scopes, context, events, files, steps>>

Data == [kind |-> "data"]
IsFile(v) == v # None /\ v.kind = "file"
IsLambda(v) == v # None /\ v.kind = "lambda"

Top(s) == s[Len(s)]
Pop(s) == SubSeq(s, 1, Len(s) - 1)
NewScope(locals) == [locals |-> locals, files |-> {}]
NoLocals == [n \in Name |-> None]
With(locals, n, v) == [locals EXCEPT ![n] = v]

\* get_local(): the innermost scope that has the name.
Lookup(n) ==
  LET at == {i \in 1..Len(scopes) : scopes[i].locals[n] # None} IN
  IF at = {} THEN None
  ELSE scopes[CHOOSE i \in at : \A j \in at : j <= i].locals[n]

Init ==
  /\ running = FALSE /\ flow = "end" /\ value = Data /\ error = None
  /\ frames = <<>> /\ scopes = <<>> /\ nextFile = 0
  /\ caught = <<>> /\ asyncs = 0 /\ hooking = FALSE
  /\ transitions = 0 /\ log = <<>>
  /\ session = [locals |-> NoLocals, transitions |-> 0]
  /\ evaluations = 0 /\ opened = 0 /\ managed = {} /\ executed = {} /\ steps = 0

-----------------------------------------------------------------------------
(* Evaluations *)

\* A program is evaluated in the session: its locals are the root scope, which
\* has no files, and everything else starts anew.
Begin ==
  /\ ~running /\ evaluations < MaxEvaluations
  /\ running' = TRUE /\ evaluations' = evaluations + 1
  /\ flow' = "run" /\ value' = Data /\ error' = None /\ frames' = <<>>
  /\ scopes' = <<NewScope(session.locals)>>
  /\ nextFile' = 0 /\ caught' = <<>> /\ asyncs' = 0 /\ hooking' = FALSE
  /\ transitions' = session.transitions
  /\ UNCHANGED <<log, executed, session, opened, managed>>

\* Faulty variant: every value persists.
PersistableAny(v) == v # None

\* is_session_persistable()
Persistable(v) ==
  /\ v # None /\ ~IsFile(v)
  /\ IsLambda(v) => \A n \in Name : ~IsFile(v.captures[n])

\* What the session takes over: the locals of the root scope that may persist and
\* the number of the last transition.
Carried ==
  [locals |-> [n \in Name |-> IF Persistable(scopes[1].locals[n]) THEN scopes[1].locals[n]
                             ELSE None],
   transitions |-> transitions]

\* The program ends, well or with an error; break, continue and return outside
\* their construct are errors.
Finish ==
  /\ running /\ frames = <<>> /\ flow # "run"
  /\ running' = FALSE /\ session' = Carried
  /\ flow' = "end" /\ value' = Data /\ error' = None
  /\ scopes' = <<>> /\ nextFile' = 0
  /\ UNCHANGED <<frames, context, events, opened, managed, evaluations>>

-----------------------------------------------------------------------------
(* Expressions and statements *)

InnerKind == IF frames = <<>> THEN "module" ELSE Top(frames).kind

\* A lambda evaluates an expression, every other body statements.
Expression == /\ running /\ flow = "run"
              /\ InnerKind \notin {"hook", "transition", "infer"}
Statement == Expression /\ InnerKind # "lambda"

Push(frame) == Len(frames) < MaxFrames /\ frames' = Append(frames, frame)
RaiseIt(e) == flow' = "raise" /\ error' = e /\ value' = Data

\* A literal, a name, or a built-in call that may fail.
Literal ==
  /\ Expression /\ value # Data
  /\ value' = Data
  /\ UNCHANGED <<steady, flow, error, frames, scopes, context, events, files>>

Refer(n) ==
  /\ Expression /\ Lookup(n) \notin {None, value}
  /\ value' = Lookup(n)
  /\ UNCHANGED <<steady, flow, error, frames, scopes, context, events, files>>

Fail(e) ==
  /\ Expression
  /\ RaiseIt(e)
  /\ UNCHANGED <<steady, frames, scopes, context, events, files>>

Assign(n) ==
  /\ Statement /\ Top(scopes).locals[n] # value
  /\ scopes' = [scopes EXCEPT ![Len(scopes)].locals[n] = value]
  /\ value' = Data
  /\ UNCHANGED <<steady, flow, error, frames, context, events, files>>

\* open(): the file belongs to the innermost scope.
Open ==
  /\ Expression /\ opened < MaxFiles
  /\ scopes' = [scopes EXCEPT ![Len(scopes)].files =
                  @ \cup {[id |-> nextFile, file |-> opened + 1, open |-> TRUE]}]
  /\ value' = [kind |-> "file", scope |-> Len(scopes), id |-> nextFile, file |-> opened + 1]
  /\ nextFile' = nextFile + 1 /\ opened' = opened + 1
  /\ UNCHANGED <<steady, flow, error, frames, context, events, managed>>

\* file_mut(): the file of a handle, if its scope still has it.
FileOf(h) ==
  IF h.scope <= Len(scopes) THEN {f \in scopes[h.scope].files : f.id = h.id} ELSE {}

Closed(h) == [scopes EXCEPT ![h.scope].files =
               {IF f.id = h.id THEN [f EXCEPT !.open = FALSE] ELSE f : f \in @}]

\* read(), write() and their kin fail without an open file, close() only without
\* a file.
FileMethod(method) ==
  LET found == FileOf(value) IN
  /\ Expression /\ IsFile(value)
  /\ IF found = {} \/ (method = "use" /\ \A f \in found : ~f.open)
       THEN /\ \E e \in Error : RaiseIt(e)
            /\ UNCHANGED scopes
       ELSE /\ scopes' = IF method = "close" THEN Closed(value) ELSE scopes
            /\ value' = Data
            /\ UNCHANGED <<flow, error>>
  /\ UNCHANGED <<steady, frames, context, events, files>>

\* A lambda captures every visible local (bound: no lambda among them).
MakeLambda ==
  /\ Expression
  /\ \A n \in Name : ~IsLambda(Lookup(n))
  /\ value' = [kind |-> "lambda", captures |-> [n \in Name |-> Lookup(n)]]
  /\ UNCHANGED <<steady, flow, error, frames, scopes, context, events, files>>

\* Arguments are evaluated, and may fail, before the scope is pushed.
CallLambda ==
  /\ Expression /\ IsLambda(value)
  /\ Push([kind |-> "lambda"])
  /\ scopes' = Append(scopes, NewScope(value.captures))
  /\ value' = Data
  /\ UNCHANGED <<steady, flow, error, context, events, files>>

CallFunction(isAsync, n) ==
  /\ Expression
  /\ Push([kind |-> "function", async |-> isAsync])
  /\ scopes' = Append(scopes, NewScope(With(NoLocals, n, value)))
  /\ value' = Data
  /\ asyncs' = IF isAsync THEN asyncs + 1 ELSE asyncs
  /\ UNCHANGED <<steady, flow, error, caught, hooking, events, files>>

\* A for or while loop assigns to its targets in the scope it stands in.
Loop ==
  /\ Statement /\ Push([kind |-> "loop"])
  /\ value' = Data
  /\ UNCHANGED <<steady, flow, error, scopes, context, events, files>>

Try(n) ==
  /\ Statement /\ Push([kind |-> "try", name |-> n])
  /\ value' = Data
  /\ UNCHANGED <<steady, flow, error, scopes, context, events, files>>

\* with: the statement keeps the resource it entered with, whatever becomes of
\* the name it is bound to.
WithFile(n) ==
  /\ Statement /\ IsFile(value)
  /\ Push([kind |-> "with", resource |-> value])
  /\ scopes' = IF n = None THEN scopes
               ELSE [scopes EXCEPT ![Len(scopes)].locals[n] = value]
  /\ managed' = managed \cup {value.file}
  /\ value' = Data
  /\ UNCHANGED <<steady, flow, error, context, events, nextFile, opened>>

\* A bare raise raises what the innermost handler caught.
Reraise ==
  /\ Statement
  /\ IF caught = <<>> THEN \E e \in Error : RaiseIt(e) ELSE RaiseIt(Top(caught))
  /\ UNCHANGED <<steady, frames, scopes, context, events, files>>

\* async with takes no file: inside async def the file is closed all the same.
AsyncWithFile ==
  /\ Statement /\ IsFile(value)
  /\ \E e \in Error : RaiseIt(e)
  /\ scopes' = IF asyncs > 0 /\ FileOf(value) # {} THEN Closed(value) ELSE scopes
  /\ UNCHANGED <<steady, frames, context, events, files>>

\* The end of a block, or a statement that leaves it.
Exit(how) ==
  /\ IF how = "end" THEN Expression ELSE Statement
  /\ flow' = how
  /\ value' = IF how = "return" \/ InnerKind = "lambda" THEN value ELSE Data
  /\ UNCHANGED <<steady, error, frames, scopes, context, events, files>>
-----------------------------------------------------------------------------
(* Leaving a construct, by whatever flow *)

Leaving(kind) == running /\ flow # "run" /\ InnerKind = kind

\* What follows a construct that ended: the next statement of the block around it.
Onward == IF flow = "end" THEN "run" ELSE flow

\* The end of an iteration may be the last one's, and what decides it may fail.
LeaveLoop ==
  /\ Leaving("loop")
  /\ \/ /\ flow \in {"end", "continue"}
        /\ flow' = "run"
        /\ UNCHANGED <<value, error, frames>>
     \/ /\ flow \in {"end", "continue", "break"}
        /\ flow' = "run" /\ frames' = Pop(frames)
        /\ UNCHANGED <<value, error>>
     \/ /\ IF flow \in {"return", "raise"}
             THEN UNCHANGED <<flow, value, error>>
             ELSE flow # "break" /\ \E e \in Error : RaiseIt(e)
        /\ frames' = Pop(frames)
  /\ UNCHANGED <<steady, scopes, context, events, files>>

\* An error of the body starts the first handler, in a scope of its own.
LeaveTry ==
  LET name == Top(frames).name IN
  /\ Leaving("try")
  /\ IF flow = "raise"
       THEN /\ frames' = Append(Pop(frames), [kind |-> "handler", name |-> name, error |-> error])
            /\ scopes' = Append(scopes, NewScope(IF name = None THEN NoLocals
                                                 ELSE With(NoLocals, name, Data)))
            /\ caught' = Append(caught, error)
            /\ flow' = "run" /\ error' = None
       ELSE /\ frames' = Pop(frames) /\ flow' = Onward
            /\ UNCHANGED <<scopes, caught, error>>
  /\ UNCHANGED <<steady, value, asyncs, hooking, events, files>>

\* pop_scope_merging_nu_locals(): plain data the handler assigned is kept.
Merged(excluded) ==
  LET inner == Top(scopes).locals
      outer == Pop(scopes) IN
  [outer EXCEPT ![Len(outer)].locals =
     [n \in Name |-> IF n # excluded /\ inner[n] = Data THEN Data ELSE @[n]]]

\* Faulty variant: an error of the handler skips the clean-up.
LeaveHandlerOnSuccess ==
  /\ Leaving("handler")
  /\ IF flow = "raise" THEN UNCHANGED <<caught, scopes>>
     ELSE caught' = Pop(caught) /\ scopes' = Merged(Top(frames).name)
  /\ frames' = Pop(frames) /\ flow' = Onward
  /\ UNCHANGED <<steady, value, error, asyncs, hooking, events, files>>

LeaveHandler ==
  /\ Leaving("handler")
  /\ caught' = Pop(caught) /\ scopes' = Merged(Top(frames).name)
  /\ frames' = Pop(frames) /\ flow' = Onward
  /\ UNCHANGED <<steady, value, error, asyncs, hooking, events, files>>

\* Faulty variant: an error of the body leaves the resource open.
LeaveWithOnSuccess ==
  /\ Leaving("with")
  /\ flow' = Onward /\ frames' = Pop(frames)
  /\ scopes' = IF flow = "raise" \/ FileOf(Top(frames).resource) = {} THEN scopes
               ELSE Closed(Top(frames).resource)
  /\ UNCHANGED <<steady, value, error, context, events, files>>

\* close_with_resource(), on every way out; an error of the body is the one
\* reported.
LeaveWith ==
  LET h == Top(frames).resource IN
  /\ Leaving("with")
  /\ IF FileOf(h) # {}
       THEN scopes' = Closed(h) /\ flow' = Onward /\ UNCHANGED <<value, error>>
       ELSE /\ UNCHANGED scopes
            /\ IF flow = "raise" THEN UNCHANGED <<flow, value, error>>
               ELSE \E e \in Error : RaiseIt(e)
  /\ frames' = Pop(frames)
  /\ UNCHANGED <<steady, context, events, files>>

\* The scope is popped and the async depth restored before the flow is looked at.
LeaveFunction ==
  /\ Leaving("function")
  /\ scopes' = Pop(scopes) /\ frames' = Pop(frames)
  /\ asyncs' = IF Top(frames).async THEN asyncs - 1 ELSE asyncs
  /\ \/ /\ flow = "return"
        /\ flow' = "run"
        /\ UNCHANGED <<value, error>>
     \/ /\ flow = "end"
        /\ flow' = "run" /\ value' = Data
        /\ UNCHANGED error
     \/ /\ flow \in {"return", "break", "continue"}  \* a value of the wrong type
        /\ \E e \in Error : RaiseIt(e)
     \/ /\ flow = "raise"
        /\ UNCHANGED <<flow, value, error>>
  /\ UNCHANGED <<steady, caught, hooking, events, files>>

LeaveLambda ==
  /\ Leaving("lambda")
  /\ scopes' = Pop(scopes) /\ frames' = Pop(frames)
  /\ flow' = Onward
  /\ UNCHANGED <<steady, value, error, context, events, files>>

-----------------------------------------------------------------------------
(* Effects and their hooks: run() and model requests *)

Request(effect, hooks, id) ==
  [kind |-> "transition", effect |-> effect, hooks |-> hooks, id |-> id,
   phase |-> IF hooks.pre = None THEN "effect" ELSE "start",
   rejected |-> FALSE, failed |-> FALSE]
Start(effect, hooks, id) == [id |-> id, phase |-> "start", effect |-> effect, hooks |-> hooks]
Event(phase, ok) == [id |-> Top(frames).id, phase |-> phase, ok |-> ok, rejected |-> FALSE]
Phase(p) == [frames EXCEPT ![Len(frames)].phase = p]
AtPhase(p) == running /\ InnerKind = "transition" /\ Top(frames).phase = p

\* run(), with its arguments evaluated; inside a hook it is refused.
StartRun(hooks) ==
  /\ Expression /\ Len(log) < MaxEvents
  /\ IF hooking
       THEN /\ \E e \in Error : RaiseIt(e)
            /\ UNCHANGED <<frames, transitions, log>>
       ELSE /\ Push(Request("run", hooks, transitions + 1))
            /\ transitions' = transitions + 1
            /\ log' = Append(log, Start("run", hooks, transitions + 1))
            /\ UNCHANGED <<flow, value, error>>
  /\ UNCHANGED <<steady, scopes, context, executed, files>>

\* model_call() makes one request, model_infer() one for every try; each is a
\* transition of its own, under the same hooks.
StartModel(hooks, tries) ==
  /\ Expression /\ Len(log) < MaxEvents
  /\ IF hooking
       THEN /\ \E e \in Error : RaiseIt(e)
            /\ UNCHANGED <<frames, transitions, log>>
       ELSE /\ Len(frames) + 2 <= MaxFrames
            /\ frames' = frames \o <<[kind |-> "infer", tries |-> tries, hooks |-> hooks],
                                     Request("model", hooks, transitions + 1)>>
            /\ transitions' = transitions + 1
            /\ log' = Append(log, Start("model", hooks, transitions + 1))
            /\ UNCHANGED <<flow, value, error>>
  /\ UNCHANGED <<steady, scopes, context, executed, files>>

\* A response: its content is valid, missing, or invalid and asked for again while
\* tries are left.
Respond ==
  LET f == Top(frames) IN
  /\ running /\ InnerKind = "infer"
  /\ \/ /\ flow \in {"run", "raise"}
        /\ frames' = Pop(frames)
        /\ UNCHANGED <<flow, value, error, transitions, log>>
     \/ /\ flow = "run"
        /\ frames' = Pop(frames)
        /\ \E e \in Error : RaiseIt(e)
        /\ UNCHANGED <<transitions, log>>
     \/ /\ flow = "run" /\ f.tries > 0
        /\ frames' = Append([frames EXCEPT ![Len(frames)].tries = @ - 1],
                            Request("model", f.hooks, transitions + 1))
        /\ transitions' = transitions + 1
        /\ log' = Append(log, Start("model", f.hooks, transitions + 1))
        /\ UNCHANGED <<flow, value, error>>
  /\ UNCHANGED <<steady, scopes, context, executed, files>>

\* invoke_transition_hook(): a callable is invoked, a name looked up and called
\* within a scope that holds the event; the lookup may fail.
InvokeHook(before, after, how) ==
  LET hook == [kind |-> "hook", named |-> how = "name"]
      event == IF hook.named THEN <<NewScope(NoLocals)>> ELSE <<>> IN
  /\ AtPhase(before) /\ flow = "run"
  /\ Len(frames) + 2 <= MaxFrames
  /\ hooking' = TRUE
  /\ \/ /\ hook.named
        /\ frames' = Append(Phase(after), hook) /\ scopes' = scopes \o event
        /\ \E e \in Error : RaiseIt(e)
        /\ UNCHANGED asyncs
     \/ \E body \in {"function", "lambda"} :
          /\ hook.named => body = "function"
          /\ frames' = Phase(after) \o <<hook, IF body = "lambda" THEN [kind |-> body]
                                               ELSE [kind |-> body, async |-> FALSE]>>
          /\ scopes' = scopes \o event \o <<NewScope(NoLocals)>>
          /\ value' = Data
          /\ UNCHANGED <<flow, error, asyncs>>
  /\ UNCHANGED <<steady, caught, events, files>>

InvokePre == InvokeHook("start", "pre", Top(frames).hooks.pre)
InvokePost == InvokeHook("done", "post", Top(frames).hooks.post)

LeaveHook ==
  /\ running /\ InnerKind = "hook"
  /\ flow \in {"run", "raise"}
  /\ hooking' = FALSE
  /\ scopes' = IF Top(frames).named THEN Pop(scopes) ELSE scopes
  /\ frames' = Pop(frames)
  /\ UNCHANGED <<steady, flow, value, error, caught, asyncs, events, files>>

\* What the pre hook says: it failed or returned nonsense, it lets the effect
\* pass, or it rejects it, an error for a model request.
Decide ==
  /\ AtPhase("pre")
  /\ \/ /\ log' = Append(log, Event("pre", FALSE))
        /\ frames' = Pop(frames)
        /\ IF flow = "raise" THEN UNCHANGED <<flow, value, error>>
           ELSE \E e \in Error : RaiseIt(e)
     \/ /\ flow = "run"
        /\ log' = Append(log, Event("pre", TRUE))
        /\ frames' = Phase("effect")
        /\ UNCHANGED <<flow, value, error>>
     \/ /\ flow = "run" /\ Top(frames).effect = "run"
        /\ log' = Append(log, [Event("pre", FALSE) EXCEPT !.rejected = TRUE])
        /\ frames' = [frames EXCEPT ![Len(frames)] =
                        [@ EXCEPT !.phase = "effect", !.rejected = TRUE]]
        /\ UNCHANGED <<flow, value, error>>
  /\ UNCHANGED <<steady, scopes, context, transitions, executed, files>>

\* The end of the effect, or of the record of a rejected one in its place; without
\* a post hook its outcome is that of the call.
Outcome(failed) ==
  LET f == Top(frames) IN
  /\ log' = Append(log, [id |-> f.id, phase |-> "effect", skipped |-> f.rejected])
  /\ frames' = IF f.hooks.post = None THEN Pop(frames)
               ELSE [frames EXCEPT ![Len(frames)] = [@ EXCEPT !.phase = "done", !.failed = failed]]
  /\ IF failed /\ f.hooks.post = None THEN \E e \in Error : RaiseIt(e)
     ELSE value' = Data /\ UNCHANGED <<flow, error>>
  /\ UNCHANGED <<steady, scopes, context, transitions, files>>

\* An effect in one step: a model request, a rejected run, or one that fails.
Effect(failed) ==
  LET f == Top(frames) IN
  /\ AtPhase("effect")
  /\ IF f.rejected THEN ~failed ELSE f.effect = "run" => failed
  /\ executed' = IF f.rejected THEN executed ELSE executed \cup {f.id}
  /\ Outcome(failed)

\* eval_run_values(): the process has ended, and helpers observe its record before
\* the effect is over.
Run ==
  LET f == Top(frames) IN
  /\ AtPhase("effect") /\ f.effect = "run" /\ ~f.rejected
  /\ executed' = executed \cup {f.id}
  /\ frames' = Phase("observing")
  /\ UNCHANGED <<steady, flow, value, error, scopes, context, transitions, log, files>>

\* invoke_stone_helper_function(): a function of the program, which may do whatever
\* a function does, start transitions of its own included.
InvokeHelper(n) ==
  /\ AtPhase("observing") /\ flow = "run"
  /\ Push([kind |-> "helper"])
  /\ scopes' = Append(scopes, NewScope(With(NoLocals, n, Data)))
  /\ value' = Data
  /\ UNCHANGED <<steady, flow, error, context, events, files>>

\* However a helper ends, an observation is all that is left of it.
LeaveHelper ==
  /\ Leaving("helper")
  /\ scopes' = Pop(scopes) /\ frames' = Pop(frames)
  /\ flow' = "run" /\ value' = Data /\ error' = None
  /\ UNCHANGED <<steady, context, events, files>>

\* Faulty variant: a failed helper fails the effect, which is then not logged.
ObserveOrRaise ==
  /\ AtPhase("observing") /\ flow = "run"
  /\ \/ Outcome(FALSE)
     \/ /\ frames' = Pop(frames)
        /\ \E e \in Error : RaiseIt(e)
        /\ UNCHANGED <<steady, scopes, context, transitions, log, files>>
  /\ UNCHANGED executed

\* The helpers have observed the run, and the effect is over.
Observe ==
  /\ AtPhase("observing") /\ flow = "run"
  /\ Outcome(FALSE)
  /\ UNCHANGED executed

\* A post hook that fails takes the place of the outcome.
Conclude ==
  /\ AtPhase("post")
  /\ log' = Append(log, Event("post", flow # "raise"))
  /\ frames' = Pop(frames)
  /\ IF flow = "run" /\ Top(frames).failed THEN \E e \in Error : RaiseIt(e)
     ELSE value' = Data /\ UNCHANGED <<flow, error>>
  /\ UNCHANGED <<steady, scopes, context, transitions, executed, files>>

-----------------------------------------------------------------------------
Evaluate ==
  /\ steps < MaxSteps /\ steps' = steps + 1
  /\ \/ Literal \/ Open \/ MakeLambda \/ CallLambda \/ Loop \/ Reraise \/ AsyncWithFile
     \/ \E n \in Name : Refer(n) \/ Assign(n)
     \/ \E e \in Error : Fail(e)
     \/ \E method \in {"use", "close"} : FileMethod(method)
     \/ \E isAsync \in BOOLEAN, n \in Name : CallFunction(isAsync, n)
     \/ \E n \in Name \cup {None} : Try(n) \/ WithFile(n)
     \/ \E how \in {"end", "break", "continue", "return"} : Exit(how)
     \/ \E hooks \in Hooks :
          StartRun(hooks) \/ \E tries \in 0..MaxRetries : StartModel(hooks, tries)

Leave ==
  \/ LeaveLoop \/ LeaveTry \/ LeaveHandler \/ LeaveWith
  \/ LeaveFunction \/ LeaveLambda \/ LeaveHook \/ LeaveHelper

Transition ==
  \/ Respond \/ InvokePre \/ InvokePost \/ Decide \/ Run \/ Observe \/ Conclude
  \/ \E failed \in BOOLEAN : Effect(failed)
  \/ \E n \in Name : InvokeHelper(n)

Next ==
  \/ Evaluate
  \/ (Begin \/ Finish \/ Leave \/ Transition) /\ UNCHANGED steps

Spec == Init /\ [][Next]_vars

-----------------------------------------------------------------------------
(* Properties *)

\* Where frames of a kind are in a stack; those with a scope of their own; how
\* many handlers there are up to one of them.
At(fs, kind) == {i \in DOMAIN fs : fs[i].kind = kind}
Scoped(fs) == At(fs, "function") \cup At(fs, "lambda") \cup At(fs, "handler")
                \cup At(fs, "helper") \cup {i \in At(fs, "hook") : fs[i].named}
Asynchronous(fs) == {i \in At(fs, "function") : fs[i].async}
HandlersUpTo(fs, k) == Cardinality({i \in At(fs, "handler") : i <= k})

\* However control left the constructs evaluated so far, what they set up is
\* undone: one scope for each call, handler, helper and hook event on the stack,
\* the errors of the handlers in their order, the async functions counted, and
\* the hook flag set exactly within a hook.
StateMatchesFrames ==
  running =>
    /\ Len(scopes) = 1 + Cardinality(Scoped(frames))
    /\ Len(caught) = Cardinality(At(frames, "handler"))
    /\ \A k \in At(frames, "handler") : caught[HandlersUpTo(frames, k)] = frames[k].error
    /\ asyncs = Cardinality(Asynchronous(frames))
    /\ hooking <=> At(frames, "hook") # {}

HandlesIn(v) == IF IsFile(v) THEN {v}
                ELSE IF IsLambda(v) THEN {h \in {v.captures[n] : n \in Name} : IsFile(h)}
                ELSE {}

\* A handle reaches the file it was opened for or none, though scopes come and go
\* at its place and numbers start anew with each evaluation of the session.
HandlesReachTheirFile ==
  running =>
    \A h \in HandlesIn(value) \cup
             UNION {UNION {HandlesIn(scopes[i].locals[n]) : n \in Name} : i \in 1..Len(scopes)} :
      \A f \in FileOf(h) : f.file = h.file

\* A file that was entered by a with statement is closed once the statement is
\* left, also when its name was bound to something else meanwhile.
ManagedFilesAreClosed ==
  \A i \in 1..Len(scopes) : \A f \in scopes[i].files :
    f.open /\ f.file \in managed =>
      \E k \in 1..Len(frames) : frames[k].kind = "with" /\ frames[k].resource.file = f.file

\* The start of the transition that an event of a log is about.
StartOf(l, id) == CHOOSE i \in 1..Len(l) : l[i].id = id /\ l[i].phase = "start"
Begun(l, event) == l[StartOf(l, event.id)]
Rejected(event) == event.phase = "pre" /\ event.rejected
Passed(event) == event.phase = "pre" /\ event.ok

\* Event k is the last one of its transition before i.
Latest(l, k, i) == k < i /\ \A j \in (k + 1)..(i - 1) : l[j].id # l[k].id

\* The effect is what comes next, given the last event.
Due(start, last) == (last.phase = "start" /\ start.hooks.pre = None) \/ Passed(last)

\* The next event of a transition, given its last one.
MayFollow(start, last, event) ==
  \/ event.phase = "pre" /\ last.phase = "start" /\ start.hooks.pre # None
  \/ event.phase = "effect" /\ IF event.skipped THEN Rejected(last) ELSE Due(start, last)
  \/ event.phase = "post" /\ last.phase = "effect" /\ start.hooks.post # None

Complete(start, last) ==
  \/ last.phase = "post"
  \/ last.phase = "pre" /\ ~Passed(last) /\ ~Rejected(last)
  \/ last.phase = "effect" /\ start.hooks.post = None

\* The transition of event k was complete before i; the effect of its run was due.
Ended(l, k) == Complete(Begun(l, l[k]), l[k])
Running(l, k) == Begun(l, l[k]).effect = "run" /\ Due(Begun(l, l[k]), l[k])

\* An event of a log is in its place behind those before it.
InPlace(l, i) ==
  LET before == {k \in 1..(i - 1) : Latest(l, k, i)} IN
  IF l[i].phase = "start"
  THEN \A k \in before : l[k].id < l[i].id /\ (Ended(l, k) \/ Running(l, k))
  ELSE /\ \E k \in before : l[k].id = l[i].id /\ MayFollow(Begun(l, l[k]), l[k], l[i])
       /\ \A k \in before : l[k].id > l[i].id => Ended(l, k)

\* The effects that the log has, and those that helpers observe still.
Executed(l) == {l[i].id : i \in {k \in 1..Len(l) : l[k].phase = "effect" /\ ~l[k].skipped}}
Observed(fs) == {fs[k].id : k \in {i \in At(fs, "transition") : fs[i].phase = "observing"}}

\* The transitions of a session are logged each with an id of its own, greater than
\* those before.  A transition starts only when every other is complete or executes
\* its run, whose helpers start it: then it is complete before that run goes on,
\* never in a hook.  An effect is executed exactly when the log says so or will,
\* after its pre hook accepted it, and no transition is left half-way.
TransitionsAreWhole ==
  /\ \A i \in 1..Len(log) : InPlace(log, i)
  /\ ~running => \A k \in 1..Len(log) : Latest(log, k, Len(log) + 1) => Ended(log, k)
  /\ executed = Executed(log) \cup Observed(frames)
=============================================================================
