-------------------------- MODULE Evaluator_proofs --------------------------
(***************************************************************************)
(* Proofs about the evaluator, for any names, errors, hooks and bounds:    *)
(* its four invariants.  Each is a statement about two stacks, or a stack  *)
(* and a log, that every action moves; so the lemmas say first what the    *)
(* pushing and popping of a frame does to each of them (Stacks), then that *)
(* every action is one of a few kinds of moves (Moves), and only then that *)
(* the moves keep the invariant.                                           *)
(***************************************************************************)
EXTENDS Evaluator, SequenceTheorems, FiniteSetTheorems, WellFoundedInduction, TLAPS

-----------------------------------------------------------------------------
(* The inductive invariant.                                                *)

\* What values, files, scopes, constructs and events are.  A lambda captures no
\* lambda: the bound of MakeLambda.
Handle == [kind : {"file"}, scope : Nat \ {0}, id : Nat, file : Nat]
Plain == {Data} \cup Handle
Lambda == [kind : {"lambda"}, captures : [Name -> Plain \cup {None}]]
Value == Plain \cup Lambda
File == [id : Nat, file : Nat, open : BOOLEAN]
Scope == [locals : [Name -> Value \cup {None}], files : SUBSET File]
Phases == {"start", "pre", "effect", "observing", "done", "post"}
RequestFrame ==
  [kind : {"transition"}, effect : {"run", "model"}, hooks : Hooks, id : Nat,
   phase : Phases, rejected : BOOLEAN, failed : BOOLEAN]
Frame ==
  [kind : {"lambda", "loop", "helper"}] \cup [kind : {"function"}, async : BOOLEAN]
    \cup [kind : {"try"}, name : Name \cup {None}]
    \cup [kind : {"handler"}, name : Name \cup {None}, error : Error]
    \cup [kind : {"with"}, resource : Handle] \cup [kind : {"hook"}, named : BOOLEAN]
    \cup [kind : {"infer"}, tries : Nat, hooks : Hooks] \cup RequestFrame
StartEvent == [id : Nat, phase : {"start"}, effect : {"run", "model"}, hooks : Hooks]
Happening ==
  [id : Nat, phase : {"pre", "post"}, ok : BOOLEAN, rejected : BOOLEAN]
    \cup [id : Nat, phase : {"effect"}, skipped : BOOLEAN]

\* The types of the state, by what they belong to.
ControlOK ==
  /\ flow \in {"run", "end", "break", "continue", "return", "raise"}
  /\ value \in Value /\ error \in Error \cup {None}
  /\ flow = "raise" => error \in Error
StacksOK == frames \in Seq(Frame) /\ scopes \in Seq(Scope) /\ caught \in Seq(Error)
EventsOK ==
  /\ log \in Seq(StartEvent \cup Happening)
  /\ transitions \in Nat /\ executed \subseteq Nat
FilesOK == nextFile \in Nat /\ opened \in Nat /\ managed \subseteq Nat
SessionOK == session \in [locals : [Name -> Value \cup {None}], transitions : Nat]
CountersOK ==
  /\ running \in BOOLEAN /\ hooking \in BOOLEAN
  /\ asyncs \in Int /\ evaluations \in Nat
StateOK == ControlOK /\ StacksOK /\ EventsOK /\ FilesOK /\ SessionOK /\ CountersOK
EvaluatorTypeOK == StateOK /\ steps \in Nat

\* Only a hook is on top of a transition, or a helper on one whose run it observes,
\* and nothing on top of a hook starts another.
MayStand(under, f) ==
  under.kind = "transition" =>
    f.kind = "hook" \/ (f.kind = "helper" /\ under.phase = "observing")
Nested(fs) ==
  /\ \A i, j \in DOMAIN fs :
       i < j /\ fs[i].kind = "hook" => fs[j].kind \notin {"hook", "transition", "infer"}
  /\ \A i, j \in DOMAIN fs : j = i + 1 => MayStand(fs[i], fs[j])
NestInv ==
  /\ running \/ (frames = <<>> /\ scopes = <<>>)
  /\ Nested(frames)
  /\ hooking <=> At(frames, "hook") # {}

\* What was set up for the constructs on a stack, as StateMatchesFrames tells it, of
\* any stack, so that a push and a pop can be reasoned about apart.
Tallied(fs, nscopes, cs, as) ==
  /\ nscopes = 1 + Cardinality(Scoped(fs))
  /\ Len(cs) = Cardinality(At(fs, "handler"))
  /\ \A k \in At(fs, "handler") : cs[HandlersUpTo(fs, k)] = fs[k].error
  /\ as = Cardinality(Asynchronous(fs))
TallyInv == running => Tallied(frames, Len(scopes), caught, asyncs)

\* The handles the program can reach, and those its with statements keep.
ScopeHandles(ss) == UNION {UNION {HandlesIn(ss[i].locals[n]) : n \in Name} : i \in 1..Len(ss)}
FrameHandles(fs) == {fs[k].resource : k \in At(fs, "with")}
Known == HandlesIn(value) \cup ScopeHandles(scopes) \cup FrameHandles(frames)

\* HandlesReachTheirFile needs more than it says to be inductive: a file is known by
\* its id in the evaluation and by its number in the session alike, which no other
\* file and no handle to another one has, and both are smaller than the next ones to
\* be given out.  No handle survives in the session, where the ids start anew.
FileInv ==
  /\ \A n \in Name : HandlesIn(session.locals[n]) = {}
  /\ \A h \in Known : h.id < nextFile /\ h.file <= opened
  /\ \A i \in 1..Len(scopes) : \A f \in scopes[i].files :
       /\ f.id < nextFile /\ f.file <= opened
       /\ \A j \in 1..Len(scopes) : \A g \in scopes[j].files :
            f.id = g.id \/ f.file = g.file => i = j /\ f = g
       /\ \A h \in Known : f.id = h.id \/ f.file = h.file =>
                             f.id = h.id /\ f.file = h.file /\ i = h.scope

\* ManagedFilesAreClosed, of files that were numbered already.
Entered(f) == \E k \in At(frames, "with") : frames[k].resource.file = f.file
ManagedInv ==
  /\ \A m \in managed : m <= opened
  /\ \A i \in 1..Len(scopes) : \A f \in scopes[i].files :
       f.open /\ f.file \in managed => Entered(f)

\* A log: each of its events has one start, and is in its place.
Begins(l, s, id) == l[s].phase = "start" /\ l[s].id = id
Chained(l) ==
  /\ \A i \in 1..Len(l) : \E s \in 1..Len(l) : Begins(l, s, l[i].id)
  /\ \A s, r \in 1..Len(l) : l[r].phase = "start" /\ Begins(l, s, l[r].id) => s = r
  /\ \A i \in 1..Len(l) : InPlace(l, i)

\* The last event of its transition, and how far a transition on the stack has come
\* when it is that event.
Final(l, k) == \A j \in 1..Len(l) : j > k => l[j].id # l[k].id
Agrees(f, start, last) ==
  /\ start.effect = f.effect /\ start.hooks = f.hooks
  /\ f.phase \in {"start", "pre"} => last.phase = "start" /\ f.hooks.pre # None /\ ~f.rejected
  /\ f.phase = "effect" => \/ last.phase = "start" /\ f.hooks.pre = None /\ ~f.rejected
                           \/ last.phase = "pre" /\ last.ok = ~f.rejected /\ last.rejected = f.rejected
  /\ f.phase = "observing" => f.effect = "run" /\ ~f.rejected /\ Due(start, last)
  /\ f.phase \in {"done", "post"} => last.phase = "effect" /\ f.hooks.post # None

\* The transitions on a stack, which started one after the other, and the runs that
\* helpers observe.
Requests(fs) == {fs[k] : k \in At(fs, "transition")}
Ordered(fs) == \A i, j \in At(fs, "transition") : i < j => fs[i].id < fs[j].id
Watched(rs) == {f.id : f \in {g \in rs : g.phase = "observing"}}

\* The transitions that are not complete are those on the stack.
Accounted(rs, l) ==
  /\ \A f \in rs : \E k \in 1..Len(l) :
       Final(l, k) /\ l[k].id = f.id /\ Agrees(f, Begun(l, l[k]), l[k])
  /\ \A k \in 1..Len(l) : Final(l, k) => Ended(l, k) \/ \E f \in rs : f.id = l[k].id

\* TransitionsAreWhole is not inductive by itself: the log is in order because each
\* transition on the stack agrees with its last event, all others are complete, the
\* one on top started last, and every id was given out by next_transition_id.
LogInv ==
  /\ \A i \in 1..Len(log) : log[i].id <= transitions
  /\ Chained(log) /\ Ordered(frames) /\ Accounted(Requests(frames), log)
  /\ executed = Executed(log) \cup Watched(Requests(frames))
  /\ running \/ session.transitions = transitions

-----------------------------------------------------------------------------
(* Stacks.                                                                 *)

\* A stack that is not empty is its rest with its top on it.
LEMMA PopIsRest ==
  ASSUME NEW S, NEW s \in Seq(S), s # <<>>
  PROVE  /\ Pop(s) \in Seq(S) /\ Top(s) \in S /\ Len(s) >= 1
         /\ Len(Pop(s)) = Len(s) - 1
         /\ \A i \in 1..(Len(s) - 1) : Pop(s)[i] = s[i]
         /\ s = Append(Pop(s), Top(s))
<1>1. Len(s) \in Nat /\ Len(s) >= 1 /\ Top(s) \in S
  BY ElementOfSeq, EmptySeq, LenProperties DEF Top
<1>2. \A i \in 1..(Len(s) - 1) : s[i] \in S
  BY <1>1, ElementOfSeq
<1>3. /\ Pop(s) \in Seq(S) /\ Len(Pop(s)) = Len(s) - 1
      /\ \A i \in 1..(Len(s) - 1) : Pop(s)[i] = s[i]
  <2> DEFINE t == SubSeq(s, 1, Len(s) - 1)
  <2>1. 1 \in Int /\ Len(s) - 1 \in Int
    BY <1>1
  <2>2. /\ t \in Seq(S) /\ Len(t) = IF 1 <= Len(s) - 1 THEN (Len(s) - 1) - 1 + 1 ELSE 0
        /\ \A i \in 1..((Len(s) - 1) - 1 + 1) : t[i] = s[1 + i - 1]
    BY <1>2, <2>1, SubSeqProperties
  <2> HIDE DEF t
  <2>3. Len(t) = Len(s) - 1 /\ \A i \in 1..(Len(s) - 1) : t[i] = s[i]
    <3>1. /\ (Len(s) - 1) - 1 + 1 = Len(s) - 1
          /\ \A i \in 1..(Len(s) - 1) : 1 + i - 1 = i
          /\ ~(1 <= Len(s) - 1) => Len(s) - 1 = 0
      <4>1. ASSUME NEW n \in Nat, n >= 1
            PROVE  /\ (n - 1) - 1 + 1 = n - 1
                   /\ \A i \in 1..(n - 1) : 1 + i - 1 = i
                   /\ ~(1 <= n - 1) => n - 1 = 0
        BY <4>1
      <4> QED BY <1>1, <4>1
    <3>2. \A i \in 1..(Len(s) - 1) : t[i] = s[i]
      BY <2>2, <3>1
    <3>3. Len(t) = Len(s) - 1
      BY <2>2, <3>1
    <3> QED BY <3>2, <3>3
  <2>4. Pop(s) = t
    BY DEF Pop, t
  <2> QED BY <2>2, <2>3, <2>4
<1>4. Append(Pop(s), Top(s)) \in Seq(S) /\ Len(Append(Pop(s), Top(s))) = Len(s)
  BY <1>1, <1>3, AppendProperties
<1>5. \A i \in 1..Len(s) : Append(Pop(s), Top(s))[i] = s[i]
  <2>1. /\ \A i \in 1..Len(Pop(s)) : Append(Pop(s), Top(s))[i] = Pop(s)[i]
        /\ Append(Pop(s), Top(s))[Len(Pop(s)) + 1] = Top(s)
    BY <1>1, <1>3, AppendProperties
  <2>2. Append(Pop(s), Top(s))[Len(s)] = s[Len(s)]
    BY <2>1, <1>1, <1>3 DEF Top
  <2> QED BY <2>1, <2>2, <1>1, <1>3
<1>6. Append(Pop(s), Top(s)) = s
  BY <1>4, <1>5, SeqEqual
<1> QED BY <1>1, <1>3, <1>6

\* What a frame is, by its kind.
LEMMA FrameParts ==
  ASSUME NEW f \in Frame
  PROVE  /\ f.kind = "function" => f.async \in BOOLEAN
         /\ f.kind = "try" => f.name \in Name \cup {None}
         /\ f.kind = "handler" => f.name \in Name \cup {None} /\ f.error \in Error
         /\ f.kind = "with" => f.resource \in Handle
         /\ f.kind = "hook" => f.named \in BOOLEAN
         /\ f.kind = "infer" => f.tries \in Nat /\ f.hooks \in Hooks
         /\ f.kind = "transition" => f \in RequestFrame
BY DEF Frame, RequestFrame

\* The innermost construct, when it is of a kind, is the top of the stack.
LEMMA InnerIsTop ==
  ASSUME frames \in Seq(Frame), InnerKind # "module"
  PROVE  frames # <<>> /\ InnerKind = Top(frames).kind
BY DEF InnerKind

\* A set of positions has a last one.
LEMMA Greatest ==
  ASSUME NEW n \in Nat, NEW S \in SUBSET (1..n), S # {}
  PROVE  \E i \in S : \A j \in S : j <= i
<1> DEFINE T == {k \in 0..n : n - k \in S}
<1>1. T \subseteq Nat /\ T # {}
  <2>1. PICK i \in S : TRUE
    OBVIOUS
  <2>2. i \in Int /\ n - i \in 0..n /\ n - (n - i) = i
    BY <2>1
  <2>3. n - i \in T
    BY <2>2
  <2>4. T \subseteq Nat
    OBVIOUS
  <2> QED BY <2>3, <2>4
<1>2. PICK k \in T : \A m \in T : ~(<<m, k>> \in OpToRel(<, Nat))
  BY <1>1, NatLessThanWellFounded, WFMin
<1>3. \A m \in T : ~(m < k)
  <2> SUFFICES ASSUME NEW m \in T, m < k PROVE FALSE
    BY <1>2
  <2>1. <<m, k>> \in Nat \X Nat
    BY <1>1
  <2>2. <<m, k>> \in OpToRel(<, Nat)
    BY <2>1 DEF OpToRel
  <2> QED BY <1>2, <2>2
<1>4. ASSUME NEW j \in S PROVE j <= n - k
  <2>1. j \in Int /\ n - j \in 0..n /\ n - (n - j) = j
    OBVIOUS
  <2>2. n - j \in T
    BY <2>1
  <2>3. k \in Int /\ ~(n - j < k)
    BY <1>3, <2>2
  <2> QED BY <2>1, <2>3
<1> QED BY <1>4

\* A local that is visible is in a scope.
LEMMA LookupIsLocal ==
  ASSUME scopes \in Seq(Scope), NEW n \in Name
  PROVE  /\ Lookup(n) \in Value \cup {None}
         /\ Lookup(n) = None \/ \E i \in 1..Len(scopes) : Lookup(n) = scopes[i].locals[n]
<1> DEFINE at == {i \in 1..Len(scopes) : scopes[i].locals[n] # None}
           inner == CHOOSE i \in at : \A j \in at : j <= i
<1>1. CASE at = {}
  BY <1>1 DEF Lookup
<1>2. CASE at # {}
  <2>1. \E i \in at : \A j \in at : j <= i
    BY <1>2, Greatest, Len(scopes) \in Nat
  <2>2. inner \in at
    BY <2>1
  <2>3. Lookup(n) = scopes[inner].locals[n]
    BY <1>2 DEF Lookup
  <2>4. inner \in 1..Len(scopes) /\ scopes[inner] \in Scope
    BY <2>2, ElementOfSeq
  <2>5. scopes[inner].locals[n] \in Value \cup {None}
    BY <2>4 DEF Scope
  <2> QED BY <2>3, <2>4, <2>5
<1> QED BY <1>1, <1>2

-----------------------------------------------------------------------------
(* What the operators return.                                              *)

\* Popping stays within the sequences, whatever is there.
LEMMA PopIsSeq ==
  ASSUME NEW S, NEW s \in Seq(S)
  PROVE  Pop(s) \in Seq(S)
<1>1. CASE s = <<>>
  <2>1. Len(s) = 0 /\ 1 \in Int /\ Len(s) - 1 \in Int /\ Len(s) - 1 < 1
    BY <1>1, EmptySeq
  <2>2. SubSeq(s, 1, Len(s) - 1) = <<>>
    BY <2>1, SubSeqEmpty
  <2> QED BY <2>2, EmptySeq DEF Pop
<1>2. CASE s # <<>>
  BY <1>2, PopIsRest
<1> QED BY <1>1, <1>2

\* An update outside the domain does nothing.
LEMMA UpdateIsSeq ==
  ASSUME NEW S, NEW s \in Seq(S), NEW i, NEW e, i \in 1..Len(s) => e \in S
  PROVE  /\ [s EXCEPT ![i] = e] \in Seq(S)
         /\ Len([s EXCEPT ![i] = e]) = Len(s)
         /\ \A j \in 1..Len(s) : [s EXCEPT ![i] = e][j] = IF j = i THEN e ELSE s[j]
<1>1. CASE i \in 1..Len(s)
  BY <1>1, ExceptSeq
<1>2. CASE i \notin 1..Len(s)
  <2>1. s \in [1..Len(s) -> S]
    BY LenProperties
  <2>2. [s EXCEPT ![i] = e] = s
    BY <1>2, <2>1
  <2> QED BY <2>2, <1>2
<1> QED BY <1>1, <1>2

\* Replacing the top of a stack.
LEMMA TopReplaced ==
  ASSUME NEW S, NEW s \in Seq(S), s # <<>>, NEW e \in S
  PROVE  [s EXCEPT ![Len(s)] = e] = Append(Pop(s), e)
<1> DEFINE t == [s EXCEPT ![Len(s)] = e]
           u == Append(Pop(s), e)
<1>1. /\ Pop(s) \in Seq(S) /\ Len(s) \in Nat /\ Len(s) >= 1 /\ Len(Pop(s)) = Len(s) - 1
      /\ \A i \in 1..(Len(s) - 1) : Pop(s)[i] = s[i]
  BY PopIsRest, LenProperties
<1>2. t \in Seq(S) /\ Len(t) = Len(s) /\ \A j \in 1..Len(s) : t[j] = IF j = Len(s) THEN e ELSE s[j]
  BY <1>1, ExceptSeq
<1>3. /\ u \in Seq(S) /\ Len(u) = Len(s)
      /\ \A j \in 1..(Len(s) - 1) : u[j] = Pop(s)[j]
      /\ u[Len(s)] = e
  BY <1>1, AppendProperties
<1> HIDE DEF t, u
<1>4. \A j \in 1..Len(s) : t[j] = u[j]
  BY <1>1, <1>2, <1>3
<1>5. t = u
  BY <1>2, <1>3, <1>4, SeqEqual
<1> QED BY <1>5 DEF t, u

\* Values and scopes that actions build.
LEMMA NewValues ==
  /\ Data \in Value
  /\ \A h \in Handle : h \in Value
  /\ \A s \in Nat \ {0}, i, f \in Nat : [kind |-> "file", scope |-> s, id |-> i, file |-> f] \in Handle
  /\ \A v \in Value : IsFile(v) => v \in Handle
  /\ \A v \in Value : IsLambda(v) => v.captures \in [Name -> Plain \cup {None}]
  /\ \A c \in [Name -> Plain \cup {None}] : [kind |-> "lambda", captures |-> c] \in Value
  /\ Plain \subseteq Value
  /\ \A v \in Value \cup {None} : ~IsLambda(v) => v \in Plain \cup {None}
  /\ \A h \in Handle : h.scope \in Nat \ {0} /\ h.id \in Nat /\ h.file \in Nat /\ h.kind = "file"
<1>1. \A s \in Nat \ {0}, i, f \in Nat : [kind |-> "file", scope |-> s, id |-> i, file |-> f] \in Handle
  BY DEF Handle
<1>2. \A v \in Value : IsFile(v) => v \in Handle
  BY DEF Value, Plain, Lambda, Data, IsFile
<1>3. \A v \in Value : IsLambda(v) => v.captures \in [Name -> Plain \cup {None}]
  <2>1. \A v \in Handle : v.kind = "file"
    BY DEF Handle
  <2> QED BY <2>1 DEF Value, Plain, Lambda, Data, IsLambda
<1>4. \A c \in [Name -> Plain \cup {None}] : [kind |-> "lambda", captures |-> c] \in Value
  BY DEF Value, Lambda
<1>5. \A v \in Value \cup {None} : ~IsLambda(v) => v \in Plain \cup {None}
  BY DEF Value, Lambda, IsLambda
<1>6. \A h \in Handle : h.scope \in Nat \ {0} /\ h.id \in Nat /\ h.file \in Nat /\ h.kind = "file"
  BY DEF Handle
<1> QED BY <1>1, <1>2, <1>3, <1>4, <1>5, <1>6 DEF Value, Plain

\* A scope as it is pushed: its locals, and no file.
LEMMA NewScopes ==
  ASSUME NEW locals \in [Name -> Value \cup {None}]
  PROVE  /\ NewScope(locals) \in Scope
         /\ NewScope(locals).locals = locals /\ NewScope(locals).files = {}
BY DEF NewScope, Scope

\* No locals, and one: a parameter, or the name of an error.
LEMMA NewLocals ==
  /\ NoLocals \in [Name -> Value \cup {None}]
  /\ \A n \in Name : NoLocals[n] = None
  /\ \A n, v : v \in Value => With(NoLocals, n, v) \in [Name -> Value \cup {None}]
  /\ \A n, v : \A m \in Name : With(NoLocals, n, v)[m] \in {v, None}
BY DEF NoLocals, With

\* Every frame that an action pushes is one.
LEMMA NewFrames ==
  /\ [kind |-> "lambda"] \in Frame /\ [kind |-> "loop"] \in Frame /\ [kind |-> "helper"] \in Frame
  /\ \A a \in BOOLEAN : [kind |-> "function", async |-> a] \in Frame
  /\ \A n \in Name \cup {None} : [kind |-> "try", name |-> n] \in Frame
  /\ \A n \in Name \cup {None}, e \in Error : [kind |-> "handler", name |-> n, error |-> e] \in Frame
  /\ \A h \in Handle : [kind |-> "with", resource |-> h] \in Frame
  /\ \A b \in BOOLEAN : [kind |-> "hook", named |-> b] \in Frame
  /\ \A t \in Nat, h \in Hooks : [kind |-> "infer", tries |-> t, hooks |-> h] \in Frame
  /\ \A e \in {"run", "model"}, h \in Hooks, i \in Nat : Request(e, h, i) \in RequestFrame
  /\ RequestFrame \subseteq Frame
<1>1. \A e \in {"run", "model"}, h \in Hooks, i \in Nat : Request(e, h, i) \in RequestFrame
  BY DEF Request, RequestFrame, Phases
<1>2. RequestFrame \subseteq Frame
  BY DEF Frame
<1> HIDE DEF RequestFrame
<1>3. [kind |-> "lambda"] \in Frame /\ [kind |-> "loop"] \in Frame /\ [kind |-> "helper"] \in Frame
  BY DEF Frame
<1>4. \A a \in BOOLEAN : [kind |-> "function", async |-> a] \in Frame
  BY DEF Frame
<1>5. \A n \in Name \cup {None} : [kind |-> "try", name |-> n] \in Frame
  BY DEF Frame
<1>6. \A n \in Name \cup {None}, e \in Error : [kind |-> "handler", name |-> n, error |-> e] \in Frame
  BY DEF Frame
<1>7. \A h \in Handle : [kind |-> "with", resource |-> h] \in Frame
  BY DEF Frame
<1>8. \A b \in BOOLEAN : [kind |-> "hook", named |-> b] \in Frame
  BY DEF Frame
<1>9. \A t \in Nat, h \in Hooks : [kind |-> "infer", tries |-> t, hooks |-> h] \in Frame
  BY DEF Frame
<1> QED BY <1>1, <1>2, <1>3, <1>4, <1>5, <1>6, <1>7, <1>8, <1>9

\* A request that moves on is a request still, with the same id, hooks and effect.
LEMMA NextPhases ==
  ASSUME NEW f \in RequestFrame
  PROVE  /\ \A p \in Phases : [f EXCEPT !.phase = p] \in RequestFrame
         /\ [f EXCEPT !.phase = "effect", !.rejected = TRUE] \in RequestFrame
         /\ \A b \in BOOLEAN : [f EXCEPT !.phase = "done", !.failed = b] \in RequestFrame
BY DEF RequestFrame, Phases

\* Every file and event that an action adds is one.
LEMMA NewEvents ==
  /\ \A i, f \in Nat : [id |-> i, file |-> f, open |-> TRUE] \in File
  /\ \A e \in {"run", "model"}, h \in Hooks, i \in Nat : Start(e, h, i) \in StartEvent \cup Happening
  /\ \A i \in Nat, p \in {"pre", "post"}, a, b \in BOOLEAN :
       [id |-> i, phase |-> p, ok |-> a, rejected |-> b] \in StartEvent \cup Happening
  /\ \A i \in Nat, b \in BOOLEAN :
       [id |-> i, phase |-> "effect", skipped |-> b] \in StartEvent \cup Happening
BY DEF File, Start, StartEvent, Happening

\* What an update of a scope leaves: the locals and files of every scope.
LEMMA Bound ==
  ASSUME scopes \in Seq(Scope), NEW n \in Name, NEW v \in Value \cup {None},
         NEW ss, ss = [scopes EXCEPT ![Len(scopes)].locals[n] = v]
  PROVE  /\ ss \in Seq(Scope) /\ Len(ss) = Len(scopes)
         /\ \A i \in 1..Len(scopes) :
              /\ ss[i].files = scopes[i].files
              /\ \A m \in Name : ss[i].locals[m] \in {v, scopes[i].locals[m]}
<1> DEFINE top == scopes[Len(scopes)]
           new == [top EXCEPT !.locals = [top.locals EXCEPT ![n] = v]]
<1>1. ss = [scopes EXCEPT ![Len(scopes)] = new]
  OBVIOUS
<1>2. ASSUME Len(scopes) \in 1..Len(scopes)
      PROVE  /\ new \in Scope /\ new.files = top.files
             /\ \A m \in Name : new.locals[m] \in {v, top.locals[m]}
  <2>1. top \in Scope
    BY <1>2, ElementOfSeq
  <2> QED BY <2>1 DEF Scope
<1> HIDE DEF new
<1>3. /\ ss \in Seq(Scope) /\ Len(ss) = Len(scopes)
      /\ \A j \in 1..Len(scopes) : ss[j] = IF j = Len(scopes) THEN new ELSE scopes[j]
  <2>1. Len(scopes) \in 1..Len(scopes) => new \in Scope
    BY <1>2
  <2> DEFINE u == [scopes EXCEPT ![Len(scopes)] = new]
  <2>2. /\ u \in Seq(Scope) /\ Len(u) = Len(scopes)
        /\ \A j \in 1..Len(scopes) : u[j] = IF j = Len(scopes) THEN new ELSE scopes[j]
    BY <2>1, UpdateIsSeq
  <2> QED BY <1>1, <2>2
<1> QED BY <1>2, <1>3

\* open() adds its file to the innermost scope, and leaves the rest.
LEMMA AddedFile ==
  ASSUME scopes \in Seq(Scope), NEW f \in File,
         NEW ss, ss = [scopes EXCEPT ![Len(scopes)].files = @ \cup {f}]
  PROVE  /\ ss \in Seq(Scope) /\ Len(ss) = Len(scopes)
         /\ \A i \in 1..Len(scopes) :
              /\ ss[i].locals = scopes[i].locals
              /\ ss[i].files = scopes[i].files \cup IF i = Len(scopes) THEN {f} ELSE {}
<1> DEFINE top == scopes[Len(scopes)]
           new == [top EXCEPT !.files = top.files \cup {f}]
<1>1. ss = [scopes EXCEPT ![Len(scopes)] = new]
  OBVIOUS
<1>2. ASSUME Len(scopes) \in 1..Len(scopes)
      PROVE  new \in Scope /\ new.files = top.files \cup {f} /\ new.locals = top.locals
  <2>1. top \in Scope
    BY <1>2, ElementOfSeq
  <2> QED BY <2>1 DEF Scope
<1> HIDE DEF new
<1>3. /\ ss \in Seq(Scope) /\ Len(ss) = Len(scopes)
      /\ \A j \in 1..Len(scopes) : ss[j] = IF j = Len(scopes) THEN new ELSE scopes[j]
  BY <1>1, <1>2, UpdateIsSeq
<1> QED BY <1>2, <1>3

ClosedFile(f, id) == IF f.id = id THEN [f EXCEPT !.open = FALSE] ELSE f
ClosedFiles(fs, id) == {ClosedFile(f, id) : f \in fs}

\* close() changes the files of one scope, and no local.
LEMMA ClosedIs ==
  ASSUME scopes \in Seq(Scope), NEW h \in Handle, NEW ss, ss = Closed(h)
  PROVE  /\ ss \in Seq(Scope) /\ Len(ss) = Len(scopes)
         /\ \A i \in 1..Len(scopes) :
              /\ ss[i].locals = scopes[i].locals
              /\ ss[i].files = IF i = h.scope THEN ClosedFiles(scopes[i].files, h.id)
                               ELSE scopes[i].files
<1> DEFINE scope == scopes[h.scope]
           new == [scope EXCEPT !.files = ClosedFiles(scope.files, h.id)]
<1>1. ss = [scopes EXCEPT ![h.scope] = new]
  BY DEF Closed, ClosedFile, ClosedFiles
<1>2. ASSUME h.scope \in 1..Len(scopes)
      PROVE  /\ new \in Scope /\ new.locals = scope.locals
             /\ new.files = ClosedFiles(scope.files, h.id)
  <2>1. scope \in Scope
    BY <1>2, ElementOfSeq
  <2>2. \A f \in File : ClosedFile(f, h.id) \in File
    BY DEF ClosedFile, File
  <2>3. scope.files \subseteq File
    BY <2>1 DEF Scope
  <2>4. ClosedFiles(scope.files, h.id) \in SUBSET File
    BY <2>2, <2>3 DEF ClosedFiles
  <2> QED BY <2>1, <2>4 DEF Scope
<1> HIDE DEF new
<1> DEFINE at == h.scope
<1>3. at \in 1..Len(scopes) => new \in Scope
  BY <1>2
<1> HIDE DEF at
<1>4. /\ ss \in Seq(Scope) /\ Len(ss) = Len(scopes)
      /\ \A j \in 1..Len(scopes) : ss[j] = IF j = at THEN new ELSE scopes[j]
  <2>1. ss = [scopes EXCEPT ![at] = new]
    BY <1>1 DEF at
  <2> QED BY <2>1, <1>3, UpdateIsSeq
<1> QED BY <1>2, <1>4 DEF at

\* pop_scope_merging_nu_locals() takes one scope, and gives plain data at most.
LEMMA MergedIs ==
  ASSUME scopes \in Seq(Scope), NEW excluded, NEW ss, ss = Merged(excluded)
  PROVE  /\ ss \in Seq(Scope)
         /\ scopes # <<>> =>
              /\ Len(ss) = Len(scopes) - 1
              /\ \A i \in 1..(Len(scopes) - 1) :
                   /\ ss[i].files = scopes[i].files
                   /\ \A m \in Name : ss[i].locals[m] \in {Data, scopes[i].locals[m]}
<1> DEFINE outer == Pop(scopes)
           top == outer[Len(outer)]
           kept == [n \in Name |-> IF n # excluded /\ Top(scopes).locals[n] = Data THEN Data
                                   ELSE top.locals[n]]
           new == [top EXCEPT !.locals = kept]
<1>1. ss = [outer EXCEPT ![Len(outer)] = new]
  BY DEF Merged
<1>2. outer \in Seq(Scope)
  BY PopIsSeq
<1> HIDE DEF outer
<1>3. ASSUME Len(outer) \in 1..Len(outer)
      PROVE  /\ new \in Scope /\ new.files = top.files
             /\ \A m \in Name : new.locals[m] \in {Data, top.locals[m]}
  <2>1. top \in Scope
    BY <1>2, <1>3, ElementOfSeq
  <2>2. top.locals \in [Name -> Value \cup {None}]
    BY <2>1 DEF Scope
  <2>3. kept \in [Name -> Value \cup {None}]
    BY <2>2, NewValues
  <2>4. \A m \in Name : kept[m] \in {Data, top.locals[m]}
    OBVIOUS
  <2> HIDE DEF kept
  <2> QED BY <2>1, <2>3, <2>4 DEF Scope
<1> HIDE DEF new
<1>4. /\ ss \in Seq(Scope) /\ Len(ss) = Len(outer)
      /\ \A j \in 1..Len(outer) : ss[j] = IF j = Len(outer) THEN new ELSE outer[j]
  BY <1>1, <1>2, <1>3, UpdateIsSeq
<1>5. ASSUME scopes # <<>>
      PROVE  Len(outer) = Len(scopes) - 1 /\ \A i \in 1..(Len(scopes) - 1) : outer[i] = scopes[i]
  BY <1>5, PopIsRest DEF outer
<1> QED BY <1>3, <1>4, <1>5

\* A sequence of one or two elements.
LEMMA OnlyOne ==
  ASSUME NEW S, NEW e \in S
  PROVE  <<e>> \in Seq(S) /\ Len(<<e>>) = 1 /\ <<e>>[1] = e /\ <<e>> = Append(<<>>, e)
OBVIOUS

\* Pushing two elements is pushing one and then the other.
LEMMA TwoPushed ==
  ASSUME NEW S, NEW s \in Seq(S), NEW d \in S, NEW e \in S
  PROVE  s \o <<d, e>> = Append(Append(s, d), e) /\ s \o <<d>> = Append(s, d)
OBVIOUS

\* What a session takes over.
LEMMA CarriedIs ==
  ASSUME scopes \in Seq(Scope), scopes # <<>>, transitions \in Nat
  PROVE  /\ Carried \in [locals : [Name -> Value \cup {None}], transitions : Nat]
         /\ Carried.transitions = transitions
<1>1. scopes[1] \in Scope
  <2>1. 1 \in 1..Len(scopes)
    BY PopIsRest, LenProperties
  <2> QED BY <2>1, ElementOfSeq
<1>2. scopes[1].locals \in [Name -> Value \cup {None}]
  BY <1>1 DEF Scope
<1> QED BY <1>2 DEF Carried

\* A request that is made again: one try less, and a transition on top.
LEMMA AskedAgain ==
  ASSUME frames \in Seq(Frame), frames # <<>>, Top(frames).kind = "infer", Top(frames).tries > 0
  PROVE  LET again == [Top(frames) EXCEPT !.tries = @ - 1] IN
         /\ again \in Frame /\ again.kind = "infer"
         /\ [frames EXCEPT ![Len(frames)].tries = @ - 1] = Append(Pop(frames), again)
<1> DEFINE again == [Top(frames) EXCEPT !.tries = @ - 1]
<1>1. Top(frames) \in [kind : {"infer"}, tries : Nat, hooks : Hooks]
  <2>1. Top(frames) \in Frame
    BY PopIsRest
  <2> QED BY <2>1 DEF Frame, RequestFrame
<1>2. again \in [kind : {"infer"}, tries : Nat, hooks : Hooks]
  BY <1>1
<1>3. again \in Frame /\ again.kind = "infer"
  BY <1>2 DEF Frame
<1>4. [frames EXCEPT ![Len(frames)].tries = @ - 1] = [frames EXCEPT ![Len(frames)] = again]
  BY DEF Top
<1> HIDE DEF again
<1>5. [frames EXCEPT ![Len(frames)].tries = @ - 1] = Append(Pop(frames), again)
  BY <1>3, <1>4, TopReplaced
<1> QED BY <1>3, <1>5 DEF again

\* A transition that goes on to its next phase is replaced on the stack.
LEMMA PhaseIs ==
  ASSUME frames \in Seq(Frame), frames # <<>>, Top(frames) \in RequestFrame,
         NEW p \in Phases
  PROVE  Phase(p) = Append(Pop(frames), [Top(frames) EXCEPT !.phase = p])
<1> DEFINE next == [Top(frames) EXCEPT !.phase = p]
<1>1. next \in Frame
  BY NextPhases, NewFrames
<1>2. Phase(p) = [frames EXCEPT ![Len(frames)] = next]
  BY DEF Phase, Top
<1> HIDE DEF next
<1>3. Phase(p) = Append(Pop(frames), next)
  BY <1>1, <1>2, TopReplaced
<1> QED BY <1>3 DEF next

\* An event of the transition on top, and that of a rejection.
LEMMA EventIs ==
  ASSUME NEW p, NEW ok
  PROVE  /\ Event(p, ok) = [id |-> Top(frames).id, phase |-> p, ok |-> ok, rejected |-> FALSE]
         /\ [Event(p, ok) EXCEPT !.rejected = TRUE] =
              [id |-> Top(frames).id, phase |-> p, ok |-> ok, rejected |-> TRUE]
<1>1. Event(p, ok) = [id |-> Top(frames).id, phase |-> p, ok |-> ok, rejected |-> FALSE]
  BY DEF Event
<1>2. ASSUME NEW i, NEW q, NEW r
      PROVE  [[id |-> i, phase |-> p, ok |-> ok, rejected |-> q] EXCEPT !.rejected = r] =
               [id |-> i, phase |-> p, ok |-> ok, rejected |-> r]
  OBVIOUS
<1>3. [Event(p, ok) EXCEPT !.rejected = TRUE] =
        [[id |-> Top(frames).id, phase |-> p, ok |-> ok, rejected |-> FALSE] EXCEPT !.rejected = TRUE]
  BY <1>1, Zenon
<1>4. [Event(p, ok) EXCEPT !.rejected = TRUE] =
        [id |-> Top(frames).id, phase |-> p, ok |-> ok, rejected |-> TRUE]
  BY <1>2, <1>3, Zenon
<1> QED BY <1>1, <1>4

-----------------------------------------------------------------------------
(* Types.                                                                  *)

\* Every step keeps the types: one step of the proof for each action.
LEMMA TypeStep ==
  ASSUME EvaluatorTypeOK, running => scopes # <<>>, [Next]_vars
  PROVE  EvaluatorTypeOK'
<1> USE DEF EvaluatorTypeOK, StateOK
<1>1. ASSUME Literal PROVE StateOK'
  <2>1. ControlOK'
    BY <1>1, NewValues DEF ControlOK, StacksOK, FilesOK, Literal, steady, control, context, events, files
  <2>2. StacksOK'
    BY <1>1 DEF ControlOK, StacksOK, FilesOK, SessionOK, Literal, steady, control, context, events, files
  <2>3. EventsOK' /\ FilesOK' /\ SessionOK' /\ CountersOK'
    BY <1>1 DEF ControlOK, EventsOK, FilesOK, SessionOK, CountersOK, Literal, steady, control, context, events, files
  <2> QED BY <2>1, <2>2, <2>3
<1>2. ASSUME NEW n \in Name, Refer(n) PROVE StateOK'
  <2>1. ControlOK'
    BY <1>2, LookupIsLocal DEF ControlOK, StacksOK, FilesOK, Refer, steady, control, context, events, files
  <2>2. StacksOK'
    BY <1>2 DEF ControlOK, StacksOK, FilesOK, SessionOK, Refer, steady, control, context, events, files
  <2>3. EventsOK' /\ FilesOK' /\ SessionOK' /\ CountersOK'
    BY <1>2 DEF ControlOK, EventsOK, FilesOK, SessionOK, CountersOK, Refer, steady, control, context, events, files
  <2> QED BY <2>1, <2>2, <2>3
<1>3. ASSUME NEW e \in Error, Fail(e) PROVE StateOK'
  <2>1. ControlOK'
    BY <1>3, NewValues DEF ControlOK, StacksOK, FilesOK, Fail, RaiseIt, steady, control, context, events, files
  <2>2. StacksOK'
    BY <1>3 DEF ControlOK, StacksOK, FilesOK, SessionOK, Fail, RaiseIt, steady, control, context, events, files
  <2>3. EventsOK' /\ FilesOK' /\ SessionOK' /\ CountersOK'
    BY <1>3 DEF ControlOK, EventsOK, FilesOK, SessionOK, CountersOK, Fail, RaiseIt, steady, control, context, events, files
  <2> QED BY <2>1, <2>2, <2>3
<1>4. ASSUME NEW n \in Name, Assign(n) PROVE StateOK'
  <2>1. ControlOK'
    BY <1>4, NewValues DEF ControlOK, StacksOK, FilesOK, Assign, steady, control, context, events, files
  <2>2. StacksOK'
    BY <1>4, Bound DEF ControlOK, StacksOK, FilesOK, SessionOK, Assign, steady, control, context, events, files
  <2>3. EventsOK' /\ FilesOK' /\ SessionOK' /\ CountersOK'
    BY <1>4 DEF ControlOK, EventsOK, FilesOK, SessionOK, CountersOK, Assign, steady, control, context, events, files
  <2> QED BY <2>1, <2>2, <2>3
<1>5. ASSUME Open PROVE StateOK'
  <2>1. ControlOK'
    <3>1. Len(scopes) \in Nat \ {0}
      BY <1>5, LenProperties, EmptySeq DEF StacksOK, Open, Expression
    <3> QED BY SMTT(30), <1>5, <3>1, NewValues DEF ControlOK, StacksOK, FilesOK, Open, steady, control, context, events, files
  <2>2. StacksOK'
    <3>1. [id |-> nextFile, file |-> opened + 1, open |-> TRUE] \in File
      BY NewEvents DEF FilesOK
    <3> QED BY <1>5, <3>1, AddedFile DEF StacksOK, Open, context
  <2>3. EventsOK' /\ FilesOK' /\ SessionOK' /\ CountersOK'
    BY <1>5 DEF ControlOK, EventsOK, FilesOK, SessionOK, CountersOK, Open, steady, control, context, events, files
  <2> QED BY <2>1, <2>2, <2>3
<1>6. ASSUME NEW method \in {"use", "close"}, FileMethod(method) PROVE StateOK'
  <2>1. ControlOK'
    BY <1>6, NewValues DEF ControlOK, StacksOK, FilesOK, FileMethod, RaiseIt, steady, control, context, events, files
  <2>2. StacksOK'
    BY <1>6, NewValues, ClosedIs DEF ControlOK, StacksOK, FilesOK, SessionOK, FileMethod, RaiseIt, steady, control, context, events, files
  <2>3. EventsOK' /\ FilesOK' /\ SessionOK' /\ CountersOK'
    BY <1>6 DEF ControlOK, EventsOK, FilesOK, SessionOK, CountersOK, FileMethod, RaiseIt, steady, control, context, events, files
  <2> QED BY <2>1, <2>2, <2>3
<1>7. ASSUME MakeLambda PROVE StateOK'
  <2>1. ControlOK'
    <3>1. \A n \in Name : Lookup(n) \in Plain \cup {None}
      BY <1>7, LookupIsLocal, NewValues DEF StacksOK, MakeLambda
    <3> QED BY <1>7, <3>1, NewValues DEF ControlOK, MakeLambda
  <2>2. StacksOK'
    BY <1>7 DEF ControlOK, StacksOK, FilesOK, SessionOK, MakeLambda, steady, control, context, events, files
  <2>3. EventsOK' /\ FilesOK' /\ SessionOK' /\ CountersOK'
    BY <1>7 DEF ControlOK, EventsOK, FilesOK, SessionOK, CountersOK, MakeLambda, steady, control, context, events, files
  <2> QED BY <2>1, <2>2, <2>3
<1>8. ASSUME CallLambda PROVE StateOK'
  <2>1. ControlOK'
    BY <1>8, NewValues DEF ControlOK, StacksOK, FilesOK, CallLambda, Push, steady, control, context, events, files
  <2>2. StacksOK'
    <3>1. value.captures \in [Name -> Value \cup {None}]
      BY <1>8, NewValues DEF ControlOK, CallLambda
    <3> QED BY <1>8, <3>1, NewScopes, NewFrames, AppendProperties DEF StacksOK, CallLambda, Push, context
  <2>3. EventsOK' /\ FilesOK' /\ SessionOK' /\ CountersOK'
    BY <1>8 DEF ControlOK, EventsOK, FilesOK, SessionOK, CountersOK, CallLambda, Push, steady, control, context, events, files
  <2> QED BY <2>1, <2>2, <2>3
<1>9. ASSUME NEW isAsync \in BOOLEAN, NEW n \in Name, CallFunction(isAsync, n) PROVE StateOK'
  <2>1. ControlOK'
    BY <1>9, NewValues DEF ControlOK, StacksOK, FilesOK, CallFunction, Push, steady, control, context, events, files
  <2>2. StacksOK'
    BY <1>9, NewLocals, NewScopes, NewFrames, AppendProperties DEF ControlOK, StacksOK, FilesOK, SessionOK, CallFunction, Push, steady, control, context, events, files
  <2>3. EventsOK' /\ FilesOK' /\ SessionOK' /\ CountersOK'
    BY <1>9 DEF ControlOK, EventsOK, FilesOK, SessionOK, CountersOK, CallFunction, Push, steady, control, context, events, files
  <2> QED BY <2>1, <2>2, <2>3
<1>10. ASSUME Loop PROVE StateOK'
  <2>1. ControlOK'
    BY <1>10, NewValues DEF ControlOK, StacksOK, FilesOK, Loop, Push, steady, control, context, events, files
  <2>2. StacksOK'
    BY <1>10, NewFrames, AppendProperties DEF ControlOK, StacksOK, FilesOK, SessionOK, Loop, Push, steady, control, context, events, files
  <2>3. EventsOK' /\ FilesOK' /\ SessionOK' /\ CountersOK'
    BY <1>10 DEF ControlOK, EventsOK, FilesOK, SessionOK, CountersOK, Loop, Push, steady, control, context, events, files
  <2> QED BY <2>1, <2>2, <2>3
<1>11. ASSUME NEW n \in Name \cup {None}, Try(n) PROVE StateOK'
  <2>1. ControlOK'
    BY <1>11, NewValues DEF ControlOK, StacksOK, FilesOK, Try, Push, steady, control, context, events, files
  <2>2. StacksOK'
    BY <1>11, NewFrames, AppendProperties DEF ControlOK, StacksOK, FilesOK, SessionOK, Try, Push, steady, control, context, events, files
  <2>3. EventsOK' /\ FilesOK' /\ SessionOK' /\ CountersOK'
    BY <1>11 DEF ControlOK, EventsOK, FilesOK, SessionOK, CountersOK, Try, Push, steady, control, context, events, files
  <2> QED BY <2>1, <2>2, <2>3
<1>12. ASSUME NEW n \in Name \cup {None}, WithFile(n) PROVE StateOK'
  <2>1. ControlOK'
    BY <1>12, NewValues DEF ControlOK, StacksOK, FilesOK, WithFile, Push, steady, control, context, events, files
  <2>2. StacksOK'
    BY <1>12, NewValues, NewFrames, Bound, AppendProperties DEF ControlOK, StacksOK, FilesOK, SessionOK, WithFile, Push, steady, control, context, events, files
  <2>3. EventsOK' /\ FilesOK' /\ SessionOK' /\ CountersOK'
    BY <1>12, NewValues DEF ControlOK, EventsOK, FilesOK, SessionOK, CountersOK, WithFile, Push, steady, control, context, events, files
  <2> QED BY <2>1, <2>2, <2>3
<1>13. ASSUME Reraise PROVE StateOK'
  <2>1. ControlOK'
    BY <1>13, NewValues, PopIsRest DEF ControlOK, StacksOK, FilesOK, Reraise, RaiseIt, steady, control, context, events, files
  <2>2. StacksOK'
    BY <1>13 DEF ControlOK, StacksOK, FilesOK, SessionOK, Reraise, RaiseIt, steady, control, context, events, files
  <2>3. EventsOK' /\ FilesOK' /\ SessionOK' /\ CountersOK'
    BY <1>13 DEF ControlOK, EventsOK, FilesOK, SessionOK, CountersOK, Reraise, RaiseIt, steady, control, context, events, files
  <2> QED BY <2>1, <2>2, <2>3
<1>14. ASSUME AsyncWithFile PROVE StateOK'
  <2>1. ControlOK'
    BY <1>14, NewValues DEF ControlOK, StacksOK, FilesOK, AsyncWithFile, RaiseIt, steady, control, context, events, files
  <2>2. StacksOK'
    BY <1>14, NewValues, ClosedIs DEF ControlOK, StacksOK, FilesOK, SessionOK, AsyncWithFile, RaiseIt, steady, control, context, events, files
  <2>3. EventsOK' /\ FilesOK' /\ SessionOK' /\ CountersOK'
    BY <1>14 DEF ControlOK, EventsOK, FilesOK, SessionOK, CountersOK, AsyncWithFile, RaiseIt, steady, control, context, events, files
  <2> QED BY <2>1, <2>2, <2>3
<1>15. ASSUME NEW how \in {"end", "break", "continue", "return"}, Exit(how) PROVE StateOK'
  <2>1. ControlOK'
    BY <1>15, NewValues DEF ControlOK, StacksOK, FilesOK, Exit, steady, control, context, events, files
  <2>2. StacksOK'
    BY <1>15 DEF ControlOK, StacksOK, FilesOK, SessionOK, Exit, steady, control, context, events, files
  <2>3. EventsOK' /\ FilesOK' /\ SessionOK' /\ CountersOK'
    BY <1>15 DEF ControlOK, EventsOK, FilesOK, SessionOK, CountersOK, Exit, steady, control, context, events, files
  <2> QED BY <2>1, <2>2, <2>3
<1>16. ASSUME NEW hooks \in Hooks, StartRun(hooks) PROVE StateOK'
  <2>1. ControlOK'
    BY <1>16, NewValues DEF ControlOK, StacksOK, FilesOK, StartRun, Push, RaiseIt, steady, control, context, events, files
  <2>2. StacksOK'
    <3>1. Request("run", hooks, transitions + 1) \in Frame
      BY NewFrames DEF EventsOK
    <3>2. UNCHANGED <<scopes, caught>> /\ frames' \in {frames, Append(frames, Request("run", hooks, transitions + 1))}
      BY <1>16 DEF StartRun, Push, context
    <3>3. Append(frames, Request("run", hooks, transitions + 1)) \in Seq(Frame)
      BY <3>1, AppendProperties DEF StacksOK
    <3> QED BY <3>2, <3>3 DEF StacksOK
  <2>3. EventsOK' /\ FilesOK' /\ SessionOK' /\ CountersOK'
    <3> DEFINE start == Start("run", hooks, transitions + 1)
    <3>1. start \in StartEvent \cup Happening
      BY NewEvents DEF EventsOK
    <3>2. /\ UNCHANGED <<steady, context, executed, files>>
          /\ \/ UNCHANGED <<transitions, log>>
             \/ transitions' = transitions + 1 /\ log' = Append(log, start)
      BY <1>16 DEF StartRun
    <3> HIDE DEF start
    <3>3. EventsOK'
      BY <3>1, <3>2, AppendProperties DEF EventsOK
    <3> QED BY <3>2, <3>3 DEF FilesOK, SessionOK, CountersOK, steady, context, files
  <2> QED BY <2>1, <2>2, <2>3
<1>17. ASSUME NEW hooks \in Hooks, NEW tries \in 0..MaxRetries, StartModel(hooks, tries) PROVE StateOK'
  <2>1. ControlOK'
    BY <1>17, NewValues DEF ControlOK, StacksOK, FilesOK, StartModel, RaiseIt, steady, control, context, events, files
  <2>2. StacksOK'
    <3>1. Request("model", hooks, transitions + 1) \in Frame
      BY NewFrames DEF EventsOK
    <3>2. [kind |-> "infer", tries |-> tries, hooks |-> hooks] \in Frame
      BY NewFrames, EvaluatorAssumption
    <3> DEFINE infer == [kind |-> "infer", tries |-> tries, hooks |-> hooks]
               request == Request("model", hooks, transitions + 1)
    <3>3. UNCHANGED <<scopes, caught>> /\ frames' \in {frames, frames \o <<infer, request>>}
      BY <1>17 DEF StartModel, context
    <3> HIDE DEF infer, request
    <3>4. frames \o <<infer, request>> = Append(Append(frames, infer), request)
      BY <3>1, <3>2, TwoPushed DEF StacksOK, infer, request
    <3>5. frames \o <<infer, request>> \in Seq(Frame)
      BY <3>1, <3>2, <3>4, AppendProperties DEF StacksOK, infer, request
    <3> QED BY <3>3, <3>5 DEF StacksOK
  <2>3. EventsOK' /\ FilesOK' /\ SessionOK' /\ CountersOK'
    <3> DEFINE start == Start("model", hooks, transitions + 1)
    <3>1. start \in StartEvent \cup Happening
      BY NewEvents DEF EventsOK
    <3>2. /\ UNCHANGED <<steady, context, executed, files>>
          /\ \/ UNCHANGED <<transitions, log>>
             \/ transitions' = transitions + 1 /\ log' = Append(log, start)
      BY <1>17 DEF StartModel
    <3> HIDE DEF start
    <3>3. EventsOK'
      <4>1. Append(log, start) \in Seq(StartEvent \cup Happening)
        BY <3>1, AppendProperties DEF EventsOK
      <4> QED BY <3>2, <4>1 DEF EventsOK
    <3> QED BY <3>2, <3>3 DEF FilesOK, SessionOK, CountersOK, steady, context, files
  <2> QED BY <2>1, <2>2, <2>3
<1>18. ASSUME Begin PROVE StateOK'
  <2>1. ControlOK'
    BY <1>18, NewValues DEF ControlOK, StacksOK, FilesOK, Begin, steady, control, context, events, files
  <2>2. StacksOK'
    BY <1>18, EmptySeq, NewScopes, OnlyOne DEF ControlOK, StacksOK, FilesOK, SessionOK, Begin, steady, control, context, events, files
  <2>3. EventsOK' /\ FilesOK' /\ SessionOK' /\ CountersOK'
    <3>1. transitions' \in Nat
      BY <1>18 DEF SessionOK, Begin
    <3>2. EventsOK' /\ SessionOK'
      BY <1>18, <3>1 DEF EventsOK, SessionOK, Begin
    <3>3. FilesOK'
      BY <1>18 DEF FilesOK, Begin
    <3>4. CountersOK'
      <4>1. running' \in BOOLEAN /\ hooking' \in BOOLEAN
        BY <1>18 DEF Begin
      <4>2. asyncs' \in Int /\ evaluations' \in Nat
        BY <1>18 DEF CountersOK, Begin
      <4> QED BY <4>1, <4>2 DEF CountersOK
    <3> QED BY <3>2, <3>3, <3>4
  <2> QED BY <2>1, <2>2, <2>3
<1>19. ASSUME Finish PROVE StateOK'
  <2>1. ControlOK'
    BY <1>19, NewValues DEF ControlOK, StacksOK, FilesOK, Finish, steady, control, context, events, files
  <2>2. StacksOK'
    BY <1>19, EmptySeq DEF ControlOK, StacksOK, FilesOK, SessionOK, Finish, steady, control, context, events, files
  <2>3. EventsOK' /\ FilesOK' /\ SessionOK' /\ CountersOK'
    <3>1. Carried \in [locals : [Name -> Value \cup {None}], transitions : Nat]
      BY <1>19, CarriedIs DEF StacksOK, EventsOK, Finish
    <3> QED BY <1>19, <3>1 DEF EventsOK, FilesOK, SessionOK, CountersOK, Finish, context, events
  <2> QED BY <2>1, <2>2, <2>3
<1>20. ASSUME LeaveLoop PROVE StateOK'
  <2>1. ControlOK'
    BY <1>20, NewValues DEF ControlOK, StacksOK, FilesOK, LeaveLoop, RaiseIt, steady, control, context, events, files
  <2>2. StacksOK'
    BY <1>20, PopIsSeq DEF ControlOK, StacksOK, FilesOK, SessionOK, LeaveLoop, RaiseIt, steady, control, context, events, files
  <2>3. EventsOK' /\ FilesOK' /\ SessionOK' /\ CountersOK'
    BY <1>20 DEF ControlOK, EventsOK, FilesOK, SessionOK, CountersOK, LeaveLoop, RaiseIt, steady, control, context, events, files
  <2> QED BY <2>1, <2>2, <2>3
<1>21. ASSUME LeaveTry PROVE StateOK'
  <2>1. ControlOK'
    BY <1>21 DEF ControlOK, StacksOK, FilesOK, LeaveTry, Leaving, Onward, steady, control, context, events, files
  <2>2. StacksOK'
    <3>1. CASE flow = "raise"
      <4>1. frames # <<>> /\ Top(frames).kind = "try"
        BY <1>21, InnerIsTop DEF StacksOK, LeaveTry, Leaving
      <4>2. Top(frames).name \in Name \cup {None} /\ error \in Error
        BY <3>1, <4>1, PopIsRest, FrameParts DEF StacksOK, ControlOK
      <4> DEFINE handler == [kind |-> "handler", name |-> Top(frames).name, error |-> error]
      <4>3. handler \in Frame
        BY <4>2, NewFrames
      <4>4. frames' = Append(Pop(frames), handler) /\ caught' = Append(caught, error)
        BY <1>21, <3>1 DEF LeaveTry
      <4> HIDE DEF handler
      <4>5. frames' \in Seq(Frame) /\ caught' \in Seq(Error)
        BY <4>2, <4>3, <4>4, PopIsSeq, AppendProperties DEF StacksOK
      <4> DEFINE locals == IF Top(frames).name = None THEN NoLocals
                           ELSE With(NoLocals, Top(frames).name, Data)
      <4>6. locals \in [Name -> Value \cup {None}]
        BY <4>2, NewLocals, NewValues
      <4>7. scopes' = Append(scopes, NewScope(locals))
        BY <1>21, <3>1 DEF LeaveTry
      <4> HIDE DEF locals
      <4>8. scopes' \in Seq(Scope)
        BY <4>6, <4>7, NewScopes, AppendProperties DEF StacksOK
      <4> QED BY <4>5, <4>8 DEF StacksOK
    <3>2. CASE flow # "raise"
      BY <1>21, <3>2, PopIsSeq DEF StacksOK, LeaveTry
    <3> QED BY <3>1, <3>2
  <2>3. EventsOK' /\ FilesOK' /\ SessionOK' /\ CountersOK'
    BY <1>21 DEF ControlOK, EventsOK, FilesOK, SessionOK, CountersOK, LeaveTry, Leaving, Onward, steady, control, context, events, files
  <2> QED BY <2>1, <2>2, <2>3
<1>22. ASSUME LeaveHandler PROVE StateOK'
  <2>1. ControlOK'
    BY <1>22 DEF ControlOK, StacksOK, FilesOK, LeaveHandler, Leaving, Onward, steady, control, context, events, files
  <2>2. StacksOK'
    BY <1>22, PopIsSeq, MergedIs DEF ControlOK, StacksOK, FilesOK, SessionOK, LeaveHandler, Leaving, Onward, steady, control, context, events, files
  <2>3. EventsOK' /\ FilesOK' /\ SessionOK' /\ CountersOK'
    BY <1>22 DEF ControlOK, EventsOK, FilesOK, SessionOK, CountersOK, LeaveHandler, Leaving, Onward, steady, control, context, events, files
  <2> QED BY <2>1, <2>2, <2>3
<1>23. ASSUME LeaveWith PROVE StateOK'
  <2>1. ControlOK'
    BY <1>23, NewValues DEF ControlOK, StacksOK, FilesOK, LeaveWith, Leaving, Onward, RaiseIt, steady, control, context, events, files
  <2>2. StacksOK'
    <3>1. frames # <<>> /\ Top(frames).kind = "with"
      BY <1>23, InnerIsTop DEF StacksOK, LeaveWith, Leaving
    <3>2. Top(frames).resource \in Handle
      BY <3>1, PopIsRest, FrameParts DEF StacksOK
    <3> QED BY <1>23, <3>2, PopIsSeq, ClosedIs DEF StacksOK, LeaveWith, context
  <2>3. EventsOK' /\ FilesOK' /\ SessionOK' /\ CountersOK'
    BY <1>23 DEF ControlOK, EventsOK, FilesOK, SessionOK, CountersOK, LeaveWith, Leaving, Onward, RaiseIt, steady, control, context, events, files
  <2> QED BY <2>1, <2>2, <2>3
<1>24. ASSUME LeaveFunction PROVE StateOK'
  <2>1. ControlOK'
    BY <1>24, NewValues DEF ControlOK, StacksOK, FilesOK, LeaveFunction, Leaving, RaiseIt, steady, control, context, events, files
  <2>2. StacksOK'
    BY <1>24, PopIsSeq DEF ControlOK, StacksOK, FilesOK, SessionOK, LeaveFunction, Leaving, RaiseIt, steady, control, context, events, files
  <2>3. EventsOK' /\ FilesOK' /\ SessionOK' /\ CountersOK'
    BY <1>24 DEF ControlOK, EventsOK, FilesOK, SessionOK, CountersOK, LeaveFunction, Leaving, RaiseIt, steady, control, context, events, files
  <2> QED BY <2>1, <2>2, <2>3
<1>25. ASSUME LeaveLambda PROVE StateOK'
  <2>1. ControlOK'
    BY <1>25 DEF ControlOK, StacksOK, FilesOK, LeaveLambda, Leaving, Onward, steady, control, context, events, files
  <2>2. StacksOK'
    BY <1>25, PopIsSeq DEF ControlOK, StacksOK, FilesOK, SessionOK, LeaveLambda, Leaving, Onward, steady, control, context, events, files
  <2>3. EventsOK' /\ FilesOK' /\ SessionOK' /\ CountersOK'
    BY <1>25 DEF ControlOK, EventsOK, FilesOK, SessionOK, CountersOK, LeaveLambda, Leaving, Onward, steady, control, context, events, files
  <2> QED BY <2>1, <2>2, <2>3
<1>26. ASSUME LeaveHook PROVE StateOK'
  <2>1. ControlOK'
    BY <1>26 DEF ControlOK, StacksOK, FilesOK, LeaveHook, steady, control, context, events, files
  <2>2. StacksOK'
    BY <1>26, PopIsSeq DEF ControlOK, StacksOK, FilesOK, SessionOK, LeaveHook, steady, control, context, events, files
  <2>3. EventsOK' /\ FilesOK' /\ SessionOK' /\ CountersOK'
    BY <1>26 DEF ControlOK, EventsOK, FilesOK, SessionOK, CountersOK, LeaveHook, steady, control, context, events, files
  <2> QED BY <2>1, <2>2, <2>3
<1>27. ASSUME Respond PROVE StateOK'
  <2>1. ControlOK'
    BY <1>27, NewValues DEF ControlOK, StacksOK, FilesOK, Respond, RaiseIt, steady, control, context, events, files
  <2>2. StacksOK'
    <3>1. frames # <<>> /\ Top(frames).kind = "infer" /\ Top(frames) \in Frame
      BY <1>27, InnerIsTop, PopIsRest DEF StacksOK, Respond
    <3> DEFINE again == [Top(frames) EXCEPT !.tries = @ - 1]
               request == Request("model", Top(frames).hooks, transitions + 1)
    <3>2. UNCHANGED <<scopes, caught>>
      BY <1>27 DEF Respond, context
    <3>3. \/ frames' = Pop(frames)
          \/ /\ frames' = Append([frames EXCEPT ![Len(frames)].tries = @ - 1], request)
             /\ Top(frames).tries > 0
      BY <1>27 DEF Respond
    <3>4. ASSUME Top(frames).tries > 0
          PROVE  Append([frames EXCEPT ![Len(frames)].tries = @ - 1], request) \in Seq(Frame)
      <4>1. request \in Frame
        BY <3>1, FrameParts, NewFrames DEF EventsOK
      <4>2. again \in Frame /\ [frames EXCEPT ![Len(frames)].tries = @ - 1] = Append(Pop(frames), again)
        BY <3>1, <3>4, AskedAgain DEF StacksOK
      <4> HIDE DEF again, request
      <4> QED BY <4>1, <4>2, PopIsSeq, AppendProperties DEF StacksOK
    <3> QED BY <3>2, <3>3, <3>4, PopIsSeq DEF StacksOK
  <2>3. EventsOK' /\ FilesOK' /\ SessionOK' /\ CountersOK'
    <3>1. frames # <<>> /\ Top(frames).kind = "infer" /\ Top(frames) \in Frame
      BY <1>27, InnerIsTop, PopIsRest DEF StacksOK, Respond
    <3> DEFINE start == Start("model", Top(frames).hooks, transitions + 1)
    <3>2. start \in StartEvent \cup Happening
      BY <3>1, NewEvents, FrameParts DEF EventsOK
    <3>3. /\ UNCHANGED <<steady, context, executed, files>>
          /\ \/ UNCHANGED <<transitions, log>>
             \/ transitions' = transitions + 1 /\ log' = Append(log, start)
      BY <1>27 DEF Respond
    <3> HIDE DEF start
    <3>4. EventsOK'
      BY <3>2, <3>3, AppendProperties DEF EventsOK
    <3> QED BY <3>3, <3>4 DEF FilesOK, SessionOK, CountersOK, steady, context, files
  <2> QED BY <2>1, <2>2, <2>3
<1>28. ASSUME NEW how, NEW before, NEW after \in {"pre", "post"}, InvokeHook(before, after, how) PROVE StateOK'
  <2>1. ControlOK'
    BY <1>28, NewValues DEF ControlOK, StacksOK, FilesOK, InvokeHook, RaiseIt, steady, control, context, events, files
  <2>2. StacksOK'
    <3>1. frames # <<>> /\ Top(frames) \in RequestFrame
      BY <1>28, InnerIsTop, PopIsRest, FrameParts DEF StacksOK, InvokeHook, AtPhase
    <3> DEFINE hook == [kind |-> "hook", named |-> how = "name"]
               next == [Top(frames) EXCEPT !.phase = after]
               event == IF hook.named THEN <<NewScope(NoLocals)>> ELSE <<>>
    <3>2. hook \in Frame /\ next \in Frame /\ Phase(after) = Append(Pop(frames), next)
      BY <3>1, NewFrames, NextPhases, PhaseIs DEF StacksOK, Phases
    <3>3. PICK body \in {[kind |-> "lambda"], [kind |-> "function", async |-> FALSE]} :
            \/ frames' = Append(Phase(after), hook) /\ scopes' = scopes \o event
            \/ /\ frames' = Phase(after) \o <<hook, body>>
               /\ scopes' = scopes \o event \o <<NewScope(NoLocals)>>
      BY <1>28 DEF InvokeHook
    <3>4. body \in Frame /\ NewScope(NoLocals) \in Scope
      BY NewFrames, NewLocals, NewScopes
    <3>5. Phase(after) \in Seq(Frame)
      BY <3>1, <3>2, PopIsSeq, AppendProperties DEF StacksOK
    <3>6. frames' \in Seq(Frame)
      <4> HIDE DEF hook, next, event
      <4>1. Phase(after) \o <<hook, body>> = Append(Append(Phase(after), hook), body)
        BY <3>2, <3>4, <3>5, TwoPushed
      <4>2. Append(Phase(after), hook) \in Seq(Frame)
        BY <3>2, <3>5, AppendProperties
      <4>3. Append(Append(Phase(after), hook), body) \in Seq(Frame)
        BY <3>4, <4>2, AppendProperties
      <4> QED BY <3>3, <4>1, <4>2, <4>3
    <3>7. scopes' \in Seq(Scope)
      <4>1. event \in Seq(Scope) /\ <<NewScope(NoLocals)>> \in Seq(Scope)
        BY <3>4, OnlyOne, EmptySeq
      <4> HIDE DEF hook, next, event
      <4>2. scopes \o event \in Seq(Scope)
        BY <4>1, ConcatProperties DEF StacksOK
      <4>3. scopes \o event \o <<NewScope(NoLocals)>> \in Seq(Scope)
        BY <4>1, <4>2, ConcatProperties
      <4> QED BY <3>3, <4>2, <4>3
    <3> QED BY <1>28, <3>6, <3>7 DEF StacksOK, InvokeHook
  <2>3. EventsOK' /\ FilesOK' /\ SessionOK' /\ CountersOK'
    BY <1>28 DEF ControlOK, EventsOK, FilesOK, SessionOK, CountersOK, InvokeHook, RaiseIt, steady, control, context, events, files
  <2> QED BY <2>1, <2>2, <2>3
<1>29. ASSUME Decide PROVE StateOK'
  <2>1. ControlOK'
    BY <1>29, NewValues DEF ControlOK, StacksOK, FilesOK, Decide, RaiseIt, steady, control, context, events, files
  <2>2. StacksOK'
    <3>1. frames # <<>> /\ Top(frames) \in RequestFrame
      BY <1>29, InnerIsTop, PopIsRest, FrameParts DEF StacksOK, Decide, AtPhase
    <3> DEFINE p == [Top(frames) EXCEPT !.phase = "effect"]
               r == [Top(frames) EXCEPT !.phase = "effect", !.rejected = TRUE]
    <3>2. p \in Frame /\ r \in Frame /\ Phase("effect") = Append(Pop(frames), p)
      BY <3>1, NextPhases, NewFrames, PhaseIs DEF StacksOK, Phases
    <3>3. UNCHANGED <<scopes, caught>> /\ frames' \in {Pop(frames), Phase("effect"), [frames EXCEPT ![Len(frames)] = r]}
      BY <1>29 DEF Decide, context, Top
    <3> HIDE DEF p, r
    <3>4. Append(Pop(frames), p) \in Seq(Frame) /\ [frames EXCEPT ![Len(frames)] = r] \in Seq(Frame)
      BY <3>1, <3>2, PopIsSeq, AppendProperties, UpdateIsSeq DEF StacksOK
    <3> QED BY <3>2, <3>3, <3>4, PopIsSeq DEF StacksOK
  <2>3. EventsOK' /\ FilesOK' /\ SessionOK' /\ CountersOK'
    <3>1. frames # <<>> /\ Top(frames) \in RequestFrame
      BY <1>29, InnerIsTop, PopIsRest, FrameParts DEF StacksOK, Decide, AtPhase
    <3> DEFINE event(ok, rejected) == [id |-> Top(frames).id, phase |-> "pre",
                                      ok |-> ok, rejected |-> rejected]
    <3>2. /\ event(FALSE, FALSE) = Event("pre", FALSE) /\ event(TRUE, FALSE) = Event("pre", TRUE)
          /\ event(FALSE, TRUE) = [Event("pre", FALSE) EXCEPT !.rejected = TRUE]
      BY EventIs
    <3>6. /\ UNCHANGED <<transitions, executed>>
          /\ log' \in {Append(log, event(FALSE, FALSE)), Append(log, event(TRUE, FALSE)), Append(log, event(FALSE, TRUE))}
      <4> HIDE DEF event
      <4> QED BY <1>29, <3>2 DEF Decide
    <3>3. Top(frames).id \in Nat
      BY <3>1 DEF RequestFrame
    <3>4. /\ event(FALSE, FALSE) \in StartEvent \cup Happening
          /\ event(TRUE, FALSE) \in StartEvent \cup Happening
          /\ event(FALSE, TRUE) \in StartEvent \cup Happening
      BY <3>3, NewEvents
    <3> DEFINE e1 == event(FALSE, FALSE)
               e2 == event(TRUE, FALSE)
               e3 == event(FALSE, TRUE)
    <3>7. log' \in {Append(log, e1), Append(log, e2), Append(log, e3)}
      BY <3>6
    <3>8. {e1, e2, e3} \subseteq StartEvent \cup Happening
      BY <3>4
    <3> HIDE DEF event, e1, e2, e3
    <3>5. EventsOK'
      BY <3>6, <3>7, <3>8, AppendProperties DEF EventsOK
    <3> QED BY <1>29, <3>5 DEF FilesOK, SessionOK, CountersOK, Decide, steady, context, files
  <2> QED BY <2>1, <2>2, <2>3
<1>30. ASSUME NEW failed \in BOOLEAN, Outcome(failed), AtPhase("effect") \/ AtPhase("observing"),
              executed' \in {executed, executed \cup {Top(frames).id}}
       PROVE  StateOK'
  <2>1. ControlOK'
    BY <1>30, NewValues DEF ControlOK, StacksOK, FilesOK, Outcome, RaiseIt, steady, control, context, events, files
  <2>2. StacksOK'
    <3>1. frames # <<>> /\ Top(frames) \in RequestFrame
      BY <1>30, InnerIsTop, PopIsRest, FrameParts DEF StacksOK, AtPhase
    <3> DEFINE d == [Top(frames) EXCEPT !.phase = "done", !.failed = failed]
    <3>2. d \in Frame
      BY <3>1, NextPhases, NewFrames
    <3>3. UNCHANGED <<scopes, caught>> /\ frames' \in {Pop(frames), [frames EXCEPT ![Len(frames)] = d]}
      BY <1>30 DEF Outcome, context, Top
    <3> HIDE DEF d
    <3>4. [frames EXCEPT ![Len(frames)] = d] \in Seq(Frame)
      BY <3>2, UpdateIsSeq DEF StacksOK
    <3> QED BY <3>3, <3>4, PopIsSeq DEF StacksOK
  <2>3. EventsOK' /\ FilesOK' /\ SessionOK' /\ CountersOK'
    <3>1. frames # <<>> /\ Top(frames) \in RequestFrame
      BY <1>30, InnerIsTop, PopIsRest, FrameParts DEF StacksOK, AtPhase
    <3> DEFINE event == [id |-> Top(frames).id, phase |-> "effect", skipped |-> Top(frames).rejected]
    <3>2. log' = Append(log, event) /\ UNCHANGED transitions
      BY <1>30 DEF Outcome
    <3>3. Top(frames).id \in Nat
      BY <3>1 DEF RequestFrame
    <3>4. event \in StartEvent \cup Happening
      BY <3>1, <3>3, NewEvents DEF RequestFrame
    <3> HIDE DEF event
    <3>5. EventsOK'
      BY <1>30, <3>2, <3>3, <3>4, AppendProperties DEF EventsOK
    <3> QED BY <1>30, <3>5 DEF FilesOK, SessionOK, CountersOK, Outcome, steady, context, files
  <2> QED BY <2>1, <2>2, <2>3
<1>31. ASSUME Conclude PROVE StateOK'
  <2>1. ControlOK'
    BY <1>31, NewValues DEF ControlOK, StacksOK, FilesOK, Conclude, RaiseIt, steady, control, context, events, files
  <2>2. StacksOK'
    BY <1>31, PopIsSeq DEF StacksOK, Conclude, context
  <2>3. EventsOK' /\ FilesOK' /\ SessionOK' /\ CountersOK'
    <3>1. frames # <<>> /\ Top(frames) \in RequestFrame
      BY <1>31, InnerIsTop, PopIsRest, FrameParts DEF StacksOK, Conclude, AtPhase
    <3> DEFINE event == [id |-> Top(frames).id, phase |-> "post",
                         ok |-> flow # "raise", rejected |-> FALSE]
    <3>2. log' = Append(log, event) /\ UNCHANGED transitions /\ executed' \in {executed, executed \cup {Top(frames).id}}
      BY <1>31 DEF Conclude, Event
    <3>3. Top(frames).id \in Nat
      BY <3>1 DEF RequestFrame
    <3>4. event \in StartEvent \cup Happening
      BY <3>1, <3>3, NewEvents DEF RequestFrame
    <3> HIDE DEF event
    <3>5. EventsOK'
      BY <3>2, <3>3, <3>4, AppendProperties DEF EventsOK
    <3> QED BY <1>31, <3>5 DEF FilesOK, SessionOK, CountersOK, Conclude, steady, context, files
  <2> QED BY <2>1, <2>2, <2>3
<1>32. CASE UNCHANGED vars
  BY <1>32 DEF ControlOK, StacksOK, EventsOK, FilesOK, SessionOK, CountersOK,
               vars, steady, control, context, events, files
<1>33. ASSUME Evaluate PROVE StateOK' /\ steps' \in Nat
  <2> HIDE DEF StateOK
  <2>1. steps' \in Nat
    BY <1>33 DEF Evaluate
  <2>2. StateOK'
    BY <1>33, <1>1, <1>2, <1>3, <1>4, <1>5, <1>6, <1>7, <1>8, <1>9, <1>10, <1>11, <1>12,
       <1>13, <1>14, <1>15, <1>16, <1>17 DEF Evaluate
  <2> QED BY <2>1, <2>2
<1>35. ASSUME NEW failed \in BOOLEAN, Effect(failed) PROVE StateOK'
  <2>1. /\ Outcome(failed) /\ AtPhase("effect")
        /\ executed' \in {executed, executed \cup {Top(frames).id}}
    BY <1>35 DEF Effect
  <2> QED BY <1>30, <2>1
<1>36. ASSUME Observe PROVE StateOK'
  <2>1. Outcome(FALSE) /\ AtPhase("observing") /\ executed' = executed
    BY <1>36 DEF Observe
  <2> QED BY <1>30, <2>1
<1>37. ASSUME Run PROVE StateOK'
  <2>1. frames # <<>> /\ Top(frames) \in RequestFrame
    BY <1>37, InnerIsTop, PopIsRest, FrameParts DEF StacksOK, Run, AtPhase
  <2> DEFINE f == [Top(frames) EXCEPT !.phase = "observing"]
  <2>2. f \in Frame /\ Phase("observing") = Append(Pop(frames), f)
    BY <2>1, NextPhases, NewFrames, PhaseIs DEF StacksOK, Phases
  <2> HIDE DEF f
  <2>3. frames' \in Seq(Frame)
    <3>1. Pop(frames) \in Seq(Frame)
      BY PopIsSeq DEF StacksOK
    <3>2. Append(Pop(frames), f) \in Seq(Frame)
      BY <2>2, <3>1, AppendProperties
    <3> QED BY <1>37, <2>2, <3>2 DEF Run
  <2>4. Top(frames).id \in Nat
    BY <2>1 DEF RequestFrame
  <2>5. UNCHANGED <<steady, flow, value, error, scopes, context, transitions, log, files>>
        /\ executed' = executed \cup {Top(frames).id}
    BY <1>37 DEF Run
  <2> QED BY <2>3, <2>4, <2>5 DEF ControlOK, StacksOK, EventsOK, FilesOK, SessionOK, CountersOK,
                                 steady, context, files
<1>38. ASSUME NEW n \in Name, InvokeHelper(n) PROVE StateOK'
  <2>1. ControlOK'
    BY <1>38, NewValues DEF ControlOK, InvokeHelper
  <2>2. StacksOK'
    BY <1>38, NewValues, NewLocals, NewScopes, NewFrames, AppendProperties DEF StacksOK, InvokeHelper, Push, context
  <2>3. EventsOK' /\ FilesOK' /\ SessionOK' /\ CountersOK'
    BY <1>38 DEF EventsOK, FilesOK, SessionOK, CountersOK, InvokeHelper, steady, context, events, files
  <2> QED BY <2>1, <2>2, <2>3
<1>39. ASSUME LeaveHelper PROVE StateOK'
  <2>1. ControlOK'
    BY <1>39, NewValues DEF ControlOK, LeaveHelper
  <2>2. StacksOK'
    BY <1>39, PopIsSeq DEF StacksOK, LeaveHelper, context
  <2>3. EventsOK' /\ FilesOK' /\ SessionOK' /\ CountersOK'
    BY <1>39 DEF EventsOK, FilesOK, SessionOK, CountersOK, LeaveHelper, steady, context, events, files
  <2> QED BY <2>1, <2>2, <2>3
<1>34. ASSUME (Begin \/ Finish \/ Leave \/ Transition) /\ UNCHANGED steps
       PROVE  StateOK' /\ steps' \in Nat
  <2> HIDE DEF StateOK
  <2> QED BY <1>34, <1>18, <1>19, <1>20, <1>21, <1>22, <1>23, <1>24, <1>25, <1>26, <1>27,
             <1>28, <1>29, <1>31, <1>35, <1>36, <1>37, <1>38, <1>39
          DEF Leave, Transition, InvokePre, InvokePost
<1> QED BY <1>32, <1>33, <1>34 DEF Next

-----------------------------------------------------------------------------
(* The stack of frames.                                                    *)

\* Where a frame is put on a stack, the positions below stay as they were.
LEMMA Pushed ==
  ASSUME NEW fs \in Seq(Frame), NEW f \in Frame
  PROVE  LET gs == Append(fs, f) IN
         /\ gs \in Seq(Frame) /\ Len(fs) \in Nat /\ Len(gs) = Len(fs) + 1
         /\ gs # <<>> /\ Top(gs) = f /\ Pop(gs) = fs
         /\ DOMAIN fs = 1..Len(fs) /\ DOMAIN gs = 1..(Len(fs) + 1)
         /\ \A i \in 1..Len(fs) : gs[i] = fs[i]
         /\ gs[Len(fs) + 1] = f
<1> DEFINE gs == Append(fs, f)
<1>1. /\ gs \in Seq(Frame) /\ Len(gs) = Len(fs) + 1 /\ gs[Len(fs) + 1] = f
      /\ \A i \in 1..Len(fs) : gs[i] = fs[i]
  BY AppendProperties
<1>2. Len(fs) \in Nat /\ DOMAIN fs = 1..Len(fs) /\ DOMAIN gs = 1..(Len(fs) + 1)
  BY <1>1, LenProperties
<1> HIDE DEF gs
<1>3. gs # <<>> /\ Top(gs) = f
  BY <1>1, <1>2, EmptySeq DEF Top
<1>4. /\ Pop(gs) \in Seq(Frame) /\ Len(Pop(gs)) = Len(fs)
      /\ \A i \in 1..Len(fs) : Pop(gs)[i] = fs[i]
  BY <1>1, <1>2, <1>3, PopIsRest
<1>5. Pop(gs) = fs
  BY <1>4, SeqEqual
<1> QED BY <1>1, <1>2, <1>3, <1>5 DEF gs

\* A push adds the position of the frame to those of its kind.
LEMMA AtPushed ==
  ASSUME NEW fs \in Seq(Frame), NEW f \in Frame, NEW kind
  PROVE  /\ At(Append(fs, f), kind) = At(fs, kind) \cup IF f.kind = kind THEN {Len(fs) + 1} ELSE {}
         /\ f.kind = kind => At(Append(fs, f), kind) = At(fs, kind) \cup {Len(fs) + 1}
         /\ f.kind # kind => At(Append(fs, f), kind) = At(fs, kind)
         /\ At(fs, kind) \subseteq 1..Len(fs)
<1>1. /\ At(Append(fs, f), kind) = At(fs, kind) \cup IF f.kind = kind THEN {Len(fs) + 1} ELSE {}
      /\ At(fs, kind) \subseteq 1..Len(fs)
  BY Pushed DEF At
<1> QED BY <1>1

\* A stack is nested when its rest is and the frame on it may be there.
LEMMA NestedPushed ==
  ASSUME NEW fs \in Seq(Frame), NEW f \in Frame
  PROVE  Nested(Append(fs, f)) <=>
           /\ Nested(fs)
           /\ f.kind \in {"hook", "transition", "infer"} => At(fs, "hook") = {}
           /\ fs # <<>> => MayStand(Top(fs), f)
<1> DEFINE gs == Append(fs, f)
           n == Len(fs)
           inner == {"hook", "transition", "infer"}
<1>1. /\ n \in Nat /\ DOMAIN fs = 1..n /\ DOMAIN gs = 1..(n + 1) /\ gs[n + 1] = f
      /\ \A i \in 1..n : gs[i] = fs[i]
  BY Pushed
<1>2. fs # <<>> => n \in 1..n /\ Top(fs) = fs[n]
  BY <1>1, EmptySeq DEF Top
<1>3. 1..n # {} => fs # <<>>
  BY EmptySeq
<1>4. ASSUME Nested(gs)
      PROVE  /\ Nested(fs) /\ (f.kind \in inner => At(fs, "hook") = {})
             /\ fs # <<>> => MayStand(Top(fs), f)
  <2> HIDE DEF gs, n
  <2>1. Nested(fs)
    BY <1>1, <1>4 DEF Nested
  <2>2. ASSUME NEW i \in 1..n, fs[i].kind = "hook" PROVE f.kind \notin inner
    BY <1>1, <1>4, <2>2 DEF Nested
  <2>3. ASSUME fs # <<>> PROVE MayStand(Top(fs), f)
    <3>1. n \in DOMAIN gs /\ n + 1 \in DOMAIN gs
      BY <1>1, <1>2, <2>3
    <3>2. MayStand(gs[n], gs[n + 1])
      BY <1>4, <3>1 DEF Nested
    <3> QED BY <1>1, <1>2, <2>3, <3>2
  <2> QED BY <1>1, <2>1, <2>2, <2>3 DEF At
<1>5. ASSUME Nested(fs), f.kind \in inner => At(fs, "hook") = {},
             fs # <<>> => MayStand(Top(fs), f)
      PROVE  Nested(gs)
  <2> HIDE DEF gs, n
  <2>1. ASSUME NEW i \in 1..(n + 1), NEW j \in 1..(n + 1), i < j, gs[i].kind = "hook"
        PROVE  gs[j].kind \notin inner
    <3>1. CASE j = n + 1
      BY <1>1, <1>5, <2>1, <3>1 DEF At
    <3>2. CASE j # n + 1
      BY <1>1, <1>5, <2>1, <3>2 DEF Nested
    <3> QED BY <3>1, <3>2
  <2>2. ASSUME NEW i \in 1..(n + 1), NEW j \in 1..(n + 1), j = i + 1
        PROVE  MayStand(gs[i], gs[j])
    <3>1. CASE j = n + 1
      BY <1>1, <1>2, <1>3, <1>5, <2>2, <3>1
    <3>2. CASE j # n + 1
      <4>1. i \in 1..n /\ j \in 1..n
        BY <1>1, <2>2, <3>2
      <4>2. MayStand(fs[i], fs[j])
        BY <1>1, <1>5, <2>2, <4>1 DEF Nested
      <4> QED BY <1>1, <4>1, <4>2
    <3> QED BY <3>1, <3>2
  <2> QED BY <1>1, <2>1, <2>2 DEF Nested
<1> QED BY <1>4, <1>5

\* What a frame counts for.
Own(f) == IF f.kind \in {"function", "lambda", "handler", "helper"} \/ (f.kind = "hook" /\ f.named) THEN 1 ELSE 0
Async(f) == IF f.kind = "function" /\ f.async THEN 1 ELSE 0

\* A push counts the scope and the async depth that the frame stands for.
LEMMA CountedPushed ==
  ASSUME NEW fs \in Seq(Frame), NEW f \in Frame
  PROVE  /\ Cardinality(Scoped(fs)) \in Nat /\ Cardinality(Asynchronous(fs)) \in Nat
         /\ Cardinality(At(fs, "handler")) \in Nat
         /\ Cardinality(Scoped(Append(fs, f))) = Cardinality(Scoped(fs)) + Own(f)
         /\ Cardinality(Asynchronous(Append(fs, f))) = Cardinality(Asynchronous(fs)) + Async(f)
         /\ Cardinality(At(Append(fs, f), "handler")) =
              Cardinality(At(fs, "handler")) + IF f.kind = "handler" THEN 1 ELSE 0
<1> DEFINE gs == Append(fs, f)
           n == Len(fs)
           With1(b) == IF b THEN {n + 1} ELSE {}
<1>1. /\ n \in Nat /\ DOMAIN fs = 1..n /\ DOMAIN gs = 1..(n + 1) /\ gs[n + 1] = f
      /\ \A i \in 1..n : gs[i] = fs[i]
  BY Pushed
<1>2. \A S \in SUBSET (1..n) :
        /\ Cardinality(S) \in Nat
        /\ Cardinality(S \cup {n + 1}) = Cardinality(S) + 1
  <2> TAKE S \in SUBSET (1..n)
  <2>1. IsFiniteSet(1..n) /\ n + 1 \notin S
    BY <1>1, FS_Interval
  <2>2. IsFiniteSet(S)
    BY <2>1, FS_Subset
  <2> QED BY <2>1, <2>2, FS_CardinalityType, FS_AddElement
<1> HIDE DEF gs, n
<1>3. /\ Scoped(fs) \in SUBSET (1..n) /\ Asynchronous(fs) \in SUBSET (1..n)
      /\ At(fs, "handler") \in SUBSET (1..n)
  BY <1>1 DEF Scoped, Asynchronous, At
<1>4. Scoped(gs) = Scoped(fs) \cup With1(Own(f) = 1)
  <2>1. ASSUME NEW i \in 1..n PROVE i \in Scoped(gs) <=> i \in Scoped(fs)
    BY <1>1 DEF Scoped, At
  <2>2. n + 1 \in Scoped(gs) <=> Own(f) = 1
    BY <1>1 DEF Scoped, At, Own
  <2>3. Scoped(gs) \subseteq 1..(n + 1)
    BY <1>1 DEF Scoped, At
  <2> QED BY <1>1, <1>3, <2>1, <2>2, <2>3
<1>5. Asynchronous(gs) = Asynchronous(fs) \cup With1(Async(f) = 1)
  <2>1. ASSUME NEW i \in 1..n PROVE i \in Asynchronous(gs) <=> i \in Asynchronous(fs)
    BY <1>1 DEF Asynchronous, At
  <2>2. n + 1 \in Asynchronous(gs) <=> Async(f) = 1
    BY <1>1 DEF Asynchronous, At, Async
  <2>3. Asynchronous(gs) \subseteq 1..(n + 1)
    BY <1>1 DEF Asynchronous, At
  <2> QED BY <1>1, <1>3, <2>1, <2>2, <2>3
<1>6. At(gs, "handler") = At(fs, "handler") \cup With1(f.kind = "handler")
  BY AtPushed DEF gs, n
<1>10. /\ Cardinality(Scoped(fs)) \in Nat /\ Cardinality(Asynchronous(fs)) \in Nat
       /\ Cardinality(At(fs, "handler")) \in Nat
  BY <1>2, <1>3
<1>7. Cardinality(Scoped(gs)) = Cardinality(Scoped(fs)) + Own(f)
  <2>1. CASE Own(f) = 1
    BY <1>2, <1>3, <1>4, <2>1
  <2>2. CASE Own(f) # 1
    <3>1. Scoped(gs) = Scoped(fs) /\ Own(f) = 0
      BY <1>4, <2>2 DEF Own
    <3> QED BY <1>10, <3>1
  <2> QED BY <2>1, <2>2
<1>8. Cardinality(Asynchronous(gs)) = Cardinality(Asynchronous(fs)) + Async(f)
  <2>1. CASE Async(f) = 1
    BY <1>2, <1>3, <1>5, <2>1
  <2>2. CASE Async(f) # 1
    <3>1. Asynchronous(gs) = Asynchronous(fs) /\ Async(f) = 0
      BY <1>5, <2>2 DEF Async
    <3> QED BY <1>10, <3>1
  <2> QED BY <2>1, <2>2
<1>9. Cardinality(At(gs, "handler")) = Cardinality(At(fs, "handler")) + IF f.kind = "handler" THEN 1 ELSE 0
  <2>1. CASE f.kind = "handler"
    BY <1>2, <1>3, <1>6, <2>1
  <2>2. CASE f.kind # "handler"
    <3>1. At(gs, "handler") = At(fs, "handler")
      BY <1>6, <2>2
    <3> QED BY <1>10, <2>2, <3>1
  <2> QED BY <2>1, <2>2
<1> QED BY <1>2, <1>3, <1>7, <1>8, <1>9 DEF gs

\* The handlers up to a position do not change above it.
LEMMA HandlersPushed ==
  ASSUME NEW fs \in Seq(Frame), NEW f \in Frame
  PROVE  /\ \A k \in 1..Len(fs) : HandlersUpTo(Append(fs, f), k) = HandlersUpTo(fs, k)
         /\ \A k \in At(fs, "handler") : HandlersUpTo(fs, k) \in 1..Cardinality(At(fs, "handler"))
         /\ f.kind = "handler" =>
              HandlersUpTo(Append(fs, f), Len(fs) + 1) = Cardinality(At(fs, "handler")) + 1
<1>1. /\ Len(fs) \in Nat
      /\ At(fs, "handler") \subseteq 1..Len(fs)
      /\ At(Append(fs, f), "handler") =
           At(fs, "handler") \cup IF f.kind = "handler" THEN {Len(fs) + 1} ELSE {}
  BY AtPushed, LenProperties
<1>2. ASSUME NEW k \in 1..Len(fs)
      PROVE  HandlersUpTo(Append(fs, f), k) = HandlersUpTo(fs, k)
  <2>1. {i \in At(Append(fs, f), "handler") : i <= k} = {i \in At(fs, "handler") : i <= k}
    BY <1>1
  <2> QED BY <2>1 DEF HandlersUpTo
<1>3. ASSUME NEW k \in At(fs, "handler")
      PROVE  HandlersUpTo(fs, k) \in 1..Cardinality(At(fs, "handler"))
  <2> DEFINE S == {i \in At(fs, "handler") : i <= k}
  <2>1. IsFiniteSet(At(fs, "handler"))
    <3>1. IsFiniteSet(1..Len(fs))
      BY <1>1, FS_Interval
    <3> QED BY <1>1, <3>1, FS_Subset
  <2>2. S \in SUBSET At(fs, "handler") /\ k \in S
    BY <1>1
  <2> HIDE DEF S
  <2>3. IsFiniteSet(S) /\ Cardinality(S) <= Cardinality(At(fs, "handler"))
    BY <2>1, <2>2, FS_Subset
  <2>4. Cardinality(S) \in Nat /\ Cardinality(S) # 0 /\ Cardinality(At(fs, "handler")) \in Nat
    BY <2>1, <2>2, <2>3, FS_EmptySet, FS_CardinalityType
  <2> QED BY <2>3, <2>4 DEF HandlersUpTo, S
<1>4. ASSUME f.kind = "handler"
      PROVE  HandlersUpTo(Append(fs, f), Len(fs) + 1) = Cardinality(At(fs, "handler")) + 1
  <2>1. {i \in At(Append(fs, f), "handler") : i <= Len(fs) + 1} = At(Append(fs, f), "handler")
    BY <1>1
  <2> QED BY <1>4, <2>1, CountedPushed DEF HandlersUpTo
<1> QED BY <1>2, <1>3, <1>4

\* What was set up for a stack and for the frame on it is tallied with both.
LEMMA TalliedPushed ==
  ASSUME NEW fs \in Seq(Frame), NEW f \in Frame,
         NEW ns \in Int, NEW cs \in Seq(Error), NEW as \in Int, Tallied(fs, ns, cs, as)
  PROVE  /\ f.kind # "handler" => Tallied(Append(fs, f), ns + Own(f), cs, as + Async(f))
         /\ f.kind = "handler" => Tallied(Append(fs, f), ns + 1, Append(cs, f.error), as)
<1> DEFINE gs == Append(fs, f)
           n == Len(fs)
           c == Cardinality(At(fs, "handler"))
<1>1. /\ n \in Nat /\ At(fs, "handler") \subseteq 1..n
      /\ gs[n + 1] = f /\ \A i \in 1..n : gs[i] = fs[i]
  BY Pushed, AtPushed
<1>2. /\ c \in Nat
      /\ Cardinality(Scoped(gs)) = Cardinality(Scoped(fs)) + Own(f)
      /\ Cardinality(Asynchronous(gs)) = Cardinality(Asynchronous(fs)) + Async(f)
      /\ Cardinality(Scoped(fs)) \in Nat /\ Cardinality(Asynchronous(fs)) \in Nat
  BY CountedPushed
<1>3. Len(cs) = c /\ \A k \in At(fs, "handler") : cs[HandlersUpTo(fs, k)] = fs[k].error
  BY DEF Tallied
<1>4. \A k \in At(fs, "handler") :
        HandlersUpTo(gs, k) = HandlersUpTo(fs, k) /\ HandlersUpTo(fs, k) \in 1..c
  BY <1>1, HandlersPushed
<1>5. CASE f.kind # "handler"
  <2>1. At(gs, "handler") = At(fs, "handler")
    BY <1>5, AtPushed
  <2>2. /\ ns + Own(f) = 1 + Cardinality(Scoped(gs))
        /\ as + Async(f) = Cardinality(Asynchronous(gs))
    BY <1>2 DEF Tallied, Own, Async
  <2> HIDE DEF gs, n, c
  <2>3. \A k \in At(gs, "handler") : cs[HandlersUpTo(gs, k)] = gs[k].error
    BY <1>1, <1>3, <1>4, <2>1
  <2> QED BY <1>3, <1>5, <2>1, <2>2, <2>3 DEF Tallied, gs, c
<1>6. CASE f.kind = "handler"
  <2> DEFINE ds == Append(cs, f.error)
  <2>1. f.error \in Error
    BY <1>6, FrameParts
  <2>2. Len(ds) = c + 1 /\ ds[c + 1] = f.error /\ \A i \in 1..c : ds[i] = cs[i]
    BY <1>3, <2>1, AppendProperties
  <2>3. /\ At(gs, "handler") = At(fs, "handler") \cup {n + 1}
        /\ Cardinality(At(gs, "handler")) = c + 1 /\ HandlersUpTo(gs, n + 1) = c + 1
    BY <1>6, AtPushed, CountedPushed, HandlersPushed
  <2>4. Own(f) = 1 /\ Async(f) = 0
    BY <1>6 DEF Own, Async
  <2>5. ns + 1 = 1 + Cardinality(Scoped(gs)) /\ as = Cardinality(Asynchronous(gs))
    BY <1>2, <2>4 DEF Tallied
  <2> HIDE DEF gs, n, c, ds
  <2>6. \A k \in At(gs, "handler") : ds[HandlersUpTo(gs, k)] = gs[k].error
    BY <1>1, <1>3, <1>4, <2>2, <2>3
  <2> QED BY <1>6, <2>2, <2>3, <2>5, <2>6 DEF Tallied, gs, ds
<1> QED BY <1>5, <1>6

\* What is undone with a frame leaves what the rest of the stack set up.
LEMMA TalliedPopped ==
  ASSUME NEW fs \in Seq(Frame), NEW f \in Frame,
         NEW ns \in Int, NEW cs \in Seq(Error), NEW as \in Int, Tallied(Append(fs, f), ns, cs, as)
  PROVE  /\ f.kind # "handler" => Tallied(fs, ns - Own(f), cs, as - Async(f))
         /\ f.kind = "handler" => cs # <<>> /\ Tallied(fs, ns - 1, Pop(cs), as)
<1> DEFINE gs == Append(fs, f)
           n == Len(fs)
           c == Cardinality(At(fs, "handler"))
<1>1. /\ n \in Nat /\ At(fs, "handler") \subseteq 1..n
      /\ gs[n + 1] = f /\ \A i \in 1..n : gs[i] = fs[i]
  BY Pushed, AtPushed
<1>2. /\ c \in Nat
      /\ Cardinality(Scoped(gs)) = Cardinality(Scoped(fs)) + Own(f)
      /\ Cardinality(Asynchronous(gs)) = Cardinality(Asynchronous(fs)) + Async(f)
      /\ Cardinality(Scoped(fs)) \in Nat /\ Cardinality(Asynchronous(fs)) \in Nat
  BY CountedPushed
<1>3. /\ Len(cs) = Cardinality(At(gs, "handler"))
      /\ \A k \in At(gs, "handler") : cs[HandlersUpTo(gs, k)] = gs[k].error
  BY DEF Tallied
<1>4. \A k \in At(fs, "handler") :
        HandlersUpTo(gs, k) = HandlersUpTo(fs, k) /\ HandlersUpTo(fs, k) \in 1..c
  BY <1>1, HandlersPushed
<1>5. At(fs, "handler") \subseteq At(gs, "handler")
  BY AtPushed
<1>6. CASE f.kind # "handler"
  <2>1. At(gs, "handler") = At(fs, "handler")
    BY <1>6, AtPushed
  <2>2. /\ ns - Own(f) = 1 + Cardinality(Scoped(fs))
        /\ as - Async(f) = Cardinality(Asynchronous(fs))
    BY <1>2 DEF Tallied, Own, Async
  <2> HIDE DEF gs, n, c
  <2>3. \A k \in At(fs, "handler") : cs[HandlersUpTo(fs, k)] = fs[k].error
    BY <1>1, <1>3, <1>4, <2>1
  <2> QED BY <1>3, <1>6, <2>1, <2>2, <2>3 DEF Tallied, gs, c
<1>7. CASE f.kind = "handler"
  <2> DEFINE ds == Pop(cs)
  <2>1. Len(cs) = c + 1
    BY <1>3, <1>7, CountedPushed
  <2>2. cs # <<>>
    BY <1>2, <2>1, EmptySeq
  <2>3. Len(ds) = c /\ \A i \in 1..c : ds[i] = cs[i]
    <3>1. Len(cs) - 1 = c
      BY <1>2, <2>1
    <3> QED BY <2>2, <3>1, PopIsRest
  <2>4. Own(f) = 1 /\ Async(f) = 0
    BY <1>7 DEF Own, Async
  <2>5. ns - 1 = 1 + Cardinality(Scoped(fs)) /\ as = Cardinality(Asynchronous(fs))
    BY <1>2, <2>4 DEF Tallied
  <2> HIDE DEF gs, n, c, ds
  <2>6. \A k \in At(fs, "handler") : ds[HandlersUpTo(fs, k)] = fs[k].error
    BY <1>1, <1>3, <1>4, <1>5, <2>3
  <2> QED BY <1>7, <2>2, <2>3, <2>5, <2>6 DEF Tallied, ds, c
<1> QED BY <1>6, <1>7

\* A frame may take the place of the top one when it counts for the same.
LEMMA TalliedReplaced ==
  ASSUME NEW fs \in Seq(Frame), NEW f \in Frame, NEW g \in Frame,
         NEW ns \in Int, NEW cs \in Seq(Error), NEW as \in Int,
         Tallied(Append(fs, f), ns, cs, as),
         f.kind # "handler", g.kind # "handler", Own(f) = Own(g), Async(f) = Async(g)
  PROVE  Tallied(Append(fs, g), ns, cs, as)
<1>1. Own(f) \in Int /\ Async(f) \in Int
  BY DEF Own, Async
<1>2. /\ ns - Own(f) \in Int /\ as - Async(f) \in Int
      /\ (ns - Own(f)) + Own(f) = ns /\ (as - Async(f)) + Async(f) = as
  <2>1. ASSUME NEW a \in Int, NEW b \in Int PROVE a - b \in Int /\ (a - b) + b = a
    OBVIOUS
  <2> QED BY <1>1, <2>1
<1>3. Tallied(fs, ns - Own(f), cs, as - Async(f))
  BY TalliedPopped
<1>4. Tallied(Append(fs, g), (ns - Own(f)) + Own(g), cs, (as - Async(f)) + Async(g))
  BY <1>2, <1>3, TalliedPushed
<1> QED BY <1>2, <1>4

-----------------------------------------------------------------------------
(* How steps move the stack, and what they set up along with it.           *)

Same ==
  /\ UNCHANGED <<running, frames, caught, asyncs, hooking>>
  /\ Len(scopes') = Len(scopes)
Deeper(f) ==
  /\ UNCHANGED <<running, caught, hooking>> /\ frames' = Append(frames, f)
  /\ Len(scopes') = Len(scopes) + Own(f) /\ asyncs' = asyncs + Async(f)
  /\ f.kind \notin {"hook", "infer", "handler"}
  /\ InnerKind = "transition" => f.kind = "helper" /\ Top(frames).phase = "observing"
  /\ f.kind = "transition" => ~hooking
  /\ f.kind = "with" => IsFile(value) /\ f.resource = value /\ managed' = managed \cup {value.file}
Shallower ==
  /\ frames # <<>> /\ UNCHANGED running /\ frames' = Pop(frames)
  /\ Len(scopes') = Len(scopes) - Own(Top(frames))
  /\ asyncs' = asyncs - Async(Top(frames))
  /\ caught' = IF Top(frames).kind = "handler" THEN Pop(caught) ELSE caught
  /\ hooking' = (hooking /\ Top(frames).kind # "hook")
  /\ Top(frames).kind = "with" => LeaveWith
Onto(g) ==
  /\ frames # <<>> /\ Top(frames).kind = "transition" /\ g.kind = "transition"
  /\ UNCHANGED <<running, caught, asyncs, hooking>> /\ Len(scopes') = Len(scopes)
  /\ frames' = Append(Pop(frames), g)
Catching(h) ==
  /\ frames # <<>> /\ Top(frames).kind = "try" /\ h.kind = "handler"
  /\ UNCHANGED <<running, asyncs, hooking>> /\ Len(scopes') = Len(scopes) + 1
  /\ frames' = Append(Pop(frames), h) /\ caught' = Append(caught, h.error)
Requesting(d, e) ==
  /\ d.kind = "infer" /\ e.kind = "transition"
  /\ UNCHANGED <<running, caught, asyncs, hooking>> /\ Len(scopes') = Len(scopes)
  /\ \/ InnerKind # "transition" /\ ~hooking /\ frames' = Append(Append(frames, d), e)
     \/ /\ frames # <<>> /\ Top(frames).kind = "infer"
        /\ frames' = Append(Append(Pop(frames), d), e)
Hooked(g, h) ==
  /\ frames # <<>> /\ Top(frames).kind = "transition" /\ g.kind = "transition" /\ h.kind = "hook"
  /\ UNCHANGED <<running, caught, asyncs>> /\ hooking' = TRUE
  /\ \/ /\ frames' = Append(Append(Pop(frames), g), h)
        /\ Len(scopes') = Len(scopes) + Own(h)
     \/ \E k \in Frame :
          /\ k.kind \in {"lambda", "function"} /\ Own(k) = 1 /\ Async(k) = 0
          /\ frames' = Append(Append(Append(Pop(frames), g), h), k)
          /\ Len(scopes') = Len(scopes) + Own(h) + 1
Moved ==
  \/ Same \/ Shallower
  \/ \E f \in Frame : Deeper(f) \/ Catching(f)
  \/ \E g \in RequestFrame : Onto(g)
  \/ \E d, e \in Frame : Requesting(d, e) \/ Hooked(d, e)

\* Every action but Begin and Finish is one of these moves.
LEMMA Moves ==
  ASSUME EvaluatorTypeOK, running => scopes # <<>>, Evaluate \/ Leave \/ Transition
  PROVE  running /\ Moved
<1> USE DEF EvaluatorTypeOK, StateOK
<1> HIDE DEF Same, Deeper, Shallower, Onto, Catching, Requesting, Hooked
<1>1. ASSUME Literal \/ MakeLambda \/ Reraise \/ (\E n \in Name : Refer(n)) \/ (\E e \in Error : Fail(e))
             \/ (\E how \in {"end", "break", "continue", "return"} : Exit(how))
      PROVE  running /\ Moved
  BY <1>1 DEF Moved, Same, Literal, MakeLambda, Reraise, Refer, Fail, Exit, Expression, Statement,
              RaiseIt, steady, context
<1>2. ASSUME NEW n \in Name, Assign(n) PROVE running /\ Moved
  <2>1. Len(scopes') = Len(scopes)
    BY <1>2, Bound DEF StacksOK, ControlOK, Assign
  <2> QED BY <1>2, <2>1 DEF Moved, Same, Assign, Expression, Statement, steady, context
<1>3. ASSUME Open PROVE running /\ Moved
  <2>1. [id |-> nextFile, file |-> opened + 1, open |-> TRUE] \in File
    BY NewEvents DEF FilesOK
  <2>2. Len(scopes') = Len(scopes)
    BY <1>3, <2>1, AddedFile DEF StacksOK, Open
  <2> QED BY <1>3, <2>2 DEF Moved, Same, Open, Expression, steady, context
<1>4. ASSUME NEW method \in {"use", "close"}, FileMethod(method) PROVE running /\ Moved
  <2>1. Len(scopes') = Len(scopes)
    BY <1>4, NewValues, ClosedIs DEF StacksOK, ControlOK, FileMethod
  <2> QED BY <1>4, <2>1 DEF Moved, Same, FileMethod, Expression, steady, context
<1>5. ASSUME AsyncWithFile PROVE running /\ Moved
  <2>1. Len(scopes') = Len(scopes)
    BY <1>5, NewValues, ClosedIs DEF StacksOK, ControlOK, AsyncWithFile
  <2> QED BY <1>5, <2>1 DEF Moved, Same, AsyncWithFile, Expression, Statement, steady, context
<1>6. ASSUME CallLambda PROVE running /\ Moved
  <2> DEFINE f == [kind |-> "lambda"]
  <2>1. f \in Frame /\ Own(f) = 1 /\ Async(f) = 0
    BY NewFrames DEF Own, Async
  <2>2. Len(scopes') = Len(scopes) + 1
    <3>1. NewScope(value.captures) \in Scope
      BY <1>6, NewScopes, NewValues DEF ControlOK, CallLambda
    <3> QED BY <1>6, <3>1, AppendProperties DEF StacksOK, CallLambda
  <2>3. Deeper(f)
    <3>1. asyncs' = asyncs + 0
      BY <1>6 DEF CallLambda, CountersOK, context
    <3> QED BY <1>6, <2>1, <2>2, <3>1 DEF Deeper, CallLambda, Push, Expression, steady, context
  <2> HIDE DEF f
  <2> QED BY <1>6, <2>1, <2>3 DEF Moved, CallLambda, Expression
<1>7. ASSUME NEW isAsync \in BOOLEAN, NEW n \in Name, CallFunction(isAsync, n) PROVE running /\ Moved
  <2> DEFINE f == [kind |-> "function", async |-> isAsync]
  <2>1. f \in Frame /\ Own(f) = 1 /\ Async(f) = IF isAsync THEN 1 ELSE 0
    BY NewFrames DEF Own, Async
  <2>2. Len(scopes') = Len(scopes) + 1
    <3>1. NewScope(With(NoLocals, n, value)) \in Scope
      BY NewScopes, NewLocals DEF ControlOK
    <3> QED BY <1>7, <3>1, AppendProperties DEF StacksOK, CallFunction
  <2>3. Deeper(f)
    <3>1. asyncs' = asyncs + Async(f)
      BY <1>7, <2>1 DEF CallFunction, CountersOK
    <3> QED BY <1>7, <2>1, <2>2, <3>1 DEF Deeper, CallFunction, Push, Expression, steady, context
  <2> HIDE DEF f
  <2> QED BY <1>7, <2>1, <2>3 DEF Moved, CallFunction, Expression
<1>8. ASSUME NEW f \in Frame, f.kind \in {"loop", "try", "with"}, Statement, Push(f),
             UNCHANGED <<steady, context>>, Len(scopes') = Len(scopes),
             f.kind = "with" => IsFile(value) /\ f.resource = value /\ managed' = managed \cup {value.file}
      PROVE  running /\ Moved
  <2>1. Own(f) = 0 /\ Async(f) = 0
    BY <1>8 DEF Own, Async
  <2>2. Len(scopes') = Len(scopes) + 0 /\ asyncs' = asyncs + 0
    BY <1>8, LenProperties DEF StacksOK, CountersOK, context
  <2>3. Deeper(f)
    BY <1>8, <2>1, <2>2 DEF Deeper, Push, Statement, Expression, steady, context
  <2> QED BY <1>8, <2>3 DEF Moved, Statement, Expression
<1>9. ASSUME Loop PROVE running /\ Moved
  <2> DEFINE f == [kind |-> "loop"]
  <2>1. f \in Frame /\ f.kind = "loop"
    BY NewFrames
  <2> HIDE DEF f
  <2> QED BY <1>8, <1>9, <2>1 DEF Loop, f
<1>10. ASSUME NEW n \in Name \cup {None}, Try(n) PROVE running /\ Moved
  <2> DEFINE f == [kind |-> "try", name |-> n]
  <2>1. f \in Frame /\ f.kind = "try"
    BY NewFrames
  <2> HIDE DEF f
  <2> QED BY <1>8, <1>10, <2>1 DEF Try, f
<1>11. ASSUME NEW n \in Name \cup {None}, WithFile(n) PROVE running /\ Moved
  <2> DEFINE f == [kind |-> "with", resource |-> value]
  <2>1. f \in Frame /\ f.kind = "with" /\ f.resource = value
    BY <1>11, NewFrames, NewValues DEF WithFile, ControlOK
  <2>2. Len(scopes') = Len(scopes)
    BY <1>11, Bound DEF StacksOK, ControlOK, WithFile
  <2> HIDE DEF f
  <2> QED BY <1>8, <1>11, <2>1, <2>2 DEF WithFile, f
<1>12. ASSUME NEW hooks \in Hooks, StartRun(hooks) PROVE running /\ Moved
  <2> DEFINE f == Request("run", hooks, transitions + 1)
  <2>1. f \in Frame /\ f.kind = "transition" /\ Own(f) = 0 /\ Async(f) = 0
    BY NewFrames DEF EventsOK, Request, Own, Async
  <2>2. Len(scopes') = Len(scopes) + 0 /\ asyncs' = asyncs + 0
    BY <1>12, LenProperties DEF StacksOK, CountersOK, StartRun, context
  <2> HIDE DEF f
  <2>3. CASE hooking
    BY <1>12, <2>3 DEF Moved, Same, StartRun, Expression, steady, context
  <2>4. CASE ~hooking
    <3>1. Deeper(f)
      BY <1>12, <2>1, <2>2, <2>4 DEF Deeper, StartRun, Push, Expression, steady, context, f
    <3> QED BY <1>12, <2>1, <3>1 DEF Moved, StartRun, Expression
  <2> QED BY <2>3, <2>4
<1>13. ASSUME NEW hooks \in Hooks, NEW tries \in 0..MaxRetries, StartModel(hooks, tries)
       PROVE  running /\ Moved
  <2> DEFINE d == [kind |-> "infer", tries |-> tries, hooks |-> hooks]
             e == Request("model", hooks, transitions + 1)
  <2>1. d \in Frame /\ d.kind = "infer" /\ e \in Frame /\ e.kind = "transition"
    BY NewFrames, EvaluatorAssumption DEF EventsOK, Request
  <2>2. CASE hooking
    BY <1>13, <2>2 DEF Moved, Same, StartModel, Expression, steady, context
  <2>3. CASE ~hooking
    <3>1. frames' = frames \o <<d, e>> /\ InnerKind # "transition" /\ UNCHANGED <<steady, scopes, context>>
      BY <1>13, <2>3 DEF StartModel, Expression
    <3> HIDE DEF d, e
    <3>2. Requesting(d, e)
      BY <2>1, <2>3, <3>1, TwoPushed DEF Requesting, StacksOK, steady, context
    <3> QED BY <1>13, <2>1, <3>2 DEF Moved, StartModel, Expression
  <2> QED BY <2>2, <2>3

<1>14. ASSUME running, frames # <<>>, Top(frames).kind \in {"loop", "try", "with", "infer", "transition"},
              frames' = Pop(frames), UNCHANGED <<steady, context>>, Len(scopes') = Len(scopes),
              Top(frames).kind = "with" => LeaveWith
       PROVE  running /\ Moved
  <2>1. Own(Top(frames)) = 0 /\ Async(Top(frames)) = 0
    BY <1>14 DEF Own, Async
  <2>2. Len(scopes') = Len(scopes) - 0 /\ asyncs' = asyncs - 0
    BY <1>14, LenProperties DEF StacksOK, CountersOK, context
  <2>3. hooking' = (hooking /\ Top(frames).kind # "hook")
    BY <1>14 DEF context, CountersOK
  <2>4. Shallower
    BY <1>14, <2>1, <2>2, <2>3 DEF Shallower, steady, context
  <2> QED BY <1>14, <2>4 DEF Moved
<1>15. ASSUME frames # <<>>, running
       PROVE  Top(frames) \in Frame /\ Pop(frames) \in Seq(Frame)
              /\ Pop(scopes) \in Seq(Scope) /\ Len(Pop(scopes)) = Len(scopes) - 1
  BY <1>15, PopIsRest DEF StacksOK
<1>16. ASSUME LeaveLoop PROVE running /\ Moved
  <2>1. running /\ frames # <<>> /\ Top(frames).kind = "loop" /\ UNCHANGED <<steady, scopes, context>>
    BY <1>16, InnerIsTop DEF LeaveLoop, Leaving, StacksOK
  <2>2. frames' \in {frames, Pop(frames)}
    BY <1>16 DEF LeaveLoop
  <2>3. CASE frames' = Pop(frames)
    BY <1>14, <2>1, <2>3
  <2>4. CASE frames' = frames
    BY <2>1, <2>4 DEF Moved, Same, steady, context
  <2> QED BY <2>2, <2>3, <2>4
<1>17. ASSUME LeaveTry PROVE running /\ Moved
  <2>1. running /\ frames # <<>> /\ Top(frames).kind = "try"
    BY <1>17, InnerIsTop DEF LeaveTry, Leaving, StacksOK
  <2>2. CASE flow = "raise"
    <3> DEFINE name == Top(frames).name
               h == [kind |-> "handler", name |-> name, error |-> error]
               locals == IF name = None THEN NoLocals ELSE With(NoLocals, name, Data)
    <3>1. name \in Name \cup {None} /\ error \in Error
      BY <1>15, <2>1, <2>2, FrameParts DEF ControlOK
    <3>2. h \in Frame /\ h.kind = "handler" /\ h.error = error
      BY <3>1, NewFrames
    <3>3. locals \in [Name -> Value \cup {None}]
      BY <3>1, NewLocals, NewValues
    <3>4. frames' = Append(Pop(frames), h) /\ scopes' = Append(scopes, NewScope(locals))
          /\ caught' = Append(caught, error) /\ UNCHANGED <<running, asyncs, hooking>>
      BY <1>17, <2>2 DEF LeaveTry, steady
    <3> HIDE DEF h, locals
    <3>5. Len(scopes') = Len(scopes) + 1
      BY <3>3, <3>4, NewScopes, AppendProperties DEF StacksOK
    <3>6. Catching(h)
      BY <2>1, <3>2, <3>4, <3>5 DEF Catching
    <3> QED BY <2>1, <3>2, <3>6 DEF Moved
  <2>3. CASE flow # "raise"
    <3>1. frames' = Pop(frames) /\ UNCHANGED <<scopes, steady, context>>
      BY <1>17, <2>3 DEF LeaveTry, context
    <3> QED BY <1>14, <2>1, <3>1
  <2> QED BY <2>2, <2>3
<1>18. ASSUME LeaveHandler PROVE running /\ Moved
  <2>1. running /\ frames # <<>> /\ Top(frames).kind = "handler"
    BY <1>18, InnerIsTop DEF LeaveHandler, Leaving, StacksOK
  <2>2. Own(Top(frames)) = 1 /\ Async(Top(frames)) = 0
    BY <2>1 DEF Own, Async
  <2>3. /\ scopes' = Merged(Top(frames).name) /\ frames' = Pop(frames) /\ caught' = Pop(caught)
        /\ UNCHANGED <<running, asyncs, hooking>>
    BY <1>18 DEF LeaveHandler, steady
  <2>4. Len(scopes') = Len(scopes) - 1 /\ asyncs' = asyncs - 0
    BY <2>1, <2>3, MergedIs DEF StacksOK, CountersOK
  <2>5. hooking' = (hooking /\ Top(frames).kind # "hook")
    BY <2>1, <2>3 DEF CountersOK
  <2>6. Shallower
    BY <2>1, <2>2, <2>3, <2>4, <2>5 DEF Shallower
  <2> QED BY <2>1, <2>6 DEF Moved
<1>19. ASSUME LeaveWith PROVE running /\ Moved
  <2>1. running /\ frames # <<>> /\ Top(frames).kind = "with"
    BY <1>19, InnerIsTop DEF LeaveWith, Leaving, StacksOK
  <2>2. Top(frames).resource \in Handle
    BY <1>15, <2>1, FrameParts
  <2>3. Len(scopes') = Len(scopes)
    BY <1>19, <2>2, ClosedIs DEF LeaveWith, StacksOK
  <2>4. frames' = Pop(frames) /\ UNCHANGED <<steady, context>>
    BY <1>19 DEF LeaveWith
  <2> QED BY <1>14, <1>19, <2>1, <2>3, <2>4
<1>20. ASSUME LeaveFunction PROVE running /\ Moved
  <2>1. running /\ frames # <<>> /\ Top(frames).kind = "function"
    BY <1>20, InnerIsTop DEF LeaveFunction, Leaving, StacksOK
  <2>2. Own(Top(frames)) = 1 /\ Async(Top(frames)) = IF Top(frames).async THEN 1 ELSE 0
    BY <2>1 DEF Own, Async
  <2>3. /\ scopes' = Pop(scopes) /\ frames' = Pop(frames)
        /\ asyncs' = IF Top(frames).async THEN asyncs - 1 ELSE asyncs
        /\ UNCHANGED <<running, caught, hooking>>
    BY <1>20 DEF LeaveFunction, steady
  <2>4. Len(scopes') = Len(scopes) - 1 /\ asyncs' = asyncs - Async(Top(frames))
    BY <1>15, <2>1, <2>2, <2>3 DEF CountersOK
  <2>5. hooking' = (hooking /\ Top(frames).kind # "hook")
    BY <2>1, <2>3 DEF CountersOK
  <2>6. Shallower
    BY <2>1, <2>2, <2>3, <2>4, <2>5 DEF Shallower
  <2> QED BY <2>1, <2>6 DEF Moved
<1>21. ASSUME LeaveLambda PROVE running /\ Moved
  <2>1. running /\ frames # <<>> /\ Top(frames).kind = "lambda"
    BY <1>21, InnerIsTop DEF LeaveLambda, Leaving, StacksOK
  <2>2. Own(Top(frames)) = 1 /\ Async(Top(frames)) = 0
    BY <2>1 DEF Own, Async
  <2>3. /\ scopes' = Pop(scopes) /\ frames' = Pop(frames)
        /\ UNCHANGED <<running, caught, asyncs, hooking>>
    BY <1>21 DEF LeaveLambda, steady, context
  <2>4. Len(scopes') = Len(scopes) - 1 /\ asyncs' = asyncs - 0
    BY <1>15, <2>1, <2>3 DEF CountersOK
  <2>5. hooking' = (hooking /\ Top(frames).kind # "hook")
    BY <2>1, <2>3 DEF CountersOK
  <2>6. Shallower
    BY <2>1, <2>2, <2>3, <2>4, <2>5 DEF Shallower
  <2> QED BY <2>1, <2>6 DEF Moved
<1>22. ASSUME LeaveHook PROVE running /\ Moved
  <2>1. running /\ frames # <<>> /\ Top(frames).kind = "hook"
    BY <1>22, InnerIsTop DEF LeaveHook, StacksOK
  <2>2. Own(Top(frames)) = (IF Top(frames).named THEN 1 ELSE 0) /\ Async(Top(frames)) = 0
    BY <2>1 DEF Own, Async
  <2>3. /\ scopes' = (IF Top(frames).named THEN Pop(scopes) ELSE scopes) /\ frames' = Pop(frames)
        /\ UNCHANGED <<running, caught, asyncs>> /\ hooking' = FALSE
    BY <1>22 DEF LeaveHook, steady
  <2>4. Len(scopes') = Len(scopes) - Own(Top(frames)) /\ asyncs' = asyncs - 0
    BY <1>15, <2>1, <2>2, <2>3, LenProperties DEF CountersOK, StacksOK
  <2>5. hooking' = (hooking /\ Top(frames).kind # "hook")
    BY <2>1, <2>3
  <2>6. Shallower
    BY <2>1, <2>2, <2>3, <2>4, <2>5 DEF Shallower
  <2> QED BY <2>1, <2>6 DEF Moved
<1>23. ASSUME Respond PROVE running /\ Moved
  <2>1. running /\ frames # <<>> /\ Top(frames).kind = "infer" /\ UNCHANGED <<steady, scopes, context>>
    BY <1>23, InnerIsTop DEF Respond, StacksOK
  <2>2. CASE frames' = Pop(frames)
    BY <1>14, <2>1, <2>2
  <2>3. CASE frames' # Pop(frames)
    <3> DEFINE d == [Top(frames) EXCEPT !.tries = @ - 1]
               e == Request("model", Top(frames).hooks, transitions + 1)
    <3>1. Top(frames).tries > 0 /\ frames' = Append([frames EXCEPT ![Len(frames)].tries = @ - 1], e)
      BY <1>23, <2>3 DEF Respond
    <3>2. /\ d \in Frame /\ d.kind = "infer"
          /\ [frames EXCEPT ![Len(frames)].tries = @ - 1] = Append(Pop(frames), d)
      BY <2>1, <3>1, AskedAgain DEF StacksOK
    <3>3. e \in Frame /\ e.kind = "transition"
      BY <1>15, <2>1, FrameParts, NewFrames DEF EventsOK, Request
    <3> HIDE DEF d, e
    <3>4. Requesting(d, e)
      BY <2>1, <3>1, <3>2, <3>3 DEF Requesting, steady, context
    <3> QED BY <2>1, <3>2, <3>3, <3>4 DEF Moved
  <2> QED BY <2>2, <2>3
<1>24. ASSUME NEW p, AtPhase(p)
       PROVE  running /\ frames # <<>> /\ Top(frames).kind = "transition" /\ Top(frames) \in RequestFrame
  BY <1>24, InnerIsTop, PopIsRest, FrameParts DEF AtPhase, StacksOK
<1>25. ASSUME NEW how, NEW before, NEW after \in {"pre", "post"}, InvokeHook(before, after, how)
       PROVE  running /\ Moved
  <2> DEFINE h == [kind |-> "hook", named |-> how = "name"]
             g == [Top(frames) EXCEPT !.phase = after]
             event == IF h.named THEN <<NewScope(NoLocals)>> ELSE <<>>
  <2>1. running /\ frames # <<>> /\ Top(frames).kind = "transition" /\ Top(frames) \in RequestFrame
    BY <1>24, <1>25 DEF InvokeHook
  <2>2. /\ g \in RequestFrame /\ g \in Frame /\ g.kind = "transition" /\ Phase(after) = Append(Pop(frames), g)
    <3>1. g \in RequestFrame
      BY <2>1, NextPhases DEF Phases
    <3>2. g.kind = "transition" /\ g \in Frame
      BY <3>1, NewFrames DEF RequestFrame
    <3> QED BY <2>1, <3>1, <3>2, PhaseIs DEF StacksOK, Phases
  <2>3. h \in Frame /\ h.kind = "hook" /\ NewScope(NoLocals) \in Scope /\ Own(h) = IF h.named THEN 1 ELSE 0
    BY NewFrames, NewLocals, NewScopes DEF Own
  <2>4. event \in Seq(Scope) /\ Len(event) = Own(h) /\ <<NewScope(NoLocals)>> \in Seq(Scope)
        /\ Len(<<NewScope(NoLocals)>>) = 1
    BY <2>3, OnlyOne, EmptySeq
  <2>5. scopes \o event \in Seq(Scope) /\ Len(scopes \o event) = Len(scopes) + Own(h)
        /\ Len(scopes \o event \o <<NewScope(NoLocals)>>) = Len(scopes) + Own(h) + 1
    <3> HIDE DEF event, h
    <3>1. scopes \o event \in Seq(Scope) /\ Len(scopes \o event) = Len(scopes) + Own(h)
      <4>1. scopes \in Seq(Scope) /\ event \in Seq(Scope) /\ Len(event) = Own(h)
        BY <2>4 DEF StacksOK
      <4> QED BY <4>1, ConcatProperties
    <3> QED BY <2>4, <3>1, ConcatProperties
  <2>6. UNCHANGED <<running, caught, asyncs>> /\ hooking' = TRUE
    BY <1>25 DEF InvokeHook, steady
  <2>7. \/ frames' = Append(Phase(after), h) /\ scopes' = scopes \o event
        \/ \E k \in {[kind |-> "lambda"], [kind |-> "function", async |-> FALSE]} :
             /\ frames' = Phase(after) \o <<h, k>>
             /\ scopes' = scopes \o event \o <<NewScope(NoLocals)>>
    BY <1>25 DEF InvokeHook
  <2>8. \A k \in {[kind |-> "lambda"], [kind |-> "function", async |-> FALSE]} :
          k \in Frame /\ k.kind \in {"lambda", "function"} /\ Own(k) = 1 /\ Async(k) = 0
    <3> DEFINE l == [kind |-> "lambda"]
               f == [kind |-> "function", async |-> FALSE]
    <3>1. l \in Frame /\ f \in Frame
      BY NewFrames
    <3>2. l.kind = "lambda" /\ f.kind = "function" /\ ~f.async
      OBVIOUS
    <3> HIDE DEF l, f
    <3>3. Own(l) = 1 /\ Async(l) = 0 /\ Own(f) = 1 /\ Async(f) = 0
      BY <3>2 DEF Own, Async
    <3>4. \A k \in {l, f} : k \in Frame /\ k.kind \in {"lambda", "function"} /\ Own(k) = 1 /\ Async(k) = 0
      BY <3>1, <3>2, <3>3
    <3> QED BY <3>4 DEF l, f
  <2>9. Phase(after) \in Seq(Frame)
    BY <1>15, <2>1, <2>2, AppendProperties
  <2> HIDE DEF g, h, event
  <2>10. Hooked(g, h)
    <3>1. CASE frames' = Append(Phase(after), h) /\ scopes' = scopes \o event
      BY <2>1, <2>2, <2>3, <2>5, <2>6, <3>1 DEF Hooked
    <3>2. ASSUME NEW k \in {[kind |-> "lambda"], [kind |-> "function", async |-> FALSE]},
                 frames' = Phase(after) \o <<h, k>>,
                 scopes' = scopes \o event \o <<NewScope(NoLocals)>>
          PROVE  Hooked(g, h)
      <4>1. frames' = Append(Append(Append(Pop(frames), g), h), k)
        BY <2>2, <2>3, <2>8, <2>9, <3>2, TwoPushed
      <4>2. Len(scopes') = Len(scopes) + Own(h) + 1
        BY <2>5, <3>2
      <4>3. k \in Frame /\ k.kind \in {"lambda", "function"} /\ Own(k) = 1 /\ Async(k) = 0
        BY <2>8
      <4> QED BY <2>1, <2>2, <2>3, <2>6, <4>1, <4>2, <4>3 DEF Hooked
    <3> QED BY <2>7, <3>1, <3>2
  <2> QED BY <2>1, <2>2, <2>3, <2>10 DEF Moved
<1>26. ASSUME NEW g \in RequestFrame, running, frames # <<>>, Top(frames).kind = "transition",
              frames' = [frames EXCEPT ![Len(frames)] = g], UNCHANGED <<steady, scopes, context>>
       PROVE  running /\ Moved
  <2>1. frames' = Append(Pop(frames), g) /\ g.kind = "transition"
    <3>1. g \in Frame /\ g.kind = "transition"
      BY NewFrames DEF RequestFrame
    <3> QED BY <1>26, <3>1, TopReplaced DEF StacksOK
  <2>2. Onto(g)
    BY <1>26, <2>1 DEF Onto, steady, context
  <2> QED BY <1>26, <2>2 DEF Moved
<1>27. ASSUME Decide PROVE running /\ Moved
  <2>1. running /\ frames # <<>> /\ Top(frames).kind = "transition" /\ Top(frames) \in RequestFrame
    BY <1>24, <1>27 DEF Decide
  <2> DEFINE p == [Top(frames) EXCEPT !.phase = "effect"]
             r == [Top(frames) EXCEPT !.phase = "effect", !.rejected = TRUE]
  <2>2. p \in RequestFrame /\ r \in RequestFrame
    BY <2>1, NextPhases DEF Phases
  <2>3. /\ UNCHANGED <<steady, scopes, context>>
        /\ frames' \in {Pop(frames), [frames EXCEPT ![Len(frames)] = p], [frames EXCEPT ![Len(frames)] = r]}
    BY <1>27 DEF Decide, Phase, Top
  <2> HIDE DEF p, r
  <2> QED BY <1>14, <1>26, <2>1, <2>2, <2>3
<1>28. ASSUME NEW failed \in BOOLEAN, NEW p, AtPhase(p), Outcome(failed) PROVE running /\ Moved
  <2>1. running /\ frames # <<>> /\ Top(frames).kind = "transition" /\ Top(frames) \in RequestFrame
    BY <1>24, <1>28
  <2> DEFINE d == [Top(frames) EXCEPT !.phase = "done", !.failed = failed]
  <2>2. d \in RequestFrame
    BY <2>1, NextPhases
  <2>3. /\ UNCHANGED <<steady, scopes, context>>
        /\ frames' \in {Pop(frames), [frames EXCEPT ![Len(frames)] = d]}
    BY <1>28 DEF Outcome, Top
  <2> HIDE DEF d
  <2> QED BY <1>14, <1>26, <2>1, <2>2, <2>3
<1>29. ASSUME Conclude PROVE running /\ Moved
  <2>1. running /\ frames # <<>> /\ Top(frames).kind = "transition"
    BY <1>24, <1>29 DEF Conclude
  <2>2. UNCHANGED <<steady, scopes, context>> /\ frames' = Pop(frames)
    BY <1>29 DEF Conclude
  <2> QED BY <1>14, <2>1, <2>2
<1>33. ASSUME Observe \/ \E failed \in BOOLEAN : Effect(failed) PROVE running /\ Moved
  BY <1>28, <1>33 DEF Observe, Effect
<1>34. ASSUME Run PROVE running /\ Moved
  <2>1. running /\ frames # <<>> /\ Top(frames).kind = "transition" /\ Top(frames) \in RequestFrame
    BY <1>24, <1>34 DEF Run
  <2> DEFINE g == [Top(frames) EXCEPT !.phase = "observing"]
  <2>2. g \in RequestFrame
    BY <2>1, NextPhases DEF Phases
  <2>3. UNCHANGED <<steady, scopes, context>> /\ frames' = [frames EXCEPT ![Len(frames)] = g]
    BY <1>34 DEF Run, Phase, Top
  <2> HIDE DEF g
  <2> QED BY <1>26, <2>1, <2>2, <2>3
<1>35. ASSUME NEW n \in Name, InvokeHelper(n) PROVE running /\ Moved
  <2> DEFINE f == [kind |-> "helper"]
  <2>1. f \in Frame /\ f.kind = "helper" /\ Own(f) = 1 /\ Async(f) = 0
    BY NewFrames DEF Own, Async
  <2>2. Len(scopes') = Len(scopes) + 1
    <3>1. NewScope(With(NoLocals, n, Data)) \in Scope
      BY NewScopes, NewLocals, NewValues
    <3> QED BY <1>35, <3>1, AppendProperties DEF StacksOK, InvokeHelper
  <2>3. /\ running /\ Top(frames).phase = "observing" /\ frames' = Append(frames, f)
        /\ UNCHANGED <<steady, context>>
    BY <1>35 DEF InvokeHelper, AtPhase, Push
  <2>4. asyncs' = asyncs + 0
    BY <2>3 DEF CountersOK, context
  <2> HIDE DEF f
  <2>5. Deeper(f)
    BY <2>1, <2>2, <2>3, <2>4 DEF Deeper, steady, context
  <2> QED BY <2>1, <2>3, <2>5 DEF Moved
<1>36. ASSUME LeaveHelper PROVE running /\ Moved
  <2>1. running /\ frames # <<>> /\ Top(frames).kind = "helper"
    BY <1>36, InnerIsTop DEF LeaveHelper, Leaving, StacksOK
  <2>2. Own(Top(frames)) = 1 /\ Async(Top(frames)) = 0
    BY <2>1 DEF Own, Async
  <2>3. /\ scopes' = Pop(scopes) /\ frames' = Pop(frames)
        /\ UNCHANGED <<running, caught, asyncs, hooking>>
    BY <1>36 DEF LeaveHelper, steady, context
  <2>4. Len(scopes') = Len(scopes) - 1 /\ asyncs' = asyncs - 0
    BY <1>15, <2>1, <2>3 DEF CountersOK
  <2>5. hooking' = (hooking /\ Top(frames).kind # "hook")
    BY <2>1, <2>3 DEF CountersOK
  <2>6. Shallower
    BY <2>1, <2>2, <2>3, <2>4, <2>5 DEF Shallower
  <2> QED BY <2>1, <2>6 DEF Moved
<1>30. CASE Evaluate
  BY <1>30, <1>1, <1>2, <1>3, <1>4, <1>5, <1>6, <1>7, <1>9, <1>10, <1>11, <1>12, <1>13 DEF Evaluate
<1>31. CASE Leave
  BY <1>31, <1>16, <1>17, <1>18, <1>19, <1>20, <1>21, <1>22, <1>36 DEF Leave
<1>32. CASE Transition
  BY <1>32, <1>23, <1>25, <1>27, <1>29, <1>33, <1>34, <1>35 DEF Transition, InvokePre, InvokePost
<1> QED BY <1>30, <1>31, <1>32

\* Nothing is on an empty stack.
LEMMA EmptyStack ==
  /\ \A kind : At(<<>>, kind) = {}
  /\ Nested(<<>>) /\ Tallied(<<>>, 1, <<>>, 0)
<1>1. DOMAIN <<>> = {} /\ Len(<<>>) = 0
  BY EmptySeq, LenProperties
<1>2. \A kind : At(<<>>, kind) = {}
  BY <1>1 DEF At
<1>3. Nested(<<>>)
  BY <1>1 DEF Nested
<1>4. Scoped(<<>>) = {} /\ Asynchronous(<<>>) = {}
  BY <1>2 DEF Scoped, Asynchronous
<1>5. Tallied(<<>>, 1, <<>>, 0)
  <2>1. Cardinality({}) = 0
    BY FS_EmptySet
  <2>2. Cardinality(Scoped(<<>>)) = 0 /\ Cardinality(Asynchronous(<<>>)) = 0
        /\ Cardinality(At(<<>>, "handler")) = 0
    BY <1>2, <1>4, <2>1
  <2> QED BY <1>1, <1>2, <2>2 DEF Tallied
<1> QED BY <1>2, <1>3, <1>5

\* A stack with a frame on top, seen from below.
LEMMA Below ==
  ASSUME EvaluatorTypeOK, frames # <<>>
  PROVE  /\ Pop(frames) \in Seq(Frame) /\ Top(frames) \in Frame
         /\ frames = Append(Pop(frames), Top(frames))
BY PopIsRest DEF EvaluatorTypeOK, StateOK, StacksOK

\* The hooks of transitions do not start others, and the flag that refuses them is
\* set exactly within a hook.
LEMMA NestStep ==
  ASSUME EvaluatorTypeOK, running => scopes # <<>>, NestInv, [Next]_vars
  PROVE  NestInv'
<1> DEFINE base == Pop(frames)
           top == Top(frames)
<1>1. CASE UNCHANGED vars
  BY <1>1 DEF NestInv, vars, steady, control, context
<1>2. CASE Begin
  BY <1>2, EmptyStack DEF Begin, NestInv
<1>3. CASE Finish
  BY <1>3 DEF Finish, NestInv, context
<1>4. CASE Evaluate \/ Leave \/ Transition
  <2>1. running /\ Moved
    BY <1>4, Moves
  <2>2. frames \in Seq(Frame) /\ hooking \in BOOLEAN
    BY DEF EvaluatorTypeOK, StateOK, StacksOK, CountersOK
  <2>3. frames # <<>> => base \in Seq(Frame) /\ top \in Frame /\ frames = Append(base, top)
    BY Below
  <2>4. InnerKind # "transition" => ~(frames # <<>> /\ Top(frames).kind = "transition")
    BY DEF InnerKind
  <2> HIDE DEF base, top
  <2>5. Nested(frames) /\ (hooking <=> At(frames, "hook") # {})
    BY DEF NestInv
  <2>6. frames # <<>> =>
          /\ Nested(base)
          /\ top.kind \in {"hook", "transition", "infer"} => At(base, "hook") = {}
          /\ base # <<>> => MayStand(Top(base), top)
    BY <2>3, <2>5, NestedPushed
  <2>7. frames # <<>> /\ top.kind # "hook" => At(base, "hook") = At(frames, "hook")
    <3>1. ASSUME frames # <<>>, top.kind # "hook" PROVE At(base, "hook") = At(Append(base, top), "hook")
      BY <2>3, <3>1, AtPushed
    <3> QED BY <2>3, <3>1
  <2> USE <2>2
  <2>8. CASE Same
    BY <2>1, <2>5, <2>8 DEF Same, NestInv
  <2>9. CASE Shallower
    <3>1. frames # <<>> /\ frames' = base /\ hooking' = (hooking /\ top.kind # "hook") /\ UNCHANGED running
      BY <2>9 DEF Shallower, base, top
    <3>2. CASE top.kind = "hook"
      BY <2>1, <2>6, <3>1, <3>2 DEF NestInv
    <3>3. CASE top.kind # "hook"
      BY <2>1, <2>5, <2>6, <2>7, <3>1, <3>3 DEF NestInv
    <3> QED BY <3>2, <3>3
  <2>10. ASSUME NEW f \in Frame, Deeper(f) PROVE NestInv'
    <3>1. /\ frames' = Append(frames, f) /\ UNCHANGED <<running, hooking>>
          /\ f.kind \notin {"hook", "infer"} /\ (f.kind = "transition" => ~hooking)
          /\ InnerKind = "transition" => f.kind = "helper" /\ Top(frames).phase = "observing"
      BY <2>10 DEF Deeper
    <3>4. frames # <<>> => MayStand(Top(frames), f)
      BY <2>4, <3>1 DEF MayStand
    <3>2. Nested(frames')
      BY <2>5, <3>1, <3>4, NestedPushed
    <3>3. At(frames', "hook") = At(frames, "hook")
      BY <3>1, AtPushed
    <3> QED BY <2>1, <2>5, <3>1, <3>2, <3>3 DEF NestInv
  <2>11. ASSUME NEW h \in Frame, Catching(h) PROVE NestInv'
    <3>1. /\ frames # <<>> /\ top.kind = "try" /\ h.kind = "handler"
          /\ frames' = Append(base, h) /\ UNCHANGED <<running, hooking>>
      BY <2>11 DEF Catching, base, top
    <3>2. Nested(frames')
      BY <2>3, <2>6, <3>1, NestedPushed DEF MayStand
    <3>3. At(frames', "hook") = At(base, "hook")
      BY <2>3, <3>1, AtPushed
    <3> QED BY <2>1, <2>5, <2>7, <3>1, <3>2, <3>3 DEF NestInv
  <2>12. ASSUME NEW g \in RequestFrame, Onto(g) PROVE NestInv'
    <3>1. /\ frames # <<>> /\ top.kind = "transition" /\ g.kind = "transition" /\ g \in Frame
          /\ frames' = Append(base, g) /\ UNCHANGED <<running, hooking>>
      BY <2>12, NewFrames DEF Onto, base, top
    <3>2. Nested(frames')
      BY <2>3, <2>6, <3>1, NestedPushed DEF MayStand
    <3>3. At(frames', "hook") = At(base, "hook")
      BY <2>3, <3>1, AtPushed
    <3> QED BY <2>1, <2>5, <2>7, <3>1, <3>2, <3>3 DEF NestInv
  <2>13. ASSUME NEW d \in Frame, NEW e \in Frame, Requesting(d, e) PROVE NestInv'
    <3>1. d.kind = "infer" /\ e.kind = "transition" /\ UNCHANGED <<running, hooking>>
      BY <2>13 DEF Requesting
    <3>2. PICK b \in {frames, base} :
            /\ frames' = Append(Append(b, d), e)
            /\ \/ b = frames /\ InnerKind # "transition" /\ ~hooking
               \/ b = base /\ frames # <<>> /\ top.kind = "infer"
      BY <2>13 DEF Requesting, base, top
    <3>3. b \in Seq(Frame) /\ Nested(b) /\ At(b, "hook") = {} /\ ~hooking
      <4>1. CASE b = frames /\ InnerKind # "transition" /\ ~hooking
        BY <2>5, <4>1
      <4>2. CASE b = base /\ frames # <<>> /\ top.kind = "infer"
        BY <2>3, <2>5, <2>6, <2>7, <4>2
      <4> QED BY <3>2, <4>1, <4>2
    <3>4. ~(b # <<>> /\ Top(b).kind = "transition")
      <4>1. CASE b = frames /\ InnerKind # "transition" /\ ~hooking
        BY <2>4, <4>1
      <4>2. CASE b = base /\ frames # <<>> /\ top.kind = "infer"
        BY <2>6, <4>2 DEF MayStand
      <4> QED BY <3>2, <4>1, <4>2
    <3>5. Append(b, d) \in Seq(Frame) /\ Nested(Append(b, d)) /\ At(Append(b, d), "hook") = {}
          /\ Top(Append(b, d)).kind = "infer"
      BY <3>1, <3>3, <3>4, NestedPushed, AtPushed, Pushed DEF MayStand
    <3>6. Nested(frames') /\ At(frames', "hook") = {}
      <4> DEFINE c == Append(b, d)
      <4>1. frames' = Append(c, e) /\ c \in Seq(Frame) /\ Nested(c) /\ At(c, "hook") = {}
            /\ Top(c).kind = "infer"
        BY <3>2, <3>5
      <4> HIDE DEF c
      <4>2. Nested(Append(c, e))
        BY <3>1, <4>1, NestedPushed DEF MayStand
      <4>3. At(Append(c, e), "hook") = {}
        BY <3>1, <4>1, AtPushed
      <4> QED BY <4>1, <4>2, <4>3
    <3> QED BY <2>1, <3>1, <3>3, <3>6 DEF NestInv
  <2>14. ASSUME NEW g \in Frame, NEW h \in Frame, Hooked(g, h) PROVE NestInv'
    <3>1. /\ frames # <<>> /\ top.kind = "transition" /\ g.kind = "transition" /\ h.kind = "hook"
          /\ UNCHANGED running /\ hooking' = TRUE
      BY <2>14 DEF Hooked, top
    <3> DEFINE gs == Append(base, g)
               hs == Append(gs, h)
    <3>2. gs \in Seq(Frame) /\ Nested(gs) /\ At(gs, "hook") = {}
      BY <2>3, <2>6, <3>1, NestedPushed, AtPushed, Pushed DEF MayStand
    <3>3. hs \in Seq(Frame) /\ Nested(hs) /\ At(hs, "hook") # {} /\ Top(hs) = h
      <4> HIDE DEF gs
      <4> QED BY <3>1, <3>2, NestedPushed, AtPushed, Pushed DEF MayStand
    <3>4. CASE frames' = hs
      BY <2>1, <3>1, <3>3, <3>4 DEF NestInv
    <3>5. ASSUME NEW k \in Frame, k.kind \in {"lambda", "function"}, frames' = Append(hs, k) PROVE NestInv'
      <4> HIDE DEF hs
      <4>1. Nested(frames') /\ At(frames', "hook") # {}
        BY <3>1, <3>3, <3>5, NestedPushed, AtPushed DEF MayStand
      <4> QED BY <2>1, <3>1, <4>1 DEF NestInv
    <3> QED BY <2>14, <3>4, <3>5 DEF Hooked, base
  <2> QED BY <2>1, <2>8, <2>9, <2>10, <2>11, <2>12, <2>13, <2>14 DEF Moved
<1> QED BY <1>1, <1>2, <1>3, <1>4 DEF Next

\* What the constructs on the stack set up is there, and nothing else.
LEMMA TallyStep ==
  ASSUME EvaluatorTypeOK, TallyInv, running => scopes # <<>>, [Next]_vars
  PROVE  TallyInv'
<1> DEFINE base == Pop(frames)
           top == Top(frames)
           ns == Len(scopes)
<1>1. CASE UNCHANGED vars
  BY <1>1 DEF TallyInv, vars, steady, control, context
<1>2. CASE Begin
  <2>1. frames' = <<>> /\ Len(scopes') = 1 /\ caught' = <<>> /\ asyncs' = 0
    BY <1>2 DEF Begin
  <2> QED BY <2>1, EmptyStack DEF TallyInv
<1>3. CASE Finish
  BY <1>3 DEF Finish, TallyInv
<1>4. CASE Evaluate \/ Leave \/ Transition
  <2>1. running /\ Moved
    BY <1>4, Moves
  <2>2. frames \in Seq(Frame) /\ caught \in Seq(Error) /\ asyncs \in Int /\ ns \in Int
    BY LenProperties DEF EvaluatorTypeOK, StateOK, StacksOK, CountersOK
  <2>3. frames # <<>> => base \in Seq(Frame) /\ top \in Frame /\ frames = Append(base, top)
    BY Below
  <2>4. Tallied(frames, ns, caught, asyncs)
    BY <2>1 DEF TallyInv
  <2> HIDE DEF base, top
  <2> SUFFICES Tallied(frames', Len(scopes'), caught', asyncs')
    BY DEF TallyInv
  <2> USE <2>2
  <2>5. CASE Same
    BY <2>4, <2>5 DEF Same
  <2>6. CASE Shallower
    <3>1. /\ frames # <<>> /\ frames' = base /\ Len(scopes') = ns - Own(top) /\ asyncs' = asyncs - Async(top)
          /\ caught' = IF top.kind = "handler" THEN Pop(caught) ELSE caught
      BY <2>6 DEF Shallower, base, top
    <3>2. base \in Seq(Frame) /\ top \in Frame /\ Tallied(Append(base, top), ns, caught, asyncs)
      BY <2>3, <2>4, <3>1
    <3> HIDE DEF ns
    <3>3. CASE top.kind # "handler"
      BY <3>1, <3>2, <3>3, TalliedPopped
    <3>4. CASE top.kind = "handler"
      <4>1. Own(top) = 1 /\ Async(top) = 0 /\ asyncs - 0 = asyncs
        BY <3>4 DEF Own, Async
      <4> QED BY <3>1, <3>2, <3>4, <4>1, TalliedPopped
    <3> QED BY <3>3, <3>4
  <2>7. ASSUME NEW f \in Frame, Deeper(f) PROVE Tallied(frames', Len(scopes'), caught', asyncs')
    <3>1. /\ frames' = Append(frames, f) /\ Len(scopes') = ns + Own(f) /\ asyncs' = asyncs + Async(f)
          /\ UNCHANGED caught /\ f.kind # "handler"
      BY <2>7 DEF Deeper
    <3> HIDE DEF ns
    <3> QED BY <2>4, <3>1, TalliedPushed
  <2>8. ASSUME NEW h \in Frame, Catching(h) PROVE Tallied(frames', Len(scopes'), caught', asyncs')
    <3>1. /\ frames # <<>> /\ top.kind = "try" /\ h.kind = "handler"
          /\ frames' = Append(base, h) /\ Len(scopes') = ns + 1
          /\ caught' = Append(caught, h.error) /\ UNCHANGED asyncs
      BY <2>8 DEF Catching, base, top
    <3> HIDE DEF ns
    <3>2. Own(top) = 0 /\ Async(top) = 0 /\ asyncs - 0 = asyncs /\ ns - 0 = ns
      BY <3>1 DEF Own, Async
    <3>3. Tallied(base, ns, caught, asyncs)
      <4>1. base \in Seq(Frame) /\ top \in Frame /\ Tallied(Append(base, top), ns, caught, asyncs)
        BY <2>3, <2>4, <3>1
      <4>2. Tallied(base, ns - Own(top), caught, asyncs - Async(top))
        BY <3>1, <4>1, TalliedPopped
      <4> QED BY <3>2, <4>2
    <3> QED BY <2>3, <3>1, <3>3, TalliedPushed
  <2>9. ASSUME NEW f \in Frame, NEW g \in Frame, NEW fs \in Seq(Frame),
               Tallied(Append(fs, f), ns, caught, asyncs),
               f.kind \in {"transition", "infer"}, g.kind = f.kind
        PROVE  Tallied(Append(fs, g), ns, caught, asyncs)
    <3>1. Own(f) = Own(g) /\ Async(f) = Async(g)
      BY <2>9 DEF Own, Async
    <3> HIDE DEF ns
    <3> QED BY <2>9, <3>1, TalliedReplaced
  <2>10. ASSUME NEW f \in Frame, NEW fs \in Seq(Frame), Tallied(fs, ns, caught, asyncs),
                f.kind \in {"transition", "infer"}
         PROVE  Tallied(Append(fs, f), ns, caught, asyncs)
    <3> HIDE DEF ns
    <3>1. Own(f) = 0 /\ Async(f) = 0 /\ asyncs + 0 = asyncs /\ ns + 0 = ns
      BY <2>10 DEF Own, Async
    <3> QED BY <2>10, <3>1, TalliedPushed
  <2>11. ASSUME NEW g \in RequestFrame, Onto(g) PROVE Tallied(frames', Len(scopes'), caught', asyncs')
    <3>1. /\ frames # <<>> /\ top.kind = "transition" /\ g.kind = "transition" /\ g \in Frame
          /\ frames' = Append(base, g) /\ Len(scopes') = ns /\ UNCHANGED <<caught, asyncs>>
      BY <2>11, NewFrames DEF Onto, base, top
    <3> QED BY <2>3, <2>4, <2>9, <3>1
  <2>12. ASSUME NEW d \in Frame, NEW e \in Frame, Requesting(d, e)
         PROVE  Tallied(frames', Len(scopes'), caught', asyncs')
    <3>1. /\ d.kind = "infer" /\ e.kind = "transition"
          /\ Len(scopes') = ns /\ UNCHANGED <<caught, asyncs>>
      BY <2>12 DEF Requesting
    <3>2. CASE frames' = Append(Append(frames, d), e)
      <4>1. Append(frames, d) \in Seq(Frame) /\ Tallied(Append(frames, d), ns, caught, asyncs)
        BY <2>4, <2>10, <3>1, Pushed
      <4> QED BY <2>10, <3>1, <3>2, <4>1
    <3>3. CASE frames # <<>> /\ top.kind = "infer" /\ frames' = Append(Append(base, d), e)
      <4>1. Append(base, d) \in Seq(Frame) /\ Tallied(Append(base, d), ns, caught, asyncs)
        BY <2>3, <2>4, <2>9, <3>1, <3>3, Pushed
      <4> QED BY <2>10, <3>1, <3>3, <4>1
    <3> QED BY <2>12, <3>2, <3>3 DEF Requesting, base, top
  <2>13. ASSUME NEW g \in Frame, NEW h \in Frame, Hooked(g, h)
         PROVE  Tallied(frames', Len(scopes'), caught', asyncs')
    <3>1. /\ frames # <<>> /\ top.kind = "transition" /\ g.kind = "transition" /\ h.kind = "hook"
          /\ UNCHANGED <<caught, asyncs>>
      BY <2>13 DEF Hooked, top
    <3> DEFINE gs == Append(base, g)
               hs == Append(gs, h)
    <3>2. gs \in Seq(Frame) /\ Tallied(gs, ns, caught, asyncs)
      BY <2>3, <2>4, <2>9, <3>1, Pushed
    <3> HIDE DEF gs, ns
    <3>3. Own(h) \in Int /\ ns + Own(h) \in Int /\ Async(h) = 0 /\ asyncs + 0 = asyncs
      BY <3>1 DEF Own, Async
    <3>4. hs \in Seq(Frame) /\ Tallied(hs, ns + Own(h), caught, asyncs)
      BY <3>1, <3>2, <3>3, TalliedPushed, Pushed
    <3> HIDE DEF hs
    <3>5. CASE frames' = hs /\ Len(scopes') = ns + Own(h)
      BY <3>1, <3>4, <3>5
    <3>6. ASSUME NEW k \in Frame, k.kind \in {"lambda", "function"}, Own(k) = 1, Async(k) = 0,
                 frames' = Append(hs, k), Len(scopes') = ns + Own(h) + 1
          PROVE  Tallied(frames', Len(scopes'), caught', asyncs')
      <4>1. Tallied(Append(hs, k), (ns + Own(h)) + 1, caught, asyncs + 0)
        BY <3>3, <3>4, <3>6, TalliedPushed
      <4> QED BY <3>1, <3>3, <3>6, <4>1
    <3>7. \/ frames' = hs /\ Len(scopes') = ns + Own(h)
          \/ \E k \in Frame :
               /\ k.kind \in {"lambda", "function"} /\ Own(k) = 1 /\ Async(k) = 0
               /\ frames' = Append(hs, k) /\ Len(scopes') = ns + Own(h) + 1
      BY <2>13 DEF Hooked, base, gs, hs, ns
    <3> QED BY <3>5, <3>6, <3>7
  <2> QED BY <2>1, <2>5, <2>6, <2>7, <2>8, <2>11, <2>12, <2>13 DEF Moved
<1> QED BY <1>1, <1>2, <1>3, <1>4 DEF Next

\* An evaluation that runs has its root scope.
LEMMA RootScope ==
  ASSUME EvaluatorTypeOK, TallyInv
  PROVE  running => scopes # <<>>
<1>1. frames \in Seq(Frame) /\ scopes \in Seq(Scope)
  BY DEF EvaluatorTypeOK, StateOK, StacksOK
<1>2. Cardinality(Scoped(frames)) \in Nat
  <2>1. [kind |-> "loop"] \in Frame
    BY NewFrames
  <2> QED BY <1>1, <2>1, CountedPushed
<1>3. running => Len(scopes) = 1 + Cardinality(Scoped(frames))
  BY DEF TallyInv, Tallied
<1>4. scopes = <<>> => Len(scopes) = 0
  BY EmptySeq
<1> QED BY <1>2, <1>3, <1>4

-----------------------------------------------------------------------------
(* Files and their handles.                                                *)

\* The handles in a value: itself, those it captures, or none.
LEMMA HandlesOf ==
  /\ HandlesIn(Data) = {} /\ HandlesIn(None) = {}
  /\ \A v : IsFile(v) => HandlesIn(v) = {v}
  /\ \A v : IsLambda(v) => \A n \in Name : HandlesIn(v.captures[n]) \subseteq HandlesIn(v) \/ IsLambda(v.captures[n])
<1>1. HandlesIn(Data) = {}
  BY DEF HandlesIn, IsFile, IsLambda, Data
<1>2. HandlesIn(None) = {}
  BY DEF HandlesIn, IsFile, IsLambda
<1>3. \A v : IsFile(v) => HandlesIn(v) = {v}
  BY DEF HandlesIn
<1>4. ASSUME NEW v, IsLambda(v), NEW n \in Name, ~IsLambda(v.captures[n])
      PROVE  HandlesIn(v.captures[n]) \subseteq HandlesIn(v)
  <2>1. ~IsFile(v)
    BY <1>4 DEF IsFile, IsLambda
  <2>2. CASE IsFile(v.captures[n])
    BY <1>4, <2>1, <2>2 DEF HandlesIn
  <2>3. CASE ~IsFile(v.captures[n])
    BY <1>4, <2>3 DEF HandlesIn
  <2> QED BY <2>2, <2>3
<1> QED BY <1>1, <1>2, <1>3, <1>4

\* Lambdas capture no lambdas: what their captures reach, they hold.
LEMMA CapturesOf ==
  ASSUME NEW v \in Value, IsLambda(v), NEW n \in Name
  PROVE  HandlesIn(v.captures[n]) \subseteq HandlesIn(v)
<1>1. v.captures[n] \in Plain \cup {None}
  BY NewValues
<1>2. ~IsLambda(v.captures[n])
  BY <1>1 DEF Plain, Handle, Data, IsLambda
<1> QED BY <1>2, HandlesOf

\* A lambda holds no handle that its captures do not.
LEMMA HandlesOfLambda ==
  ASSUME NEW c \in [Name -> Plain \cup {None}], NEW H,
         \A n \in Name : HandlesIn(c[n]) \subseteq H
  PROVE  HandlesIn([kind |-> "lambda", captures |-> c]) \subseteq H
<1> DEFINE v == [kind |-> "lambda", captures |-> c]
<1>1. v.kind = "lambda" /\ v.captures = c
  OBVIOUS
<1> HIDE DEF v
<1>2. ASSUME NEW h \in HandlesIn(v) PROVE h \in H
  <2>1. h \in {v.captures[n] : n \in Name} /\ IsFile(h)
    BY <1>1, <1>2 DEF HandlesIn, IsFile, IsLambda
  <2> QED BY <1>1, <2>1, HandlesOf
<1> QED BY <1>2 DEF v

\* What a value, a local or a statement holds is known.
LEMMA KnownHandles ==
  /\ HandlesIn(value) \subseteq Known
  /\ \A i \in 1..Len(scopes), n \in Name : HandlesIn(scopes[i].locals[n]) \subseteq Known
  /\ \A k \in At(frames, "with") : frames[k].resource \in Known
BY DEF Known, ScopeHandles, FrameHandles

\* What a name refers to is known.
LEMMA LookupIsKnown ==
  ASSUME EvaluatorTypeOK, NEW n \in Name
  PROVE  HandlesIn(Lookup(n)) \subseteq Known
<1>1. Lookup(n) = None \/ \E i \in 1..Len(scopes) : Lookup(n) = scopes[i].locals[n]
  BY LookupIsLocal DEF EvaluatorTypeOK, StateOK, StacksOK
<1> QED BY <1>1, KnownHandles, HandlesOf

\* Scopes that hold known handles only, and the files they held.
Settled(ts) ==
  \A i \in 1..Len(ts) :
    /\ \A n \in Name : HandlesIn(ts[i].locals[n]) \subseteq Known
    /\ ts[i].files = IF i \in 1..Len(scopes) THEN scopes[i].files ELSE {}

\* A scope pushed with known handles leaves the scopes settled.
LEMMA SettledPushed ==
  ASSUME scopes \in Seq(Scope), NEW ts \in Seq(Scope), Settled(ts), Len(ts) >= Len(scopes),
         NEW locals \in [Name -> Value \cup {None}],
         \A n \in Name : HandlesIn(locals[n]) \subseteq Known
  PROVE  LET us == Append(ts, NewScope(locals)) IN
         us \in Seq(Scope) /\ Settled(us) /\ Len(us) = Len(ts) + 1
<1> DEFINE us == Append(ts, NewScope(locals))
<1>1. NewScope(locals) \in Scope /\ NewScope(locals).locals = locals /\ NewScope(locals).files = {}
  BY NewScopes
<1>2. Len(ts) \in Nat /\ Len(scopes) \in Nat
  BY LenProperties
<1>3. /\ us \in Seq(Scope) /\ Len(us) = Len(ts) + 1
      /\ \A i \in 1..Len(ts) : us[i] = ts[i]
      /\ us[Len(ts) + 1] = NewScope(locals)
  BY <1>1, AppendProperties
<1> HIDE DEF us
<1>4. Settled(us)
  <2> SUFFICES ASSUME NEW i \in 1..Len(us)
               PROVE  /\ \A n \in Name : HandlesIn(us[i].locals[n]) \subseteq Known
                      /\ us[i].files = IF i \in 1..Len(scopes) THEN scopes[i].files ELSE {}
    BY DEF Settled
  <2>1. CASE i \in 1..Len(ts)
    BY <1>3, <2>1 DEF Settled
  <2>2. CASE i = Len(ts) + 1
    <3>1. us[i] = NewScope(locals) /\ i \notin 1..Len(scopes)
      BY <1>2, <1>3, <2>2
    <3> QED BY <1>1, <3>1
  <2> QED BY <1>2, <1>3, <2>1, <2>2
<1> QED BY <1>3, <1>4 DEF us

\* The scopes are settled as they are, and without the innermost one.
LEMMA SettledNow ==
  ASSUME scopes \in Seq(Scope)
  PROVE  Settled(scopes) /\ (scopes # <<>> => Settled(Pop(scopes)))
<1>1. Settled(scopes)
  BY KnownHandles DEF Settled
<1>2. ASSUME scopes # <<>> PROVE Settled(Pop(scopes))
  BY <1>1, <1>2, PopIsRest DEF Settled
<1> QED BY <1>1, <1>2

\* Scopes with the same files, and the same locals but for a value that is known.
LEMMA SettledLike ==
  ASSUME scopes \in Seq(Scope), NEW ts \in Seq(Scope), Len(ts) <= Len(scopes), NEW v,
         HandlesIn(v) \subseteq Known,
         \A i \in 1..Len(ts) :
           ts[i].files = scopes[i].files /\ \A n \in Name : ts[i].locals[n] \in {v, scopes[i].locals[n]}
  PROVE  Settled(ts)
<1>1. Len(ts) \in Nat /\ Len(scopes) \in Nat
  BY LenProperties
<1> QED BY <1>1, KnownHandles DEF Settled

\* The resource of the innermost with statement.
LEMMA TopResource ==
  ASSUME EvaluatorTypeOK, frames # <<>>, Top(frames).kind = "with"
  PROVE  Top(frames).resource \in Known \cap Handle
<1>1. Top(frames) \in Frame /\ Len(frames) \in DOMAIN frames
  BY Below, PopIsRest, LenProperties DEF EvaluatorTypeOK, StateOK, StacksOK
<1>2. Len(frames) \in At(frames, "with")
  BY <1>1 DEF At, Top
<1>3. Top(frames).resource \in Known
  BY <1>2, KnownHandles DEF Top
<1> QED BY <1>1, <1>3, FrameParts

\* What a step does to the scopes, opening a file excepted: they are settled, or a
\* known handle was closed.
LEMMA ScopesSettle ==
  ASSUME EvaluatorTypeOK, running => scopes # <<>>, Evaluate \/ Leave \/ Transition
  PROVE  Open \/ Settled(scopes') \/ \E h \in Known \cap Handle : scopes' = Closed(h)
<1> USE DEF EvaluatorTypeOK, StateOK
<1>1. scopes \in Seq(Scope) /\ value \in Value /\ Len(scopes) \in Nat
  BY LenProperties DEF StacksOK, ControlOK
<1>2. Settled(scopes) /\ (scopes # <<>> => Pop(scopes) \in Seq(Scope) /\ Settled(Pop(scopes)))
  BY <1>1, SettledNow, PopIsSeq
<1>3. \A n \in Name : HandlesIn(NoLocals[n]) \subseteq Known
  BY NewLocals, HandlesOf
<1>4. ASSUME NEW n, NEW v \in Value, HandlesIn(v) \subseteq Known
      PROVE  Settled(Append(scopes, NewScope(With(NoLocals, n, v))))
  <2>1. \A m \in Name : HandlesIn(With(NoLocals, n, v)[m]) \subseteq Known
    BY <1>4, NewLocals, HandlesOf
  <2> QED BY <1>1, <1>2, <1>4, <2>1, NewLocals, SettledPushed
<1>5. ASSUME NEW n \in Name, scopes' = [scopes EXCEPT ![Len(scopes)].locals[n] = value]
      PROVE  Settled(scopes')
  <2> DEFINE ts == [scopes EXCEPT ![Len(scopes)].locals[n] = value]
  <2>1. /\ ts \in Seq(Scope) /\ Len(ts) = Len(scopes)
        /\ \A i \in 1..Len(scopes) :
             ts[i].files = scopes[i].files /\ \A m \in Name : ts[i].locals[m] \in {value, scopes[i].locals[m]}
    BY <1>1, Bound
  <2> HIDE DEF ts
  <2>2. Settled(ts)
    <3>1. HandlesIn(value) \subseteq Known /\ Len(ts) <= Len(scopes)
      BY <1>1, <2>1, KnownHandles
    <3>2. \A i \in 1..Len(ts) :
            ts[i].files = scopes[i].files /\ \A m \in Name : ts[i].locals[m] \in {value, scopes[i].locals[m]}
      BY <2>1
    <3> QED BY <1>1, <2>1, <3>1, <3>2, SettledLike
  <2> QED BY <1>5, <2>2 DEF ts
<1>6. HandlesIn(value) \subseteq Known /\ (IsFile(value) => value \in Known \cap Handle)
  BY <1>1, KnownHandles, HandlesOf, NewValues
<1>7. CASE UNCHANGED scopes
  BY <1>2, <1>7
<1>8. ASSUME NEW n \in Name, Assign(n) PROVE Settled(scopes')
  BY <1>5, <1>8 DEF Assign
<1>9. ASSUME NEW method \in {"use", "close"}, FileMethod(method)
      PROVE  UNCHANGED scopes \/ \E h \in Known \cap Handle : scopes' = Closed(h)
  BY <1>6, <1>9 DEF FileMethod
<1>10. ASSUME AsyncWithFile
       PROVE  UNCHANGED scopes \/ \E h \in Known \cap Handle : scopes' = Closed(h)
  BY <1>6, <1>10 DEF AsyncWithFile
<1>11. ASSUME CallLambda PROVE Settled(scopes')
  <2>1. value.captures \in [Name -> Value \cup {None}] /\ IsLambda(value)
    BY <1>1, <1>11, NewValues DEF CallLambda
  <2>2. \A n \in Name : HandlesIn(value.captures[n]) \subseteq Known
    BY <1>1, <1>6, <2>1, CapturesOf
  <2> QED BY <1>1, <1>2, <1>11, <2>1, <2>2, SettledPushed DEF CallLambda
<1>12. ASSUME NEW isAsync \in BOOLEAN, NEW n \in Name, CallFunction(isAsync, n) PROVE Settled(scopes')
  BY <1>1, <1>4, <1>6, <1>12 DEF CallFunction
<1>13. ASSUME NEW n \in Name \cup {None}, WithFile(n) PROVE UNCHANGED scopes \/ Settled(scopes')
  BY <1>5, <1>13 DEF WithFile
<1>14. ASSUME LeaveTry PROVE UNCHANGED scopes \/ Settled(scopes')
  <2>1. Settled(Append(scopes, NewScope(NoLocals)))
    BY <1>1, <1>2, <1>3, NewLocals, SettledPushed
  <2>2. Settled(Append(scopes, NewScope(With(NoLocals, Top(frames).name, Data))))
    BY <1>4, HandlesOf, NewValues
  <2> QED BY <1>14, <2>1, <2>2 DEF LeaveTry
<1>15. ASSUME LeaveHandler PROVE Settled(scopes')
  <2>1. scopes # <<>> /\ scopes' = Merged(Top(frames).name)
    BY <1>15 DEF LeaveHandler, Leaving
  <2> DEFINE ts == Merged(Top(frames).name)
  <2>2. /\ ts \in Seq(Scope) /\ Len(ts) = Len(scopes) - 1
        /\ \A i \in 1..(Len(scopes) - 1) :
             ts[i].files = scopes[i].files /\ \A m \in Name : ts[i].locals[m] \in {Data, scopes[i].locals[m]}
    BY <1>1, <2>1, MergedIs
  <2> HIDE DEF ts
  <2>3. Len(ts) <= Len(scopes)
    BY <1>1, <2>2
  <2>4. Settled(ts)
    BY <1>1, <2>2, <2>3, HandlesOf, SettledLike
  <2> QED BY <2>1, <2>4 DEF ts
<1>16. ASSUME LeaveWith PROVE UNCHANGED scopes \/ \E h \in Known \cap Handle : scopes' = Closed(h)
  <2>1. frames # <<>> /\ Top(frames).kind = "with"
    BY <1>16, InnerIsTop DEF LeaveWith, Leaving, StacksOK
  <2>2. Top(frames).resource \in Known \cap Handle
    BY <2>1, TopResource
  <2> QED BY <1>16, <2>2 DEF LeaveWith
<1>17. ASSUME LeaveFunction \/ LeaveLambda \/ LeaveHelper PROVE Settled(scopes')
  BY <1>2, <1>17 DEF LeaveFunction, LeaveLambda, LeaveHelper, Leaving
<1>18. ASSUME LeaveHook PROVE UNCHANGED scopes \/ Settled(scopes')
  BY <1>2, <1>18 DEF LeaveHook
<1>19. ASSUME NEW how, NEW before, NEW after, InvokeHook(before, after, how)
       PROVE  Settled(scopes')
  <2> DEFINE new == NewScope(NoLocals)
             one == Append(scopes, new)
  <2>1. new \in Scope /\ one \in Seq(Scope) /\ Settled(one) /\ Len(one) >= Len(scopes)
    BY <1>1, <1>2, <1>3, NewLocals, NewScopes, SettledPushed
  <2>2. Settled(Append(one, new))
    <3> HIDE DEF one
    <3> QED BY <1>1, <1>3, <2>1, NewLocals, SettledPushed
  <2> DEFINE ts(event) == {scopes \o event, scopes \o event \o <<new>>}
  <2>3. scopes' \in ts(<<new>>) \cup ts(<<>>)
    BY <1>19 DEF InvokeHook
  <2>4. scopes \o <<new>> = one /\ scopes \o <<>> = scopes /\ one \o <<new>> = Append(one, new)
    <3>1. scopes \o <<new>> = one /\ scopes \o <<>> = scopes
      BY <1>1, <2>1, TwoPushed, ConcatEmptySeq
    <3>2. one \o <<new>> = Append(one, new)
      <4> HIDE DEF one, new
      <4> QED BY <2>1, TwoPushed
    <3> QED BY <3>1, <3>2
  <2> HIDE DEF one, new
  <2> QED BY <1>2, <2>1, <2>2, <2>3, <2>4
<1>20. ASSUME Literal \/ MakeLambda \/ Reraise \/ Loop \/ (\E n \in Name : Refer(n)) \/ (\E e \in Error : Fail(e))
              \/ (\E how \in {"end", "break", "continue", "return"} : Exit(how))
              \/ (\E n \in Name \cup {None} : Try(n))
              \/ (\E hooks \in Hooks : StartRun(hooks) \/ \E tries \in 0..MaxRetries : StartModel(hooks, tries))
       PROVE  UNCHANGED scopes
  BY <1>20 DEF Literal, MakeLambda, Reraise, Loop, Refer, Fail, Exit, Try, StartRun, StartModel
<1>21. ASSUME LeaveLoop \/ Respond \/ Decide \/ Conclude \/ Run \/ Observe
              \/ (\E failed \in BOOLEAN : Effect(failed))
       PROVE  UNCHANGED scopes
  BY <1>21 DEF LeaveLoop, Respond, Decide, Conclude, Run, Observe, Effect, Outcome
<1>25. ASSUME NEW n \in Name, InvokeHelper(n) PROVE Settled(scopes')
  BY <1>4, <1>25, HandlesOf, NewValues DEF InvokeHelper
<1>22. CASE Evaluate
  BY <1>7, <1>22, <1>8, <1>9, <1>10, <1>11, <1>12, <1>13, <1>20 DEF Evaluate
<1>23. CASE Leave
  BY <1>7, <1>23, <1>14, <1>15, <1>16, <1>17, <1>18, <1>21 DEF Leave
<1>24. CASE Transition
  BY <1>7, <1>24, <1>19, <1>21, <1>25 DEF Transition, InvokePre, InvokePost
<1> QED BY <1>22, <1>23, <1>24

\* Whatever an expression evaluates to, the handles in it are known.
LEMMA ValuesAreKnown ==
  ASSUME EvaluatorTypeOK, Evaluate \/ Leave \/ Transition
  PROVE  Open \/ HandlesIn(value') \subseteq Known
<1> SUFFICES ASSUME ~Open PROVE HandlesIn(value') \subseteq Known
  OBVIOUS
<1>1. HandlesIn(value) \subseteq Known /\ HandlesIn(Data) \subseteq Known
  BY KnownHandles, HandlesOf
<1>2. ASSUME NEW n \in Name, Refer(n) PROVE HandlesIn(value') \subseteq Known
  BY <1>2, LookupIsKnown DEF Refer
<1>3. ASSUME MakeLambda PROVE HandlesIn(value') \subseteq Known
  <2> DEFINE c == [n \in Name |-> Lookup(n)]
  <2>1. \A n \in Name : Lookup(n) \in Plain \cup {None} /\ HandlesIn(Lookup(n)) \subseteq Known
    BY <1>3, LookupIsLocal, LookupIsKnown, NewValues DEF MakeLambda, EvaluatorTypeOK, StateOK, StacksOK
  <2>2. c \in [Name -> Plain \cup {None}] /\ \A n \in Name : HandlesIn(c[n]) \subseteq Known
    BY <2>1
  <2>3. value' = [kind |-> "lambda", captures |-> c]
    BY <1>3 DEF MakeLambda
  <2> HIDE DEF c
  <2> QED BY <2>2, <2>3, HandlesOfLambda
<1>4. value' \in {Data, value} => HandlesIn(value') \subseteq Known
  BY <1>1
<1>5. ASSUME Literal \/ CallLambda \/ Loop \/ Reraise \/ AsyncWithFile
             \/ (\E n \in Name : Assign(n)) \/ (\E e \in Error : Fail(e))
             \/ (\E method \in {"use", "close"} : FileMethod(method))
             \/ (\E isAsync \in BOOLEAN, n \in Name : CallFunction(isAsync, n))
      PROVE  value' \in {Data, value}
  BY <1>5 DEF Literal, CallLambda, Loop, Reraise, AsyncWithFile, Assign, Fail, FileMethod, CallFunction, RaiseIt
<1>6. ASSUME (\E n \in Name \cup {None} : Try(n) \/ WithFile(n))
             \/ (\E how \in {"end", "break", "continue", "return"} : Exit(how))
             \/ (\E hooks \in Hooks : StartRun(hooks) \/ \E tries \in 0..MaxRetries : StartModel(hooks, tries))
      PROVE  value' \in {Data, value}
  BY <1>6 DEF Try, WithFile, Exit, StartRun, StartModel, RaiseIt
<1>7. ASSUME LeaveLoop \/ LeaveTry \/ LeaveHandler \/ LeaveWith \/ LeaveFunction \/ LeaveLambda
             \/ LeaveHook \/ LeaveHelper
      PROVE  value' \in {Data, value}
  BY <1>7 DEF LeaveLoop, LeaveTry, LeaveHandler, LeaveWith, LeaveFunction, LeaveLambda, LeaveHook,
              LeaveHelper, RaiseIt
<1>8. ASSUME Respond \/ Decide \/ Conclude \/ Run \/ Observe \/ (\E n \in Name : InvokeHelper(n))
             \/ \E failed \in BOOLEAN : Effect(failed)
      PROVE  value' \in {Data, value}
  BY <1>8 DEF Respond, Decide, Conclude, Run, Observe, InvokeHelper, Effect, Outcome, RaiseIt
<1>9. ASSUME NEW how, NEW before, NEW after, InvokeHook(before, after, how) PROVE value' \in {Data, value}
  BY <1>9 DEF InvokeHook, RaiseIt
<1>10. CASE Evaluate
  BY <1>10, <1>2, <1>3, <1>4, <1>5, <1>6 DEF Evaluate
<1>11. CASE Leave
  BY <1>11, <1>4, <1>7 DEF Leave
<1>12. CASE Transition
  BY <1>12, <1>4, <1>8, <1>9 DEF Transition, InvokePre, InvokePost
<1> QED BY <1>10, <1>11, <1>12

\* The resources of the with statements on a stack.
LEMMA ResourcesPushed ==
  ASSUME NEW fs \in Seq(Frame), NEW f \in Frame
  PROVE  /\ f.kind = "with" => FrameHandles(Append(fs, f)) = FrameHandles(fs) \cup {f.resource}
         /\ f.kind # "with" => FrameHandles(Append(fs, f)) = FrameHandles(fs)
<1> DEFINE gs == Append(fs, f)
<1>1. /\ Len(fs) \in Nat /\ At(fs, "with") \subseteq 1..Len(fs)
      /\ \A i \in 1..Len(fs) : gs[i] = fs[i]
      /\ gs[Len(fs) + 1] = f
      /\ f.kind = "with" => At(gs, "with") = At(fs, "with") \cup {Len(fs) + 1}
      /\ f.kind # "with" => At(gs, "with") = At(fs, "with")
  BY Pushed, AtPushed
<1> HIDE DEF gs
<1>2. f.kind = "with" => FrameHandles(gs) = FrameHandles(fs) \cup {f.resource}
  BY <1>1 DEF FrameHandles
<1>3. f.kind # "with" => FrameHandles(gs) = FrameHandles(fs)
  BY <1>1 DEF FrameHandles
<1> QED BY <1>2, <1>3 DEF gs

\* The resources kept change by entering and leaving with statements only.
LEMMA ResourcesStep ==
  ASSUME EvaluatorTypeOK, running => scopes # <<>>, Evaluate \/ Leave \/ Transition
  PROVE  \/ FrameHandles(frames') = FrameHandles(frames)
         \/ /\ IsFile(value) /\ managed' = managed \cup {value.file}
            /\ FrameHandles(frames') = FrameHandles(frames) \cup {value}
         \/ /\ LeaveWith
            /\ FrameHandles(frames) = FrameHandles(frames') \cup {Top(frames).resource}
<1> DEFINE base == Pop(frames)
           top == Top(frames)
<1>1. Moved
  BY Moves
<1>2. frames # <<>> => base \in Seq(Frame) /\ top \in Frame /\ frames = Append(base, top)
  BY Below
<1>3. frames \in Seq(Frame)
  BY DEF EvaluatorTypeOK, StateOK, StacksOK
<1> HIDE DEF base, top
<1>4. ASSUME frames # <<>>, top.kind # "with" PROVE FrameHandles(base) = FrameHandles(frames)
  <2>1. FrameHandles(Append(base, top)) = FrameHandles(base)
    BY <1>2, <1>4, ResourcesPushed
  <2> QED BY <1>2, <1>4, <2>1
<1>5. CASE Same
  BY <1>5 DEF Same
<1>6. CASE Shallower
  <2>1. frames # <<>> /\ frames' = base /\ (top.kind = "with" => LeaveWith)
    BY <1>6 DEF Shallower, base, top
  <2>2. CASE top.kind = "with"
    <3>1. FrameHandles(Append(base, top)) = FrameHandles(base) \cup {top.resource}
      BY <1>2, <2>1, <2>2, ResourcesPushed
    <3> QED BY <1>2, <2>1, <2>2, <3>1 DEF top
  <2>3. CASE top.kind # "with"
    BY <1>4, <2>1, <2>3
  <2> QED BY <2>2, <2>3
<1>7. ASSUME NEW f \in Frame, Deeper(f)
      PROVE  \/ FrameHandles(frames') = FrameHandles(frames)
             \/ /\ IsFile(value) /\ managed' = managed \cup {value.file}
                /\ FrameHandles(frames') = FrameHandles(frames) \cup {value}
  BY <1>3, <1>7, ResourcesPushed DEF Deeper
<1>8. ASSUME NEW f \in Frame, Catching(f) PROVE FrameHandles(frames') = FrameHandles(frames)
  <2>1. frames # <<>> /\ top.kind # "with" /\ f.kind # "with" /\ frames' = Append(base, f)
    BY <1>8 DEF Catching, base, top
  <2> QED BY <1>2, <1>4, <2>1, ResourcesPushed
<1>9. ASSUME NEW g \in RequestFrame, Onto(g) PROVE FrameHandles(frames') = FrameHandles(frames)
  <2>1. frames # <<>> /\ top.kind # "with" /\ g.kind # "with" /\ g \in Frame /\ frames' = Append(base, g)
    BY <1>9, NewFrames DEF Onto, base, top
  <2> QED BY <1>2, <1>4, <2>1, ResourcesPushed
<1>10. ASSUME NEW d \in Frame, NEW e \in Frame, Requesting(d, e)
       PROVE  FrameHandles(frames') = FrameHandles(frames)
  <2>1. PICK b \in Seq(Frame) : FrameHandles(b) = FrameHandles(frames) /\ frames' = Append(Append(b, d), e)
    BY <1>2, <1>3, <1>4, <1>10 DEF Requesting, base, top
  <2>2. d.kind # "with" /\ e.kind # "with"
    BY <1>10 DEF Requesting
  <2>3. Append(b, d) \in Seq(Frame) /\ FrameHandles(Append(b, d)) = FrameHandles(b)
    BY <2>2, ResourcesPushed, Pushed
  <2> QED BY <2>1, <2>2, <2>3, ResourcesPushed
<1>11. ASSUME NEW g \in Frame, NEW h \in Frame, Hooked(g, h)
       PROVE  FrameHandles(frames') = FrameHandles(frames)
  <2>1. frames # <<>> /\ top.kind # "with" /\ g.kind # "with" /\ h.kind # "with"
    BY <1>11 DEF Hooked, top
  <2> DEFINE gs == Append(base, g)
             hs == Append(gs, h)
  <2>2. gs \in Seq(Frame) /\ FrameHandles(gs) = FrameHandles(frames)
    BY <1>2, <1>4, <2>1, ResourcesPushed, Pushed
  <2>3. hs \in Seq(Frame) /\ FrameHandles(hs) = FrameHandles(frames)
    <3> HIDE DEF gs
    <3> QED BY <2>1, <2>2, ResourcesPushed, Pushed
  <2>4. frames' = hs \/ \E k \in Frame : k.kind # "with" /\ frames' = Append(hs, k)
    BY <1>11 DEF Hooked, base
  <2> HIDE DEF hs
  <2>5. \A k \in Frame : k.kind # "with" => FrameHandles(Append(hs, k)) = FrameHandles(frames)
    BY <2>3, ResourcesPushed
  <2>6. CASE frames' = hs
    BY <2>3, <2>6
  <2>7. CASE \E k \in Frame : k.kind # "with" /\ frames' = Append(hs, k)
    BY <2>5, <2>7
  <2> QED BY <2>4, <2>6, <2>7
<1> QED BY <1>1, <1>5, <1>6, <1>7, <1>8, <1>9, <1>10, <1>11 DEF Moved

\* What is known are handles, and what scopes hold are files.
LEMMA KnownAreHandles ==
  ASSUME EvaluatorTypeOK
  PROVE  /\ Known \subseteq Handle
         /\ \A i \in 1..Len(scopes) : scopes[i].files \subseteq File
<1>1. frames \in Seq(Frame) /\ scopes \in Seq(Scope) /\ value \in Value
  BY DEF EvaluatorTypeOK, StateOK, StacksOK, ControlOK
<1>2. ASSUME NEW v \in Value \cup {None} PROVE HandlesIn(v) \subseteq Handle
  <2>1. CASE IsFile(v)
    <3>1. v \in Value
      BY <2>1 DEF IsFile
    <3> QED BY <2>1, <3>1, HandlesOf, NewValues
  <2>2. CASE IsLambda(v)
    <3>1. v \in Value /\ ~IsFile(v)
      BY <2>2 DEF IsFile, IsLambda
    <3>2. v.captures \in [Name -> Plain \cup {None}]
      BY <2>2, <3>1, NewValues
    <3>3. \A n \in Name : IsFile(v.captures[n]) => v.captures[n] \in Handle
      <4>1. \A w \in Plain \cup {None} : IsFile(w) => w \in Handle
        BY DEF Plain, IsFile, Data
      <4> QED BY <3>2, <4>1
    <3> QED BY <2>2, <3>1, <3>3 DEF HandlesIn
  <2>3. CASE ~IsFile(v) /\ ~IsLambda(v)
    BY <2>3 DEF HandlesIn
  <2> QED BY <2>1, <2>2, <2>3
<1>3. ASSUME NEW i \in 1..Len(scopes)
      PROVE  /\ scopes[i].files \subseteq File
             /\ \A n \in Name : scopes[i].locals[n] \in Value \cup {None}
  <2>1. scopes[i] \in Scope
    BY <1>1, ElementOfSeq
  <2> QED BY <2>1 DEF Scope
<1>4. FrameHandles(frames) \subseteq Handle
  <2> SUFFICES ASSUME NEW k \in At(frames, "with") PROVE frames[k].resource \in Handle
    BY DEF FrameHandles
  <2>1. frames[k] \in Frame /\ frames[k].kind = "with"
    BY <1>1, ElementOfSeq, LenProperties DEF At
  <2> QED BY <2>1, FrameParts
<1>5. Known \subseteq Handle
  BY <1>1, <1>2, <1>3, <1>4 DEF Known, ScopeHandles
<1> QED BY <1>3, <1>5

\* Every file is one that was there at its place, no longer open than it was, and
\* files are told apart by their ids.
Traced ==
  \A i \in 1..Len(scopes') :
    /\ \A f \in scopes'[i].files :
         /\ i \in 1..Len(scopes)
         /\ \E g \in scopes[i].files : g.id = f.id /\ g.file = f.file /\ (f.open => g.open)
    /\ \A f, g \in scopes'[i].files : f.id = g.id => f = g

\* Neither settling scopes nor closing a handle opens or moves a file.
LEMMA SettledIsTraced ==
  ASSUME EvaluatorTypeOK, FileInv,
         Settled(scopes') \/ \E h \in Known \cap Handle : scopes' = Closed(h)
  PROVE  Traced
<1>1. scopes \in Seq(Scope)
  BY DEF EvaluatorTypeOK, StateOK, StacksOK
<1>2. \A i \in 1..Len(scopes) : \A f, g \in scopes[i].files : f.id = g.id => f = g
  BY DEF FileInv
<1>3. CASE Settled(scopes')
  BY <1>2, <1>3 DEF Settled, Traced
<1>4. ASSUME NEW h \in Known \cap Handle, scopes' = Closed(h) PROVE Traced
  <2>1. /\ Len(scopes') = Len(scopes)
        /\ \A i \in 1..Len(scopes) :
             scopes'[i].files = IF i = h.scope THEN ClosedFiles(scopes[i].files, h.id)
                                ELSE scopes[i].files
    <3>1. h \in Handle
      OBVIOUS
    <3> QED BY <1>1, <1>4, <3>1, ClosedIs
  <2>2. ASSUME NEW i \in 1..Len(scopes), NEW f \in scopes[i].files
        PROVE  LET c == ClosedFile(f, h.id) IN
               c.id = f.id /\ c.file = f.file /\ (c.open => f.open)
    <3>1. scopes[i] \in Scope
      BY <1>1, ElementOfSeq
    <3>2. f \in File
      BY <3>1 DEF Scope
    <3>3. CASE f.id = h.id
      <4>1. ClosedFile(f, h.id) = [f EXCEPT !.open = FALSE]
        BY <3>3 DEF ClosedFile
      <4>2. LET c == [f EXCEPT !.open = FALSE] IN c.id = f.id /\ c.file = f.file /\ ~c.open
        BY <3>2 DEF File
      <4> QED BY <4>1, <4>2
    <3>4. CASE f.id # h.id
      BY <3>4 DEF ClosedFile
    <3> QED BY <3>3, <3>4
  <2>3. ASSUME NEW i \in 1..Len(scopes), i = h.scope
        PROVE  /\ \A f \in scopes'[i].files :
                    \E g \in scopes[i].files : g.id = f.id /\ g.file = f.file /\ (f.open => g.open)
               /\ \A f, g \in scopes'[i].files : f.id = g.id => f = g
    <3>1. \A f \in scopes'[i].files : \E f0 \in scopes[i].files : f = ClosedFile(f0, h.id)
      <4> HIDE DEF ClosedFile
      <4>1. scopes'[i].files = ClosedFiles(scopes[i].files, h.id)
        BY <2>1, <2>3, Zenon
      <4> QED BY <4>1 DEF ClosedFiles
    <3>2. ASSUME NEW f \in scopes'[i].files
          PROVE  \E g \in scopes[i].files : g.id = f.id /\ g.file = f.file /\ (f.open => g.open)
      BY <2>2, <3>1
    <3>3. ASSUME NEW f \in scopes'[i].files, NEW g \in scopes'[i].files, f.id = g.id PROVE f = g
      <4>1. PICK f0 \in scopes[i].files : f = ClosedFile(f0, h.id)
        BY <3>1
      <4>2. PICK g0 \in scopes[i].files : g = ClosedFile(g0, h.id)
        BY <3>1
      <4>3. f.id = f0.id /\ g.id = g0.id
        BY <2>2, <4>1, <4>2
      <4>4. f0 = g0
        BY <1>2, <3>3, <4>3
      <4> QED BY <4>1, <4>2, <4>4
    <3> QED BY <3>2, <3>3
  <2>4. ASSUME NEW i \in 1..Len(scopes), i # h.scope
        PROVE  /\ \A f \in scopes'[i].files :
                    \E g \in scopes[i].files : g.id = f.id /\ g.file = f.file /\ (f.open => g.open)
               /\ \A f, g \in scopes'[i].files : f.id = g.id => f = g
    BY <1>2, <2>1, <2>4
  <2> QED BY <2>1, <2>3, <2>4 DEF Traced
<1> QED BY <1>3, <1>4

\* A step that opens no file knows no new handles, and traces its files.
LEMMA KnownStep ==
  ASSUME EvaluatorTypeOK, running => scopes # <<>>, FileInv, Evaluate \/ Leave \/ Transition, ~Open
  PROVE  Known' \subseteq Known /\ Traced
<1>1. Settled(scopes') \/ \E h \in Known \cap Handle : scopes' = Closed(h)
  BY ScopesSettle
<1>2. HandlesIn(value') \subseteq Known
  BY ValuesAreKnown
<1>3. \A i \in 1..Len(scopes'), n \in Name : HandlesIn(scopes'[i].locals[n]) \subseteq Known
  <2>1. CASE Settled(scopes')
    BY <2>1 DEF Settled
  <2>2. ASSUME NEW h \in Known \cap Handle, scopes' = Closed(h)
        PROVE  \A i \in 1..Len(scopes'), n \in Name : HandlesIn(scopes'[i].locals[n]) \subseteq Known
    <3>1. /\ Len(scopes') = Len(scopes)
          /\ \A i \in 1..Len(scopes) : scopes'[i].locals = scopes[i].locals
      <4>1. scopes \in Seq(Scope) /\ h \in Handle
        BY DEF EvaluatorTypeOK, StateOK, StacksOK
      <4> QED BY <2>2, <4>1, ClosedIs
    <3> QED BY <3>1, KnownHandles
  <2> QED BY <1>1, <2>1, <2>2
<1>4. FrameHandles(frames') \subseteq Known
  <2>1. FrameHandles(frames) \subseteq Known
    BY DEF Known
  <2>2. IsFile(value) => value \in Known
    BY KnownHandles, HandlesOf
  <2> QED BY <2>1, <2>2, ResourcesStep
<1>5. Known' \subseteq Known
  BY <1>2, <1>3, <1>4 DEF Known, ScopeHandles
<1> QED BY <1>1, <1>5, SettledIsTraced

\* What a session takes over holds no handle.
LEMMA CarriedHasNoHandle ==
  ASSUME NEW n \in Name
  PROVE  HandlesIn(Carried.locals[n]) = {}
<1>1. \A v : Persistable(v) => HandlesIn(v) = {}
  BY DEF Persistable, HandlesIn
<1>2. Carried.locals[n] = IF Persistable(scopes[1].locals[n]) THEN scopes[1].locals[n] ELSE None
  BY DEF Carried
<1> QED BY <1>1, <1>2, HandlesOf

\* Files, and what is known of them, agree.
LEMMA FileStep ==
  ASSUME EvaluatorTypeOK, running => scopes # <<>>, NestInv, FileInv, [Next]_vars
  PROVE  FileInv'
<1>1. CASE UNCHANGED vars
  <2>1. UNCHANGED <<session, value, scopes, frames, nextFile, opened>>
    BY <1>1 DEF vars, steady, control, files
  <2> QED BY <2>1 DEF FileInv, Known
<1>2. CASE Begin
  <2>1. /\ scopes' = <<NewScope(session.locals)>> /\ value' = Data /\ frames' = <<>>
        /\ UNCHANGED session
    BY <1>2 DEF Begin
  <2>2. Len(scopes') = 1 /\ scopes'[1].files = {} /\ scopes'[1].locals = session.locals
    <3>1. session.locals \in [Name -> Value \cup {None}]
      BY DEF EvaluatorTypeOK, StateOK, SessionOK
    <3> QED BY <2>1, <3>1, NewScopes, OnlyOne
  <2>3. \A n \in Name : HandlesIn(session.locals[n]) = {}
    BY DEF FileInv
  <2>4. Known' = {}
    <3>1. FrameHandles(frames') = {}
      BY <2>1, EmptyStack DEF FrameHandles
    <3>2. ScopeHandles(scopes') = {}
      BY <2>2, <2>3 DEF ScopeHandles
    <3> QED BY <2>1, <3>1, <3>2, HandlesOf DEF Known
  <2> QED BY <2>1, <2>2, <2>3, <2>4 DEF FileInv
<1>3. CASE Finish
  <2>1. /\ frames' = <<>> /\ value' = Data /\ scopes' = <<>> /\ session' = Carried
    BY <1>3 DEF Finish
  <2>2. Len(scopes') = 0
    BY <2>1, EmptySeq
  <2>3. Known' = {}
    <3>1. FrameHandles(frames') = {}
      BY <2>1, EmptyStack DEF FrameHandles
    <3>2. ScopeHandles(scopes') = {}
      BY <2>2 DEF ScopeHandles
    <3> QED BY <2>1, <3>1, <3>2, HandlesOf DEF Known
  <2> QED BY <2>1, <2>2, <2>3, CarriedHasNoHandle DEF FileInv
<1>4. CASE Open
  <2> DEFINE new == [id |-> nextFile, file |-> opened + 1, open |-> TRUE]
             handle == [kind |-> "file", scope |-> Len(scopes), id |-> nextFile, file |-> opened + 1]
             n == Len(scopes)
  <2>1. /\ scopes \in Seq(Scope) /\ n \in Nat /\ new \in File /\ nextFile \in Nat /\ opened \in Nat
        /\ handle \in Handle
    <3>1. Len(scopes) \in Nat \ {0} /\ scopes \in Seq(Scope) /\ nextFile \in Nat /\ opened \in Nat
      BY <1>4, LenProperties, EmptySeq DEF Open, Expression, EvaluatorTypeOK, StateOK, StacksOK, FilesOK
    <3> QED BY <3>1, NewEvents, NewValues
  <2>2. /\ scopes' = [scopes EXCEPT ![n].files = @ \cup {new}] /\ value' = handle
        /\ nextFile' = nextFile + 1 /\ opened' = opened + 1 /\ UNCHANGED <<frames, session>>
    BY <1>4 DEF Open, steady
  <2>3. /\ new.id = nextFile /\ new.file = opened + 1
        /\ handle.id = nextFile /\ handle.file = opened + 1 /\ handle.scope = n /\ handle.kind = "file"
    OBVIOUS
  <2>4. /\ Len(scopes') = n
        /\ \A i \in 1..n :
             /\ scopes'[i].locals = scopes[i].locals
             /\ scopes'[i].files = scopes[i].files \cup IF i = n THEN {new} ELSE {}
    BY <2>1, <2>2, AddedFile
  <2> HIDE DEF new, handle, n
  <2>6. Known' \subseteq Known \cup {handle}
    <3>1. HandlesIn(value') \subseteq {handle}
      BY <2>2, <2>3 DEF HandlesIn, IsLambda
    <3>2. ScopeHandles(scopes') = ScopeHandles(scopes)
      BY <2>4 DEF ScopeHandles, n
    <3> QED BY <2>2, <3>1, <3>2 DEF Known
  <2>7. \A h \in Known : h.id < nextFile /\ h.file <= opened /\ h.id \in Nat /\ h.file \in Nat
    BY KnownAreHandles, NewValues DEF FileInv
  <2>8. ASSUME NEW i \in 1..n, NEW f \in scopes[i].files
        PROVE  f.id < nextFile /\ f.file <= opened /\ f.id \in Nat /\ f.file \in Nat
    <3>1. f \in File
      BY KnownAreHandles DEF n
    <3>2. f.id < nextFile /\ f.file <= opened
      BY DEF FileInv, n
    <3> QED BY <3>1, <3>2 DEF File
  <2>9. \A i \in 1..n : \A f \in scopes'[i].files : f \in scopes[i].files \/ (f = new /\ i = n)
    BY <2>4
  <2>10. ASSUME NEW i \in 1..n, NEW f \in scopes'[i].files
         PROVE  /\ f.id < nextFile' /\ f.file <= opened'
                /\ \A j \in 1..n : \A g \in scopes'[j].files :
                     f.id = g.id \/ f.file = g.file => i = j /\ f = g
                /\ \A h \in Known' : f.id = h.id \/ f.file = h.file =>
                                       f.id = h.id /\ f.file = h.file /\ i = h.scope
    <3>1. CASE f = new /\ i = n
      <4>1. f.id < nextFile' /\ f.file <= opened'
        BY <2>1, <2>2, <2>3, <3>1
      <4>2. ASSUME NEW j \in 1..n, NEW g \in scopes'[j].files, f.id = g.id \/ f.file = g.file
            PROVE  i = j /\ f = g
        BY <2>1, <2>3, <2>8, <2>9, <3>1, <4>2
      <4>3. ASSUME NEW h \in Known', f.id = h.id \/ f.file = h.file
            PROVE  f.id = h.id /\ f.file = h.file /\ i = h.scope
        BY <2>1, <2>3, <2>6, <2>7, <3>1, <4>3
      <4> QED BY <4>1, <4>2, <4>3
    <3>2. CASE f \in scopes[i].files
      <4>1. f.id < nextFile' /\ f.file <= opened'
        BY <2>1, <2>2, <2>8, <3>2
      <4>2. ASSUME NEW j \in 1..n, NEW g \in scopes'[j].files, f.id = g.id \/ f.file = g.file
            PROVE  i = j /\ f = g
        <5>1. CASE g \in scopes[j].files
          BY <3>2, <4>2, <5>1 DEF FileInv, n
        <5>2. CASE g = new
          BY <2>1, <2>3, <2>8, <3>2, <4>2, <5>2
        <5> QED BY <2>9, <5>1, <5>2
      <4>3. ASSUME NEW h \in Known', f.id = h.id \/ f.file = h.file
            PROVE  f.id = h.id /\ f.file = h.file /\ i = h.scope
        <5>1. CASE h \in Known
          BY <3>2, <4>3, <5>1 DEF FileInv, n
        <5>2. CASE h = handle
          BY <2>1, <2>3, <2>8, <3>2, <4>3, <5>2
        <5> QED BY <2>6, <5>1, <5>2
      <4> QED BY <4>1, <4>2, <4>3
    <3> QED BY <2>9, <3>1, <3>2
  <2>11. \A h \in Known' : h.id < nextFile' /\ h.file <= opened'
    BY <2>1, <2>2, <2>3, <2>6, <2>7
  <2>12. \A m \in Name : HandlesIn(session'.locals[m]) = {}
    BY <2>2 DEF FileInv
  <2> QED BY <2>4, <2>10, <2>11, <2>12 DEF FileInv
<1>5. CASE (Evaluate \/ Leave \/ Transition) /\ ~Open
  <2>1. Known' \subseteq Known /\ Traced
    BY <1>5, KnownStep
  <2>2. UNCHANGED <<session, nextFile, opened>>
    <3>1. CASE Evaluate
      BY <1>5, <3>1 DEF Evaluate, Literal, MakeLambda, CallLambda, Loop, Reraise, AsyncWithFile, Refer,
         Assign, Fail, FileMethod, CallFunction, Try, WithFile, Exit, StartRun, StartModel, steady, files
    <3>2. CASE Leave
      BY <3>2 DEF Leave, LeaveLoop, LeaveTry, LeaveHandler, LeaveWith, LeaveFunction, LeaveLambda,
         LeaveHook, LeaveHelper, steady, files
    <3>3. CASE Transition
      BY <3>3 DEF Transition, Respond, InvokePre, InvokePost, InvokeHook, Decide, Conclude, Run,
         Observe, InvokeHelper, Effect, Outcome, steady, files
    <3> QED BY <1>5, <3>1, <3>2, <3>3
  <2>3. ASSUME NEW i \in 1..Len(scopes'), NEW f \in scopes'[i].files
        PROVE  /\ f.id < nextFile' /\ f.file <= opened'
               /\ \A j \in 1..Len(scopes') : \A g \in scopes'[j].files :
                    f.id = g.id \/ f.file = g.file => i = j /\ f = g
               /\ \A h \in Known' : f.id = h.id \/ f.file = h.file =>
                                      f.id = h.id /\ f.file = h.file /\ i = h.scope
    <3>1. PICK f0 \in scopes[i].files : i \in 1..Len(scopes) /\ f0.id = f.id /\ f0.file = f.file
      BY <2>1 DEF Traced
    <3>2. f.id < nextFile' /\ f.file <= opened'
      BY <2>2, <3>1 DEF FileInv
    <3>3. ASSUME NEW j \in 1..Len(scopes'), NEW g \in scopes'[j].files, f.id = g.id \/ f.file = g.file
          PROVE  i = j /\ f = g
      <4>1. PICK g0 \in scopes[j].files : j \in 1..Len(scopes) /\ g0.id = g.id /\ g0.file = g.file
        BY <2>1 DEF Traced
      <4>2. i = j /\ f0 = g0
        BY <3>1, <3>3, <4>1 DEF FileInv
      <4>3. f.id = g.id
        BY <3>1, <4>1, <4>2
      <4> QED BY <2>1, <4>2, <4>3 DEF Traced
    <3>4. ASSUME NEW h \in Known', f.id = h.id \/ f.file = h.file
          PROVE  f.id = h.id /\ f.file = h.file /\ i = h.scope
      <4>1. h \in Known
        BY <2>1
      <4> QED BY <3>1, <3>4, <4>1 DEF FileInv
    <3> QED BY <3>2, <3>3, <3>4
  <2>4. \A h \in Known' : h.id < nextFile' /\ h.file <= opened'
    BY <2>1, <2>2 DEF FileInv
  <2>5. \A n \in Name : HandlesIn(session'.locals[n]) = {}
    BY <2>2 DEF FileInv
  <2> QED BY <2>3, <2>4, <2>5 DEF FileInv
<1> QED BY <1>1, <1>2, <1>3, <1>4, <1>5 DEF Next

-----------------------------------------------------------------------------
(* Files that were entered.                                                *)

\* The file a handle was opened for is the one its scope has under its id.
LEMMA OwnFile ==
  ASSUME EvaluatorTypeOK, FileInv, NEW h \in Known \cap Handle,
         NEW i \in 1..Len(scopes), NEW f \in scopes[i].files, f.file = h.file
  PROVE  i = h.scope /\ f.id = h.id /\ f \in FileOf(h)
<1>1. f.id = h.id /\ i = h.scope
  BY DEF FileInv
<1>2. h.scope <= Len(scopes)
  BY <1>1, LenProperties DEF EvaluatorTypeOK, StateOK, StacksOK
<1> QED BY <1>1, <1>2 DEF FileOf

\* After close(), no file of the handle is open.
LEMMA ClosedIsClosed ==
  ASSUME EvaluatorTypeOK, FileInv, NEW h \in Known \cap Handle, scopes' = Closed(h),
         NEW i \in 1..Len(scopes'), NEW f \in scopes'[i].files, f.file = h.file
  PROVE  ~f.open
<1>1. scopes \in Seq(Scope) /\ h \in Handle
  BY DEF EvaluatorTypeOK, StateOK, StacksOK
<1>2. /\ Len(scopes') = Len(scopes)
      /\ \A k \in 1..Len(scopes) :
           scopes'[k].files = IF k = h.scope THEN ClosedFiles(scopes[k].files, h.id)
                              ELSE scopes[k].files
  BY <1>1, ClosedIs
<1>3. ASSUME NEW g \in File, NEW id
      PROVE  /\ ClosedFile(g, id).file = g.file
             /\ g.id = id => ~ClosedFile(g, id).open
  <2>1. [g EXCEPT !.open = FALSE].file = g.file /\ ~[g EXCEPT !.open = FALSE].open
    BY DEF File
  <2> QED BY <2>1 DEF ClosedFile
<1>4. i \in 1..Len(scopes) /\ scopes[i].files \subseteq File
  BY <1>2, KnownAreHandles
<1>5. CASE i # h.scope
  <2>1. f \in scopes[i].files
    BY <1>2, <1>4, <1>5
  <2> QED BY <1>4, <1>5, <2>1, OwnFile
<1>6. CASE i = h.scope
  <2>1. scopes'[i].files = ClosedFiles(scopes[i].files, h.id)
    BY <1>2, <1>4, <1>6, Zenon
  <2>2. PICK g \in scopes[i].files : f = ClosedFile(g, h.id)
    <3> HIDE DEF ClosedFile
    <3> QED BY <2>1 DEF ClosedFiles
  <2>3. g.file = h.file
    BY <1>3, <1>4, <2>2
  <2>4. g.id = h.id
    BY <1>4, <2>3, OwnFile
  <2> QED BY <1>3, <1>4, <2>2, <2>4
<1> QED BY <1>5, <1>6

\* A with statement that is left closes its file, wherever it still is.
LEMMA LeftIsClosed ==
  ASSUME EvaluatorTypeOK, FileInv, LeaveWith,
         NEW i \in 1..Len(scopes'), NEW f \in scopes'[i].files, f.file = Top(frames).resource.file
  PROVE  ~f.open
<1> DEFINE h == Top(frames).resource
<1>1. h \in Known \cap Handle
  <2>1. frames # <<>> /\ Top(frames).kind = "with"
    BY InnerIsTop DEF LeaveWith, Leaving, EvaluatorTypeOK, StateOK, StacksOK
  <2> QED BY <2>1, TopResource
<1>2. scopes' = Closed(h) \/ (FileOf(h) = {} /\ scopes' = scopes)
  BY DEF LeaveWith
<1>3. f.file = h.file
  OBVIOUS
<1> HIDE DEF h
<1>4. CASE scopes' = Closed(h)
  BY <1>1, <1>3, <1>4, ClosedIsClosed
<1>5. CASE FileOf(h) = {} /\ scopes' = scopes
  <2>1. i \in 1..Len(scopes) /\ f \in scopes[i].files
    BY <1>5
  <2> QED BY <1>1, <1>3, <1>5, <2>1, OwnFile
<1> QED BY <1>2, <1>4, <1>5

\* Only a with statement enters a file, and only open() numbers one.
LEMMA OpenedStays ==
  ASSUME Evaluate \/ Leave \/ Transition, ~Open
  PROVE  UNCHANGED opened /\ (UNCHANGED managed \/ \E n \in Name \cup {None} : WithFile(n))
<1>1. CASE Evaluate
  BY <1>1 DEF Evaluate, Literal, MakeLambda, CallLambda, Loop, Reraise, AsyncWithFile, Refer,
     Assign, Fail, FileMethod, CallFunction, Try, WithFile, Exit, StartRun, StartModel, files
<1>2. CASE Leave
  BY <1>2 DEF Leave, LeaveLoop, LeaveTry, LeaveHandler, LeaveWith, LeaveFunction, LeaveLambda,
     LeaveHook, LeaveHelper, files
<1>3. CASE Transition
  BY <1>3 DEF Transition, Respond, InvokePre, InvokePost, InvokeHook, Decide, Conclude, Run,
     Observe, InvokeHelper, Effect, Outcome, files
<1> QED BY <1>1, <1>2, <1>3

\* The resources on the stack and the files entered go together.
LEMMA ResourcesKept ==
  ASSUME EvaluatorTypeOK, running => scopes # <<>>, Evaluate \/ Leave \/ Transition, ~Open
  PROVE  \/ FrameHandles(frames') = FrameHandles(frames) /\ UNCHANGED managed
         \/ /\ IsFile(value) /\ managed' = managed \cup {value.file}
            /\ FrameHandles(frames') = FrameHandles(frames) \cup {value}
         \/ /\ LeaveWith /\ UNCHANGED managed
            /\ FrameHandles(frames) = FrameHandles(frames') \cup {Top(frames).resource}
<1>1. ASSUME NEW n \in Name \cup {None}, WithFile(n)
      PROVE  /\ IsFile(value) /\ managed' = managed \cup {value.file}
             /\ FrameHandles(frames') = FrameHandles(frames) \cup {value}
  <2> DEFINE f == [kind |-> "with", resource |-> value]
  <2>1. f \in Frame /\ f.kind = "with" /\ f.resource = value
    BY <1>1, NewFrames, NewValues DEF WithFile, EvaluatorTypeOK, StateOK, ControlOK
  <2>2. IsFile(value) /\ managed' = managed \cup {value.file} /\ frames' = Append(frames, f)
    BY <1>1 DEF WithFile, Push
  <2>3. frames \in Seq(Frame)
    BY DEF EvaluatorTypeOK, StateOK, StacksOK
  <2> HIDE DEF f
  <2> QED BY <2>1, <2>2, <2>3, ResourcesPushed
<1>2. CASE UNCHANGED managed
  BY <1>2, ResourcesStep
<1> QED BY <1>1, <1>2, OpenedStays

\* Entered files stay entered by the statements that stay.
LEMMA ManagedStep ==
  ASSUME EvaluatorTypeOK, running => scopes # <<>>, NestInv, FileInv, ManagedInv, [Next]_vars
  PROVE  ManagedInv'
<1> DEFINE In(hs, f) == \E h \in hs : h.file = f.file
<1>0. /\ \A f : Entered(f) <=> In(FrameHandles(frames), f)
      /\ \A f : Entered(f)' <=> In(FrameHandles(frames'), f)
  BY DEF Entered, FrameHandles
<1>1. CASE UNCHANGED vars
  <2>1. UNCHANGED <<scopes, frames, managed, opened>>
    BY <1>1 DEF vars, control, files
  <2> QED BY <2>1 DEF ManagedInv, Entered
<1>2. CASE Begin
  <2>1. scopes' = <<NewScope(session.locals)>> /\ UNCHANGED <<managed, opened>>
    BY <1>2 DEF Begin
  <2>2. Len(scopes') = 1 /\ scopes'[1].files = {}
    <3>1. session.locals \in [Name -> Value \cup {None}]
      BY DEF EvaluatorTypeOK, StateOK, SessionOK
    <3> QED BY <2>1, <3>1, NewScopes, OnlyOne
  <2> QED BY <2>1, <2>2 DEF ManagedInv
<1>3. CASE Finish
  <2>1. scopes' = <<>> /\ UNCHANGED <<managed, opened>>
    BY <1>3 DEF Finish
  <2>2. Len(scopes') = 0
    BY <2>1, EmptySeq
  <2> QED BY <2>1, <2>2 DEF ManagedInv
<1>4. CASE Open
  <2> DEFINE new == [id |-> nextFile, file |-> opened + 1, open |-> TRUE]
  <2>1. scopes \in Seq(Scope) /\ new \in File /\ new.file = opened + 1 /\ opened \in Nat /\ managed \subseteq Nat
    BY NewEvents DEF EvaluatorTypeOK, StateOK, StacksOK, FilesOK
  <2>2. /\ scopes' = [scopes EXCEPT ![Len(scopes)].files = @ \cup {new}]
        /\ opened' = opened + 1 /\ UNCHANGED <<frames, managed>>
    BY <1>4 DEF Open
  <2> HIDE DEF new
  <2>3. /\ Len(scopes') = Len(scopes)
        /\ \A i \in 1..Len(scopes) : \A f \in scopes'[i].files : f \in scopes[i].files \/ f = new
    BY <2>1, <2>2, AddedFile
  <2>4. \A m \in managed : m <= opened /\ m \in Nat
    BY <2>1 DEF ManagedInv
  <2>5. opened + 1 \notin managed
    BY <2>1, <2>4
  <2>6. \A m \in managed' : m <= opened'
    BY <2>1, <2>2, <2>4
  <2>7. \A f : Entered(f)' <=> Entered(f)
    BY <2>2 DEF Entered
  <2> QED BY <2>1, <2>2, <2>3, <2>5, <2>6, <2>7 DEF ManagedInv
<1>5. CASE (Evaluate \/ Leave \/ Transition) /\ ~Open
  <2>1. Traced
    BY <1>5, KnownStep
  <2>2. UNCHANGED opened /\ (UNCHANGED managed \/ \E n \in Name \cup {None} : WithFile(n))
    BY <1>5, OpenedStays
  <2>3. ASSUME NEW i \in 1..Len(scopes'), NEW f \in scopes'[i].files, f.open, f.file \in managed'
        PROVE  Entered(f)'
    <3>1. PICK g \in scopes[i].files : i \in 1..Len(scopes) /\ g.file = f.file /\ g.open
      BY <2>1, <2>3 DEF Traced
    <3>2. f.file \in managed => In(FrameHandles(frames), f)
      BY <1>0, <3>1 DEF ManagedInv, Entered
    <3>3. CASE FrameHandles(frames') = FrameHandles(frames) /\ UNCHANGED managed
      BY <1>0, <2>3, <3>2, <3>3
    <3>4. CASE /\ IsFile(value) /\ managed' = managed \cup {value.file}
               /\ FrameHandles(frames') = FrameHandles(frames) \cup {value}
      BY <1>0, <2>3, <3>2, <3>4
    <3>5. CASE /\ LeaveWith /\ UNCHANGED managed
               /\ FrameHandles(frames) = FrameHandles(frames') \cup {Top(frames).resource}
      <4>1. PICK h \in FrameHandles(frames) : h.file = f.file
        BY <2>3, <3>2, <3>5
      <4>2. h # Top(frames).resource
        BY <2>3, <3>5, <4>1, LeftIsClosed
      <4> QED BY <1>0, <3>5, <4>1, <4>2
    <3> QED BY <1>5, <2>2, <3>3, <3>4, <3>5, ResourcesKept
  <2>4. \A m \in managed' : m <= opened'
    <3>1. \A n : WithFile(n) => managed' = managed \cup {value.file} /\ IsFile(value)
      BY DEF WithFile
    <3>2. IsFile(value) => value.file <= opened
      BY KnownHandles, HandlesOf DEF FileInv
    <3> QED BY <2>2, <3>1, <3>2 DEF ManagedInv
  <2> QED BY <2>3, <2>4 DEF ManagedInv
<1> QED BY <1>1, <1>2, <1>3, <1>4, <1>5 DEF Next

-----------------------------------------------------------------------------
(* The log.                                                                *)

Logged == StartEvent \cup Happening

\* A log with one more event: those before it stay, each behind the one it was.
LEMMA LogPushed ==
  ASSUME NEW l \in Seq(Logged), NEW e \in Logged
  PROVE  LET m == Append(l, e) IN
         /\ Len(l) \in Nat /\ Len(m) = Len(l) + 1
         /\ \A i \in 1..Len(l) : m[i] = l[i]
         /\ m[Len(l) + 1] = e
<1> DEFINE m == Append(l, e)
<1>1. /\ m \in Seq(Logged) /\ Len(m) = Len(l) + 1 /\ m[Len(l) + 1] = e
      /\ \A i \in 1..Len(l) : m[i] = l[i]
  BY AppendProperties
<1>2. Len(l) \in Nat
  BY LenProperties
<1> HIDE DEF m
<1> QED BY <1>1, <1>2 DEF m

\* The start of a transition is the one event that begins it.
LEMMA StartIsUnique ==
  ASSUME NEW l, NEW id, NEW s \in 1..Len(l), Begins(l, s, id),
         \A r \in 1..Len(l) : Begins(l, r, id) => r = s
  PROVE  StartOf(l, id) = s
BY DEF StartOf, Begins

\* What was logged before keeps its start, as long as an id starts once.
LEMMA BegunKept ==
  ASSUME NEW l \in Seq(Logged), NEW e \in Logged, Chained(l),
         e.phase = "start" => \A i \in 1..Len(l) : l[i].id # e.id,
         NEW k \in 1..Len(l)
  PROVE  LET m == Append(l, e) IN
         /\ m[k] = l[k] /\ Begun(m, m[k]) = Begun(l, l[k])
         /\ Ended(m, k) <=> Ended(l, k)
         /\ Running(m, k) <=> Running(l, k)
<1> DEFINE m == Append(l, e)
           id == l[k].id
<1>1. /\ Len(l) \in Nat /\ Len(m) = Len(l) + 1
      /\ \A i \in 1..Len(l) : m[i] = l[i]
      /\ m[Len(l) + 1] = e
  BY LogPushed
<1> HIDE DEF m
<1>2. PICK s \in 1..Len(l) : Begins(l, s, id)
  BY DEF Chained
<1>3. \A r \in 1..Len(l) : Begins(l, r, id) => r = s
  BY <1>2 DEF Chained, Begins
<1>4. StartOf(l, id) = s
  BY <1>2, <1>3, StartIsUnique
<1>5. s \in 1..Len(m) /\ Begins(m, s, id)
  BY <1>1, <1>2 DEF Begins
<1>6. ASSUME NEW r \in 1..Len(m), Begins(m, r, id) PROVE r = s
  <2>1. r # Len(l) + 1
    BY <1>1, <1>6 DEF Begins
  <2>2. r \in 1..Len(l) /\ m[r] = l[r]
    BY <1>1, <2>1
  <2>3. Begins(l, r, id)
    BY <1>6, <2>2 DEF Begins
  <2> QED BY <1>3, <2>2, <2>3
<1>7. StartOf(m, id) = s
  BY <1>5, <1>6, StartIsUnique
<1>8. m[k] = l[k] /\ Begun(m, m[k]) = Begun(l, l[k])
  BY <1>1, <1>4, <1>7 DEF Begun
<1>9. (Ended(m, k) <=> Ended(l, k)) /\ (Running(m, k) <=> Running(l, k))
  BY <1>8 DEF Ended, Running
<1> QED BY <1>8, <1>9 DEF m

\* What an event adds to the effects executed.
LEMMA ExecutedPushed ==
  ASSUME NEW l \in Seq(Logged), NEW e \in Logged
  PROVE  Executed(Append(l, e)) =
           Executed(l) \cup IF e.phase = "effect" /\ ~e.skipped THEN {e.id} ELSE {}
<1> DEFINE m == Append(l, e)
<1>1. /\ Len(l) \in Nat /\ Len(m) = Len(l) + 1
      /\ \A i \in 1..Len(l) : m[i] = l[i]
      /\ m[Len(l) + 1] = e
  BY LogPushed
<1> HIDE DEF m
<1>2. ASSUME NEW x
      PROVE  x \in Executed(m) <=> x \in Executed(l) \/ (e.phase = "effect" /\ ~e.skipped /\ x = e.id)
  <2>1. x \in Executed(m) <=> \E k \in 1..Len(m) : m[k].phase = "effect" /\ ~m[k].skipped /\ x = m[k].id
    BY DEF Executed
  <2>2. x \in Executed(l) <=> \E k \in 1..Len(l) : l[k].phase = "effect" /\ ~l[k].skipped /\ x = l[k].id
    BY DEF Executed
  <2> QED BY <1>1, <2>1, <2>2
<1>3. Executed(m) = Executed(l) \cup IF e.phase = "effect" /\ ~e.skipped THEN {e.id} ELSE {}
  BY <1>2
<1> QED BY <1>3 DEF m

\* Which events are the latest of their transitions does not depend on later ones.
LEMMA LatestKept ==
  ASSUME NEW l \in Seq(Logged), NEW e \in Logged, NEW i \in 1..(Len(l) + 1), NEW k \in 1..(i - 1)
  PROVE  k \in 1..Len(l) /\ (Latest(Append(l, e), k, i) <=> Latest(l, k, i))
<1> DEFINE m == Append(l, e)
<1>1. Len(l) \in Nat /\ \A j \in 1..Len(l) : m[j] = l[j]
  BY LogPushed
<1> HIDE DEF m
<1>2. k \in 1..Len(l) /\ \A j \in (k + 1)..(i - 1) : j \in 1..Len(l)
  BY <1>1
<1>3. Latest(m, k, i) <=> Latest(l, k, i)
  BY <1>1, <1>2 DEF Latest
<1> QED BY <1>2, <1>3 DEF m

\* The last events of the transitions of a log.
LEMMA FinalIs ==
  ASSUME NEW l \in Seq(Logged), NEW k \in 1..Len(l)
  PROVE  /\ Final(l, k) <=> Latest(l, k, Len(l) + 1)
         /\ \A j \in 1..Len(l) : Final(l, k) /\ Final(l, j) /\ l[k].id = l[j].id => j = k
<1>1. Len(l) \in Nat
  BY LenProperties
<1>2. Final(l, k) <=> Latest(l, k, Len(l) + 1)
  BY <1>1 DEF Final, Latest
<1>3. \A j \in 1..Len(l) : Final(l, k) /\ Final(l, j) /\ l[k].id = l[j].id => j = k
  BY <1>1 DEF Final
<1> QED BY <1>2, <1>3

\* A new event is the last one of its transition, and none of another.
LEMMA FinalPushed ==
  ASSUME NEW l \in Seq(Logged), NEW e \in Logged
  PROVE  LET m == Append(l, e) IN
         /\ Final(m, Len(l) + 1)
         /\ \A k \in 1..Len(l) : Final(m, k) <=> Final(l, k) /\ l[k].id # e.id
<1> DEFINE m == Append(l, e)
<1>1. /\ Len(l) \in Nat /\ Len(m) = Len(l) + 1
      /\ \A i \in 1..Len(l) : m[i] = l[i]
      /\ m[Len(l) + 1] = e
  BY LogPushed
<1> HIDE DEF m
<1>2. Final(m, Len(l) + 1)
  BY <1>1 DEF Final
<1>3. ASSUME NEW k \in 1..Len(l) PROVE Final(m, k) <=> Final(l, k) /\ l[k].id # e.id
  BY <1>1 DEF Final
<1> QED BY <1>2, <1>3 DEF m

\* Everything before the new event is in its place still.
LEMMA PlacesKept ==
  ASSUME NEW l \in Seq(Logged), NEW e \in Logged, Chained(l),
         e.phase = "start" => \A i \in 1..Len(l) : l[i].id # e.id,
         NEW i \in 1..Len(l)
  PROVE  InPlace(Append(l, e), i)
<1> DEFINE m == Append(l, e)
           before == {k \in 1..(i - 1) : Latest(l, k, i)}
<1>1. i \in 1..(Len(l) + 1)
  BY LogPushed
<1>2. before = {k \in 1..(i - 1) : Latest(m, k, i)} /\ before \subseteq 1..Len(l)
  BY <1>1, LatestKept
<1>3. /\ m[i] = l[i]
      /\ \A k \in before : /\ m[k] = l[k] /\ Begun(m, m[k]) = Begun(l, l[k])
                           /\ Ended(m, k) <=> Ended(l, k)
                           /\ Running(m, k) <=> Running(l, k)
  BY <1>2, BegunKept
<1> HIDE DEF m
<1>4. InPlace(l, i)
  BY DEF Chained
<1> HIDE DEF before
<1>5. ASSUME l[i].phase = "start" PROVE InPlace(m, i)
  <2>1. \A k \in before : l[k].id < l[i].id /\ (Ended(l, k) \/ Running(l, k))
    BY <1>4, <1>5 DEF InPlace, before
  <2>2. \A k \in before : m[k].id < m[i].id /\ (Ended(m, k) \/ Running(m, k))
    BY <1>3, <2>1
  <2> QED BY <1>2, <1>3, <1>5, <2>2 DEF InPlace
<1>6. ASSUME l[i].phase # "start" PROVE InPlace(m, i)
  <2>1. /\ \E k \in before : l[k].id = l[i].id /\ MayFollow(Begun(l, l[k]), l[k], l[i])
        /\ \A k \in before : l[k].id > l[i].id => Ended(l, k)
    BY <1>4, <1>6 DEF InPlace, before
  <2>2. /\ \E k \in before : m[k].id = m[i].id /\ MayFollow(Begun(m, m[k]), m[k], m[i])
        /\ \A k \in before : m[k].id > m[i].id => Ended(m, k)
    BY <1>3, <2>1
  <2> QED BY <1>2, <1>3, <1>6, <2>2 DEF InPlace
<1> QED BY <1>5, <1>6 DEF m

\* The new event is in its place by the last events before it.
LEMMA PlacePushed ==
  ASSUME NEW l \in Seq(Logged), NEW e \in Logged, Chained(l),
         e.phase = "start" => \A i \in 1..Len(l) : l[i].id # e.id,
         IF e.phase = "start"
         THEN \A k \in 1..Len(l) : Final(l, k) => l[k].id < e.id /\ (Ended(l, k) \/ Running(l, k))
         ELSE /\ \E k \in 1..Len(l) : Final(l, k) /\ l[k].id = e.id /\ MayFollow(Begun(l, l[k]), l[k], e)
              /\ \A k \in 1..Len(l) : Final(l, k) /\ l[k].id > e.id => Ended(l, k)
  PROVE  InPlace(Append(l, e), Len(l) + 1)
<1> DEFINE m == Append(l, e)
           n == Len(l)
           before == {k \in 1..n : Final(l, k)}
<1>1. n \in Nat /\ m[n + 1] = e
  BY LogPushed
<1>2. before = {k \in 1..((n + 1) - 1) : Latest(m, k, n + 1)}
  <2>1. n + 1 \in 1..(n + 1) /\ (n + 1) - 1 = n
    BY <1>1
  <2>2. ASSUME NEW k \in 1..n PROVE Final(l, k) <=> Latest(m, k, n + 1)
    <3>1. k \in 1..((n + 1) - 1)
      BY <2>1
    <3>2. Latest(m, k, n + 1) <=> Latest(l, k, n + 1)
      BY <2>1, <3>1, LatestKept
    <3> QED BY <3>2, FinalIs
  <2> QED BY <2>1, <2>2
<1>3. \A k \in before : /\ m[k] = l[k] /\ Begun(m, m[k]) = Begun(l, l[k])
                        /\ Ended(m, k) <=> Ended(l, k)
                        /\ Running(m, k) <=> Running(l, k)
  BY BegunKept
<1> HIDE DEF m
<1>4. ASSUME e.phase = "start" PROVE InPlace(m, n + 1)
  <2>1. \A k \in before : l[k].id < e.id /\ (Ended(l, k) \/ Running(l, k))
    BY <1>4
  <2> HIDE DEF before, n
  <2>2. \A k \in before : m[k].id < m[n + 1].id /\ (Ended(m, k) \/ Running(m, k))
    BY <1>1, <1>3, <2>1
  <2> QED BY <1>1, <1>2, <1>4, <2>2 DEF InPlace
<1>5. ASSUME e.phase # "start" PROVE InPlace(m, n + 1)
  <2>1. /\ \E k \in before : l[k].id = e.id /\ MayFollow(Begun(l, l[k]), l[k], e)
        /\ \A k \in before : l[k].id > e.id => Ended(l, k)
    BY <1>5
  <2> HIDE DEF before, n
  <2>2. /\ \E k \in before : m[k].id = m[n + 1].id /\ MayFollow(Begun(m, m[k]), m[k], m[n + 1])
        /\ \A k \in before : m[k].id > m[n + 1].id => Ended(m, k)
    BY <1>1, <1>3, <2>1
  <2> QED BY <1>1, <1>2, <1>5, <2>2 DEF InPlace
<1>6. InPlace(m, n + 1)
  BY <1>4, <1>5
<1> QED BY <1>6 DEF m, n

\* A log whose events have a start is chained when the new event has one and is in
\* its place.
LEMMA ChainPushed ==
  ASSUME NEW l \in Seq(Logged), NEW e \in Logged, Chained(l), InPlace(Append(l, e), Len(l) + 1),
         IF e.phase = "start" THEN \A i \in 1..Len(l) : l[i].id # e.id
         ELSE \E i \in 1..Len(l) : l[i].id = e.id
  PROVE  Chained(Append(l, e))
<1> DEFINE m == Append(l, e)
           n == Len(l)
<1>1. /\ n \in Nat /\ Len(m) = n + 1
      /\ \A i \in 1..n : m[i] = l[i]
      /\ m[n + 1] = e
  BY LogPushed
<1>2. \A i \in 1..n : InPlace(m, i)
  BY PlacesKept
<1>3. InPlace(m, n + 1)
  OBVIOUS
<1> HIDE DEF m, n
<1>4. \A i \in 1..n : \E s \in 1..n : Begins(l, s, l[i].id)
  BY DEF Chained, n
<1>5. \A s, r \in 1..n : l[r].phase = "start" /\ Begins(l, s, l[r].id) => s = r
  BY DEF Chained, n
<1>6. \A i \in 1..Len(m) : i \in 1..n \/ i = n + 1
  BY <1>1
<1>7. \A i \in 1..n : \E s \in 1..Len(m) : Begins(m, s, m[i].id)
  <2> TAKE i \in 1..n
  <2>1. PICK s \in 1..n : Begins(l, s, l[i].id)
    BY <1>4
  <2>2. s \in 1..Len(m) /\ Begins(m, s, m[i].id)
    BY <1>1, <2>1 DEF Begins
  <2> QED BY <2>2
<1>8. \E s \in 1..Len(m) : Begins(m, s, m[n + 1].id)
  <2>1. CASE e.phase = "start"
    <3>1. n + 1 \in 1..Len(m) /\ Begins(m, n + 1, m[n + 1].id)
      BY <1>1, <2>1 DEF Begins
    <3> QED BY <3>1
  <2>2. CASE e.phase # "start"
    <3>1. PICK i \in 1..n : l[i].id = e.id
      BY <2>2 DEF n
    <3>2. m[i].id = m[n + 1].id
      BY <1>1, <3>1
    <3> QED BY <1>7, <3>2
  <2> QED BY <2>1, <2>2
<1>9. \A s, r \in 1..Len(m) : m[r].phase = "start" /\ Begins(m, s, m[r].id) => s = r
  <2>1. CASE e.phase = "start"
    <3>1. \A i \in 1..n : m[i].id # m[n + 1].id
      BY <1>1, <2>1 DEF n
    <3> QED BY <1>1, <1>5, <1>6, <3>1 DEF Begins
  <2>2. CASE e.phase # "start"
    BY <1>1, <1>5, <1>6, <2>2 DEF Begins
  <2> QED BY <2>1, <2>2
<1>10. \A i \in 1..Len(m) : InPlace(m, i)
  BY <1>2, <1>3, <1>6
<1>11. Chained(m)
  BY <1>6, <1>7, <1>8, <1>9, <1>10 DEF Chained
<1> QED BY <1>11 DEF m

\* A transition that starts where every other is complete or executes its run.
LEMMA StartPushed ==
  ASSUME NEW l \in Seq(Logged), NEW e \in Logged, Chained(l), e.phase = "start",
         \A i \in 1..Len(l) : l[i].id < e.id /\ l[i].id # e.id,
         \A k \in 1..Len(l) : Final(l, k) => Ended(l, k) \/ Running(l, k)
  PROVE  Chained(Append(l, e)) /\ Begun(Append(l, e), e) = e
<1> DEFINE m == Append(l, e)
           n == Len(l)
<1>1. /\ n \in Nat /\ Len(m) = n + 1
      /\ \A i \in 1..n : m[i] = l[i]
      /\ m[n + 1] = e
  BY LogPushed
<1>2. Chained(m)
  BY PlacePushed, ChainPushed
<1> HIDE DEF m
<1>3. Begins(m, n + 1, e.id) /\ n + 1 \in 1..Len(m)
  BY <1>1 DEF Begins
<1>4. \A r \in 1..Len(m) : m[r].id = e.id => r = n + 1
  BY <1>1
<1>5. StartOf(m, e.id) = n + 1
  BY <1>3, <1>4, StartIsUnique DEF Begins
<1> QED BY <1>1, <1>2, <1>5 DEF m, Begun

\* An event that follows the last one of its transition.
LEMMA NextPushed ==
  ASSUME NEW l \in Seq(Logged), NEW e \in Logged, Chained(l), e.phase # "start",
         NEW k \in 1..Len(l), Final(l, k), l[k].id = e.id, MayFollow(Begun(l, l[k]), l[k], e),
         \A j \in 1..Len(l) : Final(l, j) /\ l[j].id > e.id => Ended(l, j)
  PROVE  Chained(Append(l, e)) /\ Begun(Append(l, e), e) = Begun(l, l[k])
<1>1. Chained(Append(l, e))
  BY PlacePushed, ChainPushed
<1>2. Begun(Append(l, e), Append(l, e)[k]) = Begun(l, l[k]) /\ Append(l, e)[k] = l[k]
  BY BegunKept
<1>3. Begun(Append(l, e), e) = Begun(Append(l, e), l[k])
  BY DEF Begun
<1> QED BY <1>1, <1>2, <1>3

-----------------------------------------------------------------------------
(* Transitions and their log.                                              *)

\* The transitions on a stack, and their order, after a push.
LEMMA RequestsPushed ==
  ASSUME NEW fs \in Seq(Frame), NEW f \in Frame
  PROVE  /\ f.kind = "transition" =>
              /\ Requests(Append(fs, f)) = Requests(fs) \cup {f}
              /\ Ordered(Append(fs, f)) <=> Ordered(fs) /\ \A q \in Requests(fs) : q.id < f.id
         /\ f.kind # "transition" =>
              /\ Requests(Append(fs, f)) = Requests(fs)
              /\ Ordered(Append(fs, f)) <=> Ordered(fs)
<1> DEFINE gs == Append(fs, f)
           n == Len(fs)
<1>1. /\ n \in Nat /\ At(fs, "transition") \subseteq 1..n
      /\ \A i \in 1..n : gs[i] = fs[i]
      /\ gs[n + 1] = f
      /\ f.kind = "transition" => At(gs, "transition") = At(fs, "transition") \cup {n + 1}
      /\ f.kind # "transition" => At(gs, "transition") = At(fs, "transition")
  BY Pushed, AtPushed
<1> HIDE DEF gs, n
<1>2. ASSUME f.kind = "transition"
      PROVE  /\ Requests(gs) = Requests(fs) \cup {f}
             /\ Ordered(gs) <=> Ordered(fs) /\ \A q \in Requests(fs) : q.id < f.id
  <2>1. Requests(gs) = Requests(fs) \cup {f}
    BY <1>1, <1>2 DEF Requests
  <2>2. ASSUME Ordered(gs) PROVE Ordered(fs) /\ \A q \in Requests(fs) : q.id < f.id
    <3>1. Ordered(fs)
      BY <1>1, <1>2, <2>2 DEF Ordered
    <3>2. \A i \in At(fs, "transition") : fs[i].id < f.id
      <4> TAKE i \in At(fs, "transition")
      <4>1. i \in At(gs, "transition") /\ n + 1 \in At(gs, "transition") /\ i < n + 1
        BY <1>1, <1>2
      <4>2. gs[i].id < gs[n + 1].id
        BY <2>2, <4>1 DEF Ordered
      <4> QED BY <1>1, <4>2
    <3> QED BY <3>1, <3>2 DEF Requests
  <2>3. ASSUME Ordered(fs), \A q \in Requests(fs) : q.id < f.id PROVE Ordered(gs)
    <3>1. \A i \in At(fs, "transition") : fs[i].id < f.id
      BY <2>3 DEF Requests
    <3> QED BY <1>1, <1>2, <2>3, <3>1 DEF Ordered
  <2> QED BY <2>1, <2>2, <2>3
<1>3. ASSUME f.kind # "transition"
      PROVE  Requests(gs) = Requests(fs) /\ (Ordered(gs) <=> Ordered(fs))
  BY <1>1, <1>3 DEF Requests, Ordered
<1> QED BY <1>2, <1>3 DEF gs

\* The effects under observation, with one more transition on the stack.
LEMMA WatchedPushed ==
  ASSUME NEW rs, NEW f
  PROVE  /\ f.phase = "observing" => Watched(rs \cup {f}) = Watched(rs) \cup {f.id}
         /\ f.phase # "observing" => Watched(rs \cup {f}) = Watched(rs)
BY DEF Watched

\* Below a transition every other one is observing: there is no hook to stand on it.
LEMMA BelowObserving ==
  ASSUME NEW fs \in Seq(Frame), NEW f \in Frame, f.kind = "transition", Nested(Append(fs, f))
  PROVE  \A q \in Requests(fs) : q.phase = "observing"
<1> DEFINE n == Len(fs)
           gs == Append(fs, f)
<1>1. At(fs, "hook") = {}
  BY NestedPushed
<1>2. /\ n \in Nat /\ DOMAIN fs = 1..n /\ DOMAIN gs = 1..(n + 1) /\ gs[n + 1] = f
      /\ \A i \in 1..n : gs[i] = fs[i]
  BY Pushed
<1> HIDE DEF n, gs
<1>3. ASSUME NEW k \in At(fs, "transition") PROVE fs[k].phase = "observing"
  <2>1. k \in 1..n /\ fs[k].kind = "transition"
    BY <1>2 DEF At
  <2>2. k \in DOMAIN gs /\ k + 1 \in DOMAIN gs
    BY <1>2, <2>1
  <2>3. MayStand(gs[k], gs[k + 1])
    BY <2>2 DEF Nested, gs
  <2>4. gs[k + 1].kind # "hook"
    <3>1. CASE k = n
      BY <1>2, <3>1
    <3>2. CASE k # n
      <4>1. k + 1 \in 1..n
        BY <1>2, <2>1, <3>2
      <4> QED BY <1>1, <1>2, <4>1 DEF At
    <3> QED BY <3>1, <3>2
  <2> QED BY <1>2, <2>1, <2>3, <2>4 DEF MayStand
<1> QED BY <1>3 DEF Requests

\* The transition on top of a stack is the last one that started.
LEMMA TopRequest ==
  ASSUME EvaluatorTypeOK, Ordered(frames), frames # <<>>, Top(frames).kind = "transition"
  PROVE  LET base == Pop(frames)
             top == Top(frames) IN
         /\ base \in Seq(Frame) /\ top \in RequestFrame
         /\ Requests(frames) = Requests(base) \cup {top}
         /\ Ordered(base) /\ \A q \in Requests(base) : q \in RequestFrame /\ q.id < top.id
         /\ \A g \in RequestFrame : g.id = top.id =>
              Requests(Append(base, g)) = Requests(base) \cup {g} /\ Ordered(Append(base, g))
<1> DEFINE base == Pop(frames)
           top == Top(frames)
<1>1. base \in Seq(Frame) /\ top \in Frame /\ frames = Append(base, top)
  BY Below
<1>2. top.kind = "transition"
  OBVIOUS
<1> HIDE DEF base, top
<1>3. /\ Requests(frames) = Requests(base) \cup {top}
      /\ Ordered(base) /\ \A q \in Requests(base) : q.id < top.id
  BY <1>1, <1>2, RequestsPushed
<1>4. \A q \in Requests(base) : q \in RequestFrame
  <2>1. \A k \in At(base, "transition") : base[k] \in Frame /\ base[k].kind = "transition"
    BY <1>1, ElementOfSeq, LenProperties DEF At
  <2> QED BY <2>1, FrameParts DEF Requests
<1>5. ASSUME NEW g \in RequestFrame, g.id = top.id
      PROVE  Requests(Append(base, g)) = Requests(base) \cup {g} /\ Ordered(Append(base, g))
  <2>1. g \in Frame /\ g.kind = "transition"
    BY NewFrames DEF RequestFrame
  <2>2. \A q \in Requests(base) : q.id < g.id
    BY <1>3, <1>5
  <2> QED BY <1>1, <1>3, <2>1, <2>2, RequestsPushed
<1>6. top \in RequestFrame
  BY <1>1, <1>2, FrameParts
<1> QED BY <1>1, <1>3, <1>4, <1>5, <1>6 DEF base, top

-----------------------------------------------------------------------------
(* What the log has of the transitions on the stack.                       *)

\* A transition that starts, on top of those under way.
LEMMA AccountedStarts ==
  ASSUME NEW l \in Seq(Logged), NEW e \in Logged, Chained(l), e.phase = "start",
         \A i \in 1..Len(l) : l[i].id # e.id, Begun(Append(l, e), e) = e,
         NEW rs, Accounted(rs, l), NEW f, f.id = e.id, Agrees(f, e, e)
  PROVE  Accounted(rs \cup {f}, Append(l, e))
<1> DEFINE m == Append(l, e)
           n == Len(l)
<1>1. n \in Nat /\ Len(m) = n + 1 /\ m[n + 1] = e
  BY LogPushed
<1>2. /\ Final(m, n + 1)
      /\ \A k \in 1..n : Final(m, k) <=> Final(l, k)
  BY FinalPushed
<1>3. \A k \in 1..n : m[k] = l[k] /\ Begun(m, m[k]) = Begun(l, l[k]) /\ (Ended(m, k) <=> Ended(l, k))
  BY BegunKept
<1> HIDE DEF m, n
<1>4. ASSUME NEW q \in rs \cup {f}
      PROVE  \E k \in 1..Len(m) : Final(m, k) /\ m[k].id = q.id /\ Agrees(q, Begun(m, m[k]), m[k])
  <2>1. CASE q = f
    <3>1. n + 1 \in 1..Len(m)
      BY <1>1
    <3> QED BY <1>1, <1>2, <2>1, <3>1 DEF m
  <2>2. CASE q \in rs
    <3>1. PICK k \in 1..n : Final(l, k) /\ l[k].id = q.id /\ Agrees(q, Begun(l, l[k]), l[k])
      BY <2>2 DEF Accounted, n
    <3>2. k \in 1..Len(m)
      BY <1>1
    <3> QED BY <1>2, <1>3, <3>1, <3>2
  <2> QED BY <2>1, <2>2
<1>5. ASSUME NEW k \in 1..Len(m), Final(m, k)
      PROVE  Ended(m, k) \/ \E q \in rs \cup {f} : q.id = m[k].id
  <2>1. CASE k = n + 1
    BY <1>1, <2>1
  <2>2. CASE k # n + 1
    <3>1. k \in 1..n /\ Final(l, k)
      BY <1>1, <1>2, <1>5, <2>2
    <3>2. Ended(l, k) \/ \E q \in rs : q.id = l[k].id
      BY <3>1 DEF Accounted, n
    <3> QED BY <1>3, <3>1, <3>2
  <2> QED BY <2>1, <2>2
<1> QED BY <1>4, <1>5 DEF Accounted, m

\* A transition that goes on, or is left complete.
LEMMA AccountedFollows ==
  ASSUME NEW l \in Seq(Logged), NEW e \in Logged, Chained(l), e.phase # "start",
         NEW rs, NEW f, Accounted(rs \cup {f}, l), f.id = e.id, \A q \in rs : q.id # e.id,
         NEW start, Begun(Append(l, e), e) = start,
         NEW gs, \/ gs = {} /\ Complete(start, e)
                 \/ \E g : gs = {g} /\ g.id = e.id /\ Agrees(g, start, e)
  PROVE  Accounted(rs \cup gs, Append(l, e))
<1> DEFINE m == Append(l, e)
           n == Len(l)
<1>1. n \in Nat /\ Len(m) = n + 1 /\ m[n + 1] = e
  BY LogPushed
<1>2. /\ Final(m, n + 1)
      /\ \A k \in 1..n : Final(m, k) <=> Final(l, k) /\ l[k].id # e.id
  BY FinalPushed
<1>3. \A k \in 1..n : m[k] = l[k] /\ Begun(m, m[k]) = Begun(l, l[k]) /\ (Ended(m, k) <=> Ended(l, k))
  BY BegunKept
<1>4. Begun(m, e) = start /\ n + 1 \in 1..Len(m)
  BY <1>1
<1> HIDE DEF m, n
<1>5. ASSUME NEW q \in rs
      PROVE  \E k \in 1..Len(m) : Final(m, k) /\ m[k].id = q.id /\ Agrees(q, Begun(m, m[k]), m[k])
  <2>1. PICK k \in 1..n : Final(l, k) /\ l[k].id = q.id /\ Agrees(q, Begun(l, l[k]), l[k])
    BY DEF Accounted, n
  <2>2. k \in 1..Len(m) /\ l[k].id # e.id
    BY <1>1, <2>1
  <2> QED BY <1>2, <1>3, <2>1, <2>2
<1>6. ASSUME NEW q \in gs
      PROVE  \E k \in 1..Len(m) : Final(m, k) /\ m[k].id = q.id /\ Agrees(q, Begun(m, m[k]), m[k])
  <2>1. q.id = e.id /\ Agrees(q, start, e)
    OBVIOUS
  <2> QED BY <1>1, <1>2, <1>4, <2>1
<1>7. ASSUME NEW k \in 1..Len(m), Final(m, k)
      PROVE  Ended(m, k) \/ \E q \in rs \cup gs : q.id = m[k].id
  <2>1. CASE k = n + 1
    <3>1. CASE Complete(start, e)
      BY <1>1, <1>4, <2>1, <3>1 DEF Ended
    <3>2. CASE \E g : gs = {g} /\ g.id = e.id
      BY <1>1, <2>1, <3>2
    <3> QED BY <3>1, <3>2
  <2>2. CASE k # n + 1
    <3>1. k \in 1..n /\ Final(l, k) /\ l[k].id # e.id
      <4>1. k \in 1..n
        BY <1>1, <2>2
      <4> QED BY <1>2, <1>7, <4>1
    <3>2. Ended(l, k) \/ \E q \in rs \cup {f} : q.id = l[k].id
      BY <3>1 DEF Accounted, n
    <3>3. Ended(l, k) \/ \E q \in rs : q.id = l[k].id
      BY <3>1, <3>2
    <3> QED BY <1>3, <3>1, <3>3
  <2> QED BY <2>1, <2>2
<1> QED BY <1>5, <1>6, <1>7 DEF Accounted, m

\* A transition that comes further without an event.
LEMMA AccountedReplaced ==
  ASSUME NEW l, NEW rs, NEW f, NEW g, Accounted(rs \cup {f}, l), g.id = f.id,
         \A start, last : Agrees(f, start, last) => Agrees(g, start, last)
  PROVE  Accounted(rs \cup {g}, l)
<1>1. ASSUME NEW q \in rs \cup {g}
      PROVE  \E k \in 1..Len(l) : Final(l, k) /\ l[k].id = q.id /\ Agrees(q, Begun(l, l[k]), l[k])
  <2>1. CASE q \in rs
    BY <2>1 DEF Accounted
  <2>2. CASE q = g
    <3>1. PICK k \in 1..Len(l) : Final(l, k) /\ l[k].id = f.id /\ Agrees(f, Begun(l, l[k]), l[k])
      BY DEF Accounted
    <3>2. Agrees(g, Begun(l, l[k]), l[k])
      BY <3>1
    <3> QED BY <2>2, <3>1, <3>2
  <2> QED BY <2>1, <2>2
<1>2. ASSUME NEW k \in 1..Len(l), Final(l, k)
      PROVE  Ended(l, k) \/ \E q \in rs \cup {g} : q.id = l[k].id
  <2>1. Ended(l, k) \/ \E q \in rs \cup {f} : q.id = l[k].id
    BY <1>2 DEF Accounted
  <2> QED BY <2>1
<1> QED BY <1>1, <1>2 DEF Accounted

\* The types of the log and of the ids in it.
LEMMA LogTypes ==
  ASSUME EvaluatorTypeOK, LogInv
  PROVE  /\ log \in Seq(Logged) /\ transitions \in Nat /\ frames \in Seq(Frame)
         /\ \A i \in 1..Len(log) : log[i].id \in Nat /\ log[i].id <= transitions
<1>1. log \in Seq(Logged) /\ transitions \in Nat /\ frames \in Seq(Frame)
  BY DEF EvaluatorTypeOK, StateOK, EventsOK, StacksOK, Logged
<1>2. ASSUME NEW i \in 1..Len(log) PROVE log[i].id \in Nat /\ log[i].id <= transitions
  <2>1. log[i] \in Logged
    BY <1>1, ElementOfSeq
  <2>2. log[i].id \in Nat
    BY <2>1 DEF Logged, StartEvent, Happening
  <2> QED BY <2>2 DEF LogInv
<1> QED BY <1>1, <1>2

\* A step that leaves the log and the transitions on the stack keeps it.
LEMMA LogStays ==
  ASSUME LogInv, UNCHANGED events, Requests(frames') = Requests(frames), Ordered(frames'),
         running' \/ session'.transitions = transitions
  PROVE  LogInv'
<1>1. Chained(log) /\ Accounted(Requests(frames), log) /\ executed = Executed(log) \cup Watched(Requests(frames))
      /\ \A i \in 1..Len(log) : log[i].id <= transitions
  BY DEF LogInv
<1> QED BY <1>1 DEF LogInv, events

\* A transition that starts: those under way all observe their runs.
LEMMA LogStarts ==
  ASSUME EvaluatorTypeOK, NestInv', LogInv, running', NEW hooks \in Hooks, NEW effect \in {"run", "model"},
         NEW fs \in Seq(Frame), Requests(fs) = Requests(frames), Ordered(fs),
         frames' = Append(fs, Request(effect, hooks, transitions + 1)),
         transitions' = transitions + 1, log' = Append(log, Start(effect, hooks, transitions + 1)),
         UNCHANGED executed
  PROVE  LogInv'
<1> DEFINE e == Start(effect, hooks, transitions + 1)
           f == Request(effect, hooks, transitions + 1)
           rs == Requests(frames)
<1>1. /\ log \in Seq(Logged) /\ transitions \in Nat
      /\ \A i \in 1..Len(log) : log[i].id \in Nat /\ log[i].id <= transitions
  BY LogTypes
<1>2. e \in Logged /\ e.phase = "start" /\ e.id = transitions + 1 /\ e.hooks = hooks /\ e.effect = effect
  <2>1. transitions + 1 \in Nat
    BY <1>1
  <2>2. e \in Logged
    BY <2>1, NewEvents DEF Logged
  <2> QED BY <2>2 DEF Start
<1>3. /\ f \in Frame /\ f.kind = "transition" /\ f.id = transitions + 1
      /\ f.hooks = hooks /\ f.effect = effect /\ f.rejected = FALSE
      /\ f.phase = IF hooks.pre = None THEN "effect" ELSE "start"
  <2>1. transitions + 1 \in Nat
    BY <1>1
  <2>2. f \in Frame
    BY <2>1, NewFrames
  <2> QED BY <2>2 DEF Request
<1>4. log' = Append(log, e) /\ frames' = Append(fs, f)
  OBVIOUS
<1> HIDE DEF e, f
<1>5. \A i \in 1..Len(log) : log[i].id < e.id /\ log[i].id # e.id
  BY <1>1, <1>2
<1>6. /\ Chained(log) /\ Accounted(rs, log) /\ executed = Executed(log) \cup Watched(rs)
  BY DEF LogInv
<1>7. \A q \in rs : q.phase = "observing"
  <2>1. Nested(Append(fs, f))
    BY <1>4 DEF NestInv
  <2> QED BY <1>3, <2>1, BelowObserving
<1>8. ASSUME NEW q \in rs
      PROVE  \E k \in 1..Len(log) : Final(log, k) /\ log[k].id = q.id /\ Running(log, k)
  <2>1. PICK k \in 1..Len(log) : Final(log, k) /\ log[k].id = q.id /\ Agrees(q, Begun(log, log[k]), log[k])
    BY <1>6 DEF Accounted
  <2>2. Running(log, k)
    BY <1>7, <2>1 DEF Agrees, Running
  <2> QED BY <2>1, <2>2
<1>9. ASSUME NEW k \in 1..Len(log), Final(log, k) PROVE Ended(log, k) \/ Running(log, k)
  <2>1. CASE \E q \in rs : q.id = log[k].id
    <3>1. PICK q \in rs : q.id = log[k].id
      BY <2>1
    <3>2. PICK j \in 1..Len(log) : Final(log, j) /\ log[j].id = q.id /\ Running(log, j)
      BY <1>8
    <3>3. j = k
      BY <1>1, <1>9, <3>1, <3>2, FinalIs
    <3> QED BY <3>2, <3>3
  <2> QED BY <1>6, <1>9, <2>1 DEF Accounted
<1>10. Chained(log') /\ Begun(log', e) = e
  BY <1>1, <1>2, <1>4, <1>5, <1>6, <1>9, StartPushed
<1>11. Agrees(f, e, e)
  BY <1>2, <1>3 DEF Agrees
<1>12. Accounted(rs \cup {f}, log')
  BY <1>1, <1>2, <1>3, <1>4, <1>5, <1>6, <1>10, <1>11, AccountedStarts
<1>13. \A q \in rs : q.id < f.id
  <2> TAKE q \in rs
  <2>1. PICK k \in 1..Len(log) : log[k].id = q.id
    BY <1>8
  <2> QED BY <1>2, <1>3, <1>5, <2>1
<1>14. Requests(frames') = rs \cup {f} /\ Ordered(frames')
  BY <1>3, <1>4, <1>13, RequestsPushed
<1>15. \A i \in 1..Len(log') : log'[i].id <= transitions'
  <2>1. /\ Len(log) \in Nat /\ Len(log') = Len(log) + 1 /\ log'[Len(log) + 1] = e
        /\ \A i \in 1..Len(log) : log'[i] = log[i]
    BY <1>1, <1>2, <1>4, LogPushed
  <2> QED BY <1>1, <1>2, <2>1
<1>16. executed' = Executed(log') \cup Watched(rs \cup {f})
  <2>1. Executed(log') = Executed(log)
    BY <1>1, <1>2, <1>4, ExecutedPushed
  <2>2. Watched(rs \cup {f}) = Watched(rs)
    BY <1>3, WatchedPushed
  <2> QED BY <1>6, <2>1, <2>2
<1> HIDE DEF rs
<1> QED BY <1>10, <1>12, <1>14, <1>15, <1>16 DEF LogInv

\* The request on top of the stack, and what the log says of it.
LEMMA AtRequest ==
  ASSUME EvaluatorTypeOK, LogInv, NEW p, AtPhase(p)
  PROVE  LET f == Top(frames)
             base == Pop(frames) IN
         /\ running /\ frames # <<>> /\ f.kind = "transition" /\ f.phase = p
         /\ f \in RequestFrame /\ f.id \in Nat /\ base \in Seq(Frame)
         /\ Requests(frames) = Requests(base) \cup {f}
         /\ Ordered(base) /\ \A q \in Requests(base) : q.id \in Nat /\ q.id < f.id /\ q.id # f.id
         /\ \A g \in RequestFrame : g.id = f.id =>
              Requests(Append(base, g)) = Requests(base) \cup {g} /\ Ordered(Append(base, g))
<1>1. running /\ frames # <<>> /\ Top(frames).kind = "transition" /\ Top(frames).phase = p
  BY InnerIsTop DEF AtPhase, EvaluatorTypeOK, StateOK, StacksOK
<1>2. Ordered(frames)
  BY DEF LogInv
<1>3. /\ Pop(frames) \in Seq(Frame) /\ Top(frames) \in RequestFrame
      /\ Requests(frames) = Requests(Pop(frames)) \cup {Top(frames)}
      /\ Ordered(Pop(frames))
      /\ \A q \in Requests(Pop(frames)) : q \in RequestFrame /\ q.id < Top(frames).id
      /\ \A g \in RequestFrame : g.id = Top(frames).id =>
           Requests(Append(Pop(frames), g)) = Requests(Pop(frames)) \cup {g} /\ Ordered(Append(Pop(frames), g))
  BY <1>1, <1>2, TopRequest
<1>4. \A g \in RequestFrame : g.id \in Nat
  BY DEF RequestFrame
<1>5. \A q \in Requests(Pop(frames)) : q.id \in Nat /\ q.id < Top(frames).id /\ q.id # Top(frames).id
  BY <1>3, <1>4
<1> QED BY <1>1, <1>3, <1>4, <1>5

\* A transition that comes further without an event.
LEMMA LogReplaced ==
  ASSUME EvaluatorTypeOK, LogInv, NEW p, AtPhase(p), p # "observing",
         NEW g \in RequestFrame, g.id = Top(frames).id,
         Requests(frames') = Requests(Pop(frames)) \cup {g}, Ordered(frames'),
         UNCHANGED <<transitions, log, session, running>>,
         executed' = executed \cup IF g.phase = "observing" THEN {g.id} ELSE {},
         \A start, last : Agrees(Top(frames), start, last) => Agrees(g, start, last)
  PROVE  LogInv'
<1> DEFINE f == Top(frames)
           rs == Requests(Pop(frames))
<1>1. running /\ f.phase = p /\ Requests(frames) = rs \cup {f}
  BY AtRequest
<1>2. /\ Chained(log) /\ Accounted(rs \cup {f}, log) /\ executed = Executed(log) \cup Watched(rs \cup {f})
      /\ \A i \in 1..Len(log) : log[i].id <= transitions
  BY <1>1 DEF LogInv
<1>3. Accounted(rs \cup {g}, log)
  BY <1>2, AccountedReplaced
<1> HIDE DEF f, rs
<1>4. executed' = Executed(log) \cup Watched(rs \cup {g})
  <2>1. Watched(rs \cup {f}) = Watched(rs)
    BY <1>1, WatchedPushed
  <2> QED BY <1>2, <2>1, WatchedPushed
<1>5. Requests(frames') = rs \cup {g}
  BY DEF rs
<1> QED BY <1>1, <1>2, <1>3, <1>4, <1>5 DEF LogInv

\* A transition that goes on by an event that may follow, or ends with it.
LEMMA LogFollows ==
  ASSUME EvaluatorTypeOK, LogInv, NEW p, AtPhase(p),
         NEW e \in Logged, e.phase # "start", e.id = Top(frames).id, log' = Append(log, e),
         UNCHANGED <<transitions, session, running>>,
         executed' = executed \cup IF e.phase = "effect" /\ ~e.skipped THEN {e.id} ELSE {},
         p = "observing" => e.phase = "effect" /\ ~e.skipped,
         \A start, last : Agrees(Top(frames), start, last) => MayFollow(start, last, e),
         \/ /\ frames' = Pop(frames)
            /\ \A start, last : Agrees(Top(frames), start, last) => Complete(start, e)
         \/ \E g \in RequestFrame :
              /\ frames' = Append(Pop(frames), g) /\ g.id = e.id /\ g.phase # "observing"
              /\ \A start, last : Agrees(Top(frames), start, last) => Agrees(g, start, e)
  PROVE  LogInv'
<1> DEFINE f == Top(frames)
           base == Pop(frames)
           rs == Requests(base)
           effects == IF e.phase = "effect" /\ ~e.skipped THEN {e.id} ELSE {}
<1>1. /\ log \in Seq(Logged) /\ transitions \in Nat
      /\ \A i \in 1..Len(log) : log[i].id \in Nat /\ log[i].id <= transitions
  BY LogTypes
<1>2. /\ running /\ f.phase = p /\ f \in RequestFrame /\ f.id \in Nat
      /\ Requests(frames) = rs \cup {f}
      /\ Ordered(base) /\ \A q \in rs : q.id \in Nat /\ q.id < f.id /\ q.id # f.id
      /\ \A g \in RequestFrame : g.id = f.id =>
           Requests(Append(base, g)) = rs \cup {g} /\ Ordered(Append(base, g))
  BY AtRequest
<1>3. Chained(log) /\ Accounted(rs \cup {f}, log) /\ executed = Executed(log) \cup Watched(rs \cup {f})
  BY <1>2 DEF LogInv
<1>4. PICK k \in 1..Len(log) : Final(log, k) /\ log[k].id = f.id /\ Agrees(f, Begun(log, log[k]), log[k])
  BY <1>3 DEF Accounted
<1> DEFINE start == Begun(log, log[k])
<1>5. MayFollow(start, log[k], e)
  BY <1>4
<1>6. PICK gs : /\ Requests(frames') = rs \cup gs /\ Ordered(frames') /\ Watched(rs \cup gs) = Watched(rs)
                /\ \/ gs = {} /\ Complete(start, e)
                   \/ \E g : gs = {g} /\ g.id = e.id /\ Agrees(g, start, e)
  <2>1. CASE frames' = base /\ Complete(start, e)
    <3>1. Requests(frames') = rs \cup {} /\ Ordered(frames') /\ Watched(rs \cup {}) = Watched(rs)
      BY <1>2, <2>1
    <3> QED BY <2>1, <3>1
  <2>2. ASSUME NEW g \in RequestFrame, frames' = Append(base, g), g.id = e.id, g.phase # "observing",
               Agrees(g, start, e)
        PROVE  /\ Requests(frames') = rs \cup {g} /\ Ordered(frames') /\ Watched(rs \cup {g}) = Watched(rs)
               /\ g.id = e.id /\ Agrees(g, start, e)
    BY <1>2, <2>2, WatchedPushed
  <2>3. \/ frames' = base /\ Complete(start, e)
        \/ \E g \in RequestFrame :
             frames' = Append(base, g) /\ g.id = e.id /\ g.phase # "observing" /\ Agrees(g, start, e)
    BY <1>4
  <2> HIDE DEF rs, base, start
  <2> QED BY <2>1, <2>2, <2>3
<1> HIDE DEF f, base, rs, start
<1>7. e.id = f.id
  BY DEF f
<1>8. \A j \in 1..Len(log) : Final(log, j) /\ log[j].id > e.id => Ended(log, j)
  <2> TAKE j \in 1..Len(log)
  <2>1. HAVE Final(log, j) /\ log[j].id > e.id
  <2>2. ASSUME NEW q \in rs \cup {f}, q.id = log[j].id PROVE FALSE
    BY <1>1, <1>2, <1>7, <2>1, <2>2
  <2> QED BY <1>3, <2>1, <2>2 DEF Accounted
<1>9. Chained(log') /\ Begun(log', e) = start
  BY <1>1, <1>3, <1>4, <1>5, <1>7, <1>8, NextPushed DEF start
<1>10. Accounted(rs \cup gs, log')
  <2>1. \A q \in rs : q.id # e.id
    BY <1>2, <1>7
  <2>2. Begun(Append(log, e), e) = start
    BY <1>9
  <2>3. Accounted(rs \cup gs, Append(log, e))
    BY <1>1, <1>3, <1>6, <1>7, <2>1, <2>2, AccountedFollows
  <2> QED BY <2>3
<1>11. \A i \in 1..Len(log') : log'[i].id <= transitions'
  <2>1. /\ Len(log) \in Nat /\ Len(log') = Len(log) + 1 /\ log'[Len(log) + 1] = e
        /\ \A i \in 1..Len(log) : log'[i] = log[i]
    BY <1>1, LogPushed
  <2>2. e.id <= transitions
    BY <1>1, <1>4, <1>7
  <2> QED BY <1>1, <2>1, <2>2
<1>12. executed' = Executed(log') \cup Watched(rs \cup gs)
  <2>1. Executed(log') = Executed(log) \cup effects
    BY <1>1, ExecutedPushed
  <2>2. executed' = executed \cup effects
    OBVIOUS
  <2>3. f.phase = "observing" => effects = {f.id}
    BY <1>2, <1>7
  <2> HIDE DEF effects
  <2>4. CASE f.phase = "observing"
    BY <1>3, <1>6, <2>1, <2>2, <2>3, <2>4, WatchedPushed
  <2>5. CASE f.phase # "observing"
    BY <1>3, <1>6, <2>1, <2>2, <2>5, WatchedPushed
  <2> QED BY <2>4, <2>5
<1> QED BY <1>2, <1>6, <1>9, <1>10, <1>11, <1>12 DEF LogInv


\* Steps that leave the transitions on the stack, and the log, as they are.
Quiet ==
  /\ UNCHANGED <<events, session, running>>
  /\ \/ UNCHANGED frames
     \/ \E f \in Frame : f.kind # "transition" /\ frames' = Append(frames, f)
     \/ /\ frames # <<>> /\ Top(frames).kind # "transition"
        /\ frames' = Pop(frames) \/ \E f \in Frame : f.kind # "transition" /\ frames' = Append(Pop(frames), f)

\* A quiet step leaves the transitions on the stack, in their order.
LEMMA QuietRequests ==
  ASSUME EvaluatorTypeOK, Quiet
  PROVE  Requests(frames') = Requests(frames) /\ (Ordered(frames') <=> Ordered(frames))
<1> DEFINE Alike(fs) == Requests(fs) = Requests(frames) /\ (Ordered(fs) <=> Ordered(frames))
           base == Pop(frames)
           top == Top(frames)
<1>1. frames # <<>> => base \in Seq(Frame) /\ top \in Frame /\ frames = Append(base, top)
  BY Below
<1>2. frames \in Seq(Frame)
  BY DEF EvaluatorTypeOK, StateOK, StacksOK
<1> HIDE DEF base, top
<1>3. CASE UNCHANGED frames
  BY <1>3
<1>4. ASSUME NEW f \in Frame, f.kind # "transition", frames' = Append(frames, f)
      PROVE  Alike(frames')
  BY <1>2, <1>4, RequestsPushed
<1>5. ASSUME frames # <<>>, top.kind # "transition"
      PROVE  Alike(base)
  <2>1. Requests(Append(base, top)) = Requests(base) /\ (Ordered(Append(base, top)) <=> Ordered(base))
    BY <1>1, <1>5, RequestsPushed
  <2> QED BY <1>1, <1>5, <2>1
<1>6. ASSUME frames # <<>>, top.kind # "transition",
             frames' = base \/ \E f \in Frame : f.kind # "transition" /\ frames' = Append(base, f)
      PROVE  Alike(frames')
  <2>1. base \in Seq(Frame)
    BY <1>1, <1>6
  <2>2. Alike(base)
    BY <1>5, <1>6
  <2>3. ASSUME NEW f \in Frame, f.kind # "transition" PROVE Alike(Append(base, f))
    <3>1. /\ Requests(Append(base, f)) = Requests(base)
          /\ Ordered(Append(base, f)) <=> Ordered(base)
      BY <2>1, <2>3, RequestsPushed
    <3> QED BY <2>2, <3>1
  <2> HIDE DEF Alike
  <2> QED BY <1>6, <2>2, <2>3
<1>7. Alike(frames')
  <2> HIDE DEF Alike
  <2>1. CASE UNCHANGED frames
    BY <1>3, <2>1 DEF Alike
  <2> QED BY <1>4, <1>6, <2>1 DEF Quiet, base, top
<1> QED BY <1>7

\* All of the evaluation is quiet but the requests for effects.
LEMMA QuietSteps ==
  ASSUME EvaluatorTypeOK, Evaluate \/ Leave
  PROVE  Quiet \/ \E hooks \in Hooks :
                    StartRun(hooks) \/ \E tries \in 0..MaxRetries : StartModel(hooks, tries)
<1> USE DEF EvaluatorTypeOK, StateOK
<1>1. ASSUME Literal \/ Open \/ MakeLambda \/ Reraise \/ AsyncWithFile
             \/ (\E n \in Name : Refer(n) \/ Assign(n)) \/ (\E e \in Error : Fail(e))
             \/ (\E method \in {"use", "close"} : FileMethod(method))
             \/ (\E how \in {"end", "break", "continue", "return"} : Exit(how))
      PROVE  Quiet
  BY <1>1 DEF Quiet, Literal, Open, MakeLambda, Reraise, AsyncWithFile, Refer, Assign, Fail, FileMethod,
              Exit, RaiseIt, steady
<1>2. ASSUME NEW f \in Frame, f.kind # "transition", Push(f), UNCHANGED <<steady, events>>
      PROVE  Quiet
  BY <1>2 DEF Quiet, Push, steady
<1>3. ASSUME CallLambda PROVE Quiet
  <2>1. [kind |-> "lambda"] \in Frame /\ [kind |-> "lambda"].kind = "lambda"
    BY NewFrames
  <2> QED BY <1>2, <1>3, <2>1 DEF CallLambda
<1>4. ASSUME Loop PROVE Quiet
  <2>1. [kind |-> "loop"] \in Frame /\ [kind |-> "loop"].kind = "loop"
    BY NewFrames
  <2> QED BY <1>2, <1>4, <2>1 DEF Loop
<1>5. ASSUME NEW a \in BOOLEAN, NEW n \in Name, CallFunction(a, n) PROVE Quiet
  <2> DEFINE f == [kind |-> "function", async |-> a]
  <2>1. f \in Frame /\ f.kind = "function"
    BY NewFrames
  <2>2. Push(f) /\ UNCHANGED <<steady, events>>
    BY <1>5 DEF CallFunction
  <2> HIDE DEF f
  <2> QED BY <1>2, <2>1, <2>2
<1>6. ASSUME NEW n \in Name \cup {None}, Try(n) PROVE Quiet
  <2> DEFINE f == [kind |-> "try", name |-> n]
  <2>1. f \in Frame /\ f.kind = "try"
    BY NewFrames
  <2>2. Push(f) /\ UNCHANGED <<steady, events>>
    BY <1>6 DEF Try
  <2> HIDE DEF f
  <2> QED BY <1>2, <2>1, <2>2
<1>7. ASSUME NEW n \in Name \cup {None}, WithFile(n) PROVE Quiet
  <2> DEFINE f == [kind |-> "with", resource |-> value]
  <2>1. f \in Frame /\ f.kind = "with"
    BY <1>7, NewFrames, NewValues DEF WithFile, ControlOK
  <2>2. Push(f) /\ UNCHANGED <<steady, events>>
    BY <1>7 DEF WithFile
  <2> HIDE DEF f
  <2> QED BY <1>2, <2>1, <2>2
<1>8. ASSUME NEW kind, kind \notin {"module", "transition"}, Leaving(kind) \/ (running /\ InnerKind = kind),
             UNCHANGED <<steady, events>>, frames' \in {frames, Pop(frames)}
      PROVE  Quiet
  <2>1. frames # <<>> /\ Top(frames).kind = kind
    BY <1>8, InnerIsTop DEF StacksOK, Leaving
  <2> QED BY <1>8, <2>1 DEF Quiet, steady
<1>9. ASSUME \/ LeaveLoop \/ LeaveHandler \/ LeaveWith \/ LeaveFunction \/ LeaveLambda
             \/ LeaveHook \/ LeaveHelper
      PROVE  Quiet
  <2>1. CASE LeaveLoop
    BY <1>8, <2>1 DEF LeaveLoop
  <2>2. CASE LeaveHandler
    BY <1>8, <2>2 DEF LeaveHandler
  <2>3. CASE LeaveWith
    BY <1>8, <2>3 DEF LeaveWith
  <2>4. CASE LeaveFunction
    BY <1>8, <2>4 DEF LeaveFunction
  <2>5. CASE LeaveLambda
    BY <1>8, <2>5 DEF LeaveLambda
  <2>6. CASE LeaveHook
    BY <1>8, <2>6 DEF LeaveHook
  <2>7. CASE LeaveHelper
    BY <1>8, <2>7 DEF LeaveHelper
  <2> QED BY <1>9, <2>1, <2>2, <2>3, <2>4, <2>5, <2>6, <2>7
<1>10. ASSUME LeaveTry PROVE Quiet
  <2>1. frames # <<>> /\ Top(frames).kind = "try" /\ Top(frames) \in Frame
    BY <1>10, InnerIsTop, Below DEF StacksOK, Leaving, LeaveTry
  <2> DEFINE h == [kind |-> "handler", name |-> Top(frames).name, error |-> error]
  <2>2. flow = "raise" => h \in Frame
    BY <2>1, FrameParts, NewFrames DEF ControlOK
  <2>3. h.kind = "handler"
    OBVIOUS
  <2>4. /\ UNCHANGED <<steady, events>>
        /\ frames' = Pop(frames) \/ (flow = "raise" /\ frames' = Append(Pop(frames), h))
    BY <1>10 DEF LeaveTry
  <2> HIDE DEF h
  <2> QED BY <2>1, <2>2, <2>3, <2>4 DEF Quiet, steady
<1>11. CASE Evaluate
  BY <1>11, <1>1, <1>3, <1>4, <1>5, <1>6, <1>7 DEF Evaluate
<1>12. CASE Leave
  BY <1>12, <1>9, <1>10 DEF Leave
<1> QED BY <1>11, <1>12

\* A helper is called on top of the run it observes.
LEMMA QuietHelper ==
  ASSUME EvaluatorTypeOK, NEW n \in Name, InvokeHelper(n)
  PROVE  Quiet
<1>1. [kind |-> "helper"] \in Frame /\ [kind |-> "helper"].kind = "helper"
  BY NewFrames
<1> QED BY <1>1 DEF InvokeHelper, Push, Quiet, steady

\* A request moved on keeps its id, its hooks, its effect and whether it was rejected.
LEMMA MovedOn ==
  ASSUME NEW f \in RequestFrame
  PROVE  /\ \A p \in Phases :
              LET g == [f EXCEPT !.phase = p] IN
              /\ g \in RequestFrame /\ g.phase = p
              /\ g.id = f.id /\ g.hooks = f.hooks /\ g.effect = f.effect /\ g.rejected = f.rejected
         /\ LET g == [f EXCEPT !.phase = "effect", !.rejected = TRUE] IN
              /\ g \in RequestFrame /\ g.phase = "effect"
              /\ g.id = f.id /\ g.hooks = f.hooks /\ g.effect = f.effect /\ g.rejected = TRUE
         /\ \A b \in BOOLEAN : LET g == [f EXCEPT !.phase = "done", !.failed = b] IN
              /\ g \in RequestFrame /\ g.phase = "done"
              /\ g.id = f.id /\ g.hooks = f.hooks /\ g.effect = f.effect
BY DEF RequestFrame, Phases

\* A hook is about to run: its transition waits for it.
LEMMA LogHooked ==
  ASSUME EvaluatorTypeOK, LogInv, NEW how,
         NEW before, NEW after, <<before, after>> \in {<<"start", "pre">>, <<"done", "post">>},
         InvokeHook(before, after, how)
  PROVE  LogInv'
<1> DEFINE f == Top(frames)
           g == [f EXCEPT !.phase = after]
           base == Pop(frames)
           one == Append(base, g)
<1>1. AtPhase(before) /\ UNCHANGED <<events, session, running>>
  BY DEF InvokeHook, steady
<1>2. after \in Phases /\ before # "observing" /\ after # "observing"
  BY DEF Phases
<1>3. /\ frames # <<>> /\ f \in RequestFrame /\ f.phase = before /\ base \in Seq(Frame)
      /\ \A q \in RequestFrame : q.id = f.id =>
           Requests(Append(base, q)) = Requests(base) \cup {q} /\ Ordered(Append(base, q))
  BY <1>1, AtRequest
<1>4. /\ g \in RequestFrame /\ g \in Frame /\ g.phase = after
      /\ g.id = f.id /\ g.hooks = f.hooks /\ g.effect = f.effect /\ g.rejected = f.rejected
  <2> HIDE DEF f
  <2> QED BY <1>2, <1>3, MovedOn, NewFrames
<1>5. Phase(after) = one
  <2>1. frames \in Seq(Frame)
    BY DEF EvaluatorTypeOK, StateOK, StacksOK
  <2> QED BY <1>2, <1>3, <2>1, PhaseIs
<1> HIDE DEF g
<1>6. one \in Seq(Frame) /\ Requests(one) = Requests(base) \cup {g} /\ Ordered(one)
  BY <1>3, <1>4, Pushed
<1> DEFINE Alike(fs) == Requests(fs) = Requests(base) \cup {g} /\ Ordered(fs)
<1> HIDE DEF one, base, f
<1>7. ASSUME NEW h \in Frame, h.kind = "hook" PROVE Append(one, h) \in Seq(Frame) /\ Alike(Append(one, h))
  BY <1>6, <1>7, RequestsPushed, Pushed
<1>8. ASSUME NEW h \in Frame, h.kind = "hook", NEW k \in Frame, k.kind # "transition"
      PROVE  Alike(one \o <<h, k>>)
  <2> DEFINE hs == Append(one, h)
  <2>1. hs \in Seq(Frame) /\ Alike(hs)
    BY <1>7, <1>8
  <2>2. one \o <<h, k>> = Append(hs, k)
    BY <1>6, <1>8, TwoPushed
  <2> HIDE DEF hs
  <2>3. Alike(Append(hs, k))
    BY <1>8, <2>1, RequestsPushed
  <2> QED BY <2>2, <2>3
<1>9. Alike(frames')
  <2> DEFINE h == [kind |-> "hook", named |-> how = "name"]
             k(body) == IF body = "lambda" THEN [kind |-> body] ELSE [kind |-> body, async |-> FALSE]
  <2>1. h \in Frame /\ h.kind = "hook"
    <3>1. (how = "name") \in BOOLEAN
      OBVIOUS
    <3> QED BY <3>1, NewFrames
  <2>2. \A body \in {"function", "lambda"} : k(body) \in Frame /\ k(body).kind # "transition"
    <3>1. k("lambda") = [kind |-> "lambda"] /\ k("function") = [kind |-> "function", async |-> FALSE]
      OBVIOUS
    <3> QED BY <3>1, NewFrames
  <2>3. \/ frames' = Append(one, h)
        \/ \E body \in {"function", "lambda"} : frames' = one \o <<h, k(body)>>
    BY <1>5 DEF InvokeHook
  <2> HIDE DEF h, k, Alike
  <2> QED BY <1>7, <1>8, <2>1, <2>2, <2>3
<1>10. \A start, last : Agrees(f, start, last) => Agrees(g, start, last)
  BY <1>3, <1>4 DEF Agrees
<1>11. UNCHANGED <<transitions, log, session, running>> /\ executed' = executed
  BY <1>1 DEF events
<1> QED BY <1>1, <1>2, <1>4, <1>9, <1>10, <1>11, LogReplaced DEF f, base

\* The process of a run has ended: helpers observe it, and the log has nothing yet.
LEMMA LogRan ==
  ASSUME EvaluatorTypeOK, LogInv, Run
  PROVE  LogInv'
<1> DEFINE f == Top(frames)
           g == [f EXCEPT !.phase = "observing"]
           base == Pop(frames)
<1>1. /\ AtPhase("effect") /\ f.effect = "run" /\ ~f.rejected
      /\ UNCHANGED <<transitions, log, session, running>>
      /\ executed' = executed \cup {f.id} /\ frames' = Phase("observing")
  BY DEF Run, steady
<1>2. /\ frames # <<>> /\ f \in RequestFrame /\ f.phase = "effect"
      /\ \A q \in RequestFrame : q.id = f.id =>
           Requests(Append(base, q)) = Requests(base) \cup {q} /\ Ordered(Append(base, q))
  BY <1>1, AtRequest
<1>3. "observing" \in Phases
  BY DEF Phases
<1>4. /\ g \in RequestFrame /\ g.phase = "observing"
      /\ g.id = f.id /\ g.hooks = f.hooks /\ g.effect = f.effect /\ g.rejected = f.rejected
  <2> HIDE DEF f
  <2> QED BY <1>2, <1>3, MovedOn
<1>5. frames' = Append(base, g)
  <2>1. frames \in Seq(Frame)
    BY DEF EvaluatorTypeOK, StateOK, StacksOK
  <2> QED BY <1>1, <1>2, <1>3, <2>1, PhaseIs
<1> HIDE DEF g, base, f
<1>6. Requests(frames') = Requests(base) \cup {g} /\ Ordered(frames')
  BY <1>2, <1>4, <1>5
<1>7. \A start, last : Agrees(f, start, last) => Agrees(g, start, last)
  BY <1>1, <1>2, <1>4 DEF Agrees, Due, Passed
<1>8. executed' = executed \cup IF g.phase = "observing" THEN {g.id} ELSE {}
  BY <1>1, <1>4
<1> QED BY <1>1, <1>4, <1>6, <1>7, <1>8, LogReplaced DEF f, base

\* What the pre hook said is logged, and the effect waits or is given up.
LEMMA LogDecided ==
  ASSUME EvaluatorTypeOK, LogInv, Decide
  PROVE  LogInv'
<1> DEFINE f == Top(frames)
           g == [f EXCEPT !.phase = "effect"]
           r == [f EXCEPT !.phase = "effect", !.rejected = TRUE]
           e(ok, rejected) == [id |-> f.id, phase |-> "pre", ok |-> ok, rejected |-> rejected]
<1>1. AtPhase("pre") /\ UNCHANGED <<transitions, executed, session, running>>
  BY DEF Decide, steady
<1>2. frames # <<>> /\ f \in RequestFrame /\ f.phase = "pre" /\ f.id \in Nat
  BY <1>1, AtRequest
<1>3. \A start, last : Agrees(f, start, last) =>
        /\ last.phase = "start" /\ f.hooks.pre # None /\ ~f.rejected
        /\ start.effect = f.effect /\ start.hooks = f.hooks
  BY <1>2 DEF Agrees
<1>4. ASSUME NEW a \in BOOLEAN, NEW b \in BOOLEAN
      PROVE  /\ e(a, b) \in Logged /\ e(a, b).phase = "pre" /\ e(a, b).id = f.id
             /\ e(a, b).ok = a /\ e(a, b).rejected = b
  BY <1>2, NewEvents DEF Logged
<1>5. /\ Event("pre", FALSE) = e(FALSE, FALSE) /\ Event("pre", TRUE) = e(TRUE, FALSE)
      /\ [Event("pre", FALSE) EXCEPT !.rejected = TRUE] = e(FALSE, TRUE)
  BY EventIs
<1>6. "effect" \in Phases
  BY DEF Phases
<1>7. /\ g \in RequestFrame /\ g.phase = "effect"
      /\ g.id = f.id /\ g.hooks = f.hooks /\ g.effect = f.effect /\ g.rejected = f.rejected
      /\ r \in RequestFrame /\ r.phase = "effect"
      /\ r.id = f.id /\ r.hooks = f.hooks /\ r.effect = f.effect /\ r.rejected = TRUE
  <2> HIDE DEF f
  <2> QED BY <1>2, <1>6, MovedOn
<1>8. /\ Phase("effect") = Append(Pop(frames), g)
      /\ [frames EXCEPT ![Len(frames)] = [@ EXCEPT !.phase = "effect", !.rejected = TRUE]]
           = Append(Pop(frames), r)
  <2>1. frames \in Seq(Frame)
    BY DEF EvaluatorTypeOK, StateOK, StacksOK
  <2>2. Phase("effect") = Append(Pop(frames), g)
    BY <1>2, <1>6, <2>1, PhaseIs
  <2>3. [frames EXCEPT ![Len(frames)] = [@ EXCEPT !.phase = "effect", !.rejected = TRUE]]
          = [frames EXCEPT ![Len(frames)] = r]
    BY DEF Top
  <2>4. [frames EXCEPT ![Len(frames)] = r] = Append(Pop(frames), r)
    <3> HIDE DEF r
    <3> QED BY <1>2, <1>7, <2>1, TopReplaced, NewFrames
  <2> QED BY <2>2, <2>3, <2>4
<1>9. \/ log' = Append(log, e(FALSE, FALSE)) /\ frames' = Pop(frames)
      \/ log' = Append(log, e(TRUE, FALSE)) /\ frames' = Append(Pop(frames), g)
      \/ log' = Append(log, e(FALSE, TRUE)) /\ frames' = Append(Pop(frames), r)
  BY <1>5, <1>8 DEF Decide
<1>10. ASSUME NEW a \in BOOLEAN, NEW b \in BOOLEAN, log' = Append(log, e(a, b)),
              \/ frames' = Pop(frames) /\ a = FALSE /\ b = FALSE
              \/ \E q \in RequestFrame :
                   /\ frames' = Append(Pop(frames), q) /\ q.id = f.id /\ q.phase = "effect"
                   /\ \A start, last : Agrees(f, start, last) =>
                        /\ start.effect = q.effect /\ start.hooks = q.hooks
                        /\ a = ~q.rejected /\ b = q.rejected
       PROVE  LogInv'
  <2> DEFINE event == e(a, b)
  <2>1. /\ event \in Logged /\ event.phase = "pre" /\ event.id = f.id
        /\ event.ok = a /\ event.rejected = b /\ log' = Append(log, event)
    BY <1>4, <1>10
  <2> HIDE DEF event, e, g, r, f
  <2>2. \A start, last : Agrees(f, start, last) => MayFollow(start, last, event)
    BY <1>3, <2>1 DEF MayFollow
  <2>3. executed' = executed \cup IF event.phase = "effect" /\ ~event.skipped THEN {event.id} ELSE {}
    BY <1>1, <2>1
  <2>4. \/ /\ frames' = Pop(frames)
           /\ \A start, last : Agrees(f, start, last) => Complete(start, event)
        \/ \E q \in RequestFrame :
             /\ frames' = Append(Pop(frames), q) /\ q.id = event.id /\ q.phase # "observing"
             /\ \A start, last : Agrees(f, start, last) => Agrees(q, start, event)
    <3>1. CASE frames' = Pop(frames) /\ a = FALSE /\ b = FALSE
      <4>1. \A start : Complete(start, event)
        BY <2>1, <3>1 DEF Complete, Passed, Rejected
      <4> QED BY <3>1, <4>1
    <3>2. ASSUME NEW q \in RequestFrame, frames' = Append(Pop(frames), q), q.id = f.id, q.phase = "effect",
                 \A start, last : Agrees(f, start, last) =>
                   /\ start.effect = q.effect /\ start.hooks = q.hooks
                   /\ a = ~q.rejected /\ b = q.rejected
          PROVE  /\ q.id = event.id /\ q.phase # "observing"
                 /\ \A start, last : Agrees(f, start, last) => Agrees(q, start, event)
      <4>1. ASSUME NEW start, NEW last, Agrees(f, start, last) PROVE Agrees(q, start, event)
        <5>1. start.effect = q.effect /\ start.hooks = q.hooks /\ a = ~q.rejected /\ b = q.rejected
          BY <3>2, <4>1
        <5> QED BY <2>1, <3>2, <5>1 DEF Agrees
      <4> QED BY <2>1, <3>2, <4>1
    <3> QED BY <1>10, <3>1, <3>2
  <2> QED BY <1>1, <2>1, <2>2, <2>3, <2>4, LogFollows DEF f
<1> HIDE DEF e, g, r, f
<1>11. CASE log' = Append(log, e(FALSE, FALSE)) /\ frames' = Pop(frames)
  BY <1>10, <1>11
<1>12. CASE log' = Append(log, e(TRUE, FALSE)) /\ frames' = Append(Pop(frames), g)
  <2>1. g.rejected \in BOOLEAN
    BY <1>7 DEF RequestFrame
  <2>2. \A start, last : Agrees(f, start, last) =>
          /\ start.effect = g.effect /\ start.hooks = g.hooks
          /\ TRUE = ~g.rejected /\ FALSE = g.rejected
    BY <1>3, <1>7, <2>1
  <2> QED BY <1>7, <1>10, <1>12, <2>2
<1>13. CASE log' = Append(log, e(FALSE, TRUE)) /\ frames' = Append(Pop(frames), r)
  <2>1. \A start, last : Agrees(f, start, last) =>
          /\ start.effect = r.effect /\ start.hooks = r.hooks
          /\ FALSE = ~r.rejected /\ TRUE = r.rejected
    BY <1>3, <1>7
  <2> QED BY <1>7, <1>10, <1>13, <2>1
<1> QED BY <1>9, <1>11, <1>12, <1>13

\* The transition on top has come as far as the log says.
LEMMA TopAgrees ==
  ASSUME EvaluatorTypeOK, LogInv, NEW p, AtPhase(p)
  PROVE  /\ \E start, last : Agrees(Top(frames), start, last)
         /\ p = "observing" => Top(frames).id \in executed
<1> DEFINE f == Top(frames)
           rs == Requests(Pop(frames))
<1>1. f.phase = p /\ Requests(frames) = rs \cup {f}
  BY AtRequest
<1>2. Accounted(Requests(frames), log) /\ executed = Executed(log) \cup Watched(Requests(frames))
  BY DEF LogInv
<1> HIDE DEF f, rs
<1>3. \E k \in 1..Len(log) : Agrees(f, Begun(log, log[k]), log[k])
  BY <1>1, <1>2 DEF Accounted
<1>4. p = "observing" => f.id \in executed
  BY <1>1, <1>2, WatchedPushed
<1> QED BY <1>3, <1>4 DEF f

\* The end of an effect is logged, as executed or in the place of one that was
\* rejected.
LEMMA LogOutcome ==
  ASSUME EvaluatorTypeOK, LogInv, NEW failed \in BOOLEAN, NEW p \in {"effect", "observing"},
         AtPhase(p), Outcome(failed),
         p = "observing" => UNCHANGED executed,
         p = "effect" => executed' = IF Top(frames).rejected THEN executed
                                     ELSE executed \cup {Top(frames).id}
  PROVE  LogInv'
<1> DEFINE f == Top(frames)
           g == [f EXCEPT !.phase = "done", !.failed = failed]
           e == [id |-> f.id, phase |-> "effect", skipped |-> f.rejected]
<1>1. frames # <<>> /\ f \in RequestFrame /\ f.phase = p /\ f.id \in Nat
  BY AtRequest
<1>2. f.rejected \in BOOLEAN
  BY <1>1 DEF RequestFrame
<1>3. p = "observing" => ~f.rejected /\ f.id \in executed
  <2>1. PICK start, last : Agrees(f, start, last)
    BY TopAgrees
  <2>2. f.phase = "observing" => ~f.rejected
    BY <2>1 DEF Agrees
  <2> QED BY <1>1, <2>2, TopAgrees
<1>4. e \in Logged /\ e.phase = "effect" /\ e.id = f.id /\ e.skipped = f.rejected
  <2> HIDE DEF f
  <2> QED BY <1>1, <1>2, NewEvents DEF Logged
<1>5. /\ g \in RequestFrame /\ g.phase = "done"
      /\ g.id = f.id /\ g.hooks = f.hooks /\ g.effect = f.effect
  <2> HIDE DEF f
  <2> QED BY <1>1, MovedOn
<1>6. /\ log' = Append(log, e) /\ UNCHANGED <<transitions, session, running>>
      /\ frames' = IF f.hooks.post = None THEN Pop(frames) ELSE [frames EXCEPT ![Len(frames)] = g]
  BY DEF Outcome, Top, steady
<1> HIDE DEF e, g
<1>7. [frames EXCEPT ![Len(frames)] = g] = Append(Pop(frames), g)
  <2>1. frames \in Seq(Frame)
    BY DEF EvaluatorTypeOK, StateOK, StacksOK
  <2> QED BY <1>1, <1>5, <2>1, TopReplaced, NewFrames
<1> HIDE DEF f
<1>8. ASSUME NEW start, NEW last, Agrees(f, start, last)
      PROVE  /\ MayFollow(start, last, e)
             /\ f.hooks.post = None => Complete(start, e)
             /\ f.hooks.post # None => Agrees(g, start, e)
  <2>1. IF f.rejected THEN Rejected(last) ELSE Due(start, last)
    <3>1. CASE p = "effect"
      BY <1>1, <1>2, <1>8, <3>1 DEF Agrees, Rejected, Due, Passed
    <3>2. CASE p = "observing"
      BY <1>1, <1>3, <1>8, <3>2 DEF Agrees
    <3> QED BY <3>1, <3>2
  <2>2. MayFollow(start, last, e)
    BY <1>4, <2>1 DEF MayFollow
  <2>3. start.effect = f.effect /\ start.hooks = f.hooks
    BY <1>8 DEF Agrees
  <2>4. f.hooks.post = None => Complete(start, e)
    BY <1>4, <2>3 DEF Complete
  <2>5. f.hooks.post # None => Agrees(g, start, e)
    BY <1>4, <1>5, <2>3 DEF Agrees
  <2> QED BY <2>2, <2>4, <2>5
<1>9. executed' = executed \cup IF e.phase = "effect" /\ ~e.skipped THEN {e.id} ELSE {}
  <2>1. CASE p = "effect"
    BY <1>4, <2>1 DEF f
  <2>2. CASE p = "observing"
    BY <1>3, <1>4, <2>2
  <2> QED BY <2>1, <2>2
<1>10. \/ /\ frames' = Pop(frames)
          /\ \A start, last : Agrees(f, start, last) => Complete(start, e)
       \/ \E q \in RequestFrame :
            /\ frames' = Append(Pop(frames), q) /\ q.id = e.id /\ q.phase # "observing"
            /\ \A start, last : Agrees(f, start, last) => Agrees(q, start, e)
  <2>1. CASE f.hooks.post = None
    BY <1>6, <1>8, <2>1
  <2>2. CASE f.hooks.post # None
    <3>1. frames' = Append(Pop(frames), g) /\ g.id = e.id /\ g.phase # "observing"
      BY <1>4, <1>5, <1>6, <1>7, <2>2
    <3>2. \A start, last : Agrees(f, start, last) => Agrees(g, start, e)
      BY <1>8, <2>2
    <3> QED BY <1>5, <3>1, <3>2
  <2> QED BY <2>1, <2>2
<1>11. \A start, last : Agrees(f, start, last) => MayFollow(start, last, e)
  BY <1>8
<1>12. p = "observing" => e.phase = "effect" /\ ~e.skipped
  BY <1>3, <1>4
<1> QED BY <1>4, <1>6, <1>9, <1>10, <1>11, <1>12, LogFollows DEF f

\* Effects in one step, and those that helpers observed.
LEMMA LogEffect ==
  ASSUME EvaluatorTypeOK, LogInv, Observe \/ \E failed \in BOOLEAN : Effect(failed)
  PROVE  LogInv'
<1>1. CASE Observe
  <2>1. AtPhase("observing") /\ Outcome(FALSE) /\ UNCHANGED executed
    BY <1>1 DEF Observe
  <2> QED BY <2>1, LogOutcome
<1>2. ASSUME NEW failed \in BOOLEAN, Effect(failed) PROVE LogInv'
  <2>1. /\ AtPhase("effect") /\ Outcome(failed)
        /\ executed' = IF Top(frames).rejected THEN executed ELSE executed \cup {Top(frames).id}
    BY <1>2 DEF Effect
  <2> QED BY <2>1, LogOutcome
<1> QED BY <1>1, <1>2

\* The post hook completes its transition.
LEMMA LogConcluded ==
  ASSUME EvaluatorTypeOK, LogInv, Conclude
  PROVE  LogInv'
<1> DEFINE f == Top(frames)
           ok == flow # "raise"
           e == Event("post", ok)
<1>1. AtPhase("post") /\ UNCHANGED <<transitions, session, running, executed>>
  BY DEF Conclude, steady
<1>2. f \in RequestFrame /\ f.phase = "post" /\ f.id \in Nat
  BY <1>1, AtRequest
<1>3. e \in Logged /\ e.phase = "post" /\ e.id = f.id
  <2>1. ok \in BOOLEAN
    OBVIOUS
  <2>2. e = [id |-> f.id, phase |-> "post", ok |-> ok, rejected |-> FALSE]
    BY EventIs
  <2> HIDE DEF ok, e
  <2> QED BY <1>2, <2>1, <2>2, NewEvents DEF Logged
<1>4. log' = Append(log, e) /\ frames' = Pop(frames)
  BY DEF Conclude
<1> HIDE DEF e, f
<1>5. \A start, last : Agrees(f, start, last) => MayFollow(start, last, e) /\ Complete(start, e)
  BY <1>2, <1>3 DEF Agrees, MayFollow, Complete
<1>6. executed' = executed \cup IF e.phase = "effect" /\ ~e.skipped THEN {e.id} ELSE {}
  BY <1>1, <1>3
<1> QED BY <1>1, <1>3, <1>4, <1>5, <1>6, LogFollows DEF f

\* run() and model requests are logged when they start; a refused one is not.
LEMMA LogEvaluates ==
  ASSUME EvaluatorTypeOK, NestInv', LogInv, NEW hooks \in Hooks,
         StartRun(hooks) \/ \E tries \in 0..MaxRetries : StartModel(hooks, tries)
  PROVE  LogInv'
<1>1. frames \in Seq(Frame) /\ Ordered(frames)
  BY DEF EvaluatorTypeOK, StateOK, StacksOK, LogInv
<1>2. UNCHANGED <<running, session, executed>> /\ running
  BY DEF StartRun, StartModel, Expression, steady
<1>3. CASE UNCHANGED <<frames, transitions, log>>
  BY <1>1, <1>2, <1>3, LogStays DEF events
<1>4. ASSUME StartRun(hooks), ~UNCHANGED <<frames, transitions, log>> PROVE LogInv'
  <2>1. /\ frames' = Append(frames, Request("run", hooks, transitions + 1))
        /\ transitions' = transitions + 1 /\ log' = Append(log, Start("run", hooks, transitions + 1))
    BY <1>4 DEF StartRun, Push
  <2> QED BY <1>1, <1>2, <2>1, LogStarts
<1>5. ASSUME NEW tries \in 0..MaxRetries, StartModel(hooks, tries), ~UNCHANGED <<frames, transitions, log>>
      PROVE  LogInv'
  <2> DEFINE d == [kind |-> "infer", tries |-> tries, hooks |-> hooks]
             e == Request("model", hooks, transitions + 1)
             fs == Append(frames, d)
  <2>1. d \in Frame /\ d.kind = "infer" /\ e \in Frame
    BY NewFrames, EvaluatorAssumption DEF EvaluatorTypeOK, StateOK, EventsOK
  <2>2. /\ frames' = frames \o <<d, e>>
        /\ transitions' = transitions + 1 /\ log' = Append(log, Start("model", hooks, transitions + 1))
    BY <1>5 DEF StartModel
  <2> HIDE DEF d
  <2>3. frames' = Append(fs, e)
    <3> HIDE DEF e
    <3> QED BY <1>1, <2>1, <2>2, TwoPushed
  <2>4. fs \in Seq(Frame) /\ Requests(fs) = Requests(frames) /\ Ordered(fs)
    BY <1>1, <2>1, Pushed, RequestsPushed
  <2>5. frames' = Append(fs, Request("model", hooks, transitions + 1))
    BY <2>3
  <2> HIDE DEF fs
  <2> QED BY <1>2, <2>2, <2>4, <2>5, LogStarts
<1> QED BY <1>3, <1>4, <1>5

\* An answer that is asked for again is a transition of its own.
LEMMA LogAnswered ==
  ASSUME EvaluatorTypeOK, NestInv', LogInv, Respond
  PROVE  LogInv'
<1> DEFINE base == Pop(frames)
           top == Top(frames)
<1>1. UNCHANGED <<running, session, executed>> /\ running /\ Ordered(frames)
  BY DEF Respond, steady, LogInv
<1>2. frames # <<>> /\ top.kind = "infer" /\ frames \in Seq(Frame)
  BY InnerIsTop DEF Respond, EvaluatorTypeOK, StateOK, StacksOK
<1>3. base \in Seq(Frame) /\ top \in Frame /\ frames = Append(base, top)
  BY <1>2, Below
<1>4. Requests(base) = Requests(frames) /\ Ordered(base)
  <2> HIDE DEF base, top
  <2>1. Requests(Append(base, top)) = Requests(base) /\ (Ordered(Append(base, top)) <=> Ordered(base))
    BY <1>2, <1>3, RequestsPushed
  <2> QED BY <1>1, <1>3, <2>1
<1>5. CASE frames' = base /\ UNCHANGED <<transitions, log>>
  BY <1>1, <1>4, <1>5, LogStays DEF events
<1>6. ASSUME /\ top.tries > 0
             /\ frames' = Append([frames EXCEPT ![Len(frames)].tries = @ - 1],
                                 Request("model", top.hooks, transitions + 1))
             /\ transitions' = transitions + 1
             /\ log' = Append(log, Start("model", top.hooks, transitions + 1))
      PROVE  LogInv'
  <2> DEFINE again == [top EXCEPT !.tries = @ - 1]
             fs == Append(base, again)
  <2>1. again \in Frame /\ again.kind = "infer" /\ [frames EXCEPT ![Len(frames)].tries = @ - 1] = fs
    BY <1>2, <1>6, AskedAgain
  <2>2. fs \in Seq(Frame) /\ Requests(fs) = Requests(frames) /\ Ordered(fs)
    <3> HIDE DEF again, base
    <3> QED BY <1>3, <1>4, <2>1, Pushed, RequestsPushed
  <2>3. top.hooks \in Hooks
    BY <1>2, <1>3, FrameParts
  <2>4. frames' = Append(fs, Request("model", top.hooks, transitions + 1))
    BY <1>6, <2>1
  <2> HIDE DEF fs, top
  <2> QED BY <1>1, <1>6, <2>2, <2>3, <2>4, LogStarts
<1> QED BY <1>5, <1>6 DEF Respond

\* The log stays whole.
LEMMA LogStep ==
  ASSUME EvaluatorTypeOK, NestInv, NestInv', LogInv, [Next]_vars
  PROVE  LogInv'
<1>0. Ordered(frames) /\ (running \/ session.transitions = transitions)
  BY DEF LogInv
<1>1. CASE UNCHANGED vars
  <2>1. UNCHANGED <<running, session, frames, log, transitions, executed>>
    BY <1>1 DEF vars, steady, control, events
  <2> QED BY <1>0, <2>1, LogStays DEF events
<1>2. CASE Begin
  <2>1. /\ ~running /\ running' /\ frames' = <<>> /\ transitions' = session.transitions
        /\ UNCHANGED <<log, executed>>
    BY <1>2 DEF Begin
  <2>2. frames = <<>> /\ session.transitions = transitions
    BY <1>0, <2>1 DEF NestInv
  <2>3. UNCHANGED events /\ UNCHANGED frames
    BY <2>1, <2>2 DEF events
  <2> QED BY <1>0, <2>1, <2>3, LogStays
<1>3. CASE Finish
  <2>1. session' = Carried /\ UNCHANGED <<frames, events>>
    BY <1>3 DEF Finish
  <2>2. session'.transitions = transitions
    BY <2>1 DEF Carried
  <2> QED BY <1>0, <2>1, <2>2, LogStays
<1>4. CASE Quiet
  <2>1. Requests(frames') = Requests(frames) /\ Ordered(frames')
    BY <1>0, <1>4, QuietRequests
  <2>2. UNCHANGED <<events, session, running, transitions>>
    BY <1>4 DEF Quiet, events
  <2> QED BY <1>0, <2>1, <2>2, LogStays
<1>5. CASE Evaluate \/ Leave
  BY <1>4, <1>5, QuietSteps, LogEvaluates
<1>6. CASE Transition
  <2>1. CASE InvokePre
    <3> DEFINE how == Top(frames).hooks.pre
    <3>1. InvokeHook("start", "pre", how)
      BY <2>1 DEF InvokePre
    <3> HIDE DEF how
    <3> QED BY <3>1, LogHooked
  <2>2. CASE InvokePost
    <3> DEFINE how == Top(frames).hooks.post
    <3>1. InvokeHook("done", "post", how)
      BY <2>2 DEF InvokePost
    <3> HIDE DEF how
    <3> QED BY <3>1, LogHooked
  <2>3. ASSUME NEW n \in Name, InvokeHelper(n) PROVE LogInv'
    BY <1>4, <2>3, QuietHelper
  <2> QED BY <1>6, <2>1, <2>2, <2>3, LogAnswered, LogDecided, LogRan, LogEffect, LogConcluded DEF Transition
<1> QED BY <1>1, <1>2, <1>3, <1>5, <1>6 DEF Next

-----------------------------------------------------------------------------
(* The theorems.                                                           *)

Inv == EvaluatorTypeOK /\ NestInv /\ TallyInv /\ FileInv /\ ManagedInv /\ LogInv

\* The invariant holds before the first evaluation.
LEMMA EvaluatorInit ==
  Init => Inv
<1> SUFFICES ASSUME Init PROVE Inv
  OBVIOUS
<1>1. Len(scopes) = 0 /\ Len(log) = 0 /\ \A kind : At(frames, kind) = {}
  BY EmptySeq, EmptyStack DEF Init
<1>2. NoLocals \in [Name -> Value \cup {None}]
  BY NewLocals
<1>3. EvaluatorTypeOK
  <2>1. ControlOK /\ CountersOK /\ FilesOK
    <3>1. ControlOK
      BY NewValues DEF Init, ControlOK
    <3>2. CountersOK
      <4>1. running = FALSE /\ hooking = FALSE /\ asyncs = 0 /\ evaluations = 0
        BY DEF Init
      <4>2. running \in BOOLEAN /\ hooking \in BOOLEAN
        BY <4>1, Zenon
      <4>3. asyncs \in Int /\ evaluations \in Nat
        BY <4>1
      <4> QED BY <4>2, <4>3 DEF CountersOK
    <3>3. FilesOK
      BY DEF Init, FilesOK
    <3> QED BY <3>1, <3>2, <3>3
  <2>2. StacksOK /\ EventsOK
    BY EmptySeq DEF Init, StacksOK, EventsOK
  <2>3. SessionOK
    BY <1>2 DEF Init, SessionOK
  <2>4. steps \in Nat
    BY DEF Init
  <2> QED BY <2>1, <2>2, <2>3, <2>4 DEF EvaluatorTypeOK, StateOK
<1>4. NestInv
  BY <1>1, EmptyStack DEF Init, NestInv
<1>5. TallyInv
  BY DEF Init, TallyInv
<1>6. FileInv
  <2>1. Known = {}
    <3>1. HandlesIn(value) = {}
      BY HandlesOf DEF Init
    <3>2. ScopeHandles(scopes) = {} /\ FrameHandles(frames) = {}
      BY <1>1 DEF ScopeHandles, FrameHandles
    <3> QED BY <3>1, <3>2 DEF Known
  <2>2. \A n \in Name : session.locals[n] = None
    BY NewLocals DEF Init
  <2> QED BY <1>1, <2>1, <2>2, HandlesOf DEF FileInv
<1>7. ManagedInv
  BY <1>1 DEF Init, ManagedInv
<1>8. LogInv
  <2>1. Executed(log) = {} /\ Chained(log) /\ \A k \in 1..Len(log) : FALSE
    BY <1>1 DEF Executed, Chained
  <2>2. Requests(frames) = {} /\ Ordered(frames)
    BY <1>1 DEF Requests, Ordered
  <2>3. Watched({}) = {} /\ Accounted({}, log)
    BY <2>1 DEF Watched, Accounted
  <2> QED BY <2>1, <2>2, <2>3 DEF Init, LogInv
<1> QED BY <1>3, <1>4, <1>5, <1>6, <1>7, <1>8 DEF Inv

\* Every step keeps it: each part from its own lemma.
LEMMA EvaluatorStep ==
  Inv /\ [Next]_vars => Inv'
<1> SUFFICES ASSUME Inv, [Next]_vars PROVE Inv'
  OBVIOUS
<1>1. EvaluatorTypeOK /\ NestInv /\ TallyInv /\ FileInv /\ ManagedInv /\ LogInv
  BY DEF Inv
<1>2. running => scopes # <<>>
  BY <1>1, RootScope
<1>3. EvaluatorTypeOK' /\ NestInv'
  BY <1>1, <1>2, TypeStep, NestStep
<1>4. TallyInv' /\ FileInv' /\ ManagedInv'
  BY <1>1, <1>2, TallyStep, FileStep, ManagedStep
<1>5. LogInv'
  BY <1>1, <1>3, LogStep
<1> QED BY <1>3, <1>4, <1>5 DEF Inv

\* The inductive invariant holds of every evaluation of every session: what the
\* evaluator carries along is of its type, and agrees with the constructs it is
\* evaluating.
THEOREM EvaluatorInvariant ==
  Spec => []Inv
BY EvaluatorInit, EvaluatorStep, PTL DEF Spec

\* Flows, values, scopes, transitions and the log are what eval_stmt(), eval_expr()
\* and invoke_transition() take them to be.
THEOREM EvaluatorTypes ==
  Spec => []EvaluatorTypeOK
BY EvaluatorInvariant, PTL DEF Inv

\* However control leaves a construct, eval_block() and its callers find the scopes,
\* the errors caught, the async depth and the hook flag as they were set up for the
\* constructs that are left on the stack.
THEOREM StacksAgree ==
  Spec => []StateMatchesFrames
<1>1. Inv => StateMatchesFrames
  BY DEF Inv, NestInv, TallyInv, Tallied, StateMatchesFrames
<1> QED BY <1>1, EvaluatorInvariant, PTL

\* file_mut() finds the file a handle was opened for, or none: no handle outlives its
\* scope into another one with a file of the same number, nor its evaluation.
THEOREM HandlesAreRight ==
  Spec => []HandlesReachTheirFile
<1>1. Inv => HandlesReachTheirFile
  <2> SUFFICES ASSUME Inv,
                      NEW h \in HandlesIn(value) \cup
                        UNION {UNION {HandlesIn(scopes[i].locals[n]) : n \in Name} : i \in 1..Len(scopes)},
                      NEW f \in FileOf(h)
               PROVE  f.file = h.file
    BY DEF HandlesReachTheirFile
  <2>1. h \in Known
    BY DEF Known, ScopeHandles
  <2>2. h \in Handle
    BY <2>1, KnownAreHandles DEF Inv
  <2>3. h.scope \in Nat \ {0} /\ h.scope <= Len(scopes) /\ f \in scopes[h.scope].files /\ f.id = h.id
    BY <2>2, NewValues DEF FileOf
  <2>4. h.scope \in 1..Len(scopes)
    BY <2>3, LenProperties DEF Inv, EvaluatorTypeOK, StateOK, StacksOK
  <2> QED BY <2>1, <2>3, <2>4 DEF Inv, FileInv
<1> QED BY <1>1, EvaluatorInvariant, PTL

\* close_with_resource() leaves no file of a with statement open behind it.
THEOREM ManagedFilesClose ==
  Spec => []ManagedFilesAreClosed
<1>1. Inv => ManagedFilesAreClosed
  <2> SUFFICES ASSUME Inv, NEW i \in 1..Len(scopes), NEW f \in scopes[i].files, f.open, f.file \in managed
               PROVE  \E k \in 1..Len(frames) : frames[k].kind = "with" /\ frames[k].resource.file = f.file
    BY DEF ManagedFilesAreClosed
  <2>1. frames \in Seq(Frame)
    BY DEF Inv, EvaluatorTypeOK, StateOK, StacksOK
  <2>2. DOMAIN frames = 1..Len(frames)
    BY <2>1, LenProperties
  <2> QED BY <2>2 DEF Inv, ManagedInv, Entered, At
<1> QED BY <1>1, EvaluatorInvariant, PTL

\* invoke_transition() logs each transition whole, and runs its effect exactly when
\* the hook before it let it pass, though the helpers that observe a run start others
\* inside it.
THEOREM TransitionsStayWhole ==
  Spec => []TransitionsAreWhole
<1>1. Inv => TransitionsAreWhole
  <2> SUFFICES ASSUME Inv PROVE TransitionsAreWhole
    OBVIOUS
  <2>1. /\ \A i \in 1..Len(log) : InPlace(log, i)
        /\ Accounted(Requests(frames), log)
        /\ executed = Executed(log) \cup Watched(Requests(frames))
    BY DEF Inv, LogInv, Chained
  <2>2. Observed(frames) = Watched(Requests(frames))
    BY DEF Observed, Watched, Requests
  <2>3. ASSUME ~running, NEW k \in 1..Len(log), Latest(log, k, Len(log) + 1) PROVE Ended(log, k)
    <3>1. Requests(frames) = {}
      BY <2>3, EmptyStack DEF Inv, NestInv, Requests
    <3>2. log \in Seq(Logged)
      BY DEF Inv, EvaluatorTypeOK, StateOK, EventsOK, Logged
    <3>3. Final(log, k)
      BY <2>3, <3>2, FinalIs
    <3> QED BY <2>1, <3>1, <3>3 DEF Accounted
  <2> QED BY <2>1, <2>2, <2>3 DEF TransitionsAreWhole
<1> QED BY <1>1, EvaluatorInvariant, PTL
=============================================================================
