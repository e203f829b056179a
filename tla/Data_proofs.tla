----------------------------- MODULE Data_proofs -----------------------------
(***************************************************************************)
(* Proofs about what a program computes with its data.  LoopVm: a loop     *)
(* ends with what the interpreter computes, however long it is and         *)
(* wherever the VM gives it back.  JsonlKernel: so does a loop over the    *)
(* rows of files, which a kernel may run for the VM.  Files: however a     *)
(* path is spelled, a tool keeps to the roots it may use, and every change *)
(* is told.                                                                *)
(***************************************************************************)
EXTENDS LoopVm, JsonlKernel, Files, SequenceTheorems, WellFoundedInduction, TLAPS

-----------------------------------------------------------------------------
(***************************************************************************)
(* Recursive functions.                                                    *)
(***************************************************************************)
\* A set of naturals that is not empty has a least one.
LEMMA LeastExists ==
    ASSUME NEW S, S \subseteq Nat, S # {}
    PROVE  \E m \in S : \A n \in S : m <= n
<1> DEFINE below == OpToRel(<, Nat)
<1>1. PICK m \in S : \A n \in S : <<n, m>> \notin below
  BY NatLessThanWellFounded, WFMin
<1>2. \A n \in S : n < m => <<n, m>> \in below
  BY DEF OpToRel
<1> HIDE DEF below
<1>3. ASSUME NEW n \in S PROVE m <= n
  <2>1. m \in Nat /\ n \in Nat /\ ~(n < m)
    BY <1>1, <1>2
  <2>. QED  BY <2>1
<1>. QED  BY <1>3

\* A set that has 0, and with a number the next, up to a last one, has all of them.
LEMMA UpTo ==
    ASSUME NEW S, NEW last \in Nat, 0 \in S, \A n \in 0..(last - 1) : n \in S => n + 1 \in S
    PROVE  0..last \subseteq S
<1> DEFINE bad == {n \in 0..last : n \notin S}
<1> SUFFICES ASSUME bad # {} PROVE FALSE
  OBVIOUS
<1>1. PICK n \in bad : \A m \in bad : n <= m
  <2>1. bad \subseteq Nat
    OBVIOUS
  <2> HIDE DEF bad
  <2>. QED  BY <2>1, LeastExists
<1>2. n \in 0..last /\ n \notin S /\ n # 0
  BY <1>1
<1>3. n - 1 \in 0..last /\ n - 1 \in 0..(last - 1) /\ (n - 1) + 1 = n /\ ~(n <= n - 1)
  BY <1>2
<1>4. n - 1 \in S
  BY <1>1, <1>3
<1>. QED  BY <1>2, <1>3, <1>4

\* A definition of each value from those before it has a function that meets it,
\* where the values are known: how gets the number and any function that is right
\* below it.
Definition(how, V, last) ==
    /\ V # {} /\ last \in Nat /\ how \in [0..last -> [[0..last -> V] -> V]]
    /\ \A n \in 0..last, f, g \in [0..last -> V] :
         (\A k \in 0..(n - 1) : f[k] = g[k]) => how[n][f] = how[n][g]
Meets(f, how, V, last) == f \in [0..last -> V] /\ \A n \in 0..last : f[n] = how[n][f]
LEMMA CourseOfValues ==
    ASSUME NEW V, NEW last, NEW how, Definition(how, V, last)
    PROVE  \E f : Meets(f, how, V, last)
<1> USE DEF Definition
<1> DEFINE S == {m \in Nat : \E f \in [0..last -> V] : \A n \in 0..m : f[n] = how[n][f]}
<1>1. ASSUME NEW m \in -1..(last - 1), NEW f \in [0..last -> V],
             \A n \in 0..m : f[n] = how[n][f]
      PROVE  \E g \in [0..last -> V] : \A n \in 0..(m + 1) : g[n] = how[n][g]
  <2> DEFINE g == [f EXCEPT ![m + 1] = how[m + 1][f]]
  <2>1. m + 1 \in 0..last
    OBVIOUS
  <2>2. how[m + 1][f] \in V
    BY <2>1
  <2>3. g \in [0..last -> V] /\ g[m + 1] = how[m + 1][f]
    BY <2>1, <2>2
  <2>4. \A k \in 0..m : k \in 0..last /\ g[k] = f[k]
    BY <2>1
  <2> HIDE DEF g
  <2>5. ASSUME NEW n \in 0..(m + 1) PROVE g[n] = how[n][g]
    <3>1. n \in 0..last /\ \A k \in 0..(n - 1) : k \in 0..m /\ f[k] = g[k]
      BY <2>1, <2>4
    <3>2. how[n][f] = how[n][g]
      BY <2>3, <3>1
    <3>3. CASE n = m + 1
      BY <2>3, <3>2, <3>3
    <3>4. CASE n # m + 1
      <4>1. n \in 0..m
        BY <3>4
      <4>. QED  BY <1>1, <2>4, <3>2, <4>1
    <3>. QED  BY <3>3, <3>4
  <2>. QED  BY <2>3, <2>5
<1>2. 0 \in S
  <2>1. PICK v \in V : TRUE
    OBVIOUS
  <2>2. [n \in 0..last |-> v] \in [0..last -> V] /\ -1 \in -1..(last - 1) /\ 0..(-1) = {}
    OBVIOUS
  <2>3. \E g \in [0..last -> V] : \A n \in 0..(-1 + 1) : g[n] = how[n][g]
    BY <1>1, <2>2
  <2>. QED  BY <2>3
<1>3. ASSUME NEW m \in 0..(last - 1), m \in S PROVE m + 1 \in S
  <2>1. PICK f \in [0..last -> V] : \A n \in 0..m : f[n] = how[n][f]
    BY <1>3
  <2>2. m \in -1..(last - 1) /\ m + 1 \in Nat
    OBVIOUS
  <2>3. \E g \in [0..last -> V] : \A n \in 0..(m + 1) : g[n] = how[n][g]
    BY <1>1, <2>1, <2>2
  <2>. QED  BY <2>2, <2>3
<1>4. last \in S
  <2> HIDE DEF S
  <2>1. last \in 0..last
    OBVIOUS
  <2>. QED  BY <1>2, <1>3, <2>1, UpTo
<1>. QED  BY <1>4 DEF Meets

-----------------------------------------------------------------------------
(***************************************************************************)
(* A loop that the VM takes over: recursive functions of its rows.         *)
(***************************************************************************)
\* The rows of a loop one after the other, as Baseline has them.
Turn(p, before, n) == IF before.ok THEN Interpret(p.body, before.env, p.items[n]) ELSE before
Turns(f, p, last) == f = [n \in 0..last |-> IF n = 0 THEN Ran(p.entry) ELSE Turn(p, f[n - 1], n)]

\* Such a list of results is what it says.
LEMMA TurnsAre ==
    ASSUME NEW f, NEW p, NEW last \in Nat, Turns(f, p, last)
    PROVE  f[0] = Ran(p.entry) /\ \A n \in 0..(last - 1) : f[n + 1] = Turn(p, f[n], n + 1)
<1>1. \A n \in 0..last : f[n] = IF n = 0 THEN Ran(p.entry) ELSE Turn(p, f[n - 1], n)
  BY Zenon DEF Turns
<1>2. 0 \in 0..last /\ \A n \in 0..(last - 1) : n + 1 \in 0..last /\ n + 1 # 0 /\ (n + 1) - 1 = n
  OBVIOUS
<1>. QED  BY <1>1, <1>2

\* It exists, however many rows there are.
LEMMA TurnsExist ==
    ASSUME NEW p, NEW last \in Nat
    PROVE  \E f : Turns(f, p, last)
<1> DEFINE S == {n \in Nat : \E f : Turns(f, p, n)}
<1>1. 0 \in S
  <2> DEFINE f == [n \in 0..0 |-> Ran(p.entry)]
  <2>1. \A n \in 0..0 : Ran(p.entry) = IF n = 0 THEN Ran(p.entry) ELSE Turn(p, f[n - 1], n)
    <3>1. \A n \in 0..0 : n = 0
      OBVIOUS
    <3>. QED  BY <3>1, Zenon
  <2>2. f = [n \in 0..0 |-> IF n = 0 THEN Ran(p.entry) ELSE Turn(p, f[n - 1], n)]
    BY <2>1, Zenon
  <2>3. Turns(f, p, 0)
    BY <2>2, Zenon DEF Turns
  <2>. QED  BY <2>3, Zenon
<1>2. ASSUME NEW m \in 0..(last - 1), m \in S PROVE m + 1 \in S
  <2>1. PICK f : Turns(f, p, m)
    BY <1>2
  <2> DEFINE g == [n \in 0..(m + 1) |-> IF n = m + 1 THEN Turn(p, f[m], m + 1) ELSE f[n]]
             h(n) == IF n = 0 THEN Ran(p.entry) ELSE Turn(p, g[n - 1], n)
  <2>2. m \in Nat /\ m + 1 \in Nat
    OBVIOUS
  <2>3. f[0] = Ran(p.entry) /\ \A n \in 0..(m - 1) : f[n + 1] = Turn(p, f[n], n + 1)
    BY <2>1, <2>2, TurnsAre
  <2>4. \A n \in 0..m : g[n] = f[n]
    BY <2>2
  <2>5. g[m + 1] = Turn(p, f[m], m + 1)
    BY <2>2
  <2>6. ASSUME NEW n \in 0..(m + 1) PROVE g[n] = h(n)
    <3> HIDE DEF g
    <3>1. CASE n = m + 1
      <4>1. n # 0 /\ n - 1 = m /\ g[m] = f[m]
        BY <2>2, <2>4, <3>1
      <4>. QED  BY <2>5, <3>1, <4>1
    <3>2. CASE n = 0
      BY <2>2, <2>3, <2>4, <3>2
    <3>3. CASE n # m + 1 /\ n # 0
      <4>1. n - 1 \in 0..(m - 1) /\ (n - 1) + 1 = n /\ g[n] = f[n] /\ g[n - 1] = f[n - 1]
        BY <2>2, <2>4, <3>3
      <4>2. f[(n - 1) + 1] = Turn(p, f[n - 1], (n - 1) + 1)
        BY <2>3, <4>1
      <4>. QED  BY <3>3, <4>1, <4>2
    <3>. QED  BY <3>1, <3>2, <3>3
  <2>7. g = [n \in 0..(m + 1) |-> g[n]]
    OBVIOUS
  <2>8. g = [n \in 0..(m + 1) |-> h(n)]
    <3> HIDE DEF g, h
    <3>. QED  BY <2>6, <2>7, Zenon
  <2>9. Turns(g, p, m + 1)
    <3> HIDE DEF g
    <3>. QED  BY <2>8, Zenon DEF Turns
  <2>. QED  BY <2>2, <2>9
<1>3. last \in S
  <2> HIDE DEF S
  <2>1. last \in 0..last
    OBVIOUS
  <2>. QED  BY <1>1, <1>2, <2>1, UpTo
<1>. QED  BY <1>3

\* Two of them agree on the rows that both have.
LEMMA TurnsAgree ==
    ASSUME NEW p, NEW m \in Nat, NEW n \in Nat, m <= n,
           NEW f, Turns(f, p, m), NEW g, Turns(g, p, n)
    PROVE  f[m] = g[m]
<1> DEFINE S == {k \in Nat : f[k] = g[k]}
<1>1. f[0] = Ran(p.entry) /\ \A k \in 0..(m - 1) : f[k + 1] = Turn(p, f[k], k + 1)
  BY TurnsAre
<1>2. g[0] = Ran(p.entry) /\ \A k \in 0..(n - 1) : g[k + 1] = Turn(p, g[k], k + 1)
  BY TurnsAre
<1>3. 0 \in S
  BY <1>1, <1>2
<1>4. ASSUME NEW k \in 0..(m - 1), k \in S PROVE k + 1 \in S
  <2>1. k \in 0..(n - 1) /\ k + 1 \in Nat /\ f[k] = g[k]
    BY <1>4
  <2>. QED  BY <1>1, <1>2, <2>1
<1> HIDE DEF S
<1>5. m \in 0..m
  OBVIOUS
<1>6. m \in S
  BY <1>3, <1>4, <1>5, UpTo
<1>. QED  BY <1>6 DEF S

\* Baseline takes one row after the other.
LEMMA BaselineTurns ==
    ASSUME NEW p
    PROVE  /\ Baseline(p, 0) = Ran(p.entry)
           /\ \A n \in Nat : Baseline(p, n + 1) = Turn(p, Baseline(p, n), n + 1)
<1> DEFINE f(n) == CHOOSE f : Turns(f, p, n)
<1>1. \A n \in Nat : Turns(f(n), p, n)
  BY TurnsExist, Zenon
<1>2. \A n : Baseline(p, n) = f(n)[n]
  BY Zenon DEF Baseline, Turns, Turn
<1> HIDE DEF f
<1>3. f(0)[0] = Ran(p.entry)
  BY <1>1, TurnsAre
<1>4. ASSUME NEW n \in Nat PROVE Baseline(p, n + 1) = Turn(p, Baseline(p, n), n + 1)
  <2>1. n + 1 \in Nat /\ n <= n + 1 /\ n \in 0..((n + 1) - 1)
    OBVIOUS
  <2>2. f(n)[n] = f(n + 1)[n]
    BY <1>1, <2>1, TurnsAgree
  <2>3. f(n + 1)[n + 1] = Turn(p, f(n + 1)[n], n + 1)
    BY <1>1, <2>1, TurnsAre
  <2>. QED  BY <1>2, <2>2, <2>3
<1>. QED  BY <1>2, <1>3, <1>4

\* After an error nothing more happens.
LEMMA BaselineStops ==
    ASSUME NEW p, NEW m \in Nat, NEW n \in Nat, m <= n, ~Baseline(p, m).ok
    PROVE  Baseline(p, n) = Baseline(p, m)
<1> DEFINE S == {k \in Nat : Baseline(p, m + k) = Baseline(p, m)}
<1>1. 0 \in S
  OBVIOUS
<1>2. ASSUME NEW k \in 0..((n - m) - 1), k \in S PROVE k + 1 \in S
  <2>1. m + k \in Nat /\ m + (k + 1) = (m + k) + 1 /\ k + 1 \in Nat
    OBVIOUS
  <2>2. Baseline(p, (m + k) + 1) = Turn(p, Baseline(p, m + k), (m + k) + 1)
    BY <2>1, BaselineTurns
  <2>3. Baseline(p, (m + k) + 1) = Baseline(p, m)
    BY <1>2, <2>2 DEF Turn
  <2>. QED  BY <2>1, <2>3
<1>3. n - m \in Nat /\ n - m \in 0..(n - m) /\ m + (n - m) = n
  OBVIOUS
<1>4. n - m \in S
  <2> HIDE DEF S
  <2>. QED  BY <1>1, <1>2, <1>3, UpTo
<1>. QED  BY <1>3, <1>4

\* The statements of a body one after the other, as the interpreter runs them.
Statement(body, before, n) ==
    LET s == body.stmts[n]
        result == ValueOp(s.op, Operand(before.env, s.a), Operand(before.env, s.b))
    IN IF ~before.ok THEN before
       ELSE IF ~result.ok THEN Raised(before.env)
       ELSE Ran([before.env EXCEPT ![s.dst] = result.value])
Statements(f, body, entry, last) ==
    f = [n \in 0..last |-> IF n = 0 THEN Ran(entry) ELSE Statement(body, f[n - 1], n)]
LEMMA StatementsAre ==
    ASSUME NEW f, NEW body, NEW entry, NEW last \in Nat, Statements(f, body, entry, last)
    PROVE  f[0] = Ran(entry) /\ \A n \in 0..(last - 1) : f[n + 1] = Statement(body, f[n], n + 1)
<1>1. \A n \in 0..last : f[n] = IF n = 0 THEN Ran(entry) ELSE Statement(body, f[n - 1], n)
  BY Zenon DEF Statements
<1>2. 0 \in 0..last /\ \A n \in 0..(last - 1) : n + 1 \in 0..last /\ n + 1 # 0 /\ (n + 1) - 1 = n
  OBVIOUS
<1>. QED  BY <1>1, <1>2

\* They can be run, however many there are.
LEMMA StatementsExist ==
    ASSUME NEW body, NEW entry, NEW last \in Nat
    PROVE  \E f : Statements(f, body, entry, last)
<1> DEFINE S == {n \in Nat : \E f : Statements(f, body, entry, n)}
<1>1. 0 \in S
  <2> DEFINE f == [n \in 0..0 |-> Ran(entry)]
  <2>1. \A n \in 0..0 : Ran(entry) = IF n = 0 THEN Ran(entry) ELSE Statement(body, f[n - 1], n)
    <3>1. \A n \in 0..0 : n = 0
      OBVIOUS
    <3>. QED  BY <3>1, Zenon
  <2>2. f = [n \in 0..0 |-> IF n = 0 THEN Ran(entry) ELSE Statement(body, f[n - 1], n)]
    BY <2>1, Zenon
  <2>3. Statements(f, body, entry, 0)
    BY <2>2, Zenon DEF Statements
  <2>. QED  BY <2>3, Zenon
<1>2. ASSUME NEW m \in 0..(last - 1), m \in S PROVE m + 1 \in S
  <2>1. PICK f : Statements(f, body, entry, m)
    BY <1>2
  <2> DEFINE g == [n \in 0..(m + 1) |-> IF n = m + 1 THEN Statement(body, f[m], m + 1) ELSE f[n]]
             h(n) == IF n = 0 THEN Ran(entry) ELSE Statement(body, g[n - 1], n)
  <2>2. m \in Nat /\ m + 1 \in Nat
    OBVIOUS
  <2>3. f[0] = Ran(entry) /\ \A n \in 0..(m - 1) : f[n + 1] = Statement(body, f[n], n + 1)
    BY <2>1, <2>2, StatementsAre
  <2>4. \A n \in 0..m : g[n] = f[n]
    BY <2>2
  <2>5. g[m + 1] = Statement(body, f[m], m + 1)
    BY <2>2
  <2>6. ASSUME NEW n \in 0..(m + 1) PROVE g[n] = h(n)
    <3> HIDE DEF g
    <3>1. CASE n = m + 1
      <4>1. n # 0 /\ n - 1 = m /\ g[m] = f[m]
        BY <2>2, <2>4, <3>1
      <4>. QED  BY <2>5, <3>1, <4>1
    <3>2. CASE n = 0
      BY <2>2, <2>3, <2>4, <3>2
    <3>3. CASE n # m + 1 /\ n # 0
      <4>1. n - 1 \in 0..(m - 1) /\ (n - 1) + 1 = n /\ g[n] = f[n] /\ g[n - 1] = f[n - 1]
        BY <2>2, <2>4, <3>3
      <4>2. f[(n - 1) + 1] = Statement(body, f[n - 1], (n - 1) + 1)
        BY <2>3, <4>1
      <4>. QED  BY <3>3, <4>1, <4>2
    <3>. QED  BY <3>1, <3>2, <3>3
  <2>7. g = [n \in 0..(m + 1) |-> g[n]]
    OBVIOUS
  <2>8. g = [n \in 0..(m + 1) |-> h(n)]
    <3> HIDE DEF g, h
    <3>. QED  BY <2>6, <2>7, Zenon
  <2>9. Statements(g, body, entry, m + 1)
    <3> HIDE DEF g
    <3>. QED  BY <2>8, Zenon DEF Statements
  <2>. QED  BY <2>2, <2>9
<1>3. last \in S
  <2> HIDE DEF S
  <2>1. last \in 0..last
    OBVIOUS
  <2>. QED  BY <1>1, <1>2, <2>1, UpTo
<1>. QED  BY <1>3

\* The statements of a body one after the other, as the VM runs them.
Operation(body, before, n) ==
    IF before.st = "hit" THEN VmStatement(before.copy, body.stmts[n]) ELSE before
Operations(f, body, start, last) ==
    f = [n \in 0..last |-> IF n = 0 THEN Hit(start) ELSE Operation(body, f[n - 1], n)]
LEMMA OperationsAre ==
    ASSUME NEW f, NEW body, NEW start, NEW last \in Nat, Operations(f, body, start, last)
    PROVE  f[0] = Hit(start) /\ \A n \in 0..(last - 1) : f[n + 1] = Operation(body, f[n], n + 1)
<1>1. \A n \in 0..last : f[n] = IF n = 0 THEN Hit(start) ELSE Operation(body, f[n - 1], n)
  BY Zenon DEF Operations
<1>2. 0 \in 0..last /\ \A n \in 0..(last - 1) : n + 1 \in 0..last /\ n + 1 # 0 /\ (n + 1) - 1 = n
  OBVIOUS
<1>. QED  BY <1>1, <1>2

\* So can these.
LEMMA OperationsExist ==
    ASSUME NEW body, NEW start, NEW last \in Nat
    PROVE  \E f : Operations(f, body, start, last)
<1> DEFINE S == {n \in Nat : \E f : Operations(f, body, start, n)}
<1>1. 0 \in S
  <2> DEFINE f == [n \in 0..0 |-> Hit(start)]
  <2>1. \A n \in 0..0 : Hit(start) = IF n = 0 THEN Hit(start) ELSE Operation(body, f[n - 1], n)
    <3>1. \A n \in 0..0 : n = 0
      OBVIOUS
    <3>. QED  BY <3>1, Zenon
  <2>2. f = [n \in 0..0 |-> IF n = 0 THEN Hit(start) ELSE Operation(body, f[n - 1], n)]
    BY <2>1, Zenon
  <2>3. Operations(f, body, start, 0)
    BY <2>2, Zenon DEF Operations
  <2>. QED  BY <2>3, Zenon
<1>2. ASSUME NEW m \in 0..(last - 1), m \in S PROVE m + 1 \in S
  <2>1. PICK f : Operations(f, body, start, m)
    BY <1>2
  <2> DEFINE g == [n \in 0..(m + 1) |-> IF n = m + 1 THEN Operation(body, f[m], m + 1) ELSE f[n]]
             h(n) == IF n = 0 THEN Hit(start) ELSE Operation(body, g[n - 1], n)
  <2>2. m \in Nat /\ m + 1 \in Nat
    OBVIOUS
  <2>3. f[0] = Hit(start) /\ \A n \in 0..(m - 1) : f[n + 1] = Operation(body, f[n], n + 1)
    BY <2>1, <2>2, OperationsAre
  <2>4. \A n \in 0..m : g[n] = f[n]
    BY <2>2
  <2>5. g[m + 1] = Operation(body, f[m], m + 1)
    BY <2>2
  <2>6. ASSUME NEW n \in 0..(m + 1) PROVE g[n] = h(n)
    <3> HIDE DEF g
    <3>1. CASE n = m + 1
      <4>1. n # 0 /\ n - 1 = m /\ g[m] = f[m]
        BY <2>2, <2>4, <3>1
      <4>. QED  BY <2>5, <3>1, <4>1
    <3>2. CASE n = 0
      BY <2>2, <2>3, <2>4, <3>2
    <3>3. CASE n # m + 1 /\ n # 0
      <4>1. n - 1 \in 0..(m - 1) /\ (n - 1) + 1 = n /\ g[n] = f[n] /\ g[n - 1] = f[n - 1]
        BY <2>2, <2>4, <3>3
      <4>2. f[(n - 1) + 1] = Operation(body, f[n - 1], (n - 1) + 1)
        BY <2>3, <4>1
      <4>. QED  BY <3>3, <4>1, <4>2
    <3>. QED  BY <3>1, <3>2, <3>3
  <2>7. g = [n \in 0..(m + 1) |-> g[n]]
    OBVIOUS
  <2>8. g = [n \in 0..(m + 1) |-> h(n)]
    <3> HIDE DEF g, h
    <3>. QED  BY <2>6, <2>7, Zenon
  <2>9. Operations(g, body, start, m + 1)
    <3> HIDE DEF g
    <3>. QED  BY <2>8, Zenon DEF Operations
  <2>. QED  BY <2>2, <2>9
<1>3. last \in S
  <2> HIDE DEF S
  <2>1. last \in 0..last
    OBVIOUS
  <2>. QED  BY <1>1, <1>2, <2>1, UpTo
<1>. QED  BY <1>3

\* RunStatements is the last of them.
LEMMA StatementsRun ==
    ASSUME NEW body, Len(body.stmts) \in Nat, NEW entry
    PROVE  \E f : /\ Statements(f, body, entry, Len(body.stmts))
                  /\ RunStatements(body, entry) = f[Len(body.stmts)]
<1> DEFINE f == CHOOSE f : Statements(f, body, entry, Len(body.stmts))
<1>1. Statements(f, body, entry, Len(body.stmts))
  BY StatementsExist, Zenon
<1>2. RunStatements(body, entry) = f[Len(body.stmts)]
  BY Zenon DEF RunStatements, Statements, Statement
<1>. QED  BY <1>1, <1>2, Zenon

\* So is VmExpr, for an integer.
Holding(c, item) == [c EXCEPT ![Target] = item]
LEMMA OperationsRun ==
    ASSUME NEW body, Len(body.stmts) \in Nat, NEW start, NEW item
    PROVE  \E g : /\ Operations(g, body, Holding(start, item), Len(body.stmts))
                  /\ VmExpr(body, start, item)
                        = IF item.t # "int" THEN Miss ELSE g[Len(body.stmts)]
<1> DEFINE g == CHOOSE g : Operations(g, body, Holding(start, item), Len(body.stmts))
<1>1. Operations(g, body, Holding(start, item), Len(body.stmts))
  BY OperationsExist, Zenon
<1>2. VmExpr(body, start, item) = IF item.t # "int" THEN Miss ELSE g[Len(body.stmts)]
  BY Zenon DEF VmExpr, Operations, Operation, Holding
<1>. QED  BY <1>1, <1>2, Zenon
-----------------------------------------------------------------------------
(***************************************************************************)
(* One row in the VM and in the interpreter.                               *)
(***************************************************************************)
\* What the VM accumulates in, by the body's shape.
Fit(p, c) ==
    LET held == c[p.body.acc] IN
    CASE p.body.kind = "add" -> Number(held)
      [] p.body.kind = "append" -> held = ValueOf("list", held.n, held.s, held.m)
      [] p.body.kind = "count" -> /\ held = ValueOf("map", held.n, held.s, [k \in Key |-> held.m[k]])
                                  /\ \A k \in Key : held.m[k][1] \in {"none", "int"}
      [] p.body.kind = "expr" -> \A l \in Local : c[l].t \in {"int", "unset"}
      [] OTHER -> FALSE

\* What the interpreter has after n rows is what the VM would store: e is c where
\* the VM has a value of its own, the entry elsewhere, and the row in the target.
Agree(p, n, c, e) ==
    /\ \A l \in Local : l # Target \/ n = 0 =>
         e[l] = IF l \in Used(p.body) /\ c[l].t # "unset" THEN c[l] ELSE p.entry[l]
    /\ n > 0 => e[Target] = p.items[n]
    /\ Fit(p, c)
    /\ c = [l \in Local |-> c[l]] /\ e = [l \in Local |-> e[l]]

\* The VM's step does to the copy what the interpreter's turn does to the variables.
Parity(p, n, c, e) ==
    LET how == VmStep(p.body, c, p.items[n + 1])
        turn == Interpret(p.body, e, p.items[n + 1])
    IN /\ how.st = "hit" => turn.ok /\ Agree(p, n + 1, how.copy, turn.env)
       /\ how.st = "error" => ~turn.ok

\* The parts of a loop are what they should be.
LEMMA ProgramParts ==
    ASSUME NEW p \in Programs
    PROVE  /\ p.body.acc \in Local /\ Len(p.body.stmts) \in Nat /\ Len(p.items) \in Nat
           /\ p.entry = [l \in Local |-> p.entry[l]] /\ \A l \in Local : p.entry[l] \in VmValue
           /\ p.items = <<>> <=> Len(p.items) = 0
           /\ \A i \in 1..Len(p.items) : p.items[i] \in VmValue
           /\ p.body.kind \in {"add", "append", "count", "tally", "expr"}
           /\ \A i \in 1..Len(p.body.stmts) :
                /\ p.body.stmts[i].dst \in Local
                /\ p.body.stmts[i].a.local \in Local \cup {NoLocal}
                /\ p.body.stmts[i].b.local \in Local \cup {NoLocal}
                /\ p.body.stmts[i].op \in {"add", "mul", "div", "mod", "shl", "other"}
           /\ DOMAIN p.body.stmts = 1..Len(p.body.stmts)
<1>1. p.body \in Bodies /\ p.items \in Seq(VmValue) /\ p.entry \in [Local -> VmValue]
  BY ProgramsAssumption
<1>2. p.body.acc \in Local /\ p.body.kind \in {"add", "append", "count", "tally", "expr"}
  BY <1>1 DEF Bodies
<1> DEFINE S == [dst : Local, a : Reference, b : Reference,
                 op : {"add", "mul", "div", "mod", "shl", "other"}]
<1>3. p.body.stmts \in Seq(S)
  BY <1>1 DEF Bodies
<1>4. /\ Len(p.body.stmts) \in Nat /\ DOMAIN p.body.stmts = 1..Len(p.body.stmts)
      /\ \A i \in 1..Len(p.body.stmts) : p.body.stmts[i] \in S
  <2> HIDE DEF S
  <2>. QED  BY <1>3
<1>5. /\ Len(p.items) \in Nat /\ (p.items = <<>> <=> Len(p.items) = 0)
      /\ \A i \in 1..Len(p.items) : p.items[i] \in VmValue
  BY <1>1
<1>6. p.entry = [l \in Local |-> p.entry[l]] /\ \A l \in Local : p.entry[l] \in VmValue
  BY <1>1
<1>7. \A i \in 1..Len(p.body.stmts) :
        /\ p.body.stmts[i].dst \in Local
        /\ p.body.stmts[i].a.local \in Local \cup {NoLocal}
        /\ p.body.stmts[i].b.local \in Local \cup {NoLocal}
        /\ p.body.stmts[i].op \in {"add", "mul", "div", "mod", "shl", "other"}
  BY <1>4 DEF Reference
<1>. QED  BY <1>2, <1>4, <1>5, <1>6, <1>7

\* The sum of two numbers is a number, when there is one.
LEMMA SumIsNumber ==
    ASSUME NEW a, NEW b, Number(a), Number(b), AddValues(a, b).ok
    PROVE  Number(AddValues(a, b).value)
<1>1. CASE a.t = "int" /\ b.t = "int"
  BY <1>1 DEF AddValues, GotInt, Got, Failed, Integer, ValueOf, Number
<1>2. CASE ~(a.t = "int" /\ b.t = "int")
  BY <1>2 DEF AddValues, Got, Float, ValueOf, Number
<1>. QED  BY <1>1, <1>2

\* Where the loop accumulates in one variable, VM and interpreter have the same.
LEMMA AccAgrees ==
    ASSUME NEW p \in Programs, Plain(p), p.body.kind \in {"add", "append", "count"},
           NEW n \in Nat, NEW c, NEW e, Agree(p, n, c, e)
    PROVE  /\ p.body.acc \in Local /\ p.body.acc # Target /\ Target \in Local
           /\ c[p.body.acc].t # "unset" /\ e[p.body.acc] = c[p.body.acc]
           /\ c = [l \in Local |-> c[l]] /\ e = [l \in Local |-> e[l]]
<1> DEFINE held == p.body.acc
<1>1. held \in Local /\ held # Target
  BY ProgramParts DEF Plain
<1>2. c[held].t # "unset"
  BY DEF Agree, Fit, Number, ValueOf
<1>3. e[held] = c[held]
  BY <1>1, <1>2 DEF Agree, Used
<1>4. c = [l \in Local |-> c[l]] /\ e = [l \in Local |-> e[l]] /\ Target \in Local
  BY LocalAssumption DEF Agree
<1>. QED  BY <1>1, <1>2, <1>3, <1>4

\* So they have after both have given it the same value.
LEMMA AccFollows ==
    ASSUME NEW p \in Programs, Plain(p), p.body.kind \in {"add", "append", "count"},
           NEW n \in Nat, NEW c, NEW e, Agree(p, n, c, e), NEW v, v.t # "unset",
           Fit(p, [c EXCEPT ![p.body.acc] = v])
    PROVE  Agree(p, n + 1, [c EXCEPT ![p.body.acc] = v],
                 [[e EXCEPT ![Target] = p.items[n + 1]] EXCEPT ![p.body.acc] = v])
<1> DEFINE held == p.body.acc
           d == [c EXCEPT ![held] = v]
           f == [[e EXCEPT ![Target] = p.items[n + 1]] EXCEPT ![held] = v]
<1>1. held \in Local /\ held # Target /\ Target \in Local /\ n + 1 > 0 /\ n + 1 # 0
  <2>1. held \in Local
    BY ProgramParts
  <2>2. held # Target
    BY DEF Plain
  <2>. QED  BY <2>1, <2>2, LocalAssumption
<1>2. c = [l \in Local |-> c[l]] /\ e = [l \in Local |-> e[l]]
  BY DEF Agree
<1>3. f[Target] = p.items[n + 1] /\ f[held] = v /\ d[held] = v
  BY <1>1, <1>2
<1>4. \A l \in Local : l # held /\ l # Target => f[l] = e[l] /\ d[l] = c[l]
  BY <1>1, <1>2
<1>5. d = [l \in Local |-> d[l]] /\ f = [l \in Local |-> f[l]]
  BY <1>2
<1> HIDE DEF d, f
<1>6. Used(p.body) = {held}
  BY DEF Used
<1>7. ASSUME NEW l \in Local, l # Target
      PROVE  f[l] = IF l \in Used(p.body) /\ d[l].t # "unset" THEN d[l] ELSE p.entry[l]
  <2>1. CASE l = held
    BY <1>3, <1>6, <2>1
  <2>2. CASE l # held
    <3>1. e[l] = p.entry[l]
      BY <1>6, <1>7, <2>2 DEF Agree
    <3>. QED  BY <1>4, <1>6, <1>7, <2>2, <3>1
  <2>. QED  BY <2>1, <2>2
<1>8. Fit(p, d)
  BY DEF d
<1>9. Agree(p, n + 1, d, f)
  BY <1>1, <1>3, <1>5, <1>7, <1>8 DEF Agree
<1>. QED  BY <1>9 DEF d, f

\* acc += item
LEMMA AddParity ==
    ASSUME NEW p \in Programs, Plain(p), p.body.kind = "add",
           NEW n \in Nat, NEW c, NEW e, Agree(p, n, c, e)
    PROVE  Parity(p, n, c, e)
<1> DEFINE held == p.body.acc
           item == p.items[n + 1]
           bound == [e EXCEPT ![Target] = item]
           sum == AddValues(c[held], item)
<1>1. held \in Local /\ held # Target /\ bound[held] = c[held] /\ bound[Target] = item
  <2>1. p.body.kind \in {"add", "append", "count"}
    OBVIOUS
  <2>2. /\ held \in Local /\ held # Target /\ Target \in Local
        /\ e[held] = c[held] /\ e = [l \in Local |-> e[l]]
    BY <2>1, AccAgrees
  <2> HIDE DEF item, held
  <2>. QED  BY <2>2
<1>2. Interpret(p.body, e, item)
        = IF sum.ok THEN Ran([bound EXCEPT ![held] = sum.value]) ELSE Raised(bound)
  <2> HIDE DEF bound
  <2>1. AddItem(p.body, bound)
          = IF sum.ok THEN Ran([bound EXCEPT ![held] = sum.value]) ELSE Raised(bound)
    BY <1>1 DEF AddItem
  <2>. QED  BY <2>1 DEF Interpret, bound
<1>3. VmStep(p.body, c, item)
        = IF ~Number(item) THEN Miss ELSE IF ~sum.ok THEN Error
          ELSE Hit([c EXCEPT ![held] = sum.value])
  BY DEF VmStep, VmAdd
<1>4. CASE ~Number(item)
  BY <1>3, <1>4 DEF Parity, Miss
<1>5. CASE Number(item) /\ ~sum.ok
  BY <1>2, <1>3, <1>5 DEF Parity, Error, Raised
<1>6. CASE Number(item) /\ sum.ok
  <2>1. Number(c[held])
    BY DEF Agree, Fit
  <2>2. Number(sum.value)
    BY <1>6, <2>1, SumIsNumber
  <2>3. [c EXCEPT ![held] = sum.value][held] = sum.value
    BY <1>1 DEF Agree
  <2>4. Fit(p, [c EXCEPT ![held] = sum.value])
    BY <2>2, <2>3 DEF Fit
  <2>5. sum.value.t # "unset"
    BY <2>2 DEF Number
  <2>6. Agree(p, n + 1, [c EXCEPT ![held] = sum.value], [bound EXCEPT ![held] = sum.value])
    BY <2>4, <2>5, AccFollows
  <2> HIDE DEF sum, bound
  <2>. QED  BY <1>2, <1>3, <1>6, <2>6 DEF Parity, Hit, Ran
<1>. QED  BY <1>4, <1>5, <1>6

\* acc.append(item), of an item that is not there yet or of any
LEMMA AppendParity ==
    ASSUME NEW p \in Programs, Plain(p), p.body.kind = "append",
           NEW n \in Nat, NEW c, NEW e, Agree(p, n, c, e)
    PROVE  Parity(p, n, c, e)
<1> DEFINE held == p.body.acc
           item == p.items[n + 1]
           bound == [e EXCEPT ![Target] = item]
           skip == p.body.unique /\ \E i \in DOMAIN c[held].s : c[held].s[i] = Pair(item)
           v == IF skip THEN c[held] ELSE [c[held] EXCEPT !.s = Append(@, Pair(item))]
<1>1. held \in Local /\ held # Target /\ bound[held] = c[held] /\ bound[Target] = item
  <2>1. p.body.kind \in {"add", "append", "count"}
    OBVIOUS
  <2>2. /\ held \in Local /\ held # Target /\ Target \in Local
        /\ e[held] = c[held] /\ e = [l \in Local |-> e[l]]
    BY <2>1, AccAgrees
  <2> HIDE DEF item, held
  <2>. QED  BY <2>2
<1>2. c = [l \in Local |-> c[l]] /\ bound = [l \in Local |-> bound[l]]
  BY DEF Agree
<1>3. c[held] = ValueOf("list", c[held].n, c[held].s, c[held].m)
  BY DEF Agree, Fit
<1>4. VmStep(p.body, c, item) = Hit([c EXCEPT ![held] = v])
  <2>1. CASE skip
    <3>1. c = [c EXCEPT ![held] = v]
      BY <1>1, <1>2, <2>1
    <3>. QED  BY <2>1, <3>1 DEF VmStep, VmAppend
  <2>2. CASE ~skip
    BY <2>2 DEF VmStep, VmAppend
  <2>. QED  BY <2>1, <2>2
<1>5. Interpret(p.body, e, item) = Ran([bound EXCEPT ![held] = v])
  <2> HIDE DEF bound, item
  <2>1. c[held].t = "list"
    BY <1>3 DEF ValueOf
  <2>2. CASE skip
    <3>1. bound = [bound EXCEPT ![held] = v]
      BY <1>1, <1>2, <2>2
    <3>2. AppendItem(p.body, bound) = Ran(bound)
      BY <1>1, <2>1, <2>2 DEF AppendItem
    <3>. QED  BY <3>1, <3>2 DEF Interpret, bound, item
  <2>3. CASE ~skip
    <3>1. AppendItem(p.body, bound) = Ran([bound EXCEPT ![held] = v])
      BY <1>1, <2>1, <2>3 DEF AppendItem
    <3>. QED  BY <3>1 DEF Interpret, bound, item
  <2>. QED  BY <2>2, <2>3
<1>6. v = ValueOf("list", v.n, v.s, v.m)
  <2> DEFINE w == c[held]
             more == Append(w.s, Pair(item))
  <2>1. w = ValueOf("list", w.n, w.s, w.m)
    BY <1>3
  <2>2. v = w \/ v = [w EXCEPT !.s = more]
    OBVIOUS
  <2> HIDE DEF v, w, more, skip
  <2>3. CASE v = w
    BY <2>1, <2>3
  <2>4. CASE v = [w EXCEPT !.s = more]
    <3>1. v = ValueOf("list", w.n, more, w.m)
      BY <2>1, <2>4 DEF ValueOf
    <3>. QED  BY <3>1 DEF ValueOf
  <2>. QED  BY <2>2, <2>3, <2>4
<1> HIDE DEF v
<1>7. Fit(p, [c EXCEPT ![held] = v])
  BY <1>1, <1>2, <1>6 DEF Fit
<1>8. Agree(p, n + 1, [c EXCEPT ![held] = v], [bound EXCEPT ![held] = v])
  BY <1>6, <1>7, AccFollows DEF ValueOf
<1> HIDE DEF bound
<1>. QED  BY <1>4, <1>5, <1>8 DEF Parity, Hit, Ran

\* if key in acc: acc[key] += 1 else: acc[key] = 1
LEMMA CountParity ==
    ASSUME NEW p \in Programs, Plain(p), p.body.kind = "count",
           NEW n \in Nat, n + 1 <= Len(p.items), NEW c, NEW e, Agree(p, n, c, e)
    PROVE  Parity(p, n, c, e)
<1> DEFINE held == p.body.acc
           item == p.items[n + 1]
           bound == [e EXCEPT ![Target] = item]
           entry == c[held].m[item.n]
           sum == GotInt((IF entry[1] = "none" THEN 0 ELSE entry[2]) + 1)
           v == [c[held] EXCEPT !.m[item.n] = Pair(sum.value)]
<1>1. held \in Local /\ held # Target /\ bound[held] = c[held] /\ bound[Target] = item
  <2>1. p.body.kind \in {"add", "append", "count"}
    OBVIOUS
  <2>2. /\ held \in Local /\ held # Target /\ Target \in Local
        /\ e[held] = c[held] /\ e = [l \in Local |-> e[l]]
    BY <2>1, AccAgrees
  <2> HIDE DEF item, held
  <2>. QED  BY <2>2
<1>2. c = [l \in Local |-> c[l]] /\ bound = [l \in Local |-> bound[l]]
  BY DEF Agree
<1>3. /\ c[held] = ValueOf("map", c[held].n, c[held].s, [k \in Key |-> c[held].m[k]])
      /\ \A k \in Key : c[held].m[k][1] \in {"none", "int"}
  BY DEF Agree, Fit
<1>4. VmStep(p.body, c, item)
        = IF item.t # "str" THEN Miss ELSE IF ~sum.ok THEN Error ELSE Hit([c EXCEPT ![held] = v])
  BY DEF VmStep, VmCount
<1>5. CASE item.t # "str"
  <2> HIDE DEF sum, v
  <2>1. VmStep(p.body, c, item).st = "miss"
    BY <1>4, <1>5 DEF Miss
  <2>. QED  BY <2>1 DEF Parity
<1>6. CASE item.t = "str"
  <2>1. item \in VmValue
    <3>1. Len(p.items) \in Nat /\ \A i \in 1..Len(p.items) : p.items[i] \in VmValue
      BY ProgramParts
    <3>2. n + 1 \in 1..Len(p.items)
      BY <3>1
    <3>. QED  BY <3>1, <3>2
  <2>2. item.n \in Key
    BY <1>6, <2>1 DEF VmValue
  <2>3. entry[1] \in {"none", "int"}
    BY <1>3, <2>2
  <2>4. (IF entry[1] = "none" THEN Got(Integer(1))
         ELSE AddValues(ValueOf(entry[1], entry[2], <<>>, NoMap), Integer(1))) = sum
    <3> HIDE DEF entry
    <3>1. CASE entry[1] = "none"
      BY <3>1, OneAssumption DEF GotInt
    <3>2. CASE entry[1] = "int"
      BY <3>2 DEF AddValues, ValueOf, Integer
    <3>. QED  BY <2>3, <3>1, <3>2
  <2>5. c[held].t = "map"
    BY <1>3 DEF ValueOf
  <2>6. Interpret(p.body, e, item)
          = IF ~sum.ok THEN Raised(bound) ELSE Ran([bound EXCEPT ![held] = v])
    <3>1. CountKey(p.body, bound, item)
            = IF ~sum.ok THEN Raised(bound) ELSE Ran([bound EXCEPT ![held] = v])
      <4> DEFINE total == IF entry[1] = "none" THEN Got(Integer(1))
                          ELSE AddValues(ValueOf(entry[1], entry[2], <<>>, NoMap), Integer(1))
      <4>1. total = sum
        BY <2>4
      <4> HIDE DEF sum
      <4>2. CountKey(p.body, bound, item)
              = IF ~total.ok THEN Raised(bound)
                ELSE Ran([bound EXCEPT ![held].m[item.n] = Pair(total.value)])
        <5>1. entry = bound[held].m[item.n] /\ bound[held].t = "map"
          BY <1>1, <2>5
        <5> HIDE DEF bound, item
        <5>. QED  BY <1>6, <5>1 DEF CountKey
      <4> HIDE DEF total, bound, item, entry
      <4>. QED  BY <1>1, <4>1, <4>2
    <3> HIDE DEF sum, v
    <3>. QED  BY <3>1 DEF Interpret
  <2>7. CASE ~sum.ok
    <3> HIDE DEF sum
    <3>. QED  BY <1>4, <1>6, <2>6, <2>7 DEF Parity, Error, Raised
  <2>8. CASE sum.ok
    <3>1. Pair(sum.value)[1] = "int"
      BY <2>8 DEF GotInt, Got, Failed, Integer, ValueOf, Pair
    <3>2. /\ v = ValueOf("map", v.n, v.s, [k \in Key |-> v.m[k]])
          /\ \A k \in Key : v.m[k][1] \in {"none", "int"}
      <4> HIDE DEF sum, item, held
      <4>. QED  BY <1>3, <3>1 DEF ValueOf
    <3> HIDE DEF v
    <3>3. Fit(p, [c EXCEPT ![held] = v])
      BY <1>1, <1>2, <3>2 DEF Fit
    <3>4. v.t # "unset"
      BY <3>2 DEF ValueOf
    <3>5. Agree(p, n + 1, [c EXCEPT ![held] = v], [bound EXCEPT ![held] = v])
      BY <3>3, <3>4, AccFollows
    <3> HIDE DEF bound, sum
    <3>. QED  BY <1>4, <1>6, <2>6, <2>8, <3>5 DEF Parity, Hit, Ran
  <2>. QED  BY <2>7, <2>8
<1>. QED  BY <1>5, <1>6
\* Within a row of an expression body: the VM's variables that are set are the
\* interpreter's, and integers; the target holds the item in both.
Follows(p, item, c, e) ==
    /\ \A l \in Local : c[l].t \in {"int", "unset"}
    /\ \A l \in Local \ {Target} :
         e[l] = IF l \in Used(p.body) /\ c[l].t # "unset" THEN c[l] ELSE p.entry[l]
    /\ c[Target] = item /\ e[Target] = item
    /\ c = [l \in Local |-> c[l]] /\ e = [l \in Local |-> e[l]]

\* An operand that is set in the VM is an integer, the interpreter's.
LEMMA OperandsAgree ==
    ASSUME NEW p, NEW item, item.t = "int", NEW c, NEW e, Follows(p, item, c, e),
           NEW x, x.local \in Used(p.body) \cup {NoLocal}, Used(p.body) \subseteq Local,
           Operand(c, x).t # "unset"
    PROVE  Operand(c, x).t = "int" /\ Operand(e, x) = Operand(c, x)
<1>1. CASE x.local = NoLocal
  BY <1>1 DEF Operand, Integer, ValueOf
<1>2. CASE x.local # NoLocal
  <2>1. x.local \in Local /\ Operand(c, x) = c[x.local] /\ Operand(e, x) = e[x.local]
    BY <1>2 DEF Operand
  <2>2. c[x.local].t = "int"
    BY <2>1 DEF Follows
  <2>3. e[x.local] = c[x.local]
    BY <1>2, <2>1, <2>2 DEF Follows
  <2>. QED  BY <2>1, <2>2, <2>3
<1>. QED  BY <1>1, <1>2

\* On integers the interpreter's operators are the VM's, and their results integers.
LEMMA IntegersOnly ==
    ASSUME NEW op \in {"add", "mul", "div", "mod", "shl"}, NEW a, NEW b, a.t = "int", b.t = "int"
    PROVE  /\ ValueOp(op, a, b) = IntOp(op, a.n, b.n)
           /\ IntOp(op, a.n, b.n).ok => IntOp(op, a.n, b.n).value.t = "int"
<1>1. ValueOp(op, a, b) = IntOp(op, a.n, b.n)
  <2>1. CASE op = "add"
    <3>1. ValueOp(op, a, b) = AddValues(a, b)
      BY <2>1 DEF ValueOp
    <3>. QED  BY <2>1, <3>1 DEF IntOp, AddValues
  <2>2. CASE op # "add"
    BY <2>2 DEF ValueOp
  <2>. QED  BY <2>1, <2>2
<1>2. \A n : GotInt(n).ok => GotInt(n).value.t = "int"
  BY DEF GotInt, Got, Failed, Integer, ValueOf
<1>3. ~Failed.ok
  BY DEF Failed
<1>4. IntOp("add", a.n, b.n) = GotInt(a.n + b.n) /\ IntOp("mul", a.n, b.n) = GotInt(a.n * b.n)
  BY DEF IntOp
<1>5. /\ IntOp("div", a.n, b.n) = DivInts(a.n, b.n) /\ IntOp("mod", a.n, b.n) = ModInts(a.n, b.n)
      /\ IntOp("shl", a.n, b.n) = ShiftInts(a.n, b.n)
  BY DEF IntOp
<1>6. DivInts(a.n, b.n).ok => DivInts(a.n, b.n).value.t = "int"
  BY <1>2, <1>3, Zenon DEF DivInts
<1>7. ModInts(a.n, b.n).ok => ModInts(a.n, b.n).value.t = "int"
  BY <1>2, <1>3, Zenon DEF ModInts
<1>8. ShiftInts(a.n, b.n).ok => ShiftInts(a.n, b.n).value.t = "int"
  BY <1>2, <1>3, Zenon DEF ShiftInts
<1>. QED  BY <1>1, <1>2, <1>4, <1>5, <1>6, <1>7, <1>8

\* What a lowered body refers to are variables.
LEMMA UsedAreLocals ==
    ASSUME NEW p \in Programs, p.body.kind = "expr"
    PROVE  /\ Used(p.body) \subseteq Local
           /\ \A i \in 1..Len(p.body.stmts) :
                /\ p.body.stmts[i].dst \in Used(p.body)
                /\ p.body.stmts[i].a.local \in Used(p.body) \cup {NoLocal}
                /\ p.body.stmts[i].b.local \in Used(p.body) \cup {NoLocal}
<1> DEFINE stmts == p.body.stmts
           named == UNION {{s.dst, s.a.local, s.b.local} : s \in {stmts[i] : i \in DOMAIN stmts}}
<1>1. Used(p.body) = {Target} \cup (named \ {NoLocal})
  <2>1. ~(p.body.kind # "expr")
    OBVIOUS
  <2>. QED  BY <2>1 DEF Used
<1>2. /\ DOMAIN stmts = 1..Len(stmts)
      /\ \A i \in 1..Len(stmts) : /\ stmts[i].dst \in Local
                                  /\ stmts[i].a.local \in Local \cup {NoLocal}
                                  /\ stmts[i].b.local \in Local \cup {NoLocal}
  BY ProgramParts
<1>3. \A i \in 1..Len(stmts) :
        stmts[i].dst \in named /\ stmts[i].a.local \in named /\ stmts[i].b.local \in named
  BY <1>2
<1>4. named \subseteq Local \cup {NoLocal}
  BY <1>2
<1> HIDE DEF named, stmts
<1>5. Used(p.body) \subseteq Local
  BY <1>1, <1>4, LocalAssumption
<1>6. ASSUME NEW i \in 1..Len(stmts)
      PROVE  /\ stmts[i].dst \in Used(p.body)
             /\ stmts[i].a.local \in Used(p.body) \cup {NoLocal}
             /\ stmts[i].b.local \in Used(p.body) \cup {NoLocal}
  BY <1>1, <1>2, <1>3, LocalAssumption
<1>. QED  BY <1>5, <1>6 DEF stmts

\* One statement.
LEMMA StatementParity ==
    ASSUME NEW p \in Programs, Plain(p), p.body.kind = "expr", Lowers(p.body),
           NEW item, item.t = "int", NEW c, NEW e, Follows(p, item, c, e),
           NEW i \in 1..Len(p.body.stmts)
    PROVE  LET how == VmStatement(c, p.body.stmts[i])
               turn == Statement(p.body, Ran(e), i)
           IN /\ how.st = "hit" => turn = Ran(turn.env) /\ Follows(p, item, how.copy, turn.env)
              /\ how.st = "error" => ~turn.ok
<1> DEFINE s == p.body.stmts[i]
           a == Operand(c, s.a)
           b == Operand(c, s.b)
           result == IntOp(s.op, a.n, b.n)
<1>1. /\ s.dst \in Local /\ s.dst \in Used(p.body) /\ Used(p.body) \subseteq Local
      /\ s.a.local \in Used(p.body) \cup {NoLocal} /\ s.b.local \in Used(p.body) \cup {NoLocal}
  BY UsedAreLocals
<1>2. s.dst # Target /\ s.op \in {"add", "mul", "div", "mod", "shl"}
  <2>1. DOMAIN p.body.stmts = 1..Len(p.body.stmts)
    BY ProgramParts
  <2>2. s.op \in {"add", "mul", "div", "mod", "shl", "other"}
    BY ProgramParts
  <2>. QED  BY <2>1, <2>2 DEF Plain, Lowers
<1>3. VmStatement(c, s)
        = IF a.t = "unset" \/ b.t = "unset" THEN Miss
          ELSE IF ~result.ok THEN Error ELSE Hit([c EXCEPT ![s.dst] = result.value])
  BY DEF VmStatement
<1>4. CASE a.t = "unset" \/ b.t = "unset"
  <2> HIDE DEF a, b, result
  <2>1. VmStatement(c, s).st = "miss"
    BY <1>3, <1>4 DEF Miss
  <2>. QED  BY <2>1
<1>5. CASE a.t # "unset" /\ b.t # "unset"
  <2>1. a.t = "int" /\ b.t = "int" /\ Operand(e, s.a) = a /\ Operand(e, s.b) = b
    <3> HIDE DEF s
    <3>. QED  BY <1>1, <1>5, OperandsAgree
  <2>2. ValueOp(s.op, a, b) = result /\ (result.ok => result.value.t = "int")
    <3> HIDE DEF s, a, b
    <3>. QED  BY <1>2, <2>1, IntegersOnly
  <2>3. Statement(p.body, Ran(e), i)
          = IF ~result.ok THEN Raised(e) ELSE Ran([e EXCEPT ![s.dst] = result.value])
    <3> HIDE DEF a, b, result
    <3>. QED  BY <2>1, <2>2 DEF Statement, Ran
  <2> HIDE DEF a, b, result
  <2>4. CASE ~result.ok
    BY <1>3, <1>5, <2>3, <2>4 DEF Error, Raised
  <2>5. CASE result.ok
    <3> DEFINE d == [c EXCEPT ![s.dst] = result.value]
               f == [e EXCEPT ![s.dst] = result.value]
    <3> HIDE DEF s
    <3>1. c = [l \in Local |-> c[l]] /\ e = [l \in Local |-> e[l]]
      BY DEF Follows
    <3>2. /\ d[s.dst] = result.value /\ f[s.dst] = result.value
          /\ \A l \in Local : l # s.dst => d[l] = c[l] /\ f[l] = e[l]
          /\ d = [l \in Local |-> d[l]] /\ f = [l \in Local |-> f[l]]
      BY <1>1, <3>1
    <3> HIDE DEF d, f
    <3>3. Follows(p, item, d, f)
      <4>1. \A l \in Local : d[l].t \in {"int", "unset"}
        BY <2>2, <2>5, <3>2 DEF Follows
      <4>2. ASSUME NEW l \in Local \ {Target}
            PROVE  f[l] = IF l \in Used(p.body) /\ d[l].t # "unset" THEN d[l] ELSE p.entry[l]
        <5>1. CASE l = s.dst
          BY <1>1, <2>2, <2>5, <3>2, <5>1
        <5>2. CASE l # s.dst
          BY <3>2, <4>2, <5>2 DEF Follows
        <5>. QED  BY <5>1, <5>2
      <4>3. d[Target] = item /\ f[Target] = item
        BY <1>2, <3>2, LocalAssumption DEF Follows
      <4>. QED  BY <3>2, <4>1, <4>2, <4>3 DEF Follows
    <3>4. VmStatement(c, s) = Hit(d) /\ Statement(p.body, Ran(e), i) = Ran(f)
      BY <1>3, <1>5, <2>3, <2>5 DEF d, f
    <3>5. Hit(d).st = "hit" /\ Hit(d).copy = d /\ Ran(f).env = f
      BY DEF Hit, Ran
    <3> HIDE DEF d, f
    <3>. QED  BY <3>3, <3>4, <3>5 DEF s
  <2>. QED  BY <2>4, <2>5
<1>. QED  BY <1>4, <1>5

\* An expression body, whatever the number of its statements.
LEMMA ExprParity ==
    ASSUME NEW p \in Programs, Plain(p), p.body.kind = "expr", Lowers(p.body),
           NEW n \in Nat, NEW c, NEW e, Agree(p, n, c, e)
    PROVE  Parity(p, n, c, e)
<1> DEFINE item == p.items[n + 1]
           last == Len(p.body.stmts)
           start == Holding(c, item)
           bound == [e EXCEPT ![Target] = item]
<1>1. last \in Nat
  BY ProgramParts
<1>2. PICK f : /\ Statements(f, p.body, bound, last)
               /\ RunStatements(p.body, bound) = f[last]
  <2> HIDE DEF bound
  <2>. QED  BY <1>1, StatementsRun
<1>3. PICK g : /\ Operations(g, p.body, start, last)
               /\ VmExpr(p.body, c, item) = IF item.t # "int" THEN Miss ELSE g[last]
  BY <1>1, OperationsRun
<1>4. Interpret(p.body, e, item) = f[last]
  BY <1>2 DEF Interpret
<1>5. VmStep(p.body, c, item) = IF item.t # "int" THEN Miss ELSE g[last]
  BY <1>3 DEF VmStep
<1>6. CASE item.t # "int"
  <2>1. VmStep(p.body, c, item).st = "miss"
    BY <1>5, <1>6 DEF Miss
  <2>. QED  BY <2>1 DEF Parity
<1>7. CASE item.t = "int"
  <2>1. f[0] = Ran(bound) /\ \A k \in 0..(last - 1) : f[k + 1] = Statement(p.body, f[k], k + 1)
    BY <1>1, <1>2, StatementsAre
  <2>2. g[0] = Hit(start) /\ \A k \in 0..(last - 1) : g[k + 1] = Operation(p.body, g[k], k + 1)
    BY <1>1, <1>3, OperationsAre
  <2>3. Follows(p, item, start, bound)
    <3>1. c = [l \in Local |-> c[l]] /\ e = [l \in Local |-> e[l]]
      BY DEF Agree
    <3>2. /\ start[Target] = item /\ bound[Target] = item
          /\ \A l \in Local : l # Target => start[l] = c[l] /\ bound[l] = e[l]
          /\ start = [l \in Local |-> start[l]] /\ bound = [l \in Local |-> bound[l]]
      BY <3>1, LocalAssumption DEF Holding
    <3>3. \A l \in Local : c[l].t \in {"int", "unset"}
      BY DEF Agree, Fit
    <3> HIDE DEF start, bound, item
    <3>4. \A l \in Local : start[l].t \in {"int", "unset"}
      BY <1>7, <3>2, <3>3
    <3>5. \A l \in Local \ {Target} :
            bound[l] = IF l \in Used(p.body) /\ start[l].t # "unset" THEN start[l] ELSE p.entry[l]
      BY <3>2 DEF Agree
    <3>. QED  BY <3>2, <3>4, <3>5 DEF Follows
  <2> DEFINE In(k) == /\ g[k].st = "hit" => /\ f[k] = Ran(f[k].env)
                                            /\ Follows(p, item, g[k].copy, f[k].env)
                      /\ g[k].st = "error" => ~f[k].ok
             S == {k \in Nat : In(k)}
  <2>4. In(0)
    <3> HIDE DEF start, bound, item
    <3>. QED  BY <2>1, <2>2, <2>3 DEF Hit, Ran
  <2>5. ASSUME NEW k \in 0..(last - 1), In(k) PROVE In(k + 1)
    <3> DEFINE statement == p.body.stmts[k + 1]
    <3>1. k + 1 \in 1..last
      BY <1>1
    <3>2. g[k + 1] = IF g[k].st = "hit" THEN VmStatement(g[k].copy, statement) ELSE g[k]
      BY <2>2 DEF Operation
    <3>3. f[k + 1] = Statement(p.body, f[k], k + 1)
      BY <2>1
    <3>4. CASE g[k].st = "hit"
      <4>1. f[k] = Ran(f[k].env) /\ Follows(p, item, g[k].copy, f[k].env)
        BY <2>5, <3>4
      <4> DEFINE how == VmStatement(g[k].copy, statement)
                 turn == Statement(p.body, Ran(f[k].env), k + 1)
      <4>2. /\ how.st = "hit" => turn = Ran(turn.env) /\ Follows(p, item, how.copy, turn.env)
            /\ how.st = "error" => ~turn.ok
        <5> HIDE DEF item
        <5>. QED  BY <1>7, <3>1, <4>1, StatementParity
      <4>3. g[k + 1] = how /\ f[k + 1] = turn
        BY <3>2, <3>3, <3>4, <4>1
      <4> HIDE DEF how, turn, item
      <4>. QED  BY <4>2, <4>3
    <3>5. CASE g[k].st # "hit"
      <4>1. g[k + 1] = g[k]
        BY <3>2, <3>5
      <4>2. g[k].st = "error" => ~f[k + 1].ok
        BY <2>5, <3>3 DEF Statement
      <4> HIDE DEF item
      <4>. QED  BY <3>5, <4>1, <4>2
    <3>. QED  BY <3>4, <3>5
  <2>6. In(last)
    <3> HIDE DEF In
    <3>1. 0 \in S /\ \A k \in 0..(last - 1) : k \in S => k + 1 \in S
      BY <2>4, <2>5
    <3> HIDE DEF S, last
    <3>2. 0..last \subseteq S /\ last \in 0..last
      BY <1>1, <3>1, UpTo
    <3>. QED  BY <3>2 DEF S
  <2>7. ASSUME g[last].st = "hit" PROVE f[last].ok /\ Agree(p, n + 1, g[last].copy, f[last].env)
    <3>1. f[last] = Ran(f[last].env) /\ Follows(p, item, g[last].copy, f[last].env)
      BY <2>6, <2>7
    <3>2. f[last].ok
      BY <3>1 DEF Ran
    <3> DEFINE d == g[last].copy
               h == f[last].env
    <3>3. Fit(p, d)
      BY <3>1 DEF Fit, Follows
    <3>4. n + 1 # 0
      OBVIOUS
    <3>5. Agree(p, n + 1, d, h)
      BY <3>1, <3>3, <3>4 DEF Agree, Follows
    <3>. QED  BY <3>2, <3>5
  <2> HIDE DEF last, item
  <2>. QED  BY <1>4, <1>5, <1>7, <2>6, <2>7 DEF Parity, item
<1>. QED  BY <1>6, <1>7

\* A row of a plain loop, whatever its body.
LEMMA RowParity ==
    ASSUME NEW p \in Programs, Plain(p), Lowers(p.body),
           NEW n \in Nat, n + 1 <= Len(p.items), NEW c, NEW e, Agree(p, n, c, e)
    PROVE  Parity(p, n, c, e)
<1>1. p.body.kind \in {"add", "append", "count", "tally", "expr"}
  BY ProgramParts
<1>2. p.body.kind # "tally"
  BY DEF Plain
<1>. QED  BY <1>1, <1>2, AddParity, AppendParity, CountParity, ExprParity

\* A step of the VM is one of three.
LEMMA StepKinds ==
    ASSUME NEW p \in Programs, NEW c, NEW item
    PROVE  VmStep(p.body, c, item).st \in {"hit", "miss", "error"}
<1> DEFINE Of(how) == how.st \in {"hit", "miss", "error"}
<1>1. Of(Miss) /\ Of(Error) /\ \A d : Of(Hit(d))
  BY DEF Hit, Miss, Error
<1>2. Len(p.body.stmts) \in Nat /\ p.body.kind \in {"add", "append", "count", "tally", "expr"}
  BY ProgramParts
<1>3. Of(VmAdd(p.body, c, item)) /\ Of(VmAppend(p.body, c, item))
  <2> HIDE DEF Of
  <2>1. Of(VmAdd(p.body, c, item))
    BY <1>1, Zenon DEF VmAdd
  <2>2. Of(VmAppend(p.body, c, item))
    BY <1>1, Zenon DEF VmAppend
  <2>. QED  BY <2>1, <2>2
<1>4. \A k : Of(VmCount(p.body, c, k))
  <2> HIDE DEF Of
  <2>. QED  BY <1>1, Zenon DEF VmCount
<1>5. Of(VmTally(p.body, c, item))
  <2> HIDE DEF Of
  <2>. QED  BY <1>1, <1>4, Zenon DEF VmTally
<1>6. Of(VmExpr(p.body, c, item))
  <2> DEFINE last == Len(p.body.stmts)
  <2>1. PICK g : /\ Operations(g, p.body, Holding(c, item), last)
                 /\ VmExpr(p.body, c, item) = IF item.t # "int" THEN Miss ELSE g[last]
    BY <1>2, OperationsRun
  <2>2. /\ g[0] = Hit(Holding(c, item))
        /\ \A k \in 0..(last - 1) : g[k + 1] = Operation(p.body, g[k], k + 1)
    BY <1>2, <2>1, OperationsAre
  <2> DEFINE S == {k \in Nat : Of(g[k])}
  <2> HIDE DEF Of
  <2>3. \A d, s : Of(VmStatement(d, s))
    BY <1>1, Zenon DEF VmStatement
  <2>4. 0 \in S
    BY <1>1, <2>2
  <2>5. ASSUME NEW k \in 0..(last - 1), k \in S PROVE k + 1 \in S
    BY <2>2, <2>3, <2>5 DEF Operation
  <2>6. last \in S
    <3>1. last \in Nat /\ last \in 0..last
      BY <1>2 DEF last
    <3> HIDE DEF S, last
    <3>2. 0..last \subseteq S
      BY <2>4, <2>5, <3>1, UpTo
    <3>. QED  BY <3>1, <3>2
  <2>. QED  BY <1>1, <2>1, <2>6
<1> HIDE DEF Of
<1>7. Of(VmStep(p.body, c, item))
  BY <1>2, <1>3, <1>4, <1>5, <1>6 DEF VmStep
<1>. QED  BY <1>7 DEF Of
-----------------------------------------------------------------------------
(***************************************************************************)
(* The loop.                                                               *)
(***************************************************************************)
\* The rows before this one went well in the interpreter too, and the variables
\* are what it has after them: in the program when it is interpreted, between the
\* copy and the entry while the VM runs.
LoopInv ==
    /\ program \in Programs
    /\ Plain(program) =>
         /\ row \in 1..(Len(program.items) + 1)
         /\ Baseline(program, row - 1).ok
         /\ phase \in {"entry", "vm", "interpret", "done", "failed"}
         /\ phase = "entry" => env = program.entry /\ row = 1
         /\ phase = "vm" => /\ env = program.entry /\ Lowers(program.body)
                            /\ Agree(program, row - 1, copy, Baseline(program, row - 1).env)
         /\ phase = "interpret" => env = Baseline(program, row - 1).env
         /\ phase = "done" => /\ row = Len(program.items) + 1
                              /\ env = Baseline(program, row - 1).env
         /\ phase = "failed" => /\ row <= Len(program.items)
                                /\ ~Baseline(program, row).ok
                                /\ env \in {program.entry, Baseline(program, row).env}

\* What the VM copies of a plain loop's variables agrees with the entry, and
\* nothing in it stops the loop.
LEMMA LoadAgrees ==
    ASSUME NEW p \in Programs, Plain(p)
    PROVE  LET loaded == Load(p.body, p.entry)
           IN /\ loaded.st # "error"
              /\ loaded.st = "hit" => Agree(p, 0, loaded.copy, p.entry)
<1> DEFINE held == p.body.acc
           loaded == Load(p.body, p.entry)
<1>1. /\ held \in Local /\ p.entry = [l \in Local |-> p.entry[l]]
      /\ \A l \in Local : p.entry[l] \in VmValue
      /\ p.body.kind \in {"add", "append", "count", "tally", "expr"}
  BY ProgramParts
<1>2. p.body.kind # "tally"
  BY DEF Plain
<1>3. p.entry[held] = ValueOf(p.entry[held].t, p.entry[held].n, p.entry[held].s, p.entry[held].m)
  BY <1>1 DEF VmValue, ValueOf
<1>4. p.entry[held].m = [k \in Key |-> p.entry[held].m[k]]
  BY <1>1 DEF VmValue
<1>5. ASSUME NEW c, Fit(p, c), c = [l \in Local |-> c[l]],
             \A l \in Local : l \in Used(p.body) /\ c[l].t # "unset" => c[l] = p.entry[l]
      PROVE  Agree(p, 0, c, p.entry)
  BY <1>1, <1>5 DEF Agree
<1>6. CASE p.body.kind = "add"
  <2>1. loaded = IF Number(p.entry[held]) THEN Hit(p.entry) ELSE Miss
    BY <1>6 DEF Load
  <2>2. CASE Number(p.entry[held])
    <3>1. Fit(p, p.entry)
      BY <1>6, <2>2 DEF Fit
    <3>. QED  BY <1>1, <1>5, <2>1, <2>2, <3>1 DEF Hit
  <2>3. CASE ~Number(p.entry[held])
    BY <2>1, <2>3 DEF Miss
  <2>. QED  BY <2>2, <2>3
<1>7. CASE p.body.kind = "append"
  <2>1. p.entry[held].t = "list"
    BY <1>7 DEF Plain
  <2>2. loaded = Hit(p.entry)
    BY <1>7, <2>1 DEF Load
  <2>3. Fit(p, p.entry)
    BY <1>3, <1>7, <2>1 DEF Fit
  <2>. QED  BY <1>1, <1>5, <2>2, <2>3 DEF Hit
<1>8. CASE p.body.kind = "count"
  <2>1. p.entry[held].t = "map" /\ \A k \in Key : p.entry[held].m[k][1] \in {"none", "int"}
    BY <1>8 DEF Plain
  <2>2. AsIntMap(p.entry[held].m) = p.entry[held].m
    BY <1>4, <2>1 DEF AsIntMap
  <2>3. loaded = Hit([p.entry EXCEPT ![held].m = AsIntMap(@)])
    BY <1>8, <2>1 DEF Load
  <2>4. [p.entry EXCEPT ![held].m = AsIntMap(@)] = p.entry
    BY <1>1, <1>3, <2>2 DEF ValueOf
  <2>5. Fit(p, p.entry)
    BY <1>3, <1>4, <1>8, <2>1 DEF Fit
  <2>. QED  BY <1>1, <1>5, <2>3, <2>4, <2>5 DEF Hit
<1>9. CASE p.body.kind = "expr"
  <2> DEFINE c == [l \in Local |-> IF p.entry[l].t = "int" THEN p.entry[l] ELSE Unset]
  <2>1. loaded = Hit(c)
    BY <1>9 DEF Load
  <2>2. \A l \in Local : c[l].t \in {"int", "unset"} /\ (c[l].t # "unset" => c[l] = p.entry[l])
    BY DEF Unset, ValueOf
  <2>3. c = [l \in Local |-> c[l]]
    OBVIOUS
  <2> HIDE DEF c
  <2>4. Fit(p, c)
    BY <1>9, <2>2 DEF Fit
  <2>5. Agree(p, 0, c, p.entry)
    BY <1>5, <2>2, <2>3, <2>4
  <2>. QED  BY <2>1, <2>5 DEF Hit
<1>. QED  BY <1>1, <1>2, <1>6, <1>7, <1>8, <1>9

LEMMA LoopInit == Init => LoopInv
<1> SUFFICES ASSUME Init PROVE LoopInv
  OBVIOUS
<1>1. program \in Programs /\ phase = "entry" /\ row = 1 /\ env = program.entry
  BY DEF Init
<1>2. Baseline(program, 0) = Ran(program.entry) /\ Len(program.items) \in Nat
  BY <1>1, BaselineTurns, ProgramParts
<1>3. Baseline(program, row - 1).ok /\ row \in 1..(Len(program.items) + 1)
  BY <1>1, <1>2 DEF Ran
<1>. QED  BY <1>1, <1>3 DEF LoopInv

\* Going back to the interpreter starts over.
LEMMA FallsBack ==
    ASSUME LoopInv, Plain(program), phase \in {"entry", "vm"}, FallBack, UNCHANGED <<program, env>>
    PROVE  LoopInv'
<1>1. program \in Programs /\ env = program.entry
  BY DEF LoopInv
<1>2. Baseline(program, 0) = Ran(program.entry) /\ Len(program.items) \in Nat
  BY <1>1, BaselineTurns, ProgramParts
<1>3. phase' = "interpret" /\ row' = 1 /\ program' = program /\ env' = env
  BY DEF FallBack
<1>4. Baseline(program', row' - 1) = Ran(program.entry) /\ row' \in 1..(Len(program'.items) + 1)
  BY <1>2, <1>3
<1>. QED  BY <1>1, <1>3, <1>4 DEF LoopInv, Ran

LEMMA EnterKeeps ==
    ASSUME LoopInv, Plain(program), NEW hot \in BOOLEAN, Enter(hot)
    PROVE  LoopInv'
<1> DEFINE loaded == Load(program.body, env)
<1>1. /\ program \in Programs /\ phase = "entry" /\ env = program.entry /\ row = 1
      /\ Baseline(program, row - 1).ok /\ program' = program /\ env' = env
      /\ row \in 1..(Len(program.items) + 1)
  BY DEF LoopInv, Enter
<1>2. CASE ~hot \/ ~Lowers(program.body) \/ loaded.st = "miss"
  <2>1. FallBack
    BY <1>2 DEF Enter
  <2>. QED  BY <1>1, <2>1, FallsBack
<1>3. CASE ~(~hot \/ ~Lowers(program.body) \/ loaded.st = "miss")
  <2>1. loaded.st # "error" /\ (loaded.st = "hit" => Agree(program, 0, loaded.copy, program.entry))
    BY <1>1, LoadAgrees
  <2>2. loaded.st \in {"hit", "miss", "error"}
    <3>1. program.body.kind \in {"add", "append", "count", "tally", "expr"}
      BY <1>1, ProgramParts
    <3>. QED  BY <3>1 DEF Load, Hit, Miss, Error
  <2>3. phase' = "vm" /\ copy' = loaded.copy /\ row' = row /\ Lowers(program.body)
    BY <1>3, <2>1 DEF Enter
  <2>4. Baseline(program, row - 1) = Ran(program.entry)
    BY <1>1, BaselineTurns
  <2>5. Agree(program, row - 1, copy', Baseline(program, row - 1).env)
    <3>1. row - 1 = 0 /\ Baseline(program, row - 1).env = program.entry
      BY <1>1, <2>4 DEF Ran
    <3> HIDE DEF loaded
    <3>. QED  BY <1>3, <2>1, <2>2, <2>3, <3>1
  <2>. QED  BY <1>1, <2>3, <2>5 DEF LoopInv
<1>. QED  BY <1>2, <1>3

LEMMA VmRowKeeps ==
    ASSUME LoopInv, Plain(program), VmRow
    PROVE  LoopInv'
<1> DEFINE n == row - 1
           item == program.items[row]
           how == VmStep(program.body, copy, item)
           before == Baseline(program, n)
<1>1. /\ program \in Programs /\ phase = "vm" /\ env = program.entry /\ Lowers(program.body)
      /\ before.ok /\ program' = program /\ env' = env /\ row <= Len(program.items)
      /\ row \in 1..(Len(program.items) + 1) /\ Agree(program, n, copy, before.env)
  BY DEF LoopInv, VmRow
<1>2. n \in Nat /\ n + 1 = row /\ n + 1 <= Len(program.items) /\ Len(program.items) \in Nat
  <2>1. Len(program.items) \in Nat
    BY <1>1, ProgramParts
  <2>. QED  BY <1>1, <2>1
<1>3. Baseline(program, row) = Interpret(program.body, before.env, item)
  <2>1. Baseline(program, n + 1) = Turn(program, Baseline(program, n), n + 1)
    BY <1>2, BaselineTurns
  <2>. QED  BY <1>1, <1>2, <2>1 DEF Turn
<1>4. /\ how.st = "hit" => /\ Baseline(program, row).ok
                            /\ Agree(program, row, how.copy, Baseline(program, row).env)
      /\ how.st = "error" => ~Baseline(program, row).ok
  <2>1. Parity(program, n, copy, before.env)
    <3> HIDE DEF n, before
    <3>. QED  BY <1>1, <1>2, RowParity
  <2>2. /\ how.st = "hit" =>
             /\ Interpret(program.body, before.env, item).ok
             /\ Agree(program, row, how.copy, Interpret(program.body, before.env, item).env)
        /\ how.st = "error" => ~Interpret(program.body, before.env, item).ok
    <3> HIDE DEF n, before
    <3>. QED  BY <1>2, <2>1 DEF Parity
  <2> HIDE DEF how, before, item
  <2>. QED  BY <1>3, <2>2
<1> HIDE DEF before, n
<1>5. CASE how.st = "miss"
  <2>1. FallBack
    BY <1>5 DEF VmRow
  <2>. QED  BY <1>1, <2>1, FallsBack
<1>6. CASE how.st = "error"
  <2>1. phase' = "failed" /\ row' = row
    BY <1>6 DEF VmRow
  <2>2. Baseline(program, row - 1).ok
    BY DEF LoopInv
  <2> HIDE DEF how
  <2>. QED  BY <1>1, <1>4, <1>6, <2>1, <2>2 DEF LoopInv
<1>7. CASE how.st \notin {"miss", "error"}
  <2>1. phase' = "vm" /\ row' = row + 1 /\ copy' = how.copy
    BY <1>1, <1>7 DEF VmRow
  <2>2. how.st = "hit"
    <3>1. program.body.kind \in {"add", "append", "count", "tally", "expr"}
      BY <1>1, ProgramParts
    <3>2. program.body.kind # "tally"
      BY DEF Plain
    <3>. QED  BY <1>7, <3>1, <3>2, StepKinds, <1>1
  <2>3. row' - 1 = row /\ row' \in 1..(Len(program.items) + 1)
    BY <1>1, <1>2, <2>1
  <2>4. /\ Baseline(program', row' - 1).ok
        /\ Agree(program', row' - 1, copy', Baseline(program', row' - 1).env)
    <3> HIDE DEF how
    <3>. QED  BY <1>1, <1>4, <2>1, <2>2, <2>3
  <2>5. env' = program'.entry /\ Lowers(program'.body) /\ program' \in Programs
    BY <1>1
  <2>. QED  BY <1>1, <2>1, <2>3, <2>4, <2>5 DEF LoopInv
<1>. QED  BY <1>5, <1>6, <1>7

LEMMA CommitKeeps ==
    ASSUME LoopInv, Plain(program), Commit
    PROVE  LoopInv'
<1> DEFINE n == row - 1
           after == Baseline(program, n)
<1>1. /\ program \in Programs /\ phase = "vm" /\ env = program.entry /\ after.ok
      /\ row \in 1..(Len(program.items) + 1) /\ row > Len(program.items)
      /\ program' = program /\ row' = row /\ phase' = "done"
      /\ Agree(program, n, copy, after.env)
  BY DEF LoopInv, Commit
<1>2. Len(program.items) \in Nat /\ (program.items = <<>> <=> Len(program.items) = 0)
  BY <1>1, ProgramParts
<1>3. n = Len(program.items) /\ row = Len(program.items) + 1
  BY <1>1, <1>2
<1>4. env' = [l \in Local |->
                IF l = Target /\ n # 0 THEN program.items[n]
                ELSE IF l \in Used(program.body) /\ copy[l].t # "unset" THEN copy[l]
                ELSE program.entry[l]]
  <2> HIDE DEF n
  <2>. QED  BY <1>1, <1>2, <1>3 DEF Commit
<1> HIDE DEF after
<1>5. env' = after.env
  <2> DEFINE h(l) == IF l = Target /\ n # 0 THEN program.items[n]
                     ELSE IF l \in Used(program.body) /\ copy[l].t # "unset" THEN copy[l]
                     ELSE program.entry[l]
  <2>1. n \in Nat
    BY <1>2, <1>3
  <2> HIDE DEF n
  <2>2. ASSUME NEW l \in Local PROVE after.env[l] = h(l)
    <3>1. CASE l = Target /\ n # 0
      BY <1>1, <2>1, <3>1 DEF Agree
    <3>2. CASE ~(l = Target /\ n # 0)
      BY <1>1, <3>2 DEF Agree
    <3>. QED  BY <3>1, <3>2
  <2>3. after.env = [l \in Local |-> after.env[l]]
    BY <1>1 DEF Agree
  <2>4. env' = [l \in Local |-> h(l)]
    BY <1>4
  <2> HIDE DEF h
  <2>. QED  BY <2>2, <2>3, <2>4
<1>6. env' = Baseline(program', row' - 1).env /\ Baseline(program', row' - 1).ok
  BY <1>1, <1>5 DEF after
<1>. QED  BY <1>1, <1>3, <1>6 DEF LoopInv

LEMMA InterpretRowKeeps ==
    ASSUME LoopInv, Plain(program), InterpretRow
    PROVE  LoopInv'
<1> DEFINE n == row - 1
           before == Baseline(program, n)
           how == Interpret(program.body, env, program.items[row])
<1>1. /\ program \in Programs /\ phase = "interpret" /\ before.ok /\ env = before.env
      /\ row \in 1..(Len(program.items) + 1) /\ program' = program
  BY DEF LoopInv, InterpretRow
<1>2. Len(program.items) \in Nat /\ n \in Nat /\ n + 1 = row
  <2>1. Len(program.items) \in Nat
    BY <1>1, ProgramParts
  <2>. QED  BY <1>1, <2>1
<1>3. Baseline(program, row) = how
  <2>1. Baseline(program, n + 1) = Turn(program, Baseline(program, n), n + 1)
    BY <1>2, BaselineTurns
  <2>. QED  BY <1>1, <1>2, <2>1 DEF Turn
<1>4. CASE row > Len(program.items)
  <2>1. phase' = "done" /\ row' = row /\ env' = env /\ row = Len(program.items) + 1
    BY <1>1, <1>2, <1>4 DEF InterpretRow
  <2>. QED  BY <1>1, <2>1 DEF LoopInv
<1>5. CASE ~(row > Len(program.items))
  <2>1. row <= Len(program.items)
    BY <1>1, <1>2, <1>5
  <2>2. env' = how.env
    BY <1>5 DEF InterpretRow
  <2>3. CASE how.ok
    <3>1. row' = row + 1 /\ phase' = phase
      BY <1>5, <2>3 DEF InterpretRow
    <3>2. row' - 1 = row /\ row' \in 1..(Len(program.items) + 1)
      BY <1>1, <1>2, <2>1, <3>1
    <3>3. Baseline(program', row' - 1) = how
      BY <1>1, <1>3, <3>2
    <3> HIDE DEF how
    <3>. QED  BY <1>1, <2>2, <2>3, <3>1, <3>2, <3>3 DEF LoopInv
  <2>4. CASE ~how.ok
    <3>1. row' = row /\ phase' = "failed"
      BY <1>5, <2>4 DEF InterpretRow
    <3>2. Baseline(program', row' - 1).ok /\ Baseline(program', row') = how
      BY <1>1, <1>3, <3>1
    <3> HIDE DEF how
    <3>. QED  BY <1>1, <2>1, <2>2, <2>4, <3>1, <3>2 DEF LoopInv
  <2>. QED  BY <2>3, <2>4
<1>. QED  BY <1>4, <1>5

LEMMA LoopStep == LoopInv /\ [Next]_vars => LoopInv'
<1> SUFFICES ASSUME LoopInv, [Next]_vars PROVE LoopInv'
  OBVIOUS
<1>1. CASE UNCHANGED vars
  BY <1>1 DEF LoopInv, vars
<1>2. program' = program
  BY DEF Next, Enter, VmRow, Commit, InterpretRow, vars
<1>3. CASE ~Plain(program)
  BY <1>2, <1>3 DEF LoopInv
<1>4. CASE Plain(program) /\ Next
  BY <1>4, EnterKeeps, VmRowKeeps, CommitKeeps, InterpretRowKeeps DEF Next
<1>. QED  BY <1>1, <1>3, <1>4

LEMMA LoopSafe == LoopInv => LoopParity
<1> SUFFICES ASSUME LoopInv, Plain(program) PROVE LoopParity
  BY DEF LoopParity, SuccessParity, FailureParity
<1>1. /\ program \in Programs /\ row \in 1..(Len(program.items) + 1)
      /\ Baseline(program, row - 1).ok /\ Len(program.items) \in Nat
  BY ProgramParts DEF LoopInv
<1>2. SuccessParity
  <2> SUFFICES ASSUME phase = "done" PROVE Whole.ok /\ env = Whole.env
    BY DEF SuccessParity
  <2>1. row - 1 = Len(program.items) /\ env = Baseline(program, row - 1).env
    BY <1>1 DEF LoopInv
  <2>. QED  BY <1>1, <2>1 DEF Whole
<1>3. FailureParity
  <2> SUFFICES ASSUME phase = "failed"
               PROVE  /\ ~Whole.ok
                      /\ Baseline(program, row - 1).ok /\ ~Baseline(program, row).ok
                      /\ env \in {program.entry, Whole.env}
    BY DEF FailureParity
  <2>1. /\ row <= Len(program.items) /\ ~Baseline(program, row).ok
        /\ env \in {program.entry, Baseline(program, row).env}
    BY DEF LoopInv
  <2>2. Whole = Baseline(program, row)
    BY <1>1, <2>1, BaselineStops DEF Whole
  <2>. QED  BY <1>1, <2>1, <2>2
<1>. QED  BY <1>2, <1>3 DEF LoopParity

\* For every loop, whatever its rows, its body and the width of an integer: a plain
\* loop that the VM runs, that it gives back half-way, or that it never had, ends
\* with the variables the interpreter would have left, and fails only at the row
\* where the interpreter fails, with the entry's variables or the interpreter's
\* (execute_generic_vm_function, eval_for_values).
THEOREM LoopsAgree == Spec => []LoopParity
<1>1. Init => LoopInv
  BY LoopInit
<1>2. LoopInv /\ [Next]_vars => LoopInv'
  BY LoopStep
<1>3. LoopInv => LoopParity
  BY LoopSafe
<1>. QED  BY <1>1, <1>2, <1>3, PTL DEF Spec

-----------------------------------------------------------------------------
(***************************************************************************)
(* Texts.                                                                  *)
(***************************************************************************)
Content == Seq(STRING)

\* Parts of a text, and how they are put together.
LEMMA PartOfText ==
    ASSUME NEW S, NEW s \in Seq(S), NEW from \in 1..(Len(s) + 1), NEW to \in (from - 1)..Len(s)
    PROVE  /\ SubSeq(s, from, to) \in Seq(S) /\ Len(SubSeq(s, from, to)) = to - from + 1
           /\ \A i \in 1..(to - from + 1) : SubSeq(s, from, to)[i] = s[from + i - 1]
<1>1. from \in Int /\ to \in Int /\ \A i \in from..to : s[i] \in S
  OBVIOUS
<1>2. /\ SubSeq(s, from, to) \in Seq(S)
      /\ Len(SubSeq(s, from, to)) = IF from <= to THEN to - from + 1 ELSE 0
      /\ \A i \in 1..(to - from + 1) : SubSeq(s, from, to)[i] = s[from + i - 1]
  BY <1>1, SubSeqProperties
<1>. QED  BY <1>2

LEMMA WithoutIs ==
    ASSUME NEW S, NEW s \in Seq(S), NEW n \in 0..Len(s)
    PROVE  /\ Without(s, n) \in Seq(S) /\ Len(Without(s, n)) = Len(s) - n
           /\ \A i \in 1..(Len(s) - n) : Without(s, n)[i] = s[n + i]
<1>1. n + 1 \in 1..(Len(s) + 1) /\ Len(s) \in ((n + 1) - 1)..Len(s)
  OBVIOUS
<1> DEFINE from == n + 1
<1>2. /\ SubSeq(s, from, Len(s)) \in Seq(S) /\ Len(SubSeq(s, from, Len(s))) = Len(s) - from + 1
      /\ \A i \in 1..(Len(s) - from + 1) : SubSeq(s, from, Len(s))[i] = s[from + i - 1]
  <2>1. from \in 1..(Len(s) + 1) /\ Len(s) \in (from - 1)..Len(s)
    BY <1>1
  <2> HIDE DEF from
  <2>. QED  BY <2>1, PartOfText
<1>3. Without(s, n) = SubSeq(s, from, Len(s))
  BY DEF Without
<1>4. Len(s) - from + 1 = Len(s) - n /\ \A i \in 1..(Len(s) - n) : from + i - 1 = n + i
  OBVIOUS
<1> HIDE DEF from
<1>. QED  BY <1>2, <1>3, <1>4

LEMMA TakenIs ==
    ASSUME NEW S, NEW s \in Seq(S), NEW n \in 0..Len(s)
    PROVE  /\ Taken(s, n) \in Seq(S) /\ Len(Taken(s, n)) = n
           /\ \A i \in 1..n : Taken(s, n)[i] = s[i]
<1>1. Least(n, Len(s)) = n /\ Len(s) \in Nat
  BY DEF Least
<1>2. 1 \in 1..(Len(s) + 1) /\ n \in (1 - 1)..Len(s)
  BY <1>1
<1>3. /\ SubSeq(s, 1, n) \in Seq(S) /\ Len(SubSeq(s, 1, n)) = n - 1 + 1
      /\ \A i \in 1..(n - 1 + 1) : SubSeq(s, 1, n)[i] = s[1 + i - 1]
  BY <1>2, PartOfText
<1>4. n - 1 + 1 = n /\ \A i \in 1..n : 1 + i - 1 = i
  OBVIOUS
<1>. QED  BY <1>1, <1>3, <1>4 DEF Taken

LEMMA JoinedIs ==
    ASSUME NEW S, NEW s \in Seq(S), NEW t \in Seq(S)
    PROVE  Taken(s \o t, Len(s)) = s /\ Without(s \o t, Len(s)) = t
<1>1. /\ s \o t \in Seq(S) /\ Len(s \o t) = Len(s) + Len(t)
      /\ \A i \in 1..(Len(s) + Len(t)) : (s \o t)[i] = IF i <= Len(s) THEN s[i] ELSE t[i - Len(s)]
  BY ConcatProperties
<1> DEFINE st == s \o t
<1>2. Len(s) \in 0..Len(st) /\ Len(s) \in Nat /\ Len(t) \in Nat /\ st \in Seq(S)
      /\ Len(st) = Len(s) + Len(t)
  BY <1>1
<1>3. Taken(st, Len(s)) = s
  <2>1. /\ Taken(st, Len(s)) \in Seq(S) /\ Len(Taken(st, Len(s))) = Len(s)
        /\ \A i \in 1..Len(s) : Taken(st, Len(s))[i] = st[i]
    <3> HIDE DEF st
    <3>. QED  BY <1>2, TakenIs
  <2>2. \A i \in 1..Len(s) : st[i] = s[i]
    BY <1>1
  <2> DEFINE taken == Taken(st, Len(s))
  <2>3. taken \in Seq(S) /\ Len(taken) = Len(s) /\ \A i \in 1..Len(taken) : taken[i] = s[i]
    BY <2>1, <2>2
  <2> HIDE DEF taken
  <2>4. taken = s
    BY <2>3, SeqEqual
  <2>. QED  BY <2>4 DEF taken
<1>4. Without(st, Len(s)) = t
  <2>1. /\ Without(st, Len(s)) \in Seq(S) /\ Len(Without(st, Len(s))) = Len(st) - Len(s)
        /\ \A i \in 1..(Len(st) - Len(s)) : Without(st, Len(s))[i] = st[Len(s) + i]
    <3> HIDE DEF st
    <3>. QED  BY <1>2, WithoutIs
  <2>2. Len(st) - Len(s) = Len(t) /\ \A i \in 1..Len(t) : st[Len(s) + i] = t[i]
    <3>1. \A i \in 1..Len(t) : Len(s) + i \in 1..(Len(s) + Len(t)) /\ ~(Len(s) + i <= Len(s))
                               /\ (Len(s) + i) - Len(s) = i
      BY <1>2
    <3>. QED  BY <1>1, <1>2, <3>1
  <2> DEFINE rest == Without(st, Len(s))
  <2>3. rest \in Seq(S) /\ Len(rest) = Len(t) /\ \A i \in 1..Len(rest) : rest[i] = t[i]
    BY <2>1, <2>2
  <2> HIDE DEF rest
  <2>4. rest = t
    BY <2>3, SeqEqual
  <2>. QED  BY <2>4 DEF rest
<1>. QED  BY <1>3, <1>4

\* Where the next match is.
LEMMA NextMatchIs ==
    ASSUME NEW text \in Content, NEW old \in Content, NEW from \in 1..(Len(text) + 1)
    PROVE  LET i == NextMatch(text, old, from)
           IN i = 0 \/ (i \in from..(Len(text) + 1) /\ i + Len(old) \in 1..(Len(text) + 1))
<1> DEFINE at == {i \in Occurrences(text, old) : i >= from}
<1>1. Len(text) \in Nat /\ Len(old) \in Nat
  BY DEF Content
<1>2. \A i \in at : i \in Nat /\ i \in from..(Len(text) + 1) /\ i + Len(old) \in 1..(Len(text) + 1)
  BY <1>1 DEF Occurrences
<1>3. NextMatch(text, old, from) = IF at = {} THEN 0 ELSE CHOOSE i \in at : \A j \in at : i <= j
  BY Zenon DEF NextMatch
<1> HIDE DEF at
<1>4. CASE at = {}
  BY <1>3, <1>4
<1>5. CASE at # {}
  <2>1. \E i \in at : \A j \in at : i <= j
    BY <1>2, <1>5, LeastExists
  <2>2. NextMatch(text, old, from) \in at
    BY <1>3, <1>5, <2>1, Zenon
  <2>. QED  BY <1>2, <2>2
<1>. QED  BY <1>4, <1>5

\* The matches from each place on, as matches counts them.
CountFrom(g, text, old, from) ==
    LET i == NextMatch(text, old, from) IN IF i = 0 THEN 0 ELSE 1 + g[i + Len(old)]
CountsOf(g, text, old) == g = [from \in 1..(Len(text) + 1) |-> CountFrom(g, text, old, from)]

LEMMA CountsExist ==
    ASSUME NEW text \in Content, NEW old \in Content, old # <<>>
    PROVE  \E g : CountsOf(g, text, old)
<1> DEFINE last == Len(text)
           F == [0..last -> Nat]
           at(k) == NextMatch(text, old, last + 1 - k)
           h(k, f) == IF at(k) = 0 THEN 0 ELSE 1 + f[last + 1 - (at(k) + Len(old))]
           how == [k \in 0..last |-> [f \in F |-> h(k, f)]]
<1>1. last \in Nat /\ Len(old) \in Nat \ {0}
  BY DEF Content
<1>2. ASSUME NEW k \in 0..last
      PROVE  /\ last + 1 - k \in 1..(last + 1)
             /\ at(k) = 0 \/ (at(k) \in Nat /\ last + 1 - (at(k) + Len(old)) \in 0..(k - 1))
  <2> DEFINE from == last + 1 - k
             i == NextMatch(text, old, from)
  <2>1. from \in 1..(last + 1)
    BY <1>1
  <2>2. i = 0 \/ (i \in from..(last + 1) /\ i + Len(old) \in 1..(last + 1))
    <3> HIDE DEF from
    <3>. QED  BY <2>1, NextMatchIs
  <2> HIDE DEF i, last
  <2>3. i = 0 \/ (i \in Nat /\ last + 1 - (i + Len(old)) \in 0..(k - 1))
    BY <1>1, <2>1, <2>2
  <2>. QED  BY <2>1, <2>3 DEF i
<1>3. ASSUME NEW k \in 0..last, NEW f \in F PROVE h(k, f) \in Nat
  <2> HIDE DEF at, last
  <2>1. at(k) # 0 => last + 1 - (at(k) + Len(old)) \in 0..last
    BY <1>1, <1>2
  <2>. QED  BY <1>1, <2>1
<1>4. how \in [0..last -> [F -> Nat]] /\ \A k \in 0..last, f \in F : how[k][f] = h(k, f)
  <2> HIDE DEF h, F
  <2>. QED  BY <1>3
<1>5. ASSUME NEW k \in 0..last, NEW f \in F, NEW g \in F, \A j \in 0..(k - 1) : f[j] = g[j]
      PROVE  how[k][f] = how[k][g]
  <2>1. h(k, f) = h(k, g)
    <3> HIDE DEF at, last, F
    <3>. QED  BY <1>2, <1>5
  <2> HIDE DEF h, how, F
  <2>. QED  BY <1>4, <2>1
<1>6. Definition(how, Nat, last)
  <2> HIDE DEF how
  <2>. QED  BY <1>1, <1>4, <1>5 DEF Definition
<1>7. PICK f : Meets(f, how, Nat, last)
  <2> HIDE DEF how, last
  <2>. QED  BY <1>6, CourseOfValues
<1>8. f \in F /\ \A k \in 0..last : f[k] = h(k, f)
  <2> HIDE DEF h, how
  <2>. QED  BY <1>4, <1>7 DEF Meets
<1> DEFINE g == [from \in 1..(last + 1) |-> f[last + 1 - from]]
<1>9. ASSUME NEW from \in 1..(last + 1) PROVE f[last + 1 - from] = CountFrom(g, text, old, from)
  <2> DEFINE k == last + 1 - from
             i == NextMatch(text, old, from)
  <2>1. k \in 0..last /\ last + 1 - k = from
    BY <1>1
  <2>2. at(k) = i /\ f[k] = h(k, f)
    <3> HIDE DEF h, k
    <3>. QED  BY <1>8, <2>1
  <2>3. i # 0 => i + Len(old) \in 1..(last + 1)
    BY NextMatchIs
  <2>4. i # 0 => g[i + Len(old)] = f[last + 1 - (i + Len(old))]
    <3> HIDE DEF i, last
    <3>. QED  BY <2>3
  <2> HIDE DEF k, at, g
  <2>5. f[k] = IF i = 0 THEN 0 ELSE 1 + g[i + Len(old)]
    BY <2>2, <2>4
  <2>. QED  BY <2>5, Zenon DEF CountFrom, k
<1>10. CountsOf(g, text, old)
  <2> DEFINE c(from) == CountFrom(g, text, old, from)
  <2>1. g = [from \in 1..(last + 1) |-> c(from)]
    <3> HIDE DEF c
    <3>1. \A from \in 1..(last + 1) : f[last + 1 - from] = c(from)
      BY <1>9 DEF c
    <3>. QED  BY <3>1
  <2> HIDE DEF g
  <2>. QED  BY <2>1, Zenon DEF CountsOf
<1>. QED  BY <1>10

\* Whatever meets that definition is a number from each place on.
LEMMA CountsAre ==
    ASSUME NEW text \in Content, NEW old \in Content, old # <<>>, NEW g, CountsOf(g, text, old)
    PROVE  /\ \A from \in 1..(Len(text) + 1) : g[from] \in Nat
           /\ \A from \in 1..(Len(text) + 1) :
                LET i == NextMatch(text, old, from)
                IN g[from] = IF i = 0 THEN 0 ELSE 1 + g[i + Len(old)]
<1> DEFINE last == Len(text)
<1>1. last \in Nat /\ Len(old) \in Nat \ {0}
  BY DEF Content
<1>2. \A from \in 1..(last + 1) : g[from] = CountFrom(g, text, old, from)
  BY Zenon DEF CountsOf
<1>3. \A from \in 1..(last + 1) :
        LET i == NextMatch(text, old, from)
        IN g[from] = IF i = 0 THEN 0 ELSE 1 + g[i + Len(old)]
  BY <1>2, Zenon DEF CountFrom
<1> DEFINE S == {k \in Nat : \A j \in 0..k : j <= last => g[last + 1 - j] \in Nat}
<1>4. ASSUME NEW k \in 0..last, \A j \in 0..(k - 1) : g[last + 1 - j] \in Nat
      PROVE  g[last + 1 - k] \in Nat
  <2> DEFINE from == last + 1 - k
             i == NextMatch(text, old, from)
  <2>1. from \in 1..(last + 1)
    BY <1>1
  <2>2. g[from] = IF i = 0 THEN 0 ELSE 1 + g[i + Len(old)]
    BY <1>3, <2>1
  <2>3. i = 0 \/ (i \in from..(last + 1) /\ i + Len(old) \in 1..(last + 1))
    <3> HIDE DEF from
    <3>. QED  BY <2>1, NextMatchIs
  <2> HIDE DEF i, last
  <2>4. ASSUME i # 0 PROVE g[i + Len(old)] \in Nat
    <3> DEFINE j == last + 1 - (i + Len(old))
    <3>1. j \in 0..(k - 1) /\ last + 1 - j = i + Len(old)
      BY <1>1, <2>1, <2>3, <2>4
    <3> HIDE DEF j
    <3>. QED  BY <1>4, <3>1
  <2>. QED  BY <2>2, <2>4
<1>5. 0 \in S
  <2>1. g[last + 1 - 0] \in Nat
    <3>1. 0 \in 0..last /\ 0..(0 - 1) = {}
      BY <1>1
    <3> HIDE DEF last
    <3>. QED  BY <1>4, <3>1
  <2>2. \A j \in 0..0 : j = 0
    OBVIOUS
  <2> HIDE DEF last
  <2>. QED  BY <2>1, <2>2
<1>6. ASSUME NEW k \in 0..(last - 1), k \in S PROVE k + 1 \in S
  <2> HIDE DEF last
  <2>1. k + 1 \in 0..last /\ k + 1 \in Nat /\ \A j \in 0..((k + 1) - 1) : j \in 0..k /\ j <= last
    BY <1>1
  <2>2. g[last + 1 - (k + 1)] \in Nat
    BY <1>4, <1>6, <2>1
  <2>3. \A j \in 0..(k + 1) : j = k + 1 \/ j \in 0..k
    OBVIOUS
  <2>. QED  BY <1>6, <2>1, <2>2, <2>3
<1>7. last \in S
  <2>1. last \in 0..last
    BY <1>1
  <2> HIDE DEF S, last
  <2>. QED  BY <1>1, <1>5, <1>6, <2>1, UpTo
<1>8. \A from \in 1..(last + 1) : g[from] \in Nat
  <2> SUFFICES ASSUME NEW from \in 1..(last + 1) PROVE g[from] \in Nat
    OBVIOUS
  <2> DEFINE j == last + 1 - from
  <2>1. j \in 0..last /\ j <= last /\ last + 1 - j = from
    BY <1>1
  <2> HIDE DEF j, last
  <2>. QED  BY <1>7, <2>1
<1>. QED  BY <1>3, <1>8

\* What matches returns.
LEMMA MatchesAre ==
    ASSUME NEW text \in Content, NEW old \in Content, old # <<>>
    PROVE  \E g : CountsOf(g, text, old) /\ matches(text, old) = g[1]
<1> DEFINE g == CHOOSE g : CountsOf(g, text, old)
<1>1. CountsOf(g, text, old)
  BY CountsExist, Zenon
<1>2. matches(text, old) = g[1]
  BY Zenon DEF matches, CountsOf, CountFrom
<1>. QED  BY <1>1, <1>2

\* What replace leaves of the text from each place on, with n replacements to go.
RestFrom(prev, text, old, new, n, from) ==
    LET i == NextMatch(text, old, from)
    IN IF n = 0 \/ i = 0 THEN Without(text, from - 1)
       ELSE SubSeq(text, from, i - 1) \o new \o prev[i + Len(old)]
RestsOf(g, text, old, new, limit) ==
    g = [n \in 0..limit |->
           [from \in 1..(Len(text) + 1) |-> RestFrom(g[n - 1], text, old, new, n, from)]]
Rests(text) == [1..(Len(text) + 1) -> Content]

\* A replacement: what stands before it, what it puts there, what comes after.
Replaces(rest, prev, text, old, new, from, i) ==
    /\ rest = (SubSeq(text, from, i - 1) \o new) \o prev[i + Len(old)]
    /\ SubSeq(text, from, i - 1) \in Content
    /\ SubSeq(text, from, i - 1) \o new \in Content
    /\ Len(SubSeq(text, from, i - 1) \o new) = i - from + Len(new)
    /\ prev[i + Len(old)] \in Content
    /\ rest \in Content
    /\ Len(rest) = i - from + Len(new) + Len(prev[i + Len(old)])
LEMMA RestReplaces ==
    ASSUME NEW text \in Content, NEW old \in Content, NEW new \in Content, NEW n, n \in Nat \ {0},
           NEW from, from \in 1..(Len(text) + 1), NEW prev, prev \in Rests(text),
           NEW i, i = NextMatch(text, old, from), i # 0
    PROVE  Replaces(RestFrom(prev, text, old, new, n, from), prev, text, old, new, from, i)
<1> DEFINE rest == RestFrom(prev, text, old, new, n, from)
           to == i - 1
           before == SubSeq(text, from, to)
           after == prev[i + Len(old)]
<1>1. Len(text) \in Nat /\ Len(old) \in Nat /\ Len(new) \in Nat
  BY DEF Content
<1>2. i \in from..(Len(text) + 1) /\ i + Len(old) \in 1..(Len(text) + 1)
  BY NextMatchIs
<1>3. rest = (before \o new) \o after
  <2>1. n # 0
    OBVIOUS
  <2>. QED  BY <2>1, Zenon DEF RestFrom
<1> HIDE DEF rest
<1>4. to \in (from - 1)..Len(text) /\ to - from + 1 = i - from
  BY <1>1, <1>2
<1>5. SubSeq(text, from, to) \in Seq(STRING) /\ Len(SubSeq(text, from, to)) = to - from + 1
  <2> HIDE DEF to
  <2>. QED  BY <1>4, PartOfText DEF Content
<1>6. before \in Seq(STRING) /\ Len(before) = i - from
  BY <1>4, <1>5
<1>7. after \in Seq(STRING)
  BY <1>2 DEF Rests, Content
<1> HIDE DEF before, after
<1>8. before \o new \in Seq(STRING) /\ Len(before \o new) = i - from + Len(new)
  BY <1>6, ConcatProperties DEF Content
<1> DEFINE head == before \o new
<1>9. head \o after \in Seq(STRING) /\ Len(head \o after) = Len(head) + Len(after)
  <2> HIDE DEF head
  <2>1. head \in Seq(STRING)
    BY <1>8 DEF head
  <2>. QED  BY <1>7, <2>1, ConcatProperties
<1>10. /\ rest = head \o after /\ rest \in Content /\ before \in Content /\ head \in Content
       /\ after \in Content /\ Len(rest) = i - from + Len(new) + Len(after)
       /\ Len(head) = i - from + Len(new)
  BY <1>3, <1>6, <1>7, <1>8, <1>9 DEF Content
<1> HIDE DEF head
<1>. QED  BY <1>10, Zenon DEF Replaces, rest, head, before, after, to

LEMMA RestEnds ==
    ASSUME NEW text \in Content, NEW old, NEW new, NEW n, NEW from \in 1..(Len(text) + 1),
           NEW prev, n = 0 \/ NextMatch(text, old, from) = 0
    PROVE  /\ RestFrom(prev, text, old, new, n, from) = Without(text, from - 1)
           /\ RestFrom(prev, text, old, new, n, from) \in Content
           /\ Len(RestFrom(prev, text, old, new, n, from)) = Len(text) + 1 - from
<1>1. RestFrom(prev, text, old, new, n, from) = Without(text, from - 1)
  BY Zenon DEF RestFrom
<1> DEFINE m == from - 1
<1>2. m \in 0..Len(text) /\ Len(text) - m = Len(text) + 1 - from
  BY DEF Content
<1> HIDE DEF m
<1>3. Without(text, m) \in Seq(STRING) /\ Len(Without(text, m)) = Len(text) - m
  BY <1>2, WithoutIs DEF Content
<1>. QED  BY <1>1, <1>2, <1>3 DEF Content, m

LEMMA RestIsText ==
    ASSUME NEW text \in Content, NEW old \in Content, NEW new \in Content, NEW n \in Nat,
           NEW from \in 1..(Len(text) + 1), NEW prev, n # 0 => prev \in Rests(text)
    PROVE  RestFrom(prev, text, old, new, n, from) \in Content
<1>1. CASE n = 0 \/ NextMatch(text, old, from) = 0
  BY <1>1, RestEnds
<1>2. CASE ~(n = 0 \/ NextMatch(text, old, from) = 0)
  <2> DEFINE i == NextMatch(text, old, from)
  <2>1. n \in Nat \ {0} /\ prev \in Rests(text) /\ i # 0 /\ i = NextMatch(text, old, from)
    BY <1>2
  <2> HIDE DEF i
  <2>2. Replaces(RestFrom(prev, text, old, new, n, from), prev, text, old, new, from, i)
    BY <2>1, RestReplaces
  <2>. QED  BY <2>2 DEF Replaces
<1>. QED  BY <1>1, <1>2

LEMMA RestsExist ==
    ASSUME NEW text \in Content, NEW old \in Content, NEW new \in Content, NEW limit \in Nat
    PROVE  \E g : RestsOf(g, text, old, new, limit)
<1> DEFINE V == Rests(text)
           F == [0..limit -> V]
           level(n, f) == [from \in 1..(Len(text) + 1) |-> RestFrom(f[n - 1], text, old, new, n, from)]
           how == [n \in 0..limit |-> [f \in F |-> level(n, f)]]
<1>1. ASSUME NEW n \in 0..limit, NEW f \in F PROVE level(n, f) \in V
  <2>1. n \in Nat /\ (n # 0 => f[n - 1] \in V)
    <3>1. n # 0 => n - 1 \in 0..limit
      OBVIOUS
    <3> HIDE DEF V
    <3>. QED  BY <3>1
  <2>2. ASSUME NEW from \in 1..(Len(text) + 1)
        PROVE  RestFrom(f[n - 1], text, old, new, n, from) \in Content
    <3> DEFINE prev == f[n - 1]
    <3>1. n # 0 => prev \in Rests(text)
      BY <2>1
    <3> HIDE DEF prev
    <3>. QED  BY <2>1, <3>1, RestIsText DEF prev
  <2>. QED  BY <2>2 DEF Rests
<1>2. how \in [0..limit -> [F -> V]] /\ \A n \in 0..limit, f \in F : how[n][f] = level(n, f)
  <2> HIDE DEF level, F, V
  <2>. QED  BY <1>1
<1>3. ASSUME NEW n \in 0..limit, NEW f \in F, NEW g \in F, \A k \in 0..(n - 1) : f[k] = g[k]
      PROVE  how[n][f] = how[n][g]
  <2>1. level(n, f) = level(n, g)
    <3>1. CASE n = 0
      <4>1. \A from, p, q : RestFrom(p, text, old, new, n, from) = RestFrom(q, text, old, new, n, from)
        BY <3>1, Zenon DEF RestFrom
      <4>. QED  BY <4>1, Zenon
    <3>2. CASE n # 0
      <4>1. n - 1 \in 0..(n - 1)
        BY <3>2
      <4>2. f[n - 1] = g[n - 1]
        BY <1>3, <4>1
      <4>. QED  BY <4>2, Zenon
    <3>. QED  BY <3>1, <3>2
  <2> HIDE DEF level, how, F
  <2>. QED  BY <1>2, <2>1
<1>4. Definition(how, V, limit)
  <2>1. V # {}
    <3>1. [from \in 1..(Len(text) + 1) |-> text] \in V
      BY DEF Rests
    <3>. QED  BY <3>1
  <2> HIDE DEF how, V
  <2>. QED  BY <1>2, <1>3, <2>1 DEF Definition
<1>5. PICK g : Meets(g, how, V, limit)
  <2> HIDE DEF how, V
  <2>. QED  BY <1>4, CourseOfValues
<1>6. g \in F /\ \A n \in 0..limit : g[n] = level(n, g)
  <2> HIDE DEF level, how
  <2>. QED  BY <1>2, <1>5 DEF Meets
<1>7. g = [n \in 0..limit |-> level(n, g)]
  <2> HIDE DEF level, V
  <2>. QED  BY <1>6
<1>8. RestsOf(g, text, old, new, limit)
  BY <1>7, Zenon DEF RestsOf
<1>. QED  BY <1>8

\* Whatever meets that definition is a text from each place on.
LEMMA RestsAre ==
    ASSUME NEW text \in Content, NEW old \in Content, NEW new \in Content, NEW limit \in Nat,
           NEW g, RestsOf(g, text, old, new, limit)
    PROVE  /\ \A n \in 0..limit : g[n] \in Rests(text)
           /\ \A n \in 0..limit, from \in 1..(Len(text) + 1) :
                g[n][from] = RestFrom(g[n - 1], text, old, new, n, from)
<1>1. \A n \in 0..limit :
        g[n] = [from \in 1..(Len(text) + 1) |-> RestFrom(g[n - 1], text, old, new, n, from)]
  BY Zenon DEF RestsOf
<1>2. ASSUME NEW n \in 0..limit, NEW prev, prev = g[n - 1], n # 0 => prev \in Rests(text)
      PROVE  g[n] \in Rests(text)
  <2>1. \A from \in 1..(Len(text) + 1) : RestFrom(prev, text, old, new, n, from) \in Content
    <3> SUFFICES ASSUME NEW from \in 1..(Len(text) + 1)
                 PROVE  RestFrom(prev, text, old, new, n, from) \in Content
      OBVIOUS
    <3>1. n \in Nat
      OBVIOUS
    <3>. QED  BY <1>2, <3>1, RestIsText
  <2>2. g[n] = [from \in 1..(Len(text) + 1) |-> RestFrom(prev, text, old, new, n, from)]
    BY <1>1, <1>2, Zenon
  <2>. QED  BY <2>1, <2>2 DEF Rests
<1> DEFINE S == {n \in Nat : g[n] \in Rests(text)}
<1>3. 0 \in S
  <2>1. 0 \in 0..limit
    OBVIOUS
  <2>2. g[0] \in Rests(text)
    BY <1>2, <2>1
  <2>. QED  BY <2>2
<1>4. ASSUME NEW m \in 0..(limit - 1), m \in S PROVE m + 1 \in S
  <2>1. m + 1 \in 0..limit /\ (m + 1) - 1 = m /\ m + 1 \in Nat
    OBVIOUS
  <2>2. g[(m + 1) - 1] \in Rests(text)
    BY <1>4, <2>1
  <2>3. g[m + 1] \in Rests(text)
    BY <1>2, <2>1, <2>2
  <2>. QED  BY <2>1, <2>3
<1>5. 0..limit \subseteq S
  <2> HIDE DEF S
  <2>. QED  BY <1>3, <1>4, UpTo
<1>6. \A n \in 0..limit, from \in 1..(Len(text) + 1) :
        g[n][from] = RestFrom(g[n - 1], text, old, new, n, from)
  BY <1>1, Zenon
<1>. QED  BY <1>5, <1>6

\* What replace returns.
LEMMA ReplaceIs ==
    ASSUME NEW text \in Content, NEW old \in Content, NEW new \in Content, NEW limit \in Nat
    PROVE  \E g : RestsOf(g, text, old, new, limit) /\ replace(text, old, new, limit) = g[limit][1]
<1> DEFINE g == CHOOSE g : RestsOf(g, text, old, new, limit)
<1>1. RestsOf(g, text, old, new, limit)
  BY RestsExist, Zenon
<1>2. replace(text, old, new, limit) = g[limit][1]
  BY Zenon DEF replace, RestsOf, RestFrom
<1>. QED  BY <1>1, <1>2

\* While there are that many matches, each replacement changes the length alike.
LEMMA RestLength ==
    ASSUME NEW text \in Content, NEW old \in Content, old # <<>>, NEW new \in Content,
           NEW limit \in Nat, NEW g, CountsOf(g, text, old),
           NEW r, RestsOf(r, text, old, new, limit)
    PROVE  \A n \in 0..limit, from \in 1..(Len(text) + 1) :
             n <= g[from] =>
               Len(r[n][from]) = Len(text) + 1 - from + n * (Len(new) - Len(old))
<1> DEFINE last == Len(text)
           more == Len(new) - Len(old)
           Law(n, from) == n <= g[from] => Len(r[n][from]) = last + 1 - from + n * more
           S == {n \in Nat : \A from \in 1..(last + 1) : Law(n, from)}
<1>1. last \in Nat /\ Len(old) \in Nat /\ Len(new) \in Nat /\ more \in Int
  BY DEF Content
<1>2. /\ \A from \in 1..(last + 1) : g[from] \in Nat
      /\ \A from \in 1..(last + 1) :
           LET i == NextMatch(text, old, from)
           IN g[from] = IF i = 0 THEN 0 ELSE 1 + g[i + Len(old)]
  BY CountsAre
<1>3. /\ \A n \in 0..limit : r[n] \in Rests(text)
      /\ \A n \in 0..limit, from \in 1..(last + 1) :
           r[n][from] = RestFrom(r[n - 1], text, old, new, n, from)
  BY RestsAre
<1>4. 0 \in S
  <2> SUFFICES ASSUME NEW from \in 1..(last + 1) PROVE Len(r[0][from]) = last + 1 - from + 0 * more
    OBVIOUS
  <2>1. 0 \in 0..limit /\ 0 \in Nat /\ r[0][from] = RestFrom(r[0 - 1], text, old, new, 0, from)
    BY <1>3
  <2> DEFINE prev == r[0 - 1]
  <2>2. Len(RestFrom(prev, text, old, new, 0, from)) = Len(text) + 1 - from
    <3> HIDE DEF prev
    <3>. QED  BY <2>1, RestEnds
  <2>3. 0 * more = 0
    BY <1>1
  <2> HIDE DEF more
  <2>. QED  BY <1>1, <2>1, <2>2, <2>3
<1>5. ASSUME NEW m \in 0..(limit - 1), m \in S PROVE m + 1 \in S
  <2> DEFINE n == m + 1
  <2>1. n \in 0..limit /\ n \in Nat /\ n # 0 /\ n - 1 = m /\ m \in 0..limit
    OBVIOUS
  <2>2. ASSUME NEW from \in 1..(last + 1), n <= g[from]
        PROVE  Len(r[n][from]) = last + 1 - from + n * more
    <3> DEFINE i == NextMatch(text, old, from)
               to == i + Len(old)
    <3> HIDE DEF n
    <3>1. i = 0 \/ (i \in from..(last + 1) /\ to \in 1..(last + 1))
      BY NextMatchIs
    <3>2. g[from] = IF i = 0 THEN 0 ELSE 1 + g[to]
      BY <1>2
    <3>3. i # 0 /\ m <= g[to] /\ to \in 1..(last + 1)
      <4> HIDE DEF i, to
      <4>1. i # 0
        BY <2>1, <2>2, <3>2
      <4>2. to \in 1..(last + 1)
        BY <3>1, <4>1
      <4>3. g[to] \in Nat /\ g[from] = 1 + g[to]
        BY <1>2, <3>2, <4>1, <4>2
      <4>. QED  BY <2>1, <2>2, <4>1, <4>2, <4>3
    <3>4. Len(r[m][to]) = last + 1 - to + m * more
      <4> HIDE DEF i, to, more
      <4>. QED  BY <1>5, <3>3
    <3> DEFINE prev == r[m]
    <3>5. r[n][from] = RestFrom(prev, text, old, new, n, from) /\ prev \in Rests(text)
      <4>1. r[n][from] = RestFrom(r[n - 1], text, old, new, n, from)
        BY <1>3, <2>1
      <4>. QED  BY <1>3, <2>1, <4>1
    <3>6. Len(RestFrom(prev, text, old, new, n, from)) = i - from + Len(new) + Len(prev[i + Len(old)])
      <4>1. /\ n \in Nat \ {0} /\ from \in 1..(Len(text) + 1) /\ prev \in Rests(text)
            /\ i = NextMatch(text, old, from) /\ i # 0
        BY <2>1, <3>3, <3>5
      <4> HIDE DEF prev, i, to, last
      <4>2. Replaces(RestFrom(prev, text, old, new, n, from), prev, text, old, new, from, i)
        BY <4>1, RestReplaces
      <4>. QED  BY <4>2 DEF Replaces
    <3>7. n * more = m * more + more
      <4>1. \A a, b \in Int : (a + 1) * b = a * b + b
        OBVIOUS
      <4> HIDE DEF more
      <4>. QED  BY <1>1, <4>1 DEF n
    <3>8. m * more \in Int /\ i \in Int
      <4>1. \A a, b \in Int : a * b \in Int
        OBVIOUS
      <4>2. m \in Int
        OBVIOUS
      <4> HIDE DEF more, i
      <4>. QED  BY <1>1, <3>1, <4>1, <4>2
    <3>9. Len(prev[to]) = last + 1 - to + m * more
      BY <3>4
    <3> DEFINE product == m * more
    <3>10. n * more = product + more /\ product \in Int
      BY <3>7, <3>8
    <3>11. Len(prev[to]) = last + 1 - to + product
      BY <3>9
    <3>12. i \in Int /\ to = i + Len(old)
      BY <3>8
    <3> DEFINE whole == n * more
    <3>13. whole = product + more
      BY <3>10
    <3>14. Len(r[n][from]) = i - from + Len(new) + Len(prev[to])
      BY <3>5, <3>6
    <3>16. from \in Int /\ last \in Int /\ Len(new) \in Int /\ Len(old) \in Int
      BY <1>1
    <3> DEFINE a == Len(prev[to])
               b == Len(r[n][from])
    <3>17. /\ b = i - from + Len(new) + a /\ a = last + 1 - to + product /\ to = i + Len(old)
           /\ whole = product + (Len(new) - Len(old))
      BY <3>11, <3>12, <3>13, <3>14
    <3> HIDE DEF i, prev, product, whole, to, a, b, last
    <3>18. b = last + 1 - from + whole
      BY <3>10, <3>12, <3>16, <3>17
    <3>15. Len(r[n][from]) = last + 1 - from + whole
      BY <3>18 DEF b
    <3>. QED  BY <3>15 DEF whole
  <2> HIDE DEF n, more
  <2>. QED  BY <2>1, <2>2 DEF n
<1>6. 0..limit \subseteq S
  <2> HIDE DEF S
  <2>. QED  BY <1>4, <1>5, UpTo
<1> HIDE DEF more
<1>. QED  BY <1>6 DEF more

\* An edit puts the new text in the place of the first match, changes the length by
\* as much as it replaces, and alone leaves what comes after.
Edits(before, after, old, new, n) ==
    LET first == NextMatch(before, old, 1)
    IN /\ first > 0
       /\ Len(after) = Len(before) + n * (Len(new) - Len(old))
       /\ Taken(after, first - 1 + Len(new)) = Taken(before, first - 1) \o new
       /\ n = 1 => Without(after, first - 1 + Len(new)) = Without(before, first - 1 + Len(old))

LEMMA CountsAreMany ==
    ASSUME NEW text \in Content, NEW old \in Content, old # <<>>
    PROVE  matches(text, old) \in Nat
<1>1. PICK g : CountsOf(g, text, old) /\ matches(text, old) = g[1]
  BY MatchesAre
<1>2. \A from \in 1..(Len(text) + 1) : g[from] \in Nat
  BY <1>1, CountsAre
<1>3. 1 \in 1..(Len(text) + 1)
  BY DEF Content
<1>. QED  BY <1>1, <1>2, <1>3

LEMMA ReplaceIsText ==
    ASSUME NEW text \in Content, NEW old \in Content, NEW new \in Content, NEW limit \in Nat
    PROVE  replace(text, old, new, limit) \in Content
<1>1. PICK r : RestsOf(r, text, old, new, limit) /\ replace(text, old, new, limit) = r[limit][1]
  BY ReplaceIs
<1>2. r[limit] \in Rests(text)
  <2>1. limit \in 0..limit
    OBVIOUS
  <2>. QED  BY <1>1, <2>1, RestsAre
<1>3. 1 \in 1..(Len(text) + 1)
  BY DEF Content
<1>. QED  BY <1>1, <1>2, <1>3 DEF Rests

LEMMA ReplaceEdits ==
    ASSUME NEW text \in Content, NEW old \in Content, old # <<>>, NEW new \in Content,
           NEW n \in Nat, n # 0, n <= matches(text, old)
    PROVE  Edits(text, replace(text, old, new, n), old, new, n)
<1> DEFINE i == NextMatch(text, old, 1)
           after == replace(text, old, new, n)
           more == Len(new) - Len(old)
<1>1. Len(text) \in Nat /\ Len(old) \in Nat /\ Len(new) \in Nat /\ 1 \in 1..(Len(text) + 1)
  BY DEF Content
<1>2. PICK g : CountsOf(g, text, old) /\ matches(text, old) = g[1]
  BY MatchesAre
<1>3. PICK r : RestsOf(r, text, old, new, n) /\ after = r[n][1]
  BY <1>1, ReplaceIs
<1>4. g[1] \in Nat /\ g[1] = IF i = 0 THEN 0 ELSE 1 + g[i + Len(old)]
  BY <1>1, <1>2, CountsAre
<1>5. n <= g[1] /\ i # 0
  <2> HIDE DEF i
  <2>. QED  BY <1>1, <1>2, <1>4
<1>6. Len(after) = Len(text) + n * more
  <2>1. n \in 0..n
    BY <1>1
  <2>4. \A m \in 0..n, from \in 1..(Len(text) + 1) :
          m <= g[from] => Len(r[m][from]) = Len(text) + 1 - from + m * (Len(new) - Len(old))
    BY <1>2, <1>3, RestLength
  <2>2. Len(r[n][1]) = Len(text) + 1 - 1 + n * (Len(new) - Len(old))
    BY <1>1, <1>5, <2>1, <2>4
  <2>3. Len(text) + 1 - 1 = Len(text)
    BY <1>1
  <2>. QED  BY <1>3, <2>2, <2>3
<1> HIDE DEF after
<1>7. /\ \A m \in 0..n : r[m] \in Rests(text)
      /\ \A m \in 0..n, from \in 1..(Len(text) + 1) :
           r[m][from] = RestFrom(r[m - 1], text, old, new, m, from)
  <2> HIDE DEF i, more
  <2>. QED  BY <1>3, RestsAre
<1> DEFINE prev == r[n - 1]
           to == i - 1
           head == SubSeq(text, 1, to) \o new
<1>8. after = RestFrom(prev, text, old, new, n, 1) /\ prev \in Rests(text)
  <2>1. n \in 0..n /\ n - 1 \in 0..n
    BY <1>1
  <2>. QED  BY <1>1, <1>3, <1>7, <2>1
<1>9. /\ after = head \o prev[i + Len(old)]
      /\ SubSeq(text, 1, to) \in Content /\ head \in Content
      /\ Len(head) = i - 1 + Len(new) /\ prev[i + Len(old)] \in Content
  <2> HIDE DEF prev
  <2>1. prev \in Rests(text)
    BY <1>8
  <2>2. i # 0 /\ n \in Nat \ {0}
    BY <1>1, <1>5
  <2>3. Replaces(RestFrom(prev, text, old, new, n, 1), prev, text, old, new, 1, i)
    BY <1>1, <2>1, <2>2, RestReplaces
  <2>. QED  BY <1>8, <2>3 DEF Replaces
<1>10. i \in 1..(Len(text) + 1) /\ i + Len(old) \in 1..(Len(text) + 1)
  BY <1>1, <1>5, NextMatchIs
<1>11. SubSeq(text, 1, to) = Taken(text, to)
  <2>0. to \in Int /\ to <= Len(text)
    <3>1. Len(text) \in Nat
      BY <1>1 DEF Content
    <3> HIDE DEF i
    <3>. QED  BY <1>10, <3>1
  <2>1. Least(to, Len(text)) = to
    <3> HIDE DEF to
    <3>. QED  BY <2>0 DEF Least
  <2>. QED  BY <2>1 DEF Taken
<1> DEFINE rest == prev[i + Len(old)]
           size == i - 1 + Len(new)
<1>12. Taken(after, size) = head /\ Without(after, size) = rest
  <2> HIDE DEF head, rest, after, i, size
  <2>1. after = head \o rest /\ head \in Seq(STRING) /\ rest \in Seq(STRING) /\ size = Len(head)
    BY <1>9 DEF Content, rest, size
  <2>. QED  BY <2>1, JoinedIs
<1>13. n = 1 => rest = Without(text, i - 1 + Len(old))
  <2> SUFFICES ASSUME n = 1 PROVE rest = Without(text, i - 1 + Len(old))
    OBVIOUS
  <2> DEFINE from == i + Len(old)
             p == r[0 - 1]
  <2>1. 0 \in 0..n /\ n - 1 = 0 /\ from \in 1..(Len(text) + 1) /\ 0 \in Nat
    BY <1>1, <1>10
  <2>2. r[0][from] = RestFrom(p, text, old, new, 0, from)
    <3> HIDE DEF from, p
    <3>. QED  BY <1>7, <2>1 DEF p
  <2>3. RestFrom(p, text, old, new, 0, from) = Without(text, from - 1)
    <3> HIDE DEF from, p
    <3>. QED  BY <2>1, RestEnds
  <2>4. from - 1 = i - 1 + Len(old)
    <3> HIDE DEF i
    <3>. QED  BY <1>1, <1>10
  <2>. QED  BY <2>1, <2>2, <2>3, <2>4
<1>14. i > 0
  BY <1>10
<1> HIDE DEF after, rest, i, more
<1>15. Taken(after, size) = Taken(text, i - 1) \o new
  BY <1>11, <1>12
<1>16. Without(after, size) = Without(text, i - 1 + Len(old)) \/ n # 1
  BY <1>12, <1>13
<1> HIDE DEF size
<1>. QED  BY <1>6, <1>14, <1>15, <1>16, Zenon DEF Edits, i, more, after, size

-----------------------------------------------------------------------------
(***************************************************************************)
(* Paths.                                                                  *)
(***************************************************************************)
\* normalize_guest_path, component by component.
Component(parts, part) ==
    CASE part = "."  -> parts
      [] part = ".." -> IF parts = <<>> THEN parts ELSE Front(parts)
      [] OTHER       -> Append(parts, part)
Parts(f, raw) ==
    f = [n \in 0..Len(raw) |-> IF n = 0 THEN <<>> ELSE Component(f[n - 1], raw[n])]

\* A path without its last name, and the directories above it.
LEMMA FrontOfPath ==
    ASSUME NEW S, NEW path \in Seq(S), path # <<>>
    PROVE  /\ Front(path) \in Seq(S) /\ Len(Front(path)) = Len(path) - 1
           /\ \A i \in 1..(Len(path) - 1) : Front(path)[i] = path[i]
<1>1. Len(path) \in Nat /\ Len(path) # 0 /\ Front(path) = SubSeq(path, 1, Len(path) - 1)
  BY DEF Front
<1>2. \A i \in 1..(Len(path) - 1) : path[i] \in S
  BY <1>1
<1> DEFINE n == Len(path) - 1
<1>3. n \in Int /\ 1 \in Int /\ \A i \in 1..n : path[i] \in S
  BY <1>1, <1>2
<1> HIDE DEF n
<1>4. /\ SubSeq(path, 1, n) \in Seq(S)
      /\ Len(SubSeq(path, 1, n)) = IF 1 <= n THEN n - 1 + 1 ELSE 0
      /\ \A i \in 1..(n - 1 + 1) : SubSeq(path, 1, n)[i] = path[1 + i - 1]
  BY <1>3, SubSeqProperties
<1>5. n \in Nat /\ n - 1 + 1 = n /\ \A i \in 1..n : 1 + i - 1 = i
  BY <1>1 DEF n
<1>. QED  BY <1>1, <1>4, <1>5 DEF n

LEMMA ComponentIsPath ==
    ASSUME NEW parts \in Seq(Name), NEW part \in Name
    PROVE  Component(parts, part) \in Seq(Name)
<1>1. CASE part = "."
  BY <1>1 DEF Component
<1>2. CASE part = ".."
  <2>1. parts # <<>> => Front(parts) \in Seq(Name)
    BY FrontOfPath
  <2>. QED  BY <1>2, <2>1 DEF Component
<1>3. CASE part # "." /\ part # ".."
  BY <1>3 DEF Component
<1>. QED  BY <1>1, <1>2, <1>3

\* However a path is spelled, what is normalised is a path.
LEMMA NormalIsPath ==
    ASSUME NEW raw \in Seq(Name)
    PROVE  normalize_guest_path(raw) \in Seq(Name)
<1> DEFINE last == Len(raw)
           V == Seq(Name)
           F == [0..last -> V]
           how == [n \in 0..last |->
                      [f \in F |-> IF n = 0 THEN <<>> ELSE Component(f[n - 1], raw[n])]]
           f == CHOOSE f : Parts(f, raw)
<1>1. last \in Nat /\ <<>> \in V /\ \A n \in 1..last : raw[n] \in Name
  OBVIOUS
<1>2. ASSUME NEW g \in F, NEW n \in 1..last PROVE Component(g[n - 1], raw[n]) \in V
  <2>1. g[n - 1] \in V /\ raw[n] \in Name
    BY <1>1
  <2>. QED  BY <2>1, ComponentIsPath
<1>3. how \in [0..last -> [F -> V]]
  <2> SUFFICES ASSUME NEW n \in 0..last, NEW g \in F
               PROVE  (IF n = 0 THEN <<>> ELSE Component(g[n - 1], raw[n])) \in V
    <3> HIDE DEF F, V
    <3>. QED  OBVIOUS
  <2>1. CASE n = 0
    BY <1>1, <2>1
  <2>2. CASE n # 0
    <3>1. n \in 1..last
      BY <2>2
    <3>. QED  BY <1>2, <2>2, <3>1
  <2>. QED  BY <2>1, <2>2
<1>4. \A n \in 0..last, g \in F :
        how[n][g] = IF n = 0 THEN <<>> ELSE Component(g[n - 1], raw[n])
  BY DEF F
<1>5. ASSUME NEW n \in 0..last, NEW g \in F, NEW h \in F, \A k \in 0..(n - 1) : g[k] = h[k]
      PROVE  how[n][g] = how[n][h]
  <2> HIDE DEF how, F
  <2>1. n # 0 => n - 1 \in 0..(n - 1)
    OBVIOUS
  <2>. QED  BY <1>4, <1>5, <2>1
<1>6. Definition(how, V, last)
  <2> HIDE DEF how
  <2>. QED  BY <1>1, <1>3, <1>5 DEF Definition
<1>7. PICK g : Meets(g, how, V, last)
  <2> HIDE DEF how, V, last
  <2>. QED  BY <1>6, CourseOfValues
<1>8. Parts(g, raw)
  <2> DEFINE h(n) == IF n = 0 THEN <<>> ELSE Component(g[n - 1], raw[n])
  <2>1. g = [n \in 0..last |-> g[n]] /\ \A n \in 0..last : g[n] = h(n)
    BY <1>4, <1>7 DEF Meets
  <2>2. g = [n \in 0..last |-> h(n)]
    <3> HIDE DEF h
    <3>. QED  BY <2>1
  <2>. QED  BY <2>2, Zenon DEF Parts
<1>9. Parts(f, raw)
  BY <1>8, Zenon
<1>10. normalize_guest_path(raw) = f[last]
  BY Zenon DEF normalize_guest_path, Parts, Component
<1> HIDE DEF f
<1>11. \A n \in 0..last : f[n] = IF n = 0 THEN <<>> ELSE Component(f[n - 1], raw[n])
  BY <1>9, Zenon DEF Parts
<1> DEFINE S == {n \in Nat : f[n] \in V}
<1>12. 0 \in S
  <2>1. 0 \in 0..last
    BY <1>1
  <2>2. f[0] = <<>>
    BY <1>11, <2>1
  <2>. QED  BY <1>1, <2>2
<1>13. ASSUME NEW n \in 0..(last - 1), n \in S PROVE n + 1 \in S
  <2>1. n + 1 \in 0..last /\ n + 1 # 0 /\ (n + 1) - 1 = n /\ raw[n + 1] \in Name /\ n + 1 \in Nat
    BY <1>1
  <2>2. f[n + 1] = Component(f[n], raw[n + 1])
    BY <1>11, <2>1
  <2>. QED  BY <1>13, <2>1, <2>2, ComponentIsPath
<1>14. last \in S
  <2> HIDE DEF S, last
  <2>1. last \in 0..last
    BY <1>1
  <2>. QED  BY <1>1, <1>12, <1>13, <2>1, UpTo
<1>. QED  BY <1>10, <1>14

\* What resolve lets through is a path in one of the roots of that access.
LEMMA ResolvedPath ==
    ASSUME NEW raw \in RawPaths, NEW access, resolve(access, raw).ok
    PROVE  LET path == resolve(access, raw).value
           IN /\ path \in Seq(Name) /\ path # <<>> /\ path = normalize_guest_path(raw)
              /\ Head(path) \in Roots /\ Head(path) \in root_allows(access)
<1> DEFINE path == normalize_guest_path(raw)
<1>1. path \in Seq(Name)
  BY CallsAssumption, NormalIsPath
<1> HIDE DEF path
<1>2. ~Refused("path_outside_workspace").ok /\ ~Refused("access_denied").ok
  BY DEF Refused
<1>3. CASE path = <<>> \/ Head(path) \notin Roots
  <2>1. resolve(access, raw) = Refused("path_outside_workspace")
    BY <1>3 DEF resolve, path
  <2>. QED  BY <1>2, <2>1
<1>4. CASE path # <<>> /\ Head(path) \in Roots \ root_allows(access)
  <2>1. resolve(access, raw) = Refused("access_denied")
    BY <1>4 DEF resolve, path
  <2>. QED  BY <1>2, <2>1
<1>5. CASE path # <<>> /\ Head(path) \in Roots /\ Head(path) \in root_allows(access)
  <2>1. resolve(access, raw) = Success(path)
    BY <1>5 DEF resolve, path
  <2>. QED  BY <1>1, <1>5, <2>1 DEF Success, path
<1>. QED  BY <1>3, <1>4, <1>5

\* The names of a path's beginnings start where it starts.
LEMMA TakenPath ==
    ASSUME NEW S, NEW path \in Seq(S), NEW n \in 1..Len(path)
    PROVE  /\ Taken(path, n) \in Seq(S) /\ Len(Taken(path, n)) = n
           /\ Head(Taken(path, n)) = Head(path)
<1>1. Len(path) \in Nat /\ Least(n, Len(path)) = n
  BY DEF Least
<1>2. Taken(path, n) = SubSeq(path, 1, n)
  BY <1>1 DEF Taken
<1>3. n \in Int /\ 1 \in Int /\ \A i \in 1..n : path[i] \in S
  OBVIOUS
<1>4. /\ SubSeq(path, 1, n) \in Seq(S)
      /\ Len(SubSeq(path, 1, n)) = IF 1 <= n THEN n - 1 + 1 ELSE 0
      /\ \A i \in 1..(n - 1 + 1) : SubSeq(path, 1, n)[i] = path[1 + i - 1]
  BY <1>3, SubSeqProperties
<1>5. n - 1 + 1 = n /\ 1 <= n /\ 1 \in 1..n /\ 1 + 1 - 1 = 1
  OBVIOUS
<1>6. Len(SubSeq(path, 1, n)) = n /\ SubSeq(path, 1, n)[1] = path[1]
  BY <1>4, <1>5
<1>7. Head(SubSeq(path, 1, n)) = SubSeq(path, 1, n)[1] /\ Head(path) = path[1]
  BY <1>4, <1>5, <1>6
<1>. QED  BY <1>2, <1>4, <1>6, <1>7

\* Where one tree differs from another, and that this is only in one root.
Differ(t, u) ==
    {p \in DOMAIN t \cup DOMAIN u : p \notin DOMAIN t \cap DOMAIN u \/ t[p] # u[p]}
Under(t, u, path) == \A p \in Differ(t, u) : Head(p) = Head(path)

LEMMA MakeDirsUnder ==
    ASSUME NEW t, NEW path \in Seq(Name), path # <<>>
    PROVE  Under(t, MakeDirs(t, Front(path)), path)
<1> DEFINE parent == Front(path)
           u == MakeDirs(t, parent)
           made == {Taken(parent, n) : n \in 1..Len(parent)}
<1>1. /\ parent \in Seq(Name) /\ Len(parent) = Len(path) - 1
      /\ \A i \in 1..(Len(path) - 1) : parent[i] = path[i]
  BY FrontOfPath
<1>2. \A p \in made : Head(p) = Head(path)
  <2> SUFFICES ASSUME NEW n \in 1..Len(parent) PROVE Head(Taken(parent, n)) = Head(path)
    OBVIOUS
  <2> HIDE DEF parent
  <2>1. Head(Taken(parent, n)) = Head(parent)
    BY <1>1, TakenPath
  <2>2. 1 \in 1..(Len(path) - 1) /\ Len(path) \in Nat
    BY <1>1
  <2>3. parent[1] = path[1]
    BY <1>1, <2>2
  <2>4. parent # <<>> /\ path # <<>>
    BY <1>1, <2>2
  <2>. QED  BY <1>1, <2>1, <2>3, <2>4
<1>3. DOMAIN u = DOMAIN t \cup made /\ \A p \in DOMAIN t : u[p] = t[p]
  BY DEF MakeDirs
<1> HIDE DEF u, made
<1>4. \A p \in Differ(t, u) : p \in made
  BY <1>3 DEF Differ
<1>5. Under(t, u, path)
  BY <1>2, <1>4 DEF Under
<1>. QED  BY <1>5 DEF u

LEMMA PutUnder ==
    ASSUME NEW t, NEW u, NEW path, NEW node, Under(t, u, path)
    PROVE  Under(t, Put(u, path, node), path)
<1>1. /\ DOMAIN Put(u, path, node) = DOMAIN u \cup {path}
      /\ \A p \in DOMAIN u \ {path} : Put(u, path, node)[p] = u[p]
  BY DEF Put
<1>2. \A p \in Differ(t, Put(u, path, node)) : p = path \/ p \in Differ(t, u)
  BY <1>1 DEF Differ
<1>. QED  BY <1>2 DEF Under

LEMMA SameUnder ==
    ASSUME NEW t, NEW path
    PROVE  Under(t, t, path)
  BY DEF Under, Differ

\* open() and write_all() touch the path alone.
LEMMA OpenUnder ==
    ASSUME NEW t, NEW u, NEW path, NEW content, NEW mode, NEW room, Under(t, u, path)
    PROVE  Under(t, OpenAndWrite(u, path, content, mode, room).tree, path)
<1> DEFINE kept == IF mode = "append" /\ IsFile(u, path) THEN u[path].bytes ELSE <<>>
           told == Written(path, content)
           wrote == write_all(u, path, kept, content, room, told)
           put == File(kept \o Taken(content, room))
<1>1. \A v, a : Left(v, a).tree = v
  BY DEF Left
<1>2. CASE mode = "create" /\ Exists(u, path)
  BY <1>1, <1>2 DEF OpenAndWrite
<1>3. CASE ~(mode = "create" /\ Exists(u, path))
  <2>1. CASE Blocked(u, Front(path))
    BY <1>1, <1>3, <2>1 DEF OpenAndWrite
  <2>2. CASE ~Blocked(u, Front(path))
    <3>1. OpenAndWrite(u, path, content, mode, room) \in {Left(u, Refused("io_error")), wrote}
      BY <1>3, <2>2, Zenon DEF OpenAndWrite
    <3>2. wrote.tree = Put(u, path, put)
      BY <1>1 DEF write_all
    <3> HIDE DEF put, wrote
    <3>. QED  BY <1>1, <3>1, <3>2, PutUnder
  <2>. QED  BY <2>1, <2>2
<1>. QED  BY <1>2, <1>3

\* What is left behind by each tool that writes, and by the Gateway.
LEMMA WriteToolUnder ==
    ASSUME NEW raw \in RawPaths, NEW t, NEW content, NEW mode, NEW parents,
           NEW room, NEW p \in Differ(t, write_tool(t, raw, content, mode, parents, room).tree)
    PROVE  Head(p) \in {"work", "result", "tmp"}
<1> DEFINE resolved == resolve("write", raw)
           path == resolved.value
           u == IF parents THEN MakeDirs(t, Front(path)) ELSE t
           left == write_tool(t, raw, content, mode, parents, room)
<1>1. \A v, a : Left(v, a).tree = v
  BY DEF Left
<1>2. left.tree = t \/ (resolved.ok /\ left.tree = OpenAndWrite(u, path, content, mode, room).tree)
  <2>1. CASE parents
    <3> HIDE DEF resolved
    <3>. QED  BY <1>1, <2>1 DEF write_tool, resolved
  <2>2. CASE ~parents
    <3> HIDE DEF resolved
    <3>. QED  BY <1>1, <2>2 DEF write_tool, resolved
  <2>. QED  BY <2>1, <2>2
<1> HIDE DEF left
<1>3. left.tree # t
  BY DEF Differ, left
<1>4. /\ path \in Seq(Name) /\ path # <<>>
      /\ Head(path) \in {"work", "result", "tmp"}
  <2>1. path \in Seq(Name) /\ path # <<>> /\ Head(path) \in root_allows("write")
    BY <1>2, <1>3, ResolvedPath
  <2>. QED  BY <2>1 DEF root_allows
<1> HIDE DEF resolved
<1>5. Under(t, u, path)
  <2>1. Under(t, MakeDirs(t, Front(path)), path)
    BY <1>4, MakeDirsUnder
  <2>2. Under(t, t, path)
    BY SameUnder
  <2>. QED  BY <2>1, <2>2
<1>6. Under(t, left.tree, path)
  <2> HIDE DEF u
  <2>. QED  BY <1>2, <1>3, <1>5, OpenUnder
<1>7. Head(p) = Head(path)
  BY <1>6 DEF Under, left
<1>. QED  BY <1>4, <1>7

LEMMA EditToolUnder ==
    ASSUME NEW raw \in RawPaths, NEW t, NEW old, NEW new, NEW all,
           NEW room, NEW p \in Differ(t, edit_tool(t, raw, old, new, all, room).tree)
    PROVE  Head(p) \in {"work", "result", "tmp"}
<1> DEFINE resolved == resolve("edit", raw)
           path == resolved.value
           left == edit_tool(t, raw, old, new, all, room)
<1>1. \A v, a : Left(v, a).tree = v
  BY DEF Left
<1>2. left.tree = t \/ (resolved.ok /\ \E node : left.tree = Put(t, path, node))
  <2> DEFINE content == t[path].bytes
             found == matches(content, old)
             edited == replace(content, old, new, IF all THEN found ELSE 1)
             told == [Written(path, edited) EXCEPT !.count = IF all THEN found ELSE 1]
             missing == io_tool_error(t, path)
  <2>1. left = IF ~resolved.ok THEN Left(t, resolved)
               ELSE IF IsDir(t, path) THEN Left(t, Refused("io_error"))
               ELSE IF ~IsFile(t, path) THEN Left(t, missing)
               ELSE IF Len(content) > MaxReadBytes THEN Left(t, Refused("file_too_large"))
               ELSE IF ~IsUtf8(content) THEN Left(t, Refused("non_utf8_file"))
               ELSE IF old = <<>> THEN Left(t, Refused("empty_match"))
               ELSE IF found = 0 THEN Left(t, Refused("match_not_found"))
               ELSE IF found > 1 /\ ~all THEN Left(t, Refused("multiple_matches"))
               ELSE IF Len(edited) > MaxWriteBytes THEN Left(t, Refused("edit_result_too_large"))
               ELSE write_all(t, path, <<>>, edited, room, told)
    BY Zenon DEF edit_tool
  <2>2. write_all(t, path, <<>>, edited, room, told).tree
          = Put(t, path, File(<<>> \o Taken(edited, room)))
    BY <1>1 DEF write_all
  <2> HIDE DEF left, resolved, content, found, edited, told, missing
  <2>. QED  BY <1>1, <2>1, <2>2
<1> HIDE DEF left
<1>3. left.tree # t
  BY DEF Differ, left
<1>4. path # <<>> /\ Head(path) \in {"work", "result", "tmp"}
  <2>1. path \in Seq(Name) /\ path # <<>> /\ Head(path) \in root_allows("edit")
    BY <1>2, <1>3, ResolvedPath
  <2>. QED  BY <2>1 DEF root_allows
<1> HIDE DEF resolved
<1>5. Under(t, left.tree, path)
  BY <1>2, <1>3, SameUnder, PutUnder
<1>6. Head(p) = Head(path)
  BY <1>5 DEF Under, left
<1>. QED  BY <1>4, <1>6

LEMMA GatewayUnder ==
    ASSUME NEW raw \in RawPaths, path_is_under_app(raw), NEW t, NEW tool, NEW max,
           NEW content, NEW mode, NEW room, NEW lost
    PROVE  LET left == gateway_workspace_request(t, tool, raw, max, content, mode, room, lost)
           IN /\ left.tree = t \/ (tool = "write" /\ \A p \in Differ(t, left.tree) : Head(p) = "app")
              /\ tool = "read" /\ left.answer.ok => left.answer.path = raw
<1> DEFINE left == gateway_workspace_request(t, tool, raw, max, content, mode, room, lost)
           flag == IF mode = "append" THEN mode ELSE "replace"
           made == MakeDirs(t, Front(raw))
           opened == OpenAndWrite(made, raw, content, flag, room)
<1>1. \A v, a : Left(v, a).tree = v /\ Left(v, a).answer = a
  BY DEF Left
<1>2. raw \in Seq(Name) /\ raw # <<>> /\ Head(raw) = "app"
  BY CallsAssumption DEF path_is_under_app
<1>3. left.tree = t \/ (tool = "write" /\ left.tree = OpenAndWrite(made, raw, content, flag, room).tree)
  <2>1. CASE tool = "read"
    BY <1>1, <2>1, Zenon DEF gateway_workspace_request
  <2>2. CASE tool = "write"
    <3>1. left = IF IsDir(t, raw) \/ Blocked(t, Front(raw))
                 THEN Left(t, Refused("workspace_rpc_error"))
                 ELSE Reply(opened, lost)
      BY <2>2 DEF gateway_workspace_request
    <3>2. Reply(opened, lost).tree = opened.tree
      <4> HIDE DEF opened
      <4>. QED  BY <1>1 DEF Reply
    <3>3. left.tree \in {t, opened.tree}
      <4> HIDE DEF left, opened
      <4>. QED  BY <1>1, <3>1, <3>2
    <3> HIDE DEF left, made
    <3>. QED  BY <2>2, <3>3
  <2>3. CASE tool = "list"
    <3>1. \E a : left = Left(t, a)
      BY <2>3 DEF gateway_workspace_request
    <3> HIDE DEF left
    <3>. QED  BY <1>1, <3>1
  <2>4. CASE tool \notin {"read", "write", "list"}
    <3>1. left = Left(t, Refused("workspace_rpc_tool_unsupported"))
      BY <2>4 DEF gateway_workspace_request
    <3> HIDE DEF left
    <3>. QED  BY <1>1, <3>1
  <2>. QED  BY <2>1, <2>2, <2>3, <2>4
<1>4. Under(t, made, raw)
  BY <1>2, MakeDirsUnder
<1>5. Under(t, OpenAndWrite(made, raw, content, flag, room).tree, raw)
  <2> HIDE DEF made, flag
  <2>. QED  BY <1>4, OpenUnder
<1>6. tool = "read" /\ left.answer.ok => left.answer.path = raw
  <2> SUFFICES ASSUME tool = "read", left.answer.ok PROVE left.answer.path = raw
    OBVIOUS
  <2> DEFINE bytes == Taken(t[raw].bytes, max)
             read == [read_bytes_success(raw, bytes, FALSE) EXCEPT !.truncated = ~IsUtf8(bytes)]
  <2>1. left = Left(t, IF ~IsFile(t, raw) THEN Refused("workspace_rpc_error") ELSE read)
    BY DEF gateway_workspace_request
  <2>2. read.path = raw
    BY DEF read_bytes_success
  <2>3. ~Refused("workspace_rpc_error").ok
    BY DEF Refused
  <2> HIDE DEF left, read
  <2>. QED  BY <1>1, <2>1, <2>2, <2>3
<1> HIDE DEF left
<1>7. left.tree = t \/ (tool = "write" /\ \A p \in Differ(t, left.tree) : Head(p) = "app")
  BY <1>2, <1>3, <1>5 DEF Under
<1>. QED  BY <1>6, <1>7 DEF left

\* What the read tool answers with is in a root that may be read.
LEMMA ReadToolPath ==
    ASSUME NEW raw \in RawPaths, NEW t, NEW offset, NEW max, read_tool(t, raw, offset, max).ok
    PROVE  Head(read_tool(t, raw, offset, max).path) \in Roots \ {"tmp"}
<1> DEFINE resolved == resolve("read", raw)
           path == resolved.value
           result == read_tool(t, raw, offset, max)
           limit == Least(max, MaxReadBytes)
<1>1. \A c : ~Refused(c).ok
  BY DEF Refused
<1>2. \A bytes : ReadPart(path, bytes, offset, limit).path = path
  BY DEF ReadPart, read_bytes_success
<1>3. ~NotFound(t, path).ok
  BY DEF NotFound
<1> HIDE DEF resolved, limit
<1>4. CASE ~resolved.ok
  <2>1. result = resolved
    BY <1>4 DEF read_tool, resolved
  <2>. QED  BY <1>4, <2>1
<1>5. CASE resolved.ok
  <2>1. result.path = path
    <3>1. CASE OnAssets(path)
      <4>1. result = IF task_asset_is_dir(path) THEN Refused("is_directory")
                     ELSE IF task_asset_entry(path) = {} THEN Refused("not_found")
                     ELSE ReadPart(path, Candidates(path)[1].bytes, offset, limit)
        BY <1>5, <3>1 DEF read_tool, resolved, limit
      <4> HIDE DEF result
      <4>2. result.ok
        BY DEF result
      <4>. QED  BY <1>1, <1>2, <4>1, <4>2
    <3>2. CASE ~OnAssets(path)
      <4>1. result = IF IsDir(t, path) THEN Refused("is_directory")
                     ELSE IF ~IsFile(t, path) THEN NotFound(t, path)
                     ELSE ReadPart(path, t[path].bytes, offset, limit)
        BY <1>5, <3>2 DEF read_tool, resolved, limit
      <4> HIDE DEF result
      <4>2. result.ok
        BY DEF result
      <4>. QED  BY <1>1, <1>2, <1>3, <4>1, <4>2
    <3>. QED  BY <3>1, <3>2
  <2>2. Head(path) \in root_allows("read")
    BY <1>5, ResolvedPath DEF resolved
  <2>3. Head(path) \in Roots \ {"tmp"}
    BY <2>2 DEF root_allows
  <2>. QED  BY <2>1, <2>3
<1>. QED  BY <1>4, <1>5

\* What a step owes, and that the calls of the tools and the other calls pay it.
Kept ==
  answer'.op \in Tools =>
    /\ \A p \in Differ(tree, tree') :
         Head(p) \in {"work", "result", "tmp"} \cup (IF attached THEN {"app"} ELSE {})
    /\ answer'.op = "read" /\ answer'.result.ok =>
         Head(answer'.result.path) \in Roots \ {"tmp"}

LEMMA ToolKeeps ==
    ASSUME NEW tool \in Tools, NEW raw \in RawPaths, NEW max, NEW content, NEW mode, NEW room,
           NEW lost, NEW left, Tool(tool, raw, max, content, mode, room, lost, left),
           \A p \in Differ(tree, left.tree) : Head(p) \in {"work", "result", "tmp"},
           tool = "read" /\ left.answer.ok => Head(left.answer.path) \in Roots \ {"tmp"}
    PROVE  Kept
<1> DEFINE gone == gateway_workspace_request(tree, tool, raw, max, content, mode, room, lost)
<1>1. CASE remote_workspace_tool(raw)
  <2>1. attached /\ path_is_under_app(raw)
    BY <1>1 DEF remote_workspace_tool
  <2>2. answer'.op = tool /\ tree' = gone.tree /\ answer'.result = gone.answer
    BY <1>1 DEF Tool, Answers
  <2>3. /\ gone.tree = tree \/ (tool = "write" /\ \A p \in Differ(tree, gone.tree) : Head(p) = "app")
        /\ tool = "read" /\ gone.answer.ok => gone.answer.path = raw
    BY <2>1, GatewayUnder
  <2>4. Head(raw) = "app" /\ "app" \in Roots \ {"tmp"}
    BY <2>1 DEF path_is_under_app, Roots
  <2>5. \A p \in Differ(tree, gone.tree) : Head(p) = "app"
    BY <2>3 DEF Differ
  <2> HIDE DEF gone
  <2>. QED  BY <2>1, <2>2, <2>3, <2>4, <2>5 DEF Kept
<1>2. CASE ~remote_workspace_tool(raw)
  <2>1. answer'.op = tool /\ tree' = left.tree /\ answer'.result = left.answer
    BY <1>2 DEF Tool, Answers
  <2>. QED  BY <2>1 DEF Kept
<1>. QED  BY <1>1, <1>2

\* A tool that only looks leaves the tree.
LEMMA LookingKeeps ==
    ASSUME NEW tool \in Tools \ {"read"}, NEW raw \in RawPaths, NEW max, NEW content, NEW mode,
           NEW room, NEW lost, NEW result,
           Tool(tool, raw, max, content, mode, room, lost, Left(tree, result))
    PROVE  Kept
<1> DEFINE left == Left(tree, result)
<1>1. left.tree = tree
  BY DEF Left
<1> HIDE DEF left
<1>2. \A p \in Differ(tree, left.tree) : Head(p) \in {"work", "result", "tmp"}
  BY <1>1 DEF Differ
<1>3. Tool(tool, raw, max, content, mode, room, lost, left)
  BY DEF left
<1>. QED  BY <1>2, <1>3, ToolKeeps

LEMMA OthersKeep ==
    ASSUME NEW op, op \notin Tools, NEW args, NEW left, Answers(op, args, left)
    PROVE  Kept
BY DEF Answers, Kept

LEMMA StepKeeps ==
    ASSUME FilesNext
    PROVE  Kept
<1>1. CASE ReadTool
  <2>1. PICK raw \in RawPaths, offset \in Counts, max \in Counts :
          Tool("read", raw, max, offset, "", 0, FALSE, Left(tree, read_tool(tree, raw, offset, max)))
    BY <1>1 DEF ReadTool
  <2> DEFINE result == read_tool(tree, raw, offset, max)
             left == Left(tree, result)
  <2>2. result.ok => Head(result.path) \in Roots \ {"tmp"}
    BY ReadToolPath
  <2>3. left.tree = tree /\ left.answer = result
    BY DEF Left
  <2>4. Tool("read", raw, max, offset, "", 0, FALSE, left)
    BY <2>1
  <2> HIDE DEF result, left
  <2>5. \A p \in Differ(tree, left.tree) : Head(p) \in {"work", "result", "tmp"}
    BY <2>3 DEF Differ
  <2>. QED  BY <2>2, <2>3, <2>4, <2>5, ToolKeeps DEF Tools
<1>2. CASE WriteTool
  <2>1. PICK raw \in RawPaths, content \in Texts, mode \in {"create", "replace", "append"},
             parents \in BOOLEAN, room \in Rooms, lost \in {FALSE, attached} :
          Tool("write", raw, 0, content, mode, room, lost,
               write_tool(tree, raw, content, mode, parents, room))
    BY <1>2 DEF WriteTool
  <2> DEFINE left == write_tool(tree, raw, content, mode, parents, room)
  <2>2. \A p \in Differ(tree, left.tree) : Head(p) \in {"work", "result", "tmp"}
    BY WriteToolUnder
  <2>3. Tool("write", raw, 0, content, mode, room, lost, left)
    BY <2>1
  <2> HIDE DEF left
  <2>. QED  BY <2>2, <2>3, ToolKeeps DEF Tools
<1>3. CASE EditTool
  <2>1. PICK raw \in RawPaths, old \in Texts, new \in Texts, all \in BOOLEAN, room \in Rooms :
          Tool("edit", raw, 0, <<old, new>>, all, room, FALSE,
               edit_tool(tree, raw, old, new, all, room))
    BY <1>3 DEF EditTool
  <2> DEFINE left == edit_tool(tree, raw, old, new, all, room)
             content == <<old, new>>
  <2>2. \A p \in Differ(tree, left.tree) : Head(p) \in {"work", "result", "tmp"}
    BY EditToolUnder
  <2>3. Tool("edit", raw, 0, content, all, room, FALSE, left)
    BY <2>1
  <2> HIDE DEF left, content
  <2>. QED  BY <2>2, <2>3, ToolKeeps DEF Tools
<1>4. CASE ListTool
  BY <1>4, LookingKeeps, Zenon DEF ListTool, Tools
<1>5. CASE FindTool
  BY <1>5, LookingKeeps, Zenon DEF FindTool, Tools
<1>6. CASE SearchTool
  BY <1>6, LookingKeeps, Zenon DEF SearchTool, Tools
<1>7. CASE ReadText \/ WriteText \/ Save \/ EditText \/ FindBuiltin \/ SearchBuiltin
  <2>1. \E op, args, left : op \notin Tools /\ Answers(op, args, left)
    BY <1>7 DEF ReadText, WriteText, Save, EditText, FindBuiltin, SearchBuiltin, Builtin, Tools
  <2>. QED  BY <2>1, OthersKeep
<1>8. CASE Mkdir \/ Rm
  <2>1. \E op, args, left : op \notin Tools /\ Answers(op, args, left)
    BY <1>8 DEF Mkdir, Rm, OnPaths, Tools
  <2>. QED  BY <2>1, OthersKeep
<1>9. CASE Cd
  BY <1>9 DEF Cd, Kept, Tools
<1>. QED  BY <1>1, <1>2, <1>3, <1>4, <1>5, <1>6, <1>7, <1>8, <1>9 DEF FilesNext

\* However a path is spelled, a tool changes files only where it may write, or
\* in the transaction of the Gateway, and reads only where it may read
\* (resolve, root_allows, remote_workspace_tool_json): for every tree, every
\* set of paths of names and every text.
THEOREM ToolsAreConfined == [][FilesNext]_filesVars => ToolsKeepToTheirRoots
<1>1. [FilesNext]_filesVars => [Kept]_filesVars
  BY StepKeeps
<1>2. Kept => (answer'.op \in Tools =>
         /\ \A p \in DOMAIN tree \cup DOMAIN tree' :
              (p \notin DOMAIN tree \cap DOMAIN tree' \/ tree[p] # tree'[p]) =>
                Head(p) \in {"work", "result", "tmp"} \cup (IF attached THEN {"app"} ELSE {})
         /\ answer'.op = "read" /\ answer'.result.ok =>
              Head(answer'.result.path) \in Roots \ {"tmp"})
  BY DEF Kept, Differ
<1>. QED  BY <1>1, <1>2, PTL DEF ToolsKeepToTheirRoots

-----------------------------------------------------------------------------
(***************************************************************************)
(* Trees.                                                                  *)
(***************************************************************************)
\* Above every entry of a tree are directories.
DirsAbove(t, p) == \A n \in 1..(Len(p) - 1) : IsDir(t, Taken(p, n))
TreeIsSound(t) ==
    \A p \in DOMAIN t : /\ p \in Seq(Name) /\ p # <<>>
                        /\ t[p].kind \in {"dir", "file"} /\ t[p].bytes \in Content
                        /\ DirsAbove(t, p)
Same(t, u) == \A p : Bytes(t, p) = Bytes(u, p)
SameBut(t, u, path) == \A p : p # path => Bytes(t, p) = Bytes(u, p)

LEMMA FrontIs ==
    ASSUME NEW S, NEW path \in Seq(S)
    PROVE  /\ Front(path) \in Seq(S)
           /\ path # <<>> => Len(Front(path)) = Len(path) - 1
           /\ \A n \in 1..(Len(path) - 1) : Taken(Front(path), n) = Taken(path, n)
<1>1. CASE path = <<>>
  <2>1. Len(path) = 0 /\ Front(path) = SubSeq(path, 1, Len(path) - 1)
    BY <1>1 DEF Front
  <2>2. Front(path) = <<>>
    <3>1. Len(path) - 1 \in Int /\ Len(path) - 1 < 1
      BY <2>1
    <3>. QED  BY <2>1, <3>1, SubSeqEmpty
  <2>. QED  BY <1>1, <2>1, <2>2
<1>2. CASE path # <<>>
  <2> DEFINE front == Front(path)
  <2>1. /\ front \in Seq(S) /\ Len(front) = Len(path) - 1 /\ Len(path) \in Nat
        /\ \A i \in 1..(Len(path) - 1) : front[i] = path[i]
    BY <1>2, FrontOfPath
  <2>2. ASSUME NEW n \in 1..(Len(path) - 1) PROVE Taken(front, n) = Taken(path, n)
    <3> HIDE DEF front
    <3>1. n \in 0..Len(path) /\ n \in 0..Len(front)
      BY <2>1
    <3> DEFINE a == Taken(front, n)
               b == Taken(path, n)
    <3>2. a \in Seq(S) /\ Len(a) = n /\ \A i \in 1..n : a[i] = front[i]
      BY <2>1, <3>1, TakenIs
    <3>3. b \in Seq(S) /\ Len(b) = n /\ \A i \in 1..n : b[i] = path[i]
      BY <3>1, TakenIs
    <3>4. \A i \in 1..n : i \in 1..(Len(path) - 1)
      BY <2>1
    <3> HIDE DEF a, b
    <3>5. Len(a) = Len(b) /\ \A i \in 1..Len(a) : a[i] = b[i]
      BY <2>1, <3>2, <3>3, <3>4
    <3>6. a = b
      BY <3>2, <3>3, <3>5, SeqEqual
    <3>. QED  BY <3>6 DEF a, b
  <2>. QED  BY <2>1, <2>2
<1>. QED  BY <1>1, <1>2

\* The beginnings of a beginning.
LEMMA TakenTwice ==
    ASSUME NEW S, NEW path \in Seq(S), NEW n \in 1..Len(path), NEW m \in 1..n
    PROVE  Taken(Taken(path, n), m) = Taken(path, m)
<1> DEFINE a == Taken(path, n)
           b == Taken(a, m)
           c == Taken(path, m)
<1>1. a \in Seq(S) /\ Len(a) = n /\ \A i \in 1..n : a[i] = path[i]
  <2>1. n \in 0..Len(path)
    OBVIOUS
  <2>. QED  BY <2>1, TakenIs
<1>2. b \in Seq(S) /\ Len(b) = m /\ \A i \in 1..m : b[i] = a[i]
  <2> HIDE DEF a
  <2>1. m \in 0..Len(a)
    BY <1>1
  <2>. QED  BY <1>1, <2>1, TakenIs
<1>3. c \in Seq(S) /\ Len(c) = m /\ \A i \in 1..m : c[i] = path[i]
  <2>1. m \in 0..Len(path)
    OBVIOUS
  <2>. QED  BY <2>1, TakenIs
<1> HIDE DEF a, b, c
<1>4. Len(b) = Len(c) /\ \A i \in 1..Len(b) : b[i] = c[i]
  BY <1>1, <1>2, <1>3
<1>5. b = c
  BY <1>2, <1>3, <1>4, SeqEqual
<1>. QED  BY <1>5 DEF a, b, c

LEMMA SameIsTransitive ==
    ASSUME NEW t, NEW u, NEW v
    PROVE  /\ Same(t, t)
           /\ Same(t, u) /\ Same(u, v) => Same(t, v)
           /\ Same(t, u) /\ SameBut(u, v, v) => SameBut(t, v, v)
  BY DEF Same, SameBut

\* Whether a path is a file, and what it holds.
LEMMA BytesAre ==
    ASSUME NEW t, NEW p
    PROVE  /\ IsFile(t, p) => Bytes(t, p) = <<t[p].bytes>>
           /\ ~IsFile(t, p) => Bytes(t, p) = <<>>
           /\ Bytes(t, p) = <<>> <=> ~IsFile(t, p)
  BY DEF Bytes, FilesOf, IsFile

\* Making directories keeps the files, and the tree sound where none is in the way.
LEMMA MakeDirsKeeps ==
    ASSUME NEW t, NEW path
    PROVE  LET u == MakeDirs(t, path)
           IN /\ \A p \in DOMAIN t : p \in DOMAIN u /\ u[p] = t[p]
              /\ \A p \in DOMAIN u : p \in DOMAIN t \/ (u[p] = Dir /\ \E n \in 1..Len(path) : p = Taken(path, n))
              /\ Same(t, u) /\ \A p : IsDir(t, p) => IsDir(u, p)
<1> DEFINE u == MakeDirs(t, path)
           made == {Taken(path, n) : n \in 1..Len(path)}
<1>1. /\ DOMAIN u = DOMAIN t \cup made /\ \A p \in DOMAIN t : u[p] = t[p]
      /\ \A p \in made : p \in DOMAIN t \/ u[p] = Dir
  BY DEF MakeDirs
<1> HIDE DEF u
<1>2. Dir.kind = "dir"
  BY DEF Dir
<1>3. Same(t, u)
  <2> SUFFICES ASSUME NEW p PROVE Bytes(t, p) = Bytes(u, p)
    BY DEF Same
  <2>1. IsFile(t, p) <=> IsFile(u, p)
    BY <1>1, <1>2 DEF IsFile
  <2>2. IsFile(t, p) => u[p] = t[p]
    BY <1>1 DEF IsFile
  <2>. QED  BY <2>1, <2>2, BytesAre
<1>4. \A p : IsDir(t, p) => IsDir(u, p)
  BY <1>1 DEF IsDir
<1>. QED  BY <1>1, <1>3, <1>4 DEF u

LEMMA MakeDirsSound ==
    ASSUME NEW t, TreeIsSound(t), NEW path \in Seq(Name), ~Blocked(t, path)
    PROVE  LET u == MakeDirs(t, path)
           IN TreeIsSound(u) /\ \A n \in 1..Len(path) : IsDir(u, Taken(path, n))
<1> DEFINE u == MakeDirs(t, path)
<1>1. /\ \A p \in DOMAIN t : p \in DOMAIN u /\ u[p] = t[p]
      /\ \A p \in DOMAIN u : p \in DOMAIN t \/ (u[p] = Dir /\ \E n \in 1..Len(path) : p = Taken(path, n))
      /\ \A p : IsDir(t, p) => IsDir(u, p)
  BY MakeDirsKeeps
<1>2. \A n \in 1..Len(path) : Taken(path, n) \in DOMAIN u
  BY DEF MakeDirs
<1> HIDE DEF u
<1>3. Dir.kind = "dir" /\ Dir.bytes = <<>> /\ <<>> \in Content
  BY DEF Dir, Content
<1>4. ASSUME NEW n \in 1..Len(path) PROVE IsDir(u, Taken(path, n))
  <2> DEFINE p == Taken(path, n)
  <2>1. p \in DOMAIN u
    BY <1>2
  <2>2. CASE p \in DOMAIN t
    <3>1. t[p].kind \in {"dir", "file"} /\ ~IsFile(t, p) /\ u[p] = t[p]
      BY <1>1, <2>2 DEF TreeIsSound, Blocked
    <3>. QED  BY <2>1, <2>2, <3>1 DEF IsDir, IsFile
  <2>3. CASE p \notin DOMAIN t
    BY <1>1, <1>3, <2>1, <2>3 DEF IsDir
  <2>. QED  BY <2>2, <2>3
<1>5. ASSUME NEW p \in DOMAIN u
      PROVE  /\ p \in Seq(Name) /\ p # <<>>
             /\ u[p].kind \in {"dir", "file"} /\ u[p].bytes \in Content /\ DirsAbove(u, p)
  <2>1. CASE p \in DOMAIN t
    <3>1. DirsAbove(u, p)
      BY <1>1, <2>1 DEF TreeIsSound, DirsAbove
    <3>. QED  BY <1>1, <2>1, <3>1 DEF TreeIsSound
  <2>2. CASE p \notin DOMAIN t
    <3>1. PICK n \in 1..Len(path) : p = Taken(path, n)
      BY <1>1, <2>2
    <3>2. p \in Seq(Name) /\ Len(p) = n
      BY <3>1, TakenPath
    <3>3. ASSUME NEW m \in 1..(Len(p) - 1) PROVE IsDir(u, Taken(p, m))
      <4>1. m \in 1..n /\ m \in 1..Len(path)
        BY <3>2
      <4>2. Taken(p, m) = Taken(path, m)
        BY <3>1, <4>1, TakenTwice
      <4>. QED  BY <1>4, <4>1, <4>2
    <3>4. p # <<>>
      BY <3>2
    <3>. QED  BY <1>1, <1>3, <2>2, <3>2, <3>3, <3>4 DEF DirsAbove
  <2>. QED  BY <2>1, <2>2
<1>. QED  BY <1>4, <1>5 DEF TreeIsSound, u

\* Putting a file where no directory is.
LEMMA PutBytes ==
    ASSUME NEW t, NEW path, NEW bytes
    PROVE  LET u == Put(t, path, File(bytes))
           IN u[path].bytes = bytes /\ IsFile(u, path) /\ SameBut(t, u, path)
<1> DEFINE u == Put(t, path, File(bytes))
<1>1. /\ DOMAIN u = DOMAIN t \cup {path} /\ u[path] = File(bytes)
      /\ \A p \in DOMAIN t : p # path => u[p] = t[p]
  BY DEF Put
<1>2. File(bytes).kind = "file" /\ File(bytes).bytes = bytes
  BY DEF File
<1> HIDE DEF u
<1>3. ASSUME NEW p, p # path PROVE Bytes(t, p) = Bytes(u, p)
  <2>1. (IsFile(t, p) <=> IsFile(u, p)) /\ (IsFile(t, p) => u[p] = t[p])
    BY <1>1, <1>3 DEF IsFile
  <2>. QED  BY <2>1, BytesAre
<1>4. u[path].bytes = bytes /\ IsFile(u, path)
  BY <1>1, <1>2 DEF IsFile
<1>. QED  BY <1>3, <1>4 DEF SameBut, u

LEMMA PutSound ==
    ASSUME NEW t, TreeIsSound(t), NEW path \in Seq(Name), ~IsDir(t, path), DirsAbove(t, path),
           NEW bytes \in Content
    PROVE  TreeIsSound(Put(t, path, File(bytes)))
<1> DEFINE u == Put(t, path, File(bytes))
<1>1. /\ DOMAIN u = DOMAIN t \cup {path} /\ u[path] = File(bytes)
      /\ \A p \in DOMAIN t : p # path => u[p] = t[p]
  BY DEF Put
<1>2. File(bytes).kind = "file" /\ File(bytes).bytes = bytes
  BY DEF File
<1> HIDE DEF u
<1>3. \A p : IsDir(t, p) => IsDir(u, p)
  BY <1>1 DEF IsDir
<1>4. path # <<>>
  BY DEF IsDir
<1>5. ASSUME NEW p \in DOMAIN u
      PROVE  /\ p \in Seq(Name) /\ p # <<>>
             /\ u[p].kind \in {"dir", "file"} /\ u[p].bytes \in Content /\ DirsAbove(u, p)
  <2>1. CASE p = path
    BY <1>1, <1>2, <1>3, <1>4, <2>1 DEF DirsAbove
  <2>2. CASE p # path
    BY <1>1, <1>3, <2>2 DEF TreeIsSound, DirsAbove
  <2>. QED  BY <2>1, <2>2
<1>. QED  BY <1>5 DEF TreeIsSound, u

\* Taking a path away takes what is below it.
LEMMA PruneKeeps ==
    ASSUME NEW t, TreeIsSound(t), NEW path \in Seq(Name)
    PROVE  LET u == Prune(t, path)
           IN /\ TreeIsSound(u)
              /\ \A p : Bytes(u, p) = Bytes(t, p) \/ (Bytes(u, p) = <<>> /\ IsPrefix(path, p))
<1> DEFINE u == Prune(t, path)
<1>1. DOMAIN u = {p \in DOMAIN t : ~IsPrefix(path, p)} /\ \A p \in DOMAIN u : u[p] = t[p]
  BY DEF Prune
<1> HIDE DEF u
<1>2. ASSUME NEW p \in DOMAIN u, NEW n \in 1..(Len(p) - 1) PROVE IsDir(u, Taken(p, n))
  <2> DEFINE q == Taken(p, n)
  <2>1. p \in Seq(Name) /\ n \in 1..Len(p) /\ IsDir(t, q) /\ ~IsPrefix(path, p)
    BY <1>1 DEF TreeIsSound, DirsAbove
  <2>2. q \in Seq(Name) /\ Len(q) = n /\ Len(p) \in Nat
    BY <2>1, TakenPath
  <2>3. q \in DOMAIN t /\ t[q].kind = "dir"
    BY <2>1, <2>2 DEF IsDir
  <2>4. ASSUME IsPrefix(path, q) PROVE FALSE
    <3> DEFINE k == Len(path)
    <3>1. k \in Nat /\ k <= n /\ k <= Len(p)
      BY <2>1, <2>2, <2>4 DEF IsPrefix
    <3>2. SubSeq(path, 1, k) = SubSeq(q, 1, k)
      BY <2>4 DEF IsPrefix
    <3>3. SubSeq(q, 1, k) = SubSeq(p, 1, k)
      <4>1. CASE k = 0
        BY <4>1, SubSeqEmpty
      <4>2. CASE k # 0
        <5> HIDE DEF k
        <5>1. k \in 1..n
          BY <3>1, <4>2
        <5>2. Taken(q, k) = Taken(p, k)
          BY <2>1, <5>1, TakenTwice
        <5>3. Taken(q, k) = SubSeq(q, 1, k) /\ Taken(p, k) = SubSeq(p, 1, k)
          <6> HIDE DEF q
          <6>. QED  BY <2>1, <2>2, <3>1 DEF Taken, Least
        <5>. QED  BY <5>2, <5>3
      <4>. QED  BY <4>1, <4>2
    <3>4. IsPrefix(path, p)
      BY <3>1, <3>2, <3>3 DEF IsPrefix
    <3>. QED  BY <2>1, <3>4
  <2>5. q \in DOMAIN u /\ u[q] = t[q]
    BY <1>1, <2>3, <2>4
  <2>. QED  BY <2>3, <2>5 DEF IsDir
<1>3. TreeIsSound(u)
  BY <1>1, <1>2 DEF TreeIsSound, DirsAbove
<1>4. ASSUME NEW p PROVE Bytes(u, p) = Bytes(t, p) \/ (Bytes(u, p) = <<>> /\ IsPrefix(path, p))
  <2>1. CASE p \in DOMAIN u
    <3>1. (IsFile(t, p) <=> IsFile(u, p)) /\ u[p] = t[p]
      BY <1>1, <2>1 DEF IsFile
    <3>. QED  BY <3>1, BytesAre
  <2>2. CASE p \notin DOMAIN u
    <3>1. ~IsFile(u, p) /\ (IsFile(t, p) => IsPrefix(path, p))
      BY <1>1, <2>2 DEF IsFile
    <3>. QED  BY <3>1, BytesAre
  <2>. QED  BY <2>1, <2>2
<1>. QED  BY <1>3, <1>4 DEF u

-----------------------------------------------------------------------------
(***************************************************************************)
(* What the calls that write leave behind, and what they answer.           *)
(***************************************************************************)
\* What of the file is kept, and what a write does with it: all of the text, or
\* a first part of it when that is told.
KeptOf(t, path, appended) ==
    IF appended /\ Bytes(t, path) # <<>> THEN Bytes(t, path)[1] ELSE <<>>
Wrote(t, u, path, text, appended, fresh) ==
    /\ SameBut(t, u, path) /\ IsFile(u, path)
    /\ u[path].bytes = KeptOf(t, path, appended) \o text
    /\ fresh => Bytes(t, path) = <<>>
WroteSome(t, u, path, text, appended, fresh) ==
    \E n \in 0..Len(text) : Wrote(t, u, path, Taken(text, n), appended, fresh)
Writing(t, u, result, path, text, appended, fresh) ==
    \/ ~result.ok /\ Same(t, u)
    \/ /\ result.ok \/ result \in Unsure
       /\ result.ok => Wrote(t, u, path, text, appended, fresh)
       /\ WroteSome(t, u, path, text, appended, fresh)
Writes(t, left, path, text, appended, fresh) ==
    /\ TreeIsSound(left.tree)
    /\ Writing(t, left.tree, left.answer, path, text, appended, fresh)

\* What room there is takes a first part, or all.
LEMMA RoomTakes ==
    ASSUME NEW text \in Content, NEW room \in Nat
    PROVE  /\ Taken(text, room) \in Content
           /\ \E n \in 0..Len(text) : Taken(text, room) = Taken(text, n)
           /\ Len(text) <= room => Taken(text, room) = text
<1> DEFINE n == Least(room, Len(text))
<1>1. Len(text) \in Nat /\ text \in Seq(STRING)
  BY DEF Content
<1>2. n \in 0..Len(text) /\ Least(n, Len(text)) = n /\ (Len(text) <= room => n = Len(text))
  BY <1>1 DEF Least
<1>3. Taken(text, room) = SubSeq(text, 1, n) /\ Taken(text, n) = SubSeq(text, 1, n)
  BY <1>2 DEF Taken
<1> HIDE DEF n
<1>4. Taken(text, n) \in Content
  BY <1>1, <1>2, TakenIs DEF Content
<1>5. SubSeq(text, 1, Len(text)) = text
  BY <1>1, SubSeqFull
<1>. QED  BY <1>2, <1>3, <1>4, <1>5

LEMMA OpenTells ==
    ASSUME NEW u, NEW path, NEW content, NEW mode, NEW room
    PROVE  LET left == OpenAndWrite(u, path, content, mode, room)
               kept == IF mode = "append" /\ IsFile(u, path) THEN u[path].bytes ELSE <<>>
           IN \/ left.tree = u /\ ~left.answer.ok
              \/ /\ left.tree = Put(u, path, File(kept \o Taken(content, room)))
                 /\ left.answer = IF Len(content) <= room THEN Written(path, content)
                                  ELSE Refused("io_error")
                 /\ ~IsDir(u, path)
                 /\ ~Blocked(u, Front(path)) /\ (mode = "create" => ~IsFile(u, path))
<1> DEFINE kept == IF mode = "append" /\ IsFile(u, path) THEN u[path].bytes ELSE <<>>
           left == OpenAndWrite(u, path, content, mode, room)
           there == mode = "create" /\ Exists(u, path)
           told == Written(path, content)
           put == write_all(u, path, kept, content, room, told)
           v == Put(u, path, File(kept \o Taken(content, room)))
           said == IF Len(content) <= room THEN told ELSE Refused("io_error")
<1>1. \A t, a : Left(t, a).tree = t /\ Left(t, a).answer = a
  BY DEF Left
<1>2. \A c : ~Refused(c).ok
  BY DEF Refused
<1>3. CASE there
  BY <1>1, <1>2, <1>3 DEF OpenAndWrite
<1>4. CASE ~there /\ Blocked(u, Front(path))
  BY <1>1, <1>2, <1>4 DEF OpenAndWrite
<1>5. CASE ~there /\ ~Blocked(u, Front(path))
  <2>1. left = IF IsDir(u, path) THEN Left(u, Refused("io_error")) ELSE put
    BY <1>5, Zenon DEF OpenAndWrite
  <2>2. put.tree = v /\ put.answer = said
    BY <1>1 DEF write_all
  <2>3. mode = "create" => ~IsFile(u, path)
    BY <1>5 DEF Exists
  <2> HIDE DEF left, put, v, said
  <2>4. \/ left.tree = u /\ ~left.answer.ok
        \/ left.tree = v /\ left.answer = said /\ ~IsDir(u, path)
    BY <1>1, <1>2, <2>1, <2>2
  <2>. QED  BY <1>5, <2>3, <2>4 DEF left, v, said
<1>. QED  BY <1>3, <1>4, <1>5

\* Opened in a sound tree with the files there were, whose directories are made.
LEMMA OpenWrites ==
    ASSUME NEW t, NEW u, TreeIsSound(u), Same(t, u), NEW path \in Seq(Name), NEW content \in Content,
           NEW mode, NEW room \in Nat, ~Blocked(u, Front(path)) => DirsAbove(u, path)
    PROVE  Writes(t, OpenAndWrite(u, path, content, mode, room), path, content, mode = "append",
                  mode = "create")
<1> DEFINE left == OpenAndWrite(u, path, content, mode, room)
           kept == IF mode = "append" /\ IsFile(u, path) THEN u[path].bytes ELSE <<>>
           some == Taken(content, room)
           bytes == kept \o some
           v == Put(u, path, File(bytes))
           said == IF Len(content) <= room THEN Written(path, content) ELSE Refused("io_error")
<1>1. \/ left.tree = u /\ ~left.answer.ok
      \/ /\ left.tree = v /\ left.answer = said
         /\ ~IsDir(u, path)
         /\ ~Blocked(u, Front(path)) /\ (mode = "create" => ~IsFile(u, path))
  BY OpenTells
<1> HIDE DEF left
<1>2. CASE left.tree = u /\ ~left.answer.ok
  BY <1>2 DEF Writes, Writing, left
<1>3. CASE /\ left.tree = v /\ left.answer = said
           /\ ~IsDir(u, path)
           /\ ~Blocked(u, Front(path)) /\ (mode = "create" => ~IsFile(u, path))
  <2>1. /\ said.ok \/ said \in Unsure
        /\ said.ok => Len(content) <= room
    BY DEF Written, Refused, Unsure
  <2>2. IsFile(u, path) => u[path].bytes \in Content
    BY DEF IsFile, TreeIsSound
  <2>3. some \in Content /\ (\E n \in 0..Len(content) : some = Taken(content, n))
        /\ (Len(content) <= room => some = content)
    BY RoomTakes
  <2>4. kept \in Content
    <3>1. <<>> \in Content
      BY DEF Content
    <3>. QED  BY <2>2, <3>1
  <2>5. kept = KeptOf(t, path, mode = "append")
    <3>1. Bytes(t, path) = Bytes(u, path)
      BY DEF Same
    <3>2. CASE IsFile(u, path)
      <4>1. Bytes(t, path) # <<>> /\ Bytes(t, path)[1] = u[path].bytes
        BY <3>1, <3>2, BytesAre
      <4>. QED  BY <3>2, <4>1 DEF KeptOf
    <3>3. CASE ~IsFile(u, path)
      <4>1. Bytes(t, path) = <<>>
        BY <3>1, <3>3, BytesAre
      <4>. QED  BY <3>3, <4>1 DEF KeptOf
    <3>. QED  BY <3>2, <3>3
  <2> HIDE DEF kept, some
  <2>6. bytes \in Content
    BY <2>3, <2>4, ConcatProperties DEF Content
  <2>7. bytes = KeptOf(t, path, mode = "append") \o some
    BY <2>5
  <2> HIDE DEF bytes
  <2>8. TreeIsSound(v)
    BY <1>3, <2>6, PutSound
  <2>9. v[path].bytes = bytes /\ IsFile(v, path) /\ SameBut(u, v, path)
    BY PutBytes
  <2> HIDE DEF v
  <2>10. SameBut(t, v, path)
    BY <2>9 DEF Same, SameBut
  <2>11. mode = "create" => Bytes(t, path) = <<>>
    BY <1>3, BytesAre DEF Same
  <2>12. Wrote(t, v, path, some, mode = "append", mode = "create")
    BY <2>7, <2>9, <2>10, <2>11, Zenon DEF Wrote
  <2>13. WroteSome(t, v, path, content, mode = "append", mode = "create")
    BY <2>3, <2>12 DEF WroteSome
  <2> HIDE DEF said
  <2>14. Writing(t, v, said, path, content, mode = "append", mode = "create")
    BY <2>1, <2>3, <2>12, <2>13 DEF Writing
  <2>. QED  BY <1>3, <2>8, <2>14 DEF Writes, left
<1>. QED  BY <1>1, <1>2, <1>3

\* A reply that is lost leaves what was written.
LEMMA ReplyWrites ==
    ASSUME NEW t, NEW left, NEW lost, NEW path, NEW text, NEW appended, NEW fresh,
           Writes(t, left, path, text, appended, fresh)
    PROVE  /\ Writes(t, Reply(left, lost), path, text, appended, fresh)
           /\ Writes(t, Confirmed(left, lost), path, text, appended, fresh)
<1> DEFINE error == Refused("workspace_rpc_error")
           reply == Reply(left, lost)
<1>1. reply = left \/ (reply.tree = left.tree /\ reply.answer = error)
  BY DEF Reply, Left
<1>2. error \in Unsure /\ ~error.ok
  BY DEF Unsure, Refused
<1> HIDE DEF error
<1>3. Writes(t, reply, path, text, appended, fresh)
  <2>1. CASE reply = left
    <3> HIDE DEF reply
    <3>. QED  BY <2>1
  <2>2. CASE reply.tree = left.tree /\ reply.answer = error
    <3> HIDE DEF reply
    <3>. QED  BY <1>2, <2>2 DEF Writes, Writing
  <2>. QED  BY <1>1, <2>1, <2>2
<1>4. Confirmed(left, lost) \in {left, reply}
  BY DEF Confirmed
<1> HIDE DEF reply
<1>. QED  BY <1>3, <1>4 DEF reply

\* With the directories above made first.
LEMMA MadeAndOpened ==
    ASSUME NEW t, TreeIsSound(t), NEW path \in Seq(Name), NEW content \in Content, NEW mode,
           NEW room \in Nat, ~Blocked(t, Front(path))
    PROVE  Writes(t, OpenAndWrite(MakeDirs(t, Front(path)), path, content, mode, room), path, content,
                  mode = "append", mode = "create")
<1> DEFINE front == Front(path)
           u == MakeDirs(t, front)
<1>1. /\ front \in Seq(Name) /\ (path # <<>> => Len(front) = Len(path) - 1)
      /\ \A n \in 1..(Len(path) - 1) : Taken(front, n) = Taken(path, n)
      /\ ~Blocked(t, front)
  BY FrontIs
<1> HIDE DEF front
<1>2. TreeIsSound(u) /\ \A n \in 1..Len(front) : IsDir(u, Taken(front, n))
  BY <1>1, MakeDirsSound
<1>3. Same(t, u)
  BY MakeDirsKeeps
<1>4. DirsAbove(u, path)
  <2> HIDE DEF u
  <2>1. ASSUME NEW n \in 1..(Len(path) - 1) PROVE IsDir(u, Taken(path, n))
    <3>1. path # <<>>
      OBVIOUS
    <3>2. n \in 1..Len(front) /\ Taken(front, n) = Taken(path, n)
      BY <1>1, <3>1
    <3>. QED  BY <1>2, <3>2
  <2>. QED  BY <2>1 DEF DirsAbove
<1> HIDE DEF u
<1>5. Writes(t, OpenAndWrite(u, path, content, mode, room), path, content, mode = "append",
             mode = "create")
  BY <1>2, <1>3, <1>4, OpenWrites
<1>. QED  BY <1>5 DEF u, front

LEMMA WriteToolWrites ==
    ASSUME NEW t, TreeIsSound(t), NEW raw \in RawPaths, NEW content \in Texts, NEW mode, NEW parents,
           NEW room \in Nat
    PROVE  Writes(t, write_tool(t, raw, content, mode, parents, room), normalize_guest_path(raw),
                  content, mode = "append", mode = "create")
<1> DEFINE resolved == resolve("write", raw)
           path == resolved.value
           parent == Front(path)
           left == write_tool(t, raw, content, mode, parents, room)
<1>1. \A v, a : Left(v, a).tree = v /\ Left(v, a).answer = a
  BY DEF Left
<1>2. \A c : ~Refused(c).ok
  BY DEF Refused
<1>3. content \in Content
  BY CallsAssumption DEF Content
<1> DEFINE Goal == Writes(t, left, normalize_guest_path(raw), content, mode = "append", mode = "create")
<1>4. ASSUME left.tree = t, ~left.answer.ok
      PROVE  Goal
  BY <1>4 DEF Writes, Writing, Same
<1>5. CASE Len(content) > MaxWriteBytes
  <2>1. left = Left(t, Refused("write_too_large"))
    BY <1>5, Zenon DEF write_tool
  <2> HIDE DEF left, resolved
  <2>2. left.tree = t /\ ~left.answer.ok
    BY <1>1, <1>2, <2>1
  <2>. QED  BY <1>4, <2>2 DEF left
<1>6. CASE ~(Len(content) > MaxWriteBytes) /\ ~resolved.ok
  <2>1. left = Left(t, resolved)
    BY <1>6, Zenon DEF write_tool
  <2> HIDE DEF left, resolved
  <2>2. left.tree = t /\ ~left.answer.ok
    BY <1>1, <1>6, <2>1
  <2>. QED  BY <1>4, <2>2 DEF left
<1>7. CASE ~(Len(content) > MaxWriteBytes) /\ resolved.ok
  <2>1. left = IF parents
               THEN IF Blocked(t, parent) THEN Left(t, Refused("io_error"))
                    ELSE OpenAndWrite(MakeDirs(t, parent), path, content, mode, room)
               ELSE IF ~Exists(t, parent) THEN Left(t, Refused("parent_missing"))
               ELSE OpenAndWrite(t, path, content, mode, room)
    BY <1>7, Zenon DEF write_tool
  <2>2. path \in Seq(Name) /\ path # <<>> /\ path = normalize_guest_path(raw)
    BY <1>7, ResolvedPath
  <2> HIDE DEF resolved
  <2>3. /\ parent \in Seq(Name) /\ Len(parent) = Len(path) - 1 /\ Len(path) \in Nat
        /\ \A n \in 1..(Len(path) - 1) : Taken(parent, n) = Taken(path, n)
    BY <2>2, FrontIs
  <2>4. CASE parents /\ ~Blocked(t, parent)
    <3>1. left = OpenAndWrite(MakeDirs(t, parent), path, content, mode, room)
      BY <2>1, <2>4
    <3> HIDE DEF left
    <3>2. Writes(t, left, path, content, mode = "append", mode = "create")
      BY <1>3, <2>2, <2>4, <3>1, MadeAndOpened
    <3>. QED  BY <2>2, <3>2 DEF left
  <2>5. CASE ~parents /\ Exists(t, parent)
    <3>1. left = OpenAndWrite(t, path, content, mode, room)
      BY <2>1, <2>5
    <3>2. ~Blocked(t, parent) => DirsAbove(t, path)
      <4> SUFFICES ASSUME ~Blocked(t, parent), NEW n \in 1..(Len(path) - 1)
                   PROVE  IsDir(t, Taken(path, n))
        BY DEF DirsAbove
      <4> HIDE DEF parent
      <4>1. n \in 1..Len(parent) /\ Taken(parent, n) = Taken(path, n) /\ parent # <<>>
            /\ Len(parent) \in 1..Len(parent)
        BY <2>3
      <4>2. Taken(parent, Len(parent)) = parent
        <5>1. Least(Len(parent), Len(parent)) = Len(parent)
          BY DEF Least
        <5>. QED  BY <2>3, <5>1, SubSeqFull DEF Taken
      <4>3. IsDir(t, parent)
        BY <2>5, <4>1, <4>2 DEF Exists, Blocked
      <4>4. parent \in DOMAIN t
        BY <4>1, <4>3 DEF IsDir
      <4>5. CASE n = Len(parent)
        BY <4>1, <4>2, <4>3, <4>5
      <4>6. CASE n # Len(parent)
        <5>1. n \in 1..(Len(parent) - 1)
          BY <4>1, <4>6
        <5>. QED  BY <4>1, <4>4, <5>1 DEF TreeIsSound, DirsAbove
      <4>. QED  BY <4>5, <4>6
    <3>3. Same(t, t)
      BY DEF Same
    <3> HIDE DEF left
    <3>4. Writes(t, left, path, content, mode = "append", mode = "create")
      BY <1>3, <2>2, <3>1, <3>2, <3>3, OpenWrites
    <3>. QED  BY <2>2, <3>4 DEF left
  <2>6. CASE (parents /\ Blocked(t, parent)) \/ (~parents /\ ~Exists(t, parent))
    <3>1. \E c : left = Left(t, Refused(c))
      BY <2>1, <2>6
    <3> HIDE DEF left
    <3>2. left.tree = t /\ ~left.answer.ok
      BY <1>1, <1>2, <3>1
    <3>. QED  BY <1>4, <3>2 DEF left
  <2>. QED  BY <2>4, <2>5, <2>6
<1>. QED  BY <1>5, <1>6, <1>7

LEMMA GatewayWrites ==
    ASSUME NEW t, TreeIsSound(t), NEW raw \in RawPaths, NEW max, NEW content \in Texts, NEW mode,
           NEW room \in Nat, NEW lost
    PROVE  Writes(t, gateway_workspace_request(t, "write", raw, max, content, mode, room, lost),
                  raw, content, mode = "append", FALSE)
<1> DEFINE left == gateway_workspace_request(t, "write", raw, max, content, mode, room, lost)
           flag == IF mode = "append" THEN mode ELSE "replace"
           opened == OpenAndWrite(MakeDirs(t, Front(raw)), raw, content, flag, room)
<1>1. left = IF IsDir(t, raw) \/ Blocked(t, Front(raw))
             THEN Left(t, Refused("workspace_rpc_error")) ELSE Reply(opened, lost)
  BY DEF gateway_workspace_request
<1>2. CASE IsDir(t, raw) \/ Blocked(t, Front(raw))
  <2> HIDE DEF left, opened
  <2>1. left.tree = t /\ ~left.answer.ok
    BY <1>1, <1>2 DEF Left, Refused
  <2>2. Writes(t, left, raw, content, mode = "append", FALSE)
    BY <2>1 DEF Writes, Writing, Same
  <2>. QED  BY <2>2 DEF left
<1>3. CASE ~(IsDir(t, raw) \/ Blocked(t, Front(raw)))
  <2>1. raw \in Seq(Name) /\ content \in Content /\ ~Blocked(t, Front(raw))
    BY <1>3, CallsAssumption DEF Content
  <2>2. Writes(t, opened, raw, content, flag = "append", flag = "create")
    <3> HIDE DEF flag
    <3>. QED  BY <2>1, MadeAndOpened
  <2>3. (flag = "append") = (mode = "append") /\ (flag = "create") = FALSE
    OBVIOUS
  <2>4. left = Reply(opened, lost)
    BY <1>1, <1>3
  <2> HIDE DEF left, opened, flag
  <2>5. Writes(t, opened, raw, content, mode = "append", FALSE)
    BY <2>2, <2>3
  <2>6. Writes(t, left, raw, content, mode = "append", FALSE)
    BY <2>4, <2>5, ReplyWrites
  <2>. QED  BY <2>6 DEF left
<1>. QED  BY <1>2, <1>3

LEMMA GatewayLooks ==
    ASSUME NEW t, NEW raw, NEW tool, tool # "write", NEW max, NEW content, NEW mode,
           NEW room, NEW lost
    PROVE  LET left == gateway_workspace_request(t, tool, raw, max, content, mode, room, lost)
           IN left.tree = t /\ (tool \notin {"read", "list"} => ~left.answer.ok)
<1> DEFINE left == gateway_workspace_request(t, tool, raw, max, content, mode, room, lost)
<1>1. \A v, a : Left(v, a).tree = v /\ Left(v, a).answer = a
  BY DEF Left
<1>2. CASE tool \in {"read", "list"}
  <2>1. CASE tool = "read"
    <3>1. \E a : left = Left(t, a)
      BY <2>1, Zenon DEF gateway_workspace_request
    <3> HIDE DEF left
    <3>2. left.tree = t
      BY <1>1, <3>1
    <3>. QED  BY <2>1, <3>2 DEF left
  <2>2. CASE tool = "list"
    <3>1. \E a : left = Left(t, a)
      BY <2>2, Zenon DEF gateway_workspace_request
    <3> HIDE DEF left
    <3>2. left.tree = t
      BY <1>1, <3>1
    <3>. QED  BY <2>2, <3>2 DEF left
  <2>. QED  BY <1>2, <2>1, <2>2
<1>3. CASE tool \notin {"read", "list"}
  <2>1. left = Left(t, Refused("workspace_rpc_tool_unsupported"))
    BY <1>3 DEF gateway_workspace_request
  <2> HIDE DEF left
  <2>2. left.tree = t /\ ~left.answer.ok
    BY <1>1, <2>1 DEF Refused
  <2>. QED  BY <2>2 DEF left
<1>. QED  BY <1>2, <1>3

LEMMA WriteTextWrites ==
    ASSUME NEW t, TreeIsSound(t), NEW path \in Seq(Name), NEW text \in Content, NEW append \in BOOLEAN,
           NEW room \in Nat, NEW lost
    PROVE  Writes(t, write_text(t, path, text, append, room, lost), path, text, append, FALSE)
<1> DEFINE mode == IF append THEN "append" ELSE "replace"
           front == Front(path)
           u == IF Blocked(t, front) THEN t ELSE MakeDirs(t, front)
           left == OpenAndWrite(u, path, text, mode, room)
<1>1. write_text(t, path, text, append, room, lost) = Confirmed(left, lost)
  BY DEF write_text, ensure_parent_dir_for_write
<1>2. (mode = "append") = append /\ (mode = "create") = FALSE
  OBVIOUS
<1>3. Writes(t, left, path, text, mode = "append", mode = "create")
  <2> HIDE DEF mode
  <2>1. CASE ~Blocked(t, front)
    <3>1. u = MakeDirs(t, Front(path))
      BY <2>1
    <3> HIDE DEF u
    <3>. QED  BY <2>1, <3>1, MadeAndOpened
  <2>2. CASE Blocked(t, front)
    <3>1. u = t /\ Same(t, t)
      BY <2>2 DEF Same
    <3> HIDE DEF u
    <3>. QED  BY <2>2, <3>1, OpenWrites
  <2>. QED  BY <2>1, <2>2
<1> HIDE DEF left, mode
<1>4. Writes(t, left, path, text, append, FALSE)
  BY <1>2, <1>3
<1>. QED  BY <1>1, <1>4, ReplyWrites

LEMMA SaveWrites ==
    ASSUME NEW t, TreeIsSound(t), NEW path \in Seq(Name), NEW text \in Content,
           NEW append \in BOOLEAN, NEW force \in BOOLEAN, NEW room \in Nat, NEW lost
    PROVE  Writes(t, save_value_file(t, path, text, append, force, room, lost), path, text, append,
                  ~append /\ ~force)
<1> DEFINE left == save_value_file(t, path, text, append, force, room, lost)
           refuse == Exists(t, path) /\ ~append /\ ~force
<1>1. CASE refuse
  <2>1. left = Left(t, Refused("exists"))
    BY <1>1 DEF save_value_file
  <2> HIDE DEF left
  <2>2. left.tree = t /\ ~left.answer.ok
    BY <2>1 DEF Left, Refused
  <2>3. Writes(t, left, path, text, append, ~append /\ ~force)
    BY <2>2 DEF Writes, Writing, Same
  <2>. QED  BY <2>3 DEF left
<1>2. CASE ~refuse
  <2>1. left = write_text(t, path, text, append, room, lost)
    BY <1>2 DEF save_value_file
  <2> HIDE DEF left
  <2>2. Writes(t, left, path, text, append, FALSE)
    BY <2>1, WriteTextWrites
  <2>3. ~append /\ ~force => Bytes(t, path) = <<>>
    BY <1>2, BytesAre DEF Exists
  <2>4. Writes(t, left, path, text, append, ~append /\ ~force)
    BY <2>2, <2>3 DEF Writes, Writing, WroteSome, Wrote
  <2>. QED  BY <2>4 DEF left
<1>. QED  BY <1>1, <1>2

\* What the calls that edit do: the edit, or a first part of its outcome when
\* that is told.
Meant(before, old, new, all) ==
    replace(before, old, new, IF all THEN matches(before, old) ELSE 1)
Edited(t, u, path, old, new, all, count) ==
    /\ SameBut(t, u, path)
    /\ IsUtf8(t[path].bytes) => Edits(t[path].bytes, u[path].bytes, old, new, count)
    /\ ~all => count = 1
EditedSome(t, u, path, old, new, all) ==
    /\ SameBut(t, u, path)
    /\ IsUtf8(t[path].bytes) =>
         \E n \in 0..Len(Meant(t[path].bytes, old, new, all)) :
           u[path].bytes = Taken(Meant(t[path].bytes, old, new, all), n)
Editing(t, u, result, path, old, new, all) ==
    \/ ~result.ok /\ Same(t, u)
    \/ ~result.ok /\ result \in Unsure /\ EditedSome(t, u, path, old, new, all)
    \/ result.ok /\ Edited(t, u, path, old, new, all, result.count)
EditsTold(t, left, path, old, new, all) ==
    /\ TreeIsSound(left.tree)
    /\ Editing(t, left.tree, left.answer, path, old, new, all)

LEMMA EditToolEdits ==
    ASSUME NEW t, TreeIsSound(t), NEW raw \in RawPaths, NEW old \in Texts, NEW new \in Texts,
           NEW all \in BOOLEAN, NEW room \in Nat
    PROVE  EditsTold(t, edit_tool(t, raw, old, new, all, room), normalize_guest_path(raw),
                     old, new, all)
<1> DEFINE resolved == resolve("edit", raw)
           path == resolved.value
           left == edit_tool(t, raw, old, new, all, room)
           content == t[path].bytes
           found == matches(content, old)
           n == IF all THEN found ELSE 1
           edited == replace(content, old, new, n)
           told == [Written(path, edited) EXCEPT !.count = n]
           said == IF Len(edited) <= room THEN told ELSE Refused("io_error")
           missing == io_tool_error(t, path)
           some == <<>> \o Taken(edited, room)
           v == Put(t, path, File(some))
<1>1. \A u, a : Left(u, a).tree = u /\ Left(u, a).answer = a
  BY DEF Left
<1>2. (\A c : ~Refused(c).ok) /\ ~missing.ok
  BY DEF Refused, io_tool_error
<1>3. told.ok /\ told.count = n
  BY DEF Written
<1>4. left = IF ~resolved.ok THEN Left(t, resolved)
             ELSE IF IsDir(t, path) THEN Left(t, Refused("io_error"))
             ELSE IF ~IsFile(t, path) THEN Left(t, missing)
             ELSE IF Len(content) > MaxReadBytes THEN Left(t, Refused("file_too_large"))
             ELSE IF ~IsUtf8(content) THEN Left(t, Refused("non_utf8_file"))
             ELSE IF old = <<>> THEN Left(t, Refused("empty_match"))
             ELSE IF found = 0 THEN Left(t, Refused("match_not_found"))
             ELSE IF found > 1 /\ ~all THEN Left(t, Refused("multiple_matches"))
             ELSE IF Len(edited) > MaxWriteBytes THEN Left(t, Refused("edit_result_too_large"))
             ELSE write_all(t, path, <<>>, edited, room, told)
  BY Zenon DEF edit_tool
<1>5. write_all(t, path, <<>>, edited, room, told) = Left(v, said)
  BY DEF write_all
<1> DEFINE go == /\ resolved.ok /\ ~IsDir(t, path) /\ IsFile(t, path) /\ old # <<>> /\ found # 0
                 /\ ~(found > 1 /\ ~all)
<1>6. \/ left.tree = t /\ ~left.answer.ok
      \/ left.tree = v /\ left.answer = said /\ go
  <2> HIDE DEF left, resolved, content, found, edited, told, missing, said, v
  <2>1. (left.tree = t /\ ~left.answer.ok) \/ (left = Left(v, said) /\ go)
    <3>1. CASE ~go
      <4>1. (~resolved.ok /\ left = Left(t, resolved)) \/ left = Left(t, missing)
            \/ \E c : left = Left(t, Refused(c))
        BY <1>4, <3>1
      <4>. QED  BY <1>1, <1>2, <4>1
    <3>2. CASE go
      <4>1. left = Left(v, said) \/ \E c : left = Left(t, Refused(c))
        BY <1>4, <1>5, <3>2
      <4>. QED  BY <1>1, <1>2, <3>2, <4>1
    <3>. QED  BY <3>1, <3>2
  <2> HIDE DEF go
  <2>2. (left.tree = t /\ ~left.answer.ok) \/ (left.tree = v /\ left.answer = said /\ go)
    BY <1>1, <2>1
  <2>. QED  BY <2>2
<1>7. CASE left.tree = t /\ ~left.answer.ok
  <2>1. EditsTold(t, left, normalize_guest_path(raw), old, new, all)
    <3> HIDE DEF left, resolved
    <3>. QED  BY <1>7 DEF EditsTold, Editing, Same
  <2>. QED  BY <2>1
<1>8. CASE left.tree = v /\ left.answer = said /\ go
  <2>1. path = normalize_guest_path(raw)
    BY <1>8, ResolvedPath
  <2> HIDE DEF resolved
  <2>2. /\ path \in Seq(Name) /\ content \in Content /\ DirsAbove(t, path)
        /\ old \in Content /\ new \in Content
    BY <1>8, CallsAssumption DEF IsFile, TreeIsSound, Content
  <2>3. edited = Meant(content, old, new, all)
    BY DEF Meant
  <2> HIDE DEF content
  <2>4. found \in Nat
    BY <1>8, <2>2, CountsAreMany
  <2>5. n \in Nat /\ n # 0 /\ n <= found
    <3> HIDE DEF found
    <3>. QED  BY <1>8, <2>4
  <2>6. Edits(content, edited, old, new, n) /\ edited \in Content
    <3> HIDE DEF n
    <3>. QED  BY <1>8, <2>2, <2>5, ReplaceEdits, ReplaceIsText
  <2>7. ~all => n = 1
    OBVIOUS
  <2> HIDE DEF n, edited, told, found
  <2>8. /\ some \in Content /\ (\E k \in 0..Len(edited) : some = Taken(edited, k))
        /\ Len(edited) <= room => some = edited
    <3>1. /\ Taken(edited, room) \in Content
          /\ \E k \in 0..Len(edited) : Taken(edited, room) = Taken(edited, k)
          /\ Len(edited) <= room => Taken(edited, room) = edited
      BY <2>6, RoomTakes
    <3>2. <<>> \o Taken(edited, room) = Taken(edited, room)
      BY <3>1, ConcatEmptySeq DEF Content
    <3>. QED  BY <3>1, <3>2
  <2> HIDE DEF some
  <2>9. TreeIsSound(v)
    BY <1>8, <2>2, <2>8, PutSound
  <2>10. v[path].bytes = some /\ SameBut(t, v, path)
    BY PutBytes
  <2> HIDE DEF v, left
  <2>11. CASE Len(edited) <= room
    <3>1. said.ok /\ said.count = n
      BY <1>3, <2>11
    <3> HIDE DEF said
    <3>2. Edited(t, v, path, old, new, all, n)
      BY <2>6, <2>7, <2>8, <2>10, <2>11 DEF Edited, content
    <3>3. EditsTold(t, left, path, old, new, all)
      BY <1>8, <2>9, <3>1, <3>2 DEF EditsTold, Editing
    <3>. QED  BY <2>1, <3>3 DEF left
  <2>12. CASE ~(Len(edited) <= room)
    <3>1. said = Refused("io_error") /\ ~said.ok /\ said \in Unsure
      BY <2>12 DEF Refused, Unsure
    <3> HIDE DEF said
    <3>2. EditedSome(t, v, path, old, new, all)
      BY <2>3, <2>8, <2>10 DEF EditedSome, content
    <3>3. EditsTold(t, left, path, old, new, all)
      BY <1>8, <2>9, <3>1, <3>2 DEF EditsTold, Editing
    <3>. QED  BY <2>1, <3>3 DEF left
  <2>. QED  BY <2>11, <2>12
<1>. QED  BY <1>6, <1>7, <1>8

\* The whole of a text that decodes.
LEMMA ReadWhole ==
    ASSUME NEW t, TreeIsSound(t), NEW path, IsFile(t, path), NEW text,
           text = read_text(t, path, 0, Len(t[path].bytes)), text.ok
    PROVE  text.value \in Content /\ (IsUtf8(t[path].bytes) => text.value = t[path].bytes)
<1> DEFINE bytes == t[path].bytes
<1>1. bytes \in Seq(STRING)
  BY DEF IsFile, TreeIsSound, Content
<1> HIDE DEF bytes
<1>2. Len(bytes) \in 0..Len(bytes) /\ 0 \in 0..Len(bytes) /\ Len(bytes) \in Nat
  BY <1>1
<1>3. Without(bytes, 0) = bytes
  <2>1. Without(bytes, 0) = SubSeq(bytes, 1, Len(bytes))
    BY DEF Without
  <2>. QED  BY <1>1, <2>1, SubSeqFull
<1>4. Taken(bytes, Len(bytes)) = bytes
  <2>1. Least(Len(bytes), Len(bytes)) = Len(bytes)
    BY DEF Least
  <2>. QED  BY <1>1, <2>1, SubSeqFull DEF Taken
<1>5. text = decode_bounded_text(bytes)
  BY <1>3, <1>4 DEF read_text, read_text_range, bytes
<1>6. ~Failure.ok
  BY DEF Failure
<1>7. text = Success(Taken(bytes, ValidUpTo(bytes)))
  BY <1>5, <1>6 DEF decode_bounded_text
<1>8. text.value = Taken(bytes, ValidUpTo(bytes))
  BY <1>7 DEF Success
<1>9. ValidUpTo(bytes) \in 0..Len(bytes)
  <2> DEFINE Bad(i) == \/ bytes[i] = "T" /\ (i = 1 \/ bytes[i - 1] # "L")
                       \/ bytes[i] = "L" /\ (i = Len(bytes) \/ bytes[i + 1] # "T")
             bad == {i \in DOMAIN bytes : Bad(i)}
  <2>1. ValidUpTo(bytes) = IF bad = {} THEN Len(bytes) ELSE (CHOOSE i \in bad : \A j \in bad : i <= j) - 1
    BY Zenon DEF ValidUpTo
  <2>2. bad \subseteq 1..Len(bytes) /\ bad \subseteq Nat
    BY <1>1
  <2> HIDE DEF bad
  <2>3. CASE bad = {}
    BY <1>2, <2>1, <2>3
  <2>4. CASE bad # {}
    <3>1. \E i \in bad : \A j \in bad : i <= j
      BY <2>2, <2>4, LeastExists
    <3>2. (CHOOSE i \in bad : \A j \in bad : i <= j) \in bad
      BY <3>1, Zenon
    <3> DEFINE c == CHOOSE i \in bad : \A j \in bad : i <= j
    <3>3. ValidUpTo(bytes) = c - 1 /\ c \in 1..Len(bytes)
      BY <2>1, <2>2, <2>4, <3>2
    <3> HIDE DEF c
    <3>. QED  BY <1>2, <3>3
  <2>. QED  BY <2>3, <2>4
<1>10. text.value \in Content
  BY <1>1, <1>8, <1>9, TakenIs DEF Content
<1>. QED  BY <1>4, <1>8, <1>10 DEF IsUtf8, bytes

LEMMA EditTextEdits ==
    ASSUME NEW t, TreeIsSound(t), NEW path \in Seq(Name), NEW old \in Content, NEW new \in Content,
           NEW all \in BOOLEAN, NEW room \in Nat, NEW lost
    PROVE  EditsTold(t, edit_text_file(t, path, old, new, all, room, lost), path, old, new, all)
<1> DEFINE left == edit_text_file(t, path, old, new, all, room, lost)
           text == read_text(t, path, 0, Len(t[path].bytes))
           found == matches(text.value, old)
           n == IF all THEN found ELSE 1
           replaced == replace(text.value, old, new, n)
           told == [ok |-> TRUE, path |-> path, count |-> n]
           missing == io_tool_error(t, path)
           written == write_text(t, path, replaced, FALSE, room, lost)
           said == IF written.answer.ok THEN told ELSE written.answer
<1>1. \A v, a : Left(v, a).tree = v /\ Left(v, a).answer = a
  BY DEF Left
<1>2. ~Failure.ok /\ ~missing.ok
  BY DEF Failure, Refused, io_tool_error
<1>3. left = IF old = <<>> THEN Left(t, Failure)
             ELSE IF ~IsFile(t, path) THEN Left(t, missing)
             ELSE IF ~text.ok THEN Left(t, text)
             ELSE IF found = 0 THEN Left(t, Failure)
             ELSE Left(written.tree, said)
  BY Zenon DEF edit_text_file
<1>4. CASE old = <<>> \/ ~IsFile(t, path) \/ ~text.ok \/ found = 0
  <2>1. left.tree = t /\ ~left.answer.ok
    <3> HIDE DEF left, text, found, written, missing, said
    <3>. QED  BY <1>1, <1>2, <1>3, <1>4
  <2> HIDE DEF left
  <2>2. EditsTold(t, left, path, old, new, all)
    BY <2>1 DEF EditsTold, Editing, Same
  <2>. QED  BY <2>2 DEF left
<1>5. CASE old # <<>> /\ IsFile(t, path) /\ text.ok /\ found # 0
  <2>1. left.tree = written.tree /\ left.answer = said
    <3>1. left = Left(written.tree, said)
      BY <1>3, <1>5
    <3> HIDE DEF left, written, said
    <3>. QED  BY <1>1, <3>1
  <2>2. /\ text.value \in Content /\ (IsUtf8(t[path].bytes) => text.value = t[path].bytes)
    <3> DEFINE r == read_text(t, path, 0, Len(t[path].bytes))
    <3>1. r = read_text(t, path, 0, Len(t[path].bytes)) /\ r.ok
      BY <1>5
    <3> HIDE DEF r
    <3>2. r.value \in Content /\ (IsUtf8(t[path].bytes) => r.value = t[path].bytes)
      BY <1>5, <3>1, ReadWhole
    <3>. QED  BY <3>2 DEF r
  <2> HIDE DEF text
  <2>3. found \in Nat
    BY <1>5, <2>2, CountsAreMany
  <2>4. n \in Nat /\ n # 0 /\ n <= found
    <3> HIDE DEF found
    <3>. QED  BY <1>5, <2>3
  <2>5. Edits(text.value, replaced, old, new, n) /\ replaced \in Content
    <3> DEFINE value == text.value
    <3>1. value \in Content /\ n <= matches(value, old)
      BY <2>2, <2>4
    <3> HIDE DEF n, value
    <3>. QED  BY <1>5, <2>4, <3>1, ReplaceEdits, ReplaceIsText DEF value
  <2>6. replaced = Meant(text.value, old, new, all)
    BY DEF Meant
  <2>7. told.ok /\ told.count = n /\ (~all => n = 1)
    OBVIOUS
  <2> HIDE DEF replaced, n, found, told, left
  <2>8. Writes(t, written, path, replaced, FALSE, FALSE)
    <3>1. FALSE \in BOOLEAN
      OBVIOUS
    <3>. QED  BY <2>5, <3>1, WriteTextWrites
  <2> HIDE DEF written
  <2>9. TreeIsSound(left.tree)
    BY <2>1, <2>8 DEF Writes
  <2>10. KeptOf(t, path, FALSE) = <<>> /\ \A s \in Content : <<>> \o s = s
    BY ConcatEmptySeq DEF KeptOf, Content
  <2>11. CASE ~written.answer.ok /\ Same(t, written.tree)
    <3>1. ~left.answer.ok /\ Same(t, left.tree)
      BY <2>1, <2>11
    <3>2. EditsTold(t, left, path, old, new, all)
      BY <2>9, <3>1 DEF EditsTold, Editing
    <3>. QED  BY <3>2 DEF left
  <2>12. CASE written.answer.ok /\ Wrote(t, written.tree, path, replaced, FALSE, FALSE)
    <3>1. SameBut(t, left.tree, path) /\ left.tree[path].bytes = replaced
      BY <2>1, <2>5, <2>10, <2>12 DEF Wrote
    <3>2. left.answer = told
      BY <2>1, <2>12
    <3>3. Edited(t, left.tree, path, old, new, all, n)
      BY <2>2, <2>5, <2>7, <3>1 DEF Edited
    <3>4. EditsTold(t, left, path, old, new, all)
      BY <2>7, <2>9, <3>2, <3>3 DEF EditsTold, Editing
    <3>. QED  BY <3>4 DEF left
  <2>13. CASE /\ ~written.answer.ok /\ written.answer \in Unsure
              /\ WroteSome(t, written.tree, path, replaced, FALSE, FALSE)
    <3>1. PICK k \in 0..Len(replaced) : Wrote(t, written.tree, path, Taken(replaced, k), FALSE, FALSE)
      BY <2>13 DEF WroteSome
    <3>2. Taken(replaced, k) \in Content
      <4>1. k \in Nat
        BY <2>5 DEF Content
      <4>. QED  BY <2>5, <4>1, RoomTakes
    <3>3. SameBut(t, left.tree, path) /\ left.tree[path].bytes = Taken(replaced, k)
      BY <2>1, <2>10, <3>1, <3>2 DEF Wrote
    <3>4. left.answer \in Unsure /\ ~left.answer.ok
      BY <2>1, <2>13
    <3>5. EditedSome(t, left.tree, path, old, new, all)
      BY <2>2, <2>6, <3>3 DEF EditedSome
    <3>6. EditsTold(t, left, path, old, new, all)
      BY <2>9, <3>4, <3>5 DEF EditsTold, Editing
    <3>. QED  BY <3>6 DEF left
  <2>. QED  BY <2>8, <2>11, <2>12, <2>13 DEF Writes, Writing
<1>. QED  BY <1>4, <1>5

-----------------------------------------------------------------------------
(***************************************************************************)
(* What a step of a workspace tells.                                       *)
(***************************************************************************)
\* Where a workspace stands between two calls.
WorkspaceIsSound == TreeIsSound(tree) /\ cwd \in Seq(Name)

Looking == {"mkdir", "cd", "read_text", "find_records", "search_records"} \cup (Tools \ {"write", "edit"})
Removed(t, u, paths) ==
    \A p : Bytes(u, p) = Bytes(t, p) \/ (Bytes(u, p) = <<>> /\ \E i \in 1..2 : IsPrefix(paths[i], p))
Told(op, args, result) ==
    \/ op \in Looking /\ Same(tree, tree')
    \/ op = "rm" /\ Removed(tree, tree', args.paths)
    \/ op = "write"
       /\ Writing(tree, tree', result, PathOf(op, args), args.content, args.mode = "append",
                  args.mode = "create" /\ ~attached)
    \/ op = "write_text"
       /\ Writing(tree, tree', result, args.path, args.more[1], args.more[2], FALSE)
    \/ op = "save"
       /\ Writing(tree, tree', result, args.path, args.more[1], args.more[2],
                  ~args.more[2] /\ ~args.more[3])
    \/ op = "edit"
       /\ Editing(tree, tree', result, PathOf(op, args), args.content[1], args.content[2], args.mode)
    \/ op = "edit_text"
       /\ Editing(tree, tree', result, args.path, args.more[1], args.more[2], args.more[3])
Tells == Told(answer'.op, answer'.args, answer'.result) /\ WorkspaceIsSound'

\* A tool's answer, or that of the Gateway.
LEMMA ToolAnswers ==
    ASSUME NEW tool \in Tools, NEW raw, NEW max, NEW content, NEW mode, NEW room, NEW lost, NEW left,
           Tool(tool, raw, max, content, mode, room, lost, left), NEW gone,
           gone = gateway_workspace_request(tree, tool, raw, max, content, mode, room, lost)
    PROVE  /\ answer'.op = tool /\ answer'.args.content = content /\ answer'.args.mode = mode
           /\ cwd' = cwd
           /\ \/ /\ attached /\ tree' = gone.tree /\ answer'.result = gone.answer
                 /\ PathOf(tool, answer'.args) = raw
              \/ /\ tree' = left.tree /\ answer'.result = left.answer
                 /\ PathOf(tool, answer'.args) = normalize_guest_path(raw)
<1>1. /\ answer'.op = tool /\ answer'.args.content = content /\ answer'.args.mode = mode
      /\ answer'.args.raw = raw /\ cwd' = cwd
  BY DEF Tool, Answers
<1>2. CASE remote_workspace_tool(raw)
  <2>1. attached /\ tree' = gone.tree /\ answer'.result = gone.answer
    BY <1>2 DEF Tool, Answers, remote_workspace_tool
  <2>2. PathOf(tool, answer'.args) = raw
    BY <1>1, <1>2 DEF PathOf
  <2>. QED  BY <1>1, <2>1, <2>2
<1>3. CASE ~remote_workspace_tool(raw)
  <2>1. tree' = left.tree /\ answer'.result = left.answer
    BY <1>3 DEF Tool, Answers
  <2>2. PathOf(tool, answer'.args) = normalize_guest_path(raw)
    BY <1>1, <1>3 DEF PathOf
  <2>. QED  BY <1>1, <2>1, <2>2
<1>. QED  BY <1>2, <1>3

LEMMA LookingTells ==
    ASSUME WorkspaceIsSound, NEW tool \in Tools \ {"write", "edit"}, NEW raw \in RawPaths, NEW max,
           NEW content, NEW mode, NEW room, NEW lost, NEW result,
           Tool(tool, raw, max, content, mode, room, lost, Left(tree, result))
    PROVE  Tells
<1> DEFINE left == Left(tree, result)
           gone == gateway_workspace_request(tree, tool, raw, max, content, mode, room, lost)
<1>1. left.tree = tree
  BY DEF Left
<1>2. gone.tree = tree
  <2>1. tool # "write"
    OBVIOUS
  <2>. QED  BY <2>1, GatewayLooks
<1>3. /\ answer'.op = tool /\ cwd' = cwd /\ (tree' = gone.tree \/ tree' = left.tree)
  <2>1. Tool(tool, raw, max, content, mode, room, lost, left)
    OBVIOUS
  <2>2. gone = gateway_workspace_request(tree, tool, raw, max, content, mode, room, lost)
    OBVIOUS
  <2> HIDE DEF left, gone
  <2>. QED  BY <2>1, <2>2, ToolAnswers
<1> HIDE DEF left, gone
<1>4. tree' = tree
  BY <1>1, <1>2, <1>3
<1>. QED  BY <1>3, <1>4 DEF Tells, Told, Looking, Same, WorkspaceIsSound

LEMMA WriteTells ==
    ASSUME WorkspaceIsSound, NEW raw \in RawPaths, NEW content \in Texts, NEW mode, NEW parents,
           NEW room \in Nat, NEW lost,
           Tool("write", raw, 0, content, mode, room, lost,
                write_tool(tree, raw, content, mode, parents, room))
    PROVE  Tells
<1> DEFINE left == write_tool(tree, raw, content, mode, parents, room)
           gone == gateway_workspace_request(tree, "write", raw, 0, content, mode, room, lost)
           path == PathOf("write", answer'.args)
           args == answer'.args
           result == answer'.result
           fresh == mode = "create" /\ ~attached
<1>1. Writes(tree, left, normalize_guest_path(raw), content, mode = "append", mode = "create")
  BY WriteToolWrites DEF WorkspaceIsSound
<1>2. Writes(tree, gone, raw, content, mode = "append", FALSE)
  BY GatewayWrites DEF WorkspaceIsSound
<1>3. /\ answer'.op = "write" /\ args.content = content /\ args.mode = mode /\ cwd' = cwd
      /\ \/ attached /\ tree' = gone.tree /\ result = gone.answer /\ path = raw
         \/ tree' = left.tree /\ result = left.answer /\ path = normalize_guest_path(raw)
  <2>1. Tool("write", raw, 0, content, mode, room, lost, left) /\ "write" \in Tools
    BY DEF Tools
  <2>2. gone = gateway_workspace_request(tree, "write", raw, 0, content, mode, room, lost)
    OBVIOUS
  <2> HIDE DEF left, gone
  <2>. QED  BY <2>1, <2>2, ToolAnswers
<1> HIDE DEF left, gone, path
<1>4. CASE attached /\ tree' = gone.tree /\ result = gone.answer /\ path = raw
  <2>1. TreeIsSound(tree') /\ Writing(tree, tree', result, path, content, mode = "append", FALSE)
    BY <1>2, <1>4 DEF Writes
  <2>2. Writing(tree, tree', result, path, content, mode = "append", fresh)
    BY <1>4, <2>1 DEF Writing, WroteSome, Wrote
  <2>. QED  BY <1>3, <2>1, <2>2 DEF Tells, Told, WorkspaceIsSound, path
<1>5. CASE tree' = left.tree /\ result = left.answer /\ path = normalize_guest_path(raw)
  <2>1. /\ TreeIsSound(tree')
        /\ Writing(tree, tree', result, path, content, mode = "append", mode = "create")
    BY <1>1, <1>5 DEF Writes
  <2>2. Writing(tree, tree', result, path, content, mode = "append", fresh)
    BY <2>1 DEF Writing, WroteSome, Wrote
  <2>. QED  BY <1>3, <2>1, <2>2 DEF Tells, Told, WorkspaceIsSound, path
<1>. QED  BY <1>3, <1>4, <1>5

LEMMA EditTells ==
    ASSUME WorkspaceIsSound, NEW raw \in RawPaths, NEW old \in Texts, NEW new \in Texts,
           NEW all \in BOOLEAN, NEW room \in Nat, NEW lost,
           Tool("edit", raw, 0, <<old, new>>, all, room, lost,
                edit_tool(tree, raw, old, new, all, room))
    PROVE  Tells
<1> DEFINE left == edit_tool(tree, raw, old, new, all, room)
           content == <<old, new>>
           gone == gateway_workspace_request(tree, "edit", raw, 0, content, all, room, lost)
           path == PathOf("edit", answer'.args)
           args == answer'.args
           result == answer'.result
<1>1. EditsTold(tree, left, normalize_guest_path(raw), old, new, all)
  BY EditToolEdits DEF WorkspaceIsSound
<1>2. gone.tree = tree /\ ~gone.answer.ok
  <2>1. "edit" # "write" /\ "edit" \notin {"read", "list"}
    OBVIOUS
  <2>. QED  BY <2>1, GatewayLooks
<1>3. /\ answer'.op = "edit" /\ args.content = content /\ args.mode = all /\ cwd' = cwd
      /\ \/ tree' = gone.tree /\ result = gone.answer
         \/ tree' = left.tree /\ result = left.answer /\ path = normalize_guest_path(raw)
  <2>1. Tool("edit", raw, 0, content, all, room, lost, left) /\ "edit" \in Tools
    BY DEF Tools
  <2>2. gone = gateway_workspace_request(tree, "edit", raw, 0, content, all, room, lost)
    OBVIOUS
  <2> HIDE DEF left, gone, content
  <2>. QED  BY <2>1, <2>2, ToolAnswers
<1>4. args.content[1] = old /\ args.content[2] = new
  BY <1>3
<1> HIDE DEF left, gone, content, path
<1>5. CASE tree' = gone.tree /\ result = gone.answer
  <2>1. tree' = tree /\ ~result.ok
    BY <1>2, <1>5
  <2>2. Editing(tree, tree', result, path, old, new, all)
    BY <2>1 DEF Editing, Same
  <2>. QED  BY <1>3, <1>4, <2>1, <2>2 DEF Tells, Told, WorkspaceIsSound, path
<1>6. CASE tree' = left.tree /\ result = left.answer /\ path = normalize_guest_path(raw)
  <2>1. TreeIsSound(tree') /\ Editing(tree, tree', result, path, old, new, all)
    BY <1>1, <1>6 DEF EditsTold
  <2>. QED  BY <1>3, <1>4, <2>1 DEF Tells, Told, WorkspaceIsSound, path
<1>. QED  BY <1>3, <1>5, <1>6

LEMMA ScriptPath ==
    ASSUME WorkspaceIsSound, NEW script \in ScriptPaths
    PROVE  resolve_script_path(script) \in Seq(Name)
<1>1. script.parts \in Seq(Name) /\ cwd \in Seq(Name) /\ <<"app">> \in Seq(Name)
  BY CallsAssumption DEF WorkspaceIsSound, Name
<1>2. \A a \in Seq(Name) : a \o script.parts \in Seq(Name)
  BY <1>1, ConcatProperties
<1>. QED  BY <1>1, <1>2 DEF resolve_script_path

\* A built-in that only looks, and a call that the client refuses.
LEMMA BuiltinLooks ==
    ASSUME WorkspaceIsSound, NEW op \in Looking, NEW args, NEW left, left.tree = tree,
           Answers(op, args, left)
    PROVE  Tells
  BY DEF Answers, Tells, Told, Same, WorkspaceIsSound

LEMMA ReadTextTells ==
    ASSUME WorkspaceIsSound, ReadText \/ FindBuiltin \/ SearchBuiltin
    PROVE  Tells
<1>1. \A v, a : Left(v, a).tree = v
  BY DEF Left
<1>2. \E op \in Looking : \E args, a : Answers(op, args, Left(tree, a))
  <2>1. CASE ReadText
    <3>1. "read_text" \in Looking
      BY DEF Looking
    <3>2. PICK script \in ScriptPaths, offset \in Counts, max \in Counts, tail \in BOOLEAN :
            Builtin("read_text", script, <<offset, max, tail>>, LAMBDA t, p :
              Left(t, IF tail THEN read_tail(t, p, offset, max) ELSE read_text(t, p, offset, max)))
      BY <2>1, Zenon DEF ReadText
    <3>3. \E args, a : Answers("read_text", args, Left(tree, a))
      BY <3>2, Zenon DEF Builtin
    <3>. QED  BY <3>1, <3>3
  <2>2. CASE FindBuiltin
    <3>1. "find_records" \in Looking
      BY DEF Looking
    <3>2. PICK script \in ScriptPaths, glob \in Filters, depth \in Counts, kind \in {"file", "dir", "any"} :
            Builtin("find_records", script, <<glob, kind, depth>>,
              LAMBDA t, p : Left(t, find_records(t, p, NoFilter, glob, kind, depth)))
      BY <2>2, Zenon DEF FindBuiltin
    <3>3. \E args, a : Answers("find_records", args, Left(tree, a))
      BY <3>2, Zenon DEF Builtin
    <3>. QED  BY <3>1, <3>3
  <2>3. CASE SearchBuiltin
    <3>1. "search_records" \in Looking
      BY DEF Looking
    <3>2. PICK script \in ScriptPaths, matcher \in Matchers :
            Builtin("search_records", script, matcher,
              LAMBDA t, p : Left(t, search_records(t, p, matcher)))
      BY <2>3, Zenon DEF SearchBuiltin
    <3>3. \E args, a : Answers("search_records", args, Left(tree, a))
      BY <3>2, Zenon DEF Builtin
    <3>. QED  BY <3>1, <3>3
  <2>. QED  BY <2>1, <2>2, <2>3
<1>. QED  BY <1>1, <1>2, BuiltinLooks

\* One that writes, with what it is called with.
LEMMA BuiltinWrites ==
    ASSUME WorkspaceIsSound, NEW op \in {"write_text", "save"}, NEW path, NEW more, NEW left, NEW kept,
           Answers(op, [path |-> path, more |-> more], left),
           Writes(tree, left, path, more[1], more[2], kept),
           kept = IF op = "save" THEN ~more[2] /\ ~more[3] ELSE FALSE
    PROVE  Tells
<1>1. /\ answer'.op = op /\ answer'.args.more = more /\ answer'.args.path = path /\ tree' = left.tree
      /\ answer'.result = left.answer /\ cwd' = cwd
  BY DEF Answers
<1>2. TreeIsSound(tree')
  BY <1>1 DEF Writes
<1>3. Writing(tree, tree', answer'.result, path, more[1], more[2], kept)
  BY <1>1 DEF Writes
<1>4. WorkspaceIsSound'
  BY <1>1, <1>2 DEF WorkspaceIsSound
<1>5. CASE op = "save"
  BY <1>1, <1>3, <1>4, <1>5 DEF Tells, Told
<1>6. CASE op = "write_text"
  BY <1>1, <1>3, <1>4, <1>6 DEF Tells, Told
<1>. QED  BY <1>5, <1>6

LEMMA RefusedWrites ==
    ASSUME WorkspaceIsSound, NEW path, NEW text, NEW append, NEW kept
    PROVE  Writes(tree, Left(tree, Failure), path, text, append, kept)
<1>1. Left(tree, Failure).tree = tree /\ ~Left(tree, Failure).answer.ok
  BY DEF Left, Failure
<1>. QED  BY <1>1 DEF Writes, Writing, Same, WorkspaceIsSound

LEMMA WriteTextTells ==
    ASSUME WorkspaceIsSound, WriteText
    PROVE  Tells
<1>1. PICK script \in ScriptPaths, text \in Texts, append \in BOOLEAN, room \in Rooms,
             lost \in {FALSE, attached} :
        Builtin("write_text", script, <<text, append>>,
                LAMBDA t, p : write_text(t, p, text, append, room, lost))
  BY Zenon DEF WriteText
<1> DEFINE path == resolve_script_path(script)
           more == <<text, append>>
           left == IF workspace_path(path) THEN write_text(tree, path, text, append, room, lost)
                   ELSE Left(tree, Failure)
<1>2. Answers("write_text", [path |-> path, more |-> more], left)
  BY <1>1, Zenon DEF Builtin
<1>3. path \in Seq(Name) /\ text \in Content /\ TreeIsSound(tree) /\ room \in Nat
  BY ScriptPath, CallsAssumption DEF WorkspaceIsSound, Content
<1>4. more[1] = text /\ more[2] = append
  OBVIOUS
<1> HIDE DEF path, more
<1>5. Writes(tree, left, path, text, append, FALSE)
  <2>1. CASE workspace_path(path)
    BY <1>3, <2>1, WriteTextWrites
  <2>2. CASE ~workspace_path(path)
    BY <2>2, RefusedWrites
  <2>. QED  BY <2>1, <2>2
<1> HIDE DEF left
<1>. QED  BY <1>2, <1>4, <1>5, BuiltinWrites

LEMMA SaveTells ==
    ASSUME WorkspaceIsSound, Save
    PROVE  Tells
<1>1. PICK script \in ScriptPaths, text \in Texts, append \in BOOLEAN, force \in BOOLEAN,
             room \in Rooms, lost \in {FALSE, attached} :
        Builtin("save", script, <<text, append, force>>,
                LAMBDA t, p : save_value_file(t, p, text, append, force, room, lost))
  BY Zenon DEF Save
<1> DEFINE path == resolve_script_path(script)
           more == <<text, append, force>>
           left == IF workspace_path(path) THEN save_value_file(tree, path, text, append, force, room, lost)
                   ELSE Left(tree, Failure)
           kept == ~append /\ ~force
<1>2. Answers("save", [path |-> path, more |-> more], left)
  BY <1>1, Zenon DEF Builtin
<1>3. path \in Seq(Name) /\ text \in Content /\ TreeIsSound(tree) /\ room \in Nat
  BY ScriptPath, CallsAssumption DEF WorkspaceIsSound, Content
<1>4. more[1] = text /\ more[2] = append /\ more[3] = force
  OBVIOUS
<1> HIDE DEF path, more
<1>5. Writes(tree, left, path, text, append, kept)
  <2>1. CASE workspace_path(path)
    BY <1>3, <2>1, SaveWrites
  <2>2. CASE ~workspace_path(path)
    <3> HIDE DEF kept
    <3>. QED  BY <2>2, RefusedWrites
  <2>. QED  BY <2>1, <2>2
<1>6. kept = IF "save" = "save" THEN ~more[2] /\ ~more[3] ELSE FALSE
  BY <1>4
<1> HIDE DEF left, kept
<1>. QED  BY <1>2, <1>4, <1>5, <1>6, BuiltinWrites

LEMMA EditTextTells ==
    ASSUME WorkspaceIsSound, EditText
    PROVE  Tells
<1>1. PICK script \in ScriptPaths, old \in Texts, new \in Texts, all \in BOOLEAN,
             room \in Rooms, lost \in {FALSE, attached} :
        Builtin("edit_text", script, <<old, new, all>>,
                LAMBDA t, p : edit_text_file(t, p, old, new, all, room, lost))
  BY Zenon DEF EditText
<1> DEFINE path == resolve_script_path(script)
           more == <<old, new, all>>
           left == IF workspace_path(path) THEN edit_text_file(tree, path, old, new, all, room, lost)
                   ELSE Left(tree, Failure)
           result == answer'.result
<1>2. Answers("edit_text", [path |-> path, more |-> more], left)
  BY <1>1, Zenon DEF Builtin
<1>3. path \in Seq(Name) /\ old \in Content /\ new \in Content /\ TreeIsSound(tree)
      /\ room \in Nat
  BY ScriptPath, CallsAssumption DEF WorkspaceIsSound, Content
<1>4. more[1] = old /\ more[2] = new /\ more[3] = all
  OBVIOUS
<1> HIDE DEF path, more
<1>5. EditsTold(tree, left, path, old, new, all)
  <2>1. CASE workspace_path(path)
    BY <1>3, <2>1, EditTextEdits
  <2>2. CASE ~workspace_path(path)
    <3>1. left = Left(tree, Failure) /\ Left(tree, Failure).tree = tree
          /\ ~Left(tree, Failure).answer.ok
      BY <2>2 DEF Left, Failure
    <3> HIDE DEF left
    <3>. QED  BY <1>3, <3>1 DEF EditsTold, Editing, Same
  <2>. QED  BY <2>1, <2>2
<1> HIDE DEF left
<1>6. /\ answer'.op = "edit_text" /\ answer'.args.more = more /\ answer'.args.path = path
      /\ tree' = left.tree
      /\ result = left.answer /\ cwd' = cwd
  BY <1>2 DEF Answers
<1>7. WorkspaceIsSound'
  BY <1>5, <1>6 DEF EditsTold, WorkspaceIsSound
<1>8. Editing(tree, tree', result, path, old, new, all)
  BY <1>5, <1>6 DEF EditsTold
<1>. QED  BY <1>4, <1>6, <1>7, <1>8 DEF Tells, Told

\* mkdir and rm, path by path.
LEMMA ConfirmedTree ==
    ASSUME NEW left, NEW lost
    PROVE  Confirmed(left, lost).tree = left.tree
  BY DEF Confirmed, Reply, Left

LEMMA CreateDirKeeps ==
    ASSUME NEW t, TreeIsSound(t), NEW path \in Seq(Name), NEW lost
    PROVE  /\ TreeIsSound(create_dir_all(t, path, lost).tree)
           /\ Same(t, create_dir_all(t, path, lost).tree)
<1> DEFINE left == create_dir_all(t, path, lost)
           made == IF Blocked(t, path) THEN Left(t, Refused("io_error"))
                   ELSE Left(MakeDirs(t, path), [ok |-> TRUE])
<1>1. made.tree = IF Blocked(t, path) THEN t ELSE MakeDirs(t, path)
  BY DEF Left
<1>2. left.tree = IF Blocked(t, path) THEN t ELSE MakeDirs(t, path)
  <2>1. left = Confirmed(made, lost)
    BY DEF create_dir_all
  <2> HIDE DEF left, made
  <2>. QED  BY <1>1, <2>1, ConfirmedTree
<1> HIDE DEF left
<1>3. CASE Blocked(t, path)
  BY <1>2, <1>3 DEF Same, left
<1>4. CASE ~Blocked(t, path)
  <2>1. TreeIsSound(MakeDirs(t, path)) /\ Same(t, MakeDirs(t, path))
    BY <1>4, MakeDirsSound, MakeDirsKeeps
  <2>. QED  BY <1>2, <1>4, <2>1 DEF left
<1>. QED  BY <1>3, <1>4

GoneFrom(t, u, path) ==
    \A p : Bytes(u, p) = Bytes(t, p) \/ (Bytes(u, p) = <<>> /\ IsPrefix(path, p))
LEMMA RemoveKeeps ==
    ASSUME NEW t, TreeIsSound(t), NEW path \in Seq(Name), NEW force, NEW lost
    PROVE  /\ TreeIsSound(remove_path(force, t, path, lost).tree)
           /\ GoneFrom(t, remove_path(force, t, path, lost).tree, path)
<1> DEFINE left == remove_path(force, t, path, lost)
           pruned == Left(Prune(t, path), [ok |-> TRUE])
<1>1. \A v, a : Left(v, a).tree = v
  BY DEF Left
<1>2. left.tree \in {t, Prune(t, path)}
  <2>1. left = Confirmed(pruned, lost) \/ \E a : left = Left(t, a)
    BY Zenon DEF remove_path
  <2>2. Confirmed(pruned, lost).tree = Prune(t, path)
    BY <1>1, ConfirmedTree
  <2> HIDE DEF left, pruned
  <2>. QED  BY <1>1, <2>1, <2>2
<1> HIDE DEF left
<1>3. TreeIsSound(Prune(t, path)) /\ GoneFrom(t, Prune(t, path), path) /\ GoneFrom(t, t, path)
  BY PruneKeeps DEF GoneFrom
<1>. QED  BY <1>2, <1>3 DEF left

LEMMA MkdirTells ==
    ASSUME WorkspaceIsSound, Mkdir
    PROVE  Tells
<1>1. PICK scripts \in ScriptPaths \X ScriptPaths, lost \in LostOf(2) :
        OnPaths("mkdir", scripts, lost, create_dir_all)
  BY DEF Mkdir
<1> DEFINE paths == [i \in 1..2 |-> resolve_script_path(scripts[i])]
           One(t, path, missed) ==
             IF workspace_path(path) THEN create_dir_all(t, path, missed) ELSE Left(t, Failure)
           first == One(tree, paths[1], lost = 1)
           left == IF first.answer.ok THEN One(first.tree, paths[2], lost = 2) ELSE first
<1>2. Answers("mkdir", [paths |-> paths], left)
  BY <1>1, Zenon DEF OnPaths
<1>3. \A i \in 1..2 : paths[i] \in Seq(Name)
  BY ScriptPath
<1>4. ASSUME NEW t, TreeIsSound(t), NEW path \in Seq(Name), NEW missed
      PROVE  TreeIsSound(One(t, path, missed).tree) /\ Same(t, One(t, path, missed).tree)
  <2>1. Left(t, Failure).tree = t /\ Same(t, t)
    BY DEF Left, Same
  <2>. QED  BY <1>4, <2>1, CreateDirKeeps
<1>5. paths[1] \in Seq(Name) /\ paths[2] \in Seq(Name)
  BY <1>3
<1> HIDE DEF One, paths
<1>6. TreeIsSound(first.tree) /\ Same(tree, first.tree)
  BY <1>4, <1>5 DEF WorkspaceIsSound
<1> HIDE DEF first
<1>7. TreeIsSound(left.tree) /\ Same(tree, left.tree)
  <2>1. TreeIsSound(One(first.tree, paths[2], lost = 2).tree) /\ Same(first.tree, One(first.tree, paths[2], lost = 2).tree)
    BY <1>4, <1>5, <1>6
  <2>. QED  BY <1>6, <2>1 DEF Same
<1> HIDE DEF left
<1>8. answer'.op = "mkdir" /\ tree' = left.tree /\ cwd' = cwd
  BY <1>2 DEF Answers
<1>. QED  BY <1>7, <1>8 DEF Tells, Told, Looking, WorkspaceIsSound

LEMMA RmTells ==
    ASSUME WorkspaceIsSound, Rm
    PROVE  Tells
<1>1. PICK scripts \in ScriptPaths \X ScriptPaths, force \in BOOLEAN, lost \in LostOf(2) :
        OnPaths("rm", scripts, lost, LAMBDA t, p, missed : remove_path(force, t, p, missed))
  BY DEF Rm
<1> DEFINE paths == [i \in 1..2 |-> resolve_script_path(scripts[i])]
           One(t, path, missed) ==
             IF workspace_path(path) THEN remove_path(force, t, path, missed) ELSE Left(t, Failure)
           first == One(tree, paths[1], lost = 1)
           left == IF first.answer.ok THEN One(first.tree, paths[2], lost = 2) ELSE first
<1>2. Answers("rm", [paths |-> paths], left)
  BY <1>1, Zenon DEF OnPaths
<1>3. \A i \in 1..2 : paths[i] \in Seq(Name)
  BY ScriptPath
<1>4. ASSUME NEW t, TreeIsSound(t), NEW path \in Seq(Name), NEW missed
      PROVE  TreeIsSound(One(t, path, missed).tree) /\ GoneFrom(t, One(t, path, missed).tree, path)
  <2>1. Left(t, Failure).tree = t /\ GoneFrom(t, t, path)
    BY DEF Left, GoneFrom
  <2>. QED  BY <1>4, <2>1, RemoveKeeps
<1>5. paths[1] \in Seq(Name) /\ paths[2] \in Seq(Name)
  BY <1>3
<1> HIDE DEF One, paths
<1>6. TreeIsSound(first.tree) /\ GoneFrom(tree, first.tree, paths[1])
  BY <1>4, <1>5 DEF WorkspaceIsSound
<1> HIDE DEF first
<1>7. TreeIsSound(left.tree) /\ Removed(tree, left.tree, paths)
  <2>1. /\ TreeIsSound(One(first.tree, paths[2], lost = 2).tree)
        /\ GoneFrom(first.tree, One(first.tree, paths[2], lost = 2).tree, paths[2])
    BY <1>4, <1>5, <1>6
  <2>2. 1 \in 1..2 /\ 2 \in 1..2
    OBVIOUS
  <2>. QED  BY <1>6, <2>1, <2>2 DEF GoneFrom, Removed
<1> HIDE DEF left
<1>8. answer'.op = "rm" /\ answer'.args.paths = paths /\ tree' = left.tree /\ cwd' = cwd
  BY <1>2 DEF Answers
<1>. QED  BY <1>7, <1>8 DEF Tells, Told, WorkspaceIsSound

LEMMA CdTells ==
    ASSUME WorkspaceIsSound, Cd
    PROVE  Tells
<1>1. PICK script \in ScriptPaths : cwd' \in {cwd, resolve_script_path(script)}
  BY DEF Cd
<1>2. answer'.op = "cd" /\ tree' = tree
  BY DEF Cd
<1>3. cwd' \in Seq(Name)
  BY <1>1, ScriptPath DEF WorkspaceIsSound
<1>. QED  BY <1>2, <1>3 DEF Tells, Told, Looking, Same, WorkspaceIsSound

\* The workspace of a guest that has only its mounted directories is of that
\* shape (Roots).
LEMMA FreshWorkspaceIsSound ==
    ASSUME Roots \subseteq Name, tree = [p \in {<<n>> : n \in Roots} |-> Dir], cwd = <<"work">>
    PROVE  WorkspaceIsSound
<1>1. ASSUME NEW p \in DOMAIN tree
      PROVE  /\ p \in Seq(Name) /\ p # <<>>
             /\ tree[p].kind \in {"dir", "file"} /\ tree[p].bytes \in Content
             /\ DirsAbove(tree, p)
  <2>1. PICK n \in Roots : p = <<n>>
    BY <1>1
  <2>2. p \in Seq(Name) /\ Len(p) = 1 /\ p # <<>>
    BY <2>1
  <2>3. tree[p].kind = "dir" /\ tree[p].bytes = <<>>
    BY <1>1 DEF Dir
  <2>4. DirsAbove(tree, p)
    BY <2>2 DEF DirsAbove
  <2>5. <<>> \in Content
    BY DEF Content
  <2>. QED  BY <2>2, <2>3, <2>4, <2>5
<1>2. TreeIsSound(tree)
  BY <1>1 DEF TreeIsSound
<1>3. "work" \in Name
  BY DEF Roots
<1>4. cwd \in Seq(Name)
  BY <1>3
<1>. QED  BY <1>2, <1>4 DEF WorkspaceIsSound

\* Every call tells what it did, and leaves a workspace as it must be.
LEMMA StepTells == ASSUME WorkspaceIsSound, FilesNext PROVE Tells
<1>1. CASE ReadTool
  <2>1. PICK raw \in RawPaths, offset \in Counts, max \in Counts :
          Tool("read", raw, max, offset, "", 0, FALSE, Left(tree, read_tool(tree, raw, offset, max)))
    BY <1>1, Zenon DEF ReadTool
  <2>. QED  BY <2>1, LookingTells, Zenon DEF Tools
<1>2. CASE WriteTool
  <2>1. PICK raw \in RawPaths, content \in Texts, mode \in {"create", "replace", "append"},
             parents \in BOOLEAN, room \in Rooms, lost \in {FALSE, attached} :
          Tool("write", raw, 0, content, mode, room, lost,
               write_tool(tree, raw, content, mode, parents, room))
    BY <1>2, Zenon DEF WriteTool
  <2>2. room \in Nat
    BY CallsAssumption
  <2>. QED  BY <2>1, <2>2, WriteTells, Zenon
<1>3. CASE EditTool
  <2>1. PICK raw \in RawPaths, old \in Texts, new \in Texts, all \in BOOLEAN,
             room \in Rooms :
          Tool("edit", raw, 0, <<old, new>>, all, room, FALSE,
               edit_tool(tree, raw, old, new, all, room))
    BY <1>3, Zenon DEF EditTool
  <2>2. room \in Nat
    BY CallsAssumption
  <2>. QED  BY <2>1, <2>2, EditTells, Zenon
<1>4. CASE ListTool
  <2>1. PICK raw \in RawPaths, max \in Counts :
          Tool("list", raw, max, "", "", 0, FALSE, Left(tree, list_tool(tree, raw, max)))
    BY <1>4, Zenon DEF ListTool
  <2>. QED  BY <2>1, LookingTells, Zenon DEF Tools
<1>5. CASE FindTool
  <2>1. PICK raw \in RawPaths, max \in Counts, contains \in Filters, glob \in Filters :
          Tool("find", raw, max, <<contains, glob>>, "", 0, FALSE,
               Left(tree, find_tool(tree, raw, contains, glob, max)))
    BY <1>5, Zenon DEF FindTool
  <2>. QED  BY <2>1, LookingTells, Zenon DEF Tools
<1>6. CASE SearchTool
  <2>1. PICK raw \in RawPaths, max \in Counts, matcher \in Matchers :
          Tool("search", raw, max, matcher, "", 0, FALSE,
               Left(tree, search_tool(tree, raw, matcher, max)))
    BY <1>6, Zenon DEF SearchTool
  <2>. QED  BY <2>1, LookingTells, Zenon DEF Tools
<1>7. CASE ReadText \/ FindBuiltin \/ SearchBuiltin
  BY <1>7, ReadTextTells
<1>8. CASE WriteText
  BY <1>8, WriteTextTells
<1>9. CASE Save
  BY <1>9, SaveTells
<1>10. CASE EditText
  BY <1>10, EditTextTells
<1>11. CASE Mkdir
  BY <1>11, MkdirTells
<1>12. CASE Rm
  BY <1>12, RmTells
<1>13. CASE Cd
  BY <1>13, CdTells
<1>. QED
  BY <1>1, <1>2, <1>3, <1>4, <1>5, <1>6, <1>7, <1>8, <1>9, <1>10, <1>11, <1>12, <1>13
  DEF FilesNext

\* What changed, file by file.
LEMMA ChangedAre ==
    /\ Same(tree, tree') => ChangedFiles = {}
    /\ \A path : SameBut(tree, tree', path) => ChangedFiles \subseteq {path}
    /\ \A paths : Removed(tree, tree', paths) =>
         \A p \in ChangedFiles : Bytes(tree', p) = <<>> /\ \E i \in 1..2 : IsPrefix(paths[i], p)
  BY DEF ChangedFiles, Same, SameBut, Removed

LEMMA WritingIsTold ==
    ASSUME NEW result, NEW path, NEW text, NEW appended, NEW fresh,
           Writing(tree, tree', result, path, text, appended, fresh)
    PROVE  WriteIsTold(result, path, text, appended, fresh)
<1> DEFINE kept == IF appended /\ Bytes(tree, path) # <<>> THEN Bytes(tree, path)[1] ELSE <<>>
<1>0. KeptOf(tree, path, appended) = kept
  BY DEF KeptOf
<1> HIDE DEF kept
<1>1. CASE ~result.ok /\ Same(tree, tree')
  <2>1. ChangedFiles = {}
    BY <1>1, ChangedAre
  <2>. QED  BY <1>1, <2>1 DEF WriteIsTold
<1>2. CASE /\ result.ok \/ result \in Unsure
           /\ result.ok => Wrote(tree, tree', path, text, appended, fresh)
           /\ WroteSome(tree, tree', path, text, appended, fresh)
  <2>1. PICK n \in 0..Len(text) : Wrote(tree, tree', path, Taken(text, n), appended, fresh)
    BY <1>2 DEF WroteSome
  <2>2. ChangedFiles \subseteq {path}
    BY <2>1, ChangedAre DEF Wrote
  <2>3. \A some : Wrote(tree, tree', path, some, appended, fresh) =>
          /\ Bytes(tree', path) = <<kept \o some>>
          /\ fresh => Bytes(tree, path) = <<>>
    BY <1>0, BytesAre DEF Wrote
  <2>4. result.ok => Bytes(tree', path) = <<kept \o text>>
    BY <1>2, <2>3
  <2>5. \E k \in 0..Len(text) : Bytes(tree', path) = <<kept \o Taken(text, k)>>
    BY <2>1, <2>3
  <2>6. fresh => Bytes(tree, path) = <<>>
    BY <2>1, <2>3
  <2>. QED  BY <1>2, <2>2, <2>4, <2>5, <2>6, Zenon DEF WriteIsTold, kept
<1>. QED  BY <1>1, <1>2 DEF Writing

LEMMA EditingIsTold ==
    ASSUME NEW result, NEW path, NEW old, NEW new, NEW all,
           Editing(tree, tree', result, path, old, new, all)
    PROVE  EditIsTold(result, path, old, new, all)
<1> DEFINE before == tree[path].bytes
           after == tree'[path].bytes
           first == NextMatch(before, old, 1)
           meant == replace(before, old, new, IF all THEN matches(before, old) ELSE 1)
           Part == /\ result \in Unsure
                   /\ IsUtf8(before) => \E n \in 0..Len(meant) : after = Taken(meant, n)
           Complete == /\ first > 0
                       /\ Len(after) = Len(before) + result.count * (Len(new) - Len(old))
                       /\ Taken(after, first - 1 + Len(new)) = Taken(before, first - 1) \o new
                       /\ ~all => Without(after, first - 1 + Len(new))
                                    = Without(before, first - 1 + Len(old))
<1>1. ChangedFiles \subseteq {path}
  BY ChangedAre DEF Editing, Edited, EditedSome
<1>2. ~result.ok /\ ChangedFiles # {} => Part
  <2> SUFFICES ASSUME ~result.ok, ChangedFiles # {} PROVE Part
    OBVIOUS
  <2>1. ~Same(tree, tree')
    BY ChangedAre
  <2>2. result \in Unsure /\ EditedSome(tree, tree', path, old, new, all)
    BY <2>1 DEF Editing
  <2>3. meant = Meant(before, old, new, all)
    BY DEF Meant
  <2> HIDE DEF meant
  <2>. QED  BY <2>2, <2>3 DEF EditedSome
<1>3. result.ok /\ IsUtf8(before) => Complete
  <2> SUFFICES ASSUME result.ok, IsUtf8(before) PROVE Complete
    OBVIOUS
  <2>1. Edited(tree, tree', path, old, new, all, result.count)
    BY DEF Editing
  <2>. QED  BY <2>1 DEF Edited, Edits
<1> HIDE DEF Part, Complete
<1>. QED  BY <1>1, <1>2, <1>3, Zenon DEF EditIsTold, Part, Complete

\* One call, whose target the property finds by the name of the call.
LEMMA ToldIsTold ==
    ASSUME Told(answer'.op, answer'.args, answer'.result)
    PROVE  ChangeIsTold
<1> DEFINE op == answer'.op
           args == answer'.args
           result == answer'.result
           path == PathOf(op, args)
<1>1. CASE op \in Looking /\ Same(tree, tree')
  <2>1. ChangedFiles = {}
    BY <1>1, ChangedAre
  <2>. QED  BY <1>1, <2>1 DEF ChangeIsTold, Looking, Tools
<1>2. CASE op = "rm" /\ Removed(tree, tree', args.paths)
  <2>1. \A p \in ChangedFiles : Bytes(tree', p) = <<>> /\ \E i \in 1..2 : IsPrefix(args.paths[i], p)
    BY <1>2, ChangedAre
  <2>. QED  BY <1>2, <2>1 DEF ChangeIsTold, Tools
<1>3. op \in {"write_text", "save", "edit_text"} => path = args.path
  BY DEF PathOf, Tools
<1>4. CASE op = "write" /\ Writing(tree, tree', result, path, args.content, args.mode = "append",
                                  args.mode = "create" /\ ~attached)
  BY <1>4, WritingIsTold DEF ChangeIsTold, Tools
<1>5. CASE op = "write_text"
           /\ Writing(tree, tree', result, args.path, args.more[1], args.more[2], FALSE)
  BY <1>3, <1>5, WritingIsTold DEF ChangeIsTold, Tools
<1>6. CASE op = "save"
           /\ Writing(tree, tree', result, args.path, args.more[1], args.more[2],
                      ~args.more[2] /\ ~args.more[3])
  BY <1>3, <1>6, WritingIsTold DEF ChangeIsTold, Tools
<1>7. CASE op = "edit"
           /\ Editing(tree, tree', result, path, args.content[1], args.content[2], args.mode)
  BY <1>7, EditingIsTold DEF ChangeIsTold, Tools
<1>8. CASE op = "edit_text"
           /\ Editing(tree, tree', result, args.path, args.more[1], args.more[2], args.more[3])
  BY <1>3, <1>8, EditingIsTold DEF ChangeIsTold, Tools
<1>. QED  BY <1>1, <1>2, <1>4, <1>5, <1>6, <1>7, <1>8 DEF Told

LEMMA SoundStutters == ASSUME WorkspaceIsSound, UNCHANGED filesVars PROVE WorkspaceIsSound'
  BY DEF WorkspaceIsSound, filesVars

\* A workspace keeps its shape: every entry has a name, is a file or a
\* directory, and has directories all the way above it.
THEOREM WorkspacesStaySound == WorkspaceIsSound /\ [][FilesNext]_filesVars => []WorkspaceIsSound
<1>1. WorkspaceIsSound /\ [FilesNext]_filesVars => WorkspaceIsSound'
  BY StepTells, SoundStutters DEF Tells
<1>. QED  BY <1>1, PTL

\* From a workspace of that shape on, a success did to the file it names what it
\* says and nothing to any other, an error leaves every file as it was unless it
\* is one of a write that failed half-way or of a reply that was lost, which
\* leaves a first part of what was meant in that file alone, and nothing is
\* written over unless the call says so (write_tool, edit_tool, write_text,
\* save_value_file, edit_text_file, remove_path, gateway_workspace_request).
THEOREM ChangesAreAsTold == WorkspaceIsSound /\ [][FilesNext]_filesVars => ChangesAreTold
<1>1. WorkspaceIsSound /\ [FilesNext]_filesVars => [ChangeIsTold]_filesVars
  BY StepTells, ToldIsTold DEF Tells
<1>. QED  BY <1>1, WorkspacesStaySound, PTL DEF ChangesAreTold

-----------------------------------------------------------------------------
(***************************************************************************)
(* A loop over JSONL rows that a kernel takes over.                        *)
(***************************************************************************)
(* What is done one after the other, up to the first that fails: the       *)
(* files of a loop, the rows of a file, the statements of a body, and tags.*)
Do(w, s, item) ==
    CASE w.of = "files" -> RowsBaseline(w.l, s.env, item, Len(item))
      [] w.of = "rows" -> IF w.l.text /\ item = BlankLine THEN s ELSE RunBody(w.l, s.env, item)
      [] w.of = "body" -> Perform(w.l, w.row, s, item)
      [] w.of = "counts" -> CountTag(s, w.l, item)
      [] w.of = "tags" -> AddTag(s.value, item)
Doing(w, s, item) == IF s.ok THEN Do(w, s, item) ELSE s
Done(f, w, start, items, n) ==
    f = [k \in 0..n |-> IF k = 0 THEN start ELSE Doing(w, f[k - 1], items[k])]

LEMMA DoneIs ==
    ASSUME NEW f, NEW w, NEW start, NEW items, NEW n \in Nat, Done(f, w, start, items, n)
    PROVE  f[0] = start /\ \A k \in 0..(n - 1) : f[k + 1] = Doing(w, f[k], items[k + 1])
<1>1. \A k \in 0..n : f[k] = IF k = 0 THEN start ELSE Doing(w, f[k - 1], items[k])
  BY Zenon DEF Done
<1>2. 0 \in 0..n /\ \A k \in 0..(n - 1) : k + 1 \in 0..n /\ k + 1 # 0 /\ (k + 1) - 1 = k
  OBVIOUS
<1>. QED  BY <1>1, <1>2

\* It exists, however many there are.
LEMMA DoneExists ==
    ASSUME NEW w, NEW start, NEW items, NEW n \in Nat
    PROVE  \E f : Done(f, w, start, items, n)
<1> DEFINE S == {m \in Nat : \E f : Done(f, w, start, items, m)}
<1>1. 0 \in S
  <2> DEFINE f == [k \in 0..0 |-> start]
  <2>1. \A k \in 0..0 : start = IF k = 0 THEN start ELSE Doing(w, f[k - 1], items[k])
    <3>1. \A k \in 0..0 : k = 0
      OBVIOUS
    <3>. QED  BY <3>1, Zenon
  <2>2. f = [k \in 0..0 |-> IF k = 0 THEN start ELSE Doing(w, f[k - 1], items[k])]
    BY <2>1, Zenon
  <2>3. Done(f, w, start, items, 0)
    BY <2>2, Zenon DEF Done
  <2>. QED  BY <2>3, Zenon
<1>2. ASSUME NEW m \in 0..(n - 1), m \in S PROVE m + 1 \in S
  <2>1. PICK f : Done(f, w, start, items, m)
    BY <1>2
  <2> DEFINE g == [k \in 0..(m + 1) |-> IF k = m + 1 THEN Doing(w, f[m], items[m + 1]) ELSE f[k]]
             h(k) == IF k = 0 THEN start ELSE Doing(w, g[k - 1], items[k])
  <2>2. m \in Nat /\ m + 1 \in Nat
    OBVIOUS
  <2>3. f[0] = start /\ \A k \in 0..(m - 1) : f[k + 1] = Doing(w, f[k], items[k + 1])
    BY <2>1, <2>2, DoneIs
  <2>4. \A k \in 0..m : g[k] = f[k]
    BY <2>2
  <2>5. g[m + 1] = Doing(w, f[m], items[m + 1])
    BY <2>2
  <2>6. ASSUME NEW k \in 0..(m + 1) PROVE g[k] = h(k)
    <3> HIDE DEF g
    <3>1. CASE k = m + 1
      <4>1. k # 0 /\ k - 1 = m /\ g[m] = f[m]
        BY <2>2, <2>4, <3>1
      <4>. QED  BY <2>5, <3>1, <4>1
    <3>2. CASE k = 0
      BY <2>2, <2>3, <2>4, <3>2
    <3>3. CASE k # m + 1 /\ k # 0
      <4>1. k - 1 \in 0..(m - 1) /\ (k - 1) + 1 = k /\ g[k] = f[k] /\ g[k - 1] = f[k - 1]
        BY <2>2, <2>4, <3>3
      <4>2. f[(k - 1) + 1] = Doing(w, f[k - 1], items[(k - 1) + 1])
        BY <2>3, <4>1
      <4>. QED  BY <3>3, <4>1, <4>2
    <3>. QED  BY <3>1, <3>2, <3>3
  <2>7. g = [k \in 0..(m + 1) |-> g[k]]
    OBVIOUS
  <2>8. g = [k \in 0..(m + 1) |-> h(k)]
    <3> HIDE DEF g, h
    <3>. QED  BY <2>6, <2>7, Zenon
  <2>9. Done(g, w, start, items, m + 1)
    <3> HIDE DEF g
    <3>. QED  BY <2>8, Zenon DEF Done
  <2>. QED  BY <2>2, <2>9
<1>3. n \in S
  <2> HIDE DEF S
  <2>1. n \in 0..n
    OBVIOUS
  <2>. QED  BY <1>1, <1>2, <2>1, UpTo
<1>. QED  BY <1>3

\* Two of them agree on what both have.
LEMMA DoneAgree ==
    ASSUME NEW w, NEW start, NEW items, NEW m \in Nat, NEW n \in Nat, m <= n,
           NEW f, Done(f, w, start, items, m), NEW g, Done(g, w, start, items, n)
    PROVE  f[m] = g[m]
<1> DEFINE S == {k \in Nat : f[k] = g[k]}
<1>1. f[0] = start /\ \A k \in 0..(m - 1) : f[k + 1] = Doing(w, f[k], items[k + 1])
  BY DoneIs
<1>2. g[0] = start /\ \A k \in 0..(n - 1) : g[k + 1] = Doing(w, g[k], items[k + 1])
  BY DoneIs
<1>3. 0 \in S
  BY <1>1, <1>2
<1>4. ASSUME NEW k \in 0..(m - 1), k \in S PROVE k + 1 \in S
  <2>1. k \in 0..(n - 1) /\ k + 1 \in Nat /\ f[k] = g[k]
    BY <1>4
  <2>. QED  BY <1>1, <1>2, <2>1
<1> HIDE DEF S
<1>5. m \in 0..m
  OBVIOUS
<1>6. m \in S
  BY <1>3, <1>4, <1>5, UpTo
<1>. QED  BY <1>6 DEF S

\* What ends well went well all the way.
LEMMA DoneWell ==
    ASSUME NEW w, NEW start, NEW items, NEW n \in Nat, NEW f, Done(f, w, start, items, n),
           f[n].ok, NEW m \in 0..n
    PROVE  f[m].ok
<1>1. \A k \in 0..(n - 1) : f[k + 1] = Doing(w, f[k], items[k + 1])
  BY DoneIs
<1> SUFFICES ASSUME ~f[m].ok PROVE FALSE
  OBVIOUS
<1> DEFINE S == {k \in Nat : ~f[m + k].ok}
<1>2. 0 \in S
  BY m + 0 = m
<1>3. ASSUME NEW k \in 0..((n - m) - 1), k \in S PROVE k + 1 \in S
  <2>1. m + k \in 0..(n - 1) /\ m + (k + 1) = (m + k) + 1 /\ k + 1 \in Nat /\ ~f[m + k].ok
    BY <1>3
  <2>2. f[(m + k) + 1] = f[m + k]
    BY <1>1, <2>1 DEF Doing
  <2>. QED  BY <2>1, <2>2
<1> HIDE DEF S
<1>4. n - m \in Nat /\ n - m \in 0..(n - m) /\ m + (n - m) = n
  OBVIOUS
<1>5. n - m \in S
  BY <1>2, <1>3, <1>4, UpTo
<1>. QED  BY <1>4, <1>5 DEF S

\* Each definition that goes through items is one of these.
OfFiles(l) == [of |-> "files", l |-> l]
OfRows(l) == [of |-> "rows", l |-> l]
OfBody(l, line) == [of |-> "body", l |-> l, row |-> line]
OfCounts(l) == [of |-> "counts", l |-> l]
OfTags == [of |-> "tags"]

LEMMA FilesAreDone ==
    ASSUME NEW l, NEW e, NEW n \in Nat
    PROVE  \E f : Done(f, OfFiles(l), Started(e), l.files, n) /\ FilesBaseline(l, e, n) = f[n]
<1> DEFINE w == OfFiles(l)
           One(s, item) == RowsBaseline(l, s.env, item, Len(item))
           Mine(f) == [k \in 0..n |-> IF k = 0 THEN Started(e)
                                       ELSE IF f[k - 1].ok THEN One(f[k - 1], l.files[k]) ELSE f[k - 1]]
           Theirs(f) == [k \in 0..n |-> IF k = 0 THEN Started(e) ELSE Doing(w, f[k - 1], l.files[k])]
           Goes(f) == f = Mine(f)
<1>1. ASSUME NEW f PROVE Mine(f) = Theirs(f)
  <2> DEFINE A(k) == IF k = 0 THEN Started(e) ELSE IF f[k - 1].ok THEN One(f[k - 1], l.files[k]) ELSE f[k - 1]
             B(k) == IF k = 0 THEN Started(e) ELSE Doing(w, f[k - 1], l.files[k])
  <2>1. \A s, item : Do(w, s, item) = One(s, item)
    BY DEF Do, OfFiles
  <2>2. \A s, item : Doing(w, s, item) = IF s.ok THEN One(s, item) ELSE s
    <3> HIDE DEF w, One
    <3>. QED  BY <2>1 DEF Doing
  <2>3. \A k : A(k) = B(k)
    <3> HIDE DEF w, One
    <3>. QED  BY <2>2, Zenon
  <2>4. [k \in 0..n |-> A(k)] = [k \in 0..n |-> B(k)]
    <3> HIDE DEF A, B
    <3>. QED  BY <2>3, Zenon
  <2>. QED  BY <2>4, Zenon
<1>2. \A f : Goes(f) <=> Done(f, w, Started(e), l.files, n)
  <2> HIDE DEF Mine, w
  <2>. QED  BY <1>1, Zenon DEF Done
<1>3. FilesBaseline(l, e, n) = (CHOOSE f : Goes(f))[n]
  BY Zenon DEF FilesBaseline, WhileOk
<1> HIDE DEF Goes
<1>4. \E f : Goes(f)
  BY <1>2, DoneExists, Zenon
<1>5. Goes(CHOOSE f : Goes(f))
  BY <1>4, Zenon
<1>. QED  BY <1>2, <1>3, <1>5, Zenon

LEMMA RowsAreDone ==
    ASSUME NEW l, NEW e, NEW rows, NEW n \in Nat
    PROVE  \E f : Done(f, OfRows(l), Started(e), rows, n) /\ RowsBaseline(l, e, rows, n) = f[n]
<1> DEFINE w == OfRows(l)
           One(s, item) == IF l.text /\ item = BlankLine THEN s ELSE RunBody(l, s.env, item)
           Mine(f) == [k \in 0..n |-> IF k = 0 THEN Started(e)
                                       ELSE IF f[k - 1].ok THEN One(f[k - 1], rows[k]) ELSE f[k - 1]]
           Theirs(f) == [k \in 0..n |-> IF k = 0 THEN Started(e) ELSE Doing(w, f[k - 1], rows[k])]
           Goes(f) == f = Mine(f)
<1>1. ASSUME NEW f PROVE Mine(f) = Theirs(f)
  <2> DEFINE A(k) == IF k = 0 THEN Started(e) ELSE IF f[k - 1].ok THEN One(f[k - 1], rows[k]) ELSE f[k - 1]
             B(k) == IF k = 0 THEN Started(e) ELSE Doing(w, f[k - 1], rows[k])
  <2>1. \A s, item : Do(w, s, item) = One(s, item)
    BY DEF Do, OfRows
  <2>2. \A s, item : Doing(w, s, item) = IF s.ok THEN One(s, item) ELSE s
    <3> HIDE DEF w, One
    <3>. QED  BY <2>1 DEF Doing
  <2>3. \A k : A(k) = B(k)
    <3> HIDE DEF w, One
    <3>. QED  BY <2>2, Zenon
  <2>4. [k \in 0..n |-> A(k)] = [k \in 0..n |-> B(k)]
    <3> HIDE DEF A, B
    <3>. QED  BY <2>3, Zenon
  <2>. QED  BY <2>4, Zenon
<1>2. \A f : Goes(f) <=> Done(f, w, Started(e), rows, n)
  <2> HIDE DEF Mine, w
  <2>. QED  BY <1>1, Zenon DEF Done
<1>3. RowsBaseline(l, e, rows, n) = (CHOOSE f : Goes(f))[n]
  BY Zenon DEF RowsBaseline, WhileOk
<1> HIDE DEF Goes
<1>4. \E f : Goes(f)
  BY <1>2, DoneExists, Zenon
<1>5. Goes(CHOOSE f : Goes(f))
  BY <1>4, Zenon
<1>. QED  BY <1>2, <1>3, <1>5, Zenon

LEMMA BodyIsDone ==
    ASSUME NEW l, NEW e, NEW line, Len(BodyOf(l)) \in Nat
    PROVE  \E f : Done(f, OfBody(l, line), Started([e EXCEPT !.row = line]), BodyOf(l), Len(BodyOf(l))) /\ RunBody(l, e, line) = f[Len(BodyOf(l))]
<1> DEFINE w == OfBody(l, line)
           One(s, item) == Perform(l, line, s, item)
           Mine(f) == [k \in 0..Len(BodyOf(l)) |-> IF k = 0 THEN Started([e EXCEPT !.row = line])
                                       ELSE IF f[k - 1].ok THEN One(f[k - 1], BodyOf(l)[k]) ELSE f[k - 1]]
           Theirs(f) == [k \in 0..Len(BodyOf(l)) |-> IF k = 0 THEN Started([e EXCEPT !.row = line]) ELSE Doing(w, f[k - 1], BodyOf(l)[k])]
           Goes(f) == f = Mine(f)
<1>1. ASSUME NEW f PROVE Mine(f) = Theirs(f)
  <2> DEFINE A(k) == IF k = 0 THEN Started([e EXCEPT !.row = line]) ELSE IF f[k - 1].ok THEN One(f[k - 1], BodyOf(l)[k]) ELSE f[k - 1]
             B(k) == IF k = 0 THEN Started([e EXCEPT !.row = line]) ELSE Doing(w, f[k - 1], BodyOf(l)[k])
  <2>1. \A s, item : Do(w, s, item) = One(s, item)
    BY DEF Do, OfBody
  <2>2. \A s, item : Doing(w, s, item) = IF s.ok THEN One(s, item) ELSE s
    <3> HIDE DEF w, One
    <3>. QED  BY <2>1 DEF Doing
  <2>3. \A k : A(k) = B(k)
    <3> HIDE DEF w, One
    <3>. QED  BY <2>2, Zenon
  <2>4. [k \in 0..Len(BodyOf(l)) |-> A(k)] = [k \in 0..Len(BodyOf(l)) |-> B(k)]
    <3> HIDE DEF A, B
    <3>. QED  BY <2>3, Zenon
  <2>. QED  BY <2>4, Zenon
<1>2. \A f : Goes(f) <=> Done(f, w, Started([e EXCEPT !.row = line]), BodyOf(l), Len(BodyOf(l)))
  <2> HIDE DEF Mine, w
  <2>. QED  BY <1>1, Zenon DEF Done
<1>3. RunBody(l, e, line) = (CHOOSE f : Goes(f))[Len(BodyOf(l))]
  BY Zenon DEF RunBody, WhileOk
<1> HIDE DEF Goes
<1>4. \E f : Goes(f)
  BY <1>2, DoneExists
<1>5. Goes(CHOOSE f : Goes(f))
  BY <1>4, Zenon
<1>. QED  BY <1>2, <1>3, <1>5, Zenon

LEMMA TagsAreAdded ==
    ASSUME NEW totals, NEW tags, Len(tags) \in Nat
    PROVE  \E f : Done(f, OfTags, Value(totals), tags, Len(tags)) /\ AddTags(totals, tags) = f[Len(tags)]
<1> DEFINE w == OfTags
           One(s, item) == AddTag(s.value, item)
           Mine(f) == [k \in 0..Len(tags) |-> IF k = 0 THEN Value(totals)
                                       ELSE IF f[k - 1].ok THEN One(f[k - 1], tags[k]) ELSE f[k - 1]]
           Theirs(f) == [k \in 0..Len(tags) |-> IF k = 0 THEN Value(totals) ELSE Doing(w, f[k - 1], tags[k])]
           Goes(f) == f = Mine(f)
<1>1. ASSUME NEW f PROVE Mine(f) = Theirs(f)
  <2> DEFINE A(k) == IF k = 0 THEN Value(totals) ELSE IF f[k - 1].ok THEN One(f[k - 1], tags[k]) ELSE f[k - 1]
             B(k) == IF k = 0 THEN Value(totals) ELSE Doing(w, f[k - 1], tags[k])
  <2>1. \A s, item : Do(w, s, item) = One(s, item)
    BY DEF Do, OfTags
  <2>2. \A s, item : Doing(w, s, item) = IF s.ok THEN One(s, item) ELSE s
    <3> HIDE DEF w, One
    <3>. QED  BY <2>1 DEF Doing
  <2>3. \A k : A(k) = B(k)
    <3> HIDE DEF w, One
    <3>. QED  BY <2>2, Zenon
  <2>4. [k \in 0..Len(tags) |-> A(k)] = [k \in 0..Len(tags) |-> B(k)]
    <3> HIDE DEF A, B
    <3>. QED  BY <2>3, Zenon
  <2>. QED  BY <2>4, Zenon
<1>2. \A f : Goes(f) <=> Done(f, w, Value(totals), tags, Len(tags))
  <2> HIDE DEF Mine, w
  <2>. QED  BY <1>1, Zenon DEF Done
<1>3. AddTags(totals, tags) = (CHOOSE f : Goes(f))[Len(tags)]
  BY Zenon DEF AddTags, WhileOk
<1> HIDE DEF Goes
<1>4. \E f : Goes(f)
  BY <1>2, DoneExists
<1>5. Goes(CHOOSE f : Goes(f))
  BY <1>4, Zenon
<1>. QED  BY <1>2, <1>3, <1>5, Zenon

\* The last statement of every body.
Counted(l, s, tags) == WhileOk(LAMBDA t, tag : CountTag(t, l, tag), s, tags, Len(tags))

LEMMA TagsAreCounted ==
    ASSUME NEW l, NEW start, NEW tags, Len(tags) \in Nat
    PROVE  \E f : Done(f, OfCounts(l), start, tags, Len(tags)) /\ Counted(l, start, tags) = f[Len(tags)]
<1> DEFINE w == OfCounts(l)
           One(s, item) == CountTag(s, l, item)
           Mine(f) == [k \in 0..Len(tags) |-> IF k = 0 THEN start
                                       ELSE IF f[k - 1].ok THEN One(f[k - 1], tags[k]) ELSE f[k - 1]]
           Theirs(f) == [k \in 0..Len(tags) |-> IF k = 0 THEN start ELSE Doing(w, f[k - 1], tags[k])]
           Goes(f) == f = Mine(f)
<1>1. ASSUME NEW f PROVE Mine(f) = Theirs(f)
  <2> DEFINE A(k) == IF k = 0 THEN start ELSE IF f[k - 1].ok THEN One(f[k - 1], tags[k]) ELSE f[k - 1]
             B(k) == IF k = 0 THEN start ELSE Doing(w, f[k - 1], tags[k])
  <2>1. \A s, item : Do(w, s, item) = One(s, item)
    BY DEF Do, OfCounts
  <2>2. \A s, item : Doing(w, s, item) = IF s.ok THEN One(s, item) ELSE s
    <3> HIDE DEF w, One
    <3>. QED  BY <2>1 DEF Doing
  <2>3. \A k : A(k) = B(k)
    <3> HIDE DEF w, One
    <3>. QED  BY <2>2, Zenon
  <2>4. [k \in 0..Len(tags) |-> A(k)] = [k \in 0..Len(tags) |-> B(k)]
    <3> HIDE DEF A, B
    <3>. QED  BY <2>3, Zenon
  <2>. QED  BY <2>4, Zenon
<1>2. \A f : Goes(f) <=> Done(f, w, start, tags, Len(tags))
  <2> HIDE DEF Mine, w
  <2>. QED  BY <1>1, Zenon DEF Done
<1>3. Counted(l, start, tags) = (CHOOSE f : Goes(f))[Len(tags)]
  BY Zenon DEF Counted, WhileOk
<1> HIDE DEF Goes
<1>4. \E f : Goes(f)
  BY <1>2, DoneExists
<1>5. Goes(CHOOSE f : Goes(f))
  BY <1>4, Zenon
<1>. QED  BY <1>2, <1>3, <1>5, Zenon

-----------------------------------------------------------------------------
(* Fields and statements. *)
LEMMA WrapFits == ASSUME NEW n \in Fitting PROVE Wrap(n) = n
<1>1. Half \in Nat /\ Half > 0 /\ n \in Int /\ n + Half >= 0 /\ n + Half < 2 * Half
  BY NumbersAssumption DEF Fitting
<1>2. ASSUME NEW m \in Nat, NEW k \in Nat, k < m PROVE k % m = k
  BY <1>2
<1>3. (n + Half) % (2 * Half) = n + Half
  <2>1. 2 * Half \in Nat /\ n + Half \in Nat
    BY <1>1
  <2>. QED  BY <1>1, <1>2, <2>1
<1>. QED  BY <1>1, <1>3 DEF Wrap

Tags(tags) ==
    /\ Len(tags) \in Nat /\ DOMAIN tags = 1..Len(tags)
    /\ \A i \in 1..Len(tags) : tags[i][1] = "str" => tags[i][2] \in Tag

LEMMA FieldIs ==
    ASSUME NEW line \in Lines, NEW key
    PROVE  LET found == find_top_level_json_field(line, key)
           IN found = NoValue \/ FieldAssumption(key, found)
<1> DEFINE at == {i \in DOMAIN line : line[i][1] = key}
<1>1. Len(line) \in Nat /\ DOMAIN line = 1..Len(line) /\ \A i \in DOMAIN line : FieldAssumption(line[i][1], line[i][2])
  BY LinesAssumption
<1>2. CASE at = {}
  BY <1>2 DEF find_top_level_json_field
<1>3. CASE at # {}
  <2>1. PICK i \in at : \A j \in at : i <= j
    <3>1. at \subseteq Nat
      BY <1>1
    <3> HIDE DEF at
    <3>. QED  BY <1>3, <3>1, LeastExists
  <2> DEFINE i0 == CHOOSE k \in at : \A j \in at : k <= j
  <2>2. i0 \in at
    BY <2>1
  <2>3. find_top_level_json_field(line, key) = line[i0][2]
    BY <1>3 DEF find_top_level_json_field
  <2> HIDE DEF i0
  <2>4. i0 \in DOMAIN line /\ line[i0][1] = key
    BY <2>2
  <2>. QED  BY <1>1, <2>3, <2>4
<1>. QED  BY <1>2, <1>3

LEMMA ReadsAre ==
    ASSUME NEW l \in Loops, NEW line \in Lines
    PROVE  /\ get_user(l, line).ok => get_user(l, line).value \in User
           /\ get_amount(l, line).ok => get_amount(l, line).value \in Fitting
           /\ get_items(l, line).ok => get_items(l, line).value \in Fitting
           /\ get_tags(l, line).ok => Tags(get_tags(l, line).value)
<1>1. l.default \in User /\ 0 \in Fitting /\ 1 \in Fitting
  BY LoopsAssumption, NumbersAssumption DEF Fitting
<1>2. ASSUME NEW key, NEW type, NEW default, get(l, line, key, type, default).ok
      PROVE  LET v == get(l, line, key, type, default).value
                 found == find_top_level_json_field(line, key)
             IN v = default \/ (found # NoValue /\ FieldAssumption(key, found) /\ found[1] = type /\ v = found[2])
  <2> DEFINE found == find_top_level_json_field(line, key)
  <2>1. found = NoValue \/ FieldAssumption(key, found)
    BY FieldIs
  <2>2. get(l, line, key, type, default)
          = IF found = NoValue
            THEN IF HotJsonlAggregationBody(l.shape).defaults THEN Value(default) ELSE Fail
            ELSE IF found[1] = type THEN Value(found[2]) ELSE Fail
    BY DEF get
  <2>3. ~Fail.ok /\ \A v : Value(v).value = v
    BY DEF Fail, Value
  <2> HIDE DEF found
  <2>. QED  BY <1>2, <2>1, <2>2, <2>3 DEF found
<1>3. ASSUME get_user(l, line).ok PROVE get_user(l, line).value \in User
  <2> DEFINE found == find_top_level_json_field(line, "user")
  <2>1. get_user(l, line).value = l.default
        \/ (FieldAssumption("user", found) /\ found[1] = "str" /\ get_user(l, line).value = found[2])
    BY <1>2, <1>3, Zenon DEF get_user
  <2> HIDE DEF found
  <2>. QED  BY <1>1, <2>1 DEF FieldAssumption
<1>4. ASSUME get_amount(l, line).ok PROVE get_amount(l, line).value \in Fitting
  <2> DEFINE found == find_top_level_json_field(line, "amount")
  <2>1. get_amount(l, line).value = 0
        \/ (FieldAssumption("amount", found) /\ found[1] = "num" /\ get_amount(l, line).value = found[2])
    BY <1>2, <1>4, Zenon DEF get_amount
  <2> HIDE DEF found
  <2>. QED  BY <1>1, <2>1 DEF FieldAssumption, IntFits
<1>5. ASSUME get_items(l, line).ok PROVE get_items(l, line).value \in Fitting
  <2> DEFINE found == find_top_level_json_field(line, "items")
  <2>0. CASE HotJsonlAggregationBody(l.shape).counted
    BY <1>1, <2>0 DEF get_items, Value
  <2>1. CASE ~HotJsonlAggregationBody(l.shape).counted
    <3>0. get_items(l, line) = get(l, line, "items", "num", 0)
      BY <2>1 DEF get_items
    <3>a. get(l, line, "items", "num", 0).ok
      BY <1>5, <3>0
    <3>b. get(l, line, "items", "num", 0).value = 0
          \/ (FieldAssumption("items", found) /\ found[1] = "num" /\ get(l, line, "items", "num", 0).value = found[2])
      BY <1>2, <3>a, Zenon
    <3>1. get_items(l, line).value = 0
          \/ (FieldAssumption("items", found) /\ found[1] = "num" /\ get_items(l, line).value = found[2])
      BY <3>0, <3>b, Zenon
    <3> HIDE DEF found
    <3>. QED  BY <1>1, <3>1 DEF FieldAssumption, IntFits
  <2>. QED  BY <2>0, <2>1
<1>6. ASSUME get_tags(l, line).ok PROVE Tags(get_tags(l, line).value)
  <2> DEFINE found == find_top_level_json_field(line, "tags")
             value == get_tags(l, line).value
  <2>1. value = <<>>
        \/ (FieldAssumption("tags", found) /\ found[1] = "list" /\ value = found[2])
    BY <1>2, <1>6, Zenon DEF get_tags
  <2> HIDE DEF found, value
  <2>2. CASE value = <<>>
    BY <2>2 DEF Tags, value
  <2>3. CASE FieldAssumption("tags", found) /\ found[1] = "list" /\ value = found[2]
    BY <2>3 DEF FieldAssumption, Tags, value
  <2>. QED  BY <2>1, <2>2, <2>3
<1>. QED  BY <1>3, <1>4, <1>5, <1>6

-----------------------------------------------------------------------------
(* What a statement that does not fail does. *)
State == [ok : BOOLEAN, env : Variables, amount : Fitting, items : Fitting]
PutIn(map, k, n) == [map EXCEPT ![k] = IF map[k] = NoValue THEN <<n>> ELSE <<map[k][1] + n>>]

LEMMA StoppedIs == ASSUME NEW s \in State PROVE ~Stopped(s).ok
  BY DEF Stopped, State

LEMMA StartedIs ==
    ASSUME NEW e \in Variables
    PROVE  Started(e) \in State /\ Started(e).ok /\ Started(e).env = e
<1>1. 0 \in Fitting
  BY NumbersAssumption DEF Fitting
<1>. QED  BY <1>1 DEF Started, State

LEMMA PerformIs ==
    ASSUME NEW l, NEW line, NEW s \in State, NEW stmt, Perform(l, line, s, stmt).ok
    PROVE  /\ Read(l, line, stmt).ok /\ s.env.declared
           /\ Perform(l, line, s, stmt) = Execute(l, s, stmt, Read(l, line, stmt).value)
<1>1. ~Stopped(s).ok
  BY StoppedIs
<1>. QED  BY <1>1 DEF Perform

LEMMA PlusIs ==
    ASSUME NEW s \in State, NEW u \in User, NEW n \in Fitting
    PROVE  /\ Plus(s, "amounts", u, n).ok =>
                /\ s.env.amounts[u] # NoValue /\ s.env.amounts[u][1] + n \in Fitting
                /\ Plus(s, "amounts", u, n) = [s EXCEPT !.env = [s.env EXCEPT !.amounts = PutIn(s.env.amounts, u, n)]]
                /\ Plus(s, "amounts", u, n) \in State
           /\ Plus(s, "items", u, n).ok =>
                /\ s.env.items[u] # NoValue /\ s.env.items[u][1] + n \in Fitting
                /\ Plus(s, "items", u, n) = [s EXCEPT !.env = [s.env EXCEPT !.items = PutIn(s.env.items, u, n)]]
                /\ Plus(s, "items", u, n) \in State
<1>0. ~Stopped(s).ok
  BY StoppedIs
<1>1. ASSUME Plus(s, "amounts", u, n).ok
      PROVE  /\ s.env.amounts[u] # NoValue /\ s.env.amounts[u][1] + n \in Fitting
             /\ Plus(s, "amounts", u, n) = [s EXCEPT !.env = [s.env EXCEPT !.amounts = PutIn(s.env.amounts, u, n)]]
             /\ Plus(s, "amounts", u, n) \in State
  <2>1. s.env.amounts[u] # NoValue /\ s.env.amounts[u][1] + n \in Fitting
    BY <1>0, <1>1 DEF Plus, IntFits
  <2>2. Plus(s, "amounts", u, n) = [s EXCEPT !.env.amounts[u] = <<s.env.amounts[u][1] + n>>]
    BY <2>1 DEF Plus, IntFits
  <2>3. PutIn(s.env.amounts, u, n) = [s.env.amounts EXCEPT ![u] = <<s.env.amounts[u][1] + n>>]
    BY <2>1 DEF PutIn
  <2>4. <<s.env.amounts[u][1] + n>> \in Maybe(Fitting)
    BY <2>1 DEF Maybe
  <2>5. s.env \in Variables /\ s.env.amounts \in [User -> Maybe(Fitting)]
    BY DEF State, Variables
  <2>6. PutIn(s.env.amounts, u, n) \in [User -> Maybe(Fitting)]
    BY <2>3, <2>4, <2>5
  <2>7. [s.env EXCEPT !.amounts = PutIn(s.env.amounts, u, n)] \in Variables
    BY <2>5, <2>6 DEF Variables
  <2> DEFINE e == [s.env EXCEPT !.amounts = PutIn(s.env.amounts, u, n)]
             old == s.env.amounts[u][1] + n
  <2>8. [s EXCEPT !.env = e] \in State
    <3>1. e \in Variables
      BY <2>7
    <3> HIDE DEF e
    <3>. QED  BY <3>1 DEF State
  <2>9. Plus(s, "amounts", u, n) = [s EXCEPT !.env = e]
    <3>1. [s EXCEPT !.env.amounts[u] = <<old>>] = [s EXCEPT !.env = [s.env EXCEPT !.amounts = [s.env.amounts EXCEPT ![u] = <<old>>]]]
      <4> HIDE DEF old
      <4>. QED  OBVIOUS
    <3>. QED  BY <2>2, <2>3, <3>1
  <2>. QED  BY <2>1, <2>8, <2>9, Zenon
<1>2. ASSUME Plus(s, "items", u, n).ok
      PROVE  /\ s.env.items[u] # NoValue /\ s.env.items[u][1] + n \in Fitting
             /\ Plus(s, "items", u, n) = [s EXCEPT !.env = [s.env EXCEPT !.items = PutIn(s.env.items, u, n)]]
             /\ Plus(s, "items", u, n) \in State
  <2>1. s.env.items[u] # NoValue /\ s.env.items[u][1] + n \in Fitting
    BY <1>0, <1>2 DEF Plus, IntFits
  <2>2. Plus(s, "items", u, n) = [s EXCEPT !.env.items[u] = <<s.env.items[u][1] + n>>]
    BY <2>1 DEF Plus, IntFits
  <2>3. PutIn(s.env.items, u, n) = [s.env.items EXCEPT ![u] = <<s.env.items[u][1] + n>>]
    BY <2>1 DEF PutIn
  <2>4. <<s.env.items[u][1] + n>> \in Maybe(Fitting)
    BY <2>1 DEF Maybe
  <2>5. s.env \in Variables /\ s.env.items \in [User -> Maybe(Fitting)]
    BY DEF State, Variables
  <2>6. PutIn(s.env.items, u, n) \in [User -> Maybe(Fitting)]
    BY <2>3, <2>4, <2>5
  <2>7. [s.env EXCEPT !.items = PutIn(s.env.items, u, n)] \in Variables
    BY <2>5, <2>6 DEF Variables
  <2> DEFINE e == [s.env EXCEPT !.items = PutIn(s.env.items, u, n)]
             old == s.env.items[u][1] + n
  <2>8. [s EXCEPT !.env = e] \in State
    <3>1. e \in Variables
      BY <2>7
    <3> HIDE DEF e
    <3>. QED  BY <3>1 DEF State
  <2>9. Plus(s, "items", u, n) = [s EXCEPT !.env = e]
    <3>1. [s EXCEPT !.env.items[u] = <<old>>] = [s EXCEPT !.env = [s.env EXCEPT !.items = [s.env.items EXCEPT ![u] = <<old>>]]]
      <4> HIDE DEF old
      <4>. QED  OBVIOUS
    <3>. QED  BY <2>2, <2>3, <3>1
  <2>. QED  BY <2>1, <2>8, <2>9, Zenon
<1>. QED  BY <1>1, <1>2

\* What a body adds for the user of a row.
Tally(l, e, u, a, i) ==
    [e EXCEPT !.amounts = PutIn(e.amounts, u, a), !.items = PutIn(e.items, u, i),
              !.users = IF l.users /\ e.amounts[u] = NoValue THEN Append(e.users, u) ELSE e.users]
PutFits(map, k, n) == map[k] = NoValue \/ map[k][1] + n \in Fitting
TalliesWell(l, e, u, a, i) ==
    PutFits(e.amounts, u, a) /\ PutFits(e.items, u, i) /\ Tally(l, e, u, a, i) \in Variables
Known(e, u) == (e.amounts[u] = NoValue) <=> (e.items[u] = NoValue)

LEMMA PutIs ==
    ASSUME NEW map \in [User -> Maybe(Fitting)], NEW u \in User, NEW n \in Fitting, PutFits(map, u, n)
    PROVE  PutIn(map, u, n) \in [User -> Maybe(Fitting)]
<1>1. CASE map[u] = NoValue
  <2>1. PutIn(map, u, n) = [map EXCEPT ![u] = <<n>>] /\ <<n>> \in Maybe(Fitting)
    BY <1>1 DEF PutIn, Maybe
  <2>. QED  BY <2>1
<1>2. CASE map[u] # NoValue
  <2> DEFINE sum == map[u][1] + n
  <2>1. PutIn(map, u, n) = [map EXCEPT ![u] = <<sum>>] /\ sum \in Fitting
    BY <1>2 DEF PutIn, PutFits
  <2> HIDE DEF sum
  <2>2. <<sum>> \in Maybe(Fitting)
    BY <2>1 DEF Maybe
  <2>. QED  BY <2>1, <2>2
<1>. QED  BY <1>1, <1>2

LEMMA TallyIs ==
    ASSUME NEW l \in Loops, NEW e \in Variables, NEW u \in User, NEW a \in Fitting, NEW i \in Fitting,
           PutFits(e.amounts, u, a), PutFits(e.items, u, i)
    PROVE  TalliesWell(l, e, u, a, i)
<1> DEFINE users == IF l.users /\ e.amounts[u] = NoValue THEN Append(e.users, u) ELSE e.users
           amounts == PutIn(e.amounts, u, a)
           items == PutIn(e.items, u, i)
<1>1. e.users \in Seq(User) /\ e.amounts \in [User -> Maybe(Fitting)] /\ e.items \in [User -> Maybe(Fitting)]
  BY DEF Variables
<1>2. users \in Seq(User)
  BY <1>1
<1>3. amounts \in [User -> Maybe(Fitting)] /\ items \in [User -> Maybe(Fitting)]
  BY <1>1, PutIs
<1>4. Tally(l, e, u, a, i) = [e EXCEPT !.amounts = amounts, !.items = items, !.users = users]
  BY Zenon DEF Tally
<1> HIDE DEF users, amounts, items
<1>5. [e EXCEPT !.amounts = amounts, !.items = items, !.users = users] \in Variables
  BY <1>2, <1>3 DEF Variables
<1>. QED  BY <1>4, <1>5 DEF TalliesWell

\* A fused update tallies, where both maps have the same users.
LEMMA UpdateTallies ==
    ASSUME NEW l \in Loops, NEW s \in State, NEW u \in User, s.env.user = <<u>>, Known(s.env, u),
           execute_fused_map_update_if(s, l).ok
    PROVE  /\ TalliesWell(l, s.env, u, s.amount, s.items)
           /\ execute_fused_map_update_if(s, l) = [s EXCEPT !.env = Tally(l, s.env, u, s.amount, s.items)]
<1> DEFINE added == Plus(s, "amounts", u, s.amount)
           a == s.amount
           i == s.items
           e == s.env
<1>1. e \in Variables /\ a \in Fitting /\ i \in Fitting /\ s.env.user[1] = u
  BY DEF State
<1>2. CASE s.env.amounts[u] # NoValue
  <2>1. execute_fused_map_update_if(s, l) = IF added.ok THEN Plus(added, "items", u, i) ELSE added
    BY <1>1, <1>2 DEF execute_fused_map_update_if
  <2>2. added.ok /\ execute_fused_map_update_if(s, l) = Plus(added, "items", u, i) /\ Plus(added, "items", u, i).ok
    BY <2>1
  <2>3. /\ e.amounts[u][1] + a \in Fitting
        /\ added = [s EXCEPT !.env = [e EXCEPT !.amounts = PutIn(e.amounts, u, a)]] /\ added \in State
    BY <1>1, <2>2, PlusIs
  <2> DEFINE amounts == PutIn(e.amounts, u, a)
             items == PutIn(e.items, u, i)
  <2>4. added.env = [e EXCEPT !.amounts = amounts] /\ added.env.items = e.items
    <3>1. e \in Variables
      BY <1>1
    <3> HIDE DEF amounts
    <3>2. added = [s EXCEPT !.env = [e EXCEPT !.amounts = amounts]]
      BY <2>3 DEF amounts
    <3> HIDE DEF added
    <3>. QED  BY <3>1, <3>2 DEF State, Variables
  <2>5. /\ added.env.items[u] # NoValue /\ added.env.items[u][1] + i \in Fitting
        /\ Plus(added, "items", u, i) = [added EXCEPT !.env = [added.env EXCEPT !.items = PutIn(added.env.items, u, i)]]
    <3>1. added \in State /\ Plus(added, "items", u, i).ok /\ i \in Fitting
      BY <1>1, <2>2, <2>3, Zenon
    <3> HIDE DEF added, i
    <3>. QED  BY <3>1, PlusIs
  <2>6. PutFits(e.amounts, u, a) /\ PutFits(e.items, u, i)
    BY <2>3, <2>4, <2>5 DEF PutFits
  <2>7. Tally(l, e, u, a, i) = [e EXCEPT !.amounts = amounts, !.items = items]
    <3>1. e.users = IF l.users /\ e.amounts[u] = NoValue THEN Append(e.users, u) ELSE e.users
      BY <1>2
    <3>2. Tally(l, e, u, a, i) = [e EXCEPT !.amounts = amounts, !.items = items, !.users = e.users]
      BY <3>1, Zenon DEF Tally
    <3> HIDE DEF amounts, items
    <3>. QED  BY <1>1, <3>2 DEF Variables
  <2>8. Plus(added, "items", u, i) = [s EXCEPT !.env = [e EXCEPT !.amounts = amounts, !.items = items]]
    <3>1. Plus(added, "items", u, i) = [added EXCEPT !.env = [[e EXCEPT !.amounts = amounts] EXCEPT !.items = items]]
      <4> HIDE DEF added, amounts
      <4>. QED  BY <2>4, <2>5
    <3>2. added = [s EXCEPT !.env = [e EXCEPT !.amounts = amounts]]
      BY <2>3
    <3> HIDE DEF amounts, items, added
    <3>. QED  BY <1>1, <3>1, <3>2 DEF State, Variables
  <2>. QED  BY <1>1, <2>2, <2>6, <2>7, <2>8, TallyIs
<1>3. CASE s.env.amounts[u] = NoValue
  <2> DEFINE users == IF l.users THEN Append(e.users, u) ELSE e.users
             amounts == PutIn(e.amounts, u, a)
             items == PutIn(e.items, u, i)
  <2>1. PutFits(e.amounts, u, a) /\ PutFits(e.items, u, i)
    BY <1>3 DEF PutFits, Known
  <2>2. amounts = [e.amounts EXCEPT ![u] = <<a>>] /\ items = [e.items EXCEPT ![u] = <<i>>]
    BY <1>3 DEF PutIn, Known
  <2>3. execute_fused_map_update_if(s, l)
          = [s EXCEPT !.env.amounts[u] = <<a>>, !.env.items[u] = <<i>>, !.env.users = users]
    BY <1>1, <1>3 DEF execute_fused_map_update_if
  <2>4. Tally(l, e, u, a, i) = [e EXCEPT !.amounts = amounts, !.items = items, !.users = users]
    BY <1>3, Zenon DEF Tally
  <2>5. [s EXCEPT !.env.amounts[u] = <<a>>, !.env.items[u] = <<i>>, !.env.users = users]
          = [s EXCEPT !.env = [e EXCEPT !.amounts = amounts, !.items = items, !.users = users]]
    <3> HIDE DEF users, amounts, items
    <3>. QED  BY <1>1, <2>2 DEF State, Variables
  <2>. QED  BY <1>1, <2>1, <2>3, <2>4, <2>5, TallyIs
<1>. QED  BY <1>2, <1>3

\* Starting a user at nothing and adding to that is adding.
LEMMA PutTwice ==
    ASSUME NEW map \in [User -> Maybe(Fitting)], NEW u \in User, NEW n \in Fitting
    PROVE  /\ PutIn(map, u, 0) \in [User -> Maybe(Fitting)]
           /\ PutIn(PutIn(map, u, 0), u, n) = PutIn(map, u, n)
           /\ PutIn(map, u, 0)[u][1] + n \in Fitting => PutFits(map, u, n)
           /\ map[u] # NoValue => PutIn(map, u, 0) = map
           /\ map[u] = NoValue => PutIn(map, u, 0) = [map EXCEPT ![u] = <<0>>]
<1>0. 0 \in Fitting /\ \A k \in Fitting : k \in Int
  BY NumbersAssumption DEF Fitting
<1>1. CASE map[u] = NoValue
  <2>1. PutIn(map, u, 0) = [map EXCEPT ![u] = <<0>>] /\ <<0>> \in Maybe(Fitting) /\ <<0>> # NoValue
    BY <1>0, <1>1 DEF PutIn, Maybe, NoValue
  <2> DEFINE zero == PutIn(map, u, 0)
  <2>2. zero[u] = <<0>> /\ zero \in [User -> Maybe(Fitting)]
    BY <2>1
  <2>3. PutIn(zero, u, n) = [zero EXCEPT ![u] = <<n>>]
    <3>1. zero[u] # NoValue /\ zero[u][1] = 0 /\ 0 + n = n
      BY <1>0, <2>1, <2>2
    <3> HIDE DEF zero
    <3>. QED  BY <3>1 DEF PutIn
  <2>4. PutIn(map, u, n) = [map EXCEPT ![u] = <<n>>]
    BY <1>1 DEF PutIn
  <2>5. [zero EXCEPT ![u] = <<n>>] = [map EXCEPT ![u] = <<n>>]
    BY <2>1
  <2>6. PutFits(map, u, n)
    BY <1>1 DEF PutFits
  <2>. QED  BY <1>1, <2>1, <2>2, <2>3, <2>4, <2>5, <2>6, Zenon
<1>2. CASE map[u] # NoValue
  <2>1. PICK k \in Fitting : map[u] = <<k>>
    BY <1>2 DEF Maybe
  <2>2. PutIn(map, u, 0) = [map EXCEPT ![u] = <<k>>]
    <3>1. map[u][1] = k /\ k + 0 = k
      BY <1>0, <2>1
    <3>. QED  BY <1>2, <3>1, Zenon DEF PutIn
  <2>3. PutIn(map, u, 0) = map
    BY <2>1, <2>2
  <2>4. map[u][1] + n \in Fitting => PutFits(map, u, n)
    BY DEF PutFits
  <2>. QED  BY <1>2, <2>3, <2>4
<1>. QED  BY <1>1, <1>2

Zeroed(e, u) == [e EXCEPT !.amounts = PutIn(e.amounts, u, 0), !.items = PutIn(e.items, u, 0)]
LEMMA ZeroIs ==
    ASSUME NEW l, NEW s \in State, NEW u \in User, s.env.user = <<u>>, Known(s.env, u), NEW any
    PROVE  /\ Execute(l, s, "zero", any) = [s EXCEPT !.env = Zeroed(s.env, u)]
           /\ Execute(l, s, "zero", any) \in State
           /\ Execute(l, s, "zero", any).env = Zeroed(s.env, u)
           /\ Execute(l, s, "zero", any).env.user = <<u>>
<1> DEFINE e == s.env
           za == PutIn(e.amounts, u, 0)
           zi == PutIn(e.items, u, 0)
           z == Execute(l, s, "zero", any)
<1>1. e \in Variables /\ s.env.user[1] = u
  BY DEF State
<1>2. /\ e.amounts \in [User -> Maybe(Fitting)] /\ e.items \in [User -> Maybe(Fitting)]
      /\ za \in [User -> Maybe(Fitting)] /\ zi \in [User -> Maybe(Fitting)]
  <2>1. e.amounts \in [User -> Maybe(Fitting)] /\ e.items \in [User -> Maybe(Fitting)] /\ 0 \in Fitting
    BY <1>1, NumbersAssumption DEF Variables, Fitting
  <2>2. \A map \in [User -> Maybe(Fitting)] : PutIn(map, u, 0) \in [User -> Maybe(Fitting)]
    BY <2>1, PutTwice
  <2>. QED  BY <2>1, <2>2, Zenon
<1>a. \A map \in [User -> Maybe(Fitting)] :
        /\ map[u] # NoValue => PutIn(map, u, 0) = map
        /\ map[u] = NoValue => PutIn(map, u, 0) = [map EXCEPT ![u] = <<0>>]
  <2>1. 0 \in Fitting
    BY NumbersAssumption DEF Fitting
  <2>. QED  BY <2>1, PutTwice
<1>3. z = IF e.amounts[u] # NoValue THEN s ELSE [s EXCEPT !.env.amounts[u] = <<0>>, !.env.items[u] = <<0>>]
  BY <1>1 DEF Execute
<1>4. z = [s EXCEPT !.env = [e EXCEPT !.amounts = za, !.items = zi]]
  <2>1. CASE e.amounts[u] # NoValue
    <3>1. za = e.amounts /\ zi = e.items /\ z = s
      BY <1>2, <1>3, <1>a, <2>1 DEF Known
    <3> HIDE DEF z, za, zi
    <3>. QED  BY <1>1, <3>1 DEF State, Variables
  <2>2. CASE e.amounts[u] = NoValue
    <3>1. /\ za = [e.amounts EXCEPT ![u] = <<0>>] /\ zi = [e.items EXCEPT ![u] = <<0>>]
          /\ z = [s EXCEPT !.env.amounts[u] = <<0>>, !.env.items[u] = <<0>>]
      BY <1>2, <1>3, <1>a, <2>2 DEF Known
    <3> HIDE DEF z, za, zi
    <3>. QED  BY <1>1, <3>1 DEF State, Variables
  <2>. QED  BY <2>1, <2>2
<1>5. z \in State /\ z.env = [e EXCEPT !.amounts = za, !.items = zi] /\ z.env.user = <<u>>
  <2> DEFINE ze == [e EXCEPT !.amounts = za, !.items = zi]
  <2>1. ze \in Variables /\ ze.user = <<u>>
    <3> HIDE DEF za, zi
    <3>. QED  BY <1>1, <1>2 DEF Variables
  <2> HIDE DEF ze, z
  <2>2. z = [s EXCEPT !.env = ze]
    BY <1>4 DEF ze
  <2>3. z.env = ze /\ z \in State
    BY <2>1, <2>2 DEF State
  <2>. QED  BY <2>1, <2>3 DEF ze
<1>6. Zeroed(e, u) = [e EXCEPT !.amounts = za, !.items = zi]
  BY Zenon DEF Zeroed
<1> HIDE DEF za, zi, z
<1>. QED  BY <1>4, <1>5, <1>6, Zenon DEF z

StaysZeroed(l, s, u) ==
    \A any : Execute(l, s, "zero", any) \in State /\ Execute(l, s, "zero", any).env.user = <<u>>
LEMMA ZeroStays ==
    ASSUME NEW l, NEW s \in State, NEW u \in User, s.env.user = <<u>>, Known(s.env, u)
    PROVE  StaysZeroed(l, s, u)
<1> SUFFICES ASSUME NEW any
             PROVE  Execute(l, s, "zero", any) \in State /\ Execute(l, s, "zero", any).env.user = <<u>>
  BY DEF StaysZeroed
<1>. QED  BY ZeroIs

LEMMA ZeroAddTallies ==
    ASSUME NEW l \in Loops, ~l.users, NEW s \in State, NEW u \in User, s.env.user = <<u>>, Known(s.env, u),
           NEW a \in Fitting, NEW i \in Fitting, NEW any,
           Plus(Execute(l, s, "zero", any), "amounts", u, a).ok,
           Plus(Plus(Execute(l, s, "zero", any), "amounts", u, a), "items", u, i).ok
    PROVE  /\ Execute(l, s, "zero", any) \in State /\ Execute(l, s, "zero", any).env.user = <<u>>
           /\ Plus(Execute(l, s, "zero", any), "amounts", u, a) \in State
           /\ Plus(Execute(l, s, "zero", any), "amounts", u, a).env.user = <<u>>
           /\ TalliesWell(l, s.env, u, a, i)
           /\ Plus(Plus(Execute(l, s, "zero", any), "amounts", u, a), "items", u, i)
                = [s EXCEPT !.env = Tally(l, s.env, u, a, i)]
<1> DEFINE e == s.env
           za == PutIn(e.amounts, u, 0)
           zi == PutIn(e.items, u, 0)
           z == Execute(l, s, "zero", any)
           p == Plus(z, "amounts", u, a)
           q == Plus(p, "items", u, i)
           amounts == PutIn(e.amounts, u, a)
           items == PutIn(e.items, u, i)
<1>1. e \in Variables /\ s.env.user[1] = u
  BY DEF State
<1>2. /\ e.amounts \in [User -> Maybe(Fitting)] /\ e.items \in [User -> Maybe(Fitting)]
      /\ za \in [User -> Maybe(Fitting)] /\ zi \in [User -> Maybe(Fitting)]
      /\ PutIn(za, u, a) = amounts /\ PutIn(zi, u, i) = items
  <2>1. e.amounts \in [User -> Maybe(Fitting)] /\ e.items \in [User -> Maybe(Fitting)]
    BY <1>1 DEF Variables
  <2>2. \A map \in [User -> Maybe(Fitting)], n \in Fitting :
           PutIn(map, u, 0) \in [User -> Maybe(Fitting)] /\ PutIn(PutIn(map, u, 0), u, n) = PutIn(map, u, n)
    BY PutTwice
  <2>. QED  BY <2>1, <2>2, Zenon
<1>a. Zeroed(e, u) = [e EXCEPT !.amounts = za, !.items = zi]
  BY Zenon DEF Zeroed
<1>b. z = [s EXCEPT !.env = Zeroed(e, u)] /\ z \in State /\ z.env = Zeroed(e, u) /\ z.env.user = <<u>>
  BY ZeroIs
<1>4. z = [s EXCEPT !.env = [e EXCEPT !.amounts = za, !.items = zi]]
  <2> HIDE DEF z, za, zi
  <2>. QED  BY <1>a, <1>b
<1>5. z \in State /\ z.env = [e EXCEPT !.amounts = za, !.items = zi] /\ z.env.user = <<u>>
  <2> HIDE DEF z, za, zi
  <2>. QED  BY <1>a, <1>b
<1>6. z.env.amounts = za /\ z.env.items = zi
  <2> HIDE DEF z, za, zi
  <2>. QED  BY <1>1, <1>5 DEF Variables
<1>7. /\ za[u][1] + a \in Fitting /\ p = [z EXCEPT !.env = [z.env EXCEPT !.amounts = amounts]] /\ p \in State
  <2>1. z \in State /\ p.ok
    BY <1>5
  <2>2. z.env.amounts[u][1] + a \in Fitting /\ p = [z EXCEPT !.env = [z.env EXCEPT !.amounts = PutIn(z.env.amounts, u, a)]] /\ p \in State
    <3> HIDE DEF z
    <3>. QED  BY <2>1, PlusIs
  <2> HIDE DEF p, z, za, amounts
  <2>. QED  BY <2>2, <1>6, <1>2
<1>8. p.env = [e EXCEPT !.amounts = amounts, !.items = zi] /\ p.env.items = zi /\ p.env.user = <<u>>
  <2> HIDE DEF p, z, za, zi, amounts
  <2>1. p.env = [z.env EXCEPT !.amounts = amounts]
    BY <1>5, <1>7 DEF State
  <2>2. p.env = [[e EXCEPT !.amounts = za, !.items = zi] EXCEPT !.amounts = amounts]
    BY <1>5, <2>1, Zenon
  <2>3. e \in Variables /\ e.user = <<u>>
    BY <1>1
  <2> HIDE DEF e
  <2>. QED  BY <2>2, <2>3 DEF Variables
<1>9. /\ zi[u][1] + i \in Fitting /\ q = [p EXCEPT !.env = [p.env EXCEPT !.items = items]]
  <2>1. p \in State /\ q.ok
    BY <1>7
  <2>2. p.env.items[u][1] + i \in Fitting /\ q = [p EXCEPT !.env = [p.env EXCEPT !.items = PutIn(p.env.items, u, i)]]
    <3> HIDE DEF p
    <3>. QED  BY <2>1, PlusIs
  <2> HIDE DEF p, q, zi, items
  <2>. QED  BY <2>2, <1>8, <1>2
<1>10. TalliesWell(l, e, u, a, i)
  <2>1. PutFits(e.amounts, u, a) /\ PutFits(e.items, u, i)
    BY <1>2, <1>7, <1>9, PutTwice
  <2>. QED  BY <1>1, <2>1, TallyIs
<1>11. q = [s EXCEPT !.env = [e EXCEPT !.amounts = amounts, !.items = items]]
  <2> HIDE DEF p, q, z, za, zi, amounts, items
  <2>1. q = [p EXCEPT !.env = [e EXCEPT !.amounts = amounts, !.items = items]]
    BY <1>1, <1>8, <1>9 DEF Variables
  <2>. QED  BY <1>4, <1>5, <1>7, <2>1 DEF State
<1>12. Tally(l, e, u, a, i) = [e EXCEPT !.amounts = amounts, !.items = items]
  <2>1. e.users = IF l.users /\ e.amounts[u] = NoValue THEN Append(e.users, u) ELSE e.users
    OBVIOUS
  <2>2. Tally(l, e, u, a, i) = [e EXCEPT !.amounts = amounts, !.items = items, !.users = e.users]
    BY <2>1, Zenon DEF Tally
  <2> HIDE DEF amounts, items
  <2>. QED  BY <1>1, <2>2 DEF Variables
<1>. QED  BY <1>5, <1>7, <1>8, <1>10, <1>11, <1>12, Zenon

-----------------------------------------------------------------------------
(* Tags: the interpreter and the kernel count them alike. *)
Accs == [amounts : [User -> Maybe(Fitting)], items : [User -> Maybe(Fitting)], users : Seq(User),
         counts : [Tag -> Maybe(Fitting)], tags : Seq(Tag)]
SameTags(l, e, a) == e.counts = a.counts /\ (l.tags => e.tags = a.tags)
OnlyTags(l, e, e2) ==
    /\ e2.declared = e.declared /\ e2.amounts = e.amounts /\ e2.items = e.items /\ e2.users = e.users
    /\ e2.total = e.total /\ e2.user = e.user /\ e2.row = e.row /\ (~l.tags => e2.tags = e.tags)
OnlyCounts(a, b) == b.amounts = a.amounts /\ b.items = a.items /\ b.users = a.users
TagsAlike(l, s, a, t, r) ==
    /\ t \in State /\ t.ok /\ OnlyTags(l, s.env, t.env)
    /\ r.ok /\ r.value \in Accs /\ OnlyCounts(a, r.value) /\ SameTags(l, t.env, r.value)

TagPut(l, e, g) ==
    [e EXCEPT !.counts = PutIn(e.counts, g, 1),
              !.tags = IF l.tags /\ e.counts[g] = NoValue THEN Append(e.tags, g) ELSE e.tags]

LEMMA CountTagIs ==
    ASSUME NEW l \in Loops, NEW s \in State, s.ok, NEW tag, tag[1] = "str" => tag[2] \in Tag,
           CountTag(s, l, tag).ok
    PROVE  /\ tag[1] = "str" /\ PutFits(s.env.counts, tag[2], 1)
           /\ CountTag(s, l, tag)
                = [s EXCEPT !.env = TagPut(l, s.env, tag[2])]
<1> DEFINE e == s.env
           g == tag[2]
           counts == PutIn(e.counts, g, 1)
           tags == IF l.tags /\ e.counts[g] = NoValue THEN Append(e.tags, g) ELSE e.tags
<1>1. ~Stopped(s).ok /\ e \in Variables /\ 1 \in Fitting
  BY StoppedIs, NumbersAssumption DEF State
<1>2. tag[1] = "str" /\ g \in Tag
  BY <1>1 DEF CountTag
<1>3 ASSUME  e.counts[g] = NoValue
      PROVE  /\ tag[1] = "str" /\ PutFits(e.counts, g, 1)
             /\ CountTag(s, l, tag) = [s EXCEPT !.env = [e EXCEPT !.counts = counts, !.tags = tags]]
  <2>1. CountTag(s, l, tag) = [s EXCEPT !.env.counts[g] = <<1>>, !.env.tags = tags]
    BY <1>2, <1>3 DEF CountTag
  <2>2. counts = [e.counts EXCEPT ![g] = <<1>>] /\ PutFits(e.counts, g, 1)
    BY <1>3 DEF PutIn, PutFits
  <2>3. [s EXCEPT !.env.counts[g] = <<1>>, !.env.tags = tags] = [s EXCEPT !.env = [e EXCEPT !.counts = counts, !.tags = tags]]
    <3> HIDE DEF counts, tags
    <3>. QED  BY <1>1, <2>2 DEF State, Variables
  <2>. QED  BY <1>2, <2>1, <2>2, <2>3, Zenon
<1>4 ASSUME  e.counts[g] # NoValue
      PROVE  /\ tag[1] = "str" /\ PutFits(e.counts, g, 1)
             /\ CountTag(s, l, tag) = [s EXCEPT !.env = [e EXCEPT !.counts = counts, !.tags = tags]]
  <2> DEFINE sum == e.counts[g][1] + 1
  <2>1. CountTag(s, l, tag) = Plus(s, "counts", g, 1)
    BY <1>2, <1>4 DEF CountTag
  <2>2. IntFits(sum) /\ Plus(s, "counts", g, 1) = [s EXCEPT !.env.counts[g] = <<sum>>]
    BY <1>1, <2>1 DEF Plus
  <2>3. counts = [e.counts EXCEPT ![g] = <<sum>>] /\ PutFits(e.counts, g, 1)
    BY <1>4, <2>2 DEF PutIn, PutFits, IntFits
  <2>4. tags = e.tags
    BY <1>4
  <2>5. [s EXCEPT !.env.counts[g] = <<sum>>] = [s EXCEPT !.env = [e EXCEPT !.counts = counts, !.tags = tags]]
    <3> HIDE DEF counts, tags, sum
    <3>. QED  BY <1>1, <2>3, <2>4 DEF State, Variables
  <2>. QED  BY <1>2, <2>1, <2>2, <2>3, <2>5, Zenon
<1>5. TagPut(l, e, g) = [e EXCEPT !.counts = counts, !.tags = tags]
  BY Zenon DEF TagPut
<1> HIDE DEF counts, tags
<1>. QED  BY <1>3, <1>4, <1>5, Zenon

LEMMA PutTagIs ==
    ASSUME NEW map \in [Tag -> Maybe(Fitting)], NEW g \in Tag, PutFits(map, g, 1)
    PROVE  PutIn(map, g, 1) \in [Tag -> Maybe(Fitting)] /\ AddTo(map, g, 1) = PutIn(map, g, 1)
<1>0. 1 \in Fitting
  BY NumbersAssumption
<1>1. CASE map[g] = NoValue
  <2>1. PutIn(map, g, 1) = [map EXCEPT ![g] = <<1>>] /\ <<1>> \in Maybe(Fitting)
    BY <1>0, <1>1 DEF PutIn, Maybe
  <2>2. AddTo(map, g, 1) = [map EXCEPT ![g] = <<1>>]
    BY <1>1 DEF AddTo
  <2>. QED  BY <2>1, <2>2
<1>2. CASE map[g] # NoValue
  <2> DEFINE sum == map[g][1] + 1
  <2>1. PutIn(map, g, 1) = [map EXCEPT ![g] = <<sum>>] /\ sum \in Fitting
    BY <1>2 DEF PutIn, PutFits
  <2>2. AddTo(map, g, 1) = [map EXCEPT ![g] = <<Wrap(sum)>>] /\ Wrap(sum) = sum
    BY <1>2, <2>1, WrapFits DEF AddTo
  <2> HIDE DEF sum
  <2>3. <<sum>> \in Maybe(Fitting)
    BY <2>1 DEF Maybe
  <2>. QED  BY <2>1, <2>2, <2>3
<1>. QED  BY <1>1, <1>2

LEMMA TagAlike ==
    ASSUME NEW l \in Loops, NEW s \in State, s.ok, NEW tag, tag[1] = "str" => tag[2] \in Tag,
           CountTag(s, l, tag).ok, NEW a \in Accs, SameTags(l, s.env, a)
    PROVE  TagsAlike(l, s, a, CountTag(s, l, tag), AddTag(a, tag))
<1> DEFINE e == s.env
           g == tag[2]
           counts == PutIn(e.counts, g, 1)
           tags == IF l.tags /\ e.counts[g] = NoValue THEN Append(e.tags, g) ELSE e.tags
           mine == IF a.counts[g] = NoValue THEN Append(a.tags, g) ELSE a.tags
           e2 == [e EXCEPT !.counts = counts, !.tags = tags]
           t == CountTag(s, l, tag)
           b == [a EXCEPT !.counts = counts, !.tags = mine]
<1>1. tag[1] = "str" /\ g \in Tag /\ PutFits(e.counts, g, 1) /\ t = [s EXCEPT !.env = e2]
  <2>1. TagPut(l, e, g) = e2
    BY Zenon DEF TagPut
  <2>2. tag[1] = "str" /\ PutFits(e.counts, g, 1) /\ t = [s EXCEPT !.env = TagPut(l, e, g)]
    BY CountTagIs
  <2> HIDE DEF e2, t
  <2>. QED  BY <2>1, <2>2
<1>2. e \in Variables /\ e.counts = a.counts /\ (l.tags => e.tags = a.tags) /\ l.tags \in BOOLEAN
  BY LoopsAssumption DEF State, SameTags
<1>3. e.counts \in [Tag -> Maybe(Fitting)] /\ e.tags \in Seq(Tag) /\ a.tags \in Seq(Tag)
  BY <1>2 DEF Variables, Accs
<1>4. counts \in [Tag -> Maybe(Fitting)] /\ AddTo(a.counts, g, 1) = counts /\ tags \in Seq(Tag) /\ mine \in Seq(Tag)
  BY <1>1, <1>2, <1>3, PutTagIs
<1>5. (l.tags => tags = mine) /\ (~l.tags => tags = e.tags)
  BY <1>2
<1>6. AddTag(a, tag) = Value(b)
  BY <1>1, <1>4 DEF AddTag
<1>7. /\ e2 \in Variables /\ OnlyTags(l, e, e2) /\ e2.counts = counts /\ e2.tags = tags
  <2> HIDE DEF counts, tags
  <2>. QED  BY <1>2, <1>4, <1>5 DEF Variables, OnlyTags
<1>8. b \in Accs /\ OnlyCounts(a, b) /\ b.counts = counts /\ b.tags = mine
  <2> HIDE DEF counts, mine
  <2>. QED  BY <1>4 DEF Accs, OnlyCounts
<1>9. t \in State /\ t.ok /\ t.env = e2
  <2>1. e2 \in Variables /\ t = [s EXCEPT !.env = e2]
    BY <1>1, <1>7
  <2> HIDE DEF e2, t
  <2>. QED  BY <2>1 DEF State
<1>10. SameTags(l, e2, b)
  <2> HIDE DEF counts, tags, mine, e2, b
  <2>. QED  BY <1>5, <1>7, <1>8 DEF SameTags
<1>11. Value(b).ok /\ Value(b).value = b
  BY DEF Value
<1> HIDE DEF t, e2, b
<1>12. TagsAlike(l, s, a, t, Value(b))
  BY <1>7, <1>8, <1>9, <1>10, <1>11, Zenon DEF TagsAlike
<1>. QED  BY <1>6, <1>12, Zenon DEF t

LEMMA TagsOn ==
    ASSUME NEW l \in Loops, NEW s, NEW a, NEW t, NEW r, NEW t2, NEW r2,
           TagsAlike(l, s, a, t, r), TagsAlike(l, t, r.value, t2, r2)
    PROVE  TagsAlike(l, s, a, t2, r2)
<1>1. OnlyTags(l, s.env, t2.env)
  BY DEF TagsAlike, OnlyTags
<1>2. OnlyCounts(a, r2.value)
  BY DEF TagsAlike, OnlyCounts
<1>. QED  BY <1>1, <1>2 DEF TagsAlike

LEMMA AllTagsAlike ==
    ASSUME NEW l \in Loops, NEW s \in State, s.ok, NEW tags, Tags(tags),
           Counted(l, s, tags).ok, NEW a \in Accs, SameTags(l, s.env, a)
    PROVE  TagsAlike(l, s, a, Counted(l, s, tags), AddTags(a, tags))
<1>0. Len(tags) \in Nat /\ \A k \in 1..Len(tags) : tags[k][1] = "str" => tags[k][2] \in Tag
  BY DEF Tags
<1> DEFINE n == Len(tags)
<1>1. PICK f : Done(f, OfCounts(l), s, tags, n) /\ Counted(l, s, tags) = f[n]
  BY <1>0, TagsAreCounted
<1>2. PICK g : Done(g, OfTags, Value(a), tags, n) /\ AddTags(a, tags) = g[n]
  BY <1>0, TagsAreAdded
<1>3. f[0] = s /\ \A k \in 0..(n - 1) : f[k + 1] = Doing(OfCounts(l), f[k], tags[k + 1])
  BY <1>0, <1>1, DoneIs
<1>4. g[0] = Value(a) /\ \A k \in 0..(n - 1) : g[k + 1] = Doing(OfTags, g[k], tags[k + 1])
  BY <1>0, <1>2, DoneIs
<1>5. \A k \in 0..n : f[k].ok
  BY <1>0, <1>1, DoneWell
<1> DEFINE S == {k \in Nat : TagsAlike(l, s, a, f[k], g[k])}
<1>6. 0 \in S
  <2>1. Value(a).ok /\ Value(a).value = a /\ OnlyTags(l, s.env, s.env) /\ OnlyCounts(a, a)
    BY DEF Value, OnlyTags, OnlyCounts
  <2>. QED  BY <1>3, <1>4, <2>1 DEF TagsAlike
<1>7. ASSUME NEW k \in 0..(n - 1), k \in S PROVE k + 1 \in S
  <2>1. TagsAlike(l, s, a, f[k], g[k]) /\ k + 1 \in Nat /\ k + 1 \in 0..n /\ k + 1 \in 1..n
    BY <1>0, <1>7
  <2>2. f[k].ok /\ g[k].ok /\ f[k] \in State /\ g[k].value \in Accs /\ SameTags(l, f[k].env, g[k].value)
    BY <2>1 DEF TagsAlike
  <2>3. f[k + 1] = CountTag(f[k], l, tags[k + 1])
    <3>1. f[k + 1] = Do(OfCounts(l), f[k], tags[k + 1])
      BY <1>3, <2>2 DEF Doing
    <3>. QED  BY <3>1 DEF Do, OfCounts
  <2>4. g[k + 1] = AddTag(g[k].value, tags[k + 1])
    <3>1. g[k + 1] = Do(OfTags, g[k], tags[k + 1])
      BY <1>4, <2>2 DEF Doing
    <3>. QED  BY <3>1 DEF Do, OfTags
  <2>5. CountTag(f[k], l, tags[k + 1]).ok /\ (tags[k + 1][1] = "str" => tags[k + 1][2] \in Tag)
    BY <1>0, <1>5, <2>1, <2>3
  <2>6. TagsAlike(l, f[k], g[k].value, f[k + 1], g[k + 1])
    BY <2>2, <2>3, <2>4, <2>5, TagAlike
  <2>. QED  BY <2>1, <2>6, TagsOn
<1> HIDE DEF S
<1>8. n \in 0..n
  BY <1>0
<1>9. n \in S
  BY <1>0, <1>6, <1>7, <1>8, UpTo
<1>. QED  BY <1>1, <1>2, <1>9 DEF S

LEMMA TagsAreText ==
    ASSUME NEW tags, Len(tags) \in Nat, NEW a, AddTags(a, tags).ok
    PROVE  \A k \in 1..Len(tags) : tags[k][1] = "str"
<1> DEFINE n == Len(tags)
<1>2. PICK g : Done(g, OfTags, Value(a), tags, n) /\ AddTags(a, tags) = g[n]
  BY TagsAreAdded
<1>4. \A k \in 0..(n - 1) : g[k + 1] = Doing(OfTags, g[k], tags[k + 1])
  BY <1>2, DoneIs
<1>5. \A k \in 0..n : g[k].ok
  BY <1>2, DoneWell
<1>6. ASSUME NEW k \in 1..n PROVE tags[k][1] = "str"
  <2>1. k - 1 \in 0..(n - 1) /\ k - 1 \in 0..n /\ k \in 0..n /\ (k - 1) + 1 = k
    OBVIOUS
  <2>2. g[k - 1].ok /\ g[k].ok /\ g[k] = Doing(OfTags, g[k - 1], tags[k])
    BY <1>4, <1>5, <2>1
  <2>3. g[k] = AddTag(g[k - 1].value, tags[k])
    <3>1. g[k] = Do(OfTags, g[k - 1], tags[k])
      BY <2>2 DEF Doing
    <3>. QED  BY <3>1 DEF Do, OfTags
  <2>4. ~Fail.ok
    BY DEF Fail
  <2>. QED  BY <2>2, <2>3, <2>4 DEF AddTag
<1>. QED  BY <1>6

-----------------------------------------------------------------------------
(* A row: what a body leaves, statement by statement. *)
InRecords(l) == l.shape \in {"nested", "init_then_add"}

LEMMA BodiesAre ==
    ASSUME NEW l \in Loops, MatchedBody(l)
    PROVE  LET body == BodyOf(l)
           IN /\ Len(body) = (IF l.count THEN 6 ELSE 5) /\ body[1] = "user" /\ body[Len(body)] = "each_tag"
              /\ InRecords(l) => body[2] = "zero" /\ body[3] = "add_amount" /\ body[4] = "add_items"
              /\ ~InRecords(l) =>
                   body[2] = "amount" /\ body[4] = "update"
                   /\ body[3] = (IF HotJsonlAggregationBody(l.shape).counted THEN "one" ELSE "items")
              /\ l.count => body[5] = "count"
<1>1. l.shape \in Shapes /\ l.count \in BOOLEAN
  BY LoopsAssumption
<1>2. CASE l.shape = "direct"
  <2>1. BodyOf(l) = <<"user", "amount", "items", "update", "each_tag">>
    BY <1>2 DEF BodyOf, match_direct
  <2>. QED  BY <1>1, <1>2, <2>1 DEF MatchedBody, InRecords, HotJsonlAggregationBody
<1>3. CASE l.shape = "nested"
  <2>1. BodyOf(l) = <<"user", "zero", "add_amount", "add_items", "each_tag">>
    BY <1>3 DEF BodyOf, match_nested_totals
  <2>. QED  BY <1>1, <1>3, <2>1 DEF MatchedBody, InRecords, HotJsonlAggregationBody
<1>4. CASE l.shape = "required"
  <2>2. BodyOf(l) = IF l.count THEN <<"user", "amount", "items", "update", "count", "each_tag">>
                    ELSE <<"user", "amount", "items", "update", "each_tag">>
    BY <1>4 DEF BodyOf, match_required_prefixed, Counting
  <2>3. ~HotJsonlAggregationBody(l.shape).counted /\ ~InRecords(l)
    BY <1>1, <1>4 DEF InRecords, HotJsonlAggregationBody
  <2>. QED  BY <1>1, <2>2, <2>3
<1>5. CASE l.shape = "init_then_add"
  <2>2. BodyOf(l) = IF l.count THEN <<"user", "zero", "add_amount", "add_items", "count", "each_tag">>
                    ELSE <<"user", "zero", "add_amount", "add_items", "each_tag">>
    BY <1>5 DEF BodyOf, match_init_then_add, Counting
  <2>. QED  BY <1>1, <1>5, <2>2 DEF MatchedBody, InRecords, HotJsonlAggregationBody
<1>6. CASE l.shape = "prefixed"
  <2>1. BodyOf(l) = <<"user", "amount", "items", "update", "each_tag">>
    BY <1>6 DEF BodyOf, match_prefixed
  <2>. QED  BY <1>1, <1>6, <2>1 DEF MatchedBody, InRecords, HotJsonlAggregationBody
<1>7. CASE l.shape = "prefixed_count"
  <2>1. BodyOf(l) = <<"user", "amount", "one", "update", "each_tag">>
    BY <1>7 DEF BodyOf, match_prefixed_count
  <2>2. HotJsonlAggregationBody(l.shape).counted /\ ~InRecords(l) /\ ~l.count
    BY <1>1, <1>7 DEF MatchedBody, InRecords, HotJsonlAggregationBody
  <2>. QED  BY <2>1, <2>2
<1>. QED  BY <1>1, <1>2, <1>3, <1>4, <1>5, <1>6, <1>7 DEF Shapes

LEMMA BodyRuns ==
    ASSUME NEW l \in Loops, MatchedBody(l), NEW e, NEW line, RunBody(l, e, line).ok
    PROVE  \E f : /\ f[0] = Started([e EXCEPT !.row = line]) /\ RunBody(l, e, line) = f[Len(BodyOf(l))]
                  /\ \A k \in 0..(Len(BodyOf(l)) - 1) :
                       f[k + 1].ok /\ f[k + 1] = Perform(l, line, f[k], BodyOf(l)[k + 1])
<1> DEFINE n == Len(BodyOf(l))
<1>0. n \in Nat
  BY BodiesAre
<1>1. PICK f : Done(f, OfBody(l, line), Started([e EXCEPT !.row = line]), BodyOf(l), n) /\ RunBody(l, e, line) = f[n]
  BY <1>0, BodyIsDone
<1>3. f[0] = Started([e EXCEPT !.row = line]) /\ \A k \in 0..(n - 1) : f[k + 1] = Doing(OfBody(l, line), f[k], BodyOf(l)[k + 1])
  BY <1>0, <1>1, DoneIs
<1>5. \A k \in 0..n : f[k].ok
  BY <1>0, <1>1, DoneWell
<1>6. ASSUME NEW k \in 0..(n - 1) PROVE f[k + 1].ok /\ f[k + 1] = Perform(l, line, f[k], BodyOf(l)[k + 1])
  <2>1. k \in 0..n /\ k + 1 \in 0..n
    BY <1>0
  <2>2. f[k + 1] = Do(OfBody(l, line), f[k], BodyOf(l)[k + 1])
    BY <1>3, <1>5, <2>1 DEF Doing
  <2>. QED  BY <1>5, <2>1, <2>2 DEF Do, OfBody
<1>. QED  BY <1>1, <1>3, <1>6

LEMMA ExecuteIs ==
    ASSUME NEW l, NEW s, NEW read
    PROVE  /\ Execute(l, s, "user", read) = [s EXCEPT !.env.user = <<read>>]
           /\ Execute(l, s, "amount", read) = [s EXCEPT !.amount = read]
           /\ Execute(l, s, "items", read) = [s EXCEPT !.items = read]
           /\ Execute(l, s, "one", read) = [s EXCEPT !.items = read]
           /\ Execute(l, s, "update", read) = execute_fused_map_update_if(s, l)
           /\ Execute(l, s, "add_amount", read) = Plus(s, "amounts", s.env.user[1], read)
           /\ Execute(l, s, "add_items", read) = Plus(s, "items", s.env.user[1], read)
           /\ Execute(l, s, "count", read) =
                IF s.env.total = NoValue \/ ~IntFits(s.env.total[1] + 1) THEN Stopped(s)
                ELSE [s EXCEPT !.env.total = <<s.env.total[1] + 1>>]
           /\ Execute(l, s, "each_tag", read) = Counted(l, s, read)
<1>1. Execute(l, s, "each_tag", read) = Counted(l, s, read)
  BY DEF Execute, Counted
<1>. QED  BY <1>1 DEF Execute

LEMMA ReadIs ==
    ASSUME NEW l, NEW line
    PROVE  /\ Read(l, line, "user") = get_user(l, line)
           /\ Read(l, line, "amount") = get_amount(l, line) /\ Read(l, line, "add_amount") = get_amount(l, line)
           /\ Read(l, line, "items") = get_items(l, line) /\ Read(l, line, "add_items") = get_items(l, line)
           /\ Read(l, line, "one") = Value(1) /\ Read(l, line, "each_tag") = get_tags(l, line)
  BY DEF Read

\* What each statement reads and does, when it does not fail.
LEMMA RowStatements ==
    ASSUME NEW l, NEW line, NEW s \in State
    PROVE  /\ Perform(l, line, s, "user").ok =>
                get_user(l, line).ok /\ s.env.declared /\ Perform(l, line, s, "user") = [s EXCEPT !.env.user = <<get_user(l, line).value>>]
           /\ Perform(l, line, s, "amount").ok =>
                get_amount(l, line).ok /\ s.env.declared /\ Perform(l, line, s, "amount") = [s EXCEPT !.amount = get_amount(l, line).value]
           /\ Perform(l, line, s, "items").ok =>
                get_items(l, line).ok /\ s.env.declared /\ Perform(l, line, s, "items") = [s EXCEPT !.items = get_items(l, line).value]
           /\ Perform(l, line, s, "one").ok =>
                s.env.declared /\ Perform(l, line, s, "one") = [s EXCEPT !.items = Value(1).value]
           /\ Perform(l, line, s, "update").ok =>
                s.env.declared /\ Perform(l, line, s, "update") = execute_fused_map_update_if(s, l)
           /\ Perform(l, line, s, "add_amount").ok =>
                get_amount(l, line).ok /\ s.env.declared /\ Perform(l, line, s, "add_amount") = Plus(s, "amounts", s.env.user[1], get_amount(l, line).value)
           /\ Perform(l, line, s, "add_items").ok =>
                get_items(l, line).ok /\ s.env.declared /\ Perform(l, line, s, "add_items") = Plus(s, "items", s.env.user[1], get_items(l, line).value)
           /\ Perform(l, line, s, "each_tag").ok =>
                get_tags(l, line).ok /\ s.env.declared /\ Perform(l, line, s, "each_tag") = Counted(l, s, get_tags(l, line).value)
<1>1. ASSUME Perform(l, line, s, "user").ok
      PROVE  get_user(l, line).ok /\ s.env.declared /\ Perform(l, line, s, "user") = [s EXCEPT !.env.user = <<get_user(l, line).value>>]
  <2> DEFINE read == Read(l, line, "user")
  <2>1. read.ok /\ s.env.declared /\ Perform(l, line, s, "user") = Execute(l, s, "user", read.value)
    BY <1>1, PerformIs
  <2>2. read = get_user(l, line)
    BY ReadIs
  <2>3. Execute(l, s, "user", read.value) = [s EXCEPT !.env.user = <<read.value>>]
    BY ExecuteIs
  <2>. QED  BY <2>1, <2>2, <2>3, Zenon
<1>2. ASSUME Perform(l, line, s, "amount").ok
      PROVE  get_amount(l, line).ok /\ s.env.declared /\ Perform(l, line, s, "amount") = [s EXCEPT !.amount = get_amount(l, line).value]
  <2> DEFINE read == Read(l, line, "amount")
  <2>1. read.ok /\ s.env.declared /\ Perform(l, line, s, "amount") = Execute(l, s, "amount", read.value)
    BY <1>2, PerformIs
  <2>2. read = get_amount(l, line)
    BY ReadIs
  <2>3. Execute(l, s, "amount", read.value) = [s EXCEPT !.amount = read.value]
    BY ExecuteIs
  <2>. QED  BY <2>1, <2>2, <2>3, Zenon
<1>3. ASSUME Perform(l, line, s, "items").ok
      PROVE  get_items(l, line).ok /\ s.env.declared /\ Perform(l, line, s, "items") = [s EXCEPT !.items = get_items(l, line).value]
  <2> DEFINE read == Read(l, line, "items")
  <2>1. read.ok /\ s.env.declared /\ Perform(l, line, s, "items") = Execute(l, s, "items", read.value)
    BY <1>3, PerformIs
  <2>2. read = get_items(l, line)
    BY ReadIs
  <2>3. Execute(l, s, "items", read.value) = [s EXCEPT !.items = read.value]
    BY ExecuteIs
  <2>. QED  BY <2>1, <2>2, <2>3, Zenon
<1>4. ASSUME Perform(l, line, s, "one").ok
      PROVE  s.env.declared /\ Perform(l, line, s, "one") = [s EXCEPT !.items = Value(1).value]
  <2> DEFINE read == Read(l, line, "one")
  <2>1. read.ok /\ s.env.declared /\ Perform(l, line, s, "one") = Execute(l, s, "one", read.value)
    BY <1>4, PerformIs
  <2>2. read = Value(1)
    BY ReadIs
  <2>3. Execute(l, s, "one", read.value) = [s EXCEPT !.items = read.value]
    BY ExecuteIs
  <2>. QED  BY <2>1, <2>2, <2>3, Zenon
<1>5. ASSUME Perform(l, line, s, "update").ok
      PROVE  s.env.declared /\ Perform(l, line, s, "update") = execute_fused_map_update_if(s, l)
  <2> DEFINE read == Read(l, line, "update")
  <2>1. read.ok /\ s.env.declared /\ Perform(l, line, s, "update") = Execute(l, s, "update", read.value)
    BY <1>5, PerformIs
  <2>3. Execute(l, s, "update", read.value) = execute_fused_map_update_if(s, l)
    BY ExecuteIs
  <2>. QED  BY <2>1, <2>3, Zenon
<1>6. ASSUME Perform(l, line, s, "add_amount").ok
      PROVE  get_amount(l, line).ok /\ s.env.declared /\ Perform(l, line, s, "add_amount") = Plus(s, "amounts", s.env.user[1], get_amount(l, line).value)
  <2> DEFINE read == Read(l, line, "add_amount")
  <2>1. read.ok /\ s.env.declared /\ Perform(l, line, s, "add_amount") = Execute(l, s, "add_amount", read.value)
    BY <1>6, PerformIs
  <2>2. read = get_amount(l, line)
    BY ReadIs
  <2>3. Execute(l, s, "add_amount", read.value) = Plus(s, "amounts", s.env.user[1], read.value)
    BY ExecuteIs
  <2>. QED  BY <2>1, <2>2, <2>3, Zenon
<1>7. ASSUME Perform(l, line, s, "add_items").ok
      PROVE  get_items(l, line).ok /\ s.env.declared /\ Perform(l, line, s, "add_items") = Plus(s, "items", s.env.user[1], get_items(l, line).value)
  <2> DEFINE read == Read(l, line, "add_items")
  <2>1. read.ok /\ s.env.declared /\ Perform(l, line, s, "add_items") = Execute(l, s, "add_items", read.value)
    BY <1>7, PerformIs
  <2>2. read = get_items(l, line)
    BY ReadIs
  <2>3. Execute(l, s, "add_items", read.value) = Plus(s, "items", s.env.user[1], read.value)
    BY ExecuteIs
  <2>. QED  BY <2>1, <2>2, <2>3, Zenon
<1>8. ASSUME Perform(l, line, s, "each_tag").ok
      PROVE  get_tags(l, line).ok /\ s.env.declared /\ Perform(l, line, s, "each_tag") = Counted(l, s, get_tags(l, line).value)
  <2> DEFINE read == Read(l, line, "each_tag")
  <2>1. read.ok /\ s.env.declared /\ Perform(l, line, s, "each_tag") = Execute(l, s, "each_tag", read.value)
    BY <1>8, PerformIs
  <2>2. read = get_tags(l, line)
    BY ReadIs
  <2>3. Execute(l, s, "each_tag", read.value) = Counted(l, s, read.value)
    BY ExecuteIs
  <2>. QED  BY <2>1, <2>2, <2>3, Zenon
<1>. QED  BY <1>1, <1>2, <1>3, <1>4, <1>5, <1>6, <1>7, <1>8, Zenon

Seen(e, line, u) == [e EXCEPT !.row = line, !.user = <<u>>]
AllKnown(e) == \A u \in User : Known(e, u)

LEMMA SeenIs ==
    ASSUME NEW e \in Variables, NEW line \in Lines, NEW u \in User
    PROVE  LET s == Seen(e, line, u)
           IN /\ s \in Variables /\ s.user = <<u>> /\ s.row = line /\ s.declared = e.declared
              /\ s.amounts = e.amounts /\ s.items = e.items /\ s.users = e.users
              /\ s.counts = e.counts /\ s.tags = e.tags /\ s.total = e.total
<1>1. <<u>> \in Maybe(User)
  BY DEF Maybe
<1>. QED  BY <1>1 DEF Variables, Seen

\* The first four statements: the user, and what is added for it.
LEMMA FourStatements ==
    ASSUME NEW l \in Loops, MatchedBody(l), NEW e \in Variables, AllKnown(e), NEW line \in Lines,
           NEW f, f[0] = Started([e EXCEPT !.row = line]),
           \A k \in 0..(Len(BodyOf(l)) - 1) : f[k + 1].ok /\ f[k + 1] = Perform(l, line, f[k], BodyOf(l)[k + 1])
    PROVE  LET u == get_user(l, line).value
               a == get_amount(l, line).value
               i == get_items(l, line).value
           IN /\ get_user(l, line).ok /\ get_amount(l, line).ok /\ get_items(l, line).ok
              /\ u \in User /\ a \in Fitting /\ i \in Fitting /\ e.declared
              /\ TalliesWell(l, Seen(e, line, u), u, a, i)
              /\ f[4] \in State /\ f[4].ok /\ f[4].env = Tally(l, Seen(e, line, u), u, a, i)
<1> DEFINE u == get_user(l, line).value
           a == get_amount(l, line).value
           i == get_items(l, line).value
           body == BodyOf(l)
           seen == Seen(e, line, u)
<1>0. Len(body) = (IF l.count THEN 6 ELSE 5)
  BY BodiesAre
<1>1. /\ f[1].ok /\ f[1] = Perform(l, line, f[0], body[1]) /\ f[2].ok /\ f[2] = Perform(l, line, f[1], body[2])
      /\ f[3].ok /\ f[3] = Perform(l, line, f[2], body[3]) /\ f[4].ok /\ f[4] = Perform(l, line, f[3], body[4])
  <2>1. 0 \in 0..(Len(body) - 1) /\ 1 \in 0..(Len(body) - 1) /\ 2 \in 0..(Len(body) - 1) /\ 3 \in 0..(Len(body) - 1)
    BY <1>0
  <2>2. 0 + 1 = 1 /\ 1 + 1 = 2 /\ 2 + 1 = 3 /\ 3 + 1 = 4
    OBVIOUS
  <2>. QED  BY <2>1, <2>2
<1> DEFINE e0 == [e EXCEPT !.row = line]
<1>2. e0 \in Variables /\ f[0] = Started(e0) /\ f[0] \in State /\ f[0].env = e0
  <2>1. e0 \in Variables
    BY DEF Variables
  <2> HIDE DEF e0
  <2>2. f[0] = Started(e0)
    BY DEF e0
  <2>. QED  BY <2>1, <2>2, StartedIs
<1>3. get_user(l, line).ok /\ u \in User /\ e.declared /\ f[1] = [f[0] EXCEPT !.env.user = <<u>>]
  <2>1. body[1] = "user"
    BY BodiesAre
  <2>3. e0.declared = e.declared
    BY DEF Variables
  <2>4. get_user(l, line).ok /\ f[1] = [f[0] EXCEPT !.env.user = <<u>>]
    BY <1>1, <1>2, <2>1, RowStatements
  <2>5. f[0].env.declared
    BY <1>1, <1>2, <2>1, RowStatements
  <2>. QED  BY <1>2, <2>3, <2>4, <2>5, ReadsAre
<1>4. f[1] \in State /\ f[1].env = seen /\ seen \in Variables /\ seen.user = <<u>> /\ Known(seen, u)
  <2>1. seen \in Variables /\ seen.user = <<u>> /\ seen.amounts = e.amounts /\ seen.items = e.items
    BY <1>3, SeenIs
  <2>2. seen = [e0 EXCEPT !.user = <<u>>]
    BY DEF Seen, Variables
  <2>3. Known(seen, u)
    BY <1>3, <2>1 DEF AllKnown, Known
  <2> HIDE DEF seen, e0, u
  <2>4. f[1] = [f[0] EXCEPT !.env = seen]
    BY <1>2, <1>3, <2>2 DEF State, Variables
  <2>. QED  BY <1>2, <2>1, <2>3, <2>4 DEF State
<1>5. CASE ~InRecords(l)
  <2>1. /\ body[2] = "amount" /\ body[4] = "update"
        /\ body[3] = (IF HotJsonlAggregationBody(l.shape).counted THEN "one" ELSE "items")
    BY <1>5, BodiesAre
  <2>2. get_amount(l, line).ok /\ f[2] = [f[1] EXCEPT !.amount = a]
    BY <1>1, <1>4, <2>1, RowStatements
  <2>3. a \in Fitting
    BY <2>2, ReadsAre
  <2>4. f[2] \in State /\ f[2].env = seen /\ f[2].amount = a
    <3> HIDE DEF a, seen
    <3>. QED  BY <1>4, <2>2, <2>3 DEF State
  <2>5. get_items(l, line).ok /\ f[3] = [f[2] EXCEPT !.items = i]
    <3>1. CASE HotJsonlAggregationBody(l.shape).counted
      <4>1. f[3] = [f[2] EXCEPT !.items = Value(1).value]
        BY <1>1, <2>1, <2>4, <3>1, RowStatements
      <4>2. get_items(l, line) = Value(1)
        BY <3>1 DEF get_items
      <4>3. Value(1).ok
        BY DEF Value
      <4>. QED  BY <4>1, <4>2, <4>3
    <3>2. CASE ~HotJsonlAggregationBody(l.shape).counted
      <4>. QED  BY <1>1, <2>1, <2>4, <3>2, RowStatements
    <3>. QED  BY <3>1, <3>2
  <2>6. i \in Fitting
    BY <2>5, ReadsAre
  <2>7. f[3] \in State /\ f[3].env = seen /\ f[3].amount = a /\ f[3].items = i
    <3> HIDE DEF a, i, seen
    <3>. QED  BY <2>4, <2>5, <2>6 DEF State
  <2>8. f[4] = execute_fused_map_update_if(f[3], l)
    BY <1>1, <2>1, <2>7, RowStatements
  <2>9. TalliesWell(l, seen, u, a, i) /\ f[4] = [f[3] EXCEPT !.env = Tally(l, seen, u, a, i)]
    <3> HIDE DEF a, i, seen, u
    <3>1. f[3].env.user = <<u>> /\ Known(f[3].env, u) /\ execute_fused_map_update_if(f[3], l).ok /\ u \in User
      BY <1>1, <1>3, <1>4, <2>7, <2>8
    <3>. QED  BY <2>7, <2>8, <3>1, UpdateTallies
  <2>10. f[4] \in State /\ f[4].env = Tally(l, seen, u, a, i)
    <3>1. Tally(l, seen, u, a, i) \in Variables
      BY <2>9 DEF TalliesWell
    <3> HIDE DEF a, i, seen, u
    <3>. QED  BY <2>7, <2>9, <3>1 DEF State
  <2>. QED  BY <1>1, <1>3, <2>2, <2>3, <2>5, <2>6, <2>9, <2>10
<1>6. CASE InRecords(l)
  <2>1. body[2] = "zero" /\ body[3] = "add_amount" /\ body[4] = "add_items" /\ ~l.users
    BY <1>6, BodiesAre DEF MatchedBody, InRecords
  <2> DEFINE any == Read(l, line, "zero").value
             z == Execute(l, f[1], "zero", any)
             p == Plus(z, "amounts", u, a)
  <2>2. f[2] = z
    BY <1>1, <1>4, <2>1, PerformIs
  <2>3. z \in State /\ z.env.user = <<u>>
    <3>1. f[1].env.user = <<u>> /\ Known(f[1].env, u) /\ f[1] \in State /\ u \in User
      BY <1>3, <1>4
    <3> HIDE DEF u, any
    <3> HIDE DEF z
    <3>2. StaysZeroed(l, f[1], u)
      BY <3>1, ZeroStays
    <3>. QED  BY <3>2, Zenon DEF StaysZeroed, z
  <2>4. get_amount(l, line).ok /\ f[3] = p
    <3>1. f[2] \in State /\ f[2].env.user[1] = u
      BY <2>2, <2>3
    <3>3. get_amount(l, line).ok /\ f[3] = Plus(f[2], "amounts", f[2].env.user[1], a)
      BY <1>1, <2>1, <3>1, RowStatements
    <3>. QED  BY <2>2, <3>1, <3>3
  <2>5. a \in Fitting
    BY <2>4, ReadsAre
  <2>6. p \in State /\ p.env.user = <<u>>
    <3> HIDE DEF z, a, u
    <3>1. p.ok
      BY <1>1, <2>4
    <3>2. p = [z EXCEPT !.env = [z.env EXCEPT !.amounts = PutIn(z.env.amounts, u, a)]] /\ p \in State
      BY <1>3, <2>3, <2>5, <3>1, PlusIs DEF u
    <3>3. p.env.user = z.env.user
      BY <2>3, <3>2 DEF State, Variables
    <3>. QED  BY <2>3, <3>2, <3>3
  <2>7. get_items(l, line).ok /\ f[4] = Plus(p, "items", u, i)
    <3>1. f[3] \in State /\ f[3].env.user[1] = u
      BY <2>4, <2>6
    <3>3. get_items(l, line).ok /\ f[4] = Plus(f[3], "items", f[3].env.user[1], i)
      BY <1>1, <2>1, <3>1, RowStatements
    <3>. QED  BY <2>4, <3>1, <3>3
  <2>8. i \in Fitting
    BY <2>7, ReadsAre
  <2>9. TalliesWell(l, seen, u, a, i) /\ f[4] = [f[1] EXCEPT !.env = Tally(l, seen, u, a, i)]
    <3>1. p.ok /\ Plus(p, "items", u, i).ok /\ f[1].env.user = <<u>> /\ Known(f[1].env, u) /\ u \in User
      BY <1>1, <1>3, <1>4, <2>4, <2>7, Zenon
    <3> HIDE DEF a, i, seen, u, any
    <3>. QED  BY <1>4, <2>1, <2>5, <2>7, <2>8, <3>1, ZeroAddTallies
  <2>10. f[4] \in State /\ f[4].env = Tally(l, seen, u, a, i)
    <3>1. Tally(l, seen, u, a, i) \in Variables
      BY <2>9 DEF TalliesWell
    <3> HIDE DEF a, i, seen, u
    <3>. QED  BY <1>4, <2>9, <3>1 DEF State
  <2>. QED  BY <1>1, <1>3, <2>4, <2>5, <2>7, <2>8, <2>9, <2>10
<1>. QED  BY <1>5, <1>6

\* Before the tags of a row are counted.
Mid(l, e, line, u, a, i) ==
    IF l.count THEN [Tally(l, Seen(e, line, u), u, a, i) EXCEPT !.total = <<e.total[1] + 1>>]
    ELSE Tally(l, Seen(e, line, u), u, a, i)
MidIs(l, e, line, m) ==
    LET u == get_user(l, line).value
        a == get_amount(l, line).value
        i == get_items(l, line).value
    IN /\ FieldsRead(l, line) /\ e.declared
       /\ u \in User /\ a \in Fitting /\ i \in Fitting
       /\ TalliesWell(l, Seen(e, line, u), u, a, i)
       /\ l.count => e.total # NoValue /\ e.total[1] + 1 \in Fitting
       /\ m \in State /\ m.ok /\ m.env = Mid(l, e, line, u, a, i)

LEMMA TalliedTotal ==
    ASSUME NEW l \in Loops, NEW e \in Variables, NEW line \in Lines, NEW u \in User, NEW a, NEW i
    PROVE  Tally(l, Seen(e, line, u), u, a, i).total = e.total
<1> DEFINE s == Seen(e, line, u)
           amounts == PutIn(s.amounts, u, a)
           items == PutIn(s.items, u, i)
           users == IF l.users /\ s.amounts[u] = NoValue THEN Append(s.users, u) ELSE s.users
<1>1. s \in Variables /\ s.total = e.total
  BY SeenIs
<1>2. Tally(l, s, u, a, i) = [s EXCEPT !.amounts = amounts, !.items = items, !.users = users]
  BY Zenon DEF Tally
<1> HIDE DEF s, amounts, items, users
<1>. QED  BY <1>1, <1>2 DEF Variables, s

\* What is left by a body that does not fail.
LEMMA RowIs ==
    ASSUME NEW l \in Loops, MatchedBody(l), NEW e \in Variables, AllKnown(e), NEW line \in Lines,
           RunBody(l, e, line).ok
    PROVE  \E m : MidIs(l, e, line, m) /\ RunBody(l, e, line) = Counted(l, m, get_tags(l, line).value)
<1> DEFINE u == get_user(l, line).value
           a == get_amount(l, line).value
           i == get_items(l, line).value
           body == BodyOf(l)
           n == Len(body)
           tallied == Tally(l, Seen(e, line, u), u, a, i)
           tags == get_tags(l, line).value
<1>1. PICK f : /\ f[0] = Started([e EXCEPT !.row = line]) /\ RunBody(l, e, line) = f[n]
               /\ \A k \in 0..(n - 1) : f[k + 1].ok /\ f[k + 1] = Perform(l, line, f[k], body[k + 1])
  <2> HIDE DEF body
  <2>. QED  BY BodyRuns DEF body
<1>2. /\ get_user(l, line).ok /\ get_amount(l, line).ok /\ get_items(l, line).ok
      /\ u \in User /\ a \in Fitting /\ i \in Fitting /\ e.declared
      /\ TalliesWell(l, Seen(e, line, u), u, a, i)
      /\ f[4] \in State /\ f[4].ok /\ f[4].env = tallied
  BY <1>1, FourStatements
<1>3. n = (IF l.count THEN 6 ELSE 5) /\ body[n] = "each_tag" /\ (l.count => body[5] = "count")
  BY BodiesAre
<1>4. tallied \in Variables /\ tallied.total = e.total
  BY <1>2, TalliedTotal DEF TalliesWell
<1> HIDE DEF u, a, i, body, n, tallied, tags
<1>5. CASE l.count
  <2>1. 4 \in 0..(n - 1) /\ 5 \in 0..(n - 1) /\ 4 + 1 = 5 /\ 5 + 1 = 6 /\ n = 6
    BY <1>3, <1>5
  <2>2. f[5].ok /\ f[5] = Perform(l, line, f[4], "count") /\ f[6].ok /\ f[6] = Perform(l, line, f[5], "each_tag")
    BY <1>1, <1>3, <1>5, <2>1
  <2>3. e.total # NoValue /\ e.total[1] + 1 \in Fitting /\ f[5] = [f[4] EXCEPT !.env.total = <<e.total[1] + 1>>]
    <3>1. f[5] = Execute(l, f[4], "count", Read(l, line, "count").value) /\ ~Stopped(f[4]).ok
      BY <1>2, <2>2, PerformIs, StoppedIs
    <3>2. Execute(l, f[4], "count", Read(l, line, "count").value)
            = IF f[4].env.total = NoValue \/ ~IntFits(f[4].env.total[1] + 1) THEN Stopped(f[4])
              ELSE [f[4] EXCEPT !.env.total = <<f[4].env.total[1] + 1>>]
      BY ExecuteIs
    <3>. QED  BY <1>2, <1>4, <2>2, <3>1, <3>2 DEF IntFits
  <2> DEFINE sum == e.total[1] + 1
             e2 == [tallied EXCEPT !.total = <<sum>>]
  <2>4. e2 \in Variables
    <3>1. <<sum>> \in Maybe(Fitting)
      BY <2>3 DEF Maybe
    <3> HIDE DEF sum
    <3>. QED  BY <1>4, <3>1 DEF Variables
  <2>5. f[5] \in State /\ f[5].env = e2
    <3>1. f[5] = [f[4] EXCEPT !.env = e2]
      <4> HIDE DEF sum
      <4>. QED  BY <1>2, <2>3 DEF State, sum
    <3> HIDE DEF e2
    <3>. QED  BY <1>2, <2>4, <3>1 DEF State
  <2>6. f[5].env = Mid(l, e, line, u, a, i)
    BY <1>5, <2>5, Zenon DEF Mid, tallied
  <2>7. get_tags(l, line).ok /\ f[6] = Counted(l, f[5], tags)
    BY <2>2, <2>5, RowStatements DEF tags
  <2>8. MidIs(l, e, line, f[5])
    BY <1>2, <2>2, <2>3, <2>5, <2>6, <2>7 DEF MidIs, FieldsRead, u, a, i
  <2>. QED  BY <1>1, <2>1, <2>7, <2>8 DEF tags
<1>6. CASE ~l.count
  <2>1. 4 \in 0..(n - 1) /\ 4 + 1 = 5 /\ n = 5
    BY <1>3, <1>6
  <2>2. f[5].ok /\ f[5] = Perform(l, line, f[4], "each_tag")
    BY <1>1, <1>3, <1>6, <2>1
  <2>3. f[4].env = Mid(l, e, line, u, a, i)
    BY <1>2, <1>6, Zenon DEF Mid, tallied
  <2>4. get_tags(l, line).ok /\ f[5] = Counted(l, f[4], tags)
    BY <1>2, <2>2, RowStatements DEF tags
  <2>5. MidIs(l, e, line, f[4])
    BY <1>2, <1>6, <2>3, <2>4 DEF MidIs, FieldsRead, u, a, i
  <2>. QED  BY <1>1, <2>1, <2>4, <2>5 DEF tags
<1>. QED  BY <1>5, <1>6

-----------------------------------------------------------------------------
(* The same row in the kernel. *)
AddedTo(l, a, line) ==
    IF l.shape = "nested" THEN NestedTotals(l, a, line)
    ELSE IF l.vm THEN execute_hot_jsonl_vm_ops(l, a, line)
    ELSE execute_hot_jsonl_native_trace_body(l, a, line)
AgreeWith(l, e, a) ==
    /\ e.amounts = a.amounts /\ e.items = a.items /\ (l.users => e.users = a.users) /\ SameTags(l, e, a)

LEMMA AddToIs ==
    ASSUME NEW map \in [User -> Maybe(Fitting)], NEW u \in User, NEW n \in Fitting, PutFits(map, u, n)
    PROVE  /\ PutIn(map, u, n) \in [User -> Maybe(Fitting)] /\ AddTo(map, u, n) = PutIn(map, u, n)
           /\ map[u] = NoValue => [map EXCEPT ![u] = <<n>>] = PutIn(map, u, n)
<1>0. PutIn(map, u, n) \in [User -> Maybe(Fitting)]
  BY PutIs
<1>1. CASE map[u] = NoValue
  <2>1. PutIn(map, u, n) = [map EXCEPT ![u] = <<n>>] /\ AddTo(map, u, n) = [map EXCEPT ![u] = <<n>>]
    BY <1>1 DEF PutIn, AddTo
  <2>. QED  BY <1>0, <2>1
<1>2. CASE map[u] # NoValue
  <2> DEFINE sum == map[u][1] + n
  <2>1. PutIn(map, u, n) = [map EXCEPT ![u] = <<sum>>] /\ sum \in Fitting
    BY <1>2 DEF PutIn, PutFits
  <2>2. AddTo(map, u, n) = [map EXCEPT ![u] = <<Wrap(sum)>>] /\ Wrap(sum) = sum
    BY <1>2, <2>1, WrapFits DEF AddTo
  <2>. QED  BY <1>0, <1>2, <2>1, <2>2
<1>. QED  BY <1>1, <1>2

MidFields(l, e, line, m) ==
    LET u == get_user(l, line).value
        a == get_amount(l, line).value
        i == get_items(l, line).value
    IN /\ m.env \in Variables /\ m.env.declared = e.declared /\ m.env.row = line /\ m.env.user = <<u>>
       /\ m.env.amounts = PutIn(e.amounts, u, a) /\ m.env.items = PutIn(e.items, u, i)
       /\ m.env.users = (IF l.users /\ e.amounts[u] = NoValue THEN Append(e.users, u) ELSE e.users)
       /\ m.env.counts = e.counts /\ m.env.tags = e.tags
       /\ m.env.total = (IF l.count THEN <<e.total[1] + 1>> ELSE e.total)

LEMMA MidFieldsAre ==
    ASSUME NEW l \in Loops, NEW e \in Variables, NEW line \in Lines, NEW m, MidIs(l, e, line, m)
    PROVE  MidFields(l, e, line, m)
<1> DEFINE u == get_user(l, line).value
           a == get_amount(l, line).value
           i == get_items(l, line).value
           s == Seen(e, line, u)
           amounts == PutIn(s.amounts, u, a)
           items == PutIn(s.items, u, i)
           users == IF l.users /\ s.amounts[u] = NoValue THEN Append(s.users, u) ELSE s.users
           sum == <<e.total[1] + 1>>
           t == [s EXCEPT !.amounts = amounts, !.items = items, !.users = users]
<1>0. u \in User /\ m.env \in Variables /\ m.env = Mid(l, e, line, u, a, i)
  BY DEF MidIs, State
<1>1. /\ s \in Variables /\ s.user = <<u>> /\ s.row = line /\ s.declared = e.declared
      /\ s.amounts = e.amounts /\ s.items = e.items /\ s.users = e.users
      /\ s.counts = e.counts /\ s.tags = e.tags /\ s.total = e.total
  BY <1>0, SeenIs
<1>2. Tally(l, s, u, a, i) = t
  BY Zenon DEF Tally
<1>3. m.env = IF l.count THEN [t EXCEPT !.total = sum] ELSE t
  BY <1>0, <1>2, Zenon DEF Mid
<1>4. /\ m.env.declared = s.declared /\ m.env.row = s.row /\ m.env.user = s.user
      /\ m.env.amounts = amounts /\ m.env.items = items /\ m.env.users = users
      /\ m.env.counts = s.counts /\ m.env.tags = s.tags
      /\ m.env.total = (IF l.count THEN sum ELSE s.total)
  <2>1. s \in Variables
    BY <1>1
  <2> HIDE DEF s, amounts, items, users, sum
  <2>. QED  BY <1>3, <2>1 DEF Variables
<1>5. amounts = PutIn(e.amounts, u, a) /\ items = PutIn(e.items, u, i)
      /\ users = (IF l.users /\ e.amounts[u] = NoValue THEN Append(e.users, u) ELSE e.users)
  BY <1>1
<1> HIDE DEF s, amounts, items, users, sum, u, a, i, t
<1>6. MidFields(l, e, line, m)
  BY <1>0, <1>1, <1>4, <1>5 DEF MidFields, u, a, i, sum
<1>. QED  BY <1>6

\* The kernel has as much as the interpreter before the tags.
LEMMA AddedIs ==
    ASSUME NEW l \in Loops, MatchedBody(l), NEW e \in Variables, AllKnown(e), NEW line \in Lines,
           NEW totals \in Accs, AgreeWith(l, e, totals), NEW m, MidIs(l, e, line, m)
    PROVE  \E x \in Accs : AddedTo(l, totals, line) = AddTags(x, get_tags(l, line).value) /\ AgreeWith(l, m.env, x)
<1> DEFINE u == get_user(l, line).value
           a == get_amount(l, line).value
           i == get_items(l, line).value
           tags == get_tags(l, line).value
           amounts == PutIn(e.amounts, u, a)
           items == PutIn(e.items, u, i)
           known == totals.amounts[u] # NoValue
           With(users) == [totals EXCEPT !.amounts = amounts, !.items = items, !.users = users]
<1>1. /\ FieldsRead(l, line) /\ u \in User /\ a \in Fitting /\ i \in Fitting
      /\ PutFits(e.amounts, u, a) /\ PutFits(e.items, u, i)
  <2>1. Seen(e, line, u).amounts = e.amounts /\ Seen(e, line, u).items = e.items /\ u \in User
    BY SeenIs DEF MidIs
  <2>. QED  BY <2>1 DEF MidIs, TalliesWell
<1>2. /\ e.amounts \in [User -> Maybe(Fitting)] /\ e.items \in [User -> Maybe(Fitting)]
      /\ totals.amounts = e.amounts /\ totals.items = e.items /\ totals.users \in Seq(User)
      /\ l.users \in BOOLEAN
  BY LoopsAssumption DEF Variables, AgreeWith, Accs
<1>3. /\ amounts \in [User -> Maybe(Fitting)] /\ AddTo(e.amounts, u, a) = amounts
      /\ items \in [User -> Maybe(Fitting)] /\ AddTo(e.items, u, i) = items
      /\ e.items[u] = NoValue => [e.items EXCEPT ![u] = <<i>>] = items
  BY <1>1, <1>2, AddToIs
<1>4. known <=> e.items[u] # NoValue
  BY <1>1, <1>2 DEF AllKnown, Known
<1>5. ASSUME NEW users \in Seq(User),
             l.users => users = (IF known THEN totals.users ELSE Append(totals.users, u)),
             AddedTo(l, totals, line) = AddTags(With(users), tags)
      PROVE  \E x \in Accs : AddedTo(l, totals, line) = AddTags(x, tags) /\ AgreeWith(l, m.env, x)
  <2> DEFINE x == With(users)
  <2>1. /\ x \in Accs /\ x.amounts = amounts /\ x.items = items /\ x.users = users
        /\ x.counts = totals.counts /\ x.tags = totals.tags
    <3> HIDE DEF amounts, items
    <3>. QED  BY <1>3 DEF Accs
  <2>2. /\ m.env.amounts = amounts /\ m.env.items = items /\ m.env.counts = e.counts /\ m.env.tags = e.tags
        /\ m.env.users = (IF l.users /\ e.amounts[u] = NoValue THEN Append(e.users, u) ELSE e.users)
    <3>1. MidFields(l, e, line, m)
      BY MidFieldsAre
    <3>. QED  BY <3>1, Zenon DEF MidFields
  <2>3. AgreeWith(l, m.env, x)
    <3>1. (l.users => e.users = totals.users) /\ e.counts = totals.counts /\ (l.tags => e.tags = totals.tags)
      BY DEF AgreeWith, SameTags
    <3>2. l.users => m.env.users = users
      BY <1>2, <1>5, <2>2, <3>1
    <3> HIDE DEF x, amounts, items
    <3>. QED  BY <2>1, <2>2, <3>1, <3>2 DEF AgreeWith, SameTags
  <2> HIDE DEF x
  <2>. QED  BY <1>5, <2>1, <2>3 DEF x
<1>6. CASE l.shape = "nested"
  <2> DEFINE users == IF known THEN totals.users ELSE Append(totals.users, u)
  <2>1. AddedTo(l, totals, line) = AddTags(With(users), tags)
    <3>1. AddedTo(l, totals, line) = NestedTotals(l, totals, line)
      BY <1>6 DEF AddedTo
    <3>2. NestedTotals(l, totals, line)
            = AddTags([totals EXCEPT !.amounts = AddTo(@, u, a), !.items = AddTo(@, u, i),
                        !.users = IF totals.amounts[u] = NoValue THEN Append(@, u) ELSE @], tags)
      BY <1>1 DEF NestedTotals
    <3>3. (IF totals.amounts[u] = NoValue THEN Append(totals.users, u) ELSE totals.users) = users
      OBVIOUS
    <3> HIDE DEF amounts, items, users, u, a, i, tags
    <3>4. [totals EXCEPT !.amounts = AddTo(@, u, a), !.items = AddTo(@, u, i),
                         !.users = IF totals.amounts[u] = NoValue THEN Append(@, u) ELSE @] = With(users)
      BY <1>2, <1>3, <3>3 DEF Accs
    <3>. QED  BY <3>1, <3>2, <3>4
  <2>2. users \in Seq(User)
    BY <1>1, <1>2
  <2>3. l.users => users = (IF known THEN totals.users ELSE Append(totals.users, u))
    OBVIOUS
  <2> HIDE DEF users
  <2>. QED  BY <1>5, <2>1, <2>2, <2>3
<1>7. CASE l.shape # "nested" /\ l.vm
  <2> DEFINE users == IF l.users /\ totals.amounts[u] = NoValue THEN Append(totals.users, u) ELSE totals.users
  <2>1. AddedTo(l, totals, line) = AddTags(With(users), tags)
    <3>1. AddedTo(l, totals, line) = execute_hot_jsonl_vm_ops(l, totals, line)
      BY <1>7 DEF AddedTo
    <3>2. execute_hot_jsonl_vm_ops(l, totals, line)
            = AddTags([totals EXCEPT !.amounts = AddTo(@, u, a), !.items = AddTo(@, u, i),
                        !.users = IF l.users /\ totals.amounts[u] = NoValue THEN Append(@, u) ELSE @], tags)
      BY <1>1 DEF execute_hot_jsonl_vm_ops
    <3>3. (IF l.users /\ totals.amounts[u] = NoValue THEN Append(totals.users, u) ELSE totals.users) = users
      OBVIOUS
    <3> HIDE DEF amounts, items, users, u, a, i, tags
    <3>4. [totals EXCEPT !.amounts = AddTo(@, u, a), !.items = AddTo(@, u, i),
                         !.users = IF l.users /\ totals.amounts[u] = NoValue THEN Append(@, u) ELSE @] = With(users)
      BY <1>2, <1>3, <3>3 DEF Accs
    <3>. QED  BY <3>1, <3>2, <3>4
  <2>2. users \in Seq(User)
    BY <1>1, <1>2
  <2>3. l.users => users = (IF known THEN totals.users ELSE Append(totals.users, u))
    OBVIOUS
  <2> HIDE DEF users
  <2>. QED  BY <1>5, <2>1, <2>2, <2>3
<1>8. CASE l.shape # "nested" /\ ~l.vm
  <2> DEFINE users == IF known THEN totals.users ELSE Append(totals.users, u)
             its == IF known THEN AddTo(totals.items, u, i) ELSE [totals.items EXCEPT ![u] = <<i>>]
  <2>1. AddedTo(l, totals, line) = AddTags(With(users), tags)
    <3>1. AddedTo(l, totals, line) = execute_hot_jsonl_native_trace_body(l, totals, line)
      BY <1>8 DEF AddedTo
    <3>2. execute_hot_jsonl_native_trace_body(l, totals, line)
            = AddTags([totals EXCEPT !.amounts = AddTo(@, u, a), !.items = its, !.users = users], tags)
      BY <1>1, <1>2, <1>4 DEF execute_hot_jsonl_native_trace_body
    <3>3. its = items
      BY <1>2, <1>3, <1>4
    <3> HIDE DEF amounts, items, users, u, a, i, tags, its
    <3>4. [totals EXCEPT !.amounts = AddTo(@, u, a), !.items = its, !.users = users] = With(users)
      BY <1>2, <1>3, <3>3 DEF Accs
    <3>. QED  BY <3>1, <3>2, <3>4
  <2>2. users \in Seq(User)
    BY <1>1, <1>2
  <2>3. l.users => users = (IF known THEN totals.users ELSE Append(totals.users, u))
    OBVIOUS
  <2> HIDE DEF users
  <2>. QED  BY <1>5, <2>1, <2>2, <2>3
<1>. QED  BY <1>6, <1>7, <1>8

\* What is known of the variables after a row.
RowKept(l, e, line, t) ==
    /\ t \in Variables /\ t.declared /\ AllKnown(t)
    /\ t.row = line /\ t.user = <<get_user(l, line).value>>
    /\ (~l.users => t.users = e.users) /\ (~l.tags => t.tags = e.tags)
    /\ (~l.count => t.total = e.total)
    /\ (l.count => e.total # NoValue /\ e.total[1] + 1 \in Fitting /\ t.total = <<e.total[1] + 1>>)

LEMMA PutKnown ==
    ASSUME NEW map \in [User -> Maybe(Fitting)], NEW u \in User, NEW n, NEW v \in User
    PROVE  PutIn(map, u, n)[v] = NoValue <=> (v # u /\ map[v] = NoValue)
<1>1. CASE map[u] = NoValue
  <2>1. PutIn(map, u, n) = [map EXCEPT ![u] = <<n>>] /\ <<n>> # NoValue
    BY <1>1 DEF PutIn, NoValue
  <2>. QED  BY <2>1
<1>2. CASE map[u] # NoValue
  <2> DEFINE sum == map[u][1] + n
  <2>1. PutIn(map, u, n) = [map EXCEPT ![u] = <<sum>>] /\ <<sum>> # NoValue
    BY <1>2 DEF PutIn, NoValue
  <2> HIDE DEF sum
  <2>. QED  BY <2>1
<1>. QED  BY <1>1, <1>2

\* A row the interpreter runs, the kernel runs to the same end.
LEMMA RowAlike ==
    ASSUME NEW l \in Loops, MatchedBody(l), NEW e \in Variables, AllKnown(e), NEW line \in Lines,
           NEW totals \in Accs, AgreeWith(l, e, totals), RunBody(l, e, line).ok
    PROVE  LET t == RunBody(l, e, line).env
               r == AddedTo(l, totals, line)
           IN /\ r.ok /\ r.value \in Accs /\ AgreeWith(l, t, r.value) /\ RowKept(l, e, line, t)
<1> DEFINE u == get_user(l, line).value
           a == get_amount(l, line).value
           i == get_items(l, line).value
           tags == get_tags(l, line).value
           s == RunBody(l, e, line)
           r == AddedTo(l, totals, line)
<1>1. PICK m : MidIs(l, e, line, m) /\ s = Counted(l, m, tags)
  BY RowIs
<1>2. PICK x \in Accs : r = AddTags(x, tags) /\ AgreeWith(l, m.env, x)
  BY <1>1, AddedIs
<1>3. MidFields(l, e, line, m)
  BY <1>1, MidFieldsAre
<1>4. m \in State /\ m.ok /\ Tags(tags) /\ u \in User /\ e.declared
      /\ (l.count => e.total # NoValue /\ e.total[1] + 1 \in Fitting)
  <2>1. get_tags(l, line).ok
    BY <1>1 DEF MidIs, FieldsRead
  <2>. QED  BY <1>1, <2>1, ReadsAre DEF MidIs
<1>5. TagsAlike(l, m, x, s, r)
  <2>1. SameTags(l, m.env, x) /\ Counted(l, m, tags).ok
    BY <1>1, <1>2 DEF AgreeWith
  <2> HIDE DEF tags, s, r
  <2>2. TagsAlike(l, m, x, Counted(l, m, tags), AddTags(x, tags))
    BY <1>4, <2>1, AllTagsAlike
  <2>. QED  BY <1>1, <1>2, <2>2
<1> DEFINE t == s.env
<1>6. /\ t \in Variables /\ t.declared = m.env.declared /\ t.amounts = m.env.amounts /\ t.items = m.env.items
      /\ t.users = m.env.users /\ t.total = m.env.total /\ t.user = m.env.user /\ t.row = m.env.row
      /\ (~l.tags => t.tags = m.env.tags)
  <2> HIDE DEF s, r
  <2>. QED  BY <1>5 DEF TagsAlike, OnlyTags, State
<1>7. r.ok /\ r.value \in Accs /\ AgreeWith(l, t, r.value)
  <2> HIDE DEF r
  <2>1. r.ok /\ r.value \in Accs /\ OnlyCounts(x, r.value) /\ SameTags(l, t, r.value)
    BY <1>5 DEF TagsAlike
  <2> HIDE DEF s
  <2>. QED  BY <1>2, <1>6, <2>1 DEF AgreeWith, OnlyCounts
<1>8. AllKnown(t)
  <2>1. ASSUME NEW v \in User PROVE Known(t, v)
    <3>1. e.amounts \in [User -> Maybe(Fitting)] /\ e.items \in [User -> Maybe(Fitting)]
      BY DEF Variables
    <3>2. t.amounts = PutIn(e.amounts, u, a) /\ t.items = PutIn(e.items, u, i)
      BY <1>3, <1>6 DEF MidFields
    <3>3. /\ PutIn(e.amounts, u, a)[v] = NoValue <=> (v # u /\ e.amounts[v] = NoValue)
          /\ PutIn(e.items, u, i)[v] = NoValue <=> (v # u /\ e.items[v] = NoValue)
      BY <1>4, <3>1, PutKnown
    <3>4. Known(e, v)
      BY DEF AllKnown
    <3> HIDE DEF t, u, a, i
    <3>. QED  BY <3>2, <3>3, <3>4 DEF Known
  <2>. QED  BY <2>1 DEF AllKnown
<1>9. RowKept(l, e, line, t)
  <2>1. /\ m.env.declared = e.declared /\ m.env.row = line /\ m.env.user = <<u>> /\ m.env.tags = e.tags
        /\ m.env.users = (IF l.users /\ e.amounts[u] = NoValue THEN Append(e.users, u) ELSE e.users)
        /\ m.env.total = (IF l.count THEN <<e.total[1] + 1>> ELSE e.total)
    BY <1>3, Zenon DEF MidFields
  <2> HIDE DEF t
  <2>. QED  BY <1>4, <1>6, <1>8, <2>1 DEF RowKept
<1>. QED  BY <1>7, <1>9

\* A row the kernel adds has all its fields, and tags that are strings.
TagsAreStrings(tags) == \A k \in DOMAIN tags : tags[k][1] = "str"
LEMMA AddedReads ==
    ASSUME NEW l \in Loops, NEW line \in Lines, NEW totals, AddedTo(l, totals, line).ok
    PROVE  FieldsRead(l, line) /\ TagsAreStrings(get_tags(l, line).value)
<1> DEFINE tags == get_tags(l, line).value
           added == AddedTo(l, totals, line)
<1>1. FieldsRead(l, line) /\ \E x : added = AddTags(x, tags)
  <2>0. ~Fail.ok
    BY DEF Fail
  <2>1. CASE l.shape = "nested"
    <3>1. added = NestedTotals(l, totals, line)
      BY <2>1 DEF AddedTo
    <3> HIDE DEF added
    <3>2. FieldsRead(l, line)
      BY <2>0, <3>1 DEF NestedTotals, added
    <3>. QED  BY <3>1, <3>2, Zenon DEF NestedTotals
  <2>2. CASE l.shape # "nested" /\ l.vm
    <3>1. added = execute_hot_jsonl_vm_ops(l, totals, line)
      BY <2>2 DEF AddedTo
    <3> HIDE DEF added
    <3>2. FieldsRead(l, line)
      BY <2>0, <3>1 DEF execute_hot_jsonl_vm_ops, added
    <3>. QED  BY <3>1, <3>2, Zenon DEF execute_hot_jsonl_vm_ops
  <2>3. CASE l.shape # "nested" /\ ~l.vm
    <3>1. added = execute_hot_jsonl_native_trace_body(l, totals, line)
      BY <2>3 DEF AddedTo
    <3> DEFINE broken == totals.amounts[get_user(l, line).value] # NoValue /\ totals.items[get_user(l, line).value] = NoValue
    <3> HIDE DEF added
    <3>2. FieldsRead(l, line) /\ ~broken
      BY <2>0, <3>1 DEF execute_hot_jsonl_native_trace_body, added
    <3>. QED  BY <3>1, <3>2, Zenon DEF execute_hot_jsonl_native_trace_body
  <2>. QED  BY <2>1, <2>2, <2>3
<1>2. Len(tags) \in Nat /\ DOMAIN tags = 1..Len(tags)
  BY <1>1, ReadsAre DEF FieldsRead, Tags
<1>3. PICK x : added = AddTags(x, tags)
  BY <1>1
<1> HIDE DEF tags, added
<1>4. \A k \in 1..Len(tags) : tags[k][1] = "str"
  <2>1. AddTags(x, tags).ok
    BY <1>3 DEF added
  <2>. QED  BY <1>2, <2>1, TagsAreText
<1>. QED  BY <1>1, <1>2, <1>4 DEF tags, TagsAreStrings

-----------------------------------------------------------------------------
(* The rows of a file, and the files. *)
RowGoes(l, s, line) == IF l.text /\ line = BlankLine THEN s ELSE RunBody(l, s.env, line)

LEMMA RowsNext ==
    ASSUME NEW l, NEW e, NEW rows, NEW n \in Nat
    PROVE  /\ RowsBaseline(l, e, rows, 0) = Started(e)
           /\ RowsBaseline(l, e, rows, n + 1)
                = IF RowsBaseline(l, e, rows, n).ok THEN RowGoes(l, RowsBaseline(l, e, rows, n), rows[n + 1])
                  ELSE RowsBaseline(l, e, rows, n)
<1> DEFINE w == OfRows(l)
<1>1. PICK f : Done(f, w, Started(e), rows, n + 1) /\ RowsBaseline(l, e, rows, n + 1) = f[n + 1]
  BY n + 1 \in Nat, RowsAreDone
<1>2. PICK g : Done(g, w, Started(e), rows, n) /\ RowsBaseline(l, e, rows, n) = g[n]
  BY RowsAreDone
<1>3. PICK h : Done(h, w, Started(e), rows, 0) /\ RowsBaseline(l, e, rows, 0) = h[0]
  BY 0 \in Nat, RowsAreDone
<1>4. h[0] = Started(e)
  BY <1>3, 0 \in Nat, DoneIs
<1>5. g[n] = f[n]
  BY <1>1, <1>2, n + 1 \in Nat, n <= n + 1, DoneAgree
<1>6. f[n + 1] = Doing(w, f[n], rows[n + 1])
  <2>1. n \in 0..((n + 1) - 1) /\ n + 1 \in Nat
    OBVIOUS
  <2>. QED  BY <1>1, <2>1, DoneIs
<1>7. \A s : Do(w, s, rows[n + 1]) = RowGoes(l, s, rows[n + 1])
  BY DEF Do, OfRows, RowGoes
<1> HIDE DEF w
<1>. QED  BY <1>1, <1>2, <1>3, <1>4, <1>5, <1>6, <1>7 DEF Doing

LEMMA NextFile ==
    ASSUME NEW l, NEW e, NEW n \in Nat
    PROVE  /\ FilesBaseline(l, e, 0) = Started(e)
           /\ FilesBaseline(l, e, n).ok =>
                FilesBaseline(l, e, n + 1)
                  = RowsBaseline(l, FilesBaseline(l, e, n).env, l.files[n + 1], Len(l.files[n + 1]))
<1> DEFINE w == OfFiles(l)
           rows == l.files[n + 1]
<1>1. PICK f : Done(f, w, Started(e), l.files, n + 1) /\ FilesBaseline(l, e, n + 1) = f[n + 1]
  BY n + 1 \in Nat, FilesAreDone
<1>2. PICK g : Done(g, w, Started(e), l.files, n) /\ FilesBaseline(l, e, n) = g[n]
  BY FilesAreDone
<1>3. PICK h : Done(h, w, Started(e), l.files, 0) /\ FilesBaseline(l, e, 0) = h[0]
  BY 0 \in Nat, FilesAreDone
<1>4. h[0] = Started(e)
  BY <1>3, 0 \in Nat, DoneIs
<1>5. g[n] = f[n]
  BY <1>1, <1>2, n + 1 \in Nat, n <= n + 1, DoneAgree
<1>6. f[n + 1] = Doing(w, f[n], rows)
  <2>1. n \in 0..((n + 1) - 1) /\ n + 1 \in Nat
    OBVIOUS
  <2>. QED  BY <1>1, <2>1, DoneIs
<1>7. \A s : Do(w, s, rows) = RowsBaseline(l, s.env, rows, Len(rows))
  BY DEF Do, OfFiles
<1> HIDE DEF w
<1>. QED  BY <1>1, <1>2, <1>3, <1>4, <1>5, <1>6, <1>7 DEF Doing

\* A row that fails ends its file.
LEMMA RowsEnd ==
    ASSUME NEW l, NEW e, NEW rows, NEW m \in Nat, NEW n \in Nat, m <= n, RowsBaseline(l, e, rows, n).ok
    PROVE  RowsBaseline(l, e, rows, m).ok
<1> DEFINE w == OfRows(l)
<1>1. PICK f : Done(f, w, Started(e), rows, n) /\ RowsBaseline(l, e, rows, n) = f[n]
  BY RowsAreDone
<1>2. PICK g : Done(g, w, Started(e), rows, m) /\ RowsBaseline(l, e, rows, m) = g[m]
  BY RowsAreDone
<1>3. g[m] = f[m]
  BY <1>1, <1>2, DoneAgree
<1>4. m \in 0..n /\ f[n].ok
  BY <1>1
<1>5. f[m].ok
  <2> HIDE DEF w
  <2>. QED  BY <1>1, <1>4, DoneWell
<1>. QED  BY <1>2, <1>3, <1>5

-----------------------------------------------------------------------------
(* The rows so far. *)
Good(l, e) == e \in Variables /\ e.declared /\ AllKnown(e) /\ (l.count => e.total # NoValue)
Blank(l, line) == l.text /\ line = BlankLine
Latest(l, e, rows, n, t, k) ==
    /\ k \in 0..n /\ \A i \in (k + 1)..n : Blank(l, rows[i])
    /\ k = 0 => t.row = e.row /\ t.user = e.user
    /\ k # 0 => ~Blank(l, rows[k]) /\ t.row = rows[k] /\ t.user = <<get_user(l, rows[k]).value>>
RowsWell(l, e, rows, n, t) ==
    /\ Good(l, t)
    /\ (~l.users => t.users = e.users) /\ (~l.tags => t.tags = e.tags) /\ (~l.count => t.total = e.total)
    /\ (l.count => e.total[1] + n \in Fitting /\ t.total = <<e.total[1] + n>>)
    /\ \E k \in 0..n : Latest(l, e, rows, n, t, k)
RowsSoFar(l, e, rows, n) ==
    RowsBaseline(l, e, rows, n).ok /\ RowsWell(l, e, rows, n, RowsBaseline(l, e, rows, n).env)

LEMMA NoRows ==
    ASSUME NEW l \in Loops, NEW e, Good(l, e), NEW rows
    PROVE  RowsSoFar(l, e, rows, 0) /\ RowsBaseline(l, e, rows, 0).env = e
<1>1. RowsBaseline(l, e, rows, 0).ok /\ RowsBaseline(l, e, rows, 0).env = e
  <2>1. RowsBaseline(l, e, rows, 0) = Started(e)
    BY 0 \in Nat, RowsNext
  <2>. QED  BY <2>1, StartedIs DEF Good
<1>2. Latest(l, e, rows, 0, e, 0)
  BY DEF Latest
<1>3. l.count => e.total[1] + 0 \in Fitting /\ e.total = <<e.total[1] + 0>>
  <2> SUFFICES ASSUME l.count PROVE e.total[1] + 0 \in Fitting /\ e.total = <<e.total[1] + 0>>
    OBVIOUS
  <2>1. e.total \in Maybe(Fitting) /\ e.total # NoValue
    BY DEF Good, Variables
  <2>2. PICK k \in Fitting : e.total = <<k>>
    BY <2>1 DEF Maybe
  <2>3. k \in Int
    BY NumbersAssumption DEF Fitting
  <2>. QED  BY <2>2, <2>3
<1>4. RowsWell(l, e, rows, 0, e)
  BY <1>2, <1>3 DEF RowsWell
<1>. QED  BY <1>1, <1>4 DEF RowsSoFar

LEMMA BlankRow ==
    ASSUME NEW l \in Loops, ~l.count, NEW e, NEW rows, NEW n \in Nat,
           RowsSoFar(l, e, rows, n), Blank(l, rows[n + 1])
    PROVE  /\ RowsSoFar(l, e, rows, n + 1)
           /\ RowsBaseline(l, e, rows, n + 1).env = RowsBaseline(l, e, rows, n).env
<1> DEFINE s == RowsBaseline(l, e, rows, n)
           t == s.env
<1>1. RowsBaseline(l, e, rows, n + 1) = s /\ s.ok
  BY RowsNext DEF RowsSoFar, RowGoes, Blank
<1>2. PICK k \in 0..n : Latest(l, e, rows, n, t, k)
  BY DEF RowsSoFar, RowsWell
<1> HIDE DEF s
<1>3. Latest(l, e, rows, n + 1, t, k) /\ k \in 0..(n + 1)
  <2>1. \A i \in (k + 1)..(n + 1) : i \in (k + 1)..n \/ i = n + 1
    OBVIOUS
  <2>. QED  BY <1>2, <2>1 DEF Latest
<1>4. RowsWell(l, e, rows, n, t)
  BY DEF RowsSoFar, s
<1>5. RowsWell(l, e, rows, n + 1, t)
  BY <1>3, <1>4 DEF RowsWell
<1>. QED  BY <1>1, <1>5 DEF RowsSoFar, s

LEMMA NextRow ==
    ASSUME NEW l \in Loops, NEW e, Good(l, e), NEW rows, NEW n \in Nat, rows[n + 1] \in Lines,
           RowsSoFar(l, e, rows, n), ~Blank(l, rows[n + 1]),
           RunBody(l, RowsBaseline(l, e, rows, n).env, rows[n + 1]).ok,
           RowKept(l, RowsBaseline(l, e, rows, n).env, rows[n + 1],
                   RunBody(l, RowsBaseline(l, e, rows, n).env, rows[n + 1]).env)
    PROVE  /\ RowsSoFar(l, e, rows, n + 1)
           /\ RowsBaseline(l, e, rows, n + 1) = RunBody(l, RowsBaseline(l, e, rows, n).env, rows[n + 1])
<1> DEFINE s == RowsBaseline(l, e, rows, n)
           t == s.env
           line == rows[n + 1]
           s2 == RunBody(l, t, line)
           t2 == s2.env
<1>1. RowsBaseline(l, e, rows, n + 1) = s2 /\ s2.ok
  BY RowsNext DEF RowsSoFar, RowGoes, Blank
<1>2. RowsWell(l, e, rows, n, t) /\ RowKept(l, t, line, t2) /\ ~Blank(l, line)
  BY DEF RowsSoFar
<1> HIDE DEF s, t, s2, t2
<1>3. Latest(l, e, rows, n + 1, t2, n + 1) /\ n + 1 \in 0..(n + 1)
  BY <1>2 DEF RowKept, Latest
<1>4. l.count => e.total[1] + (n + 1) \in Fitting /\ t2.total = <<e.total[1] + (n + 1)>> /\ t2.total # NoValue
  <2> SUFFICES ASSUME l.count
               PROVE  e.total[1] + (n + 1) \in Fitting /\ t2.total = <<e.total[1] + (n + 1)>> /\ t2.total # NoValue
    OBVIOUS
  <2>1. t.total = <<e.total[1] + n>> /\ t.total[1] + 1 \in Fitting /\ t2.total = <<t.total[1] + 1>>
    BY <1>2 DEF RowsWell, RowKept
  <2>2. e.total[1] \in Int
    <3>1. e.total \in Maybe(Fitting) /\ e.total # NoValue
      BY DEF Good, Variables
    <3>2. PICK k \in Fitting : e.total = <<k>>
      BY <3>1 DEF Maybe
    <3>. QED  BY <3>2, NumbersAssumption DEF Fitting
  <2>3. t.total[1] + 1 = e.total[1] + (n + 1)
    BY <2>1, <2>2
  <2>. QED  BY <2>1, <2>3 DEF NoValue
<1>5. Good(l, t2)
  BY <1>2, <1>4 DEF RowKept, Good
<1>6. RowsWell(l, e, rows, n + 1, t2)
  BY <1>2, <1>3, <1>4, <1>5 DEF RowsWell, RowKept
<1>. QED  BY <1>1, <1>6 DEF RowsSoFar, s, t, s2, t2

-----------------------------------------------------------------------------
(* The kernel goes with the interpreter. *)
AtStart == FilesBaseline(loop, PassEntry, file - 1)
SoFar(n) == RowsBaseline(loop, AtStart.env, Rows, n)
SameVars(l, b, e) ==
    /\ b \in Variables /\ b.declared = e.declared /\ b.amounts = e.amounts /\ b.items = e.items
    /\ b.users = e.users /\ b.counts = e.counts /\ b.tags = e.tags /\ b.total = e.total /\ b.row = e.row
    /\ (~l.text => b.user = e.user)
Finished ==
    /\ next = Len(Rows) + 1 /\ acc \in Accs
    /\ RowsSoFar(loop, AtStart.env, Rows, Len(Rows)) /\ AgreeWith(loop, SoFar(Len(Rows)).env, acc)
    /\ bindings \in Variables /\ bindings.declared /\ bindings.row = SoFar(Len(Rows)).env.row
    /\ (~loop.text => bindings.user = SoFar(Len(Rows)).env.user)
    /\ bindings.total = AtStart.env.total
Stored == \E user \in Maybe(User), total \in Maybe(Fitting) :
              bindings = [SoFar(Len(Rows)).env EXCEPT !.user = user, !.total = total]
Ended ==
    /\ FilesBaseline(loop, PassEntry, file).ok /\ FilesBaseline(loop, PassEntry, file).env \in Variables
    /\ SameVars(loop, bindings, FilesBaseline(loop, PassEntry, file).env)
GoesAlong ==
    /\ AtStart.ok /\ Good(loop, AtStart.env)
    /\ step = "load" => next = 1 /\ SameVars(loop, bindings, AtStart.env)
    /\ step = "rows" =>
         /\ SameVars(loop, bindings, AtStart.env) /\ acc \in Accs
         /\ RowsSoFar(loop, AtStart.env, Rows, next - 1) /\ AgreeWith(loop, SoFar(next - 1).env, acc)
    /\ step = "store" =>
         Finished /\ bindings.users = AtStart.env.users /\ bindings.tags = AtStart.env.tags
    /\ step = "count" => Finished /\ Stored
    /\ step \in {"done", "no_path"} => Ended
    /\ step = "failed" =>
         /\ SameVars(loop, bindings, AtStart.env)
         /\ next \in 1..Len(Rows) /\ SoFar(next - 1).ok /\ ~SoFar(next).ok
Passes ==
    /\ again \in BOOLEAN /\ (again => loop.odd) /\ (step = "done" => ~loop.odd)
    /\ step = "no_path" => again /\ file = Len(loop.files)
KernelGoesAlong ==
    /\ loop \in Loops /\ MatchedBody(loop)
    /\ file \in 1..Len(loop.files) /\ next \in 1..(Len(Rows) + 1)
    /\ step \in {"load", "rows", "store", "count", "done", "failed", "no_path"}
    /\ Passes
    /\ Tame(loop) => GoesAlong

LEMMA LoopIs ==
    ASSUME NEW l \in Loops, NEW f \in 1..Len(l.files)
    PROVE  /\ l.files[f] \in Seq(Lines) /\ Len(l.files[f]) \in Nat
           /\ \A k \in 1..Len(l.files[f]) : l.files[f][k] \in Lines
           /\ {l.users, l.tags, l.count, l.text, l.vm, l.odd} \subseteq BOOLEAN
           /\ DOMAIN l.files = 1..Len(l.files) /\ DOMAIN l.files[f] = 1..Len(l.files[f])
<1>1. l.files \in Seq(Seq(Lines)) /\ {l.users, l.tags, l.count, l.text, l.vm, l.odd} \subseteq BOOLEAN
  BY LoopsAssumption
<1>2. l.files[f] \in Seq(Lines)
  BY <1>1
<1>. QED  BY <1>1, <1>2

\* Where a tame loop's row is added, the interpreter runs it.
LEMMA AddedRuns ==
    ASSUME NEW l \in Loops, NEW e, NEW f \in 1..Len(l.files), NEW k \in 1..Len(l.files[f]), ~Overflows(l, e),
           FilesBaseline(l, e, f - 1).ok, RowsBaseline(l, FilesBaseline(l, e, f - 1).env, l.files[f], k - 1).ok,
           NEW totals, AddedTo(l, totals, l.files[f][k]).ok
    PROVE  RowsBaseline(l, FilesBaseline(l, e, f - 1).env, l.files[f], k).ok
<1>1. f \in DOMAIN l.files /\ k \in DOMAIN l.files[f] /\ l.files[f][k] \in Lines
  BY LoopIs
<1>2. FieldsRead(l, l.files[f][k]) /\ TagsAreStrings(get_tags(l, l.files[f][k]).value)
  BY <1>1, AddedReads
<1>. QED  BY <1>1, <1>2, Zenon DEF Overflows, TagsAreStrings

LEMMA RowStepIs ==
    ASSUME KernelGoesAlong, Tame(loop), step = "rows", next <= Len(Rows), ~Blank(loop, Rows[next])
    PROVE  /\ AddedTo(loop, acc, Rows[next]).ok =>
                /\ AddedTo(loop, acc, Rows[next]).value \in Accs
                /\ RowsSoFar(loop, AtStart.env, Rows, next)
                /\ AgreeWith(loop, SoFar(next).env, AddedTo(loop, acc, Rows[next]).value)
           /\ ~AddedTo(loop, acc, Rows[next]).ok => ~SoFar(next).ok
<1> DEFINE e0 == AtStart.env
           n == next - 1
           e == SoFar(n).env
           line == Rows[next]
           r == AddedTo(loop, acc, line)
<1>1. /\ loop \in Loops /\ MatchedBody(loop) /\ file \in 1..Len(loop.files) /\ next \in 1..Len(Rows)
      /\ n \in Nat /\ n + 1 = next /\ line \in Lines
  BY LoopIs DEF KernelGoesAlong, Rows
<1>2. /\ AtStart.ok /\ Good(loop, e0) /\ acc \in Accs /\ RowsSoFar(loop, e0, Rows, n) /\ AgreeWith(loop, e, acc)
  BY DEF KernelGoesAlong, GoesAlong
<1>3. e \in Variables /\ AllKnown(e) /\ SoFar(n).ok
  BY <1>2 DEF RowsSoFar, RowsWell, Good, SoFar
<1>4. SoFar(next) = RunBody(loop, e, line)
  <2>1. SoFar(next) = RowGoes(loop, SoFar(n), line)
    BY <1>1, <1>3, RowsNext DEF SoFar
  <2>. QED  BY <2>1 DEF RowGoes, Blank
<1>5. ASSUME RunBody(loop, e, line).ok
      PROVE  r.ok /\ r.value \in Accs /\ AgreeWith(loop, SoFar(next).env, r.value)
             /\ RowsSoFar(loop, e0, Rows, next)
  <2> HIDE DEF e, line, r, n
  <2>1. /\ r.ok /\ r.value \in Accs /\ AgreeWith(loop, RunBody(loop, e, line).env, r.value)
        /\ RowKept(loop, e, line, RunBody(loop, e, line).env)
    BY <1>1, <1>2, <1>3, <1>5, RowAlike DEF r
  <2>2. RowsSoFar(loop, e0, Rows, n + 1)
    BY <1>1, <1>2, <1>5, <2>1, NextRow DEF e, line, SoFar
  <2>. QED  BY <1>1, <1>4, <2>1, <2>2
<1>6. ASSUME r.ok PROVE RunBody(loop, e, line).ok
  <2>1. ~Overflows(loop, PassEntry)
    BY DEF Tame, PassEntry, KernelGoesAlong, Passes
  <2>2. SoFar(next).ok
    <3>1. FilesBaseline(loop, PassEntry, file - 1).ok
      BY <1>2 DEF AtStart
    <3>2. RowsBaseline(loop, FilesBaseline(loop, PassEntry, file - 1).env, loop.files[file], next - 1).ok
      BY <1>3 DEF SoFar, AtStart, Rows
    <3>3. AddedTo(loop, acc, loop.files[file][next]).ok
      BY <1>6 DEF Rows
    <3>4. next \in 1..Len(loop.files[file])
      BY <1>1 DEF Rows
    <3>5. RowsBaseline(loop, FilesBaseline(loop, PassEntry, file - 1).env, loop.files[file], next).ok
      BY <1>1, <2>1, <3>1, <3>2, <3>3, <3>4, AddedRuns
    <3>. QED  BY <3>5 DEF SoFar, AtStart, Rows
  <2>. QED  BY <1>4, <2>2
<1> HIDE DEF r
<1>. QED  BY <1>4, <1>5, <1>6 DEF r

LEMMA KernelInitGoes == KernelInit => KernelGoesAlong
<1> SUFFICES ASSUME KernelInit PROVE KernelGoesAlong
  OBVIOUS
<1>1. /\ loop \in Loops /\ MatchedBody(loop) /\ step = "load" /\ file = 1 /\ next = 1 /\ bindings = loop.entry
      /\ again = FALSE /\ PassEntry = loop.entry
  BY DEF KernelInit, PassEntry
<1>2. loop.files \in Seq(Seq(Lines)) /\ loop.files # <<>> /\ loop.entry \in Variables
  BY <1>1, LoopsAssumption
<1>3. 1 \in 1..Len(loop.files)
  BY <1>2
<1>4. Len(Rows) \in Nat
  BY <1>1, <1>3, LoopIs DEF Rows
<1>5. ASSUME Tame(loop) PROVE GoesAlong
  <2>1. AtStart = Started(loop.entry)
    <3>1. file - 1 = 0
      BY <1>1
    <3>2. AtStart = FilesBaseline(loop, loop.entry, 0)
      BY <1>1, <3>1 DEF AtStart
    <3>. QED  BY <3>2, 0 \in Nat, NextFile
  <2>2. AtStart.ok /\ AtStart.env = loop.entry
    BY <1>2, <2>1, StartedIs
  <2>3. Good(loop, loop.entry)
    BY <1>2, <1>5 DEF Good, Tame, AllKnown, Known
  <2>4. SameVars(loop, bindings, loop.entry)
    BY <1>1, <1>2 DEF SameVars
  <2>. QED  BY <1>1, <2>2, <2>3, <2>4 DEF GoesAlong
<1>6. Passes
  BY <1>1 DEF Passes
<1>7. next \in 1..(Len(Rows) + 1) /\ file \in 1..Len(loop.files)
  BY <1>1, <1>3, <1>4
<1>. QED  BY <1>1, <1>5, <1>6, <1>7 DEF KernelGoesAlong

\* Which row was the last.
LEMMA LastRowIs ==
    ASSUME Len(Rows) \in Nat, DOMAIN Rows = 1..Len(Rows), NEW e, NEW t, NEW k,
           Latest(loop, e, Rows, Len(Rows), t, k)
    PROVE  LastRow = IF k = 0 THEN NoValue ELSE <<Rows[k]>>
<1> DEFINE there == {i \in DOMAIN Rows : Here(Rows[i])}
<1>1. /\ k \in 0..Len(Rows) /\ \A i \in (k + 1)..Len(Rows) : i \notin there
      /\ k # 0 => k \in there
  BY DEF Latest, Here, Blank
<1>2. \A i \in there : i \in 1..k
  <2>1. \A i \in 1..Len(Rows) : i \in 1..k \/ i \in (k + 1)..Len(Rows)
    BY <1>1
  <2>. QED  BY <1>1, <2>1
<1>3. LastRow = IF there = {} THEN NoValue ELSE <<Rows[CHOOSE i \in there : \A j \in there : j <= i]>>
  BY Zenon DEF LastRow
<1>4. CASE k = 0
  <2>1. there = {}
    BY <1>2, <1>4
  <2>. QED  BY <1>3, <1>4, <2>1
<1>5. CASE k # 0
  <2> HIDE DEF there
  <2>1. k \in there /\ (\A j \in there : j <= k)
    BY <1>1, <1>2, <1>5
  <2> DEFINE i0 == CHOOSE i \in there : \A j \in there : j <= i
  <2>2. i0 \in there /\ \A j \in there : j <= i0
    BY <2>1
  <2>3. i0 = k
    <3>1. i0 <= k /\ k <= i0 /\ i0 \in 1..k /\ k \in 1..k
      BY <1>2, <2>1, <2>2
    <3> HIDE DEF i0
    <3>. QED  BY <1>1, <3>1
  <2>. QED  BY <1>3, <1>5, <2>1, <2>3
<1>. QED  BY <1>4, <1>5

LEMMA FileIs ==
    ASSUME loop \in Loops, file \in 1..Len(loop.files)
    PROVE  /\ Len(Rows) \in Nat /\ DOMAIN Rows = 1..Len(Rows) /\ \A k \in 1..Len(Rows) : Rows[k] \in Lines
           /\ loop.users \in BOOLEAN /\ loop.tags \in BOOLEAN /\ loop.count \in BOOLEAN /\ loop.text \in BOOLEAN
  BY LoopIs DEF Rows

LEMMA LoadGoes ==
    ASSUME KernelGoesAlong, LoadTotals
    PROVE  KernelGoesAlong'
<1>1. loop \in Loops /\ MatchedBody(loop) /\ file \in 1..Len(loop.files) /\ next \in 1..(Len(Rows) + 1)
  BY DEF KernelGoesAlong
<1>2. UNCHANGED <<loop, again, file, next, bindings>> /\ Rows' = Rows /\ AtStart' = AtStart /\ \A n : SoFar(n)' = SoFar(n)
      /\ step = "load" /\ step' \in {"rows", "failed"}
  BY DEF LoadTotals, Rows, AtStart, SoFar, PassEntry
<1>3. ASSUME Tame(loop) PROVE GoesAlong'
  <2>1. AtStart.ok /\ Good(loop, AtStart.env) /\ next = 1 /\ SameVars(loop, bindings, AtStart.env)
    BY <1>2, <1>3 DEF KernelGoesAlong, GoesAlong
  <2> DEFINE totals == [amounts |-> bindings.amounts, items |-> bindings.items,
                        users |-> IF loop.users THEN bindings.users ELSE <<>>,
                        counts |-> bindings.counts,
                        tags |-> IF loop.tags THEN bindings.tags ELSE <<>>]
  <2>2. load_hot_jsonl_native_accumulators(loop, bindings) = Value(totals)
    BY <1>3, <2>1, Zenon DEF load_hot_jsonl_native_accumulators, Tame, Good, SameVars
  <2>3. Value(totals).ok /\ Value(totals).value = totals
    BY DEF Value
  <2>4. acc' = totals /\ step' = "rows"
    <3> HIDE DEF totals
    <3>. QED  BY <2>2, <2>3 DEF LoadTotals
  <2>5. totals \in Accs
    BY <2>1 DEF SameVars, Variables, Accs
  <2>6. RowsSoFar(loop, AtStart.env, Rows, 0) /\ SoFar(0).env = AtStart.env
    BY <1>1, <2>1, NoRows DEF SoFar
  <2>7. AgreeWith(loop, AtStart.env, totals)
    BY <2>1 DEF AgreeWith, SameTags, SameVars
  <2> HIDE DEF totals
  <2>8. next - 1 = 0 /\ (next - 1)' = 0
    BY <1>2, <2>1
  <2>. QED  BY <1>2, <2>1, <2>4, <2>5, <2>6, <2>7, <2>8 DEF GoesAlong
<1>. QED  BY <1>1, <1>2, <1>3 DEF KernelGoesAlong, Passes

LEMMA TotalGoes ==
    ASSUME KernelGoesAlong, step = "rows", next <= Len(Rows), ~Blank(loop, Rows[next]), Total(Rows[next]),
           UNCHANGED <<loop, again, file, bindings>>
    PROVE  KernelGoesAlong'
<1>1. loop \in Loops /\ MatchedBody(loop) /\ file \in 1..Len(loop.files) /\ next \in 1..(Len(Rows) + 1)
  BY DEF KernelGoesAlong
<1>2. Rows' = Rows /\ AtStart' = AtStart /\ (\A n : SoFar(n)' = SoFar(n)) /\ Len(Rows) \in Nat
  BY <1>1, FileIs DEF Rows, AtStart, SoFar, PassEntry
<1> DEFINE r == AddedTo(loop, acc, Rows[next])
<1>3. Added(Rows[next]) = r
  BY DEF Added, AddedTo
<1>4. CASE r.ok
  <2>1. acc' = r.value /\ next' = next + 1 /\ step' = "rows"
    BY <1>3, <1>4 DEF Total
  <2>2. ASSUME Tame(loop) PROVE GoesAlong'
    <3>1. AtStart.ok /\ Good(loop, AtStart.env) /\ SameVars(loop, bindings, AtStart.env)
      BY <2>2 DEF KernelGoesAlong, GoesAlong
    <3>2. r.value \in Accs /\ RowsSoFar(loop, AtStart.env, Rows, next) /\ AgreeWith(loop, SoFar(next).env, r.value)
      BY <1>4, <2>2, RowStepIs
    <3> HIDE DEF r
    <3>3. next' - 1 = next
      BY <1>1, <2>1
    <3>. QED  BY <1>2, <2>1, <3>1, <3>2, <3>3 DEF GoesAlong
  <2> HIDE DEF r
  <2>3. next' \in 1..(Len(Rows) + 1)
    BY <1>1, <1>2, <2>1
  <2>. QED  BY <1>1, <1>2, <2>1, <2>2, <2>3 DEF KernelGoesAlong, Passes
<1>5. CASE ~r.ok
  <2>1. step' = "failed" /\ acc' = acc /\ next' = next
    BY <1>3, <1>5 DEF Total
  <2>2. ASSUME Tame(loop) PROVE GoesAlong'
    <3>1. AtStart.ok /\ Good(loop, AtStart.env) /\ SameVars(loop, bindings, AtStart.env) /\ SoFar(next - 1).ok
      BY <2>2 DEF KernelGoesAlong, GoesAlong, RowsSoFar, SoFar
    <3>2. ~SoFar(next).ok
      BY <1>5, <2>2, RowStepIs
    <3>3. next \in 1..Len(Rows)
      BY <1>1, <1>2
    <3>. QED  BY <1>2, <2>1, <3>1, <3>2, <3>3 DEF GoesAlong
  <2>. QED  BY <1>1, <1>2, <2>1, <2>2 DEF KernelGoesAlong, Passes
<1>. QED  BY <1>4, <1>5

LEMMA LineGoes ==
    ASSUME KernelGoesAlong, Line
    PROVE  KernelGoesAlong'
<1>1. /\ step = "rows" /\ next <= Len(Rows) /\ loop.text /\ UNCHANGED <<loop, again, file, bindings>>
  BY DEF Line
<1>2. CASE Here(Rows[next])
  <2>1. Total(Rows[next]) /\ ~Blank(loop, Rows[next])
    BY <1>2 DEF Line, Here, Blank
  <2>. QED  BY <1>1, <2>1, TotalGoes
<1>3. CASE ~Here(Rows[next])
  <2>1. next' = next + 1 /\ step' = "rows" /\ acc' = acc /\ Blank(loop, Rows[next])
    BY <1>1, <1>3 DEF Line, Here, Blank
  <2>2. loop \in Loops /\ MatchedBody(loop) /\ file \in 1..Len(loop.files) /\ next \in 1..(Len(Rows) + 1)
    BY DEF KernelGoesAlong
  <2>3. Rows' = Rows /\ AtStart' = AtStart /\ (\A n : SoFar(n)' = SoFar(n)) /\ Len(Rows) \in Nat
    BY <1>1, <2>2, FileIs DEF Rows, AtStart, SoFar, PassEntry
  <2>4. next' \in 1..(Len(Rows) + 1) /\ next' - 1 = next /\ next - 1 \in Nat /\ (next - 1) + 1 = next
    BY <1>1, <2>1, <2>2, <2>3
  <2>5. ASSUME Tame(loop) PROVE GoesAlong'
    <3>1. /\ AtStart.ok /\ Good(loop, AtStart.env) /\ SameVars(loop, bindings, AtStart.env) /\ acc \in Accs
          /\ RowsSoFar(loop, AtStart.env, Rows, next - 1) /\ AgreeWith(loop, SoFar(next - 1).env, acc)
      BY <1>1, <2>5 DEF KernelGoesAlong, GoesAlong
    <3>2. ~loop.count
      BY <1>1, <2>5 DEF Tame
    <3>3. RowsSoFar(loop, AtStart.env, Rows, next) /\ SoFar(next).env = SoFar(next - 1).env
      <4> DEFINE n == next - 1
      <4>1. n \in Nat /\ n + 1 = next /\ Blank(loop, Rows[n + 1]) /\ RowsSoFar(loop, AtStart.env, Rows, n)
        BY <2>1, <2>4, <3>1
      <4> HIDE DEF n
      <4>2. RowsSoFar(loop, AtStart.env, Rows, n + 1)
            /\ RowsBaseline(loop, AtStart.env, Rows, n + 1).env = RowsBaseline(loop, AtStart.env, Rows, n).env
        BY <2>2, <3>2, <4>1, BlankRow
      <4>. QED  BY <4>1, <4>2 DEF SoFar, n
    <3>. QED  BY <1>1, <2>1, <2>3, <2>4, <3>1, <3>3 DEF GoesAlong
  <2>. QED  BY <1>1, <2>1, <2>2, <2>3, <2>4, <2>5 DEF KernelGoesAlong, Passes
<1>. QED  BY <1>2, <1>3

\* After the last row of a file.
LEMMA BoundGoes ==
    ASSUME KernelGoesAlong, BindRow \/ BindLine
    PROVE  KernelGoesAlong'
<1>1. loop \in Loops /\ MatchedBody(loop) /\ file \in 1..Len(loop.files) /\ next \in 1..(Len(Rows) + 1)
  BY DEF KernelGoesAlong
<1>2. /\ step = "rows" /\ next > Len(Rows) /\ step' = "store" /\ UNCHANGED <<loop, again, file, next, acc>>
  BY DEF BindRow, BindLine, Bound
<1>3. Rows' = Rows /\ AtStart' = AtStart /\ (\A n : SoFar(n)' = SoFar(n)) /\ Len(Rows) \in Nat /\ DOMAIN Rows = 1..Len(Rows)
  BY <1>1, <1>2, FileIs DEF Rows, AtStart, SoFar, PassEntry
<1>4. next = Len(Rows) + 1 /\ next - 1 = Len(Rows)
  BY <1>1, <1>2, <1>3
<1>5. ASSUME Tame(loop) PROVE GoesAlong'
  <2> DEFINE e == AtStart.env
             t == SoFar(Len(Rows)).env
  <2>1. /\ AtStart.ok /\ Good(loop, e) /\ SameVars(loop, bindings, e) /\ acc \in Accs
        /\ RowsSoFar(loop, e, Rows, Len(Rows)) /\ AgreeWith(loop, t, acc)
    BY <1>2, <1>4, <1>5 DEF KernelGoesAlong, GoesAlong
  <2>2. RowsWell(loop, e, Rows, Len(Rows), t)
    BY <2>1 DEF RowsSoFar, SoFar
  <2>3. PICK k \in 0..Len(Rows) : Latest(loop, e, Rows, Len(Rows), t, k)
    BY <2>2 DEF RowsWell
  <2>4. LastRow = IF k = 0 THEN NoValue ELSE <<Rows[k]>>
    <3> HIDE DEF e, t
    <3>. QED  BY <1>3, <2>3, LastRowIs
  <2>5. t \in Variables /\ e \in Variables /\ bindings \in Variables /\ e.declared
    BY <2>1, <2>2 DEF RowsWell, Good, SameVars
  <2> HIDE DEF e, t
  <2>6. /\ bindings' \in Variables /\ bindings'.declared /\ bindings'.row = t.row
        /\ (~loop.text => bindings'.user = t.user)
        /\ bindings'.total = e.total /\ bindings'.users = e.users /\ bindings'.tags = e.tags
    <3>1. CASE k = 0
      <4>1. LastRow = NoValue
        BY <2>4, <3>1
      <4>2. bindings' = bindings
        BY <4>1 DEF BindRow, BindLine, Bound
      <4>. QED  BY <2>1, <2>3, <2>5, <3>1, <4>2 DEF SameVars, Latest
    <3>2. CASE k # 0
      <4>1. LastRow # NoValue /\ LastRow[1] = Rows[k]
        BY <2>4, <3>2 DEF NoValue
      <4>2. t.row = Rows[k] /\ t.user = <<get_user(loop, Rows[k]).value>>
        BY <2>3, <3>2 DEF Latest
      <4>3. t.row \in Lines \cup {NoValue} /\ t.user \in Maybe(User)
        BY <2>5 DEF Variables
      <4>4. CASE BindRow
        <5>1. bindings' = [bindings EXCEPT !.row = t.row, !.user = t.user] /\ ~loop.text
          BY <4>1, <4>2, <4>4 DEF BindRow, Bound
        <5>. QED  BY <2>1, <2>5, <4>3, <5>1 DEF SameVars, Variables
      <4>5. CASE BindLine
        <5>1. bindings' = [bindings EXCEPT !.row = t.row] /\ loop.text
          BY <4>1, <4>2, <4>5 DEF BindLine, Bound
        <5>. QED  BY <2>1, <2>5, <4>3, <5>1 DEF SameVars, Variables
      <4>. QED  BY <4>4, <4>5
    <3>. QED  BY <3>1, <3>2
  <2>7. Finished'
    BY <1>2, <1>3, <1>4, <2>1, <2>6 DEF Finished, e, t
  <2>. QED  BY <1>2, <1>3, <2>1, <2>6, <2>7 DEF GoesAlong, e
<1>. QED  BY <1>1, <1>2, <1>3, <1>5 DEF KernelGoesAlong, Passes

LEMMA StoreGoes ==
    ASSUME KernelGoesAlong, Store
    PROVE  KernelGoesAlong'
<1>1. loop \in Loops /\ MatchedBody(loop) /\ file \in 1..Len(loop.files) /\ next \in 1..(Len(Rows) + 1)
  BY DEF KernelGoesAlong
<1>2. step = "store" /\ step' = "count" /\ UNCHANGED <<loop, again, file, next, acc>>
  BY DEF Store
<1>3. Rows' = Rows /\ AtStart' = AtStart /\ (\A n : SoFar(n)' = SoFar(n))
  BY <1>2 DEF Rows, AtStart, SoFar, PassEntry
<1>5. ASSUME Tame(loop) PROVE GoesAlong'
  <2> DEFINE e == AtStart.env
             t == SoFar(Len(Rows)).env
             users == IF loop.users THEN acc.users ELSE bindings.users
             tags == IF loop.tags THEN acc.tags ELSE bindings.tags
  <2>1. AtStart.ok /\ Good(loop, e) /\ Finished /\ bindings.users = e.users /\ bindings.tags = e.tags
    BY <1>2, <1>5 DEF KernelGoesAlong, GoesAlong
  <2>2. RowsWell(loop, e, Rows, Len(Rows), t) /\ AgreeWith(loop, t, acc)
    BY <2>1 DEF Finished, RowsSoFar, SoFar
  <2>3. /\ t \in Variables /\ t.declared /\ bindings \in Variables /\ bindings.declared /\ bindings.row = t.row
        /\ (~loop.text => bindings.user = t.user) /\ bindings.total = e.total
    BY <2>1, <2>2 DEF RowsWell, Good, Finished
  <2>4. acc.amounts = t.amounts /\ acc.items = t.items /\ acc.counts = t.counts /\ users = t.users /\ tags = t.tags
    BY <2>1, <2>2 DEF AgreeWith, SameTags, RowsWell
  <2>5. bindings' = [bindings EXCEPT !.amounts = acc.amounts, !.items = acc.items, !.counts = acc.counts,
                                     !.users = users, !.tags = tags]
    BY Zenon DEF Store
  <2> HIDE DEF users, tags, e, t
  <2>6. bindings' = [t EXCEPT !.user = bindings.user, !.total = bindings.total]
    <3>1. t \in Variables /\ bindings \in Variables /\ bindings.declared = t.declared /\ bindings.row = t.row
      BY <2>3 DEF Variables
    <3>2. bindings' = [bindings EXCEPT !.amounts = t.amounts, !.items = t.items, !.counts = t.counts,
                                       !.users = t.users, !.tags = t.tags]
      BY <2>4, <2>5
    <3>. QED  BY <3>1, <3>2 DEF Variables
  <2>7. bindings.user \in Maybe(User) /\ bindings.total \in Maybe(Fitting)
    BY <2>3 DEF Variables
  <2>8. /\ bindings' \in Variables /\ bindings'.declared /\ bindings'.row = t.row
        /\ (~loop.text => bindings'.user = t.user) /\ bindings'.total = e.total
    BY <2>3, <2>6, <2>7 DEF Variables
  <2>9. Finished'
    BY <1>2, <1>3, <2>1, <2>8 DEF Finished, e, t
  <2>10. \E user \in Maybe(User), total \in Maybe(Fitting) : bindings' = [t EXCEPT !.user = user, !.total = total]
    BY <2>6, <2>7
  <2>11. Stored'
    BY <1>2, <1>3, <2>10 DEF Stored, t
  <2>. QED  BY <1>2, <1>3, <2>1, <2>9, <2>11 DEF GoesAlong, e
<1>. QED  BY <1>1, <1>2, <1>3, <1>5 DEF KernelGoesAlong, Passes

LEMMA CountGoes ==
    ASSUME KernelGoesAlong, Count
    PROVE  KernelGoesAlong'
<1> DEFINE e == AtStart.env
           t == SoFar(Len(Rows)).env
           counts == loop.count /\ ~loop.text
           sum == bindings.total[1] + Len(Rows)
           fails == counts /\ (bindings.total = NoValue \/ ~IntFits(sum))
<1>1. loop \in Loops /\ MatchedBody(loop) /\ file \in 1..Len(loop.files) /\ next \in 1..(Len(Rows) + 1)
  BY DEF KernelGoesAlong
<1>2. step = "count" /\ loop' = loop /\ acc' = acc
  BY DEF Count
<1>3. IF fails THEN step' = "failed" /\ UNCHANGED <<again, bindings, file, next>>
      ELSE /\ bindings' = (IF counts THEN [bindings EXCEPT !.total = <<sum>>] ELSE bindings)
           /\ IF file < Len(loop.files) THEN step' = "load" /\ file' = file + 1 /\ next' = 1 /\ UNCHANGED again
              ELSE IF loop.odd THEN HandBack
              ELSE step' = "done" /\ UNCHANGED <<again, file, next>>
  <2>1. bindings.total[1] + Len(Rows) = sum
    OBVIOUS
  <2>. QED  BY DEF Count
<1>4. Len(Rows) \in Nat
  BY <1>1, FileIs
<1>5. ASSUME Tame(loop)
      PROVE  /\ ~fails /\ FilesBaseline(loop, PassEntry, file).ok /\ Good(loop, FilesBaseline(loop, PassEntry, file).env)
             /\ SameVars(loop, bindings', FilesBaseline(loop, PassEntry, file).env)
  <2>1. /\ AtStart.ok /\ Good(loop, e) /\ Finished
        /\ \E user \in Maybe(User), total \in Maybe(Fitting) : bindings = [t EXCEPT !.user = user, !.total = total]
    BY <1>2, <1>5 DEF KernelGoesAlong, GoesAlong, Stored
  <2>2. SoFar(Len(Rows)).ok /\ RowsWell(loop, e, Rows, Len(Rows), t)
    BY <2>1 DEF Finished, RowsSoFar, SoFar
  <2>3. FilesBaseline(loop, PassEntry, file) = SoFar(Len(Rows))
    <3>1. file - 1 \in Nat /\ (file - 1) + 1 = file
      BY <1>1
    <3>. QED  BY <2>1, <3>1, NextFile DEF AtStart, SoFar, Rows
  <2>4. counts <=> loop.count
    BY <1>5 DEF Tame
  <2>5. t \in Variables /\ t.declared /\ Good(loop, t) /\ bindings.total = e.total
        /\ (~loop.text => bindings.user = t.user) /\ bindings \in Variables
    BY <2>1, <2>2 DEF RowsWell, Good, Finished
  <2>6. loop.count => /\ e.total # NoValue /\ sum \in Fitting /\ t.total = <<sum>>
    BY <2>1, <2>2, <2>5 DEF Good, RowsWell
  <2>7. ~loop.count => t.total = e.total
    BY <2>2 DEF RowsWell
  <2>8. ~fails
    BY <2>4, <2>5, <2>6 DEF IntFits
  <2>9. bindings' = (IF counts THEN [bindings EXCEPT !.total = <<sum>>] ELSE bindings)
    BY <1>3, <2>8
  <2> HIDE DEF e, t, counts, sum, fails
  <2>10. PICK user \in Maybe(User), total \in Maybe(Fitting) : bindings = [t EXCEPT !.user = user, !.total = total]
    BY <2>1
  <2>11. bindings.user = user /\ bindings.total = total
    BY <2>5, <2>10 DEF Variables
  <2>12. bindings' = [t EXCEPT !.user = user]
    <3>1. CASE counts
      <4>1. bindings' = [bindings EXCEPT !.total = t.total]
        BY <2>4, <2>6, <2>9, <3>1
      <4>. QED  BY <2>5, <2>10, <4>1 DEF Variables
    <3>2. CASE ~counts
      <4>1. bindings' = bindings /\ total = t.total
        BY <2>4, <2>5, <2>7, <2>9, <2>11, <3>2
      <4>. QED  BY <2>5, <2>10, <4>1 DEF Variables
    <3>. QED  BY <3>1, <3>2
  <2>13. SameVars(loop, bindings', t)
    BY <2>5, <2>10, <2>11, <2>12 DEF SameVars, Variables
  <2>. QED  BY <2>2, <2>3, <2>5, <2>8, <2>13 DEF t
<1> HIDE DEF fails, counts, sum
<1>0. Len(loop.files) \in Nat
  <2>1. loop.files \in Seq(Seq(Lines))
    BY <1>1, LoopsAssumption
  <2>. QED  BY <2>1
<1>00. again \in BOOLEAN /\ (again => loop.odd)
  BY DEF KernelGoesAlong, Passes
<1>6. CASE fails
  <2>1. ~Tame(loop)
    BY <1>5, <1>6
  <2>2. step' = "failed" /\ again' = again /\ file' = file /\ next' = next /\ Rows' = Rows
    BY <1>2, <1>3, <1>6 DEF Rows
  <2>. QED  BY <1>00, <1>1, <1>2, <2>1, <2>2 DEF KernelGoesAlong, Passes
<1>7. CASE ~fails /\ file < Len(loop.files)
  <2>1. step' = "load" /\ file' = file + 1 /\ next' = 1 /\ again' = again /\ PassEntry' = PassEntry
    BY <1>2, <1>3, <1>7 DEF PassEntry
  <2>2. file' \in 1..Len(loop.files) /\ file' - 1 = file
    BY <1>0, <1>1, <1>7, <2>1
  <2>3. Len(Rows)' \in Nat
    <3>1. Len(loop.files[file']) \in Nat
      BY <1>1, <2>2, LoopIs
    <3>. QED  BY <1>2, <3>1 DEF Rows
  <2>4. ASSUME Tame(loop) PROVE GoesAlong'
    <3>1. AtStart' = FilesBaseline(loop, PassEntry, file)
      BY <1>2, <2>1, <2>2 DEF AtStart
    <3>2. /\ FilesBaseline(loop, PassEntry, file).ok /\ Good(loop, FilesBaseline(loop, PassEntry, file).env)
          /\ SameVars(loop, bindings', FilesBaseline(loop, PassEntry, file).env)
      BY <1>5, <2>4
    <3>. QED  BY <1>2, <2>1, <3>1, <3>2 DEF GoesAlong
  <2>5. next' \in 1..(Len(Rows)' + 1)
    BY <2>1, <2>3
  <2>. QED  BY <1>00, <1>1, <1>2, <2>1, <2>2, <2>4, <2>5 DEF KernelGoesAlong, Passes
<1>8. CASE ~fails /\ ~(file < Len(loop.files)) /\ ~(loop.odd /\ ~again)
  <2>1. /\ step' = (IF loop.odd THEN "no_path" ELSE "done") /\ file = Len(loop.files)
        /\ again' = again /\ file' = file /\ next' = next
    BY <1>0, <1>1, <1>3, <1>8 DEF HandBack
  <2>2. Rows' = Rows /\ AtStart' = AtStart /\ PassEntry' = PassEntry
    BY <1>2, <2>1 DEF Rows, AtStart, PassEntry
  <2>3. ASSUME Tame(loop) PROVE GoesAlong'
    <3>1. AtStart.ok /\ Good(loop, AtStart.env)
      BY <2>3 DEF KernelGoesAlong, GoesAlong
    <3>2. /\ FilesBaseline(loop, PassEntry, file).ok /\ FilesBaseline(loop, PassEntry, file).env \in Variables
          /\ SameVars(loop, bindings', FilesBaseline(loop, PassEntry, file).env)
      BY <1>5, <2>3 DEF Good
    <3>. QED  BY <1>2, <2>1, <2>2, <3>1, <3>2 DEF GoesAlong, Ended
  <2>. QED  BY <1>00, <1>1, <1>2, <1>8, <2>1, <2>2, <2>3 DEF KernelGoesAlong, Passes
\* The loop goes back to the interpreter: it begins again with what it has.
<1>9. CASE ~fails /\ ~(file < Len(loop.files)) /\ loop.odd /\ ~again
  <2>1. step' = "load" /\ again' = TRUE /\ file' = 1 /\ next' = 1 /\ file = Len(loop.files)
    BY <1>0, <1>1, <1>3, <1>9 DEF HandBack
  <2>2. PassEntry = loop.entry /\ PassEntry' = AllFiles(loop).env
    BY <1>2, <1>9, <2>1 DEF PassEntry
  <2>3. FilesBaseline(loop, PassEntry, file) = AllFiles(loop)
    BY <2>1, <2>2 DEF AllFiles
  <2>4. AtStart' = Started(AllFiles(loop).env)
    <3>1. file' - 1 = 0
      BY <2>1
    <3>2. AtStart' = FilesBaseline(loop, AllFiles(loop).env, 0)
      BY <1>2, <2>2, <3>1 DEF AtStart
    <3>. QED  BY <3>2, 0 \in Nat, NextFile
  <2>5. file' \in 1..Len(loop.files)
    BY <1>0, <1>1, <2>1
  <2>6. ASSUME Tame(loop) PROVE GoesAlong'
    <3>1. Good(loop, AllFiles(loop).env) /\ SameVars(loop, bindings', AllFiles(loop).env)
      BY <1>5, <2>3, <2>6
    <3>2. AllFiles(loop).env \in Variables
      BY <3>1 DEF Good
    <3>3. AtStart'.ok /\ AtStart'.env = AllFiles(loop).env
      BY <2>4, <3>2, StartedIs
    <3>. QED  BY <1>2, <2>1, <3>1, <3>3 DEF GoesAlong
  <2>7. next' \in 1..(Len(Rows)' + 1)
    <3>1. Len(loop.files[file']) \in Nat
      BY <1>1, <2>5, LoopIs
    <3>. QED  BY <1>2, <2>1, <3>1 DEF Rows
  <2>. QED  BY <1>1, <1>2, <1>9, <2>1, <2>5, <2>6, <2>7 DEF KernelGoesAlong, Passes
<1>. QED  BY <1>00, <1>6, <1>7, <1>8, <1>9

LEMMA KernelStepGoes == KernelGoesAlong /\ [KernelNext]_kernelVars => KernelGoesAlong'
<1> SUFFICES ASSUME KernelGoesAlong, [KernelNext]_kernelVars PROVE KernelGoesAlong'
  OBVIOUS
<1>1. CASE LoadTotals
  BY <1>1, LoadGoes
<1>2. CASE Row
  <2>1. Total(Rows[next]) /\ ~Blank(loop, Rows[next]) /\ step = "rows" /\ next <= Len(Rows) /\ UNCHANGED <<loop, again, file, bindings>>
    BY <1>2 DEF Row, Blank
  <2>. QED  BY <2>1, TotalGoes
<1>3. CASE Line
  BY <1>3, LineGoes
<1>4. CASE BindRow \/ BindLine
  BY <1>4, BoundGoes
<1>5. CASE Store
  BY <1>5, StoreGoes
<1>6. CASE Count
  BY <1>6, CountGoes
<1>7. CASE UNCHANGED kernelVars
  <2>1. UNCHANGED <<loop, again, file, next, step, acc, bindings>>
    BY <1>7 DEF kernelVars
  <2>2. UNCHANGED <<PassEntry, Rows>>
    BY <2>1 DEF PassEntry, Rows
  <2>3. UNCHANGED AtStart
    BY <2>1, <2>2 DEF AtStart
  <2>4. \A n : UNCHANGED SoFar(n)
    BY <2>1, <2>2, <2>3 DEF SoFar
  <2>5. Finished' = Finished
    BY <2>1, <2>2, <2>3, <2>4 DEF Finished
  <2>6. Stored' = Stored
    BY <2>1, <2>2, <2>4 DEF Stored
  <2>7. Ended' = Ended
    BY <2>1, <2>2 DEF Ended
  <2>8. GoesAlong' = GoesAlong
    BY <2>1, <2>2, <2>3, <2>4, <2>5, <2>6, <2>7 DEF GoesAlong
  <2>. QED  BY <2>1, <2>2, <2>8 DEF KernelGoesAlong, Passes
<1>. QED  BY <1>1, <1>2, <1>3, <1>4, <1>5, <1>6, <1>7 DEF KernelNext

LEMMA SameTotals ==
    ASSUME NEW l, NEW b, NEW e \in Variables, SameVars(l, b, e)
    PROVE  Totals(b) = Totals(e) /\ (~l.text => b.user = e.user)
  BY DEF SameVars, Totals, Variables

LEMMA KernelIsAlike == KernelGoesAlong => JsonlParity
<1> SUFFICES ASSUME KernelGoesAlong, Tame(loop)
             PROVE  /\ step = "done" => RowsEndAlike /\ ~again
                    /\ step = "failed" => RowsFailAlike
                    /\ step = "no_path" => RowsEndAlike /\ again /\ file = Len(loop.files)
  BY DEF JsonlParity
<1>1. /\ GoesAlong /\ loop \in Loops /\ file \in 1..Len(loop.files)
      /\ step = "done" => ~again
      /\ step = "no_path" => again /\ file = Len(loop.files)
  BY DEF KernelGoesAlong, Passes
<1>2. ASSUME step \in {"done", "no_path"} PROVE RowsEndAlike
  <2>1. FilesBaseline(loop, PassEntry, file).ok /\ SameVars(loop, bindings, FilesBaseline(loop, PassEntry, file).env)
    BY <1>1, <1>2 DEF GoesAlong, Ended
  <2>2. FilesBaseline(loop, PassEntry, file).env \in Variables
    BY <1>1, <1>2 DEF GoesAlong, Ended
  <2>. QED  BY <2>1, <2>2, SameTotals DEF RowsEndAlike, Uninterrupted
<1>3. ASSUME step = "failed" PROVE RowsFailAlike
  <2>1. /\ SameVars(loop, bindings, AtStart.env) /\ AtStart.ok /\ Good(loop, AtStart.env)
        /\ next \in 1..Len(Rows) /\ SoFar(next - 1).ok /\ ~SoFar(next).ok
    BY <1>1, <1>3 DEF GoesAlong
  <2>2. FilesBaseline(loop, PassEntry, file) = SoFar(Len(Rows))
    <3>1. file - 1 \in Nat /\ (file - 1) + 1 = file
      BY <1>1
    <3>. QED  BY <2>1, <3>1, NextFile DEF AtStart, SoFar, Rows
  <2>3. ~SoFar(Len(Rows)).ok
    <3>1. next \in Nat /\ Len(Rows) \in Nat /\ next <= Len(Rows)
      BY <1>1, <2>1, FileIs
    <3>. QED  BY <2>1, <3>1, RowsEnd DEF SoFar
  <2>4. Totals(bindings) = Totals(AtStart.env)
    BY <2>1, SameTotals DEF Good
  <2>. QED  BY <2>1, <2>2, <2>3, <2>4 DEF RowsFailAlike, Uninterrupted, SoFar, AtStart
<1>. QED  BY <1>1, <1>2, <1>3

\* Every tame loop over JSONL rows ends, natively or in the hot-loop VM, as the
\* interpreter would have ended it: with the same totals, lists, counters and
\* target, or failing at the same row with what the last whole file left
\* (eval_for_jsonl_rows_generic_native_body, execute_hot_jsonl_vm_ops).  A loop
\* over files that comes to a value without a path leaves what the interpreter
\* makes of the files before it one time after the other
\* (try_eval_outer_jsonl_file_loop).
THEOREM RowsAgree == KernelInit /\ [][KernelNext]_kernelVars => []JsonlParity
<1>. QED  BY KernelInitGoes, KernelStepGoes, KernelIsAlike, PTL
=============================================================================
