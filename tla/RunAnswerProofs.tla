-------------------------- MODULE RunAnswerProofs ---------------------------
(***************************************************************************)
(* The way from a decision of the Root to an answer, for all decisions,       *)
(* catalogs, limits and results.  Every plan the Root decides is refused for  *)
(* a reason that holds of it, or has an order in which the engine can run it  *)
(* within its Run's time; what the engine calls composing the reducer         *)
(* composes, and its text says whose each source and each warning is; and an  *)
(* answer keeps the limits of the guardrail's policy, with nothing in it that   *)
(* the policy forbids but what the single scan and the cut let out.            *)
(***************************************************************************)
EXTENDS RunAnswer, FiniteSetTheorems, SequenceTheorems, WellFoundedInduction, TLAPS

-----------------------------------------------------------------------------
(* Recursion *)

(* A set of numbers that is not empty has a least one.                        *)
LEMMA NatLeast ==
  ASSUME NEW T, T \subseteq Nat, T # {}
  PROVE  \E x \in T : \A y \in T : x <= y
  <1>1. PICK x \in T : \A y \in T : ~ (<<y, x>> \in OpToRel(<, Nat))
    BY NatLessThanWellFounded, WFMin
  <1>2. \A y \in T : <<y, x>> \in Nat \X Nat
    OBVIOUS
  <1>3. \A y \in T : y < x => <<y, x>> \in OpToRel(<, Nat)
    BY <1>2 DEF OpToRel
  <1>4. \A y \in T : ~ (y < x)
    BY <1>1, <1>3, Zenon
  <1> QED
    BY <1>4

(* Induction, for a set of naturals.                                          *)
LEMMA NatAll ==
  ASSUME NEW S, 0 \in S, \A n \in Nat : n \in S => n + 1 \in S
  PROVE  Nat \subseteq S
<1> DEFINE T == Nat \ S
<1> SUFFICES ASSUME T # {} PROVE FALSE
  OBVIOUS
<1>1. PICK x \in T : \A y \in T : x <= y
  BY NatLeast
<1>2. x # 0 /\ x - 1 \in Nat
  OBVIOUS
<1>3. x - 1 \notin T
  BY <1>1, <1>2
<1>4. QED
  BY <1>2, <1>3

(* A value for each of 1..N, made of those before it.                         *)
Upto(f, k) == [i \in 1..(k - 1) |-> f[i]]
IsRecursive(V, N, step) ==
  N \in Nat /\ \A k \in 1..N : \A s \in [1..(k - 1) -> V] : step[<<k, s>>] \in V

LEMMA FunctionByRecursion ==
  ASSUME NEW V, NEW N, NEW step, IsRecursive(V, N, step)
  PROVE  \E f \in [1..N -> V] : \A k \in 1..N : f[k] = step[<<k, Upto(f, k)>>]
<1>0. N \in Nat /\ \A k \in 1..N : \A s \in [1..(k - 1) -> V] : step[<<k, s>>] \in V
  BY DEF IsRecursive
<1> USE <1>0
<1> DEFINE Good(f, n) == f \in [1..n -> V] /\ \A k \in 1..n : f[k] = step[<<k, [i \in 1..(k - 1) |-> f[i]]>>]
           S == {n \in Nat : n <= N => \E f : Good(f, n)}
<1>1. 0 \in S
  <2>1. Good([i \in 1..0 |-> 0], 0)
    OBVIOUS
  <2>2. QED
    BY <2>1
<1>2. ASSUME NEW n \in Nat, n \in S
      PROVE  n + 1 \in S
  <2> SUFFICES ASSUME n + 1 <= N PROVE \E f : Good(f, n + 1)
    <3> HIDE DEF Good
    <3> QED
      OBVIOUS
  <2>0. \E f : Good(f, n)
    <3> HIDE DEF Good
    <3> QED
      BY <1>2
  <2>1. PICK f : Good(f, n)
    BY <2>0
  <2>2. n + 1 \in 1..N /\ (n + 1) - 1 = n
    OBVIOUS
  <2>3. f \in [1..n -> V]
    BY <2>1
  <2>4. step[<<n + 1, f>>] \in V
    BY <2>2, <2>3
  <2> DEFINE g == [i \in 1..(n + 1) |-> IF i = n + 1 THEN step[<<n + 1, f>>] ELSE f[i]]
  <2>5. \A i \in 1..(n + 1) : i = n + 1 \/ i \in 1..n
    OBVIOUS
  <2>6. g[n + 1] = step[<<n + 1, f>>] /\ \A i \in 1..n : i \in 1..(n + 1) /\ i # n + 1 /\ g[i] = f[i]
    OBVIOUS
  <2>7. g \in [1..(n + 1) -> V]
    BY <2>3, <2>4, <2>5
  <2> HIDE DEF g
  <2>8. ASSUME NEW k \in 1..(n + 1)
        PROVE  g[k] = step[<<k, [i \in 1..(k - 1) |-> g[i]]>>]
    <3>1. CASE k = n + 1
      <4>1. [i \in 1..(k - 1) |-> g[i]] = f
        BY <2>3, <2>6, <3>1
      <4>2. QED
        BY <2>6, <3>1, <4>1
    <3>2. CASE k \in 1..n
      <4>1. \A i \in 1..(k - 1) : g[i] = f[i]
        BY <2>6, <3>2
      <4>2. [i \in 1..(k - 1) |-> g[i]] = [i \in 1..(k - 1) |-> f[i]]
        BY <4>1
      <4>3. QED
        BY <2>1, <2>6, <3>2, <4>2
    <3>3. QED
      BY <2>5, <3>1, <3>2
  <2>9. Good(g, n + 1)
    BY <2>7, <2>8
  <2>10. QED
    BY <2>9
<1>3. Nat \subseteq S
  <2> HIDE DEF S
  <2> QED
    BY <1>1, <1>2, NatAll
<1>4. \E f : Good(f, N)
  <2> HIDE DEF Good
  <2> QED
    BY <1>3
<1>5. QED
  BY <1>4 DEF Upto

(* One for each of 0..N, made of the one before it.                           *)
IsStepwise(V, N, e, step) ==
  N \in Nat /\ e \in V /\ \A k \in 1..N : \A v \in V : step[<<k, v>>] \in V

LEMMA FunctionByStep ==
  ASSUME NEW V, NEW N, NEW e, NEW step, IsStepwise(V, N, e, step)
  PROVE  \E f \in [0..N -> V] : f[0] = e /\ \A k \in 1..N : f[k] = step[<<k, f[k - 1]>>]
<1>0. N \in Nat /\ e \in V /\ \A k \in 1..N : \A v \in V : step[<<k, v>>] \in V
  BY DEF IsStepwise
<1> USE <1>0
<1> DEFINE Good(f, n) == f \in [0..n -> V] /\ f[0] = e /\ \A k \in 1..n : f[k] = step[<<k, f[k - 1]>>]
           S == {n \in Nat : n <= N => \E f : Good(f, n)}
<1>1. 0 \in S
  <2>1. Good([i \in 0..0 |-> e], 0)
    OBVIOUS
  <2>2. QED
    BY <2>1
<1>2. ASSUME NEW n \in Nat, n \in S
      PROVE  n + 1 \in S
  <2> SUFFICES ASSUME n + 1 <= N PROVE \E f : Good(f, n + 1)
    OBVIOUS
  <2>1. PICK f : Good(f, n)
    BY <1>2
  <2>2. n + 1 \in 1..N /\ n \in 0..n
    OBVIOUS
  <2>3. f[n] \in V
    BY <2>1, <2>2
  <2>4. step[<<n + 1, f[n]>>] \in V
    BY <2>2, <2>3
  <2> DEFINE g == [i \in 0..(n + 1) |-> IF i = n + 1 THEN step[<<n + 1, f[n]>>] ELSE f[i]]
  <2>5. \A i \in 0..(n + 1) : i = n + 1 \/ i \in 0..n
    OBVIOUS
  <2>6. g[n + 1] = step[<<n + 1, f[n]>>] /\ \A i \in 0..n : i \in 0..(n + 1) /\ i # n + 1 /\ g[i] = f[i]
    OBVIOUS
  <2>7. g \in [0..(n + 1) -> V]
    BY <2>1, <2>4, <2>5
  <2> HIDE DEF g
  <2>8. ASSUME NEW k \in 1..(n + 1)
        PROVE  g[k] = step[<<k, g[k - 1]>>]
    <3>1. CASE k = n + 1
      <4>1. k - 1 = n /\ g[n] = f[n]
        BY <2>2, <2>6, <3>1
      <4>2. QED
        BY <2>6, <3>1, <4>1
    <3>2. CASE k \in 1..n
      <4>1. k \in 0..n /\ k - 1 \in 0..n
        BY <3>2
      <4>2. g[k] = f[k] /\ g[k - 1] = f[k - 1]
        BY <2>6, <4>1
      <4>3. QED
        BY <2>1, <3>2, <4>2
    <3>3. k \in 0..(n + 1) /\ k # 0
      OBVIOUS
    <3>4. QED
      BY <2>5, <3>1, <3>2, <3>3
  <2>9. g[0] = e
    <3>1. 0 \in 0..n
      OBVIOUS
    <3>2. QED
      BY <2>1, <2>6, <3>1
  <2>10. Good(g, n + 1)
    BY <2>7, <2>8, <2>9
  <2>11. QED
    BY <2>10
<1>3. Nat \subseteq S
  <2> HIDE DEF S
  <2> QED
    BY <1>1, <1>2, NatAll
<1>4. \E f : Good(f, N)
  <2>1. N \in S
    <3> HIDE DEF S
    <3> QED
      BY <1>3
  <2> HIDE DEF Good
  <2>2. QED
    BY <2>1
<1>5. QED
  BY <1>4

(* A finite set of naturals has a greatest element.                           *)
LEMMA MaxExists ==
  ASSUME NEW S0 \in SUBSET Nat, IsFiniteSet(S0), S0 # {}
  PROVE  Max(S0) \in S0 /\ \A y \in S0 : y <= Max(S0)
<1> DEFINE N == {n \in Nat : \A S \in SUBSET Nat : IsFiniteSet(S) /\ Cardinality(S) = n /\ S # {} =>
                              \E x \in S : \A y \in S : y <= x}
<1>1. 0 \in N
  BY FS_EmptySet
<1>2. ASSUME NEW n \in Nat, n \in N
      PROVE  n + 1 \in N
  <2> SUFFICES ASSUME NEW S \in SUBSET Nat, IsFiniteSet(S), Cardinality(S) = n + 1, S # {}
               PROVE  \E x \in S : \A y \in S : y <= x
    OBVIOUS
  <2>1. PICK e \in S : TRUE
    OBVIOUS
  <2>2. IsFiniteSet(S \ {e}) /\ Cardinality(S \ {e}) = n
    <3>1. IsFiniteSet(S \ {e}) /\ Cardinality(S \ {e}) = IF e \in S THEN Cardinality(S) - 1 ELSE Cardinality(S)
      BY FS_RemoveElement
    <3>2. QED
      BY <2>1, <3>1
  <2>3. CASE S \ {e} = {}
    BY <2>1, <2>3
  <2>4. CASE S \ {e} # {}
    <3>1. PICK x \in S \ {e} : \A y \in S \ {e} : y <= x
      BY <1>2, <2>2, <2>4
    <3>2. e \in Nat /\ x \in Nat
      BY <2>1
    <3>3. CASE e <= x
      BY <3>1, <3>3
    <3>4. CASE x <= e
      BY <2>1, <3>1, <3>2, <3>4
    <3>5. QED
      BY <3>2, <3>3, <3>4
  <2>5. QED
    BY <2>3, <2>4
<1>3. Nat \subseteq N
  <2> HIDE DEF N
  <2> QED
    BY <1>1, <1>2, NatAll
<1>4. Cardinality(S0) \in Nat
  BY FS_CardinalityType
<1>5. Cardinality(S0) \in N
  BY <1>3, <1>4
<1>6. PICK x \in S0 : \A y \in S0 : y <= x
  BY <1>5
<1>7. \A a, b \in S0 : a >= b <=> b <= a
  OBVIOUS
<1>8. \E a \in S0 : \A y \in S0 : a >= y
  BY <1>6, <1>7
<1>9. Max(S0) \in S0 /\ \A y \in S0 : Max(S0) >= y
  BY <1>8 DEF Max
<1>10. QED
  BY <1>7, <1>9

(* What holds at 0 and is handed on holds throughout.                         *)
LEMMA StepsStay ==
  ASSUME NEW N \in Nat, NEW V, NEW f, f[0] \in V, \A k \in 1..N : f[k - 1] \in V => f[k] \in V
  PROVE  \A k \in 0..N : f[k] \in V
<1> DEFINE S == {k \in Nat : k <= N => f[k] \in V}
<1>1. 0 \in S
  OBVIOUS
<1>2. ASSUME NEW n \in Nat, n \in S
      PROVE  n + 1 \in S
  <2>1. CASE n + 1 <= N
    <3>1. n + 1 \in 1..N /\ (n + 1) - 1 = n /\ n <= N
      BY <2>1
    <3>2. f[n] \in V
      BY <1>2, <3>1
    <3>3. f[n + 1] \in V
      BY <3>1, <3>2
    <3>4. QED
      BY <3>3
  <2>2. QED
    BY <2>1
<1>3. Nat \subseteq S
  <2> HIDE DEF S
  <2> QED
    BY <1>1, <1>2, NatAll
<1>4. QED
  BY <1>3

-----------------------------------------------------------------------------
(* Orders *)

(* What a sequence of some tasks in an order to execute them in is.           *)
IdsApart(s) == \A i, j \in 1..Len(s) : s[i].id = s[j].id => i = j
DepsBefore(s) ==
  \A k \in 1..Len(s) : \A x \in ToSet(s[k].deps) : \E i \in 1..(k - 1) : s[i].id = x
SoundOrders(tasks) == {s \in Seq(ToSet(tasks)) : IdsApart(s) /\ DepsBefore(s)}

IsReady(s, t) == t.id \notin TaskIds(s) /\ ToSet(t.deps) \subseteq TaskIds(s)
IsStuck(tasks, s) == \A k \in 1..Len(tasks) : ~ IsReady(s, tasks[k])

LEMMA IdsOfTasks ==
  ASSUME NEW T, NEW s \in Seq(T)
  PROVE  \A x : x \in TaskIds(s) <=> \E i \in 1..Len(s) : s[i].id = x
<1>1. DOMAIN s = 1..Len(s)
  OBVIOUS
<1>2. QED
  BY <1>1 DEF TaskIds

(* A task that is taken comes after its dependencies.                         *)
LEMMA TakenSound ==
  ASSUME NEW tasks, NEW s \in SoundOrders(tasks), NEW t \in ToSet(tasks)
  PROVE  /\ Taken(s, t) \in SoundOrders(tasks)
         /\ IsReady(s, t) => Len(Taken(s, t)) = Len(s) + 1
         /\ ~ IsReady(s, t) => Taken(s, t) = s
<1>1. s \in Seq(ToSet(tasks)) /\ Len(s) \in Nat /\ IdsApart(s) /\ DepsBefore(s)
  BY DEF SoundOrders
<1>2. CASE ~ IsReady(s, t)
  BY <1>2 DEF Taken, IsReady
<1>3. CASE IsReady(s, t)
  <2>1. Taken(s, t) = Append(s, t)
    BY <1>3 DEF Taken, IsReady
  <2>2. PICK q : q = Append(s, t)
    OBVIOUS
  <2>3. /\ q \in Seq(ToSet(tasks)) /\ Len(q) = Len(s) + 1
        /\ q[Len(s) + 1] = t /\ \A i \in 1..Len(s) : q[i] = s[i]
    BY <1>1, <2>2
  <2>4. \A i \in 1..Len(q) : i \in 1..Len(s) \/ i = Len(s) + 1
    BY <1>1, <2>3
  <2>5. \A i \in 1..Len(s) : s[i].id # t.id
    BY <1>1, <1>3, IdsOfTasks DEF IsReady
  <2>6. IdsApart(q)
    <3>1. ASSUME NEW i \in 1..Len(q), NEW j \in 1..Len(q), q[i].id = q[j].id
          PROVE  i = j
      <4>1. CASE i \in 1..Len(s) /\ j \in 1..Len(s)
        BY <1>1, <2>3, <3>1, <4>1 DEF IdsApart
      <4>2. CASE i \in 1..Len(s) /\ j = Len(s) + 1
        BY <2>3, <2>5, <3>1, <4>2
      <4>3. CASE i = Len(s) + 1 /\ j \in 1..Len(s)
        BY <2>3, <2>5, <3>1, <4>3
      <4>4. QED
        BY <2>4, <4>1, <4>2, <4>3
    <3>2. QED
      BY <3>1 DEF IdsApart
  <2>7. DepsBefore(q)
    <3>1. ASSUME NEW k \in 1..Len(q), NEW x \in ToSet(q[k].deps)
          PROVE  \E i \in 1..(k - 1) : q[i].id = x
      <4>1. CASE k \in 1..Len(s)
        <5>1. q[k] = s[k]
          BY <2>3, <4>1
        <5>2. PICK i \in 1..(k - 1) : s[i].id = x
          BY <1>1, <3>1, <4>1, <5>1 DEF DepsBefore
        <5>3. i \in 1..Len(s)
          BY <1>1, <4>1
        <5>4. q[i].id = x
          BY <2>3, <5>2, <5>3
        <5>5. QED
          BY <5>4
      <4>2. CASE k = Len(s) + 1
        <5>1. x \in TaskIds(s)
          BY <1>3, <2>3, <3>1, <4>2 DEF IsReady
        <5>2. PICK i \in 1..Len(s) : s[i].id = x
          BY <1>1, <5>1, IdsOfTasks
        <5>3. i \in 1..(k - 1) /\ q[i].id = x
          BY <1>1, <2>3, <4>2, <5>2
        <5>4. QED
          BY <5>3
      <4>3. QED
        BY <2>4, <4>1, <4>2
    <3>2. QED
      BY <3>1 DEF DepsBefore
  <2>8. QED
    BY <1>3, <2>1, <2>2, <2>3, <2>6, <2>7 DEF SoundOrders
<1>4. QED
  BY <1>2, <1>3

(* One pass, unfolded.                                                        *)
LEMMA PassRecurrence ==
  ASSUME NEW T, NEW tasks \in Seq(T), NEW s \in SoundOrders(tasks)
  PROVE  \E f : /\ f[0] = s /\ OnePass(tasks, s) = f[Len(tasks)]
                /\ \A k \in 1..Len(tasks) : f[k] = Taken(f[k - 1], tasks[k])
                /\ \A k \in 0..Len(tasks) : f[k] \in SoundOrders(tasks)
<1> DEFINE N == Len(tasks)
           V == SoundOrders(tasks)
           Found(g) == g = [k \in 0..N |-> IF k = 0 THEN s ELSE Taken(g[k - 1], tasks[k])]
           step == [p \in (1..N) \X V |-> Taken(p[2], tasks[p[1]])]
<1>1. N \in Nat /\ \A k \in 1..N : tasks[k] \in ToSet(tasks)
  BY DEF ToSet
<1>2. \A k \in 1..N : \A v \in V : step[<<k, v>>] = Taken(v, tasks[k]) /\ step[<<k, v>>] \in V
  <2> HIDE DEF N, V
  <2>1. \A k \in 1..N : \A v \in V : step[<<k, v>>] = Taken(v, tasks[k])
    OBVIOUS
  <2>2. \A k \in 1..N : \A v \in V : Taken(v, tasks[k]) \in V
    BY <1>1, TakenSound DEF V
  <2>3. QED
    BY <2>1, <2>2
<1> HIDE DEF N, V, step, Found
<1>3. PICK f \in [0..N -> V] : f[0] = s /\ \A k \in 1..N : f[k] = step[<<k, f[k - 1]>>]
  <2>1. s \in V
    BY DEF V
  <2>2. \A k \in 1..N : \A v \in V : step[<<k, v>>] \in V
    BY <1>2
  <2>3. IsStepwise(V, N, s, step)
    BY <1>1, <2>1, <2>2 DEF IsStepwise
  <2>4. QED
    BY <2>3, FunctionByStep
<1> USE DEF Found
<1>4. \A k \in 1..N : f[k] = Taken(f[k - 1], tasks[k])
  <2>1. \A k \in 1..N : k - 1 \in 0..N
    BY <1>1
  <2>2. QED
    BY <1>2, <1>3, <2>1
<1>5. Found(f)
  <2> DEFINE h == [k \in 0..N |-> IF k = 0 THEN s ELSE Taken(f[k - 1], tasks[k])]
  <2>1. \A k \in 0..N : k = 0 \/ k \in 1..N
    BY <1>1
  <2>2. \A k \in 0..N : f[k] = h[k]
    BY <1>3, <1>4, <2>1
  <2>3. f = h
    <3>1. f = [k \in 0..N |-> f[k]] /\ h = [k \in 0..N |-> h[k]]
      BY <1>3
    <3> HIDE DEF h
    <3>2. QED
      BY <2>2, <3>1
  <2>4. QED
    BY <2>3
<1>6. OnePass(tasks, s) = (CHOOSE g : Found(g))[N]
  BY DEF OnePass, N
<1>7. PICK g : g = CHOOSE h : Found(h)
  OBVIOUS
<1>8. Found(g)
  <2> HIDE DEF Found
  <2> QED
    BY <1>5, <1>7
<1>9. g[0] = s /\ \A k \in 1..N : g[k] = Taken(g[k - 1], tasks[k])
  <2>1. \A k \in 0..N : g[k] = IF k = 0 THEN s ELSE Taken(g[k - 1], tasks[k])
    BY <1>8
  <2>2. 0 \in 0..N /\ \A k \in 1..N : k \in 0..N /\ k # 0
    BY <1>1
  <2>3. QED
    BY <2>1, <2>2
<1>10. \A k \in 0..N : g[k] \in V
  <2>1. g[0] \in V
    BY <1>9 DEF V
  <2>2. \A k \in 1..N : g[k - 1] \in V => g[k] \in V
    BY <1>1, <1>9, TakenSound DEF V
  <2>3. QED
    BY <1>1, <2>1, <2>2, StepsStay
<1>11. OnePass(tasks, s) = g[N]
  <2> HIDE DEF Found
  <2> QED
    BY <1>6, <1>7
<1>12. QED
  BY <1>9, <1>10, <1>11 DEF N, V

(* What holds at 0 and is handed on holds up to N.                            *)
LEMMA UpTo ==
  ASSUME NEW N \in Nat, NEW S, 0 \in S, \A k \in 1..N : k - 1 \in S => k \in S
  PROVE  \A k \in 0..N : k \in S
<1> DEFINE R == {k \in Nat : k <= N => k \in S}
<1>1. 0 \in R
  OBVIOUS
<1>2. ASSUME NEW n \in Nat, n \in R
      PROVE  n + 1 \in R
  <2>1. CASE n + 1 <= N
    <3>1. n + 1 \in 1..N /\ (n + 1) - 1 = n /\ n <= N
      BY <2>1
    <3>2. QED
      BY <1>2, <3>1
  <2>2. QED
    BY <2>1
<1>3. Nat \subseteq R
  <2> HIDE DEF R
  <2> QED
    BY <1>1, <1>2, NatAll
<1>4. QED
  BY <1>3

(* A pass keeps the order sound, and lengthens it unless nothing is ready.    *)
LEMMA PassFacts ==
  ASSUME NEW T, NEW tasks \in Seq(T), NEW s \in SoundOrders(tasks)
  PROVE  /\ OnePass(tasks, s) \in SoundOrders(tasks)
         /\ IsStuck(tasks, s) => OnePass(tasks, s) = s
         /\ ~ IsStuck(tasks, s) => Len(OnePass(tasks, s)) >= Len(s) + 1
<1>1. PICK f : /\ f[0] = s /\ OnePass(tasks, s) = f[Len(tasks)]
               /\ \A k \in 1..Len(tasks) : f[k] = Taken(f[k - 1], tasks[k])
               /\ \A k \in 0..Len(tasks) : f[k] \in SoundOrders(tasks)
  BY PassRecurrence
<1> DEFINE N == Len(tasks)
<1>2. N \in Nat /\ N \in 0..N /\ \A k \in 1..N : tasks[k] \in ToSet(tasks) /\ k \in 0..N /\ k - 1 \in 0..N
  BY DEF ToSet
<1>3. \A q \in SoundOrders(tasks) : Len(q) \in Nat
  BY DEF SoundOrders
<1> HIDE DEF N
<1>4. f[N] = OnePass(tasks, s) /\ f[N] \in SoundOrders(tasks)
  BY <1>1, <1>2 DEF N
<1>5. ASSUME NEW k \in 1..N
      PROVE  /\ f[k - 1] \in SoundOrders(tasks) /\ Len(f[k - 1]) \in Nat /\ Len(f[k]) \in Nat
             /\ IsReady(f[k - 1], tasks[k]) => Len(f[k]) = Len(f[k - 1]) + 1
             /\ ~ IsReady(f[k - 1], tasks[k]) => f[k] = f[k - 1]
  <2>1. f[k - 1] \in SoundOrders(tasks) /\ f[k] \in SoundOrders(tasks) /\ f[k] = Taken(f[k - 1], tasks[k])
    BY <1>1, <1>2 DEF N
  <2>2. tasks[k] \in ToSet(tasks)
    BY <1>2
  <2>3. QED
    BY <1>3, <2>1, <2>2, TakenSound
<1>6. CASE IsStuck(tasks, s)
  <2> DEFINE S == {k \in 0..N : f[k] = s}
  <2>1. 0 \in S
    BY <1>1, <1>2
  <2>2. \A k \in 1..N : k - 1 \in S => k \in S
    BY <1>2, <1>5, <1>6 DEF IsStuck, N
  <2>3. \A k \in 0..N : k \in S
    <3> HIDE DEF S
    <3> QED
      BY <1>2, <2>1, <2>2, UpTo
  <2>4. QED
    BY <1>2, <1>4, <1>6, <2>3
<1>7. CASE ~ IsStuck(tasks, s)
  <2>1. PICK m \in 1..N : IsReady(s, tasks[m])
    BY <1>7 DEF IsStuck, N
  <2> DEFINE S == {k \in 0..N : /\ f[k] = s \/ Len(f[k]) >= Len(s) + 1
                                /\ k >= m => Len(f[k]) >= Len(s) + 1}
  <2>2. 0 \in S
    BY <1>1, <1>2
  <2>3. ASSUME NEW k \in 1..N, k - 1 \in S
        PROVE  k \in S
    <3>1. Len(s) \in Nat
      BY <1>3
    <3>2. CASE Len(f[k - 1]) >= Len(s) + 1
      <4>1. Len(f[k]) >= Len(s) + 1
        <5>1. Len(f[k]) >= Len(f[k - 1]) /\ Len(f[k - 1]) \in Nat /\ Len(f[k]) \in Nat
          BY <1>5
        <5>2. QED
          BY <3>1, <3>2, <5>1
      <4>2. QED
        BY <1>2, <4>1
    <3>3. CASE f[k - 1] = s /\ ~ (k - 1 >= m) /\ k = m
      BY <1>2, <1>5, <2>1, <3>1, <3>3
    <3>4. CASE f[k - 1] = s /\ ~ (k >= m)
      BY <1>2, <1>5, <3>1, <3>4
    <3>5. k - 1 >= m \/ k = m \/ ~ (k >= m)
      BY <1>2
    <3>6. QED
      BY <2>3, <3>2, <3>3, <3>4, <3>5
  <2>4. N \in S
    <3> HIDE DEF S
    <3> QED
      BY <1>2, <2>2, <2>3, UpTo
  <2>5. QED
    BY <1>2, <1>4, <1>7, <2>4
<1>8. QED
  BY <1>4, <1>6, <1>7

(* The passes, unfolded.                                                      *)
LEMMA OrderRecurrence ==
  ASSUME NEW T, NEW tasks \in Seq(T)
  PROVE  \E f : /\ f[0] = <<>> /\ TopologicalOrder(tasks) = f[Len(tasks)]
                /\ \A k \in 1..Len(tasks) : f[k] = OnePass(tasks, f[k - 1])
                /\ \A k \in 0..Len(tasks) : f[k] \in SoundOrders(tasks)
<1> DEFINE N == Len(tasks)
           V == SoundOrders(tasks)
           Found(g) == g = [k \in 0..N |-> IF k = 0 THEN <<>> ELSE OnePass(tasks, g[k - 1])]
           step == [p \in (1..N) \X V |-> OnePass(tasks, p[2])]
<1>1. N \in Nat
  OBVIOUS
<1>2. \A k \in 1..N : \A v \in V : step[<<k, v>>] = OnePass(tasks, v) /\ step[<<k, v>>] \in V
  <2> HIDE DEF N, V
  <2>1. \A k \in 1..N : \A v \in V : step[<<k, v>>] = OnePass(tasks, v)
    OBVIOUS
  <2>2. \A k \in 1..N : \A v \in V : OnePass(tasks, v) \in V
    BY PassFacts DEF V
  <2>3. QED
    BY <2>1, <2>2
<1>0. <<>> \in V
  BY DEF SoundOrders, IdsApart, DepsBefore
<1> HIDE DEF N, V, step, Found
<1>3. PICK f \in [0..N -> V] : f[0] = <<>> /\ \A k \in 1..N : f[k] = step[<<k, f[k - 1]>>]
  <2>3. IsStepwise(V, N, <<>>, step)
    BY <1>0, <1>1, <1>2 DEF IsStepwise
  <2>4. QED
    BY <2>3, FunctionByStep
<1> USE DEF Found
<1>4. \A k \in 1..N : f[k] = OnePass(tasks, f[k - 1])
  <2>1. \A k \in 1..N : k - 1 \in 0..N
    BY <1>1
  <2>2. QED
    BY <1>2, <1>3, <2>1
<1>5. Found(f)
  <2> DEFINE h == [k \in 0..N |-> IF k = 0 THEN <<>> ELSE OnePass(tasks, f[k - 1])]
  <2>1. \A k \in 0..N : k = 0 \/ k \in 1..N
    BY <1>1
  <2>2. \A k \in 0..N : f[k] = h[k]
    BY <1>3, <1>4, <2>1
  <2>3. f = h
    <3>1. f = [k \in 0..N |-> f[k]] /\ h = [k \in 0..N |-> h[k]]
      BY <1>3
    <3> HIDE DEF h
    <3>2. QED
      BY <2>2, <3>1
  <2>4. QED
    BY <2>3
<1>6. TopologicalOrder(tasks) = (CHOOSE g : Found(g))[N]
  BY DEF TopologicalOrder, N
<1>7. PICK g : g = CHOOSE h : Found(h)
  OBVIOUS
<1>8. Found(g)
  <2> HIDE DEF Found
  <2> QED
    BY <1>5, <1>7
<1>9. g[0] = <<>> /\ \A k \in 1..N : g[k] = OnePass(tasks, g[k - 1])
  <2>1. \A k \in 0..N : g[k] = IF k = 0 THEN <<>> ELSE OnePass(tasks, g[k - 1])
    BY <1>8
  <2>2. 0 \in 0..N /\ \A k \in 1..N : k \in 0..N /\ k # 0
    BY <1>1
  <2>3. QED
    BY <2>1, <2>2
<1>10. \A k \in 0..N : g[k] \in V
  <2>1. g[0] \in V
    BY <1>0, <1>9
  <2>2. \A k \in 1..N : g[k - 1] \in V => g[k] \in V
    BY <1>9, PassFacts DEF V
  <2>3. QED
    BY <1>1, <2>1, <2>2, StepsStay
<1>11. TopologicalOrder(tasks) = g[N]
  <2> HIDE DEF Found
  <2> QED
    BY <1>6, <1>7
<1>12. QED
  BY <1>9, <1>10, <1>11 DEF N, V

(* The order is sound, and whole unless no task that is left is ready.        *)
LEMMA OrderFacts ==
  ASSUME NEW T, NEW tasks \in Seq(T)
  PROVE  /\ TopologicalOrder(tasks) \in SoundOrders(tasks)
         /\ Len(TopologicalOrder(tasks)) >= Len(tasks) \/ IsStuck(tasks, TopologicalOrder(tasks))
<1>1. PICK f : /\ f[0] = <<>> /\ TopologicalOrder(tasks) = f[Len(tasks)]
               /\ \A k \in 1..Len(tasks) : f[k] = OnePass(tasks, f[k - 1])
               /\ \A k \in 0..Len(tasks) : f[k] \in SoundOrders(tasks)
  BY OrderRecurrence
<1> DEFINE N == Len(tasks)
           S == {k \in 0..N : Len(f[k]) >= k \/ IsStuck(tasks, f[k])}
<1>2. N \in Nat /\ N \in 0..N /\ \A k \in 1..N : k \in 0..N /\ k - 1 \in 0..N
  OBVIOUS
<1>3. \A q \in SoundOrders(tasks) : Len(q) \in Nat
  BY DEF SoundOrders
<1>4. 0 \in S
  BY <1>1, <1>2
<1>5. ASSUME NEW k \in 1..N, k - 1 \in S
      PROVE  k \in S
  <2>1. f[k - 1] \in SoundOrders(tasks) /\ f[k] = OnePass(tasks, f[k - 1]) /\ f[k] \in SoundOrders(tasks)
    BY <1>1, <1>2
  <2>2. Len(f[k - 1]) \in Nat /\ Len(f[k]) \in Nat
    BY <1>3, <2>1
  <2>3. CASE IsStuck(tasks, f[k - 1])
    BY <1>2, <2>1, <2>3, PassFacts
  <2>4. CASE ~ IsStuck(tasks, f[k - 1])
    <3>1. Len(f[k]) >= Len(f[k - 1]) + 1
      BY <2>1, <2>4, PassFacts
    <3>2. Len(f[k - 1]) >= k - 1
      BY <1>5, <2>4
    <3>3. QED
      BY <1>2, <2>2, <3>1, <3>2
  <2>5. QED
    BY <2>3, <2>4
<1>6. N \in S
  <2> HIDE DEF S
  <2> QED
    BY <1>2, <1>4, <1>5, UpTo
<1>7. QED
  BY <1>1, <1>2, <1>6

(* How long the parts of a chain take, one after the other.                   *)
Timed(tasks) == \A k \in 1..Len(tasks) : tasks[k].timeout \in Nat
Sums(f, tasks, c) ==
  /\ f[0] = 0
  /\ \A n \in 1..Len(c) : f[n] = f[n - 1] + tasks[c[n]].timeout
  /\ \A n \in 0..Len(c) : f[n] \in Nat

(* How long a chain takes, unfolded.                                          *)
LEMMA DurationRecurrence ==
  ASSUME NEW T, NEW tasks \in Seq(T), Timed(tasks), NEW c \in Seq(1..Len(tasks))
  PROVE  \E f : Sums(f, tasks, c) /\ Duration(tasks, c) = f[Len(c)]
<1> DEFINE N == Len(c)
           Found(g) == g = [n \in 0..N |-> IF n = 0 THEN 0 ELSE g[n - 1] + tasks[c[n]].timeout]
           step == [p \in (1..N) \X Nat |-> p[2] + tasks[c[p[1]]].timeout]
<1>1. N \in Nat /\ \A n \in 1..N : tasks[c[n]].timeout \in Nat
  <2>1. \A n \in 1..Len(c) : c[n] \in 1..Len(tasks)
    OBVIOUS
  <2>2. QED
    BY <2>1 DEF Timed
<1>2. \A n \in 1..N : \A v \in Nat : step[<<n, v>>] = v + tasks[c[n]].timeout /\ step[<<n, v>>] \in Nat
  <2> HIDE DEF N
  <2>1. \A n \in 1..N : \A v \in Nat : step[<<n, v>>] = v + tasks[c[n]].timeout
    OBVIOUS
  <2> HIDE DEF step, Found
  <2>2. ASSUME NEW n \in 1..N, NEW v \in Nat
        PROVE  step[<<n, v>>] \in Nat
    <3>1. PICK t : t = tasks[c[n]].timeout
      OBVIOUS
    <3>2. t \in Nat /\ step[<<n, v>>] = v + t
      BY <1>1, <2>1, <3>1
    <3>3. QED
      BY <3>2
  <2>3. QED
    BY <2>1, <2>2
<1> HIDE DEF N, step, Found
<1>3. PICK f \in [0..N -> Nat] : f[0] = 0 /\ \A n \in 1..N : f[n] = step[<<n, f[n - 1]>>]
  <2>1. IsStepwise(Nat, N, 0, step)
    BY <1>1, <1>2 DEF IsStepwise
  <2>2. QED
    BY <2>1, FunctionByStep
<1> USE DEF Found
<1>4. \A n \in 1..N : f[n] = f[n - 1] + tasks[c[n]].timeout
  <2>1. \A n \in 1..N : n - 1 \in 0..N
    BY <1>1
  <2>2. QED
    BY <1>2, <1>3, <2>1
<1>5. Found(f)
  <2> DEFINE h == [n \in 0..N |-> IF n = 0 THEN 0 ELSE f[n - 1] + tasks[c[n]].timeout]
  <2>1. \A n \in 0..N : n = 0 \/ n \in 1..N
    BY <1>1
  <2>2. \A n \in 0..N : f[n] = h[n]
    BY <1>3, <1>4, <2>1
  <2>3. f = h
    <3>1. f = [n \in 0..N |-> f[n]] /\ h = [n \in 0..N |-> h[n]]
      BY <1>3
    <3> HIDE DEF h
    <3>2. QED
      BY <2>2, <3>1
  <2>4. QED
    BY <2>3
<1>6. Duration(tasks, c) = (CHOOSE g : Found(g))[N]
  BY DEF Duration, N
<1>7. PICK g : g = CHOOSE h : Found(h)
  OBVIOUS
<1>8. Found(g)
  <2> HIDE DEF Found
  <2> QED
    BY <1>5, <1>7
<1>9. g[0] = 0 /\ \A n \in 1..N : g[n] = g[n - 1] + tasks[c[n]].timeout
  <2>1. \A n \in 0..N : g[n] = IF n = 0 THEN 0 ELSE g[n - 1] + tasks[c[n]].timeout
    BY <1>8
  <2>2. 0 \in 0..N /\ \A n \in 1..N : n \in 0..N /\ n # 0
    BY <1>1
  <2>3. QED
    BY <2>1, <2>2
<1>10. \A n \in 0..N : g[n] \in Nat
  <2>1. g[0] \in Nat
    BY <1>9
  <2>2. ASSUME NEW n \in 1..N, g[n - 1] \in Nat
        PROVE  g[n] \in Nat
    <3>1. PICK t : t = tasks[c[n]].timeout
      OBVIOUS
    <3>2. t \in Nat /\ g[n] = g[n - 1] + t
      BY <1>1, <1>9, <3>1
    <3>3. QED
      BY <2>2, <3>2
  <2>3. QED
    BY <1>1, <2>1, <2>2, StepsStay
<1>11. Duration(tasks, c) = g[N]
  <2> HIDE DEF Found
  <2> QED
    BY <1>6, <1>7
<1>12. QED
  BY <1>9, <1>10, <1>11 DEF N, Sums

(* The greatest of finitely many values, and of 0.                            *)
MaxOf(e, D) == Max({0} \union {e[j] : j \in D})

LEMMA MaxOfValues ==
  ASSUME NEW D, IsFiniteSet(D), NEW e, \A j \in D : e[j] \in Nat
  PROVE  /\ MaxOf(e, D) \in Nat
         /\ \A j \in D : e[j] <= MaxOf(e, D)
         /\ MaxOf(e, D) = 0 \/ \E j \in D : MaxOf(e, D) = e[j]
<1> DEFINE I == {e[j] : j \in D}
           V == {0} \union I
           f == [j \in D |-> e[j]]
<1>1. IsFiniteSet(I)
  <2>1. f \in Surjection(D, I)
    BY DEF Surjection
  <2> HIDE DEF f, I
  <2>2. QED
    BY <2>1, FS_Surjection
<1>2. IsFiniteSet(V) /\ V # {} /\ V \in SUBSET Nat
  <2>1. V = I \union {0}
    OBVIOUS
  <2>2. IsFiniteSet(I \union {0})
    <3> HIDE DEF I, V
    <3> QED
      BY <1>1, FS_AddElement
  <2>3. V \in SUBSET Nat /\ V # {}
    OBVIOUS
  <2> HIDE DEF I, V
  <2>4. QED
    BY <2>1, <2>2, <2>3
<1>3. Max(V) \in V /\ \A y \in V : y <= Max(V)
  <2> HIDE DEF V
  <2> QED
    BY <1>2, MaxExists
<1>4. PICK m : m = Max(V)
  OBVIOUS
<1>5. m \in V /\ (\A y \in V : y <= m) /\ m \in Nat
  <2> HIDE DEF V
  <2> QED
    BY <1>2, <1>3, <1>4
<1>6. (\A j \in D : e[j] <= m) /\ (m = 0 \/ \E j \in D : m = e[j])
  BY <1>5
<1>7. QED
  <2> HIDE DEF I
  <2>1. V = {0} \union {e[j] : j \in D}
    BY DEF I
  <2> HIDE DEF V
  <2>2. QED
    BY <1>4, <1>5, <1>6, <2>1 DEF MaxOf

Before(s, k) == {i \in 1..(k - 1) : s[i].id \in ToSet(s[k].deps)}

(* The times of the ends, unfolded: a task ends its timeout after the last of *)
(* those it waits for, and the critical path is the last end.                 *)
Ends(e, s) ==
  \A k \in 1..Len(s) : e[k] \in Nat /\ e[k] = s[k].timeout + MaxOf(e, Before(s, k))

LEMMA PathRecurrence ==
  ASSUME NEW T, NEW s \in Seq(T), Timed(s)
  PROVE  \E e : Ends(e, s) /\ CriticalPath(s) = MaxOf(e, 1..Len(s))
<1> DEFINE N == Len(s)
           Found(g) == g = [k \in 1..N |-> s[k].timeout + Max({0} \union {g[j] : j \in {i \in 1..(k - 1) : s[i].id \in ToSet(s[k].deps)}})]
           P == UNION {{k} \X [1..(k - 1) -> Nat] : k \in 1..N}
           step == [p \in P |-> s[p[1]].timeout + MaxOf(p[2], Before(s, p[1]))]
<1>1. N \in Nat /\ \A k \in 1..N : s[k].timeout \in Nat
  BY DEF Timed
<1>2. ASSUME NEW k \in 1..N
      PROVE  IsFiniteSet(Before(s, k)) /\ \A j \in Before(s, k) : j \in 1..(k - 1) /\ j \in 1..N
  <2>0. k - 1 \in Int /\ 1 \in Int
    BY <1>1
  <2>1. IsFiniteSet(1..(k - 1)) /\ Before(s, k) \in SUBSET (1..(k - 1))
    <3>1. IsFiniteSet(1..(k - 1))
      BY <2>0, FS_Interval
    <3>2. QED
      BY <3>1 DEF Before
  <2>2. IsFiniteSet(Before(s, k))
    BY <2>1, FS_Subset
  <2>3. QED
    BY <1>1, <2>1, <2>2
<1>3. ASSUME NEW k \in 1..N, NEW g \in [1..(k - 1) -> Nat]
      PROVE  /\ step[<<k, g>>] = s[k].timeout + MaxOf(g, Before(s, k))
             /\ step[<<k, g>>] \in Nat
  <2>1. <<k, g>> \in P
    <3>1. <<k, g>> \in {k} \X [1..(k - 1) -> Nat]
      OBVIOUS
    <3>2. QED
      BY <3>1, Zenon
  <2> HIDE DEF P, N
  <2>2. step[<<k, g>>] = s[k].timeout + MaxOf(g, Before(s, k))
    BY <2>1
  <2> HIDE DEF step
  <2>3. \A j \in Before(s, k) : g[j] \in Nat
    BY <1>2, <1>3
  <2>4. MaxOf(g, Before(s, k)) \in Nat
    BY <1>2, <2>3, MaxOfValues
  <2>5. QED
    BY <1>1, <2>2, <2>4
<1> HIDE DEF N, P, step, Found
<1>4. PICK f \in [1..N -> Nat] : \A k \in 1..N : f[k] = step[<<k, Upto(f, k)>>]
  <2>1. IsRecursive(Nat, N, step)
    BY <1>1, <1>3 DEF IsRecursive
  <2>2. QED
    BY <2>1, FunctionByRecursion
<1>5. ASSUME NEW k \in 1..N
      PROVE  f[k] = s[k].timeout + MaxOf(f, Before(s, k))
  <2>1. PICK g : g = Upto(f, k)
    OBVIOUS
  <2>2. g \in [1..(k - 1) -> Nat]
    <3>1. \A i \in 1..(k - 1) : i \in 1..N
      BY <1>1
    <3>2. QED
      BY <1>4, <2>1, <3>1 DEF Upto
  <2>3. f[k] = s[k].timeout + MaxOf(g, Before(s, k))
    BY <1>3, <1>4, <2>1, <2>2
  <2>4. {g[j] : j \in Before(s, k)} = {f[j] : j \in Before(s, k)}
    BY <1>2, <2>1 DEF Upto
  <2>5. QED
    BY <2>3, <2>4 DEF MaxOf
<1>6. Found(f)
  <2> DEFINE h == [k \in 1..N |-> s[k].timeout + MaxOf(f, Before(s, k))]
  <2>1. \A k \in 1..N : f[k] = h[k]
    BY <1>5
  <2>2. f = h
    <3>1. f = [k \in 1..N |-> f[k]] /\ h = [k \in 1..N |-> h[k]]
      BY <1>4
    <3> HIDE DEF h
    <3>2. QED
      BY <2>1, <3>1
  <2>3. QED
    BY <2>2 DEF Before, Found, MaxOf
<1>7. CriticalPath(s) = Max({0} \union {(CHOOSE g : Found(g))[k] : k \in 1..N})
  BY DEF CriticalPath, N, Found
<1>8. PICK g : g = CHOOSE h : Found(h)
  OBVIOUS
<1>9. Found(g)
  BY <1>6, <1>8
<1>10. CriticalPath(s) = Max({0} \union {g[k] : k \in 1..N})
  BY <1>7, <1>8
<1>11. \A k \in 1..N : g[k] = s[k].timeout + MaxOf(g, Before(s, k))
  BY <1>9 DEF Found, Before, MaxOf
<1>12. \A k \in 1..N : g[k] \in Nat
  <2> DEFINE S == {n \in 0..N : \A k \in 1..n : g[k] \in Nat}
  <2>1. 0 \in S
    BY <1>1
  <2>2. ASSUME NEW n \in 1..N, n - 1 \in S
        PROVE  n \in S
    <3>1. \A k \in 1..(n - 1) : g[k] \in Nat
      BY <2>2
    <3>2. \A j \in Before(s, n) : g[j] \in Nat
      BY <1>2, <3>1
    <3>3. MaxOf(g, Before(s, n)) \in Nat
      BY <1>2, <3>2, MaxOfValues
    <3>4. g[n] \in Nat
      <4>1. PICK t, m : t = s[n].timeout /\ m = MaxOf(g, Before(s, n))
        OBVIOUS
      <4>2. t \in Nat /\ m \in Nat /\ g[n] = t + m
        BY <1>1, <1>11, <3>3, <4>1
      <4>3. QED
        BY <4>2
    <3>5. \A k \in 1..n : k \in 1..(n - 1) \/ k = n
      OBVIOUS
    <3>6. QED
      BY <1>1, <3>1, <3>4, <3>5
  <2>3. N \in S
    <3>1. N \in 0..N
      BY <1>1
    <3> HIDE DEF S
    <3>2. QED
      BY <1>1, <2>1, <2>2, <3>1, UpTo
  <2>4. QED
    BY <2>3
<1>13. QED
  BY <1>10, <1>11, <1>12 DEF N, Ends, MaxOf

(* A chain that goes on takes as much longer as its last task.                *)
LEMMA DurationOfAppend ==
  ASSUME NEW T, NEW tasks \in Seq(T), Timed(tasks),
         NEW c \in Seq(1..Len(tasks)), NEW x \in 1..Len(tasks)
  PROVE  /\ Duration(tasks, c) \in Nat
         /\ Duration(tasks, Append(c, x)) = Duration(tasks, c) + tasks[x].timeout
         /\ c = <<>> => Duration(tasks, c) = 0
<1>1. PICK q : q = Append(c, x)
  OBVIOUS
<1>2. /\ q \in Seq(1..Len(tasks)) /\ Len(q) = Len(c) + 1 /\ Len(c) \in Nat
      /\ q[Len(c) + 1] = x /\ \A i \in 1..Len(c) : q[i] = c[i]
  BY <1>1
<1>3. PICK f : Sums(f, tasks, c) /\ Duration(tasks, c) = f[Len(c)]
  BY DurationRecurrence
<1>4. PICK g : Sums(g, tasks, q) /\ Duration(tasks, q) = g[Len(q)]
  BY <1>2, DurationRecurrence
<1>3a. /\ f[0] = 0
       /\ \A n \in 1..Len(c) : f[n] = f[n - 1] + tasks[c[n]].timeout
       /\ \A n \in 0..Len(c) : f[n] \in Nat
  BY <1>3 DEF Sums
<1>4a. /\ g[0] = 0
       /\ \A n \in 1..Len(q) : g[n] = g[n - 1] + tasks[q[n]].timeout
       /\ \A n \in 0..Len(q) : g[n] \in Nat
  BY <1>4 DEF Sums
<1> DEFINE S == {n \in 0..Len(c) : g[n] = f[n]}
<1>5. 0 \in S
  BY <1>2, <1>3, <1>3a, <1>4, <1>4a
<1>6. ASSUME NEW n \in 1..Len(c), n - 1 \in S
      PROVE  n \in S
  <2>1. n \in 1..Len(q) /\ q[n] = c[n]
    BY <1>2
  <2>2. g[n] = g[n - 1] + tasks[c[n]].timeout /\ f[n] = f[n - 1] + tasks[c[n]].timeout
    BY <1>3, <1>3a, <1>4, <1>4a, <2>1
  <2>3. g[n] = f[n] /\ n \in 0..Len(c)
    BY <1>6, <2>2
  <2>4. QED
    BY <2>3
<1>7. Len(c) \in S
  <2>1. Len(c) \in 0..Len(c)
    BY <1>2
  <2> HIDE DEF S
  <2>2. QED
    BY <1>2, <1>5, <1>6, <2>1, UpTo
<1>8. Len(c) + 1 \in 1..Len(q) /\ (Len(c) + 1) - 1 = Len(c)
  BY <1>2
<1>9. g[Len(c) + 1] = g[Len(c)] + tasks[x].timeout
  BY <1>2, <1>4, <1>4a, <1>8
<1>10. Len(c) \in 0..Len(c) /\ (c = <<>> => Len(c) = 0)
  BY <1>2
<1>11. QED
  BY <1>1, <1>2, <1>3, <1>3a, <1>4, <1>4a, <1>7, <1>9, <1>10

(* A chain is a sequence of places.                                           *)
LEMMA ChainFacts ==
  ASSUME NEW T, NEW s \in Seq(T), NEW c
  PROVE  c \in Chains(s) <=>
           /\ c \in Seq(1..Len(s)) /\ Len(c) <= Len(s)
           /\ \A i \in 1..(Len(c) - 1) : s[c[i]].id \in ToSet(s[c[i + 1]].deps)
<1>1. DOMAIN s = 1..Len(s) /\ Len(s) \in Nat
  OBVIOUS
<1>2. c \in BoundedSeq(DOMAIN s, Len(s)) <=> c \in Seq(1..Len(s)) /\ Len(c) <= Len(s)
  <2>1. ASSUME NEW m \in 0..Len(s), c \in [1..m -> 1..Len(s)]
        PROVE  c \in Seq(1..Len(s)) /\ Len(c) <= Len(s)
    BY <1>1, <2>1
  <2>2. ASSUME c \in Seq(1..Len(s)), Len(c) <= Len(s)
        PROVE  \E m \in 0..Len(s) : c \in [1..m -> 1..Len(s)]
    <3>1. Len(c) \in 0..Len(s) /\ c \in [1..Len(c) -> 1..Len(s)]
      BY <1>1, <2>2
    <3>2. QED
      BY <3>1
  <2>3. c \in BoundedSeq(DOMAIN s, Len(s)) <=> \E m \in 0..Len(s) : c \in [1..m -> 1..Len(s)]
    BY <1>1 DEF BoundedSeq, SeqOf
  <2>4. QED
    BY <2>1, <2>2, <2>3
<1>3. QED
  BY <1>2 DEF Chains

LEMMA BeforeFinite ==
  ASSUME NEW s, NEW k \in Nat
  PROVE  IsFiniteSet(Before(s, k)) /\ Before(s, k) \subseteq 1..(k - 1)
<1>1. k - 1 \in Int /\ 1 \in Int /\ Before(s, k) \in SUBSET (1..(k - 1))
  BY DEF Before
<1>2. IsFiniteSet(1..(k - 1))
  BY <1>1, FS_Interval
<1>3. QED
  BY <1>1, <1>2, FS_Subset

(* No chain over a sound order takes longer than the critical path.           *)
LEMMA ChainWithinPath ==
  ASSUME NEW T, NEW s \in Seq(T), Timed(s),
         IdsApart(s), DepsBefore(s), NEW c \in Chains(s)
  PROVE  Duration(s, c) <= CriticalPath(s)
<1>1. PICK e : Ends(e, s) /\ CriticalPath(s) = MaxOf(e, 1..Len(s))
  BY PathRecurrence
<1>2. /\ c \in Seq(1..Len(s)) /\ Len(s) \in Nat /\ Len(c) \in Nat
      /\ \A i \in 1..(Len(c) - 1) : s[c[i]].id \in ToSet(s[c[i + 1]].deps)
      /\ \A i \in 1..Len(c) : c[i] \in 1..Len(s)
  <2>1. c \in Seq(1..Len(s)) /\ \A i \in 1..(Len(c) - 1) : s[c[i]].id \in ToSet(s[c[i + 1]].deps)
    BY ChainFacts
  <2>2. QED
    BY <2>1
<1>3. PICK f : Sums(f, s, c) /\ Duration(s, c) = f[Len(c)]
  BY <1>2, DurationRecurrence
<1>3a. /\ f[0] = 0
       /\ \A n \in 1..Len(c) : f[n] = f[n - 1] + s[c[n]].timeout
       /\ \A n \in 0..Len(c) : f[n] \in Nat
  BY <1>3 DEF Sums
<1>1a. \A k \in 1..Len(s) : e[k] \in Nat /\ e[k] = s[k].timeout + MaxOf(e, Before(s, k))
  BY <1>1 DEF Ends
<1>1b. \A k \in 1..Len(s) : s[k].timeout \in Nat
  BY DEF Timed
<1>4. PICK p : p = CriticalPath(s)
  OBVIOUS
<1>5. p \in Nat /\ \A k \in 1..Len(s) : e[k] <= p
  <2>1. IsFiniteSet(1..Len(s))
    BY <1>2, FS_Interval
  <2>2. QED
    BY <1>1, <1>1a, <1>1b, <1>4, <2>1, MaxOfValues
<1>6. ASSUME NEW k \in 1..Len(s)
      PROVE  s[k].timeout <= e[k] /\ \A j \in Before(s, k) : e[j] + s[k].timeout <= e[k]
  <2>1. IsFiniteSet(Before(s, k)) /\ \A j \in Before(s, k) : e[j] \in Nat
    <3>1. k \in Nat /\ 1..(k - 1) \subseteq 1..Len(s)
      BY <1>2
    <3>2. QED
      BY <1>1, <1>1a, <1>1b, <3>1, BeforeFinite
  <2>2. PICK m, t : m = MaxOf(e, Before(s, k)) /\ t = s[k].timeout
    OBVIOUS
  <2>3. m \in Nat /\ \A j \in Before(s, k) : e[j] <= m
    BY <2>1, <2>2, MaxOfValues
  <2>4. t \in Nat /\ e[k] \in Nat /\ e[k] = t + m
    BY <1>1, <1>1a, <1>1b, <2>2
  <2>5. t <= e[k] /\ \A j \in Before(s, k) : e[j] + t <= e[k]
    BY <2>1, <2>3, <2>4
  <2>6. QED
    BY <2>2, <2>5
<1>7. ASSUME NEW n \in 1..Len(c), n - 1 \in 1..Len(c)
      PROVE  c[n - 1] \in Before(s, c[n])
  <2>1. PICK j, k : j = c[n - 1] /\ k = c[n]
    OBVIOUS
  <2>2. j \in 1..Len(s) /\ k \in 1..Len(s)
    BY <1>2, <1>7, <2>1
  <2>3. s[j].id \in ToSet(s[k].deps)
    <3>1. n - 1 \in 1..(Len(c) - 1) /\ (n - 1) + 1 = n
      BY <1>2, <1>7
    <3>2. QED
      BY <1>2, <2>1, <3>1
  <2>4. PICK i \in 1..(k - 1) : s[i].id = s[j].id
    BY <2>2, <2>3 DEF DepsBefore
  <2>5. i \in 1..Len(s)
    BY <1>2, <2>2, <2>4
  <2>6. i = j
    BY <2>2, <2>4, <2>5 DEF IdsApart
  <2>7. QED
    BY <2>1, <2>3, <2>4, <2>6 DEF Before
<1> DEFINE S == {n \in 0..Len(c) : n > 0 => f[n] <= e[c[n]]}
<1>8. 0 \in S
  BY <1>2
<1>9. ASSUME NEW n \in 1..Len(c), n - 1 \in S
      PROVE  n \in S
  <2>1. PICK k, t : k = c[n] /\ t = s[k].timeout
    OBVIOUS
  <2>2. k \in 1..Len(s) /\ t \in Nat /\ e[k] \in Nat /\ f[n] = f[n - 1] + t /\ f[n - 1] \in Nat
    <3>1. k \in 1..Len(s) /\ n - 1 \in 0..Len(c)
      BY <1>2, <2>1
    <3>2. QED
      BY <1>1, <1>1a, <1>1b, <1>3, <1>3a, <2>1, <3>1
  <2>3. t <= e[k] /\ \A j \in Before(s, k) : e[j] + t <= e[k]
    BY <1>6, <2>1, <2>2
  <2>4. f[n] <= e[k]
    <3>1. CASE n = 1
      BY <1>3, <1>3a, <2>2, <2>3, <3>1
    <3>2. CASE n # 1
      <4>1. n - 1 \in 1..Len(c) /\ n - 1 > 0
        BY <1>2, <3>2
      <4>2. PICK j : j = c[n - 1]
        OBVIOUS
      <4>3. j \in Before(s, k)
        BY <1>7, <2>1, <4>1, <4>2
      <4>4. f[n - 1] <= e[j] /\ e[j] \in Nat
        <5>1. j \in 1..Len(s)
          BY <1>2, <4>1, <4>2
        <5>2. QED
          BY <1>1, <1>1a, <1>1b, <1>9, <4>1, <4>2, <5>1
      <4>5. e[j] + t <= e[k]
        BY <2>3, <4>3
      <4>6. QED
        BY <2>2, <4>4, <4>5
    <3>3. QED
      BY <3>1, <3>2
  <2>5. n \in 0..Len(c)
    BY <1>2
  <2>6. QED
    BY <2>1, <2>4, <2>5
<1>10. Len(c) \in S
  <2>1. Len(c) \in 0..Len(c)
    BY <1>2
  <2> HIDE DEF S
  <2>2. QED
    BY <1>2, <1>8, <1>9, <2>1, UpTo
<1>11. f[Len(c)] <= p
  <2>1. CASE Len(c) = 0
    BY <1>3, <1>3a, <1>5, <2>1
  <2>2. CASE Len(c) > 0
    <3>1. PICK k : k = c[Len(c)]
      OBVIOUS
    <3>2. k \in 1..Len(s)
      BY <1>2, <2>2, <3>1
    <3>3. f[Len(c)] <= e[k] /\ e[k] <= p /\ e[k] \in Nat /\ f[Len(c)] \in Nat
      BY <1>1, <1>1a, <1>1b, <1>2, <1>3, <1>3a, <1>5, <1>10, <2>2, <3>1, <3>2
    <3>4. QED
      BY <1>5, <3>3
  <2>3. QED
    BY <1>2, <2>1, <2>2
<1>12. QED
  BY <1>3, <1>3a, <1>4, <1>11

(* The critical path of some of the tasks, apart and in order, is as long as  *)
(* a chain over them.                                                         *)
LEMMA PathHasChain ==
  ASSUME NEW T, NEW tasks \in Seq(T), Timed(tasks),
         NEW s \in Seq(ToSet(tasks)), Len(s) <= Len(tasks)
  PROVE  \E c \in Chains(tasks) : Duration(tasks, c) = CriticalPath(s)
<1>1. Len(s) \in Nat /\ Len(tasks) \in Nat
  OBVIOUS
<1>2. ASSUME NEW k \in 1..Len(s)
      PROVE  \E g \in 1..Len(tasks) : tasks[g] = s[k]
  <2>1. s[k] \in ToSet(tasks) /\ DOMAIN tasks = 1..Len(tasks)
    OBVIOUS
  <2>2. QED
    BY <2>1 DEF ToSet
<1>3. \A k \in 1..Len(s) : s[k].timeout \in Nat
  <2>0. \A g \in 1..Len(tasks) : tasks[g].timeout \in Nat
    BY DEF Timed
  <2>1. ASSUME NEW k \in 1..Len(s)
        PROVE  s[k].timeout \in Nat
    <3>1. PICK g \in 1..Len(tasks) : tasks[g] = s[k]
      BY <1>2
    <3>2. tasks[g].timeout \in Nat
      BY <2>0
    <3>3. QED
      BY <3>1, <3>2
  <2>2. QED
    BY <2>1
<1>4. PICK e : Ends(e, s) /\ CriticalPath(s) = MaxOf(e, 1..Len(s))
  BY <1>3, PathRecurrence DEF Timed
<1>4a. \A k \in 1..Len(s) : e[k] \in Nat /\ e[k] = s[k].timeout + MaxOf(e, Before(s, k))
  BY <1>4 DEF Ends
<1> DEFINE Reaches(c, k) ==
             /\ c \in Seq(1..Len(tasks)) /\ Len(c) \in 1..k
             /\ \A i \in 1..(Len(c) - 1) : tasks[c[i]].id \in ToSet(tasks[c[i + 1]].deps)
             /\ tasks[c[Len(c)]] = s[k]
             /\ Duration(tasks, c) = e[k]
           S == {n \in 0..Len(s) : \A k \in 1..n : \E c : Reaches(c, k)}
<1>5. 0 \in S
  BY <1>1
<1>6. ASSUME NEW n \in 1..Len(s), n - 1 \in S
      PROVE  n \in S
  <2>1. \A k \in 1..(n - 1) : \E c : Reaches(c, k)
    <3> HIDE DEF Reaches
    <3> QED
      BY <1>6
  <2>2. PICK x \in 1..Len(tasks) : tasks[x] = s[n]
    BY <1>2
  <2>3. PICK m, t : m = MaxOf(e, Before(s, n)) /\ t = s[n].timeout
    OBVIOUS
  <2>4. t \in Nat /\ e[n] = t + m /\ tasks[x].timeout = t
    BY <1>3, <1>4, <1>4a, <2>2, <2>3
  <2>5. /\ m = 0 \/ \E j \in Before(s, n) : m = e[j]
        /\ Before(s, n) \subseteq 1..(n - 1)
    <3>1. n \in Nat /\ 1..(n - 1) \subseteq 1..Len(s)
      BY <1>1
    <3>2. IsFiniteSet(Before(s, n)) /\ Before(s, n) \subseteq 1..(n - 1)
      BY <3>1, BeforeFinite
    <3>3. \A j \in Before(s, n) : e[j] \in Nat
      BY <1>4, <1>4a, <3>1, <3>2
    <3>4. QED
      BY <2>3, <3>2, <3>3, MaxOfValues
  <2>6. \E c : Reaches(c, n)
    <3>1. CASE m = 0
      <4>1. PICK z, q : z = <<>> /\ q = Append(z, x)
        OBVIOUS
      <4>2. z \in Seq(1..Len(tasks)) /\ q \in Seq(1..Len(tasks)) /\ Len(q) = 1 /\ q[1] = x
        BY <4>1
      <4>3. Duration(tasks, z) = 0 /\ Duration(tasks, q) = Duration(tasks, z) + tasks[x].timeout
        BY <4>1, <4>2, DurationOfAppend
      <4>4. Duration(tasks, q) = e[n]
        BY <2>4, <3>1, <4>3
      <4>5. Reaches(q, n)
        BY <2>2, <4>2, <4>4
      <4>6. QED
        BY <4>5
    <3>2. CASE \E j \in Before(s, n) : m = e[j]
      <4>1. PICK j \in Before(s, n) : m = e[j]
        BY <3>2
      <4>2. j \in 1..(n - 1) /\ s[j].id \in ToSet(s[n].deps)
        BY <2>5, <4>1 DEF Before
      <4>3. PICK z : Reaches(z, j)
        <5> HIDE DEF Reaches
        <5> QED
          BY <2>1, <4>2
      <4>4. PICK q, l : q = Append(z, x) /\ l = Len(z)
        OBVIOUS
      <4>5. /\ z \in Seq(1..Len(tasks)) /\ q \in Seq(1..Len(tasks)) /\ Len(q) = l + 1 /\ q[l + 1] = x
            /\ l \in 1..(n - 1) /\ \A i \in 1..l : q[i] = z[i]
        BY <4>2, <4>3, <4>4
      <4>6. Duration(tasks, q) = e[n]
        <5>1. Duration(tasks, z) = m /\ Duration(tasks, z) \in Nat
          BY <4>1, <4>3, <4>5, DurationOfAppend
        <5>2. Duration(tasks, q) = Duration(tasks, z) + tasks[x].timeout
          BY <4>4, <4>5, DurationOfAppend
        <5>3. QED
          BY <2>4, <5>1, <5>2
      <4>7. ASSUME NEW i \in 1..(Len(q) - 1)
            PROVE  tasks[q[i]].id \in ToSet(tasks[q[i + 1]].deps)
        <5>1. i \in 1..l
          BY <4>5
        <5>2. CASE i = l
          <6>1. q[i] = z[l] /\ q[i + 1] = x /\ tasks[z[l]] = s[j]
            BY <4>3, <4>4, <4>5, <5>2
          <6>2. QED
            BY <2>2, <4>2, <6>1
        <5>3. CASE i # l
          <6>1. i \in 1..(l - 1) /\ i + 1 \in 1..l
            BY <4>5, <5>1, <5>3
          <6>2. q[i] = z[i] /\ q[i + 1] = z[i + 1]
            BY <4>5, <5>1, <6>1
          <6>3. QED
            BY <4>3, <4>4, <6>1, <6>2
        <5>4. QED
          BY <5>2, <5>3
      <4>8. Len(q) \in 1..n /\ tasks[q[Len(q)]] = s[n]
        BY <2>2, <4>5
      <4>9. Reaches(q, n)
        BY <4>5, <4>6, <4>7, <4>8
      <4>10. QED
        BY <4>9
    <3>3. QED
      BY <2>5, <3>1, <3>2
  <2>7. n \in 0..Len(s) /\ \A k \in 1..n : k \in 1..(n - 1) \/ k = n
    BY <1>1
  <2>8. QED
    <3> HIDE DEF Reaches
    <3> QED
      BY <2>1, <2>6, <2>7
<1>7. \A k \in 1..Len(s) : \E c : Reaches(c, k)
  <2>1. Len(s) \in 0..Len(s)
    BY <1>1
  <2>2. Len(s) \in S
    <3> HIDE DEF S
    <3> QED
      BY <1>1, <1>5, <1>6, <2>1, UpTo
  <2>3. QED
    <3> HIDE DEF Reaches
    <3> QED
      BY <2>2
<1>8. CriticalPath(s) = 0 \/ \E k \in 1..Len(s) : CriticalPath(s) = e[k]
  <2>1. IsFiniteSet(1..Len(s)) /\ \A k \in 1..Len(s) : e[k] \in Nat
    BY <1>1, <1>4, <1>4a, FS_Interval
  <2>2. MaxOf(e, 1..Len(s)) = 0 \/ \E k \in 1..Len(s) : MaxOf(e, 1..Len(s)) = e[k]
    <3>1. PICK D : D = 1..Len(s)
      OBVIOUS
    <3>2. MaxOf(e, D) = 0 \/ \E k \in D : MaxOf(e, D) = e[k]
      BY <2>1, <3>1, MaxOfValues
    <3>3. QED
      BY <3>1, <3>2
  <2>3. QED
    BY <1>4, <2>2
<1>9. CASE CriticalPath(s) = 0
  <2>1. PICK z : z = <<>>
    OBVIOUS
  <2>2. z \in Seq(1..Len(tasks)) /\ Len(z) = 0
    BY <2>1
  <2>3. Duration(tasks, z) = 0
    <3>1. PICK f : Sums(f, tasks, z) /\ Duration(tasks, z) = f[Len(z)]
      BY <2>2, DurationRecurrence
    <3>2. f[0] = 0
      BY <3>1 DEF Sums
    <3>3. QED
      BY <2>2, <3>1, <3>2
  <2>4. z \in Chains(tasks)
    <3>1. Len(z) <= Len(tasks) /\ 1..(Len(z) - 1) = {}
      BY <1>1, <2>2
    <3>2. \A i \in 1..(Len(z) - 1) : tasks[z[i]].id \in ToSet(tasks[z[i + 1]].deps)
      BY <3>1
    <3>3. QED
      BY <2>2, <3>1, <3>2, ChainFacts
  <2>5. QED
    BY <1>9, <2>3, <2>4
<1>10. CASE \E k \in 1..Len(s) : CriticalPath(s) = e[k]
  <2>1. PICK k \in 1..Len(s) : CriticalPath(s) = e[k]
    BY <1>10
  <2>2. PICK c : Reaches(c, k)
    <3> HIDE DEF Reaches
    <3> QED
      BY <1>7
  <2>3. c \in Chains(tasks)
    <3>1. Len(c) <= Len(tasks)
      BY <1>1, <2>2
    <3>2. QED
      BY <2>2, <3>1, ChainFacts
  <2>4. QED
    BY <2>1, <2>2, <2>3
<1>11. QED
  BY <1>8, <1>9, <1>10

(* What sequences are made of is in the flattened one.                        *)
LEMMA FlattenFacts ==
  ASSUME NEW X, NEW ss \in Seq(Seq(X))
  PROVE  /\ FlattenSeq(ss) \in Seq(X)
         /\ \A i \in 1..Len(ss) : \A j \in 1..Len(ss[i]) :
              \E k \in 1..Len(FlattenSeq(ss)) : FlattenSeq(ss)[k] = ss[i][j]
<1> DEFINE N == Len(ss)
           V == Seq(X)
           Found(g) == g = [i \in 1..N |-> IF i = 1 THEN ss[i] ELSE g[i - 1] \o ss[i]]
           step == [p \in (1..N) \X V |-> IF p[1] = 1 THEN ss[1] ELSE p[2] \o ss[p[1]]]
<1>1. N \in Nat /\ (\A i \in 1..N : ss[i] \in V) /\ <<>> \in V
  OBVIOUS
<1>2. CASE N = 0
  <2>1. FlattenSeq(ss) = ss /\ ss = <<>>
    BY <1>2 DEF FlattenSeq
  <2>2. QED
    BY <1>2, <2>1
<1>3. CASE N # 0
  <2>1. \A k \in 1..N : \A v \in V :
          step[<<k, v>>] = (IF k = 1 THEN ss[1] ELSE v \o ss[k]) /\ step[<<k, v>>] \in V
    <3>1. \A u, v \in V : u \o v \in V
      OBVIOUS
    <3> HIDE DEF N, V
    <3>2. \A k \in 1..N : \A v \in V : step[<<k, v>>] = (IF k = 1 THEN ss[1] ELSE v \o ss[k])
      OBVIOUS
    <3> HIDE DEF step
    <3>3. QED
      BY <1>1, <3>1, <3>2
  <2> HIDE DEF N, V, step, Found
  <2>2. PICK h \in [0..N -> V] : h[0] = <<>> /\ \A k \in 1..N : h[k] = step[<<k, h[k - 1]>>]
    <3>1. IsStepwise(V, N, <<>>, step)
      BY <1>1, <2>1 DEF IsStepwise
    <3>2. QED
      BY <3>1, FunctionByStep
  <2>3. PICK f : f = [i \in 1..N |-> h[i]]
    OBVIOUS
  <2>4. \A i \in 1..N : f[i] = IF i = 1 THEN ss[i] ELSE f[i - 1] \o ss[i]
    <3>1. \A i \in 1..N : i - 1 \in 0..N /\ i \in 0..N /\ (i # 1 => i - 1 \in 1..N)
      BY <1>1
    <3>2. \A i \in 1..N : h[i - 1] \in V /\ h[i] = IF i = 1 THEN ss[1] ELSE h[i - 1] \o ss[i]
      BY <2>1, <2>2, <3>1
    <3>3. ASSUME NEW i \in 1..N
          PROVE  f[i] = IF i = 1 THEN ss[i] ELSE f[i - 1] \o ss[i]
      <4>1. CASE i = 1
        BY <2>3, <3>2, <4>1
      <4>2. CASE i # 1
        <5>1. f[i] = h[i] /\ f[i - 1] = h[i - 1]
          BY <2>3, <3>1, <4>2
        <5>2. QED
          BY <3>2, <4>2, <5>1
      <4>3. QED
        BY <4>1, <4>2
    <3>4. QED
      BY <3>3
  <2>5. Found(f)
    <3> DEFINE r == [i \in 1..N |-> IF i = 1 THEN ss[i] ELSE f[i - 1] \o ss[i]]
    <3>1. \A i \in 1..N : f[i] = r[i]
      BY <2>4
    <3>2. f = r
      <4>1. f = [i \in 1..N |-> f[i]] /\ r = [i \in 1..N |-> r[i]]
        BY <2>3
      <4> HIDE DEF r
      <4>2. QED
        BY <3>1, <4>1
    <3>3. QED
      BY <3>2 DEF Found
  <2>6. FlattenSeq(ss) = (CHOOSE g : Found(g))[N]
    BY <1>3 DEF FlattenSeq, N, Found
  <2>7. PICK g : g = CHOOSE r : Found(r)
    OBVIOUS
  <2>8. Found(g) /\ FlattenSeq(ss) = g[N]
    BY <2>5, <2>6, <2>7
  <2>9. \A i \in 1..N : g[i] = IF i = 1 THEN ss[i] ELSE g[i - 1] \o ss[i]
    BY <2>8 DEF Found
  <2> DEFINE Holds(q, n) == \A i \in 1..n : \A j \in 1..Len(ss[i]) : \E k \in 1..Len(q) : q[k] = ss[i][j]
             S == {n \in 0..N : n > 0 => g[n] \in Seq(X) /\ Holds(g[n], n)}
  <2>10. 0 \in S
    BY <1>1
  <2>11. ASSUME NEW n \in 1..N, n - 1 \in S
         PROVE  n \in S
    <3>1. n \in 0..N /\ n \in Nat
      BY <1>1
    <3>2. ss[n] \in Seq(X)
      BY <1>1 DEF V
    <3>3. CASE n = 1
      <4>1. g[n] = ss[n]
        BY <2>9, <3>3
      <4>2. \A i \in 1..n : i = n
        BY <3>3
      <4>3. QED
        BY <3>1, <3>2, <4>1, <4>2
    <3>4. CASE n # 1
      <4>1. n - 1 > 0
        BY <3>1, <3>4
      <4>2. PICK p, t, q : p = g[n - 1] /\ t = ss[n] /\ q = g[n]
        OBVIOUS
      <4>3. q = p \o t /\ p \in Seq(X) /\ t \in Seq(X) /\ Holds(p, n - 1)
        BY <2>9, <2>11, <3>2, <3>4, <4>1, <4>2
      <4>4. /\ q \in Seq(X) /\ Len(q) = Len(p) + Len(t) /\ Len(p) \in Nat /\ Len(t) \in Nat
            /\ (\A k \in 1..Len(p) : q[k] = p[k]) /\ (\A k \in 1..Len(t) : q[Len(p) + k] = t[k])
        BY <4>3
      <4>5. Holds(q, n)
        <5>1. ASSUME NEW i \in 1..n, NEW j \in 1..Len(ss[i])
              PROVE  \E k \in 1..Len(q) : q[k] = ss[i][j]
          <6>1. CASE i = n
            <7>1. j \in 1..Len(t) /\ ss[i][j] = t[j]
              BY <4>2, <5>1, <6>1
            <7>2. Len(p) + j \in 1..Len(q) /\ q[Len(p) + j] = t[j]
              BY <4>4, <7>1
            <7>3. QED
              BY <7>1, <7>2
          <6>2. CASE i # n
            <7>1. i \in 1..(n - 1)
              BY <3>1, <6>2
            <7>2. PICK k \in 1..Len(p) : p[k] = ss[i][j]
              BY <4>3, <5>1, <7>1
            <7>3. k \in 1..Len(q) /\ q[k] = ss[i][j]
              BY <4>4, <7>2
            <7>4. QED
              BY <7>3
          <6>3. QED
            BY <6>1, <6>2
        <5>2. QED
          BY <5>1
      <4> HIDE DEF Holds
      <4>6. QED
        BY <3>1, <4>2, <4>4, <4>5
    <3>5. QED
      BY <3>3, <3>4
  <2>12. N \in S
    <3>1. N \in 0..N
      BY <1>1
    <3> HIDE DEF S
    <3>2. QED
      BY <1>1, <2>10, <2>11, <3>1, UpTo
  <2>13. FlattenSeq(ss) \in Seq(X) /\ Holds(FlattenSeq(ss), N)
    <3>1. N > 0
      BY <1>1, <1>3
    <3> HIDE DEF Holds
    <3>2. QED
      BY <2>8, <2>12, <3>1
  <2>14. QED
    BY <2>13 DEF N
<1>4. QED
  BY <1>2, <1>3

(* A verdict other than accepted is the code of the first rule broken.        *)
LEMMA FirstBrokenFacts ==
  ASSUME NEW Codes, "accepted" \notin Codes, NEW rules \in Seq(BOOLEAN \X Codes)
  PROVE  /\ FirstBroken(rules) = "accepted" => \A k \in 1..Len(rules) : ~ rules[k][1]
         /\ FirstBroken(rules) # "accepted" =>
              \E m \in 1..Len(rules) :
                /\ rules[m][1] /\ rules[m][2] = FirstBroken(rules)
                /\ \A k \in 1..(m - 1) : ~ rules[k][1]
<1> DEFINE broken == {k \in DOMAIN rules : rules[k][1]}
<1>1. DOMAIN rules = 1..Len(rules) /\ Len(rules) \in Nat
  OBVIOUS
<1>2. CASE broken = {}
  BY <1>1, <1>2 DEF FirstBroken
<1>3. CASE broken # {}
  <2>1. broken \subseteq Nat
    BY <1>1
  <2>2. PICK m : m = Min(broken)
    OBVIOUS
  <2>3. m \in broken /\ \A k \in broken : m <= k
    <3> HIDE DEF broken
    <3>1. \E x \in broken : \A y \in broken : x <= y
      BY <1>3, <2>1, NatLeast
    <3>2. QED
      BY <2>2, <3>1 DEF Min
  <2>4. FirstBroken(rules) = rules[m][2]
    BY <1>3, <2>2 DEF FirstBroken
  <2>5. m \in 1..Len(rules) /\ rules[m][1] /\ rules[m] \in BOOLEAN \X Codes
    BY <1>1, <2>3
  <2>6. rules[m][2] # "accepted"
    BY <2>5
  <2>7. ASSUME NEW k \in 1..(m - 1)
        PROVE  ~ rules[k][1]
    <3>1. k \in DOMAIN rules /\ ~ (m <= k)
      BY <1>1, <2>5
    <3>2. k \notin broken
      BY <2>3, <3>1
    <3>3. QED
      BY <3>1, <3>2
  <2>8. QED
    BY <2>4, <2>5, <2>6, <2>7
<1>4. QED
  BY <1>2, <1>3
-----------------------------------------------------------------------------
(* Verdicts *)

OuterCodes == {"invalid_mode_payload", "task_limit_exceeded", "duplicate_task_id"}
TaskCodes == {"unknown_subagent", "task_timeout_exceeded", "duplicate_dependency",
              "self_dependency", "unknown_dependency", "duplicate_hint"}
JoinCodes == {"dependency_cycle", "invalid_synthesis", "run_timeout_exceeded"}
Codes == OuterCodes \union TaskCodes \union JoinCodes

Unbroken(rules) == \A k \in 1..Len(rules) : ~ rules[k][1]
FirstIs(rules, code) ==
  \E m \in 1..Len(rules) : rules[m][1] /\ rules[m][2] = code /\ \A k \in 1..(m - 1) : ~ rules[k][1]

(* What a verdict over rules in three parts says of the parts.                *)
LEMMA PartsFacts ==
  ASSUME NEW A \in Seq(BOOLEAN \X OuterCodes), NEW F \in Seq(BOOLEAN \X TaskCodes),
         NEW C \in Seq(BOOLEAN \X JoinCodes)
  PROVE  /\ FirstBroken(A \o F \o C) = "accepted" => Unbroken(A) /\ Unbroken(F) /\ Unbroken(C)
         /\ FirstBroken(A \o F \o C) \in JoinCodes =>
              Unbroken(A) /\ Unbroken(F) /\ FirstIs(C, FirstBroken(A \o F \o C))
<1>0. PICK rules : rules = A \o F \o C
  OBVIOUS
<1>1. BOOLEAN \X OuterCodes \subseteq BOOLEAN \X Codes /\ BOOLEAN \X TaskCodes \subseteq BOOLEAN \X Codes
      /\ BOOLEAN \X JoinCodes \subseteq BOOLEAN \X Codes
  BY DEF Codes
<1>2. PICK R : R = BOOLEAN \X Codes
  OBVIOUS
<1>3. A \in Seq(R) /\ F \in Seq(R) /\ C \in Seq(R)
  BY <1>1, <1>2
<1>4. PICK AF : AF = A \o F
  OBVIOUS
<1>5. PICK a, f, c : a = Len(A) /\ f = Len(F) /\ c = Len(C)
  OBVIOUS
<1>6. AF \in Seq(R) /\ Len(AF) = a + f /\ a \in Nat /\ f \in Nat /\ c \in Nat
      /\ \A i \in 1..(a + f) : AF[i] = IF i <= a THEN A[i] ELSE F[i - a]
  BY <1>3, <1>4, <1>5, ConcatProperties
<1>7. rules = AF \o C
  BY <1>0, <1>4
<1>8. rules \in Seq(R) /\ Len(rules) = a + f + c
      /\ \A i \in 1..(a + f + c) : rules[i] = IF i <= a + f THEN AF[i] ELSE C[i - (a + f)]
  <2>1. PICK q : q = AF \o C
    OBVIOUS
  <2>2. AF \in Seq(R) /\ C \in Seq(R)
    BY <1>3, <1>6
  <2>3. q \in Seq(R) /\ Len(q) = Len(AF) + Len(C)
        /\ \A i \in 1..(Len(AF) + Len(C)) : q[i] = IF i <= Len(AF) THEN AF[i] ELSE C[i - Len(AF)]
    BY <2>1, <2>2, ConcatProperties
  <2>4. Len(AF) = a + f /\ Len(C) = c /\ q = rules
    BY <1>5, <1>6, <1>7, <2>1
  <2>5. QED
    BY <2>3, <2>4
<1>9. \A i \in 1..a : i \in 1..(a + f + c) /\ rules[i] = A[i]
  BY <1>6, <1>8
<1>10. \A i \in 1..f : a + i \in 1..(a + f + c) /\ rules[a + i] = F[i]
  <2>1. \A i \in 1..f : a + i \in 1..(a + f) /\ ~ (a + i <= a) /\ (a + i) - a = i
    BY <1>6
  <2>2. \A i \in 1..f : AF[a + i] = F[i]
    BY <1>6, <2>1
  <2>3. \A i \in 1..f : a + i \in 1..(a + f + c) /\ a + i <= a + f
    BY <1>6
  <2>4. QED
    BY <1>8, <2>2, <2>3
<1>11. \A i \in 1..c : a + f + i \in 1..(a + f + c) /\ rules[a + f + i] = C[i]
  <2>1. \A i \in 1..c : a + f + i \in 1..(a + f + c) /\ ~ (a + f + i <= a + f) /\ (a + f + i) - (a + f) = i
    BY <1>6
  <2>2. QED
    BY <1>8, <2>1
<1>12. "accepted" \notin Codes
  BY DEF Codes, OuterCodes, TaskCodes, JoinCodes
<1>13. CASE FirstBroken(rules) = "accepted"
  <2>1. \A k \in 1..(a + f + c) : ~ rules[k][1]
    BY <1>2, <1>8, <1>12, <1>13, FirstBrokenFacts
  <2>2. \A k \in 1..a : ~ A[k][1]
    BY <1>9, <2>1
  <2>3. \A k \in 1..f : ~ F[k][1]
    BY <1>10, <2>1
  <2>4. \A k \in 1..c : ~ C[k][1]
    BY <1>11, <2>1
  <2>5. "accepted" \notin JoinCodes
    BY DEF JoinCodes
  <2>6. QED
    BY <1>0, <1>5, <1>13, <2>2, <2>3, <2>4, <2>5 DEF Unbroken
<1>14. CASE FirstBroken(rules) # "accepted"
  <2>1. PICK m \in 1..(a + f + c) : /\ rules[m][1] /\ rules[m][2] = FirstBroken(rules)
                                   /\ \A k \in 1..(m - 1) : ~ rules[k][1]
    BY <1>2, <1>8, <1>12, <1>14, FirstBrokenFacts
  <2>3. ASSUME FirstBroken(rules) \in JoinCodes
        PROVE  /\ \A k \in 1..a : ~ A[k][1]
               /\ \A k \in 1..f : ~ F[k][1]
               /\ \E n \in 1..c : /\ C[n][1] /\ C[n][2] = FirstBroken(rules)
                                  /\ \A k \in 1..(n - 1) : ~ C[k][1]
    <3>1. m \notin 1..a
      <4>1. ASSUME m \in 1..a PROVE FALSE
        <5>1. A[m] \in BOOLEAN \X OuterCodes /\ A[m] = rules[m]
          BY <1>5, <1>9, <4>1
        <5>2. A[m][2] \in OuterCodes
          BY <5>1
        <5>3. QED
          BY <2>1, <2>3, <5>1, <5>2 DEF OuterCodes, JoinCodes
      <4>2. QED
        BY <4>1
    <3>2. m - a \notin 1..f
      <4>1. ASSUME m - a \in 1..f PROVE FALSE
        <5>1. a + (m - a) = m
          BY <1>6, <2>1
        <5>2. F[m - a] \in BOOLEAN \X TaskCodes /\ F[m - a] = rules[m]
          BY <1>5, <1>10, <4>1, <5>1
        <5>3. F[m - a][2] \in TaskCodes
          BY <5>2
        <5>4. QED
          BY <2>1, <2>3, <5>2, <5>3 DEF TaskCodes, JoinCodes
      <4>2. QED
        BY <4>1
    <3>3. PICK n : n = m - (a + f)
      OBVIOUS
    <3>4. n \in 1..c /\ m = a + f + n
      BY <1>6, <2>1, <3>1, <3>2, <3>3
    <3>5. C[n] = rules[m]
      BY <1>11, <3>4
    <3>6. ASSUME NEW k \in 1..(n - 1)
          PROVE  ~ C[k][1]
      <4>1. k \in 1..c /\ a + f + k \in 1..(m - 1)
        BY <1>6, <2>1, <3>4
      <4>2. rules[a + f + k] = C[k]
        BY <1>11, <4>1
      <4>3. QED
        BY <2>1, <4>1, <4>2
    <3>7. ASSUME NEW k \in 1..a
          PROVE  ~ A[k][1]
      <4>0. k \in 1..(m - 1)
        <5>1. n \in Int /\ n >= 1 /\ m = a + f + n /\ a \in Nat /\ f \in Nat
          BY <1>6, <3>4
        <5>2. QED
          BY <5>1
      <4>1. k \in 1..(m - 1) /\ rules[k] = A[k]
        BY <1>9, <4>0
      <4>2. QED
        BY <2>1, <4>1
    <3>8. ASSUME NEW k \in 1..f
          PROVE  ~ F[k][1]
      <4>0. a + k \in 1..(m - 1)
        <5>1. n \in Int /\ n >= 1 /\ m = a + f + n /\ a \in Nat /\ f \in Nat
          BY <1>6, <3>4
        <5>2. QED
          BY <5>1
      <4>1. a + k \in 1..(m - 1) /\ rules[a + k] = F[k]
        BY <1>10, <4>0
      <4>2. QED
        BY <2>1, <4>1
    <3>9. QED
      BY <2>1, <3>4, <3>5, <3>6, <3>7, <3>8
  <2>4. QED
    BY <1>0, <1>5, <1>14, <2>3 DEF Unbroken, FirstIs
<1>15. QED
  BY <1>13, <1>14

(* A sound order over tasks that are apart has no more of them than there are,*)
(* and all of them when it has as many.                                       *)
LEMMA OrderCounts ==
  ASSUME NEW T, NEW tasks \in Seq(T), Cardinality(TaskIds(tasks)) = Len(tasks),
         NEW s \in SoundOrders(tasks)
  PROVE  /\ Cardinality(TaskIds(s)) = Len(s)
         /\ Len(s) <= Len(tasks)
         /\ Len(s) = Len(tasks) => ToSet(s) = ToSet(tasks)
         /\ Len(s) < Len(tasks) => TaskIds(tasks) \ TaskIds(s) # {}
<1> DEFINE f == [k \in 1..Len(tasks) |-> tasks[k].id]
           g == [k \in 1..Len(s) |-> s[k].id]
<1>1. Len(tasks) \in Nat /\ Len(s) \in Nat /\ s \in Seq(ToSet(tasks)) /\ IdsApart(s)
  BY DEF SoundOrders
<1>2. /\ IsFiniteSet(1..Len(tasks)) /\ Cardinality(1..Len(tasks)) = Len(tasks)
      /\ IsFiniteSet(1..Len(s)) /\ Cardinality(1..Len(s)) = Len(s)
  <2>1. ASSUME NEW n \in Nat
        PROVE  IsFiniteSet(1..n) /\ Cardinality(1..n) = n
    <3>1. n \in Int /\ 1 \in Int
      OBVIOUS
    <3>2. IsFiniteSet(1..n) /\ Cardinality(1..n) = IF 1 > n THEN 0 ELSE n - 1 + 1
      BY <3>1, FS_Interval
    <3>3. QED
      BY <3>2
  <2>2. QED
    BY <1>1, <2>1
<1>3. IsFiniteSet(TaskIds(tasks)) /\ \A i, j \in 1..Len(tasks) : tasks[i].id = tasks[j].id => i = j
  <2>1. f \in Surjection(1..Len(tasks), TaskIds(tasks))
    <3>1. \A x : x \in TaskIds(tasks) <=> \E i \in 1..Len(tasks) : tasks[i].id = x
      BY IdsOfTasks
    <3>2. QED
      BY <3>1 DEF Surjection
  <2>2. IsFiniteSet(TaskIds(tasks)) /\ f \in Injection(1..Len(tasks), TaskIds(tasks))
    <3> HIDE DEF f
    <3> QED
      BY <1>2, <2>1, FS_Surjection
  <2>3. \A i, j \in 1..Len(tasks) : f[i] = f[j] => i = j
    <3> HIDE DEF f
    <3> QED
      BY <2>2 DEF Injection, IsInjective
  <2>4. QED
    BY <2>2, <2>3
<1>4. Cardinality(TaskIds(s)) = Len(s)
  <2>1. \A x : x \in TaskIds(s) <=> \E i \in 1..Len(s) : s[i].id = x
    BY <1>1, IdsOfTasks
  <2>2. g \in Surjection(1..Len(s), TaskIds(s))
    BY <2>1 DEF Surjection
  <2>3. g \in Injection(1..Len(s), TaskIds(s))
    <3>1. g \in [1..Len(s) -> TaskIds(s)] /\ DOMAIN g = 1..Len(s)
      BY <2>1
    <3>2. \A i, j \in 1..Len(s) : g[i] = g[j] => i = j
      BY <1>1 DEF IdsApart
    <3> HIDE DEF g
    <3>3. QED
      BY <3>1, <3>2 DEF Injection, IsInjective
  <2> HIDE DEF g
  <2>4. QED
    BY <1>2, <2>2, <2>3, FS_Surjection
<1>5. \A i \in 1..Len(s) : \E j \in 1..Len(tasks) : s[i] = tasks[j]
  <2>1. DOMAIN tasks = 1..Len(tasks) /\ \A i \in 1..Len(s) : s[i] \in ToSet(tasks)
    BY <1>1
  <2>2. QED
    BY <2>1 DEF ToSet
<1>6. TaskIds(s) \subseteq TaskIds(tasks)
  <2>1. \A x : x \in TaskIds(s) <=> \E i \in 1..Len(s) : s[i].id = x
    BY <1>1, IdsOfTasks
  <2>2. \A x : x \in TaskIds(tasks) <=> \E i \in 1..Len(tasks) : tasks[i].id = x
    BY IdsOfTasks
  <2>3. QED
    BY <1>5, <2>1, <2>2
<1>7. /\ Cardinality(TaskIds(s)) <= Cardinality(TaskIds(tasks))
      /\ Cardinality(TaskIds(tasks)) = Cardinality(TaskIds(s)) => TaskIds(tasks) = TaskIds(s)
  BY <1>3, <1>6, FS_Subset
<1>8. ASSUME Len(s) = Len(tasks)
      PROVE  ToSet(s) = ToSet(tasks)
  <2>1. TaskIds(tasks) = TaskIds(s)
    BY <1>4, <1>7, <1>8
  <2>2. ASSUME NEW j \in 1..Len(tasks)
        PROVE  \E i \in 1..Len(s) : s[i] = tasks[j]
    <3>1. tasks[j].id \in TaskIds(s)
      BY <2>1, IdsOfTasks
    <3>2. PICK i \in 1..Len(s) : s[i].id = tasks[j].id
      BY <1>1, <3>1, IdsOfTasks
    <3>3. PICK l \in 1..Len(tasks) : s[i] = tasks[l]
      BY <1>5
    <3>4. l = j
      BY <1>3, <3>2, <3>3
    <3>5. QED
      BY <3>3, <3>4
  <2>3. DOMAIN tasks = 1..Len(tasks) /\ DOMAIN s = 1..Len(s)
    BY <1>1
  <2>4. \A x : x \in ToSet(s) <=> \E i \in 1..Len(s) : x = s[i]
    BY <2>3 DEF ToSet
  <2>5. \A x : x \in ToSet(tasks) <=> \E j \in 1..Len(tasks) : x = tasks[j]
    BY <2>3 DEF ToSet
  <2>6. \A x : x \in ToSet(s) <=> x \in ToSet(tasks)
    <3>1. ASSUME NEW x, x \in ToSet(s)
          PROVE  x \in ToSet(tasks)
      <4>1. PICK i \in 1..Len(s) : x = s[i]
        BY <2>4, <3>1
      <4>2. PICK j \in 1..Len(tasks) : s[i] = tasks[j]
        BY <1>5
      <4>3. QED
        BY <2>5, <4>1, <4>2
    <3>2. ASSUME NEW x, x \in ToSet(tasks)
          PROVE  x \in ToSet(s)
      <4>1. PICK j \in 1..Len(tasks) : x = tasks[j]
        BY <2>5, <3>2
      <4>2. PICK i \in 1..Len(s) : s[i] = tasks[j]
        BY <2>2
      <4>3. QED
        BY <2>4, <4>1, <4>2
    <3>3. QED
      BY <3>1, <3>2
  <2>7. QED
    BY <2>6
<1>9. ASSUME Len(s) < Len(tasks), TaskIds(tasks) \ TaskIds(s) = {}
      PROVE  FALSE
  <2>1. TaskIds(tasks) = TaskIds(s)
    BY <1>6, <1>9
  <2>2. Len(tasks) = Len(s)
    BY <1>4, <2>1
  <2>3. QED
    BY <1>1, <1>9, <2>2
<1>10. QED
  BY <1>4, <1>7, <1>8, <1>9

(* Tasks none of which is ready wait for one another in a circle.             *)
LEMMA StuckInCircle ==
  ASSUME NEW T, NEW tasks \in Seq(T), NEW s \in SoundOrders(tasks), IsStuck(tasks, s),
         TaskIds(tasks) \ TaskIds(s) # {},
         \A k \in 1..Len(tasks) : ToSet(tasks[k].deps) \subseteq TaskIds(tasks)
  PROVE  WaitsInCircle(tasks)
<1> DEFINE S == TaskIds(tasks) \ TaskIds(s)
<1>1. DOMAIN tasks = 1..Len(tasks)
  OBVIOUS
<1>2. ASSUME NEW k \in 1..Len(tasks), tasks[k].id \in S
      PROVE  ToSet(tasks[k].deps) \intersect S # {}
  <2>1. ~ (ToSet(tasks[k].deps) \subseteq TaskIds(s))
    BY <1>2 DEF IsStuck, IsReady
  <2>2. PICK x \in ToSet(tasks[k].deps) : x \notin TaskIds(s)
    BY <2>1
  <2>3. x \in S
    BY <2>2
  <2>4. QED
    BY <2>3
<1>3. S \in (SUBSET TaskIds(tasks)) \ {{}}
  OBVIOUS
<1>4. QED
  <2> HIDE DEF S
  <2> QED
    BY <1>1, <1>2, <1>3 DEF WaitsInCircle

(* The rules of one task.                                                     *)
LEMMA TaskRulesFacts ==
  ASSUME NEW t, NEW ids, NEW catalog, NEW limits
  PROVE  /\ TaskRules(t, ids, catalog, limits) \in Seq(BOOLEAN \X TaskCodes)
         /\ Len(TaskRules(t, ids, catalog, limits)) = 6
         /\ TaskRules(t, ids, catalog, limits)[5][1] <=> ~ (ToSet(t.deps) \subseteq ids)
<1>1. PICK b1, b2, b3, b4, b5, b6 :
        /\ b1 = (t.subagent \notin catalog.subagents) /\ b2 = (t.timeout > limits.taskTimeout)
        /\ b3 = (~IsInjective(t.deps)) /\ b4 = (t.id \in ToSet(t.deps)) /\ b5 = (~(ToSet(t.deps) \subseteq ids))
        /\ b6 = (~(IsInjective(t.connections) /\ IsInjective(t.tools)))
  OBVIOUS
<1>2. b1 \in BOOLEAN /\ b2 \in BOOLEAN /\ b3 \in BOOLEAN /\ b4 \in BOOLEAN /\ b5 \in BOOLEAN /\ b6 \in BOOLEAN
  BY <1>1
<1>3. PICK q : q = TaskRules(t, ids, catalog, limits)
  OBVIOUS
<1>4. q = << <<b1, "unknown_subagent">>, <<b2, "task_timeout_exceeded">>, <<b3, "duplicate_dependency">>,
             <<b4, "self_dependency">>, <<b5, "unknown_dependency">>, <<b6, "duplicate_hint">> >>
  BY <1>1, <1>3 DEF TaskRules
<1>5. q \in Seq(BOOLEAN \X TaskCodes) /\ Len(q) = 6 /\ (q[5][1] <=> b5)
  <2>1. /\ <<b1, "unknown_subagent">> \in BOOLEAN \X TaskCodes
        /\ <<b2, "task_timeout_exceeded">> \in BOOLEAN \X TaskCodes
        /\ <<b3, "duplicate_dependency">> \in BOOLEAN \X TaskCodes
        /\ <<b4, "self_dependency">> \in BOOLEAN \X TaskCodes
        /\ <<b5, "unknown_dependency">> \in BOOLEAN \X TaskCodes
        /\ <<b6, "duplicate_hint">> \in BOOLEAN \X TaskCodes
    BY <1>2 DEF TaskCodes
  <2>2. q \in Seq(BOOLEAN \X TaskCodes)
    BY <1>4, <2>1
  <2>3. QED
    BY <1>4, <2>2
<1>6. QED
  BY <1>1, <1>3, <1>5

(* What a verdict over a delegation says of the decision.                     *)
LEMMA DelegateVerdict ==
  ASSUME NEW d \in Decisions, d.mode = "delegate", NEW v, v = Verdict(d, Catalog, Limits)
  PROVE  /\ v \in JoinCodes \union {"accepted"} =>
              /\ d.answer = NoAnswer /\ d.tasks # <<>> /\ ~ (Len(d.tasks) > Limits.tasks)
              /\ Cardinality(TaskIds(d.tasks)) = Len(d.tasks)
              /\ \A k \in 1..Len(d.tasks) : ToSet(d.tasks[k].deps) \subseteq TaskIds(d.tasks)
         /\ v = "accepted" =>
              /\ ~ (Len(TopologicalOrder(d.tasks)) < Len(d.tasks))
              /\ SynthesisAllowed(d, Catalog)
              /\ ~ (CriticalPath(TopologicalOrder(d.tasks)) > Limits.runTimeout)
         /\ v = "dependency_cycle" => Len(TopologicalOrder(d.tasks)) < Len(d.tasks)
         /\ v = "run_timeout_exceeded" =>
              /\ ~ (Len(TopologicalOrder(d.tasks)) < Len(d.tasks))
              /\ CriticalPath(TopologicalOrder(d.tasks)) > Limits.runTimeout
<1>1. PICK tasks, ids, ordered : tasks = d.tasks /\ ids = TaskIds(d.tasks) /\ ordered = TopologicalOrder(d.tasks)
  OBVIOUS
<1>2. tasks \in Seq(ToSet(tasks)) /\ DOMAIN tasks = 1..Len(tasks) /\ Len(tasks) \in Nat
  <2>1. tasks \in Seq(ToSet(tasks))
    BY <1>1, AnswerAssumption DEF IsDecision
  <2>2. QED
    BY <2>1
<1>3. PICK a1, a2, a3, c1, c2, c3 :
        /\ a1 = (d.answer # NoAnswer \/ d.skill # NoSkill \/ tasks = <<>>)
        /\ a2 = (Len(tasks) > Limits.tasks) /\ a3 = (Cardinality(ids) # Len(tasks))
        /\ c1 = (Len(ordered) < Len(tasks)) /\ c2 = (~ SynthesisAllowed(d, Catalog))
        /\ c3 = (CriticalPath(ordered) > Limits.runTimeout)
  OBVIOUS
<1>4. a1 \in BOOLEAN /\ a2 \in BOOLEAN /\ a3 \in BOOLEAN /\ c1 \in BOOLEAN /\ c2 \in BOOLEAN /\ c3 \in BOOLEAN
  BY <1>3
<1>5. PICK A, C, ss : /\ A = << <<a1, "invalid_mode_payload">>, <<a2, "task_limit_exceeded">>, <<a3, "duplicate_task_id">> >>
                      /\ C = << <<c1, "dependency_cycle">>, <<c2, "invalid_synthesis">>, <<c3, "run_timeout_exceeded">> >>
                      /\ ss = [k \in DOMAIN tasks |-> TaskRules(tasks[k], ids, Catalog, Limits)]
  OBVIOUS
<1>6. A \in Seq(BOOLEAN \X OuterCodes) /\ Len(A) = 3 /\ (A[1][1] <=> a1) /\ (A[2][1] <=> a2) /\ (A[3][1] <=> a3)
  <2>1. /\ <<a1, "invalid_mode_payload">> \in BOOLEAN \X OuterCodes
        /\ <<a2, "task_limit_exceeded">> \in BOOLEAN \X OuterCodes
        /\ <<a3, "duplicate_task_id">> \in BOOLEAN \X OuterCodes
    BY <1>4 DEF OuterCodes
  <2>2. A \in Seq(BOOLEAN \X OuterCodes)
    BY <1>5, <2>1
  <2>3. QED
    BY <1>5, <2>2
<1>7. /\ C \in Seq(BOOLEAN \X JoinCodes) /\ Len(C) = 3 /\ (C[1][1] <=> c1) /\ (C[2][1] <=> c2) /\ (C[3][1] <=> c3)
      /\ C[1][2] = "dependency_cycle" /\ C[2][2] = "invalid_synthesis" /\ C[3][2] = "run_timeout_exceeded"
  <2>1. /\ <<c1, "dependency_cycle">> \in BOOLEAN \X JoinCodes
        /\ <<c2, "invalid_synthesis">> \in BOOLEAN \X JoinCodes
        /\ <<c3, "run_timeout_exceeded">> \in BOOLEAN \X JoinCodes
    BY <1>4 DEF JoinCodes
  <2>2. C \in Seq(BOOLEAN \X JoinCodes)
    BY <1>5, <2>1
  <2>3. QED
    BY <1>5, <2>2
<1>8. ss \in Seq(Seq(BOOLEAN \X TaskCodes)) /\ Len(ss) = Len(tasks)
  <2>1. \A k \in 1..Len(tasks) : ss[k] \in Seq(BOOLEAN \X TaskCodes)
    BY <1>2, <1>5, TaskRulesFacts
  <2>2. ss = [k \in 1..Len(tasks) |-> ss[k]]
    BY <1>2, <1>5
  <2>3. QED
    BY <1>2, <2>1, <2>2
<1>9. PICK F : F = FlattenSeq(ss)
  OBVIOUS
<1>10. /\ F \in Seq(BOOLEAN \X TaskCodes)
       /\ \A i \in 1..Len(ss) : \A j \in 1..Len(ss[i]) : \E k \in 1..Len(F) : F[k] = ss[i][j]
  <2>1. PICK X : X = BOOLEAN \X TaskCodes
    OBVIOUS
  <2>2. ss \in Seq(Seq(X))
    BY <1>8, <2>1
  <2>3. /\ F \in Seq(X)
        /\ \A i \in 1..Len(ss) : \A j \in 1..Len(ss[i]) : \E k \in 1..Len(F) : F[k] = ss[i][j]
    BY <1>9, <2>2, FlattenFacts
  <2>4. QED
    BY <2>1, <2>3
<1>11. v = FirstBroken(A \o F \o C)
  <2>1. v = FirstBroken(DelegateRules(d, Catalog, Limits))
    BY DEF Verdict
  <2>2. DelegateRules(d, Catalog, Limits) = A \o F \o C
    BY <1>1, <1>3, <1>5, <1>9 DEF DelegateRules
  <2>3. QED
    BY <2>1, <2>2
<1>13. /\ v = "accepted" => /\ \A k \in 1..Len(A) : ~ A[k][1]
                            /\ \A k \in 1..Len(F) : ~ F[k][1]
                            /\ \A k \in 1..Len(C) : ~ C[k][1]
       /\ v \in JoinCodes => /\ \A k \in 1..Len(A) : ~ A[k][1]
                             /\ \A k \in 1..Len(F) : ~ F[k][1]
                             /\ \E m \in 1..Len(C) : /\ C[m][1] /\ C[m][2] = v
                                                     /\ \A k \in 1..(m - 1) : ~ C[k][1]
  <2>1. /\ A \in Seq(BOOLEAN \X OuterCodes) /\ F \in Seq(BOOLEAN \X TaskCodes)
        /\ C \in Seq(BOOLEAN \X JoinCodes)
    BY <1>6, <1>7, <1>10
  <2>2. /\ FirstBroken(A \o F \o C) = "accepted" => Unbroken(A) /\ Unbroken(F) /\ Unbroken(C)
        /\ FirstBroken(A \o F \o C) \in JoinCodes =>
             Unbroken(A) /\ Unbroken(F) /\ FirstIs(C, FirstBroken(A \o F \o C))
    BY <2>1, PartsFacts
  <2>3. QED
    BY <1>11, <2>2 DEF Unbroken, FirstIs
<1>14. ASSUME v \in JoinCodes \union {"accepted"}
       PROVE  /\ d.answer = NoAnswer /\ d.tasks # <<>> /\ ~ (Len(d.tasks) > Limits.tasks)
              /\ Cardinality(TaskIds(d.tasks)) = Len(d.tasks)
              /\ \A k \in 1..Len(d.tasks) : ToSet(d.tasks[k].deps) \subseteq TaskIds(d.tasks)
  <2>1. (\A k \in 1..Len(A) : ~ A[k][1]) /\ (\A k \in 1..Len(F) : ~ F[k][1])
    BY <1>13, <1>14
  <2>2. ~ a1 /\ ~ a2 /\ ~ a3
    <3>1. 1 \in 1..Len(A) /\ 2 \in 1..Len(A) /\ 3 \in 1..Len(A)
      BY <1>6
    <3>2. ~ A[1][1] /\ ~ A[2][1] /\ ~ A[3][1]
      BY <2>1, <3>1
    <3>3. QED
      BY <1>6, <3>2
  <2>3. ASSUME NEW k \in 1..Len(tasks)
        PROVE  ToSet(tasks[k].deps) \subseteq ids
    <3>1. ss[k] = TaskRules(tasks[k], ids, Catalog, Limits)
      BY <1>2, <1>5
    <3>2. Len(ss[k]) = 6 /\ (ss[k][5][1] <=> ~ (ToSet(tasks[k].deps) \subseteq ids))
      BY <3>1, TaskRulesFacts
    <3>3. PICK n \in 1..Len(F) : F[n] = ss[k][5]
      <4>1. k \in 1..Len(ss) /\ 5 \in 1..Len(ss[k])
        BY <1>8, <3>2
      <4>2. QED
        BY <1>10, <4>1
    <3>4. ~ ss[k][5][1]
      BY <2>1, <3>3
    <3>5. QED
      BY <3>2, <3>4
  <2>4. QED
    BY <1>1, <1>3, <2>2, <2>3
<1>15. 1 \in 1..Len(C) /\ 2 \in 1..Len(C) /\ 3 \in 1..Len(C) /\ \A m \in 1..Len(C) : m = 1 \/ m = 2 \/ m = 3
  BY <1>7
<1>16. v = "accepted" => ~ c1 /\ ~ c2 /\ ~ c3
  BY <1>7, <1>13, <1>15
<1>17. v = "dependency_cycle" => c1
  <2>1. SUFFICES ASSUME v = "dependency_cycle" PROVE c1
    OBVIOUS
  <2>2. v \in JoinCodes
    BY <2>1 DEF JoinCodes
  <2>3. PICK m \in 1..Len(C) : C[m][1] /\ C[m][2] = v
    BY <1>13, <2>2
  <2>4. m = 1
    BY <1>7, <1>15, <2>1, <2>3
  <2>5. QED
    BY <1>7, <2>3, <2>4
<1>18. v = "run_timeout_exceeded" => ~ c1 /\ c3
  <2>1. SUFFICES ASSUME v = "run_timeout_exceeded" PROVE ~ c1 /\ c3
    OBVIOUS
  <2>2. v \in JoinCodes
    BY <2>1 DEF JoinCodes
  <2>3. PICK m \in 1..Len(C) : C[m][1] /\ C[m][2] = v /\ \A k \in 1..(m - 1) : ~ C[k][1]
    BY <1>13, <2>2
  <2>4. m = 3
    BY <1>7, <1>15, <2>1, <2>3
  <2>5. 1 \in 1..(m - 1)
    BY <2>4
  <2>6. QED
    BY <1>7, <2>3, <2>4, <2>5
<1>19. QED
  BY <1>1, <1>3, <1>14, <1>16, <1>17, <1>18

(* A skill, or an answer of the Root's own, is never refused as a cycle or as *)
(* too long.                                                                  *)
LEMMA DirectVerdict ==
  ASSUME NEW d \in Decisions, d.mode # "delegate", NEW v, v = Verdict(d, Catalog, Limits)
  PROVE  /\ v \notin {"dependency_cycle", "run_timeout_exceeded"}
         /\ v = "accepted" /\ d.mode # "skill" =>
              d.mode = "direct" /\ d.answer # NoAnswer /\ d.tasks = <<>> /\ d.composition = "deterministic"
<1> DEFINE Mild == {"invalid_mode_payload", "invalid_composition", "unknown_skill"}
<1>1. d.mode \in PlanModes
  BY AnswerAssumption DEF IsDecision
<1>2. "accepted" \notin Mild
  OBVIOUS
<1>3. CASE d.mode = "direct"
  <2>1. PICK b1, b2 : /\ b1 = (d.answer = NoAnswer \/ d.skill # NoSkill \/ d.tasks # <<>>)
                      /\ b2 = (d.composition # "deterministic")
    OBVIOUS
  <2>2. PICK rules : rules = << <<b1, "invalid_mode_payload">>, <<b2, "invalid_composition">> >>
    OBVIOUS
  <2>3. rules \in Seq(BOOLEAN \X Mild) /\ Len(rules) = 2 /\ (rules[1][1] <=> b1) /\ (rules[2][1] <=> b2)
    <3>1. <<b1, "invalid_mode_payload">> \in BOOLEAN \X Mild /\ <<b2, "invalid_composition">> \in BOOLEAN \X Mild
      BY <2>1
    <3> HIDE DEF Mild
    <3>2. rules \in Seq(BOOLEAN \X Mild)
      BY <2>2, <3>1
    <3>3. QED
      BY <2>2, <3>2
  <2>4. v = FirstBroken(rules)
    <3>1. v = FirstBroken(DirectRules(d))
      BY <1>3 DEF Verdict
    <3>2. DirectRules(d) = rules
      BY <2>1, <2>2 DEF DirectRules
    <3>3. QED
      BY <3>1, <3>2
  <2>5. v \in Mild \union {"accepted"} /\ (v = "accepted" => ~ b1 /\ ~ b2)
    <3> HIDE DEF Mild
    <3>1. v = "accepted" => \A k \in 1..Len(rules) : ~ rules[k][1]
      BY <1>2, <2>3, <2>4, FirstBrokenFacts
    <3>2. v # "accepted" => \E m \in 1..Len(rules) : rules[m][2] = v
      BY <1>2, <2>3, <2>4, FirstBrokenFacts
    <3>3. \A m \in 1..Len(rules) : rules[m][2] \in Mild
      <4>1. \A m \in 1..Len(rules) : rules[m] \in BOOLEAN \X Mild
        BY <2>3
      <4>2. QED
        BY <4>1
    <3>4. 1 \in 1..Len(rules) /\ 2 \in 1..Len(rules)
      BY <2>3
    <3>5. QED
      BY <2>3, <3>1, <3>2, <3>3, <3>4
  <2>6. QED
    BY <1>3, <2>1, <2>5
<1>4. CASE d.mode = "skill"
  <2>1. PICK b1, b2, b3 : /\ b1 = (d.answer # NoAnswer \/ d.skill = NoSkill \/ d.tasks # <<>>)
                          /\ b2 = (d.composition # "deterministic") /\ b3 = (d.skill \notin Catalog.skills)
    OBVIOUS
  <2>2. PICK rules : rules = << <<b1, "invalid_mode_payload">>, <<b2, "invalid_composition">>, <<b3, "unknown_skill">> >>
    OBVIOUS
  <2>3. rules \in Seq(BOOLEAN \X Mild)
    <3>1. /\ <<b1, "invalid_mode_payload">> \in BOOLEAN \X Mild /\ <<b2, "invalid_composition">> \in BOOLEAN \X Mild
          /\ <<b3, "unknown_skill">> \in BOOLEAN \X Mild
      BY <2>1
    <3> HIDE DEF Mild
    <3>2. QED
      BY <2>2, <3>1
  <2>4. v = FirstBroken(rules)
    <3>1. v = FirstBroken(SkillRules(d, Catalog))
      BY <1>4 DEF Verdict
    <3>2. SkillRules(d, Catalog) = rules
      BY <2>1, <2>2 DEF SkillRules
    <3>3. QED
      BY <3>1, <3>2
  <2>5. v \in Mild \union {"accepted"}
    <3> HIDE DEF Mild
    <3>1. v # "accepted" => \E m \in 1..Len(rules) : rules[m][2] = v
      BY <1>2, <2>3, <2>4, FirstBrokenFacts
    <3>2. \A m \in 1..Len(rules) : rules[m][2] \in Mild
      <4>1. \A m \in 1..Len(rules) : rules[m] \in BOOLEAN \X Mild
        BY <2>3
      <4>2. QED
        BY <4>1
    <3>3. QED
      BY <3>1, <3>2
  <2>6. QED
    BY <1>4, <2>5
<1>5. QED
  BY <1>1, <1>3, <1>4 DEF PlanModes

TooLong(tasks) == \E c \in Chains(tasks) : Duration(tasks, c) > Limits.runTimeout

LEMMA DecisionFacts ==
  ASSUME NEW d \in Decisions
  PROVE  /\ d.tasks \in Seq(ToSet(d.tasks)) /\ Timed(d.tasks)
         /\ Limits.tasks \in Nat /\ Limits.tasks <= HardMaxTasks /\ Limits.runTimeout \in Nat
<1>1. d.tasks \in Seq(ToSet(d.tasks)) /\ IsDecision(d) /\ IsLimits(Limits)
  BY AnswerAssumption DEF IsDecision
<1>2. DOMAIN d.tasks = 1..Len(d.tasks)
  BY <1>1
<1>3. \A k \in 1..Len(d.tasks) : d.tasks[k].timeout \in 1..HardMaxTaskTimeout
  BY <1>1, <1>2 DEF IsDecision, IsTask
<1>4. \A n \in 1..HardMaxTaskTimeout : n \in Nat
  BY DEF HardMaxTaskTimeout
<1>5. Timed(d.tasks)
  BY <1>3, <1>4 DEF Timed
<1>6. Limits.tasks \in 1..HardMaxTasks /\ Limits.runTimeout \in 1..HardMaxRunTimeout
  BY <1>1 DEF IsLimits
<1>7. (\A n \in 1..HardMaxTasks : n \in Nat /\ n <= HardMaxTasks) /\ \A n \in 1..HardMaxRunTimeout : n \in Nat
  BY DEF HardMaxTasks, HardMaxRunTimeout
<1>8. QED
  BY <1>1, <1>5, <1>6, <1>7

Executable(p, d) ==
  IsPreparedPlan(p) /\ ToSet(p.tasks) = ToSet(d.tasks) /\ ~ TooLong(p.tasks)

(* A sound order is a plan when there are no more tasks than the engine takes.*)
LEMMA OrderIsPrepared ==
  ASSUME NEW T, NEW s \in Seq(T), IdsApart(s), DepsBefore(s), Cardinality(TaskIds(s)) = Len(s),
         s # <<>>, Len(s) <= HardMaxTasks, NEW p, p.mode = "delegate", p.answer = NoAnswer, p.tasks = s
  PROVE  IsPreparedPlan(p)
<1>1. DOMAIN s = 1..Len(s) /\ Len(s) \in Nat
  OBVIOUS
<1>2. ASSUME NEW k \in DOMAIN s
      PROVE  ToSet(s[k].deps) \subseteq TaskIds(SubSeq(s, 1, k - 1))
  <2>1. k \in 1..Len(s) /\ k - 1 \in Int /\ 1 \in Int /\ \A i \in 1..(k - 1) : i \in 1..Len(s) /\ s[i] \in T
    BY <1>1
  <2>2. PICK q : q = SubSeq(s, 1, k - 1)
    OBVIOUS
  <2>3. q \in Seq(T) /\ Len(q) = k - 1 /\ \A i \in 1..(k - 1) : q[i] = s[i]
    <3>1. /\ q \in Seq(T) /\ Len(q) = IF 1 <= k - 1 THEN (k - 1) - 1 + 1 ELSE 0
          /\ \A i \in 1..((k - 1) - 1 + 1) : q[i] = s[1 + i - 1]
      BY <2>1, <2>2, SubSeqProperties
    <3>2. QED
      BY <2>1, <3>1
  <2>4. \A x \in ToSet(s[k].deps) : \E i \in 1..(k - 1) : s[i].id = x
    BY <2>1 DEF DepsBefore
  <2>5. \A x \in ToSet(s[k].deps) : \E i \in 1..Len(q) : q[i].id = x
    BY <2>3, <2>4
  <2>6. \A x : x \in TaskIds(q) <=> \E i \in 1..Len(q) : q[i].id = x
    BY <2>3, IdsOfTasks
  <2>7. QED
    BY <2>2, <2>5, <2>6
<1>3. QED
  BY <1>2 DEF IsPreparedPlan

(* What is accepted can be executed, in the order it is prepared in.          *)
LEMMA AcceptedIsExecutable ==
  ASSUME NEW d \in Decisions, d.mode # "skill", Verdict(d, Catalog, Limits) = "accepted",
         NEW p, p.mode = d.mode, p.answer = d.answer, p.composition = d.composition,
         p.tasks = IF d.mode = "delegate" THEN TopologicalOrder(d.tasks) ELSE <<>>
  PROVE  Executable(p, d)
<1>1. PICK tasks : tasks = d.tasks
  OBVIOUS
<1>2. tasks \in Seq(ToSet(tasks)) /\ Timed(tasks) /\ Limits.tasks \in Nat /\ Limits.tasks <= HardMaxTasks
      /\ Limits.runTimeout \in Nat /\ Len(tasks) \in Nat
  <2>1. tasks \in Seq(ToSet(tasks)) /\ Timed(tasks) /\ Limits.tasks \in Nat /\ Limits.tasks <= HardMaxTasks
        /\ Limits.runTimeout \in Nat
    BY <1>1, DecisionFacts
  <2>2. QED
    BY <2>1
<1>3. CASE d.mode = "delegate"
  <2>1. PICK s : s = TopologicalOrder(tasks)
    OBVIOUS
  <2>2. s \in SoundOrders(tasks)
    BY <1>2, <2>1, OrderFacts
  <2>3. s \in Seq(ToSet(tasks)) /\ IdsApart(s) /\ DepsBefore(s) /\ Len(s) \in Nat
    BY <2>2 DEF SoundOrders
  <2>4. /\ d.answer = NoAnswer /\ tasks # <<>> /\ ~ (Len(tasks) > Limits.tasks)
        /\ Cardinality(TaskIds(tasks)) = Len(tasks)
        /\ ~ (Len(s) < Len(tasks)) /\ ~ (CriticalPath(s) > Limits.runTimeout)
    BY <1>1, <1>3, <2>1, DelegateVerdict
  <2>5. Cardinality(TaskIds(s)) = Len(s) /\ Len(s) <= Len(tasks) /\ (Len(s) = Len(tasks) => ToSet(s) = ToSet(tasks))
    BY <1>2, <2>2, <2>4, OrderCounts
  <2>6. Len(s) = Len(tasks) /\ ToSet(s) = ToSet(tasks)
    BY <1>2, <2>3, <2>4, <2>5
  <2>7. p.tasks = s
    BY <1>1, <1>3, <2>1
  <2>8. IsPreparedPlan(p)
    <3>1. s # <<>>
      <4>1. Len(tasks) # 0
        BY <1>2, <2>4
      <4>2. QED
        BY <2>6, <4>1
    <3>2. Len(s) <= HardMaxTasks
      <4>1. HardMaxTasks \in Nat
        BY DEF HardMaxTasks
      <4>2. QED
        BY <1>2, <2>4, <2>6, <4>1
    <3>3. QED
      BY <1>3, <2>3, <2>4, <2>5, <2>7, <3>1, <3>2, OrderIsPrepared
  <2>9. ~ TooLong(s)
    <3>1. Timed(s)
      <4>1. DOMAIN tasks = 1..Len(tasks)
        BY <1>2
      <4>2. ASSUME NEW k \in 1..Len(s)
            PROVE  s[k].timeout \in Nat
        <5>1. s[k] \in ToSet(tasks)
          BY <2>3
        <5>2. PICK i \in 1..Len(tasks) : s[k] = tasks[i]
          BY <4>1, <5>1 DEF ToSet
        <5>3. QED
          BY <1>2, <5>2 DEF Timed
      <4>3. QED
        BY <4>2 DEF Timed
    <3>2. SUFFICES ASSUME NEW c \in Chains(s), Duration(s, c) > Limits.runTimeout
                   PROVE  FALSE
      BY DEF TooLong
    <3>3. Duration(s, c) <= CriticalPath(s)
      BY <2>3, <3>1, ChainWithinPath
    <3>4. Duration(s, c) \in Nat /\ CriticalPath(s) \in Nat
      <4>1. c \in Seq(1..Len(s)) /\ Len(c) \in Nat
        <5>1. c \in Seq(1..Len(s))
          BY <2>3, ChainFacts
        <5>2. QED
          BY <5>1
      <4>2. PICK f : Sums(f, s, c) /\ Duration(s, c) = f[Len(c)]
        BY <2>3, <3>1, <4>1, DurationRecurrence
      <4>3. Duration(s, c) \in Nat
        BY <4>1, <4>2 DEF Sums
      <4>4. PICK e : Ends(e, s) /\ CriticalPath(s) = MaxOf(e, 1..Len(s))
        BY <2>3, <3>1, PathRecurrence
      <4>5. PICK D : D = 1..Len(s)
        OBVIOUS
      <4>6. IsFiniteSet(D) /\ \A k \in D : e[k] \in Nat
        <5>1. IsFiniteSet(1..Len(s))
          <6>1. Len(s) \in Int /\ 1 \in Int
            BY <2>3
          <6>2. QED
            BY <6>1, FS_Interval
        <5>2. QED
          BY <4>4, <4>5, <5>1 DEF Ends
      <4>7. MaxOf(e, D) \in Nat
        BY <4>6, MaxOfValues
      <4>8. QED
        BY <4>3, <4>4, <4>5, <4>7
    <3>5. QED
      BY <1>2, <2>4, <3>2, <3>3, <3>4
  <2>10. QED
    BY <1>1, <2>6, <2>7, <2>8, <2>9 DEF Executable
<1>4. CASE d.mode # "delegate"
  <2>1. d.mode = "direct" /\ d.answer # NoAnswer /\ d.tasks = <<>> /\ d.composition = "deterministic"
    BY <1>4, DirectVerdict
  <2>2. p.tasks = <<>> /\ Len(p.tasks) = 0
    BY <1>4
  <2>3. IsPreparedPlan(p)
    BY <2>1, <2>2 DEF IsPreparedPlan, HardMaxTasks
  <2>4. ~ TooLong(p.tasks)
    <3>1. PICK z : z = <<>>
      OBVIOUS
    <3>2. z \in Seq({}) /\ Len(z) = 0 /\ Timed(z)
      BY <3>1 DEF Timed
    <3>3. SUFFICES ASSUME NEW c \in Chains(z), Duration(z, c) > Limits.runTimeout
                   PROVE  FALSE
      BY <2>2, <3>1 DEF TooLong
    <3>4. c \in Seq(1..Len(z)) /\ Len(c) = 0
      <4>1. c \in Seq(1..Len(z)) /\ Len(c) <= Len(z)
        BY <3>2, ChainFacts
      <4>2. QED
        BY <3>2, <4>1
    <3>5. PICK f : Sums(f, z, c) /\ Duration(z, c) = f[Len(c)]
      BY <3>2, <3>4, DurationRecurrence
    <3>6. Duration(z, c) = 0
      BY <3>4, <3>5 DEF Sums
    <3>7. QED
      BY <1>2, <3>3, <3>6
  <2>5. QED
    BY <2>1, <2>2, <2>3, <2>4 DEF Executable
<1>5. QED
  BY <1>3, <1>4

(* What is refused as a cycle is one.                                         *)
LEMMA RefusedIsCycle ==
  ASSUME NEW d \in Decisions, Verdict(d, Catalog, Limits) = "dependency_cycle"
  PROVE  WaitsInCircle(d.tasks)
<1>1. PICK tasks, s : tasks = d.tasks /\ s = TopologicalOrder(tasks)
  OBVIOUS
<1>2. tasks \in Seq(ToSet(tasks)) /\ Len(tasks) \in Nat
  <2>1. tasks \in Seq(ToSet(tasks))
    BY <1>1, DecisionFacts
  <2>2. QED
    BY <2>1
<1>3. d.mode = "delegate"
  BY DirectVerdict
<1>4. /\ Cardinality(TaskIds(tasks)) = Len(tasks) /\ Len(s) < Len(tasks)
      /\ \A k \in 1..Len(tasks) : ToSet(tasks[k].deps) \subseteq TaskIds(tasks)
  <2>1. "dependency_cycle" \in JoinCodes
    BY DEF JoinCodes
  <2>2. QED
    BY <1>1, <1>3, <2>1, DelegateVerdict
<1>5. s \in SoundOrders(tasks) /\ (Len(s) >= Len(tasks) \/ IsStuck(tasks, s))
  BY <1>1, <1>2, OrderFacts
<1>6. IsStuck(tasks, s)
  <2>1. Len(s) \in Nat
    BY <1>5 DEF SoundOrders
  <2>2. QED
    BY <1>2, <1>4, <1>5, <2>1
<1>7. TaskIds(tasks) \ TaskIds(s) # {}
  BY <1>2, <1>4, <1>5, OrderCounts
<1>8. QED
  BY <1>1, <1>2, <1>4, <1>5, <1>6, <1>7, StuckInCircle

(* What is refused as too long is.                                            *)
LEMMA RefusedIsLong ==
  ASSUME NEW d \in Decisions, Verdict(d, Catalog, Limits) = "run_timeout_exceeded"
  PROVE  TooLong(d.tasks)
<1>1. PICK tasks, s : tasks = d.tasks /\ s = TopologicalOrder(tasks)
  OBVIOUS
<1>2. tasks \in Seq(ToSet(tasks)) /\ Len(tasks) \in Nat /\ Timed(tasks)
  <2>1. tasks \in Seq(ToSet(tasks)) /\ Timed(tasks)
    BY <1>1, DecisionFacts
  <2>2. QED
    BY <2>1
<1>3. d.mode = "delegate"
  BY DirectVerdict
<1>4. Cardinality(TaskIds(tasks)) = Len(tasks) /\ CriticalPath(s) > Limits.runTimeout
  <2>1. "run_timeout_exceeded" \in JoinCodes
    BY DEF JoinCodes
  <2>2. QED
    BY <1>1, <1>3, <2>1, DelegateVerdict
<1>5. s \in SoundOrders(tasks)
  BY <1>1, <1>2, OrderFacts
<1>6. s \in Seq(ToSet(tasks)) /\ Len(s) <= Len(tasks)
  <2>1. s \in Seq(ToSet(tasks))
    BY <1>5 DEF SoundOrders
  <2>2. QED
    BY <1>2, <1>4, <1>5, <2>1, OrderCounts
<1>7. PICK c \in Chains(tasks) : Duration(tasks, c) = CriticalPath(s)
  BY <1>2, <1>6, PathHasChain
<1>8. QED
  BY <1>1, <1>4, <1>7 DEF TooLong

-----------------------------------------------------------------------------
(* The way of a decision *)

AnswerInv ==
  /\ phase \in {"asked", "planning", "refused", "planned", "composing", "answered", "failed"}
  /\ phase \in {"asked", "planning"} => plan = NoPlan
  /\ phase # "asked" => decision \in Decisions
  /\ plan # NoPlan => Executable(plan, decision)

LEMMA AnswerInitInv == AnswerInit => AnswerInv
  BY DEF AnswerInit, AnswerInv

LEMMA DecideInv == AnswerInv /\ Decide => AnswerInv'
  BY DEF AnswerInv, Decide

LEMMA PlanInv == AnswerInv /\ Plan => AnswerInv'
<1> SUFFICES ASSUME AnswerInv, Plan PROVE AnswerInv'
  OBVIOUS
<1>1. decision \in Decisions /\ decision' = decision /\ phase = "planning" /\ plan = NoPlan
  BY DEF AnswerInv, Plan
<1>2. CASE Verdict(decision, Catalog, Limits) # "accepted" \/ decision.mode = "skill"
  <2>1. phase' = "refused" /\ plan' = NoPlan
    BY <1>1, <1>2 DEF Plan
  <2>2. QED
    BY <1>1, <2>1 DEF AnswerInv
<1>3. CASE Verdict(decision, Catalog, Limits) = "accepted" /\ decision.mode # "skill"
  <2>1. PICK required : phase' = "planned" /\ plan' = [Prepared(decision) EXCEPT !.required = required]
    BY <1>3 DEF Plan
  <2>2. PICK p, d : p = plan' /\ d = decision
    OBVIOUS
  <2>3. /\ p.mode = d.mode /\ p.answer = d.answer /\ p.composition = d.composition
        /\ p.tasks = IF d.mode = "delegate" THEN TopologicalOrder(d.tasks) ELSE <<>>
    BY <2>1, <2>2 DEF Prepared
  <2>4. Executable(p, d)
    BY <1>1, <1>3, <2>2, <2>3, AcceptedIsExecutable
  <2>5. Executable(plan', decision')
    BY <1>1, <2>2, <2>4
  <2>6. QED
    BY <1>1, <2>1, <2>5 DEF AnswerInv
<1>4. QED
  BY <1>2, <1>3

LEMMA ExecuteInv == AnswerInv /\ Execute => AnswerInv'
  BY DEF AnswerInv, Execute

LEMMA ComposeInv == AnswerInv /\ Compose => AnswerInv'
  BY DEF AnswerInv, Compose

(* What the validator lets through the engine can execute, and what it        *)
(* refuses as a cycle or as too long is one (plan_validator.py:143            *)
(* _topological_order, :161 _critical_path_timeout), for every set of         *)
(* decisions, catalog and limits.                                             *)
THEOREM PlansAreExecutable == AnswerSpec => []PlansExecutable
<1>1. AnswerInv /\ [AnswerNext]_answerVars => AnswerInv'
  <2> SUFFICES ASSUME AnswerInv, [AnswerNext]_answerVars PROVE AnswerInv'
    OBVIOUS
  <2>1. CASE UNCHANGED answerVars
    BY <2>1 DEF AnswerInv, answerVars
  <2>2. QED
    BY <2>1, DecideInv, PlanInv, ExecuteInv, ComposeInv DEF AnswerNext
<1>2. AnswerInv => PlansExecutable
  <2> SUFFICES ASSUME AnswerInv PROVE PlansExecutable
    OBVIOUS
  <2>1. plan # NoPlan => IsPreparedPlan(plan) /\ ToSet(plan.tasks) = ToSet(decision.tasks) /\ ~ TooLong(plan.tasks)
    BY DEF AnswerInv, Executable
  <2>2. phase = "refused" /\ Verdict(decision, Catalog, Limits) = "dependency_cycle" => WaitsInCircle(decision.tasks)
    BY RefusedIsCycle DEF AnswerInv
  <2>3. phase = "refused" /\ Verdict(decision, Catalog, Limits) = "run_timeout_exceeded" => TooLong(decision.tasks)
    BY RefusedIsLong DEF AnswerInv
  <2>4. QED
    BY <2>1, <2>2, <2>3 DEF PlansExecutable, TooLong
<1>3. QED
  BY <1>1, <1>2, AnswerInitInv, PTL DEF AnswerSpec

-----------------------------------------------------------------------------
(* What is chosen *)

Choosing(f, s, places) ==
  /\ f[0] = <<>>
  /\ \A k \in 1..Len(s) : f[k] = IF k \in places THEN Append(f[k - 1], s[k]) ELSE f[k - 1]

(* The choice, unfolded.                                                      *)
LEMMA ChosenRecurrence ==
  ASSUME NEW T, NEW s \in Seq(T), NEW places
  PROVE  \E f : Choosing(f, s, places) /\ Chosen(s, places) = f[Len(s)]
<1> DEFINE N == Len(s)
           V == Seq(T)
           Found(g) == g = [k \in 0..N |-> IF k = 0 THEN <<>>
                                           ELSE IF k \in places THEN Append(g[k - 1], s[k]) ELSE g[k - 1]]
           step == [p \in (1..N) \X V |-> IF p[1] \in places THEN Append(p[2], s[p[1]]) ELSE p[2]]
<1>1. N \in Nat /\ <<>> \in V /\ (\A k \in 1..N : s[k] \in T) /\ \A k \in 1..N : k - 1 \in 0..N
  OBVIOUS
<1>2. \A k \in 1..N : \A v \in V :
        /\ step[<<k, v>>] = (IF k \in places THEN Append(v, s[k]) ELSE v)
        /\ step[<<k, v>>] \in V
  <2> HIDE DEF N, V
  <2>1. \A k \in 1..N : \A v \in V : step[<<k, v>>] = (IF k \in places THEN Append(v, s[k]) ELSE v)
    OBVIOUS
  <2>2. \A v \in V : \A x \in T : Append(v, x) \in V
    BY DEF V
  <2> HIDE DEF step
  <2>3. QED
    BY <1>1, <2>1, <2>2
<1> HIDE DEF N, V, step, Found
<1>3. PICK f \in [0..N -> V] : f[0] = <<>> /\ \A k \in 1..N : f[k] = step[<<k, f[k - 1]>>]
  <2>1. IsStepwise(V, N, <<>>, step)
    BY <1>1, <1>2 DEF IsStepwise
  <2>2. QED
    BY <2>1, FunctionByStep
<1> USE DEF Found
<1>4. \A k \in 1..N : f[k] = IF k \in places THEN Append(f[k - 1], s[k]) ELSE f[k - 1]
  BY <1>1, <1>2, <1>3
<1>5. Found(f)
  <2> DEFINE h == [k \in 0..N |-> IF k = 0 THEN <<>>
                                  ELSE IF k \in places THEN Append(f[k - 1], s[k]) ELSE f[k - 1]]
  <2>1. \A k \in 0..N : k = 0 \/ k \in 1..N
    BY <1>1
  <2>2. \A k \in 0..N : f[k] = h[k]
    BY <1>3, <1>4, <2>1
  <2>3. f = h
    <3>1. f = [k \in 0..N |-> f[k]] /\ h = [k \in 0..N |-> h[k]]
      BY <1>3
    <3> HIDE DEF h
    <3>2. QED
      BY <2>2, <3>1
  <2>4. QED
    BY <2>3
<1>6. Chosen(s, places) = (CHOOSE g : Found(g))[N]
  BY DEF Chosen, N
<1>7. PICK g : g = CHOOSE h : Found(h)
  OBVIOUS
<1>8. Found(g)
  <2> HIDE DEF Found
  <2> QED
    BY <1>5, <1>7
<1>9. Choosing(g, s, places)
  <2>1. \A k \in 0..N : g[k] = IF k = 0 THEN <<>>
                               ELSE IF k \in places THEN Append(g[k - 1], s[k]) ELSE g[k - 1]
    BY <1>8
  <2>2. 0 \in 0..N /\ \A k \in 1..N : k \in 0..N /\ k # 0
    BY <1>1
  <2> HIDE DEF Found
  <2>3. QED
    BY <2>1, <2>2 DEF Choosing, N
<1>10. Chosen(s, places) = g[N]
  <2> HIDE DEF Found
  <2> QED
    BY <1>6, <1>7
<1>11. QED
  BY <1>9, <1>10 DEF N

(* What is chosen was at one of the places, and there is not more of it.      *)
LEMMA ChosenFacts ==
  ASSUME NEW T, NEW s \in Seq(T), NEW places
  PROVE  /\ Chosen(s, places) \in Seq(T)
         /\ Len(Chosen(s, places)) <= Len(s)
         /\ \A n \in 1..Len(Chosen(s, places)) :
              \E k \in 1..Len(s) : k \in places /\ Chosen(s, places)[n] = s[k]
<1> DEFINE P == {s[k] : k \in {j \in 1..Len(s) : j \in places}}
<1>1. PICK f : Choosing(f, s, places) /\ Chosen(s, places) = f[Len(s)]
  BY ChosenRecurrence
<1>2. Len(s) \in Nat /\ \A k \in 1..Len(s) : s[k] \in T
  OBVIOUS
<1> DEFINE S == {k \in 0..Len(s) : f[k] \in Seq(P) /\ Len(f[k]) <= k}
<1>3. 0 \in S
  <2>1. f[0] = <<>> /\ 0 \in 0..Len(s)
    BY <1>1, <1>2 DEF Choosing
  <2> HIDE DEF P
  <2>2. <<>> \in Seq(P) /\ Len(<<>>) <= 0
    OBVIOUS
  <2>3. QED
    BY <2>1, <2>2
<1>4. ASSUME NEW k \in 1..Len(s), k - 1 \in S
      PROVE  k \in S
  <2>1. PICK p, q, e : p = f[k - 1] /\ q = f[k] /\ e = s[k]
    OBVIOUS
  <2>2. p \in Seq(P) /\ Len(p) <= k - 1 /\ k \in Nat /\ Len(p) \in Nat /\ k \in 0..Len(s)
    BY <1>2, <1>4, <2>1
  <2>3. q = IF k \in places THEN Append(p, e) ELSE p
    BY <1>1, <2>1 DEF Choosing
  <2>4. k \in places => e \in P
    BY <2>1
  <2> HIDE DEF P
  <2>5. q \in Seq(P) /\ Len(q) <= k
    <3>1. CASE k \in places
      <4>1. q = Append(p, e) /\ e \in P
        BY <2>3, <2>4, <3>1
      <4>2. q \in Seq(P) /\ Len(q) = Len(p) + 1
        BY <2>2, <4>1
      <4>3. QED
        BY <2>2, <4>2
    <3>2. CASE k \notin places
      BY <2>2, <2>3, <3>2
    <3>3. QED
      BY <3>1, <3>2
  <2>6. QED
    BY <2>1, <2>2, <2>5
<1>5. Len(s) \in S
  <2>1. Len(s) \in 0..Len(s)
    BY <1>2
  <2> HIDE DEF S
  <2>2. QED
    BY <1>2, <1>3, <1>4, <2>1, UpTo
<1>6. PICK c : c = Chosen(s, places)
  OBVIOUS
<1>7. c \in Seq(P) /\ Len(c) <= Len(s)
  BY <1>1, <1>5, <1>6
<1>8. c \in Seq(T)
  <2>1. P \subseteq T
    BY <1>2
  <2> HIDE DEF P
  <2>2. QED
    BY <1>7, <2>1
<1>9. \A n \in 1..Len(c) : c[n] \in P
  <2> HIDE DEF P
  <2> QED
    BY <1>7
<1>10. QED
  BY <1>6, <1>7, <1>8, <1>9

(* The places of what is chosen: in their order, all of them.                 *)
ChosenAt(pos, q, s, places, k) ==
  /\ pos \in [1..Len(q) -> 1..k]
  /\ \A n \in 1..Len(q) : pos[n] \in places /\ q[n] = s[pos[n]]
  /\ \A m, n \in 1..Len(q) : m < n => pos[m] < pos[n]
  /\ \A i \in 1..k : i \in places => \E n \in 1..Len(q) : pos[n] = i

LEMMA ChosenPlaces ==
  ASSUME NEW T, NEW s \in Seq(T), NEW places
  PROVE  \E pos : ChosenAt(pos, Chosen(s, places), s, places, Len(s))
<1>1. PICK f : Choosing(f, s, places) /\ Chosen(s, places) = f[Len(s)]
  BY ChosenRecurrence
<1>2. Len(s) \in Nat /\ \A k \in 1..Len(s) : s[k] \in T
  OBVIOUS
<1> DEFINE S == {k \in 0..Len(s) : f[k] \in Seq(T) /\ \E pos : ChosenAt(pos, f[k], s, places, k)}
<1>3. 0 \in S
  <2>1. f[0] = <<>> /\ 0 \in 0..Len(s)
    BY <1>1, <1>2 DEF Choosing
  <2>2. PICK none : none = [i \in 1..0 |-> 0]
    OBVIOUS
  <2>3. ChosenAt(none, <<>>, s, places, 0)
    BY <2>2 DEF ChosenAt
  <2>4. f[0] \in Seq(T) /\ ChosenAt(none, f[0], s, places, 0)
    BY <2>1, <2>3
  <2>5. QED
    BY <2>1, <2>4
<1>4. ASSUME NEW k \in 1..Len(s), k - 1 \in S
      PROVE  k \in S
  <2>1. PICK p, q, e, l : p = f[k - 1] /\ q = f[k] /\ e = s[k] /\ l = Len(p)
    OBVIOUS
  <2>2. p \in Seq(T) /\ k \in Nat /\ l \in Nat /\ k \in 0..Len(s) /\ e \in T
    BY <1>2, <1>4, <2>1
  <2>3. PICK pos : ChosenAt(pos, p, s, places, k - 1)
    BY <1>4, <2>1
  <2>4. /\ pos \in [1..l -> 1..(k - 1)]
        /\ \A n \in 1..l : pos[n] \in places /\ p[n] = s[pos[n]]
        /\ \A m, n \in 1..l : m < n => pos[m] < pos[n]
        /\ \A i \in 1..(k - 1) : i \in places => \E n \in 1..l : pos[n] = i
    BY <2>1, <2>3 DEF ChosenAt
  <2>5. q = IF k \in places THEN Append(p, e) ELSE p
    BY <1>1, <2>1 DEF Choosing
  <2>6. \A n \in 1..l : pos[n] \in 1..(k - 1) /\ pos[n] \in 1..k /\ pos[n] < k
    BY <2>2, <2>4
  <2>7. CASE k \in places
    <3>1. q = Append(p, e)
      BY <2>5, <2>7
    <3>2. q \in Seq(T) /\ Len(q) = l + 1 /\ q[l + 1] = e /\ \A n \in 1..l : q[n] = p[n]
      BY <2>1, <2>2, <3>1
    <3>3. PICK at : at = [n \in 1..(l + 1) |-> IF n = l + 1 THEN k ELSE pos[n]]
      OBVIOUS
    <3>4. /\ l + 1 \in 1..(l + 1) /\ at[l + 1] = k /\ \A n \in 1..l : n \in 1..(l + 1) /\ at[n] = pos[n]
          /\ \A n \in 1..(l + 1) : n = l + 1 \/ n \in 1..l
      BY <2>2, <3>3
    <3>5. at \in [1..(l + 1) -> 1..k]
      <4>1. ASSUME NEW n \in 1..(l + 1)
            PROVE  at[n] \in 1..k
        <5>1. CASE n = l + 1
          <6>1. k \in 1..k
            BY <2>2
          <6>2. QED
            BY <3>4, <5>1, <6>1
        <5>2. CASE n \in 1..l
          BY <2>6, <3>4, <5>2
        <5>3. QED
          BY <3>4, <5>1, <5>2
      <4>2. QED
        BY <3>3, <4>1
    <3>6. ASSUME NEW n \in 1..(l + 1)
          PROVE  at[n] \in places /\ q[n] = s[at[n]]
      <4>1. CASE n = l + 1
        BY <2>1, <2>7, <3>2, <3>4, <4>1
      <4>2. CASE n \in 1..l
        BY <2>4, <3>2, <3>4, <4>2
      <4>3. QED
        BY <3>4, <4>1, <4>2
    <3>7. \A m, n \in 1..(l + 1) : m < n => at[m] < at[n]
      <4>1. \A m, n \in 1..(l + 1) : m < n => m \in 1..l
        BY <2>2
      <4>2. QED
        BY <2>4, <2>6, <3>4, <4>1
    <3>8. \A i \in 1..k : i \in places => \E n \in 1..(l + 1) : at[n] = i
      <4>1. \A i \in 1..k : i = k \/ i \in 1..(k - 1)
        BY <2>2
      <4>2. QED
        BY <2>4, <3>4, <4>1
    <3>9. ChosenAt(at, q, s, places, k)
      BY <3>2, <3>5, <3>6, <3>7, <3>8 DEF ChosenAt
    <3>10. QED
      BY <2>1, <2>2, <3>2, <3>9
  <2>8. CASE k \notin places
    <3>1. q = p
      BY <2>5, <2>8
    <3>2. pos \in [1..l -> 1..k]
      BY <2>4, <2>6
    <3>3. \A i \in 1..k : i \in places => i \in 1..(k - 1)
      BY <2>2, <2>8
    <3>4. ChosenAt(pos, q, s, places, k)
      BY <2>1, <2>4, <3>1, <3>2, <3>3 DEF ChosenAt
    <3>5. QED
      BY <2>1, <2>2, <3>1, <3>4
  <2>9. QED
    BY <2>7, <2>8
<1>5. Len(s) \in S
  <2>1. Len(s) \in 0..Len(s)
    BY <1>2
  <2> HIDE DEF S
  <2>2. QED
    BY <1>2, <1>3, <1>4, <2>1, UpTo
<1>6. QED
  BY <1>1, <1>5

IsListed(s) == s \in Seq(ToSet(s))
IsLinked(x) == x[1] \in LinkKinds => x[2] \in Uris

(* What a sequence over any set is.                                           *)
LEMMA ListOf ==
  ASSUME NEW T, NEW s \in Seq(T)
  PROVE  /\ IsListed(s) /\ ToSet(s) \subseteq T
         /\ DOMAIN s = 1..Len(s) /\ Len(s) \in Nat
         /\ \A k \in 1..Len(s) : s[k] \in T /\ s[k] \in ToSet(s)
         /\ \A x \in ToSet(s) : \E k \in 1..Len(s) : x = s[k]
<1>1. DOMAIN s = 1..Len(s) /\ Len(s) \in Nat /\ \A k \in 1..Len(s) : s[k] \in T
  OBVIOUS
<1>2. ToSet(s) = {s[k] : k \in 1..Len(s)}
  BY <1>1 DEF ToSet
<1>3. IsListed(s)
  <2>1. s = [k \in 1..Len(s) |-> s[k]]
    OBVIOUS
  <2>2. PICK U : U = ToSet(s)
    OBVIOUS
  <2>3. \A k \in 1..Len(s) : s[k] \in U
    BY <1>2, <2>2
  <2>4. s \in [1..Len(s) -> U]
    BY <2>1, <2>3
  <2>5. s \in Seq(U)
    BY <1>1, <2>4
  <2>6. QED
    BY <2>2, <2>5 DEF IsListed
<1>4. QED
  BY <1>1, <1>2, <1>3

(* The places of a list.                                                      *)
LEMMA ListedPlaces ==
  ASSUME NEW s, IsListed(s)
  PROVE  /\ DOMAIN s = 1..Len(s) /\ Len(s) \in Nat
         /\ \A k \in 1..Len(s) : s[k] \in ToSet(s)
         /\ \A x \in ToSet(s) : \E k \in 1..Len(s) : x = s[k]
BY ListOf DEF IsListed
(* What is chosen next to each other stood next to each other, or what was     *)
(* between was not chosen.                                                    *)
LEMMA ChosenNeighbours ==
  ASSUME NEW N \in Nat, NEW q, Len(q) \in Nat, NEW s, NEW places, NEW pos,
         ChosenAt(pos, q, s, places, N), NEW n \in 1..Len(q)
  PROVE  /\ pos[n] \in 1..N /\ pos[n] \in places /\ q[n] = s[pos[n]]
         /\ n + 1 \in 1..Len(q) =>
              /\ pos[n + 1] \in 1..N /\ pos[n] < pos[n + 1]
              /\ \A k \in 1..N : pos[n] < k /\ k < pos[n + 1] => k \notin places
         /\ pos[n] + 1 \in 1..N /\ pos[n] + 1 \in places =>
              n + 1 \in 1..Len(q) /\ pos[n + 1] = pos[n] + 1
<1>1. /\ \A i \in 1..Len(q) : pos[i] \in 1..N /\ pos[i] \in places /\ q[i] = s[pos[i]]
      /\ \A i, j \in 1..Len(q) : i < j => pos[i] < pos[j]
      /\ \A k \in 1..N : k \in places => \E i \in 1..Len(q) : pos[i] = k
  BY DEF ChosenAt
<1>2. ASSUME n + 1 \in 1..Len(q), NEW k \in 1..N, pos[n] < k, k < pos[n + 1], k \in places
      PROVE  FALSE
  <2>1. PICK i \in 1..Len(q) : pos[i] = k
    BY <1>1, <1>2
  <2>2. i < n \/ i = n \/ i = n + 1 \/ n + 1 < i
    OBVIOUS
  <2>3. QED
    BY <1>1, <1>2, <2>1, <2>2
<1>3. ASSUME pos[n] + 1 \in 1..N, pos[n] + 1 \in places
      PROVE  n + 1 \in 1..Len(q) /\ pos[n + 1] = pos[n] + 1
  <2>1. PICK i \in 1..Len(q) : pos[i] = pos[n] + 1
    BY <1>1, <1>3
  <2>2. n < i
    BY <1>1, <2>1
  <2>3. n + 1 \in 1..Len(q)
    BY <2>2
  <2>4. i = n + 1
    BY <1>1, <2>1, <2>2, <2>3
  <2>5. QED
    BY <2>1, <2>3, <2>4
<1>4. n + 1 \in 1..Len(q) => pos[n + 1] \in 1..N /\ pos[n] < pos[n + 1]
  BY <1>1
<1>5. QED
  BY <1>1, <1>2, <1>3, <1>4

(* The kind of a token of a list. *)
LEMMA KindOf ==
  ASSUME NEW m, IsListed(m)
  PROVE  \A k \in Int : KindAt(m, k) = IF k \in 1..Len(m) THEN m[k][1] ELSE "none"
BY ListedPlaces DEF KindAt

-----------------------------------------------------------------------------
(* What the guardrail lets out *)

RemovedKinds == {"secret", "internal", "html"}
Cleaned(m) == [i \in DOMAIN m |-> HtmlEscaped(InternalRemoved(Redacted(m[i])))]
IsClean(token) == token[1] \notin RemovedKinds /\ (token[1] \in LinkKinds => token[2].secret = FALSE)

AllClean(m) == \A k \in 1..Len(m) : IsClean(m[k])

(* The links of a text are allowed. *)
InlineAllowed(m, p) ==
  \A k \in 1..Len(m) : IsInlineLink(m, k) => AllowedLink(m[k + 1][2], p)
DefinitionsAllowed(m, p) ==
  \A k \in 1..Len(m) : IsDefinition(m, k) => AllowedLink(DefinedTarget(m, k), p)

(* Redaction and escaping leave no token of the kinds they remove and no      *)
(* secret in a target.                                                        *)
LEMMA TokenClean ==
  ASSUME NEW x, x[1] \in LinkKinds => x[2] \in Uris
  PROVE  IsClean(HtmlEscaped(InternalRemoved(Redacted(x))))
<1>1. PICK y : y = Redacted(x)
  OBVIOUS
<1>2. y[1] # "secret" /\ (y[1] \in LinkKinds => y[2].secret = FALSE)
  <2>1. CASE x[1] = "secret"
    BY <1>1, <2>1 DEF Redacted, LinkKinds
  <2>2. CASE x[1] \in LinkKinds
    <3>1. y = <<x[1], RedactedLink(x[2])>>
      BY <1>1, <2>2 DEF Redacted, LinkKinds
    <3>2. PICK u \in Uris : u = x[2]
      BY <2>2
    <3>3. RedactedLink(u).secret = FALSE
      BY DEF RedactedLink, Uris
    <3>4. y[1] = x[1] /\ y[2].secret = FALSE
      BY <3>1, <3>2, <3>3
    <3>5. QED
      BY <2>2, <3>4 DEF LinkKinds
  <2>3. CASE x[1] # "secret" /\ x[1] \notin LinkKinds
    BY <1>1, <2>3 DEF Redacted, LinkKinds
  <2>4. QED
    BY <2>1, <2>2, <2>3
<1>3. PICK z : z = InternalRemoved(y)
  OBVIOUS
<1>4. z[1] \notin {"secret", "internal"} /\ (z[1] \in LinkKinds => z[2].secret = FALSE)
  BY <1>2, <1>3 DEF InternalRemoved, LinkKinds
<1>5. PICK v : v = HtmlEscaped(z)
  OBVIOUS
<1>6. v[1] \notin {"secret", "internal", "html"} /\ (v[1] \in LinkKinds => v[2].secret = FALSE)
  BY <1>4, <1>5 DEF HtmlEscaped, LinkKinds
<1>7. QED
  BY <1>1, <1>3, <1>5, <1>6 DEF IsClean, RemovedKinds

(* Cleaning makes no link and moves none. *)
LEMMA CleanedText ==
  ASSUME NEW m, IsMarkdown(m), NEW c, c = Cleaned(m)
  PROVE  IsListed(c) /\ Len(c) = Len(m) /\ AllClean(c) /\ (Spaced(m) => Spaced(c))
<1>1. /\ m \in Seq(ToSet(m)) /\ DOMAIN m = 1..Len(m) /\ Len(m) \in Nat
      /\ \A k \in 1..Len(m) : m[k][1] \in LinkKinds => m[k][2] \in Uris
  BY DEF IsMarkdown
<1>2. DOMAIN c = 1..Len(m)
      /\ \A k \in 1..Len(m) : c[k] = HtmlEscaped(InternalRemoved(Redacted(m[k])))
  BY <1>1 DEF Cleaned
<1>3. IsListed(c) /\ Len(c) = Len(m)
  <2>1. c = [k \in 1..Len(m) |-> c[k]]
    BY <1>1 DEF Cleaned
  <2>2. PICK T : T = {c[k] : k \in 1..Len(m)}
    OBVIOUS
  <2>3. \A k \in 1..Len(m) : c[k] \in T
    BY <2>2
  <2>4. c \in [1..Len(m) -> T]
    BY <2>1, <2>3
  <2>5. c \in Seq(T) /\ Len(c) = Len(m)
    BY <1>1, <2>4
  <2>6. QED
    BY <2>5, ListOf
<1>4. AllClean(c)
  BY <1>1, <1>2, <1>3, TokenClean DEF AllClean
<1>5. \A k \in 1..Len(m) : c[k][1] \in {"target", "definition"} => m[k][1] = c[k][1]
  <2>1. ASSUME NEW x, NEW y, y = HtmlEscaped(InternalRemoved(Redacted(x))),
               y[1] \in {"target", "definition"}
        PROVE  x[1] = y[1]
    <3>1. PICK z : z = Redacted(x)
      OBVIOUS
    <3>2. PICK v : v = InternalRemoved(z)
      OBVIOUS
    <3>3. y = HtmlEscaped(v)
      BY <2>1, <3>1, <3>2
    <3>4. v[1] = y[1]
      BY <2>1, <3>3 DEF HtmlEscaped
    <3>5. z[1] = y[1]
      BY <2>1, <3>2, <3>4 DEF InternalRemoved
    <3>6. CASE x[1] = "secret"
      BY <2>1, <3>1, <3>5, <3>6 DEF Redacted
    <3>7. CASE x[1] \in LinkKinds
      <4>1. z = <<x[1], RedactedLink(x[2])>>
        BY <3>1, <3>7 DEF Redacted, LinkKinds
      <4>2. QED
        BY <3>5, <4>1
    <3>8. CASE x[1] # "secret" /\ x[1] \notin LinkKinds
      BY <3>1, <3>5, <3>8 DEF Redacted
    <3>9. QED
      BY <3>6, <3>7, <3>8
  <2>2. QED
    BY <1>2, <2>1
<1>6. ASSUME Spaced(m) PROVE Spaced(c)
  <2>1. SUFFICES ASSUME NEW k \in 1..Len(m), c[k][1] = "target",
                        KindAt(c, k + 1) \in {"target", "definition"}
                 PROVE  FALSE
    BY <1>2 DEF Spaced
  <2>2. m[k][1] = "target"
    BY <1>5, <2>1
  <2>3. k + 1 \in 1..Len(m) /\ c[k + 1][1] \in {"target", "definition"}
    BY <1>2, <2>1 DEF KindAt
  <2>4. KindAt(m, k + 1) \in {"target", "definition"}
    BY <1>1, <1>5, <2>3 DEF KindAt
  <2>5. QED
    BY <1>1, <1>6, <2>2, <2>4 DEF Spaced
<1>7. QED
  BY <1>3, <1>4, <1>6

(* A definition that the scan refuses. *)
RefusedAt(m, p, k) == IsDefinition(m, k) /\ ~AllowedLink(DefinedTarget(m, k), p)

Blanked(b, c, p) ==
  /\ Len(b) = Len(c)
  /\ \A k \in 1..Len(c) : b[k] = IF RefusedAt(c, p, k) THEN Blank ELSE c[k]

ReferencePlaces(c, p) ==
  {k \in 1..Len(c) : /\ ~RefusedAt(c, p, k - 1)
                     /\ ~(RefusedAt(c, p, k - 2) /\ c[k][1] = "onward")}

(* The places of the text that the reference scan leaves. *)
LEMMA ReferencesChosen ==
  ASSUME NEW c, IsListed(c), NEW p, NEW q, q = ReferencesKept(c, p)
  PROVE  \E b, pos : /\ IsListed(q) /\ Blanked(b, c, p)
                     /\ ChosenAt(pos, q, b, ReferencePlaces(c, p), Len(c))
<1>1. DOMAIN c = 1..Len(c) /\ Len(c) \in Nat
  BY ListedPlaces
<1>2. PICK b : b = [k \in DOMAIN c |-> IF RefusedAt(c, p, k) THEN Blank ELSE c[k]]
  OBVIOUS
<1>3. IsListed(b) /\ Len(b) = Len(c)
  <2>1. b = [k \in 1..Len(c) |-> b[k]]
    BY <1>1, <1>2
  <2>2. PICK T : T = {b[k] : k \in 1..Len(c)}
    OBVIOUS
  <2>3. b \in [1..Len(c) -> T]
    BY <2>1, <2>2
  <2>4. b \in Seq(T) /\ Len(b) = Len(c)
    BY <1>1, <2>3
  <2>5. QED
    BY <2>4, ListOf
<1>4. q = Chosen(b, ReferencePlaces(c, p))
  <2>1. PICK places : places = {k \in DOMAIN c : /\ ~RefusedAt(c, p, k - 1)
                                                 /\ ~(RefusedAt(c, p, k - 2) /\ c[k][1] = "onward")}
    OBVIOUS
  <2>2. q = Chosen(b, places)
    BY <1>2, <2>1, Zenon DEF ReferencesKept, RefusedAt
  <2>3. places = ReferencePlaces(c, p)
    BY <1>1, <2>1 DEF ReferencePlaces
  <2>4. QED
    BY <2>2, <2>3
<1>5. b \in Seq(ToSet(b))
  BY <1>3 DEF IsListed
<1>6. PICK pos : ChosenAt(pos, Chosen(b, ReferencePlaces(c, p)), b, ReferencePlaces(c, p), Len(b))
  BY <1>5, ChosenPlaces
<1>7. q \in Seq(ToSet(b))
  BY <1>4, <1>5, ChosenFacts
<1>8. IsListed(q)
  BY <1>7, ListOf
<1>9. Blanked(b, c, p)
  BY <1>1, <1>2, <1>3 DEF Blanked
<1>10. QED
  BY <1>3, <1>4, <1>6, <1>8, <1>9

(* What follows a token that the reference scan leaves, unless it is a blank,  *)
(* followed it before.                                                        *)
LEMMA ReferenceNeighbours ==
  ASSUME NEW c, IsListed(c), NEW p, NEW q, IsListed(q), NEW b, Blanked(b, c, p), NEW pos,
         ChosenAt(pos, q, b, ReferencePlaces(c, p), Len(c)), NEW n \in 1..Len(q),
         q[n][1] # "blank"
  PROVE  \E i \in 1..Len(c) :
           /\ i = pos[n] /\ q[n] = c[i] /\ ~RefusedAt(c, p, i)
           /\ n + 1 \in 1..Len(q) => i + 1 \in 1..Len(c) /\ pos[n + 1] = i + 1
           /\ i + 1 \in 1..Len(c) => n + 1 \in 1..Len(q) /\ pos[n + 1] = i + 1
<1>1. Len(c) \in Nat /\ Len(q) \in Nat
  BY ListedPlaces
<1>2. PICK i : i = pos[n]
  OBVIOUS
<1>3. PICK places : places = ReferencePlaces(c, p)
  OBVIOUS
<1>4. /\ i \in 1..Len(c) /\ i \in places /\ q[n] = b[i]
      /\ n + 1 \in 1..Len(q) =>
           /\ pos[n + 1] \in 1..Len(c) /\ i < pos[n + 1] /\ pos[n + 1] \in places
           /\ \A k \in 1..Len(c) : i < k /\ k < pos[n + 1] => k \notin places
      /\ i + 1 \in 1..Len(c) /\ i + 1 \in places => n + 1 \in 1..Len(q) /\ pos[n + 1] = i + 1
  <2>1. ChosenAt(pos, q, b, places, Len(c))
    BY <1>3
  <2>2. /\ pos[n] \in 1..Len(c) /\ pos[n] \in places /\ q[n] = b[pos[n]]
        /\ n + 1 \in 1..Len(q) =>
             /\ pos[n + 1] \in 1..Len(c) /\ pos[n] < pos[n + 1]
             /\ \A k \in 1..Len(c) : pos[n] < k /\ k < pos[n + 1] => k \notin places
        /\ pos[n] + 1 \in 1..Len(c) /\ pos[n] + 1 \in places =>
             n + 1 \in 1..Len(q) /\ pos[n + 1] = pos[n] + 1
    BY <1>1, <2>1, ChosenNeighbours
  <2>3. n + 1 \in 1..Len(q) => pos[n + 1] \in places
    BY <2>1 DEF ChosenAt
  <2>4. QED
    BY <1>2, <2>2, <2>3
<1>5. ~RefusedAt(c, p, i) /\ q[n] = c[i]
  <2>1. b[i] = IF RefusedAt(c, p, i) THEN Blank ELSE c[i]
    BY <1>4 DEF Blanked
  <2>2. QED
    BY <1>4, <2>1 DEF Blank
<1>6. ~RefusedAt(c, p, i - 1)
  BY <1>3, <1>4 DEF ReferencePlaces
<1>7. i + 1 \in 1..Len(c) => i + 1 \in places
  <2>1. (i + 1) - 1 = i /\ (i + 1) - 2 = i - 1
    BY <1>4
  <2>2. QED
    BY <1>3, <1>5, <1>6, <2>1 DEF ReferencePlaces
<1>8. ASSUME n + 1 \in 1..Len(q) PROVE i + 1 \in 1..Len(c) /\ pos[n + 1] = i + 1
  <2>1. i + 1 \in 1..Len(c)
    BY <1>1, <1>4, <1>8
  <2>2. QED
    BY <1>4, <1>7, <2>1
<1>9. QED
  BY <1>2, <1>4, <1>5, <1>7, <1>8

(* After the reference scan every definition is allowed, nothing is less clean *)
(* and no target stands behind another one that did not before.                *)
LEMMA ReferencesHandled ==
  ASSUME NEW c, IsListed(c), AllClean(c), NEW p, NEW q, q = ReferencesKept(c, p)
  PROVE  IsListed(q) /\ AllClean(q) /\ DefinitionsAllowed(q, p) /\ (Spaced(c) => Spaced(q))
<1>1. PICK b, pos : /\ IsListed(q) /\ Blanked(b, c, p)
                    /\ ChosenAt(pos, q, b, ReferencePlaces(c, p), Len(c))
  BY ReferencesChosen
<1>2. /\ DOMAIN q = 1..Len(q) /\ Len(q) \in Nat /\ Len(c) \in Nat
      /\ \A k \in Int : KindAt(q, k) = IF k \in 1..Len(q) THEN q[k][1] ELSE "none"
      /\ \A k \in Int : KindAt(c, k) = IF k \in 1..Len(c) THEN c[k][1] ELSE "none"
      /\ DOMAIN c = 1..Len(c)
  BY <1>1, ListedPlaces, KindOf
<1>3. ASSUME NEW n \in 1..Len(q), q[n][1] # "blank"
      PROVE  \E i \in 1..Len(c) :
               /\ i = pos[n] /\ q[n] = c[i] /\ ~RefusedAt(c, p, i)
               /\ n + 1 \in 1..Len(q) => i + 1 \in 1..Len(c) /\ pos[n + 1] = i + 1
               /\ i + 1 \in 1..Len(c) => n + 1 \in 1..Len(q) /\ pos[n + 1] = i + 1
  BY <1>1, <1>3, ReferenceNeighbours
<1>4. AllClean(q)
  <2>1. SUFFICES ASSUME NEW n \in 1..Len(q) PROVE IsClean(q[n])
    BY DEF AllClean
  <2>2. CASE q[n][1] = "blank"
    BY <2>2 DEF IsClean, RemovedKinds, LinkKinds
  <2>3. CASE q[n][1] # "blank"
    BY <1>3, <2>3 DEF AllClean
  <2>4. QED
    BY <2>2, <2>3
<1>5. DefinitionsAllowed(q, p)
  <2>1. SUFFICES ASSUME NEW n \in 1..Len(q), IsDefinition(q, n)
                 PROVE  AllowedLink(DefinedTarget(q, n), p)
    BY DEF DefinitionsAllowed
  <2>2. q[n][1] = "label" /\ n + 1 \in 1..Len(q) /\ q[n + 1][1] = "definition"
    BY <1>2, <2>1 DEF IsDefinition
  <2>3. PICK i \in 1..Len(c) : i = pos[n] /\ q[n] = c[i] /\ ~RefusedAt(c, p, i)
                               /\ i + 1 \in 1..Len(c) /\ pos[n + 1] = i + 1
    BY <1>3, <2>2
  <2>4. /\ q[n + 1] = c[i + 1]
        /\ n + 2 \in 1..Len(q) => i + 2 \in 1..Len(c) /\ pos[n + 2] = i + 2
        /\ i + 2 \in 1..Len(c) => n + 2 \in 1..Len(q) /\ pos[n + 2] = i + 2
    <3>1. PICK j \in 1..Len(c) :
            /\ j = pos[n + 1] /\ q[n + 1] = c[j]
            /\ (n + 1) + 1 \in 1..Len(q) => j + 1 \in 1..Len(c) /\ pos[(n + 1) + 1] = j + 1
            /\ j + 1 \in 1..Len(c) => (n + 1) + 1 \in 1..Len(q) /\ pos[(n + 1) + 1] = j + 1
      BY <1>3, <2>2
    <3>2. (n + 1) + 1 = n + 2 /\ (i + 1) + 1 = i + 2 /\ j = i + 1
      BY <2>3, <3>1
    <3>3. QED
      BY <3>1, <3>2
  <2>5. IsDefinition(c, i)
    BY <1>2, <2>2, <2>3, <2>4 DEF IsDefinition
  <2>6. AllowedLink(DefinedTarget(c, i), p)
    BY <2>3, <2>5 DEF RefusedAt
  <2>7. KindAt(q, n + 2) = "onward" <=> KindAt(c, i + 2) = "onward"
    <3>1. KindAt(q, n + 2) = (IF n + 2 \in 1..Len(q) THEN q[n + 2][1] ELSE "none")
          /\ KindAt(c, i + 2) = (IF i + 2 \in 1..Len(c) THEN c[i + 2][1] ELSE "none")
      BY <1>2
    <3>2. ASSUME n + 2 \in 1..Len(q), q[n + 2][1] # "blank" PROVE q[n + 2] = c[i + 2]
      BY <1>3, <2>4, <3>2
    <3>3. ASSUME n + 2 \in 1..Len(q), q[n + 2][1] = "blank" PROVE c[i + 2][1] # "onward"
      <4>1. q[n + 2] = b[i + 2] /\ i + 2 \in 1..Len(c)
        BY <1>1, <2>4, <3>3 DEF ChosenAt
      <4>2. b[i + 2] = IF RefusedAt(c, p, i + 2) THEN Blank ELSE c[i + 2]
        BY <1>1, <4>1 DEF Blanked
      <4>3. CASE RefusedAt(c, p, i + 2)
        BY <1>2, <4>1, <4>3 DEF RefusedAt, IsDefinition
      <4>4. CASE ~RefusedAt(c, p, i + 2)
        BY <3>3, <4>1, <4>2, <4>4
      <4>5. QED
        BY <4>3, <4>4
    <3>4. QED
      BY <2>4, <3>1, <3>2, <3>3
  <2>8. KindAt(q, n + 2) = "onward" => q[n + 2] = c[i + 2]
    <3>1. ASSUME KindAt(q, n + 2) = "onward" PROVE n + 2 \in 1..Len(q) /\ q[n + 2][1] = "onward"
      BY <1>2, <3>1
    <3>2. QED
      BY <1>3, <2>4, <3>1
  <2>9. DefinedTarget(q, n) = DefinedTarget(c, i)
    BY <2>4, <2>7, <2>8 DEF DefinedTarget
  <2>10. QED
    BY <2>6, <2>9
<1>6. ASSUME Spaced(c) PROVE Spaced(q)
  <2>1. SUFFICES ASSUME NEW n \in 1..Len(q), q[n][1] = "target",
                        KindAt(q, n + 1) \in {"target", "definition"}
                 PROVE  FALSE
    BY <1>2 DEF Spaced
  <2>2. n + 1 \in 1..Len(q) /\ q[n + 1][1] \in {"target", "definition"}
    BY <1>2, <2>1
  <2>3. PICK i \in 1..Len(c) : q[n] = c[i] /\ i + 1 \in 1..Len(c) /\ pos[n + 1] = i + 1
    BY <1>3, <2>1, <2>2
  <2>4. q[n + 1] = c[i + 1]
    BY <1>3, <2>2, <2>3
  <2>5. KindAt(c, i + 1) \in {"target", "definition"}
    BY <1>2, <2>2, <2>3, <2>4
  <2>6. QED
    BY <1>2, <1>6, <2>1, <2>3, <2>5 DEF Spaced
<1>7. QED
  BY <1>1, <1>4, <1>5, <1>6

InlinePlaces(a, p) == {k \in 1..Len(a) : IsInlineLink(a, k - 1) => AllowedLink(a[k][2], p)}

(* After the scan of the inline links every link is allowed, if no label could *)
(* be joined with a target behind its own.                                    *)
LEMMA InlineLinksHandled ==
  ASSUME NEW a, IsListed(a), AllClean(a), NEW p, DefinitionsAllowed(a, p),
         NEW q, q = InlineLinksKept(a, p)
  PROVE  IsListed(q) /\ AllClean(q)
         /\ (Spaced(a) => InlineAllowed(q, p) /\ DefinitionsAllowed(q, p))
<1>1. DOMAIN a = 1..Len(a) /\ Len(a) \in Nat /\ a \in Seq(ToSet(a))
  BY ListedPlaces DEF IsListed
<1>2. PICK places : places = InlinePlaces(a, p)
  OBVIOUS
<1>3. q = Chosen(a, places)
  <2>1. places = {k \in DOMAIN a : IsInlineLink(a, k - 1) => AllowedLink(a[k][2], p)}
    BY <1>1, <1>2 DEF InlinePlaces
  <2>2. QED
    BY <2>1 DEF InlineLinksKept
<1>4. PICK pos : ChosenAt(pos, q, a, places, Len(a))
  BY <1>1, <1>3, ChosenPlaces
<1>5. IsListed(q)
  <2>1. q \in Seq(ToSet(a))
    BY <1>1, <1>3, ChosenFacts
  <2>2. QED
    BY <2>1, ListOf
<1>6. /\ DOMAIN q = 1..Len(q) /\ Len(q) \in Nat
      /\ \A k \in Int : KindAt(q, k) = IF k \in 1..Len(q) THEN q[k][1] ELSE "none"
      /\ \A k \in Int : KindAt(a, k) = IF k \in 1..Len(a) THEN a[k][1] ELSE "none"
  BY <1>1, <1>5, ListedPlaces, KindOf DEF IsListed
<1>7. ASSUME NEW n \in 1..Len(q)
      PROVE  /\ pos[n] \in 1..Len(a) /\ pos[n] \in places /\ q[n] = a[pos[n]]
             /\ n + 1 \in 1..Len(q) =>
                  /\ pos[n + 1] \in 1..Len(a) /\ pos[n] < pos[n + 1]
                  /\ \A k \in 1..Len(a) : pos[n] < k /\ k < pos[n + 1] => k \notin places
             /\ pos[n] + 1 \in 1..Len(a) /\ pos[n] + 1 \in places =>
                  n + 1 \in 1..Len(q) /\ pos[n + 1] = pos[n] + 1
  BY <1>1, <1>4, <1>6, ChosenNeighbours
<1>8. AllClean(q)
  BY <1>7 DEF AllClean
<1>9. ASSUME NEW k \in 1..Len(a), k \notin places
      PROVE  k - 1 \in 1..Len(a) /\ a[k - 1][1] = "label" /\ a[k][1] = "target"
  <2>1. IsInlineLink(a, k - 1)
    BY <1>2, <1>9 DEF InlinePlaces
  <2>2. KindAt(a, k - 1) = "label" /\ KindAt(a, (k - 1) + 1) = "target" /\ (k - 1) + 1 = k
    BY <2>1 DEF IsInlineLink
  <2>3. QED
    BY <1>6, <2>2
(* A token that comes next either came next before or stood behind a target.  *)
<1>10. ASSUME Spaced(a), NEW n \in 1..Len(q), n + 1 \in 1..Len(q),
              q[n + 1][1] \in {"target", "definition"}
       PROVE  pos[n + 1] = pos[n] + 1
  <2>1. PICK i, j : i = pos[n] /\ j = pos[n + 1]
    OBVIOUS
  <2>2. /\ i \in 1..Len(a) /\ j \in 1..Len(a) /\ i < j /\ q[n + 1] = a[j]
        /\ \A k \in 1..Len(a) : i < k /\ k < j => k \notin places
    BY <1>7, <1>10, <2>1
  <2>3. CASE j = i + 1
    BY <2>1, <2>3
  <2>4. CASE j # i + 1
    <3>1. j - 1 \in 1..Len(a) /\ i < j - 1 /\ j - 1 < j
      BY <2>2, <2>4
    <3>2. a[j - 1][1] = "target"
      BY <1>9, <2>2, <3>1
    <3>3. KindAt(a, (j - 1) + 1) = a[j][1] /\ (j - 1) + 1 = j
      BY <1>6, <2>2
    <3>4. QED
      BY <1>1, <1>10, <2>2, <3>1, <3>2, <3>3 DEF Spaced
  <2>5. QED
    BY <2>3, <2>4
<1>11. ASSUME Spaced(a) PROVE InlineAllowed(q, p)
  <2>1. SUFFICES ASSUME NEW n \in 1..Len(q), IsInlineLink(q, n) PROVE AllowedLink(q[n + 1][2], p)
    BY DEF InlineAllowed
  <2>2. q[n][1] = "label" /\ n + 1 \in 1..Len(q) /\ q[n + 1][1] = "target"
    BY <1>6, <2>1 DEF IsInlineLink
  <2>3. pos[n + 1] = pos[n] + 1
    BY <1>10, <1>11, <2>2
  <2>4. PICK i : i = pos[n]
    OBVIOUS
  <2>5. /\ i \in 1..Len(a) /\ i + 1 \in 1..Len(a) /\ i + 1 \in places
        /\ q[n] = a[i] /\ q[n + 1] = a[i + 1]
    BY <1>7, <2>2, <2>3, <2>4
  <2>6. IsInlineLink(a, (i + 1) - 1)
    BY <1>6, <2>2, <2>5 DEF IsInlineLink
  <2>7. QED
    BY <1>2, <2>5, <2>6 DEF InlinePlaces
<1>12. ASSUME Spaced(a) PROVE DefinitionsAllowed(q, p)
  <2>1. SUFFICES ASSUME NEW n \in 1..Len(q), IsDefinition(q, n)
                 PROVE  AllowedLink(DefinedTarget(q, n), p)
    BY DEF DefinitionsAllowed
  <2>2. q[n][1] = "label" /\ n + 1 \in 1..Len(q) /\ q[n + 1][1] = "definition"
    BY <1>6, <2>1 DEF IsDefinition
  <2>3. PICK i : i = pos[n]
    OBVIOUS
  <2>4. pos[n + 1] = i + 1
    BY <1>10, <1>12, <2>2, <2>3
  <2>5. /\ i \in 1..Len(a) /\ i + 1 \in 1..Len(a)
        /\ q[n] = a[i] /\ q[n + 1] = a[i + 1]
    BY <1>7, <2>2, <2>3, <2>4
  <2>6. IsDefinition(a, i)
    BY <1>6, <2>2, <2>5 DEF IsDefinition
  <2>7. AllowedLink(DefinedTarget(a, i), p)
    BY <2>5, <2>6 DEF DefinitionsAllowed
  <2>8. i + 2 \in 1..Len(a) => i + 2 \in places
    <3>1. ASSUME i + 2 \in 1..Len(a), i + 2 \notin places PROVE FALSE
      <4>1. a[(i + 2) - 1][1] = "label" /\ (i + 2) - 1 = i + 1
        BY <1>9, <2>5, <3>1
      <4>2. QED
        BY <2>2, <2>5, <4>1
    <3>2. QED
      BY <3>1
  <2>9. i + 2 \in 1..Len(a) => n + 2 \in 1..Len(q) /\ pos[n + 2] = i + 2
    <3>1. pos[n + 1] + 1 \in 1..Len(a) /\ pos[n + 1] + 1 \in places =>
            (n + 1) + 1 \in 1..Len(q) /\ pos[(n + 1) + 1] = pos[n + 1] + 1
      BY <1>7, <2>2
    <3>2. (n + 1) + 1 = n + 2 /\ pos[n + 1] + 1 = i + 2
      BY <2>4, <2>5
    <3>3. QED
      BY <2>8, <3>1, <3>2
  <2>10. n + 2 \in 1..Len(q) => i + 2 \in 1..Len(a) /\ q[n + 2] = a[i + 2]
    <3>1. ASSUME n + 2 \in 1..Len(q) PROVE i + 2 \in 1..Len(a)
      <4>1. pos[(n + 1) + 1] \in 1..Len(a) /\ pos[n + 1] < pos[(n + 1) + 1] /\ (n + 1) + 1 = n + 2
        BY <1>7, <2>2, <3>1
      <4>2. QED
        BY <1>1, <2>4, <2>5, <4>1
    <3>2. ASSUME n + 2 \in 1..Len(q) PROVE q[n + 2] = a[i + 2]
      <4>1. q[n + 2] = a[pos[n + 2]]
        BY <1>7, <3>2
      <4>2. QED
        BY <2>9, <3>1, <3>2, <4>1
    <3>3. QED
      BY <3>1, <3>2
  <2>11. KindAt(q, n + 2) = KindAt(a, i + 2)
    BY <1>6, <2>5, <2>9, <2>10
  <2>12. KindAt(q, n + 2) = "onward" => q[n + 2] = a[i + 2]
    BY <1>6, <2>10
  <2>13. DefinedTarget(q, n) = DefinedTarget(a, i)
    BY <2>5, <2>11, <2>12 DEF DefinedTarget
  <2>14. QED
    BY <2>7, <2>13
<1>13. QED
  BY <1>5, <1>8, <1>11, <1>12
(* A list made of one value for each of 1..n.                                 *)
LEMMA MappedIsListed ==
  ASSUME NEW n \in Nat, NEW m, m = [i \in 1..n |-> m[i]]
  PROVE  IsListed(m) /\ Len(m) = n /\ \A x \in ToSet(m) : \E i \in 1..n : x = m[i]
<1>1. PICK T : T = {m[i] : i \in 1..n}
  OBVIOUS
<1>2. \A i \in 1..n : m[i] \in T
  BY <1>1
<1>3. m \in [1..n -> T]
  BY <1>2
<1>4. m \in Seq(T) /\ Len(m) = n
  BY <1>3
<1>5. QED
  BY <1>4, ListOf

Ordinary(m, j) == m[j][1] \in {"mention", "broadcast"} /\ ~IsBroadcast(m, j)
Mentions(m) == {n \in DOMAIN m : m[n][1] \in {"mention", "broadcast"}}

(* What becomes of the token at n.                                            *)
KeptAsIs(q, p, r, n) ==
  /\ r[n] = q[n] /\ ~IsBroadcast(q, n)
  /\ Ordinary(q, n) => ~(Cardinality({j \in 1..n : Ordinary(q, j)}) > p.maxMentions)

MadeText(q, r, n) == r[n] = <<"text", "neutralized">> /\ q[n][1] \in {"mention", "broadcast"}

(* What is neutralized is text; what is not is what it was, and no broadcast. *)
LEMMA NeutralizedTokens ==
  ASSUME NEW q, IsListed(q), NEW p, NEW r, r = MentionsNeutralized(q, p)
  PROVE  /\ IsListed(r) /\ Len(r) = Len(q)
         /\ \A n \in 1..Len(q) : KeptAsIs(q, p, r, n) \/ MadeText(q, r, n)
<1>1. DOMAIN q = 1..Len(q) /\ Len(q) \in Nat
  BY ListedPlaces
<1>2. r = [i \in 1..Len(q) |->
             IF \/ IsBroadcast(q, i)
                \/ Ordinary(q, i) /\ Cardinality({j \in 1..i : Ordinary(q, j)}) > p.maxMentions
             THEN <<"text", "neutralized">> ELSE q[i]]
  BY <1>1 DEF MentionsNeutralized, Ordinary
<1>3. IsListed(r) /\ Len(r) = Len(q)
  <2>1. r = [i \in 1..Len(q) |-> r[i]]
    BY <1>2
  <2>2. QED
    BY <1>1, <2>1, MappedIsListed
<1>4. ASSUME NEW n \in 1..Len(q)
      PROVE  KeptAsIs(q, p, r, n) \/ MadeText(q, r, n)
  <2>1. CASE IsBroadcast(q, n)
    <3>1. q[n][1] = "broadcast"
      BY <1>1, <2>1 DEF IsBroadcast, KindAt
    <3>2. QED
      BY <1>2, <2>1, <3>1 DEF MadeText
  <2>2. CASE ~IsBroadcast(q, n) /\ Ordinary(q, n)
             /\ Cardinality({j \in 1..n : Ordinary(q, j)}) > p.maxMentions
    BY <1>2, <2>2 DEF Ordinary, MadeText
  <2>3. CASE ~IsBroadcast(q, n)
             /\ ~(Ordinary(q, n) /\ Cardinality({j \in 1..n : Ordinary(q, j)}) > p.maxMentions)
    BY <1>2, <2>3 DEF KeptAsIs
  <2>4. QED
    BY <2>1, <2>2, <2>3
<1>5. QED
  BY <1>3, <1>4

(* No broadcast is left, of the other mentions no more than maxMentions, and   *)
(* the links are what they were.                                              *)
LEMMA MentionsHandled ==
  ASSUME NEW q, IsListed(q), AllClean(q), NEW p, p.maxMentions \in Nat,
         NEW r, r = MentionsNeutralized(q, p)
  PROVE  /\ IsListed(r) /\ AllClean(r) /\ Cardinality(Mentions(r)) <= p.maxMentions
         /\ \A n \in 1..Len(r) : ~IsBroadcast(r, n)
         /\ InlineAllowed(q, p) => InlineAllowed(r, p)
         /\ DefinitionsAllowed(q, p) => DefinitionsAllowed(r, p)
<1>1. /\ IsListed(r) /\ Len(r) = Len(q)
      /\ \A n \in 1..Len(q) : KeptAsIs(q, p, r, n) \/ MadeText(q, r, n)
  BY NeutralizedTokens
<1>2. /\ DOMAIN r = 1..Len(q) /\ DOMAIN q = 1..Len(q) /\ Len(q) \in Nat
      /\ \A k \in Int : KindAt(q, k) = IF k \in 1..Len(q) THEN q[k][1] ELSE "none"
      /\ \A k \in Int : KindAt(r, k) = IF k \in 1..Len(q) THEN r[k][1] ELSE "none"
  BY <1>1, ListedPlaces, KindOf
<1>3. ASSUME NEW n \in 1..Len(q)
      PROVE  r[n] = q[n] \/ (r[n][1] = "text" /\ q[n][1] \in {"mention", "broadcast"})
  <2>1. <<"text", "neutralized">>[1] = "text"
    OBVIOUS
  <2>2. QED
    BY <1>1, <2>1 DEF KeptAsIs, MadeText
<1>4. ASSUME NEW kind \in {"label", "target", "definition", "onward", "tail"}, NEW k \in Int
      PROVE  /\ KindAt(r, k) = kind <=> KindAt(q, k) = kind
             /\ KindAt(q, k) = kind => k \in 1..Len(q) /\ r[k] = q[k]
  <2>1. kind \notin {"none", "text", "mention", "broadcast"}
    BY <1>4
  <2>2. CASE k \in 1..Len(q)
    <3>1. KindAt(r, k) = r[k][1] /\ KindAt(q, k) = q[k][1]
      BY <1>2, <2>2
    <3>2. QED
      BY <1>3, <2>1, <2>2, <3>1
  <2>3. CASE k \notin 1..Len(q)
    BY <1>2, <2>1, <2>3
  <2>4. QED
    BY <2>2, <2>3
<1>5. AllClean(r)
  <2>1. ASSUME NEW n \in 1..Len(q) PROVE IsClean(r[n])
    <3>1. CASE r[n][1] = "text"
      BY <3>1 DEF IsClean, RemovedKinds, LinkKinds
    <3>2. CASE r[n] = q[n]
      BY <3>2 DEF AllClean
    <3>3. QED
      BY <1>3, <3>1, <3>2
  <2>2. QED
    BY <1>1, <2>1 DEF AllClean
<1>6. ASSUME NEW n \in 1..Len(q), IsBroadcast(r, n) PROVE FALSE
  <2>1. r[n][1] = "broadcast" /\ KindAt(r, n + 1) # "tail"
    BY <1>2, <1>6 DEF IsBroadcast
  <2>2. r[n] # <<"text", "neutralized">>
    BY <2>1
  <2>3. q[n][1] = "broadcast" /\ ~IsBroadcast(q, n)
    BY <1>1, <2>1, <2>2 DEF KeptAsIs, MadeText
  <2>4. KindAt(q, n + 1) = "tail"
    BY <1>2, <2>3 DEF IsBroadcast
  <2>5. KindAt(r, n + 1) = "tail"
    <3>1. n + 1 \in Int
      BY <1>2
    <3>2. QED
      BY <1>4, <2>4, <3>1
  <2>6. QED
    BY <2>1, <2>5
<1>7. ASSUME InlineAllowed(q, p) PROVE InlineAllowed(r, p)
  <2>1. SUFFICES ASSUME NEW n \in 1..Len(q), IsInlineLink(r, n) PROVE AllowedLink(r[n + 1][2], p)
    BY <1>1 DEF InlineAllowed
  <2> n \in Int /\ n + 1 \in Int /\ n + 2 \in Int
    BY <1>2
  <2>2. KindAt(q, n) = "label" /\ KindAt(q, n + 1) = "target"
    BY <1>4, <2>1 DEF IsInlineLink
  <2>3. n + 1 \in 1..Len(q) /\ r[n + 1] = q[n + 1]
    BY <1>4, <2>2
  <2>4. IsInlineLink(q, n)
    BY <2>2 DEF IsInlineLink
  <2>5. QED
    BY <1>7, <2>3, <2>4 DEF InlineAllowed
<1>8. ASSUME DefinitionsAllowed(q, p) PROVE DefinitionsAllowed(r, p)
  <2>1. SUFFICES ASSUME NEW n \in 1..Len(q), IsDefinition(r, n)
                 PROVE  AllowedLink(DefinedTarget(r, n), p)
    BY <1>1 DEF DefinitionsAllowed
  <2> n \in Int /\ n + 1 \in Int /\ n + 2 \in Int
    BY <1>2
  <2>2. KindAt(q, n) = "label" /\ KindAt(q, n + 1) = "definition"
    BY <1>4, <2>1 DEF IsDefinition
  <2>3. n + 1 \in 1..Len(q) /\ r[n + 1] = q[n + 1]
    BY <1>4, <2>2
  <2>4. IsDefinition(q, n)
    BY <2>2 DEF IsDefinition
  <2>5. /\ KindAt(r, n + 2) = "onward" <=> KindAt(q, n + 2) = "onward"
        /\ KindAt(q, n + 2) = "onward" => r[n + 2] = q[n + 2]
    BY <1>4
  <2>6. DefinedTarget(r, n) = DefinedTarget(q, n)
    BY <2>3, <2>5 DEF DefinedTarget
  <2>7. QED
    BY <1>8, <2>4, <2>6 DEF DefinitionsAllowed
<1>9. Cardinality(Mentions(r)) <= p.maxMentions
  <2> DEFINE M == Mentions(r)
  <2>1. M = {n \in 1..Len(q) : r[n][1] \in {"mention", "broadcast"}}
    BY <1>2 DEF Mentions
  <2>2. \A n \in M : n \in 1..Len(q) /\ Ordinary(q, n)
    <3>1. ASSUME NEW n \in M PROVE n \in 1..Len(q) /\ Ordinary(q, n)
      <4>1. n \in 1..Len(q) /\ r[n][1] \in {"mention", "broadcast"}
        BY <2>1, <3>1
      <4>2. r[n] # <<"text", "neutralized">>
        BY <4>1
      <4>3. QED
        BY <1>1, <4>1, <4>2 DEF Ordinary, KeptAsIs, MadeText
    <3>2. QED
      BY <3>1
  <2>3. IsFiniteSet(M) /\ M \in SUBSET Nat
    <3>1. 1 \in Int /\ Len(q) \in Int
      BY <1>2
    <3>2. IsFiniteSet(1..Len(q)) /\ M \subseteq 1..Len(q)
      BY <2>1, <3>1, FS_Interval
    <3>3. IsFiniteSet(M)
      BY <3>2, FS_Subset
    <3>4. QED
      BY <3>2, <3>3
  <2> HIDE DEF M
  <2>4. CASE M = {}
    <3>1. Cardinality(M) = 0
      BY <2>4, FS_EmptySet
    <3>2. QED
      BY <3>1 DEF M
  <2>5. CASE M # {}
    <3>1. PICK b : b = Max(M) /\ b \in M /\ \A y \in M : y <= b
      BY <2>3, <2>5, MaxExists
    <3>2. b \in 1..Len(q) /\ Ordinary(q, b)
      BY <2>2, <3>1
    <3>3. PICK B : B = {j \in 1..b : Ordinary(q, j)}
      OBVIOUS
    <3>4. ~(Cardinality(B) > p.maxMentions)
      <4>1. r[b] # <<"text", "neutralized">>
        BY <2>1, <3>1 DEF M
      <4>2. QED
        BY <1>1, <3>2, <3>3, <4>1 DEF KeptAsIs, MadeText
    <3>5. M \subseteq B
      <4>1. ASSUME NEW n \in M PROVE n \in B
        BY <2>2, <3>1, <3>2, <3>3, <4>1
      <4>2. QED
        BY <4>1
    <3>6. IsFiniteSet(B)
      <4>1. 1 \in Int /\ b \in Int
        BY <3>2
      <4>2. IsFiniteSet(1..b) /\ B \subseteq 1..b
        BY <3>3, <4>1, FS_Interval
      <4>3. QED
        BY <4>2, FS_Subset
    <3>7. Cardinality(M) <= Cardinality(B) /\ Cardinality(M) \in Nat /\ Cardinality(B) \in Nat
      BY <2>3, <3>5, <3>6, FS_Subset, FS_CardinalityType
    <3>8. QED
      BY <3>4, <3>7 DEF M
  <2>6. QED
    BY <2>4, <2>5
<1>10. QED
  BY <1>1, <1>5, <1>6, <1>7, <1>8, <1>9

(* What is left of a text without the blanks at its end is a beginning of it. *)
LEMMA StrippedIsPrefix ==
  ASSUME NEW s, IsListed(s), NEW t, t = Stripped(s)
  PROVE  /\ IsListed(t) /\ Len(t) \in 0..Len(s)
         /\ \A n \in 1..Len(t) : t[n] = s[n]
<1>1. DOMAIN s = 1..Len(s) /\ Len(s) \in Nat /\ s \in Seq(ToSet(s))
  BY ListedPlaces DEF IsListed
<1>2. PICK W : W = {k \in DOMAIN s : s[k][1] # "blank"}
  OBVIOUS
<1>3. t = IF W = {} THEN <<>> ELSE SubSeq(s, 1, Max(W))
  BY <1>2 DEF Stripped
<1>4. CASE W = {}
  <2>1. t = <<>> /\ t \in Seq({0}) /\ Len(t) = 0
    BY <1>3, <1>4
  <2>2. IsListed(t)
    BY <2>1, ListOf
  <2>3. QED
    BY <1>1, <2>1, <2>2
<1>5. CASE W # {}
  <2>1. IsFiniteSet(W) /\ W \in SUBSET Nat
    <3>1. 1 \in Int /\ Len(s) \in Int
      BY <1>1
    <3>2. IsFiniteSet(1..Len(s)) /\ W \subseteq 1..Len(s)
      BY <1>1, <1>2, <3>1, FS_Interval
    <3>3. IsFiniteSet(W)
      BY <3>2, FS_Subset
    <3>4. QED
      BY <3>2, <3>3
  <2>2. PICK b : b = Max(W) /\ b \in W
    BY <1>5, <2>1, MaxExists
  <2>3. b \in 1..Len(s) /\ t = SubSeq(s, 1, b)
    BY <1>1, <1>2, <1>3, <1>5, <2>2
  <2>4. PICK T : T = ToSet(s)
    OBVIOUS
  <2>5. t \in Seq(T) /\ Len(t) = b /\ \A n \in 1..b : t[n] = s[n]
    BY <1>1, <2>3, <2>4
  <2>6. IsListed(t)
    BY <2>5, ListOf
  <2>7. QED
    BY <1>1, <2>3, <2>5, <2>6
<1>6. QED
  BY <1>4, <1>5

(* A truncated text: its first l tokens are what they were, markers are behind *)
(* them, and one at least if something was cut.                               *)
CutBehind(t, r, l) ==
  /\ l \in 0..Len(r) /\ l \in 0..Len(t)
  /\ \A n \in 1..l : t[n] = r[n]
  /\ \A n \in 1..Len(t) : n > l => t[n] = Marker
  /\ l < Len(r) => l < Len(t)

LEMMA TruncatedFits ==
  ASSUME NEW r, IsListed(r), NEW p, p.maxOutput \in Nat, p.marker \in 1..(p.maxOutput - 1),
         NEW t, t = Truncated(r, p)
  PROVE  /\ IsListed(t) /\ Len(t) \in 0..p.maxOutput
         /\ \E l : CutBehind(t, r, l)
<1>1. PICK limit, marker : limit = p.maxOutput /\ marker = p.marker
  OBVIOUS
<1>2. limit \in Nat /\ marker \in 1..(limit - 1) /\ Len(r) \in Nat
  BY <1>1, ListedPlaces
<1>3. CASE Len(r) <= limit
  <2>1. t = r
    BY <1>1, <1>3 DEF Truncated
  <2>2. CutBehind(t, r, Len(r))
    BY <1>2, <2>1 DEF CutBehind
  <2>3. QED
    BY <1>1, <1>2, <1>3, <2>1, <2>2
<1>4. CASE Len(r) > limit
  <2>1. PICK a, b, s : /\ s = SubSeq(r, 1, p.maxOutput - p.marker) /\ a = Stripped(s)
                       /\ b = [i \in 1..p.marker |-> Marker]
    OBVIOUS
  <2>2. t = a \o b
    <3>1. ~(Len(r) <= p.maxOutput)
      BY <1>1, <1>2, <1>4
    <3>2. QED
      BY <2>1, <3>1, Zenon DEF Truncated
  <2>3. s = SubSeq(r, 1, limit - marker) /\ b = [i \in 1..marker |-> Marker]
    BY <1>1, <2>1, Zenon
  <2>4. IsListed(s) /\ Len(s) = limit - marker /\ \A n \in 1..Len(s) : s[n] = r[n]
    <3>1. PICK T : T = ToSet(r)
      OBVIOUS
    <3>2. r \in Seq(T)
      BY <3>1 DEF IsListed
    <3>3. s \in Seq(T) /\ Len(s) = limit - marker /\ \A n \in 1..Len(s) : s[n] = r[n]
      BY <1>2, <1>4, <2>3, <3>2
    <3>4. QED
      BY <3>3, ListOf
  <2>5. IsListed(a) /\ Len(a) \in 0..Len(s) /\ \A n \in 1..Len(a) : a[n] = s[n]
    <3>1. a = Stripped(s) /\ IsListed(s)
      BY <2>1, <2>4, Zenon
    <3>2. QED
      BY <3>1, StrippedIsPrefix
  <2>6. PICK l : l = Len(a)
    OBVIOUS
  <2>7. l \in 0..(limit - marker) /\ \A n \in 1..l : a[n] = r[n]
    BY <1>2, <2>4, <2>5, <2>6
  <2>8. b \in Seq({Marker}) /\ Len(b) = marker /\ \A n \in 1..marker : b[n] = Marker
    BY <1>2, <2>3
  <2>9. /\ IsListed(t) /\ Len(t) = l + marker
        /\ \A n \in 1..Len(t) : t[n] = IF n <= l THEN a[n] ELSE b[n - l]
    <3>1. PICK T, U : T = ToSet(a) /\ U = T \union {Marker}
      OBVIOUS
    <3>2. a \in Seq(T)
      BY <2>5, <3>1 DEF IsListed
    <3>3. a \in Seq(U) /\ b \in Seq(U)
      BY <2>8, <3>1, <3>2
    <3>4. t \in Seq(U) /\ Len(t) = Len(a) + Len(b)
      BY <2>2, <3>3
    <3>5. \A n \in 1..Len(t) : t[n] = IF n <= Len(a) THEN a[n] ELSE b[n - Len(a)]
      BY <2>2, <3>3, <3>4
    <3>6. IsListed(t)
      BY <3>4, ListOf
    <3>7. QED
      BY <2>6, <2>8, <3>4, <3>5, <3>6
  <2>10. ASSUME NEW n \in 1..Len(t), n > l PROVE t[n] = Marker
    <3>1. n - l \in 1..marker /\ t[n] = b[n - l]
      BY <1>2, <2>7, <2>9, <2>10
    <3>2. QED
      BY <2>8, <3>1
  <2>11. \A n \in 1..l : t[n] = r[n]
    <3>1. ASSUME NEW n \in 1..l PROVE t[n] = r[n]
      <4>1. n \in 1..Len(t) /\ n <= l
        BY <1>2, <2>7, <2>9
      <4>2. QED
        BY <2>7, <2>9, <4>1
    <3>2. QED
      BY <3>1
  <2>12. l \in 0..Len(r) /\ l \in 0..Len(t) /\ l < Len(t) /\ Len(t) \in 0..limit
    BY <1>2, <1>4, <2>7, <2>9
  <2>13. CutBehind(t, r, l)
    BY <2>10, <2>11, <2>12 DEF CutBehind
  <2>14. QED
    BY <1>1, <2>9, <2>12, <2>13
<1>5. QED
  BY <1>2, <1>3, <1>4

(* What is broadcast or defined behind the guardrail was cut there.           *)
BroadcastsCut(t) == \A k \in 1..Len(t) : IsBroadcast(t, k) => CutAt(t, k)
DefinitionsCut(t, p) ==
  \A k \in 1..Len(t) :
    IsDefinition(t, k) => AllowedLink(DefinedTarget(t, k), p) \/ CutAt(t, k + 1)

(* The cut may uncover a broadcast or the beginning of a target, and no more.  *)
LEMMA CutHandled ==
  ASSUME NEW r, IsListed(r), AllClean(r), NEW t, IsListed(t), NEW l, CutBehind(t, r, l), NEW p,
         \A n \in 1..Len(r) : ~IsBroadcast(r, n)
  PROVE  /\ AllClean(t) /\ Mentions(t) \subseteq Mentions(r) /\ BroadcastsCut(t)
         /\ InlineAllowed(r, p) => InlineAllowed(t, p)
         /\ DefinitionsAllowed(r, p) => DefinitionsCut(t, p)
<1>1. /\ DOMAIN r = 1..Len(r) /\ Len(r) \in Nat
      /\ DOMAIN t = 1..Len(t) /\ Len(t) \in Nat
      /\ \A k \in Int : KindAt(r, k) = IF k \in 1..Len(r) THEN r[k][1] ELSE "none"
      /\ \A k \in Int : KindAt(t, k) = IF k \in 1..Len(t) THEN t[k][1] ELSE "none"
  BY ListedPlaces, KindOf
<1>2. /\ l \in 0..Len(r) /\ l \in 0..Len(t)
      /\ \A n \in 1..l : t[n] = r[n]
      /\ \A n \in 1..Len(t) : n > l => t[n] = Marker
      /\ l < Len(r) => l < Len(t)
  BY DEF CutBehind
<1>3. Marker[1] = "text"
  BY DEF Marker
<1>4. ASSUME NEW n \in 1..Len(t), t[n][1] # "text"
      PROVE  /\ n \in 1..l /\ n \in 1..Len(r) /\ t[n] = r[n]
             /\ n < l => n + 1 \in 1..l /\ n + 1 \in 1..Len(r) /\ n + 1 \in 1..Len(t) /\ t[n + 1] = r[n + 1]
             /\ n = l /\ l < Len(r) => CutAt(t, n)
             /\ n = l /\ l = Len(r) => KindAt(r, n + 1) = "none" /\ KindAt(t, n + 1) \in {"none", "text"}
  <2>1. n \in 1..l
    BY <1>1, <1>2, <1>3, <1>4
  <2>2. n = l /\ l < Len(r) => CutAt(t, n)
    <3>1. SUFFICES ASSUME n = l, l < Len(r) PROVE CutAt(t, n)
      OBVIOUS
    <3>2. n + 1 \in 1..Len(t) /\ t[n + 1] = Marker
      BY <1>1, <1>2, <3>1
    <3>3. QED
      BY <1>1, <3>2 DEF CutAt
  <2>3. n = l /\ l = Len(r) => KindAt(r, n + 1) = "none" /\ KindAt(t, n + 1) \in {"none", "text"}
    <3>1. SUFFICES ASSUME n = l, l = Len(r)
                   PROVE  KindAt(r, n + 1) = "none" /\ KindAt(t, n + 1) \in {"none", "text"}
      OBVIOUS
    <3>2. n + 1 \in Int /\ n + 1 \notin 1..Len(r)
      BY <1>1, <3>1
    <3>3. CASE n + 1 \in 1..Len(t)
      <4>1. t[n + 1] = Marker
        BY <1>1, <1>2, <3>1, <3>3
      <4>2. QED
        BY <1>1, <1>3, <3>2, <3>3, <4>1
    <3>4. CASE n + 1 \notin 1..Len(t)
      BY <1>1, <3>2, <3>4
    <3>5. QED
      BY <3>3, <3>4
  <2>4. n \in 1..Len(r) /\ t[n] = r[n]
    BY <1>1, <1>2, <2>1
  <2>5. n < l => n + 1 \in 1..l /\ n + 1 \in 1..Len(r) /\ n + 1 \in 1..Len(t) /\ t[n + 1] = r[n + 1]
    <3>1. n < l => n + 1 \in 1..l /\ n + 1 \in 1..Len(r) /\ n + 1 \in 1..Len(t)
      BY <1>1, <1>2, <2>1
    <3>2. QED
      BY <1>2, <3>1
  <2>6. QED
    BY <2>1, <2>2, <2>3, <2>4, <2>5
<1>5. AllClean(t)
  <2>1. ASSUME NEW n \in 1..Len(t) PROVE IsClean(t[n])
    <3>1. CASE t[n][1] = "text"
      BY <3>1 DEF IsClean, RemovedKinds, LinkKinds
    <3>2. CASE t[n][1] # "text"
      BY <1>4, <3>2 DEF AllClean
    <3>3. QED
      BY <3>1, <3>2
  <2>2. QED
    BY <2>1 DEF AllClean
<1>6. Mentions(t) \subseteq Mentions(r)
  <2>1. ASSUME NEW n \in 1..Len(t), t[n][1] \in {"mention", "broadcast"} PROVE n \in Mentions(r)
    BY <1>1, <1>4, <2>1 DEF Mentions
  <2>2. QED
    BY <1>1, <2>1 DEF Mentions
<1>7. ASSUME NEW k \in 1..Len(t), IsBroadcast(t, k) PROVE CutAt(t, k)
  <2>1. k \in Int /\ k + 1 \in Int
    BY <1>1
  <2>2. t[k][1] = "broadcast" /\ KindAt(t, k + 1) # "tail"
    BY <1>1, <1>7, <2>1 DEF IsBroadcast
  <2>3. k \in 1..l /\ k \in 1..Len(r) /\ t[k] = r[k]
    BY <1>4, <2>2
  <2>4. KindAt(r, k + 1) = "tail"
    BY <1>1, <2>1, <2>2, <2>3 DEF IsBroadcast
  <2>5. CASE k < l
    <3>1. k + 1 \in 1..Len(r) /\ k + 1 \in 1..Len(t) /\ t[k + 1] = r[k + 1]
      BY <1>4, <2>2, <2>5
    <3>2. QED
      BY <1>1, <2>1, <2>2, <2>4, <3>1
  <2>6. CASE k = l
    <3>1. t[k][1] # "text"
      BY <2>2
    <3>2. CASE l < Len(r)
      BY <1>4, <2>6, <3>1, <3>2
    <3>3. CASE l = Len(r)
      BY <1>4, <2>4, <2>6, <3>1, <3>3
    <3>4. QED
      BY <1>1, <1>2, <3>2, <3>3
  <2>7. QED
    BY <1>2, <2>3, <2>5, <2>6
<1>8. ASSUME InlineAllowed(r, p) PROVE InlineAllowed(t, p)
  <2>1. SUFFICES ASSUME NEW k \in 1..Len(t), IsInlineLink(t, k) PROVE AllowedLink(t[k + 1][2], p)
    BY DEF InlineAllowed
  <2>2. k \in Int /\ k + 1 \in Int
    BY <1>1
  <2>3. t[k][1] = "label" /\ k + 1 \in 1..Len(t) /\ t[k + 1][1] = "target"
    BY <1>1, <2>1, <2>2 DEF IsInlineLink
  <2>4. k \in 1..Len(r) /\ t[k] = r[k] /\ k + 1 \in 1..Len(r) /\ t[k + 1] = r[k + 1]
    BY <1>4, <2>3
  <2>5. IsInlineLink(r, k)
    BY <1>1, <2>2, <2>3, <2>4 DEF IsInlineLink
  <2>6. QED
    BY <1>8, <2>4, <2>5 DEF InlineAllowed
<1>9. ASSUME DefinitionsAllowed(r, p) PROVE DefinitionsCut(t, p)
  <2>1. SUFFICES ASSUME NEW k \in 1..Len(t), IsDefinition(t, k)
                 PROVE  AllowedLink(DefinedTarget(t, k), p) \/ CutAt(t, k + 1)
    BY DEF DefinitionsCut
  <2>2. k \in Int /\ k + 1 \in Int /\ k + 2 \in Int /\ (k + 1) + 1 = k + 2
    BY <1>1
  <2>3. t[k][1] = "label" /\ k + 1 \in 1..Len(t) /\ t[k + 1][1] = "definition"
    BY <1>1, <2>1, <2>2 DEF IsDefinition
  <2>4. k \in 1..Len(r) /\ t[k] = r[k] /\ k + 1 \in 1..Len(r) /\ t[k + 1] = r[k + 1] /\ k + 1 \in 1..l
    BY <1>4, <2>3
  <2>5. IsDefinition(r, k)
    BY <1>1, <2>2, <2>3, <2>4 DEF IsDefinition
  <2>6. AllowedLink(DefinedTarget(r, k), p)
    BY <1>9, <2>4, <2>5 DEF DefinitionsAllowed
  <2>7. CASE k + 1 < l
    <3>1. k + 2 \in 1..Len(r) /\ k + 2 \in 1..Len(t) /\ t[k + 2] = r[k + 2]
      BY <1>4, <2>2, <2>3, <2>7
    <3>2. KindAt(t, k + 2) = KindAt(r, k + 2)
      BY <1>1, <2>2, <3>1
    <3>3. DefinedTarget(t, k) = DefinedTarget(r, k)
      BY <2>4, <3>1, <3>2 DEF DefinedTarget
    <3>4. QED
      BY <2>6, <3>3
  <2>8. CASE k + 1 = l /\ l < Len(r)
    BY <1>4, <2>3, <2>8
  <2>9. CASE k + 1 = l /\ l = Len(r)
    <3>1. KindAt(r, k + 2) = "none" /\ KindAt(t, k + 2) \in {"none", "text"}
      BY <1>4, <2>2, <2>3, <2>9
    <3>2. DefinedTarget(t, k) = DefinedTarget(r, k)
      BY <2>4, <3>1 DEF DefinedTarget
    <3>3. QED
      BY <2>6, <3>2
  <2>10. QED
    <3>1. (k + 1 < l \/ k + 1 = l) /\ (l < Len(r) \/ l = Len(r))
      <4>1. PICK n, m : n = k + 1 /\ m = Len(r)
        OBVIOUS
      <4>2. m \in Nat /\ n \in 1..l /\ l \in 0..m
        <5>1. Len(r) \in Nat
          BY <1>1
        <5>2. QED
          BY <1>2, <2>4, <4>1, <5>1
      <4>3. (n < l \/ n = l) /\ (l < m \/ l = m)
        BY <4>2
      <4>4. QED
        BY <4>1, <4>3
    <3>2. QED
      BY <2>7, <2>8, <2>9, <3>1
<1>10. QED
  BY <1>5, <1>6, <1>7, <1>8, <1>9 DEF BroadcastsCut

TargetsSafe(q, p) ==
  /\ DOMAIN q = 1..Len(q) /\ Len(q) <= p.maxLinks
  /\ \A n \in 1..Len(q) : AllowedLink(q[n], p) /\ q[n].secret = FALSE

(* The links of an answer are allowed, no secret is in them and there are not *)
(* too many.                                                                  *)
LEMMA LinksSafe ==
  ASSUME NEW links \in Seq(Uris), NEW p, p.maxLinks \in Nat
  PROVE  TargetsSafe(SafeLinks(links, p), p)
<1>1. PICK most : most = IF Len(links) < p.maxLinks THEN Len(links) ELSE p.maxLinks
  OBVIOUS
<1>2. most \in Nat /\ most <= p.maxLinks /\ most <= Len(links) /\ Len(links) \in Nat
  BY <1>1
<1>3. PICK capped : capped = SubSeq(links, 1, most)
  OBVIOUS
<1>4. capped \in Seq(Uris) /\ Len(capped) = most /\ DOMAIN capped = 1..most
  BY <1>2, <1>3
<1>5. PICK red, R : red = [i \in DOMAIN capped |-> RedactedLink(capped[i])] /\ R = {u \in Uris : u.secret = FALSE}
  OBVIOUS
<1>6. red \in Seq(R) /\ Len(red) = most /\ DOMAIN red = 1..most
  <2>1. ASSUME NEW i \in 1..most
        PROVE  red[i] \in R
    <3>1. PICK u \in Uris : u = capped[i]
      BY <1>4
    <3>2. RedactedLink(u) \in Uris /\ RedactedLink(u).secret = FALSE
      BY DEF RedactedLink, Uris
    <3>3. red[i] = RedactedLink(u)
      BY <1>4, <1>5, <3>1
    <3>4. QED
      BY <1>5, <3>2, <3>3
  <2>2. red = [i \in 1..most |-> red[i]]
    BY <1>4, <1>5
  <2>3. red \in [1..most -> R]
    BY <2>1, <2>2
  <2>4. QED
    BY <1>2, <2>3
<1>7. PICK places : places = {k \in DOMAIN red : ~ red[k].long /\ AllowedLink(red[k], p)}
  OBVIOUS
<1>8. PICK q : q = SafeLinks(links, p) /\ q = Chosen(red, places)
  BY <1>1, <1>3, <1>5, <1>7 DEF SafeLinks, EvidenceLinksKept
<1>9. /\ q \in Seq(R) /\ Len(q) <= Len(red)
      /\ \A n \in 1..Len(q) : \E k \in 1..Len(red) : k \in places /\ q[n] = red[k]
  <2>1. /\ Chosen(red, places) \in Seq(R) /\ Len(Chosen(red, places)) <= Len(red)
        /\ \A n \in 1..Len(Chosen(red, places)) :
             \E k \in 1..Len(red) : k \in places /\ Chosen(red, places)[n] = red[k]
    BY <1>6, ChosenFacts
  <2>2. QED
    BY <1>8, <2>1
<1>10. ASSUME NEW n \in 1..Len(q)
       PROVE  AllowedLink(q[n], p) /\ q[n].secret = FALSE
  <2>1. PICK k \in 1..Len(red) : k \in places /\ q[n] = red[k]
    BY <1>9
  <2>2. AllowedLink(red[k], p)
    BY <1>7, <2>1
  <2>3. q[n] \in R
    BY <1>9
  <2>4. QED
    BY <1>5, <2>1, <2>2, <2>3
<1>11. Len(q) \in Nat /\ DOMAIN q = 1..Len(q)
  BY <1>9
<1>12. Len(q) <= p.maxLinks
  BY <1>2, <1>6, <1>9, <1>11
<1>13. QED
  BY <1>8, <1>10, <1>11, <1>12 DEF TargetsSafe

TextSafe(t, p) ==
  /\ IsListed(t) /\ Len(t) \in 0..p.maxOutput
  /\ AllClean(t) /\ BroadcastsCut(t) /\ Cardinality(Mentions(t)) <= p.maxMentions

(* The links of a text are allowed, but for a target that the cut left.       *)
TextLinked(t, p) == InlineAllowed(t, p) /\ DefinitionsCut(t, p)

(* The text of an answer is within the limit of its length and of its         *)
(* mentions, nothing that is removed is in it, and its links are allowed if no *)
(* target stood behind another one.                                           *)
LEMMA MarkdownSafe ==
  ASSUME NEW m, IsMarkdown(m), NEW p, IsOutputPolicy(p)
  PROVE  /\ TextSafe(SafeMarkdown(m, p), p)
         /\ Spaced(m) => TextLinked(SafeMarkdown(m, p), p)
<1>1. p.maxOutput \in Nat /\ p.marker \in 1..(p.maxOutput - 1) /\ p.maxMentions \in Nat
  BY DEF IsOutputPolicy
<1>2. PICK c : c = Cleaned(m)
  OBVIOUS
<1>3. IsListed(c) /\ AllClean(c) /\ (Spaced(m) => Spaced(c))
  BY <1>2, CleanedText
<1>4. PICK a : a = ReferencesKept(c, p)
  OBVIOUS
<1>5. IsListed(a) /\ AllClean(a) /\ DefinitionsAllowed(a, p) /\ (Spaced(c) => Spaced(a))
  BY <1>3, <1>4, ReferencesHandled
<1>6. PICK q : q = InlineLinksKept(a, p)
  OBVIOUS
<1>7. IsListed(q) /\ AllClean(q) /\ (Spaced(a) => InlineAllowed(q, p) /\ DefinitionsAllowed(q, p))
  BY <1>5, <1>6, InlineLinksHandled
<1>8. PICK r : r = MentionsNeutralized(q, p)
  OBVIOUS
<1>9. /\ IsListed(r) /\ AllClean(r) /\ Cardinality(Mentions(r)) <= p.maxMentions
      /\ \A n \in 1..Len(r) : ~IsBroadcast(r, n)
      /\ InlineAllowed(q, p) => InlineAllowed(r, p)
      /\ DefinitionsAllowed(q, p) => DefinitionsAllowed(r, p)
  BY <1>1, <1>7, <1>8, MentionsHandled
<1>10. PICK t : t = Truncated(r, p)
  OBVIOUS
<1>11. t = SafeMarkdown(m, p)
  BY <1>2, <1>4, <1>6, <1>8, <1>10 DEF SafeMarkdown, Cleaned
<1>12. PICK l : IsListed(t) /\ Len(t) \in 0..p.maxOutput /\ CutBehind(t, r, l)
  BY <1>1, <1>9, <1>10, TruncatedFits
<1>13. /\ AllClean(t) /\ Mentions(t) \subseteq Mentions(r) /\ BroadcastsCut(t)
       /\ InlineAllowed(r, p) => InlineAllowed(t, p)
       /\ DefinitionsAllowed(r, p) => DefinitionsCut(t, p)
  BY <1>9, <1>12, CutHandled
<1>14. Cardinality(Mentions(t)) <= p.maxMentions
  <2>1. DOMAIN r = 1..Len(r) /\ Len(r) \in Nat
    BY <1>9, ListedPlaces
  <2>2. IsFiniteSet(Mentions(r))
    <3>1. 1 \in Int /\ Len(r) \in Int
      BY <2>1
    <3>2. IsFiniteSet(1..Len(r)) /\ Mentions(r) \subseteq 1..Len(r)
      BY <2>1, <3>1, FS_Interval DEF Mentions
    <3>3. QED
      BY <3>2, FS_Subset
  <2>3. PICK M, N : M = Mentions(t) /\ N = Mentions(r)
    OBVIOUS
  <2>4. Cardinality(M) <= Cardinality(N) /\ Cardinality(M) \in Nat /\ Cardinality(N) \in Nat
    <3>1. M \subseteq N /\ IsFiniteSet(N)
      BY <1>13, <2>2, <2>3
    <3>2. QED
      BY <3>1, FS_Subset, FS_CardinalityType
  <2>5. QED
    BY <1>1, <1>9, <2>3, <2>4
<1>15. TextSafe(t, p)
  BY <1>12, <1>13, <1>14 DEF TextSafe
<1>16. Spaced(m) => TextLinked(t, p)
  BY <1>3, <1>5, <1>7, <1>9, <1>13 DEF TextLinked
<1>17. QED
  BY <1>11, <1>15, <1>16

(* What an answer must not have.                                              *)
IsSafe(o, p) ==
  TextSafe(o.markdown, p) /\ Len(o.markdown) >= 1 /\ TargetsSafe(o.links, p)

(* Whatever text and links the guardrail is given, what it lets out is safe.  *)
LEMMA SanitizedIsSafe ==
  ASSUME NEW c, IsMarkdown(c.markdown), c.links \in Seq(Uris), NEW p, IsOutputPolicy(p),
         IsSafeOutput(Sanitized(c, p))
  PROVE  /\ IsSafe(Sanitized(c, p), p)
         /\ Spaced(c.markdown) => TextLinked(Sanitized(c, p).markdown, p)
<1>1. PICK o, t, q : o = Sanitized(c, p) /\ t = SafeMarkdown(c.markdown, p) /\ q = SafeLinks(c.links, p)
  OBVIOUS
<1>2. o.code = "allowed" /\ Stripped(o.markdown) # <<>>
  BY <1>1 DEF IsSafeOutput
<1>3. o.markdown = t /\ o.links = q
  BY <1>1, <1>2 DEF Sanitized
<1>4. TextSafe(t, p) /\ (Spaced(c.markdown) => TextLinked(t, p))
  BY <1>1, MarkdownSafe
<1>5. TargetsSafe(q, p)
  <2>1. p.maxLinks \in Nat
    BY DEF IsOutputPolicy
  <2>2. QED
    BY <1>1, <2>1, LinksSafe
<1>6. Len(t) >= 1
  <2>1. DOMAIN t = 1..Len(t) /\ Len(t) \in Nat
    BY <1>4, ListedPlaces DEF TextSafe
  <2>2. ASSUME Len(t) = 0 PROVE FALSE
    <3>1. {k \in DOMAIN t : t[k][1] # "blank"} = {}
      BY <2>1, <2>2
    <3>2. Stripped(t) = <<>>
      BY <3>1 DEF Stripped
    <3>3. QED
      BY <1>2, <1>3, <3>2
  <2>3. QED
    BY <2>1, <2>2
<1>7. QED
  BY <1>1, <1>3, <1>4, <1>5, <1>6 DEF IsSafe

-----------------------------------------------------------------------------
(* What the reducer writes *)

(* Markdown is a list of tokens whose links have URIs for targets.            *)
LEMMA MarkdownIs ==
  ASSUME NEW m
  PROVE  IsMarkdown(m) <=> IsListed(m) /\ \A x \in ToSet(m) : IsLinked(x)
<1>1. ASSUME IsMarkdown(m)
      PROVE  IsListed(m) /\ \A x \in ToSet(m) : IsLinked(x)
  <2>1. IsListed(m)
    BY <1>1 DEF IsMarkdown, IsListed
  <2>2. \A k \in 1..Len(m) : IsLinked(m[k])
    BY <1>1, <2>1, ListedPlaces DEF IsMarkdown, IsLinked
  <2>3. QED
    BY <2>1, <2>2, ListedPlaces
<1>2. ASSUME IsListed(m), \A x \in ToSet(m) : IsLinked(x)
      PROVE  IsMarkdown(m)
  <2>1. \A k \in DOMAIN m : IsLinked(m[k])
    BY <1>2, ListedPlaces
  <2>2. m \in Seq(ToSet(m))
    BY <1>2 DEF IsListed
  <2>3. QED
    BY <2>1, <2>2 DEF IsMarkdown, IsLinked
<1>3. QED
  BY <1>1, <1>2

(* Tokens in a row are markdown; so are none, one, and two texts joined.      *)
LEMMA MappedIsMarkdown ==
  ASSUME NEW n \in Nat, NEW m, m = [i \in 1..n |-> m[i]], \A i \in 1..n : IsLinked(m[i])
  PROVE  IsMarkdown(m)
BY MappedIsListed, MarkdownIs

LEMMA OneIsMarkdown ==
  IsMarkdown(<<>>) /\ \A x : IsLinked(x) => IsMarkdown(<<x>>)
<1>1. IsMarkdown(<<>>)
  <2>1. PICK m : m = <<>>
    OBVIOUS
  <2>2. m = [i \in 1..0 |-> m[i]] /\ \A i \in 1..0 : IsLinked(m[i])
    BY <2>1
  <2>3. IsMarkdown(m)
    BY <2>2, MappedIsMarkdown
  <2>4. QED
    BY <2>1, <2>3
<1>2. ASSUME NEW x, IsLinked(x)
      PROVE  IsMarkdown(<<x>>)
  <2>1. PICK m : m = <<x>>
    OBVIOUS
  <2>2. m = [i \in 1..1 |-> m[i]] /\ \A i \in 1..1 : m[i] = x
    BY <2>1
  <2>3. \A i \in 1..1 : IsLinked(m[i])
    BY <1>2, <2>2
  <2>4. IsMarkdown(m)
    BY <2>2, <2>3, MappedIsMarkdown
  <2>5. QED
    BY <2>1, <2>4
<1>3. QED
  BY <1>1, <1>2

LEMMA JoinedIsListed ==
  ASSUME NEW a, NEW b, IsListed(a), IsListed(b)
  PROVE  IsListed(a \o b) /\ ToSet(a \o b) \subseteq ToSet(a) \union ToSet(b)
<1>1. PICK T : T = ToSet(a) \union ToSet(b)
  OBVIOUS
<1>2. a \in Seq(T) /\ b \in Seq(T)
  <2>1. PICK A, B : A = ToSet(a) /\ B = ToSet(b)
    OBVIOUS
  <2>2. a \in Seq(A) /\ b \in Seq(B) /\ A \subseteq T /\ B \subseteq T
    BY <1>1, <2>1 DEF IsListed
  <2>3. QED
    BY <2>2
<1>3. a \o b \in Seq(T)
  BY <1>2
<1>4. IsListed(a \o b) /\ ToSet(a \o b) \subseteq T
  BY <1>3, ListOf
<1>5. QED
  BY <1>1, <1>4

LEMMA JoinedIsMarkdown ==
  ASSUME NEW a, NEW b, IsMarkdown(a), IsMarkdown(b)
  PROVE  IsMarkdown(a \o b)
<1>1. IsListed(a) /\ IsListed(b) /\ (\A x \in ToSet(a) : IsLinked(x)) /\ \A x \in ToSet(b) : IsLinked(x)
  BY MarkdownIs
<1>2. IsListed(a \o b) /\ ToSet(a \o b) \subseteq ToSet(a) \union ToSet(b)
  BY <1>1, JoinedIsListed
<1>3. QED
  BY <1>1, <1>2, MarkdownIs

(* Lists put one after the other.                                             *)
LEMMA FlatIsListed ==
  ASSUME NEW n \in Nat, NEW ss, ss = [k \in 1..n |-> ss[k]],
         NEW T, \A k \in 1..n : IsListed(ss[k]) /\ ToSet(ss[k]) \subseteq T
  PROVE  FlattenSeq(ss) \in Seq(T)
<1>1. \A k \in 1..n : ss[k] \in Seq(T)
  <2>1. ASSUME NEW k \in 1..n
        PROVE  ss[k] \in Seq(T)
    <3>1. PICK s, U : s = ss[k] /\ U = ToSet(s)
      OBVIOUS
    <3>2. s \in Seq(U) /\ U \subseteq T
      BY <3>1 DEF IsListed
    <3>3. QED
      BY <3>1, <3>2
  <2>2. QED
    BY <2>1
<1>2. PICK V : V = Seq(T)
  OBVIOUS
<1>3. ss \in [1..n -> V]
  BY <1>1, <1>2
<1>4. ss \in Seq(V)
  BY <1>3
<1>5. QED
  BY <1>2, <1>4, FlattenFacts

(* Texts put one after the other are markdown.                                *)
LEMMA FlatIsMarkdown ==
  ASSUME NEW n \in Nat, NEW ss, ss = [k \in 1..n |-> ss[k]], \A k \in 1..n : IsMarkdown(ss[k])
  PROVE  IsMarkdown(FlattenSeq(ss))
<1>1. PICK T : T = UNION {ToSet(ss[k]) : k \in 1..n}
  OBVIOUS
<1>2. \A k \in 1..n : IsListed(ss[k]) /\ ToSet(ss[k]) \subseteq T /\ \A x \in ToSet(ss[k]) : IsLinked(x)
  BY <1>1, MarkdownIs
<1>3. FlattenSeq(ss) \in Seq(T)
  BY <1>2, FlatIsListed
<1>4. \A x \in T : IsLinked(x)
  BY <1>1, <1>2
<1>5. QED
  BY <1>3, <1>4, ListOf, MarkdownIs

(* A token that is not a link.                                                *)
LEMMA OtherIsLinked == \A x : x[1] \in {"heading", "text", "warning", "source", "sources"} => IsLinked(x)
BY DEF IsLinked, LinkKinds

Results == UNION {ResultsFor[t] : t \in DOMAIN ResultsFor}

(* What AgentResult promises of its parts.                                    *)
LEMMA ResultFacts ==
  ASSUME NEW r \in Results
  PROVE  /\ IsMarkdown(r.summary) /\ IsListed(r.warnings)
         /\ IsListed(r.evidence) /\ \A e \in ToSet(r.evidence) : e.uri \in DOMAIN Normalized
<1>1. PICK t \in DOMAIN ResultsFor : r \in ResultsFor[t]
  BY DEF Results
<1>2. IsResult(r)
  BY <1>1, AnswerAssumption
<1>3. IsMarkdown(r.summary) /\ IsListed(r.warnings)
  BY <1>2 DEF IsResult, IsListed
<1>4. PICK E, titles : /\ titles = {e.title : e \in ToSet(r.evidence)}
                       /\ E = [title : titles, uri : DOMAIN Normalized]
  OBVIOUS
<1>5. r.evidence \in Seq(E)
  BY <1>2, <1>4 DEF IsResult
<1>6. IsListed(r.evidence) /\ ToSet(r.evidence) \subseteq E
  BY <1>5, ListOf
<1>7. QED
  BY <1>3, <1>4, <1>6

(* The results of one task, of all tasks in the plan's order, and of those    *)
(* that the body shows are results.                                           *)
LEMMA ResultsOfTask ==
  ASSUME NEW o, o.results \in Seq(Results), NEW task
  PROVE  ResultOf(o, task) \in Seq(Results)
<1>1. PICK s, places : s = o.results /\ places = {k \in DOMAIN s : s[k].task = task}
  OBVIOUS
<1>2. Chosen(s, places) \in Seq(Results)
  BY <1>1, ChosenFacts
<1>3. QED
  BY <1>1, <1>2 DEF ResultOf

(* The lines of warning of a task carry no links.                             *)
LEMMA WarningsOfTask ==
  ASSUME NEW plan0, NEW o, o.results \in Seq(Results), NEW task
  PROVE  IsMarkdown(TaskWarnings(plan0, o, task))
<1>1. PICK own, code : /\ own = ResultOf(o, task)
                       /\ code = IF own = <<>> THEN "dependency_failed" ELSE own[1].error
  OBVIOUS
<1>2. own \in Seq(Results) /\ DOMAIN own = 1..Len(own) /\ Len(own) \in Nat /\ \A k \in 1..Len(own) : own[k] \in Results
  BY <1>1, ResultsOfTask
<1>3. PICK first, a, b, c, ss :
        /\ first = IF Missing(o, task) THEN << <<"warning", task, <<"optional step failed", code>>>> >> ELSE <<>>
        /\ a = [k \in 1..Len(own) |-> IF own[k].status = "partial"
                                      THEN << <<"warning", task, <<"partial result", task>>>> >> ELSE <<>>]
        /\ b = [k \in 1..Len(own) |-> IF own[k].error # NoError /\ own[k].status # "failed"
                                      THEN << <<"warning", task, <<"error", own[k].error>>>> >> ELSE <<>>]
        /\ c = [k \in 1..Len(own) |-> [i \in DOMAIN own[k].warnings |-> <<"warning", task, own[k].warnings[i]>>]]
        /\ ss = [k \in 1..Len(own) |-> a[k] \o b[k] \o c[k]]
  OBVIOUS
<1>4. TaskWarnings(plan0, o, task) = first \o FlattenSeq(ss)
  <2>1. ss = [k \in DOMAIN own |->
          (IF own[k].status = "partial" THEN << <<"warning", task, <<"partial result", task>>>> >> ELSE <<>>)
          \o (IF own[k].error # NoError /\ own[k].status # "failed"
              THEN << <<"warning", task, <<"error", own[k].error>>>> >> ELSE <<>>)
          \o [i \in DOMAIN own[k].warnings |-> <<"warning", task, own[k].warnings[i]>>]]
    BY <1>2, <1>3
  <2>2. QED
    BY <1>1, <1>3, <2>1, Zenon DEF TaskWarnings
<1>5. \A x : IsLinked(<<"warning", task, x>>)
  BY OtherIsLinked
<1>6. IsMarkdown(first)
  BY <1>3, <1>5, OneIsMarkdown
<1>7. ASSUME NEW k \in 1..Len(own)
      PROVE  IsMarkdown(ss[k])
  <2>1. IsMarkdown(a[k])
    <3>1. a[k] = << <<"warning", task, <<"partial result", task>>>> >> \/ a[k] = <<>>
      BY <1>3
    <3>2. QED
      BY <1>5, <3>1, OneIsMarkdown
  <2>2. IsMarkdown(b[k])
    <3>1. b[k] = << <<"warning", task, <<"error", own[k].error>>>> >> \/ b[k] = <<>>
      BY <1>3
    <3>2. QED
      BY <1>5, <3>1, OneIsMarkdown
  <2>3. IsMarkdown(c[k])
    <3>1. PICK w, m : w = own[k].warnings /\ m = c[k]
      OBVIOUS
    <3>2. IsListed(w)
      BY <1>2, <3>1, ResultFacts
    <3>3. DOMAIN w = 1..Len(w) /\ Len(w) \in Nat
      BY <3>2, ListedPlaces
    <3>4. m = [i \in 1..Len(w) |-> <<"warning", task, w[i]>>]
      BY <1>3, <3>1, <3>3
    <3>5. m = [i \in 1..Len(w) |-> m[i]] /\ \A i \in 1..Len(w) : IsLinked(m[i])
      BY <1>5, <3>4
    <3>6. IsMarkdown(m)
      BY <3>3, <3>5, MappedIsMarkdown
    <3>7. QED
      BY <3>1, <3>6
  <2>4. IsMarkdown(a[k] \o b[k] \o c[k])
    BY <2>1, <2>2, <2>3, JoinedIsMarkdown
  <2>5. ss[k] = a[k] \o b[k] \o c[k]
    BY <1>3
  <2>6. QED
    BY <2>4, <2>5
<1>8. IsMarkdown(FlattenSeq(ss))
  <2>1. ss = [k \in 1..Len(own) |-> ss[k]]
    BY <1>3
  <2>2. QED
    BY <1>2, <1>7, <2>1, FlatIsMarkdown
<1>9. QED
  BY <1>4, <1>6, <1>8, JoinedIsMarkdown

Titles == {e.title : e \in UNION {ToSet(r.evidence) : r \in Results}}
Pieces == [title : Titles, uri : Uris \union {NoUri}]
Numbered == [evidence : Seq(Pieces), numbers : Seq(Nat)]

(* A piece of evidence takes its number.                                      *)
LEMMA PlaceNumbers ==
  ASSUME NEW g \in Numbered, NEW e, e.title \in Titles, e.uri \in DOMAIN Normalized
  PROVE  Place(g, e) \in Numbered
<1>1. PICK uri, known, evidence, index :
        /\ uri = Normalized[e.uri]
        /\ known = {i \in DOMAIN g.evidence : uri # NoUri /\ g.evidence[i].uri = uri}
        /\ evidence = IF known = {} THEN Append(g.evidence, [title |-> e.title, uri |-> uri]) ELSE g.evidence
        /\ index = IF known = {} THEN Len(evidence) ELSE Min(known)
  OBVIOUS
<1>2. PICK s, ns : s = g.evidence /\ ns = g.numbers /\ s \in Seq(Pieces) /\ ns \in Seq(Nat)
  BY DEF Numbered
<1>3. evidence \in Seq(Pieces)
  <2>1. uri \in Uris \union {NoUri}
    BY <1>1, NormalizedAssumption
  <2>2. PICK x : x = [title |-> e.title, uri |-> uri] /\ x \in Pieces
    <3>1. PICK title \in Titles : title = e.title
      OBVIOUS
    <3>2. [title |-> title, uri |-> uri] \in Pieces
      BY <2>1 DEF Pieces
    <3>3. QED
      BY <3>1, <3>2
  <2>3. Append(s, x) \in Seq(Pieces)
    BY <1>2, <2>2
  <2>4. QED
    BY <1>1, <1>2, <2>2, <2>3
<1>4. index \in Nat
  <2>1. CASE known = {}
    BY <1>1, <1>3, <2>1
  <2>2. CASE known # {}
    <3>1. DOMAIN s = 1..Len(s)
      BY <1>2
    <3>2. known \in SUBSET Nat
      BY <1>1, <1>2, <3>1
    <3>3. \E x \in known : \A y \in known : x <= y
      BY <2>2, <3>2, NatLeast
    <3>4. Min(known) \in known
      BY <3>3 DEF Min
    <3>5. QED
      BY <1>1, <2>2, <3>2, <3>4
  <2>3. QED
    BY <2>1, <2>2
<1>5. PICK numbers : /\ numbers = IF Contains(ns, index) THEN ns ELSE Append(ns, index)
                     /\ numbers \in Seq(Nat)
  <2>1. ns \in Seq(Nat) /\ Append(ns, index) \in Seq(Nat)
    BY <1>2, <1>4
  <2>2. QED
    BY <2>1
<1>6. Place(g, e) = [evidence |-> evidence, numbers |-> numbers]
  BY <1>1, <1>2, <1>5, Zenon DEF Place
<1>7. QED
  BY <1>3, <1>5, <1>6 DEF Numbered

Tasks == {r.task : r \in Results}
Gathered == [evidence : Seq(Pieces), sources : UNION {[S -> Seq(Nat)] : S \in SUBSET Tasks}]

(* The collecting of the evidence of one more result, and of all, unfolded.   *)
Placing(h, g, r) ==
  /\ h[0] = [evidence |-> g.evidence, numbers |-> <<>>]
  /\ \A k \in 1..Len(r.evidence) : h[k] = Place(h[k - 1], r.evidence[k])
  /\ \A k \in 0..Len(r.evidence) : h[k] \in Numbered

LEMMA GatherRecurrence ==
  ASSUME NEW g \in Gathered, NEW r \in Results
  PROVE  \E h : /\ Placing(h, g, r)
               /\ GatherOf(g, r) =
                    [evidence |-> h[Len(r.evidence)].evidence,
                     sources |-> [t \in DOMAIN g.sources \union {r.task} |->
                                    IF t = r.task THEN h[Len(r.evidence)].numbers ELSE g.sources[t]]]
<1> DEFINE N == Len(r.evidence)
           base == [evidence |-> g.evidence, numbers |-> <<>>]
           Found(h) == h = [k \in 0..N |-> IF k = 0 THEN base ELSE Place(h[k - 1], r.evidence[k])]
           step == [p \in (1..N) \X Numbered |-> Place(p[2], r.evidence[p[1]])]
<1>1. /\ N \in Nat /\ (\A k \in 1..N : k - 1 \in 0..N) /\ \A k \in 0..N : k = 0 \/ k \in 1..N
      /\ \A k \in 1..N : r.evidence[k] \in ToSet(r.evidence)
  <2>1. PICK s : s = r.evidence /\ IsListed(s)
    BY ResultFacts
  <2>2. Len(s) \in Nat /\ \A k \in 1..Len(s) : s[k] \in ToSet(s)
    BY <2>1, ListedPlaces
  <2>3. QED
    BY <2>1, <2>2
<1>2. base \in Numbered
  <2>1. g.evidence \in Seq(Pieces) /\ <<>> \in Seq(Nat)
    BY DEF Gathered
  <2>2. QED
    BY <2>1 DEF Numbered
<1> HIDE DEF N, base
<1>3. \A k \in 1..N : \A v \in Numbered : Place(v, r.evidence[k]) \in Numbered
  <2>1. ASSUME NEW k \in 1..N, NEW v \in Numbered
        PROVE  Place(v, r.evidence[k]) \in Numbered
    <3>1. PICK e \in ToSet(r.evidence) : e = r.evidence[k]
      BY <1>1
    <3>2. e.title \in Titles
      BY DEF Titles
    <3>3. e.uri \in DOMAIN Normalized
      BY ResultFacts
    <3>4. Place(v, e) \in Numbered
      BY <3>2, <3>3, PlaceNumbers
    <3>5. QED
      BY <3>1, <3>4
  <2>2. QED
    BY <2>1
<1>4. \A k \in 1..N : \A v \in Numbered : step[<<k, v>>] = Place(v, r.evidence[k]) /\ step[<<k, v>>] \in Numbered
  <2>1. \A k \in 1..N : \A v \in Numbered : step[<<k, v>>] = Place(v, r.evidence[k])
    OBVIOUS
  <2> HIDE DEF step
  <2>2. QED
    BY <1>3, <2>1
<1> HIDE DEF step, Found
<1>5. PICK f \in [0..N -> Numbered] : f[0] = base /\ \A k \in 1..N : f[k] = step[<<k, f[k - 1]>>]
  <2>1. IsStepwise(Numbered, N, base, step)
    BY <1>1, <1>2, <1>4 DEF IsStepwise
  <2>2. QED
    BY <2>1, FunctionByStep
<1> USE DEF Found
<1>6. \A k \in 1..N : f[k] = Place(f[k - 1], r.evidence[k])
  BY <1>1, <1>4, <1>5
<1>7. Found(f)
  <2> DEFINE h == [k \in 0..N |-> IF k = 0 THEN base ELSE Place(f[k - 1], r.evidence[k])]
  <2>1. \A k \in 0..N : f[k] = h[k]
    BY <1>1, <1>5, <1>6
  <2>2. f = h
    <3>1. f = [k \in 0..N |-> f[k]] /\ h = [k \in 0..N |-> h[k]]
      BY <1>5
    <3> HIDE DEF h
    <3>2. QED
      BY <2>1, <3>1
  <2>3. QED
    BY <2>2
<1>8. PICK h : h = CHOOSE c : Found(c)
  OBVIOUS
<1>9. Found(h)
  <2> HIDE DEF Found
  <2> QED
    BY <1>7, <1>8
<1>10. h[0] = base /\ \A k \in 1..N : h[k] = Place(h[k - 1], r.evidence[k])
  <2>1. \A k \in 0..N : h[k] = IF k = 0 THEN base ELSE Place(h[k - 1], r.evidence[k])
    BY <1>9
  <2>2. 0 \in 0..N /\ \A k \in 1..N : k \in 0..N /\ k # 0
    BY <1>1
  <2> HIDE DEF Found
  <2>3. QED
    BY <2>1, <2>2
<1>11. \A k \in 0..N : h[k] \in Numbered
  <2>1. h[0] \in Numbered
    BY <1>2, <1>10
  <2>2. \A k \in 1..N : h[k - 1] \in Numbered => h[k] \in Numbered
    BY <1>3, <1>10
  <2> HIDE DEF Found
  <2>3. QED
    BY <1>1, <2>1, <2>2, StepsStay
<1> DEFINE all == (CHOOSE c : Found(c))[N]
           extended == [t \in DOMAIN g.sources \union {r.task} |->
                          IF t = r.task THEN all.numbers ELSE g.sources[t]]
<1>12. GatherOf(g, r) = [evidence |-> all.evidence, sources |-> extended]
  BY Zenon DEF GatherOf, N, base
<1>13. all = h[Len(r.evidence)]
  <2> HIDE DEF Found
  <2>1. QED
    BY <1>8 DEF N
<1> HIDE DEF all, Found
<1>14. Placing(h, g, r)
  BY <1>10, <1>11 DEF Placing, N, base
<1>15. QED
  BY <1>12, <1>13, <1>14

(* The evidence of one more result.                                           *)
LEMMA GatherNumbers ==
  ASSUME NEW g \in Gathered, NEW r \in Results
  PROVE  GatherOf(g, r) \in Gathered
<1>0. PICK h : /\ Placing(h, g, r)
               /\ GatherOf(g, r) =
                    [evidence |-> h[Len(r.evidence)].evidence,
                     sources |-> [t \in DOMAIN g.sources \union {r.task} |->
                                    IF t = r.task THEN h[Len(r.evidence)].numbers ELSE g.sources[t]]]
  BY GatherRecurrence
<1> DEFINE all == h[Len(r.evidence)]
           extended == [t \in DOMAIN g.sources \union {r.task} |-> IF t = r.task THEN all.numbers ELSE g.sources[t]]
<1>1. Placing(h, g, r) /\ GatherOf(g, r) = [evidence |-> all.evidence, sources |-> extended]
  BY <1>0
<1> HIDE DEF extended
<1>2. all \in Numbered
  <2>1. r.evidence \in Seq(ToSet(r.evidence))
    BY ResultFacts DEF IsListed
  <2>2. Len(r.evidence) \in 0..Len(r.evidence)
    BY <2>1
  <2>3. QED
    BY <1>1, <2>2 DEF Placing
<1> HIDE DEF all
<1>3. extended \in UNION {[S -> Seq(Nat)] : S \in SUBSET Tasks}
  <2>1. PICK S \in SUBSET Tasks : g.sources \in [S -> Seq(Nat)]
    BY DEF Gathered
  <2>2. PICK a, t, ns : a = g.sources /\ t = r.task /\ ns = all.numbers
    OBVIOUS
  <2>3. t \in Tasks /\ ns \in Seq(Nat)
    BY <1>2, <2>2 DEF Tasks, Numbered
  <2>4. PICK V : V = Seq(Nat)
    OBVIOUS
  <2>5. [u \in S \union {t} |-> IF u = t THEN ns ELSE a[u]] \in [S \union {t} -> V]
    BY <2>1, <2>2, <2>3, <2>4
  <2>6. extended = [u \in S \union {t} |-> IF u = t THEN ns ELSE a[u]]
    BY <2>1, <2>2 DEF extended
  <2>7. S \union {t} \in SUBSET Tasks
    BY <2>3
  <2>8. QED
    BY <2>4, <2>5, <2>6, <2>7
<1>4. all.evidence \in Seq(Pieces)
  BY <1>2 DEF Numbered
<1>5. QED
  BY <1>1, <1>3, <1>4 DEF Gathered

Gathering(h, rs) ==
  /\ h[0] = [evidence |-> <<>>, sources |-> <<>>]
  /\ \A k \in 1..Len(rs) : h[k] = GatherOf(h[k - 1], rs[k])
  /\ \A k \in 0..Len(rs) : h[k] \in Gathered

LEMMA CollectRecurrence ==
  ASSUME NEW rs \in Seq(Results)
  PROVE  \E h : Gathering(h, rs) /\ CollectEvidence(rs) = h[Len(rs)]
<1> DEFINE N == Len(rs)
           base == [evidence |-> <<>>, sources |-> <<>>]
           Found(h) == h = [k \in 0..N |-> IF k = 0 THEN base ELSE GatherOf(h[k - 1], rs[k])]
           step == [p \in (1..N) \X Gathered |-> GatherOf(p[2], rs[p[1]])]
<1>1. /\ N \in Nat /\ (\A k \in 1..N : k - 1 \in 0..N) /\ (\A k \in 0..N : k = 0 \/ k \in 1..N)
      /\ \A k \in 1..N : rs[k] \in Results
  OBVIOUS
<1>2. base \in Gathered
  <2>1. PICK V, none : V = Seq(Nat) /\ none = <<>>
    OBVIOUS
  <2>2. none \in [{} -> V]
    <3>1. DOMAIN none = {} /\ none = [k \in {} |-> none[k]]
      BY <2>1
    <3>2. QED
      BY <3>1
  <2>3. none \in UNION {[S -> Seq(Nat)] : S \in SUBSET Tasks}
    BY <2>1, <2>2
  <2>4. none \in Seq(Pieces)
    BY <2>1
  <2>5. base = [evidence |-> none, sources |-> none]
    BY <2>1
  <2> HIDE DEF base
  <2>6. QED
    BY <2>3, <2>4, <2>5 DEF Gathered
<1> HIDE DEF N, base
<1>3. \A k \in 1..N : \A v \in Gathered : GatherOf(v, rs[k]) \in Gathered
  BY <1>1, GatherNumbers
<1>4. \A k \in 1..N : \A v \in Gathered : step[<<k, v>>] = GatherOf(v, rs[k]) /\ step[<<k, v>>] \in Gathered
  <2>1. \A k \in 1..N : \A v \in Gathered : step[<<k, v>>] = GatherOf(v, rs[k])
    OBVIOUS
  <2> HIDE DEF step
  <2>2. QED
    BY <1>3, <2>1
<1> HIDE DEF step, Found
<1>5. PICK f \in [0..N -> Gathered] : f[0] = base /\ \A k \in 1..N : f[k] = step[<<k, f[k - 1]>>]
  <2>1. IsStepwise(Gathered, N, base, step)
    BY <1>1, <1>2, <1>4 DEF IsStepwise
  <2>2. QED
    BY <2>1, FunctionByStep
<1> USE DEF Found
<1>6. \A k \in 1..N : f[k] = GatherOf(f[k - 1], rs[k])
  BY <1>1, <1>4, <1>5
<1>7. Found(f)
  <2> DEFINE h == [k \in 0..N |-> IF k = 0 THEN base ELSE GatherOf(f[k - 1], rs[k])]
  <2>1. \A k \in 0..N : f[k] = h[k]
    BY <1>1, <1>5, <1>6
  <2>2. f = h
    <3>1. f = [k \in 0..N |-> f[k]] /\ h = [k \in 0..N |-> h[k]]
      BY <1>5
    <3> HIDE DEF h
    <3>2. QED
      BY <2>1, <3>1
  <2>3. QED
    BY <2>2
<1>8. PICK h : h = CHOOSE c : Found(c)
  OBVIOUS
<1>9. Found(h)
  <2> HIDE DEF Found
  <2> QED
    BY <1>7, <1>8
<1>10. h[0] = base /\ \A k \in 1..N : h[k] = GatherOf(h[k - 1], rs[k])
  <2>1. \A k \in 0..N : h[k] = IF k = 0 THEN base ELSE GatherOf(h[k - 1], rs[k])
    BY <1>9
  <2>2. 0 \in 0..N /\ \A k \in 1..N : k \in 0..N /\ k # 0
    BY <1>1
  <2> HIDE DEF Found
  <2>3. QED
    BY <2>1, <2>2
<1>11. \A k \in 0..N : h[k] \in Gathered
  <2>1. h[0] \in Gathered
    BY <1>2, <1>10
  <2>2. \A k \in 1..N : h[k - 1] \in Gathered => h[k] \in Gathered
    BY <1>3, <1>10
  <2> HIDE DEF Found
  <2>3. QED
    BY <1>1, <2>1, <2>2, StepsStay
<1>12. CollectEvidence(rs) = h[N]
  <2>1. CollectEvidence(rs) = (CHOOSE c : Found(c))[N]
    BY Zenon DEF CollectEvidence, N, base
  <2> HIDE DEF Found
  <2>2. QED
    BY <1>8, <2>1
<1> HIDE DEF Found
<1>13. Gathering(h, rs)
  BY <1>10, <1>11 DEF Gathering, N, base
<1>14. QED
  BY <1>12, <1>13 DEF N

(* The evidence of all results.                                               *)
LEMMA CollectNumbers ==
  ASSUME NEW rs \in Seq(Results)
  PROVE  CollectEvidence(rs) \in Gathered
<1>1. PICK h : Gathering(h, rs) /\ CollectEvidence(rs) = h[Len(rs)]
  BY CollectRecurrence
<1>2. Len(rs) \in 0..Len(rs)
  OBVIOUS
<1>3. QED
  BY <1>1, <1>2 DEF Gathering

LEMMA OrderedAreResults ==
  ASSUME NEW pl, IsListed(pl.tasks), NEW o, o.results \in Seq(Results)
  PROVE  OrderedResults(pl, o) \in Seq(Results)
<1>1. PICK n, ss : n = Len(pl.tasks) /\ ss = [k \in DOMAIN pl.tasks |-> ResultOf(o, pl.tasks[k].id)]
  OBVIOUS
<1>2. DOMAIN pl.tasks = 1..n /\ n \in Nat
  <2>1. PICK s : s = pl.tasks /\ IsListed(s)
    OBVIOUS
  <2>2. DOMAIN s = 1..Len(s) /\ Len(s) \in Nat
    BY <2>1, ListedPlaces
  <2>3. QED
    BY <1>1, <2>1, <2>2
<1>3. \A k \in 1..n : ss[k] = ResultOf(o, pl.tasks[k].id)
  BY <1>1, <1>2
<1>4. \A k \in 1..n : IsListed(ss[k]) /\ ToSet(ss[k]) \subseteq Results
  <2>1. ASSUME NEW k \in 1..n
        PROVE  IsListed(ss[k]) /\ ToSet(ss[k]) \subseteq Results
    <3>1. PICK s : s = ss[k]
      OBVIOUS
    <3>2. s \in Seq(Results)
      BY <1>3, <3>1, ResultsOfTask
    <3>3. QED
      BY <3>1, <3>2, ListOf
  <2>2. QED
    BY <2>1
<1>5. ss = [k \in 1..n |-> ss[k]]
  BY <1>1, <1>2
<1>6. FlattenSeq(ss) \in Seq(Results)
  BY <1>2, <1>4, <1>5, FlatIsListed
<1>7. QED
  BY <1>1, <1>6 DEF OrderedResults

LEMMA BodyAreResults ==
  ASSUME NEW pl, IsListed(pl.tasks), NEW o, o.results \in Seq(Results)
  PROVE  BodyResults(pl, o) \in Seq(Results)
<1>1. PICK rs : rs = OrderedResults(pl, o) /\ rs \in Seq(Results)
  BY OrderedAreResults
<1>2. PICK places : places = {k \in DOMAIN rs :
                        IF pl.composition = "deterministic" THEN rs[k].status # "failed"
                        ELSE rs[k].task = SynthesisTasks(pl.tasks)[1].id}
  OBVIOUS
<1>3. Chosen(rs, places) \in Seq(Results)
  BY <1>1, ChosenFacts
<1>4. BodyResults(pl, o) = Chosen(rs, places)
  BY <1>1, <1>2 DEF BodyResults
<1>5. QED
  BY <1>3, <1>4

(* The warnings carry no links, those of the Run either.                      *)
LEMMA WarningsOfRun ==
  ASSUME NEW pl, IsListed(pl.tasks), NEW o, o.results \in Seq(Results), IsListed(o.warnings)
  PROVE  IsMarkdown(CollectWarnings(pl, o))
<1>1. PICK n, ss : n = Len(pl.tasks) /\ ss = [k \in DOMAIN pl.tasks |-> TaskWarnings(pl, o, pl.tasks[k].id)]
  OBVIOUS
<1>2. DOMAIN pl.tasks = 1..n /\ n \in Nat
  <2>1. PICK s : s = pl.tasks /\ IsListed(s)
    OBVIOUS
  <2>2. DOMAIN s = 1..Len(s) /\ Len(s) \in Nat
    BY <2>1, ListedPlaces
  <2>3. QED
    BY <1>1, <2>1, <2>2
<1>3. \A k \in 1..n : ss[k] = TaskWarnings(pl, o, pl.tasks[k].id)
  BY <1>1, <1>2
<1>4. \A k \in 1..n : IsMarkdown(ss[k])
  BY <1>3, WarningsOfTask
<1>5. ss = [k \in 1..n |-> ss[k]]
  BY <1>1, <1>2
<1>6. IsMarkdown(FlattenSeq(ss))
  BY <1>2, <1>4, <1>5, FlatIsMarkdown
<1> DEFINE known == FlattenSeq([k \in DOMAIN pl.tasks |-> RawWarnings(pl, o, pl.tasks[k].id)])
           places == {i \in DOMAIN o.warnings : TimesIn(SubSeq(o.warnings, 1, i), o.warnings[i])
                                                  > TimesIn(known, o.warnings[i])}
           others == Chosen(o.warnings, places)
           last == [i \in DOMAIN others |-> <<"warning", "run", others[i]>>]
<1>7. CollectWarnings(pl, o) = FlattenSeq(ss) \o last
  BY <1>1 DEF CollectWarnings
<1> HIDE DEF known, places
<1>8. PICK T, w : T = ToSet(w) /\ w = o.warnings /\ w \in Seq(T)
  <2>1. PICK w : w = o.warnings /\ IsListed(w)
    OBVIOUS
  <2>2. QED
    BY <2>1 DEF IsListed
<1>9. others \in Seq(T)
  <2>1. Chosen(w, places) \in Seq(T)
    BY <1>8, ChosenFacts
  <2>2. QED
    BY <1>8, <2>1
<1> HIDE DEF others
<1>10. DOMAIN others = 1..Len(others) /\ Len(others) \in Nat
  BY <1>9
<1>11. \A i \in 1..Len(others) : last[i] = <<"warning", "run", others[i]>>
  BY <1>10
<1>12. \A x : IsLinked(<<"warning", "run", x>>)
  BY OtherIsLinked
<1>13. IsMarkdown(last)
  <2>1. last = [i \in 1..Len(others) |-> last[i]]
    BY <1>10
  <2>2. \A i \in 1..Len(others) : IsLinked(last[i])
    BY <1>11, <1>12
  <2> HIDE DEF last
  <2>3. QED
    BY <1>10, <2>1, <2>2, MappedIsMarkdown
<1> HIDE DEF last
<1>14. QED
  BY <1>6, <1>7, <1>13, JoinedIsMarkdown

(* A section adds no link to the summary it has.                              *)
LEMMA SectionIsMarkdown ==
  ASSUME NEW r \in Results, NEW numbers
  PROVE  IsMarkdown(Section(r, numbers))
<1>1. PICK a, b : /\ a = << <<"heading", r.task>> >>
                  /\ b = IF numbers = <<>> THEN <<>> ELSE << <<"sources", r.task, numbers>> >>
  OBVIOUS
<1>2. IsMarkdown(a)
  <2>1. IsLinked(<<"heading", r.task>>)
    BY OtherIsLinked
  <2>2. QED
    BY <1>1, <2>1, OneIsMarkdown
<1>3. IsMarkdown(b)
  <2>1. IsLinked(<<"sources", r.task, numbers>>)
    BY OtherIsLinked
  <2>2. b = <<>> \/ b = << <<"sources", r.task, numbers>> >>
    BY <1>1
  <2>3. QED
    BY <2>1, <2>2, OneIsMarkdown
<1>4. IsMarkdown(r.summary)
  BY ResultFacts
<1>5. Section(r, numbers) = a \o r.summary \o b
  BY <1>1 DEF Section
<1>6. QED
  BY <1>2, <1>3, <1>4, <1>5, JoinedIsMarkdown

(* The text goes to the guardrail with targets that are URIs.                 *)
LEMMA RenderedIsMarkdown ==
  ASSUME NEW pl, IsListed(pl.tasks), NEW o, o.results \in Seq(Results), IsListed(o.warnings)
  PROVE  IsMarkdown(RenderMarkdown(pl, o))
<1> DEFINE body == BodyResults(pl, o)
           gathered == CollectEvidence(OrderedResults(pl, o))
           all == [i \in DOMAIN gathered.evidence |-> i]
           NumbersOf(r) == IF pl.composition = "synthesis_subagent" THEN all ELSE gathered.sources[r.task]
           title == << <<"heading", "results">> >>
           sections == [k \in DOMAIN body |-> Section(body[k], NumbersOf(body[k]))]
           middle == IF body = <<>> THEN << <<"text", "nothing completed">> >> ELSE FlattenSeq(sections)
           last == [i \in DOMAIN gathered.evidence |-> <<"source", i, gathered.evidence[i]>>]
<1>1. RenderMarkdown(pl, o) = title \o middle \o CollectWarnings(pl, o) \o last
  BY DEF RenderMarkdown
<1> HIDE DEF body, gathered, all
<1>2. body \in Seq(Results)
  BY BodyAreResults DEF body
<1>3. IsMarkdown(FlattenSeq(sections))
  <2>1. DOMAIN body = 1..Len(body) /\ Len(body) \in Nat /\ \A k \in 1..Len(body) : body[k] \in Results
    BY <1>2
  <2>2. PICK ns : ns = [k \in 1..Len(body) |-> NumbersOf(body[k])]
    OBVIOUS
  <2>3. \A k \in 1..Len(body) : sections[k] = Section(body[k], ns[k])
    BY <2>1, <2>2
  <2>4. sections = [k \in 1..Len(body) |-> sections[k]]
    BY <2>1
  <2> HIDE DEF sections, NumbersOf
  <2>5. \A k \in 1..Len(body) : IsMarkdown(sections[k])
    BY <2>1, <2>3, SectionIsMarkdown
  <2>6. QED
    BY <2>1, <2>4, <2>5, FlatIsMarkdown
<1> HIDE DEF sections
<1>4. IsMarkdown(title)
  <2>1. IsLinked(<<"heading", "results">>)
    BY OtherIsLinked
  <2>2. QED
    BY <2>1, OneIsMarkdown
<1>5. IsMarkdown(middle)
  <2>1. IsLinked(<<"text", "nothing completed">>)
    <3>1. PICK x : x = <<"text", "nothing completed">>
      OBVIOUS
    <3>2. x[1] \in {"heading", "text", "warning", "source", "sources"}
      BY <3>1
    <3>3. IsLinked(x)
      BY <3>2, OtherIsLinked
    <3>4. QED
      BY <3>1, <3>3
  <2>2. middle = FlattenSeq(sections) \/ middle = << <<"text", "nothing completed">> >>
    OBVIOUS
  <2> HIDE DEF middle
  <2>3. QED
    BY <1>3, <2>1, <2>2, OneIsMarkdown
<1>6. IsMarkdown(CollectWarnings(pl, o))
  BY WarningsOfRun
<1>7. IsMarkdown(last)
  <2>1. PICK s : s = gathered.evidence /\ s \in Seq(Pieces)
    <3>1. gathered \in Gathered
      BY OrderedAreResults, CollectNumbers DEF gathered
    <3>2. QED
      BY <3>1 DEF Gathered
  <2>2. DOMAIN s = 1..Len(s) /\ Len(s) \in Nat
    BY <2>1
  <2>3. last = [i \in 1..Len(s) |-> <<"source", i, s[i]>>]
    BY <2>1, <2>2
  <2>4. \A i, x : IsLinked(<<"source", i, x>>)
    BY OtherIsLinked
  <2> HIDE DEF last
  <2>5. last = [i \in 1..Len(s) |-> last[i]] /\ \A i \in 1..Len(s) : last[i] = <<"source", i, s[i]>>
    BY <2>3
  <2>6. \A i \in 1..Len(s) : IsLinked(last[i])
    BY <2>4, <2>5
  <2>7. QED
    BY <2>2, <2>5, <2>6, MappedIsMarkdown
<1> HIDE DEF title, middle, last
<1>8. QED
  BY <1>1, <1>4, <1>5, <1>6, <1>7, JoinedIsMarkdown

LEMMA FunctionIsList ==
  ASSUME NEW n \in Nat, NEW T, NEW f \in [1..n -> T]
  PROVE  f \in Seq(T)
OBVIOUS

(* The links beside the text are URIs.                                        *)
LEMMA CitedAreUris ==
  ASSUME NEW s \in Seq(Pieces), NEW cited, cited = Chosen(s, {i \in DOMAIN s : s[i].uri # NoUri}),
         NEW links, links = [i \in DOMAIN cited |-> cited[i].uri]
  PROVE  links \in Seq(Uris)
<1>1. PICK places : places = {i \in DOMAIN s : s[i].uri # NoUri}
  OBVIOUS
<1>2. /\ Chosen(s, places) \in Seq(Pieces)
      /\ \A n \in 1..Len(Chosen(s, places)) : \E k \in 1..Len(s) : k \in places /\ Chosen(s, places)[n] = s[k]
  BY ChosenFacts
<1>3. cited = Chosen(s, places)
  BY <1>1
<1>4. DOMAIN cited = 1..Len(cited) /\ Len(cited) \in Nat
  BY <1>2, <1>3
<1>5. ASSUME NEW n \in 1..Len(cited)
      PROVE  links[n] \in Uris
  <2>1. PICK k \in 1..Len(s) : k \in places /\ cited[n] = s[k]
    BY <1>2, <1>3
  <2>2. s[k] \in Pieces
    OBVIOUS
  <2>3. s[k].uri \in Uris \union {NoUri} /\ s[k].uri # NoUri
    BY <1>1, <2>1, <2>2 DEF Pieces
  <2>4. links[n] = s[k].uri
    BY <1>4, <2>1
  <2>5. QED
    BY <2>3, <2>4
<1>6. links = [n \in 1..Len(cited) |-> links[n]]
  BY <1>4
<1>7. PICK n : n = Len(cited) /\ n \in Nat /\ links \in [1..n -> Uris]
  BY <1>4, <1>5, <1>6
<1>8. QED
  BY <1>7, FunctionIsList

(* What goes to the guardrail. *)
LEMMA CandidateIsText ==
  ASSUME NEW pl, IsListed(pl.tasks), pl.mode = "direct" => IsMarkdown(pl.answer),
         NEW o, pl.mode # "direct" => o.results \in Seq(Results) /\ IsListed(o.warnings)
  PROVE  IsMarkdown(OutputCandidate(pl, o).markdown) /\ OutputCandidate(pl, o).links \in Seq(Uris)
<1>1. CASE pl.mode = "direct"
  <2>1. OutputCandidate(pl, o) = [markdown |-> pl.answer, links |-> <<>>]
    BY <1>1 DEF OutputCandidate
  <2>2. QED
    BY <1>1, <2>1
<1>2. CASE pl.mode # "direct"
  <2> DEFINE gathered == CollectEvidence(OrderedResults(pl, o)).evidence
             cited == Chosen(gathered, {i \in DOMAIN gathered : gathered[i].uri # NoUri})
             links == [i \in DOMAIN cited |-> cited[i].uri]
  <2>1. OutputCandidate(pl, o) = [markdown |-> RenderMarkdown(pl, o), links |-> links]
    BY <1>2 DEF OutputCandidate
  <2>2. gathered \in Seq(Pieces)
    <3>1. CollectEvidence(OrderedResults(pl, o)) \in Gathered
      BY <1>2, OrderedAreResults, CollectNumbers
    <3>2. QED
      BY <3>1 DEF Gathered
  <2>3. IsMarkdown(RenderMarkdown(pl, o))
    BY <1>2, RenderedIsMarkdown
  <2> HIDE DEF gathered
  <2>4. links \in Seq(Uris)
    BY <2>2, CitedAreUris
  <2> HIDE DEF links
  <2>5. QED
    BY <2>1, <2>3, <2>4
<1>3. QED
  BY <1>1, <1>2

-----------------------------------------------------------------------------
(* The way of an answer *)

HasText(p) == IsListed(p.tasks) /\ (p.mode = "direct" => IsMarkdown(p.answer))
HasResults(o) == o.results \in Seq(Results) /\ IsListed(o.warnings)

(* The steps that ran have results.                                           *)
LEMMA RanAreResults ==
  ASSUME NEW pl, IsListed(pl.tasks), NEW given \in [TaskIds(pl.tasks) -> Results]
  PROVE  ResultsUpTo(pl, given, Len(pl.tasks)) \in Seq(Results)
<1>1. PICK s, n : s = pl.tasks /\ n = Len(s) /\ IsListed(s)
  OBVIOUS
<1>2. DOMAIN s = 1..n /\ n \in Nat
  BY <1>1, ListedPlaces
<1>3. PICK D : D = 1..n
  OBVIOUS
<1> DEFINE places == {j \in 1..n : StepEnds(pl, given, n)[j] # "cancelled"}
           ran == Chosen([j \in 1..n |-> j], places)
           rs == [i \in DOMAIN ran |-> given[pl.tasks[ran[i]].id]]
<1>4. ResultsUpTo(pl, given, n) = rs
  BY DEF ResultsUpTo
<1> HIDE DEF places
<1>5. ran \in Seq(D)
  <2>1. PICK js : js = [j \in 1..n |-> j]
    OBVIOUS
  <2>2. js \in [1..n -> D]
    BY <1>3, <2>1
  <2>3. js \in Seq(D)
    BY <1>2, <2>2, FunctionIsList
  <2>4. Chosen(js, places) \in Seq(D)
    BY <2>3, ChosenFacts
  <2>5. QED
    BY <2>1, <2>4
<1> HIDE DEF ran
<1>6. PICK m \in Nat : m = Len(ran) /\ DOMAIN ran = 1..m /\ \A i \in 1..m : ran[i] \in D
  BY <1>5
<1>7. \A i \in 1..m : rs[i] \in Results
  <2>1. ASSUME NEW i \in 1..m
        PROVE  rs[i] \in Results
    <3>1. PICK k \in 1..n : k = ran[i]
      BY <1>3, <1>6
    <3>2. s[k].id \in TaskIds(s)
      BY <1>2 DEF TaskIds
    <3>3. given[s[k].id] \in Results
      BY <1>1, <3>2
    <3>4. rs[i] = given[s[k].id]
      BY <1>1, <1>6, <3>1
    <3>5. QED
      BY <3>3, <3>4
  <2>2. QED
    BY <2>1
<1>8. rs \in [1..m -> Results]
  BY <1>6, <1>7
<1> HIDE DEF rs
<1>9. rs \in Seq(Results)
  BY <1>8, FunctionIsList
<1>10. QED
  BY <1>1, <1>4, <1>9

(* What the engine hands over to be composed.                                 *)
LEMMA OutcomeHasResults ==
  ASSUME NEW pl, HasText(pl), pl.mode # "direct", NEW given \in [TaskIds(pl.tasks) -> Results],
         Outcome(pl, given).state = "composing"
  PROVE  HasResults(Outcome(pl, given))
<1> DEFINE n == Len(pl.tasks)
           ends == StepEnds(pl, given, n)
           failures == Chosen([j \in 1..n |-> j], {j \in 1..n : ends[j] # "completed"})
           results == ResultsUpTo(pl, given, n)
           optional == [i \in DOMAIN failures |-> <<"optional step failed", pl.tasks[failures[i]].id>>]
           said == [i \in DOMAIN results |-> PartialWarning(results[i]) \o results[i].warnings]
           o == Outcome(pl, given)
<1>1. o.results = results /\ o.warnings = optional \o FlattenSeq(said)
  <2>1. CASE RequiredFails(pl, given, n)
    <3>1. o.state = "failed"
      BY <2>1, Zenon DEF Outcome
    <3> HIDE DEF o
    <3>2. QED
      BY <3>1 DEF o
  <2>2. CASE ~ RequiredFails(pl, given, n)
    <3>1. o = [state |-> "composing", results |-> results, answer |-> NoAnswer,
               warnings |-> optional \o FlattenSeq(said),
               error |-> IF failures = <<>> THEN NoError ELSE "optional_step_failed"]
      BY <2>2, Zenon DEF Outcome
    <3> HIDE DEF o, results, optional, said, failures
    <3>2. QED
      BY <3>1
  <2>3. QED
    BY <2>1, <2>2
<1>2. PICK s : s = pl.tasks /\ IsListed(s)
  BY DEF HasText
<1>3. n \in Nat
  BY <1>2, ListedPlaces
<1>4. results \in Seq(Results)
  BY RanAreResults DEF HasText
<1> HIDE DEF o, results, n, ends
<1>5. IsListed(optional)
  <2>1. PICK js, places, D : /\ js = [j \in 1..n |-> j] /\ D = 1..n
                             /\ places = {j \in 1..n : ends[j] # "completed"}
    OBVIOUS
  <2>2. js \in [1..n -> D]
    BY <2>1
  <2>3. js \in Seq(D)
    BY <1>3, <2>2, FunctionIsList
  <2>4. Chosen(js, places) \in Seq(D)
    BY <2>3, ChosenFacts
  <2>5. failures = Chosen(js, places)
    BY <2>1
  <2> HIDE DEF failures
  <2>6. PICK m \in Nat : DOMAIN failures = 1..m
    BY <2>4, <2>5
  <2>7. optional = [i \in 1..m |-> optional[i]]
    BY <2>6
  <2> HIDE DEF optional
  <2>8. QED
    BY <2>7, MappedIsListed
<1> HIDE DEF optional
<1>6. IsListed(FlattenSeq(said))
  <2>1. PICK m \in Nat : m = Len(results) /\ DOMAIN results = 1..m /\ \A i \in 1..m : results[i] \in Results
    BY <1>4
  <2>2. \A i \in 1..m : said[i] = PartialWarning(results[i]) \o results[i].warnings
    BY <2>1
  <2>3. said = [i \in 1..m |-> said[i]]
    BY <2>1
  <2> HIDE DEF said
  <2>4. ASSUME NEW i \in 1..m
        PROVE  IsListed(said[i])
    <3>1. PICK a, b : a = PartialWarning(results[i]) /\ b = results[i].warnings
      OBVIOUS
    <3>2. IsListed(b)
      BY <2>1, <3>1, ResultFacts
    <3>3. IsListed(a)
      <4>1. PICK x : a = <<x>> \/ a = <<>>
        BY <3>1 DEF PartialWarning
      <4>2. <<x>> \in Seq({x}) /\ <<>> \in Seq({x})
        OBVIOUS
      <4>3. a \in Seq({x})
        BY <4>1, <4>2
      <4>4. QED
        BY <4>3, ListOf
    <3>4. said[i] = a \o b
      BY <2>2, <3>1
    <3>5. QED
      BY <3>2, <3>3, <3>4, JoinedIsListed
  <2>5. PICK T : T = UNION {ToSet(said[i]) : i \in 1..m}
    OBVIOUS
  <2>6. \A i \in 1..m : IsListed(said[i]) /\ ToSet(said[i]) \subseteq T
    BY <2>4, <2>5
  <2>7. FlattenSeq(said) \in Seq(T)
    BY <2>3, <2>6, FlatIsListed
  <2>8. QED
    BY <2>7, ListOf
<1> HIDE DEF said
<1>7. IsListed(o.warnings)
  BY <1>1, <1>5, <1>6, JoinedIsListed
<1>8. QED
  BY <1>1, <1>4, <1>7 DEF HasResults, o

(* What the way of an answer keeps: a plan and an outcome of which text can   *)
(* be made, and a safe answer at its end.                                     *)
TextInv ==
  /\ phase \in {"planned", "composing"} => HasText(plan)
  /\ phase = "composing" /\ plan.mode # "direct" => HasResults(outcome)
  /\ phase = "answered" =>
       /\ IsSafe(output, OutputPolicy)
       /\ Spaced(OutputCandidate(plan, outcome).markdown) => TextLinked(output.markdown, OutputPolicy)

(* Each step keeps it.                                                        *)
LEMMA PlanText == AnswerInv /\ TextInv /\ Plan => TextInv'
<1> SUFFICES ASSUME AnswerInv, TextInv, Plan PROVE TextInv'
  OBVIOUS
<1>1. decision \in Decisions /\ phase = "planning" /\ plan = NoPlan
  BY DEF AnswerInv, Plan
<1>2. CASE Verdict(decision, Catalog, Limits) # "accepted" \/ decision.mode = "skill"
  <2>1. phase' = "refused"
    BY <1>2 DEF Plan
  <2>2. QED
    BY <2>1 DEF TextInv
<1>3. CASE Verdict(decision, Catalog, Limits) = "accepted" /\ decision.mode # "skill"
  <2>1. PICK required : phase' = "planned" /\ plan' = [Prepared(decision) EXCEPT !.required = required]
    BY <1>3 DEF Plan
  <2>2. PICK p, d : p = plan' /\ d = decision
    OBVIOUS
  <2>3. /\ p.mode = d.mode /\ p.answer = d.answer /\ p.composition = d.composition
        /\ p.tasks = IF d.mode = "delegate" THEN TopologicalOrder(d.tasks) ELSE <<>>
    BY <2>1, <2>2 DEF Prepared
  <2>4. Executable(p, d)
    BY <1>1, <1>3, <2>2, <2>3, AcceptedIsExecutable
  <2>5. IsListed(p.tasks)
    <3>1. CASE d.mode = "delegate"
      <4>1. d.tasks \in Seq(ToSet(d.tasks))
        BY <1>1, <2>2, DecisionFacts
      <4>2. TopologicalOrder(d.tasks) \in Seq(ToSet(d.tasks))
        BY <4>1, OrderFacts DEF SoundOrders
      <4>3. QED
        BY <2>3, <3>1, <4>2, ListOf
    <3>2. CASE d.mode # "delegate"
      <4>1. p.tasks = <<>> /\ p.tasks \in Seq({0})
        BY <2>3, <3>2
      <4>2. QED
        BY <4>1, ListOf
    <3>3. QED
      BY <3>1, <3>2
  <2>6. p.mode = "direct" => IsMarkdown(p.answer)
    <3>1. IsPreparedPlan(p)
      BY <2>4 DEF Executable
    <3>2. p.mode = "direct" => p.answer # NoAnswer
      BY <3>1 DEF IsPreparedPlan
    <3>3. d.answer = NoAnswer \/ IsMarkdown(d.answer)
      BY <1>1, <2>2, AnswerAssumption DEF IsDecision
    <3>4. QED
      BY <2>3, <3>2, <3>3
  <2>7. HasText(plan')
    BY <2>2, <2>5, <2>6 DEF HasText
  <2>8. QED
    BY <2>1, <2>7 DEF TextInv
<1>4. QED
  BY <1>2, <1>3

LEMMA ExecuteText == TextInv /\ Execute => TextInv'
<1> SUFFICES ASSUME TextInv, Execute PROVE TextInv'
  OBVIOUS
<1>1. phase = "planned" /\ plan' = plan /\ HasText(plan)
  BY DEF TextInv, Execute
<1>2. PICK given : given \in [TaskIds(plan.tasks) -> Results] /\ outcome' = Outcome(plan, given)
  BY DEF Execute, Results
<1>3. phase' = IF outcome'.state = "composing" THEN "composing" ELSE "failed"
  BY DEF Execute
<1>4. ASSUME phase' = "composing", plan.mode # "direct"
      PROVE  HasResults(outcome')
  <2>1. PICK pl : pl = plan /\ HasText(pl) /\ given \in [TaskIds(pl.tasks) -> Results]
    BY <1>1, <1>2
  <2>2. Outcome(pl, given).state = "composing"
    BY <1>2, <1>3, <1>4, <2>1
  <2>3. HasResults(Outcome(pl, given))
    BY <1>4, <2>1, <2>2, OutcomeHasResults
  <2>4. QED
    BY <1>2, <2>1, <2>3
<1>5. QED
  BY <1>1, <1>3, <1>4 DEF TextInv

LEMMA ComposeText == TextInv /\ Compose => TextInv'
<1> SUFFICES ASSUME TextInv, Compose PROVE TextInv'
  OBVIOUS
<1>1. phase = "composing" /\ HasText(plan) /\ (plan.mode # "direct" => HasResults(outcome))
  BY DEF TextInv, Compose
<1>2. PICK c : c = OutputCandidate(plan, outcome)
  OBVIOUS
<1>3. IsMarkdown(c.markdown) /\ c.links \in Seq(Uris)
  <2>1. PICK pl, o : pl = plan /\ o = outcome
    OBVIOUS
  <2>2. IsListed(pl.tasks) /\ (pl.mode = "direct" => IsMarkdown(pl.answer))
        /\ (pl.mode # "direct" => o.results \in Seq(Results) /\ IsListed(o.warnings))
    BY <1>1, <2>1 DEF HasText, HasResults
  <2>3. QED
    BY <1>2, <2>1, <2>2, CandidateIsText
<1>4. phase' = "answered" => output' = Sanitized(c, OutputPolicy) /\ IsSafeOutput(Sanitized(c, OutputPolicy))
  BY <1>2 DEF Compose
<1>5. phase' \in {"answered", "failed"}
  BY DEF Compose
<1>6. plan' = plan /\ outcome' = outcome
  BY DEF Compose
<1>7. PICK o : o = Sanitized(c, OutputPolicy)
  OBVIOUS
<1>8. phase' = "answered" =>
        IsSafe(o, OutputPolicy) /\ (Spaced(c.markdown) => TextLinked(o.markdown, OutputPolicy))
  <2>1. IsOutputPolicy(OutputPolicy)
    BY AnswerAssumption
  <2>2. QED
    BY <1>3, <1>4, <1>7, <2>1, SanitizedIsSafe
<1>9. c = OutputCandidate(plan', outcome')
  BY <1>2, <1>6
<1>10. phase' = "answered" =>
         /\ IsSafe(output', OutputPolicy)
         /\ Spaced(OutputCandidate(plan', outcome').markdown) => TextLinked(output'.markdown, OutputPolicy)
  BY <1>4, <1>7, <1>8, <1>9
<1>11. QED
  BY <1>5, <1>10 DEF TextInv

(* An answer keeps every limit of the policy at once, the truncated one too,   *)
(* and carries no secret, internal detail or markup; a broadcast or a          *)
(* forbidden definition is only what the cut left, and an inline link is only   *)
(* forbidden if targets stood side by side (output_guardrails.py:107, :223,    *)
(* :281, :299), for whatever the Root decides and the executors answer.        *)
THEOREM AnswersAreSafe == AnswerSpec => []OutputSafe
<1>1. AnswerInit => AnswerInv /\ TextInv
  <2>1. AnswerInit => TextInv
    BY DEF AnswerInit, TextInv
  <2>2. QED
    BY <2>1, AnswerInitInv
<1>2. AnswerInv /\ TextInv /\ [AnswerNext]_answerVars => AnswerInv' /\ TextInv'
  <2> SUFFICES ASSUME AnswerInv, TextInv, [AnswerNext]_answerVars PROVE AnswerInv' /\ TextInv'
    OBVIOUS
  <2>1. CASE UNCHANGED answerVars
    BY <2>1 DEF AnswerInv, TextInv, answerVars
  <2>2. CASE Decide
    <3>1. TextInv'
      BY <2>2 DEF TextInv, Decide
    <3>2. QED
      BY <2>2, <3>1, DecideInv
  <2>3. QED
    BY <2>1, <2>2, PlanInv, ExecuteInv, ComposeInv, PlanText, ExecuteText, ComposeText DEF AnswerNext
<1>3. TextInv => OutputSafe
  <2> SUFFICES ASSUME TextInv, phase = "answered" PROVE OutputSafe
    BY DEF OutputSafe
  <2>1. PICK m, ls, p, spaced : /\ m = output.markdown /\ ls = output.links /\ p = OutputPolicy
                                /\ spaced = Spaced(OutputCandidate(plan, outcome).markdown)
    OBVIOUS
  <2>2. /\ TextSafe(m, p) /\ Len(m) >= 1 /\ TargetsSafe(ls, p)
        /\ spaced => TextLinked(m, p)
    BY <2>1 DEF TextInv, IsSafe
  <2>3. DOMAIN m = 1..Len(m) /\ Len(m) \in Nat
    BY <2>2, ListedPlaces DEF TextSafe
  <2> DEFINE OfKind(kind) == {k \in DOMAIN m : m[k][1] = kind}
  <2>4. Len(m) \in 1..p.maxOutput
    <3>1. PICK n, most : n = Len(m) /\ most = p.maxOutput
      OBVIOUS
    <3>2. n \in 0..most /\ n >= 1
      BY <2>2, <3>1 DEF TextSafe
    <3>3. n \in 1..most
      BY <3>2
    <3>4. QED
      BY <3>1, <3>3
  <2>5. Cardinality(OfKind("mention") \union OfKind("broadcast")) <= p.maxMentions
    <3>1. Mentions(m) = OfKind("mention") \union OfKind("broadcast")
      BY DEF Mentions
    <3>2. QED
      BY <2>2, <3>1 DEF TextSafe
  <2>6. \A kind \in {"secret", "internal", "html"} : OfKind(kind) = {}
    BY <2>2, <2>3 DEF TextSafe, AllClean, IsClean, RemovedKinds
  <2>7. \A k \in DOMAIN m : m[k][1] \in LinkKinds => ~m[k][2].secret
    BY <2>2, <2>3 DEF TextSafe, AllClean, IsClean
  <2>8. Len(ls) <= p.maxLinks /\ \A uri \in ToSet(ls) : AllowedLink(uri, p) /\ ~uri.secret
    <3>1. Len(ls) <= p.maxLinks /\ \A n \in DOMAIN ls : AllowedLink(ls[n], p) /\ ~ls[n].secret
      BY <2>2 DEF TargetsSafe
    <3>2. QED
      BY <3>1 DEF ToSet
  <2>9. \A k \in DOMAIN m : IsBroadcast(m, k) => CutAt(m, k)
    BY <2>2, <2>3 DEF TextSafe, BroadcastsCut
  <2>10. spaced => \A k \in DOMAIN m :
           /\ IsInlineLink(m, k) => AllowedLink(m[k + 1][2], p)
           /\ IsDefinition(m, k) => AllowedLink(DefinedTarget(m, k), p) \/ CutAt(m, k + 1)
    BY <2>2, <2>3 DEF TextLinked, InlineAllowed, DefinitionsCut
  <2> HIDE DEF OfKind
  <2>11. QED
    BY <2>1, <2>4, <2>5, <2>6, <2>7, <2>8, <2>9, <2>10 DEF OutputSafe, OfKind
<1>4. QED
  BY <1>1, <1>2, <1>3, PTL DEF AnswerSpec

(* Where the elements of sequences are in the flattened one.                  *)
LaidOut(off, n, ss, q) ==
  /\ off \in [1..n -> Nat]
  /\ \A k \in 1..n : \A j \in 1..Len(ss[k]) : off[k] + j \in 1..Len(q) /\ q[off[k] + j] = ss[k][j]
  /\ \A k, m \in 1..n : k < m => off[k] + Len(ss[k]) <= off[m]
  /\ \A k \in 1..n : off[k] + Len(ss[k]) <= Len(q)
  /\ \A p \in 1..Len(q) : \E k \in 1..n : \E j \in 1..Len(ss[k]) : p = off[k] + j

Flattening(h, ss) == h[0] = <<>> /\ \A k \in 1..Len(ss) : h[k] = h[k - 1] \o ss[k]

LEMMA FlattenPlaces ==
  ASSUME NEW X, NEW ss \in Seq(Seq(X)), NEW h, Flattening(h, ss)
  PROVE  h[Len(ss)] \in Seq(X) /\ \E off : LaidOut(off, Len(ss), ss, h[Len(ss)])
<1> DEFINE S == {k \in 0..Len(ss) : h[k] \in Seq(X) /\ \E off : LaidOut(off, k, ss, h[k])}
<1>1. Len(ss) \in Nat /\ \A k \in 1..Len(ss) : ss[k] \in Seq(X)
  OBVIOUS
<1>2. 0 \in S
  <2>1. h[0] = <<>> /\ 0 \in 0..Len(ss)
    BY <1>1 DEF Flattening
  <2>2. PICK none : none = [i \in 1..0 |-> 0]
    OBVIOUS
  <2>3. LaidOut(none, 0, ss, <<>>)
    BY <2>2 DEF LaidOut
  <2>4. h[0] \in Seq(X) /\ LaidOut(none, 0, ss, h[0])
    BY <2>1, <2>3
  <2>5. QED
    BY <2>1, <2>4
<1>3. ASSUME NEW k \in 1..Len(ss), k - 1 \in S
      PROVE  k \in S
  <2>1. PICK p, q, t, l, c : p = h[k - 1] /\ q = h[k] /\ t = ss[k] /\ l = Len(p) /\ c = Len(t)
    OBVIOUS
  <2>2. p \in Seq(X) /\ k \in Nat /\ l \in Nat /\ c \in Nat /\ k \in 0..Len(ss) /\ t \in Seq(X)
    BY <1>1, <1>3, <2>1
  <2>3. PICK old : LaidOut(old, k - 1, ss, p)
    BY <1>3, <2>1
  <2>4. q = p \o t
    BY <2>1 DEF Flattening
  <2>5. /\ q \in Seq(X) /\ Len(q) = l + c /\ \A i \in 1..l : q[i] = p[i]
        /\ \A j \in 1..c : q[l + j] = t[j]
    <3>1. /\ q \in Seq(X) /\ Len(q) = Len(p) + Len(t) /\ (\A i \in 1..Len(p) : q[i] = p[i])
          /\ \A j \in 1..Len(t) : q[Len(p) + j] = t[j]
      BY <2>2, <2>4
    <3>2. QED
      BY <2>1, <3>1
  <2>6. PICK off : off = [i \in 1..k |-> IF i = k THEN l ELSE old[i]]
    OBVIOUS
  <2>7. /\ k \in 1..k /\ off[k] = l /\ (\A i \in 1..(k - 1) : i \in 1..k /\ off[i] = old[i])
        /\ \A i \in 1..k : i = k \/ i \in 1..(k - 1)
    BY <2>2, <2>6
  <2>8. /\ old \in [1..(k - 1) -> Nat]
        /\ \A i \in 1..(k - 1) : \A j \in 1..Len(ss[i]) : old[i] + j \in 1..l /\ p[old[i] + j] = ss[i][j]
        /\ \A i, m \in 1..(k - 1) : i < m => old[i] + Len(ss[i]) <= old[m]
        /\ \A i \in 1..(k - 1) : old[i] + Len(ss[i]) <= l
        /\ \A n \in 1..l : \E i \in 1..(k - 1) : \E j \in 1..Len(ss[i]) : n = old[i] + j
    BY <2>1, <2>3 DEF LaidOut
  <2>9. off \in [1..k -> Nat]
    BY <2>2, <2>6, <2>7, <2>8
  <2>10. ASSUME NEW i \in 1..k
         PROVE  \A j \in 1..Len(ss[i]) : off[i] + j \in 1..Len(q) /\ q[off[i] + j] = ss[i][j]
    <3>1. CASE i = k
      <4>1. \A j \in 1..c : l + j \in 1..(l + c)
        BY <2>2
      <4>2. QED
        BY <2>1, <2>5, <2>7, <3>1, <4>1
    <3>2. CASE i \in 1..(k - 1)
      <4>1. \A n \in 1..l : n \in 1..Len(q) /\ q[n] = p[n]
        BY <2>2, <2>5
      <4>2. ASSUME NEW j \in 1..Len(ss[i])
            PROVE  off[i] + j \in 1..Len(q) /\ q[off[i] + j] = ss[i][j]
        <5>1. PICK n : n = old[i] + j
          OBVIOUS
        <5>2. n \in 1..l /\ p[n] = ss[i][j]
          BY <2>8, <3>2, <5>1
        <5>3. n = off[i] + j
          BY <2>7, <3>2, <5>1
        <5>4. QED
          BY <4>1, <5>2, <5>3
      <4>3. QED
        BY <4>2
    <3>3. QED
      BY <2>7, <3>1, <3>2
  <2>11. \A i, m \in 1..k : i < m => off[i] + Len(ss[i]) <= off[m]
    <3>1. \A i, m \in 1..k : i < m => i \in 1..(k - 1)
      BY <2>2
    <3>2. QED
      BY <2>7, <2>8, <3>1
  <2>12. \A i \in 1..k : off[i] + Len(ss[i]) <= Len(q)
    <3>1. ASSUME NEW i \in 1..k
          PROVE  off[i] + Len(ss[i]) <= Len(q)
      <4>1. CASE i = k
        <5>1. off[i] = l /\ Len(ss[i]) = c
          BY <2>1, <2>7, <4>1
        <5>2. QED
          BY <2>2, <2>5, <5>1
      <4>2. CASE i \in 1..(k - 1)
        <5>1. PICK a, b : a = old[i] /\ b = Len(ss[i])
          BY <4>2
        <5>2. a \in Nat /\ b \in Nat /\ a + b <= l
          <6>1. i \in 1..Len(ss)
            BY <1>1, <4>2
          <6>2. ss[i] \in Seq(X)
            BY <1>1, <6>1
          <6>3. QED
            BY <2>8, <4>2, <5>1, <6>2
        <5>3. off[i] = a
          BY <2>7, <4>2, <5>1
        <5>4. PICK v : v = Len(q) /\ v = l + c
          BY <2>5
        <5>5. a + b <= v
          BY <2>2, <5>2, <5>4
        <5>6. QED
          BY <5>1, <5>3, <5>4, <5>5
      <4>3. QED
        BY <2>7, <4>1, <4>2
    <3>2. QED
      BY <3>1
  <2>13. ASSUME NEW n \in 1..Len(q)
         PROVE  \E i \in 1..k : \E j \in 1..Len(ss[i]) : n = off[i] + j
    <3>1. CASE n <= l
      <4>1. n \in 1..l
        BY <2>2, <2>5, <3>1
      <4>2. PICK i \in 1..(k - 1) : \E j \in 1..Len(ss[i]) : n = old[i] + j
        BY <2>8, <4>1
      <4>3. i \in 1..k /\ off[i] = old[i]
        BY <2>7, <4>2
      <4>4. QED
        BY <4>2, <4>3
    <3>2. CASE ~ (n <= l)
      <4>1. n - l \in 1..c /\ n = l + (n - l)
        BY <2>2, <2>5, <3>2
      <4>2. QED
        BY <2>1, <2>7, <4>1
    <3>3. QED
      BY <3>1, <3>2
  <2>14. LaidOut(off, k, ss, q)
    BY <2>9, <2>10, <2>11, <2>12, <2>13 DEF LaidOut
  <2>15. QED
    BY <2>1, <2>2, <2>5, <2>14
<1>4. Len(ss) \in S
  <2>1. Len(ss) \in 0..Len(ss)
    BY <1>1
  <2> HIDE DEF S
  <2>2. QED
    BY <1>1, <1>2, <1>3, <2>1, UpTo
<1>5. QED
  BY <1>4

(* A sequence whose elements all have places of their own in another one.     *)
Spread(f, a, b) ==
  /\ f \in [1..Len(a) -> 1..Len(b)]
  /\ \A i, j \in 1..Len(a) : f[i] = f[j] => i = j
  /\ \A i \in 1..Len(a) : b[f[i]] = a[i]
Embeds(a, b) == \E f : Spread(f, a, b)

LEMMA CountsCarried ==
  ASSUME NEW S, NEW T, NEW a \in Seq(S), NEW b \in Seq(T), NEW w, NEW v,
         NEW f \in [1..Len(a) -> 1..Len(b)], \A i, j \in 1..Len(a) : f[i] = f[j] => i = j,
         \A i \in 1..Len(a) : a[i] = w => b[f[i]] = v
  PROVE  TimesIn(a, w) \in Nat /\ TimesIn(b, v) \in Nat /\ TimesIn(a, w) <= TimesIn(b, v)
<1>1. PICK A, B : A = {i \in 1..Len(a) : a[i] = w} /\ B = {i \in 1..Len(b) : b[i] = v}
  OBVIOUS
<1>2. TimesIn(a, w) = Cardinality(A) /\ TimesIn(b, v) = Cardinality(B)
  <2>1. DOMAIN a = 1..Len(a) /\ DOMAIN b = 1..Len(b)
    OBVIOUS
  <2>2. QED
    BY <1>1, <2>1 DEF TimesIn
<1>3. IsFiniteSet(B)
  <2>1. 1 \in Int /\ Len(b) \in Int
    OBVIOUS
  <2>2. IsFiniteSet(1..Len(b))
    BY <2>1, FS_Interval
  <2>3. B \in SUBSET (1..Len(b))
    BY <1>1
  <2>4. QED
    BY <2>2, <2>3, FS_Subset
<1>4. PICK g : g = [i \in A |-> f[i]]
  OBVIOUS
<1>5. g \in Injection(A, B)
  <2>1. \A i \in A : i \in 1..Len(a) /\ f[i] \in B
    BY <1>1
  <2>2. g \in [A -> B]
    BY <1>4, <2>1
  <2>3. \A i, j \in A : g[i] = g[j] => i = j
    BY <1>4, <2>1
  <2>4. QED
    BY <1>4, <2>2, <2>3 DEF Injection, IsInjective
<1>6. IsFiniteSet(A) /\ Cardinality(A) <= Cardinality(B)
  BY <1>3, <1>5, FS_Injection
<1>7. QED
  BY <1>2, <1>3, <1>6, FS_CardinalityType

LEMMA EmbeddedCounts ==
  ASSUME NEW S, NEW T, NEW a \in Seq(S), NEW b \in Seq(T), NEW w, Embeds(a, b)
  PROVE  TimesIn(a, w) \in Nat /\ TimesIn(b, w) \in Nat /\ TimesIn(a, w) <= TimesIn(b, w)
<1>1. PICK f : Spread(f, a, b)
  BY DEF Embeds
<1>2. f \in [1..Len(a) -> 1..Len(b)] /\ (\A i, j \in 1..Len(a) : f[i] = f[j] => i = j)
      /\ \A i \in 1..Len(a) : a[i] = w => b[f[i]] = w
  BY <1>1 DEF Spread
<1>3. QED
  BY <1>2, CountsCarried

(* The flattening, unfolded. *)
LEMMA FlattenRecurrence ==
  ASSUME NEW X, NEW ss \in Seq(Seq(X))
  PROVE  \E h : Flattening(h, ss) /\ FlattenSeq(ss) = h[Len(ss)]
<1> DEFINE N == Len(ss)
           V == Seq(X)
           Found(g) == g = [i \in 1..N |-> IF i = 1 THEN ss[i] ELSE g[i - 1] \o ss[i]]
           step == [p \in (1..N) \X V |-> IF p[1] = 1 THEN ss[1] ELSE p[2] \o ss[p[1]]]
<1>1. N \in Nat /\ (\A i \in 1..N : ss[i] \in V) /\ <<>> \in V
  OBVIOUS
<1>2. CASE N = 0
  <2>1. FlattenSeq(ss) = ss /\ ss = <<>>
    BY <1>2 DEF FlattenSeq
  <2>2. PICK h : h = [i \in 0..0 |-> <<>>]
    OBVIOUS
  <2>3. Flattening(h, ss) /\ FlattenSeq(ss) = h[N]
    BY <1>2, <2>1, <2>2 DEF Flattening
  <2>4. QED
    BY <2>3
<1>3. CASE N # 0
  <2>1. \A k \in 1..N : \A v \in V :
          step[<<k, v>>] = (IF k = 1 THEN ss[1] ELSE v \o ss[k]) /\ step[<<k, v>>] \in V
    <3>1. \A u, v \in V : u \o v \in V
      OBVIOUS
    <3> HIDE DEF N, V
    <3>2. \A k \in 1..N : \A v \in V : step[<<k, v>>] = (IF k = 1 THEN ss[1] ELSE v \o ss[k])
      OBVIOUS
    <3> HIDE DEF step
    <3>3. QED
      BY <1>1, <3>1, <3>2
  <2>0. \A v \in V : <<>> \o v = v
    OBVIOUS
  <2> HIDE DEF N, V, step, Found
  <2>2. PICK f0 \in [0..N -> V] : f0[0] = <<>> /\ \A k \in 1..N : f0[k] = step[<<k, f0[k - 1]>>]
    <3>1. IsStepwise(V, N, <<>>, step)
      BY <1>1, <2>1 DEF IsStepwise
    <3>2. QED
      BY <3>1, FunctionByStep
  <2>3. PICK f : f = [i \in 1..N |-> f0[i]]
    OBVIOUS
  <2>4. \A i \in 1..N : f[i] = IF i = 1 THEN ss[i] ELSE f[i - 1] \o ss[i]
    <3>1. \A i \in 1..N : i - 1 \in 0..N /\ i \in 0..N /\ (i # 1 => i - 1 \in 1..N)
      BY <1>1
    <3>2. \A i \in 1..N : f0[i - 1] \in V /\ f0[i] = IF i = 1 THEN ss[1] ELSE f0[i - 1] \o ss[i]
      BY <2>1, <2>2, <3>1
    <3>3. ASSUME NEW i \in 1..N
          PROVE  f[i] = IF i = 1 THEN ss[i] ELSE f[i - 1] \o ss[i]
      <4>1. CASE i = 1
        BY <2>3, <3>2, <4>1
      <4>2. CASE i # 1
        <5>1. f[i] = f0[i] /\ f[i - 1] = f0[i - 1]
          BY <2>3, <3>1, <4>2
        <5>2. QED
          BY <3>2, <4>2, <5>1
      <4>3. QED
        BY <4>1, <4>2
    <3>4. QED
      BY <3>3
  <2>5. Found(f)
    <3> DEFINE r == [i \in 1..N |-> IF i = 1 THEN ss[i] ELSE f[i - 1] \o ss[i]]
    <3>1. \A i \in 1..N : f[i] = r[i]
      BY <2>4
    <3>2. f = r
      <4>1. f = [i \in 1..N |-> f[i]] /\ r = [i \in 1..N |-> r[i]]
        BY <2>3
      <4> HIDE DEF r
      <4>2. QED
        BY <3>1, <4>1
    <3>3. QED
      BY <3>2 DEF Found
  <2>6. FlattenSeq(ss) = (CHOOSE g : Found(g))[N]
    BY <1>3 DEF FlattenSeq, N, Found
  <2>7. PICK g : g = CHOOSE r : Found(r)
    OBVIOUS
  <2>8. Found(g) /\ FlattenSeq(ss) = g[N]
    BY <2>5, <2>6, <2>7
  <2>9. \A i \in 1..N : g[i] = IF i = 1 THEN ss[i] ELSE g[i - 1] \o ss[i]
    BY <2>8 DEF Found
  <2>10. PICK h : h = [i \in 0..N |-> IF i = 0 THEN <<>> ELSE g[i]]
    OBVIOUS
  <2>11. h[0] = <<>> /\ \A i \in 1..N : h[i] = g[i] /\ (i # 1 => h[i - 1] = g[i - 1])
    <3>1. 0 \in 0..N /\ \A i \in 1..N : i \in 0..N /\ i # 0 /\ i - 1 \in 0..N /\ (i # 1 => i - 1 # 0)
      BY <1>1
    <3>2. QED
      BY <2>10, <3>1
  <2>12. ASSUME NEW k \in 1..N
         PROVE  h[k] = h[k - 1] \o ss[k]
    <3>1. CASE k = 1
      <4>1. h[k] = ss[k] /\ h[k - 1] = <<>> /\ ss[k] \in V
        BY <1>1, <2>9, <2>11, <3>1
      <4>2. QED
        BY <2>0, <4>1
    <3>2. CASE k # 1
      BY <2>9, <2>11, <3>2
    <3>3. QED
      BY <3>1, <3>2
  <2>13. FlattenSeq(ss) = h[N]
    <3>1. N \in 1..N
      BY <1>1, <1>3
    <3>2. QED
      BY <2>8, <2>11, <3>1
  <2>14. QED
    BY <2>11, <2>12, <2>13 DEF Flattening, N
<1>4. QED
  BY <1>2, <1>3

LEMMA FlatPlaces ==
  ASSUME NEW X, NEW ss \in Seq(Seq(X))
  PROVE  FlattenSeq(ss) \in Seq(X) /\ \E off : LaidOut(off, Len(ss), ss, FlattenSeq(ss))
<1>1. PICK h : Flattening(h, ss) /\ FlattenSeq(ss) = h[Len(ss)]
  BY FlattenRecurrence
<1>2. QED
  BY <1>1, FlattenPlaces

AreLists(n, ss) ==
  n \in Nat /\ ss = [k \in 1..n |-> ss[k]] /\ \A k \in 1..n : IsListed(ss[k])

LEMMA ListsAreSeqs ==
  ASSUME NEW n, NEW ss, AreLists(n, ss)
  PROVE  Len(ss) = n /\ n \in Nat /\ \E X : ss \in Seq(Seq(X))
<1>1. n \in Nat /\ ss = [k \in 1..n |-> ss[k]] /\ \A k \in 1..n : IsListed(ss[k])
  BY DEF AreLists
<1>2. PICK X : X = UNION {ToSet(ss[k]) : k \in 1..n}
  OBVIOUS
<1>3. ASSUME NEW k \in 1..n
      PROVE  ss[k] \in Seq(X)
  <2>1. PICK s, U : s = ss[k] /\ U = ToSet(s)
    OBVIOUS
  <2>2. s \in Seq(U) /\ U \subseteq X
    BY <1>1, <1>2, <2>1 DEF IsListed
  <2>3. QED
    BY <2>1, <2>2
<1>4. PICK V : V = Seq(X)
  OBVIOUS
<1>5. ss \in [1..n -> V]
  BY <1>1, <1>3, <1>4
<1>6. ss \in Seq(V) /\ Len(ss) = n
  BY <1>1, <1>5
<1>7. QED
  BY <1>1, <1>4, <1>6

(* Elements with places of their own in some of the sequences have them in    *)
(* the flattened one.                                                         *)
Finds(kf, jf, a, n, ss) ==
  /\ \A i \in 1..Len(a) : kf[i] \in 1..n /\ jf[i] \in 1..Len(ss[kf[i]]) /\ ss[kf[i]][jf[i]] = a[i]
  /\ \A i, m \in 1..Len(a) : kf[i] = kf[m] /\ jf[i] = jf[m] => i = m

LEMMA EmbedsInFlat ==
  ASSUME NEW n, NEW ss, AreLists(n, ss), NEW a, IsListed(a), NEW kf, NEW jf, Finds(kf, jf, a, n, ss)
  PROVE  Embeds(a, FlattenSeq(ss)) /\ IsListed(FlattenSeq(ss))
<1>0. /\ \A i \in 1..Len(a) : kf[i] \in 1..n /\ jf[i] \in 1..Len(ss[kf[i]]) /\ ss[kf[i]][jf[i]] = a[i]
      /\ \A i, m \in 1..Len(a) : kf[i] = kf[m] /\ jf[i] = jf[m] => i = m
  BY DEF Finds
<1>1. PICK X : ss \in Seq(Seq(X)) /\ Len(ss) = n /\ n \in Nat
  BY ListsAreSeqs
<1>2. PICK q : q = FlattenSeq(ss)
  OBVIOUS
<1>3. PICK off : LaidOut(off, n, ss, q)
  BY <1>1, <1>2, FlatPlaces
<1>4. /\ off \in [1..n -> Nat]
      /\ \A k \in 1..n : \A j \in 1..Len(ss[k]) : off[k] + j \in 1..Len(q) /\ q[off[k] + j] = ss[k][j]
      /\ \A k, m \in 1..n : k < m => off[k] + Len(ss[k]) <= off[m]
  BY <1>3 DEF LaidOut
<1>5. PICK f : f = [i \in 1..Len(a) |-> off[kf[i]] + jf[i]]
  OBVIOUS
<1>6. \A i \in 1..Len(a) : f[i] \in 1..Len(q) /\ q[f[i]] = a[i]
  <2>1. ASSUME NEW i \in 1..Len(a)
        PROVE  f[i] \in 1..Len(q) /\ q[f[i]] = a[i]
    <3>1. PICK k \in 1..n : k = kf[i]
      BY <1>0
    <3>2. PICK j \in 1..Len(ss[k]) : j = jf[i]
      BY <1>0, <3>1
    <3>3. f[i] = off[k] + j
      BY <1>5, <3>1, <3>2
    <3>4. off[k] + j \in 1..Len(q) /\ q[off[k] + j] = ss[k][j]
      BY <1>4
    <3>5. ss[k][j] = a[i]
      BY <1>0, <3>1, <3>2
    <3>6. QED
      BY <3>3, <3>4, <3>5
  <2>2. QED
    BY <2>1
<1>7. ASSUME NEW i \in 1..Len(a), NEW m \in 1..Len(a), f[i] = f[m]
      PROVE  i = m
  <2>1. PICK k \in 1..n, l \in 1..n : k = kf[i] /\ l = kf[m]
    BY <1>0
  <2>2. PICK j \in 1..Len(ss[k]), o \in 1..Len(ss[l]) : j = jf[i] /\ o = jf[m]
    BY <1>0, <2>1
  <2>3. PICK x, y, c, d : x = off[k] /\ y = off[l] /\ c = Len(ss[k]) /\ d = Len(ss[l])
    OBVIOUS
  <2>4. c \in Nat /\ d \in Nat
    <3>1. ss[k] \in Seq(X) /\ ss[l] \in Seq(X)
      BY <1>1
    <3>2. QED
      BY <2>3, <3>1
  <2>5. x \in Nat /\ y \in Nat /\ j \in 1..c /\ o \in 1..d /\ x + j = y + o
    BY <1>4, <1>5, <1>7, <2>1, <2>2, <2>3
  <2>6. k < l => x + c <= y
    BY <1>4, <2>3
  <2>7. l < k => y + d <= x
    BY <1>4, <2>3
  <2>8. k = l
    BY <1>1, <2>4, <2>5, <2>6, <2>7
  <2>9. j = o
    BY <2>3, <2>5, <2>8
  <2>10. QED
    BY <1>0, <2>1, <2>2, <2>8, <2>9
<1>8. f \in [1..Len(a) -> 1..Len(q)]
  BY <1>5, <1>6
<1>9. Spread(f, a, q)
  BY <1>6, <1>7, <1>8 DEF Spread
<1>10. q \in Seq(X)
  BY <1>1, <1>2, FlatPlaces
<1>11. QED
  BY <1>2, <1>9, <1>10, ListOf DEF Embeds

(* Each of the sequences has its place in the flattened one.                  *)
LEMMA EachInFlat ==
  ASSUME NEW n, NEW ss, AreLists(n, ss), NEW k \in 1..n
  PROVE  Embeds(ss[k], FlattenSeq(ss)) /\ IsListed(FlattenSeq(ss))
<1>1. PICK a, kf, jf : a = ss[k] /\ kf = [i \in 1..Len(a) |-> k] /\ jf = [i \in 1..Len(a) |-> i]
  OBVIOUS
<1>2. IsListed(a)
  BY <1>1 DEF AreLists
<1>3. \A i \in 1..Len(a) : kf[i] = k /\ jf[i] = i
  BY <1>1
<1>4. Finds(kf, jf, a, n, ss)
  BY <1>1, <1>3 DEF Finds
<1>5. Embeds(a, FlattenSeq(ss)) /\ IsListed(FlattenSeq(ss))
  BY <1>2, <1>4, EmbedsInFlat
<1>6. QED
  BY <1>1, <1>5

LEMMA EmbedsOnward ==
  ASSUME NEW a, NEW b, NEW c, Embeds(a, b), Embeds(b, c)
  PROVE  Embeds(a, c)
<1>1. PICK f, g : Spread(f, a, b) /\ Spread(g, b, c)
  BY DEF Embeds
<1>2. PICK h : h = [i \in 1..Len(a) |-> g[f[i]]]
  OBVIOUS
<1>3. \A i \in 1..Len(a) : h[i] = g[f[i]] /\ f[i] \in 1..Len(b) /\ g[f[i]] \in 1..Len(c)
  BY <1>1, <1>2 DEF Spread
<1>5. h \in [1..Len(a) -> 1..Len(c)]
  BY <1>2, <1>3
<1>6. \A i, j \in 1..Len(a) : h[i] = h[j] => i = j
  BY <1>1, <1>3 DEF Spread
<1>7. \A i \in 1..Len(a) : c[h[i]] = a[i]
  BY <1>1, <1>3 DEF Spread
<1>8. QED
  BY <1>5, <1>6, <1>7 DEF Embeds, Spread

LEMMA EmbedsInJoined ==
  ASSUME NEW a, NEW b, IsListed(a), IsListed(b)
  PROVE  IsListed(a \o b) /\ Embeds(a, a \o b) /\ Embeds(b, a \o b) /\ ToSet(a \o b) = ToSet(a) \union ToSet(b)
<1>1. PICK T, p, q, c : T = ToSet(a) \union ToSet(b) /\ p = Len(a) /\ q = Len(b) /\ c = a \o b
  OBVIOUS
<1>2. a \in Seq(T) /\ b \in Seq(T)
  <2>1. PICK A, B : A = ToSet(a) /\ B = ToSet(b)
    OBVIOUS
  <2>2. a \in Seq(A) /\ b \in Seq(B) /\ A \subseteq T /\ B \subseteq T
    BY <1>1, <2>1 DEF IsListed
  <2>3. QED
    BY <2>2
<1>3. /\ c \in Seq(T) /\ p \in Nat /\ q \in Nat /\ Len(c) = p + q
      /\ (\A i \in 1..p : c[i] = a[i]) /\ \A i \in 1..q : c[p + i] = b[i]
  <2>1. /\ a \o b \in Seq(T) /\ Len(a) \in Nat /\ Len(b) \in Nat /\ Len(a \o b) = Len(a) + Len(b)
        /\ (\A i \in 1..Len(a) : (a \o b)[i] = a[i]) /\ \A i \in 1..Len(b) : (a \o b)[Len(a) + i] = b[i]
    BY <1>2
  <2>2. QED
    BY <1>1, <2>1
<1>4. PICK f, g : f = [i \in 1..p |-> i] /\ g = [i \in 1..q |-> p + i]
  OBVIOUS
<1>5. (\A i \in 1..p : f[i] = i /\ i \in 1..Len(c)) /\ \A i \in 1..q : g[i] = p + i /\ p + i \in 1..Len(c)
  BY <1>3, <1>4
<1>6. Spread(f, a, c)
  <2>1. f \in [1..p -> 1..Len(c)]
    BY <1>4, <1>5
  <2>2. QED
    BY <1>1, <1>3, <1>5, <2>1 DEF Spread
<1>7. Spread(g, b, c)
  <2>1. g \in [1..q -> 1..Len(c)]
    BY <1>4, <1>5
  <2>2. \A i, j \in 1..q : g[i] = g[j] => i = j
    BY <1>3, <1>5
  <2>3. \A i \in 1..q : c[g[i]] = b[i]
    BY <1>3, <1>5
  <2>4. QED
    BY <1>1, <2>1, <2>2, <2>3 DEF Spread
<1>8. IsListed(c) /\ ToSet(c) \subseteq T
  BY <1>3, ListOf
<1>9. T \subseteq ToSet(c)
  <2>1. ASSUME NEW x \in T
        PROVE  x \in ToSet(c)
    <3>1. (\E i \in 1..p : a[i] = x) \/ \E i \in 1..q : b[i] = x
      BY <1>1, <2>1, ListedPlaces
    <3>2. \E i \in 1..Len(c) : c[i] = x
      BY <1>3, <1>5, <3>1
    <3>3. QED
      BY <1>3, <3>2, ListOf
  <2>2. QED
    BY <2>1
<1>10. QED
  BY <1>1, <1>6, <1>7, <1>8, <1>9 DEF Embeds

(* What is in the flattened one is in one of the sequences.                   *)
LEMMA FlatMembers ==
  ASSUME NEW n, NEW ss, AreLists(n, ss)
  PROVE  IsListed(FlattenSeq(ss)) /\ ToSet(FlattenSeq(ss)) = UNION {ToSet(ss[k]) : k \in 1..n}
<1>1. PICK X : ss \in Seq(Seq(X)) /\ Len(ss) = n /\ n \in Nat
  BY ListsAreSeqs
<1>2. PICK q, off : q = FlattenSeq(ss) /\ LaidOut(off, n, ss, q)
  BY <1>1, FlatPlaces
<1>3. q \in Seq(X) /\ IsListed(q)
  BY <1>1, <1>2, FlatPlaces, ListOf
<1>4. ASSUME NEW x \in ToSet(q)
      PROVE  x \in UNION {ToSet(ss[k]) : k \in 1..n}
  <2>1. PICK p \in 1..Len(q) : q[p] = x
    BY <1>3, ListedPlaces
  <2>2. PICK k \in 1..n : \E j \in 1..Len(ss[k]) : p = off[k] + j
    BY <1>2 DEF LaidOut
  <2>3. PICK j \in 1..Len(ss[k]) : p = off[k] + j
    BY <2>2
  <2>4. x = ss[k][j]
    BY <1>2, <2>1, <2>3 DEF LaidOut
  <2>5. ss[k][j] \in ToSet(ss[k])
    BY ListedPlaces DEF AreLists
  <2>6. QED
    BY <2>4, <2>5
<1>5. ASSUME NEW k \in 1..n, NEW x \in ToSet(ss[k])
      PROVE  x \in ToSet(q)
  <2>1. PICK j \in 1..Len(ss[k]) : x = ss[k][j]
    BY ListedPlaces DEF AreLists
  <2>2. off[k] + j \in 1..Len(q) /\ q[off[k] + j] = x
    BY <1>2, <2>1 DEF LaidOut
  <2>3. QED
    BY <1>3, <2>2, ListedPlaces
<1>6. QED
  BY <1>2, <1>3, <1>4, <1>5

(* What is chosen at no place, and at one.                                    *)
LEMMA ChosenNone ==
  ASSUME NEW T, NEW s \in Seq(T), NEW places, \A k \in 1..Len(s) : k \notin places
  PROVE  Chosen(s, places) = <<>>
<1>1. PICK c, pos : c = Chosen(s, places) /\ c \in Seq(T) /\ ChosenAt(pos, c, s, places, Len(s))
  BY ChosenPlaces, ChosenFacts
<1>2. Len(c) \in Nat /\ ~ (1 \in 1..Len(c))
  BY <1>1 DEF ChosenAt
<1>3. Len(c) = 0
  BY <1>2
<1>4. QED
  BY <1>1, <1>3

LEMMA ChosenOne ==
  ASSUME NEW T, NEW s \in Seq(T), NEW places, NEW k \in 1..Len(s), k \in places,
         \A i \in 1..Len(s) : i \in places => i = k
  PROVE  Chosen(s, places) = <<s[k]>>
<1>1. PICK c, pos : c = Chosen(s, places) /\ c \in Seq(T) /\ ChosenAt(pos, c, s, places, Len(s))
  BY ChosenPlaces, ChosenFacts
<1>2. PICK l : l = Len(c) /\ l \in Nat
  BY <1>1
<1>3. PICK n \in 1..l : pos[n] = k
  BY <1>1, <1>2 DEF ChosenAt
<1>4. \A m \in 1..l : pos[m] = k /\ c[m] = s[k]
  BY <1>1, <1>2 DEF ChosenAt
<1>5. ~ (2 \in 1..l)
  <2>1. SUFFICES ASSUME 2 \in 1..l PROVE FALSE
    OBVIOUS
  <2>2. 1 \in 1..l /\ 1 < 2
    BY <1>2, <2>1
  <2>3. pos[1] < pos[2] /\ pos[1] = k /\ pos[2] = k /\ k \in Nat
    BY <1>1, <1>2, <1>4, <2>1, <2>2 DEF ChosenAt
  <2>4. QED
    BY <2>3
<1>6. l = 1
  BY <1>2, <1>3, <1>5
<1>7. c = <<s[k]>>
  <2>1. 1 \in 1..l
    BY <1>6
  <2>2. c[1] = s[k]
    BY <1>4, <2>1
  <2>3. PICK x : x = s[k]
    OBVIOUS
  <2>4. c \in Seq(T) /\ Len(c) = 1 /\ c[1] = x
    BY <1>1, <1>2, <1>6, <2>2, <2>3
  <2>5. c = <<x>>
    BY <2>4
  <2>6. QED
    BY <2>3, <2>5
<1>8. QED
  BY <1>1, <1>7

(* Some numbers, each once.                                                   *)
Lists(q, P) ==
  /\ q \in Seq(P)
  /\ \A i, j \in 1..Len(q) : q[i] = q[j] => i = j
  /\ \A k \in P : \E i \in 1..Len(q) : q[i] = k

LEMMA PlacesListed ==
  ASSUME NEW n \in Nat, NEW P, P \subseteq 1..n
  PROVE  Lists(Chosen([j \in 1..n |-> j], P), P)
<1>1. PICK s : s = [j \in 1..n |-> j]
  OBVIOUS
<1>2. s \in Seq(Nat) /\ Len(s) = n /\ \A j \in 1..n : s[j] = j
  BY <1>1
<1>3. PICK c, pos : c = Chosen(s, P) /\ c \in Seq(Nat) /\ ChosenAt(pos, c, s, P, n)
  BY <1>2, ChosenPlaces, ChosenFacts
<1>4. PICK l : l = Len(c) /\ l \in Nat
  BY <1>3
<1>5. /\ \A i \in 1..l : c[i] = pos[i] /\ pos[i] \in P /\ pos[i] \in Nat
      /\ \A i, j \in 1..l : i < j => pos[i] < pos[j]
      /\ \A k \in P : \E i \in 1..l : pos[i] = k
  <2>1. /\ pos \in [1..l -> 1..n] /\ \A i \in 1..l : pos[i] \in P /\ c[i] = s[pos[i]]
        /\ \A i, j \in 1..l : i < j => pos[i] < pos[j]
        /\ \A k \in 1..n : k \in P => \E i \in 1..l : pos[i] = k
    BY <1>3, <1>4 DEF ChosenAt
  <2>2. \A i \in 1..l : pos[i] \in 1..n /\ pos[i] \in Nat
    BY <2>1
  <2>3. QED
    BY <1>2, <2>1, <2>2
<1>6. c \in Seq(P)
  BY <1>3, <1>4, <1>5
<1>7. ASSUME NEW i \in 1..l, NEW j \in 1..l, c[i] = c[j]
      PROVE  i = j
  <2>1. pos[i] = pos[j] /\ pos[i] \in Nat
    BY <1>5, <1>7
  <2>2. ~ (i < j) /\ ~ (j < i)
    BY <1>5, <2>1
  <2>3. QED
    BY <2>2
<1>8. \A k \in P : \E i \in 1..l : c[i] = k
  <2>1. ASSUME NEW k \in P
        PROVE  \E i \in 1..l : c[i] = k
    <3>1. PICK i \in 1..l : pos[i] = k
      BY <1>5
    <3>2. c[i] = k
      BY <1>5, <3>1
    <3>3. QED
      BY <3>2
  <2>2. QED
    BY <2>1
<1>9. Lists(c, P)
  BY <1>4, <1>6, <1>7, <1>8 DEF Lists
<1>10. QED
  BY <1>1, <1>3, <1>9

(* How the steps end, unfolded.                                               *)
WaitsForNone(e, s, j) == ~ \E i \in 1..(j - 1) : s[i].id \in ToSet(s[j].deps) /\ e[i] # "completed"
EndOf(e, s, given, k, j) ==
  IF ~ WaitsForNone(e, s, j) THEN "cancelled"
  ELSE IF j <= k /\ given[s[j].id].status = "failed" THEN "failed" ELSE "completed"

LEMMA EndsFacts ==
  ASSUME NEW pl, IsListed(pl.tasks), NEW given, NEW k
  PROVE  \A j \in 1..Len(pl.tasks) :
           StepEnds(pl, given, k)[j] = EndOf(StepEnds(pl, given, k), pl.tasks, given, k, j)
<1> DEFINE N == Len(pl.tasks)
           V == {"cancelled", "failed", "completed"}
           Found(g) == g = [j \in DOMAIN pl.tasks |->
             IF \E i \in 1..(j - 1) :
                  pl.tasks[i].id \in ToSet(pl.tasks[j].deps) /\ g[i] # "completed"
             THEN "cancelled"
             ELSE IF j <= k /\ given[pl.tasks[j].id].status = "failed" THEN "failed" ELSE "completed"]
           P == UNION {{j} \X [1..(j - 1) -> V] : j \in 1..N}
           step == [p \in P |-> EndOf(p[2], pl.tasks, given, k, p[1])]
<1>1. N \in Nat /\ DOMAIN pl.tasks = 1..N
  <2>1. PICK s : s = pl.tasks /\ IsListed(s)
    OBVIOUS
  <2>2. QED
    BY <2>1, ListedPlaces
<1>2. \A g : \A j : EndOf(g, pl.tasks, given, k, j) \in V
  BY DEF EndOf
<1>3. ASSUME NEW j \in 1..N, NEW g \in [1..(j - 1) -> V]
      PROVE  step[<<j, g>>] = EndOf(g, pl.tasks, given, k, j) /\ step[<<j, g>>] \in V
  <2>1. <<j, g>> \in P
    <3>1. <<j, g>> \in {j} \X [1..(j - 1) -> V]
      OBVIOUS
    <3>2. QED
      BY <3>1, Zenon
  <2> HIDE DEF P, N
  <2>2. step[<<j, g>>] = EndOf(g, pl.tasks, given, k, j)
    BY <2>1
  <2> HIDE DEF step
  <2>3. QED
    BY <1>2, <2>2
<1> HIDE DEF N, P, V, step, Found
<1>4. PICK f \in [1..N -> V] : \A j \in 1..N : f[j] = step[<<j, Upto(f, j)>>]
  <2>1. IsRecursive(V, N, step)
    BY <1>1, <1>3 DEF IsRecursive
  <2>2. QED
    BY <2>1, FunctionByRecursion
<1>5. ASSUME NEW j \in 1..N
      PROVE  f[j] = EndOf(f, pl.tasks, given, k, j)
  <2>1. PICK g : g = Upto(f, j)
    OBVIOUS
  <2>2. g \in [1..(j - 1) -> V] /\ \A i \in 1..(j - 1) : g[i] = f[i]
    <3>1. \A i \in 1..(j - 1) : i \in 1..N
      BY <1>1
    <3>2. QED
      BY <1>4, <2>1, <3>1 DEF Upto
  <2>3. f[j] = EndOf(g, pl.tasks, given, k, j)
    BY <1>3, <1>4, <2>1, <2>2
  <2>4. WaitsForNone(g, pl.tasks, j) <=> WaitsForNone(f, pl.tasks, j)
    BY <2>2 DEF WaitsForNone
  <2>5. QED
    BY <2>3, <2>4 DEF EndOf
<1>6. \A g : Found(g) <=> g = [j \in 1..N |-> EndOf(g, pl.tasks, given, k, j)]
  BY <1>1 DEF Found, EndOf, WaitsForNone
<1>7. Found(f)
  <2> DEFINE h == [j \in 1..N |-> EndOf(f, pl.tasks, given, k, j)]
  <2>1. \A j \in 1..N : f[j] = h[j]
    BY <1>5
  <2>2. f = h
    <3>1. f = [j \in 1..N |-> f[j]] /\ h = [j \in 1..N |-> h[j]]
      BY <1>4
    <3> HIDE DEF h
    <3>2. QED
      BY <2>1, <3>1
  <2>3. QED
    BY <1>6, <2>2
<1>8. StepEnds(pl, given, k) = CHOOSE g : Found(g)
  BY Zenon DEF StepEnds, Found
<1>9. PICK g : g = CHOOSE h : Found(h)
  OBVIOUS
<1>10. Found(g)
  BY <1>7, <1>9
<1>11. \A j \in 1..N : g[j] = EndOf(g, pl.tasks, given, k, j)
  BY <1>6, <1>10
<1>12. QED
  BY <1>8, <1>9, <1>11 DEF N

(* What the engine hands over: the ends of the steps, those that did not      *)
(* complete, those that ran, and what they are said to have been.             *)
Said(r) == PartialWarning(r) \o r.warnings
Optional(t) == <<"optional step failed", t>>

Answering(pl, given) ==
  /\ IsListed(pl.tasks) /\ IdsApart(pl.tasks) /\ pl.tasks # <<>> /\ pl.mode = "delegate"
  /\ pl.required \subseteq TaskIds(pl.tasks)
  /\ given \in [TaskIds(pl.tasks) -> Results] /\ \A t \in TaskIds(pl.tasks) : given[t].task = t

Handed(pl, o, given, e, fail, ran) ==
  /\ \A j \in 1..Len(pl.tasks) : e[j] = EndOf(e, pl.tasks, given, Len(pl.tasks), j)
  /\ Lists(fail, {j \in 1..Len(pl.tasks) : e[j] # "completed"})
  /\ Lists(ran, {j \in 1..Len(pl.tasks) : e[j] # "cancelled"})
  /\ \A j \in 1..Len(pl.tasks) : pl.tasks[j].id \in pl.required => e[j] = "completed"
  /\ o.state = "composing" /\ o.answer = NoAnswer
  /\ o.error = IF fail = <<>> THEN NoError ELSE "optional_step_failed"
  /\ o.results = [i \in 1..Len(ran) |-> given[pl.tasks[ran[i]].id]]
  /\ o.warnings = [i \in 1..Len(fail) |-> Optional(pl.tasks[fail[i]].id)]
                    \o FlattenSeq([i \in 1..Len(ran) |-> Said(given[pl.tasks[ran[i]].id])])

LEMMA OutcomeIsHanded ==
  ASSUME NEW pl, NEW given, Answering(pl, given), Outcome(pl, given).state = "composing"
  PROVE  \E e, fail, ran : Handed(pl, Outcome(pl, given), given, e, fail, ran)
<1> DEFINE n == Len(pl.tasks)
           ends == StepEnds(pl, given, n)
           bad == {j \in 1..n : ends[j] # "completed"}
           good == {j \in 1..n : ends[j] # "cancelled"}
           fail == Chosen([j \in 1..n |-> j], bad)
           ran == Chosen([j \in 1..n |-> j], good)
           results == ResultsUpTo(pl, given, n)
           optional == [i \in DOMAIN fail |-> <<"optional step failed", pl.tasks[fail[i]].id>>]
           said == [i \in DOMAIN results |-> PartialWarning(results[i]) \o results[i].warnings]
           o == Outcome(pl, given)
<1>0. pl.mode = "delegate"
  BY DEF Answering
<1>1. o = [state |-> "composing", results |-> results, answer |-> NoAnswer,
           warnings |-> optional \o FlattenSeq(said),
           error |-> IF fail = <<>> THEN NoError ELSE "optional_step_failed"]
      /\ ~ RequiredFails(pl, given, n)
  <2>1. CASE RequiredFails(pl, given, n)
    <3>1. o.state = "failed"
      BY <1>0, <2>1, Zenon DEF Outcome
    <3> HIDE DEF o
    <3>2. QED
      BY <3>1 DEF o
  <2>2. CASE ~ RequiredFails(pl, given, n)
    BY <1>0, <2>2, Zenon DEF Outcome
  <2>3. QED
    BY <2>1, <2>2
<1>2. results = [i \in DOMAIN ran |-> given[pl.tasks[ran[i]].id]]
  BY Zenon DEF ResultsUpTo
<1>3. n \in Nat /\ DOMAIN pl.tasks = 1..n
  <2>1. PICK s : s = pl.tasks /\ IsListed(s)
    BY DEF Answering
  <2>2. QED
    BY <2>1, ListedPlaces
<1>4. bad \subseteq 1..n /\ good \subseteq 1..n
  OBVIOUS
<1>5. \A j \in 1..n : ends[j] = EndOf(ends, pl.tasks, given, n, j)
  BY EndsFacts DEF Answering
<1>6. \A j \in 1..n : pl.tasks[j].id \in pl.required => ends[j] = "completed"
  BY <1>1, <1>3 DEF RequiredFails
<1> HIDE DEF o, results, n, ends
<1>7. Lists(fail, bad) /\ Lists(ran, good)
  <2> HIDE DEF bad, good
  <2> QED
    BY <1>3, <1>4, PlacesListed
<1> HIDE DEF fail, ran
<1>8. DOMAIN fail = 1..Len(fail) /\ DOMAIN ran = 1..Len(ran)
  BY <1>7 DEF Lists
<1>9. DOMAIN results = 1..Len(ran) /\ \A i \in 1..Len(ran) : results[i] = given[pl.tasks[ran[i]].id]
  BY <1>2, <1>8
<1>10. optional = [i \in 1..Len(fail) |-> Optional(pl.tasks[fail[i]].id)]
  BY <1>8 DEF Optional
<1>11. said = [i \in 1..Len(ran) |-> Said(given[pl.tasks[ran[i]].id])]
  BY <1>9 DEF Said
<1> HIDE DEF optional, said
<1>12. Handed(pl, o, given, ends, fail, ran)
  <2>1. /\ o.state = "composing" /\ o.answer = NoAnswer
        /\ o.error = IF fail = <<>> THEN NoError ELSE "optional_step_failed"
        /\ o.results = results /\ o.warnings = optional \o FlattenSeq(said)
    BY <1>1
  <2>2. results = [i \in 1..Len(ran) |-> given[pl.tasks[ran[i]].id]]
    BY <1>2, <1>8
  <2>3. o.warnings = [i \in 1..Len(fail) |-> Optional(pl.tasks[fail[i]].id)]
                      \o FlattenSeq([i \in 1..Len(ran) |-> Said(given[pl.tasks[ran[i]].id])])
    BY <1>10, <1>11, <2>1
  <2>4. QED
    BY <1>5, <1>6, <1>7, <2>1, <2>2, <2>3 DEF Handed, n
<1>13. QED
  BY <1>12 DEF o

(* How a step can have ended.                                                 *)
LEMMA EndKinds ==
  ASSUME NEW pl, NEW given, NEW o, NEW e, NEW fail, NEW ran,
         Answering(pl, given), Handed(pl, o, given, e, fail, ran), NEW k \in 1..Len(pl.tasks)
  PROVE  /\ e[k] \in {"cancelled", "failed", "completed"}
         /\ e[k] = "failed" => given[pl.tasks[k].id].status = "failed"
         /\ e[k] = "completed" => given[pl.tasks[k].id].status # "failed"
         /\ k = 1 => e[k] # "cancelled"
         /\ pl.tasks[k].id \in TaskIds(pl.tasks) /\ given[pl.tasks[k].id] \in Results
         /\ given[pl.tasks[k].id].task = pl.tasks[k].id
<1>1. PICK s, n : s = pl.tasks /\ n = Len(s) /\ IsListed(s)
  BY DEF Answering
<1>2. n \in Nat /\ DOMAIN s = 1..n
  BY <1>1, ListedPlaces
<1>3. k <= n /\ k \in 1..n
  BY <1>1, <1>2
<1>4. e[k] = EndOf(e, s, given, n, k)
  BY <1>1 DEF Handed
<1>5. k = 1 => WaitsForNone(e, s, k)
  BY DEF WaitsForNone
<1>6. s[k].id \in TaskIds(s)
  BY <1>2, <1>3 DEF TaskIds
<1>7. QED
  BY <1>1, <1>3, <1>4, <1>5, <1>6 DEF EndOf, Answering

(* A step that was not cancelled has its one result in what is handed over;   *)
(* a task is missing when its step did not complete.                          *)
Collected(pl, o, given, e, ran) ==
  /\ o.results \in Seq(Results) /\ Len(o.results) = Len(ran)
  /\ \A i \in 1..Len(ran) : ran[i] \in 1..Len(pl.tasks) /\ e[ran[i]] # "cancelled"
                            /\ o.results[i] = given[pl.tasks[ran[i]].id]

Owning(pl, o, given, e) ==
  \A k \in 1..Len(pl.tasks) :
    /\ ResultOf(o, pl.tasks[k].id) = IF e[k] = "cancelled" THEN <<>> ELSE <<given[pl.tasks[k].id]>>
    /\ Missing(o, pl.tasks[k].id) <=> e[k] # "completed"

LEMMA JoinedPlaces ==
  ASSUME NEW X, NEW a \in Seq(X), NEW b \in Seq(X)
  PROVE  /\ a \o b \in Seq(X) /\ Len(a \o b) = Len(a) + Len(b)
         /\ (\A i \in 1..Len(a) : (a \o b)[i] = a[i]) /\ \A i \in 1..Len(b) : (a \o b)[Len(a) + i] = b[i]
  OBVIOUS

LEMMA HandedResults ==
  ASSUME NEW pl, NEW given, NEW o, NEW e, NEW fail, NEW ran,
         Answering(pl, given), Handed(pl, o, given, e, fail, ran)
  PROVE  Collected(pl, o, given, e, ran) /\ Owning(pl, o, given, e)
<1>1. PICK s, n, rs, l : s = pl.tasks /\ n = Len(s) /\ rs = o.results /\ l = Len(ran) /\ IsListed(s)
  BY DEF Answering
<1>2. n \in Nat /\ DOMAIN s = 1..n
  BY <1>1, ListedPlaces
<1>3. PICK P : P = {j \in 1..n : e[j] # "cancelled"} /\ Lists(ran, P)
  BY <1>1 DEF Handed
<1>4. l \in Nat /\ \A i \in 1..l : ran[i] \in P
  BY <1>1, <1>3 DEF Lists
<1>5. rs = [i \in 1..l |-> given[s[ran[i]].id]]
  BY <1>1 DEF Handed
<1>6. \A i \in 1..l : ran[i] \in 1..n /\ e[ran[i]] # "cancelled" /\ rs[i] = given[s[ran[i]].id]
  BY <1>3, <1>4, <1>5
<1>7. \A k \in 1..n : given[s[k].id] \in Results /\ given[s[k].id].task = s[k].id
  BY <1>1, EndKinds
<1>8. rs \in Seq(Results) /\ Len(rs) = l /\ DOMAIN rs = 1..l
  <2>1. \A i \in 1..l : rs[i] \in Results
    BY <1>6, <1>7
  <2>2. rs \in [1..l -> Results]
    BY <1>5, <2>1
  <2>3. QED
    BY <1>4, <2>2, FunctionIsList
<1>9. ASSUME NEW k \in 1..n, e[k] = "cancelled"
      PROVE  ResultOf(o, s[k].id) = <<>>
  <2>1. PICK places : places = {i \in DOMAIN rs : rs[i].task = s[k].id}
    OBVIOUS
  <2>2. \A i \in 1..Len(rs) : i \notin places
    <3>1. ASSUME NEW i \in 1..l
          PROVE  rs[i].task # s[k].id
      <4>1. rs[i].task = s[ran[i]].id /\ ran[i] # k
        BY <1>6, <1>7, <1>9
      <4>2. QED
        BY <1>1, <1>6, <4>1 DEF Answering, IdsApart
    <3>2. QED
      BY <1>8, <2>1, <3>1
  <2>3. Chosen(rs, places) = <<>>
    BY <1>8, <2>2, ChosenNone
  <2>4. QED
    BY <1>1, <2>1, <2>3 DEF ResultOf
<1>10. ASSUME NEW k \in 1..n, e[k] # "cancelled"
       PROVE  ResultOf(o, s[k].id) = <<given[s[k].id]>>
  <2>1. PICK places : places = {i \in DOMAIN rs : rs[i].task = s[k].id}
    OBVIOUS
  <2>2. PICK m \in 1..l : ran[m] = k
    BY <1>1, <1>3, <1>10 DEF Lists
  <2>3. rs[m] = given[s[k].id] /\ m \in places
    BY <1>6, <1>7, <1>8, <2>1, <2>2
  <2>4. ASSUME NEW i \in 1..l, i \in places
        PROVE  i = m
    <3>1. s[ran[i]].id = s[k].id
      BY <1>6, <1>7, <2>1, <2>4
    <3>2. ran[i] = ran[m]
      BY <1>1, <1>6, <2>2, <3>1 DEF Answering, IdsApart
    <3>3. QED
      BY <1>1, <1>3, <3>2 DEF Lists
  <2>5. Chosen(rs, places) = <<rs[m]>>
    BY <1>8, <2>3, <2>4, ChosenOne
  <2>6. QED
    BY <1>1, <2>1, <2>3, <2>5 DEF ResultOf
<1>11. ASSUME NEW k \in 1..n
       PROVE  Missing(o, s[k].id) <=> e[k] # "completed"
  <2>1. PICK own, r : own = ResultOf(o, s[k].id) /\ r = given[s[k].id]
    OBVIOUS
  <2>2. Missing(o, s[k].id) <=> \A i \in DOMAIN own : own[i].status = "failed"
    BY <2>1 DEF Missing
  <2>3. /\ e[k] \in {"cancelled", "failed", "completed"}
        /\ e[k] = "failed" => r.status = "failed"
        /\ e[k] = "completed" => r.status # "failed"
    BY <1>1, <2>1, EndKinds
  <2>4. CASE e[k] = "cancelled"
    <3>1. own = <<>>
      BY <1>9, <2>1, <2>4
    <3>2. QED
      BY <2>2, <2>4, <3>1
  <2>5. CASE e[k] # "cancelled"
    <3>1. own = <<r>>
      BY <1>10, <2>1, <2>5
    <3>2. DOMAIN own = 1..1 /\ own[1] = r
      BY <3>1
    <3>3. (\A i \in DOMAIN own : own[i].status = "failed") <=> r.status = "failed"
      BY <3>2
    <3>4. QED
      BY <2>2, <2>3, <2>5, <3>3
  <2>6. QED
    BY <2>4, <2>5
<1>12. QED
  BY <1>1, <1>6, <1>8, <1>9, <1>10, <1>11 DEF Collected, Owning

(* The reducer's checks, one by one.                                          *)
ReducerCodes == {"outcome_not_composable", "composition_mode_mismatch", "composition_result_set_invalid",
                 "composition_outcome_metadata_invalid", "synthesis_result_invalid"}

SynthesisLost(pl, o) ==
  pl.composition = "synthesis_subagent" /\ Missing(o, SynthesisTasks(pl.tasks)[1].id)

(* The tasks of the results are as many as they are, and tasks of the plan.   *)
TasksAnswered(o) == {o.results[k].task : k \in DOMAIN o.results}

LEMMA HandedCounts ==
  ASSUME NEW pl, NEW given, NEW o, NEW e, NEW fail, NEW ran,
         Answering(pl, given), Handed(pl, o, given, e, fail, ran)
  PROVE  Cardinality(TasksAnswered(o)) = Len(o.results) /\ TasksAnswered(o) \subseteq TaskIds(pl.tasks)
<1>0. Collected(pl, o, given, e, ran)
  BY HandedResults
<1>1. PICK s, n, rs, l : s = pl.tasks /\ n = Len(s) /\ rs = o.results /\ l = Len(rs) /\ l = Len(ran)
                         /\ rs \in Seq(Results)
  BY <1>0 DEF Collected
<1>11. PICK ids : ids = {rs[k].task : k \in DOMAIN rs}
  OBVIOUS
<1>2. l \in Nat /\ DOMAIN rs = 1..l
  <2>0. rs \in Seq(Results)
    BY <1>1
  <2>1. Len(rs) \in Nat /\ DOMAIN rs = 1..Len(rs)
    BY <2>0
  <2>2. QED
    BY <1>1, <2>1
<1>3. \A i \in 1..l : ran[i] \in 1..n /\ rs[i].task = s[ran[i]].id /\ s[ran[i]].id \in TaskIds(s)
  <2>1. \A i \in 1..l : ran[i] \in 1..n /\ rs[i] = given[s[ran[i]].id]
    BY <1>0, <1>1 DEF Collected
  <2>2. \A k \in 1..n : given[s[k].id].task = s[k].id /\ s[k].id \in TaskIds(s)
    BY <1>1, EndKinds
  <2>3. QED
    BY <2>1, <2>2
<1>4. PICK f : f = [i \in 1..l |-> rs[i].task]
  OBVIOUS
<1>5. f \in Surjection(1..l, ids)
  <2>1. \A i \in 1..l : f[i] \in ids
    BY <1>2, <1>4, <1>11
  <2>2. f \in [1..l -> ids]
    BY <1>4, <2>1
  <2>3. \A x \in ids : \E i \in 1..l : f[i] = x
    BY <1>2, <1>4, <1>11
  <2>4. QED
    BY <2>2, <2>3 DEF Surjection
<1>6. f \in Injection(1..l, ids)
  <2>1. ASSUME NEW i \in 1..l, NEW j \in 1..l, f[i] = f[j]
        PROVE  i = j
    <3>1. s[ran[i]].id = s[ran[j]].id
      BY <1>3, <1>4, <2>1
    <3>2. ran[i] = ran[j]
      BY <1>1, <1>3, <3>1 DEF Answering, IdsApart
    <3>3. QED
      BY <1>1, <3>2 DEF Handed, Lists
  <2>2. f \in [1..l -> ids] /\ DOMAIN f = 1..l
    BY <1>4, <1>5 DEF Surjection
  <2>3. QED
    BY <2>1, <2>2 DEF Injection, IsInjective
<1>7. IsFiniteSet(1..l) /\ Cardinality(1..l) = l
  <2>1. 1 \in Int /\ l \in Int
    BY <1>2
  <2>2. QED
    BY <1>2, <2>1, FS_Interval
<1>8. Cardinality(ids) = Cardinality(1..l)
  BY <1>5, <1>6, <1>7, FS_Surjection
<1>9. ids \subseteq TaskIds(s)
  BY <1>2, <1>3, <1>11
<1>10. QED
  BY <1>1, <1>7, <1>8, <1>9, <1>11 DEF TasksAnswered

(* What the plan says of its synthesis.                                       *)
SynthesisSound(pl) ==
  /\ pl.composition \in Compositions
  /\ IF pl.composition = "deterministic" THEN SynthesisTasks(pl.tasks) = <<>> ELSE JoinsResults(pl.tasks)

LEMMA DelegationReduced ==
  ASSUME NEW pl, NEW given, NEW o, NEW e, NEW fail, NEW ran,
         Answering(pl, given), Handed(pl, o, given, e, fail, ran), SynthesisSound(pl)
  PROVE  FirstBroken(ReductionRules(pl, o))
           \in {"accepted"} \union (IF SynthesisLost(pl, o) THEN {"synthesis_result_invalid"} ELSE {})
<1> DEFINE expected == IF OptionalFailures(pl, o) = <<>> THEN NoError ELSE "optional_step_failed"
<1>0. Collected(pl, o, given, e, ran) /\ Owning(pl, o, given, e)
  BY HandedResults
<1>1. PICK s, n, rs : s = pl.tasks /\ n = Len(s) /\ rs = o.results /\ rs \in Seq(Results) /\ IsListed(s)
  BY <1>0 DEF Answering, Collected
<1>2. n \in Nat /\ DOMAIN s = 1..n /\ n # 0
  <2>1. n \in Nat /\ DOMAIN s = 1..n /\ s # <<>>
    BY <1>1, ListedPlaces DEF Answering
  <2>2. s \in Seq(ToSet(s))
    BY <1>1 DEF IsListed
  <2>3. QED
    BY <1>1, <2>1, <2>2
<1>3. PICK b0, b1, b2, b3, b4, b5, b6 :
        /\ b0 = (o.state # "composing") /\ b1 = (o.answer # NoAnswer \/ o.results = <<>>)
        /\ b2 = (Cardinality(TasksAnswered(o)) # Len(o.results) \/ ~(TasksAnswered(o) \subseteq TaskIds(pl.tasks)))
        /\ b3 = (\E t \in pl.required : Missing(o, t))
        /\ b4 = (o.error # expected) /\ b5 = SynthesisBroken(pl, o)
        /\ b6 = (\E k \in DOMAIN o.results : o.results[k].status = "failed" /\ o.results[k].error = NoError)
  OBVIOUS
<1>4. ~ b0
  BY <1>3 DEF Handed
<1>5. ~ b1
  <2>1. o.answer = NoAnswer
    BY DEF Handed
  <2>2. 1 \in 1..n
    BY <1>2
  <2>3. e[1] # "cancelled"
    BY <1>1, <2>2, EndKinds
  <2>4. PICK P : P = {j \in 1..n : e[j] # "cancelled"} /\ Lists(ran, P)
    BY <1>1 DEF Handed
  <2>5. Len(ran) \in Nat /\ \E i \in 1..Len(ran) : ran[i] = 1
    BY <2>2, <2>3, <2>4 DEF Lists
  <2>6. Len(rs) # 0
    <3>1. Len(rs) = Len(ran)
      BY <1>0, <1>1 DEF Collected
    <3>2. QED
      BY <2>5, <3>1
  <2>7. rs # <<>>
    BY <2>6
  <2>8. QED
    BY <1>1, <1>3, <2>1, <2>7
<1>6. ~ b2
  BY <1>3, HandedCounts
<1>7. ~ b3
  <2>1. ASSUME NEW t \in pl.required
        PROVE  ~ Missing(o, t)
    <3>1. t \in TaskIds(s)
      BY <1>1 DEF Answering
    <3>2. PICK k \in 1..n : t = s[k].id
      BY <1>2, <3>1 DEF TaskIds
    <3>3. e[k] = "completed"
      BY <1>1, <2>1, <3>2 DEF Handed
    <3>4. \A i \in 1..Len(pl.tasks) : Missing(o, pl.tasks[i].id) <=> e[i] # "completed"
      BY <1>0 DEF Owning
    <3>5. QED
      BY <1>1, <3>2, <3>3, <3>4
  <2>2. QED
    BY <1>3, <2>1
<1>8. ~ b4
  <2>1. PICK P, places : /\ P = {j \in 1..n : e[j] # "completed"}
                         /\ places = {k \in DOMAIN s : Missing(o, s[k].id)}
    OBVIOUS
  <2>2. places = P
    <3>1. \A i \in 1..Len(pl.tasks) : Missing(o, pl.tasks[i].id) <=> e[i] # "completed"
      BY <1>0 DEF Owning
    <3>2. \A k \in 1..n : Missing(o, s[k].id) <=> e[k] # "completed"
      BY <1>1, <3>1
    <3>3. QED
      BY <1>2, <2>1, <3>2
  <2>3. Lists(fail, P)
    BY <1>1, <2>1 DEF Handed
  <2>4. PICK T : T = ToSet(s) /\ s \in Seq(T)
    BY <1>1 DEF IsListed
  <2>5. OptionalFailures(pl, o) = Chosen(s, P)
    BY <1>1, <2>1, <2>2 DEF OptionalFailures
  <2>6. Chosen(s, P) = <<>> <=> P = {}
    <3>1. PICK c, pos : c = Chosen(s, P) /\ c \in Seq(T) /\ ChosenAt(pos, c, s, P, n)
      BY <1>1, <2>4, ChosenPlaces, ChosenFacts
    <3>2. P # {} => \E i \in 1..Len(c) : TRUE
      BY <2>1, <3>1 DEF ChosenAt
    <3>3. c = <<>> => Len(c) = 0
      OBVIOUS
    <3>4. P = {} => c = <<>>
      <4>1. P = {} => \A k \in 1..Len(s) : k \notin P
        OBVIOUS
      <4>2. QED
        BY <2>4, <3>1, <4>1, ChosenNone
    <3>5. QED
      BY <3>1, <3>2, <3>3, <3>4
  <2>7. fail = <<>> <=> P = {}
    <3>1. Len(fail) \in Nat /\ (\A i \in 1..Len(fail) : fail[i] \in P) /\ (\A k \in P : \E i \in 1..Len(fail) : fail[i] = k)
          /\ (fail = <<>> <=> Len(fail) = 0)
      BY <2>3 DEF Lists
    <3>2. Len(fail) # 0 => 1 \in 1..Len(fail)
      BY <3>1
    <3>3. QED
      BY <3>1, <3>2
  <2>8. o.error = IF fail = <<>> THEN NoError ELSE "optional_step_failed"
    BY DEF Handed
  <2>9. QED
    BY <1>3, <2>5, <2>6, <2>7, <2>8
<1>9. b5 => SynthesisLost(pl, o)
  BY <1>3 DEF SynthesisBroken, SynthesisSound, SynthesisLost, Compositions
<1>10. ~ b6
  <2>1. ASSUME NEW r \in Results, r.status = "failed"
        PROVE  r.error # NoError
    <3>1. PICK t \in DOMAIN ResultsFor : r \in ResultsFor[t]
      BY DEF Results
    <3>2. IsResult(r)
      BY <3>1, AnswerAssumption
    <3>3. QED
      BY <2>1, <3>2 DEF IsResult
  <2>2. \A k \in DOMAIN rs : rs[k] \in Results
    BY <1>1
  <2>3. QED
    BY <1>1, <1>3, <2>1, <2>2
<1>11. PICK A, C :
        /\ A = << <<b0, "outcome_not_composable">> >>
        /\ C = << <<b1, "composition_mode_mismatch">>, <<b2, "composition_result_set_invalid">>,
                  <<b3, "composition_result_set_invalid">>, <<b4, "composition_outcome_metadata_invalid">>,
                  <<b5, "synthesis_result_invalid">>, <<b6, "composition_outcome_metadata_invalid">> >>
  OBVIOUS
<1>12. ReductionRules(pl, o) = A \o C
  BY <1>3, <1>11, Zenon DEF ReductionRules, Answering, TasksAnswered
<1>13. PICK rules, X : rules = A \o C /\ X = BOOLEAN \X ReducerCodes
  OBVIOUS
<1>14. /\ b0 \in BOOLEAN /\ b1 \in BOOLEAN /\ b2 \in BOOLEAN /\ b3 \in BOOLEAN /\ b4 \in BOOLEAN
       /\ b5 \in BOOLEAN /\ b6 \in BOOLEAN
  BY <1>3 DEF SynthesisBroken
<1>15. A \in Seq(X) /\ C \in Seq(X) /\ Len(A) = 1 /\ Len(C) = 6
  <2>1. /\ <<b0, "outcome_not_composable">> \in X
        /\ <<b1, "composition_mode_mismatch">> \in X /\ <<b2, "composition_result_set_invalid">> \in X
        /\ <<b3, "composition_result_set_invalid">> \in X /\ <<b4, "composition_outcome_metadata_invalid">> \in X
        /\ <<b5, "synthesis_result_invalid">> \in X /\ <<b6, "composition_outcome_metadata_invalid">> \in X
    BY <1>13, <1>14 DEF ReducerCodes
  <2>2. QED
    BY <1>11, <2>1
<1>16. /\ rules \in Seq(X) /\ Len(rules) = 7
       /\ rules[1] = A[1] /\ \A i \in 1..6 : rules[1 + i] = C[i]
  <2>1. /\ A \o C \in Seq(X) /\ Len(A \o C) = Len(A) + Len(C)
        /\ (\A i \in 1..Len(A) : (A \o C)[i] = A[i]) /\ \A i \in 1..Len(C) : (A \o C)[Len(A) + i] = C[i]
    <3>1. A \in Seq(X) /\ C \in Seq(X)
      BY <1>15
    <3>2. QED
      BY <3>1, JoinedPlaces
  <2>2. PICK p, q : p = Len(A) /\ q = Len(C)
    OBVIOUS
  <2>3. p = 1 /\ q = 6 /\ rules \in Seq(X) /\ Len(rules) = p + q
        /\ (\A i \in 1..p : rules[i] = A[i]) /\ \A i \in 1..q : rules[p + i] = C[i]
    BY <1>13, <1>15, <2>1, <2>2
  <2>4. QED
    BY <2>3
<1>17. \A m \in 1..7 : rules[m][1] => b5 /\ rules[m][2] = "synthesis_result_invalid"
  <2>1. rules[1][1] = b0
    BY <1>11, <1>16
  <2>2. ASSUME NEW i \in 1..6, C[i][1]
        PROVE  b5 /\ C[i][2] = "synthesis_result_invalid"
    <3>1. i = 1 \/ i = 2 \/ i = 3 \/ i = 4 \/ i = 5 \/ i = 6
      OBVIOUS
    <3>2. C[1][1] = b1 /\ C[2][1] = b2 /\ C[3][1] = b3 /\ C[4][1] = b4 /\ C[5][1] = b5 /\ C[6][1] = b6
          /\ C[5][2] = "synthesis_result_invalid"
      BY <1>11
    <3>3. QED
      BY <1>5, <1>6, <1>7, <1>8, <1>10, <2>2, <3>1, <3>2
  <2>3. \A m \in 1..7 : m = 1 \/ (m - 1 \in 1..6 /\ 1 + (m - 1) = m)
    OBVIOUS
  <2>4. QED
    BY <1>4, <1>16, <2>1, <2>2, <2>3
<1>18. FirstBroken(rules) # "accepted" => \E m \in 1..Len(rules) : rules[m][1] /\ rules[m][2] = FirstBroken(rules)
  <2>1. "accepted" \notin ReducerCodes
    BY DEF ReducerCodes
  <2>2. QED
    BY <1>13, <1>16, <2>1, FirstBrokenFacts
<1>19. QED
  BY <1>9, <1>12, <1>13, <1>16, <1>17, <1>18

(* Evidence that is gathered: no URI twice, and what was there stays.         *)
Apart(s) == \A i, j \in 1..Len(s) : s[i].uri = s[j].uri /\ s[i].uri # NoUri => i = j
Extends(t, s) == Len(s) <= Len(t) /\ \A i \in 1..Len(s) : t[i] = s[i]

(* A number that stands for a piece, and numbers that stand for all pieces of *)
(* a set and for no other.                                                    *)
StandsFor(s, n, e) == s[n].uri = Normalized[e.uri] /\ (e.uri = NoUri => s[n].title = e.title)
Standing(s, ns, E) ==
  /\ \A i \in 1..Len(ns) : ns[i] \in 1..Len(s) /\ \E e \in E : StandsFor(s, ns[i], e)
  /\ \A e \in E : \E i \in 1..Len(ns) : StandsFor(s, ns[i], e)

LEMMA StandingOnward ==
  ASSUME NEW s, NEW t, NEW ns, NEW E, Len(s) \in Nat, Len(t) \in Nat, Extends(t, s), Standing(s, ns, E)
  PROVE  Standing(t, ns, E)
<1>1. PICK l, m : l = Len(s) /\ m = Len(t)
  OBVIOUS
<1>2. l \in Nat /\ m \in Nat /\ l <= m /\ \A i \in 1..l : t[i] = s[i] /\ i \in 1..m
  BY <1>1 DEF Extends
<1>3. \A i \in 1..Len(ns) : ns[i] \in 1..l
  BY <1>1 DEF Standing
<1>4. \A i \in 1..Len(ns) : \A e \in E : StandsFor(s, ns[i], e) <=> StandsFor(t, ns[i], e)
  BY <1>2, <1>3 DEF StandsFor
<1>5. \A i \in 1..Len(ns) : ns[i] \in 1..Len(t)
  BY <1>1, <1>2, <1>3
<1>6. QED
  BY <1>4, <1>5 DEF Standing

(* A piece takes the number of its URI, or the next one.                      *)
LEMMA PlaceKeeps ==
  ASSUME NEW g \in Numbered, NEW E, Apart(g.evidence), Standing(g.evidence, g.numbers, E),
         NEW e, e.title \in Titles, e.uri \in DOMAIN Normalized
  PROVE  /\ Apart(Place(g, e).evidence) /\ Extends(Place(g, e).evidence, g.evidence)
         /\ Standing(Place(g, e).evidence, Place(g, e).numbers, E \union {e})
<1>1. PICK s, ns : s = g.evidence /\ ns = g.numbers /\ s \in Seq(Pieces) /\ ns \in Seq(Nat)
  BY DEF Numbered
<1>2. PICK uri, known, x :
        /\ uri = Normalized[e.uri]
        /\ known = {i \in DOMAIN s : uri # NoUri /\ s[i].uri = uri}
        /\ x = [title |-> e.title, uri |-> uri]
  OBVIOUS
<1>3. PICK t : t = IF known = {} THEN Append(s, x) ELSE s
  OBVIOUS
<1>4. PICK index : index = IF known = {} THEN Len(t) ELSE Min(known)
  OBVIOUS
<1>5. PICK ms : ms = IF Contains(ns, index) THEN ns ELSE Append(ns, index)
  OBVIOUS
<1>6. Place(g, e) = [evidence |-> t, numbers |-> ms]
  BY <1>1, <1>2, <1>3, <1>4, <1>5, Zenon DEF Place
<1>7. PICK l : l = Len(s) /\ l \in Nat /\ DOMAIN s = 1..l
  BY <1>1
<1>8. x \in Pieces /\ x.uri = uri /\ x.title = e.title
  <2>1. uri \in Uris \union {NoUri}
    BY <1>2, NormalizedAssumption
  <2>2. PICK title \in Titles : title = e.title
    OBVIOUS
  <2>3. [title |-> title, uri |-> uri] \in Pieces
    BY <2>1, <2>2 DEF Pieces
  <2>4. QED
    BY <1>2, <2>2, <2>3
<1>9. e.uri = NoUri => uri = NoUri
  BY <1>2, NormalizedAssumption
<1>10. /\ t \in Seq(Pieces) /\ Len(t) \in Nat /\ l <= Len(t) /\ (\A i \in 1..l : t[i] = s[i] /\ i \in 1..Len(t))
       /\ index \in 1..Len(t) /\ StandsFor(t, index, e) /\ Apart(t)
  <2>1. CASE known = {}
    <3>1. t = Append(s, x) /\ t \in Seq(Pieces) /\ Len(t) = l + 1 /\ t[l + 1] = x /\ \A i \in 1..l : t[i] = s[i]
      BY <1>1, <1>3, <1>7, <1>8, <2>1
    <3>2. index = l + 1
      BY <1>4, <2>1, <3>1
    <3>3. l + 1 \in 1..(l + 1) /\ (\A i \in 1..l : i \in 1..(l + 1)) /\ \A i \in 1..(l + 1) : i = l + 1 \/ i \in 1..l
      BY <1>7
    <3>4. StandsFor(t, index, e)
      BY <1>2, <1>8, <3>1, <3>2 DEF StandsFor
    <3>5. \A i \in 1..l : uri # NoUri => s[i].uri # uri
      BY <1>2, <1>7, <2>1
    <3>6. \A i, j \in 1..l : s[i].uri = s[j].uri /\ s[i].uri # NoUri => i = j
      BY <1>1, <1>7 DEF Apart
    <3>7. ASSUME NEW i \in 1..(l + 1), NEW j \in 1..(l + 1), t[i].uri = t[j].uri, t[i].uri # NoUri
          PROVE  i = j
      <4>1. CASE i = l + 1
        <5>1. CASE j = l + 1
          BY <4>1, <5>1
        <5>2. CASE j \in 1..l
          <6>1. t[i].uri = uri /\ t[j].uri = s[j].uri
            BY <1>8, <3>1, <4>1, <5>2
          <6>2. QED
            BY <3>5, <3>7, <5>2, <6>1
        <5>3. QED
          BY <3>3, <5>1, <5>2
      <4>2. CASE i \in 1..l
        <5>1. CASE j = l + 1
          <6>1. t[j].uri = uri /\ t[i].uri = s[i].uri
            BY <1>8, <3>1, <4>2, <5>1
          <6>2. QED
            BY <3>5, <3>7, <4>2, <6>1
        <5>2. CASE j \in 1..l
          BY <3>1, <3>6, <3>7, <4>2, <5>2
        <5>3. QED
          BY <3>3, <5>1, <5>2
      <4>3. QED
        BY <3>3, <4>1, <4>2
    <3>8. Apart(t)
      BY <3>1, <3>7 DEF Apart
    <3>9. l <= l + 1 /\ l + 1 \in Nat
      BY <1>7
    <3>10. QED
      BY <3>1, <3>2, <3>3, <3>4, <3>8, <3>9
  <2>2. CASE known # {}
    <3>1. t = s
      BY <1>3, <2>2
    <3>2. known \in SUBSET Nat
      BY <1>2, <1>7
    <3>3. \E i \in known : \A j \in known : i <= j
      BY <2>2, <3>2, NatLeast
    <3>4. Min(known) \in known
      BY <3>3 DEF Min
    <3>5. index \in 1..l /\ s[index].uri = uri /\ uri # NoUri
      BY <1>2, <1>4, <1>7, <2>2, <3>4
    <3>6. StandsFor(t, index, e)
      BY <1>2, <1>9, <3>1, <3>5 DEF StandsFor
    <3>7. QED
      BY <1>1, <1>7, <3>1, <3>5, <3>6
  <2>3. QED
    BY <2>1, <2>2
<1>11. Extends(t, s) /\ Standing(t, ns, E)
  <2>1. Extends(t, s)
    BY <1>7, <1>10 DEF Extends
  <2>2. QED
    BY <1>1, <1>7, <1>10, <2>1, StandingOnward
<1>12. Standing(t, ms, E \union {e})
  <2>1. PICK c : c = Len(ns) /\ c \in Nat /\ DOMAIN ns = 1..c
    BY <1>1
  <2>2. /\ \A i \in 1..c : ns[i] \in 1..Len(t) /\ \E d \in E : StandsFor(t, ns[i], d)
        /\ \A d \in E : \E i \in 1..c : StandsFor(t, ns[i], d)
    BY <1>11, <2>1 DEF Standing
  <2>3. CASE Contains(ns, index)
    <3>1. PICK i \in 1..c : ns[i] = index
      BY <2>1, <2>3 DEF Contains
    <3>2. ms = ns /\ StandsFor(t, ns[i], e)
      BY <1>5, <1>10, <2>3, <3>1
    <3>3. QED
      BY <2>1, <2>2, <3>2 DEF Standing
  <2>4. CASE ~ Contains(ns, index)
    <3>1. ms = Append(ns, index) /\ index \in Nat
      BY <1>5, <1>10, <2>4
    <3>2. Len(ms) = c + 1 /\ ms[c + 1] = index /\ \A i \in 1..c : ms[i] = ns[i]
      BY <1>1, <2>1, <3>1
    <3>3. c + 1 \in 1..(c + 1) /\ (\A i \in 1..c : i \in 1..(c + 1)) /\ \A i \in 1..(c + 1) : i = c + 1 \/ i \in 1..c
      BY <2>1
    <3>4. ASSUME NEW i \in 1..(c + 1)
          PROVE  ms[i] \in 1..Len(t) /\ \E d \in E \union {e} : StandsFor(t, ms[i], d)
      <4>1. CASE i = c + 1
        BY <1>10, <3>2, <4>1
      <4>2. CASE i \in 1..c
        BY <2>2, <3>2, <4>2
      <4>3. QED
        BY <3>3, <4>1, <4>2
    <3>5. ASSUME NEW d \in E \union {e}
          PROVE  \E i \in 1..(c + 1) : StandsFor(t, ms[i], d)
      <4>1. CASE d = e
        BY <1>10, <3>2, <3>3, <4>1
      <4>2. CASE d \in E
        BY <2>2, <3>2, <3>3, <4>2
      <4>3. QED
        BY <4>1, <4>2
    <3>6. QED
      BY <3>2, <3>4, <3>5 DEF Standing
  <2>5. QED
    BY <2>3, <2>4
<1>13. QED
  BY <1>1, <1>6, <1>10, <1>11, <1>12

LEMMA ExtendsOnward ==
  ASSUME NEW r, NEW s, NEW t, Len(r) \in Nat, Len(s) \in Nat, Len(t) \in Nat, Extends(s, r), Extends(t, s)
  PROVE  Extends(t, r)
<1>1. PICK l, m, n : l = Len(r) /\ m = Len(s) /\ n = Len(t)
  OBVIOUS
<1>2. /\ l \in Nat /\ m \in Nat /\ n \in Nat /\ l <= m /\ m <= n
      /\ (\A i \in 1..l : s[i] = r[i]) /\ \A i \in 1..m : t[i] = s[i]
  BY <1>1 DEF Extends
<1>3. l <= n /\ \A i \in 1..l : t[i] = r[i]
  BY <1>2
<1>4. QED
  BY <1>1, <1>3 DEF Extends

(* The pieces of one more result have their numbers, the others keep theirs.  *)
LEMMA GatherKeeps ==
  ASSUME NEW g \in Gathered, NEW r \in Results, Apart(g.evidence)
  PROVE  LET all == GatherOf(g, r)
         IN /\ Apart(all.evidence) /\ Extends(all.evidence, g.evidence)
            /\ DOMAIN all.sources = DOMAIN g.sources \union {r.task}
            /\ Standing(all.evidence, all.sources[r.task], ToSet(r.evidence))
            /\ \A t \in DOMAIN g.sources : t # r.task => all.sources[t] = g.sources[t]
<1>1. PICK E, N, s0 : E = r.evidence /\ N = Len(E) /\ s0 = g.evidence
  OBVIOUS
<1>2. PICK h : /\ Placing(h, g, r)
               /\ GatherOf(g, r) =
                    [evidence |-> h[Len(r.evidence)].evidence,
                     sources |-> [t \in DOMAIN g.sources \union {r.task} |->
                                    IF t = r.task THEN h[Len(r.evidence)].numbers ELSE g.sources[t]]]
  BY GatherRecurrence
<1>3. /\ h[0] = [evidence |-> s0, numbers |-> <<>>]
      /\ \A k \in 1..N : h[k] = Place(h[k - 1], E[k])
      /\ \A k \in 0..N : h[k] \in Numbered
  BY <1>1, <1>2 DEF Placing
<1>4. IsListed(E)
  BY <1>1, ResultFacts
<1>5. N \in Nat /\ DOMAIN E = 1..N /\ (\A k \in 1..N : E[k] \in ToSet(E)) /\ \A x \in ToSet(E) : \E k \in 1..N : x = E[k]
  BY <1>1, <1>4, ListedPlaces
<1>6. s0 \in Seq(Pieces) /\ Apart(s0)
  BY <1>1 DEF Gathered
<1> DEFINE SoFar(k) == {E[i] : i \in 1..k}
           S == {k \in 0..N : /\ Apart(h[k].evidence) /\ Extends(h[k].evidence, s0)
                              /\ Standing(h[k].evidence, h[k].numbers, SoFar(k))}
<1>7. 0 \in S
  <2>1. h[0].evidence = s0 /\ h[0].numbers = <<>> /\ Len(<<>>) = 0 /\ Len(s0) \in Nat
    BY <1>3, <1>6
  <2>2. SoFar(0) = {}
    OBVIOUS
  <2>3. Standing(s0, <<>>, {})
    BY <2>1 DEF Standing
  <2>4. Extends(s0, s0)
    BY <2>1 DEF Extends
  <2>5. 0 \in 0..N
    BY <1>5
  <2> HIDE DEF SoFar
  <2>6. QED
    BY <1>6, <2>1, <2>2, <2>3, <2>4, <2>5
<1>8. ASSUME NEW k \in 1..N, k - 1 \in S
      PROVE  k \in S
  <2>1. PICK a, b, e : a = h[k - 1] /\ b = h[k] /\ e = E[k]
    OBVIOUS
  <2>2. a \in Numbered /\ b \in Numbered /\ b = Place(a, e) /\ k \in 0..N
    BY <1>3, <1>5, <1>8, <2>1
  <2>3. Apart(a.evidence) /\ Extends(a.evidence, s0) /\ Standing(a.evidence, a.numbers, SoFar(k - 1))
    BY <1>8, <2>1
  <2>4. e.title \in Titles /\ e.uri \in DOMAIN Normalized
    <3>1. e \in ToSet(r.evidence)
      BY <1>1, <1>5, <2>1
    <3>2. QED
      BY <3>1, ResultFacts DEF Titles
  <2> HIDE DEF SoFar
  <2>5. Apart(b.evidence) /\ Extends(b.evidence, a.evidence) /\ Standing(b.evidence, b.numbers, SoFar(k - 1) \union {e})
    BY <2>2, <2>3, <2>4, PlaceKeeps
  <2>6. SoFar(k - 1) \union {e} = SoFar(k)
    <3>1. (\A i \in 1..(k - 1) : i \in 1..k) /\ k \in 1..k /\ \A i \in 1..k : i = k \/ i \in 1..(k - 1)
      BY <1>5
    <3>2. QED
      BY <2>1, <3>1 DEF SoFar
  <2>7. Extends(b.evidence, s0)
    <3>1. PICK x, y : x = a.evidence /\ y = b.evidence
      OBVIOUS
    <3>2. x \in Seq(Pieces) /\ y \in Seq(Pieces)
      BY <2>2, <3>1 DEF Numbered
    <3>3. Len(x) \in Nat /\ Len(y) \in Nat /\ Len(s0) \in Nat
      BY <1>6, <3>2
    <3>4. QED
      BY <2>3, <2>5, <3>1, <3>3, ExtendsOnward
  <2>8. QED
    BY <2>1, <2>2, <2>5, <2>6, <2>7
<1>9. N \in S
  <2>1. N \in 0..N
    BY <1>5
  <2> HIDE DEF S
  <2>2. QED
    BY <1>5, <1>7, <1>8, <2>1, UpTo
<1>10. PICK last : last = h[N] /\ Apart(last.evidence) /\ Extends(last.evidence, s0)
                   /\ Standing(last.evidence, last.numbers, ToSet(E))
  <2>1. SoFar(N) = ToSet(E)
    BY <1>5
  <2>2. QED
    BY <1>9, <2>1
<1>11. PICK D, old : D = DOMAIN g.sources \union {r.task} /\ old = g.sources
  OBVIOUS
<1>12. PICK sources : sources = [t \in D |-> IF t = r.task THEN last.numbers ELSE old[t]]
  OBVIOUS
<1>13. GatherOf(g, r) = [evidence |-> last.evidence, sources |-> sources]
  BY <1>1, <1>2, <1>10, <1>11, <1>12
<1>14. /\ DOMAIN sources = D /\ sources[r.task] = last.numbers
       /\ \A t \in DOMAIN old : t # r.task => sources[t] = old[t]
  BY <1>11, <1>12
<1>15. QED
  BY <1>1, <1>10, <1>11, <1>13, <1>14

(* All pieces of all results have their numbers when no task has two results. *)
TasksApart(rs) == \A i, j \in 1..Len(rs) : rs[i].task = rs[j].task => i = j

LEMMA CollectKeeps ==
  ASSUME NEW rs \in Seq(Results), TasksApart(rs)
  PROVE  /\ Apart(CollectEvidence(rs).evidence)
         /\ \A k \in 1..Len(rs) :
              /\ rs[k].task \in DOMAIN CollectEvidence(rs).sources
              /\ Standing(CollectEvidence(rs).evidence,
                          CollectEvidence(rs).sources[rs[k].task], ToSet(rs[k].evidence))
<1>1. PICK N, h : N = Len(rs) /\ Gathering(h, rs) /\ CollectEvidence(rs) = h[Len(rs)]
  BY CollectRecurrence
<1>2. /\ h[0] = [evidence |-> <<>>, sources |-> <<>>]
      /\ \A k \in 1..N : h[k] = GatherOf(h[k - 1], rs[k])
      /\ \A k \in 0..N : h[k] \in Gathered
  BY <1>1 DEF Gathering
<1>3. N \in Nat /\ \A k \in 1..N : rs[k] \in Results
  BY <1>1
<1> DEFINE Has(g, i) == /\ rs[i].task \in DOMAIN g.sources
                        /\ Standing(g.evidence, g.sources[rs[i].task], ToSet(rs[i].evidence))
           S == {k \in 0..N : Apart(h[k].evidence) /\ \A i \in 1..k : Has(h[k], i)}
<1>4. 0 \in S
  <2>1. h[0].evidence = <<>> /\ Len(<<>>) = 0 /\ 0 \in 0..N
    BY <1>2, <1>3
  <2>2. Apart(<<>>)
    BY <2>1 DEF Apart
  <2> HIDE DEF Has
  <2>3. QED
    BY <2>1, <2>2
<1>5. ASSUME NEW k \in 1..N, k - 1 \in S
      PROVE  k \in S
  <2>1. PICK a, b, r : a = h[k - 1] /\ b = h[k] /\ r = rs[k]
    OBVIOUS
  <2>2. a \in Gathered /\ b \in Gathered /\ b = GatherOf(a, r) /\ r \in Results /\ k \in 0..N
    BY <1>2, <1>3, <1>5, <2>1
  <2>3. Apart(a.evidence) /\ \A i \in 1..(k - 1) : Has(a, i)
    BY <1>5, <2>1
  <2>4. /\ Apart(b.evidence) /\ Extends(b.evidence, a.evidence)
        /\ DOMAIN b.sources = DOMAIN a.sources \union {r.task}
        /\ Standing(b.evidence, b.sources[r.task], ToSet(r.evidence))
        /\ \A t \in DOMAIN a.sources : t # r.task => b.sources[t] = a.sources[t]
    BY <2>2, <2>3, GatherKeeps
  <2>5. ASSUME NEW i \in 1..k
        PROVE  Has(b, i)
    <3>1. CASE i = k
      BY <2>1, <2>4, <3>1
    <3>2. CASE i # k
      <4>1. i \in 1..(k - 1) /\ i \in 1..N
        BY <1>3, <3>2
      <4>2. PICK t : t = rs[i].task
        OBVIOUS
      <4>3. t # r.task
        BY <1>1, <2>1, <3>2, <4>1, <4>2 DEF TasksApart
      <4>4. t \in DOMAIN a.sources /\ Standing(a.evidence, a.sources[t], ToSet(rs[i].evidence))
        BY <2>3, <4>1, <4>2
      <4>5. PICK x, y : x = a.evidence /\ y = b.evidence
        OBVIOUS
      <4>6. x \in Seq(Pieces) /\ y \in Seq(Pieces)
        BY <2>2, <4>5 DEF Gathered
      <4>7. Len(x) \in Nat /\ Len(y) \in Nat
        BY <4>6
      <4>8. Standing(b.evidence, a.sources[t], ToSet(rs[i].evidence))
        BY <2>4, <4>4, <4>5, <4>7, StandingOnward
      <4>9. QED
        BY <2>4, <4>2, <4>3, <4>4, <4>8
    <3>3. QED
      BY <3>1, <3>2
  <2> HIDE DEF Has
  <2>6. QED
    BY <2>1, <2>2, <2>4, <2>5
<1>6. N \in S
  <2>1. N \in 0..N
    BY <1>3
  <2> HIDE DEF S
  <2>2. QED
    BY <1>3, <1>4, <1>5, <2>1, UpTo
<1>7. QED
  BY <1>1, <1>6

(* A list of one element.                                                     *)
LEMMA OneIsListed ==
  ASSUME NEW x
  PROVE  /\ IsListed(<<x>>) /\ ToSet(<<x>>) = {x} /\ Len(<<x>>) = 1 /\ <<x>>[1] = x
         /\ IsListed(<<>>) /\ ToSet(<<>>) = {} /\ Len(<<>>) = 0
<1>1. PICK m, S, none, Z : m = <<x>> /\ S = {x} /\ none = <<>> /\ Z = {}
  OBVIOUS
<1>2. m \in Seq(S) /\ Len(m) = 1 /\ m[1] = x /\ none \in Seq(Z) /\ Len(none) = 0
  BY <1>1
<1>3. 1 \in 1..Len(m)
  BY <1>2
<1>4. IsListed(m) /\ ToSet(m) \subseteq S /\ m[1] \in ToSet(m)
  BY <1>2, <1>3, ListOf
<1>5. IsListed(none) /\ ToSet(none) \subseteq Z
  BY <1>2, ListOf
<1>6. QED
  BY <1>1, <1>2, <1>4, <1>5

(* The results in the plan's order are those handed over, one for a task.     *)
LEMMA OrderedFacts ==
  ASSUME NEW pl, NEW given, NEW o, NEW e, NEW fail, NEW ran,
         Answering(pl, given), Handed(pl, o, given, e, fail, ran)
  PROVE  /\ OrderedResults(pl, o) \in Seq(Results) /\ TasksApart(OrderedResults(pl, o))
         /\ ToSet(OrderedResults(pl, o)) = ToSet(o.results)
         /\ \A r \in ToSet(o.results) : r \in Results /\ r.task \in TaskIds(pl.tasks) /\ r = given[r.task]
<1>1. PICK s, n, ss : /\ s = pl.tasks /\ n = Len(s) /\ IsListed(s) /\ IdsApart(s)
                      /\ ss = [k \in DOMAIN pl.tasks |-> ResultOf(o, pl.tasks[k].id)]
  BY DEF Answering
<1>2. n \in Nat /\ DOMAIN s = 1..n
  BY <1>1, ListedPlaces
<1>3. Collected(pl, o, given, e, ran) /\ Owning(pl, o, given, e)
  BY HandedResults
<1>4. \A k \in 1..n : ss[k] = IF e[k] = "cancelled" THEN <<>> ELSE <<given[s[k].id]>>
  BY <1>1, <1>2, <1>3 DEF Owning
<1>5. \A k \in 1..n : given[s[k].id] \in Results /\ given[s[k].id].task = s[k].id /\ s[k].id \in TaskIds(s)
  BY <1>1, EndKinds
<1>6. ASSUME NEW k \in 1..n
      PROVE  /\ IsListed(ss[k]) /\ ToSet(ss[k]) = IF e[k] = "cancelled" THEN {} ELSE {given[s[k].id]}
             /\ \A x \in ToSet(ss[k]) : e[k] # "cancelled" /\ x = given[s[k].id]
             /\ \A j \in 1..Len(ss[k]) : j = 1 /\ e[k] # "cancelled" /\ ss[k][j] = given[s[k].id]
  <2>1. PICK x, q : x = given[s[k].id] /\ q = ss[k]
    OBVIOUS
  <2>2. q = IF e[k] = "cancelled" THEN <<>> ELSE <<x>>
    BY <1>4, <2>1
  <2>3. CASE e[k] = "cancelled"
    <3>1. q = <<>>
      BY <2>2, <2>3
    <3>2. IsListed(q) /\ ToSet(q) = {} /\ Len(q) = 0
      BY <3>1, OneIsListed
    <3>3. QED
      BY <2>1, <2>3, <3>2
  <2>4. CASE e[k] # "cancelled"
    <3>1. q = <<x>>
      BY <2>2, <2>4
    <3>2. IsListed(q) /\ ToSet(q) = {x} /\ Len(q) = 1 /\ q[1] = x
      BY <3>1, OneIsListed
    <3>3. QED
      BY <2>1, <2>4, <3>2
  <2>5. QED
    BY <2>3, <2>4
<1>7. AreLists(n, ss)
  BY <1>1, <1>2, <1>6 DEF AreLists
<1>8. PICK q : q = FlattenSeq(ss) /\ q = OrderedResults(pl, o)
  BY <1>1 DEF OrderedResults
<1>9. IsListed(q) /\ ToSet(q) = UNION {ToSet(ss[k]) : k \in 1..n}
  BY <1>7, <1>8, FlatMembers
<1>10. PICK P : P = {j \in 1..n : e[j] # "cancelled"} /\ Lists(ran, P)
  BY <1>1 DEF Handed
<1>11. PICK rs, l : rs = o.results /\ l = Len(rs) /\ rs \in Seq(Results) /\ l = Len(ran)
                    /\ \A i \in 1..l : rs[i] = given[s[ran[i]].id]
  BY <1>1, <1>3 DEF Collected
<1>12. \A x \in ToSet(q) : x \in Results /\ x.task \in TaskIds(s) /\ x = given[x.task] /\ x \in ToSet(rs)
  <2>1. ASSUME NEW x \in ToSet(q)
        PROVE  x \in Results /\ x.task \in TaskIds(s) /\ x = given[x.task] /\ x \in ToSet(rs)
    <3>1. PICK k \in 1..n : x \in ToSet(ss[k])
      BY <1>9
    <3>2. e[k] # "cancelled" /\ x = given[s[k].id]
      BY <1>6, <3>1
    <3>3. PICK i \in 1..l : ran[i] = k
      BY <1>10, <1>11, <3>2 DEF Lists
    <3>4. rs[i] = x
      BY <1>11, <3>2, <3>3
    <3>5. x \in ToSet(rs)
      BY <1>11, <3>4, ListOf
    <3>6. QED
      BY <1>5, <3>2, <3>5
  <2>2. QED
    BY <2>1
<1>13. \A x \in ToSet(rs) : x \in ToSet(q)
  <2>1. ASSUME NEW x \in ToSet(rs)
        PROVE  x \in ToSet(q)
    <3>0. rs \in Seq(Results)
      BY <1>11
    <3>1. PICK i \in 1..Len(rs) : x = rs[i]
      BY <2>1, <3>0, ListOf
    <3>2. ran[i] \in P
      BY <1>10, <1>11, <3>1 DEF Lists
    <3>3. PICK k \in 1..n : k = ran[i] /\ e[k] # "cancelled"
      BY <1>10, <3>2
    <3>4. x = given[s[k].id]
      BY <1>11, <3>1, <3>3
    <3>5. x \in ToSet(ss[k])
      BY <1>6, <3>3, <3>4
    <3>6. QED
      BY <1>9, <3>5
  <2>2. QED
    BY <2>1
<1>14. q \in Seq(Results)
  <2>1. PICK T : T = ToSet(q)
    OBVIOUS
  <2>2. q \in Seq(T) /\ T \subseteq Results
    BY <1>9, <1>12, <2>1 DEF IsListed
  <2>3. QED
    BY <2>2
<1>15. TasksApart(q)
  <2>1. PICK X : ss \in Seq(Seq(X)) /\ Len(ss) = n
    BY <1>7, ListsAreSeqs
  <2>2. PICK off : LaidOut(off, n, ss, q)
    BY <1>8, <2>1, FlatPlaces
  <2>3. ASSUME NEW p \in 1..Len(q)
        PROVE  \E k \in 1..n : p = off[k] + 1 /\ q[p].task = s[k].id
    <3>1. PICK k \in 1..n : \E j \in 1..Len(ss[k]) : p = off[k] + j
      BY <2>2 DEF LaidOut
    <3>2. PICK j \in 1..Len(ss[k]) : p = off[k] + j
      BY <3>1
    <3>3. q[off[k] + j] = ss[k][j]
      BY <2>2 DEF LaidOut
    <3>4. j = 1 /\ ss[k][j] = given[s[k].id]
      BY <1>6
    <3>5. QED
      BY <1>5, <3>2, <3>3, <3>4
  <2>4. ASSUME NEW i \in 1..Len(q), NEW j \in 1..Len(q), q[i].task = q[j].task
        PROVE  i = j
    <3>1. PICK k \in 1..n : i = off[k] + 1 /\ q[i].task = s[k].id
      BY <2>3
    <3>2. PICK m \in 1..n : j = off[m] + 1 /\ q[j].task = s[m].id
      BY <2>3
    <3>3. k = m
      BY <1>1, <2>4, <3>1, <3>2 DEF IdsApart
    <3>4. QED
      BY <3>1, <3>2, <3>3
  <2>5. QED
    BY <2>4 DEF TasksApart
<1>16. QED
  BY <1>1, <1>8, <1>11, <1>12, <1>13, <1>14, <1>15

(* The links are the URIs that are not missing, none of them twice.           *)
LEMMA LinksApart ==
  ASSUME NEW s \in Seq(Pieces), Apart(s)
  PROVE  LET cited == Chosen(s, {i \in DOMAIN s : s[i].uri # NoUri})
         IN IsInjective([i \in DOMAIN cited |-> cited[i].uri])
<1>1. PICK places : places = {i \in DOMAIN s : s[i].uri # NoUri}
  OBVIOUS
<1>2. PICK c, pos : c = Chosen(s, places) /\ c \in Seq(Pieces) /\ ChosenAt(pos, c, s, places, Len(s))
  BY ChosenPlaces, ChosenFacts
<1>3. PICK l, m : l = Len(c) /\ m = Len(s) /\ l \in Nat /\ m \in Nat /\ DOMAIN c = 1..l
  BY <1>2
<1>4. /\ \A n \in 1..l : pos[n] \in 1..m /\ pos[n] \in places /\ c[n] = s[pos[n]]
      /\ \A i, n \in 1..l : i < n => pos[i] < pos[n]
  BY <1>2, <1>3 DEF ChosenAt
<1>5. ASSUME NEW i \in 1..l, NEW n \in 1..l, c[i].uri = c[n].uri
      PROVE  i = n
  <2>1. s[pos[i]].uri = s[pos[n]].uri /\ s[pos[i]].uri # NoUri
    BY <1>1, <1>4, <1>5
  <2>2. pos[i] = pos[n] /\ pos[i] \in Nat
    BY <1>3, <1>4, <2>1 DEF Apart
  <2>3. ~ (i < n) /\ ~ (n < i)
    BY <1>4, <2>2
  <2>4. QED
    BY <1>3, <2>3
<1>6. PICK links : links = [i \in DOMAIN c |-> c[i].uri]
  OBVIOUS
<1>7. IsInjective(links)
  BY <1>3, <1>5, <1>6 DEF IsInjective
<1>8. QED
  BY <1>1, <1>2, <1>6, <1>7

(* The flattening of none and of one.                                         *)
LEMMA FlatOne ==
  ASSUME NEW a, IsListed(a)
  PROVE  FlattenSeq(<<a>>) = a /\ FlattenSeq(<<>>) = <<>>
<1>1. PICK T, V, ss, none : T = ToSet(a) /\ V = Seq(T) /\ ss = <<a>> /\ none = <<>>
  OBVIOUS
<1>2. a \in Seq(T)
  BY <1>1 DEF IsListed
<1>3. ss \in Seq(V) /\ Len(ss) = 1 /\ ss[1] = a /\ none \in Seq(V) /\ Len(none) = 0
  BY <1>1, <1>2
<1>4. PICK h : Flattening(h, ss) /\ FlattenSeq(ss) = h[Len(ss)]
  BY <1>1, <1>3, FlattenRecurrence
<1>5. h[0] = <<>> /\ h[1] = h[0] \o ss[1]
  <2>1. 1 \in 1..Len(ss) /\ 1 - 1 = 0
    BY <1>3
  <2>2. h[1] = h[1 - 1] \o ss[1]
    BY <1>4, <2>1 DEF Flattening
  <2>3. QED
    BY <1>4, <2>1, <2>2 DEF Flattening
<1>6. FlattenSeq(ss) = a
  BY <1>2, <1>3, <1>4, <1>5
<1>7. PICK g : Flattening(g, none) /\ FlattenSeq(none) = g[Len(none)]
  BY <1>1, <1>3, FlattenRecurrence
<1>8. FlattenSeq(none) = <<>>
  BY <1>3, <1>7 DEF Flattening
<1>9. QED
  BY <1>1, <1>6, <1>8

(* What the engine repeats of the task at k, and what is written of it.       *)
OptionalAt(pl, e, k) == IF e[k] # "completed" THEN <<Optional(pl.tasks[k].id)>> ELSE <<>>
SaidAt(pl, given, e, k) == IF e[k] = "cancelled" THEN <<>> ELSE Said(given[pl.tasks[k].id])

LEMMA SaidIsListed ==
  ASSUME NEW r \in Results
  PROVE  IsListed(Said(r))
<1>1. PICK a, b : a = PartialWarning(r) /\ b = r.warnings
  OBVIOUS
<1>2. IsListed(b)
  BY <1>1, ResultFacts
<1>3. IsListed(a)
  BY <1>1, OneIsListed DEF PartialWarning
<1>4. Said(r) = a \o b
  BY <1>1 DEF Said
<1>5. QED
  BY <1>2, <1>3, <1>4, JoinedIsListed

LEMMA RawAt ==
  ASSUME NEW pl, NEW given, NEW o, NEW e, NEW fail, NEW ran,
         Answering(pl, given), Handed(pl, o, given, e, fail, ran), NEW k \in 1..Len(pl.tasks)
  PROVE  /\ RawWarnings(pl, o, pl.tasks[k].id) = OptionalAt(pl, e, k) \o SaidAt(pl, given, e, k)
         /\ IsListed(OptionalAt(pl, e, k)) /\ IsListed(SaidAt(pl, given, e, k))
<1>1. PICK t, r, own : t = pl.tasks[k].id /\ r = given[t] /\ own = ResultOf(o, t)
  OBVIOUS
<1>2. r \in Results
  BY <1>1, EndKinds
<1>3. Owning(pl, o, given, e)
  BY HandedResults
<1>4. own = (IF e[k] = "cancelled" THEN <<>> ELSE <<r>>) /\ (Missing(o, t) <=> e[k] # "completed")
  BY <1>1, <1>3 DEF Owning
<1>5. PICK first, second, said :
        /\ first = OptionalAt(pl, e, k) /\ second = SaidAt(pl, given, e, k)
        /\ said = [i \in DOMAIN own |-> PartialWarning(own[i]) \o own[i].warnings]
  OBVIOUS
<1>6. IsListed(first) /\ IsListed(second)
  <2>1. first = <<Optional(t)>> \/ first = <<>>
    BY <1>1, <1>5 DEF OptionalAt
  <2>2. second = <<>> \/ second = Said(r)
    BY <1>1, <1>5 DEF SaidAt
  <2>3. QED
    BY <1>2, <2>1, <2>2, OneIsListed, SaidIsListed
<1>7. FlattenSeq(said) = second
  <2>1. CASE e[k] = "cancelled"
    <3>1. own = <<>> /\ second = <<>>
      BY <1>4, <1>5, <2>1 DEF SaidAt
    <3>2. said = <<>>
      BY <1>5, <3>1
    <3>3. QED
      BY <3>1, <3>2, <1>6, FlatOne
  <2>2. CASE e[k] # "cancelled"
    <3>1. own = <<r>> /\ second = Said(r)
      BY <1>1, <1>4, <1>5, <2>2 DEF SaidAt
    <3>2. PICK x : x = Said(r)
      OBVIOUS
    <3>3. DOMAIN own = 1..1 /\ \A i \in 1..1 : own[i] = r
      BY <3>1
    <3>4. said = [i \in 1..1 |-> x]
      BY <1>5, <3>2, <3>3 DEF Said
    <3>5. said = <<x>>
      BY <3>4
    <3>6. QED
      BY <1>6, <3>1, <3>2, <3>5, FlatOne
  <2>3. QED
    BY <2>1, <2>2
<1>8. RawWarnings(pl, o, t) = first \o FlattenSeq(said)
  <2>1. first = IF Missing(o, t) THEN << <<"optional step failed", t>> >> ELSE <<>>
    BY <1>1, <1>4, <1>5 DEF OptionalAt, Optional
  <2>2. QED
    BY <1>1, <1>5, <2>1, Zenon DEF RawWarnings
<1>9. QED
  BY <1>1, <1>5, <1>6, <1>7, <1>8

(* The lines of one result.                                                   *)
PartialLine(t, r) == IF r.status = "partial" THEN << <<"warning", t, <<"partial result", t>>>> >> ELSE <<>>
ErrorLine(t, r) ==
  IF r.error # NoError /\ r.status # "failed" THEN << <<"warning", t, <<"error", r.error>>>> >> ELSE <<>>
WarningLines(t, r) == [i \in DOMAIN r.warnings |-> <<"warning", t, r.warnings[i]>>]
LinesOf(t, r) == PartialLine(t, r) \o ErrorLine(t, r) \o WarningLines(t, r)

WarnsOf(q, t) == \A x \in ToSet(q) : x[1] = "warning" /\ x[2] = t

LEMMA WarnsOne ==
  ASSUME NEW t, NEW x, x[1] = "warning", x[2] = t
  PROVE  IsListed(<<x>>) /\ WarnsOf(<<x>>, t) /\ IsListed(<<>>) /\ WarnsOf(<<>>, t)
<1>1. IsListed(<<x>>) /\ ToSet(<<x>>) = {x} /\ IsListed(<<>>) /\ ToSet(<<>>) = {}
  BY OneIsListed
<1>2. WarnsOf(<<x>>, t)
  BY <1>1 DEF WarnsOf
<1>3. WarnsOf(<<>>, t)
  BY <1>1 DEF WarnsOf
<1>4. QED
  BY <1>1, <1>2, <1>3

LEMMA LinesFacts ==
  ASSUME NEW t, NEW r \in Results
  PROVE  /\ IsListed(LinesOf(t, r)) /\ WarnsOf(LinesOf(t, r), t)
         /\ IsListed(WarningLines(t, r)) /\ Embeds(WarningLines(t, r), LinesOf(t, r))
<1>1. PICK a, b, c, w : a = PartialLine(t, r) /\ b = ErrorLine(t, r) /\ c = WarningLines(t, r) /\ w = r.warnings
  OBVIOUS
<1>2. PICK x, y : x = <<"warning", t, <<"partial result", t>>>> /\ y = <<"warning", t, <<"error", r.error>>>>
  OBVIOUS
<1>3. x[1] = "warning" /\ x[2] = t /\ y[1] = "warning" /\ y[2] = t
  BY <1>2
<1>4. IsListed(a) /\ WarnsOf(a, t)
  <2>1. a = <<x>> \/ a = <<>>
    BY <1>1, <1>2 DEF PartialLine
  <2>2. QED
    BY <1>3, <2>1, WarnsOne
<1>5. IsListed(b) /\ WarnsOf(b, t)
  <2>1. b = <<y>> \/ b = <<>>
    BY <1>1, <1>2 DEF ErrorLine
  <2>2. QED
    BY <1>3, <2>1, WarnsOne
<1>6. IsListed(c) /\ WarnsOf(c, t)
  <2>1. IsListed(w)
    BY <1>1, ResultFacts
  <2>2. PICK l \in Nat : DOMAIN w = 1..l
    BY <2>1, ListedPlaces
  <2>3. c = [i \in 1..l |-> <<"warning", t, w[i]>>]
    BY <1>1, <2>2 DEF WarningLines
  <2>4. c = [i \in 1..l |-> c[i]] /\ \A i \in 1..l : c[i][1] = "warning" /\ c[i][2] = t
    BY <2>3
  <2>5. IsListed(c) /\ \A z \in ToSet(c) : \E i \in 1..l : z = c[i]
    BY <2>4, MappedIsListed
  <2>6. QED
    BY <2>4, <2>5 DEF WarnsOf
<1>7. PICK ab : ab = a \o b /\ IsListed(ab) /\ WarnsOf(ab, t)
  <2>1. PICK ab : ab = a \o b
    OBVIOUS
  <2>2. IsListed(ab) /\ ToSet(ab) \subseteq ToSet(a) \union ToSet(b)
    BY <1>4, <1>5, <2>1, JoinedIsListed
  <2>3. WarnsOf(ab, t)
    BY <1>4, <1>5, <2>2 DEF WarnsOf
  <2>4. QED
    BY <2>1, <2>2, <2>3
<1>8. PICK all : all = ab \o c /\ all = LinesOf(t, r)
  BY <1>1, <1>7 DEF LinesOf
<1>9. IsListed(all) /\ Embeds(c, all) /\ ToSet(all) = ToSet(ab) \union ToSet(c)
  BY <1>6, <1>7, <1>8, EmbedsInJoined
<1>10. WarnsOf(all, t)
  BY <1>6, <1>7, <1>9 DEF WarnsOf
<1>11. QED
  BY <1>1, <1>6, <1>8, <1>9, <1>10

(* The lines written for the task at k: each with its name, all warnings of   *)
(* its result among them.                                                     *)
LEMMA LinesAt ==
  ASSUME NEW pl, NEW given, NEW o, NEW e, NEW fail, NEW ran,
         Answering(pl, given), Handed(pl, o, given, e, fail, ran), NEW k \in 1..Len(pl.tasks)
  PROVE  LET t == pl.tasks[k].id
         IN /\ IsListed(TaskWarnings(pl, o, t)) /\ WarnsOf(TaskWarnings(pl, o, t), t)
            /\ e[k] # "cancelled" => Embeds(WarningLines(t, given[t]), TaskWarnings(pl, o, t))
<1>1. PICK t, r, own : t = pl.tasks[k].id /\ r = given[t] /\ own = ResultOf(o, t)
  OBVIOUS
<1>2. r \in Results
  BY <1>1, EndKinds
<1>3. Owning(pl, o, given, e)
  BY HandedResults
<1>4. own = IF e[k] = "cancelled" THEN <<>> ELSE <<r>>
  BY <1>1, <1>3 DEF Owning
<1>5. PICK code : code = IF own = <<>> THEN "dependency_failed" ELSE own[1].error
  OBVIOUS
<1>6. PICK x : x = <<"warning", t, <<"optional step failed", code>>>> /\ x[1] = "warning" /\ x[2] = t
  <2>1. PICK x : x = <<"warning", t, <<"optional step failed", code>>>>
    OBVIOUS
  <2>2. x[1] = "warning" /\ x[2] = t
    BY <2>1
  <2>3. QED
    BY <2>1, <2>2
<1>7. PICK first, lines :
        /\ first = IF Missing(o, t) THEN <<x>> ELSE <<>>
        /\ lines = [i \in DOMAIN own |-> LinesOf(t, own[i])]
  OBVIOUS
<1>8. TaskWarnings(pl, o, t) = first \o FlattenSeq(lines)
  <2>1. first = IF Missing(o, t) THEN << <<"warning", t, <<"optional step failed", code>>>> >> ELSE <<>>
    BY <1>6, <1>7
  <2>2. lines = [i \in DOMAIN own |->
          (IF own[i].status = "partial" THEN << <<"warning", t, <<"partial result", t>>>> >> ELSE <<>>)
          \o (IF own[i].error # NoError /\ own[i].status # "failed"
              THEN << <<"warning", t, <<"error", own[i].error>>>> >> ELSE <<>>)
          \o [j \in DOMAIN own[i].warnings |-> <<"warning", t, own[i].warnings[j]>>]]
    BY <1>7, Zenon DEF LinesOf, PartialLine, ErrorLine, WarningLines
  <2>3. QED
    BY <1>1, <1>5, <2>1, <2>2, Zenon DEF TaskWarnings
<1>9. IsListed(first) /\ WarnsOf(first, t)
  <2>1. first = <<x>> \/ first = <<>>
    BY <1>7
  <2>2. QED
    BY <1>6, <2>1, WarnsOne
<1>10. PICK rest : rest = FlattenSeq(lines)
  OBVIOUS
<1>11. /\ IsListed(rest) /\ WarnsOf(rest, t)
       /\ e[k] # "cancelled" => rest = LinesOf(t, r)
  <2>1. CASE e[k] = "cancelled"
    <3>1. own = <<>>
      BY <1>4, <2>1
    <3>2. lines = <<>>
      BY <1>7, <3>1
    <3>3. rest = <<>>
      BY <1>10, <3>2, OneIsListed, FlatOne
    <3>4. QED
      BY <2>1, <3>3, OneIsListed DEF WarnsOf
  <2>2. CASE e[k] # "cancelled"
    <3>1. own = <<r>>
      BY <1>4, <2>2
    <3>2. PICK z : z = LinesOf(t, r) /\ IsListed(z) /\ WarnsOf(z, t)
      BY <1>2, LinesFacts
    <3>3. DOMAIN own = 1..1 /\ \A i \in 1..1 : own[i] = r
      BY <3>1
    <3>4. lines = [i \in 1..1 |-> z]
      BY <1>7, <3>2, <3>3
    <3>5. lines = <<z>>
      BY <3>4
    <3>6. rest = z
      BY <1>10, <3>2, <3>5, FlatOne
    <3>7. QED
      BY <3>2, <3>6
  <2>3. QED
    BY <2>1, <2>2
<1>12. PICK all : all = first \o rest
  OBVIOUS
<1>13. IsListed(all) /\ Embeds(rest, all) /\ ToSet(all) = ToSet(first) \union ToSet(rest)
  BY <1>9, <1>11, <1>12, EmbedsInJoined
<1>14. WarnsOf(all, t)
  BY <1>9, <1>11, <1>13 DEF WarnsOf
<1>15. e[k] # "cancelled" => Embeds(WarningLines(t, r), all)
  <2>1. SUFFICES ASSUME e[k] # "cancelled" PROVE Embeds(WarningLines(t, r), all)
    OBVIOUS
  <2>2. Embeds(WarningLines(t, r), rest)
    BY <1>2, <1>11, <2>1, LinesFacts
  <2>3. QED
    BY <1>13, <2>2, EmbedsOnward
<1>16. QED
  BY <1>1, <1>8, <1>10, <1>12, <1>13, <1>14, <1>15

(* The places of two lists joined.                                            *)
LEMMA JoinedAt ==
  ASSUME NEW a, NEW b, IsListed(a), IsListed(b)
  PROVE  /\ Len(a) \in Nat /\ Len(b) \in Nat /\ Len(a \o b) = Len(a) + Len(b)
         /\ (\A i \in 1..Len(a) : (a \o b)[i] = a[i]) /\ \A i \in 1..Len(b) : (a \o b)[Len(a) + i] = b[i]
<1>1. PICK A, B, T : A = ToSet(a) /\ B = ToSet(b) /\ T = A \union B
  OBVIOUS
<1>2. a \in Seq(A) /\ b \in Seq(B) /\ A \subseteq T /\ B \subseteq T
  BY <1>1 DEF IsListed
<1>3. a \in Seq(T) /\ b \in Seq(T)
  BY <1>2
<1>4. Len(a) \in Nat /\ Len(b) \in Nat
  BY <1>3
<1>5. QED
  BY <1>3, <1>4, JoinedPlaces

KnownWarnings(pl, o) == FlattenSeq([k \in DOMAIN pl.tasks |-> RawWarnings(pl, o, pl.tasks[k].id)])

(* Every warning of the engine is one of a task's, none of them twice.        *)
LEMMA WarningsKnown ==
  ASSUME NEW pl, NEW given, NEW o, NEW e, NEW fail, NEW ran,
         Answering(pl, given), Handed(pl, o, given, e, fail, ran)
  PROVE  IsListed(o.warnings) /\ IsListed(KnownWarnings(pl, o)) /\ Embeds(o.warnings, KnownWarnings(pl, o))
<1>1. PICK s, n, raws, oa, sa :
        /\ s = pl.tasks /\ n = Len(s) /\ IsListed(s)
        /\ raws = [k \in DOMAIN s |-> RawWarnings(pl, o, s[k].id)]
        /\ oa = [k \in DOMAIN s |-> OptionalAt(pl, e, k)] /\ sa = [k \in DOMAIN s |-> SaidAt(pl, given, e, k)]
  BY DEF Answering
<1>2. n \in Nat /\ DOMAIN s = 1..n
  BY <1>1, ListedPlaces
<1>3. \A k \in 1..n : raws[k] = oa[k] \o sa[k] /\ IsListed(oa[k]) /\ IsListed(sa[k])
  BY <1>1, <1>2, RawAt
<1>4. \A k \in 1..n : /\ IsListed(raws[k]) /\ Len(oa[k]) \in Nat /\ Len(sa[k]) \in Nat
                      /\ Len(raws[k]) = Len(oa[k]) + Len(sa[k])
                      /\ \A i \in 1..Len(oa[k]) : raws[k][i] = oa[k][i]
                      /\ \A i \in 1..Len(sa[k]) : raws[k][Len(oa[k]) + i] = sa[k][i]
  <2>1. ASSUME NEW k \in 1..n
        PROVE  /\ IsListed(raws[k]) /\ Len(oa[k]) \in Nat /\ Len(sa[k]) \in Nat
               /\ Len(raws[k]) = Len(oa[k]) + Len(sa[k])
               /\ \A i \in 1..Len(oa[k]) : raws[k][i] = oa[k][i]
               /\ \A i \in 1..Len(sa[k]) : raws[k][Len(oa[k]) + i] = sa[k][i]
    <3>1. PICK a, b : a = oa[k] /\ b = sa[k] /\ IsListed(a) /\ IsListed(b) /\ raws[k] = a \o b
      BY <1>3
    <3>2. /\ IsListed(a \o b) /\ Len(a) \in Nat /\ Len(b) \in Nat /\ Len(a \o b) = Len(a) + Len(b)
          /\ (\A i \in 1..Len(a) : (a \o b)[i] = a[i]) /\ \A i \in 1..Len(b) : (a \o b)[Len(a) + i] = b[i]
      <4>1. IsListed(a) /\ IsListed(b)
        BY <3>1
      <4>2. IsListed(a \o b)
        BY <4>1, JoinedIsListed
      <4>3. QED
        BY <4>1, <4>2, JoinedAt
    <3>3. QED
      BY <3>1, <3>2
  <2>2. QED
    BY <2>1
<1>5. AreLists(n, raws)
  BY <1>1, <1>2, <1>4 DEF AreLists
<1>6. PICK lf, lr, bad, good :
        /\ lf = Len(fail) /\ lr = Len(ran)
        /\ bad = {j \in 1..n : e[j] # "completed"} /\ good = {j \in 1..n : e[j] # "cancelled"}
        /\ Lists(fail, bad) /\ Lists(ran, good)
  BY <1>1 DEF Handed
<1>7. /\ lf \in Nat /\ (\A i \in 1..lf : fail[i] \in bad) /\ (\A i, j \in 1..lf : fail[i] = fail[j] => i = j)
      /\ lr \in Nat /\ (\A i \in 1..lr : ran[i] \in good) /\ (\A i, j \in 1..lr : ran[i] = ran[j] => i = j)
  BY <1>6 DEF Lists
<1>8. PICK A, bs : /\ A = [i \in 1..lf |-> Optional(s[fail[i]].id)]
                   /\ bs = [i \in 1..lr |-> Said(given[s[ran[i]].id])]
  OBVIOUS
<1>9. IsListed(A) /\ Len(A) = lf
  <2>1. A = [i \in 1..lf |-> A[i]]
    BY <1>8
  <2>2. QED
    BY <1>7, <2>1, MappedIsListed
<1>10. \A k \in bad : k \in 1..n /\ Len(oa[k]) = 1 /\ oa[k][1] = Optional(s[k].id)
  <2>1. ASSUME NEW k \in bad
        PROVE  k \in 1..n /\ Len(oa[k]) = 1 /\ oa[k][1] = Optional(s[k].id)
    <3>1. PICK x : x = Optional(s[k].id)
      OBVIOUS
    <3>2. k \in 1..n /\ oa[k] = <<x>>
      BY <1>1, <1>2, <1>6, <3>1 DEF OptionalAt
    <3>3. QED
      BY <3>1, <3>2, OneIsListed
  <2>2. QED
    BY <2>1
<1>11. \A k \in good : k \in 1..n /\ sa[k] = Said(given[s[k].id])
  BY <1>1, <1>2, <1>6 DEF SaidAt
<1>12. AreLists(lr, bs)
  <2>1. \A m \in 1..lr : bs[m] = sa[ran[m]] /\ IsListed(bs[m])
    BY <1>3, <1>7, <1>8, <1>11
  <2>2. bs = [m \in 1..lr |-> bs[m]]
    BY <1>8
  <2>3. QED
    BY <1>7, <2>1, <2>2 DEF AreLists
<1>13. PICK B, off : B = FlattenSeq(bs) /\ LaidOut(off, lr, bs, B)
  <2>1. PICK X : bs \in Seq(Seq(X)) /\ Len(bs) = lr
    BY <1>12, ListsAreSeqs
  <2>2. QED
    BY <2>1, FlatPlaces
<1>14. IsListed(B)
  BY <1>12, <1>13, FlatMembers
<1>15. PICK w, lw : w = o.warnings /\ lw = Len(w) /\ w = A \o B
  BY <1>1, <1>6, <1>8, <1>13 DEF Handed
<1>16. /\ IsListed(w) /\ Len(B) \in Nat /\ lw = lf + Len(B)
       /\ (\A i \in 1..lf : w[i] = A[i]) /\ \A i \in 1..Len(B) : w[lf + i] = B[i]
  BY <1>9, <1>14, <1>15, JoinedAt, JoinedIsListed
<1> DEFINE First(p, k, j) == p \in 1..lf /\ k = fail[p] /\ j = 1
           Second(p, k, j) == \E m \in 1..lr : \E i \in 1..Len(bs[m]) :
                                p = lf + (off[m] + i) /\ k = ran[m] /\ j = Len(oa[k]) + i
           Match(p, k, j) == First(p, k, j) \/ Second(p, k, j)
           Good(p, k, j) == j \in 1..Len(raws[k]) /\ Match(p, k, j) /\ raws[k][j] = w[p]
<1>17. ASSUME NEW p \in 1..lw
       PROVE  \E k \in 1..n : \E j : Good(p, k, j)
  <2>1. CASE p <= lf
    <3>1. p \in 1..lf
      BY <1>7, <1>16, <2>1
    <3>2. PICK k \in bad : k = fail[p]
      BY <1>7, <3>1
    <3>3. k \in 1..n /\ Len(oa[k]) = 1 /\ oa[k][1] = Optional(s[k].id)
      BY <1>10
    <3>4. PICK c : c = Len(sa[k]) /\ c \in Nat /\ Len(raws[k]) = 1 + c /\ raws[k][1] = oa[k][1]
      <4>1. PICK c, d : c = Len(sa[k]) /\ d = Len(oa[k]) /\ d = 1
        BY <3>3
      <4>2. /\ Len(sa[k]) \in Nat /\ Len(raws[k]) = Len(oa[k]) + Len(sa[k])
            /\ \A i \in 1..Len(oa[k]) : raws[k][i] = oa[k][i]
        BY <1>4, <3>3
      <4>3. c \in Nat /\ Len(raws[k]) = d + c /\ \A i \in 1..d : raws[k][i] = oa[k][i]
        BY <4>1, <4>2
      <4>4. 1 \in 1..d
        BY <4>1
      <4>5. QED
        BY <4>1, <4>3, <4>4
    <3>5. 1 \in 1..Len(raws[k])
      BY <3>4
    <3>6. w[p] = raws[k][1]
      BY <1>8, <1>16, <3>1, <3>2, <3>3, <3>4
    <3>7. First(p, k, 1)
      BY <3>1, <3>2
    <3> HIDE DEF First, Second
    <3>8. Good(p, k, 1)
      BY <3>5, <3>6, <3>7
    <3>9. QED
      BY <3>3, <3>8
  <2>2. CASE ~ (p <= lf)
    <3>1. PICK b : b = Len(B) /\ b \in Nat
      BY <1>16
    <3>2. PICK q \in 1..b : p = lf + q
      <4>1. p - lf \in 1..b /\ p = lf + (p - lf)
        BY <1>7, <1>16, <2>2, <3>1
      <4>2. QED
        BY <4>1
    <3>3. PICK m \in 1..lr : \E i \in 1..Len(bs[m]) : q = off[m] + i
      BY <1>13, <3>1 DEF LaidOut
    <3>4. PICK i \in 1..Len(bs[m]) : q = off[m] + i
      BY <3>3
    <3>5. B[q] = bs[m][i]
      BY <1>13, <3>4 DEF LaidOut
    <3>6. PICK k \in good : k = ran[m]
      BY <1>7
    <3>7. k \in 1..n /\ bs[m] = sa[k]
      BY <1>8, <1>11, <3>6
    <3>8. PICK c, d, j : c = Len(oa[k]) /\ d = Len(sa[k]) /\ j = c + i
      OBVIOUS
    <3>9. c \in Nat /\ d \in Nat /\ Len(raws[k]) = c + d /\ i \in 1..d /\ raws[k][c + i] = sa[k][i]
      BY <1>4, <3>7, <3>8
    <3>10. j \in 1..Len(raws[k]) /\ raws[k][j] = sa[k][i]
      <4>1. PICK z : z = Len(raws[k]) /\ z = c + d
        BY <3>9
      <4>2. c \in Nat /\ d \in Nat /\ i \in 1..d
        BY <3>1, <3>7, <3>8, <3>9, <1>4
      <4>3. c + i \in 1..(c + d)
        BY <4>2
      <4>4. QED
        BY <3>8, <3>9, <4>1, <4>3
    <3>11. w[p] = raws[k][j]
      BY <1>16, <3>1, <3>2, <3>5, <3>7, <3>10
    <3>12. Second(p, k, j)
      BY <3>2, <3>4, <3>6, <3>8
    <3> HIDE DEF First, Second
    <3>13. Good(p, k, j)
      BY <3>10, <3>11, <3>12
    <3>14. QED
      BY <3>7, <3>13
  <2>3. QED
    BY <2>1, <2>2
<1>18. ASSUME NEW p, NEW q, NEW k, NEW j, First(p, k, j), First(q, k, j)
       PROVE  p = q
  BY <1>7, <1>18
<1>19. ASSUME NEW p, NEW q, NEW k, NEW j, First(p, k, j), Second(q, k, j)
       PROVE  FALSE
  <2>1. k \in bad /\ j = 1
    BY <1>7, <1>19
  <2>2. Len(oa[k]) = 1
    BY <1>10, <2>1
  <2>3. PICK m \in 1..lr : \E i \in 1..Len(bs[m]) : k = ran[m] /\ j = Len(oa[k]) + i
    BY <1>19
  <2>4. PICK i \in 1..Len(bs[m]) : j = 1 + i
    BY <2>2, <2>3
  <2>5. Len(bs[m]) \in Nat
    BY <1>12, ListedPlaces DEF AreLists
  <2>6. QED
    BY <2>1, <2>4, <2>5
<1>20. ASSUME NEW p, NEW q, NEW k, NEW j, Second(p, k, j), Second(q, k, j)
       PROVE  p = q
  <2>1. PICK m \in 1..lr : \E i \in 1..Len(bs[m]) : p = lf + (off[m] + i) /\ k = ran[m] /\ j = Len(oa[k]) + i
    BY <1>20
  <2>2. PICK i \in 1..Len(bs[m]) : p = lf + (off[m] + i) /\ k = ran[m] /\ j = Len(oa[k]) + i
    BY <2>1
  <2>3. PICK l \in 1..lr : \E h \in 1..Len(bs[l]) : q = lf + (off[l] + h) /\ k = ran[l] /\ j = Len(oa[k]) + h
    BY <1>20
  <2>4. PICK h \in 1..Len(bs[l]) : q = lf + (off[l] + h) /\ k = ran[l] /\ j = Len(oa[k]) + h
    BY <2>3
  <2>5. m = l
    BY <1>7, <2>2, <2>4
  <2>6. PICK c : c = Len(oa[k]) /\ c \in Nat
    BY <1>4, <1>7, <1>11, <2>2
  <2>7. Len(bs[m]) \in Nat
    BY <1>12, ListedPlaces DEF AreLists
  <2>8. i = h
    <3>1. j = c + i /\ j = c + h /\ i \in Int /\ h \in Int
      BY <2>2, <2>4, <2>5, <2>6, <2>7
    <3>2. QED
      BY <2>6, <3>1
  <2>9. QED
    BY <2>2, <2>4, <2>5, <2>8
<1> HIDE DEF First, Second
<1>21. \A p, q, k, j : Match(p, k, j) /\ Match(q, k, j) => p = q
  BY <1>18, <1>19, <1>20
<1> HIDE DEF Good
<1>22. PICK kf : kf = [p \in 1..lw |-> CHOOSE k \in 1..n : \E j : Good(p, k, j)]
  OBVIOUS
<1>23. \A p \in 1..lw : kf[p] \in 1..n /\ \E j : Good(p, kf[p], j)
  BY <1>17, <1>22
<1>24. PICK jf : jf = [p \in 1..lw |-> CHOOSE j : Good(p, kf[p], j)]
  OBVIOUS
<1>25. \A p \in 1..lw : kf[p] \in 1..n /\ Good(p, kf[p], jf[p])
  BY <1>23, <1>24
<1>26. \A p \in 1..lw : /\ jf[p] \in 1..Len(raws[kf[p]]) /\ raws[kf[p]][jf[p]] = w[p]
                        /\ Match(p, kf[p], jf[p])
  BY <1>25 DEF Good
<1> HIDE DEF Match
<1>27. Finds(kf, jf, w, n, raws)
  <2>1. ASSUME NEW p \in 1..lw, NEW q \in 1..lw, kf[p] = kf[q], jf[p] = jf[q]
        PROVE  p = q
    <3>1. Match(p, kf[p], jf[p]) /\ Match(q, kf[p], jf[p])
      BY <1>26, <2>1
    <3>2. QED
      BY <1>21, <3>1
  <2>2. QED
    BY <1>15, <1>25, <1>26, <2>1 DEF Finds
<1>28. Embeds(w, FlattenSeq(raws)) /\ IsListed(FlattenSeq(raws))
  BY <1>5, <1>16, <1>27, EmbedsInFlat
<1>29. KnownWarnings(pl, o) = FlattenSeq(raws)
  BY <1>1 DEF KnownWarnings
<1>30. QED
  BY <1>15, <1>16, <1>28, <1>29

(* So none is left for the Run.                                               *)
LEMMA PrefixEmbeds ==
  ASSUME NEW T, NEW w \in Seq(T), NEW i \in 1..Len(w)
  PROVE  SubSeq(w, 1, i) \in Seq(T) /\ Embeds(SubSeq(w, 1, i), w)
<1>1. PICK n, q : n = Len(w) /\ q = SubSeq(w, 1, i)
  OBVIOUS
<1>2. n \in Nat /\ i \in Nat /\ i <= n
  BY <1>1
<1>3. q \in Seq(T) /\ Len(q) = i /\ \A k \in 1..i : q[k] = w[k] /\ k \in 1..n
  <2>1. 1 \in Int /\ i \in Int /\ \A k \in 1..i : k \in 1..n /\ w[k] \in T
    BY <1>1, <1>2
  <2>2. /\ q \in Seq(T) /\ Len(q) = IF 1 <= i THEN i - 1 + 1 ELSE 0
        /\ \A k \in 1..(i - 1 + 1) : q[k] = w[1 + k - 1]
    BY <1>1, <2>1, SubSeqProperties
  <2>3. QED
    BY <1>2, <2>1, <2>2
<1>4. PICK f : f = [k \in 1..i |-> k]
  OBVIOUS
<1>5. Spread(f, q, w)
  <2>1. \A k \in 1..i : f[k] = k /\ f[k] \in 1..n
    BY <1>3, <1>4
  <2>2. f \in [1..i -> 1..n]
    BY <1>4, <2>1
  <2>3. QED
    BY <1>1, <1>3, <2>1, <2>2 DEF Spread
<1>6. QED
  BY <1>1, <1>3, <1>5 DEF Embeds

LEMMA NoneLeft ==
  ASSUME NEW pl, NEW given, NEW o, NEW e, NEW fail, NEW ran,
         Answering(pl, given), Handed(pl, o, given, e, fail, ran)
  PROVE  CollectWarnings(pl, o) = FlattenSeq([k \in DOMAIN pl.tasks |-> TaskWarnings(pl, o, pl.tasks[k].id)])
<1>1. PICK w, known, T, K : /\ w = o.warnings /\ known = KnownWarnings(pl, o) /\ T = ToSet(w) /\ K = ToSet(known)
                            /\ IsListed(w) /\ IsListed(known) /\ Embeds(w, known)
  BY WarningsKnown
<1>2. w \in Seq(T) /\ known \in Seq(K)
  BY <1>1 DEF IsListed
<1>3. PICK places : places = {i \in DOMAIN w : TimesIn(SubSeq(w, 1, i), w[i]) > TimesIn(known, w[i])}
  OBVIOUS
<1>4. \A i \in 1..Len(w) : i \notin places
  <2>1. ASSUME NEW i \in 1..Len(w)
        PROVE  i \notin places
    <3>1. PICK q, x : q = SubSeq(w, 1, i) /\ x = w[i] /\ q \in Seq(T) /\ Embeds(q, w)
      BY <1>2, PrefixEmbeds
    <3>2. TimesIn(q, x) \in Nat /\ TimesIn(w, x) \in Nat /\ TimesIn(q, x) <= TimesIn(w, x)
      BY <1>2, <3>1, EmbeddedCounts
    <3>3. TimesIn(known, x) \in Nat /\ TimesIn(w, x) <= TimesIn(known, x)
      BY <1>1, <1>2, EmbeddedCounts
    <3>4. ~ (TimesIn(q, x) > TimesIn(known, x))
      BY <3>2, <3>3
    <3>5. QED
      BY <1>3, <3>1, <3>4
  <2>2. QED
    BY <2>1
<1>5. Chosen(w, places) = <<>>
  BY <1>2, <1>4, ChosenNone
<1> DEFINE others == Chosen(o.warnings, {i \in DOMAIN o.warnings :
                       TimesIn(SubSeq(o.warnings, 1, i), o.warnings[i])
                         > TimesIn(FlattenSeq([k \in DOMAIN pl.tasks |-> RawWarnings(pl, o, pl.tasks[k].id)]), o.warnings[i])})
           last == [i \in DOMAIN others |-> <<"warning", "run", others[i]>>]
           lines == FlattenSeq([k \in DOMAIN pl.tasks |-> TaskWarnings(pl, o, pl.tasks[k].id)])
<1>6. others = <<>>
  BY <1>1, <1>3, <1>5 DEF KnownWarnings
<1>7. CollectWarnings(pl, o) = lines \o last
  BY Zenon DEF CollectWarnings
<1> HIDE DEF others, lines
<1>8. last = <<>>
  BY <1>6
<1>9. IsListed(lines)
  <2>1. PICK n, ss : n = Len(pl.tasks) /\ ss = [k \in DOMAIN pl.tasks |-> TaskWarnings(pl, o, pl.tasks[k].id)]
    OBVIOUS
  <2>2. DOMAIN pl.tasks = 1..n /\ n \in Nat
    <3>1. PICK s : s = pl.tasks /\ IsListed(s)
      BY DEF Answering
    <3>2. QED
      BY <2>1, <3>1, ListedPlaces
  <2>3. \A k \in 1..n : IsListed(ss[k])
    BY <2>1, <2>2, LinesAt
  <2>4. AreLists(n, ss)
    BY <2>1, <2>2, <2>3 DEF AreLists
  <2>5. QED
    BY <2>1, <2>4, FlatMembers DEF lines
<1>10. lines \o <<>> = lines
  <2>1. PICK q, S : q = lines /\ S = ToSet(q) /\ q \in Seq(S)
    BY <1>9 DEF IsListed
  <2>2. q \o <<>> = q
    BY <2>1
  <2>3. QED
    BY <2>1, <2>2
<1>11. QED
  BY <1>7, <1>8, <1>10 DEF lines

(* The lines of all tasks: none of the Run, all warnings of every result.     *)
LEMMA WarningTokens ==
  ASSUME NEW pl, NEW given, NEW o, NEW e, NEW fail, NEW ran,
         Answering(pl, given), Handed(pl, o, given, e, fail, ran), "run" \notin TaskIds(pl.tasks)
  PROVE  /\ IsListed(CollectWarnings(pl, o))
         /\ \A x \in ToSet(CollectWarnings(pl, o)) : x[1] = "warning" /\ x[2] # "run"
         /\ \A r \in ToSet(o.results) : Embeds(WarningLines(r.task, r), CollectWarnings(pl, o))
<1>1. PICK s, n, ss : /\ s = pl.tasks /\ n = Len(s) /\ IsListed(s)
                      /\ ss = [k \in DOMAIN pl.tasks |-> TaskWarnings(pl, o, pl.tasks[k].id)]
  BY DEF Answering
<1>2. n \in Nat /\ DOMAIN s = 1..n
  BY <1>1, ListedPlaces
<1>3. \A k \in 1..n : /\ IsListed(ss[k]) /\ WarnsOf(ss[k], s[k].id)
                      /\ e[k] # "cancelled" => Embeds(WarningLines(s[k].id, given[s[k].id]), ss[k])
  BY <1>1, <1>2, LinesAt
<1>4. AreLists(n, ss)
  BY <1>1, <1>2, <1>3 DEF AreLists
<1>5. PICK q : q = FlattenSeq(ss) /\ q = CollectWarnings(pl, o)
  BY <1>1, NoneLeft
<1>6. IsListed(q) /\ ToSet(q) = UNION {ToSet(ss[k]) : k \in 1..n}
  BY <1>4, <1>5, FlatMembers
<1>7. ASSUME NEW x \in ToSet(q)
      PROVE  x[1] = "warning" /\ x[2] # "run"
  <2>1. PICK k \in 1..n : x \in ToSet(ss[k])
    BY <1>6
  <2>2. x[1] = "warning" /\ x[2] = s[k].id
    BY <1>3, <2>1 DEF WarnsOf
  <2>3. s[k].id \in TaskIds(s)
    BY <1>2 DEF TaskIds
  <2>4. QED
    BY <1>1, <2>2, <2>3
<1>8. ASSUME NEW r \in ToSet(o.results)
      PROVE  Embeds(WarningLines(r.task, r), q)
  <2>1. Collected(pl, o, given, e, ran)
    BY HandedResults
  <2>2. PICK rs : rs = o.results /\ rs \in Seq(Results) /\ \A i \in 1..Len(rs) :
                    ran[i] \in 1..n /\ e[ran[i]] # "cancelled" /\ rs[i] = given[s[ran[i]].id]
    BY <1>1, <2>1 DEF Collected
  <2>3. rs \in Seq(Results)
    BY <2>2
  <2>4. PICK i \in 1..Len(rs) : r = rs[i]
    BY <2>2, <2>3, ListOf
  <2>5. PICK k \in 1..n : e[k] # "cancelled" /\ r = given[s[k].id]
    BY <2>2, <2>4
  <2>6. r.task = s[k].id
    BY <1>1, <2>5, EndKinds
  <2>7. Embeds(WarningLines(r.task, r), ss[k])
    BY <1>3, <2>5, <2>6
  <2>8. Embeds(ss[k], q)
    BY <1>4, <1>5, EachInFlat
  <2>9. QED
    BY <2>7, <2>8, EmbedsOnward
<1>9. QED
  BY <1>5, <1>6, <1>7, <1>8

LEMMA WarningsCounted ==
  ASSUME NEW r \in Results, NEW t, NEW m, IsListed(m), Embeds(WarningLines(t, r), m), NEW w
  PROVE  TimesIn(m, <<"warning", t, w>>) >= TimesIn(r.warnings, w)
<1>1. PICK a, b, l, A, B, M : a = r.warnings /\ b = WarningLines(t, r) /\ l = Len(a) /\ A = ToSet(a)
                              /\ B = ToSet(b) /\ M = ToSet(m)
  OBVIOUS
<1>2. IsListed(a) /\ IsListed(b)
  BY <1>1, ResultFacts, LinesFacts
<1>3. l \in Nat /\ DOMAIN a = 1..l
  BY <1>1, <1>2, ListedPlaces
<1>4. b = [i \in 1..l |-> <<"warning", t, a[i]>>]
  BY <1>1, <1>3 DEF WarningLines
<1>5. a \in Seq(A) /\ b \in Seq(B) /\ m \in Seq(M) /\ Len(b) = l
  <2>1. Len(b) = l
    BY <1>3, <1>4
  <2>2. QED
    BY <1>1, <1>2, <2>1 DEF IsListed
<1>6. PICK f, v : f = [i \in 1..l |-> i] /\ v = <<"warning", t, w>>
  OBVIOUS
<1>7. TimesIn(a, w) \in Nat /\ TimesIn(b, v) \in Nat /\ TimesIn(a, w) <= TimesIn(b, v)
  <2>1. f \in [1..Len(a) -> 1..Len(b)] /\ \A i, j \in 1..Len(a) : f[i] = f[j] => i = j
    BY <1>1, <1>5, <1>6
  <2>2. \A i \in 1..Len(a) : a[i] = w => b[f[i]] = v
    BY <1>1, <1>4, <1>6
  <2>3. QED
    BY <1>5, <2>1, <2>2, CountsCarried
<1>8. TimesIn(m, v) \in Nat /\ TimesIn(b, v) <= TimesIn(m, v)
  BY <1>1, <1>5, EmbeddedCounts
<1>9. TimesIn(m, v) >= TimesIn(a, w)
  BY <1>7, <1>8
<1>10. QED
  BY <1>1, <1>6, <1>9

(* A section: its numbers stand in a token of their own.                      *)
SourcesLine(r, ns) == <<"sources", r.task, ns>>

LEMMA SectionTokens ==
  ASSUME NEW r \in Results, NEW ns
  PROVE  /\ IsListed(Section(r, ns))
         /\ \A x \in ToSet(Section(r, ns)) :
              x[1] # "warning" /\ (x[1] = "sources" => x = SourcesLine(r, ns) /\ ns # <<>>)
         /\ ns # <<>> => SourcesLine(r, ns) \in ToSet(Section(r, ns))
<1>1. PICK h, a, m, y, b : /\ h = <<"heading", r.task>> /\ a = <<h>> /\ m = r.summary /\ y = SourcesLine(r, ns)
                           /\ b = IF ns = <<>> THEN <<>> ELSE <<y>>
  OBVIOUS
<1>2. h[1] = "heading"
  BY <1>1
<1>3. IsListed(a) /\ ToSet(a) = {h}
  BY <1>1, OneIsListed
<1>4. IsListed(b) /\ ToSet(b) = IF ns = <<>> THEN {} ELSE {y}
  BY <1>1, OneIsListed
<1>5. IsListed(m) /\ \A x \in ToSet(m) : x[1] # "warning" /\ x[1] # "sources"
  <2>1. IsListed(m)
    BY <1>1, ResultFacts, MarkdownIs
  <2>2. PICK t \in DOMAIN ResultsFor : r \in ResultsFor[t]
    BY DEF Results
  <2>3. IsResult(r)
    BY <2>2, AnswerAssumption
  <2>4. \A k \in DOMAIN m : m[k][1] \notin {"sources", "warning"}
    BY <1>1, <2>3 DEF IsResult
  <2>5. QED
    BY <2>1, <2>4, ListedPlaces
<1>6. PICK am : am = a \o m
  OBVIOUS
<1>7. IsListed(am) /\ ToSet(am) = ToSet(a) \union ToSet(m)
  BY <1>3, <1>5, <1>6, EmbedsInJoined
<1>8. PICK all : all = am \o b
  OBVIOUS
<1>9. IsListed(all) /\ ToSet(all) = ToSet(am) \union ToSet(b)
  BY <1>4, <1>7, <1>8, EmbedsInJoined
<1>10. Section(r, ns) = all
  <2>1. b = IF ns = <<>> THEN <<>> ELSE << <<"sources", r.task, ns>> >>
    BY <1>1 DEF SourcesLine
  <2>2. QED
    BY <1>1, <1>6, <1>8, <2>1, Zenon DEF Section
<1>11. y[1] = "sources"
  BY <1>1 DEF SourcesLine
<1>12. \A x \in ToSet(all) : x = h \/ x \in ToSet(m) \/ (x = y /\ ns # <<>>)
  BY <1>3, <1>4, <1>7, <1>9
<1>13. ns # <<>> => y \in ToSet(all)
  BY <1>4, <1>9
<1>14. \A x \in ToSet(all) : x[1] # "warning" /\ (x[1] = "sources" => x = y /\ ns # <<>>)
  BY <1>2, <1>5, <1>11, <1>12
<1>15. QED
  BY <1>1, <1>9, <1>10, <1>13, <1>14

(* What the body shows.                                                       *)
LEMMA BodyMembers ==
  ASSUME NEW pl, pl.composition = "deterministic", NEW o, OrderedResults(pl, o) \in Seq(Results)
  PROVE  /\ BodyResults(pl, o) \in Seq(Results)
         /\ ToSet(BodyResults(pl, o)) = {r \in ToSet(OrderedResults(pl, o)) : r.status # "failed"}
<1>1. PICK q, places : q = OrderedResults(pl, o) /\ places = {k \in DOMAIN q : q[k].status # "failed"}
  OBVIOUS
<1>2. q \in Seq(Results)
  BY <1>1
<1>3. PICK c, pos : c = Chosen(q, places) /\ c \in Seq(Results) /\ ChosenAt(pos, c, q, places, Len(q))
  BY <1>2, ChosenPlaces, ChosenFacts
<1>4. BodyResults(pl, o) = c
  BY <1>1, <1>3 DEF BodyResults
<1>5. PICK l : l = Len(q) /\ l \in Nat /\ DOMAIN q = 1..l
  BY <1>2
<1>6. c \in Seq(Results)
  BY <1>3
<1>7. \A x \in ToSet(c) : x \in ToSet(q) /\ x.status # "failed"
  <2>1. ASSUME NEW x \in ToSet(c)
        PROVE  x \in ToSet(q) /\ x.status # "failed"
    <3>1. PICK n \in 1..Len(c) : x = c[n]
      BY <1>6, <2>1, ListOf
    <3>2. pos[n] \in 1..l /\ pos[n] \in places /\ x = q[pos[n]]
      BY <1>3, <1>5, <3>1 DEF ChosenAt
    <3>3. QED
      BY <1>1, <1>2, <1>5, <3>2, ListOf
  <2>2. QED
    BY <2>1
<1>8. \A x \in ToSet(q) : x.status # "failed" => x \in ToSet(c)
  <2>1. ASSUME NEW x \in ToSet(q), x.status # "failed"
        PROVE  x \in ToSet(c)
    <3>1. PICK i \in 1..l : x = q[i]
      BY <1>2, <1>5, <2>1, ListOf
    <3>2. i \in places
      BY <1>1, <1>5, <2>1, <3>1
    <3>3. PICK n \in 1..Len(c) : pos[n] = i
      BY <1>3, <1>5, <3>2 DEF ChosenAt
    <3>4. c[n] = x
      BY <1>3, <3>1, <3>3 DEF ChosenAt
    <3>5. QED
      BY <1>6, <3>4, ListOf
  <2>2. QED
    BY <2>1
<1>9. QED
  BY <1>1, <1>4, <1>6, <1>7, <1>8

(* Sections in a row.                                                         *)
LEMMA SectionsTokens ==
  ASSUME NEW n \in Nat, NEW body, NEW ns, NEW ss, ss = [k \in 1..n |-> ss[k]],
         \A k \in 1..n : body[k] \in Results /\ ss[k] = Section(body[k], ns[k])
  PROVE  /\ IsListed(FlattenSeq(ss))
         /\ \A x \in ToSet(FlattenSeq(ss)) :
              x[1] # "warning" /\ (x[1] = "sources" => \E k \in 1..n : x = SourcesLine(body[k], ns[k]) /\ ns[k] # <<>>)
         /\ \A k \in 1..n : ns[k] # <<>> => SourcesLine(body[k], ns[k]) \in ToSet(FlattenSeq(ss))
<1>1. \A k \in 1..n : IsListed(ss[k])
  BY SectionTokens
<1>2. AreLists(n, ss)
  BY <1>1 DEF AreLists
<1>3. PICK q : q = FlattenSeq(ss) /\ IsListed(q) /\ ToSet(q) = UNION {ToSet(ss[k]) : k \in 1..n}
  BY <1>2, FlatMembers
<1>4. ASSUME NEW x \in ToSet(q)
      PROVE  x[1] # "warning" /\ (x[1] = "sources" => \E k \in 1..n : x = SourcesLine(body[k], ns[k]) /\ ns[k] # <<>>)
  <2>1. PICK k \in 1..n : x \in ToSet(ss[k])
    BY <1>3
  <2>2. x[1] # "warning" /\ (x[1] = "sources" => x = SourcesLine(body[k], ns[k]) /\ ns[k] # <<>>)
    BY <2>1, SectionTokens
  <2>3. QED
    BY <2>2
<1>5. ASSUME NEW k \in 1..n, ns[k] # <<>>
      PROVE  SourcesLine(body[k], ns[k]) \in ToSet(q)
  <2>1. SourcesLine(body[k], ns[k]) \in ToSet(ss[k])
    BY <1>5, SectionTokens
  <2>2. QED
    BY <1>3, <2>1
<1>6. QED
  BY <1>3, <1>4, <1>5

(* The whole text: its warnings are those of the tasks, and when it is        *)
(* deterministic its numbers are those of the results that did not fail.      *)
LEMMA RenderedTokens ==
  ASSUME NEW pl, NEW o, IsListed(CollectWarnings(pl, o)), OrderedResults(pl, o) \in Seq(Results),
         IsListed(pl.tasks), o.results \in Seq(Results),
         \A x \in ToSet(CollectWarnings(pl, o)) : x[1] = "warning" /\ x[2] # "run",
         NEW c, c = CollectEvidence(OrderedResults(pl, o))
  PROVE  /\ IsListed(RenderMarkdown(pl, o)) /\ Embeds(CollectWarnings(pl, o), RenderMarkdown(pl, o))
         /\ \A x \in ToSet(RenderMarkdown(pl, o)) : x[1] = "warning" => x[2] # "run"
         /\ pl.composition = "deterministic" =>
              /\ \A x \in ToSet(RenderMarkdown(pl, o)) : x[1] = "sources" =>
                   \E r \in ToSet(BodyResults(pl, o)) : x = SourcesLine(r, c.sources[r.task])
              /\ \A r \in ToSet(BodyResults(pl, o)) : c.sources[r.task] # <<>> =>
                   SourcesLine(r, c.sources[r.task]) \in ToSet(RenderMarkdown(pl, o))
<1> DEFINE body == BodyResults(pl, o)
           gathered == CollectEvidence(OrderedResults(pl, o))
           all == [i \in DOMAIN gathered.evidence |-> i]
           NumbersOf(r) == IF pl.composition = "synthesis_subagent" THEN all ELSE gathered.sources[r.task]
           head == <<"heading", "results">>
           empty == <<"text", "nothing completed">>
           sections == [k \in DOMAIN body |-> Section(body[k], NumbersOf(body[k]))]
           middle == IF body = <<>> THEN <<empty>> ELSE FlattenSeq(sections)
           W == CollectWarnings(pl, o)
           last == [i \in DOMAIN gathered.evidence |-> <<"source", i, gathered.evidence[i]>>]
<1>1. RenderMarkdown(pl, o) = <<head>> \o middle \o W \o last
  BY DEF RenderMarkdown
<1>2. body \in Seq(Results)
  BY BodyAreResults
<1>3. gathered = c
  OBVIOUS
<1>4. head[1] = "heading" /\ empty[1] = "text"
  OBVIOUS
<1> HIDE DEF body, gathered, all, head, empty
<1>5. PICK n : n = Len(body) /\ n \in Nat /\ DOMAIN body = 1..n /\ \A k \in 1..n : body[k] \in Results
  BY <1>2
<1>6. PICK ns : ns = [k \in 1..n |-> NumbersOf(body[k])]
  OBVIOUS
<1>7. pl.composition = "deterministic" => \A k \in 1..n : ns[k] = c.sources[body[k].task]
  BY <1>3, <1>6
<1>8. sections = [k \in 1..n |-> sections[k]] /\ \A k \in 1..n : sections[k] = Section(body[k], ns[k])
  BY <1>5, <1>6
<1> HIDE DEF sections, NumbersOf
<1>9. PICK F : /\ F = FlattenSeq(sections) /\ IsListed(F)
               /\ \A x \in ToSet(F) : x[1] # "warning" /\ (x[1] = "sources" =>
                                          \E k \in 1..n : x = SourcesLine(body[k], ns[k]) /\ ns[k] # <<>>)
               /\ \A k \in 1..n : ns[k] # <<>> => SourcesLine(body[k], ns[k]) \in ToSet(F)
  <2>1. n \in Nat /\ sections = [k \in 1..n |-> sections[k]]
        /\ \A k \in 1..n : body[k] \in Results /\ sections[k] = Section(body[k], ns[k])
    BY <1>5, <1>8
  <2>2. /\ IsListed(FlattenSeq(sections))
        /\ \A x \in ToSet(FlattenSeq(sections)) : x[1] # "warning" /\ (x[1] = "sources" =>
                                          \E k \in 1..n : x = SourcesLine(body[k], ns[k]) /\ ns[k] # <<>>)
        /\ \A k \in 1..n : ns[k] # <<>> => SourcesLine(body[k], ns[k]) \in ToSet(FlattenSeq(sections))
    BY <2>1, SectionsTokens
  <2>3. QED
    BY <2>2
<1>10. /\ IsListed(middle)
       /\ \A x \in ToSet(middle) : x[1] # "warning" /\ (x[1] = "sources" =>
                                          \E k \in 1..n : x = SourcesLine(body[k], ns[k]) /\ ns[k] # <<>>)
       /\ \A k \in 1..n : ns[k] # <<>> => SourcesLine(body[k], ns[k]) \in ToSet(middle)
  <2>1. CASE body = <<>>
    <3>1. middle = <<empty>> /\ n = 0
      BY <1>5, <2>1
    <3>2. IsListed(middle) /\ ToSet(middle) = {empty}
      BY <3>1, OneIsListed
    <3>3. QED
      BY <1>4, <3>1, <3>2
  <2>2. CASE body # <<>>
    <3>1. middle = F
      BY <1>9, <2>2
    <3>2. QED
      BY <1>9, <3>1
  <2>3. QED
    BY <2>1, <2>2
<1>11. IsListed(last) /\ \A x \in ToSet(last) : x[1] = "source"
  <2>1. PICK s, l : s = gathered.evidence /\ s \in Seq(Pieces) /\ l = Len(s)
    <3>1. gathered \in Gathered
      BY CollectNumbers DEF gathered
    <3>2. QED
      BY <3>1 DEF Gathered
  <2>2. DOMAIN s = 1..l /\ l \in Nat
    BY <2>1
  <2>3. last = [i \in 1..l |-> <<"source", i, s[i]>>]
    BY <2>1, <2>2
  <2> HIDE DEF last
  <2>4. last = [i \in 1..l |-> last[i]] /\ \A i \in 1..l : last[i][1] = "source"
    BY <2>3
  <2>5. IsListed(last) /\ \A x \in ToSet(last) : \E i \in 1..l : x = last[i]
    BY <2>2, <2>4, MappedIsListed
  <2>6. QED
    BY <2>4, <2>5
<1> HIDE DEF middle, last
<1>12. IsListed(W)
  OBVIOUS
<1>13. PICK a, b, m : a = <<head>> \o middle /\ b = a \o W /\ m = b \o last
  OBVIOUS
<1>14. m = RenderMarkdown(pl, o)
  BY <1>1, <1>13
<1> HIDE DEF W
<1>15. IsListed(a) /\ ToSet(a) = {head} \union ToSet(middle)
  <2>1. PICK z : z = <<head>> /\ IsListed(z) /\ ToSet(z) = {head}
    BY OneIsListed
  <2>2. IsListed(z \o middle) /\ ToSet(z \o middle) = ToSet(z) \union ToSet(middle)
    BY <1>10, <2>1, EmbedsInJoined
  <2>3. QED
    BY <1>13, <2>1, <2>2
<1>16. IsListed(b) /\ ToSet(b) = ToSet(a) \union ToSet(W) /\ Embeds(W, b)
  BY <1>12, <1>13, <1>15, EmbedsInJoined
<1>17. IsListed(m) /\ ToSet(m) = ToSet(b) \union ToSet(last) /\ Embeds(b, m)
  BY <1>11, <1>13, <1>16, EmbedsInJoined
<1>18. Embeds(W, m)
  BY <1>16, <1>17, EmbedsOnward
<1>19. \A x \in ToSet(m) : x = head \/ x \in ToSet(middle) \/ x \in ToSet(W) \/ x \in ToSet(last)
  BY <1>15, <1>16, <1>17
<1>20. \A x \in ToSet(W) : x[1] = "warning" /\ x[2] # "run"
  BY DEF W
<1>21. \A x \in ToSet(m) : x[1] = "warning" => x[2] # "run"
  BY <1>4, <1>10, <1>11, <1>19, <1>20
<1>22. \A x \in ToSet(m) : x[1] = "sources" => \E k \in 1..n : x = SourcesLine(body[k], ns[k])
  BY <1>4, <1>10, <1>11, <1>19, <1>20
<1>23. \A k \in 1..n : ns[k] # <<>> => SourcesLine(body[k], ns[k]) \in ToSet(m)
  BY <1>10, <1>15, <1>16, <1>17
<1>24. (\A k \in 1..n : body[k] \in ToSet(body)) /\ \A r \in ToSet(body) : \E k \in 1..n : r = body[k]
  BY <1>2, <1>5, ListOf
<1>25. ASSUME pl.composition = "deterministic"
       PROVE  /\ \A x \in ToSet(m) : x[1] = "sources" => \E r \in ToSet(body) : x = SourcesLine(r, c.sources[r.task])
              /\ \A r \in ToSet(body) : c.sources[r.task] # <<>> => SourcesLine(r, c.sources[r.task]) \in ToSet(m)
  <2>1. \A k \in 1..n : ns[k] = c.sources[body[k].task]
    BY <1>7, <1>25
  <2>2. QED
    BY <1>22, <1>23, <1>24, <2>1
<1>26. QED
  BY <1>14, <1>17, <1>18, <1>21, <1>25 DEF body, W

(* The candidate names what it is made of.                                    *)
Attributing(pl, o) ==
  LET candidate == OutputCandidate(pl, o)
      gathered == CollectEvidence(OrderedResults(pl, o)).evidence
      results == ToSet(o.results)
      Cites(n, e) == gathered[n].uri = Normalized[e.uri] /\ (e.uri = NoUri => gathered[n].title = e.title)
      NumbersOf(r) == UNION {ToSet(token[3]) : token \in
                               {x \in ToSet(candidate.markdown) : x[1] = "sources" /\ x[2] = r.task}}
  IN /\ IsInjective(candidate.links)
     /\ \A token \in ToSet(candidate.markdown) : token[1] = "warning" => token[2] # "run"
     /\ \A r \in results : \A w \in ToSet(r.warnings) :
          TimesIn(candidate.markdown, <<"warning", r.task, w>>) >= TimesIn(r.warnings, w)
     /\ pl.composition = "deterministic" =>
          \A r \in {x \in results : x.status # "failed"} :
            /\ \A n \in NumbersOf(r) : \E e \in ToSet(r.evidence) : Cites(n, e)
            /\ \A e \in ToSet(r.evidence) : \E n \in NumbersOf(r) : Cites(n, e)

NumbersIn(m, r) == UNION {ToSet(token[3]) : token \in {x \in ToSet(m) : x[1] = "sources" /\ x[2] = r.task}}

LEMMA CandidateAttributed ==
  ASSUME NEW pl, NEW given, NEW o, NEW e, NEW fail, NEW ran,
         Answering(pl, given), Handed(pl, o, given, e, fail, ran), "run" \notin TaskIds(pl.tasks)
  PROVE  Attributing(pl, o)
<1> DEFINE gathered == CollectEvidence(OrderedResults(pl, o)).evidence
           cited == Chosen(gathered, {i \in DOMAIN gathered : gathered[i].uri # NoUri})
           links == [i \in DOMAIN cited |-> cited[i].uri]
<1>1. OutputCandidate(pl, o) = [markdown |-> RenderMarkdown(pl, o), links |-> links]
  BY DEF OutputCandidate, Answering
<1>2. PICK q, c, s, m : /\ q = OrderedResults(pl, o) /\ c = CollectEvidence(q) /\ s = c.evidence
                        /\ m = RenderMarkdown(pl, o)
  OBVIOUS
<1>3. /\ q \in Seq(Results) /\ TasksApart(q) /\ ToSet(q) = ToSet(o.results)
      /\ \A r \in ToSet(o.results) : r \in Results /\ r = given[r.task]
  BY <1>2, OrderedFacts
<1>4. /\ Apart(s) /\ \A k \in 1..Len(q) : q[k].task \in DOMAIN c.sources
                                           /\ Standing(s, c.sources[q[k].task], ToSet(q[k].evidence))
  BY <1>2, <1>3, CollectKeeps
<1>5. s \in Seq(Pieces) /\ c \in Gathered
  <2>1. c \in Gathered
    BY <1>2, <1>3, CollectNumbers
  <2>2. QED
    BY <1>2, <2>1 DEF Gathered
<1>6. IsInjective(links)
  <2>1. gathered = s
    BY <1>2
  <2> HIDE DEF gathered
  <2>2. QED
    BY <1>4, <1>5, <2>1, LinksApart
<1>7. /\ IsListed(CollectWarnings(pl, o))
      /\ \A x \in ToSet(CollectWarnings(pl, o)) : x[1] = "warning" /\ x[2] # "run"
      /\ \A r \in ToSet(o.results) : Embeds(WarningLines(r.task, r), CollectWarnings(pl, o))
  BY WarningTokens
<1>8. IsListed(pl.tasks) /\ o.results \in Seq(Results)
  <2>1. Collected(pl, o, given, e, ran)
    BY HandedResults
  <2>2. QED
    BY <2>1 DEF Answering, Collected
<1>9. /\ IsListed(m) /\ Embeds(CollectWarnings(pl, o), m)
      /\ \A x \in ToSet(m) : x[1] = "warning" => x[2] # "run"
      /\ pl.composition = "deterministic" =>
              /\ \A x \in ToSet(m) : x[1] = "sources" =>
                   \E r \in ToSet(BodyResults(pl, o)) : x = SourcesLine(r, c.sources[r.task])
              /\ \A r \in ToSet(BodyResults(pl, o)) : c.sources[r.task] # <<>> =>
                   SourcesLine(r, c.sources[r.task]) \in ToSet(m)
  BY <1>2, <1>3, <1>7, <1>8, RenderedTokens
<1>10. ASSUME NEW r \in ToSet(o.results), NEW w \in ToSet(r.warnings)
       PROVE  TimesIn(m, <<"warning", r.task, w>>) >= TimesIn(r.warnings, w)
  <2>1. Embeds(WarningLines(r.task, r), m) /\ r \in Results
    BY <1>3, <1>7, <1>9, EmbedsOnward
  <2>2. QED
    BY <1>9, <2>1, WarningsCounted
<1>11. ASSUME NEW r \in ToSet(o.results), r.status # "failed", pl.composition = "deterministic"
       PROVE  /\ \A n \in NumbersIn(m, r) : \E x \in ToSet(r.evidence) : StandsFor(s, n, x)
              /\ \A x \in ToSet(r.evidence) : \E n \in NumbersIn(m, r) : StandsFor(s, n, x)
  <2>1. PICK ns : ns = c.sources[r.task]
    OBVIOUS
  <2>2. ToSet(BodyResults(pl, o)) = {x \in ToSet(q) : x.status # "failed"}
    BY <1>2, <1>3, <1>11, BodyMembers
  <2>3. r \in ToSet(q) /\ r \in ToSet(BodyResults(pl, o))
    BY <1>3, <1>11, <2>2
  <2>4. Standing(s, ns, ToSet(r.evidence))
    <3>1. PICK k \in 1..Len(q) : r = q[k]
      BY <1>3, <2>3, ListOf
    <3>2. QED
      BY <1>4, <2>1, <3>1
  <2>5. IsListed(ns)
    <3>1. PICK k \in 1..Len(q) : r = q[k]
      BY <1>3, <2>3, ListOf
    <3>2. r.task \in DOMAIN c.sources
      BY <1>4, <3>1
    <3>3. PICK S \in SUBSET Tasks : c.sources \in [S -> Seq(Nat)]
      BY <1>5 DEF Gathered
    <3>4. ns \in Seq(Nat)
      BY <2>1, <3>2, <3>3
    <3>5. QED
      BY <3>4, ListOf
  <2>6. PICK l : l = Len(ns) /\ (\A i \in 1..l : ns[i] \in ToSet(ns)) /\ \A x \in ToSet(ns) : \E i \in 1..l : x = ns[i]
    BY <2>5, ListedPlaces
  <2>7. ASSUME NEW n \in NumbersIn(m, r)
        PROVE  \E x \in ToSet(r.evidence) : StandsFor(s, n, x)
    <3>1. PICK x \in ToSet(m) : x[1] = "sources" /\ x[2] = r.task /\ n \in ToSet(x[3])
      BY <2>7 DEF NumbersIn
    <3>2. PICK z \in ToSet(BodyResults(pl, o)) : x = SourcesLine(z, c.sources[z.task])
      BY <1>9, <1>11, <3>1
    <3>3. x[2] = z.task /\ x[3] = c.sources[z.task]
      BY <3>2 DEF SourcesLine
    <3>4. n \in ToSet(ns)
      BY <2>1, <3>1, <3>3
    <3>5. PICK i \in 1..l : n = ns[i]
      BY <2>6, <3>4
    <3>6. QED
      BY <2>4, <2>6, <3>5 DEF Standing
  <2>8. ASSUME NEW x \in ToSet(r.evidence)
        PROVE  \E n \in NumbersIn(m, r) : StandsFor(s, n, x)
    <3>1. PICK i \in 1..l : StandsFor(s, ns[i], x)
      BY <2>4, <2>6 DEF Standing
    <3>2. ns # <<>>
      <4>1. ns = <<>> => Len(ns) = 0
        OBVIOUS
      <4>2. QED
        BY <2>6, <3>1, <4>1
    <3>3. PICK y : y = SourcesLine(r, ns) /\ y \in ToSet(m)
      BY <1>9, <1>11, <2>1, <2>3, <3>2
    <3>4. y[1] = "sources" /\ y[2] = r.task /\ y[3] = ns
      BY <3>3 DEF SourcesLine
    <3>5. ns[i] \in NumbersIn(m, r)
      BY <2>6, <3>3, <3>4 DEF NumbersIn
    <3>6. QED
      BY <3>1, <3>5
  <2>9. QED
    BY <2>7, <2>8
<1> HIDE DEF links
<1>12. PICK cand : cand = OutputCandidate(pl, o) /\ cand.markdown = m /\ cand.links = links
  <2>1. OutputCandidate(pl, o) = [markdown |-> m, links |-> links]
    BY <1>1, <1>2
  <2>2. QED
    BY <2>1
<1>13. IsInjective(OutputCandidate(pl, o).links)
  BY <1>6, <1>12
<1>14. \A token \in ToSet(OutputCandidate(pl, o).markdown) : token[1] = "warning" => token[2] # "run"
  BY <1>9, <1>12
<1>15. \A r \in ToSet(o.results) : \A w \in ToSet(r.warnings) :
         TimesIn(OutputCandidate(pl, o).markdown, <<"warning", r.task, w>>) >= TimesIn(r.warnings, w)
  BY <1>10, <1>12
<1>16. pl.composition = "deterministic" =>
         \A r \in {x \in ToSet(o.results) : x.status # "failed"} :
           /\ \A n \in NumbersIn(OutputCandidate(pl, o).markdown, r) :
                \E x \in ToSet(r.evidence) : StandsFor(CollectEvidence(OrderedResults(pl, o)).evidence, n, x)
           /\ \A x \in ToSet(r.evidence) : \E n \in NumbersIn(OutputCandidate(pl, o).markdown, r) :
                StandsFor(CollectEvidence(OrderedResults(pl, o)).evidence, n, x)
  BY <1>2, <1>11, <1>12
<1>17. QED
  BY <1>13, <1>14, <1>15, <1>16, Zenon DEF Attributing, StandsFor, NumbersIn

(* The synthesis of a list of tasks is that of the same tasks in another      *)
(* order.                                                                     *)
JoinedBy(c, pos, s) ==
  /\ pos \in [1..Len(c) -> 1..Len(s)]
  /\ \A n \in 1..Len(c) : c[n] = s[pos[n]] /\ s[pos[n]].subagent = "synthesis"
  /\ \A i \in 1..Len(s) : s[i].subagent = "synthesis" => \E n \in 1..Len(c) : pos[n] = i

LEMMA SynthesisPlaces ==
  ASSUME NEW T, NEW s \in Seq(T)
  PROVE  SynthesisTasks(s) \in Seq(T) /\ \E pos : JoinedBy(SynthesisTasks(s), pos, s)
<1>1. PICK places : places = {k \in DOMAIN s : s[k].subagent = "synthesis"}
  OBVIOUS
<1>2. PICK c, pos : c = Chosen(s, places) /\ c \in Seq(T) /\ ChosenAt(pos, c, s, places, Len(s))
  BY ChosenPlaces, ChosenFacts
<1>3. c = SynthesisTasks(s)
  BY <1>1, <1>2 DEF SynthesisTasks
<1>4. DOMAIN s = 1..Len(s)
  OBVIOUS
<1>5. JoinedBy(c, pos, s)
  BY <1>1, <1>2, <1>4 DEF ChosenAt, JoinedBy
<1>6. QED
  BY <1>2, <1>3, <1>5

LEMMA SynthesisReordered ==
  ASSUME NEW tasks, NEW s, IsListed(tasks), IsListed(s), ToSet(s) = ToSet(tasks), IdsApart(s)
  PROVE  /\ SynthesisTasks(tasks) = <<>> => SynthesisTasks(s) = <<>>
         /\ JoinsResults(tasks) => JoinsResults(s)
<1>1. PICK T : T = ToSet(s) /\ s \in Seq(T) /\ tasks \in Seq(T)
  BY DEF IsListed
<1>2. /\ DOMAIN s = 1..Len(s) /\ DOMAIN tasks = 1..Len(tasks) /\ Len(s) \in Nat /\ Len(tasks) \in Nat
      /\ \A i \in 1..Len(s) : \E j \in 1..Len(tasks) : s[i] = tasks[j]
      /\ \A j \in 1..Len(tasks) : \E i \in 1..Len(s) : s[i] = tasks[j]
  BY ListedPlaces
<1>3. PICK c, pos : /\ c = SynthesisTasks(tasks) /\ c \in Seq(T) /\ pos \in [1..Len(c) -> 1..Len(tasks)]
                    /\ \A n \in 1..Len(c) : c[n] = tasks[pos[n]] /\ tasks[pos[n]].subagent = "synthesis"
                    /\ \A i \in 1..Len(tasks) : tasks[i].subagent = "synthesis" => \E n \in 1..Len(c) : pos[n] = i
  BY <1>1, SynthesisPlaces DEF JoinedBy
<1>4. ASSUME c = <<>>
      PROVE  SynthesisTasks(s) = <<>>
  <2>1. \A i \in 1..Len(s) : s[i].subagent # "synthesis"
    <3>1. Len(c) = 0
      BY <1>4
    <3>2. QED
      BY <1>2, <1>3, <3>1
  <2>2. PICK places : places = {k \in DOMAIN s : s[k].subagent = "synthesis"}
    OBVIOUS
  <2>3. Chosen(s, places) = <<>>
    BY <1>1, <1>2, <2>1, <2>2, ChosenNone
  <2>4. QED
    BY <2>2, <2>3 DEF SynthesisTasks
<1>5. ASSUME JoinsResults(tasks)
      PROVE  JoinsResults(s)
  <2>1. /\ Len(c) = 1 /\ Len(c[1].deps) >= 2
        /\ \A k \in DOMAIN tasks : tasks[k].id # c[1].id => c[1].id \notin ToSet(tasks[k].deps)
    BY <1>3, <1>5 DEF JoinsResults
  <2>2. 1 \in 1..Len(c) /\ \A n \in 1..Len(c) : n = 1
    BY <2>1
  <2>3. PICK t : t = c[1] /\ t = tasks[pos[1]] /\ t.subagent = "synthesis"
    BY <1>3, <2>2
  <2>4. \A j \in 1..Len(tasks) : tasks[j].subagent = "synthesis" => tasks[j] = t
    BY <1>3, <2>2, <2>3
  <2>5. pos[1] \in 1..Len(tasks)
    BY <1>3, <2>2
  <2>6. PICK k \in 1..Len(s) : s[k] = t
    BY <1>2, <2>3, <2>5
  <2>7. ASSUME NEW i \in 1..Len(s), s[i].subagent = "synthesis"
        PROVE  i = k
    <3>1. s[i] = t
      BY <1>2, <2>4, <2>7
    <3>2. s[i].id = s[k].id
      BY <2>6, <3>1
    <3>3. QED
      BY <3>2 DEF IdsApart
  <2>8. PICK places : places = {i \in DOMAIN s : s[i].subagent = "synthesis"}
    OBVIOUS
  <2>9. k \in places /\ \A i \in 1..Len(s) : i \in places => i = k
    BY <1>2, <2>3, <2>6, <2>7, <2>8
  <2>10. Chosen(s, places) = <<s[k]>>
    BY <1>1, <2>9, ChosenOne
  <2>11. PICK only : only = SynthesisTasks(s) /\ Len(only) = 1 /\ only[1] = t
    <3>1. <<s[k]>> = <<t>> /\ Len(<<t>>) = 1 /\ <<t>>[1] = t
      BY <2>6
    <3>2. SynthesisTasks(s) = <<t>>
      BY <2>8, <2>10, <3>1 DEF SynthesisTasks
    <3>3. QED
      BY <3>1, <3>2
  <2>12. Len(t.deps) >= 2
    BY <2>1, <2>3
  <2>13. ASSUME NEW i \in DOMAIN s, s[i].id # t.id
         PROVE  t.id \notin ToSet(s[i].deps)
    <3>1. PICK j \in 1..Len(tasks) : s[i] = tasks[j]
      BY <1>2
    <3>2. QED
      BY <1>2, <2>1, <2>3, <2>13, <3>1
  <2>14. QED
    BY <2>11, <2>12, <2>13 DEF JoinsResults
<1>6. QED
  BY <1>3, <1>4, <1>5

(* An answer of the Root's own passes the reducer.                            *)
LEMMA DirectReduced ==
  ASSUME NEW pl, pl.mode = "direct", pl.answer # NoAnswer, NEW given
  PROVE  FirstBroken(ReductionRules(pl, Outcome(pl, given))) = "accepted"
<1>1. PICK o : o = Outcome(pl, given)
  OBVIOUS
<1>2. o.state = "composing" /\ o.results = <<>> /\ o.answer = pl.answer /\ o.warnings = <<>> /\ o.error = NoError
  <2>1. o = [state |-> "composing", results |-> <<>>, answer |-> pl.answer, warnings |-> <<>>, error |-> NoError]
    BY <1>1, Zenon DEF Outcome
  <2>2. QED
    BY <2>1
<1>3. PICK b0, b1 : /\ b0 = (o.state # "composing")
                    /\ b1 = (\/ pl.answer = NoAnswer \/ o.answer # pl.answer
                             \/ o.results # <<>> \/ o.warnings # <<>> \/ o.error # NoError)
  OBVIOUS
<1>4. b0 = FALSE /\ b1 = FALSE
  BY <1>2, <1>3
<1>5. PICK A, C : A = << <<b0, "outcome_not_composable">> >> /\ C = << <<b1, "composition_mode_mismatch">> >>
  OBVIOUS
<1>6. ReductionRules(pl, o) = A \o C
  BY <1>3, <1>5, Zenon DEF ReductionRules
<1>7. PICK X, rules : X = BOOLEAN \X ReducerCodes /\ rules = A \o C
  OBVIOUS
<1>8. A \in Seq(X) /\ C \in Seq(X) /\ Len(A) = 1 /\ Len(C) = 1 /\ ~ A[1][1] /\ ~ C[1][1]
  <2>1. <<b0, "outcome_not_composable">> \in X /\ <<b1, "composition_mode_mismatch">> \in X
    BY <1>4, <1>7 DEF ReducerCodes
  <2>2. QED
    BY <1>4, <1>5, <2>1
<1>9. /\ rules \in Seq(X) /\ Len(rules) = Len(A) + Len(C)
      /\ (\A i \in 1..Len(A) : rules[i] = A[i]) /\ \A i \in 1..Len(C) : rules[Len(A) + i] = C[i]
  BY <1>7, <1>8, JoinedPlaces
<1>10. Len(rules) = 2 /\ rules[1] = A[1] /\ rules[2] = C[1]
  <2>1. PICK p, q : p = Len(A) /\ q = Len(C) /\ p = 1 /\ q = 1
    BY <1>8
  <2>2. Len(rules) = p + q /\ (\A i \in 1..p : rules[i] = A[i]) /\ \A i \in 1..q : rules[p + i] = C[i]
    BY <1>9, <2>1
  <2>3. QED
    BY <2>1, <2>2
<1>11. \A m \in 1..Len(rules) : ~ rules[m][1]
  BY <1>8, <1>10
<1>12. FirstBroken(rules) = "accepted"
  <2>1. "accepted" \notin ReducerCodes
    BY DEF ReducerCodes
  <2>2. rules \in Seq(BOOLEAN \X ReducerCodes)
    BY <1>7, <1>9
  <2>3. FirstBroken(rules) # "accepted" => \E m \in 1..Len(rules) : rules[m][1]
    BY <2>1, <2>2, FirstBrokenFacts
  <2>4. QED
    BY <1>11, <2>3
<1>13. QED
  BY <1>1, <1>6, <1>7, <1>12

-----------------------------------------------------------------------------
(* The way of an answer, once more: what the engine is given, and what it     *)
(* hands to the reducer.                                                      *)
Reducible(pl) ==
  \/ pl.mode = "direct" /\ pl.answer # NoAnswer
  \/ /\ pl.mode = "delegate" /\ IsListed(pl.tasks) /\ IdsApart(pl.tasks) /\ pl.tasks # <<>>
     /\ pl.required \subseteq TaskIds(pl.tasks) /\ SynthesisSound(pl)
     /\ TaskIds(pl.tasks) \subseteq DOMAIN ResultsFor \ {"run"}

ReduceInv ==
  /\ phase \in {"planned", "composing"} => Reducible(plan)
  /\ phase = "composing" =>
       /\ outcome.state = "composing"
       /\ \E given : outcome = Outcome(plan, given) /\ (plan.mode = "delegate" => Answering(plan, given))

(* The plan of an accepted decision can be reduced, with any steps required.  *)
LEMMA AcceptedIsReducible ==
  ASSUME NEW d \in Decisions, d.mode # "skill", Verdict(d, Catalog, Limits) = "accepted",
         NEW p, p.mode = d.mode, p.answer = d.answer, p.composition = d.composition,
         p.tasks = IF d.mode = "delegate" THEN TopologicalOrder(d.tasks) ELSE <<>>,
         p.required \subseteq TaskIds(d.tasks)
  PROVE  Reducible(p)
<1>1. Executable(p, d)
  BY AcceptedIsExecutable
<1>2. CASE d.mode = "delegate"
  <2>1. PICK tasks, s : tasks = d.tasks /\ s = TopologicalOrder(tasks) /\ p.tasks = s
    BY <1>2
  <2>2. IsListed(tasks) /\ tasks \in Seq(ToSet(tasks))
    BY <2>1, DecisionFacts DEF IsListed
  <2>3. s \in Seq(ToSet(tasks)) /\ IdsApart(s)
    BY <2>1, <2>2, OrderFacts DEF SoundOrders
  <2>4. IsListed(s)
    BY <2>3, ListOf
  <2>5. ToSet(s) = ToSet(tasks) /\ s # <<>>
    BY <1>1, <1>2, <2>1 DEF Executable, IsPreparedPlan
  <2>6. TaskIds(s) = TaskIds(tasks)
    <3>1. \A q : TaskIds(q) = {t.id : t \in ToSet(q)}
      BY DEF TaskIds, ToSet
    <3>2. QED
      BY <2>5, <3>1
  <2>7. SynthesisSound(p)
    <3>1. SynthesisAllowed(d, Catalog)
      BY <1>2, DelegateVerdict
    <3>2. d.composition \in Compositions
      BY AnswerAssumption DEF IsDecision
    <3>3. d.composition = "deterministic" => SynthesisTasks(tasks) = <<>>
      BY <2>1, <3>1 DEF SynthesisAllowed
    <3>4. d.composition # "deterministic" => JoinsResults(tasks)
      BY <2>1, <3>1 DEF SynthesisAllowed
    <3>5. /\ SynthesisTasks(tasks) = <<>> => SynthesisTasks(s) = <<>>
          /\ JoinsResults(tasks) => JoinsResults(s)
      BY <2>2, <2>3, <2>4, <2>5, SynthesisReordered
    <3>6. QED
      BY <2>1, <3>2, <3>3, <3>4, <3>5 DEF SynthesisSound
  <2>8. TaskIds(tasks) \subseteq DOMAIN ResultsFor \ {"run"}
    BY <2>1, AnswerAssumption
  <2>9. QED
    BY <1>2, <2>1, <2>3, <2>4, <2>5, <2>6, <2>7, <2>8 DEF Reducible
<1>3. CASE d.mode # "delegate"
  <2>1. d.mode = "direct" /\ d.answer # NoAnswer
    BY <1>3, DirectVerdict
  <2>2. QED
    BY <2>1 DEF Reducible
<1>4. QED
  BY <1>2, <1>3

LEMMA PlanReduces == AnswerInv /\ ReduceInv /\ Plan => ReduceInv'
<1> SUFFICES ASSUME AnswerInv, ReduceInv, Plan PROVE ReduceInv'
  OBVIOUS
<1>1. decision \in Decisions /\ phase = "planning" /\ plan = NoPlan
  BY DEF AnswerInv, Plan
<1>2. CASE Verdict(decision, Catalog, Limits) # "accepted" \/ decision.mode = "skill"
  <2>1. phase' = "refused"
    BY <1>2 DEF Plan
  <2>2. QED
    BY <2>1 DEF ReduceInv
<1>3. CASE Verdict(decision, Catalog, Limits) = "accepted" /\ decision.mode # "skill"
  <2>1. PICK required \in SUBSET TaskIds(decision.tasks) :
          phase' = "planned" /\ plan' = [Prepared(decision) EXCEPT !.required = required]
    BY <1>3 DEF Plan
  <2>2. PICK p, d : p = plan' /\ d = decision
    OBVIOUS
  <2>3. /\ p.mode = d.mode /\ p.answer = d.answer /\ p.composition = d.composition
        /\ p.tasks = IF d.mode = "delegate" THEN TopologicalOrder(d.tasks) ELSE <<>>
        /\ p.required = required
    BY <2>1, <2>2 DEF Prepared
  <2>4. p.required \subseteq TaskIds(d.tasks)
    BY <2>1, <2>2, <2>3
  <2>5. Reducible(p)
    BY <1>1, <1>3, <2>2, <2>3, <2>4, AcceptedIsReducible
  <2>6. QED
    BY <2>1, <2>2, <2>5 DEF ReduceInv
<1>4. QED
  BY <1>2, <1>3

LEMMA ExecuteReduces == ReduceInv /\ Execute => ReduceInv'
<1> SUFFICES ASSUME ReduceInv, Execute PROVE ReduceInv'
  OBVIOUS
<1>1. phase = "planned" /\ plan' = plan /\ Reducible(plan)
  BY DEF ReduceInv, Execute
<1>2. PICK given \in [TaskIds(plan.tasks) -> Results] :
        (\A t \in DOMAIN given : given[t] \in ResultsFor[t]) /\ outcome' = Outcome(plan, given)
  BY Zenon DEF Execute, Results
<1>3. phase' = IF outcome'.state = "composing" THEN "composing" ELSE "failed"
  BY DEF Execute
<1>4. PICK pl, o : pl = plan /\ o = Outcome(pl, given)
  OBVIOUS
<1>5. ASSUME pl.mode = "delegate"
      PROVE  Answering(pl, given)
  <2>1. TaskIds(pl.tasks) \subseteq DOMAIN ResultsFor /\ DOMAIN given = TaskIds(pl.tasks)
    BY <1>1, <1>2, <1>4, <1>5 DEF Reducible
  <2>2. \A t \in TaskIds(pl.tasks) : given[t].task = t
    BY <1>2, <2>1, AnswerAssumption
  <2>3. QED
    BY <1>1, <1>2, <1>4, <1>5, <2>2 DEF Reducible, Answering
<1>6. QED
  BY <1>1, <1>2, <1>3, <1>4, <1>5 DEF ReduceInv

(* Every outcome that the engine calls composing the reducer composes, unless *)
(* an optional synthesis failed, and the candidate is attributed              *)
(* (execution_engine.py:199 _finish_delegate, result_reducer.py:88), for      *)
(* whatever the Root decides and the executors answer.                        *)
THEOREM AnswersComposed == AnswerSpec => []AnswersCompose
<1>1. AnswerInit => AnswerInv /\ ReduceInv
  <2>1. AnswerInit => ReduceInv
    BY DEF AnswerInit, ReduceInv
  <2>2. QED
    BY <2>1, AnswerInitInv
<1>2. AnswerInv /\ ReduceInv /\ [AnswerNext]_answerVars => AnswerInv' /\ ReduceInv'
  <2> SUFFICES ASSUME AnswerInv, ReduceInv, [AnswerNext]_answerVars PROVE AnswerInv' /\ ReduceInv'
    OBVIOUS
  <2>1. CASE UNCHANGED answerVars
    BY <2>1 DEF AnswerInv, ReduceInv, answerVars
  <2>2. CASE Decide
    <3>1. ReduceInv'
      BY <2>2 DEF ReduceInv, Decide
    <3>2. QED
      BY <2>2, <3>1, DecideInv
  <2>3. CASE Compose
    <3>1. phase' \in {"answered", "failed"}
      BY <2>3 DEF Compose
    <3>2. ReduceInv'
      BY <3>1 DEF ReduceInv
    <3>3. QED
      BY <2>3, <3>2, ComposeInv
  <2>4. QED
    BY <2>1, <2>2, <2>3, PlanInv, ExecuteInv, PlanReduces, ExecuteReduces DEF AnswerNext
<1>3. ReduceInv => AnswersCompose
  <2> SUFFICES ASSUME ReduceInv, phase = "composing" PROVE AnswersCompose
    BY DEF AnswersCompose
  <2>1. PICK pl, o, given : /\ pl = plan /\ o = outcome /\ Reducible(pl) /\ o.state = "composing"
                            /\ o = Outcome(pl, given) /\ (pl.mode = "delegate" => Answering(pl, given))
    BY DEF ReduceInv
  <2>2. /\ FirstBroken(ReductionRules(pl, o))
             \in {"accepted"} \union (IF SynthesisLost(pl, o) THEN {"synthesis_result_invalid"} ELSE {})
        /\ pl.mode = "delegate" => Attributing(pl, o)
    <3>1. CASE pl.mode = "direct"
      <4>1. FirstBroken(ReductionRules(pl, o)) = "accepted"
        BY <2>1, <3>1, DirectReduced DEF Reducible
      <4>2. QED
        BY <3>1, <4>1
    <3>2. CASE pl.mode = "delegate"
      <4>1. Answering(pl, given) /\ SynthesisSound(pl) /\ "run" \notin TaskIds(pl.tasks)
        BY <2>1, <3>2 DEF Reducible
      <4>2. PICK e, fail, ran : Handed(pl, o, given, e, fail, ran)
        BY <2>1, <4>1, OutcomeIsHanded
      <4>3. FirstBroken(ReductionRules(pl, o))
             \in {"accepted"} \union (IF SynthesisLost(pl, o) THEN {"synthesis_result_invalid"} ELSE {})
        BY <4>1, <4>2, DelegationReduced
      <4>4. Attributing(pl, o)
        BY <4>1, <4>2, CandidateAttributed
      <4>5. QED
        BY <4>3, <4>4
    <3>3. QED
      BY <2>1, <3>1, <3>2 DEF Reducible
  <2>3. Attributing(plan, outcome) = Attributed(OutputCandidate(plan, outcome))
    BY Zenon DEF Attributing, Attributed
  <2>4. /\ FirstBroken(ReductionRules(plan, outcome))
             \in {"accepted"} \union (IF SynthesisLost(plan, outcome) THEN {"synthesis_result_invalid"} ELSE {})
        /\ plan.mode = "delegate" => Attributed(OutputCandidate(plan, outcome))
    BY <2>1, <2>2, <2>3
  <2>5. QED
    BY <2>4, Zenon DEF AnswersCompose, SynthesisLost
<1>4. QED
  BY <1>1, <1>2, <1>3, PTL DEF AnswerSpec
=============================================================================
