----------------------------- MODULE RLIProofs -----------------------------
(* What the evaluation of a request does, for every request that can be     *)
(* written: a well-typed one succeeds and makes the calls that a reader     *)
(* expects, in that order; one that is not ends at its first error; each    *)
(* object that a call takes is what the call before it gave; and the text   *)
(* of a request is read as that request.                                    *)
EXTENDS Requests, TLAPS, SequenceTheorems, WellFoundedInduction

-----------------------------------------------------------------------------
(* Induction and recursion.                                                *)

\* Induction over the numbers, for a set of them
LEMMA SetInduction ==
  ASSUME NEW S \in SUBSET Nat, 0 \in S, \A n \in S : n + 1 \in S
  PROVE  S = Nat
<1> SUFFICES ASSUME S # Nat PROVE FALSE
  OBVIOUS
<1> DEFINE T == Nat \ S
<1> DEFINE R == OpToRel(<, Nat)
<1>1. IsWellFoundedOn(R, Nat)
  BY NatLessThanWellFounded
<1>2. PICK x \in T : \A y \in T : ~ (<<y, x>> \in R)
  <2> T \subseteq Nat /\ T # {}
    OBVIOUS
  <2> HIDE DEF T, R
  <2> QED BY <1>1, WFMin
<1>3. x \in Nat /\ x # 0
  OBVIOUS
<1>4. x - 1 \in Nat /\ x - 1 < x
  BY <1>3
<1>5. x - 1 \in S
  BY <1>2, <1>4 DEF OpToRel
<1>6. (x - 1) + 1 = x
  BY <1>3
<1> QED BY <1>5, <1>6

\* Recursion along 0 .. n, whose values are in V
Follows(w, V, z, n, G) ==
  /\ w = [k \in 0 .. n |-> w[k]] /\ w[0] = z
  /\ \A k \in 1 .. n : w[k - 1] \in V => w[k] = G[k][w[k - 1]]

\* f goes through the values from z on, by a step G[k] that keeps them in V.
Goes(f, V, z, n, G) ==
  f \in [0 .. n -> V] /\ f[0] = z /\ \A k \in 1 .. n : f[k] = G[k][f[k - 1]]

\* There is such a function ...
LEMMA RecursionExists ==
  ASSUME NEW V, NEW z \in V, NEW n \in Nat, NEW G \in [1 .. n -> [V -> V]]
  PROVE  \E f : Goes(f, V, z, n, G)
<1> DEFINE Good(m) == \E f \in [0 .. m -> V] : f[0] = z /\ \A k \in 1 .. m : f[k] = G[k][f[k - 1]]
           N == {m \in Nat : m <= n => Good(m)}
<1>1. Good(0)
  <2> DEFINE f == [k \in 0 .. 0 |-> z]
  <2>1. f \in [0 .. 0 -> V] /\ f[0] = z /\ \A k \in 1 .. 0 : f[k] = G[k][f[k - 1]]
    OBVIOUS
  <2> HIDE DEF f
  <2> QED BY <2>1
<1>2. ASSUME NEW m \in Nat, m + 1 <= n, Good(m) PROVE Good(m + 1)
  <2>1. PICK f \in [0 .. m -> V] : f[0] = z /\ \A k \in 1 .. m : f[k] = G[k][f[k - 1]]
    BY <1>2
  <2> DEFINE g == [k \in 0 .. m + 1 |-> IF k <= m THEN f[k] ELSE G[m + 1][f[m]]]
  <2>2. G[m + 1] \in [V -> V] /\ f[m] \in V
    BY <1>2
  <2>3. g \in [0 .. m + 1 -> V]
    <3>1. \A k \in 0 .. m + 1 : k <= m => k \in 0 .. m
      OBVIOUS
    <3> QED BY <2>2, <3>1
  <2>4. g[0] = z /\ g[m + 1] = G[m + 1][f[m]] /\ \A k \in 0 .. m : g[k] = f[k]
    BY <2>1
  <2> HIDE DEF g
  <2>5. \A k \in 1 .. m + 1 : k - 1 \in 0 .. m /\ (k \in 1 .. m \/ k = m + 1) /\ m + 1 - 1 = m /\ (k \in 1 .. m => k \in 0 .. m)
    OBVIOUS
  <2>6. ASSUME NEW k \in 1 .. m + 1 PROVE g[k] = G[k][g[k - 1]]
    <3>1. CASE k \in 1 .. m
      BY <2>1, <2>4, <2>5, <3>1
    <3>2. CASE k = m + 1
      BY <2>4, <2>5, <3>2
    <3> QED BY <2>5, <3>1, <3>2
  <2> QED BY <2>3, <2>4, <2>6
<1>3. N = Nat
  <2>1. N \in SUBSET Nat /\ 0 \in N
    BY <1>1
  <2>2. ASSUME NEW m \in N PROVE m + 1 \in N
    <3>1. m \in Nat /\ (m <= n => Good(m))
      OBVIOUS
    <3> HIDE DEF Good
    <3>2. m + 1 <= n => Good(m + 1)
      BY <1>2, <3>1
    <3> QED BY <3>1, <3>2
  <2> HIDE DEF N
  <2> QED BY <2>1, <2>2, SetInduction
<1>4. n \in N
  <2> HIDE DEF N
  <2> QED BY <1>3
<1>5. Good(n)
  <2> HIDE DEF Good
  <2> QED BY <1>4
<1> QED BY <1>5 DEF Goes

\* ... and what satisfies its equations has its values in V.
LEMMA RecursionIs ==
  ASSUME NEW V, NEW z \in V, NEW n \in Nat, NEW G \in [1 .. n -> [V -> V]],
         NEW w, Follows(w, V, z, n, G)
  PROVE  Goes(w, V, z, n, G)
<1>0. /\ w = [k \in 0 .. n |-> w[k]] /\ w[0] = z
      /\ \A k \in 1 .. n : w[k - 1] \in V => w[k] = G[k][w[k - 1]]
  BY DEF Follows
<1> DEFINE N == {m \in Nat : m <= n => w[m] \in V}
<1>1. N \in SUBSET Nat /\ 0 \in N
  BY <1>0
<1>2. ASSUME NEW m \in N PROVE m + 1 \in N
  <2> SUFFICES ASSUME m + 1 <= n PROVE w[m + 1] \in V
    OBVIOUS
  <2>1. w[m] \in V /\ m + 1 \in 1 .. n /\ m + 1 - 1 = m
    OBVIOUS
  <2>2. w[m + 1] = G[m + 1][w[m]]
    <3>1. \A k \in 1 .. n : w[k - 1] \in V => w[k] = G[k][w[k - 1]]
      BY <1>0
    <3> QED BY <2>1, <3>1
  <2> QED BY <1>0, <2>1, <2>2
<1>3. N = Nat
  <2> HIDE DEF N
  <2> QED BY <1>1, <1>2, SetInduction
<1>4. ASSUME NEW k \in 0 .. n PROVE w[k] \in V
  <2>1. k \in N
    <3> HIDE DEF N
    <3> QED BY <1>3
  <2> QED BY <2>1
<1>5. w \in [0 .. n -> V]
  BY <1>0, <1>4
<1>6. \A k \in 1 .. n : w[k - 1] \in V
  BY <1>4
<1> QED BY <1>0, <1>5, <1>6 DEF Goes

\* Induction up to a number
LEMMA InductionUpTo ==
  ASSUME NEW n \in Nat, NEW S, 0 \in S, \A m \in 0 .. n - 1 : m \in S => m + 1 \in S
  PROVE  \A m \in 0 .. n : m \in S
<1> DEFINE N == {m \in Nat : m <= n => m \in S}
<1>1. N \in SUBSET Nat /\ 0 \in N
  OBVIOUS
<1>2. ASSUME NEW m \in N PROVE m + 1 \in N
  OBVIOUS
<1>3. N = Nat
  <2> HIDE DEF N
  <2> QED BY <1>1, <1>2, SetInduction
<1>4. ASSUME NEW m \in 0 .. n PROVE m \in S
  <2>1. m \in N
    <3> HIDE DEF N
    <3> QED BY <1>3
  <2> QED BY <2>1
<1> QED BY <1>4

\* Induction from those below
LEMMA InductionFromBelow ==
  ASSUME NEW n \in Nat, NEW S, \A m \in 1 .. n : (\A k \in 1 .. m - 1 : k \in S) => m \in S
  PROVE  \A m \in 1 .. n : m \in S
<1> DEFINE U == {m \in Nat : \A k \in 1 .. m : k \in S}
<1>1. 0 \in U
  OBVIOUS
<1>2. ASSUME NEW m \in 0 .. n - 1, m \in U PROVE m + 1 \in U
  <2>1. \A k \in 1 .. (m + 1) - 1 : k \in S
    BY <1>2
  <2>2. m + 1 \in S
    BY <2>1
  <2>3. \A k \in 1 .. m + 1 : k \in 1 .. m \/ k = m + 1
    OBVIOUS
  <2> QED BY <1>2, <2>2, <2>3
<1>3. \A m \in 0 .. n : m \in U
  <2> HIDE DEF U
  <2> QED BY <1>1, <1>2, InductionUpTo
<1>4. n \in U
  <2> HIDE DEF U
  <2> QED BY <1>3
<1> QED BY <1>4

\* The first in a set of places
LEMMA FirstExists ==
  ASSUME NEW n \in Nat, NEW S, NEW x \in 1 .. n, x \in S
  PROVE  \E i \in 1 .. n : i \in S /\ \A j \in 1 .. i - 1 : j \notin S
<1> SUFFICES ASSUME \A i \in 1 .. n : i \in S => \E j \in 1 .. i - 1 : j \in S PROVE FALSE
  OBVIOUS
<1> DEFINE T == {i \in 1 .. n : i \notin S}
<1>1. ASSUME NEW m \in 1 .. n, \A k \in 1 .. m - 1 : k \in T PROVE m \in T
  BY <1>1
<1>2. \A m \in 1 .. n : m \in T
  <2> HIDE DEF T
  <2> QED BY <1>1, InductionFromBelow
<1> QED BY <1>2

-----------------------------------------------------------------------------
(* Expressions on a heap.                                                  *)

IsValue(h, n) ==
  /\ h[n].kind = "value" /\ h[n] = Value(h[n].value)
  /\ \/ h[n].value \in Literals
     \/ h[n].value = Lexpr(h[n].value.lexpr) /\ h[n].value.lexpr \in 1 .. n - 1

IsFunc(h, n) ==
  /\ h[n].kind = "func" /\ h[n] = Func(h[n].name, h[n].args)
  /\ h[n].name \in [1 .. 1 -> Words]
  /\ h[n].args \in Seq(1 .. n - 1) /\ Len(h[n].args) \in Nat
  /\ \A k \in 1 .. Len(h[n].args) : h[n].args[k] \in 1 .. n - 1

\* A node of a heap is a value or a function of what comes before it.
LEMMA NodeIs ==
  ASSUME NEW h, IsHeap(h), NEW n \in 1 .. Len(h)
  PROVE  /\ Len(h) \in Nat /\ n \in Nat /\ 1 .. n - 1 \subseteq 1 .. Len(h)
         /\ IsValue(h, n) \/ IsFunc(h, n)
<1>1. Len(h) \in Nat /\ n \in Nat /\ 1 .. n - 1 \subseteq 1 .. Len(h)
  BY DEF IsHeap
<1>2. h[n] \in Values(n) \cup Funcs(n)
  BY DEF IsHeap
<1>3. CASE h[n] \in Values(n)
  <2>1. PICK v \in Literals \cup {Lexpr(m) : m \in 1 .. n - 1} : h[n] = Value(v)
    BY <1>3 DEF Values
  <2>2. h[n].value = v /\ h[n].kind = "value"
    BY <2>1 DEF Value
  <2>3. CASE v \in Literals
    BY <1>1, <2>1, <2>2, <2>3 DEF IsValue
  <2>4. CASE v \in {Lexpr(m) : m \in 1 .. n - 1}
    <3>1. PICK m \in 1 .. n - 1 : v = Lexpr(m)
      BY <2>4
    <3>2. v.lexpr = m
      BY <3>1 DEF Lexpr
    <3> QED BY <1>1, <2>1, <2>2, <3>1, <3>2 DEF IsValue
  <2> QED BY <2>3, <2>4
<1>4. CASE h[n] \in Funcs(n)
  <2>1. h[n].kind = "func" /\ h[n] = [kind |-> "func", name |-> h[n].name, args |-> h[n].args]
    BY <1>4 DEF Funcs
  <2>2. h[n].name \in [1 .. 1 -> Words] /\ h[n].args \in Seq(1 .. n - 1)
    BY <1>4 DEF Funcs
  <2>3. Len(h[n].args) \in Nat /\ \A k \in 1 .. Len(h[n].args) : h[n].args[k] \in 1 .. n - 1
    BY <2>2
  <2> QED BY <1>1, <2>1, <2>2, <2>3 DEF IsFunc, Func
<1> QED BY <1>2, <1>3, <1>4, <1>1

\* Functions that agree below n agree on the arguments of a node there ...
LEMMA EachSame ==
  ASSUME NEW h, NEW n, IsFunc(h, n), NEW f, NEW g, \A m \in 1 .. n - 1 : f[m] = g[m]
  PROVE  Each(f, h[n].args) = Each(g, h[n].args)
BY DEF Each, IsFunc

\* ... and on the expressions quoted among them.
LEMMA QuotedSame ==
  ASSUME NEW h, IsHeap(h), NEW n \in 1 .. Len(h), IsFunc(h, n), NEW none,
         NEW f, NEW g, \A m \in 1 .. n - 1 : f[m] = g[m]
  PROVE  EachQuoted(f, h, h[n].args, none) = EachQuoted(g, h, h[n].args, none)
<1> DEFINE args == h[n].args
<1>1. ASSUME NEW k \in 1 .. Len(args), Quoted(h[args[k]])
      PROVE  f[h[args[k]].value.lexpr] = g[h[args[k]].value.lexpr]
  <2>1. args[k] \in 1 .. n - 1 /\ args[k] \in 1 .. Len(h) /\ n \in Nat
    BY NodeIs DEF IsFunc
  <2>2. IsValue(h, args[k])
    BY <1>1, <2>1, NodeIs DEF Quoted, IsFunc
  <2>3. h[args[k]].value.lexpr \in 1 .. args[k] - 1
    BY <1>1, <2>2 DEF Quoted, IsValue, Literals, IntVal, StrVal
  <2>4. h[args[k]].value.lexpr \in 1 .. n - 1
    BY <2>1, <2>3
  <2> QED BY <2>4
<1> QED BY <1>1 DEF EachQuoted

-----------------------------------------------------------------------------
(* The definitions of Requests by recursion, at each node.                 *)

TextStep(h, f, n) ==
  IF h[n].kind = "func"
    THEN Open \o h[n].name
           \o FlattenSeq([k \in 1 .. Len(Each(f, h[n].args)) |-> <<Blank>> \o Each(f, h[n].args)[k]]) \o Close
    ELSE IF h[n].value.type = "lexpr" THEN Tick \o <<Blank>> \o f[h[n].value.lexpr]
    ELSE IF h[n].value.type = "string" THEN <<Quote, "s", Quote>>
    ELSE IF h[n].value = IntVal(0) THEN <<"0">> ELSE <<"1">>

TreeStep(h, f, n) ==
  IF h[n].kind = "func" THEN Func(h[n].name, Each(f, h[n].args))
  ELSE IF h[n].value.type = "lexpr" THEN Value(Lexpr(f[h[n].value.lexpr]))
  ELSE h[n]

TypeStep(h, f, n) ==
  IF h[n].kind = "value" THEN h[n].value.type
  ELSE FuncType(h[n].name, Each(f, h[n].args), EachQuoted(f, h, h[n].args, "error"))

UsesStep(h, name, f, n) ==
  IF h[n].kind = "func"
    THEN h[n].name = <<name>> \/ \E k \in 1 .. Len(h[n].args) : f[h[n].args[k]]
    ELSE Quoted(h[n]) /\ f[h[n].value.lexpr]

CallsStep(h, f, n) ==
  IF h[n].kind = "value" THEN <<>>
  ELSE FlattenSeq(Each(f, h[n].args))
       \o (IF h[n].name = <<"seq">> THEN FlattenSeq(EachQuoted(f, h, h[n].args, <<>>))
           ELSE IF IsCall(h[n].name) THEN h[n].name ELSE <<>>)

\* TextStep asks only for what comes before.
LEMMA TextStepLocal ==
  ASSUME NEW h, IsHeap(h), NEW n \in 1 .. Len(h), NEW f, NEW g, \A m \in 1 .. n - 1 : f[m] = g[m]
  PROVE  TextStep(h, f, n) = TextStep(h, g, n)
<1>1. CASE IsFunc(h, n)
  <2>1. Each(f, h[n].args) = Each(g, h[n].args) /\ h[n].kind = "func"
    BY <1>1, EachSame DEF IsFunc
  <2>2. \A none : EachQuoted(f, h, h[n].args, none) = EachQuoted(g, h, h[n].args, none)
    BY <1>1, QuotedSame
  <2> QED BY <2>1, <2>2 DEF TextStep
<1>2. CASE IsValue(h, n)
  BY <1>2 DEF IsValue, TextStep, Literals, IntVal, StrVal, Lexpr
<1> QED BY <1>1, <1>2, NodeIs

\* TextOf satisfies its recursive equation.
LEMMA TextOfIs ==
  ASSUME NEW h, IsHeap(h)
  PROVE  TextOf(h) = [n \in 1 .. Len(h) |-> TextStep(h, TextOf(h), n)]
<1> DEFINE Good(k) == \E f : f = [n \in 1 .. k |-> TextStep(h, f, n)]
           N == {k \in Nat : k <= Len(h) => Good(k)}
<1>1. Good(0)
  <2> DEFINE f == [n \in 1 .. 0 |-> n]
  <2>1. f = [n \in 1 .. 0 |-> TextStep(h, f, n)]
    OBVIOUS
  <2> HIDE DEF f
  <2> QED BY <2>1
<1>2. ASSUME NEW k \in Nat, k + 1 <= Len(h), Good(k) PROVE Good(k + 1)
  <2>1. PICK f : f = [n \in 1 .. k |-> TextStep(h, f, n)]
    BY <1>2
  <2> DEFINE g == [n \in 1 .. k + 1 |-> TextStep(h, f, n)]
  <2>2. \A m \in 1 .. k : m \in 1 .. k + 1 /\ g[m] = f[m]
    BY <2>1
  <2>3. ASSUME NEW n \in 1 .. k + 1 PROVE TextStep(h, f, n) = TextStep(h, g, n)
    <3>1. n \in 1 .. Len(h) /\ 1 .. n - 1 \subseteq 1 .. k
      BY <1>2
    <3>2. \A m \in 1 .. n - 1 : f[m] = g[m]
      BY <2>2, <3>1
    <3> HIDE DEF g
    <3> QED BY <3>1, <3>2, TextStepLocal
  <2>4. g = [n \in 1 .. k + 1 |-> TextStep(h, g, n)]
    <3>1. g = [n \in 1 .. k + 1 |-> TextStep(h, f, n)]
      OBVIOUS
    <3> HIDE DEF g
    <3> QED BY <2>3, <3>1
  <2> HIDE DEF g
  <2> QED BY <2>4
<1>3. N = Nat
  <2>1. N \in SUBSET Nat /\ 0 \in N /\ \A n \in N : n + 1 \in N
    <3>1. Len(h) \in Nat
      BY DEF IsHeap
    <3> HIDE DEF Good
    <3> QED BY <1>1, <1>2, <3>1
  <2> HIDE DEF N
  <2> QED BY <2>1, SetInduction
<1>4. \E f : f = [n \in 1 .. Len(h) |-> TextStep(h, f, n)]
  <2>1. Len(h) \in Nat
    BY DEF IsHeap
  <2>2. Len(h) \in N
    <3> HIDE DEF N
    <3> QED BY <1>3, <2>1
  <2> HIDE DEF Good
  <2>3. Good(Len(h))
    BY <2>1, <2>2
  <2> QED BY <2>3 DEF Good
<1>5. DOMAIN h = 1 .. Len(h)
  BY DEF IsHeap
<1>6. TextOf(h) = CHOOSE f : f = [n \in 1 .. Len(h) |-> TextStep(h, f, n)]
  BY <1>5 DEF TextOf, TextStep
<1> QED BY <1>4, <1>6

\* TreeStep asks only for what comes before.
LEMMA TreeStepLocal ==
  ASSUME NEW h, IsHeap(h), NEW n \in 1 .. Len(h), NEW f, NEW g, \A m \in 1 .. n - 1 : f[m] = g[m]
  PROVE  TreeStep(h, f, n) = TreeStep(h, g, n)
<1>1. CASE IsFunc(h, n)
  <2>1. Each(f, h[n].args) = Each(g, h[n].args) /\ h[n].kind = "func"
    BY <1>1, EachSame DEF IsFunc
  <2>2. \A none : EachQuoted(f, h, h[n].args, none) = EachQuoted(g, h, h[n].args, none)
    BY <1>1, QuotedSame
  <2> QED BY <2>1, <2>2 DEF TreeStep
<1>2. CASE IsValue(h, n)
  BY <1>2 DEF IsValue, TreeStep, Literals, IntVal, StrVal, Lexpr
<1> QED BY <1>1, <1>2, NodeIs

\* Tree satisfies its recursive equation.
LEMMA TreeIs ==
  ASSUME NEW h, IsHeap(h)
  PROVE  Tree(h) = [n \in 1 .. Len(h) |-> TreeStep(h, Tree(h), n)]
<1> DEFINE Good(k) == \E f : f = [n \in 1 .. k |-> TreeStep(h, f, n)]
           N == {k \in Nat : k <= Len(h) => Good(k)}
<1>1. Good(0)
  <2> DEFINE f == [n \in 1 .. 0 |-> n]
  <2>1. f = [n \in 1 .. 0 |-> TreeStep(h, f, n)]
    OBVIOUS
  <2> HIDE DEF f
  <2> QED BY <2>1
<1>2. ASSUME NEW k \in Nat, k + 1 <= Len(h), Good(k) PROVE Good(k + 1)
  <2>1. PICK f : f = [n \in 1 .. k |-> TreeStep(h, f, n)]
    BY <1>2
  <2> DEFINE g == [n \in 1 .. k + 1 |-> TreeStep(h, f, n)]
  <2>2. \A m \in 1 .. k : m \in 1 .. k + 1 /\ g[m] = f[m]
    BY <2>1
  <2>3. ASSUME NEW n \in 1 .. k + 1 PROVE TreeStep(h, f, n) = TreeStep(h, g, n)
    <3>1. n \in 1 .. Len(h) /\ 1 .. n - 1 \subseteq 1 .. k
      BY <1>2
    <3>2. \A m \in 1 .. n - 1 : f[m] = g[m]
      BY <2>2, <3>1
    <3> HIDE DEF g
    <3> QED BY <3>1, <3>2, TreeStepLocal
  <2>4. g = [n \in 1 .. k + 1 |-> TreeStep(h, g, n)]
    <3>1. g = [n \in 1 .. k + 1 |-> TreeStep(h, f, n)]
      OBVIOUS
    <3> HIDE DEF g
    <3> QED BY <2>3, <3>1
  <2> HIDE DEF g
  <2> QED BY <2>4
<1>3. N = Nat
  <2>1. N \in SUBSET Nat /\ 0 \in N /\ \A n \in N : n + 1 \in N
    <3>1. Len(h) \in Nat
      BY DEF IsHeap
    <3> HIDE DEF Good
    <3> QED BY <1>1, <1>2, <3>1
  <2> HIDE DEF N
  <2> QED BY <2>1, SetInduction
<1>4. \E f : f = [n \in 1 .. Len(h) |-> TreeStep(h, f, n)]
  <2>1. Len(h) \in Nat
    BY DEF IsHeap
  <2>2. Len(h) \in N
    <3> HIDE DEF N
    <3> QED BY <1>3, <2>1
  <2> HIDE DEF Good
  <2>3. Good(Len(h))
    BY <2>1, <2>2
  <2> QED BY <2>3 DEF Good
<1>5. DOMAIN h = 1 .. Len(h)
  BY DEF IsHeap
<1>6. Tree(h) = CHOOSE f : f = [n \in 1 .. Len(h) |-> TreeStep(h, f, n)]
  BY <1>5 DEF Tree, TreeStep
<1> QED BY <1>4, <1>6

\* TypeStep asks only for what comes before.
LEMMA TypeStepLocal ==
  ASSUME NEW h, IsHeap(h), NEW n \in 1 .. Len(h), NEW f, NEW g, \A m \in 1 .. n - 1 : f[m] = g[m]
  PROVE  TypeStep(h, f, n) = TypeStep(h, g, n)
<1>1. CASE IsFunc(h, n)
  <2>1. Each(f, h[n].args) = Each(g, h[n].args) /\ h[n].kind = "func"
    BY <1>1, EachSame DEF IsFunc
  <2>2. \A none : EachQuoted(f, h, h[n].args, none) = EachQuoted(g, h, h[n].args, none)
    BY <1>1, QuotedSame
  <2> QED BY <2>1, <2>2 DEF TypeStep
<1>2. CASE IsValue(h, n)
  BY <1>2 DEF IsValue, TypeStep, Literals, IntVal, StrVal, Lexpr
<1> QED BY <1>1, <1>2, NodeIs

\* TypeOf satisfies its recursive equation.
LEMMA TypeOfIs ==
  ASSUME NEW h, IsHeap(h)
  PROVE  TypeOf(h) = [n \in 1 .. Len(h) |-> TypeStep(h, TypeOf(h), n)]
<1> DEFINE Good(k) == \E f : f = [n \in 1 .. k |-> TypeStep(h, f, n)]
           N == {k \in Nat : k <= Len(h) => Good(k)}
<1>1. Good(0)
  <2> DEFINE f == [n \in 1 .. 0 |-> n]
  <2>1. f = [n \in 1 .. 0 |-> TypeStep(h, f, n)]
    OBVIOUS
  <2> HIDE DEF f
  <2> QED BY <2>1
<1>2. ASSUME NEW k \in Nat, k + 1 <= Len(h), Good(k) PROVE Good(k + 1)
  <2>1. PICK f : f = [n \in 1 .. k |-> TypeStep(h, f, n)]
    BY <1>2
  <2> DEFINE g == [n \in 1 .. k + 1 |-> TypeStep(h, f, n)]
  <2>2. \A m \in 1 .. k : m \in 1 .. k + 1 /\ g[m] = f[m]
    BY <2>1
  <2>3. ASSUME NEW n \in 1 .. k + 1 PROVE TypeStep(h, f, n) = TypeStep(h, g, n)
    <3>1. n \in 1 .. Len(h) /\ 1 .. n - 1 \subseteq 1 .. k
      BY <1>2
    <3>2. \A m \in 1 .. n - 1 : f[m] = g[m]
      BY <2>2, <3>1
    <3> HIDE DEF g
    <3> QED BY <3>1, <3>2, TypeStepLocal
  <2>4. g = [n \in 1 .. k + 1 |-> TypeStep(h, g, n)]
    <3>1. g = [n \in 1 .. k + 1 |-> TypeStep(h, f, n)]
      OBVIOUS
    <3> HIDE DEF g
    <3> QED BY <2>3, <3>1
  <2> HIDE DEF g
  <2> QED BY <2>4
<1>3. N = Nat
  <2>1. N \in SUBSET Nat /\ 0 \in N /\ \A n \in N : n + 1 \in N
    <3>1. Len(h) \in Nat
      BY DEF IsHeap
    <3> HIDE DEF Good
    <3> QED BY <1>1, <1>2, <3>1
  <2> HIDE DEF N
  <2> QED BY <2>1, SetInduction
<1>4. \E f : f = [n \in 1 .. Len(h) |-> TypeStep(h, f, n)]
  <2>1. Len(h) \in Nat
    BY DEF IsHeap
  <2>2. Len(h) \in N
    <3> HIDE DEF N
    <3> QED BY <1>3, <2>1
  <2> HIDE DEF Good
  <2>3. Good(Len(h))
    BY <2>1, <2>2
  <2> QED BY <2>3 DEF Good
<1>5. DOMAIN h = 1 .. Len(h)
  BY DEF IsHeap
<1>6. TypeOf(h) = CHOOSE f : f = [n \in 1 .. Len(h) |-> TypeStep(h, f, n)]
  BY <1>5 DEF TypeOf, TypeStep
<1> QED BY <1>4, <1>6

\* UsesStep asks only for what comes before.
LEMMA UsesStepLocal ==
  ASSUME NEW h, IsHeap(h), NEW name, NEW n \in 1 .. Len(h), NEW f, NEW g, \A m \in 1 .. n - 1 : f[m] = g[m]
  PROVE  UsesStep(h, name, f, n) = UsesStep(h, name, g, n)
<1>1. CASE IsFunc(h, n)
  <2>1. Each(f, h[n].args) = Each(g, h[n].args) /\ h[n].kind = "func"
    BY <1>1, EachSame DEF IsFunc
  <2>2. \A none : EachQuoted(f, h, h[n].args, none) = EachQuoted(g, h, h[n].args, none)
    BY <1>1, QuotedSame
  <2> QED BY <1>1, <2>1, <2>2 DEF UsesStep, IsFunc
<1>2. CASE IsValue(h, n)
  BY <1>2 DEF IsValue, Quoted, UsesStep, Literals, IntVal, StrVal, Lexpr
<1> QED BY <1>1, <1>2, NodeIs

\* Uses satisfies its recursive equation.
LEMMA UsesIs ==
  ASSUME NEW h, IsHeap(h), NEW name
  PROVE  Uses(h, name) = [n \in 1 .. Len(h) |-> UsesStep(h, name, Uses(h, name), n)]
<1> DEFINE Good(k) == \E f : f = [n \in 1 .. k |-> UsesStep(h, name, f, n)]
           N == {k \in Nat : k <= Len(h) => Good(k)}
<1>1. Good(0)
  <2> DEFINE f == [n \in 1 .. 0 |-> n]
  <2>1. f = [n \in 1 .. 0 |-> UsesStep(h, name, f, n)]
    OBVIOUS
  <2> HIDE DEF f
  <2> QED BY <2>1
<1>2. ASSUME NEW k \in Nat, k + 1 <= Len(h), Good(k) PROVE Good(k + 1)
  <2>1. PICK f : f = [n \in 1 .. k |-> UsesStep(h, name, f, n)]
    BY <1>2
  <2> DEFINE g == [n \in 1 .. k + 1 |-> UsesStep(h, name, f, n)]
  <2>2. \A m \in 1 .. k : m \in 1 .. k + 1 /\ g[m] = f[m]
    BY <2>1
  <2>3. ASSUME NEW n \in 1 .. k + 1 PROVE UsesStep(h, name, f, n) = UsesStep(h, name, g, n)
    <3>1. n \in 1 .. Len(h) /\ 1 .. n - 1 \subseteq 1 .. k
      BY <1>2
    <3>2. \A m \in 1 .. n - 1 : f[m] = g[m]
      BY <2>2, <3>1
    <3> HIDE DEF g
    <3> QED BY <3>1, <3>2, UsesStepLocal
  <2>4. g = [n \in 1 .. k + 1 |-> UsesStep(h, name, g, n)]
    <3>1. g = [n \in 1 .. k + 1 |-> UsesStep(h, name, f, n)]
      OBVIOUS
    <3> HIDE DEF g
    <3> QED BY <2>3, <3>1
  <2> HIDE DEF g
  <2> QED BY <2>4
<1>3. N = Nat
  <2>1. N \in SUBSET Nat /\ 0 \in N /\ \A n \in N : n + 1 \in N
    <3>1. Len(h) \in Nat
      BY DEF IsHeap
    <3> HIDE DEF Good
    <3> QED BY <1>1, <1>2, <3>1
  <2> HIDE DEF N
  <2> QED BY <2>1, SetInduction
<1>4. \E f : f = [n \in 1 .. Len(h) |-> UsesStep(h, name, f, n)]
  <2>1. Len(h) \in Nat
    BY DEF IsHeap
  <2>2. Len(h) \in N
    <3> HIDE DEF N
    <3> QED BY <1>3, <2>1
  <2> HIDE DEF Good
  <2>3. Good(Len(h))
    BY <2>1, <2>2
  <2> QED BY <2>3 DEF Good
<1>5. DOMAIN h = 1 .. Len(h)
  BY DEF IsHeap
<1>6. Uses(h, name) = CHOOSE f : f = [n \in 1 .. Len(h) |-> UsesStep(h, name, f, n)]
  BY <1>5 DEF Uses, UsesStep
<1> QED BY <1>4, <1>6

\* CallsStep asks only for what comes before.
LEMMA CallsStepLocal ==
  ASSUME NEW h, IsHeap(h), NEW n \in 1 .. Len(h), NEW f, NEW g, \A m \in 1 .. n - 1 : f[m] = g[m]
  PROVE  CallsStep(h, f, n) = CallsStep(h, g, n)
<1>1. CASE IsFunc(h, n)
  <2>1. Each(f, h[n].args) = Each(g, h[n].args) /\ h[n].kind = "func"
    BY <1>1, EachSame DEF IsFunc
  <2>2. \A none : EachQuoted(f, h, h[n].args, none) = EachQuoted(g, h, h[n].args, none)
    BY <1>1, QuotedSame
  <2> QED BY <2>1, <2>2 DEF CallsStep
<1>2. CASE IsValue(h, n)
  BY <1>2 DEF IsValue, CallsStep, Literals, IntVal, StrVal, Lexpr
<1> QED BY <1>1, <1>2, NodeIs

\* Postorder satisfies its recursive equation.
LEMMA PostorderIs ==
  ASSUME NEW h, IsHeap(h)
  PROVE  Postorder(h) = [n \in 1 .. Len(h) |-> CallsStep(h, Postorder(h), n)]
<1> DEFINE Good(k) == \E f : f = [n \in 1 .. k |-> CallsStep(h, f, n)]
           N == {k \in Nat : k <= Len(h) => Good(k)}
<1>1. Good(0)
  <2> DEFINE f == [n \in 1 .. 0 |-> n]
  <2>1. f = [n \in 1 .. 0 |-> CallsStep(h, f, n)]
    OBVIOUS
  <2> HIDE DEF f
  <2> QED BY <2>1
<1>2. ASSUME NEW k \in Nat, k + 1 <= Len(h), Good(k) PROVE Good(k + 1)
  <2>1. PICK f : f = [n \in 1 .. k |-> CallsStep(h, f, n)]
    BY <1>2
  <2> DEFINE g == [n \in 1 .. k + 1 |-> CallsStep(h, f, n)]
  <2>2. \A m \in 1 .. k : m \in 1 .. k + 1 /\ g[m] = f[m]
    BY <2>1
  <2>3. ASSUME NEW n \in 1 .. k + 1 PROVE CallsStep(h, f, n) = CallsStep(h, g, n)
    <3>1. n \in 1 .. Len(h) /\ 1 .. n - 1 \subseteq 1 .. k
      BY <1>2
    <3>2. \A m \in 1 .. n - 1 : f[m] = g[m]
      BY <2>2, <3>1
    <3> HIDE DEF g
    <3> QED BY <3>1, <3>2, CallsStepLocal
  <2>4. g = [n \in 1 .. k + 1 |-> CallsStep(h, g, n)]
    <3>1. g = [n \in 1 .. k + 1 |-> CallsStep(h, f, n)]
      OBVIOUS
    <3> HIDE DEF g
    <3> QED BY <2>3, <3>1
  <2> HIDE DEF g
  <2> QED BY <2>4
<1>3. N = Nat
  <2>1. N \in SUBSET Nat /\ 0 \in N /\ \A n \in N : n + 1 \in N
    <3>1. Len(h) \in Nat
      BY DEF IsHeap
    <3> HIDE DEF Good
    <3> QED BY <1>1, <1>2, <3>1
  <2> HIDE DEF N
  <2> QED BY <2>1, SetInduction
<1>4. \E f : f = [n \in 1 .. Len(h) |-> CallsStep(h, f, n)]
  <2>1. Len(h) \in Nat
    BY DEF IsHeap
  <2>2. Len(h) \in N
    <3> HIDE DEF N
    <3> QED BY <1>3, <2>1
  <2> HIDE DEF Good
  <2>3. Good(Len(h))
    BY <2>1, <2>2
  <2> QED BY <2>3 DEF Good
<1>5. DOMAIN h = 1 .. Len(h)
  BY DEF IsHeap
<1>6. Postorder(h) = CHOOSE f : f = [n \in 1 .. Len(h) |-> CallsStep(h, f, n)]
  BY <1>5 DEF Postorder, CallsStep
<1> QED BY <1>4, <1>6

-----------------------------------------------------------------------------
(* Values, results and the loops of the evaluator.                         *)

Calls == DOMAIN API
Gives == {"void", "measurement", "event", "feature"}

\* What an expression at n can come to: what it quotes comes before it.
Vals(n) ==
  {IntVal(i) : i \in Int} \cup {StrVal, Error} \cup {Other(t) : t \in Gives}
    \cup {Lexpr(m) : m \in 1 .. n - 1}
Res(n)  == [val : Vals(n), calls : Seq(Calls)]
Done(n) == [failed : BOOLEAN, vals : Seq(Vals(n)), calls : Seq(Calls)]

\* A value is an integer, the string, an error, an object or an expression before n.
LEMMA ValIs ==
  ASSUME NEW n \in Nat, NEW v \in Vals(n)
  PROVE  /\ v.type \in {"int", "string", "error", "lexpr"} \cup Gives
         /\ v.type = "int" => v.int \in Int /\ v = IntVal(v.int)
         /\ v.type = "lexpr" => v.lexpr \in 1 .. n - 1 /\ v = Lexpr(v.lexpr)
         /\ v.type \in Gives => v = Other(v.type)
         /\ v.type = "error" => v = Error
         /\ v.type = "string" => v = StrVal
BY DEF Vals, IntVal, StrVal, Error, Other, Lexpr, Gives

\* A value of what comes earlier is one of what comes later.
LEMMA ValsGrow ==
  ASSUME NEW m \in Nat, NEW n \in Nat, m <= n
  PROVE  Vals(m) \subseteq Vals(n) /\ Res(m) \subseteq Res(n)
<1>1. 1 .. m - 1 \subseteq 1 .. n - 1
  OBVIOUS
<1>2. {Lexpr(k) : k \in 1 .. m - 1} \subseteq {Lexpr(k) : k \in 1 .. n - 1}
  BY <1>1
<1>3. Vals(m) \subseteq Vals(n)
  BY <1>2 DEF Vals
<1> QED BY <1>3 DEF Res

\* The values that the functions yield are there.
LEMMA ValsHave ==
  ASSUME NEW n \in Nat
  PROVE  /\ Error \in Vals(n) /\ StrVal \in Vals(n) /\ \A i \in Int : IntVal(i) \in Vals(n)
         /\ \A t \in Gives : Other(t) \in Vals(n)
         /\ \A m \in 1 .. n - 1 : Lexpr(m) \in Vals(n)
BY DEF Vals

\* The loop over the arguments in ME_RLI_IR_func_eval
ArgStep(d, r) ==
  IF d.failed THEN d
  ELSE [failed |-> Failed(r), vals |-> Append(d.vals, r.val), calls |-> d.calls \o r.calls]

ArgsDone(results, L, n, done) ==
  /\ done \in [0 .. L -> Done(n)] /\ done[0] = NothingDone
  /\ \A k \in 1 .. L : done[k] = ArgStep(done[k - 1], results[k])
  /\ EvalArgs(results) = done[L]

\* One argument more keeps what is done well formed.
LEMMA ArgStepType ==
  ASSUME NEW n \in Nat, NEW d \in Done(n), NEW r \in Res(n)
  PROVE  ArgStep(d, r) \in Done(n)
<1>1. d.vals \in Seq(Vals(n)) /\ d.calls \in Seq(Calls) /\ r.val \in Vals(n) /\ r.calls \in Seq(Calls)
  BY DEF Done, Res
<1>2. Append(d.vals, r.val) \in Seq(Vals(n)) /\ d.calls \o r.calls \in Seq(Calls)
  BY <1>1
<1>3. Failed(r) \in BOOLEAN
  BY DEF Failed
<1> QED BY <1>2, <1>3 DEF ArgStep, Done

\* What is done before the first argument is well formed.
LEMMA NothingIsDone ==
  ASSUME NEW n \in Nat PROVE NothingDone \in Done(n)
BY DEF NothingDone, Done

\* The loop over the arguments, argument by argument
LEMMA ArgsAreDone ==
  ASSUME NEW L \in Nat, NEW n \in Nat, NEW results \in [1 .. L -> Res(n)]
  PROVE  \E done : ArgsDone(results, L, n, done)
<1> DEFINE V == Done(n)
           G == [k \in 1 .. L |-> [d \in V |-> ArgStep(d, results[k])]]
           Eq(f) == f = [k \in 0 .. L |-> IF k = 0 THEN NothingDone ELSE ArgStep(f[k - 1], results[k])]
<1>1. Len(results) = L
  <2>1. results \in Seq(Res(n))
    OBVIOUS
  <2>2. DOMAIN results = 1 .. Len(results) /\ Len(results) \in Nat
    BY <2>1
  <2> QED BY <2>2
<1>2. NothingDone \in V /\ G \in [1 .. L -> [V -> V]]
  <2>1. \A k \in 1 .. L : \A d \in V : ArgStep(d, results[k]) \in V
    BY ArgStepType
  <2> HIDE DEF V
  <2>2. G \in [1 .. L -> [V -> V]]
    BY <2>1
  <2> QED BY <2>2, NothingIsDone DEF V
<1>3. PICK f : Goes(f, V, NothingDone, L, G)
  <2> HIDE DEF V, G
  <2> QED BY <1>2, RecursionExists
<1>4. Eq(f)
  <2>1. f \in [0 .. L -> V] /\ f[0] = NothingDone /\ \A k \in 1 .. L : f[k] = G[k][f[k - 1]]
    BY <1>3 DEF Goes
  <2>2. \A k \in 1 .. L : k - 1 \in 0 .. L /\ f[k - 1] \in V
    BY <2>1
  <2>3. \A k \in 1 .. L : f[k] = ArgStep(f[k - 1], results[k])
    <3> HIDE DEF V
    <3> QED BY <2>1, <2>2
  <2>4. f = [k \in 0 .. L |-> f[k]]
    BY <2>1
  <2> HIDE DEF V, G
  <2> QED BY <2>1, <2>3, <2>4
<1> DEFINE w == CHOOSE g : Eq(g)
<1>5. Eq(w)
  <2> HIDE DEF Eq
  <2> QED BY <1>4
<1>6. EvalArgs(results) = w[L]
  BY <1>1 DEF EvalArgs, ArgStep
<1>7. Follows(w, V, NothingDone, L, G)
  <2>1. w = [k \in 0 .. L |-> IF k = 0 THEN NothingDone ELSE ArgStep(w[k - 1], results[k])]
    BY <1>5
  <2> HIDE DEF w
  <2>2. w = [k \in 0 .. L |-> w[k]] /\ w[0] = NothingDone
    BY <2>1
  <2>3. \A k \in 1 .. L : w[k] = ArgStep(w[k - 1], results[k])
    BY <2>1
  <2>4. \A k \in 1 .. L : w[k - 1] \in V => w[k] = G[k][w[k - 1]]
    <3> HIDE DEF V
    <3> QED BY <2>3
  <2> HIDE DEF V, G
  <2> QED BY <2>2, <2>4 DEF Follows
<1>8. Goes(w, V, NothingDone, L, G)
  <2> HIDE DEF w, V, G
  <2> QED BY <1>2, <1>7, RecursionIs
<1>9. ArgsDone(results, L, n, w)
  <2>1. w \in [0 .. L -> V] /\ w[0] = NothingDone
    <3> HIDE DEF w, V, G
    <3> QED BY <1>8 DEF Goes
  <2>3. w = [k \in 0 .. L |-> IF k = 0 THEN NothingDone ELSE ArgStep(w[k - 1], results[k])]
    BY <1>5
  <2> HIDE DEF w
  <2>2. \A k \in 1 .. L : w[k] = ArgStep(w[k - 1], results[k])
    BY <2>3
  <2> QED BY <2>1, <2>2, <1>6 DEF ArgsDone
<1> HIDE DEF w
<1> QED BY <1>9

-----------------------------------------------------------------------------
(* Sequences put one after the other.                                      *)

\* Seqs put one after the other, up to each of them
Joins(p, L, S, J) ==
  /\ J \in [0 .. L -> Seq(S)] /\ J[0] = <<>>
  /\ \A k \in 1 .. L : J[k] = J[k - 1] \o p[k]

\* What FlattenSeq yields
LEMMA FlattenIs ==
  ASSUME NEW S, NEW L \in Nat, NEW p \in [1 .. L -> Seq(S)]
  PROVE  \E J : Joins(p, L, S, J) /\ FlattenSeq(p) = J[L]
<1> DEFINE V == Seq(S)
           G == [k \in 1 .. L |-> [d \in V |-> d \o p[k]]]
           Eq(f) == f = [i \in 1 .. L |-> IF i = 1 THEN p[i] ELSE f[i - 1] \o p[i]]
<1>1. Len(p) = L
  <2>1. p \in Seq(Seq(S))
    OBVIOUS
  <2>2. DOMAIN p = 1 .. Len(p) /\ Len(p) \in Nat
    BY <2>1
  <2> QED BY <2>2
<1>2. <<>> \in V /\ G \in [1 .. L -> [V -> V]]
  <2>1. \A k \in 1 .. L : \A d \in V : d \o p[k] \in V
    OBVIOUS
  <2>2. <<>> \in V
    OBVIOUS
  <2> HIDE DEF V
  <2> QED BY <2>1, <2>2
<1>3. PICK f : Goes(f, V, <<>>, L, G)
  <2> HIDE DEF V, G
  <2> QED BY <1>2, RecursionExists
<1>4. Joins(p, L, S, f)
  <2>1. f \in [0 .. L -> V] /\ f[0] = <<>> /\ \A k \in 1 .. L : f[k] = G[k][f[k - 1]]
    BY <1>3 DEF Goes
  <2>2. \A k \in 1 .. L : k - 1 \in 0 .. L /\ f[k - 1] \in V
    BY <2>1
  <2>3. \A k \in 1 .. L : f[k] = f[k - 1] \o p[k]
    <3> HIDE DEF V
    <3> QED BY <2>1, <2>2
  <2> HIDE DEF G
  <2> QED BY <2>1, <2>3 DEF Joins
<1>5. CASE L = 0
  <2>1. f[0] = <<>> /\ p = <<>>
    BY <1>4, <1>5 DEF Joins
  <2>2. FlattenSeq(p) = p
    BY <1>1, <1>5 DEF FlattenSeq
  <2> QED BY <1>4, <1>5, <2>1, <2>2
<1>6. CASE L # 0
  <2> DEFINE e == [i \in 1 .. L |-> f[i]]
  <2>1. Eq(e)
    <3>1. \A i \in 1 .. L : i = 1 => f[i] = p[i]
      <4>1. 1 \in 1 .. L /\ 1 - 1 = 0 /\ p[1] \in Seq(S)
        BY <1>6
      <4>2. f[1] = f[1 - 1] \o p[1] /\ f[0] = <<>>
        BY <1>4, <4>1 DEF Joins
      <4>3. <<>> \o p[1] = p[1]
        BY <4>1
      <4> QED BY <4>1, <4>2, <4>3
    <3>2. \A i \in 1 .. L : i # 1 => f[i] = e[i - 1] \o p[i]
      <4>1. \A i \in 1 .. L : i # 1 => i - 1 \in 1 .. L
        OBVIOUS
      <4>2. \A i \in 1 .. L : f[i] = f[i - 1] \o p[i]
        BY <1>4 DEF Joins
      <4> QED BY <4>1, <4>2
    <3> QED BY <3>1, <3>2
  <2> DEFINE w == CHOOSE g : Eq(g)
  <2>2. Eq(w)
    <3> HIDE DEF Eq
    <3> QED BY <2>1
  <2>3. FlattenSeq(p) = w[L]
    BY <1>1, <1>6 DEF FlattenSeq
  <2>4. w = [i \in 1 .. L |-> IF i = 1 THEN p[i] ELSE w[i - 1] \o p[i]]
    BY <2>2
  <2> HIDE DEF w
  <2> DEFINE u == [k \in 0 .. L |-> IF k = 0 THEN <<>> ELSE w[k]]
  <2>5. u[0] = <<>> /\ \A k \in 1 .. L : u[k] = w[k]
    OBVIOUS
  <2>6. u = [k \in 0 .. L |-> u[k]]
    OBVIOUS
  <2> HIDE DEF u
  <2>7. ASSUME NEW k \in 1 .. L PROVE u[k] = u[k - 1] \o p[k]
    <3>1. p[k] \in Seq(S) /\ <<>> \o p[k] = p[k]
      OBVIOUS
    <3>2. k # 1 => k - 1 \in 1 .. L
      OBVIOUS
    <3>3. w[k] = IF k = 1 THEN p[k] ELSE w[k - 1] \o p[k]
      BY <2>4
    <3>4. u[k] = w[k] /\ (k # 1 => u[k - 1] = w[k - 1]) /\ (k = 1 => u[k - 1] = <<>>)
      BY <3>2, <2>5
    <3> QED BY <3>1, <3>3, <3>4
  <2>8. \A k \in 1 .. L : u[k - 1] \in V => u[k] = G[k][u[k - 1]]
    <3> HIDE DEF V
    <3> QED BY <2>7
  <2>9. Goes(u, V, <<>>, L, G)
    <3>1. Follows(u, V, <<>>, L, G)
      <4> HIDE DEF V, G
      <4> QED BY <2>5, <2>6, <2>8 DEF Follows
    <3> HIDE DEF V, G
    <3> QED BY <1>2, <3>1, RecursionIs
  <2>10. Joins(p, L, S, u)
    <3>1. u \in [0 .. L -> V]
      <4> HIDE DEF V, G
      <4> QED BY <2>9 DEF Goes
    <3> QED BY <2>5, <2>7, <3>1 DEF Joins
  <2>11. u[L] = w[L]
    BY <2>5, <1>6
  <2> QED BY <2>3, <2>10, <2>11
<1> QED BY <1>5, <1>6

-----------------------------------------------------------------------------
(* The loop of seq.                                                        *)

\* The loop of ME_RLI_IR_API_seq
SeqStep(d, v, r) ==
  IF Failed(d) THEN d
  ELSE IF v.type = "lexpr" THEN Yields(d.val, d.calls \o r.calls)
  ELSE Yields(Error, d.calls)

SeqDone(vals, results, L, n, after) ==
  /\ after \in [0 .. L -> Res(n)] /\ after[0] = Yields(Other("void"), <<>>)
  /\ \A k \in 1 .. L : after[k] = SeqStep(after[k - 1], vals[k], results[k])
  /\ EvalSeq(vals, results) = after[L]

\* One expression more keeps the result of seq well formed.
LEMMA SeqStepType ==
  ASSUME NEW n \in Nat, NEW d \in Res(n), NEW v, NEW r \in Res(n)
  PROVE  SeqStep(d, v, r) \in Res(n)
<1>1. d.val \in Vals(n) /\ d.calls \in Seq(Calls) /\ r.calls \in Seq(Calls) /\ Error \in Vals(n)
  BY ValsHave DEF Res
<1>2. d.calls \o r.calls \in Seq(Calls)
  BY <1>1
<1> QED BY <1>1, <1>2 DEF SeqStep, Res, Yields

\* What seq begins with is well formed.
LEMMA VoidRes ==
  ASSUME NEW n \in Nat PROVE Yields(Other("void"), <<>>) \in Res(n)
<1>1. Other("void") \in Vals(n)
  BY ValsHave DEF Gives
<1> QED BY <1>1 DEF Yields, Res

\* The loop of seq, expression by expression
LEMMA SeqIsDone ==
  ASSUME NEW n \in Nat, NEW vals \in Seq(Vals(n)), NEW results \in [1 .. Len(vals) -> Res(n)]
  PROVE  \E after : SeqDone(vals, results, Len(vals), n, after)
<1> DEFINE L == Len(vals)
           V == Res(n)
           G == [k \in 1 .. L |-> [d \in V |-> SeqStep(d, vals[k], results[k])]]
           z == Yields(Other("void"), <<>>)
           Eq(f) == f = [k \in 0 .. L |-> IF k = 0 THEN z ELSE SeqStep(f[k - 1], vals[k], results[k])]
<1>1. L \in Nat
  OBVIOUS
<1>2. z \in V /\ G \in [1 .. L -> [V -> V]]
  <2>1. \A k \in 1 .. L : \A d \in V : SeqStep(d, vals[k], results[k]) \in V
    BY SeqStepType
  <2> HIDE DEF V, L
  <2>2. G \in [1 .. L -> [V -> V]]
    BY <2>1
  <2> QED BY <2>2, VoidRes DEF V
<1> HIDE DEF L
<1>3. PICK f : Goes(f, V, z, L, G)
  <2> HIDE DEF V, G, z
  <2> QED BY <1>1, <1>2, RecursionExists
<1>4. Eq(f)
  <2>1. f \in [0 .. L -> V] /\ f[0] = z /\ \A k \in 1 .. L : f[k] = G[k][f[k - 1]]
    <3> HIDE DEF z, V, G
    <3> QED BY <1>3 DEF Goes
  <2> HIDE DEF z
  <2>2. \A k \in 1 .. L : k - 1 \in 0 .. L /\ f[k - 1] \in V
    <3> HIDE DEF V, G
    <3> QED BY <1>1, <2>1
  <2>3. \A k \in 1 .. L : f[k] = SeqStep(f[k - 1], vals[k], results[k])
    <3> HIDE DEF V
    <3> QED BY <2>1, <2>2
  <2> HIDE DEF V, G
  <2>4. f = [k \in 0 .. L |-> f[k]]
    BY <2>1
  <2>5. \A k \in 0 .. L : f[k] = IF k = 0 THEN z ELSE SeqStep(f[k - 1], vals[k], results[k])
    <3>1. \A k \in 0 .. L : k = 0 \/ k \in 1 .. L
      BY <1>1
    <3> QED BY <2>1, <2>3, <3>1
  <2> QED BY <2>4, <2>5
<1> DEFINE w == CHOOSE g : Eq(g)
<1>5. Eq(w)
  <2> HIDE DEF Eq
  <2> QED BY <1>4
<1>6. EvalSeq(vals, results) = w[L]
  BY DEF EvalSeq, SeqStep, L
<1>7. w = [k \in 0 .. L |-> IF k = 0 THEN z ELSE SeqStep(w[k - 1], vals[k], results[k])]
  BY <1>5
<1> HIDE DEF w, z
<1>8. w = [k \in 0 .. L |-> w[k]] /\ w[0] = z
  BY <1>1, <1>7
<1>9. \A k \in 1 .. L : w[k] = SeqStep(w[k - 1], vals[k], results[k])
  <2>1. \A k \in 1 .. L : k \in 0 .. L /\ k # 0
    BY <1>1
  <2> QED BY <1>7, <2>1
<1>10. Goes(w, V, z, L, G)
  <2>1. \A k \in 1 .. L : w[k - 1] \in V => w[k] = G[k][w[k - 1]]
    <3> HIDE DEF V
    <3> QED BY <1>9
  <2> HIDE DEF V, G
  <2>2. Follows(w, V, z, L, G)
    BY <1>8, <2>1 DEF Follows
  <2> QED BY <1>1, <1>2, <2>2, RecursionIs
<1>11. w \in [0 .. L -> V]
  <2> HIDE DEF V, G
  <2> QED BY <1>10 DEF Goes
<1> QED BY <1>6, <1>8, <1>9, <1>11 DEF SeqDone, L, z

-----------------------------------------------------------------------------
(* The functions of the API.                                               *)

Below(f, n) == \A m \in 1 .. n - 1 : f[m] \in Res(m)

\* No call of the API gives an error or an expression.
LEMMA APIGives ==
  \A c \in Calls : API[c].gives \in Gives \cup {"int"}
BY DEF Calls, API, Gives

\* A name is a word, and a call if the API has that word.
LEMMA CallName ==
  ASSUME NEW name \in [1 .. 1 -> Words]
  PROVE  name = <<name[1]>> /\ Len(name) = 1 /\ (IsCall(name) <=> name[1] \in Calls)
<1>1. name = <<name[1]>> /\ Len(name) = 1
  OBVIOUS
<1> QED BY <1>1 DEF IsCall, Calls

\* What a call gives is a value of the type that the API says.
LEMMA ResultType ==
  ASSUME NEW n \in Nat, NEW c \in Calls
  PROVE  Result(c) \in Vals(n) /\ Result(c).type = API[c].gives
<1>1. HookIndex \in Int
  BY RequestsAssumption
<1>2. API[c].gives \in Gives \cup {"int"}
  BY APIGives
<1>3. CASE API[c].gives = "int"
  BY <1>1, <1>3, ValsHave DEF Result, IntVal
<1>4. CASE API[c].gives # "int"
  BY <1>2, <1>4, ValsHave DEF Result, Other
<1> QED BY <1>3, <1>4

\* A call gives a result, whether its arguments are right or wrong.
LEMMA CallAPIType ==
  ASSUME NEW n \in Nat, NEW c \in Calls, NEW vals
  PROVE  CallAPI(c, vals) \in Res(n)
<1>1. Result(c) \in Vals(n) /\ Error \in Vals(n)
  BY ResultType, ValsHave
<1>2. <<c>> \in Seq(Calls) /\ <<>> \in Seq(Calls)
  OBVIOUS
<1>3. Yields(Result(c), <<c>>) \in Res(n) /\ Yields(Error, <<>>) \in Res(n)
  BY <1>1, <1>2 DEF Yields, Res
<1> QED BY <1>3 DEF CallAPI

-----------------------------------------------------------------------------
(* The evaluator at each node.                                             *)

EvalStep(h, f, n) ==
  IF h[n].kind = "value" THEN Yields(h[n].value, <<>>) ELSE EvalFunc(f, h[n])

\* The arguments of a function come before it, and so do their results.
LEMMA EachRes ==
  ASSUME NEW h, NEW n \in Nat, IsFunc(h, n), NEW f, Below(f, n)
  PROVE  Each(f, h[n].args) \in [1 .. Len(h[n].args) -> Res(n)]
<1>1. ASSUME NEW k \in 1 .. Len(h[n].args) PROVE f[h[n].args[k]] \in Res(n)
  <2> DEFINE a == h[n].args[k]
  <2>1. a \in 1 .. n - 1 /\ a \in Nat /\ a <= n
    BY DEF IsFunc
  <2>2. Res(a) \subseteq Res(n)
    BY <2>1, ValsGrow
  <2> QED BY <2>1, <2>2 DEF Below
<1> QED BY <1>1 DEF Each

\* What seq is given are results.
LEMMA SeqResultsRes ==
  ASSUME NEW n \in Nat, NEW vals \in Seq(Vals(n)), NEW f, Below(f, n)
  PROVE  SeqResults(f, vals) \in [1 .. Len(vals) -> Res(n)]
<1>1. Yields(Error, <<>>) \in Res(n)
  BY ValsHave DEF Yields, Res
<1>2. ASSUME NEW k \in 1 .. Len(vals), vals[k].type = "lexpr" PROVE f[vals[k].lexpr] \in Res(n)
  <2>1. vals[k] \in Vals(n)
    OBVIOUS
  <2> DEFINE m == vals[k].lexpr
  <2>2. m \in 1 .. n - 1 /\ m \in Nat /\ m <= n
    BY <1>2, <2>1, ValIs
  <2>3. Res(m) \subseteq Res(n)
    BY <2>2, ValsGrow
  <2> QED BY <2>2, <2>3 DEF Below
<1> QED BY <1>1, <1>2 DEF SeqResults

\* What seq is given depends only on what comes before it.
LEMMA SeqResultsSame ==
  ASSUME NEW n \in Nat, NEW vals \in Seq(Vals(n)), NEW f, NEW g, \A m \in 1 .. n - 1 : f[m] = g[m]
  PROVE  SeqResults(f, vals) = SeqResults(g, vals)
<1>1. ASSUME NEW k \in 1 .. Len(vals), vals[k].type = "lexpr"
      PROVE  f[vals[k].lexpr] = g[vals[k].lexpr]
  <2>1. vals[k] \in Vals(n)
    OBVIOUS
  <2> QED BY <1>1, <2>1, ValIs
<1> QED BY <1>1 DEF SeqResults

\* print gives a result.
LEMMA PrintType ==
  ASSUME NEW n \in Nat, NEW vals PROVE EvalPrint(vals) \in Res(n)
<1>1. Other("void") \in Vals(n) /\ Error \in Vals(n)
  BY ValsHave DEF Gives
<1>2. Yields(Other("void"), <<>>) \in Res(n) /\ Yields(Error, <<>>) \in Res(n)
  BY <1>1 DEF Yields, Res
<1> QED BY <1>2 DEF EvalPrint

\* eq gives a result.
LEMMA EqType ==
  ASSUME NEW n \in Nat, NEW vals PROVE EvalEq(vals) \in Res(n)
<1>1. IntVal(0) \in Vals(n) /\ IntVal(1) \in Vals(n) /\ Error \in Vals(n)
  BY ValsHave
<1> QED BY <1>1 DEF EvalEq, Yields, Res

\* "if" gives a result: one of its arguments is a value already.
LEMMA IfType ==
  ASSUME NEW n \in Nat, NEW vals \in Seq(Vals(n)) PROVE EvalIf(vals) \in Res(n)
<1>1. Error \in Vals(n) /\ (Len(vals) = 3 => vals[2] \in Vals(n) /\ vals[3] \in Vals(n))
  BY ValsHave
<1> QED BY <1>1 DEF EvalIf, Yields, Res

\* So does every function, of the API or not, with any arguments.
LEMMA ApplyType ==
  ASSUME NEW n \in Nat, NEW name \in [1 .. 1 -> Words], NEW vals \in Seq(Vals(n)), NEW f, Below(f, n)
  PROVE  Apply(f, name, vals) \in Res(n)
<1>1. EvalSeq(vals, SeqResults(f, vals)) \in Res(n)
  <2>1. PICK after : SeqDone(vals, SeqResults(f, vals), Len(vals), n, after)
    BY SeqResultsRes, SeqIsDone
  <2>2. Len(vals) \in 0 .. Len(vals)
    OBVIOUS
  <2> QED BY <2>1, <2>2 DEF SeqDone
<1>2. IsCall(name) => CallAPI(name[1], vals) \in Res(n)
  BY CallName, CallAPIType
<1>3. Yields(Error, <<>>) \in Res(n)
  BY ValsHave DEF Yields, Res
<1> QED BY <1>1, <1>2, <1>3, PrintType, EqType, IfType DEF Apply

\* A value that is written is its own result.
LEMMA ValueRes ==
  ASSUME NEW h, NEW n \in Nat, IsValue(h, n)
  PROVE  h[n].value \in Vals(n) /\ Yields(h[n].value, <<>>) \in Res(n)
<1>1. h[n].value \in Vals(n)
  <2>1. CASE h[n].value \in Literals
    BY <2>1, ValsHave DEF Literals
  <2>2. CASE h[n].value = Lexpr(h[n].value.lexpr) /\ h[n].value.lexpr \in 1 .. n - 1
    BY <2>2, ValsHave
  <2> QED BY <2>1, <2>2 DEF IsValue
<1> QED BY <1>1 DEF Yields, Res

\* What the evaluation of a function does, in parts
LEMMA FuncDone ==
  ASSUME NEW h, NEW n \in Nat, IsFunc(h, n), NEW f, Below(f, n)
  PROVE  \E done : /\ ArgsDone(Each(f, h[n].args), Len(h[n].args), n, done)
                   /\ done[Len(h[n].args)] \in Done(n)
                   /\ EvalFunc(f, h[n]) =
                        LET d == done[Len(h[n].args)]
                            r == Apply(f, h[n].name, d.vals)
                        IN IF d.failed THEN Yields(Error, d.calls) ELSE Yields(r.val, d.calls \o r.calls)
<1> DEFINE L == Len(h[n].args)
<1>1. L \in Nat /\ L \in 0 .. L
  BY DEF IsFunc
<1>2. PICK done : ArgsDone(Each(f, h[n].args), L, n, done)
  BY <1>1, EachRes, ArgsAreDone
<1>3. done[L] \in Done(n) /\ EvalArgs(Each(f, h[n].args)) = done[L]
  BY <1>1, <1>2 DEF ArgsDone
<1> QED BY <1>2, <1>3 DEF EvalFunc

\* The evaluator gives a result at each node, ...
LEMMA EvalStepType ==
  ASSUME NEW h, IsHeap(h), NEW n \in 1 .. Len(h), NEW f, Below(f, n)
  PROVE  EvalStep(h, f, n) \in Res(n)
<1>0. n \in Nat
  BY NodeIs
<1>1. CASE IsValue(h, n)
  BY <1>0, <1>1, ValueRes DEF EvalStep, IsValue
<1>2. CASE IsFunc(h, n)
  <2>1. PICK done : /\ ArgsDone(Each(f, h[n].args), Len(h[n].args), n, done)
                    /\ done[Len(h[n].args)] \in Done(n)
                    /\ EvalFunc(f, h[n]) =
                        LET d == done[Len(h[n].args)]
                            r == Apply(f, h[n].name, d.vals)
                        IN IF d.failed THEN Yields(Error, d.calls) ELSE Yields(r.val, d.calls \o r.calls)
    BY <1>0, <1>2, FuncDone
  <2> DEFINE d == done[Len(h[n].args)]
             r == Apply(f, h[n].name, d.vals)
  <2>2. d.vals \in Seq(Vals(n)) /\ d.calls \in Seq(Calls) /\ Error \in Vals(n)
    BY <1>0, <2>1, ValsHave DEF Done
  <2>3. r \in Res(n)
    BY <1>0, <1>2, <2>2, ApplyType DEF IsFunc
  <2>4. EvalFunc(f, h[n]) = IF d.failed THEN Yields(Error, d.calls) ELSE Yields(r.val, d.calls \o r.calls)
    BY <2>1
  <2> HIDE DEF d, r
  <2>5. r.val \in Vals(n) /\ d.calls \o r.calls \in Seq(Calls)
    BY <2>2, <2>3 DEF Res
  <2>6. EvalFunc(f, h[n]) \in Res(n)
    BY <2>2, <2>4, <2>5 DEF Yields, Res
  <2> QED BY <1>2, <2>6 DEF EvalStep, IsFunc
<1> QED BY <1>1, <1>2, NodeIs

\* ... which depends only on the results of what comes before it.
LEMMA EvalStepLocal ==
  ASSUME NEW h, IsHeap(h), NEW n \in 1 .. Len(h), NEW f, NEW g, Below(f, n), \A m \in 1 .. n - 1 : f[m] = g[m]
  PROVE  EvalStep(h, f, n) = EvalStep(h, g, n)
<1>0. n \in Nat
  BY NodeIs
<1>1. CASE IsValue(h, n)
  BY <1>1 DEF EvalStep, IsValue
<1>2. CASE IsFunc(h, n)
  <2>1. PICK done : /\ ArgsDone(Each(f, h[n].args), Len(h[n].args), n, done)
                    /\ done[Len(h[n].args)] \in Done(n)
    BY <1>0, <1>2, FuncDone
  <2> DEFINE d == EvalArgs(Each(f, h[n].args))
  <2>2. d.vals \in Seq(Vals(n))
    BY <2>1 DEF ArgsDone, Done
  <2>3. Each(f, h[n].args) = Each(g, h[n].args)
    BY <1>2, EachSame
  <2>4. SeqResults(f, d.vals) = SeqResults(g, d.vals)
    BY <1>0, <2>2, SeqResultsSame
  <2> HIDE DEF d
  <2>5. Apply(f, h[n].name, d.vals) = Apply(g, h[n].name, d.vals)
    BY <2>4 DEF Apply
  <2>6. EvalFunc(f, h[n]) = EvalFunc(g, h[n])
    BY <2>3, <2>5 DEF EvalFunc, d
  <2> QED BY <2>6 DEF EvalStep
<1> QED BY <1>1, <1>2, NodeIs

\* Eval satisfies its recursive equation, and yields values of the language.
LEMMA EvalIs ==
  ASSUME NEW h, IsHeap(h)
  PROVE  /\ Eval(h) = [n \in 1 .. Len(h) |-> EvalStep(h, Eval(h), n)]
         /\ \A n \in 1 .. Len(h) : Eval(h)[n] \in Res(n)
<1> DEFINE Ok(f, k) == f = [n \in 1 .. k |-> EvalStep(h, f, n)]
           Typed(f, k) == \A n \in 1 .. k : f[n] \in Res(n)
           Good(k) == \E f : Ok(f, k) /\ Typed(f, k)
           N == {k \in Nat : k <= Len(h) => Good(k)}
<1>0. Len(h) \in Nat
  BY DEF IsHeap
<1>1. Good(0)
  <2> DEFINE f == [n \in 1 .. 0 |-> n]
  <2>1. Ok(f, 0) /\ Typed(f, 0)
    OBVIOUS
  <2> HIDE DEF f, Ok, Typed
  <2> QED BY <2>1
<1>2. ASSUME NEW k \in Nat, k + 1 <= Len(h), Good(k) PROVE Good(k + 1)
  <2>1. PICK f : f = [n \in 1 .. k |-> EvalStep(h, f, n)] /\ Typed(f, k)
    BY <1>2
  <2> DEFINE g == [n \in 1 .. k + 1 |-> EvalStep(h, f, n)]
  <2>2. \A m \in 1 .. k : m \in 1 .. k + 1 /\ g[m] = f[m]
    BY <2>1
  <2>3. ASSUME NEW n \in 1 .. k + 1 PROVE EvalStep(h, f, n) = EvalStep(h, g, n) /\ g[n] \in Res(n)
    <3>1. n \in 1 .. Len(h) /\ 1 .. n - 1 \subseteq 1 .. k
      BY <1>0, <1>2
    <3>2. Below(f, n)
      BY <2>1, <3>1 DEF Below
    <3>3. g[n] = EvalStep(h, f, n)
      OBVIOUS
    <3>4. \A m \in 1 .. n - 1 : f[m] = g[m]
      BY <2>2, <3>1
    <3> HIDE DEF g
    <3> QED BY <3>1, <3>2, <3>3, <3>4, EvalStepLocal, EvalStepType
  <2>4. g = [n \in 1 .. k + 1 |-> EvalStep(h, g, n)]
    <3>1. g = [n \in 1 .. k + 1 |-> EvalStep(h, f, n)]
      OBVIOUS
    <3> HIDE DEF g
    <3> QED BY <2>3, <3>1
  <2> HIDE DEF g
  <2> QED BY <2>3, <2>4
<1>3. Good(Len(h))
  <2>1. N \in SUBSET Nat /\ 0 \in N /\ \A n \in N : n + 1 \in N
    <3> HIDE DEF Good
    <3> QED BY <1>0, <1>1, <1>2
  <2>2. N = Nat
    <3> HIDE DEF N
    <3> QED BY <2>1, SetInduction
  <2>3. Len(h) \in N
    <3> HIDE DEF N
    <3> QED BY <1>0, <2>2
  <2> HIDE DEF Good
  <2> QED BY <1>0, <2>3
<1>4. \E f : f = [n \in 1 .. Len(h) |-> EvalStep(h, f, n)]
  BY <1>3
<1>5. DOMAIN h = 1 .. Len(h)
  BY DEF IsHeap
<1>6. Eval(h) = CHOOSE f : f = [n \in 1 .. Len(h) |-> EvalStep(h, f, n)]
  BY <1>5 DEF Eval, EvalStep
<1>7. Eval(h) = [n \in 1 .. Len(h) |-> EvalStep(h, Eval(h), n)]
  BY <1>4, <1>6
<1> DEFINE e == Eval(h)
           M == {k \in Nat : k <= Len(h) => \A n \in 1 .. k : e[n] \in Res(n)}
<1> HIDE DEF e
<1>8. M = Nat
  <2>1. M \in SUBSET Nat /\ 0 \in M
    OBVIOUS
  <2>2. ASSUME NEW k \in M PROVE k + 1 \in M
    <3> SUFFICES ASSUME k + 1 <= Len(h) PROVE \A n \in 1 .. k + 1 : e[n] \in Res(n)
      OBVIOUS
    <3>1. \A n \in 1 .. k : e[n] \in Res(n)
      OBVIOUS
    <3>2. Below(e, k + 1) /\ k + 1 \in 1 .. Len(h)
      BY <3>1, <1>0 DEF Below
    <3>3. e[k + 1] = EvalStep(h, e, k + 1)
      BY <1>7, <3>2 DEF e
    <3>4. e[k + 1] \in Res(k + 1)
      BY <3>2, <3>3, EvalStepType
    <3>5. \A n \in 1 .. k + 1 : n \in 1 .. k \/ n = k + 1
      OBVIOUS
    <3> QED BY <3>1, <3>4, <3>5
  <2> HIDE DEF M
  <2> QED BY <2>1, <2>2, SetInduction
<1>9. Len(h) \in M
  <2> HIDE DEF M
  <2> QED BY <1>0, <1>8
<1> QED BY <1>0, <1>7, <1>9 DEF e

-----------------------------------------------------------------------------
(* Beginnings of sequences of calls.                                       *)

\* s is how t begins.
Begins(s, t) == \E u \in Seq(Calls) : t = s \o u

\* Which is what IsPrefix of the library says of it.
LEMMA BeginsIsPrefix ==
  ASSUME NEW s \in Seq(Calls), NEW t \in Seq(Calls), Begins(s, t)
  PROVE  IsPrefix(s, t)
<1>1. PICK u \in Seq(Calls) : t = s \o u
  BY DEF Begins
<1>2. Len(s) <= Len(t) /\ Len(s) \in Nat /\ Len(t) \in Nat
  BY <1>1
<1>3. SubSeq(t, 1, Len(s)) = SubSeq(s, 1, Len(s))
  BY <1>1
<1> QED BY <1>2, <1>3 DEF IsPrefix

\* A sequence begins with itself and with each of its parts at the front.
LEMMA BeginsAll ==
  ASSUME NEW s \in Seq(Calls)
  PROVE  Begins(s, s) /\ \A t \in Seq(Calls) : Begins(s, s \o t)
<1>1. s = s \o <<>> /\ <<>> \in Seq(Calls)
  OBVIOUS
<1> QED BY <1>1 DEF Begins

\* More at the end of both, or before both, changes nothing.
LEMMA BeginsMore ==
  ASSUME NEW s \in Seq(Calls), NEW t \in Seq(Calls), NEW v \in Seq(Calls), Begins(s, t)
  PROVE  Begins(s, t \o v) /\ Begins(v \o s, v \o t)
<1>1. PICK u \in Seq(Calls) : t = s \o u
  BY DEF Begins
<1>2. t \o v = s \o (u \o v) /\ u \o v \in Seq(Calls)
  BY <1>1
<1>3. v \o t = (v \o s) \o u
  BY <1>1
<1> QED BY <1>2, <1>3 DEF Begins

\* What is put together begins with its parts.
LEMMA JoinsBegin ==
  ASSUME NEW L \in Nat, NEW p \in [1 .. L -> Seq(Calls)], NEW J, Joins(p, L, Calls, J),
         NEW k \in 0 .. L
  PROVE  Begins(J[k], J[L])
<1>0. J \in [0 .. L -> Seq(Calls)] /\ \A i \in 1 .. L : J[i] = J[i - 1] \o p[i]
  BY DEF Joins
<1> DEFINE S == {m \in Nat : k + m <= L => Begins(J[k], J[k + m])}
<1>1. 0 \in S
  BY <1>0, BeginsAll
<1>2. ASSUME NEW m \in 0 .. L - 1, m \in S PROVE m + 1 \in S
  <2> SUFFICES ASSUME k + (m + 1) <= L PROVE Begins(J[k], J[k + (m + 1)])
    OBVIOUS
  <2>1. Begins(J[k], J[k + m]) /\ k + m \in 0 .. L
    BY <1>2
  <2>2. k + (m + 1) \in 1 .. L /\ (k + (m + 1)) - 1 = k + m
    OBVIOUS
  <2>3. J[k + (m + 1)] = J[k + m] \o p[k + (m + 1)] /\ p[k + (m + 1)] \in Seq(Calls)
    BY <1>0, <2>2
  <2>4. J[k] \in Seq(Calls) /\ J[k + m] \in Seq(Calls)
    BY <1>0, <2>1
  <2> QED BY <2>1, <2>3, <2>4, BeginsMore
<1>3. \A m \in 0 .. L : m \in S
  <2> HIDE DEF S
  <2> QED BY <1>1, <1>2, InductionUpTo
<1>4. L - k \in S /\ k + (L - k) = L
  <2>1. L - k \in 0 .. L /\ k + (L - k) = L
    OBVIOUS
  <2> HIDE DEF S
  <2> QED BY <1>3, <2>1
<1> QED BY <1>4

\* The calls that an expression says are calls of the API.
LEMMA PostorderCalls ==
  ASSUME NEW h, IsHeap(h)
  PROVE  \A n \in 1 .. Len(h) : Postorder(h)[n] \in Seq(Calls)
<1> DEFINE c == Postorder(h)
           S == {n \in 1 .. Len(h) : c[n] \in Seq(Calls)}
<1>0. c = [n \in 1 .. Len(h) |-> CallsStep(h, c, n)] /\ Len(h) \in Nat
  BY PostorderIs DEF IsHeap
<1> HIDE DEF c
<1>1. ASSUME NEW n \in 1 .. Len(h), \A k \in 1 .. n - 1 : k \in S PROVE n \in S
  <2>0. c[n] = CallsStep(h, c, n) /\ n \in Nat /\ 1 .. n - 1 \subseteq 1 .. Len(h)
    BY <1>0, NodeIs
  <2>1. CASE IsValue(h, n)
    <3>1. c[n] = <<>>
      BY <2>0, <2>1 DEF CallsStep, IsValue
    <3>2. <<>> \in Seq(Calls)
      OBVIOUS
    <3> QED BY <3>1, <3>2
  <2>2. CASE IsFunc(h, n)
    <3> DEFINE L == Len(h[n].args)
    <3>1. L \in Nat /\ \A k \in 1 .. L : h[n].args[k] \in 1 .. n - 1
      BY <2>2 DEF IsFunc
    <3>2. Each(c, h[n].args) \in [1 .. L -> Seq(Calls)]
      BY <1>1, <3>1 DEF Each
    <3>3. FlattenSeq(Each(c, h[n].args)) \in Seq(Calls)
      <4> HIDE DEF L
      <4>1. PICK J : Joins(Each(c, h[n].args), L, Calls, J) /\ FlattenSeq(Each(c, h[n].args)) = J[L]
        BY <3>1, <3>2, FlattenIs
      <4>2. L \in 0 .. L
        BY <3>1
      <4> QED BY <4>1, <4>2 DEF Joins
    <3>4. EachQuoted(c, h, h[n].args, <<>>) \in [1 .. L -> Seq(Calls)]
      <4>1. ASSUME NEW k \in 1 .. L, Quoted(h[h[n].args[k]])
            PROVE  c[h[h[n].args[k]].value.lexpr] \in Seq(Calls)
        <5>1. h[n].args[k] \in 1 .. n - 1 /\ h[n].args[k] \in 1 .. Len(h) /\ n \in Nat
          BY <2>0, <3>1
        <5>2. IsValue(h, h[n].args[k])
          BY <4>1, <5>1, NodeIs DEF Quoted, IsFunc
        <5>3. h[h[n].args[k]].value.lexpr \in 1 .. h[n].args[k] - 1
          BY <4>1, <5>2 DEF Quoted, IsValue, Literals, IntVal, StrVal
        <5>4. h[h[n].args[k]].value.lexpr \in 1 .. n - 1
          BY <5>1, <5>3
        <5> QED BY <1>1, <5>4
      <4>2. <<>> \in Seq(Calls)
        OBVIOUS
      <4> QED BY <4>1, <4>2 DEF EachQuoted
    <3>5. FlattenSeq(EachQuoted(c, h, h[n].args, <<>>)) \in Seq(Calls)
      <4> HIDE DEF L
      <4>1. PICK J : Joins(EachQuoted(c, h, h[n].args, <<>>), L, Calls, J)
                       /\ FlattenSeq(EachQuoted(c, h, h[n].args, <<>>)) = J[L]
        BY <3>1, <3>4, FlattenIs
      <4>2. L \in 0 .. L
        BY <3>1
      <4> QED BY <4>1, <4>2 DEF Joins
    <3>6. IsCall(h[n].name) => h[n].name \in Seq(Calls)
      <4>1. h[n].name = <<h[n].name[1]>> /\ (IsCall(h[n].name) <=> h[n].name[1] \in Calls)
        BY <2>2, CallName DEF IsFunc
      <4>2. \A x \in Calls : <<x>> \in Seq(Calls)
        OBVIOUS
      <4> HIDE DEF L, S
      <4> QED BY <4>1, <4>2
    <3>7. CallsStep(h, c, n) \in Seq(Calls)
      BY <2>2, <3>3, <3>5, <3>6 DEF CallsStep, IsFunc
    <3> QED BY <2>0, <3>7
  <2> QED BY <2>1, <2>2, NodeIs
<1>2. \A n \in 1 .. Len(h) : n \in S
  <2> HIDE DEF S
  <2> QED BY <1>0, <1>1, InductionFromBelow
<1> QED BY <1>2 DEF c

-----------------------------------------------------------------------------
(* What the evaluation of a function comes to.                             *)

\* The first m arguments have not failed: their values and calls are there.
ArgsOk(results, J, n, d, m) ==
  /\ ~d.failed /\ d.vals \in Seq(Vals(n)) /\ Len(d.vals) = m
  /\ \A j \in 1 .. m : d.vals[j] = results[j].val
  /\ d.calls = J[m]

\* One more argument that does not fail
LEMMA ArgsOkStep ==
  ASSUME NEW n \in Nat, NEW results, NEW J, NEW d, NEW m \in Nat, ArgsOk(results, J, n, d, m),
         results[m + 1] \in Res(n), ~Failed(results[m + 1]),
         J[m + 1] = J[m] \o results[m + 1].calls
  PROVE  ArgsOk(results, J, n, ArgStep(d, results[m + 1]), m + 1)
<1> DEFINE r == results[m + 1]
           D == [failed |-> FALSE, vals |-> Append(d.vals, r.val), calls |-> d.calls \o r.calls]
<1>1. ArgStep(d, r) = D
  <2>1. ~d.failed /\ ~Failed(r)
    BY DEF ArgsOk
  <2>2. Failed(r) = FALSE
    BY <2>1 DEF Failed
  <2> QED BY <2>1, <2>2 DEF ArgStep
<1>2. /\ d.vals \in Seq(Vals(n)) /\ Len(d.vals) = m /\ r.val \in Vals(n)
      /\ \A j \in 1 .. m : d.vals[j] = results[j].val
      /\ d.calls = J[m]
  BY DEF ArgsOk, Res
<1>3. /\ Append(d.vals, r.val) \in Seq(Vals(n)) /\ Len(Append(d.vals, r.val)) = m + 1
      /\ Append(d.vals, r.val)[m + 1] = r.val
      /\ \A j \in 1 .. m : Append(d.vals, r.val)[j] = d.vals[j]
  BY <1>2
<1>4. \A j \in 1 .. m + 1 : j \in 1 .. m \/ j = m + 1
  OBVIOUS
<1>5. \A j \in 1 .. m + 1 : Append(d.vals, r.val)[j] = results[j].val
  BY <1>2, <1>3, <1>4
<1>6. ~D.failed /\ D.vals = Append(d.vals, r.val) /\ D.calls = J[m + 1]
  BY <1>2
<1> HIDE DEF D
<1>7. ArgsOk(results, J, n, D, m + 1)
  BY <1>3, <1>5, <1>6 DEF ArgsOk
<1> QED BY <1>1, <1>7

\* As long as no argument fails, the values and the calls are put together ...
LEMMA ArgsSucceed ==
  ASSUME NEW L \in Nat, NEW n \in Nat, NEW results \in [1 .. L -> Res(n)],
         NEW done, ArgsDone(results, L, n, done),
         NEW p, \A k \in 1 .. L : p[k] = results[k].calls,
         NEW J, Joins(p, L, Calls, J),
         NEW m \in 0 .. L, \A j \in 1 .. m : ~Failed(results[j])
  PROVE  ArgsOk(results, J, n, done[m], m)
<1> DEFINE S == {k \in Nat : ArgsOk(results, J, n, done[k], k)}
<1>0. /\ \A k \in 1 .. L : done[k] = ArgStep(done[k - 1], results[k])
      /\ \A k \in 1 .. L : J[k] = J[k - 1] \o results[k].calls
      /\ done[0] = NothingDone /\ J[0] = <<>>
  BY DEF ArgsDone, Joins
<1>1. 0 \in S
  <2>1. /\ ~NothingDone.failed /\ NothingDone.vals \in Seq(Vals(n)) /\ Len(NothingDone.vals) = 0
        /\ NothingDone.calls = <<>>
    BY DEF NothingDone
  <2>2. ArgsOk(results, J, n, NothingDone, 0)
    BY <1>0, <2>1 DEF ArgsOk
  <2> QED BY <1>0, <2>2
<1>2. ASSUME NEW k \in 0 .. m - 1, k \in S PROVE k + 1 \in S
  <2>1. k + 1 \in 1 .. L /\ k + 1 \in 1 .. m /\ (k + 1) - 1 = k /\ k \in Nat
    OBVIOUS
  <2>2. done[k + 1] = ArgStep(done[k], results[k + 1]) /\ J[k + 1] = J[k] \o results[k + 1].calls
    BY <1>0, <2>1
  <2>3. ~Failed(results[k + 1]) /\ results[k + 1] \in Res(n)
    BY <2>1
  <2>4. ArgsOk(results, J, n, done[k + 1], k + 1)
    BY <1>2, <2>1, <2>2, <2>3, ArgsOkStep
  <2> QED BY <2>1, <2>4
<1>3. m \in Nat /\ m \in 0 .. m
  OBVIOUS
<1>4. \A k \in 0 .. m : k \in S
  <2> HIDE DEF S
  <2> QED BY <1>1, <1>2, <1>3, InductionUpTo
<1> QED BY <1>3, <1>4

\* ... and the first that fails ends the evaluation.
LEMMA ArgsFail ==
  ASSUME NEW L \in Nat, NEW n \in Nat, NEW results \in [1 .. L -> Res(n)],
         NEW done, ArgsDone(results, L, n, done),
         NEW p, \A k \in 1 .. L : p[k] = results[k].calls,
         NEW J, Joins(p, L, Calls, J),
         NEW i \in 1 .. L, \A j \in 1 .. i - 1 : ~Failed(results[j]), Failed(results[i])
  PROVE  done[L].failed /\ done[L].calls = J[i]
<1> DEFINE Ended(k) == done[k].failed /\ done[k].calls = J[i]
           S == {m \in Nat : i + m <= L => Ended(i + m)}
<1>0. /\ \A k \in 1 .. L : done[k] = ArgStep(done[k - 1], results[k])
      /\ \A k \in 1 .. L : J[k] = J[k - 1] \o results[k].calls
  BY DEF ArgsDone, Joins
<1>1. 0 \in S
  <2>1. i - 1 \in 0 .. L /\ i \in Nat
    OBVIOUS
  <2>2. ArgsOk(results, J, n, done[i - 1], i - 1)
    BY <2>1, ArgsSucceed
  <2>3. ~done[i - 1].failed /\ done[i - 1].calls = J[i - 1]
    BY <2>2 DEF ArgsOk
  <2>4. done[i] = ArgStep(done[i - 1], results[i]) /\ J[i] = J[i - 1] \o results[i].calls
    BY <1>0
  <2>5. Failed(results[i]) = TRUE
    BY DEF Failed
  <2>6. done[i] = [failed |-> TRUE, vals |-> Append(done[i - 1].vals, results[i].val), calls |-> J[i]]
    BY <2>3, <2>4, <2>5 DEF ArgStep
  <2>7. Ended(i)
    BY <2>6
  <2> HIDE DEF Ended
  <2> QED BY <2>1, <2>7
<1>2. ASSUME NEW m \in 0 .. L - 1, m \in S PROVE m + 1 \in S
  <2>1. ASSUME i + (m + 1) <= L PROVE Ended(i + (m + 1))
    <3>1. Ended(i + m)
      <4> HIDE DEF Ended
      <4> QED BY <1>2, <2>1
    <3>2. i + (m + 1) \in 1 .. L /\ (i + (m + 1)) - 1 = i + m
      BY <2>1
    <3>3. done[i + (m + 1)] = ArgStep(done[i + m], results[i + (m + 1)])
      BY <1>0, <3>2
    <3> QED BY <3>1, <3>3 DEF ArgStep
  <2> HIDE DEF Ended
  <2> QED BY <2>1
<1>3. \A m \in 0 .. L : m \in S
  <2> HIDE DEF S
  <2> QED BY <1>1, <1>2, InductionUpTo
<1>4. L - i \in 0 .. L /\ i + (L - i) = L
  OBVIOUS
<1>5. L - i \in S
  <2> HIDE DEF S
  <2> QED BY <1>3, <1>4
<1>6. Ended(L)
  <2> HIDE DEF Ended
  <2> QED BY <1>4, <1>5
<1> QED BY <1>6

\* The calls of the arguments, one after the other
ArgCalls(h, n) == [k \in 1 .. Len(h[n].args) |-> Eval(h)[h[n].args[k]].calls]

\* A function is applied once all of its arguments have succeeded, and is an
\* error with the calls of those up to the first that fails otherwise.
LEMMA FuncEval ==
  ASSUME NEW h, IsHeap(h), NEW n \in 1 .. Len(h), IsFunc(h, n),
         NEW J, Joins(ArgCalls(h, n), Len(h[n].args), Calls, J)
  PROVE  /\ (\A k \in 1 .. Len(h[n].args) : ~Failed(Eval(h)[h[n].args[k]])) =>
              \E vals \in Seq(Vals(n)) :
                /\ Len(vals) = Len(h[n].args)
                /\ \A k \in 1 .. Len(h[n].args) : vals[k] = Eval(h)[h[n].args[k]].val
                /\ Apply(Eval(h), h[n].name, vals) \in Res(n)
                /\ Eval(h)[n] = Yields(Apply(Eval(h), h[n].name, vals).val,
                                       J[Len(h[n].args)] \o Apply(Eval(h), h[n].name, vals).calls)
         /\ \A i \in 1 .. Len(h[n].args) :
              /\ \A j \in 1 .. i - 1 : ~Failed(Eval(h)[h[n].args[j]])
              /\ Failed(Eval(h)[h[n].args[i]])
              => Eval(h)[n] = Yields(Error, J[i])
<1> DEFINE e == Eval(h)
           args == h[n].args
           L == Len(h[n].args)
           R == Each(e, args)
<1>0. n \in Nat /\ 1 .. n - 1 \subseteq 1 .. Len(h)
  BY NodeIs
<1>1. e[n] = EvalStep(h, e, n) /\ Below(e, n)
  <2>1. e = [k \in 1 .. Len(h) |-> EvalStep(h, e, k)] /\ \A k \in 1 .. Len(h) : e[k] \in Res(k)
    BY EvalIs
  <2> HIDE DEF e
  <2> QED BY <1>0, <2>1 DEF Below
<1> HIDE DEF e
<1>2. e[n] = EvalFunc(e, h[n])
  BY <1>1 DEF EvalStep, IsFunc
<1>3. PICK done : /\ ArgsDone(R, L, n, done) /\ done[L] \in Done(n)
                  /\ EvalFunc(e, h[n]) =
                       LET d == done[L]
                           r == Apply(e, h[n].name, d.vals)
                       IN IF d.failed THEN Yields(Error, d.calls) ELSE Yields(r.val, d.calls \o r.calls)
  BY <1>0, <1>1, FuncDone
<1>4. L \in Nat /\ R \in [1 .. L -> Res(n)] /\ \A k \in 1 .. L : R[k] = e[args[k]]
  <2>1. L \in Nat
    BY DEF IsFunc
  <2> QED BY <1>0, <1>1, <2>1, EachRes DEF Each
<1>5. \A k \in 1 .. L : ArgCalls(h, n)[k] = R[k].calls
  BY <1>4 DEF ArgCalls, e
<1> HIDE DEF R
<1>6. ASSUME \A k \in 1 .. L : ~Failed(e[args[k]])
      PROVE  \E vals \in Seq(Vals(n)) :
                /\ Len(vals) = L
                /\ \A k \in 1 .. L : vals[k] = e[args[k]].val
                /\ Apply(e, h[n].name, vals) \in Res(n)
                /\ e[n] = Yields(Apply(e, h[n].name, vals).val, J[L] \o Apply(e, h[n].name, vals).calls)
  <2> HIDE DEF L, args
  <2>1. L \in 0 .. L /\ \A k \in 1 .. L : ~Failed(R[k])
    BY <1>4, <1>6
  <2>5. ArgsOk(R, J, n, done[L], L)
    BY <1>0, <1>3, <1>4, <1>5, <2>1, ArgsSucceed DEF L, args
  <2>2. /\ ~done[L].failed /\ done[L].vals \in Seq(Vals(n)) /\ Len(done[L].vals) = L
        /\ \A k \in 1 .. L : done[L].vals[k] = R[k].val
        /\ done[L].calls = J[L]
    BY <2>5 DEF ArgsOk
  <2>3. Apply(e, h[n].name, done[L].vals) \in Res(n)
    BY <1>0, <1>1, <2>2, ApplyType DEF IsFunc
  <2>4. e[n] = Yields(Apply(e, h[n].name, done[L].vals).val,
                      done[L].calls \o Apply(e, h[n].name, done[L].vals).calls)
    BY <1>2, <1>3, <2>2
  <2> QED BY <1>4, <2>2, <2>3, <2>4
<1>7. ASSUME NEW i \in 1 .. L, \A j \in 1 .. i - 1 : ~Failed(e[args[j]]), Failed(e[args[i]])
      PROVE  e[n] = Yields(Error, J[i])
  <2>1. \A j \in 1 .. i - 1 : ~Failed(R[j])
    BY <1>4, <1>7
  <2>2. Failed(R[i])
    BY <1>4, <1>7
  <2> HIDE DEF L, args
  <2>3. done[L].failed /\ done[L].calls = J[i]
    BY <1>0, <1>3, <1>4, <1>5, <1>7, <2>1, <2>2, ArgsFail DEF L, args
  <2> QED BY <1>2, <1>3, <2>3
<1> QED BY <1>6, <1>7 DEF e

\* The calls of the arguments, one after the other
LEMMA ArgCallsJoin ==
  ASSUME NEW h, IsHeap(h), NEW n \in 1 .. Len(h), IsFunc(h, n)
  PROVE  /\ ArgCalls(h, n) \in [1 .. Len(h[n].args) -> Seq(Calls)]
         /\ \E J : Joins(ArgCalls(h, n), Len(h[n].args), Calls, J)
                   /\ FlattenSeq(ArgCalls(h, n)) = J[Len(h[n].args)]
<1> DEFINE L == Len(h[n].args)
<1>1. L \in Nat /\ \A k \in 1 .. L : h[n].args[k] \in 1 .. Len(h)
  BY NodeIs DEF IsFunc
<1>2. \A k \in 1 .. Len(h) : Eval(h)[k].calls \in Seq(Calls)
  BY EvalIs DEF Res
<1>3. ArgCalls(h, n) \in [1 .. L -> Seq(Calls)]
  BY <1>1, <1>2 DEF ArgCalls
<1> HIDE DEF L
<1>4. \E J : Joins(ArgCalls(h, n), L, Calls, J) /\ FlattenSeq(ArgCalls(h, n)) = J[L]
  BY <1>1, <1>3, FlattenIs
<1> QED BY <1>3, <1>4 DEF L

-----------------------------------------------------------------------------
(* A well-typed request succeeds.                                          *)

Specials == {<<"print">>, <<"seq">>, <<"eq">>, <<"if">>}

\* The functions that the API does not have
LEMMA SpecialsAreNoCalls ==
  \A name \in Specials : ~IsCall(name)
<1>1. "print" \notin Calls /\ "seq" \notin Calls /\ "eq" \notin Calls /\ "if" \notin Calls
  BY DEF Calls, API
<1>2. \A w : <<w>>[1] = w
  OBVIOUS
<1> QED BY <1>1, <1>2 DEF Specials, IsCall, Calls

\* The ways in which the type of a function is not "error"
WellTyped(name, types, quoted, t) ==
  \/ name = <<"print">> /\ Len(types) = 1 /\ t = "void"
  \/ name = <<"eq">> /\ types = <<"int", "int">> /\ t = "int"
  \/ name = <<"if">> /\ Len(types) = 3 /\ types[1] = "int" /\ types[2] = types[3] /\ t = types[2]
  \/ name = <<"seq">> /\ (\A k \in 1 .. Len(types) : quoted[k] # "error") /\ t = "void"
  \/ name \notin Specials /\ IsCall(name) /\ types = API[name[1]].takes /\ t = API[name[1]].gives

\* A function that has a type has well-typed arguments.
LEMMA TypesOfFuncs ==
  ASSUME NEW name, NEW types, NEW quoted, FuncType(name, types, quoted) # "error"
  PROVE  /\ \A k \in 1 .. Len(types) : types[k] # "error"
         /\ WellTyped(name, types, quoted, FuncType(name, types, quoted))
<1>1. \A k \in 1 .. Len(types) : types[k] # "error"
  BY DEF FuncType
<1> DEFINE t == FuncType(name, types, quoted)
           Prints == name = <<"print">> /\ Len(types) = 1
           Eq == name = <<"eq">> /\ types = <<"int", "int">>
           If == name = <<"if">> /\ Len(types) = 3 /\ types[1] = "int" /\ types[2] = types[3]
           Sq == name = <<"seq">> /\ \A k \in 1 .. Len(types) : quoted[k] # "error"
           Call == IsCall(name) /\ types = API[name[1]].takes
<1>2. t = IF Prints THEN "void" ELSE IF Eq THEN "int" ELSE IF If THEN types[2]
          ELSE IF Sq THEN "void" ELSE IF Call THEN API[name[1]].gives ELSE "error"
  BY <1>1 DEF FuncType
<1>3. Call => name \notin Specials
  BY SpecialsAreNoCalls
<1>4. \/ Prints /\ t = "void"
      \/ Eq /\ t = "int"
      \/ If /\ t = types[2]
      \/ Sq /\ t = "void"
      \/ Call /\ t = API[name[1]].gives
  <2> HIDE DEF Prints, Eq, If, Sq, Call
  <2>1. t # "error"
    OBVIOUS
  <2> HIDE DEF t
  <2> QED BY <1>2, <2>1
<1> HIDE DEF t
<1> QED BY <1>1, <1>3, <1>4 DEF WellTyped, t

\* The expression at a is a quotation of another one, which is not evaluated.
Quotes(h, n, a) ==
  LET m == h[a].value.lexpr
  IN m \in 1 .. n - 1 /\ m \in 1 .. Len(h) /\ Eval(h)[a] = Yields(Lexpr(m), <<>>)

\* An argument with a tick is the expression behind it, which comes earlier.
LEMMA QuotedIs ==
  ASSUME NEW h, IsHeap(h), NEW n \in 1 .. Len(h), IsFunc(h, n),
         NEW k \in 1 .. Len(h[n].args), Quoted(h[h[n].args[k]])
  PROVE  Quotes(h, n, h[n].args[k])
<1> DEFINE a == h[n].args[k]
           m == h[a].value.lexpr
<1>1. a \in 1 .. n - 1 /\ a \in 1 .. Len(h) /\ n \in Nat /\ Len(h) \in Nat /\ n <= Len(h)
  BY NodeIs DEF IsFunc
<1>2. IsValue(h, a)
  BY <1>1, NodeIs DEF Quoted, IsFunc
<1>3. h[a].value = Lexpr(m) /\ m \in 1 .. a - 1
  BY <1>2 DEF Quoted, IsValue, Literals, IntVal, StrVal
<1>4. Eval(h)[a] = EvalStep(h, Eval(h), a)
  <2> DEFINE e == Eval(h)
  <2>1. e = [i \in 1 .. Len(h) |-> EvalStep(h, e, i)]
    BY EvalIs
  <2> HIDE DEF e, a
  <2>2. e[a] = EvalStep(h, e, a)
    BY <1>1, <2>1
  <2> QED BY <2>2 DEF e
<1>5. Eval(h)[a] = Yields(Lexpr(m), <<>>)
  BY <1>2, <1>3, <1>4 DEF EvalStep, IsValue
<1>6. m \in 1 .. n - 1 /\ m \in 1 .. Len(h)
  BY <1>1, <1>3
<1> QED BY <1>5, <1>6 DEF Quotes

\* The loop of seq, where there are expressions only
Lexprs(n, vals, results, p, J) ==
  /\ vals \in Seq(Vals(n)) /\ results \in [1 .. Len(vals) -> Res(n)]
  /\ \A k \in 1 .. Len(vals) : vals[k].type = "lexpr" /\ p[k] = results[k].calls
  /\ Joins(p, Len(vals), Calls, J)

\* seq makes the calls of its expressions, one after the other.
LEMMA SeqCalls ==
  ASSUME NEW n \in Nat, NEW vals, NEW results, NEW p, NEW J, Lexprs(n, vals, results, p, J)
  PROVE  EvalSeq(vals, results) = Yields(Other("void"), J[Len(vals)])
<1> USE DEF Lexprs
<1> DEFINE L == Len(vals)
<1>1. L \in Nat /\ L \in 0 .. L
  OBVIOUS
<1>2. PICK after : SeqDone(vals, results, L, n, after)
  BY SeqIsDone
<1>3. /\ after[0] = Yields(Other("void"), <<>>) /\ EvalSeq(vals, results) = after[L]
      /\ \A k \in 1 .. L : after[k] = SeqStep(after[k - 1], vals[k], results[k])
      /\ J[0] = <<>> /\ \A k \in 1 .. L : J[k] = J[k - 1] \o p[k]
  BY <1>2 DEF SeqDone, Joins
<1> DEFINE S == {k \in Nat : after[k] = Yields(Other("void"), J[k])}
<1>4. 0 \in S
  BY <1>3
<1>5. ASSUME NEW k \in 0 .. L - 1, k \in S PROVE k + 1 \in S
  <2> HIDE DEF L
  <2>1. k + 1 \in 1 .. L /\ (k + 1) - 1 = k /\ k + 1 \in Nat
    BY <1>1
  <2>2. /\ after[k + 1] = SeqStep(after[k], vals[k + 1], results[k + 1])
        /\ J[k + 1] = J[k] \o results[k + 1].calls /\ vals[k + 1].type = "lexpr"
    BY <1>3, <2>1 DEF L
  <2>3. after[k] = Yields(Other("void"), J[k])
    BY <1>5
  <2>4. ~Failed(after[k])
    BY <2>3 DEF Failed, Yields, Other
  <2>5. after[k + 1] = Yields(after[k].val, after[k].calls \o results[k + 1].calls)
    BY <2>2, <2>4 DEF SeqStep
  <2>6. after[k + 1] = Yields(Other("void"), J[k + 1])
    BY <2>2, <2>3, <2>5 DEF Yields
  <2> QED BY <2>1, <2>6
<1>6. \A k \in 0 .. L : k \in S
  <2> HIDE DEF S, L
  <2> QED BY <1>1, <1>4, <1>5, InductionUpTo
<1>7. L \in S
  <2> HIDE DEF S, L
  <2> QED BY <1>1, <1>6
<1> QED BY <1>3, <1>7

\* What TypedRequestsSucceed says of the expression at n
TypedAt(h, n) ==
  TypeOf(h)[n] # "error" =>
    Eval(h)[n].val.type = TypeOf(h)[n] /\ Eval(h)[n].calls = Postorder(h)[n]

\* A value that is written has its type and makes no calls.
LEMMA TypedValue ==
  ASSUME NEW h, IsHeap(h), NEW n \in 1 .. Len(h), IsValue(h, n)
  PROVE  /\ Eval(h)[n] = Yields(h[n].value, <<>>)
         /\ TypeOf(h)[n] = h[n].value.type /\ TypeOf(h)[n] # "error"
         /\ Postorder(h)[n] = <<>>
<1> DEFINE e == Eval(h)
           t == TypeOf(h)
           c == Postorder(h)
<1>1. /\ e = [k \in 1 .. Len(h) |-> EvalStep(h, e, k)]
      /\ t = [k \in 1 .. Len(h) |-> TypeStep(h, t, k)]
      /\ c = [k \in 1 .. Len(h) |-> CallsStep(h, c, k)]
  BY EvalIs, TypeOfIs, PostorderIs
<1> HIDE DEF e, t, c
<1>2. e[n] = EvalStep(h, e, n) /\ t[n] = TypeStep(h, t, n) /\ c[n] = CallsStep(h, c, n)
  BY <1>1
<1>3. e[n] = Yields(h[n].value, <<>>) /\ t[n] = h[n].value.type /\ c[n] = <<>>
  BY <1>2 DEF IsValue, EvalStep, TypeStep, CallsStep
<1>4. h[n].value.type # "error"
  BY DEF IsValue, Literals, IntVal, StrVal, Lexpr
<1> QED BY <1>3, <1>4 DEF e, t, c

\* A function, with what is said of its type and of its calls
LEMMA FuncIs ==
  ASSUME NEW h, IsHeap(h), NEW n \in 1 .. Len(h), IsFunc(h, n)
  PROVE  /\ Len(h[n].args) \in Nat /\ n \in Nat
         /\ \A k \in 1 .. Len(h[n].args) : h[n].args[k] \in 1 .. n - 1 /\ h[n].args[k] \in 1 .. Len(h)
         /\ TypeOf(h)[n] = FuncType(h[n].name, Each(TypeOf(h), h[n].args),
                                    EachQuoted(TypeOf(h), h, h[n].args, "error"))
         /\ Postorder(h)[n] =
              FlattenSeq(Each(Postorder(h), h[n].args))
                \o (IF h[n].name = <<"seq">>
                      THEN FlattenSeq(EachQuoted(Postorder(h), h, h[n].args, <<>>))
                      ELSE IF IsCall(h[n].name) THEN h[n].name ELSE <<>>)
<1> DEFINE t == TypeOf(h)
           c == Postorder(h)
<1>1. /\ t = [k \in 1 .. Len(h) |-> TypeStep(h, t, k)]
      /\ c = [k \in 1 .. Len(h) |-> CallsStep(h, c, k)]
  BY TypeOfIs, PostorderIs
<1> HIDE DEF t, c
<1>2. t[n] = TypeStep(h, t, n) /\ c[n] = CallsStep(h, c, n)
  BY <1>1
<1>3. h[n].kind = "func"
  BY DEF IsFunc
<1>4. /\ t[n] = FuncType(h[n].name, Each(t, h[n].args), EachQuoted(t, h, h[n].args, "error"))
      /\ c[n] = FlattenSeq(Each(c, h[n].args))
                \o (IF h[n].name = <<"seq">> THEN FlattenSeq(EachQuoted(c, h, h[n].args, <<>>))
                    ELSE IF IsCall(h[n].name) THEN h[n].name ELSE <<>>)
  BY <1>2, <1>3 DEF TypeStep, CallsStep
<1>5. /\ Len(h[n].args) \in Nat /\ n \in Nat
      /\ \A k \in 1 .. Len(h[n].args) : h[n].args[k] \in 1 .. n - 1 /\ h[n].args[k] \in 1 .. Len(h)
  BY NodeIs DEF IsFunc
<1> QED BY <1>4, <1>5 DEF t, c

\* A well-typed function of well-typed arguments
LEMMA TypedApply ==
  ASSUME NEW h, IsHeap(h), NEW n \in 1 .. Len(h), IsFunc(h, n),
         \A k \in 1 .. n - 1 : TypedAt(h, k),
         TypeOf(h)[n] # "error",
         NEW vals \in Seq(Vals(n)), Len(vals) = Len(h[n].args),
         \A k \in 1 .. Len(h[n].args) : vals[k] = Eval(h)[h[n].args[k]].val,
         \A k \in 1 .. Len(h[n].args) : vals[k].type = Each(TypeOf(h), h[n].args)[k]
  PROVE  /\ Apply(Eval(h), h[n].name, vals).val.type = TypeOf(h)[n]
         /\ Apply(Eval(h), h[n].name, vals).calls =
              IF h[n].name = <<"seq">> THEN FlattenSeq(EachQuoted(Postorder(h), h, h[n].args, <<>>))
              ELSE IF IsCall(h[n].name) THEN h[n].name ELSE <<>>
<1> DEFINE name == h[n].name
           args == h[n].args
           L == Len(args)
           types == Each(TypeOf(h), args)
           quoted == EachQuoted(TypeOf(h), h, args, "error")
           t == TypeOf(h)[n]
           r == Apply(Eval(h), name, vals)
           more == IF name = <<"seq">> THEN FlattenSeq(EachQuoted(Postorder(h), h, args, <<>>))
                   ELSE IF IsCall(name) THEN name ELSE <<>>
<1>1. L \in Nat /\ n \in Nat /\ \A k \in 1 .. L : args[k] \in 1 .. n - 1 /\ args[k] \in 1 .. Len(h)
  BY FuncIs
<1>2. Len(types) = L /\ types = [k \in 1 .. L |-> TypeOf(h)[args[k]]]
  BY <1>1 DEF Each
<1>3. WellTyped(name, types, quoted, t)
  <2>1. t = FuncType(name, types, quoted)
    BY FuncIs
  <2> HIDE DEF t, types, quoted, name
  <2> QED BY <2>1, TypesOfFuncs DEF t
<1>4. Types(vals) = types
  <2>1. \A k \in 1 .. L : vals[k].type = types[k]
    OBVIOUS
  <2> QED BY <1>2, <2>1 DEF Types
<1>5. name = <<name[1]>> /\ (IsCall(name) <=> name[1] \in Calls)
  BY CallName DEF IsFunc
<1> HIDE DEF types, quoted, t
<1>6. CASE name = <<"print">>
  <2>1. Len(vals) = 1 /\ t = "void" /\ ~IsCall(name)
    BY <1>2, <1>3, <1>6, SpecialsAreNoCalls DEF WellTyped, Specials
  <2>2. r = Yields(Other("void"), <<>>)
    BY <1>6, <2>1 DEF Apply, EvalPrint
  <2>3. r.val.type = "void" /\ r.calls = <<>>
    BY <2>2 DEF Yields, Other
  <2>4. more = <<>>
    BY <1>6, <2>1
  <2> QED BY <2>1, <2>3, <2>4 DEF t
<1>7. CASE name = <<"eq">>
  <2>1. types = <<"int", "int">> /\ t = "int" /\ ~IsCall(name)
    BY <1>3, <1>7, SpecialsAreNoCalls DEF WellTyped, Specials
  <2>2. r = EvalEq(vals)
    BY <1>7 DEF Apply
  <2>3. EvalEq(vals) = Yields(IntVal(1), <<>>) \/ EvalEq(vals) = Yields(IntVal(0), <<>>)
    BY <1>4, <2>1 DEF EvalEq, CheckArgs
  <2>4. r.val.type = "int" /\ r.calls = <<>>
    BY <2>2, <2>3 DEF Yields, IntVal
  <2>5. more = <<>>
    BY <1>7, <2>1
  <2> QED BY <2>1, <2>4, <2>5 DEF t
<1>8. CASE name = <<"if">>
  <2>1. L = 3 /\ types[1] = "int" /\ types[2] = types[3] /\ t = types[2] /\ ~IsCall(name)
    BY <1>2, <1>3, <1>8, SpecialsAreNoCalls DEF WellTyped, Specials
  <2>2. 1 \in 1 .. L /\ 2 \in 1 .. L /\ 3 \in 1 .. L
    BY <2>1
  <2>3. vals[1].type = "int" /\ vals[2].type = t /\ vals[3].type = t
    BY <2>1, <2>2 DEF types
  <2>4. r = EvalIf(vals)
    BY <1>8 DEF Apply
  <2>5. EvalIf(vals) = Yields(vals[2], <<>>) \/ EvalIf(vals) = Yields(vals[3], <<>>)
    BY <2>1, <2>3 DEF EvalIf
  <2>6. r.val.type = t /\ r.calls = <<>>
    BY <2>3, <2>4, <2>5 DEF Yields
  <2>7. more = <<>>
    BY <1>8, <2>1
  <2> QED BY <2>6, <2>7 DEF t
<1>9. CASE name = <<"seq">>
  <2>1. (\A k \in 1 .. L : quoted[k] # "error") /\ t = "void"
    BY <1>2, <1>3, <1>9 DEF WellTyped, Specials
  <2> DEFINE Q == EachQuoted(Postorder(h), h, args, <<>>)
             R == SeqResults(Eval(h), vals)
  <2>2. ASSUME NEW k \in 1 .. L
        PROVE  vals[k].type = "lexpr" /\ Q[k] = R[k].calls
    <3> DEFINE a == args[k]
               m == h[a].value.lexpr
    <3>1. quoted[k] = IF Quoted(h[a]) THEN TypeOf(h)[m] ELSE "error"
      BY DEF quoted, EachQuoted
    <3>2. Quoted(h[a]) /\ TypeOf(h)[m] # "error"
      BY <2>1, <3>1
    <3>3. m \in 1 .. n - 1 /\ Eval(h)[a] = Yields(Lexpr(m), <<>>)
      <4>1. Quotes(h, n, h[n].args[k])
        BY <3>2, QuotedIs
      <4> QED BY <4>1 DEF Quotes
    <3>4. Eval(h)[m].calls = Postorder(h)[m]
      BY <3>2, <3>3 DEF TypedAt
    <3>5. vals[k] = Lexpr(m)
      BY <3>3 DEF Yields
    <3>6. Q[k] = Postorder(h)[m]
      BY <3>2 DEF EachQuoted
    <3>7. vals[k].type = "lexpr" /\ vals[k].lexpr = m
      BY <3>5 DEF Lexpr
    <3>8. R[k] = Eval(h)[m]
      BY <3>7 DEF SeqResults
    <3> QED BY <3>4, <3>6, <3>7, <3>8
  <2>3. R \in [1 .. L -> Res(n)]
    <3>1. Below(Eval(h), n)
      BY <1>1, NodeIs, EvalIs DEF Below
    <3> QED BY <1>1, <3>1, SeqResultsRes
  <2>4. Q \in [1 .. L -> Seq(Calls)]
    <3>1. \A k \in 1 .. L : R[k].calls \in Seq(Calls)
      <4> HIDE DEF R
      <4> QED BY <2>3 DEF Res
    <3>2. Q = [k \in 1 .. L |-> Q[k]]
      BY DEF EachQuoted
    <3> HIDE DEF Q, R, L
    <3> QED BY <2>2, <3>1, <3>2
  <2> HIDE DEF Q, R
  <2>5. PICK J : Joins(Q, L, Calls, J) /\ FlattenSeq(Q) = J[L]
    <3> HIDE DEF L, args
    <3> QED BY <1>1, <2>4, FlattenIs
  <2>6. EvalSeq(vals, R) = Yields(Other("void"), J[L])
    <3>1. L = Len(vals) /\ R \in [1 .. Len(vals) -> Res(n)] /\ Joins(Q, Len(vals), Calls, J)
      BY <2>3, <2>5
    <3>2. \A k \in 1 .. Len(vals) : vals[k].type = "lexpr"
      BY <2>2
    <3>3. \A k \in 1 .. Len(vals) : Q[k] = R[k].calls
      BY <2>2
    <3>4. n \in Nat
      BY <1>1
    <3> HIDE DEF L, args
    <3>5. EvalSeq(vals, R) = Yields(Other("void"), J[Len(vals)])
      <4>1. Lexprs(n, vals, R, Q, J)
        BY <3>1, <3>2, <3>3 DEF Lexprs
      <4> QED BY <3>4, <4>1, SeqCalls
    <3> QED BY <3>1, <3>5
  <2>7. r = EvalSeq(vals, R)
    BY <1>9 DEF Apply, R
  <2>8. r.val.type = "void" /\ r.calls = FlattenSeq(Q)
    BY <2>5, <2>6, <2>7 DEF Yields, Other
  <2>9. more = FlattenSeq(Q)
    BY <1>9 DEF Q
  <2> QED BY <2>1, <2>8, <2>9 DEF t
<1>10. CASE name \notin Specials
  <2>1. IsCall(name) /\ types = API[name[1]].takes /\ t = API[name[1]].gives
    BY <1>3, <1>10 DEF WellTyped, Specials
  <2>2. r = CallAPI(name[1], vals)
    BY <1>10, <2>1 DEF Apply, Specials
  <2>3. CallAPI(name[1], vals) = Yields(Result(name[1]), <<name[1]>>)
    BY <1>4, <2>1 DEF CallAPI, CheckArgs
  <2>4. name[1] \in Calls /\ <<name[1]>> = name
    BY <1>5, <2>1
  <2>5. Result(name[1]).type = t
    BY <1>1, <2>1, <2>4, ResultType
  <2>6. r.val.type = t /\ r.calls = name
    BY <2>2, <2>3, <2>4, <2>5 DEF Yields
  <2>7. more = name
    BY <1>10, <2>1 DEF Specials
  <2> QED BY <2>6, <2>7 DEF t
<1> QED BY <1>6, <1>7, <1>8, <1>9, <1>10 DEF Specials

\* One expression, from those before it
LEMMA TypedNode ==
  ASSUME NEW h, IsHeap(h), NEW n \in 1 .. Len(h), \A k \in 1 .. n - 1 : TypedAt(h, k)
  PROVE  TypedAt(h, n)
<1>1. CASE IsValue(h, n)
  <2>1. /\ Eval(h)[n] = Yields(h[n].value, <<>>) /\ TypeOf(h)[n] = h[n].value.type
        /\ Postorder(h)[n] = <<>>
    BY <1>1, TypedValue
  <2> QED BY <2>1 DEF TypedAt, Yields
<1>2. CASE IsFunc(h, n)
  <2> SUFFICES ASSUME TypeOf(h)[n] # "error"
               PROVE  Eval(h)[n].val.type = TypeOf(h)[n] /\ Eval(h)[n].calls = Postorder(h)[n]
    BY DEF TypedAt
  <2> DEFINE args == h[n].args
             L == Len(args)
             types == Each(TypeOf(h), args)
             more == IF h[n].name = <<"seq">> THEN FlattenSeq(EachQuoted(Postorder(h), h, args, <<>>))
                     ELSE IF IsCall(h[n].name) THEN h[n].name ELSE <<>>
  <2>1. L \in Nat /\ n \in Nat /\ \A k \in 1 .. L : args[k] \in 1 .. n - 1 /\ args[k] \in 1 .. Len(h)
    BY <1>2, FuncIs
  <2>2. Len(types) = L /\ \A k \in 1 .. L : types[k] = TypeOf(h)[args[k]]
    BY <2>1 DEF Each
  <2>3. \A k \in 1 .. L : types[k] # "error"
    <3>1. FuncType(h[n].name, types, EachQuoted(TypeOf(h), h, args, "error")) # "error"
      BY <1>2, FuncIs
    <3> HIDE DEF types
    <3> QED BY <2>2, <3>1, TypesOfFuncs
  <2>4. ASSUME NEW k \in 1 .. L
        PROVE  /\ Eval(h)[args[k]].val.type = types[k] /\ ~Failed(Eval(h)[args[k]])
               /\ Eval(h)[args[k]].calls = Postorder(h)[args[k]]
    BY <2>1, <2>2, <2>3 DEF TypedAt, Failed
  <2>5. PICK J : Joins(ArgCalls(h, n), L, Calls, J) /\ FlattenSeq(ArgCalls(h, n)) = J[L]
    BY <1>2, ArgCallsJoin
  <2>6. Each(Postorder(h), args) = ArgCalls(h, n)
    BY <2>4 DEF Each, ArgCalls
  <2>7. PICK vals \in Seq(Vals(n)) :
                /\ Len(vals) = L
                /\ \A k \in 1 .. L : vals[k] = Eval(h)[args[k]].val
                /\ Eval(h)[n] = Yields(Apply(Eval(h), h[n].name, vals).val,
                                       J[L] \o Apply(Eval(h), h[n].name, vals).calls)
    BY <1>2, <2>4, <2>5, FuncEval
  <2>8. Apply(Eval(h), h[n].name, vals).val.type = TypeOf(h)[n] /\ Apply(Eval(h), h[n].name, vals).calls = more
    <3>1. \A k \in 1 .. L : vals[k].type = types[k]
      BY <2>4, <2>7
    <3> QED BY <1>2, <2>7, <3>1, TypedApply
  <2>9. Postorder(h)[n] = FlattenSeq(Each(Postorder(h), args)) \o more
    BY <1>2, FuncIs
  <2> HIDE DEF more
  <2> QED BY <2>5, <2>6, <2>7, <2>8, <2>9 DEF Yields
<1> QED BY <1>1, <1>2, NodeIs

\* Every expression on a heap
LEMMA TypedEverywhere ==
  ASSUME NEW h, IsHeap(h)
  PROVE  \A n \in 1 .. Len(h) : TypedAt(h, n)
<1> DEFINE S == {n \in 1 .. Len(h) : TypedAt(h, n)}
<1>1. Len(h) \in Nat
  BY DEF IsHeap
<1>2. ASSUME NEW n \in 1 .. Len(h), \A k \in 1 .. n - 1 : k \in S PROVE n \in S
  BY <1>2, TypedNode
<1>3. \A n \in 1 .. Len(h) : n \in S
  <2> HIDE DEF S
  <2> QED BY <1>1, <1>2, InductionFromBelow
<1> QED BY <1>3

-----------------------------------------------------------------------------
(* Every request is formed.                                                *)

\* A request stays a request.
Formed == IsHeap(heap) /\ expr \in 1 .. Len(heap) /\ Len(Base) <= Len(heap)

\* What is put on a heap leaves it a heap.
LEMMA HeapGrows ==
  ASSUME NEW h, IsHeap(h), NEW e, e \in Values(Len(h) + 1) \cup Funcs(Len(h) + 1)
  PROVE  IsHeap(Append(h, e)) /\ Len(Append(h, e)) = Len(h) + 1
<1>1. Len(h) \in Nat /\ h = [n \in 1 .. Len(h) |-> h[n]]
  BY DEF IsHeap
<1> DEFINE V == {h[n] : n \in 1 .. Len(h)} \cup {e}
           g == Append(h, e)
<1>2. h \in Seq(V) /\ e \in V
  BY <1>1
<1> HIDE DEF V, g
<1>3. /\ g \in Seq(V) /\ Len(g) = Len(h) + 1 /\ g[Len(h) + 1] = e
      /\ \A n \in 1 .. Len(h) : g[n] = h[n]
  BY <1>2, AppendProperties DEF g
<1>4. g = [n \in 1 .. Len(g) |-> g[n]]
  BY <1>3
<1>5. \A n \in 1 .. Len(g) : n \in 1 .. Len(h) \/ n = Len(h) + 1
  BY <1>1, <1>3
<1>6. \A n \in 1 .. Len(g) : g[n] \in Values(n) \cup Funcs(n)
  BY <1>3, <1>5 DEF IsHeap
<1> QED BY <1>1, <1>3, <1>4, <1>6 DEF IsHeap, g

\* The heap holds only expressions of what comes before them, the base among
\* them, and the request is one of them (Build of Requests).
LEMMA RequestsAreFormed == Spec => []Formed
<1>1. Init => Formed
  <2>1. IsHeap(Base) /\ DOMAIN Base = 1 .. Len(Base) /\ Len(Base) \in Nat
    BY RequestsAssumption DEF IsHeap
  <2> QED BY <2>1 DEF Init, Formed
<1>2. Formed /\ [Next]_vars => Formed'
  <2> SUFFICES ASSUME Formed, [Next]_vars PROVE Formed'
    OBVIOUS
  <2>0. /\ IsHeap(heap) /\ expr \in 1 .. Len(heap) /\ Len(heap) \in Nat
        /\ Len(Base) <= Len(heap)
    BY DEF Formed, IsHeap
  <2>1. ASSUME NEW e \in Values(Len(heap) + 1) \cup Funcs(Len(heap) + 1), Build(e)
        PROVE  Formed'
    <3>1. heap' = Append(heap, e) /\ expr' = Len(heap) + 1
      BY <2>1 DEF Build
    <3>2. IsHeap(Append(heap, e)) /\ Len(Append(heap, e)) = Len(heap) + 1
      BY <2>0, HeapGrows
    <3>3. IsHeap(heap')
      BY <3>1, <3>2
    <3>4. expr' \in 1 .. Len(heap') /\ Len(Base) <= Len(heap')
      <4>1. Len(Base) \in Nat
        BY RequestsAssumption DEF IsHeap
      <4> QED BY <2>0, <3>1, <3>2, <4>1
    <3>5. IsHeap(heap)' = IsHeap(heap')
      BY DEF IsHeap, Values, Funcs
    <3> QED BY <3>3, <3>4, <3>5 DEF Formed
  <2>2. CASE Wrap
    <3>1. PICK name \in DOMAIN Arity : \E a \in ArgsWith(Arity[name]) : Build(Func(<<name>>, a))
      BY <2>2 DEF Wrap
    <3>2. PICK a \in ArgsWith(Arity[name]) : Build(Func(<<name>>, a))
      BY <3>1
    <3>3. name \in Words /\ Arity[name] \in Nat
      BY RequestsAssumption
    <3>4. Leaves \cup {expr} \subseteq 1 .. (Len(heap) + 1) - 1
      <4>1. Leaves \subseteq 1 .. Len(Base) /\ Len(Base) \in Nat
        BY RequestsAssumption DEF IsHeap
      <4> QED BY <2>0, <4>1
    <3>5. a \in [1 .. Arity[name] -> 1 .. (Len(heap) + 1) - 1]
      BY <3>2, <3>4 DEF ArgsWith
    <3>6. a \in Seq(1 .. (Len(heap) + 1) - 1) /\ <<name>> \in [1 .. 1 -> Words]
      BY <3>3, <3>5
    <3>7. Func(<<name>>, a) \in Funcs(Len(heap) + 1)
      BY <3>6 DEF Func, Funcs
    <3> QED BY <2>1, <3>2, <3>7
  <2>3. CASE QuoteIt
    <3>1. Value(Lexpr(expr)) \in Values(Len(heap) + 1)
      <4>1. expr \in 1 .. (Len(heap) + 1) - 1
        BY <2>0
      <4> QED BY <4>1 DEF Values
    <3> QED BY <2>1, <2>3, <3>1 DEF QuoteIt
  <2>4. CASE UNCHANGED vars
    BY <2>4 DEF Formed, vars, IsHeap
  <2> QED BY <2>2, <2>3, <2>4 DEF Next
<1> QED BY <1>1, <1>2, PTL DEF Spec

\* TypedRequestsSucceed: a well-typed request does not fail, has its type and
\* makes all of its calls, in the order of a reader.
THEOREM WellTypedRequestsSucceed == Spec => []TypedRequestsSucceed
<1>1. ASSUME Formed PROVE TypedRequestsSucceed
  <2>1. TypedAt(heap, expr)
    BY <1>1, TypedEverywhere DEF Formed
  <2> QED BY <2>1 DEF TypedAt, TypedRequestsSucceed, Failed
<1> QED BY <1>1, RequestsAreFormed, PTL

-----------------------------------------------------------------------------
(* A request that is not well typed.                                       *)

\* What is used in no part of a function
LEMMA UsesNot ==
  ASSUME NEW h, IsHeap(h), NEW n \in 1 .. Len(h), IsFunc(h, n), NEW w, ~Uses(h, w)[n]
  PROVE  /\ h[n].name # <<w>>
         /\ \A k \in 1 .. Len(h[n].args) : ~Uses(h, w)[h[n].args[k]]
<1> DEFINE u == Uses(h, w)
<1>1. u = [k \in 1 .. Len(h) |-> UsesStep(h, w, u, k)]
  BY UsesIs
<1> HIDE DEF u
<1>2. u[n] = UsesStep(h, w, u, n)
  BY <1>1
<1>3. ~UsesStep(h, w, u, n)
  BY <1>2 DEF u
<1>4. h[n].name # <<w>> /\ \A k \in 1 .. Len(h[n].args) : ~u[h[n].args[k]]
  BY <1>3 DEF UsesStep, IsFunc
<1> QED BY <1>4 DEF u

\* What does not use a name does not quote its use either.
LEMMA UsesNotQuoted ==
  ASSUME NEW h, IsHeap(h), NEW n \in 1 .. Len(h), IsValue(h, n), Quoted(h[n]), NEW w, ~Uses(h, w)[n]
  PROVE  ~Uses(h, w)[h[n].value.lexpr]
<1> DEFINE u == Uses(h, w)
<1>1. u = [k \in 1 .. Len(h) |-> UsesStep(h, w, u, k)]
  BY UsesIs
<1> HIDE DEF u
<1>2. u[n] = UsesStep(h, w, u, n)
  BY <1>1
<1>3. ~UsesStep(h, w, u, n)
  BY <1>2 DEF u
<1>4. ~u[h[n].value.lexpr]
  BY <1>3 DEF UsesStep, IsValue
<1> QED BY <1>4 DEF u

\* A beginning of a beginning
LEMMA BeginsTrans ==
  ASSUME NEW s \in Seq(Calls), NEW t \in Seq(Calls), NEW v \in Seq(Calls), Begins(s, t), Begins(t, v)
  PROVE  Begins(s, v)
<1>1. PICK a \in Seq(Calls) : t = s \o a
  BY DEF Begins
<1>2. PICK b \in Seq(Calls) : v = t \o b
  BY DEF Begins
<1>3. v = s \o (a \o b) /\ a \o b \in Seq(Calls)
  BY <1>1, <1>2
<1> QED BY <1>3 DEF Begins

\* What is put together up to m depends only on what is there up to m.
LEMMA JoinsSame ==
  ASSUME NEW L \in Nat, NEW p, NEW q, NEW J, NEW K, Joins(p, L, Calls, J), Joins(q, L, Calls, K),
         NEW m \in 0 .. L, \A j \in 1 .. m : p[j] = q[j]
  PROVE  J[m] = K[m]
<1> DEFINE S == {k \in Nat : J[k] = K[k]}
<1>0. /\ J[0] = <<>> /\ K[0] = <<>>
      /\ \A k \in 1 .. L : J[k] = J[k - 1] \o p[k]
      /\ \A k \in 1 .. L : K[k] = K[k - 1] \o q[k]
  BY DEF Joins
<1>1. 0 \in S
  BY <1>0
<1>2. ASSUME NEW k \in 0 .. m - 1, k \in S PROVE k + 1 \in S
  <2>1. k + 1 \in 1 .. L /\ k + 1 \in 1 .. m /\ (k + 1) - 1 = k
    OBVIOUS
  <2>2. J[k + 1] = J[k] \o p[k + 1] /\ K[k + 1] = K[k] \o q[k + 1] /\ p[k + 1] = q[k + 1]
    BY <1>0, <2>1
  <2>3. J[k] = K[k]
    BY <1>2
  <2>4. J[k + 1] = K[k + 1]
    BY <2>2, <2>3
  <2> QED BY <2>1, <2>4
<1>3. m \in Nat /\ m \in 0 .. m
  OBVIOUS
<1>4. \A k \in 0 .. m : k \in S
  <2> HIDE DEF S
  <2> QED BY <1>1, <1>2, <1>3, InductionUpTo
<1> QED BY <1>3, <1>4

\* A function of well-typed arguments without a type: some check of it fails.
LEMMA ErrorsOfFuncs ==
  ASSUME NEW name, NEW types, NEW quoted, FuncType(name, types, quoted) = "error",
         name # <<"seq">>, name # <<"if">>, \A k \in 1 .. Len(types) : types[k] # "error"
  PROVE  /\ name = <<"print">> => Len(types) # 1
         /\ name = <<"eq">> => types # <<"int", "int">>
         /\ name \notin Specials /\ IsCall(name) => types # API[name[1]].takes
<1>1. name = <<"print">> => Len(types) # 1
  BY DEF FuncType
<1>2. name = <<"eq">> => types # <<"int", "int">>
  BY DEF FuncType
<1>3. ASSUME name \notin Specials, IsCall(name), types = API[name[1]].takes PROVE FALSE
  <2>1. FuncType(name, types, quoted) = API[name[1]].gives
    BY <1>3 DEF FuncType, Specials
  <2>2. API[name[1]].gives # "error"
    BY <1>3, APIGives DEF IsCall, Calls, Gives
  <2> QED BY <2>1, <2>2
<1> QED BY <1>1, <1>2, <1>3

\* Such a function yields an error and calls nothing (ME_RLI_IR_API_check_args).
LEMMA UntypedApply ==
  ASSUME NEW f, NEW name, NEW vals, NEW types, NEW quoted,
         FuncType(name, types, quoted) = "error", name # <<"seq">>, name # <<"if">>,
         \A k \in 1 .. Len(types) : types[k] # "error", Types(vals) = types, Len(vals) = Len(types)
  PROVE  Apply(f, name, vals) = Yields(Error, <<>>)
<1>1. CASE name = <<"print">>
  <2>1. Len(vals) # 1
    BY <1>1, ErrorsOfFuncs
  <2> QED BY <1>1, <2>1 DEF Apply, EvalPrint
<1>2. CASE name = <<"eq">>
  <2>1. Types(vals) # <<"int", "int">>
    BY <1>2, ErrorsOfFuncs
  <2> QED BY <1>2, <2>1 DEF Apply, EvalEq, CheckArgs
<1>3. CASE name \notin Specials /\ IsCall(name)
  <2>1. Types(vals) # API[name[1]].takes
    BY <1>3, ErrorsOfFuncs
  <2> QED BY <1>3, <2>1 DEF Apply, Specials, CallAPI, CheckArgs
<1>4. CASE name \notin Specials /\ ~IsCall(name)
  BY <1>4 DEF Apply, Specials
<1> QED BY <1>1, <1>2, <1>3, <1>4 DEF Specials

\* What ErrorsEndTheRequest says of the expression at n
ErrorAt(h, n) ==
  TypeOf(h)[n] = "error" /\ ~Uses(h, "seq")[n] /\ ~Uses(h, "if")[n] =>
    Failed(Eval(h)[n]) /\ Begins(Eval(h)[n].calls, Postorder(h)[n])

\* One expression, from those before it
LEMMA ErrorNode ==
  ASSUME NEW h, IsHeap(h), NEW n \in 1 .. Len(h), \A k \in 1 .. n - 1 : ErrorAt(h, k)
  PROVE  ErrorAt(h, n)
<1> SUFFICES ASSUME TypeOf(h)[n] = "error", ~Uses(h, "seq")[n], ~Uses(h, "if")[n]
             PROVE  Failed(Eval(h)[n]) /\ Begins(Eval(h)[n].calls, Postorder(h)[n])
  BY DEF ErrorAt
<1>1. CASE IsValue(h, n)
  BY <1>1, TypedValue
<1>2. CASE IsFunc(h, n)
  <2> DEFINE args == h[n].args
             L == Len(args)
             types == Each(TypeOf(h), args)
             says == Each(Postorder(h), args)
             more == IF IsCall(h[n].name) THEN h[n].name ELSE <<>>
  <2>1. L \in Nat /\ n \in Nat /\ \A k \in 1 .. L : args[k] \in 1 .. n - 1 /\ args[k] \in 1 .. Len(h)
    BY <1>2, FuncIs
  <2>2. /\ h[n].name # <<"seq">> /\ h[n].name # <<"if">>
        /\ \A k \in 1 .. L : ~Uses(h, "seq")[args[k]] /\ ~Uses(h, "if")[args[k]]
    BY <1>2, UsesNot
  <2>3. Len(types) = L /\ \A k \in 1 .. L : types[k] = TypeOf(h)[args[k]] /\ says[k] = Postorder(h)[args[k]]
    BY <2>1 DEF Each
  <2>4. Postorder(h)[n] = FlattenSeq(says) \o more
    BY <1>2, <2>2, FuncIs
  <2>5. ASSUME NEW k \in 1 .. L, types[k] # "error"
        PROVE  /\ Eval(h)[args[k]].val.type = types[k] /\ ~Failed(Eval(h)[args[k]])
               /\ Eval(h)[args[k]].calls = says[k]
    BY <2>1, <2>3, <2>5, TypedEverywhere DEF TypedAt, Failed
  <2>6. ASSUME NEW k \in 1 .. L, types[k] = "error"
        PROVE  Failed(Eval(h)[args[k]]) /\ Begins(Eval(h)[args[k]].calls, says[k])
    BY <2>1, <2>2, <2>3, <2>6 DEF ErrorAt
  <2>7. PICK J : Joins(ArgCalls(h, n), L, Calls, J) /\ FlattenSeq(ArgCalls(h, n)) = J[L]
    BY <1>2, ArgCallsJoin
  <2>8. says \in [1 .. L -> Seq(Calls)] /\ more \in Seq(Calls)
    <3>1. \A k \in 1 .. L : Postorder(h)[args[k]] \in Seq(Calls)
      BY <2>1, PostorderCalls
    <3>2. \A x \in Calls : <<x>> \in Seq(Calls)
      OBVIOUS
    <3>3. h[n].name = <<h[n].name[1]>> /\ (IsCall(h[n].name) <=> h[n].name[1] \in Calls)
      BY <1>2, CallName DEF IsFunc
    <3>4. more \in Seq(Calls)
      <4>1. <<>> \in Seq(Calls)
        OBVIOUS
      <4>2. IsCall(h[n].name) => h[n].name \in Seq(Calls)
        BY <3>2, <3>3
      <4> QED BY <4>1, <4>2
    <3> QED BY <3>1, <3>4 DEF Each
  <2>9. PICK K : Joins(says, L, Calls, K) /\ FlattenSeq(says) = K[L]
    <3> HIDE DEF L, says
    <3> QED BY <2>1, <2>8, FlattenIs
  <2>10. ArgCalls(h, n) = [k \in 1 .. L |-> Eval(h)[args[k]].calls]
    BY DEF ArgCalls
  <2> HIDE DEF says, more
  <2>11. CASE \E k \in 1 .. L : types[k] = "error"
    <3> DEFINE S == {k \in 1 .. L : types[k] = "error"}
    <3>1. PICK i \in 1 .. L : i \in S /\ \A j \in 1 .. i - 1 : j \notin S
      <4>1. PICK k \in 1 .. L : k \in S
        BY <2>11
      <4> HIDE DEF S, L
      <4> QED BY <2>1, <4>1, FirstExists
    <3>2. types[i] = "error" /\ \A j \in 1 .. i - 1 : j \in 1 .. L /\ types[j] # "error"
      BY <2>1, <3>1
    <3>3. Eval(h)[n] = Yields(Error, J[i])
      <4>1. Failed(Eval(h)[args[i]]) /\ \A j \in 1 .. i - 1 : ~Failed(Eval(h)[args[j]])
        BY <2>5, <2>6, <3>2
      <4> QED BY <1>2, <2>7, <4>1, FuncEval
    <3>4. J[i - 1] = K[i - 1]
      <4>1. i - 1 \in 0 .. L
        BY <2>1
      <4>2. \A j \in 1 .. i - 1 : ArgCalls(h, n)[j] = says[j]
        BY <2>5, <2>10, <3>2
      <4> HIDE DEF L
      <4> QED BY <2>1, <2>7, <2>9, <4>1, <4>2, JoinsSame
    <3>5. J[i] = J[i - 1] \o Eval(h)[args[i]].calls /\ K[i] = K[i - 1] \o says[i]
      BY <2>7, <2>9, <2>10 DEF Joins
    <3>6. /\ J[i] \in Seq(Calls) /\ K[i - 1] \in Seq(Calls) /\ K[i] \in Seq(Calls) /\ K[L] \in Seq(Calls)
          /\ i \in 0 .. L
      <4>1. i \in 0 .. L /\ i - 1 \in 0 .. L /\ L \in 0 .. L
        BY <2>1
      <4> HIDE DEF L
      <4> QED BY <2>7, <2>9, <4>1 DEF Joins
    <3>7. says[i] \in Seq(Calls) /\ Eval(h)[args[i]].calls \in Seq(Calls)
      BY <2>1, <2>8, EvalIs DEF Res
    <3>8. Begins(J[i], K[i])
      <4>1. Begins(Eval(h)[args[i]].calls, says[i])
        BY <2>6, <3>2
      <4> QED BY <3>4, <3>5, <3>6, <3>7, <4>1, BeginsMore
    <3>9. Begins(K[i], K[L])
      <4> HIDE DEF L
      <4> QED BY <2>1, <2>8, <2>9, <3>6, JoinsBegin
    <3>10. Begins(J[i], K[L])
      BY <3>6, <3>8, <3>9, BeginsTrans
    <3>11. Begins(J[i], K[L] \o more)
      BY <2>8, <3>6, <3>10, BeginsMore
    <3>12. Failed(Eval(h)[n]) /\ Eval(h)[n].calls = J[i]
      BY <3>3 DEF Failed, Yields, Error
    <3> QED BY <2>4, <2>9, <3>11, <3>12
  <2>12. CASE \A k \in 1 .. L : types[k] # "error"
    <3>1. PICK vals \in Seq(Vals(n)) :
                  /\ Len(vals) = L
                  /\ \A k \in 1 .. L : vals[k] = Eval(h)[args[k]].val
                  /\ Eval(h)[n] = Yields(Apply(Eval(h), h[n].name, vals).val,
                                         J[L] \o Apply(Eval(h), h[n].name, vals).calls)
      BY <1>2, <2>5, <2>7, <2>12, FuncEval
    <3>2. Types(vals) = types
      <4>1. \A k \in 1 .. L : vals[k].type = types[k]
        BY <2>5, <2>12, <3>1
      <4> QED BY <3>1, <4>1 DEF Types, Each
    <3>3. FuncType(h[n].name, types, EachQuoted(TypeOf(h), h, args, "error")) = "error"
      BY <1>2, FuncIs
    <3>4. Apply(Eval(h), h[n].name, vals) = Yields(Error, <<>>)
      <4> HIDE DEF types
      <4> QED BY <2>2, <2>3, <2>12, <3>1, <3>2, <3>3, UntypedApply
    <3>5. J[L] = K[L] /\ K[L] \in Seq(Calls)
      <4>1. L \in 0 .. L
        BY <2>1
      <4>2. \A j \in 1 .. L : ArgCalls(h, n)[j] = says[j]
        BY <2>5, <2>10, <2>12
      <4> HIDE DEF L
      <4>3. K[L] \in Seq(Calls)
        BY <2>9, <4>1 DEF Joins
      <4> QED BY <2>1, <2>7, <2>9, <4>1, <4>2, <4>3, JoinsSame
    <3>6. Failed(Eval(h)[n]) /\ Eval(h)[n].calls = J[L]
      <4>1. Eval(h)[n] = Yields(Error, J[L] \o <<>>)
        BY <3>1, <3>4 DEF Yields
      <4>2. J[L] \o <<>> = J[L]
        BY <3>5
      <4> QED BY <4>1, <4>2 DEF Failed, Yields, Error
    <3>7. Begins(J[L], K[L] \o more)
      BY <2>8, <3>5, BeginsAll
    <3> QED BY <2>4, <2>9, <3>6, <3>7
  <2> QED BY <2>11, <2>12
<1> QED BY <1>1, <1>2, NodeIs

\* Every expression on a heap
LEMMA ErrorEverywhere ==
  ASSUME NEW h, IsHeap(h)
  PROVE  \A n \in 1 .. Len(h) : ErrorAt(h, n)
<1> DEFINE S == {n \in 1 .. Len(h) : ErrorAt(h, n)}
<1>1. Len(h) \in Nat
  BY DEF IsHeap
<1>2. ASSUME NEW n \in 1 .. Len(h), \A k \in 1 .. n - 1 : k \in S PROVE n \in S
  BY <1>2, ErrorNode
<1>3. \A n \in 1 .. Len(h) : n \in S
  <2> HIDE DEF S
  <2> QED BY <1>1, <1>2, InductionFromBelow
<1> QED BY <1>3

\* ErrorsEndTheRequest: a request that is not well typed fails, and what it has
\* called by then is the beginning of what it says.
THEOREM ErrorsEndRequests == Spec => []ErrorsEndTheRequest
<1>1. ASSUME Formed PROVE ErrorsEndTheRequest
  <2>1. ErrorAt(heap, expr)
    BY <1>1, ErrorEverywhere DEF Formed
  <2>2. Eval(heap)[expr].calls \in Seq(Calls) /\ Postorder(heap)[expr] \in Seq(Calls)
    BY <1>1, EvalIs, PostorderCalls DEF Formed, Res
  <2>3. Begins(Eval(heap)[expr].calls, Postorder(heap)[expr])
        => IsPrefix(Eval(heap)[expr].calls, Postorder(heap)[expr])
    BY <2>2, BeginsIsPrefix
  <2> QED BY <2>1, <2>3 DEF ErrorAt, ErrorsEndTheRequest
<1> QED BY <1>1, RequestsAreFormed, PTL

-----------------------------------------------------------------------------
(* A request is its sequence of calls.                                     *)

Objects == {"event", "feature", "measurement"}

\* Each object that a call takes is what the call just before it gave.
Chained(calls) ==
  \A k \in 1 .. Len(calls) :
    \A t \in ToSet(API[calls[k]].takes) \cap Objects : k > 1 /\ API[calls[k - 1]].gives = t

LastGives(calls, t) == calls # <<>> /\ API[calls[Len(calls)]].gives = t

\* Two chains make one.
LEMMA ChainedConcat ==
  ASSUME NEW s \in Seq(Calls), NEW u \in Seq(Calls), Chained(s), Chained(u)
  PROVE  Chained(s \o u)
<1> DEFINE a == Len(s)
           w == s \o u
<1>1. a \in Nat /\ Len(u) \in Nat /\ Len(w) = a + Len(u)
  BY ConcatProperties
<1>2. /\ \A k \in 1 .. a : w[k] = s[k]
      /\ \A k \in 1 .. Len(w) : k > a => w[k] = u[k - a]
  <2>1. \A k \in 1 .. Len(s) + Len(u) : w[k] = IF k <= Len(s) THEN s[k] ELSE u[k - Len(s)]
    BY ConcatProperties
  <2> HIDE DEF w
  <2>2. \A k \in 1 .. a : k \in 1 .. Len(s) + Len(u) /\ k <= Len(s)
    BY <1>1
  <2>3. \A k \in 1 .. Len(w) : k > a => k \in 1 .. Len(s) + Len(u) /\ ~(k <= Len(s))
    BY <1>1
  <2> QED BY <2>1, <2>2, <2>3
<1> HIDE DEF w
<1>3. ASSUME NEW k \in 1 .. Len(w), NEW t \in ToSet(API[w[k]].takes) \cap Objects
      PROVE  k > 1 /\ API[w[k - 1]].gives = t
  <2>1. CASE k <= a
    <3>1. k \in 1 .. a /\ w[k] = s[k]
      BY <1>1, <1>2, <2>1
    <3>2. k > 1 /\ API[s[k - 1]].gives = t
      BY <1>3, <3>1 DEF Chained
    <3>3. w[k - 1] = s[k - 1]
      <4>1. k - 1 \in 1 .. a
        BY <1>1, <3>1, <3>2
      <4> QED BY <1>2, <4>1
    <3> QED BY <3>2, <3>3
  <2>2. CASE k > a
    <3>1. k - a \in 1 .. Len(u) /\ w[k] = u[k - a]
      BY <1>1, <1>2, <2>2
    <3>2. k - a > 1 /\ API[u[(k - a) - 1]].gives = t
      BY <1>3, <3>1 DEF Chained
    <3>3. w[k - 1] = u[(k - a) - 1] /\ k > 1
      <4>1. k - 1 \in 1 .. Len(w) /\ k - 1 > a /\ (k - 1) - a = (k - a) - 1 /\ k > 1
        BY <1>1, <3>2
      <4> QED BY <1>2, <4>1
    <3> QED BY <3>2, <3>3
  <2> QED BY <1>1, <2>1, <2>2
<1> QED BY <1>3 DEF Chained, w

\* A call whose object is what the last call gave continues the chain.
LEMMA ChainedCall ==
  ASSUME NEW s \in Seq(Calls), NEW c \in Calls, Chained(s),
         \A t \in ToSet(API[c].takes) \cap Objects : LastGives(s, t)
  PROVE  Chained(s \o <<c>>) /\ LastGives(s \o <<c>>, API[c].gives)
<1> DEFINE w == s \o <<c>>
           a == Len(s)
<1>1. /\ a \in Nat /\ Len(w) = a + 1 /\ w[a + 1] = c
      /\ \A k \in 1 .. a : w[k] = s[k]
  OBVIOUS
<1>2. w # <<>> /\ (a # 0 <=> s # <<>>)
  BY <1>1
<1> HIDE DEF w
<1>3. ASSUME NEW k \in 1 .. Len(w), NEW t \in ToSet(API[w[k]].takes) \cap Objects
      PROVE  k > 1 /\ API[w[k - 1]].gives = t
  <2>1. CASE k \in 1 .. a
    <3>1. k > 1 /\ API[s[k - 1]].gives = t
      BY <1>1, <1>3, <2>1 DEF Chained
    <3>2. k - 1 \in 1 .. a
      BY <1>1, <2>1, <3>1
    <3> QED BY <1>1, <3>1, <3>2
  <2>2. CASE k = a + 1
    <3>1. LastGives(s, t)
      BY <1>1, <1>3, <2>2
    <3>2. s # <<>> /\ API[s[a]].gives = t
      BY <3>1 DEF LastGives
    <3>3. k > 1 /\ k - 1 = a /\ a \in 1 .. a
      BY <1>1, <1>2, <2>2, <3>2
    <3> QED BY <1>1, <3>2, <3>3
  <2> QED BY <1>1, <2>1, <2>2
<1> QED BY <1>1, <1>2, <1>3 DEF Chained, LastGives, w

\* So do the chains of the arguments.
LEMMA ChainedJoins ==
  ASSUME NEW L \in Nat, NEW p \in [1 .. L -> Seq(Calls)], NEW J, Joins(p, L, Calls, J),
         \A k \in 1 .. L : Chained(p[k])
  PROVE  \A m \in 0 .. L : Chained(J[m])
<1> DEFINE S == {k \in Nat : Chained(J[k])}
<1>0. J[0] = <<>> /\ (\A k \in 1 .. L : J[k] = J[k - 1] \o p[k]) /\ \A k \in 0 .. L : J[k] \in Seq(Calls)
  BY DEF Joins
<1>1. 0 \in S
  BY <1>0 DEF Chained
<1>2. ASSUME NEW k \in 0 .. L - 1, k \in S PROVE k + 1 \in S
  <2>1. k + 1 \in 1 .. L /\ (k + 1) - 1 = k /\ k \in 0 .. L
    OBVIOUS
  <2>2. J[k + 1] = J[k] \o p[k + 1] /\ p[k + 1] \in Seq(Calls) /\ J[k] \in Seq(Calls)
    BY <1>0, <2>1
  <2>3. Chained(J[k]) /\ Chained(p[k + 1])
    BY <1>2, <2>1
  <2>4. Chained(J[k] \o p[k + 1])
    BY <2>2, <2>3, ChainedConcat
  <2>5. Chained(J[k + 1])
    BY <2>2, <2>4
  <2>6. k + 1 \in Nat
    BY <2>1
  <2> QED BY <2>5, <2>6
<1>3. \A k \in 0 .. L : k \in S
  <2> HIDE DEF S
  <2> QED BY <1>1, <1>2, InductionUpTo
<1> QED BY <1>3

\* Only the last argument of a call is an object, but for the lexpr of a hook.
LEMMA ObjectsAreLast ==
  ASSUME NEW c \in Calls, NEW t \in ToSet(API[c].takes) \cap Objects
  PROVE  /\ Len(API[c].takes) # 0
         /\ \/ API[c].takes[Len(API[c].takes)] = t
            \/ API[c].takes = <<"event", "lexpr">> /\ t = "event"
<1> DEFINE Takes == {<<"int">>, <<>>, <<"feature">>, <<"int", "measurement">>, <<"int", "int", "event">>,
                     <<"string", "int", "int">>, <<"string", "int">>, <<"event", "lexpr">>,
                     <<"string">>, <<"string", "string">>}
<1>1. API[c].takes \in Takes
  BY DEF Calls, API
<1>2. PICK s \in Takes : s = API[c].takes
  BY <1>1
<1>3. t \in ToSet(s) /\ t \in Objects
  BY <1>2
<1>4. PICK i \in 1 .. Len(s) : t = s[i]
  BY <1>3 DEF ToSet
<1>5. t # "int" /\ t # "string" /\ t # "lexpr"
  BY <1>3 DEF Objects
<1>6. CASE s \in {<<"int">>, <<"string">>, <<"feature">>}
  <2>1. \A x \in {<<"int">>, <<"string">>, <<"feature">>} : Len(x) = 1
    OBVIOUS
  <2>2. Len(s) = 1
    BY <1>6, <2>1
  <2>3. i = 1
    BY <2>2
  <2> QED BY <1>2, <1>4, <2>2, <2>3
<1>7. CASE s \in {<<"int", "measurement">>, <<"string", "int">>, <<"string", "string">>}
  <2>1. \A x \in {<<"int", "measurement">>, <<"string", "int">>, <<"string", "string">>} :
          Len(x) = 2 /\ x[1] \in {"int", "string"}
    OBVIOUS
  <2>2. Len(s) = 2 /\ s[1] \in {"int", "string"}
    BY <1>7, <2>1
  <2>3. i = 1 \/ i = 2
    BY <2>2
  <2> QED BY <1>2, <1>4, <1>5, <2>2, <2>3
<1>8. CASE s = <<"event", "lexpr">>
  <2>1. Len(s) = 2 /\ (i = 1 \/ i = 2) /\ s[1] = "event" /\ s[2] = "lexpr"
    BY <1>8
  <2> QED BY <1>2, <1>4, <1>5, <1>8, <2>1
<1>9. CASE s \in {<<"int", "int", "event">>, <<"string", "int", "int">>}
  <2>1. Len(s) = 3 /\ (i = 1 \/ i = 2 \/ i = 3) /\ s[1] \in {"int", "string"} /\ s[2] = "int"
    BY <1>9
  <2> QED BY <1>2, <1>4, <1>5, <2>1
<1>10. CASE s = <<>>
  BY <1>10
<1> QED BY <1>6, <1>7, <1>8, <1>9, <1>10

\* What ArgumentsAreLastResults says of the expression at n, and what its value
\* says of the calls: an object is what the last of them gave, and an expression
\* with a tick is one that was written there.
LastAt(h, n) ==
  ~Uses(h, "if")[n] =>
    /\ Chained(Eval(h)[n].calls)
    /\ Eval(h)[n].val.type \in Objects => LastGives(Eval(h)[n].calls, Eval(h)[n].val.type)
    /\ Eval(h)[n].val.type = "lexpr" => Quoted(h[n]) /\ Eval(h)[n].calls = <<>>

\* Errors, numbers and what returns nothing are not objects.
LEMMA NoObjects == Error.type \notin Objects \cup {"lexpr"} /\ Other("void").type \notin Objects \cup {"lexpr"}
                   /\ \A i : IntVal(i).type \notin Objects \cup {"lexpr"}
BY DEF Error, Other, IntVal, Objects

\* The parts of a result
LEMMA YieldsIs == \A v, c : Yields(v, c).val = v /\ Yields(v, c).calls = c
BY DEF Yields

\* The calls of a seq
LEMMA ChainedSeq ==
  ASSUME NEW n \in Nat, NEW vals \in Seq(Vals(n)), NEW results \in [1 .. Len(vals) -> Res(n)],
         \A k \in 1 .. Len(vals) : vals[k].type = "lexpr" => Chained(results[k].calls)
  PROVE  /\ Chained(EvalSeq(vals, results).calls)
         /\ EvalSeq(vals, results).val \in {Other("void"), Error}
<1> DEFINE L == Len(vals)
<1>1. L \in Nat /\ L \in 0 .. L
  OBVIOUS
<1>2. PICK after : SeqDone(vals, results, L, n, after)
  BY SeqIsDone
<1>3. /\ after[0] = Yields(Other("void"), <<>>) /\ EvalSeq(vals, results) = after[L]
      /\ \A k \in 1 .. L : after[k] = SeqStep(after[k - 1], vals[k], results[k])
      /\ \A k \in 0 .. L : after[k] \in Res(n)
  BY <1>2 DEF SeqDone
<1> DEFINE Ok(r) == Chained(r.calls) /\ r.val \in {Other("void"), Error}
           S == {k \in Nat : Ok(after[k])}
<1>4. 0 \in S
  <2>1. after[0].calls = <<>> /\ after[0].val = Other("void")
    BY <1>3 DEF Yields
  <2>2. Chained(<<>>)
    BY DEF Chained
  <2> QED BY <2>1, <2>2
<1>5. ASSUME NEW k \in 0 .. L - 1, k \in S PROVE k + 1 \in S
  <2> HIDE DEF L
  <2>1. k + 1 \in 1 .. L /\ (k + 1) - 1 = k /\ k + 1 \in Nat /\ k \in 0 .. L
    BY <1>1
  <2>2. after[k + 1] = SeqStep(after[k], vals[k + 1], results[k + 1]) /\ after[k] \in Res(n)
    BY <1>3, <2>1
  <2>3. Chained(after[k].calls) /\ after[k].val \in {Other("void"), Error}
    BY <1>5
  <2>4. results[k + 1] \in Res(n) /\ (vals[k + 1].type = "lexpr" => Chained(results[k + 1].calls))
    BY <2>1 DEF L
  <2>5. CASE Failed(after[k])
    BY <2>2, <2>3, <2>1, <2>5 DEF SeqStep
  <2>6. CASE ~Failed(after[k]) /\ vals[k + 1].type = "lexpr"
    <3>1. after[k + 1] = Yields(after[k].val, after[k].calls \o results[k + 1].calls)
      BY <2>2, <2>6 DEF SeqStep
    <3>2. after[k].calls \in Seq(Calls) /\ results[k + 1].calls \in Seq(Calls)
      BY <2>2, <2>4 DEF Res
    <3>3. Chained(after[k].calls \o results[k + 1].calls)
      BY <2>3, <2>4, <2>6, <3>2, ChainedConcat
    <3>4. after[k + 1].val = after[k].val /\ Chained(after[k + 1].calls)
      BY <3>1, <3>3 DEF Yields
    <3> QED BY <2>1, <2>3, <3>4
  <2>7. CASE ~Failed(after[k]) /\ vals[k + 1].type # "lexpr"
    <3>1. after[k + 1] = Yields(Error, after[k].calls)
      BY <2>2, <2>7 DEF SeqStep
    <3>2. after[k + 1].val = Error /\ after[k + 1].calls = after[k].calls
      BY <3>1 DEF Yields
    <3> QED BY <2>1, <2>3, <3>2
  <2> QED BY <2>5, <2>6, <2>7
<1>6. \A k \in 0 .. L : k \in S
  <2> HIDE DEF S, L
  <2> QED BY <1>1, <1>4, <1>5, InductionUpTo
<1>7. L \in S
  <2> HIDE DEF S, L
  <2> QED BY <1>1, <1>6
<1>8. Ok(after[L])
  <2> HIDE DEF Ok, L
  <2> QED BY <1>7
<1> QED BY <1>3, <1>8

\* The last argument's calls are the last.
LEMMA LastOfJoins ==
  ASSUME NEW L \in Nat, L # 0, NEW p \in [1 .. L -> Seq(Calls)], NEW J, Joins(p, L, Calls, J), NEW t,
         LastGives(p[L], t)
  PROVE  LastGives(J[L], t)
<1>1. L \in 1 .. L /\ L - 1 \in 0 .. L /\ L \in 0 .. L
  OBVIOUS
<1>2. J[L] = J[L - 1] \o p[L] /\ J[L - 1] \in Seq(Calls) /\ p[L] \in Seq(Calls)
  BY <1>1 DEF Joins
<1>3. p[L] # <<>> /\ API[p[L][Len(p[L])]].gives = t
  BY DEF LastGives
<1> DEFINE s == J[L - 1]
           u == p[L]
<1>4. Len(u) \in Nat /\ Len(u) # 0 /\ Len(s) \in Nat
  BY <1>2, <1>3, EmptySeq
<1>5. Len(s \o u) = Len(s) + Len(u) /\ (s \o u)[Len(s) + Len(u)] = u[Len(u)]
  <2> HIDE DEF s, u
  <2>1. s \in Seq(Calls) /\ u \in Seq(Calls)
    BY <1>2 DEF s, u
  <2>2. Len(s \o u) = Len(s) + Len(u)
    BY <2>1
  <2>3. Len(s) + Len(u) \in 1 .. Len(s) + Len(u) /\ ~(Len(s) + Len(u) <= Len(s))
    BY <1>4
  <2>4. (Len(s) + Len(u)) - Len(s) = Len(u)
    BY <1>4
  <2> QED BY <2>1, <2>2, <2>3, <2>4, ConcatProperties
<1>6. s \o u # <<>>
  BY <1>4, <1>5
<1> QED BY <1>2, <1>3, <1>5, <1>6 DEF LastGives

\* One expression, from those before it
LEMMA LastNode ==
  ASSUME NEW h, IsHeap(h), NEW n \in 1 .. Len(h), \A k \in 1 .. n - 1 : LastAt(h, k)
  PROVE  LastAt(h, n)
<1> SUFFICES ASSUME ~Uses(h, "if")[n]
             PROVE  /\ Chained(Eval(h)[n].calls)
                    /\ Eval(h)[n].val.type \in Objects => LastGives(Eval(h)[n].calls, Eval(h)[n].val.type)
                    /\ Eval(h)[n].val.type = "lexpr" => Quoted(h[n]) /\ Eval(h)[n].calls = <<>>
  BY DEF LastAt
<1> DEFINE Goal(r) == /\ Chained(r.calls)
                      /\ r.val.type \in Objects => LastGives(r.calls, r.val.type)
                      /\ r.val.type # "lexpr"
<1>1. CASE IsValue(h, n)
  <2>1. Eval(h)[n].val = h[n].value /\ Eval(h)[n].calls = <<>>
    <3>1. Eval(h)[n] = Yields(h[n].value, <<>>)
      BY <1>1, TypedValue
    <3> QED BY <3>1, YieldsIs
  <2>2. h[n].value.type \notin Objects
    BY <1>1 DEF IsValue, Literals, IntVal, StrVal, Lexpr, Objects
  <2>3. h[n].value.type = "lexpr" => Quoted(h[n])
    BY <1>1 DEF IsValue, Quoted
  <2>4. Chained(<<>>)
    BY DEF Chained
  <2> QED BY <2>1, <2>2, <2>3, <2>4
<1>2. CASE IsFunc(h, n)
  <2> DEFINE name == h[n].name
             args == h[n].args
             L == Len(args)
             e == Eval(h)
  <2>1. L \in Nat /\ n \in Nat /\ \A k \in 1 .. L : args[k] \in 1 .. n - 1 /\ args[k] \in 1 .. Len(h)
    BY <1>2, FuncIs
  <2>2. name # <<"if">> /\ \A k \in 1 .. L : ~Uses(h, "if")[args[k]]
    BY <1>2, UsesNot
  <2>3. ASSUME NEW k \in 1 .. L
        PROVE  /\ Chained(e[args[k]].calls)
               /\ e[args[k]].val.type \in Objects => LastGives(e[args[k]].calls, e[args[k]].val.type)
               /\ e[args[k]].val.type = "lexpr" => Quoted(h[args[k]]) /\ e[args[k]].calls = <<>>
    BY <2>1, <2>2 DEF LastAt
  <2>4. PICK J : Joins(ArgCalls(h, n), L, Calls, J)
    BY <1>2, ArgCallsJoin
  <2>5. ArgCalls(h, n) \in [1 .. L -> Seq(Calls)] /\ \A k \in 1 .. L : ArgCalls(h, n)[k] = e[args[k]].calls
    BY <1>2, ArgCallsJoin DEF ArgCalls
  <2>6. \A m \in 0 .. L : Chained(J[m]) /\ J[m] \in Seq(Calls)
    <3>1. \A k \in 1 .. L : Chained(ArgCalls(h, n)[k])
      BY <2>3, <2>5
    <3> HIDE DEF L, e
    <3>2. \A m \in 0 .. L : Chained(J[m])
      BY <2>1, <2>4, <2>5, <3>1, ChainedJoins
    <3> QED BY <2>4, <3>2 DEF Joins
  <2>7. CASE \E k \in 1 .. L : Failed(e[args[k]])
    <3> DEFINE S == {k \in 1 .. L : Failed(e[args[k]])}
    <3>1. PICK i \in 1 .. L : i \in S /\ \A j \in 1 .. i - 1 : j \notin S
      <4>1. PICK k \in 1 .. L : k \in S
        BY <2>7
      <4> HIDE DEF S, L
      <4> QED BY <2>1, <4>1, FirstExists
    <3>2. Failed(e[args[i]]) /\ \A j \in 1 .. i - 1 : ~Failed(e[args[j]])
      BY <2>1, <3>1
    <3>3. e[n] = Yields(Error, J[i])
      BY <1>2, <2>4, <3>2, FuncEval
    <3>4. Chained(J[i])
      BY <2>1, <2>6
    <3>5. e[n].val = Error /\ e[n].calls = J[i]
      BY <3>3 DEF Yields
    <3> QED BY <3>4, <3>5, NoObjects
  <2>8. CASE \A k \in 1 .. L : ~Failed(e[args[k]])
    <3>1. PICK vals \in Seq(Vals(n)) :
                  /\ Len(vals) = L
                  /\ \A k \in 1 .. L : vals[k] = e[args[k]].val
                  /\ Apply(e, name, vals) \in Res(n)
                  /\ e[n] = Yields(Apply(e, name, vals).val, J[L] \o Apply(e, name, vals).calls)
      <4>1. \A k \in 1 .. Len(h[n].args) : ~Failed(Eval(h)[h[n].args[k]])
        BY <2>8
      <4>2. Joins(ArgCalls(h, n), Len(h[n].args), Calls, J)
        BY <2>4
      <4> HIDE DEF name, args, L, e
      <4>3. \E vals \in Seq(Vals(n)) :
              /\ Len(vals) = Len(h[n].args)
              /\ \A k \in 1 .. Len(h[n].args) : vals[k] = Eval(h)[h[n].args[k]].val
              /\ Apply(Eval(h), h[n].name, vals) \in Res(n)
              /\ Eval(h)[n] = Yields(Apply(Eval(h), h[n].name, vals).val,
                                     J[Len(h[n].args)] \o Apply(Eval(h), h[n].name, vals).calls)
        BY <1>2, <4>1, <4>2, FuncEval
      <4> QED BY <4>3 DEF name, args, L, e
    <3> DEFINE r == Apply(e, name, vals)
    <3>2. Chained(J[L]) /\ J[L] \in Seq(Calls) /\ r.calls \in Seq(Calls)
      <4>1. L \in 0 .. L
        BY <2>1
      <4> QED BY <2>6, <3>1, <4>1 DEF Res
    <3>3. e[n].val = r.val /\ e[n].calls = J[L] \o r.calls
      <4> DEFINE v == r.val
                 c == J[L] \o r.calls
      <4>1. e[n] = Yields(v, c)
        BY <3>1
      <4> HIDE DEF v, c, e
      <4>2. e[n].val = v /\ e[n].calls = c
        BY <4>1, YieldsIs
      <4> QED BY <4>2 DEF v, c
    <3>4. ASSUME r.calls = <<>>, r.val.type \notin Objects \cup {"lexpr"} PROVE Goal(e[n])
      <4>1. e[n].calls = J[L]
        BY <3>2, <3>3, <3>4
      <4> QED BY <3>2, <3>3, <3>4, <4>1
    <3>5. CASE name = <<"print">>
      <4>1. r = EvalPrint(vals)
        BY <3>5 DEF Apply
      <4>2. r.calls = <<>> /\ (r.val = Error \/ r.val = Other("void"))
        BY <4>1 DEF EvalPrint, Yields
      <4> QED BY <3>4, <4>2, NoObjects
    <3>6. CASE name = <<"eq">>
      <4>1. r = EvalEq(vals)
        BY <3>6 DEF Apply
      <4>2. r.calls = <<>> /\ (r.val = Error \/ r.val = IntVal(1) \/ r.val = IntVal(0))
        BY <4>1 DEF EvalEq, Yields
      <4> QED BY <3>4, <4>2, NoObjects
    <3>7. CASE name = <<"seq">>
      <4> DEFINE R == SeqResults(e, vals)
      <4>1. r = EvalSeq(vals, R)
        BY <3>7 DEF Apply
      <4>2. R \in [1 .. Len(vals) -> Res(n)]
        <5>1. Below(e, n)
          BY <2>1, NodeIs, EvalIs DEF Below
        <5> QED BY <2>1, <5>1, SeqResultsRes
      <4>3. ASSUME NEW k \in 1 .. Len(vals), vals[k].type = "lexpr" PROVE Chained(R[k].calls)
        <5> DEFINE a == args[k]
                   m == h[a].value.lexpr
        <5>0. k \in 1 .. L
          BY <3>1
        <5>1. Quoted(h[a])
          BY <2>3, <3>1, <4>3, <5>0
        <5>2. m \in 1 .. n - 1 /\ e[a] = Yields(Lexpr(m), <<>>)
          <6>1. Quotes(h, n, h[n].args[k])
            BY <1>2, <5>0, <5>1, QuotedIs
          <6> QED BY <6>1 DEF Quotes
        <5>3. ~Uses(h, "if")[m]
          <6>1. a \in 1 .. Len(h) /\ ~Uses(h, "if")[a]
            BY <2>1, <2>2, <5>0
          <6>2. IsValue(h, a)
            BY <5>1, <6>1, NodeIs DEF Quoted, IsFunc
          <6> HIDE DEF a
          <6> QED BY <5>1, <6>1, <6>2, UsesNotQuoted
        <5>4. Chained(e[m].calls)
          BY <5>2, <5>3 DEF LastAt
        <5>5. vals[k].lexpr = m
          BY <3>1, <5>0, <5>2 DEF Yields, Lexpr
        <5>6. R[k] = e[m]
          BY <4>3, <5>5 DEF SeqResults
        <5> QED BY <5>4, <5>6
      <4> HIDE DEF R
      <4>4. Chained(EvalSeq(vals, R).calls) /\ EvalSeq(vals, R).val \in {Other("void"), Error}
        BY <2>1, <4>2, <4>3, ChainedSeq
      <4>5. Chained(J[L] \o r.calls)
        BY <3>2, <4>1, <4>4, ChainedConcat
      <4>6. r.val.type \notin Objects \cup {"lexpr"}
        BY <4>1, <4>4, NoObjects
      <4> HIDE DEF r
      <4> QED BY <3>3, <4>5, <4>6
    <3>8. CASE name \notin Specials /\ IsCall(name)
      <4> DEFINE c == name[1]
      <4>1. c \in Calls
        BY <1>2, <3>8, CallName DEF IsFunc
      <4>2. r = CallAPI(c, vals)
        BY <3>8 DEF Apply, Specials
      <4>3. CASE ~CheckArgs(API[c].takes, vals)
        <5>1. r.calls = <<>> /\ r.val = Error
          BY <4>2, <4>3 DEF CallAPI, Yields
        <5> QED BY <3>4, <5>1, NoObjects
      <4>4. CASE CheckArgs(API[c].takes, vals)
        <5>1. r.calls = <<c>> /\ r.val = Result(c)
          BY <4>2, <4>4 DEF CallAPI, Yields
        <5>2. API[c].takes = [k \in 1 .. L |-> vals[k].type]
          BY <3>1, <4>4 DEF CheckArgs, Types
        <5>3. Len(API[c].takes) = L
          BY <2>1, <5>2
        <5>4. ASSUME NEW t \in ToSet(API[c].takes) \cap Objects PROVE LastGives(J[L], t)
          <6>1. /\ L # 0
                /\ \/ API[c].takes[L] = t
                   \/ API[c].takes = <<"event", "lexpr">> /\ t = "event"
            BY <4>1, <5>3, ObjectsAreLast
          <6>2. L \in 1 .. L
            BY <2>1, <6>1
          <6>3. CASE API[c].takes[L] = t
            <7>1. e[args[L]].val.type = t
              BY <3>1, <5>2, <6>2, <6>3
            <7>2. LastGives(ArgCalls(h, n)[L], t)
              BY <2>3, <2>5, <6>2, <7>1
            <7> HIDE DEF L
            <7> QED BY <2>1, <2>4, <2>5, <6>1, <7>2, LastOfJoins
          <6>4. CASE API[c].takes = <<"event", "lexpr">> /\ t = "event"
            <7>1. L = 2
              BY <5>3, <6>4
            <7>2. vals[1].type = "event" /\ vals[2].type = "lexpr"
              <8>1. API[c].takes[1] = "event" /\ API[c].takes[2] = "lexpr"
                BY <6>4
              <8>2. 1 \in 1 .. L /\ 2 \in 1 .. L
                BY <7>1
              <8> QED BY <5>2, <8>1, <8>2
            <7>3. LastGives(e[args[1]].calls, "event") /\ e[args[2]].calls = <<>>
              <8>1. 1 \in 1 .. L /\ 2 \in 1 .. L
                BY <7>1
              <8>2. e[args[1]].val.type = "event" /\ e[args[2]].val.type = "lexpr"
                BY <3>1, <7>2, <8>1
              <8> QED BY <2>3, <8>1, <8>2 DEF Objects
            <7>4. /\ J[0] = <<>> /\ J[1] = J[0] \o e[args[1]].calls /\ J[2] = J[1] \o e[args[2]].calls
                  /\ J[1] \in Seq(Calls) /\ e[args[1]].calls \in Seq(Calls)
              <8>1. 1 \in 1 .. L /\ 2 \in 1 .. L /\ 1 \in 0 .. L /\ 1 - 1 = 0 /\ 2 - 1 = 1
                BY <7>1
              <8> HIDE DEF L, e
              <8> QED BY <2>4, <2>5, <8>1 DEF Joins
            <7>5. J[2] = e[args[1]].calls
              BY <7>3, <7>4
            <7> QED BY <6>4, <7>1, <7>3, <7>5
          <6> QED BY <6>1, <6>3, <6>4
        <5>5. Chained(J[L] \o <<c>>) /\ LastGives(J[L] \o <<c>>, API[c].gives)
          BY <3>2, <4>1, <5>4, ChainedCall
        <5>6. Result(c).type = API[c].gives /\ API[c].gives # "lexpr"
          BY <2>1, <4>1, ResultType, APIGives DEF Gives
        <5> QED BY <3>3, <5>1, <5>5, <5>6
      <4> QED BY <4>3, <4>4
    <3>9. CASE name \notin Specials /\ ~IsCall(name)
      <4>1. r = Yields(Error, <<>>)
        BY <3>9 DEF Apply, Specials
      <4>2. r.calls = <<>> /\ r.val = Error
        BY <4>1 DEF Yields
      <4> QED BY <3>4, <4>2, NoObjects
    <3> QED BY <2>2, <3>5, <3>6, <3>7, <3>8, <3>9 DEF Specials
  <2> QED BY <2>7, <2>8
<1> QED BY <1>1, <1>2, NodeIs

\* Every expression on a heap
LEMMA LastEverywhere ==
  ASSUME NEW h, IsHeap(h)
  PROVE  \A n \in 1 .. Len(h) : LastAt(h, n)
<1> DEFINE S == {n \in 1 .. Len(h) : LastAt(h, n)}
<1>1. Len(h) \in Nat
  BY DEF IsHeap
<1>2. ASSUME NEW n \in 1 .. Len(h), \A k \in 1 .. n - 1 : k \in S PROVE n \in S
  BY <1>2, LastNode
<1>3. \A n \in 1 .. Len(h) : n \in S
  <2> HIDE DEF S
  <2> QED BY <1>1, <1>2, InductionFromBelow
<1> QED BY <1>3

\* ArgumentsAreLastResults: without "if", each event, feature or measurement
\* that a call takes is what the call just before it gave.
THEOREM RequestsAreTheirCalls == Spec => []ArgumentsAreLastResults
<1>1. ASSUME Formed PROVE ArgumentsAreLastResults
  <2>1. LastAt(heap, expr)
    BY <1>1, LastEverywhere DEF Formed
  <2> QED BY <2>1 DEF LastAt, ArgumentsAreLastResults, Chained, Objects
<1> QED BY <1>1, RequestsAreFormed, PTL

-----------------------------------------------------------------------------
(* The places at which a token ends and the next one begins.               *)

\* What texts are made of (the prover does not know that a literal is in STRING)
Chars == STRING \cup Special \cup {"s", "0", "1"}

\* The library's Min is the smallest of numbers.
LEMMA MinIs ==
  ASSUME NEW S \in SUBSET Nat, S # {}
  PROVE  Min(S) \in S /\ \A y \in S : Min(S) <= y
<1> DEFINE R == OpToRel(<, Nat)
<1>1. IsWellFoundedOn(R, Nat)
  BY NatLessThanWellFounded
<1>2. PICK n \in S : \A y \in S : ~ (<<y, n>> \in R)
  <2> HIDE DEF R
  <2> QED BY <1>1, WFMin
<1>3. \A y \in S : ~ (y < n)
  BY <1>2 DEF OpToRel
<1>4. \A y \in S : n <= y
  BY <1>3
<1> QED BY <1>4 DEF Min

\* The first place in S, at or after i
LEMMA FirstInIs ==
  ASSUME NEW S, NEW in, Len(in) \in Nat, NEW i \in 1 .. Len(in) + 1
  PROVE  /\ FirstIn(S, in, i) \in i .. Len(in) + 1
         /\ \A j \in i .. FirstIn(S, in, i) - 1 : in[j] \notin S
         /\ FirstIn(S, in, i) <= Len(in) => in[FirstIn(S, in, i)] \in S
<1> DEFINE T == {j \in i .. Len(in) : in[j] \in S} \cup {Len(in) + 1}
<1>1. Len(in) \in Nat /\ i \in Nat
  OBVIOUS
<1>2. T \in SUBSET Nat /\ T # {} /\ T \subseteq i .. Len(in) + 1
  BY <1>1
<1>3. Min(T) \in T /\ \A y \in T : Min(T) <= y
  <2> HIDE DEF T
  <2> QED BY <1>2, MinIs
<1>4. FirstIn(S, in, i) = Min(T)
  BY DEF FirstIn
<1> DEFINE m == Min(T)
<1>5. m \in i .. Len(in) + 1
  BY <1>2, <1>3
<1>6. \A j \in i .. m - 1 : in[j] \notin S
  <2> SUFFICES ASSUME NEW j \in i .. m - 1, in[j] \in S PROVE FALSE
    OBVIOUS
  <2>1. j \in i .. Len(in) /\ j < m
    BY <1>1, <1>5
  <2>2. j \in T
    BY <2>1
  <2> QED BY <1>1, <1>3, <2>1, <2>2
<1>7. m <= Len(in) => in[m] \in S
  BY <1>1, <1>3
<1> HIDE DEF T
<1> QED BY <1>4, <1>5, <1>6, <1>7

\* The first place at or after i that is no blank
LEMMA NotBlankIs ==
  ASSUME NEW in, Len(in) \in Nat, NEW i \in 1 .. Len(in) + 1
  PROVE  /\ NotBlank(in, i) \in i .. Len(in) + 1
         /\ \A j \in i .. NotBlank(in, i) - 1 : in[j] = Blank
         /\ NotBlank(in, i) <= Len(in) => in[NotBlank(in, i)] # Blank
<1> DEFINE T == {j \in i .. Len(in) : in[j] # Blank} \cup {Len(in) + 1}
<1>1. Len(in) \in Nat /\ i \in Nat
  OBVIOUS
<1>2. T \in SUBSET Nat /\ T # {} /\ T \subseteq i .. Len(in) + 1
  BY <1>1
<1>3. Min(T) \in T /\ \A y \in T : Min(T) <= y
  <2> HIDE DEF T
  <2> QED BY <1>2, MinIs
<1>4. NotBlank(in, i) = Min(T)
  BY DEF NotBlank
<1> DEFINE m == Min(T)
<1>5. m \in i .. Len(in) + 1
  BY <1>2, <1>3
<1>6. \A j \in i .. m - 1 : in[j] = Blank
  <2> SUFFICES ASSUME NEW j \in i .. m - 1, in[j] # Blank PROVE FALSE
    OBVIOUS
  <2>1. j \in i .. Len(in) /\ j < m
    BY <1>1, <1>5
  <2>2. j \in T
    BY <2>1
  <2> QED BY <1>1, <1>3, <2>1, <2>2
<1>7. m <= Len(in) => in[m] # Blank
  BY <1>1, <1>3
<1> HIDE DEF T
<1> QED BY <1>4, <1>5, <1>6, <1>7

\* What is no blank is not skipped, ...
LEMMA StaysThere ==
  ASSUME NEW in, Len(in) \in Nat, NEW i \in 1 .. Len(in), in[i] # Blank
  PROVE  NotBlank(in, i) = i
<1>1. i \in 1 .. Len(in) + 1 /\ Len(in) \in Nat /\ i \in Nat
  OBVIOUS
<1>2. NotBlank(in, i) \in i .. Len(in) + 1 /\ \A j \in i .. NotBlank(in, i) - 1 : in[j] = Blank
  BY <1>1, NotBlankIs
<1> QED BY <1>1, <1>2

\* ... and a single blank is.
LEMMA BlankIsSkipped ==
  ASSUME NEW in, Len(in) \in Nat, NEW i \in 1 .. Len(in) - 1, in[i] = Blank, in[i + 1] # Blank
  PROVE  NotBlank(in, i) = i + 1
<1>1. i \in 1 .. Len(in) + 1 /\ Len(in) \in Nat /\ i \in Nat /\ i + 1 <= Len(in)
  OBVIOUS
<1>2. /\ NotBlank(in, i) \in i .. Len(in) + 1 /\ \A j \in i .. NotBlank(in, i) - 1 : in[j] = Blank
      /\ NotBlank(in, i) <= Len(in) => in[NotBlank(in, i)] # Blank
  BY <1>1, NotBlankIs
<1> QED BY <1>1, <1>2

\* The next token begins further on, if there is one.
LEMMA NextIsFurther ==
  ASSUME NEW in, Len(in) \in Nat, NEW i \in 1 .. Len(in) + 1
  PROVE  /\ TokenEnd(in, i) \in Nat
         /\ TokenEnd(in, i) <= Len(in) => NotBlank(in, TokenEnd(in, i)) \in i + 1 .. Len(in) + 1
<1>0. Len(in) \in Nat /\ i \in Nat
  OBVIOUS
<1>1. CASE i > Len(in)
  BY <1>0, <1>1 DEF TokenEnd
<1>2. CASE i <= Len(in)
  <2>0. i \in 1 .. Len(in) /\ i + 1 \in 1 .. Len(in) + 1
    BY <1>0, <1>2
  <2>1. CASE in[i] \in Parens
    <3>1. TokenEnd(in, i) = i + 1
      BY <1>0, <1>2, <2>1 DEF TokenEnd
    <3> QED BY <1>0, <2>0, <3>1, NotBlankIs
  <2>2. CASE in[i] \notin Parens /\ in[i] = Quote
    <3> DEFINE q == FirstIn({Quote}, in, i + 1)
    <3>1. q \in i + 1 .. Len(in) + 1
      BY <2>0, FirstInIs
    <3>2. TokenEnd(in, i) = q + 1
      BY <1>0, <1>2, <2>2 DEF TokenEnd
    <3> HIDE DEF q
    <3>3. q + 1 <= Len(in) => q + 1 \in 1 .. Len(in) + 1
      BY <1>0, <3>1
    <3>4. q + 1 <= Len(in) => NotBlank(in, q + 1) \in q + 1 .. Len(in) + 1
      BY <3>3, NotBlankIs
    <3> QED BY <1>0, <3>1, <3>2, <3>4
  <2>3. CASE in[i] \notin Parens /\ in[i] # Quote
    <3> DEFINE S == Parens \cup {Blank}
               q == FirstIn(S, in, i)
    <3>1. q \in i .. Len(in) + 1 /\ \A j \in i .. q - 1 : in[j] \notin S
      <4> HIDE DEF S
      <4> QED BY FirstInIs
    <3>2. TokenEnd(in, i) = q
      BY <1>0, <1>2, <2>3 DEF TokenEnd
    <3>3. q = i => in[i] = Blank
      <4>1. q <= Len(in) => in[q] \in S
        <5> HIDE DEF S
        <5> QED BY FirstInIs
      <4> HIDE DEF q
      <4> QED BY <1>2, <2>3, <4>1
    <3> HIDE DEF q, S
    <3>4. q \in 1 .. Len(in) + 1
      BY <1>0, <3>1
    <3>5. NotBlank(in, q) \in q .. Len(in) + 1 /\ (NotBlank(in, q) <= Len(in) => in[NotBlank(in, q)] # Blank)
      BY <3>4, NotBlankIs
    <3> QED BY <1>0, <1>2, <3>1, <3>2, <3>3, <3>5
  <2> QED BY <2>1, <2>2, <2>3
<1> QED BY <1>0, <1>1, <1>2

-----------------------------------------------------------------------------
(* TokensFrom, at each place.                                              *)

TokenStep(in, f, i) ==
  IF TokenEnd(in, i) > Len(in) + 1 THEN NoTokens
  ELSE IF TokenEnd(in, i) = Len(in) + 1 THEN <<SubSeq(in, i, TokenEnd(in, i) - 1)>>
  ELSE IF f[NotBlank(in, TokenEnd(in, i))] = NoTokens THEN NoTokens
  ELSE <<SubSeq(in, i, TokenEnd(in, i) - 1)>> \o f[NotBlank(in, TokenEnd(in, i))]

\* What is read at i depends on the tokens from later places on.
LEMMA TokenStepLocal ==
  ASSUME NEW in, Len(in) \in Nat, NEW i \in 1 .. Len(in) + 1,
         NEW f, NEW g, \A j \in i + 1 .. Len(in) + 1 : f[j] = g[j]
  PROVE  TokenStep(in, f, i) = TokenStep(in, g, i)
<1>1. /\ TokenEnd(in, i) \in Nat /\ Len(in) \in Nat
      /\ TokenEnd(in, i) <= Len(in) => NotBlank(in, TokenEnd(in, i)) \in i + 1 .. Len(in) + 1
  BY NextIsFurther
<1> DEFINE e == TokenEnd(in, i)
           b == NotBlank(in, e)
<1>2. e <= Len(in) => f[b] = g[b]
  BY <1>1
<1>3. e > Len(in) + 1 \/ e = Len(in) + 1 \/ e <= Len(in)
  BY <1>1
<1> HIDE DEF b, e
<1> QED BY <1>2, <1>3 DEF TokenStep, b, e

\* TokensFrom satisfies its recursive equation.
LEMMA TokensFromIs ==
  ASSUME NEW in, Len(in) \in Nat
  PROVE  TokensFrom(in) = [i \in 1 .. Len(in) + 1 |-> TokenStep(in, TokensFrom(in), i)]
<1> DEFINE L == Len(in) + 1
           Good(k) == \E f : f = [i \in L + 1 - k .. L |-> TokenStep(in, f, i)]
           N == {k \in Nat : k <= L => Good(k)}
<1>0. L \in Nat /\ L = Len(in) + 1
  OBVIOUS
<1> HIDE DEF L
<1>1. Good(0)
  <2> DEFINE f == [i \in L + 1 .. L |-> i]
  <2>1. f = [i \in L + 1 - 0 .. L |-> TokenStep(in, f, i)]
    BY <1>0
  <2> HIDE DEF f
  <2> QED BY <2>1
<1>2. ASSUME NEW k \in Nat, k + 1 <= L, Good(k) PROVE Good(k + 1)
  <2>1. PICK f : f = [i \in L + 1 - k .. L |-> TokenStep(in, f, i)]
    BY <1>2
  <2> DEFINE g == [i \in L + 1 - (k + 1) .. L |-> TokenStep(in, f, i)]
  <2>2. \A i \in L + 1 - k .. L : i \in L + 1 - (k + 1) .. L /\ g[i] = f[i]
    <3>1. \A i \in L + 1 - k .. L : i \in L + 1 - (k + 1) .. L
      BY <1>0, <1>2
    <3>2. \A i \in L + 1 - (k + 1) .. L : g[i] = TokenStep(in, f, i)
      OBVIOUS
    <3>3. \A i \in L + 1 - k .. L : f[i] = TokenStep(in, f, i)
      BY <2>1
    <3> HIDE DEF g
    <3> QED BY <3>1, <3>2, <3>3
  <2>3. ASSUME NEW i \in L + 1 - (k + 1) .. L PROVE TokenStep(in, f, i) = TokenStep(in, g, i)
    <3>1. i \in 1 .. Len(in) + 1 /\ i + 1 .. L \subseteq L + 1 - k .. L
      BY <1>0, <1>2
    <3>2. \A j \in i + 1 .. Len(in) + 1 : f[j] = g[j]
      BY <1>0, <2>2, <3>1
    <3> HIDE DEF g
    <3> QED BY <3>1, <3>2, TokenStepLocal
  <2>4. g = [i \in L + 1 - (k + 1) .. L |-> TokenStep(in, g, i)]
    <3>1. g = [i \in L + 1 - (k + 1) .. L |-> TokenStep(in, f, i)]
      OBVIOUS
    <3> HIDE DEF g
    <3> QED BY <2>3, <3>1
  <2> HIDE DEF g
  <2> QED BY <2>4
<1>3. N = Nat
  <2>1. N \in SUBSET Nat /\ 0 \in N /\ \A n \in N : n + 1 \in N
    <3> HIDE DEF Good
    <3> QED BY <1>0, <1>1, <1>2
  <2> HIDE DEF N
  <2> QED BY <2>1, SetInduction
<1>4. \E f : f = [i \in 1 .. L |-> TokenStep(in, f, i)]
  <2>1. L \in N
    <3> HIDE DEF N
    <3> QED BY <1>0, <1>3
  <2>2. Good(L)
    <3> HIDE DEF Good
    <3> QED BY <1>0, <2>1
  <2>3. L + 1 - L = 1
    BY <1>0
  <2> QED BY <2>2, <2>3
<1>5. TokensFrom(in) = CHOOSE f : f = [i \in 1 .. L |-> TokenStep(in, f, i)]
  BY <1>0 DEF TokensFrom, TokenStep
<1> QED BY <1>0, <1>4, <1>5

-----------------------------------------------------------------------------
(* The parser, at each token.                                              *)

Wanted == {"expr", "args"}
ParseStep(parse, ts, what, curr) ==
  IF what = "expr" THEN ParseExpr(parse, ts, curr) ELSE ParseArgs(parse, ts, curr)

\* What is read at c ends behind c and inside of the text.
Fits(r, c, L) == r.is = "expr" => r.curr \in c + 1 .. L

\* f has what is read from c on.
ReadFrom(f, ts, c) ==
  /\ f = [p \in Wanted \X (c .. Len(ts) + 1) |-> ParseStep(f, ts, p[1], p[2])]
  /\ \A w \in Wanted : \A d \in c .. Len(ts) + 1 : Fits(f[<<w, d>>], d, Len(ts) + 1)

\* f and g have the same from c on.
SameFrom(f, g, ts, c) == \A w \in Wanted : \A d \in c .. Len(ts) + 1 : f[<<w, d>>] = g[<<w, d>>]
FitFrom(f, ts, c)     == \A w \in Wanted : \A d \in c .. Len(ts) + 1 : Fits(f[<<w, d>>], d, Len(ts) + 1)

\* An expression depends on what comes after its first token; ...
LEMMA ExprStep ==
  ASSUME NEW ts, Len(ts) \in Nat, NEW c \in 1 .. Len(ts) + 1,
         NEW f, NEW g, SameFrom(f, g, ts, c + 1), FitFrom(f, ts, c + 1)
  PROVE  /\ ParseExpr(f, ts, c) = ParseExpr(g, ts, c)
         /\ Fits(ParseExpr(f, ts, c), c, Len(ts) + 1)
<1>1. CASE c > Len(ts)
  BY <1>1 DEF ParseExpr, Fits, Crash
<1>2. CASE c <= Len(ts) /\ ts[c] = Open
  <2>1. CASE c + 1 > Len(ts) \/ ts[c + 1] = Close
    BY <1>2, <2>1 DEF ParseExpr, ParseFunc, Fits, Null
  <2>2. CASE c + 1 <= Len(ts) /\ ts[c + 1] # Close
    <3> DEFINE a == f[<<"args", c + 2>>]
    <3>1. c + 2 \in c + 1 .. Len(ts) + 1 /\ "args" \in Wanted /\ c + 1 + 1 = c + 2
      BY <2>2 DEF Wanted
    <3>2. a = g[<<"args", c + 2>>] /\ Fits(a, c + 2, Len(ts) + 1)
      BY <3>1 DEF SameFrom, FitFrom
    <3>3. ParseExpr(f, ts, c) = IF a.is # "expr" THEN a ELSE Parsed(Func(ts[c + 1], a.expr), a.curr)
      BY <1>2, <2>2, <3>1 DEF ParseExpr, ParseFunc
    <3>4. ParseExpr(g, ts, c) = IF a.is # "expr" THEN a ELSE Parsed(Func(ts[c + 1], a.expr), a.curr)
      BY <1>2, <2>2, <3>1, <3>2 DEF ParseExpr, ParseFunc
    <3> HIDE DEF a
    <3>5. a.is = "expr" => a.curr \in c + 1 .. Len(ts) + 1
      BY <3>2 DEF Fits
    <3>6. Fits(ParseExpr(f, ts, c), c, Len(ts) + 1)
      BY <3>3, <3>5 DEF Fits, Parsed
    <3> QED BY <3>3, <3>4, <3>6
  <2> QED BY <2>1, <2>2
<1>3. CASE c <= Len(ts) /\ ts[c] # Open
  <2> DEFINE q == f[<<"expr", c + 1>>]
  <2>1. c + 1 \in c + 1 .. Len(ts) + 1 /\ "expr" \in Wanted
    BY <1>3 DEF Wanted
  <2>2. q = g[<<"expr", c + 1>>] /\ Fits(q, c + 1, Len(ts) + 1)
    BY <2>1 DEF SameFrom, FitFrom
  <2>3. ParseExpr(f, ts, c) = IF ts[c] # Tick THEN Parsed(Value(Literal(ts[c])), c + 1)
                              ELSE IF q.is = "expr" THEN Parsed(Value(Lexpr(q.expr)), q.curr) ELSE q
    BY <1>3 DEF ParseExpr, ParseValue
  <2>4. ParseExpr(g, ts, c) = IF ts[c] # Tick THEN Parsed(Value(Literal(ts[c])), c + 1)
                              ELSE IF q.is = "expr" THEN Parsed(Value(Lexpr(q.expr)), q.curr) ELSE q
    BY <1>3, <2>2 DEF ParseExpr, ParseValue
  <2> HIDE DEF q
  <2>5. q.is = "expr" => q.curr \in c + 1 .. Len(ts) + 1
    BY <2>2 DEF Fits
  <2>6. Fits(ParseExpr(f, ts, c), c, Len(ts) + 1)
    BY <1>3, <2>3, <2>5 DEF Fits, Parsed
  <2> QED BY <2>3, <2>4, <2>6
<1> QED BY <1>1, <1>2, <1>3

\* ... a list of arguments on that and on the expression at its first token.
LEMMA ArgsStep ==
  ASSUME NEW ts, Len(ts) \in Nat, NEW c \in 1 .. Len(ts) + 1,
         NEW f, NEW g, SameFrom(f, g, ts, c + 1), FitFrom(f, ts, c + 1),
         f[<<"expr", c>>] = g[<<"expr", c>>], Fits(f[<<"expr", c>>], c, Len(ts) + 1)
  PROVE  /\ ParseArgs(f, ts, c) = ParseArgs(g, ts, c)
         /\ Fits(ParseArgs(f, ts, c), c, Len(ts) + 1)
<1>1. CASE c > Len(ts)
  BY <1>1 DEF ParseArgs, Fits, Null
<1>2. CASE c <= Len(ts) /\ ts[c] = Close
  <2>1. ParseArgs(f, ts, c) = Parsed(<<>>, c + 1) /\ ParseArgs(g, ts, c) = Parsed(<<>>, c + 1)
    BY <1>2 DEF ParseArgs
  <2> QED BY <1>2, <2>1 DEF Parsed, Fits
<1>3. CASE c <= Len(ts) /\ ts[c] # Close
  <2> DEFINE a == f[<<"expr", c>>]
             r == f[<<"args", a.curr>>]
  <2>1. ParseArgs(f, ts, c) = IF a.is # "expr" THEN a ELSE IF r.is # "expr" THEN r
                              ELSE Parsed(<<a.expr>> \o r.expr, r.curr)
    BY <1>3 DEF ParseArgs
  <2>2. CASE a.is # "expr"
    BY <1>3, <2>1, <2>2 DEF ParseArgs, Fits
  <2>3. CASE a.is = "expr"
    <3>1. a.curr \in c + 1 .. Len(ts) + 1
      BY <2>3 DEF Fits
    <3>2. r = g[<<"args", a.curr>>] /\ Fits(r, a.curr, Len(ts) + 1)
      BY <3>1 DEF SameFrom, FitFrom, Wanted
    <3>3. ParseArgs(g, ts, c) = IF a.is # "expr" THEN a ELSE IF r.is # "expr" THEN r
                                ELSE Parsed(<<a.expr>> \o r.expr, r.curr)
      BY <1>3, <3>2 DEF ParseArgs
    <3> HIDE DEF a, r
    <3>4. r.is = "expr" => r.curr \in c + 1 .. Len(ts) + 1
      BY <3>1, <3>2 DEF Fits
    <3>5. Fits(ParseArgs(f, ts, c), c, Len(ts) + 1)
      BY <2>1, <2>3, <3>4 DEF Fits, Parsed
    <3> QED BY <2>1, <3>3, <3>5
  <2> QED BY <2>2, <2>3
<1> QED BY <1>1, <1>2, <1>3

\* What is read at c depends on what is read from c on.
LEMMA WhatIsRead ==
  ASSUME NEW ts, Len(ts) \in Nat, NEW c \in 1 .. Len(ts) + 1,
         NEW f, NEW g, SameFrom(f, g, ts, c), FitFrom(f, ts, c), NEW w \in Wanted
  PROVE  ParseStep(f, ts, w, c) = ParseStep(g, ts, w, c)
<1>1. SameFrom(f, g, ts, c + 1) /\ FitFrom(f, ts, c + 1)
  <2>1. c + 1 .. Len(ts) + 1 \subseteq c .. Len(ts) + 1
    OBVIOUS
  <2> QED BY <2>1 DEF SameFrom, FitFrom
<1>2. f[<<"expr", c>>] = g[<<"expr", c>>] /\ Fits(f[<<"expr", c>>], c, Len(ts) + 1)
  BY DEF SameFrom, FitFrom, Wanted
<1>3. ParseExpr(f, ts, c) = ParseExpr(g, ts, c)
  BY <1>1, ExprStep
<1>4. ParseArgs(f, ts, c) = ParseArgs(g, ts, c)
  BY <1>1, <1>2, ArgsStep
<1> QED BY <1>3, <1>4 DEF ParseStep

\* From what is read behind a token comes what is read at it.
LEMMA ReadOneMore ==
  ASSUME NEW ts, Len(ts) \in Nat, NEW c \in 1 .. Len(ts) + 1, NEW f, ReadFrom(f, ts, c + 1)
  PROVE  \E g : ReadFrom(g, ts, c)
<1> DEFINE L == Len(ts) + 1
           D == Wanted \X (c .. L)
           e == [p \in D |-> IF p[2] > c THEN f[p] ELSE ParseExpr(f, ts, c)]
           g == [p \in D |-> IF p[2] > c THEN f[p]
                             ELSE IF p[1] = "expr" THEN ParseExpr(f, ts, c) ELSE ParseArgs(e, ts, c)]
<1>0. c \in Nat /\ L \in Nat /\ c <= L
  OBVIOUS
<1>1. FitFrom(f, ts, c + 1)
  BY DEF ReadFrom, FitFrom
<1>2. \A w \in Wanted : \A d \in c + 1 .. L : <<w, d>> \in D /\ d > c
  BY <1>0
<1>3. \A w \in Wanted : \A d \in c + 1 .. L : e[<<w, d>>] = f[<<w, d>>] /\ g[<<w, d>>] = f[<<w, d>>]
  BY <1>2
<1>4. <<"expr", c>> \in D /\ <<"args", c>> \in D
  BY <1>0 DEF Wanted
<1>5. /\ e[<<"expr", c>>] = ParseExpr(f, ts, c) /\ g[<<"expr", c>>] = ParseExpr(f, ts, c)
      /\ g[<<"args", c>>] = ParseArgs(e, ts, c)
  BY <1>0, <1>4
<1>6. g = [p \in D |-> g[p]]
  OBVIOUS
<1> HIDE DEF g, e
<1>7. SameFrom(f, g, ts, c + 1) /\ SameFrom(e, g, ts, c + 1) /\ SameFrom(f, e, ts, c + 1)
  BY <1>3 DEF SameFrom
<1>8. FitFrom(e, ts, c + 1) /\ FitFrom(g, ts, c + 1)
  BY <1>1, <1>3 DEF FitFrom
<1>9. ParseExpr(f, ts, c) = ParseExpr(g, ts, c) /\ Fits(ParseExpr(f, ts, c), c, L)
  BY <1>1, <1>7, ExprStep
<1>10. ParseArgs(e, ts, c) = ParseArgs(g, ts, c) /\ Fits(ParseArgs(e, ts, c), c, L)
  <2>1. e[<<"expr", c>>] = g[<<"expr", c>>] /\ Fits(e[<<"expr", c>>], c, Len(ts) + 1)
    BY <1>5, <1>9
  <2> QED BY <1>7, <1>8, <2>1, ArgsStep
<1>11. FitFrom(g, ts, c)
  <2> SUFFICES ASSUME NEW w \in Wanted, NEW d \in c .. L PROVE Fits(g[<<w, d>>], d, L)
    BY DEF FitFrom
  <2>1. CASE d = c
    BY <1>5, <1>9, <1>10, <2>1 DEF Wanted
  <2>2. CASE d # c
    <3>1. d \in c + 1 .. L
      BY <1>0, <2>2
    <3> QED BY <1>8, <3>1 DEF FitFrom
  <2> QED BY <2>1, <2>2
<1>12. ASSUME NEW w \in Wanted, NEW d \in c .. L PROVE g[<<w, d>>] = ParseStep(g, ts, w, d)
  <2>1. CASE d = c
    BY <1>5, <1>9, <1>10, <2>1 DEF Wanted, ParseStep
  <2>2. CASE d # c
    <3>1. d \in c + 1 .. L /\ d \in 1 .. Len(ts) + 1 /\ d .. L \subseteq c + 1 .. L
      BY <1>0, <2>2
    <3>2. f[<<w, d>>] = ParseStep(f, ts, w, d)
      <4>1. <<w, d>> \in Wanted \X (c + 1 .. Len(ts) + 1)
        BY <3>1
      <4>2. f = [p \in Wanted \X (c + 1 .. Len(ts) + 1) |-> ParseStep(f, ts, p[1], p[2])]
        BY DEF ReadFrom
      <4> QED BY <4>1, <4>2
    <3>3. SameFrom(f, g, ts, d) /\ FitFrom(f, ts, d)
      BY <1>1, <1>7, <3>1 DEF SameFrom, FitFrom
    <3>4. ParseStep(f, ts, w, d) = ParseStep(g, ts, w, d)
      BY <3>1, <3>3, WhatIsRead
    <3> QED BY <1>3, <3>1, <3>2, <3>4
  <2> QED BY <2>1, <2>2
<1>13. g = [p \in D |-> ParseStep(g, ts, p[1], p[2])]
  <2>1. \A p \in D : p = <<p[1], p[2]>> /\ p[1] \in Wanted /\ p[2] \in c .. L
    OBVIOUS
  <2>2. \A p \in D : g[p] = ParseStep(g, ts, p[1], p[2])
    BY <1>12, <2>1
  <2> HIDE DEF D
  <2> QED BY <1>6, <2>2
<1> QED BY <1>11, <1>13 DEF ReadFrom, FitFrom

\* The parser is what it says at each token.
LEMMA ParserIs ==
  ASSUME NEW ts, Len(ts) \in Nat
  PROVE  \A w \in Wanted : \A c \in 1 .. Len(ts) + 1 :
           Parser(ts)[<<w, c>>] = ParseStep(Parser(ts), ts, w, c)
<1> DEFINE L == Len(ts) + 1
           Good(k) == \E f : ReadFrom(f, ts, L + 1 - k)
           N == {k \in Nat : k <= L => Good(k)}
<1>0. L \in Nat
  OBVIOUS
<1>1. Good(0)
  <2> DEFINE f == [p \in Wanted \X (L + 1 - 0 .. L) |-> p]
  <2>1. L + 1 - 0 .. L = {} /\ Len(ts) + 1 = L
    BY <1>0
  <2>2. f = [p \in Wanted \X (L + 1 - 0 .. L) |-> ParseStep(f, ts, p[1], p[2])]
    BY <2>1
  <2> HIDE DEF f, L
  <2> QED BY <2>1, <2>2 DEF ReadFrom
<1>2. ASSUME NEW k \in Nat, k + 1 <= L, Good(k) PROVE Good(k + 1)
  <2>1. PICK f : ReadFrom(f, ts, L + 1 - k)
    BY <1>2
  <2> DEFINE c == L + 1 - (k + 1)
  <2>2. c \in 1 .. L /\ c + 1 = L + 1 - k
    BY <1>0, <1>2
  <2> HIDE DEF c
  <2>3. \E g : ReadFrom(g, ts, c)
    BY <2>1, <2>2, ReadOneMore
  <2> QED BY <2>3 DEF c
<1>3. N = Nat
  <2>1. N \in SUBSET Nat /\ 0 \in N /\ \A n \in N : n + 1 \in N
    <3> HIDE DEF Good, L
    <3> QED BY <1>0, <1>1, <1>2
  <2> HIDE DEF N
  <2> QED BY <2>1, SetInduction
<1>4. \E f : ReadFrom(f, ts, 1)
  <2>1. L \in N
    <3> HIDE DEF N
    <3> QED BY <1>0, <1>3
  <2>2. Good(L)
    <3> HIDE DEF Good
    <3> QED BY <1>0, <2>1
  <2>3. L + 1 - L = 1
    BY <1>0
  <2> QED BY <2>2, <2>3
<1>5. Parser(ts) = CHOOSE f : f = [p \in Wanted \X (1 .. L) |-> ParseStep(f, ts, p[1], p[2])]
  BY DEF Parser, ParseStep, Wanted
<1>6. Parser(ts) = [p \in Wanted \X (1 .. L) |-> ParseStep(Parser(ts), ts, p[1], p[2])]
  <2>1. \E f : f = [p \in Wanted \X (1 .. L) |-> ParseStep(f, ts, p[1], p[2])]
    BY <1>4 DEF ReadFrom
  <2> QED BY <1>5, <2>1
<1> DEFINE P == Parser(ts)
<1>7. ASSUME NEW w \in Wanted, NEW c \in 1 .. L PROVE P[<<w, c>>] = ParseStep(P, ts, w, c)
  <2>1. <<w, c>> \in Wanted \X (1 .. L)
    OBVIOUS
  <2> HIDE DEF P, L
  <2> QED BY <1>6, <2>1 DEF P
<1> QED BY <1>7

-----------------------------------------------------------------------------
(* A request is read as what it is.                                        *)

Texts  == Seq(Chars)
Tokens == Seq(Texts)
Stops  == Parens \cup {Blank}

\* The tokens from the next one after i on
TokensAt(in, i) == TokensFrom(in)[NotBlank(in, i)]

\* s is in the text at i, and something comes after it; toks are among the tokens at c.
Holds(in, i, s)  == i + Len(s) <= Len(in) /\ \A k \in 1 .. Len(s) : in[i + k - 1] = s[k]
Has(ts, c, toks) == c + Len(toks) - 1 <= Len(ts) /\ \A k \in 1 .. Len(toks) : ts[c + k - 1] = toks[k]

\* Wherever s is in a text, it is read as these tokens; ...
Tokenized(s, toks) ==
  \A in \in Texts : \A i \in 1 .. Len(in) : \A rest \in Tokens :
    Holds(in, i, s) /\ in[i + Len(s)] \in Stops /\ rest # <<>> /\ TokensAt(in, i + Len(s)) = rest
      => TokensFrom(in)[i] = toks \o rest

\* ... wherever these are among tokens, they are parsed as e.
ParsedAs(toks, e) ==
  \A ts \in Tokens : \A c \in 1 .. Len(ts) :
    Has(ts, c, toks) => Parser(ts)[<<"expr", c>>] = Parsed(e, c + Len(toks))

Reads(s, e, toks) ==
  /\ s \in Texts /\ s # <<>> /\ s[1] # Blank
  /\ toks \in Tokens /\ toks # <<>> /\ toks[1] # Close
  /\ Tokenized(s, toks) /\ ParsedAs(toks, e)

ReadAt(h, n) == \E toks : Reads(TextOf(h)[n], Tree(h)[n], toks)

\* A token that ends inside of the text
LEMMA OneToken ==
  ASSUME NEW in \in Texts, NEW i \in 1 .. Len(in), TokenEnd(in, i) \in 1 .. Len(in),
         TokensAt(in, TokenEnd(in, i)) # <<>>
  PROVE  TokensFrom(in)[i] = <<SubSeq(in, i, TokenEnd(in, i) - 1)>> \o TokensAt(in, TokenEnd(in, i))
<1> DEFINE j == TokenEnd(in, i)
<1>1. i \in 1 .. Len(in) + 1 /\ Len(in) \in Nat /\ ~ (j > Len(in) + 1) /\ j # Len(in) + 1
  BY DEF Texts
<1>2. TokensFrom(in) = [k \in 1 .. Len(in) + 1 |-> TokenStep(in, TokensFrom(in), k)]
  BY TokensFromIs DEF Texts
<1>3. TokensFrom(in)[i] = TokenStep(in, TokensFrom(in), i)
  BY <1>1, <1>2
<1>4. TokensFrom(in)[NotBlank(in, j)] # NoTokens
  BY DEF TokensAt, NoTokens
<1> QED BY <1>1, <1>3, <1>4 DEF TokenStep, TokensAt

\* A piece of a text, character by character
LEMMA PieceIs ==
  ASSUME NEW in \in Texts, NEW i \in 1 .. Len(in), NEW j \in i .. Len(in), NEW t,
         t \in Texts, Len(t) = j - i + 1, \A k \in 1 .. j - i + 1 : t[k] = in[i + k - 1]
  PROVE  SubSeq(in, i, j) = t
<1> DEFINE u == SubSeq(in, i, j)
<1>1. i \in 1 .. Len(in) + 1 /\ j \in i - 1 .. Len(in) /\ i \in Nat /\ j \in Nat /\ Len(in) \in Nat
  BY DEF Texts
<1>2. u \in Seq(Chars) /\ Len(u) = j - i + 1 /\ \A k \in 1 .. j - i + 1 : u[k] = in[i + k - 1]
  BY <1>1, SubSeqProperties DEF Texts
<1> HIDE DEF u
<1>3. \A k \in 1 .. Len(u) : u[k] = t[k]
  BY <1>2
<1> QED BY <1>2, <1>3, SeqEqual DEF Texts, u

\* A parenthesis, ...
LEMMA ParenToken ==
  ASSUME NEW in \in Texts, NEW i \in 1 .. Len(in) - 1, in[i] \in Parens,
         NEW rest, rest # <<>>, TokensAt(in, i + 1) = rest
  PROVE  TokensFrom(in)[i] = <<<<in[i]>>>> \o rest
<1>1. i \in 1 .. Len(in) /\ i + 1 \in 1 .. Len(in) /\ i \in Nat /\ Len(in) \in Nat /\ i + 1 - 1 = i
  BY DEF Texts
<1>2. TokenEnd(in, i) = i + 1
  BY <1>1 DEF TokenEnd
<1>3. TokensFrom(in)[i] = <<SubSeq(in, i, TokenEnd(in, i) - 1)>> \o TokensAt(in, TokenEnd(in, i))
  BY <1>1, <1>2, OneToken
<1>4. SubSeq(in, i, i) = <<in[i]>>
  <2> DEFINE t == <<in[i]>>
  <2>1. t \in Texts /\ Len(t) = i - i + 1 /\ \A k \in 1 .. i - i + 1 : t[k] = in[i + k - 1]
    BY <1>1 DEF Texts
  <2>2. i \in i .. Len(in)
    BY <1>1
  <2> HIDE DEF t
  <2>3. SubSeq(in, i, i) = t
    BY <1>1, <2>1, <2>2, PieceIs
  <2> QED BY <2>3 DEF t
<1>5. TokenEnd(in, i) - 1 = i
  BY <1>1, <1>2
<1> QED BY <1>2, <1>3, <1>4, <1>5

\* ... a word of one character ...
LEMMA WordToken ==
  ASSUME NEW in \in Texts, NEW i \in 1 .. Len(in) - 1, in[i] \notin Stops \cup {Quote}, in[i + 1] \in Stops,
         NEW rest, rest # <<>>, TokensAt(in, i + 1) = rest
  PROVE  TokensFrom(in)[i] = <<<<in[i]>>>> \o rest
<1>1. /\ i \in 1 .. Len(in) /\ i + 1 \in 1 .. Len(in) /\ i \in Nat /\ Len(in) \in Nat /\ i + 1 - 1 = i
      /\ i \in 1 .. Len(in) + 1
  BY DEF Texts
<1> DEFINE q == FirstIn(Stops, in, i)
<1>2. /\ q \in i .. Len(in) + 1 /\ \A j \in i .. q - 1 : in[j] \notin Stops
      /\ q <= Len(in) => in[q] \in Stops
  BY <1>1, FirstInIs DEF Texts
<1>3. TokenEnd(in, i) = q
  BY <1>1 DEF TokenEnd, Stops
<1> HIDE DEF q
<1>4. q = i + 1
  <2>1. q # i
    BY <1>1, <1>2
  <2>2. ~ (q > i + 1)
    BY <1>1, <1>2
  <2> QED BY <1>1, <1>2, <2>1, <2>2
<1>5. TokensFrom(in)[i] = <<SubSeq(in, i, TokenEnd(in, i) - 1)>> \o TokensAt(in, TokenEnd(in, i))
  BY <1>1, <1>3, <1>4, OneToken
<1>6. SubSeq(in, i, i) = <<in[i]>>
  <2> DEFINE t == <<in[i]>>
  <2>1. t \in Texts /\ Len(t) = i - i + 1 /\ \A k \in 1 .. i - i + 1 : t[k] = in[i + k - 1]
    BY <1>1 DEF Texts
  <2>2. i \in i .. Len(in)
    BY <1>1
  <2> HIDE DEF t
  <2>3. SubSeq(in, i, i) = t
    BY <1>1, <2>1, <2>2, PieceIs
  <2> QED BY <2>3 DEF t
<1>7. TokenEnd(in, i) - 1 = i /\ TokenEnd(in, i) = i + 1
  BY <1>1, <1>3, <1>4
<1> QED BY <1>5, <1>6, <1>7

\* ... and a string.
LEMMA StringToken ==
  ASSUME NEW in \in Texts, NEW i \in 1 .. Len(in) - 3, in[i] = Quote, in[i + 1] # Quote, in[i + 2] = Quote,
         NEW rest, rest # <<>>, TokensAt(in, i + 3) = rest
  PROVE  TokensFrom(in)[i] = <<<<in[i], in[i + 1], in[i + 2]>>>> \o rest
<1>1. /\ i \in 1 .. Len(in) /\ i + 1 \in 1 .. Len(in) + 1 /\ i + 3 \in 1 .. Len(in) /\ i \in Nat
      /\ Len(in) \in Nat /\ i + 3 - 1 = i + 2
  BY DEF Texts
<1> DEFINE q == FirstIn({Quote}, in, i + 1)
<1>2. /\ q \in i + 1 .. Len(in) + 1 /\ \A j \in i + 1 .. q - 1 : in[j] \notin {Quote}
      /\ q <= Len(in) => in[q] \in {Quote}
  BY <1>1, FirstInIs DEF Texts
<1>3. TokenEnd(in, i) = q + 1
  <2>1. Quote \notin Parens
    BY DEF Quote, Parens
  <2> QED BY <1>1, <2>1 DEF TokenEnd
<1> HIDE DEF q
<1>4. q = i + 2
  <2>1. q # i + 1
    BY <1>1, <1>2
  <2>2. ~ (q > i + 2)
    BY <1>1, <1>2
  <2> QED BY <1>1, <1>2, <2>1, <2>2
<1>5. TokenEnd(in, i) = i + 3 /\ TokenEnd(in, i) - 1 = i + 2
  BY <1>1, <1>3, <1>4
<1>6. TokensFrom(in)[i] = <<SubSeq(in, i, TokenEnd(in, i) - 1)>> \o TokensAt(in, TokenEnd(in, i))
  BY <1>1, <1>5, OneToken
<1>7. SubSeq(in, i, i + 2) = <<in[i], in[i + 1], in[i + 2]>>
  <2> DEFINE t == <<in[i], in[i + 1], in[i + 2]>>
             j == i + 2
  <2>1. in[i] \in Chars /\ in[i + 1] \in Chars /\ in[i + 2] \in Chars
    BY <1>1 DEF Texts
  <2>2. t \in Texts /\ Len(t) = 3 /\ t[1] = in[i] /\ t[2] = in[i + 1] /\ t[3] = in[i + 2]
    BY <2>1 DEF Texts
  <2> HIDE DEF t
  <2>3. \A k \in 1 .. 3 : t[k] = in[i + k - 1]
    BY <1>1, <2>2
  <2>4. j - i + 1 = 3 /\ j \in i .. Len(in)
    BY <1>1
  <2>5. Len(t) = j - i + 1 /\ \A k \in 1 .. j - i + 1 : t[k] = in[i + k - 1]
    BY <2>2, <2>3, <2>4
  <2> HIDE DEF j
  <2>6. SubSeq(in, i, j) = t
    BY <1>1, <2>2, <2>4, <2>5, PieceIs
  <2> QED BY <2>6 DEF t, j
<1> QED BY <1>5, <1>6, <1>7

\* A token that is no parenthesis or tick is parsed as a value.
LEMMA ValueIsParsed ==
  ASSUME NEW t \in Texts, t # Open, t # Tick
  PROVE  ParsedAs(<<t>>, Value(Literal(t)))
<1> SUFFICES ASSUME NEW ts \in Tokens, NEW c \in 1 .. Len(ts), Has(ts, c, <<t>>)
             PROVE  Parser(ts)[<<"expr", c>>] = Parsed(Value(Literal(t)), c + Len(<<t>>))
  BY DEF ParsedAs
<1>1. Len(ts) \in Nat /\ c \in 1 .. Len(ts) + 1 /\ ~ (c > Len(ts)) /\ c \in Nat /\ Len(<<t>>) = 1
  BY DEF Tokens
<1>2. ts[c] = t
  BY <1>1 DEF Has
<1>3. Parser(ts)[<<"expr", c>>] = ParseExpr(Parser(ts), ts, c)
  BY <1>1, ParserIs DEF Wanted, ParseStep
<1> QED BY <1>1, <1>2, <1>3 DEF ParseExpr, ParseValue

\* A string is read as the string, ...
LEMMA StringReads == Reads(<<Quote, "s", Quote>>, Value(StrVal), <<<<Quote, "s", Quote>>>>)
<1> DEFINE s == <<Quote, "s", Quote>>
<1>1. "s" # Quote /\ Quote # Blank /\ "s" \in Chars /\ Quote \in Chars
  <2>1. "s" # Quote
    BY DEF Quote
  <2>2. Quote # Blank
    BY DEF Quote, Blank
  <2>3. Quote \in Chars
    BY DEF Chars, Special
  <2>4. "s" \in Chars
    BY DEF Chars
  <2> QED BY <2>1, <2>2, <2>3, <2>4
<1>2. s \in Texts /\ s # <<>> /\ s[1] # Blank /\ Len(s) = 3 /\ s[1] = Quote /\ s[2] = "s" /\ s[3] = Quote
  BY <1>1 DEF Texts
<1>3. s # Open /\ s # Tick /\ s # Close /\ s # Empty
  BY <1>2 DEF Open, Tick, Close, Empty
<1>4. Literal(s) = StrVal
  BY <1>2, <1>3 DEF Literal
<1>5. Tokenized(s, <<s>>)
  <2> SUFFICES ASSUME NEW in \in Texts, NEW i \in 1 .. Len(in), NEW rest \in Tokens, Holds(in, i, s),
                      in[i + Len(s)] \in Stops, rest # <<>>, TokensAt(in, i + Len(s)) = rest
               PROVE  TokensFrom(in)[i] = <<s>> \o rest
    BY DEF Tokenized
  <2>1. i + 3 <= Len(in) /\ i \in Nat /\ Len(in) \in Nat
    BY <1>2 DEF Holds, Texts
  <2>2. in[i] = Quote /\ in[i + 1] = "s" /\ in[i + 2] = Quote
    <3>1. \A k \in 1 .. 3 : in[i + k - 1] = s[k]
      BY <1>2 DEF Holds
    <3>2. i + 1 - 1 = i /\ i + 2 - 1 = i + 1 /\ i + 3 - 1 = i + 2
      BY <2>1
    <3> QED BY <1>2, <3>1, <3>2
  <2>3. i \in 1 .. Len(in) - 3 /\ TokensAt(in, i + 3) = rest
    BY <1>2, <2>1
  <2>4. TokensFrom(in)[i] = <<<<in[i], in[i + 1], in[i + 2]>>>> \o rest
    BY <1>1, <2>2, <2>3, StringToken
  <2> QED BY <2>2, <2>4
<1>6. ParsedAs(<<s>>, Value(StrVal))
  BY <1>2, <1>3, <1>4, ValueIsParsed
<1>7. <<s>> \in Tokens /\ <<s>> # <<>> /\ <<s>>[1] = s
  <2> HIDE DEF s
  <2> QED BY <1>2 DEF Tokens
<1> QED BY <1>2, <1>3, <1>5, <1>6, <1>7 DEF Reads

\* ... and a number as that number.
LEMMA NumberReads ==
  ASSUME NEW d \in {"0", "1"}
  PROVE  Reads(<<d>>, Value(IntVal(IF d = "0" THEN 0 ELSE 1)), <<<<d>>>>)
<1>1. d \in Chars /\ d \notin Stops \cup {Quote} /\ d # "(" /\ d # ")" /\ d # "'"
  <2>1. d \in Chars
    BY DEF Chars
  <2>2. d # "(" /\ d # ")" /\ d # "'"
    OBVIOUS
  <2>3. d # Blank
    BY DEF Blank
  <2>4. d # Quote
    BY DEF Quote
  <2> QED BY <2>1, <2>2, <2>3, <2>4 DEF Stops, Parens
<1>2. d # Blank /\ d # Quote
  BY <1>1 DEF Stops
<1> DEFINE s == <<d>>
<1>3. s \in Texts /\ s # <<>> /\ s[1] = d /\ Len(s) = 1
  BY <1>1 DEF Texts
<1>4. s # Open /\ s # Tick /\ s # Close /\ s # Empty
  BY <1>1 DEF Open, Tick, Close, Empty
<1>5. Literal(s) = IntVal(IF d = "0" THEN 0 ELSE 1)
  <2>1. Literal(s) = IF d = "1" THEN IntVal(1) ELSE IntVal(0)
    BY <1>2, <1>3, <1>4 DEF Literal
  <2> QED BY <2>1
<1>6. Tokenized(s, <<s>>)
  <2> SUFFICES ASSUME NEW in \in Texts, NEW i \in 1 .. Len(in), NEW rest \in Tokens, Holds(in, i, s),
                      in[i + Len(s)] \in Stops, rest # <<>>, TokensAt(in, i + Len(s)) = rest
               PROVE  TokensFrom(in)[i] = <<s>> \o rest
    BY DEF Tokenized
  <2>1. i + 1 <= Len(in) /\ i \in Nat /\ Len(in) \in Nat
    BY <1>3 DEF Holds, Texts
  <2>2. in[i] = d
    <3>1. in[i + 1 - 1] = s[1]
      BY <1>3 DEF Holds
    <3> QED BY <1>3, <2>1, <3>1
  <2>3. i \in 1 .. Len(in) - 1 /\ TokensAt(in, i + 1) = rest /\ in[i + 1] \in Stops
    BY <1>3, <2>1
  <2>4. TokensFrom(in)[i] = <<<<in[i]>>>> \o rest
    BY <1>1, <2>2, <2>3, WordToken
  <2> QED BY <2>2, <2>4
<1>7. ParsedAs(<<s>>, Value(Literal(s)))
  BY <1>3, <1>4, ValueIsParsed
<1>8. <<s>> \in Tokens /\ <<s>> # <<>> /\ <<s>>[1] = s
  <2> HIDE DEF s
  <2> QED BY <1>3 DEF Tokens
<1> QED BY <1>2, <1>3, <1>4, <1>5, <1>6, <1>7, <1>8 DEF Reads

-----------------------------------------------------------------------------
(* What lies where in a text and among its tokens.                         *)

\* Parts of a text and of tokens
LEMMA TextIs ==
  ASSUME NEW in \in Texts
  PROVE  Len(in) \in Nat /\ \A k \in 1 .. Len(in) : in[k] \in Chars
BY DEF Texts

\* Tokens have a length and are texts.
LEMMA TokensAre ==
  ASSUME NEW ts \in Tokens
  PROVE  Len(ts) \in Nat /\ \A k \in 1 .. Len(ts) : ts[k] \in Texts
BY DEF Tokens

\* The parts of an expression in parentheses
LEMMA EnclosedIs ==
  ASSUME NEW S, NEW a \in S, NEW b \in S, NEW t \in Seq(S), NEW d \in S
  PROVE  LET s == <<a, b>> \o t \o <<d>>
         IN /\ s \in Seq(S) /\ Len(s) = Len(t) + 3 /\ Len(t) \in Nat
            /\ s[1] = a /\ s[2] = b /\ s[Len(t) + 3] = d
            /\ \A k \in 1 .. Len(t) : s[k + 2] = t[k]
OBVIOUS

\* c is a and then b, place by place.
Both(a, b, c, S) ==
  /\ a \in Seq(S) /\ b \in Seq(S) /\ c \in Seq(S)
  /\ Len(a) \in Nat /\ Len(b) \in Nat /\ Len(c) \in Nat /\ Len(c) = Len(a) + Len(b)
  /\ \A k \in 1 .. Len(a) : c[k] = a[k]
  /\ \A k \in 1 .. Len(b) : c[Len(a) + k] = b[k]

\* One sequence behind another, place by place
LEMMA BothAre ==
  ASSUME NEW S, NEW a \in Seq(S), NEW b \in Seq(S)
  PROVE  Both(a, b, a \o b, S)
BY DEF Both

\* What is put together, part by part
LEMMA JoinStep ==
  ASSUME NEW S, NEW L \in Nat, NEW p \in [1 .. L -> Seq(S)], NEW J, Joins(p, L, S, J)
  PROVE  \A m \in 1 .. L : Both(J[m - 1], p[m], J[m], S)
<1> TAKE m \in 1 .. L
<1>1. J[m - 1] \in Seq(S) /\ p[m] \in Seq(S) /\ J[m] = J[m - 1] \o p[m]
  <2>1. m - 1 \in 0 .. L
    OBVIOUS
  <2> QED BY <2>1 DEF Joins
<1> QED BY <1>1, BothAre

\* What is put together begins with what the first parts are.
LEMMA JoinsHave ==
  ASSUME NEW S, NEW L \in Nat, NEW p \in [1 .. L -> Seq(S)], NEW J, Joins(p, L, S, J)
  PROVE  \A m \in 0 .. L :
           /\ J[m] \in Seq(S) /\ Len(J[m]) \in Nat /\ Len(J[m]) <= Len(J[L])
           /\ \A k \in 1 .. Len(J[m]) : J[L][k] = J[m][k]
<1> DEFINE In(m, n) == Len(J[m]) <= Len(J[n]) /\ \A k \in 1 .. Len(J[m]) : J[n][k] = J[m][k]
           N == {n \in 0 .. L : \A m \in 0 .. n : In(m, n)}
<1>0. \A m \in 0 .. L : J[m] \in Seq(S) /\ Len(J[m]) \in Nat
  BY DEF Joins
<1>1. \A m \in 0 .. L : In(m, m)
  BY <1>0
<1>2. ASSUME NEW n \in 0 .. L - 1, n \in N PROVE n + 1 \in N
  <2>1. In(n, n + 1) /\ n \in 0 .. L /\ n + 1 \in 0 .. L
    <3>1. n + 1 \in 1 .. L /\ n + 1 - 1 = n /\ n \in 0 .. L /\ n + 1 \in 0 .. L
      OBVIOUS
    <3>2. \A m \in 1 .. L : Both(J[m - 1], p[m], J[m], S)
      BY JoinStep
    <3>3. Both(J[n], p[n + 1], J[n + 1], S)
      BY <3>1, <3>2
    <3> DEFINE a == J[n]
               b == p[n + 1]
               c == J[n + 1]
    <3>4. Both(a, b, c, S)
      BY <3>3
    <3> HIDE DEF a, b, c
    <3>5. Len(a) <= Len(c) /\ \A k \in 1 .. Len(a) : c[k] = a[k]
      BY <3>4 DEF Both
    <3> QED BY <3>1, <3>5 DEF a, c
  <2>2. ASSUME NEW m \in 0 .. n PROVE In(m, n + 1)
    <3> DEFINE a == J[m]
               b == J[n]
               c == J[n + 1]
    <3>1. Len(a) <= Len(b) /\ \A k \in 1 .. Len(a) : b[k] = a[k]
      BY <1>2
    <3>2. Len(b) <= Len(c) /\ \A k \in 1 .. Len(b) : c[k] = b[k]
      BY <2>1
    <3>3. Len(a) \in Nat /\ Len(b) \in Nat /\ Len(c) \in Nat
      BY <1>0, <2>1
    <3> HIDE DEF a, b, c
    <3>4. \A k \in 1 .. Len(a) : k \in 1 .. Len(b)
      BY <3>1, <3>3
    <3>5. Len(a) <= Len(c) /\ \A k \in 1 .. Len(a) : c[k] = a[k]
      BY <3>1, <3>2, <3>3, <3>4
    <3> QED BY <3>5 DEF a, b, c
  <2> HIDE DEF In
  <2>3. \A m \in 0 .. n + 1 : m \in 0 .. n \/ m = n + 1
    OBVIOUS
  <2> QED BY <1>1, <2>1, <2>2, <2>3
<1>3. L \in N
  <2>1. 0 \in N
    <3> HIDE DEF In
    <3> QED BY <1>1
  <2> HIDE DEF N
  <2>2. \A n \in 0 .. L : n \in N
    BY <1>2, <2>1, InductionUpTo
  <2> QED BY <2>2
<1>4. \A m \in 0 .. L : In(m, L)
  <2> HIDE DEF In
  <2> QED BY <1>3
<1> QED BY <1>0, <1>4

\* b is in d, behind a; with it, that is c.
Part(a, b, c, d) ==
  /\ Len(a) \in Nat /\ Len(b) \in Nat /\ Len(c) = Len(a) + Len(b) /\ Len(c) <= Len(d) /\ Len(d) \in Nat
  /\ \A k \in 1 .. Len(b) : d[Len(a) + k] = b[k]

\* Each part is in all of it, behind those before it.
LEMMA JoinsAt ==
  ASSUME NEW S, NEW L \in Nat, NEW p \in [1 .. L -> Seq(S)], NEW J, Joins(p, L, S, J)
  PROVE  \A m \in 1 .. L : Part(J[m - 1], p[m], J[m], J[L])
<1> TAKE m \in 1 .. L
<1>0. Both(J[m - 1], p[m], J[m], S)
  BY JoinStep
<1>1. /\ Len(J[m - 1]) \in Nat /\ Len(p[m]) \in Nat /\ Len(J[m]) = Len(J[m - 1]) + Len(p[m])
      /\ \A k \in 1 .. Len(p[m]) : J[m][Len(J[m - 1]) + k] = p[m][k]
  BY <1>0 DEF Both
<1>2. Len(J[m]) <= Len(J[L]) /\ Len(J[L]) \in Nat /\ \A k \in 1 .. Len(J[m]) : J[L][k] = J[m][k]
  <2>1. m \in 0 .. L /\ L \in 0 .. L
    OBVIOUS
  <2> QED BY <2>1, JoinsHave
<1> DEFINE a == J[m - 1]
           b == p[m]
           c == J[m]
           d == J[L]
<1>3. /\ Len(a) \in Nat /\ Len(b) \in Nat /\ Len(c) = Len(a) + Len(b)
      /\ (\A k \in 1 .. Len(b) : c[Len(a) + k] = b[k]) /\ \A k \in 1 .. Len(c) : d[k] = c[k]
  BY <1>1, <1>2
<1> HIDE DEF a, b, c, d
<1>4. \A k \in 1 .. Len(b) : d[Len(a) + k] = b[k]
  BY <1>3
<1>5. Len(c) <= Len(d) /\ Len(d) \in Nat
  BY <1>2 DEF c, d
<1>6. Part(a, b, c, d)
  BY <1>3, <1>4, <1>5 DEF Part
<1> QED BY <1>6 DEF a, b, c, d

\* An expression behind a tick
LEMMA QuoteReads ==
  ASSUME NEW s, NEW e, NEW toks, Reads(s, e, toks)
  PROVE  Reads(Tick \o <<Blank>> \o s, Value(Lexpr(e)), <<Tick>> \o toks)
<1> DEFINE q == Tick \o <<Blank>> \o s
           qt == <<Tick>> \o toks
<1>1. "'" \in Chars /\ Blank \in Chars /\ "'" \notin Stops \cup {Quote} /\ Blank \in Stops
  BY DEF Chars, Special, Stops, Parens, Blank, Quote
<1>2. "'" # Blank
  BY <1>1
<1>3. s \in Seq(Chars) /\ s # <<>> /\ Len(s) \in Nat /\ Len(s) # 0
  BY DEF Reads, Texts
<1>4. /\ q \in Texts /\ Len(q) = Len(s) + 2 /\ q[1] = "'" /\ q[2] = Blank
      /\ \A k \in 1 .. Len(s) : q[k + 2] = s[k]
  BY <1>1, <1>3 DEF Texts, Tick
<1>5. Tick \in Texts /\ toks \in Tokens
  BY <1>1 DEF Texts, Tick, Reads
<1>6. /\ qt \in Tokens /\ qt # <<>> /\ Len(qt) = Len(toks) + 1 /\ Len(toks) \in Nat /\ qt[1] = Tick
      /\ \A k \in 1 .. Len(toks) : qt[k + 1] = toks[k]
  BY <1>5 DEF Tokens
<1>7. Tick # Close /\ Tick # Open
  BY DEF Tick, Close, Open
<1> HIDE DEF q, qt
<1>8. Tokenized(q, qt)
  <2> SUFFICES ASSUME NEW in \in Texts, NEW i \in 1 .. Len(in), NEW rest \in Tokens, Holds(in, i, q),
                      in[i + Len(q)] \in Stops, rest # <<>>, TokensAt(in, i + Len(q)) = rest
               PROVE  TokensFrom(in)[i] = qt \o rest
    BY DEF Tokenized
  <2>1. i + Len(s) + 2 <= Len(in) /\ i \in Nat /\ Len(in) \in Nat
    BY <1>3, <1>4, TextIs DEF Holds
  <2>2. in[i] = "'" /\ in[i + 1] = Blank /\ \A k \in 1 .. Len(s) : in[i + 2 + k - 1] = s[k]
    <3>1. \A k \in 1 .. Len(s) + 2 : in[i + k - 1] = q[k]
      BY <1>4 DEF Holds
    <3>2. in[i + 1 - 1] = q[1] /\ in[i + 2 - 1] = q[2]
      BY <1>3, <3>1
    <3>3. \A k \in 1 .. Len(s) : in[i + (k + 2) - 1] = q[k + 2]
      BY <1>3, <3>1
    <3>4. \A k \in 1 .. Len(s) : i + (k + 2) - 1 = i + 2 + k - 1
      BY <1>3, <2>1
    <3>5. i + 1 - 1 = i /\ i + 2 - 1 = i + 1
      BY <2>1
    <3> QED BY <1>4, <3>2, <3>3, <3>4, <3>5
  <2>3. TokensFrom(in)[i + 2] = toks \o rest
    <3>1. Holds(in, i + 2, s)
      BY <1>3, <2>1, <2>2 DEF Holds
    <3>2. i + 2 + Len(s) = i + Len(q) /\ i + 2 \in 1 .. Len(in)
      BY <1>3, <1>4, <2>1
    <3>3. Tokenized(s, toks)
      BY DEF Reads
    <3>4. in[i + 2 + Len(s)] \in Stops /\ TokensAt(in, i + 2 + Len(s)) = rest
      BY <3>2
    <3> QED BY <3>1, <3>2, <3>3, <3>4 DEF Tokenized
  <2>4. NotBlank(in, i + 1) = i + 2
    <3>1. i + 1 \in 1 .. Len(in) - 1 /\ i + 1 + 1 = i + 2
      BY <1>3, <2>1
    <3>2. in[i + 2] # Blank
      <4>1. in[i + 2 + 1 - 1] = s[1] /\ i + 2 + 1 - 1 = i + 2
        BY <1>3, <2>1, <2>2
      <4> QED BY <4>1 DEF Reads
    <3> QED BY <2>2, <3>1, <3>2, BlankIsSkipped DEF Texts
  <2>5. TokensAt(in, i + 1) = toks \o rest
    BY <2>3, <2>4 DEF TokensAt
  <2>6. toks \o rest # <<>> /\ <<Tick>> \o (toks \o rest) = qt \o rest
    BY <1>5 DEF Tokens, Reads, qt
  <2>7. i \in 1 .. Len(in) - 1
    BY <1>3, <2>1
  <2>8. TokensFrom(in)[i] = <<<<in[i]>>>> \o (toks \o rest)
    <3> DEFINE r == toks \o rest
    <3>1. r # <<>> /\ TokensAt(in, i + 1) = r
      BY <2>5, <2>6
    <3>2. in[i] \notin Stops \cup {Quote} /\ in[i + 1] \in Stops
      BY <1>1, <2>2
    <3> HIDE DEF r
    <3>3. TokensFrom(in)[i] = <<<<in[i]>>>> \o r
      BY <2>7, <3>1, <3>2, WordToken
    <3> QED BY <3>3 DEF r
  <2>9. <<in[i]>> = Tick
    BY <2>2 DEF Tick
  <2> QED BY <2>6, <2>8, <2>9
<1>9. ParsedAs(qt, Value(Lexpr(e)))
  <2> SUFFICES ASSUME NEW ts \in Tokens, NEW c \in 1 .. Len(ts), Has(ts, c, qt)
               PROVE  Parser(ts)[<<"expr", c>>] = Parsed(Value(Lexpr(e)), c + Len(qt))
    BY DEF ParsedAs
  <2>1. c + Len(toks) <= Len(ts) /\ c \in Nat /\ Len(ts) \in Nat /\ Len(toks) # 0
    BY <1>5, <1>6, TokensAre DEF Has, Reads, Tokens
  <2>2. ts[c] = Tick /\ \A k \in 1 .. Len(toks) : ts[c + 1 + k - 1] = toks[k]
    <3>1. \A k \in 1 .. Len(toks) + 1 : ts[c + k - 1] = qt[k]
      BY <1>6 DEF Has
    <3>2. ts[c + 1 - 1] = qt[1] /\ c + 1 - 1 = c
      BY <1>6, <2>1, <3>1
    <3>3. \A k \in 1 .. Len(toks) : ts[c + (k + 1) - 1] = qt[k + 1] /\ c + (k + 1) - 1 = c + 1 + k - 1
      BY <1>6, <2>1, <3>1
    <3> QED BY <1>6, <3>2, <3>3
  <2>3. Parser(ts)[<<"expr", c + 1>>] = Parsed(e, c + 1 + Len(toks))
    <3>1. Has(ts, c + 1, toks) /\ c + 1 \in 1 .. Len(ts)
      BY <1>6, <2>1, <2>2 DEF Has
    <3>2. ParsedAs(toks, e)
      BY DEF Reads
    <3> QED BY <3>1, <3>2 DEF ParsedAs
  <2>4. Parser(ts)[<<"expr", c>>] = ParseExpr(Parser(ts), ts, c)
    BY <2>1, ParserIs DEF Wanted, ParseStep
  <2>5. Parser(ts)[<<"expr", c + 1>>].is = "expr" /\ Parser(ts)[<<"expr", c + 1>>].expr = e
        /\ Parser(ts)[<<"expr", c + 1>>].curr = c + Len(qt)
    BY <1>6, <2>1, <2>3 DEF Parsed
  <2> QED BY <1>7, <2>1, <2>2, <2>4, <2>5 DEF ParseExpr, ParseValue
<1>10. q # <<>>
  BY <1>3, <1>4
<1> QED BY <1>2, <1>4, <1>6, <1>7, <1>8, <1>9, <1>10 DEF Reads, q, qt

\* The parts of an expression in parentheses, wherever that is
Enclosed(x, i, a, b, t, d) ==
  /\ i \in Nat /\ Len(t) \in Nat /\ i + 2 + Len(t) <= Len(x)
  /\ x[i] = a /\ x[i + 1] = b /\ x[i + 2 + Len(t)] = d /\ Has(x, i + 2, t)

\* An expression in parentheses that lies somewhere
LEMMA EnclosedAt ==
  ASSUME NEW V, NEW a \in V, NEW b \in V, NEW t \in Seq(V), NEW d \in V, NEW x, Len(x) \in Nat,
         NEW i \in 1 .. Len(x), NEW s, s = <<a, b>> \o t \o <<d>>, Has(x, i, s)
  PROVE  Enclosed(x, i, a, b, t, d)
<1>1. /\ Len(s) = Len(t) + 3 /\ Len(t) \in Nat /\ s[1] = a /\ s[2] = b /\ s[Len(t) + 3] = d
      /\ \A k \in 1 .. Len(t) : s[k + 2] = t[k]
  BY EnclosedIs
<1>2. i \in Nat /\ i + 1 - 1 = i /\ i + 2 - 1 = i + 1 /\ i + (Len(t) + 3) - 1 = i + 2 + Len(t)
  BY <1>1
<1>3. i + Len(s) - 1 <= Len(x) /\ \A k \in 1 .. Len(s) : x[i + k - 1] = s[k]
  BY DEF Has
<1>4. x[i + 1 - 1] = s[1] /\ x[i + 2 - 1] = s[2] /\ x[i + (Len(t) + 3) - 1] = s[Len(t) + 3]
  BY <1>1, <1>3
<1>5. ASSUME NEW k \in 1 .. Len(t) PROVE x[i + 2 + k - 1] = t[k]
  <2>1. k + 2 \in 1 .. Len(s) /\ i + (k + 2) - 1 = i + 2 + k - 1
    BY <1>1, <1>2
  <2>2. x[i + (k + 2) - 1] = s[k + 2] /\ i + (k + 2) - 1 = i + 2 + k - 1
    BY <1>3, <2>1
  <2> QED BY <1>1, <2>2
<1>6. Has(x, i + 2, t)
  BY <1>1, <1>2, <1>3, <1>5 DEF Has
<1> QED BY <1>1, <1>2, <1>3, <1>4, <1>6 DEF Enclosed

\* s is in x at b, and what is behind it is at e.
Lies(x, b, e, s) ==
  /\ b \in Nat /\ Len(s) \in Nat /\ e = b + Len(s)
  /\ \A k \in 1 .. Len(s) : x[b + k - 1] = s[k]

\* The parts of what is put together, wherever that is
LEMMA PartAt ==
  ASSUME NEW V, NEW L \in Nat, NEW p \in [1 .. L -> Seq(V)], NEW J, Joins(p, L, V, J), NEW x,
         NEW b \in Nat, Has(x, b, J[L])
  PROVE  \A m \in 1 .. L : Lies(x, b + Len(J[m - 1]), b + Len(J[m]), p[m]) /\ Len(J[m]) <= Len(J[L])
<1> TAKE m \in 1 .. L
<1>1. Part(J[m - 1], p[m], J[m], J[L])
  BY JoinsAt
<1> DEFINE a == Len(J[m - 1])
           s == p[m]
           d == J[L]
           c == Len(J[m])
<1>2. /\ c = a + Len(s) /\ Len(s) \in Nat /\ a \in Nat /\ c <= Len(d) /\ Len(d) \in Nat
      /\ \A k \in 1 .. Len(s) : d[a + k] = s[k]
  BY <1>1 DEF Part
<1>3. \A k \in 1 .. Len(d) : x[b + k - 1] = d[k]
  BY DEF Has
<1> HIDE DEF a, s, c, d
<1>4. ASSUME NEW k \in 1 .. Len(s) PROVE x[b + a + k - 1] = s[k]
  <2>1. a + k \in 1 .. Len(d) /\ b + (a + k) - 1 = b + a + k - 1
    BY <1>2
  <2>2. x[b + (a + k) - 1] = d[a + k]
    BY <1>3, <2>1
  <2> QED BY <1>2, <2>1, <2>2
<1>5. Lies(x, b + a, b + c, s) /\ c <= Len(d)
  BY <1>2, <1>4 DEF Lies
<1> QED BY <1>5 DEF a, s, c, d

\* The texts, expressions and tokens of L arguments
Args(S, E, K, L) == \A k \in 1 .. L : Reads(S[k], E[k], K[k])
Spaced(S, L)     == [k \in 1 .. L |-> <<Blank>> \o S[k]]

\* A blank and an argument: its tokens, and those of what is behind it
LEMMA ArgToken ==
  ASSUME NEW s, NEW e, NEW toks, Reads(s, e, toks), NEW in \in Texts, NEW b, NEW c,
         Lies(in, b, c, <<Blank>> \o s), 1 <= b, c <= Len(in), in[c] \in Stops,
         TokensAt(in, c) \in Tokens, TokensAt(in, c) # <<>>
  PROVE  in[b] = Blank /\ TokensAt(in, b) = toks \o TokensAt(in, c)
<1> DEFINE q == <<Blank>> \o s
<1>1. s \in Seq(Chars) /\ s # <<>> /\ Len(s) \in Nat /\ Len(s) # 0 /\ Len(in) \in Nat
  BY TextIs DEF Reads, Texts
<1>2. /\ Len(q) = Len(s) + 1 /\ q[1] = Blank /\ \A k \in 1 .. Len(s) : q[k + 1] = s[k]
  <2>1. Blank \in Chars
    BY DEF Chars, Special
  <2> QED BY <1>1, <2>1
<1> HIDE DEF q
<1>3. b \in Nat /\ c = b + Len(q) /\ \A k \in 1 .. Len(q) : in[b + k - 1] = q[k]
  BY DEF Lies, q
<1>4. in[b] = Blank /\ b + 1 + Len(s) = c /\ b + 1 \in 1 .. Len(in) /\ b \in 1 .. Len(in) - 1
  <2>1. in[b + 1 - 1] = q[1] /\ b + 1 - 1 = b
    BY <1>1, <1>2, <1>3
  <2> QED BY <1>1, <1>2, <1>3, <2>1
<1>5. ASSUME NEW k \in 1 .. Len(s) PROVE in[b + 1 + k - 1] = s[k]
  <2>1. in[b + (k + 1) - 1] = q[k + 1] /\ b + (k + 1) - 1 = b + 1 + k - 1
    BY <1>1, <1>2, <1>3
  <2> QED BY <1>2, <2>1
<1>6. Holds(in, b + 1, s)
  BY <1>4, <1>5 DEF Holds
<1>7. TokensFrom(in)[b + 1] = toks \o TokensAt(in, c)
  <2>1. Tokenized(s, toks)
    BY DEF Reads
  <2> QED BY <1>4, <1>6, <2>1 DEF Tokenized
<1>8. NotBlank(in, b) = b + 1
  <2>1. in[b + 1] # Blank
    <3>1. in[b + 1 + 1 - 1] = s[1] /\ b + 1 + 1 - 1 = b + 1
      BY <1>1, <1>3, <1>5
    <3> QED BY <3>1 DEF Reads
  <2> QED BY <1>4, <2>1, BlankIsSkipped DEF Texts
<1> QED BY <1>4, <1>7, <1>8 DEF TokensAt

\* One argument is parsed, and then those behind it.
LEMMA ArgParsed ==
  ASSUME NEW s, NEW e, NEW toks, Reads(s, e, toks), NEW ts \in Tokens, NEW b, NEW c,
         Lies(ts, b, c, toks), 1 <= b, c <= Len(ts), NEW es, NEW end,
         Parser(ts)[<<"args", c>>] = Parsed(es, end)
  PROVE  Parser(ts)[<<"args", b>>] = Parsed(<<e>> \o es, end)
<1>1. toks \in Tokens /\ toks # <<>> /\ Len(toks) # 0 /\ Len(toks) \in Nat /\ Len(ts) \in Nat /\ toks[1] # Close
  BY TokensAre DEF Reads, Tokens
<1>2. b \in Nat /\ c = b + Len(toks) /\ \A k \in 1 .. Len(toks) : ts[b + k - 1] = toks[k]
  BY DEF Lies
<1>3. b \in 1 .. Len(ts) /\ b \in 1 .. Len(ts) + 1 /\ ~ (b > Len(ts))
  BY <1>1, <1>2
<1>4. ts[b] # Close
  <2>1. ts[b + 1 - 1] = toks[1] /\ b + 1 - 1 = b
    BY <1>1, <1>2
  <2> QED BY <1>1, <2>1
<1>5. Parser(ts)[<<"expr", b>>] = Parsed(e, c)
  <2>1. ParsedAs(toks, e)
    BY DEF Reads
  <2>2. Has(ts, b, toks)
    BY <1>1, <1>2 DEF Has
  <2> QED BY <1>2, <1>3, <2>1, <2>2 DEF ParsedAs
<1>6. Parser(ts)[<<"args", b>>] = ParseArgs(Parser(ts), ts, b)
  BY <1>1, <1>3, ParserIs DEF Wanted, ParseStep
<1> DEFINE P == Parser(ts)
<1>7. /\ P[<<"expr", b>>].is = "expr" /\ P[<<"expr", b>>].expr = e /\ P[<<"expr", b>>].curr = c
      /\ P[<<"args", c>>].is = "expr" /\ P[<<"args", c>>].expr = es /\ P[<<"args", c>>].curr = end
  BY <1>5 DEF Parsed
<1> HIDE DEF P
<1>8. ParseArgs(P, ts, b) = Parsed(<<e>> \o es, end)
  BY <1>3, <1>4, <1>7 DEF ParseArgs
<1> QED BY <1>6, <1>8 DEF P

\* It does not matter which are put together first.
Associates(a, b, c) == a \o (b \o c) = (a \o b) \o c

\* What is put together in threes is the same either way.
LEMMA AppendBehind ==
  ASSUME NEW V, NEW a \in Seq(V), NEW b \in Seq(V), NEW c \in Seq(V)
  PROVE  Associates(a, b, c)
BY DEF Associates

\* From the last to the first
LEMMA InductionDown ==
  ASSUME NEW n \in Nat, NEW S, n \in S, \A m \in 1 .. n : m \in S => m - 1 \in S
  PROVE  0 \in S
<1> DEFINE N == {k \in 0 .. n : n - k \in S}
<1>1. 0 \in N
  <2>1. n - 0 = n
    OBVIOUS
  <2> QED BY <2>1
<1>2. ASSUME NEW k \in 0 .. n - 1, k \in N PROVE k + 1 \in N
  <2>1. n - k \in 1 .. n /\ n - k - 1 = n - (k + 1) /\ k + 1 \in 0 .. n
    OBVIOUS
  <2>2. n - k - 1 \in S
    BY <1>2, <2>1
  <2> QED BY <2>1, <2>2
<1>3. n \in N
  <2> HIDE DEF N
  <2>1. \A k \in 0 .. n : k \in N
    BY <1>1, <1>2, InductionUpTo
  <2> QED BY <2>1
<1>4. n - n = 0
  OBVIOUS
<1> QED BY <1>3, <1>4

\* The places B at which the arguments end, in a text or among tokens
Places(x, B, L, p) ==
  /\ B \in [0 .. L -> Nat] /\ 1 <= B[L] /\ B[L] <= Len(x) /\ Len(x) \in Nat
  /\ \A m \in 1 .. L : Lies(x, B[m - 1], B[m], p[m]) /\ 1 <= B[m - 1] /\ B[m] <= B[L]

\* What is read behind an argument: tokens that make "all" with those before
Rest(in, b, before, all) ==
  in[b] \in Stops /\ TokensAt(in, b) \in Tokens /\ TokensAt(in, b) # <<>> /\ before \o TokensAt(in, b) = all

\* The tokens of the arguments, from the last to the first
LEMMA ArgTokens ==
  ASSUME NEW L \in Nat, NEW S, NEW E, NEW K \in [1 .. L -> Tokens], Args(S, E, K, L),
         NEW T, Joins(K, L, Texts, T), NEW in \in Texts, NEW B, Places(in, B, L, Spaced(S, L)), NEW all,
         Rest(in, B[L], T[L], all)
  PROVE  Rest(in, B[0], T[0], all)
<1> DEFINE N == {m \in 0 .. L : Rest(in, B[m], T[m], all)}
<1>1. L \in N
  OBVIOUS
<1>2. ASSUME NEW m \in 1 .. L, m \in N PROVE m - 1 \in N
  <2>1. Rest(in, B[m], T[m], all)
    BY <1>2
  <2>2. Lies(in, B[m - 1], B[m], Spaced(S, L)[m]) /\ 1 <= B[m - 1] /\ B[m] <= Len(in)
    <3>1. \A j \in 0 .. L : B[j] \in Nat
      BY DEF Places
    <3>2. /\ Lies(in, B[m - 1], B[m], Spaced(S, L)[m]) /\ 1 <= B[m - 1] /\ B[m] <= B[L]
          /\ B[L] <= Len(in) /\ Len(in) \in Nat
      BY DEF Places
    <3>3. B[m] \in Nat /\ B[L] \in Nat
      BY <3>1
    <3> QED BY <3>2, <3>3
  <2>3. Reads(S[m], E[m], K[m]) /\ Spaced(S, L)[m] = <<Blank>> \o S[m]
    BY DEF Args, Spaced
  <2>4. K[m] \in Tokens /\ K[m] # <<>>
    BY <2>3 DEF Reads
  <2>5. T[m] = T[m - 1] \o K[m] /\ T[m - 1] \in Tokens
    <3>1. m - 1 \in 0 .. L
      OBVIOUS
    <3> QED BY <3>1 DEF Joins, Tokens
  <2> DEFINE b == B[m - 1]
             c == B[m]
             s == S[m]
             e == E[m]
             toks == K[m]
             before == T[m - 1]
             r == TokensAt(in, c)
  <2>6. /\ Reads(s, e, toks) /\ Lies(in, b, c, <<Blank>> \o s) /\ 1 <= b /\ c <= Len(in)
        /\ in[c] \in Stops /\ r \in Tokens /\ r # <<>> /\ (before \o toks) \o r = all
        /\ toks \in Tokens /\ toks # <<>> /\ before \in Tokens
    BY <2>1, <2>2, <2>3, <2>4, <2>5 DEF Rest
  <2> HIDE DEF b, c, s, e, toks, before
  <2>7. in[b] = Blank /\ TokensAt(in, b) = toks \o r
    BY <2>6, ArgToken
  <2> HIDE DEF r
  <2>8. before \o (toks \o r) = all /\ toks \o r \in Tokens /\ toks \o r # <<>>
    <3>1. before \in Seq(Texts) /\ toks \in Seq(Texts) /\ r \in Seq(Texts)
      BY <2>6 DEF Tokens
    <3>2. before \o (toks \o r) = (before \o toks) \o r
      <4>1. Associates(before, toks, r)
        BY <3>1, AppendBehind
      <4> QED BY <4>1 DEF Associates
    <3>3. toks \o r \in Seq(Texts) /\ toks \o r # <<>>
      BY <2>6, <3>1
    <3> QED BY <2>6, <3>2, <3>3 DEF Tokens
  <2>9. Blank \in Stops
    BY DEF Stops
  <2>10. Rest(in, b, before, all)
    BY <2>7, <2>8, <2>9 DEF Rest
  <2>11. Rest(in, B[m - 1], T[m - 1], all)
    BY <2>10 DEF b, before
  <2>12. m - 1 \in 0 .. L
    OBVIOUS
  <2> QED BY <2>11, <2>12
<1>3. 0 \in N
  <2> HIDE DEF N
  <2> QED BY <1>1, <1>2, InductionDown
<1> QED BY <1>3

\* The expressions behind the m-th one
Behind(E, L, m) == [k \in 1 .. L - m |-> E[m + k]]

\* The arguments from one on are that one and those behind it.
LEMMA BehindIs ==
  ASSUME NEW L \in Nat, NEW E, NEW m \in 1 .. L
  PROVE  <<E[m]>> \o Behind(E, L, m) = Behind(E, L, m - 1)
<1> DEFINE V == {E[k] : k \in 1 .. L}
           f == Behind(E, L, m)
           g == Behind(E, L, m - 1)
           e == E[m]
           s == <<e>> \o f
<1>1. L - m \in Nat /\ L - (m - 1) = L - m + 1 /\ m - 1 + 1 = m
  OBVIOUS
<1>2. e \in V /\ f \in Seq(V) /\ Len(f) = L - m /\ \A k \in 1 .. L - m : f[k] = E[m + k]
  BY <1>1 DEF Behind
<1>3. g \in Seq(V) /\ Len(g) = L - m + 1 /\ \A k \in 1 .. L - m + 1 : g[k] = E[m - 1 + k]
  BY <1>1 DEF Behind
<1>4. g[1] = e /\ \A k \in 1 .. L - m : g[k + 1] = f[k]
  <2>1. \A k \in 1 .. L - m : k + 1 \in 1 .. L - m + 1 /\ m - 1 + (k + 1) = m + k
    OBVIOUS
  <2>2. 1 \in 1 .. L - m + 1
    OBVIOUS
  <2> HIDE DEF f, g
  <2> QED BY <1>1, <1>2, <1>3, <2>1, <2>2
<1> HIDE DEF f, g, e, V, s
<1>5. s \in Seq(V) /\ Len(s) = Len(g) /\ s[1] = e /\ \A k \in 1 .. Len(f) : s[k + 1] = f[k]
  <2>1. <<e>> \in Seq(V) /\ Len(<<e>>) = 1 /\ <<e>>[1] = e
    BY <1>2
  <2>2. Both(<<e>>, f, s, V)
    BY <1>2, <2>1, BothAre DEF s
  <2>3. s \in Seq(V) /\ Len(s) = 1 + Len(f) /\ s[1] = e
    BY <2>1, <2>2 DEF Both
  <2>4. \A k \in 1 .. Len(f) : s[1 + k] = f[k]
    BY <2>1, <2>2 DEF Both
  <2>5. \A k \in 1 .. Len(f) : 1 + k = k + 1
    BY <1>1, <1>2
  <2>6. \A k \in 1 .. Len(f) : s[k + 1] = f[k]
    BY <2>4, <2>5
  <2>7. Len(s) = Len(g)
    BY <1>1, <1>2, <1>3, <2>3
  <2> QED BY <2>3, <2>6, <2>7
<1>6. \A k \in 1 .. Len(s) : s[k] = g[k]
  <2> SUFFICES ASSUME NEW k \in 1 .. Len(s) PROVE s[k] = g[k]
    OBVIOUS
  <2>1. CASE k = 1
    BY <1>4, <1>5, <2>1
  <2>2. CASE k # 1
    <3>1. k - 1 \in 1 .. L - m /\ k - 1 + 1 = k
      BY <1>1, <1>3, <1>5, <2>2
    <3>2. s[k - 1 + 1] = f[k - 1] /\ g[k - 1 + 1] = f[k - 1]
      BY <1>2, <1>4, <1>5, <3>1
    <3> QED BY <3>1, <3>2
  <2> QED BY <2>1, <2>2
<1>7. s = g
  BY <1>3, <1>5, <1>6, SeqEqual
<1> QED BY <1>7 DEF s, f, g, e

Closed(ts, b, end) == ts[b] = Close /\ end = b + 1

\* The arguments are parsed, from the last to the first.
LEMMA ArgsParsed ==
  ASSUME NEW L \in Nat, NEW S, NEW E, NEW K, Args(S, E, K, L),
         NEW ts \in Tokens, NEW B, Places(ts, B, L, K), NEW end, Closed(ts, B[L], end)
  PROVE  Parser(ts)[<<"args", B[0]>>] = Parsed(Behind(E, L, 0), end)
<1> DEFINE N == {m \in 0 .. L : Parser(ts)[<<"args", B[m]>>] = Parsed(Behind(E, L, m), end)}
<1>0. /\ \A m \in 0 .. L : B[m] \in Nat
      /\ 1 <= B[L] /\ B[L] <= Len(ts) /\ Len(ts) \in Nat /\ ts[B[L]] = Close /\ end = B[L] + 1
  BY DEF Places, Closed
<1>1. L \in N
  <2> DEFINE b == B[L]
  <2>1. b \in Nat /\ 1 <= b /\ b <= Len(ts) /\ ts[b] = Close /\ Len(ts) \in Nat /\ end = b + 1
    BY <1>0
  <2> HIDE DEF b
  <2>2. b \in 1 .. Len(ts) + 1 /\ ~ (b > Len(ts))
    BY <2>1
  <2>3. Parser(ts)[<<"args", b>>] = ParseArgs(Parser(ts), ts, b)
    BY <2>1, <2>2, ParserIs DEF Wanted, ParseStep
  <2>4. Parser(ts)[<<"args", b>>] = Parsed(<<>>, end)
    BY <2>1, <2>2, <2>3 DEF ParseArgs
  <2>5. Behind(E, L, L) = <<>>
    BY DEF Behind
  <2> QED BY <2>4, <2>5 DEF b
<1>2. ASSUME NEW m \in 1 .. L, m \in N PROVE m - 1 \in N
  <2>1. Parser(ts)[<<"args", B[m]>>] = Parsed(Behind(E, L, m), end)
    BY <1>2
  <2>2. Lies(ts, B[m - 1], B[m], K[m]) /\ 1 <= B[m - 1] /\ B[m] <= B[L] /\ Reads(S[m], E[m], K[m])
    BY DEF Args, Places
  <2>3. B[m] <= Len(ts)
    <3>1. B[m] \in Nat /\ B[L] \in Nat
      BY <1>0
    <3> QED BY <1>0, <2>2, <3>1
  <2> DEFINE b == B[m - 1]
             d == B[m]
             s == S[m]
             e == E[m]
             toks == K[m]
             es == Behind(E, L, m)
  <2>4. /\ Reads(s, e, toks) /\ Lies(ts, b, d, toks) /\ 1 <= b /\ d <= Len(ts)
        /\ Parser(ts)[<<"args", d>>] = Parsed(es, end)
    BY <2>1, <2>2, <2>3
  <2> HIDE DEF b, d, s, e, toks, es
  <2>5. Parser(ts)[<<"args", b>>] = Parsed(<<e>> \o es, end)
    BY <2>4, ArgParsed
  <2>6. <<e>> \o es = Behind(E, L, m - 1)
    BY BehindIs DEF e, es
  <2>7. Parser(ts)[<<"args", B[m - 1]>>] = Parsed(Behind(E, L, m - 1), end)
    BY <2>5, <2>6 DEF b
  <2>8. m - 1 \in 0 .. L
    OBVIOUS
  <2> QED BY <2>7, <2>8
<1>3. 0 \in N
  <2> HIDE DEF N
  <2> QED BY <1>1, <1>2, InductionDown
<1> QED BY <1>3

\* s is in x at b, and ends there at e.
Inside(x, b, e, s) == Lies(x, b, e, s) /\ 1 <= b /\ e <= Len(x) /\ Len(x) \in Nat

\* The places at which the parts of what is put together lie
PlacesFrom(x, B, L, p, b, e) == Places(x, B, L, p) /\ B[0] = b /\ B[L] = e

\* There are such places wherever what is put together lies.
LEMMA PlacesAre ==
  ASSUME NEW V, NEW L \in Nat, NEW p \in [1 .. L -> Seq(V)], NEW J, Joins(p, L, V, J), NEW x,
         NEW b, NEW e, NEW t, t = J[L], Inside(x, b, e, t)
  PROVE  \E B : PlacesFrom(x, B, L, p, b, e)
<1> DEFINE f == [m \in 0 .. L |-> Len(J[m])]
           B == [m \in 0 .. L |-> b + f[m]]
<1>0. /\ b \in Nat /\ Len(t) \in Nat /\ e = b + Len(t) /\ \A k \in 1 .. Len(t) : x[b + k - 1] = t[k]
      /\ 1 <= b /\ e <= Len(x) /\ Len(x) \in Nat
  BY DEF Lies, Inside
<1>9. Has(x, b, J[L])
  <2>1. Has(x, b, t)
    BY <1>0 DEF Has
  <2> QED BY <2>1
<1>1. \A m \in 0 .. L : f[m] = Len(J[m]) /\ f[m] \in Nat
  <2>1. \A m \in 0 .. L : Len(J[m]) \in Nat
    BY DEF Joins
  <2> QED BY <2>1
<1> HIDE DEF f
<1>2. B \in [0 .. L -> Nat] /\ \A m \in 0 .. L : B[m] = b + f[m]
  BY <1>0, <1>1
<1> HIDE DEF B
<1>3. 0 \in 0 .. L /\ L \in 0 .. L
  OBVIOUS
<1>4. f[L] = Len(t) /\ Len(t) \in Nat
  BY <1>1, <1>3
<1>5. B[L] = e /\ B[L] <= Len(x) /\ Len(x) \in Nat /\ 1 <= B[L]
  BY <1>0, <1>2, <1>3, <1>4
<1>6. B[0] = b
  <2>1. f[0] = 0
    <3>1. Len(J[0]) = 0
      BY DEF Joins
    <3> QED BY <1>1, <1>3, <3>1
  <2> QED BY <1>0, <1>2, <1>3, <2>1
<1>7. ASSUME NEW m \in 1 .. L PROVE Lies(x, B[m - 1], B[m], p[m]) /\ 1 <= B[m - 1] /\ B[m] <= B[L]
  <2>1. Lies(x, b + Len(J[m - 1]), b + Len(J[m]), p[m]) /\ Len(J[m]) <= Len(J[L])
    <3>1. \A n \in 1 .. L : Lies(x, b + Len(J[n - 1]), b + Len(J[n]), p[n]) /\ Len(J[n]) <= Len(J[L])
      BY <1>0, <1>9, PartAt
    <3> QED BY <3>1
  <2>2. m \in 0 .. L /\ m - 1 \in 0 .. L
    OBVIOUS
  <2>3. /\ f[m] = Len(J[m]) /\ f[m - 1] = Len(J[m - 1]) /\ f[L] = Len(J[L])
        /\ f[m] \in Nat /\ f[m - 1] \in Nat /\ f[L] \in Nat
    BY <1>1, <1>3, <2>2
  <2>4. B[m] = b + f[m] /\ B[m - 1] = b + f[m - 1] /\ B[L] = b + f[L]
    BY <1>2, <1>3, <2>2
  <2>5. Lies(x, B[m - 1], B[m], p[m]) /\ f[m] <= f[L]
    BY <2>1, <2>3, <2>4
  <2>6. 1 <= B[m - 1] /\ B[m] <= B[L]
    <3> DEFINE g == f[m - 1]
               h == f[m]
               k == f[L]
    <3>1. /\ g \in Nat /\ h \in Nat /\ k \in Nat /\ h <= k
          /\ B[m] = b + h /\ B[m - 1] = b + g /\ B[L] = b + k
      BY <2>3, <2>4, <2>5
    <3> HIDE DEF g, h, k
    <3>2. 1 <= b + g /\ b + h <= b + k
      BY <1>0, <3>1
    <3> QED BY <3>1, <3>2
  <2> QED BY <2>5, <2>6
<1>8. Places(x, B, L, p)
  BY <1>2, <1>5, <1>7 DEF Places
<1> QED BY <1>5, <1>6, <1>8 DEF PlacesFrom

\* Two sequences of one part
LEMMA TwoAre ==
  ASSUME NEW V, NEW a \in V, NEW b \in V
  PROVE  <<a>> \o <<b>> = <<a, b>>
<1> DEFINE x == <<a>>
           y == <<b>>
           z == <<a, b>>
           s == x \o y
<1>1. x \in Seq(V) /\ y \in Seq(V) /\ Len(x) = 1 /\ Len(y) = 1 /\ x[1] = a /\ y[1] = b
  OBVIOUS
<1>2. z \in Seq(V) /\ Len(z) = 2 /\ z[1] = a /\ z[2] = b
  OBVIOUS
<1> HIDE DEF x, y, z, s
<1>3. Both(x, y, s, V)
  BY <1>1, BothAre DEF s
<1>4. s \in Seq(V) /\ Len(s) = 2 /\ s[1] = a /\ s[1 + 1] = b
  BY <1>1, <1>3 DEF Both
<1>5. \A k \in 1 .. Len(s) : s[k] = z[k]
  <2>1. \A k \in 1 .. 2 : k = 1 \/ k = 2
    OBVIOUS
  <2>2. s[2] = b
    BY <1>4
  <2> QED BY <1>2, <1>4, <2>1, <2>2
<1>6. s = z
  BY <1>2, <1>4, <1>5, SeqEqual
<1> QED BY <1>6 DEF s, x, y, z

\* What is enclosed, with what follows, piece by piece
Pieces(a, b, t, d, rest) == <<a>> \o (<<b>> \o (t \o (<<d>> \o rest))) = (<<a, b>> \o t \o <<d>>) \o rest

\* The order in which they are put together does not matter.
LEMMA EnclosedParts ==
  ASSUME NEW V, NEW a \in V, NEW b \in V, NEW t \in Seq(V), NEW d \in V, NEW rest \in Seq(V)
  PROVE  Pieces(a, b, t, d, rest)
<1> DEFINE x == <<a>>
           y == <<b>>
           z == <<d>>
           u == t
           r == rest
           zr == z \o r
           uzr == u \o zr
           xy == x \o y
           xyu == xy \o u
<1>0. xy = <<a, b>>
  BY TwoAre
<1>1. x \in Seq(V) /\ y \in Seq(V) /\ z \in Seq(V) /\ u \in Seq(V) /\ r \in Seq(V)
  OBVIOUS
<1> HIDE DEF x, y, z, u, r
<1>2. zr \in Seq(V) /\ xy \in Seq(V)
  BY <1>1
<1> HIDE DEF zr, xy
<1>3. uzr \in Seq(V) /\ xyu \in Seq(V)
  BY <1>1, <1>2
<1> HIDE DEF uzr, xyu
<1>4. Associates(x, y, uzr) /\ Associates(xy, u, zr) /\ Associates(xyu, z, r)
  BY <1>1, <1>2, <1>3, AppendBehind
<1>5. x \o (y \o uzr) = xy \o uzr
  BY <1>4 DEF Associates, xy
<1>6. xy \o uzr = xyu \o zr
  BY <1>4 DEF Associates, uzr, xyu
<1>8. xyu \o zr = (xyu \o z) \o r
  BY <1>4 DEF Associates, zr
<1>7. x \o (y \o uzr) = (xyu \o z) \o r
  BY <1>5, <1>6, <1>8
<1> QED BY <1>0, <1>7 DEF uzr, xyu, zr, x, y, z, u, r, Pieces

-----------------------------------------------------------------------------
(* Functions and whole requests.                                           *)

\* The text of a function is read as its name and its arguments.
LEMMA FuncReads ==
  ASSUME NEW w \in Words, NEW L \in Nat, NEW S, NEW E, NEW K, Args(S, E, K, L)
  PROVE  \E toks : Reads(Open \o <<w>> \o FlattenSeq(Spaced(S, L)) \o Close, Func(<<w>>, [k \in 1 .. L |-> E[k]]), toks)
<1>1. /\ "(" \in Chars /\ ")" \in Chars /\ w \in Chars /\ "(" \in Parens /\ ")" \in Parens
      /\ "(" \in Stops /\ ")" \in Stops
  BY DEF Chars, Words, Special, Parens, Stops
<1>2. w \notin Stops \cup {Quote} /\ w # Blank
  BY DEF Words, Special, Stops
<1>3. "(" # Blank /\ ")" # Blank
  BY DEF Blank
<1>4. <<w>> \in Texts /\ Open \in Texts /\ Close \in Texts /\ Open # Close /\ <<w>> # Close
  <2>1. <<w>> \in Texts /\ Open \in Texts /\ Close \in Texts
    BY <1>1 DEF Texts, Open, Close
  <2>2. w # ")"
    BY <1>1, <1>2
  <2> QED BY <2>1, <2>2 DEF Open, Close
<1> DEFINE Kt == [k \in 1 .. L |-> K[k]]
<1>5. Spaced(S, L) \in [1 .. L -> Seq(Chars)]
  <2>1. Blank \in Chars
    BY DEF Chars, Special
  <2>2. \A k \in 1 .. L : S[k] \in Seq(Chars)
    BY DEF Args, Reads, Texts
  <2> QED BY <2>1, <2>2 DEF Spaced
<1>6. Kt \in [1 .. L -> Tokens] /\ Args(S, E, Kt, L) /\ Kt \in [1 .. L -> Seq(Texts)]
  BY DEF Args, Reads, Tokens
<1> HIDE DEF Kt
<1>7. PICK J : Joins(Spaced(S, L), L, Chars, J) /\ FlattenSeq(Spaced(S, L)) = J[L]
  BY <1>5, FlattenIs
<1>8. PICK T : Joins(Kt, L, Texts, T) /\ FlattenSeq(Kt) = T[L]
  BY <1>6, FlattenIs
<1> DEFINE t == J[L]
           u == T[L]
           q == <<"(", w>> \o t \o <<")">>
           toks == <<Open, <<w>>>> \o u \o <<Close>>
           es == [k \in 1 .. L |-> E[k]]
<1>9. t \in Seq(Chars) /\ u \in Seq(Texts)
  BY <1>7, <1>8 DEF Joins
<1>10. Open \o <<w>> \o FlattenSeq(Spaced(S, L)) \o Close = q
  <2> DEFINE f == FlattenSeq(Spaced(S, L))
  <2>1. f = t /\ t \in Seq(Chars)
    BY <1>7, <1>9
  <2> HIDE DEF f, t
  <2>2. Open \o <<w>> = <<"(", w>>
    <3>1. <<"(">> \o <<w>> = <<"(", w>>
      BY <1>1, TwoAre
    <3> QED BY <3>1 DEF Open
  <2>3. Open \o <<w>> \o f \o Close = q
    BY <2>1, <2>2 DEF Close
  <2> QED BY <2>3 DEF f
<1>11. q \in Seq(Chars) /\ Len(q) = Len(t) + 3 /\ Len(t) \in Nat /\ q[1] = "("
  <2> HIDE DEF t
  <2> QED BY <1>1, <1>9, EnclosedIs
<1>12. toks \in Seq(Texts) /\ Len(toks) = Len(u) + 3 /\ Len(u) \in Nat /\ toks[1] = Open
  <2> HIDE DEF u
  <2> QED BY <1>4, <1>9, EnclosedIs
<1>17. q = <<"(", w>> \o t \o <<")">> /\ t = J[L] /\ toks = <<Open, <<w>>>> \o u \o <<Close>> /\ u = T[L]
  OBVIOUS
<1> HIDE DEF t, u, q, toks, es
<1>13. Tokenized(q, toks)
  <2> SUFFICES ASSUME NEW in \in Texts, NEW i \in 1 .. Len(in), NEW rest \in Tokens, Holds(in, i, q),
                      in[i + Len(q)] \in Stops, rest # <<>>, TokensAt(in, i + Len(q)) = rest
               PROVE  TokensFrom(in)[i] = toks \o rest
    BY DEF Tokenized
  <2>0. Len(in) \in Nat /\ i \in Nat
    BY TextIs
  <2>1. Enclosed(in, i, "(", w, t, ")")
    <3>1. Has(in, i, q)
      BY <1>11, <2>0 DEF Holds, Has
    <3> QED BY <1>1, <1>9, <1>17, <2>0, <3>1, EnclosedAt
  <2>2. i + 3 + Len(t) <= Len(in) /\ i + Len(q) = i + 3 + Len(t)
    BY <1>11, <2>0 DEF Holds
  <2> DEFINE b == i + 2 + Len(t)
             all == u \o (<<Close>> \o rest)
  <2>3. PICK B : Places(in, B, L, Spaced(S, L)) /\ B[0] = i + 2 /\ B[L] = b
    <3> DEFINE d == i + 2
    <3>1. Inside(in, d, b, t)
      BY <2>0, <2>1 DEF Enclosed, Inside, Lies, Has
    <3>2. Joins(Spaced(S, L), L, Chars, J) /\ t = J[L]
      BY <1>7, <1>17
    <3> HIDE DEF b, d
    <3>3. \E B : PlacesFrom(in, B, L, Spaced(S, L), d, b)
      BY <1>5, <3>1, <3>2, PlacesAre
    <3> QED BY <3>3 DEF PlacesFrom, d
  <2>4. in[b] = ")" /\ b \in 1 .. Len(in) - 1 /\ b \in 1 .. Len(in) /\ b + 1 = i + Len(q)
    BY <1>11, <2>0, <2>1, <2>2 DEF Enclosed
  <2> HIDE DEF b
  <2>5. TokensAt(in, b) = <<Close>> \o rest
    <3>1. TokensFrom(in)[b] = <<<<in[b]>>>> \o rest
      <4>1. in[b] \in Parens /\ TokensAt(in, b + 1) = rest
        BY <1>1, <2>4
      <4> QED BY <2>4, <4>1, ParenToken
    <3>2. <<in[b]>> = Close
      BY <2>4 DEF Close
    <3>3. NotBlank(in, b) = b
      BY <1>3, <2>4, StaysThere DEF Texts
    <3> QED BY <3>1, <3>2, <3>3 DEF TokensAt
  <2>6. <<Close>> \o rest \in Tokens /\ <<Close>> \o rest # <<>>
    BY <1>4 DEF Tokens
  <2>7. Rest(in, B[L], T[L], all)
    BY <1>1, <2>3, <2>4, <2>5, <2>6 DEF Rest, u
  <2> HIDE DEF all
  <2>8. Rest(in, B[0], T[0], all)
    BY <1>6, <1>8, <2>3, <2>7, ArgTokens
  <2>9. TokensAt(in, i + 2) = all /\ all # <<>> /\ all \in Tokens /\ in[i + 2] \in Stops
    <3>1. T[0] = <<>>
      BY <1>8 DEF Joins
    <3> DEFINE r == TokensAt(in, i + 2)
    <3>2. <<>> \o r = all /\ r \in Tokens /\ r # <<>> /\ in[i + 2] \in Stops
      BY <2>3, <2>8, <3>1 DEF Rest
    <3> HIDE DEF r
    <3>3. r = all
      BY <3>2 DEF Tokens
    <3> QED BY <3>2, <3>3 DEF r
  <2>14. in[i] = "(" /\ in[i + 1] = w
    BY <2>1 DEF Enclosed
  <2>10. TokensFrom(in)[i + 1] = <<<<w>>>> \o all
    <3>1. /\ i + 1 \in 1 .. Len(in) - 1 /\ i + 1 + 1 = i + 2
      BY <1>11, <2>0, <2>2
    <3>2. in[i + 1] \notin Stops \cup {Quote} /\ in[i + 1 + 1] \in Stops /\ TokensAt(in, i + 1 + 1) = all
      BY <1>2, <2>14, <2>9, <3>1
    <3>3. TokensFrom(in)[i + 1] = <<<<in[i + 1]>>>> \o all
      BY <2>9, <3>1, <3>2, WordToken
    <3> QED BY <2>14, <3>3
  <2>11. TokensAt(in, i + 1) = <<<<w>>>> \o all
    <3>1. i + 1 \in 1 .. Len(in)
      BY <1>11, <2>0, <2>2
    <3>2. NotBlank(in, i + 1) = i + 1
      BY <1>2, <2>14, <3>1, StaysThere DEF Texts
    <3> QED BY <2>10, <3>2 DEF TokensAt
  <2>12. TokensFrom(in)[i] = <<Open>> \o (<<<<w>>>> \o all)
    <3> DEFINE r == <<<<w>>>> \o all
    <3>1. r # <<>> /\ i \in 1 .. Len(in) - 1 /\ in[i] \in Parens
      BY <1>1, <1>4, <1>11, <2>0, <2>14, <2>2, <2>9 DEF Tokens
    <3>2. TokensAt(in, i + 1) = r
      BY <2>11
    <3> HIDE DEF r
    <3>3. TokensFrom(in)[i] = <<<<in[i]>>>> \o r
      BY <3>1, <3>2, ParenToken
    <3> QED BY <2>14, <3>3 DEF r, Open
  <2>13. <<Open>> \o (<<<<w>>>> \o all) = toks \o rest
    <3>1. Open \in Texts /\ <<w>> \in Texts /\ Close \in Texts /\ u \in Seq(Texts) /\ rest \in Seq(Texts)
      BY <1>4, <1>9 DEF Tokens
    <3>2. Pieces(Open, <<w>>, u, Close, rest)
      BY <3>1, EnclosedParts
    <3> QED BY <3>2 DEF Pieces, all, toks
  <2> QED BY <2>12, <2>13
<1>14. ParsedAs(toks, Func(<<w>>, es))
  <2> SUFFICES ASSUME NEW ts \in Tokens, NEW c \in 1 .. Len(ts), Has(ts, c, toks)
               PROVE  Parser(ts)[<<"expr", c>>] = Parsed(Func(<<w>>, es), c + Len(toks))
    BY DEF ParsedAs
  <2>0. Len(ts) \in Nat /\ c \in Nat
    BY TokensAre
  <2>1. Enclosed(ts, c, Open, <<w>>, u, Close)
    BY <1>4, <1>9, <1>17, <2>0, EnclosedAt
  <2>10. /\ ts[c] = Open /\ ts[c + 1] = <<w>> /\ ts[c + 2 + Len(u)] = Close /\ c + 2 + Len(u) <= Len(ts)
         /\ Has(ts, c + 2, u)
    BY <2>1 DEF Enclosed
  <2> DEFINE b == c + 2 + Len(u)
  <2>2. PICK B : Places(ts, B, L, Kt) /\ B[0] = c + 2 /\ B[L] = b
    <3> DEFINE d == c + 2
    <3>1. Inside(ts, d, b, u)
      BY <2>0, <2>1 DEF Enclosed, Inside, Lies, Has
    <3>2. Joins(Kt, L, Texts, T) /\ u = T[L]
      BY <1>8, <1>17
    <3> HIDE DEF b, d
    <3>3. \E B : PlacesFrom(ts, B, L, Kt, d, b)
      BY <1>6, <3>1, <3>2, PlacesAre
    <3> QED BY <3>3 DEF PlacesFrom, d
  <2>3. ts[b] = Close /\ 1 <= b /\ b + 1 = c + Len(toks)
    <3>1. ts[b] = Close
      BY <2>10
    <3>2. Len(toks) = Len(u) + 3 /\ Len(u) \in Nat /\ c \in Nat /\ 1 <= c
      BY <1>12, <2>0
    <3>3. 1 <= b /\ b + 1 = c + Len(toks)
      BY <3>2
    <3> QED BY <3>1, <3>3
  <2> HIDE DEF b
  <2>4. Parser(ts)[<<"args", c + 2>>] = Parsed(Behind(E, L, 0), c + Len(toks))
    <3> DEFINE end == c + Len(toks)
    <3>1. Closed(ts, B[L], end)
      BY <2>2, <2>3 DEF Closed
    <3> HIDE DEF end
    <3>2. Parser(ts)[<<"args", B[0]>>] = Parsed(Behind(E, L, 0), end)
      BY <1>6, <2>2, <3>1, ArgsParsed
    <3> QED BY <2>2, <3>2 DEF end
  <2>5. Behind(E, L, 0) = es
    BY DEF Behind, es
  <2> DEFINE P == Parser(ts)
             end == c + Len(toks)
  <2>6. P[<<"args", c + 2>>].is = "expr" /\ P[<<"args", c + 2>>].expr = es /\ P[<<"args", c + 2>>].curr = end
    BY <2>4, <2>5 DEF Parsed
  <2>7. Parser(ts)[<<"expr", c>>] = ParseExpr(P, ts, c)
    <3>1. c \in 1 .. Len(ts) + 1
      BY <2>0
    <3> QED BY <2>0, <3>1, ParserIs DEF Wanted, ParseStep
  <2>8. ~ (c > Len(ts)) /\ ~ (c + 1 > Len(ts)) /\ c + 1 + 1 = c + 2
    BY <1>12, <2>0, <2>10
  <2> HIDE DEF P, end
  <2>9. ParseExpr(P, ts, c) = Parsed(Func(<<w>>, es), end)
    BY <1>4, <2>10, <2>6, <2>8 DEF ParseExpr, ParseFunc
  <2> QED BY <2>7, <2>9 DEF end
<1>15. q # <<>> /\ q[1] # Blank /\ toks # <<>> /\ toks[1] # Close /\ q \in Texts /\ toks \in Tokens
  BY <1>3, <1>4, <1>11, <1>12 DEF Texts, Tokens
<1>16. Reads(q, Func(<<w>>, es), toks)
  BY <1>13, <1>14, <1>15 DEF Reads
<1> QED BY <1>10, <1>16 DEF es

\* One expression, from those before it
LEMMA ReadNode ==
  ASSUME NEW h, IsHeap(h), NEW n \in 1 .. Len(h), \A m \in 1 .. n - 1 : ReadAt(h, m)
  PROVE  ReadAt(h, n)
<1> DEFINE text == TextOf(h)
           tree == Tree(h)
<1>1. text = [m \in 1 .. Len(h) |-> TextStep(h, text, m)] /\ tree = [m \in 1 .. Len(h) |-> TreeStep(h, tree, m)]
  BY TextOfIs, TreeIs
<1>2. \A m \in 1 .. n - 1 : \E toks : Reads(text[m], tree[m], toks)
  BY DEF ReadAt
<1> SUFFICES \E toks : Reads(text[n], tree[n], toks)
  BY DEF ReadAt
<1> HIDE DEF text, tree
<1>3. text[n] = TextStep(h, text, n) /\ tree[n] = TreeStep(h, tree, n)
  BY <1>1
<1>4. CASE IsValue(h, n)
  <2>1. h[n].kind = "value" /\ h[n] = Value(h[n].value)
    BY <1>4 DEF IsValue
  <2>2. CASE h[n].value = StrVal
    <3>1. h[n].value.type = "string"
      BY <2>2 DEF StrVal
    <3>2. text[n] = <<Quote, "s", Quote>> /\ tree[n] = Value(StrVal)
      BY <1>3, <2>1, <2>2, <3>1 DEF TextStep, TreeStep
    <3> QED BY <3>2, StringReads
  <2>3. CASE h[n].value = IntVal(0)
    <3>1. h[n].value.type = "int"
      BY <2>3 DEF IntVal
    <3>2. text[n] = <<"0">> /\ tree[n] = Value(IntVal(0))
      BY <1>3, <2>1, <2>3, <3>1 DEF TextStep, TreeStep
    <3>3. Reads(<<"0">>, Value(IntVal(0)), <<<<"0">>>>)
      BY NumberReads
    <3> QED BY <3>2, <3>3
  <2>4. CASE h[n].value = IntVal(1)
    <3>1. h[n].value.type = "int" /\ h[n].value # IntVal(0)
      BY <2>4 DEF IntVal
    <3>2. text[n] = <<"1">> /\ tree[n] = Value(IntVal(1))
      BY <1>3, <2>1, <2>4, <3>1 DEF TextStep, TreeStep
    <3>3. Reads(<<"1">>, Value(IntVal(1)), <<<<"1">>>>)
      BY NumberReads
    <3> QED BY <3>2, <3>3
  <2>5. CASE h[n].value = Lexpr(h[n].value.lexpr) /\ h[n].value.lexpr \in 1 .. n - 1
    <3> DEFINE m == h[n].value.lexpr
    <3>1. h[n].value.type = "lexpr"
      BY <2>5 DEF Lexpr
    <3>2. text[n] = Tick \o <<Blank>> \o text[m] /\ tree[n] = Value(Lexpr(tree[m]))
      BY <1>3, <2>1, <3>1 DEF TextStep, TreeStep
    <3>3. m \in 1 .. n - 1
      BY <2>5
    <3> HIDE DEF m
    <3>4. PICK toks : Reads(text[m], tree[m], toks)
      BY <1>2, <3>3
    <3>5. Reads(Tick \o <<Blank>> \o text[m], Value(Lexpr(tree[m])), <<Tick>> \o toks)
      BY <3>4, QuoteReads
    <3> QED BY <3>2, <3>5
  <2> QED BY <1>4, <2>2, <2>3, <2>4, <2>5 DEF IsValue, Literals
<1>5. CASE IsFunc(h, n)
  <2> DEFINE args == h[n].args
             L == Len(args)
             S == Each(text, args)
             E == Each(tree, args)
             K == [k \in 1 .. L |-> CHOOSE toks : Reads(S[k], E[k], toks)]
  <2>1. L \in Nat /\ \A k \in 1 .. L : args[k] \in 1 .. n - 1
    BY <1>5 DEF IsFunc
  <2>2. PICK w \in Words : h[n].name = <<w>>
    <3>1. h[n].name = <<h[n].name[1]>> /\ h[n].name[1] \in Words
      BY <1>5 DEF IsFunc
    <3> QED BY <3>1
  <2>3. S = [k \in 1 .. L |-> text[args[k]]] /\ E = [k \in 1 .. L |-> tree[args[k]]]
    BY DEF Each
  <2>4. Len(S) = L
    BY <2>1, <2>3
  <2>5. text[n] = Open \o <<w>> \o FlattenSeq([k \in 1 .. Len(S) |-> <<Blank>> \o S[k]]) \o Close
    BY <1>3, <1>5, <2>2 DEF TextStep, IsFunc
  <2>6. tree[n] = Func(<<w>>, E)
    BY <1>3, <1>5, <2>2 DEF TreeStep, IsFunc
  <2> HIDE DEF S, E, L
  <2>7. Args(S, E, K, L)
    <3>1. ASSUME NEW k \in 1 .. L PROVE Reads(S[k], E[k], K[k])
      <4>1. \E toks : Reads(S[k], E[k], toks)
        BY <1>2, <2>1, <2>3
      <4> QED BY <4>1
    <3> HIDE DEF K
    <3> QED BY <3>1 DEF Args
  <2> HIDE DEF K
  <2>8. \E toks : Reads(Open \o <<w>> \o FlattenSeq(Spaced(S, L)) \o Close, Func(<<w>>, [k \in 1 .. L |-> E[k]]), toks)
    BY <2>1, <2>2, <2>7, FuncReads
  <2>9. [k \in 1 .. L |-> E[k]] = E
    BY <2>3
  <2>10. text[n] = Open \o <<w>> \o FlattenSeq(Spaced(S, L)) \o Close
    BY <2>4, <2>5 DEF Spaced
  <2> QED BY <2>6, <2>8, <2>9, <2>10
<1> QED BY <1>4, <1>5, NodeIs

\* Every expression on a heap
LEMMA ReadEverywhere ==
  ASSUME NEW h, IsHeap(h)
  PROVE  \A n \in 1 .. Len(h) : ReadAt(h, n)
<1> DEFINE S == {n \in 1 .. Len(h) : ReadAt(h, n)}
<1>1. Len(h) \in Nat
  BY DEF IsHeap
<1>2. ASSUME NEW n \in 1 .. Len(h), \A k \in 1 .. n - 1 : k \in S PROVE n \in S
  BY <1>2, ReadNode
<1>3. \A n \in 1 .. Len(h) : n \in S
  <2> HIDE DEF S
  <2> QED BY <1>1, <1>2, InductionFromBelow
<1> QED BY <1>3

\* The parenthesis at the end of a text
LEMMA CloseReads ==
  ASSUME NEW in \in Texts, Len(in) >= 1, in[Len(in)] = ")"
  PROVE  TokensAt(in, Len(in)) = <<Close>>
<1> DEFINE i == Len(in)
<1>1. i \in 1 .. Len(in) /\ i \in Nat /\ i \in 1 .. Len(in) + 1
  BY TextIs
<1>2. NotBlank(in, i) = i
  <2>1. in[i] # Blank
    BY DEF Blank
  <2> QED BY <1>1, <2>1, StaysThere DEF Texts
<1>3. TokenEnd(in, i) = i + 1
  BY <1>1 DEF TokenEnd, Parens
<1>4. TokensFrom(in)[i] = TokenStep(in, TokensFrom(in), i)
  BY <1>1, TokensFromIs DEF Texts
<1>5. SubSeq(in, i, i) = Close
  <2>1. <<")">> \in Texts /\ Len(<<")">>) = i - i + 1
    <3>1. ")" \in Chars
      BY DEF Chars, Special, Parens
    <3> QED BY <1>1, <3>1 DEF Texts
  <2>2. \A k \in 1 .. i - i + 1 : <<")">>[k] = in[i + k - 1]
    BY <1>1
  <2>3. i \in i .. Len(in)
    BY <1>1
  <2> QED BY <1>1, <2>1, <2>2, <2>3, PieceIs DEF Close
<1>6. TokenStep(in, TokensFrom(in), i) = <<Close>>
  <2>1. ~ (i + 1 > Len(in) + 1) /\ i + 1 = Len(in) + 1 /\ i + 1 - 1 = i
    BY <1>1
  <2>2. TokenStep(in, TokensFrom(in), i) = <<SubSeq(in, i, i)>>
    BY <1>3, <2>1 DEF TokenStep
  <2> QED BY <1>5, <2>2
<1> QED BY <1>2, <1>4, <1>6 DEF TokensAt

\* What the parser yields for a text that is read as e, with ")" behind it
LEMMA ReadAtOnce ==
  ASSUME NEW s, NEW e, NEW toks, Reads(s, e, toks)
  PROVE  Parse(Tokenize(s \o Close)) = Parsed(e, Len(toks) + 1)
<1> DEFINE in == s \o Close
           ts == toks \o <<Close>>
<1>1. s \in Seq(Chars) /\ s # <<>> /\ toks \in Seq(Texts) /\ toks # <<>> /\ s \in Texts /\ toks \in Tokens
  BY DEF Reads, Texts, Tokens
<1>2. Close \in Texts /\ Close \in Seq(Chars) /\ <<Close>> \in Seq(Texts) /\ Close[1] = ")" /\ Len(Close) = 1
  <2>1. ")" \in Chars
    BY DEF Chars, Special, Parens
  <2> QED BY <2>1 DEF Texts, Close
<1>3. Both(s, Close, in, Chars)
  BY <1>1, <1>2, BothAre
<1>4. Both(toks, <<Close>>, ts, Texts)
  BY <1>1, <1>2, BothAre
<1> HIDE DEF in, ts
<1>5. in \in Texts /\ Len(s) \in Nat /\ Len(in) = Len(s) + 1 /\ in[Len(s) + 1] = ")" /\ \A k \in 1 .. Len(s) : in[k] = s[k]
  BY <1>2, <1>3 DEF Both, Texts
<1>6. ts \in Tokens /\ Len(toks) \in Nat /\ Len(ts) = Len(toks) + 1 /\ \A k \in 1 .. Len(toks) : ts[k] = toks[k]
  BY <1>2, <1>4 DEF Both, Tokens
<1>7. Len(s) >= 1 /\ Len(toks) >= 1
  BY <1>1, <1>5, <1>6
<1>8. TokensAt(in, Len(s) + 1) = <<Close>>
  <2>1. Len(in) >= 1 /\ in[Len(in)] = ")"
    BY <1>5, <1>7
  <2>2. TokensAt(in, Len(in)) = <<Close>>
    BY <1>5, <2>1, CloseReads
  <2> QED BY <1>5, <2>2
<1>9. TokensFrom(in)[1] = ts
  <2>1. Holds(in, 1, s)
    <3>1. \A k \in 1 .. Len(s) : in[1 + k - 1] = s[k]
      <4>1. \A k \in 1 .. Len(s) : 1 + k - 1 = k
        BY <1>5
      <4> QED BY <1>5, <4>1
    <3>2. 1 + Len(s) <= Len(in)
      BY <1>5
    <3> QED BY <3>1, <3>2 DEF Holds
  <2>2. in[1 + Len(s)] \in Stops /\ TokensAt(in, 1 + Len(s)) = <<Close>>
    <3>1. 1 + Len(s) = Len(s) + 1
      BY <1>5
    <3>2. ")" \in Stops
      BY DEF Stops, Parens
    <3> QED BY <1>5, <1>8, <3>1, <3>2
  <2>3. 1 \in 1 .. Len(in) /\ <<Close>> # <<>> /\ <<Close>> \in Tokens
    BY <1>2, <1>5 DEF Tokens
  <2>4. Tokenized(s, toks)
    BY DEF Reads
  <2>5. TokensFrom(in)[1] = toks \o <<Close>>
    BY <1>5, <2>1, <2>2, <2>3, <2>4 DEF Tokenized
  <2> QED BY <2>5 DEF ts
<1>10. Parser(ts)[<<"expr", 1>>] = Parsed(e, 1 + Len(toks))
  <2>1. Has(ts, 1, toks)
    <3>1. \A k \in 1 .. Len(toks) : ts[1 + k - 1] = toks[k]
      <4>1. \A k \in 1 .. Len(toks) : 1 + k - 1 = k
        BY <1>6
      <4> QED BY <1>6, <4>1
    <3>2. 1 + Len(toks) - 1 <= Len(ts)
      BY <1>6
    <3> QED BY <3>1, <3>2 DEF Has
  <2>2. 1 \in 1 .. Len(ts)
    BY <1>6
  <2> QED BY <1>6, <2>1, <2>2 DEF Reads, ParsedAs
<1>11. ts # NoTokens
  BY <1>6 DEF NoTokens
<1>12. Tokenize(in) = ts /\ Parse(ts) = Parsed(e, 1 + Len(toks)) /\ 1 + Len(toks) = Len(toks) + 1
  BY <1>6, <1>9, <1>10, <1>11 DEF Tokenize, Parse
<1> QED BY <1>12 DEF in

\* RequestsAreReadBack: the text of every request is read as that request
\* (ME_RLI_tokenize, ME_RLI_IR_expr_parse), however large it is.
THEOREM RequestsAreWhatTheySay == Spec => []RequestsAreReadBack
<1>1. ASSUME Formed PROVE RequestsAreReadBack
  <2> DEFINE s == TextOf(heap)[expr]
             e == Tree(heap)[expr]
  <2>1. ReadAt(heap, expr)
    BY <1>1, ReadEverywhere DEF Formed
  <2>2. PICK toks : Reads(s, e, toks)
    BY <2>1 DEF ReadAt
  <2> HIDE DEF s, e
  <2>3. Parse(Tokenize(s \o Close)) = Parsed(e, Len(toks) + 1)
    BY <2>2, ReadAtOnce
  <2>4. Parsed(e, Len(toks) + 1).is = "expr" /\ Parsed(e, Len(toks) + 1).expr = e
    BY DEF Parsed
  <2> QED BY <2>3, <2>4 DEF RequestsAreReadBack, s, e
<1> QED BY <1>1, RequestsAreFormed, PTL

-----------------------------------------------------------------------------
(* Where reading ends, whatever is read.                                   *)

\* Induction from the last one down
LEMMA InductionFromAbove ==
  ASSUME NEW n \in Nat, NEW S, \A m \in 1 .. n : (\A k \in m + 1 .. n : k \in S) => m \in S
  PROVE  \A m \in 1 .. n : m \in S
<1> DEFINE T == {j \in 1 .. n : n + 1 - j \in S}
<1>1. ASSUME NEW j \in 1 .. n, \A k \in 1 .. j - 1 : k \in T PROVE j \in T
  <2>1. n + 1 - j \in 1 .. n
    OBVIOUS
  <2>2. ASSUME NEW k \in (n + 1 - j) + 1 .. n PROVE k \in S
    <3>1. n + 1 - k \in 1 .. j - 1 /\ n + 1 - (n + 1 - k) = k
      OBVIOUS
    <3>2. n + 1 - k \in T
      BY <1>1, <3>1
    <3> QED BY <3>1, <3>2
  <2>3. n + 1 - j \in S
    BY <2>1, <2>2
  <2> QED BY <2>3
<1>2. \A j \in 1 .. n : j \in T
  <2> HIDE DEF T
  <2> QED BY <1>1, InductionFromBelow
<1>3. ASSUME NEW m \in 1 .. n PROVE m \in S
  <2>1. n + 1 - m \in 1 .. n /\ n + 1 - (n + 1 - m) = m
    OBVIOUS
  <2>2. n + 1 - m \in T
    <3> HIDE DEF T
    <3> QED BY <1>2, <2>1
  <2> QED BY <2>1, <2>2
<1> QED BY <1>3

\* Two readings end the same way and at the same place.
EndAlike(r, q) == r.is = q.is /\ (r.is = "expr" => r.curr = q.curr)

\* How the reading p of the tokens ts ends for an expression at c ...
ExprEndsAt(p, ts, c) ==
  /\ c > Len(ts) => p[<<"expr", c>>] = Crash
  /\ c <= Len(ts) /\ ts[c] = Open /\ (c + 1 > Len(ts) \/ ts[c + 1] = Close) => p[<<"expr", c>>] = Null
  /\ c + 1 <= Len(ts) /\ ts[c] = Open /\ ts[c + 1] # Close => EndAlike(p[<<"expr", c>>], p[<<"args", c + 2>>])
  /\ c <= Len(ts) /\ ts[c] = Tick => EndAlike(p[<<"expr", c>>], p[<<"expr", c + 1>>])
  /\ c <= Len(ts) /\ ts[c] # Open /\ ts[c] # Tick => p[<<"expr", c>>].is = "expr" /\ p[<<"expr", c>>].curr = c + 1

\* ... and for the arguments from c on
ArgsEndAt(p, ts, c) ==
  /\ c > Len(ts) => p[<<"args", c>>] = Null
  /\ c <= Len(ts) /\ ts[c] = Close => p[<<"args", c>>].is = "expr" /\ p[<<"args", c>>].curr = c + 1
  /\ c <= Len(ts) /\ ts[c] # Close /\ p[<<"expr", c>>].is # "expr" => p[<<"args", c>>] = p[<<"expr", c>>]
  /\ c <= Len(ts) /\ ts[c] # Close /\ p[<<"expr", c>>].is = "expr"
       => EndAlike(p[<<"args", c>>], p[<<"args", p[<<"expr", c>>].curr>>])

\* The parser's readings end so.
LEMMA ParserEnds ==
  ASSUME NEW ts, Len(ts) \in Nat, NEW c \in 1 .. Len(ts) + 1
  PROVE  ExprEndsAt(Parser(ts), ts, c) /\ ArgsEndAt(Parser(ts), ts, c)
<1> DEFINE P == Parser(ts)
<1>1. P[<<"expr", c>>] = ParseExpr(P, ts, c) /\ P[<<"args", c>>] = ParseArgs(P, ts, c)
  <2>1. "expr" \in Wanted /\ "args" \in Wanted /\ "expr" # "args"
    BY DEF Wanted
  <2> QED BY <2>1, ParserIs DEF ParseStep
<1> HIDE DEF P
<1>2. ExprEndsAt(P, ts, c)
  <2>1. c > Len(ts) => P[<<"expr", c>>] = Crash
    BY <1>1 DEF ParseExpr
  <2>2. c <= Len(ts) /\ ts[c] = Open /\ (c + 1 > Len(ts) \/ ts[c + 1] = Close) => P[<<"expr", c>>] = Null
    BY <1>1 DEF ParseExpr, ParseFunc
  <2>3. ASSUME c + 1 <= Len(ts), ts[c] = Open, ts[c + 1] # Close
        PROVE  EndAlike(P[<<"expr", c>>], P[<<"args", c + 2>>])
    <3> DEFINE a == P[<<"args", c + 2>>]
    <3>1. c + 1 + 1 = c + 2 /\ ~ (c > Len(ts)) /\ ~ (c + 1 > Len(ts))
      BY <2>3
    <3>2. P[<<"expr", c>>] = IF a.is # "expr" THEN a ELSE Parsed(Func(ts[c + 1], a.expr), a.curr)
      BY <1>1, <2>3, <3>1 DEF ParseExpr, ParseFunc
    <3> HIDE DEF a
    <3>3. EndAlike(P[<<"expr", c>>], a)
      BY <3>2 DEF EndAlike, Parsed
    <3> QED BY <3>3 DEF a
  <2>4. ASSUME c <= Len(ts), ts[c] # Open PROVE
          /\ ts[c] = Tick => EndAlike(P[<<"expr", c>>], P[<<"expr", c + 1>>])
          /\ ts[c] # Tick => P[<<"expr", c>>].is = "expr" /\ P[<<"expr", c>>].curr = c + 1
    <3> DEFINE q == P[<<"expr", c + 1>>]
    <3>1. P[<<"expr", c>>] = IF ts[c] # Tick THEN Parsed(Value(Literal(ts[c])), c + 1)
                             ELSE IF q.is = "expr" THEN Parsed(Value(Lexpr(q.expr)), q.curr) ELSE q
      BY <1>1, <2>4 DEF ParseExpr, ParseValue
    <3> HIDE DEF q
    <3>2. /\ ts[c] = Tick => EndAlike(P[<<"expr", c>>], q)
          /\ ts[c] # Tick => P[<<"expr", c>>].is = "expr" /\ P[<<"expr", c>>].curr = c + 1
      BY <3>1 DEF EndAlike, Parsed
    <3> QED BY <3>2 DEF q
  <2>5. Tick # Open
    BY DEF Tick, Open
  <2> QED BY <2>1, <2>2, <2>3, <2>4, <2>5 DEF ExprEndsAt
<1>3. ArgsEndAt(P, ts, c)
  <2> DEFINE a == P[<<"expr", c>>]
             r == P[<<"args", a.curr>>]
  <2>1. P[<<"args", c>>] = IF c > Len(ts) THEN Null
                           ELSE IF ts[c] = Close THEN Parsed(<<>>, c + 1)
                           ELSE IF a.is # "expr" THEN a
                           ELSE IF r.is # "expr" THEN r
                           ELSE Parsed(<<a.expr>> \o r.expr, r.curr)
    BY <1>1 DEF ParseArgs
  <2> HIDE DEF a, r
  <2>2. /\ c > Len(ts) => P[<<"args", c>>] = Null
        /\ c <= Len(ts) /\ ts[c] = Close => P[<<"args", c>>].is = "expr" /\ P[<<"args", c>>].curr = c + 1
        /\ c <= Len(ts) /\ ts[c] # Close /\ a.is # "expr" => P[<<"args", c>>] = a
        /\ c <= Len(ts) /\ ts[c] # Close /\ a.is = "expr" => EndAlike(P[<<"args", c>>], r)
    BY <2>1 DEF EndAlike, Parsed
  <2> QED BY <2>2 DEF ArgsEndAt, a, r
<1> QED BY <1>2, <1>3 DEF P

\* What is read at c ends behind c and inside of the text.
LEMMA ParserFits ==
  ASSUME NEW ts, Len(ts) \in Nat
  PROVE  \A w \in Wanted : \A c \in 1 .. Len(ts) + 1 : Fits(Parser(ts)[<<w, c>>], c, Len(ts) + 1)
<1> DEFINE P == Parser(ts)
           L == Len(ts) + 1
           S == {c \in 1 .. L : \A w \in Wanted : Fits(P[<<w, c>>], c, L)}
<1>1. ASSUME NEW c \in 1 .. L, \A d \in c + 1 .. L : d \in S PROVE c \in S
  <2>1. P[<<"expr", c>>] = ParseExpr(P, ts, c) /\ P[<<"args", c>>] = ParseArgs(P, ts, c)
    <3>1. "expr" \in Wanted /\ "args" \in Wanted /\ "expr" # "args"
      BY DEF Wanted
    <3> QED BY <3>1, ParserIs DEF ParseStep
  <2> HIDE DEF P
  <2>2. SameFrom(P, P, ts, c + 1) /\ FitFrom(P, ts, c + 1)
    BY <1>1 DEF SameFrom, FitFrom
  <2>3. Fits(P[<<"expr", c>>], c, Len(ts) + 1)
    BY <2>1, <2>2, ExprStep
  <2>4. Fits(P[<<"args", c>>], c, Len(ts) + 1)
    BY <2>1, <2>2, <2>3, ArgsStep
  <2> QED BY <2>3, <2>4 DEF Wanted
<1>2. \A c \in 1 .. L : c \in S
  <2>1. L \in Nat
    OBVIOUS
  <2> HIDE DEF S, L
  <2> QED BY <1>1, <2>1, InductionFromAbove
<1> QED BY <1>2

-----------------------------------------------------------------------------
(* The tokens of any text.                                                 *)

\* The first place in S is the one before which there is none.
LEMMA FirstInAt ==
  ASSUME NEW S, NEW in, Len(in) \in Nat, NEW i \in 1 .. Len(in) + 1, NEW m \in i .. Len(in) + 1,
         \A j \in i .. m - 1 : in[j] \notin S, m <= Len(in) => in[m] \in S
  PROVE  FirstIn(S, in, i) = m
<1> DEFINE q == FirstIn(S, in, i)
<1>1. q \in i .. Len(in) + 1 /\ (\A j \in i .. q - 1 : in[j] \notin S) /\ (q <= Len(in) => in[q] \in S)
  BY FirstInIs
<1> HIDE DEF q
<1>2. i \in Nat /\ m \in Nat /\ q \in Nat
  BY <1>1
<1>3. ~ (q < m)
  <2> SUFFICES ASSUME q < m PROVE FALSE
    OBVIOUS
  <2>1. q \in i .. m - 1 /\ q <= Len(in)
    BY <1>1, <1>2
  <2> QED BY <1>1, <2>1
<1>4. ~ (m < q)
  <2> SUFFICES ASSUME m < q PROVE FALSE
    OBVIOUS
  <2>1. m \in i .. q - 1 /\ m <= Len(in)
    BY <1>1, <1>2
  <2> QED BY <1>1, <2>1
<1> QED BY <1>2, <1>3, <1>4 DEF q

\* The same of the first place that is no blank
LEMMA NotBlankAt ==
  ASSUME NEW in, Len(in) \in Nat, NEW i \in 1 .. Len(in) + 1, NEW m \in i .. Len(in) + 1,
         \A j \in i .. m - 1 : in[j] = Blank, m <= Len(in) => in[m] # Blank
  PROVE  NotBlank(in, i) = m
<1> DEFINE q == NotBlank(in, i)
<1>1. q \in i .. Len(in) + 1 /\ (\A j \in i .. q - 1 : in[j] = Blank) /\ (q <= Len(in) => in[q] # Blank)
  BY NotBlankIs
<1> HIDE DEF q
<1>2. i \in Nat /\ m \in Nat /\ q \in Nat
  BY <1>1
<1>3. ~ (q < m)
  <2> SUFFICES ASSUME q < m PROVE FALSE
    OBVIOUS
  <2>1. q \in i .. m - 1 /\ q <= Len(in)
    BY <1>1, <1>2
  <2> QED BY <1>1, <2>1
<1>4. ~ (m < q)
  <2> SUFFICES ASSUME m < q PROVE FALSE
    OBVIOUS
  <2>1. m \in i .. q - 1 /\ m <= Len(in)
    BY <1>1, <1>2
  <2> QED BY <1>1, <2>1
<1> QED BY <1>2, <1>3, <1>4 DEF q

\* The token that begins at i ends before j.
TokenAt(in, i, j) ==
  \/ i < j /\ in[i] \in Parens /\ j = i + 1
  \/ i + 1 < j /\ in[i] = Quote /\ in[j - 1] = Quote /\ \A k \in i + 1 .. j - 2 : in[k] # Quote
  \/ /\ i <= Len(in) => in[i] \notin Parens \cup {Quote}
     /\ \A k \in i .. j - 1 : in[k] \notin Parens \cup {Blank}
     /\ j = Len(in) + 1 \/ in[j] \in Parens \cup {Blank}

\* And TokenEnd finds that.
LEMMA TokenEndAt ==
  ASSUME NEW in, Len(in) \in Nat, NEW i \in 1 .. Len(in) + 1, NEW j \in i .. Len(in) + 1, TokenAt(in, i, j)
  PROVE  TokenEnd(in, i) = j
<1>0. i \in Nat /\ j \in Nat
  OBVIOUS
<1>q. Quote \notin Parens
  BY DEF Quote, Parens
<1>1. CASE i < j /\ in[i] \in Parens /\ j = i + 1
  BY <1>0, <1>1 DEF TokenEnd
<1>2. CASE i + 1 < j /\ in[i] = Quote /\ in[j - 1] = Quote /\ \A k \in i + 1 .. j - 2 : in[k] # Quote
  <2>1. i + 1 \in 1 .. Len(in) + 1 /\ j - 1 \in i + 1 .. Len(in) + 1 /\ j - 1 - 1 = j - 2 /\ ~ (i > Len(in))
    BY <1>0, <1>2
  <2>2. FirstIn({Quote}, in, i + 1) = j - 1
    <3>1. \A k \in i + 1 .. j - 1 - 1 : in[k] \notin {Quote}
      BY <1>2, <2>1
    <3>2. in[j - 1] \in {Quote}
      BY <1>2
    <3> QED BY <2>1, <3>1, <3>2, FirstInAt
  <2>3. TokenEnd(in, i) = FirstIn({Quote}, in, i + 1) + 1
    BY <1>2, <1>q, <2>1 DEF TokenEnd
  <2> QED BY <1>0, <2>2, <2>3
<1>3. CASE /\ i <= Len(in) => in[i] \notin Parens \cup {Quote}
           /\ \A k \in i .. j - 1 : in[k] \notin Parens \cup {Blank}
           /\ j = Len(in) + 1 \/ in[j] \in Parens \cup {Blank}
  <2>1. CASE i > Len(in)
    BY <1>0, <2>1 DEF TokenEnd
  <2>2. CASE i <= Len(in)
    <3>1. TokenEnd(in, i) = FirstIn(Parens \cup {Blank}, in, i)
      BY <1>0, <1>3, <2>2 DEF TokenEnd
    <3>2. j <= Len(in) => in[j] \in Parens \cup {Blank}
      BY <1>0, <1>3
    <3>3. FirstIn(Parens \cup {Blank}, in, i) = j
      BY <1>3, <3>2, FirstInAt
    <3> QED BY <3>1, <3>3
  <2> QED BY <1>0, <2>1, <2>2
<1> QED BY <1>1, <1>2, <1>3 DEF TokenAt

\* A string without an end
LEMMA NoTokenAt ==
  ASSUME NEW in, Len(in) \in Nat, NEW i \in 1 .. Len(in), in[i] = Quote,
         \A k \in i + 1 .. Len(in) : in[k] # Quote
  PROVE  TokenEnd(in, i) = Len(in) + 2
<1>1. i + 1 \in 1 .. Len(in) + 1 /\ Len(in) + 1 \in i + 1 .. Len(in) + 1 /\ Len(in) + 1 - 1 = Len(in)
      /\ ~ (i > Len(in)) /\ ~ (Len(in) + 1 <= Len(in)) /\ Len(in) + 1 + 1 = Len(in) + 2
  OBVIOUS
<1>2. \A k \in i + 1 .. Len(in) + 1 - 1 : in[k] \notin {Quote}
  BY <1>1
<1>3. FirstIn({Quote}, in, i + 1) = Len(in) + 1
  <2> DEFINE j == i + 1
             m == Len(in) + 1
  <2>1. j \in 1 .. Len(in) + 1 /\ m \in j .. Len(in) + 1 /\ (\A k \in j .. m - 1 : in[k] \notin {Quote})
        /\ (m <= Len(in) => in[m] \in {Quote})
    BY <1>1, <1>2
  <2> HIDE DEF j, m
  <2>2. FirstIn({Quote}, in, j) = m
    BY <2>1, FirstInAt
  <2> QED BY <2>2 DEF j, m
<1>4. Quote \notin Parens
  BY DEF Quote, Parens
<1> QED BY <1>1, <1>3, <1>4 DEF TokenEnd

\* n tokens of a text, from F[k] up to E[k], each at the place behind the one before
Cut(in, n, F, E) ==
  \A k \in 1 .. n :
    /\ F[k] \in 1 .. Len(in) + 1 /\ TokenEnd(in, F[k]) = E[k]
    /\ k < n => E[k] <= Len(in) /\ NotBlank(in, E[k]) = F[k + 1]

\* If the last one ends with the text, these are its tokens.
LEMMA CutTokens ==
  ASSUME NEW in, Len(in) \in Nat, NEW n \in Nat, NEW F, NEW E, Cut(in, n, F, E), 1 <= n, E[n] = Len(in) + 1
  PROVE  TokensFrom(in)[F[1]] = [k \in 1 .. n |-> SubSeq(in, F[k], E[k] - 1)]
<1> DEFINE P == [k \in 1 .. n |-> SubSeq(in, F[k], E[k] - 1)]
           T == TokensFrom(in)
           S == {m \in 1 .. n : T[F[m]] = Behind(P, n, m - 1)}
<1>0. T = [i \in 1 .. Len(in) + 1 |-> TokenStep(in, T, i)]
  BY TokensFromIs
<1> HIDE DEF T
<1>p. \A k \in 1 .. n : P[k] = SubSeq(in, F[k], E[k] - 1)
  OBVIOUS
<1>q. P = [k \in 1 .. n |-> P[k]]
  OBVIOUS
<1> HIDE DEF P
<1>1. ASSUME NEW m \in 1 .. n, \A k \in m + 1 .. n : k \in S PROVE m \in S
  <2>0. F[m] \in 1 .. Len(in) + 1 /\ TokenEnd(in, F[m]) = E[m]
    BY DEF Cut
  <2>1. T[F[m]] = TokenStep(in, T, F[m])
    BY <1>0, <2>0
  <2>2. <<P[m]>> \o Behind(P, n, m) = Behind(P, n, m - 1)
    BY BehindIs
  <2>3. CASE m = n
    <3>1. TokenStep(in, T, F[m]) = <<P[m]>>
      <4>1. TokenEnd(in, F[m]) = Len(in) + 1 /\ ~ (TokenEnd(in, F[m]) > Len(in) + 1)
        BY <2>0, <2>3
      <4>2. TokenStep(in, T, F[m]) = <<SubSeq(in, F[m], TokenEnd(in, F[m]) - 1)>>
        BY <4>1 DEF TokenStep
      <4>3. P[m] = SubSeq(in, F[m], E[m] - 1)
        BY <1>p
      <4> QED BY <2>0, <4>2, <4>3
    <3>2. Behind(P, n, m) = <<>>
      <4>1. 1 .. n - m = {}
        BY <2>3
      <4> QED BY <4>1 DEF Behind
    <3>3. <<P[m]>> \o <<>> = <<P[m]>>
      OBVIOUS
    <3> QED BY <2>1, <2>2, <3>1, <3>2, <3>3
  <2>4. CASE m # n
    <3>1. m < n /\ m + 1 \in m + 1 .. n /\ m + 1 - 1 = m /\ n - m \in Nat /\ 1 <= n - m
      BY <2>4
    <3>2. E[m] <= Len(in) /\ NotBlank(in, E[m]) = F[m + 1]
      BY <3>1 DEF Cut
    <3>3. T[F[m + 1]] = Behind(P, n, m)
      BY <1>1, <3>1
    <3>4. Behind(P, n, m) # NoTokens
      <4>1. DOMAIN Behind(P, n, m) = 1 .. n - m
        BY DEF Behind
      <4>2. 1 \in 1 .. n - m
        BY <3>1
      <4>3. DOMAIN NoTokens = {}
        BY DEF NoTokens
      <4> QED BY <4>1, <4>2, <4>3
    <3>5. E[m] \in Nat /\ ~ (E[m] > Len(in) + 1) /\ E[m] # Len(in) + 1
      <4>1. TokenEnd(in, F[m]) \in Nat
        BY <2>0, NextIsFurther
      <4> QED BY <2>0, <3>2, <4>1
    <3>6. TokenStep(in, T, F[m]) = <<P[m]>> \o Behind(P, n, m)
      BY <1>p, <2>0, <3>2, <3>3, <3>4, <3>5 DEF TokenStep
    <3> QED BY <2>1, <2>2, <3>6
  <2> QED BY <2>3, <2>4
<1>2. \A m \in 1 .. n : m \in S
  <2> HIDE DEF S
  <2> QED BY <1>1, InductionFromAbove
<1>3. T[F[1]] = Behind(P, n, 1 - 1)
  BY <1>2
<1>4. Behind(P, n, 1 - 1) = P
  BY <1>q DEF Behind
<1> QED BY <1>3, <1>4 DEF T, P

\* If the last one does not end, it has none.
LEMMA CutFails ==
  ASSUME NEW in, Len(in) \in Nat, NEW n \in Nat, NEW F, NEW E, Cut(in, n, F, E), 1 <= n, E[n] = Len(in) + 2
  PROVE  TokensFrom(in)[F[1]] = NoTokens
<1> DEFINE T == TokensFrom(in)
           S == {m \in 1 .. n : T[F[m]] = NoTokens}
<1>0. T = [i \in 1 .. Len(in) + 1 |-> TokenStep(in, T, i)]
  BY TokensFromIs
<1> HIDE DEF T
<1>1. ASSUME NEW m \in 1 .. n, \A k \in m + 1 .. n : k \in S PROVE m \in S
  <2>0. F[m] \in 1 .. Len(in) + 1 /\ TokenEnd(in, F[m]) = E[m]
    BY DEF Cut
  <2>1. T[F[m]] = TokenStep(in, T, F[m])
    BY <1>0, <2>0
  <2>2. CASE m = n
    <3>1. E[m] > Len(in) + 1
      BY <2>2
    <3> QED BY <2>0, <2>1, <3>1 DEF TokenStep
  <2>3. CASE m # n
    <3>1. m < n /\ m + 1 \in m + 1 .. n
      BY <2>3
    <3>2. E[m] <= Len(in) /\ NotBlank(in, E[m]) = F[m + 1]
      BY <3>1 DEF Cut
    <3>3. T[F[m + 1]] = NoTokens
      BY <1>1, <3>1
    <3>5. E[m] \in Nat /\ ~ (E[m] > Len(in) + 1) /\ E[m] # Len(in) + 1
      <4>1. TokenEnd(in, F[m]) \in Nat
        BY <2>0, NextIsFurther
      <4> QED BY <2>0, <3>2, <4>1
    <3> QED BY <2>0, <2>1, <3>2, <3>3, <3>5 DEF TokenStep
  <2> QED BY <2>2, <2>3
<1>2. \A m \in 1 .. n : m \in S
  <2> HIDE DEF S
  <2> QED BY <1>1, InductionFromAbove
<1> QED BY <1>2 DEF T

-----------------------------------------------------------------------------
(* A blank at the end of a text.                                           *)

\* out is in and a blank.
Longer(in, out) ==
  /\ Len(in) \in Nat /\ Len(out) = Len(in) + 1 /\ out[Len(in) + 1] = Blank
  /\ \A k \in 1 .. Len(in) : out[k] = in[k]
  /\ \A i, j \in 1 .. Len(in) + 1 : SubSeq(out, i, j - 1) = SubSeq(in, i, j - 1)

\* Append puts it there.
LEMMA AppendIsLonger ==
  ASSUME NEW S, NEW in \in Seq(S), Blank \in S
  PROVE  Longer(in, Append(in, Blank))
<1> DEFINE out == Append(in, Blank)
           b   == Blank
<1>1. b \in S /\ out = Append(in, b)
  OBVIOUS
<1> HIDE DEF out, b
<1>2. /\ Len(in) \in Nat /\ Len(out) = Len(in) + 1 /\ out[Len(in) + 1] = b
      /\ \A k \in 1 .. Len(in) : out[k] = in[k]
      /\ out \in Seq(S)
  BY <1>1
<1>3. ASSUME NEW i \in 1 .. Len(in) + 1, NEW j \in 1 .. Len(in) + 1
      PROVE  SubSeq(out, i, j - 1) = SubSeq(in, i, j - 1)
  <2>1. SubSeq(out, i, j - 1) = [k \in 1 .. j - 1 - i + 1 |-> out[i + k - 1]]
    BY <1>2
  <2>2. SubSeq(in, i, j - 1) = [k \in 1 .. j - 1 - i + 1 |-> in[i + k - 1]]
    BY <1>2
  <2>3. \A k \in 1 .. j - 1 - i + 1 : i + k - 1 \in 1 .. Len(in)
    BY <1>2
  <2> QED BY <1>2, <2>1, <2>2, <2>3
<1> QED BY <1>2, <1>3 DEF Longer, out, b

\* No token but a string without an end is changed by it ...
LEMMA TokenEndsAlike ==
  ASSUME NEW in, NEW out, Longer(in, out), NEW i \in 1 .. Len(in) + 1
  PROVE  /\ TokenEnd(in, i) \in i .. Len(in) + 2
         /\ TokenEnd(in, i) <= Len(in) + 1 => TokenEnd(out, i) = TokenEnd(in, i)
         /\ TokenEnd(in, i) > Len(in) + 1 => TokenEnd(out, i) = Len(out) + 2
<1> DEFINE L == Len(in)
<1>1. L \in Nat /\ Len(out) = L + 1 /\ out[L + 1] = Blank /\ (\A k \in 1 .. L : out[k] = in[k])
      /\ i \in Nat /\ i \in 1 .. L + 1 /\ i \in 1 .. Len(out) + 1
  BY DEF Longer
<1>b. Blank \notin Parens /\ Blank # Quote /\ Quote \notin Parens
  <2>1. Blank \notin Parens
    BY DEF Blank, Parens
  <2>2. Blank # Quote
    BY DEF Blank, Quote
  <2>3. Quote \notin Parens
    BY DEF Quote, Parens
  <2> QED BY <2>1, <2>2, <2>3
<1>2. CASE i = L + 1
  <2>1. TokenEnd(in, i) = i
    BY <1>1, <1>2 DEF TokenEnd
  <2>2. TokenAt(out, i, i)
    <3>1. \A k \in i .. i - 1 : FALSE
      BY <1>1
    <3> QED BY <1>1, <1>2, <1>b, <3>1 DEF TokenAt
  <2>3. i \in 1 .. Len(out) + 1 /\ i \in i .. Len(out) + 1 /\ Len(out) \in Nat
    BY <1>1
  <2>4. TokenEnd(out, i) = i
    BY <2>2, <2>3, TokenEndAt
  <2> QED BY <1>1, <1>2, <2>1, <2>4
<1>3. CASE i \in 1 .. L /\ in[i] \in Parens
  <2>1. TokenEnd(in, i) = i + 1
    BY <1>1, <1>3 DEF TokenEnd
  <2>2. TokenEnd(out, i) = i + 1
    BY <1>1, <1>3 DEF TokenEnd
  <2> QED BY <1>1, <1>3, <2>1, <2>2
<1>4. CASE i \in 1 .. L /\ in[i] \notin Parens /\ in[i] = Quote
  <2> DEFINE j == i + 1
             q == FirstIn({Quote}, in, j)
  <2>0. j \in 1 .. L + 1 /\ j \in Nat /\ j = i + 1
    BY <1>1, <1>4
  <2> HIDE DEF j
  <2>1. q \in j .. L + 1 /\ (\A k \in j .. q - 1 : in[k] \notin {Quote}) /\ (q <= L => in[q] \in {Quote})
    BY <1>1, <2>0, FirstInIs
  <2>2. TokenEnd(in, i) = q + 1 /\ TokenEnd(out, i) = FirstIn({Quote}, out, j) + 1
    BY <1>1, <1>4, <2>0 DEF TokenEnd
  <2> HIDE DEF q
  <2>3. CASE q <= L
    <3>1. q \in j .. Len(out) + 1 /\ (\A k \in j .. q - 1 : out[k] \notin {Quote}) /\ out[q] \in {Quote}
      <4>1. q \in 1 .. L /\ \A k \in j .. q - 1 : k \in 1 .. L
        BY <1>1, <2>0, <2>1, <2>3
      <4> QED BY <1>1, <2>1, <2>3, <4>1
    <3>2. j \in 1 .. Len(out) + 1 /\ Len(out) \in Nat
      BY <1>1, <2>0
    <3>3. FirstIn({Quote}, out, j) = q
      BY <3>1, <3>2, FirstInAt
    <3> QED BY <1>1, <2>0, <2>1, <2>2, <2>3, <3>3
  <2>4. CASE q = L + 1
    <3> DEFINE m == L + 2
    <3>1. m \in j .. Len(out) + 1 /\ (\A k \in j .. m - 1 : out[k] \notin {Quote}) /\ ~(m <= Len(out))
      <4>1. \A k \in j .. m - 1 : k = L + 1 \/ (k \in 1 .. L /\ k \in j .. q - 1)
        BY <1>1, <2>0, <2>1, <2>4
      <4>2. m \in j .. Len(out) + 1 /\ ~(m <= Len(out))
        BY <1>1, <2>0
      <4> QED BY <1>1, <1>b, <2>1, <4>1, <4>2
    <3>2. j \in 1 .. Len(out) + 1 /\ Len(out) \in Nat /\ m + 1 = Len(out) + 2
      BY <1>1, <2>0
    <3> HIDE DEF m
    <3>3. FirstIn({Quote}, out, j) = m
      BY <3>1, <3>2, FirstInAt
    <3> QED BY <1>1, <2>0, <2>1, <2>2, <2>4, <3>2, <3>3
  <2> QED BY <1>1, <2>1, <2>3, <2>4
<1>5. CASE i \in 1 .. L /\ in[i] \notin Parens /\ in[i] # Quote
  <2> DEFINE S == Parens \cup {Blank}
             q == FirstIn(S, in, i)
  <2>b. Blank \in S
    OBVIOUS
  <2>2. TokenEnd(in, i) = q /\ TokenEnd(out, i) = FirstIn(S, out, i)
    BY <1>1, <1>5 DEF TokenEnd
  <2> HIDE DEF S
  <2>1. q \in i .. L + 1 /\ (\A k \in i .. q - 1 : in[k] \notin S) /\ (q <= L => in[q] \in S)
    BY <1>1, <1>5, FirstInIs
  <2> HIDE DEF q
  <2>3. q \in i .. Len(out) + 1 /\ (\A k \in i .. q - 1 : out[k] \notin S) /\ out[q] \in S
    <3>1. (\A k \in i .. q - 1 : k \in 1 .. L) /\ (q = L + 1 \/ (q \in 1 .. L /\ q <= L))
      BY <1>1, <2>1
    <3>2. q \in i .. Len(out) + 1
      BY <1>1, <2>1
    <3> QED BY <1>1, <2>b, <2>1, <3>1, <3>2
  <2>4. Len(out) \in Nat
    BY <1>1
  <2>5. FirstIn(S, out, i) = q
    BY <1>1, <2>3, <2>4, FirstInAt
  <2> QED BY <1>1, <2>1, <2>2, <2>5
<1> QED BY <1>1, <1>2, <1>3, <1>4, <1>5

\* ... and nor are the places where the others begin.
LEMMA BlanksEndAlike ==
  ASSUME NEW in, NEW out, Longer(in, out), NEW i \in 1 .. Len(in) + 1
  PROVE  /\ NotBlank(in, i) \in i .. Len(in) + 1
         /\ NotBlank(in, i) <= Len(in) => NotBlank(out, i) = NotBlank(in, i)
         /\ NotBlank(in, i) = Len(in) + 1 => NotBlank(out, i) = Len(in) + 2
<1> DEFINE L == Len(in)
           q == NotBlank(in, i)
<1>1. L \in Nat /\ Len(out) = L + 1 /\ out[L + 1] = Blank /\ (\A k \in 1 .. L : out[k] = in[k])
      /\ i \in Nat /\ i \in 1 .. L + 1 /\ i \in 1 .. Len(out) + 1 /\ Len(out) \in Nat
  BY DEF Longer
<1>2. q \in i .. L + 1 /\ (\A k \in i .. q - 1 : in[k] = Blank) /\ (q <= L => in[q] # Blank)
  BY <1>1, NotBlankIs
<1> HIDE DEF q
<1>3. ASSUME q <= L PROVE NotBlank(out, i) = q
  <2>1. q \in 1 .. L /\ q \in i .. Len(out) + 1 /\ \A k \in i .. q - 1 : k \in 1 .. L
    BY <1>1, <1>2, <1>3
  <2>2. (\A k \in i .. q - 1 : out[k] = Blank) /\ out[q] # Blank
    BY <1>1, <1>2, <1>3, <2>1
  <2> QED BY <1>1, <2>1, <2>2, NotBlankAt
<1>4. ASSUME q = L + 1 PROVE NotBlank(out, i) = L + 2
  <2> DEFINE m == L + 2
  <2>1. m \in i .. Len(out) + 1 /\ ~(m <= Len(out)) /\ \A k \in i .. m - 1 : k = L + 1 \/ (k \in 1 .. L /\ k \in i .. q - 1)
    BY <1>1, <1>2, <1>4
  <2>2. \A k \in i .. m - 1 : out[k] = Blank
    BY <1>1, <1>2, <2>1
  <2> HIDE DEF m
  <2>3. NotBlank(out, i) = m
    BY <1>1, <2>1, <2>2, NotBlankAt
  <2> QED BY <2>3 DEF m
<1> QED BY <1>2, <1>3, <1>4 DEF q

\* The tokens of the text with a blank at its end are the same, or these and an
\* empty one.
MoreTokens(V, ts, us) ==
  \/ ts = NoTokens /\ us = NoTokens
  \/ ts \in Seq(V) /\ ts # NoTokens /\ us # NoTokens /\ (us = ts \/ us = ts \o <<Empty>>)

\* So it is behind one token more.
LEMMA MoreTokensBehind ==
  ASSUME NEW V, NEW t \in V, Empty \in V
  PROVE  /\ MoreTokens(V, <<t>>, <<t>> \o <<Empty>>)
         /\ \A ts, us : MoreTokens(V, ts, us) /\ ts # NoTokens => MoreTokens(V, <<t>> \o ts, <<t>> \o us)
<1> DEFINE z == Empty
<1>1. z \in V /\ NoTokens = <<>>
  BY DEF NoTokens
<1> HIDE DEF z
<1>2. /\ <<t>> \in Seq(V) /\ <<t>> # <<>> /\ <<t>> \o <<z>> # <<>>
  BY <1>1
<1>3. ASSUME NEW ts \in Seq(V), NEW us, us = ts \/ us = ts \o <<z>>
      PROVE  /\ <<t>> \o ts \in Seq(V) /\ <<t>> \o ts # <<>> /\ <<t>> \o us # <<>>
             /\ <<t>> \o us = <<t>> \o ts \/ <<t>> \o us = (<<t>> \o ts) \o <<z>>
  <2>1. <<t>> \o ts \in Seq(V) /\ <<t>> \o ts # <<>>
    BY <1>1
  <2>2. CASE us = ts
    BY <2>1, <2>2
  <2>3. CASE us = ts \o <<z>>
    <3>1. <<z>> \in Seq(V) /\ <<t>> \in Seq(V)
      BY <1>1
    <3>2. <<t>> \o (ts \o <<z>>) = (<<t>> \o ts) \o <<z>>
      BY <3>1
    <3>3. (<<t>> \o ts) \o <<z>> # <<>>
      BY <2>1, <3>1
    <3> QED BY <2>1, <2>3, <3>2, <3>3
  <2> QED BY <1>3, <2>2, <2>3
<1> QED BY <1>1, <1>2, <1>3 DEF MoreTokens, z

\* One token, from those behind it
LEMMA MoreTokensStep ==
  ASSUME NEW S, NEW in \in Seq(S), NEW out, Longer(in, out), NEW T, NEW U, NEW i \in 1 .. Len(in) + 1,
         \A j \in 1 .. Len(in) + 1 : T[j] = TokenStep(in, T, j),
         \A j \in 1 .. Len(in) + 2 : U[j] = TokenStep(out, U, j),
         \A j \in i + 1 .. Len(in) + 1 : MoreTokens(Seq(S), T[j], U[j])
  PROVE  MoreTokens(Seq(S), T[i], U[i])
<1> DEFINE L == Len(in)
           e == TokenEnd(in, i)
           t == SubSeq(in, i, e - 1)
           V == Seq(S)
<1>1. L \in Nat /\ Len(out) = L + 1
  BY DEF Longer
<1>2. T[i] = TokenStep(in, T, i) /\ U[i] = TokenStep(out, U, i)
  BY <1>1
<1>3. e \in i .. L + 2 /\ (e <= L + 1 => TokenEnd(out, i) = e) /\ (e > L + 1 => TokenEnd(out, i) = Len(out) + 2)
  BY TokenEndsAlike
<1>e. Empty \in V
  BY DEF Empty
<1>4. CASE e > L + 1
  <2>1. T[i] = NoTokens
    BY <1>2, <1>4 DEF TokenStep
  <2>2. Len(out) + 2 > Len(out) + 1
    BY <1>1
  <2>3. U[i] = NoTokens
    BY <1>2, <1>3, <1>4, <2>2 DEF TokenStep
  <2> QED BY <2>1, <2>3 DEF MoreTokens
<1>5. ASSUME e <= L + 1 PROVE t \in V /\ SubSeq(out, i, e - 1) = t /\ e \in 1 .. L + 1
  <2>1. e \in 1 .. L + 1 /\ e - 1 \in i - 1 .. L
    BY <1>1, <1>3, <1>5
  <2>2. SubSeq(out, i, e - 1) = t
    BY <2>1 DEF Longer
  <2> HIDE DEF e
  <2>3. t \in V
    BY <1>1, <2>1
  <2> QED BY <2>1, <2>2, <2>3
\* Behind the text, and behind the blank
<1>6. U[L + 2] = <<Empty>>
  <2> DEFINE m == L + 2
  <2>0. m \in Nat /\ m = Len(out) + 1 /\ m \in 1 .. L + 2 /\ m > Len(out)
    BY <1>1
  <2>1. U[m] = TokenStep(out, U, m)
    BY <2>0
  <2> HIDE DEF m
  <2>2. TokenEnd(out, m) = m
    BY <2>0 DEF TokenEnd
  <2>3. SubSeq(out, m, m - 1) = Empty
    BY <2>0 DEF Empty
  <2>4. U[m] = <<SubSeq(out, m, m - 1)>>
    BY <1>1, <2>0, <2>1, <2>2 DEF TokenStep
  <2> QED BY <2>3, <2>4 DEF m
<1>7. T[L + 1] = <<Empty>>
  <2> DEFINE m == L + 1
  <2>0. m \in Nat /\ m = L + 1 /\ m \in 1 .. L + 1 /\ m > L
    BY <1>1
  <2>1. T[m] = TokenStep(in, T, m)
    BY <2>0
  <2> HIDE DEF m
  <2>2. TokenEnd(in, m) = m
    BY <2>0 DEF TokenEnd
  <2>3. SubSeq(in, m, m - 1) = Empty
    BY <2>0 DEF Empty
  <2>4. T[m] = <<SubSeq(in, m, m - 1)>>
    BY <1>1, <2>0, <2>1, <2>2 DEF TokenStep
  <2> QED BY <2>3, <2>4 DEF m
<1>8. <<Empty>> # NoTokens
  BY DEF NoTokens
<1> HIDE DEF V, t
<1>m. /\ t \in V => MoreTokens(V, <<t>>, <<t>> \o <<Empty>>)
      /\ \A ts, us : t \in V /\ MoreTokens(V, ts, us) /\ ts # NoTokens => MoreTokens(V, <<t>> \o ts, <<t>> \o us)
  BY <1>e, MoreTokensBehind
\* The last token
<1>9. CASE e = L + 1
  <2>1. e <= L + 1 /\ ~(e > L + 1)
    BY <1>1, <1>9
  <2>2. T[i] = <<t>>
    BY <1>2, <1>9, <2>1 DEF TokenStep, t
  <2>3. NotBlank(out, L + 1) = L + 2
    <3>1. L + 1 \in 1 .. Len(in) + 1
      BY <1>1
    <3>2. NotBlank(in, L + 1) \in L + 1 .. L + 1
      BY <3>1, BlanksEndAlike
    <3>3. NotBlank(in, L + 1) = L + 1
      BY <1>1, <3>2
    <3> QED BY <3>1, <3>3, BlanksEndAlike
  <2>4. ~(e > Len(out) + 1) /\ e # Len(out) + 1
    BY <1>1, <1>9
  <2>5. U[i] = <<t>> \o <<Empty>>
    <3>1. TokenEnd(out, i) = e /\ NotBlank(out, e) = L + 2
      BY <1>3, <1>9, <2>1, <2>3
    <3>2. SubSeq(out, i, e - 1) = t
      BY <1>5, <2>1
    <3> HIDE DEF e
    <3> QED BY <1>2, <1>6, <1>8, <2>4, <3>1, <3>2 DEF TokenStep
  <2> QED BY <1>5, <1>m, <2>1, <2>2, <2>5 DEF V
\* A token before others
<1>10. CASE e <= L
  <2> DEFINE m == NotBlank(in, e)
  <2>1. e <= L + 1 /\ ~(e > L + 1) /\ e # L + 1 /\ ~(e > Len(out) + 1) /\ e # Len(out) + 1
    BY <1>1, <1>3, <1>10
  <2>2. m \in i + 1 .. L + 1
    BY <1>1, <1>10, NextIsFurther
  <2>3. /\ m <= L => NotBlank(out, e) = m
        /\ m = L + 1 => NotBlank(out, e) = L + 2
    <3>1. e \in 1 .. L + 1
      BY <1>5, <2>1
    <3> QED BY <3>1, BlanksEndAlike
  <2>4. SubSeq(out, i, e - 1) = t /\ t \in V
    BY <1>5, <2>1
  <2>5. T[i] = IF T[m] = NoTokens THEN NoTokens ELSE <<t>> \o T[m]
    BY <1>2, <2>1 DEF TokenStep, t
  <2> HIDE DEF m
  <2>6. CASE m <= L
    <3>1. MoreTokens(V, T[m], U[m])
      BY <2>2 DEF V
    <3>2. U[i] = IF U[m] = NoTokens THEN NoTokens ELSE <<t>> \o U[m]
      <4>1. TokenEnd(out, i) = e /\ NotBlank(out, e) = m
        BY <1>3, <2>1, <2>3, <2>6
      <4> HIDE DEF e
      <4> QED BY <1>2, <2>1, <2>4, <4>1 DEF TokenStep
    <3>3. CASE T[m] = NoTokens
      <4>1. U[m] = NoTokens
        BY <3>1, <3>3 DEF MoreTokens
      <4> QED BY <2>5, <3>2, <3>3, <4>1 DEF MoreTokens
    <3>4. CASE T[m] # NoTokens
      <4>1. U[m] # NoTokens
        BY <3>1, <3>4 DEF MoreTokens
      <4>2. MoreTokens(V, <<t>> \o T[m], <<t>> \o U[m])
        BY <1>m, <2>4, <3>1, <3>4
      <4> QED BY <2>5, <3>2, <3>4, <4>1, <4>2 DEF V
    <3> QED BY <3>3, <3>4
  <2>7. CASE m = L + 1
    <3>1. T[i] = <<t>> \o <<Empty>>
      BY <1>7, <1>8, <2>5, <2>7
    <3>2. U[i] = <<t>> \o <<Empty>>
      <4>1. TokenEnd(out, i) = e /\ NotBlank(out, e) = L + 2
        BY <1>3, <2>1, <2>3, <2>7
      <4> HIDE DEF e
      <4> QED BY <1>2, <1>6, <1>8, <2>1, <2>4, <4>1 DEF TokenStep
    <3>3. MoreTokens(V, <<Empty>>, <<Empty>>)
      <4>1. <<Empty>> \in Seq(V)
        BY <1>e
      <4> QED BY <1>8, <4>1 DEF MoreTokens
    <3>4. MoreTokens(V, <<t>> \o <<Empty>>, <<t>> \o <<Empty>>)
      BY <1>8, <1>m, <2>4, <3>3
    <3> QED BY <3>1, <3>2, <3>4 DEF V
  <2>8. m <= L \/ m = L + 1
    BY <1>1, <2>2
  <2> QED BY <2>6, <2>7, <2>8
<1>11. e > L + 1 \/ e = L + 1 \/ e <= L
  BY <1>1, <1>3
<1> QED BY <1>4, <1>9, <1>10, <1>11

\* A blank at the end of a text
LEMMA BlankAtEnd ==
  ASSUME NEW S, NEW in \in Seq(S), NEW out, Longer(in, out)
  PROVE  MoreTokens(Seq(S), Tokenize(in), Tokenize(out))
<1> DEFINE T == TokensFrom(in)
           U == TokensFrom(out)
           L == Len(in) + 1
           N == {i \in 1 .. L : MoreTokens(Seq(S), T[i], U[i])}
<1>0. Len(in) \in Nat /\ Len(out) \in Nat /\ Len(out) + 1 = Len(in) + 2
  BY DEF Longer
<1>1. \A j \in 1 .. Len(in) + 1 : T[j] = TokenStep(in, T, j)
  <2>1. T = [j \in 1 .. Len(in) + 1 |-> TokenStep(in, T, j)]
    BY <1>0, TokensFromIs
  <2> HIDE DEF T
  <2> QED BY <2>1
<1>2. \A j \in 1 .. Len(in) + 2 : U[j] = TokenStep(out, U, j)
  <2>1. U = [j \in 1 .. Len(out) + 1 |-> TokenStep(out, U, j)]
    BY <1>0, TokensFromIs
  <2> HIDE DEF U
  <2> QED BY <1>0, <2>1
<1> HIDE DEF T, U
<1>3. ASSUME NEW i \in 1 .. L, \A j \in i + 1 .. L : j \in N PROVE i \in N
  <2>1. \A j \in i + 1 .. Len(in) + 1 : MoreTokens(Seq(S), T[j], U[j])
    BY <1>3
  <2>2. MoreTokens(Seq(S), T[i], U[i])
    BY <1>1, <1>2, <2>1, MoreTokensStep
  <2> QED BY <2>2
<1>4. \A i \in 1 .. L : i \in N
  <2>1. L \in Nat
    BY <1>0
  <2> HIDE DEF N, L
  <2> QED BY <1>3, <2>1, InductionFromAbove
<1>5. 1 \in 1 .. L
  BY <1>0
<1> QED BY <1>4, <1>5 DEF Tokenize, T, U

\* us is ts and an empty token.
OneMore(ts, us) ==
  /\ Len(ts) \in Nat /\ Len(us) = Len(ts) + 1 /\ us[Len(ts) + 1] = Empty
  /\ \A k \in 1 .. Len(ts) : us[k] = ts[k]

\* What is read is the same, and what is refused is refused.
SameReading(x, y) == /\ x.is \in {"expr", "null", "crash"}
                     /\ x.is = "expr" => y = x
                     /\ x.is = "null" => x = Null /\ y = Null

SameReadings(p, q, c) == \A w \in Wanted : SameReading(p[<<w, c>>], q[<<w, c>>])

\* An empty token is neither a parenthesis nor a tick.
LEMMA EmptyIsNothing == Empty # Open /\ Empty # Close /\ Empty # Tick
<1>1. DOMAIN Empty = {} /\ DOMAIN Open = {1} /\ DOMAIN Close = {1} /\ DOMAIN Tick = {1}
  BY DEF Empty, Open, Close, Tick
<1> QED BY <1>1

\* The arguments from the empty token on do not end.
LEMMA NoArgsAtEnd ==
  ASSUME NEW ts, NEW us, OneMore(ts, us)
  PROVE  Parser(us)[<<"args", Len(ts) + 1>>] = Null
<1> DEFINE q == Parser(us)
           n == Len(ts) + 1
           m == n + 1
<1>1. Len(us) \in Nat /\ Len(us) = n /\ n \in Nat /\ n \in 1 .. Len(us) + 1 /\ m \in 1 .. Len(us) + 1
      /\ m > Len(us) /\ n <= Len(us) /\ us[n] = Empty
  BY DEF OneMore
<1> HIDE DEF n
<1>2. ExprEndsAt(q, us, n) /\ ArgsEndAt(q, us, n) /\ ArgsEndAt(q, us, m)
  <2> HIDE DEF m
  <2> QED BY <1>1, ParserEnds
<1> HIDE DEF q
<1>3. q[<<"args", m>>] = Null
  <2> HIDE DEF m
  <2> QED BY <1>1, <1>2 DEF ArgsEndAt
<1>4. q[<<"expr", n>>].is = "expr" /\ q[<<"expr", n>>].curr = m
  BY <1>1, <1>2, EmptyIsNothing DEF ExprEndsAt
<1>5. q[<<"args", n>>].is = "null"
  <2>1. EndAlike(q[<<"args", n>>], q[<<"args", m>>])
    BY <1>1, <1>2, <1>4, EmptyIsNothing DEF ArgsEndAt
  <2> QED BY <1>3, <2>1 DEF EndAlike, Null
<1>6. q[<<"args", n>>] = IF q[<<"args", m>>].is # "expr" THEN q[<<"args", m>>]
                         ELSE Parsed(<<q[<<"expr", n>>].expr>> \o q[<<"args", m>>].expr, q[<<"args", m>>].curr)
  <2>1. q[<<"args", n>>] = ParseArgs(q, us, n)
    <3>1. "args" \in Wanted /\ "args" # "expr"
      BY DEF Wanted
    <3> QED BY <1>1, <3>1, ParserIs DEF ParseStep, q
  <2> HIDE DEF m
  <2> QED BY <1>1, <1>4, <2>1, EmptyIsNothing DEF ParseArgs
<1>7. q[<<"args", m>>].is # "expr"
  BY <1>3 DEF Null
<1>8. q[<<"args", n>>] = Null
  <2> HIDE DEF m
  <2> QED BY <1>3, <1>6, <1>7
<1> QED BY <1>8 DEF q, n

\* One token, from those behind it
LEMMA SameReadingStep ==
  ASSUME NEW ts, NEW us, OneMore(ts, us), NEW p, NEW q, p = Parser(ts), q = Parser(us),
         NEW c \in 1 .. Len(ts) + 1, \A d \in c + 1 .. Len(ts) + 1 : SameReadings(p, q, d)
  PROVE  SameReadings(p, q, c)
<1> DEFINE n == Len(ts)
<1>1. n \in Nat /\ Len(us) = n + 1 /\ us[n + 1] = Empty /\ Len(us) \in Nat
      /\ c \in Nat /\ c \in 1 .. n + 1 /\ c \in 1 .. Len(us) + 1
  BY DEF OneMore
<1>2. /\ p[<<"expr", c>>] = ParseExpr(p, ts, c) /\ p[<<"args", c>>] = ParseArgs(p, ts, c)
      /\ q[<<"expr", c>>] = ParseExpr(q, us, c) /\ q[<<"args", c>>] = ParseArgs(q, us, c)
  <2>1. "expr" \in Wanted /\ "args" \in Wanted /\ "expr" # "args"
    BY DEF Wanted
  <2>2. p[<<"expr", c>>] = ParseStep(p, ts, "expr", c) /\ p[<<"args", c>>] = ParseStep(p, ts, "args", c)
    BY <1>1, <2>1, ParserIs
  <2>3. q[<<"expr", c>>] = ParseStep(q, us, "expr", c) /\ q[<<"args", c>>] = ParseStep(q, us, "args", c)
    BY <1>1, <2>1, ParserIs
  <2> QED BY <2>1, <2>2, <2>3 DEF ParseStep
<1>b. \A d \in c + 1 .. n + 1 : SameReading(p[<<"expr", d>>], q[<<"expr", d>>]) /\ SameReading(p[<<"args", d>>], q[<<"args", d>>])
  BY DEF SameReadings, Wanted
<1>n. Null.is = "null" /\ Crash.is = "crash" /\ (\A e, d : Parsed(e, d).is = "expr" /\ Parsed(e, d).curr = d)
  BY DEF Null, Crash, Parsed
<1>3. CASE c = n + 1
  <2>1. p[<<"expr", c>>] = Crash /\ p[<<"args", c>>] = Null
    BY <1>1, <1>2, <1>3 DEF ParseExpr, ParseArgs
  <2>2. q[<<"args", c>>] = Null
    BY <1>3, NoArgsAtEnd
  <2> QED BY <1>n, <2>1, <2>2 DEF SameReadings, SameReading, Wanted
<1>4. CASE c <= n
  <2>1. us[c] = ts[c] /\ ~(c > n) /\ ~(c > Len(us)) /\ c + 1 \in c + 1 .. n + 1
    BY <1>1, <1>4 DEF OneMore
  <2>2. SameReading(p[<<"expr", c>>], q[<<"expr", c>>])
    <3>1. CASE ts[c] = Open
      <4>0. p[<<"expr", c>>] = ParseFunc(p, ts, c + 1) /\ q[<<"expr", c>>] = ParseFunc(q, us, c + 1)
        BY <1>2, <2>1, <3>1 DEF ParseExpr
      <4> DEFINE d == c + 1
                 f == d + 1
      <4>1. d \in Nat /\ d <= n + 1 /\ d \in 1 .. n + 1 /\ f \in Nat
        BY <1>1, <1>4
      <4>2. CASE d > n
        <5>1. p[<<"expr", c>>] = Null
          BY <4>0, <4>2 DEF ParseFunc
        <5>2. d = n + 1 /\ ~(d > Len(us)) /\ us[d] = Empty
          BY <1>1, <4>1, <4>2
        <5>3. f = n + 2
          BY <1>1, <5>2
        <5>4. q[<<"args", f>>] = Null
          <6>1. f \in 1 .. Len(us) + 1 /\ f > Len(us)
            BY <1>1, <5>3
          <6> HIDE DEF f
          <6>2. ArgsEndAt(q, us, f)
            BY <1>1, <6>1, ParserEnds
          <6> QED BY <6>1, <6>2 DEF ArgsEndAt
        <5>5. q[<<"expr", c>>] = IF q[<<"args", f>>].is # "expr" THEN q[<<"args", f>>]
                                 ELSE Parsed(Func(us[d], q[<<"args", f>>].expr), q[<<"args", f>>].curr)
          BY <4>0, <5>2, EmptyIsNothing DEF ParseFunc
        <5> HIDE DEF d, f
        <5>6. q[<<"expr", c>>] = Null
          BY <1>n, <5>4, <5>5
        <5> QED BY <1>n, <5>1, <5>6 DEF SameReading
      <4>3. CASE d <= n /\ ts[d] = Close
        <5>1. us[d] = Close /\ ~(d > Len(us)) /\ ~(d > n)
          <6>1. d \in 1 .. n
            BY <4>1, <4>3
          <6> QED BY <1>1, <4>1, <4>3, <6>1 DEF OneMore
        <5>2. p[<<"expr", c>>] = Null /\ q[<<"expr", c>>] = Null
          <6> HIDE DEF d
          <6> QED BY <4>0, <4>3, <5>1 DEF ParseFunc, d
        <5> QED BY <1>n, <5>2 DEF SameReading
      <4>4. CASE d <= n /\ ts[d] # Close
        <5>1. us[d] = ts[d] /\ ~(d > Len(us)) /\ ~(d > n) /\ f \in c + 1 .. n + 1
          <6>1. d \in 1 .. n
            BY <4>1, <4>4
          <6> QED BY <1>1, <4>1, <4>4, <6>1 DEF OneMore
        <5> DEFINE a == p[<<"args", f>>]
                   b == q[<<"args", f>>]
        <5>2. p[<<"expr", c>>] = IF a.is # "expr" THEN a ELSE Parsed(Func(ts[d], a.expr), a.curr)
          BY <4>0, <4>4, <5>1 DEF ParseFunc
        <5>3. q[<<"expr", c>>] = IF b.is # "expr" THEN b ELSE Parsed(Func(ts[d], b.expr), b.curr)
          BY <4>0, <4>4, <5>1 DEF ParseFunc
        <5>4. SameReading(a, b)
          BY <1>b, <5>1
        <5> HIDE DEF a, b, d, f
        <5>5. CASE a.is = "expr"
          BY <1>n, <5>2, <5>3, <5>4, <5>5 DEF SameReading
        <5>6. CASE a.is # "expr"
          BY <1>n, <5>2, <5>3, <5>4, <5>6 DEF SameReading
        <5> QED BY <5>5, <5>6
      <4>5. d > n \/ d <= n
        BY <1>1, <4>1
      <4> QED BY <4>2, <4>3, <4>4, <4>5
    <3>2. CASE ts[c] # Open
      <4> DEFINE a == p[<<"expr", c + 1>>]
                 b == q[<<"expr", c + 1>>]
      <4>1. p[<<"expr", c>>] = IF ts[c] # Tick THEN Parsed(Value(Literal(ts[c])), c + 1)
                               ELSE IF a.is = "expr" THEN Parsed(Value(Lexpr(a.expr)), a.curr) ELSE a
        BY <1>2, <2>1, <3>2 DEF ParseExpr, ParseValue
      <4>2. q[<<"expr", c>>] = IF ts[c] # Tick THEN Parsed(Value(Literal(ts[c])), c + 1)
                               ELSE IF b.is = "expr" THEN Parsed(Value(Lexpr(b.expr)), b.curr) ELSE b
        BY <1>2, <2>1, <3>2 DEF ParseExpr, ParseValue
      <4>3. SameReading(a, b)
        BY <1>b, <2>1
      <4> HIDE DEF a, b
      <4>4. CASE ts[c] # Tick
        BY <1>n, <4>1, <4>2, <4>4 DEF SameReading
      <4>5. CASE ts[c] = Tick /\ a.is = "expr"
        BY <1>n, <4>1, <4>2, <4>3, <4>5 DEF SameReading
      <4>6. CASE ts[c] = Tick /\ a.is # "expr"
        BY <1>n, <4>1, <4>2, <4>3, <4>6 DEF SameReading
      <4> QED BY <4>4, <4>5, <4>6
    <3> QED BY <3>1, <3>2
  <2>3. SameReading(p[<<"args", c>>], q[<<"args", c>>])
    <3>1. CASE ts[c] = Close
      <4>1. p[<<"args", c>>] = Parsed(<<>>, c + 1) /\ q[<<"args", c>>] = Parsed(<<>>, c + 1)
        BY <1>2, <2>1, <3>1 DEF ParseArgs
      <4> QED BY <1>n, <4>1 DEF SameReading
    <3>2. CASE ts[c] # Close
      <4> DEFINE a == p[<<"expr", c>>]
                 b == q[<<"expr", c>>]
                 r == p[<<"args", a.curr>>]
                 s == q[<<"args", b.curr>>]
      <4>1. p[<<"args", c>>] = IF a.is # "expr" THEN a ELSE IF r.is # "expr" THEN r
                               ELSE Parsed(<<a.expr>> \o r.expr, r.curr)
        BY <1>2, <2>1, <3>2 DEF ParseArgs
      <4>2. q[<<"args", c>>] = IF b.is # "expr" THEN b ELSE IF s.is # "expr" THEN s
                               ELSE Parsed(<<b.expr>> \o s.expr, s.curr)
        BY <1>2, <2>1, <3>2 DEF ParseArgs
      <4>3. SameReading(a, b)
        BY <2>2
      <4>4. a.is = "expr" => a.curr \in c + 1 .. n + 1
        <5>1. Fits(a, c, n + 1)
          BY <1>1, ParserFits DEF Wanted
        <5> QED BY <5>1 DEF Fits
      <4>5. a.is = "expr" => SameReading(r, s)
        <5> SUFFICES ASSUME a.is = "expr" PROVE SameReading(r, s)
          OBVIOUS
        <5>1. b = a /\ a.curr \in c + 1 .. n + 1
          BY <4>3, <4>4 DEF SameReading
        <5> HIDE DEF a, b
        <5>2. s = q[<<"args", a.curr>>]
          BY <5>1
        <5> QED BY <1>b, <5>1, <5>2
      <4> HIDE DEF a, b, r, s
      <4>6. CASE a.is # "expr"
        BY <1>n, <4>1, <4>2, <4>3, <4>6 DEF SameReading
      <4>7. CASE a.is = "expr" /\ r.is # "expr"
        BY <1>n, <4>1, <4>2, <4>3, <4>5, <4>7 DEF SameReading
      <4>8. CASE a.is = "expr" /\ r.is = "expr"
        BY <1>n, <4>1, <4>2, <4>3, <4>5, <4>8 DEF SameReading
      <4> QED BY <4>6, <4>7, <4>8
    <3> QED BY <3>1, <3>2
  <2> QED BY <2>2, <2>3 DEF SameReadings, Wanted
<1> QED BY <1>1, <1>3, <1>4

\* A blank at the end of a text does not change what is read, but where the
\* parser looks through NULL.
LEMMA BlankAtEndIsNothing ==
  ASSUME NEW S, NEW in \in Seq(S), Blank \in S
  PROVE  Parse(Tokenize(in)).is # "crash" => Parse(Tokenize(Append(in, Blank))) = Parse(Tokenize(in))
<1> DEFINE out == Append(in, Blank)
           ts  == Tokenize(in)
           us  == Tokenize(out)
           V   == Seq(S)
<1>1. MoreTokens(V, ts, us)
  <2>1. Longer(in, out)
    BY AppendIsLonger
  <2> HIDE DEF out
  <2> QED BY <2>1, BlankAtEnd
<1> HIDE DEF out, ts, us, V
<1>2. CASE us = ts
  BY <1>2 DEF ts, us, out
<1>3. CASE ts \in Seq(V) /\ ts # NoTokens /\ us # NoTokens /\ us = ts \o <<Empty>>
  <2> DEFINE p == Parser(ts)
             q == Parser(us)
             n == Len(ts)
             N == {c \in 1 .. n + 1 : SameReadings(p, q, c)}
  <2>1. OneMore(ts, us)
    <3> DEFINE z == Empty
    <3>1. us = ts \o <<z>> /\ z \in V
      BY <1>3 DEF V, Empty
    <3> HIDE DEF z
    <3>2. /\ Len(ts) \in Nat /\ Len(us) = Len(ts) + 1 /\ us[Len(ts) + 1] = z
          /\ \A k \in 1 .. Len(ts) : us[k] = ts[k]
      <4>1. <<z>> \in Seq(V)
        BY <3>1
      <4> QED BY <1>3, <3>1, <4>1
    <3> QED BY <3>2 DEF OneMore, z
  <2>2. n \in Nat /\ n + 1 \in Nat /\ 1 \in 1 .. n + 1
    BY <2>1 DEF OneMore
  <2>3. ASSUME NEW c \in 1 .. n + 1, \A d \in c + 1 .. n + 1 : d \in N PROVE c \in N
    <3>1. \A d \in c + 1 .. Len(ts) + 1 : SameReadings(p, q, d)
      BY <2>3
    <3>2. SameReadings(p, q, c)
      BY <2>1, <3>1, SameReadingStep
    <3> QED BY <3>2
  <2>4. \A c \in 1 .. n + 1 : c \in N
    <3> DEFINE m == n + 1
    <3>1. m \in Nat /\ \A c \in 1 .. m : (\A d \in c + 1 .. m : d \in N) => c \in N
      BY <2>2, <2>3
    <3> HIDE DEF m, N
    <3>2. \A c \in 1 .. m : c \in N
      BY <3>1, InductionFromAbove
    <3> QED BY <3>2 DEF m
  <2>5. SameReadings(p, q, 1)
    BY <2>2, <2>4
  <2> HIDE DEF p, q
  <2>6. SameReading(p[<<"expr", 1>>], q[<<"expr", 1>>])
    BY <2>5 DEF SameReadings, Wanted
  <2>7. Parse(ts) = p[<<"expr", 1>>] /\ Parse(us) = q[<<"expr", 1>>]
    BY <1>3 DEF Parse, p, q
  <2>8. Parse(ts).is # "crash" => Parse(us) = Parse(ts)
    BY <2>6, <2>7 DEF SameReading
  <2> QED BY <2>8 DEF ts, us, out
<1> QED BY <1>1, <1>2, <1>3 DEF MoreTokens

-----------------------------------------------------------------------------
(* Tokens with a blank before each of them.                                *)

\* A token on its own: a parenthesis, a string, or a word
IsToken(t) ==
  /\ Len(t) \in Nat \ {0}
  /\ \/ Len(t) = 1 /\ t[1] \in Parens
     \/ 2 <= Len(t) /\ t[1] = Quote /\ t[Len(t)] = Quote /\ \A k \in 2 .. Len(t) - 1 : t[k] # Quote
     \/ t[1] \notin Parens \cup {Quote} /\ \A k \in 1 .. Len(t) : t[k] \notin Parens \cup {Blank}

TokensOf(S) == {t \in Seq(S) : t = Empty \/ IsToken(t)}

\* TokenEnd finds where a token ends, if it does.
LEMMA TokenEndIs ==
  ASSUME NEW in, Len(in) \in Nat, NEW i \in 1 .. Len(in) + 1, TokenEnd(in, i) <= Len(in) + 1
  PROVE  TokenEnd(in, i) \in i .. Len(in) + 1 /\ TokenAt(in, i, TokenEnd(in, i))
<1> DEFINE L == Len(in)
           e == TokenEnd(in, i)
<1>0. L \in Nat /\ i \in Nat
  OBVIOUS
<1>1. CASE i > L
  <2>1. e = i /\ i = L + 1
    BY <1>0, <1>1 DEF TokenEnd
  <2>2. \A k \in i .. i - 1 : FALSE
    BY <1>0
  <2> HIDE DEF e
  <2> QED BY <1>0, <1>1, <2>1, <2>2 DEF TokenAt, e
<1>2. CASE i <= L /\ in[i] \in Parens
  <2>1. e = i + 1
    BY <1>0, <1>2 DEF TokenEnd
  <2> HIDE DEF e
  <2> QED BY <1>0, <1>2, <2>1 DEF TokenAt, e
<1>3. CASE i <= L /\ in[i] \notin Parens /\ in[i] = Quote
  <2> DEFINE j == i + 1
             q == FirstIn({Quote}, in, j)
  <2>0. j \in 1 .. L + 1 /\ j \in Nat /\ j = i + 1
    BY <1>0, <1>3
  <2> HIDE DEF j
  <2>1. q \in j .. L + 1 /\ (\A k \in j .. q - 1 : in[k] \notin {Quote}) /\ (q <= L => in[q] \in {Quote})
    BY <2>0, FirstInIs
  <2>2. e = q + 1
    BY <1>0, <1>3, <2>0 DEF TokenEnd
  <2> HIDE DEF q, e
  <2>3. q <= L
    BY <1>0, <2>0, <2>1, <2>2 DEF e
  <2>4. e \in i .. L + 1 /\ i + 1 < e /\ e - 1 = q /\ e - 2 = q - 1
    BY <1>0, <2>0, <2>1, <2>2, <2>3
  <2>5. in[e - 1] = Quote /\ \A k \in i + 1 .. e - 2 : in[k] # Quote
    BY <2>0, <2>1, <2>3, <2>4
  <2> QED BY <1>3, <2>4, <2>5 DEF TokenAt, e
<1>4. CASE i <= L /\ in[i] \notin Parens /\ in[i] # Quote
  <2> DEFINE S == Parens \cup {Blank}
             q == FirstIn(S, in, i)
  <2>2. e = q
    BY <1>0, <1>4 DEF TokenEnd
  <2> HIDE DEF S
  <2>1. q \in i .. L + 1 /\ (\A k \in i .. q - 1 : in[k] \notin S) /\ (q <= L => in[q] \in S)
    BY FirstInIs
  <2> HIDE DEF q, e
  <2>3. e = L + 1 \/ in[e] \in S
    BY <1>0, <2>1, <2>2
  <2> QED BY <1>4, <2>1, <2>2, <2>3 DEF TokenAt, S, e
<1> QED BY <1>0, <1>1, <1>2, <1>3, <1>4

\* What it cuts out is one.
LEMMA PieceIsToken ==
  ASSUME NEW S, NEW in \in Seq(S), NEW i \in 1 .. Len(in) + 1, NEW e \in i .. Len(in) + 1, TokenAt(in, i, e)
  PROVE  SubSeq(in, i, e - 1) \in TokensOf(S)
<1> DEFINE t == SubSeq(in, i, e - 1)
           L == Len(in)
<1>1. L \in Nat /\ i \in Nat /\ e \in Nat /\ i >= 1 /\ i <= e /\ e <= L + 1
  OBVIOUS
<1>2. t \in Seq(S) /\ Len(t) = e - i /\ \A k \in 1 .. e - i : t[k] = in[i + k - 1]
  BY <1>1
<1> HIDE DEF t
<1>3. CASE e = i
  <2>1. Len(t) = 0
    BY <1>1, <1>2, <1>3
  <2>2. t = <<>>
    BY <1>2, <2>1
  <2> QED BY <1>2, <2>2 DEF TokensOf, Empty, t
<1>4. CASE i < e
  <2>0. Len(t) \in Nat \ {0}
    BY <1>1, <1>2, <1>4
  <2>1. t[1] = in[i]
    <3>1. 1 \in 1 .. e - i /\ i + 1 - 1 = i
      BY <1>1, <1>4
    <3> QED BY <1>2, <3>1
  <2>2. CASE in[i] \in Parens /\ e = i + 1
    <3>1. Len(t) = 1
      BY <1>1, <1>2, <2>2
    <3>2. IsToken(t)
      BY <2>0, <2>1, <2>2, <3>1 DEF IsToken
    <3> QED BY <1>2, <3>2 DEF TokensOf, t
  <2>3. CASE i + 1 < e /\ in[i] = Quote /\ in[e - 1] = Quote /\ \A k \in i + 1 .. e - 2 : in[k] # Quote
    <3>1. 2 <= Len(t) /\ Len(t) \in 1 .. e - i /\ i + Len(t) - 1 = e - 1
      BY <1>1, <1>2, <2>3
    <3>2. t[Len(t)] = Quote
      BY <1>2, <2>3, <3>1
    <3>3. ASSUME NEW k \in 2 .. Len(t) - 1 PROVE t[k] # Quote
      <4>1. k \in 1 .. e - i /\ i + k - 1 \in i + 1 .. e - 2
        BY <1>1, <1>2
      <4> QED BY <1>2, <2>3, <4>1
    <3> QED BY <1>2, <2>0, <2>1, <2>3, <3>1, <3>2, <3>3 DEF TokensOf, IsToken, t
  <2>4. CASE /\ i <= L => in[i] \notin Parens \cup {Quote}
             /\ \A k \in i .. e - 1 : in[k] \notin Parens \cup {Blank}
    <3>1. t[1] \notin Parens \cup {Quote}
      <4>1. i <= L
        BY <1>1, <1>4
      <4> QED BY <2>1, <2>4, <4>1
    <3>2. ASSUME NEW k \in 1 .. Len(t) PROVE t[k] \notin Parens \cup {Blank}
      <4>1. k \in 1 .. e - i /\ i + k - 1 \in i .. e - 1
        BY <1>1, <1>2
      <4> QED BY <1>2, <2>4, <4>1
    <3> QED BY <1>2, <2>0, <3>1, <3>2 DEF TokensOf, IsToken, t
  <2> QED BY <2>2, <2>3, <2>4 DEF TokenAt
<1> QED BY <1>1, <1>3, <1>4

\* So that all tokens of a text are tokens.
LEMMA TokensAreTokens ==
  ASSUME NEW S, NEW in \in Seq(S)
  PROVE  Tokenize(in) \in Seq(TokensOf(S))
<1> DEFINE T == TokensFrom(in)
           L == Len(in) + 1
           V == TokensOf(S)
           N == {i \in 1 .. L : T[i] \in Seq(V)}
<1>0. Len(in) \in Nat /\ L \in Nat /\ 1 \in 1 .. L
  OBVIOUS
<1>1. \A j \in 1 .. L : T[j] = TokenStep(in, T, j)
  <2>1. T = [j \in 1 .. Len(in) + 1 |-> TokenStep(in, T, j)]
    BY <1>0, TokensFromIs
  <2> HIDE DEF T
  <2> QED BY <2>1
<1> HIDE DEF T
<1>3. ASSUME NEW i \in 1 .. L, \A j \in i + 1 .. L : j \in N PROVE i \in N
  <2> DEFINE e == TokenEnd(in, i)
             t == SubSeq(in, i, e - 1)
             r == T[NotBlank(in, e)]
  <2>1. e <= Len(in) + 1 => t \in V
    <3> SUFFICES ASSUME e <= Len(in) + 1 PROVE t \in V
      OBVIOUS
    <3>1. e \in i .. Len(in) + 1 /\ TokenAt(in, i, e)
      BY <1>0, TokenEndIs
    <3> HIDE DEF e, V
    <3> QED BY <3>1, PieceIsToken DEF V
  <2>2. e \in Nat /\ (e <= Len(in) => NotBlank(in, e) \in i + 1 .. L)
    BY <1>0, NextIsFurther
  <2>3. e <= Len(in) => r \in Seq(V)
    <3> SUFFICES ASSUME e <= Len(in) PROVE r \in Seq(V)
      OBVIOUS
    <3>1. NotBlank(in, e) \in N
      <4> HIDE DEF N, e
      <4> QED BY <1>3, <2>2
    <3> QED BY <3>1
  <2>4. T[i] = IF e > Len(in) + 1 THEN NoTokens ELSE IF e = Len(in) + 1 THEN <<t>>
               ELSE IF r = NoTokens THEN NoTokens ELSE <<t>> \o r
    BY <1>1 DEF TokenStep
  <2> HIDE DEF e, t, r, V
  <2>5. T[i] \in Seq(V)
    <3>1. NoTokens \in Seq(V)
      BY DEF NoTokens
    <3>2. CASE e > Len(in) + 1
      BY <2>4, <3>1, <3>2
    <3>3. CASE e = Len(in) + 1
      <4>1. t \in V /\ ~(e > Len(in) + 1)
        BY <1>0, <2>1, <2>2, <3>3
      <4> QED BY <2>4, <3>3, <4>1
    <3>4. CASE e <= Len(in)
      <4>1. t \in V /\ ~(e > Len(in) + 1) /\ e # Len(in) + 1 /\ r \in Seq(V)
        BY <1>0, <2>1, <2>2, <2>3, <3>4
      <4>2. <<t>> \o r \in Seq(V)
        BY <4>1
      <4> QED BY <2>4, <3>1, <4>1, <4>2
    <3> QED BY <1>0, <2>2, <3>2, <3>3, <3>4
  <2> QED BY <2>5
<1>4. \A i \in 1 .. L : i \in N
  <2> HIDE DEF N, L
  <2> QED BY <1>0, <1>3, InductionFromAbove
<1> QED BY <1>0, <1>4 DEF Tokenize, T

\* The texts of the tokens, with a blank before each of them but the first
Parts(ts)  == [k \in 1 .. Len(ts) |-> <<Blank>> \o ts[k]]
Spread(ts) == Tail(FlattenSeq(Parts(ts)))

\* d is something and then out; t lies in out from f up to e; it does so behind a
\* in d.
IsTail(d, out) == Len(d) = Len(out) + 1 /\ \A m \in 1 .. Len(out) : out[m] = d[m + 1]

TokenLies(out, t, f, e) ==
  /\ f \in Nat \ {0} /\ e = f + Len(t) /\ e <= Len(out) + 1
  /\ \A m \in 1 .. Len(t) : out[f + m - 1] = t[m]
  /\ SubSeq(out, f, e - 1) = t

LiesBehind(a, c, f, e) == f = Len(a) + 1 /\ e = Len(c)

\* Where each token lies in it: from F[k] up to E[k], with a blank behind it if
\* there is another one.
Lying(ts, out, F, E) ==
  /\ Len(out) \in Nat /\ E[Len(ts)] = Len(out) + 1 /\ F[1] = 1
  /\ \A k \in 1 .. Len(ts) :
       /\ TokenLies(out, ts[k], F[k], E[k])
       /\ k < Len(ts) => F[k + 1] = E[k] + 1 /\ out[E[k]] = Blank

\* A part is a blank and a token.
LEMMA PartsAre ==
  ASSUME NEW S, NEW ts \in Seq(Seq(S)), Blank \in S
  PROVE  /\ Len(ts) \in Nat /\ Parts(ts) \in [1 .. Len(ts) -> Seq(S)]
         /\ \A k \in 1 .. Len(ts) :
              /\ ts[k] \in Seq(S) /\ Len(ts[k]) \in Nat
              /\ Len(Parts(ts)[k]) = Len(ts[k]) + 1 /\ Parts(ts)[k][1] = Blank
              /\ \A m \in 1 .. Len(ts[k]) : Parts(ts)[k][m + 1] = ts[k][m]
<1> DEFINE b == Blank
<1>1. b \in S
  OBVIOUS
<1> HIDE DEF b
<1>2. Len(ts) \in Nat
  OBVIOUS
<1>3. ASSUME NEW k \in 1 .. Len(ts)
      PROVE  /\ ts[k] \in Seq(S) /\ Len(ts[k]) \in Nat
             /\ <<b>> \o ts[k] \in Seq(S) /\ Len(<<b>> \o ts[k]) = Len(ts[k]) + 1 /\ (<<b>> \o ts[k])[1] = b
             /\ \A m \in 1 .. Len(ts[k]) : (<<b>> \o ts[k])[m + 1] = ts[k][m]
  <2> DEFINE t == ts[k]
  <2>1. t \in Seq(S)
    OBVIOUS
  <2> HIDE DEF t
  <2>2. /\ Len(t) \in Nat /\ <<b>> \o t \in Seq(S) /\ Len(<<b>> \o t) = Len(t) + 1 /\ (<<b>> \o t)[1] = b
        /\ \A m \in 1 .. Len(t) : (<<b>> \o t)[m + 1] = t[m]
    BY <1>1, <2>1
  <2> QED BY <2>1, <2>2 DEF t
<1>4. Parts(ts) = [k \in 1 .. Len(ts) |-> <<b>> \o ts[k]]
  BY DEF Parts, b
<1>5. \A k \in 1 .. Len(ts) : Parts(ts)[k] = <<b>> \o ts[k]
  BY <1>4
<1>6. Parts(ts) \in [1 .. Len(ts) -> Seq(S)]
  BY <1>3, <1>4
<1> QED BY <1>2, <1>3, <1>5, <1>6 DEF b

\* One part in what is put together
LEMMA PartLies ==
  ASSUME NEW S, NEW a, NEW b, NEW c, NEW d, Part(a, b, c, d), NEW out \in Seq(S), IsTail(d, out),
         NEW t \in Seq(S), b[1] = Blank, IsTail(b, t), NEW f, NEW e, LiesBehind(a, c, f, e)
  PROVE  TokenLies(out, t, f, e) /\ (Len(a) > 0 => out[Len(a)] = Blank)
<1>0. /\ Len(d) = Len(out) + 1 /\ (\A m \in 1 .. Len(out) : out[m] = d[m + 1])
      /\ Len(b) = Len(t) + 1 /\ (\A m \in 1 .. Len(t) : t[m] = b[m + 1])
      /\ f = Len(a) + 1 /\ e = Len(c)
  BY DEF IsTail, LiesBehind
<1>1. /\ Len(a) \in Nat /\ Len(b) \in Nat /\ Len(c) = Len(a) + Len(b) /\ Len(c) <= Len(d)
      /\ \A k \in 1 .. Len(b) : d[Len(a) + k] = b[k]
  BY DEF Part
<1>2. Len(t) \in Nat /\ Len(out) \in Nat
  OBVIOUS
<1>3. f \in Nat \ {0} /\ e = f + Len(t) /\ e <= Len(out) + 1
  BY <1>0, <1>1, <1>2
<1>4. ASSUME NEW m \in 1 .. Len(t) PROVE out[f + m - 1] = t[m]
  <2>1. f + m - 1 \in 1 .. Len(out) /\ m + 1 \in 1 .. Len(b) /\ f + m - 1 + 1 = Len(a) + (m + 1)
    BY <1>0, <1>1, <1>2, <1>3
  <2>2. out[f + m - 1] = d[Len(a) + (m + 1)]
    BY <1>0, <2>1
  <2> QED BY <1>0, <1>1, <2>1, <2>2
<1>5. SubSeq(out, f, e - 1) = t
  <2>1. SubSeq(out, f, e - 1) = [m \in 1 .. Len(t) |-> out[f + m - 1]]
    BY <1>2, <1>3
  <2>2. t = [m \in 1 .. Len(t) |-> t[m]]
    OBVIOUS
  <2> QED BY <1>4, <2>1, <2>2
<1>6. ASSUME Len(a) > 0 PROVE out[Len(a)] = Blank
  <2>1. Len(a) \in 1 .. Len(out) /\ 1 \in 1 .. Len(b)
    BY <1>0, <1>1, <1>2, <1>6
  <2>2. out[Len(a)] = d[Len(a) + 1]
    BY <1>0, <2>1
  <2> QED BY <1>0, <1>1, <2>1, <2>2
<1> QED BY <1>3, <1>4, <1>5, <1>6 DEF TokenLies

\* All of them in it
LEMMA SpreadLies ==
  ASSUME NEW S, NEW ts \in Seq(Seq(S)), ts # <<>>, Blank \in S
  PROVE  \E F, E : Lying(ts, Spread(ts), F, E)
<1> DEFINE L == Len(ts)
           p == Parts(ts)
<1>1. L \in Nat /\ 1 <= L /\ L \in 1 .. L /\ 1 \in 1 .. L /\ L \in 0 .. L
  BY EmptySeq
<1>2. p \in [1 .. L -> Seq(S)]
  BY PartsAre
<1>3. \A k \in 1 .. L :
         /\ ts[k] \in Seq(S) /\ Len(ts[k]) \in Nat
         /\ Len(p[k]) = Len(ts[k]) + 1 /\ p[k][1] = Blank
         /\ \A m \in 1 .. Len(ts[k]) : p[k][m + 1] = ts[k][m]
  BY PartsAre
<1> DEFINE out == Spread(ts)
<1>o. out = Tail(FlattenSeq(p))
  BY DEF Spread
<1> HIDE DEF p, out
<1>4. PICK J : Joins(p, L, S, J) /\ FlattenSeq(p) = J[L]
  BY <1>1, <1>2, FlattenIs
<1>5. \A k \in 1 .. L : Part(J[k - 1], p[k], J[k], J[L])
  BY <1>1, <1>2, <1>4, JoinsAt
<1>6. \A k \in 0 .. L : J[k] \in Seq(S) /\ Len(J[k]) \in Nat /\ Len(J[k]) <= Len(J[L])
  BY <1>1, <1>2, <1>4, JoinsHave
<1>7. \A k \in 1 .. L : Len(J[k]) > 0 /\ Len(J[k]) = Len(J[k - 1]) + Len(ts[k]) + 1 /\ Len(J[k - 1]) \in Nat
  <2> TAKE k \in 1 .. L
  <2>1. Len(J[k - 1]) \in Nat /\ Len(J[k]) = Len(J[k - 1]) + Len(p[k])
    BY <1>5 DEF Part
  <2>2. Len(p[k]) = Len(ts[k]) + 1 /\ Len(ts[k]) \in Nat
    BY <1>3
  <2> DEFINE x == Len(J[k])
             y == Len(J[k - 1])
             z == Len(p[k])
             w == Len(ts[k])
  <2>3. y \in Nat /\ x = y + z /\ z = w + 1 /\ w \in Nat
    BY <2>1, <2>2
  <2> HIDE DEF x, y, z, w
  <2>4. x > 0 /\ x = y + w + 1 /\ y \in Nat
    BY <2>3
  <2> QED BY <2>4 DEF x, y, w
<1>8. Len(J[0]) = 0
  BY <1>4 DEF Joins
<1>9. J[L] \in Seq(S) /\ Len(J[L]) > 0
  BY <1>1, <1>6, <1>7
<1>10. /\ out \in Seq(S) /\ Len(out) \in Nat /\ Len(J[L]) = Len(out) + 1
       /\ \A m \in 1 .. Len(out) : out[m] = J[L][m + 1]
  <2> DEFINE d == J[L]
  <2>1. d \in Seq(S) /\ Len(d) > 0 /\ out = Tail(d)
    BY <1>4, <1>9, <1>o
  <2> HIDE DEF d
  <2>2. /\ Tail(d) \in Seq(S) /\ Len(Tail(d)) \in Nat /\ Len(d) = Len(Tail(d)) + 1
        /\ \A m \in 1 .. Len(Tail(d)) : Tail(d)[m] = d[m + 1]
    BY <2>1
  <2> QED BY <2>1, <2>2 DEF d
<1> DEFINE F == [k \in 1 .. L |-> Len(J[k - 1]) + 1]
           E == [k \in 1 .. L |-> Len(J[k])]
<1>11. \A k \in 1 .. L : F[k] = Len(J[k - 1]) + 1 /\ E[k] = Len(J[k])
  OBVIOUS
<1> HIDE DEF F, E
<1>12. ASSUME NEW k \in 1 .. L
       PROVE  TokenLies(out, ts[k], F[k], E[k]) /\ (Len(J[k - 1]) > 0 => out[Len(J[k - 1])] = Blank)
  <2> DEFINE a == J[k - 1]
             b == p[k]
             c == J[k]
             d == J[L]
             t == ts[k]
             f == F[k]
             e == E[k]
  <2>1. Part(a, b, c, d) /\ LiesBehind(a, c, f, e)
    BY <1>5, <1>11 DEF LiesBehind
  <2>2. t \in Seq(S) /\ IsTail(b, t) /\ b[1] = Blank
    BY <1>3 DEF IsTail
  <2>3. IsTail(d, out)
    BY <1>10 DEF IsTail
  <2> HIDE DEF a, b, c, d, t, f, e
  <2>4. TokenLies(out, t, f, e) /\ (Len(a) > 0 => out[Len(a)] = Blank)
    BY <1>10, <2>1, <2>2, <2>3, PartLies
  <2> QED BY <2>4 DEF a, t, f, e
<1>13. ASSUME NEW k \in 1 .. L, k < L PROVE F[k + 1] = E[k] + 1 /\ out[E[k]] = Blank
  <2>1. k + 1 \in 1 .. L /\ k + 1 - 1 = k
    BY <1>1, <1>13
  <2>2. F[k + 1] = Len(J[k]) + 1 /\ E[k] = Len(J[k]) /\ Len(J[k]) > 0
    <3>1. F[k + 1] = Len(J[k + 1 - 1]) + 1
      BY <1>11, <2>1
    <3>2. J[k + 1 - 1] = J[k]
      BY <2>1
    <3>3. Len(J[k]) > 0
      BY <1>7
    <3> QED BY <1>11, <3>1, <3>2, <3>3
  <2>3. Len(J[k + 1 - 1]) > 0 => out[Len(J[k + 1 - 1])] = Blank
    BY <1>12, <2>1
  <2> QED BY <2>1, <2>2, <2>3
<1>14. E[L] = Len(out) + 1 /\ F[1] = 1
  <2>1. F[1] = Len(J[1 - 1]) + 1
    BY <1>1, <1>11
  <2> QED BY <1>1, <1>8, <1>10, <1>11, <2>1
<1>15. Lying(ts, out, F, E)
  BY <1>10, <1>12, <1>13, <1>14 DEF Lying
<1> QED BY <1>15 DEF out

\* No token begins with a blank.
LEMMA BlankIsNone == Blank \notin Parens /\ Blank # Quote
<1>1. Blank # "("
  BY Zenon DEF Blank
<1>2. Blank # ")"
  BY Zenon DEF Blank
<1>3. Blank # Quote
  BY Zenon DEF Blank, Quote
<1> QED BY <1>1, <1>2, <1>3 DEF Parens

\* A token with a blank or nothing behind it is cut out again.
LEMMA LyingIsCut ==
  ASSUME NEW out, Len(out) \in Nat, NEW t, IsToken(t), NEW f, NEW e, TokenLies(out, t, f, e),
         e = Len(out) + 1 \/ out[e] = Blank
  PROVE  /\ f \in 1 .. Len(out) /\ e \in f .. Len(out) + 1 /\ out[f] # Blank
         /\ TokenEnd(out, f) = e /\ SubSeq(out, f, e - 1) = t
<1> DEFINE L == Len(out)
           n == Len(t)
<1>0. /\ L \in Nat /\ n \in Nat \ {0} /\ f \in Nat \ {0} /\ e = f + n /\ e <= L + 1
      /\ \A m \in 1 .. n : out[f + m - 1] = t[m]
      /\ SubSeq(out, f, e - 1) = t
  BY DEF TokenLies, IsToken
<1>1. \/ n = 1 /\ t[1] \in Parens
      \/ 2 <= n /\ t[1] = Quote /\ t[n] = Quote /\ \A k \in 2 .. n - 1 : t[k] # Quote
      \/ t[1] \notin Parens \cup {Quote} /\ \A k \in 1 .. n : t[k] \notin Parens \cup {Blank}
  BY DEF IsToken
<1>e. e = L + 1 \/ out[e] = Blank
  OBVIOUS
<1> HIDE DEF L, n
<1>2. f \in 1 .. L /\ f \in 1 .. L + 1 /\ e \in f .. L + 1 /\ f < e
  BY <1>0
<1>3. out[f] = t[1]
  <2>1. 1 \in 1 .. n /\ f + 1 - 1 = f
    BY <1>0
  <2> QED BY <1>0, <2>1
<1>4. ASSUME NEW k \in f .. e - 1 PROVE k - f + 1 \in 1 .. n /\ out[k] = t[k - f + 1]
  <2>1. k - f + 1 \in 1 .. n /\ f + (k - f + 1) - 1 = k
    BY <1>0
  <2> QED BY <1>0, <2>1
<1>5. TokenAt(out, f, e)
  <2>1. CASE n = 1 /\ t[1] \in Parens
    <3>1. e = f + 1
      BY <1>0, <2>1
    <3> QED BY <1>2, <1>3, <2>1, <3>1 DEF TokenAt
  <2>2. CASE 2 <= n /\ t[1] = Quote /\ t[n] = Quote /\ \A k \in 2 .. n - 1 : t[k] # Quote
    <3>1. f + 1 < e /\ e - 1 \in f .. e - 1 /\ e - 1 - f + 1 = n
      BY <1>0, <2>2
    <3>2. out[e - 1] = Quote
      BY <1>4, <2>2, <3>1
    <3>3. ASSUME NEW k \in f + 1 .. e - 2 PROVE out[k] # Quote
      <4>1. k \in f .. e - 1 /\ k - f + 1 \in 2 .. n - 1
        BY <1>0
      <4> QED BY <1>4, <2>2, <4>1
    <3> QED BY <1>3, <2>2, <3>1, <3>2, <3>3 DEF TokenAt
  <2>3. CASE t[1] \notin Parens \cup {Quote} /\ \A k \in 1 .. n : t[k] \notin Parens \cup {Blank}
    <3>1. \A k \in f .. e - 1 : out[k] \notin Parens \cup {Blank}
      BY <1>4, <2>3
    <3>2. e = L + 1 \/ out[e] \in Parens \cup {Blank}
      BY <1>e
    <3> QED BY <1>3, <2>3, <3>1, <3>2 DEF TokenAt, L
  <2> QED BY <1>1, <2>1, <2>2, <2>3
<1>6. TokenEnd(out, f) = e
  BY <1>2, <1>5, TokenEndAt DEF L
<1>7. out[f] # Blank
  <2>1. t[1] # Blank
    <3>1. 1 \in 1 .. n
      BY <1>0
    <3> QED BY <1>1, <3>1, BlankIsNone
  <2> QED BY <1>3, <2>1
<1> QED BY <1>0, <1>2, <1>6, <1>7 DEF L

\* All tokens of a text, but empty ones, are read back with blanks between them.
LEMMA SpreadIsReadBack ==
  ASSUME NEW S, NEW in \in Seq(S), Blank \in S, Tokenize(in) # <<>>,
         \A k \in 1 .. Len(Tokenize(in)) : Tokenize(in)[k] # Empty
  PROVE  Tokenize(Spread(Tokenize(in))) = Tokenize(in)
<1> DEFINE ts  == Tokenize(in)
           out == Spread(ts)
           L   == Len(ts)
<1>1. ts \in Seq(TokensOf(S))
  BY TokensAreTokens
<1>2. ts # <<>> /\ \A k \in 1 .. L : ts[k] # Empty
  OBVIOUS
<1> HIDE DEF ts
<1>3. ts \in Seq(Seq(S))
  <2> DEFINE V == TokensOf(S)
  <2>1. V \subseteq Seq(S) /\ ts \in Seq(V)
    BY <1>1 DEF TokensOf
  <2> HIDE DEF V
  <2> QED BY <2>1
<1>4. ASSUME NEW k \in 1 .. L PROVE IsToken(ts[k])
  <2> DEFINE V == TokensOf(S)
  <2>1. ts \in Seq(V)
    BY <1>1
  <2> HIDE DEF V
  <2>2. ts[k] \in V
    BY <2>1
  <2> QED BY <1>2, <2>2 DEF TokensOf, V
<1>5. PICK F, E : Lying(ts, out, F, E)
  BY <1>2, <1>3, SpreadLies
<1> HIDE DEF out
<1>6. L \in Nat /\ 1 <= L /\ 1 \in 1 .. L
  BY <1>2, <1>3, EmptySeq
<1>7. Len(out) \in Nat /\ E[L] = Len(out) + 1 /\ F[1] = 1
  BY <1>5 DEF Lying
<1>8. \A k \in 1 .. L :
         /\ TokenLies(out, ts[k], F[k], E[k])
         /\ k < L => F[k + 1] = E[k] + 1 /\ out[E[k]] = Blank
  BY <1>5 DEF Lying
<1>9. ASSUME NEW k \in 1 .. L
      PROVE  /\ F[k] \in 1 .. Len(out) /\ E[k] \in F[k] .. Len(out) + 1 /\ out[F[k]] # Blank
             /\ TokenEnd(out, F[k]) = E[k] /\ SubSeq(out, F[k], E[k] - 1) = ts[k]
  <2> DEFINE t == ts[k]
             f == F[k]
             e == E[k]
  <2>1. IsToken(t) /\ TokenLies(out, t, f, e)
    BY <1>4, <1>8
  <2>2. e = Len(out) + 1 \/ out[e] = Blank
    <3>1. k = L \/ k < L
      BY <1>6
    <3> QED BY <1>7, <1>8, <3>1
  <2> HIDE DEF t, f, e
  <2>3. /\ f \in 1 .. Len(out) /\ e \in f .. Len(out) + 1 /\ out[f] # Blank
        /\ TokenEnd(out, f) = e /\ SubSeq(out, f, e - 1) = t
    BY <1>7, <2>1, <2>2, LyingIsCut
  <2> QED BY <2>3 DEF t, f, e
<1>10. Cut(out, L, F, E)
  <2> SUFFICES ASSUME NEW k \in 1 .. L
               PROVE  /\ F[k] \in 1 .. Len(out) + 1 /\ TokenEnd(out, F[k]) = E[k]
                      /\ k < L => E[k] <= Len(out) /\ NotBlank(out, E[k]) = F[k + 1]
    BY DEF Cut
  <2>1. F[k] \in 1 .. Len(out) /\ E[k] \in F[k] .. Len(out) + 1 /\ TokenEnd(out, F[k]) = E[k]
    BY <1>9
  <2>2. ASSUME k < L PROVE E[k] <= Len(out) /\ NotBlank(out, E[k]) = F[k + 1]
    <3>1. k + 1 \in 1 .. L
      BY <1>6, <2>2
    <3> DEFINE e == E[k]
               f == F[k + 1]
    <3>2. f \in 1 .. Len(out) /\ out[f] # Blank
      BY <1>9, <3>1
    <3>3. f = e + 1 /\ out[e] = Blank
      BY <1>8, <2>2
    <3>4. e \in Nat /\ 1 <= e
      BY <1>7, <2>1
    <3> HIDE DEF e, f
    <3>5. e \in 1 .. Len(out) + 1 /\ f \in e .. Len(out) + 1 /\ e <= Len(out) /\ e .. f - 1 = {e}
      BY <1>7, <3>2, <3>3, <3>4
    <3>6. \A j \in e .. f - 1 : out[j] = Blank
      BY <3>3, <3>5
    <3>7. NotBlank(out, e) = f
      BY <1>7, <3>2, <3>5, <3>6, NotBlankAt
    <3> QED BY <3>5, <3>7 DEF e, f
  <2> QED BY <1>7, <2>1, <2>2
<1>11. TokensFrom(out)[F[1]] = [k \in 1 .. L |-> SubSeq(out, F[k], E[k] - 1)]
  BY <1>6, <1>7, <1>10, CutTokens
<1>12. [k \in 1 .. L |-> SubSeq(out, F[k], E[k] - 1)] = [k \in 1 .. L |-> ts[k]]
  BY <1>9
<1>13. ts = [k \in 1 .. L |-> ts[k]]
  BY <1>3
<1>14. Tokenize(out) = ts
  BY <1>7, <1>11, <1>12, <1>13 DEF Tokenize
<1> QED BY <1>14 DEF ts, out

=============================================================================
