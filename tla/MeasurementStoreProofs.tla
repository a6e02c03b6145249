----------------------- MODULE MeasurementStoreProofs -----------------------
(* Proofs about the measurement store, for every size and number of slots,  *)
(* indexes and measurements.                                                *)
EXTENDS MeasurementStore, TLAPS, SequenceTheorems

USE DEF heap, reply, hist, Slots, NULL

\* A measurement is linked before the slot's chain, and the slot's log grows by
\* it: the chain of every slot is still its log.
LEMMA FreshChains ==
  ASSUME TypeOK, ChainsAreLogs, ~restored, NEW i \in Indexes, StoreFresh(i)
  PROVE  ChainsAreLogs'
<1> DEFINE m == Len(next) + 1
<1>1. /\ next \in Seq(Nat) /\ log \in [Slots -> Seq(Taken)]
      /\ store \in [Slots -> Taken \cup {NULL}]
  BY DEF TypeOK
<1>2. PICK found \in Found(i) : next' = Append(next, found)
  BY DEF StoreFresh
<1>3. found \in Nat
  <2>1. Taken \cup {NULL} \subseteq Nat
    BY <1>1 DEF Taken
  <2>2. found \in Taken \cup {NULL}
    BY <1>1, <1>2 DEF Found
  <2> QED BY <2>1, <2>2
<1>4. next'[m] = found /\ \A k \in Taken : next'[k] = next[k]
  BY <1>1, <1>2, <1>3 DEF Taken
<1>5. SUFFICES ASSUME NEW j \in Slots PROVE IsChain(store[j], log[j])'
  BY DEF ChainsAreLogs
<1>6. IsChain(store[j], log[j]) /\ log[j] \in Seq(Taken)
  BY <1>1 DEF ChainsAreLogs
<1>7. \A k \in 1 .. Len(log[j]) : log[j][k] \in Taken
  BY <1>6
<1>8. CASE j # i
  <2>1. log'[j] = log[j] /\ store'[j] = store[j]
    BY <1>1, <1>8 DEF StoreFresh, Put
  <2> QED BY <2>1, <1>4, <1>6, <1>7 DEF IsChain
<1>9. CASE j = i
  <2> DEFINE l == log[j]
             new == <<m>> \o l
  <2>1. log'[j] = new /\ store'[j] = m /\ found = store[j]
    BY <1>1, <1>2, <1>9 DEF StoreFresh, Put, Found
  <2>2. /\ Len(new) = Len(l) + 1 /\ new[1] = m /\ new # <<>>
        /\ \A k \in 1 .. Len(l) : new[k + 1] = l[k]
    BY <1>6
  <2>3. next'[new[1]] = IF 1 = Len(new) THEN NULL ELSE new[2]
    BY <2>1, <2>2, <1>4, <1>6 DEF IsChain
  <2>4. ASSUME NEW k \in 1 .. Len(l)
        PROVE  next'[new[k + 1]] = IF k + 1 = Len(new) THEN NULL ELSE new[k + 2]
    <3>1. next'[new[k + 1]] = IF k = Len(l) THEN NULL ELSE l[k + 1]
      BY <2>2, <1>4, <1>6, <1>7 DEF IsChain
    <3> QED BY <3>1, <2>2, <1>6
  <2>5. \A k \in 1 .. Len(new) :
          next'[new[k]] = IF k = Len(new) THEN NULL ELSE new[k + 1]
    <3> SUFFICES ASSUME NEW k \in 1 .. Len(new)
                 PROVE  next'[new[k]] = IF k = Len(new) THEN NULL ELSE new[k + 1]
      OBVIOUS
    <3>1. CASE k = 1
      BY <3>1, <2>3
    <3>2. CASE k # 1
      <4>1. k - 1 \in 1 .. Len(l) /\ (k - 1) + 1 = k /\ (k - 1) + 2 = k + 1
        BY <3>2, <2>2, <1>6
      <4> HIDE DEF new, l
      <4> QED BY <4>1, <2>4
    <3> QED BY <3>1, <3>2
  <2> HIDE DEF new, l
  <2> QED BY <2>1, <2>2, <2>5 DEF IsChain
<1> QED BY <1>8, <1>9

\* Initially every chain and every log is empty.
LEMMA InitStore == Init => StoreInv
<1> SUFFICES ASSUME Init PROVE StoreInv
  OBVIOUS
<1> USE DEF Init
<1>1. next = <<>> /\ Len(next) = 0 /\ Taken = {}
  BY DEF Taken
<1>2. TypeOK
  <2>1. log \in [Slots -> Seq(Taken)] /\ store \in [Slots -> Taken \cup {NULL}]
    BY <1>1
  <2>2. depth \in 0 .. StackDepth /\ ms = NULL
    BY StoreAssumption
  <2>3. /\ next \in Seq(Nat) /\ answer \in Seq(Taken) /\ response \in Seq(Taken)
        /\ outside \subseteq Indexes /\ pc = "idle"
        /\ restored = FALSE /\ nulled = FALSE
    OBVIOUS
  <2> HIDE DEF Init
  <2> QED BY <1>1, <2>1, <2>2, <2>3 DEF TypeOK
<1>3. ChainsAreLogs
  BY DEF ChainsAreLogs, IsChain
<1>4. CrashesAreExplained /\ PointsBackInv /\ DepthInv /\ AnswerInv
  BY <1>1, StoreAssumption DEF CrashesAreExplained, PointsBackInv, DepthInv, AnswerInv
<1> QED BY <1>2, <1>3, <1>4 DEF StoreInv

-----------------------------------------------------------------------------
\* What was taken before stays taken, and the newest measurement is one of them.
LEMMA TakenGrows ==
  ASSUME TypeOK, NEW found \in Taken \cup {NULL}, next' = Append(next, found)
  PROVE  /\ Len(next') = Len(next) + 1 /\ Len(next) \in Nat
         /\ Taken \subseteq Taken' /\ Len(next) + 1 \in Taken'
         /\ next' \in Seq(Nat)
         /\ next'[Len(next) + 1] = found
         /\ \A m \in Taken : next'[m] = next[m]
         /\ \A m \in Taken' : m \in Taken \/ m = Len(next) + 1
<1>1. next \in Seq(Nat) /\ found \in Nat
  BY DEF TypeOK, Taken
<1> QED BY <1>1 DEF Taken

\* What a store finds in a slot or past the end is a measurement or NULL.
LEMMA FoundTypes ==
  ASSUME TypeOK, NEW i \in Indexes PROVE Found(i) \subseteq Taken \cup {NULL}
BY DEF TypeOK, Found

LEMMA FreshTypes ==
  ASSUME TypeOK, NEW i \in Indexes, StoreFresh(i) PROVE TypeOK'
<1>1. PICK found \in Taken \cup {NULL} : next' = Append(next, found)
  BY FoundTypes DEF StoreFresh
<1> DEFINE m == Len(next) + 1
<1>2. /\ Taken \subseteq Taken' /\ m \in Taken' /\ next' \in Seq(Nat)
      /\ next'[m] = found /\ \A k \in Taken : next'[k] = next[k]
      /\ \A k \in Taken' : k \in Taken \/ k = m
  BY <1>1, TakenGrows
<1> HIDE DEF m
<1>3. \A k \in Taken' : next'[k] \in (Taken \cup {NULL})'
  BY <1>1, <1>2 DEF TypeOK
<1>4. store' \in [Slots -> (Taken \cup {NULL})']
  BY <1>2 DEF TypeOK, StoreFresh, Put, m
<1>5. outside' \subseteq Indexes
  BY DEF TypeOK, StoreFresh, Put
<1>6. log' \in [Slots -> Seq(Taken')]
  <2>1. \A j \in Slots : log[j] \in Seq(Taken')
    BY <1>2, SeqMonotonic DEF TypeOK
  <2>2. <<m>> \in Seq(Taken')
    BY <1>2
  <2>3. \A j \in Slots : <<m>> \o log[j] \in Seq(Taken')
    BY <2>1, <2>2, ConcatProperties
  <2> QED BY <2>1, <2>3 DEF TypeOK, StoreFresh, m
<1>7. answer' \in Seq(Taken') /\ response' \in Seq(Taken')
  <2>1. answer' = answer /\ response' = response
    BY DEF StoreFresh
  <2> QED BY <1>2, <2>1, SeqMonotonic DEF TypeOK
<1>8. /\ pc' = pc /\ ms' = ms /\ depth' = depth
      /\ restored' = restored /\ nulled' = nulled
  BY DEF StoreFresh
<1>9. /\ pc' \in {"idle", "answer", "crashed"}
      /\ ms' \in (Taken \cup {NULL})' /\ depth' \in 0 .. StackDepth
      /\ restored' \in BOOLEAN /\ nulled' \in BOOLEAN
  BY <1>2, <1>8 DEF TypeOK
<1> QED BY <1>2, <1>3, <1>4, <1>5, <1>6, <1>7, <1>9 DEF TypeOK

\* A measurement that is taken now is newer than what it is linked before.
LEMMA FreshStep ==
  ASSUME StoreInv, NEW i \in Indexes, StoreFresh(i) PROVE StoreInv'
<1> USE DEF StoreInv
<1>1. TypeOK'
  BY FreshTypes
<1>2. PICK found \in Taken \cup {NULL} : next' = Append(next, found)
  BY FoundTypes DEF StoreFresh
<1> DEFINE m == Len(next) + 1
<1>3. /\ Len(next') = m /\ Len(next) \in Nat
      /\ next'[m] = found /\ \A k \in Taken : next'[k] = next[k]
      /\ \A k \in Taken' : k \in Taken \/ k = m
  BY <1>2, TakenGrows
<1>4. /\ pc = "idle" /\ pc' = "idle" /\ Len(next) < MaxMeasurements
      /\ restored' = restored /\ nulled' = nulled
  BY DEF StoreFresh
<1>5. ChainsAreLogs'
  <2>1. CASE restored
    BY <2>1, <1>4 DEF ChainsAreLogs
  <2>2. CASE ~restored
    BY <2>2, FreshChains
  <2> QED BY <2>1, <2>2
<1>6. CrashesAreExplained' /\ AnswerInv'
  BY <1>4 DEF CrashesAreExplained, AnswerInv
<1>7. PointsBackInv'
  BY <1>2, <1>3, <1>4 DEF PointsBackInv, Taken
<1>8. DepthInv'
  BY <1>3, <1>4, StoreAssumption DEF DepthInv
<1> QED BY <1>1, <1>5, <1>6, <1>7, <1>8

\* From then on only the types and what explains a crash are kept up.
LEMMA LoadedStep ==
  ASSUME StoreInv, NEW i \in Indexes, NEW j \in Indexes, StoreLoaded(i, j)
  PROVE  StoreInv'
<1> USE DEF StoreInv
<1>1. PICK found \in Taken \cup {NULL} : next' = [next EXCEPT ![Loaded(j)] = found]
  BY FoundTypes DEF StoreLoaded
<1>2. Loaded(j) \in Taken
  BY DEF StoreLoaded, Loaded, TypeOK
<1>3. next \in Seq(Nat) /\ found \in Nat
  BY DEF TypeOK, Taken
<1>4. next' \in Seq(Nat) /\ Len(next') = Len(next)
  BY <1>1, <1>2, <1>3, ExceptSeq DEF Taken
<1>5. Taken' = Taken /\ \A k \in Taken : next'[k] \in Taken \cup {NULL}
  <2>1. Taken' = Taken
    BY <1>4 DEF Taken
  <2>2. \A k \in Taken : next'[k] = IF k = Loaded(j) THEN found ELSE next[k]
    BY <1>1, <1>3 DEF Taken
  <2> QED BY <2>1, <2>2 DEF TypeOK
<1>6. /\ pc = "idle" /\ pc' = pc /\ ms' = ms /\ depth' = depth
      /\ answer' = answer /\ response' = response
      /\ log' = log /\ restored' = TRUE /\ nulled' = nulled
  BY DEF StoreLoaded
<1>7. store' \in [Slots -> Taken \cup {NULL}] /\ outside' \subseteq Indexes
  BY <1>2 DEF TypeOK, StoreLoaded, Put
<1>8. TypeOK'
  BY <1>4, <1>5, <1>6, <1>7 DEF TypeOK
<1>9. /\ ChainsAreLogs' /\ CrashesAreExplained' /\ PointsBackInv'
      /\ AnswerInv'
  BY <1>6 DEF ChainsAreLogs, CrashesAreExplained, PointsBackInv, AnswerInv
<1>10. DepthInv'
  BY <1>4, <1>6 DEF DepthInv
<1> QED BY <1>8, <1>9, <1>10

\* A crash leaves the store as it is.
LEMMA CrashStep ==
  ASSUME StoreInv, StoreNull \/ Corrupted PROVE StoreInv'
<1> USE DEF StoreInv
<1>1. /\ UNCHANGED <<next, store, outside, ms, depth, answer, response, log, restored>>
      /\ pc' = "crashed" /\ nulled' \in BOOLEAN /\ (nulled' \/ outside # {})
  BY DEF StoreNull, Corrupted, TypeOK
<1>2. TypeOK'
  BY <1>1 DEF TypeOK, Taken
<1>3. /\ ChainsAreLogs' /\ CrashesAreExplained' /\ PointsBackInv'
      /\ DepthInv' /\ AnswerInv'
  BY <1>1 DEF ChainsAreLogs, IsChain, CrashesAreExplained, PointsBackInv, DepthInv,
              AnswerInv, Taken
<1> QED BY <1>2, <1>3

\* A load starts at the newest measurement of the log.
LEMMA LoadStep ==
  ASSUME StoreInv, NEW i \in Indexes, Load(i) PROVE StoreInv'
<1> USE DEF StoreInv
<1>1. /\ UNCHANGED <<next, store, outside, response, log, restored, nulled>>
      /\ pc' = "answer" /\ ms' = Loaded(i) /\ depth' = 0 /\ answer' = <<>>
  BY DEF Load
<1>2. Loaded(i) \in Taken \cup {NULL}
  BY DEF Loaded, TypeOK
<1>3. TypeOK'
  BY <1>1, <1>2, StoreAssumption DEF TypeOK, Taken
<1>4. ChainsAreLogs' /\ CrashesAreExplained' /\ PointsBackInv'
  BY <1>1 DEF ChainsAreLogs, IsChain, CrashesAreExplained, PointsBackInv, Taken
<1>5. DepthInv'
  BY <1>1, <1>2 DEF DepthInv, Taken, TypeOK
<1>6. AnswerInv'
  <2> SUFFICES ASSUME ~restored PROVE AnswersWith(LogAt(i))'
    BY <1>1 DEF AnswerInv
  <2>1. LogAt(i)' = LogAt(i) /\ LogAt(i) \in Seq(Taken)
    BY <1>1 DEF LogAt, TypeOK
  <2>2. Loaded(i) = IF LogAt(i) = <<>> THEN NULL ELSE LogAt(i)[1]
    BY DEF Loaded, LogAt, ChainsAreLogs, IsChain
  <2>3. Len(answer') = 0
    BY <1>1
  <2>4. LogAt(i) = <<>> <=> Len(LogAt(i)) = 0
    BY <2>1, EmptySeq
  <2> QED BY <1>1, <2>1, <2>2, <2>3, <2>4 DEF AnswersWith
<1> QED BY <1>3, <1>4, <1>5, <1>6

\* One measurement more of the log is in the answer.
LEMMA DescendStep ==
  ASSUME StoreInv, Descend PROVE StoreInv'
<1> USE DEF StoreInv
<1>1. /\ UNCHANGED <<next, store, outside, response, log, restored, nulled>>
      /\ pc = "answer" /\ pc' = "answer" /\ ms # NULL /\ depth < StackDepth
      /\ answer' = Append(answer, ms) /\ ms' = next[ms] /\ depth' = depth + 1
  BY DEF Descend
<1>2. ms \in Taken /\ next[ms] \in Taken \cup {NULL} /\ answer \in Seq(Taken)
  BY <1>1 DEF TypeOK
<1>3. Len(next) \in Nat /\ depth \in Nat /\ StackDepth \in Nat
  BY StoreAssumption DEF TypeOK
<1>4. TypeOK'
  <2>1. answer' \in Seq(Taken) /\ depth' \in 0 .. StackDepth
    BY <1>1, <1>2, <1>3 DEF TypeOK
  <2> QED BY <1>1, <1>2, <2>1 DEF TypeOK, Taken
<1>5. ChainsAreLogs' /\ CrashesAreExplained' /\ PointsBackInv'
  BY <1>1 DEF ChainsAreLogs, IsChain, CrashesAreExplained, PointsBackInv, Taken
<1>6. DepthInv'
  <2>1. Len(next') <= MaxMeasurements'
    BY <1>1 DEF DepthInv
  <2>2. ASSUME ~restored PROVE depth' + ms' <= Len(next')
    <3>1. next[ms] < ms /\ depth + ms <= Len(next)
      BY <1>1, <1>2, <2>2 DEF PointsBackInv, DepthInv
    <3>2. next[ms] \in Nat /\ ms \in Nat
      BY <1>2, <1>3 DEF Taken
    <3> QED BY <1>1, <1>3, <3>1, <3>2
  <2> QED BY <1>1, <2>1, <2>2 DEF DepthInv
<1>7. AnswerInv'
  <2> SUFFICES ASSUME ~restored PROVE AnswerInv'
    BY <1>1 DEF AnswerInv
  <2>1. PICK i \in Indexes : AnswersWith(LogAt(i))
    BY <1>1 DEF AnswerInv
  <2> DEFINE l == LogAt(i)
             n == Len(answer)
  <2>2. /\ LogAt(i)' = l /\ l \in Seq(Taken)
        /\ i \notin Slots => l = <<>>
    BY <1>1 DEF LogAt, TypeOK
  <2>3. n <= Len(l) /\ ms = (IF n = Len(l) THEN NULL ELSE l[n + 1])
        /\ \A k \in 1 .. n : answer[k] = l[k]
    BY <2>1 DEF AnswersWith
  <2>4. n \in Nat /\ Len(l) \in Nat /\ n + 1 \in 1 .. Len(l) /\ ms = l[n + 1]
    BY <1>1, <1>2, <2>2, <2>3
  <2>5. i \in Slots
    BY <2>2, <2>4
  <2>6. next[l[n + 1]] = IF n + 1 = Len(l) THEN NULL ELSE l[n + 1 + 1]
    <3>1. l = log[i] /\ IsChain(store[i], log[i])
      BY <2>5 DEF LogAt, ChainsAreLogs
    <3> HIDE DEF l
    <3> QED BY <2>4, <3>1 DEF IsChain
  <2>7. Len(answer') = n + 1 /\ answer'[n + 1] = ms /\ \A k \in 1 .. n : answer'[k] = answer[k]
    BY <1>1, <1>2
  <2> HIDE DEF l, n
  <2>8. \A k \in 1 .. n + 1 : answer'[k] = l[k]
    <3>1. \A k \in 1 .. n + 1 : k \in 1 .. n \/ k = n + 1
      BY <2>4
    <3> QED BY <2>3, <2>4, <2>7, <3>1
  <2>9. Len(answer') <= Len(l)
        /\ ms' = IF Len(answer') = Len(l) THEN NULL ELSE l[Len(answer') + 1]
    BY <1>1, <2>4, <2>6, <2>7
  <2> QED BY <2>2, <2>7, <2>8, <2>9 DEF AnswerInv, AnswersWith
<1> QED BY <1>4, <1>5, <1>6, <1>7

\* The stack is not overrun before a loaded measurement is stored: each level of
\* the recursion is at an older measurement.
LEMMA OverflowStep ==
  ASSUME StoreInv, StackOverflow PROVE StoreInv'
<1> USE DEF StoreInv
<1>1. /\ UNCHANGED <<next, store, outside, ms, depth, answer, response, log, restored, nulled>>
      /\ pc = "answer" /\ pc' = "crashed" /\ ms # NULL /\ depth = StackDepth
  BY DEF StackOverflow
<1>2. restored
  <2> SUFFICES ASSUME ~restored PROVE FALSE
    BY DEF TypeOK
  <2>1. /\ depth + ms <= Len(next) /\ Len(next) <= MaxMeasurements
        /\ ms \in Taken /\ Len(next) \in Nat
    BY <1>1 DEF DepthInv, TypeOK
  <2> QED BY <1>1, <2>1, StoreAssumption DEF Taken
<1>3. TypeOK'
  BY <1>1 DEF TypeOK, Taken
<1>4. /\ ChainsAreLogs' /\ CrashesAreExplained' /\ PointsBackInv'
      /\ DepthInv' /\ AnswerInv'
  BY <1>1, <1>2 DEF ChainsAreLogs, CrashesAreExplained, PointsBackInv, DepthInv, AnswerInv
<1> QED BY <1>3, <1>4

LEMMA SendStep ==
  ASSUME StoreInv, SendResponse PROVE StoreInv'
<1> USE DEF StoreInv
<1>1. /\ UNCHANGED <<next, store, outside, ms, depth, answer, log, restored, nulled>>
      /\ pc' = "idle" /\ response' = answer
  BY DEF SendResponse
<1>2. TypeOK'
  BY <1>1 DEF TypeOK, Taken
<1>3. /\ ChainsAreLogs' /\ CrashesAreExplained' /\ PointsBackInv'
      /\ DepthInv' /\ AnswerInv'
  BY <1>1 DEF ChainsAreLogs, IsChain, CrashesAreExplained, PointsBackInv, DepthInv,
              AnswerInv, Taken
<1> QED BY <1>2, <1>3

LEMMA NextStore == StoreInv /\ [Next]_vars => StoreInv'
<1> SUFFICES ASSUME StoreInv, [Next]_vars PROVE StoreInv'
  OBVIOUS
<1>1. CASE \E i \in Indexes : StoreFresh(i)
  BY <1>1, FreshStep
<1>2. CASE \E i, j \in Indexes : StoreLoaded(i, j)
  BY <1>2, LoadedStep
<1>3. CASE StoreNull \/ Corrupted
  BY <1>3, CrashStep
<1>4. CASE \E i \in Indexes : Load(i)
  BY <1>4, LoadStep
<1>5. CASE Answer
  BY <1>5, DescendStep, OverflowStep, SendStep DEF Answer
<1>6. CASE UNCHANGED vars
  BY <1>6 DEF vars, StoreInv, TypeOK, ChainsAreLogs, IsChain, CrashesAreExplained,
              PointsBackInv, DepthInv, AnswerInv, AnswersWith, LogAt, Taken
<1> QED BY <1>1, <1>2, <1>3, <1>4, <1>5, <1>6 DEF Next

\* The inductive invariant of the store, for every size of the store and stack.
THEOREM StoreInvariance == Spec => []StoreInv
<1>1. Init => StoreInv
  BY InitStore
<1>2. StoreInv /\ [Next]_vars => StoreInv'
  BY NextStore
<1> QED BY <1>1, <1>2, PTL DEF Spec

\* Every variable keeps its type: no pointer of a chain, a slot or an answer leads
\* anywhere but to a measurement that was taken, or NULL.
THEOREM StoreTypeCorrectness == Spec => []TypeOK
<1>1. StoreInv => TypeOK
  BY DEF StoreInv
<1> QED BY <1>1, StoreInvariance, PTL

\* Unless a loaded measurement is stored, ME_API_store keeps every chain a log:
\* nothing is lost, shared or linked in a circle.
THEOREM ChainsStayLogs == Spec => []ChainsAreLogs
<1>1. StoreInv => ChainsAreLogs
  BY DEF StoreInv
<1> QED BY <1>1, StoreInvariance, PTL

\* A crash of the store needs a NULL, a measurement that is stored twice or an
\* index past the end; the recursion along a chain that store built needs none.
THEOREM CrashesHaveACause == Spec => []CrashesAreExplained
<1>1. StoreInv => CrashesAreExplained
  BY DEF StoreInv
<1> QED BY <1>1, StoreInvariance, PTL

-----------------------------------------------------------------------------
\* An answer that is complete is the log.
LEMMA AnswerIsLog ==
  ASSUME StoreInv, ~restored, SendResponse
  PROVE  \E i \in Indexes : answer = LogAt(i)
<1>1. pc = "answer" /\ ms = NULL
  BY DEF SendResponse
<1>2. PICK i \in Indexes : AnswersWith(LogAt(i))
  BY <1>1 DEF StoreInv, AnswerInv
<1> DEFINE l == LogAt(i)
<1>3. answer \in Seq(Taken) /\ l \in Seq(Taken)
  BY DEF StoreInv, TypeOK, LogAt
<1>4. Len(answer) = Len(l)
  <2> SUFFICES ASSUME Len(answer) # Len(l) PROVE FALSE
    OBVIOUS
  <2>1. Len(answer) <= Len(l) /\ ms = l[Len(answer) + 1]
    BY <1>2 DEF AnswersWith
  <2>2. Len(answer) + 1 \in 1 .. Len(l)
    BY <1>3, <2>1
  <2>3. l[Len(answer) + 1] \in Taken
    BY <1>3, <2>2, ElementOfSeq
  <2> QED BY <1>1, <2>1, <2>3 DEF Taken
<1>5. \A k \in 1 .. Len(answer) : answer[k] = l[k]
  BY <1>2 DEF AnswersWith
<1> HIDE DEF l
<1>6. answer = l
  BY <1>3, <1>4, <1>5, SeqEqual
<1> QED BY <1>6 DEF l

\* Until a request stores what it has loaded, requests see a log of each slot: a
\* store is a step of the log, and so is the response to a load.
THEOREM StoreIsALog == Spec => StoreImplementsLog
<1>1. Init => Log!Init
  BY DEF Init, Log!Init
<1>2. StoreInv /\ [Next]_vars => [Log!Next]_(Log!vars)
  <2> SUFFICES ASSUME StoreInv, [Next]_vars PROVE [Log!Next]_(Log!vars)
    OBVIOUS
  <2> USE DEF Log!vars
  <2>1. ASSUME NEW i \in Indexes, StoreFresh(i) PROVE Log!Put(i)
    <3>1. PICK found \in Taken \cup {NULL} : next' = Append(next, found)
      BY <2>1, FoundTypes DEF StoreFresh, StoreInv
    <3>2. Len(next') = Len(next) + 1
      BY <3>1, TakenGrows DEF StoreInv
    <3> QED BY <2>1, <3>2 DEF StoreFresh, Log!Put
  <2>2. ASSUME NEW i \in Indexes, NEW j \in Indexes, StoreLoaded(i, j) PROVE Log!Restore
    BY <2>2 DEF StoreLoaded, Log!Restore
  <2>3. CASE StoreNull \/ Corrupted
    BY <2>3 DEF StoreNull, Corrupted, hist
  <2>4. CASE \E i \in Indexes : Load(i)
    BY <2>4 DEF Load, hist
  <2>5. CASE Descend \/ StackOverflow
    BY <2>5 DEF Descend, StackOverflow, hist, reply
  <2>6. CASE SendResponse /\ restored
    BY <2>6 DEF SendResponse, hist, Log!Restore, Log!Next
  <2>7. CASE SendResponse /\ ~restored
    <3>1. PICK i \in Indexes : answer = LogAt(i)
      BY <2>7, AnswerIsLog
    <3>2. Log!Get(i)
      BY <2>7, <3>1 DEF SendResponse, Log!Get, LogAt, hist, heap
    <3> QED BY <3>2 DEF Log!Next
  <2>8. CASE UNCHANGED vars
    BY <2>8 DEF vars, hist, heap, reply
  <2> QED BY <2>1, <2>2, <2>3, <2>4, <2>5, <2>6, <2>7, <2>8 DEF Next, Answer, Log!Next
<1> QED BY <1>1, <1>2, StoreInvariance, PTL DEF Spec, StoreImplementsLog, Log!Spec
=============================================================================
