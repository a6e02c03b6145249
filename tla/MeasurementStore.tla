-------------------------- MODULE MeasurementStore --------------------------
(***************************************************************************)
(* The measurement store of the measurer's context: measurements on the    *)
(* heap, chained through "next", one chain for each slot.  A request or a  *)
(* hook's action stores a measurement that it takes or, with load as the   *)
(* argument of store, one that is stored already; the answer to a load is  *)
(* made by functions that recurse along the chain.  Nothing else runs      *)
(* between the steps of one request, so a store is one step.               *)
(***************************************************************************)
EXTENDS Integers, Sequences, FiniteSets

CONSTANTS
  StoreSize,        \* ME_STORE_SIZE
  Indexes,          \* the indexes that requests use
  StackDepth,       \* frames of ME_measurement_print that the stack holds
  MaxMeasurements   \* bound: measurements that are taken

Slots == 0 .. StoreSize - 1
NULL == 0   \* measurements are numbered from 1 in the order of malloc()

ASSUME StoreAssumption ==
  /\ StoreSize \in Nat \ {0} /\ Indexes \subseteq Nat
  /\ MaxMeasurements \in Nat /\ StackDepth \in Nat /\ MaxMeasurements < StackDepth

VARIABLES
  next,      \* next[m]: ms->next of measurement m
  store,     \* the_context.store
  outside,   \* indexes past the end of the store that were written
  pc,        \* "idle", "answer" while a response is made, "crashed"
  ms, depth, \* the measurement that the recursion looks at, and how deep it is
  answer,    \* the measurements in the response so far
  response,  \* the last response that was sent
  \* history
  log,       \* log[i]: what requests stored at i, newest first
  restored,  \* a loaded measurement was stored; log is not kept up from then on
  nulled     \* NULL was stored

heap   == <<next, store, outside>>
reply  == <<ms, depth, answer, response>>
hist   == <<log, restored, nulled>>
vars   == <<heap, pc, reply, hist>>

Taken == 1 .. Len(next)

Init ==
  /\ next = <<>> /\ store = [i \in Slots |-> NULL] /\ outside = {}
  /\ pc = "idle" /\ ms = NULL /\ depth = 0 /\ answer = <<>> /\ response = <<>>
  /\ log = [i \in Slots |-> <<>>] /\ restored = FALSE /\ nulled = FALSE

\* What load returns: NULL outside of the store
Loaded(i) == IF i \in Slots THEN store[i] ELSE NULL

\* What store finds at an index: past the end it says that it could not store,
\* and goes on with whatever is there.
Found(i) == IF i \in Slots THEN {store[i]} ELSE Taken \cup {NULL}

Put(i, m) ==
  IF i \in Slots THEN store' = [store EXCEPT ![i] = m] /\ UNCHANGED outside
                 ELSE outside' = outside \cup {i} /\ UNCHANGED store

\* Mutant: the slot is written before the measurement is linked to it
StoreFreshSwapped(i) ==
  /\ pc = "idle" /\ Len(next) < MaxMeasurements
  /\ next' = Append(next, Len(next) + 1)
  /\ Put(i, Len(next) + 1)
  /\ log' = IF i \in Slots THEN [log EXCEPT ![i] = <<Len(next) + 1>> \o @] ELSE log
  /\ UNCHANGED <<pc, reply, restored, nulled>>

\* Mutant: what the slot held is dropped
StoreFreshDrops(i) ==
  /\ pc = "idle" /\ Len(next) < MaxMeasurements
  /\ next' = Append(next, NULL)
  /\ Put(i, Len(next) + 1)
  /\ log' = IF i \in Slots THEN [log EXCEPT ![i] = <<Len(next) + 1>> \o @] ELSE log
  /\ UNCHANGED <<pc, reply, restored, nulled>>

\* (store i (measure f)) of a measurement that is taken
StoreFresh(i) ==
  /\ pc = "idle" /\ Len(next) < MaxMeasurements
  /\ \E found \in Found(i) : next' = Append(next, found)
  /\ Put(i, Len(next) + 1)
  /\ log' = IF i \in Slots THEN [log EXCEPT ![i] = <<Len(next) + 1>> \o @] ELSE log
  /\ UNCHANGED <<pc, reply, restored, nulled>>

\* (store i (load j)): the first measurement of j's chain is linked again
StoreLoaded(i, j) ==
  /\ pc = "idle" /\ Loaded(j) # NULL
  /\ \E found \in Found(i) : next' = [next EXCEPT ![Loaded(j)] = found]
  /\ Put(i, Loaded(j))
  /\ restored' = TRUE
  /\ UNCHANGED <<pc, reply, log, nulled>>

\* (store i (load j)) of an empty slot, (store i (measure f)) without a target
StoreNull ==
  /\ pc = "idle"
  /\ pc' = "crashed" /\ nulled' = TRUE
  /\ UNCHANGED <<heap, reply, log, restored>>

\* What lies behind the context was overwritten, and is used.
Corrupted ==
  /\ outside # {} /\ pc # "crashed"
  /\ pc' = "crashed"
  /\ UNCHANGED <<heap, reply, hist>>

\* (load i): BE_rhandler_dispatch prints the value, BE_get_request makes JSON
\* of it; both follow the chain, and the response is what the second makes.
Load(i) ==
  /\ pc = "idle"
  /\ pc' = "answer" /\ ms' = Loaded(i) /\ depth' = 0 /\ answer' = <<>>
  /\ UNCHANGED <<heap, response, hist>>

Descend ==
  /\ pc = "answer" /\ ms # NULL /\ depth < StackDepth
  /\ answer' = Append(answer, ms) /\ ms' = next[ms] /\ depth' = depth + 1
  /\ UNCHANGED <<heap, pc, response, hist>>

StackOverflow ==
  /\ pc = "answer" /\ ms # NULL /\ depth = StackDepth
  /\ pc' = "crashed"
  /\ UNCHANGED <<heap, reply, hist>>

SendResponse ==
  /\ pc = "answer" /\ ms = NULL
  /\ response' = answer /\ pc' = "idle"
  /\ UNCHANGED <<heap, ms, depth, answer, hist>>

Answer == Descend \/ StackOverflow \/ SendResponse

Next ==
  \/ \E i \in Indexes : StoreFresh(i) \/ Load(i)
  \/ \E i, j \in Indexes : StoreLoaded(i, j)
  \/ StoreNull \/ Corrupted
  \/ Answer

Spec == Init /\ [][Next]_vars

\* The recursion is one thread's, and nothing interrupts it.
FairSpec == Spec /\ WF_vars(Answer)
-----------------------------------------------------------------------------
TypeOK ==
  /\ next \in Seq(Nat) /\ \A m \in Taken : next[m] \in Taken \cup {NULL}
  /\ store \in [Slots -> Taken \cup {NULL}]
  /\ outside \subseteq Indexes
  /\ pc \in {"idle", "answer", "crashed"}
  /\ ms \in Taken \cup {NULL} /\ depth \in 0 .. StackDepth
  /\ answer \in Seq(Taken) /\ response \in Seq(Taken)
  /\ log \in [Slots -> Seq(Taken)] /\ restored \in BOOLEAN /\ nulled \in BOOLEAN

\* From measurement "first" on, the chain is the sequence s.
IsChain(first, s) ==
  /\ first = IF s = <<>> THEN NULL ELSE s[1]
  /\ \A k \in 1 .. Len(s) : next[s[k]] = IF k = Len(s) THEN NULL ELSE s[k + 1]

\* As long as no loaded measurement was stored, the chain of each slot is what
\* was stored there, newest first: nothing is lost, shared with another slot or
\* linked twice (ME_API_store links into the measurement itself).
ChainsAreLogs ==
  ~restored => \A i \in Slots : IsChain(store[i], log[i])

\* The measurer crashes here only on a NULL that is stored, on a measurement
\* that was stored again or on what was written past the end of the store.
CrashesAreExplained == pc = "crashed" => nulled \/ restored \/ outside # {}

\* Unless a loaded measurement was stored, a load is answered: the recursion
\* along the chain comes to its end before that of the stack.
LoadsAreAnswered == pc = "answer" /\ ~restored ~> pc = "idle" \/ outside # {}

\* The inductive invariant: "next" points to older measurements, so the rest of
\* a chain is never longer than the number of the measurement it starts at.
PointsBackInv == ~restored => \A m \in Taken : next[m] < m

DepthInv ==
  /\ Len(next) <= MaxMeasurements
  /\ pc = "answer" /\ ~restored => depth + ms <= Len(next)

\* The answer is a prefix of the log that it will be, and ms is where it goes on.
LogAt(i) == IF i \in Slots THEN log[i] ELSE <<>>

AnswersWith(l) ==
  /\ Len(answer) <= Len(l)
  /\ \A k \in 1 .. Len(answer) : answer[k] = l[k]
  /\ ms = IF Len(answer) = Len(l) THEN NULL ELSE l[Len(answer) + 1]

AnswerInv == pc = "answer" /\ ~restored => \E i \in Indexes : AnswersWith(LogAt(i))

StoreInv ==
  /\ TypeOK /\ ChainsAreLogs /\ CrashesAreExplained /\ PointsBackInv /\ DepthInv
  /\ AnswerInv

\* Until a loaded measurement is stored, the store is a log of each slot.
Log == INSTANCE MeasurementLog WITH taken <- Len(next)
StoreImplementsLog == Log!Spec

\* Nothing is written past the end of the store: "Could not store beyond bounds
\* of measurement store!" (ME_API_store).
StoresStayInBounds == outside = {}
=============================================================================
