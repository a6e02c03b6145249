------------------------- MODULE ObservationProofs -------------------------
(* Proofs about measuring, for stacks of any depth and any set of names:   *)
(* what a call that stops the target itself reads, and what a call of an   *)
(* action may miss.                                                        *)
EXTENDS Observation, TLAPS

(***************************************************************************)
(* The inductive invariant: frames from "from" to the selected one do not  *)
(* see the name that is looked for, and only a call that is not the first  *)
(* of its stop begins anywhere but at the innermost frame.                 *)
(***************************************************************************)

BeginInv ==
  /\ pc \in Features \cup {"done", "crashed"} => calls >= 1 /\ from \in 1 .. Len(frames)
  /\ pc \in Features \cup {"done", "crashed"} /\ from # 1 => ~mine /\ calls > 1
  /\ pc = "action" => ~mine /\ (selected # 1 => calls >= 1)
  /\ pc \in {"var", "mem"} => name \in Vars
  /\ pc = "callstack" => name = NoName

SearchInv ==
  /\ pc = "var" => from <= selected /\ \A k \in Sees(name) : k < selected => k < from
  /\ pc \in {"mem", "crashed"} => selected = from
  /\ pc = "crashed" => name \notin Here.seen
  /\ pc = "done" /\ name # NoName => found = 0 \/ found \in Sees(name)

WalkInv ==
  pc = "callstack" =>
    \E n \in 0 .. Len(frames) : walked = [k \in 1 .. n |-> k]

Inv ==
  /\ TypeOK /\ BeginInv /\ SearchInv /\ WalkInv
  /\ OnlyFramesAlreadyLeftAreMissed /\ CallStackIsWhole

LEMMA StacksAreFrames ==
  ASSUME NEW s \in Stacks PROVE s \in Seq(Frames) /\ Len(s) \in Nat \ {0} /\ s # <<>>
  BY ObservationAssumption DEF Stacks

\* A measurement begins with its feature, at the frame that is selected.
LEMMA BeginStep ==
  ASSUME NEW f \in Features, Begin(f), frames' \in Seq(Frames), selected' \in 1 .. Len(frames'),
         selected' # 1 => calls >= 1 /\ ~mine', mine' \in BOOLEAN, calls \in Nat
  PROVE  Inv'
<1>1. /\ pc' = f /\ from' = selected' /\ walked' = <<>> /\ found' = 0 /\ calls < MaxCalls
      /\ calls' = calls + 1 /\ name' \in IF f = "callstack" THEN {NoName} ELSE Vars
  BY DEF Begin
<1>2. Len(frames') \in Nat /\ frames' # <<>>
  OBVIOUS
<1>3. TypeOK'
  BY <1>1, <1>2, ObservationAssumption DEF TypeOK, Features
<1>4. BeginInv'
  BY <1>1, <1>2 DEF BeginInv, Features
<1>5. SearchInv'
  BY <1>1, <1>2 DEF SearchInv, Sees, Features
<1>6. WalkInv'
  <2>1. walked' = [k \in 1 .. 0 |-> k]
    BY <1>1
  <2> QED BY <1>2, <2>1 DEF WalkInv
<1>7. OnlyFramesAlreadyLeftAreMissed' /\ CallStackIsWhole'
  BY <1>1 DEF OnlyFramesAlreadyLeftAreMissed, CallStackIsWhole, Features
<1> QED BY <1>3, <1>4, <1>5, <1>6, <1>7 DEF Inv

\* The steps of a measurement keep the invariant.
LEMMA MeasuringStep ==
  ASSUME Inv, Measuring PROVE Inv'
<1>1. /\ frames \in Seq(Frames) /\ Len(frames) \in Nat /\ selected \in Nat /\ from \in Nat
      /\ pc \in Features /\ frames # <<>> /\ selected \in 1 .. Len(frames)
      /\ UNCHANGED <<frames, mine, name, from, calls>>
  BY DEF Inv, TypeOK, Measuring, ReadVar, ReadFails, MoveUp, ReadMemory, WalkFrame, Features
<1>2. TypeOK /\ BeginInv
  BY DEF Inv
<1>3. CASE ReadVar
  <2>1. /\ pc = "var" /\ name \in frames[selected].seen /\ found' = selected /\ pc' = "done"
        /\ UNCHANGED <<selected, walked>>
    BY <1>3 DEF ReadVar, Here
  <2>2. name \in Vars /\ \A k \in Sees(name) : k < selected => k < from
    BY <2>1 DEF Inv, BeginInv, SearchInv
  <2>3. name # NoName /\ found' # 0 /\ found' \in Sees(name)'
    BY <1>1, <2>1, <2>2, ObservationAssumption DEF Sees
  <2>4. TypeOK' /\ BeginInv'
    BY <1>1, <1>2, <2>1, <2>2 DEF TypeOK, BeginInv, Features
  <2>5. SearchInv' /\ OnlyFramesAlreadyLeftAreMissed'
    BY <1>1, <2>1, <2>2, <2>3 DEF SearchInv, OnlyFramesAlreadyLeftAreMissed, Sees
  <2> QED BY <1>1, <2>1, <2>3, <2>4, <2>5 DEF Inv, WalkInv, CallStackIsWhole
<1>4. CASE ReadFails
  <2>1. pc' = "unwound" /\ UNCHANGED <<selected, walked, found>>
    BY <1>4 DEF ReadFails
  <2>2. TypeOK' /\ BeginInv'
    BY <1>1, <1>2, <2>1 DEF TypeOK, BeginInv, Features, Lost
  <2> QED BY <2>1, <2>2 DEF Inv, SearchInv, WalkInv, OnlyFramesAlreadyLeftAreMissed, CallStackIsWhole
<1>5. CASE MoveUp
  <2>1. pc = "var" /\ name \notin frames[selected].seen /\ walked' = walked
    BY <1>5 DEF MoveUp, Here
  <2>2. name \in Vars /\ from <= selected /\ \A k \in Sees(name) : k < selected => k < from
    BY <2>1 DEF Inv, BeginInv, SearchInv
  <2>3. \A k \in Sees(name) : k \in 1 .. Len(frames) /\ k # selected
    BY <2>1 DEF Sees
  <2>4. CASE selected = Len(frames) /\ pc' = "done" /\ found' = 0 /\ selected' = selected
    <3>1. TypeOK' /\ BeginInv'
      BY <1>1, <1>2, <2>1, <2>2, <2>4 DEF TypeOK, BeginInv, Features
    <3>2. \A k \in Sees(name)' : k < from
      BY <1>1, <2>2, <2>3, <2>4 DEF Sees
    <3>3. SearchInv' /\ OnlyFramesAlreadyLeftAreMissed'
      BY <1>1, <2>4, <3>2 DEF SearchInv, OnlyFramesAlreadyLeftAreMissed
    <3>4. CallStackIsWhole' /\ WalkInv'
      BY <1>1, <2>2, <2>4, ObservationAssumption DEF CallStackIsWhole, WalkInv
    <3> QED BY <3>1, <3>3, <3>4 DEF Inv
  <2>5. CASE selected # Len(frames) /\ selected' = selected + 1 /\ UNCHANGED <<pc, found>>
    <3>1. TypeOK' /\ BeginInv'
      BY <1>1, <1>2, <2>1, <2>2, <2>5 DEF TypeOK, BeginInv, Features
    <3>2. \A k \in Sees(name)' : k < selected' => k < from
      BY <1>1, <2>2, <2>3, <2>5 DEF Sees
    <3>3. SearchInv'
      BY <1>1, <2>1, <2>2, <2>5, <3>2 DEF SearchInv
    <3> QED BY <2>1, <2>5, <3>1, <3>3 DEF Inv, OnlyFramesAlreadyLeftAreMissed, CallStackIsWhole, WalkInv
  <2> QED BY <1>1, <1>5, <2>4, <2>5 DEF MoveUp, Outermost
<1>6. CASE ReadMemory
  <2>1. pc = "mem" /\ UNCHANGED <<selected, walked>> /\ selected = from /\ name \in Vars
    BY <1>6 DEF ReadMemory, Inv, SearchInv, BeginInv
  <2>2. CASE name \in frames[selected].seen /\ pc' = "done" /\ found' = selected
    <3>1. found' # 0 /\ found' \in Sees(name)' /\ name # NoName
      BY <1>1, <2>1, <2>2, ObservationAssumption DEF Sees
    <3>2. TypeOK' /\ BeginInv'
      BY <1>1, <1>2, <2>1, <2>2 DEF TypeOK, BeginInv, Features
    <3>3. SearchInv' /\ OnlyFramesAlreadyLeftAreMissed'
      BY <1>1, <2>1, <2>2, <3>1 DEF SearchInv, OnlyFramesAlreadyLeftAreMissed
    <3> QED BY <1>1, <2>2, <3>1, <3>2, <3>3 DEF Inv, CallStackIsWhole, WalkInv
  <2>3. CASE name \notin frames[selected].seen /\ pc' = "crashed" /\ found' = found
    <3>1. TypeOK' /\ BeginInv'
      BY <1>1, <1>2, <2>1, <2>3 DEF TypeOK, BeginInv, Features, Lost
    <3>2. SearchInv'
      BY <1>1, <2>1, <2>3 DEF SearchInv, Here
    <3> QED BY <2>3, <3>1, <3>2 DEF Inv, OnlyFramesAlreadyLeftAreMissed, CallStackIsWhole, WalkInv
  <2> QED BY <1>6, <2>2, <2>3 DEF ReadMemory, Here
<1>7. CASE WalkFrame
  <2>1. pc = "callstack" /\ name = NoName /\ UNCHANGED <<selected, found>>
    BY <1>7 DEF WalkFrame, Inv, BeginInv
  <2>2. PICK n \in 0 .. Len(frames) : walked = [k \in 1 .. n |-> k]
    BY <2>1 DEF Inv, WalkInv
  <2> DEFINE fi == IF walked = <<>> THEN CurrentFrame ELSE walked[Len(walked)] + 1
  <2>3. fi = n + 1
    <3>1. walked \in Seq(Nat) /\ Len(walked) = n
      BY <1>1, <2>2
    <3>2. CASE n = 0
      BY <3>1, <3>2 DEF CurrentFrame
    <3>3. CASE n # 0
      <4>1. walked # <<>> /\ walked[Len(walked)] = n
        BY <1>1, <2>2, <3>1, <3>3
      <4> QED BY <4>1
    <3> QED BY <3>2, <3>3
  <2>4. \/ fi > Len(frames) /\ pc' = "done" /\ walked' = walked
        \/ fi <= Len(frames) /\ frames[fi].trampoline /\ pc' = "exited" /\ walked' = walked
        \/ fi <= Len(frames) /\ pc' = pc /\ walked' = Append(walked, fi)
    BY <1>1, <1>7, <2>3 DEF WalkFrame
  <2> HIDE DEF fi
  <2>5. CASE fi > Len(frames) /\ pc' = "done" /\ walked' = walked
    <3>1. n = Len(frames)
      BY <1>1, <2>3, <2>5
    <3>2. TypeOK' /\ BeginInv'
      BY <1>1, <1>2, <2>1, <2>5 DEF TypeOK, BeginInv, Features
    <3> QED BY <1>1, <2>1, <2>2, <2>5, <3>1, <3>2
            DEF Inv, SearchInv, OnlyFramesAlreadyLeftAreMissed, CallStackIsWhole, WalkInv
  <2>6. CASE fi <= Len(frames) /\ frames[fi].trampoline /\ pc' = "exited" /\ walked' = walked
    <3>1. fi \in 1 .. Len(frames')
      BY <1>1, <2>3, <2>6
    <3>2. TypeOK' /\ BeginInv'
      BY <1>1, <1>2, <2>1, <2>6 DEF TypeOK, BeginInv, Features, Lost
    <3> QED BY <1>1, <2>6, <3>1, <3>2
            DEF Inv, SearchInv, OnlyFramesAlreadyLeftAreMissed, CallStackIsWhole, WalkInv
  <2>7. CASE fi <= Len(frames) /\ pc' = pc /\ walked' = Append(walked, fi)
    <3>1. walked' = [k \in 1 .. n + 1 |-> k] /\ walked' \in Seq(Nat)
      BY <1>1, <2>2, <2>3, <2>7
    <3>2. n + 1 \in 0 .. Len(frames')
      BY <1>1, <2>3, <2>7
    <3>3. TypeOK' /\ BeginInv'
      BY <1>1, <1>2, <2>1, <2>7, <3>1 DEF TypeOK, BeginInv, Features
    <3>4. WalkInv'
      BY <3>1, <3>2 DEF WalkInv
    <3> QED BY <2>1, <2>7, <3>3, <3>4 DEF Inv, SearchInv, OnlyFramesAlreadyLeftAreMissed, CallStackIsWhole
  <2> QED BY <2>4, <2>5, <2>6, <2>7
<1> QED BY <1>3, <1>4, <1>5, <1>6, <1>7 DEF Measuring

\* So do stops and the end of a measurement or of an action.
LEMMA StopStep ==
  ASSUME Inv, NEW s \in Stacks, HookStop(s) PROVE Inv'
<1>1. s \in Seq(Frames) /\ Len(s) \in Nat \ {0} /\ s # <<>>
  BY StacksAreFrames
<1>2. /\ frames' = s /\ selected' = 1 /\ pc' = "action" /\ mine' = FALSE /\ calls' = 0
      /\ UNCHANGED <<name, from, walked, found>>
  BY DEF HookStop, Stops
<1>3. TypeOK'
  <2>1. 0 \in 0 .. MaxCalls /\ 1 \in 1 .. Len(s)
    BY <1>1, ObservationAssumption
  <2> QED BY <1>1, <1>2, <2>1 DEF Inv, TypeOK
<1> QED BY <1>2, <1>3, Zenon DEF Inv, BeginInv, SearchInv, WalkInv, OnlyFramesAlreadyLeftAreMissed,
           CallStackIsWhole, Features

LEMMA EndStep ==
  ASSUME Inv, Finish \/ Resume PROVE Inv'
<1>1. UNCHANGED <<selected, mine, name, from, walked, found>> /\ TypeOK /\ BeginInv
  BY DEF Finish, Resume, Inv
<1>2. CASE pc' = "running" /\ frames' = <<>> /\ calls' = 0
  <2>1. TypeOK'
    BY <1>1, <1>2, ObservationAssumption DEF TypeOK
  <2> QED BY <1>2, <2>1 DEF Inv, BeginInv, SearchInv, WalkInv, OnlyFramesAlreadyLeftAreMissed,
             CallStackIsWhole, Features
<1>3. CASE pc = "done" /\ ~mine /\ pc' = "action" /\ UNCHANGED <<frames, calls>>
  <2>1. TypeOK' /\ BeginInv'
    BY <1>1, <1>3 DEF TypeOK, BeginInv, Features
  <2> QED BY <1>3, <2>1 DEF Inv, SearchInv, WalkInv, OnlyFramesAlreadyLeftAreMissed,
             CallStackIsWhole, Features
<1> QED BY <1>2, <1>3 DEF Finish, Resume

LEMMA InitInv ==
  ASSUME Init PROVE Inv
<1>1. TypeOK
  <2>1. 0 \in 0 .. MaxCalls
    BY ObservationAssumption
  <2>2. frames \in Seq(Frames) /\ walked \in Seq(Nat)
    BY DEF Init
  <2>3. pc \in {"running", "action", "done"} \cup Features \cup Lost
    BY DEF Init
  <2> QED BY <2>1, <2>2, <2>3 DEF Init, TypeOK
<1> QED BY <1>1 DEF Init, Inv, BeginInv, SearchInv, WalkInv, OnlyFramesAlreadyLeftAreMissed,
           CallStackIsWhole, Features

\* The inductive invariant holds of every sequence of measurements
\* (ME_API_measure).
THEOREM ObservationInvariance == Spec => []Inv
<1>1. ASSUME Inv, NEW s \in Stacks, NEW f \in Features, MeasureRunning(s, f) PROVE Inv'
  <2>1. s \in Seq(Frames) /\ Len(s) \in Nat \ {0}
    BY StacksAreFrames
  <2>2. frames' = s /\ selected' = 1 /\ mine' = TRUE /\ Begin(f) /\ calls \in Nat
    BY <1>1, ObservationAssumption DEF MeasureRunning, Stops, Inv, TypeOK
  <2> QED BY <2>1, <2>2, BeginStep
<1>2. ASSUME Inv, NEW f \in Features, MeasureStopped(f) PROVE Inv'
  <2>1. pc = "action" /\ UNCHANGED <<frames, selected, mine>> /\ Begin(f)
    BY <1>2 DEF MeasureStopped
  <2>2. frames \in Seq(Frames) /\ selected \in 1 .. Len(frames) /\ calls \in Nat /\ mine \in BOOLEAN
    BY <1>2, <2>1, ObservationAssumption DEF Inv, TypeOK
  <2>3. selected # 1 => calls >= 1
    BY <1>2, <2>1 DEF Inv, BeginInv
  <2>4. ~mine
    BY <1>2, <2>1 DEF Inv, BeginInv
  <2> QED BY <2>1, <2>2, <2>3, <2>4, BeginStep
<1>3. Inv /\ UNCHANGED vars => Inv'
  BY DEF vars, Inv, TypeOK, BeginInv, SearchInv, WalkInv, OnlyFramesAlreadyLeftAreMissed,
         CallStackIsWhole, Sees, Here
<1>4. Inv /\ [Next]_vars => Inv'
  BY <1>1, <1>2, <1>3, MeasuringStep, StopStep, EndStep DEF Next
<1> QED BY <1>4, InitInv, PTL DEF Spec

\* A measurement that stopped the target itself reads the innermost binding.
THEOREM OwnStopsReadInnermost == Spec => []OwnStopReadsInnermost
<1>1. Inv => OwnStopReadsInnermost
  <2>1. SUFFICES ASSUME Inv, mine, pc = "done", name # NoName
                 PROVE  IF found = 0 THEN Sees(name) = {}
                        ELSE found \in Sees(name) /\ \A k \in Sees(name) : found <= k
    BY DEF OwnStopReadsInnermost
  <2>2. from = 1 /\ found \in Nat
    BY <2>1 DEF Inv, BeginInv, TypeOK
  <2>3. \A k \in Sees(name) : k \in Nat \ {0} /\ ((found = 0 \/ k < found) => k < from)
    BY <2>1 DEF Inv, OnlyFramesAlreadyLeftAreMissed, Sees, TypeOK
  <2>4. found = 0 \/ found \in Sees(name)
    BY <2>1 DEF Inv, SearchInv
  <2> QED BY <2>2, <2>3, <2>4
<1> QED BY <1>1, ObservationInvariance, PTL

\* What a search of an action passes over was left by an earlier one.
THEOREM MissedFramesWereLeft == Spec => []OnlyFramesAlreadyLeftAreMissed
<1>1. Inv => OnlyFramesAlreadyLeftAreMissed
  BY DEF Inv
<1> QED BY <1>1, ObservationInvariance, PTL

\* A call stack has all frames of the target.
THEOREM CallStacksAreWhole == Spec => []CallStackIsWhole
<1>1. Inv => CallStackIsWhole
  BY DEF Inv
<1> QED BY <1>1, ObservationInvariance, PTL

\* Only a measurement after another of the same stop crashes at an address
\* that the innermost frame sees.
THEOREM MemoryCrashesHaveACause == Spec => []MemoryCrashNeedsEarlierSearch
<1>1. Inv => MemoryCrashNeedsEarlierSearch
  <2>1. SUFFICES ASSUME Inv, pc = "crashed", name \in frames[1].seen PROVE ~mine /\ calls > 1
    BY DEF MemoryCrashNeedsEarlierSearch
  <2>2. from # 1
    BY <2>1 DEF Inv, SearchInv, Here
  <2> QED BY <2>1, <2>2 DEF Inv, BeginInv
<1> QED BY <1>1, ObservationInvariance, PTL
=============================================================================
