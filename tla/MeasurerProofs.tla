--------------------------- MODULE MeasurerProofs ---------------------------
(* Proofs of the safety properties of MeasurerProperties for every target, *)
(* location, request and bound.                                            *)
(*                                                                         *)
(* The first part is about the loop and its API.  The second, from "One-   *)
(* shot hooks" on, is about what the hooks promise, for every set of       *)
(* requests: a one-shot breakpoint hook runs its action at most once; an   *)
(* action starts with the target stopped where the hook's event said;      *)
(* gdb's breakpoints are those of the enabled breakpoint hooks; a fetched  *)
(* hit runs a hook; the measurer crashes only of what CrashesNeedACause    *)
(* names; and the hooks together implement HookService.                    *)
EXTENDS MeasurerProperties, TLAPS, WellFoundedInduction, SequenceTheorems

USE DEF ctx, hookv, bpv, tracev, procv, driverv, target, place, thread,
        Call, Evaluating, InBody, Return, Returns, Fails, Unwind

\* A nonempty set of natural numbers has a smallest element.
LEMMA SmallestExists ==
  ASSUME NEW T \in SUBSET Nat, T # {}
  PROVE  \E n \in T : \A k \in T : n <= k
<1> DEFINE R == OpToRel(<, Nat)
<1>1. IsWellFoundedOn(R, Nat)
  BY NatLessThanWellFounded
<1>2. PICK n \in T : \A k \in T : ~ (<<k, n>> \in R)
  <2> HIDE DEF R
  <2> QED BY <1>1, WFMin
<1>3. \A k \in T : ~ (k < n)
  BY <1>2 DEF OpToRel
<1> QED BY <1>3

\* The bpstat of a stop at a breakpoint that gdb knows has a first entry, and
\* it is a breakpoint at the place of the stop.
LEMMA FirstAtIsThere ==
  ASSUME breakpoints \subseteq [num : Nat, loc : Places],
         NEW l, \E b \in breakpoints : b.loc = l
  PROVE  \E b \in breakpoints : b.num = FirstAt(l) /\ b.loc = l
<1> DEFINE T == {b.num : b \in {c \in breakpoints : c.loc = l}}
           Is(n) == /\ \E b \in breakpoints : b.num = n /\ b.loc = l
                    /\ \A b \in breakpoints : b.loc = l => n <= b.num
<1>1. PICK n \in T : \A k \in T : n <= k
  <2>1. T \in SUBSET Nat /\ T # {}
    OBVIOUS
  <2> HIDE DEF T
  <2> QED BY <2>1, SmallestExists
<1>2. n \in {b.num : b \in breakpoints} /\ Is(n)
  BY <1>1
<1>3. FirstAt(l) = CHOOSE k \in {b.num : b \in breakpoints} : Is(k)
  BY DEF FirstAt
<1>4. Is(FirstAt(l))
  <2> HIDE DEF Is
  <2> QED BY <1>2, <1>3
<1> QED BY <1>4

\* A call that is being evaluated is one of Calls, and so are those after it.
LEMMA CallsTyped ==
  ASSUME calls \in Seq(Calls), calls # <<>>
  PROVE  Call \in Calls /\ Tail(calls) \in Seq(Calls)
  OBVIOUS

\* Writing a field of a hook leaves an array of as many hooks.
LEMMA HookWritten ==
  ASSUME hooks \in Seq(HookRecords), NEW k \in Int
  PROVE  /\ \A b \in BOOLEAN :
              /\ [hooks EXCEPT ![k].enabled = b] \in Seq(HookRecords)
              /\ [hooks EXCEPT ![k].due = b] \in Seq(HookRecords)
         /\ [hooks EXCEPT ![k].fired = IF @ < 2 THEN @ + 1 ELSE @] \in Seq(HookRecords)
         /\ Len([hooks EXCEPT ![k].due = TRUE]) = Len(hooks)
<1> DEFINE set(h) == [hooks EXCEPT ![k] = h]
<1>1. ASSUME NEW h, k \in 1 .. Len(hooks) => h \in HookRecords
      PROVE  set(h) \in Seq(HookRecords) /\ Len(set(h)) = Len(hooks)
  <2>1. CASE k \in 1 .. Len(hooks)
    BY <1>1, <2>1, ExceptSeq
  <2>2. CASE k \notin 1 .. Len(hooks)
    <3>1. set(h) = hooks
      BY <2>2
    <3> QED BY <3>1
  <2> QED BY <2>1, <2>2
<1>2. ASSUME k \in 1 .. Len(hooks)
      PROVE  hooks[k] \in HookRecords
  BY <1>2
<1>3. ASSUME NEW b \in BOOLEAN
      PROVE  LET s == [hooks EXCEPT ![k].enabled = b]
             IN s \in Seq(HookRecords) /\ Len(s) = Len(hooks)
  <2>1. [hooks EXCEPT ![k].enabled = b] = set([hooks[k] EXCEPT !.enabled = b])
    OBVIOUS
  <2>2. ASSUME NEW h \in HookRecords PROVE [h EXCEPT !.enabled = b] \in HookRecords
    BY DEF HookRecords
  <2> DEFINE new == [hooks[k] EXCEPT !.enabled = b]
  <2>3. k \in 1 .. Len(hooks) => new \in HookRecords
    BY <2>2, <1>2
  <2> HIDE DEF set, new
  <2>4. set(new) \in Seq(HookRecords) /\ Len(set(new)) = Len(hooks)
    BY <2>3, <1>1
  <2> QED BY <2>1, <2>4 DEF new
<1>4. ASSUME NEW b \in BOOLEAN
      PROVE  LET s == [hooks EXCEPT ![k].due = b]
             IN s \in Seq(HookRecords) /\ Len(s) = Len(hooks)
  <2>1. [hooks EXCEPT ![k].due = b] = set([hooks[k] EXCEPT !.due = b])
    OBVIOUS
  <2>2. ASSUME NEW h \in HookRecords PROVE [h EXCEPT !.due = b] \in HookRecords
    BY DEF HookRecords
  <2> DEFINE new == [hooks[k] EXCEPT !.due = b]
  <2>3. k \in 1 .. Len(hooks) => new \in HookRecords
    BY <2>2, <1>2
  <2> HIDE DEF set, new
  <2>4. set(new) \in Seq(HookRecords) /\ Len(set(new)) = Len(hooks)
    BY <2>3, <1>1
  <2> QED BY <2>1, <2>4 DEF new
<1>5. LET s == [hooks EXCEPT ![k].fired = IF @ < 2 THEN @ + 1 ELSE @]
      IN s \in Seq(HookRecords) /\ Len(s) = Len(hooks)
  <2>1. [hooks EXCEPT ![k].fired = IF @ < 2 THEN @ + 1 ELSE @] =
          set([hooks[k] EXCEPT !.fired = IF @ < 2 THEN @ + 1 ELSE @])
    OBVIOUS
  <2>2. ASSUME NEW h \in HookRecords
        PROVE  [h EXCEPT !.fired = IF @ < 2 THEN @ + 1 ELSE @] \in HookRecords
    BY DEF HookRecords
  <2> DEFINE new == [hooks[k] EXCEPT !.fired = IF @ < 2 THEN @ + 1 ELSE @]
  <2>3. k \in 1 .. Len(hooks) => new \in HookRecords
    BY <2>2, <1>2
  <2> HIDE DEF set, new
  <2>4. set(new) \in Seq(HookRecords) /\ Len(set(new)) = Len(hooks)
    BY <2>3, <1>1
  <2> QED BY <2>1, <2>4 DEF new
<1> HIDE DEF set
<1> QED BY <1>3, <1>4, <1>5

\* A hook's action is a sequence of calls.
LEMMA ActionTyped ==
  ASSUME hooks \in Seq(HookRecords), cursor \in Nat, IsHook(cursor)
  PROVE  Current.action \in Seq(Calls)
<1>1. hooks[cursor + 1] \in HookRecords
  BY DEF IsHook
<1> QED BY <1>1 DEF Current, Hook, HookRecords

\* The values that calls return.
LEMMA ValuesTyped ==
  /\ Void \in Values /\ Null \in Values /\ Taken \in Values
  /\ \A bp \in Nat, l \in Places \cup {NoLoc}, r \in BOOLEAN, k \in {"T", "B"} :
       [type |-> "event", kind |-> k, bp |-> bp, loc |-> l, repeat |-> r] \in Values
  BY DEF Values, Void, Null, Taken

\* What gdb lets go of stays typed.
LEMMA LetGoTyped ==
  ASSUME ProcessTypes, NEW left \in SUBSET Places, NEW interrupted, LetGo(left, interrupted)
  PROVE  ProcessTypes'
<1>1. stale' \in [Pids -> SUBSET Places]
  BY DEF LetGo, ProcessTypes
<1> QED BY <1>1 DEF LetGo, ProcessTypes

LEMMA TrapsTyped ==
  ASSUME GdbTypes PROVE InsertedTraps \in SUBSET Places /\ TrapsAtDetach \in SUBSET Places
  BY DEF GdbTypes, InsertedTraps, TrapsAtDetach, Places

\* The context keeps its types.
LEMMA ContextTypesStep ==
  ASSUME IInv, Next PROVE ContextTypes'
<1> USE DEF ContextTypes
<1>1. ContextTypes /\ ThreadTypes
  BY DEF IInv, TypeOK
<1>2. calls # <<>> /\ Call.op = "set_target" => Call.pid \in Pids
  BY <1>1, CallsTyped, CallsAreWellFormed DEF ThreadTypes
<1>3. CASE StartEventLoop \/ RestartFails \/ GetRequest \/ NoRequest
           \/ DriverClosed \/ Respond
  BY <1>1, <1>2, <1>3 DEF StartEventLoop, RestartFails, Die, Ends, LetGo,
     InsertedTraps, GetRequest, NoRequest, DriverClosed, Respond
<1>4. CASE SkipContinuous \/ FetchNothing \/ FetchBreakpoint \/ FetchExit
           \/ FetchCrashes \/ ContinueTarget
  BY <1>1, <1>2, <1>4 DEF SkipContinuous, FetchNothing, FetchBreakpoint,
     Consume, FetchExit, FetchCrashes, Ends, LetGo, ContinueTarget, Continue
<1>5. CASE ScanCrashes \/ EndScan \/ SkipHook \/ TimedHook \/ TimedHookStopped
           \/ TimedHookDone
  BY <1>1, <1>2, <1>5 DEF ScanCrashes, Die, Ends, LetGo, InsertedTraps,
     EndScan, SkipHook, Step, TimedHook, Run, Interrupt, TimedHookStopped,
     TimedHookDone
<1>6. CASE BreakpointHook \/ BreakpointHookDone
  BY <1>1, <1>2, <1>6 DEF BreakpointHook, Run, IsReached, BreakpointHookDone,
     Step, Delete
<1>7. CASE WaitForInferior \/ WaitForever \/ Detach \/ Quit
  BY <1>1, <1>2, <1>7 DEF WaitForInferior, Consume, WaitForever, Detach,
     KeepTarget, DetachTarget, LetGo, ExitPending, Quit
<1>8. CASE SetTarget
  <2>1. (Call.pid \in alive') \in BOOLEAN
    OBVIOUS
  <2>2. attached' \in BOOLEAN
    BY <1>1, <2>1, <1>8 DEF SetTarget, KeepTarget
  <2> QED BY <1>1, <1>2, <2>2, <1>8 DEF SetTarget, KeepTarget
<1>9. CASE DetachCrashes \/ StartObservation \/ StartBreakpointCall
           \/ MeasureOK \/ GdbOK \/ ObservationFails
  BY <1>1, <1>2, <1>9 DEF DetachCrashes, Die, Ends, LetGo, InsertedTraps,
     StartObservation, Interrupt, StartBreakpointCall, MeasureOK, Leave,
     Continue, Untouched, FrameSelected, GdbOK, ObservationFails
<1>10. CASE ExpressionCrashes \/ Reach \/ Delay \/ AddHook \/ AddHookCrashes
           \/ Enable
  BY <1>1, <1>2, <1>10 DEF ExpressionCrashes, Die, Ends, LetGo, InsertedTraps,
     Reach, Leave, Continue, Untouched, Delay, AddHook, AddHookCrashes,
     Enable, Toggle
<1>11. CASE Disable \/ StartKill \/ Kill \/ Store \/ StoreCrashes \/ Malformed
  BY <1>1, <1>2, <1>11 DEF Disable, Toggle, StartKill, Interrupt, Kill, Leave,
     Continue, Untouched, Delete, Store, StoreCrashes, Die, Ends, LetGo,
     InsertedTraps, Malformed
<1>12. CASE MalformedCrashes \/ Evaluated
  BY <1>1, <1>2, <1>12 DEF MalformedCrashes, Die, Ends, LetGo, InsertedTraps,
     Evaluated
<1>13. CASE HitBreakpoint \/ TakeInterrupt \/ TakeSignal \/ TargetExits
  BY <1>1, <1>2, <1>13 DEF HitBreakpoint, Stop, Resumed, At, TakeInterrupt,
     TakeSignal, TargetExits
<1>14. CASE \E p \in Pids : UntracedEnds(p)
  BY <1>1, <1>2, <1>14 DEF UntracedEnds
<1>15. CASE DriverGoes
  BY <1>1, <1>2, <1>15 DEF DriverGoes
<1>16. CASE \E r \in Requests : SendRequest(r)
  BY <1>1, <1>2, <1>16 DEF SendRequest
<1>17. CASE \E i \in 0 .. MaxHooks - 1 : ClockPasses(i)
  BY <1>1, <1>2, <1>17 DEF ClockPasses
<1> QED
  BY <1>3, <1>4, <1>5, <1>6, <1>7, <1>8, <1>9, <1>10, <1>11, <1>12, <1>13,
     <1>14, <1>15, <1>16, <1>17 DEF Next, Thread, Loop, Hooks, API, Target,
     Driver, Clock

\* The hooks that were added stay hooks.
LEMMA HookTypesStep ==
  ASSUME IInv, Next PROVE HookTypes'
<1> USE DEF HookTypes
<1>1. HookTypes /\ ThreadTypes
  BY DEF IInv, TypeOK
<1>2. cursor + 1 \in Int
  BY <1>1 DEF ThreadTypes
<1>3. calls # <<>> /\ Call.op \in {"enable", "disable", "kill"} => Call.i + 1 \in Int
  BY <1>1, CallsTyped, CallsAreWellFormed, BoundsAreNaturals DEF ThreadTypes
<1>4. calls # <<>> /\ Call.op = "hook" /\ val.type = "event" =>
        NewHook(val, Call.action) \in HookRecords
  BY <1>1, CallsTyped, CallsAreWellFormed DEF ThreadTypes, NewHook,
     HookRecords, Values, Void, Null, Taken
<1>5. CASE StartEventLoop \/ RestartFails \/ GetRequest \/ NoRequest
           \/ DriverClosed \/ Respond
  BY <1>1, <1>2, <1>3, <1>4, <1>5 DEF StartEventLoop, RestartFails, Die, Ends,
     GetRequest, NoRequest, DriverClosed, Respond
<1>6. CASE SkipContinuous \/ FetchNothing \/ FetchBreakpoint \/ FetchExit
           \/ FetchCrashes \/ ContinueTarget
  BY <1>1, <1>2, <1>3, <1>4, <1>6 DEF SkipContinuous, FetchNothing,
     FetchBreakpoint, Consume, FetchExit, FetchCrashes, Ends, ContinueTarget,
     Continue
<1>7. CASE ScanCrashes \/ EndScan \/ SkipHook
  BY <1>1, <1>2, <1>3, <1>4, <1>7 DEF ScanCrashes, Die, Ends, EndScan,
     SkipHook, Step
<1>8. CASE TimedHook
  <2>1. hooks' \in {hooks, [hooks EXCEPT ![cursor + 1].fired = IF @ < 2 THEN @ + 1 ELSE @]}
    BY <1>2, <1>8 DEF TimedHook, Run
  <2>2. count' = count
    BY <1>8 DEF TimedHook, Run
  <2> QED BY <1>1, <1>2, <2>1, <2>2, HookWritten
<1>9. CASE TimedHookStopped
  <2>1. hooks' \in {hooks, [hooks EXCEPT ![cursor + 1].fired = IF @ < 2 THEN @ + 1 ELSE @]}
    BY <1>2, <1>9 DEF TimedHookStopped, Run
  <2>2. count' = count
    BY <1>9 DEF TimedHookStopped, Run
  <2> QED BY <1>1, <1>2, <2>1, <2>2, HookWritten
<1>10. CASE TimedHookDone
  <2>1. hooks' \in {hooks, [hooks EXCEPT ![cursor + 1].due = FALSE],
                    [hooks EXCEPT ![cursor + 1].enabled = FALSE]}
    BY <1>2, <1>10 DEF TimedHookDone
  <2>2. count' = count
    BY <1>10 DEF TimedHookDone
  <2> QED BY <1>1, <1>2, <2>1, <2>2, HookWritten
<1>11. CASE BreakpointHook
  <2>1. hooks' \in {hooks, [hooks EXCEPT ![cursor + 1].fired = IF @ < 2 THEN @ + 1 ELSE @]}
    BY <1>2, <1>11 DEF BreakpointHook, Run
  <2>2. count' = count
    BY <1>11 DEF BreakpointHook, Run
  <2> QED BY <1>1, <1>2, <2>1, <2>2, HookWritten
<1>12. CASE BreakpointHookDone
  <2>1. hooks' \in {hooks, [hooks EXCEPT ![cursor + 1].enabled = FALSE]}
    BY <1>2, <1>12 DEF BreakpointHookDone
  <2>2. count' = count
    BY <1>12 DEF BreakpointHookDone
  <2> QED BY <1>1, <1>2, <2>1, <2>2, HookWritten
<1>13. CASE WaitForInferior \/ WaitForever \/ Detach \/ Quit \/ SetTarget
           \/ DetachCrashes
  BY <1>1, <1>2, <1>3, <1>4, <1>13 DEF WaitForInferior, Consume, WaitForever,
     Detach, KeepTarget, DetachTarget, ExitPending, Quit, SetTarget,
     DetachCrashes, Die, Ends
<1>14. CASE StartObservation \/ StartBreakpointCall \/ MeasureOK \/ GdbOK
           \/ ObservationFails \/ ExpressionCrashes
  BY <1>1, <1>2, <1>3, <1>4, <1>14 DEF StartObservation, Interrupt,
     StartBreakpointCall, MeasureOK, Leave, Continue, Untouched,
     FrameSelected, GdbOK, ObservationFails, ExpressionCrashes, Die, Ends
<1>15. CASE Reach \/ Delay
  BY <1>1, <1>2, <1>3, <1>4, <1>15 DEF Reach, Leave, Continue, Untouched,
     Delay
<1>16. CASE AddHook
  <2>1. CASE UNCHANGED hooks
    BY <1>1, <2>1, BoundsAreNaturals, <1>16 DEF AddHook
  <2>2. CASE hooks' = Append(hooks, NewHook(val, Call.action))
    BY <1>1, <1>4, <2>2, BoundsAreNaturals, <1>16 DEF AddHook
  <2> QED BY <2>1, <2>2, <1>16 DEF AddHook
<1>17. CASE AddHookCrashes
  BY <1>1, <1>2, <1>3, <1>4, <1>17 DEF AddHookCrashes, Die, Ends
<1>18. CASE Enable
  <2>1. hooks' \in {hooks, [hooks EXCEPT ![Call.i + 1].enabled = TRUE]}
    BY <1>2, <1>18 DEF Enable, Toggle
  <2>2. count' = count
    BY <1>18 DEF Enable, Toggle
  <2> QED BY <1>1, <1>3, <2>1, <2>2, <1>18, HookWritten DEF Enable, Toggle
<1>19. CASE Disable
  <2>1. hooks' \in {hooks, [hooks EXCEPT ![Call.i + 1].enabled = FALSE]}
    BY <1>2, <1>19 DEF Disable, Toggle
  <2>2. count' = count
    BY <1>19 DEF Disable, Toggle
  <2> QED BY <1>1, <1>3, <2>1, <2>2, <1>19, HookWritten DEF Disable, Toggle
<1>20. CASE StartKill
  <2>1. hooks' \in {hooks, [hooks EXCEPT ![Call.i + 1].enabled = FALSE]}
    BY <1>2, <1>20 DEF StartKill
  <2>2. count' = count
    BY <1>20 DEF StartKill
  <2> QED BY <1>1, <1>3, <2>1, <2>2, <1>20, HookWritten DEF StartKill
<1>21. CASE Kill \/ Store \/ StoreCrashes \/ Malformed \/ MalformedCrashes
           \/ Evaluated
  BY <1>1, <1>2, <1>3, <1>4, <1>21 DEF Kill, Leave, Continue, Untouched,
     Delete, Store, StoreCrashes, Die, Ends, Malformed, MalformedCrashes,
     Evaluated
<1>22. CASE HitBreakpoint \/ TakeInterrupt \/ TakeSignal \/ TargetExits
  BY <1>1, <1>2, <1>3, <1>4, <1>22 DEF HitBreakpoint, Stop, Resumed, At,
     TakeInterrupt, TakeSignal, TargetExits
<1>23. CASE \E p \in Pids : UntracedEnds(p)
  BY <1>1, <1>2, <1>3, <1>4, <1>23 DEF UntracedEnds
<1>24. CASE DriverGoes
  BY <1>1, <1>2, <1>3, <1>4, <1>24 DEF DriverGoes
<1>25. CASE \E r \in Requests : SendRequest(r)
  BY <1>1, <1>2, <1>3, <1>4, <1>25 DEF SendRequest
<1>26. CASE \E i \in 0 .. MaxHooks - 1 : ClockPasses(i)
  <2>1. PICK i \in 0 .. MaxHooks - 1 : ClockPasses(i)
    BY <1>26
  <2>2. hooks' = [hooks EXCEPT ![i + 1].due = TRUE] /\ count' = count
    BY <2>1 DEF ClockPasses
  <2>3. i + 1 \in Int
    BY BoundsAreNaturals
  <2> QED BY <1>1, <2>2, <2>3, HookWritten
<1> QED
  BY <1>5, <1>6, <1>7, <1>8, <1>9, <1>10, <1>11, <1>12, <1>13, <1>14, <1>15,
     <1>16, <1>17, <1>18, <1>19, <1>20, <1>21, <1>22, <1>23, <1>24, <1>25,
     <1>26 DEF Next, Thread, Loop, Hooks, API, Target, Driver, Clock

\* What gdb keeps of the target and its breakpoints stays typed.
LEMMA GdbTypesStep ==
  ASSUME IInv, Next PROVE GdbTypes'
<1> USE DEF GdbTypes
<1>1. GdbTypes /\ ContextTypes /\ ProcessTypes /\ ThreadTypes /\ CallInv
  BY DEF IInv, TypeOK
<1>2. event # NoEvent => event.loc \in Places \cup {NoLoc}
  BY <1>1 DEF ProcessTypes, Stops
<1>3. alive \subseteq Pids
  BY <1>1 DEF ProcessTypes
<1>4. calls # <<>> /\ Call.op \in Breakers => Call.loc \in Places
  BY <1>1, CallsTyped, CallsAreWellFormed DEF ThreadTypes
<1>5. calls # <<>> /\ Call.op = "set_target" => Call.pid \in Pids
  BY <1>1, CallsTyped, CallsAreWellFormed DEF ThreadTypes
<1>6. pc = "body" => calls # <<>>
  BY <1>1 DEF CallInv
<1>7. CASE StartEventLoop \/ RestartFails \/ GetRequest \/ NoRequest
           \/ DriverClosed \/ Respond
  BY <1>1, <1>2, <1>3, <1>4, <1>5, <1>6, <1>7 DEF StartEventLoop,
     RestartFails, Die, Ends, LetGo, InsertedTraps, GetRequest, NoRequest,
     DriverClosed, Respond
<1>8. CASE SkipContinuous \/ FetchNothing \/ FetchBreakpoint \/ FetchExit
           \/ FetchCrashes \/ ContinueTarget
  BY <1>1, <1>2, <1>3, <1>4, <1>5, <1>6, <1>8 DEF SkipContinuous,
     FetchNothing, FetchBreakpoint, Consume, FetchExit, FetchCrashes, Ends,
     LetGo, ContinueTarget, Continue
<1>9. CASE ScanCrashes \/ EndScan \/ SkipHook \/ TimedHook \/ TimedHookStopped
           \/ TimedHookDone
  BY <1>1, <1>2, <1>3, <1>4, <1>5, <1>6, <1>9 DEF ScanCrashes, Die, Ends,
     LetGo, InsertedTraps, EndScan, SkipHook, Step, TimedHook, Run, Interrupt,
     TimedHookStopped, TimedHookDone
<1>10. CASE BreakpointHook \/ BreakpointHookDone
  BY <1>1, <1>2, <1>3, <1>4, <1>5, <1>6, <1>10 DEF BreakpointHook, Run,
     IsReached, BreakpointHookDone, Step, Delete
<1>11. CASE WaitForInferior \/ WaitForever \/ Detach \/ Quit \/ SetTarget
           \/ DetachCrashes
  BY <1>1, <1>2, <1>3, <1>4, <1>5, <1>6, <1>11 DEF WaitForInferior, Consume,
     WaitForever, Detach, KeepTarget, DetachTarget, LetGo, ExitPending, Quit,
     SetTarget, DetachCrashes, Die, Ends, InsertedTraps
<1>12. CASE StartObservation \/ StartBreakpointCall \/ MeasureOK \/ GdbOK
           \/ ObservationFails \/ ExpressionCrashes
  BY <1>1, <1>2, <1>3, <1>4, <1>5, <1>6, <1>12 DEF StartObservation,
     Interrupt, StartBreakpointCall, MeasureOK, Leave, Continue, Untouched,
     FrameSelected, GdbOK, ObservationFails, ExpressionCrashes, Die, Ends, LetGo,
     InsertedTraps
<1>13. CASE Reach
  <2>1. UNCHANGED inferior /\ held' \in {held, FALSE} /\ at' \in {at, NoLoc}
    BY <1>13 DEF Reach, Leave, Continue, Untouched
  <2>2. Call.loc \in Places
    BY <1>4, <1>6, <1>13 DEF Reach
  <2>3. /\ breakpoints' \subseteq [num : Nat, loc : Places]
        /\ breakpoint_count' \in Nat /\ lost' = lost
    BY <1>1, <2>2, <1>13 DEF Reach
  <2> QED BY <1>1, <2>1, <2>3
<1>14. CASE Delay \/ AddHook \/ AddHookCrashes \/ Enable \/ Disable
           \/ StartKill
  BY <1>1, <1>2, <1>3, <1>4, <1>5, <1>6, <1>14 DEF Delay, AddHook,
     AddHookCrashes, Die, Ends, LetGo, InsertedTraps, Enable, Toggle, Disable,
     StartKill, Interrupt
<1>15. CASE Kill \/ Store \/ StoreCrashes \/ Malformed \/ MalformedCrashes
           \/ Evaluated
  BY <1>1, <1>2, <1>3, <1>4, <1>5, <1>6, <1>15 DEF Kill, Leave, Continue,
     Untouched, Delete, Store, StoreCrashes, Die, Ends, LetGo, InsertedTraps,
     Malformed, MalformedCrashes, Evaluated
<1>16. CASE HitBreakpoint \/ TakeInterrupt \/ TakeSignal \/ TargetExits
  BY <1>1, <1>2, <1>3, <1>4, <1>5, <1>6, <1>16 DEF HitBreakpoint, Stop,
     Resumed, At, TakeInterrupt, TakeSignal, TargetExits
<1>17. CASE \E p \in Pids : UntracedEnds(p)
  BY <1>1, <1>2, <1>3, <1>4, <1>5, <1>6, <1>17 DEF UntracedEnds
<1>18. CASE DriverGoes
  BY <1>1, <1>2, <1>3, <1>4, <1>5, <1>6, <1>18 DEF DriverGoes
<1>19. CASE \E r \in Requests : SendRequest(r)
  BY <1>1, <1>2, <1>3, <1>4, <1>5, <1>6, <1>19 DEF SendRequest
<1>20. CASE \E i \in 0 .. MaxHooks - 1 : ClockPasses(i)
  BY <1>1, <1>2, <1>3, <1>4, <1>5, <1>6, <1>20 DEF ClockPasses
<1> QED
  BY <1>7, <1>8, <1>9, <1>10, <1>11, <1>12, <1>13, <1>14, <1>15, <1>16, <1>17,
     <1>18, <1>19, <1>20 DEF Next, Thread, Loop, Hooks, API, Target, Driver,
     Clock

\* Processes, stops and traps stay typed.
LEMMA ProcessTypesStep ==
  ASSUME IInv, Next PROVE ProcessTypes'
<1> USE DEF ProcessTypes
<1>1. ProcessTypes /\ GdbTypes
  BY DEF IInv, TypeOK
<1>2. \A l \in Places \cup {NoLoc} :
        \A k \in {"breakpoint", "interrupt", "signal", "exit"} : At(k, l) \in Stops
  BY DEF At, Stops
<1>3. CASE StartEventLoop
  BY <1>1, <1>2, <1>3 DEF StartEventLoop
<1>4. CASE RestartFails
  BY <1>1, <1>4, LetGoTyped, TrapsTyped DEF RestartFails, Die, Ends
<1>5. CASE GetRequest \/ NoRequest
  BY <1>1, <1>2, <1>5 DEF GetRequest, NoRequest
<1>6. CASE DriverClosed
  BY <1>1, <1>6, LetGoTyped, TrapsTyped DEF DriverClosed, Die, Ends
<1>7. CASE Respond
  <2>1. CASE quitting
    BY <1>1, <2>1, <1>7, LetGoTyped, TrapsTyped DEF Respond, Ends
  <2>2. CASE ~quitting
    BY <1>1, <2>2, <1>7 DEF Respond, ProcessTypes
  <2> QED BY <2>1, <2>2
<1>8. CASE SkipContinuous \/ FetchNothing \/ FetchBreakpoint \/ FetchExit
  BY <1>1, <1>2, <1>8 DEF SkipContinuous, FetchNothing, FetchBreakpoint,
     Consume, FetchExit
<1>9. CASE FetchCrashes
  BY <1>1, <1>9, LetGoTyped DEF FetchCrashes, Ends
<1>10. CASE ContinueTarget
  BY <1>1, <1>2, <1>10 DEF ContinueTarget, Continue
<1>11. CASE ScanCrashes
  BY <1>1, <1>11, LetGoTyped, TrapsTyped DEF ScanCrashes, Die, Ends
<1>12. CASE EndScan \/ SkipHook \/ TimedHook \/ TimedHookStopped
           \/ TimedHookDone \/ BreakpointHook
  BY <1>1, <1>2, <1>12 DEF EndScan, SkipHook, Step, TimedHook, Run, Interrupt,
     TimedHookStopped, TimedHookDone, BreakpointHook, IsReached
<1>13. CASE BreakpointHookDone
  BY <1>1, <1>2, <1>13 DEF BreakpointHookDone, Step, Delete
<1>14. CASE WaitForInferior \/ WaitForever
  BY <1>1, <1>2, <1>14 DEF WaitForInferior, Consume, WaitForever
<1>15. CASE Detach
  <2>1. CASE UNCHANGED procv
    BY <1>1, <2>1 DEF ProcessTypes
  <2>2. CASE LetGo(TrapsAtDetach, held /\ sigint)
    BY <1>1, <2>2, LetGoTyped, TrapsTyped
  <2> QED BY <2>1, <2>2, <1>15 DEF Detach, DetachTarget, KeepTarget
<1>16. CASE Quit
  <2>1. CASE UNCHANGED procv
    BY <1>1, <2>1 DEF ProcessTypes
  <2>2. CASE LetGo(TrapsAtDetach, held /\ sigint)
    BY <1>1, <2>2, LetGoTyped, TrapsTyped
  <2> QED BY <2>1, <2>2, <1>16 DEF Quit, DetachTarget, KeepTarget
<1>17. CASE SetTarget
  <2>1. CASE UNCHANGED procv
    BY <1>1, <2>1 DEF ProcessTypes
  <2>2. CASE LetGo(TrapsAtDetach, held /\ sigint)
    BY <1>1, <2>2, LetGoTyped, TrapsTyped
  <2> QED BY <2>1, <2>2, <1>17 DEF SetTarget, KeepTarget
<1>18. CASE DetachCrashes
  BY <1>1, <1>18, LetGoTyped, TrapsTyped DEF DetachCrashes, Die, Ends
<1>19. CASE StartObservation \/ StartBreakpointCall \/ MeasureOK \/ GdbOK
           \/ ObservationFails
  BY <1>1, <1>2, <1>19 DEF StartObservation, Interrupt, StartBreakpointCall,
     MeasureOK, Leave, Continue, Untouched, FrameSelected, GdbOK,
     ObservationFails
<1>20. CASE ExpressionCrashes
  BY <1>1, <1>20, LetGoTyped, TrapsTyped DEF ExpressionCrashes, Die, Ends
<1>21. CASE Reach \/ Delay \/ AddHook
  BY <1>1, <1>2, <1>21 DEF Reach, Leave, Continue, Untouched, Delay, AddHook
<1>22. CASE AddHookCrashes
  BY <1>1, <1>22, LetGoTyped, TrapsTyped DEF AddHookCrashes, Die, Ends
<1>23. CASE Enable \/ Disable \/ StartKill \/ Kill \/ Store
  BY <1>1, <1>2, <1>23 DEF Enable, Toggle, Disable, StartKill, Interrupt,
     Kill, Leave, Continue, Untouched, Delete, Store
<1>24. CASE StoreCrashes
  BY <1>1, <1>24, LetGoTyped, TrapsTyped DEF StoreCrashes, Die, Ends
<1>25. CASE Malformed
  BY <1>1, <1>2, <1>25 DEF Malformed
<1>26. CASE MalformedCrashes
  BY <1>1, <1>26, LetGoTyped, TrapsTyped DEF MalformedCrashes, Die, Ends
<1>27. CASE Evaluated
  BY <1>1, <1>2, <1>27 DEF Evaluated
<1>28. CASE HitBreakpoint
  <2>1. \A b \in breakpoints : b.loc \in Places
    BY <1>1 DEF GdbTypes
  <2> QED BY <1>1, <1>2, <2>1, <1>28 DEF HitBreakpoint, Stop
<1>29. CASE TakeInterrupt \/ TakeSignal \/ TargetExits
  BY <1>1, <1>2, <1>29 DEF TakeInterrupt, Stop, Resumed, TakeSignal,
     TargetExits
<1>30. CASE \E p \in Pids : UntracedEnds(p)
  BY <1>1, <1>2, <1>30 DEF UntracedEnds
<1>31. CASE DriverGoes
  BY <1>1, <1>2, <1>31 DEF DriverGoes
<1>32. CASE \E r \in Requests : SendRequest(r)
  BY <1>1, <1>2, <1>32 DEF SendRequest
<1>33. CASE \E i \in 0 .. MaxHooks - 1 : ClockPasses(i)
  BY <1>1, <1>2, <1>33 DEF ClockPasses
<1> QED
  BY <1>3, <1>4, <1>5, <1>6, <1>7, <1>8, <1>9, <1>10, <1>11, <1>12, <1>13,
     <1>14, <1>15, <1>16, <1>17, <1>18, <1>19, <1>20, <1>21, <1>22, <1>23,
     <1>24, <1>25, <1>26, <1>27, <1>28, <1>29, <1>30, <1>31, <1>32, <1>33 DEF
     Next, Thread, Loop, Hooks, API, Target, Driver, Clock

\* What is called, with what, and where the thread goes on stay typed.
LEMMA ThreadTypesStep ==
  ASSUME IInv, Next PROVE ThreadTypes'
<1> USE DEF ThreadTypes, Ended, Afters
<1>1. ThreadTypes /\ HookTypes /\ ScanInv /\ DriverTypes /\ GdbTypes /\
      CallInv /\ StoppedInv /\ HitInv
  BY DEF IInv, TypeOK
<1>2. calls # <<>> => Call \in Calls /\ Tail(calls) \in Seq(Calls)
  BY <1>1, CallsTyped DEF ThreadTypes
<1>3. Void \in Values /\ Null \in Values /\ Taken \in Values
  BY ValuesTyped
<1>4. pc = "body" => calls # <<>>
  BY <1>1 DEF CallInv
<1>5. CASE StartEventLoop \/ RestartFails
  BY <1>1, <1>2, <1>3, <1>4, <1>5 DEF StartEventLoop, RestartFails, Die, Ends,
     LetGo, InsertedTraps
<1>6. CASE GetRequest
  BY <1>1, <1>3, <1>6 DEF GetRequest, DriverTypes
<1>7. CASE NoRequest \/ DriverClosed \/ Respond \/ SkipContinuous
           \/ FetchNothing
  BY <1>1, <1>2, <1>3, <1>4, <1>7 DEF NoRequest, DriverClosed, Die, Ends,
     LetGo, InsertedTraps, Respond, SkipContinuous, FetchNothing
<1>8. CASE FetchBreakpoint
  <2>1. ~stopped
    BY <1>1, <1>8 DEF FetchBreakpoint, StoppedInv
  <2>2. \E b \in breakpoints : b.loc = event.loc
    BY <1>1, <2>1, <1>8 DEF FetchBreakpoint, HitInv
  <2>3. FirstAt(event.loc) \in Nat
    BY <1>1, <2>2, FirstAtIsThere DEF GdbTypes
  <2> QED BY <1>1, <2>3, <1>8 DEF FetchBreakpoint
<1>9. CASE FetchExit \/ FetchCrashes \/ ContinueTarget
  BY <1>1, <1>2, <1>3, <1>4, <1>9 DEF FetchExit, Consume, FetchCrashes, Ends,
     LetGo, ContinueTarget, Continue
<1>10. CASE ScanCrashes \/ EndScan \/ SkipHook
  BY <1>1, <1>2, <1>3, <1>4, <1>10 DEF ScanCrashes, Die, Ends, LetGo,
     InsertedTraps, EndScan, SkipHook, Step
<1>11. CASE TimedHook
  <2>1. IsHook(cursor) => Current.action \in Seq(Calls)
    BY <1>1, ActionTyped DEF HookTypes
  <2> QED BY <1>1, <1>3, <2>1, <1>11 DEF TimedHook, Interrupt, Run
<1>12. CASE TimedHookStopped
  <2>1. IsHook(cursor)
    BY <1>1, <1>12 DEF TimedHookStopped, ScanInv
  <2>2. Current.action \in Seq(Calls)
    BY <1>1, <2>1, ActionTyped DEF HookTypes
  <2> QED BY <1>1, <1>3, <2>2, <1>12 DEF TimedHookStopped, Run
<1>13. CASE TimedHookDone
  BY <1>1, <1>2, <1>3, <1>4, <1>13 DEF TimedHookDone, Step
<1>14. CASE BreakpointHook
  <2>1. IsHook(cursor) => Current.action \in Seq(Calls)
    BY <1>1, ActionTyped DEF HookTypes
  <2> QED BY <1>1, <1>3, <2>1, <1>14 DEF BreakpointHook, Run
<1>15. CASE BreakpointHookDone
  BY <1>1, <1>2, <1>3, <1>4, <1>15 DEF BreakpointHookDone, Step, Delete
<1>16. CASE WaitForInferior \/ WaitForever \/ Detach \/ Quit \/ SetTarget
           \/ DetachCrashes
  BY <1>1, <1>2, <1>3, <1>4, <1>16 DEF WaitForInferior, Consume, WaitForever,
     Detach, KeepTarget, DetachTarget, LetGo, ExitPending, Quit, SetTarget,
     DetachCrashes, Die, Ends, InsertedTraps
<1>17. CASE StartObservation \/ StartBreakpointCall \/ MeasureOK \/ GdbOK
           \/ ObservationFails \/ ExpressionCrashes
  BY <1>1, <1>2, <1>3, <1>4, <1>17 DEF StartObservation, Interrupt,
     StartBreakpointCall, MeasureOK, Leave, Continue, Untouched,
     FrameSelected, GdbOK, ObservationFails, ExpressionCrashes, Die, Ends, LetGo,
     InsertedTraps
<1>18. CASE Reach
  <2>1. Call.repeat \in BOOLEAN /\ Call.loc \in Places
    BY <1>2, <1>4, CallsAreWellFormed, <1>18 DEF Reach
  <2>2. breakpoint_count + 1 \in Nat
    BY <1>1 DEF GdbTypes
  <2> DEFINE v == [type |-> "event", kind |-> "B", bp |-> breakpoint_count + 1,
                   loc |-> Call.loc, repeat |-> Call.repeat]
  <2>3. v \in Values
    BY <2>1, <2>2, ValuesTyped
  <2>4. /\ UNCHANGED place /\ pc' \in {"start", "eval"}
        /\ UNCHANGED <<calls, val>> \/ Return(v)
    BY <1>18 DEF Reach, Leave, Continue, Untouched
  <2>5. calls # <<>>
    BY <1>4, <1>18 DEF Reach
  <2> HIDE DEF v
  <2> QED BY <1>1, <1>2, <2>3, <2>4, <2>5
<1>19. CASE Delay
  <2>1. Call.repeat \in BOOLEAN
    BY <1>2, CallsAreWellFormed, <1>19 DEF Delay
  <2>2. NoLoc \in Places \cup {NoLoc}
    OBVIOUS
  <2>3. [type |-> "event", kind |-> "T", bp |-> 0, loc |-> NoLoc, repeat |-> Call.repeat]
          \in Values
    BY <2>1, <2>2, ValuesTyped
  <2> QED BY <1>1, <1>2, <2>3, <1>19 DEF Delay
<1>20. CASE AddHook \/ AddHookCrashes \/ Enable \/ Disable \/ StartKill
           \/ Kill
  BY <1>1, <1>2, <1>3, <1>4, <1>20 DEF AddHook, AddHookCrashes, Die, Ends,
     LetGo, InsertedTraps, Enable, Toggle, Disable, StartKill, Interrupt,
     Kill, Leave, Continue, Untouched, Delete
<1>21. CASE Store \/ StoreCrashes \/ Malformed \/ MalformedCrashes
           \/ Evaluated
  BY <1>1, <1>2, <1>3, <1>4, <1>21 DEF Store, StoreCrashes, Die, Ends, LetGo,
     InsertedTraps, Malformed, MalformedCrashes, Evaluated
<1>22. CASE HitBreakpoint \/ TakeInterrupt \/ TakeSignal \/ TargetExits
  BY <1>1, <1>2, <1>3, <1>4, <1>22 DEF HitBreakpoint, Stop, Resumed, At,
     TakeInterrupt, TakeSignal, TargetExits
<1>23. CASE \E p \in Pids : UntracedEnds(p)
  BY <1>1, <1>2, <1>3, <1>4, <1>23 DEF UntracedEnds
<1>24. CASE DriverGoes
  BY <1>1, <1>2, <1>3, <1>4, <1>24 DEF DriverGoes
<1>25. CASE \E r \in Requests : SendRequest(r)
  BY <1>1, <1>2, <1>3, <1>4, <1>25 DEF SendRequest
<1>26. CASE \E i \in 0 .. MaxHooks - 1 : ClockPasses(i)
  BY <1>1, <1>2, <1>3, <1>4, <1>26 DEF ClockPasses, IsHook
<1> QED
  BY <1>5, <1>6, <1>7, <1>8, <1>9, <1>10, <1>11, <1>12, <1>13, <1>14, <1>15,
     <1>16, <1>17, <1>18, <1>19, <1>20, <1>21, <1>22, <1>23, <1>24, <1>25,
     <1>26 DEF Next, Thread, Loop, Hooks, API, Target, Driver, Clock

\* The driver sends sequences of calls, one at a time.
LEMMA DriverTypesStep ==
  ASSUME IInv, Next PROVE DriverTypes'
<1> USE DEF DriverTypes
<1>1. DriverTypes
  BY DEF IInv, TypeOK
<1>2. \A r \in Requests : r \in Seq(Calls)
  BY CallsAreWellFormed
<1>3. MaxRequests \in Nat
  BY BoundsAreNaturals
<1>4. CASE StartEventLoop
  BY <1>1, <1>2, <1>3, <1>4 DEF StartEventLoop
<1>5. CASE RestartFails
  BY <1>1, <1>2, <1>3, <1>5 DEF RestartFails, Die, Ends, LetGo, InsertedTraps
<1>6. CASE GetRequest
  BY <1>1, <1>2, <1>3, <1>6 DEF GetRequest
<1>7. CASE NoRequest \/ DriverClosed \/ Respond
  BY <1>1, <1>2, <1>3, <1>7 DEF NoRequest, DriverClosed, Die, Ends, LetGo,
     InsertedTraps, Respond
<1>8. CASE SkipContinuous \/ FetchNothing \/ FetchBreakpoint \/ FetchExit
           \/ FetchCrashes \/ ContinueTarget
  BY <1>1, <1>2, <1>3, <1>8 DEF SkipContinuous, FetchNothing, FetchBreakpoint,
     Consume, FetchExit, FetchCrashes, Ends, LetGo, ContinueTarget, Continue
<1>9. CASE ScanCrashes \/ EndScan \/ SkipHook \/ TimedHook \/ TimedHookStopped
           \/ TimedHookDone
  BY <1>1, <1>2, <1>3, <1>9 DEF ScanCrashes, Die, Ends, LetGo, InsertedTraps,
     EndScan, SkipHook, Step, TimedHook, Run, Interrupt, TimedHookStopped,
     TimedHookDone
<1>10. CASE BreakpointHook \/ BreakpointHookDone
  BY <1>1, <1>2, <1>3, <1>10 DEF BreakpointHook, Run, IsReached,
     BreakpointHookDone, Step, Delete
<1>11. CASE WaitForInferior \/ WaitForever \/ Detach \/ Quit \/ SetTarget
           \/ DetachCrashes
  BY <1>1, <1>2, <1>3, <1>11 DEF WaitForInferior, Consume, WaitForever,
     Detach, KeepTarget, DetachTarget, LetGo, ExitPending, Quit, SetTarget,
     DetachCrashes, Die, Ends, InsertedTraps
<1>12. CASE StartObservation \/ StartBreakpointCall \/ MeasureOK \/ GdbOK
           \/ ObservationFails \/ ExpressionCrashes
  BY <1>1, <1>2, <1>3, <1>12 DEF StartObservation, Interrupt,
     StartBreakpointCall, MeasureOK, Leave, Continue, Untouched,
     FrameSelected, GdbOK, ObservationFails, ExpressionCrashes, Die, Ends, LetGo,
     InsertedTraps
<1>13. CASE Reach \/ Delay \/ AddHook \/ AddHookCrashes \/ Enable \/ Disable
  BY <1>1, <1>2, <1>3, <1>13 DEF Reach, Leave, Continue, Untouched, Delay,
     AddHook, AddHookCrashes, Die, Ends, LetGo, InsertedTraps, Enable, Toggle,
     Disable
<1>14. CASE StartKill \/ Kill \/ Store \/ StoreCrashes \/ Malformed
           \/ MalformedCrashes
  BY <1>1, <1>2, <1>3, <1>14 DEF StartKill, Interrupt, Kill, Leave, Continue,
     Untouched, Delete, Store, StoreCrashes, Die, Ends, LetGo, InsertedTraps,
     Malformed, MalformedCrashes
<1>15. CASE Evaluated
  BY <1>1, <1>2, <1>3, <1>15 DEF Evaluated
<1>16. CASE HitBreakpoint \/ TakeInterrupt \/ TakeSignal \/ TargetExits
  BY <1>1, <1>2, <1>3, <1>16 DEF HitBreakpoint, Stop, Resumed, At,
     TakeInterrupt, TakeSignal, TargetExits
<1>17. CASE \E p \in Pids : UntracedEnds(p)
  BY <1>1, <1>2, <1>3, <1>17 DEF UntracedEnds
<1>18. CASE DriverGoes
  BY <1>1, <1>2, <1>3, <1>18 DEF DriverGoes
<1>19. CASE \E r \in Requests : SendRequest(r)
  BY <1>1, <1>2, <1>3, <1>19 DEF SendRequest
<1>20. CASE \E i \in 0 .. MaxHooks - 1 : ClockPasses(i)
  BY <1>1, <1>2, <1>3, <1>20 DEF ClockPasses
<1> QED
  BY <1>4, <1>5, <1>6, <1>7, <1>8, <1>9, <1>10, <1>11, <1>12, <1>13, <1>14,
     <1>15, <1>16, <1>17, <1>18, <1>19, <1>20 DEF Next, Thread, Loop, Hooks,
     API, Target, Driver, Clock

\* A hook that waits for the target stays where it is.
LEMMA ScanStep ==
  ASSUME IInv, Next PROVE ScanInv'
<1> USE DEF ScanInv, IsHook, Afters
<1>1. ScanInv /\ HookTypes /\ ThreadTypes
  BY DEF IInv, TypeOK
<1>2. ret \in Afters
  BY <1>1 DEF ThreadTypes
<1>3. \A k \in Int : Len([hooks EXCEPT ![k].due = TRUE]) = Len(hooks)
  BY <1>1, HookWritten DEF HookTypes
<1>4. CASE StartEventLoop \/ RestartFails \/ GetRequest \/ NoRequest
           \/ DriverClosed \/ Respond
  BY <1>1, <1>2, <1>3, <1>4 DEF StartEventLoop, RestartFails, Die, Ends,
     LetGo, InsertedTraps, GetRequest, NoRequest, DriverClosed, Respond
<1>5. CASE SkipContinuous \/ FetchNothing \/ FetchBreakpoint \/ FetchExit
           \/ FetchCrashes \/ ContinueTarget
  BY <1>1, <1>2, <1>3, <1>5 DEF SkipContinuous, FetchNothing, FetchBreakpoint,
     Consume, FetchExit, FetchCrashes, Ends, LetGo, ContinueTarget, Continue
<1>6. CASE ScanCrashes \/ EndScan \/ SkipHook \/ TimedHook \/ TimedHookStopped
           \/ TimedHookDone
  BY <1>1, <1>2, <1>3, <1>6 DEF ScanCrashes, Die, Ends, LetGo, InsertedTraps,
     EndScan, SkipHook, Step, TimedHook, Run, Interrupt, TimedHookStopped,
     TimedHookDone
<1>7. CASE BreakpointHook \/ BreakpointHookDone
  BY <1>1, <1>2, <1>3, <1>7 DEF BreakpointHook, Run, IsReached,
     BreakpointHookDone, Step, Delete
<1>8. CASE WaitForInferior \/ WaitForever \/ Detach \/ Quit \/ SetTarget
           \/ DetachCrashes
  BY <1>1, <1>2, <1>3, <1>8 DEF WaitForInferior, Consume, WaitForever, Detach,
     KeepTarget, DetachTarget, LetGo, ExitPending, Quit, SetTarget,
     DetachCrashes, Die, Ends, InsertedTraps
<1>9. CASE StartObservation \/ StartBreakpointCall \/ MeasureOK \/ GdbOK
           \/ ObservationFails \/ ExpressionCrashes
  BY <1>1, <1>2, <1>3, <1>9 DEF StartObservation, Interrupt,
     StartBreakpointCall, MeasureOK, Leave, Continue, Untouched,
     FrameSelected, GdbOK, ObservationFails, ExpressionCrashes, Die, Ends, LetGo,
     InsertedTraps
<1>10. CASE Reach \/ Delay \/ AddHook \/ AddHookCrashes \/ Enable \/ Disable
  BY <1>1, <1>2, <1>3, <1>10 DEF Reach, Leave, Continue, Untouched, Delay,
     AddHook, AddHookCrashes, Die, Ends, LetGo, InsertedTraps, Enable, Toggle,
     Disable
<1>11. CASE StartKill \/ Kill \/ Store \/ StoreCrashes \/ Malformed
           \/ MalformedCrashes
  BY <1>1, <1>2, <1>3, <1>11 DEF StartKill, Interrupt, Kill, Leave, Continue,
     Untouched, Delete, Store, StoreCrashes, Die, Ends, LetGo, InsertedTraps,
     Malformed, MalformedCrashes
<1>12. CASE Evaluated
  BY <1>1, <1>2, <1>3, <1>12 DEF Evaluated
<1>13. CASE HitBreakpoint \/ TakeInterrupt \/ TakeSignal \/ TargetExits
  BY <1>1, <1>2, <1>3, <1>13 DEF HitBreakpoint, Stop, Resumed, At,
     TakeInterrupt, TakeSignal, TargetExits
<1>14. CASE \E p \in Pids : UntracedEnds(p)
  BY <1>1, <1>2, <1>3, <1>14 DEF UntracedEnds
<1>15. CASE DriverGoes
  BY <1>1, <1>2, <1>3, <1>15 DEF DriverGoes
<1>16. CASE \E r \in Requests : SendRequest(r)
  BY <1>1, <1>2, <1>3, <1>16 DEF SendRequest
<1>17. CASE \E i \in 0 .. MaxHooks - 1 : ClockPasses(i)
  BY <1>1, <1>2, <1>3, <1>17 DEF ClockPasses
<1> QED
  BY <1>4, <1>5, <1>6, <1>7, <1>8, <1>9, <1>10, <1>11, <1>12, <1>13, <1>14,
     <1>15, <1>16, <1>17 DEF Next, Thread, Loop, Hooks, API, Target, Driver,
     Clock

\* Only a stop that gdb has taken holds the target.
LEMMA TraceStep ==
  ASSUME IInv, Next PROVE TraceInv'
<1> USE DEF TraceInv
<1>1. TraceInv
  BY DEF IInv
<1>2. CASE StartEventLoop \/ RestartFails \/ GetRequest \/ NoRequest
           \/ DriverClosed \/ Respond
  BY <1>1, <1>2 DEF StartEventLoop, RestartFails, Die, Ends, LetGo,
     InsertedTraps, GetRequest, NoRequest, DriverClosed, Respond
<1>3. CASE SkipContinuous \/ FetchNothing \/ FetchBreakpoint \/ FetchExit
           \/ FetchCrashes \/ ContinueTarget
  BY <1>1, <1>3 DEF SkipContinuous, Attached, FetchNothing, FetchBreakpoint,
     Consume, FetchExit, FetchCrashes, Ends, LetGo, ContinueTarget, Continue
<1>4. CASE ScanCrashes \/ EndScan \/ SkipHook \/ TimedHook \/ TimedHookStopped
           \/ TimedHookDone
  BY <1>1, <1>4 DEF ScanCrashes, Die, Ends, LetGo, InsertedTraps, EndScan,
     SkipHook, Step, TimedHook, Run, Interrupt, TimedHookStopped,
     TimedHookDone
<1>5. CASE BreakpointHook \/ BreakpointHookDone
  BY <1>1, <1>5 DEF BreakpointHook, Run, IsReached, BreakpointHookDone, Step
<1>6. CASE WaitForInferior \/ WaitForever \/ Detach \/ Quit \/ SetTarget
           \/ DetachCrashes
  BY <1>1, <1>6 DEF WaitForInferior, Consume, WaitForever, Detach, KeepTarget,
     DetachTarget, LetGo, ExitPending, Quit, Attached, SetTarget,
     DetachCrashes, Die, Ends, InsertedTraps
<1>7. CASE StartObservation \/ StartBreakpointCall \/ MeasureOK \/ GdbOK
           \/ ObservationFails \/ ExpressionCrashes
  BY <1>1, <1>7 DEF StartObservation, Attached, Interrupt,
     StartBreakpointCall, MeasureOK, Leave, Continue, Untouched,
     FrameSelected, GdbOK, ObservationFails, ExpressionCrashes, Die, Ends, LetGo,
     InsertedTraps
<1>8. CASE Reach \/ Delay \/ AddHook \/ AddHookCrashes \/ Enable \/ Disable
  BY <1>1, <1>8 DEF Reach, Leave, Continue, Untouched, Delay, AddHook,
     Attached, AddHookCrashes, Die, Ends, LetGo, InsertedTraps, Enable,
     Toggle, Disable
<1>9. CASE StartKill \/ Kill \/ Store \/ StoreCrashes \/ Malformed
           \/ MalformedCrashes
  BY <1>1, <1>9 DEF StartKill, Interrupt, Kill, Leave, Continue, Untouched,
     Store, StoreCrashes, Die, Ends, LetGo, InsertedTraps, Malformed,
     MalformedCrashes
<1>10. CASE Evaluated
  BY <1>1, <1>10 DEF Evaluated
<1>11. CASE HitBreakpoint \/ TakeInterrupt \/ TakeSignal \/ TargetExits
  BY <1>1, <1>11 DEF HitBreakpoint, Stop, Resumed, At, TakeInterrupt,
     TakeSignal, TargetExits
<1>12. CASE \E p \in Pids : UntracedEnds(p)
  BY <1>1, <1>12 DEF UntracedEnds
<1>13. CASE DriverGoes
  BY <1>1, <1>13 DEF DriverGoes
<1>14. CASE \E r \in Requests : SendRequest(r)
  BY <1>1, <1>14 DEF SendRequest
<1>15. CASE \E i \in 0 .. MaxHooks - 1 : ClockPasses(i)
  BY <1>1, <1>15 DEF ClockPasses
<1> QED
  BY <1>2, <1>3, <1>4, <1>5, <1>6, <1>7, <1>8, <1>9, <1>10, <1>11, <1>12,
     <1>13, <1>14, <1>15 DEF Next, Thread, Loop, Hooks, API, Target, Driver,
     Clock

\* Nothing happens before start_event_loop has run.
LEMMA FreshStep ==
  ASSUME IInv, Next PROVE FreshInv'
<1> USE DEF FreshInv
<1>1. FreshInv
  BY DEF IInv
<1>2. CASE StartEventLoop \/ RestartFails \/ GetRequest \/ NoRequest
           \/ DriverClosed \/ Respond
  BY <1>1, <1>2 DEF StartEventLoop, RestartFails, Die, Ends, LetGo,
     InsertedTraps, GetRequest, NoRequest, DriverClosed, Respond
<1>3. CASE SkipContinuous \/ FetchNothing \/ FetchBreakpoint \/ FetchExit
           \/ FetchCrashes \/ ContinueTarget
  BY <1>1, <1>3 DEF SkipContinuous, Attached, FetchNothing, FetchBreakpoint,
     Consume, FetchExit, FetchCrashes, Ends, LetGo, ContinueTarget, Continue
<1>4. CASE ScanCrashes \/ EndScan \/ SkipHook \/ TimedHook \/ TimedHookStopped
           \/ TimedHookDone
  BY <1>1, <1>4 DEF ScanCrashes, Die, Ends, LetGo, InsertedTraps, EndScan,
     SkipHook, Step, TimedHook, Run, Interrupt, TimedHookStopped,
     TimedHookDone
<1>5. CASE BreakpointHook \/ BreakpointHookDone
  BY <1>1, <1>5 DEF BreakpointHook, Run, IsReached, BreakpointHookDone, Step
<1>6. CASE WaitForInferior \/ WaitForever \/ Detach \/ Quit \/ SetTarget
           \/ DetachCrashes
  BY <1>1, <1>6 DEF WaitForInferior, Consume, WaitForever, Detach, KeepTarget,
     DetachTarget, LetGo, ExitPending, Quit, Attached, SetTarget,
     DetachCrashes, Die, Ends, InsertedTraps
<1>7. CASE StartObservation \/ StartBreakpointCall \/ MeasureOK \/ GdbOK
           \/ ObservationFails \/ ExpressionCrashes
  BY <1>1, <1>7 DEF StartObservation, Attached, Interrupt,
     StartBreakpointCall, MeasureOK, Leave, Continue, Untouched,
     FrameSelected, GdbOK, ObservationFails, ExpressionCrashes, Die, Ends, LetGo,
     InsertedTraps
<1>8. CASE Reach \/ Delay \/ AddHook \/ AddHookCrashes \/ Enable \/ Disable
  BY <1>1, <1>8 DEF Reach, Leave, Continue, Untouched, Delay, AddHook,
     Attached, AddHookCrashes, Die, Ends, LetGo, InsertedTraps, Enable,
     Toggle, Disable
<1>9. CASE StartKill \/ Kill \/ Store \/ StoreCrashes \/ Malformed
           \/ MalformedCrashes
  BY <1>1, <1>9 DEF StartKill, Interrupt, Kill, Leave, Continue, Untouched,
     Store, StoreCrashes, Die, Ends, LetGo, InsertedTraps, Malformed,
     MalformedCrashes
<1>10. CASE Evaluated
  BY <1>1, <1>10 DEF Evaluated
<1>11. CASE HitBreakpoint \/ TakeInterrupt \/ TakeSignal \/ TargetExits
  BY <1>1, <1>11 DEF HitBreakpoint, Stop, Resumed, At, TakeInterrupt,
     TakeSignal, TargetExits
<1>12. CASE \E p \in Pids : UntracedEnds(p)
  BY <1>1, <1>12 DEF UntracedEnds
<1>13. CASE DriverGoes
  BY <1>1, <1>13 DEF DriverGoes
<1>14. CASE \E r \in Requests : SendRequest(r)
  BY <1>1, <1>14 DEF SendRequest
<1>15. CASE \E i \in 0 .. MaxHooks - 1 : ClockPasses(i)
  BY <1>1, <1>15 DEF ClockPasses
<1> QED
  BY <1>2, <1>3, <1>4, <1>5, <1>6, <1>7, <1>8, <1>9, <1>10, <1>11, <1>12,
     <1>13, <1>14, <1>15 DEF Next, Thread, Loop, Hooks, API, Target, Driver,
     Clock

\* The target is held only while the loop or a call of it needs it to be.
LEMMA StoppedStep ==
  ASSUME IInv, Next PROVE StoppedInv'
<1> USE DEF StoppedInv, FreshInv, TraceInv, Ended, Afters
<1>1. StoppedInv /\ FreshInv /\ TraceInv
  BY DEF IInv
<1>2. ret \in Afters
  BY DEF IInv, TypeOK, ThreadTypes, ProcessTypes
<1>3. CASE StartEventLoop \/ RestartFails \/ GetRequest \/ NoRequest
           \/ DriverClosed \/ Respond
  BY <1>1, <1>2, <1>3 DEF StartEventLoop, RestartFails, Die, Ends, LetGo,
     InsertedTraps, GetRequest, NoRequest, DriverClosed, Respond
<1>4. CASE SkipContinuous \/ FetchNothing \/ FetchBreakpoint \/ FetchExit
           \/ FetchCrashes \/ ContinueTarget
  BY <1>1, <1>2, <1>4 DEF SkipContinuous, Attached, FetchNothing,
     FetchBreakpoint, Consume, FetchExit, FetchCrashes, Ends, LetGo,
     ContinueTarget, Continue
<1>5. CASE ScanCrashes \/ EndScan \/ SkipHook \/ TimedHook \/ TimedHookStopped
           \/ TimedHookDone
  BY <1>1, <1>2, <1>5 DEF ScanCrashes, Die, Ends, LetGo, InsertedTraps,
     EndScan, SkipHook, Step, TimedHook, Run, Interrupt, TimedHookStopped,
     TimedHookDone
<1>6. CASE BreakpointHook \/ BreakpointHookDone
  BY <1>1, <1>2, <1>6 DEF BreakpointHook, Run, IsReached, BreakpointHookDone,
     Step
<1>7. CASE WaitForInferior \/ WaitForever \/ Detach \/ Quit \/ SetTarget
           \/ DetachCrashes
  BY <1>1, <1>2, <1>7 DEF WaitForInferior, Consume, WaitForever, Detach,
     KeepTarget, DetachTarget, LetGo, ExitPending, Quit, Attached, SetTarget,
     DetachCrashes, Die, Ends, InsertedTraps
<1>8. CASE StartObservation \/ StartBreakpointCall \/ MeasureOK \/ GdbOK
           \/ ObservationFails \/ ExpressionCrashes
  BY <1>1, <1>2, <1>8 DEF StartObservation, Attached, Interrupt,
     StartBreakpointCall, MeasureOK, Leave, Continue, Untouched,
     FrameSelected, GdbOK, ObservationFails, ExpressionCrashes, Die, Ends, LetGo,
     InsertedTraps
<1>9. CASE Reach \/ Delay \/ AddHook \/ AddHookCrashes \/ Enable \/ Disable
  BY <1>1, <1>2, <1>9 DEF Reach, Leave, Continue, Untouched, Delay, AddHook,
     Attached, AddHookCrashes, Die, Ends, LetGo, InsertedTraps, Enable,
     Toggle, Disable
<1>10. CASE StartKill \/ Kill \/ Store \/ StoreCrashes \/ Malformed
           \/ MalformedCrashes
  BY <1>1, <1>2, <1>10 DEF StartKill, Interrupt, Kill, Leave, Continue,
     Untouched, Store, StoreCrashes, Die, Ends, LetGo, InsertedTraps,
     Malformed, MalformedCrashes
<1>11. CASE Evaluated
  BY <1>1, <1>2, <1>11 DEF Evaluated
<1>12. CASE HitBreakpoint \/ TakeInterrupt \/ TakeSignal \/ TargetExits
  BY <1>1, <1>2, <1>12 DEF HitBreakpoint, Stop, Resumed, At, TakeInterrupt,
     TakeSignal, TargetExits
<1>13. CASE \E p \in Pids : UntracedEnds(p)
  BY <1>1, <1>2, <1>13 DEF UntracedEnds
<1>14. CASE DriverGoes
  BY <1>1, <1>2, <1>14 DEF DriverGoes
<1>15. CASE \E r \in Requests : SendRequest(r)
  BY <1>1, <1>2, <1>15 DEF SendRequest
<1>16. CASE \E i \in 0 .. MaxHooks - 1 : ClockPasses(i)
  BY <1>1, <1>2, <1>16 DEF ClockPasses
<1> QED
  BY <1>3, <1>4, <1>5, <1>6, <1>7, <1>8, <1>9, <1>10, <1>11, <1>12, <1>13,
     <1>14, <1>15, <1>16 DEF Next, Thread, Loop, Hooks, API, Target, Driver,
     Clock

\* The context names the process that gdb traces.
LEMMA ContextStep ==
  ASSUME IInv, Next PROVE ContextInv'
<1> USE DEF ContextInv, ContextAgreesWithGdb, TraceInv, FreshInv,
           StoppedInv, CallInv, Attached, Awake, Waiting, Ended, Afters
<1>1. ContextInv /\ TraceInv /\ FreshInv /\ StoppedInv /\ CallInv
  BY DEF IInv
<1>2. ret \in Afters /\ alive \subseteq Pids /\ NoPid \notin Pids
  BY NamesAreDistinct DEF IInv, TypeOK, ThreadTypes, ProcessTypes
<1>3. CASE StartEventLoop \/ RestartFails \/ GetRequest \/ NoRequest
           \/ DriverClosed \/ Respond
  BY <1>1, <1>2, <1>3 DEF StartEventLoop, RestartFails, Die, Ends, LetGo,
     InsertedTraps, GetRequest, NoRequest, DriverClosed, Respond
<1>4. CASE SkipContinuous \/ FetchNothing \/ FetchBreakpoint \/ FetchExit
           \/ FetchCrashes \/ ContinueTarget
  BY <1>1, <1>2, <1>4 DEF SkipContinuous, FetchNothing, FetchBreakpoint,
     Consume, FetchExit, FetchCrashes, Ends, LetGo, ContinueTarget, Continue
<1>5. CASE ScanCrashes \/ EndScan \/ SkipHook \/ TimedHook \/ TimedHookStopped
           \/ TimedHookDone
  BY <1>1, <1>2, <1>5 DEF ScanCrashes, Die, Ends, LetGo, InsertedTraps,
     EndScan, SkipHook, Step, TimedHook, Run, Interrupt, TimedHookStopped,
     TimedHookDone
<1>6. CASE BreakpointHook \/ BreakpointHookDone
  BY <1>1, <1>2, <1>6 DEF BreakpointHook, Run, IsReached, BreakpointHookDone,
     Step
<1>7. CASE WaitForInferior \/ WaitForever \/ Detach
  BY <1>1, <1>2, <1>7 DEF WaitForInferior, Consume, WaitForever, Detach,
     KeepTarget, DetachTarget, LetGo, ExitPending
<1>8. CASE Quit
  BY <1>1, <1>2, <1>8 DEF Quit, KeepTarget, DetachTarget, LetGo, ExitPending
<1>9. CASE SetTarget
  BY <1>1, <1>2, <1>9 DEF SetTarget, KeepTarget, LetGo, ExitPending
<1>10. CASE DetachCrashes
  BY <1>1, <1>2, <1>10 DEF DetachCrashes, Die, Ends, LetGo, InsertedTraps
<1>11. CASE StartObservation \/ StartBreakpointCall \/ MeasureOK \/ GdbOK
           \/ ObservationFails \/ ExpressionCrashes
  BY <1>1, <1>2, <1>11 DEF StartObservation, Interrupt, StartBreakpointCall,
     MeasureOK, Leave, Continue, Untouched, FrameSelected, GdbOK,
     ObservationFails, ExpressionCrashes, Die, Ends, LetGo, InsertedTraps
<1>12. CASE Reach \/ Delay \/ AddHook \/ AddHookCrashes \/ Enable \/ Disable
  BY <1>1, <1>2, <1>12 DEF Reach, Leave, Continue, Untouched, Delay, AddHook,
     AddHookCrashes, Die, Ends, LetGo, InsertedTraps, Enable, Toggle, Disable
<1>13. CASE StartKill \/ Kill \/ Store \/ StoreCrashes \/ Malformed
           \/ MalformedCrashes
  BY <1>1, <1>2, <1>13 DEF StartKill, Interrupt, Kill, Leave, Continue,
     Untouched, Store, StoreCrashes, Die, Ends, LetGo, InsertedTraps,
     Malformed, MalformedCrashes
<1>14. CASE Evaluated
  BY <1>1, <1>2, <1>14 DEF Evaluated
<1>15. CASE HitBreakpoint \/ TakeInterrupt \/ TakeSignal \/ TargetExits
  BY <1>1, <1>2, <1>15 DEF HitBreakpoint, Stop, Resumed, At, TakeInterrupt,
     TakeSignal, TargetExits
<1>16. CASE \E p \in Pids : UntracedEnds(p)
  BY <1>1, <1>2, <1>16 DEF UntracedEnds
<1>17. CASE DriverGoes
  BY <1>1, <1>2, <1>17 DEF DriverGoes
<1>18. CASE \E r \in Requests : SendRequest(r)
  BY <1>1, <1>2, <1>18 DEF SendRequest
<1>19. CASE \E i \in 0 .. MaxHooks - 1 : ClockPasses(i)
  BY <1>1, <1>2, <1>19 DEF ClockPasses
<1> QED
  BY <1>3, <1>4, <1>5, <1>6, <1>7, <1>8, <1>9, <1>10, <1>11, <1>12, <1>13,
     <1>14, <1>15, <1>16, <1>17, <1>18, <1>19 DEF Next, Thread, Loop, Hooks,
     API, Target, Driver, Clock

\* Only a call of a hook's action waits for a target that is stopped already.
LEMMA CallStep ==
  ASSUME IInv, Next PROVE CallInv'
<1> USE DEF CallInv, HangsOnlyInAction, ContextInv, ContextAgreesWithGdb,
           TraceInv, FreshInv, StoppedInv, Attached, Stoppers, Breakers,
           Awake, Waiting, Ended, Afters
<1>1. CallInv /\ ContextInv /\ TraceInv /\ FreshInv /\ StoppedInv
  BY DEF IInv
<1>2. ret \in Afters
  BY DEF IInv, TypeOK, ThreadTypes, ProcessTypes
<1>3. CASE StartEventLoop \/ RestartFails \/ GetRequest \/ NoRequest
           \/ DriverClosed \/ Respond
  BY <1>1, <1>2, <1>3 DEF StartEventLoop, RestartFails, Die, Ends, LetGo,
     InsertedTraps, GetRequest, NoRequest, DriverClosed, Respond
<1>4. CASE SkipContinuous \/ FetchNothing \/ FetchBreakpoint \/ FetchExit
           \/ FetchCrashes \/ ContinueTarget
  BY <1>1, <1>2, <1>4 DEF SkipContinuous, FetchNothing, FetchBreakpoint,
     Consume, FetchExit, FetchCrashes, Ends, LetGo, ContinueTarget, Continue
<1>5. CASE ScanCrashes \/ EndScan \/ SkipHook \/ TimedHook \/ TimedHookStopped
           \/ TimedHookDone
  BY <1>1, <1>2, <1>5 DEF ScanCrashes, Die, Ends, LetGo, InsertedTraps,
     EndScan, SkipHook, Step, TimedHook, Run, Interrupt, TimedHookStopped,
     TimedHookDone
<1>6. CASE BreakpointHook \/ BreakpointHookDone
  BY <1>1, <1>2, <1>6 DEF BreakpointHook, Run, IsReached, BreakpointHookDone,
     Step
<1>7. CASE WaitForInferior \/ WaitForever \/ Detach \/ Quit \/ SetTarget
           \/ DetachCrashes
  BY <1>1, <1>2, <1>7 DEF WaitForInferior, Consume, WaitForever, Detach,
     KeepTarget, DetachTarget, LetGo, ExitPending, Quit, SetTarget,
     DetachCrashes, Die, Ends, InsertedTraps
<1>8. CASE StartObservation \/ StartBreakpointCall \/ MeasureOK \/ GdbOK
           \/ ObservationFails \/ ExpressionCrashes
  BY <1>1, <1>2, <1>8 DEF StartObservation, Interrupt, StartBreakpointCall,
     MeasureOK, Leave, Continue, Untouched, FrameSelected, GdbOK,
     ObservationFails, ExpressionCrashes, Die, Ends, LetGo, InsertedTraps
<1>9. CASE Reach \/ Delay \/ AddHook \/ AddHookCrashes \/ Enable \/ Disable
  BY <1>1, <1>2, <1>9 DEF Reach, Leave, Continue, Untouched, Delay, AddHook,
     AddHookCrashes, Die, Ends, LetGo, InsertedTraps, Enable, Toggle, Disable
<1>10. CASE StartKill \/ Kill \/ Store \/ StoreCrashes \/ Malformed
           \/ MalformedCrashes
  BY <1>1, <1>2, <1>10 DEF StartKill, Interrupt, Kill, Leave, Continue,
     Untouched, Store, StoreCrashes, Die, Ends, LetGo, InsertedTraps,
     Malformed, MalformedCrashes
<1>11. CASE Evaluated
  BY <1>1, <1>2, <1>11 DEF Evaluated
<1>12. CASE HitBreakpoint \/ TakeInterrupt \/ TakeSignal \/ TargetExits
  BY <1>1, <1>2, <1>12 DEF HitBreakpoint, Stop, Resumed, At, TakeInterrupt,
     TakeSignal, TargetExits
<1>13. CASE \E p \in Pids : UntracedEnds(p)
  BY <1>1, <1>2, <1>13 DEF UntracedEnds
<1>14. CASE DriverGoes
  BY <1>1, <1>2, <1>14 DEF DriverGoes
<1>15. CASE \E r \in Requests : SendRequest(r)
  BY <1>1, <1>2, <1>15 DEF SendRequest
<1>16. CASE \E i \in 0 .. MaxHooks - 1 : ClockPasses(i)
  BY <1>1, <1>2, <1>16 DEF ClockPasses
<1> QED
  BY <1>3, <1>4, <1>5, <1>6, <1>7, <1>8, <1>9, <1>10, <1>11, <1>12, <1>13,
     <1>14, <1>15, <1>16 DEF Next, Thread, Loop, Hooks, API, Target, Driver,
     Clock

\* After (quit) the target is never held where the loop would resume it.
LEMMA QuitStep ==
  ASSUME IInv, Next PROVE QuitInv'
<1> USE DEF QuitInv, CallInv, ContextInv, ContextAgreesWithGdb, TraceInv,
           FreshInv, StoppedInv, Attached, Stoppers, Breakers, Awake, Waiting,
           Ended, Afters
<1>1. QuitInv /\ CallInv /\ ContextInv /\ TraceInv /\ FreshInv /\ StoppedInv
  BY DEF IInv
<1>2. ret \in Afters
  BY DEF IInv, TypeOK, ThreadTypes, ProcessTypes
<1>3. CASE StartEventLoop \/ RestartFails \/ GetRequest \/ NoRequest
           \/ DriverClosed \/ Respond
  BY <1>1, <1>2, <1>3 DEF StartEventLoop, RestartFails, Die, Ends, LetGo,
     InsertedTraps, GetRequest, NoRequest, DriverClosed, Respond
<1>4. CASE SkipContinuous \/ FetchNothing \/ FetchBreakpoint \/ FetchExit
           \/ FetchCrashes \/ ContinueTarget
  BY <1>1, <1>2, <1>4 DEF SkipContinuous, FetchNothing, FetchBreakpoint,
     Consume, FetchExit, FetchCrashes, Ends, LetGo, ContinueTarget, Continue
<1>5. CASE ScanCrashes \/ EndScan \/ SkipHook \/ TimedHook \/ TimedHookStopped
           \/ TimedHookDone
  BY <1>1, <1>2, <1>5 DEF ScanCrashes, Die, Ends, LetGo, InsertedTraps,
     EndScan, SkipHook, Step, TimedHook, Run, Interrupt, TimedHookStopped,
     TimedHookDone
<1>6. CASE BreakpointHook \/ BreakpointHookDone
  BY <1>1, <1>2, <1>6 DEF BreakpointHook, Run, IsReached, BreakpointHookDone,
     Step
<1>7. CASE WaitForInferior \/ WaitForever \/ Detach \/ Quit \/ SetTarget
           \/ DetachCrashes
  BY <1>1, <1>2, <1>7 DEF WaitForInferior, Consume, WaitForever, Detach,
     KeepTarget, DetachTarget, LetGo, ExitPending, Quit, SetTarget,
     DetachCrashes, Die, Ends, InsertedTraps
<1>8. CASE StartObservation \/ StartBreakpointCall \/ MeasureOK
  BY <1>1, <1>2, <1>8 DEF StartObservation, Interrupt, StartBreakpointCall,
     MeasureOK, Leave, Continue, Untouched, FrameSelected
<1>9. CASE GdbOK \/ ObservationFails \/ ExpressionCrashes
  BY <1>1, <1>2, <1>9 DEF GdbOK, Leave, Continue, Untouched, ObservationFails,
     FrameSelected, ExpressionCrashes, Die, Ends, LetGo, InsertedTraps
<1>10. CASE Reach \/ Delay \/ AddHook \/ AddHookCrashes \/ Enable \/ Disable
  BY <1>1, <1>2, <1>10 DEF Reach, Leave, Continue, Untouched, Delay, AddHook,
     AddHookCrashes, Die, Ends, LetGo, InsertedTraps, Enable, Toggle, Disable
<1>11. CASE StartKill \/ Kill \/ Store
  BY <1>1, <1>2, <1>11 DEF StartKill, Interrupt, Kill, Leave, Continue,
     Untouched, Store
<1>12. CASE StoreCrashes \/ Malformed \/ MalformedCrashes
  BY <1>1, <1>2, <1>12 DEF StoreCrashes, Die, Ends, LetGo, InsertedTraps,
     Malformed, MalformedCrashes
<1>13. CASE Evaluated
  BY <1>1, <1>2, <1>13 DEF Evaluated
<1>14. CASE HitBreakpoint \/ TakeInterrupt \/ TakeSignal \/ TargetExits
  BY <1>1, <1>2, <1>14 DEF HitBreakpoint, Stop, Resumed, At, TakeInterrupt,
     TakeSignal, TargetExits
<1>15. CASE \E p \in Pids : UntracedEnds(p)
  BY <1>1, <1>2, <1>15 DEF UntracedEnds
<1>16. CASE DriverGoes
  BY <1>1, <1>2, <1>16 DEF DriverGoes
<1>17. CASE \E r \in Requests : SendRequest(r)
  BY <1>1, <1>2, <1>17 DEF SendRequest
<1>18. CASE \E i \in 0 .. MaxHooks - 1 : ClockPasses(i)
  BY <1>1, <1>2, <1>18 DEF ClockPasses
<1> QED
  BY <1>3, <1>4, <1>5, <1>6, <1>7, <1>8, <1>9, <1>10, <1>11, <1>12, <1>13,
     <1>14, <1>15, <1>16, <1>17, <1>18 DEF Next, Thread, Loop, Hooks, API,
     Target, Driver, Clock

\* Every interrupt is waited for, and the wait takes it unless another stop came first.
LEMMA InterruptStep ==
  ASSUME IInv, Next PROVE InterruptInv'
<1> USE DEF InterruptInv, StrayInterruptNeedsLostStop, TraceInv, FreshInv,
           Waiting
<1>1. InterruptInv /\ TraceInv /\ FreshInv
  BY DEF IInv
<1>2. event # NoEvent =>
        event.kind \in {"breakpoint", "interrupt", "signal", "exit"}
  BY DEF IInv, TypeOK, ProcessTypes, Stops
<1>3. CASE StartEventLoop \/ RestartFails \/ GetRequest \/ NoRequest
           \/ DriverClosed \/ Respond
  BY <1>1, <1>2, <1>3 DEF StartEventLoop, RestartFails, Die, Ends, LetGo,
     InsertedTraps, GetRequest, NoRequest, DriverClosed, Respond
<1>4. CASE SkipContinuous \/ FetchNothing \/ FetchBreakpoint \/ FetchExit
           \/ FetchCrashes \/ ContinueTarget
  BY <1>1, <1>2, <1>4 DEF SkipContinuous, Attached, FetchNothing,
     FetchBreakpoint, Consume, FetchExit, FetchCrashes, Ends, LetGo,
     ContinueTarget, Continue
<1>5. CASE ScanCrashes \/ EndScan \/ SkipHook \/ TimedHook \/ TimedHookStopped
           \/ TimedHookDone
  BY <1>1, <1>2, <1>5 DEF ScanCrashes, Die, Ends, LetGo, InsertedTraps,
     EndScan, SkipHook, Step, TimedHook, Run, Interrupt, TimedHookStopped,
     TimedHookDone
<1>6. CASE BreakpointHook \/ BreakpointHookDone
  BY <1>1, <1>2, <1>6 DEF BreakpointHook, Run, IsReached, BreakpointHookDone,
     Step, Delete
<1>7. CASE WaitForInferior \/ WaitForever \/ Detach \/ Quit \/ SetTarget
           \/ DetachCrashes
  BY <1>1, <1>2, <1>7 DEF WaitForInferior, Consume, WaitForever, Detach,
     KeepTarget, DetachTarget, LetGo, ExitPending, Quit, Attached, SetTarget,
     DetachCrashes, Die, Ends, InsertedTraps
<1>8. CASE StartObservation \/ StartBreakpointCall \/ MeasureOK \/ GdbOK
           \/ ObservationFails \/ ExpressionCrashes
  BY <1>1, <1>2, <1>8 DEF StartObservation, Attached, Interrupt,
     StartBreakpointCall, MeasureOK, Leave, Continue, Untouched,
     FrameSelected, GdbOK, ObservationFails, ExpressionCrashes, Die, Ends, LetGo,
     InsertedTraps
<1>9. CASE Reach \/ Delay \/ AddHook \/ AddHookCrashes \/ Enable \/ Disable
  BY <1>1, <1>2, <1>9 DEF Reach, Leave, Continue, Untouched, Delay, AddHook,
     Attached, AddHookCrashes, Die, Ends, LetGo, InsertedTraps, Enable,
     Toggle, Disable
<1>10. CASE StartKill \/ Kill \/ Store \/ StoreCrashes \/ Malformed
           \/ MalformedCrashes
  BY <1>1, <1>2, <1>10 DEF StartKill, Interrupt, Kill, Leave, Continue,
     Untouched, Delete, Store, StoreCrashes, Die, Ends, LetGo, InsertedTraps,
     Malformed, MalformedCrashes
<1>11. CASE Evaluated
  BY <1>1, <1>2, <1>11 DEF Evaluated
<1>12. CASE HitBreakpoint \/ TakeInterrupt \/ TakeSignal \/ TargetExits
  BY <1>1, <1>2, <1>12 DEF HitBreakpoint, Stop, Resumed, At, TakeInterrupt,
     TakeSignal, TargetExits
<1>13. CASE \E p \in Pids : UntracedEnds(p)
  BY <1>1, <1>2, <1>13 DEF UntracedEnds
<1>14. CASE DriverGoes
  BY <1>1, <1>2, <1>14 DEF DriverGoes
<1>15. CASE \E r \in Requests : SendRequest(r)
  BY <1>1, <1>2, <1>15 DEF SendRequest
<1>16. CASE \E i \in 0 .. MaxHooks - 1 : ClockPasses(i)
  BY <1>1, <1>2, <1>16 DEF ClockPasses
<1> QED
  BY <1>3, <1>4, <1>5, <1>6, <1>7, <1>8, <1>9, <1>10, <1>11, <1>12, <1>13,
     <1>14, <1>15, <1>16 DEF Next, Thread, Loop, Hooks, API, Target, Driver,
     Clock

\* A process is lost to a trap left in it or to an interrupt that no wait took.
LEMMA HarmStep ==
  ASSUME IInv, Next PROVE HarmIsExplained'
<1> USE DEF HarmIsExplained, InterruptInv, StrayInterruptNeedsLostStop,
           FreshInv, Waiting
<1>1. HarmIsExplained /\ InterruptInv /\ FreshInv
  BY DEF IInv
<1>2. stale \in [Pids -> SUBSET Places]
  BY DEF IInv, TypeOK, ThreadTypes, ProcessTypes
<1>3. CASE StartEventLoop \/ RestartFails \/ GetRequest \/ NoRequest
           \/ DriverClosed \/ Respond
  BY <1>1, <1>2, <1>3 DEF StartEventLoop, RestartFails, Die, Ends, LetGo,
     InsertedTraps, GetRequest, NoRequest, DriverClosed, Respond
<1>4. CASE SkipContinuous \/ FetchNothing \/ FetchBreakpoint \/ FetchExit
           \/ FetchCrashes \/ ContinueTarget
  BY <1>1, <1>2, <1>4 DEF SkipContinuous, Attached, FetchNothing,
     FetchBreakpoint, Consume, FetchExit, FetchCrashes, Ends, LetGo,
     ContinueTarget, Continue
<1>5. CASE ScanCrashes \/ EndScan \/ SkipHook \/ TimedHook \/ TimedHookStopped
           \/ TimedHookDone
  BY <1>1, <1>2, <1>5 DEF ScanCrashes, Die, Ends, LetGo, InsertedTraps,
     EndScan, SkipHook, Step, TimedHook, Run, Interrupt, TimedHookStopped,
     TimedHookDone
<1>6. CASE BreakpointHook \/ BreakpointHookDone
  BY <1>1, <1>2, <1>6 DEF BreakpointHook, Run, IsReached, BreakpointHookDone,
     Step, Delete
<1>7. CASE WaitForInferior \/ WaitForever \/ Detach \/ Quit \/ SetTarget
           \/ DetachCrashes
  BY <1>1, <1>2, <1>7 DEF WaitForInferior, Consume, WaitForever, Detach,
     KeepTarget, DetachTarget, LetGo, ExitPending, Quit, Attached, SetTarget,
     DetachCrashes, Die, Ends, InsertedTraps
<1>8. CASE StartObservation \/ StartBreakpointCall \/ MeasureOK \/ GdbOK
           \/ ObservationFails \/ ExpressionCrashes
  BY <1>1, <1>2, <1>8 DEF StartObservation, Attached, Interrupt,
     StartBreakpointCall, MeasureOK, Leave, Continue, Untouched,
     FrameSelected, GdbOK, ObservationFails, ExpressionCrashes, Die, Ends, LetGo,
     InsertedTraps
<1>9. CASE Reach \/ Delay \/ AddHook \/ AddHookCrashes \/ Enable \/ Disable
  BY <1>1, <1>2, <1>9 DEF Reach, Leave, Continue, Untouched, Delay, AddHook,
     Attached, AddHookCrashes, Die, Ends, LetGo, InsertedTraps, Enable,
     Toggle, Disable
<1>10. CASE StartKill \/ Kill \/ Store \/ StoreCrashes \/ Malformed
           \/ MalformedCrashes
  BY <1>1, <1>2, <1>10 DEF StartKill, Interrupt, Kill, Leave, Continue,
     Untouched, Delete, Store, StoreCrashes, Die, Ends, LetGo, InsertedTraps,
     Malformed, MalformedCrashes
<1>11. CASE Evaluated
  BY <1>1, <1>2, <1>11 DEF Evaluated
<1>12. CASE HitBreakpoint \/ TakeInterrupt \/ TakeSignal \/ TargetExits
  BY <1>1, <1>2, <1>12 DEF HitBreakpoint, Stop, Resumed, At, TakeInterrupt,
     TakeSignal, TargetExits
<1>13. CASE \E p \in Pids : UntracedEnds(p)
  BY <1>1, <1>2, <1>13 DEF UntracedEnds
<1>14. CASE DriverGoes
  BY <1>1, <1>2, <1>14 DEF DriverGoes
<1>15. CASE \E r \in Requests : SendRequest(r)
  BY <1>1, <1>2, <1>15 DEF SendRequest
<1>16. CASE \E i \in 0 .. MaxHooks - 1 : ClockPasses(i)
  BY <1>1, <1>2, <1>16 DEF ClockPasses
<1> QED
  BY <1>3, <1>4, <1>5, <1>6, <1>7, <1>8, <1>9, <1>10, <1>11, <1>12, <1>13,
     <1>14, <1>15, <1>16 DEF Next, Thread, Loop, Hooks, API, Target, Driver,
     Clock

\* A breakpoint whose stop the loop may fetch is not deleted before that.
LEMMA HitStep ==
  ASSUME IInv, Next PROVE HitInv'
<1> USE DEF HitInv, TraceInv, FreshInv, StoppedInv, CallInv, Afters,
           Stoppers, Breakers
<1>1. HitInv /\ TraceInv /\ FreshInv /\ StoppedInv /\ CallInv
  BY DEF IInv
<1>2. ret \in Afters
  BY DEF IInv, TypeOK, ThreadTypes, ProcessTypes
<1>3. CASE StartEventLoop \/ RestartFails \/ GetRequest \/ NoRequest
           \/ DriverClosed \/ Respond
  BY <1>1, <1>2, <1>3 DEF StartEventLoop, RestartFails, Die, Ends, LetGo,
     InsertedTraps, GetRequest, NoRequest, DriverClosed, Respond
<1>4. CASE SkipContinuous \/ FetchNothing \/ FetchBreakpoint \/ FetchExit
           \/ FetchCrashes \/ ContinueTarget
  BY <1>1, <1>2, <1>4 DEF SkipContinuous, Attached, FetchNothing,
     FetchBreakpoint, Consume, FetchExit, FetchCrashes, Ends, LetGo,
     ContinueTarget, Continue
<1>5. CASE ScanCrashes \/ EndScan \/ SkipHook \/ TimedHook \/ TimedHookStopped
           \/ TimedHookDone
  BY <1>1, <1>2, <1>5 DEF ScanCrashes, Die, Ends, LetGo, InsertedTraps,
     EndScan, SkipHook, Step, TimedHook, Run, Interrupt, TimedHookStopped,
     TimedHookDone
<1>6. CASE BreakpointHook \/ BreakpointHookDone
  BY <1>1, <1>2, <1>6 DEF BreakpointHook, Run, IsReached, BreakpointHookDone,
     Step, Delete
<1>7. CASE WaitForInferior \/ WaitForever \/ Detach \/ Quit \/ SetTarget
           \/ DetachCrashes
  BY <1>1, <1>2, <1>7 DEF WaitForInferior, Consume, WaitForever, Detach,
     KeepTarget, DetachTarget, LetGo, ExitPending, Quit, Attached, SetTarget,
     DetachCrashes, Die, Ends, InsertedTraps
<1>8. CASE StartObservation \/ StartBreakpointCall \/ MeasureOK \/ GdbOK
           \/ ObservationFails \/ ExpressionCrashes
  BY <1>1, <1>2, <1>8 DEF StartObservation, Attached, Interrupt,
     StartBreakpointCall, MeasureOK, Leave, Continue, Untouched,
     FrameSelected, GdbOK, ObservationFails, ExpressionCrashes, Die, Ends, LetGo,
     InsertedTraps
<1>9. CASE Reach \/ Delay \/ AddHook \/ AddHookCrashes \/ Enable \/ Disable
  BY <1>1, <1>2, <1>9 DEF Reach, Leave, Continue, Untouched, Delay, AddHook,
     Attached, AddHookCrashes, Die, Ends, LetGo, InsertedTraps, Enable,
     Toggle, Disable
<1>10. CASE StartKill \/ Kill \/ Store \/ StoreCrashes \/ Malformed
           \/ MalformedCrashes
  BY <1>1, <1>2, <1>10 DEF StartKill, Interrupt, Kill, Leave, Continue,
     Untouched, Delete, Store, StoreCrashes, Die, Ends, LetGo, InsertedTraps,
     Malformed, MalformedCrashes
<1>11. CASE Evaluated
  BY <1>1, <1>2, <1>11 DEF Evaluated
<1>12. CASE HitBreakpoint \/ TakeInterrupt \/ TakeSignal \/ TargetExits
  BY <1>1, <1>2, <1>12 DEF HitBreakpoint, Stop, Resumed, At, TakeInterrupt,
     TakeSignal, TargetExits
<1>13. CASE \E p \in Pids : UntracedEnds(p)
  BY <1>1, <1>2, <1>13 DEF UntracedEnds
<1>14. CASE DriverGoes
  BY <1>1, <1>2, <1>14 DEF DriverGoes
<1>15. CASE \E r \in Requests : SendRequest(r)
  BY <1>1, <1>2, <1>15 DEF SendRequest
<1>16. CASE \E i \in 0 .. MaxHooks - 1 : ClockPasses(i)
  BY <1>1, <1>2, <1>16 DEF ClockPasses, IsHook, Hook
<1> QED
  BY <1>3, <1>4, <1>5, <1>6, <1>7, <1>8, <1>9, <1>10, <1>11, <1>12, <1>13,
     <1>14, <1>15, <1>16 DEF Next, Thread, Loop, Hooks, API, Target, Driver,
     Clock

\* Before the first breakpoint only interrupts and its end stop the target.
LEMMA NoBreakpointYetStep ==
  ASSUME IInv, Next PROVE NoBreakpointYetInv'
<1> USE DEF NoBreakpointYetInv
<1>1. NoBreakpointYetInv
  BY DEF IInv
<1>2. breakpoint_count \in Nat /\ inferior \in Pids \cup {NoPid}
        /\ stale \in [Pids -> SUBSET Places] /\ breakpoints \subseteq [num : Nat, loc : Places]
  BY DEF IInv, TypeOK, GdbTypes, ProcessTypes
<1>3. breakpoint_count = 0 /\ ~Signals => TrapsAtDetach = {}
  BY <1>1 DEF TrapsAtDetach, InsertedTraps
<1>4. CASE StartEventLoop \/ RestartFails \/ GetRequest \/ NoRequest
           \/ DriverClosed \/ Respond
  BY <1>1, <1>2, <1>3, <1>4 DEF StartEventLoop, RestartFails, Die, Ends,
     LetGo, InsertedTraps, GetRequest, NoRequest, DriverClosed, Respond
<1>5. CASE SkipContinuous \/ FetchNothing \/ FetchBreakpoint \/ FetchExit
           \/ FetchCrashes \/ ContinueTarget
  BY <1>1, <1>2, <1>3, <1>5 DEF SkipContinuous, Attached, FetchNothing,
     FetchBreakpoint, Consume, FetchExit, FetchCrashes, Ends, LetGo,
     ContinueTarget, Continue
<1>6. CASE ScanCrashes \/ EndScan \/ SkipHook \/ TimedHook \/ TimedHookStopped
           \/ TimedHookDone
  BY <1>1, <1>2, <1>3, <1>6 DEF ScanCrashes, Die, Ends, LetGo, InsertedTraps,
     EndScan, SkipHook, Step, TimedHook, Run, Interrupt, TimedHookStopped,
     TimedHookDone
<1>7. CASE BreakpointHook \/ BreakpointHookDone
  BY <1>1, <1>2, <1>3, <1>7 DEF BreakpointHook, Run, IsReached,
     BreakpointHookDone, Step, Delete
<1>8. CASE WaitForInferior \/ WaitForever \/ Detach \/ Quit \/ SetTarget
           \/ DetachCrashes
  BY <1>1, <1>2, <1>3, <1>8 DEF WaitForInferior, Consume, WaitForever, Detach,
     KeepTarget, DetachTarget, LetGo, ExitPending, Quit, Attached, SetTarget,
     DetachCrashes, Die, Ends, InsertedTraps
<1>9. CASE StartObservation \/ StartBreakpointCall \/ MeasureOK \/ GdbOK
           \/ ObservationFails \/ ExpressionCrashes
  BY <1>1, <1>2, <1>3, <1>9 DEF StartObservation, Attached, Interrupt,
     StartBreakpointCall, MeasureOK, Leave, Continue, Untouched,
     FrameSelected, GdbOK, ObservationFails, ExpressionCrashes, Die, Ends, LetGo,
     InsertedTraps
<1>10. CASE Reach \/ Delay \/ AddHook \/ AddHookCrashes \/ Enable \/ Disable
  BY <1>1, <1>2, <1>3, <1>10 DEF Reach, Leave, Continue, Untouched, Delay,
     AddHook, Attached, AddHookCrashes, Die, Ends, LetGo, InsertedTraps,
     Enable, Toggle, Disable
<1>11. CASE StartKill \/ Kill \/ Store \/ StoreCrashes \/ Malformed
           \/ MalformedCrashes
  BY <1>1, <1>2, <1>3, <1>11 DEF StartKill, Interrupt, Kill, Leave, Continue,
     Untouched, Delete, Store, StoreCrashes, Die, Ends, LetGo, InsertedTraps,
     Malformed, MalformedCrashes
<1>12. CASE Evaluated
  BY <1>1, <1>2, <1>3, <1>12 DEF Evaluated
<1>13. CASE HitBreakpoint \/ TakeInterrupt \/ TakeSignal \/ TargetExits
  BY <1>1, <1>2, <1>3, <1>13 DEF HitBreakpoint, Stop, Resumed, At,
     TakeInterrupt, TakeSignal, TargetExits
<1>14. CASE \E p \in Pids : UntracedEnds(p)
  BY <1>1, <1>2, <1>3, <1>14 DEF UntracedEnds
<1>15. CASE DriverGoes
  BY <1>1, <1>2, <1>3, <1>15 DEF DriverGoes
<1>16. CASE \E r \in Requests : SendRequest(r)
  BY <1>1, <1>2, <1>3, <1>16 DEF SendRequest
<1>17. CASE \E i \in 0 .. MaxHooks - 1 : ClockPasses(i)
  BY <1>1, <1>2, <1>3, <1>17 DEF ClockPasses
<1> QED
  BY <1>4, <1>5, <1>6, <1>7, <1>8, <1>9, <1>10, <1>11, <1>12, <1>13, <1>14,
     <1>15, <1>16, <1>17 DEF Next, Thread, Loop, Hooks, API, Target, Driver,
     Clock


\* A step that changes nothing keeps the invariant.
LEMMA StutterStep ==
  ASSUME IInv, UNCHANGED vars PROVE IInv'
<1> USE DEF vars
<1>1. TypeOK'
  BY DEF IInv, TypeOK, ContextTypes, HookTypes, GdbTypes, ProcessTypes, ThreadTypes,
         DriverTypes
<1>2. ScanInv' /\ TraceInv' /\ FreshInv' /\ StoppedInv'
  BY DEF IInv, ScanInv, IsHook, TraceInv, FreshInv, StoppedInv
<1>3. ContextInv' /\ CallInv' /\ QuitInv'
  BY DEF IInv, ContextInv, ContextAgreesWithGdb, Attached, Awake, Waiting, CallInv,
         HangsOnlyInAction, QuitInv
<1>4. InterruptInv' /\ HarmIsExplained' /\ HitInv' /\ NoBreakpointYetInv'
  BY DEF IInv, InterruptInv, StrayInterruptNeedsLostStop, Waiting, HarmIsExplained,
         HitInv, NoBreakpointYetInv
<1> QED BY <1>1, <1>2, <1>3, <1>4 DEF IInv

\* The invariant holds when gdb has started.
LEMMA InitIInv ==
  ASSUME Init PROVE IInv
<1> USE DEF Init
<1>1. TypeOK
  <2>1. ContextTypes /\ GdbTypes
    BY DEF ContextTypes, GdbTypes
  <2>2. ProcessTypes
    BY DEF ProcessTypes
  <2>3. <<>> \in Seq(HookRecords) /\ <<>> \in Seq(Calls)
    OBVIOUS
  <2>4. HookTypes
    BY <2>3 DEF HookTypes
  <2>5. ThreadTypes
    BY <2>3, ValuesTyped DEF ThreadTypes, Afters
  <2>6. DriverTypes
    BY <2>3, BoundsAreNaturals DEF DriverTypes
  <2> QED BY <2>1, <2>2, <2>4, <2>5, <2>6 DEF TypeOK
<1>2. ScanInv /\ TraceInv /\ FreshInv /\ StoppedInv
  BY DEF ScanInv, TraceInv, FreshInv, StoppedInv
<1>3. ContextInv /\ CallInv /\ QuitInv
  BY DEF ContextInv, ContextAgreesWithGdb, Awake, Waiting, CallInv,
         HangsOnlyInAction, QuitInv
<1>4. InterruptInv /\ HarmIsExplained /\ HitInv /\ NoBreakpointYetInv
  BY DEF InterruptInv, StrayInterruptNeedsLostStop, HarmIsExplained, HitInv,
         NoBreakpointYetInv
<1> QED BY <1>1, <1>2, <1>3, <1>4 DEF IInv

\* The inductive invariant holds in every behaviour of the measurer.
THEOREM Invariance == Spec => []IInv
<1>1. Init => IInv
  BY InitIInv
<1>2. IInv /\ [Next]_vars => IInv'
  <2> SUFFICES ASSUME IInv, [Next]_vars PROVE IInv'
    OBVIOUS
  <2>1. CASE Next
    <3>1. TypeOK'
      BY <2>1, ContextTypesStep, HookTypesStep, GdbTypesStep, ProcessTypesStep,
         ThreadTypesStep, DriverTypesStep DEF TypeOK
    <3> QED BY <2>1, <3>1, ScanStep, TraceStep, FreshStep, StoppedStep, ContextStep,
               CallStep, QuitStep, InterruptStep, HarmStep, HitStep, NoBreakpointYetStep
            DEF IInv
  <2>2. CASE UNCHANGED vars
    BY <2>2, StutterStep
  <2> QED BY <2>1, <2>2
<1> QED BY <1>1, <1>2, PTL DEF Spec

\* Every variable of the context, of gdb, of the processes, of the thread and of
\* the driver keeps the type of the structure it stands for.
THEOREM TypeCorrectness == Spec => []TypeOK
<1>1. IInv => TypeOK
  BY DEF IInv
<1> QED BY <1>1, Invariance, PTL

\* Whenever the loop looks for a request or a stop the target runs, whatever the
\* requests and hooks did before, failed calls and restarts included.
THEOREM TargetIsNeverLeftStopped == Spec => []TargetRunsBetweenRequests
<1>1. IInv => TargetRunsBetweenRequests
  <2> SUFFICES ASSUME IInv PROVE TargetRunsBetweenRequests
    OBVIOUS
  <2> QED BY DEF IInv, StoppedInv, TargetRunsBetweenRequests
<1> QED BY <1>1, Invariance, PTL

\* Wherever the code asks whether it is attached, the context answers for gdb.
THEOREM ContextIsAccurate == Spec => []ContextAgreesWithGdb
<1>1. IInv => ContextAgreesWithGdb
  BY DEF IInv, ContextInv
<1> QED BY <1>1, Invariance, PTL

\* Only a hook's action can wait for a target that is stopped already.
THEOREM HangsAreActions == Spec => []HangsOnlyInAction
<1>1. IInv => HangsOnlyInAction
  BY DEF IInv, CallInv
<1> QED BY <1>1, Invariance, PTL

\* A (quit), in a request or in an action, is the last thing the measurer serves.
THEOREM QuitIsFinal == Spec => []NoServiceAfterQuit
<1>1. IInv => NoServiceAfterQuit
  BY DEF IInv, QuitInv, NoServiceAfterQuit
<1> QED BY <1>1, Invariance, PTL

\* An interrupt is left over only from a wait that another stop ended.
THEOREM StrayInterruptsAreLostStops == Spec => []StrayInterruptNeedsLostStop
<1>1. IInv => StrayInterruptNeedsLostStop
  BY DEF IInv, InterruptInv
<1> QED BY <1>1, Invariance, PTL

\* A process dies of the measurer only by a left trap or a left interrupt.
THEOREM HarmHasACause == Spec => []HarmIsExplained
<1>1. IInv => HarmIsExplained
  BY DEF IInv
<1> QED BY <1>1, Invariance, PTL

\* Measuring alone, with any number of targets, detaches and ends, kills nothing.
THEOREM MeasuringDoesNoHarm == Spec => []MeasuringIsHarmless
<1>1. IInv => MeasuringIsHarmless
  <2> SUFFICES ASSUME IInv PROVE MeasuringIsHarmless
    OBVIOUS
  <2> QED BY DEF IInv, HarmIsExplained, NoBreakpointYetInv, MeasuringIsHarmless
<1> QED BY <1>1, Invariance, PTL

-----------------------------------------------------------------------------
(* One-shot hooks: used up, they have neither a breakpoint nor a number    *)
(* that a later hit could name, even if they are enabled again.            *)

\* The loop looks for breakpoint hooks, or runs the action of one.
InHookB ==
  \/ pc \in {"hookB", "hookBDone"}
  \/ pc \in {"eval", "callWait", "body"} /\ ret = "hookBDone"

\* The last fetch is not looked at before the next one.
BetweenFetches ==
  \/ pc \in {"resume", "request", "respond", "fetch"}
  \/ pc \in {"eval", "callWait", "body"} /\ ret = "respond"

Spent(k) == hooks[k].kind = "B" /\ ~hooks[k].repeat /\ hooks[k].fired # 0

\* Its action runs.
Acts(k) == pc # "hookB" /\ InHookB /\ cursor + 1 = k /\ hooks[k].bp = breaked

\* Its breakpoint is gone for good, and the scan that ran it is past it.
Gone(k) ==
  /\ hooks[k].bp <= breakpoint_count
  /\ \A b \in breakpoints : b.num # hooks[k].bp
  /\ breaked = hooks[k].bp /\ breaked # 0 => BetweenFetches \/ (InHookB /\ cursor >= k)

\* A hook that waits for the target to stop is a timed one.
TimedWaits == pc \in {"hookWait", "hookStopped"} =>
                cursor < Len(hooks) /\ hooks[cursor + 1].kind = "T"

OneShotInv ==
  /\ ~port => hooks = <<>>
  /\ TimedWaits
  /\ breaked <= breakpoint_count /\ \A b \in breakpoints : b.num <= breakpoint_count
  /\ \A k \in 1 .. Len(hooks) :
       Spent(k) => hooks[k].fired = 1 /\ (Awake => Acts(k) \/ Gone(k))

-----------------------------------------------------------------------------
(* Steps that leave what the invariant looks at in order.                  *)

KeepsHooks ==
  /\ Len(hooks) <= Len(hooks')
  /\ \A k \in 1 .. Len(hooks) :
       /\ hooks'[k].kind = hooks[k].kind /\ hooks'[k].bp = hooks[k].bp
       /\ hooks'[k].repeat = hooks[k].repeat /\ hooks'[k].fired = hooks[k].fired
  /\ \A k \in Len(hooks) + 1 .. Len(hooks') : hooks'[k].fired = 0

\* Breakpoints go, or the next number is given to a new one.
KeepsNumbers ==
  /\ breakpoint_count <= breakpoint_count'
  /\ \A b \in breakpoints' :
       b \in breakpoints \/ (b.num = breakpoint_count + 1 /\ b.num = breakpoint_count')

KeepsPhase ==
  /\ breaked' = breaked /\ cursor' = cursor /\ (port => port') /\ (~port' => hooks' = hooks)
  /\ Awake' =>
       /\ Awake
       /\ InHookB => InHookB' /\ (pc' = "hookB" <=> pc = "hookB")
       /\ BetweenFetches => BetweenFetches'
       /\ pc' \in {"hookWait", "hookStopped"} => pc \in {"hookWait", "hookStopped"}
  /\ ~Awake' => pc' \notin {"hookWait", "hookStopped"}

\* Writing another field of a hook.
LEMMA FieldsKept ==
  ASSUME hooks \in Seq(HookRecords), NEW j \in Int, NEW b \in BOOLEAN,
         hooks' \in {hooks, [hooks EXCEPT ![j].enabled = b], [hooks EXCEPT ![j].due = b]}
  PROVE  KeepsHooks /\ Len(hooks') = Len(hooks)
<1>1. Len(hooks) \in Nat
  OBVIOUS
<1>2. ASSUME NEW h \in HookRecords
      PROVE  /\ [h EXCEPT !.enabled = b].kind = h.kind /\ [h EXCEPT !.enabled = b].bp = h.bp
             /\ [h EXCEPT !.enabled = b].repeat = h.repeat
             /\ [h EXCEPT !.enabled = b].fired = h.fired
             /\ [h EXCEPT !.due = b].kind = h.kind /\ [h EXCEPT !.due = b].bp = h.bp
             /\ [h EXCEPT !.due = b].repeat = h.repeat
             /\ [h EXCEPT !.due = b].fired = h.fired
  BY DEF HookRecords
<1>3. ASSUME NEW k \in 1 .. Len(hooks)
      PROVE  hooks[k] \in HookRecords
  OBVIOUS
<1>4. Len(hooks') = Len(hooks)
  BY <1>1
<1>5. ASSUME NEW k \in 1 .. Len(hooks)
      PROVE  hooks'[k] \in {hooks[k], [hooks[k] EXCEPT !.enabled = b],
                            [hooks[k] EXCEPT !.due = b]}
  BY <1>1
<1>6. ASSUME NEW k \in 1 .. Len(hooks)
      PROVE  /\ hooks'[k].kind = hooks[k].kind /\ hooks'[k].bp = hooks[k].bp
             /\ hooks'[k].repeat = hooks[k].repeat /\ hooks'[k].fired = hooks[k].fired
  <2> DEFINE h == hooks[k]
  <2>1. h \in HookRecords /\ hooks'[k] \in {h, [h EXCEPT !.enabled = b], [h EXCEPT !.due = b]}
    BY <1>3, <1>5
  <2> HIDE DEF h
  <2>2. /\ hooks'[k].kind = h.kind /\ hooks'[k].bp = h.bp
        /\ hooks'[k].repeat = h.repeat /\ hooks'[k].fired = h.fired
    BY <2>1, <1>2
  <2> QED BY <2>2 DEF h
<1>7. \A k \in Len(hooks) + 1 .. Len(hooks') : FALSE
  BY <1>1, <1>4
<1> QED BY <1>1, <1>4, <1>6, <1>7 DEF KeepsHooks

LEMMA HooksUnchanged ==
  ASSUME hooks \in Seq(HookRecords), hooks' = hooks
  PROVE  KeepsHooks
  BY DEF KeepsHooks

\* The steps that look at a fetched stop or scan the hooks, and the first one
Scans ==
  \/ StartEventLoop \/ FetchNothing \/ FetchBreakpoint \/ EndScan \/ SkipHook
  \/ TimedHook \/ TimedHookStopped \/ TimedHookDone \/ BreakpointHook \/ BreakpointHookDone

\* No other step changes what the hooks are, or how often they were run.
LEMMA HooksKept ==
  ASSUME IInv, OneShotInv, Next, ~Scans PROVE KeepsHooks
<1>1. HookTypes /\ ThreadTypes
  BY DEF IInv, TypeOK
<1>2. hooks' = hooks => KeepsHooks
  BY <1>1, HooksUnchanged DEF HookTypes
<1>3. CASE RestartFails \/ GetRequest \/ NoRequest \/ DriverClosed \/ Respond
           \/ SkipContinuous \/ FetchExit \/ FetchCrashes \/ ContinueTarget
  BY <1>1, <1>2, <1>3 DEF RestartFails, Die, Ends, GetRequest, NoRequest,
     DriverClosed, Respond, SkipContinuous, FetchExit, Consume, FetchCrashes,
     ContinueTarget, Continue
<1>4. CASE ScanCrashes \/ WaitForInferior \/ WaitForever \/ Detach \/ Quit
           \/ SetTarget \/ DetachCrashes \/ StartObservation
           \/ StartBreakpointCall
  BY <1>1, <1>2, <1>4 DEF ScanCrashes, Die, Ends, WaitForInferior, Consume,
     WaitForever, Detach, KeepTarget, DetachTarget, ExitPending, Quit,
     SetTarget, DetachCrashes, StartObservation, Interrupt,
     StartBreakpointCall
<1>5. CASE MeasureOK \/ GdbOK \/ ObservationFails \/ ExpressionCrashes \/ Reach
           \/ Delay
  BY <1>1, <1>2, <1>5 DEF MeasureOK, Leave, Continue, Untouched,
     FrameSelected, GdbOK, ObservationFails, ExpressionCrashes, Die, Ends, Reach,
     Delay
<1>6. CASE AddHook
  <2>1. CASE UNCHANGED hooks
    BY <1>1, <2>1, HooksUnchanged DEF HookTypes
  <2>2. CASE hooks' = Append(hooks, NewHook(val, Call.action))
    <3>1. NewHook(val, Call.action).fired = 0
      BY DEF NewHook
    <3> HIDE DEF Call
    <3> QED BY <1>1, <2>2, <3>1 DEF HookTypes, KeepsHooks
  <2> QED BY <2>1, <2>2, <1>6 DEF AddHook
<1>7. CASE AddHookCrashes
  BY <1>1, <1>2, <1>7 DEF AddHookCrashes, Die, Ends
<1>8. CASE Enable
  <2>1. Call.i + 1 \in Int
    BY <1>1, CallsTyped, CallsAreWellFormed, BoundsAreNaturals, <1>8 DEF ThreadTypes, Enable, Toggle
  <2>2. hooks' \in {hooks, [hooks EXCEPT ![Call.i + 1].enabled = TRUE]}
    BY <1>8 DEF Enable, Toggle
  <2> QED BY <1>1, <2>1, <2>2, FieldsKept DEF HookTypes
<1>9. CASE Disable
  <2>1. Call.i + 1 \in Int
    BY <1>1, CallsTyped, CallsAreWellFormed, BoundsAreNaturals, <1>9 DEF ThreadTypes, Disable, Toggle
  <2>2. hooks' \in {hooks, [hooks EXCEPT ![Call.i + 1].enabled = FALSE]}
    BY <1>9 DEF Disable, Toggle
  <2> QED BY <1>1, <2>1, <2>2, FieldsKept DEF HookTypes
<1>10. CASE StartKill
  <2>1. Call.i + 1 \in Int
    BY <1>1, CallsTyped, CallsAreWellFormed, BoundsAreNaturals, <1>10 DEF ThreadTypes, StartKill
  <2>2. hooks' \in {hooks, [hooks EXCEPT ![Call.i + 1].enabled = FALSE]}
    BY <1>10 DEF StartKill
  <2> QED BY <1>1, <2>1, <2>2, FieldsKept DEF HookTypes
<1>11. CASE Kill \/ Store \/ StoreCrashes \/ Malformed \/ MalformedCrashes
           \/ Evaluated \/ HitBreakpoint \/ TakeInterrupt \/ TakeSignal
  BY <1>1, <1>2, <1>11 DEF Kill, Leave, Continue, Untouched, Delete, Store,
     StoreCrashes, Die, Ends, Malformed, MalformedCrashes, Evaluated,
     HitBreakpoint, Stop, Resumed, At, TakeInterrupt, TakeSignal
<1>12. CASE TargetExits
  BY <1>1, <1>2, <1>12 DEF TargetExits, Stop, Resumed, At
<1>13. CASE \E p \in Pids : UntracedEnds(p)
  BY <1>1, <1>2, <1>13 DEF UntracedEnds
<1>14. CASE DriverGoes
  BY <1>1, <1>2, <1>14 DEF DriverGoes
<1>15. CASE \E r \in Requests : SendRequest(r)
  BY <1>1, <1>2, <1>15 DEF SendRequest
<1>16. CASE \E i \in 0 .. MaxHooks - 1 : ClockPasses(i)
  <2>1. PICK i \in 0 .. MaxHooks - 1 : ClockPasses(i)
    BY <1>16
  <2>2. hooks' = [hooks EXCEPT ![i + 1].due = TRUE]
    BY <2>1 DEF ClockPasses
  <2>3. i + 1 \in Int
    BY BoundsAreNaturals
  <2> QED BY <1>1, <2>2, <2>3, FieldsKept DEF HookTypes
<1> QED
  BY <1>3, <1>4, <1>5, <1>6, <1>7, <1>8, <1>9, <1>10, <1>11, <1>12, <1>13,
     <1>14, <1>15, <1>16 DEF Next, Thread, Loop, Hooks, API, Target, Driver,
     Clock, Scans

\* No other step gives a number that was given before.
LEMMA NumbersKept ==
  ASSUME IInv, OneShotInv, Next, ~Scans PROVE KeepsNumbers
<1> USE DEF KeepsNumbers
<1>1. breakpoint_count \in Nat
  BY DEF IInv, TypeOK, GdbTypes
<1>2. CASE RestartFails \/ GetRequest \/ NoRequest \/ DriverClosed \/ Respond
           \/ SkipContinuous \/ FetchExit \/ FetchCrashes \/ ContinueTarget
  BY <1>1, <1>2 DEF RestartFails, Die, Ends, GetRequest, NoRequest,
     DriverClosed, Respond, SkipContinuous, FetchExit, Consume, FetchCrashes,
     ContinueTarget, Continue
<1>3. CASE ScanCrashes \/ WaitForInferior \/ WaitForever \/ Detach \/ Quit
           \/ SetTarget \/ DetachCrashes \/ StartObservation
           \/ StartBreakpointCall
  BY <1>1, <1>3 DEF ScanCrashes, Die, Ends, WaitForInferior, Consume,
     WaitForever, Detach, KeepTarget, DetachTarget, ExitPending, Quit,
     SetTarget, DetachCrashes, StartObservation, Interrupt,
     StartBreakpointCall
<1>4. CASE MeasureOK \/ GdbOK \/ ObservationFails \/ ExpressionCrashes
  BY <1>1, <1>4 DEF MeasureOK, Leave, Continue, Untouched, FrameSelected,
     GdbOK, ObservationFails, ExpressionCrashes, Die, Ends
<1>5. CASE Reach
  BY <1>1, <1>5 DEF Reach, Leave, Continue, Untouched
<1>6. CASE Delay \/ AddHook \/ AddHookCrashes \/ Enable \/ Disable
           \/ StartKill \/ Kill \/ Store \/ StoreCrashes
  BY <1>1, <1>6 DEF Delay, AddHook, AddHookCrashes, Die, Ends, Enable, Toggle,
     Disable, StartKill, Interrupt, Kill, Leave, Continue, Untouched, Delete,
     Store, StoreCrashes
<1>7. CASE Malformed \/ MalformedCrashes \/ Evaluated \/ HitBreakpoint
           \/ TakeInterrupt \/ TakeSignal \/ TargetExits
  BY <1>1, <1>7 DEF Malformed, MalformedCrashes, Die, Ends, Evaluated,
     HitBreakpoint, Stop, Resumed, At, TakeInterrupt, TakeSignal, TargetExits
<1>8. CASE \E p \in Pids : UntracedEnds(p)
  BY <1>1, <1>8 DEF UntracedEnds
<1>9. CASE DriverGoes
  BY <1>1, <1>9 DEF DriverGoes
<1>10. CASE \E r \in Requests : SendRequest(r)
  BY <1>1, <1>10 DEF SendRequest
<1>11. CASE \E i \in 0 .. MaxHooks - 1 : ClockPasses(i)
  BY <1>1, <1>11 DEF ClockPasses
<1> QED
  BY <1>2, <1>3, <1>4, <1>5, <1>6, <1>7, <1>8, <1>9, <1>10, <1>11 DEF Next,
     Thread, Loop, Hooks, API, Target, Driver, Clock, Scans

\* No other step leaves the scan or the action of a breakpoint hook, unless to end.
LEMMA PhaseKept ==
  ASSUME IInv, OneShotInv, Next, ~Scans PROVE KeepsPhase
<1> USE DEF KeepsPhase, Awake, InHookB, BetweenFetches, Ended, Afters
<1>1. ret \in Afters
  BY DEF IInv, TypeOK, ThreadTypes
<1>2. ~port => pc = "start"
  BY DEF IInv, FreshInv
<1>3. CASE RestartFails \/ GetRequest \/ NoRequest \/ DriverClosed \/ Respond
           \/ SkipContinuous
  BY <1>1, <1>2, <1>3 DEF RestartFails, Die, Ends, GetRequest, NoRequest,
     DriverClosed, Respond, SkipContinuous
<1>4. CASE FetchExit \/ FetchCrashes \/ ContinueTarget \/ ScanCrashes
           \/ WaitForInferior \/ WaitForever
  BY <1>1, <1>2, <1>4 DEF FetchExit, Consume, FetchCrashes, Ends,
     ContinueTarget, Continue, ScanCrashes, Die, WaitForInferior, WaitForever
<1>5. CASE Detach \/ Quit \/ SetTarget \/ DetachCrashes \/ StartObservation
           \/ StartBreakpointCall
  BY <1>1, <1>2, <1>5 DEF Detach, KeepTarget, DetachTarget, ExitPending, Quit,
     SetTarget, DetachCrashes, Die, Ends, StartObservation, Interrupt,
     StartBreakpointCall
<1>6. CASE MeasureOK \/ GdbOK \/ ObservationFails \/ ExpressionCrashes \/ Reach
           \/ Delay
  BY <1>1, <1>2, <1>6 DEF MeasureOK, Leave, Continue, Untouched,
     FrameSelected, GdbOK, ObservationFails, ExpressionCrashes, Die, Ends, Reach,
     Delay
<1>7. CASE AddHook \/ AddHookCrashes \/ Enable \/ Disable \/ StartKill \/ Kill
  BY <1>1, <1>2, <1>7 DEF AddHook, AddHookCrashes, Die, Ends, Enable, Toggle,
     Disable, StartKill, Interrupt, Kill, Leave, Continue, Untouched, Delete
<1>8. CASE Store \/ StoreCrashes \/ Malformed \/ MalformedCrashes \/ Evaluated
           \/ HitBreakpoint
  BY <1>1, <1>2, <1>8 DEF Store, StoreCrashes, Die, Ends, Malformed,
     MalformedCrashes, Evaluated, HitBreakpoint, Stop, Resumed, At
<1>9. CASE TakeInterrupt \/ TakeSignal \/ TargetExits
  BY <1>1, <1>2, <1>9 DEF TakeInterrupt, Stop, Resumed, At, TakeSignal,
     TargetExits
<1>10. CASE \E p \in Pids : UntracedEnds(p)
  BY <1>1, <1>2, <1>10 DEF UntracedEnds
<1>11. CASE DriverGoes
  BY <1>1, <1>2, <1>11 DEF DriverGoes
<1>12. CASE \E r \in Requests : SendRequest(r)
  BY <1>1, <1>2, <1>12 DEF SendRequest
<1>13. CASE \E i \in 0 .. MaxHooks - 1 : ClockPasses(i)
  <2>1. PICK i \in 0 .. MaxHooks - 1 : ClockPasses(i)
    BY <1>13
  <2>2. port
    BY <2>1, BoundsAreNaturals DEF OneShotInv, ClockPasses, IsHook
  <2> QED BY <2>1, <2>2 DEF ClockPasses
<1> QED
  BY <1>3, <1>4, <1>5, <1>6, <1>7, <1>8, <1>9, <1>10, <1>11, <1>12, <1>13 DEF
     Next, Thread, Loop, Hooks, API, Target, Driver, Clock, Scans

-----------------------------------------------------------------------------
(* The invariant.                                                          *)

\* A step that keeps all of that keeps the invariant.
LEMMA QuietStep ==
  ASSUME IInv, IInv', OneShotInv, KeepsHooks, KeepsNumbers, KeepsPhase
  PROVE  OneShotInv'
<1>1. /\ Len(hooks) \in Nat /\ Len(hooks') \in Nat /\ breaked \in Nat /\ cursor \in Nat
      /\ breakpoint_count \in Nat /\ breakpoint_count' \in Nat
      /\ \A b \in breakpoints : b.num \in Nat
      /\ \A k \in 1 .. Len(hooks) : hooks[k].bp \in Nat
  <2>1. HookTypes /\ HookTypes' /\ GdbTypes /\ GdbTypes' /\ ThreadTypes
    BY DEF IInv, TypeOK
  <2>2. \A k \in 1 .. Len(hooks) : hooks[k] \in HookRecords
    BY <2>1 DEF HookTypes
  <2> QED BY <2>1, <2>2 DEF HookTypes, HookRecords, GdbTypes, ThreadTypes
<1>2. ~port' => hooks' = <<>>
  BY DEF OneShotInv, KeepsPhase
<1>3. TimedWaits'
  <2> SUFFICES ASSUME pc' \in {"hookWait", "hookStopped"}
               PROVE  cursor' < Len(hooks') /\ hooks'[cursor' + 1].kind = "T"
    BY DEF TimedWaits
  <2>1. pc \in {"hookWait", "hookStopped"} /\ cursor' = cursor
    BY DEF KeepsPhase
  <2>2. cursor < Len(hooks) /\ hooks[cursor + 1].kind = "T"
    BY <2>1 DEF OneShotInv, TimedWaits
  <2>3. cursor + 1 \in 1 .. Len(hooks)
    BY <1>1, <2>2
  <2> QED BY <1>1, <2>1, <2>2, <2>3 DEF KeepsHooks
<1>4. breaked' <= breakpoint_count' /\ \A b \in breakpoints' : b.num <= breakpoint_count'
  BY <1>1 DEF OneShotInv, KeepsNumbers, KeepsPhase
<1>5. ASSUME NEW k \in 1 .. Len(hooks'), Spent(k)'
      PROVE  hooks'[k].fired = 1 /\ (Awake' => Acts(k)' \/ Gone(k)')
  <2>1. k \in 1 .. Len(hooks)
    BY <1>1, <1>5 DEF KeepsHooks, Spent
  <2>2. /\ hooks'[k].bp = hooks[k].bp /\ hooks'[k].fired = hooks[k].fired /\ Spent(k)
    BY <2>1, <1>5 DEF KeepsHooks, Spent
  <2>3. hooks[k].fired = 1 /\ (Awake => Acts(k) \/ Gone(k))
    BY <2>1, <2>2 DEF OneShotInv
  <2>4. ASSUME Awake', Acts(k) PROVE Acts(k)'
    BY <2>2, <2>4 DEF Acts, KeepsPhase
  <2>5. ASSUME Awake', Gone(k) PROVE Gone(k)'
    <3> DEFINE bp == hooks[k].bp
    <3>1. bp \in Nat
      BY <1>1, <2>1
    <3>2. bp <= breakpoint_count' /\ \A b \in breakpoints' : b.num # bp
      <4>1. bp <= breakpoint_count /\ \A b \in breakpoints : b.num # bp
        BY <2>5 DEF Gone
      <4> HIDE DEF bp
      <4> QED BY <1>1, <3>1, <4>1 DEF KeepsNumbers
    <3>3. breaked' = bp /\ breaked' # 0 => BetweenFetches' \/ (InHookB' /\ cursor' >= k)
      BY <2>5 DEF Gone, KeepsPhase
    <3> QED BY <2>2, <3>2, <3>3 DEF Gone
  <2>6. Awake' => Awake
    BY DEF KeepsPhase
  <2> QED BY <2>2, <2>3, <2>4, <2>5, <2>6
<1> QED BY <1>2, <1>3, <1>4, <1>5 DEF OneShotInv

\* The types that a step of the scan relies on.
LEMMA ScanTypes ==
  ASSUME IInv
  PROVE  /\ hooks \in Seq(HookRecords) /\ Len(hooks) \in Nat
         /\ breaked \in Nat /\ cursor \in Nat /\ ret \in Afters
         /\ breakpoint_count \in Nat
         /\ \A b \in breakpoints : b.num \in Nat
         /\ \A k \in 1 .. Len(hooks) :
              hooks[k] \in HookRecords /\ hooks[k].bp \in Nat /\ hooks[k].fired \in 0 .. 2
<1>1. HookTypes /\ GdbTypes /\ ThreadTypes
  BY DEF IInv, TypeOK
<1>2. \A k \in 1 .. Len(hooks) : hooks[k] \in HookRecords
  BY <1>1 DEF HookTypes
<1> QED BY <1>1, <1>2 DEF HookTypes, HookRecords, GdbTypes, ThreadTypes

\* A fetch starts a scan, and brings a number that no spent hook has.
LEMMA FetchStep ==
  ASSUME IInv, OneShotInv, StartEventLoop \/ FetchNothing \/ FetchBreakpoint
  PROVE  OneShotInv'
<1>1. CASE StartEventLoop
  <2>1. hooks = <<>> /\ hooks' = hooks /\ port'
    BY <1>1 DEF StartEventLoop, OneShotInv
  <2>2. Len(hooks') = 0 /\ pc' = "request"
    BY <1>1, <2>1 DEF StartEventLoop
  <2>3. breaked' = breaked /\ breakpoint_count' = breakpoint_count /\ breakpoints' = breakpoints
    BY <1>1 DEF StartEventLoop
  <2> QED BY <2>1, <2>2, <2>3 DEF OneShotInv, TimedWaits
<1>2. CASE FetchNothing \/ FetchBreakpoint
  <2>1. /\ pc = "fetch" /\ pc' = "hookT" /\ port' = port /\ hooks' = hooks /\ cursor' = 0
        /\ breakpoints' = breakpoints /\ breakpoint_count' = breakpoint_count
    BY <1>2 DEF FetchNothing, FetchBreakpoint
  <2>2. breaked' = 0 \/ \E b \in breakpoints : b.num = breaked'
    <3>1. CASE FetchNothing
      BY <3>1 DEF FetchNothing
    <3>2. CASE FetchBreakpoint
      <4>1. ~stopped /\ event # NoEvent /\ event.kind = "breakpoint"
        BY <3>2 DEF FetchBreakpoint, IInv, StoppedInv
      <4>2. \E b \in breakpoints : b.loc = event.loc
        BY <4>1 DEF IInv, HitInv
      <4>3. breakpoints \subseteq [num : Nat, loc : Places]
        BY DEF IInv, TypeOK, GdbTypes
      <4>4. breaked' = FirstAt(event.loc)
        BY <3>2 DEF FetchBreakpoint
      <4> QED BY <4>2, <4>3, <4>4, FirstAtIsThere
    <3> QED BY <1>2, <3>1, <3>2
  <2>3. breaked' <= breakpoint_count'
    BY <2>1, <2>2, ScanTypes DEF OneShotInv
  <2>4. ASSUME NEW k \in 1 .. Len(hooks), Spent(k)
        PROVE  hooks[k].fired = 1 /\ Gone(k)'
    <3>1. Awake /\ ~InHookB
      BY <2>1, ScanTypes DEF Awake, Ended, InHookB
    <3>2. hooks[k].fired = 1 /\ Gone(k)
      BY <2>4, <3>1 DEF OneShotInv, Acts
    <3>3. breaked' = hooks[k].bp /\ breaked' # 0 => FALSE
      BY <2>2, <3>2 DEF Gone
    <3> QED BY <2>1, <3>2, <3>3 DEF Gone
  <2> QED BY <2>1, <2>3, <2>4 DEF OneShotInv, TimedWaits, Spent
<1> QED BY <1>1, <1>2

\* The scan of the timed hooks ends, that of the breakpoint hooks begins or ends.
LEMMA EndScanStep ==
  ASSUME IInv, OneShotInv, EndScan
  PROVE  OneShotInv'
<1>1. /\ pc \in {"hookT", "hookB"} /\ hooks' = hooks /\ cursor' = 0 /\ port' = port
      /\ pc' = (IF pc = "hookT" THEN "hookB" ELSE "resume") /\ breaked' = breaked
      /\ breakpoints' = breakpoints /\ breakpoint_count' = breakpoint_count
  BY DEF EndScan
<1>2. ASSUME NEW k \in 1 .. Len(hooks), Spent(k)
      PROVE  hooks[k].fired = 1 /\ Gone(k)'
  <2>1. hooks[k].fired = 1 /\ Gone(k)
    BY <1>1, <1>2, ScanTypes DEF OneShotInv, Awake, Ended, Acts, InHookB
  <2>2. CASE pc = "hookT"
    <3>1. ~(breaked = hooks[k].bp /\ breaked # 0)
      BY <2>1, <2>2 DEF Gone, BetweenFetches, InHookB
    <3> QED BY <1>1, <2>1, <3>1 DEF Gone
  <2>3. CASE pc = "hookB"
    BY <1>1, <2>1, <2>3 DEF Gone, BetweenFetches
  <2> QED BY <1>1, <2>1, <2>2, <2>3
<1> QED BY <1>1, <1>2 DEF OneShotInv, TimedWaits, Spent

\* A hook that is not reached is passed.
LEMMA SkipStep ==
  ASSUME IInv, OneShotInv, SkipHook
  PROVE  OneShotInv'
<1>1. /\ pc \in {"hookT", "hookB"} /\ pc' = pc /\ hooks' = hooks /\ cursor' = cursor + 1
      /\ port' = port /\ breaked' = breaked
      /\ breakpoints' = breakpoints /\ breakpoint_count' = breakpoint_count
  BY DEF SkipHook, Step
<1>2. ASSUME NEW k \in 1 .. Len(hooks), Spent(k)
      PROVE  hooks[k].fired = 1 /\ Gone(k)'
  <2>1. hooks[k].fired = 1 /\ Gone(k)
    BY <1>1, <1>2, ScanTypes DEF OneShotInv, Awake, Ended, Acts, InHookB
  <2> QED BY <1>1, <2>1, ScanTypes DEF Gone, BetweenFetches, InHookB
<1> QED BY <1>1, <1>2 DEF OneShotInv, TimedWaits, Spent

\* The hook that is run: fired once more, and otherwise as it was.
LEMMA RunKept ==
  ASSUME hooks \in Seq(HookRecords), cursor \in Nat, cursor < Len(hooks),
         hooks' = [hooks EXCEPT ![cursor + 1].fired = IF @ < 2 THEN @ + 1 ELSE @]
  PROVE  /\ Len(hooks') = Len(hooks)
         /\ \A k \in 1 .. Len(hooks) :
              /\ hooks'[k].kind = hooks[k].kind /\ hooks'[k].bp = hooks[k].bp
              /\ hooks'[k].repeat = hooks[k].repeat
              /\ k # cursor + 1 => hooks'[k].fired = hooks[k].fired
         /\ hooks[cursor + 1].fired = 0 => hooks'[cursor + 1].fired = 1
<1>1. Len(hooks) \in Nat /\ cursor + 1 \in 1 .. Len(hooks)
  OBVIOUS
<1>2. Len(hooks') = Len(hooks)
  BY <1>1
<1>3. ASSUME NEW h \in HookRecords
      PROVE  LET r == [h EXCEPT !.fired = IF @ < 2 THEN @ + 1 ELSE @]
             IN r.kind = h.kind /\ r.bp = h.bp /\ r.repeat = h.repeat
                /\ (h.fired = 0 => r.fired = 1)
  BY DEF HookRecords
<1>4. hooks[cursor + 1] \in HookRecords
  BY <1>1
<1>5. ASSUME NEW k \in 1 .. Len(hooks), k # cursor + 1 PROVE hooks'[k] = hooks[k]
  BY <1>1, <1>5
<1>6. hooks'[cursor + 1] = [hooks[cursor + 1] EXCEPT !.fired = IF @ < 2 THEN @ + 1 ELSE @]
  BY <1>1
<1>7. LET h == hooks[cursor + 1] IN
        /\ hooks'[cursor + 1].kind = h.kind /\ hooks'[cursor + 1].bp = h.bp
        /\ hooks'[cursor + 1].repeat = h.repeat
        /\ h.fired = 0 => hooks'[cursor + 1].fired = 1
  <2> DEFINE h == hooks[cursor + 1]
  <2>1. h \in HookRecords /\ hooks'[cursor + 1] = [h EXCEPT !.fired = IF @ < 2 THEN @ + 1 ELSE @]
    BY <1>4, <1>6
  <2> HIDE DEF h
  <2>2. /\ hooks'[cursor + 1].kind = h.kind /\ hooks'[cursor + 1].bp = h.bp
        /\ hooks'[cursor + 1].repeat = h.repeat
        /\ h.fired = 0 => hooks'[cursor + 1].fired = 1
    BY <2>1, <1>3
  <2> QED BY <2>2 DEF h
<1> QED BY <1>1, <1>2, <1>5, <1>7

\* A timed hook is not one of those that the invariant is about.
LEMMA TimedHookStep ==
  ASSUME IInv, OneShotInv, TimedHook \/ TimedHookStopped
  PROVE  OneShotInv'
<1>1. /\ pc \in {"hookT", "hookStopped"} /\ cursor' = cursor /\ port' = port
      /\ breaked' = breaked /\ breakpoints' = breakpoints
      /\ breakpoint_count' = breakpoint_count
      /\ \/ hooks' = hooks /\ pc' \in {"hookWait", "start"}
         \/ /\ hooks' = [hooks EXCEPT ![cursor + 1].fired = IF @ < 2 THEN @ + 1 ELSE @]
            /\ pc' = "eval" /\ ret' = "hookTDone"
  BY DEF TimedHook, TimedHookStopped, Interrupt, Run
<1>2. cursor < Len(hooks) /\ hooks[cursor + 1].kind = "T"
  <2>1. CASE TimedHook
    BY <2>1 DEF TimedHook, TimeIsUp, Current, Hook, IsHook
  <2>2. CASE TimedHookStopped
    BY <2>2 DEF TimedHookStopped, OneShotInv, TimedWaits
  <2> QED BY <2>1, <2>2
<1>3. /\ Len(hooks') = Len(hooks)
      /\ \A k \in 1 .. Len(hooks) :
           /\ hooks'[k].kind = hooks[k].kind /\ hooks'[k].bp = hooks[k].bp
           /\ hooks'[k].repeat = hooks[k].repeat
           /\ hooks[k].kind = "B" => hooks'[k].fired = hooks[k].fired
  BY <1>1, <1>2, ScanTypes, RunKept
<1>4. ASSUME NEW k \in 1 .. Len(hooks'), Spent(k)'
      PROVE  hooks'[k].fired = 1 /\ Gone(k)'
  <2>1. k \in 1 .. Len(hooks) /\ Spent(k) /\ hooks'[k].fired = hooks[k].fired
    BY <1>3, <1>4 DEF Spent
  <2>2. hooks[k].fired = 1 /\ Gone(k)
    BY <1>1, <2>1, ScanTypes DEF OneShotInv, Awake, Ended, Acts, InHookB
  <2>3. hooks'[k].bp = hooks[k].bp
    BY <1>3, <2>1
  <2>4. ~(breaked = hooks[k].bp /\ breaked # 0)
    BY <1>1, <2>2 DEF Gone, BetweenFetches, InHookB
  <2> QED BY <1>1, <2>1, <2>2, <2>3, <2>4 DEF Gone
<1>5. TimedWaits'
  <2>1. cursor + 1 \in 1 .. Len(hooks)
    BY <1>2, ScanTypes
  <2> QED BY <1>1, <1>2, <1>3, <2>1 DEF TimedWaits
<1>6. port'
  BY <1>1 DEF IInv, FreshInv
<1> QED BY <1>1, <1>3, <1>4, <1>5, <1>6 DEF OneShotInv

LEMMA TimedHookDoneStep ==
  ASSUME IInv, OneShotInv, TimedHookDone
  PROVE  OneShotInv'
<1>1. /\ pc = "hookTDone" /\ pc' = "hookT" /\ port' = port /\ breaked' = breaked
      /\ breakpoints' = breakpoints /\ breakpoint_count' = breakpoint_count
      /\ hooks' \in {hooks, [hooks EXCEPT ![cursor + 1].enabled = FALSE],
                     [hooks EXCEPT ![cursor + 1].due = FALSE]}
  BY DEF TimedHookDone
<1>2. KeepsHooks /\ Len(hooks') = Len(hooks)
  <2> DEFINE j == cursor + 1
  <2>1. j \in Int /\ FALSE \in BOOLEAN /\ hooks \in Seq(HookRecords)
    BY ScanTypes
  <2>2. hooks' \in {hooks, [hooks EXCEPT ![j].enabled = FALSE], [hooks EXCEPT ![j].due = FALSE]}
    BY <1>1
  <2> HIDE DEF j
  <2> QED BY <2>1, <2>2, FieldsKept
<1>3. ASSUME NEW k \in 1 .. Len(hooks'), Spent(k)'
      PROVE  hooks'[k].fired = 1 /\ Gone(k)'
  <2>1. k \in 1 .. Len(hooks) /\ Spent(k) /\ hooks'[k].fired = hooks[k].fired
    BY <1>2, <1>3 DEF Spent, KeepsHooks
  <2>2. hooks[k].fired = 1 /\ Gone(k)
    BY <1>1, <2>1, ScanTypes DEF OneShotInv, Awake, Ended, Acts, InHookB
  <2>3. hooks'[k].bp = hooks[k].bp
    BY <1>2, <2>1 DEF KeepsHooks
  <2>4. ~(breaked = hooks[k].bp /\ breaked # 0)
    BY <1>1, <2>2 DEF Gone, BetweenFetches, InHookB
  <2> QED BY <1>1, <2>1, <2>2, <2>3, <2>4 DEF Gone
<1>4. port'
  BY <1>1 DEF IInv, FreshInv
<1> QED BY <1>1, <1>3, <1>4 DEF OneShotInv, TimedWaits

\* A spent hook is not run: its number is not that of a hit, or was passed.
LEMMA SpentIsPassed ==
  ASSUME IInv, OneShotInv, BreakpointHook
  PROVE  ~Spent(cursor + 1)
<1>1. /\ pc = "hookB" /\ cursor < Len(hooks)
      /\ breaked # 0 /\ breaked = hooks[cursor + 1].bp
  BY DEF BreakpointHook, IsReached, Current, Hook, IsHook
<1>2. cursor + 1 \in 1 .. Len(hooks)
  BY <1>1, ScanTypes
<1> SUFFICES ASSUME Spent(cursor + 1) PROVE FALSE
  OBVIOUS
<1>3. Acts(cursor + 1) \/ Gone(cursor + 1)
  BY <1>1, <1>2 DEF OneShotInv, Awake, Ended
<1>4. Gone(cursor + 1)
  BY <1>1, <1>3 DEF Acts
<1>5. cursor >= cursor + 1
  BY <1>1, <1>4 DEF Gone, BetweenFetches
<1> QED BY <1>5, ScanTypes

\* A hook that is spent is not reached: this is where it would run again.
LEMMA BreakpointHookStep ==
  ASSUME IInv, OneShotInv, BreakpointHook
  PROVE  OneShotInv'
<1>1. /\ pc = "hookB" /\ pc' = "eval" /\ ret' = "hookBDone" /\ cursor' = cursor
      /\ port' = port /\ breaked' = breaked
      /\ breakpoints' = breakpoints /\ breakpoint_count' = breakpoint_count
      /\ hooks' = [hooks EXCEPT ![cursor + 1].fired = IF @ < 2 THEN @ + 1 ELSE @]
  BY DEF BreakpointHook, Run
<1>2. /\ cursor < Len(hooks) /\ hooks[cursor + 1].kind = "B"
      /\ breaked # 0 /\ breaked = hooks[cursor + 1].bp
  BY DEF BreakpointHook, IsReached, Current, Hook, IsHook
<1>3. cursor + 1 \in 1 .. Len(hooks)
  BY <1>2, ScanTypes
<1>4. ~Spent(cursor + 1)
  BY SpentIsPassed
<1>5. /\ Len(hooks') = Len(hooks)
      /\ \A k \in 1 .. Len(hooks) :
           /\ hooks'[k].kind = hooks[k].kind /\ hooks'[k].bp = hooks[k].bp
           /\ hooks'[k].repeat = hooks[k].repeat
           /\ k # cursor + 1 => hooks'[k].fired = hooks[k].fired
      /\ hooks[cursor + 1].fired = 0 => hooks'[cursor + 1].fired = 1
  BY <1>1, <1>2, ScanTypes, RunKept
<1>6. ASSUME NEW k \in 1 .. Len(hooks'), Spent(k)'
      PROVE  hooks'[k].fired = 1 /\ (Acts(k)' \/ Gone(k)')
  <2>1. CASE k = cursor + 1
    <3>1. hooks'[k].fired = 1
      BY <1>2, <1>3, <1>4, <1>5, <1>6, <2>1 DEF Spent
    <3>2. Acts(k)'
      BY <1>1, <1>2, <1>3, <1>5, <2>1 DEF Acts, InHookB
    <3> QED BY <3>1, <3>2
  <2>2. CASE k # cursor + 1
    <3>1. k \in 1 .. Len(hooks) /\ Spent(k) /\ hooks'[k].fired = hooks[k].fired
      BY <1>5, <1>6, <2>2 DEF Spent
    <3>2. hooks[k].fired = 1 /\ Gone(k)
      BY <1>1, <3>1 DEF OneShotInv, Awake, Ended, Acts
    <3>3. hooks'[k].bp = hooks[k].bp
      BY <1>5, <3>1
    <3>4. InHookB'
      BY <1>1 DEF InHookB
    <3>5. breaked = hooks[k].bp /\ breaked # 0 => cursor >= k
      BY <1>1, <3>2 DEF Gone, BetweenFetches
    <3> QED BY <1>1, <3>1, <3>2, <3>3, <3>4, <3>5 DEF Gone
  <2> QED BY <2>1, <2>2
<1>7. port'
  BY <1>1 DEF IInv, FreshInv
<1> QED BY <1>1, <1>6, <1>7 DEF OneShotInv, TimedWaits

\* ... and this is where its breakpoint goes.
LEMMA BreakpointHookDoneStep ==
  ASSUME IInv, OneShotInv, BreakpointHookDone
  PROVE  OneShotInv'
<1>1. /\ pc = "hookBDone" /\ pc' = "hookB" /\ port' = port /\ breaked' = breaked
      /\ breakpoint_count' = breakpoint_count /\ cursor' = cursor + 1
      /\ breakpoints' \subseteq breakpoints
      /\ hooks' \in {hooks, [hooks EXCEPT ![cursor + 1].enabled = FALSE],
                     [hooks EXCEPT ![cursor + 1].due = FALSE]}
      /\ ~Current.repeat => \A b \in breakpoints' : b.num # Current.bp
  BY DEF BreakpointHookDone, Delete, Step
<1>2. KeepsHooks /\ Len(hooks') = Len(hooks)
  <2> DEFINE j == cursor + 1
  <2>1. j \in Int /\ FALSE \in BOOLEAN /\ hooks \in Seq(HookRecords)
    BY ScanTypes
  <2>2. hooks' \in {hooks, [hooks EXCEPT ![j].enabled = FALSE], [hooks EXCEPT ![j].due = FALSE]}
    BY <1>1
  <2> HIDE DEF j
  <2> QED BY <2>1, <2>2, FieldsKept
<1>3. ASSUME NEW k \in 1 .. Len(hooks'), Spent(k)'
      PROVE  hooks'[k].fired = 1 /\ Gone(k)'
  <2>1. k \in 1 .. Len(hooks) /\ Spent(k) /\ hooks'[k].fired = hooks[k].fired
    BY <1>2, <1>3 DEF Spent, KeepsHooks
  <2>2. hooks[k].fired = 1 /\ (Acts(k) \/ Gone(k))
    BY <1>1, <2>1 DEF OneShotInv, Awake, Ended
  <2>3. hooks'[k].bp = hooks[k].bp
    BY <1>2, <2>1 DEF KeepsHooks
  <2>4. InHookB'
    BY <1>1 DEF InHookB
  <2>5. CASE Acts(k)
    <3>1. cursor + 1 = k /\ hooks[k].bp = breaked
      BY <2>5 DEF Acts
    <3>2. Current = hooks[k] /\ ~hooks[k].repeat
      BY <2>1, <3>1 DEF Current, Hook, Spent
    <3>3. \A b \in breakpoints' : b.num # hooks[k].bp
      BY <1>1, <3>2
    <3>4. hooks[k].bp <= breakpoint_count'
      BY <1>1, <3>1 DEF OneShotInv
    <3>5. cursor' >= k
      BY <1>1, <3>1, <2>1, ScanTypes
    <3> QED BY <2>2, <2>1, <2>3, <2>4, <3>3, <3>4, <3>5 DEF Gone
  <2>6. CASE Gone(k)
    <3>1. breaked = hooks[k].bp /\ breaked # 0 => cursor >= k
      BY <1>1, <2>6 DEF Gone, BetweenFetches
    <3>2. cursor >= k => cursor' >= k
      BY <1>1, <2>1, ScanTypes
    <3>3. \A b \in breakpoints' : b.num # hooks[k].bp
      BY <1>1, <2>6 DEF Gone
    <3>4. hooks[k].bp <= breakpoint_count'
      BY <1>1, <2>6 DEF Gone
    <3> QED BY <1>1, <2>1, <2>2, <2>3, <2>4, <3>1, <3>2, <3>3, <3>4 DEF Gone
  <2> QED BY <2>2, <2>5, <2>6
<1>4. port'
  BY <1>1 DEF IInv, FreshInv
<1> QED BY <1>1, <1>3, <1>4 DEF OneShotInv, TimedWaits

\* The invariant of one-shot hooks holds in every behaviour of the measurer.
THEOREM OneShotInvariance == Spec => []OneShotInv
<1>1. Init => OneShotInv
  BY DEF Init, OneShotInv, TimedWaits
<1>2. IInv /\ IInv' /\ OneShotInv /\ [Next]_vars => OneShotInv'
  <2> SUFFICES ASSUME IInv, IInv', OneShotInv, [Next]_vars PROVE OneShotInv'
    OBVIOUS
  <2>1. CASE Next /\ ~Scans
    BY <2>1, HooksKept, NumbersKept, PhaseKept, QuietStep
  <2>2. CASE Scans
    BY <2>2, FetchStep, EndScanStep, SkipStep, TimedHookStep, TimedHookDoneStep,
       BreakpointHookStep, BreakpointHookDoneStep DEF Scans
  <2>3. CASE UNCHANGED vars
    BY <2>3 DEF vars, OneShotInv, TimedWaits, Spent, Acts, Gone, Awake, InHookB, BetweenFetches
  <2> QED BY <2>1, <2>2, <2>3
<1> QED BY <1>1, <1>2, Invariance, PTL DEF Spec

\* A one-shot breakpoint hook runs its action at most once, for all requests,
\* hooks and places, even if it is enabled again or other breakpoints come and go.
THEOREM OneShotHooksFireOnce == Spec => []OneShotFiresOnce
<1>1. OneShotInv => OneShotFiresOnce
  BY DEF OneShotInv, OneShotFiresOnce, Spent, Reached, HookNumbers
<1> QED BY <1>1, OneShotInvariance, PTL

-----------------------------------------------------------------------------
(* Hooks, their events and their breakpoints, for all requests.            *)

ActingInv ==
  /\ RunsFrom("hookTDone") => IsHook(cursor) /\ Current.kind = "T"
  /\ RunsFrom("hookBDone") => /\ IsHook(cursor) /\ Current.kind = "B" /\ Current.fired > 0
                              /\ Current.bp = breaked /\ breaked # 0
  /\ pc \in {"hookWait", "hookStopped"} => breaked = 0

\* An event that names a breakpoint is the last result.
Reaching == val.type = "event" /\ val.kind = "B"

\* The number of a place that gdb knows was given, and to a breakpoint there.
Named(bp, l) ==
  l \notin BadLocs =>
    bp <= breakpoint_count /\ \A b \in breakpoints : b.num = bp => b.loc = l

NumberInv ==
  /\ ~port => breakpoints = {} /\ val = Void
  /\ \A b, c \in breakpoints : b.num = c.num => b = c
  /\ Reaching => Named(val.bp, val.loc)
  /\ \A k \in Reached : Named(hooks[k].bp, hooks[k].loc)

\* While a hit is handled and the target is held, it stands where the hooks with
\* the breakpoint's number say.
Stands(bp, l) == bp = breaked /\ l \notin BadLocs => l = at

PlaceInv ==
  Handling /\ Undisturbed /\ breaked # 0 /\ held =>
    /\ Reaching => Stands(val.bp, val.loc)
    /\ \A k \in Reached : Stands(hooks[k].bp, hooks[k].loc)

\* Actions that only observe leave it held.
Observing(s) == \A k \in 1 .. Len(s) : s[k].op \in Observers

ObserveInv ==
  ActionsObserve =>
    /\ \A k \in HookNumbers : Observing(hooks[k].action)
    /\ InAction => Observing(calls)
    /\ Handling /\ breaked # 0 => held

EventInv == ActingInv /\ NumberInv /\ PlaceInv /\ ObserveInv

-----------------------------------------------------------------------------
(* What steps leave alone.                                                 *)

\* No step writes what an event says into a hook that was added.
SameEvents ==
  /\ Len(hooks') = Len(hooks)
  /\ \A k \in HookNumbers :
       /\ hooks'[k].kind = hooks[k].kind /\ hooks'[k].bp = hooks[k].bp
       /\ hooks'[k].loc = hooks[k].loc /\ hooks'[k].repeat = hooks[k].repeat
       /\ hooks'[k].action = hooks[k].action
       /\ hooks[k].fired > 0 => hooks'[k].fired > 0

Marked(j) == [hooks EXCEPT ![j].fired = IF @ < 2 THEN @ + 1 ELSE @]

\* Writing one field of hook j: enabled, due or fired.
LEMMA OneHookWritten ==
  ASSUME hooks \in Seq(HookRecords), NEW j \in Int, NEW b \in BOOLEAN,
         hooks' \in {hooks, [hooks EXCEPT ![j].enabled = b], [hooks EXCEPT ![j].due = b],
                     Marked(j)}
  PROVE  /\ SameEvents
         /\ \A k \in HookNumbers : k # j => hooks'[k] = hooks[k]
         /\ hooks' # Marked(j) =>
              \A k \in HookNumbers : hooks'[k].fired = hooks[k].fired
         /\ hooks' = Marked(j) =>
              /\ \A k \in HookNumbers : hooks'[k].enabled = hooks[k].enabled
              /\ j \in HookNumbers => hooks'[j].fired > 0
         /\ hooks' = [hooks EXCEPT ![j].enabled = b] /\ j \in HookNumbers =>
              hooks'[j].enabled = b
         /\ hooks' = [hooks EXCEPT ![j].due = b] =>
              \A k \in HookNumbers : hooks'[k].enabled = hooks[k].enabled
<1> DEFINE f(h) == [h EXCEPT !.fired = IF @ < 2 THEN @ + 1 ELSE @]
           e(h) == [h EXCEPT !.enabled = b]
           d(h) == [h EXCEPT !.due = b]
           same(g, h) == /\ g.kind = h.kind /\ g.bp = h.bp /\ g.loc = h.loc
                         /\ g.repeat = h.repeat /\ g.action = h.action
<1>1. Len(hooks) \in Nat /\ Len(hooks') = Len(hooks)
  BY DEF Marked
<1>2. ASSUME NEW k \in HookNumbers PROVE hooks[k] \in HookRecords
  BY DEF HookNumbers
<1>3. ASSUME NEW k \in HookNumbers, k # j PROVE hooks'[k] = hooks[k]
  BY <1>1, <1>3 DEF HookNumbers, Marked
<1>4. ASSUME NEW h \in HookRecords
      PROVE  /\ same(f(h), h) /\ f(h).enabled = h.enabled /\ f(h).fired > 0
             /\ same(e(h), h) /\ e(h).enabled = b /\ e(h).fired = h.fired
             /\ same(d(h), h) /\ d(h).enabled = h.enabled /\ d(h).fired = h.fired
  BY DEF HookRecords
<1>5. ASSUME j \in HookNumbers
      PROVE  /\ hooks' = Marked(j) => hooks'[j] = f(hooks[j])
             /\ hooks' = [hooks EXCEPT ![j].enabled = b] => hooks'[j] = e(hooks[j])
             /\ hooks' = [hooks EXCEPT ![j].due = b] => hooks'[j] = d(hooks[j])
             /\ hooks' = hooks => hooks'[j] = hooks[j]
  BY <1>1, <1>5 DEF HookNumbers, Marked
<1>6. ASSUME NEW k \in HookNumbers
      PROVE  /\ same(hooks'[k], hooks[k])
             /\ hooks[k].fired > 0 => hooks'[k].fired > 0
             /\ hooks' # Marked(j) => hooks'[k].fired = hooks[k].fired
             /\ hooks' = Marked(j) => hooks'[k].enabled = hooks[k].enabled
             /\ hooks' = Marked(j) /\ k = j => hooks'[k].fired > 0
             /\ hooks' = [hooks EXCEPT ![j].enabled = b] /\ k = j => hooks'[k].enabled = b
             /\ hooks' = [hooks EXCEPT ![j].due = b] => hooks'[k].enabled = hooks[k].enabled
  <2>1. CASE k # j
    BY <1>3, <2>1
  <2>2. CASE k = j
    <3> DEFINE h == hooks[k]
               g == hooks'[k]
    <3>1. h \in HookRecords
      BY <1>2
    <3>2. /\ hooks' = Marked(j) => g = f(h)
          /\ hooks' = [hooks EXCEPT ![j].enabled = b] => g = e(h)
          /\ hooks' = [hooks EXCEPT ![j].due = b] => g = d(h)
          /\ hooks' = hooks => g = h
      BY <1>5, <2>2
    <3> HIDE DEF h, g, f, e, d
    <3>3. /\ same(f(h), h) /\ f(h).enabled = h.enabled /\ f(h).fired > 0
          /\ same(e(h), h) /\ e(h).enabled = b /\ e(h).fired = h.fired
          /\ same(d(h), h) /\ d(h).enabled = h.enabled /\ d(h).fired = h.fired
      BY <3>1, <1>4
    <3>4. /\ same(g, h)
          /\ h.fired > 0 => g.fired > 0
          /\ hooks' # Marked(j) => g.fired = h.fired
          /\ hooks' = Marked(j) => g.enabled = h.enabled /\ g.fired > 0
          /\ hooks' = [hooks EXCEPT ![j].enabled = b] => g.enabled = b
          /\ hooks' = [hooks EXCEPT ![j].due = b] => g.enabled = h.enabled
      <4> HIDE DEF Marked
      <4> QED BY <3>2, <3>3
    <3> QED BY <3>4, <2>2 DEF h, g
  <2> QED BY <2>1, <2>2
<1> HIDE DEF f, e, d
<1> QED BY <1>1, <1>3, <1>6 DEF SameEvents


\* Only Reach sets breakpoints or returns an event that names one.
LEMMA BreakpointsKept ==
  ASSUME IInv, Next, ~Reach
  PROVE  /\ breakpoints' \subseteq breakpoints /\ breakpoint_count' = breakpoint_count
         /\ Reaching' => val' = val
         /\ ~port' => ~port /\ val' = val
<1>1. ~port => pc = "start"
  BY DEF IInv, FreshInv
<1>2. Void.type # "event" /\ Null.type # "event" /\ Taken.type # "event"
  BY DEF Void, Null, Taken
<1>3. CASE RestartFails \/ DriverClosed \/ FetchCrashes \/ ScanCrashes
          \/ DetachCrashes \/ ExpressionCrashes \/ AddHookCrashes \/ StoreCrashes
          \/ MalformedCrashes
  BY <1>1, <1>2, <1>3 DEF RestartFails, Die, Ends, LetGo, DriverClosed,
     FetchCrashes, ScanCrashes, DetachCrashes, ExpressionCrashes, AddHookCrashes,
     StoreCrashes, MalformedCrashes, Reaching
<1>4. CASE StartEventLoop \/ GetRequest \/ NoRequest \/ Respond \/ SkipContinuous
          \/ FetchNothing \/ FetchBreakpoint \/ FetchExit \/ ContinueTarget
  BY <1>1, <1>2, <1>4 DEF StartEventLoop, GetRequest, NoRequest, Respond, Ends,
     LetGo, SkipContinuous, FetchNothing, FetchBreakpoint, Consume, FetchExit,
     ContinueTarget, Continue, Reaching
<1>5. CASE EndScan \/ SkipHook \/ TimedHook \/ TimedHookStopped \/ TimedHookDone
          \/ BreakpointHook \/ BreakpointHookDone
  BY <1>1, <1>2, <1>5 DEF EndScan, SkipHook, Step, TimedHook, Run, Interrupt,
     TimedHookStopped, TimedHookDone, BreakpointHook, BreakpointHookDone, Delete,
     Reaching
<1>6. CASE WaitForInferior \/ WaitForever \/ Detach \/ Quit \/ SetTarget
  BY <1>1, <1>2, <1>6 DEF WaitForInferior, Consume, WaitForever, Detach, KeepTarget,
     DetachTarget, LetGo, Quit, SetTarget, Reaching
<1>7. CASE StartObservation \/ StartBreakpointCall \/ MeasureOK \/ GdbOK
          \/ ObservationFails
  BY <1>1, <1>2, <1>7 DEF StartObservation, Interrupt, StartBreakpointCall,
     MeasureOK, Leave, Continue, Untouched, GdbOK, ObservationFails, Reaching
<1>8. CASE Delay \/ AddHook \/ Enable \/ Disable \/ StartKill \/ Kill
  BY <1>1, <1>2, <1>8 DEF Delay, AddHook, Enable, Toggle, Disable, StartKill,
     Interrupt, Kill, Delete, Leave, Continue, Untouched, Reaching
<1>9. CASE Store \/ Malformed \/ Evaluated
  BY <1>1, <1>2, <1>9 DEF Store, Malformed, Evaluated, Reaching
<1>10. CASE HitBreakpoint \/ TakeInterrupt \/ TakeSignal \/ TargetExits
           \/ DriverGoes
  BY <1>1, <1>2, <1>10 DEF HitBreakpoint, Stop, At, TakeInterrupt, TakeSignal,
     TargetExits, DriverGoes, Reaching
<1>11. CASE \E p \in Pids : UntracedEnds(p)
  BY <1>1, <1>2, <1>11 DEF UntracedEnds, Reaching
<1>12. CASE \E r \in Requests : SendRequest(r)
  BY <1>1, <1>2, <1>12 DEF SendRequest, Reaching
<1>13. CASE \E i \in 0 .. MaxHooks - 1 : ClockPasses(i)
  BY <1>1, <1>2, <1>13 DEF ClockPasses, Reaching
<1> QED
  BY <1>3, <1>4, <1>5, <1>6, <1>7, <1>8, <1>9, <1>10, <1>11, <1>12, <1>13
     DEF Next, Thread, Loop, Hooks, API, Target, Driver, Clock

\* Only AddHook adds a hook; no step changes what an event of a hook says.
LEMMA EventsKept ==
  ASSUME IInv, Next, ~AddHook
  PROVE  SameEvents
<1>1. HookTypes /\ ThreadTypes
  BY DEF IInv, TypeOK
<1>2. hooks' = hooks => SameEvents
  BY DEF SameEvents
<1>3. ASSUME NEW j \in Int, NEW b \in BOOLEAN,
             hooks' \in {hooks, [hooks EXCEPT ![j].enabled = b], [hooks EXCEPT ![j].due = b],
                         Marked(j)}
      PROVE  SameEvents
  BY <1>1, <1>3, OneHookWritten DEF HookTypes
<1>4. cursor + 1 \in Int
  BY <1>1 DEF ThreadTypes
<1>5. CASE RestartFails \/ DriverClosed \/ FetchCrashes \/ ScanCrashes
          \/ DetachCrashes \/ ExpressionCrashes \/ AddHookCrashes \/ StoreCrashes
          \/ MalformedCrashes
  BY <1>2, <1>5 DEF RestartFails, Die, Ends, LetGo, DriverClosed, FetchCrashes,
     ScanCrashes, DetachCrashes, ExpressionCrashes, AddHookCrashes, StoreCrashes,
     MalformedCrashes
<1>6. CASE StartEventLoop \/ GetRequest \/ NoRequest \/ Respond \/ SkipContinuous
          \/ FetchNothing \/ FetchBreakpoint \/ FetchExit \/ ContinueTarget
  BY <1>2, <1>6 DEF StartEventLoop, GetRequest, NoRequest, Respond, Ends, LetGo,
     SkipContinuous, FetchNothing, FetchBreakpoint, Consume, FetchExit,
     ContinueTarget, Continue
<1>7. CASE EndScan \/ SkipHook
  BY <1>2, <1>7 DEF EndScan, SkipHook, Step
<1>8. CASE WaitForInferior \/ WaitForever \/ Detach \/ Quit \/ SetTarget
  BY <1>2, <1>8 DEF WaitForInferior, Consume, WaitForever, Detach, KeepTarget,
     DetachTarget, LetGo, Quit, SetTarget
<1>9. CASE StartObservation \/ StartBreakpointCall \/ MeasureOK \/ GdbOK
          \/ ObservationFails \/ Reach
  BY <1>2, <1>9 DEF StartObservation, Interrupt, StartBreakpointCall, MeasureOK,
     Leave, Continue, Untouched, GdbOK, ObservationFails, Reach
<1>10. CASE Delay \/ Kill
  BY <1>2, <1>10 DEF Delay, Kill, Delete, Leave, Continue, Untouched
<1>11. CASE Store \/ Malformed \/ Evaluated
  BY <1>2, <1>11 DEF Store, Malformed, Evaluated
<1>12. CASE HitBreakpoint \/ TakeInterrupt \/ TakeSignal \/ TargetExits
           \/ DriverGoes
  BY <1>2, <1>12 DEF HitBreakpoint, Stop, At, TakeInterrupt, TakeSignal,
     TargetExits, DriverGoes
<1>13. CASE \E p \in Pids : UntracedEnds(p)
  BY <1>2, <1>13 DEF UntracedEnds
<1>14. CASE \E r \in Requests : SendRequest(r)
  BY <1>2, <1>14 DEF SendRequest
<1>15. CASE Enable
  <2>1. Call.i + 1 \in Int
    BY <1>1, <1>15, CallsTyped, CallsAreWellFormed, BoundsAreNaturals DEF ThreadTypes, Enable, Toggle
  <2>2. hooks' \in {hooks, [hooks EXCEPT ![Call.i + 1].enabled = TRUE]}
    BY <1>15 DEF Enable, Toggle
  <2> HIDE DEF Call
  <2> QED BY <1>3, <2>1, <2>2
<1>16. CASE Disable
  <2>1. Call.i + 1 \in Int
    BY <1>1, <1>16, CallsTyped, CallsAreWellFormed, BoundsAreNaturals DEF ThreadTypes, Disable, Toggle
  <2>2. hooks' \in {hooks, [hooks EXCEPT ![Call.i + 1].enabled = FALSE]}
    BY <1>16 DEF Disable, Toggle
  <2> HIDE DEF Call
  <2> QED BY <1>3, <2>1, <2>2
<1>17. CASE StartKill
  <2>1. Call.i + 1 \in Int
    BY <1>1, <1>17, CallsTyped, CallsAreWellFormed, BoundsAreNaturals DEF ThreadTypes, StartKill
  <2>2. hooks' \in {hooks, [hooks EXCEPT ![Call.i + 1].enabled = FALSE]}
    BY <1>17 DEF StartKill
  <2> HIDE DEF Call
  <2> QED BY <1>3, <2>1, <2>2
<1>18. CASE \E i \in 0 .. MaxHooks - 1 : ClockPasses(i)
  <2>1. PICK i \in 0 .. MaxHooks - 1 : ClockPasses(i)
    BY <1>18
  <2> DEFINE j == i + 1
  <2>2. j \in Int /\ hooks' = [hooks EXCEPT ![j].due = TRUE]
    BY <2>1, BoundsAreNaturals DEF ClockPasses
  <2> HIDE DEF j
  <2> QED BY <1>3, <2>2
<1>19. CASE TimedHook
  <2>1. hooks' \in {hooks, Marked(cursor + 1)}
    BY <1>19 DEF TimedHook, Run, Marked
  <2> QED BY <1>3, <1>4, <2>1
<1>20. CASE TimedHookStopped
  <2>1. hooks' \in {hooks, Marked(cursor + 1)}
    BY <1>20 DEF TimedHookStopped, Run, Marked
  <2> QED BY <1>3, <1>4, <2>1
<1>21. CASE BreakpointHook
  <2>1. hooks' \in {hooks, Marked(cursor + 1)}
    BY <1>21 DEF BreakpointHook, Run, Marked
  <2> QED BY <1>3, <1>4, <2>1
<1>22. CASE TimedHookDone
  <2> DEFINE j == cursor + 1
  <2>1. hooks' \in {hooks, [hooks EXCEPT ![j].enabled = FALSE],
                    [hooks EXCEPT ![j].due = FALSE]}
    BY <1>22 DEF TimedHookDone
  <2>2. j \in Int
    BY <1>4
  <2> HIDE DEF j
  <2> QED BY <1>3, <2>1, <2>2
<1>23. CASE BreakpointHookDone
  <2> DEFINE j == cursor + 1
  <2>1. hooks' \in {hooks, [hooks EXCEPT ![j].enabled = FALSE],
                    [hooks EXCEPT ![j].due = FALSE]}
    BY <1>23 DEF BreakpointHookDone
  <2>2. j \in Int
    BY <1>4
  <2> HIDE DEF j
  <2> QED BY <1>3, <2>1, <2>2
<1> QED
  BY <1>5, <1>6, <1>7, <1>8, <1>9, <1>10, <1>11, <1>12, <1>13, <1>14, <1>15,
     <1>16, <1>17, <1>18, <1>19, <1>20, <1>21, <1>22, <1>23
     DEF Next, Thread, Loop, Hooks, API, Target, Driver, Clock

\* A hook that is added gets its event from the last result.
LEMMA HookAdded ==
  ASSUME IInv, AddHook
  PROVE  \/ hooks' = hooks
         \/ /\ Len(hooks') = Len(hooks) + 1 /\ calls # <<>> /\ val.type = "event" /\ Call.op = "hook"
            /\ count' = count + 1 /\ count < MaxHooks
            /\ \A k \in HookNumbers : hooks'[k] = hooks[k]
            /\ hooks'[Len(hooks) + 1] = NewHook(val, Call.action)
<1>1. hooks \in Seq(HookRecords) /\ count \in Int
  BY DEF IInv, TypeOK, HookTypes
<1>2. CASE hooks' = Append(hooks, NewHook(val, Call.action))
           /\ count' = count + 1 /\ count \in 0 .. MaxHooks - 1
  <2> DEFINE h == NewHook(val, Call.action)
  <2>1. hooks' = Append(hooks, h)
    BY <1>2
  <2> HIDE DEF h
  <2>2. /\ Len(hooks') = Len(hooks) + 1 /\ hooks'[Len(hooks) + 1] = h
        /\ \A k \in HookNumbers : hooks'[k] = hooks[k]
    BY <1>1, <2>1 DEF HookNumbers
  <2>3. calls # <<>> /\ val.type = "event" /\ Call.op = "hook"
    BY DEF AddHook
  <2>4. count < MaxHooks
    BY <1>1, <1>2, BoundsAreNaturals
  <2> QED BY <1>2, <2>2, <2>3, <2>4 DEF h
<1> HIDE DEF Call
<1> QED BY <1>2 DEF AddHook

\* What was said of numbers stays true, of a new breakpoint as well.
LEMMA NumberStep ==
  ASSUME IInv, OneShotInv, NumberInv, Next
  PROVE  NumberInv'
<1>1. /\ breakpoint_count \in Nat /\ \A b \in breakpoints : b.num \in Nat
      /\ \A k \in HookNumbers : hooks[k].bp \in Nat
      /\ \A b \in breakpoints : b.num <= breakpoint_count
      /\ val \in Values /\ Len(hooks) \in Nat
  <2>1. GdbTypes /\ ThreadTypes /\ HookTypes
    BY DEF IInv, TypeOK
  <2> QED BY <2>1, ScanTypes DEF HookNumbers, GdbTypes, OneShotInv, ThreadTypes, HookTypes
<1>2. Reaching => val.bp \in Nat
  BY <1>1 DEF Reaching, Values, Void, Null, Taken
<1>3. CASE Reach
  <2>1. SameEvents /\ port' /\ port
    <3>1. ~AddHook
      BY <1>3 DEF Reach, AddHook
    <3>2. port' = port /\ port
      BY <1>3 DEF Reach, Untouched, IInv, FreshInv
    <3> QED BY <3>1, <3>2, EventsKept
  <2>2. val' = val \/ (val'.bp = breakpoint_count + 1 /\ val'.loc = Call.loc)
    BY <1>3 DEF Reach, Leave, Continue
  <2> DEFINE l == Call.loc
             new == [num |-> breakpoint_count + 1, loc |-> l]
  <2>3. /\ new.num = breakpoint_count + 1 /\ new.loc = l
        /\ breakpoint_count' \in {breakpoint_count, breakpoint_count + 1}
        /\ breakpoints' \in {breakpoints, breakpoints \cup {new}}
        /\ l \notin BadLocs => breakpoint_count' = breakpoint_count + 1
        /\ val' = val \/ (val'.bp = breakpoint_count + 1 /\ val'.loc = l)
    BY <1>3, <2>2 DEF Reach
  <2> HIDE DEF l, new
  <2>4. \A b, c \in breakpoints' : b.num = c.num => b = c
    <3>1. \A b \in breakpoints : b.num # new.num
      BY <1>1, <2>3
    <3> QED BY <2>3, <3>1 DEF NumberInv
  <2> DEFINE after(bp, m) ==
        m \notin BadLocs =>
          bp <= breakpoint_count' /\ \A b \in breakpoints' : b.num = bp => b.loc = m
  <2>5. \A bp \in Nat : \A m : Named(bp, m) => after(bp, m)
    BY <1>1, <2>3 DEF Named
  <2>6. after(breakpoint_count + 1, l)
    <3>1. l \notin BadLocs => breakpoint_count + 1 <= breakpoint_count'
      BY <1>1, <2>3
    <3>2. \A b \in breakpoints' : b.num = breakpoint_count + 1 => b.loc = l
      BY <1>1, <2>3
    <3> QED BY <3>1, <3>2
  <2>7. Reaching' => after(val'.bp, val'.loc)
    <3>1. CASE val' = val
      <4>1. Reaching' => Reaching /\ Named(val.bp, val.loc) /\ val.bp \in Nat
        BY <1>2, <3>1 DEF Reaching, NumberInv
      <4> HIDE DEF after
      <4>2. Reaching' => after(val.bp, val.loc)
        BY <2>5, <4>1
      <4> QED BY <3>1, <4>2
    <3>2. CASE val'.bp = breakpoint_count + 1 /\ val'.loc = l
      <4> HIDE DEF after
      <4> QED BY <2>6, <3>2
    <3> QED BY <2>3, <3>1, <3>2
  <2>8. ASSUME NEW k \in HookNumbers', (hooks[k].kind = "B")'
        PROVE  after(hooks'[k].bp, hooks'[k].loc)
    <3>1. /\ k \in HookNumbers /\ hooks[k].kind = "B"
          /\ hooks'[k].bp = hooks[k].bp /\ hooks'[k].loc = hooks[k].loc
      BY <2>1, <2>8 DEF SameEvents, HookNumbers
    <3>2. hooks[k].bp \in Nat /\ Named(hooks[k].bp, hooks[k].loc)
      BY <1>1, <3>1 DEF NumberInv, Reached
    <3> HIDE DEF after
    <3> QED BY <2>5, <3>1, <3>2
  <2> QED BY <2>1, <2>4, <2>7, <2>8 DEF NumberInv, Reached, Named
<1>4. CASE ~Reach
  <2>1. /\ breakpoints' \subseteq breakpoints /\ breakpoint_count' = breakpoint_count
        /\ Reaching' => val' = val
        /\ ~port' => ~port /\ val' = val
    BY <1>4, BreakpointsKept
  <2>2. ASSUME NEW bp, NEW m, Named(bp, m) PROVE Named(bp, m)'
    BY <2>1, <2>2 DEF Named
  <2>3. /\ ~port' => breakpoints' = {} /\ val' = Void
        /\ \A b, c \in breakpoints' : b.num = c.num => b = c
    BY <2>1 DEF NumberInv
  <2>4. Reaching' => Named(val.bp, val.loc)'
    BY <2>1 DEF Reaching, NumberInv, Named
  <2>5. ASSUME NEW k \in HookNumbers, hooks[k].kind = "B", hooks'[k].bp = hooks[k].bp,
               hooks'[k].loc = hooks[k].loc
        PROVE  Named(hooks[k].bp, hooks[k].loc)'
    BY <2>1, <2>5 DEF NumberInv, Named, Reached
  <2>6. ASSUME NEW k \in HookNumbers', (hooks[k].kind = "B")'
        PROVE  Named(hooks[k].bp, hooks[k].loc)'
    <3>1. CASE SameEvents
      BY <2>5, <2>6, <3>1 DEF SameEvents, HookNumbers
    <3>2. CASE hooks' = hooks
      BY <2>5, <2>6, <3>2 DEF HookNumbers
    <3>3. CASE AddHook /\ hooks' # hooks
      <4>1. /\ Len(hooks') = Len(hooks) + 1 /\ val.type = "event"
            /\ \A j \in HookNumbers : hooks'[j] = hooks[j]
            /\ hooks'[Len(hooks) + 1] = NewHook(val, Call.action)
        BY <3>3, HookAdded
      <4>2. CASE k \in HookNumbers
        BY <2>5, <2>6, <4>1, <4>2
      <4>3. CASE k = Len(hooks) + 1
        <5> HIDE DEF Call
        <5>1. /\ hooks'[k].kind = val.kind /\ hooks'[k].bp = val.bp
              /\ hooks'[k].loc = val.loc
          BY <4>1, <4>3 DEF NewHook
        <5>2. Named(val.bp, val.loc)
          BY <2>6, <4>1, <5>1 DEF NumberInv, Reaching
        <5> QED BY <2>1, <5>1, <5>2 DEF Named
      <4> QED BY <1>1, <2>6, <4>1, <4>2, <4>3 DEF HookNumbers
    <3> QED BY <3>1, <3>2, <3>3, EventsKept
  <2> QED BY <2>3, <2>4, <2>6 DEF NumberInv, Reached
<1> QED BY <1>3, <1>4

\* A hook begins to run in four steps only, and until it has run the scan waits.
Begins == TimedHook \/ TimedHookStopped \/ BreakpointHook

LEMMA RunsKept ==
  ASSUME IInv, Next, ~Begins
  PROVE  /\ RunsFrom("hookTDone")' => RunsFrom("hookTDone")
         /\ RunsFrom("hookBDone")' => RunsFrom("hookBDone")
         /\ RunsFrom("hookTDone")' \/ RunsFrom("hookBDone")' => cursor' = cursor /\ breaked' = breaked
         /\ pc' \in {"hookWait", "hookStopped"} =>
              pc \in {"hookWait", "hookStopped"} /\ breaked' = breaked
<1>1. ret \in Afters
  BY DEF IInv, TypeOK, ThreadTypes
<1>2. CASE RestartFails \/ DriverClosed \/ FetchCrashes \/ ScanCrashes
          \/ DetachCrashes \/ ExpressionCrashes \/ AddHookCrashes \/ StoreCrashes
          \/ MalformedCrashes
  BY <1>1, <1>2 DEF RestartFails, Die, Ends, LetGo, DriverClosed, FetchCrashes,
     ScanCrashes, DetachCrashes, ExpressionCrashes, AddHookCrashes, StoreCrashes,
     MalformedCrashes, RunsFrom, InAction, Afters, Ended
<1>3. CASE StartEventLoop \/ GetRequest \/ NoRequest \/ Respond \/ SkipContinuous
          \/ FetchNothing \/ FetchBreakpoint \/ FetchExit \/ ContinueTarget
  BY <1>1, <1>3 DEF StartEventLoop, GetRequest, NoRequest, Respond, Ends, LetGo,
     SkipContinuous, FetchNothing, FetchBreakpoint, Consume, FetchExit,
     ContinueTarget, Continue, RunsFrom, InAction, Afters, Ended
<1>4. CASE EndScan \/ SkipHook \/ TimedHookDone \/ BreakpointHookDone
  BY <1>1, <1>4 DEF EndScan, SkipHook, Step, TimedHookDone, BreakpointHookDone,
     Delete, RunsFrom, InAction, Afters, Ended
<1>5. CASE WaitForInferior \/ WaitForever \/ Detach \/ Quit \/ SetTarget
  BY <1>1, <1>5 DEF WaitForInferior, Consume, WaitForever, Detach, KeepTarget,
     DetachTarget, LetGo, Quit, SetTarget, RunsFrom, InAction, Afters, Ended
<1>6. CASE StartObservation \/ StartBreakpointCall \/ MeasureOK \/ GdbOK
          \/ ObservationFails \/ Reach
  BY <1>1, <1>6 DEF StartObservation, Interrupt, StartBreakpointCall, MeasureOK,
     Leave, Continue, Untouched, GdbOK, ObservationFails, Reach, RunsFrom, InAction,
     Afters, Ended
<1>7. CASE Delay \/ AddHook \/ Enable \/ Disable \/ StartKill \/ Kill
  BY <1>1, <1>7 DEF Delay, AddHook, Enable, Toggle, Disable, StartKill, Interrupt,
     Kill, Delete, Leave, Continue, Untouched, RunsFrom, InAction, Afters, Ended
<1>8. CASE Store \/ Malformed \/ Evaluated
  BY <1>1, <1>8 DEF Store, Malformed, Evaluated, RunsFrom, InAction, Afters, Ended
<1>9. CASE HitBreakpoint \/ TakeInterrupt \/ TakeSignal \/ TargetExits \/ DriverGoes
  BY <1>1, <1>9 DEF HitBreakpoint, Stop, At, TakeInterrupt, TakeSignal, TargetExits,
     DriverGoes, RunsFrom, InAction, Afters, Ended
<1>10. CASE \E p \in Pids : UntracedEnds(p)
  BY <1>1, <1>10 DEF UntracedEnds, RunsFrom, InAction, Afters, Ended
<1>11. CASE \E r \in Requests : SendRequest(r)
  BY <1>1, <1>11 DEF SendRequest, RunsFrom, InAction, Afters, Ended
<1>12. CASE \E i \in 0 .. MaxHooks - 1 : ClockPasses(i)
  BY <1>1, <1>12 DEF ClockPasses, RunsFrom, InAction, Afters, Ended
<1> QED
  BY <1>2, <1>3, <1>4, <1>5, <1>6, <1>7, <1>8, <1>9, <1>10, <1>11, <1>12
     DEF Next, Thread, Loop, Hooks, API, Target, Driver, Clock, Begins

LEMMA ActingStep ==
  ASSUME IInv, OneShotInv, ActingInv, Next
  PROVE  ActingInv'
<1>1. /\ hooks \in Seq(HookRecords) /\ Len(hooks) \in Nat /\ cursor \in Nat /\ ret \in Afters
  BY ScanTypes DEF IInv, TypeOK, ThreadTypes, HookTypes
<1> DEFINE j == cursor + 1
<1>2. IsHook(cursor) => j \in HookNumbers /\ Current = hooks[j]
  BY <1>1 DEF IsHook, HookNumbers, Current, Hook
<1>3. CASE ~Begins
  <2>1. /\ RunsFrom("hookTDone")' => RunsFrom("hookTDone")
        /\ RunsFrom("hookBDone")' => RunsFrom("hookBDone")
        /\ RunsFrom("hookTDone")' \/ RunsFrom("hookBDone")' => cursor' = cursor /\ breaked' = breaked
        /\ pc' \in {"hookWait", "hookStopped"} =>
             pc \in {"hookWait", "hookStopped"} /\ breaked' = breaked
    BY <1>3, RunsKept
  <2>2. ASSUME IsHook(cursor), cursor' = cursor
        PROVE  /\ IsHook(cursor)' /\ (Current.kind)' = Current.kind
               /\ (Current.bp)' = Current.bp /\ (Current.fired > 0 => (Current.fired > 0)')
    <3>1. SameEvents \/ hooks' = hooks \/ (Len(hooks') = Len(hooks) + 1 /\
             \A k \in HookNumbers : hooks'[k] = hooks[k])
      BY EventsKept, HookAdded
    <3>2. j \in HookNumbers /\ Current = hooks[j] /\ (Current)' = hooks'[j]
      BY <1>2, <2>2 DEF Current, Hook
    <3>3. IsHook(cursor)'
      BY <1>1, <2>2, <3>1 DEF IsHook, SameEvents
    <3> HIDE DEF j
    <3>4. /\ hooks'[j].kind = hooks[j].kind /\ hooks'[j].bp = hooks[j].bp
          /\ hooks[j].fired > 0 => hooks'[j].fired > 0
      BY <3>1, <3>2 DEF SameEvents
    <3> QED BY <3>2, <3>3, <3>4
  <2> QED BY <2>1, <2>2 DEF ActingInv
<1>4. CASE TimedHook
  <2>1. /\ pc = "hookT" /\ cursor' = cursor /\ breaked' = breaked
        /\ IsHook(cursor) /\ Current.kind = "T"
        /\ \/ stopped /\ pc' = "eval" /\ ret' = "hookTDone"
           \/ ~stopped /\ pc' \in {"hookWait", "start"}
    BY <1>4 DEF TimedHook, TimeIsUp, Run, Interrupt
  <2>2. SameEvents
    BY <1>4, EventsKept DEF TimedHook, AddHook
  <2>3. IsHook(cursor)' /\ (Current.kind)' = "T"
    BY <1>1, <1>2, <2>1, <2>2 DEF SameEvents, IsHook, Current, Hook
  <2>4. ~stopped => breaked = 0
    BY <2>1 DEF IInv, StoppedInv
  <2> QED BY <2>1, <2>3, <2>4 DEF ActingInv, RunsFrom, InAction
<1>5. CASE TimedHookStopped
  <2>1. /\ pc = "hookStopped" /\ cursor' = cursor /\ breaked' = breaked
        /\ pc' = "start" \/ (pc' = "eval" /\ ret' = "hookTDone")
    BY <1>5 DEF TimedHookStopped, Run
  <2>2. IsHook(cursor) /\ Current.kind = "T"
    BY <2>1 DEF OneShotInv, TimedWaits, IsHook, Current, Hook
  <2>3. SameEvents
    BY <1>5, EventsKept DEF TimedHookStopped, AddHook
  <2>4. IsHook(cursor)' /\ (Current.kind)' = "T"
    BY <1>1, <1>2, <2>1, <2>2, <2>3 DEF SameEvents, IsHook, Current, Hook
  <2> QED BY <2>1, <2>4 DEF ActingInv, RunsFrom, InAction
<1>6. CASE BreakpointHook
  <2>1. /\ pc' = "eval" /\ ret' = "hookBDone" /\ cursor' = cursor /\ breaked' = breaked
        /\ IsHook(cursor) /\ Current.kind = "B" /\ breaked # 0 /\ Current.bp = breaked
        /\ hooks' = Marked(j)
    BY <1>6 DEF BreakpointHook, IsReached, Run, Marked
  <2>2. SameEvents
    BY <1>6, EventsKept DEF BreakpointHook, AddHook
  <2>3. j \in HookNumbers /\ Current = hooks[j] /\ (Current)' = hooks'[j]
    BY <1>2, <2>1 DEF Current, Hook
  <2>4. hooks'[j].fired > 0
    <3>1. j \in Int /\ FALSE \in BOOLEAN
      BY <1>1
    <3> HIDE DEF j
    <3> QED BY <1>1, <2>1, <2>3, <3>1, OneHookWritten
  <2>5. IsHook(cursor)'
    BY <1>1, <2>1, <2>2 DEF SameEvents, IsHook
  <2> HIDE DEF j
  <2> QED BY <2>1, <2>2, <2>3, <2>4, <2>5 DEF ActingInv, RunsFrom, InAction, SameEvents
<1> QED BY <1>3, <1>4, <1>5, <1>6 DEF Begins

\* While a hit is handled the target stands still: what lets it go does not get
\* it back, and whatever stops it again continues it before the scan goes on.
LEMMA HitKept ==
  ASSUME IInv, ActingInv, Next, ~FetchBreakpoint, HitHeld'
  PROVE  HitHeld /\ breaked' = breaked /\ at' = at
<1> USE DEF HitHeld, Handling, Undisturbed, InAction
<1>1. /\ ret \in Afters
      /\ pc \in {"eval", "callWait", "body"} => (stopped <=> ret # "respond")
      /\ pc = "callWait" /\ Call.op \in {"measure", "gdb"} => ~stopped
      /\ pc \in {"callWait", "body"} => calls # <<>>
      /\ pc \in {"hookWait", "hookStopped"} => breaked = 0
  BY DEF IInv, TypeOK, ThreadTypes, StoppedInv, CallInv, ActingInv
<1>2. CASE RestartFails \/ DriverClosed \/ FetchCrashes \/ ScanCrashes
          \/ DetachCrashes \/ ExpressionCrashes \/ AddHookCrashes \/ StoreCrashes
          \/ MalformedCrashes
  BY <1>1, <1>2 DEF RestartFails, Die, Ends, LetGo, DriverClosed, FetchCrashes,
     ScanCrashes, DetachCrashes, ExpressionCrashes, AddHookCrashes, StoreCrashes,
     MalformedCrashes, Afters, Breakers, Ended
<1>3. CASE StartEventLoop \/ GetRequest \/ NoRequest \/ Respond \/ SkipContinuous
          \/ FetchNothing \/ FetchExit \/ ContinueTarget
  BY <1>1, <1>3 DEF StartEventLoop, GetRequest, NoRequest, Respond, Ends, LetGo,
     SkipContinuous, FetchNothing, FetchExit, Consume, ContinueTarget, Continue,
     Afters, Breakers, Ended
<1>4. CASE EndScan \/ SkipHook \/ TimedHook \/ TimedHookStopped \/ TimedHookDone
          \/ BreakpointHook \/ BreakpointHookDone
  BY <1>1, <1>4 DEF EndScan, SkipHook, Step, TimedHook, Run, Interrupt,
     TimedHookStopped, TimedHookDone, BreakpointHook, BreakpointHookDone, Delete,
     Afters, Breakers, Ended
<1>5. CASE WaitForInferior \/ WaitForever \/ Detach \/ Quit \/ SetTarget
  BY <1>1, <1>5 DEF WaitForInferior, Consume, WaitForever, Detach, KeepTarget,
     DetachTarget, LetGo, Quit, SetTarget, Afters, Breakers, Ended
<1>6. CASE StartObservation \/ StartBreakpointCall \/ MeasureOK \/ GdbOK
          \/ ObservationFails \/ Reach
  BY <1>1, <1>6 DEF StartObservation, Interrupt, StartBreakpointCall, MeasureOK,
     Leave, Continue, Untouched, GdbOK, ObservationFails, Reach, Afters, Breakers,
     Ended
<1>7. CASE Delay \/ AddHook \/ Enable \/ Disable \/ StartKill \/ Kill
  BY <1>1, <1>7 DEF Delay, AddHook, Enable, Toggle, Disable, StartKill, Interrupt,
     Kill, Delete, Leave, Continue, Untouched, Afters, Breakers, Ended
<1>8. CASE Store \/ Malformed \/ Evaluated
  BY <1>1, <1>8 DEF Store, Malformed, Evaluated, Afters, Breakers, Ended
<1>9. CASE HitBreakpoint \/ TakeInterrupt \/ TakeSignal \/ TargetExits \/ DriverGoes
  BY <1>1, <1>9 DEF HitBreakpoint, Stop, At, TakeInterrupt, TakeSignal, TargetExits,
     DriverGoes, Afters, Breakers, Ended
<1>10. CASE \E p \in Pids : UntracedEnds(p)
  BY <1>1, <1>10 DEF UntracedEnds, Afters, Breakers, Ended
<1>11. CASE \E r \in Requests : SendRequest(r)
  BY <1>1, <1>11 DEF SendRequest, Afters, Breakers, Ended
<1>12. CASE \E i \in 0 .. MaxHooks - 1 : ClockPasses(i)
  BY <1>1, <1>12 DEF ClockPasses, Afters, Breakers, Ended
<1> QED
  BY <1>2, <1>3, <1>4, <1>5, <1>6, <1>7, <1>8, <1>9, <1>10, <1>11, <1>12
     DEF Next, Thread, Loop, Hooks, API, Target, Driver, Clock

LEMMA PlaceStep ==
  ASSUME IInv, OneShotInv, NumberInv, ActingInv, PlaceInv, Next
  PROVE  PlaceInv'
<1> SUFFICES ASSUME HitHeld'
             PROVE  (/\ Reaching => Stands(val.bp, val.loc)
                     /\ \A k \in Reached : Stands(hooks[k].bp, hooks[k].loc))'
  BY DEF PlaceInv, HitHeld
<1>1. Len(hooks) \in Nat
  BY ScanTypes
<1>2. CASE FetchBreakpoint
  <2>1. /\ hooks' = hooks /\ val' = val /\ at' = event.loc /\ breaked' = FirstAt(event.loc)
        /\ ~stopped /\ event # NoEvent /\ event.kind = "breakpoint"
    BY <1>2 DEF FetchBreakpoint, Consume, IInv, StoppedInv
  <2>2. \E b \in breakpoints : b.loc = event.loc
    BY <2>1 DEF IInv, HitInv
  <2>3. breakpoints \subseteq [num : Nat, loc : Places]
    BY DEF IInv, TypeOK, GdbTypes
  <2>4. PICK b \in breakpoints : b.num = breaked' /\ b.loc = at'
    BY <2>1, <2>2, <2>3, FirstAtIsThere
  <2>5. Reaching => Named(val.bp, val.loc)
    BY DEF NumberInv
  <2>6. \A k \in Reached : Named(hooks[k].bp, hooks[k].loc)
    BY DEF NumberInv
  <2>7. Reaching' => (val.bp = breaked' /\ val.loc \notin BadLocs => val.loc = at')
    BY <2>1, <2>4, <2>5 DEF Named, Reaching
  <2>8. \A k \in Reached :
          hooks[k].bp = breaked' /\ hooks[k].loc \notin BadLocs => hooks[k].loc = at'
    BY <2>4, <2>6 DEF Named
  <2> QED BY <2>1, <2>7, <2>8 DEF Stands, Reached, HookNumbers
<1>3. CASE ~FetchBreakpoint
  <2>1. HitHeld /\ breaked' = breaked /\ at' = at
    BY <1>3, HitKept
  <2>2. Reaching' => val' = val
    <3>1. ~Reach
      BY <2>1 DEF HitHeld, Undisturbed, Reach, Breakers
    <3> QED BY <3>1, BreakpointsKept
  <2>3. /\ Reaching => Stands(val.bp, val.loc)
        /\ \A k \in Reached : Stands(hooks[k].bp, hooks[k].loc)
    BY <2>1 DEF PlaceInv, HitHeld
  <2>4. Reaching' => Stands(val.bp, val.loc)'
    BY <2>1, <2>2, <2>3 DEF Reaching, Stands
  <2>5. ASSUME NEW k \in HookNumbers', (hooks[k].kind = "B")'
        PROVE  Stands(hooks[k].bp, hooks[k].loc)'
    <3>1. ASSUME k \in HookNumbers, hooks'[k].kind = hooks[k].kind,
                 hooks'[k].bp = hooks[k].bp, hooks'[k].loc = hooks[k].loc
          PROVE  Stands(hooks[k].bp, hooks[k].loc)'
      BY <2>1, <2>3, <2>5, <3>1 DEF Stands, Reached
    <3>2. CASE SameEvents \/ hooks' = hooks
      BY <2>5, <3>1, <3>2 DEF SameEvents, HookNumbers
    <3>3. CASE AddHook /\ hooks' # hooks
      <4>1. /\ Len(hooks') = Len(hooks) + 1 /\ val.type = "event"
            /\ \A i \in HookNumbers : hooks'[i] = hooks[i]
            /\ hooks'[Len(hooks) + 1] = NewHook(val, Call.action)
        BY <3>3, HookAdded
      <4>2. CASE k \in HookNumbers
        BY <3>1, <4>1, <4>2
      <4>3. CASE k = Len(hooks) + 1
        <5> HIDE DEF Call
        <5>1. /\ hooks'[k].kind = val.kind /\ hooks'[k].bp = val.bp
              /\ hooks'[k].loc = val.loc
          BY <4>1, <4>3 DEF NewHook
        <5> QED BY <2>1, <2>3, <2>5, <4>1, <5>1 DEF Stands, Reaching
      <4> QED BY <1>1, <2>5, <4>1, <4>2, <4>3 DEF HookNumbers
    <3> QED BY <3>2, <3>3, EventsKept
  <2> QED BY <2>4, <2>5 DEF Reached
<1> QED BY <1>2, <1>3

LEMMA ObservingRest ==
  ASSUME NEW s \in Seq(Calls), s # <<>>, Observing(s)
  PROVE  Head(s).op \in Observers /\ Observing(Tail(s))
<1>1. Len(s) \in Nat \ {0} /\ Head(s) = s[1] /\ Len(Tail(s)) = Len(s) - 1
  OBVIOUS
<1>2. ASSUME NEW k \in 1 .. Len(Tail(s)) PROVE Tail(s)[k] = s[k + 1] /\ k + 1 \in 1 .. Len(s)
  BY <1>1
<1> QED BY <1>1, <1>2 DEF Observing

\* Where the calls of an action come from: a hook that begins, or the ones before.
LEMMA CallsOfActions ==
  ASSUME IInv, Next, InAction'
  PROVE  \/ InAction /\ (calls' = calls \/ (calls # <<>> /\ calls' = Tail(calls)))
         \/ Begins /\ calls' = Current.action /\ pc' = "eval"
<1> USE DEF InAction
<1>1. /\ ret \in Afters
      /\ pc \in {"callWait", "body"} => calls # <<>>
  BY DEF IInv, TypeOK, ThreadTypes, CallInv
<1>2. CASE RestartFails \/ DriverClosed \/ FetchCrashes \/ ScanCrashes
          \/ DetachCrashes \/ ExpressionCrashes \/ AddHookCrashes \/ StoreCrashes
          \/ MalformedCrashes
  BY <1>1, <1>2 DEF RestartFails, Die, Ends, LetGo, DriverClosed, FetchCrashes,
     ScanCrashes, DetachCrashes, ExpressionCrashes, AddHookCrashes, StoreCrashes,
     MalformedCrashes, Afters, Begins, Ended
<1>3. CASE StartEventLoop \/ GetRequest \/ NoRequest \/ Respond \/ SkipContinuous
          \/ FetchNothing \/ FetchBreakpoint \/ FetchExit \/ ContinueTarget
  BY <1>1, <1>3 DEF StartEventLoop, GetRequest, NoRequest, Respond, Ends, LetGo,
     SkipContinuous, FetchNothing, FetchBreakpoint, Consume, FetchExit,
     ContinueTarget, Continue, Afters, Begins, Ended
<1>4. CASE EndScan \/ SkipHook \/ TimedHook \/ TimedHookStopped \/ TimedHookDone
          \/ BreakpointHook \/ BreakpointHookDone
  BY <1>1, <1>4 DEF EndScan, SkipHook, Step, TimedHook, Run, Interrupt,
     TimedHookStopped, TimedHookDone, BreakpointHook, BreakpointHookDone, Delete,
     Afters, Begins, Ended
<1>5. CASE WaitForInferior \/ WaitForever \/ Detach \/ Quit \/ SetTarget
  BY <1>1, <1>5 DEF WaitForInferior, Consume, WaitForever, Detach, KeepTarget,
     DetachTarget, LetGo, Quit, SetTarget, Afters, Begins, Ended
<1>6. CASE StartObservation \/ StartBreakpointCall \/ MeasureOK \/ GdbOK
          \/ ObservationFails \/ Reach
  BY <1>1, <1>6 DEF StartObservation, Interrupt, StartBreakpointCall, MeasureOK,
     Leave, Continue, Untouched, GdbOK, ObservationFails, Reach, Afters, Begins,
     Ended
<1>7. CASE Delay \/ AddHook \/ Enable \/ Disable \/ StartKill \/ Kill
  BY <1>1, <1>7 DEF Delay, AddHook, Enable, Toggle, Disable, StartKill, Interrupt,
     Kill, Delete, Leave, Continue, Untouched, Afters, Begins, Ended
<1>8. CASE Store \/ Malformed \/ Evaluated
  BY <1>1, <1>8 DEF Store, Malformed, Evaluated, Afters, Begins, Ended
<1>9. CASE HitBreakpoint \/ TakeInterrupt \/ TakeSignal \/ TargetExits \/ DriverGoes
  BY <1>1, <1>9 DEF HitBreakpoint, Stop, At, TakeInterrupt, TakeSignal, TargetExits,
     DriverGoes, Afters, Begins, Ended
<1>10. CASE \E p \in Pids : UntracedEnds(p)
  BY <1>1, <1>10 DEF UntracedEnds, Afters, Begins, Ended
<1>11. CASE \E r \in Requests : SendRequest(r)
  BY <1>1, <1>11 DEF SendRequest, Afters, Begins, Ended
<1>12. CASE \E i \in 0 .. MaxHooks - 1 : ClockPasses(i)
  BY <1>1, <1>12 DEF ClockPasses, Afters, Begins, Ended
<1> QED
  BY <1>2, <1>3, <1>4, <1>5, <1>6, <1>7, <1>8, <1>9, <1>10, <1>11, <1>12
     DEF Next, Thread, Loop, Hooks, API, Target, Driver, Clock

\* In an action that only observes no call lets the target go or waits for it.
LEMMA HitStaysHeld ==
  ASSUME IInv, ActingInv, Next, (Handling /\ breaked # 0)', ~FetchBreakpoint,
         InAction => calls = <<>> \/ Call.op \in Observers
  PROVE  Handling /\ breaked # 0 /\ (held => held')
<1> USE DEF Handling, InAction
<1>1. /\ ret \in Afters
      /\ pc \in {"eval", "callWait", "body"} => (stopped <=> ret # "respond")
      /\ pc \in {"callWait", "body"} => calls # <<>>
      /\ pc = "callWait" /\ Call.op \in {"measure", "gdb"} => ~stopped
      /\ pc \in {"callWait", "body"} => Call.op \in Stoppers
      /\ pc \in {"hookWait", "hookStopped"} => breaked = 0
  BY DEF IInv, TypeOK, ThreadTypes, StoppedInv, CallInv, ActingInv
<1>2. CASE RestartFails \/ DriverClosed \/ FetchCrashes \/ ScanCrashes
          \/ DetachCrashes \/ ExpressionCrashes \/ AddHookCrashes \/ StoreCrashes
          \/ MalformedCrashes
  BY <1>1, <1>2 DEF RestartFails, Die, Ends, LetGo, DriverClosed, FetchCrashes,
     ScanCrashes, DetachCrashes, ExpressionCrashes, AddHookCrashes, StoreCrashes,
     MalformedCrashes, Afters, Breakers, Stoppers, Observers, Ended
<1>3. CASE StartEventLoop \/ GetRequest \/ NoRequest \/ Respond \/ SkipContinuous
          \/ FetchNothing \/ FetchExit \/ ContinueTarget
  BY <1>1, <1>3 DEF StartEventLoop, GetRequest, NoRequest, Respond, Ends, LetGo,
     SkipContinuous, FetchNothing, FetchExit, Consume, ContinueTarget, Continue,
     Afters, Breakers, Stoppers, Observers, Ended
<1>4. CASE EndScan \/ SkipHook \/ TimedHook \/ TimedHookStopped \/ TimedHookDone
          \/ BreakpointHook \/ BreakpointHookDone
  BY <1>1, <1>4 DEF EndScan, SkipHook, Step, TimedHook, Run, Interrupt,
     TimedHookStopped, TimedHookDone, BreakpointHook, BreakpointHookDone, Delete,
     Afters, Breakers, Stoppers, Observers, Ended
<1>5. CASE WaitForInferior \/ WaitForever \/ Detach \/ Quit \/ SetTarget
  BY <1>1, <1>5 DEF WaitForInferior, Consume, WaitForever, Detach, KeepTarget,
     DetachTarget, LetGo, Quit, SetTarget, Afters, Breakers, Stoppers, Observers,
     Ended
<1>6. CASE StartObservation \/ StartBreakpointCall \/ MeasureOK \/ GdbOK
          \/ ObservationFails \/ Reach
  BY <1>1, <1>6 DEF StartObservation, Interrupt, StartBreakpointCall, MeasureOK,
     Leave, Continue, Untouched, GdbOK, ObservationFails, Reach, Afters, Breakers,
     Stoppers, Observers, Ended
<1>7. CASE Delay \/ AddHook \/ Enable \/ Disable \/ StartKill \/ Kill
  BY <1>1, <1>7 DEF Delay, AddHook, Enable, Toggle, Disable, StartKill, Interrupt,
     Kill, Delete, Leave, Continue, Untouched, Afters, Breakers, Stoppers,
     Observers, Ended
<1>8. CASE Store \/ Malformed \/ Evaluated
  BY <1>1, <1>8 DEF Store, Malformed, Evaluated, Afters, Breakers, Stoppers,
     Observers, Ended
<1>9. CASE HitBreakpoint \/ TakeInterrupt \/ TakeSignal \/ TargetExits \/ DriverGoes
  BY <1>1, <1>9 DEF HitBreakpoint, Stop, At, TakeInterrupt, TakeSignal, TargetExits,
     DriverGoes, Afters, Breakers, Stoppers, Observers, Ended
<1>10. CASE \E p \in Pids : UntracedEnds(p)
  BY <1>1, <1>10 DEF UntracedEnds, Afters, Breakers, Stoppers, Observers, Ended
<1>11. CASE \E r \in Requests : SendRequest(r)
  BY <1>1, <1>11 DEF SendRequest, Afters, Breakers, Stoppers, Observers, Ended
<1>12. CASE \E i \in 0 .. MaxHooks - 1 : ClockPasses(i)
  BY <1>1, <1>12 DEF ClockPasses, Afters, Breakers, Stoppers, Observers, Ended
<1> QED
  BY <1>2, <1>3, <1>4, <1>5, <1>6, <1>7, <1>8, <1>9, <1>10, <1>11, <1>12
     DEF Next, Thread, Loop, Hooks, API, Target, Driver, Clock

LEMMA ObserveStep ==
  ASSUME IInv, OneShotInv, ActingInv, ObserveInv, Next
  PROVE  ObserveInv'
<1> SUFFICES ASSUME ActionsObserve
             PROVE  (/\ \A k \in HookNumbers : Observing(hooks[k].action)
                     /\ InAction => Observing(calls)
                     /\ Handling /\ breaked # 0 => held)'
  BY DEF ObserveInv
<1>1. /\ hooks \in Seq(HookRecords) /\ Len(hooks) \in Nat /\ cursor \in Nat
      /\ calls \in Seq(Calls)
  BY ScanTypes DEF IInv, TypeOK, ThreadTypes, HookTypes
<1>2. /\ \A k \in HookNumbers : Observing(hooks[k].action)
      /\ InAction => Observing(calls)
      /\ Handling /\ breaked # 0 => held
  BY DEF ObserveInv
<1>3. ASSUME NEW k \in HookNumbers'
      PROVE  Observing(hooks'[k].action)
  <2>1. CASE SameEvents \/ hooks' = hooks
    <3>1. k \in HookNumbers /\ hooks'[k].action = hooks[k].action
      BY <1>3, <2>1 DEF SameEvents, HookNumbers
    <3> QED BY <1>2, <3>1
  <2>2. CASE AddHook /\ hooks' # hooks
    <3>1. /\ Len(hooks') = Len(hooks) + 1 /\ calls # <<>> /\ Call.op = "hook"
          /\ \A i \in HookNumbers : hooks'[i] = hooks[i]
          /\ hooks'[Len(hooks) + 1] = NewHook(val, Call.action)
      BY <2>2, HookAdded
    <3>2. CASE k \in HookNumbers
      BY <1>2, <3>1, <3>2
    <3>3. CASE k = Len(hooks) + 1
      <4>1. Call \in Calls
        BY <1>1, <3>1, CallsTyped
      <4> HIDE DEF Call
      <4>2. hooks'[k].action = Call.action
        BY <3>1, <3>3 DEF NewHook
      <4>3. Observing(Call.action)
        BY <3>1, <4>1 DEF ActionsObserve, Observing
      <4> QED BY <4>2, <4>3
    <3> QED BY <1>1, <1>3, <3>1, <3>2, <3>3 DEF HookNumbers
  <2> QED BY <2>1, <2>2, EventsKept
<1>4. ASSUME InAction'
      PROVE  Observing(calls')
  <2>1. CASE InAction /\ calls' = calls
    BY <1>2, <2>1
  <2>2. CASE InAction /\ calls # <<>> /\ calls' = Tail(calls)
    BY <1>1, <1>2, <2>2, ObservingRest
  <2>3. CASE Begins /\ calls' = Current.action /\ pc' = "eval"
    <3>1. cursor < Len(hooks)
      <4>1. pc = "hookStopped" => cursor < Len(hooks)
        BY DEF OneShotInv, TimedWaits
      <4> QED BY <2>3, <4>1 DEF Begins, TimedHook, TimedHookStopped, BreakpointHook, IsHook
    <3>2. cursor + 1 \in HookNumbers /\ Current = hooks[cursor + 1]
      BY <1>1, <3>1 DEF HookNumbers, Current, Hook
    <3> QED BY <1>2, <2>3, <3>2
  <2> QED BY <1>4, <2>1, <2>2, <2>3, CallsOfActions
<1>5. ASSUME (Handling /\ breaked # 0)'
      PROVE  held'
  <2>1. CASE FetchBreakpoint
    <3>1. ~stopped /\ event # NoEvent /\ event.kind = "breakpoint"
      BY <2>1 DEF FetchBreakpoint, IInv, StoppedInv
    <3> QED BY <2>1, <3>1 DEF FetchBreakpoint, Consume
  <2>2. CASE ~FetchBreakpoint
    <3>1. InAction => calls = <<>> \/ Call.op \in Observers
      BY <1>1, <1>2, ObservingRest
    <3>2. Handling /\ breaked # 0 /\ (held => held')
      BY <1>5, <2>2, <3>1, HitStaysHeld
    <3> QED BY <1>2, <3>2
  <2> QED BY <2>1, <2>2
<1> QED BY <1>3, <1>4, <1>5

\* The invariant of events: numbers are given once, to the places that events
\* name, and a hit is handled where it happened.
THEOREM EventInvariance == Spec => []EventInv
<1>1. Init => EventInv
  BY DEF Init, EventInv, ActingInv, RunsFrom, InAction, NumberInv, Reaching, Reached,
     HookNumbers, PlaceInv, Handling, ObserveInv, Void
<1>2. IInv /\ OneShotInv /\ EventInv /\ [Next]_vars => EventInv'
  <2> SUFFICES ASSUME IInv, OneShotInv, EventInv, [Next]_vars PROVE EventInv'
    OBVIOUS
  <2>1. CASE Next
    BY <2>1, ActingStep, NumberStep, PlaceStep, ObserveStep DEF EventInv
  <2>2. CASE UNCHANGED vars
    BY <2>2 DEF vars, EventInv, ActingInv, RunsFrom, InAction, IsHook, Current, Hook,
       NumberInv, Reaching, Named, Reached, HookNumbers, PlaceInv, Handling, Undisturbed,
       Stands, ObserveInv
  <2> QED BY <2>1, <2>2
<1> QED BY <1>1, <1>2, Invariance, OneShotInvariance, PTL DEF Spec

\* The action of a breakpoint hook starts with the target stopped where the
\* hook's event said, for all requests, also when hooks share a stop, when other
\* breakpoints are at the same place, and when numbers were predicted for places
\* that gdb does not know.
THEOREM HooksRunAtTheirPlaces == Spec => HookRunsAtItsPlace
<1> DEFINE AtItsPlace ==
      pc = "hookB" /\ pc' = "eval" /\ Current.loc \notin BadLocs =>
        stopped /\ (held \/ ~ActionsObserve) /\ (held => at = Current.loc)
<1>1. IInv /\ EventInv /\ [Next]_vars => [AtItsPlace]_vars
  <2> SUFFICES ASSUME IInv, EventInv, Next, pc = "hookB", pc' = "eval",
                      Current.loc \notin BadLocs
               PROVE  stopped /\ (held \/ ~ActionsObserve) /\ (held => at = Current.loc)
    OBVIOUS
  <2>1. BreakpointHook
    <3>1. ret \in Afters
      BY DEF IInv, TypeOK, ThreadTypes
    <3>2. CASE RestartFails \/ DriverClosed \/ FetchCrashes \/ ScanCrashes
              \/ DetachCrashes \/ ExpressionCrashes \/ AddHookCrashes \/ StoreCrashes
              \/ MalformedCrashes
      BY <3>1, <3>2 DEF RestartFails, Die, Ends, LetGo, DriverClosed, FetchCrashes,
         ScanCrashes, DetachCrashes, ExpressionCrashes, AddHookCrashes, StoreCrashes,
         MalformedCrashes, Afters, Ended
    <3>3. CASE StartEventLoop \/ GetRequest \/ NoRequest \/ Respond \/ SkipContinuous
              \/ FetchNothing \/ FetchBreakpoint \/ FetchExit \/ ContinueTarget
      BY <3>1, <3>3 DEF StartEventLoop, GetRequest, NoRequest, Respond, Ends, LetGo,
         SkipContinuous, FetchNothing, FetchBreakpoint, Consume, FetchExit,
         ContinueTarget, Continue, Afters, Ended
    <3>4. CASE EndScan \/ SkipHook \/ TimedHook \/ TimedHookStopped \/ TimedHookDone
              \/ BreakpointHook \/ BreakpointHookDone
      BY <3>1, <3>4 DEF EndScan, SkipHook, Step, TimedHook, Run, Interrupt,
         TimedHookStopped, TimedHookDone, BreakpointHook, BreakpointHookDone, Delete,
         Afters, Ended
    <3>5. CASE WaitForInferior \/ WaitForever \/ Detach \/ Quit \/ SetTarget
      BY <3>1, <3>5 DEF WaitForInferior, Consume, WaitForever, Detach, KeepTarget,
         DetachTarget, LetGo, Quit, SetTarget, Afters, Ended
    <3>6. CASE StartObservation \/ StartBreakpointCall \/ MeasureOK \/ GdbOK
              \/ ObservationFails \/ Reach
      BY <3>1, <3>6 DEF StartObservation, Interrupt, StartBreakpointCall, MeasureOK,
         Leave, Continue, Untouched, GdbOK, ObservationFails, Reach, Afters, Ended
    <3>7. CASE Delay \/ AddHook \/ Enable \/ Disable \/ StartKill \/ Kill
      BY <3>1, <3>7 DEF Delay, AddHook, Enable, Toggle, Disable, StartKill, Interrupt,
         Kill, Delete, Leave, Continue, Untouched, Afters, Ended
    <3>8. CASE Store \/ Malformed \/ Evaluated
      BY <3>1, <3>8 DEF Store, Malformed, Evaluated, Afters, Ended
    <3>9. CASE HitBreakpoint \/ TakeInterrupt \/ TakeSignal \/ TargetExits \/ DriverGoes
      BY <3>1, <3>9 DEF HitBreakpoint, Stop, At, TakeInterrupt, TakeSignal, TargetExits,
         DriverGoes, Afters, Ended
    <3>10. CASE \E p \in Pids : UntracedEnds(p)
      BY <3>1, <3>10 DEF UntracedEnds, Afters, Ended
    <3>11. CASE \E r \in Requests : SendRequest(r)
      BY <3>1, <3>11 DEF SendRequest, Afters, Ended
    <3>12. CASE \E i \in 0 .. MaxHooks - 1 : ClockPasses(i)
      BY <3>1, <3>12 DEF ClockPasses, Afters, Ended
    <3> QED
      BY <3>2, <3>3, <3>4, <3>5, <3>6, <3>7, <3>8, <3>9, <3>10, <3>11, <3>12
         DEF Next, Thread, Loop, Hooks, API, Target, Driver, Clock
  <2>2. IsHook(cursor) /\ Current.kind = "B" /\ breaked # 0 /\ breaked = Current.bp
    BY <2>1 DEF BreakpointHook, IsReached
  <2>3. stopped
    BY <2>2 DEF IInv, StoppedInv
  <2>4. Handling /\ Undisturbed
    BY DEF Handling, Undisturbed
  <2>5. held \/ ~ActionsObserve
    BY <2>2, <2>4 DEF EventInv, ObserveInv
  <2>6. ASSUME held PROVE at = Current.loc
    <3>1. cursor + 1 \in Reached /\ Current = hooks[cursor + 1]
      <4>1. cursor \in Nat /\ Len(hooks) \in Nat
        BY DEF IInv, TypeOK, ThreadTypes, HookTypes
      <4> QED BY <2>2, <4>1 DEF IsHook, Current, Hook, Reached, HookNumbers
    <3>2. Stands(Current.bp, Current.loc)
      BY <2>2, <2>4, <2>6, <3>1 DEF EventInv, PlaceInv
    <3> QED BY <2>2, <3>2 DEF Stands
  <2> QED BY <2>3, <2>5, <2>6
<1> QED BY <1>1, Invariance, EventInvariance, PTL DEF Spec, HookRunsAtItsPlace

-----------------------------------------------------------------------------
(* Hooks that are added, killed and run, and the breakpoints they have.    *)

InRequest == pc \in {"eval", "callWait", "body"} /\ ret = "respond"

Plain(s) == Paired(s) /\ \A k \in 1 .. Len(s) : s[k].op \notin {"enable", "disable"}

\* An event is used by the next call.
ReachInv ==
  HooksAreKept =>
    /\ Plain(inbox)
    /\ InRequest => Plain(calls)
    /\ Awake /\ Reaching =>
         /\ pc = "eval" /\ ret = "respond" /\ inferior # NoPid /\ calls # <<>>
         /\ Call.op = IF val.loc \in BadLocs THEN "delay" ELSE "hook"

\* The breakpoint hook that is being killed is disabled first.
KillsNow == pc \in {"callWait", "body"} /\ Call.op = "kill"
KillInv == KillsNow => IsHook(Call.i) /\ Hook(Call.i).kind = "B" /\ ~Hook(Call.i).enabled

CountInv == count = Len(hooks) \/ count \notin 0 .. MaxHooks

\* A breakpoint that no enabled hook has is the last result, or goes now.
Pending(b) == Reaching /\ val.loc \notin BadLocs /\ b.num = val.bp /\ b.loc = val.loc
Dying(b)   == KillsNow /\ b.num = Hook(Call.i).bp
Has(k, b)  == hooks[k].kind = "B" /\ hooks[k].bp = b.num /\ hooks[k].loc = b.loc

OwnedInv ==
  /\ \A b \in breakpoints :
       Pending(b) \/ Dying(b) \/ \E k \in HookNumbers : hooks[k].enabled /\ Has(k, b)
  /\ \A k \in Reached : hooks[k].enabled => \E b \in breakpoints : Has(k, b)
  /\ Reaching /\ val.loc \notin BadLocs =>
       /\ \E b \in breakpoints : Pending(b)
       /\ \A k \in Reached : hooks[k].bp # val.bp
  /\ \A j, k \in Reached : hooks[j].bp = hooks[k].bp => j = k
  /\ \A k \in Reached : hooks[k].bp <= breakpoint_count

MatchInv == HooksAreKept /\ Awake /\ count = Len(hooks) => OwnedInv

\* A hit that is handled has a hook that was run or comes up in this scan.
ComesUp(k) ==
  /\ hooks[k].enabled
  /\ \/ pc = "hookT" \/ RunsFrom("hookTDone")
     \/ pc = "hookB" /\ k > cursor
     \/ RunsFrom("hookBDone") /\ k > cursor + 1

CaughtInv ==
  HooksAreKept /\ count = Len(hooks) /\ (Handling \/ pc = "resume") /\ breaked # 0 =>
    \E k \in Reached : hooks[k].bp = breaked /\ (hooks[k].fired > 0 \/ ComesUp(k))

HookInv == ReachInv /\ KillInv /\ CountInv /\ MatchInv /\ CaughtInv

-----------------------------------------------------------------------------
(* The steps that such requests take.                                      *)

\* The count changes only where a hook is added, or one too many.
LEMMA CountKept ==
  ASSUME IInv, Next, ~AddHook
  PROVE  count' = count
<1>1. CASE RestartFails \/ DriverClosed \/ FetchCrashes \/ ScanCrashes
          \/ DetachCrashes \/ ExpressionCrashes \/ AddHookCrashes \/ StoreCrashes
          \/ MalformedCrashes
  BY <1>1 DEF RestartFails, Die, Ends, LetGo, DriverClosed, FetchCrashes,
     ScanCrashes, DetachCrashes, ExpressionCrashes, AddHookCrashes, StoreCrashes,
     MalformedCrashes
<1>2. CASE StartEventLoop \/ GetRequest \/ NoRequest \/ Respond \/ SkipContinuous
          \/ FetchNothing \/ FetchBreakpoint \/ FetchExit \/ ContinueTarget
  BY <1>2 DEF StartEventLoop, GetRequest, NoRequest, Respond, Ends, LetGo,
     SkipContinuous, FetchNothing, FetchBreakpoint, Consume, FetchExit,
     ContinueTarget, Continue
<1>3. CASE EndScan \/ SkipHook \/ TimedHook \/ TimedHookStopped \/ TimedHookDone
          \/ BreakpointHook \/ BreakpointHookDone
  BY <1>3 DEF EndScan, SkipHook, Step, TimedHook, Run, Interrupt, TimedHookStopped,
     TimedHookDone, BreakpointHook, BreakpointHookDone, Delete
<1>4. CASE WaitForInferior \/ WaitForever \/ Detach \/ Quit \/ SetTarget
  BY <1>4 DEF WaitForInferior, Consume, WaitForever, Detach, KeepTarget,
     DetachTarget, LetGo, Quit, SetTarget
<1>5. CASE StartObservation \/ StartBreakpointCall \/ MeasureOK \/ GdbOK
          \/ ObservationFails \/ Reach
  BY <1>5 DEF StartObservation, Interrupt, StartBreakpointCall, MeasureOK, Leave,
     Continue, Untouched, GdbOK, ObservationFails, Reach
<1>6. CASE Delay \/ Enable \/ Disable \/ StartKill \/ Kill
  BY <1>6 DEF Delay, Enable, Toggle, Disable, StartKill, Interrupt, Kill, Delete,
     Leave, Continue, Untouched
<1>7. CASE Store \/ Malformed \/ Evaluated
  BY <1>7 DEF Store, Malformed, Evaluated
<1>8. CASE HitBreakpoint \/ TakeInterrupt \/ TakeSignal \/ TargetExits \/ DriverGoes
  BY <1>8 DEF HitBreakpoint, Stop, At, TakeInterrupt, TakeSignal, TargetExits,
     DriverGoes
<1>9. CASE \E p \in Pids : UntracedEnds(p)
  BY <1>9 DEF UntracedEnds
<1>10. CASE \E r \in Requests : SendRequest(r)
  BY <1>10 DEF SendRequest
<1>11. CASE \E i \in 0 .. MaxHooks - 1 : ClockPasses(i)
  BY <1>11 DEF ClockPasses
<1> QED
  BY <1>1, <1>2, <1>3, <1>4, <1>5, <1>6, <1>7, <1>8, <1>9, <1>10, <1>11
     DEF Next, Thread, Loop, Hooks, API, Target, Driver, Clock

\* An ended process stays so, and a loop that unwound sets up a context first.
LEMMA AwakeBefore ==
  ASSUME IInv, Next, Awake', ~StartEventLoop
  PROVE  Awake
<1> USE DEF Awake, Ended
<1>1. ret \in Afters
  BY DEF IInv, TypeOK, ThreadTypes
<1>2. CASE RestartFails \/ DriverClosed \/ FetchCrashes \/ ScanCrashes
          \/ DetachCrashes \/ ExpressionCrashes \/ AddHookCrashes \/ StoreCrashes
          \/ MalformedCrashes
  BY <1>1, <1>2 DEF RestartFails, Die, Ends, LetGo, DriverClosed, FetchCrashes,
     ScanCrashes, DetachCrashes, ExpressionCrashes, AddHookCrashes, StoreCrashes,
     MalformedCrashes, Afters
<1>3. CASE GetRequest \/ NoRequest \/ Respond \/ SkipContinuous \/ FetchNothing
          \/ FetchBreakpoint \/ FetchExit \/ ContinueTarget
  BY <1>1, <1>3 DEF GetRequest, NoRequest, Respond, Ends, LetGo, SkipContinuous,
     FetchNothing, FetchBreakpoint, Consume, FetchExit, ContinueTarget, Continue,
     Afters
<1>4. CASE EndScan \/ SkipHook \/ TimedHook \/ TimedHookStopped \/ TimedHookDone
          \/ BreakpointHook \/ BreakpointHookDone
  BY <1>1, <1>4 DEF EndScan, SkipHook, Step, TimedHook, Run, Interrupt,
     TimedHookStopped, TimedHookDone, BreakpointHook, BreakpointHookDone, Delete,
     Afters
<1>5. CASE WaitForInferior \/ WaitForever \/ Detach \/ Quit \/ SetTarget
  BY <1>1, <1>5 DEF WaitForInferior, Consume, WaitForever, Detach, KeepTarget,
     DetachTarget, LetGo, Quit, SetTarget, Afters
<1>6. CASE StartObservation \/ StartBreakpointCall \/ MeasureOK \/ GdbOK
          \/ ObservationFails \/ Reach
  BY <1>1, <1>6 DEF StartObservation, Interrupt, StartBreakpointCall, MeasureOK,
     Leave, Continue, Untouched, GdbOK, ObservationFails, Reach, Afters
<1>7. CASE Delay \/ AddHook \/ Enable \/ Disable \/ StartKill \/ Kill
  BY <1>1, <1>7 DEF Delay, AddHook, Enable, Toggle, Disable, StartKill, Interrupt,
     Kill, Delete, Leave, Continue, Untouched, Afters
<1>8. CASE Store \/ Malformed \/ Evaluated
  BY <1>1, <1>8 DEF Store, Malformed, Evaluated, Afters
<1>9. CASE HitBreakpoint \/ TakeInterrupt \/ TakeSignal \/ TargetExits \/ DriverGoes
  BY <1>1, <1>9 DEF HitBreakpoint, Stop, At, TakeInterrupt, TakeSignal, TargetExits,
     DriverGoes, Afters
<1>10. CASE \E p \in Pids : UntracedEnds(p)
  BY <1>1, <1>10 DEF UntracedEnds, Afters
<1>11. CASE \E r \in Requests : SendRequest(r)
  BY <1>1, <1>11 DEF SendRequest, Afters
<1>12. CASE \E i \in 0 .. MaxHooks - 1 : ClockPasses(i)
  BY <1>1, <1>12 DEF ClockPasses, Afters
<1> QED
  BY <1>2, <1>3, <1>4, <1>5, <1>6, <1>7, <1>8, <1>9, <1>10, <1>11, <1>12
     DEF Next, Thread, Loop, Hooks, API, Target, Driver, Clock

\* Where the calls of a request come from: the driver, or the ones before.
LEMMA CallsOfRequests ==
  ASSUME IInv, Next, InRequest'
  PROVE  \/ InRequest /\ (calls' = calls \/ (calls # <<>> /\ calls' = Tail(calls)))
         \/ calls' = inbox
<1> USE DEF InRequest
<1>1. /\ ret \in Afters
      /\ pc \in {"callWait", "body"} => calls # <<>>
  BY DEF IInv, TypeOK, ThreadTypes, CallInv
<1>2. CASE RestartFails \/ DriverClosed \/ FetchCrashes \/ ScanCrashes
          \/ DetachCrashes \/ ExpressionCrashes \/ AddHookCrashes \/ StoreCrashes
          \/ MalformedCrashes
  BY <1>1, <1>2 DEF RestartFails, Die, Ends, LetGo, DriverClosed, FetchCrashes,
     ScanCrashes, DetachCrashes, ExpressionCrashes, AddHookCrashes, StoreCrashes,
     MalformedCrashes, Afters, Ended
<1>3. CASE StartEventLoop \/ GetRequest \/ NoRequest \/ Respond \/ SkipContinuous
          \/ FetchNothing \/ FetchBreakpoint \/ FetchExit \/ ContinueTarget
  BY <1>1, <1>3 DEF StartEventLoop, GetRequest, NoRequest, Respond, Ends, LetGo,
     SkipContinuous, FetchNothing, FetchBreakpoint, Consume, FetchExit,
     ContinueTarget, Continue, Afters, Ended
<1>4. CASE EndScan \/ SkipHook \/ TimedHook \/ TimedHookStopped \/ TimedHookDone
          \/ BreakpointHook \/ BreakpointHookDone
  BY <1>1, <1>4 DEF EndScan, SkipHook, Step, TimedHook, Run, Interrupt,
     TimedHookStopped, TimedHookDone, BreakpointHook, BreakpointHookDone, Delete,
     Afters, Ended
<1>5. CASE WaitForInferior \/ WaitForever \/ Detach \/ Quit \/ SetTarget
  BY <1>1, <1>5 DEF WaitForInferior, Consume, WaitForever, Detach, KeepTarget,
     DetachTarget, LetGo, Quit, SetTarget, Afters, Ended
<1>6. CASE StartObservation \/ StartBreakpointCall \/ MeasureOK \/ GdbOK
          \/ ObservationFails \/ Reach
  BY <1>1, <1>6 DEF StartObservation, Interrupt, StartBreakpointCall, MeasureOK,
     Leave, Continue, Untouched, GdbOK, ObservationFails, Reach, Afters, Ended
<1>7. CASE Delay \/ AddHook \/ Enable \/ Disable \/ StartKill \/ Kill
  BY <1>1, <1>7 DEF Delay, AddHook, Enable, Toggle, Disable, StartKill, Interrupt,
     Kill, Delete, Leave, Continue, Untouched, Afters, Ended
<1>8. CASE Store \/ Malformed \/ Evaluated
  BY <1>1, <1>8 DEF Store, Malformed, Evaluated, Afters, Ended
<1>9. CASE HitBreakpoint \/ TakeInterrupt \/ TakeSignal \/ TargetExits \/ DriverGoes
  BY <1>1, <1>9 DEF HitBreakpoint, Stop, At, TakeInterrupt, TakeSignal, TargetExits,
     DriverGoes, Afters, Ended
<1>10. CASE \E p \in Pids : UntracedEnds(p)
  BY <1>1, <1>10 DEF UntracedEnds, Afters, Ended
<1>11. CASE \E r \in Requests : SendRequest(r)
  BY <1>1, <1>11 DEF SendRequest, Afters, Ended
<1>12. CASE \E i \in 0 .. MaxHooks - 1 : ClockPasses(i)
  BY <1>1, <1>12 DEF ClockPasses, Afters, Ended
<1> QED
  BY <1>2, <1>3, <1>4, <1>5, <1>6, <1>7, <1>8, <1>9, <1>10, <1>11, <1>12
     DEF Next, Thread, Loop, Hooks, API, Target, Driver, Clock

\* A kill goes on as it began until it is done.
LEMMA KillGoesOn ==
  ASSUME IInv, Next
  PROVE  /\ KillsNow' /\ ~StartKill => KillsNow /\ calls' = calls
         /\ KillsNow /\ ~Kill /\ Awake' => KillsNow' /\ calls' = calls
<1> USE DEF KillsNow
<1>1. ret \in Afters
  BY DEF IInv, TypeOK, ThreadTypes
<1>2. CASE RestartFails \/ DriverClosed \/ FetchCrashes \/ ScanCrashes
          \/ DetachCrashes \/ ExpressionCrashes \/ AddHookCrashes \/ StoreCrashes
          \/ MalformedCrashes
  BY <1>1, <1>2 DEF RestartFails, Die, Ends, LetGo, DriverClosed, FetchCrashes,
     ScanCrashes, DetachCrashes, ExpressionCrashes, AddHookCrashes, StoreCrashes,
     MalformedCrashes, Afters, Breakers, Awake, Ended
<1>3. CASE StartEventLoop \/ GetRequest \/ NoRequest \/ Respond \/ SkipContinuous
          \/ FetchNothing \/ FetchBreakpoint \/ FetchExit \/ ContinueTarget
  BY <1>1, <1>3 DEF StartEventLoop, GetRequest, NoRequest, Respond, Ends, LetGo,
     SkipContinuous, FetchNothing, FetchBreakpoint, Consume, FetchExit,
     ContinueTarget, Continue, Afters, Breakers, Awake, Ended
<1>4. CASE EndScan \/ SkipHook \/ TimedHook \/ TimedHookStopped \/ TimedHookDone
          \/ BreakpointHook \/ BreakpointHookDone
  BY <1>1, <1>4 DEF EndScan, SkipHook, Step, TimedHook, Run, Interrupt,
     TimedHookStopped, TimedHookDone, BreakpointHook, BreakpointHookDone, Delete,
     Afters, Breakers, Awake, Ended
<1>5. CASE WaitForInferior \/ WaitForever \/ Detach \/ Quit \/ SetTarget
  BY <1>1, <1>5 DEF WaitForInferior, Consume, WaitForever, Detach, KeepTarget,
     DetachTarget, LetGo, Quit, SetTarget, Afters, Breakers, Awake, Ended
<1>6. CASE StartObservation \/ StartBreakpointCall \/ MeasureOK \/ GdbOK
          \/ ObservationFails \/ Reach
  BY <1>1, <1>6 DEF StartObservation, Interrupt, StartBreakpointCall, MeasureOK,
     Leave, Continue, Untouched, GdbOK, ObservationFails, Reach, Afters, Breakers,
     Awake, Ended
<1>7. CASE Delay \/ AddHook \/ Enable \/ Disable \/ StartKill \/ Kill
  BY <1>1, <1>7 DEF Delay, AddHook, Enable, Toggle, Disable, StartKill, Interrupt,
     Kill, Delete, Leave, Continue, Untouched, Afters, Breakers, Awake, Ended
<1>8. CASE Store \/ Malformed \/ Evaluated
  BY <1>1, <1>8 DEF Store, Malformed, Evaluated, Afters, Breakers, Awake, Ended
<1>9. CASE HitBreakpoint \/ TakeInterrupt \/ TakeSignal \/ TargetExits \/ DriverGoes
  BY <1>1, <1>9 DEF HitBreakpoint, Stop, At, TakeInterrupt, TakeSignal, TargetExits,
     DriverGoes, Afters, Breakers, Awake, Ended
<1>10. CASE \E p \in Pids : UntracedEnds(p)
  BY <1>1, <1>10 DEF UntracedEnds, Afters, Breakers, Awake, Ended
<1>11. CASE \E r \in Requests : SendRequest(r)
  BY <1>1, <1>11 DEF SendRequest, Afters, Breakers, Awake, Ended
<1>12. CASE \E i \in 0 .. MaxHooks - 1 : ClockPasses(i)
  BY <1>1, <1>12 DEF ClockPasses, Afters, Breakers, Awake, Ended
<1> QED
  BY <1>2, <1>3, <1>4, <1>5, <1>6, <1>7, <1>8, <1>9, <1>10, <1>11, <1>12
     DEF Next, Thread, Loop, Hooks, API, Target, Driver, Clock

\* Switching on and off is left to the steps that say so; a timed hook that is
\* used up is no breakpoint hook.
LEMMA EnabledKept ==
  ASSUME IInv, OneShotInv, ActingInv, Next,
         ~(AddHook \/ Enable \/ Disable \/ StartKill \/ BreakpointHookDone)
  PROVE  \A k \in Reached : hooks'[k].enabled = hooks[k].enabled
<1>1. hooks \in Seq(HookRecords) /\ cursor + 1 \in Int /\ MaxHooks \in Int
  BY ScanTypes, BoundsAreNaturals
<1>2. hooks' = hooks => \A k \in Reached : hooks'[k].enabled = hooks[k].enabled
  OBVIOUS
<1>3. CASE \E j \in Int : hooks' \in {hooks, Marked(j), [hooks EXCEPT ![j].due = TRUE]}
  <2>1. PICK j \in Int : hooks' \in {hooks, Marked(j), [hooks EXCEPT ![j].due = TRUE]}
    BY <1>3
  <2>2. TRUE \in BOOLEAN
    OBVIOUS
  <2> QED BY <1>1, <2>1, <2>2, OneHookWritten DEF Reached
<1>4. CASE RestartFails \/ DriverClosed \/ FetchCrashes \/ ScanCrashes
          \/ DetachCrashes \/ ExpressionCrashes \/ AddHookCrashes \/ StoreCrashes
          \/ MalformedCrashes
  BY <1>2, <1>4 DEF RestartFails, Die, Ends, LetGo, DriverClosed, FetchCrashes,
     ScanCrashes, DetachCrashes, ExpressionCrashes, AddHookCrashes, StoreCrashes,
     MalformedCrashes
<1>5. CASE StartEventLoop \/ GetRequest \/ NoRequest \/ Respond \/ SkipContinuous
          \/ FetchNothing \/ FetchBreakpoint \/ FetchExit \/ ContinueTarget
  BY <1>2, <1>5 DEF StartEventLoop, GetRequest, NoRequest, Respond, Ends, LetGo,
     SkipContinuous, FetchNothing, FetchBreakpoint, Consume, FetchExit,
     ContinueTarget, Continue
<1>6. CASE EndScan \/ SkipHook
  BY <1>2, <1>6 DEF EndScan, SkipHook, Step
<1>7. CASE WaitForInferior \/ WaitForever \/ Detach \/ Quit \/ SetTarget
  BY <1>2, <1>7 DEF WaitForInferior, Consume, WaitForever, Detach, KeepTarget,
     DetachTarget, LetGo, Quit, SetTarget
<1>8. CASE StartObservation \/ StartBreakpointCall \/ MeasureOK \/ GdbOK
          \/ ObservationFails \/ Reach
  BY <1>2, <1>8 DEF StartObservation, Interrupt, StartBreakpointCall, MeasureOK,
     Leave, Continue, Untouched, GdbOK, ObservationFails, Reach
<1>9. CASE Delay \/ Kill
  BY <1>2, <1>9 DEF Delay, Kill, Delete, Leave, Continue, Untouched
<1>10. CASE Store \/ Malformed \/ Evaluated
  BY <1>2, <1>10 DEF Store, Malformed, Evaluated
<1>11. CASE HitBreakpoint \/ TakeInterrupt \/ TakeSignal \/ TargetExits
           \/ DriverGoes
  BY <1>2, <1>11 DEF HitBreakpoint, Stop, At, TakeInterrupt, TakeSignal,
     TargetExits, DriverGoes
<1>12. CASE \E p \in Pids : UntracedEnds(p)
  BY <1>2, <1>12 DEF UntracedEnds
<1>13. CASE \E r \in Requests : SendRequest(r)
  BY <1>2, <1>13 DEF SendRequest
<1>14. CASE TimedHook
  BY <1>1, <1>3, <1>14 DEF TimedHook, Run, Marked
<1>15. CASE TimedHookStopped
  BY <1>1, <1>3, <1>15 DEF TimedHookStopped, Run, Marked
<1>16. CASE BreakpointHook
  BY <1>1, <1>3, <1>16 DEF BreakpointHook, Run, Marked
<1>17. CASE \E i \in 0 .. MaxHooks - 1 : ClockPasses(i)
  <2>1. PICK i \in 0 .. MaxHooks - 1 : ClockPasses(i)
    BY <1>17
  <2>2. i + 1 \in Int /\ hooks' = [hooks EXCEPT ![i + 1].due = TRUE]
    BY <1>1, <2>1 DEF ClockPasses
  <2> QED BY <1>3, <2>2
<1>18. CASE TimedHookDone
  <2> DEFINE j == cursor + 1
  <2>1. j \in HookNumbers /\ hooks[j].kind = "T"
    <3>1. IsHook(cursor) /\ Current.kind = "T" /\ cursor \in Nat /\ Len(hooks) \in Nat
      BY <1>18, ScanTypes DEF TimedHookDone, ActingInv, RunsFrom
    <3> QED BY <3>1 DEF IsHook, Current, Hook, HookNumbers
  <2>2. \E b \in BOOLEAN :
          hooks' \in {hooks, [hooks EXCEPT ![j].enabled = b], [hooks EXCEPT ![j].due = b]}
    BY <1>18 DEF TimedHookDone
  <2>3. j \in Int
    BY <1>1
  <2> HIDE DEF j
  <2>4. \A k \in HookNumbers : k # j => hooks'[k] = hooks[k]
    BY <1>1, <2>2, <2>3, OneHookWritten
  <2> QED BY <2>1, <2>4 DEF Reached
<1> QED
  BY <1>4, <1>5, <1>6, <1>7, <1>8, <1>9, <1>10, <1>11, <1>12, <1>13, <1>14,
     <1>15, <1>16, <1>17, <1>18
     DEF Next, Thread, Loop, Hooks, API, Target, Driver, Clock

\* Until it is used nothing happens to an event but what goes on outside.
LEMMA EventWaits ==
  ASSUME IInv, NumberInv, ReachInv, HooksAreKept, Next, Awake', Reaching', ~Reach
  PROVE  /\ Awake /\ Reaching /\ val' = val
         /\ pc' = pc /\ ret' = ret /\ calls' = calls /\ inferior' = inferior
<1>1. ~StartEventLoop
  <2>1. StartEventLoop => val' = val /\ val = Void
    BY DEF StartEventLoop, NumberInv
  <2> QED BY <2>1 DEF Reaching, Void
<1>2. Awake
  BY <1>1, AwakeBefore
<1>3. Reaching /\ val' = val
  BY BreakpointsKept DEF Reaching
<1>4. /\ pc = "eval" /\ ret = "respond" /\ inferior # NoPid /\ calls # <<>>
      /\ Call.op \in {"delay", "hook"}
  BY <1>2, <1>3 DEF ReachInv
<1>5. val.type = "event" /\ val.kind = "B" /\ val'.type = "event" /\ val'.kind = "B"
  BY <1>3 DEF Reaching
<1>6. CASE RestartFails \/ DriverClosed \/ FetchCrashes \/ ScanCrashes
          \/ DetachCrashes \/ ExpressionCrashes \/ AddHookCrashes \/ StoreCrashes
          \/ MalformedCrashes
  BY <1>3, <1>4, <1>5, <1>6 DEF RestartFails, Die, Ends, LetGo, DriverClosed,
     FetchCrashes, ScanCrashes, DetachCrashes, ExpressionCrashes, AddHookCrashes,
     StoreCrashes, MalformedCrashes, Awake, Ended, Void, Null, Taken, Breakers
<1>7. CASE GetRequest \/ NoRequest \/ Respond \/ SkipContinuous \/ FetchNothing
          \/ FetchBreakpoint \/ FetchExit \/ ContinueTarget
  BY <1>3, <1>4, <1>5, <1>7 DEF GetRequest, NoRequest, Respond, Ends, LetGo,
     SkipContinuous, FetchNothing, FetchBreakpoint, Consume, FetchExit,
     ContinueTarget, Continue, Awake, Ended, Void, Null, Taken, Breakers
<1>8. CASE EndScan \/ SkipHook \/ TimedHook \/ TimedHookStopped \/ TimedHookDone
          \/ BreakpointHook \/ BreakpointHookDone
  BY <1>3, <1>4, <1>5, <1>8 DEF EndScan, SkipHook, Step, TimedHook, Run, Interrupt,
     TimedHookStopped, TimedHookDone, BreakpointHook, BreakpointHookDone, Delete,
     Awake, Ended, Void, Null, Taken, Breakers
<1>9. CASE WaitForInferior \/ WaitForever \/ Detach \/ Quit \/ SetTarget
  BY <1>3, <1>4, <1>5, <1>9 DEF WaitForInferior, Consume, WaitForever, Detach,
     KeepTarget, DetachTarget, LetGo, Quit, SetTarget, Awake, Ended, Void, Null,
     Taken, Breakers
<1>10. CASE StartObservation \/ StartBreakpointCall \/ MeasureOK \/ GdbOK
           \/ ObservationFails
  BY <1>3, <1>4, <1>5, <1>10 DEF StartObservation, Interrupt, StartBreakpointCall,
     MeasureOK, Leave, Continue, Untouched, GdbOK, ObservationFails, Awake, Ended,
     Void, Null, Taken, Breakers
<1>11. CASE Delay \/ AddHook \/ Enable \/ Disable \/ StartKill \/ Kill
  BY <1>3, <1>4, <1>5, <1>11 DEF Delay, AddHook, Enable, Toggle, Disable, StartKill,
     Interrupt, Kill, Delete, Leave, Continue, Untouched, Awake, Ended, Void, Null,
     Taken, Breakers
<1>12. CASE Store \/ Malformed \/ Evaluated
  BY <1>3, <1>4, <1>5, <1>12 DEF Store, Malformed, Evaluated, Awake, Ended, Void,
     Null, Taken, Breakers
<1>13. CASE HitBreakpoint \/ TakeInterrupt \/ TakeSignal \/ TargetExits
           \/ DriverGoes
  BY <1>3, <1>4, <1>5, <1>13 DEF HitBreakpoint, Stop, At, TakeInterrupt, TakeSignal,
     TargetExits, DriverGoes, Awake, Ended, Void, Null, Taken, Breakers
<1>14. CASE \E p \in Pids : UntracedEnds(p)
  BY <1>3, <1>4, <1>5, <1>14 DEF UntracedEnds, Awake, Ended, Void, Null, Taken,
     Breakers
<1>15. CASE \E r \in Requests : SendRequest(r)
  BY <1>3, <1>4, <1>5, <1>15 DEF SendRequest, Awake, Ended, Void, Null, Taken,
     Breakers
<1>16. CASE \E i \in 0 .. MaxHooks - 1 : ClockPasses(i)
  BY <1>3, <1>4, <1>5, <1>16 DEF ClockPasses, Awake, Ended, Void, Null, Taken,
     Breakers
<1> QED
  BY <1>1, <1>6, <1>7, <1>8, <1>9, <1>10, <1>11, <1>12, <1>13, <1>14, <1>15, <1>16
     DEF Next, Thread, Loop, Hooks, API, Target, Driver, Clock

\* The event of a place that gdb knows is used by a hook.
LEMMA PendingUsed ==
  ASSUME IInv, ReachInv, HooksAreKept, Next, Awake, Awake', ~AddHook,
         Reaching, val.loc \notin BadLocs
  PROVE  val' = val
<1>1. pc = "eval" /\ ret = "respond" /\ calls # <<>> /\ Call.op = "hook"
  BY DEF ReachInv
<1>2. CASE RestartFails \/ DriverClosed \/ FetchCrashes \/ ScanCrashes
          \/ DetachCrashes \/ ExpressionCrashes \/ AddHookCrashes \/ StoreCrashes
          \/ MalformedCrashes
  BY <1>1, <1>2 DEF RestartFails, Die, Ends, LetGo, DriverClosed, FetchCrashes,
     ScanCrashes, DetachCrashes, ExpressionCrashes, AddHookCrashes, StoreCrashes,
     MalformedCrashes, Awake, Ended, Breakers
<1>3. CASE StartEventLoop \/ GetRequest \/ NoRequest \/ Respond \/ SkipContinuous
          \/ FetchNothing \/ FetchBreakpoint \/ FetchExit \/ ContinueTarget
  BY <1>1, <1>3 DEF StartEventLoop, GetRequest, NoRequest, Respond, Ends, LetGo,
     SkipContinuous, FetchNothing, FetchBreakpoint, Consume, FetchExit,
     ContinueTarget, Continue, Awake, Ended, Breakers
<1>4. CASE EndScan \/ SkipHook \/ TimedHook \/ TimedHookStopped \/ TimedHookDone
          \/ BreakpointHook \/ BreakpointHookDone
  BY <1>1, <1>4 DEF EndScan, SkipHook, Step, TimedHook, Run, Interrupt,
     TimedHookStopped, TimedHookDone, BreakpointHook, BreakpointHookDone, Delete,
     Awake, Ended, Breakers
<1>5. CASE WaitForInferior \/ WaitForever \/ Detach \/ Quit \/ SetTarget
  BY <1>1, <1>5 DEF WaitForInferior, Consume, WaitForever, Detach, KeepTarget,
     DetachTarget, LetGo, Quit, SetTarget, Awake, Ended, Breakers
<1>6. CASE StartObservation \/ StartBreakpointCall \/ MeasureOK \/ GdbOK
          \/ ObservationFails \/ Reach
  BY <1>1, <1>6 DEF StartObservation, Interrupt, StartBreakpointCall, MeasureOK,
     Leave, Continue, Untouched, GdbOK, ObservationFails, Reach, Awake, Ended,
     Breakers
<1>7. CASE Delay \/ Enable \/ Disable \/ StartKill \/ Kill
  BY <1>1, <1>7 DEF Delay, Enable, Toggle, Disable, StartKill, Interrupt, Kill,
     Delete, Leave, Continue, Untouched, Awake, Ended, Breakers
<1>8. CASE Store \/ Malformed \/ Evaluated
  BY <1>1, <1>8 DEF Store, Malformed, Evaluated, Awake, Ended, Breakers
<1>9. CASE HitBreakpoint \/ TakeInterrupt \/ TakeSignal \/ TargetExits \/ DriverGoes
  BY <1>1, <1>9 DEF HitBreakpoint, Stop, At, TakeInterrupt, TakeSignal, TargetExits,
     DriverGoes, Awake, Ended, Breakers
<1>10. CASE \E p \in Pids : UntracedEnds(p)
  BY <1>1, <1>10 DEF UntracedEnds, Awake, Ended, Breakers
<1>11. CASE \E r \in Requests : SendRequest(r)
  BY <1>1, <1>11 DEF SendRequest, Awake, Ended, Breakers
<1>12. CASE \E i \in 0 .. MaxHooks - 1 : ClockPasses(i)
  BY <1>1, <1>12 DEF ClockPasses, Awake, Ended, Breakers
<1> QED
  BY <1>2, <1>3, <1>4, <1>5, <1>6, <1>7, <1>8, <1>9, <1>10, <1>11, <1>12
     DEF Next, Thread, Loop, Hooks, API, Target, Driver, Clock

\* As long as hooks fit the count is their number; it does not come back to it.
LEMMA CountStep ==
  ASSUME IInv, CountInv, Next
  PROVE  CountInv' /\ (count' = Len(hooks') => count = Len(hooks))
<1>1. Len(hooks) \in Nat /\ count \in Int /\ MaxHooks \in Nat
  BY ScanTypes, BoundsAreNaturals DEF IInv, TypeOK, HookTypes
<1>2. CASE ~AddHook
  BY <1>2, CountKept, EventsKept DEF CountInv, SameEvents
<1>3. CASE AddHook
  <2>1. CASE hooks' = hooks /\ count' = count
    BY <2>1 DEF CountInv
  <2>2. CASE /\ Len(hooks') = Len(hooks) + 1
             /\ count' = count + 1 /\ count \in 0 .. MaxHooks - 1
    BY <1>1, <2>2 DEF CountInv
  <2>3. CASE hooks' = hooks /\ count = MaxHooks /\ count' \in {-1, MaxHooks + 1}
    BY <1>1, <2>3 DEF CountInv
  <2>4. \/ hooks' = hooks /\ count' = count
        \/ /\ count' = count + 1 /\ count \in 0 .. MaxHooks - 1
           /\ hooks' = Append(hooks, NewHook(val, Call.action))
        \/ hooks' = hooks /\ count = MaxHooks /\ count' \in {-1, MaxHooks + 1}
    BY <1>3 DEF AddHook
  <2>5. hooks' = Append(hooks, NewHook(val, Call.action)) => Len(hooks') = Len(hooks) + 1
    <3> DEFINE h == NewHook(val, Call.action)
    <3>1. ASSUME hooks' = Append(hooks, h) PROVE Len(hooks') = Len(hooks) + 1
      <4> HIDE DEF h
      <4> QED BY <3>1, ScanTypes, IInv
    <3> QED BY <3>1
  <2> HIDE DEF Call
  <2> QED BY <2>1, <2>2, <2>3, <2>4, <2>5
<1> QED BY <1>2, <1>3

\* The call's hook is one of the hooks.
LEMMA KilledHook ==
  ASSUME IInv, KillInv, KillsNow
  PROVE  /\ Call.i + 1 \in Reached /\ Hook(Call.i) = hooks[Call.i + 1]
         /\ ~hooks[Call.i + 1].enabled
<1>1. Call.i \in 0 .. MaxHooks - 1
  <2>1. calls \in Seq(Calls) /\ calls # <<>>
    BY DEF IInv, TypeOK, ThreadTypes, CallInv, KillsNow
  <2>2. Call \in Calls /\ Call.op = "kill"
    BY <2>1, CallsTyped DEF KillsNow
  <2> QED BY <2>2, CallsAreWellFormed
<1>2. IsHook(Call.i) /\ Hook(Call.i).kind = "B" /\ ~Hook(Call.i).enabled
  BY DEF KillInv
<1> DEFINE i == Call.i
<1>3. i \in 0 .. MaxHooks - 1 /\ i < Len(hooks) /\ Len(hooks) \in Nat /\ Hook(i) = hooks[i + 1]
  BY <1>1, <1>2, ScanTypes DEF IsHook, Hook
<1>4. hooks[i + 1].kind = "B" /\ ~hooks[i + 1].enabled
  BY <1>2, <1>3
<1> HIDE DEF i
<1>5. i + 1 \in Reached /\ Hook(i) = hooks[i + 1] /\ ~hooks[i + 1].enabled
  BY <1>3, <1>4, BoundsAreNaturals DEF Reached, HookNumbers
<1> QED BY <1>5 DEF i

LEMMA KillStep ==
  ASSUME IInv, OneShotInv, ActingInv, KillInv, Next
  PROVE  KillInv'
<1> SUFFICES ASSUME KillsNow'
             PROVE  (IsHook(Call.i) /\ Hook(Call.i).kind = "B" /\ ~Hook(Call.i).enabled)'
  BY DEF KillInv
<1>1. Len(hooks) \in Nat
  BY ScanTypes
<1>2. CASE StartKill
  <2>1. /\ pc = "eval" /\ calls # <<>> /\ calls' = calls /\ IsHook(Call.i) /\ Hook(Call.i).kind = "B"
        /\ hooks' = [hooks EXCEPT ![Call.i + 1].enabled = FALSE]
    BY <1>2 DEF StartKill, KillsNow
  <2> DEFINE i == Call.i
             j == i + 1
  <2>2. i \in 0 .. MaxHooks - 1
    BY <2>1, <1>2, CallsTyped, CallsAreWellFormed DEF IInv, TypeOK, ThreadTypes, StartKill
  <2>3. Call' = Call
    BY <2>1
  <2>4. /\ i < Len(hooks) /\ hooks[j].kind = "B"
        /\ hooks' = [hooks EXCEPT ![j].enabled = FALSE] /\ j \in Int
    BY <2>1, <2>2, BoundsAreNaturals DEF IsHook, Hook
  <2>5. j \in HookNumbers
    BY <1>1, <2>2, <2>4, BoundsAreNaturals DEF HookNumbers
  <2>6. SameEvents /\ hooks'[j].enabled = FALSE
    <3> HIDE DEF j
    <3>1. FALSE \in BOOLEAN
      OBVIOUS
    <3> QED BY <2>4, <2>5, <3>1, ScanTypes, OneHookWritten
  <2>7. i < Len(hooks') /\ hooks'[j].kind = "B" /\ ~hooks'[j].enabled
    BY <2>4, <2>5, <2>6 DEF SameEvents
  <2> QED BY <2>3, <2>7 DEF IsHook, Hook
<1>3. CASE ~StartKill
  <2>1. KillsNow /\ calls' = calls
    BY <1>3, KillGoesOn
  <2>2. ~(AddHook \/ Enable \/ Disable \/ StartKill \/ BreakpointHookDone)
    BY <1>3, <2>1 DEF KillsNow, AddHook, Enable, Disable, Toggle, BreakpointHookDone
  <2> DEFINE i == Call.i
             j == i + 1
  <2>3. j \in Reached /\ ~hooks[j].enabled /\ i < Len(hooks)
    BY <2>1, KilledHook DEF KillInv, IsHook
  <2>4. SameEvents /\ \A k \in Reached : hooks'[k].enabled = hooks[k].enabled
    BY <2>2, EventsKept, EnabledKept
  <2>5. Call' = Call
    BY <2>1
  <2>6. i < Len(hooks') /\ hooks'[j].kind = "B" /\ ~hooks'[j].enabled
    <3> HIDE DEF j, i
    <3> QED BY <2>3, <2>4 DEF SameEvents, Reached
  <2> QED BY <2>5, <2>6 DEF IsHook, Hook
<1> QED BY <1>2, <1>3

LEMMA PlainRest ==
  ASSUME NEW s \in Seq(Calls), s # <<>>, Plain(s)
  PROVE  /\ Plain(Tail(s)) /\ Head(s).op \notin {"enable", "disable"}
         /\ Head(s).op \in Breakers =>
              /\ Tail(s) # <<>>
              /\ Head(Tail(s)).op = IF Head(s).loc \in BadLocs THEN "delay" ELSE "hook"
<1>1. Len(s) \in Nat \ {0} /\ Head(s) = s[1] /\ Len(Tail(s)) = Len(s) - 1
  OBVIOUS
<1>2. ASSUME NEW k \in 1 .. Len(Tail(s))
      PROVE  Tail(s)[k] = s[k + 1] /\ k + 1 \in 1 .. Len(s) /\ (k < Len(Tail(s)) <=> k + 1 < Len(s))
  BY <1>1
<1>3. ASSUME NEW k \in 1 .. Len(Tail(s)), Tail(s)[k].op \in Breakers
      PROVE  /\ k < Len(Tail(s))
             /\ Tail(s)[k + 1].op = IF Tail(s)[k].loc \in BadLocs THEN "delay" ELSE "hook"
  <2>1. /\ k + 1 < Len(s)
        /\ s[k + 1 + 1].op = IF s[k + 1].loc \in BadLocs THEN "delay" ELSE "hook"
    BY <1>2, <1>3 DEF Plain, Paired
  <2>2. k < Len(Tail(s)) /\ k + 1 \in 1 .. Len(Tail(s))
    BY <1>1, <1>2, <2>1
  <2>3. \A m \in 1 .. Len(Tail(s)) : Tail(s)[m] = s[m + 1]
    BY <1>2
  <2>4. Tail(s)[k + 1] = s[k + 1 + 1] /\ Tail(s)[k] = s[k + 1]
    BY <2>2, <2>3
  <2> QED BY <2>1, <2>2, <2>4
<1>4. ASSUME NEW k \in 1 .. Len(Tail(s)) PROVE Tail(s)[k].op \notin {"enable", "disable"}
  BY <1>2 DEF Plain
<1>5. ASSUME Head(s).op \in Breakers
      PROVE  /\ Tail(s) # <<>>
             /\ Head(Tail(s)).op = IF Head(s).loc \in BadLocs THEN "delay" ELSE "hook"
  <2>1. 1 \in 1 .. Len(s) /\ s[1].op \in Breakers /\ s[1] = Head(s)
    BY <1>1, <1>5
  <2>2. 1 < Len(s) /\ s[1 + 1].op = IF s[1].loc \in BadLocs THEN "delay" ELSE "hook"
    BY <2>1 DEF Plain, Paired
  <2>3. 1 \in 1 .. Len(Tail(s)) /\ Tail(s) # <<>>
    <3>1. Len(Tail(s)) \in Nat /\ Len(Tail(s)) > 0
      BY <1>1, <2>2
    <3>2. Len(<<>>) = 0
      OBVIOUS
    <3> DEFINE t == Tail(s)
    <3>3. Len(t) \in Nat /\ Len(t) > 0
      BY <3>1
    <3> HIDE DEF t
    <3>4. 1 \in 1 .. Len(t) /\ t # <<>>
      BY <3>2, <3>3
    <3> QED BY <3>4 DEF t
  <2>4. Head(Tail(s)) = s[1 + 1]
    BY <1>2, <2>3
  <2> QED BY <2>1, <2>2, <2>3, <2>4
<1>6. Head(s).op \notin {"enable", "disable"}
  BY <1>1 DEF Plain
<1> QED BY <1>3, <1>4, <1>5, <1>6 DEF Plain, Paired

\* Only a request reaches a place, and its next call takes the event.
LEMMA ReachGives ==
  ASSUME IInv, ObserveInv, ReachInv, HooksAreKept, Reach
  PROVE  /\ pc = "body" /\ ret = "respond" /\ ret' = ret
         /\ Awake' =>
              /\ pc' = "eval" /\ inferior # NoPid /\ inferior' = inferior
              /\ val'.type = "event" /\ val'.kind = "B"
              /\ val'.bp = breakpoint_count + 1 /\ val'.loc = Call.loc
              /\ calls' = Tail(calls) /\ calls' # <<>>
              /\ Head(calls').op = IF Call.loc \in BadLocs THEN "delay" ELSE "hook"
<1>1. /\ pc = "body" /\ calls # <<>> /\ calls \in Seq(Calls) /\ Call.op \in Breakers
      /\ ret' = ret
  BY DEF Reach, Untouched, IInv, TypeOK, ThreadTypes, CallInv
<1>2. ret = "respond"
  <2>1. ~InAction
    <3>1. InAction => Observing(calls)
      BY DEF HooksAreKept, ObserveInv
    <3>2. InAction => Call.op \in Observers
      BY <1>1, <3>1, ObservingRest
    <3> QED BY <1>1, <3>2 DEF Observers, Breakers
  <2> QED BY <1>1, <2>1 DEF InAction
<1>3. Plain(calls)
  BY <1>1, <1>2 DEF ReachInv, InRequest
<1>4. ASSUME Awake'
      PROVE  /\ pc' = "eval" /\ inferior # NoPid /\ inferior' = inferior
             /\ val'.type = "event" /\ val'.kind = "B"
             /\ val'.bp = breakpoint_count + 1 /\ val'.loc = Call.loc
             /\ calls' = Tail(calls)
  BY <1>4 DEF Awake, Reach, Leave, Continue, Untouched
<1>5. /\ Tail(calls) # <<>>
      /\ Head(Tail(calls)).op = IF Call.loc \in BadLocs THEN "delay" ELSE "hook"
  BY <1>1, <1>3, PlainRest
<1> QED BY <1>1, <1>2, <1>4, <1>5

LEMMA ReachStep ==
  ASSUME IInv, NumberInv, ObserveInv, ReachInv, Next
  PROVE  ReachInv'
<1> SUFFICES ASSUME HooksAreKept
             PROVE  (/\ Plain(inbox)
                     /\ InRequest => Plain(calls)
                     /\ Awake /\ Reaching =>
                          /\ pc = "eval" /\ ret = "respond" /\ inferior # NoPid /\ calls # <<>>
                          /\ Call.op = IF val.loc \in BadLocs THEN "delay" ELSE "hook")'
  BY DEF ReachInv
<1>1. Plain(inbox)'
  <2>1. inbox' \in {inbox, <<>>} \/ \E r \in Requests : inbox' = r
    <3>1. CASE RestartFails \/ DriverClosed \/ FetchCrashes \/ ScanCrashes
              \/ DetachCrashes \/ ExpressionCrashes \/ AddHookCrashes \/ StoreCrashes
              \/ MalformedCrashes
      BY <3>1 DEF RestartFails, Die, Ends, LetGo, DriverClosed, FetchCrashes,
         ScanCrashes, DetachCrashes, ExpressionCrashes, AddHookCrashes, StoreCrashes,
         MalformedCrashes
    <3>2. CASE StartEventLoop \/ GetRequest \/ NoRequest \/ Respond \/ SkipContinuous
              \/ FetchNothing \/ FetchBreakpoint \/ FetchExit \/ ContinueTarget
      BY <3>2 DEF StartEventLoop, GetRequest, NoRequest, Respond, Ends, LetGo,
         SkipContinuous, FetchNothing, FetchBreakpoint, Consume, FetchExit,
         ContinueTarget, Continue
    <3>3. CASE EndScan \/ SkipHook \/ TimedHook \/ TimedHookStopped \/ TimedHookDone
              \/ BreakpointHook \/ BreakpointHookDone
      BY <3>3 DEF EndScan, SkipHook, Step, TimedHook, Run, Interrupt, TimedHookStopped,
         TimedHookDone, BreakpointHook, BreakpointHookDone, Delete
    <3>4. CASE WaitForInferior \/ WaitForever \/ Detach \/ Quit \/ SetTarget
      BY <3>4 DEF WaitForInferior, Consume, WaitForever, Detach, KeepTarget,
         DetachTarget, LetGo, Quit, SetTarget
    <3>5. CASE StartObservation \/ StartBreakpointCall \/ MeasureOK \/ GdbOK
              \/ ObservationFails \/ Reach
      BY <3>5 DEF StartObservation, Interrupt, StartBreakpointCall, MeasureOK, Leave,
         Continue, Untouched, GdbOK, ObservationFails, Reach
    <3>6. CASE Delay \/ AddHook \/ Enable \/ Disable \/ StartKill \/ Kill
      BY <3>6 DEF Delay, AddHook, Enable, Toggle, Disable, StartKill, Interrupt, Kill,
         Delete, Leave, Continue, Untouched
    <3>7. CASE Store \/ Malformed \/ Evaluated
      BY <3>7 DEF Store, Malformed, Evaluated
    <3>8. CASE HitBreakpoint \/ TakeInterrupt \/ TakeSignal \/ TargetExits \/ DriverGoes
      BY <3>8 DEF HitBreakpoint, Stop, At, TakeInterrupt, TakeSignal, TargetExits,
         DriverGoes
    <3>9. CASE \E p \in Pids : UntracedEnds(p)
      BY <3>9 DEF UntracedEnds
    <3>10. CASE \E r \in Requests : SendRequest(r)
      BY <3>10 DEF SendRequest
    <3>11. CASE \E i \in 0 .. MaxHooks - 1 : ClockPasses(i)
      BY <3>11 DEF ClockPasses
    <3> QED
      BY <3>1, <3>2, <3>3, <3>4, <3>5, <3>6, <3>7, <3>8, <3>9, <3>10, <3>11
         DEF Next, Thread, Loop, Hooks, API, Target, Driver, Clock
  <2>2. \A r \in Requests : Plain(r)
    BY DEF HooksAreKept, Plain
  <2>3. Plain(<<>>)
    BY DEF Plain, Paired
  <2> QED BY <2>1, <2>2, <2>3 DEF ReachInv
<1>2. ASSUME InRequest' PROVE Plain(calls)'
  <2>1. calls \in Seq(Calls)
    BY DEF IInv, TypeOK, ThreadTypes
  <2>2. CASE InRequest /\ (calls' = calls \/ (calls # <<>> /\ calls' = Tail(calls)))
    BY <2>1, <2>2, PlainRest DEF ReachInv
  <2>3. CASE calls' = inbox
    BY <2>3 DEF ReachInv
  <2> QED BY <1>2, <2>2, <2>3, CallsOfRequests
<1>3. ASSUME Awake', Reaching'
      PROVE  (/\ pc = "eval" /\ ret = "respond" /\ inferior # NoPid /\ calls # <<>>
              /\ Call.op = IF val.loc \in BadLocs THEN "delay" ELSE "hook")'
  <2>1. CASE Reach
    BY <1>3, <2>1, ReachGives
  <2>2. CASE ~Reach
    <3>1. /\ Awake /\ Reaching /\ val' = val
          /\ pc' = pc /\ ret' = ret /\ calls' = calls /\ inferior' = inferior
      BY <1>3, <2>2, EventWaits
    <3> QED BY <3>1 DEF ReachInv
  <2> QED BY <2>1, <2>2
<1> QED BY <1>1, <1>2, <1>3

\* Hooks whose events are the same own the same breakpoints.
LEMMA SameOwners ==
  ASSUME SameEvents
  PROVE  /\ Reached' = Reached /\ HookNumbers' = HookNumbers
         /\ \A k \in HookNumbers : \A b :
              (hooks'[k].kind = "B" /\ hooks'[k].bp = b.num /\ hooks'[k].loc = b.loc) <=> Has(k, b)
         /\ \A k \in Reached : hooks'[k].bp = hooks[k].bp /\ hooks'[k].kind = "B"
         /\ (\A j, k \in Reached : hooks[j].bp = hooks[k].bp => j = k) =>
              \A j, k \in Reached : hooks'[j].bp = hooks'[k].bp => j = k
<1>1. HookNumbers' = HookNumbers
  BY DEF SameEvents, HookNumbers
<1>2. Reached' = Reached
  BY <1>1 DEF SameEvents, Reached
<1>3. \A k \in HookNumbers :
        /\ hooks'[k].kind = hooks[k].kind /\ hooks'[k].bp = hooks[k].bp
        /\ hooks'[k].loc = hooks[k].loc
  BY DEF SameEvents
<1>4. \A k \in Reached : k \in HookNumbers /\ hooks[k].kind = "B"
  BY DEF Reached
<1> QED BY <1>1, <1>2, <1>3, <1>4 DEF Has

\* A step that neither sets nor deletes a breakpoint, nor switches a hook.
LEMMA OwnedKept ==
  ASSUME IInv, KillInv, OwnedInv, SameEvents,
         breakpoints' = breakpoints, breakpoint_count' = breakpoint_count,
         \A k \in Reached : hooks'[k].enabled = hooks[k].enabled,
         Reaching' => val' = val,
         Reaching /\ val.loc \notin BadLocs => val' = val,
         KillsNow => KillsNow' /\ calls' = calls
  PROVE  OwnedInv'
<1>1. /\ Reached' = Reached /\ HookNumbers' = HookNumbers
      /\ \A k \in HookNumbers : \A b :
           (hooks'[k].kind = "B" /\ hooks'[k].bp = b.num /\ hooks'[k].loc = b.loc) <=> Has(k, b)
      /\ \A k \in Reached : hooks'[k].bp = hooks[k].bp
      /\ (\A j, k \in Reached : hooks[j].bp = hooks[k].bp => j = k) =>
           \A j, k \in Reached : hooks'[j].bp = hooks'[k].bp => j = k
  BY SameOwners
<1>2. Reached \subseteq HookNumbers /\ \A k \in HookNumbers : \A b : Has(k, b) => k \in Reached
  BY DEF Reached, Has
<1>3. /\ (Reaching /\ val.loc \notin BadLocs)' => Reaching /\ val.loc \notin BadLocs /\ val' = val
      /\ Reaching /\ val.loc \notin BadLocs => (Reaching /\ val.loc \notin BadLocs)' /\ val' = val
  BY DEF Reaching
<1>4. ASSUME NEW b PROVE Pending(b) <=> Pending(b)'
  BY <1>3 DEF Pending
<1>5. ASSUME NEW b, Dying(b) PROVE Dying(b)'
  <2>1. Call.i + 1 \in Reached /\ Hook(Call.i) = hooks[Call.i + 1]
    BY <1>5, KilledHook DEF Dying
  <2>2. KillsNow' /\ Call' = Call
    BY <1>5 DEF Dying
  <2>3. Hook(Call.i)' = hooks'[Call.i + 1]
    BY <2>2 DEF Hook
  <2> QED BY <1>1, <1>5, <2>1, <2>2, <2>3 DEF Dying
<1>6. ASSUME NEW b \in breakpoints'
      PROVE  Pending(b)' \/ Dying(b)' \/ \E k \in HookNumbers' : hooks'[k].enabled /\ Has(k, b)'
  <2>1. Pending(b) \/ Dying(b) \/ \E k \in HookNumbers : hooks[k].enabled /\ Has(k, b)
    BY DEF OwnedInv
  <2>2. \A k \in HookNumbers : Has(k, b) => Has(k, b)' /\ hooks'[k].enabled = hooks[k].enabled
    BY <1>1, <1>2 DEF Has
  <2> QED BY <1>1, <1>4, <1>5, <2>1, <2>2
<1>7. ASSUME NEW k \in Reached', hooks'[k].enabled
      PROVE  \E b \in breakpoints' : Has(k, b)'
  <2>1. PICK b \in breakpoints : Has(k, b)
    BY <1>1, <1>7 DEF OwnedInv
  <2>2. Has(k, b)'
    BY <1>1, <1>2, <1>7, <2>1 DEF Has
  <2> QED BY <2>2
<1>8. ASSUME (Reaching /\ val.loc \notin BadLocs)'
      PROVE  /\ \E b \in breakpoints' : Pending(b)'
             /\ \A k \in Reached' : hooks'[k].bp # val'.bp
  <2>1. Reaching /\ val.loc \notin BadLocs /\ val' = val
    BY <1>3, <1>8
  <2>2. (\E b \in breakpoints : Pending(b)) /\ \A k \in Reached : hooks[k].bp # val.bp
    BY <2>1 DEF OwnedInv
  <2> QED BY <1>1, <1>4, <2>1, <2>2
<1>9. /\ \A j, k \in Reached' : hooks'[j].bp = hooks'[k].bp => j = k
      /\ \A k \in Reached' : hooks'[k].bp <= breakpoint_count'
  BY <1>1 DEF OwnedInv
<1> QED BY <1>6, <1>7, <1>8, <1>9 DEF OwnedInv

\* A new breakpoint is the last result's; if gdb does not know the place, there
\* is none, and the event is not for a hook.
LEMMA OwnedReach ==
  ASSUME IInv, OneShotInv, ObserveInv, ReachInv, HooksAreKept, OwnedInv, Reach, Awake'
  PROVE  OwnedInv'
<1> DEFINE new == [num |-> breakpoint_count + 1, loc |-> Call.loc]
           l == Call.loc
           bad == l \in BadLocs
<1>1. /\ pc = "body" /\ pc' = "eval"
      /\ val'.type = "event" /\ val'.kind = "B"
      /\ val'.bp = breakpoint_count + 1 /\ val'.loc = l
  BY ReachGives
<1>2. /\ bad => breakpoints' = breakpoints /\ breakpoint_count' = breakpoint_count
      /\ ~bad => breakpoints' = breakpoints \cup {new}
                 /\ breakpoint_count' = breakpoint_count + 1
      /\ hooks' = hooks /\ Call.op \in Breakers
  BY DEF Reach
<1>3. new.num = breakpoint_count + 1 /\ new.loc = l
  OBVIOUS
<1> HIDE DEF new, l, bad
<1>4. ~Reaching
  BY <1>1 DEF ReachInv, Awake, Ended
<1>5. ~KillsNow
  BY <1>2 DEF KillsNow, Breakers
<1>6. breakpoint_count \in Nat /\ \A k \in Reached : hooks[k].bp \in Nat
  BY ScanTypes DEF Reached, HookNumbers
<1>7. \A b : Pending(b)' <=> ~bad /\ b.num = breakpoint_count + 1 /\ b.loc = l
  BY <1>1 DEF Pending, Reaching, bad
<1>8. Reached' = Reached /\ HookNumbers' = HookNumbers
  BY <1>2 DEF Reached, HookNumbers
<1>9. ASSUME NEW b \in breakpoints'
      PROVE  Pending(b)' \/ Dying(b)' \/ \E k \in HookNumbers' : hooks'[k].enabled /\ Has(k, b)'
  <2>1. CASE b \in breakpoints
    <3>1. \E k \in HookNumbers : hooks[k].enabled /\ Has(k, b)
      BY <1>4, <1>5, <2>1 DEF OwnedInv, Pending, Dying
    <3> QED BY <1>2, <1>8, <3>1 DEF Has
  <2>2. CASE b = new /\ ~bad
    BY <1>3, <1>7, <2>2
  <2> QED BY <1>2, <2>1, <2>2
<1>10. ASSUME NEW k \in Reached', hooks'[k].enabled
       PROVE  \E b \in breakpoints' : Has(k, b)'
  BY <1>2, <1>8, <1>10 DEF OwnedInv, Has
<1>11. ASSUME (Reaching /\ val.loc \notin BadLocs)'
       PROVE  /\ \E b \in breakpoints' : Pending(b)'
              /\ \A k \in Reached' : hooks'[k].bp # val'.bp
  <2>1. ~bad
    BY <1>1, <1>11 DEF bad
  <2>2. \A k \in Reached : hooks[k].bp # breakpoint_count + 1
    BY <1>6 DEF OwnedInv
  <2> QED BY <1>1, <1>2, <1>3, <1>7, <1>8, <2>1, <2>2
<1>12. /\ \A j, k \in Reached' : hooks'[j].bp = hooks'[k].bp => j = k
       /\ \A k \in Reached' : hooks'[k].bp <= breakpoint_count'
  BY <1>2, <1>6, <1>8 DEF OwnedInv
<1> QED BY <1>9, <1>10, <1>11, <1>12 DEF OwnedInv

\* A hook that is used up or killed takes its breakpoint along, and no other.
LEMMA OwnedDelete ==
  ASSUME OwnedInv, SameEvents, ~Reaching, ~Reaching', NEW j \in Reached,
         KillsNow => Hook(Call.i) = hooks[j],
         breakpoints' = {b \in breakpoints : b.num # hooks[j].bp},
         breakpoint_count' = breakpoint_count, ~hooks'[j].enabled,
         \A k \in HookNumbers : k # j => hooks'[k].enabled = hooks[k].enabled
  PROVE  OwnedInv'
<1>1. /\ Reached' = Reached /\ HookNumbers' = HookNumbers
      /\ \A k \in HookNumbers : \A b :
           (hooks'[k].kind = "B" /\ hooks'[k].bp = b.num /\ hooks'[k].loc = b.loc) <=> Has(k, b)
      /\ \A k \in Reached : hooks'[k].bp = hooks[k].bp
      /\ (\A i, k \in Reached : hooks[i].bp = hooks[k].bp => i = k) =>
           \A i, k \in Reached : hooks'[i].bp = hooks'[k].bp => i = k
  BY SameOwners
<1>2. Reached \subseteq HookNumbers
  BY DEF Reached
<1>3. ASSUME NEW b \in breakpoints'
      PROVE  \E k \in HookNumbers' : hooks'[k].enabled /\ Has(k, b)'
  <2>1. b \in breakpoints /\ b.num # hooks[j].bp
    OBVIOUS
  <2>2. ~Pending(b) /\ ~Dying(b)
    BY <2>1 DEF Pending, Dying
  <2>3. PICK k \in HookNumbers : hooks[k].enabled /\ Has(k, b)
    BY <2>1, <2>2 DEF OwnedInv
  <2>4. k # j
    BY <2>1, <2>3 DEF Has
  <2> QED BY <1>1, <2>3, <2>4 DEF Has
<1>4. ASSUME NEW k \in Reached', hooks'[k].enabled
      PROVE  \E b \in breakpoints' : Has(k, b)'
  <2>1. k \in Reached /\ k # j /\ hooks[k].enabled
    BY <1>1, <1>2, <1>4
  <2>2. PICK b \in breakpoints : Has(k, b)
    BY <2>1 DEF OwnedInv
  <2>3. b.num # hooks[j].bp
    BY <2>1, <2>2 DEF OwnedInv, Has
  <2>4. b \in breakpoints' /\ Has(k, b)'
    BY <1>1, <1>2, <2>1, <2>2, <2>3 DEF Has
  <2> QED BY <2>4
<1>5. /\ \A i, k \in Reached' : hooks'[i].bp = hooks'[k].bp => i = k
      /\ \A k \in Reached' : hooks'[k].bp <= breakpoint_count'
  BY <1>1 DEF OwnedInv
<1> QED BY <1>3, <1>4, <1>5 DEF OwnedInv

\* A breakpoint hook that is to be killed is disabled before its breakpoint goes.
LEMMA OwnedStartKill ==
  ASSUME OwnedInv, SameEvents, ~Reaching, ~Reaching', NEW j \in Reached,
         ~KillsNow, KillsNow', Hook(Call.i)' = hooks'[j],
         breakpoints' = breakpoints, breakpoint_count' = breakpoint_count,
         ~hooks'[j].enabled,
         \A k \in HookNumbers : k # j => hooks'[k].enabled = hooks[k].enabled
  PROVE  OwnedInv'
<1>1. /\ Reached' = Reached /\ HookNumbers' = HookNumbers
      /\ \A k \in HookNumbers : \A b :
           (hooks'[k].kind = "B" /\ hooks'[k].bp = b.num /\ hooks'[k].loc = b.loc) <=> Has(k, b)
      /\ \A k \in Reached : hooks'[k].bp = hooks[k].bp
      /\ (\A i, k \in Reached : hooks[i].bp = hooks[k].bp => i = k) =>
           \A i, k \in Reached : hooks'[i].bp = hooks'[k].bp => i = k
  BY SameOwners
<1>2. Reached \subseteq HookNumbers
  BY DEF Reached
<1>3. ASSUME NEW b \in breakpoints'
      PROVE  Dying(b)' \/ \E k \in HookNumbers' : hooks'[k].enabled /\ Has(k, b)'
  <2>1. PICK k \in HookNumbers : hooks[k].enabled /\ Has(k, b)
    BY DEF OwnedInv, Pending, Dying
  <2>2. CASE k = j
    BY <1>1, <2>1, <2>2 DEF Has, Dying
  <2>3. CASE k # j
    BY <1>1, <2>1, <2>3 DEF Has
  <2> QED BY <2>2, <2>3
<1>4. ASSUME NEW k \in Reached', hooks'[k].enabled
      PROVE  \E b \in breakpoints' : Has(k, b)'
  <2>1. k \in Reached /\ hooks[k].enabled
    BY <1>1, <1>2, <1>4
  <2>2. PICK b \in breakpoints : Has(k, b)
    BY <2>1 DEF OwnedInv
  <2>3. Has(k, b)'
    BY <1>1, <1>2, <2>1, <2>2 DEF Has
  <2> QED BY <2>3
<1>5. /\ \A i, k \in Reached' : hooks'[i].bp = hooks'[k].bp => i = k
      /\ \A k \in Reached' : hooks'[k].bp <= breakpoint_count'
  BY <1>1 DEF OwnedInv
<1> QED BY <1>3, <1>4, <1>5 DEF OwnedInv

\* Only the kill and the end of a one-shot hook delete breakpoints.
LEMMA DeletesKept ==
  ASSUME IInv, Next, ~(Reach \/ Kill), ~(BreakpointHookDone /\ ~Current.repeat)
  PROVE  breakpoints' = breakpoints
<1>1. CASE RestartFails \/ DriverClosed \/ FetchCrashes \/ ScanCrashes
          \/ DetachCrashes \/ ExpressionCrashes \/ AddHookCrashes \/ StoreCrashes
          \/ MalformedCrashes
  BY <1>1 DEF RestartFails, Die, Ends, LetGo, DriverClosed, FetchCrashes,
     ScanCrashes, DetachCrashes, ExpressionCrashes, AddHookCrashes, StoreCrashes,
     MalformedCrashes
<1>2. CASE StartEventLoop \/ GetRequest \/ NoRequest \/ Respond \/ SkipContinuous
          \/ FetchNothing \/ FetchBreakpoint \/ FetchExit \/ ContinueTarget
  BY <1>2 DEF StartEventLoop, GetRequest, NoRequest, Respond, Ends, LetGo,
     SkipContinuous, FetchNothing, FetchBreakpoint, Consume, FetchExit,
     ContinueTarget, Continue
<1>3. CASE EndScan \/ SkipHook \/ TimedHook \/ TimedHookStopped \/ TimedHookDone
          \/ BreakpointHook \/ BreakpointHookDone
  BY <1>3 DEF EndScan, SkipHook, Step, TimedHook, Run, Interrupt, TimedHookStopped,
     TimedHookDone, BreakpointHook, BreakpointHookDone, Delete
<1>4. CASE WaitForInferior \/ WaitForever \/ Detach \/ Quit \/ SetTarget
  BY <1>4 DEF WaitForInferior, Consume, WaitForever, Detach, KeepTarget,
     DetachTarget, LetGo, Quit, SetTarget
<1>5. CASE StartObservation \/ StartBreakpointCall \/ MeasureOK \/ GdbOK
          \/ ObservationFails
  BY <1>5 DEF StartObservation, Interrupt, StartBreakpointCall, MeasureOK, Leave,
     Continue, Untouched, GdbOK, ObservationFails
<1>6. CASE Delay \/ AddHook \/ Enable \/ Disable \/ StartKill
  BY <1>6 DEF Delay, AddHook, Enable, Toggle, Disable, StartKill, Interrupt
<1>7. CASE Store \/ Malformed \/ Evaluated
  BY <1>7 DEF Store, Malformed, Evaluated
<1>8. CASE HitBreakpoint \/ TakeInterrupt \/ TakeSignal \/ TargetExits \/ DriverGoes
  BY <1>8 DEF HitBreakpoint, Stop, At, TakeInterrupt, TakeSignal, TargetExits,
     DriverGoes
<1>9. CASE \E p \in Pids : UntracedEnds(p)
  BY <1>9 DEF UntracedEnds
<1>10. CASE \E r \in Requests : SendRequest(r)
  BY <1>10 DEF SendRequest
<1>11. CASE \E i \in 0 .. MaxHooks - 1 : ClockPasses(i)
  BY <1>11 DEF ClockPasses
<1> QED
  BY <1>1, <1>2, <1>3, <1>4, <1>5, <1>6, <1>7, <1>8, <1>9, <1>10, <1>11
     DEF Next, Thread, Loop, Hooks, API, Target, Driver, Clock

\* The hook that is added gets the breakpoint of the last result.
LEMMA OwnedAdd ==
  ASSUME IInv, NumberInv, ReachInv, HooksAreKept, OwnedInv, Awake, AddHook, CountInv,
         count' = Len(hooks')
  PROVE  OwnedInv'
<1>1. /\ pc = "eval" /\ calls # <<>> /\ Call.op = "hook" /\ val.type = "event"
      /\ val' = Void /\ pc' = "eval"
      /\ breakpoints' = breakpoints /\ breakpoint_count' = breakpoint_count
  BY DEF AddHook
<1>2. Len(hooks) \in Nat /\ count \in Int /\ MaxHooks \in Nat
  BY ScanTypes, BoundsAreNaturals DEF IInv, TypeOK, HookTypes
<1>3. ~Reaching' /\ ~KillsNow /\ ~KillsNow'
  BY <1>1 DEF Reaching, KillsNow, Void
<1>4. Reaching => inferior # NoPid /\ val.loc \notin BadLocs
  BY <1>1 DEF ReachInv
<1>5. CASE hooks' = hooks
  <2>1. ~Attached
    <3>1. \/ ~Attached
          \/ count = MaxHooks /\ count' \in {-1, MaxHooks + 1}
          \/ hooks' = Append(hooks, NewHook(val, Call.action))
      BY DEF AddHook
    <3> DEFINE h == NewHook(val, Call.action)
    <3>2. hooks' = Append(hooks, h) => Len(hooks') # Len(hooks)
      <4> HIDE DEF h
      <4> QED BY <1>2, ScanTypes
    <3> QED BY <1>2, <1>5, <3>1, <3>2 DEF CountInv
  <2>2. ~Reaching
    <3>1. Attached <=> inferior # NoPid
      BY <1>1 DEF IInv, ContextInv, ContextAgreesWithGdb, Awake
    <3> QED BY <1>4, <2>1, <3>1
  <2>3. SameEvents /\ \A k \in Reached : hooks'[k].enabled = hooks[k].enabled
    BY <1>5 DEF SameEvents
  <2>4. KillInv
    BY <1>3 DEF KillInv
  <2> QED BY <1>1, <1>3, <2>2, <2>3, <2>4, OwnedKept
<1>6. CASE hooks' # hooks
  <2> DEFINE n == Len(hooks) + 1
  <2>1. /\ Len(hooks') = n /\ n \notin HookNumbers /\ HookNumbers' = HookNumbers \cup {n}
        /\ \A k \in HookNumbers : hooks'[k] = hooks[k]
        /\ hooks'[n] = NewHook(val, Call.action)
    <3>1. /\ Len(hooks') = Len(hooks) + 1
          /\ \A k \in HookNumbers : hooks'[k] = hooks[k]
          /\ hooks'[Len(hooks) + 1] = NewHook(val, Call.action)
      BY <1>6, HookAdded
    <3> HIDE DEF Call
    <3> QED BY <1>2, <3>1 DEF HookNumbers
  <2> HIDE DEF n
  <2>2. /\ hooks'[n].kind = val.kind /\ hooks'[n].bp = val.bp /\ hooks'[n].loc = val.loc
        /\ hooks'[n].enabled
    BY <2>1 DEF NewHook
  <2>3. \A k : k \in Reached' <=> k \in Reached \/ (k = n /\ val.kind = "B")
    BY <2>1, <2>2 DEF Reached
  <2>4. \A k \in Reached : k \in HookNumbers
    BY DEF Reached
  <2>5. Reaching <=> val.kind = "B"
    BY <1>1 DEF Reaching
  <2>6. ASSUME NEW b \in breakpoints'
        PROVE  \E k \in HookNumbers' : hooks'[k].enabled /\ Has(k, b)'
    <3>1. CASE Pending(b)
      BY <2>1, <2>2, <3>1 DEF Pending, Reaching, Has
    <3>2. CASE ~Pending(b)
      <4>1. PICK k \in HookNumbers : hooks[k].enabled /\ Has(k, b)
        BY <1>1, <1>3, <3>2 DEF OwnedInv, Dying
      <4> QED BY <2>1, <4>1 DEF Has
    <3> QED BY <3>1, <3>2
  <2>7. ASSUME NEW k \in Reached', hooks'[k].enabled
        PROVE  \E b \in breakpoints' : Has(k, b)'
    <3>1. CASE k \in Reached
      <4>1. hooks[k].enabled /\ hooks'[k] = hooks[k]
        BY <2>1, <2>4, <2>7, <3>1
      <4>2. PICK b \in breakpoints : Has(k, b)
        BY <3>1, <4>1 DEF OwnedInv
      <4> QED BY <1>1, <4>1, <4>2 DEF Has
    <3>2. CASE k = n /\ Reaching
      <4>1. PICK b \in breakpoints : Pending(b)
        BY <1>4, <3>2 DEF OwnedInv
      <4> QED BY <1>1, <2>2, <2>5, <3>2, <4>1 DEF Pending, Has
    <3> QED BY <2>3, <2>5, <3>1, <3>2
  <2>8. ASSUME NEW j \in Reached', NEW k \in Reached', hooks'[j].bp = hooks'[k].bp
        PROVE  j = k
    <3>1. Reaching => \A i \in Reached : hooks[i].bp # val.bp
      BY <1>4 DEF OwnedInv
    <3>2. CASE j \in Reached /\ k \in Reached
      BY <2>1, <2>4, <2>8, <3>2 DEF OwnedInv
    <3>3. CASE j = n /\ Reaching /\ k \in Reached
      BY <2>1, <2>2, <2>4, <2>8, <3>1, <3>3
    <3>4. CASE k = n /\ Reaching /\ j \in Reached
      BY <2>1, <2>2, <2>4, <2>8, <3>1, <3>4
    <3> QED BY <2>3, <2>5, <3>2, <3>3, <3>4
  <2>9. ASSUME NEW k \in Reached' PROVE hooks'[k].bp <= breakpoint_count'
    <3>1. CASE k \in Reached
      BY <1>1, <2>1, <2>4, <3>1 DEF OwnedInv
    <3>2. CASE k = n /\ Reaching
      BY <1>1, <1>4, <2>2, <3>2 DEF NumberInv, Named
    <3> QED BY <2>3, <2>5, <3>1, <3>2
  <2> QED BY <1>3, <2>6, <2>7, <2>8, <2>9 DEF OwnedInv
<1> QED BY <1>5, <1>6

LEMMA MatchStep ==
  ASSUME IInv, OneShotInv, EventInv, HookInv, Next
  PROVE  MatchInv'
<1> SUFFICES ASSUME HooksAreKept, Awake', count' = Len(hooks')
             PROVE  OwnedInv'
  BY DEF MatchInv
<1> USE DEF EventInv, HookInv
<1>1. Len(hooks) \in Nat /\ hooks \in Seq(HookRecords) /\ cursor \in Nat
  BY ScanTypes
<1>2. count = Len(hooks)
  BY CountStep
<1>3. CASE StartEventLoop
  <2>1. /\ ~port /\ hooks' = hooks /\ breakpoints' = breakpoints /\ val' = val
    BY <1>3 DEF StartEventLoop
  <2>2. hooks = <<>> /\ breakpoints = {} /\ val = Void
    BY <2>1 DEF OneShotInv, NumberInv
  <2>3. ~Reaching' /\ HookNumbers' = {} /\ Reached' = {}
    BY <2>1, <2>2 DEF Reaching, Void, HookNumbers, Reached
  <2> QED BY <2>1, <2>2, <2>3 DEF OwnedInv
<1> SUFFICES ASSUME ~StartEventLoop PROVE OwnedInv'
  BY <1>3
<1>4. Awake /\ OwnedInv
  BY <1>2, AwakeBefore DEF MatchInv
<1>5. ~(Enable \/ Disable)
  <2>1. ASSUME pc = "eval", calls # <<>> PROVE Call.op \notin {"enable", "disable"}
    <3>1. calls \in Seq(Calls)
      BY DEF IInv, TypeOK, ThreadTypes
    <3>2. CASE InRequest
      <4>1. Plain(calls)
        BY <3>2 DEF ReachInv
      <4> QED BY <2>1, <3>1, <4>1, PlainRest
    <3>3. CASE InAction
      <4>1. Observing(calls)
        BY <3>3 DEF ObserveInv, HooksAreKept
      <4>2. Call.op \in Observers
        BY <2>1, <3>1, <4>1, ObservingRest
      <4> QED BY <4>2 DEF Observers
    <3> QED BY <2>1, <3>2, <3>3 DEF InRequest, InAction
  <2> QED BY <2>1 DEF Enable, Disable, Toggle
<1>6. CASE Reach
  BY <1>4, <1>6, OwnedReach
<1>7. CASE AddHook
  BY <1>4, <1>7, OwnedAdd
<1>8. Reaching => pc = "eval" /\ calls # <<>> /\ Call.op \in {"delay", "hook"}
  BY <1>4 DEF ReachInv
<1>9. CASE Kill
  <2>1. /\ pc = "body" /\ Call.op = "kill" /\ hooks' = hooks
        /\ breakpoints' = {b \in breakpoints : b.num # Hook(Call.i).bp}
        /\ breakpoint_count' = breakpoint_count /\ val' = Void
    BY <1>9 DEF Kill, Delete, Leave, Continue, Awake
  <2>2. KillsNow
    BY <2>1 DEF KillsNow
  <2> DEFINE j == Call.i + 1
  <2>3. j \in Reached /\ Hook(Call.i) = hooks[j] /\ ~hooks[j].enabled
    BY <2>2, KilledHook
  <2>4. SameEvents
    BY <2>1 DEF SameEvents
  <2>5. ~Reaching /\ ~Reaching'
    BY <1>8, <2>1 DEF Reaching, Void
  <2>6. breakpoints' = {b \in breakpoints : b.num # hooks[j].bp}
    BY <2>1, <2>3
  <2> HIDE DEF j
  <2> QED BY <1>4, <2>1, <2>3, <2>4, <2>5, <2>6, OwnedDelete
<1>10. CASE BreakpointHookDone /\ ~Current.repeat
  <2> DEFINE j == cursor + 1
  <2>1. /\ pc = "hookBDone" /\ hooks' = [hooks EXCEPT ![j].enabled = FALSE]
        /\ breakpoints' = {b \in breakpoints : b.num # Current.bp}
        /\ breakpoint_count' = breakpoint_count /\ val' = val
    BY <1>10 DEF BreakpointHookDone, Delete
  <2>2. Current = hooks[j]
    BY DEF Current, Hook
  <2>3. j \in Reached
    <3>1. IsHook(cursor) /\ Current.kind = "B"
      BY <2>1 DEF ActingInv, RunsFrom
    <3> QED BY <1>1, <2>2, <3>1 DEF IsHook, Reached, HookNumbers
  <2>4. ~Reaching /\ ~Reaching' /\ ~KillsNow
    BY <1>8, <2>1 DEF Reaching, KillsNow
  <2>5. FALSE \in BOOLEAN /\ j \in Int /\ j \in HookNumbers
    BY <1>1, <2>3 DEF Reached
  <2> HIDE DEF j
  <2>6. SameEvents /\ hooks'[j].enabled = FALSE
        /\ \A k \in HookNumbers : k # j => hooks'[k] = hooks[k]
    BY <1>1, <2>1, <2>5, OneHookWritten
  <2>7. breakpoints' = {b \in breakpoints : b.num # hooks[j].bp}
    BY <2>1, <2>2
  <2> QED BY <1>4, <2>1, <2>3, <2>4, <2>6, <2>7, OwnedDelete
<1>11. CASE StartKill /\ IsHook(Call.i)
  <2> DEFINE i == Call.i
             j == i + 1
  <2>1. /\ pc = "eval" /\ calls # <<>> /\ Call.op = "kill"
        /\ hooks' = [hooks EXCEPT ![j].enabled = FALSE] /\ Hook(i) = hooks[j]
        /\ breakpoints' = breakpoints /\ breakpoint_count' = breakpoint_count
        /\ \/ Hook(i).kind = "B" /\ pc' = "callWait" /\ calls' = calls /\ val' = val
           \/ Hook(i).kind # "B" /\ pc' = "eval" /\ val' = Void
    BY <1>11 DEF StartKill, Interrupt, Hook, Awake
  <2>2. ~Reaching /\ ~KillsNow /\ ~Reaching'
    BY <1>8, <2>1 DEF Reaching, KillsNow, Void
  <2>3. j \in HookNumbers /\ j \in Int /\ FALSE \in BOOLEAN
    <3>1. i \in 0 .. MaxHooks - 1
      BY <2>1, CallsTyped, CallsAreWellFormed DEF IInv, TypeOK, ThreadTypes
    <3>2. i < Len(hooks)
      BY <1>11 DEF IsHook
    <3> HIDE DEF i
    <3> QED BY <1>1, <3>1, <3>2, BoundsAreNaturals DEF HookNumbers
  <2>4. SameEvents /\ hooks'[j].enabled = FALSE
        /\ \A k \in HookNumbers : k # j => hooks'[k] = hooks[k]
    <3> HIDE DEF j
    <3> QED BY <1>1, <2>1, <2>3, OneHookWritten
  <2>5. CASE hooks[j].kind = "B"
    <3>1. KillsNow' /\ Hook(Call.i)' = hooks'[j]
      BY <2>1, <2>5 DEF KillsNow, Hook
    <3>2. j \in Reached
      BY <2>3, <2>5 DEF Reached
    <3> HIDE DEF j
    <3> QED BY <1>4, <2>1, <2>2, <2>4, <3>1, <3>2, OwnedStartKill
  <2>6. CASE hooks[j].kind # "B"
    <3> HIDE DEF j
    <3>1. \A k \in Reached : hooks'[k].enabled = hooks[k].enabled
      BY <2>4, <2>6 DEF Reached
    <3> QED BY <1>4, <2>1, <2>2, <2>4, <3>1, OwnedKept
  <2> QED BY <2>5, <2>6
<1>12. CASE /\ ~(Reach \/ AddHook \/ Kill)
            /\ ~(BreakpointHookDone /\ ~Current.repeat) /\ ~(StartKill /\ IsHook(Call.i))
  <2>1. SameEvents
    BY <1>12, EventsKept
  <2>2. \A k \in Reached : hooks'[k].enabled = hooks[k].enabled
    <3>1. CASE StartKill \/ BreakpointHookDone
      BY <1>12, <3>1 DEF StartKill, BreakpointHookDone
    <3> QED BY <1>5, <1>12, <3>1, EnabledKept
  <2>3. breakpoint_count' = breakpoint_count /\ (Reaching' => val' = val)
    BY <1>12, BreakpointsKept
  <2>4. breakpoints' = breakpoints
    BY <1>12, DeletesKept
  <2>5. Reaching /\ val.loc \notin BadLocs => val' = val
    BY <1>4, <1>12, PendingUsed
  <2>6. KillsNow => KillsNow' /\ calls' = calls
    BY <1>12, KillGoesOn
  <2> QED BY <1>4, <2>1, <2>2, <2>3, <2>4, <2>5, <2>6, OwnedKept
<1> QED BY <1>6, <1>7, <1>9, <1>10, <1>11, <1>12

\* Outside of the scan's own steps the scan stays where it is.
LEMMA ScanWaits ==
  ASSUME IInv, ActingInv, Next, (Handling \/ pc = "resume")', breaked' # 0,
         ~(FetchBreakpoint \/ EndScan \/ SkipHook \/ TimedHookDone \/ BreakpointHookDone),
         ~Begins, InAction => calls = <<>> \/ Call.op \in Observers
  PROVE  /\ Handling \/ pc = "resume"
         /\ breaked' = breaked /\ cursor' = cursor
         /\ \A k : ComesUp(k) => pc' = "hookT" \/ RunsFrom("hookTDone")'
                                 \/ (pc' = "hookB" /\ k > cursor)
                                 \/ (RunsFrom("hookBDone")' /\ k > cursor + 1)
<1> USE DEF Handling, InAction, ComesUp, RunsFrom, Begins
<1>1. /\ ret \in Afters
      /\ pc \in {"callWait", "body"} => calls # <<>>
      /\ pc \in {"callWait", "body"} => Call.op \in Stoppers
      /\ pc \in {"hookWait", "hookStopped"} => breaked = 0
  BY DEF IInv, TypeOK, ThreadTypes, StoppedInv, CallInv, ActingInv
<1>2. CASE RestartFails \/ DriverClosed \/ FetchCrashes \/ ScanCrashes
          \/ DetachCrashes \/ ExpressionCrashes \/ AddHookCrashes \/ StoreCrashes
          \/ MalformedCrashes
  BY <1>1, <1>2 DEF RestartFails, Die, Ends, LetGo, DriverClosed, FetchCrashes,
     ScanCrashes, DetachCrashes, ExpressionCrashes, AddHookCrashes, StoreCrashes,
     MalformedCrashes, Afters, Breakers, Stoppers, Observers, Ended
<1>3. CASE StartEventLoop \/ GetRequest \/ NoRequest \/ Respond \/ SkipContinuous
          \/ FetchNothing \/ FetchExit \/ ContinueTarget
  BY <1>1, <1>3 DEF StartEventLoop, GetRequest, NoRequest, Respond, Ends, LetGo,
     SkipContinuous, FetchNothing, FetchExit, Consume, ContinueTarget, Continue,
     Afters, Breakers, Stoppers, Observers, Ended
<1>4. CASE WaitForInferior \/ WaitForever \/ Detach \/ Quit \/ SetTarget
  BY <1>1, <1>4 DEF WaitForInferior, Consume, WaitForever, Detach, KeepTarget,
     DetachTarget, LetGo, Quit, SetTarget, Afters, Breakers, Stoppers, Observers,
     Ended
<1>5. CASE StartObservation \/ StartBreakpointCall \/ MeasureOK \/ GdbOK
          \/ ObservationFails \/ Reach
  BY <1>1, <1>5 DEF StartObservation, Interrupt, StartBreakpointCall, MeasureOK,
     Leave, Continue, Untouched, GdbOK, ObservationFails, Reach, Afters, Breakers,
     Stoppers, Observers, Ended
<1>6. CASE Delay \/ AddHook \/ Enable \/ Disable \/ StartKill \/ Kill
  BY <1>1, <1>6 DEF Delay, AddHook, Enable, Toggle, Disable, StartKill, Interrupt,
     Kill, Delete, Leave, Continue, Untouched, Afters, Breakers, Stoppers,
     Observers, Ended
<1>7. CASE Store \/ Malformed \/ Evaluated
  BY <1>1, <1>7 DEF Store, Malformed, Evaluated, Afters, Breakers, Stoppers,
     Observers, Ended
<1>8. CASE HitBreakpoint \/ TakeInterrupt \/ TakeSignal \/ TargetExits \/ DriverGoes
  BY <1>1, <1>8 DEF HitBreakpoint, Stop, At, TakeInterrupt, TakeSignal, TargetExits,
     DriverGoes, Afters, Breakers, Stoppers, Observers, Ended
<1>9. CASE \E p \in Pids : UntracedEnds(p)
  BY <1>1, <1>9 DEF UntracedEnds, Afters, Breakers, Stoppers, Observers, Ended
<1>10. CASE \E r \in Requests : SendRequest(r)
  BY <1>1, <1>10 DEF SendRequest, Afters, Breakers, Stoppers, Observers, Ended
<1>11. CASE \E i \in 0 .. MaxHooks - 1 : ClockPasses(i)
  BY <1>1, <1>11 DEF ClockPasses, Afters, Breakers, Stoppers, Observers, Ended
<1> QED
  BY <1>2, <1>3, <1>4, <1>5, <1>6, <1>7, <1>8, <1>9, <1>10, <1>11
     DEF Next, Thread, Loop, Hooks, API, Target, Driver, Clock

LEMMA CaughtStep ==
  ASSUME IInv, OneShotInv, EventInv, HookInv, Next
  PROVE  CaughtInv'
<1> SUFFICES ASSUME HooksAreKept, count' = Len(hooks'), (Handling \/ pc = "resume")',
                    breaked' # 0
             PROVE  \E k \in Reached' :
                      hooks'[k].bp = breaked' /\ (hooks'[k].fired > 0 \/ ComesUp(k)')
  BY DEF CaughtInv
<1> USE DEF EventInv, HookInv
<1>1. /\ hooks \in Seq(HookRecords) /\ Len(hooks) \in Nat /\ cursor \in Nat /\ ret \in Afters
      /\ \A k \in HookNumbers : k \in Int
  BY ScanTypes DEF HookNumbers
<1>2. count = Len(hooks)
  BY CountStep
<1>3. CASE FetchBreakpoint
  <2>1. /\ pc = "fetch" /\ pc' = "hookT" /\ hooks' = hooks
        /\ breaked' = FirstAt(event.loc) /\ event # NoEvent /\ event.kind = "breakpoint"
    BY <1>3 DEF FetchBreakpoint
  <2>2. Awake /\ ~KillsNow /\ ~Reaching
    BY <2>1 DEF Awake, Ended, KillsNow, ReachInv
  <2>3. PICK b \in breakpoints : b.num = breaked'
    <3>1. ~stopped /\ breakpoints \subseteq [num : Nat, loc : Places]
      BY <2>1 DEF IInv, StoppedInv, TypeOK, GdbTypes
    <3>2. \E b \in breakpoints : b.loc = event.loc
      BY <2>1, <3>1 DEF IInv, HitInv
    <3> QED BY <2>1, <3>1, <3>2, FirstAtIsThere
  <2>4. PICK k \in HookNumbers : hooks[k].enabled /\ Has(k, b)
    <3>1. OwnedInv
      BY <1>2, <2>2 DEF MatchInv
    <3> QED BY <2>2, <3>1 DEF OwnedInv, Pending, Dying
  <2>5. k \in Reached' /\ hooks'[k].bp = breaked' /\ ComesUp(k)'
    BY <2>1, <2>3, <2>4 DEF Has, Reached, HookNumbers, ComesUp
  <2> QED BY <2>5
<1> SUFFICES ASSUME ~FetchBreakpoint
             PROVE  \E k \in Reached' :
                      hooks'[k].bp = breaked' /\ (hooks'[k].fired > 0 \/ ComesUp(k)')
  BY <1>3
<1>4. InAction => calls = <<>> \/ Call.op \in Observers
  <2>1. InAction => Observing(calls)
    BY DEF ObserveInv, HooksAreKept
  <2> QED BY <2>1, ObservingRest DEF IInv, TypeOK, ThreadTypes
<1> DEFINE scans == EndScan \/ SkipHook \/ TimedHookDone \/ BreakpointHookDone
<1>5. CASE ~scans /\ ~Begins
  <2>1. /\ Handling \/ pc = "resume"
        /\ breaked' = breaked /\ cursor' = cursor
        /\ \A k : ComesUp(k) => pc' = "hookT" \/ RunsFrom("hookTDone")'
                                \/ (pc' = "hookB" /\ k > cursor)
                                \/ (RunsFrom("hookBDone")' /\ k > cursor + 1)
    BY <1>4, <1>5, ScanWaits
  <2>2. ~(AddHook \/ Enable \/ Disable \/ StartKill \/ BreakpointHookDone)
    <3>1. pc = "eval" => InAction
      BY <2>1 DEF Handling
    <3> QED BY <1>4, <1>5, <3>1 DEF AddHook, Enable, Disable, Toggle, StartKill, Observers
  <2>3. SameEvents /\ \A k \in Reached : hooks'[k].enabled = hooks[k].enabled
    BY <2>2, EventsKept, EnabledKept
  <2>4. PICK k \in Reached : hooks[k].bp = breaked /\ (hooks[k].fired > 0 \/ ComesUp(k))
    BY <1>2, <2>1 DEF CaughtInv
  <2>5. k \in Reached' /\ hooks'[k].bp = breaked'
    BY <2>1, <2>3, <2>4, SameOwners
  <2>6. hooks[k].fired > 0 => hooks'[k].fired > 0
    BY <2>3, <2>4 DEF SameEvents, Reached
  <2>7. ComesUp(k) => ComesUp(k)'
    BY <2>1, <2>3, <2>4 DEF ComesUp
  <2> QED BY <2>4, <2>5, <2>6, <2>7
<1> SUFFICES ASSUME scans \/ Begins
             PROVE  \E k \in Reached' :
                      hooks'[k].bp = breaked' /\ (hooks'[k].fired > 0 \/ ComesUp(k)')
  BY <1>5
<1>6. /\ breaked' = breaked /\ Handling /\ SameEvents
  <2>1. breaked' = breaked /\ ~AddHook /\ (Handling \/ pc = "hookStopped")
    BY DEF EndScan, SkipHook, TimedHookDone, BreakpointHookDone, Begins, TimedHook,
       TimedHookStopped, BreakpointHook, AddHook, Handling
  <2>2. pc # "hookStopped"
    BY <2>1 DEF ActingInv
  <2> QED BY <2>1, <2>2, EventsKept
<1>7. PICK k \in Reached : hooks[k].bp = breaked /\ (hooks[k].fired > 0 \/ ComesUp(k))
  BY <1>2, <1>6 DEF CaughtInv
<1>8. /\ k \in Reached' /\ hooks'[k].bp = breaked' /\ k \in HookNumbers /\ hooks[k].kind = "B"
      /\ hooks[k].fired > 0 => hooks'[k].fired > 0
  BY <1>6, <1>7, SameOwners DEF SameEvents, Reached
<1>9. k \in Int /\ 0 < k /\ k <= Len(hooks)
  BY <1>1, <1>8 DEF HookNumbers
<1> DEFINE j == cursor + 1
<1>10. Current = hooks[j] /\ j \in Int /\ (k = j => IsHook(cursor))
  BY <1>1, <1>9 DEF Current, Hook, IsHook
<1>11. CASE EndScan
  <2>1. /\ hooks' = hooks /\ cursor' = 0 /\ cursor >= count
        /\ (pc = "hookT" /\ pc' = "hookB") \/ (pc = "hookB" /\ pc' = "resume")
    BY <1>11 DEF EndScan
  <2>2. ComesUp(k) => pc = "hookT" /\ hooks[k].enabled
    BY <1>1, <1>2, <1>9, <2>1 DEF ComesUp, RunsFrom, InAction
  <2>3. ComesUp(k) => ComesUp(k)'
    BY <1>9, <2>1, <2>2 DEF ComesUp
  <2> QED BY <1>7, <1>8, <2>3
<1>12. CASE SkipHook
  <2>1. /\ hooks' = hooks /\ cursor' = cursor + 1 /\ pc' = pc /\ pc \in {"hookT", "hookB"}
        /\ pc = "hookB" => ~IsReached
    BY <1>12 DEF SkipHook, Step
  <2>2. ComesUp(k) => hooks[k].enabled /\ (pc = "hookB" => k > cursor)
    BY <2>1 DEF ComesUp, RunsFrom, InAction
  <2>3. pc = "hookB" /\ hooks[k].enabled => k # j
    BY <1>6, <1>7, <1>8, <1>10, <2>1 DEF IsReached
  <2>4. ComesUp(k) => ComesUp(k)'
    <3>1. pc = "hookB" /\ k > cursor /\ k # cursor + 1 => k > cursor + 1
      BY <1>1, <1>9
    <3> QED BY <2>1, <2>2, <2>3, <3>1 DEF ComesUp
  <2> QED BY <1>7, <1>8, <2>4
<1>13. CASE TimedHookDone
  <2>1. /\ pc = "hookTDone" /\ pc' = "hookT"
        /\ hooks' \in {hooks, [hooks EXCEPT ![j].enabled = FALSE], [hooks EXCEPT ![j].due = FALSE]}
    BY <1>13 DEF TimedHookDone
  <2>2. k # j
    BY <1>8, <1>10, <2>1 DEF ActingInv, RunsFrom
  <2>3. hooks'[k] = hooks[k]
    <3>1. FALSE \in BOOLEAN
      OBVIOUS
    <3> HIDE DEF j
    <3> QED BY <1>1, <1>8, <1>10, <2>1, <2>2, <3>1, OneHookWritten
  <2>4. ComesUp(k) => ComesUp(k)'
    BY <2>1, <2>3 DEF ComesUp
  <2> QED BY <1>7, <1>8, <2>4
<1>14. CASE BreakpointHookDone
  <2>1. /\ pc = "hookBDone" /\ pc' = "hookB" /\ cursor' = cursor + 1
        /\ hooks' \in {hooks, [hooks EXCEPT ![j].enabled = FALSE], [hooks EXCEPT ![j].due = FALSE]}
    BY <1>14 DEF BreakpointHookDone, Step
  <2>2. k = j => hooks[k].fired > 0
    BY <1>10, <2>1 DEF ActingInv, RunsFrom
  <2>3. k # j => hooks'[k] = hooks[k]
    <3>1. FALSE \in BOOLEAN
      OBVIOUS
    <3> HIDE DEF j
    <3> QED BY <1>1, <1>8, <1>10, <2>1, <3>1, OneHookWritten
  <2>4. ComesUp(k) => hooks[k].enabled /\ k > cursor + 1
    BY <2>1 DEF ComesUp, RunsFrom, InAction
  <2>5. ComesUp(k) /\ k # j => ComesUp(k)'
    BY <2>1, <2>3, <2>4 DEF ComesUp
  <2> QED BY <1>7, <1>8, <2>2, <2>5
<1>15. CASE TimedHook \/ TimedHookStopped
  <2>1. /\ pc = "hookT" /\ pc' = "eval" /\ ret' = "hookTDone" /\ hooks' = Marked(j)
    BY <1>6, <1>15 DEF TimedHook, TimedHookStopped, Handling, InAction, Run, Interrupt, Marked
  <2>2. hooks'[k].enabled = hooks[k].enabled
    <3>1. FALSE \in BOOLEAN
      OBVIOUS
    <3> HIDE DEF j
    <3> QED BY <1>1, <1>8, <1>10, <2>1, <3>1, OneHookWritten
  <2>3. ComesUp(k) => ComesUp(k)'
    BY <2>1, <2>2 DEF ComesUp, RunsFrom, InAction
  <2> QED BY <1>7, <1>8, <2>3
<1>16. CASE BreakpointHook
  <2>1. /\ pc = "hookB" /\ pc' = "eval" /\ ret' = "hookBDone" /\ hooks' = Marked(j)
        /\ cursor' = cursor
    BY <1>16 DEF BreakpointHook, Run, Marked
  <2>2. hooks'[k].enabled = hooks[k].enabled /\ (k = j => hooks'[k].fired > 0)
    <3>1. FALSE \in BOOLEAN
      OBVIOUS
    <3> HIDE DEF j
    <3> QED BY <1>1, <1>8, <1>10, <2>1, <3>1, OneHookWritten
  <2>3. ComesUp(k) => hooks[k].enabled /\ k > cursor
    BY <2>1 DEF ComesUp, RunsFrom, InAction
  <2>4. ComesUp(k) /\ k # j => ComesUp(k)'
    <3>1. ComesUp(k) /\ k # j => k > cursor + 1
      BY <1>1, <1>9, <2>3
    <3> QED BY <2>1, <2>2, <2>3, <3>1 DEF ComesUp, RunsFrom, InAction
  <2> QED BY <1>7, <1>8, <2>2, <2>4
<1> QED BY <1>11, <1>12, <1>13, <1>14, <1>15, <1>16 DEF Begins

\* The invariant of requests that add, kill and run hooks: every breakpoint of
\* gdb is an enabled hook's, the last result's, or the one a kill takes away,
\* and a hit that is handled comes to a hook of its number before the scan ends.
THEOREM HookInvariance == Spec => []HookInv
<1>1. Init => HookInv
  <2> SUFFICES ASSUME Init PROVE HookInv
    OBVIOUS
  <2>1. Plain(<<>>) /\ Len(<<>>) = 0
    BY DEF Plain, Paired
  <2> QED BY <2>1 DEF Init, HookInv, ReachInv, InRequest, Reaching, Void, KillInv, KillsNow,
     CountInv, MatchInv, Awake, CaughtInv, Handling, InAction
<1>2. IInv /\ OneShotInv /\ EventInv /\ HookInv /\ [Next]_vars => HookInv'
  <2> SUFFICES ASSUME IInv, OneShotInv, EventInv, HookInv, [Next]_vars PROVE HookInv'
    OBVIOUS
  <2>1. CASE Next
    <3>1. ReachInv'
      BY <2>1, ReachStep DEF EventInv, HookInv
    <3>2. KillInv'
      BY <2>1, KillStep DEF EventInv, HookInv
    <3>3. CountInv'
      BY <2>1, CountStep DEF HookInv
    <3> QED BY <2>1, <3>1, <3>2, <3>3, MatchStep, CaughtStep DEF HookInv
  <2>2. CASE UNCHANGED vars
    <3> USE <2>2 DEF vars
    <3>1. ReachInv'
      BY DEF HookInv, ReachInv, InRequest, Awake, Reaching
    <3>2. KillInv' /\ CountInv'
      BY DEF HookInv, KillInv, KillsNow, IsHook, Hook, CountInv
    <3>3. MatchInv'
      BY DEF HookInv, MatchInv, Awake, OwnedInv, Pending, Dying, KillsNow, Hook, Has, Reaching,
         Reached, HookNumbers
    <3>4. CaughtInv'
      BY DEF HookInv, CaughtInv, Handling, InAction, Reached, HookNumbers, ComesUp, RunsFrom
    <3> QED BY <3>1, <3>2, <3>3, <3>4 DEF HookInv
  <2> QED BY <2>1, <2>2
<1> QED BY <1>1, <1>2, Invariance, OneShotInvariance, EventInvariance, PTL DEF Spec

\* Whenever the loop polls, gdb's breakpoints are those of the enabled breakpoint
\* hooks, one each, for all requests that only add, kill and run hooks.
THEOREM BreakpointsBelongToHooks == Spec => []HooksMatchBreakpoints
<1>1. IInv /\ HookInv => HooksMatchBreakpoints
  <2> SUFFICES ASSUME IInv, HookInv, HooksAreKept, pc \in {"request", "fetch"},
                      count = Len(hooks)
               PROVE  LET live == {k \in Reached : hooks[k].enabled}
                      IN /\ breakpoints = {[num |-> hooks[k].bp, loc |-> hooks[k].loc] : k \in live}
                         /\ \A j, k \in Reached : hooks[j].bp = hooks[k].bp => j = k
    BY DEF HooksMatchBreakpoints
  <2> DEFINE of(k) == [num |-> hooks[k].bp, loc |-> hooks[k].loc]
  <2>1. ~Reaching /\ ~KillsNow /\ OwnedInv
    BY DEF HookInv, ReachInv, MatchInv, Awake, Ended, KillsNow
  <2>2. ASSUME NEW b \in breakpoints, NEW k, Has(k, b) PROVE b = of(k)
    <3>1. b \in [num : Nat, loc : Places]
      BY DEF IInv, TypeOK, GdbTypes
    <3> QED BY <2>2, <3>1 DEF Has
  <2>3. ASSUME NEW b \in breakpoints
        PROVE  \E k \in Reached : hooks[k].enabled /\ b = of(k)
    <3>1. PICK k \in HookNumbers : hooks[k].enabled /\ Has(k, b)
      BY <2>1 DEF OwnedInv, Pending, Dying
    <3>2. k \in Reached
      BY <3>1 DEF Reached, Has
    <3> QED BY <2>2, <3>1, <3>2
  <2>4. ASSUME NEW k \in Reached, hooks[k].enabled
        PROVE  of(k) \in breakpoints
    <3>1. PICK b \in breakpoints : Has(k, b)
      BY <2>1, <2>4 DEF OwnedInv
    <3> QED BY <2>2, <3>1
  <2>5. \A j, k \in Reached : hooks[j].bp = hooks[k].bp => j = k
    BY <2>1 DEF OwnedInv
  <2> HIDE DEF of
  <2>6. breakpoints = {of(k) : k \in {i \in Reached : hooks[i].enabled}}
    BY <2>3, <2>4
  <2> QED BY <2>5, <2>6 DEF of
<1> QED BY <1>1, Invariance, HookInvariance, PTL

\* A breakpoint hit that the loop fetches runs a hook of its number before the
\* target goes on, wherever the hook is in the array and whatever hooks ran first.
THEOREM CaughtHitsAreHandled == Spec => []CaughtHitsRunAHook
<1>1. HookInv => CaughtHitsRunAHook
  <2> SUFFICES ASSUME HookInv, HooksAreKept, count = Len(hooks), pc = "resume", breaked # 0
               PROVE  \E k \in Reached : hooks[k].bp = breaked /\ hooks[k].fired > 0
    BY DEF CaughtHitsRunAHook
  <2>1. PICK k \in Reached : hooks[k].bp = breaked /\ (hooks[k].fired > 0 \/ ComesUp(k))
    BY DEF HookInv, CaughtInv
  <2>2. ~ComesUp(k)
    BY DEF ComesUp, RunsFrom, InAction
  <2> QED BY <2>1, <2>2
<1> QED BY <1>1, HookInvariance, PTL

-----------------------------------------------------------------------------
(* What the measurer crashes of.                                           *)

\* A stop that the kernel holds says what became of the target: an exit that it
\* is gone, a signal that it has signals or an int3 that was left in it.  And
\* NULL is the last result only where there is no target.
CauseInv ==
  /\ Len(hooks) <= MaxHooks /\ (count = Len(hooks) \/ Overfull)
  /\ event # NoEvent /\ event.kind = "exit" => inferior \notin alive
  /\ event # NoEvent /\ event.kind = "signal" => Signals \/ stale[inferior] # {}
  /\ pc = "eval" /\ val = Null => ~Attached

\* A reported stop stays true of the target until gdb has waited for it.
LEMMA StopCauseStep ==
  ASSUME IInv, Next, CauseInv
  PROVE  event' # NoEvent =>
           /\ event'.kind = "exit" => inferior' \notin alive'
           /\ event'.kind = "signal" => Signals \/ stale'[inferior'] # {}
<1> USE DEF CauseInv
<1>1. CASE event' = NoEvent
  BY <1>1
<1>2. CASE HitBreakpoint \/ TakeInterrupt \/ TakeSignal \/ TargetExits
  BY <1>2 DEF HitBreakpoint, TakeInterrupt, TakeSignal, TargetExits, Stop, At
<1>3. CASE event' = event /\ inferior' = inferior /\ alive' \subseteq alive /\ stale' = stale
  BY <1>3
<1>4. CASE Loop
  BY <1>1, <1>3, <1>4 DEF Loop, StartEventLoop, RestartFails, GetRequest, NoRequest,
     DriverClosed, Respond, SkipContinuous, FetchNothing, FetchBreakpoint, FetchExit,
     FetchCrashes, ContinueTarget, Continue, Consume, Die, Ends, LetGo
<1>5. CASE Hooks
  BY <1>1, <1>3, <1>5 DEF Hooks, ScanCrashes, EndScan, SkipHook, TimedHook, TimedHookStopped,
     TimedHookDone, BreakpointHook, BreakpointHookDone, Run, Interrupt, Step, Delete, Die,
     Ends, LetGo
<1>6. CASE WaitForInferior \/ WaitForever \/ Detach \/ Quit \/ SetTarget \/ DetachCrashes
  BY <1>1, <1>3, <1>6 DEF WaitForInferior, WaitForever, Consume, Detach, Quit, SetTarget,
     DetachCrashes, KeepTarget, DetachTarget, Die, Ends, LetGo
<1>7. CASE StartObservation \/ StartBreakpointCall \/ MeasureOK \/ GdbOK \/ ObservationFails
           \/ ExpressionCrashes \/ Reach \/ Delay
  BY <1>1, <1>3, <1>7 DEF StartObservation, StartBreakpointCall, Interrupt, MeasureOK, GdbOK,
     ObservationFails, ExpressionCrashes, Reach, Delay, Leave, Continue, Untouched, Die, Ends, LetGo
<1>8. CASE AddHook \/ AddHookCrashes \/ Enable \/ Disable \/ StartKill \/ Kill
           \/ Store \/ StoreCrashes \/ Malformed \/ MalformedCrashes \/ Evaluated
  BY <1>1, <1>3, <1>8 DEF AddHook, AddHookCrashes, Enable, Disable, Toggle, StartKill, Interrupt,
     Kill, Delete, Leave, Continue, Untouched, Store, StoreCrashes, Malformed,
     MalformedCrashes, Evaluated, Die, Ends, LetGo
<1>9. CASE \E p \in Pids : UntracedEnds(p)
  BY <1>3, <1>9 DEF UntracedEnds
<1>10. CASE Driver
  BY <1>3, <1>10 DEF Driver, DriverGoes, SendRequest
<1>11. CASE Clock
  BY <1>3, <1>11 DEF Clock, ClockPasses
<1> QED
  BY <1>2, <1>4, <1>5, <1>6, <1>7, <1>8, <1>9, <1>10, <1>11 DEF Next, Thread, API, Target

\* Only a measure without a target returns NULL, and the next call takes its place.
LEMMA NullStep ==
  ASSUME IInv, Next, CauseInv
  PROVE  pc' = "eval" /\ val' = Null => ~Attached'
<1> USE DEF CauseInv, Attached, Null, Void, Taken
<1>1. CASE pc' = pc /\ val' = val /\ attached' = attached /\ exited' = exited
  BY <1>1
<1>2. CASE pc' # "eval"
  BY <1>2
<1>3. CASE Loop
  BY <1>1, <1>2, <1>3 DEF Loop, StartEventLoop, RestartFails, GetRequest, NoRequest,
     DriverClosed, Respond, SkipContinuous, FetchNothing, FetchBreakpoint, FetchExit,
     FetchCrashes, ContinueTarget, Continue, Consume, Die, Ends, LetGo
<1>4. CASE Hooks
  BY <1>1, <1>2, <1>4 DEF Hooks, ScanCrashes, EndScan, SkipHook, TimedHook, TimedHookStopped,
     TimedHookDone, BreakpointHook, BreakpointHookDone, Run, Interrupt, Step, Die, Ends
<1>5. CASE WaitForInferior \/ WaitForever \/ Detach \/ Quit \/ SetTarget \/ DetachCrashes
  BY <1>1, <1>2, <1>5 DEF WaitForInferior, WaitForever, Detach, Quit, SetTarget,
     DetachCrashes, Die, Ends
<1>6. CASE StartObservation \/ StartBreakpointCall
  BY <1>1, <1>2, <1>6 DEF StartObservation, StartBreakpointCall, Interrupt
<1>7. CASE MeasureOK \/ GdbOK \/ ObservationFails \/ ExpressionCrashes \/ Reach \/ Delay \/ Kill
  BY <1>1, <1>2, <1>7 DEF MeasureOK, GdbOK, ObservationFails, ExpressionCrashes, Reach, Delay,
     Kill, Leave, Continue, Die, Ends
<1>8. CASE AddHook \/ AddHookCrashes \/ Enable \/ Disable \/ StartKill
           \/ Store \/ StoreCrashes \/ Malformed \/ MalformedCrashes \/ Evaluated
  BY <1>1, <1>2, <1>8 DEF AddHook, AddHookCrashes, Enable, Disable, Toggle, StartKill,
     Interrupt, Store, StoreCrashes, Malformed, MalformedCrashes, Evaluated, Die, Ends
<1>9. CASE Target
  BY <1>1, <1>9 DEF Target, HitBreakpoint, TakeInterrupt, TakeSignal, TargetExits, Stop,
     UntracedEnds
<1>10. CASE Driver
  BY <1>1, <1>10 DEF Driver, DriverGoes, SendRequest
<1>11. CASE Clock
  BY <1>1, <1>11 DEF Clock, ClockPasses
<1> QED
  BY <1>3, <1>4, <1>5, <1>6, <1>7, <1>8, <1>9, <1>10, <1>11 DEF Next, Thread, API

\* The count stays the number of hooks, and leaves it only at a full array.
LEMMA FullStep ==
  ASSUME IInv, Next, CauseInv
  PROVE  Len(hooks') <= MaxHooks /\ (count' = Len(hooks') \/ Overfull')
<1>1. Len(hooks) \in Nat /\ count \in Int /\ MaxHooks \in Nat
  BY ScanTypes, BoundsAreNaturals DEF IInv, TypeOK, HookTypes
<1>2. CASE ~AddHook
  BY <1>2, CountKept, EventsKept DEF CauseInv, Overfull, SameEvents
<1>3. CASE AddHook
  <2>1. \/ hooks' = hooks /\ count' = count
        \/ /\ count' = count + 1 /\ count \in 0 .. MaxHooks - 1
           /\ hooks' = Append(hooks, NewHook(val, Call.action))
        \/ hooks' = hooks /\ count = MaxHooks /\ count' \in {-1, MaxHooks + 1}
    BY <1>3 DEF AddHook
  <2>2. hooks' = Append(hooks, NewHook(val, Call.action)) => Len(hooks') = Len(hooks) + 1
    <3> DEFINE h == NewHook(val, Call.action)
    <3>1. ASSUME hooks' = Append(hooks, h) PROVE Len(hooks') = Len(hooks) + 1
      <4> HIDE DEF h
      <4> QED BY <3>1, ScanTypes
    <3> QED BY <3>1
  <2> HIDE DEF Call
  <2> QED BY <1>1, <2>1, <2>2 DEF CauseInv, Overfull
<1> QED BY <1>2, <1>3

\* Each way to crash has its cause in the state before.
LEMMA CrashStep ==
  ASSUME IInv, CauseInv, Next, pc' = "crashed", pc # "crashed"
  PROVE  \/ pc \in {"eval", "body"} /\ CallMayCrash
         \/ pc \in {"hookT", "hookB"} /\ Overfull
         \/ pc = "fetch" /\ (lost \/ Signals \/ stale[inferior] # {})
<1>1. Len(hooks) \in Nat /\ count \in Int /\ MaxHooks \in Nat /\ cursor \in Nat
  BY ScanTypes, BoundsAreNaturals DEF IInv, TypeOK, HookTypes
<1>2. CASE DetachCrashes
  <2>1. inferior # NoPid /\ Attached /\ inferior = PID
    BY <1>2 DEF DetachCrashes, ExitPending, IInv, TraceInv, ContextInv, ContextAgreesWithGdb,
       Awake, Ended
  <2> QED BY <1>2, <2>1 DEF DetachCrashes, ExitPending, CauseInv, CallMayCrash
<1>3. CASE ExpressionCrashes
  <2>1. /\ pc = "body"
        /\ \/ Call.op = "measure" /\ Call.feature = "mem"
           \/ Call.op = "gdb" /\ ~Call.ok
    BY <1>3 DEF ExpressionCrashes
  <2> QED BY <2>1 DEF CallMayCrash
<1>4. CASE AddHookCrashes
  <2>1. Call.op = "hook" /\ pc = "eval" /\ count \notin 0 .. MaxHooks
    BY <1>4 DEF AddHookCrashes
  <2>2. Overfull
    BY <1>1, <2>1 DEF CauseInv, Overfull
  <2> QED BY <2>1, <2>2 DEF CallMayCrash
<1>5. CASE StoreCrashes
  BY <1>5 DEF StoreCrashes, CauseInv, CallMayCrash
<1>6. CASE MalformedCrashes
  BY <1>6 DEF MalformedCrashes, CallMayCrash
<1>7. CASE ScanCrashes
  BY <1>1, <1>7 DEF ScanCrashes, IsHook, CauseInv
<1>8. CASE FetchCrashes
  BY <1>8 DEF FetchCrashes, CauseInv, IInv, InterruptInv, StrayInterruptNeedsLostStop, Waiting
<1>9. Next => DetachCrashes \/ ExpressionCrashes \/ AddHookCrashes \/ StoreCrashes
                \/ MalformedCrashes \/ ScanCrashes \/ FetchCrashes
  <2>1. CASE Loop
    BY <2>1 DEF Loop, StartEventLoop, RestartFails, GetRequest, NoRequest,
       DriverClosed, Respond, SkipContinuous, FetchNothing, FetchBreakpoint, FetchExit,
       ContinueTarget, Continue, Die, Ends
  <2>2. CASE Hooks
    BY <2>2 DEF Hooks, EndScan, SkipHook, TimedHook, TimedHookStopped,
       TimedHookDone, BreakpointHook, BreakpointHookDone, Run, Interrupt
  <2>3. CASE WaitForInferior \/ WaitForever \/ Detach \/ Quit \/ SetTarget
             \/ StartObservation \/ StartBreakpointCall \/ MeasureOK \/ GdbOK \/ ObservationFails
    BY <2>3 DEF WaitForInferior, WaitForever, Detach, Quit, SetTarget, StartObservation,
       StartBreakpointCall, Interrupt, MeasureOK, GdbOK, ObservationFails, Leave, Continue
  <2>4. CASE Reach \/ Delay \/ AddHook \/ Enable \/ Disable \/ StartKill \/ Kill \/ Store
             \/ Malformed \/ Evaluated
    <3>1. Evaluated => ret \in Afters
      BY ScanTypes
    <3> QED BY <2>4, <3>1 DEF Reach, Delay, AddHook, Enable, Disable, Toggle, StartKill, Interrupt,
       Kill, Leave, Continue, Store, Malformed, Evaluated, Afters
  <2>5. CASE Target \/ Driver \/ Clock
    BY <2>5 DEF Target, HitBreakpoint, TakeInterrupt, TakeSignal, TargetExits, Stop,
       UntracedEnds, Driver, DriverGoes, SendRequest, Clock, ClockPasses
  <2> QED BY <2>1, <2>2, <2>3, <2>4, <2>5 DEF Next, Thread, API
<1> QED BY <1>2, <1>3, <1>4, <1>5, <1>6, <1>7, <1>8, <1>9

\* The measurer crashes only at a detach from a process that has ended, at what
\* gdb or the RLI could not parse, a store of NULL, with more hooks than fit, or at
\* a stop without a bpstat, which only signals, left traps and lost stops bring.
THEOREM CrashesHaveCauses == Spec => CrashesNeedACause
<1>1. Init => CauseInv
  <2>1. Len(<<>>) = 0 /\ Void # Null
    BY DEF Void, Null
  <2> QED BY <2>1, BoundsAreNaturals DEF Init, CauseInv
<1>2. IInv /\ CauseInv /\ [Next]_vars => CauseInv'
  <2> SUFFICES ASSUME IInv, CauseInv, [Next]_vars PROVE CauseInv'
    OBVIOUS
  <2>1. CASE Next
    BY <2>1, StopCauseStep, NullStep, FullStep DEF CauseInv
  <2>2. CASE UNCHANGED vars
    BY <2>2 DEF vars, CauseInv, Overfull, Attached
  <2> QED BY <2>1, <2>2
<1>3. Spec => []CauseInv
  BY <1>1, <1>2, Invariance, PTL DEF Spec
<1>4. IInv /\ CauseInv /\ [Next]_vars =>
        [pc' = "crashed" /\ pc # "crashed" =>
           \/ pc \in {"eval", "body"} /\ CallMayCrash
           \/ pc \in {"hookT", "hookB"} /\ Overfull
           \/ pc = "fetch" /\ (lost \/ Signals \/ stale[inferior] # {})]_vars
  BY CrashStep
<1> QED BY <1>3, <1>4, Invariance, PTL DEF Spec, CrashesNeedACause

-----------------------------------------------------------------------------
(* The hooks implement HookService.                                        *)

\* A timed hook that was found due is still due and enabled after the wait.
WaitInv == pc \in {"hookWait", "hookStopped"} => Current.enabled /\ Current.due

LEMMA WaitStep ==
  ASSUME IInv, WaitInv, Next
  PROVE  WaitInv'
<1>1. /\ ret \in Afters /\ cursor + 1 \in Int /\ hooks \in Seq(HookRecords)
      /\ pc \in {"hookWait", "hookStopped"} => cursor + 1 \in HookNumbers
  BY ScanTypes DEF IInv, ScanInv, IsHook, HookNumbers
<1> DEFINE waits == pc \in {"hookWait", "hookStopped"}
           kept == waits' => waits /\ cursor' = cursor /\ hooks' = hooks
<1>2. kept => WaitInv'
  BY DEF WaitInv, Current, Hook
<1>3. CASE RestartFails \/ DriverClosed \/ FetchCrashes \/ ScanCrashes
          \/ DetachCrashes \/ ExpressionCrashes \/ AddHookCrashes \/ StoreCrashes
          \/ MalformedCrashes
  BY <1>1, <1>2, <1>3 DEF RestartFails, Die, Ends, LetGo, DriverClosed,
     FetchCrashes, ScanCrashes, DetachCrashes, ExpressionCrashes, AddHookCrashes,
     StoreCrashes, MalformedCrashes, Afters, Ended
<1>4. CASE StartEventLoop \/ GetRequest \/ NoRequest \/ Respond \/ SkipContinuous
          \/ FetchNothing \/ FetchBreakpoint \/ FetchExit \/ ContinueTarget
  BY <1>1, <1>2, <1>4 DEF StartEventLoop, GetRequest, NoRequest, Respond, Ends,
     LetGo, SkipContinuous, FetchNothing, FetchBreakpoint, Consume, FetchExit,
     ContinueTarget, Continue, Afters, Ended
<1>5. CASE EndScan \/ SkipHook \/ TimedHookStopped \/ TimedHookDone
          \/ BreakpointHook \/ BreakpointHookDone
  BY <1>1, <1>2, <1>5 DEF EndScan, SkipHook, Step, TimedHookStopped, Run,
     TimedHookDone, BreakpointHook, BreakpointHookDone, Delete, Afters, Ended
<1>6. CASE WaitForInferior \/ WaitForever \/ Detach \/ Quit \/ SetTarget
  BY <1>1, <1>2, <1>6 DEF WaitForInferior, Consume, WaitForever, Detach, KeepTarget,
     DetachTarget, LetGo, Quit, SetTarget, Afters, Ended
<1>7. CASE StartObservation \/ StartBreakpointCall \/ MeasureOK \/ GdbOK
          \/ ObservationFails \/ Reach
  BY <1>1, <1>2, <1>7 DEF StartObservation, Interrupt, StartBreakpointCall,
     MeasureOK, Leave, Continue, Untouched, GdbOK, ObservationFails, Reach, Afters,
     Ended
<1>8. CASE Delay \/ AddHook \/ Enable \/ Disable \/ StartKill \/ Kill
  BY <1>1, <1>2, <1>8 DEF Delay, AddHook, Enable, Toggle, Disable, StartKill,
     Interrupt, Kill, Delete, Leave, Continue, Untouched, Afters, Ended
<1>9. CASE Store \/ Malformed \/ Evaluated
  BY <1>1, <1>2, <1>9 DEF Store, Malformed, Evaluated, Afters, Ended
<1>10. CASE HitBreakpoint \/ TakeInterrupt \/ TakeSignal \/ TargetExits
           \/ DriverGoes
  BY <1>1, <1>2, <1>10 DEF HitBreakpoint, Stop, At, TakeInterrupt, TakeSignal,
     TargetExits, DriverGoes, Afters, Ended
<1>11. CASE \E p \in Pids : UntracedEnds(p)
  BY <1>1, <1>2, <1>11 DEF UntracedEnds, Afters, Ended
<1>12. CASE \E r \in Requests : SendRequest(r)
  BY <1>1, <1>2, <1>12 DEF SendRequest, Afters, Ended
<1>13. CASE TimedHook
  <2>1. waits' => hooks' = hooks /\ cursor' = cursor /\ Current.enabled /\ Current.due
    BY <1>13 DEF TimedHook, TimeIsUp, Run, Interrupt
  <2> QED BY <2>1 DEF WaitInv, Current, Hook
<1>14. CASE \E i \in 0 .. MaxHooks - 1 : ClockPasses(i)
  <2>1. PICK i \in 0 .. MaxHooks - 1 : ClockPasses(i)
    BY <1>14
  <2> DEFINE j == cursor + 1
             m == i + 1
  <2>2. /\ m \in Int /\ hooks' = [hooks EXCEPT ![m].due = TRUE] /\ pc' = pc /\ cursor' = cursor
    BY <2>1, BoundsAreNaturals DEF ClockPasses
  <2>3. ASSUME waits
        PROVE  hooks'[j].enabled /\ hooks'[j].due
    <3>1. j \in HookNumbers /\ hooks[j].enabled /\ hooks[j].due
      BY <1>1, <2>3 DEF WaitInv, Current, Hook
    <3>2. TRUE \in BOOLEAN /\ hooks[j] \in HookRecords
      BY <1>1, <3>1 DEF HookNumbers
    <3> HIDE DEF j, m
    <3>3. /\ \A k \in HookNumbers : k # m => hooks'[k] = hooks[k]
          /\ \A k \in HookNumbers : hooks'[k].enabled = hooks[k].enabled
      BY <1>1, <2>2, <3>2, OneHookWritten
    <3>4. j = m => hooks'[j] = [hooks[j] EXCEPT !.due = TRUE]
      <4>1. DOMAIN hooks = HookNumbers
        BY <1>1 DEF HookNumbers
      <4> QED BY <2>2, <3>1, <4>1
    <3>5. [hooks[j] EXCEPT !.due = TRUE].due
      BY <3>2 DEF HookRecords
    <3> QED BY <3>1, <3>3, <3>4, <3>5
  <2> QED BY <2>2, <2>3 DEF WaitInv, Current, Hook
<1> QED
  BY <1>3, <1>4, <1>5, <1>6, <1>7, <1>8, <1>9, <1>10, <1>11, <1>12, <1>13,
     <1>14
     DEF Next, Thread, Loop, Hooks, API, Target, Driver, Clock

\* The hooks that the service is told of are the array's.
LEMMA BookTypes ==
  ASSUME hooks \in Seq(HookRecords)
  PROVE  /\ DOMAIN Book = HookNumbers /\ Len(Book) = Len(hooks)
         /\ \A S : (\A k \in HookNumbers : Entry(hooks[k]) \in S) => Book \in Seq(S)
<1>1. Len(hooks) \in Nat
  OBVIOUS
<1>2. ASSUME NEW S, \A k \in HookNumbers : Entry(hooks[k]) \in S
      PROVE  Book \in Seq(S) /\ Len(Book) = Len(hooks)
  <2>1. Book \in [1 .. Len(hooks) -> S]
    BY <1>2 DEF Book, HookNumbers
  <2>2. Book \in Seq(S)
    BY <1>1, <2>1, SeqDef
  <2>3. DOMAIN Book = 1 .. Len(hooks) /\ DOMAIN Book = 1 .. Len(Book) /\ Len(Book) \in Nat
    BY <2>1, <2>2, LenProperties
  <2> QED BY <1>1, <2>2, <2>3
<1>3. \A k \in HookNumbers : Entry(hooks[k]) \in {Entry(hooks[i]) : i \in HookNumbers}
  OBVIOUS
<1>4. Len(Book) = Len(hooks)
  BY <1>2, <1>3
<1> QED BY <1>2, <1>4 DEF Book

LEMMA BookWritten ==
  ASSUME hooks \in Seq(HookRecords), NEW j \in HookNumbers, NEW b \in BOOLEAN
  PROVE  /\ hooks' = [hooks EXCEPT ![j].enabled = b] => Book' = [Book EXCEPT ![j].on = b]
         /\ hooks' = [hooks EXCEPT ![j].due = b] => Book' = [Book EXCEPT ![j].due = b]
         /\ hooks' = Marked(j) => Book' = [Book EXCEPT ![j].used = TRUE]
<1>1. Len(hooks) \in Nat /\ \A k \in HookNumbers : hooks[k] \in HookRecords
  BY DEF HookNumbers
<1> DEFINE f(h) == [h EXCEPT !.fired = IF @ < 2 THEN @ + 1 ELSE @]
<1>2. ASSUME NEW h \in HookRecords
      PROVE  /\ Entry([h EXCEPT !.enabled = b]) = [Entry(h) EXCEPT !.on = b]
             /\ Entry([h EXCEPT !.due = b]) = [Entry(h) EXCEPT !.due = b]
             /\ Entry(f(h)) = [Entry(h) EXCEPT !.used = TRUE]
  <2> DEFINE fields(g) == /\ g.kind = h.kind /\ g.loc = h.loc /\ g.repeat = h.repeat
  <2>1. fields([h EXCEPT !.enabled = b]) /\ [h EXCEPT !.enabled = b].enabled = b
        /\ [h EXCEPT !.enabled = b].due = h.due /\ [h EXCEPT !.enabled = b].fired = h.fired
    BY <1>2 DEF HookRecords
  <2>2. fields([h EXCEPT !.due = b]) /\ [h EXCEPT !.due = b].due = b
        /\ [h EXCEPT !.due = b].enabled = h.enabled /\ [h EXCEPT !.due = b].fired = h.fired
    BY <1>2 DEF HookRecords
  <2>3. fields(f(h)) /\ f(h).enabled = h.enabled /\ f(h).due = h.due
        /\ (f(h).fired > 0) = TRUE
    BY <1>2 DEF HookRecords
  <2> HIDE DEF f
  <2>4. Entry([h EXCEPT !.enabled = b]) = [Entry(h) EXCEPT !.on = b]
    BY <2>1 DEF Entry
  <2>5. Entry([h EXCEPT !.due = b]) = [Entry(h) EXCEPT !.due = b]
    BY <2>2 DEF Entry
  <2>6. Entry(f(h)) = [Entry(h) EXCEPT !.used = TRUE]
    <3> DEFINE e == [kind |-> h.kind, loc |-> h.loc, repeat |-> h.repeat, on |-> h.enabled,
                     due |-> h.due, used |-> TRUE]
    <3>1. Entry(f(h)) = e
      BY <2>3, Zenon DEF Entry
    <3>2. [Entry(h) EXCEPT !.used = TRUE] = e
      <4>1. \A c \in BOOLEAN : [Entry(h) EXCEPT !.used = c] =
              [kind |-> h.kind, loc |-> h.loc, repeat |-> h.repeat, on |-> h.enabled,
               due |-> h.due, used |-> c]
        BY DEF Entry
      <4> QED BY <4>1, Zenon
    <3> QED BY <3>1, <3>2
  <2> QED BY <2>4, <2>5, <2>6
<1> HIDE DEF f
<1>3. ASSUME hooks' = [hooks EXCEPT ![j].enabled = b]
      PROVE  Book' = [Book EXCEPT ![j].on = b]
  <2>1. HookNumbers' = HookNumbers
    BY <1>1, <1>3 DEF HookNumbers
  <2>2. \A k \in HookNumbers :
          hooks'[k] = IF k = j THEN [hooks[k] EXCEPT !.enabled = b] ELSE hooks[k]
    BY <1>1, <1>3 DEF HookNumbers
  <2>3. \A k \in HookNumbers :
          Entry(hooks'[k]) = IF k = j THEN [Entry(hooks[k]) EXCEPT !.on = b] ELSE Entry(hooks[k])
    BY <1>1, <1>2, <2>2
  <2> QED BY <2>1, <2>3 DEF Book
<1>4. ASSUME hooks' = [hooks EXCEPT ![j].due = b]
      PROVE  Book' = [Book EXCEPT ![j].due = b]
  <2>1. HookNumbers' = HookNumbers
    BY <1>1, <1>4 DEF HookNumbers
  <2>2. \A k \in HookNumbers :
          hooks'[k] = IF k = j THEN [hooks[k] EXCEPT !.due = b] ELSE hooks[k]
    BY <1>1, <1>4 DEF HookNumbers
  <2>3. \A k \in HookNumbers :
          Entry(hooks'[k]) = IF k = j THEN [Entry(hooks[k]) EXCEPT !.due = b] ELSE Entry(hooks[k])
    BY <1>1, <1>2, <2>2
  <2> QED BY <2>1, <2>3 DEF Book
<1>5. ASSUME hooks' = Marked(j)
      PROVE  Book' = [Book EXCEPT ![j].used = TRUE]
  <2>1. HookNumbers' = HookNumbers
    BY <1>1, <1>5 DEF HookNumbers, Marked
  <2>2. \A k \in HookNumbers : hooks'[k] = IF k = j THEN f(hooks[k]) ELSE hooks[k]
    BY <1>1, <1>5 DEF HookNumbers, Marked, f
  <2>3. \A k \in HookNumbers :
          Entry(hooks'[k]) = IF k = j THEN [Entry(hooks[k]) EXCEPT !.used = TRUE]
                             ELSE Entry(hooks[k])
    BY <1>1, <1>2, <2>2
  <2> QED BY <2>1, <2>3 DEF Book
<1> QED BY <1>3, <1>4, <1>5

LEMMA BookGrown ==
  ASSUME hooks \in Seq(HookRecords), NEW e, NEW action,
         Len(hooks') = Len(hooks) + 1, \A k \in HookNumbers : hooks'[k] = hooks[k],
         hooks'[Len(hooks) + 1] = NewHook(e, action)
  PROVE  Book' = Append(Book, Service!Fresh(e.kind, e.loc, e.repeat))
<1> DEFINE x == Service!Fresh(e.kind, e.loc, e.repeat)
           n == Len(hooks)
           S == {Entry(hooks[i]) : i \in HookNumbers} \cup {x}
<1>1. n \in Nat /\ HookNumbers = 1 .. n /\ HookNumbers' = 1 .. n + 1
  BY DEF HookNumbers
<1>2. Entry(NewHook(e, action)) = x
  <2> DEFINE h == NewHook(e, action)
  <2>1. /\ h.kind = e.kind /\ h.loc = e.loc /\ h.repeat = e.repeat /\ h.enabled = TRUE
        /\ h.due = FALSE /\ (h.fired > 0) = FALSE
    BY DEF NewHook
  <2> HIDE DEF h
  <2>2. Entry(h) = x
    BY <2>1, Zenon DEF Entry, Service!Fresh
  <2> QED BY <2>2 DEF h
<1>3. Book \in Seq(S) /\ Len(Book) = n /\ \A k \in HookNumbers : Book[k] = Entry(hooks[k])
  <2>1. \A k \in HookNumbers : Entry(hooks[k]) \in S
    OBVIOUS
  <2> QED BY <2>1, BookTypes DEF Book
<1> HIDE DEF n, S, x
<1>4. x \in S
  BY DEF S
<1>5. /\ Append(Book, x) \in Seq(S) /\ Len(Append(Book, x)) = n + 1
      /\ \A k \in 1 .. n : Append(Book, x)[k] = Book[k]
      /\ Append(Book, x)[n + 1] = x
  BY <1>3, <1>4, AppendProperties
<1>6. Append(Book, x) = [k \in 1 .. n + 1 |-> Append(Book, x)[k]]
  BY <1>5, LenProperties
<1>7. \A k \in 1 .. n + 1 : Entry(hooks'[k]) = Append(Book, x)[k]
  BY <1>1, <1>2, <1>3, <1>5 DEF n
<1>8. Book' = [k \in 1 .. n + 1 |-> Entry(hooks'[k])]
  BY <1>1 DEF Book
<1> QED BY <1>6, <1>7, <1>8 DEF x

\* The steps that write a hook.
Writes ==
  \/ TimedHook \/ TimedHookStopped \/ BreakpointHook \/ TimedHookDone \/ BreakpointHookDone
  \/ AddHook \/ Enable \/ Disable \/ StartKill \/ Clock

LEMMA HooksStay ==
  ASSUME Next, ~Writes
  PROVE  hooks' = hooks
<1>1. CASE RestartFails \/ DriverClosed \/ FetchCrashes \/ ScanCrashes
          \/ DetachCrashes \/ ExpressionCrashes \/ AddHookCrashes \/ StoreCrashes
          \/ MalformedCrashes
  BY <1>1 DEF RestartFails, Die, Ends, LetGo, DriverClosed, FetchCrashes,
     ScanCrashes, DetachCrashes, ExpressionCrashes, AddHookCrashes, StoreCrashes,
     MalformedCrashes
<1>2. CASE StartEventLoop \/ GetRequest \/ NoRequest \/ Respond \/ SkipContinuous
          \/ FetchNothing \/ FetchBreakpoint \/ FetchExit \/ ContinueTarget
  BY <1>2 DEF StartEventLoop, GetRequest, NoRequest, Respond, Ends, LetGo,
     SkipContinuous, FetchNothing, FetchBreakpoint, Consume, FetchExit,
     ContinueTarget, Continue
<1>3. CASE EndScan \/ SkipHook
  BY <1>3 DEF EndScan, SkipHook, Step
<1>4. CASE WaitForInferior \/ WaitForever \/ Detach \/ Quit \/ SetTarget
  BY <1>4 DEF WaitForInferior, Consume, WaitForever, Detach, KeepTarget,
     DetachTarget, LetGo, Quit, SetTarget
<1>5. CASE StartObservation \/ StartBreakpointCall \/ MeasureOK \/ GdbOK
          \/ ObservationFails \/ Reach
  BY <1>5 DEF StartObservation, Interrupt, StartBreakpointCall, MeasureOK, Leave,
     Continue, Untouched, GdbOK, ObservationFails, Reach
<1>6. CASE Delay \/ Kill
  BY <1>6 DEF Delay, Kill, Delete, Leave, Continue, Untouched
<1>7. CASE Store \/ Malformed \/ Evaluated
  BY <1>7 DEF Store, Malformed, Evaluated
<1>8. CASE HitBreakpoint \/ TakeInterrupt \/ TakeSignal \/ TargetExits \/ DriverGoes
  BY <1>8 DEF HitBreakpoint, Stop, At, TakeInterrupt, TakeSignal, TargetExits,
     DriverGoes
<1>9. CASE \E p \in Pids : UntracedEnds(p)
  BY <1>9 DEF UntracedEnds
<1>10. CASE \E r \in Requests : SendRequest(r)
  BY <1>10 DEF SendRequest
<1> QED
  BY <1>1, <1>2, <1>3, <1>4, <1>5, <1>6, <1>7, <1>8, <1>9, <1>10
     DEF Next, Thread, Loop, Hooks, API, Target, Driver, Clock, Writes

\* The steps that begin or end a scan, a hook's action or a hit.
Turns == Begins \/ TimedHookDone \/ BreakpointHookDone \/ FetchBreakpoint \/ EndScan

\* No other step changes what the service sees but its hooks and its place.
LEMMA TurnsKept ==
  ASSUME IInv, Next, ~Turns, ~Closed'
  PROVE  /\ ~Closed /\ (InHit' <=> InHit)
         /\ RunsFrom("hookTDone")' <=> RunsFrom("hookTDone")
         /\ RunsFrom("hookBDone")' <=> RunsFrom("hookBDone")
         /\ RunsFrom("hookTDone") \/ RunsFrom("hookBDone") => cursor' = cursor
<1> USE DEF Closed, InHit, Handling, RunsFrom, InAction
<1>1. ret \in Afters /\ (~port => pc = "start")
  BY DEF IInv, TypeOK, ThreadTypes, FreshInv
<1>2. CASE RestartFails \/ DriverClosed \/ FetchCrashes \/ ScanCrashes
          \/ DetachCrashes \/ ExpressionCrashes \/ AddHookCrashes \/ StoreCrashes
          \/ MalformedCrashes
  BY <1>1, <1>2 DEF RestartFails, Die, Ends, LetGo, DriverClosed, FetchCrashes,
     ScanCrashes, DetachCrashes, ExpressionCrashes, AddHookCrashes, StoreCrashes,
     MalformedCrashes, Afters, Ended
<1>3. CASE StartEventLoop \/ GetRequest \/ NoRequest \/ Respond \/ SkipContinuous
          \/ FetchNothing \/ FetchExit \/ ContinueTarget
  BY <1>1, <1>3 DEF StartEventLoop, GetRequest, NoRequest, Respond, Ends, LetGo,
     SkipContinuous, FetchNothing, FetchExit, Consume, ContinueTarget, Continue,
     Afters, Ended
<1>4. CASE SkipHook
  BY <1>1, <1>4 DEF SkipHook, Step, Afters, Ended
<1>5. CASE WaitForInferior \/ WaitForever \/ Detach \/ Quit \/ SetTarget
  BY <1>1, <1>5 DEF WaitForInferior, Consume, WaitForever, Detach, KeepTarget,
     DetachTarget, LetGo, Quit, SetTarget, Afters, Ended
<1>6. CASE StartObservation \/ StartBreakpointCall \/ MeasureOK \/ GdbOK
          \/ ObservationFails \/ Reach
  BY <1>1, <1>6 DEF StartObservation, Interrupt, StartBreakpointCall, MeasureOK,
     Leave, Continue, Untouched, GdbOK, ObservationFails, Reach, Afters, Ended
<1>7. CASE Delay \/ AddHook \/ Enable \/ Disable \/ StartKill \/ Kill
  BY <1>1, <1>7 DEF Delay, AddHook, Enable, Toggle, Disable, StartKill, Interrupt,
     Kill, Delete, Leave, Continue, Untouched, Afters, Ended
<1>8. CASE Store \/ Malformed \/ Evaluated
  BY <1>1, <1>8 DEF Store, Malformed, Evaluated, Afters, Ended
<1>9. CASE HitBreakpoint \/ TakeInterrupt \/ TakeSignal \/ TargetExits \/ DriverGoes
  BY <1>1, <1>9 DEF HitBreakpoint, Stop, At, TakeInterrupt, TakeSignal, TargetExits,
     DriverGoes, Afters, Ended
<1>10. CASE \E p \in Pids : UntracedEnds(p)
  BY <1>1, <1>10 DEF UntracedEnds, Afters, Ended
<1>11. CASE \E r \in Requests : SendRequest(r)
  BY <1>1, <1>11 DEF SendRequest, Afters, Ended
<1>12. CASE \E i \in 0 .. MaxHooks - 1 : ClockPasses(i)
  BY <1>1, <1>12 DEF ClockPasses, Afters, Ended
<1> QED
  BY <1>2, <1>3, <1>4, <1>5, <1>6, <1>7, <1>8, <1>9, <1>10, <1>11, <1>12
     DEF Next, Thread, Loop, Hooks, API, Target, Driver, Clock, Turns, Begins

\* A target that stands at a hit is let go only by an action, or with the hit.
LEMMA PlaceLost ==
  ASSUME IInv, ActingInv, Next, HitHeld, ~HitHeld', ~Closed', ~EndScan
  PROVE  Detach \/ Quit \/ SetTarget
<1> USE DEF HitHeld, Closed, Handling, Undisturbed, InAction
<1>1. /\ ret \in Afters /\ (~port => pc = "start")
      /\ pc \in {"eval", "callWait", "body"} => (stopped <=> ret # "respond")
      /\ pc = "callWait" /\ Call.op \in {"measure", "gdb"} => ~stopped
      /\ pc \in {"hookT", "hookB"} /\ breaked # 0 => stopped
      /\ pc \in {"callWait", "body"} => calls # <<>>
      /\ held => event = NoEvent
  BY DEF IInv, TypeOK, ThreadTypes, StoppedInv, CallInv, ActingInv, TraceInv, FreshInv
<1>2. CASE RestartFails \/ DriverClosed \/ FetchCrashes \/ ScanCrashes
          \/ DetachCrashes \/ ExpressionCrashes \/ AddHookCrashes \/ StoreCrashes
          \/ MalformedCrashes
  BY <1>1, <1>2 DEF RestartFails, Die, Ends, LetGo, DriverClosed, FetchCrashes,
     ScanCrashes, DetachCrashes, ExpressionCrashes, AddHookCrashes, StoreCrashes,
     MalformedCrashes, Afters, Breakers, Ended, Resumed
<1>3. CASE StartEventLoop \/ GetRequest \/ NoRequest \/ Respond \/ SkipContinuous
          \/ FetchNothing \/ FetchBreakpoint \/ FetchExit \/ ContinueTarget
  BY <1>1, <1>3 DEF StartEventLoop, GetRequest, NoRequest, Respond, Ends, LetGo,
     SkipContinuous, FetchNothing, FetchBreakpoint, Consume, FetchExit,
     ContinueTarget, Continue, Afters, Breakers, Ended, Resumed
<1>4. CASE SkipHook \/ TimedHook \/ TimedHookStopped \/ TimedHookDone
          \/ BreakpointHook \/ BreakpointHookDone
  BY <1>1, <1>4 DEF SkipHook, Step, TimedHook, Run, Interrupt, TimedHookStopped,
     TimedHookDone, BreakpointHook, BreakpointHookDone, Delete, Afters, Breakers,
     Ended, Resumed
<1>5. CASE WaitForInferior \/ WaitForever
  BY <1>1, <1>5 DEF WaitForInferior, Consume, WaitForever, Afters, Breakers, Ended,
     Resumed
<1>6. CASE StartObservation \/ StartBreakpointCall \/ MeasureOK \/ GdbOK
          \/ ObservationFails \/ Reach
  BY <1>1, <1>6 DEF StartObservation, Interrupt, StartBreakpointCall, MeasureOK,
     Leave, Continue, Untouched, GdbOK, ObservationFails, Reach, Afters, Breakers,
     Ended, Resumed
<1>7. CASE Delay \/ AddHook \/ Enable \/ Disable \/ StartKill \/ Kill
  BY <1>1, <1>7 DEF Delay, AddHook, Enable, Toggle, Disable, StartKill, Interrupt,
     Kill, Delete, Leave, Continue, Untouched, Afters, Breakers, Ended, Resumed
<1>8. CASE Store \/ Malformed \/ Evaluated
  BY <1>1, <1>8 DEF Store, Malformed, Evaluated, Afters, Breakers, Ended, Resumed
<1>9. CASE HitBreakpoint \/ TakeInterrupt \/ TakeSignal \/ TargetExits \/ DriverGoes
  BY <1>1, <1>9 DEF HitBreakpoint, Stop, At, TakeInterrupt, TakeSignal, TargetExits,
     DriverGoes, Afters, Breakers, Ended, Resumed
<1>10. CASE \E p \in Pids : UntracedEnds(p)
  BY <1>1, <1>10 DEF UntracedEnds, Afters, Breakers, Ended, Resumed
<1>11. CASE \E r \in Requests : SendRequest(r)
  BY <1>1, <1>11 DEF SendRequest, Afters, Breakers, Ended, Resumed
<1>12. CASE \E i \in 0 .. MaxHooks - 1 : ClockPasses(i)
  BY <1>1, <1>12 DEF ClockPasses, Afters, Breakers, Ended, Resumed
<1> QED
  BY <1>2, <1>3, <1>4, <1>5, <1>6, <1>7, <1>8, <1>9, <1>10, <1>11, <1>12
     DEF Next, Thread, Loop, Hooks, API, Target, Driver, Clock
LEMMA ViewKept ==
  ASSUME IInv, ActingInv, Next, ~Turns, ~Closed'
  PROVE  /\ Acting' = Acting /\ InHit' = InHit /\ Closed = FALSE /\ Closed' = FALSE
         /\ \/ Place' = Place
            \/ (Detach \/ Quit \/ SetTarget) /\ Acting # 0 /\ Place' = NoLoc
<1>1. ~Closed /\ (InHit' <=> InHit)
  BY TurnsKept
<1>2. InHit' = InHit /\ Closed = FALSE /\ Closed' = FALSE
  BY <1>1 DEF InHit, Closed
<1>3. Acting' = Acting
  <2>1. /\ RunsFrom("hookTDone")' <=> RunsFrom("hookTDone")
        /\ RunsFrom("hookBDone")' <=> RunsFrom("hookBDone")
        /\ RunsFrom("hookTDone") \/ RunsFrom("hookBDone") => cursor' = cursor
    BY TurnsKept
  <2> QED BY <2>1 DEF Acting
<1>4. CASE HitHeld'
  <2>1. HitHeld /\ at' = at
    BY <1>4, HitKept DEF Turns
  <2> QED BY <1>2, <1>3, <1>4, <2>1 DEF Place
<1>5. CASE ~HitHeld' /\ ~HitHeld
  BY <1>2, <1>3, <1>5 DEF Place
<1>6. CASE ~HitHeld' /\ HitHeld
  <2>1. Detach \/ Quit \/ SetTarget
    BY <1>6, PlaceLost DEF Turns
  <2>2. pc = "eval"
    BY <2>1 DEF Detach, Quit, SetTarget, Evaluating
  <2>3. RunsFrom("hookTDone") \/ RunsFrom("hookBDone")
    BY <1>6, <2>2, ScanTypes DEF HitHeld, Handling, InAction, RunsFrom, Afters
  <2>4. cursor + 1 # 0
    BY ScanTypes
  <2> QED BY <1>2, <1>3, <1>6, <2>1, <2>3, <2>4 DEF Acting, Place
<1> QED BY <1>4, <1>5, <1>6

\* Steps that concern no hook: an action may let the target go.
LEMMA OtherSteps ==
  ASSUME IInv, ActingInv, Next, ~Turns, ~Closed', Book' = Book
  PROVE  [Service!Next]_(Service!vars)
<1>1. /\ Acting' = Acting /\ InHit' = InHit /\ Closed' = Closed
      /\ Place' = Place \/ (Acting # 0 /\ Place' = NoLoc)
  BY ViewKept
<1>2. CASE Place' = Place
  BY <1>1, <1>2 DEF Service!vars
<1>3. CASE Acting # 0 /\ Place' = NoLoc
  BY <1>1, <1>3 DEF Service!Next, Service!LetGo
<1> QED BY <1>1, <1>2, <1>3

\* Enabling, disabling and killing write the hook's switch.
LEMMA SwitchWritten ==
  ASSUME IInv, Enable \/ Disable \/ StartKill
  PROVE  /\ Book' = Book \/ Service!SwitchOff \/ Service!SwitchOn
         /\ StartKill => Book' = Book \/ Service!SwitchOff
<1> DEFINE j == Call.i + 1
<1>1. hooks \in Seq(HookRecords) /\ Len(hooks) \in Nat
  BY ScanTypes
<1>2. Call.i \in 0 .. MaxHooks - 1
  <2>1. calls \in Seq(Calls) /\ calls # <<>>
    BY DEF IInv, TypeOK, ThreadTypes, Enable, Disable, Toggle, StartKill, Evaluating
  <2>2. Call \in Calls /\ Call.op \in {"kill", "enable", "disable"}
    BY <2>1, CallsTyped DEF Enable, Disable, Toggle, StartKill, Evaluating
  <2> QED BY <2>2, CallsAreWellFormed
<1>3. /\ \/ hooks' = hooks
         \/ /\ IsHook(Call.i)
            /\ \/ hooks' = [hooks EXCEPT ![j].enabled = TRUE]
               \/ hooks' = [hooks EXCEPT ![j].enabled = FALSE]
      /\ StartKill => \/ hooks' = hooks
                      \/ IsHook(Call.i) /\ hooks' = [hooks EXCEPT ![j].enabled = FALSE]
  BY DEF Enable, Disable, Toggle, StartKill
<1>4. IsHook(Call.i) => j \in HookNumbers
  <2> DEFINE i == Call.i
  <2>1. i \in 0 .. MaxHooks - 1
    BY <1>2
  <2> HIDE DEF i
  <2>2. IsHook(i) => i + 1 \in HookNumbers
    BY <1>1, <2>1, BoundsAreNaturals DEF IsHook, HookNumbers
  <2> QED BY <2>2 DEF i
<1> HIDE DEF j
<1>5. hooks' = hooks => Book' = Book
  BY DEF Book, HookNumbers
<1>6. DOMAIN Book = HookNumbers
  BY <1>1, BookTypes
<1>7. ASSUME IsHook(Call.i), hooks' = [hooks EXCEPT ![j].enabled = TRUE]
      PROVE  Service!SwitchOn
  <2>1. TRUE \in BOOLEAN /\ j \in HookNumbers
    BY <1>4, <1>7
  <2>2. Book' = [Book EXCEPT ![j].on = TRUE]
    BY <1>1, <1>7, <2>1, BookWritten
  <2> QED BY <1>6, <2>1, <2>2 DEF Service!SwitchOn
<1>8. ASSUME IsHook(Call.i), hooks' = [hooks EXCEPT ![j].enabled = FALSE]
      PROVE  Service!SwitchOff
  <2>1. FALSE \in BOOLEAN /\ j \in HookNumbers
    BY <1>4, <1>8
  <2>2. Book' = [Book EXCEPT ![j].on = FALSE]
    BY <1>1, <1>8, <2>1, BookWritten
  <2> QED BY <1>6, <2>1, <2>2 DEF Service!SwitchOff
<1> QED BY <1>3, <1>5, <1>7, <1>8

LEMMA SwitchStep ==
  ASSUME IInv, ActingInv, Next, Enable \/ Disable \/ StartKill, ~Closed'
  PROVE  [Service!Next]_(Service!vars)
<1>1. ~Turns /\ ~(Detach \/ Quit \/ SetTarget)
  BY DEF Enable, Disable, Toggle, StartKill, Evaluating, Turns, Begins, TimedHook,
     TimedHookStopped, BreakpointHook, TimedHookDone, BreakpointHookDone,
     FetchBreakpoint, EndScan, Detach, Quit, SetTarget
<1>2. /\ Acting' = Acting /\ InHit' = InHit /\ Place' = Place
      /\ Closed = FALSE /\ Closed' = FALSE
  BY <1>1, ViewKept
<1>3. CASE Service!SwitchOff \/ Service!SwitchOn
  BY <1>2, <1>3 DEF Service!Next, Service!Switch
<1>4. CASE Book' = Book
  BY <1>2, <1>4 DEF Service!vars
<1> QED BY <1>3, <1>4, SwitchWritten

\* A hook that is added fits, or the array is full.
LEMMA RegisterStep ==
  ASSUME IInv, ActingInv, CountInv, Next, AddHook, ~Closed'
  PROVE  [Service!Next]_(Service!vars)
<1>1. ~Turns /\ ~(Detach \/ Quit \/ SetTarget)
  BY DEF AddHook, Evaluating, Turns, Begins, TimedHook, TimedHookStopped,
     BreakpointHook, TimedHookDone, BreakpointHookDone, FetchBreakpoint, EndScan,
     Detach, Quit, SetTarget
<1>2. /\ Acting' = Acting /\ InHit' = InHit /\ Place' = Place
      /\ Closed = FALSE /\ Closed' = FALSE
  BY <1>1, ViewKept
<1>3. hooks \in Seq(HookRecords) /\ Len(hooks) \in Nat /\ count \in Int /\ val \in Values
      /\ MaxHooks \in Nat
  BY ScanTypes, BoundsAreNaturals DEF IInv, TypeOK, HookTypes, ThreadTypes
<1>4. CASE hooks' = hooks
  <2>1. Book' = Book
    BY <1>4 DEF Book, HookNumbers
  <2> QED BY <1>2, <2>1 DEF Service!vars
<1>5. CASE hooks' # hooks
  <2>1. /\ Len(hooks') = Len(hooks) + 1 /\ val.type = "event"
        /\ \A k \in HookNumbers : hooks'[k] = hooks[k]
        /\ hooks'[Len(hooks) + 1] = NewHook(val, Call.action)
    BY <1>5, HookAdded
  <2>2. count \in 0 .. MaxHooks - 1
    BY <1>5 DEF AddHook
  <2>3. Len(hooks) < MaxHooks
    BY <1>3, <2>2 DEF CountInv
  <2>4. val.kind \in {"T", "B"} /\ val.loc \in Places \cup {NoLoc} /\ val.repeat \in BOOLEAN
    BY <1>3, <2>1 DEF Values, Void, Null, Taken
  <2>5. Book' = Append(Book, Service!Fresh(val.kind, val.loc, val.repeat))
    BY <1>3, <2>1, BookGrown
  <2>6. Len(Book) = Len(hooks)
    BY <1>3, BookTypes
  <2>7. Service!Register
    BY <1>2, <2>3, <2>4, <2>5, <2>6 DEF Service!Register
  <2> QED BY <2>7 DEF Service!Next
<1> QED BY <1>4, <1>5

LEMMA ClockStep ==
  ASSUME IInv, Clock
  PROVE  Service!Next
<1>1. PICK i \in 0 .. MaxHooks - 1 : ClockPasses(i)
  BY DEF Clock
<1> DEFINE j == i + 1
<1>2. hooks \in Seq(HookRecords) /\ Len(hooks) \in Nat
  BY ScanTypes
<1>3. j \in HookNumbers /\ hooks[j].kind = "T" /\ hooks' = [hooks EXCEPT ![j].due = TRUE]
  BY <1>1, <1>2, BoundsAreNaturals DEF ClockPasses, IsHook, Hook, HookNumbers
<1>4. UNCHANGED <<Acting, InHit, Place, Closed>>
  BY <1>1 DEF ClockPasses, Acting, InHit, Place, Closed, HitHeld, Handling, Undisturbed,
     RunsFrom, InAction, thread, place, target, tracev
<1> HIDE DEF j
<1>5. TRUE \in BOOLEAN
  OBVIOUS
<1>6. Book' = [Book EXCEPT ![j].due = TRUE]
  BY <1>2, <1>3, <1>5, BookWritten
<1>7. j \in DOMAIN Book /\ Book[j].kind = "T"
  BY <1>2, <1>3, BookTypes DEF Book, Entry
<1>8. Service!TimePasses
  BY <1>4, <1>6, <1>7 DEF Service!TimePasses
<1> QED BY <1>8 DEF Service!Next

\* A step to where no action can run any more.
LEMMA ClosingStep ==
  ASSUME IInv, Next, ~Clock, Closed'
  PROVE  Service!Next
<1>1. Closed' = TRUE /\ Acting' = 0 /\ InHit' = FALSE /\ Place' = NoLoc
  BY DEF Closed, Ended, Acting, InHit, Place, HitHeld, Handling, RunsFrom, InAction
<1>2. hooks' = hooks => Book' = Book
  BY DEF Book, HookNumbers
<1>3. ~StartKill => hooks' = hooks
  <2>1. CASE ~Writes
    BY <2>1, HooksStay
  <2>2. CASE TimedHook \/ TimedHookStopped \/ BreakpointHook
    BY <2>2 DEF TimedHook, Run, TimedHookStopped, BreakpointHook, Closed, Ended
  <2>3. CASE TimedHookDone \/ BreakpointHookDone
    BY <2>3 DEF TimedHookDone, BreakpointHookDone, Closed, Ended
  <2>4. CASE AddHook \/ Enable \/ Disable
    BY <2>4 DEF AddHook, Enable, Disable, Toggle, Returns, Closed, Ended
  <2> QED BY <2>1, <2>2, <2>3, <2>4 DEF Writes
<1>4. Book' = Book \/ Service!SwitchOff
  BY <1>2, <1>3, SwitchWritten
<1> QED BY <1>1, <1>4 DEF Service!Next, Service!Close

LEMMA FetchedHit ==
  ASSUME IInv, FetchBreakpoint
  PROVE  [Service!Next]_(Service!vars)
<1>1. /\ pc = "fetch" /\ pc' = "hookT" /\ event # NoEvent /\ event.kind = "breakpoint"
      /\ held' = TRUE /\ at' = event.loc /\ hooks' = hooks
  BY DEF FetchBreakpoint, Consume
<1>2. ~stopped
  BY <1>1 DEF IInv, StoppedInv
<1>3. event.loc \in Places
  <2>1. PICK b \in breakpoints : b.loc = event.loc
    BY <1>1, <1>2 DEF IInv, HitInv
  <2> QED BY <2>1 DEF IInv, TypeOK, GdbTypes
<1>4. /\ Acting = 0 /\ Acting' = 0 /\ Closed = FALSE /\ Closed' = FALSE
      /\ InHit = FALSE /\ Place = NoLoc
  BY <1>1 DEF Acting, Closed, Ended, InHit, Place, HitHeld, Handling, RunsFrom, InAction
<1>5. Book' = Book
  BY <1>1 DEF Book, HookNumbers
<1>6. CASE breaked' = 0
  <2>1. InHit' = FALSE /\ Place' = NoLoc
    BY <1>6 DEF InHit, Place, HitHeld
  <2> QED BY <1>4, <1>5, <2>1 DEF Service!vars
<1>7. CASE breaked' # 0
  <2>1. InHit' = TRUE /\ Place' = event.loc
    BY <1>1, <1>7 DEF InHit, Place, HitHeld, Handling, Undisturbed
  <2>2. Service!Hit
    BY <1>3, <1>4, <1>5, <2>1 DEF Service!Hit
  <2> QED BY <2>2 DEF Service!Next
<1> QED BY <1>6, <1>7

LEMMA ScanEnds ==
  ASSUME IInv, EndScan
  PROVE  [Service!Next]_(Service!vars)
<1>1. /\ pc \in {"hookT", "hookB"} /\ pc' = IF pc = "hookT" THEN "hookB" ELSE "resume"
      /\ hooks' = hooks /\ held' = held /\ at' = at /\ breaked' = breaked
  BY DEF EndScan, target, tracev
<1>2. Book' = Book
  BY <1>1 DEF Book, HookNumbers
<1>3. Acting = 0 /\ Acting' = 0 /\ Closed = FALSE /\ Closed' = FALSE
  BY <1>1 DEF Acting, Closed, Ended, RunsFrom, InAction
<1>4. CASE pc = "hookT"
  <2>1. InHit' = InHit /\ Place' = Place
    BY <1>1, <1>4 DEF InHit, Place, HitHeld, Handling, Undisturbed
  <2> QED BY <1>2, <1>3, <2>1 DEF Service!vars
<1>5. CASE pc = "hookB"
  <2>1. InHit' = FALSE /\ Place' = NoLoc
    BY <1>1, <1>5 DEF InHit, Place, HitHeld, Handling, InAction
  <2>2. CASE breaked = 0
    <3>1. InHit = FALSE /\ Place = NoLoc
      BY <2>2 DEF InHit, Place, HitHeld
    <3> QED BY <1>2, <1>3, <2>1, <3>1 DEF Service!vars
  <2>3. CASE breaked # 0
    <3>1. InHit = TRUE
      BY <1>5, <2>3 DEF InHit, Handling
    <3>2. Service!HitIsHandled
      BY <1>2, <1>3, <2>1, <3>1 DEF Service!HitIsHandled
    <3> QED BY <3>2 DEF Service!Next
  <2> QED BY <2>2, <2>3
<1> QED BY <1>1, <1>4, <1>5

LEMMA RunBegins ==
  ASSUME IInv, OneShotInv, EventInv, WaitInv, Begins, ~Closed'
  PROVE  [Service!Next]_(Service!vars)
<1> DEFINE j == cursor + 1
<1>1. /\ hooks \in Seq(HookRecords) /\ Len(hooks) \in Nat /\ cursor \in Nat
      /\ ~port => pc = "start"
  BY ScanTypes DEF IInv, FreshInv
<1>2. /\ pc \in {"hookT", "hookStopped", "hookB"} /\ cursor' = cursor /\ breaked' = breaked
      /\ held' = held /\ at' = at /\ port' = port
  BY DEF Begins, TimedHook, TimedHookStopped, BreakpointHook, target
<1>3. Closed = FALSE /\ Closed' = FALSE /\ Acting = 0
  BY <1>2 DEF Closed, Ended, Acting, RunsFrom, InAction
<1>4. pc = "hookStopped" => breaked = 0
  BY DEF EventInv, ActingInv
<1>5. CASE TimedHook /\ ~stopped
  <2>1. pc = "hookT" /\ hooks' = hooks /\ pc' \in {"hookWait", "start"}
    BY <1>5 DEF TimedHook, Interrupt
  <2>2. pc' = "hookWait"
    BY <1>1, <1>2, <2>1 DEF Closed
  <2>3. breaked = 0
    BY <1>5, <2>1 DEF IInv, StoppedInv
  <2>4. Acting' = 0 /\ InHit' = InHit /\ Place' = Place
    BY <1>2, <2>2, <2>3 DEF Acting, RunsFrom, InAction, InHit, Place, HitHeld
  <2>5. Book' = Book
    BY <2>1 DEF Book, HookNumbers
  <2> QED BY <1>3, <2>4, <2>5 DEF Service!vars
<1>6. CASE (TimedHook /\ stopped) \/ TimedHookStopped \/ BreakpointHook
  <2>1. /\ hooks' = Marked(j) /\ pc' = "eval" /\ ret' \in {"hookTDone", "hookBDone"}
        /\ j \in HookNumbers /\ Current = hooks[j]
    <3>1. CASE TimedHook \/ BreakpointHook
      <4>1. IsHook(cursor) /\ j \in HookNumbers /\ Current = hooks[j]
        BY <1>1, <3>1 DEF TimedHook, BreakpointHook, IsHook, HookNumbers, Current, Hook
      <4>2. hooks' = Marked(j) /\ pc' = "eval" /\ ret' \in {"hookTDone", "hookBDone"}
        BY <1>6, <3>1 DEF TimedHook, BreakpointHook, TimedHookStopped, Run, Marked
      <4> QED BY <4>1, <4>2
    <3>2. CASE TimedHookStopped
      <4>1. pc = "hookStopped" /\ (pc' = "start" \/ (hooks' = Marked(j) /\ pc' = "eval"
              /\ ret' = "hookTDone"))
        BY <3>2 DEF TimedHookStopped, Run, Marked
      <4>2. pc' # "start"
        BY <1>1, <1>2, <4>1 DEF Closed
      <4> QED BY <1>1, <4>1, <4>2 DEF OneShotInv, TimedWaits, HookNumbers, Current, Hook
    <3> QED BY <1>6, <3>1, <3>2
  <2>2. Acting' = j /\ InHit' = InHit /\ Place' = Place
    <3>1. Acting' = j
      BY <1>2, <2>1 DEF Acting, RunsFrom, InAction
    <3>2. InHit' = InHit /\ (HitHeld' <=> HitHeld)
      BY <1>2, <1>4, <2>1 DEF InHit, HitHeld, Handling, Undisturbed, InAction
    <3> QED BY <1>2, <3>1, <3>2 DEF Place
  <2> HIDE DEF j
  <2>3. Book' = [Book EXCEPT ![j].used = TRUE]
    <3>1. TRUE \in BOOLEAN
      OBVIOUS
    <3> QED BY <1>1, <2>1, <3>1, BookWritten
  <2>4. j \in DOMAIN Book /\ Book[j] = Entry(hooks[j])
    BY <1>1, <2>1, BookTypes DEF Book
  <2>5. Book[j].on /\ (Service!TimeIsUp(Book[j]) \/ Service!IsReached(Book[j]))
    <3>1. CASE TimedHook \/ TimedHookStopped
      <4>1. hooks[j].enabled /\ hooks[j].kind = "T" /\ hooks[j].due
        <5>1. CASE TimedHook
          BY <2>1, <5>1 DEF TimedHook, TimeIsUp
        <5>2. CASE TimedHookStopped
          BY <2>1, <5>2 DEF TimedHookStopped, WaitInv, OneShotInv, TimedWaits, j
        <5> QED BY <3>1, <5>1, <5>2
      <4> QED BY <2>4, <4>1 DEF Entry, Service!TimeIsUp
    <3>2. CASE BreakpointHook
      <4>1. /\ hooks[j].enabled /\ hooks[j].kind = "B" /\ breaked # 0 /\ breaked = hooks[j].bp
            /\ pc = "hookB"
        BY <2>1, <3>2 DEF BreakpointHook, IsReached
      <4>2. InHit = TRUE
        BY <4>1 DEF InHit, Handling
      <4>3. hooks[j].loc \in Locs \cup Syscalls /\ Place # NoLoc => Place = hooks[j].loc
        <5>1. HitHeld => Stands(hooks[j].bp, hooks[j].loc)
          BY <2>1, <4>1 DEF EventInv, PlaceInv, HitHeld, Reached
        <5>2. hooks[j].loc \in Locs \cup Syscalls => hooks[j].loc \notin BadLocs
          BY NamesAreDistinct
        <5> QED BY <4>1, <5>1, <5>2 DEF Place, Stands
      <4>4. hooks[j].repeat \/ ~(hooks[j].fired > 0)
        <5>1. ~Spent(j)
          BY <3>2, SpentIsPassed DEF j
        <5> QED BY <2>1, <4>1, <5>1, ScanTypes DEF Spent, HookNumbers
      <4>5. /\ Book[j].kind = "B" /\ Book[j].on /\ Book[j].loc = hooks[j].loc
            /\ Book[j].repeat = hooks[j].repeat /\ Book[j].used = (hooks[j].fired > 0)
        BY <2>4, <4>1 DEF Entry
      <4> QED BY <4>2, <4>3, <4>4, <4>5 DEF Service!IsReached
    <3> QED BY <1>6, <3>1, <3>2
  <2>6. Service!Run
    BY <1>3, <2>2, <2>3, <2>4, <2>5 DEF Service!Run
  <2> QED BY <2>6 DEF Service!Next
<1> QED BY <1>5, <1>6 DEF Begins

LEMMA RunEnds ==
  ASSUME IInv, ActingInv, TimedHookDone \/ BreakpointHookDone
  PROVE  Service!Next
<1> DEFINE j == cursor + 1
<1>1. hooks \in Seq(HookRecords) /\ Len(hooks) \in Nat /\ cursor \in Nat
  BY ScanTypes
<1>2. /\ pc \in {"hookTDone", "hookBDone"} /\ pc' \in {"hookT", "hookB"}
      /\ breaked' = breaked /\ held' = held /\ at' = at
      /\ hooks' = IF ~Current.repeat THEN [hooks EXCEPT ![j].enabled = FALSE]
                  ELSE IF pc = "hookTDone" THEN [hooks EXCEPT ![j].due = FALSE]
                  ELSE hooks
  BY DEF TimedHookDone, BreakpointHookDone, target
<1>3. /\ j \in HookNumbers /\ Current = hooks[j]
      /\ hooks[j].kind = "T" <=> pc = "hookTDone"
  BY <1>1, <1>2 DEF ActingInv, RunsFrom, IsHook, HookNumbers, Current, Hook
<1>4. Acting = j /\ Acting # 0 /\ Acting' = 0
  BY <1>1, <1>2 DEF Acting, RunsFrom, InAction
<1>5. InHit' = InHit /\ Place' = Place /\ Closed' = Closed
  BY <1>2 DEF InHit, Place, HitHeld, Handling, Undisturbed, InAction, Closed, Ended
<1> HIDE DEF j
<1>6. /\ DOMAIN Book = HookNumbers /\ Book[j] = Entry(hooks[j])
      /\ Book[j].repeat = hooks[j].repeat /\ Book[j].kind = hooks[j].kind
  BY <1>1, <1>3, BookTypes DEF Book, Entry
<1>7. FALSE \in BOOLEAN
  OBVIOUS
<1>8. /\ ~hooks[j].repeat => Book' = [Book EXCEPT ![j].on = FALSE]
      /\ hooks[j].repeat /\ pc = "hookTDone" => Book' = [Book EXCEPT ![j].due = FALSE]
      /\ hooks[j].repeat /\ pc # "hookTDone" => Book' = Book
  <2>1. hooks' = [hooks EXCEPT ![j].enabled = FALSE] => Book' = [Book EXCEPT ![j].on = FALSE]
    BY <1>1, <1>3, <1>7, BookWritten
  <2>2. hooks' = [hooks EXCEPT ![j].due = FALSE] => Book' = [Book EXCEPT ![j].due = FALSE]
    BY <1>1, <1>3, <1>7, BookWritten
  <2>3. hooks' = hooks => Book' = Book
    BY DEF Book, HookNumbers
  <2> QED BY <1>2, <1>3, <2>1, <2>2, <2>3
<1>9. Service!Done
  BY <1>3, <1>4, <1>5, <1>6, <1>8 DEF Service!Done
<1> QED BY <1>9 DEF Service!Next

LEMMA ServiceStep ==
  ASSUME IInv, OneShotInv, EventInv, CountInv, WaitInv, [Next]_vars
  PROVE  [Service!Next]_(Service!vars)
<1>1. ActingInv
  BY DEF EventInv
<1>2. CASE Clock
  BY <1>2, ClockStep
<1>3. CASE Next /\ ~Clock /\ Closed'
  BY <1>3, ClosingStep
<1>4. CASE Begins /\ ~Closed'
  BY <1>4, RunBegins
<1>5. CASE TimedHookDone \/ BreakpointHookDone
  BY <1>1, <1>5, RunEnds
<1>6. CASE FetchBreakpoint
  BY <1>6, FetchedHit
<1>7. CASE EndScan
  BY <1>7, ScanEnds
<1>8. CASE Next /\ (Enable \/ Disable \/ StartKill) /\ ~Closed'
  BY <1>1, <1>8, SwitchStep
<1>9. CASE Next /\ AddHook /\ ~Closed'
  BY <1>1, <1>9, RegisterStep
<1>10. CASE Next /\ ~Turns /\ ~Writes /\ ~Closed'
  <2>1. Book' = Book
    BY <1>10, HooksStay DEF Book, HookNumbers
  <2> QED BY <1>1, <1>10, <2>1, OtherSteps
<1>11. CASE UNCHANGED vars
  BY <1>11 DEF vars, Service!vars, Book, HookNumbers, Acting, InHit, Place, Closed, HitHeld,
     Handling, Undisturbed, RunsFrom, InAction
<1> QED
  BY <1>2, <1>3, <1>4, <1>5, <1>6, <1>7, <1>8, <1>9, <1>10, <1>11 DEF Turns, Writes, Begins

\* For all requests, hooks and places the measurer implements the hook service:
\* an action runs only for a hook that is on and whose time is up or whose place
\* the target stands at, one at a time, and a one-shot hook's only once.
THEOREM HooksImplementTheirService == Spec => HooksAreAService
<1>1. Init => Service!Init
  <2>1. ASSUME Init PROVE Book = <<>>
    BY <2>1 DEF Init, Book, HookNumbers
  <2> QED BY <2>1 DEF Init, Service!Init, Acting, InHit, Place, Closed, HitHeld, Handling,
       RunsFrom, InAction, Ended
<1>2. Init => WaitInv
  BY DEF Init, WaitInv
<1>3. IInv /\ WaitInv /\ [Next]_vars => WaitInv'
  <2>1. CASE UNCHANGED vars
    BY <2>1 DEF vars, WaitInv, Current, Hook
  <2> QED BY <2>1, WaitStep
<1>4. Spec => []WaitInv
  BY <1>2, <1>3, Invariance, PTL DEF Spec
<1>5. Spec => []CountInv
  <2>1. HookInv => CountInv
    BY DEF HookInv
  <2> QED BY <2>1, HookInvariance, PTL
<1>6. IInv /\ OneShotInv /\ EventInv /\ CountInv /\ WaitInv /\ [Next]_vars
        => [Service!Next]_(Service!vars)
  BY ServiceStep
<1> QED
  BY <1>1, <1>4, <1>5, <1>6, Invariance, OneShotInvariance, EventInvariance, PTL
     DEF Spec, HooksAreAService, Service!Spec

=============================================================================
