------------------------- MODULE MeasurerProperties -------------------------
(* What the measurer's loop, its hooks and its hold on the target promise. *)
EXTENDS Measurer

-----------------------------------------------------------------------------
(* Types.                                                                  *)

Values == {Void, Null, Taken} \cup
  [type : {"event"}, kind : {"T", "B"}, bp : Nat, loc : Places \cup {NoLoc}, repeat : BOOLEAN]

HookRecords ==
  [kind : {"T", "B"}, bp : Nat, loc : Places \cup {NoLoc}, repeat : BOOLEAN,
   action : Seq(Calls), enabled : BOOLEAN, due : BOOLEAN, fired : 0 .. 2]

Stops == [kind : {"breakpoint", "interrupt", "signal", "exit"}, loc : Places \cup {NoLoc}]

Afters == {"respond", "hookTDone", "hookBDone"}

ContextTypes ==
  /\ attached \in BOOLEAN /\ stopped \in BOOLEAN /\ exited \in BOOLEAN
  /\ PID \in Pids \cup {NoPid} /\ quitting \in BOOLEAN

HookTypes == hooks \in Seq(HookRecords) /\ count \in Int

GdbTypes ==
  /\ inferior \in Pids \cup {NoPid} /\ held \in BOOLEAN /\ at \in Places \cup {NoLoc}
  /\ breakpoints \subseteq [num : Nat, loc : Places] /\ breakpoint_count \in Nat
  /\ lost \in BOOLEAN

ProcessTypes ==
  /\ event \in Stops \cup {NoEvent} /\ sigint \in BOOLEAN
  /\ alive \subseteq Pids /\ killed \subseteq Pids
  /\ stale \in [Pids -> SUBSET Places]

ThreadTypes ==
  /\ pc \in Ended \cup Afters \cup
       {"start", "request", "eval", "callWait", "body", "fetch", "hookT", "hookWait",
        "hookStopped", "hookB", "resume"}
  /\ ret \in Afters /\ calls \in Seq(Calls) /\ val \in Values
  /\ cursor \in Nat /\ breaked \in Nat /\ port \in BOOLEAN

DriverTypes ==
  driver \in {"idle", "waiting", "gone"} /\ inbox \in Seq(Calls) /\ sent \in 0 .. MaxRequests

\* Every variable has its type (the structures of driver-interface.h).
TypeOK ==
  ContextTypes /\ HookTypes /\ GdbTypes /\ ProcessTypes /\ ThreadTypes /\ DriverTypes

-----------------------------------------------------------------------------
(* The target.                                                             *)

Awake == pc \notin Ended \cup {"start"}
Waiting == pc \in {"callWait", "hookWait"}

\* Between requests the target is never left stopped: whenever the loop looks
\* for a request or a stop, and while it answers one, the_context.stopped is
\* false, and outside of a call's own stop the target that gdb traces has been
\* resumed.  A client has no request that resumes a target, so a target left
\* stopped would stay so (BE_do_continuous, ME_API_measure, ME_API_reach).
TargetRunsBetweenRequests ==
  /\ pc \in {"request", "respond", "fetch"} => ~stopped /\ ~held
  /\ Awake /\ ret = "respond" /\ pc \in {"eval", "callWait"} => ~stopped /\ ~held

\* The context and gdb agree on the target: at every point where the code asks
\* "attached and not exited" gdb traces exactly the process named PID, and an
\* exit is noted only for a target that was attached.
ContextAgreesWithGdb ==
  /\ Awake /\ pc \notin {"body", "hookStopped"} =>
       /\ Attached <=> inferior # NoPid
       /\ inferior # NoPid => inferior = PID
  /\ exited => attached

\* The measurer hangs only inside the action of a hook, and there only at a
\* call that interrupts a target which is stopped already: no request that a
\* driver sends directly can hang it (ME_API_reach and BE_hook_kill look at
\* neither attached nor stopped).
HangsOnlyInAction ==
  pc = "hung" => /\ stopped /\ ret \in {"hookTDone", "hookBDone"}
                 /\ calls # <<>> /\ Call.op \in Breakers \cup {"kill"}

\* After (quit), in a request or in an action, no further request is served.
NoServiceAfterQuit == quitting => pc \notin {"request", "fetch"}

\* A SIGINT of the measurer is pending outside of a wait only if some wait took
\* a breakpoint or a signal in its place; that SIGINT is what later stops the
\* target without a bpstat, which fetch_inferior_event_JG does not survive.
StrayInterruptNeedsLostStop ==
  ~lost /\ pc # "hung" /\ ~Waiting =>
     ~sigint /\ (event # NoEvent => event.kind # "interrupt")

\* A process dies of the measurer only through an int3 that was left in it or
\* through such a stray SIGINT.
HarmIsExplained == killed # {} => lost \/ \E p \in Pids : stale[p] # {}

\* A driver that only measures never costs a target its life: as long as no
\* breakpoint was set, no process dies of the measurer, whatever the order of
\* its own end, of a detach and of the end of the measurer (ME_API_measure waits
\* for the stop that its interrupt makes before it goes on).
MeasuringIsHarmless == breakpoint_count = 0 /\ ~Signals => killed = {}

\* More hooks were added than the array holds: the entry behind it is the count.
Overfull == Len(hooks) = MaxHooks /\ count \notin 0 .. MaxHooks

\* Calls that may crash: a detach from a process that has ended (gdb's assertion),
\* mem or a gdb command with an expression that gdb does not parse, a store of the
\* NULL that measure gives without a target, a hook after one too many, and a
\* request that did not parse, for which BE_rhandler_dispatch returns no value.
CallMayCrash ==
  \/ Call.op \in {"detach", "quit", "set_target"} /\ Attached /\ PID \notin alive
  \/ Call.op = "measure" /\ Call.feature = "mem"
  \/ Call.op = "gdb" /\ ~Call.ok
  \/ Call.op = "store" /\ ~Attached
  \/ Call.op = "hook" /\ Overfull
  \/ Call.op = "malformed"

\* The measurer crashes only at such a call, at a scan of such an array, or when
\* it fetches a stop that has no bpstat, which is a signal of the target, an int3
\* that was left in it, or the SIGINT of a wait that another stop ended: whatever
\* else races, fails or is left behind, the code goes on or ends in order.
CrashesNeedACause ==
  [][pc' = "crashed" /\ pc # "crashed" =>
       \/ pc \in {"eval", "body"} /\ CallMayCrash
       \/ pc \in {"hookT", "hookB"} /\ Overfull
       \/ pc = "fetch" /\ (lost \/ Signals \/ stale[inferior] # {})]_vars

-----------------------------------------------------------------------------
(* The inductive invariant of the safety properties above, by part: what   *)
(* gdb's view of the inferior allows, where the thread may be with the     *)
(* target stopped, what the context says at each such place, and so on.    *)

\* gdb: a held inferior has no stop left to report, and only a traced process
\* has one.
TraceInv ==
  /\ held => inferior # NoPid /\ event = NoEvent
  /\ event # NoEvent => inferior # NoPid

\* Before start_event_loop has set up its context nothing has happened.
FreshInv ==
  ~port => /\ pc = "start" /\ ~stopped /\ ~attached /\ ~exited /\ ~quitting
           /\ inferior = NoPid /\ ~sigint

\* the_context.stopped is true exactly while the loop handles a stop; what the
\* calls of a request stop, they resume.
StoppedInv ==
  /\ pc \in {"request", "respond", "fetch"} => ~stopped /\ ~held
  /\ pc \in {"hookT", "hookB", "resume"} /\ ~stopped => ~held
  /\ pc \in {"hookT", "hookB"} /\ breaked # 0 => stopped
  /\ pc \in {"hookTDone", "hookBDone"} => stopped
  /\ pc = "hookWait" => ~stopped /\ ~held
  /\ pc = "hookStopped" => ~stopped
  /\ pc \in {"eval", "callWait", "body"} => (stopped <=> ret # "respond")
  /\ pc \in {"eval", "callWait"} /\ ~stopped => ~held

\* Between a wait and the work that follows it the target may be gone without
\* the context knowing; a call that did not wait still has it.
ContextInv ==
  /\ ContextAgreesWithGdb
  /\ Waiting => inferior # NoPid
  /\ pc \in {"body", "hookStopped"} /\ inferior # NoPid => Attached /\ inferior = PID
  /\ pc \in {"body", "hookStopped"} => Attached

\* What is being called while the target stops and has stopped.
CallInv ==
  /\ pc \in {"callWait", "body"} => calls # <<>> /\ Call.op \in Stoppers
  /\ pc = "callWait" /\ Call.op \in {"measure", "gdb"} => ~stopped
  /\ pc = "body" /\ Call.op \in {"measure", "gdb"} /\ stopped => inferior # NoPid
  /\ HangsOnlyInAction

\* After (quit) the target is not held, so the loop cannot resume it and ends.
QuitInv ==
  quitting =>
    /\ pc \notin {"request", "fetch", "hookWait", "hookStopped"}
    /\ pc \in {"hookT", "hookB", "resume", "hookTDone", "hookBDone"} => stopped /\ ~held
    /\ pc \in {"eval", "callWait"} => ~held
    /\ pc = "body" /\ Call.op \in {"measure", "gdb"} /\ stopped => ~held

\* An interrupt is pending or reported, never both, unless a stop was lost.
InterruptInv ==
  /\ StrayInterruptNeedsLostStop
  /\ ~lost /\ sigint => event = NoEvent \/ event.kind # "interrupt"

\* gdb knows a breakpoint for a breakpoint stop that the loop may fetch.
HitInv ==
  /\ event # NoEvent /\ event.kind = "breakpoint" /\ ~stopped =>
       \E b \in breakpoints : b.loc = event.loc
  /\ pc = "body" /\ Call.op \notin {"measure", "gdb"} => held \/ inferior = NoPid

\* A timed hook that waits for the target to stop is there.
ScanInv == pc \in {"hookWait", "hookStopped"} => IsHook(cursor)

\* Before the first breakpoint nothing but the measurer's interrupts and its
\* own end stops a target that has no signals.
NoBreakpointYetInv ==
  breakpoint_count = 0 /\ ~Signals =>
    /\ breakpoints = {} /\ ~lost /\ \A p \in Pids : stale[p] = {}
    /\ event # NoEvent => event.kind \in {"interrupt", "exit"}

IInv ==
  /\ TypeOK /\ ScanInv /\ TraceInv /\ FreshInv /\ StoppedInv /\ ContextInv /\ CallInv
  /\ QuitInv /\ InterruptInv /\ HarmIsExplained /\ HitInv
  /\ NoBreakpointYetInv

-----------------------------------------------------------------------------
(* Hooks and breakpoints.                                                  *)

HookNumbers == 1 .. Len(hooks)
Reached == {k \in HookNumbers : hooks[k].kind = "B"}

Observers == {"measure", "gdb", "store"}

\* What hooks run only observes (as in src/test/test_reach).
ActionsObserve ==
  \A c \in Calls : c.op = "hook" => \A k \in 1 .. Len(c.action) : c.action[k].op \in Observers

\* The event of a place that gdb resolves is given to a hook at once, one of a
\* place that it does not resolve to delay, which wants an event.
Paired(s) ==
  \A k \in 1 .. Len(s) :
    s[k].op \in Breakers =>
      k < Len(s) /\ s[k + 1].op = IF s[k].loc \in BadLocs THEN "delay" ELSE "hook"

\* Requests add, kill and run hooks (as in src/test/test_reach).
HooksAreKept ==
  /\ ActionsObserve
  /\ \A r \in Requests : Paired(r) /\ \A k \in 1 .. Len(r) : r[k].op \notin {"enable", "disable"}

\* As long as hooks are only added, killed and run, and fit, the breakpoints of
\* gdb are, whenever the loop polls, exactly those of the enabled breakpoint
\* hooks, one each: the number that ME_API_reach predicts is the one gdb assigns,
\* and a hook that is used up or killed takes its breakpoint along.
HooksMatchBreakpoints ==
  HooksAreKept /\ pc \in {"request", "fetch"} /\ count = Len(hooks) =>
    LET live == {k \in Reached : hooks[k].enabled}
    IN /\ breakpoints = {[num |-> hooks[k].bp, loc |-> hooks[k].loc] : k \in live}
       /\ \A j, k \in Reached : hooks[j].bp = hooks[k].bp => j = k

\* A one-shot breakpoint hook runs its action at most once, even if it is
\* enabled again: its breakpoint is gone (BE_hook_array_handle).
OneShotFiresOnce ==
  \A k \in Reached : ~hooks[k].repeat => hooks[k].fired <= 1

\* The action of a breakpoint hook starts with the target stopped at the place
\* that the hook's event named, if gdb knows that place; an action of a timed
\* hook that ran before it may only have let the target go.
HookRunsAtItsPlace ==
  [][pc = "hookB" /\ pc' = "eval" /\ Current.loc \notin BadLocs =>
       stopped /\ (held \/ ~ActionsObserve) /\ (held => at = Current.loc)]_vars

\* A breakpoint hit that the loop fetches runs a hook before the target goes on,
\* as long as hooks are only added, killed and run, and fit.
CaughtHitsRunAHook ==
  HooksAreKept /\ count = Len(hooks) /\ pc = "resume" /\ breaked # 0 =>
    \E k \in Reached : hooks[k].bp = breaked /\ hooks[k].fired > 0

-----------------------------------------------------------------------------
(* What the hooks promise as a service: HookService, as this is seen in    *)
(* the loop's state.                                                       *)

InAction == pc \in {"eval", "callWait", "body"} /\ ret # "respond"
Handling == pc \in {"hookT", "hookTDone", "hookB", "hookBDone"} \/ InAction

\* The hook at the cursor runs.
RunsFrom(after) == pc = after \/ (InAction /\ ret = after)

\* A call that waits for the target does so because it was let go.
Undisturbed == pc = "body" => Call.op \in {"measure", "gdb"}

\* A hit is handled with the target held.
HitHeld == Handling /\ Undisturbed /\ breaked # 0 /\ held

Entry(h) ==
  [kind |-> h.kind, loc |-> h.loc, repeat |-> h.repeat, on |-> h.enabled, due |-> h.due,
   used |-> h.fired > 0]

Book   == [k \in HookNumbers |-> Entry(hooks[k])]
Acting == IF RunsFrom("hookTDone") \/ RunsFrom("hookBDone") THEN cursor + 1 ELSE 0
InHit  == Handling /\ breaked # 0
Place  == IF HitHeld THEN at ELSE NoLoc

\* The loop has ended, or will, since it cannot be started a second time.
Closed == pc \in Ended \/ (pc = "start" /\ port)

Service == INSTANCE HookService WITH
  Known <- Locs \cup Syscalls, NoPlace <- NoLoc,
  book <- Book, acting <- Acting, hit <- InHit, place <- Place, closed <- Closed

\* The loop, the API and the hook array implement the hook service, whatever the
\* requests do: also with actions that let the target go or kill hooks, errors of
\* gdb in the middle of an action, and a timed hook that is looked at before the
\* wait for the target and run after it (BE_hook_array_handle, BE_hook_handle).
HooksAreAService == Service!Spec

-----------------------------------------------------------------------------
(* Progress.                                                               *)

\* Every request is answered, unless the measurer hangs or its process ends.
RequestsAreAnswered == driver = "waiting" ~> driver # "waiting" \/ pc \in Ended

TimedHookPending(k) ==
  /\ Attached /\ pc \notin Ended /\ count = Len(hooks)
  /\ k \in HookNumbers /\ hooks[k].kind = "T" /\ hooks[k].enabled /\ hooks[k].fired = 0

\* An enabled timed hook of an attached target comes to run, unless it is
\* disabled, the target goes, the measurer ends, or more hooks were added than
\* the array holds (BE_hook_array_handle).
TimedHooksRun == \A k \in 1 .. MaxHooks : TimedHookPending(k) ~> ~TimedHookPending(k)
=============================================================================
