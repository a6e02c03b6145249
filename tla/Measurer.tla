------------------------------ MODULE Measurer ------------------------------
(***************************************************************************)
(* The application measurer: the loop that start_event_loop() of gdb was   *)
(* turned into, the API that a driver's request evaluates, the hooks that  *)
(* run requests later, and the part of gdb, of the kernel and of the       *)
(* target process that this code controls.                                 *)
(*                                                                         *)
(* One thread runs the loop; the target process and the driver run beside  *)
(* it.  A request is a sequence of API calls in the order in which the RLI *)
(* evaluator makes them (arguments before the call, left to right), each   *)
(* taking what it needs of the last result from val.  A call that stops    *)
(* the target is three steps, "interrupt", "wait_for_inferior" and the     *)
(* rest, because the target runs between the first two.                    *)
(***************************************************************************)
EXTENDS Integers, Sequences, FiniteSets

CONSTANTS
  Pids,         \* processes a driver may name
  Locs,         \* source locations that gdb resolves to an address
  BadLocs,      \* locations and syscall names that gdb does not resolve
  Syscalls,     \* system calls that "catch syscall" knows
  Calls,        \* the API calls that occur in requests
  Requests,     \* the requests a driver may send: sequences of calls
  MaxHooks,     \* length of BE_hook_array.hooks (64 in the code)
  MaxRequests,  \* bound: requests of one session
  Signals,      \* does the target also receive signals of its own?
  NoPid, NoLoc, NoEvent

Places == Locs \cup BadLocs \cup Syscalls
Stoppers == {"measure", "gdb", "reach", "reach_func", "reach_syscall", "kill"}
Breakers == {"reach", "reach_func", "reach_syscall"}

ASSUME NamesAreDistinct ==
  /\ NoPid \notin Pids
  /\ NoLoc \notin Places
  /\ Locs \cap BadLocs = {} /\ Locs \cap Syscalls = {} /\ BadLocs \cap Syscalls = {}

ASSUME BoundsAreNaturals ==
  MaxHooks \in Nat \ {0} /\ MaxRequests \in Nat /\ Signals \in BOOLEAN

ASSUME CallsAreWellFormed ==
  /\ Requests \subseteq Seq(Calls)
  /\ \A c \in Calls :
       /\ c.op \in {"set_target", "detach", "quit", "store", "delay", "hook",
                    "enable", "disable", "malformed"} \cup Stoppers
       /\ c.op = "set_target" => c.pid \in Pids
       /\ c.op \in Breakers => c.loc \in Places /\ c.repeat \in BOOLEAN
       /\ c.op = "delay" => c.repeat \in BOOLEAN
       /\ c.op = "hook" => c.action \in Seq(Calls)
       /\ c.op \in {"kill", "enable", "disable"} => c.i \in 0 .. MaxHooks - 1
       /\ c.op = "measure" => c.feature \in {"callstack", "var", "mem"}
       /\ c.op = "gdb" => c.ok \in BOOLEAN

VARIABLES
  \* the_context
  attached, stopped, exited, PID, quitting,
  hooks,            \* hook_array.hooks, the entries added so far (hook i is hooks[i+1])
  count,            \* hook_array.count
  \* gdb
  inferior,         \* the process that gdb traces
  held,             \* gdb has seen it stop and has not resumed it
  at,               \* where a held inferior stopped, if at a breakpoint
  breakpoints,      \* gdb's user breakpoints: [num, loc]
  breakpoint_count, \* the last number given to one
  lost,             \* history: a wait took another stop than its own interrupt
  \* kernel and target processes
  event,            \* the stop of the inferior that gdb has not waited for yet
  sigint,           \* a SIGINT is pending for the inferior
  alive,            \* processes that run
  stale,            \* stale[p]: locations of p that hold an int3 nobody will remove
  killed,           \* processes that died of what the measurer left in them
  \* the measurer's thread
  pc, ret, calls, val, cursor, breaked,
  port,             \* the port is in use by a connection of this process
  \* the driver
  driver, inbox, sent

ctx     == <<attached, stopped, exited, PID, quitting>>
hookv   == <<hooks, count>>
bpv     == <<breakpoints, breakpoint_count, lost>>
tracev  == <<inferior, held, at>>
procv   == <<event, sigint, alive, stale, killed>>
driverv == <<driver, inbox, sent>>
target  == <<tracev, bpv, procv>>
place   == <<ret, cursor, breaked, port, driverv>>  \* what an API call leaves alone
thread  == <<calls, val, place>>
vars    == <<ctx, hookv, target, pc, thread>>

Ended == {"hung", "crashed", "exited"}
Void  == [type |-> "void"]
Null  == [type |-> "null"]      \* a NULL ME_measurement *
Taken == [type |-> "measurement"]

NewHook(e, action) ==
  [kind |-> e.kind, bp |-> e.bp, loc |-> e.loc, repeat |-> e.repeat,
   action |-> action, enabled |-> TRUE, due |-> FALSE, fired |-> 0]

IsHook(i) == i < Len(hooks)
Hook(i)   == hooks[i + 1]
At(kind, l) == [kind |-> kind, loc |-> l]

Init ==
  /\ attached = FALSE /\ stopped = FALSE /\ exited = FALSE
  /\ PID = NoPid /\ quitting = FALSE
  /\ hooks = <<>> /\ count = 0
  /\ inferior = NoPid /\ held = FALSE /\ at = NoLoc
  /\ breakpoints = {} /\ breakpoint_count = 0 /\ lost = FALSE
  /\ event = NoEvent /\ sigint = FALSE /\ alive = Pids
  /\ stale = [p \in Pids |-> {}] /\ killed = {}
  /\ pc = "start" /\ ret = "respond" /\ calls = <<>> /\ val = Void
  /\ cursor = 0 /\ breaked = 0 /\ port = FALSE
  /\ driver = "idle" /\ inbox = <<>> /\ sent = 0

-----------------------------------------------------------------------------
(* What the kernel does when gdb lets go of the inferior, and when the     *)
(* measurer's process ends.                                                *)

InsertedTraps == IF held THEN {} ELSE {b.loc : b \in breakpoints} \cap Locs

\* gdb stops tracing: the traps "left" stay in memory, and a SIGINT that was
\* queued behind another stop is now delivered to a process nobody traces.
LetGo(left, interrupted) ==
  /\ held' = FALSE /\ at' = NoLoc /\ event' = NoEvent /\ sigint' = FALSE
  /\ stale' = [p \in Pids |-> IF p = inferior THEN stale[p] \cup left ELSE stale[p]]
  /\ \/ UNCHANGED <<alive, killed>>
     \/ /\ interrupted /\ inferior \in alive
        /\ alive' = alive \ {inferior}
        /\ killed' = killed \cup {inferior}

\* exit() or a fatal signal: the kernel detaches the tracee as it is
Ends(how, left) ==
  /\ pc' = how
  /\ LetGo(left, sigint) /\ inferior' = NoPid
  /\ UNCHANGED <<ctx, hookv, bpv, ret, calls, val, cursor, breaked, port>>

Die(how) == Ends(how, InsertedTraps) /\ UNCHANGED driverv

\* gdb's error(), caught only by the loop of captured_main, which starts
\* start_event_loop again
Unwind == pc' = "start"

-----------------------------------------------------------------------------
(* The target process and the kernel.                                      *)

Resumed == inferior # NoPid /\ ~held /\ event = NoEvent

Stop(e) ==
  /\ Resumed
  /\ event' = e
  /\ UNCHANGED <<ctx, hookv, tracev, bpv, stale, killed, pc, thread>>

HitBreakpoint ==
  \E b \in breakpoints : Stop(At("breakpoint", b.loc)) /\ UNCHANGED <<sigint, alive>>

TakeInterrupt ==
  /\ sigint /\ sigint' = FALSE
  /\ Stop(At("interrupt", NoLoc)) /\ UNCHANGED alive

TakeSignal ==
  /\ Signals \/ (inferior # NoPid /\ stale[inferior] # {})
  /\ Stop(At("signal", NoLoc)) /\ UNCHANGED <<sigint, alive>>

TargetExits ==
  /\ Stop(At("exit", NoLoc))
  /\ alive' = alive \ {inferior} /\ UNCHANGED sigint

UntracedEnds(p) ==
  /\ p \in alive /\ p # inferior
  /\ alive' = alive \ {p}
  /\ \/ UNCHANGED killed
     \/ stale[p] # {} /\ killed' = killed \cup {p}   \* SIGTRAP at a left trap
  /\ UNCHANGED <<ctx, hookv, tracev, bpv, event, sigint, stale, pc, thread>>

\* clock() passes the start of a timed hook by its delay
ClockPasses(i) ==
  /\ pc \notin Ended
  /\ IsHook(i) /\ Hook(i).kind = "T" /\ ~Hook(i).due
  /\ hooks' = [hooks EXCEPT ![i + 1].due = TRUE]
  /\ UNCHANGED <<ctx, count, target, pc, thread>>

-----------------------------------------------------------------------------
(* The driver: one request at a time, and it may go away at any point.     *)

SendRequest(r) ==
  /\ driver = "idle" /\ pc \notin {"crashed", "exited"}
  /\ sent < MaxRequests
  /\ driver' = "waiting" /\ inbox' = r /\ sent' = sent + 1
  /\ UNCHANGED <<ctx, hookv, target, pc, ret, calls, val, cursor, breaked, port>>

\* the driver ends, or sees that the measurer did ("Driver closed!", exit)
DriverGoes ==
  /\ driver # "gone"
  /\ driver' = "gone" /\ UNCHANGED <<inbox, sent>>
  /\ UNCHANGED <<ctx, hookv, target, pc, ret, calls, val, cursor, breaked, port>>

-----------------------------------------------------------------------------
(* Stopping and resuming the target: execute_command("interrupt"),         *)
(* wait_for_inferior(), normal_stop(), continue_command_JG().              *)

Interrupt(next) ==
  IF inferior = NoPid
    THEN Unwind /\ UNCHANGED sigint
    ELSE pc' = next /\ sigint' = TRUE

\* Resume as part of a call or of the loop: gdb's error when there is no
\* inferior or it is running already, else go on at next.
Continue(next) ==
  IF inferior = NoPid \/ ~held
    THEN Unwind /\ UNCHANGED <<held, at>>
    ELSE pc' = next /\ held' = FALSE /\ at' = NoLoc

\* Take the pending stop, whatever it is; an exit leaves gdb no inferior.
Consume ==
  /\ event # NoEvent /\ event' = NoEvent
  /\ IF event.kind = "exit"
       THEN inferior' = NoPid /\ held' = FALSE /\ at' = NoLoc /\ sigint' = FALSE
       ELSE inferior' = inferior /\ held' = TRUE /\ at' = event.loc /\ UNCHANGED sigint

\* Mutant: the wait gives up before anything has stopped
WaitForInferiorGivesUp ==
  /\ pc \in {"callWait", "hookWait"}
  /\ pc' = IF pc = "callWait" THEN "body" ELSE "hookStopped"
  /\ UNCHANGED <<ctx, hookv, target, thread>>

WaitForInferior ==
  /\ pc \in {"callWait", "hookWait"}
  /\ Consume
  /\ lost' = (lost \/ event.kind \in {"breakpoint", "signal"})
  /\ pc' = IF pc = "callWait" THEN "body" ELSE "hookStopped"
  /\ UNCHANGED <<ctx, hookv, breakpoints, breakpoint_count, alive, stale, killed>>
  /\ UNCHANGED thread

\* no LWP is resumed, so the wait never returns
WaitForever ==
  /\ pc \in {"callWait", "hookWait"}
  /\ inferior = NoPid \/ held
  /\ pc' = "hung"
  /\ UNCHANGED <<ctx, hookv, target, thread>>

-----------------------------------------------------------------------------
(* The ME_API_ functions.  A call is evaluated at pc = "eval"; one that   *)
(* stops the target goes on at "body" when it has stopped.                *)

Call == Head(calls)
Evaluating(op) == pc = "eval" /\ calls # <<>> /\ Call.op = op
InBody(ops)    == pc = "body" /\ Call.op \in ops

Return(v)  == calls' = Tail(calls) /\ val' = v
Returns(v) == pc' = "eval" /\ Return(v)
Fails      == Unwind /\ UNCHANGED <<calls, val>>

\* gdb's detach writes the original code back, which ptrace refuses while
\* the target runs
TrapsAtDetach == IF Resumed THEN InsertedTraps ELSE {}

\* ME_API_detach when attached to a target that gdb still has
DetachTarget ==
  /\ LetGo(TrapsAtDetach, held /\ sigint)
  /\ inferior' = NoPid /\ attached' = FALSE /\ PID' = NoPid

KeepTarget == UNCHANGED <<attached, PID, tracev, procv>>

\* Mutant: gdb's assertion fails for any stop that was not fetched
ExitPendingAny == event # NoEvent

ExitPending == event # NoEvent /\ event.kind = "exit"

Detach ==
  /\ Evaluating("detach")
  /\ \/ ~attached /\ Returns(Void) /\ KeepTarget
     \/ attached /\ inferior # NoPid /\ ~ExitPending /\ Returns(Void) /\ DetachTarget
     \/ attached /\ inferior = NoPid /\ Fails /\ KeepTarget
  /\ UNCHANGED <<stopped, exited, quitting, hookv, bpv, place>>

Quit ==
  /\ Evaluating("quit") /\ ~ExitPending
  /\ quitting' = TRUE
  /\ Returns(Void)
  /\ IF attached /\ ~exited THEN DetachTarget ELSE KeepTarget
  /\ UNCHANGED <<stopped, exited, hookv, bpv, place>>

\* Mutant: attached is set without looking at what came of the attach command
SetTargetAlwaysAttached ==
  /\ Evaluating("set_target") /\ ~ExitPending
  /\ IF attached /\ inferior = NoPid
       THEN Fails /\ KeepTarget
       ELSE /\ Returns(Void)
            /\ LetGo(TrapsAtDetach, held /\ sigint)
            /\ PID' = Call.pid /\ attached' = TRUE
            /\ inferior' = IF Call.pid \in alive' THEN Call.pid ELSE NoPid
  /\ UNCHANGED <<stopped, exited, quitting, hookv, bpv, place>>

\* Detaches first, then attaches; a process that cannot be attached to only
\* makes the call return, with PID set.
SetTarget ==
  /\ Evaluating("set_target") /\ ~ExitPending
  /\ IF attached /\ inferior = NoPid
       THEN Fails /\ KeepTarget
       ELSE /\ Returns(Void)
            /\ LetGo(TrapsAtDetach, held /\ sigint)
            /\ PID' = Call.pid
            /\ attached' = (Call.pid \in alive')
            /\ inferior' = IF Call.pid \in alive' THEN Call.pid ELSE NoPid
  /\ UNCHANGED <<stopped, exited, quitting, hookv, bpv, place>>

\* gdb's detach asserts that the process it stopped is still there
DetachCrashes ==
  /\ pc = "eval" /\ calls # <<>> /\ Call.op \in {"detach", "quit", "set_target"}
  /\ attached /\ ExitPending
  /\ Die("crashed")

Attached == attached /\ ~exited

\* Mutant: the target is interrupted even when the context says it is stopped
StartObservationAlwaysStops ==
  /\ pc = "eval" /\ calls # <<>> /\ Call.op \in {"measure", "gdb"}
  /\ IF ~Attached
       THEN Returns(IF Call.op = "measure" THEN Null ELSE Void) /\ UNCHANGED sigint
       ELSE Interrupt("callWait") /\ UNCHANGED <<calls, val>>
  /\ UNCHANGED <<ctx, hookv, tracev, bpv, event, alive, stale, killed, place>>

\* Mutant: no wait_for_inferior() between the interrupt and the work
StartObservationNoWait ==
  /\ pc = "eval" /\ calls # <<>> /\ Call.op \in {"measure", "gdb"}
  /\ IF ~Attached
       THEN Returns(IF Call.op = "measure" THEN Null ELSE Void) /\ UNCHANGED sigint
       ELSE /\ UNCHANGED <<calls, val>>
            /\ IF stopped THEN pc' = "body" /\ UNCHANGED sigint
                          ELSE Interrupt("body")
  /\ UNCHANGED <<ctx, hookv, tracev, bpv, event, alive, stale, killed, place>>

\* measure and gdb: nothing to do without a target; stop it unless the
\* context says that it is stopped
StartObservation ==
  /\ pc = "eval" /\ calls # <<>> /\ Call.op \in {"measure", "gdb"}
  /\ IF ~Attached
       THEN Returns(IF Call.op = "measure" THEN Null ELSE Void) /\ UNCHANGED sigint
       ELSE /\ UNCHANGED <<calls, val>>
            /\ IF stopped THEN pc' = "body" /\ UNCHANGED sigint
                          ELSE Interrupt("callWait")
  /\ UNCHANGED <<ctx, hookv, tracev, bpv, event, alive, stale, killed, place>>

\* Mutant: no wait_for_inferior() between the interrupt and the work
StartBreakpointCallNoWait ==
  /\ pc = "eval" /\ calls # <<>> /\ Call.op \in Breakers
  /\ Interrupt("body")
  /\ UNCHANGED <<ctx, hookv, tracev, bpv, event, alive, stale, killed, thread>>

\* reach, reach_func, reach_syscall, kill of a breakpoint hook: always stop
StartBreakpointCall ==
  /\ pc = "eval" /\ calls # <<>> /\ Call.op \in Breakers
  /\ Interrupt("callWait")
  /\ UNCHANGED <<ctx, hookv, tracev, bpv, event, alive, stale, killed, thread>>

\* Mutant: a call leaves the target that it stopped stopped
LeaveStopped(mine, v) == Returns(v) /\ UNCHANGED <<held, at>>

\* After the work of a call: continue a target that the call itself stopped.
\* "mine" is stopped_here in measure and gdb, TRUE for the others.
Leave(mine, v) ==
  IF mine
    THEN Continue("eval") /\ IF inferior # NoPid /\ held THEN Return(v)
                                                         ELSE UNCHANGED <<calls, val>>
    ELSE Returns(v) /\ UNCHANGED <<held, at>>

Untouched == UNCHANGED <<ctx, inferior, procv, place>>

\* gdb has a frame to look at
FrameSelected == inferior # NoPid /\ held

MeasureOK ==
  /\ InBody({"measure"})
  /\ Call.feature = "callstack" => FrameSelected
  /\ Leave(~stopped, Taken)
  /\ Untouched /\ UNCHANGED <<hookv, bpv>>

GdbOK ==
  /\ InBody({"gdb"}) /\ Call.ok
  /\ Leave(~stopped, Void)
  /\ Untouched /\ UNCHANGED <<hookv, bpv>>

\* gdb's error() in the middle: no frame, an unreadable value, a bad command
ObservationFails ==
  /\ InBody({"measure", "gdb"})
  /\ \/ ~FrameSelected
     \/ Call.op = "measure" /\ Call.feature \in {"var", "mem"}
     \/ Call.op = "gdb" /\ ~Call.ok
  /\ Fails
  /\ Untouched /\ UNCHANGED <<held, at, hookv, bpv>>

\* parse_expression gives NULL for what it does not parse; BE_get_memory looks into
\* it all the same, and so do commands of gdb such as "set"
ExpressionCrashes ==
  /\ \/ InBody({"measure"}) /\ Call.feature = "mem"
     \/ InBody({"gdb"}) /\ ~Call.ok
  /\ Die("crashed")

\* The event names the number that the next breakpoint would get, which is
\* the new one's when gdb resolves the place.
Reach ==
  /\ InBody(Breakers)
  /\ IF Call.loc \in BadLocs
       THEN UNCHANGED bpv
       ELSE /\ breakpoint_count' = breakpoint_count + 1
            /\ breakpoints' = breakpoints \cup
                              {[num |-> breakpoint_count + 1, loc |-> Call.loc]}
            /\ UNCHANGED lost
  /\ IF Call.op = "reach_syscall" /\ Call.loc \in BadLocs
       THEN Fails /\ UNCHANGED <<held, at>>
       ELSE Leave(TRUE, [type |-> "event", kind |-> "B", bp |-> breakpoint_count + 1,
                         loc |-> Call.loc, repeat |-> Call.repeat])
  /\ Untouched /\ UNCHANGED hookv

\* The event argument that the type check asks for is not used.
Delay ==
  /\ Evaluating("delay") /\ val.type = "event"
  /\ Returns([type |-> "event", kind |-> "T", bp |-> 0, loc |-> NoLoc,
              repeat |-> Call.repeat])
  /\ UNCHANGED <<ctx, hookv, target, place>>

\* Mutant: the array is taken to be full one hook early
AddHookOneShort ==
  /\ Evaluating("hook") /\ val.type = "event"
  /\ \/ ~Attached /\ Returns(Void) /\ UNCHANGED hookv
     \/ /\ Attached /\ count \in 0 .. MaxHooks - 2
        /\ hooks' = Append(hooks, NewHook(val, Call.action))
        /\ count' = count + 1 /\ Returns(Void)
     \/ /\ Attached /\ count \in {MaxHooks - 1, MaxHooks}
        /\ count' \in {-1, MaxHooks + 1} /\ Returns(Void) /\ UNCHANGED hooks
  /\ UNCHANGED <<ctx, target, place>>

\* BE_hook_array_add does not look at the bound: entry MaxHooks is the count,
\* which becomes the low half of a pointer, negative or far beyond the array.
AddHook ==
  /\ Evaluating("hook") /\ val.type = "event"
  /\ \/ ~Attached /\ Returns(Void) /\ UNCHANGED hookv
     \/ /\ Attached /\ count \in 0 .. MaxHooks - 1
        /\ hooks' = Append(hooks, NewHook(val, Call.action))
        /\ count' = count + 1 /\ Returns(Void)
     \/ /\ Attached /\ count = MaxHooks
        /\ count' \in {-1, MaxHooks + 1} /\ Returns(Void) /\ UNCHANGED hooks
  /\ UNCHANGED <<ctx, target, place>>

\* ... and the next hook is stored far outside of the array
AddHookCrashes ==
  /\ Evaluating("hook") /\ Attached /\ count \notin 0 .. MaxHooks
  /\ Die("crashed")

Toggle(op, value) ==
  /\ Evaluating(op)
  /\ hooks' = IF IsHook(Call.i) THEN [hooks EXCEPT ![Call.i + 1].enabled = value]
                               ELSE hooks
  /\ Returns(Void)
  /\ UNCHANGED <<ctx, count, target, place>>

Enable  == Toggle("enable", TRUE)
Disable == Toggle("disable", FALSE)

\* A hook that is not there (NULL) is left alone, a timed hook is disabled,
\* and the breakpoint of a breakpoint hook is deleted with the target stopped.
StartKill ==
  /\ Evaluating("kill")
  /\ IF IsHook(Call.i)
       THEN /\ hooks' = [hooks EXCEPT ![Call.i + 1].enabled = FALSE]
            /\ IF Hook(Call.i).kind = "B"
                 THEN Interrupt("callWait") /\ UNCHANGED <<calls, val>>
                 ELSE Returns(Void) /\ UNCHANGED sigint
       ELSE Returns(Void) /\ UNCHANGED <<hooks, sigint>>
  /\ UNCHANGED <<ctx, count, tracev, bpv, event, alive, stale, killed, place>>

Delete(n) ==
  /\ breakpoints' = {b \in breakpoints : b.num # n}
  /\ UNCHANGED <<breakpoint_count, lost>>

\* Mutant: the hook is disabled but its breakpoint stays
KillKeepsBreakpoint ==
  /\ InBody({"kill"})
  /\ Leave(TRUE, Void)
  /\ Untouched /\ UNCHANGED <<hookv, bpv>>

Kill ==
  /\ InBody({"kill"})
  /\ Delete(Hook(Call.i).bp)
  /\ Leave(TRUE, Void)
  /\ Untouched /\ UNCHANGED hookv

\* ME_API_store links the measurement into a chain of the store, which is the
\* business of MeasurementStore; here it matters that NULL has no "next".
Store ==
  /\ Evaluating("store") /\ val # Null
  /\ Returns(Void)
  /\ UNCHANGED <<ctx, hookv, target, place>>

StoreCrashes ==
  /\ Evaluating("store") /\ val = Null
  /\ Die("crashed")

\* A request that does not parse: BE_rhandler_dispatch returns without a
\* value, and BE_get_request looks at whatever is there.
Malformed ==
  /\ Evaluating("malformed")
  /\ Returns(Void)
  /\ UNCHANGED <<ctx, hookv, target, place>>

MalformedCrashes ==
  /\ Evaluating("malformed")
  /\ Die("crashed")

Evaluated ==
  /\ pc = "eval" /\ calls = <<>>
  /\ pc' = ret
  /\ UNCHANGED <<ctx, hookv, target, thread>>

-----------------------------------------------------------------------------
(* The loop: start_event_loop, BE_get_request, BE_do_continuous.           *)

\* BE_context_create and BE_start_session.  driverfd = -1 again, but the old
\* connection is still open, so bind() fails the second time.
StartEventLoop ==
  /\ pc = "start" /\ ~port
  /\ attached' = FALSE /\ stopped' = FALSE /\ exited' = FALSE /\ PID' = NoPid
  /\ port' = TRUE /\ pc' = "request"
  /\ UNCHANGED <<quitting, hookv, target, ret, calls, val, cursor, breaked, driverv>>

RestartFails == pc = "start" /\ port /\ Die("exited")

GetRequest ==
  /\ pc = "request" /\ inbox # <<>>
  /\ calls' = inbox /\ inbox' = <<>> /\ val' = Void
  /\ pc' = "eval" /\ ret' = "respond"
  /\ UNCHANGED <<ctx, hookv, target, cursor, breaked, port, driver, sent>>

NoRequest ==
  /\ pc = "request" /\ inbox = <<>> /\ driver # "gone"
  /\ pc' = "fetch"
  /\ UNCHANGED <<ctx, hookv, target, thread>>

DriverClosed == pc = "request" /\ inbox = <<>> /\ driver = "gone" /\ Die("exited")

Respond ==
  /\ pc = "respond"
  /\ driver' = IF driver = "waiting" THEN "idle" ELSE driver
  /\ IF quitting
       THEN Ends("exited", InsertedTraps)
       ELSE /\ pc' = "fetch"
            /\ UNCHANGED <<ctx, hookv, target, ret, calls, val, cursor, breaked, port>>
  /\ UNCHANGED <<inbox, sent>>

\* The number of the breakpoint that the bpstat of a stop at l lists first
FirstAt(l) ==
  CHOOSE n \in {b.num : b \in breakpoints} :
    /\ \E b \in breakpoints : b.num = n /\ b.loc = l
    /\ \A b \in breakpoints : b.loc = l => n <= b.num

SkipContinuous ==
  /\ pc = "fetch" /\ ~Attached
  /\ pc' = "request"
  /\ UNCHANGED <<ctx, hookv, target, thread>>

FetchNothing ==
  /\ pc = "fetch" /\ Attached /\ event = NoEvent
  /\ pc' = "hookT" /\ cursor' = 0 /\ breaked' = 0
  /\ UNCHANGED <<ctx, hookv, target, ret, calls, val, port, driverv>>

FetchBreakpoint ==
  /\ pc = "fetch" /\ Attached
  /\ event # NoEvent /\ event.kind = "breakpoint"
  /\ Consume
  /\ stopped' = TRUE
  /\ pc' = "hookT" /\ cursor' = 0 /\ breaked' = FirstAt(event.loc)
  /\ UNCHANGED <<attached, exited, PID, quitting, hookv, bpv, alive, stale, killed>>
  /\ UNCHANGED <<ret, calls, val, port, driverv>>

FetchExit ==
  /\ pc = "fetch" /\ Attached
  /\ event # NoEvent /\ event.kind = "exit"
  /\ Consume
  /\ exited' = TRUE /\ pc' = "request"
  /\ UNCHANGED <<attached, stopped, PID, quitting, hookv, bpv, alive, stale, killed>>
  /\ UNCHANGED thread

\* fetch_inferior_event_JG takes the breakpoint of a bpstat that a stop by a
\* signal does not have, after normal_stop has removed the breakpoints
FetchCrashes ==
  /\ pc = "fetch" /\ Attached
  /\ event # NoEvent /\ event.kind \in {"interrupt", "signal"}
  /\ Ends("crashed", {}) /\ UNCHANGED driverv

Step(i) == cursor' = i + 1

\* An index at or past the array's end holds no hook that can be looked at
ScanCrashes ==
  /\ pc \in {"hookT", "hookB"} /\ cursor < count /\ ~IsHook(cursor)
  /\ Die("crashed")

\* Mutant: the last hook of the array is not looked at
EndScanOneShort ==
  /\ pc \in {"hookT", "hookB"} /\ cursor >= count - 1
  /\ pc' = IF pc = "hookT" THEN "hookB" ELSE "resume"
  /\ cursor' = 0
  /\ UNCHANGED <<ctx, hookv, target, ret, calls, val, breaked, port, driverv>>

EndScan ==
  /\ pc \in {"hookT", "hookB"} /\ cursor >= count
  /\ pc' = IF pc = "hookT" THEN "hookB" ELSE "resume"
  /\ cursor' = 0
  /\ UNCHANGED <<ctx, hookv, target, ret, calls, val, breaked, port, driverv>>

Current == Hook(cursor)

\* Mutant: timed hooks are looked at only when the target happens to be stopped
TimeIsUpIfStopped == Current.enabled /\ Current.kind = "T" /\ Current.due /\ stopped

TimeIsUp == Current.enabled /\ Current.kind = "T" /\ Current.due

\* Mutant: any breakpoint fires any breakpoint hook
IsReachedAnywhere == Current.enabled /\ Current.kind = "B" /\ breaked # 0

IsReached ==
  Current.enabled /\ Current.kind = "B" /\ breaked # 0 /\ breaked = Current.bp

SkipHook ==
  /\ pc \in {"hookT", "hookB"} /\ cursor < count /\ IsHook(cursor)
  /\ IF pc = "hookT" THEN ~TimeIsUp ELSE ~IsReached
  /\ Step(cursor)
  /\ UNCHANGED <<ctx, hookv, target, pc, ret, calls, val, breaked, port, driverv>>

\* BE_hook_handle: evaluate the action, then go on at "after"
Run(after) ==
  /\ calls' = Current.action /\ val' = Void
  /\ pc' = "eval" /\ ret' = after
  /\ hooks' = [hooks EXCEPT ![cursor + 1].fired = IF @ < 2 THEN @ + 1 ELSE @]

TimedHook ==
  /\ pc = "hookT" /\ cursor < count /\ IsHook(cursor) /\ TimeIsUp
  /\ IF stopped
       THEN Run("hookTDone") /\ UNCHANGED sigint
       ELSE Interrupt("hookWait") /\ UNCHANGED <<hooks, calls, val, ret>>
  /\ UNCHANGED <<ctx, count, tracev, bpv, event, alive, stale, killed>>
  /\ UNCHANGED <<cursor, breaked, port, driverv>>

TimedHookStopped ==
  /\ pc = "hookStopped"
  /\ IF inferior = NoPid
       THEN Unwind /\ UNCHANGED <<stopped, hooks, calls, val, ret>>
       ELSE stopped' = TRUE /\ Run("hookTDone")
  /\ UNCHANGED <<attached, exited, PID, quitting, count, target>>
  /\ UNCHANGED <<cursor, breaked, port, driverv>>

\* Mutant: a repeating hook is run again as long as its time is up, and the
\* time is not started again
TimedHookDoneAgain ==
  /\ pc = "hookTDone"
  /\ IF Current.repeat
       THEN UNCHANGED <<hooks, cursor>>
       ELSE hooks' = [hooks EXCEPT ![cursor + 1].enabled = FALSE] /\ Step(cursor)
  /\ pc' = "hookT"
  /\ UNCHANGED <<ctx, count, target, ret, calls, val, breaked, port, driverv>>

TimedHookDone ==
  /\ pc = "hookTDone"
  /\ hooks' = IF Current.repeat THEN [hooks EXCEPT ![cursor + 1].due = FALSE]
                                 ELSE [hooks EXCEPT ![cursor + 1].enabled = FALSE]
  /\ Step(cursor) /\ pc' = "hookT"
  /\ UNCHANGED <<ctx, count, target, ret, calls, val, breaked, port, driverv>>

BreakpointHook ==
  /\ pc = "hookB" /\ cursor < count /\ IsHook(cursor) /\ IsReached
  /\ Run("hookBDone")
  /\ UNCHANGED <<ctx, count, target, cursor, breaked, port, driverv>>

\* Mutant: the repeat flag of the event is not looked at
BreakpointHookDoneRepeats ==
  /\ pc = "hookBDone"
  /\ Step(cursor) /\ pc' = "hookB"
  /\ UNCHANGED <<ctx, hookv, target, ret, calls, val, breaked, port, driverv>>

BreakpointHookDone ==
  /\ pc = "hookBDone"
  /\ IF Current.repeat
       THEN UNCHANGED <<hooks, bpv>>
       ELSE /\ Delete(Current.bp)
            /\ hooks' = [hooks EXCEPT ![cursor + 1].enabled = FALSE]
  /\ Step(cursor) /\ pc' = "hookB"
  /\ UNCHANGED <<ctx, count, tracev, procv, ret, calls, val, breaked, port, driverv>>

\* Mutant: the loop goes on when the target cannot be continued
ContinueTargetForgives ==
  /\ pc = "resume"
  /\ pc' = "request" /\ stopped' = FALSE
  /\ IF stopped /\ inferior # NoPid /\ held
       THEN held' = FALSE /\ at' = NoLoc
       ELSE UNCHANGED <<held, at>>
  /\ UNCHANGED <<attached, exited, PID, quitting, hookv, inferior, bpv, procv, thread>>

\* The end of BE_do_continuous (call graph tracking is never switched on)
ContinueTarget ==
  /\ pc = "resume"
  /\ IF stopped
       THEN Continue("request") /\ stopped' = ~(inferior # NoPid /\ held)
       ELSE pc' = "request" /\ UNCHANGED <<stopped, held, at>>
  /\ UNCHANGED <<attached, exited, PID, quitting, hookv, inferior, bpv, procv, thread>>

-----------------------------------------------------------------------------
Loop ==
  \/ StartEventLoop \/ RestartFails \/ GetRequest \/ NoRequest \/ DriverClosed
  \/ Respond \/ SkipContinuous \/ FetchNothing \/ FetchBreakpoint \/ FetchExit
  \/ FetchCrashes \/ ContinueTarget

Hooks ==
  \/ ScanCrashes \/ EndScan \/ SkipHook \/ TimedHook \/ TimedHookStopped
  \/ TimedHookDone \/ BreakpointHook \/ BreakpointHookDone

API ==
  \/ WaitForInferior \/ WaitForever
  \/ Detach \/ Quit \/ SetTarget \/ DetachCrashes
  \/ StartObservation \/ StartBreakpointCall \/ MeasureOK \/ GdbOK \/ ObservationFails \/ ExpressionCrashes \/ Reach \/ Delay
  \/ AddHook \/ AddHookCrashes \/ Enable \/ Disable \/ StartKill \/ Kill
  \/ Store \/ StoreCrashes \/ Malformed \/ MalformedCrashes \/ Evaluated

Thread == Loop \/ Hooks \/ API

Target ==
  \/ HitBreakpoint \/ TakeInterrupt \/ TakeSignal \/ TargetExits
  \/ \E p \in Pids : UntracedEnds(p)

Driver == DriverGoes \/ \E r \in Requests : SendRequest(r)

Clock == \E i \in 0 .. MaxHooks - 1 : ClockPasses(i)

Next == Thread \/ Target \/ Driver \/ Clock

Spec == Init /\ [][Next]_vars

\* The loop's thread is scheduled, the kernel delivers a pending signal, and
\* the processor time that clock() counts passes while the loop polls.
Fairness ==
  /\ WF_vars(Thread) /\ WF_vars(TakeInterrupt)
  /\ \A i \in 0 .. MaxHooks - 1 : WF_vars(ClockPasses(i))

FairSpec == Spec /\ Fairness
=============================================================================
