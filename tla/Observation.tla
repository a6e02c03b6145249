---------------------------- MODULE Observation ----------------------------
(***************************************************************************)
(* What ME_API_measure sees of a stopped target: the frames of its stack,  *)
(* the frame that gdb has selected, the search of a variable that moves    *)
(* the selection outwards ("up"), the walk over the frames that makes a    *)
(* call stack, and the memory that an expression names.  The selected      *)
(* frame is gdb's, not the call's: calls of one action, and of all hooks   *)
(* of one stop, share it.                                                  *)
(***************************************************************************)
EXTENDS Integers, Sequences

CONSTANTS
  Vars,      \* names that requests ask for
  MaxDepth,  \* bound: frames of the target's stack
  MaxCalls,  \* bound: measurements made of one stop
  NoName

\* A frame: which names an expression evaluated there sees, and whether it is
\* the frame through which the kernel calls a signal handler
Frames == [seen : SUBSET Vars, trampoline : BOOLEAN]

ASSUME ObservationAssumption ==
  MaxDepth \in Nat \ {0} /\ MaxCalls \in Nat \ {0} /\ NoName \notin Vars

VARIABLES
  frames,    \* the frames of the stop, innermost first; <<>> while the target runs
  selected,  \* the frame that gdb has selected
  pc,
  mine,      \* stopped_here
  name,      \* the variable or address that is looked for
  from,      \* history: the frame selected when the measurement began
  walked,    \* the frames that are in the call stack, the last one outermost
  found,     \* the frame whose binding was measured, 0 for none
  calls      \* measurements begun since the target stopped

vars == <<frames, selected, pc, mine, name, from, walked, found, calls>>

Init ==
  /\ frames = <<>> /\ selected = 0 /\ pc = "running" /\ mine = FALSE
  /\ name = NoName /\ from = 0 /\ walked = <<>> /\ found = 0 /\ calls = 0

Stacks == UNION {[1 .. n -> Frames] : n \in 1 .. MaxDepth}

-----------------------------------------------------------------------------
(* Stops: normal_stop() selects the innermost frame.                       *)

\* Mutant: the selection survives a stop
StopsSelected(s) == frames' = s /\ selected' = IF selected \in DOMAIN s THEN selected ELSE 1

Stops(s) == frames' = s /\ selected' = 1

\* The feature's data and where its measurement starts
Begin(f) ==
  /\ calls < MaxCalls /\ calls' = calls + 1
  /\ name' \in IF f = "callstack" THEN {NoName} ELSE Vars
  /\ pc' = f /\ from' = selected' /\ walked' = <<>> /\ found' = 0

\* A request that measures finds the target running and stops it.
MeasureRunning(s, f) ==
  /\ pc = "running" /\ Stops(s) /\ mine' = TRUE /\ Begin(f)

\* A stop that runs hooks (BE_do_continuous)
HookStop(s) ==
  /\ pc = "running" /\ Stops(s) /\ pc' = "action" /\ mine' = FALSE /\ calls' = 0
  /\ UNCHANGED <<name, from, walked, found>>

\* An action measures: the target is stopped already.
MeasureStopped(f) ==
  /\ pc = "action" /\ UNCHANGED <<frames, selected, mine>>
  /\ Begin(f)

\* The actions of all hooks have run.
Resume ==
  /\ pc = "action"
  /\ pc' = "running" /\ frames' = <<>> /\ calls' = 0
  /\ UNCHANGED <<selected, mine, name, from, walked, found>>

-----------------------------------------------------------------------------
(* Features.                                                               *)

Outermost == selected = Len(frames)
Here      == frames[selected]

\* BE_get_variable finds the name.
ReadVar ==
  /\ pc = "var" /\ name \in Here.seen
  /\ found' = selected /\ pc' = "done"
  /\ UNCHANGED <<frames, selected, mine, name, from, walked, calls>>

\* ... but its value is not readable: gdb's error() unwinds the measurer.
ReadFails ==
  /\ pc \in {"var", "mem"} /\ name \in Here.seen
  /\ pc' = "unwound"
  /\ UNCHANGED <<frames, selected, mine, name, from, walked, found, calls>>

\* Mutant: the search ends one frame early
MoveUpShort ==
  /\ pc = "var" /\ name \notin Here.seen
  /\ IF selected + 1 >= Len(frames)
       THEN pc' = "done" /\ found' = 0 /\ UNCHANGED selected
       ELSE selected' = selected + 1 /\ UNCHANGED <<pc, found>>
  /\ UNCHANGED <<frames, mine, name, from, walked, calls>>

\* The name is not seen (parse_expression returns NULL): "up", whose error at
\* the outermost frame ends the search with "Could not find variable!".
MoveUp ==
  /\ pc = "var" /\ name \notin Here.seen
  /\ IF Outermost
       THEN pc' = "done" /\ found' = 0 /\ UNCHANGED selected
       ELSE selected' = selected + 1 /\ UNCHANGED <<pc, found>>
  /\ UNCHANGED <<frames, mine, name, from, walked, calls>>

\* BE_get_memory evaluates the address in the selected frame.  It uses the NULL
\* of an expression that did not parse.
ReadMemory ==
  /\ pc = "mem"
  /\ IF name \in Here.seen THEN pc' = "done" /\ found' = selected
                            ELSE pc' = "crashed" /\ UNCHANGED found
  /\ UNCHANGED <<frames, selected, mine, name, from, walked, calls>>

\* Mutant: the walk starts where gdb's selection is
CurrentFrameSelected == selected

CurrentFrame == 1    \* get_current_frame()

\* BE_get_call_stack_as_CG, frame by frame from the innermost; the frame of a
\* signal handler's caller ends the measurer.
WalkFrame ==
  /\ pc = "callstack"
  /\ LET fi == IF walked = <<>> THEN CurrentFrame ELSE walked[Len(walked)] + 1
     IN IF fi > Len(frames) THEN pc' = "done" /\ UNCHANGED walked
        ELSE IF frames[fi].trampoline THEN pc' = "exited" /\ UNCHANGED walked
        ELSE walked' = Append(walked, fi) /\ UNCHANGED pc
  /\ UNCHANGED <<frames, selected, mine, name, from, found, calls>>

\* continue_command_JG() if the call stopped the target
Finish ==
  /\ pc = "done"
  /\ IF mine THEN pc' = "running" /\ frames' = <<>> /\ calls' = 0
             ELSE pc' = "action" /\ UNCHANGED <<frames, calls>>
  /\ UNCHANGED <<selected, mine, name, from, walked, found>>

Features == {"var", "mem", "callstack"}

Measuring == ReadVar \/ ReadFails \/ MoveUp \/ ReadMemory \/ WalkFrame

Next ==
  \/ \E s \in Stacks : HookStop(s) \/ \E f \in Features : MeasureRunning(s, f)
  \/ \E f \in Features : MeasureStopped(f)
  \/ Measuring \/ Finish \/ Resume

Spec == Init /\ [][Next]_vars

-----------------------------------------------------------------------------
(* Properties.                                                             *)

Lost == {"unwound", "crashed", "exited"}

TypeOK ==
  /\ frames \in Seq(Frames)
  /\ selected \in Nat /\ from \in Nat /\ walked \in Seq(Nat)
  /\ pc \in {"running", "action", "done"} \cup Features \cup Lost
  /\ mine \in BOOLEAN /\ name \in Vars \cup {NoName}
  /\ found \in Nat /\ calls \in 0 .. MaxCalls
  /\ pc # "running" => frames # <<>> /\ selected \in 1 .. Len(frames)

Sees(n) == {k \in 1 .. Len(frames) : n \in frames[k].seen}

\* A variable measured by a call that stopped the target itself is the one that
\* the target's own code would see: the innermost binding; and it is reported
\* as not found only if no frame has it.
OwnStopReadsInnermost ==
  mine /\ pc = "done" /\ name # NoName =>
    IF found = 0 THEN Sees(name) = {}
    ELSE found \in Sees(name) /\ \A k \in Sees(name) : found <= k

\* Within one stop of hooks a search begins where the last one ended, so that a
\* binding further in is passed over or reported as not found; nothing else
\* is ever passed over.
OnlyFramesAlreadyLeftAreMissed ==
  pc = "done" /\ name # NoName =>
    \A k \in Sees(name) : (found = 0 \/ k < found) => k < from

\* Whatever was selected, a call stack has all frames of the target, unless the
\* target stands in a signal handler, which the measurer does not survive.
CallStackIsWhole ==
  /\ pc = "done" /\ name = NoName => walked = [k \in 1 .. Len(frames) |-> k]
  /\ pc = "exited" => \E k \in 1 .. Len(frames) : frames[k].trampoline

\* An address that the innermost frame sees crashes the measurer only when an
\* earlier search of the same stop has left that frame (the same request is
\* served when it comes alone).
MemoryCrashNeedsEarlierSearch ==
  pc = "crashed" /\ name \in frames[1].seen => ~mine /\ calls > 1
=============================================================================
