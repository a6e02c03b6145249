----------------------------- MODULE MCMeasurer -----------------------------
(* Requests for the model-checking runs of Measurer, written as a driver    *)
(* would write them.                                                        *)
EXTENDS MeasurerProperties

CONSTANTS p1, p2, l1, l2, nowhere, sys1

SetTargetTo(p)  == [op |-> "set_target", pid |-> p]
DetachNow       == [op |-> "detach"]
QuitNow         == [op |-> "quit"]
Measure(f)      == [op |-> "measure", feature |-> f]
StoreIt         == [op |-> "store"]
Gdb(ok)         == [op |-> "gdb", ok |-> ok]
ReachAt(l, rep) == [op |-> "reach", loc |-> l, repeat |-> rep]
CatchAt(l, rep) == [op |-> "reach_syscall", loc |-> l, repeat |-> rep]
DelayBy(rep)    == [op |-> "delay", repeat |-> rep]
HookOf(action)  == [op |-> "hook", action |-> action]
KillHook(i)     == [op |-> "kill", i |-> i]
EnableHook(i)   == [op |-> "enable", i |-> i]
DisableHook(i)  == [op |-> "disable", i |-> i]
Garbage         == [op |-> "malformed"]

\* '(store 1 (measure (var "a")))
StoreVar   == <<Measure("var"), StoreIt>>
StoreStack == <<Measure("callstack"), StoreIt>>

\* (hook (delay 1000 rep (reach "a.c" l 0)) 'action): the type check of delay
\* wants an event, and only reach makes one
TimedBy(l, rep, action) == <<ReachAt(l, FALSE), DelayBy(rep), HookOf(action)>>

\* The calls in requests rs, those of hook actions included
CallsIn(rs) ==
  LET Of(s) == {s[k] : k \in 1 .. Len(s)}
      outer == UNION {Of(r) : r \in rs}
      inner == UNION {Of(c.action) : c \in {d \in outer : d.op = "hook"}}
  IN outer \cup inner

\* Measuring at once, with two targets (test_immediate/driver.c), and hooks at
\* locations (test_reach/driver.c)
ReachRequests ==
  { <<SetTargetTo(p1)>>, <<SetTargetTo(p2)>>, <<DetachNow>>, <<QuitNow>>,
    <<Measure("callstack")>>, StoreVar, <<Gdb(TRUE)>>,
    <<ReachAt(l1, FALSE), HookOf(StoreStack)>>,
    <<ReachAt(l2, TRUE), HookOf(StoreStack)>>,
    <<KillHook(0)>> }
ReachCalls == CallsIn(ReachRequests)

\* Hooks on time and on system calls, switched on and off
TimedRequests ==
  { <<SetTargetTo(p1)>>, <<DetachNow>>,
    TimedBy(nowhere, FALSE, StoreVar),
    TimedBy(l1, TRUE, StoreStack),
    <<EnableHook(0)>>, <<DisableHook(0)>>, <<KillHook(0)>> }
TimedCalls == CallsIn(TimedRequests)

\* Actions that use the API for more than measuring; and names that gdb does
\* not know, values it cannot read, a target with signals of its own, requests
\* that do not parse, more hooks than fit
ActionRequests ==
  { <<SetTargetTo(p1)>>, <<DetachNow>>, <<Garbage>>, <<QuitNow>>,
    <<ReachAt(l1, TRUE), HookOf(<<Measure("var"), DetachNow, Measure("var")>>)>>,
    <<ReachAt(l1, FALSE), HookOf(<<SetTargetTo(p1), Measure("callstack")>>)>>,
    <<ReachAt(l1, FALSE), HookOf(<<QuitNow>>)>>,
    <<ReachAt(l1, FALSE), HookOf(<<Gdb(TRUE)>>)>>,
    <<ReachAt(nowhere, FALSE), HookOf(<<Gdb(FALSE)>>)>>,
    <<CatchAt(sys1, FALSE), HookOf(<<Measure("mem")>>)>>,
    <<CatchAt(nowhere, FALSE)>>,
    TimedBy(nowhere, TRUE, <<KillHook(0)>>) \o TimedBy(nowhere, FALSE, <<ReachAt(l1, FALSE)>>),
    TimedBy(nowhere, FALSE, <<SetTargetTo(p1), ReachAt(l1, FALSE)>>) }
ActionCalls == CallsIn(ActionRequests)
=============================================================================
