---------------------------- MODULE TestSession ----------------------------
(***************************************************************************)
(* The test of test/test_immediate as test/run.sh runs it: the measurer,   *)
(* the application that prestop.so holds before main(), and the driver     *)
(* whose requests the test asserts about.  Nothing but the requests        *)
(* relates the three processes: the driver does not know whether the       *)
(* measurer listens yet, nor how far the application is.                   *)
(***************************************************************************)
EXTENDS Integers, Sequences

CONSTANTS
  Garbage,  \* what "a" and "b" may hold before they are assigned
  Missing   \* the text "Could not find variable!"

ASSUME TestAssumption == Garbage \subseteq Int /\ Garbage # {} /\ Missing \notin Int

VARIABLES
  script,     \* the line of run.sh: "measurer", "application", "pidof", "driver", "kill", "done"
  measurer,   \* "absent", "starting", "listening", "serving", "ended"
  app,        \* the application's next instruction, 0 before it is executed
  start_stop, test_stop, a, b,
  driver,     \* "absent", "asking", "waiting", "closing", "ended"
  request,    \* the driver's next request, or the one that it waits for
  answer,     \* what the measurer answered it with
  target,     \* the measurer is attached to the application
  results,    \* what test_measurement got
  summary,    \* test_close() has written how many assertions ran
  servedAt    \* history: where the application was when a request was served

memory   == <<start_stop, test_stop, a, b>>
vars     == <<script, measurer, app, memory, driver, request, answer, target, results, summary,
              servedAt>>

-----------------------------------------------------------------------------
(* The application: prestop.c before main(), then app.c.                   *)

Program == <<"map_prestop", "set_start_stop", "while_start_stop", "main",
             "set_a", "set_b", "set_test_stop", "while_test_stop",
             "increment_a", "set_test_stop", "while_test_stop">>
InMain == 4    \* main()'s frame exists behind this instruction
Dead   == 0

Runs(i) == app # Dead /\ app <= Len(Program) /\ Program[app] = i

MapLibrary == Runs("map_prestop") /\ app' = app + 1 /\ UNCHANGED memory

\* Mutant: the library's variable is not set again
HoldBeforeMainOnce ==
  /\ Runs("set_start_stop") /\ app' = app + 1 /\ UNCHANGED memory

HoldBeforeMain ==
  /\ Runs("set_start_stop") /\ app' = app + 1
  /\ start_stop' = 1 /\ UNCHANGED <<test_stop, a, b>>

\* Each turn reads the variable that gdb may have changed.
Wait ==
  /\ \/ Runs("while_start_stop") /\ start_stop = 0
     \/ Runs("while_test_stop") /\ test_stop = 0
  /\ app' = app + 1 /\ UNCHANGED memory

EnterMain ==
  /\ Runs("main") /\ app' = app + 1
  /\ a' \in Garbage /\ b' \in Garbage /\ UNCHANGED <<start_stop, test_stop>>

Assign ==
  /\ \/ Runs("set_a") /\ a' = 45 /\ UNCHANGED <<b, test_stop>>
     \/ Runs("set_b") /\ b' = 2 /\ UNCHANGED <<a, test_stop>>
     \/ Runs("set_test_stop") /\ test_stop' = 1 /\ UNCHANGED <<a, b>>
     \/ Runs("increment_a") /\ a' = a + 1 /\ UNCHANGED <<b, test_stop>>
  /\ app' = app + 1 /\ UNCHANGED start_stop

Application ==
  /\ MapLibrary \/ HoldBeforeMain \/ Wait \/ EnterMain \/ Assign
  /\ UNCHANGED <<script, measurer, driver, request, answer, target, results, summary, servedAt>>

-----------------------------------------------------------------------------
(* The driver's requests, and what the test says that they return.         *)

Requests == <<[op |-> "set_target"],
              [op |-> "release", var |-> "start_stop"],
              [op |-> "measure", var |-> "a", expect |-> 45],
              [op |-> "measure", var |-> "b", expect |-> 2],
              [op |-> "release", var |-> "test_stop"],
              [op |-> "measure", var |-> "a", expect |-> 46],
              [op |-> "measure", var |-> "b", expect |-> 2],
              [op |-> "quit"]>>
Asserted == {i \in 1 .. Len(Requests) : Requests[i].op = "measure"}
Request  == Requests[request]

Connect ==
  /\ script = "driver" /\ driver = "absent" /\ measurer = "listening"
  /\ measurer' = "serving" /\ driver' = "asking" /\ request' = 1
  /\ UNCHANGED <<script, app, memory, answer, target, results, summary, servedAt>>

\* connect() fails, DI_init_measurer exits
ConnectionRefused ==
  /\ script = "driver" /\ driver = "absent" /\ measurer \in {"absent", "starting", "ended"}
  /\ driver' = "ended"
  /\ UNCHANGED <<script, measurer, app, memory, request, answer, target, results, summary, servedAt>>

Ask ==
  /\ driver = "asking" /\ driver' = "waiting" /\ answer' = <<>>
  /\ UNCHANGED <<script, measurer, app, memory, request, target, results, summary, servedAt>>

\* DI_send_request returns, and test_measurement compares what it returned.
Hear ==
  /\ driver = "waiting" /\ answer # <<>>
  /\ results' = IF request \in Asserted THEN Append(results, answer[1]) ELSE results
  /\ IF request = Len(Requests)
       THEN driver' = "closing" /\ UNCHANGED request
       ELSE driver' = "asking" /\ request' = request + 1
  /\ UNCHANGED <<script, measurer, app, memory, answer, target, summary, servedAt>>

\* test_close()
Close ==
  /\ driver = "closing" /\ driver' = "ended" /\ summary' = TRUE
  /\ UNCHANGED <<script, measurer, app, memory, request, answer, target, results, servedAt>>

\* The read returns 0: "Driver closed!" and exit(-1) in the driver.
HearEnd ==
  /\ driver = "waiting" /\ answer = <<>> /\ measurer = "ended"
  /\ driver' = "ended"
  /\ UNCHANGED <<script, measurer, app, memory, request, answer, target, results, summary, servedAt>>

-----------------------------------------------------------------------------
(* The measurer.  It works on the application while that is stopped, so    *)
(* the work of a request is one step.                                      *)

Listen ==
  /\ measurer = "starting" /\ measurer' = "listening"
  /\ UNCHANGED <<script, app, memory, driver, request, answer, target, results, summary, servedAt>>

Serving(op) ==
  /\ measurer = "serving" /\ driver = "waiting" /\ answer = <<>> /\ Request.op = op
  /\ servedAt' = Append(servedAt, app)

Answer(v) == answer' = <<v>>
AsItWas   == UNCHANGED <<script, app, driver, request, results, summary>>

\* attach fails when the application is gone
SetTarget ==
  /\ Serving("set_target") /\ Answer("void") /\ target' = (app # Dead)
  /\ AsItWas /\ UNCHANGED <<measurer, memory>>

\* (gdb "set v=0"); gdb knows the variables of app.o and of the libraries
\* that are mapped.
Known(v) == v = "test_stop" \/ app > 1

Release ==
  /\ Serving("release") /\ target /\ Known(Request.var)
  /\ Answer("void")
  /\ \/ Request.var = "start_stop" /\ start_stop' = 0 /\ UNCHANGED test_stop
     \/ Request.var = "test_stop" /\ test_stop' = 0 /\ UNCHANGED start_stop
  /\ AsItWas /\ UNCHANGED <<measurer, target, a, b>>

\* gdb parses no name that it does not know: parse_expression returns NULL, "set"
\* looks into it, and the measurer crashes
ReleaseFails ==
  /\ Serving("release") /\ target /\ ~Known(Request.var)
  /\ measurer' = "ended" /\ target' = FALSE
  /\ AsItWas /\ UNCHANGED <<memory, answer>>

\* Mutant: whatever is asked for, "a" is read
MeasureFirst ==
  /\ Serving("measure") /\ target
  /\ Answer(IF app <= InMain THEN Missing ELSE a)
  /\ AsItWas /\ UNCHANGED <<measurer, target, memory>>

\* (measure (var "...")): a variable of main() while its frame exists, else the
\* search goes up to the outermost frame in vain
Measure ==
  /\ Serving("measure") /\ target
  /\ Answer(IF app <= InMain THEN Missing ELSE IF Request.var = "a" THEN a ELSE b)
  /\ AsItWas /\ UNCHANGED <<measurer, target, memory>>

Quit ==
  /\ Serving("quit") /\ Answer("void")
  /\ target' = FALSE
  /\ AsItWas /\ UNCHANGED <<measurer, memory>>

\* quitting ends the loop once the request is answered
QuitEnds ==
  /\ measurer = "serving" /\ answer # <<>> /\ Request.op = "quit" /\ driver # "asking"
  /\ measurer' = "ended"
  /\ UNCHANGED <<script, app, memory, driver, request, answer, target, results, summary, servedAt>>

-----------------------------------------------------------------------------
(* run.sh.                                                                 *)

LaunchMeasurer ==
  /\ script = "measurer" /\ script' = "application" /\ measurer' = "starting"
  /\ UNCHANGED app

\* in the background, in a screen of its own
LaunchApplication == script = "application" /\ script' = "pidof" /\ UNCHANGED <<measurer, app>>

Executed == script = "pidof" /\ app = Dead /\ app' = 1 /\ UNCHANGED <<script, measurer>>

\* while [ "$APP_PID" = "" ]
PidOf == script = "pidof" /\ app # Dead /\ script' = "driver" /\ UNCHANGED <<measurer, app>>

DriverTerminated ==
  script = "driver" /\ driver = "ended" /\ script' = "kill" /\ UNCHANGED <<measurer, app>>

Kill == script = "kill" /\ script' = "done" /\ app' = Dead /\ measurer' = "ended"

Shell ==
  /\ LaunchMeasurer \/ LaunchApplication \/ Executed \/ PidOf \/ DriverTerminated \/ Kill
  /\ UNCHANGED <<memory, driver, request, answer, target, results, summary, servedAt>>

Driver   == Connect \/ ConnectionRefused \/ Ask \/ Hear \/ Close \/ HearEnd
Measurer == Listen \/ SetTarget \/ Release \/ ReleaseFails \/ Measure \/ Quit \/ QuitEnds

Init ==
  /\ script = "measurer" /\ measurer = "absent" /\ app = Dead
  /\ start_stop = 0 /\ test_stop = 0 /\ a = 0 /\ b = 0
  /\ driver = "absent" /\ request = 0 /\ answer = <<>> /\ target = FALSE
  /\ results = <<>> /\ summary = FALSE /\ servedAt = <<>>

Next == Application \/ Driver \/ Measurer \/ Shell

Spec == Init /\ [][Next]_vars

-----------------------------------------------------------------------------
(* Properties.                                                             *)

TypeOK ==
  /\ script \in {"measurer", "application", "pidof", "driver", "kill", "done"}
  /\ measurer \in {"absent", "starting", "listening", "serving", "ended"}
  /\ driver \in {"absent", "asking", "waiting", "closing", "ended"}
  /\ app \in 0 .. Len(Program) /\ request \in 0 .. Len(Requests)
  /\ start_stop \in 0 .. 1 /\ test_stop \in 0 .. 1 /\ a \in Int /\ b \in Int
  /\ Len(answer) <= 1 /\ Len(results) <= 4 /\ Len(servedAt) <= Len(Requests)
  /\ target \in BOOLEAN /\ summary \in BOOLEAN

Served(i, from) == Len(servedAt) >= i /\ servedAt[i] >= from
Expected == <<45, 2, 46, 2>>

\* main() runs only after a release that came when prestop.so was waiting for it;
\* an earlier one is lost, as start_stop is set to 1 after it.
MainWaitsForRelease == app >= InMain => Served(2, 3)

\* When every assertion holds, no release was lost, whatever the variables held
\* before they were assigned: the test cannot pass by accident.
PassingTestsReleased == results = Expected => Served(2, 3) /\ Served(5, 8)

\* When every request comes late enough, every assertion so far holds.
LateRequestsPass ==
  Served(2, 3) /\ (Len(results) >= 1 => Served(3, 6)) /\ (Len(results) >= 2 => Served(4, 7))
    /\ (Len(results) >= 3 => Served(5, 8) /\ Served(6, 10))
  => results = SubSeq(Expected, 1, Len(results))

\* A summary in test.out stands for four assertions.
SummaryCountsAll == summary => Len(results) = 4

\* What test_immediate asserts: each measurement is what main() has assigned by
\* then.
AssertionsHold == \A i \in 1 .. Len(results) : results[i] = Expected[i]
=============================================================================
