# A verification of the application measurer

The measurer is a gdb 7.9 whose event loop was replaced. It attaches to a
target process, takes requests in a small language (RLI) from a driver over a
socket, measures the target (call stacks, variables, memory), sets *hooks* that
measure later (when a place is reached, a system call is made or a time has
passed), keeps measurements in a *store*, and answers loads from it. This
directory models it in TLA+, checks the models with TLC and proves the safety
properties with TLAPS.

Paths such as `driver-interface.c` are under `src/gdb-7.9/gdb/`.

## 1. Inventory

| Component | Code | State | Operations |
|---|---|---|---|
| Request loop | `event-loop.c:323` `start_event_loop`, `driver-interface.c:130` `BE_get_request`, `:204` `BE_do_continuous`, `main.c:1154` | `the_context` (attached, stopped, exited, PID, driverfd), `quitting` | start a session, poll for a request, evaluate, answer, poll for a stop, handle hooks, continue |
| Measurement API | `ME_RLI_IR_API.c`, `driver-interface.c:356-622` `ME_API_*` | the same; gdb's selected frame | set_target, detach, quit, measure, gdb, store, load, delay, reach, reach_func, reach_syscall, hook, kill, enable, disable, eq, seq, if, print_context |
| Hooks and events | `driver-interface.c:32-79`, `:272-350`; `ME_common.c:949` on | `hook_array` (64 entries and a count), events with a start time or a breakpoint number | add, get, handle (two passes), run, kill, enable, disable |
| gdb's hold on the target | `infrun.c` (`wait_for_inferior`, `fetch_inferior_event_JG`), `infcmd.c`, `linux-nat.c`, `breakpoint.c`, `target.c` | the inferior, whether it is held, breakpoints and their numbers | interrupt, wait, continue, attach, detach, break, delete |
| Target and kernel | the target's own code; ptrace and signals | running, a reported stop, pending SIGINT, traps in memory | hit a breakpoint, take a signal, exit |
| Driver | `src/client/driver-interface-FE.c`, `src/test/*/driver.c` | one open request | send, wait for the response, end |
| Wire | `ME_common.c:95-180`, `driver-interface-FE.c` | two streams of bytes | frames of 1024 bytes, cut or padded; JSON-RPC |
| Measurement store | `driver-interface.c:484-498`, `ME_common.c:696-805` | `the_context.store` (64 chains through `next`) | store, load, print and JSON of a chain |
| RLI | `ME_RLI_IR.c`, `ME_RLI_IR_API.c` | none between requests | tokenize, parse, evaluate, type checks |
| Call graphs, feature tables, `str_split` | `ME_common.c:26-90, 225-693`, `stack.c:1757` | trees of function numbers, a table of names | create, merge, copy, delete, encode, decode, print, JSON |
| Call graph tracking | `driver-interface.c:180-201` | `CG_tracking`, the graph | take a stack, merge it, delete it; nothing sets `CG_tracking` |
| prestop and the immediate test | `src/prestop`, `src/test/run.sh`, `src/test/test_immediate` | `start_stop` in the application, the test's results | hold before `main()`, release, assert, summarize |
| Dynamic-length protocol | `ME_common.c:182-215, 806` on | none | has no caller |
| parser, sample targets, the rest of gdb, bfd | `src/parser`, `src/app`, the rest of `src/gdb-7.9` | | older copy; targets to try by hand; third-party |

**How they interact.** One thread runs the loop. In each round it reads at most
one request, evaluates it to the end and answers it; then it looks for a stop
of the target without waiting, scans the hooks once for timed events and once
for the breakpoint that stopped the target, and continues the target if it is
stopped. A hook's action is evaluated by the same evaluator and calls the same
API as a request. API calls drive gdb through commands and through gdb's
internals; a gdb error unwinds past all of the measurer's frames to
`captured_main`, which starts `start_event_loop` again. The target runs beside
this thread, and the kernel between them; the driver is another process at the
other end of a TCP connection.

**What is hard.**
* A stop of the target races the interrupt that a call sends: the wait of the
  call takes whatever stop comes first.
* The flags of `the_context` are a second copy of what gdb knows, updated by
  hand, and a gdb error skips the updates. The selected frame is gdb's too, and
  is left where the last search of a variable ended.
* Actions run inside the scan of the hooks and may detach, quit, attach
  somewhere else or kill the very hook that runs.
* The number of a breakpoint is predicted before it is set.
* What the measurer leaves behind when it ends or detaches (traps in the
  target's code, a queued SIGINT) acts on the target later.
* TCP is a stream; both ends read it as if a `read()` returned a frame, and
  neither compares the ids of requests and responses.
* Fixed bounds (64 hooks, 64 slots, 64 bytes of a token, 1024 bytes of a frame)
  are not looked at or looked at without consequence; chains of the store and
  nested requests are followed by recursion.
* Call graphs are merged by copying parts of a stack that is then deleted.
* The driver of a test releases and measures an application whose progress it
  does not know.

**What makes it correct.** The target is never left stopped; the flags agree
with gdb wherever they are asked; a hook fires when, where and as often as its
event says, and its breakpoint lives as long as it does; every request is
answered, with its own answer; measuring does not harm the target; a
measurement reads the frame that was meant; a load gives what was stored; a
request is what its text says; a call graph has each call path once.
`PROJECT.json` lists the hazards line by line with the properties that cover
them. What nothing in the measurer can reach is listed without hazards: the
merge of call graphs, which nothing switches on, and the flat form, which only the
dynamic-length protocol would send.

## 2. The modules

| Module | What it is |
|---|---|
| `Measurer` | loop, API, hooks, gdb's hold on the target, target, kernel, driver, clock |
| `MeasurerProperties` | its type invariant, properties, and the inductive invariant `IInv` |
| `HookService` | what hooks promise a driver: which actions may run, when and where |
| `MCMeasurer` | requests and instances for TLC |
| `MeasurerProofs` | proofs about `Measurer`: the loop and its API, then the hooks |
| `Observation`, `ObservationProofs` | what `measure` reads in a stopped target: frames, gdb's selection, memory |
| `MeasurementLog` | what a driver expects of the store: a log in each slot |
| `MeasurementStore`, `MeasurementStoreProofs` | the store's heap, slots and the recursion of an answer; it implements the log |
| `RequestService` | what a driver expects of the wire: one request at a time, each evaluated and answered once |
| `Wire`, `WireProofs` | frames over a stream, both ends and their ways to end; it implements the service |
| `RLI` | tokenizer, parser and evaluator of the request language, as operators |
| `RequestReader`, `RequestReaderProofs` | tokenizer and parser as steps, with cursors, buffer and the C stack; they come to what `RLI` defines |
| `Requests`, `RLIProofs` | requests of any shape and what should come of them; parser and evaluator meet it |
| `MCRequestReader`, `MCRLIExpr` | the texts and the requests on which these are checked |
| `CallTree` | what a call graph promises: the set of call paths it was given |
| `CallGraph`, `CallGraphProofs` | call graphs on the heap: stacks taken, merged, copied and deleted; they implement the call tree |
| `MeasurementData` | measurements as values: JSON, flat form, feature table, `str_split` |
| `CallGraphTransfer` | every call graph that comes about, in both forms of `MeasurementData` |
| `TestSession`, `TestSessionProofs` | the immediate test: shell, application, `prestop.so`, measurer, driver |
| `MCMeasurementStore`, `MCWire`, `MCObservation`, `MCCallGraph`, `MCTestSession` | instances for TLC |

### Measurer

*State.* The flags of `the_context`, `hooks` and `count` are the code's.
`hooks` holds the entries that were added; `count` is kept apart because entry
64 of the array **is** the count. `inferior`, `held` and `at` are gdb's view of
the target, `event` is a stop that the kernel holds for `waitpid`, `sigint` a
pending SIGINT, `stale` the traps left in a process's code. `lost`, `killed`
and a hook's `fired` are history: no action looks at them. `pc` is where the
thread is, `calls` the API calls that the evaluation of the request or action
has still to make, `val` the last result, `ret` where evaluation returns to.

*A request is a sequence of calls.* The evaluator makes the calls of an
expression with the arguments first and left to right, so `(hook (reach ...)
'action)` is `reach`, then `hook` with the event in `val`. The quoted action
is data of the call. That a request *is* its calls is checked on `RLI`
(`ArgumentsAreLastResults`). A request that fails the checks of its arguments
makes the first of the calls it says (`ErrorsEndTheRequest`), which is a
request of `Measurer` too.

*Grain of atomicity.* The thread's steps are separated wherever another process
can act in between with consequence: a call that stops the target is
`StartObservation` or `StartBreakpointCall` (the interrupt),
`WaitForInferior`, and the body (`MeasureOK`, `Reach`, `Kill`, ...) with the
continue at its end. Calls that do not stop the target are one step. The scan
of the hooks makes one step for each hook (`SkipHook`, `TimedHook`,
`BreakpointHook`, then `...Done`), `BE_do_continuous` is `Fetch*`, the two
scans, `ContinueTarget`.

*Failure.* gdb's `error()` is `Unwind`: control goes to `pc = "start"`, where
`RestartFails` says what happens there, since the old connection still holds
the port. Undefined behaviour is a choice: an unparsed request either leaves
no harm or crashes (`Malformed`, `MalformedCrashes`), and a 65th hook leaves
the count negative or too large (`AddHook`, `ScanCrashes`, `AddHookCrashes`).
`parse_expression` returns NULL where gdb would throw, and `BE_get_memory` and
gdb's `set` look into it: such a call fails or crashes (`ObservationFails`,
`ExpressionCrashes`).

*External.* The target, the kernel and the clock are modelled from how gdb uses
them. A stop is of kind breakpoint, interrupt (a SIGINT of ours), signal or
exit. Tracing ends with `LetGo`: the traps named stay, and a queued SIGINT may
kill the process.

### Observation

A stop is a stack of frames; a frame is the set of names that an expression
evaluated in it sees, and whether it is the one through which a signal handler
is called. `Stops` is `normal_stop`, which selects the innermost frame;
`ReadVar`, `MoveUp` and `ReadFails` are the loop of `ME_API_measure` that
evaluates the name and goes `up` until there is no frame left; `WalkFrame` is
the walk that makes a call stack, which starts at the innermost frame whatever
is selected and ends the measurer in a signal handler; `ReadMemory` evaluates an
address once. `from` is history: where the search began.

### MeasurementStore

Measurements are numbered in the order of `malloc`; `next[m]` is the pointer.
`StoreFresh` is a store of a measurement just taken, `StoreLoaded` is
`(store i (load j))`, `StoreNull` a store of NULL. `Load`, `Descend` and
`SendResponse` are the recursion of `ME_measurement_print` and
`ME_measurement_toJSON`, one level a step, and `StackOverflow` is its failure.
An index past the end is used all the same (`outside`), after which the model
says only that the measurer may crash (`Corrupted`). `MeasurementLog` has one
sequence for each slot; `Log` in `MeasurementStore` maps the store to it.

### Wire

Each direction is the sequence of texts written to it and the position of its
reader (frame and offset). A `read()` returns as many bytes as it likes
(`Pieces`) of what was written; `Heard` is what the `strcpy` of the reader makes
of them: padding is an empty text, a text whose end is missing is no JSON, and a
text that fills its frame has no terminator. The measurer passes over an empty
text, and ends at one it cannot parse or that has no expression; the driver does
not survive anything but a whole response. Either process may end at any time;
one that ends with bytes unread resets the connection, which the other learns
when it reads, or dies of when it writes. What an evaluation does is left open
(`Measurer` says it): it is answered, or the measurer ends or hangs.

### RLI and RequestReader

In `RLI` the three passes over a request are operators: `Tokenize` takes a text
to tokens, `Parse` is the recursive descent with its cursor as an index, `Eval`
takes expressions to their values and the calls of the API they make. A word or
a number is one character. What the code recurses on is a recursive function
here, of a place in the text, of a cursor, or of an expression on a *heap*: a
sequence of expressions that hold the numbers of earlier ones, as an `ME_RLI_IR_expr`
holds pointers to those that were made before it. The quirks of the code are kept: blanks at an end make
an empty token, anything but an opening parenthesis or a tick is a value, text
after the first expression is ignored, a tick at the end makes the parser look
through a NULL cursor, both branches of an `if` are evaluated, `seq` drops
errors. `API` is the table of argument and result types that the
`ME_RLI_IR_API_` functions spell out one by one.

`Requests` grows an expression by putting it into any function of `Arity`, in any
place, with right and wrong neighbours, or behind a tick. Its properties compare
`RLI` with definitions that work the other way: the text of an expression, its
static type, its calls in postorder.

`RequestReader` is the first two passes as a machine, one character or token a
step. `curr` and `start` are the tokenizer's cursors, `pc` the loop it is in;
`stack` is what the parser's calls on the C stack wait for. `ReadsAsDefined`
compares it with `RLI` at every step, and `LayoutDoesNotMatter` the readings of a
text with those of the same text laid out in another way. What it should read is also said without recursion:
`TokensAreThoseOfTheText` says where a token begins and ends in the text, and
`Derived` is the grammar of requests as the least set closed under its rules, in
tokens: an expression is a literal (any token but an opening parenthesis or a
tick), a tick and an expression, or an opening parenthesis, a name (any token but
a closing parenthesis), expressions and a closing parenthesis.

### CallGraph and MeasurementData

`heap` has the nodes that are allocated, named by the number of their `malloc`.
`WalkFrame` is `ME_CG_from_frame` with the link to the node inside it, and
`WalkExits` its `exit()` at a frame that is no function's (of a signal handler's
caller, say);
`KeepStack` makes the first stack the graph; `MergeAlong`, `MergeDown`,
`AttachSibling`, `AttachChild` and `MergeEnds` are the branches of
`ME_CG_merge_stack`, and `Copy` is `ME_CG_copy` of the rest of the stack;
`DeleteStack` is `ME_CG_delete`. `path` and `order` are history: the call path
of a node and its place among its siblings. `CallTree` is a set of call paths
that grows by the prefixes of one stack at a time.

`MeasurementData` has the conversions as operators: the feature table, its text
and `str_split`, the flat form of a graph (`CG_encode`, `CG_decode`), the JSON of
measurements and what is read back from it. What is written is a graph on a heap,
a function from the addresses of its nodes, and the recursions of the code are
recursive functions of the address, so that they can be proved about; what is
read is a value. The text of an empty table is not written at all (its end goes in
front of the buffer), so it is `Undefined`. `CallGraphTransfer` applies them to every graph that the merge
makes.

### TestSession

Five processes, each with its own place in its program: `run.sh`, the
application (`prestop.c` before `main()`, then `app.c`), the measurer as far as
the test's eight requests reach it, and the driver. Nothing but the requests
relates them, so that each may be as fast or slow as it likes. `servedAt` is
history: where the application was when a request was served.

## 3. What TLC checks

| Run | Asks | Bounds | States |
|---|---|---|---|
| `reach` | `ContextAgreesWithGdb`, `MeasuringIsHarmless`, `HooksMatchBreakpoints`, `CaughtHitsRunAHook`, `HookRunsAtItsPlace`, `CrashesNeedACause`: two targets, requests that measure at once, hooks at two places | 3 hooks, 4 requests | 1,080,000 |
| `timed` | `RequestsAreAnswered`, `TimedHooksRun` (liveness) | 2 hooks, 3 requests | 61,054 |
| `action` | `HangsOnlyInAction`, `NoServiceAfterQuit`, `TargetRunsBetweenRequests`, `HarmIsExplained`, `StrayInterruptNeedsLostStop`, `CrashesNeedACause`, `HooksAreAService` (refinement): actions that detach, attach, quit, kill and reach; bad names, signals, requests that do not parse, more hooks than fit | 2 hooks fit, 4 requests | 1,810,000 |
| `observe` | `OwnStopReadsInnermost`, `OnlyFramesAlreadyLeftAreMissed`, `CallStackIsWhole` | 2 names, 3 frames, 3 measurements of a stop | 58,692 |
| `store` | `CrashesAreExplained`, `LoadsAreAnswered` (liveness), `StoreImplementsLog` (refinement) | 2 slots and an index past them, 3 measurements, a stack of 4 | 486,673 |
| `wire` | `CrashesAreExplained`, `WireImplementsService` (refinement), `RequestsAreAnswered`, `SessionsEnd` (liveness) | frames of 3 bytes, texts of 1 to 4, reads of any length, 3 requests | 139,000 |
| `reader` | `OverrunNeedsLongToken`, `CrashNeedsLastTick`, `ReadsAsDefined`, `LayoutDoesNotMatter`, `EveryStepCounts` | every text of up to 6 of 6 characters, a buffer of 4 | 891,000 |
| `rli_expr` | `RequestsAreReadBack`, `TypedRequestsSucceed`, `ErrorsEndTheRequest`, `ArgumentsAreLastResults` | 7 expressions to begin with, 12 names of functions, each request put twice into another one with 5 neighbours | 217,000 |
| `graph` | `NodesHaveOneOwner`, `GraphIsACallTree` (refinement), `OutermostFunctionArrives`, `FlatFormIsReadBack` | 2 functions, frames without a name and of no function, stacks of up to 3 frames, 3 updates | 660,000 |
| `test` | `PassingTestsReleased`, `LateRequestsPass` | none: the test is finite | 282,000 |
| `store_bounds` | `StoresStayInBounds`, which the code violates | | |
| `test_asserts` | `AssertionsHold`, which the code violates | | |

**Why the bounds are enough.** Requests are bounded only by `MaxRequests`; the
hook array by `MaxHooks`. An interesting history is: attach, add two hooks (or
one and kill it, or one whose action does something unusual), and one more
request while the target hits a breakpoint: 4 requests. Two places tell a
hook's own breakpoint from another's, two hooks the first of a scan from the
next, three hooks one that is added while another is pending. In `action` the
array holds two hooks, so that a third overwrites the count and a fourth goes
astray; one request adds two at once. Two processes suffice for a target and
one that it is exchanged for. Three frames put one between the innermost and
the outermost, two names let a search pass a frame that sees something else,
and three measurements let a search begin where another one ended. In the store,
three measurements and two slots suffice for sharing, loss, and circles of every
length that can be told apart. Frames of three bytes can be cut in two places;
a text is shorter than one, fits with its terminator, fills it, or is longer.
Six characters are a function with an argument, a quoted function, and every way
to break them; requests nested four deep have every function of the language in
every argument place of another one that holds it. Three stacks of three frames
add a sibling behind one that was itself added, at every depth. The theorems of
section 4 do not depend on any of these bounds.
The runs have `CHECK_DEADLOCK FALSE`: when the measurer has ended and the
driver is gone, the text is read, the test is over or the bounds are used up,
the system stops.

**Fairness.** `Measurer!Fairness` is weak fairness of the loop's thread as a
whole (one thread, which the operating system schedules, and which never
blocks but in a wait that the model has as a step of its own), of the delivery
of a pending SIGINT to a running target, and of the passing of each hook's
time, which the loop's own polling consumes (`clock()` counts processor time).
Nothing is assumed of the target or of the driver: the target may never hit a
breakpoint, the driver may never send. `MeasurementStore!FairSpec` is weak
fairness of the recursion, which is one thread's and is not interrupted.
`Wire!FairSpec` is weak fairness of the measurer's thread and of the driver's
reading: both are processes that wait only for the stream. `observe`, `reader`,
`graph`, `test` and `rli_expr` check safety only; that reading a request ends
follows from `EveryStepCounts`, a measure that every step lowers.

**What the runs show.** The properties hold as stated, and how they have to be
stated is part of the result:
* The target is never left stopped between requests, gdb errors and actions
  included; for actions this holds because what they leave stopped the loop
  continues, or the measurer ends.
* The measurer can hang, but only in an action that sets or kills a breakpoint
  (`reach` and `kill` interrupt a target that is stopped already).
* A wait that takes a breakpoint hit in place of its own interrupt leaves a
  SIGINT pending; that one is later fetched as a stop without a breakpoint,
  which `fetch_inferior_event_JG` does not survive. `StrayInterruptNeedsLostStop`
  and `HarmIsExplained` say that this is the only way.
* The measurer crashes of its own calls (a detach from a process that has ended, an
  expression that does not parse, a NULL to store, a hook too many, a malformed
  request), of a scan of an overfull array, and of a stop without a breakpoint that
  one of these explains: the SIGINT of a lost stop, a trap left in the target, a
  signal of its own. `CrashesNeedACause` says that nothing else that races or fails
  takes it down: a target that exits while it is waited for, measured or scanned
  does not.
* A variable measured by a request is the innermost one of its name. Within one
  stop of hooks the second search starts where the first one ended, and a
  binding further in is passed over (`OnlyFramesAlreadyLeftAreMissed`).
* A request with a blank in front is a token that parses as 0: it is answered
  and nothing is done. Blanks elsewhere do not matter (`LayoutDoesNotMatter`).
* A well-typed request makes all of its calls in order. One that is not stops
  at its first error, but keeps what it did before: `(hook (reach ...) 5)` leaves
  a breakpoint that belongs to no hook.
* A driver never takes another request's answer for its own, although no id is
  compared; but a read that returns part of a frame makes the measurer take the
  start of the next request for padding, after which the two wait for each other
  (`RequestsAreAnswered` of `Wire` excepts that), or end.
* Storing a loaded measurement again breaks the chains: up to then each slot is
  a log, from then on chains may be shared, lose their tails or become circles,
  along which the answer to a load recurses until the stack is used up.
* A call stack arrives at the driver as its outermost function alone
  (`OutermostFunctionArrives`): `ME_CG_fromJSON` looks for a member that
  `ME_CG_toJSON` does not write.
* The immediate test cannot pass by accident, and passes if its requests come
  late enough; when they come early it fails although nothing is wrong.

**Findings.**
* `ME_API_store` prints "Could not store beyond bounds of measurement store!"
  (`driver-interface.c:486`) and stores beyond the bounds (`:488-489`); run
  `store_bounds`.
* `test_immediate` asserts what `a` and `b` hold right after each release
  (`src/test/test_immediate/driver.c:22`), and nothing makes its measurements
  wait for the application to get there, nor its release for `prestop.c` to have
  set the variable that it clears; run `test_asserts`.

Each property of a passing run has a mutant: a plausible error in the code under
which TLC finds the property violated. Mutated forms stand before the
definitions they replace, under a comment that begins with "Mutant".

## 4. What is proved

All theorems are for every value of the constants under the named assumptions,
which TLC evaluates on each instance:
* `NamesAreDistinct`, `BoundsAreNaturals` and `CallsAreWellFormed` of `Measurer`
  (a request is a sequence of calls with arguments of the right kind, hook
  indexes are within the array);
* `StoreAssumption` (the part that matters: the stack holds more frames than
  there are measurements), `WireAssumption` (a read returns at least a byte and
  at most a frame, texts are not empty), `ReaderAssumption` (a buffer has room
  for a character and its end), `RequestsAssumption` (the expressions to begin
  with are a heap, names are words), `ObservationAssumption`, `CallGraphAssumption`
  and `TestAssumption` (names that mark absence are no other names, bounds are
  numbers).

**`MeasurerProofs`.** `Invariance` proves `Spec => []IInv`; the others follow:
`TypeCorrectness`, `TargetIsNeverLeftStopped`, `ContextIsAccurate`,
`HangsAreActions`, `QuitIsFinal`, `StrayInterruptsAreLostStops`,
`HarmHasACause`, `MeasuringDoesNoHarm` and `CrashesHaveCauses`. None of these is inductive alone.
`IInv` adds
* `TraceInv`: a held inferior has no stop to report, and only a traced process has one;
* `FreshInv`: nothing has happened before the first `BE_context_create`, so that the flags it resets are not lost;
* `StoppedInv`: for each place in the thread, whether `stopped` and gdb's hold agree there. Direct calls find a running target and actions a stopped one, which is what decides whether a call of `measure` waits;
* `ContextInv`: between a wait and the work that follows it the target may have exited without the context knowing; everywhere else the two agree;
* `CallInv`: which call is being waited for, and that the remaining ones need not wait;
* `QuitInv`: after `quit` the target is not held, so the continue at the end of a scan fails and the loop is left;
* `InterruptInv`: a SIGINT is pending or reported, never both, unless a stop was lost;
* `HitInv`: a breakpoint stop that the loop fetches belongs to a breakpoint gdb still has;
* `ScanInv` and `NoBreakpointYetInv`.

There is one lemma for each group of actions and part of the invariant it can
disturb; each part was checked by TLC on the instances above first.
`CrashesHaveCauses` needs `CauseInv` as well: the count is the length of the array
unless the array is overfull (the scan reads no other entries), a reported exit is
of a process that has ended (a detach finds no other exit), a reported signal is the
target's own or of a trap left in it, and NULL is the last result only while nothing
is attached (`CrashStep` takes the ways to crash one by one).

**Hooks (also in `MeasurerProofs`).** `OneShotHooksFireOnce`: a one-shot breakpoint hook runs its
action at most once, for any requests, also if it is enabled again, killed or
scanned while other hooks of the same stop run. `OneShotInv` says why: a spent
hook either acts right now or its breakpoint is gone for good, its number is
below the next one that gdb gives, and the scan that ran it is past it or the
stop that it saw is no longer looked at. `KeepsHooks`, `KeepsNumbers` and
`KeepsPhase` are what most steps have in common.

`HooksRunAtTheirPlaces`: `HookRunsAtItsPlace` holds. A target that stands at a
hit stays there until the scan ends, unless an action lets it go (`PlaceInv`), a
hook's breakpoint has a number of its own that is not given again
(`NumberInv`), and under `ActionsObserve` no action lets go (`ActingInv`,
`ObserveInv`); `EventInvariance` proves these together.

`BreakpointsBelongToHooks` and `CaughtHitsAreHandled`: `HooksMatchBreakpoints`
and `CaughtHitsRunAHook` hold. Both say of which requests they are: under
`HooksAreKept` hooks are added at once where their breakpoint was set, killed
and run, and what they run only observes. `HookInvariance` is for these.
`ReachInv` says what each call of a request leaves to the next (after `reach`, a
breakpoint without a hook and `hook` as the next call), `KillInv` the same of a
hook that is off but whose breakpoint is not deleted yet, `CountInv` that the
count is the length of the array until the array is full. `MatchInv` and
`OwnedInv` relate breakpoints and hooks with these two exceptions, and
`CaughtInv` says that the hook of a hit is still ahead of the scan or has run.
The instance of `reach` meets the restriction, so the properties are not
empty there.

`HooksImplementTheirService`: without any restriction on requests the measurer
implements `HookService` (`HooksAreAService`). A hook's book entry is its record
without number and action; it acts while its action is evaluated; a hit is handled
from the fetch to the end of the scan for breakpoint hooks; the place is
where gdb holds the target, unless a call waits for a target that was let go; the
service closes when the loop ends or gdb's error unwinds it, since it cannot
be started again. The parts of the argument are the invariants above: a one-shot
hook is not run twice by `OneShotInv`, the place is right by `PlaceInv`, who acts is
at the cursor by `ActingInv`, registered hooks fit by `CountInv`; and a timed hook
that was found due before the wait for the target is still due and on after it
(`WaitInv`). `ViewKept` covers the steps in which no scan turns and no action begins
or ends, `RunBegins`, `RunEnds`, `FetchedHit`, `ScanEnds`, `SwitchStep`,
`RegisterStep`, `ClockStep` and `ClosingStep` the others.

**`ObservationProofs`.** For stacks of any depth: a search that began at the
innermost frame reads the innermost binding, a search passes over only frames
that an earlier one of the same stop has left, and a call stack is whole. The
invariant adds that no frame between the start of a search and the selected one
sees the name (`SearchInv`), that only a later call of a stop begins elsewhere
(`BeginInv`), and that the walk has the frames without a gap (`WalkInv`).
`MemoryCrashesHaveACause`: an address that the innermost frame sees crashes the
measurer only after an earlier search of the same stop.

**`MeasurementStoreProofs`.** `StoreInvariance` proves `Spec => []StoreInv`.
The argument: a measurement that is taken is linked to an older one
(`PointsBackInv`), so with every level of the recursion the number of the
measurement falls and depth plus number never exceeds what was taken
(`DepthInv`); and the answer is always a prefix of a slot's log, with the
recursion at the entry that follows (`AnswerInv`). From it come
`StoreTypeCorrectness`, `ChainsStayLogs`, `CrashesHaveACause` and
`StoreIsALog`: until a loaded measurement is stored, the store implements
`MeasurementLog` (a store is a step of the log, a response another, the rest
stutters).

**`WireProofs`.** No id is compared anywhere, so what keeps requests and
responses together is counted. `CountInv`: accepted, written, served and asked
each lag behind the next by at most one, by how much depends on where the two
processes are. `ReaderInv`: a reader that has taken some of the texts is past
the start of the last one, so that no read can join a piece of one with the
next as a whole text. `WholeInv`: as long as no read returned part of a frame, a
reader is exactly behind what it took. `WireIsAService` is the refinement of
`RequestService`; `WireCrashesHaveACause`, `AnswersStayInStep` and
`RequestsAreKept` (two waiting processes mean a read in pieces) are for frames
and texts of any size.

**`RequestReaderProofs`.** For texts of any length: cursors stay inside
(`CursorsStayInside`), tokens follow each other (`TokensFollowEachOther`), the
buffer is overrun only by a piece of text of its length that no boundary cuts
(`OverrunsHaveACause`), the parser looks through NULL only after a tick that
ends the text (`ParserCrashesHaveACause`), its recursion is never deeper than
the tokens it has passed (`RecursionIsBounded`), and every step leaves less work
(`ReadingIsBounded`). `TokenInv` says what the token being read is made of,
`TokenCountInv` that each token but an empty one at an end has a character of
its own, which bounds the number of tokens and so the work of the parser.

What is read is proved as well. `TokensAreRead`: the tokens are those of the
text, in order, none missed, split or joined; `ReadInv` adds where the token
being read begins and what it is so far. `ParserDecidesTheGrammar`: the parser
accepts a request exactly if it begins with an expression of the grammar, its
cursor then is where that expression ends and no other expression begins there,
and if it refuses or looks through NULL there is none. Neither direction needs
an induction over expressions, because the grammar is a least set: what the
parser reads is in every set closed under the rules (`Followed`: for each level
of the stack, what such a set still needs for the expression that began there),
and what no rule makes could be left out of the least one (`DerivedIsMade`), so
that a derivation of the whole request tells at every level where the parser
will come to (`Foreseen`).

`ReaderImplementsRLI`: the cursors, the buffer and the stack come to what `RLI`
defines by recursion, for malformed texts too. The tokens are `RLI`'s because
`TokensAreThoseOfTheText` is what `Cut` asks of their boundaries
(`TokensAreDefined`, `NoTokensAreDefined`). For the parser, `ReadingInv` says what
`RLI`'s reading still has to do: the expression of each level of the stack ends
as what that level waits for does (`Awaited`), and where a level reads nothing,
neither does all of the request (`Lost`). `LayoutIsNotRead` takes the two facts on
layout from `RLIProofs`; `Written` is `RLIProofs` without a heap, which no text
needs (`NoHeap`).

**`RLIProofs`.** For requests of any shape and size, which `RequestsAreFormed`
puts on a heap where the parts of an expression come before it; what is proved of
each from its parts holds of all (`InductionFromBelow`, applied in
`TypedEverywhere`, `ErrorEverywhere`, `LastEverywhere` and `ReadEverywhere`). The
recursive functions have the values of their equations (`EvalIs`, `TypeOfIs`,
`PostorderIs`, `TokensFromIs`, `ParserIs` and the like).
* *What is evaluated.* `FuncEval` is the center: a function is applied once all
  of its arguments have succeeded, and is otherwise an error, with the calls of
  the arguments up to the first one that failed. From it come
  `WellTypedRequestsSucceed`, `ErrorsEndRequests` (the calls made are the
  beginning of those the request says: `Begins`) and `RequestsAreTheirCalls`, for
  which `Chained` says that every object a call takes is what the call before it
  gave, and `LastGives` that an expression which is an object ends with the call that
  gave it.
* *What is read.* `RequestsAreWhatTheySay`: the text of a request is read as that
  request. `Reads` is what makes this an induction: wherever the text of an
  expression stands in a longer one, in front of a blank or a parenthesis, the
  tokenizer makes the same tokens of it and goes on with what is behind; and
  wherever these tokens stand, the parser makes the expression of them and its
  cursor is behind them. For a function this is shown from the last argument to the
  first (`ArgTokens`, `ArgsParsed`, `InductionDown`), as the recursion of the parser
  unwinds; `PartAt` and `PlacesAre` say where each argument stands.
* *Any text.* For texts that are no request as well, `CutTokens` and `CutFails` say
  what the tokens are once it is known where they begin and end, and `ParserEnds`
  where the parser stops. Both serve `RequestReaderProofs`, and so do two facts
  on layout, shown by induction from the end of the text or of the tokens
  (`InductionFromAbove`). `BlankAtEndIsNothing`: a blank at the end leaves the
  tokens as they are or adds an empty one (`MoreTokens`), and what was read or
  refused before still is (`SameReadings`). `SpreadIsReadBack`: whatever text they come
  from, tokens are tokens on their own (`TokensAreTokens`), so that with blanks
  between them each is cut out again (`LyingIsCut`).

**`CallGraphProofs`.** For any functions, stacks of any depth and any number of
updates: every node belongs to the graph or to the stack that is taken
(`OwnersAreUnique`), a call path has one node (`PathsAreUnique`), a stack is
deleted when all of it is in the graph (`StacksAreMerged`), the links form a tree
that the call paths can be read from (`LinksFormATree`), and the merge
implements `CallTree` (`GraphImplementsCallTree`). The siblings of a caller are
numbered (`order`). `OrderInv` says that their numbers are different and that
the one without a next sibling has the highest, and `MergeInv` that the merge has
passed all of a lower number and none of them is the function it looks for; so
what it does not find is not there. `Callers` gives every node's caller a node,
so that nothing in the graph can be below a path that is not in it. A copy is
treated once for both places it may hang at: `Copies` is what it adds, `Hangs`
what both places have in common, `GrownTree` and `GrownOwners` that the tree and
the ownership survive.

What arrives of a graph is proved too, for graphs of any shape and size and names
of any characters, under `NamesAreTexts` (a function has a name that is not
empty). `FlatFormIsFaithful`: `ME_CG_decode` makes the same graph of what
`ME_CG_encode` writes into a buffer of just the size that `ME_CG_count` finds, and
the text of the table is split back into its names up to the first one with a
blank. `OutermostFunctionIsWhatArrives`: of a graph that is sent as JSON the
outermost function arrives, and nothing else.
* *Recursion.* That a recursive definition of TLA+ has the value that its
  equation says has to be proved: a function with that equation must exist.
  `SetInduction` (a consequence of the library's theorem that `<` is well-founded,
  for a set of numbers) builds it in rounds. For the recursions along the links
  there are as many rounds as ranks: `HeapIsRanked` ranks the nodes of a call
  graph, callees below their callers and each sibling below the one before, and
  `LinkInduction` is the induction along the links that follows.
  `RecursionExists` and `RecursionIs` do the same for loops over a text or a list.
* *The numbers.* `FlatLength` (three for each node), `LinksInside` (the links in
  what is written of a node lead forward and stay in it), so that decoding comes to an
  end (`EncodedForward`, `DecodeIs`) and finds at each place what was written
  there (`HoldsParts`, `DecodeEncode`).
* *The text.* `Spelled` says where each name stands in it, `NamesArePieces` that
  `strtok` has cut the first m names when it is behind them, `PiecesStay` that later
  characters do not change them, `TableOfNames` that `ME_FT_add` gives them their
  old numbers because no name is in the table twice, and `ExpectsTheNames` that
  `str_split` counts as many strings as it finds.

**`TestSessionProofs`.** For whatever the variables held before they were
assigned: `MainIsReleased`, `NoTestPassesByAccident`, `LateTestsPass` and
`SummariesAreComplete`. The application only moves on, so an entry of `servedAt`
says how far it was from then on; `Fits` is what an answer says about where the
application was when it was given, and the reverse.

**Only model-checked.** Liveness, which is out of the prover's reach:
`RequestsAreAnswered` (of `Measurer` and of `Wire`), `TimedHooksRun`,
`LoadsAreAnswered`, `SessionsEnd`. Each of the invariants and of the other action
and refinement properties that the runs check is the statement of a theorem.

**Proved, and not a run's property.** `TokensAreThoseOfTheText` holds by TLC on
the texts of the run `reader` too; `ParsedIsAnExpression` quantifies over all sets
of constructs, which TLC can enumerate for two tokens and no more.
`CallPathsOccurOnce` and `StackIsMerged` are parts of the invariant behind
`GraphIsACallTree`, which the run `graph` checks.

## 5. What is not modelled

* Most of the repository. It is a copy of gdb 7.9 with bfd, opcodes,
  simulators and their tests, some two and a half million lines in which the
  measurer has a few thousand. The models cover the measurer and what of
  gdb it calls; the rest is third-party code whose correctness is not this
  project's question, so that the share of all lines that is covered stays
  small.
* Texts of responses and measurements as such: how gdb formats a value, how a
  graph or a table is printed. Lengths of frames and tokens are modelled, the
  length of strings inside a value (64 bytes, not looked at) is not.
* Hook indexes outside of the array (`driver-interface.c:78`, which takes
  whatever is there) and negative slot numbers. What is there depends on the
  build; `CallsAreWellFormed` excludes the first, and the hazard is listed
  without a property.
* `eq`, `seq`, `if`, `print`, `print_context` in `Measurer`: they change no state
  there, and `RLI` says what they evaluate. An event or a measurement that
  comes out of an `if` (`ArgumentsAreLastResults`) is not among its requests.
  `eq` compares two measurements and never finds two call stacks equal; the
  comparison is not modelled.
* `(gdb ...)` commands with effects of their own: in `Measurer` such a request
  succeeds, fails or crashes the measurer, in `Observation` none of them selects another frame.
* The dynamic-length protocol (`ME_measurement_send`, `ME_measurement_receive`,
  `DI_get_measurer_response`), which has no caller; the forms that it would send
  are operators of `MeasurementData`.
* The rest of gdb's hold on the target: threads, other kinds of stops, several
  inferiors.
* `src/parser`, an older copy of the RLI front end that nothing builds on;
  `src/app` and `src/prestop/time.c`.

## 6. What is left

1. An abstract target control (a target is observed, then runs on) that
   `Measurer` implements, with `Observation` as what happens in between.
2. The composition of `Wire` and `Measurer`, so that the end of a session on one
   side is the end of the loop on the other.
