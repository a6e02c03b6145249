-------------------------- MODULE TestSessionProofs --------------------------
(* Proofs about the test session, for whatever the variables of the         *)
(* application held before they were assigned: what a passed test shows,    *)
(* and when it passes.                                                      *)
EXTENDS TestSession, TLAPS

(***************************************************************************)
(* The inductive invariant.  "servedAt" has an entry for each request that *)
(* was answered, and the application only moves on until run.sh kills it,  *)
(* so that an entry says how far it was at least from then on.             *)
(***************************************************************************)

Texts == {"void", Missing} \cup Int

Types ==
  /\ script \in {"measurer", "application", "pidof", "driver", "kill", "done"}
  /\ measurer \in {"absent", "starting", "listening", "serving", "ended"}
  /\ driver \in {"absent", "asking", "waiting", "closing", "ended"}
  /\ app \in 0 .. 11 /\ request \in 0 .. 8
  /\ start_stop \in 0 .. 1 /\ test_stop \in 0 .. 1 /\ a \in Int /\ b \in Int
  /\ target \in BOOLEAN /\ summary \in BOOLEAN

Sequences ==
  answer \in Seq(Texts) /\ results \in Seq(Texts) /\ servedAt \in Seq(0 .. 11)

\* How many assertions come before request r
Before(r) == IF r <= 3 THEN 0 ELSE IF r = 4 THEN 1 ELSE IF r <= 6 THEN 2 ELSE IF r = 7 THEN 3 ELSE 4

CountInv ==
  /\ Len(answer) \in 0 .. 1 /\ Len(servedAt) \in 0 .. 8 /\ Len(results) \in 0 .. 4
  /\ driver = "absent" => servedAt = <<>> /\ results = <<>>
  /\ driver \in {"asking", "waiting", "closing"} => request \in 1 .. 8
  /\ driver \in {"asking", "waiting"} => Len(results) = Before(request)
  /\ driver = "asking" => Len(servedAt) = request - 1
  /\ driver = "waiting" => Len(servedAt) \in {request - 1, request}
  /\ driver = "waiting" /\ answer # <<>> => Len(servedAt) = request
  /\ driver = "waiting" /\ answer = <<>> /\ measurer = "serving" => Len(servedAt) = request - 1
  /\ driver = "closing" \/ summary => Len(results) = 4
  /\ Len(results) >= 1 => Len(servedAt) >= 3
  /\ Len(results) >= 2 => Len(servedAt) >= 4
  /\ Len(results) >= 3 => Len(servedAt) >= 6
  /\ Len(results) >= 4 => Len(servedAt) >= 7

ScriptInv ==
  /\ script \in {"measurer", "application"} => app = Dead
  /\ script \in {"measurer", "application", "pidof"} => driver = "absent"
  /\ script \in {"kill", "done"} => driver = "ended"
  /\ script = "done" => app = Dead
  /\ script # "done" => \A k \in 1 .. Len(servedAt) : servedAt[k] <= app

ApplicationInv ==
  /\ app = 3 /\ start_stop = 0 => Served(2, 3)
  /\ app >= 4 => Served(2, 3)
  /\ app = 8 /\ test_stop = 0 => Served(5, 8)
  /\ app >= 9 => Served(5, 8)
  /\ app = 11 => test_stop = 1
  /\ app \in 6 .. 9 => a = 45
  /\ app >= 10 => a = 46
  /\ app >= 7 => b = 2

\* What is known of answer v to request r, an asserted one
Fits(r, v) ==
  /\ r = 3 => /\ servedAt[3] >= 6 => v = 45
              /\ v = 45 => servedAt[3] >= 5 /\ (app \in 5 .. 9 => a = 45) /\ Served(2, 3)
  /\ r = 4 => (servedAt[4] >= 7 => v = 2)
  /\ r = 6 => /\ servedAt[6] >= 10 => v = 46
              /\ v = 46 /\ results[1] = 45 => Served(5, 8)
  /\ r = 7 => (servedAt[6] >= 10 => v = 2)

AnswerInv ==
  /\ driver = "waiting" /\ answer # <<>> => Fits(request, answer[1])
  /\ Len(results) >= 1 => Fits(3, results[1])
  /\ Len(results) >= 2 => Fits(4, results[2])
  /\ Len(results) >= 3 => Fits(6, results[3])
  /\ Len(results) >= 4 => Fits(7, results[4])

Inv == Types /\ Sequences /\ CountInv /\ ScriptInv /\ ApplicationInv /\ AnswerInv

-----------------------------------------------------------------------------
(* The program and the requests, by place.                                 *)

LEMMA ProgramPlaces ==
  ASSUME app \in 0 .. 11
  PROVE  /\ Len(Program) = 11
         /\ Runs("map_prestop") <=> app = 1
         /\ Runs("set_start_stop") <=> app = 2
         /\ Runs("while_start_stop") <=> app = 3
         /\ Runs("main") <=> app = 4
         /\ Runs("set_a") <=> app = 5
         /\ Runs("set_b") <=> app = 6
         /\ Runs("set_test_stop") <=> app \in {7, 10}
         /\ Runs("while_test_stop") <=> app \in {8, 11}
         /\ Runs("increment_a") <=> app = 9
<1>1. /\ Len(Program) = 11
      /\ Program[1] = "map_prestop" /\ Program[2] = "set_start_stop"
      /\ Program[3] = "while_start_stop" /\ Program[4] = "main" /\ Program[5] = "set_a"
      /\ Program[6] = "set_b" /\ Program[7] = "set_test_stop" /\ Program[8] = "while_test_stop"
      /\ Program[9] = "increment_a" /\ Program[10] = "set_test_stop" /\ Program[11] = "while_test_stop"
  BY DEF Program
<1>2. app \in {0, 1, 2, 3, 4, 5, 6, 7, 8, 9, 10, 11}
  OBVIOUS
<1>3. \A i : Runs(i) <=> app # 0 /\ Program[app] = i
  BY <1>1 DEF Runs, Dead
<1> HIDE DEF Program
<1>4. CASE app = 0
  BY <1>1, <1>3, <1>4
<1>5. CASE app \in {1, 2, 3, 4}
  BY <1>1, <1>3, <1>5
<1>6. CASE app \in {5, 6, 7, 8}
  BY <1>1, <1>3, <1>6
<1>7. CASE app \in {9, 10, 11}
  BY <1>1, <1>3, <1>7
<1> QED BY <1>2, <1>4, <1>5, <1>6, <1>7

LEMMA RequestPlaces ==
  ASSUME request \in 1 .. 8
  PROVE  /\ Len(Requests) = 8
         /\ Request.op = "set_target" <=> request = 1
         /\ Request.op = "release" <=> request \in {2, 5}
         /\ Request.op = "measure" <=> request \in {3, 4, 6, 7}
         /\ Request.op = "quit" <=> request = 8
         /\ request \in Asserted <=> request \in {3, 4, 6, 7}
         /\ request = 2 => Request.var = "start_stop"
         /\ request = 5 => Request.var = "test_stop"
         /\ request \in {3, 6} => Request.var = "a"
         /\ request \in {4, 7} => Request.var = "b"
<1>1. /\ Len(Requests) = 8
      /\ Requests[1].op = "set_target" /\ Requests[2].op = "release" /\ Requests[3].op = "measure"
      /\ Requests[4].op = "measure" /\ Requests[5].op = "release" /\ Requests[6].op = "measure"
      /\ Requests[7].op = "measure" /\ Requests[8].op = "quit"
      /\ Requests[2].var = "start_stop" /\ Requests[5].var = "test_stop"
      /\ Requests[3].var = "a" /\ Requests[6].var = "a"
      /\ Requests[4].var = "b" /\ Requests[7].var = "b"
  BY DEF Requests
<1>2. request \in {1, 2, 3, 4, 5, 6, 7, 8}
  OBVIOUS
<1>3. request \in Asserted <=> Requests[request].op = "measure"
  BY <1>1, <1>2 DEF Asserted
<1> HIDE DEF Requests
<1> QED BY <1>1, <1>2, <1>3 DEF Request

-----------------------------------------------------------------------------
(* One lemma for each process.                                             *)

others == <<script, measurer, driver, request, answer, target, results, summary, servedAt>>

\* The application moves on by an instruction.
LEMMA ApplicationStep == Inv /\ Application => Inv'
<1> SUFFICES ASSUME Inv, Application PROVE Inv'
  OBVIOUS
<1> USE DEF Inv, Types
<1>1. /\ UNCHANGED others
      /\ MapLibrary \/ HoldBeforeMain \/ Wait \/ EnterMain \/ Assign
  BY DEF Application, others
<1>2. /\ app' = app + 1 /\ app \in 1 .. 10 /\ app # 11
      /\ app = 1 => UNCHANGED memory
      /\ app = 2 => start_stop' = 1 /\ UNCHANGED <<test_stop, a, b>>
      /\ app = 3 => start_stop = 0 /\ UNCHANGED memory
      /\ app = 4 => a' \in Int /\ b' \in Int /\ UNCHANGED <<start_stop, test_stop>>
      /\ app = 5 => a' = 45 /\ UNCHANGED <<b, start_stop, test_stop>>
      /\ app = 6 => b' = 2 /\ UNCHANGED <<a, start_stop, test_stop>>
      /\ app \in {7, 10} => test_stop' = 1 /\ UNCHANGED <<a, b, start_stop>>
      /\ app = 8 => test_stop = 0 /\ UNCHANGED memory
      /\ app = 9 => a' = a + 1 /\ UNCHANGED <<b, start_stop, test_stop>>
  <2>1. CASE MapLibrary \/ HoldBeforeMain
    BY <2>1, ProgramPlaces DEF MapLibrary, HoldBeforeMain, memory
  <2>2. CASE Wait
    BY <2>2, ProgramPlaces DEF Wait, memory, ApplicationInv
  <2>3. CASE EnterMain
    BY <2>3, ProgramPlaces, TestAssumption DEF EnterMain
  <2>4. CASE Assign
    BY <2>4, ProgramPlaces DEF Assign
  <2> QED BY <1>1, <2>1, <2>2, <2>3, <2>4
<1>3. Types' /\ Sequences'
  BY <1>1, <1>2 DEF Sequences, others, memory
<1>4. CountInv'
  BY <1>1 DEF CountInv, others, Before
<1>5. ScriptInv'
  <2>1. \A k \in 1 .. Len(servedAt) : servedAt[k] \in 0 .. 11
    BY DEF Sequences
  <2>2. script # "done" => \A k \in 1 .. Len(servedAt) : servedAt[k] <= app + 1
    BY <2>1 DEF ScriptInv
  <2>3. servedAt' = servedAt /\ script' = script /\ driver' = driver
    BY <1>1 DEF others
  <2> QED BY <1>2, <2>2, <2>3 DEF ScriptInv, Dead
<1>6. ApplicationInv'
  BY <1>1, <1>2 DEF ApplicationInv, others, memory, Served
<1>7. ASSUME NEW v, Fits(3, v), Len(servedAt) >= 3 PROVE Fits(3, v)'
  <2>1. SUFFICES ASSUME v = 45, app' \in 5 .. 9 PROVE a' = 45
    BY <1>1, <1>7 DEF Fits, others, Served
  <2>2. Fits(3, v) /\ v = 45 /\ app' \in 5 .. 9 /\ Len(servedAt) >= 3
    BY <1>7, <2>1
  <2>3. servedAt[3] <= app /\ servedAt[3] >= 5 /\ servedAt[3] \in 0 .. 11
    BY <1>2, <2>2 DEF Fits, ScriptInv, Dead, Sequences, CountInv
  <2>4. app \in 5 .. 8
    BY <1>2, <2>2, <2>3
  <2> QED BY <1>2, <2>2, <2>4 DEF Fits, memory
<1>8. AnswerInv'
  <2>1. /\ \A r, v : r # 3 /\ Fits(r, v) => Fits(r, v)'
        /\ UNCHANGED <<driver, answer, request, results>>
        /\ driver = "waiting" /\ answer # <<>> /\ request = 3 => Len(servedAt) >= 3
        /\ Len(results) >= 1 => Len(servedAt) >= 3
    BY <1>1 DEF CountInv, Fits, others, Served
  <2> QED BY <1>7, <2>1 DEF AnswerInv
<1> QED BY <1>3, <1>4, <1>5, <1>6, <1>8

\* run.sh starts, waits and kills.
LEMMA ShellStep == Inv /\ Shell => Inv'
<1> SUFFICES ASSUME Inv, Shell PROVE Inv'
  OBVIOUS
<1> USE DEF Inv, Types
<1>1. UNCHANGED <<memory, driver, request, answer, target, results, summary, servedAt>>
  BY DEF Shell
<1>2. /\ app' \in 0 .. 11 /\ (app' = app \/ app' <= 1)
      /\ script' \in {"application", "pidof", "driver", "kill", "done"}
      /\ measurer' \in {measurer, "starting", "ended"}
  <2>1. CASE LaunchMeasurer \/ LaunchApplication
    BY <2>1 DEF LaunchMeasurer, LaunchApplication
  <2>2. CASE Executed \/ PidOf
    BY <2>2 DEF Executed, PidOf
  <2>3. CASE DriverTerminated \/ Kill
    BY <2>3 DEF DriverTerminated, Kill, Dead
  <2> QED BY <2>1, <2>2, <2>3 DEF Shell
<1>3. Types' /\ Sequences'
  BY <1>1, <1>2 DEF Sequences, memory
<1>4. CountInv'
  BY <1>1, <1>2 DEF CountInv, Before
<1>5. ScriptInv'
  BY <1>1 DEF ScriptInv, CountInv, Shell, LaunchMeasurer, LaunchApplication, Executed, PidOf,
              DriverTerminated, Kill, Dead
<1>6. ApplicationInv'
  BY <1>1, <1>2 DEF ApplicationInv, memory, Served
<1>7. AnswerInv'
  BY <1>1, <1>2 DEF AnswerInv, Fits, memory, Served
<1> QED BY <1>3, <1>4, <1>5, <1>6, <1>7

\* The driver takes what it was answered, and asks on.
LEMMA DriverStep == Inv /\ Driver => Inv'
<1> SUFFICES ASSUME Inv, Driver PROVE Inv'
  OBVIOUS
<1> USE DEF Inv, Types
<1>1. UNCHANGED <<script, app, memory, target, servedAt>>
  BY DEF Driver, Connect, ConnectionRefused, Ask, Hear, Close, HearEnd
<1>2. CASE Hear
  <2> USE DEF Hear
  <2>1. /\ request \in 1 .. 8 /\ Len(servedAt) = request /\ Len(results) = Before(request)
        /\ answer[1] \in Texts /\ Fits(request, answer[1]) /\ driver = "waiting"
    BY <1>2 DEF CountInv, AnswerInv, Sequences
  <2>2. /\ IF request \in {3, 4, 6, 7} THEN results' = Append(results, answer[1])
                                       ELSE results' = results
        /\ IF request = 8 THEN driver' = "closing" /\ request' = request
                          ELSE driver' = "asking" /\ request' = request + 1
        /\ UNCHANGED <<measurer, answer, summary>>
    BY <1>2, <2>1, RequestPlaces
  <2>3. /\ Len(results') = (IF request \in {3, 4, 6, 7} THEN Len(results) + 1 ELSE Len(results))
        /\ \A k \in 1 .. Len(results) : results'[k] = results[k]
        /\ request \in {3, 4, 6, 7} => results'[Len(results) + 1] = answer[1]
        /\ results' \in Seq(Texts)
    <3>1. results \in Seq(Texts)
      BY DEF Sequences
    <3>2. \A x \in Texts : /\ Append(results, x) \in Seq(Texts) /\ Len(Append(results, x)) = Len(results) + 1
                            /\ \A k \in 1 .. Len(results) : Append(results, x)[k] = results[k]
                            /\ Append(results, x)[Len(results) + 1] = x
      BY <3>1
    <3>3. CASE request \in {3, 4, 6, 7}
      BY <2>1, <2>2, <3>2, <3>3
    <3>4. CASE request \notin {3, 4, 6, 7}
      BY <2>2, <3>1, <3>4
    <3> QED BY <3>3, <3>4
  <2>4. Types' /\ Sequences'
    BY <1>1, <2>1, <2>2, <2>3 DEF memory, Sequences
  <2>5. CountInv'
    BY <1>1, <2>1, <2>2, <2>3 DEF CountInv, Before
  <2>6. ScriptInv'
    BY <1>1, <2>1, <2>2 DEF ScriptInv
  <2>7. ApplicationInv'
    BY <1>1 DEF ApplicationInv, memory, Served
  <2>8. \A r, v : Fits(r, v) /\ (r = 6 => Len(results) >= 1) => Fits(r, v)'
    BY <1>1, <2>3 DEF Fits, memory, Served
  <2>9. AnswerInv'
    <3>1. (Len(results) >= 1 => Fits(3, results[1]))'
      BY <2>1, <2>3, <2>8 DEF AnswerInv, Before
    <3>2. (Len(results) >= 2 => Fits(4, results[2]))'
      BY <2>1, <2>3, <2>8 DEF AnswerInv, Before
    <3>3. (Len(results) >= 3 => Fits(6, results[3]))'
      BY <2>1, <2>3, <2>8 DEF AnswerInv, Before
    <3>4. (Len(results) >= 4 => Fits(7, results[4]))'
      BY <2>1, <2>3, <2>8 DEF AnswerInv, Before
    <3> QED BY <2>1, <2>2, <3>1, <3>2, <3>3, <3>4 DEF AnswerInv
  <2> QED BY <2>4, <2>5, <2>6, <2>7, <2>9
<1>3. CASE Connect \/ ConnectionRefused \/ Ask \/ Close \/ HearEnd
  <2> USE DEF Connect, ConnectionRefused, Ask, Close, HearEnd
  <2>1. results' = results
    BY <1>3
  <2>2. Types'
    <3>1. /\ measurer' \in {measurer, "serving"} /\ driver' \in {"asking", "waiting", "ended"}
          /\ request' \in 0 .. 8
      BY <1>3
    <3>2. summary' \in BOOLEAN
      BY <1>3, Zenon
    <3> QED BY <1>1, <3>1, <3>2 DEF memory
  <2>8. Sequences'
    <3>1. answer' \in {answer, <<>>}
      BY <1>3
    <3>2. answer \in Seq(Texts) /\ results \in Seq(Texts) /\ servedAt \in Seq(0 .. 11)
      BY DEF Sequences
    <3>3. answer' \in Seq(Texts) /\ results' \in Seq(Texts) /\ servedAt' \in Seq(0 .. 11)
      <4>1. <<>> \in Seq(Texts)
        OBVIOUS
      <4>2. answer' = answer \/ answer' = <<>>
        BY <3>1
      <4> QED BY <1>1, <2>1, <3>2, <4>1, <4>2, Zenon
    <3> QED BY <3>3 DEF Sequences
  <2>3. CountInv'
    BY <1>1, <1>3, <2>1 DEF CountInv, Before
  <2>4. ScriptInv'
    BY <1>1, <1>3 DEF ScriptInv
  <2>5. ApplicationInv'
    BY <1>1 DEF ApplicationInv, memory, Served
  <2>6. driver' # "waiting" \/ answer' = <<>>
    BY <1>3
  <2>7. AnswerInv'
    BY <1>1, <2>1, <2>6 DEF AnswerInv, Fits, memory, Served
  <2> QED BY <2>2, <2>8, <2>3, <2>4, <2>5, <2>7
<1> QED BY <1>2, <1>3 DEF Driver

\* A request is served where the application then is.
LEMMA ServingStep ==
  ASSUME Inv, NEW op, Serving(op), AsItWas, UNCHANGED <<a, b>>,
         measurer' \in {"serving", "ended"}, target' \in BOOLEAN,
         start_stop' \in 0 .. 1, test_stop' \in 0 .. 1, start_stop' # start_stop => request = 2,
         test_stop' # test_stop => request = 5,
         \/ answer' = answer /\ measurer' = "ended"
         \/ \E v \in Texts : answer' = <<v>> /\ Fits(request, v)'
  PROVE  Inv'
<1> USE DEF Inv, Types, AsItWas, Serving
<1>1. /\ driver = "waiting" /\ answer = <<>> /\ Len(servedAt) = request - 1 /\ request \in 1 .. 8
      /\ servedAt' = Append(servedAt, app) /\ Len(results) = Before(request)
  BY DEF CountInv
<1>2. /\ Len(servedAt') = request /\ servedAt'[request] = app /\ servedAt' \in Seq(0 .. 11)
      /\ \A k \in 1 .. Len(servedAt) : servedAt'[k] = servedAt[k]
  BY <1>1 DEF Sequences
<1>3. /\ answer' \in Seq(Texts) /\ Len(answer') \in 0 .. 1
      /\ answer' = <<>> => measurer' = "ended"
      /\ answer' # <<>> => answer'[1] \in Texts /\ Fits(request, answer[1])'
  <2>1. CASE answer' = answer /\ measurer' = "ended"
    BY <1>1, <2>1 DEF Sequences
  <2>2. ASSUME NEW v \in Texts, answer' = <<v>> /\ Fits(request, v)' 
         PROVE  /\ answer' \in Seq(Texts) /\ Len(answer') = 1 /\ answer' # <<>>
                /\ answer'[1] \in Texts /\ Fits(request, answer[1])'
    <3>1. answer'[1] = v /\ Len(answer') = 1 /\ answer' # <<>> /\ answer' \in Seq(Texts)
      BY <2>2
    <3>2. Fits(request, answer[1])'
      BY <2>2, <3>1
    <3> QED BY <3>1, <3>2
  <2> QED BY <2>1, <2>2
<1>4. Types' /\ Sequences'
  BY <1>2, <1>3 DEF Sequences
<1>5. CountInv'
  BY <1>1, <1>2, <1>3 DEF CountInv
<1>6. script # "done" /\ ScriptInv'
  BY <1>1, <1>2 DEF ScriptInv
<1>7. \A i, from : i \in 1 .. 8 /\ Served(i, from) => Served(i, from)'
  BY <1>1, <1>2 DEF Served
<1>8. ApplicationInv'
  <2>1. app' = 3 /\ start_stop' = 0 => Served(2, 3)'
    BY <1>1, <1>2, <1>7 DEF ApplicationInv, Served
  <2>2. app' = 8 /\ test_stop' = 0 => Served(5, 8)'
    BY <1>1, <1>2, <1>7 DEF ApplicationInv, Served
  <2>3. app' = 11 => test_stop' = 1
    BY <1>1 DEF ApplicationInv, Served
  <2> QED BY <1>7, <2>1, <2>2, <2>3 DEF ApplicationInv
<1>9. AnswerInv'
  <2>1. \A r, v : r \in {3, 4, 6, 7} /\ (r = 7 => Len(servedAt) >= 6) /\ Len(servedAt) >= (IF r = 7 THEN 6 ELSE r)
                    /\ Fits(r, v) => Fits(r, v)'
    BY <1>1, <1>2, <1>7 DEF Fits
  <2>2. driver' = "waiting" /\ request' = request /\ results' = results
    BY <1>1
  <2>3. /\ Len(results) >= 1 => Fits(3, results[1])'
        /\ Len(results) >= 2 => Fits(4, results[2])'
        /\ Len(results) >= 3 => Fits(6, results[3])'
        /\ Len(results) >= 4 => Fits(7, results[4])'
    <3>1. /\ Len(results) >= 1 => Fits(3, results[1])
          /\ Len(results) >= 2 => Fits(4, results[2])
          /\ Len(results) >= 3 => Fits(6, results[3])
          /\ Len(results) >= 4 => Fits(7, results[4])
      BY DEF AnswerInv
    <3>2. /\ Len(results) >= 1 => Len(servedAt) >= 3
          /\ Len(results) >= 2 => Len(servedAt) >= 4
          /\ Len(results) >= 3 => Len(servedAt) >= 6
          /\ Len(results) >= 4 => Len(servedAt) >= 7
          /\ Len(servedAt) \in 0 .. 8
      BY DEF CountInv
    <3> QED BY <2>1, <2>2, <3>1, <3>2
  <2> QED BY <1>3, <2>2, <2>3 DEF AnswerInv
<1> QED BY <1>4, <1>5, <1>6, <1>8, <1>9

LEMMA MeasurerStep == Inv /\ Measurer => Inv'
<1> SUFFICES ASSUME Inv, Measurer PROVE Inv'
  OBVIOUS
<1> USE DEF Inv, Types
<1>1. CASE Listen \/ QuitEnds
  <2>1. UNCHANGED <<script, app, memory, driver, request, answer, target, results, summary, servedAt>>
        /\ measurer' \in {"listening", "ended"}
    BY <1>1 DEF Listen, QuitEnds
  <2>2. Types' /\ Sequences' /\ CountInv' /\ ScriptInv' /\ ApplicationInv'
    BY <2>1 DEF Sequences, CountInv, Before, ScriptInv, ApplicationInv, memory, Served
  <2>3. AnswerInv'
    BY <2>1 DEF AnswerInv, Fits, memory, Served
  <2> QED BY <2>2, <2>3
<1>2. CASE SetTarget \/ Quit
  <2>1. PICK op \in {"set_target", "quit"} : Serving(op) /\ Answer("void") /\ AsItWas /\ UNCHANGED <<measurer, memory>>
    BY <1>2 DEF SetTarget, Quit
  <2>2. request \in {1, 8} /\ measurer = "serving" /\ target' \in BOOLEAN
    BY <1>2, <2>1, RequestPlaces DEF Serving, CountInv, SetTarget, Quit
  <2>3. "void" \in Texts /\ answer' = <<"void">> /\ Fits(request, "void")'
    BY <2>1, <2>2 DEF Answer, Fits, Texts, AsItWas
  <2> QED BY <2>1, <2>2, <2>3, ServingStep DEF memory
<1>3. CASE Release
  <2>1. request \in {2, 5} /\ measurer = "serving"
    BY <1>3, RequestPlaces DEF Release, Serving, CountInv
  <2>2. /\ request = 2 => start_stop' = 0 /\ UNCHANGED test_stop
        /\ request = 5 => test_stop' = 0 /\ UNCHANGED start_stop
    BY <1>3, <2>1, RequestPlaces DEF Release
  <2>3. "void" \in Texts /\ answer' = <<"void">> /\ Fits(request, "void")'
    BY <1>3, <2>1 DEF Release, Answer, Fits, Texts, AsItWas
  <2> QED BY <1>3, <2>1, <2>2, <2>3, ServingStep DEF Release
<1>4. CASE ReleaseFails
  BY <1>4, ServingStep DEF ReleaseFails, memory
<1>5. CASE Measure
  <2> DEFINE v == IF app <= InMain THEN Missing ELSE IF Request.var = "a" THEN a ELSE b
  <2>1. /\ request \in {3, 4, 6, 7} /\ measurer = "serving" /\ Len(servedAt) = request - 1
        /\ servedAt' = Append(servedAt, app) /\ script # "done"
    BY <1>5, RequestPlaces DEF Measure, Serving, CountInv, ScriptInv
  <2>2. /\ app <= 4 => v = Missing
        /\ app > 4 /\ request \in {3, 6} => v = a
        /\ app > 4 /\ request \in {4, 7} => v = b
    BY <2>1, RequestPlaces DEF InMain
  <2>3. v \in Texts /\ answer' = <<v>> /\ UNCHANGED <<app, memory, request, results>>
    BY <1>5 DEF Measure, Answer, Texts, AsItWas
  <2> HIDE DEF v
  <2>4. /\ servedAt'[request] = app /\ Len(servedAt') = request
        /\ \A k \in 1 .. request - 1 : servedAt'[k] = servedAt[k] /\ servedAt[k] <= app
        /\ \A k \in 1 .. request - 1 : servedAt[k] \in 0 .. 11
    BY <2>1 DEF ScriptInv, Sequences
  <2>5. Missing \notin Int
    BY TestAssumption
  <2>6. CASE request = 3
    <3>1. app <= 8
      BY <2>1, <2>6 DEF ApplicationInv, Served
    <3>2. app >= 6 => v = 45
      BY <2>2, <2>6, <3>1 DEF ApplicationInv
    <3>3. v = 45 => app >= 5 /\ a = 45
      BY <2>2, <2>5, <2>6
    <3>4. app >= 5 => Served(2, 3)'
      BY <2>1, <2>4, <2>6 DEF ApplicationInv, Served
    <3> QED BY <2>3, <2>4, <2>6, <3>2, <3>3, <3>4, <1>5, <2>1, ServingStep DEF Fits, memory, Measure
  <2>7. CASE request = 4
    <3>1. app >= 7 => v = 2
      BY <2>2, <2>7 DEF ApplicationInv
    <3> QED BY <2>3, <2>4, <2>7, <3>1, <1>5, <2>1, ServingStep DEF Fits, memory, Measure
  <2>8. CASE request = 6
    <3>1. app >= 10 => v = 46
      BY <2>2, <2>8 DEF ApplicationInv
    <3>2. Len(results) = 2 /\ Fits(3, results[1])
      <4>1. driver = "waiting" /\ Len(results) \in 0 .. 4
        BY <1>5 DEF Measure, Serving, CountInv
      <4>2. Len(results) = 2
        BY <2>8, <4>1 DEF CountInv, Before
      <4> QED BY <4>2 DEF AnswerInv
    <3>3. v = 46 /\ results[1] = 45 => app >= 10
      BY <2>2, <2>5, <2>8, <3>2 DEF Fits
    <3>4. app >= 10 => Served(5, 8)'
      BY <2>1, <2>4, <2>8 DEF ApplicationInv, Served
    <3> QED BY <2>3, <2>4, <2>8, <3>1, <3>3, <3>4, <1>5, <2>1, ServingStep DEF Fits, memory, Measure
  <2>9. CASE request = 7
    <3>1. servedAt'[6] >= 10 => v = 2
      BY <2>2, <2>4, <2>9 DEF ApplicationInv
    <3> QED BY <2>3, <2>4, <2>9, <3>1, <1>5, <2>1, ServingStep DEF Fits, memory, Measure
  <2> QED BY <2>1, <2>6, <2>7, <2>8, <2>9
<1> QED BY <1>1, <1>2, <1>3, <1>4, <1>5 DEF Measurer

LEMMA InitInv == Init => Inv
<1> SUFFICES ASSUME Init PROVE Inv
  OBVIOUS
<1>1. Types
  <2>1. target \in BOOLEAN /\ summary \in BOOLEAN
    BY Zenon DEF Init
  <2> QED BY <2>1 DEF Init, Types, Dead
<1>2. Sequences /\ Len(answer) = 0 /\ Len(results) = 0 /\ Len(servedAt) = 0
  BY DEF Init, Sequences
<1>3. CountInv
  BY <1>2 DEF Init, CountInv
<1>4. ScriptInv /\ ApplicationInv
  BY <1>2 DEF Init, ScriptInv, ApplicationInv, Dead
<1>5. AnswerInv
  BY <1>2 DEF Init, AnswerInv
<1> QED BY <1>1, <1>2, <1>3, <1>4, <1>5 DEF Inv

\* The invariant holds of every session.
THEOREM SessionInvariance == Spec => []Inv
<1>1. Inv /\ [Next]_vars => Inv'
  <2> SUFFICES ASSUME Inv, [Next]_vars PROVE Inv'
    OBVIOUS
  <2>1. CASE Next
    BY <2>1, ApplicationStep, DriverStep, MeasurerStep, ShellStep DEF Next
  <2>2. CASE UNCHANGED vars
    <3>1. UNCHANGED <<others, app, memory>>
      BY <2>2 DEF vars, others
    <3>2. Types' /\ Sequences' /\ CountInv' /\ ScriptInv' /\ ApplicationInv'
      BY <3>1 DEF Inv, Types, Sequences, CountInv, Before, ScriptInv, ApplicationInv, memory, others, Served
    <3>3. AnswerInv'
      BY <3>1 DEF Inv, AnswerInv, Fits, memory, others, Served
    <3> QED BY <3>2, <3>3 DEF Inv
  <2> QED BY <2>1, <2>2
<1> QED BY <1>1, InitInv, PTL DEF Spec

\* Every variable of the session keeps its type; no wait of the application
\* behind the last one that a release ends is ever passed.
THEOREM SessionTypeCorrectness == Spec => []TypeOK
<1>1. Inv => TypeOK
  <2>1. Len(Program) = 11 /\ Len(Requests) = 8
    BY DEF Program, Requests
  <2> SUFFICES ASSUME Inv PROVE TypeOK
    OBVIOUS
  <2>2. target \in BOOLEAN /\ summary \in BOOLEAN
    BY Zenon DEF Inv, Types
  <2>3. Len(answer) <= 1 /\ Len(results) <= 4 /\ Len(servedAt) <= 8
    <3>1. Len(answer) \in 0 .. 1 /\ Len(results) \in 0 .. 4 /\ Len(servedAt) \in 0 .. 8
      BY Zenon DEF Inv, CountInv
    <3>2. \A n \in 0 .. 1 : n <= 1
      OBVIOUS
    <3>3. \A n \in 0 .. 4 : n <= 4
      OBVIOUS
    <3>4. \A n \in 0 .. 8 : n <= 8
      OBVIOUS
    <3> QED BY <3>1, <3>2, <3>3, <3>4, Zenon
  <2> QED BY <2>1, <2>2, <2>3 DEF Inv, Types, TypeOK
<1> QED BY <1>1, SessionInvariance, PTL

\* main() runs only after a release that came in prestop.so's loop.
THEOREM MainIsReleased == Spec => []MainWaitsForRelease
<1>1. Inv => MainWaitsForRelease
  BY DEF Inv, ApplicationInv, Types, MainWaitsForRelease, InMain
<1> QED BY <1>1, SessionInvariance, PTL

\* A test that passes has released the application twice, in time, whatever
\* "a" and "b" held before they were assigned.
THEOREM NoTestPassesByAccident == Spec => []PassingTestsReleased
<1>1. Inv => PassingTestsReleased
  <2> SUFFICES ASSUME Inv, results = Expected PROVE Served(2, 3) /\ Served(5, 8)
    BY DEF PassingTestsReleased
  <2>1. Len(results) = 4 /\ results[1] = 45 /\ results[3] = 46
    BY DEF Expected
  <2> QED BY <2>1 DEF Inv, AnswerInv, Fits
<1> QED BY <1>1, SessionInvariance, PTL

\* A test whose requests all come late enough passes.
THEOREM LateTestsPass == Spec => []LateRequestsPass
<1>1. Inv => LateRequestsPass
  <2> SUFFICES ASSUME Inv, Served(2, 3), Len(results) >= 1 => Served(3, 6),
                      Len(results) >= 2 => Served(4, 7),
                      Len(results) >= 3 => Served(5, 8) /\ Served(6, 10)
               PROVE  results = SubSeq(Expected, 1, Len(results))
    BY DEF LateRequestsPass
  <2>1. Len(results) \in 0 .. 4 /\ results \in Seq(Texts)
    BY DEF Inv, Sequences, CountInv
  <2>2. \A k \in 1 .. Len(results) : results[k] = Expected[k]
    <3>1. /\ Len(results) >= 1 => results[1] = 45
          /\ Len(results) >= 2 => results[2] = 2
          /\ Len(results) >= 3 => results[3] = 46
          /\ Len(results) >= 4 => results[4] = 2
      BY <2>1 DEF Inv, AnswerInv, Fits, Served
    <3>2. Expected[1] = 45 /\ Expected[2] = 2 /\ Expected[3] = 46 /\ Expected[4] = 2
      BY DEF Expected
    <3>3. \A n \in 0 .. 4 : \A k \in 1 .. n : k = 1 \/ k = 2 \/ k = 3 \/ k = 4
      OBVIOUS
    <3> QED BY <2>1, <3>1, <3>2, <3>3
  <2>3. Expected \in Seq(Int) /\ Len(Expected) = 4
    BY DEF Expected
  <2> QED BY <2>1, <2>2, <2>3
<1> QED BY <1>1, SessionInvariance, PTL

\* A summary is written only when all four assertions were made.
THEOREM SummariesAreComplete == Spec => []SummaryCountsAll
<1>1. Inv => SummaryCountsAll
  BY DEF Inv, CountInv, SummaryCountsAll
<1> QED BY <1>1, SessionInvariance, PTL
=============================================================================
