--------------------------- MODULE IpcSessionProofs ---------------------------
(***************************************************************************)
(* What IpcSession guarantees for any number of calls, any kinds and any   *)
(* capacities.  Three arguments: the loop is inside an apply handler for   *)
(* as long as its job runs, so no cancellation is read then; every line    *)
(* that carries a call's id is moved, never copied, from one place to the  *)
(* next; and who answers a call takes it out of the table.                 *)
(***************************************************************************)
EXTENDS IpcSession, SequenceTheorems, TLAPS

----------------------------------------------------------------------------
(* Types.                                                                   *)

\* The initial state is well typed.
LEMMA InitTypeOK == Init => TypeOK
BY SessionAssumption, EmptySeq DEF Init, TypeOK, CallSteps, Lines

\* A client step keeps the types.
LEMMA ClientTypes ==
  ASSUME TypeOK, NEW c \in Calls, CallStep(c)
  PROVE  TypeOK'
<1> USE DEF TypeOK, CallSteps, Lines
<1>1. CASE Register(c)
  BY <1>1 DEF Register, Goto, readerVars, loopVars
<1>6. CASE TakeLock(c)
  BY <1>6 DEF TakeLock, Goto, readerVars, loopVars
<1>2. CASE Write(c)
  <2>1. stdin' = Append(stdin, c)
    BY <1>2 DEF Write
  <2>2. stdin' \in Seq(Calls \cup {"shutdown"}) /\ Len(stdin') = Len(stdin) + 1
    BY <2>1, AppendProperties
  <2> QED BY <1>2, <2>2, SessionAssumption DEF Write, Goto, Asks, readerVars, loopVars
<1>3. CASE WriteFails(c)
  BY <1>3 DEF WriteFails, Goto, Asks, readerVars, loopVars
<1>5. CASE AnswerFailure(c)
  <2>1. UNCHANGED <<kind, mu, quit, reader, hand, stdin, stdout, loop, cur, left, job, tasks,
                    events, news, grids, alive>>
    BY <1>5 DEF AnswerFailure, readerVars, loopVars
  <2>2. call' \in [Calls -> CallSteps] /\ pending' \subseteq Calls
    BY <1>5 DEF AnswerFailure, Goto
  <2>3. chan' \in [Calls -> {"open", "answer", "error"}]
    BY <1>5 DEF AnswerFailure
  <2> QED BY <2>1, <2>2, <2>3
<1>4. CASE Receive(c) \/ Timeout(c)
  BY <1>4 DEF Receive, Timeout, Goto, readerVars, loopVars
<1> QED BY <1>1, <1>2, <1>3, <1>4, <1>5, <1>6 DEF CallStep

\* Stop keeps the types, and so does the end of the runtime.
LEMMA QuitTypes ==
  ASSUME TypeOK, QuitStep \/ Crash
  PROVE  TypeOK'
<1> USE DEF TypeOK, CallSteps, Lines
<1>1. CASE WantQuit \/ QuitLock
  BY <1>1 DEF WantQuit, QuitLock, readerVars, loopVars
<1>2. CASE QuitWrite
  <2>1. stdin' \in Seq(Calls \cup {"shutdown"}) /\ Len(stdin') <= InCap
    BY <1>2, AppendProperties, SessionAssumption DEF QuitWrite
  <2> QED BY <1>2, <2>1 DEF QuitWrite, readerVars, loopVars
<1>3. CASE QuitKill \/ Crash
  <2>1. /\ stdin' \in Seq(Calls \cup {"shutdown"}) /\ Len(stdin') <= InCap
        /\ events' \in Seq(Lines) /\ Len(events') <= EvCap
    <3>1. <<>> \in Seq(Calls \cup {"shutdown"}) /\ <<>> \in Seq(Lines) /\ Len(<<>>) = 0
      BY EmptySeq
    <3>2. stdin' = <<>> /\ events' = <<>>
      BY <1>3 DEF QuitKill, Crash, RuntimeDies
    <3> QED BY <3>1, <3>2, SessionAssumption
  <2>2. /\ alive' = FALSE /\ loop' = "gone" /\ cur' = "event" /\ left' = 0 /\ job' = "none"
        /\ tasks' = {}
        /\ quit' \in {quit, "done"}
        /\ UNCHANGED <<kind, call, chan, pending, mu, reader, hand, stdout, news, grids>>
    BY <1>3 DEF QuitKill, Crash, RuntimeDies, clientVars, readerVars
  <2>3. 0 \in 0 .. MaxWork
    BY SessionAssumption
  <2> QED BY <2>1, <2>2, <2>3
<1> QED BY <1>1, <1>2, <1>3 DEF QuitStep

\* The read loop keeps the types.
LEMMA ReaderTypes ==
  ASSUME TypeOK, ReaderStep
  PROVE  TypeOK'
<1> USE DEF TypeOK, CallSteps, Lines
<1>1. CASE Scan
  <2>1. /\ stdout' \in Seq(Lines) /\ Len(stdout') <= OutCap
        /\ Head(stdout) \in Lines
    BY <1>1, HeadTailProperties, SessionAssumption DEF Scan
  <2> QED BY <1>1, <2>1 DEF Scan, clientVars, loopVars
<1>2. CASE Route \/ EndOfFile \/ Drain
  BY <1>2 DEF Route, EndOfFile, Drain, clientVars, loopVars
<1> QED BY <1>1, <1>2 DEF ReaderStep

\* The runtime keeps the types.
LEMMA RuntimeTypes ==
  ASSUME TypeOK, LoopStep \/ News \/ \E c \in Calls : TaskAnswers(c)
  PROVE  TypeOK'
<1> USE DEF TypeOK, CallSteps, Lines
<1>1. CASE ReadLine
  <2>1. /\ stdin' \in Seq(Calls \cup {"shutdown"}) /\ Len(stdin') <= InCap
        /\ Head(stdin) \in Calls \cup {"shutdown"}
    BY <1>1, HeadTailProperties, SessionAssumption DEF ReadLine
  <2> QED BY <1>1, <2>1, SessionAssumption DEF ReadLine, clientVars, readerVars, loopVars
<1>2. CASE SendPartial
  <2>1. events' \in Seq(Lines) /\ Len(events') <= EvCap
    BY <1>2, AppendProperties, SessionAssumption DEF SendPartial, Room
  <2> QED BY <1>2, <2>1, SessionAssumption DEF SendPartial, clientVars, readerVars
<1>3. CASE WriteTags \/ HandlerReturns
  <2>1. UNCHANGED <<kind, call, chan, pending, mu, quit, reader, hand, stdin, stdout, cur, tasks,
                    events, news, grids, alive>>
    BY <1>3 DEF WriteTags, HandlerReturns, clientVars, readerVars
  <2>2. loop' \in {loop, "write"} /\ job' \in {job, "none", "cancelled"}
    BY <1>3 DEF WriteTags, HandlerReturns
  <2>3. left' \in 0 .. MaxWork
    BY <1>3, SessionAssumption DEF WriteTags, HandlerReturns
  <2> QED BY <2>1, <2>2, <2>3
<1>4. CASE Forward
  <2>1. events' \in Seq(Lines) /\ Len(events') <= EvCap /\ cur' \in Lines
    BY <1>4, HeadTailProperties, SessionAssumption DEF Forward
  <2> QED BY <1>4, <2>1 DEF Forward, clientVars, readerVars
<1>5. CASE Announce
  BY <1>5, SessionAssumption DEF Announce, clientVars, readerVars
<1>6. CASE WriteOut
  <2>1. stdout' \in Seq(Lines) /\ Len(stdout') <= OutCap
    BY <1>6, AppendProperties, SessionAssumption DEF WriteOut
  <2> QED BY <1>6, <2>1 DEF WriteOut, clientVars, readerVars
<1>7. CASE News
  <2>1. events' \in Seq(Lines) /\ Len(events') <= EvCap
    BY <1>7, AppendProperties, SessionAssumption DEF News, Room
  <2> QED BY <1>7, <2>1, SessionAssumption DEF News, clientVars, readerVars, loopVars
<1>8. CASE \E c \in Calls : TaskAnswers(c)
  <2> PICK c \in Calls : TaskAnswers(c)
    BY <1>8
  <2>1. events' \in Seq(Lines) /\ Len(events') <= EvCap
    BY AppendProperties, SessionAssumption DEF TaskAnswers, Room
  <2> QED BY <2>1 DEF TaskAnswers, clientVars, readerVars, loopVars
<1> QED BY <1>1, <1>2, <1>3, <1>4, <1>5, <1>6, <1>7, <1>8 DEF LoopStep

\* Every step keeps the types.
LEMMA TypeStep ==
  ASSUME TypeOK, [Next]_vars
  PROVE  TypeOK'
<1>1. CASE UNCHANGED vars
  BY <1>1 DEF vars, TypeOK, CallSteps, Lines
<1> QED BY <1>1, ClientTypes, QuitTypes, ReaderTypes, RuntimeTypes DEF Next

\* Requests, table, locks, pipes, loop and job keep their types in every step.
THEOREM TypeCorrect == Spec => []TypeOK
<1>1. TypeOK /\ [Next]_vars => TypeOK'
  BY TypeStep
<1> QED BY InitTypeOK, <1>1, PTL DEF Spec

----------------------------------------------------------------------------
(* A tag job and its cancellation.                                          *)

\* A job runs only while the loop awaits the handler that started it.
JobIsAwaited ==
  job = "running" => loop = "handle" /\ cur \in Calls /\ kind[cur] = "apply"

NoJobCancelled == job # "cancelled"
JobInv == JobIsAwaited /\ NoJobCancelled

\* Every step keeps the job inside its handler.
LEMMA JobStep ==
  ASSUME TypeOK, JobInv, [Next]_vars
  PROVE  JobInv'
<1> USE DEF JobInv, JobIsAwaited, NoJobCancelled
<1>1. CASE ReadLine
  BY <1>1, HeadTailProperties DEF ReadLine, TypeOK, loopVars
<1>2. CASE HandlerReturns
  BY <1>2 DEF HandlerReturns
<1>3. CASE SendPartial \/ WriteTags \/ Forward \/ Announce \/ WriteOut
  BY <1>3 DEF SendPartial, WriteTags, Forward, Announce, WriteOut
<1>4. CASE QuitKill \/ Crash
  BY <1>4 DEF QuitKill, Crash, RuntimeDies
<1>5. CASE WantQuit \/ QuitLock \/ QuitWrite \/ ReaderStep \/ News
  BY <1>5 DEF WantQuit, QuitLock, QuitWrite, ReaderStep, Scan, Route, EndOfFile, Drain,
              News, loopVars
<1>6. ASSUME NEW c \in Calls, CallStep(c) \/ TaskAnswers(c) PROVE JobInv'
  BY <1>6 DEF CallStep, Register, TakeLock, Write, WriteFails, AnswerFailure, Receive,
              Timeout, TaskAnswers, loopVars
<1>7. CASE UNCHANGED vars
  BY <1>7 DEF vars, loopVars
<1> QED BY <1>1, <1>2, <1>3, <1>4, <1>5, <1>6, <1>7 DEF Next, QuitStep, LoopStep

\* The case of the tag job's cancellation in full: whatever is requested in whatever
\* order, no cancellation ever takes effect, because the loop that would read it is
\* awaiting the job (main.rs:2184, against tag_write_job.rs:1).
THEOREM CancellationIsLate == Spec => []NoJobCancelled
<1>1. Init => JobInv
  BY DEF Init, JobInv, JobIsAwaited, NoJobCancelled
<1>2. TypeOK /\ JobInv /\ [Next]_vars => JobInv'
  BY JobStep
<1>3. JobInv => NoJobCancelled
  BY DEF JobInv
<1> QED BY <1>1, <1>2, <1>3, TypeCorrect, PTL DEF Spec

----------------------------------------------------------------------------
(* Where the requests are.                                                  *)

AtCaller(c) == call[c] \in {"registered", "locked"}
AtLoop(c) == loop \in {"handle", "write"} /\ cur = c
AtTasks(c) == c \in tasks
AtHand(c) == reader = "route" /\ hand = c
InStdin(c) == InSeq(c, stdin)
InEvents(c) == InSeq(c, events)
InStdout(c) == InSeq(c, stdout)

Somewhere(c) ==
  AtCaller(c) \/ InStdin(c) \/ AtLoop(c) \/ AtTasks(c) \/ InEvents(c) \/ InStdout(c) \/ AtHand(c)

\* A request is in one place at most.
Alone(c) ==
  /\ AtCaller(c) => ~(InStdin(c) \/ AtLoop(c) \/ AtTasks(c) \/ InEvents(c) \/ InStdout(c) \/ AtHand(c))
  /\ InStdin(c) => ~(AtLoop(c) \/ AtTasks(c) \/ InEvents(c) \/ InStdout(c) \/ AtHand(c))
  /\ AtLoop(c) => ~(AtTasks(c) \/ InEvents(c) \/ InStdout(c) \/ AtHand(c))
  /\ AtTasks(c) => ~(InEvents(c) \/ InStdout(c) \/ AtHand(c))
  /\ InEvents(c) => ~(InStdout(c) \/ AtHand(c))
  /\ InStdout(c) => ~AtHand(c)

Unsent(c) == call[c] \in {"idle", "failed"} => ~Somewhere(c)
Reading == alive /\ reader \in {"scan", "route"}
Kept(c) == c \in pending => Asks(c) /\ (Reading => Somewhere(c))

\* A queue holds the id of a call once.
Once(q) == \A i, j \in DOMAIN q : q[i] = q[j] /\ q[i] \in Calls => i = j

PlaceInv ==
  /\ Once(stdin) /\ Once(events) /\ Once(stdout)
  /\ \A c \in Calls : Alone(c) /\ Unsent(c) /\ Kept(c)

\* What an insertion at the end of a queue does to the ids in it.
LEMMA AppendHolds ==
  ASSUME NEW S, NEW q \in Seq(S), NEW e \in S
  PROVE  /\ \A c \in Calls : InSeq(c, Append(q, e)) <=> InSeq(c, q) \/ c = e
         /\ Once(q) /\ (e \in Calls => ~InSeq(e, q)) => Once(Append(q, e))
<1>1. /\ DOMAIN Append(q, e) = 1 .. Len(q) + 1 /\ DOMAIN q = 1 .. Len(q)
      /\ \A n \in 1 .. Len(q) : Append(q, e)[n] = q[n]
      /\ Append(q, e)[Len(q) + 1] = e
      /\ Len(q) \in Nat
  BY AppendProperties
<1>2. \A c \in Calls : InSeq(c, Append(q, e)) <=> InSeq(c, q) \/ c = e
  BY <1>1 DEF InSeq
<1>3. ASSUME Once(q), e \in Calls => ~InSeq(e, q) PROVE Once(Append(q, e))
  BY <1>1, <1>3 DEF Once, InSeq
<1> QED BY <1>2, <1>3

\* What taking the head of a queue does to the ids in it.
LEMMA TailHolds ==
  ASSUME NEW S, NEW q \in Seq(S), q # <<>>, Once(q)
  PROVE  /\ Once(Tail(q))
         /\ \A c \in Calls : InSeq(c, q) <=> c = Head(q) \/ InSeq(c, Tail(q))
         /\ Head(q) \in Calls => ~InSeq(Head(q), Tail(q))
<1>1. /\ DOMAIN q = 1 .. Len(q) /\ Len(q) \in Nat \ {0}
      /\ DOMAIN Tail(q) = 1 .. Len(q) - 1
      /\ \A n \in 1 .. Len(q) - 1 : Tail(q)[n] = q[n + 1]
      /\ Head(q) = q[1]
  BY HeadTailProperties
<1>2. Once(Tail(q))
  BY <1>1 DEF Once
<1>3. \A c \in Calls : InSeq(c, q) <=> c = Head(q) \/ InSeq(c, Tail(q))
  <2> SUFFICES ASSUME NEW c \in Calls PROVE InSeq(c, q) <=> c = Head(q) \/ InSeq(c, Tail(q))
    OBVIOUS
  <2>1. ASSUME NEW n \in 1 .. Len(q), q[n] = c PROVE c = Head(q) \/ InSeq(c, Tail(q))
    <3>1. CASE n = 1
      BY <1>1, <2>1, <3>1
    <3>2. CASE n # 1
      <4>1. n - 1 \in 1 .. Len(q) - 1 /\ Tail(q)[n - 1] = c
        BY <1>1, <2>1, <3>2
      <4> QED BY <1>1, <4>1 DEF InSeq
    <3> QED BY <3>1, <3>2
  <2>2. InSeq(c, Tail(q)) => InSeq(c, q)
    BY <1>1 DEF InSeq
  <2>3. c = Head(q) => InSeq(c, q)
    BY <1>1 DEF InSeq
  <2> QED BY <1>1, <2>1, <2>2, <2>3 DEF InSeq
<1>4. Head(q) \in Calls => ~InSeq(Head(q), Tail(q))
  BY <1>1 DEF Once, InSeq
<1> QED BY <1>2, <1>3, <1>4

\* The empty queue holds nothing.
LEMMA EmptyHolds == Once(<<>>) /\ \A c \in Calls : ~InSeq(c, <<>>)
BY DEF Once, InSeq

\* A step that leaves every request where it is.
LEMMA Still ==
  ASSUME PlaceInv, NEW c \in Calls,
         AtCaller(c)' <=> AtCaller(c), InStdin(c)' <=> InStdin(c), AtLoop(c)' <=> AtLoop(c),
         AtTasks(c)' <=> AtTasks(c), InEvents(c)' <=> InEvents(c), InStdout(c)' <=> InStdout(c),
         AtHand(c)' <=> AtHand(c),
         c \in pending' => c \in pending, Asks(c)' <=> Asks(c),
         Reading' => Reading,
         call'[c] \in {"idle", "failed"} => call[c] \in {"idle", "failed"}
  PROVE  (Alone(c) /\ Unsent(c) /\ Kept(c))'
BY DEF PlaceInv, Alone, Unsent, Kept, Somewhere

\* The caller's steps.
LEMMA CallerPlaces ==
  ASSUME TypeOK, PlaceInv, NEW c \in Calls, CallStep(c)
  PROVE  PlaceInv'
<1> USE DEF TypeOK
<1>0. UNCHANGED <<kind, events, stdout, loop, cur, tasks, reader, hand, alive>>
  BY DEF CallStep, Register, TakeLock, Write, WriteFails, AnswerFailure, Receive, Timeout,
         readerVars, loopVars
<1>1. ASSUME NEW d \in Calls
      PROVE  /\ (AtLoop(d)' <=> AtLoop(d)) /\ (AtTasks(d)' <=> AtTasks(d))
             /\ (InEvents(d)' <=> InEvents(d)) /\ (InStdout(d)' <=> InStdout(d))
             /\ (AtHand(d)' <=> AtHand(d)) /\ (Asks(d)' <=> Asks(d)) /\ (Reading' <=> Reading)
  BY <1>0 DEF AtLoop, AtTasks, InEvents, InStdout, AtHand, Asks, Reading, InSeq
<1>2. Once(events)' /\ Once(stdout)'
  BY <1>0 DEF PlaceInv, Once
<1>3. CASE Write(c)
  <2>1. stdin' = Append(stdin, c) /\ AtCaller(c) /\ alive
    BY <1>3 DEF Write, AtCaller
  <2>2. /\ \A d \in Calls : InStdin(d)' <=> InStdin(d) \/ d = c
        /\ Once(stdin)'
    <3>1. ~InSeq(c, stdin) /\ Once(stdin)
      BY <2>1 DEF PlaceInv, Alone, InStdin
    <3>2. /\ \A d \in Calls : InSeq(d, stdin') <=> InSeq(d, stdin) \/ d = c
          /\ Once(stdin')
      BY <2>1, <3>1, AppendHolds
    <3> QED BY <3>2 DEF InStdin, Once, InSeq
  <2>3. /\ ~AtCaller(c)' /\ call'[c] \notin {"idle", "failed"}
        /\ \A d \in Calls \ {c} : (AtCaller(d)' <=> AtCaller(d)) /\ call'[d] = call[d]
        /\ pending' = pending
    BY <1>3 DEF Write, AtCaller, Goto, CallSteps
  <2>4. ASSUME NEW d \in Calls PROVE (Alone(d) /\ Unsent(d) /\ Kept(d))'
    <3>1. CASE d = c
      BY <1>1, <2>1, <2>2, <2>3, <3>1 DEF PlaceInv, Alone, Unsent, Kept, Somewhere
    <3>2. CASE d # c
      BY <1>1, <2>2, <2>3, <3>2, Still
    <3> QED BY <3>1, <3>2
  <2> QED BY <1>2, <2>2, <2>4 DEF PlaceInv
<1>4. CASE ~Write(c)
  <2>1. UNCHANGED stdin
    BY <1>4 DEF CallStep, Register, TakeLock, WriteFails, AnswerFailure, Receive, Timeout
  <2>2. Once(stdin)' /\ \A d \in Calls : InStdin(d)' <=> InStdin(d)
    BY <2>1 DEF PlaceInv, Once, InStdin, InSeq
  <2>3. \A d \in Calls \ {c} : /\ (AtCaller(d)' <=> AtCaller(d)) /\ call'[d] = call[d]
                               /\ d \in pending' => d \in pending
    BY <1>4 DEF CallStep, Register, TakeLock, WriteFails, AnswerFailure, Receive, Timeout,
                AtCaller, Goto, CallSteps
  <2>5. (Alone(c) /\ Unsent(c) /\ Kept(c))'
    <3>1. CASE Register(c)
      <4>1. /\ call[c] = "idle" /\ AtCaller(c)' /\ call'[c] \notin {"idle", "failed"}
            /\ (c \in pending' => c \in pending \/ Asks(c))
        BY <3>1 DEF Register, Goto, AtCaller, CallSteps
      <4> QED BY <1>1, <2>2, <4>1 DEF PlaceInv, Alone, Unsent, Kept, Somewhere
    <3>2. CASE TakeLock(c) \/ Receive(c) \/ Timeout(c)
      <4>1. /\ (AtCaller(c)' <=> AtCaller(c)) /\ pending' = pending
            /\ call'[c] \notin {"idle", "failed"}
        BY <3>2 DEF TakeLock, Receive, Timeout, Goto, AtCaller, CallSteps
      <4> QED BY <1>1, <2>2, <4>1, Still
    <3>3. CASE WriteFails(c)
      <4>1. AtCaller(c) /\ ~AtCaller(c)' /\ pending' = pending /\ ~Reading'
        BY <1>0, <3>3 DEF WriteFails, Goto, AtCaller, Asks, CallSteps, Reading
      <4> QED BY <1>1, <2>2, <4>1 DEF PlaceInv, Alone, Unsent, Kept, Somewhere
    <3>4. CASE AnswerFailure(c)
      <4>1. ~AtCaller(c)' /\ c \notin pending' /\ call'[c] \notin {"idle", "failed"}
        BY <3>4 DEF AnswerFailure, Goto, AtCaller, CallSteps
      <4> QED BY <1>1, <2>2, <4>1 DEF PlaceInv, Alone, Unsent, Kept, Somewhere
    <3> QED BY <1>4, <3>1, <3>2, <3>3, <3>4 DEF CallStep
  <2>6. ASSUME NEW d \in Calls, d # c PROVE (Alone(d) /\ Unsent(d) /\ Kept(d))'
    BY <1>1, <2>2, <2>3, <2>6, Still
  <2> QED BY <1>2, <2>2, <2>5, <2>6 DEF PlaceInv
<1> QED BY <1>3, <1>4

\* Stop, and the end of the runtime.
LEMMA QuitPlaces ==
  ASSUME TypeOK, PlaceInv, QuitStep \/ Crash
  PROVE  PlaceInv'
<1>1. UNCHANGED <<kind, call, pending, reader, hand, stdout>>
  BY DEF QuitStep, WantQuit, QuitLock, QuitWrite, QuitKill, Crash, clientVars, readerVars
<1>2. ASSUME NEW d \in Calls
      PROVE  /\ (AtCaller(d)' <=> AtCaller(d)) /\ (AtHand(d)' <=> AtHand(d))
             /\ (InStdout(d)' <=> InStdout(d)) /\ (Asks(d)' <=> Asks(d))
  BY <1>1 DEF AtCaller, AtHand, InStdout, InSeq, Asks
<1>3. Once(stdout)'
  BY <1>1 DEF PlaceInv, Once
<1>4. CASE QuitKill \/ Crash
  <2>1. stdin' = <<>> /\ events' = <<>> /\ tasks' = {} /\ loop' = "gone" /\ alive' = FALSE
    BY <1>4 DEF QuitKill, Crash, RuntimeDies
  <2>2. ASSUME NEW d \in Calls
        PROVE  ~InStdin(d)' /\ ~InEvents(d)' /\ ~AtTasks(d)' /\ ~AtLoop(d)' /\ ~Reading'
    BY <2>1, EmptyHolds DEF InStdin, InEvents, AtTasks, AtLoop, Reading, InSeq
  <2>3. Once(stdin)' /\ Once(events)'
    BY <2>1, EmptyHolds DEF Once
  <2>4. ASSUME NEW d \in Calls PROVE (Alone(d) /\ Unsent(d) /\ Kept(d))'
    BY <1>1, <1>2, <2>2 DEF PlaceInv, Alone, Unsent, Kept, Somewhere
  <2> QED BY <1>3, <2>3, <2>4 DEF PlaceInv
<1>5. CASE WantQuit \/ QuitLock \/ QuitWrite
  <2>1. UNCHANGED <<events, tasks, loop, cur, alive>>
    BY <1>5 DEF WantQuit, QuitLock, QuitWrite, loopVars
  <2>2. stdin' = stdin \/ stdin' = Append(stdin, "shutdown")
    BY <1>5 DEF WantQuit, QuitLock, QuitWrite
  <2>3. /\ \A d \in Calls : InStdin(d)' <=> InStdin(d)
        /\ Once(stdin)'
    <3>1. CASE stdin' = stdin
      BY <3>1 DEF InStdin, InSeq, PlaceInv, Once
    <3>2. CASE stdin' = Append(stdin, "shutdown")
      <4>1. "shutdown" \notin Calls
        BY SessionAssumption DEF Unnamed
      <4>2. /\ \A d \in Calls : InSeq(d, stdin') <=> InSeq(d, stdin) \/ d = "shutdown"
            /\ Once(stdin')
        BY <3>2, <4>1, AppendHolds DEF TypeOK, PlaceInv
      <4> QED BY <4>1, <4>2 DEF InStdin, InSeq, Once
    <3> QED BY <2>2, <3>1, <3>2
  <2>4. ASSUME NEW d \in Calls
        PROVE  /\ (InEvents(d)' <=> InEvents(d)) /\ (AtTasks(d)' <=> AtTasks(d))
               /\ (AtLoop(d)' <=> AtLoop(d)) /\ (Reading' <=> Reading)
    BY <1>1, <2>1 DEF InEvents, AtTasks, AtLoop, InSeq, Reading
  <2>5. ASSUME NEW d \in Calls PROVE (Alone(d) /\ Unsent(d) /\ Kept(d))'
    BY <1>1, <1>2, <2>3, <2>4, Still
  <2>6. Once(events)'
    BY <2>1 DEF PlaceInv, Once
  <2> QED BY <1>3, <2>3, <2>5, <2>6 DEF PlaceInv
<1> QED BY <1>4, <1>5 DEF QuitStep

\* The read loop: a line is taken off the pipe, then its call off the table.
LEMMA ReaderPlaces ==
  ASSUME TypeOK, PlaceInv, ReaderStep
  PROVE  PlaceInv'
<1>1. UNCHANGED <<kind, call, stdin, loop, cur, tasks, events, alive>>
  BY DEF ReaderStep, Scan, Route, EndOfFile, Drain, clientVars, loopVars
<1>2. ASSUME NEW d \in Calls
      PROVE  /\ (AtCaller(d)' <=> AtCaller(d)) /\ (InStdin(d)' <=> InStdin(d))
             /\ (AtLoop(d)' <=> AtLoop(d)) /\ (AtTasks(d)' <=> AtTasks(d))
             /\ (InEvents(d)' <=> InEvents(d)) /\ (Asks(d)' <=> Asks(d))
  BY <1>1 DEF AtCaller, InStdin, InSeq, AtLoop, AtTasks, InEvents, Asks
<1>3. Once(stdin)' /\ Once(events)'
  BY <1>1 DEF PlaceInv, Once
<1>4. CASE Scan
  <2>1. /\ stdout # <<>> /\ stdout' = Tail(stdout) /\ hand' = Head(stdout) /\ reader = "scan"
        /\ pending' = pending
        /\ reader' = CASE Head(stdout) \in Calls -> "route"
                       [] Head(stdout) = "huge"  -> "drain"
                       [] OTHER                  -> "scan"
    BY <1>4 DEF Scan, clientVars
  <2>2. /\ Once(Tail(stdout))
        /\ \A d \in Calls : InSeq(d, stdout) <=> d = Head(stdout) \/ InSeq(d, Tail(stdout))
        /\ Head(stdout) \in Calls => ~InSeq(Head(stdout), Tail(stdout))
    BY <2>1, TailHolds DEF TypeOK, PlaceInv
  <2>3. ASSUME NEW d \in Calls
        PROVE  /\ InStdout(d) <=> d = Head(stdout) \/ InStdout(d)'
               /\ AtHand(d)' <=> d = Head(stdout)
               /\ ~AtHand(d) /\ ~(InStdout(d)' /\ AtHand(d)')
               /\ Reading' => Reading
    <3>1. (InStdout(d) <=> InSeq(d, stdout)) /\ (InStdout(d)' <=> InSeq(d, Tail(stdout)))
      BY <2>1 DEF InStdout, InSeq
    <3>2. ~AtHand(d) /\ (Reading' => Reading)
      BY <1>1, <2>1 DEF AtHand, Reading
    <3>3. AtHand(d)' <=> d = Head(stdout)
      <4> "huge" \notin Calls
        BY SessionAssumption DEF Unnamed
      <4>1. CASE Head(stdout) \in Calls
        BY <2>1, <4>1 DEF AtHand
      <4>2. CASE Head(stdout) \notin Calls
        BY <2>1, <4>2 DEF AtHand
      <4> QED BY <4>1, <4>2
    <3> QED BY <2>2, <3>1, <3>2, <3>3
  <2>4. ASSUME NEW d \in Calls PROVE (Alone(d) /\ Unsent(d) /\ Kept(d))'
    BY <1>1, <1>2, <2>1, <2>3 DEF PlaceInv, Alone, Unsent, Kept, Somewhere
  <2>5. Once(stdout)'
    BY <2>1, <2>2 DEF Once
  <2> QED BY <1>3, <2>4, <2>5 DEF PlaceInv
<1>5. CASE Route \/ EndOfFile \/ Drain
  <2>1. ASSUME NEW d \in Calls
        PROVE  /\ InStdout(d)' <=> InStdout(d)
               /\ ~AtHand(d)'
               /\ Reading' => Reading
               /\ d \in pending' => d \in pending /\ (Reading' => ~AtHand(d))
    BY <1>1, <1>5 DEF Route, EndOfFile, Drain, InStdout, InSeq, AtHand, Reading, clientVars
  <2>2. ASSUME NEW d \in Calls PROVE (Alone(d) /\ Unsent(d) /\ Kept(d))'
    BY <1>1, <1>2, <2>1 DEF PlaceInv, Alone, Unsent, Kept, Somewhere
  <2>3. Once(stdout)'
    BY <1>5 DEF Route, EndOfFile, Drain, PlaceInv, Once
  <2> QED BY <1>3, <2>2, <2>3 DEF PlaceInv
<1> QED BY <1>4, <1>5 DEF ReaderStep

\* A line leaves the event channel or the stdin pipe for the loop, the loop for
\* the stdout pipe or a task, and a task for the event channel.
LEMMA RuntimePlaces ==
  ASSUME TypeOK, PlaceInv, LoopStep \/ News \/ \E c \in Calls : TaskAnswers(c)
  PROVE  PlaceInv'
<1>0. "event" \notin Calls /\ "huge" \notin Calls /\ "shutdown" \notin Calls
  BY SessionAssumption DEF Unnamed
<1>1. UNCHANGED <<kind, call, pending, reader, hand, alive>>
  BY DEF LoopStep, ReadLine, SendPartial, WriteTags, HandlerReturns, Forward, Announce,
         WriteOut, News, TaskAnswers, clientVars, readerVars
<1>2. ASSUME NEW d \in Calls
      PROVE  /\ (AtCaller(d)' <=> AtCaller(d)) /\ (AtHand(d)' <=> AtHand(d))
             /\ (Asks(d)' <=> Asks(d)) /\ (Reading' <=> Reading)
  BY <1>1 DEF AtCaller, AtHand, Asks, Reading
<1>3. CASE ReadLine
  <2> DEFINE c == Head(stdin)
  <2>1. /\ stdin # <<>> /\ stdin' = Tail(stdin) /\ loop = "select"
        /\ UNCHANGED <<events, stdout>>
    BY <1>3 DEF ReadLine
  <2>2. /\ Once(Tail(stdin))
        /\ \A d \in Calls : InSeq(d, stdin) <=> d = c \/ InSeq(d, Tail(stdin))
        /\ c \in Calls => ~InSeq(c, Tail(stdin))
    BY <2>1, TailHolds DEF TypeOK, PlaceInv
  <2>3. Once(stdin)' /\ Once(events)' /\ Once(stdout)'
    BY <2>1, <2>2 DEF Once, PlaceInv
  <2>4. ASSUME NEW d \in Calls PROVE (Alone(d) /\ Unsent(d) /\ Kept(d))'
    <3>1. /\ (InStdin(d) <=> InSeq(d, stdin)) /\ (InStdin(d)' <=> InSeq(d, Tail(stdin)))
          /\ (InEvents(d)' <=> InEvents(d)) /\ (InStdout(d)' <=> InStdout(d))
      BY <2>1 DEF InStdin, InEvents, InStdout, InSeq
    <3>2. ~AtLoop(d)
      BY <2>1 DEF AtLoop
    <3>3. CASE d # c
      <4>1. (InStdin(d)' <=> InStdin(d)) /\ ~AtLoop(d)' /\ (AtTasks(d)' <=> AtTasks(d))
        BY <1>0, <1>3, <2>2, <3>1, <3>3 DEF ReadLine, AtLoop, AtTasks, loopVars
      <4> QED BY <1>1, <1>2, <3>1, <3>2, <4>1, Still
    <3>4. CASE d = c
      <4>1. InStdin(d) /\ ~InStdin(d)' /\ d \in Calls /\ ~AtTasks(d)
        BY <2>2, <3>1, <3>4 DEF PlaceInv, Alone
      <4>2. \/ ~Asks(d) /\ ~AtLoop(d)' /\ ~AtTasks(d)'
            \/ AtLoop(d)' /\ ~AtTasks(d)'
            \/ ~AtLoop(d)' /\ AtTasks(d)'
        BY <1>0, <1>3, <3>4, <4>1 DEF ReadLine, AtLoop, AtTasks, Asks, loopVars
      <4> QED BY <1>1, <1>2, <3>1, <3>2, <4>1, <4>2
              DEF PlaceInv, Alone, Unsent, Kept, Somewhere
    <3> QED BY <3>3, <3>4
  <2> QED BY <2>3, <2>4 DEF PlaceInv
<1>4. CASE SendPartial \/ News
  <2>1. events' = Append(events, "event") /\ UNCHANGED <<stdin, stdout, loop, cur, tasks>>
    BY <1>4 DEF SendPartial, News, loopVars
  <2>2. /\ \A d \in Calls : InSeq(d, events') <=> InSeq(d, events) \/ d = "event"
        /\ Once(events')
    BY <1>0, <2>1, AppendHolds DEF TypeOK, PlaceInv, Lines
  <2>3. ASSUME NEW d \in Calls PROVE (Alone(d) /\ Unsent(d) /\ Kept(d))'
    <3>1. (InEvents(d) <=> InSeq(d, events)) /\ (InEvents(d)' <=> InSeq(d, events'))
      BY DEF InEvents, InSeq
    <3>2. /\ (InStdin(d)' <=> InStdin(d)) /\ (InStdout(d)' <=> InStdout(d))
          /\ (AtLoop(d)' <=> AtLoop(d)) /\ (AtTasks(d)' <=> AtTasks(d))
      BY <2>1 DEF InStdin, InStdout, InSeq, AtLoop, AtTasks
    <3> QED BY <1>0, <1>1, <1>2, <2>2, <3>1, <3>2, Still
  <2>4. Once(stdin)' /\ Once(events)' /\ Once(stdout)'
    BY <2>1, <2>2 DEF Once, PlaceInv
  <2> QED BY <2>3, <2>4 DEF PlaceInv
<1>5. CASE WriteTags \/ HandlerReturns \/ Announce
  <2>1. UNCHANGED <<stdin, events, stdout, tasks>>
    BY <1>5 DEF WriteTags, HandlerReturns, Announce
  <2>2. ASSUME NEW d \in Calls PROVE (Alone(d) /\ Unsent(d) /\ Kept(d))'
    <3>1. AtLoop(d)' <=> AtLoop(d)
      BY <1>0, <1>5 DEF WriteTags, HandlerReturns, Announce, AtLoop
    <3>2. /\ (InStdin(d)' <=> InStdin(d)) /\ (InStdout(d)' <=> InStdout(d))
          /\ (InEvents(d)' <=> InEvents(d)) /\ (AtTasks(d)' <=> AtTasks(d))
      BY <2>1 DEF InStdin, InStdout, InEvents, InSeq, AtTasks
    <3> QED BY <1>1, <1>2, <3>1, <3>2, Still
  <2>3. Once(stdin)' /\ Once(events)' /\ Once(stdout)'
    BY <2>1 DEF Once, PlaceInv
  <2> QED BY <2>2, <2>3 DEF PlaceInv
<1>6. CASE Forward
  <2>1. /\ events # <<>> /\ events' = Tail(events) /\ cur' = Head(events)
        /\ loop = "select" /\ loop' = "write" /\ UNCHANGED <<stdin, stdout, tasks>>
    BY <1>6 DEF Forward
  <2>2. /\ Once(Tail(events))
        /\ \A d \in Calls : InSeq(d, events) <=> d = Head(events) \/ InSeq(d, Tail(events))
        /\ Head(events) \in Calls => ~InSeq(Head(events), Tail(events))
    BY <2>1, TailHolds DEF TypeOK, PlaceInv
  <2>3. ASSUME NEW d \in Calls PROVE (Alone(d) /\ Unsent(d) /\ Kept(d))'
    <3>1. (InEvents(d) <=> InSeq(d, events)) /\ (InEvents(d)' <=> InSeq(d, Tail(events)))
      BY <2>1 DEF InEvents, InSeq
    <3>2. /\ (InStdin(d)' <=> InStdin(d)) /\ (InStdout(d)' <=> InStdout(d))
          /\ (AtTasks(d)' <=> AtTasks(d))
          /\ ~AtLoop(d) /\ (AtLoop(d)' <=> d = Head(events))
      BY <2>1 DEF InStdin, InStdout, InSeq, AtLoop, AtTasks
    <3> QED BY <1>1, <1>2, <2>2, <3>1, <3>2 DEF PlaceInv, Alone, Unsent, Kept, Somewhere
  <2>4. Once(stdin)' /\ Once(events)' /\ Once(stdout)'
    BY <2>1, <2>2 DEF Once, PlaceInv
  <2> QED BY <2>3, <2>4 DEF PlaceInv
<1>7. CASE WriteOut
  <2>1. /\ stdout' = Append(stdout, cur) /\ cur' = "event" /\ loop = "write" /\ loop' = "select"
        /\ UNCHANGED <<stdin, events, tasks>>
    BY <1>7 DEF WriteOut
  <2>2. /\ \A d \in Calls : InSeq(d, stdout') <=> InSeq(d, stdout) \/ d = cur
        /\ Once(stdout')
    <3>1. cur \in Calls => ~InSeq(cur, stdout)
      BY <2>1 DEF PlaceInv, Alone, AtLoop, InStdout
    <3> QED BY <2>1, <3>1, AppendHolds DEF TypeOK, PlaceInv
  <2>3. ASSUME NEW d \in Calls PROVE (Alone(d) /\ Unsent(d) /\ Kept(d))'
    <3>1. (InStdout(d) <=> InSeq(d, stdout)) /\ (InStdout(d)' <=> InSeq(d, stdout'))
      BY DEF InStdout, InSeq
    <3>2. /\ (InStdin(d)' <=> InStdin(d)) /\ (InEvents(d)' <=> InEvents(d))
          /\ (AtTasks(d)' <=> AtTasks(d))
          /\ (AtLoop(d) <=> d = cur) /\ ~AtLoop(d)'
      BY <2>1 DEF InStdin, InEvents, InSeq, AtLoop, AtTasks
    <3> QED BY <1>1, <1>2, <2>2, <3>1, <3>2 DEF PlaceInv, Alone, Unsent, Kept, Somewhere
  <2>4. Once(stdin)' /\ Once(events)' /\ Once(stdout)'
    BY <2>1, <2>2 DEF Once, PlaceInv
  <2> QED BY <2>3, <2>4 DEF PlaceInv
<1>8. CASE \E c \in Calls : TaskAnswers(c)
  <2> PICK c \in Calls : TaskAnswers(c)
    BY <1>8
  <2>1. /\ events' = Append(events, c) /\ c \in tasks /\ tasks' = tasks \ {c}
        /\ UNCHANGED <<stdin, stdout, loop, cur>>
    BY DEF TaskAnswers, loopVars
  <2>2. /\ \A d \in Calls : InSeq(d, events') <=> InSeq(d, events) \/ d = c
        /\ Once(events')
    <3>1. ~InSeq(c, events)
      BY <2>1 DEF PlaceInv, Alone, AtTasks, InEvents
    <3> QED BY <2>1, <3>1, AppendHolds DEF TypeOK, PlaceInv, Lines
  <2>3. ASSUME NEW d \in Calls PROVE (Alone(d) /\ Unsent(d) /\ Kept(d))'
    <3>1. (InEvents(d) <=> InSeq(d, events)) /\ (InEvents(d)' <=> InSeq(d, events'))
      BY DEF InEvents, InSeq
    <3>2. /\ (InStdin(d)' <=> InStdin(d)) /\ (InStdout(d)' <=> InStdout(d))
          /\ (AtLoop(d)' <=> AtLoop(d))
          /\ (AtTasks(d)' <=> AtTasks(d) /\ d # c) /\ AtTasks(c)
      BY <2>1 DEF InStdin, InStdout, InSeq, AtLoop, AtTasks
    <3> QED BY <1>1, <1>2, <2>2, <3>1, <3>2 DEF PlaceInv, Alone, Unsent, Kept, Somewhere
  <2>4. Once(stdin)' /\ Once(events)' /\ Once(stdout)'
    BY <2>1, <2>2 DEF Once, PlaceInv
  <2> QED BY <2>3, <2>4 DEF PlaceInv
<1> QED BY <1>3, <1>4, <1>5, <1>6, <1>7, <1>8 DEF LoopStep

\* Every step keeps each request in one place.
LEMMA PlaceStep ==
  ASSUME TypeOK, PlaceInv, [Next]_vars
  PROVE  PlaceInv'
<1>1. CASE UNCHANGED vars
  <2>1. ASSUME NEW d \in Calls PROVE (Alone(d) /\ Unsent(d) /\ Kept(d))'
    <3>1. /\ (AtCaller(d)' <=> AtCaller(d)) /\ (InStdin(d)' <=> InStdin(d))
          /\ (AtLoop(d)' <=> AtLoop(d)) /\ (AtTasks(d)' <=> AtTasks(d))
          /\ (InEvents(d)' <=> InEvents(d)) /\ (InStdout(d)' <=> InStdout(d))
          /\ (AtHand(d)' <=> AtHand(d)) /\ (Asks(d)' <=> Asks(d)) /\ (Reading' <=> Reading)
      BY <1>1 DEF vars, AtCaller, InStdin, AtLoop, AtTasks, InEvents, InStdout, AtHand, InSeq,
                  Asks, Reading
    <3>2. UNCHANGED <<call, pending>>
      BY <1>1 DEF vars
    <3> QED BY <3>1, <3>2, Still
  <2>2. Once(stdin)' /\ Once(events)' /\ Once(stdout)'
    BY <1>1 DEF vars, Once, PlaceInv
  <2> QED BY <2>1, <2>2 DEF PlaceInv
<1> QED BY <1>1, CallerPlaces, QuitPlaces, ReaderPlaces, RuntimePlaces DEF Next

\* One place at most and one at least is one place.
LEMMA OnePlace ==
  ASSUME PlaceInv, Reading, NEW c \in pending, c \in Calls
  PROVE  \E p \in Places : Where(c) = {p}
<1>1. Somewhere(c) /\ Alone(c)
  BY DEF PlaceInv, Kept
<1>2. ASSUME NEW p \in Places
      PROVE  p \in Where(c) <=>
               CASE p = "caller" -> AtCaller(c) [] p = "stdin" -> InStdin(c)
                 [] p = "loop" -> AtLoop(c)     [] p = "tasks" -> AtTasks(c)
                 [] p = "events" -> InEvents(c) [] p = "stdout" -> InStdout(c)
                 [] OTHER -> AtHand(c)
  BY DEF Where, Places, AtCaller, InStdin, AtLoop, AtTasks, InEvents, InStdout, AtHand
<1>3. Where(c) \subseteq Places
  BY DEF Where
<1>4. CASE AtCaller(c)
  <2>1. Where(c) = {"caller"}
    BY <1>1, <1>2, <1>3, <1>4 DEF Places, Alone
  <2> QED BY <2>1 DEF Places
<1>5. CASE InStdin(c)
  <2>1. Where(c) = {"stdin"}
    BY <1>1, <1>2, <1>3, <1>5 DEF Places, Alone
  <2> QED BY <2>1 DEF Places
<1>6. CASE AtLoop(c)
  <2>1. Where(c) = {"loop"}
    BY <1>1, <1>2, <1>3, <1>6 DEF Places, Alone
  <2> QED BY <2>1 DEF Places
<1>7. CASE AtTasks(c)
  <2>1. Where(c) = {"tasks"}
    BY <1>1, <1>2, <1>3, <1>7 DEF Places, Alone
  <2> QED BY <2>1 DEF Places
<1>8. CASE InEvents(c)
  <2>1. Where(c) = {"events"}
    BY <1>1, <1>2, <1>3, <1>8 DEF Places, Alone
  <2> QED BY <2>1 DEF Places
<1>9. CASE InStdout(c)
  <2>1. Where(c) = {"stdout"}
    BY <1>1, <1>2, <1>3, <1>9 DEF Places, Alone
  <2> QED BY <2>1 DEF Places
<1>10. CASE AtHand(c)
  <2>1. Where(c) = {"hand"}
    BY <1>1, <1>2, <1>3, <1>10 DEF Places, Alone
  <2> QED BY <2>1 DEF Places
<1> QED BY <1>1, <1>4, <1>5, <1>6, <1>7, <1>8, <1>9, <1>10 DEF Somewhere

\* Every id is in one place, in every state.
LEMMA PlaceInvHolds == Spec => []PlaceInv
<1>1. Init => PlaceInv
  <2> SUFFICES ASSUME Init PROVE PlaceInv
    OBVIOUS
  <2>1. stdin = <<>> /\ events = <<>> /\ stdout = <<>> /\ loop = "select" /\ tasks = {}
        /\ reader = "scan" /\ pending = {} /\ \A c \in Calls : call[c] = "idle"
    BY DEF Init
  <2>2. ASSUME NEW c \in Calls PROVE ~Somewhere(c)
    BY <2>1, EmptyHolds DEF Somewhere, AtCaller, InStdin, AtLoop, AtTasks, InEvents, InStdout, AtHand
  <2> QED BY <2>1, <2>2, EmptyHolds DEF PlaceInv, Alone, Unsent, Kept, Somewhere
<1>2. TypeOK /\ PlaceInv /\ [Next]_vars => PlaceInv'
  BY PlaceStep
<1> QED BY <1>1, <1>2, TypeCorrect, PTL DEF Spec

\* No request of the client's table is lost or answered twice between the pipes,
\* the loop, the spawned tasks and the event channel, for any number of calls,
\* any capacities and any interleaving, until the runtime or the reader ends.
THEOREM NoRequestLost == Spec => []NothingLost
<1>1. TypeOK /\ PlaceInv => NothingLost
  BY OnePlace DEF NothingLost, Reading, TypeOK
<1> QED BY <1>1, TypeCorrect, PlaceInvHolds, PTL

----------------------------------------------------------------------------
(* Who answers a call.                                                      *)

\* A call that has not gone out is answered by the drain alone, a call in the table
\* by nobody yet.
AnswerInv ==
  \A c \in Calls :
    /\ c \in pending => call[c] # "idle" /\ chan[c] = "open"
    /\ call[c] = "idle" => chan[c] = "open"
    /\ call[c] = "failed" => ~alive
    /\ call[c] \in {"registered", "locked", "failed"} =>
         chan[c] = "open" \/ (chan[c] = "error" /\ reader = "over")
    /\ call[c] = "panicked" => ~alive /\ reader = "over" /\ chan[c] = "error"

\* Every step keeps the table unanswered: whoever answers takes the entry out, and
\* the router holds no call whose write has failed.
LEMMA AnswerStep ==
  ASSUME TypeOK, PlaceInv, AnswerInv, [Next]_vars
  PROVE  AnswerInv'
<1> USE DEF AnswerInv
<1>1. ASSUME NEW c \in Calls, CallStep(c) PROVE AnswerInv'
  <2>1. UNCHANGED <<reader, alive>>
    BY <1>1 DEF CallStep, Register, TakeLock, Write, WriteFails, AnswerFailure, Receive,
                Timeout, readerVars
  <2>2. ASSUME NEW d \in Calls, d # c
        PROVE  /\ call'[d] = call[d] /\ chan'[d] = chan[d]
               /\ d \in pending' <=> d \in pending
    BY <1>1, <2>2 DEF CallStep, Register, TakeLock, Write, WriteFails, AnswerFailure, Receive,
                Timeout, Goto, TypeOK
  <2>3. CASE Register(c) \/ TakeLock(c)
    BY <2>1, <2>2, <2>3 DEF Register, TakeLock, Goto, TypeOK
  <2>4. CASE Write(c) \/ Receive(c) \/ Timeout(c)
    BY <2>1, <2>2, <2>4 DEF Write, Receive, Timeout, Goto, TypeOK
  <2>5. CASE WriteFails(c)
    BY <2>1, <2>2, <2>5 DEF WriteFails, Goto, TypeOK
  <2>6. CASE AnswerFailure(c)
    <3>1. call[c] = "failed" /\ c \notin pending' /\ ~alive
      BY <2>6 DEF AnswerFailure
    <3>2. \/ call'[c] = "waiting"
          \/ call'[c] = "panicked" /\ chan'[c] = chan[c] /\ chan[c] # "open"
      BY <2>6 DEF AnswerFailure, Goto, TypeOK
    <3> QED BY <2>1, <2>2, <3>1, <3>2
  <2> QED BY <1>1, <2>3, <2>4, <2>5, <2>6 DEF CallStep
<1>2. CASE Route
  <2>1. UNCHANGED <<call, alive>> /\ pending' = pending \ {hand} /\ reader = "route" /\ Up
    BY <1>2 DEF Route
  <2>2. ASSUME NEW d \in Calls, d # hand PROVE chan'[d] = chan[d]
    BY <1>2, <2>2 DEF Route, TypeOK
  <2>3. ASSUME NEW d \in Calls, d = hand
        PROVE  call[d] \notin {"idle", "registered", "locked", "failed", "panicked"}
    <3>1. AtHand(d) /\ Somewhere(d)
      BY <2>1, <2>3 DEF AtHand, Somewhere
    <3>2. ~AtCaller(d) /\ call[d] \notin {"idle", "failed"}
      BY <3>1 DEF PlaceInv, Alone, Unsent
    <3> QED BY <2>1, <3>2 DEF AtCaller, Up
  <2> QED BY <2>1, <2>2, <2>3
<1>3. CASE Drain
  <2>1. /\ UNCHANGED <<call, alive>> /\ pending' = {} /\ reader' = "over"
        /\ \A d \in Calls : chan'[d] = IF d \in pending THEN "error" ELSE chan[d]
    BY <1>3 DEF Drain
  <2> QED BY <2>1
<1>4. CASE Scan \/ EndOfFile
  BY <1>4 DEF Scan, EndOfFile, clientVars
<1>5. CASE QuitStep \/ Crash
  <2>1. UNCHANGED <<call, chan, pending, reader>> /\ (alive' => alive)
    BY <1>5 DEF QuitStep, WantQuit, QuitLock, QuitWrite, QuitKill, Crash, RuntimeDies,
                clientVars, readerVars
  <2>2. alive \in BOOLEAN /\ alive' \in BOOLEAN
    BY TypeStep DEF TypeOK
  <2> QED BY <2>1, <2>2
<1>6. CASE LoopStep \/ News \/ \E c \in Calls : TaskAnswers(c)
  <2>1. UNCHANGED <<call, chan, pending, reader, alive>>
    BY <1>6 DEF LoopStep, ReadLine, SendPartial, WriteTags, HandlerReturns, Forward, Announce,
                WriteOut, News, TaskAnswers, clientVars, readerVars
  <2> QED BY <2>1
<1>7. CASE UNCHANGED vars
  BY <1>7 DEF vars
<1> QED BY <1>1, <1>2, <1>3, <1>4, <1>5, <1>6, <1>7 DEF Next, ReaderStep

\* Router and drain never answer a call a second time, for any number of calls; the
\* one second answer is that of a write that failed after the drain (internal.go:66).
THEOREM OneAnswerOfTheLoop == Spec => []NobodyElseAnswersTwice
<1>1. Init => AnswerInv
  BY DEF Init, AnswerInv
<1>2. TypeOK /\ PlaceInv /\ AnswerInv /\ [Next]_vars => AnswerInv'
  BY AnswerStep
<1>3. AnswerInv => NobodyElseAnswersTwice
  BY DEF AnswerInv, NobodyElseAnswersTwice
<1> QED BY <1>1, <1>2, <1>3, TypeCorrect, PlaceInvHolds, PTL DEF Spec

=============================================================================
