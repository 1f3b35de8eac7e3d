-------------------------- MODULE ServerTestProofs --------------------------
(***************************************************************************)
(* The tests with a probe server, for every number of runs, lines and      *)
(* buffers: communicate() never meets a pending readline, the clean-up of  *)
(* the uprobe driver never raises, and no line of output is lost.          *)
(***************************************************************************)
EXTENDS ServerTest, SequenceTheorems, TLAPS

-----------------------------------------------------------------------------
(* Types *)

LEMMA TypeInit == Init => TypeOK
<1> SUFFICES ASSUME Init PROVE TypeOK
  OBVIOUS
<1>1. /\ known \in BOOLEAN /\ gone \in BOOLEAN /\ eof \in BOOLEAN
      /\ started \in BOOLEAN /\ shouldExit \in BOOLEAN
  BY DEF Init
<1>2. QED
  BY <1>1, BoundAssumption DEF Init, TypeOK

(* The server and the event loop. *)
LEMMA TypeLoop == ASSUME TypeOK, ServerStep \/ LoopStep PROVE TypeOK'
<1> USE BoundAssumption DEF TypeOK, process, output, stream, readerVars, events, testVars, Lines
<1>1. ASSUME NEW starts \in BOOLEAN, Prints(starts) PROVE TypeOK'
  <2>1. /\ written' \in 1 .. MaxLines
        /\ startLine' \in 0 .. MaxLines
    BY <1>1 DEF Prints
  <2>2. pipe' \in Seq(Lines) /\ Len(pipe') <= PipeCap
    BY <1>1, <2>1 DEF Prints
  <2>3. QED
    BY <1>1, <2>1, <2>2 DEF Prints
<1>2. CASE Dies
  BY <1>2 DEF Dies
<1>3. CASE Feed
  <2>1. /\ pipe' \in Seq(Lines) /\ Len(pipe') <= PipeCap
        /\ buffer' \in Seq(Lines) /\ Len(buffer') <= BufCap
    BY <1>3 DEF Feed
  <2>2. QED
    BY <1>3, <2>1 DEF Feed
<1>4. CASE FeedEof
  <2>1. eof' \in BOOLEAN
    BY <1>4 DEF FeedEof
  <2>2. QED
    BY <1>4, <2>1 DEF FeedEof
<1>5. CASE ExitNoticed
  <2>1. known' \in BOOLEAN
    BY <1>5 DEF ExitNoticed
  <2>2. QED
    BY <1>5, <2>1 DEF ExitNoticed
<1>6. CASE ConnectionLost
  <2>1. gone' \in BOOLEAN
    BY <1>6 DEF ConnectionLost
  <2>2. QED
    BY <1>6, <2>1 DEF ConnectionLost
<1>7. QED
  BY <1>1, <1>2, <1>3, <1>4, <1>5, <1>6 DEF ServerStep, LoopStep

LEMMA TypeReader == ASSUME TypeOK, ReaderStep PROVE TypeOK'
<1> USE BoundAssumption DEF TypeOK, process, output, stream, events, testVars, Lines
<1>1. CASE ReaderTurn
  BY <1>1 DEF ReaderTurn
<1>2. CASE Notified
  BY <1>2 DEF Notified
<1>3. CASE ReadLine
  <2>1. /\ buffer' \in Seq(Lines) /\ Len(buffer') <= BufCap
        /\ line' \in 0 .. MaxLines
    <3>1. CASE buffer # <<>> /\ line' = Head(buffer) /\ buffer' = Tail(buffer)
      <4>1. Head(buffer) \in Lines /\ Tail(buffer) \in Seq(Lines)
        BY <3>1
      <4>2. Len(Tail(buffer)) <= BufCap
        BY <3>1
      <4>3. QED
        BY <3>1, <4>1, <4>2
    <3>2. CASE line' = 0 /\ buffer' = buffer
      BY <3>2
    <3>3. QED
      BY <1>3, <3>1, <3>2 DEF ReadLine
  <2>2. QED
    BY <1>3, <2>1 DEF ReadLine
<1>4. CASE ReaderWakes
  <2>1. log' \in Seq(Lines)
    <3>1. line # 0 => line \in Lines
      OBVIOUS
    <3>2. log' = log \/ (line # 0 /\ log' = Append(log, line))
      BY <1>4 DEF ReaderWakes
    <3>3. log \in Seq(Lines)
      OBVIOUS
    <3>4. line # 0 => Append(log, line) \in Seq(Lines)
      BY <3>1, <3>3, AppendProperties
    <3>5. QED
      BY <3>2, <3>3, <3>4
  <2>2. started' \in BOOLEAN
    BY <1>4 DEF ReaderWakes
  <2>3. reader' \in {"turn", "ended"}
    BY <1>4 DEF ReaderWakes, AfterEmpty
  <2>4. QED
    BY <1>4, <2>1, <2>2, <2>3 DEF ReaderWakes
<1>5. QED
  BY <1>1, <1>2, <1>3, <1>4 DEF ReaderStep

LEMMA TypeTest == ASSUME TypeOK, TestStep PROVE TypeOK'
<1> USE BoundAssumption DEF TypeOK, process, output, stream, readerVars, events, Lines
<1>1. CASE Launch
  BY <1>1 DEF Launch
<1>2. CASE SeesStart
  BY <1>2 DEF SeesStart
<1>3. CASE Settled
  BY <1>3 DEF Settled
<1>4. CASE StartTimeout
  <2>1. started' \in BOOLEAN /\ shouldExit' \in BOOLEAN
    BY <1>4 DEF StartTimeout
  <2>2. QED
    BY <1>4, <2>1 DEF StartTimeout
<1>5. ASSUME NEW o \in Outcomes, Run(o) PROVE TypeOK'
  <2>1. runs' \in 0 .. NumRuns /\ values' \in 0 .. runs'
    BY <1>5 DEF Run, RunsOf, RunFails, RunEnds
  <2>2. shouldExit' \in BOOLEAN
    BY <1>5 DEF Run, RunFails, RunEnds
  <2>3. QED
    BY <1>5, <2>1, <2>2 DEF Run, RunFails, RunEnds
<1>6. CASE Stop
  <2>1. shouldExit' \in BOOLEAN
    BY <1>6 DEF Stop
  <2>2. QED
    BY <1>6, <2>1 DEF Stop
<1>7. CASE Joined
  <2>1. /\ server' \in {"none", "running", "dead"}
        /\ main' \in {"collecting", "raised"}
        /\ error' \in {"none", "launch", "start", "run", "wrk", "kill"}
    BY <1>7 DEF Joined, KillServer, KillUnchecked
  <2>2. QED
    BY <1>7, <2>1 DEF Joined
<1>8. CASE Collect
  <2>1. /\ buffer' \in Seq(Lines) /\ Len(buffer') <= BufCap
        /\ rest' \in Seq(Lines)
    BY <1>8 DEF Collect
  <2>2. QED
    BY <1>8, <2>1 DEF Collect, testVars
<1>9. CASE Collected
  BY <1>9 DEF Collected
<1>10. QED
  BY <1>1, <1>2, <1>3, <1>4, <1>5, <1>6, <1>7, <1>8, <1>9 DEF TestStep

LEMMA TypeStep == TypeOK /\ [Next]_vars => TypeOK'
<1>1. ASSUME TypeOK, UNCHANGED vars PROVE TypeOK'
  BY <1>1 DEF TypeOK, vars, process, output, stream, readerVars, events, testVars
<1>2. QED
  BY <1>1, TypeLoop, TypeReader, TypeTest DEF Next

(* Type correctness, for every number of runs and all sizes. *)
THEOREM TypeCorrect == Spec => []TypeOK
BY TypeInit, TypeStep, PTL DEF Spec

-----------------------------------------------------------------------------

(* The tasks of the reader exist only while it waits for them; the test    *)
(* collects only after the reader; a closed transport has seen the exit.   *)
NoTasks == reader # "wait" => t1 = "none" /\ t2 = "none"
ReaderBefore == main \in {"collecting", "returned"} => reader = "ended"
GoneIsKnown == gone => known
NoneAtLaunch == main = "launch" => reader = "none"

IInv == NoTasks /\ ReaderBefore /\ GoneIsKnown /\ NoneAtLaunch /\ CleanUpKeepsResult

LEMMA IInvInit == Init => IInv
BY DEF Init, IInv, NoTasks, ReaderBefore, GoneIsKnown, NoneAtLaunch, CleanUpKeepsResult

(* The server and the event loop. *)
LEMMA IInvLoop == ASSUME IInv, ServerStep \/ LoopStep PROVE IInv'
<1> USE DEF IInv, NoTasks, ReaderBefore, GoneIsKnown, NoneAtLaunch, CleanUpKeepsResult,
            process, output, stream, readerVars, events, testVars
<1>1. ASSUME NEW starts \in BOOLEAN, Prints(starts) PROVE IInv'
  BY <1>1 DEF Prints
<1>2. CASE Dies
  BY <1>2 DEF Dies
<1>3. CASE Feed
  BY <1>3 DEF Feed
<1>4. CASE FeedEof
  BY <1>4 DEF FeedEof
<1>5. CASE ExitNoticed
  BY <1>5 DEF ExitNoticed
<1>6. CASE ConnectionLost
  BY <1>6 DEF ConnectionLost
<1>7. QED
  BY <1>1, <1>2, <1>3, <1>4, <1>5, <1>6 DEF ServerStep, LoopStep

(* The reader, which has ended when the test collects. *)
LEMMA IInvReader == ASSUME IInv, ReaderStep PROVE IInv'
<1> USE DEF IInv, NoTasks, ReaderBefore, GoneIsKnown, NoneAtLaunch, CleanUpKeepsResult,
            process, output, stream, events, testVars
<1>1. CASE ReaderTurn
  BY <1>1 DEF ReaderTurn
<1>2. CASE Notified
  BY <1>2 DEF Notified
<1>3. CASE ReadLine
  BY <1>3 DEF ReadLine
<1>4. CASE ReaderWakes
  BY <1>4 DEF ReaderWakes
<1>5. QED
  BY <1>1, <1>2, <1>3, <1>4 DEF ReaderStep

(* The test.  The uprobe driver signals a process it does not know to be   *)
(* dead, whose transport is therefore not gone.                            *)
LEMMA IInvTest == ASSUME IInv, TestStep PROVE IInv'
<1> USE DEF IInv, NoTasks, ReaderBefore, GoneIsKnown, NoneAtLaunch, CleanUpKeepsResult,
            process, output, stream, readerVars, events
<1>1. CASE Launch
  BY <1>1 DEF Launch
<1>2. CASE SeesStart
  BY <1>2 DEF SeesStart
<1>3. CASE Settled
  BY <1>3 DEF Settled
<1>4. CASE StartTimeout
  BY <1>4 DEF StartTimeout
<1>5. ASSUME NEW o \in Outcomes, Run(o) PROVE IInv'
  BY <1>5 DEF Run, RunFails, RunEnds
<1>6. CASE Stop
  BY <1>6 DEF Stop
<1>7. CASE Joined
  <2>1. NoTasks' /\ ReaderBefore' /\ GoneIsKnown'
    BY <1>7 DEF Joined, ReaderIsDone
  <2>2. suite = "uprobe" => error' = error
    BY <1>7 DEF Joined, KillServer, KillUnchecked
  <2>3. CleanUpKeepsResult'
    BY <1>7, <2>2 DEF Joined
  <2>4. NoneAtLaunch'
    BY <1>7 DEF Joined, KillServer, KillUnchecked
  <2>5. QED
    BY <2>1, <2>3, <2>4
<1>8. CASE Collect
  BY <1>8 DEF Collect, testVars
<1>9. CASE Collected
  BY <1>9 DEF Collected
<1>10. QED
  BY <1>1, <1>2, <1>3, <1>4, <1>5, <1>6, <1>7, <1>8, <1>9 DEF TestStep

LEMMA IInvStep == IInv /\ [Next]_vars => IInv'
<1>1. ASSUME IInv, UNCHANGED vars PROVE IInv'
  BY <1>1 DEF IInv, NoTasks, ReaderBefore, GoneIsKnown, NoneAtLaunch, CleanUpKeepsResult,
     vars, process, output, stream, readerVars, events, testVars
<1>2. QED
  BY <1>1, IInvLoop, IInvReader, IInvTest DEF Next

(* The strengthening holds of every run. *)
THEOREM Inductive == Spec => []IInv
BY IInvInit, IInvStep, PTL DEF Spec

(* The last read of the server's output is the only one under way. *)
THEOREM ReadsAlone == Spec => []OneReader
<1>1. IInv => OneReader
  BY DEF IInv, NoTasks, ReaderBefore, OneReader
<1>2. QED
  BY <1>1, Inductive, PTL

(* The values the uprobe driver has measured survive its clean-up. *)
THEOREM CleanUpIsSafe == Spec => []CleanUpKeepsResult
<1>1. IInv => CleanUpKeepsResult
  BY DEF IInv
<1>2. QED
  BY <1>1, Inductive, PTL

-----------------------------------------------------------------------------
(* No line is lost: the places a line can be in, in their order, always    *)
(* hold what has been printed.                                             *)

Hand == IF t2 = "done" /\ line # 0 THEN <<line>> ELSE <<>>
Printed(n) == [i \in 1 .. n |-> i]
AllLines == log \o Hand \o rest \o buffer \o pipe

RestIsLast == rest # <<>> => reader = "ended"
AbortIsLast == error = "run" => main = "raised"
Kept == error # "run" => AllLines = Printed(written)

OrderInv == RestIsLast /\ AbortIsLast /\ Kept

LEMMA HeadFirst ==
  ASSUME NEW S, NEW s \in Seq(S), s # <<>>
  PROVE  /\ <<Head(s)>> \in Seq(S) /\ Tail(s) \in Seq(S)
         /\ s = <<Head(s)>> \o Tail(s)
OBVIOUS

(* A line goes from the pipe into the stream. *)
LEMMA FeedOrder ==
  ASSUME NEW a \in Seq(Lines), NEW b \in Seq(Lines), NEW p \in Seq(Lines), p # <<>>
  PROVE  a \o Append(b, Head(p)) \o Tail(p) = a \o b \o p
<1>1. /\ <<Head(p)>> \in Seq(Lines) /\ Tail(p) \in Seq(Lines) /\ Head(p) \in Lines
      /\ p = <<Head(p)>> \o Tail(p)
  BY HeadFirst, HeadTailProperties
<1>2. Append(b, Head(p)) = b \o <<Head(p)>>
  BY <1>1, AppendIsConcat
<1>3. a \o (b \o <<Head(p)>>) = (a \o b) \o <<Head(p)>>
  BY <1>1, ConcatAssociative
<1>4. ((a \o b) \o <<Head(p)>>) \o Tail(p) = (a \o b) \o (<<Head(p)>> \o Tail(p))
  BY <1>1, ConcatAssociative, ConcatProperties
<1>5. QED
  BY <1>1, <1>2, <1>3, <1>4

(* A line goes from the stream into the reader's hand. *)
LEMMA ReadOrder ==
  ASSUME NEW a \in Seq(Lines), NEW b \in Seq(Lines), b # <<>>
  PROVE  a \o <<Head(b)>> \o Tail(b) = a \o b
<1>1. /\ <<Head(b)>> \in Seq(Lines) /\ Tail(b) \in Seq(Lines)
      /\ b = <<Head(b)>> \o Tail(b)
  BY HeadFirst
<1>2. QED
  BY <1>1, ConcatAssociative

LEMMA HandInit == Init => OrderInv
<1> SUFFICES ASSUME Init PROVE OrderInv
  OBVIOUS
<1>1. AllLines = Printed(written)
  BY DEF Init, AllLines, Hand, Printed
<1>2. QED
  BY <1>1 DEF Init, OrderInv, RestIsLast, AbortIsLast, Kept

LEMMA HandType == TypeOK => Hand \in Seq(Lines)
<1> SUFFICES ASSUME line \in 0 .. MaxLines PROVE Hand \in Seq(Lines)
  BY DEF TypeOK
<1>1. line # 0 => line \in Lines
  BY BoundAssumption DEF Lines
<1>2. line # 0 => <<line>> \in Seq(Lines)
  BY <1>1
<1>3. QED
  BY <1>2, EmptySeq DEF Hand

(* Steps that touch no line. *)
LEMMA OrderUnchanged ==
  ASSUME OrderInv, UNCHANGED <<written, pipe, buffer, log, rest, t2, line>>,
         reader = "ended" => reader' = "ended",
         error # "run" => error' # "run" \/ main' = "raised",
         error = "run" => error' = "run", main = "raised" => main' = "raised"
  PROVE  OrderInv'
BY DEF OrderInv, RestIsLast, AbortIsLast, Kept, AllLines, Hand, Printed

LEMMA OrderLoop == ASSUME TypeOK, OrderInv, ServerStep \/ LoopStep PROVE OrderInv'
<1>1. ASSUME NEW starts \in BOOLEAN, Prints(starts) PROVE OrderInv'
  <2>1. /\ written' = written + 1 /\ pipe' = Append(pipe, written + 1)
        /\ UNCHANGED <<log, t2, line, rest, buffer, reader, error, main>>
    BY <1>1 DEF Prints, process, stream, readerVars, events, testVars
  <2> DEFINE a == log \o Hand \o rest \o buffer
  <2>2. a \in Seq(Lines) /\ a' = a
    <3>1. Hand' = Hand
      BY <2>1 DEF Hand
    <3>2. QED
      BY <2>1, <3>1, HandType, ConcatProperties DEF TypeOK
  <2>3. pipe \in Seq(Lines) /\ written + 1 \in Lines /\ written \in Nat
    BY <1>1, BoundAssumption DEF TypeOK, Lines, Prints
  <2> HIDE DEF a
  <2>4. a \o Append(pipe, written + 1) = Append(a \o pipe, written + 1)
    <3> DEFINE n == written + 1
    <3>1. n \in Lines /\ <<n>> \in Seq(Lines) /\ a \o pipe \in Seq(Lines)
      BY <2>2, <2>3, ConcatProperties
    <3> HIDE DEF n
    <3>2. Append(pipe, n) = pipe \o <<n>> /\ Append(a \o pipe, n) = (a \o pipe) \o <<n>>
      BY <2>3, <3>1, AppendIsConcat
    <3>3. a \o (pipe \o <<n>>) = (a \o pipe) \o <<n>>
      BY <2>2, <2>3, <3>1, ConcatAssociative
    <3>4. QED
      BY <3>2, <3>3 DEF n
  <2>5. Append(Printed(written), written + 1) = Printed(written + 1)
    BY <2>3 DEF Printed
  <2>6. AllLines' = a \o Append(pipe, written + 1) /\ AllLines = a \o pipe
    BY <2>1, <2>2 DEF AllLines, a
  <2>7. Kept'
    BY <2>1, <2>4, <2>5, <2>6 DEF OrderInv, Kept, Printed
  <2>8. QED
    BY <2>1, <2>7 DEF OrderInv, RestIsLast, AbortIsLast
<1>2. CASE Dies
  BY <1>2, OrderUnchanged DEF Dies, output, stream, readerVars, events, testVars
<1>3. CASE Feed
  <2>1. /\ pipe # <<>> /\ pipe' = Tail(pipe) /\ buffer' = Append(buffer, Head(pipe))
        /\ UNCHANGED <<written, log, t2, line, rest, reader, error, main>>
    BY <1>3 DEF Feed, readerVars, testVars
  <2> DEFINE a == log \o Hand \o rest
  <2>2. a \in Seq(Lines) /\ a' = a
    <3>1. Hand' = Hand
      BY <2>1 DEF Hand
    <3>2. QED
      BY <2>1, <3>1, HandType, ConcatProperties DEF TypeOK
  <2>3. a \o Append(buffer, Head(pipe)) \o Tail(pipe) = a \o buffer \o pipe
    <3>1. pipe \in Seq(Lines) /\ buffer \in Seq(Lines) /\ pipe # <<>>
      BY <2>1 DEF TypeOK
    <3>2. a \in Seq(Lines)
      BY <2>2
    <3> HIDE DEF a
    <3>3. QED
      BY <3>1, <3>2, FeedOrder
  <2>4. AllLines' = AllLines
    BY <2>1, <2>2, <2>3 DEF AllLines
  <2>5. QED
    BY <2>1, <2>4 DEF OrderInv, RestIsLast, AbortIsLast, Kept, Printed
<1>4. CASE FeedEof
  BY <1>4, OrderUnchanged DEF FeedEof, output, readerVars, events, testVars
<1>5. CASE ExitNoticed
  BY <1>5, OrderUnchanged DEF ExitNoticed, output, stream, readerVars, events, testVars
<1>6. CASE ConnectionLost
  BY <1>6, OrderUnchanged DEF ConnectionLost, output, stream, readerVars, events, testVars
<1>7. QED
  BY <1>1, <1>2, <1>3, <1>4, <1>5, <1>6 DEF ServerStep, LoopStep

(* The reader: nothing has been left for communicate() while it lives. *)
LEMMA OrderReader == ASSUME TypeOK, IInv, OrderInv, ReaderStep PROVE OrderInv'
<1>1. CASE ReaderTurn
  <2>1. Hand = <<>> /\ Hand' = <<>>
    BY <1>1 DEF ReaderTurn, Hand, IInv, NoTasks
  <2>2. AllLines' = AllLines
    BY <1>1, <2>1 DEF ReaderTurn, AllLines, output, stream
  <2>3. QED
    BY <1>1, <2>2 DEF ReaderTurn, OrderInv, RestIsLast, AbortIsLast, Kept, output, testVars
<1>2. CASE Notified
  BY <1>2, OrderUnchanged DEF Notified, output, stream, testVars
<1>3. CASE ReadLine
  <2>1. rest = <<>> /\ Hand = <<>>
    BY <1>3 DEF ReadLine, OrderInv, RestIsLast, IInv, NoTasks, Hand
  <2>2. AllLines' = AllLines
    <3>1. CASE buffer # <<>> /\ line' = Head(buffer) /\ buffer' = Tail(buffer)
      <4>1. buffer \in Seq(Lines) /\ log \in Seq(Lines) /\ Head(buffer) \in Lines
        BY <3>1 DEF TypeOK
      <4>2. Hand' = <<Head(buffer)>>
        BY <1>3, <3>1, <4>1 DEF ReadLine, Hand, Lines
      <4>3. <<Head(buffer)>> \in Seq(Lines) /\ log \o <<Head(buffer)>> \in Seq(Lines)
        BY <4>1, ConcatProperties
      <4>4. (log \o <<Head(buffer)>>) \o <<>> = log \o <<Head(buffer)>> /\ log \o <<>> = log
        BY <4>1, <4>3, ConcatEmptySeq
      <4>5. log \o <<Head(buffer)>> \o Tail(buffer) = log \o buffer
        BY <3>1, <4>1, ReadOrder
      <4>6. UNCHANGED <<log, rest, pipe>>
        BY <1>3 DEF ReadLine, output
      <4>7. QED
        BY <2>1, <3>1, <4>2, <4>4, <4>5, <4>6 DEF AllLines
    <3>2. CASE line' = 0 /\ buffer' = buffer
      BY <1>3, <2>1, <3>2 DEF ReadLine, AllLines, Hand, output
    <3>3. QED
      BY <1>3, <3>1, <3>2 DEF ReadLine
  <2>3. QED
    BY <1>3, <2>1, <2>2
    DEF ReadLine, OrderInv, RestIsLast, AbortIsLast, Kept, output, testVars
<1>4. CASE ReaderWakes
  <2>1. rest = <<>> /\ rest' = <<>> /\ Hand' = <<>>
    BY <1>4 DEF ReaderWakes, OrderInv, RestIsLast, Hand
  <2>2. AllLines' = AllLines
    <3>1. CASE t2 = "done" /\ line # 0
      <4>1. Hand = <<line>> /\ log' = Append(log, line)
        BY <1>4, <3>1 DEF ReaderWakes, Hand
      <4>2. log \in Seq(Lines) /\ line \in Lines
        BY <3>1, BoundAssumption DEF TypeOK, Lines
      <4>3. Append(log, line) = log \o <<line>> /\ Append(log, line) \in Seq(Lines)
        BY <4>2, AppendIsConcat, AppendProperties
      <4>4. Append(log, line) \o <<>> = Append(log, line)
        BY <4>3, ConcatEmptySeq
      <4>5. UNCHANGED <<buffer, pipe>>
        BY <1>4 DEF ReaderWakes, output, stream
      <4>6. QED
        BY <2>1, <4>1, <4>3, <4>4, <4>5 DEF AllLines
    <3>2. CASE ~(t2 = "done" /\ line # 0)
      <4>1. Hand = <<>> /\ UNCHANGED <<log, buffer, pipe>>
        BY <1>4, <3>2 DEF ReaderWakes, Hand, output, stream
      <4>2. QED
        BY <2>1, <4>1 DEF AllLines
    <3>3. QED
      BY <3>1, <3>2
  <2>3. UNCHANGED <<written, error, main>>
    BY <1>4 DEF ReaderWakes, output, testVars
  <2>4. QED
    BY <2>1, <2>2, <2>3 DEF OrderInv, RestIsLast, AbortIsLast, Kept
<1>5. QED
  BY <1>1, <1>2, <1>3, <1>4 DEF ReaderStep

(* The test: communicate() takes what is in the stream. *)
LEMMA OrderTest == ASSUME TypeOK, IInv, OrderInv, TestStep PROVE OrderInv'
<1> USE DEF output, stream, readerVars, testVars
<1>1. CASE Launch
  <2>1. rest = <<>> /\ error # "run"
    BY <1>1 DEF Launch, OrderInv, RestIsLast, AbortIsLast, IInv, NoneAtLaunch
  <2>2. UNCHANGED <<written, AllLines, rest>> /\ error' # "run"
    BY <1>1, <2>1 DEF Launch, AllLines, Hand
  <2>3. QED
    BY <2>1, <2>2 DEF OrderInv, RestIsLast, AbortIsLast, Kept
<1>2. CASE SeesStart
  BY <1>2, OrderUnchanged DEF SeesStart, OrderInv, AbortIsLast
<1>3. CASE Settled
  BY <1>3, OrderUnchanged DEF Settled, OrderInv, AbortIsLast
<1>4. CASE StartTimeout
  BY <1>4, OrderUnchanged DEF StartTimeout, OrderInv, AbortIsLast
<1>5. ASSUME NEW o \in Outcomes, Run(o) PROVE OrderInv'
  <2>1. CASE RunFails /\ suite # "vanilla"
    BY <1>5, <2>1 DEF Run, RunFails, OrderInv, RestIsLast, AbortIsLast, Kept
  <2>2. CASE RunFails /\ suite = "vanilla"
    BY <1>5, <2>2, OrderUnchanged DEF Run, RunFails, OrderInv, AbortIsLast
  <2>3. CASE RunEnds(o)
    BY <1>5, <2>3, OrderUnchanged DEF Run, RunEnds
  <2>4. QED
    BY <1>5, <2>1, <2>2, <2>3 DEF Run
<1>6. CASE Stop
  BY <1>6, OrderUnchanged DEF Stop, OrderInv, AbortIsLast
<1>7. CASE Joined
  BY <1>7, OrderUnchanged
  DEF Joined, ReaderIsDone, KillServer, KillUnchecked, OrderInv, AbortIsLast
<1>8. CASE Collect
  <2>1. /\ rest' = rest \o buffer /\ buffer' = <<>>
        /\ UNCHANGED <<written, pipe, log, t2, line, reader, error, main>>
    BY <1>8 DEF Collect
  <2>2. reader = "ended"
    BY <1>8 DEF Collect, IInv, ReaderBefore
  <2> DEFINE a == log \o Hand
  <2>3. a \in Seq(Lines) /\ rest \in Seq(Lines) /\ buffer \in Seq(Lines)
    BY HandType, ConcatProperties DEF TypeOK
  <2>4. Hand' = Hand
    BY <2>1 DEF Hand
  <2>5. a' = a
    BY <2>1, <2>4
  <2>6. AllLines' = a \o (rest \o buffer) \o <<>> \o pipe
    BY <2>1, <2>5 DEF AllLines
  <2>7. AllLines = a \o rest \o buffer \o pipe
    BY DEF AllLines
  <2> HIDE DEF a
  <2>8. a \o (rest \o buffer) = a \o rest \o buffer
    BY <2>3, ConcatAssociative
  <2>9. a \o (rest \o buffer) \o <<>> = a \o (rest \o buffer)
    BY <2>3, ConcatProperties, ConcatEmptySeq
  <2>10. QED
    BY <2>1, <2>2, <2>6, <2>7, <2>8, <2>9 DEF OrderInv, RestIsLast, AbortIsLast, Kept
<1>9. CASE Collected
  BY <1>9, OrderUnchanged DEF Collected, OrderInv, AbortIsLast
<1>10. QED
  BY <1>1, <1>2, <1>3, <1>4, <1>5, <1>6, <1>7, <1>8, <1>9 DEF TestStep

LEMMA OrderStep == TypeOK /\ IInv /\ OrderInv /\ [Next]_vars => OrderInv'
<1>1. ASSUME OrderInv, UNCHANGED vars PROVE OrderInv'
  BY <1>1, OrderUnchanged DEF vars, output, stream, readerVars, testVars
<1>2. QED
  BY <1>1, OrderLoop, OrderReader, OrderTest DEF Next

(* Every line is read once and in order, although the reader cancels a     *)
(* readline task whenever the other task is done first.                    *)
THEOREM NoLineLost == Spec => []LinesInOrder
<1>1. Spec => []OrderInv
  BY HandInit, OrderStep, TypeCorrect, Inductive, PTL DEF Spec
<1>2. OrderInv => LinesInOrder
  BY DEF OrderInv, Kept, AllLines, Hand, Printed, LinesInOrder
<1>3. QED
  BY <1>1, <1>2, PTL

-----------------------------------------------------------------------------
(* What a test returns                                                     *)

(* The stream only ends when the server is dead and its pipe empty, and    *)
(* the test returns when both have been read to the end.                   *)
Drained ==
  /\ main = "launch" => server = "none"
  /\ eof => server = "dead" /\ pipe = <<>>
  /\ main = "returned" => AtEof /\ error = "none"

LEMMA DrainedStep == Drained /\ [Next]_vars => Drained'
<1> SUFFICES ASSUME Drained, [Next]_vars PROVE Drained'
  OBVIOUS
<1> USE DEF Drained, AtEof, process, output, stream, readerVars, events, testVars
<1>1. CASE ServerStep
  BY <1>1 DEF ServerStep, Prints, Dies
<1>2. CASE LoopStep
  BY <1>2 DEF LoopStep, Feed, FeedEof, ExitNoticed, ConnectionLost
<1>3. CASE ReaderStep
  BY <1>3 DEF ReaderStep, ReaderTurn, Notified, ReadLine, ReaderWakes
<1>4. CASE Launch
  BY <1>4 DEF Launch
<1>5. CASE SeesStart \/ Settled \/ StartTimeout \/ Stop
  BY <1>5 DEF SeesStart, Settled, StartTimeout, Stop
<1>6. ASSUME NEW o \in Outcomes, Run(o) PROVE Drained'
  BY <1>6 DEF Run, RunFails, RunEnds
<1>7. CASE Joined
  BY <1>7 DEF Joined, ReaderIsDone, KillServer, KillUnchecked
<1>8. CASE Collect \/ Collected
  BY <1>8 DEF Collect, Collected
<1>9. CASE UNCHANGED vars
  BY <1>9 DEF vars
<1> QED BY <1>1, <1>2, <1>3, <1>4, <1>5, <1>6, <1>7, <1>8, <1>9 DEF Next, TestStep

(* A test that returns has all the output of its server, in what the       *)
(* reader logged before it was told to stop and in what communicate() read *)
(* after that, whenever the server may have died.                          *)
AllReported == main = "returned" => log \o rest = Printed(written)

THEOREM ReportsAllOutput == Spec => []AllReported
<1>1. Init => Drained
  BY DEF Init, Drained
<1>2. Spec => []Drained
  BY <1>1, DrainedStep, PTL DEF Spec
<1>3. TypeOK /\ IInv /\ LinesInOrder /\ Drained => AllReported
  <2> SUFFICES ASSUME TypeOK, IInv, LinesInOrder, Drained, main = "returned"
               PROVE  log \o rest = Printed(written)
    BY DEF AllReported
  <2>1. buffer = <<>> /\ pipe = <<>> /\ error = "none"
    BY DEF Drained, AtEof
  <2>2. t2 = "none"
    BY DEF IInv, NoTasks, ReaderBefore
  <2>3. log \o <<>> \o rest \o <<>> \o <<>> = Printed(written)
    BY <2>1, <2>2 DEF LinesInOrder, Printed
  <2>4. /\ log \in Seq(Lines) /\ rest \in Seq(Lines) /\ log \o rest \in Seq(Lines)
    BY ConcatProperties DEF TypeOK
  <2>5. /\ log \o <<>> = log /\ (log \o rest) \o <<>> = log \o rest
    BY <2>4, ConcatEmptySeq
  <2> QED BY <2>3, <2>5
<1> QED BY <1>2, <1>3, TypeCorrect, Inductive, NoLineLost, PTL
=============================================================================
