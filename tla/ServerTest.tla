----------------------------- MODULE ServerTest -----------------------------
(***************************************************************************)
(* One test of the drivers that run a probe server beside the measured     *)
(* program, under asyncio: run_userspace_uprobe_test and                   *)
(* run_kernel_uprobe_test (uprobe/benchmark.py), run_mpk_test and          *)
(* run_standard_test (mpk/benchmark.py), run_vanilla_test                  *)
(* (deepflow/benchmark/run.py).  They have the same shape: a reader task,  *)
(* handle_stdout, follows the server's output and sets an event when it    *)
(* sees the line that says the server is up; the test waits for the event  *)
(* ten seconds at most, measures, tells the reader to stop, waits for it,  *)
(* kills the server and collects what is left.  suite says whose details   *)
(* are followed where they differ.                                         *)
(*                                                                         *)
(* The interleaving is that of the event loop: an action is what runs      *)
(* between two awaits.  A line of output is its number.                    *)
(***************************************************************************)
EXTENDS Integers, Sequences

CONSTANTS Suites,   \* the drivers to follow, of "uprobe", "mpk", "vanilla"
          NumRuns,  \* measured runs of a test
          MaxLines, \* bound: lines of the server
          PipeCap,  \* lines in the pipe before a write blocks
          BufCap    \* lines in the stream before the transport pauses

ASSUME SuitesAssumption == Suites \subseteq {"uprobe", "mpk", "vanilla"}
ASSUME BoundAssumption == /\ NumRuns \in Nat \ {0} /\ MaxLines \in Nat
                          /\ PipeCap \in Nat \ {0} /\ BufCap \in Nat \ {0}

VARIABLES
  suite,
  server,      \* "none", "running", "dead"
  known,       \* asyncio knows that it is dead: returncode is set
  gone,        \* its transport is closed: a signal raises an exception
  written,     \* lines it has printed
  startLine,   \* which of them says that it has started, 0: none
  pipe, buffer,\* lines in the pipe, and in the StreamReader
  eof,         \* the StreamReader has seen the end of the pipe
  reader,      \* the task handle_stdout
  t1, t2,      \* its notify.wait() and stdout.readline()
  line,        \* what t2 has read, 0: the empty string of the end
  log,         \* output_lines
  rest,        \* what communicate() has read
  started, shouldExit,  \* the events
  main,        \* where the test is
  runs, values,\* measured runs, and those that left values in the result
  error        \* the exception on its way: where it came from

process == <<server, known, gone>>
output == <<written, startLine, pipe>>
stream == <<buffer, eof>>
readerVars == <<reader, t1, t2, line, log>>
events == <<started, shouldExit>>
testVars == <<main, runs, values, error>>
vars == <<suite, process, output, stream, readerVars, rest, events, testVars>>

Init == /\ suite \in Suites
        /\ server = "none" /\ known = FALSE /\ gone = FALSE
        /\ written = 0 /\ startLine = 0 /\ pipe = <<>>
        /\ buffer = <<>> /\ eof = FALSE
        /\ reader = "none" /\ t1 = "none" /\ t2 = "none"
        /\ line = 0 /\ log = <<>> /\ rest = <<>>
        /\ started = FALSE /\ shouldExit = FALSE
        /\ main = "launch" /\ runs = 0 /\ values = 0 /\ error = "none"

-----------------------------------------------------------------------------
(* The server and its pipe *)

(* A line is printed and flushed; a full pipe blocks the server. *)
Prints(starts) ==
  /\ server = "running" /\ written < MaxLines /\ Len(pipe) < PipeCap
  /\ starts => startLine = 0
  /\ written' = written + 1
  /\ pipe' = Append(pipe, written')
  /\ startLine' = IF starts THEN written' ELSE startLine
  /\ UNCHANGED <<suite, process, stream, readerVars, rest, events, testVars>>

(* The server fails to load, or dies under the test. *)
Dies == /\ server = "running"
        /\ server' = "dead"
        /\ UNCHANGED <<suite, known, gone, output, stream, readerVars, rest,
                       events, testVars>>

(* The loop moves output into the stream, unless the stream is paused. *)
Feed == /\ pipe # <<>> /\ Len(buffer) < BufCap
        /\ pipe' = Tail(pipe)
        /\ buffer' = Append(buffer, Head(pipe))
        /\ UNCHANGED <<suite, process, written, startLine, eof, readerVars,
                       rest, events, testVars>>

FeedEof == /\ server = "dead" /\ pipe = <<>> /\ ~eof
           /\ eof' = TRUE
           /\ UNCHANGED <<suite, process, output, buffer, readerVars, rest,
                          events, testVars>>

(* The child watcher reports the exit; when the pipe has ended as well the *)
(* transport lets the process go.                                          *)
ExitNoticed == /\ server = "dead" /\ ~known
               /\ known' = TRUE
               /\ UNCHANGED <<suite, server, gone, output, stream, readerVars,
                              rest, events, testVars>>

ConnectionLost ==
  /\ known /\ eof /\ ~gone
  /\ gone' = TRUE
  /\ UNCHANGED <<suite, server, known, output, stream, readerVars, rest,
                 events, testVars>>

-----------------------------------------------------------------------------
(* handle_stdout *)

(* The head of the loop: two tasks, and a wait for the first of them. *)
ReaderTurn ==
  /\ reader = "turn"
  /\ reader' = "wait" /\ t1' = "pending" /\ t2' = "pending"
  /\ UNCHANGED <<suite, process, output, stream, line, log, rest, events,
                 testVars>>

Notified == /\ t1 = "pending" /\ shouldExit
            /\ t1' = "done"
            /\ UNCHANGED <<suite, process, output, stream, reader, t2, line,
                           log, rest, events, testVars>>

ReadLine ==
  /\ t2 = "pending"
  /\ \/ /\ buffer # <<>>
        /\ line' = Head(buffer) /\ buffer' = Tail(buffer)
     \/ /\ buffer = <<>> /\ eof
        /\ line' = 0 /\ UNCHANGED buffer
  /\ t2' = "done"
  /\ UNCHANGED <<suite, process, output, eof, reader, t1, log, rest, events,
                 testVars>>

AtEof == eof /\ buffer = <<>>

EmptyIsSkipped == "turn"

(* The empty string that readline returns at the end of the output: the    *)
(* uprobe driver leaves the loop, the MPK driver takes it for an empty     *)
(* line and skips the rest of the body, the deepflow driver has no such    *)
(* test and comes to at_eof.                                               *)
AfterEmpty == IF suite = "mpk" THEN "turn" ELSE "ended"

StopBeforeLine ==
  /\ reader = "wait"
  /\ t1 = "done" \/ t2 = "done"
  /\ \/ /\ t1 = "done"
        /\ reader' = "ended"
        /\ UNCHANGED <<log, started>>
     \/ /\ t1 # "done" /\ line = 0
        /\ reader' = AfterEmpty
        /\ UNCHANGED <<log, started>>
     \/ /\ t1 # "done" /\ line # 0
        /\ log' = Append(log, line)
        /\ started' = (started \/ line = startLine)
        /\ reader' = IF AtEof THEN "ended" ELSE "turn"
  /\ t1' = "none" /\ t2' = "none" /\ line' = 0
  /\ UNCHANGED <<suite, process, output, stream, rest, shouldExit, testVars>>

(* One of the tasks is done; the other one is cancelled. *)
ReaderWakes ==
  /\ reader = "wait"
  /\ t1 = "done" \/ t2 = "done"
  /\ \/ /\ t2 = "done" /\ line = 0
        /\ reader' = AfterEmpty
        /\ UNCHANGED <<log, started>>
     \/ /\ t2 = "done" /\ line # 0
        /\ log' = Append(log, line)
        /\ started' = (started \/ line = startLine)
        /\ reader' = IF t1 = "done" \/ AtEof THEN "ended" ELSE "turn"
     \/ /\ t2 # "done"
        /\ reader' = "ended"
        /\ UNCHANGED <<log, started>>
  /\ t1' = "none" /\ t2' = "none" /\ line' = 0
  /\ UNCHANGED <<suite, process, output, stream, rest, shouldExit, testVars>>

-----------------------------------------------------------------------------
(* The test *)

Launch ==
  /\ main = "launch"
  /\ \/ /\ server' = "running" /\ reader' = "turn" /\ main' = "starting"
        /\ UNCHANGED error
     \/ /\ main' = "raised" /\ error' = "launch"
        /\ UNCHANGED <<server, reader>>
  /\ UNCHANGED <<suite, known, gone, output, stream, t1, t2, line, log, rest,
                 events, runs, values>>

SeesStart == /\ main = "starting" /\ started
             /\ main' = "settling"
             /\ UNCHANGED <<suite, process, output, stream, readerVars, rest,
                            events, runs, values, error>>

Settled == /\ main = "settling"
           /\ main' = "measuring"
           /\ UNCHANGED <<suite, process, output, stream, readerVars, rest,
                          events, runs, values, error>>

(* Ten seconds have passed; the line may have come at the same moment.     *)
(* The deepflow test gives up, the others measure all the same.            *)
StartTimeout ==
  /\ main = "starting"
  /\ IF suite = "vanilla"
       THEN /\ main' = "joining" /\ error' = "start" /\ shouldExit' = TRUE
            /\ UNCHANGED started
       ELSE /\ main' = "measuring" /\ started' = TRUE
            /\ UNCHANGED <<shouldExit, error>>
  /\ UNCHANGED <<suite, process, output, stream, readerVars, rest, runs,
                 values>>

RunsOf == IF suite = "vanilla" THEN 1 ELSE NumRuns

(* What a run does to the test: its program may be measured, end without   *)
(* a measurement, or fail: it cannot be launched, or leaves text that      *)
(* cannot be decoded or parsed.  The uprobe driver makes the lists of its  *)
(* result in the first run, and fails in a later one that has a name the   *)
(* first one has not.                                                      *)
RunRaises(outcome) ==
  \/ outcome = "garbled"
  \/ outcome = "measured" /\ suite = "uprobe" /\ runs > 0 /\ values = 0

(* The deepflow driver runs wrk inside the try whose finally tells the     *)
(* reader to stop; the others have none: the exception leaves the program  *)
(* and asyncio.run cancels the reader.                                     *)
RunFails ==
  /\ IF suite = "vanilla"
       THEN /\ main' = "joining" /\ error' = "wrk" /\ shouldExit' = TRUE
            /\ UNCHANGED <<reader, t1, t2, line>>
       ELSE /\ main' = "raised" /\ error' = "run"
            /\ reader' = "ended" /\ t1' = "none" /\ t2' = "none"
            /\ line' = 0
            /\ UNCHANGED shouldExit
  /\ UNCHANGED <<runs, values>>

RunEnds(outcome) ==
  /\ runs' = runs + 1
  /\ values' = IF outcome = "measured" THEN values + 1 ELSE values
  /\ UNCHANGED <<reader, t1, t2, line, main, error, shouldExit>>

RunOnceMore(outcome) ==
  /\ main = "measuring" /\ runs <= RunsOf
  /\ IF RunRaises(outcome) THEN RunFails ELSE RunEnds(outcome)
  /\ UNCHANGED <<suite, process, output, stream, log, rest, started>>

Run(outcome) ==
  /\ main = "measuring" /\ runs < RunsOf
  /\ IF RunRaises(outcome) THEN RunFails ELSE RunEnds(outcome)
  /\ UNCHANGED <<suite, process, output, stream, log, rest, started>>

Stop == /\ main = "measuring" /\ runs = RunsOf
        /\ shouldExit' = TRUE /\ main' = "joining"
        /\ UNCHANGED <<suite, process, output, stream, readerVars, rest,
                       started, runs, values, error>>

(* server.kill(), which raises when the transport is gone. *)
KillUnchecked ==
  IF gone THEN /\ main' = "raised" /\ error' = "kill"
               /\ UNCHANGED server
          ELSE /\ main' = "collecting" /\ server' = "dead"
               /\ UNCHANGED error

(* The uprobe driver looks at the return code first. *)
KillServer ==
  IF suite = "uprobe" /\ known
    THEN main' = "collecting" /\ UNCHANGED <<server, error>>
    ELSE KillUnchecked

NoWaitForReader == main = "joining" /\ reader # "none"

(* await server_stdout_task *)
ReaderIsDone == main = "joining" /\ reader = "ended"

Joined == /\ ReaderIsDone
          /\ KillServer
          /\ UNCHANGED <<suite, known, gone, output, stream, readerVars, rest,
                         events, runs, values>>

(* communicate(): the stream is read to its end, then the exit awaited. *)
Collect == /\ main = "collecting" /\ buffer # <<>>
           /\ rest' = rest \o buffer /\ buffer' = <<>>
           /\ UNCHANGED <<suite, process, output, eof, readerVars, events,
                          testVars>>

Collected == /\ main = "collecting" /\ AtEof /\ known
             /\ main' = IF error = "none" THEN "returned" ELSE "raised"
             /\ UNCHANGED <<suite, process, output, stream, readerVars, rest,
                            events, runs, values, error>>

ServerStep == Dies \/ \E starts \in BOOLEAN : Prints(starts)
LoopStep == Feed \/ FeedEof \/ ExitNoticed \/ ConnectionLost
ReaderStep == ReaderTurn \/ Notified \/ ReadLine \/ ReaderWakes
Outcomes == {"measured", "nothing", "garbled"}
TestStep == \/ Launch \/ SeesStart \/ Settled \/ StartTimeout
            \/ \E o \in Outcomes : Run(o)
            \/ Stop \/ Joined \/ Collect \/ Collected

Next == ServerStep \/ LoopStep \/ ReaderStep \/ TestStep

Spec == Init /\ [][Next]_vars

(* The loop serves every ready callback, each task gets its turn, timers   *)
(* fire and the measured program ends.  The server owes nothing.           *)
Fairness == /\ WF_vars(Feed) /\ WF_vars(FeedEof)
            /\ WF_vars(ExitNoticed) /\ WF_vars(ConnectionLost)
            /\ WF_vars(ReaderTurn) /\ WF_vars(Notified)
            /\ WF_vars(ReadLine) /\ WF_vars(ReaderWakes)
            /\ WF_vars(TestStep)

FairSpec == Spec /\ Fairness

-----------------------------------------------------------------------------
(* Properties *)

Lines == 1 .. MaxLines

(* Type invariant. *)
TypeOK ==
  /\ suite \in Suites
  /\ server \in {"none", "running", "dead"}
  /\ known \in BOOLEAN /\ gone \in BOOLEAN /\ eof \in BOOLEAN
  /\ written \in 0 .. MaxLines /\ startLine \in 0 .. MaxLines
  /\ pipe \in Seq(Lines) /\ Len(pipe) <= PipeCap
  /\ buffer \in Seq(Lines) /\ Len(buffer) <= BufCap
  /\ reader \in {"none", "turn", "wait", "ended"}
  /\ t1 \in {"none", "pending", "done"} /\ t2 \in {"none", "pending", "done"}
  /\ line \in 0 .. MaxLines /\ log \in Seq(Lines) /\ rest \in Seq(Lines)
  /\ started \in BOOLEAN /\ shouldExit \in BOOLEAN
  /\ main \in {"launch", "starting", "settling", "measuring", "joining",
               "collecting", "returned", "raised"}
  /\ runs \in 0 .. NumRuns /\ values \in 0 .. runs
  /\ error \in {"none", "launch", "start", "run", "wrk", "kill"}

(* Every line is read once and in order, whatever the cancelled readline   *)
(* tasks had under way: logged, in the reader's hand, left for             *)
(* communicate, or not read yet.  An aborted test drops what its reader    *)
(* held.                                                                   *)
LinesInOrder ==
  error # "run" =>
    log \o (IF t2 = "done" /\ line # 0 THEN <<line>> ELSE <<>>)
        \o rest \o buffer \o pipe = [i \in 1 .. written |-> i]

(* communicate() reads the stream alone: a readline still waiting on it    *)
(* would raise an exception in one of the two.                             *)
OneReader ==
  main \in {"collecting", "returned"} => reader = "ended" /\ t2 = "none"

(* The uprobe driver never loses the values it has measured to its own     *)
(* clean-up, though the server may die at any moment of it.                *)
CleanUpKeepsResult == suite = "uprobe" => error # "kill"

(* The test comes to an end, whatever its server does. *)
TestEnds == <>(main \in {"returned", "raised"})
=============================================================================
