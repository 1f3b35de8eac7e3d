------------------------------ MODULE CiRunners ------------------------------
(***************************************************************************)
(* The two scripts with which CI runs an example: run_example.py           *)
(* ("example", and "readline" for the bashreadline example, which returns  *)
(* as soon as the agent runs) and run_nginx_attach_example.py ("attach").  *)
(* Each starts a server (the controller in "attach"), waits for the line   *)
(* that says it is up, starts an agent (nginx), waits for its evidence,    *)
(* and cleans up in a finally block: it tells the readers to stop, sends   *)
(* SIGINT to both children, waits for the readers and collects.            *)
(*                                                                         *)
(* The interleaving is that of the event loop: an action is what runs      *)
(* between two awaits.  A line of output is the set of the marks it holds: *)
(* the start line of its program, the expected string, "[error]", or bytes *)
(* that are no UTF-8 ("garbled").  The two sleeps are steps not taken yet. *)
(***************************************************************************)
EXTENDS Integers, Sequences

CONSTANTS Scripts,  \* the scripts to follow: "example", "readline", "attach"
          MaxLines, \* bound: lines of a child
          BufCap    \* lines in the stream before the transport pauses

ASSUME ScriptsAssumption == Scripts \subseteq {"example", "readline", "attach"}
ASSUME BoundAssumption == MaxLines \in Nat /\ BufCap \in Nat

Children == {"server", "agent"}
Marks == {"start", "expected", "error", "garbled"}
Events == {"should_exit", "server_started", "agent_started", "expected_str"}

VARIABLES
  script,
  proc,      \* of a child: "none", "running", "dead"
  known,     \* asyncio knows that it is dead: returncode is set
  gone,      \* its transport is closed: send_signal raises
  printed,   \* how many lines it has printed
  out,       \* the lines not read yet
  eof,       \* the StreamReader has seen the end of the pipe
  reader,    \* its handle_stdout: "none", "reading", "ended", "failed"
  seen,      \* the lines handle_stdout has read
  events,    \* the asyncio.Events that are set
  main,      \* where main is
  answers,   \* the statuses of the requests to nginx
  signalled, \* the children that main has sent SIGINT
  outcome    \* how main leaves the try block: "none", "ok", "raised"

childVars == <<proc, known, gone>>
outputVars == <<printed, out, eof>>
readerVars == <<reader, seen>>
mainVars == <<main, answers, signalled, outcome>>
vars == <<script, childVars, outputVars, readerVars, events, mainVars>>

ForEach(v) == [c \in Children |-> v]

Init == /\ script \in Scripts
        /\ proc = ForEach("none")
        /\ known = ForEach(FALSE) /\ gone = ForEach(FALSE)
        /\ printed = ForEach(0) /\ out = ForEach(<<>>) /\ eof = ForEach(FALSE)
        /\ reader = ForEach("none") /\ seen = ForEach(<<>>)
        /\ events = {}
        /\ main = "launch_server" /\ answers = <<>>
        /\ signalled = {} /\ outcome = "none"

Over == main = "over"
ShouldExit == "should_exit" \in events
AtEof(c, lines) == eof[c] /\ lines = <<>>

-----------------------------------------------------------------------------
(* The children and the event loop *)

(* Of the marks, a controller prints no others than its start line.        *)
LinesOf(c) ==
  {{}, {"garbled"}}
    \cup (IF script = "attach" \/ c = "server" THEN {{"start"}} ELSE {})
    \cup (IF script # "attach" THEN {{"expected"}} ELSE {})
    \cup (IF script # "attach" /\ c = "agent"
            THEN {{"error"}, {"error", "expected"}} ELSE {})

(* A child that blocks on a full pipe is one that prints no more. *)
Prints(c, l) ==
  /\ proc[c] = "running" /\ ~Over /\ printed[c] < MaxLines
  /\ printed' = [printed EXCEPT ![c] = @ + 1]
  /\ out' = [out EXCEPT ![c] = Append(@, l)]
  /\ UNCHANGED <<script, childVars, eof, readerVars, events, mainVars>>

(* A child crashes, finishes, or obeys SIGINT.  The CLI of bpftime takes   *)
(* the program it runs with it.                                            *)
Dies(c) ==
  /\ proc[c] = "running"
  /\ proc' = [proc EXCEPT ![c] = "dead"]
  /\ UNCHANGED <<script, known, gone, outputVars, readerVars, events, mainVars>>

Obeys(c) == c \in signalled /\ Dies(c)

SeesEof(c) ==
  /\ ~Over /\ proc[c] = "dead" /\ Len(out[c]) <= BufCap /\ ~eof[c]
  /\ eof' = [eof EXCEPT ![c] = TRUE]
  /\ UNCHANGED <<script, childVars, printed, out, readerVars, events, mainVars>>

ExitNoticed(c) ==
  /\ ~Over /\ proc[c] = "dead" /\ ~known[c]
  /\ known' = [known EXCEPT ![c] = TRUE]
  /\ UNCHANGED <<script, proc, gone, outputVars, readerVars, events, mainVars>>

ConnectionLost(c) ==
  /\ ~Over /\ known[c] /\ eof[c] /\ ~gone[c]
  /\ gone' = [gone EXCEPT ![c] = TRUE]
  /\ UNCHANGED <<script, proc, known, outputVars, readerVars, events, mainVars>>

-----------------------------------------------------------------------------
(* handle_stdout *)

(* callback_all: the event that is set by a mark in a child's output.      *)
ExampleCallbacks(c) ==
  IF c = "server" THEN {<<"start", "server_started">>,
                        <<"expected", "expected_str">>}
                  ELSE {<<"expected", "expected_str">>}

AttachCallbacks(c) ==
  IF c = "server" THEN {<<"start", "server_started">>}
                  ELSE {<<"start", "agent_started">>}

Callbacks(c) == IF script = "attach" THEN AttachCallbacks(c)
                                     ELSE ExampleCallbacks(c)

NoErrorCheck(c) == FALSE

(* check_error: only the agent's reader of run_example.py. *)
ChecksError(c) == script # "attach" /\ c = "agent"

Triggered(c, line) ==
  IF "garbled" \in line THEN {}
  ELSE {cb[2] : cb \in {x \in Callbacks(c) : x[1] \in line}}

(* decode raises, or the assertion that follows the callbacks. *)
Fails(c, line) == "garbled" \in line \/ (ChecksError(c) /\ "error" \in line)

StillUnread(c) == out[c]
Unread(c) == Tail(out[c])

(* The readline task is done.  The loop goes on unless the notify task is  *)
(* done too, which it may not be yet though the event is set.              *)
ReadsLine(c) ==
  /\ ~Over /\ reader[c] = "reading" /\ out[c] # <<>>
  /\ LET line == Head(out[c]) IN
     /\ out' = [out EXCEPT ![c] = Unread(c)]
     /\ seen' = [seen EXCEPT ![c] = Append(@, line)]
     /\ events' = events \cup Triggered(c, line)
     /\ \/ /\ Fails(c, line)
           /\ reader' = [reader EXCEPT ![c] = "failed"]
        \/ /\ ~Fails(c, line)
           /\ ShouldExit \/ AtEof(c, Unread(c))
           /\ reader' = [reader EXCEPT ![c] = "ended"]
        \/ /\ ~Fails(c, line)
           /\ ~AtEof(c, Unread(c))
           /\ UNCHANGED reader
  /\ UNCHANGED <<script, childVars, printed, eof, mainVars>>

(* readline returns the empty string, in which nothing is found. *)
ReadsEmpty(c) ==
  /\ ~Over /\ reader[c] = "reading" /\ AtEof(c, out[c])
  /\ reader' = [reader EXCEPT ![c] = "ended"]
  /\ UNCHANGED <<script, childVars, outputVars, seen, events, mainVars>>

(* The notify task is done and readline is cancelled, before it has taken  *)
(* a line.                                                                 *)
Notified(c) ==
  /\ ~Over /\ reader[c] = "reading" /\ ShouldExit
  /\ reader' = [reader EXCEPT ![c] = "ended"]
  /\ UNCHANGED <<script, childVars, outputVars, seen, events, mainVars>>

-----------------------------------------------------------------------------
(* The finally block *)

AgentFirst == <<"agent", "server">>
SignalOrder == <<"server", "agent">>

(* send_signal is called in this order, up to a name that is not bound yet *)
(* or a transport that is closed: both raise.                              *)
Reached(bound) ==
  LET raises(c) == c \notin bound \/ gone[c]
      order == SignalOrder
  IN {order[k] : k \in {j \in 1 .. 2 : \A i \in 1 .. j : ~raises(order[i])}}

(* No await up to here: this belongs to the step that leaves the try       *)
(* block.  An exception of the clean-up is printed and forgotten.          *)
Finally(how, bound) ==
  /\ outcome' = how
  /\ events' = events \cup {"should_exit"}
  /\ signalled' = Reached(bound)
  /\ main' = IF signalled' = Children THEN "joining" ELSE "over"

Bound == {c \in Children : proc[c] # "none"}

LeavesTry(how) ==
  /\ Finally(how, Bound)
  /\ UNCHANGED <<script, childVars, outputVars, readerVars, answers>>

(* gather(server_out, agent_out) *)
Joined ==
  /\ main = "joining"
  /\ \A c \in Children : reader[c] = "ended"
  /\ main' = "collecting"
  /\ UNCHANGED <<script, childVars, outputVars, readerVars, events, answers,
                 signalled, outcome>>

(* The exception of a reader skips the rest of the clean-up. *)
JoinRaises ==
  /\ main = "joining"
  /\ \E c \in Children : reader[c] = "failed"
  /\ main' = "over"
  /\ UNCHANGED <<script, childVars, outputVars, readerVars, events, answers,
                 signalled, outcome>>

(* communicate() reads to the end, and waits for the exit. *)
Drains(c) ==
  /\ main = "collecting" /\ out[c] # <<>>
  /\ out' = [out EXCEPT ![c] = <<>>]
  /\ UNCHANGED <<script, childVars, printed, eof, readerVars, events, mainVars>>

CommunicatedServer(c) == c = "server" => AtEof(c, out[c]) /\ known[c]
Communicated(c) == AtEof(c, out[c]) /\ known[c]

Collected ==
  /\ main = "collecting" /\ \A c \in Children : Communicated(c)
  /\ main' = "over"
  /\ UNCHANGED <<script, childVars, outputVars, readerVars, events, answers,
                 signalled, outcome>>

-----------------------------------------------------------------------------
(* The try block *)

(* The child runs, and its reader is a task. *)
Starts(c) == /\ proc' = [proc EXCEPT ![c] = "running"]
             /\ reader' = [reader EXCEPT ![c] = "reading"]
             /\ UNCHANGED <<script, known, gone, outputVars, seen, answers>>

LaunchServer ==
  /\ main = "launch_server" /\ script # "attach"
  /\ \/ /\ Starts("server")
        /\ main' = "await_server"
        /\ UNCHANGED <<events, signalled, outcome>>
     \/ LeavesTry("raised")

(* A controller that cannot be started leaves should_exit unbound: the     *)
(* finally block raises in its first line.                                 *)
LaunchController ==
  /\ main = "launch_server" /\ script = "attach"
  /\ \/ /\ Starts("server")
        /\ main' = "await_server"
        /\ UNCHANGED <<events, signalled, outcome>>
     \/ /\ main' = "over" /\ outcome' = "raised"
        /\ UNCHANGED <<script, childVars, outputVars, readerVars, events,
                       answers, signalled>>

ServerStarted ==
  /\ main = "await_server" /\ "server_started" \in events
  /\ main' = "launch_agent"
  /\ UNCHANGED <<script, childVars, outputVars, readerVars, events, answers,
                 signalled, outcome>>

(* The example waits for the expected string, bashreadline for nothing. *)
LaunchAgent ==
  /\ main = "launch_agent" /\ script # "attach"
  /\ \/ /\ Starts("agent")
        /\ IF script = "readline"
             THEN Finally("ok", Children)
             ELSE /\ main' = "await_expected"
                  /\ UNCHANGED <<events, signalled, outcome>>
     \/ LeavesTry("raised")

LaunchNginx ==
  /\ main = "launch_agent" /\ script = "attach"
  /\ \/ /\ Starts("agent")
        /\ main' = "await_agent"
        /\ UNCHANGED <<events, signalled, outcome>>
     \/ LeavesTry("raised")

ExpectedSeen == /\ main = "await_expected" /\ "expected_str" \in events
                /\ LeavesTry("ok")

NginxStarted ==
  /\ main = "await_agent" /\ "agent_started" \in events
  /\ main' = "requesting"
  /\ UNCHANGED <<script, childVars, outputVars, readerVars, events, answers,
                 signalled, outcome>>

NeverTimesOut == main = "await_server" /\ FALSE

(* Thirty seconds of wait_for are over. *)
TimesOut == main \in {"await_server", "await_agent", "await_expected"}

Timeout == TimesOut /\ LeavesTry("raised")

(* /aaab must be rejected, /aaaaaab must be served.                        *)
WantedAnswers == <<403, 200>>

AnyAnswer(status) == TRUE
AsWanted(status) == status = WantedAnswers[Len(answers) + 1]

(* session.get in a thread of the executor, then the assertion. *)
Request(status) ==
  /\ main = "requesting"
  /\ answers' = Append(answers, status)
  /\ IF ~AsWanted(status) THEN Finally("raised", Children)
     ELSE IF Len(answers') = 2 THEN Finally("ok", Children)
     ELSE UNCHANGED <<events, main, signalled, outcome>>
  /\ UNCHANGED <<script, childVars, outputVars, readerVars>>

(* The connection is refused or lost. *)
RequestRaises == main = "requesting" /\ LeavesTry("raised")

-----------------------------------------------------------------------------
ChildStep(c) == Dies(c) \/ \E l \in LinesOf(c) : Prints(c, l)
LoopStep(c) == SeesEof(c) \/ ExitNoticed(c) \/ ConnectionLost(c)
ReaderStep(c) == ReadsLine(c) \/ ReadsEmpty(c) \/ Notified(c)
MainStep == \/ LaunchServer \/ LaunchController \/ ServerStarted
            \/ LaunchAgent \/ LaunchNginx \/ ExpectedSeen \/ NginxStarted
            \/ Timeout \/ \E s \in {200, 403} : Request(s)
            \/ RequestRaises \/ Joined \/ JoinRaises \/ Collected

Next == \/ \E c \in Children : \/ ChildStep(c) \/ LoopStep(c)
                               \/ ReaderStep(c) \/ Drains(c)
        \/ MainStep

Spec == Init /\ [][Next]_vars

(* The loop serves every callback and every task, timers fire, a request   *)
(* is answered or refused, and a child that gets SIGINT ends.  It owes     *)
(* nothing before.                                                         *)
Fairness == /\ WF_vars(MainStep)
            /\ \A c \in Children :
                 /\ WF_vars(Obeys(c)) /\ WF_vars(SeesEof(c))
                 /\ WF_vars(ExitNoticed(c)) /\ WF_vars(ConnectionLost(c))
                 /\ WF_vars(ReadsLine(c)) /\ WF_vars(ReadsEmpty(c))
                 /\ WF_vars(Notified(c)) /\ WF_vars(Drains(c))

FairSpec == Spec /\ Fairness

-----------------------------------------------------------------------------
(* Properties *)

Lines == SUBSET Marks

(* Type invariant; what is read or waits to be read has been printed. *)
TypeOK ==
  /\ script \in Scripts
  /\ proc \in [Children -> {"none", "running", "dead"}]
  /\ known \in [Children -> BOOLEAN] /\ gone \in [Children -> BOOLEAN]
  /\ printed \in [Children -> 0 .. MaxLines]
  /\ out \in [Children -> Seq(Lines)]
  /\ eof \in [Children -> BOOLEAN]
  /\ reader \in [Children -> {"none", "reading", "ended", "failed"}]
  /\ seen \in [Children -> Seq(Lines)]
  /\ \A c \in Children : Len(seen[c]) + Len(out[c]) <= printed[c]
  /\ events \in SUBSET Events
  /\ main \in {"launch_server", "await_server", "launch_agent",
               "await_expected", "await_agent", "requesting", "joining",
               "collecting", "over"}
  /\ answers \in Seq({200, 403}) /\ Len(answers) <= 2
  /\ signalled \in SUBSET Children
  /\ outcome \in {"none", "ok", "raised"}

Shown(c, mark) == \E i \in 1 .. Len(seen[c]) : mark \in seen[c][i]

(* A script that reports success has its evidence, whoever died, timed out *)
(* or was slow on the way: the server's start line, and after it the       *)
(* expected string, in the server's or the agent's output, or nginx's      *)
(* start line and both answers as they must be.                            *)
SuccessHasEvidence ==
  outcome = "ok" =>
    /\ Shown("server", "start")
    /\ script = "example" => \E c \in Children : Shown(c, "expected")
    /\ script = "attach" => Shown("agent", "start") /\ answers = WantedAnswers

(* Once the agent has printed an error nothing of its output counts any    *)
(* more: an expected string that it prints later is not read, and the      *)
(* example succeeds by what came before, or by the server's output.        *)
NothingAfterError ==
  script # "attach" =>
    \A i \in 1 .. Len(seen["agent"]) - 1 : "error" \notin seen["agent"][i]

(* No child outlives its script unnoticed: one that runs when the script   *)
(* is over has got SIGINT, except for an agent whose server had already    *)
(* gone, which makes the clean-up stop before it.                          *)
NoChildForgotten ==
  Over => \A c \in Children :
            proc[c] = "running" => \/ c \in signalled
                                   \/ c = "agent" /\ gone["server"]

(* A clean-up that meets no exception leaves nothing behind: both children *)
(* have ended, asyncio knows it, and no output is unread.                  *)
CleanEnd ==
  Over /\ signalled = Children /\ (\A c \in Children : reader[c] = "ended")
    => \A c \in Children : proc[c] = "dead" /\ known[c] /\ out[c] = <<>>

(* The script comes to an end, whatever its children do. *)
ScriptEnds == <>Over

(* The reader asserts that the agent prints no error ("Error occurred in   *)
(* agent!"): a script that has read one should not succeed.                *)
ErrorFailsScript ==
  Over /\ outcome = "ok" => ~(script # "attach" /\ Shown("agent", "error"))
=============================================================================
