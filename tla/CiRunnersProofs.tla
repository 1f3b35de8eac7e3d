--------------------------- MODULE CiRunnersProofs ---------------------------
(***************************************************************************)
(* The scripts of CI, for every number of lines and every size of buffer:  *)
(* what success rests on, that an error ends the agent's evidence, and     *)
(* what the clean-up leaves behind.                                        *)
(***************************************************************************)
EXTENDS CiRunners, TLAPS

-----------------------------------------------------------------------------
(* Helpers *)

(* The clean-up signals the server unless its transport is closed, and the *)
(* agent only if both transports are open.                                 *)
LEMMA ReachedSet ==
  ASSUME NEW bound \in SUBSET Children
  PROVE  /\ Reached(bound) \in SUBSET Children
         /\ "server" \in Reached(bound) <=> "server" \in bound /\ ~gone["server"]
         /\ "agent" \in Reached(bound) <=> /\ "agent" \in bound /\ ~gone["agent"]
                                           /\ "server" \in bound /\ ~gone["server"]
<1> DEFINE raises(c) == c \notin bound \/ gone[c]
           K == {j \in 1 .. 2 : \A i \in 1 .. j : ~raises(SignalOrder[i])}
<1>1. SignalOrder[1] = "server" /\ SignalOrder[2] = "agent"
  BY DEF SignalOrder
<1>2. 1 \in K <=> ~raises("server")
  BY <1>1
<1>3. 2 \in K <=> ~raises("server") /\ ~raises("agent")
  BY <1>1
<1>4. K \subseteq {1, 2}
  OBVIOUS
<1>5. Reached(bound) = {SignalOrder[k] : k \in K}
  BY DEF Reached
<1> HIDE DEF K
<1>6. QED
  BY <1>1, <1>2, <1>3, <1>4, <1>5 DEF Children

LEMMA LineTypes == ASSUME NEW c \in Children PROVE LinesOf(c) \subseteq Lines
BY DEF LinesOf, Lines, Marks

LEMMA TriggeredTypes ==
  ASSUME NEW c \in Children, NEW line PROVE Triggered(c, line) \subseteq Events
BY DEF Triggered, Callbacks, ExampleCallbacks, AttachCallbacks, Events

-----------------------------------------------------------------------------
(* Types *)

LEMMA TypeInit == Init => TypeOK
<1> SUFFICES ASSUME Init PROVE TypeOK
  OBVIOUS
<1>1. \A c \in Children : Len(seen[c]) + Len(out[c]) <= printed[c]
  BY DEF Init, ForEach
<1>2. printed \in [Children -> 0 .. MaxLines]
  BY BoundAssumption DEF Init, ForEach
<1>3. QED
  BY <1>1, <1>2 DEF Init, ForEach, TypeOK, Events

LEMMA TypeChild ==
  ASSUME TypeOK, NEW c \in Children, ChildStep(c) \/ LoopStep(c) PROVE TypeOK'
<1> USE DEF TypeOK, childVars, outputVars, readerVars, mainVars
<1>1. CASE Dies(c)
  BY <1>1 DEF Dies
<1>2. ASSUME NEW l \in LinesOf(c), Prints(c, l) PROVE TypeOK'
  <2>1. l \in Lines
    BY LineTypes
  <2>2. printed' \in [Children -> 0 .. MaxLines]
    BY <1>2, BoundAssumption DEF Prints
  <2>3. out' \in [Children -> Seq(Lines)]
    BY <1>2, <2>1 DEF Prints
  <2>4. \A d \in Children : Len(seen'[d]) + Len(out'[d]) <= printed'[d]
    <3> SUFFICES ASSUME NEW d \in Children
                 PROVE  Len(seen'[d]) + Len(out'[d]) <= printed'[d]
      OBVIOUS
    <3>1. out[d] \in Seq(Lines) /\ seen[d] \in Seq(Lines) /\ printed[d] \in Nat
      BY BoundAssumption
    <3>2. CASE d = c
      <4>1. Len(out'[d]) = Len(out[d]) + 1 /\ printed'[d] = printed[d] + 1
        BY <1>2, <2>1, <3>1, <3>2 DEF Prints
      <4>2. seen'[d] = seen[d]
        BY <1>2 DEF Prints
      <4>3. QED
        BY <3>1, <4>1, <4>2
    <3>3. CASE d # c
      BY <1>2, <3>3 DEF Prints
    <3>4. QED
      BY <3>2, <3>3
  <2>5. QED
    BY <1>2, <2>2, <2>3, <2>4 DEF Prints
<1>3. CASE SeesEof(c)
  BY <1>3 DEF SeesEof
<1>4. CASE ExitNoticed(c)
  BY <1>4 DEF ExitNoticed
<1>5. CASE ConnectionLost(c)
  BY <1>5 DEF ConnectionLost
<1>6. QED
  BY <1>1, <1>2, <1>3, <1>4, <1>5 DEF ChildStep, LoopStep

LEMMA TypeReader ==
  ASSUME TypeOK, NEW c \in Children, ReaderStep(c) \/ Drains(c) PROVE TypeOK'
<1> USE DEF TypeOK, childVars, outputVars, readerVars, mainVars
<1>1. CASE ReadsLine(c)
  <2> DEFINE line == Head(out[c])
  <2>1. out[c] \in Seq(Lines) /\ seen[c] \in Seq(Lines) /\ out[c] # <<>>
    BY <1>1 DEF ReadsLine
  <2>2. /\ line \in Lines /\ Tail(out[c]) \in Seq(Lines)
        /\ Len(Tail(out[c])) = Len(out[c]) - 1 /\ Len(out[c]) \in Nat
    BY <2>1
  <2>3. out' = [out EXCEPT ![c] = Tail(out[c])]
    BY <1>1 DEF ReadsLine, Unread
  <2>4. seen' = [seen EXCEPT ![c] = Append(seen[c], line)]
    BY <1>1 DEF ReadsLine
  <2>5. out' \in [Children -> Seq(Lines)] /\ seen' \in [Children -> Seq(Lines)]
    BY <2>1, <2>2, <2>3, <2>4
  <2>6. \A d \in Children : Len(seen'[d]) + Len(out'[d]) <= printed'[d]
    <3> SUFFICES ASSUME NEW d \in Children
                 PROVE  Len(seen'[d]) + Len(out'[d]) <= printed'[d]
      OBVIOUS
    <3>1. printed' = printed /\ printed[d] \in Nat
      BY <1>1, BoundAssumption DEF ReadsLine
    <3>2. CASE d = c
      <4>1. Len(seen'[d]) = Len(seen[d]) + 1
        BY <2>1, <2>2, <2>4, <3>2
      <4>2. Len(out'[d]) = Len(out[d]) - 1
        BY <2>2, <2>3, <3>2
      <4>3. Len(seen[d]) + Len(out[d]) <= printed[d]
        OBVIOUS
      <4>4. Len(seen[d]) \in Nat /\ Len(out[d]) \in Nat
        BY <2>1, <3>2
      <4>5. QED
        BY <3>1, <4>1, <4>2, <4>3, <4>4
    <3>3. CASE d # c
      BY <2>3, <2>4, <3>1, <3>3
    <3>4. QED
      BY <3>2, <3>3
  <2>7. events' \in SUBSET Events
    BY <1>1, TriggeredTypes DEF ReadsLine
  <2>8. reader' \in [Children -> {"none", "reading", "ended", "failed"}]
    BY <1>1 DEF ReadsLine
  <2>9. QED
    BY <1>1, <2>5, <2>6, <2>7, <2>8 DEF ReadsLine
<1>2. CASE ReadsEmpty(c)
  BY <1>2 DEF ReadsEmpty
<1>3. CASE Notified(c)
  BY <1>3 DEF Notified
<1>4. CASE Drains(c)
  <2>1. out' \in [Children -> Seq(Lines)]
    BY <1>4 DEF Drains
  <2>2. \A d \in Children : Len(seen'[d]) + Len(out'[d]) <= printed'[d]
    <3> SUFFICES ASSUME NEW d \in Children
                 PROVE  Len(seen'[d]) + Len(out'[d]) <= printed'[d]
      OBVIOUS
    <3>1. out[d] \in Seq(Lines) /\ seen[d] \in Seq(Lines) /\ printed[d] \in Nat
      BY BoundAssumption
    <3>2. Len(out'[d]) = 0 \/ out'[d] = out[d]
      BY <1>4 DEF Drains
    <3>3. seen' = seen /\ printed' = printed
      BY <1>4 DEF Drains
    <3>4. Len(out[d]) \in Nat /\ Len(seen[d]) \in Nat
      BY <3>1
    <3>5. QED
      BY <3>1, <3>2, <3>3, <3>4
  <2>3. QED
    BY <1>4, <2>1, <2>2 DEF Drains
<1>5. QED
  BY <1>1, <1>2, <1>3, <1>4 DEF ReaderStep

LEMMA FinallyTypes ==
  ASSUME TypeOK, NEW how \in {"ok", "raised"}, NEW bound \in SUBSET Children,
         Finally(how, bound)
  PROVE  /\ outcome' = how /\ events' \in SUBSET Events
         /\ signalled' \in SUBSET Children /\ main' \in {"joining", "over"}
BY ReachedSet DEF Finally, TypeOK, Events

LEMMA BoundTypes == Bound \in SUBSET Children
BY DEF Bound

(* How far main has come: what it has started, asked and decided. *)
Before == {"launch_server", "await_server", "launch_agent"}
Trying == Before \cup {"await_expected", "await_agent", "requesting"}
Progress ==
  /\ main \in Trying => (main = "launch_server" <=> proc["server"] = "none")
  /\ main \in Trying => (main \in Before <=> proc["agent"] = "none")
  /\ main \in Trying => outcome = "none" /\ signalled = {}
  /\ main \in {"joining", "collecting"} => signalled = Children
  /\ main = "requesting" => answers \in {<<>>, << 403 >>}
  /\ main \in Trying \ {"requesting"} => answers = <<>>
  /\ \A c \in Children :
       /\ gone[c] => known[c]
       /\ known[c] => proc[c] = "dead"
       /\ proc[c] = "none" => reader[c] = "none" /\ seen[c] = <<>>

LEMMA OneMoreAnswer ==
  ASSUME NEW q \in Seq({200, 403}), q \in {<<>>, << 403 >>}, NEW s \in {200, 403}
  PROVE  Append(q, s) \in Seq({200, 403}) /\ Len(Append(q, s)) <= 2
<1>1. CASE q = <<>>
  BY <1>1
<1>2. CASE q = << 403 >>
  <2>1. Append(q, s) \in Seq({200, 403}) /\ Len(Append(q, s)) = Len(q) + 1
    OBVIOUS
  <2>2. Len(q) = 1
    BY <1>2
  <2>3. Len(Append(q, s)) = 2
    BY <2>1, <2>2
  <2>4. QED
    BY <2>1, <2>3
<1>3. QED
  BY <1>1, <1>2

LEMMA TypeMain == ASSUME TypeOK, Progress, MainStep PROVE TypeOK'
<1> USE DEF TypeOK, childVars, outputVars, readerVars, mainVars
<1>1. ASSUME NEW how \in {"ok", "raised"}, LeavesTry(how) PROVE TypeOK'
  BY <1>1, FinallyTypes, BoundTypes DEF LeavesTry
<1>2. ASSUME NEW c \in Children, Starts(c)
      PROVE  /\ proc' \in [Children -> {"none", "running", "dead"}]
             /\ reader' \in [Children -> {"none", "reading", "ended", "failed"}]
  BY <1>2 DEF Starts
<1>3. "server" \in Children /\ "agent" \in Children
  BY DEF Children
<1>4. ASSUME NEW c \in Children, Starts(c), UNCHANGED <<events, signalled, outcome>>,
             main' \in {"await_server", "await_agent", "await_expected"}
      PROVE  TypeOK'
  BY <1>2, <1>4 DEF Starts
<1>5. CASE LaunchServer
  BY <1>1, <1>3, <1>4, <1>5 DEF LaunchServer
<1>6. CASE LaunchController
  <2>1. CASE Starts("server") /\ main' = "await_server"
             /\ UNCHANGED <<events, signalled, outcome>>
    BY <1>3, <1>4, <2>1
  <2>2. CASE main' = "over"
    BY <1>6, <2>2 DEF LaunchController, Starts
  <2>3. QED
    BY <1>6, <2>1, <2>2 DEF LaunchController
<1>7. CASE LaunchAgent
  <2>1. CASE Starts("agent") /\ Finally("ok", Children)
    <3>1. /\ outcome' = "ok" /\ events' \in SUBSET Events
          /\ signalled' \in SUBSET Children /\ main' \in {"joining", "over"}
      BY <2>1, FinallyTypes
    <3>2. QED
      BY <1>2, <1>3, <2>1, <3>1 DEF Starts
  <2>2. QED
    BY <1>1, <1>3, <1>4, <1>7, <2>1 DEF LaunchAgent
<1>8. CASE LaunchNginx
  BY <1>1, <1>3, <1>4, <1>8 DEF LaunchNginx
<1>9. ASSUME NEW s \in {200, 403}, Request(s) PROVE TypeOK'
  <2>1. answers \in {<<>>, << 403 >>} /\ answers' = Append(answers, s)
    BY <1>9 DEF Request, Progress
  <2>2. answers' \in Seq({200, 403}) /\ Len(answers') <= 2
    <3>1. answers \in Seq({200, 403})
      OBVIOUS
    <3>2. QED
      BY <2>1, <3>1, OneMoreAnswer
  <2>3. /\ outcome' \in {"none", "ok", "raised"} /\ events' \in SUBSET Events
        /\ signalled' \in SUBSET Children
        /\ main' \in {"requesting", "joining", "over"}
    BY <1>9, FinallyTypes DEF Request
  <2>4. QED
    BY <1>9, <2>2, <2>3 DEF Request
<1>10. CASE ServerStarted \/ NginxStarted \/ Joined \/ JoinRaises \/ Collected
  BY <1>10 DEF ServerStarted, NginxStarted, Joined, JoinRaises, Collected
<1>11. CASE ExpectedSeen \/ Timeout \/ RequestRaises
  BY <1>1, <1>11 DEF ExpectedSeen, Timeout, RequestRaises
<1> HIDE DEF TypeOK
<1>12. QED
  BY <1>5, <1>6, <1>7, <1>8, <1>9, <1>10, <1>11 DEF MainStep

-----------------------------------------------------------------------------
(* How far main has come *)

LEMMA ProgressInit == Init => Progress
BY DEF Init, ForEach, Progress, Before, Trying, Children

LEMMA ProgressChild ==
  ASSUME TypeOK, Progress, NEW c \in Children, ChildStep(c) \/ LoopStep(c)
  PROVE  Progress'
<1> USE DEF TypeOK, Progress, Before, Trying, childVars, outputVars, readerVars, mainVars
<1> "server" \in Children /\ "agent" \in Children
  BY DEF Children
<1>1. CASE Dies(c)
  BY <1>1 DEF Dies
<1>2. ASSUME NEW l \in LinesOf(c), Prints(c, l) PROVE Progress'
  BY <1>2 DEF Prints
<1>3. CASE SeesEof(c)
  BY <1>3 DEF SeesEof
<1>4. CASE ExitNoticed(c)
  BY <1>4 DEF ExitNoticed
<1>5. CASE ConnectionLost(c)
  BY <1>5 DEF ConnectionLost
<1>6. QED
  BY <1>1, <1>2, <1>3, <1>4, <1>5 DEF ChildStep, LoopStep

LEMMA ProgressReader ==
  ASSUME TypeOK, Progress, NEW c \in Children, ReaderStep(c) \/ Drains(c)
  PROVE  Progress'
<1> USE DEF TypeOK, Progress, Before, Trying, childVars, outputVars, readerVars, mainVars
<1>1. CASE ReadsLine(c)
  <2>1. proc[c] # "none"
    BY <1>1 DEF ReadsLine
  <2>2. \A d \in Children \ {c} : reader'[d] = reader[d] /\ seen'[d] = seen[d]
    BY <1>1 DEF ReadsLine
  <2>3. QED
    BY <1>1, <2>1, <2>2 DEF ReadsLine
<1>2. CASE ReadsEmpty(c) \/ Notified(c)
  <2>1. proc[c] # "none"
    BY <1>2 DEF ReadsEmpty, Notified
  <2>2. QED
    BY <1>2, <2>1 DEF ReadsEmpty, Notified
<1>3. CASE Drains(c)
  BY <1>3 DEF Drains
<1>4. QED
  BY <1>1, <1>2, <1>3 DEF ReaderStep

LEMMA ProgressMain == ASSUME TypeOK, Progress, MainStep PROVE Progress'
<1> USE DEF Before, Trying, childVars, outputVars, readerVars, mainVars
<1> "server" \in Children /\ "agent" \in Children
  BY DEF Children
<1> DEFINE Late == /\ main' \in {"joining", "over"}
                   /\ main' = "joining" => signalled' = Children
           Lives == \A c \in Children :
                      /\ gone[c] => known[c]
                      /\ known[c] => proc[c] = "dead"
                      /\ proc[c] = "none" => reader[c] = "none" /\ seen[c] = <<>>
<1>1. ASSUME NEW how, NEW bound, Finally(how, bound) PROVE Late
  BY <1>1 DEF Finally
<1>2. ASSUME NEW c \in Children, Starts(c), proc[c] = "none" PROVE Lives'
  <2>1. ~known[c] /\ ~gone[c]
    BY <1>2 DEF Progress
  <2>2. QED
    BY <1>2, <2>1 DEF Starts, Progress, TypeOK
<1>3. ASSUME Late, Lives' PROVE Progress'
  BY <1>3 DEF Progress
<1>4. ASSUME NEW how, LeavesTry(how) PROVE Progress'
  BY <1>1, <1>3, <1>4 DEF LeavesTry, Finally, Progress
<1>5. CASE LaunchServer \/ LaunchController
  <2>1. CASE Starts("server") /\ main' = "await_server"
             /\ UNCHANGED <<signalled, outcome>>
    <3>1. /\ proc'["agent"] = proc["agent"] /\ answers' = answers
          /\ proc'["server"] = "running"
      BY <2>1 DEF Starts, TypeOK
    <3>2. Lives'
      BY <1>2, <1>5, <2>1 DEF LaunchServer, LaunchController, Progress
    <3>3. QED
      BY <1>5, <2>1, <3>1, <3>2 DEF LaunchServer, LaunchController, Progress
  <2>2. CASE main' = "over" /\ UNCHANGED <<childVars, readerVars>>
    BY <2>2 DEF Progress
  <2>3. QED
    BY <1>4, <1>5, <2>1, <2>2 DEF LaunchServer, LaunchController
<1>6. CASE LaunchAgent \/ LaunchNginx
  <2>1. CASE Starts("agent")
    <3>1. Lives'
      BY <1>2, <1>6, <2>1 DEF LaunchAgent, LaunchNginx, Progress
    <3>2. CASE Finally("ok", Children)
      BY <1>1, <1>3, <3>1, <3>2
    <3>3. CASE main' \in {"await_expected", "await_agent"}
               /\ UNCHANGED <<signalled, outcome>>
      <4>1. /\ proc'["server"] = proc["server"] /\ answers' = answers
            /\ proc'["agent"] = "running"
        BY <2>1 DEF Starts, TypeOK
      <4>2. main = "launch_agent"
        BY <1>6 DEF LaunchAgent, LaunchNginx
      <4>3. QED
        BY <4>1, <4>2, <3>1, <3>3 DEF Progress
    <3>4. QED
      BY <1>4, <1>6, <3>2, <3>3 DEF LaunchAgent, LaunchNginx
  <2>2. QED
    BY <1>4, <1>6, <2>1 DEF LaunchAgent, LaunchNginx
<1>7. ASSUME NEW s \in {200, 403}, Request(s) PROVE Progress'
  <2>1. Lives'
    BY <1>7 DEF Request, Progress
  <2>2. CASE \E how : Finally(how, Children)
    BY <1>1, <1>3, <2>1, <2>2
  <2>3. CASE AsWanted(s) /\ Len(answers') # 2
             /\ UNCHANGED <<events, main, signalled, outcome>>
    <3>1. answers \in {<<>>, << 403 >>} /\ answers' = Append(answers, s)
      BY <1>7 DEF Request, Progress
    <3>2. answers = <<>> /\ s = 403
      BY <2>3, <3>1 DEF AsWanted, WantedAnswers
    <3>3. QED
      BY <1>7, <2>1, <2>3, <3>1, <3>2 DEF Request, Progress
  <2>4. QED
    BY <1>7, <2>2, <2>3 DEF Request
<1>8. CASE ServerStarted \/ NginxStarted \/ Joined \/ JoinRaises \/ Collected
  BY <1>8 DEF ServerStarted, NginxStarted, Joined, JoinRaises, Collected, Progress
<1>9. CASE ExpectedSeen \/ Timeout \/ RequestRaises
  BY <1>4, <1>9 DEF ExpectedSeen, Timeout, RequestRaises
<1>10. QED
  BY <1>5, <1>6, <1>7, <1>8, <1>9 DEF MainStep

(* Type correctness, and that main has done what its place says. *)
THEOREM BaseInvariant == Spec => [](TypeOK /\ Progress)
<1>1. Init => TypeOK /\ Progress
  BY TypeInit, ProgressInit
<1>2. TypeOK /\ Progress /\ [Next]_vars => (TypeOK /\ Progress)'
  <2> SUFFICES ASSUME TypeOK, Progress, [Next]_vars PROVE TypeOK' /\ Progress'
    OBVIOUS
  <2>1. CASE UNCHANGED vars
    BY <2>1 DEF vars, childVars, outputVars, readerVars, mainVars, TypeOK, Progress
  <2>2. CASE MainStep
    BY <2>2, TypeMain, ProgressMain
  <2>3. ASSUME NEW c \in Children,
               ChildStep(c) \/ LoopStep(c) \/ ReaderStep(c) \/ Drains(c)
        PROVE  TypeOK' /\ Progress'
    BY <2>3, TypeChild, TypeReader, ProgressChild, ProgressReader
  <2>4. QED
    BY <2>1, <2>2, <2>3 DEF Next
<1>3. QED
  BY <1>1, <1>2, PTL DEF Spec

(* Every variable keeps its type, and what is read has been printed. *)
THEOREM TypeCorrect == Spec => []TypeOK
BY BaseInvariant, PTL

-----------------------------------------------------------------------------
(* Errors *)

(* A reader that has met an error line does not read on. *)
ErrorStopsReader ==
  script # "attach" =>
    \A i \in 1 .. Len(seen["agent"]) :
      "error" \in seen["agent"][i] =>
        i = Len(seen["agent"]) /\ reader["agent"] = "failed"

LEMMA ErrorStep ==
  ASSUME TypeOK, Progress, ErrorStopsReader, [Next]_vars
  PROVE  ErrorStopsReader'
<1> "agent" \in Children
  BY DEF Children
<1>1. CASE UNCHANGED <<script, seen>> /\ (reader["agent"] = "failed" => reader'["agent"] = "failed")
  BY <1>1 DEF ErrorStopsReader
<1>2. CASE ReadsLine("agent") /\ script # "attach"
  <2> DEFINE line == Head(out["agent"])
  <2>1. seen["agent"] \in Seq(Lines) /\ out["agent"] \in Seq(Lines) /\ out["agent"] # <<>>
    BY <1>2 DEF TypeOK, ReadsLine
  <2>2. seen'["agent"] = Append(seen["agent"], line)
    BY <1>2 DEF TypeOK, ReadsLine
  <2>3. line \in Lines
    BY <2>1
  <2>4. /\ Len(seen'["agent"]) = Len(seen["agent"]) + 1
        /\ \A i \in 1 .. Len(seen["agent"]) : seen'["agent"][i] = seen["agent"][i]
        /\ seen'["agent"][Len(seen["agent"]) + 1] = line
        /\ Len(seen["agent"]) \in Nat
    BY <2>1, <2>2, <2>3
  <2>5. \A i \in 1 .. Len(seen["agent"]) : "error" \notin seen["agent"][i]
    BY <1>2 DEF ErrorStopsReader, ReadsLine
  <2>6. "error" \in line => reader'["agent"] = "failed"
    BY <1>2 DEF ReadsLine, Fails, ChecksError, TypeOK
  <2>7. QED
    BY <1>2, <2>4, <2>5, <2>6 DEF ErrorStopsReader
<1>3. CASE script = "attach" /\ script' = script
  BY <1>3 DEF ErrorStopsReader
<1>4. CASE UNCHANGED vars
  BY <1>1, <1>4 DEF vars, readerVars
<1>5. ASSUME NEW c \in Children, ChildStep(c) \/ LoopStep(c) \/ Drains(c)
      PROVE  ErrorStopsReader'
  <2>1. UNCHANGED <<script, readerVars>>
    BY <1>5 DEF ChildStep, LoopStep, Prints, Dies, SeesEof, ExitNoticed,
       ConnectionLost, Drains
  <2>2. QED
    BY <1>1, <2>1 DEF readerVars
<1>6. ASSUME NEW c \in Children, ReaderStep(c) PROVE ErrorStopsReader'
  <2>1. CASE ReadsLine(c)
    <3>1. CASE c = "agent"
      BY <1>2, <1>3, <2>1, <3>1 DEF ReadsLine
    <3>2. CASE c # "agent"
      <4>1. /\ script' = script /\ seen'["agent"] = seen["agent"]
            /\ reader'["agent"] = reader["agent"]
        BY <2>1, <3>2 DEF ReadsLine, TypeOK
      <4>2. QED
        BY <4>1 DEF ErrorStopsReader
    <3>3. QED
      BY <3>1, <3>2
  <2>2. CASE ReadsEmpty(c) \/ Notified(c)
    <3>1. UNCHANGED <<script, seen>>
      BY <2>2 DEF ReadsEmpty, Notified
    <3>2. reader["agent"] = "failed" => reader'["agent"] = "failed"
      BY <2>2 DEF ReadsEmpty, Notified, TypeOK
    <3>3. QED
      BY <1>1, <3>1, <3>2
  <2>3. QED
    BY <1>6, <2>1, <2>2 DEF ReaderStep
<1>7. CASE MainStep
  <2>1. UNCHANGED <<script, seen>>
    BY <1>7 DEF MainStep, LaunchServer, LaunchController, ServerStarted,
       LaunchAgent, LaunchNginx, ExpectedSeen, NginxStarted, Timeout, Request,
       RequestRaises, Joined, JoinRaises, Collected, LeavesTry, Starts, readerVars
  <2>2. CASE reader' = reader
    BY <1>1, <2>1, <2>2
  <2>3. CASE \E c \in Children : Starts(c) /\ proc[c] = "none"
    <3>1. PICK c \in Children : Starts(c) /\ proc[c] = "none"
      BY <2>3
    <3>2. reader["agent"] = "failed" => reader'["agent"] = "failed"
      BY <3>1 DEF Starts, Progress, TypeOK
    <3>3. QED
      BY <1>1, <2>1, <3>2
  <2>4. reader' = reader \/ \E c \in Children : Starts(c) /\ proc[c] = "none"
    <3>1. CASE LaunchServer \/ LaunchController
      BY <3>1 DEF LaunchServer, LaunchController, LeavesTry, Progress, Trying, Before, readerVars, Children
    <3>2. CASE LaunchAgent \/ LaunchNginx
      BY <3>2 DEF LaunchAgent, LaunchNginx, LeavesTry, Progress, Trying, Before, readerVars, Children
    <3>3. CASE \E s \in {200, 403} : Request(s)
      BY <3>3 DEF Request, readerVars
    <3>4. QED
      BY <1>7, <3>1, <3>2, <3>3 DEF MainStep, ServerStarted, ExpectedSeen,
         NginxStarted, Timeout, RequestRaises, Joined, JoinRaises, Collected,
         LeavesTry, readerVars
  <2>5. QED
    BY <2>2, <2>3, <2>4
<1>8. QED
  BY <1>4, <1>5, <1>6, <1>7 DEF Next

(* Nothing that the agent prints after an error is evidence. *)
THEOREM ErrorsEndEvidence == Spec => []NothingAfterError
<1>1. Init => ErrorStopsReader
  BY DEF Init, ForEach, ErrorStopsReader, Children
<1>2. TypeOK /\ Progress /\ ErrorStopsReader /\ [Next]_vars => ErrorStopsReader'
  BY ErrorStep
<1>3. TypeOK /\ ErrorStopsReader => NothingAfterError
  <2>1. TypeOK => seen["agent"] \in Seq(Lines)
    BY DEF TypeOK, Children
  <2>2. TypeOK => Len(seen["agent"]) \in Nat
    BY <2>1
  <2>3. QED
    BY <2>2 DEF ErrorStopsReader, NothingAfterError
<1>4. QED
  BY <1>1, <1>2, <1>3, BaseInvariant, PTL DEF Spec

-----------------------------------------------------------------------------
(* The clean-up *)

(* What one step does to a child that is not being launched. *)
LEMMA ChildrenOnlyDie ==
  ASSUME TypeOK, Progress, [Next]_vars, NEW c \in Children, proc[c] # "none"
  PROVE  /\ proc'[c] = "running" => proc[c] = "running"
         /\ gone[c] => gone'[c]
<1>1. CASE UNCHANGED childVars
  BY <1>1 DEF childVars
<1>2. ASSUME NEW d \in Children, Starts(d), proc[d] = "none"
      PROVE  proc'[c] = proc[c] /\ gone' = gone
  BY <1>2 DEF Starts, TypeOK
<1>3. ASSUME NEW d \in Children, ChildStep(d) \/ LoopStep(d)
      PROVE  /\ proc'[c] = "running" => proc[c] = "running"
             /\ gone[c] => gone'[c]
  BY <1>3 DEF ChildStep, LoopStep, Prints, Dies, SeesEof, ExitNoticed,
     ConnectionLost, TypeOK, childVars
<1>4. ASSUME NEW d \in Children, ReaderStep(d) \/ Drains(d)
      PROVE  UNCHANGED childVars
  BY <1>4 DEF ReaderStep, ReadsLine, ReadsEmpty, Notified, Drains
<1>5. CASE LaunchServer \/ LaunchController
  BY <1>1, <1>2, <1>5 DEF LaunchServer, LaunchController, LeavesTry, Progress, Trying, Before, Children
<1>6. CASE LaunchAgent \/ LaunchNginx
  BY <1>1, <1>2, <1>6 DEF LaunchAgent, LaunchNginx, LeavesTry, Progress, Trying, Before, Children
<1>7. CASE \E s \in {200, 403} : Request(s)
  BY <1>1, <1>7 DEF Request
<1>8. CASE ServerStarted \/ ExpectedSeen \/ NginxStarted \/ Timeout
           \/ RequestRaises \/ Joined \/ JoinRaises \/ Collected
  BY <1>1, <1>8 DEF ServerStarted, ExpectedSeen, NginxStarted, Timeout,
     RequestRaises, Joined, JoinRaises, Collected, LeavesTry
<1>9. CASE UNCHANGED vars
  BY <1>1, <1>9 DEF vars
<1>10. QED
  BY <1>1, <1>3, <1>4, <1>5, <1>6, <1>7, <1>8, <1>9 DEF Next, MainStep

(* The step that leaves the try block reaches every child that runs, but   *)
(* for an agent behind a server that has gone.                             *)
LEMMA FinallyReaches ==
  ASSUME TypeOK, Progress, NEW how, NEW bound \in SUBSET Children,
         Finally(how, bound), "agent" \in bound => "server" \in bound,
         UNCHANGED gone,
         \A c \in Children : proc'[c] = "running" => c \in bound /\ ~gone[c]
  PROVE  NoChildForgotten'
BY ReachedSet DEF Finally, NoChildForgotten, Children

LEMMA LeavesTryReaches ==
  ASSUME TypeOK, Progress, NEW how, LeavesTry(how), main \in Trying
  PROVE  NoChildForgotten'
<1>1. "agent" \in Bound => "server" \in Bound
  BY DEF Bound, Progress, Trying, Before, Children
<1>2. \A c \in Children : proc'[c] = "running" => c \in Bound /\ ~gone[c]
  BY DEF LeavesTry, Bound, Progress, childVars
<1>3. Finally(how, Bound) /\ UNCHANGED gone
  BY DEF LeavesTry, childVars
<1>4. QED
  BY <1>1, <1>2, <1>3, BoundTypes, FinallyReaches

LEMMA RequestReaches ==
  ASSUME TypeOK, Progress, NEW s, Request(s)
  PROVE  NoChildForgotten'
<1>1. \A c \in Children : proc'[c] = "running" => c \in Children /\ ~gone[c]
  BY DEF Request, Progress, childVars
<1>2. CASE \E how : Finally(how, Children)
  <2>1. PICK how : Finally(how, Children)
    BY <1>2
  <2>2. Children \in SUBSET Children /\ "server" \in Children /\ UNCHANGED gone
    BY DEF Request, childVars, Children
  <2>3. QED
    BY <1>1, <2>1, <2>2, FinallyReaches
<1>3. CASE main' = main
  BY <1>3 DEF Request, NoChildForgotten, Over
<1>4. QED
  BY <1>2, <1>3 DEF Request

LEMMA LaunchReaches ==
  ASSUME TypeOK, Progress,
         LaunchServer \/ LaunchController \/ LaunchAgent \/ LaunchNginx
  PROVE  NoChildForgotten'
<1>1. CASE LaunchServer
  BY <1>1, LeavesTryReaches DEF LaunchServer, NoChildForgotten, Over, Trying, Before
<1>2. CASE LaunchController
  <2>1. CASE main' = "over" /\ UNCHANGED childVars
    BY <1>2, <2>1 DEF LaunchController, Progress, Trying, Before, childVars,
       NoChildForgotten, Children
  <2>2. QED
    BY <1>2, <2>1 DEF LaunchController, NoChildForgotten, Over
<1>3. CASE LaunchAgent
  <2>1. CASE Starts("agent") /\ Finally("ok", Children)
    <3>1. \A c \in Children : proc'[c] = "running" => c \in Children /\ ~gone[c]
      BY <1>3, <2>1 DEF LaunchAgent, Starts, Progress, TypeOK, Trying, Before, Children
    <3>2. Children \in SUBSET Children /\ "server" \in Children /\ UNCHANGED gone
      BY <2>1 DEF Starts, Children
    <3>3. QED
      BY <2>1, <3>1, <3>2, FinallyReaches
  <2>2. QED
    BY <1>3, <2>1, LeavesTryReaches
       DEF LaunchAgent, NoChildForgotten, Over, Trying, Before
<1>4. CASE LaunchNginx
  BY <1>4, LeavesTryReaches DEF LaunchNginx, NoChildForgotten, Over, Trying, Before
<1>5. QED
  BY <1>1, <1>2, <1>3, <1>4

(* All children that have been launched are signalled before the join. *)
LEMMA CleanUpReaches ==
  ASSUME TypeOK, Progress, Joined \/ JoinRaises \/ Collected
  PROVE  NoChildForgotten'
BY DEF Progress, Joined, JoinRaises, Collected, NoChildForgotten

(* A step in which main does not move. *)
LEMMA OverStays ==
  ASSUME TypeOK, Progress, NoChildForgotten, [Next]_vars,
         UNCHANGED <<main, signalled>>, \A c \in Children : proc[c] = "none" => proc'[c] = "none"
  PROVE  NoChildForgotten'
<1> SUFFICES ASSUME main = "over", NEW c \in Children, proc'[c] = "running"
             PROVE  c \in signalled \/ (c = "agent" /\ gone'["server"])
  BY DEF NoChildForgotten, Over
<1>1. proc[c] = "running"
  BY ChildrenOnlyDie
<1>2. CASE c \in signalled
  BY <1>2
<1>3. CASE c = "agent" /\ gone["server"]
  <2>1. proc["server"] # "none" /\ "server" \in Children
    BY <1>3 DEF Progress, Children
  <2>2. QED
    BY <1>3, <2>1, ChildrenOnlyDie
<1>4. QED
  BY <1>1, <1>2, <1>3 DEF NoChildForgotten, Over

LEMMA ForgottenStep ==
  ASSUME TypeOK, Progress, NoChildForgotten, [Next]_vars
  PROVE  NoChildForgotten'
<1>1. CASE UNCHANGED vars
  BY <1>1, OverStays DEF vars, childVars, mainVars
<1>2. ASSUME NEW c \in Children,
             ChildStep(c) \/ LoopStep(c) \/ ReaderStep(c) \/ Drains(c)
      PROVE  NoChildForgotten'
  <2>1. /\ UNCHANGED <<main, signalled>>
        /\ \A d \in Children : proc[d] = "none" => proc'[d] = "none"
    BY <1>2 DEF ChildStep, LoopStep, ReaderStep, Drains, Prints, Dies, SeesEof,
       ExitNoticed, ConnectionLost, ReadsLine, ReadsEmpty, Notified, childVars,
       mainVars, TypeOK
  <2>2. QED
    BY <2>1, OverStays
<1>3. CASE MainStep
  <2>1. CASE LaunchServer \/ LaunchController \/ LaunchAgent \/ LaunchNginx
    BY <2>1, LaunchReaches
  <2>2. CASE \E s \in {200, 403} : Request(s)
    BY <2>2, RequestReaches
  <2>3. CASE ExpectedSeen \/ Timeout \/ RequestRaises
    BY <2>3, LeavesTryReaches
       DEF ExpectedSeen, Timeout, TimesOut, RequestRaises, Trying, Before
  <2>4. CASE Joined \/ JoinRaises \/ Collected
    BY <2>4, CleanUpReaches
  <2>5. CASE ServerStarted \/ NginxStarted
    BY <2>5 DEF ServerStarted, NginxStarted, NoChildForgotten, Over
  <2>6. QED
    BY <1>3, <2>1, <2>2, <2>3, <2>4, <2>5 DEF MainStep
<1>4. QED
  BY <1>1, <1>2, <1>3 DEF Next

(* No child outlives its script without a SIGINT, but for an agent behind  *)
(* a server whose transport has closed.                                    *)
THEOREM ChildrenAreSignalled == Spec => []NoChildForgotten
<1>1. Init => NoChildForgotten
  BY DEF Init, NoChildForgotten, Over
<1>2. TypeOK /\ Progress /\ NoChildForgotten /\ [Next]_vars => NoChildForgotten'
  BY ForgottenStep
<1>3. QED
  BY <1>1, <1>2, BaseInvariant, PTL DEF Spec

(* The ways to the end that find both children signalled and both readers  *)
(* ended lead through communicate().                                       *)
LEMMA CleanEndStep ==
  ASSUME TypeOK, Progress, CleanEnd, [Next]_vars
  PROVE  CleanEnd'
<1> DEFINE Quiet == /\ signalled = Children
                    /\ \A c \in Children : reader[c] = "ended"
           Settled == \A c \in Children :
                        proc[c] = "dead" /\ known[c] /\ out[c] = <<>>
<1>1. CleanEnd <=> (main = "over" /\ Quiet => Settled)
  BY DEF CleanEnd, Over
<1>2. CleanEnd' <=> (main' = "over" /\ Quiet' => Settled')
  BY DEF CleanEnd, Over
<1>3. CASE UNCHANGED <<proc, known, out, reader, main, signalled>>
  BY <1>1, <1>2, <1>3
<1>4. ASSUME NEW c \in Children,
             ChildStep(c) \/ LoopStep(c) \/ ReaderStep(c) \/ Drains(c)
      PROVE  CleanEnd'
  <2>1. UNCHANGED <<main, signalled>>
    BY <1>4 DEF ChildStep, LoopStep, ReaderStep, Drains, Prints, Dies, SeesEof,
       ExitNoticed, ConnectionLost, ReadsLine, ReadsEmpty, Notified, mainVars
  <2>2. CASE main # "over"
    BY <1>2, <2>1, <2>2
  <2>3. CASE main = "over"
    <3>1. Dies(c)
      BY <1>4, <2>3 DEF ChildStep, LoopStep, ReaderStep, Drains, Prints, SeesEof,
         ExitNoticed, ConnectionLost, ReadsLine, ReadsEmpty, Notified, Over
    <3>2. /\ UNCHANGED <<known, out, reader>>
          /\ \A d \in Children : proc[d] = "dead" => proc'[d] = "dead"
      BY <3>1 DEF Dies, outputVars, readerVars, TypeOK
    <3>3. QED
      BY <1>1, <1>2, <2>1, <3>2
  <2>4. QED
    BY <2>2, <2>3
<1>5. ASSUME NEW how, NEW bound, Finally(how, bound) PROVE CleanEnd'
  BY <1>2, <1>5 DEF Finally
<1>6. CASE MainStep
  <2>1. CASE Collected
    <3>1. Settled'
      BY <2>1 DEF Collected, Communicated, AtEof, Progress, childVars, outputVars
    <3>2. QED
      BY <1>2, <3>1
  <2>2. CASE JoinRaises
    BY <1>2, <2>2 DEF JoinRaises, readerVars
  <2>3. CASE LaunchController
    BY <1>2, <2>3 DEF LaunchController, Progress, Trying, Before, Children
  <2>4. CASE main' # "over"
    BY <1>2, <2>4
  <2>5. CASE LaunchServer \/ LaunchAgent \/ LaunchNginx
    BY <1>5, <2>4, <2>5 DEF LaunchServer, LaunchAgent, LaunchNginx, LeavesTry
  <2>6. CASE ExpectedSeen \/ Timeout \/ RequestRaises
    BY <1>5, <2>6 DEF ExpectedSeen, Timeout, RequestRaises, LeavesTry
  <2>7. CASE \E s \in {200, 403} : Request(s)
    BY <1>5, <2>4, <2>7 DEF Request
  <2>8. CASE ServerStarted \/ NginxStarted \/ Joined
    BY <2>4, <2>8 DEF ServerStarted, NginxStarted, Joined
  <2>9. QED
    BY <1>6, <2>1, <2>2, <2>3, <2>5, <2>6, <2>7, <2>8 DEF MainStep
<1>7. CASE UNCHANGED vars
  BY <1>3, <1>7 DEF vars, childVars, outputVars, readerVars, mainVars
<1>8. QED
  BY <1>4, <1>6, <1>7 DEF Next

(* A clean-up that met no exception has waited for both children, and has  *)
(* read all they printed.                                                  *)
THEOREM CleanUpLeavesNothing == Spec => []CleanEnd
<1>1. Init => CleanEnd
  BY DEF Init, CleanEnd, Over
<1>2. TypeOK /\ Progress /\ CleanEnd /\ [Next]_vars => CleanEnd'
  BY CleanEndStep
<1>3. QED
  BY <1>1, <1>2, BaseInvariant, PTL DEF Spec

-----------------------------------------------------------------------------
(* Evidence *)

(* An event that is set has its line, and main has come where it is        *)
(* through the events.                                                     *)
EventsHaveLines ==
  /\ "server_started" \in events => Shown("server", "start")
  /\ script # "attach" /\ "expected_str" \in events =>
       \E c \in Children : Shown(c, "expected")
  /\ script = "attach" /\ "agent_started" \in events => Shown("agent", "start")
  /\ main \in Trying \ {"launch_server", "await_server"} =>
       Shown("server", "start")
  /\ main = "await_expected" => script = "example"
  /\ main = "await_agent" => script = "attach"
  /\ main = "requesting" => script = "attach" /\ Shown("agent", "start")

Evidence == EventsHaveLines /\ SuccessHasEvidence

(* What has been read stays read. *)
LEMMA ShownStays ==
  ASSUME TypeOK, Progress, [Next]_vars, NEW c \in Children, NEW mark,
         Shown(c, mark)
  PROVE  Shown(c, mark)'
<1>1. seen[c] \in Seq(Lines)
  BY DEF TypeOK
<1>2. CASE seen' = seen
  BY <1>2 DEF Shown
<1>3. ASSUME NEW d \in Children, ReadsLine(d) PROVE Shown(c, mark)'
  <2>1. CASE d # c
    BY <1>3, <2>1 DEF ReadsLine, Shown, TypeOK
  <2>2. CASE d = c
    <3>1. out[c] \in Seq(Lines) /\ out[c] # <<>>
      BY <1>3, <2>2 DEF ReadsLine, TypeOK
    <3>2. Head(out[c]) \in Lines
      BY <3>1
    <3>3. seen'[c] = Append(seen[c], Head(out[c]))
      BY <1>3, <2>2 DEF ReadsLine, TypeOK
    <3>4. /\ Len(seen'[c]) = Len(seen[c]) + 1 /\ Len(seen[c]) \in Nat
          /\ \A i \in 1 .. Len(seen[c]) : seen'[c][i] = seen[c][i]
      BY <1>1, <3>2, <3>3
    <3>5. PICK i \in 1 .. Len(seen[c]) : mark \in seen[c][i]
      BY DEF Shown
    <3>6. i \in 1 .. Len(seen'[c]) /\ mark \in seen'[c][i]
      BY <3>4, <3>5
    <3>7. QED
      BY <3>6 DEF Shown
  <2>3. QED
    BY <2>1, <2>2
<1>4. seen' = seen \/ \E d \in Children : ReadsLine(d)
  BY DEF Next, vars, ChildStep, LoopStep, ReaderStep, Drains, Prints, Dies,
     SeesEof, ExitNoticed, ConnectionLost, ReadsEmpty, Notified, MainStep,
     LaunchServer, LaunchController, ServerStarted, LaunchAgent, LaunchNginx,
     ExpectedSeen, NginxStarted, Timeout, Request, RequestRaises, Joined,
     JoinRaises, Collected, LeavesTry, Starts, readerVars
<1>5. QED
  BY <1>2, <1>3, <1>4

(* The step that reads a line shows its marks. *)
LEMMA ReadIsShown ==
  ASSUME TypeOK, NEW c \in Children, ReadsLine(c), NEW mark \in Head(out[c])
  PROVE  Shown(c, mark)'
<1>1. seen[c] \in Seq(Lines) /\ out[c] \in Seq(Lines) /\ out[c] # <<>>
  BY DEF TypeOK, ReadsLine
<1>2. Head(out[c]) \in Lines
  BY <1>1
<1>3. seen'[c] = Append(seen[c], Head(out[c]))
  BY DEF ReadsLine, TypeOK
<1>4. /\ Len(seen'[c]) = Len(seen[c]) + 1 /\ Len(seen[c]) \in Nat
      /\ seen'[c][Len(seen[c]) + 1] = Head(out[c])
  BY <1>1, <1>2, <1>3
<1>5. QED
  BY <1>4 DEF Shown

LEMMA EvidenceReader ==
  ASSUME TypeOK, Progress, Evidence, NEW c \in Children, ReadsLine(c)
  PROVE  EventsHaveLines'
<1> DEFINE line == Head(out[c])
<1>1. [Next]_vars
  BY DEF Next, ReaderStep
<1>2. \A d \in Children, mark \in {"start", "expected"} :
        Shown(d, mark) => Shown(d, mark)'
  BY <1>1, ShownStays
<1>3. \A mark \in line : Shown(c, mark)'
  BY ReadIsShown
<1>4. UNCHANGED <<script, main>> /\ events' = events \cup Triggered(c, line)
  BY DEF ReadsLine, mainVars
<1>5. "server" \in Children /\ "agent" \in Children
  BY DEF Children
<1>6. "server_started" \in Triggered(c, line) => c = "server" /\ "start" \in line
  BY DEF Triggered, Callbacks, ExampleCallbacks, AttachCallbacks
<1>7. script # "attach" /\ "expected_str" \in Triggered(c, line) =>
        "expected" \in line
  BY DEF Triggered, Callbacks, ExampleCallbacks
<1>8. script = "attach" /\ "agent_started" \in Triggered(c, line) =>
        c = "agent" /\ "start" \in line
  BY DEF Triggered, Callbacks, AttachCallbacks, Children
<1> HIDE DEF line
<1>9. /\ "server_started" \in events' => Shown("server", "start")'
      /\ script' # "attach" /\ "expected_str" \in events' =>
           \E d \in Children : Shown(d, "expected")'
      /\ script' = "attach" /\ "agent_started" \in events' =>
           Shown("agent", "start")'
  BY <1>2, <1>3, <1>4, <1>5, <1>6, <1>7, <1>8 DEF Evidence, EventsHaveLines
<1>10. QED
  BY <1>2, <1>4, <1>5, <1>9 DEF Evidence, EventsHaveLines

(* Every other step only adds should_exit to the events. *)
LEMMA EvidenceOther ==
  ASSUME TypeOK, Progress, Evidence, [Next]_vars, UNCHANGED <<script, seen>>,
         events' \in {events, events \cup {"should_exit"}},
         main' = main \/ main' \notin Trying
  PROVE  EventsHaveLines'
<1>1. \A c \in Children : \A mark : Shown(c, mark)' <=> Shown(c, mark)
  BY DEF Shown
<1>2. "server" \in Children /\ "agent" \in Children
  BY DEF Children
<1>3. \A e \in {"server_started", "agent_started", "expected_str"} :
        e \in events' <=> e \in events
  OBVIOUS
<1>4. QED
  BY <1>1, <1>2, <1>3 DEF Evidence, EventsHaveLines, Trying, Before

LEMMA SuccessStays ==
  ASSUME TypeOK, Progress, Evidence, [Next]_vars, UNCHANGED script,
         outcome' = "ok" => outcome = "ok" /\ answers' = answers
  PROVE  SuccessHasEvidence'
<1>1. \A c \in Children, mark \in {"start", "expected"} :
        Shown(c, mark) => Shown(c, mark)'
  BY ShownStays
<1>2. "server" \in Children /\ "agent" \in Children
  BY DEF Children
<1>3. QED
  BY <1>1, <1>2 DEF Evidence, SuccessHasEvidence

LEMMA SecondAnswer == Append(<< 403 >>, 200) = WantedAnswers
<1> DEFINE a == Append(<< 403 >>, 200)
           b == WantedAnswers
<1>1. a \in Seq({200, 403}) /\ b \in Seq({200, 403})
  BY DEF WantedAnswers
<1>2. Len(a) = 2 /\ Len(b) = 2
  BY DEF WantedAnswers
<1>3. a[1] = b[1] /\ a[2] = b[2]
  BY DEF WantedAnswers
<1> HIDE DEF a, b
<1>4. DOMAIN a = 1 .. 2 /\ DOMAIN b = 1 .. 2
  BY <1>1, <1>2
<1>5. a = [i \in 1 .. 2 |-> a[i]] /\ b = [i \in 1 .. 2 |-> b[i]]
  BY <1>1, <1>2, <1>4
<1>6. a = b
  BY <1>3, <1>5
<1>7. QED
  BY <1>6 DEF a, b

LEMMA EvidenceMain ==
  ASSUME TypeOK, Progress, Evidence, MainStep PROVE Evidence'
<1> USE DEF childVars, outputVars, readerVars, mainVars
<1>1. [Next]_vars
  BY DEF Next
<1>2. UNCHANGED <<script, seen>>
  BY DEF MainStep, LaunchServer, LaunchController, ServerStarted, LaunchAgent,
     LaunchNginx, ExpectedSeen, NginxStarted, Timeout, Request, RequestRaises,
     Joined, JoinRaises, Collected, LeavesTry, Starts
<1>3. \A c \in Children : \A mark : Shown(c, mark)' <=> Shown(c, mark)
  BY <1>2 DEF Shown
<1>4. "server" \in Children /\ "agent" \in Children
  BY DEF Children
<1>5. ASSUME NEW how, NEW bound, Finally(how, bound)
      PROVE  /\ outcome' = how /\ main' \notin Trying
             /\ events' = events \cup {"should_exit"}
  BY <1>5 DEF Finally, Trying, Before
<1>6. ASSUME LeavesTry("raised") PROVE Evidence'
  <2>1. outcome' = "raised" /\ EventsHaveLines'
    BY <1>1, <1>2, <1>5, <1>6, EvidenceOther DEF LeavesTry
  <2>2. QED
    BY <2>1 DEF Evidence, SuccessHasEvidence
<1>7. CASE LaunchServer \/ LaunchController
  <2>1. CASE main' = "await_server" /\ UNCHANGED <<events, outcome>>
    <3>1. outcome # "ok"
      BY <1>7 DEF LaunchServer, LaunchController, Progress, Trying, Before
    <3>2. EventsHaveLines'
      BY <1>2, <1>3, <1>4, <2>1 DEF Evidence, EventsHaveLines, Trying, Before
    <3>3. QED
      BY <2>1, <3>1, <3>2 DEF Evidence, SuccessHasEvidence
  <2>2. CASE main' = "over" /\ outcome' = "raised" /\ events' = events
    <3>1. EventsHaveLines'
      BY <1>1, <1>2, <2>2, EvidenceOther DEF Trying, Before
    <3>2. QED
      BY <2>2, <3>1 DEF Evidence, SuccessHasEvidence
  <2>3. QED
    BY <1>6, <1>7, <2>1, <2>2 DEF LaunchServer, LaunchController
<1>8. CASE ServerStarted
  <2>1. Shown("server", "start") /\ outcome # "ok" /\ UNCHANGED <<outcome, events>>
    BY <1>8 DEF ServerStarted, Progress, Trying, Before, Evidence, EventsHaveLines
  <2>2. EventsHaveLines'
    BY <1>2, <1>3, <1>4, <1>8, <2>1
       DEF ServerStarted, Evidence, EventsHaveLines, Trying, Before
  <2>3. QED
    BY <2>1, <2>2 DEF Evidence, SuccessHasEvidence
<1>9. CASE LaunchAgent \/ LaunchNginx
  <2>1. main = "launch_agent" /\ Shown("server", "start") /\ outcome # "ok"
    BY <1>9 DEF LaunchAgent, LaunchNginx, Progress, Evidence, EventsHaveLines,
       Trying, Before
  <2>2. CASE script = "readline" /\ Finally("ok", Children)
    <3>1. EventsHaveLines'
      BY <1>1, <1>2, <1>5, <2>2, EvidenceOther
    <3>2. QED
      BY <1>2, <1>3, <1>4, <2>1, <2>2, <3>1 DEF Evidence, SuccessHasEvidence
  <2>3. CASE /\ main' = IF script = "attach" THEN "await_agent"
                                             ELSE "await_expected"
             /\ script # "readline" /\ UNCHANGED <<events, outcome>>
    <3>1. script \in {"example", "attach"}
      BY <2>3, ScriptsAssumption DEF TypeOK
    <3>2. EventsHaveLines'
      BY <1>2, <1>3, <1>4, <2>1, <2>3, <3>1
         DEF Evidence, EventsHaveLines, Trying, Before
    <3>3. QED
      BY <2>1, <2>3, <3>2 DEF Evidence, SuccessHasEvidence
  <2>4. QED
    BY <1>6, <1>9, <2>2, <2>3 DEF LaunchAgent, LaunchNginx
<1>10. CASE ExpectedSeen
  <2>1. /\ script = "example" /\ Shown("server", "start")
        /\ \E c \in Children : Shown(c, "expected")
    BY <1>10 DEF ExpectedSeen, Evidence, EventsHaveLines, Trying, Before
  <2>2. EventsHaveLines'
    BY <1>1, <1>2, <1>5, <1>10, EvidenceOther DEF ExpectedSeen, LeavesTry
  <2>3. QED
    BY <1>2, <1>3, <1>4, <2>1, <2>2 DEF Evidence, SuccessHasEvidence
<1>11. CASE NginxStarted
  <2>1. /\ script = "attach" /\ Shown("server", "start")
        /\ Shown("agent", "start") /\ outcome # "ok"
    BY <1>11 DEF NginxStarted, Evidence, EventsHaveLines, Progress, Trying, Before
  <2>2. EventsHaveLines'
    BY <1>2, <1>3, <1>4, <1>11, <2>1
       DEF NginxStarted, Evidence, EventsHaveLines, Trying, Before
  <2>3. QED
    BY <1>11, <2>1, <2>2 DEF NginxStarted, Evidence, SuccessHasEvidence
<1>12. ASSUME NEW s \in {200, 403}, Request(s) PROVE Evidence'
  <2>1. /\ script = "attach" /\ Shown("server", "start")
        /\ Shown("agent", "start") /\ outcome # "ok"
        /\ answers \in {<<>>, << 403 >>} /\ answers' = Append(answers, s)
    BY <1>12 DEF Request, Evidence, EventsHaveLines, Progress, Trying, Before
  <2>2. EventsHaveLines'
    BY <1>1, <1>2, <1>5, <1>12, EvidenceOther DEF Request
  <2>3. CASE AsWanted(s) /\ Len(answers') = 2
    <3>1. answers = << 403 >>
      <4>1. CASE answers = <<>>
        <5>1. Len(answers') = 1
          BY <2>1, <4>1
        <5>2. QED
          BY <2>3, <5>1
      <4>2. QED
        BY <2>1, <4>1
    <3>2. s = 200
      BY <2>3, <3>1 DEF AsWanted, WantedAnswers
    <3>3. answers' = WantedAnswers
      BY <2>1, <3>1, <3>2, SecondAnswer
    <3>4. QED
      BY <1>2, <1>3, <1>4, <2>1, <2>2, <3>3 DEF Evidence, SuccessHasEvidence
  <2>4. CASE ~(AsWanted(s) /\ Len(answers') = 2)
    <3>1. outcome' # "ok"
      BY <1>5, <1>12, <2>1, <2>4 DEF Request
    <3>2. QED
      BY <2>2, <3>1 DEF Evidence, SuccessHasEvidence
  <2>5. QED
    BY <2>3, <2>4
<1>13. CASE Joined \/ JoinRaises \/ Collected
  <2>1. /\ UNCHANGED <<events, outcome, answers>>
        /\ main' \in {"collecting", "over"}
    BY <1>13 DEF Joined, JoinRaises, Collected
  <2>2. EventsHaveLines'
    BY <1>1, <1>2, <2>1, EvidenceOther DEF Trying, Before
  <2>3. QED
    BY <1>1, <1>2, <2>1, <2>2, SuccessStays DEF Evidence
<1>14. CASE Timeout \/ RequestRaises
  BY <1>6, <1>14 DEF Timeout, RequestRaises
<1>15. QED
  BY <1>7, <1>8, <1>9, <1>10, <1>11, <1>12, <1>13, <1>14 DEF MainStep

(* Success has its evidence: the start line, and then the expected string  *)
(* or the two answers.                                                     *)
THEOREM SuccessIsEarned == Spec => []SuccessHasEvidence
<1>1. Init => Evidence
  BY DEF Init, Evidence, EventsHaveLines, SuccessHasEvidence, Trying, Before
<1>2. TypeOK /\ Progress /\ Evidence /\ [Next]_vars => Evidence'
  <2> SUFFICES ASSUME TypeOK, Progress, Evidence, [Next]_vars PROVE Evidence'
    OBVIOUS
  <2>1. ASSUME NEW c \in Children, ReadsLine(c) PROVE Evidence'
    <3>1. UNCHANGED <<script, outcome, answers>>
      BY <2>1 DEF ReadsLine, mainVars
    <3>2. QED
      BY <2>1, <3>1, EvidenceReader, SuccessStays DEF Evidence
  <2>2. CASE UNCHANGED <<script, seen, events, mainVars>>
    BY <2>2, EvidenceOther, SuccessStays DEF Evidence, mainVars
  <2>3. ASSUME NEW c \in Children,
               \/ ChildStep(c) \/ LoopStep(c) \/ Drains(c)
               \/ ReadsEmpty(c) \/ Notified(c)
        PROVE  UNCHANGED <<script, seen, events, mainVars>>
    BY <2>3 DEF ChildStep, LoopStep, Drains, ReadsEmpty, Notified, Prints, Dies,
       SeesEof, ExitNoticed, ConnectionLost, readerVars
  <2>4. CASE UNCHANGED vars
    BY <2>2, <2>4 DEF vars, readerVars
  <2>5. CASE MainStep
    BY <2>5, EvidenceMain
  <2>6. QED
    BY <2>1, <2>2, <2>3, <2>4, <2>5 DEF Next, ReaderStep
<1>3. Evidence => SuccessHasEvidence
  BY DEF Evidence
<1>4. QED
  BY <1>1, <1>2, <1>3, BaseInvariant, PTL DEF Spec
=============================================================================
