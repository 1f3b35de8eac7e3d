-------------------------- MODULE NginxSuiteProofs --------------------------
(***************************************************************************)
(* Theorems about NginxSuite, for every number of runs.  That a traced run *)
(* is measured alone is proved for a script that runs as root, which may   *)
(* terminate its tracers.                                                  *)
(***************************************************************************)
EXTENDS NginxSuite, TLAPS

(* The phases of one run that is traced, and all phases of a test.         *)
InRun == {"tracing", "started", "measuring", "ending", "waiting"}
InTest == InRun \cup {"runs", "cleaning"}

(* Where a run is, and what it has marked so far.                          *)
Marks ==
  /\ phase \in InRun => run < NumRuns /\ test \in 2 .. 5
  /\ phase = "tracing" => test \in {4, 5}
  /\ phase = "begin" => run = 0
  /\ phase \in InTest \cup {"begin"} => failed <= 2 * run + 1
  /\ phase \in {"begin", "runs", "tracing", "started", "measuring", "cleaning"} =>
       failed <= 2 * run
  /\ rate # {} => phase \in {"ending", "waiting"} /\ failed <= 2 * run
  /\ own => phase \in {"started", "measuring", "ending", "waiting"}

Typed == TypeOK /\ Marks

(* A traced run that has not given a rate has been marked failed before    *)
(* its tracer is waited for; a kernel run is only begun with nginx's pid.  *)
Marked ==
  /\ phase \in {"ending", "waiting"} /\ rate = {} => valid + failed >= run + 1
  /\ phase \in InRun /\ test \in {2, 3} => pid

Accounted == Marked /\ RunsAccounted

(* What is on the machine while a test runs.  A user other than root may   *)
(* not kill a tracer that is overdue, which ends its test: of each test    *)
(* with the kernel's tracer one tracer at most is left for the later ones. *)
Late == {"closing", "final", "over"}

Stale(t) == ~AsRoot /\ t[1] \in {2, 3} /\ t[1] < test
OnePerTest(S) == \A t, u \in S : t[1] = u[1] => t = u

OnMachine ==
  /\ \A t \in tracers : \/ Stale(t)
                        \/ own /\ t = Tracer
                        \/ ~AsRoot /\ phase \in Late /\ t[1] = test
  /\ OnePerTest(tracers)

Machine ==
  /\ counted # {} => run > 0
  /\ phase = "closing" => test \in 1 .. 3
  /\ phase \in InTest /\ Name \notin Userbpf => nginx # "agent"
  /\ phase \in InTest /\ Name \in Userbpf => nginx # "plain"
  /\ phase = "begin" /\ Name \in Userbpf /\ "syscount" \in files => nginx = "none"
  /\ phase = "runs" /\ Name \in Userbpf => nginx = "none"

Right(c) ==
  /\ c.nginx = IF Name \in Userbpf THEN "agent" ELSE "plain"
  /\ \A t \in c.tracers : Stale(t) \/ t = Tracer
  /\ OnePerTest(c.tracers)

(* What a counted run has been measured with, whoever runs the script.     *)
MeasuredKnown ==
  \A c \in counted :
    /\ c.nginx = IF Name \in Userbpf THEN "agent" ELSE "plain"
    /\ \A t \in c.tracers : Stale(t) \/ \E r \in 1 .. run : t = <<test, r>>
    /\ OnePerTest(c.tracers)

Known == Machine /\ OnMachine /\ (\A c \in rate : Right(c)) /\ MeasuredKnown

LEMMA Names ==
  ASSUME NEW t \in 1 .. 5
  PROVE  /\ Tests[t] \in Kernel <=> t \in {2, 3}
         /\ Tests[t] \in Userbpf <=> t \in {4, 5}
         /\ Tests[t] = "native" <=> t = 1
BY DEF Tests, Kernel, Userbpf

LEMMA InitTyped == Init => Typed
<1> SUFFICES ASSUME Init PROVE Typed
  OBVIOUS
<1>1. TypeOK
  <2>1. \A c \in rate \cup counted :
          c.nginx \in {"none", "plain", "agent"} /\ c.tracers \subseteq Tracers
    BY DEF Init
  <2>2. tracers \subseteq Tracers /\ lacking \subseteq {Tests[i] : i \in 1 .. 5}
    BY DEF Init
  <2>3. files \subseteq {"syscount", "bpftime"}
    BY DEF Init
  <2>4. /\ run \in 0 .. NumRuns /\ valid \in 0 .. run /\ failed \in 0 .. 2 * (run + 1)
        /\ test \in 1 .. 5 /\ status \in {-1, 0, 1}
    BY NumRunsAssumption DEF Init
  <2>5. pid \in BOOLEAN /\ own \in BOOLEAN
    BY DEF Init
  <2> QED BY <2>1, <2>2, <2>3, <2>4, <2>5 DEF Init, TypeOK
<1>2. Marks
  BY NumRunsAssumption DEF Init, Marks, InRun, InTest
<1> QED BY <1>1, <1>2 DEF Typed

LEMMA StepTyped == Typed /\ [Next]_vars => Typed'
<1> SUFFICES ASSUME Typed, [Next]_vars PROVE Typed'
  OBVIOUS
<1> USE NumRunsAssumption
<1>n. /\ Name \in Kernel <=> test \in {2, 3}
      /\ Name \in Userbpf <=> test \in {4, 5}
      /\ Name = "native" <=> test = 1
      /\ Name \in {Tests[i] : i \in 1 .. 5}
  BY Names DEF Typed, TypeOK, Name
<1> USE <1>n DEF Typed, TypeOK, Marks, InRun, InTest, suiteVars, testVars,
                 processVars, runVars
<1>1. CASE NginxCrashes
  BY <1>1 DEF NginxCrashes
<1>2. CASE StartNginx
  <2>1. /\ test' \in 1 .. 5 /\ run' \in 0 .. NumRuns /\ valid' \in 0 .. run'
        /\ failed' \in 0 .. 2 * (run' + 1) /\ status' \in {-1, 0, 1}
    BY <1>2 DEF StartNginx, NextTest
  <2>2. /\ files' \subseteq {"syscount", "bpftime"}
        /\ phase' \in {"begin", "runs", "tracing", "started", "measuring", "ending",
                       "waiting", "cleaning", "closing", "report", "final", "over"}
        /\ nginx' \in {"none", "plain", "agent"} /\ pid' \in BOOLEAN /\ own' \in BOOLEAN
    BY <1>2 DEF StartNginx, NextTest
  <2>3. tracers' \subseteq Tracers /\ lacking' \subseteq {Tests[i] : i \in 1 .. 5}
    BY <1>2 DEF StartNginx, NextTest
  <2>4. \A c \in rate' \cup counted' :
          c.nginx \in {"none", "plain", "agent"} /\ c.tracers \subseteq Tracers
    BY <1>2 DEF StartNginx, NextTest
  <2>5. Marks'
    BY <1>2 DEF StartNginx, NextTest
  <2> QED BY <2>1, <2>2, <2>3, <2>4, <2>5
<1>3. CASE BeginUserbpf
  BY <1>3 DEF BeginUserbpf, NextTest
<1>4. CASE NativeRun
  BY <1>4 DEF NativeRun, MarkFailed, Circumstances
<1>5. CASE PassOver
  BY <1>5 DEF PassOver
<1>6. CASE StartAgentNginx
  <2>1. /\ test' \in 1 .. 5 /\ run' \in 0 .. NumRuns /\ valid' \in 0 .. run'
        /\ failed' \in 0 .. 2 * (run' + 1) /\ status' \in {-1, 0, 1}
    BY <1>6 DEF StartAgentNginx
  <2>2. /\ files' \subseteq {"syscount", "bpftime"}
        /\ phase' \in {"begin", "runs", "tracing", "started", "measuring", "ending",
                       "waiting", "cleaning", "closing", "report", "final", "over"}
        /\ nginx' \in {"none", "plain", "agent"} /\ pid' \in BOOLEAN /\ own' \in BOOLEAN
    BY <1>6 DEF StartAgentNginx
  <2>3. tracers' \subseteq Tracers /\ lacking' \subseteq {Tests[i] : i \in 1 .. 5}
    BY <1>6 DEF StartAgentNginx
  <2>4. \A c \in rate' \cup counted' :
          c.nginx \in {"none", "plain", "agent"} /\ c.tracers \subseteq Tracers
    BY <1>6 DEF StartAgentNginx
  <2>5. Marks'
    BY <1>6 DEF StartAgentNginx
  <2> QED BY <2>1, <2>2, <2>3, <2>4, <2>5
<1>7. CASE StartTracer
  <2>1. /\ test' \in 1 .. 5 /\ run' \in 0 .. NumRuns /\ valid' \in 0 .. run'
        /\ failed' \in 0 .. 2 * (run' + 1) /\ status' \in {-1, 0, 1}
    BY <1>7 DEF StartTracer, MarkFailed, Tracer, Tracers, Ending
  <2>2. /\ files' \subseteq {"syscount", "bpftime"}
        /\ phase' \in {"begin", "runs", "tracing", "started", "measuring", "ending",
                       "waiting", "cleaning", "closing", "report", "final", "over"}
        /\ nginx' \in {"none", "plain", "agent"} /\ pid' \in BOOLEAN /\ own' \in BOOLEAN
    BY <1>7 DEF StartTracer, MarkFailed, Tracer, Tracers, Ending
  <2>3. tracers' \subseteq Tracers /\ lacking' \subseteq {Tests[i] : i \in 1 .. 5}
    BY <1>7 DEF StartTracer, MarkFailed, Tracer, Tracers, Ending
  <2>4. \A c \in rate' \cup counted' :
          c.nginx \in {"none", "plain", "agent"} /\ c.tracers \subseteq Tracers
    BY <1>7 DEF StartTracer, MarkFailed, Tracer, Tracers, Ending
  <2>5. Marks'
    BY <1>7 DEF StartTracer, MarkFailed, Tracer, Tracers, Ending
  <2> QED BY <2>1, <2>2, <2>3, <2>4, <2>5
<1>8. CASE Poll
  BY <1>8 DEF Poll, MarkFailed, Ending
<1>9. CASE Wrk
  BY <1>9 DEF Wrk, MarkFailed, Ending, Circumstances
<1>10. CASE EndAgentNginx
  BY <1>10 DEF EndAgentNginx
<1>11. CASE TracerDone
  <2>1. /\ test' \in 1 .. 5 /\ run' \in 0 .. NumRuns /\ valid' \in 0 .. run'
        /\ failed' \in 0 .. 2 * (run' + 1) /\ status' \in {-1, 0, 1}
    BY <1>11 DEF TracerDone, Summarize
  <2>2. /\ files' \subseteq {"syscount", "bpftime"}
        /\ phase' \in {"begin", "runs", "tracing", "started", "measuring", "ending",
                       "waiting", "cleaning", "closing", "report", "final", "over"}
        /\ nginx' \in {"none", "plain", "agent"} /\ pid' \in BOOLEAN /\ own' \in BOOLEAN
    BY <1>11 DEF TracerDone, Summarize
  <2>3. tracers' \subseteq Tracers /\ lacking' \subseteq {Tests[i] : i \in 1 .. 5}
    BY <1>11 DEF TracerDone, Summarize
  <2>4. \A c \in rate' \cup counted' :
          c.nginx \in {"none", "plain", "agent"} /\ c.tracers \subseteq Tracers
    BY <1>11 DEF TracerDone, Summarize
  <2>5. Marks'
    BY <1>11 DEF TracerDone, Summarize
  <2> QED BY <2>1, <2>2, <2>3, <2>4, <2>5
<1>12. CASE TracerTimeout
  <2>1. /\ test' \in 1 .. 5 /\ run' \in 0 .. NumRuns /\ valid' \in 0 .. run'
        /\ failed' \in 0 .. 2 * (run' + 1) /\ status' \in {-1, 0, 1}
    BY <1>12 DEF TracerTimeout, Summarize, MarkFailed, Overdue, Terminates
  <2>2. /\ files' \subseteq {"syscount", "bpftime"}
        /\ phase' \in {"begin", "runs", "tracing", "started", "measuring", "ending",
                       "waiting", "cleaning", "closing", "report", "final", "over"}
        /\ nginx' \in {"none", "plain", "agent"} /\ pid' \in BOOLEAN /\ own' \in BOOLEAN
    BY <1>12 DEF TracerTimeout, Summarize, MarkFailed, Overdue, Terminates
  <2>3. tracers' \subseteq Tracers /\ lacking' \subseteq {Tests[i] : i \in 1 .. 5}
    BY <1>12 DEF TracerTimeout, Summarize, MarkFailed, Overdue, Terminates
  <2>4. \A c \in rate' \cup counted' :
          c.nginx \in {"none", "plain", "agent"} /\ c.tracers \subseteq Tracers
    BY <1>12 DEF TracerTimeout, Summarize, MarkFailed, Overdue, Terminates
  <2>5. Marks'
    BY <1>12 DEF TracerTimeout, Summarize, MarkFailed, Overdue, Terminates
  <2> QED BY <2>1, <2>2, <2>3, <2>4, <2>5
<1>13. CASE CleanAfterRun
  BY <1>13 DEF CleanAfterRun, CleanUp
<1>14. CASE RunsOver
  BY <1>14 DEF RunsOver, NextTest
<1>15. CASE CloseTest
  BY <1>15 DEF CloseTest, NextTest
<1>16. CASE Report
  BY <1>16 DEF Report, Excused
<1>17. CASE Exit
  BY <1>17 DEF Exit, CleanUp
<1>18. CASE \E t \in tracers : TracerEnds(t)
  BY <1>18 DEF TracerEnds
<1>19. CASE UNCHANGED vars
  BY <1>19 DEF vars, Name
<1> QED BY <1>1, <1>2, <1>3, <1>4, <1>5, <1>6, <1>7, <1>8, <1>9,
          <1>10, <1>11, <1>12, <1>13, <1>14, <1>15, <1>16, <1>17, <1>18, <1>19
   DEF Next, ScriptStep

LEMMA StepAccounted == Typed /\ Accounted /\ [Next]_vars => Accounted'
<1> SUFFICES ASSUME Typed, Accounted, [Next]_vars PROVE Accounted'
  OBVIOUS
<1> USE NumRunsAssumption
<1>n. /\ Name \in Kernel <=> test \in {2, 3}
      /\ Name \in Userbpf <=> test \in {4, 5}
      /\ Name = "native" <=> test = 1
  BY Names DEF Typed, TypeOK, Name
<1>m. (Name \in Kernel)' <=> test' \in {2, 3}
  BY StepTyped, Names DEF Typed, TypeOK, Name
<1> USE <1>n, <1>m DEF Typed, TypeOK, Marks, InRun, InTest, Accounted, Marked,
                RunsAccounted, suiteVars, testVars, processVars, runVars
<1>1. CASE NginxCrashes
  BY <1>1 DEF NginxCrashes
<1>2. CASE StartNginx
  BY <1>2 DEF StartNginx, NextTest
<1>3. CASE BeginUserbpf
  BY <1>3 DEF BeginUserbpf, NextTest
<1>4. CASE NativeRun
  BY <1>4 DEF NativeRun, MarkFailed, Circumstances
<1>5. CASE PassOver
  BY <1>5 DEF PassOver
<1>6. CASE StartAgentNginx
  BY <1>6 DEF StartAgentNginx
<1>7. CASE StartTracer
  BY <1>7 DEF StartTracer, MarkFailed, Tracer, Ending
<1>8. CASE Poll
  BY <1>8 DEF Poll, MarkFailed, Ending
<1>9. CASE Wrk
  <2>1. CASE nginx # "none" /\ rate' = {Circumstances} /\ UNCHANGED testVars
    BY <1>9, <2>1 DEF Wrk, Ending
  <2>2. CASE MarkFailed /\ UNCHANGED <<run, rate>>
    BY <1>9, <2>2 DEF Wrk, MarkFailed, Ending
  <2> QED BY <1>9, <2>1, <2>2 DEF Wrk
<1>10. CASE EndAgentNginx
  BY <1>10 DEF EndAgentNginx
<1>11. CASE TracerDone
  BY <1>11 DEF TracerDone, Summarize
<1>12. CASE TracerTimeout
  BY <1>12 DEF TracerTimeout, Summarize, MarkFailed, Overdue, Terminates
<1>13. CASE CleanAfterRun
  BY <1>13 DEF CleanAfterRun, CleanUp
<1>14. CASE RunsOver
  BY <1>14 DEF RunsOver, NextTest
<1>15. CASE CloseTest
  BY <1>15 DEF CloseTest, NextTest
<1>16. CASE Report
  BY <1>16 DEF Report, Excused
<1>17. CASE Exit
  BY <1>17 DEF Exit, CleanUp
<1>18. CASE \E t \in tracers : TracerEnds(t)
  BY <1>18 DEF TracerEnds
<1>19. CASE UNCHANGED vars
  BY <1>19 DEF vars
<1> QED BY <1>1, <1>2, <1>3, <1>4, <1>5, <1>6, <1>7, <1>8, <1>9,
          <1>10, <1>11, <1>12, <1>13, <1>14, <1>15, <1>16, <1>17, <1>18, <1>19
   DEF Next, ScriptStep

LEMMA InitKnown == Init => Known
BY Names DEF Init, Known, Machine, OnMachine, OnePerTest, MeasuredKnown, InTest, InRun,
             Name

LEMMA StepKnown == Typed /\ Known /\ [Next]_vars => Known'
<1> SUFFICES ASSUME Typed, Known, [Next]_vars PROVE Known'
  OBVIOUS
<1> USE NumRunsAssumption
<1>n. /\ Name \in Kernel <=> test \in {2, 3}
      /\ Name \in Userbpf <=> test \in {4, 5}
      /\ Name = "native" <=> test = 1
  BY Names DEF Typed, TypeOK, Name
<1>m. /\ (Name \in Userbpf)' <=> test' \in {4, 5}
      /\ (Name = "native")' <=> test' = 1
  BY StepTyped, Names DEF Typed, TypeOK, Name
<1> USE <1>n, <1>m DEF Typed, TypeOK, Marks, InRun, InTest, Known, Machine, OnMachine, Stale, OnePerTest, Late, Right,
                MeasuredKnown, Tracer, suiteVars, testVars, processVars, runVars
<1>1. CASE NginxCrashes
  <2>1. Machine'
    BY <1>1 DEF NginxCrashes
  <2>2. OnMachine'
    BY <1>1 DEF NginxCrashes
  <2>3. \A c \in rate' : Right(c)'
    BY <1>1 DEF NginxCrashes
  <2>4. MeasuredKnown'
    BY <1>1 DEF NginxCrashes
  <2> QED BY <2>1, <2>2, <2>3, <2>4
<1>2. CASE StartNginx
  <2>1. Machine'
    BY <1>2 DEF StartNginx, NextTest
  <2>2. OnMachine'
    BY <1>2 DEF StartNginx, NextTest
  <2>3. \A c \in rate' : Right(c)'
    BY <1>2 DEF StartNginx, NextTest
  <2>4. MeasuredKnown'
    BY <1>2 DEF StartNginx, NextTest
  <2> QED BY <2>1, <2>2, <2>3, <2>4
<1>3. CASE BeginUserbpf
  <2>1. Machine'
    BY <1>3 DEF BeginUserbpf, NextTest
  <2>2. OnMachine'
    BY <1>3 DEF BeginUserbpf, NextTest
  <2>3. \A c \in rate' : Right(c)'
    BY <1>3 DEF BeginUserbpf, NextTest
  <2>4. MeasuredKnown'
    BY <1>3 DEF BeginUserbpf, NextTest
  <2> QED BY <2>1, <2>2, <2>3, <2>4
<1>4. CASE NativeRun
  <2>1. Machine'
    BY <1>4 DEF NativeRun, MarkFailed, Circumstances
  <2>2. OnMachine'
    BY <1>4 DEF NativeRun, MarkFailed, Circumstances
  <2>3. \A c \in rate' : Right(c)'
    BY <1>4 DEF NativeRun, MarkFailed, Circumstances
  <2>4. MeasuredKnown'
    BY <1>4 DEF NativeRun, MarkFailed, Circumstances
  <2> QED BY <2>1, <2>2, <2>3, <2>4
<1>5. CASE PassOver
  <2>1. Machine'
    BY <1>5 DEF PassOver
  <2>2. OnMachine'
    BY <1>5 DEF PassOver
  <2>3. \A c \in rate' : Right(c)'
    BY <1>5 DEF PassOver
  <2>4. MeasuredKnown'
    BY <1>5 DEF PassOver
  <2> QED BY <2>1, <2>2, <2>3, <2>4
<1>6. CASE StartAgentNginx
  <2>1. Machine'
    BY <1>6 DEF StartAgentNginx
  <2>2. OnMachine'
    BY <1>6 DEF StartAgentNginx
  <2>3. \A c \in rate' : Right(c)'
    BY <1>6 DEF StartAgentNginx
  <2>4. MeasuredKnown'
    BY <1>6 DEF StartAgentNginx
  <2> QED BY <2>1, <2>2, <2>3, <2>4
<1>7. CASE StartTracer
  <2>1. Machine'
    BY <1>7 DEF StartTracer, MarkFailed, Tracer, Ending
  <2>2. OnMachine'
    BY <1>7 DEF StartTracer, MarkFailed, Tracer, Ending
  <2>3. \A c \in rate' : Right(c)'
    BY <1>7 DEF StartTracer, MarkFailed, Tracer, Ending
  <2>4. MeasuredKnown'
    BY <1>7 DEF StartTracer, MarkFailed, Tracer, Ending
  <2> QED BY <2>1, <2>2, <2>3, <2>4
<1>8. CASE Poll
  <2>1. Machine'
    BY <1>8 DEF Poll, MarkFailed, Ending
  <2>2. OnMachine'
    BY <1>8 DEF Poll, MarkFailed, Ending
  <2>3. \A c \in rate' : Right(c)'
    BY <1>8 DEF Poll, MarkFailed, Ending
  <2>4. MeasuredKnown'
    BY <1>8 DEF Poll, MarkFailed, Ending
  <2> QED BY <2>1, <2>2, <2>3, <2>4
<1>9. CASE Wrk
  <2>1. Machine'
    BY <1>9 DEF Wrk, MarkFailed, Ending, Circumstances
  <2>2. OnMachine'
    BY <1>9 DEF Wrk, MarkFailed, Ending, Circumstances
  <2>3. \A c \in rate' : Right(c)'
    BY <1>9 DEF Wrk, MarkFailed, Ending, Circumstances
  <2>4. MeasuredKnown'
    BY <1>9 DEF Wrk, MarkFailed, Ending, Circumstances
  <2> QED BY <2>1, <2>2, <2>3, <2>4
<1>10. CASE EndAgentNginx
  <2>1. Machine'
    BY <1>10 DEF EndAgentNginx
  <2>2. OnMachine'
    BY <1>10 DEF EndAgentNginx
  <2>3. \A c \in rate' : Right(c)'
    BY <1>10 DEF EndAgentNginx
  <2>4. MeasuredKnown'
    BY <1>10 DEF EndAgentNginx
  <2> QED BY <2>1, <2>2, <2>3, <2>4
<1>11. CASE TracerDone
  <2>1. Machine'
    BY <1>11 DEF TracerDone, Summarize
  <2>2. OnMachine'
    BY <1>11 DEF TracerDone, Summarize
  <2>3. \A c \in rate' : Right(c)'
    BY <1>11 DEF TracerDone, Summarize
  <2>4. MeasuredKnown'
    BY <1>11 DEF TracerDone, Summarize
  <2> QED BY <2>1, <2>2, <2>3, <2>4
<1>12. CASE TracerTimeout
  <2>1. Machine'
    BY <1>12 DEF TracerTimeout, Summarize, MarkFailed, Overdue, Terminates
  <2>2. OnMachine'
    BY <1>12 DEF TracerTimeout, Summarize, MarkFailed, Overdue, Terminates
  <2>3. \A c \in rate' : Right(c)'
    BY <1>12 DEF TracerTimeout, Summarize, MarkFailed, Overdue, Terminates
  <2>4. MeasuredKnown'
    BY <1>12 DEF TracerTimeout, Summarize, MarkFailed, Overdue, Terminates
  <2> QED BY <2>1, <2>2, <2>3, <2>4
<1>13. CASE CleanAfterRun
  <2>1. Machine'
    BY <1>13 DEF CleanAfterRun, CleanUp
  <2>2. OnMachine'
    BY <1>13 DEF CleanAfterRun, CleanUp
  <2>3. \A c \in rate' : Right(c)'
    BY <1>13 DEF CleanAfterRun, CleanUp
  <2>4. MeasuredKnown'
    BY <1>13 DEF CleanAfterRun, CleanUp
  <2> QED BY <2>1, <2>2, <2>3, <2>4
<1>14. CASE RunsOver
  <2>1. Machine'
    BY <1>14 DEF RunsOver, NextTest
  <2>2. OnMachine'
    BY <1>14 DEF RunsOver, NextTest
  <2>3. \A c \in rate' : Right(c)'
    BY <1>14 DEF RunsOver, NextTest
  <2>4. MeasuredKnown'
    BY <1>14 DEF RunsOver, NextTest
  <2> QED BY <2>1, <2>2, <2>3, <2>4
<1>15. CASE CloseTest
  <2>1. Machine'
    BY <1>15 DEF CloseTest, NextTest
  <2>2. OnMachine'
    <3>1. /\ test \in 1 .. 3 /\ test' = test + 1 /\ tracers' = tracers /\ ~own
      BY <1>15 DEF CloseTest, NextTest
    <3>2. ASSUME NEW t \in tracers PROVE Stale(t)'
      <4>1. t[1] \in 2 .. 5
        BY DEF Tracers
      <4>2. ~AsRoot /\ t[1] <= test
        BY <3>1, <4>1
      <4> QED BY <3>1, <4>1, <4>2
    <3> QED BY <3>1, <3>2
  <2>3. \A c \in rate' : Right(c)'
    BY <1>15 DEF CloseTest, NextTest
  <2>4. MeasuredKnown'
    BY <1>15 DEF CloseTest, NextTest
  <2> QED BY <2>1, <2>2, <2>3, <2>4
<1>16. CASE Report
  <2>1. Machine'
    BY <1>16 DEF Report, Excused
  <2>2. OnMachine'
    BY <1>16 DEF Report, Excused
  <2>3. \A c \in rate' : Right(c)'
    BY <1>16 DEF Report, Excused
  <2>4. MeasuredKnown'
    BY <1>16 DEF Report, Excused
  <2> QED BY <2>1, <2>2, <2>3, <2>4
<1>17. CASE Exit
  <2>1. Machine'
    BY <1>17 DEF Exit, CleanUp
  <2>2. OnMachine'
    BY <1>17 DEF Exit, CleanUp
  <2>3. \A c \in rate' : Right(c)'
    BY <1>17 DEF Exit, CleanUp
  <2>4. MeasuredKnown'
    BY <1>17 DEF Exit, CleanUp
  <2> QED BY <2>1, <2>2, <2>3, <2>4
<1>18. CASE \E t \in tracers : TracerEnds(t)
  BY <1>18 DEF TracerEnds
<1>19. CASE UNCHANGED vars
  BY <1>19 DEF vars
<1> QED BY <1>1, <1>2, <1>3, <1>4, <1>5, <1>6, <1>7, <1>8, <1>9,
          <1>10, <1>11, <1>12, <1>13, <1>14, <1>15, <1>16, <1>17, <1>18, <1>19
   DEF Next, ScriptStep

(* While a run lasts nothing is lost track of: all variables keep their    *)
(* types, and a run is counted valid once at most and failed twice at most *)
(* (mark_valid, mark_failed).                                              *)
THEOREM TypeCorrect == Spec => []TypeOK
<1>1. Typed => TypeOK
  BY DEF Typed
<1> QED BY InitTyped, StepTyped, <1>1, PTL DEF Spec

(* Every run that is over has been marked, whichever call of it failed,    *)
(* but for the kernel runs without nginx's pid.                            *)
THEOREM EveryRunCounted == Spec => []RunsAccounted
<1>1. Init => Accounted
  BY DEF Init, Accounted, Marked, RunsAccounted
<1>2. Accounted => RunsAccounted
  BY DEF Accounted
<1> QED BY InitTyped, StepTyped, StepAccounted, <1>1, <1>2, PTL DEF Spec

(* Whoever runs the script, a counted run has been measured with the nginx *)
(* of its test, its own tracer, and at most one tracer that an earlier     *)
(* kernel test could not terminate; of a script of root, with none.        *)
THEOREM MeasuresKnown == Spec => []MeasuredKnown
<1>1. Init => Known
  BY InitKnown
<1>2. Known => MeasuredKnown
  BY DEF Known
<1> QED BY InitTyped, StepTyped, StepKnown, <1>1, <1>2, PTL DEF Spec

(* Whatever the earlier runs left behind, wrk's rate is only counted when  *)
(* it was measured with the tracer and the nginx of its run and no others. *)
THEOREM MeasuresAlone == ASSUME AsRoot PROVE Spec => []MeasuredAlone
<1>1. Typed /\ Known => MeasuredAlone
  <2> SUFFICES ASSUME Typed, Known, NEW c \in counted
               PROVE  /\ c.nginx = IF Name \in Userbpf THEN "agent" ELSE "plain"
                      /\ IF Name = "native" THEN c.tracers = {}
                         ELSE \E r \in 1 .. run : c.tracers \subseteq {<<test, r>>}
    BY DEF MeasuredAlone
  <2>1. /\ c.nginx = IF Name \in Userbpf THEN "agent" ELSE "plain"
        /\ \A t \in c.tracers : \E r \in 1 .. run : t = <<test, r>>
        /\ OnePerTest(c.tracers)
    BY DEF Known, MeasuredKnown, Stale
  <2>2. c.tracers \subseteq Tracers
    BY DEF Typed, TypeOK
  <2>3. CASE c.tracers = {}
    <3>1. 1 \in 1 .. run
      BY DEF Known, Machine, Typed, TypeOK
    <3> QED BY <2>1, <2>3, <3>1
  <2>4. CASE c.tracers # {}
    <3>1. PICK r \in 1 .. run : <<test, r>> \in c.tracers
      BY <2>1, <2>4
    <3>2. c.tracers \subseteq {<<test, r>>}
      BY <2>1, <3>1 DEF OnePerTest
    <3>3. Name # "native"
      BY <2>2, <3>1, Names DEF Tracers, Name, Typed, TypeOK
    <3> QED BY <2>1, <3>2, <3>3
  <2> QED BY <2>3, <2>4
<1> QED BY InitTyped, StepTyped, InitKnown, StepKnown, <1>1, PTL DEF Spec

(* A userbpf run finds the port free, and for root the machine without     *)
(* tracers: the early returns that leave nginx running also skip the       *)
(* userbpf tests, and each run of those ends in a clean-up.                *)
THEOREM StartsClean == Spec => []CleanStart
<1>1. Typed /\ Known => CleanStart
  <2> SUFFICES ASSUME Typed, Known, phase = "runs", Name \in Userbpf
               PROVE  nginx = "none" /\ (AsRoot => tracers = {})
    BY DEF CleanStart
  <2>1. nginx = "none"
    BY DEF Known, Machine
  <2>2. ~own
    BY DEF Typed, Marks
  <2>3. AsRoot => tracers = {}
    BY <2>2 DEF Known, OnMachine, Stale, Late
  <2> QED BY <2>1, <2>3
<1> QED BY InitTyped, StepTyped, InitKnown, StepKnown, <1>1, PTL DEF Spec
=============================================================================
