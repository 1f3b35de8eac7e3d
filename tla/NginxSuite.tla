------------------------------ MODULE NginxSuite ------------------------------
(***************************************************************************)
(* The suite of syscount-nginx/benchmark.py: five tests, each of NumRuns   *)
(* runs of wrk against nginx.  native has no tracer; the kernel tests      *)
(* start nginx once and a tracer, syscount under sudo, for every run; the  *)
(* userbpf tests start both for every run, nginx with bpftime's agent.  A  *)
(* run is counted when wrk gives a rate and the tracer's log shows that    *)
(* the trace was effective.                                                *)
(*                                                                         *)
(* An action ends where the script blocks: at a sleep, or in a wait for a  *)
(* process.  The counters are those of the test at hand.  A tracer obeys a *)
(* SIGTERM that it gets, so that the SIGKILL after it is never sent.       *)
(***************************************************************************)
EXTENDS Integers, Sequences

CONSTANTS NumRuns,      \* NUM_RUNS
          AsRoot,       \* the script runs as root
          AllowMissing  \* ALLOW_MISSING_USERBPF

ASSUME NumRunsAssumption == NumRuns \in Nat \ {0}
ASSUME FlagsAssumption == AsRoot \in BOOLEAN /\ AllowMissing \in BOOLEAN

Tests == <<"native", "kernel_targeted", "kernel_untargeted",
           "userbpf_targeted", "userbpf_untargeted">>
Kernel == {"kernel_targeted", "kernel_untargeted"}
Userbpf == {"userbpf_targeted", "userbpf_untargeted"}
Tracers == (2 .. 5) \X (1 .. NumRuns)

VARIABLES
  files,    \* which of "syscount" and "bpftime" have been built
  test,     \* index of the test in Tests
  run,      \* runs of it that are over
  phase,    \* where the script is
  nginx,    \* "none", "plain", or "agent": with bpftime's agent in it
  pid,      \* pgrep has found nginx
  tracers,  \* the tracers alive, by test and run
  own,      \* the run has started its tracer
  rate,     \* what the run has measured: {} or the circumstances
  valid,    \* valid_runs
  failed,   \* failed_attempts
  counted,  \* the circumstances of the runs counted in this test
  lacking,  \* earlier tests without a result
  status    \* exit status, -1: none yet

suiteVars == <<test, lacking, status>>
testVars == <<run, valid, failed, counted>>
processVars == <<nginx, pid, tracers>>
runVars == <<own, rate>>
vars == <<files, suiteVars, testVars, processVars, runVars, phase>>

Init == /\ files \in SUBSET {"syscount", "bpftime"}
        /\ test = 1 /\ lacking = {} /\ status = -1
        /\ run = 0 /\ valid = 0 /\ failed = 0 /\ counted = {}
        /\ nginx = "none" /\ pid = FALSE /\ tracers = {}
        /\ own = FALSE /\ rate = {}
        /\ phase = "begin"

Name == Tests[test]
Tracer == <<test, run + 1>>

-----------------------------------------------------------------------------
(* Processes *)

NginxCrashes == /\ nginx # "none" /\ phase # "over"
                /\ nginx' = "none"
                /\ UNCHANGED <<files, suiteVars, testVars, pid, tracers, runVars,
                               phase>>

(* It could not load, or its duration is over. *)
TracerEnds(t) == /\ phase # "over"
                 /\ tracers' = tracers \ {t}
                 /\ UNCHANGED <<files, suiteVars, testVars, nginx, pid, runVars,
                                phase>>

(* cleanup_processes: kill, and after a second kill -9, of everything that *)
(* is called nginx or syscount.  syscount belongs to root; a kill that is  *)
(* not permitted fails silently, and the attempts with sudo are only made  *)
(* when subprocess.run raises.                                             *)
CleanUp == /\ nginx' = "none"
           /\ tracers' = IF AsRoot THEN {} ELSE tracers

-----------------------------------------------------------------------------
(* The tests *)

MarkFailed == failed' = failed + 1 /\ UNCHANGED <<valid, counted>>

NextTest ==
  /\ test' = IF test = 5 THEN 5 ELSE test + 1
  /\ phase' = IF test = 5 THEN "report" ELSE "begin"
  /\ lacking' = IF valid = 0 THEN lacking \cup {Name} ELSE lacking
  /\ run' = 0 /\ valid' = 0 /\ failed' = 0 /\ counted' = {}
  /\ UNCHANGED status

(* start_nginx, which cleans up first.  The kernel tests return when there *)
(* is no tracer to run, and leave nginx to the next clean-up.              *)
StartNginx ==
  /\ phase = "begin" /\ Name \notin Userbpf
  /\ tracers' = IF AsRoot THEN {} ELSE tracers
  /\ \/ /\ nginx' = "plain" /\ pid' \in BOOLEAN
        /\ IF Name \in Kernel /\ "syscount" \notin files
             THEN NextTest
             ELSE phase' = "runs" /\ UNCHANGED <<suiteVars, testVars>>
     \/ /\ nginx' = "none" /\ pid' = FALSE
        /\ NextTest
  /\ UNCHANGED <<files, runVars>>

BeginWithAgent ==
  /\ phase = "begin" /\ Name \in Userbpf
  /\ IF "bpftime" \in files
       THEN phase' = "runs" /\ UNCHANGED <<suiteVars, testVars>>
       ELSE NextTest
  /\ UNCHANGED <<files, processVars, runVars>>

BeginUserbpf ==
  /\ phase = "begin" /\ Name \in Userbpf
  /\ IF files = {"syscount", "bpftime"}
       THEN phase' = "runs" /\ UNCHANGED <<suiteVars, testVars>>
       ELSE NextTest
  /\ UNCHANGED <<files, processVars, runVars>>

(* What is on the machine when wrk has measured. *)
Circumstances == [nginx |-> nginx, tracers |-> tracers]

(* wrk against nginx alone. *)
NativeRun ==
  /\ phase = "runs" /\ Name = "native" /\ run < NumRuns
  /\ run' = run + 1
  /\ \/ /\ nginx # "none"
        /\ valid' = valid + 1 /\ counted' = counted \cup {Circumstances}
        /\ UNCHANGED failed
     \/ MarkFailed
  /\ UNCHANGED <<files, suiteVars, processVars, runVars, phase>>

(* Without nginx's pid a kernel run is passed over; nothing counts it. *)
PassOver ==
  /\ phase = "runs" /\ Name \in Kernel /\ run < NumRuns /\ ~pid
  /\ run' = run + 1
  /\ UNCHANGED <<files, suiteVars, valid, failed, counted, processVars, runVars,
                 phase>>

(* nginx with the agent; it fails when its port is taken, among others. *)
StartAgentNginx ==
  /\ phase = "runs" /\ Name \in Userbpf /\ run < NumRuns
  /\ \/ /\ nginx = "none" /\ nginx' = "agent"
        /\ \/ pid' = TRUE /\ phase' = "tracing" /\ UNCHANGED failed
           \/ /\ pid' = FALSE
              /\ IF Name = "userbpf_targeted"
                   THEN phase' = "ending" /\ failed' = failed + 1
                   ELSE phase' = "tracing" /\ UNCHANGED failed
     \/ /\ phase' = "ending" /\ failed' = failed + 1
        /\ UNCHANGED <<nginx, pid>>
  /\ UNCHANGED <<files, suiteVars, run, valid, counted, tracers, runVars>>

(* The finally block of a run comes next: userbpf ends nginx first. *)
Ending == IF Name \in Userbpf THEN "ending" ELSE "waiting"

StartTracer ==
  /\ \/ phase = "runs" /\ Name \in Kernel /\ run < NumRuns /\ pid
     \/ phase = "tracing"
  /\ \/ /\ tracers' = tracers \cup {Tracer} /\ own' = TRUE
        /\ phase' = "started"
        /\ UNCHANGED testVars
     \/ /\ phase' = Ending
        /\ MarkFailed
        /\ UNCHANGED <<run, tracers, own>>
  /\ UNCHANGED <<files, suiteVars, nginx, pid, rate>>

PollUncounted ==
  /\ phase = "started"
  /\ phase' = IF Tracer \in tracers THEN "measuring" ELSE Ending
  /\ UNCHANGED <<files, suiteVars, testVars, processVars, runVars>>

(* After the startup delay: is the tracer still there? *)
Poll ==
  /\ phase = "started"
  /\ IF Tracer \in tracers
       THEN phase' = "measuring" /\ UNCHANGED testVars
       ELSE phase' = Ending /\ MarkFailed /\ UNCHANGED run
  /\ UNCHANGED <<files, suiteVars, processVars, runVars>>

WrkCounts ==
  /\ phase = "measuring" /\ nginx # "none"
  /\ phase' = Ending
  /\ rate' = {Circumstances}
  /\ valid' = valid + 1 /\ counted' = counted \cup {Circumstances}
  /\ UNCHANGED <<files, suiteVars, run, failed, processVars, own>>

(* wrk gives a rate, or fails, does not end in time, or prints none. *)
Wrk ==
  /\ phase = "measuring"
  /\ phase' = Ending
  /\ \/ /\ nginx # "none"
        /\ rate' = {Circumstances}
        /\ UNCHANGED testVars
     \/ /\ MarkFailed
        /\ UNCHANGED <<run, rate>>
  /\ UNCHANGED <<files, suiteVars, processVars, own>>

(* nginx is terminated; when it does not obey, the clean-up kills it. *)
EndAgentNginx ==
  /\ phase = "ending"
  /\ nginx' \in {"none", nginx}
  /\ phase' = "waiting"
  /\ UNCHANGED <<files, suiteVars, testVars, pid, tracers, runVars>>

(* summarize_syscount_log decides whether the trace was effective; extra   *)
(* is what the wait has marked failed.                                     *)
Summarize(extra) ==
  /\ \/ /\ rate # {}
        /\ valid' = valid + 1 /\ counted' = counted \cup rate
        /\ failed' = failed + extra
     \/ /\ failed' = failed + extra + (IF rate # {} THEN 1 ELSE 0)
        /\ UNCHANGED <<valid, counted>>
  /\ own' = FALSE /\ rate' = {}
  /\ run' = run + 1
  /\ phase' = IF Name \in Userbpf THEN "cleaning" ELSE "runs"
  /\ UNCHANGED suiteVars

TracerDone ==
  /\ phase = "waiting" /\ (own => Tracer \notin tracers)
  /\ Summarize(0)
  /\ UNCHANGED <<files, processVars>>

NeverOverdue == FALSE

(* The wait ends after SYSCOUNT_TIMEOUT. *)
Overdue == own /\ Tracer \in tracers

OnlyMarks == UNCHANGED tracers
Terminates == tracers' = tracers \ {Tracer}

(* The tracer is terminated; for another user than root terminate raises,  *)
(* which ends a kernel test, and in a userbpf test the suite.              *)
TracerTimeout ==
  /\ phase = "waiting" /\ Overdue
  /\ IF AsRoot
       THEN Terminates /\ Summarize(1)
       ELSE /\ MarkFailed
            /\ own' = FALSE /\ rate' = {}
            /\ IF Name \in Userbpf
                 THEN phase' = "final" /\ status' = 0
                 ELSE phase' = "closing" /\ UNCHANGED status
            /\ UNCHANGED <<run, test, lacking, tracers>>
  /\ UNCHANGED <<files, nginx, pid>>

CleanAfterRun ==
  /\ phase = "cleaning"
  /\ CleanUp
  /\ phase' = "runs"
  /\ UNCHANGED <<files, suiteVars, testVars, pid, runVars>>

RunsOver ==
  /\ phase = "runs" /\ run = NumRuns
  /\ IF Name \in Userbpf
       THEN NextTest
       ELSE phase' = "closing" /\ UNCHANGED <<suiteVars, testVars>>
  /\ UNCHANGED <<files, processVars, runVars>>

(* The finally block of a test that has started nginx itself. *)
CloseTest ==
  /\ phase = "closing"
  /\ nginx' = "none"
  /\ NextTest
  /\ UNCHANGED <<files, pid, tracers, runVars>>

Excused == IF AllowMissing THEN Userbpf ELSE {}

(* The reports, and the exit status; an exception of the reports is        *)
(* printed and leaves the status at 0.                                     *)
Report ==
  /\ phase = "report"
  /\ phase' = "final"
  /\ status' \in {0, IF lacking \subseteq Excused THEN 0 ELSE 1}
  /\ UNCHANGED <<files, test, lacking, testVars, processVars, runVars>>

Exit ==
  /\ phase = "final"
  /\ CleanUp
  /\ phase' = "over"
  /\ UNCHANGED <<files, suiteVars, testVars, pid, runVars>>

-----------------------------------------------------------------------------
ScriptStep ==
  \/ StartNginx \/ BeginUserbpf \/ NativeRun \/ PassOver \/ StartAgentNginx
  \/ StartTracer \/ Poll \/ Wrk \/ EndAgentNginx \/ TracerDone \/ TracerTimeout
  \/ CleanAfterRun \/ RunsOver \/ CloseTest \/ Report \/ Exit

Next == NginxCrashes \/ (\E t \in tracers : TracerEnds(t)) \/ ScriptStep

(* Every call that the script waits for ends, or its timeout does. *)
Spec == Init /\ [][Next]_vars /\ WF_vars(ScriptStep)

-----------------------------------------------------------------------------
(* Properties *)

(* Type invariant; a run is counted valid once at most, and failed twice   *)
(* at most.                                                                *)
TypeOK ==
  /\ files \subseteq {"syscount", "bpftime"}
  /\ test \in 1 .. 5 /\ run \in 0 .. NumRuns
  /\ phase \in {"begin", "runs", "tracing", "started", "measuring", "ending",
                "waiting", "cleaning", "closing", "report", "final", "over"}
  /\ nginx \in {"none", "plain", "agent"} /\ pid \in BOOLEAN
  /\ tracers \subseteq Tracers /\ own \in BOOLEAN
  /\ \A c \in rate \cup counted :
       c.nginx \in {"none", "plain", "agent"} /\ c.tracers \subseteq Tracers
  /\ valid \in 0 .. run /\ failed \in 0 .. 2 * (run + 1)
  /\ lacking \subseteq {Tests[i] : i \in 1 .. 5} /\ status \in {-1, 0, 1}

(* A counted run has been measured as its test says: native with no tracer *)
(* at all, a traced run with no other tracer than its own, whatever the    *)
(* runs before it left behind; and with the nginx of its test.             *)
MeasuredAlone ==
  \A c \in counted :
    /\ c.nginx = IF Name \in Userbpf THEN "agent" ELSE "plain"
    /\ IF Name = "native" THEN c.tracers = {}
       ELSE \E r \in 1 .. run : c.tracers \subseteq {<<test, r>>}

(* No run gets lost: every run that is over has been counted, valid or     *)
(* failed, but for the runs of a kernel test that has not found nginx's    *)
(* pid.                                                                    *)
RunsAccounted ==
  (Name \in Kernel => pid) => valid + failed >= run

(* A userbpf run starts its own nginx without a clean-up before it: the    *)
(* port must be free, whichever way the kernel tests and the runs before   *)
(* it have ended, or every run fails; for root no tracer is left either.   *)
CleanStart ==
  phase = "runs" /\ Name \in Userbpf =>
    nginx = "none" /\ (AsRoot => tracers = {})

(* cleanup_processes promises to "Kill any running nginx or syscount       *)
(* processes": when the script has exited none is left.                    *)
NothingLeft == phase = "over" => nginx = "none" /\ tracers = {}

(* The suite comes to an end, with an exit status. *)
SuiteEnds == <>(phase = "over" /\ status \in {0, 1})
=============================================================================
