---------------------------- MODULE DelayedFsync ----------------------------
(***************************************************************************)
(* The delayed-fsync extension (delayed-fsync/redis.bpf.c) in a server     *)
(* whose main thread writes the append-only file and calls fdatasync after *)
(* every write before it replies (appendfsync always), while other threads *)
(* of the process may call fdatasync on other files: the hook sits on the  *)
(* C library's fdatasync and runs in whichever thread calls it.            *)
(*                                                                         *)
(* The unit here is the write: one event-loop turn of the server, with     *)
(* the updates of every client it served in that turn.                     *)
(*                                                                         *)
(* The io_uring helpers (1006, 1008, 1009, 1010) belong to bpftime.  They  *)
(* are modelled by what the extension needs of them and by the reference   *)
(* code kept in poc-iouring-minimal/fsync_write.c: one global ring, an     *)
(* unordered set of requests in flight, a counter of unseen completions    *)
(* that does not say whose they are, nor whether they succeeded.  The ring *)
(* has a single issuer (line 39), the main thread, whose start hook made   *)
(* it: what another thread submits is refused, an error the hook does not  *)
(* look at, and its entry stays in the queue until the main thread submits *)
(* its next one.  Nor do the helpers lock: two threads may see the same    *)
(* completion (49, 54) or write the same entry (26).                       *)
(***************************************************************************)
EXTENDS Integers, FiniteSets

CONSTANTS Callers,      \* threads of the server that call fdatasync
          Main,         \* the one that writes the append-only file
          RingEntries,  \* room in the submission queue
          MaxWrites,    \* bound: length of the log
          FsyncMayFail, \* may the kernel report an error?
          MayRestart    \* may the server process end and start again?

ASSUME CallersAssumption == IsFiniteSet(Callers) /\ Main \in Callers
ASSUME RingAssumption == RingEntries \in Nat /\ Cardinality(Callers) <= RingEntries
ASSUME BoundAssumption == MaxWrites \in Nat
ASSUME EnvAssumption == FsyncMayFail \in BOOLEAN /\ MayRestart \in BOOLEAN

VARIABLES
  up,            \* the server process runs and start_config has run in it
  pc,            \* pc[c]: where thread c is
  successful_writeback_count,
  inflight,      \* log lengths that submitted fsyncs of the log will cover
  inflightOther, \* submitted fsyncs of other files
  queue,         \* entries of other threads whose submission was refused
  cq,            \* completions nobody has seen
  clash,         \* two threads of this server met inside a helper
  written, acked, durable, base,   \* see DurableLog
  failed         \* an fsync of the log has reported an error

ring == <<inflight, inflightOther, queue, cq>>
log  == <<written, acked, durable, base, failed>>
vars == <<up, pc, successful_writeback_count, ring, clash, log>>

Larger(a, b) == IF a >= b THEN a ELSE b

-----------------------------------------------------------------------------

Init == /\ up = FALSE
        /\ pc = [c \in Callers |-> "idle"]
        /\ successful_writeback_count = 0
        /\ inflight = {} /\ inflightOther = 0 /\ queue = 0 /\ cq = 0
        /\ clash = FALSE
        /\ written = 0 /\ acked = 0 /\ durable = 0 /\ base = 0
        /\ failed = FALSE

StartConfigNoReset ==
  /\ ~up
  /\ up' = TRUE
  /\ base' = written
  /\ clash' = FALSE
  /\ UNCHANGED <<pc, successful_writeback_count, ring, written, acked, durable,
                 failed>>

(* initServerConfig is entered: the hook makes the ring and resets the     *)
(* count, which the maps of the loader keep across servers.                *)
StartConfig ==
  /\ ~up
  /\ up' = TRUE
  /\ successful_writeback_count' = -1
  /\ base' = written
  /\ clash' = FALSE
  /\ UNCHANGED <<pc, ring, written, acked, durable, failed>>

(* The server's own write of its buffer; aofWrite is not hooked. *)
AofWrite ==
  /\ up /\ pc[Main] = "idle"
  /\ written < MaxWrites
  /\ written' = written + 1
  /\ pc' = [pc EXCEPT ![Main] = "call"]
  /\ UNCHANGED <<up, successful_writeback_count, ring, clash, acked, durable, base,
                 failed>>

(* Another thread is about to call fdatasync on a file of its own. *)
OtherCall(c) ==
  /\ up /\ c # Main /\ pc[c] = "idle"
  /\ pc' = [pc EXCEPT ![c] = "call"]
  /\ UNCHANGED <<up, successful_writeback_count, ring, clash, log>>

EnterNoWait(c) ==
  /\ pc[c] = "call"
  /\ pc' = [pc EXCEPT ![c] = "submit"]
  /\ UNCHANGED <<up, successful_writeback_count, ring, clash, log>>

(* fdatasync is entered: the count says whether there is one to wait for. *)
StartFsync(c) ==
  /\ pc[c] = "call"
  /\ pc' = [pc EXCEPT ![c] = IF successful_writeback_count = 0 THEN "wait"
                                                               ELSE "submit"]
  /\ UNCHANGED <<up, successful_writeback_count, ring, clash, log>>

(* Is another thread between the same two lines of a helper? *)
Rival(c) == \E o \in Callers \ {c} : pc[o] = pc[c]

WaitDoesNotBlock(c) ==
  /\ pc[c] = "wait"
  /\ pc' = [pc EXCEPT ![c] = "seen"]
  /\ clash' = (clash \/ \E o \in Callers \ {c} : pc[o] = "seen")
  /\ UNCHANGED <<up, successful_writeback_count, ring, log>>

(* io_uring_wait_and_seen, first part: blocks until there is a completion, *)
(* any.  Another thread that is past it may be looking at the same one;    *)
(* from then on the indices of the ring are not to be trusted, and the     *)
(* wait may pass without a completion.                                     *)
Wait(c) ==
  /\ pc[c] = "wait"
  /\ cq > 0 \/ clash
  /\ pc' = [pc EXCEPT ![c] = "seen"]
  /\ clash' = (clash \/ \E o \in Callers \ {c} : pc[o] = "seen")
  /\ UNCHANGED <<up, successful_writeback_count, ring, log>>

(* Second part: the completion is taken from the ring. *)
Seen(c) ==
  /\ pc[c] = "seen"
  /\ cq' \in IF clash THEN {cq, Larger(cq - 1, 0)} ELSE {cq - 1}
  /\ pc' = [pc EXCEPT ![c] = "submit"]
  /\ UNCHANGED <<up, successful_writeback_count, inflight, inflightOther, queue, clash,
                 log>>

(* The count is cleared, the fsync put in the queue and submitted, and     *)
(* fdatasync returns 0.  The main thread submits all of the queue, another *)
(* thread none of it.  An entry is lost when the queue is full, or when a  *)
(* second thread is putting one in at the same place.                      *)
SubmitFsync(c) ==
  /\ pc[c] = "submit"
  /\ successful_writeback_count' = 0
  /\ \E kept \in BOOLEAN :
       /\ IF kept THEN queue < RingEntries ELSE queue = RingEntries \/ Rival(c)
       /\ clash' = (clash \/ (~kept /\ queue < RingEntries))
       /\ IF c = Main
          THEN /\ inflight' = IF kept THEN inflight \cup {written} ELSE inflight
               /\ inflightOther' = inflightOther + queue
               /\ queue' = 0
          ELSE /\ queue' = IF kept THEN queue + 1 ELSE queue
               /\ UNCHANGED <<inflight, inflightOther>>
  /\ pc' = [pc EXCEPT ![c] = IF c = Main THEN "reply" ELSE "idle"]
  /\ UNCHANGED <<up, cq, log>>

(* The server replies to the clients whose updates the write carried. *)
Reply ==
  /\ pc[Main] = "reply"
  /\ acked' = written
  /\ pc' = [pc EXCEPT ![Main] = "idle"]
  /\ UNCHANGED <<up, successful_writeback_count, ring, clash, written, durable, base,
                 failed>>

-----------------------------------------------------------------------------
(* The kernel.  An fsync that ends well makes the log durable up to the    *)
(* length it had when the fsync was submitted, at least; what writeback    *)
(* adds is KernelWriteback.  After a failed one the pages it could not     *)
(* write are lost, and no later fsync brings the prefix any further.       *)

CompleteFsync(n) ==
  /\ n \in inflight
  /\ inflight' = inflight \ {n}
  /\ cq' = cq + 1
  /\ durable' = IF failed THEN durable ELSE Larger(durable, n)
  /\ UNCHANGED <<up, pc, successful_writeback_count, inflightOther, queue, clash,
                 written, acked, base, failed>>

FailFsync(n) ==
  /\ FsyncMayFail
  /\ n \in inflight
  /\ inflight' = inflight \ {n}
  /\ cq' = cq + 1
  /\ failed' = TRUE
  /\ UNCHANGED <<up, pc, successful_writeback_count, inflightOther, queue, clash,
                 written, acked, durable, base>>

CompleteOther ==
  /\ inflightOther > 0
  /\ inflightOther' = inflightOther - 1
  /\ cq' = cq + 1
  /\ UNCHANGED <<up, pc, successful_writeback_count, inflight, queue, clash, log>>

KernelWriteback ==
  /\ ~failed
  /\ \E n \in durable + 1 .. written : durable' = n
  /\ UNCHANGED <<up, pc, successful_writeback_count, ring, clash, written, acked, base,
                 failed>>

(* The process is gone, and with it its ring and the requests in it. *)
ProcessEnds ==
  /\ up' = FALSE
  /\ pc' = [c \in Callers |-> "idle"]
  /\ inflight' = {} /\ inflightOther' = 0 /\ queue' = 0 /\ cq' = 0

(* The server exits or is killed; the kernel and its page cache live on,   *)
(* and so do the maps of the loader with the count.                        *)
Kill ==
  /\ MayRestart /\ up
  /\ ProcessEnds
  /\ UNCHANGED <<successful_writeback_count, clash, log>>

(* The machine goes down: the log is what the disk holds. *)
PowerFail ==
  /\ MayRestart
  /\ ProcessEnds
  /\ successful_writeback_count' = 0
  /\ written' = durable /\ acked' = durable /\ base' = durable
  /\ failed' = FALSE /\ clash' = FALSE
  /\ UNCHANGED durable

-----------------------------------------------------------------------------

Thread(c) == \/ OtherCall(c)
             \/ StartFsync(c)
             \/ Wait(c)
             \/ Seen(c)
             \/ SubmitFsync(c)

Kernel == \/ \E n \in inflight : CompleteFsync(n) \/ FailFsync(n)
          \/ CompleteOther

Next == \/ StartConfig
        \/ AofWrite
        \/ Reply
        \/ \E c \in Callers : Thread(c)
        \/ Kernel
        \/ KernelWriteback
        \/ Kill
        \/ PowerFail

(* Threads that are running are scheduled, and the kernel answers every    *)
(* request it was given.  Nobody has to call fdatasync.  Completions are   *)
(* handed to one of the threads that wait for them, so a thread that keeps *)
(* meeting an unseen completion gets one in the end.                       *)
Fairness == /\ WF_vars(StartConfig)
            /\ WF_vars(Reply)
            /\ \A c \in Callers : /\ WF_vars(StartFsync(c))
                                  /\ SF_vars(Wait(c))
                                  /\ WF_vars(Seen(c))
                                  /\ WF_vars(SubmitFsync(c))
            /\ WF_vars(Kernel)

Spec == Init /\ [][Next]_vars
FairSpec == Spec /\ Fairness

-----------------------------------------------------------------------------
(* Properties                                                              *)

(* Every variable has its type: the log's lengths are ordered as lengths   *)
(* of prefixes are, and the count takes the two values the hooks give it.  *)
TypeOK ==
  /\ up \in BOOLEAN
  /\ pc \in [Callers -> {"idle", "call", "wait", "seen", "submit", "reply"}]
  /\ successful_writeback_count \in {-1, 0}
  /\ inflight \in SUBSET (0 .. written)
  /\ inflightOther \in Nat /\ queue \in 0 .. RingEntries /\ cq \in Nat
  /\ written \in Nat /\ acked \in 0 .. written /\ durable \in 0 .. written
  /\ base \in 0 .. written
  /\ failed \in BOOLEAN /\ clash \in BOOLEAN

Safe == Larger(durable, base)
Submitters == {c \in Callers : pc[c] = "submit"}
Waiters == {c \in Callers : pc[c] = "wait"}
Outstanding == Cardinality(inflight) + inflightOther + queue + cq

(* No fsync has failed, and no two threads have met inside a helper. *)
Sound == ~failed /\ ~clash

WrittenLossBound == Sound => written - Safe <= Cardinality(Callers) + 1
AckedLossBound == Sound => acked - Safe <= Cardinality(Callers)

(* Of the writes the running server made, a power failure takes one for    *)
(* each thread that calls fdatasync and the one being flushed: two in the  *)
(* server with a single caller.  Of those it acknowledged it takes one for *)
(* each calling thread: the hook answers before the fsync it submits is    *)
(* done.  Holds until an fsync fails, since nothing reads the result of a  *)
(* completion, and until two threads meet inside a helper.                 *)
LossBound == WrittenLossBound /\ AckedLossBound

(* A thread that waits has a completion coming: one is unseen or in        *)
(* flight, or another thread is past its wait and will submit the next.    *)
(* If the count ever said 0 with nothing outstanding, fdatasync would      *)
(* never return.  It does say so when another thread's submission has been *)
(* refused: the completion that is waited for is then that of an entry in  *)
(* the queue, which only the main thread can submit.  Without another      *)
(* thread, or until its first request, the queue is empty.                 *)
NoHang == ~clash /\ queue = 0 /\ Waiters # {} => Outstanding > 0 \/ Submitters # {}

(* The hook never leaves more fsyncs behind than there are callers, with   *)
(* those that were refused, so the ring cannot fill up however long the    *)
(* server runs.                                                            *)
RingBound == ~clash => Outstanding + Cardinality(Submitters) <= Cardinality(Callers)

(* A write is acknowledged, unless the process ends first, a request of    *)
(* another thread is refused, or two threads meet inside a helper.         *)
EveryWriteAcked ==
  (pc[Main] = "call") ~> \/ pc[Main] = "idle" /\ (acked = written \/ ~up)
                         \/ queue > 0 \/ clash

(* What the bounds rest on, and every step keeps.  Each fsync that is      *)
(* outstanding belongs to a thread that got past the count once, and the   *)
(* count says 0 only when there is one to wait for.  A completion that is  *)
(* seen is there until the thread that sees it takes it.                   *)
CountInv ==
  /\ ~up => Outstanding = 0 /\ \A c \in Callers : pc[c] = "idle"
  /\ ~clash => \A c \in Callers : pc[c] = "seen" => cq > 0 /\ ~Rival(c)
  /\ ~clash /\ successful_writeback_count = -1 => Outstanding = 0 /\ Waiters = {}
  /\ ~clash /\ up /\ successful_writeback_count = 0
       => Outstanding + Cardinality(Submitters) > 0

(* The length of the log that the server has called fdatasync for. *)
Flushed == IF pc[Main] \in {"call", "wait", "seen", "submit"} THEN written - 1
                                                              ELSE written

(* As long as Sound, a flushed length that is not safe is in flight. *)
LogInv ==
  up => /\ acked <= Flushed
        /\ Sound => Safe + 1 .. Flushed \subseteq inflight

IInv == TypeOK /\ CountInv /\ RingBound /\ LogInv /\ LossBound

(* "the system loses at most 2 updates" (README.md:27), taken at its word  *)
(* and with one update in a write.                                         *)
ReadmeLossBound == written - durable <= 2

(* The extension implements a log that loses what the bounds above say. *)
Promise == INSTANCE DurableLog WITH MaxPending <- Cardinality(Callers) + 1,
                                    MaxAckedLoss <- Cardinality(Callers),
                                    broken <- ~Sound
PromiseSpec == Promise!Spec
=============================================================================
