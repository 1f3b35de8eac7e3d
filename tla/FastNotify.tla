----------------------------- MODULE FastNotify -----------------------------
(***************************************************************************)
(* The fsync-fast-notify extension (fsync-fast-notify/redis.bpf.c): both   *)
(* the server's write to the append-only file and every fdatasync of the   *)
(* process become a request on one global io_uring ring, for which the     *)
(* hook waits before it says that all went well.  What it waits for is     *)
(* any completion of that ring.                                            *)
(*                                                                         *)
(* An update is one write of the server.  The helpers of bpftime are       *)
(* modelled as in DelayedFsync: the ring is the main thread's, an entry of *)
(* another thread stays in the queue until the main thread submits, and no *)
(* helper locks.  page and disk are sets, since requests that are in       *)
(* flight together execute in any order.                                   *)
(***************************************************************************)
EXTENDS Integers, FiniteSets

CONSTANTS Callers,    \* threads of the server that call fdatasync
          Main,       \* the one that writes the append-only file
          RingEntries, \* room in the submission queue
          MaxUpdates, \* bound: writes of the server
          IoMayFail   \* may the kernel report an error?

ASSUME CallersAssumption == IsFiniteSet(Callers) /\ Main \in Callers
ASSUME RingAssumption == RingEntries \in Nat /\ Cardinality(Callers) <= RingEntries
ASSUME BoundAssumption == MaxUpdates \in Nat
ASSUME EnvAssumption == IoMayFail \in BOOLEAN

VARIABLES
  up,             \* the server runs and its ring exists
  pc,             \* pc[c]: where thread c is
  inflight,       \* submitted requests of the main thread
  inflightOther,  \* submitted fsyncs of other files
  queue,          \* entries of other threads whose submission was refused
  cq,             \* completions nobody has seen
  clash,          \* two threads have met inside a helper
  issued, acked,  \* updates made; those the server has replied to
  page, disk,     \* updates in the file, and on disk
  failed,         \* a completion has reported an error
  shared          \* another thread has put a request on the ring

ring == <<inflight, inflightOther, queue, cq>>
file == <<page, disk, failed>>
vars == <<up, pc, ring, clash, issued, acked, file, shared>>

Request(o, n) == [op |-> o, upd |-> n]
Requests == [op : {"write", "fsync"}, upd : 1 .. MaxUpdates]

Init == /\ up = FALSE
        /\ pc = [c \in Callers |-> "idle"]
        /\ inflight = {} /\ inflightOther = 0 /\ queue = 0 /\ cq = 0
        /\ issued = 0 /\ acked = {}
        /\ page = {} /\ disk = {}
        /\ failed = FALSE /\ shared = FALSE /\ clash = FALSE

(* initServerConfig is entered: the hook makes the ring. *)
Start == /\ ~up
         /\ up' = TRUE
         /\ UNCHANGED <<pc, ring, clash, issued, acked, file, shared>>

(* The main thread adds a request, if there is room, and submits the queue. *)
Submit(r) ==
  /\ inflight' = IF queue < RingEntries THEN inflight \cup {r} ELSE inflight
  /\ inflightOther' = inflightOther + queue
  /\ queue' = 0
  /\ UNCHANGED <<cq, clash>>

(* aofWrite is entered: its bytes are submitted.  The call returns their   *)
(* number once a completion has been taken.                                *)
WriteHook ==
  /\ up /\ pc[Main] = "idle"
  /\ issued < MaxUpdates
  /\ issued' = issued + 1
  /\ Submit(Request("write", issued'))
  /\ pc' = [pc EXCEPT ![Main] = "in_write"]
  /\ UNCHANGED <<up, acked, file, shared>>

(* The server flushes what it takes for written. *)
FsyncHook ==
  /\ pc[Main] = "written"
  /\ Submit(Request("fsync", issued))
  /\ pc' = [pc EXCEPT ![Main] = "in_fsync"]
  /\ UNCHANGED <<up, issued, acked, file, shared>>

(* Another thread's entry gets into the queue and no further: the ring     *)
(* refuses the submission, and the hook waits all the same.  The entry is  *)
(* lost when the queue is full, or when two threads put one in the same    *)
(* place.                                                                  *)
OtherFsyncHook(c) ==
  /\ up /\ c # Main /\ pc[c] = "idle"
  /\ \E kept \in BOOLEAN :
       /\ kept => queue < RingEntries
       /\ queue' = IF kept THEN queue + 1 ELSE queue
       /\ clash' = (clash \/ (~kept /\ queue < RingEntries))
  /\ pc' = [pc EXCEPT ![c] = "in_fsync"]
  /\ shared' = TRUE
  /\ UNCHANGED <<up, inflight, inflightOther, cq, issued, acked, file>>

Waiting(c) == pc[c] \in {"in_write", "in_fsync"}
HasSeen(c) == pc[c] \in {"saw_write", "saw_fsync"}

(* The hook waits for a completion, any.  When another thread is looking   *)
(* at the same one the indices of the ring are not to be trusted from then *)
(* on, and a wait may pass without a completion.                           *)
Wait(c) ==
  /\ Waiting(c)
  /\ cq > 0 \/ clash
  /\ pc' = [pc EXCEPT ![c] = IF pc[c] = "in_write" THEN "saw_write" ELSE "saw_fsync"]
  /\ clash' = (clash \/ \E o \in Callers \ {c} : HasSeen(o))
  /\ UNCHANGED <<up, ring, issued, acked, file, shared>>

(* Where the thread is when its hook has returned. *)
After(c) == IF pc[c] = "saw_write" THEN "written"
            ELSE IF c = Main THEN "flushed" ELSE "idle"

Returns(c) ==
  /\ HasSeen(c)
  /\ pc' = [pc EXCEPT ![c] = After(c)]
  /\ UNCHANGED <<up, inflight, inflightOther, queue, clash, issued, acked, file, shared>>

SeenTwice(c) ==
  /\ cq' = cq - 2
  /\ Returns(c)

SeenKeeps(c) ==
  /\ cq' = cq
  /\ Returns(c)

(* The completion is taken from the ring, and the call returns success. *)
Seen(c) ==
  /\ cq' \in IF clash THEN {cq, IF cq > 0 THEN cq - 1 ELSE 0} ELSE {cq - 1}
  /\ Returns(c)

(* The server replies to the clients of the write it has flushed. *)
Reply ==
  /\ pc[Main] = "flushed"
  /\ acked' = acked \cup {issued}
  /\ pc' = [pc EXCEPT ![Main] = "idle"]
  /\ UNCHANGED <<up, ring, clash, issued, file, shared>>

-----------------------------------------------------------------------------
(* The kernel *)

Complete(r) ==
  /\ inflight' = inflight \ {r}
  /\ cq' = cq + 1
  /\ UNCHANGED <<up, pc, inflightOther, queue, clash, issued, acked, shared>>

Execute(r) ==
  /\ Complete(r)
  /\ IF r.op = "write" THEN page' = page \cup {r.upd} /\ UNCHANGED disk
                       ELSE disk' = disk \cup page /\ UNCHANGED page
  /\ UNCHANGED failed

FailIo(r) ==
  /\ IoMayFail
  /\ Complete(r)
  /\ failed' = TRUE
  /\ UNCHANGED <<page, disk>>

CompleteOther ==
  /\ inflightOther > 0
  /\ inflightOther' = inflightOther - 1
  /\ cq' = cq + 1
  /\ UNCHANGED <<up, pc, inflight, queue, clash, issued, acked, file, shared>>

Kernel == \/ \E r \in inflight : Execute(r) \/ FailIo(r)
          \/ CompleteOther

Writeback ==
  /\ \E n \in page \ disk : disk' = disk \cup {n}
  /\ UNCHANGED <<up, pc, ring, clash, issued, acked, page, failed, shared>>

(* The process ends, its ring with it; a power failure also takes what is  *)
(* not on disk.                                                            *)
Ends(lost) ==
  /\ up
  /\ up' = FALSE
  /\ pc' = [c \in Callers |-> "idle"]
  /\ inflight' = {} /\ inflightOther' = 0 /\ queue' = 0 /\ cq' = 0
  /\ clash' = FALSE
  /\ page' = page \ lost
  /\ UNCHANGED <<issued, acked, disk, failed, shared>>

Kill == Ends({})
PowerFail == Ends(page \ disk)

Next == \/ Start
        \/ WriteHook
        \/ FsyncHook
        \/ \E c \in Callers : OtherFsyncHook(c) \/ Wait(c) \/ Seen(c)
        \/ Reply
        \/ Kernel
        \/ Writeback
        \/ Kill
        \/ PowerFail

(* As in DelayedFsync: running threads are scheduled, the kernel answers,  *)
(* and a waiting thread that keeps meeting completions gets one.           *)
Fairness == /\ WF_vars(FsyncHook)
            /\ WF_vars(Reply)
            /\ \A c \in Callers : SF_vars(Wait(c)) /\ WF_vars(Seen(c))
            /\ WF_vars(Kernel)

Spec == Init /\ [][Next]_vars
FairSpec == Spec /\ Fairness

-----------------------------------------------------------------------------
(* Properties *)

(* Every variable has its type. *)
TypeOK ==
  /\ up \in BOOLEAN
  /\ pc \in [Callers -> {"idle", "in_write", "saw_write", "written", "in_fsync",
                         "saw_fsync", "flushed"}]
  /\ inflight \subseteq Requests /\ inflightOther \in Nat
  /\ queue \in 0 .. RingEntries /\ cq \in Nat
  /\ issued \in 0 .. MaxUpdates /\ acked \subseteq 1 .. MaxUpdates
  /\ pc[Main] # "idle" => issued > 0
  /\ page \subseteq 1 .. MaxUpdates /\ disk \subseteq page
  /\ failed \in BOOLEAN /\ shared \in BOOLEAN /\ clash \in BOOLEAN

(* As long as no other thread uses the ring and no request fails, a reply  *)
(* means that the update is on disk: nothing a crash takes was promised.   *)
AckedDurable == ~failed /\ ~shared => acked \subseteq disk

(* Waiting makes of the hooks what a write and an fsync without them are:  *)
(* no update that the server has replied to is missing from the disk, and  *)
(* what is on the disk stays there.                                        *)
Promise == INSTANCE SafeUpdates WITH made <- issued, told <- acked, safe <- disk,
                                     broken <- failed \/ shared, allowed <- 0
PromiseSpec == Promise!Spec

Outstanding == Cardinality(inflight) + inflightOther + queue + cq
Waiters == {c \in Callers : Waiting(c) \/ HasSeen(c)}

(* The ring and its queue owe just one completion to each thread that      *)
(* waits, however many they are: none is left over to make a later call    *)
(* return early, and while the queue is empty nobody waits for ever.  What *)
(* is owed may be the completion of a refused entry, and whom it is owed   *)
(* to is open: when another thread takes the completion of the main        *)
(* thread's request, what is left for the main thread is in the queue that *)
(* only the main thread submits.                                           *)
OneEach == ~clash => Outstanding = Cardinality(Waiters)

(* An update is replied to, unless the process ends, a request of another  *)
(* thread is refused, or two threads meet inside a helper.                 *)
EveryWriteAcked ==
  (pc[Main] = "in_write") ~> (issued \in acked \/ ~up \/ queue > 0 \/ clash)

(* What AckedDurable rests on: alone on the ring, the main thread only     *)
(* ever meets the completion of its own request.                           *)
OwnCompletion ==
  ~failed /\ ~shared =>
    /\ pc[Main] \in {"idle", "written", "flushed"} => inflight = {} /\ cq = 0
    /\ pc[Main] = "in_write" =>
         \/ inflight = {Request("write", issued)} /\ cq = 0
         \/ inflight = {} /\ cq = 1 /\ issued \in page
    /\ pc[Main] = "saw_write" => inflight = {} /\ cq = 1 /\ issued \in page
    /\ pc[Main] = "written" => issued \in page
    /\ pc[Main] = "in_fsync" =>
         /\ issued \in page
         /\ \/ inflight = {Request("fsync", issued)} /\ cq = 0
            \/ inflight = {} /\ cq = 1 /\ issued \in disk
    /\ pc[Main] = "saw_fsync" => inflight = {} /\ cq = 1 /\ issued \in disk
    /\ pc[Main] = "flushed" => issued \in disk

Alone ==
  ~shared => /\ inflightOther = 0 /\ queue = 0 /\ ~clash
             /\ \A c \in Callers \ {Main} : pc[c] = "idle"

(* A completion that is seen is there until the thread takes it. *)
SeenIsThere ==
  ~clash => \A c \in Callers :
              HasSeen(c) => cq > 0 /\ \A o \in Callers \ {c} : ~HasSeen(o)
=============================================================================
