------------------------------- MODULE BatchIo -------------------------------
(***************************************************************************)
(* The batching extensions (batch_process/redis.bpf.c and                  *)
(* poc-iouring-minimal/redis.bpf.c).  One thread calls write and fsync in  *)
(* turn: the loop of fsync_write.c, or Redis' main thread with appendfsync *)
(* always.  Both calls are overridden: the hook puts an entry in the ring  *)
(* and says that all went well; the call that finds the batch full submits *)
(* it and waits for as many completions as it has counted entries.         *)
(*                                                                         *)
(* The hooks are those of batch_process.  In poc-iouring-minimal the write *)
(* hook takes calls of five bytes only, which are all that its program     *)
(* makes on the file; others go by the hook.  The calls of fdatasync that  *)
(* Redis' background threads may make are not in this model.               *)
(*                                                                         *)
(* An update is one call of write.  Nothing links the entries, so the      *)
(* kernel may execute those of a batch in any order.                       *)
(***************************************************************************)
EXTENDS Integers, FiniteSets

CONSTANTS PatchSizes,   \* values the global patch_size may be built with
          RingEntries,  \* entries the submission queue has room for
          MaxUpdates,   \* bound: updates the program makes
          MaxStarts,    \* bound: times the program is started
          IoMayFail     \* may the kernel report an error?

ASSUME SizeAssumption == PatchSizes \subseteq Nat /\ RingEntries \in Nat
ASSUME BoundAssumption == MaxUpdates \in Nat /\ MaxStarts \in Nat
ASSUME EnvAssumption == IoMayFail \in BOOLEAN

VARIABLES
  up, starts,                 \* the program runs; how often it was started
  patch_size, current_count,  \* the globals of the extension
  call,                       \* the call the program makes next, or is in
  waits,                      \* completions that call still waits for
  sq, inflight, cq,           \* entries queued, entries submitted, completions
  issued, acked,              \* updates made; updates whose fsync has returned
  page, disk,                 \* updates in the page cache, and on disk
  failed                      \* a completion has reported an error

ring == <<sq, inflight, cq>>
file == <<page, disk, failed>>
vars == <<up, starts, patch_size, current_count, call, waits, ring, issued, acked, file>>

Entry(o, n) == [op |-> o, upd |-> n]
Entries == [op : {"write", "fsync"}, upd : 1 .. MaxUpdates]

Init == /\ up = FALSE /\ starts = 0
        /\ patch_size \in PatchSizes
        /\ current_count = 0
        /\ call = "write" /\ waits = 0
        /\ sq = {} /\ inflight = {} /\ cq = 0
        /\ issued = 0 /\ acked = 0
        /\ page = {} /\ disk = {}
        /\ failed = FALSE

(* The program starts: the hook makes a new ring, and touches no global. *)
Start ==
  /\ ~up /\ starts < MaxStarts
  /\ up' = TRUE /\ starts' = starts + 1
  /\ UNCHANGED <<patch_size, current_count, call, waits, ring, issued, acked, file>>

(* io_uring_submit_write and io_uring_submit_fsync: without room for the   *)
(* entry they return an error that the hook does not look at.              *)
Queued(e) == IF Cardinality(sq) < RingEntries THEN sq \cup {e} ELSE sq

(* What follows the call o: after its write the program calls fsync, and   *)
(* when its fsync returns, it takes all it has written for safe.           *)
Returned(o) == /\ call' = IF o = "write" THEN "fsync" ELSE "write"
               /\ acked' = IF o = "write" THEN acked ELSE issued

FullOneLate == current_count > patch_size

(* The test both hooks begin with (they write it the other way round). *)
IsFull == current_count >= patch_size

HookWithoutWait(o, e) ==
  /\ current_count' = IF IsFull THEN 0 ELSE current_count + 1
  /\ sq' = IF IsFull THEN {} ELSE Queued(e)
  /\ inflight' = IF IsFull THEN inflight \cup Queued(e) ELSE inflight
  /\ Returned(o)
  /\ UNCHANGED waits

(* The body of both hooks: queue the entry, count it, and if the batch is  *)
(* full submit it and start to wait for all that was counted.  The guard   *)
(* __n == 5 of poc-iouring-minimal holds of the calls modelled.            *)
Hook(o, e) ==
  /\ current_count' = current_count + 1
  /\ IF ~IsFull
     THEN /\ sq' = Queued(e)
          /\ Returned(o)
          /\ UNCHANGED <<waits, inflight>>
     ELSE /\ sq' = {}
          /\ inflight' = inflight \cup Queued(e)
          /\ waits' = current_count'
          /\ UNCHANGED <<call, acked>>

WriteHook ==
  /\ up /\ call = "write" /\ waits = 0
  /\ issued < MaxUpdates
  /\ issued' = issued + 1
  /\ Hook("write", Entry("write", issued + 1))
  /\ UNCHANGED <<up, starts, patch_size, cq, file>>

FsyncHook ==
  /\ up /\ call = "fsync" /\ waits = 0
  /\ UNCHANGED issued
  /\ Hook("fsync", Entry("fsync", issued))
  /\ UNCHANGED <<up, starts, patch_size, cq, file>>

WaitDoesNotBlock ==
  /\ waits > 0
  /\ cq' = cq - 1
  /\ waits' = waits - 1
  /\ IF waits = 1 THEN current_count' = 0 /\ Returned(call)
                  ELSE UNCHANGED <<current_count, call, acked>>
  /\ UNCHANGED <<up, starts, patch_size, sq, inflight, issued, file>>

WaitKeepsCount ==
  /\ waits > 0 /\ cq > 0
  /\ cq' = cq - 1
  /\ waits' = waits - 1
  /\ IF waits = 1 THEN Returned(call) ELSE UNCHANGED <<call, acked>>
  /\ UNCHANGED <<up, starts, patch_size, current_count, sq, inflight, issued, file>>

(* One turn of the loop over current_count; the last one ends the call. *)
WaitAndSeen ==
  /\ waits > 0 /\ cq > 0
  /\ cq' = cq - 1
  /\ waits' = waits - 1
  /\ IF waits = 1 THEN /\ current_count' = 0
                       /\ Returned(call)
                  ELSE UNCHANGED <<current_count, call, acked>>
  /\ UNCHANGED <<up, starts, patch_size, sq, inflight, issued, file>>

-----------------------------------------------------------------------------
(* The kernel *)

Execute(e) ==
  /\ inflight' = inflight \ {e}
  /\ cq' = cq + 1
  /\ IF e.op = "write" THEN page' = page \cup {e.upd} /\ UNCHANGED disk
                       ELSE disk' = disk \cup page /\ UNCHANGED page
  /\ UNCHANGED <<up, starts, patch_size, current_count, call, waits, sq, issued, acked,
                 failed>>

FailIo(e) ==
  /\ IoMayFail
  /\ inflight' = inflight \ {e}
  /\ cq' = cq + 1
  /\ failed' = TRUE
  /\ UNCHANGED <<up, starts, patch_size, current_count, call, waits, sq, issued, acked,
                 page, disk>>

Kernel == \E e \in inflight : Execute(e) \/ FailIo(e)

Writeback ==
  /\ \E n \in page \ disk : disk' = disk \cup {n}
  /\ UNCHANGED <<up, starts, patch_size, current_count, call, waits, ring, issued, acked,
                 page, failed>>

(* The program ends, and its ring with it.  The globals are in maps of the *)
(* loader and outlive it, as the page cache does, unless the machine went  *)
(* down.                                                                   *)
Ends(lost, count) ==
  /\ up
  /\ up' = FALSE
  /\ call' = "write" /\ waits' = 0
  /\ sq' = {} /\ inflight' = {} /\ cq' = 0
  /\ page' = page \ lost /\ current_count' = count
  /\ UNCHANGED <<starts, patch_size, issued, acked, disk, failed>>

Kill == Ends({}, current_count)
PowerFail == Ends(page \ disk, 0)

Next == \/ Start
        \/ WriteHook
        \/ FsyncHook
        \/ WaitAndSeen
        \/ Kernel
        \/ Writeback
        \/ Kill
        \/ PowerFail

(* The waiting call sees a completion when there is one, and the kernel    *)
(* answers what was submitted.  The program need not make another call.    *)
Fairness == WF_vars(WaitAndSeen) /\ WF_vars(Kernel)

Spec == Init /\ [][Next]_vars
FairSpec == Spec /\ Fairness

-----------------------------------------------------------------------------
(* Properties *)

(* Every variable has its type. *)
TypeOK ==
  /\ up \in BOOLEAN /\ starts \in 0 .. MaxStarts
  /\ patch_size \in PatchSizes /\ current_count \in Nat
  /\ call \in {"write", "fsync"} /\ waits \in Nat
  /\ sq \subseteq Entries /\ inflight \subseteq Entries /\ cq \in Nat
  /\ issued \in 0 .. MaxUpdates /\ acked \in 0 .. issued
  /\ call = "fsync" \/ waits > 0 => issued > 0
  /\ page \subseteq 1 .. MaxUpdates /\ disk \subseteq page
  /\ failed \in BOOLEAN

(* A call that waits for n completions has exactly n coming: a completion  *)
(* short and it never returns, one over and a later batch returns early.   *)
NoHang == waits = cq + Cardinality(inflight)

(* No update is executed ahead of the queue: between two batches the file  *)
(* holds just the updates that are no longer queued, so it has no gap.     *)
PrefixBetweenBatches ==
  up /\ waits = 0 /\ ~failed =>
    page = { n \in 1 .. issued : Entry("write", n) \notin sq }

(* What a power failure takes: the updates of the batch being filled and   *)
(* of the one before it, whose fsyncs may have run ahead of its writes.    *)
LossBound == ~failed => Cardinality((1 .. issued) \ disk) <= patch_size + 1

(* The program takes an update for safe when its fsync has returned; of    *)
(* those a power failure takes patch_size at most, none with a batch of    *)
(* one: the batching extension implements SafeUpdates.                     *)
Promise == INSTANCE SafeUpdates WITH made <- issued, told <- 1 .. acked,
                                     safe <- disk, broken <- failed,
                                     allowed <- patch_size
PromiseSpec == Promise!Spec

(* A call that waits returns, unless the program ends. *)
EveryCallReturns == (waits > 0) ~> (waits = 0)

(* What NoHang rests on: a batch that is being filled is counted entry by  *)
(* entry, and a batch that is waited for was submitted whole.  Each call   *)
(* queues an entry that is not there yet.                                  *)
CountInv ==
  /\ up /\ waits = 0 => /\ inflight = {} /\ cq = 0
                        /\ current_count = Cardinality(sq)
                        /\ current_count <= patch_size
  /\ waits > 0 => up /\ sq = {} /\ waits = cq + Cardinality(inflight)
  /\ ~up => waits = 0 /\ sq = {} /\ inflight = {} /\ cq = 0
  /\ ~up => current_count = 0 \/ starts = MaxStarts
  /\ up => starts > 0

FreshInv == \A e \in sq : /\ e.upd <= issued
                          /\ e.op = "fsync" /\ call = "fsync" => e.upd < issued
=============================================================================
