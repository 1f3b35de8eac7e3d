---------------------------- MODULE BatchIoProofs ----------------------------
(***************************************************************************)
(* The batching extension, for every patch_size the submission queue has   *)
(* room for and every length of a run: its type invariant, that a full     *)
(* batch is waited for with just the number of completions it will post,   *)
(* and what the file holds and a power failure takes.                      *)
(***************************************************************************)
EXTENDS BatchIo, FiniteSetTheorems, TLAPS

(* The queue takes one entry more than patch_size before it is submitted.  *)
RoomForBatch == \A p \in PatchSizes : p < RingEntries

LEMMA EntriesFinite == IsFiniteSet(0 .. MaxUpdates)
BY BoundAssumption, FS_Interval

-----------------------------------------------------------------------------
(* Types *)

LEMMA TypeInit == Init => TypeOK
<1> SUFFICES ASSUME Init PROVE TypeOK
  OBVIOUS
<1>1. up \in BOOLEAN /\ failed \in BOOLEAN
  BY DEF Init
<1>2. /\ starts \in 0 .. MaxStarts /\ patch_size \in PatchSizes
      /\ current_count \in Nat /\ waits \in Nat /\ cq \in Nat
      /\ issued \in 0 .. MaxUpdates /\ acked \in 0 .. issued
  BY BoundAssumption DEF Init
<1>3. call \in {"write", "fsync"} /\ sq \subseteq Entries /\ inflight \subseteq Entries
  BY DEF Init
<1>4. page \subseteq 1 .. MaxUpdates /\ disk \subseteq page
  BY DEF Init
<1>5. ~(call = "fsync" \/ waits > 0)
  BY DEF Init
<1>6. QED
  BY <1>1, <1>2, <1>3, <1>4, <1>5, Zenon DEF TypeOK

(* Both hooks, told apart by the entry they queue. *)
LEMMA HookType ==
  ASSUME TypeOK, NEW o \in {"write", "fsync"}, NEW e \in Entries, Hook(o, e)
  PROVE  /\ current_count' \in Nat /\ waits' \in Nat
         /\ sq' \subseteq Entries /\ inflight' \subseteq Entries
         /\ call' \in {"write", "fsync"} /\ acked' \in {acked, issued}
<1>1. Queued(e) \subseteq Entries
  BY DEF Queued, TypeOK
<1>2. QED
  BY <1>1 DEF Hook, Returned, TypeOK

LEMMA TypeStep == TypeOK /\ [Next]_vars => TypeOK'
<1> SUFFICES ASSUME TypeOK, [Next]_vars PROVE TypeOK'
  OBVIOUS
<1> USE BoundAssumption
<1>1. CASE Start
  <2>1. up' \in BOOLEAN
    BY <1>1 DEF Start
  <2>2. starts' \in 0 .. MaxStarts
    BY <1>1 DEF Start, TypeOK
  <2>3. QED
    BY <1>1, <2>1, <2>2 DEF Start, TypeOK, ring, file
<1>2. CASE WriteHook
  <2>1. Entry("write", issued + 1) \in Entries
    BY <1>2 DEF WriteHook, Entry, Entries, TypeOK
  <2>2. /\ Hook("write", Entry("write", issued + 1))
        /\ issued' = issued + 1 /\ issued < MaxUpdates
        /\ UNCHANGED <<up, starts, patch_size, cq, page, disk, failed>>
    BY <1>2 DEF WriteHook, file
  <2>3. /\ current_count' \in Nat /\ waits' \in Nat
        /\ sq' \subseteq Entries /\ inflight' \subseteq Entries
        /\ call' \in {"write", "fsync"} /\ acked' \in {acked, issued}
    BY <2>1, <2>2, HookType
  <2>4. /\ issued' \in 0 .. MaxUpdates /\ acked' \in 0 .. issued' /\ issued' > 0
    BY <2>2, <2>3 DEF TypeOK
  <2>5. QED
    BY <2>2, <2>3, <2>4 DEF TypeOK
<1>3. CASE FsyncHook
  <2>1. Entry("fsync", issued) \in Entries
    BY <1>3 DEF FsyncHook, Entry, Entries, TypeOK
  <2>2. /\ Hook("fsync", Entry("fsync", issued)) /\ issued > 0
        /\ UNCHANGED <<up, starts, patch_size, issued, cq, page, disk, failed>>
    BY <1>3 DEF FsyncHook, file, TypeOK
  <2>3. /\ current_count' \in Nat /\ waits' \in Nat
        /\ sq' \subseteq Entries /\ inflight' \subseteq Entries
        /\ call' \in {"write", "fsync"} /\ acked' \in {acked, issued}
    BY <2>1, <2>2, HookType
  <2>4. QED
    BY <2>2, <2>3 DEF TypeOK
<1>4. CASE WaitAndSeen
  <2>1. /\ cq' \in Nat /\ waits' \in Nat /\ issued > 0
        /\ UNCHANGED <<up, starts, patch_size, sq, inflight, issued, page, disk, failed>>
    BY <1>4 DEF WaitAndSeen, TypeOK, file
  <2>2. /\ current_count' \in Nat /\ call' \in {"write", "fsync"}
        /\ acked' \in 0 .. issued'
    BY <1>4 DEF WaitAndSeen, Returned, TypeOK
  <2>3. QED
    BY <2>1, <2>2 DEF TypeOK
<1>5. ASSUME NEW e \in inflight, Execute(e) PROVE TypeOK'
  <2>1. e.upd \in 1 .. MaxUpdates
    BY DEF TypeOK, Entries
  <2>2. page' \subseteq 1 .. MaxUpdates /\ disk' \subseteq page'
    BY <1>5, <2>1 DEF Execute, TypeOK
  <2>3. QED
    BY <1>5, <2>2 DEF Execute, TypeOK
<1>6. ASSUME NEW e \in inflight, FailIo(e) PROVE TypeOK'
  BY <1>6 DEF FailIo, TypeOK
<1>7. CASE Writeback
  BY <1>7 DEF Writeback, TypeOK, ring
<1>8. CASE Kill \/ PowerFail
  <2>1. /\ current_count' \in Nat /\ call' \in {"write", "fsync"} /\ waits' = 0
        /\ call' = "write" /\ page' \subseteq page /\ disk \subseteq page'
        /\ sq' \subseteq Entries /\ inflight' \subseteq Entries /\ cq' \in Nat
        /\ UNCHANGED <<starts, patch_size, issued, acked, disk, failed>>
    BY <1>8 DEF Kill, PowerFail, Ends, TypeOK
  <2>2. up' \in BOOLEAN
    BY <1>8 DEF Kill, PowerFail, Ends
  <2>3. QED
    BY <2>1, <2>2 DEF TypeOK
<1>9. CASE UNCHANGED vars
  BY <1>9 DEF vars, ring, file, TypeOK
<1>10. QED
  BY <1>1, <1>2, <1>3, <1>4, <1>5, <1>6, <1>7, <1>8, <1>9 DEF Next, Kernel

(* Every variable keeps its type. *)
THEOREM TypeCorrect == Spec => []TypeOK
BY TypeInit, TypeStep, PTL DEF Spec

-----------------------------------------------------------------------------
(* Every batch is waited for with as many completions as it will post      *)

(* NoHang alone is not inductive: the step that submits the batch needs    *)
(* the count to be the number of queued entries (CountInv), which needs    *)
(* the entry each call queues to be new (FreshInv).                        *)
FiniteRing == IsFiniteSet(sq) /\ IsFiniteSet(inflight)

BatchInv == TypeOK /\ CountInv /\ FreshInv /\ FiniteRing

LEMMA BatchInit == Init => BatchInv
<1> SUFFICES ASSUME Init PROVE BatchInv
  OBVIOUS
<1>1. FiniteRing
  BY FS_EmptySet DEF Init, FiniteRing
<1>2. CountInv
  BY DEF Init, CountInv
<1>3. FreshInv
  BY DEF Init, FreshInv
<1>4. QED
  BY <1>1, <1>2, <1>3, TypeInit DEF BatchInv

(* A hook that queues a new entry with room for it keeps the queue and the *)
(* count in step, and hands over what it counted.                          *)
LEMMA HookCounts ==
  ASSUME RoomForBatch, BatchInv, up, waits = 0, UNCHANGED <<up, starts, patch_size, cq>>,
         NEW o \in {"write", "fsync"}, NEW e \in Entries, e \notin sq, Hook(o, e)
  PROVE  CountInv' /\ FiniteRing'
<1>1. /\ current_count = Cardinality(sq) /\ current_count <= patch_size
      /\ inflight = {} /\ cq = 0 /\ starts > 0
  BY DEF BatchInv, CountInv
<1>2. /\ patch_size \in Nat /\ patch_size < RingEntries /\ RingEntries \in Nat
      /\ current_count \in Nat
  BY SizeAssumption DEF BatchInv, TypeOK, RoomForBatch
<1>3. /\ IsFiniteSet(Queued(e)) /\ Cardinality(Queued(e)) = current_count + 1
  <2>1. Queued(e) = sq \cup {e}
    BY <1>1, <1>2 DEF Queued
  <2>2. QED
    BY <1>1, <2>1, FS_AddElement DEF BatchInv, FiniteRing
<1>4. CASE ~IsFull
  <2>1. /\ sq' = Queued(e) /\ current_count' = current_count + 1
        /\ waits' = 0 /\ inflight' = {} /\ cq' = 0
    BY <1>1, <1>4 DEF Hook
  <2>2. current_count' <= patch_size'
    BY <1>1, <1>2, <1>4, <2>1 DEF Hook, IsFull
  <2>3. FiniteRing'
    BY <1>3, <2>1, FS_EmptySet DEF FiniteRing
  <2>4. current_count' = Cardinality(sq') /\ ~(waits' > 0) /\ up' /\ starts' > 0
    BY <1>1, <1>3, <2>1
  <2>5. QED
    BY <2>1, <2>2, <2>3, <2>4 DEF CountInv
<1>5. CASE IsFull
  <2>1. /\ sq' = {} /\ inflight' = Queued(e) /\ cq' = 0
        /\ waits' = current_count + 1
    BY <1>1, <1>5 DEF Hook
  <2>2. waits' = cq' + Cardinality(inflight') /\ waits' > 0
    BY <1>2, <1>3, <2>1
  <2>3. FiniteRing'
    BY <1>3, <2>1, FS_EmptySet DEF FiniteRing
  <2>4. QED
    BY <1>1, <2>1, <2>2, <2>3 DEF CountInv
<1>6. QED
  BY <1>4, <1>5

LEMMA BatchStep ==
  ASSUME RoomForBatch, BatchInv, [Next]_vars, MaxStarts <= 1 \/ [~Kill]_vars
  PROVE  BatchInv'
<1> USE BoundAssumption
<1>0. TypeOK'
  BY TypeStep DEF BatchInv
<1>a. /\ issued \in Nat
      /\ \A f \in sq : /\ f \in Entries /\ f.upd \in Nat /\ f.upd <= issued
                       /\ f.op = "fsync" /\ call = "fsync" => f.upd < issued
  <2>1. sq \subseteq Entries /\ issued \in 0 .. MaxUpdates
    BY DEF BatchInv, TypeOK
  <2>2. \A f \in Entries : f.upd \in 1 .. MaxUpdates
    BY DEF Entries
  <2>3. \A n \in 1 .. MaxUpdates : n \in Nat
    OBVIOUS
  <2>4. \A f \in sq : f \in Entries /\ f.upd \in Nat
    BY <2>1, <2>2, <2>3
  <2>5. \A f \in sq : /\ f.upd <= issued
                      /\ f.op = "fsync" /\ call = "fsync" => f.upd < issued
    BY Zenon DEF BatchInv, FreshInv
  <2>6. issued \in Nat
    BY <2>1
  <2>7. QED
    BY <2>4, <2>5, <2>6
<1>1. CASE Start
  <2>1. starts' > 0 /\ starts # MaxStarts
    BY <1>1 DEF Start, BatchInv, TypeOK
  <2>2. current_count = 0 /\ waits = 0 /\ sq = {} /\ inflight = {} /\ cq = 0
    BY <1>1, <2>1 DEF Start, BatchInv, CountInv
  <2>3. current_count = Cardinality(sq) /\ current_count <= patch_size
    BY <2>2, FS_EmptySet, SizeAssumption DEF BatchInv, TypeOK
  <2>4. CountInv'
    BY <1>1, <2>1, <2>2, <2>3 DEF Start, CountInv, ring
  <2>5. QED
    BY <1>0, <1>1, <2>4 DEF Start, BatchInv, FreshInv, FiniteRing, ring
<1>2. CASE WriteHook
  <2> DEFINE e == Entry("write", issued + 1)
  <2>1. e \in Entries /\ e \notin sq
    <3>1. issued + 1 \in 1 .. MaxUpdates
      BY <1>2, <1>a DEF WriteHook
    <3>2. e \in Entries /\ e.upd = issued + 1
      BY <3>1 DEF Entry, Entries
    <3>3. ~(issued + 1 <= issued)
      BY <1>a
    <3>4. QED
      BY <1>a, <3>2, <3>3
  <2>2. CountInv' /\ FiniteRing'
    BY <1>2, <2>1, HookCounts DEF WriteHook
  <2>3. FreshInv'
    <3>1. sq' \subseteq sq \cup {e} /\ issued' = issued + 1
      BY <1>2 DEF WriteHook, Hook, Queued
    <3>2. e.upd = issued' /\ e.op = "write"
      BY <3>1 DEF Entry
    <3>3. ASSUME NEW f \in sq'
          PROVE  f.upd <= issued' /\ (f.op = "fsync" => f.upd < issued')
      <4> HIDE DEF e
      <4>1. CASE f = e
        BY <1>a, <3>1, <3>2, <4>1
      <4>2. CASE f \in sq
        BY <1>a, <3>1, <4>2
      <4>3. QED
        BY <3>1, <4>1, <4>2
    <3>4. QED
      BY <3>3 DEF FreshInv
  <2>4. QED
    BY <1>0, <2>2, <2>3 DEF BatchInv
<1>3. CASE FsyncHook
  <2> DEFINE e == Entry("fsync", issued)
  <2>1. e \in Entries /\ e \notin sq
    BY <1>3, <1>a DEF FsyncHook, Entry, Entries, BatchInv, TypeOK
  <2>2. CountInv' /\ FiniteRing'
    BY <1>3, <2>1, HookCounts DEF FsyncHook
  <2>3. FreshInv'
    <3>1. /\ sq' \subseteq sq \cup {e} /\ issued' = issued
          /\ sq' = {} \/ call' = "write"
      BY <1>3 DEF FsyncHook, Hook, Queued, Returned
    <3>2. e.upd = issued
      BY DEF Entry
    <3>3. \A f \in sq' : f.upd <= issued'
      <4> HIDE DEF e
      <4> QED
        BY <1>a, <3>1, <3>2
    <3>4. QED
      BY <3>1, <3>3 DEF FreshInv
  <2>4. QED
    BY <1>0, <2>2, <2>3 DEF BatchInv
<1>4. CASE WaitAndSeen
  <2>1. /\ waits > 0 /\ up /\ sq = {} /\ starts > 0
        /\ waits = cq + Cardinality(inflight)
        /\ UNCHANGED <<up, starts, patch_size, sq, inflight, issued>>
    BY <1>4 DEF WaitAndSeen, BatchInv, CountInv
  <2>2. /\ Cardinality(inflight) \in Nat /\ waits \in Nat /\ cq \in Nat
        /\ cq > 0 /\ waits' = waits - 1 /\ cq' = cq - 1
    BY <1>4, FS_CardinalityType DEF WaitAndSeen, BatchInv, FiniteRing, TypeOK
  <2>3. waits' = cq' + Cardinality(inflight')
    BY <2>1, <2>2
  <2>4. ASSUME waits' = 0
        PROVE  /\ inflight' = {} /\ cq' = 0
               /\ current_count' = Cardinality(sq') /\ current_count' <= patch_size'
    <3>1. Cardinality(inflight) = 0 /\ cq' = 0 /\ waits = 1
      BY <2>1, <2>2, <2>4
    <3>2. inflight = {} /\ current_count' = 0
      BY <1>4, <3>1, FS_EmptySet DEF WaitAndSeen, BatchInv, FiniteRing
    <3>3. QED
      BY <2>1, <3>1, <3>2, FS_EmptySet, SizeAssumption DEF BatchInv, TypeOK
  <2>5. CountInv'
    BY <2>1, <2>3, <2>4 DEF CountInv
  <2>6. QED
    BY <1>0, <2>1, <2>5 DEF BatchInv, FreshInv, FiniteRing
<1>5. ASSUME NEW e \in inflight, Execute(e) \/ FailIo(e) PROVE BatchInv'
  <2>1. /\ inflight' = inflight \ {e} /\ cq' = cq + 1
        /\ UNCHANGED <<up, starts, patch_size, current_count, call, waits, sq, issued>>
    BY <1>5 DEF Execute, FailIo
  <2>2. /\ IsFiniteSet(inflight') /\ Cardinality(inflight') = Cardinality(inflight) - 1
        /\ Cardinality(inflight) \in Nat
    BY <2>1, FS_RemoveElement, FS_CardinalityType DEF BatchInv, FiniteRing
  <2>3. up /\ waits > 0
    BY <1>5 DEF BatchInv, CountInv, TypeOK
  <2>4. waits' = cq' + Cardinality(inflight')
    BY <2>1, <2>2, <2>3 DEF BatchInv, CountInv, TypeOK
  <2>5. CountInv'
    BY <2>1, <2>3, <2>4 DEF BatchInv, CountInv
  <2>6. QED
    BY <1>0, <2>1, <2>2, <2>5 DEF BatchInv, FreshInv, FiniteRing
<1>6. CASE Writeback \/ UNCHANGED vars
  <2>1. UNCHANGED <<up, starts, patch_size, current_count, call, waits, sq, inflight,
                    cq, issued>>
    BY <1>6 DEF Writeback, ring, vars
  <2>2. CountInv' /\ FreshInv' /\ FiniteRing'
    BY <2>1 DEF BatchInv, CountInv, FreshInv, FiniteRing
  <2>3. QED
    BY <1>0, <2>2 DEF BatchInv
<1>7. CASE Kill \/ PowerFail
  <2>1. /\ up /\ ~up' /\ waits' = 0 /\ sq' = {} /\ inflight' = {} /\ cq' = 0
        /\ starts' = starts
    BY <1>7 DEF Kill, PowerFail, Ends
  <2>2. current_count' = 0 \/ starts' = MaxStarts
    <3>1. CASE MaxStarts <= 1
      BY <2>1, <3>1 DEF BatchInv, CountInv, TypeOK
    <3>2. CASE [~Kill]_vars
      BY <1>7, <2>1, <3>2 DEF PowerFail, Ends, vars
    <3> QED BY <3>1, <3>2
  <2>3. CountInv'
    BY <2>1, <2>2 DEF CountInv
  <2>4. FreshInv' /\ FiniteRing'
    BY <2>1, FS_EmptySet DEF FreshInv, FiniteRing
  <2>5. QED
    BY <1>0, <2>3, <2>4 DEF BatchInv
<1>8. QED
  BY <1>1, <1>2, <1>3, <1>4, <1>5, <1>6, <1>7 DEF Next, Kernel

LEMMA BatchInvNoHang == BatchInv => NoHang
<1> SUFFICES ASSUME BatchInv PROVE NoHang
  OBVIOUS
<1>1. CASE waits = 0
  <2>1. inflight = {} /\ cq = 0
    BY <1>1 DEF BatchInv, CountInv
  <2>2. QED
    BY <1>1, <2>1, FS_EmptySet DEF NoHang
<1>2. CASE waits > 0
  BY <1>2 DEF BatchInv, CountInv, NoHang
<1>3. QED
  BY <1>1, <1>2 DEF BatchInv, TypeOK

(* In a server that is started once, on a loader of its own, and with a    *)
(* submission queue that has room for the batch, every call that waits has *)
(* just the completions it waits for coming.                               *)
THEOREM BatchWaits ==
  ASSUME RoomForBatch, MaxStarts <= 1
  PROVE  Spec => []NoHang
<1>1. Init => BatchInv
  BY BatchInit
<1>2. BatchInv /\ [Next]_vars => BatchInv'
  BY BatchStep
<1>3. BatchInv => NoHang
  BY BatchInvNoHang
<1>4. QED
  BY <1>1, <1>2, <1>3, PTL DEF Spec

(* It may be started any number of times, if the loader starts with it, as *)
(* after a power failure: what must not happen is that current_count       *)
(* outlives the ring whose entries it counts.                              *)
THEOREM BatchWaitsWithoutKill ==
  ASSUME RoomForBatch
  PROVE  Spec /\ [][~Kill]_vars => []NoHang
<1>1. Init => BatchInv
  BY BatchInit
<1>2. BatchInv /\ [Next]_vars /\ [~Kill]_vars => BatchInv'
  BY BatchStep
<1>3. BatchInv => NoHang
  BY BatchInvNoHang
<1>4. QED
  BY <1>1, <1>2, <1>3, PTL DEF Spec

-----------------------------------------------------------------------------
(* What is queued, what the file holds, and what a power failure takes.    *)
(* The calls are numbered as they are made: update n is written by call    *)
(* 2n - 1 and flushed by call 2n.                                          *)

Calls == IF (call = "fsync") <=> (waits = 0) THEN 2 * issued - 1 ELSE 2 * issued
Place(e) == IF e.op = "write" THEN 2 * e.upd - 1 ELSE 2 * e.upd

(* The calls before the batch that is filled, or is waited for.            *)
Before == Calls - current_count

Unwritten(n) == Entry("write", n) \in sq \cup inflight
Unflushed(n) == Entry("fsync", n) \in sq \cup inflight

(* Just the calls of the batch are in the queue, and in the file there are *)
(* just the updates that are not.                                          *)
QueueInv ==
  /\ \A e \in sq \cup inflight : Place(e) > Before /\ e.upd <= issued
  /\ ~failed => page = {n \in 1 .. issued : ~Unwritten(n)}

(* The updates before the last batch are on disk; those before this batch  *)
(* will be, by the first of its fsyncs to be executed.                     *)
FlushInv ==
  /\ waits > 0 => current_count = patch_size + 1
  /\ \A n \in 1 .. issued : 2 * n - 1 <= Before - (patch_size + 1) => n \in disk
  /\ \/ \A n \in 1 .. issued : 2 * n > Before /\ 2 * n <= Calls => Unflushed(n)
     \/ \A n \in 1 .. issued : 2 * n - 1 <= Before => n \in disk

(* The oldest update that may be lost is written patch_size updates before *)
(* the last one.                                                           *)
OldestLost == ~failed => \A n \in 1 .. issued : n < issued - patch_size => n \in disk

FileInv ==
  /\ up => QueueInv /\ (~failed => FlushInv)
  /\ page \subseteq 1 .. issued
  /\ starts = 0 => issued = 0 /\ page = {}
  /\ ~up => starts = 0 \/ starts = MaxStarts
  /\ OldestLost

LEMMA FileInit == Init => FileInv
BY DEF Init, FileInv, OldestLost

(* What the invariants above say of the numbers, for the steps to use.     *)
LEMMA Numbers ==
  ASSUME BatchInv
  PROVE  /\ patch_size \in Nat /\ current_count \in Nat /\ waits \in Nat /\ cq \in Nat
         /\ issued \in Nat /\ issued <= MaxUpdates /\ MaxUpdates \in Nat
         /\ Calls \in Int /\ Before \in Int
         /\ call \in {"write", "fsync"} /\ starts \in Nat
         /\ call = "fsync" \/ waits > 0 => issued > 0
         /\ \A e \in sq \cup inflight : /\ e \in Entries /\ e.op \in {"write", "fsync"}
                                        /\ e.upd \in Nat \ {0}
BY SizeAssumption, BoundAssumption DEF BatchInv, TypeOK, Calls, Before, Entries

LEMMA EntryFields ==
  ASSUME NEW o, NEW n
  PROVE  Entry(o, n).op = o /\ Entry(o, n).upd = n
BY DEF Entry

LEMMA EntryIs ==
  ASSUME NEW e \in Entries
  PROVE  e = Entry(e.op, e.upd)
BY DEF Entry, Entries

(* In a running program the oldest update that may be lost follows from    *)
(* the batches.                                                            *)
LEMMA OldestFromFlush ==
  ASSUME BatchInv, up, ~failed => FlushInv
  PROVE  OldestLost
<1> SUFFICES ASSUME ~failed, NEW n \in 1 .. issued, n < issued - patch_size
             PROVE  n \in disk
  BY DEF OldestLost
<1>1. current_count <= patch_size + 1
  BY Numbers DEF BatchInv, CountInv, FlushInv
<1>2. 2 * n - 1 <= Before - (patch_size + 1)
  BY <1>1, Numbers DEF Before, Calls
<1> QED BY <1>2 DEF FlushInv

(* A hook puts the call that it is in at the end of the batch.             *)
LEMMA HookFile ==
  ASSUME RoomForBatch, BatchInv, BatchInv', up, waits = 0, QueueInv, ~failed => FlushInv,
         UNCHANGED <<up, starts, patch_size, cq, file>>,
         NEW o \in {"write", "fsync"}, call = o, Hook(o, Entry(o, issued')),
         issued' = IF o = "write" THEN issued + 1 ELSE issued
  PROVE  QueueInv' /\ (~failed' => FlushInv')
<1> DEFINE e == Entry(o, issued')
<1>1. e.op = o /\ e.upd = issued'
  BY EntryFields
<1>2. /\ current_count = Cardinality(sq) /\ current_count <= patch_size /\ inflight = {}
      /\ Cardinality(sq) < RingEntries
  BY SizeAssumption, Numbers DEF BatchInv, CountInv, RoomForBatch, TypeOK
<1>3. sq' \cup inflight' = sq \cup inflight \cup {e}
  BY <1>2 DEF Hook, Queued
<1>4. /\ current_count' = current_count + 1
      /\ waits' > 0 => current_count = patch_size /\ call' = call
      /\ waits' = 0 => call' = IF o = "write" THEN "fsync" ELSE "write"
      /\ waits' \in Nat
  <2>1. CASE IsFull
    BY <1>2, <2>1, Numbers DEF Hook, IsFull
  <2>2. CASE ~IsFull
    BY <1>2, <2>2, Numbers DEF Hook, Returned
  <2> QED BY <2>1, <2>2
<1>5. Calls' = Calls + 1 /\ Before' = Before /\ Before <= Calls
  BY <1>4, Numbers DEF Calls, Before
<1>6. Place(e) = Calls + 1 /\ (o = "write" => 2 * issued' - 1 = Calls + 1)
      /\ (o = "fsync" => 2 * issued' = Calls + 1)
  BY <1>1, Numbers DEF Place, Calls
<1> HIDE DEF e
<1>7. \A f \in sq' \cup inflight' : Place(f) > Before' /\ f.upd <= issued'
  <2>2. \A f \in sq \cup inflight : Place(f) > Before /\ f.upd <= issued'
    BY Numbers DEF QueueInv
  <2> QED BY <1>1, <1>3, <1>5, <1>6, <2>2, Numbers
<1>8. ASSUME ~failed'
      PROVE  page' = {n \in 1 .. issued' : Entry("write", n) \notin sq' \cup inflight'}
  <2>1. page = {n \in 1 .. issued : ~Unwritten(n)} /\ page' = page
    BY <1>8 DEF QueueInv, file
  <2>2. CASE o = "write"
    <3>1. issued' = issued + 1 /\ e = Entry("write", issued')
      BY <2>2 DEF e
    <3>2. Entry("write", issued') \in sq' \cup inflight'
      BY <1>3, <3>1
    <3>3. \A n \in 1 .. issued : Entry("write", n) # e
      BY <1>1, <3>1, EntryFields, Numbers
    <3>4. \A n \in 1 .. issued : Entry("write", n) \in sq' \cup inflight' <=> Unwritten(n)
      BY <1>3, <3>3 DEF Unwritten
    <3> QED BY <2>1, <3>1, <3>2, <3>4, Numbers
  <2>3. CASE o = "fsync"
    <3>1. \A n : Entry("write", n) # e
      BY <1>1, <2>3, EntryFields
    <3>2. \A n : Entry("write", n) \in sq' \cup inflight' <=> Unwritten(n)
      BY <1>3, <3>1 DEF Unwritten
    <3> QED BY <2>1, <2>3, <3>2
  <2> QED BY <2>2, <2>3
<1>9. ASSUME ~failed' PROVE FlushInv'
  <2>1. FlushInv /\ disk' = disk /\ patch_size' = patch_size
    BY <1>9 DEF file
  <2>2. waits' > 0 => current_count' = patch_size' + 1
    BY <1>4, <2>1
  <2>3. \A n \in 1 .. issued' : 2 * n - 1 <= Before => n \in 1 .. issued
    BY <1>5, <1>6, Numbers
  <2>4. \A n \in 1 .. issued' : 2 * n - 1 <= Before' - (patch_size' + 1) => n \in disk'
    BY <1>5, <2>1, <2>3, Numbers DEF FlushInv
  <2>5. CASE \A n \in 1 .. issued : 2 * n > Before /\ 2 * n <= Calls => Unflushed(n)
    <3> SUFFICES ASSUME NEW n \in 1 .. issued', 2 * n > Before, 2 * n <= Calls + 1
                 PROVE  Entry("fsync", n) \in sq' \cup inflight'
      BY <1>5, <2>2, <2>4 DEF FlushInv, Unflushed
    <3>1. CASE 2 * n <= Calls
      <4>1. n \in 1 .. issued
        BY <1>6, <3>1, Numbers
      <4> QED BY <1>3, <2>5, <3>1, <4>1 DEF Unflushed
    <3>2. CASE 2 * n = Calls + 1
      <4>1. o = "fsync" /\ n = issued'
        BY <1>6, <3>2, Numbers
      <4> QED BY <1>3, <4>1 DEF Unflushed, e
    <3> QED BY <3>1, <3>2, Numbers
  <2>6. CASE \A n \in 1 .. issued : 2 * n - 1 <= Before => n \in disk
    BY <1>5, <2>1, <2>2, <2>3, <2>4, <2>6 DEF FlushInv
  <2> QED BY <2>1, <2>5, <2>6 DEF FlushInv
<1> QED BY <1>7, <1>8, <1>9 DEF QueueInv, Unwritten

(* The last completion ends the batch: one of its entries was an fsync,    *)
(* unless it was a single write.                                           *)
LEMMA WaitFile ==
  ASSUME BatchInv, BatchInv', up, QueueInv, ~failed => FlushInv, WaitAndSeen
  PROVE  QueueInv' /\ (~failed' => FlushInv')
<1>1. /\ waits > 0 /\ waits' = waits - 1 /\ sq = {} /\ waits = cq + Cardinality(inflight)
      /\ cq > 0 /\ IsFiniteSet(inflight)
      /\ UNCHANGED <<up, starts, patch_size, sq, inflight, issued, page, disk, failed>>
  BY DEF WaitAndSeen, BatchInv, CountInv, FiniteRing, file
<1>2. \A n : (Unwritten(n)' <=> Unwritten(n)) /\ (Unflushed(n)' <=> Unflushed(n))
  BY <1>1 DEF Unwritten, Unflushed
<1>3. CASE waits # 1
  <2>1. UNCHANGED <<current_count, call>> /\ waits' > 0
    BY <1>1, <1>3, Numbers DEF WaitAndSeen
  <2>2. Calls' = Calls /\ Before' = Before
    BY <1>1, <2>1 DEF Calls, Before
  <2>3. QueueInv'
    BY <1>1, <1>2, <2>2 DEF QueueInv
  <2>4. ~failed' => FlushInv'
    BY <1>1, <1>2, <2>1, <2>2 DEF FlushInv
  <2> QED BY <2>3, <2>4
<1>4. CASE waits = 1
  <2>1. inflight = {}
    <3>1. Cardinality(inflight) = 0
      BY <1>1, <1>4, FS_CardinalityType, Numbers
    <3> QED BY <1>1, <3>1, FS_EmptySet
  <2>2. /\ current_count' = 0 /\ waits' = 0
        /\ call' = IF call = "write" THEN "fsync" ELSE "write"
    BY <1>1, <1>4 DEF WaitAndSeen, Returned
  <2>3. Calls' = Calls /\ Before' = Calls
    BY <1>1, <2>2, Numbers DEF Calls, Before
  <2>4. QueueInv'
    BY <1>1, <1>2, <2>1 DEF QueueInv
  <2>5. ASSUME ~failed' PROVE FlushInv'
    <3>1. FlushInv /\ current_count = patch_size + 1
      BY <1>1, <2>5 DEF FlushInv
    <3>2. \A n : ~Unflushed(n)
      BY <1>1, <2>1 DEF Unflushed
    <3>3. ASSUME NEW n \in 1 .. issued, 2 * n - 1 <= Calls - (patch_size + 1)
          PROVE  n \in disk
      <4>1. 2 * n - 1 <= Before
        BY <3>1, <3>3, Numbers DEF Before
      <4>2. CASE \A m \in 1 .. issued : 2 * m - 1 <= Before => m \in disk
        BY <4>1, <4>2
      <4>3. CASE \A m \in 1 .. issued : ~(2 * m > Before /\ 2 * m <= Calls)
        <5>1. patch_size = 0 /\ Calls = 2 * issued - 1
          <6>1. CASE Calls = 2 * issued
            BY <1>1, <3>1, <4>3, <6>1, Numbers DEF Before
          <6>2. CASE Calls = 2 * issued - 1 /\ patch_size # 0
            <7>1. issued - 1 \in 1 .. issued
              BY <3>3, <6>2, Numbers
            <7> QED BY <3>1, <4>3, <6>2, <7>1, Numbers DEF Before
          <6> QED BY <6>1, <6>2 DEF Calls
        <5>2. 2 * n - 1 <= Before - 1
          BY <3>1, <3>3, <5>1, Numbers DEF Before
        <5> QED BY <3>1, <5>1, <5>2 DEF FlushInv
      <4> QED BY <3>1, <3>2, <4>2, <4>3 DEF FlushInv
    <3> QED BY <1>1, <2>2, <2>3, <3>3, Numbers DEF FlushInv
  <2> QED BY <2>4, <2>5
<1> QED BY <1>3, <1>4

(* The first fsync of a batch to be executed finds the writes of all       *)
(* earlier batches in the page cache.                                      *)
LEMMA ExecuteFile ==
  ASSUME BatchInv, up, QueueInv, ~failed => FlushInv, NEW e \in inflight, Execute(e)
  PROVE  QueueInv' /\ (~failed' => FlushInv')
<1>1. /\ inflight' = inflight \ {e} /\ sq = {} /\ waits > 0
      /\ UNCHANGED <<up, patch_size, current_count, call, waits, sq, issued, failed>>
  BY Numbers DEF Execute, BatchInv, CountInv
<1>2. Calls' = Calls /\ Before' = Before
  BY <1>1 DEF Calls, Before
<1>3. e \in Entries /\ e = Entry(e.op, e.upd) /\ e.upd \in 1 .. issued /\ Place(e) > Before
  BY EntryIs, Numbers DEF QueueInv
<1>4. page' = IF e.op = "write" THEN page \cup {e.upd} ELSE page
  BY DEF Execute
<1>5. disk' = IF e.op = "write" THEN disk ELSE disk \cup page
  BY DEF Execute
<1>6. QueueInv'
  <2>1. \A f \in sq' \cup inflight' : Place(f) > Before' /\ f.upd <= issued'
    BY <1>1, <1>2 DEF QueueInv
  <2>2. ASSUME ~failed', NEW n \in 1 .. issued PROVE n \in page' <=> ~Unwritten(n)'
    <3>1. n \in page <=> ~Unwritten(n)
      BY <1>1, <2>2 DEF QueueInv
    <3>2. Unwritten(n)' <=> Unwritten(n) /\ Entry("write", n) # e
      BY <1>1 DEF Unwritten
    <3>3. Entry("write", n) = e <=> e.op = "write" /\ e.upd = n
      BY <1>3, EntryFields
    <3>4. e.op = "write" /\ e.upd = n => Unwritten(n)
      BY <3>3 DEF Unwritten
    <3> QED BY <1>4, <3>1, <3>2, <3>3, <3>4
  <2>3. ~failed' => page' \subseteq 1 .. issued
    BY <1>1, <1>3, <1>4 DEF QueueInv
  <2> QED BY <1>1, <2>1, <2>2, <2>3 DEF QueueInv
<1>7. ASSUME ~failed' PROVE FlushInv'
  <2>1. FlushInv /\ disk \subseteq disk'
    BY <1>1, <1>5, <1>7
  <2>2. CASE \A n \in 1 .. issued : 2 * n - 1 <= Before => n \in disk
    BY <1>1, <1>2, <2>1, <2>2 DEF FlushInv
  <2>3. CASE e.op = "fsync"
    <3> SUFFICES ASSUME NEW n \in 1 .. issued, 2 * n - 1 <= Before PROVE n \in disk'
      BY <1>1, <1>2, <2>1 DEF FlushInv
    <3>1. ~Unwritten(n)
      BY EntryFields, Numbers DEF Unwritten, QueueInv, Place
    <3>2. n \in page
      BY <1>1, <1>7, <3>1 DEF QueueInv
    <3> QED BY <1>5, <2>3, <3>2
  <2>4. CASE /\ e.op = "write"
             /\ \A n \in 1 .. issued : 2 * n > Before /\ 2 * n <= Calls => Unflushed(n)
    <3>1. \A n : Unflushed(n) => Unflushed(n)'
      BY <1>1, <2>4, EntryFields DEF Unflushed
    <3> QED BY <1>1, <1>2, <2>1, <2>4, <3>1 DEF FlushInv
  <2> QED BY <2>1, <2>2, <2>3, <2>4, Numbers DEF FlushInv
<1> QED BY <1>6, <1>7

LEMMA FileStep ==
  ASSUME RoomForBatch, MaxStarts <= 1, BatchInv, BatchInv', FileInv, [Next]_vars
  PROVE  FileInv'
<1> USE DEF ring, file
<1>1. CASE Start
  <2>1. /\ starts = 0 /\ starts' # 0 /\ up' /\ issued = 0 /\ page = {}
        /\ sq = {} /\ inflight = {} /\ waits = 0 /\ current_count = 0
        /\ UNCHANGED <<patch_size, current_count, call, waits, sq, inflight, issued,
                       page, disk, failed>>
    BY <1>1, Numbers DEF Start, FileInv, BatchInv, CountInv
  <2>2. QueueInv'
    BY <2>1 DEF QueueInv
  <2>3. FlushInv'
    BY <2>1 DEF FlushInv
  <2>4. OldestLost'
    BY <2>1 DEF OldestLost
  <2> QED BY <2>1, <2>2, <2>3, <2>4 DEF FileInv
<1>2. ASSUME up, up', starts' = starts, page' \subseteq 1 .. issued', QueueInv',
             ~failed' => FlushInv'
      PROVE  FileInv'
  <2>1. starts > 0
    BY <1>2 DEF BatchInv, CountInv
  <2>2. OldestLost'
    BY <1>2, OldestFromFlush, PTL
  <2> QED BY <1>2, <2>1, <2>2, Numbers DEF FileInv
<1>3. CASE WriteHook
  <2>1. QueueInv' /\ (~failed' => FlushInv')
    BY <1>3, HookFile DEF WriteHook, FileInv
  <2>2. page' \subseteq 1 .. issued'
    BY <1>3, Numbers DEF WriteHook, FileInv
  <2> QED BY <1>2, <1>3, <2>1, <2>2 DEF WriteHook
<1>4. CASE FsyncHook
  <2>1. QueueInv' /\ (~failed' => FlushInv')
    BY <1>4, HookFile DEF FsyncHook, FileInv
  <2>2. page' \subseteq 1 .. issued'
    BY <1>4, Numbers DEF FsyncHook, FileInv
  <2> QED BY <1>2, <1>4, <2>1, <2>2 DEF FsyncHook
<1>5. CASE WaitAndSeen
  <2>1. up
    BY <1>5, Numbers DEF WaitAndSeen, BatchInv, CountInv
  <2>2. QueueInv' /\ (~failed' => FlushInv')
    BY <1>5, <2>1, WaitFile DEF FileInv
  <2> QED BY <1>2, <1>5, <2>1, <2>2 DEF WaitAndSeen, FileInv
<1>6. ASSUME NEW e \in inflight, Execute(e) PROVE FileInv'
  <2>1. up
    BY <1>6, Numbers DEF BatchInv, CountInv
  <2>2. QueueInv' /\ (~failed' => FlushInv')
    BY <1>6, <2>1, ExecuteFile DEF FileInv
  <2>3. page' \subseteq page \cup {e.upd} /\ issued' = issued
    BY <1>6 DEF Execute
  <2>4. e.upd \in 1 .. issued
    BY <2>1, EntryIs, Numbers DEF FileInv, QueueInv
  <2>5. page' \subseteq 1 .. issued'
    BY <2>3, <2>4 DEF FileInv
  <2> QED BY <1>2, <1>6, <2>1, <2>2, <2>5 DEF Execute
<1>7. ASSUME NEW e \in inflight, FailIo(e) PROVE FileInv'
  <2>1. up /\ starts > 0 /\ failed' /\ sq' = sq /\ inflight' = inflight \ {e}
        /\ UNCHANGED <<up, starts, current_count, call, waits, issued, page>>
    BY <1>7, Numbers DEF FailIo, BatchInv, CountInv
  <2>2. Before' = Before
    BY <2>1 DEF Before, Calls
  <2>3. QueueInv'
    BY <2>1, <2>2 DEF QueueInv, FileInv
  <2> QED BY <1>2, <2>1, <2>3 DEF FileInv
<1>8. CASE Writeback \/ UNCHANGED vars
  <2>1. /\ disk \subseteq disk'
        /\ UNCHANGED <<up, starts, patch_size, current_count, call, waits, sq, inflight,
                       issued, page, failed>>
    BY <1>8 DEF Writeback, vars
  <2>2. Calls' = Calls /\ Before' = Before
    BY <2>1 DEF Calls, Before
  <2>3. QueueInv => QueueInv'
    BY <2>1, <2>2 DEF QueueInv, Unwritten
  <2>4. FlushInv => FlushInv'
    BY <2>1, <2>2 DEF FlushInv, Unflushed
  <2>5. OldestLost => OldestLost'
    BY <2>1 DEF OldestLost
  <2> QED BY <2>1, <2>3, <2>4, <2>5 DEF FileInv
<1>9. CASE Kill \/ PowerFail
  <2>1. /\ up /\ ~up' /\ UNCHANGED <<starts, patch_size, issued, disk, failed>>
    BY <1>9 DEF Kill, PowerFail, Ends
  <2>2. starts' = MaxStarts /\ starts' # 0
    BY <2>1, BoundAssumption DEF BatchInv, CountInv, TypeOK
  <2>3. OldestLost'
    BY <2>1 DEF FileInv, OldestLost
  <2>4. page' \subseteq page
    BY <1>9 DEF Kill, PowerFail, Ends
  <2> QED BY <2>1, <2>2, <2>3, <2>4 DEF FileInv
<1> QED BY <1>1, <1>3, <1>4, <1>5, <1>6, <1>7, <1>8, <1>9 DEF Next, Kernel

(* As long as no completion reports an error, the file of a server that is *)
(* started once holds, between two batches, just the updates that are no   *)
(* longer queued.                                                          *)
THEOREM FileIsPrefix ==
  ASSUME RoomForBatch, MaxStarts <= 1
  PROVE  Spec => []PrefixBetweenBatches
<1>1. BatchInv /\ [Next]_vars => BatchInv'
  BY BatchStep
<1>2. BatchInv /\ BatchInv' /\ FileInv /\ [Next]_vars => FileInv'
  BY FileStep
<1>3. BatchInv /\ FileInv => PrefixBetweenBatches
  BY DEF BatchInv, CountInv, FileInv, QueueInv, Unwritten, PrefixBetweenBatches
<1> QED BY BatchInit, FileInit, <1>1, <1>2, <1>3, PTL DEF Spec

(* A power failure takes at most patch_size + 1 updates of such a server.  *)
THEOREM BatchLoss ==
  ASSUME RoomForBatch, MaxStarts <= 1
  PROVE  Spec => []LossBound
<1>1. BatchInv /\ [Next]_vars => BatchInv'
  BY BatchStep
<1>2. BatchInv /\ BatchInv' /\ FileInv /\ [Next]_vars => FileInv'
  BY FileStep
<1>3. BatchInv /\ FileInv => LossBound
  <2> SUFFICES ASSUME BatchInv, FileInv, ~failed
               PROVE  Cardinality((1 .. issued) \ disk) <= patch_size + 1
    BY DEF LossBound
  <2>1. (1 .. issued) \ disk \subseteq (issued - patch_size) .. issued
    BY Numbers DEF FileInv, OldestLost
  <2>2. /\ IsFiniteSet((issued - patch_size) .. issued)
        /\ Cardinality((issued - patch_size) .. issued) = patch_size + 1
    <3>1. /\ issued \in Int /\ issued - patch_size \in Int /\ issued - patch_size <= issued
          /\ issued - (issued - patch_size) + 1 = patch_size + 1
      BY Numbers
    <3> QED BY <3>1, FS_Interval
  <2> QED BY <2>1, <2>2, FS_Subset
<1> QED BY BatchInit, FileInit, <1>1, <1>2, <1>3, PTL DEF Spec

-----------------------------------------------------------------------------
(* Refinement *)

(* SafeUpdates counts as this module does. *)
LEMMA SameCount == \A S : Promise!Cardinality(S) = Cardinality(S)
BY DEF Promise!Cardinality, Cardinality

(* When an fsync has returned, the batch being filled has a call to go     *)
(* before it is full, or is empty: one update fewer may be lost than at    *)
(* the end of a write.                                                     *)
LostFew == Cardinality((1 .. issued) \ disk) <= patch_size
Returns == up /\ waits = 0 /\ call = "write"

LEMMA LostAfterFsync == BatchInv /\ Returns /\ FlushInv => LostFew
<1> SUFFICES ASSUME BatchInv, Returns, FlushInv PROVE LostFew
  OBVIOUS
<1> USE DEF Returns, LostFew
<1>1. current_count <= patch_size /\ Before = 2 * issued - current_count
  BY Numbers DEF BatchInv, CountInv, Before, Calls
<1>2. ASSUME NEW n \in (1 .. issued) \ disk
      PROVE  n \in (issued - patch_size + 1) .. issued
  <2>1. ~(2 * n - 1 <= Before - (patch_size + 1))
    BY DEF FlushInv
  <2> QED BY <1>1, <2>1, Numbers
<1>3. /\ IsFiniteSet((issued - patch_size + 1) .. issued)
      /\ Cardinality((issued - patch_size + 1) .. issued) = patch_size
  <2>1. /\ issued \in Int /\ issued - patch_size + 1 \in Int
        /\ issued - (issued - patch_size + 1) + 1 = patch_size
        /\ issued - patch_size + 1 > issued => patch_size = 0
    BY Numbers
  <2> QED BY <2>1, FS_Interval
<1> QED BY <1>2, <1>3, FS_Subset

(* An fsync that returns tells the program of all that it has written.     *)
LEMMA TellStep ==
  ASSUME BatchInv, BatchInv', up', ~failed => FlushInv', waits' = 0, call' = "write",
         acked' = issued, UNCHANGED <<patch_size, issued, disk, failed>>
  PROVE  Promise!Tell
<1>1. ASSUME ~failed PROVE Cardinality((1 .. issued) \ disk) <= patch_size
  <2>1. FlushInv' /\ Returns'
    BY <1>1 DEF Returns
  <2>2. LostFew'
    BY <2>1, LostAfterFsync, PTL
  <2> QED BY <2>2 DEF LostFew
<1>2. 1 .. acked \subseteq 1 .. acked' /\ 1 .. acked' \subseteq 1 .. issued
  BY DEF BatchInv, TypeOK
<1>3. ~failed => Promise!Cardinality((1 .. acked') \ disk) <= patch_size
  BY <1>1, SameCount
<1>4. UNCHANGED <<issued, disk, failed, patch_size>>
  OBVIOUS
<1> QED BY <1>2, <1>3, <1>4, Zenon DEF Promise!Tell

LEMMA RefineStep ==
  ASSUME RoomForBatch, MaxStarts <= 1, BatchInv, BatchInv', FileInv, FileInv', [Next]_vars
  PROVE  [Promise!Next]_(Promise!vars)
<1> USE DEF Promise!Next, Promise!vars, ring, file
<1>0. TypeOK /\ TypeOK'
  BY DEF BatchInv
<1>1. CASE Start \/ Kill \/ PowerFail \/ UNCHANGED vars
  BY <1>1 DEF Start, Kill, PowerFail, Ends, vars
<1>2. CASE WriteHook
  <2>1. issued' = issued + 1 /\ UNCHANGED <<disk, failed, patch_size>>
    BY <1>2 DEF WriteHook
  <2>2. acked' = acked
    BY <1>2 DEF WriteHook, Hook, Returned
  <2> QED BY <2>1, <2>2 DEF Promise!Make
<1>3. CASE FsyncHook
  <2>1. up' /\ waits = 0 /\ UNCHANGED <<patch_size, issued, disk, failed>>
    BY <1>3 DEF FsyncHook
  <2>2. CASE ~IsFull
    <3>1. waits' = 0 /\ call' = "write" /\ acked' = issued
      BY <1>3, <2>1, <2>2 DEF FsyncHook, Hook, Returned
    <3> QED BY <2>1, <3>1, TellStep DEF FileInv
  <2>3. CASE IsFull
    BY <1>3, <2>1, <2>3 DEF FsyncHook, Hook
  <2> QED BY <2>2, <2>3
<1>4. CASE WaitAndSeen
  <2>1. up' /\ UNCHANGED <<up, patch_size, issued, disk, failed>>
    BY <1>4, Numbers DEF WaitAndSeen, BatchInv, CountInv
  <2>2. CASE waits = 1 /\ call = "fsync"
    <3>1. waits' = 0 /\ call' = "write" /\ acked' = issued
      BY <1>4, <2>2 DEF WaitAndSeen, Returned
    <3> QED BY <2>1, <3>1, TellStep DEF FileInv
  <2>3. CASE ~(waits = 1 /\ call = "fsync")
    <3>1. acked' = acked
      BY <1>4, <2>3, <1>0 DEF WaitAndSeen, Returned, TypeOK
    <3> QED BY <2>1, <3>1
  <2> QED BY <2>2, <2>3
<1>5. ASSUME NEW e \in inflight, Execute(e) PROVE Promise!Persist
  BY <1>5, <1>0 DEF Execute, Promise!Persist, TypeOK, FileInv
<1>6. ASSUME NEW e \in inflight, FailIo(e) PROVE Promise!Break
  BY <1>6 DEF FailIo, Promise!Break
<1>7. CASE Writeback
  BY <1>7, <1>0 DEF Writeback, Promise!Persist, TypeOK, FileInv
<1> QED BY <1>1, <1>2, <1>3, <1>4, <1>5, <1>6, <1>7 DEF Next, Kernel

(* Until a completion reports an error, no more than patch_size of the     *)
(* updates whose fsync has returned are missing from the disk, in every    *)
(* order in which the kernel may execute the batches: the extension        *)
(* implements SafeUpdates in a program that is started once.               *)
THEOREM Refines ==
  ASSUME RoomForBatch, MaxStarts <= 1
  PROVE  Spec => PromiseSpec
<1>1. Init => Promise!Init
  BY SizeAssumption DEF Init, Promise!Init
<1>2. BatchInv /\ [Next]_vars => BatchInv'
  BY BatchStep
<1>3. BatchInv /\ BatchInv' /\ FileInv /\ [Next]_vars => FileInv'
  BY FileStep
<1>4. BatchInv /\ BatchInv' /\ FileInv /\ FileInv' /\ [Next]_vars
        => [Promise!Next]_(Promise!vars)
  BY RefineStep
<1> QED BY BatchInit, FileInit, <1>1, <1>2, <1>3, <1>4, PTL
    DEF Spec, PromiseSpec, Promise!Spec
=============================================================================
