-------------------------- MODULE FastNotifyProofs --------------------------
(***************************************************************************)
(* The fsync-fast-notify extension, for every set of calling threads and   *)
(* every length of a run: its type invariant; that the ring and its queue  *)
(* owe one completion to each waiting thread; and that a reply means       *)
(* durable, as long as the main thread has the ring to itself and no       *)
(* request fails.                                                          *)
(***************************************************************************)
EXTENDS FastNotify, FiniteSetTheorems, TLAPS

-----------------------------------------------------------------------------
(* Types *)

Places == {"idle", "in_write", "saw_write", "written", "in_fsync", "saw_fsync", "flushed"}

LEMMA TypeInit == Init => TypeOK
<1> SUFFICES ASSUME Init PROVE TypeOK
  OBVIOUS
<1>1. up \in BOOLEAN /\ failed \in BOOLEAN /\ shared \in BOOLEAN /\ clash \in BOOLEAN
  BY DEF Init
<1>2. /\ pc \in [Callers -> Places]
      /\ ~(pc[Main] # "idle")
  BY CallersAssumption DEF Init, Places
<1>3. /\ inflight \subseteq Requests /\ inflightOther \in Nat
      /\ queue \in 0 .. RingEntries /\ cq \in Nat
      /\ issued \in 0 .. MaxUpdates /\ acked \subseteq 1 .. MaxUpdates
      /\ page \subseteq 1 .. MaxUpdates /\ disk \subseteq page
  BY BoundAssumption, RingAssumption DEF Init
<1>4. QED
  BY <1>1, <1>2, <1>3 DEF TypeOK, Places

(* What a submission of the main thread does to the ring. *)
LEMMA Submitted ==
  ASSUME TypeOK, NEW r \in Requests, Submit(r)
  PROVE  /\ inflight' \subseteq Requests /\ inflightOther' \in Nat
         /\ queue' \in 0 .. RingEntries /\ cq' = cq /\ clash' = clash
         /\ inflight' \subseteq inflight \cup {r}
         /\ queue < RingEntries => inflight' = inflight \cup {r}
BY RingAssumption DEF Submit, TypeOK

(* What another thread's call does to it. *)
LEMMA Queued ==
  ASSUME TypeOK, NEW c \in Callers, OtherFsyncHook(c)
  PROVE  /\ queue' \in 0 .. RingEntries /\ clash' \in BOOLEAN /\ (clash => clash')
         /\ ~clash' => queue = RingEntries \/ queue' = queue + 1
<1>1. PICK kept \in BOOLEAN :
        /\ kept => queue < RingEntries
        /\ queue' = IF kept THEN queue + 1 ELSE queue
        /\ clash' = (clash \/ (~kept /\ queue < RingEntries))
  BY DEF OtherFsyncHook
<1>2. queue \in 0 .. RingEntries /\ RingEntries \in Nat /\ clash \in BOOLEAN
  BY RingAssumption DEF TypeOK
<1>3. CASE kept
  BY <1>1, <1>2, <1>3
<1>4. CASE ~kept
  <2>1. clash' = (clash \/ queue < RingEntries)
    BY <1>1, <1>4
  <2>2. ~clash' => ~(queue < RingEntries)
    BY <2>1
  <2>3. ~clash' => queue = RingEntries
    BY <1>2, <2>2
  <2>4. queue' = queue
    BY <1>1, <1>4
  <2>5. clash' \in BOOLEAN /\ (clash => clash')
    BY <1>2, <2>1
  <2>6. QED
    BY <1>2, <2>3, <2>4, <2>5
<1>5. QED
  BY <1>3, <1>4

(* The counter of completions stays a number because a thread that takes   *)
(* one has seen it, and nobody else has.                                   *)
LEMMA TypeStep == TypeOK /\ SeenIsThere /\ [Next]_vars => TypeOK'
<1> SUFFICES ASSUME TypeOK, SeenIsThere, [Next]_vars PROVE TypeOK'
  OBVIOUS
<1> USE BoundAssumption, CallersAssumption
<1>1. CASE Start
  <2>1. up' \in BOOLEAN
    BY <1>1 DEF Start
  <2>2. QED
    BY <1>1, <2>1 DEF Start, TypeOK, ring, file
<1>2. CASE WriteHook
  <2>1. issued' \in 1 .. MaxUpdates
    BY <1>2 DEF WriteHook, TypeOK
  <2>2. Request("write", issued') \in Requests
    BY <2>1 DEF Request, Requests
  <2>3. QED
    BY <1>2, <2>1, <2>2, Submitted DEF WriteHook, TypeOK, file
<1>3. CASE FsyncHook
  <2>1. issued \in 1 .. MaxUpdates
    BY <1>3 DEF FsyncHook, TypeOK
  <2>2. Request("fsync", issued) \in Requests
    BY <2>1 DEF Request, Requests
  <2>3. QED
    BY <1>3, <2>1, <2>2, Submitted DEF FsyncHook, TypeOK, file
<1>4. ASSUME NEW c \in Callers, OtherFsyncHook(c) PROVE TypeOK'
  <2>1. shared' \in BOOLEAN
    BY <1>4 DEF OtherFsyncHook
  <2>2. QED
    BY <1>4, <2>1, Queued DEF OtherFsyncHook, TypeOK, file
<1>5. ASSUME NEW c \in Callers, Seen(c) PROVE TypeOK'
  <2>1. cq' \in Nat
    <3>1. CASE clash
      BY <1>5, <3>1 DEF Seen, TypeOK
    <3>2. CASE ~clash
      BY <1>5, <3>2 DEF Seen, Returns, SeenIsThere, TypeOK
    <3>3. QED
      BY <3>1, <3>2
  <2>2. After(c) \in {"idle", "written", "flushed"}
    BY DEF After
  <2>3. pc[Main] # "idle" \/ pc'[Main] = "idle"
    BY <1>5 DEF Seen, Returns, HasSeen, TypeOK
  <2>4. QED
    BY <1>5, <2>1, <2>2, <2>3 DEF Seen, Returns, TypeOK, file
<1>14. ASSUME NEW c \in Callers, Wait(c) PROVE TypeOK'
  <2>1. clash' \in BOOLEAN
    BY <1>14 DEF Wait, TypeOK
  <2>2. pc'[Main] # "idle" => pc[Main] # "idle"
    BY <1>14 DEF Wait, Waiting, TypeOK
  <2>3. pc' \in [Callers -> Places]
    BY <1>14 DEF Wait, TypeOK, Places
  <2>4. QED
    BY <1>14, <2>1, <2>2, <2>3 DEF Wait, TypeOK, Places, ring, file
<1>6. CASE Reply
  <2>1. issued \in 1 .. MaxUpdates
    BY <1>6 DEF Reply, TypeOK
  <2>2. QED
    BY <1>6, <2>1 DEF Reply, TypeOK, ring, file
<1>7. ASSUME NEW r \in inflight, Execute(r) PROVE TypeOK'
  <2>1. r.upd \in 1 .. MaxUpdates
    BY DEF TypeOK, Requests
  <2>2. page' \subseteq 1 .. MaxUpdates /\ disk' \subseteq page'
    BY <1>7, <2>1 DEF Execute, TypeOK
  <2>3. QED
    BY <1>7, <2>2 DEF Execute, Complete, TypeOK
<1>8. ASSUME NEW r \in inflight, FailIo(r) PROVE TypeOK'
  <2>1. failed' \in BOOLEAN
    BY <1>8 DEF FailIo
  <2>2. QED
    BY <1>8, <2>1 DEF FailIo, Complete, TypeOK
<1>9. CASE CompleteOther
  BY <1>9 DEF CompleteOther, TypeOK, file
<1>10. CASE Writeback
  BY <1>10 DEF Writeback, TypeOK, ring
<1>11. CASE Kill \/ PowerFail
  <2>1. up' \in BOOLEAN
    BY <1>11 DEF Kill, PowerFail, Ends
  <2>2. page' \subseteq page /\ disk \subseteq page'
    BY <1>11 DEF Kill, PowerFail, Ends, TypeOK
  <2>3. /\ pc' = [c \in Callers |-> "idle"] /\ ~(pc'[Main] # "idle")
        /\ inflight' = {} /\ inflightOther' = 0 /\ queue' = 0 /\ cq' = 0
        /\ clash' = FALSE
        /\ UNCHANGED <<issued, acked, disk, failed, shared>>
    BY <1>11 DEF Kill, PowerFail, Ends
  <2>4. QED
    <3>1. queue' \in 0 .. RingEntries
      BY <2>3, RingAssumption
    <3>2. clash' \in BOOLEAN
      BY <2>3
    <3>3. QED
      BY <2>1, <2>2, <2>3, <3>1, <3>2 DEF TypeOK
<1>12. CASE UNCHANGED vars
  BY <1>12 DEF vars, ring, file, TypeOK
<1>13. QED
  BY <1>1, <1>2, <1>3, <1>4, <1>5, <1>6, <1>7, <1>8, <1>9, <1>10, <1>11, <1>12,
     <1>14 DEF Next, Kernel

LEMMA SeenStep == TypeOK /\ SeenIsThere /\ [Next]_vars => SeenIsThere'
<1> SUFFICES ASSUME TypeOK, SeenIsThere, [Next]_vars, ~clash',
                    NEW c \in Callers, HasSeen(c)'
             PROVE  cq' > 0 /\ \A o \in Callers \ {c} : ~HasSeen(o)'
  BY DEF SeenIsThere
<1> USE CallersAssumption
<1>1. CASE Start \/ Writeback \/ UNCHANGED vars
  BY <1>1 DEF Start, Writeback, vars, ring, SeenIsThere, HasSeen
<1>2. CASE WriteHook \/ FsyncHook
  BY <1>2 DEF WriteHook, FsyncHook, Submit, SeenIsThere, HasSeen, TypeOK
<1>3. ASSUME NEW d \in Callers, OtherFsyncHook(d)
      PROVE  cq' > 0 /\ \A o \in Callers \ {c} : ~HasSeen(o)'
  <2>1. ~clash /\ cq' = cq /\ pc' = [pc EXCEPT ![d] = "in_fsync"]
    BY <1>3, Queued DEF OtherFsyncHook
  <2>2. QED
    BY <2>1 DEF SeenIsThere, HasSeen, TypeOK
<1>4. ASSUME NEW d \in Callers, Wait(d)
      PROVE  cq' > 0 /\ \A o \in Callers \ {c} : ~HasSeen(o)'
  <2>1. /\ cq > 0 /\ cq' = cq /\ \A o \in Callers \ {d} : ~HasSeen(o)
        /\ \A o \in Callers \ {d} : pc'[o] = pc[o]
    BY <1>4 DEF Wait, ring, TypeOK
  <2>2. \A o \in Callers \ {d} : ~HasSeen(o)'
    BY <2>1 DEF HasSeen
  <2>3. QED
    BY <2>1, <2>2
<1>5. ASSUME NEW d \in Callers, Seen(d)
      PROVE  cq' > 0 /\ \A o \in Callers \ {c} : ~HasSeen(o)'
  <2>1. ~clash /\ HasSeen(d) /\ After(d) \in {"idle", "written", "flushed"}
        /\ pc' = [pc EXCEPT ![d] = After(d)]
    BY <1>5 DEF Seen, Returns, After
  <2>2. \A o \in Callers : ~HasSeen(o)'
    BY <2>1 DEF SeenIsThere, HasSeen, TypeOK
  <2>3. QED
    BY <2>2
<1>6. CASE Reply
  BY <1>6 DEF Reply, ring, SeenIsThere, HasSeen, TypeOK
<1>7. CASE Kernel
  BY <1>7 DEF Kernel, Execute, FailIo, Complete, CompleteOther, SeenIsThere, HasSeen, TypeOK
<1>8. CASE Kill \/ PowerFail
  BY <1>8 DEF Kill, PowerFail, Ends, HasSeen
<1>9. QED
  BY <1>1, <1>2, <1>3, <1>4, <1>5, <1>6, <1>7, <1>8 DEF Next

LEMMA SeenInit == Init => SeenIsThere
BY DEF Init, SeenIsThere, HasSeen

(* Every variable keeps its type. *)
THEOREM TypeCorrect == Spec => []TypeOK
BY TypeInit, SeenInit, TypeStep, SeenStep, PTL DEF Spec

-----------------------------------------------------------------------------
(* One completion for each thread that waits                               *)

(* The requests of the main thread are told apart by their updates, so     *)
(* that one more request is one more to wait for.                          *)
FreshInv ==
  /\ \A r \in inflight : r.upd <= issued
  /\ pc[Main] \in {"in_write", "saw_write", "written"} =>
       \A r \in inflight : r.op = "fsync" => r.upd < issued

RingInv == TypeOK /\ SeenIsThere /\ OneEach /\ FreshInv /\ IsFiniteSet(inflight)

LEMMA RingInit == Init => RingInv
<1> SUFFICES ASSUME Init PROVE RingInv
  OBVIOUS
<1>1. Waiters = {}
  BY DEF Init, Waiters, Waiting, HasSeen
<1>2. OneEach /\ IsFiniteSet(inflight)
  BY <1>1, FS_EmptySet DEF Init, OneEach, Outstanding
<1>3. FreshInv
  BY DEF Init, FreshInv
<1>4. QED
  BY <1>2, <1>3, TypeInit, SeenInit DEF RingInv

(* The sets that are counted are finite, and so the counts are numbers. *)
LEMMA Finite ==
  ASSUME RingInv
  PROVE  /\ IsFiniteSet(inflight) /\ Cardinality(inflight) \in Nat
         /\ IsFiniteSet(Waiters) /\ Cardinality(Waiters) \in Nat
         /\ inflightOther \in Nat /\ queue \in Nat /\ cq \in Nat
<1>1. Waiters \in SUBSET Callers
  BY DEF Waiters
<1>2. QED
  BY <1>1, FS_Subset, FS_CardinalityType, CallersAssumption DEF RingInv, TypeOK

(* A thread that does not wait leaves room in the queue. *)
LEMMA Room ==
  ASSUME RingInv, NEW c \in Callers, c \notin Waiters, ~clash
  PROVE  queue < RingEntries
<1>1. /\ IsFiniteSet(Waiters \cup {c})
      /\ Cardinality(Waiters \cup {c}) = Cardinality(Waiters) + 1
  BY Finite, FS_AddElement
<1>2. Cardinality(Waiters \cup {c}) <= Cardinality(Callers) /\ Cardinality(Callers) \in Nat
  <2>1. Waiters \cup {c} \in SUBSET Callers
    BY DEF Waiters
  <2>2. QED
    BY <2>1, FS_Subset, FS_CardinalityType, CallersAssumption
<1>3. queue <= Cardinality(Waiters)
  BY Finite DEF RingInv, OneEach, Outstanding
<1>4. QED
  BY <1>1, <1>2, <1>3, Finite, RingAssumption

(* A thread that enters a hook is one more that waits. *)
LEMMA Enter ==
  ASSUME RingInv, NEW c \in Callers, c \notin Waiters, NEW s \in {"in_write", "in_fsync"},
         pc' = [pc EXCEPT ![c] = s]
  PROVE  Cardinality(Waiters') = Cardinality(Waiters) + 1
<1>1. Waiters' = Waiters \cup {c} /\ c \notin Waiters
  BY DEF Waiters, Waiting, HasSeen, RingInv, TypeOK
<1>2. QED
  BY <1>1, Finite, FS_AddElement

(* A request that completes leaves one more completion to be seen. *)
LEMMA Completed ==
  ASSUME RingInv, NEW r \in inflight, Complete(r)
  PROVE  OneEach' /\ FreshInv' /\ IsFiniteSet(inflight')
<1>1. /\ IsFiniteSet(inflight')
      /\ Cardinality(inflight') = Cardinality(inflight) - 1
  BY Finite, FS_RemoveElement DEF Complete
<1>2. Waiters' = Waiters
  BY DEF Complete, Waiters, Waiting, HasSeen
<1>3. OneEach'
  BY <1>1, <1>2, Finite DEF Complete, RingInv, OneEach, Outstanding
<1>4. FreshInv'
  BY DEF Complete, RingInv, FreshInv
<1>5. QED
  BY <1>1, <1>3, <1>4

LEMMA RingStep == RingInv /\ [Next]_vars => RingInv'
<1> SUFFICES ASSUME RingInv, [Next]_vars PROVE RingInv'
  OBVIOUS
<1> USE BoundAssumption, CallersAssumption
<1>0. TypeOK' /\ SeenIsThere'
  BY TypeStep, SeenStep DEF RingInv
<1>a. /\ issued \in Nat /\ issued + 1 \in Nat /\ ~(issued + 1 <= issued)
      /\ ~(issued < issued) /\ issued <= issued /\ issued < issued + 1
  BY DEF RingInv, TypeOK
<1>b. \A r \in inflight : r.upd \in Nat /\ r.upd <= issued
  <2>1. \A r \in Requests : r.upd \in 1 .. MaxUpdates
    BY DEF Requests
  <2>2. QED
    BY <2>1 DEF RingInv, TypeOK, FreshInv
<1>1. CASE Start \/ Writeback \/ UNCHANGED vars
  <2>1. UNCHANGED <<pc, inflight, inflightOther, queue, cq, clash, issued>>
    BY <1>1 DEF Start, Writeback, ring, vars
  <2>2. Waiters' = Waiters
    BY <2>1 DEF Waiters, Waiting, HasSeen
  <2>3. OneEach' /\ FreshInv' /\ IsFiniteSet(inflight')
    BY <2>1, <2>2 DEF RingInv, OneEach, Outstanding, FreshInv
  <2>4. QED
    BY <1>0, <2>3 DEF RingInv
<1>2. CASE WriteHook
  <2> DEFINE e == Request("write", issued + 1)
  <2>1. e.upd = issued + 1 /\ e.op = "write"
    BY DEF Request
  <2>2. /\ Submit(e) /\ issued' = issued + 1
        /\ pc' = [pc EXCEPT ![Main] = "in_write"]
        /\ Main \notin Waiters
    BY <1>2 DEF WriteHook, Waiters, Waiting, HasSeen
  <2>a. /\ inflight' \subseteq inflight \cup {e} /\ UNCHANGED <<cq, clash>>
        /\ inflightOther' = inflightOther + queue /\ queue' = 0
        /\ ~clash => inflight' = inflight \cup {e}
    BY <2>2, Room DEF Submit
  <2> HIDE DEF e
  <2>3. e \notin inflight
    BY <1>a, <1>b, <2>1
  <2>4. /\ IsFiniteSet(inflight')
        /\ ~clash => Cardinality(inflight') = Cardinality(inflight) + 1
    <3>1. /\ IsFiniteSet(inflight \cup {e})
          /\ Cardinality(inflight \cup {e}) = Cardinality(inflight) + 1
      BY <2>3, Finite, FS_AddElement
    <3>2. QED
      BY <2>a, <3>1, FS_Subset
  <2>5. Cardinality(Waiters') = Cardinality(Waiters) + 1
    BY <2>2, Enter
  <2>6. OneEach'
    BY <2>a, <2>4, <2>5, Finite DEF RingInv, OneEach, Outstanding
  <2>7. ASSUME NEW r \in inflight'
        PROVE  r.upd <= issued' /\ (r.op = "fsync" => r.upd < issued')
    <3>1. CASE r = e
      BY <1>a, <2>1, <2>2, <3>1
    <3>2. CASE r \in inflight
      BY <1>a, <1>b, <2>2, <3>2
    <3>3. QED
      BY <2>a, <3>1, <3>2
  <2>8. FreshInv'
    BY <2>7 DEF FreshInv
  <2>9. QED
    BY <1>0, <2>4, <2>6, <2>8 DEF RingInv
<1>3. CASE FsyncHook
  <2> DEFINE e == Request("fsync", issued)
  <2>1. e.upd = issued /\ e.op = "fsync"
    BY DEF Request
  <2>2. /\ Submit(e) /\ issued' = issued
        /\ pc[Main] = "written" /\ pc' = [pc EXCEPT ![Main] = "in_fsync"]
        /\ Main \notin Waiters
    BY <1>3 DEF FsyncHook, Waiters, Waiting, HasSeen
  <2>a. /\ inflight' \subseteq inflight \cup {e} /\ UNCHANGED <<cq, clash>>
        /\ inflightOther' = inflightOther + queue /\ queue' = 0
        /\ ~clash => inflight' = inflight \cup {e}
    BY <2>2, Room DEF Submit
  <2> HIDE DEF e
  <2>3. e \notin inflight
    BY <1>a, <2>1, <2>2 DEF RingInv, FreshInv
  <2>4. /\ IsFiniteSet(inflight')
        /\ ~clash => Cardinality(inflight') = Cardinality(inflight) + 1
    <3>1. /\ IsFiniteSet(inflight \cup {e})
          /\ Cardinality(inflight \cup {e}) = Cardinality(inflight) + 1
      BY <2>3, Finite, FS_AddElement
    <3>2. QED
      BY <2>a, <3>1, FS_Subset
  <2>5. Cardinality(Waiters') = Cardinality(Waiters) + 1
    BY <2>2, Enter
  <2>6. OneEach'
    BY <2>a, <2>4, <2>5, Finite DEF RingInv, OneEach, Outstanding
  <2>7. \A r \in inflight' : r.upd <= issued'
    BY <1>a, <1>b, <2>1, <2>2, <2>a
  <2>8. pc'[Main] = "in_fsync"
    BY <2>2 DEF RingInv, TypeOK
  <2>9. FreshInv'
    BY <2>7, <2>8 DEF FreshInv
  <2>10. QED
    BY <1>0, <2>4, <2>6, <2>9 DEF RingInv
<1>4. ASSUME NEW c \in Callers, OtherFsyncHook(c) PROVE RingInv'
  <2>1. /\ pc' = [pc EXCEPT ![c] = "in_fsync"] /\ c # Main
        /\ UNCHANGED <<inflight, inflightOther, cq, issued>> /\ c \notin Waiters
    BY <1>4 DEF OtherFsyncHook, Waiters, Waiting, HasSeen
  <2>a. ~clash' => ~clash /\ queue' = queue + 1
    <3> SUFFICES ASSUME ~clash' PROVE ~clash /\ queue' = queue + 1
      OBVIOUS
    <3>1. ~clash /\ (queue = RingEntries \/ queue' = queue + 1)
      BY <1>4, Queued DEF RingInv
    <3>2. queue < RingEntries
      BY <2>1, <3>1, Room
    <3>3. QED
      BY <3>1, <3>2, Finite, RingAssumption
  <2>2. Cardinality(Waiters') = Cardinality(Waiters) + 1
    BY <2>1, Enter
  <2>3. OneEach'
    BY <2>1, <2>a, <2>2, Finite DEF RingInv, OneEach, Outstanding
  <2>4. pc'[Main] = pc[Main]
    BY <2>1 DEF RingInv, TypeOK
  <2>5. FreshInv' /\ IsFiniteSet(inflight')
    BY <2>1, <2>4 DEF RingInv, FreshInv
  <2>6. QED
    BY <1>0, <2>3, <2>5 DEF RingInv
<1>5. ASSUME NEW c \in Callers, Wait(c) PROVE RingInv'
  <2>1. /\ Waiting(c) /\ UNCHANGED <<inflight, inflightOther, queue, cq, issued>>
        /\ clash => clash'
    BY <1>5 DEF Wait, ring
  <2>2. PICK s \in {"saw_write", "saw_fsync"} : pc' = [pc EXCEPT ![c] = s]
    BY <1>5 DEF Wait
  <2>3. Waiters' = Waiters
    BY <2>1, <2>2 DEF Waiters, Waiting, HasSeen, RingInv, TypeOK
  <2>4. OneEach'
    BY <2>1, <2>3 DEF RingInv, OneEach, Outstanding
  <2>5. pc'[Main] \in {"in_write", "saw_write", "written"}
          => pc[Main] \in {"in_write", "saw_write", "written"}
    BY <1>5 DEF Wait, Waiting, RingInv, TypeOK
  <2>6. FreshInv' /\ IsFiniteSet(inflight')
    BY <2>1, <2>5 DEF RingInv, FreshInv
  <2>7. QED
    BY <1>0, <2>4, <2>6 DEF RingInv
<1>11. ASSUME NEW c \in Callers, Seen(c) PROVE RingInv'
  <2>1. /\ pc' = [pc EXCEPT ![c] = After(c)] /\ HasSeen(c)
        /\ UNCHANGED <<inflight, inflightOther, queue, clash, issued>>
        /\ ~clash => cq' = cq - 1
    BY <1>11 DEF Seen, Returns
  <2>2. After(c) \in {"idle", "written", "flushed"}
    BY DEF After
  <2>3. Waiters' = Waiters \ {c} /\ c \in Waiters
    BY <2>1, <2>2 DEF Waiters, Waiting, HasSeen, RingInv, TypeOK
  <2>4. Cardinality(Waiters') = Cardinality(Waiters) - 1
    BY <2>3, Finite, FS_RemoveElement
  <2>5. OneEach'
    BY <2>1, <2>4, Finite DEF RingInv, OneEach, Outstanding
  <2>6. pc'[Main] \in {"in_write", "saw_write", "written"}
          => pc[Main] \in {"in_write", "saw_write", "written"}
    BY <2>1, <2>2 DEF After, HasSeen, RingInv, TypeOK
  <2>7. FreshInv' /\ IsFiniteSet(inflight')
    BY <2>1, <2>6 DEF RingInv, FreshInv
  <2>8. QED
    BY <1>0, <2>5, <2>7 DEF RingInv
<1>6. CASE Reply
  <2>1. /\ pc[Main] = "flushed" /\ pc' = [pc EXCEPT ![Main] = "idle"]
        /\ UNCHANGED <<inflight, inflightOther, queue, cq, clash, issued>>
    BY <1>6 DEF Reply, ring
  <2>2. Waiters' = Waiters /\ pc'[Main] = "idle"
    BY <2>1 DEF Waiters, Waiting, HasSeen, RingInv, TypeOK
  <2>3. OneEach' /\ FreshInv' /\ IsFiniteSet(inflight')
    BY <2>1, <2>2 DEF RingInv, OneEach, Outstanding, FreshInv
  <2>4. QED
    BY <1>0, <2>3 DEF RingInv
<1>7. ASSUME NEW r \in inflight, Execute(r) \/ FailIo(r) PROVE RingInv'
  BY <1>0, <1>7, Completed DEF Execute, FailIo, RingInv
<1>8. CASE CompleteOther
  <2>1. /\ inflightOther' = inflightOther - 1 /\ cq' = cq + 1
        /\ UNCHANGED <<pc, inflight, queue, clash, issued>>
    BY <1>8 DEF CompleteOther
  <2>2. Waiters' = Waiters
    BY <2>1 DEF Waiters, Waiting, HasSeen
  <2>3. OneEach' /\ FreshInv' /\ IsFiniteSet(inflight')
    BY <2>1, <2>2, Finite DEF RingInv, OneEach, Outstanding, FreshInv
  <2>4. QED
    BY <1>0, <2>3 DEF RingInv
<1>9. CASE Kill \/ PowerFail
  <2>1. /\ pc' = [c \in Callers |-> "idle"]
        /\ inflight' = {} /\ inflightOther' = 0 /\ queue' = 0 /\ cq' = 0
    BY <1>9 DEF Kill, PowerFail, Ends
  <2>2. Waiters' = {}
    BY <2>1 DEF Waiters, Waiting, HasSeen
  <2>3. OneEach' /\ IsFiniteSet(inflight')
    BY <2>1, <2>2, FS_EmptySet DEF OneEach, Outstanding
  <2>4. FreshInv'
    BY <2>1 DEF FreshInv
  <2>5. QED
    BY <1>0, <2>3, <2>4 DEF RingInv
<1>10. QED
  BY <1>1, <1>2, <1>3, <1>4, <1>5, <1>6, <1>7, <1>8, <1>9, <1>11
     DEF Next, Kernel

(* However many threads call fdatasync, the ring and its queue owe one     *)
(* completion to each thread that waits: none is left over for a later     *)
(* call, and what a waiting thread misses is in the queue, refused.        *)
THEOREM OwesOneEach == Spec => []OneEach
<1>1. Init => RingInv
  BY RingInit
<1>2. RingInv /\ [Next]_vars => RingInv'
  BY RingStep
<1>3. RingInv => OneEach
  BY DEF RingInv
<1>4. QED
  BY <1>1, <1>2, <1>3, PTL DEF Spec

-----------------------------------------------------------------------------
(* A reply means durable, for a main thread that is alone on the ring      *)

AckInv == TypeOK /\ SeenIsThere /\ AckedDurable /\ OwnCompletion /\ Alone

LEMMA AckInit == Init => AckInv
<1> SUFFICES ASSUME Init PROVE AckInv
  OBVIOUS
<1>1. AckedDurable /\ Alone
  BY DEF Init, AckedDurable, Alone
<1>2. pc[Main] = "idle"
  BY CallersAssumption DEF Init
<1>3. OwnCompletion
  BY <1>2 DEF Init, OwnCompletion
<1>4. QED
  BY <1>1, <1>3, TypeInit, SeenInit DEF AckInv

(* Alone, the main thread finds room in the queue and nothing else in it. *)
LEMMA AloneSubmits ==
  ASSUME AckInv, ~shared, NEW r, Submit(r)
  PROVE  /\ inflight' = inflight \cup {r}
         /\ inflightOther' = 0 /\ queue' = 0 /\ cq' = cq /\ ~clash'
<1>1. queue < RingEntries
  <2>1. Cardinality(Callers) \in Nat \ {0}
    BY CallersAssumption, FS_EmptySet, FS_CardinalityType
  <2>2. QED
    BY <2>1, RingAssumption DEF AckInv, Alone
<1>2. QED
  BY <1>1 DEF Submit, AckInv, Alone

LEMMA AckStep == AckInv /\ [Next]_vars => AckInv'
<1> SUFFICES ASSUME AckInv, [Next]_vars PROVE AckInv'
  OBVIOUS
<1> USE CallersAssumption
<1>0. TypeOK' /\ SeenIsThere'
  BY TypeStep, SeenStep DEF AckInv
<1>a. pc \in [Callers -> Places]
  BY DEF AckInv, TypeOK, Places
<1>1. CASE Start \/ UNCHANGED vars
  <2>1. UNCHANGED <<pc, inflight, inflightOther, queue, cq, clash, issued, acked, page,
                    disk, failed, shared>>
    BY <1>1 DEF Start, vars, ring, file
  <2>2. QED
    BY <1>0, <2>1 DEF AckInv, AckedDurable, OwnCompletion, Alone
<1>2. CASE WriteHook
  <2>1. /\ pc[Main] = "idle" /\ pc'[Main] = "in_write" /\ issued' = issued + 1
        /\ \A c \in Callers \ {Main} : pc'[c] = pc[c]
        /\ Submit(Request("write", issued'))
        /\ UNCHANGED <<acked, disk, failed, shared>>
    BY <1>2, <1>a DEF WriteHook, file
  <2>a. ~shared => /\ inflight' = inflight \cup {Request("write", issued')}
                   /\ inflightOther' = 0 /\ queue' = 0 /\ cq' = cq /\ ~clash'
    BY <2>1, AloneSubmits
  <2>2. OwnCompletion'
    BY <2>1, <2>a DEF AckInv, OwnCompletion
  <2>3. QED
    BY <1>0, <2>1, <2>2, <2>a DEF AckInv, AckedDurable, Alone
<1>3. CASE FsyncHook
  <2>1. /\ pc[Main] = "written" /\ pc'[Main] = "in_fsync"
        /\ \A c \in Callers \ {Main} : pc'[c] = pc[c]
        /\ Submit(Request("fsync", issued))
        /\ UNCHANGED <<issued, acked, page, disk, failed, shared>>
    BY <1>3, <1>a DEF FsyncHook, file
  <2>a. ~shared => /\ inflight' = inflight \cup {Request("fsync", issued)}
                   /\ inflightOther' = 0 /\ queue' = 0 /\ cq' = cq /\ ~clash'
    BY <2>1, AloneSubmits
  <2>2. OwnCompletion'
    BY <2>1, <2>a DEF AckInv, OwnCompletion
  <2>3. QED
    BY <1>0, <2>1, <2>2, <2>a DEF AckInv, AckedDurable, Alone
<1>4. ASSUME NEW c \in Callers, OtherFsyncHook(c) PROVE AckInv'
  <2>1. shared'
    BY <1>4 DEF OtherFsyncHook
  <2>2. QED
    BY <1>0, <2>1 DEF AckInv, AckedDurable, OwnCompletion, Alone
<1>5. ASSUME NEW c \in Callers, Wait(c) PROVE AckInv'
  <2>1. /\ Waiting(c) /\ (cq > 0 \/ clash)
        /\ pc' = [pc EXCEPT ![c] = IF pc[c] = "in_write" THEN "saw_write" ELSE "saw_fsync"]
        /\ UNCHANGED <<inflight, inflightOther, queue, cq, issued, acked, page, disk,
                       failed, shared>>
    BY <1>5 DEF Wait, ring, file
  <2>2. ASSUME ~shared
        PROVE  /\ c = Main /\ cq > 0 /\ ~clash'
               /\ pc'[Main] = IF pc[Main] = "in_write" THEN "saw_write" ELSE "saw_fsync"
    <3>1. c = Main /\ cq > 0
      BY <2>1, <2>2 DEF AckInv, Alone, Waiting
    <3>2. ~\E o \in Callers \ {c} : HasSeen(o)
      BY <2>2, <3>1 DEF AckInv, Alone, HasSeen
    <3>3. ~clash'
      BY <1>5, <2>2, <3>2 DEF Wait, AckInv, Alone
    <3>4. QED
      BY <1>a, <2>1, <3>1, <3>3
  <2>3. Alone'
    BY <1>a, <2>1, <2>2 DEF AckInv, Alone
  <2>4. ASSUME ~failed, ~shared PROVE OwnCompletion'
    <3>1. CASE pc[Main] = "in_write"
      <4>1. inflight = {} /\ cq = 1 /\ issued \in page
        BY <2>2, <2>4, <3>1 DEF AckInv, OwnCompletion
      <4>2. QED
        BY <2>1, <2>2, <2>4, <3>1, <4>1 DEF OwnCompletion
    <3>2. CASE pc[Main] = "in_fsync"
      <4>1. inflight = {} /\ cq = 1 /\ issued \in disk
        BY <2>2, <2>4, <3>2 DEF AckInv, OwnCompletion
      <4>2. QED
        BY <2>1, <2>2, <2>4, <3>2, <4>1 DEF OwnCompletion
    <3>3. pc[Main] \in {"in_write", "in_fsync"}
      BY <2>1, <2>2, <2>4 DEF Waiting
    <3>4. QED
      BY <3>1, <3>2, <3>3
  <2>5. OwnCompletion'
    BY <2>1, <2>4 DEF OwnCompletion
  <2>6. QED
    BY <1>0, <2>1, <2>3, <2>5 DEF AckInv, AckedDurable
<1>13. ASSUME NEW c \in Callers, Seen(c) PROVE AckInv'
  <2>1. /\ HasSeen(c) /\ pc' = [pc EXCEPT ![c] = After(c)]
        /\ ~clash => cq' = cq - 1
        /\ UNCHANGED <<inflight, inflightOther, queue, clash, issued, acked, page, disk,
                       failed, shared>>
    BY <1>13 DEF Seen, Returns, file
  <2>2. ASSUME ~shared
        PROVE  /\ c = Main /\ ~clash /\ cq' = cq - 1
               /\ pc'[Main] = IF pc[Main] = "saw_write" THEN "written" ELSE "flushed"
    <3>1. c = Main /\ ~clash
      BY <2>1, <2>2 DEF AckInv, Alone, HasSeen
    <3>2. After(c) = IF pc[Main] = "saw_write" THEN "written" ELSE "flushed"
      BY <3>1 DEF After
    <3>3. QED
      BY <1>a, <2>1, <3>1, <3>2
  <2>3. Alone'
    BY <1>a, <2>1, <2>2 DEF AckInv, Alone
  <2>4. ASSUME ~failed, ~shared PROVE OwnCompletion'
    <3>1. CASE pc[Main] = "saw_write"
      <4>1. inflight = {} /\ cq = 1 /\ issued \in page
        BY <2>4, <3>1 DEF AckInv, OwnCompletion
      <4>2. QED
        BY <2>1, <2>2, <2>4, <3>1, <4>1 DEF OwnCompletion
    <3>2. CASE pc[Main] = "saw_fsync"
      <4>1. inflight = {} /\ cq = 1 /\ issued \in disk
        BY <2>4, <3>2 DEF AckInv, OwnCompletion
      <4>2. QED
        BY <2>1, <2>2, <2>4, <3>2, <4>1 DEF OwnCompletion
    <3>3. QED
      BY <2>1, <2>2, <2>4, <3>1, <3>2 DEF HasSeen
  <2>5. OwnCompletion'
    BY <2>1, <2>4 DEF OwnCompletion
  <2>6. QED
    BY <1>0, <2>1, <2>3, <2>5 DEF AckInv, AckedDurable
<1>6. CASE Reply
  <2>1. /\ pc[Main] = "flushed" /\ pc'[Main] = "idle" /\ acked' = acked \cup {issued}
        /\ \A c \in Callers \ {Main} : pc'[c] = pc[c]
        /\ UNCHANGED <<inflight, inflightOther, queue, cq, clash, issued, page, disk,
                       failed, shared>>
    BY <1>6, <1>a DEF Reply, ring, file
  <2>2. AckedDurable' /\ OwnCompletion'
    BY <2>1 DEF AckInv, AckedDurable, OwnCompletion
  <2>3. QED
    BY <1>0, <2>1, <2>2 DEF AckInv, Alone
<1>7. ASSUME NEW r \in inflight, Execute(r) PROVE AckInv'
  <2>1. /\ inflight' = inflight \ {r} /\ cq' = cq + 1
        /\ UNCHANGED <<pc, inflightOther, queue, clash, issued, acked, failed, shared>>
        /\ IF r.op = "write" THEN page' = page \cup {r.upd} /\ disk' = disk
                             ELSE disk' = disk \cup page /\ page' = page
    BY <1>7 DEF Execute, Complete
  <2>2. disk \subseteq disk' /\ page \subseteq page'
    BY <2>1
  <2>3. ASSUME ~failed, ~shared PROVE OwnCompletion'
    <3>1. pc[Main] \in {"in_write", "in_fsync"}
      <4>1. r \in inflight
        OBVIOUS
      <4>2. inflight # {} => pc[Main] \in {"in_write", "in_fsync"}
        BY <1>a, <2>3 DEF AckInv, OwnCompletion, Places
      <4>3. QED
        BY <4>1, <4>2
    <3>2. CASE pc[Main] = "in_write"
      <4>1. r = Request("write", issued) /\ inflight = {r} /\ cq = 0
        BY <2>3, <3>2 DEF AckInv, OwnCompletion
      <4>2. inflight' = {} /\ cq' = 1 /\ issued \in page'
        BY <2>1, <4>1 DEF Request
      <4>3. QED
        BY <2>1, <3>2, <4>2 DEF OwnCompletion
    <3>3. CASE pc[Main] = "in_fsync"
      <4>1. r = Request("fsync", issued) /\ inflight = {r} /\ cq = 0 /\ issued \in page
        BY <2>3, <3>3 DEF AckInv, OwnCompletion
      <4>2. inflight' = {} /\ cq' = 1 /\ issued \in page' /\ issued \in disk'
        BY <2>1, <4>1 DEF Request
      <4>3. QED
        BY <2>1, <3>3, <4>2 DEF OwnCompletion
    <3>4. QED
      BY <3>1, <3>2, <3>3
  <2>4. OwnCompletion'
    BY <2>1, <2>3 DEF OwnCompletion
  <2>5. AckedDurable' /\ Alone'
    BY <2>1, <2>2 DEF AckInv, AckedDurable, Alone
  <2>6. QED
    BY <1>0, <2>4, <2>5 DEF AckInv
<1>8. ASSUME NEW r \in inflight, FailIo(r) PROVE AckInv'
  <2>1. failed' /\ UNCHANGED <<pc, inflightOther, queue, clash, shared>>
    BY <1>8 DEF FailIo, Complete
  <2>2. QED
    BY <1>0, <2>1 DEF AckInv, AckedDurable, OwnCompletion, Alone
<1>9. CASE CompleteOther
  <2>1. shared /\ shared'
    BY <1>9 DEF CompleteOther, AckInv, Alone, TypeOK
  <2>2. QED
    BY <1>0, <2>1 DEF AckInv, AckedDurable, OwnCompletion, Alone
<1>10. CASE Writeback
  <2>1. /\ disk \subseteq disk'
        /\ UNCHANGED <<pc, inflight, inflightOther, queue, cq, clash, issued, acked, page,
                       failed, shared>>
    BY <1>10 DEF Writeback, ring
  <2>2. AckedDurable' /\ OwnCompletion' /\ Alone'
    BY <2>1 DEF AckInv, AckedDurable, OwnCompletion, Alone
  <2>3. QED
    BY <1>0, <2>2 DEF AckInv
<1>11. CASE Kill \/ PowerFail
  <2>1. /\ pc' = [c \in Callers |-> "idle"]
        /\ inflight' = {} /\ inflightOther' = 0 /\ queue' = 0 /\ cq' = 0 /\ ~clash'
        /\ UNCHANGED <<acked, disk, failed, shared>>
    BY <1>11 DEF Kill, PowerFail, Ends
  <2>2. pc'[Main] = "idle"
    BY <2>1
  <2>3. AckedDurable' /\ OwnCompletion' /\ Alone'
    BY <2>1, <2>2 DEF AckInv, AckedDurable, OwnCompletion, Alone
  <2>4. QED
    BY <1>0, <2>3 DEF AckInv
<1>12. QED
  BY <1>1, <1>2, <1>3, <1>4, <1>5, <1>6, <1>7, <1>8, <1>9, <1>10, <1>11,
     <1>13 DEF Next, Kernel

(* An update the server has replied to is on disk, until a request fails   *)
(* or another thread of the process shares the ring.                       *)
THEOREM AckedIsDurable == Spec => []AckedDurable
<1>1. Init => AckInv
  BY AckInit
<1>2. AckInv /\ [Next]_vars => AckInv'
  BY AckStep
<1>3. AckInv => AckedDurable
  BY DEF AckInv
<1>4. QED
  BY <1>1, <1>2, <1>3, PTL DEF Spec

-----------------------------------------------------------------------------
(* Refinement *)

(* SafeUpdates counts as this module does. *)
LEMMA SameCount == \A S : Promise!Cardinality(S) = Cardinality(S)
BY DEF Promise!Cardinality, Cardinality

(* Nothing is in the file, or replied to, that was not made: what is on    *)
(* the ring was made before.                                               *)
MadeInv ==
  /\ \A r \in inflight : r.upd \in 1 .. issued
  /\ page \subseteq 1 .. issued
  /\ acked \subseteq 1 .. issued

LEMMA MadeInit == Init => MadeInv
BY DEF Init, MadeInv

LEMMA MadeStep == TypeOK /\ MadeInv /\ [Next]_vars => MadeInv'
<1> SUFFICES ASSUME TypeOK, MadeInv, [Next]_vars PROVE MadeInv'
  OBVIOUS
<1> USE DEF ring, file
<1>1. issued \in Nat /\ 1 .. issued \subseteq 1 .. (issued + 1)
  BY BoundAssumption DEF TypeOK
<1>2. CASE WriteHook
  <2>1. /\ issued' = issued + 1 /\ UNCHANGED <<page, acked>>
        /\ inflight' \subseteq inflight \cup {Request("write", issued + 1)}
    BY <1>2 DEF WriteHook, Submit
  <2>2. Request("write", issued + 1).upd = issued + 1
    BY DEF Request
  <2> QED BY <1>1, <2>1, <2>2 DEF MadeInv
<1>3. CASE FsyncHook
  <2>1. /\ inflight' \subseteq inflight \cup {Request("fsync", issued)}
        /\ pc[Main] = "written" /\ UNCHANGED <<issued, page, acked>>
    BY <1>3 DEF FsyncHook, Submit
  <2>2. Request("fsync", issued).upd = issued /\ issued > 0
    BY <2>1 DEF Request, TypeOK
  <2> QED BY <1>1, <2>1, <2>2 DEF MadeInv
<1>4. CASE Reply
  <2>1. /\ acked' = acked \cup {issued} /\ pc[Main] = "flushed"
        /\ UNCHANGED <<issued, page, inflight>>
    BY <1>4 DEF Reply
  <2>2. issued > 0
    BY <2>1 DEF TypeOK
  <2> QED BY <1>1, <2>1, <2>2 DEF MadeInv
<1>5. ASSUME NEW r \in inflight, Execute(r) PROVE MadeInv'
  <2>1. /\ inflight' = inflight \ {r} /\ page' \subseteq page \cup {r.upd}
        /\ UNCHANGED <<issued, acked>>
    BY <1>5 DEF Execute, Complete
  <2> QED BY <2>1 DEF MadeInv
<1>6. ASSUME NEW r \in inflight, FailIo(r) PROVE MadeInv'
  BY <1>6 DEF FailIo, Complete, MadeInv
<1>7. CASE Start \/ CompleteOther \/ Writeback \/ UNCHANGED vars
  BY <1>7 DEF Start, CompleteOther, Writeback, vars, MadeInv
<1>8. ASSUME NEW c \in Callers, OtherFsyncHook(c) \/ Wait(c) \/ Seen(c)
      PROVE  MadeInv'
  BY <1>8 DEF OtherFsyncHook, Wait, Seen, Returns, MadeInv
<1>9. CASE Kill \/ PowerFail
  <2>1. /\ inflight' = {} /\ page' \subseteq page /\ UNCHANGED <<issued, acked>>
    BY <1>9 DEF Kill, PowerFail, Ends
  <2> QED BY <2>1 DEF MadeInv
<1> QED BY <1>2, <1>3, <1>4, <1>5, <1>6, <1>7, <1>8, <1>9 DEF Next, Kernel

LEMMA RefineStep ==
  ASSUME AckInv, AckInv', MadeInv, MadeInv', [Next]_vars
  PROVE  [Promise!Next]_(Promise!vars)
<1> USE DEF Promise!Next, Promise!vars, ring, file
<1>1. CASE Start \/ FsyncHook \/ CompleteOther \/ Kill \/ PowerFail \/ UNCHANGED vars
  BY <1>1 DEF Start, FsyncHook, CompleteOther, Kill, PowerFail, Ends, vars
<1>2. CASE WriteHook
  BY <1>2 DEF WriteHook, Promise!Make
<1>3. ASSUME NEW c \in Callers, OtherFsyncHook(c) PROVE Promise!Break
  BY <1>3 DEF OtherFsyncHook, Promise!Break
<1>4. ASSUME NEW c \in Callers, Wait(c) \/ Seen(c) PROVE UNCHANGED Promise!vars
  BY <1>4 DEF Wait, Seen, Returns
<1>5. CASE Reply
  <2>1. acked' = acked \cup {issued} /\ UNCHANGED <<issued, disk, failed, shared>>
    BY <1>5 DEF Reply
  <2>2. ~(failed \/ shared) => acked' \ disk = {}
    BY <2>1 DEF AckInv, AckedDurable
  <2>3. ~(failed \/ shared) => Promise!Cardinality(acked' \ disk) <= 0
    BY <2>2, SameCount, FS_EmptySet
  <2>4. acked \subseteq acked' /\ acked' \subseteq 1 .. issued
    BY <2>1 DEF MadeInv
  <2>5. Promise!Tell
    BY <2>1, <2>3, <2>4, Zenon DEF Promise!Tell
  <2> QED BY <2>5
<1>6. ASSUME NEW r \in inflight, Execute(r) PROVE Promise!Persist
  <2>1. disk' \subseteq 1 .. issued /\ disk \subseteq disk'
    BY <1>6 DEF Execute, MadeInv, AckInv, TypeOK
  <2>2. UNCHANGED <<issued, acked, failed, shared>>
    BY <1>6 DEF Execute, Complete
  <2> QED BY <2>1, <2>2 DEF Promise!Persist
<1>7. ASSUME NEW r \in inflight, FailIo(r) PROVE Promise!Break
  BY <1>7 DEF FailIo, Complete, Promise!Break
<1>8. CASE Writeback
  <2>1. disk' \subseteq 1 .. issued /\ disk \subseteq disk'
    BY <1>8 DEF Writeback, MadeInv, AckInv, TypeOK
  <2>2. UNCHANGED <<issued, acked, failed, shared>>
    BY <1>8 DEF Writeback
  <2> QED BY <2>1, <2>2 DEF Promise!Persist
<1> QED BY <1>1, <1>2, <1>3, <1>4, <1>5, <1>6, <1>7, <1>8 DEF Next, Kernel

(* Until a request fails or another thread shares the ring, the server     *)
(* replies to nothing that is not on disk: with the hooks it keeps the     *)
(* promise that a write and an fsync keep without them.                    *)
THEOREM Refines == Spec => PromiseSpec
<1>1. Init => Promise!Init
  BY DEF Init, Promise!Init
<1>2. AckInv /\ [Next]_vars => AckInv'
  BY AckStep
<1>3. TypeOK /\ MadeInv /\ [Next]_vars => MadeInv'
  BY MadeStep
<1>4. AckInv => TypeOK
  BY DEF AckInv
<1>5. AckInv /\ AckInv' /\ MadeInv /\ MadeInv' /\ [Next]_vars
        => [Promise!Next]_(Promise!vars)
  BY RefineStep
<1> QED BY AckInit, MadeInit, <1>1, <1>2, <1>3, <1>4, <1>5, PTL
    DEF Spec, PromiseSpec, Promise!Spec

(* The promise is the durability of replies: whatever keeps it has every   *)
(* update it replied to on disk.                                           *)
THEOREM PromiseMeansDurable == PromiseSpec => []AckedDurable
<1> DEFINE Told == issued \in Nat /\ acked \subseteq 1 .. issued
           PInv == Told /\ AckedDurable
<1>1. Promise!Init => PInv
  BY DEF Promise!Init, AckedDurable
<1>2. PInv /\ [Promise!Next]_(Promise!vars) => PInv'
  <2> SUFFICES ASSUME PInv, [Promise!Next]_(Promise!vars) PROVE PInv'
    OBVIOUS
  <2>1. CASE Promise!Make
    <3>1. /\ issued' = issued + 1 /\ UNCHANGED <<acked, disk>>
          /\ (failed \/ shared)' = (failed \/ shared)
      BY <2>1 DEF Promise!Make
    <3> QED BY <3>1 DEF AckedDurable
  <2>2. CASE Promise!Tell
    <3>1. /\ acked' \subseteq 1 .. issued /\ issued' = issued /\ disk' = disk
          /\ (failed \/ shared)' = (failed \/ shared)
      BY <2>2 DEF Promise!Tell
    <3>2. ~(failed \/ shared) => Cardinality(acked' \ disk) <= 0
      BY <2>2, SameCount DEF Promise!Tell
    <3>3. acked' \ disk \subseteq 1 .. issued
      BY <3>1
    <3>4. IsFiniteSet(acked' \ disk)
      <4>1. IsFiniteSet(1 .. issued)
        BY FS_Interval
      <4> QED BY <3>3, <4>1, FS_Subset
    <3>5. Cardinality(acked' \ disk) <= 0 => acked' \subseteq disk
      <4>1. Cardinality(acked' \ disk) \in Nat
        BY <3>4, FS_CardinalityType
      <4>2. Cardinality(acked' \ disk) <= 0 => Cardinality(acked' \ disk) = 0
        BY <4>1
      <4> QED BY <3>4, <4>2, FS_EmptySet
    <3> QED BY <3>1, <3>2, <3>5 DEF AckedDurable
  <2>3. CASE Promise!Persist
    <3>1. /\ disk \subseteq disk' /\ UNCHANGED <<issued, acked>>
          /\ (failed \/ shared)' = (failed \/ shared)
      BY <2>3 DEF Promise!Persist
    <3> QED BY <3>1 DEF AckedDurable
  <2>4. CASE Promise!Break
    BY <2>4 DEF Promise!Break, AckedDurable
  <2>5. CASE UNCHANGED Promise!vars
    BY <2>5 DEF Promise!vars, AckedDurable
  <2> QED BY <2>1, <2>2, <2>3, <2>4, <2>5 DEF Promise!Next
<1> QED BY <1>1, <1>2, PTL DEF PromiseSpec, Promise!Spec
=============================================================================
