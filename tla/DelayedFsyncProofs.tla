------------------------- MODULE DelayedFsyncProofs -------------------------
(***************************************************************************)
(* The delayed-fsync extension, for every finite set of calling threads,   *)
(* every length of the log, with failing fsyncs and restarts or without:   *)
(* its type invariant, its loss bounds, that a thread which waits for      *)
(* nothing has had a request refused, and that it implements DurableLog.   *)
(***************************************************************************)
EXTENDS DelayedFsync, FiniteSetTheorems, TLAPS

(* The sets that are counted are finite, and so the counts are numbers. *)
LEMMA Finite ==
  ASSUME TypeOK
  PROVE  /\ IsFiniteSet(inflight) /\ Cardinality(inflight) \in Nat
         /\ IsFiniteSet(Submitters) /\ Cardinality(Submitters) \in Nat
         /\ Cardinality(Callers) \in Nat
         /\ Cardinality(Submitters) <= Cardinality(Callers)
         /\ Outstanding \in Nat
<1>1. IsFiniteSet(0 .. written)
  BY FS_Interval DEF TypeOK
<1>2. IsFiniteSet(inflight) /\ Cardinality(inflight) \in Nat
  BY <1>1, FS_Subset, FS_CardinalityType DEF TypeOK
<1>3. Submitters \in SUBSET Callers
  BY DEF Submitters
<1>4. /\ IsFiniteSet(Submitters) /\ Cardinality(Submitters) \in Nat
      /\ Cardinality(Callers) \in Nat
      /\ Cardinality(Submitters) <= Cardinality(Callers)
  BY <1>3, FS_Subset, FS_CardinalityType, CallersAssumption
<1>5. QED
  BY <1>2, <1>4 DEF Outstanding, TypeOK

(* A thread that moves to "submit" is one submitter more. *)
LEMMA Join ==
  ASSUME TypeOK, NEW c \in Callers, pc[c] # "submit",
         pc' = [pc EXCEPT ![c] = "submit"]
  PROVE  Cardinality(Submitters') = Cardinality(Submitters) + 1
<1>1. Submitters' = Submitters \cup {c} /\ c \notin Submitters
  BY DEF Submitters, TypeOK
<1>2. QED
  BY <1>1, Finite, FS_AddElement

(* A thread that leaves "submit" is one submitter less. *)
LEMMA Leave ==
  ASSUME TypeOK, NEW c \in Callers, pc[c] = "submit", NEW s, s # "submit",
         pc' = [pc EXCEPT ![c] = s]
  PROVE  /\ Cardinality(Submitters') = Cardinality(Submitters) - 1
         /\ Cardinality(Submitters') \in Nat
<1>1. Submitters' = Submitters \ {c} /\ c \in Submitters
  BY DEF Submitters, TypeOK
<1>2. QED
  BY <1>1, Finite, FS_RemoveElement, FS_CardinalityType

(* A thread that moves between other places changes no count. *)
LEMMA Elsewhere ==
  ASSUME TypeOK, NEW c \in Callers, pc[c] # "submit", NEW s, s # "submit",
         pc' = [pc EXCEPT ![c] = s]
  PROVE  Submitters' = Submitters
BY DEF Submitters, TypeOK

(* A request that completes leaves the ring for the completion queue. *)
LEMMA Completed ==
  ASSUME TypeOK, NEW n \in inflight, inflight' = inflight \ {n},
         cq' = cq + 1, UNCHANGED <<inflightOther, queue>>
  PROVE  Outstanding' = Outstanding
<1>1. Cardinality(inflight') = Cardinality(inflight) - 1
  BY Finite, FS_RemoveElement
<1>2. QED
  BY <1>1, Finite DEF Outstanding, TypeOK

(* What a submission does to the ring: the queue, with the caller's entry  *)
(* or without, is given to the kernel by the main thread, and stays where  *)
(* it is otherwise.                                                        *)
LEMMA Submitted ==
  ASSUME TypeOK, NEW c \in Callers, SubmitFsync(c)
  PROVE  /\ inflight' \subseteq inflight \cup {written}
         /\ inflightOther' \in Nat /\ queue' \in 0 .. RingEntries
         /\ clash' \in BOOLEAN
         /\ clash => clash'
         /\ ~clash' => queue = RingEntries \/
              IF c = Main
              THEN /\ inflight' = inflight \cup {written}
                   /\ inflightOther' = inflightOther + queue /\ queue' = 0
              ELSE queue' = queue + 1 /\ UNCHANGED <<inflight, inflightOther>>
<1>1. PICK kept \in BOOLEAN :
        /\ IF kept THEN queue < RingEntries ELSE queue = RingEntries \/ Rival(c)
        /\ clash' = (clash \/ (~kept /\ queue < RingEntries))
        /\ IF c = Main
           THEN /\ inflight' = IF kept THEN inflight \cup {written} ELSE inflight
                /\ inflightOther' = inflightOther + queue
                /\ queue' = 0
           ELSE /\ queue' = IF kept THEN queue + 1 ELSE queue
                /\ UNCHANGED <<inflight, inflightOther>>
  BY DEF SubmitFsync
<1>2. /\ queue \in 0 .. RingEntries /\ RingEntries \in Nat
      /\ inflightOther \in Nat /\ clash \in BOOLEAN
  BY RingAssumption DEF TypeOK
<1>3. CASE kept
  BY <1>1, <1>2, <1>3
<1>4. CASE ~kept
  <2>1. clash' = (clash \/ queue < RingEntries)
    BY <1>1, <1>4
  <2>2. ~clash' => ~(queue < RingEntries)
    BY <2>1
  <2>3. ~clash' => queue = RingEntries
    BY <1>2, <2>2
  <2>4. /\ inflight' \subseteq inflight \cup {written}
        /\ inflightOther' \in Nat /\ queue' \in 0 .. RingEntries
    BY <1>1, <1>2, <1>4
  <2>5. clash' \in BOOLEAN /\ (clash => clash')
    BY <1>2, <2>1
  <2>6. QED
    BY <2>3, <2>4, <2>5
<1>5. QED
  BY <1>3, <1>4

-----------------------------------------------------------------------------

LEMMA TypeInit == Init => TypeOK
<1> SUFFICES ASSUME Init PROVE TypeOK
  OBVIOUS
<1>1. pc \in [Callers -> {"idle", "call", "wait", "seen", "submit", "reply"}]
  BY DEF Init
<1>2. inflight \in SUBSET (0 .. written)
  BY DEF Init
<1>3. up \in BOOLEAN /\ failed \in BOOLEAN /\ clash \in BOOLEAN
  BY DEF Init
<1>4. /\ successful_writeback_count \in {-1, 0}
      /\ inflightOther \in Nat /\ queue \in 0 .. RingEntries /\ cq \in Nat
      /\ written \in Nat
      /\ acked \in 0 .. written /\ durable \in 0 .. written /\ base \in 0 .. written
  BY RingAssumption DEF Init
<1>5. QED
  BY <1>1, <1>2, <1>3, <1>4, Zenon DEF TypeOK

(* The counter of completions stays a number because a thread that takes   *)
(* one has seen it, and nobody else has.                                   *)
LEMMA TypeStep == TypeOK /\ CountInv /\ [Next]_vars => TypeOK'
<1> SUFFICES ASSUME TypeOK, CountInv, [Next]_vars PROVE TypeOK'
  OBVIOUS
<1> USE CallersAssumption DEF TypeOK
<1>1. CASE StartConfig
  <2>1. /\ up' = TRUE /\ successful_writeback_count' = -1 /\ clash' = FALSE
        /\ base' = written
        /\ UNCHANGED <<pc, inflight, inflightOther, queue, cq, written, acked, durable,
                       failed>>
    BY <1>1 DEF StartConfig, ring
  <2>2. base' \in 0 .. written'
    BY <2>1
  <2>3. up' \in BOOLEAN /\ clash' \in BOOLEAN /\ successful_writeback_count' \in {-1, 0}
    BY <2>1
  <2>4. QED
    BY <2>1, <2>2, <2>3
<1>2. CASE AofWrite
  BY <1>2 DEF AofWrite, ring
<1>3. CASE Reply
  BY <1>3 DEF Reply, ring
<1>4. ASSUME NEW c \in Callers, Thread(c) PROVE TypeOK'
  <2>1. CASE OtherCall(c)
    BY <2>1 DEF OtherCall, ring, log
  <2>2. CASE StartFsync(c)
    BY <2>2 DEF StartFsync, ring, log
  <2>3. CASE Wait(c)
    BY <2>3 DEF Wait, ring, log
  <2>6. CASE Seen(c)
    <3>1. cq' \in Nat
      <4>1. CASE clash
        BY <2>6, <4>1 DEF Seen, Larger
      <4>2. CASE ~clash
        BY <2>6, <4>2 DEF Seen, CountInv
      <4>3. QED
        BY <4>1, <4>2
    <3>2. pc' \in [Callers -> {"idle", "call", "wait", "seen", "submit", "reply"}]
      BY <2>6 DEF Seen
    <3>3. QED
      BY <2>6, <3>1, <3>2 DEF Seen, log
  <2>4. CASE SubmitFsync(c)
    <3>1. inflight' \in SUBSET (0 .. written')
      <4>1. inflight' \subseteq inflight \cup {written}
        BY <2>4, Submitted
      <4>2. written' = written /\ written \in 0 .. written
        BY <2>4 DEF SubmitFsync, log
      <4>3. QED
        BY <4>1, <4>2
    <3>2. pc' \in [Callers -> {"idle", "call", "wait", "seen", "submit", "reply"}]
      BY <2>4 DEF SubmitFsync
    <3>3. /\ successful_writeback_count' \in {-1, 0}
          /\ inflightOther' \in Nat /\ queue' \in 0 .. RingEntries
          /\ clash' \in BOOLEAN
          /\ UNCHANGED <<up, cq, log>>
      <4>1. queue \in 0 .. RingEntries /\ RingEntries \in Nat
        BY RingAssumption
      <4>2. successful_writeback_count' \in {-1, 0} /\ UNCHANGED <<up, cq, log>>
        BY <2>4 DEF SubmitFsync
      <4>3. QED
        BY <2>4, <4>1, <4>2, Submitted
    <3>4. QED
      BY <3>1, <3>2, <3>3 DEF log
  <2>5. QED
    BY <1>4, <2>1, <2>2, <2>3, <2>4, <2>6 DEF Thread
<1>5. CASE Kernel
  <2>1. ASSUME NEW n \in inflight, CompleteFsync(n) PROVE TypeOK'
    BY <2>1 DEF CompleteFsync, Larger
  <2>2. ASSUME NEW n \in inflight, FailFsync(n) PROVE TypeOK'
    BY <2>2 DEF FailFsync
  <2>3. CASE CompleteOther
    BY <2>3 DEF CompleteOther, log
  <2>4. QED
    BY <1>5, <2>1, <2>2, <2>3 DEF Kernel
<1>6. CASE KernelWriteback
  BY <1>6 DEF KernelWriteback, ring
<1>7. CASE Kill
  <2>1. /\ up' = FALSE /\ inflight' = {} /\ inflightOther' = 0 /\ queue' = 0 /\ cq' = 0
        /\ UNCHANGED <<successful_writeback_count, clash, written, acked, durable, base,
                       failed>>
    BY <1>7 DEF Kill, ProcessEnds, log
  <2>2. pc' \in [Callers -> {"idle", "call", "wait", "seen", "submit", "reply"}]
    BY <1>7 DEF Kill, ProcessEnds
  <2>3. inflight' \in SUBSET (0 .. written') /\ up' \in BOOLEAN
    BY <2>1
  <2>4. inflightOther' \in Nat /\ queue' \in 0 .. RingEntries /\ cq' \in Nat
    BY <2>1, RingAssumption
  <2>5. QED
    BY <2>1, <2>2, <2>3, <2>4
<1>8. CASE PowerFail
  <2>1. inflight' \in SUBSET (0 .. written')
    BY <1>8 DEF PowerFail, ProcessEnds
  <2>2. pc' \in [Callers -> {"idle", "call", "wait", "seen", "submit", "reply"}]
    BY <1>8 DEF PowerFail, ProcessEnds
  <2>3. up' \in BOOLEAN /\ failed' \in BOOLEAN /\ clash' \in BOOLEAN
    BY <1>8 DEF PowerFail, ProcessEnds
  <2>4. /\ inflightOther' \in Nat /\ queue' \in 0 .. RingEntries
        /\ cq' \in Nat /\ written' \in Nat
        /\ acked' \in 0 .. written' /\ durable' \in 0 .. written'
        /\ base' \in 0 .. written' /\ successful_writeback_count' = 0
    BY <1>8, RingAssumption DEF PowerFail, ProcessEnds
  <2>5. QED
    BY <2>1, <2>2, <2>3, <2>4
<1>9. CASE UNCHANGED vars
  BY <1>9 DEF vars, ring, log
<1>10. QED
  BY <1>1, <1>2, <1>3, <1>4, <1>5, <1>6, <1>7, <1>8, <1>9 DEF Next

-----------------------------------------------------------------------------
(* The counting argument: each call takes one completion before it adds    *)
(* one entry, except the calls that met the count before it was cleared.   *)

(* A process that is down has no threads and no ring. *)
Down == ~up => Outstanding = 0 /\ \A c \in Callers : pc[c] = "idle"

(* A completion that is seen is there, and seen by one thread. *)
SeenIsThere == \A c \in Callers : pc[c] = "seen" => cq > 0 /\ ~Rival(c)

(* What holds of the counts until two threads meet inside a helper. *)
Counted ==
  /\ SeenIsThere
  /\ successful_writeback_count = -1 => Outstanding = 0 /\ Waiters = {}
  /\ up /\ successful_writeback_count = 0 => Outstanding + Cardinality(Submitters) > 0
  /\ Outstanding + Cardinality(Submitters) <= Cardinality(Callers)

LEMMA CountParts == CountInv /\ RingBound <=> Down /\ (~clash => Counted)
BY DEF CountInv, RingBound, Down, Counted, SeenIsThere

LEMMA CountInit == Init => CountInv /\ RingBound
<1> SUFFICES ASSUME Init PROVE Down /\ Counted
  BY CountParts
<1>1. Outstanding = 0
  BY FS_EmptySet DEF Init, Outstanding
<1>2. \A c \in Callers : pc[c] = "idle"
  BY DEF Init
<1>3. Cardinality(Submitters) = 0
  BY <1>2, FS_EmptySet DEF Submitters
<1>4. ~up /\ successful_writeback_count # -1
  BY DEF Init
<1>5. Cardinality(Callers) \in Nat
  BY Finite, TypeInit
<1>6. QED
  BY <1>1, <1>2, <1>3, <1>4, <1>5 DEF Down, Counted, SeenIsThere

(* A thread that goes anywhere but between the lines of the wait helper    *)
(* does not disturb the one that is there.                                 *)
LEMMA SeenKept ==
  ASSUME TypeOK, SeenIsThere, NEW c \in Callers, NEW s, s # "seen",
         pc' = [pc EXCEPT ![c] = s], cq' = cq
  PROVE  SeenIsThere'
<1> SUFFICES ASSUME NEW d \in Callers, pc'[d] = "seen"
             PROVE  cq' > 0 /\ ~Rival(d)'
  BY DEF SeenIsThere
<1>1. d # c /\ pc[d] = "seen"
  BY DEF TypeOK
<1>2. cq > 0 /\ ~Rival(d)
  BY <1>1 DEF SeenIsThere
<1>3. \A o \in Callers \ {d} : pc'[o] # "seen"
  BY <1>1, <1>2 DEF Rival, TypeOK
<1>4. QED
  BY <1>2, <1>3 DEF Rival

LEMMA DownStays == TypeOK /\ Down /\ [Next]_vars => Down'
<1> SUFFICES ASSUME TypeOK, Down, [Next]_vars, ~up'
             PROVE  Outstanding' = 0 /\ \A c \in Callers : pc'[c] = "idle"
  BY DEF Down
<1> USE CallersAssumption
<1>1. CASE Kill \/ PowerFail
  <2>1. ProcessEnds
    BY <1>1 DEF Kill, PowerFail
  <2>2. QED
    BY <2>1, FS_EmptySet DEF ProcessEnds, Outstanding
<1>2. CASE KernelWriteback \/ UNCHANGED vars
  BY <1>2 DEF KernelWriteback, vars, ring, Outstanding, Down
<1>3. ASSUME NEW n \in inflight, CompleteFsync(n) \/ FailFsync(n) PROVE FALSE
  <2>1. ~up
    BY <1>3 DEF CompleteFsync, FailFsync
  <2>2. Cardinality(inflight) > 0
    <3>1. inflight # {} /\ IsFiniteSet(inflight) /\ Cardinality(inflight) \in Nat
      BY Finite
    <3>2. QED
      BY <3>1, FS_EmptySet
  <2>3. QED
    BY <2>1, <2>2, Finite DEF Down, Outstanding, TypeOK
<1>4. CASE CompleteOther
  BY <1>4, Finite DEF CompleteOther, Down, Outstanding, TypeOK
<1>5. ~(StartConfig \/ AofWrite)
  BY DEF StartConfig, AofWrite
<1>6. ~Reply
  BY DEF Reply, Down
<1>7. ASSUME NEW c \in Callers PROVE ~Thread(c)
  BY DEF Thread, OtherCall, StartFsync, Wait, Seen, SubmitFsync, Down
<1>8. QED
  BY <1>1, <1>2, <1>3, <1>4, <1>5, <1>6, <1>7 DEF Next, Kernel

LEMMA CountedStep ==
  TypeOK /\ Down /\ (~clash => Counted) /\ [Next]_vars /\ ~clash' => Counted'
<1> SUFFICES ASSUME TypeOK, Down, ~clash => Counted, [Next]_vars, ~clash'
             PROVE  Counted'
  OBVIOUS
<1> USE CallersAssumption DEF Counted
<1>1. CASE StartConfig
  <2>1. /\ UNCHANGED <<Outstanding, Submitters, pc>>
        /\ Outstanding = 0 /\ \A c \in Callers : pc[c] = "idle"
    BY <1>1 DEF StartConfig, ring, Outstanding, Submitters, Down
  <2>2. Waiters' = {} /\ Submitters = {} /\ SeenIsThere'
    BY <2>1 DEF Waiters, Submitters, SeenIsThere
  <2>3. successful_writeback_count' = -1
    BY <1>1 DEF StartConfig
  <2>4. QED
    BY <2>1, <2>2, <2>3, FS_EmptySet, Finite
<1>2. CASE AofWrite
  <2>0. Counted
    BY <1>2 DEF AofWrite
  <2>1. Submitters' = Submitters
    BY <1>2, Elsewhere DEF AofWrite
  <2>2. UNCHANGED <<Outstanding, up, successful_writeback_count>> /\ up
    BY <1>2 DEF AofWrite, ring, Outstanding
  <2>3. Waiters' \subseteq Waiters
    BY <1>2 DEF AofWrite, Waiters, TypeOK
  <2>4. SeenIsThere'
    BY <1>2, <2>0, SeenKept DEF AofWrite, ring
  <2>5. QED
    BY <2>0, <2>1, <2>2, <2>3, <2>4
<1>3. CASE Reply
  <2>0. Counted
    BY <1>3 DEF Reply
  <2>1. Submitters' = Submitters
    BY <1>3, Elsewhere DEF Reply
  <2>2. UNCHANGED <<Outstanding, up, successful_writeback_count>>
    BY <1>3 DEF Reply, ring, Outstanding
  <2>3. Waiters' \subseteq Waiters
    BY <1>3 DEF Reply, Waiters, TypeOK
  <2>4. SeenIsThere'
    BY <1>3, <2>0, SeenKept DEF Reply, ring
  <2>5. QED
    BY <2>0, <2>1, <2>2, <2>3, <2>4
<1>4. ASSUME NEW c \in Callers, OtherCall(c) PROVE Counted'
  <2>0. Counted
    BY <1>4 DEF OtherCall
  <2>1. Submitters' = Submitters
    BY <1>4, Elsewhere DEF OtherCall
  <2>2. UNCHANGED <<Outstanding, up, successful_writeback_count>>
    BY <1>4 DEF OtherCall, ring, Outstanding
  <2>3. Waiters' \subseteq Waiters
    BY <1>4 DEF OtherCall, Waiters, TypeOK
  <2>4. SeenIsThere'
    BY <1>4, <2>0, SeenKept DEF OtherCall, ring
  <2>5. QED
    BY <2>0, <2>1, <2>2, <2>3, <2>4
<1>5. ASSUME NEW c \in Callers, StartFsync(c) PROVE Counted'
  <2>0. Counted
    BY <1>5 DEF StartFsync
  <2>1. UNCHANGED <<Outstanding, up, successful_writeback_count>> /\ up
    BY <1>5 DEF StartFsync, ring, Outstanding, Down
  <2>4. SeenIsThere'
    <3>1. PICK s : s # "seen" /\ pc' = [pc EXCEPT ![c] = s]
      BY <1>5 DEF StartFsync
    <3>2. QED
      BY <1>5, <2>0, <3>1, SeenKept DEF StartFsync, ring
  <2>2. CASE successful_writeback_count = 0
    <3>1. Submitters' = Submitters
      BY <1>5, <2>2, Elsewhere DEF StartFsync
    <3>2. QED
      BY <2>0, <2>1, <2>2, <2>4, <3>1
  <2>3. CASE successful_writeback_count # 0
    <3>1. successful_writeback_count = -1 /\ Outstanding = 0 /\ Waiters = {}
      BY <2>0, <2>3 DEF TypeOK
    <3>2. Waiters' \subseteq Waiters
      BY <1>5, <2>3 DEF StartFsync, Waiters, TypeOK
    <3>4. Cardinality(Submitters') <= Cardinality(Callers)
      <4>1. Submitters' \in SUBSET Callers
        BY DEF Submitters
      <4>2. QED
        BY <4>1, FS_Subset
    <3>5. IsFiniteSet(Submitters') /\ Cardinality(Submitters') \in Nat
      BY FS_Subset, FS_CardinalityType DEF Submitters
    <3>6. QED
      BY <2>1, <2>4, <3>1, <3>2, <3>4, <3>5, Finite
  <2>5. QED
    BY <2>2, <2>3
<1>6. ASSUME NEW c \in Callers, Wait(c) PROVE Counted'
  <2>0. Counted /\ ~clash
    BY <1>6 DEF Wait, TypeOK
  <2>1. Submitters' = Submitters
    BY <1>6, Elsewhere DEF Wait
  <2>2. UNCHANGED <<Outstanding, cq, up, successful_writeback_count>>
    BY <1>6 DEF Wait, ring, Outstanding
  <2>3. Waiters' \subseteq Waiters
    BY <1>6 DEF Wait, Waiters, TypeOK
  <2>4. SeenIsThere'
    <3>1. cq > 0 /\ \A o \in Callers \ {c} : pc'[o] # "seen"
      BY <1>6, <2>0 DEF Wait, TypeOK
    <3>2. QED
      BY <2>2, <3>1 DEF SeenIsThere, Rival
  <2>5. QED
    BY <2>0, <2>1, <2>2, <2>3, <2>4
<1>7. ASSUME NEW c \in Callers, Seen(c) PROVE Counted'
  <2>0. Counted /\ ~clash
    BY <1>7 DEF Seen
  <2>1. Cardinality(Submitters') = Cardinality(Submitters) + 1
    BY <1>7, Join DEF Seen
  <2>2. Outstanding > 0 /\ Outstanding' = Outstanding - 1
    <3>1. cq > 0 /\ cq' = cq - 1
      BY <1>7, <2>0 DEF Seen, SeenIsThere
    <3>2. QED
      BY <1>7, <3>1, Finite DEF Seen, Outstanding, TypeOK
  <2>3. UNCHANGED <<up, successful_writeback_count>>
    BY <1>7 DEF Seen
  <2>4. successful_writeback_count = 0
    BY <2>0, <2>2 DEF TypeOK
  <2>5. SeenIsThere'
    BY <1>7, <2>0 DEF Seen, SeenIsThere, Rival, TypeOK
  <2>6. QED
    BY <2>0, <2>1, <2>2, <2>3, <2>4, <2>5, Finite
<1>8. ASSUME NEW c \in Callers, SubmitFsync(c) PROVE Counted'
  <2>0. Counted
    BY <1>8, Submitted
  <2>1. /\ Cardinality(Submitters') = Cardinality(Submitters) - 1
        /\ Cardinality(Submitters') \in Nat
    BY <1>8, Leave DEF SubmitFsync
  <2>a. queue < RingEntries
    <3>1. Outstanding + 1 <= Cardinality(Callers)
      BY <2>0, <2>1, Finite
    <3>2. QED
      BY <3>1, Finite, RingAssumption DEF Outstanding, TypeOK
  <2>b. /\ cq' = cq
        /\ IF c = Main
           THEN /\ inflight' = inflight \cup {written}
                /\ inflightOther' = inflightOther + queue /\ queue' = 0
           ELSE queue' = queue + 1 /\ UNCHANGED <<inflight, inflightOther>>
    <3>1. cq' = cq /\ RingEntries \in Nat /\ queue \in Nat
      BY <1>8, RingAssumption DEF SubmitFsync, TypeOK
    <3>2. QED
      BY <1>8, <2>a, <3>1, Submitted
  <2>2. Outstanding' \in 1 .. Outstanding + 1
    <3>1. CASE c = Main
      <4> DEFINE more == inflight \cup {written}
      <4>a. inflight' = more
        BY <2>b, <3>1
      <4>b. /\ IsFiniteSet(more) /\ more # {}
            /\ Cardinality(more) <= Cardinality(inflight) + 1
        <5>1. IsFiniteSet(inflight) /\ Cardinality(inflight) \in Nat
          BY Finite
        <5>2. /\ IsFiniteSet(more)
              /\ Cardinality(more) = IF written \in inflight THEN Cardinality(inflight)
                                     ELSE Cardinality(inflight) + 1
          BY <5>1, FS_AddElement
        <5>3. more # {}
          OBVIOUS
        <5>4. QED
          BY <5>1, <5>2, <5>3
      <4> HIDE DEF more
      <4>1. IsFiniteSet(inflight') /\ inflight' # {}
        BY <4>a, <4>b
      <4>2. Cardinality(inflight') \in 1 .. Cardinality(inflight) + 1
        <5>1. Cardinality(inflight') \in Nat /\ Cardinality(inflight') # 0
          BY <4>1, FS_EmptySet, FS_CardinalityType
        <5>2. Cardinality(inflight') <= Cardinality(inflight) + 1
          BY <4>a, <4>b
        <5>3. QED
          BY <5>1, <5>2, Finite
      <4>3. inflightOther' = inflightOther + queue /\ queue' = 0 /\ cq' = cq
        BY <2>b, <3>1
      <4>4. QED
        BY <4>2, <4>3, Finite DEF Outstanding, TypeOK
    <3>2. CASE c # Main
      BY <2>b, <3>2, Finite DEF Outstanding, TypeOK
    <3>3. QED
      BY <3>1, <3>2
  <2>3. successful_writeback_count' = 0
    BY <1>8 DEF SubmitFsync
  <2>4. /\ Outstanding \in Nat /\ Outstanding' \in Nat
        /\ Cardinality(Submitters) \in Nat /\ Cardinality(Submitters') \in Nat
    BY <2>1, <2>2, Finite
  <2>5. Outstanding' + Cardinality(Submitters') <= Cardinality(Callers)
    BY <2>0, <2>1, <2>2, <2>4, Finite
  <2>6. Outstanding' + Cardinality(Submitters') > 0
    BY <2>2, <2>4
  <2>7. SeenIsThere'
    <3>1. PICK s : s # "seen" /\ pc' = [pc EXCEPT ![c] = s]
      BY <1>8 DEF SubmitFsync
    <3>2. QED
      BY <2>0, <2>b, <3>1, SeenKept
  <2>8. QED
    BY <2>3, <2>5, <2>6, <2>7
<1>9. ASSUME NEW n \in inflight, CompleteFsync(n) \/ FailFsync(n) PROVE Counted'
  <2>0. Counted
    BY <1>9 DEF CompleteFsync, FailFsync
  <2>1. Outstanding' = Outstanding /\ cq' = cq + 1
    BY <1>9, Completed DEF CompleteFsync, FailFsync
  <2>2. UNCHANGED <<Submitters, Waiters, up, pc, successful_writeback_count>>
    BY <1>9 DEF CompleteFsync, FailFsync, Submitters, Waiters
  <2>3. SeenIsThere'
    BY <2>0, <2>1, <2>2 DEF SeenIsThere, Rival, TypeOK
  <2>4. QED
    BY <2>0, <2>1, <2>2, <2>3
<1>10. CASE CompleteOther
  <2>0. Counted
    BY <1>10 DEF CompleteOther
  <2>1. Outstanding' = Outstanding /\ cq' = cq + 1
    BY <1>10, Finite DEF CompleteOther, Outstanding, TypeOK
  <2>2. UNCHANGED <<Submitters, Waiters, up, pc, successful_writeback_count>>
    BY <1>10 DEF CompleteOther, Submitters, Waiters
  <2>3. SeenIsThere'
    BY <2>0, <2>1, <2>2 DEF SeenIsThere, Rival, TypeOK
  <2>4. QED
    BY <2>0, <2>1, <2>2, <2>3
<1>11. CASE KernelWriteback \/ UNCHANGED vars
  BY <1>11 DEF KernelWriteback, vars, ring, Outstanding, Submitters, Waiters,
               SeenIsThere, Rival
<1>12. CASE Kill \/ PowerFail
  <2>1. ProcessEnds
    BY <1>12 DEF Kill, PowerFail
  <2>2. Outstanding' = 0
    BY <2>1, FS_EmptySet DEF ProcessEnds, Outstanding
  <2>3. \A c \in Callers : pc'[c] = "idle"
    BY <2>1 DEF ProcessEnds
  <2>4. Submitters' = {} /\ Waiters' = {} /\ SeenIsThere'
    BY <2>3 DEF Submitters, Waiters, SeenIsThere
  <2>5. ~up'
    BY <2>1 DEF ProcessEnds
  <2>6. QED
    BY <2>2, <2>4, <2>5, Finite, FS_EmptySet
<1>13. QED
  BY <1>1, <1>2, <1>3, <1>4, <1>5, <1>6, <1>7, <1>8, <1>9, <1>10, <1>11, <1>12
     DEF Next, Thread, Kernel

LEMMA CountStep ==
  TypeOK /\ CountInv /\ RingBound /\ [Next]_vars => CountInv' /\ RingBound'
<1>1. (CountInv /\ RingBound <=> Down /\ (~clash => Counted))'
  BY CountParts, PTL
<1>2. QED
  BY <1>1, CountParts, DownStays, CountedStep

-----------------------------------------------------------------------------
(* The loss argument: what is flushed and not safe is in flight, and what  *)
(* is in flight is counted.                                                *)

LEMMA BoundsFromLog ==
  TypeOK /\ RingBound /\ LogInv /\ up => WrittenLossBound /\ AckedLossBound
<1> SUFFICES ASSUME TypeOK, RingBound, LogInv, up, Sound
             PROVE  /\ written - Safe <= Cardinality(Callers) + 1
                    /\ acked - Safe <= Cardinality(Callers)
  BY DEF WrittenLossBound, AckedLossBound
<1>1. Safe \in Nat /\ Flushed \in Int /\ written <= Flushed + 1
  BY DEF Safe, Larger, Flushed, TypeOK
<1>2. acked <= Flushed /\ Safe + 1 .. Flushed \subseteq inflight
  BY DEF LogInv
<1>3. Cardinality(Safe + 1 .. Flushed) <= Cardinality(inflight)
  BY <1>2, Finite, FS_Subset
<1>4. Flushed - Safe <= Cardinality(inflight)
  <2>1. Cardinality(Safe + 1 .. Flushed)
          = IF Safe + 1 > Flushed THEN 0 ELSE Flushed - (Safe + 1) + 1
    BY <1>1, FS_Interval
  <2>2. QED
    BY <1>1, <1>3, <2>1, Finite
<1>5. Cardinality(inflight) <= Cardinality(Callers)
  BY Finite DEF RingBound, Outstanding, TypeOK, Sound
<1>6. QED
  BY <1>1, <1>2, <1>4, <1>5, Finite DEF TypeOK

LEMMA LogStep ==
  TypeOK /\ CountInv /\ RingBound /\ LogInv /\ [Next]_vars => LogInv'
<1> SUFFICES ASSUME TypeOK, CountInv, RingBound, LogInv, [Next]_vars, up'
             PROVE  /\ acked' <= Flushed'
                    /\ Sound' => (Safe + 1 .. Flushed)' \subseteq inflight'
  BY DEF LogInv
<1> USE CallersAssumption DEF TypeOK, LogInv, Flushed, Safe, Larger, Sound
<1>1. CASE StartConfig
  <2>1. pc'[Main] = "idle"
    BY <1>1 DEF StartConfig, CountInv
  <2>2. Flushed' = written /\ Safe' = written /\ acked' = acked
    BY <1>1, <2>1 DEF StartConfig
  <2>3. QED
    BY <2>2
<1>2. CASE AofWrite
  <2>1. UNCHANGED <<Flushed, Safe, acked, failed, clash, inflight>> /\ up
    BY <1>2 DEF AofWrite, ring
  <2>2. QED
    BY <2>1
<1>3. CASE Reply
  <2>1. UNCHANGED <<Flushed, Safe, failed, clash, inflight>> /\ acked' = Flushed /\ up
    <3>1. up
      BY <1>3 DEF Reply
    <3>2. QED
      BY <1>3, <3>1 DEF Reply, ring
  <2>2. QED
    BY <2>1
<1>4. ASSUME NEW c \in Callers,
             OtherCall(c) \/ StartFsync(c) \/ Wait(c) \/ Seen(c)
      PROVE  /\ UNCHANGED <<Flushed, Safe, acked, failed, inflight, up>>
             /\ clash => clash'
  BY <1>4 DEF OtherCall, StartFsync, Wait, Seen, ring, log
<1>5. ASSUME NEW c \in Callers, SubmitFsync(c)
      PROVE  /\ acked' <= Flushed'
             /\ Sound' => (Safe + 1 .. Flushed)' \subseteq inflight'
  <2>1. UNCHANGED <<Safe, acked, failed, written>> /\ up
    BY <1>5 DEF SubmitFsync, log, CountInv
  <2>5. ~clash' => /\ ~clash
                   /\ inflight' = IF c = Main THEN inflight \cup {written} ELSE inflight
    <3> SUFFICES ASSUME ~clash'
                 PROVE  /\ ~clash
                        /\ inflight' = IF c = Main THEN inflight \cup {written} ELSE inflight
      OBVIOUS
    <3>1. ~clash
      BY <1>5, Submitted
    <3>2. Cardinality(Submitters) \in Nat \ {0}
      <4>1. Submitters # {}
        BY <1>5 DEF SubmitFsync, Submitters
      <4>2. QED
        BY <4>1, Finite, FS_EmptySet
    <3>3. queue < RingEntries
      BY <3>1, <3>2, Finite, RingAssumption DEF RingBound, Outstanding
    <3>4. RingEntries \in Nat /\ queue # RingEntries
      BY <3>3, RingAssumption
    <3>5. QED
      BY <1>5, <3>1, <3>4, Submitted
  <2>2. CASE c = Main
    <3>1. Flushed = written - 1 /\ Flushed' = written
      BY <1>5, <2>1, <2>2 DEF SubmitFsync
    <3>2. Sound' => Sound /\ inflight' = inflight \cup {written}
      BY <2>1, <2>2, <2>5
    <3>3. QED
      BY <2>1, <3>1, <3>2
  <2>3. CASE c # Main
    <3>1. Flushed' = Flushed /\ (Sound' => Sound /\ inflight' = inflight)
      BY <1>5, <2>1, <2>3, <2>5 DEF SubmitFsync
    <3>2. QED
      BY <2>1, <3>1
  <2>4. QED
    BY <2>2, <2>3
<1>6. ASSUME NEW n \in inflight, CompleteFsync(n)
      PROVE  /\ acked' <= Flushed'
             /\ Sound' => (Safe + 1 .. Flushed)' \subseteq inflight'
  <2>1. UNCHANGED <<Flushed, acked, failed, clash>> /\ up /\ inflight' = inflight \ {n}
    BY <1>6 DEF CompleteFsync
  <2>2. Safe' \in Nat /\ Safe \in Nat /\ Safe' >= Safe
    BY <1>6 DEF CompleteFsync
  <2>3. ~failed => Safe' >= n
    BY <1>6 DEF CompleteFsync
  <2>4. QED
    BY <2>1, <2>2, <2>3
<1>7. ASSUME NEW n \in inflight, FailFsync(n)
      PROVE  /\ acked' <= Flushed'
             /\ Sound' => (Safe + 1 .. Flushed)' \subseteq inflight'
  BY <1>7 DEF FailFsync
<1>8. CASE CompleteOther \/ UNCHANGED vars
  BY <1>8 DEF CompleteOther, vars, ring, log
<1>9. CASE KernelWriteback
  <2>1. UNCHANGED <<Flushed, acked, failed, clash, inflight>> /\ up
    BY <1>9 DEF KernelWriteback, ring
  <2>2. Safe' \in Nat /\ Safe \in Nat /\ Safe' >= Safe
    BY <1>9 DEF KernelWriteback
  <2>3. QED
    BY <2>1, <2>2
<1>10. ~(Kill \/ PowerFail)
  BY DEF Kill, PowerFail, ProcessEnds
<1>11. QED
  BY <1>1, <1>2, <1>3, <1>4, <1>5, <1>6, <1>7, <1>8, <1>9, <1>10
     DEF Next, Thread, Kernel

(* A server that goes down, or stays down, loses nothing more. *)
LEMMA DownStep ==
  TypeOK /\ CountInv /\ WrittenLossBound /\ AckedLossBound /\ [Next]_vars /\ ~up'
    => WrittenLossBound' /\ AckedLossBound'
<1> SUFFICES ASSUME TypeOK, CountInv, WrittenLossBound, AckedLossBound, [Next]_vars, ~up'
             PROVE  WrittenLossBound' /\ AckedLossBound'
  OBVIOUS
<1> USE CallersAssumption DEF Sound
<1>0. Cardinality(Callers) \in Nat
  BY FS_CardinalityType
<1>1. ~(StartConfig \/ AofWrite)
  BY DEF StartConfig, AofWrite
<1>2. ~Reply
  BY DEF Reply, CountInv
<1>3. ASSUME NEW c \in Callers PROVE ~Thread(c)
  BY DEF Thread, OtherCall, StartFsync, Wait, Seen, SubmitFsync, CountInv
<1>4. ASSUME NEW n \in inflight, CompleteFsync(n) PROVE WrittenLossBound' /\ AckedLossBound'
  <2>1. UNCHANGED <<written, acked, failed, clash>>
    BY <1>4 DEF CompleteFsync
  <2>2. Safe' \in Nat /\ Safe \in Nat /\ Safe' >= Safe
    BY <1>4 DEF CompleteFsync, Safe, Larger, TypeOK
  <2>3. QED
    BY <1>0, <2>1, <2>2 DEF WrittenLossBound, AckedLossBound, TypeOK
<1>5. ASSUME NEW n \in inflight, FailFsync(n) PROVE WrittenLossBound' /\ AckedLossBound'
  BY <1>5 DEF FailFsync, WrittenLossBound, AckedLossBound
<1>6. CASE CompleteOther \/ UNCHANGED vars \/ Kill
  BY <1>6 DEF CompleteOther, Kill, vars, log, WrittenLossBound, AckedLossBound, Safe
<1>7. CASE KernelWriteback
  <2>1. UNCHANGED <<written, acked, failed, clash>>
    BY <1>7 DEF KernelWriteback
  <2>2. Safe' \in Nat /\ Safe \in Nat /\ Safe' >= Safe
    BY <1>7 DEF KernelWriteback, Safe, Larger, TypeOK
  <2>3. QED
    BY <1>0, <2>1, <2>2 DEF WrittenLossBound, AckedLossBound, TypeOK
<1>8. CASE PowerFail
  <2>1. written' = durable /\ acked' = durable /\ Safe' = durable
    BY <1>8 DEF PowerFail, Safe, Larger
  <2>2. QED
    BY <1>0, <2>1 DEF WrittenLossBound, AckedLossBound, TypeOK
<1>9. QED
  BY <1>1, <1>2, <1>3, <1>4, <1>5, <1>6, <1>7, <1>8 DEF Next, Kernel

LEMMA InductiveInit == Init => IInv
<1> SUFFICES ASSUME Init PROVE IInv
  OBVIOUS
<1>1. TypeOK /\ CountInv /\ RingBound
  BY TypeInit, CountInit
<1>2. LogInv
  BY DEF Init, LogInv
<1>3. written = 0 /\ acked = 0 /\ Safe = 0
  BY DEF Init, Safe, Larger
<1>4. Cardinality(Callers) \in Nat
  BY <1>1, Finite
<1>5. WrittenLossBound /\ AckedLossBound
  BY <1>3, <1>4 DEF WrittenLossBound, AckedLossBound
<1>6. QED
  BY <1>1, <1>2, <1>5 DEF IInv, LossBound

LEMMA InductiveStep == IInv /\ [Next]_vars => IInv'
<1> SUFFICES ASSUME IInv, [Next]_vars PROVE IInv'
  OBVIOUS
<1>1. TypeOK' /\ CountInv' /\ RingBound' /\ LogInv'
  BY TypeStep, CountStep, LogStep DEF IInv
<1>2. CASE up'
  <2>1. (TypeOK /\ RingBound /\ LogInv /\ up => WrittenLossBound /\ AckedLossBound)'
    BY BoundsFromLog, PTL
  <2>2. QED
    BY <1>1, <1>2, <2>1 DEF IInv, LossBound
<1>3. CASE ~up'
  BY <1>1, <1>3, DownStep DEF IInv, LossBound
<1>4. QED
  BY <1>2, <1>3

(* The strengthening is an invariant. *)
THEOREM Inductive == Spec => []IInv
BY InductiveInit, InductiveStep, PTL DEF Spec

(* Every variable keeps its type. *)
THEOREM TypeCorrect == Spec => []TypeOK
<1>1. IInv => TypeOK
  BY DEF IInv
<1>2. QED
  BY <1>1, Inductive, PTL

(* What a power failure takes is bounded by the number of callers, for     *)
(* written and for acknowledged data, until an fsync fails: two writes and *)
(* one acknowledged write in a server with one caller.                     *)
THEOREM Loss == Spec => []LossBound
<1>1. IInv => LossBound
  BY DEF IInv
<1>2. QED
  BY <1>1, Inductive, PTL

(* No more requests and completions are pending than there are callers. *)
THEOREM Bounded == Spec => []RingBound
<1>1. IInv => RingBound
  BY DEF IInv
<1>2. QED
  BY <1>1, Inductive, PTL

(* No thread waits for a completion that nobody will produce, as long as   *)
(* no request of another thread is left in the queue, refused.             *)
THEOREM WaitsForSomething == Spec => []NoHang
<1>1. IInv => NoHang
  <2> SUFFICES ASSUME IInv, ~clash, Waiters # {}
               PROVE  Outstanding > 0 \/ Submitters # {}
    BY DEF NoHang
  <2>1. TypeOK /\ CountInv
    BY DEF IInv
  <2>2. up /\ successful_writeback_count = 0
    BY <2>1 DEF CountInv, Waiters, TypeOK
  <2>3. Outstanding + Cardinality(Submitters) > 0
    BY <2>1, <2>2 DEF CountInv
  <2>4. CASE Submitters = {}
    BY <2>1, <2>3, <2>4, Finite, FS_EmptySet
  <2>5. QED
    BY <2>4
<1>2. QED
  BY <1>1, Inductive, PTL

-----------------------------------------------------------------------------
(* Refinement *)

LEMMA RefineStep == IInv /\ IInv' /\ [Next]_vars => [Promise!Next]_(Promise!vars)
<1> SUFFICES ASSUME IInv, IInv', [Next]_vars
             PROVE  [Promise!Next]_(Promise!vars)
  OBVIOUS
<1> USE DEF Promise!Next, Promise!vars
<1>a. Promise!Safe = Safe
  BY DEF Promise!Safe, Promise!Larger, Safe, Larger
<1>b. TypeOK /\ WrittenLossBound' /\ AckedLossBound'
  BY DEF IInv, LossBound
<1>1. CASE StartConfig
  BY <1>1, <1>b DEF StartConfig, Promise!Restart, Sound, TypeOK
<1>2. CASE AofWrite
  <2>1. written' = written + 1 /\ UNCHANGED <<acked, durable, base, Sound>>
    BY <1>2 DEF AofWrite, Sound
  <2>2. Safe' = Safe
    BY <2>1 DEF Safe
  <2>3. Promise!Append
    BY <1>a, <1>b, <2>1, <2>2 DEF Promise!Append, WrittenLossBound
  <2>4. QED
    BY <2>3
<1>3. CASE Reply
  <2>1. acked' = written /\ UNCHANGED <<written, durable, base, Sound>>
    BY <1>3 DEF Reply, Sound
  <2>2. Safe' = Safe
    BY <2>1 DEF Safe
  <2>3. Promise!Ack
    BY <1>a, <1>b, <2>1, <2>2 DEF Promise!Ack, AckedLossBound
  <2>4. QED
    BY <2>3
<1>4. ASSUME NEW c \in Callers, Thread(c) PROVE Promise!Break \/ UNCHANGED Promise!vars
  <2>1. UNCHANGED <<written, acked, durable, base, failed>>
    BY <1>4 DEF Thread, OtherCall, StartFsync, Wait, Seen, SubmitFsync, log
  <2>2. clash' \in BOOLEAN /\ (clash => clash')
    <3>1. CASE SubmitFsync(c)
      BY <1>b, <3>1, Submitted
    <3>2. CASE ~SubmitFsync(c)
      BY <1>4, <1>b, <3>2 DEF Thread, OtherCall, StartFsync, Wait, Seen, TypeOK
    <3>3. QED
      BY <3>1, <3>2
  <2>3. QED
    BY <1>b, <2>1, <2>2 DEF Promise!Break, Sound, TypeOK
<1>5. ASSUME NEW n \in inflight, CompleteFsync(n)
      PROVE  Promise!Persist \/ UNCHANGED Promise!vars
  <2>1. UNCHANGED <<written, acked, base, Sound>>
    BY <1>5 DEF CompleteFsync, Sound
  <2>2. CASE failed \/ n <= durable
    <3>1. durable' = durable
      BY <1>5, <2>2, <1>b DEF CompleteFsync, Larger, TypeOK
    <3>2. QED
      BY <2>1, <3>1
  <2>3. CASE ~failed /\ ~(n <= durable)
    <3>1. durable' = n /\ n \in durable + 1 .. written
      BY <1>5, <2>3, <1>b DEF CompleteFsync, Larger, TypeOK
    <3>2. QED
      BY <2>1, <2>3, <3>1 DEF Promise!Persist
  <2>4. QED
    BY <2>2, <2>3
<1>6. ASSUME NEW n \in inflight, FailFsync(n) PROVE Promise!Break
  BY <1>6 DEF FailFsync, Promise!Break, Sound
<1>7. CASE CompleteOther \/ Kill \/ UNCHANGED vars
  BY <1>7 DEF CompleteOther, Kill, vars, log, Sound
<1>8. CASE KernelWriteback
  BY <1>8 DEF KernelWriteback, Promise!Persist, Sound
<1>9. CASE PowerFail
  BY <1>9 DEF PowerFail, Promise!PowerFail, Sound
<1>10. QED
  BY <1>1, <1>2, <1>3, <1>4, <1>5, <1>6, <1>7, <1>8, <1>9 DEF Next, Kernel

(* The extension implements the log with the losses above: every step is   *)
(* a step of DurableLog or leaves its variables alone.                     *)
THEOREM Refines == Spec => PromiseSpec
<1>1. Init => Promise!Init
  BY DEF Init, Promise!Init, Sound
<1>2. QED
  BY <1>1, RefineStep, Inductive, PTL DEF Spec, PromiseSpec, Promise!Spec

-----------------------------------------------------------------------------
(* What the README says, and what the abstract log says *)

(* "It ... ensures that the system loses at most 2 updates": so it does,   *)
(* for writes, in a server in which only one thread calls fdatasync, which *)
(* is started on a new log and never again, and on a disk that works.  The *)
(* run DelayedFsyncRestart shows that it does not without the second of    *)
(* these.                                                                  *)
THEOREM ReadmeBoundHolds ==
  ASSUME Callers = {Main}, ~MayRestart, ~FsyncMayFail
  PROVE  Spec => []ReadmeLossBound
<1> DEFINE FirstServer == ~failed /\ ~clash /\ base = 0 /\ (~up => written = 0)
<1>1. Init => FirstServer
  BY DEF Init
<1>2. FirstServer /\ [Next]_vars => FirstServer'
  <2> SUFFICES ASSUME FirstServer, [Next]_vars PROVE FirstServer'
    OBVIOUS
  <2>1. CASE StartConfig \/ AofWrite \/ Reply
    BY <2>1 DEF StartConfig, AofWrite, Reply
  <2>2. ASSUME NEW c \in Callers, Thread(c) PROVE FirstServer'
    <3>1. UNCHANGED <<up, failed, base, written>>
      BY <2>2 DEF Thread, OtherCall, StartFsync, Wait, Seen, SubmitFsync, log
    <3>2. CASE SubmitFsync(c)
      <4>1. PICK kept \in BOOLEAN :
              /\ ~kept => queue = RingEntries \/ Rival(c)
              /\ clash' = (clash \/ (~kept /\ queue < RingEntries))
        BY <3>2 DEF SubmitFsync
      <4>2. ~Rival(c)
        BY DEF Rival
      <4>3. ~kept => ~(queue < RingEntries)
        BY <4>1, <4>2, RingAssumption
      <4>4. ~clash'
        BY <4>1, <4>3
      <4> QED BY <3>1, <4>4
    <3>3. CASE ~SubmitFsync(c)
      <4>1. ~\E o \in Callers \ {c} : pc[o] = "seen"
        OBVIOUS
      <4>2. ~clash'
        BY <2>2, <3>3, <4>1 DEF Thread, OtherCall, StartFsync, Wait, Seen
      <4> QED BY <3>1, <4>2
    <3> QED BY <3>2, <3>3
  <2>3. CASE Kernel \/ KernelWriteback \/ Kill \/ PowerFail \/ UNCHANGED vars
    BY <2>3 DEF Kernel, CompleteFsync, FailFsync, CompleteOther, KernelWriteback, Kill,
                PowerFail, vars, log
  <2> QED BY <2>1, <2>2, <2>3 DEF Next
<1>3. IInv /\ FirstServer => ReadmeLossBound
  <2> SUFFICES ASSUME IInv, FirstServer PROVE written - durable <= 2
    BY DEF ReadmeLossBound
  <2>1. Cardinality(Callers) = 1
    BY FS_Singleton
  <2>2. Safe = durable /\ Sound
    BY DEF Safe, Larger, Sound, IInv, TypeOK
  <2> QED BY <2>1, <2>2 DEF IInv, LossBound, WrittenLossBound, TypeOK
<1> QED BY <1>1, <1>2, <1>3, Inductive, PTL DEF Spec

(* DurableLog promises no less than the bounds that it is there to state:  *)
(* whatever implements it with these numbers loses no more.                *)
THEOREM PromiseMeansLoss == PromiseSpec => []LossBound
<1> DEFINE Lengths == /\ written \in Nat /\ acked \in 0 .. written
                      /\ durable \in 0 .. written /\ base \in 0 .. written
<1>0. Cardinality(Callers) \in Nat
  BY CallersAssumption, FS_CardinalityType
<1>a. Promise!Safe = Safe
  BY DEF Promise!Safe, Promise!Larger, Safe, Larger
<1>1. Promise!Init => Lengths /\ LossBound
  BY <1>0 DEF Promise!Init, LossBound, WrittenLossBound, AckedLossBound, Safe, Larger
<1>2. Lengths /\ LossBound /\ [Promise!Next]_(Promise!vars) => Lengths' /\ LossBound'
  <2> SUFFICES ASSUME Lengths, LossBound, [Promise!Next]_(Promise!vars)
               PROVE  Lengths' /\ LossBound'
    OBVIOUS
  <2> USE <1>0, <1>a DEF LossBound, WrittenLossBound, AckedLossBound
  <2>1. CASE Promise!Append
    <3>1. Safe' = Safe
      BY <2>1 DEF Promise!Append, Safe
    <3> QED BY <2>1, <3>1 DEF Promise!Append, Safe, Larger
  <2>2. CASE Promise!Ack
    <3>1. Safe' = Safe
      BY <2>2 DEF Promise!Ack, Safe
    <3> QED BY <2>2, <3>1 DEF Promise!Ack, Safe, Larger
  <2>3. CASE Promise!Persist
    <3>1. Safe' \in Nat /\ Safe \in Nat /\ Safe' >= Safe
      BY <2>3 DEF Promise!Persist, Safe, Larger
    <3>2. Sound' = Sound /\ UNCHANGED <<written, acked, base>> /\ durable' \in 0 .. written
      BY <2>3 DEF Promise!Persist, Sound
    <3> QED BY <3>1, <3>2
  <2>5. CASE Promise!Break
    BY <2>5 DEF Promise!Break, Safe, Larger
  <2>6. CASE Promise!Restart
    <3>1. base' = written /\ UNCHANGED <<written, acked, durable>> /\ Safe' = written
      BY <2>6 DEF Promise!Restart, Safe, Larger
    <3> QED BY <3>1
  <2>4. CASE Promise!PowerFail \/ UNCHANGED Promise!vars
    BY <2>4 DEF Promise!PowerFail, Promise!vars, Safe, Larger
  <2> QED BY <2>1, <2>2, <2>3, <2>4, <2>5, <2>6 DEF Promise!Next
<1> QED BY <1>1, <1>2, PTL DEF PromiseSpec, Promise!Spec
=============================================================================
