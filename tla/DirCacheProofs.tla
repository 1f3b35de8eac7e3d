--------------------------- MODULE DirCacheProofs ---------------------------
(***************************************************************************)
(* Theorems about DirCache, for every set of processes, every size of      *)
(* buffer and every directory.                                             *)
(***************************************************************************)
EXTENDS DirCache, SequenceTheorems, TLAPS

Real == 1 .. MaxEntries
Fills == {"fill_1", "fill_2", "fill_3"}

(* What the kernel reports are entries, and so are the cached ones; both   *)
(* fit in the directory.                                                   *)
Shapes ==
  /\ chunk \in [Procs -> Seq(Units)]
  /\ \A p \in Procs : pc[p] # "told" => chunk[p] \in Seq(Real) /\ Len(chunk[p]) <= limit
  /\ got \in [Procs -> Seq(Units)]
  /\ buf \in Seq(Real) /\ Len(buf) <= limit /\ nread <= limit

Typed == TypeOK /\ Shapes

(* Until two processes fill the cache: at most one is at it, and the       *)
(* buffer has been written before nread.                                   *)
Clean ==
  ~race =>
    /\ ~cached => nread = 0
    /\ \A p \in Procs : pc[p] \in Fills => cached
    /\ \A p, q \in Procs : pc[p] \in Fills /\ pc[q] \in Fills => p = q
    /\ \A p \in Procs : /\ pc[p] \in {"fill_1", "fill_2"} => nread = 0
                        /\ pc[p] = "fill_2" => Len(buf) = Smaller(BufSize, Len(chunk[p]))
    /\ Small => nread <= Len(buf)

(* Whoever has copied the buffer without being early has copied all of it, *)
(* and is told of no more than that.                                       *)
Copied ==
  /\ ~cached => \A p \in Procs : pc[p] \notin {"copied", "told"}
  /\ ~race /\ Small =>
       \A p \in Procs \ early :
         /\ pc[p] = "copied" =>
              chunk[p] = buf /\ \A q \in Procs : pc[q] # "fill_1"
         /\ pc[p] = "told" =>
              \A i \in 1 .. Len(chunk[p]) : chunk[p][i] # Garbage

(* Until two listings overlap or one is given up: at most one process      *)
(* lists, what it has been given is what is cached or about to be, and     *)
(* last_pid_tgid names it just from its first answer to its end.           *)
Alone == \A p, q \in Procs : pc[p] # "closed" /\ pc[q] # "closed" => p = q

State(p) ==
  /\ pc[p] \in {"closed", "open", "skip"} => chunk[p] = <<>>
  /\ pc[p] = "closed" => got[p] = <<>> /\ pos[p] = 0
  /\ pc[p] = "open" /\ cached => got[p] = IF last_pid_tgid = p THEN buf ELSE <<>>
  /\ pc[p] = "open" /\ ~cached => got[p] = <<>> /\ pos[p] = 0
  /\ pc[p] = "skip" => cached /\ got[p] = buf
  /\ pc[p] \in {"copied", "told"} => cached /\ got[p] = <<>> /\ chunk[p] = buf
  /\ pc[p] = "kernel" => ~cached /\ got[p] = <<>> /\ pos[p] = 0
  /\ pc[p] = "kernel" => chunk[p] = <<>>
  /\ pc[p] \in {"exit", "insert"} => ~cached
  /\ pc[p] \in {"exit", "insert"} \cup Fills => got[p] = chunk[p] /\ chunk[p] \in Listings
  /\ pc[p] \in Fills => cached
  /\ pc[p] \in {"fill_2", "fill_3"} => buf = chunk[p]
  /\ pc[p] = "fill_3" => nread = Len(chunk[p])
  /\ pc[p] = "eof" => chunk[p] = <<>>
  /\ pc[p] = "eof" => cached /\ got[p] = buf /\ last_pid_tgid = Nobody

Settled ==
  cached /\ (\A p \in Procs : pc[p] \notin Fills) =>
    /\ nread = Len(buf) /\ nread # 0 /\ buf \in Listings
    /\ \A p \in Procs : last_pid_tgid = p => pc[p] \in {"open", "skip"}

Listing ==
  ~overlap /\ ~abandon /\ Small => Alone /\ (\A p \in Procs : State(p)) /\ Settled

-----------------------------------------------------------------------------
(* The sequences that the hooks build. *)

LEMMA UnitsOfReal == Seq(Real) \subseteq Seq(Units)
<1>1. Real \subseteq Units
  BY SizeAssumption DEF Real, Units
<1> QED BY <1>1, SeqMonotonic

LEMMA ServedTyped ==
  ASSUME Typed, NEW s \in Seq(Units)
  PROVE  Served(s) \in Seq(Units)
<1>1. \A i \in 1 .. nread : (IF i <= Len(s) THEN s[i] ELSE Garbage) \in Units
  <2> SUFFICES ASSUME NEW i \in 1 .. nread, i <= Len(s)
               PROVE  s[i] \in Units
    BY SizeAssumption DEF Garbage, Units
  <2>1. i \in 1 .. Len(s)
    BY LenProperties DEF Typed, TypeOK
  <2> QED BY <2>1, ElementOfSeq
<1>2. nread \in Nat
  BY SizeAssumption DEF Typed, TypeOK
<1> QED BY <1>1, <1>2 DEF Served

LEMMA ServedRight ==
  ASSUME Typed, nread = Len(buf)
  PROVE  Served(buf) = buf
<1>1. buf \in Seq(Units)
  BY UnitsOfReal DEF Typed, Shapes
<1>2. Served(buf) \in Seq(Units)
  BY <1>1, ServedTyped
<1>3. nread \in Nat
  BY SizeAssumption DEF Typed, TypeOK
<1>4. Len(Served(buf)) = nread
  BY <1>3 DEF Served
<1>5. \A i \in 1 .. nread : Served(buf)[i] = buf[i]
  BY <1>3 DEF Served
<1> QED BY <1>1, <1>2, <1>4, <1>5, SeqEqual

LEMMA ServedClean ==
  ASSUME Typed, nread <= Len(buf)
  PROVE  \A i \in 1 .. Len(Served(buf)) : Served(buf)[i] # Garbage
<1>1. nread \in Nat /\ Len(buf) \in Nat /\ buf \in Seq(Real)
  BY SizeAssumption, LenProperties DEF Typed, TypeOK, Shapes
<1>2. Len(Served(buf)) = nread
  BY <1>1 DEF Served
<1>3. ASSUME NEW i \in 1 .. nread PROVE Served(buf)[i] # Garbage
  <2>1. Served(buf)[i] = buf[i]
    BY <1>1 DEF Served
  <2>2. buf[i] \in Real
    BY <1>1, ElementOfSeq
  <2> QED BY <2>1, <2>2, SizeAssumption DEF Real, Garbage
<1> QED BY <1>2, <1>3

(* What the enter hook copies: all of the buffer, if it fits.              *)
LEMMA CopyRight ==
  ASSUME Typed
  PROVE  LET s == SubSeq(buf, 1, Smaller(Smaller(BufSize, count), Len(buf)))
         IN  s \in Seq(Real) /\ Len(s) <= limit /\ (Small => s = buf)
<1> DEFINE n == Smaller(Smaller(BufSize, count), Len(buf))
<1>1. buf \in Seq(Real) /\ Len(buf) \in Nat /\ Len(buf) <= limit /\ limit \in Nat
  BY LenProperties, SizeAssumption DEF Typed, TypeOK, Shapes
<1>2. n \in 0 .. Len(buf) /\ (Small => n = Len(buf))
  BY <1>1, SizeAssumption DEF Smaller, Small, Typed, TypeOK
<1>3. \A i \in 1 .. n : buf[i] \in Real
  BY <1>1, <1>2, ElementOfSeq
<1>4. SubSeq(buf, 1, n) \in Seq(Real) /\ Len(SubSeq(buf, 1, n)) = IF 1 <= n THEN n - 1 + 1 ELSE 0
  <2> HIDE DEF n
  <2> QED BY <1>2, <1>3, SubSeqProperties
<1>5. Len(SubSeq(buf, 1, n)) <= limit
  <2> HIDE DEF n
  <2> QED BY <1>1, <1>2, <1>4
<1>6. Small => SubSeq(buf, 1, n) = buf
  BY <1>1, <1>2, SubSeqFull
<1> QED BY <1>4, <1>5, <1>6

LEMMA EntriesRight ==
  ASSUME NEW a \in Nat, NEW b \in 0 .. MaxEntries, a <= b
  PROVE  /\ Entries(a, b) \in Seq(Real)
         /\ Len(Entries(a, b)) = b - a
<1>1. b - a \in Nat /\ \A i \in 1 .. b - a : a + i \in Real
  BY SizeAssumption DEF Real
<1> QED BY <1>1 DEF Entries

LEMMA CutRight ==
  ASSUME NEW s \in Seq(Real)
  PROVE  /\ SubSeq(s, 1, Smaller(BufSize, Len(s))) \in Seq(Real)
         /\ Len(SubSeq(s, 1, Smaller(BufSize, Len(s)))) = Smaller(BufSize, Len(s))
         /\ Len(s) <= BufSize => SubSeq(s, 1, Smaller(BufSize, Len(s))) = s
<1> DEFINE n == Smaller(BufSize, Len(s))
<1>1. Len(s) \in Nat /\ n \in 0 .. Len(s) /\ (Len(s) <= BufSize => n = Len(s))
  BY SizeAssumption, LenProperties DEF Smaller
<1>2. \A i \in 1 .. n : s[i] \in Real
  BY <1>1, ElementOfSeq
<1>3. SubSeq(s, 1, n) \in Seq(Real) /\ Len(SubSeq(s, 1, n)) = IF 1 <= n THEN n - 1 + 1 ELSE 0
  <2> HIDE DEF n
  <2> QED BY <1>1, <1>2, SubSeqProperties
<1>4. Len(s) <= BufSize => SubSeq(s, 1, n) = s
  BY <1>1, SubSeqFull
<1> QED BY <1>1, <1>3, <1>4

-----------------------------------------------------------------------------
(* Types *)

LEMMA InitTyped == Init => Typed
<1> SUFFICES ASSUME Init PROVE Typed
  OBVIOUS
<1>1. limit \in 1 .. MaxEntries /\ size \in 1 .. limit /\ count \in Counts
  BY DEF Init
<1>2. <<>> \in Seq(Real) /\ <<>> \in Seq(Units) /\ Len(<<>>) = 0
  BY EmptySeq
<1>3. TypeOK
  <2>1. /\ limit \in 1 .. MaxEntries /\ size \in 1 .. limit /\ changes \in 0 .. MaxChanges
        /\ nread \in 0 .. MaxEntries /\ Len(buf) <= BufSize
    BY <1>1, <1>2, SizeAssumption DEF Init
  <2>2. buf \in Seq(Units) /\ \A p \in Procs : chunk[p] \in Seq(Units) /\ got[p] \in Seq(Units)
    BY <1>2 DEF Init
  <2>3. /\ cached \in BOOLEAN /\ overlap \in BOOLEAN /\ abandon \in BOOLEAN
        /\ race \in BOOLEAN /\ pos \in [Procs -> Nat]
        /\ pc \in [Procs -> {"closed", "open", "skip", "copied", "told", "kernel",
                             "exit", "insert", "fill_1", "fill_2", "fill_3", "eof"}]
        /\ last_pid_tgid \in Procs \cup {Nobody} /\ early \subseteq Procs
    BY DEF Init
  <2> QED BY <1>1, <2>1, <2>2, <2>3 DEF TypeOK
<1>4. Shapes
  BY <1>1, <1>2, SizeAssumption DEF Init, Shapes
<1> QED BY <1>3, <1>4 DEF Typed

(* The end of a call, for whoever asks.                                    *)
LEMMA AnsweredTyped ==
  ASSUME Typed, NEW p \in Procs, Answered(p), UNCHANGED limit
  PROVE  /\ pc' \in {[pc EXCEPT ![p] = "eof"], [pc EXCEPT ![p] = "open"]}
         /\ pc' \in [Procs -> {"closed", "open", "skip", "copied", "told", "kernel",
                              "exit", "insert", "fill_1", "fill_2", "fill_3", "eof"}]
         /\ chunk' = [chunk EXCEPT ![p] = <<>>]
         /\ chunk' \in [Procs -> Seq(Units)]
         /\ \A q \in Procs : chunk'[q] \in Seq(Units)
         /\ \A q \in Procs : pc'[q] # "told" =>
                             chunk'[q] \in Seq(Real) /\ Len(chunk'[q]) <= limit'
<1>1. <<>> \in Seq(Real) /\ <<>> \in Seq(Units) /\ Len(<<>>) = 0
  BY EmptySeq
<1>2. 0 <= limit'
  BY SizeAssumption DEF Typed, TypeOK
<1>3. /\ chunk' = [chunk EXCEPT ![p] = <<>>]
      /\ pc' \in {[pc EXCEPT ![p] = "eof"], [pc EXCEPT ![p] = "open"]}
  BY DEF Answered, Goto
<1>4. /\ pc \in [Procs -> {"closed", "open", "skip", "copied", "told", "kernel",
                           "exit", "insert", "fill_1", "fill_2", "fill_3", "eof"}]
      /\ chunk \in [Procs -> Seq(Units)]
      /\ \A q \in Procs : pc[q] # "told" => chunk[q] \in Seq(Real) /\ Len(chunk[q]) <= limit
  BY DEF Typed, TypeOK, Shapes
<1>5. /\ chunk' \in [Procs -> Seq(Units)]
      /\ pc' \in [Procs -> {"closed", "open", "skip", "copied", "told", "kernel",
                            "exit", "insert", "fill_1", "fill_2", "fill_3", "eof"}]
  BY <1>1, <1>3, <1>4
<1>6. ASSUME NEW q \in Procs, pc'[q] # "told"
      PROVE  chunk'[q] \in Seq(Real) /\ Len(chunk'[q]) <= limit'
  <2>1. CASE q = p
    BY <2>1, <1>1, <1>2, <1>3, <1>4
  <2>2. CASE q # p
    BY <2>2, <1>3, <1>4, <1>6
  <2> QED BY <2>1, <2>2
<1> QED BY <1>3, <1>5, <1>6

LEMMA StepTyped == Typed /\ [Next]_vars => Typed'
<1> SUFFICES ASSUME Typed, [Next]_vars PROVE Typed'
  OBVIOUS
<1> USE SizeAssumption, UnitsOfReal DEF Typed, TypeOK, Shapes, Goto, Calls, dir, cache, events
<1>e. <<>> \in Seq(Real) /\ <<>> \in Seq(Units) /\ Len(<<>>) = 0
  BY EmptySeq
<1>1. ASSUME NEW p \in Procs, Open(p) PROVE Typed'
  BY <1>1 DEF Open
<1>2. ASSUME NEW p \in Procs, EnterSkip(p) PROVE Typed'
  BY <1>2 DEF EnterSkip
<1>19. ASSUME NEW p \in Procs, ClearLast(p) PROVE Typed'
  BY <1>19, AnsweredTyped DEF ClearLast
<1>3. ASSUME NEW p \in Procs, EnterHit(p) PROVE Typed'
  <2> DEFINE c == SubSeq(buf, 1, Smaller(Smaller(BufSize, count), Len(buf)))
  <2>1. c \in Seq(Real) /\ c \in Seq(Units) /\ Len(c) <= limit
    BY CopyRight
  <2>2. /\ chunk' = [chunk EXCEPT ![p] = c] /\ pc' = [pc EXCEPT ![p] = "copied"]
        /\ early' \subseteq Procs
        /\ UNCHANGED <<dir, cache, pos, got, count, events>>
    BY <1>3 DEF EnterHit
  <2> HIDE DEF c
  <2> QED BY <2>1, <2>2
<1>16. ASSUME NEW p \in Procs, ReadNread(p) PROVE Typed'
  <2>1. Served(chunk[p]) \in Seq(Units)
    BY ServedTyped
  <2>2. /\ chunk' = [chunk EXCEPT ![p] = Served(chunk[p])]
        /\ pc' = [pc EXCEPT ![p] = "told"]
        /\ UNCHANGED <<dir, cache, pos, got, count, events, early>>
    BY <1>16 DEF ReadNread
  <2> QED BY <2>1, <2>2
<1>17. ASSUME NEW p \in Procs, MarkLast(p) PROVE Typed'
  <2>1. got[p] \o chunk[p] \in Seq(Units)
    BY ConcatProperties
  <2>2. got' \in [Procs -> Seq(Units)]
    BY <1>17, <2>1 DEF MarkLast
  <2>3. \A q \in Procs : got'[q] \in Seq(Units)
    BY <2>2
  <2>4. /\ last_pid_tgid' = p /\ Answered(p)
        /\ UNCHANGED <<dir, cached, buf, nread, pos, count, events, early>>
    BY <1>17 DEF MarkLast
  <2>5. /\ pc' \in [Procs -> {"closed", "open", "skip", "copied", "told", "kernel",
                              "exit", "insert", "fill_1", "fill_2", "fill_3", "eof"}]
        /\ chunk' \in [Procs -> Seq(Units)]
        /\ \A q \in Procs : chunk'[q] \in Seq(Units)
        /\ \A q \in Procs : pc'[q] # "told" =>
                             chunk'[q] \in Seq(Real) /\ Len(chunk'[q]) <= limit'
    BY <2>4, AnsweredTyped
  <2> QED BY <2>2, <2>3, <2>4, <2>5
<1>4. ASSUME NEW p \in Procs, EnterMiss(p) PROVE Typed'
  BY <1>4 DEF EnterMiss
<1>5. ASSUME NEW p \in Procs, Kernel(p) PROVE Typed'
  <2> DEFINE last == Smaller(size, pos[p] + count)
             chunk_p == IF pos[p] < size THEN Entries(pos[p], last) ELSE <<>>
  <2>0. pos[p] \in Nat /\ count \in Nat \ {0} /\ size \in Nat /\ size <= limit
    OBVIOUS
  <2>1. chunk_p \in Seq(Real) /\ Len(chunk_p) \in Nat /\ Len(chunk_p) <= limit
    <3>1. CASE pos[p] < size
      <4>1. last \in 0 .. MaxEntries /\ pos[p] <= last /\ last <= limit
        BY <2>0, <3>1 DEF Smaller
      <4>2. Entries(pos[p], last) \in Seq(Real) /\ Len(Entries(pos[p], last)) = last - pos[p]
        BY <4>1, <2>0, EntriesRight
      <4> HIDE DEF last
      <4> QED BY <4>1, <4>2, <2>0, <3>1
    <3>2. CASE ~(pos[p] < size)
      BY <3>2, <1>e, <2>0
    <3> QED BY <3>1, <3>2
  <2> HIDE DEF chunk_p
  <2>2. /\ chunk' = [chunk EXCEPT ![p] = chunk_p]
        /\ got' = [got EXCEPT ![p] = @ \o chunk_p]
        /\ pos' = [pos EXCEPT ![p] = @ + Len(chunk_p)]
        /\ pc' = [pc EXCEPT ![p] = "exit"]
        /\ UNCHANGED <<dir, cache, count, events, early>>
    BY <1>5 DEF Kernel, chunk_p
  <2>3. got[p] \o chunk_p \in Seq(Units)
    BY <2>1, ConcatProperties
  <2>4. got' \in [Procs -> Seq(Units)] /\ chunk' \in [Procs -> Seq(Units)]
        /\ pos' \in [Procs -> Nat]
    BY <2>1, <2>2, <2>3
  <2>5. \A q \in Procs : pc'[q] # "told" =>
                            chunk'[q] \in Seq(Real) /\ Len(chunk'[q]) <= limit'
    BY <2>1, <2>2
  <2> QED BY <2>2, <2>4, <2>5
<1>6. ASSUME NEW p \in Procs, ExitCached(p) PROVE Typed'
  BY <1>6, AnsweredTyped DEF ExitCached
<1>7. ASSUME NEW p \in Procs, ExitFill(p) PROVE Typed'
  BY <1>7 DEF ExitFill
<1>8. ASSUME NEW p \in Procs, Insert(p) PROVE Typed'
  BY <1>8, <1>e DEF Insert
<1>9. ASSUME NEW p \in Procs, FillFields(p) PROVE Typed'
  <2>0. pc[p] \in Fills
    BY <1>9 DEF FillFields, Fill, Fills
  <2>1. LET s == SubSeq(chunk[p], 1, Smaller(BufSize, Len(chunk[p])))
        IN  s \in Seq(Real) /\ Len(s) <= BufSize /\ Len(s) <= limit
    <3>1. chunk[p] \in Seq(Real) /\ Len(chunk[p]) \in Nat /\ Len(chunk[p]) <= limit
      BY <2>0, LenProperties DEF Fills
    <3> QED BY <3>1, CutRight DEF Smaller
  <2>2. Len(chunk[p]) \in 0 .. MaxEntries /\ Len(chunk[p]) <= limit
    BY <2>0, LenProperties DEF Fills
  <2>3. UNCHANGED <<dir, cached, pos, got, count, events, early>>
    BY <1>9 DEF FillFields, Fill
  <2>4. /\ chunk' \in [Procs -> Seq(Units)]
        /\ \A q \in Procs : chunk'[q] \in Seq(Units)
        /\ \A q \in Procs : pc'[q] # "told" => chunk'[q] \in Seq(Real) /\ Len(chunk'[q]) <= limit'
        /\ pc' \in [Procs -> {"closed", "open", "skip", "copied", "told", "kernel",
                              "exit", "insert", "fill_1", "fill_2", "fill_3", "eof"}]
    <3>1. \/ Answered(p)
          \/ /\ UNCHANGED chunk
             /\ pc' \in {[pc EXCEPT ![p] = "fill_2"], [pc EXCEPT ![p] = "fill_3"]}
      BY <1>9 DEF FillFields, Fill
    <3>2. CASE Answered(p)
      BY <2>3, <3>2, AnsweredTyped
    <3>3. CASE /\ UNCHANGED chunk
               /\ pc' \in {[pc EXCEPT ![p] = "fill_2"], [pc EXCEPT ![p] = "fill_3"]}
      BY <2>3, <3>3, <2>0 DEF Fills
    <3> QED BY <3>1, <3>2, <3>3
  <2>5. /\ buf' \in Seq(Real) /\ Len(buf') <= BufSize /\ Len(buf') <= limit
        /\ nread' \in 0 .. MaxEntries /\ nread' <= limit
        /\ last_pid_tgid' \in Procs \cup {Nobody}
    BY <1>9, <2>1, <2>2 DEF FillFields, WriteBuf, WriteNread, WriteLast
  <2> QED BY <2>3, <2>4, <2>5
<1>10. ASSUME NEW p \in Procs, ReadOn(p) PROVE Typed'
  BY <1>10, <1>e DEF ReadOn
<1>11. ASSUME NEW p \in Procs, Closes(p), UNCHANGED <<dir, cache, count, overlap, race>>,
              abandon' \in BOOLEAN
       PROVE  Typed'
  BY <1>11, <1>e DEF Closes
<1>12. CASE Change
  <2>1. size' \in 1 .. limit /\ changes' \in 0 .. MaxChanges
    BY <1>12 DEF Change
  <2> QED BY <1>12, <2>1 DEF Change
<1>13. CASE UNCHANGED vars
  BY <1>13 DEF vars
<1>18. ASSUME NEW p \in Procs, KernelFails(p) PROVE Typed'
  <2>1. CASE Closes(p)
    BY <2>1, <1>18, <1>11 DEF KernelFails
  <2>2. CASE Goto(p, "open") /\ UNCHANGED <<pos, chunk, got, early>>
    BY <2>2, <1>18 DEF KernelFails
  <2> QED BY <1>18, <2>1, <2>2 DEF KernelFails
<1>14. ASSUME NEW p \in Procs, Close(p) PROVE Typed'
  BY <1>14, <1>11 DEF Close
<1>15. ASSUME NEW p \in Procs, Abandon(p) PROVE Typed'
  BY <1>15, <1>11 DEF Abandon
<1> QED BY <1>1, <1>2, <1>3, <1>4, <1>5, <1>6, <1>7, <1>8, <1>9, <1>10, <1>12, <1>13,
           <1>14, <1>15, <1>16, <1>17, <1>18, <1>19 DEF Next, GetDents

-----------------------------------------------------------------------------
(* No garbage *)

LEMMA StepClean == Typed /\ Clean /\ [Next]_vars => Clean'
<1> SUFFICES ASSUME Typed, Clean, [Next]_vars PROVE Clean'
  OBVIOUS
<1> USE SizeAssumption DEF Clean, Goto, Calls, Small, Fills, dir, cache, events
<1>t. /\ pc \in [Procs -> {"closed", "open", "skip", "copied", "told", "kernel",
                           "exit", "insert", "fill_1", "fill_2", "fill_3", "eof"}]
      /\ chunk \in [Procs -> Seq(Units)]
  BY DEF Typed, TypeOK, Shapes
<1> USE <1>t
<1>1. ASSUME NEW p \in Procs, Open(p) PROVE Clean'
  BY <1>1 DEF Open
<1>2. ASSUME NEW p \in Procs, EnterSkip(p) \/ EnterHit(p) \/ ReadNread(p) PROVE Clean'
  <2>1. /\ pc[p] \notin Fills
        /\ pc' \in {[pc EXCEPT ![p] = "skip"], [pc EXCEPT ![p] = "copied"], [pc EXCEPT ![p] = "told"]}
        /\ \A q \in Procs : q # p => chunk'[q] = chunk[q]
        /\ UNCHANGED <<cached, buf, nread, limit, count, race>>
    BY <1>2 DEF EnterSkip, EnterHit, ReadNread
  <2> QED BY <2>1
<1>3. ASSUME NEW p \in Procs, ClearLast(p) \/ MarkLast(p) PROVE Clean'
  <2>1. pc[p] \notin Fills /\ Answered(p) /\ UNCHANGED <<cached, buf, nread, limit, count, race>>
    BY <1>3 DEF ClearLast, MarkLast
  <2>2. /\ pc' \in {[pc EXCEPT ![p] = "eof"], [pc EXCEPT ![p] = "open"]}
        /\ chunk' = [chunk EXCEPT ![p] = <<>>]
    BY <2>1, AnsweredTyped
  <2> QED BY <2>1, <2>2
<1>4. ASSUME NEW p \in Procs, EnterMiss(p) PROVE Clean'
  BY <1>4 DEF EnterMiss
<1>5. ASSUME NEW p \in Procs, Kernel(p) \/ KernelFails(p) PROVE Clean'
  <2>1. /\ pc[p] \notin Fills
        /\ pc' \in {[pc EXCEPT ![p] = "exit"], [pc EXCEPT ![p] = "closed"], [pc EXCEPT ![p] = "open"]}
        /\ \A q \in Procs : q # p => chunk'[q] = chunk[q]
        /\ UNCHANGED <<cached, buf, nread, limit, count, race>>
    BY <1>5 DEF Kernel, KernelFails, Closes
  <2> QED BY <2>1
<1>6. ASSUME NEW p \in Procs, ExitCached(p) PROVE Clean'
  BY <1>6 DEF ExitCached, Answered
<1>7. ASSUME NEW p \in Procs, ExitFill(p) PROVE Clean'
  BY <1>7 DEF ExitFill
<1>8. ASSUME NEW p \in Procs, Insert(p) PROVE Clean'
  <2> SUFFICES ASSUME ~race' PROVE Clean'
    OBVIOUS
  <2>1. ~race /\ ~cached
    BY <1>8 DEF Insert
  <2>2. /\ cached' = TRUE /\ buf' = <<>> /\ nread' = 0 /\ pc' = [pc EXCEPT ![p] = "fill_1"]
        /\ UNCHANGED chunk
    BY <1>8 DEF Insert
  <2>3. \A q \in Procs : q # p => pc'[q] \notin Fills
    BY <2>1, <2>2
  <2>4. Len(<<>>) = 0
    BY EmptySeq
  <2>5. nread' <= Len(buf')
    BY <2>2, <2>4
  <2> QED BY <2>2, <2>3, <2>5
<1>9. ASSUME NEW p \in Procs, FillFields(p) PROVE Clean'
  <2> SUFFICES ASSUME ~race PROVE Clean'
    BY <1>9 DEF FillFields, Fill
  <2>0. /\ chunk[p] \in Seq(Real) /\ Len(chunk[p]) \in Nat /\ Len(chunk[p]) <= limit
        /\ limit \in Nat /\ count \in Nat
    <3>1. pc[p] # "told"
      BY <1>9 DEF FillFields, Fill
    <3> QED BY <3>1, LenProperties DEF Typed, TypeOK, Shapes
  <2>1. CASE Fill(p, "fill_1", "fill_2") /\ WriteBuf(p)
    <3>1. /\ nread = 0 /\ nread' = 0 /\ cached /\ cached'
          /\ Len(buf') = Smaller(BufSize, Len(chunk[p]))
          /\ pc' = [pc EXCEPT ![p] = "fill_2"]
          /\ UNCHANGED <<chunk, limit, count, race>>
      BY <2>1, <2>0, CutRight DEF Fill, WriteBuf
    <3>2. \A q \in Procs : q # p => pc'[q] \notin Fills
      BY <2>1 DEF Fill
    <3>3. Len(buf') >= 0
      BY <3>1, <2>0 DEF Smaller
    <3> QED BY <3>1, <3>2, <3>3
  <2>2. CASE Fill(p, "fill_2", "fill_3") /\ WriteNread(p)
    <3>1. /\ nread' = Len(chunk[p]) /\ cached /\ cached' /\ buf' = buf
          /\ Len(buf) = Smaller(BufSize, Len(chunk[p]))
          /\ pc' = [pc EXCEPT ![p] = "fill_3"]
          /\ UNCHANGED <<chunk, limit, count, race>>
      BY <2>2, <2>0 DEF Fill, WriteNread
    <3>2. \A q \in Procs : q # p => pc'[q] \notin Fills
      BY <2>2 DEF Fill
    <3>3. Small' => nread' <= Len(buf')
      BY <3>1, <2>0 DEF Smaller
    <3> QED BY <3>1, <3>2, <3>3
  <2>3. CASE Fill(p, "fill_3", "return") /\ WriteLast(p)
    BY <2>3 DEF Fill, WriteLast, Answered
  <2> QED BY <1>9, <2>1, <2>2, <2>3 DEF FillFields
<1>10. ASSUME NEW p \in Procs, ReadOn(p) PROVE Clean'
  BY <1>10 DEF ReadOn
<1>11. ASSUME NEW p \in Procs, Close(p) \/ Abandon(p) PROVE Clean'
  BY <1>11 DEF Close, Abandon, Closes
<1>12. CASE Change
  BY <1>12 DEF Change
<1>13. CASE UNCHANGED vars
  BY <1>13 DEF vars
<1> QED BY <1>1, <1>2, <1>3, <1>4, <1>5, <1>6, <1>7, <1>8, <1>9, <1>10, <1>11, <1>12,
           <1>13 DEF Next, GetDents

(* What a step leaves alone, but for the few that do not.                  *)
LEMMA Constant ==
  ASSUME [Next]_vars
  PROVE  /\ UNCHANGED <<limit, count>> /\ (race => race')
         /\ (overlap => overlap') /\ (abandon => abandon')
<1> USE DEF Next, GetDents, Open, EnterSkip, ClearLast, EnterHit, ReadNread, MarkLast, EnterMiss, Kernel,
            KernelFails, ExitCached, ExitFill, Insert, FillFields, Fill, ReadOn, Close,
            Abandon, Change, Closes, dir, cache, events, vars
<1>1. UNCHANGED limit
  OBVIOUS
<1>2. UNCHANGED count
  OBVIOUS
<1>3. race => race'
  OBVIOUS
<1>4. overlap => overlap'
  OBVIOUS
<1>5. abandon => abandon'
  OBVIOUS
<1> QED BY <1>1, <1>2, <1>3, <1>4, <1>5

LEMMA StepCopied == Typed /\ Clean /\ Copied /\ [Next]_vars => Copied'
<1> SUFFICES ASSUME Typed, Clean, Copied, [Next]_vars PROVE Copied'
  OBVIOUS
<1> DEFINE Fresh(p) ==
      ~race /\ Small /\ p \notin early =>
        /\ pc[p] = "copied" => chunk[p] = buf /\ \A q \in Procs : pc[q] # "fill_1"
        /\ pc[p] = "told" => \A i \in 1 .. Len(chunk[p]) : chunk[p][i] # Garbage
<1>f. \A p \in Procs : Fresh(p)
  BY DEF Copied
<1>k. UNCHANGED <<limit, count>> /\ (race => race') /\ (Small' => Small)
  BY Constant DEF Small
<1>t. /\ pc \in [Procs -> {"closed", "open", "skip", "copied", "told", "kernel",
                           "exit", "insert", "fill_1", "fill_2", "fill_3", "eof"}]
      /\ chunk \in [Procs -> Seq(Units)]
  BY DEF Typed, TypeOK, Shapes
<1>n. ~cached => \A p \in Procs : pc[p] \notin {"copied", "told"}
  BY DEF Copied
<1> USE <1>f, <1>k, <1>t, <1>n DEF Goto, Calls, cache, events
\* Steps of a process that neither fill nor copy, and end outside "copied" and "told".
<1>0. ASSUME NEW p \in Procs, NEW l \in {"open", "eof", "closed", "skip", "kernel", "exit",
                                          "insert", "fill_2", "fill_3"},
             pc' = [pc EXCEPT ![p] = l], UNCHANGED <<cached, race>>,
             buf' = buf \/ pc[p] = "fill_1",
             \A q \in Procs \ {p} : chunk'[q] = chunk[q] /\ (q \in early => q \in early')
      PROVE  Copied'
  <2>1. ~cached' => \A q \in Procs : pc'[q] \notin {"copied", "told"}
    BY <1>0
  <2>2. ASSUME NEW q \in Procs PROVE Fresh(q)'
    <3>1. CASE q = p
      BY <3>1, <1>0
    <3>2. CASE q # p
      <4>1. chunk'[q] = chunk[q] /\ pc'[q] = pc[q] /\ (q \in early => q \in early')
        BY <3>2, <1>0
      <4>2. \A r \in Procs : pc'[r] = "fill_1" => pc[r] = "fill_1"
        BY <1>0
      <4> QED BY <4>1, <4>2, <1>0
    <3> QED BY <3>1, <3>2
  <2> QED BY <2>1, <2>2 DEF Copied
<1>1. ASSUME NEW p \in Procs, Open(p) \/ EnterSkip(p) \/ EnterMiss(p) PROVE Copied'
  BY <1>1, <1>0 DEF Open, EnterSkip, EnterMiss
<1>2. ASSUME NEW p \in Procs, ClearLast(p) \/ MarkLast(p) \/ ExitCached(p) PROVE Copied'
  <2>1. /\ Answered(p) /\ UNCHANGED <<cached, race, buf, early>>
    BY <1>2 DEF ClearLast, MarkLast, ExitCached
  <2>2. \A q \in Procs \ {p} : chunk'[q] = chunk[q]
    BY <2>1 DEF Answered
  <2>3. pc' = [pc EXCEPT ![p] = "eof"] \/ pc' = [pc EXCEPT ![p] = "open"]
    BY <2>1 DEF Answered
  <2> QED BY <2>1, <2>2, <2>3, <1>0
<1>3. ASSUME NEW p \in Procs, Kernel(p) \/ KernelFails(p) \/ ExitFill(p) PROVE Copied'
  <2>1. UNCHANGED <<cached, race, buf>>
    BY <1>3 DEF Kernel, KernelFails, ExitFill
  <2>2. \A q \in Procs \ {p} : chunk'[q] = chunk[q] /\ (q \in early => q \in early')
    BY <1>3 DEF Kernel, KernelFails, ExitFill, Closes
  <2>3. \E l \in {"exit", "closed", "open", "insert"} : pc' = [pc EXCEPT ![p] = l]
    BY <1>3 DEF Kernel, KernelFails, ExitFill, Closes
  <2> QED BY <2>1, <2>2, <2>3, <1>0
<1>4. ASSUME NEW p \in Procs, ReadOn(p) \/ Close(p) \/ Abandon(p) PROVE Copied'
  <2>1. UNCHANGED <<cached, race, buf>>
    BY <1>4 DEF ReadOn, Close, Abandon
  <2>2. \A q \in Procs \ {p} : chunk'[q] = chunk[q] /\ (q \in early => q \in early')
    BY <1>4 DEF ReadOn, Close, Abandon, Closes
  <2>3. \E l \in {"open", "closed"} : pc' = [pc EXCEPT ![p] = l]
    BY <1>4 DEF ReadOn, Close, Abandon, Closes
  <2> QED BY <2>1, <2>2, <2>3, <1>0
<1>5. ASSUME NEW p \in Procs, FillFields(p) PROVE Copied'
  <2>1. CASE Fill(p, "fill_1", "fill_2") /\ WriteBuf(p)
    BY <2>1, <1>0 DEF Fill
  <2>2. CASE Fill(p, "fill_2", "fill_3") /\ WriteNread(p)
    BY <2>2, <1>0 DEF Fill, WriteNread
  <2>3. CASE Fill(p, "fill_3", "return") /\ WriteLast(p)
    <3>1. /\ Answered(p) /\ UNCHANGED <<cached, race, buf, early>>
      BY <2>3 DEF Fill, WriteLast
    <3>2. \A q \in Procs \ {p} : chunk'[q] = chunk[q]
      BY <3>1 DEF Answered
    <3>3. pc' = [pc EXCEPT ![p] = "eof"] \/ pc' = [pc EXCEPT ![p] = "open"]
      BY <3>1 DEF Answered
    <3> QED BY <3>1, <3>2, <3>3, <1>0
  <2> QED BY <1>5, <2>1, <2>2, <2>3 DEF FillFields
<1>6. ASSUME NEW p \in Procs, Insert(p) PROVE Copied'
  <2>1. cached' = TRUE /\ pc' = [pc EXCEPT ![p] = "fill_1"] /\ race' = (race \/ cached)
        /\ UNCHANGED chunk
    BY <1>6 DEF Insert
  <2>2. ~race' => \A q \in Procs : pc'[q] \notin {"copied", "told"}
    BY <2>1
  <2> QED BY <2>1, <2>2 DEF Copied
<1>7. ASSUME NEW p \in Procs, EnterHit(p) PROVE Copied'
  <2> DEFINE c == SubSeq(buf, 1, Smaller(Smaller(BufSize, count), Len(buf)))
  <2>1. Small => c = buf
    BY CopyRight
  <2>2. /\ cached /\ pc[p] = "open" /\ pc' = [pc EXCEPT ![p] = "copied"]
        /\ chunk' = [chunk EXCEPT ![p] = c]
        /\ early' = IF \E q \in Procs : pc[q] = "fill_1" THEN early \cup {p} ELSE early
        /\ UNCHANGED <<cached, race, buf>>
    BY <1>7 DEF EnterHit
  <2> HIDE DEF c
  <2>3. ASSUME NEW q \in Procs PROVE Fresh(q)'
    <3>1. CASE q = p
      <4>1. (\E r \in Procs : pc[r] = "fill_1") => p \in early'
        BY <2>2
      <4>2. \A r \in Procs : pc'[r] = "fill_1" => pc[r] = "fill_1"
        BY <2>2
      <4> QED BY <3>1, <4>1, <4>2, <2>1, <2>2
    <3>2. CASE q # p
      <4>1. chunk'[q] = chunk[q] /\ pc'[q] = pc[q] /\ (q \in early => q \in early')
        BY <3>2, <2>2
      <4>2. \A r \in Procs : pc'[r] = "fill_1" => pc[r] = "fill_1"
        BY <2>2
      <4> QED BY <4>1, <4>2, <2>2
    <3> QED BY <3>1, <3>2
  <2> QED BY <2>2, <2>3 DEF Copied
<1>8. ASSUME NEW p \in Procs, ReadNread(p) PROVE Copied'
  <2>1. /\ cached /\ pc[p] = "copied" /\ pc' = [pc EXCEPT ![p] = "told"]
        /\ chunk' = [chunk EXCEPT ![p] = Served(chunk[p])]
        /\ UNCHANGED <<cached, race, buf, nread, early>>
    BY <1>8 DEF ReadNread
  <2>2. ASSUME NEW q \in Procs PROVE Fresh(q)'
    <3>1. CASE q = p
      <4> SUFFICES ASSUME ~race, Small, p \notin early
                   PROVE  \A i \in 1 .. Len(chunk'[p]) : chunk'[p][i] # Garbage
        BY <3>1, <2>1
      <4>1. chunk[p] = buf
        BY <2>1
      <4>2. nread <= Len(buf)
        BY DEF Clean
      <4>3. chunk'[p] = Served(buf)
        BY <4>1, <2>1
      <4> QED BY <4>2, <4>3, ServedClean
    <3>2. CASE q # p
      <4>1. chunk'[q] = chunk[q] /\ pc'[q] = pc[q]
        BY <3>2, <2>1
      <4>2. \A r \in Procs : pc'[r] = "fill_1" => pc[r] = "fill_1"
        BY <2>1
      <4> QED BY <4>1, <4>2, <2>1
    <3> QED BY <3>1, <3>2
  <2> QED BY <2>1, <2>2 DEF Copied
<1>9. CASE Change
  BY <1>9 DEF Change, Copied
<1>10. CASE UNCHANGED vars
  BY <1>10 DEF vars, Copied
<1> QED BY <1>1, <1>2, <1>3, <1>4, <1>5, <1>6, <1>7, <1>8, <1>9, <1>10 DEF Next, GetDents

(* Only two steps give a listing anything. *)
LEMMA StepNoGarbage == Typed /\ Copied /\ NoGarbage /\ [Next]_vars => NoGarbage'
<1> SUFFICES ASSUME Typed, Copied, NoGarbage, [Next]_vars, ~race', Small',
                    NEW q \in Procs, q \notin early', NEW i \in 1 .. Len(got'[q])
             PROVE  got'[q][i] # Garbage
  BY DEF NoGarbage
<1> USE SizeAssumption DEF Goto, dir, cache, events
<1>0. ~race /\ Small
  BY Constant DEF Small
<1>1. q \notin early => \A j \in 1 .. Len(got[q]) : got[q][j] # Garbage
  BY <1>0 DEF NoGarbage
<1>2. got \in [Procs -> Seq(Units)] /\ got[q] \in Seq(Units)
  BY DEF Typed, Shapes
<1>3. ASSUME NEW s \in Seq(Units), got' = [got EXCEPT ![q] = @ \o s], q \notin early,
             \A j \in 1 .. Len(s) : s[j] # Garbage
      PROVE  got'[q][i] # Garbage
  <2>1. got'[q] = got[q] \o s
    BY <1>2, <1>3
  <2>2. Len(got[q]) \in Nat /\ Len(s) \in Nat /\ i \in 1 .. Len(got[q]) + Len(s)
    BY <2>1, <1>2, <1>3, ConcatProperties, LenProperties
  <2>3. got'[q][i] = IF i <= Len(got[q]) THEN got[q][i] ELSE s[i - Len(got[q])]
    BY <2>1, <2>2, <1>2, <1>3, ConcatProperties
  <2>4. CASE i <= Len(got[q])
    BY <2>2, <2>3, <2>4, <1>1, <1>3
  <2>5. CASE ~(i <= Len(got[q]))
    <3>1. i - Len(got[q]) \in 1 .. Len(s)
      BY <2>2, <2>5
    <3> QED BY <2>3, <2>5, <3>1, <1>3
  <2> QED BY <2>4, <2>5
<1>4. CASE got'[q] = got[q] /\ q \notin early
  BY <1>1, <1>4
<1>5. CASE got'[q] = <<>>
  BY <1>5, EmptySeq
<1>6. CASE MarkLast(q)
  <2>1. /\ pc[q] = "told" /\ q \notin early
        /\ got' = [got EXCEPT ![q] = @ \o chunk[q]]
    BY <1>6 DEF MarkLast
  <2>2. \A j \in 1 .. Len(chunk[q]) : chunk[q][j] # Garbage
    BY <2>1, <1>0 DEF Copied
  <2>3. chunk[q] \in Seq(Units)
    BY DEF Typed, Shapes
  <2> QED BY <2>1, <2>2, <2>3, <1>3
<1>7. CASE Kernel(q)
  <2> DEFINE last == Smaller(size, pos[q] + count)
             chunk_p == IF pos[q] < size THEN Entries(pos[q], last) ELSE <<>>
  <2>0. pos[q] \in Nat /\ count \in Nat \ {0} /\ size \in 0 .. MaxEntries
    BY DEF Typed, TypeOK
  <2>1. chunk_p \in Seq(Real)
    <3>1. CASE pos[q] < size
      <4>1. last \in 0 .. MaxEntries /\ pos[q] <= last
        BY <2>0, <3>1 DEF Smaller
      <4> HIDE DEF last
      <4> QED BY <4>1, <2>0, <3>1, EntriesRight
    <3>2. CASE ~(pos[q] < size)
      BY <3>2, EmptySeq
    <3> QED BY <3>1, <3>2
  <2>2. got' = [got EXCEPT ![q] = @ \o chunk_p] /\ q \notin early
    BY <1>7 DEF Kernel
  <2> HIDE DEF chunk_p
  <2>3. \A j \in 1 .. Len(chunk_p) : chunk_p[j] \in Real
    BY <2>1, ElementOfSeq
  <2>4. \A j \in 1 .. Len(chunk_p) : chunk_p[j] # Garbage
    BY <2>3 DEF Real, Garbage
  <2> QED BY <2>1, <2>2, <2>4, <1>3, UnitsOfReal
<1>8. ASSUME NEW p \in Procs,
             \/ Open(p) \/ EnterSkip(p) \/ ClearLast(p) \/ EnterHit(p) \/ ReadNread(p)
             \/ EnterMiss(p) \/ ExitCached(p) \/ ExitFill(p) \/ Insert(p) \/ FillFields(p)
      PROVE  got'[q] = got[q] /\ q \notin early
  BY <1>8 DEF Open, EnterSkip, ClearLast, EnterHit, ReadNread, EnterMiss, ExitCached,
              ExitFill, Insert, FillFields, Fill
<1>9. ASSUME NEW p \in Procs, KernelFails(p) \/ ReadOn(p) \/ Close(p) \/ Abandon(p)
      PROVE  \/ got'[q] = <<>>
             \/ got'[q] = got[q] /\ q \notin early
  BY <1>2, <1>9 DEF KernelFails, ReadOn, Close, Abandon, Closes
<1>10. ASSUME NEW p \in Procs, p # q, MarkLast(p) \/ Kernel(p)
       PROVE  got'[q] = got[q] /\ q \notin early
  BY <1>2, <1>10 DEF MarkLast, Kernel
<1>11. CASE Change \/ UNCHANGED vars
  BY <1>4, <1>11 DEF Change, vars
<1> QED BY <1>4, <1>5, <1>6, <1>7, <1>8, <1>9, <1>10, <1>11 DEF Next, GetDents

-----------------------------------------------------------------------------
(* Listings *)

(* The kernel gives a first call at least one entry, as the directory has  *)
(* one.                                                                    *)
LEMMA FirstChunk ==
  ASSUME Typed
  PROVE  /\ Entries(0, Smaller(size, count)) \in Seq(Real)
         /\ Small => Entries(0, Smaller(size, count)) \in Listings
<1>1. Smaller(size, count) \in 1 .. MaxEntries
  BY SizeAssumption DEF Typed, TypeOK, Smaller
<1> DEFINE last == Smaller(size, count)
<1> HIDE DEF last
<1>2. Entries(0, last) \in Seq(Real) /\ Len(Entries(0, last)) = last - 0
  <2>1. 0 \in Nat /\ last \in 0 .. MaxEntries /\ 0 <= last
    BY <1>1 DEF last
  <2> QED BY <2>1, EntriesRight
<1>3. Small => last \in 1 .. limit
  BY SizeAssumption DEF Typed, TypeOK, Smaller, Small, last
<1>4. Small => Entries(0, last) \in Listings
  BY <1>3 DEF Listings
<1> QED BY <1>2, <1>4 DEF last

(* A listing that the cache may answer with is not empty.                  *)
LEMMA ListingsFull ==
  ASSUME Typed, NEW s \in Listings
  PROVE  Len(s) \in Nat \ {0}
<1>1. PICK k \in 1 .. limit : s = Entries(0, k)
  BY DEF Listings
<1>2. k \in 1 .. MaxEntries
  BY <1>1, SizeAssumption DEF Typed, TypeOK
<1>3. 0 \in Nat /\ k \in 0 .. MaxEntries /\ 0 <= k
  BY <1>2
<1>4. Len(Entries(0, k)) = k - 0
  BY <1>3, EntriesRight
<1> QED BY <1>1, <1>2, <1>4

LEMMA StepListing == Typed /\ Listing /\ [Next]_vars => Listing'
<1> SUFFICES ASSUME Typed, Listing, [Next]_vars, ~overlap', ~abandon', Small'
             PROVE  Alone' /\ (\A p \in Procs : State(p)') /\ Settled'
  BY DEF Listing
<1> USE DEF Goto, Calls, Fills, dir, cache, events
<1>0. ~overlap /\ ~abandon /\ Small
  BY Constant DEF Small
<1>l. Listings' = Listings
  BY Constant DEF Listings, Entries
<1> USE <1>l
<1>a. Alone /\ (\A p \in Procs : State(p)) /\ Settled
  BY <1>0 DEF Listing
<1>t. /\ pc \in [Procs -> {"closed", "open", "skip", "copied", "told", "kernel",
                           "exit", "insert", "fill_1", "fill_2", "fill_3", "eof"}]
      /\ chunk \in [Procs -> Seq(Units)] /\ got \in [Procs -> Seq(Units)]
      /\ pos \in [Procs -> Nat]
      /\ cached \in BOOLEAN /\ Nobody \notin Procs
  BY ProcsAssumption DEF Typed, TypeOK, Shapes
<1>1. ASSUME NEW p \in Procs, Open(p) PROVE Alone' /\ (\A q \in Procs : State(q)') /\ Settled'
  <2>1. \A q \in Procs : pc[q] = "closed"
    BY <1>1 DEF Open
  <2> QED BY <1>1, <1>a, <1>t, <2>1 DEF Open, Alone, State, Settled
<1>2. ASSUME NEW p \in Procs, EnterSkip(p)
      PROVE  Alone' /\ (\A q \in Procs : State(q)') /\ Settled'
  BY <1>2, <1>a, <1>t DEF EnterSkip, Alone, State, Settled
<1>15. ASSUME NEW p \in Procs, ClearLast(p)
       PROVE  Alone' /\ (\A q \in Procs : State(q)') /\ Settled'
  <2>1. /\ pc[p] = "skip" /\ chunk[p] = <<>> /\ cached /\ got[p] = buf
        /\ \A q \in Procs : q # p => pc[q] = "closed"
    BY <1>15, <1>a DEF ClearLast, Alone, State
  <2>2. /\ pc' = [pc EXCEPT ![p] = "eof"] /\ last_pid_tgid' = Nobody
        /\ chunk' = [chunk EXCEPT ![p] = <<>>]
        /\ UNCHANGED <<cached, buf, nread, pos, got>>
    BY <1>15, <2>1 DEF ClearLast, Answered
  <2> QED BY <2>1, <2>2, <1>a, <1>t DEF Alone, State, Settled
<1>3. ASSUME NEW p \in Procs, EnterHit(p)
      PROVE  Alone' /\ (\A q \in Procs : State(q)') /\ Settled'
  <2> DEFINE c == SubSeq(buf, 1, Smaller(Smaller(BufSize, count), Len(buf)))
  <2>1. /\ pc[p] = "open" /\ cached /\ last_pid_tgid # p /\ got[p] = <<>>
        /\ \A q \in Procs : q # p => pc[q] = "closed"
    BY <1>3, <1>a DEF EnterHit, Alone, State
  <2>2. c = buf
    BY <1>0, CopyRight
  <2>3. /\ pc' = [pc EXCEPT ![p] = "copied"] /\ chunk' = [chunk EXCEPT ![p] = c]
        /\ UNCHANGED <<cache, pos, got>>
    BY <1>3 DEF EnterHit
  <2> HIDE DEF c
  <2>4. Alone' /\ Settled'
    BY <2>1, <2>3, <1>a, <1>t DEF Alone, Settled
  <2>5. \A q \in Procs : State(q)'
    <3>1. \A q \in Procs : q # p => State(q)'
      BY <2>1, <2>3, <1>a, <1>t DEF State
    <3>2. State(p)'
      BY <2>1, <2>2, <2>3, <1>t DEF State
    <3> QED BY <3>1, <3>2
  <2> QED BY <2>4, <2>5
<1>16. ASSUME NEW p \in Procs, ReadNread(p)
       PROVE  Alone' /\ (\A q \in Procs : State(q)') /\ Settled'
  <2>1. /\ pc[p] = "copied" /\ cached /\ got[p] = <<>> /\ chunk[p] = buf
        /\ \A q \in Procs : q # p => pc[q] = "closed"
    BY <1>16, <1>a DEF ReadNread, Alone, State
  <2>2. nread = Len(buf)
    BY <2>1, <1>a DEF Settled
  <2>3. Served(chunk[p]) = buf
    BY <2>1, <2>2, ServedRight
  <2>4. /\ pc' = [pc EXCEPT ![p] = "told"] /\ chunk' = [chunk EXCEPT ![p] = buf]
        /\ UNCHANGED <<cache, pos, got>>
    BY <1>16, <2>3 DEF ReadNread
  <2> QED BY <2>1, <2>4, <1>a, <1>t DEF Alone, State, Settled
<1>17. ASSUME NEW p \in Procs, MarkLast(p)
       PROVE  Alone' /\ (\A q \in Procs : State(q)') /\ Settled'
  <2>1. /\ pc[p] = "told" /\ cached /\ got[p] = <<>> /\ chunk[p] = buf
        /\ \A q \in Procs : q # p => pc[q] = "closed"
    BY <1>17, <1>a DEF MarkLast, Alone, State
  <2>2. nread = Len(buf) /\ buf # <<>> /\ buf \in Seq(Units)
    <3>1. buf \in Listings
      BY <2>1, <1>a DEF Settled
    <3> QED BY <2>1, <3>1, <1>t, <1>a, ListingsFull, EmptySeq DEF Settled
  <2>3. got' = [got EXCEPT ![p] = buf]
    BY <1>17, <2>1, <2>2, ConcatEmptySeq DEF MarkLast
  <2>4. /\ pc' = [pc EXCEPT ![p] = "open"] /\ last_pid_tgid' = p
        /\ chunk' = [chunk EXCEPT ![p] = <<>>]
        /\ UNCHANGED <<cached, buf, nread, pos>>
    BY <1>17, <2>1, <2>2 DEF MarkLast, Answered
  <2> QED BY <2>1, <2>3, <2>4, <1>a, <1>t DEF Alone, State, Settled
<1>18. ASSUME NEW p \in Procs, KernelFails(p)
       PROVE  Alone' /\ (\A q \in Procs : State(q)') /\ Settled'
  <2>1. /\ pos[p] = 0 /\ got[p] = <<>> /\ chunk[p] = <<>> /\ ~cached /\ pc[p] = "kernel"
        /\ \A q \in Procs : q # p => pc[q] = "closed"
    BY <1>18, <1>a DEF KernelFails, Alone, State
  <2>2. /\ pc' \in {[pc EXCEPT ![p] = "closed"], [pc EXCEPT ![p] = "open"]}
        /\ \A q \in Procs : pos'[q] = pos[q] /\ got'[q] = got[q] /\ chunk'[q] = chunk[q]
        /\ UNCHANGED cache
    BY <1>18, <1>t, <2>1 DEF KernelFails, Closes
  <2>3. Alone' /\ Settled'
    BY <2>1, <2>2, <1>a, <1>t DEF Alone, Settled
  <2>4. ASSUME NEW q \in Procs PROVE State(q)'
    <3>1. State(q) /\ UNCHANGED <<cached, buf, nread, last_pid_tgid>>
      BY <2>2, <1>a
    <3>2. CASE q # p
      BY <2>1, <2>2, <3>1, <3>2, <1>t DEF State
    <3>3. CASE q = p
      BY <2>1, <2>2, <3>1, <3>3, <1>t DEF State
    <3> QED BY <3>2, <3>3
  <2> QED BY <2>3, <2>4
<1>4. ASSUME NEW p \in Procs, EnterMiss(p)
      PROVE  Alone' /\ (\A q \in Procs : State(q)') /\ Settled'
  BY <1>4, <1>a, <1>t DEF EnterMiss, Alone, State, Settled
<1>5. ASSUME NEW p \in Procs, Kernel(p)
      PROVE  Alone' /\ (\A q \in Procs : State(q)') /\ Settled'
  <2> DEFINE c == Entries(0, Smaller(size, count))
  <2>1. /\ pos[p] = 0 /\ got[p] = <<>> /\ ~cached /\ pc[p] = "kernel"
        /\ \A q \in Procs : q # p => pc[q] = "closed"
    BY <1>5, <1>a DEF Kernel, Alone, State
  <2>2. size \in Nat \ {0} /\ count \in Nat
    BY SizeAssumption DEF Typed, TypeOK
  <2>3. (IF pos[p] < size THEN Entries(pos[p], Smaller(size, pos[p] + count)) ELSE <<>>) = c
    BY <2>1, <2>2
  <2>4. c \in Seq(Units) /\ c \in Listings
    BY FirstChunk, UnitsOfReal, <1>0
  <2>5. /\ chunk' = [chunk EXCEPT ![p] = c]
        /\ got' = [got EXCEPT ![p] = @ \o c]
        /\ pos' = [pos EXCEPT ![p] = @ + Len(c)]
        /\ pc' = [pc EXCEPT ![p] = "exit"]
        /\ UNCHANGED <<cached, buf, nread, last_pid_tgid>>
    BY <1>5, <2>3 DEF Kernel
  <2> HIDE DEF c
  <2>6. got' = [got EXCEPT ![p] = c]
    BY <2>5, <2>4, <2>1, ConcatEmptySeq
  <2> QED BY <2>1, <2>4, <2>5, <2>6, <1>a, <1>t DEF Alone, State, Settled
<1>6. ASSUME NEW p \in Procs, ExitCached(p) PROVE FALSE
  BY <1>6, <1>a DEF ExitCached, State
<1>7. ASSUME NEW p \in Procs, ExitFill(p)
      PROVE  Alone' /\ (\A q \in Procs : State(q)') /\ Settled'
  BY <1>7, <1>a, <1>t DEF ExitFill, Alone, State, Settled
<1>8. ASSUME NEW p \in Procs, Insert(p)
      PROVE  Alone' /\ (\A q \in Procs : State(q)') /\ Settled'
  BY <1>8, <1>a, <1>t DEF Insert, Alone, State, Settled
<1>9. ASSUME NEW p \in Procs, FillFields(p)
      PROVE  Alone' /\ (\A q \in Procs : State(q)') /\ Settled'
  <2>1. /\ pc[p] \in Fills /\ cached /\ got[p] = chunk[p] /\ chunk[p] \in Listings
        /\ chunk[p] \in Seq(Real)
        /\ \A q \in Procs : q # p => pc[q] = "closed"
    BY <1>9, <1>a DEF FillFields, Fill, Alone, State, Typed, Shapes
  <2>2. CASE Fill(p, "fill_1", "fill_2") /\ WriteBuf(p)
    <3>1. chunk[p] \in Seq(Real) /\ Len(chunk[p]) <= BufSize
      BY <2>1, <1>0, SizeAssumption, LenProperties DEF Typed, TypeOK, Shapes, Small, Smaller
    <3>2. buf' = chunk[p]
      BY <2>2, <3>1, CutRight DEF WriteBuf
    <3>3. /\ pc' = [pc EXCEPT ![p] = "fill_2"]
          /\ UNCHANGED <<cached, nread, last_pid_tgid, pos, chunk, got>>
      BY <2>2 DEF Fill, WriteBuf
    <3>4. Alone' /\ Settled'
      BY <2>1, <3>3, <1>t DEF Alone, Settled
    <3>5. \A q \in Procs : State(q)'
      <4>1. \A q \in Procs : q # p => State(q)'
        BY <2>1, <3>3, <1>a, <1>t DEF State
      <4>2. State(p)'
        BY <2>1, <3>2, <3>3, <1>t DEF State
      <4> QED BY <4>1, <4>2
    <3> QED BY <3>4, <3>5
  <2>3. CASE Fill(p, "fill_2", "fill_3") /\ WriteNread(p)
    <3>1. buf = chunk[p] /\ nread' = Len(chunk[p])
      BY <2>3, <1>a DEF Fill, WriteNread, State
    <3>2. /\ pc' = [pc EXCEPT ![p] = "fill_3"]
          /\ UNCHANGED <<cached, buf, last_pid_tgid, pos, chunk, got>>
      BY <2>3 DEF Fill, WriteNread
    <3>3. Alone' /\ Settled'
      BY <2>1, <3>2, <1>t DEF Alone, Settled
    <3>4. \A q \in Procs : State(q)'
      <4>1. \A q \in Procs : q # p => State(q)'
        BY <2>1, <3>2, <1>a, <1>t DEF State
      <4>2. State(p)'
        BY <2>1, <3>1, <3>2, <1>t DEF State
      <4> QED BY <4>1, <4>2
    <3> QED BY <3>3, <3>4
  <2>4. CASE Fill(p, "fill_3", "return") /\ WriteLast(p)
    <3>1. Len(chunk[p]) # 0 /\ chunk[p] # <<>>
      BY <2>1, ListingsFull, EmptySeq
    <3>2. /\ pc' = [pc EXCEPT ![p] = "open"] /\ last_pid_tgid' = p
          /\ chunk' = [chunk EXCEPT ![p] = <<>>]
          /\ UNCHANGED <<cached, buf, nread, pos, got>>
      BY <2>1, <2>4, <3>1 DEF Fill, WriteLast, Answered
    <3>3. buf = chunk[p] /\ nread = Len(chunk[p])
      BY <2>4, <1>a DEF Fill, State
    <3> QED BY <2>1, <3>1, <3>2, <3>3, <1>a, <1>t DEF Alone, State, Settled
  <2> QED BY <1>9, <2>2, <2>3, <2>4 DEF FillFields
<1>10. ASSUME NEW p \in Procs, ReadOn(p)
       PROVE  Alone' /\ (\A q \in Procs : State(q)') /\ Settled'
  BY <1>10, <1>a, <1>t DEF ReadOn, Alone, State, Settled
<1>11. ASSUME NEW p \in Procs, Close(p)
       PROVE  Alone' /\ (\A q \in Procs : State(q)') /\ Settled'
  BY <1>11, <1>a, <1>t DEF Close, Closes, Alone, State, Settled
<1>12. ASSUME NEW p \in Procs, Abandon(p) PROVE FALSE
  BY <1>12 DEF Abandon
<1>13. CASE Change
  BY <1>13, <1>a DEF Change, Alone, State, Settled
<1>14. CASE UNCHANGED vars
  BY <1>14, <1>a DEF vars, Alone, State, Settled
<1> QED BY <1>1, <1>2, <1>3, <1>4, <1>5, <1>6, <1>7, <1>8, <1>9, <1>10, <1>11, <1>12,
           <1>13, <1>14, <1>15, <1>16, <1>17, <1>18 DEF Next, GetDents

-----------------------------------------------------------------------------
(* Every variable of the cache keeps its type, and what is copied into     *)
(* cached_buf.buf never exceeds DENTS_BUF_SIZE.                            *)
THEOREM TypeCorrect == Spec => []TypeOK
<1>1. Typed => TypeOK
  BY DEF Typed
<1> QED BY InitTyped, StepTyped, <1>1, PTL DEF Spec

(* As long as no two processes fill the cache at once, a listing is given  *)
(* a byte that was not read from the directory only if it copied buf       *)
(* before the hook that fills it had written it.                           *)
THEOREM ServesNoGarbage == Spec => []NoGarbage
<1>1. Init => Clean /\ Copied /\ NoGarbage
  BY EmptySeq, SizeAssumption DEF Init, Clean, Copied, NoGarbage, Fills, Small
<1> QED BY InitTyped, StepTyped, StepClean, StepCopied, StepNoGarbage, <1>1, PTL DEF Spec

(* A listing that is read to its end gets what was in the directory when   *)
(* it was cached, whole and once, if it is alone and the directory fits.   *)
THEOREM ListsAll == Spec => []ListingRight
<1>1. Init => Listing
  BY EmptySeq DEF Init, Listing, Alone, State, Settled, Fills
<1>2. Listing => ListingRight
  <2> SUFFICES ASSUME Listing, NEW p \in Procs, pc[p] = "eof", Small, ~overlap, ~abandon
               PROVE  got[p] = buf /\ buf \in Listings
    BY DEF ListingRight
  <2>1. State(p) /\ Settled /\ Alone
    BY DEF Listing
  <2>2. cached /\ \A q \in Procs : pc[q] \notin Fills
    BY <2>1 DEF State, Alone, Fills
  <2> QED BY <2>1, <2>2 DEF State, Settled
<1> QED BY InitTyped, StepTyped, StepListing, <1>1, <1>2, PTL DEF Spec

(* An entry that has been filled stays as it is: no call of any process,   *)
(* no close and no change of the directory takes it out of the cache or    *)
(* replaces it, unless a second process fills it too.                      *)
NoInvalidation == nread # 0 /\ ~race' => UNCHANGED <<cached, buf, nread>>

THEOREM WrittenOnce == Spec => [][NoInvalidation]_vars
<1>1. Init => Clean
  BY EmptySeq, SizeAssumption DEF Init, Clean, Fills, Small
<1>2. Typed /\ Clean /\ [Next]_vars => [NoInvalidation]_vars
  <2> SUFFICES ASSUME Clean, [Next]_vars, nread # 0, ~race'
               PROVE  UNCHANGED <<cached, buf, nread>>
    BY DEF NoInvalidation
  <2> USE DEF dir, cache, events
  <2>1. ASSUME NEW p \in Procs, Insert(p) PROVE FALSE
    BY <2>1 DEF Insert, Clean
  <2>2. ASSUME NEW p \in Procs, FillFields(p) PROVE UNCHANGED <<cached, buf, nread>>
    <3>1. ~race
      BY <2>2 DEF FillFields, Fill
    <3>2. pc[p] \notin {"fill_1", "fill_2"}
      BY <3>1 DEF Clean
    <3> QED BY <2>2, <3>2 DEF FillFields, Fill, WriteLast
  <2>3. ASSUME NEW p \in Procs,
               \/ Open(p) \/ EnterSkip(p) \/ ClearLast(p) \/ EnterHit(p) \/ ReadNread(p)
               \/ MarkLast(p) \/ EnterMiss(p) \/ Kernel(p) \/ KernelFails(p)
        PROVE  UNCHANGED <<cached, buf, nread>>
    BY <2>3 DEF Open, EnterSkip, ClearLast, EnterHit, ReadNread, MarkLast, EnterMiss,
                Kernel, KernelFails
  <2>4. ASSUME NEW p \in Procs,
               ExitCached(p) \/ ExitFill(p) \/ ReadOn(p) \/ Close(p) \/ Abandon(p)
        PROVE  UNCHANGED <<cached, buf, nread>>
    BY <2>4 DEF ExitCached, ExitFill, ReadOn, Close, Abandon
  <2>5. CASE Change \/ UNCHANGED vars
    BY <2>5 DEF Change, vars
  <2> QED BY <2>1, <2>2, <2>3, <2>4, <2>5 DEF Next, GetDents
<1> QED BY InitTyped, StepTyped, StepClean, <1>1, <1>2, PTL DEF Spec
=============================================================================
