------------------------------ MODULE DirCache ------------------------------
(***************************************************************************)
(* The getdents64 cache of fuse/bpf/fs-cache.bpf.c for one directory.      *)
(* Processes list the directory as bench.cpp does: open, getdents64 until  *)
(* it returns 0, perhaps further calls, close.  The enter hook answers     *)
(* from the cache when it can, and the system call is not made; the exit   *)
(* hook fills the cache.  The maps are shared, so hooks of different       *)
(* processes interleave: a lookup gives a pointer to the live value, which *)
(* the exit hook writes and the enter hook reads field by field.           *)
(*                                                                         *)
(* Directory entries are the numbers 1, 2, ... and a unit of buffer space  *)
(* holds one.  Which descriptor names which directory is in FdPaths.       *)
(***************************************************************************)
EXTENDS Naturals, Sequences

CONSTANTS Procs,       \* process (and thread) ids
          Nobody,      \* the 0 of last_pid_tgid
          BufSize,     \* DENTS_BUF_SIZE
          Counts,      \* buffer sizes that callers pass
          MaxEntries,  \* bound: entries in the directory
          MaxChanges,  \* bound: changes to the directory
          MaxExtra     \* bound: entries one listing is given beyond limit

ASSUME ProcsAssumption == Nobody \notin Procs
ASSUME SizeAssumption ==
  /\ BufSize \in Nat \ {0} /\ Counts \subseteq Nat \ {0}
  /\ MaxEntries \in Nat \ {0} /\ MaxChanges \in Nat /\ MaxExtra \in Nat

VARIABLES
  size, limit,                         \* the directory holds 1 .. size, and
                                       \* never more than limit
  changes,                             \* times it has changed
  cached, buf, nread, last_pid_tgid,   \* its entry in getdents64_cache_map
  pc,        \* pc[p]: where process p is
  pos,       \* pos[p]: offset of its descriptor
  chunk,     \* chunk[p]: what its call in progress has put in its buffer
  got,       \* got[p]: what its listing was given so far
  count,     \* the size of the buffer that callers pass
  overlap, abandon, race,  \* have two listings overlapped; was one given
                           \* up; have two processes filled the cache
  early      \* listings that were served from a buffer not yet written

dir    == <<size, limit, changes>>
cache  == <<cached, buf, nread, last_pid_tgid>>
events == <<overlap, abandon, race>>
vars == <<dir, cache, pc, pos, chunk, got, count, events, early>>

Smaller(a, b) == IF a <= b THEN a ELSE b
Entries(a, b) == [i \in 1 .. b - a |-> a + i]   \* a+1, ..., b
Garbage == 0

Init == /\ limit \in 1 .. MaxEntries /\ size \in 1 .. limit /\ changes = 0
        /\ cached = FALSE /\ buf = <<>> /\ nread = 0 /\ last_pid_tgid = Nobody
        /\ pc = [p \in Procs |-> "closed"]
        /\ pos = [p \in Procs |-> 0]
        /\ chunk = [p \in Procs |-> <<>>]
        /\ got = [p \in Procs |-> <<>>]
        /\ count \in Counts
        /\ overlap = FALSE /\ abandon = FALSE /\ race = FALSE /\ early = {}

Goto(p, l) == pc' = [pc EXCEPT ![p] = l]

Open(p) ==
  /\ pc[p] = "closed"
  /\ Goto(p, "open")
  /\ overlap' = (overlap \/ \E q \in Procs : pc[q] # "closed")
  /\ UNCHANGED <<dir, cache, pos, chunk, got, count, abandon, race, early>>

-----------------------------------------------------------------------------
(* sys_enter_getdents64 *)

Calls(p) == pc[p] = "open" /\ Len(got[p]) < limit + MaxExtra

(* The call returns: with 0 the listing is at its end.                     *)
Answered(p) == /\ Goto(p, IF chunk[p] = <<>> THEN "eof" ELSE "open")
               /\ chunk' = [chunk EXCEPT ![p] = <<>>]

(* The process was the last to be served: this call ends its listing, and  *)
(* the next to come is served again.                                       *)
EnterSkip(p) ==
  /\ Calls(p) /\ cached /\ last_pid_tgid = p
  /\ Goto(p, "skip")
  /\ UNCHANGED <<dir, cache, pos, chunk, got, count, events, early>>

SkipForgetsReset(p) ==
  /\ pc[p] = "skip"
  /\ Answered(p)
  /\ UNCHANGED <<dir, cache, pos, got, count, events, early>>

ClearLast(p) ==
  /\ pc[p] = "skip"
  /\ last_pid_tgid' = Nobody
  /\ Answered(p)
  /\ UNCHANGED <<dir, cached, buf, nread, pos, got, count, events, early>>

(* The caller gets what fits in both buffers; what is past the bytes that  *)
(* were read is left out here.  Once last_pid_tgid is not p, it stays so   *)
(* until p itself writes it: the test is one step with the copy.           *)
EnterHit(p) ==
  /\ Calls(p) /\ cached /\ last_pid_tgid # p
  /\ chunk' = [chunk EXCEPT ![p] = SubSeq(buf, 1, Smaller(Smaller(BufSize, count), Len(buf)))]
  /\ early' = IF \E q \in Procs : pc[q] = "fill_1" THEN early \cup {p} ELSE early
  /\ Goto(p, "copied")
  /\ UNCHANGED <<dir, cache, pos, got, count, events>>

(* It is told that there are nread entries, of which it may have fewer.    *)
Served(s) == [i \in 1 .. nread |-> IF i <= Len(s) THEN s[i] ELSE Garbage]

ReadNread(p) ==
  /\ pc[p] = "copied"
  /\ Goto(p, "told")
  /\ chunk' = [chunk EXCEPT ![p] = Served(@)]
  /\ UNCHANGED <<dir, cache, pos, got, count, events, early>>

HitKeepsLast(p) ==
  /\ pc[p] = "told"
  /\ got' = [got EXCEPT ![p] = @ \o chunk[p]]
  /\ Answered(p)
  /\ UNCHANGED <<dir, cache, pos, count, events, early>>

MarkLast(p) ==
  /\ pc[p] = "told"
  /\ got' = [got EXCEPT ![p] = @ \o chunk[p]]
  /\ last_pid_tgid' = p
  /\ Answered(p)
  /\ UNCHANGED <<dir, cached, buf, nread, pos, count, events, early>>

EnterMiss(p) ==
  /\ Calls(p) /\ ~cached
  /\ Goto(p, "kernel")
  /\ UNCHANGED <<dir, cache, pos, chunk, got, count, events, early>>

-----------------------------------------------------------------------------
(* The system call, and sys_exit_getdents64 step by step *)

Kernel(p) ==
  LET last  == Smaller(size, pos[p] + count)
      chunk_p == IF pos[p] < size THEN Entries(pos[p], last) ELSE <<>>
  IN /\ pc[p] = "kernel"
     /\ chunk' = [chunk EXCEPT ![p] = chunk_p]
     /\ got' = [got EXCEPT ![p] = @ \o chunk_p]
     /\ pos' = [pos EXCEPT ![p] = @ + Len(chunk_p)]
     /\ Goto(p, "exit")
     /\ UNCHANGED <<dir, cache, count, events, early>>

(* The descriptor is closed; what the listing was given is forgotten. *)
Closes(p) ==
  /\ Goto(p, "closed")
  /\ pos' = [pos EXCEPT ![p] = 0]
  /\ chunk' = [chunk EXCEPT ![p] = <<>>]
  /\ got' = [got EXCEPT ![p] = <<>>]
  /\ early' = early \ {p}

(* The call fails, and the exit hook returns at once.  The listing loop    *)
(* ends the program; the timed loop does not look, and makes its next call. *)
KernelFails(p) ==
  /\ pc[p] = "kernel"
  /\ \/ Closes(p)
     \/ Goto(p, "open") /\ UNCHANGED <<pos, chunk, got, early>>
  /\ UNCHANGED <<dir, cache, count, events>>

ExitCached(p) ==
  /\ pc[p] = "exit" /\ cached
  /\ Answered(p)
  /\ UNCHANGED <<dir, cache, pos, got, count, events, early>>

ExitFill(p) ==
  /\ pc[p] = "exit" /\ ~cached
  /\ Goto(p, "insert")
  /\ UNCHANGED <<dir, cache, pos, chunk, got, count, events, early>>

(* empty_buf is inserted, over what another process may have inserted. *)
Insert(p) ==
  /\ pc[p] = "insert"
  /\ cached' = TRUE /\ buf' = <<>> /\ nread' = 0 /\ last_pid_tgid' = Nobody
  /\ race' = (race \/ cached)
  /\ Goto(p, "fill_1")
  /\ UNCHANGED <<dir, pos, chunk, got, count, overlap, abandon, early>>

AppendToBuf(p) == buf' = buf \o chunk[p] /\ UNCHANGED <<nread, last_pid_tgid>>

WriteBuf(p) ==
  /\ buf' = SubSeq(chunk[p], 1, Smaller(BufSize, Len(chunk[p])))
  /\ UNCHANGED <<nread, last_pid_tgid>>

WriteNread(p) == nread' = Len(chunk[p]) /\ UNCHANGED <<buf, last_pid_tgid>>

WriteLast(p) == last_pid_tgid' = p /\ UNCHANGED <<buf, nread>>

(* A write of one field, as the step of the hook from one place to the next. *)
Fill(p, from, to) ==
  /\ pc[p] = from
  /\ IF to = "return" THEN Answered(p) ELSE Goto(p, to) /\ UNCHANGED chunk
  /\ UNCHANGED <<dir, cached, pos, got, count, events, early>>

NreadFirst(p) == \/ Fill(p, "fill_1", "fill_2") /\ WriteNread(p)
                 \/ Fill(p, "fill_2", "fill_3") /\ WriteBuf(p)
                 \/ Fill(p, "fill_3", "return") /\ WriteLast(p)

FillFields(p) == \/ Fill(p, "fill_1", "fill_2") /\ WriteBuf(p)
                 \/ Fill(p, "fill_2", "fill_3") /\ WriteNread(p)
                 \/ Fill(p, "fill_3", "return") /\ WriteLast(p)

-----------------------------------------------------------------------------

(* The timed loop goes on calling after the end, on the same descriptor. *)
ReadOn(p) ==
  /\ pc[p] = "eof"
  /\ Goto(p, "open")
  /\ got' = [got EXCEPT ![p] = <<>>]
  /\ early' = early \ {p}
  /\ UNCHANGED <<dir, cache, pos, chunk, count, events>>

Close(p) ==
  /\ pc[p] = "eof"
  /\ Closes(p)
  /\ UNCHANGED <<dir, cache, count, events>>

(* A process closes the directory before it has reached its end. *)
Abandon(p) ==
  /\ pc[p] = "open"
  /\ Closes(p)
  /\ abandon' = TRUE
  /\ UNCHANGED <<dir, cache, count, overlap, race>>

(* A file is created or removed, by a process without the hooks or with:   *)
(* no hook looks at either call.                                           *)
Change ==
  /\ changes < MaxChanges
  /\ changes' = changes + 1
  /\ size' \in {size - 1, size + 1} \cap 1 .. limit
  /\ UNCHANGED <<limit, cache, pc, pos, chunk, got, count, events, early>>

GetDents(p) == \/ EnterSkip(p) \/ ClearLast(p)
               \/ EnterHit(p) \/ ReadNread(p) \/ MarkLast(p)
               \/ EnterMiss(p)
               \/ Kernel(p)
               \/ ExitCached(p)
               \/ ExitFill(p)
               \/ Insert(p)
               \/ FillFields(p)

Next == \/ \E p \in Procs : \/ Open(p) \/ GetDents(p) \/ KernelFails(p)
                          \/ ReadOn(p) \/ Close(p) \/ Abandon(p)
        \/ Change

(* A process in its listing loop keeps running.  It need not start one.    *)
(* The kernel does not fail every call of a process that goes on calling.  *)
Fairness == \A p \in Procs : WF_vars(GetDents(p)) /\ SF_vars(Kernel(p))

Spec == Init /\ [][Next]_vars
FairSpec == Spec /\ Fairness

-----------------------------------------------------------------------------
(* Properties *)

Units == 0 .. MaxEntries

(* Every variable has its type; the cached buffer never holds more than it *)
(* has room for.                                                           *)
TypeOK ==
  /\ limit \in 1 .. MaxEntries /\ size \in 1 .. limit /\ changes \in 0 .. MaxChanges
  /\ cached \in BOOLEAN /\ buf \in Seq(Units) /\ Len(buf) <= BufSize
  /\ nread \in 0 .. MaxEntries /\ last_pid_tgid \in Procs \cup {Nobody}
  /\ pc \in [Procs -> {"closed", "open", "skip", "copied", "told", "kernel",
                       "exit", "insert", "fill_1", "fill_2", "fill_3", "eof"}]
  /\ pos \in [Procs -> Nat]
  /\ \A p \in Procs : chunk[p] \in Seq(Units) /\ got[p] \in Seq(Units)
  /\ count \in Counts
  /\ overlap \in BOOLEAN /\ abandon \in BOOLEAN /\ race \in BOOLEAN
  /\ early \subseteq Procs

Small == limit <= Smaller(BufSize, count)
Listings == {Entries(0, k) : k \in 1 .. limit}

(* The listing loop is given each entry once, by the process that fills    *)
(* the cache from the kernel and by all later ones from the cache, also    *)
(* when the directory changes in between: what it had when it was cached,  *)
(* if that fits in both buffers, no two listings overlap and none is       *)
(* given up.                                                               *)
ListingRight ==
  \A p \in Procs :
    pc[p] = "eof" /\ Small /\ ~overlap /\ ~abandon => got[p] = buf /\ buf \in Listings

(* However listings overlap, a directory that fits is served with bytes    *)
(* nobody has read in two cases only: two processes fill the cache at      *)
(* once, or the reader copies buf between its insertion and the first      *)
(* write of the hook that fills it, and reads nread later.  That the hook  *)
(* writes buf before nread closes every other window.                      *)
NoGarbage ==
  ~race /\ Small =>
    \A p \in Procs \ early : \A i \in 1 .. Len(got[p]) : got[p][i] # Garbage

(* A listing that overlaps with no other comes to its end, or to a call    *)
(* that fails, the first on a descriptor and each one after it.            *)
ListingEnds ==
  \A p \in Procs : (pc[p] = "open") ~> (pc[p] \in {"eof", "closed"} \/ overlap)
=============================================================================
