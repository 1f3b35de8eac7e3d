------------------------------ MODULE FdPaths ------------------------------
(***************************************************************************)
(* How fuse/bpf/fs-cache.bpf.c knows which directory a descriptor names:   *)
(* dir_fd_map, filled when open and openat return and cleared when close   *)
(* is entered, and the maps in which the enter hooks leave arguments for   *)
(* the exit hooks, keyed by thread and never cleared.  One process, whose  *)
(* threads share the descriptor table: any of them may close or list any   *)
(* descriptor, open or not, while another is in a call on it.  The process *)
(* may end, and another may get its pid.                                   *)
(*                                                                         *)
(* A call that the open filter rejects, or that is answered from the       *)
(* cache, touches none of these maps and is no step here.  What a former   *)
(* call left in open_args_start, or in the caller's buffer, is overwritten *)
(* before it is read, and forgotten here when the call returns; the map    *)
(* fcntl_args_start is never read, and left out.  What the cached buffers  *)
(* hold is in DirCache; here it only matters whose entries they are.       *)
(***************************************************************************)
EXTENDS Naturals

CONSTANTS Threads,  \* thread ids
          Dirs,     \* directories, and their absolute paths
          Fds,      \* descriptors the process gets from open and fcntl
          None      \* no directory, no thread

ASSUME FdsAssumption == Fds \subseteq Nat \ {0}
ASSUME NoneAssumption == None \notin Dirs \cup Threads

VARIABLES
  file,              \* file[f]: the directory that f is open on
  dir_fd_map,
  open_args_start,        \* [t]: the path, made absolute at the exit
  getdents64_args_start,  \* [t]: the descriptor, 0 if there is no entry
  cache,             \* cache[d]: whose entries are cached under the path d
  pc, fd,            \* where thread t is, in a call on which descriptor
  target,            \* the directory that the call of t opens, or has read
  irregular          \* the process has done what the hooks get wrong

maps   == <<dir_fd_map, open_args_start, getdents64_args_start, cache>>
vars   == <<file, maps, pc, fd, target, irregular>>

Keys == Fds \cup {0}

Init == /\ file = [f \in Fds |-> None]
        /\ dir_fd_map = [k \in Keys |-> None]
        /\ open_args_start = [t \in Threads |-> None]
        /\ getdents64_args_start = [t \in Threads |-> 0]
        /\ cache = [d \in Dirs |-> None]
        /\ pc = [t \in Threads |-> "idle"] /\ fd = [t \in Threads |-> 0]
        /\ target = [t \in Threads |-> None]
        /\ irregular = FALSE

Goto(t, l, f) == pc' = [pc EXCEPT ![t] = l] /\ fd' = [fd EXCEPT ![t] = f]

Return(t) == /\ Goto(t, "idle", 0)
             /\ open_args_start' = [open_args_start EXCEPT ![t] = None]
             /\ target' = [target EXCEPT ![t] = None]

Free == {f \in Fds : file[f] = None}
Lowest(f) == f \in Free /\ \A g \in Free : f <= g

(* A thread is in a call on f: in any, in one of this kind, in one whose   *)
(* step in the kernel and the step in its hook are not both done.          *)
Busy(f) == \E t \in Threads : fd[t] = f
In(l, f) == \E t \in Threads : pc[t] = l /\ fd[t] = f
Halfway(f) == In("open_exit", f) \/ In("close", f)

-----------------------------------------------------------------------------
(* open, openat: the hook resolves the name against the working directory, *)
(* so that path is another one when openat was given a directory.          *)

EnterOpen(t, d, path) ==
  /\ pc[t] = "idle"
  /\ open_args_start' = [open_args_start EXCEPT ![t] = path]
  /\ target' = [target EXCEPT ![t] = d]
  /\ irregular' = (irregular \/ path # d)
  /\ Goto(t, "open", 0)
  /\ UNCHANGED <<file, dir_fd_map, getdents64_args_start, cache>>

(* A descriptor that is closed and opened again while a call on it is in   *)
(* progress means another directory when that call goes on.                *)
KernelOpen(t) ==
  /\ pc[t] = "open"
  /\ \E f \in Fds : /\ Lowest(f)
                    /\ file' = [file EXCEPT ![f] = target[t]]
                    /\ irregular' = (irregular \/ Busy(f))
                    /\ Goto(t, "open_exit", f)
  /\ UNCHANGED <<maps, target>>

FailureNotTested(t) ==
  /\ pc[t] = "open"
  /\ Goto(t, "open_exit", 0)
  /\ UNCHANGED <<file, maps, target, irregular>>

(* The exit hook ignores a call that failed. *)
OpenFails(t) ==
  /\ pc[t] = "open"
  /\ Return(t)
  /\ UNCHANGED <<file, dir_fd_map, getdents64_args_start, cache, irregular>>

ExitOpen(t) ==
  /\ pc[t] = "open_exit"
  /\ dir_fd_map' = [dir_fd_map EXCEPT ![fd[t]] = open_args_start[t]]
  /\ Return(t)
  /\ UNCHANGED <<file, getdents64_args_start, cache, irregular>>

-----------------------------------------------------------------------------
(* close: the entry goes before the descriptor does. *)

KeepEntry(t, f) ==
  /\ pc[t] = "idle"
  /\ irregular' = (irregular \/ In("open_exit", f))
  /\ Goto(t, "close", f)
  /\ UNCHANGED <<file, maps, target>>

EnterClose(t, f) ==
  /\ pc[t] = "idle"
  /\ dir_fd_map' = [dir_fd_map EXCEPT ![f] = None]
  /\ irregular' = (irregular \/ In("open_exit", f))
  /\ Goto(t, "close", f)
  /\ UNCHANGED <<file, open_args_start, getdents64_args_start, cache, target>>

KernelClose(t) ==
  /\ pc[t] = "close"
  /\ file' = [file EXCEPT ![fd[t]] = None]
  /\ Goto(t, "idle", 0)
  /\ UNCHANGED <<maps, target, irregular>>

-----------------------------------------------------------------------------
(* getdents64, for a path that is not cached *)

KeepFirstArgs(t, f) ==
  getdents64_args_start' =
    [getdents64_args_start EXCEPT ![t] = IF @ = 0 THEN f ELSE @]

StoreArgs(t, f) ==
  getdents64_args_start' = [getdents64_args_start EXCEPT ![t] = f]

(* Without an entry for f the arguments of the thread's last call stay.    *)
EnterGetDents(t, f) ==
  /\ pc[t] = "idle"
  /\ \/ dir_fd_map[f] = None /\ UNCHANGED getdents64_args_start
     \/ dir_fd_map[f] # None /\ cache[dir_fd_map[f]] = None /\ StoreArgs(t, f)
  /\ irregular' = (irregular \/ Halfway(f))
  /\ Goto(t, "getdents", f)
  /\ UNCHANGED <<file, dir_fd_map, open_args_start, cache, target>>

KernelGetDents(t) ==
  /\ pc[t] = "getdents" /\ file[fd[t]] # None
  /\ target' = [target EXCEPT ![t] = file[fd[t]]]
  /\ Goto(t, "getdents_exit", fd[t])
  /\ UNCHANGED <<file, maps, irregular>>

GetDentsFails(t) ==
  /\ pc[t] = "getdents"
  /\ Return(t)
  /\ UNCHANGED <<file, dir_fd_map, getdents64_args_start, cache, irregular>>

(* The path is looked up again, under the descriptor in the stored call. *)
ExitGetDents(t) ==
  /\ pc[t] = "getdents_exit"
  /\ LET f == getdents64_args_start[t]
         fills == f # 0 /\ dir_fd_map[f] # None /\ cache[dir_fd_map[f]] = None
     IN cache' = IF fills THEN [cache EXCEPT ![dir_fd_map[f]] = target[t]] ELSE cache
  /\ Return(t)
  /\ UNCHANGED <<file, dir_fd_map, getdents64_args_start, irregular>>

-----------------------------------------------------------------------------
(* fcntl: a duplicate gets the lowest free descriptor, other commands may  *)
(* return 0.  The exit hook looks in getdents64_args_start, for both.      *)
Fcntl(t, f, ret) ==
  /\ pc[t] = "idle" /\ file[f] # None
  /\ IF ret = 0 THEN UNCHANGED file
                ELSE Lowest(ret) /\ file' = [file EXCEPT ![ret] = file[f]]
  /\ LET g == getdents64_args_start[t]
     IN dir_fd_map' = IF g # 0 /\ dir_fd_map[g] # None
                      THEN [dir_fd_map EXCEPT ![ret] = dir_fd_map[g]]
                      ELSE dir_fd_map
  /\ irregular' = TRUE
  /\ UNCHANGED <<open_args_start, getdents64_args_start, cache, pc, fd, target>>

(* The process ends with what it has open; no hook sees it. *)
ProcessExit ==
  /\ file' = [f \in Fds |-> None]
  /\ pc' = [t \in Threads |-> "idle"] /\ fd' = [t \in Threads |-> 0]
  /\ open_args_start' = [t \in Threads |-> None]
  /\ target' = [t \in Threads |-> None]
  /\ irregular' = (irregular \/ \E k \in Keys : dir_fd_map[k] # None)
  /\ UNCHANGED <<dir_fd_map, getdents64_args_start, cache>>

Thread(t) ==
  \/ \E d \in Dirs, path \in Dirs : EnterOpen(t, d, path)
  \/ KernelOpen(t) \/ OpenFails(t) \/ ExitOpen(t)
  \/ \E f \in Fds : EnterClose(t, f) \/ EnterGetDents(t, f)
  \/ KernelClose(t)
  \/ KernelGetDents(t) \/ GetDentsFails(t) \/ ExitGetDents(t)
  \/ \E f \in Fds, ret \in Keys : Fcntl(t, f, ret)

Next == (\E t \in Threads : Thread(t)) \/ ProcessExit

Spec == Init /\ [][Next]_vars

-----------------------------------------------------------------------------
(* Properties *)

(* Every variable has its type; a thread in a call on a descriptor has one *)
(* that the kernel gave out.                                               *)
TypeOK ==
  /\ file \in [Fds -> Dirs \cup {None}]
  /\ dir_fd_map \in [Keys -> Dirs \cup {None}]
  /\ open_args_start \in [Threads -> Dirs \cup {None}]
  /\ getdents64_args_start \in [Threads -> Keys]
  /\ cache \in [Dirs -> Dirs \cup {None}]
  /\ pc \in [Threads -> {"idle", "open", "open_exit", "close", "getdents",
                         "getdents_exit"}]
  /\ fd \in [Threads -> Keys]
  /\ \A t \in Threads : fd[t] # 0 <=> pc[t] \notin {"idle", "open"}
  /\ target \in [Threads -> Dirs \cup {None}]
  /\ irregular \in BOOLEAN

(* Between the calls that open and close it, a descriptor is mapped to the *)
(* directory it is open on, and no other descriptor is mapped, whatever    *)
(* the threads' calls overlap with, two closes of one descriptor included. *)
(* For a process that gives openat no directory, does not call fcntl,      *)
(* closes what it opens, uses no descriptor before its open has returned,  *)
(* and does not get a descriptor again while it is in a call on it.        *)
NamesMatch ==
  ~irregular => \A k \in Keys :
    dir_fd_map[k] = IF k = 0 \/ Halfway(k) THEN None ELSE file[k]

(* What is cached under a path was read from that directory, although the  *)
(* exit hook looks the descriptor up again, and another thread may have    *)
(* closed it since the call: only its reuse in between, or a call on a     *)
(* descriptor that is being closed, can confuse the hook.                  *)
CacheNames == ~irregular => \A d \in Dirs : cache[d] \in {None, d}
=============================================================================
