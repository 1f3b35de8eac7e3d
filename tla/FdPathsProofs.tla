--------------------------- MODULE FdPathsProofs ----------------------------
(***************************************************************************)
(* The descriptor table of the directory cache, for every set of threads,  *)
(* directories and descriptors: its type invariant; that dir_fd_map names  *)
(* the directory each descriptor is open on; and that a cached listing was *)
(* read from the directory whose path it is cached under.                  *)
(***************************************************************************)
EXTENDS FdPaths, TLAPS

-----------------------------------------------------------------------------
(* Types *)

LEMMA TypeInit == Init => TypeOK
BY FdsAssumption DEF Init, TypeOK, Keys

(* The step of a thread, one case per action. *)
LEMMA TypeThread ==
  ASSUME TypeOK, NEW t \in Threads, Thread(t)
  PROVE  TypeOK'
<1> USE FdsAssumption, NoneAssumption DEF TypeOK, maps, Goto, Return, Keys
<1>1. ASSUME NEW d \in Dirs, NEW path \in Dirs, EnterOpen(t, d, path) PROVE TypeOK'
  BY <1>1 DEF EnterOpen
<1>2. CASE KernelOpen(t)
  <2>1. PICK f \in Fds : /\ Goto(t, "open_exit", f)
                         /\ file' = [file EXCEPT ![f] = target[t]]
                         /\ irregular' = (irregular \/ Busy(f))
    BY <1>2 DEF KernelOpen
  <2>2. irregular' \in BOOLEAN
    BY <2>1
  <2>3. QED
    BY <1>2, <2>1, <2>2 DEF KernelOpen
<1>3. CASE OpenFails(t)
  BY <1>3 DEF OpenFails
<1>4. CASE ExitOpen(t)
  BY <1>4 DEF ExitOpen
<1>5. ASSUME NEW f \in Fds, EnterClose(t, f) PROVE TypeOK'
  <2>1. irregular' \in BOOLEAN
    BY <1>5 DEF EnterClose
  <2>2. QED
    BY <1>5, <2>1 DEF EnterClose
<1>6. CASE KernelClose(t)
  BY <1>6 DEF KernelClose
<1>7. ASSUME NEW f \in Fds, EnterGetDents(t, f) PROVE TypeOK'
  <2>1. irregular' \in BOOLEAN
    BY <1>7 DEF EnterGetDents
  <2>2. getdents64_args_start' \in [Threads -> Keys]
    BY <1>7 DEF EnterGetDents, StoreArgs
  <2>3. QED
    BY <1>7, <2>1, <2>2 DEF EnterGetDents
<1>8. CASE KernelGetDents(t)
  <2>1. target' \in [Threads -> Dirs \cup {None}]
    BY <1>8 DEF KernelGetDents
  <2>2. QED
    BY <1>8, <2>1 DEF KernelGetDents
<1>9. CASE GetDentsFails(t)
  BY <1>9 DEF GetDentsFails
<1>10. CASE ExitGetDents(t)
  <2>1. cache' \in [Dirs -> Dirs \cup {None}]
    BY <1>10 DEF ExitGetDents
  <2>2. QED
    BY <1>10, <2>1 DEF ExitGetDents
<1>11. ASSUME NEW f \in Fds, NEW ret \in Keys, Fcntl(t, f, ret) PROVE TypeOK'
  <2>1. dir_fd_map' \in [Keys -> Dirs \cup {None}]
    BY <1>11 DEF Fcntl
  <2>2. file' \in [Fds -> Dirs \cup {None}]
    BY <1>11 DEF Fcntl
  <2>3. QED
    BY <1>11, <2>1, <2>2 DEF Fcntl
<1>12. QED
  BY <1>1, <1>2, <1>3, <1>4, <1>5, <1>6, <1>7, <1>8, <1>9, <1>10, <1>11 DEF Thread

LEMMA TypeStep == TypeOK /\ [Next]_vars => TypeOK'
<1> SUFFICES ASSUME TypeOK, [Next]_vars PROVE TypeOK'
  OBVIOUS
<1>1. CASE ProcessExit
  BY <1>1, FdsAssumption DEF ProcessExit, TypeOK, Keys
<1>2. CASE UNCHANGED vars
  BY <1>2 DEF vars, maps, TypeOK
<1>3. QED
  BY <1>1, <1>2, TypeThread DEF Next

(* Type correctness, for every process and every set of descriptors. *)
THEOREM TypeCorrect == Spec => []TypeOK
BY TypeInit, TypeStep, PTL DEF Spec

-----------------------------------------------------------------------------
(* The inductive invariant.  While nothing irregular happens, a descriptor *)
(* whose open has not returned is in no other call; what a thread leaves   *)
(* for its exit hook is what that hook needs: the path of the directory it *)
(* opens, or the descriptor whose entries it has just read, which may be   *)
(* closed by now, but is open on no other directory.                       *)

OpenArgsRight == \A t \in Threads :
  pc[t] \in {"open", "open_exit"} =>
    target[t] \in Dirs /\ open_args_start[t] = target[t]

OpenedRight == \A t \in Threads :
  pc[t] = "open_exit" =>
    /\ file[fd[t]] = target[t]
    /\ \A u \in Threads : u # t => fd[u] # fd[t]

ReadArgsRight == \A t \in Threads :
  pc[t] = "getdents" => getdents64_args_start[t] = fd[t] \/ file[fd[t]] = None

ReadRight == \A t \in Threads :
  pc[t] = "getdents_exit" =>
    /\ getdents64_args_start[t] = fd[t]
    /\ file[fd[t]] \in {target[t], None}

Entry(k) == IF k = 0 \/ Halfway(k) THEN None ELSE file[k]

Mapped == \A k \in Keys : dir_fd_map[k] = Entry(k)

Cached == \A d \in Dirs : cache[d] \in {None, d}

Regular == /\ OpenArgsRight /\ OpenedRight /\ ReadArgsRight /\ ReadRight
           /\ Mapped /\ Cached

IInv == ~irregular => Regular

LEMMA RegularInit == Init => Regular
BY NoneAssumption DEF Init, Regular, OpenArgsRight, OpenedRight, ReadArgsRight, ReadRight,
   Mapped, Cached, Entry, Halfway, In, Keys

(* A step that changes no descriptor, and takes no thread into a call that *)
(* opens or closes one or out of it, leaves the map right.                 *)
LEMMA MapStays ==
  ASSUME Mapped, UNCHANGED <<file, dir_fd_map>>,
         \A u \in Threads : \/ (pc'[u] = pc[u] /\ fd'[u] = fd[u])
                             \/ {pc[u], pc'[u]} \cap {"open_exit", "close"} = {}
  PROVE  Mapped'
<1>1. \A k : Halfway(k)' <=> Halfway(k)
  BY DEF Halfway, In
<1>2. QED
  BY <1>1 DEF Mapped, Entry

(* The open hooks. *)
LEMMA RegularEnterOpen ==
  ASSUME TypeOK, Regular, NEW t \in Threads, NEW d \in Dirs, EnterOpen(t, d, d)
  PROVE  Regular'
<1> USE DEF EnterOpen, maps, Goto, TypeOK
<1>1. Cached'
  BY DEF Regular, Cached
<1>2. OpenArgsRight' /\ ReadArgsRight' /\ ReadRight'
  BY DEF Regular, OpenArgsRight, ReadArgsRight, ReadRight
<1>3. OpenedRight'
  BY FdsAssumption DEF Regular, OpenedRight
<1>4. Mapped'
  BY MapStays DEF Regular
<1>5. QED
  BY <1>1, <1>2, <1>3, <1>4 DEF Regular

LEMMA RegularKernelOpen ==
  ASSUME TypeOK, Regular, NEW t \in Threads, KernelOpen(t), ~irregular'
  PROVE  Regular'
<1> USE NoneAssumption DEF maps, Goto, TypeOK
<1>0. pc[t] = "open" /\ UNCHANGED <<maps, target>>
  BY DEF KernelOpen
<1>1. PICK f \in Fds : /\ file[f] = None /\ Goto(t, "open_exit", f) /\ ~Busy(f)
                       /\ file' = [file EXCEPT ![f] = target[t]]
  BY DEF KernelOpen, Lowest, Free
<1>2. target[t] \in Dirs /\ open_args_start[t] = target[t]
  BY <1>0 DEF Regular, OpenArgsRight
<1>3. \A u \in Threads : fd[u] # f
  BY <1>1 DEF Busy
<1>4. \A u \in Threads : u # t => pc'[u] = pc[u] /\ fd'[u] = fd[u]
  BY <1>1
<1>5. /\ file'[f] = target[t] /\ \A k \in Fds : k # f => file'[k] = file[k]
      /\ pc'[t] = "open_exit" /\ fd'[t] = f
  BY <1>1
<1>6. OpenArgsRight' /\ Cached'
  BY <1>0, <1>2, <1>4, <1>5 DEF Regular, OpenArgsRight, Cached
<1>13. \A u \in Threads : pc[u] \notin {"idle", "open"} =>
         fd[u] \in Fds /\ file'[fd[u]] = file[fd[u]]
  BY <1>3, <1>5 DEF Keys
<1>7. OpenedRight'
  <2>1. ASSUME NEW u \in Threads, u # t, pc[u] = "open_exit"
        PROVE  /\ file'[fd'[u]] = target'[u]
               /\ \A v \in Threads : v # u => fd'[v] # fd'[u]
    BY <2>1, <1>0, <1>3, <1>4, <1>5, <1>13 DEF Regular, OpenedRight
  <2>2. file'[fd'[t]] = target'[t] /\ \A v \in Threads : v # t => fd'[v] # fd'[t]
    BY <1>0, <1>3, <1>4, <1>5
  <2>3. QED
    BY <2>1, <2>2, <1>4 DEF OpenedRight
<1>8. ReadArgsRight' /\ ReadRight'
  BY <1>0, <1>4, <1>5, <1>13 DEF Regular, ReadArgsRight, ReadRight
<1>9. Halfway(f)' /\ \A k \in Keys : k # f => (Halfway(k)' <=> Halfway(k))
  <2>1. Halfway(f)'
    BY <1>5 DEF Halfway, In
  <2>2. ASSUME NEW k \in Keys, k # f PROVE Halfway(k)' <=> Halfway(k)
    BY <2>2, <1>0, <1>4, <1>5 DEF Halfway, In
  <2>3. QED
    BY <2>1, <2>2
<1>10. ~Halfway(f)
  BY <1>3 DEF Halfway, In
<1>11. Mapped'
  BY <1>0, <1>1, <1>5, <1>9, <1>10, FdsAssumption DEF Regular, Mapped, Entry, Keys
<1>12. QED
  BY <1>6, <1>7, <1>8, <1>11 DEF Regular

LEMMA RegularOpenFails ==
  ASSUME TypeOK, Regular, NEW t \in Threads, OpenFails(t)
  PROVE  Regular'
<1> USE DEF OpenFails, maps, Goto, Return, TypeOK
<1>1. Cached'
  BY DEF Regular, Cached
<1>2. OpenArgsRight' /\ ReadArgsRight' /\ ReadRight'
  BY DEF Regular, OpenArgsRight, ReadArgsRight, ReadRight
<1>3. OpenedRight'
  BY FdsAssumption DEF Regular, OpenedRight
<1>4. Mapped'
  BY MapStays DEF Regular
<1>5. QED
  BY <1>1, <1>2, <1>3, <1>4 DEF Regular

LEMMA RegularExitOpen ==
  ASSUME TypeOK, Regular, NEW t \in Threads, ExitOpen(t)
  PROVE  Regular'
<1> USE DEF ExitOpen, Goto, Return, TypeOK
<1>1. PICK f \in Fds : f = fd[t]
  BY DEF Keys
<1>2. open_args_start[t] = file[f] /\ \A u \in Threads : u # t => fd[u] # f
  BY <1>1 DEF Regular, OpenArgsRight, OpenedRight
<1>3. Cached'
  BY DEF Regular, Cached
<1>4. OpenArgsRight' /\ ReadArgsRight' /\ ReadRight'
  BY DEF Regular, OpenArgsRight, ReadArgsRight, ReadRight
<1>5. OpenedRight'
  BY FdsAssumption DEF Regular, OpenedRight
<1>6. ~Halfway(f)'
  BY <1>2, FdsAssumption DEF Halfway, In
<1>7. \A k \in Keys : k # f => (Halfway(k)' <=> Halfway(k))
  BY <1>1 DEF Halfway, In
<1>8. Mapped'
  BY <1>1, <1>2, <1>6, <1>7, FdsAssumption DEF Regular, Mapped, Entry, Keys
<1>9. QED
  BY <1>3, <1>4, <1>5, <1>8 DEF Regular

(* close *)
LEMMA RegularEnterClose ==
  ASSUME TypeOK, Regular, NEW t \in Threads, NEW f \in Fds, EnterClose(t, f), ~irregular'
  PROVE  Regular'
<1> USE DEF Goto, TypeOK
<1>0. /\ pc[t] = "idle" /\ pc' = [pc EXCEPT ![t] = "close"] /\ fd' = [fd EXCEPT ![t] = f]
      /\ dir_fd_map' = [dir_fd_map EXCEPT ![f] = None] /\ ~In("open_exit", f)
      /\ UNCHANGED <<file, open_args_start, getdents64_args_start, cache, target>>
  BY DEF EnterClose
<1>1. Cached'
  BY <1>0 DEF Regular, Cached
<1>2. OpenArgsRight' /\ ReadArgsRight' /\ ReadRight'
  BY <1>0 DEF Regular, OpenArgsRight, ReadArgsRight, ReadRight
<1>3. OpenedRight'
  BY <1>0 DEF Regular, OpenedRight, In
<1>4. Halfway(f)' /\ \A k \in Keys : k # f => (Halfway(k)' <=> Halfway(k))
  BY <1>0 DEF Halfway, In
<1>5. Mapped'
  BY <1>0, <1>4, FdsAssumption DEF Regular, Mapped, Entry, Keys
<1>6. QED
  BY <1>1, <1>2, <1>3, <1>5 DEF Regular

LEMMA RegularKernelClose ==
  ASSUME TypeOK, Regular, NEW t \in Threads, KernelClose(t)
  PROVE  Regular'
<1> USE NoneAssumption DEF KernelClose, maps, Goto, TypeOK
<1>1. PICK f \in Fds : f = fd[t]
  BY DEF Keys
<1>2. file'[f] = None /\ \A k \in Fds : k # f => file'[k] = file[k]
  BY <1>1
<1>3. \A u \in Threads : u # t => pc'[u] = pc[u] /\ fd'[u] = fd[u]
  OBVIOUS
<1>4. OpenArgsRight' /\ Cached'
  BY DEF Regular, OpenArgsRight, Cached
<1>5. OpenedRight'
  BY <1>1, <1>2, <1>3, FdsAssumption DEF Regular, OpenedRight, Keys
<1>6. ReadArgsRight' /\ ReadRight'
  BY <1>1, <1>2, <1>3 DEF Regular, ReadArgsRight, ReadRight, Keys
<1>7. \A k \in Keys : k # f => (Halfway(k)' <=> Halfway(k))
  BY <1>1, FdsAssumption DEF Halfway, In, Keys
<1>8. dir_fd_map[f] = None
  BY <1>1 DEF Regular, Mapped, Entry, Halfway, In, Keys
<1>9. Mapped'
  BY <1>1, <1>2, <1>7, <1>8, FdsAssumption DEF Regular, Mapped, Entry, Keys
<1>10. QED
  BY <1>4, <1>5, <1>6, <1>9 DEF Regular

(* getdents64 *)
LEMMA RegularEnterGetDents ==
  ASSUME TypeOK, Regular, NEW t \in Threads, NEW f \in Fds, EnterGetDents(t, f), ~irregular'
  PROVE  Regular'
<1> USE NoneAssumption DEF Goto, TypeOK
<1>0. /\ pc[t] = "idle" /\ pc' = [pc EXCEPT ![t] = "getdents"] /\ fd' = [fd EXCEPT ![t] = f]
      /\ ~Halfway(f)
      /\ UNCHANGED <<file, dir_fd_map, open_args_start, cache, target>>
  BY DEF EnterGetDents
<1>1. /\ \A u \in Threads : u # t => getdents64_args_start'[u] = getdents64_args_start[u]
      /\ dir_fd_map[f] # None => getdents64_args_start'[t] = f
  BY DEF EnterGetDents, StoreArgs
<1>2. dir_fd_map[f] = None => file[f] = None
  BY <1>0, FdsAssumption DEF Regular, Mapped, Entry, Keys
<1>3. Cached'
  BY <1>0 DEF Regular, Cached
<1>4. OpenArgsRight'
  BY <1>0 DEF Regular, OpenArgsRight
<1>5. OpenedRight'
  BY <1>0 DEF Regular, OpenedRight, Halfway, In
<1>6. ReadArgsRight' /\ ReadRight'
  BY <1>0, <1>1, <1>2 DEF Regular, ReadArgsRight, ReadRight
<1>7. Mapped'
  BY <1>0, MapStays DEF Regular
<1>8. QED
  BY <1>3, <1>4, <1>5, <1>6, <1>7 DEF Regular

LEMMA RegularKernelGetDents ==
  ASSUME TypeOK, Regular, NEW t \in Threads, KernelGetDents(t)
  PROVE  Regular'
<1> USE DEF KernelGetDents, maps, Goto, TypeOK
<1>1. Cached' /\ OpenArgsRight' /\ ReadArgsRight'
  BY DEF Regular, Cached, OpenArgsRight, ReadArgsRight
<1>2. OpenedRight'
  BY DEF Regular, OpenedRight
<1>3. ReadRight'
  BY DEF Regular, ReadArgsRight, ReadRight
<1>4. Mapped'
  BY MapStays DEF Regular
<1>5. QED
  BY <1>1, <1>2, <1>3, <1>4 DEF Regular

LEMMA RegularGetDentsFails ==
  ASSUME TypeOK, Regular, NEW t \in Threads, GetDentsFails(t)
  PROVE  Regular'
<1> USE DEF GetDentsFails, maps, Goto, Return, TypeOK
<1>1. Cached'
  BY DEF Regular, Cached
<1>2. OpenArgsRight' /\ ReadArgsRight' /\ ReadRight'
  BY DEF Regular, OpenArgsRight, ReadArgsRight, ReadRight
<1>3. OpenedRight'
  BY FdsAssumption DEF Regular, OpenedRight
<1>4. Mapped'
  BY MapStays DEF Regular
<1>5. QED
  BY <1>1, <1>2, <1>3, <1>4 DEF Regular

LEMMA RegularExitGetDents ==
  ASSUME TypeOK, Regular, NEW t \in Threads, ExitGetDents(t)
  PROVE  Regular'
<1> USE DEF ExitGetDents, Goto, Return, TypeOK
<1>1. PICK f \in Fds : /\ f = getdents64_args_start[t]
                       /\ file[f] \in {target[t], None}
  BY DEF Regular, ReadRight, Keys
<1>2. dir_fd_map[f] \in {target[t], None}
  BY <1>1 DEF Regular, Mapped, Entry, Keys
<1>3. Cached'
  BY <1>1, <1>2 DEF Regular, Cached
<1>4. OpenArgsRight' /\ ReadArgsRight' /\ ReadRight'
  BY DEF Regular, OpenArgsRight, ReadArgsRight, ReadRight
<1>5. OpenedRight'
  BY FdsAssumption DEF Regular, OpenedRight
<1>6. Mapped'
  BY MapStays DEF Regular
<1>7. QED
  BY <1>3, <1>4, <1>5, <1>6 DEF Regular

-----------------------------------------------------------------------------
(* A step of a thread that stays regular is one of the above: fcntl is     *)
(* irregular, and so is an open of another directory than the path names.  *)
LEMMA IInvThread ==
  ASSUME TypeOK, IInv, NEW t \in Threads, Thread(t)
  PROVE  IInv'
<1> SUFFICES ASSUME ~irregular' PROVE Regular'
  BY DEF IInv
<1>1. ASSUME NEW d \in Dirs, NEW path \in Dirs, EnterOpen(t, d, path) PROVE Regular'
  <2>1. ~irregular /\ path = d
    BY <1>1 DEF EnterOpen, TypeOK
  <2>2. QED
    BY <1>1, <2>1, RegularEnterOpen DEF IInv
<1>2. CASE KernelOpen(t)
  <2>1. ~irregular
    BY <1>2 DEF KernelOpen, TypeOK
  <2>2. QED
    BY <1>2, <2>1, RegularKernelOpen DEF IInv
<1>3. CASE OpenFails(t)
  BY <1>3, RegularOpenFails DEF IInv, OpenFails
<1>4. CASE ExitOpen(t)
  BY <1>4, RegularExitOpen DEF IInv, ExitOpen
<1>5. ASSUME NEW f \in Fds, EnterClose(t, f) PROVE Regular'
  <2>1. ~irregular
    BY <1>5 DEF EnterClose, TypeOK
  <2>2. QED
    BY <1>5, <2>1, RegularEnterClose DEF IInv
<1>6. CASE KernelClose(t)
  BY <1>6, RegularKernelClose DEF IInv, KernelClose
<1>7. ASSUME NEW f \in Fds, EnterGetDents(t, f) PROVE Regular'
  <2>1. ~irregular
    BY <1>7 DEF EnterGetDents, TypeOK
  <2>2. QED
    BY <1>7, <2>1, RegularEnterGetDents DEF IInv
<1>8. CASE KernelGetDents(t)
  BY <1>8, RegularKernelGetDents DEF IInv, KernelGetDents
<1>9. CASE GetDentsFails(t)
  BY <1>9, RegularGetDentsFails DEF IInv, GetDentsFails
<1>10. CASE ExitGetDents(t)
  BY <1>10, RegularExitGetDents DEF IInv, ExitGetDents
<1>11. ASSUME NEW f \in Fds, NEW ret \in Keys, Fcntl(t, f, ret) PROVE Regular'
  BY <1>11 DEF Fcntl
<1>12. QED
  BY <1>1, <1>2, <1>3, <1>4, <1>5, <1>6, <1>7, <1>8, <1>9, <1>10, <1>11 DEF Thread

(* A process that ends with nothing mapped has nothing open. *)
LEMMA IInvProcessExit == ASSUME TypeOK, IInv, ProcessExit PROVE IInv'
<1> SUFFICES ASSUME ~irregular' PROVE Regular'
  BY DEF IInv
<1> USE DEF ProcessExit
<1>1. Regular /\ \A k \in Keys : dir_fd_map[k] = None
  BY DEF IInv
<1>2. Cached'
  BY <1>1 DEF Regular, Cached
<1>3. Mapped'
  BY <1>1 DEF Mapped, Entry, Halfway, In, Keys
<1>4. OpenArgsRight' /\ OpenedRight' /\ ReadArgsRight' /\ ReadRight'
  BY DEF OpenArgsRight, OpenedRight, ReadArgsRight, ReadRight
<1>5. QED
  BY <1>2, <1>3, <1>4 DEF Regular

LEMMA IInvStutter == ASSUME IInv, UNCHANGED vars PROVE IInv'
BY DEF IInv, Regular, OpenArgsRight, OpenedRight, ReadArgsRight, ReadRight,
   Mapped, Cached, Entry, Halfway, In, vars, maps

LEMMA IInvStep == TypeOK /\ IInv /\ [Next]_vars => IInv'
BY IInvThread, IInvProcessExit, IInvStutter DEF Next

(* The invariant holds of every run. *)
THEOREM Inductive == Spec => []IInv
<1>1. Init => IInv
  BY RegularInit DEF IInv
<1>2. QED
  BY <1>1, IInvStep, TypeCorrect, PTL DEF Spec

(* dir_fd_map is right, for a process that stays within what the hooks     *)
(* handle: no directory given to openat, no fcntl, everything closed, and  *)
(* no descriptor used before its open returns, or reused while in a call.  *)
THEOREM MapRight == Spec => []NamesMatch
<1>1. IInv => NamesMatch
  BY DEF IInv, Regular, Mapped, Entry, NamesMatch
<1>2. QED
  BY <1>1, Inductive, PTL

(* Such a process never has one directory's entries cached as another's,   *)
(* even if its threads close descriptors that others are reading.          *)
THEOREM CacheRight == Spec => []CacheNames
<1>1. IInv => CacheNames
  BY DEF IInv, Regular, Cached, CacheNames
<1>2. QED
  BY <1>1, Inductive, PTL
=============================================================================
