--------------------------- MODULE ProcDiscProofs ---------------------------
(***************************************************************************)
(* Programs that wait once for each of their own children and exit after   *)
(* them do not stop the machine (NoPanic), when nothing fails and the exit *)
(* codes of all the processes ever forked fit in the table.                *)
(***************************************************************************)
EXTENDS ProcProofs

Exiting == ExitLabels \cup {"gone"}

(* A process that runs has an allocated structure.                         *)
AliveInv == \A p \in Procs : pc[p] \notin {"none", "gone"} => p \in alive

(* A process that is asleep for a lock is in lock_acquire for that lock.   *)
QueueInv == \A p, q \in Procs : InQueue(p, q) =>
    \/ p = q /\ pc[p] \in {"fk_lock", "ex_lock", "wp_lock", "wp_relock"}
    \/ q = ptr[p] /\ pc[p] \in {"ex_plock", "wp_clock"}

(* A process that has a pid and has not run is being forked by its parent. *)
UnbornInv == \A w \in PidMin .. MaxPid : w < next_pid /\ pc[w] = "none" =>
    /\ ppid[w] \in Procs /\ ptr[ppid[w]] = w
    /\ pc[ppid[w]] \in {"fk_copy", "fk_put", "fk_thread"}

(* A process that has a pid has a parent, and while it runs the parent has *)
(* not called _exit.  The first process has none.                          *)
FamilyInv ==
    /\ ppid[0] = NoProc
    /\ \A w \in PidMin .. MaxPid : w < next_pid =>
          /\ ppid[w] \in Procs /\ pc[ppid[w]] # "none"
          /\ pc[w] \notin {"none", "gone"} => pc[ppid[w]] \notin Exiting

(* A process that has not removed itself is in the table, unless it came   *)
(* last and found the table full; one with children is in the table.       *)
InTable(q) == \E i \in Slots : proc_array[i] = q

RoomInv == \A q \in Procs : pc[q] \notin RemovedLabels /\
        (pc[q] # "none" \/ \E p \in Procs : pc[p] = "fk_thread" /\ ptr[p] = q) =>
    /\ InTable(q) \/ next_pid = MaxPid + 1
    /\ (\E w \in PidMin .. MaxPid : w < next_pid /\ ppid[w] = q) => InTable(q)

(* An exiting child finds its parent.                                      *)
FoundInv == \A w \in PidMin .. MaxPid :
    /\ pc[w] = "ex_read" => ptr[w] # NoProc
    /\ pc[w] = "ex_rem" => ptr[w] = ppid[w]

(* The parent of w has not collected its exit code.                        *)
Uncollected(w) == LET u == ppid[w] IN
    /\ pc[u] \notin Exiting
    /\ \/ w \notin waited[u]
       \/ arg[u] = w /\ pc[u] \in WaitLabels \ {"wp_return"}

(* The code of a process that has exited stays until it is collected.      *)
KeptInv ==
    /\ \A c \in active_exit_codes : c.pid # 0
    /\ \A w \in PidMin .. MaxPid : pc[w] \in PostedLabels /\ Uncollected(w) => is_proc_exited(w)

(* A waiting process waits for a child of its own that has started; the    *)
(* pointer it read is to that child, and the child cannot post its code    *)
(* before the parent has let go of its own ops_lock.                       *)
WaiterInv == \A p \in Procs :
    /\ pc[p] \in WaitLabels => ppid[arg[p]] = p /\ pc[arg[p]] # "none" /\ arg[p] \in waited[p]
    /\ pc[p] = "wp_read" /\ ptr[p] # NoProc =>
          proc_array[ptr[p]] = arg[p] \/ pc[arg[p]] \in PostedLabels
    /\ pc[p] = "wp_exited" => ptr[p] = arg[p] \/ pc[arg[p]] \in PostedLabels
    /\ pc[p] \in {"wp_clock", "wp_child"} => ptr[p] = arg[p] /\ pc[arg[p]] \notin PostedLabels

DiscInv == /\ ExitInv /\ TableInv /\ AliveInv /\ QueueInv /\ UnbornInv /\ FamilyInv
           /\ RoomInv /\ FoundInv /\ KeptInv /\ WaiterInv /\ panic = FALSE

(* What the programs and the machine are assumed to do.                    *)
WellBehaved == Disciplined /\ ~Failures /\ CodesFit

-----------------------------------------------------------------------------
(* How a process comes to exit.                                            *)
LEMMA ExitingEdges ==
    ASSUME WellBehaved, BaseInv, NEW p \in Procs, Step(p) \/ Call(p)
    PROVE  /\ pc'[p] # "none"
           /\ pc'[p] \in Exiting => pc[p] \in Exiting \/ \E code \in ExitArgs : _exit(p, code)
           /\ pc[p] \in Exiting => pc'[p] \in Exiting
           /\ pc'[p] \in PostedLabels =>
                 pc[p] \in PostedLabels \/ exit_post(p) \/ (exit_rem(p) /\ ptr[p] = NoProc)
<1>1. LocalTypes /\ pc' \in [Procs -> Labels]
  BY LocalTypesStep DEF BaseInv, TypeInv, LocalTypes
<1>2. CASE UNCHANGED pc
  BY <1>2, Moves
<1>3. CASE \/ exit_lock(p) \/ exit_find(p) \/ exit_read(p) \/ exit_rem(p) \/ exit_plock(p)
           \/ exit_post(p) \/ exit_punlock(p) \/ exit_remove(p) \/ exit_unlock(p)
           \/ exit_destroy(p)
  BY <1>1, <1>3 DEF LocalTypes, exit_lock, exit_find, exit_read, exit_rem, exit_plock, exit_post,
     exit_punlock, exit_remove, exit_unlock, exit_destroy, lock_acquire, Panic, At, Goto,
     Exiting, ExitLabels, PostedLabels
<1>4. CASE fork_thread(p) \/ exit_signal(p)
  BY <1>4, TwoMoves DEF Exiting, ExitLabels, PostedLabels
<1>5. CASE \/ runprogram(p) \/ fork_lock(p) \/ fork_pid(p) \/ fork_copy(p) \/ fork_put(p)
           \/ waitpid_lock(p) \/ waitpid_find(p) \/ waitpid_read(p) \/ waitpid_exists(p)
           \/ waitpid_exited(p) \/ waitpid_clock(p) \/ waitpid_child(p) \/ waitpid_loop(p)
           \/ waitpid_again(p) \/ cv_wait(p) \/ cv_wait_relock(p) \/ waitpid_get(p)
           \/ waitpid_return(p) \/ Call(p)
  <2>1. pc[p] \notin Exiting
    BY <1>5 DEF runprogram, runprogram_fails, fork, fork_lock, fork_pid, fork_copy, fork_put,
       waitpid_lock, waitpid_find, waitpid_read, waitpid_exists, waitpid_exited, waitpid_clock,
       waitpid_child, waitpid_loop, waitpid_again, cv_wait, cv_wait_relock, waitpid_get,
       waitpid_return, Call, _exit, waitpid, At, Exiting, ExitLabels
  <2>2. \/ UNCHANGED pc
        \/ \E l \in Labels : pc' = [pc EXCEPT ![p] = l] /\ l \notin Exiting \cup {"none"}
        \/ \E code \in ExitArgs : _exit(p, code)
    BY <1>5 DEF WellBehaved, runprogram, runprogram_fails, fork, fork_lock, fork_pid, fork_copy,
       fork_put, waitpid_lock, waitpid_find, waitpid_read, waitpid_exists, waitpid_exited,
       waitpid_clock, waitpid_child, waitpid_loop, waitpid_again, cv_wait, cv_wait_relock,
       waitpid_get, waitpid_return, Call, waitpid, Goto, lock_acquire, Panic, Exiting,
       ExitLabels, Labels, ForkLabels, WaitLabels
  <2>3. CASE \E code \in ExitArgs : _exit(p, code)
    BY <1>1, <2>1, <2>3 DEF _exit, Goto, LocalTypes, PostedLabels
  <2>4. CASE \E l \in Labels : pc' = [pc EXCEPT ![p] = l] /\ l \notin Exiting \cup {"none"}
    BY <1>1, <2>1, <2>4 DEF LocalTypes, PostedLabels, Exiting, ExitLabels
  <2> QED  BY <1>2, <2>2, <2>3, <2>4
<1> QED  BY <1>3, <1>4, <1>5 DEF Step

(* The same for every process: none stops having started, and none stops   *)
(* exiting.                                                                *)
LEMMA Started ==
    ASSUME WellBehaved, BaseInv, NEW p \in Procs, Step(p) \/ Call(p), NEW u \in Procs
    PROVE  /\ pc[u] # "none" => pc'[u] # "none" /\ ppid'[u] = ppid[u]
           /\ pc[u] \in Exiting => pc'[u] \in Exiting
           /\ u < next_pid => u < next_pid' /\ ppid'[u] = ppid[u]
<1>1. /\ pc[u] # "none" => pc'[u] # "none"
      /\ pc[u] \in Exiting => pc'[u] \in Exiting
  BY ExitingEdges, Frame DEF Exiting, ExitLabels
<1>2. pc[u] # "none" => ppid'[u] = ppid[u]
  BY <1>1, PostedStays
<1>3. u < next_pid => u < next_pid' /\ ppid'[u] = ppid[u]
  BY Changes, ProcFacts, ProcTableAssumption DEF fork_pid, BaseInv, TypeInv, TableTypes, PidMin
<1> QED  BY <1>1, <1>2, <1>3

(* Every step keeps AliveInv.                                              *)
LEMMA AliveStep ==
    ASSUME WellBehaved, DiscInv, NEW p \in Procs, Step(p) \/ Call(p)
    PROVE  AliveInv'
<1> SUFFICES ASSUME NEW u \in Procs, pc'[u] \notin {"none", "gone"} PROVE u \in alive'
  BY DEF AliveInv
<1>1. BaseInv /\ AliveInv /\ LocalTypes /\ ForkInv
  BY DEF DiscInv, ExitInv, BaseInv, TypeInv
<1>2. alive \subseteq alive' \/ (alive' = alive \ {p} /\ pc'[p] = "gone")
  BY <1>1, Changes DEF fork_pid, fork_copy, runprogram_fails, exit_destroy, proc_destroy, Panic,
     Goto, LocalTypes, WellBehaved
<1>3. u \in alive
  <2>1. fork_thread(p) => ptr[p] \in alive
    BY <1>1 DEF ForkInv, fork_thread, At
  <2>2. CASE u = p
    BY <1>1, <2>2, Moves DEF AliveInv
  <2>3. CASE u # p
    BY <1>1, <2>1, <2>3, Frame DEF AliveInv
  <2> QED  BY <2>2, <2>3
<1> QED  BY <1>2, <1>3

(* Every step keeps QueueInv: only p joins a queue, from lock_acquire.     *)
LEMMA QueueStep ==
    ASSUME DiscInv, NEW p \in Procs, Step(p) \/ Call(p)
    PROVE  QueueInv'
<1>1. BaseInv /\ QueueInv /\ LockTypes /\ TableTypes
  BY DEF DiscInv, ExitInv, BaseInv, TypeInv
<1> DEFINE Own == {"fk_lock", "ex_lock", "wp_lock", "wp_relock"}
<1>2. ASSUME NEW q \in Procs, lkq' = [lkq EXCEPT ![q] = Append(@, p)],
             NEW u \in Procs, NEW r \in Procs, InQueue(u, r)'
      PROVE  InQueue(u, r) \/ (u = p /\ r = q)
  <2>1. lkq[q] \in Seq(Procs) /\ (r # q => lkq'[r] = lkq[r]) /\ lkq'[q] = Append(lkq[q], p)
    BY <1>1, <1>2 DEF LockTypes
  <2>2. PICK i \in DOMAIN lkq'[r] : lkq'[r][i] = u
    BY <1>2 DEF InQueue
  <2>3. CASE r # q
    BY <2>1, <2>2, <2>3 DEF InQueue
  <2>4. CASE r = q
    <3>1. i \in 1 .. Len(lkq[q]) + 1 /\ lkq'[q][i] = IF i <= Len(lkq[q]) THEN lkq[q][i] ELSE p
      BY <2>1, <2>2, <2>4
    <3>2. i <= Len(lkq[q]) => i \in DOMAIN lkq[q]
      BY <2>1, <3>1
    <3> QED  BY <2>2, <2>4, <3>1, <3>2 DEF InQueue
  <2> QED  BY <2>3, <2>4
<1>3. ASSUME NEW q \in Procs, lock_release(q), NEW u \in Procs, NEW r \in Procs, InQueue(u, r)'
      PROVE  InQueue(u, r)
  <2>1. /\ lkq[q] \in Seq(Procs) /\ (r # q => lkq'[r] = lkq[r])
        /\ lkq'[q] = IF lkq[q] = <<>> THEN lkq[q] ELSE Tail(lkq[q])
    BY <1>1, <1>3 DEF LockTypes, lock_release
  <2>2. PICK i \in DOMAIN lkq'[r] : lkq'[r][i] = u
    BY <1>3 DEF InQueue
  <2>3. CASE r # q \/ lkq[q] = <<>>
    BY <2>1, <2>2, <2>3 DEF InQueue
  <2>4. CASE r = q /\ lkq[q] # <<>>
    <3>1. lkq'[q] = Tail(lkq[q]) /\ i \in 1 .. Len(lkq[q]) - 1 /\ Tail(lkq[q])[i] = lkq[q][i + 1]
      <4>1. lkq[q] \in Seq(Procs) /\ lkq[q] # <<>>
        BY <2>1, <2>4
      <4>2. /\ DOMAIN Tail(lkq[q]) = 1 .. Len(lkq[q]) - 1
            /\ \A j \in 1 .. Len(lkq[q]) - 1 : Tail(lkq[q])[j] = lkq[q][j + 1]
        BY <4>1
      <4> QED  BY <2>1, <2>2, <2>4, <4>2
    <3>2. i + 1 \in DOMAIN lkq[q]
      BY <2>1, <3>1
    <3> QED  BY <2>2, <2>4, <3>1, <3>2 DEF InQueue
  <2> QED  BY <2>3, <2>4
<1>4. \/ UNCHANGED lkq
      \/ lock_release(p)
      \/ pc[p] \in PtrLabels /\ lock_release(ptr[p])
      \/ /\ pc[p] \in Own /\ UNCHANGED <<pc, ptr>>
         /\ lkq' = [lkq EXCEPT ![p] = Append(@, p)]
      \/ /\ pc[p] \in {"ex_plock", "wp_clock"} /\ UNCHANGED <<pc, ptr>> /\ ptr[p] \in alive
         /\ lkq' = [lkq EXCEPT ![ptr[p]] = Append(@, p)]
  BY DEF Step, Call, runprogram, runprogram_fails, fork, fork_lock, fork_pid, fork_copy,
     fork_put, fork_thread, _exit, exit_lock, exit_find, exit_read, exit_rem,
     exit_plock, exit_post, exit_punlock, exit_signal, exit_remove, exit_unlock,
     exit_destroy, waitpid, waitpid_lock, waitpid_find, waitpid_read, waitpid_exists,
     waitpid_exited, waitpid_clock, waitpid_child, waitpid_loop, waitpid_again,
     cv_wait, cv_wait_relock, waitpid_get, waitpid_return, At, Panic, PtrLabels, locks,
     locals, lock_acquire
<1>5. pc[p] \in PtrLabels \/ ptr[p] \in alive => ptr[p] \in Procs
  BY <1>1 DEF BaseInv, ArgInv, TableTypes
<1>6. ASSUME NEW u \in Procs, NEW q \in Procs, InQueue(u, q)'
      PROVE  \/ u = q /\ pc'[u] \in Own
             \/ q = ptr'[u] /\ pc'[u] \in {"ex_plock", "wp_clock"}
  <2>1. \/ InQueue(u, q)
        \/ /\ u = p /\ UNCHANGED <<pc, ptr>>
           /\ (q = p /\ pc[p] \in Own) \/ (q = ptr[p] /\ pc[p] \in {"ex_plock", "wp_clock"})
    <3>1. CASE UNCHANGED lkq
      BY <1>6, <3>1 DEF InQueue
    <3>2. CASE lock_release(p) \/ (pc[p] \in PtrLabels /\ lock_release(ptr[p]))
      BY <1>3, <1>5, <1>6, <3>2
    <3> QED  BY <1>2, <1>4, <1>5, <1>6, <3>1, <3>2
  <2>2. CASE InQueue(u, q)
    <3>1. u # p
      BY <2>2, Moves DEF AsleepOnLock
    <3> QED  BY <1>1, <2>2, <3>1, Frame DEF QueueInv
  <2> QED  BY <2>1, <2>2
<1> QED  BY <1>6 DEF QueueInv

(* The parts of DiscInv that the lemmas below use.                         *)
LEMMA DiscParts ==
    ASSUME DiscInv
    PROVE  /\ BaseInv /\ TableTypes /\ LockTypes /\ LocalTypes /\ ArgInv /\ ForkInv /\ PidInv
           /\ HoldInv /\ CodesInv /\ ParentInv /\ TableInv
           /\ next_pid \in Int /\ MaxPid \in Int /\ PidMin .. MaxPid \subseteq Procs
           /\ Procs \subseteq Nat /\ NoProc \notin Procs
<1>1. next_pid \in Int /\ MaxPid \in Int
  BY ProcTableAssumption DEF DiscInv, ExitInv, BaseInv, TypeInv, TableTypes, PidMin
<1> QED  BY <1>1, ProcFacts DEF DiscInv, ExitInv, BaseInv, TypeInv

(* A process that has started has a pid that was given out.                *)
LEMMA HasPid ==
    ASSUME DiscInv, NEW w \in Procs, pc[w] # "none"
    PROVE  w < next_pid
  BY DiscParts DEF PidInv

(* Every step keeps UnbornInv.                                             *)
LEMMA UnbornStep ==
    ASSUME WellBehaved, DiscInv, NEW p \in Procs, Step(p) \/ Call(p)
    PROVE  UnbornInv'
<1> SUFFICES ASSUME NEW w \in PidMin .. MaxPid, w < next_pid', pc'[w] = "none"
             PROVE  /\ ppid'[w] \in Procs /\ ptr'[ppid'[w]] = w
                    /\ pc'[ppid'[w]] \in {"fk_copy", "fk_put", "fk_thread"}
  BY DEF UnbornInv
<1>1. BaseInv /\ LocalTypes /\ TableTypes /\ w \in Procs /\ next_pid \in Int /\ w \in Nat
  BY DiscParts
<1>2. w # p /\ pc[w] = "none"
  BY <1>1, ExitingEdges, Started
<1>3. CASE w < next_pid
  <2>1. /\ ppid[w] \in Procs /\ ptr[ppid[w]] = w
        /\ pc[ppid[w]] \in {"fk_copy", "fk_put", "fk_thread"}
    BY <1>2, <1>3 DEF DiscInv, UnbornInv
  <2>2. ppid'[w] = ppid[w]
    BY <1>1, <1>3, Started
  <2>3. CASE ppid[w] # p
    BY <1>1, <2>1, <2>2, <2>3, Frame
  <2>4. CASE ppid[w] = p
    <3>1. fork_copy(p) \/ fork_put(p) \/ fork_thread(p)
      BY <2>1, <2>4 DEF Step, Call, runprogram, runprogram_fails, fork, fork_lock, fork_pid, fork_copy,
     fork_put, fork_thread, _exit, exit_lock, exit_find, exit_read, exit_rem,
     exit_plock, exit_post, exit_punlock, exit_signal, exit_remove, exit_unlock,
     exit_destroy, waitpid, waitpid_lock, waitpid_find, waitpid_read, waitpid_exists,
     waitpid_exited, waitpid_clock, waitpid_child, waitpid_loop, waitpid_again,
     cv_wait, cv_wait_relock, waitpid_get, waitpid_return, At
    <3>2. CASE fork_copy(p) \/ fork_put(p)
      BY <1>1, <2>1, <2>2, <2>4, <3>2 DEF fork_copy, fork_put, Goto, locals, LocalTypes,
         WellBehaved
    <3>3. CASE fork_thread(p)
      <4>1. pc' = [pc EXCEPT ![p] = "user", ![w] = "user"]
        BY <2>1, <2>4, <3>3 DEF fork_thread, WellBehaved
      <4> QED  BY <1>1, <4>1 DEF LocalTypes
    <3> QED  BY <3>1, <3>2, <3>3
  <2> QED  BY <2>3, <2>4
<1>4. CASE ~(w < next_pid)
  <2>1. fork_pid(p) /\ w = next_pid
    BY <1>1, <1>4, Changes DEF fork_pid
  <2>2. ppid'[w] = p /\ ptr'[p] = w /\ pc'[p] = "fk_copy"
    BY <1>1, <2>1 DEF fork_pid, Goto, LocalTypes, TableTypes
  <2> QED  BY <2>2
<1> QED  BY <1>3, <1>4

(* Every step keeps FamilyInv.                                             *)
LEMMA FamilyStep ==
    ASSUME WellBehaved, DiscInv, NEW p \in Procs, Step(p) \/ Call(p)
    PROVE  FamilyInv'
<1>1. BaseInv /\ LocalTypes /\ TableTypes /\ FamilyInv /\ next_pid \in Int /\ 0 \in Procs
  BY DiscParts, ProcFacts DEF DiscInv
<1>2. ppid'[0] = NoProc
  <2>1. pc[0] # "none" \/ 0 < next_pid
    BY <1>1, ProcTableAssumption DEF TableTypes, PidMin
  <2> QED  BY <1>1, <2>1, Started DEF FamilyInv
<1>3. ASSUME NEW w \in PidMin .. MaxPid, w < next_pid'
      PROVE  /\ ppid'[w] \in Procs /\ pc'[ppid'[w]] # "none"
             /\ pc'[w] \notin {"none", "gone"} => pc'[ppid'[w]] \notin Exiting
  <2>1. w \in Procs /\ w \in Nat
    BY DiscParts
  <2>2. CASE w < next_pid
    <3>1. /\ ppid'[w] = ppid[w] /\ ppid[w] \in Procs /\ pc[ppid[w]] # "none"
          /\ pc[w] \notin {"none", "gone"} => pc[ppid[w]] \notin Exiting
      BY <1>1, <2>1, <2>2, Started DEF FamilyInv
    <3>2. pc'[ppid[w]] # "none"
      BY <1>1, <3>1, Started
    <3>3. ASSUME pc'[w] \notin {"none", "gone"} PROVE pc'[ppid[w]] \notin Exiting
      <4>1. CASE fork_thread(p) /\ w = ptr[p]
        <5>1. ppid[w] = p
          BY <4>1, DiscParts DEF ForkInv, fork_thread, At
        <5> QED  BY <1>1, <4>1, <5>1, TwoMoves DEF Exiting, ExitLabels
      <4>2. CASE ~(fork_thread(p) /\ w = ptr[p])
        <5>1. pc[w] \notin {"none", "gone"}
          BY <1>1, <2>1, <3>3, <4>2, Frame, Moves
        <5>2. pc[ppid[w]] \notin Exiting
          BY <3>1, <5>1
        <5>3. ppid[w] = p => ~\E code \in ExitArgs : _exit(p, code)
          <6>1. ppid[w] = p => w \in Children(p)
            BY <1>3, <2>1, <2>2 DEF Children, PidMin
          <6> QED  BY <5>1, <6>1 DEF _exit, WellBehaved
        <5>4. CASE ppid[w] = p
          BY <1>1, <5>2, <5>3, <5>4, ExitingEdges
        <5>5. CASE ppid[w] # p
          BY <1>1, <3>1, <5>2, <5>5, Frame DEF Exiting, ExitLabels
        <5> QED  BY <5>4, <5>5
      <4> QED  BY <4>1, <4>2
    <3> QED  BY <3>1, <3>2, <3>3
  <2>3. CASE ~(w < next_pid)
    <3>1. fork_pid(p) /\ w = next_pid
      BY <1>1, <1>3, <2>1, <2>3, Changes DEF fork_pid
    <3>2. ppid'[w] = p /\ pc'[p] = "fk_copy"
      BY <1>1, <2>1, <3>1 DEF fork_pid, Goto, LocalTypes, TableTypes
    <3> QED  BY <3>2 DEF Exiting, ExitLabels
  <2> QED  BY <2>2, <2>3
<1> QED  BY <1>2, <1>3 DEF FamilyInv

(* When put_proc_on_proctable finds no slot every pid has been given out.  *)
LEMMA FullTable ==
    ASSUME WellBehaved, DiscInv, NEW p \in Procs, pc[p] = "fk_put",
           \A i \in Slots : proc_array[i] # NoProc
    PROVE  next_pid = MaxPid + 1
<1> DEFINE Given == PidMin .. next_pid - 1
           All == Given \cup {0}
           Others == All \ {ptr[p]}
<1>1. /\ next_pid \in PidMin .. MaxPid + 1 /\ next_pid \in Int /\ MaxPid \in Nat /\ ProcMax \in Nat \ {0}
      /\ ptr[p] \in PidMin .. next_pid - 1
  BY DiscParts, ProcTableAssumption DEF TableTypes, ForkInv, PidMin
<1>2. proc_array \in Injection(Slots, Others)
  <2>1. \A i \in Slots : proc_array[i] \in Procs /\ proc_array[i] < next_pid /\ proc_array[i] # ptr[p]
    BY DiscParts DEF TableInv, ListedInv, TableTypes
  <2>2. \A i \in Slots : proc_array[i] \in Others
    BY <1>1, <2>1 DEF Procs, PidMin
  <2>3. \A i, j \in Slots : proc_array[i] = proc_array[j] => i = j
    BY DiscParts DEF TableInv, TableSound
  <2>4. proc_array \in [Slots -> Others]
    BY <2>2, DiscParts DEF TableTypes
  <2> QED  BY <2>3, <2>4 DEF Injection, IsInjective
<1>3. IsFiniteSet(Given) /\ Cardinality(Given) = next_pid - PidMin
  BY <1>1, FS_Interval DEF PidMin
<1>4. IsFiniteSet(All) /\ Cardinality(All) = next_pid - PidMin + 1
  <2>1. 0 \notin Given
    BY <1>1 DEF PidMin
  <2> HIDE DEF Given
  <2> QED  BY <1>3, <2>1, FS_AddElement
<1>5. IsFiniteSet(Others) /\ Cardinality(Others) = next_pid - PidMin
  <2>1. ptr[p] \in All
    BY <1>1
  <2>2. IsFiniteSet(All \ {ptr[p]}) /\ Cardinality(All \ {ptr[p]}) = Cardinality(All) - 1
    <3>1. IsFiniteSet(All)
      BY <1>4
    <3> HIDE DEF All
    <3> QED  BY <2>1, <3>1, FS_RemoveElement
  <2> HIDE DEF All
  <2> QED  BY <1>1, <1>4, <2>2 DEF PidMin
<1>6. Cardinality(Slots) = ProcMax
  BY <1>1, FS_Interval DEF Slots
<1>7. ProcMax <= next_pid - PidMin
  BY <1>2, <1>5, <1>6, FS_Injection
<1> QED  BY <1>1, <1>7 DEF WellBehaved, CodesFit, PidMin

(* Every step keeps RoomInv.                                               *)
LEMMA RoomStep ==
    ASSUME WellBehaved, DiscInv, NEW p \in Procs, Step(p) \/ Call(p)
    PROVE  RoomInv'
<1> DEFINE Put(q) == pc[q] # "none" \/ \E u \in Procs : pc[u] = "fk_thread" /\ ptr[u] = q
<1> SUFFICES ASSUME NEW q \in Procs, pc'[q] \notin RemovedLabels, Put(q)'
             PROVE  /\ InTable(q)' \/ next_pid' = MaxPid + 1
                    /\ (\E w \in PidMin .. MaxPid : w < next_pid' /\ ppid'[w] = q) => InTable(q)'
  BY DEF RoomInv, InTable
<1>1. /\ BaseInv /\ LocalTypes /\ TableTypes /\ ForkInv /\ RoomInv /\ TableTypes'
      /\ next_pid \in Int /\ MaxPid \in Int
  BY DiscParts, TableTypesStep DEF DiscInv
<1>2. pc[q] \notin RemovedLabels
  BY <1>1, PostedStays
<1>3. InTable(q) => InTable(q)'
  <2> SUFFICES ASSUME NEW i \in Slots, proc_array[i] = q PROVE proc_array'[i] = q
    BY DEF InTable
  <2>1. q # NoProc
    BY ProcFacts
  <2> QED  BY <1>1, <2>1, SlotStays
<1>4. next_pid = MaxPid + 1 => next_pid' = MaxPid + 1
  <2>1. next_pid' \in PidMin .. MaxPid + 1 /\ (next_pid' = next_pid \/ next_pid' = next_pid + 1)
    BY <1>1, Changes DEF fork_pid, TableTypes
  <2> QED  BY <1>1, <2>1, ProcTableAssumption DEF PidMin
<1>5. CASE Put(q)
  <2>1. /\ InTable(q) \/ next_pid = MaxPid + 1
        /\ (\E w \in PidMin .. MaxPid : w < next_pid /\ ppid[w] = q) => InTable(q)
    BY <1>1, <1>2, <1>5 DEF RoomInv
  <2>2. ASSUME NEW w \in PidMin .. MaxPid, w < next_pid', ppid'[w] = q PROVE InTable(q)
    <3>1. w \in Procs /\ w \in Nat
      BY DiscParts
    <3>2. CASE w < next_pid
      BY <1>1, <2>1, <2>2, <3>1, <3>2, Started
    <3>3. CASE ~(w < next_pid)
      <4>1. fork_pid(p) /\ w = next_pid
        BY <1>1, <2>2, <3>1, <3>3, Changes DEF fork_pid
      <4>2. q = p /\ next_pid \in PidMin .. MaxPid
        BY <1>1, <2>2, <3>1, <4>1, NextPid DEF fork_pid, TableTypes, At
      <4>3. next_pid # MaxPid + 1
        BY <1>1, <4>2, ProcTableAssumption DEF PidMin
      <4> QED  BY <2>1, <4>3
    <3> QED  BY <3>2, <3>3
  <2> QED  BY <1>3, <1>4, <2>1, <2>2
<1>6. CASE ~Put(q)
  <2>1. pc[q] = "none" /\ q # p
    BY <1>6, Moves
  <2>2. pc'[q] = "none"
    BY <1>1, <1>6, <2>1, Frame DEF fork_thread, At
  <2>3. PICK u \in Procs : pc'[u] = "fk_thread" /\ ptr'[u] = q
    BY <2>2
  <2>4. u = p
    BY <1>1, <1>6, <2>3, Frame
  <2>5. fork_put(p) /\ ptr[p] = q
    BY <1>1, <2>3, <2>4, ForkEdges DEF fork_put, locals
  <2>6. InTable(q)' \/ next_pid' = MaxPid + 1
    <3>1. pc[p] = "fk_put" /\ put_proc_on_proctable(q) /\ next_pid' = next_pid
      BY <2>5 DEF fork_put, At
    <3>2. CASE \A i \in Slots : proc_array[i] # NoProc
      BY <3>1, <3>2, FullTable
    <3>3. CASE \E i \in Slots : proc_array[i] = NoProc
      <4>1. PICK i \in Slots : proc_array' = [proc_array EXCEPT ![i] = q]
        BY <1>1, <3>1, <3>3, PutFacts
      <4> QED  BY <1>1, <4>1 DEF InTable, TableTypes
    <3> QED  BY <3>2, <3>3
  <2>7. ASSUME NEW w \in PidMin .. MaxPid, w < next_pid', ppid'[w] = q PROVE FALSE
    <3>1. w \in Procs /\ w < next_pid /\ ppid[w] = q
      BY <2>5, <2>7, DiscParts DEF fork_put
    <3> QED  BY <2>1, <3>1 DEF DiscInv, FamilyInv
  <2> QED  BY <2>6, <2>7
<1> QED  BY <1>5, <1>6

(* Every step keeps FoundInv.                                              *)
LEMMA FoundStep ==
    ASSUME WellBehaved, DiscInv, NEW p \in Procs, Step(p) \/ Call(p)
    PROVE  FoundInv'
<1> SUFFICES ASSUME NEW w \in PidMin .. MaxPid
             PROVE  /\ pc'[w] = "ex_read" => ptr'[w] # NoProc
                    /\ pc'[w] = "ex_rem" => ptr'[w] = ppid'[w]
  BY DEF FoundInv
<1>1. /\ BaseInv /\ LocalTypes /\ TableTypes /\ ParentInv /\ FamilyInv /\ RoomInv /\ FoundInv
      /\ w \in Procs
  BY DiscParts DEF DiscInv
<1>2. CASE w # p
  BY <1>1, <1>2, Frame, PostedStays DEF FoundInv
<1>3. CASE w = p /\ exit_find(p)
  <2>1. pc[p] = "ex_find" /\ pc'[p] = "ex_read" /\ ptr'[p] = find_slot(ppid[p])
    BY <1>1, <1>3 DEF exit_find, At, Goto, LocalTypes
  <2>2. p < next_pid
    BY <2>1, HasPid
  <2>3. ppid[p] \in Procs /\ pc[ppid[p]] \notin Exiting \cup {"none"}
    BY <1>1, <1>3, <2>1, <2>2 DEF FamilyInv
  <2>4. InTable(ppid[p])
    BY <1>1, <1>3, <2>2, <2>3 DEF RoomInv, RemovedLabels, Exiting, ExitLabels
  <2>5. find_slot(ppid[p]) # NoProc
    BY <2>3, <2>4, FoundSlot, ProcFacts DEF InTable
  <2> QED  BY <1>3, <2>1, <2>5
<1>4. CASE w = p /\ exit_read(p)
  <2>1. pc[p] = "ex_read" /\ pc'[p] = "ex_rem" /\ ptr'[p] = ReadSlot(ptr[p])
    BY <1>1, <1>4 DEF exit_read, At, Goto, LocalTypes
  <2>2. ptr[p] # NoProc /\ ptr'[p] = proc_array[ptr[p]]
    BY <1>1, <1>4, <2>1 DEF FoundInv, ReadSlot
  <2>3. ppid[p] \in Procs /\ pc[ppid[p]] \notin Exiting \cup {"none"}
    BY <1>1, <1>4, <2>1, HasPid DEF FamilyInv
  <2>4. ptr'[p] = ppid[p]
    BY <1>1, <2>1, <2>2, <2>3 DEF ParentInv, RemovedLabels, Exiting, ExitLabels
  <2>5. ppid'[p] = ppid[p]
    BY <1>1, <2>1, Started
  <2> QED  BY <1>4, <2>1, <2>4, <2>5
<1> QED  BY <1>1, <1>2, <1>3, <1>4, ExitEdges

(* A process that posts its code is not the first one and finds room.      *)
LEMMA PostSucceeds ==
    ASSUME WellBehaved, DiscInv, NEW p \in Procs, exit_post(p)
    PROVE  p \in PidMin .. MaxPid /\ is_proc_exited(p)'
<1>1. /\ BaseInv /\ TableTypes /\ ArgInv /\ ParentInv /\ CodesInv /\ FamilyInv /\ KeptInv
      /\ pc[p] = "ex_post"
  BY DiscParts DEF DiscInv, exit_post, At
<1>2. ppid[p] # NoProc
  BY <1>1, ProcFacts DEF ArgInv, ParentInv, PtrLabels
<1>3. p \in PidMin .. MaxPid
  BY <1>1, <1>2, ProcFacts DEF FamilyInv
<1> DEFINE Pids == PidMin .. MaxPid
           Others == Pids \ {p}
           f == [c \in active_exit_codes |-> c.pid]
<1>4. f \in Injection(active_exit_codes, Others)
  <2>1. \A c \in active_exit_codes : c.pid \in Procs /\ c.pid # 0 /\ c.pid # p
    BY <1>1 DEF TableTypes, CodeSet, KeptInv, CodesInv, PostedLabels
  <2>2. \A c \in active_exit_codes : c.pid \in Others
    BY <2>1, ProcFacts
  <2>3. \A c, d \in active_exit_codes : c.pid = d.pid => c = d
    BY <1>1 DEF CodesInv
  <2> QED  BY <2>2, <2>3 DEF Injection, IsInjective
<1>5. MaxPid \in Int /\ ProcMax \in Int /\ PidMin \in Int /\ PidMin <= MaxPid
  BY ProcTableAssumption DEF PidMin
<1>6. IsFiniteSet(Pids) /\ Cardinality(Pids) = MaxPid - PidMin + 1
  BY <1>5, FS_Interval
<1>7. IsFiniteSet(Others) /\ Cardinality(Others) = Cardinality(Pids) - 1
  <2>1. p \in Pids /\ IsFiniteSet(Pids)
    BY <1>3, <1>6
  <2> HIDE DEF Pids
  <2> QED  BY <2>1, FS_RemoveElement
<1>8. IsFiniteSet(active_exit_codes) /\ Cardinality(active_exit_codes) <= Cardinality(Others)
  <2> HIDE DEF f, Others
  <2> QED  BY <1>4, <1>7, FS_Injection
<1>9. Cardinality(active_exit_codes) \in Nat
  BY <1>8, FS_CardinalityType
<1>10. Cardinality(active_exit_codes) < ProcMax
  <2>1. MaxPid - PidMin < ProcMax
    BY DEF WellBehaved, CodesFit
  <2>2. Cardinality(Others) = MaxPid - PidMin
    <3> HIDE DEF Others, Pids
    <3> QED  BY <1>5, <1>6, <1>7
  <2> HIDE DEF Others
  <2> QED  BY <1>5, <1>8, <1>9, <2>1, <2>2
<1>11. post_exit_code(_MKWAIT_EXIT(excode[p]), ppid[p], p)
  BY DEF exit_post
<1>12. ~(Cardinality(active_exit_codes) >= ProcMax)
  BY <1>5, <1>9, <1>10
<1>13. [ppid |-> ppid[p], pid |-> p, exit_code |-> _MKWAIT_EXIT(excode[p])] \in active_exit_codes'
  BY <1>11, <1>12 DEF post_exit_code, WellBehaved
<1> QED  BY <1>3, <1>13 DEF is_proc_exited

(* How a process comes to wait, and what it remembers of its waits.        *)
LEMMA WaiterEdges ==
    ASSUME WellBehaved, BaseInv, NEW p \in Procs, Step(p) \/ Call(p)
    PROVE  /\ waited[p] \subseteq waited'[p]
           /\ pc'[p] \in WaitLabels =>
                 \/ \E pid \in PidMin .. MaxPid : waitpid(p, pid) /\ arg'[p] = pid
                                                  /\ waited'[p] = waited[p] \cup {pid}
                 \/ pc[p] \in WaitLabels \ {"wp_return"} /\ arg'[p] = arg[p] /\ waited'[p] = waited[p]
           /\ pc'[p] = "wp_read" => waitpid_find(p)
           /\ pc'[p] = "wp_exited" => waitpid_read(p) \/ waitpid_exists(p)
           /\ pc'[p] = "wp_clock" => waitpid_exited(p) \/ pc[p] = "wp_clock"
           /\ pc'[p] = "wp_child" => pc[p] = "wp_clock"
           /\ pc'[p] \in {"wp_clock", "wp_child"} => ptr'[p] = ptr[p]
<1>1. LocalTypes
  BY DEF BaseInv, TypeInv
<1> DEFINE Wp == \/ waitpid_lock(p) \/ waitpid_find(p) \/ waitpid_read(p) \/ waitpid_exists(p)
                 \/ waitpid_exited(p) \/ waitpid_clock(p) \/ waitpid_child(p) \/ waitpid_loop(p)
                 \/ waitpid_again(p) \/ cv_wait(p) \/ cv_wait_relock(p) \/ waitpid_get(p)
<1>2. CASE Wp
  <2>1. /\ UNCHANGED <<arg, waited>> /\ pc[p] \in WaitLabels \ {"wp_return"}
        /\ UNCHANGED pc \/ \E l \in Labels : pc' = [pc EXCEPT ![p] = l]
    BY <1>2 DEF waitpid_lock, waitpid_find, waitpid_read, waitpid_exists, waitpid_exited,
       waitpid_clock, waitpid_child, waitpid_loop, waitpid_again, cv_wait, cv_wait_relock,
       waitpid_get, At, Goto, locals, lock_acquire, Panic, WaitLabels, Labels
  <2>2. /\ pc'[p] = "wp_read" => waitpid_find(p)
        /\ pc'[p] = "wp_exited" => waitpid_read(p) \/ waitpid_exists(p)
        /\ pc'[p] = "wp_clock" => waitpid_exited(p) \/ pc[p] = "wp_clock"
        /\ pc'[p] = "wp_child" => pc[p] = "wp_clock"
        /\ pc'[p] \in {"wp_clock", "wp_child"} => ptr'[p] = ptr[p]
    BY <1>1, <1>2 DEF waitpid_lock, waitpid_find, waitpid_read, waitpid_exists, waitpid_exited,
       waitpid_clock, waitpid_child, waitpid_loop, waitpid_again, cv_wait, cv_wait_relock,
       waitpid_get, At, Goto, locals, lock_acquire, Panic, LocalTypes
  <2> QED  BY <2>1, <2>2
<1>3. ASSUME NEW pid \in PidMin .. MaxPid, waitpid(p, pid)
      PROVE  /\ pc'[p] = "wp_lock" /\ arg'[p] = pid /\ waited'[p] = waited[p] \cup {pid}
  BY <1>1, <1>3 DEF waitpid, Goto, LocalTypes, WellBehaved
<1>4. CASE \E pid \in PidMin .. MaxPid : waitpid(p, pid)
  BY <1>3, <1>4
<1>5. CASE ~Wp /\ ~\E pid \in PidMin .. MaxPid : waitpid(p, pid)
  <2>1. UNCHANGED waited
    BY <1>5 DEF Step, Call, runprogram, runprogram_fails, fork, fork_lock, fork_pid, fork_copy,
     fork_put, fork_thread, _exit, exit_lock, exit_find, exit_read, exit_rem,
     exit_plock, exit_post, exit_punlock, exit_signal, exit_remove, exit_unlock,
     exit_destroy, waitpid, waitpid_lock, waitpid_find, waitpid_read, waitpid_exists,
     waitpid_exited, waitpid_clock, waitpid_child, waitpid_loop, waitpid_again,
     cv_wait, cv_wait_relock, waitpid_get, waitpid_return, Panic, Forget, locals
  <2>2. CASE fork_thread(p) \/ exit_signal(p)
    BY <1>1, <2>1, <2>2, TwoMoves DEF WaitLabels
  <2>3. \/ UNCHANGED pc /\ pc[p] \notin WaitLabels
        \/ (\E l \in Labels : pc' = [pc EXCEPT ![p] = l] /\ l \notin WaitLabels)
        \/ fork_thread(p) \/ exit_signal(p)
    BY <1>5 DEF Step, Call, runprogram, runprogram_fails, fork, fork_lock, fork_pid, fork_copy,
     fork_put, fork_thread, _exit, exit_lock, exit_find, exit_read, exit_rem,
     exit_plock, exit_post, exit_punlock, exit_signal, exit_remove, exit_unlock,
     exit_destroy, waitpid, waitpid_lock, waitpid_find, waitpid_read, waitpid_exists,
     waitpid_exited, waitpid_clock, waitpid_child, waitpid_loop, waitpid_again,
     cv_wait, cv_wait_relock, waitpid_get, waitpid_return, At, Goto, lock_acquire,
     Panic, Labels, ForkLabels, ExitLabels, WaitLabels
  <2>4. CASE ~fork_thread(p) /\ ~exit_signal(p)
    <3>1. pc'[p] \notin WaitLabels
      BY <1>1, <2>3, <2>4 DEF LocalTypes
    <3> QED  BY <2>1, <3>1 DEF WaitLabels
  <2> QED  BY <2>2, <2>4
<1> QED  BY <1>2, <1>4, <1>5

(* Every step keeps KeptInv.                                               *)
LEMMA KeptStep ==
    ASSUME WellBehaved, DiscInv, NEW p \in Procs, Step(p) \/ Call(p)
    PROVE  KeptInv'
<1>1. /\ BaseInv /\ LocalTypes /\ TableTypes /\ FamilyInv /\ FoundInv /\ KeptInv /\ CodesInv
      /\ WaiterInv
  BY DiscParts DEF DiscInv
<1>2. ASSUME NEW c \in active_exit_codes' PROVE c.pid # 0
  <2>1. pc[p] = "ex_post" => p # 0
    <3>1. pc[p] = "ex_post" => exit_post(p)
      BY <1>1, ExitEdges
    <3> QED  BY <3>1, PostSucceeds, ProcTableAssumption DEF PidMin
  <2> QED  BY <1>1, <1>2, <2>1, CodesChange DEF KeptInv
<1>3. ASSUME NEW w \in PidMin .. MaxPid, pc'[w] \in PostedLabels, Uncollected(w)'
      PROVE  is_proc_exited(w)'
  <2>1. w \in Procs /\ pc'[w] # "none"
    BY <1>3, DiscParts DEF PostedLabels
  <2>2. CASE pc[w] \in PostedLabels
    <3>1. PICK u \in Procs : u = ppid[w] /\ ppid'[w] = u
      <4>1. w < next_pid /\ ppid'[w] = ppid[w]
        BY <1>1, <2>1, <2>2, HasPid, Started DEF PostedLabels
      <4> QED  BY <1>1, <4>1 DEF FamilyInv
    <3>2. /\ pc'[u] \notin Exiting
          /\ w \notin waited'[u] \/ (arg'[u] = w /\ pc'[u] \in WaitLabels \ {"wp_return"})
      BY <1>3, <3>1 DEF Uncollected
    <3>3. pc[u] \notin Exiting
      BY <1>1, <3>2, Started
    <3>4. w \notin waited[u] \/ (arg[u] = w /\ pc[u] \in WaitLabels \ {"wp_return"})
      <4>1. CASE u # p
        BY <1>1, <3>2, <4>1, Frame DEF WaitLabels
      <4>2. CASE u = p
        <5>1. \A pid \in PidMin .. MaxPid : waitpid(p, pid) => pid \notin waited[p]
          BY DEF waitpid, WellBehaved
        <5> QED  BY <1>1, <3>2, <4>2, <5>1, WaiterEdges
      <4> QED  BY <4>1, <4>2
    <3>5. PICK c \in active_exit_codes : c.pid = w
      BY <1>1, <2>2, <3>1, <3>3, <3>4 DEF KeptInv, Uncollected, is_proc_exited
    <3>6. c.ppid = u
      BY <1>1, <3>1, <3>5 DEF CodesInv
    <3>7. c \in active_exit_codes'
      <4>1. CASE waitpid_get(p)
        <5>1. /\ pc[p] = "wp_get" /\ pc'[p] = "wp_return" /\ UNCHANGED waited
              /\ \A d \in active_exit_codes : d.pid # arg[p] \/ d.ppid # p => d \in active_exit_codes'
          BY <1>1, <4>1 DEF waitpid_get, get_exit_code, At, Goto, LocalTypes
        <5>2. arg[p] \in waited[p]
          BY <1>1, <5>1 DEF WaiterInv, WaitLabels
        <5> QED  BY <3>2, <3>5, <3>6, <5>1, <5>2
      <4>2. CASE exit_rem(p)
        <5>1. pc[p] = "ex_rem" /\ (c.ppid # p => c \in active_exit_codes')
          BY <4>2 DEF exit_rem, At, rem_all_exit_codes
        <5> QED  BY <3>3, <3>6, <5>1 DEF Exiting, ExitLabels
      <4>3. CASE exit_post(p)
        BY <4>3 DEF exit_post, post_exit_code
      <4> QED  BY <4>1, <4>2, <4>3, Changes
    <3> QED  BY <3>5, <3>7 DEF is_proc_exited
  <2>3. CASE pc[w] \notin PostedLabels
    <3>1. w = p
      BY <1>1, <1>3, <2>1, <2>3, Frame DEF PostedLabels
    <3>2. exit_rem(p) => ptr[p] # NoProc
      <4> SUFFICES ASSUME exit_rem(p) PROVE ptr[p] # NoProc
        OBVIOUS
      <4>1. pc[p] = "ex_rem"
        BY DEF exit_rem, At
      <4>2. p < next_pid
        BY <4>1, HasPid
      <4>3. ptr[p] = ppid[p] /\ ppid[p] \in Procs
        BY <1>1, <3>1, <4>1, <4>2 DEF FoundInv, FamilyInv
      <4> QED  BY <4>3, ProcFacts
    <3>3. exit_post(p)
      BY <1>1, <1>3, <2>3, <3>1, <3>2, ExitingEdges
    <3> QED  BY <3>1, <3>3, PostSucceeds
  <2> QED  BY <2>2, <2>3
<1> QED  BY <1>2, <1>3 DEF KeptInv

(* Every step keeps WaiterInv.                                             *)
LEMMA WaiterStep ==
    ASSUME WellBehaved, DiscInv, NEW p \in Procs, Step(p) \/ Call(p)
    PROVE  WaiterInv'
<1>1. /\ BaseInv /\ LocalTypes /\ TableTypes /\ ArgInv /\ HoldInv /\ CodesInv /\ ParentInv
      /\ FoundInv /\ FamilyInv /\ UnbornInv /\ KeptInv /\ WaiterInv
  BY DiscParts DEF DiscInv
<1>2. \A w \in Procs : pc[w] \in PostedLabels => pc'[w] \in PostedLabels
  BY <1>1, PostedStays
<1>3. ASSUME NEW u \in Procs, NEW w \in PidMin .. MaxPid, arg'[u] = w, pc'[u] \in WaitLabels
      PROVE  /\ ppid'[w] = u /\ pc'[w] # "none" /\ w \in waited'[u]
             /\ pc'[u] = "wp_read" /\ ptr'[u] # NoProc =>
                  proc_array'[ptr'[u]] = w \/ pc'[w] \in PostedLabels
             /\ pc'[u] = "wp_exited" => ptr'[u] = w \/ pc'[w] \in PostedLabels
             /\ pc'[u] \in {"wp_clock", "wp_child"} => ptr'[u] = w /\ pc'[w] \notin PostedLabels
  <2>1. w \in Procs
    BY DiscParts
  <2>2. ASSUME NEW q \in Procs, q = u, pc[q] \in WaitLabels, arg[q] = w
        PROVE  ppid[w] = q /\ pc[w] # "none" /\ w \in waited[q]
    BY <1>1, <2>2 DEF WaiterInv
  <2>3. ppid'[w] = u /\ pc'[w] # "none" /\ w \in waited'[u]
    <3>1. CASE u # p
      <4>1. pc[u] \in WaitLabels /\ arg[u] = w /\ waited'[u] = waited[u]
        BY <1>1, <1>3, <3>1, Frame DEF WaitLabels
      <4> QED  BY <1>1, <2>1, <2>2, <4>1, Started
    <3>2. CASE u = p /\ waitpid(p, w)
      <4>1. w \in Children(p) /\ pc[p] = "user" /\ w \in waited'[p]
        BY <1>1, <3>2 DEF waitpid, WellBehaved, At, LocalTypes
      <4>2. pc[w] # "none" /\ ppid[w] = p
        BY <1>1, <4>1 DEF Children, UnbornInv
      <4> QED  BY <1>1, <2>1, <3>2, <4>1, <4>2, Started
    <3>3. CASE u = p /\ pc[p] \in WaitLabels /\ arg[p] = w /\ waited'[p] = waited[p]
      BY <1>1, <2>1, <2>2, <3>3, Started
    <3> QED  BY <1>1, <1>3, <3>1, <3>2, <3>3, WaiterEdges
  <2>4. CASE u # p
    <3>1. /\ arg[u] = w /\ ptr'[u] = ptr[u]
          /\ pc'[u] = pc[u] \/ pc'[u] = "wp_relock"
      BY <1>1, <1>3, <2>4, Frame DEF WaitLabels
    <3>2. CASE pc[u] = "wp_read" /\ pc'[u] = "wp_read"
      <4>1. ptr[u] # NoProc => ptr[u] \in Slots /\ (proc_array[ptr[u]] = w \/ pc[w] \in PostedLabels)
        BY <1>1, <3>1, <3>2 DEF WaiterInv, ArgInv
      <4>2. w # NoProc
        BY <2>1, ProcFacts
      <4>3. \A i \in Slots : proc_array[i] = w => proc_array'[i] = w \/ pc'[w] \in PostedLabels
        BY <1>1, <4>2, SlotStays DEF RemovedLabels, PostedLabels
      <4> QED  BY <1>2, <2>1, <2>3, <3>1, <3>2, <4>1, <4>3
    <3>3. CASE pc[u] = "wp_exited" /\ pc'[u] = "wp_exited"
      BY <1>1, <1>2, <2>1, <2>3, <3>1, <3>3 DEF WaiterInv
    <3>4. CASE pc[u] \in {"wp_clock", "wp_child"} /\ pc'[u] = pc[u]
      <4>1. ptr[u] = w /\ pc[w] \notin PostedLabels /\ ppid[w] = u
        BY <1>1, <3>1, <3>4 DEF WaiterInv, WaitLabels
      <4>2. pc'[w] \notin PostedLabels
        <5>1. CASE w # p
          BY <1>1, <2>1, <4>1, <5>1, Frame DEF PostedLabels
        <5>2. CASE w = p
          <6>1. ~exit_post(p)
            <7> SUFFICES ASSUME exit_post(p) PROVE FALSE
              OBVIOUS
            <7>1. pc[p] = "ex_post" /\ pc[u] \notin RemovedLabels
              BY <3>4 DEF exit_post, At, RemovedLabels
            <7>2. ops_lock[u] = p
              BY <1>1, <4>1, <5>2, <7>1, PosterHolds
            <7> QED  BY <1>1, <2>4, <3>4, <7>2 DEF HoldInv, Holds, OwnLabels
          <6>2. exit_rem(p) => ptr[p] # NoProc
            <7> SUFFICES ASSUME exit_rem(p) PROVE ptr[p] # NoProc
              OBVIOUS
            <7>1. pc[p] = "ex_rem"
              BY DEF exit_rem, At
            <7> QED  BY <1>1, <4>1, <5>2, <7>1, ProcFacts DEF FoundInv
          <6> QED  BY <1>1, <4>1, <5>2, <6>1, <6>2, ExitingEdges
        <5> QED  BY <5>1, <5>2
      <4> QED  BY <2>3, <3>1, <3>4, <4>1, <4>2
    <3> QED  BY <2>3, <3>1, <3>2, <3>3, <3>4
  <2>5. CASE u = p
    <3>1. ASSUME pc'[p] = "wp_read", ptr'[p] # NoProc PROVE proc_array'[ptr'[p]] = w
      <4>1. waitpid_find(p)
        BY <1>1, <3>1, WaiterEdges
      <4>2. ptr'[p] = find_slot(w) /\ UNCHANGED proc_array
        BY <1>1, <1>3, <2>5, <4>1 DEF waitpid_find, LocalTypes, table
      <4> QED  BY <3>1, <4>2, FoundSlot
    <3>2. ASSUME pc'[p] = "wp_exited" PROVE ptr'[p] = w \/ pc'[w] \in PostedLabels
      <4>1. CASE waitpid_read(p)
        <5>1. /\ pc[p] = "wp_read" /\ arg[p] = w /\ ptr'[p] = ReadSlot(ptr[p])
              /\ ptr'[p] # NoProc
          BY <1>1, <1>3, <2>5, <3>2, <4>1 DEF waitpid_read, At, Goto, LocalTypes
        <5>2. ptr[p] # NoProc /\ ptr'[p] = proc_array[ptr[p]]
          BY <5>1 DEF ReadSlot
        <5> QED  BY <1>1, <1>2, <2>1, <5>1, <5>2 DEF WaiterInv
      <4>2. CASE waitpid_exists(p)
        <5>1. is_proc_exited(arg[p]) /\ arg[p] = w
          BY <1>1, <1>3, <2>5, <3>2, <4>2 DEF waitpid_exists, Goto, LocalTypes
        <5>2. pc[w] \in PostedLabels
          BY <1>1, <5>1 DEF CodesInv, is_proc_exited
        <5> QED  BY <1>2, <2>1, <5>2
      <4> QED  BY <1>1, <3>2, <4>1, <4>2, WaiterEdges
    <3>3. ASSUME pc'[p] \in {"wp_clock", "wp_child"}
          PROVE  ptr'[p] = w /\ pc'[w] \notin PostedLabels
      <4>1. ptr'[p] = ptr[p] /\ (waitpid_exited(p) \/ pc[p] = "wp_clock")
        BY <1>1, <3>3, WaiterEdges
      <4>2. arg[p] = w
        BY <1>1, <1>3, <2>5, <3>3, <4>1, WaiterEdges DEF waitpid, waitpid_exited, At
      <4>3. ptr[p] = w /\ pc[w] \notin PostedLabels
        <5>1. CASE waitpid_exited(p)
          <6>1. pc[p] = "wp_exited" /\ ~is_proc_exited(w)
            BY <1>1, <3>3, <4>2, <5>1 DEF waitpid_exited, At, Goto, LocalTypes
          <6>2. ppid[w] = p
            BY <1>1, <4>2, <6>1 DEF WaiterInv, WaitLabels
          <6>3. Uncollected(w)
            BY <4>2, <6>1, <6>2 DEF Uncollected, Exiting, ExitLabels, WaitLabels
          <6>4. pc[w] \notin PostedLabels
            BY <1>1, <6>1, <6>3 DEF KeptInv
          <6> QED  BY <1>1, <4>2, <6>1, <6>4 DEF WaiterInv
        <5>2. CASE pc[p] = "wp_clock"
          BY <1>1, <4>2, <5>2 DEF WaiterInv
        <5> QED  BY <4>1, <5>1, <5>2
      <4>4. pc'[w] \notin PostedLabels
        BY <1>1, <2>1, <3>3, <4>3, Frame DEF PostedLabels
      <4> QED  BY <4>1, <4>3, <4>4
    <3> QED  BY <2>3, <2>5, <3>1, <3>2, <3>3
  <2> QED  BY <2>4, <2>5
<1>4. \A u \in Procs : pc'[u] \in WaitLabels => arg'[u] \in PidMin .. MaxPid
  BY <1>1, ArgStep DEF ArgInv
<1> QED  BY <1>3, <1>4 DEF WaiterInv, WaitLabels

-----------------------------------------------------------------------------
(* An exiting child that has locked, or is about to lock, its parent has a *)
(* pointer to a parent that is not exiting.                                *)
LEMMA ExitPointer ==
    ASSUME DiscInv, NEW w \in Procs, pc[w] \in {"ex_plock", "ex_post", "ex_punlock", "ex_signal"}
    PROVE  ptr[w] \in Procs /\ pc[ptr[w]] \notin Exiting \cup {"none"}
<1>1. ArgInv /\ ParentInv /\ FamilyInv
  BY DiscParts DEF DiscInv
<1>2. ptr[w] \in Procs
  BY <1>1 DEF ArgInv, PtrLabels
<1>3. ppid[w] # NoProc /\ (ptr[w] = ppid[w] \/ pc[ppid[w]] \in RemovedLabels)
  BY <1>1, <1>2, ProcFacts DEF ParentInv
<1>4. w \in PidMin .. MaxPid /\ w < next_pid
  BY <1>1, <1>3, HasPid, ProcFacts DEF FamilyInv
<1>5. pc[ppid[w]] \notin Exiting \cup {"none"}
  BY <1>1, <1>4 DEF FamilyInv
<1> QED  BY <1>2, <1>3, <1>5 DEF RemovedLabels, Exiting, ExitLabels

(* No step stops the machine.                                              *)
LEMMA PanicStep ==
    ASSUME WellBehaved, DiscInv, NEW p \in Procs, Step(p) \/ Call(p)
    PROVE  panic' = FALSE
<1>1. /\ BaseInv /\ LockTypes /\ TableTypes /\ ArgInv /\ HoldInv /\ AliveInv /\ QueueInv
      /\ WaiterInv /\ panic = FALSE
  BY DiscParts DEF DiscInv
<1>2. \/ UNCHANGED panic
      \/ pc[p] \in {"ex_plock", "ex_signal", "wp_clock"} /\ ptr[p] \notin alive
      \/ pc[p] = "ex_destroy" /\ ~CanDestroy(p)
  BY DEF Step, Call, runprogram, runprogram_fails, fork, fork_lock, fork_pid, fork_copy,
     fork_put, fork_thread, _exit, exit_lock, exit_find, exit_read, exit_rem,
     exit_plock, exit_post, exit_punlock, exit_signal, exit_remove, exit_unlock,
     exit_destroy, waitpid, waitpid_lock, waitpid_find, waitpid_read, waitpid_exists,
     waitpid_exited, waitpid_clock, waitpid_child, waitpid_loop, waitpid_again,
     cv_wait, cv_wait_relock, waitpid_get, waitpid_return, At
<1>3. pc[p] \in {"ex_plock", "ex_signal"} => ptr[p] \in alive
  BY <1>1, ExitPointer DEF AliveInv, Exiting
<1>4. ASSUME NEW u \in Procs, pc[u] \in {"wp_clock", "wp_child"}
      PROVE  ptr[u] \in Procs /\ pc[ptr[u]] \notin PostedLabels \cup {"none"}
  <2>1. arg[u] \in Procs
    BY <1>1, <1>4, ProcFacts DEF ArgInv, WaitLabels
  <2> QED  BY <1>1, <1>4, <2>1 DEF WaiterInv, WaitLabels
<1>5. pc[p] = "wp_clock" => ptr[p] \in alive
  BY <1>1, <1>4 DEF AliveInv, PostedLabels
<1>6. ASSUME pc[p] = "ex_destroy" PROVE CanDestroy(p)
  <2>1. ASSUME NEW u \in Procs, ptr[u] = p,
               pc[u] \in {"ex_plock", "ex_post", "ex_punlock", "wp_clock", "wp_child"}
        PROVE  FALSE
    BY <1>4, <1>6, <2>1, ExitPointer DEF Exiting, ExitLabels, PostedLabels
  <2>2. ops_lock[p] = NoProc
    <3> SUFFICES ASSUME NEW u \in Procs, ops_lock[p] = u PROVE FALSE
      BY <1>1 DEF LockTypes
    <3>1. Holds(u, p)
      BY <1>1 DEF HoldInv
    <3> QED  BY <1>6, <2>1, <3>1 DEF Holds, OwnLabels, PtrLabels
  <2>3. lkq[p] = <<>>
    <3> SUFFICES ASSUME lkq[p] # <<>> PROVE FALSE
      OBVIOUS
    <3>1. lkq[p] \in Seq(Procs)
      BY <1>1 DEF LockTypes
    <3>2. 1 \in DOMAIN lkq[p] /\ lkq[p][1] \in Procs
      BY <3>1
    <3>3. PICK u \in Procs : InQueue(u, p)
      BY <3>2 DEF InQueue
    <3> QED  BY <1>1, <1>6, <2>1, <3>3 DEF QueueInv
  <2> QED  BY <2>2, <2>3 DEF CanDestroy
<1> QED  BY <1>1, <1>2, <1>3, <1>5, <1>6

(* DiscInv holds at the start.                                             *)
LEMMA DiscInit == ASSUME Init PROVE DiscInv
<1>1. ExitInv /\ TableInv
  BY ExitStart, TableStart
<1>2. /\ \A p \in Procs : pc[p] \in {"runprogram", "none"} /\ (pc[p] = "runprogram" => p = 0)
      /\ \A p, q \in Procs : ~InQueue(p, q)
      /\ next_pid = PidMin /\ active_exit_codes = {} /\ alive = {0} /\ panic = FALSE
      /\ ppid[0] = NoProc /\ 0 \in Slots /\ proc_array[0] = 0
  BY ProcFacts, ProcTableAssumption DEF Init, InQueue, Slots
<1>3. \A w \in PidMin .. MaxPid : ~(w < next_pid)
  BY <1>2, ProcTableAssumption DEF PidMin
<1>4. AliveInv /\ QueueInv /\ UnbornInv /\ FamilyInv /\ FoundInv
  BY <1>2, <1>3, ProcFacts DEF AliveInv, QueueInv, UnbornInv, FamilyInv, FoundInv
<1>5. RoomInv
  BY <1>2, <1>3 DEF RoomInv, InTable
<1>6. KeptInv /\ WaiterInv
  BY <1>2, ProcFacts DEF KeptInv, WaiterInv, PostedLabels, WaitLabels
<1> QED  BY <1>1, <1>2, <1>4, <1>5, <1>6 DEF DiscInv

(* Programs that wait for each of their own children at most once, and do  *)
(* not exit before them, never make the kernel read a freed process        *)
(* structure or fail a KASSERT of proc_destroy, when nothing fails.        *)
THEOREM DisciplinedIsSafe == ASSUME Disciplined, ~Failures PROVE Spec => []NoPanic
<1>1. CASE ~CodesFit
  <2>1. NoPanic
    BY <1>1 DEF NoPanic
  <2> QED  BY <2>1, PTL
<1>2. CASE CodesFit
  <2>1. WellBehaved
    BY <1>2 DEF WellBehaved
  <2>2. Init => DiscInv
    BY DiscInit
  <2>3. DiscInv /\ [Next]_vars => DiscInv'
    <3> SUFFICES ASSUME DiscInv, [Next]_vars PROVE DiscInv'
      OBVIOUS
    <3>1. ExitInv' /\ TableInv'
      BY ExitKept, TableKept, <2>1 DEF DiscInv, WellBehaved
    <3>2. ASSUME NEW p \in Procs, Step(p) \/ Call(p) PROVE DiscInv'
      BY <2>1, <3>1, <3>2, AliveStep, QueueStep, UnbornStep, FamilyStep, RoomStep, FoundStep,
         KeptStep, WaiterStep, PanicStep DEF DiscInv
    <3>3. CASE UNCHANGED vars
      <4>1. AliveInv' /\ QueueInv' /\ UnbornInv' /\ FamilyInv' /\ RoomInv'
        BY <3>3 DEF vars, table, locks, locals, DiscInv, AliveInv, QueueInv, InQueue, UnbornInv,
           FamilyInv, RoomInv, InTable
      <4>2. FoundInv' /\ KeptInv' /\ WaiterInv' /\ panic' = FALSE
        BY <3>3 DEF vars, table, locks, locals, DiscInv, FoundInv, KeptInv, Uncollected,
           is_proc_exited, WaiterInv
      <4> QED  BY <3>1, <4>1, <4>2 DEF DiscInv
    <3> QED  BY <3>2, <3>3 DEF Next
  <2>4. DiscInv => NoPanic
    BY DEF DiscInv, NoPanic
  <2> QED  BY <2>2, <2>3, <2>4, PTL DEF Spec
<1> QED  BY <1>1, <1>2
=============================================================================
