----------------------------- MODULE ProcProofs -----------------------------
(***************************************************************************)
(* Theorems about ProcTable for any number of processes, slots and exit    *)
(* codes, and for programs that make any calls in any order.               *)
(***************************************************************************)
EXTENDS ProcTable, FiniteSetTheorems, WellFoundedInduction, TLAPS

(* The labels at which a process holds its own ops_lock, and those at      *)
(* which it also holds the one of the process ptr points to.               *)
OwnLabels == {"fk_pid", "fk_copy", "ex_find", "ex_read", "ex_rem", "ex_plock", "ex_post",
              "ex_punlock", "ex_signal", "ex_remove", "ex_unlock", "wp_find", "wp_read",
              "wp_exists", "wp_exited", "wp_clock", "wp_child", "wp_loop", "wp_wait",
              "wp_get", "wp_return"}
PtrLabels == {"ex_post", "ex_punlock", "wp_child"}

Holds(p, q) == \/ q = p /\ pc[p] \in OwnLabels
               \/ q = ptr[p] /\ pc[p] \in PtrLabels

HoldInv == \A p, q \in Procs : ops_lock[q] = p <=> Holds(p, q)

(* What is known of the locals of a call at each label.                    *)
ArgInv == \A p \in Procs :
    /\ pc[p] \in ExitLabels => excode[p] \in ExitArgs
    /\ pc[p] \in WaitLabels => arg[p] \in PidMin .. MaxPid
    /\ pc[p] \in {"ex_read", "wp_read"} => ptr[p] \in Slots \cup {NoProc}
    /\ pc[p] = "ex_rem" => ptr[p] \in Procs \cup {NoProc}
    /\ pc[p] \in {"ex_plock", "ex_signal"} \cup PtrLabels => ptr[p] \in Procs
    /\ pc[p] \in PtrLabels => ptr[p] # p

(* A child that fork has not started is known to its parent only.          *)
ForkInv == \A p \in Procs : pc[p] \in {"fk_copy", "fk_put", "fk_thread"} =>
    /\ ptr[p] \in PidMin .. MaxPid /\ ptr[p] < next_pid
    /\ pc[ptr[p]] = "none" /\ ppid[ptr[p]] = p /\ ptr[p] \in alive

(* Every fork under way will find a pid, and pids not given out are unused.*)
Forking == {q \in Procs : pc[q] \in {"fk_lock", "fk_pid"}}

PidInv == /\ next_pid + Cardinality(Forking) <= MaxPid + 1
          /\ \A q \in Procs : q >= next_pid => pc[q] = "none"

(* The types again, the sets of records under a name.                      *)
CodeSet == [ppid : Procs \cup {NoProc}, pid : Procs, exit_code : Codes]
ResultSet == [pid : Procs \cup {NoProc}, err : Errs, status : Codes \cup {-1, NoStatus}]

TableTypes ==
    /\ next_pid \in PidMin .. MaxPid + 1
    /\ proc_array \in [Slots -> Procs \cup {NoProc}]
    /\ num_of_procs \in Int
    /\ active_exit_codes \subseteq CodeSet
    /\ ppid \in [Procs -> Procs \cup {NoProc}]
    /\ alive \subseteq Procs
    /\ panic \in BOOLEAN
LockTypes ==
    /\ ops_lock \in [Procs -> Procs \cup {NoProc}]
    /\ lkq \in [Procs -> Seq(Procs)]
LocalTypes ==
    /\ ptr \in [Procs -> Procs \cup Slots \cup {NoProc}]
    /\ arg \in [Procs -> Procs \cup {NoProc}]
    /\ excode \in [Procs -> ExitArgs \cup {0}]
    /\ result \in [Procs -> ResultSet]
    /\ waited \in [Procs -> SUBSET Procs]
    /\ pc \in [Procs -> Labels]
TypeInv == TableTypes /\ LockTypes /\ LocalTypes

BaseInv == TypeInv /\ ArgInv /\ ForkInv /\ PidInv /\ HoldInv

-----------------------------------------------------------------------------
(* TypeInv is TypeOK.                                                      *)
LEMMA SameTypes == TypeInv => TypeOK
  BY DEF TypeOK, TypeInv, TableTypes, LockTypes, LocalTypes, CodeSet, ResultSet

(* Pids, slots and NoProc.                                                 *)
LEMMA ProcFacts ==
    /\ NoProc \notin Procs /\ NoProc \notin Slots /\ 0 \in Procs
    /\ PidMin .. MaxPid \subseteq Procs /\ Procs \subseteq Nat /\ Slots \subseteq Nat
    /\ IsFiniteSet(Procs) /\ IsFiniteSet(Slots)
    /\ \A p \in Procs : p = 0 \/ p \in PidMin .. MaxPid
<1>1. PidMin \in Int /\ MaxPid \in Int /\ 0 \in Int /\ ProcMax - 1 \in Int
  BY ProcTableAssumption DEF PidMin
<1>2. IsFiniteSet(PidMin .. MaxPid) /\ IsFiniteSet(Slots)
  BY <1>1, FS_Interval DEF Slots
<1>3. IsFiniteSet(Procs)
  BY <1>2, FS_Singleton, FS_Union DEF Procs
<1>4. /\ NoProc \notin Procs /\ NoProc \notin Slots /\ 0 \in Procs
      /\ PidMin .. MaxPid \subseteq Procs /\ Procs \subseteq Nat /\ Slots \subseteq Nat
      /\ \A p \in Procs : p = 0 \/ p \in PidMin .. MaxPid
  BY ProcTableAssumption DEF Procs, Slots, NoProc, PidMin
<1> QED  BY <1>2, <1>3, <1>4

(* Taking, queueing for and releasing a lock.                              *)
LEMMA LockFacts ==
    ASSUME LockTypes, NEW p \in Procs, NEW q \in Procs, NEW l \in Labels
    PROVE  /\ lock_acquire(p, q, l) => LockTypes'
           /\ lock_release(q) => LockTypes'
<1>1. lkq[q] \in Seq(Procs)
  BY DEF LockTypes
<1>2. Append(lkq[q], p) \in Seq(Procs)
  BY <1>1
<1>3. lkq[q] # <<>> => Tail(lkq[q]) \in Seq(Procs)
  BY <1>1
<1>4. lock_acquire(p, q, l) => LockTypes'
  BY <1>2 DEF lock_acquire, LockTypes
<1>5. lock_release(q) => LockTypes'
  BY <1>1, <1>3 DEF lock_release, LockTypes
<1> QED  BY <1>4, <1>5

(* A nonempty set of natural numbers has a least member.                   *)
LEMMA LeastNat ==
    ASSUME NEW T \in SUBSET Nat, T # {}
    PROVE  \E n \in T : \A m \in T : n <= m
<1>1. PICK n \in T : \A m \in T : ~ (<<m, n>> \in OpToRel(<, Nat))
  BY NatLessThanWellFounded, WFMin
<1>2. \A m \in T : ~ (m < n)
  BY <1>1 DEF OpToRel
<1> QED  BY <1>2

(* A nonempty set of slots has a last member.                              *)
LEMMA LastSlot ==
    ASSUME NEW S \in SUBSET Slots, S # {}
    PROVE  \E i \in S : \A j \in S : j <= i
<1> DEFINE T == {ProcMax - j : j \in S}
<1>1. T \in SUBSET Nat /\ T # {}
  <2>1. \A j \in S : ProcMax - j \in Nat
    BY ProcTableAssumption DEF Slots
  <2> QED  BY <2>1
<1>2. PICK n \in T : \A m \in T : n <= m
  BY <1>1, LeastNat
<1>3. PICK i \in S : n = ProcMax - i
  BY <1>2
<1>4. ASSUME NEW j \in S PROVE j <= i
  <2>1. ProcMax - j \in T
    OBVIOUS
  <2>2. ProcMax - i <= ProcMax - j
    BY <1>2, <1>3, <2>1
  <2> QED  BY <2>2, ProcTableAssumption DEF Slots
<1> QED  BY <1>4

(* find_slot returns a slot of the process, if it has one.                 *)
LEMMA FoundSlot ==
    ASSUME NEW pid
    PROVE  /\ find_slot(pid) \in Slots \cup {NoProc}
           /\ find_slot(pid) # NoProc => /\ find_slot(pid) \in Slots
                                         /\ proc_array[find_slot(pid)] = pid
                                         /\ pid # NoProc
           /\ \A i \in Slots : pid # NoProc /\ proc_array[i] = pid => find_slot(pid) # NoProc
<1> DEFINE S == {i \in Slots : proc_array[i] = pid /\ pid # NoProc}
<1>1. CASE S = {}
  <2>1. find_slot(pid) = NoProc
    BY <1>1 DEF find_slot
  <2> QED  BY <1>1, <2>1
<1>2. CASE S # {}
  <2>1. find_slot(pid) = CHOOSE i \in S : \A j \in S : j <= i
    BY <1>2 DEF find_slot
  <2>2. \E i \in S : \A j \in S : j <= i
    BY <1>2, LastSlot
  <2>3. find_slot(pid) \in S
    BY <2>1, <2>2
  <2> QED  BY <2>3, ProcFacts
<1> QED  BY <1>1, <1>2

(* put_proc_on_proctable uses a free slot, if there is one.                *)
LEMMA PutFacts ==
    ASSUME TableTypes, NEW q \in Procs, put_proc_on_proctable(q)
    PROVE  \/ /\ \A i \in Slots : proc_array[i] # NoProc
              /\ UNCHANGED <<proc_array, num_of_procs>>
           \/ \E i \in Slots : /\ proc_array[i] = NoProc
                               /\ proc_array' = [proc_array EXCEPT ![i] = q]
                               /\ num_of_procs' = num_of_procs + 1
<1> DEFINE Free == {i \in Slots : proc_array[i] = NoProc}
<1>1. CASE Free = {}
  BY <1>1 DEF put_proc_on_proctable
<1>2. CASE Free # {}
  <2> DEFINE k == CHOOSE i \in Free : \A j \in Free : i <= j
  <2>1. \E i \in Free : \A j \in Free : i <= j
    <3>1. Free \in SUBSET Nat
      BY ProcFacts
    <3> QED  BY <1>2, <3>1, LeastNat
  <2>2. k \in Free
    BY <2>1
  <2>3. /\ proc_array' = [proc_array EXCEPT ![k] = q]
        /\ num_of_procs' = num_of_procs + 1
    BY <1>2 DEF put_proc_on_proctable
  <2> QED  BY <2>2, <2>3
<1> QED  BY <1>1, <1>2

-----------------------------------------------------------------------------
(* A fork that got past the limit finds a pid.                             *)
LEMMA NextPid ==
    ASSUME BaseInv, NEW p \in Procs, pc[p] = "fk_pid"
    PROVE  next_pid \in PidMin .. MaxPid /\ next_pid \in Procs /\ pc[next_pid] = "none"
<1>1. IsFiniteSet(Forking) /\ p \in Forking
  BY ProcFacts, FS_Subset DEF Forking
<1>2. Cardinality(Forking) \in Nat /\ Cardinality(Forking) # 0
  BY <1>1, FS_CardinalityType, FS_EmptySet
<1>3. next_pid \in PidMin .. MaxPid
  BY <1>2, ProcTableAssumption DEF BaseInv, PidInv, TypeInv, TableTypes, PidMin
<1> QED  BY <1>3, ProcFacts, ProcTableAssumption DEF BaseInv, PidInv, PidMin

(* What waitpid returns is well typed.                                     *)
LEMMA ReturnType ==
    ASSUME LocalTypes, NEW p \in Procs, NEW err \in Errs,
           NEW st \in Codes \cup {-1, NoStatus}, Return(p, err, st)
    PROVE  result' \in [Procs -> ResultSet]
<1>1. [pid |-> arg[p], err |-> err, status |-> st] \in ResultSet
  BY DEF LocalTypes, ResultSet
<1>2. result' = [result EXCEPT ![p] = [pid |-> arg[p], err |-> err, status |-> st]]
  BY DEF Return
<1> QED  BY <1>1, <1>2 DEF LocalTypes

(* So is the result it forgets.                                            *)
LEMMA NoResultType == NoResult \in ResultSet
  BY DEF NoResult, ResultSet, NoProc, NoStatus, Errs

(* The locals and the position of a process keep their types.              *)
LEMMA LocalTypesStep ==
    ASSUME BaseInv, NEW p \in Procs, Step(p) \/ Call(p)
    PROVE  LocalTypes'
<1> USE DEF At, Goto, locals
<1>1. LocalTypes /\ TableTypes
  BY DEF BaseInv, TypeInv
<1>2. CASE UNCHANGED <<pc, locals>>
  BY <1>1, <1>2 DEF LocalTypes
<1>3. CASE UNCHANGED locals /\ \E l \in Labels : pc' = [pc EXCEPT ![p] = l]
  BY <1>1, <1>3 DEF LocalTypes
<1>4. CASE \/ runprogram(p) \/ runprogram_fails(p) \/ fork(p) \/ fork_lock(p) \/ fork_put(p)
           \/ exit_lock(p) \/ exit_rem(p) \/ exit_plock(p) \/ exit_post(p)
           \/ exit_punlock(p) \/ exit_remove(p) \/ exit_unlock(p) \/ waitpid_lock(p)
           \/ waitpid_clock(p) \/ waitpid_loop(p) \/ waitpid_again(p) \/ cv_wait(p)
           \/ cv_wait_relock(p)
  <2>1. UNCHANGED locals /\ (UNCHANGED pc \/ \E l \in Labels : pc' = [pc EXCEPT ![p] = l])
    BY <1>4 DEF runprogram, runprogram_fails, fork, fork_lock, fork_put, exit_lock, exit_rem,
       exit_plock, exit_post, exit_punlock, exit_remove, exit_unlock, waitpid_lock,
       waitpid_clock, waitpid_loop, waitpid_again, cv_wait, cv_wait_relock, lock_acquire,
       Panic, Labels, ForkLabels,
       ExitLabels, WaitLabels
  <2> QED  BY <1>2, <1>3, <2>1
<1>5. CASE fork_pid(p)
  <2>1. next_pid \in Procs
    BY <1>5, NextPid DEF fork_pid
  <2> QED  BY <1>1, <1>5, <2>1 DEF LocalTypes, fork_pid, Labels, ForkLabels
<1>6. CASE /\ Forget(p)
           /\ \/ \E l \in Labels : pc' = [pc EXCEPT ![p] = l]
              \/ \E l, m \in Labels : pc' = [pc EXCEPT ![p] = l, ![ptr[p]] = m]
  <2>1. pc' \in [Procs -> Labels]
    BY <1>1, <1>6 DEF LocalTypes
  <2>2. /\ ptr' = [ptr EXCEPT ![p] = NoProc]
        /\ arg' = [arg EXCEPT ![p] = NoProc]
        /\ UNCHANGED <<excode, result, waited>>
    BY <1>6 DEF Forget
  <2>3. ptr' \in [Procs -> Procs \cup Slots \cup {NoProc}]
    BY <1>1, <2>2 DEF LocalTypes
  <2>4. arg' \in [Procs -> Procs \cup {NoProc}]
    BY <1>1, <2>2 DEF LocalTypes
  <2> QED  BY <1>1, <2>1, <2>2, <2>3, <2>4 DEF LocalTypes
<1>7. CASE fork_copy(p) \/ fork_thread(p) \/ exit_destroy(p) \/ waitpid_return(p)
  <2>1. \/ UNCHANGED <<pc, locals>>
        \/ UNCHANGED locals /\ \E l \in Labels : pc' = [pc EXCEPT ![p] = l]
        \/ Forget(p) /\ \/ \E l \in Labels : pc' = [pc EXCEPT ![p] = l]
                        \/ \E l, m \in Labels : pc' = [pc EXCEPT ![p] = l, ![ptr[p]] = m]
    BY <1>7 DEF fork_copy, fork_thread, exit_destroy, waitpid_return, Panic, Labels, ForkLabels,
       ExitLabels, WaitLabels
  <2> QED  BY <1>2, <1>3, <1>6, <2>1
<1>8. CASE exit_signal(p)
  <2>1. CASE UNCHANGED pc
    BY <1>2, <1>8, <2>1 DEF exit_signal, Panic
  <2>2. CASE cv_signal(p, ptr[p]) /\ UNCHANGED locals /\ ptr[p] \in alive
    <3>1. ptr[p] \in Procs
      BY <1>1, <2>2 DEF TableTypes
    <3>2. pc' \in [Procs -> Labels]
      BY <1>1, <2>2, <3>1 DEF LocalTypes, cv_signal, Labels, ExitLabels, WaitLabels
    <3> QED  BY <1>1, <2>2, <3>2 DEF LocalTypes
  <2> QED  BY <1>8, <2>1, <2>2 DEF exit_signal, Panic
<1>9. CASE exit_find(p) \/ exit_read(p) \/ waitpid_find(p) \/ waitpid_read(p)
  <2>1. ReadSlot(ptr[p]) \in Procs \cup {NoProc} \/ ~(exit_read(p) \/ waitpid_read(p))
    BY <1>1 DEF ReadSlot, BaseInv, ArgInv, TableTypes, exit_read, waitpid_read
  <2>2. \E x \in Procs \cup Slots \cup {NoProc} : ptr' = [ptr EXCEPT ![p] = x]
    BY <1>9, <2>1, FoundSlot DEF exit_find, exit_read, waitpid_find, waitpid_read
  <2>3. /\ UNCHANGED <<arg, excode, result, waited>>
        /\ \E l \in Labels : pc' = [pc EXCEPT ![p] = l]
    BY <1>9 DEF exit_find, exit_read, waitpid_find, waitpid_read, Labels, ExitLabels,
       WaitLabels
  <2>4. pc' \in [Procs -> Labels]
    BY <1>1, <2>3 DEF LocalTypes
  <2>5. ptr' \in [Procs -> Procs \cup Slots \cup {NoProc}]
    BY <1>1, <2>2 DEF LocalTypes
  <2> QED  BY <1>1, <2>3, <2>4, <2>5 DEF LocalTypes
<1>10. CASE waitpid_exists(p) \/ waitpid_exited(p) \/ waitpid_child(p) \/ waitpid_get(p)
  <2>1. UNCHANGED <<ptr, arg, excode, waited>> /\ \E l \in Labels : pc' = [pc EXCEPT ![p] = l]
    BY <1>10 DEF waitpid_exists, waitpid_exited, waitpid_child, waitpid_get, Labels,
       WaitLabels
  <2>2. \A c \in active_exit_codes : c.exit_code \in Codes
    BY <1>1 DEF TableTypes, CodeSet
  <2>3. \/ UNCHANGED result
        \/ \E err \in Errs, st \in Codes \cup {-1, NoStatus} : Return(p, err, st)
    BY <1>10, <2>2 DEF waitpid_exists, waitpid_exited, waitpid_child, waitpid_get,
       get_exit_code, copyout, Errs
  <2>4. result' \in [Procs -> ResultSet]
    BY <1>1, <2>3, ReturnType DEF LocalTypes
  <2> QED  BY <1>1, <2>1, <2>4 DEF LocalTypes
<1>11. ASSUME NEW code \in ExitArgs, _exit(p, code) PROVE LocalTypes'
  BY <1>1, <1>11, NoResultType DEF LocalTypes, _exit, Labels, ExitLabels
<1>12. ASSUME NEW pid \in PidMin .. MaxPid, waitpid(p, pid) PROVE LocalTypes'
  <2>1. pid \in Procs
    BY ProcFacts
  <2>2. waited' \in [Procs -> SUBSET Procs]
    BY <1>1, <1>12, <2>1 DEF LocalTypes, waitpid
  <2> QED  BY <1>1, <1>12, <2>1, <2>2, NoResultType DEF LocalTypes, waitpid, Labels, WaitLabels
<1> QED  BY <1>4, <1>5, <1>7, <1>8, <1>9, <1>10, <1>11, <1>12 DEF Step, Call

(* A step of p leaves the locals of the other processes alone and moves    *)
(* only one of them: the parent it wakes or the child it starts.           *)
LEMMA Frame ==
    ASSUME BaseInv, NEW p \in Procs, Step(p) \/ Call(p), NEW u \in Procs, u # p
    PROVE  /\ ptr'[u] = ptr[u] /\ arg'[u] = arg[u] /\ excode'[u] = excode[u]
           /\ result'[u] = result[u] /\ waited'[u] = waited[u]
           /\ \/ pc'[u] = pc[u]
              \/ exit_signal(p) /\ u = ptr[p] /\ pc[u] = "wp_asleep" /\ pc'[u] = "wp_relock"
              \/ fork_thread(p) /\ u = ptr[p] /\ pc[u] = "none" /\ pc'[u] = "user"
<1>1. LocalTypes
  BY DEF BaseInv, TypeInv
<1>2. /\ UNCHANGED ptr \/ \E x : ptr' = [ptr EXCEPT ![p] = x]
      /\ UNCHANGED arg \/ \E x : arg' = [arg EXCEPT ![p] = x]
      /\ UNCHANGED excode \/ \E x : excode' = [excode EXCEPT ![p] = x]
      /\ UNCHANGED result \/ \E x : result' = [result EXCEPT ![p] = x]
      /\ UNCHANGED waited \/ \E x : waited' = [waited EXCEPT ![p] = x]
  BY DEF Step, Call, runprogram, runprogram_fails, fork, fork_lock, fork_pid, fork_copy,
     fork_put, fork_thread, _exit, exit_lock, exit_find, exit_read, exit_rem,
     exit_plock, exit_post, exit_punlock, exit_signal, exit_remove, exit_unlock,
     exit_destroy, waitpid, waitpid_lock, waitpid_find, waitpid_read, waitpid_exists,
     waitpid_exited, waitpid_clock, waitpid_child, waitpid_loop, waitpid_again,
     cv_wait, cv_wait_relock, waitpid_get, waitpid_return, lock_acquire, Panic, Forget,
     Return, copyout, locals
<1>3. \/ UNCHANGED pc
      \/ \E x : pc' = [pc EXCEPT ![p] = x]
      \/ exit_signal(p) /\ cv_signal(p, ptr[p])
      \/ fork_thread(p) /\ pc' = [pc EXCEPT ![p] = "user", ![ptr[p]] = "user"]
  BY DEF Step, Call, runprogram, runprogram_fails, fork, fork_lock, fork_pid, fork_copy,
     fork_put, fork_thread, _exit, exit_lock, exit_find, exit_read, exit_rem, exit_plock,
     exit_post, exit_punlock, exit_signal, exit_remove, exit_unlock, exit_destroy,
     waitpid, waitpid_lock, waitpid_find, waitpid_read, waitpid_exists, waitpid_exited,
     waitpid_clock, waitpid_child, waitpid_loop, waitpid_again, cv_wait, cv_wait_relock,
     waitpid_get, waitpid_return, lock_acquire, Panic, Goto
<1>4. \/ pc'[u] = pc[u]
      \/ exit_signal(p) /\ u = ptr[p] /\ pc[u] = "wp_asleep" /\ pc'[u] = "wp_relock"
      \/ fork_thread(p) /\ u = ptr[p] /\ pc[u] = "none" /\ pc'[u] = "user"
  <2>1. CASE exit_signal(p) /\ cv_signal(p, ptr[p])
    BY <1>1, <2>1 DEF LocalTypes, cv_signal
  <2>2. CASE fork_thread(p) /\ pc' = [pc EXCEPT ![p] = "user", ![ptr[p]] = "user"]
    <3>1. pc[ptr[p]] = "none"
      BY <2>2 DEF BaseInv, ForkInv, fork_thread, At
    <3> QED  BY <1>1, <2>2, <3>1 DEF LocalTypes
  <2> QED  BY <1>1, <1>3, <2>1, <2>2 DEF LocalTypes
<1> QED  BY <1>1, <1>2, <1>4 DEF LocalTypes

(* Which step changes what.                                                *)
LEMMA Changes ==
    ASSUME NEW p \in Procs, Step(p) \/ Call(p)
    PROVE  /\ UNCHANGED <<next_pid, ppid>> \/ fork_pid(p)
           /\ UNCHANGED <<proc_array, num_of_procs>> \/ fork_put(p) \/ exit_remove(p)
           /\ UNCHANGED active_exit_codes \/ exit_rem(p) \/ exit_post(p) \/ waitpid_get(p)
           /\ UNCHANGED alive \/ fork_pid(p) \/ fork_copy(p) \/ runprogram_fails(p)
                \/ exit_destroy(p)
           /\ UNCHANGED excode \/ \E code \in ExitArgs : _exit(p, code)
<1>1. UNCHANGED <<next_pid, ppid>> \/ fork_pid(p)
  BY DEF Step, Call, runprogram, runprogram_fails, fork, fork_lock, fork_pid, fork_copy,
     fork_put, fork_thread, _exit, exit_lock, exit_find, exit_read, exit_rem,
     exit_plock, exit_post, exit_punlock, exit_signal, exit_remove, exit_unlock,
     exit_destroy, waitpid, waitpid_lock, waitpid_find, waitpid_read, waitpid_exists,
     waitpid_exited, waitpid_clock, waitpid_child, waitpid_loop, waitpid_again,
     cv_wait, cv_wait_relock, waitpid_get, waitpid_return, Panic, table
<1>2. UNCHANGED <<proc_array, num_of_procs>> \/ fork_put(p) \/ exit_remove(p)
  BY DEF Step, Call, runprogram, runprogram_fails, fork, fork_lock, fork_pid, fork_copy,
     fork_put, fork_thread, _exit, exit_lock, exit_find, exit_read, exit_rem,
     exit_plock, exit_post, exit_punlock, exit_signal, exit_remove, exit_unlock,
     exit_destroy, waitpid, waitpid_lock, waitpid_find, waitpid_read, waitpid_exists,
     waitpid_exited, waitpid_clock, waitpid_child, waitpid_loop, waitpid_again,
     cv_wait, cv_wait_relock, waitpid_get, waitpid_return, Panic, table
<1>3. UNCHANGED active_exit_codes \/ exit_rem(p) \/ exit_post(p) \/ waitpid_get(p)
  BY DEF Step, Call, runprogram, runprogram_fails, fork, fork_lock, fork_pid, fork_copy,
     fork_put, fork_thread, _exit, exit_lock, exit_find, exit_read, exit_rem,
     exit_plock, exit_post, exit_punlock, exit_signal, exit_remove, exit_unlock,
     exit_destroy, waitpid, waitpid_lock, waitpid_find, waitpid_read, waitpid_exists,
     waitpid_exited, waitpid_clock, waitpid_child, waitpid_loop, waitpid_again,
     cv_wait, cv_wait_relock, waitpid_get, waitpid_return, Panic, table
<1>4. UNCHANGED alive \/ fork_pid(p) \/ fork_copy(p) \/ runprogram_fails(p) \/ exit_destroy(p)
  BY DEF Step, Call, runprogram, runprogram_fails, fork, fork_lock, fork_pid, fork_copy,
     fork_put, fork_thread, _exit, exit_lock, exit_find, exit_read, exit_rem,
     exit_plock, exit_post, exit_punlock, exit_signal, exit_remove, exit_unlock,
     exit_destroy, waitpid, waitpid_lock, waitpid_find, waitpid_read, waitpid_exists,
     waitpid_exited, waitpid_clock, waitpid_child, waitpid_loop, waitpid_again,
     cv_wait, cv_wait_relock, waitpid_get, waitpid_return, Panic
<1>5. UNCHANGED excode \/ \E code \in ExitArgs : _exit(p, code)
  BY DEF Step, Call, runprogram, runprogram_fails, fork, fork_lock, fork_pid, fork_copy,
     fork_put, fork_thread, _exit, exit_lock, exit_find, exit_read, exit_rem,
     exit_plock, exit_post, exit_punlock, exit_signal, exit_remove, exit_unlock,
     exit_destroy, waitpid, waitpid_lock, waitpid_find, waitpid_read, waitpid_exists,
     waitpid_exited, waitpid_clock, waitpid_child, waitpid_loop, waitpid_again,
     cv_wait, cv_wait_relock, waitpid_get, waitpid_return, Panic, Forget, locals
<1> QED  BY <1>1, <1>2, <1>3, <1>4, <1>5

(* HoldInv is kept by a step of p that changes a lock and what p holds     *)
(* together.                                                               *)
LEMMA HoldKept ==
    ASSUME BaseInv, NEW p \in Procs, Step(p) \/ Call(p),
           \A q \in Procs :
             \/ ops_lock'[q] = ops_lock[q] /\ (Holds(p, q)' <=> Holds(p, q))
             \/ ops_lock[q] = NoProc /\ ops_lock'[q] = p /\ Holds(p, q)'
             \/ ops_lock[q] = p /\ ops_lock'[q] = NoProc /\ ~Holds(p, q)'
    PROVE  HoldInv'
<1> SUFFICES ASSUME NEW u \in Procs, NEW q \in Procs
             PROVE  ops_lock'[q] = u <=> Holds(u, q)'
  BY DEF HoldInv
<1>1. ops_lock[q] = u <=> Holds(u, q)
  BY DEF BaseInv, HoldInv
<1>2. CASE u = p
  BY <1>1, <1>2, ProcFacts
<1>3. CASE u # p
  <2>1. Holds(u, q)' <=> Holds(u, q)
    BY <1>3, Frame DEF Holds, OwnLabels, PtrLabels
  <2> QED  BY <1>1, <1>3, <2>1, ProcFacts
<1> QED  BY <1>2, <1>3

(* Where the two steps that also move another process leave their own.     *)
LEMMA TwoMoves ==
    ASSUME BaseInv, NEW p \in Procs
    PROVE  /\ fork_thread(p) => pc[p] = "fk_thread" /\ pc'[p] = "user"
           /\ exit_signal(p) => /\ pc[p] = "ex_signal" /\ UNCHANGED ptr
                                /\ pc'[p] \in {"ex_signal", "ex_remove"}
                                /\ pc'[p] = "ex_signal" => UNCHANGED pc
<1>1. LocalTypes
  BY DEF BaseInv, TypeInv
<1>2. ASSUME fork_thread(p) PROVE pc[p] = "fk_thread" /\ pc'[p] = "user"
  <2>1. /\ pc[p] = "fk_thread" /\ pc[ptr[p]] = "none"
        /\ \/ pc' = [pc EXCEPT ![p] = "user", ![ptr[p]] = "user"]
           \/ pc' = [pc EXCEPT ![p] = "user"]
    BY <1>2 DEF fork_thread, At, Goto, BaseInv, ForkInv
  <2> QED  BY <1>1, <2>1 DEF LocalTypes
<1>3. ASSUME exit_signal(p)
      PROVE  /\ pc[p] = "ex_signal" /\ UNCHANGED ptr /\ pc'[p] \in {"ex_signal", "ex_remove"}
             /\ pc'[p] = "ex_signal" => UNCHANGED pc
  <2>1. /\ pc[p] = "ex_signal" /\ UNCHANGED ptr
        /\ \/ pc' = [pc EXCEPT ![p] = "ex_remove",
                     ![ptr[p]] = IF @ = "wp_asleep" THEN "wp_relock" ELSE @]
           \/ pc' = pc
    BY <1>3 DEF exit_signal, cv_signal, At, Panic, locals
  <2> QED  BY <1>1, <2>1 DEF LocalTypes
<1> QED  BY <1>2, <1>3

(* Every step keeps HoldInv.                                               *)
LEMMA HoldStep ==
    ASSUME BaseInv, NEW p \in Procs, Step(p) \/ Call(p)
    PROVE  HoldInv'
<1>1. /\ LocalTypes /\ LockTypes /\ pc' \in [Procs -> Labels]
      /\ ptr' \in [Procs -> Procs \cup Slots \cup {NoProc}]
  BY LocalTypesStep DEF BaseInv, TypeInv, LocalTypes
<1>2. \A q \in Procs : ops_lock[q] = p <=> Holds(p, q)
  BY DEF BaseInv, HoldInv
<1>3. ASSUME NEW q \in Procs, NEW l \in Labels, lock_acquire(p, q, l), UNCHANGED ptr,
             pc[p] \notin PtrLabels, q = ptr[p] \/ pc[p] \notin OwnLabels,
             q = p \/ pc[p] \in OwnLabels, l \in OwnLabels,
             l \in PtrLabels <=> q # p, q # p => q = ptr[p]
      PROVE  HoldInv'
  <2>1. CASE ops_lock[q] = NoProc
    <3>1. ops_lock' = [ops_lock EXCEPT ![q] = p] /\ pc' = [pc EXCEPT ![p] = l]
      BY <1>3, <2>1 DEF lock_acquire, Goto
    <3>2. pc'[p] = l /\ ptr'[p] = ptr[p]
      BY <1>1, <1>3, <3>1 DEF LocalTypes
    <3> QED
      BY <1>1, <1>2, <1>3, <2>1, <3>1, <3>2, HoldKept, ProcFacts DEF LockTypes, Holds
  <2>2. CASE ops_lock[q] # NoProc
    <3>1. UNCHANGED <<ops_lock, pc>>
      BY <1>3, <2>2 DEF lock_acquire
    <3> QED  BY <1>3, <3>1, HoldKept DEF Holds
  <2> QED  BY <2>1, <2>2
<1>4. CASE fork_lock(p) \/ exit_lock(p) \/ waitpid_lock(p) \/ cv_wait_relock(p)
  <2>1. /\ \E l \in OwnLabels \ PtrLabels : l \in Labels /\ lock_acquire(p, p, l)
        /\ UNCHANGED ptr /\ pc[p] \notin OwnLabels \cup PtrLabels
    BY <1>4 DEF fork_lock, exit_lock, waitpid_lock, cv_wait_relock, At, locals, Labels,
       ForkLabels, ExitLabels, WaitLabels, OwnLabels, PtrLabels
  <2> QED  BY <1>3, <2>1
<1>5. CASE exit_plock(p) \/ waitpid_clock(p)
  <2>1. CASE UNCHANGED <<ops_lock, pc, ptr>>
    BY <2>1, HoldKept DEF Holds
  <2>2. CASE ~UNCHANGED <<ops_lock, pc, ptr>>
    <3>1. /\ \E l \in OwnLabels \cap PtrLabels : l \in Labels /\ lock_acquire(p, ptr[p], l)
          /\ UNCHANGED ptr /\ pc[p] \in OwnLabels \ PtrLabels /\ ptr[p] \in alive
      BY <1>5, <2>2 DEF exit_plock, waitpid_clock, At, Panic, locals, locks, Labels,
         ExitLabels, WaitLabels, OwnLabels, PtrLabels
    <3>2. ptr[p] \in Procs
      BY <3>1 DEF BaseInv, TypeInv, TableTypes
    <3>3. ptr[p] # p \/ UNCHANGED <<ops_lock, pc>>
      BY <1>2, <3>1, ProcFacts DEF lock_acquire, Holds
    <3> QED  BY <1>3, <2>2, <3>1, <3>2, <3>3
  <2> QED  BY <2>1, <2>2
<1>6. ASSUME NEW q \in Procs, NEW l \in Labels, lock_release(q), pc'[p] = l,
             pc[p] \in OwnLabels, q = p <=> pc[p] \notin PtrLabels,
             l \notin PtrLabels, q = p <=> l \notin OwnLabels,
             q # p => q = ptr[p]
      PROVE  HoldInv'
  <2>1. ops_lock' = [ops_lock EXCEPT ![q] = NoProc]
    BY <1>6 DEF lock_release
  <2> QED  BY <1>1, <1>2, <1>6, <2>1, HoldKept DEF LockTypes, Holds
<1>7. CASE fork_copy(p) \/ exit_unlock(p) \/ cv_wait(p) \/ waitpid_return(p)
  <2>1. /\ lock_release(p) /\ pc[p] \in OwnLabels \ PtrLabels
        /\ \E l \in Labels : l \notin OwnLabels \cup PtrLabels /\ pc' = [pc EXCEPT ![p] = l]
    BY <1>7 DEF fork_copy, exit_unlock, cv_wait, waitpid_return, At, Goto, Labels,
       ForkLabels, ExitLabels, WaitLabels, OwnLabels, PtrLabels
  <2> QED  BY <1>1, <1>6, <2>1 DEF LocalTypes
<1>8. CASE exit_punlock(p) \/ waitpid_child(p)
  <2>1. /\ lock_release(ptr[p]) /\ pc[p] \in OwnLabels \cap PtrLabels
        /\ \E l \in OwnLabels \ PtrLabels : l \in Labels /\ pc' = [pc EXCEPT ![p] = l]
    BY <1>8 DEF exit_punlock, waitpid_child, At, Goto, Labels, ExitLabels, WaitLabels,
       OwnLabels, PtrLabels
  <2>2. ptr[p] \in Procs /\ ptr[p] # p
    BY <2>1 DEF BaseInv, ArgInv
  <2> QED  BY <1>1, <1>6, <2>1, <2>2 DEF LocalTypes
<1>9. ASSUME UNCHANGED ops_lock, pc'[p] \in OwnLabels <=> pc[p] \in OwnLabels,
             pc'[p] \in PtrLabels <=> pc[p] \in PtrLabels,
             pc[p] \in PtrLabels => ptr'[p] = ptr[p]
      PROVE  HoldInv'
  BY <1>9, HoldKept DEF Holds
<1>10. CASE \/ runprogram(p) \/ runprogram_fails(p) \/ fork(p) \/ fork_pid(p) \/ fork_put(p)
            \/ (\E code \in ExitArgs : _exit(p, code))
            \/ (\E pid \in PidMin .. MaxPid : waitpid(p, pid))
            \/ exit_find(p) \/ exit_read(p) \/ exit_rem(p) \/ exit_post(p) \/ exit_remove(p)
            \/ exit_destroy(p) \/ waitpid_find(p) \/ waitpid_read(p) \/ waitpid_exists(p)
            \/ waitpid_exited(p) \/ waitpid_loop(p) \/ waitpid_again(p) \/ waitpid_get(p)
  <2>1. UNCHANGED ops_lock /\ \/ UNCHANGED <<pc, ptr>>
                              \/ \E l \in Labels : /\ pc' = [pc EXCEPT ![p] = l]
                                                   /\ l \in OwnLabels <=> pc[p] \in OwnLabels
                                                   /\ l \notin PtrLabels /\ pc[p] \notin PtrLabels
                              \/ /\ UNCHANGED ptr /\ pc[p] = "ex_post"
                                 /\ pc' = [pc EXCEPT ![p] = "ex_punlock"]
    BY <1>10 DEF runprogram, runprogram_fails, fork, fork_pid, fork_put, _exit, waitpid,
       exit_find, exit_read, exit_rem, exit_post, exit_remove, exit_destroy, waitpid_find,
       waitpid_read, waitpid_exists, waitpid_exited, waitpid_loop, waitpid_again, waitpid_get,
       At, Goto, Panic, locals, locks, Labels, ForkLabels, ExitLabels, WaitLabels,
       OwnLabels, PtrLabels
  <2>2. CASE UNCHANGED <<pc, ptr>>
    BY <1>9, <2>1, <2>2
  <2>3. ASSUME NEW l \in Labels, pc' = [pc EXCEPT ![p] = l],
               l \in OwnLabels <=> pc[p] \in OwnLabels,
               l \notin PtrLabels /\ pc[p] \notin PtrLabels
        PROVE  HoldInv'
    <3>1. pc'[p] = l
      BY <1>1, <2>3 DEF LocalTypes
    <3> QED  BY <1>9, <2>1, <2>3, <3>1
  <2>4. CASE UNCHANGED ptr /\ pc[p] = "ex_post" /\ pc' = [pc EXCEPT ![p] = "ex_punlock"]
    <3>1. pc'[p] = "ex_punlock"
      BY <1>1, <2>4 DEF LocalTypes
    <3> QED  BY <1>9, <2>1, <2>4, <3>1 DEF OwnLabels, PtrLabels
  <2> QED  BY <2>1, <2>2, <2>3, <2>4
<1>11. CASE fork_thread(p) \/ exit_signal(p)
  BY <1>9, <1>11, TwoMoves DEF OwnLabels, PtrLabels, fork_thread, exit_signal, locks, Panic
<1> QED
  BY <1>4, <1>5, <1>7, <1>8, <1>10, <1>11 DEF Step, Call

(* Only a process that has started and is not gone or asleep takes a step. *)
LEMMA Moves ==
    ASSUME NEW p \in Procs, Step(p) \/ Call(p)
    PROVE  ~panic /\ pc[p] \notin {"none", "gone"} /\ ~AsleepOnLock(p)
  BY DEF Step, Call, runprogram, runprogram_fails, fork, fork_lock, fork_pid, fork_copy,
     fork_put, fork_thread, _exit, exit_lock, exit_find, exit_read, exit_rem,
     exit_plock, exit_post, exit_punlock, exit_signal, exit_remove, exit_unlock,
     exit_destroy, waitpid, waitpid_lock, waitpid_find, waitpid_read, waitpid_exists,
     waitpid_exited, waitpid_clock, waitpid_child, waitpid_loop, waitpid_again,
     cv_wait, cv_wait_relock, waitpid_get, waitpid_return, At

(* The locks keep their types.                                             *)
LEMMA LockTypesStep ==
    ASSUME BaseInv, NEW p \in Procs, Step(p) \/ Call(p)
    PROVE  LockTypes'
<1>1. LockTypes /\ TableTypes /\ ArgInv
  BY DEF BaseInv, TypeInv
<1>2. ptr[p] \in alive \/ pc[p] \in PtrLabels => ptr[p] \in Procs
  BY <1>1 DEF TableTypes, ArgInv
<1>3. CASE UNCHANGED locks
  BY <1>1, <1>3 DEF LockTypes, locks
<1>4. CASE fork_lock(p) \/ exit_lock(p) \/ waitpid_lock(p) \/ cv_wait_relock(p)
  <2>1. \E l \in Labels : lock_acquire(p, p, l)
    BY <1>4 DEF fork_lock, exit_lock, waitpid_lock, cv_wait_relock, Labels, ForkLabels,
       ExitLabels, WaitLabels
  <2> QED  BY <1>1, <2>1, LockFacts
<1>5. CASE (exit_plock(p) \/ waitpid_clock(p)) /\ ~UNCHANGED locks
  <2>1. ptr[p] \in alive /\ \E l \in Labels : lock_acquire(p, ptr[p], l)
    BY <1>5 DEF exit_plock, waitpid_clock, Panic, Labels, ExitLabels, WaitLabels
  <2> QED  BY <1>1, <1>2, <2>1, LockFacts
<1>6. CASE lock_release(p) \/ (pc[p] \in PtrLabels /\ lock_release(ptr[p]))
  <2>1. "user" \in Labels
    BY DEF Labels
  <2> QED  BY <1>1, <1>2, <1>6, <2>1, LockFacts
<1>7. \/ UNCHANGED locks
      \/ fork_lock(p) \/ exit_lock(p) \/ waitpid_lock(p) \/ cv_wait_relock(p)
      \/ exit_plock(p) \/ waitpid_clock(p)
      \/ lock_release(p) \/ (pc[p] \in PtrLabels /\ lock_release(ptr[p]))
  BY DEF Step, Call, runprogram, runprogram_fails, fork, fork_lock, fork_pid, fork_copy,
     fork_put, fork_thread, _exit, exit_lock, exit_find, exit_read, exit_rem,
     exit_plock, exit_post, exit_punlock, exit_signal, exit_remove, exit_unlock,
     exit_destroy, waitpid, waitpid_lock, waitpid_find, waitpid_read, waitpid_exists,
     waitpid_exited, waitpid_clock, waitpid_child, waitpid_loop, waitpid_again,
     cv_wait, cv_wait_relock, waitpid_get, waitpid_return, At, Panic, PtrLabels
<1> QED  BY <1>3, <1>4, <1>5, <1>6, <1>7

(* The process table keeps its types.                                      *)
LEMMA TableTypesStep ==
    ASSUME BaseInv, NEW p \in Procs, Step(p) \/ Call(p)
    PROVE  TableTypes'
<1>1. TableTypes /\ LocalTypes /\ ArgInv /\ ForkInv
  BY DEF BaseInv, TypeInv
<1>2. fork_pid(p) => next_pid \in PidMin .. MaxPid /\ next_pid \in Procs
  BY NextPid DEF fork_pid, At
<1>3. next_pid' \in PidMin .. MaxPid + 1
  BY <1>1, <1>2, Changes, ProcTableAssumption DEF TableTypes, fork_pid, PidMin
<1>4. ppid' \in [Procs -> Procs \cup {NoProc}]
  BY <1>1, <1>2, Changes DEF TableTypes, fork_pid
<1>5. alive' \subseteq Procs
  BY <1>1, <1>2, Changes DEF TableTypes, fork_pid, fork_copy, runprogram_fails, exit_destroy,
     proc_destroy, Panic
<1>6. panic' \in BOOLEAN
  <2>1. UNCHANGED panic \/ panic' = TRUE
    BY DEF Step, Call, runprogram, runprogram_fails, fork, fork_lock, fork_pid, fork_copy,
     fork_put, fork_thread, _exit, exit_lock, exit_find, exit_read, exit_rem,
     exit_plock, exit_post, exit_punlock, exit_signal, exit_remove, exit_unlock,
     exit_destroy, waitpid, waitpid_lock, waitpid_find, waitpid_read, waitpid_exists,
     waitpid_exited, waitpid_clock, waitpid_child, waitpid_loop, waitpid_again,
     cv_wait, cv_wait_relock, waitpid_get, waitpid_return, Panic
  <2> QED  BY <1>1, <2>1 DEF TableTypes
<1>7. proc_array' \in [Slots -> Procs \cup {NoProc}] /\ num_of_procs' \in Int
  <2>1. CASE UNCHANGED <<proc_array, num_of_procs>>
    BY <1>1, <2>1 DEF TableTypes
  <2>2. CASE fork_put(p)
    <3>1. ptr[p] \in Procs /\ put_proc_on_proctable(ptr[p])
      BY <1>1, <2>2, ProcFacts DEF fork_put, At, ForkInv
    <3> QED  BY <1>1, <2>1, <3>1, PutFacts DEF TableTypes
  <2>3. CASE exit_remove(p)
    <3>1. \/ UNCHANGED <<proc_array, num_of_procs>>
          \/ /\ proc_array' = [proc_array EXCEPT ![find_slot(p)] = NoProc]
             /\ num_of_procs' = num_of_procs - 1
      BY <2>3 DEF exit_remove, remove_proc_from_proctable
    <3> QED  BY <1>1, <2>1, <3>1 DEF TableTypes
  <2> QED  BY <2>1, <2>2, <2>3, Changes
<1>8. active_exit_codes' \subseteq CodeSet
  <2>1. active_exit_codes \subseteq CodeSet
    BY <1>1 DEF TableTypes
  <2>2. CASE exit_rem(p) \/ waitpid_get(p)
    BY <2>1, <2>2 DEF exit_rem, rem_all_exit_codes, waitpid_get
  <2>3. CASE exit_post(p)
    <3>1. excode[p] \in ExitArgs /\ ppid[p] \in Procs \cup {NoProc}
      BY <1>1, <2>3 DEF exit_post, At, ArgInv, TableTypes, ExitLabels
    <3>2. [ppid |-> ppid[p], pid |-> p, exit_code |-> _MKWAIT_EXIT(excode[p])] \in CodeSet
      BY <3>1 DEF CodeSet, Codes
    <3> QED  BY <2>1, <2>3, <3>2 DEF exit_post, post_exit_code
  <2> QED  BY <2>1, <2>2, <2>3, Changes
<1> QED  BY <1>3, <1>4, <1>5, <1>6, <1>7, <1>8 DEF TableTypes

(* The locals at each label.                                               *)
LEMMA ArgStep ==
    ASSUME BaseInv, NEW p \in Procs, Step(p) \/ Call(p)
    PROVE  ArgInv'
<1> DEFINE A(u) ==
      /\ pc[u] \in ExitLabels => excode[u] \in ExitArgs
      /\ pc[u] \in WaitLabels => arg[u] \in PidMin .. MaxPid
      /\ pc[u] \in {"ex_read", "wp_read"} => ptr[u] \in Slots \cup {NoProc}
      /\ pc[u] = "ex_rem" => ptr[u] \in Procs \cup {NoProc}
      /\ pc[u] \in {"ex_plock", "ex_signal"} \cup PtrLabels => ptr[u] \in Procs
      /\ pc[u] \in PtrLabels => ptr[u] # u
<1>1. LocalTypes /\ LocalTypes' /\ TableTypes /\ \A u \in Procs : A(u)
  BY LocalTypesStep DEF BaseInv, TypeInv, ArgInv
<1>2. ASSUME NEW u \in Procs, u # p PROVE A(u)'
  BY <1>1, <1>2, Frame DEF WaitLabels, ExitLabels, PtrLabels
<1>3. A(p)'
  <2> USE DEF At, Goto, locals, WaitLabels, ExitLabels, PtrLabels
  <2>1. CASE UNCHANGED <<pc, locals>>
    BY <1>1, <2>1
  <2>2. CASE pc'[p] \notin ExitLabels \cup WaitLabels
    BY <2>2
  <2>3. CASE \/ runprogram(p) \/ runprogram_fails(p) \/ fork(p) \/ fork_lock(p) \/ fork_pid(p)
             \/ fork_copy(p) \/ fork_put(p) \/ waitpid_return(p) \/ exit_destroy(p)
    <3>1. \/ UNCHANGED <<pc, locals>>
          \/ \E l \in {"user", "gone"} \cup ForkLabels : pc' = [pc EXCEPT ![p] = l]
      BY <2>3 DEF runprogram, runprogram_fails, fork, fork_lock, fork_pid, fork_copy, fork_put,
         waitpid_return, exit_destroy, lock_acquire, Panic, ForkLabels
    <3> QED  BY <1>1, <2>1, <2>2, <3>1 DEF LocalTypes, ForkLabels
  <2>4. CASE fork_thread(p)
    BY <2>2, <2>4, TwoMoves
  <2>5. CASE \E code \in ExitArgs : _exit(p, code)
    BY <1>1, <2>5 DEF LocalTypes, _exit
  <2>6. CASE \E pid \in PidMin .. MaxPid : waitpid(p, pid)
    BY <1>1, <2>6 DEF LocalTypes, waitpid
  <2>7. CASE UNCHANGED locals /\ \E l \in Labels :
                /\ pc' = [pc EXCEPT ![p] = l]
                /\ \/ pc[p] \in ExitLabels /\ l \in {"ex_find", "ex_remove", "ex_unlock", "ex_destroy"}
                   \/ pc[p] \in WaitLabels /\ l \in {"wp_find", "wp_loop", "wp_wait",
                                                     "wp_asleep", "wp_get"}
                   \/ pc[p] = "ex_rem" /\ ptr[p] # NoProc /\ l = "ex_plock"
                   \/ pc[p] = "ex_post" /\ l = "ex_punlock"
                   \/ pc[p] = "ex_punlock" /\ l = "ex_signal"
    BY <1>1, <2>7 DEF LocalTypes
  <2>8. CASE \/ exit_lock(p) \/ exit_rem(p) \/ exit_post(p) \/ exit_punlock(p) \/ exit_remove(p)
             \/ exit_unlock(p) \/ waitpid_lock(p) \/ waitpid_loop(p) \/ waitpid_again(p)
             \/ cv_wait(p) \/ cv_wait_relock(p)
    BY <2>1, <2>7, <2>8 DEF exit_lock, exit_rem, exit_post, exit_punlock, exit_remove,
       exit_unlock, waitpid_lock, waitpid_loop, waitpid_again, cv_wait, cv_wait_relock,
       lock_acquire, Labels
  <2>9. CASE exit_find(p) \/ waitpid_find(p)
    BY <1>1, <2>9, FoundSlot DEF LocalTypes, exit_find, waitpid_find
  <2>10. CASE exit_read(p) \/ waitpid_read(p)
    <3>1. ReadSlot(ptr[p]) \in Procs \cup {NoProc}
      BY <1>1, <2>10 DEF ReadSlot, TableTypes, exit_read, waitpid_read
    <3> QED  BY <1>1, <2>10, <3>1 DEF LocalTypes, exit_read, waitpid_read
  <2>11. CASE waitpid_exists(p) \/ waitpid_exited(p) \/ waitpid_child(p) \/ waitpid_get(p)
    <3>1. /\ UNCHANGED <<ptr, arg, excode>> /\ pc[p] \in WaitLabels
          /\ \E l \in {"wp_exited", "wp_return", "wp_clock", "wp_loop"} :
                pc' = [pc EXCEPT ![p] = l]
      BY <2>11 DEF waitpid_exists, waitpid_exited, waitpid_child, waitpid_get
    <3> QED  BY <1>1, <3>1 DEF LocalTypes
  <2>12. CASE exit_plock(p) \/ waitpid_clock(p)
    <3>1. CASE UNCHANGED <<pc, locals>>
      BY <2>1, <3>1
    <3>2. CASE ~UNCHANGED <<pc, locals>>
      <4>1. /\ ptr[p] \in alive /\ UNCHANGED locals /\ ops_lock[ptr[p]] = NoProc
            /\ \/ pc[p] = "ex_plock" /\ pc' = [pc EXCEPT ![p] = "ex_post"]
               \/ pc[p] = "wp_clock" /\ pc' = [pc EXCEPT ![p] = "wp_child"]
        BY <2>12, <3>2 DEF exit_plock, waitpid_clock, lock_acquire, Panic
      <4>2. ptr[p] # p
        BY <4>1, ProcFacts DEF BaseInv, HoldInv, Holds, OwnLabels
      <4> QED  BY <1>1, <4>1, <4>2 DEF LocalTypes, TableTypes
    <3> QED  BY <3>1, <3>2
  <2>13. CASE exit_signal(p)
    <3>1. UNCHANGED locals
      BY <2>13 DEF exit_signal, Panic
    <3> QED  BY <1>1, <2>1, <2>13, <3>1, TwoMoves
  <2> QED
    BY <2>3, <2>4, <2>5, <2>6, <2>8, <2>9, <2>10, <2>11, <2>12, <2>13 DEF Step, Call
<1> QED  BY <1>2, <1>3 DEF ArgInv

(* How a process comes to a label of fork.                                 *)
LEMMA ForkEdges ==
    ASSUME BaseInv, NEW p \in Procs, Step(p) \/ Call(p)
    PROVE  /\ pc'[p] = "fk_lock" => pc[p] = "fk_lock" \/ fork(p)
           /\ pc'[p] = "fk_pid" => pc[p] = "fk_lock"
           /\ pc[p] = "fk_lock" => pc'[p] \in {"fk_lock", "fk_pid"}
           /\ pc[p] = "fk_pid" => fork_pid(p)
           /\ pc'[p] = "fk_copy" => fork_pid(p)
           /\ pc'[p] = "fk_put" => fork_copy(p) /\ UNCHANGED <<alive, ptr>>
           /\ pc'[p] = "fk_thread" => fork_put(p)
<1>1. LocalTypes
  BY DEF BaseInv, TypeInv
<1>2. \/ UNCHANGED pc /\ pc[p] \notin {"fk_pid", "fk_copy", "fk_put", "fk_thread"}
      \/ fork(p) \/ fork_lock(p) \/ fork_pid(p) \/ fork_copy(p) \/ fork_put(p)
      \/ \E l : /\ pc' = [pc EXCEPT ![p] = l] /\ l \notin ForkLabels
               /\ pc[p] \notin ForkLabels
      \/ fork_thread(p) \/ exit_signal(p)
  BY DEF Step, Call, runprogram, runprogram_fails, fork, fork_lock, fork_pid, fork_copy,
     fork_put, fork_thread, _exit, exit_lock, exit_find, exit_read, exit_rem,
     exit_plock, exit_post, exit_punlock, exit_signal, exit_remove, exit_unlock,
     exit_destroy, waitpid, waitpid_lock, waitpid_find, waitpid_read, waitpid_exists,
     waitpid_exited, waitpid_clock, waitpid_child, waitpid_loop, waitpid_again,
     cv_wait, cv_wait_relock, waitpid_get, waitpid_return, At, Goto, lock_acquire,
     Panic, ForkLabels
<1>3. CASE fork(p) \/ fork_lock(p) \/ fork_pid(p) \/ fork_copy(p) \/ fork_put(p)
  BY <1>1, <1>3 DEF LocalTypes, fork, fork_lock, fork_pid, fork_copy, fork_put, lock_acquire,
     At, Goto, locals
<1>4. CASE fork_thread(p) \/ exit_signal(p)
  BY <1>4, TwoMoves
<1>5. CASE UNCHANGED pc /\ pc[p] \notin {"fk_pid", "fk_copy", "fk_put", "fk_thread"}
  BY <1>5
<1>6. ASSUME NEW l, pc' = [pc EXCEPT ![p] = l], l \notin ForkLabels, pc[p] \notin ForkLabels
      PROVE  pc'[p] \notin ForkLabels /\ pc[p] \notin ForkLabels
  BY <1>1, <1>6 DEF LocalTypes
<1> QED  BY <1>2, <1>3, <1>4, <1>5, <1>6 DEF ForkLabels

(* Every step keeps ForkInv.                                               *)
LEMMA ForkStep ==
    ASSUME BaseInv, NEW p \in Procs, Step(p) \/ Call(p)
    PROVE  ForkInv'
<1> SUFFICES ASSUME NEW u \in Procs, pc'[u] \in {"fk_copy", "fk_put", "fk_thread"}
             PROVE  /\ ptr'[u] \in PidMin .. MaxPid /\ ptr'[u] < next_pid'
                    /\ pc'[ptr'[u]] = "none" /\ ppid'[ptr'[u]] = u /\ ptr'[u] \in alive'
  BY DEF ForkInv
<1>1. LocalTypes /\ TableTypes /\ ForkInv
  BY DEF BaseInv, TypeInv
<1>2. pc[p] # "none"
  BY Moves
<1>3. CASE u # p
  <2>1. /\ ptr'[u] = ptr[u] /\ ptr[u] \in PidMin .. MaxPid /\ ptr[u] < next_pid
        /\ pc[ptr[u]] = "none" /\ ppid[ptr[u]] = u /\ ptr[u] \in alive /\ ptr[u] \in Procs
    <3>1. pc'[u] = pc[u] /\ ptr'[u] = ptr[u]
      BY <1>3, Frame
    <3> QED  BY <1>1, <3>1, ProcFacts DEF ForkInv
  <2>2. ptr[u] # p
    BY <1>2, <2>1
  <2>3. pc'[ptr[u]] = "none"
    <3>1. fork_thread(p) => ppid[ptr[p]] = p
      BY <1>1 DEF ForkInv, fork_thread, At
    <3> QED  BY <1>3, <2>1, <2>2, <3>1, Frame
  <2>4. ptr[u] < next_pid' /\ ppid'[ptr[u]] = u
    BY <1>1, <2>1, Changes, ProcTableAssumption DEF TableTypes, fork_pid, PidMin
  <2>5. ptr[u] \in alive'
    <3>1. fork_copy(p) => ppid[ptr[p]] = p
      BY <1>1 DEF ForkInv, fork_copy, At
    <3> QED  BY <1>3, <2>1, <2>2, <3>1, Changes DEF fork_pid, fork_copy, runprogram_fails,
                exit_destroy, proc_destroy, Panic
  <2> QED  BY <2>1, <2>3, <2>4, <2>5
<1>4. CASE u = p /\ fork_pid(p)
  <2>1. next_pid \in PidMin .. MaxPid /\ next_pid \in Procs /\ pc[next_pid] = "none"
    BY <1>4, NextPid DEF fork_pid, At
  <2>2. /\ ptr'[p] = next_pid /\ next_pid' = next_pid + 1 /\ ppid'[next_pid] = p
        /\ next_pid \in alive' /\ pc'[next_pid] = "none"
    BY <1>1, <1>2, <1>4, <2>1 DEF LocalTypes, TableTypes, fork_pid, Goto
  <2> QED  BY <1>4, <2>1, <2>2 DEF PidMin
<1>5. CASE u = p /\ ~fork_pid(p)
  <2>1. /\ (fork_copy(p) /\ UNCHANGED alive) \/ fork_put(p)
        /\ UNCHANGED <<ptr, next_pid, ppid, alive>>
        /\ pc[p] \in {"fk_copy", "fk_put"} /\ \E l : pc' = [pc EXCEPT ![p] = l]
    BY <1>5, ForkEdges, Changes DEF fork_copy, fork_put, locals, At, Goto
  <2>2. pc'[ptr[p]] = pc[ptr[p]]
    BY <1>1, <2>1 DEF LocalTypes, ForkInv
  <2> QED  BY <1>1, <1>5, <2>1, <2>2 DEF ForkInv
<1> QED  BY <1>3, <1>4, <1>5

(* Every step keeps PidInv.                                                *)
LEMMA PidStep ==
    ASSUME BaseInv, NEW p \in Procs, Step(p) \/ Call(p)
    PROVE  PidInv'
<1>1. LocalTypes /\ TableTypes /\ ForkInv /\ PidInv
  BY DEF BaseInv, TypeInv
<1>2. IsFiniteSet(Forking) /\ Cardinality(Forking) \in Nat
  BY ProcFacts, FS_Subset, FS_CardinalityType DEF Forking
<1>3. \A u \in Procs : u # p => (u \in Forking' <=> u \in Forking)
  BY Frame DEF Forking
<1>4. Forking \subseteq Procs /\ Forking' \subseteq Procs
  BY DEF Forking
<1>5. next_pid \in Int /\ MaxPid \in Int
  BY <1>1, ProcTableAssumption DEF TableTypes, PidMin
<1>6. next_pid' + Cardinality(Forking') <= MaxPid + 1
  <2>1. CASE fork(p)
    <3>1. Forking' = Forking \cup {p} /\ p \notin Forking
      BY <1>1, <1>3, <1>4, <2>1 DEF fork, At, Goto, Forking, LocalTypes
    <3>2. Cardinality(Forking') = Cardinality(Forking) + 1
      BY <1>2, <3>1, FS_AddElement
    <3>3. next_pid + Cardinality(Forking) <= MaxPid /\ next_pid' = next_pid
      BY <2>1 DEF fork, table, Forking
    <3> QED  BY <1>2, <1>5, <3>2, <3>3
  <2>2. CASE fork_pid(p)
    <3>1. pc[p] = "fk_pid" /\ pc'[p] = "fk_copy" /\ next_pid' = next_pid + 1
      BY <1>1, <2>2 DEF fork_pid, At, Goto, LocalTypes
    <3>2. Forking' = Forking \ {p} /\ p \in Forking
      BY <1>3, <1>4, <3>1 DEF Forking
    <3>3. Cardinality(Forking') = Cardinality(Forking) - 1
      BY <1>2, <3>2, FS_RemoveElement
    <3> QED  BY <1>1, <1>2, <1>5, <3>1, <3>3 DEF PidInv
  <2>3. CASE ~fork(p) /\ ~fork_pid(p)
    <3>1. p \in Forking' <=> p \in Forking
      BY <2>3, ForkEdges DEF Forking
    <3>2. Forking' = Forking
      BY <1>3, <1>4, <3>1
    <3> QED  BY <1>1, <2>3, <3>2, Changes DEF PidInv
  <2> QED  BY <2>1, <2>2, <2>3
<1>7. ASSUME NEW q \in Procs, q >= next_pid' PROVE pc'[q] = "none"
  <2>1. q >= next_pid /\ q \in Nat
    BY <1>5, <1>7, Changes, ProcFacts DEF fork_pid
  <2>2. pc[q] = "none"
    BY <1>1, <2>1 DEF PidInv
  <2>3. q # p
    BY <2>2, Moves
  <2>4. fork_thread(p) => ptr[p] < next_pid /\ ptr[p] \in Int
    BY <1>1, ProcFacts DEF ForkInv, fork_thread, At
  <2> QED  BY <1>5, <2>1, <2>2, <2>3, <2>4, Frame
<1> QED  BY <1>6, <1>7 DEF PidInv

-----------------------------------------------------------------------------
(* BaseInv holds in every state.                                           *)
LEMMA BaseInit == Init => BaseInv
<1> SUFFICES ASSUME Init PROVE BaseInv
  OBVIOUS
<1>1. TableTypes
  BY ProcFacts, ProcTableAssumption DEF Init, TableTypes, PidMin
<1>2. LockTypes
  BY DEF Init, LockTypes
<1>3. LocalTypes
  BY NoResultType DEF Init, LocalTypes, Labels
<1>4. ArgInv /\ ForkInv
  BY DEF Init, ArgInv, ForkInv, ExitLabels, WaitLabels, PtrLabels
<1>5. PidInv
  <2>1. Forking = {}
    BY DEF Init, Forking
  <2>2. Cardinality(Forking) = 0
    BY <2>1, FS_EmptySet
  <2> QED  BY <2>2, ProcTableAssumption DEF Init, PidInv, PidMin
<1>6. HoldInv
  BY ProcFacts DEF Init, HoldInv, Holds, OwnLabels, PtrLabels
<1> QED  BY <1>1, <1>2, <1>3, <1>4, <1>5, <1>6 DEF BaseInv, TypeInv

(* Every step keeps BaseInv.                                               *)
LEMMA BaseStep == BaseInv /\ [Next]_vars => BaseInv'
<1> SUFFICES ASSUME BaseInv, [Next]_vars PROVE BaseInv'
  OBVIOUS
<1>1. ASSUME NEW p \in Procs, Step(p) \/ Call(p) PROVE BaseInv'
  BY <1>1, LocalTypesStep, LockTypesStep, TableTypesStep, ArgStep, ForkStep, PidStep, HoldStep
     DEF BaseInv, TypeInv
<1>2. CASE UNCHANGED vars
  BY <1>2 DEF vars, table, locks, locals, BaseInv, TypeInv, TableTypes, LockTypes, LocalTypes,
     ArgInv, ForkInv, PidInv, Forking, HoldInv, Holds
<1> QED  BY <1>1, <1>2 DEF Next

(* It holds in every reachable state.                                      *)
LEMMA BaseAlways == Spec => []BaseInv
  BY BaseInit, BaseStep, PTL DEF Spec

(* Every way out of fork, waitpid and _exit has released what it took,     *)
(* whatever fails on the way: a process in user mode, asleep in cv_wait or *)
(* gone holds no ops_lock.                                                 *)
THEOREM LocksGivenBack == Spec => []LocksReleased
<1>1. BaseInv => LocksReleased
  BY DEF BaseInv, HoldInv, Holds, LocksReleased, Holding, OwnLabels, PtrLabels
<1> QED  BY <1>1, BaseAlways, PTL

-----------------------------------------------------------------------------
(* The exit codes, without the types.                                      *)
CodesInv == \A c \in active_exit_codes :
    /\ c.exit_code = _MKWAIT_EXIT(excode[c.pid])
    /\ c.ppid = ppid[c.pid]
    /\ pc[c.pid] \in PostedLabels
    /\ \A d \in active_exit_codes : d.pid = c.pid => d = c

(* A process has removed itself from the table.                            *)
RemovedLabels == {"ex_unlock", "ex_destroy", "gone"}

(* How a process comes to a label of _exit.                                *)
LEMMA ExitEdges ==
    ASSUME BaseInv, NEW p \in Procs, Step(p) \/ Call(p)
    PROVE  /\ pc'[p] = "ex_read" => exit_find(p)
           /\ pc'[p] = "ex_rem" => exit_read(p)
           /\ pc'[p] = "ex_plock" => /\ UNCHANGED ptr
                                     /\ pc[p] = "ex_plock" \/ (pc[p] = "ex_rem" /\ ptr[p] # NoProc)
           /\ pc'[p] = "ex_post" => UNCHANGED ptr /\ pc[p] = "ex_plock"
           /\ pc'[p] = "ex_punlock" => UNCHANGED ptr /\ pc[p] = "ex_post"
           /\ pc'[p] = "ex_signal" => UNCHANGED ptr /\ pc[p] \in {"ex_punlock", "ex_signal"}
           /\ pc[p] \in PostedLabels => pc'[p] \in PostedLabels
           /\ pc[p] \in RemovedLabels => pc'[p] \in RemovedLabels
           /\ pc[p] = "ex_post" => exit_post(p) /\ pc'[p] = "ex_punlock"
<1>1. LocalTypes
  BY DEF BaseInv, TypeInv
<1>2. CASE \/ runprogram(p) \/ fork_lock(p) \/ fork_pid(p) \/ fork_copy(p) \/ fork_put(p)
           \/ waitpid_lock(p) \/ waitpid_find(p) \/ waitpid_read(p) \/ waitpid_exists(p)
           \/ waitpid_exited(p) \/ waitpid_clock(p) \/ waitpid_child(p) \/ waitpid_loop(p)
           \/ waitpid_again(p) \/ cv_wait(p) \/ cv_wait_relock(p) \/ waitpid_get(p)
           \/ waitpid_return(p) \/ Call(p)
  <2>1. pc[p] \notin ExitLabels \cup PostedLabels
    BY <1>2 DEF runprogram, runprogram_fails, fork, fork_lock, fork_pid, fork_copy, fork_put,
       waitpid_lock, waitpid_find, waitpid_read, waitpid_exists, waitpid_exited, waitpid_clock,
       waitpid_child, waitpid_loop, waitpid_again, cv_wait, cv_wait_relock, waitpid_get,
       waitpid_return, Call, _exit, waitpid, At, ExitLabels, PostedLabels
  <2>2. UNCHANGED pc \/ \E l \in Labels : /\ pc' = [pc EXCEPT ![p] = l]
                                         /\ l \notin ExitLabels \ {"ex_lock"}
    BY <1>2 DEF runprogram, runprogram_fails, fork, fork_lock, fork_pid, fork_copy, fork_put,
       waitpid_lock, waitpid_find, waitpid_read, waitpid_exists, waitpid_exited, waitpid_clock,
       waitpid_child, waitpid_loop, waitpid_again, cv_wait, cv_wait_relock, waitpid_get,
       waitpid_return, Call, _exit, waitpid,
       Goto, lock_acquire, Panic, ExitLabels, Labels, ForkLabels, WaitLabels
  <2>3. pc'[p] \notin ExitLabels \ {"ex_lock"}
    BY <1>1, <2>1, <2>2 DEF LocalTypes
  <2> QED  BY <2>1, <2>3 DEF ExitLabels, PostedLabels, RemovedLabels
<1>3. CASE \/ exit_lock(p) \/ exit_find(p) \/ exit_read(p) \/ exit_rem(p) \/ exit_plock(p)
           \/ exit_post(p) \/ exit_punlock(p) \/ exit_remove(p) \/ exit_unlock(p)
           \/ exit_destroy(p)
  BY <1>1, <1>3 DEF LocalTypes, exit_lock, exit_find, exit_read, exit_rem, exit_plock, exit_post,
     exit_punlock, exit_remove, exit_unlock, exit_destroy, lock_acquire, Panic, At, Goto, locals,
     RemovedLabels, PostedLabels
<1>4. CASE fork_thread(p) \/ exit_signal(p)
  BY <1>4, TwoMoves DEF RemovedLabels, PostedLabels
<1> QED  BY <1>2, <1>3, <1>4 DEF Step

(* A process past post_exit_code stays there, and one that has removed     *)
(* itself stays removed, whoever takes the step.                           *)
LEMMA PostedStays ==
    ASSUME BaseInv, NEW p \in Procs, Step(p) \/ Call(p), NEW u \in Procs
    PROVE  /\ pc[u] \in PostedLabels => /\ pc'[u] \in PostedLabels
                                        /\ excode'[u] = excode[u] /\ ppid'[u] = ppid[u]
           /\ pc[u] \in RemovedLabels => pc'[u] \in RemovedLabels
           /\ pc'[u] # "none" => ppid'[u] = ppid[u]
<1>1. TableTypes /\ LocalTypes
  BY DEF BaseInv, TypeInv
<1>2. pc[u] \in PostedLabels => pc'[u] \in PostedLabels
  BY ExitEdges, Frame DEF PostedLabels
<1>3. pc[u] \in RemovedLabels => pc'[u] \in RemovedLabels
  BY ExitEdges, Frame DEF RemovedLabels
<1>4. pc[u] \in PostedLabels => excode'[u] = excode[u]
  <2>1. \A code \in ExitArgs : _exit(p, code) => pc[p] \notin PostedLabels
    BY DEF _exit, At, PostedLabels
  <2> QED  BY <2>1, Frame, Changes
<1>5. pc'[u] # "none" \/ pc[u] # "none" => ppid'[u] = ppid[u]
  <2>1. CASE fork_pid(p)
    <3>1. pc[next_pid] = "none" /\ next_pid \in Procs /\ pc[p] # "none"
      BY <2>1, NextPid DEF fork_pid, At
    <3>2. pc'[next_pid] = "none" /\ (u # next_pid => ppid'[u] = ppid[u])
      BY <1>1, <2>1, <3>1 DEF fork_pid, Goto, LocalTypes, TableTypes
    <3> QED  BY <3>1, <3>2
  <2> QED  BY <2>1, Changes
<1> QED  BY <1>2, <1>3, <1>4, <1>5 DEF PostedLabels

(* What a step does to the exit codes: codes are added by exit_post only,  *)
(* and those addressed to a parent removed by that parent only.            *)
LEMMA CodesChange ==
    ASSUME BaseInv, NEW p \in Procs, Step(p) \/ Call(p)
    PROVE  /\ \A c \in active_exit_codes' : c \in active_exit_codes \/
                 (/\ pc[p] = "ex_post" /\ pc'[p] = "ex_punlock"
                  /\ c = [ppid |-> ppid[p], pid |-> p, exit_code |-> _MKWAIT_EXIT(excode[p])])
           /\ \A c \in active_exit_codes : c \in active_exit_codes' \/
                 (pc[p] \in {"ex_rem", "wp_get"} /\ c.ppid = p)
<1>1. CASE exit_rem(p)
  BY <1>1 DEF exit_rem, rem_all_exit_codes, At
<1>2. CASE waitpid_get(p)
  BY <1>2 DEF waitpid_get, get_exit_code, At
<1>3. CASE exit_post(p)
  BY <1>3, ExitEdges DEF exit_post, post_exit_code, At
<1> QED  BY <1>1, <1>2, <1>3, Changes

(* Every step keeps CodesInv.                                              *)
LEMMA CodesStep ==
    ASSUME BaseInv, CodesInv, NEW p \in Procs, Step(p) \/ Call(p)
    PROVE  CodesInv'
<1>1. ASSUME NEW c \in active_exit_codes
      PROVE  /\ c.pid \in Procs /\ pc'[c.pid] \in PostedLabels
             /\ c.exit_code = _MKWAIT_EXIT(excode'[c.pid]) /\ c.ppid = ppid'[c.pid]
  <2>1. c.pid \in Procs
    BY DEF BaseInv, TypeInv, TableTypes, CodeSet
  <2> QED  BY <2>1, PostedStays DEF CodesInv
<1>2. ASSUME NEW c \in active_exit_codes, pc[p] = "ex_post" PROVE c.pid # p
  BY <1>2 DEF CodesInv, PostedLabels
<1> DEFINE new == [ppid |-> ppid[p], pid |-> p, exit_code |-> _MKWAIT_EXIT(excode[p])]
<1>3. CASE active_exit_codes' \subseteq active_exit_codes
  <2> SUFFICES ASSUME NEW c \in active_exit_codes'
               PROVE  /\ c.exit_code = _MKWAIT_EXIT(excode'[c.pid])
                      /\ c.ppid = ppid'[c.pid]
                      /\ pc'[c.pid] \in PostedLabels
                      /\ \A d \in active_exit_codes' : d.pid = c.pid => d = c
    BY DEF CodesInv, _MKWAIT_EXIT
  <2> QED  BY <1>1, <1>3 DEF CodesInv
<1>4. CASE pc[p] = "ex_post" /\ pc'[p] = "ex_punlock" /\ active_exit_codes' \subseteq active_exit_codes \cup {new}
  <2> SUFFICES ASSUME NEW c \in active_exit_codes'
               PROVE  /\ c.exit_code = _MKWAIT_EXIT(excode'[c.pid])
                      /\ c.ppid = ppid'[c.pid]
                      /\ pc'[c.pid] \in PostedLabels
                      /\ \A d \in active_exit_codes' : d.pid = c.pid => d = c
    BY DEF CodesInv, _MKWAIT_EXIT
  <2>1. new.pid = p /\ new.ppid = ppid[p] /\ new.exit_code = _MKWAIT_EXIT(excode[p])
    OBVIOUS
  <2>2. excode'[p] = excode[p] /\ ppid'[p] = ppid[p]
    BY <1>4, PostedStays, Changes DEF _exit, At
  <2>3. CASE c = new
    BY <1>2, <1>4, <2>1, <2>2, <2>3 DEF PostedLabels
  <2>4. CASE c \in active_exit_codes
    BY <1>1, <1>2, <1>4, <2>1, <2>4 DEF CodesInv
  <2> QED  BY <1>4, <2>3, <2>4
<1> QED  BY <1>3, <1>4, CodesChange

(* A process that found its parent in the table has a pointer to it, or    *)
(* the parent has taken itself off the table since.                        *)
ParentInv == \A w \in Procs :
    /\ pc[w] = "ex_read" /\ ptr[w] # NoProc =>
         /\ ppid[w] # NoProc
         /\ proc_array[ptr[w]] = ppid[w] \/ pc[ppid[w]] \in RemovedLabels
    /\ pc[w] \in {"ex_rem", "ex_plock", "ex_post", "ex_punlock", "ex_signal"} /\ ptr[w] # NoProc =>
         /\ ppid[w] # NoProc
         /\ ptr[w] = ppid[w] \/ pc[ppid[w]] \in RemovedLabels

(* A slot is emptied by its process only, when that removes itself.        *)
LEMMA SlotStays ==
    ASSUME BaseInv, NEW p \in Procs, Step(p) \/ Call(p), NEW i \in Slots,
           proc_array[i] # NoProc
    PROVE  proc_array'[i] = proc_array[i] \/ (exit_remove(p) /\ proc_array[i] = p /\ pc'[p] \in RemovedLabels)
<1>1. TableTypes /\ LocalTypes /\ ForkInv
  BY DEF BaseInv, TypeInv
<1>2. CASE fork_put(p)
  <2>1. ptr[p] \in Procs /\ put_proc_on_proctable(ptr[p])
    BY <1>1, <1>2, ProcFacts DEF fork_put, At, ForkInv
  <2> QED  BY <1>1, <2>1, PutFacts DEF TableTypes
<1>3. CASE exit_remove(p)
  <2>1. \/ UNCHANGED proc_array
        \/ /\ find_slot(p) # NoProc
           /\ proc_array' = [proc_array EXCEPT ![find_slot(p)] = NoProc]
    BY <1>3 DEF exit_remove, remove_proc_from_proctable
  <2>2. find_slot(p) # NoProc => proc_array[find_slot(p)] = p
    BY FoundSlot
  <2>3. pc'[p] = "ex_unlock"
    BY <1>1, <1>3 DEF exit_remove, Goto, LocalTypes
  <2> QED  BY <1>1, <1>3, <2>1, <2>2, <2>3 DEF TableTypes, RemovedLabels
<1> QED  BY <1>2, <1>3, Changes

(* Every step keeps ParentInv.                                             *)
LEMMA ParentStep ==
    ASSUME BaseInv, ParentInv, NEW p \in Procs, Step(p) \/ Call(p)
    PROVE  ParentInv'
<1> SUFFICES ASSUME NEW w \in Procs, ptr'[w] # NoProc
             PROVE  /\ pc'[w] = "ex_read" =>
                         /\ ppid'[w] # NoProc
                         /\ proc_array'[ptr'[w]] = ppid'[w] \/ pc'[ppid'[w]] \in RemovedLabels
                    /\ pc'[w] \in {"ex_rem", "ex_plock", "ex_post", "ex_punlock", "ex_signal"} =>
                         /\ ppid'[w] # NoProc
                         /\ ptr'[w] = ppid'[w] \/ pc'[ppid'[w]] \in RemovedLabels
  BY DEF ParentInv, RemovedLabels
<1>1. TableTypes /\ LocalTypes /\ ArgInv
  BY DEF BaseInv, TypeInv
<1>2. pc'[w] # "none" => ppid'[w] = ppid[w]
  BY PostedStays
<1>3. ppid[w] # NoProc => ppid[w] \in Procs /\ (pc[ppid[w]] \in RemovedLabels => pc'[ppid[w]] \in RemovedLabels)
  BY <1>1, PostedStays DEF TableTypes
<1>4. CASE w = p
  <2>1. CASE exit_find(p)
    <3>1. ptr'[p] = find_slot(ppid[p]) /\ UNCHANGED proc_array /\ pc'[p] = "ex_read"
      BY <1>1, <2>1 DEF exit_find, table, LocalTypes, Goto
    <3> QED  BY <1>2, <1>4, <3>1, FoundSlot
  <2>2. CASE exit_read(p)
    <3>1. ptr'[p] = ReadSlot(ptr[p]) /\ pc'[p] = "ex_rem" /\ pc[p] = "ex_read"
      BY <1>1, <2>2 DEF exit_read, LocalTypes, Goto, At
    <3>2. ptr[p] # NoProc /\ ptr'[p] = proc_array[ptr[p]]
      BY <1>4, <3>1 DEF ReadSlot
    <3> QED  BY <1>2, <1>3, <1>4, <3>1, <3>2 DEF ParentInv
  <2>3. CASE ~exit_find(p) /\ ~exit_read(p)
    BY <1>2, <1>3, <1>4, <2>3, ExitEdges DEF ParentInv
  <2> QED  BY <2>1, <2>2, <2>3
<1>5. CASE w # p
  <2>1. ptr'[w] = ptr[w] /\ (pc'[w] = pc[w] \/ pc'[w] \in {"user", "wp_relock"})
    BY <1>5, Frame
  <2>2. CASE pc[w] = "ex_read" /\ pc'[w] = "ex_read"
    <3>1. /\ ptr[w] \in Slots /\ ppid[w] # NoProc /\ ppid'[w] = ppid[w]
          /\ proc_array[ptr[w]] = ppid[w] \/ pc[ppid[w]] \in RemovedLabels
      BY <1>1, <1>2, <2>1, <2>2 DEF ParentInv, ArgInv
    <3>2. CASE pc[ppid[w]] \in RemovedLabels
      BY <1>3, <2>1, <2>2, <3>1, <3>2
    <3>3. CASE proc_array[ptr[w]] = ppid[w]
      BY <2>1, <2>2, <3>1, <3>3, SlotStays
    <3> QED  BY <3>1, <3>2, <3>3
  <2>3. CASE pc'[w] = pc[w] /\ pc[w] # "ex_read"
    BY <1>2, <1>3, <2>1, <2>3 DEF ParentInv
  <2> QED  BY <2>1, <2>2, <2>3
<1> QED  BY <1>4, <1>5

(* How a process comes to sleep, to collect a code and to have a status.   *)
LEMMA WaitEdges ==
    ASSUME BaseInv, NEW p \in Procs, Step(p) \/ Call(p)
    PROVE  /\ pc'[p] = "wp_wait" => waitpid_again(p)
           /\ pc'[p] = "wp_asleep" => pc[p] = "wp_wait" /\ cv_wait(p)
           /\ pc'[p] = "wp_get" => waitpid_loop(p)
           /\ result'[p].status # NoStatus => result'[p] = result[p] \/ waitpid_get(p)
<1>1. LocalTypes
  BY DEF BaseInv, TypeInv
<1>2. \/ waitpid_again(p) \/ cv_wait(p) \/ waitpid_loop(p)
      \/ UNCHANGED pc /\ pc[p] \notin {"wp_wait", "wp_asleep", "wp_get"}
      \/ (\E l \in Labels : /\ pc' = [pc EXCEPT ![p] = l]
                           /\ l \notin {"wp_wait", "wp_asleep", "wp_get"})
      \/ fork_thread(p) \/ exit_signal(p)
  BY DEF Step, Call, runprogram, runprogram_fails, fork, fork_lock, fork_pid, fork_copy,
     fork_put, fork_thread, _exit, exit_lock, exit_find, exit_read, exit_rem,
     exit_plock, exit_post, exit_punlock, exit_signal, exit_remove, exit_unlock,
     exit_destroy, waitpid, waitpid_lock, waitpid_find, waitpid_read, waitpid_exists,
     waitpid_exited, waitpid_clock, waitpid_child, waitpid_loop, waitpid_again,
     cv_wait, cv_wait_relock, waitpid_get, waitpid_return, At, Goto, lock_acquire,
     Panic, Labels, ForkLabels, ExitLabels, WaitLabels
<1> DEFINE W == /\ pc'[p] = "wp_wait" => waitpid_again(p)
                /\ pc'[p] = "wp_asleep" => pc[p] = "wp_wait" /\ cv_wait(p)
                /\ pc'[p] = "wp_get" => waitpid_loop(p)
<1>3. waitpid_again(p) \/ cv_wait(p) \/ waitpid_loop(p) => W
  BY <1>1 DEF LocalTypes, waitpid_again, cv_wait, waitpid_loop, At, Goto
<1>4. fork_thread(p) \/ exit_signal(p) => W
  BY TwoMoves
<1>5. W
  BY <1>1, <1>2, <1>3, <1>4 DEF LocalTypes
<1>6. \/ UNCHANGED result \/ waitpid_get(p)
      \/ result' = [result EXCEPT ![p] = NoResult]
      \/ \E err : Return(p, err, NoStatus)
  BY DEF Step, Call, runprogram, runprogram_fails, fork, fork_lock, fork_pid, fork_copy,
     fork_put, fork_thread, _exit, exit_lock, exit_find, exit_read, exit_rem,
     exit_plock, exit_post, exit_punlock, exit_signal, exit_remove, exit_unlock,
     exit_destroy, waitpid, waitpid_lock, waitpid_find, waitpid_read, waitpid_exists,
     waitpid_exited, waitpid_clock, waitpid_child, waitpid_loop, waitpid_again,
     cv_wait, cv_wait_relock, waitpid_get, waitpid_return, Panic, Forget, locals
<1>7. result'[p].status # NoStatus => result'[p] = result[p] \/ waitpid_get(p)
  BY <1>1, <1>6 DEF LocalTypes, NoResult, Return
<1> QED  BY <1>5, <1>7

(* A parent that saw no code of its child and has not slept yet still      *)
(* holds the ops_lock under which the child posts it.                      *)
WaitInv == \A p \in Procs :
    pc[p] = "wp_wait" /\ ppid[arg[p]] = p => ~is_proc_exited(arg[p])

(* A waiter that saw the code of a process collects it next; that process  *)
(* has exited, and so has one whose status is stored.                      *)
GetInv == \A p \in Procs :
    /\ pc[p] = "wp_get" => pc[arg[p]] \in PostedLabels
    /\ pc[p] = "wp_get" /\ ppid[arg[p]] = p => is_proc_exited(arg[p])
    /\ result[p].status # NoStatus =>
          result[p].pid \in Procs /\ pc[result[p].pid] \in PostedLabels

ExitInv == BaseInv /\ CodesInv /\ ParentInv /\ WaitInv /\ GetInv /\ NoLostExit /\ StatusSound

(* A code newly in the table is the one that p just posted.                *)
LEMMA NewlyExited ==
    ASSUME BaseInv, NEW p \in Procs, Step(p) \/ Call(p), NEW w, is_proc_exited(w)'
    PROVE  is_proc_exited(w) \/ (w = p /\ pc[p] = "ex_post" /\ pc'[p] = "ex_punlock")
<1>1. PICK c \in active_exit_codes' : c.pid = w
  BY DEF is_proc_exited
<1>2. CASE c \in active_exit_codes
  BY <1>1, <1>2 DEF is_proc_exited
<1>3. CASE /\ pc[p] = "ex_post" /\ pc'[p] = "ex_punlock"
           /\ c = [ppid |-> ppid[p], pid |-> p, exit_code |-> _MKWAIT_EXIT(excode[p])]
  BY <1>1, <1>3
<1> QED  BY <1>2, <1>3, CodesChange

(* A process that posts its code has the ops_lock of its parent, if that   *)
(* is still at work.                                                       *)
LEMMA PosterHolds ==
    ASSUME BaseInv, ParentInv, NEW w \in Procs, pc[w] = "ex_post", NEW p \in Procs, ppid[w] = p,
           pc[p] \notin RemovedLabels
    PROVE  ptr[w] = p /\ ops_lock[p] = w /\ w # p
<1>1. ptr[w] \in Procs /\ ptr[w] # w
  BY DEF BaseInv, ArgInv, PtrLabels
<1>2. ptr[w] = p
  BY <1>1, ProcFacts DEF ParentInv
<1> QED  BY <1>1, <1>2 DEF BaseInv, HoldInv, Holds, PtrLabels

(* Every step keeps WaitInv.                                               *)
LEMMA WaitStep ==
    ASSUME ExitInv, NEW p \in Procs, Step(p) \/ Call(p)
    PROVE  WaitInv'
<1> USE DEF ExitInv
<1>1. LocalTypes /\ TableTypes
  BY DEF BaseInv, TypeInv
<1>2. ASSUME NEW u \in Procs, NEW w \in Procs, pc'[u] = "wp_wait", arg'[u] = w, ppid'[w] = u,
             is_proc_exited(w)'
      PROVE  FALSE
  <2>1. is_proc_exited(w) \/ (w = p /\ pc[p] = "ex_post" /\ pc'[p] = "ex_punlock")
    BY <1>2, NewlyExited
  <2>2. is_proc_exited(w) => pc[w] \in PostedLabels
    BY DEF CodesInv, is_proc_exited
  <2>3. ppid[w] = u
    BY <1>2, <2>1, <2>2, PostedStays
  <2>4. CASE u = p
    <3>1. waitpid_again(p)
      BY <1>2, <2>4, WaitEdges
    <3> QED  BY <1>2, <2>1, <2>4, <3>1 DEF waitpid_again, At, locals
  <2>5. CASE u # p
    <3>1. pc[u] = "wp_wait" /\ arg[u] = w
      BY <1>2, <2>5, Frame
    <3>2. ~is_proc_exited(w)
      BY <2>3, <3>1 DEF WaitInv
    <3>3. ops_lock[u] = p
      BY <2>1, <2>3, <3>1, <3>2, PosterHolds DEF RemovedLabels
    <3> QED  BY <2>5, <3>1, <3>3 DEF BaseInv, HoldInv, Holds, OwnLabels
  <2> QED  BY <2>4, <2>5
<1>3. \A u \in Procs : pc'[u] = "wp_wait" => arg'[u] \in Procs
  BY ArgStep, ProcFacts DEF ArgInv, WaitLabels
<1> QED  BY <1>2, <1>3 DEF WaitInv, is_proc_exited

(* Every step keeps NoLostExit.                                            *)
LEMMA LostStep ==
    ASSUME ExitInv, NEW p \in Procs, Step(p) \/ Call(p)
    PROVE  NoLostExit'
<1> USE DEF ExitInv
<1> SUFFICES ASSUME NEW u \in Procs, NEW w \in Procs, pc'[u] = "wp_asleep", arg'[u] = w,
                    ppid'[w] = u, is_proc_exited(w)'
             PROVE  pc'[w] \in {"ex_punlock", "ex_signal"} /\ ptr'[w] = u
  BY DEF NoLostExit
<1>1. LocalTypes /\ TableTypes
  BY DEF BaseInv, TypeInv
<1>2. is_proc_exited(w) \/ (w = p /\ pc[p] = "ex_post" /\ pc'[p] = "ex_punlock")
  BY NewlyExited
<1>3. is_proc_exited(w) => pc[w] \in PostedLabels
  BY DEF CodesInv, is_proc_exited
<1>4. ppid[w] = u
  BY <1>2, <1>3, PostedStays
<1>5. CASE u = p
  <2>1. pc[p] = "wp_wait" /\ arg[p] = w
    BY <1>5, WaitEdges DEF cv_wait, locals
  <2> QED  BY <1>2, <1>4, <1>5, <2>1 DEF WaitInv
<1>6. CASE u # p /\ is_proc_exited(w)
  <2>1. pc[u] = "wp_asleep" /\ arg[u] = w
    BY <1>6, Frame
  <2>2. pc[w] \in {"ex_punlock", "ex_signal"} /\ ptr[w] = u
    BY <1>4, <1>6, <2>1 DEF NoLostExit
  <2>3. CASE w # p
    BY <2>2, <2>3, Frame
  <2>4. CASE w = p
    <3>1. exit_punlock(p) \/ exit_signal(p)
      BY <2>2, <2>4 DEF Step, Call, runprogram, runprogram_fails, fork, fork_lock, fork_pid, fork_copy,
     fork_put, fork_thread, _exit, exit_lock, exit_find, exit_read, exit_rem,
     exit_plock, exit_post, exit_punlock, exit_signal, exit_remove, exit_unlock,
     exit_destroy, waitpid, waitpid_lock, waitpid_find, waitpid_read, waitpid_exists,
     waitpid_exited, waitpid_clock, waitpid_child, waitpid_loop, waitpid_again,
     cv_wait, cv_wait_relock, waitpid_get, waitpid_return, At
    <3>2. CASE exit_punlock(p)
      BY <1>1, <2>2, <2>4, <3>2 DEF exit_punlock, Goto, locals, LocalTypes
    <3>3. CASE exit_signal(p)
      <4>1. \/ UNCHANGED <<pc, ptr>>
            \/ pc' = [pc EXCEPT ![p] = "ex_remove",
                         ![u] = IF @ = "wp_asleep" THEN "wp_relock" ELSE @]
        BY <2>2, <2>4, <3>3 DEF exit_signal, cv_signal, Panic, locals
      <4>2. pc'[u] = "wp_relock" \/ UNCHANGED <<pc, ptr>>
        BY <1>1, <1>6, <2>1, <4>1 DEF LocalTypes
      <4> QED  BY <2>2, <2>4, <4>2
    <3> QED  BY <3>1, <3>2, <3>3
  <2> QED  BY <2>3, <2>4
<1>7. CASE u # p /\ w = p /\ pc[p] = "ex_post" /\ pc'[p] = "ex_punlock"
  <2>1. pc[u] = "wp_asleep"
    BY <1>7, Frame
  <2>2. ptr[p] = u
    BY <1>4, <1>7, <2>1, PosterHolds DEF RemovedLabels
  <2> QED  BY <1>7, <2>2, ExitEdges
<1> QED  BY <1>2, <1>5, <1>6, <1>7

(* Every step keeps GetInv.                                                *)
LEMMA GetStep ==
    ASSUME ExitInv, NEW p \in Procs, Step(p) \/ Call(p)
    PROVE  GetInv'
<1> USE DEF ExitInv
<1>1. LocalTypes /\ TableTypes
  BY DEF BaseInv, TypeInv
<1>2. \A u \in Procs : pc[u] \in PostedLabels => pc'[u] \in PostedLabels
  BY PostedStays
<1>3. ASSUME NEW u \in Procs, NEW w \in Procs, pc'[u] = "wp_get", arg'[u] = w
      PROVE  pc'[w] \in PostedLabels /\ (ppid'[w] = u => is_proc_exited(w)')
  <2>1. CASE u = p
    <3>1. waitpid_loop(p) /\ is_proc_exited(w) /\ UNCHANGED active_exit_codes
      BY <1>3, <2>1, WaitEdges DEF waitpid_loop, locals, table
    <3>2. pc[w] \in PostedLabels
      BY <3>1 DEF CodesInv, is_proc_exited
    <3> QED  BY <1>2, <3>1, <3>2 DEF is_proc_exited
  <2>2. CASE u # p
    <3>1. pc[u] = "wp_get" /\ arg[u] = w
      BY <1>3, <2>2, Frame
    <3>2. pc[w] \in PostedLabels /\ (ppid[w] = u => is_proc_exited(w))
      BY <3>1 DEF GetInv
    <3>3. ASSUME ppid'[w] = u PROVE is_proc_exited(w)'
      <4>1. ppid[w] = u
        BY <3>2, <3>3, PostedStays
      <4>2. PICK c \in active_exit_codes : c.pid = w
        BY <3>2, <4>1 DEF is_proc_exited
      <4>3. c.ppid = u
        BY <4>1, <4>2 DEF CodesInv
      <4> QED  BY <2>2, <4>2, <4>3, CodesChange DEF is_proc_exited
    <3> QED  BY <1>2, <3>2, <3>3
  <2> QED  BY <2>1, <2>2
<1>4. ASSUME NEW u \in Procs, result'[u].status # NoStatus
      PROVE  result'[u].pid \in Procs /\ pc'[result'[u].pid] \in PostedLabels
  <2>1. CASE result'[u] = result[u]
    BY <1>2, <1>4, <2>1 DEF GetInv
  <2>2. CASE u = p /\ waitpid_get(p)
    <3>1. result'[p].pid = arg[p] /\ pc[p] = "wp_get"
      BY <1>1, <2>2 DEF waitpid_get, copyout, Return, At, LocalTypes
    <3>2. arg[p] \in Procs /\ pc[arg[p]] \in PostedLabels
      BY <3>1, ProcFacts DEF BaseInv, ArgInv, WaitLabels, GetInv
    <3> QED  BY <1>2, <2>2, <3>1, <3>2
  <2> QED  BY <1>4, <2>1, <2>2, Frame, WaitEdges
<1>5. \A u \in Procs : pc'[u] = "wp_get" => arg'[u] \in Procs
  BY ArgStep, ProcFacts DEF ArgInv, WaitLabels
<1> QED  BY <1>3, <1>4, <1>5 DEF GetInv, is_proc_exited

(* Every step keeps StatusSound.                                           *)
LEMMA StatusStep ==
    ASSUME ExitInv, NEW p \in Procs, Step(p) \/ Call(p)
    PROVE  StatusSound'
<1> USE DEF ExitInv
<1> SUFFICES ASSUME NEW u \in Procs, NEW w \in Procs, result'[u].pid = w,
                    result'[u].status # NoStatus, ppid'[w] = u
             PROVE  /\ result'[u].status = _MKWAIT_EXIT(excode'[w])
                    /\ pc'[w] \in PostedLabels /\ ~is_proc_exited(w)'
  BY DEF StatusSound, _MKWAIT_EXIT
<1>1. LocalTypes /\ TableTypes
  BY DEF BaseInv, TypeInv
<1>2. CASE result'[u] = result[u]
  <2>1. pc[w] \in PostedLabels
    BY <1>2 DEF GetInv
  <2>2. ppid[w] = u /\ excode'[w] = excode[w] /\ pc'[w] \in PostedLabels
    BY <2>1, PostedStays
  <2>3. result[u].status = _MKWAIT_EXIT(excode[w]) /\ ~is_proc_exited(w)
    BY <1>2, <2>2 DEF StatusSound
  <2>4. ~is_proc_exited(w)'
    BY <2>1, <2>3, NewlyExited DEF PostedLabels
  <2> QED  BY <1>2, <2>2, <2>3, <2>4
<1>3. CASE u = p /\ waitpid_get(p)
  <2>1. result'[p].pid = arg[p] /\ pc[p] = "wp_get"
    BY <1>1, <1>3 DEF waitpid_get, copyout, Return, At, LocalTypes
  <2>2. arg[p] = w /\ pc[w] \in PostedLabels
    BY <1>3, <2>1 DEF GetInv
  <2>3. ppid[w] = p /\ excode'[w] = excode[w] /\ pc'[w] \in PostedLabels
    BY <1>3, <2>2, PostedStays
  <2>4. PICK c \in active_exit_codes : c.pid = w
    BY <2>1, <2>2, <2>3 DEF GetInv, is_proc_exited
  <2>5. /\ c.ppid = p /\ c.exit_code = _MKWAIT_EXIT(excode[w])
        /\ \A d \in active_exit_codes : d.pid = w => d = c
    BY <2>3, <2>4 DEF CodesInv
  <2>6. get_exit_code(p, w) = {c}
    BY <2>4, <2>5 DEF get_exit_code
  <2>7. active_exit_codes' = active_exit_codes \ {c} /\ copyout(p, c.exit_code)
    BY <1>3, <2>2, <2>6 DEF waitpid_get
  <2>8. result'[p].status \in {c.exit_code, NoStatus}
    BY <1>1, <2>7 DEF copyout, Return, LocalTypes
  <2> QED  BY <1>3, <2>3, <2>5, <2>7, <2>8 DEF is_proc_exited
<1> QED  BY <1>2, <1>3, Frame, WaitEdges

(* ExitInv holds at the start.                                             *)
LEMMA ExitStart == Init => ExitInv
<1> SUFFICES ASSUME Init PROVE ExitInv
  OBVIOUS
<1>1. /\ active_exit_codes = {}
      /\ \A p \in Procs : pc[p] \in {"runprogram", "none"} /\ result[p] = NoResult
  BY DEF Init
<1> QED  BY <1>1, BaseInit DEF ExitInv, CodesInv, ParentInv, WaitInv, GetInv, NoLostExit,
            StatusSound, NoResult

(* Every step keeps ExitInv.                                               *)
LEMMA ExitKept == ExitInv /\ [Next]_vars => ExitInv'
<1> SUFFICES ASSUME ExitInv, [Next]_vars PROVE ExitInv'
  OBVIOUS
<1>1. BaseInv'
  BY BaseStep DEF ExitInv
<1>2. ASSUME NEW p \in Procs, Step(p) \/ Call(p) PROVE ExitInv'
  BY <1>1, <1>2, CodesStep, ParentStep, WaitStep, LostStep, GetStep, StatusStep DEF ExitInv
<1>3. CASE UNCHANGED vars
  BY <1>1, <1>3 DEF vars, table, locks, locals, ExitInv, CodesInv, ParentInv, WaitInv, GetInv,
     NoLostExit, StatusSound, is_proc_exited
<1> QED  BY <1>2, <1>3 DEF Next

(* ExitInv holds in every reachable state.                                 *)
LEMMA ExitAlways == Spec => []ExitInv
  BY ExitStart, ExitKept, PTL DEF Spec

(* A posted exit code is the one its process exited with, is addressed to  *)
(* its parent, and is the only one of that process.                        *)
THEOREM CodesAreSound == Spec => []CodesSound
<1>1. ExitInv => CodesSound
  BY SameTypes DEF ExitInv, BaseInv, CodesInv, CodesSound
<1> QED  BY <1>1, ExitAlways, PTL

(* The wakeup of a waiting parent is not lost although _exit posts the     *)
(* code and signals in two steps, and signals under another lock.          *)
THEOREM ExitsNotLost == Spec => []NoLostExit
<1>1. ExitInv => NoLostExit
  BY DEF ExitInv
<1> QED  BY <1>1, ExitAlways, PTL

(* A status that waitpid stores for a parent is the one its child passed   *)
(* to _exit, and it is collected once.                                     *)
THEOREM StatusIsSound == Spec => []StatusSound
<1>1. ExitInv => StatusSound
  BY DEF ExitInv
<1> QED  BY <1>1, ExitAlways, PTL

-----------------------------------------------------------------------------
(* Listed processes have not removed themselves; a child that fork has not *)
(* put on the table yet, and a pid not given out, is not listed.           *)
ListedInv ==
    /\ \A i \in Slots : proc_array[i] # NoProc =>
          proc_array[i] < next_pid /\ pc[proc_array[i]] \notin RemovedLabels
    /\ \A p \in Procs : pc[p] \in {"fk_copy", "fk_put"} =>
          \A i \in Slots : proc_array[i] # ptr[p]

Listed == {i \in Slots : proc_array[i] # NoProc}

TableInv == BaseInv /\ ListedInv /\ TableSound

(* A process removes itself in exit_remove, unless its program fails.      *)
LEMMA RemovedEdges ==
    ASSUME BaseInv, NEW p \in Procs, Step(p) \/ Call(p), pc'[p] \in RemovedLabels
    PROVE  pc[p] \in RemovedLabels \/ exit_remove(p) \/ runprogram_fails(p)
<1>1. LocalTypes
  BY DEF BaseInv, TypeInv
<1>2. \/ UNCHANGED pc
      \/ exit_remove(p) \/ runprogram_fails(p) \/ exit_unlock(p) \/ exit_destroy(p)
      \/ (\E l \in Labels : pc' = [pc EXCEPT ![p] = l] /\ l \notin RemovedLabels)
      \/ fork_thread(p) \/ exit_signal(p)
  BY DEF Step, Call, runprogram, runprogram_fails, fork, fork_lock, fork_pid, fork_copy,
     fork_put, fork_thread, _exit, exit_lock, exit_find, exit_read, exit_rem,
     exit_plock, exit_post, exit_punlock, exit_signal, exit_remove, exit_unlock,
     exit_destroy, waitpid, waitpid_lock, waitpid_find, waitpid_read, waitpid_exists,
     waitpid_exited, waitpid_clock, waitpid_child, waitpid_loop, waitpid_again,
     cv_wait, cv_wait_relock, waitpid_get, waitpid_return, At, Goto, lock_acquire,
     Panic, Labels, ForkLabels, ExitLabels, WaitLabels, RemovedLabels
<1>3. ~fork_thread(p) /\ ~exit_signal(p)
  BY TwoMoves DEF RemovedLabels
<1>4. exit_unlock(p) \/ exit_destroy(p) => pc[p] \in RemovedLabels
  BY DEF exit_unlock, exit_destroy, At, RemovedLabels
<1> QED  BY <1>1, <1>2, <1>3, <1>4 DEF LocalTypes

(* A slot is filled by fork_put only.                                      *)
LEMMA SlotFilled ==
    ASSUME BaseInv, NEW p \in Procs, Step(p) \/ Call(p), NEW i \in Slots,
           proc_array'[i] # NoProc, proc_array'[i] # proc_array[i]
    PROVE  fork_put(p) /\ proc_array'[i] = ptr[p] /\ proc_array[i] = NoProc
<1>1. TableTypes /\ ForkInv
  BY DEF BaseInv, TypeInv
<1>2. CASE fork_put(p)
  <2>1. ptr[p] \in Procs /\ put_proc_on_proctable(ptr[p])
    BY <1>1, <1>2, ProcFacts DEF fork_put, At, ForkInv
  <2> QED  BY <1>1, <1>2, <2>1, PutFacts DEF TableTypes
<1>3. CASE exit_remove(p)
  <2>1. UNCHANGED proc_array \/ proc_array' = [proc_array EXCEPT ![find_slot(p)] = NoProc]
    BY <1>3 DEF exit_remove, remove_proc_from_proctable
  <2> QED  BY <1>1, <2>1 DEF TableTypes
<1> QED  BY <1>2, <1>3, Changes

(* What remove_proc_from_proctable leaves: no slot of p.                   *)
LEMMA RemoveFacts ==
    ASSUME TableInv, NEW p \in Procs, exit_remove(p)
    PROVE  /\ \A i \in Slots : proc_array'[i] # p
           /\ \/ UNCHANGED <<proc_array, num_of_procs>>
              \/ \E i \in Slots : /\ proc_array[i] = p
                                  /\ proc_array' = [proc_array EXCEPT ![i] = NoProc]
                                  /\ num_of_procs' = num_of_procs - 1
<1>1. TableTypes
  BY DEF TableInv, BaseInv, TypeInv
<1>2. CASE find_slot(p) = NoProc
  <2>1. UNCHANGED <<proc_array, num_of_procs>>
    BY <1>2 DEF exit_remove, remove_proc_from_proctable
  <2> QED  BY <1>2, <2>1, FoundSlot, ProcFacts
<1>3. CASE find_slot(p) # NoProc
  <2>1. /\ proc_array' = [proc_array EXCEPT ![find_slot(p)] = NoProc]
        /\ num_of_procs' = num_of_procs - 1
    BY <1>3 DEF exit_remove, remove_proc_from_proctable
  <2>2. find_slot(p) \in Slots /\ proc_array[find_slot(p)] = p
    BY <1>3, FoundSlot
  <2>3. \A i \in Slots : proc_array[i] = p => i = find_slot(p)
    BY <2>2, ProcFacts DEF TableInv, TableSound
  <2> QED  BY <1>1, <2>1, <2>2, <2>3, ProcFacts DEF TableTypes
<1> QED  BY <1>2, <1>3

(* Every step keeps ListedInv when no program fails to start.              *)
LEMMA ListedStep ==
    ASSUME ~Failures, TableInv, NEW p \in Procs, Step(p) \/ Call(p)
    PROVE  ListedInv'
<1> USE DEF TableInv
<1>1. LocalTypes /\ TableTypes /\ ForkInv /\ ForkInv' /\ TableTypes'
  BY ForkStep, TableTypesStep DEF BaseInv, TypeInv
<1>2. next_pid \in Int /\ next_pid' \in Int /\ next_pid <= next_pid'
  BY <1>1, Changes, ProcTableAssumption DEF fork_pid, TableTypes, PidMin
<1>3. ASSUME fork_put(p)
      PROVE  /\ ptr[p] \in Procs /\ ptr[p] < next_pid /\ pc[ptr[p]] = "none" /\ pc[p] = "fk_put"
             /\ pc'[ptr[p]] = "none"
  <2>1. /\ ptr[p] \in Procs /\ ptr[p] < next_pid /\ pc[ptr[p]] = "none" /\ pc[p] = "fk_put"
    BY <1>1, <1>3, ProcFacts DEF fork_put, At, ForkInv
  <2> QED  BY <1>1, <1>3, <2>1 DEF fork_put, Goto, LocalTypes
<1>4. ASSUME NEW i \in Slots, proc_array'[i] # NoProc
      PROVE  proc_array'[i] < next_pid' /\ pc'[proc_array'[i]] \notin RemovedLabels
  <2>1. CASE proc_array'[i] = proc_array[i]
    <3>1. proc_array[i] \in Procs /\ proc_array[i] < next_pid /\ pc[proc_array[i]] \notin RemovedLabels
      BY <1>1, <1>4, <2>1 DEF ListedInv, TableTypes
    <3>2. proc_array[i] < next_pid'
      <4>1. proc_array[i] \in Nat
        BY <3>1, ProcFacts
      <4> QED  BY <1>2, <3>1, <4>1
    <3>3. CASE proc_array[i] # p
      BY <2>1, <3>1, <3>2, <3>3, Frame DEF RemovedLabels
    <3>4. CASE proc_array[i] = p
      <4>1. ~exit_remove(p)
        BY <2>1, <3>4, RemoveFacts
      <4>2. ~runprogram_fails(p)
        BY DEF runprogram_fails
      <4> QED  BY <2>1, <3>1, <3>2, <3>4, <4>1, <4>2, RemovedEdges
    <3> QED  BY <3>3, <3>4
  <2>2. CASE fork_put(p) /\ proc_array'[i] = ptr[p]
    <3>1. ptr[p] \in Nat
      BY <1>3, <2>2, ProcFacts
    <3>2. ptr[p] < next_pid /\ pc'[ptr[p]] = "none"
      BY <1>3, <2>2
    <3>3. ptr[p] < next_pid'
      BY <1>2, <3>1, <3>2
    <3> QED  BY <2>2, <3>2, <3>3 DEF RemovedLabels
  <2> QED  BY <1>4, <2>1, <2>2, SlotFilled
<1>5. ASSUME NEW u \in Procs, pc'[u] \in {"fk_copy", "fk_put"}, NEW i \in Slots
      PROVE  proc_array'[i] # ptr'[u]
  <2>1. ptr'[u] \in Procs /\ ppid'[ptr'[u]] = u
    BY <1>1, <1>5, ProcFacts DEF ForkInv
  <2>2. CASE u # p
    <3>1. pc[u] \in {"fk_copy", "fk_put"} /\ ptr'[u] = ptr[u]
      BY <1>5, <2>2, Frame
    <3>2. ptr[u] # proc_array[i] /\ ppid[ptr[u]] = u
      BY <1>1, <3>1 DEF ListedInv, ForkInv
    <3>3. fork_put(p) => ppid[ptr[p]] = p
      BY <1>1 DEF fork_put, At, ForkInv
    <3> QED  BY <2>1, <2>2, <3>1, <3>2, <3>3, SlotFilled, ProcFacts
  <2>3. CASE u = p /\ fork_pid(p)
    <3>1. ptr'[p] = next_pid /\ UNCHANGED proc_array
      BY <1>1, <2>3 DEF fork_pid, LocalTypes
    <3>2. proc_array[i] = NoProc \/ (proc_array[i] \in Nat /\ proc_array[i] < next_pid)
      BY <1>1, ProcFacts DEF ListedInv, TableTypes
    <3> QED  BY <1>1, <2>1, <2>3, <3>1, <3>2, ProcFacts DEF TableTypes
  <2>4. CASE u = p /\ ~fork_pid(p)
    <3>1. pc[p] = "fk_copy" /\ UNCHANGED <<ptr, proc_array>>
      BY <1>5, <2>4, ForkEdges DEF fork_copy, At, table
    <3> QED  BY <2>4, <3>1 DEF ListedInv
  <2> QED  BY <2>2, <2>3, <2>4
<1> QED  BY <1>4, <1>5 DEF ListedInv

(* Every step keeps TableSound when no program fails to start.             *)
LEMMA TableStep ==
    ASSUME ~Failures, TableInv, NEW p \in Procs, Step(p) \/ Call(p)
    PROVE  TableSound'
<1> USE DEF TableInv
<1>1. LocalTypes /\ TableTypes /\ ForkInv /\ ListedInv'
  BY ListedStep DEF BaseInv, TypeInv
<1>2. ASSUME fork_put(p)
      PROVE  /\ ptr[p] \in Procs /\ put_proc_on_proctable(ptr[p]) /\ ptr[p] \in alive
             /\ \A i \in Slots : proc_array[i] # ptr[p]
    BY <1>1, <1>2, ProcFacts DEF fork_put, At, ForkInv, ListedInv
<1>3. ASSUME NEW i \in Slots, proc_array'[i] # NoProc PROVE proc_array'[i] \in alive'
  <2>1. proc_array'[i] \in alive
    BY <1>2, <1>3, SlotFilled DEF TableSound
  <2>2. alive \subseteq alive' \/ (exit_destroy(p) /\ alive' = alive \ {p} /\ pc'[p] = "gone")
    BY <1>1, Changes DEF fork_pid, fork_copy, runprogram_fails, exit_destroy, proc_destroy, Panic,
       Goto, LocalTypes
  <2>3. pc'[proc_array'[i]] \notin RemovedLabels
    BY <1>1, <1>3 DEF ListedInv
  <2> QED  BY <2>1, <2>2, <2>3 DEF RemovedLabels
<1>4. IsFiniteSet(Listed) /\ num_of_procs = Cardinality(Listed) /\ Cardinality(Listed) \in Nat
  BY ProcFacts, FS_Subset, FS_CardinalityType DEF Listed, TableSound
<1>5. /\ num_of_procs' = Cardinality(Listed')
      /\ \A i, j \in Slots : proc_array'[i] = proc_array'[j] /\ i # j => proc_array'[i] = NoProc
  <2>1. CASE UNCHANGED <<proc_array, num_of_procs>>
    BY <1>4, <2>1 DEF Listed, TableSound
  <2>2. CASE fork_put(p)
    <3>1. ASSUME NEW k \in Slots, proc_array[k] = NoProc, num_of_procs' = num_of_procs + 1,
                 proc_array' = [proc_array EXCEPT ![k] = ptr[p]]
          PROVE  /\ num_of_procs' = Cardinality(Listed')
                 /\ \A i, j \in Slots : proc_array'[i] = proc_array'[j] /\ i # j =>
                                            proc_array'[i] = NoProc
      <4>1. Listed' = Listed \cup {k} /\ k \notin Listed
        BY <1>1, <1>2, <2>2, <3>1, ProcFacts DEF Listed, TableTypes
      <4>2. Cardinality(Listed') = Cardinality(Listed) + 1
        BY <1>4, <4>1, FS_AddElement
      <4>3. \A i, j \in Slots : proc_array'[i] = proc_array'[j] /\ i # j => proc_array'[i] = NoProc
        BY <1>1, <1>2, <2>2, <3>1 DEF TableTypes, TableSound
      <4> QED  BY <1>4, <3>1, <4>2, <4>3
    <3> QED  BY <1>1, <1>2, <2>1, <2>2, <3>1, PutFacts
  <2>3. CASE exit_remove(p)
    <3>1. ASSUME NEW k \in Slots, proc_array[k] = p, num_of_procs' = num_of_procs - 1,
                 proc_array' = [proc_array EXCEPT ![k] = NoProc]
          PROVE  /\ num_of_procs' = Cardinality(Listed')
                 /\ \A i, j \in Slots : proc_array'[i] = proc_array'[j] /\ i # j =>
                                            proc_array'[i] = NoProc
      <4>1. Listed' = Listed \ {k} /\ k \in Listed
        BY <1>1, <3>1, ProcFacts DEF Listed, TableTypes
      <4>2. Cardinality(Listed') = Cardinality(Listed) - 1
        BY <1>4, <4>1, FS_RemoveElement
      <4>3. \A i, j \in Slots : proc_array'[i] = proc_array'[j] /\ i # j => proc_array'[i] = NoProc
        BY <1>1, <3>1 DEF TableTypes, TableSound
      <4> QED  BY <1>4, <3>1, <4>2, <4>3
    <3> QED  BY <2>1, <2>3, <3>1, RemoveFacts
  <2> QED  BY <2>1, <2>2, <2>3, Changes
<1> QED  BY <1>3, <1>5 DEF TableSound, Listed

(* TableInv holds at the start.                                            *)
LEMMA TableStart == Init => TableInv
<1> SUFFICES ASSUME Init PROVE TableInv
  OBVIOUS
<1>1. ListedInv
  BY ProcFacts, ProcTableAssumption DEF Init, ListedInv, RemovedLabels, PidMin
<1>2. Listed = {0} /\ 0 \in Slots
  BY ProcFacts, ProcTableAssumption DEF Init, Listed, Slots, NoProc
<1>3. num_of_procs = Cardinality(Listed)
  BY <1>2, FS_Singleton DEF Init
<1> QED  BY <1>1, <1>3, BaseInit DEF Init, TableInv, TableSound, Listed

(* Every step keeps TableInv when no program fails to start.               *)
LEMMA TableKept == ~Failures /\ TableInv /\ [Next]_vars => TableInv'
<1> SUFFICES ASSUME ~Failures, TableInv, [Next]_vars PROVE TableInv'
  OBVIOUS
<1>1. BaseInv'
  BY BaseStep DEF TableInv
<1>2. ASSUME NEW p \in Procs, Step(p) \/ Call(p) PROVE TableInv'
  BY <1>1, <1>2, ListedStep, TableStep DEF TableInv
<1>3. CASE UNCHANGED vars
  BY <1>1, <1>3 DEF vars, table, locks, locals, TableInv, ListedInv, TableSound
<1> QED  BY <1>2, <1>3 DEF Next

(* When no program fails to start, the table lists no freed structure and  *)
(* no process twice, and num_of_procs counts the occupied slots.  With     *)
(* failures it does not hold: runprogram_fails frees a listed structure.   *)
THEOREM TableIsSound == ASSUME ~Failures PROVE Spec => []TableSound
<1>1. TableInv /\ [Next]_vars => TableInv'
  BY TableKept
<1>2. TableInv => TableSound
  BY DEF TableInv
<1> QED  BY <1>1, <1>2, TableStart, PTL DEF Spec
=============================================================================
