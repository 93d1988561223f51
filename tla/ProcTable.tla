----------------------------- MODULE ProcTable -----------------------------
(***************************************************************************)
(* The process table (kern/proc/proc.c) and the system calls fork, _exit   *)
(* and waitpid (kern/syscall/{fork,exit,waitpid}.c) that share it.         *)
(*                                                                         *)
(* A process has one thread.  Its steps are cut where the code takes or    *)
(* releases a lock: each function of proc.c that runs under proctable_lk   *)
(* is one step, and so is each lock_acquire, lock_release, cv_wait and     *)
(* cv_signal on the ops_lock and the waitpid_cv of a process (Monitor says *)
(* why one step is enough).                                                *)
(*                                                                         *)
(* A process structure is named by its pid: pids are never given twice.    *)
(* The program started from the menu has pid 0 and ppid -1 (proc_create);  *)
(* fork numbers its children from PidMin.  A KASSERT that fails, and a     *)
(* read through a pointer to a structure that proc_destroy has freed (its  *)
(* memory is filled with 0xdeadbeef), stop the machine: panic.             *)
(***************************************************************************)
EXTENDS Integers, Sequences, FiniteSets

CONSTANTS MaxPid,       \* bound on the pids given out
          ProcMax,      \* __PROC_MAX: slots of proc_array and active_exit_codes
          ExitArgs,     \* arguments of _exit
          Failures,     \* may kmalloc, as_copy or the loading of a program fail?
          Disciplined   \* do programs wait for each child of theirs once and
                        \* for nobody else, and exit after their children?

PidMin == 2             \* __PID_MIN
NoProc == -1            \* a NULL struct proc pointer; proc_create's ppid
NoStatus == -2          \* no status was stored for the caller

ASSUME ProcTableAssumption ==
    /\ MaxPid \in Nat /\ MaxPid >= PidMin
    /\ ProcMax \in Nat \ {0}
    /\ ExitArgs \subseteq Nat
    /\ Failures \in BOOLEAN
    /\ Disciplined \in BOOLEAN

Procs == {0} \cup PidMin .. MaxPid
Slots == 0 .. ProcMax - 1
_MKWAIT_EXIT(x) == 4 * x

VARIABLES
    next_pid, proc_array, num_of_procs,  \* struct proctable
    active_exit_codes,                   \* its non-NULL struct pidxcode's
    ppid,       \* struct proc: ppid
    ops_lock,   \* holder of the ops_lock of each process, or NoProc
    lkq,        \* the processes asleep on the ops_lock of each process
    alive,      \* the allocated process structures
    pc,         \* where the thread of each process is
    ptr,        \* local: a slot found, then the struct proc pointer read
    arg,        \* local: the argument of waitpid
    excode,     \* the argument of _exit
    result,     \* what the last waitpid returned: pid, errno, stored status;
                \* the program forgets it when it exits
    waited,     \* the pids each program has called waitpid for
    panic       \* the machine has stopped

table == <<next_pid, proc_array, num_of_procs, active_exit_codes>>
locks == <<ops_lock, lkq>>
locals == <<ptr, arg, excode, result, waited>>
vars == <<table, ppid, locks, alive, pc, locals, panic>>

NoResult == [pid |-> NoProc, err |-> "none", status |-> NoStatus]

Init == /\ next_pid = PidMin
        /\ proc_array = [i \in Slots |-> IF i = 0 THEN 0 ELSE NoProc]
        /\ num_of_procs = 1
        /\ active_exit_codes = {}
        /\ ppid = [p \in Procs |-> NoProc]
        /\ ops_lock = [p \in Procs |-> NoProc]
        /\ lkq = [p \in Procs |-> <<>>]
        /\ alive = {0}
        /\ pc = [p \in Procs |-> IF p = 0 THEN "runprogram" ELSE "none"]
        /\ ptr = [p \in Procs |-> NoProc]
        /\ arg = [p \in Procs |-> NoProc]
        /\ excode = [p \in Procs |-> 0]
        /\ result = [p \in Procs |-> NoResult]
        /\ waited = [p \in Procs |-> {}]
        /\ panic = FALSE

-----------------------------------------------------------------------------
(* Helpers: moving on, and the ops_lock of process q.                      *)

Goto(p, label) == pc' = [pc EXCEPT ![p] = label]

(* The locals of a call are gone when it returns.                          *)
Forget(p) == /\ ptr' = [ptr EXCEPT ![p] = NoProc]
             /\ arg' = [arg EXCEPT ![p] = NoProc]
             /\ UNCHANGED <<excode, result, waited>>

InQueue(p, q) == \E i \in DOMAIN lkq[q] : lkq[q][i] = p

(* A process asleep in lock_acquire is on one of the queues.               *)
AsleepOnLock(p) == \E q \in Procs : InQueue(p, q)

At(p, label) == ~panic /\ pc[p] = label /\ ~AsleepOnLock(p)

Panic == panic' = TRUE /\ UNCHANGED <<table, ppid, locks, alive, pc, locals>>

(* lock_acquire(q->ops_lock) by p: p takes the lock and goes on at label,  *)
(* or sleeps until lock_release wakes it and tries again.                  *)
lock_acquire(p, q, label) ==
    IF ops_lock[q] = NoProc
    THEN /\ ops_lock' = [ops_lock EXCEPT ![q] = p]
         /\ UNCHANGED lkq
         /\ Goto(p, label)
    ELSE /\ lkq' = [lkq EXCEPT ![q] = Append(@, p)]
         /\ UNCHANGED <<ops_lock, pc>>

lock_release(q) ==
    /\ ops_lock' = [ops_lock EXCEPT ![q] = NoProc]
    /\ lkq' = [lkq EXCEPT ![q] = IF @ = <<>> THEN @ ELSE Tail(@)]

(* proc_destroy(q): the KASSERT of lock_destroy and the one in             *)
(* threadlist_cleanup that the wait channel of the lock is empty.          *)
CanDestroy(q) == ops_lock[q] = NoProc /\ lkq[q] = <<>>

proc_destroy(q) == alive' = alive \ {q}

(* get_reference_by_pid finds the slot under proctable_lk, releases it and *)
(* only then reads the slot: two steps, find_slot and ReadSlot.            *)
find_slot(pid) == LET S == {i \in Slots : proc_array[i] = pid /\ pid # NoProc}
                  IN IF S = {} THEN NoProc ELSE CHOOSE i \in S : \A j \in S : j <= i

ReadSlot(i) == IF i = NoProc THEN NoProc ELSE proc_array[i]

is_proc_exited(pid) == \E c \in active_exit_codes : c.pid = pid

-----------------------------------------------------------------------------
(* The program started from the menu.                                      *)

runprogram(p) ==
    /\ At(p, "runprogram")
    /\ Goto(p, "user")
    /\ UNCHANGED <<table, ppid, locks, alive, locals, panic>>

(* runprogram fails: cmd_progthread returns and thread_startup calls       *)
(* thread_exit, which destroys the process.                                *)
runprogram_fails(p) ==
    /\ At(p, "runprogram")
    /\ Failures
    /\ proc_destroy(p)
    /\ Goto(p, "gone")
    /\ UNCHANGED <<table, ppid, locks, locals, panic>>

-----------------------------------------------------------------------------
(* fork.                                                                   *)

(* The test against the limit reads num_of_procs without proctable_lk; the *)
(* two allocations may fail: these returns leave everything as it was.     *)
fork(p) ==
    /\ At(p, "user")
    /\ next_pid + Cardinality({q \in Procs : pc[q] \in {"fk_lock", "fk_pid"}}) <= MaxPid
    /\ num_of_procs # ProcMax
    /\ Goto(p, "fk_lock")
    /\ UNCHANGED <<table, ppid, locks, alive, locals, panic>>

fork_lock(p) ==
    /\ At(p, "fk_lock")
    /\ lock_acquire(p, p, "fk_pid")
    /\ UNCHANGED <<table, ppid, alive, locals, panic>>

(* get_next_pid                                                            *)
fork_pid(p) ==
    /\ At(p, "fk_pid")
    /\ next_pid' = next_pid + 1
    /\ alive' = alive \cup {next_pid}
    /\ ppid' = [ppid EXCEPT ![next_pid] = p]
    /\ ptr' = [ptr EXCEPT ![p] = next_pid]
    /\ Goto(p, "fk_copy")
    /\ UNCHANGED <<proc_array, num_of_procs, active_exit_codes, locks, arg,
                   excode, result, waited, panic>>

(* Broken variant: the error path of as_copy keeps the ops_lock.           *)
fork_copy_keeps_lock(p) ==
    /\ At(p, "fk_copy")
    /\ \/ /\ Goto(p, "fk_put")
          /\ lock_release(p)
          /\ UNCHANGED <<alive, locals>>
       \/ /\ Failures
          /\ proc_destroy(ptr[p])
          /\ Goto(p, "user")
          /\ Forget(p)
          /\ UNCHANGED locks
    /\ UNCHANGED <<table, ppid, panic>>

fork_copy(p) ==
    /\ At(p, "fk_copy")
    /\ \/ /\ Goto(p, "fk_put")
          /\ UNCHANGED <<alive, locals>>
       \/ /\ Failures
          /\ proc_destroy(ptr[p])
          /\ Goto(p, "user")
          /\ Forget(p)
    /\ lock_release(p)
    /\ UNCHANGED <<table, ppid, panic>>

(* put_proc_on_proctable: the first free slot.  Its result is ignored.     *)
put_proc_on_proctable(q) ==
    LET Free == {i \in Slots : proc_array[i] = NoProc}
    IN IF Free = {}
       THEN UNCHANGED <<proc_array, num_of_procs>>
       ELSE /\ proc_array' = [proc_array EXCEPT
                 ![CHOOSE i \in Free : \A j \in Free : i <= j] = q]
            /\ num_of_procs' = num_of_procs + 1

fork_put(p) ==
    /\ At(p, "fk_put")
    /\ put_proc_on_proctable(ptr[p])
    /\ Goto(p, "fk_thread")
    /\ UNCHANGED <<next_pid, active_exit_codes, ppid, locks, alive, locals, panic>>

(* thread_fork: the child runs, or there is no memory for its thread.      *)
fork_thread(p) ==
    /\ At(p, "fk_thread")
    /\ \/ pc' = [pc EXCEPT ![p] = "user", ![ptr[p]] = "user"]
       \/ Failures /\ Goto(p, "user")
    /\ Forget(p)
    /\ UNCHANGED <<table, ppid, locks, alive, panic>>

-----------------------------------------------------------------------------
(* _exit.                                                                  *)

Children(p) == {q \in Procs : q # 0 /\ q < next_pid /\ ppid[q] = p}

_exit(p, code) ==
    /\ At(p, "user")
    /\ Disciplined => \A q \in Children(p) : pc[q] \in {"none", "gone"}
    /\ excode' = [excode EXCEPT ![p] = code]
    /\ result' = [result EXCEPT ![p] = NoResult]
    /\ Goto(p, "ex_lock")
    /\ UNCHANGED <<table, ppid, locks, alive, ptr, arg, waited, panic>>

exit_lock(p) ==
    /\ At(p, "ex_lock")
    /\ lock_acquire(p, p, "ex_find")
    /\ UNCHANGED <<table, ppid, alive, locals, panic>>

exit_find(p) ==
    /\ At(p, "ex_find")
    /\ ptr' = [ptr EXCEPT ![p] = find_slot(ppid[p])]
    /\ Goto(p, "ex_read")
    /\ UNCHANGED <<table, ppid, locks, alive, arg, excode, result, waited, panic>>

exit_read(p) ==
    /\ At(p, "ex_read")
    /\ ptr' = [ptr EXCEPT ![p] = ReadSlot(ptr[p])]
    /\ Goto(p, "ex_rem")
    /\ UNCHANGED <<table, ppid, locks, alive, arg, excode, result, waited, panic>>

rem_all_exit_codes(pid) ==
    active_exit_codes' = {c \in active_exit_codes : c.ppid # pid}

(* Broken variant: an orphan skips the removal from the table.             *)
exit_rem_orphan_stays(p) ==
    /\ At(p, "ex_rem")
    /\ rem_all_exit_codes(p)
    /\ Goto(p, IF ptr[p] = NoProc THEN "ex_unlock" ELSE "ex_plock")
    /\ UNCHANGED <<next_pid, proc_array, num_of_procs, ppid, locks, alive, locals, panic>>

exit_rem(p) ==
    /\ At(p, "ex_rem")
    /\ rem_all_exit_codes(p)
    /\ Goto(p, IF ptr[p] = NoProc THEN "ex_remove" ELSE "ex_plock")
    /\ UNCHANGED <<next_pid, proc_array, num_of_procs, ppid, locks, alive, locals, panic>>

exit_plock(p) ==
    /\ At(p, "ex_plock")
    /\ IF ptr[p] \in alive
       THEN /\ lock_acquire(p, ptr[p], "ex_post")
            /\ UNCHANGED <<table, ppid, alive, locals, panic>>
       ELSE Panic

(* post_exit_code: without memory or a free slot nothing is posted.        *)
post_exit_code(code, pp, pid) ==
    \/ /\ Cardinality(active_exit_codes) < ProcMax
       /\ active_exit_codes' =
             active_exit_codes \cup {[ppid |-> pp, pid |-> pid, exit_code |-> code]}
    \/ /\ Failures \/ Cardinality(active_exit_codes) >= ProcMax
       /\ UNCHANGED active_exit_codes

(* Broken variant: pid and ppid are swapped.                               *)
exit_post_swapped(p) ==
    /\ At(p, "ex_post")
    /\ post_exit_code(_MKWAIT_EXIT(excode[p]), p, ppid[p])
    /\ Goto(p, "ex_punlock")
    /\ UNCHANGED <<next_pid, proc_array, num_of_procs, ppid, locks, alive, locals, panic>>

exit_post(p) ==
    /\ At(p, "ex_post")
    /\ post_exit_code(_MKWAIT_EXIT(excode[p]), ppid[p], p)
    /\ Goto(p, "ex_punlock")
    /\ UNCHANGED <<next_pid, proc_array, num_of_procs, ppid, locks, alive, locals, panic>>

(* Broken variant: the parent is not signalled.                            *)
exit_punlock_no_signal(p) ==
    /\ At(p, "ex_punlock")
    /\ lock_release(ptr[p])
    /\ Goto(p, "ex_remove")
    /\ UNCHANGED <<table, ppid, alive, locals, panic>>

exit_punlock(p) ==
    /\ At(p, "ex_punlock")
    /\ lock_release(ptr[p])
    /\ Goto(p, "ex_signal")
    /\ UNCHANGED <<table, ppid, alive, locals, panic>>


(* cv_signal(parent_proc->waitpid_cv, ...): only the parent sleeps on it.  *)
cv_signal(p, q) ==
    pc' = [pc EXCEPT ![p] = "ex_remove",
                     ![q] = IF @ = "wp_asleep" THEN "wp_relock" ELSE @]

exit_signal(p) ==
    /\ At(p, "ex_signal")
    /\ IF ptr[p] \in alive
       THEN /\ cv_signal(p, ptr[p])
            /\ UNCHANGED <<table, ppid, locks, alive, locals, panic>>
       ELSE Panic

remove_proc_from_proctable(pid) ==
    LET i == find_slot(pid)
    IN IF i = NoProc
       THEN UNCHANGED <<proc_array, num_of_procs>>
       ELSE /\ proc_array' = [proc_array EXCEPT ![i] = NoProc]
            /\ num_of_procs' = num_of_procs - 1

exit_remove(p) ==
    /\ At(p, "ex_remove")
    /\ remove_proc_from_proctable(p)
    /\ Goto(p, "ex_unlock")
    /\ UNCHANGED <<next_pid, active_exit_codes, ppid, locks, alive, locals, panic>>

(* Broken variant: _exit leaves its ops_lock locked.                       *)
exit_unlock_forgotten(p) ==
    /\ At(p, "ex_unlock")
    /\ Goto(p, "ex_destroy")
    /\ UNCHANGED <<table, ppid, locks, alive, locals, panic>>

exit_unlock(p) ==
    /\ At(p, "ex_unlock")
    /\ lock_release(p)
    /\ Goto(p, "ex_destroy")
    /\ UNCHANGED <<table, ppid, alive, locals, panic>>

(* thread_exit -> proc_remthread -> proc_destroy, interrupts off.          *)
exit_destroy(p) ==
    /\ At(p, "ex_destroy")
    /\ IF CanDestroy(p)
       THEN /\ proc_destroy(p)
            /\ Goto(p, "gone")
            /\ Forget(p)
            /\ UNCHANGED <<table, ppid, locks, panic>>
       ELSE Panic

-----------------------------------------------------------------------------
(* waitpid.                                                                *)

Return(p, err, st) ==
    result' = [result EXCEPT ![p] = [pid |-> arg[p], err |-> err, status |-> st]]

(* Bad options and pids out of range return at once and change nothing.    *)
waitpid(p, pid) ==
    /\ At(p, "user")
    /\ Disciplined => pid \in Children(p) \ waited[p]
    /\ waited' = [waited EXCEPT ![p] = IF Disciplined THEN @ \cup {pid} ELSE @]
    /\ arg' = [arg EXCEPT ![p] = pid]
    /\ result' = [result EXCEPT ![p] = NoResult]
    /\ Goto(p, "wp_lock")
    /\ UNCHANGED <<table, ppid, locks, alive, ptr, excode, panic>>

waitpid_lock(p) ==
    /\ At(p, "wp_lock")
    /\ lock_acquire(p, p, "wp_find")
    /\ UNCHANGED <<table, ppid, alive, locals, panic>>

waitpid_find(p) ==
    /\ At(p, "wp_find")
    /\ ptr' = [ptr EXCEPT ![p] = find_slot(arg[p])]
    /\ Goto(p, "wp_read")
    /\ UNCHANGED <<table, ppid, locks, alive, arg, excode, result, waited, panic>>

waitpid_read(p) ==
    /\ At(p, "wp_read")
    /\ ptr' = [ptr EXCEPT ![p] = ReadSlot(ptr[p])]
    /\ Goto(p, IF ptr'[p] = NoProc THEN "wp_exists" ELSE "wp_exited")
    /\ UNCHANGED <<table, ppid, locks, alive, arg, excode, result, waited, panic>>

(* child_proc == NULL && !is_proc_exited(...)                              *)
waitpid_exists(p) ==
    /\ At(p, "wp_exists")
    /\ \/ /\ is_proc_exited(arg[p])
          /\ Goto(p, "wp_exited")
          /\ UNCHANGED result
       \/ /\ ~is_proc_exited(arg[p])
          /\ Return(p, "ESRCH", NoStatus)
          /\ Goto(p, "wp_return")
    /\ UNCHANGED <<table, ppid, locks, alive, ptr, arg, excode, waited, panic>>

(* Already exited: success, without a status.                              *)
waitpid_exited(p) ==
    /\ At(p, "wp_exited")
    /\ \/ /\ is_proc_exited(arg[p])
          /\ Return(p, "ok", NoStatus)
          /\ Goto(p, "wp_return")
       \/ /\ ~is_proc_exited(arg[p])
          /\ UNCHANGED result
          /\ Goto(p, "wp_clock")
    /\ UNCHANGED <<table, ppid, locks, alive, ptr, arg, excode, waited, panic>>

waitpid_clock(p) ==
    /\ At(p, "wp_clock")
    /\ IF ptr[p] \in alive
       THEN /\ lock_acquire(p, ptr[p], "wp_child")
            /\ UNCHANGED <<table, ppid, alive, locals, panic>>
       ELSE Panic

(* The test is  !child_proc->ppid == curproc->pid || pid == curproc->pid:  *)
(* C compares the truth value of !ppid with the pid.                       *)
Not(x) == IF x = 0 THEN 1 ELSE 0
NotChild(p) == Not(ppid[ptr[p]]) = p \/ arg[p] = p

waitpid_child(p) ==
    /\ At(p, "wp_child")
    /\ lock_release(ptr[p])
    /\ \/ /\ NotChild(p)
          /\ Return(p, "ECHILD", NoStatus)
          /\ Goto(p, "wp_return")
       \/ /\ ~NotChild(p)
          /\ Goto(p, "wp_loop")
          /\ UNCHANGED result
    /\ UNCHANGED <<table, ppid, alive, ptr, arg, excode, waited, panic>>

(* The loop: is_proc_exited, and cv_wait, which releases the ops_lock and  *)
(* sleeps in one step.                                                     *)
waitpid_loop(p) ==
    /\ At(p, "wp_loop")
    /\ is_proc_exited(arg[p])
    /\ Goto(p, "wp_get")
    /\ UNCHANGED <<table, ppid, locks, alive, locals, panic>>

waitpid_again(p) ==
    /\ At(p, "wp_loop")
    /\ ~is_proc_exited(arg[p])
    /\ Goto(p, "wp_wait")
    /\ UNCHANGED <<table, ppid, locks, alive, locals, panic>>

cv_wait(p) ==
    /\ At(p, "wp_wait")
    /\ lock_release(p)
    /\ Goto(p, "wp_asleep")
    /\ UNCHANGED <<table, ppid, alive, locals, panic>>

cv_wait_relock(p) ==
    /\ At(p, "wp_relock")
    /\ lock_acquire(p, p, "wp_loop")
    /\ UNCHANGED <<table, ppid, alive, locals, panic>>

(* Broken variant: any code of a child will do.                            *)
get_exit_code_any(pp, pid) == {c \in active_exit_codes : c.ppid = pp}

(* get_exit_code reads and removes the code, or returns -1.  Then copyout: *)
(* status == NULL stores nothing, and a bad pointer loses the code.        *)
get_exit_code(pp, pid) == {c \in active_exit_codes : c.ppid = pp /\ c.pid = pid}

copyout(p, code) == \/ Return(p, "ok", code)
                    \/ Return(p, "ok", NoStatus)
                    \/ Return(p, "EFAULT", NoStatus)

waitpid_get(p) ==
    /\ At(p, "wp_get")
    /\ LET found == get_exit_code(p, arg[p]) IN
       \/ \E c \in found : /\ active_exit_codes' = active_exit_codes \ {c}
                           /\ copyout(p, c.exit_code)
       \/ /\ found = {}
          /\ UNCHANGED active_exit_codes
          /\ copyout(p, -1)
    /\ Goto(p, "wp_return")
    /\ UNCHANGED <<next_pid, proc_array, num_of_procs, ppid, locks, alive, ptr,
                   arg, excode, waited, panic>>

waitpid_return(p) ==
    /\ At(p, "wp_return")
    /\ lock_release(p)
    /\ Goto(p, "user")
    /\ Forget(p)
    /\ UNCHANGED <<table, ppid, alive, panic>>

-----------------------------------------------------------------------------
Step(p) ==
    \/ runprogram(p)
    \/ fork_lock(p) \/ fork_pid(p) \/ fork_copy(p) \/ fork_put(p) \/ fork_thread(p)
    \/ exit_lock(p) \/ exit_find(p) \/ exit_read(p) \/ exit_rem(p) \/ exit_plock(p)
    \/ exit_post(p) \/ exit_punlock(p) \/ exit_signal(p) \/ exit_remove(p)
    \/ exit_unlock(p) \/ exit_destroy(p)
    \/ waitpid_lock(p) \/ waitpid_find(p) \/ waitpid_read(p) \/ waitpid_exists(p)
    \/ waitpid_exited(p) \/ waitpid_clock(p) \/ waitpid_child(p) \/ waitpid_loop(p)
    \/ waitpid_again(p) \/ cv_wait(p) \/ cv_wait_relock(p) \/ waitpid_get(p)
    \/ waitpid_return(p)

Call(p) == \/ fork(p)
           \/ \E code \in ExitArgs : _exit(p, code)
           \/ \E pid \in PidMin .. MaxPid : waitpid(p, pid)
           \/ runprogram_fails(p)

Next == \E p \in Procs : Step(p) \/ Call(p)

Spec == Init /\ [][Next]_vars

(* A process inside a system call that can go on does go on: its thread is *)
(* on the run queue.  Programs need not make any call.                     *)
FairSpec == Spec /\ \A p \in Procs : WF_vars(Step(p))

-----------------------------------------------------------------------------
(* Labels, by what is true there.                                          *)

ForkLabels == {"fk_lock", "fk_pid", "fk_copy", "fk_put", "fk_thread"}
ExitLabels == {"ex_lock", "ex_find", "ex_read", "ex_rem", "ex_plock", "ex_post",
               "ex_punlock", "ex_signal", "ex_remove", "ex_unlock", "ex_destroy"}
WaitLabels == {"wp_lock", "wp_find", "wp_read", "wp_exists", "wp_exited",
               "wp_clock", "wp_child", "wp_loop", "wp_wait", "wp_asleep",
               "wp_relock", "wp_get", "wp_return"}
Labels == {"none", "runprogram", "user", "gone"} \cup ForkLabels \cup ExitLabels
              \cup WaitLabels

(* Past post_exit_code.                                                    *)
PostedLabels == {"ex_punlock", "ex_signal", "ex_remove", "ex_unlock",
                 "ex_destroy", "gone"}

Codes == {_MKWAIT_EXIT(x) : x \in ExitArgs}
Errs == {"none", "ok", "ESRCH", "ECHILD", "EFAULT"}

(* Types of the process table and of the processes.                        *)
TypeOK ==
    /\ next_pid \in PidMin .. MaxPid + 1
    /\ proc_array \in [Slots -> Procs \cup {NoProc}]
    /\ num_of_procs \in Int
    /\ active_exit_codes \subseteq
          [ppid : Procs \cup {NoProc}, pid : Procs, exit_code : Codes]
    /\ ppid \in [Procs -> Procs \cup {NoProc}]
    /\ ops_lock \in [Procs -> Procs \cup {NoProc}]
    /\ lkq \in [Procs -> Seq(Procs)]
    /\ alive \subseteq Procs
    /\ pc \in [Procs -> Labels]
    /\ ptr \in [Procs -> Procs \cup Slots \cup {NoProc}]
    /\ arg \in [Procs -> Procs \cup {NoProc}]
    /\ excode \in [Procs -> ExitArgs \cup {0}]
    /\ result \in [Procs -> [pid : Procs \cup {NoProc}, err : Errs,
                             status : Codes \cup {-1, NoStatus}]]
    /\ waited \in [Procs -> SUBSET Procs]
    /\ panic \in BOOLEAN

(* The processes whose ops_lock p has.                                     *)
Holding(p) == {q \in Procs : ops_lock[q] = p}

(* Every way out of fork, waitpid and _exit has released what it took: a   *)
(* process in user mode, asleep in cv_wait or gone holds no ops_lock.      *)
LocksReleased == \A p \in Procs :
    pc[p] \in {"none", "user", "wp_asleep", "gone"} => Holding(p) = {}

(* The table lists no structure that proc_destroy has freed, so scanning   *)
(* it (get_reference_by_pid) never reads freed memory; num_of_procs counts *)
(* the occupied slots, and no process is listed twice.                     *)
TableSound ==
    /\ \A i \in Slots : proc_array[i] # NoProc => proc_array[i] \in alive
    /\ num_of_procs = Cardinality({i \in Slots : proc_array[i] # NoProc})
    /\ \A i, j \in Slots : proc_array[i] = proc_array[j] /\ i # j => proc_array[i] = NoProc

(* A posted exit code is the one its process exited with, is addressed to  *)
(* its parent, and is the only one of that process; the types hold.        *)
CodesSound == TypeOK /\ \A c \in active_exit_codes :
    /\ c.exit_code = _MKWAIT_EXIT(excode[c.pid])
    /\ c.ppid = ppid[c.pid]
    /\ pc[c.pid] \in PostedLabels
    /\ \A d \in active_exit_codes : d.pid = c.pid => d = c

(* The wakeup of a waiting parent is not lost although _exit posts the     *)
(* code and signals in two steps, and signals under another lock than the  *)
(* one the parent sleeps with: a parent asleep on a child whose code is    *)
(* posted is about to be signalled by that child.                          *)
NoLostExit == \A p, w \in Procs :
    pc[p] = "wp_asleep" /\ arg[p] = w /\ ppid[w] = p /\ is_proc_exited(w) =>
        pc[w] \in {"ex_punlock", "ex_signal"} /\ ptr[w] = p

(* A status that waitpid stores for a parent is the one its child passed   *)
(* to _exit, and the code is gone from the table: it is collected once.    *)
StatusSound == \A p, w \in Procs :
    result[p].pid = w /\ result[p].status # NoStatus /\ ppid[w] = p =>
        /\ result[p].status = _MKWAIT_EXIT(excode[w])
        /\ pc[w] \in PostedLabels
        /\ ~is_proc_exited(w)

(* The exit codes of all the processes ever forked fit in the table, so    *)
(* post_exit_code drops none for want of a slot.                           *)
CodesFit == MaxPid - PidMin < ProcMax

(* Programs that wait for each of their own children at most once, and do  *)
(* not exit before them, never make the kernel read a freed process        *)
(* structure or fail a KASSERT of proc_destroy, as long as no exit code is *)
(* dropped: a parent whose child left no code takes the lock of a child    *)
(* that frees itself.                                                      *)
NoPanic == CodesFit => ~panic


-----------------------------------------------------------------------------
(* What the repository says and the code does not do.                      *)

(* exit.c:32: the order of the locks causes no deadlock.  No two processes *)
(* wait for an ops_lock the other one holds.                               *)
NoDeadlock == \A p, q \in Procs : p # q =>
    ~ \E a, b \in Procs : /\ ops_lock[a] = p /\ InQueue(q, a)
                          /\ ops_lock[b] = q /\ InQueue(p, b)

=============================================================================
