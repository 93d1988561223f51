----------------------------- MODULE Scheduler ------------------------------
(***************************************************************************)
(* Threads, run queues and wait channels (kern/thread/thread.c, clock.c,   *)
(* and their user common_prog of the menu) from thread_start_cpus on.      *)
(*                                                                         *)
(* A cpu is at pc[c]: "run" is thread code with interrupts on, "idle" is   *)
(* cpu_idle; everywhere else interrupts are off on it.  A thread is at     *)
(* at[t], also while it does not run.  A list of threads is a sequence.    *)
(* The boot thread of cpu c is thread c; a freed thread may be created     *)
(* again.  A section under one spinlock that no other cpu can look into is *)
(* a step; t_cpu is read together with the locking of the run queue it     *)
(* names, since only threads that are on a run queue are migrated.         *)
(***************************************************************************)
EXTENDS Integers, Sequences, FiniteSets, SequencesExt

CONSTANTS MaxCpus,
          Machines,             \* pairs: a number of cpus, and the bound on its threads
          MaxThreads,           \* the largest of these bounds
          UINT_MOD              \* unsigned numbers are below it

ASSUME SchedulerAssumption ==
    /\ MaxCpus \in Nat \ {0}
    /\ MaxThreads \in Nat /\ MaxThreads >= MaxCpus
    /\ Machines \subseteq (1 .. MaxCpus) \X (MaxCpus .. MaxThreads)
    /\ UINT_MOD \in Nat /\ UINT_MOD > MaxThreads

AllCpus == 0 .. MaxCpus - 1
Threads == 0 .. MaxThreads - 1
NoCpu == -1
NoThread == -1

\* lbolt, thread_count_wchan and the channel of cpu_startup_sem; none for a
\* wakeup without a channel
Wchans == {"lbolt", "count", "sem"}

VARIABLES
    num_cpus,
    \* struct thread
    t_state, t_cpu, at,
    num,          \* a number of the thread: P's left to do, tc
    child,        \* the thread it is forking
    \* struct cpu
    curthread, isidle, runqueue, runqueue_lock, zombies,
    ipi_line,     \* the interrupt is asserted
    pc, loc,
    \* the wait channels with their spinlocks
    wc_threads, wc_lock,
    sem_count, thread_count

thread == <<t_state, t_cpu, at, num, child>>
cpu == <<curthread, isidle, runqueue, runqueue_lock, zombies, ipi_line, pc, loc>>
chans == <<wc_threads, wc_lock, sem_count>>
vars == <<num_cpus, thread, cpu, chans, thread_count>>

Cpus == 0 .. num_cpus - 1
CpuCounts == {m[1] : m \in Machines}

NoLocals == [new |-> "", wc |-> "none", list |-> <<>>, i |-> 0, total |-> 0, mine |-> 0,
             to_send |-> 0, share |-> 0]

(* cpu_create for every cpu; t_state keeps the S_READY of thread_create.   *)
Init == /\ num_cpus \in CpuCounts
        /\ t_state = [t \in Threads |-> IF t < num_cpus THEN "READY" ELSE "none"]
        /\ t_cpu = [t \in Threads |-> IF t < num_cpus THEN t ELSE NoCpu]
        /\ at = [t \in Threads |-> IF t = 0 THEN "boot"
                                   ELSE IF t < num_cpus THEN "hatch" ELSE "user"]
        /\ num = [t \in Threads |-> IF t = 0 THEN num_cpus - 1 ELSE 0]
        /\ child = [t \in Threads |-> NoThread]
        /\ curthread = [c \in AllCpus |-> c]
        /\ isidle = [c \in AllCpus |-> FALSE]
        /\ runqueue = [c \in AllCpus |-> <<>>]
        /\ runqueue_lock = [c \in AllCpus |-> NoCpu]
        /\ zombies = [c \in AllCpus |-> <<>>]
        /\ ipi_line = [c \in AllCpus |-> FALSE]
        /\ pc = [c \in AllCpus |-> "run"]
        /\ loc = [c \in AllCpus |-> NoLocals]
        /\ wc_threads = [w \in Wchans |-> <<>>]
        /\ wc_lock = [w \in Wchans |-> NoCpu]
        /\ sem_count = 0
        /\ thread_count = 0

-----------------------------------------------------------------------------
Goto(c, label, l) == /\ pc' = [pc EXCEPT ![c] = label]
                     /\ loc' = [loc EXCEPT ![c] = l]

(* The current thread executes its own code.                               *)
Runs(c, label) == pc[c] = "run" /\ at[curthread[c]] = label

(* The start of wchan_sleep(w): its spinlock is held up to thread_switch.  *)
Sleep(c, w) == /\ wc_lock' = [wc_lock EXCEPT ![w] = c]
               /\ Goto(c, "switch", [NoLocals EXCEPT !.new = "SLEEP", !.wc = w])

(* Broken variant: the threads stay on the channel.                        *)
wchan_wakeall_stays(c, w) ==
    /\ wc_lock' = [wc_lock EXCEPT ![w] = c]
    /\ wc_threads' = [wc_threads EXCEPT ![w] = @]
    /\ Goto(c, "wake", [NoLocals EXCEPT !.wc = w, !.list = wc_threads[w]])

(* Broken variant: the first thread is lost.                               *)
wchan_wakeall_drops_first(c, w) ==
    /\ wc_lock' = [wc_lock EXCEPT ![w] = c]
    /\ wc_threads' = [wc_threads EXCEPT ![w] = <<>>]
    /\ Goto(c, "wake", [NoLocals EXCEPT !.wc = w,
                              !.list = IF wc_threads[w] = <<>> THEN <<>>
                                       ELSE Tail(wc_threads[w])])

(* wchan_wakeall(w) and wchan_wakeone(w), with the spinlock of w: the      *)
(* threads are taken off the channel, then made runnable one by one.       *)
wchan_wakeall(c, w) ==
    /\ wc_lock' = [wc_lock EXCEPT ![w] = c]
    /\ wc_threads' = [wc_threads EXCEPT ![w] = <<>>]
    /\ Goto(c, "wake", [NoLocals EXCEPT !.wc = w, !.list = wc_threads[w]])

wchan_wakeone(c, w) ==
    /\ wc_lock' = [wc_lock EXCEPT ![w] = c]
    /\ wc_threads' = [wc_threads EXCEPT ![w] = IF @ = <<>> THEN @ ELSE Tail(@)]
    /\ Goto(c, "wake", [NoLocals EXCEPT !.wc = w,
                              !.list = IF wc_threads[w] = <<>> THEN <<>>
                                       ELSE <<Head(wc_threads[w])>>])

(* Broken variant: the idle cpu is not interrupted.                        *)
thread_make_runnable_no_ipi(c) ==
    /\ pc[c] = "wake" /\ loc[c].list # <<>>
    /\ LET target == Head(loc[c].list)
           d == t_cpu[target] IN
       /\ runqueue_lock[d] = NoCpu
       /\ t_state' = [t_state EXCEPT ![target] = "READY"]
       /\ runqueue' = [runqueue EXCEPT ![d] = Append(@, target)]
       /\ ipi_line' = [ipi_line EXCEPT ![d] = @]
    /\ loc' = [loc EXCEPT ![c].list = Tail(@)]
    /\ UNCHANGED <<num_cpus, t_cpu, at, num, child, curthread, isidle, runqueue_lock, zombies,
                   pc, chans, thread_count>>

(* thread_make_runnable without the lock: an idle cpu, other than our own, *)
(* gets an interrupt.                                                      *)
thread_make_runnable(c) ==
    /\ pc[c] = "wake" /\ loc[c].list # <<>>
    /\ LET target == Head(loc[c].list)
           d == t_cpu[target] IN
       /\ runqueue_lock[d] = NoCpu
       /\ t_state' = [t_state EXCEPT ![target] = "READY"]
       /\ runqueue' = [runqueue EXCEPT ![d] = Append(@, target)]
       /\ ipi_line' = [ipi_line EXCEPT ![d] = @ \/ (isidle[d] /\ d # c)]
    /\ loc' = [loc EXCEPT ![c].list = Tail(@)]
    /\ UNCHANGED <<num_cpus, t_cpu, at, num, child, curthread, isidle, runqueue_lock, zombies,
                   pc, chans, thread_count>>

(* The spinlock of the channel is released.                                *)
wake_done(c) ==
    /\ pc[c] = "wake" /\ loc[c].list = <<>>
    /\ wc_lock' = [w \in Wchans |-> IF w = loc[c].wc THEN NoCpu ELSE wc_lock[w]]
    /\ Goto(c, IF isidle[c] THEN "irq" ELSE "run", NoLocals)
    /\ UNCHANGED <<num_cpus, thread, curthread, isidle, runqueue, runqueue_lock, zombies,
                   ipi_line, wc_threads, sem_count, thread_count>>

-----------------------------------------------------------------------------
(* thread_switch, up to the choice of the next thread.  The run queue lock *)
(* is kept; the spinlock of the channel is released once we are on it.     *)
thread_switch(c) ==
    /\ pc[c] = "switch" /\ runqueue_lock[c] = NoCpu
    /\ LET cur == curthread[c]
           new == loc[c].new IN
       IF new = "READY" /\ runqueue[c] = <<>>
       THEN /\ Goto(c, "run", NoLocals)
            /\ UNCHANGED <<thread, curthread, isidle, runqueue, runqueue_lock, zombies, ipi_line,
                           chans>>
       ELSE /\ runqueue_lock' = [runqueue_lock EXCEPT ![c] = c]
            /\ runqueue' = IF new = "READY" THEN [runqueue EXCEPT ![c] = Append(@, cur)]
                           ELSE runqueue
            /\ wc_threads' = [w \in Wchans |-> IF w = loc[c].wc THEN Append(wc_threads[w], cur)
                                               ELSE wc_threads[w]]
            /\ wc_lock' = [w \in Wchans |-> IF w = loc[c].wc THEN NoCpu ELSE wc_lock[w]]
            /\ zombies' = IF new = "ZOMBIE" THEN [zombies EXCEPT ![c] = Append(@, cur)]
                          ELSE zombies
            /\ t_state' = [t_state EXCEPT ![cur] = new]
            /\ isidle' = [isidle EXCEPT ![c] = TRUE]
            /\ Goto(c, "pick", NoLocals)
            /\ UNCHANGED <<t_cpu, at, num, child, curthread, ipi_line, sem_count>>
    /\ UNCHANGED <<num_cpus, thread_count>>

(* No thread to run: cpu_idle, without the lock.                           *)
idle(c) ==
    /\ pc[c] = "pick" /\ runqueue[c] = <<>>
    /\ runqueue_lock' = [runqueue_lock EXCEPT ![c] = NoCpu]
    /\ Goto(c, "idle", NoLocals)
    /\ UNCHANGED <<num_cpus, thread, curthread, isidle, runqueue, zombies, ipi_line, chans,
                   thread_count>>

(* An interrupt has ended cpu_idle.                                        *)
unidle(c) ==
    /\ pc[c] \in {"unidle", "irq"} /\ runqueue_lock[c] = NoCpu
    /\ runqueue_lock' = [runqueue_lock EXCEPT ![c] = c]
    /\ Goto(c, "pick", NoLocals)
    /\ UNCHANGED <<num_cpus, thread, curthread, isidle, runqueue, zombies, ipi_line, chans,
                   thread_count>>

(* The switch, and what the next thread does first, in the rest of         *)
(* thread_switch or in thread_startup: exorcise frees the zombies.         *)
switchframe_switch(c) ==
    /\ pc[c] = "pick" /\ runqueue[c] # <<>>
    /\ curthread' = [curthread EXCEPT ![c] = Head(runqueue[c])]
    /\ runqueue' = [runqueue EXCEPT ![c] = Tail(@)]
    /\ isidle' = [isidle EXCEPT ![c] = FALSE]
    /\ runqueue_lock' = [runqueue_lock EXCEPT ![c] = NoCpu]
    /\ t_state' = [t \in Threads |-> IF t = Head(runqueue[c]) THEN "RUN"
                                     ELSE IF t \in ToSet(zombies[c]) THEN "none"
                                     ELSE t_state[t]]
    /\ at' = [t \in Threads |-> IF t \in ToSet(zombies[c]) THEN "user" ELSE at[t]]
    /\ t_cpu' = [t \in Threads |-> IF t \in ToSet(zombies[c]) THEN NoCpu ELSE t_cpu[t]]
    /\ zombies' = [zombies EXCEPT ![c] = <<>>]
    /\ Goto(c, "run", NoLocals)
    /\ UNCHANGED <<num_cpus, num, child, ipi_line, chans, thread_count>>

-----------------------------------------------------------------------------
(* What threads do.                                                        *)

Move(c, label) == at' = [at EXCEPT ![curthread[c]] = label]

(* thread_start_cpus: a P of cpu_startup_sem for every other cpu, then the *)
(* thread count is set.                                                    *)
thread_start_cpus(c) ==
    /\ Runs(c, "boot") /\ num[curthread[c]] > 0
    /\ wc_lock["sem"] = NoCpu
    /\ IF sem_count = 0
       THEN Sleep(c, "sem") /\ UNCHANGED <<sem_count, num>>
       ELSE /\ sem_count' = sem_count - 1
            /\ num' = [num EXCEPT ![curthread[c]] = @ - 1]
            /\ UNCHANGED <<wc_lock, pc, loc>>
    /\ UNCHANGED <<num_cpus, t_state, t_cpu, at, child, curthread, isidle, runqueue,
                   runqueue_lock, zombies, ipi_line, wc_threads, thread_count>>

cpus_online(c) ==
    /\ Runs(c, "boot") /\ num[curthread[c]] = 0
    /\ thread_count' = 1
    /\ Move(c, "user")
    /\ UNCHANGED <<num_cpus, t_state, t_cpu, num, child, cpu, chans>>

(* cpu_hatch: V(cpu_startup_sem), then thread_exit.                        *)
cpu_hatch(c) ==
    /\ Runs(c, "hatch")
    /\ wc_lock["sem"] = NoCpu
    /\ sem_count' = sem_count + 1
    /\ wchan_wakeone(c, "sem")
    /\ Move(c, "exit")
    /\ UNCHANGED <<num_cpus, t_state, t_cpu, num, child, curthread, isidle, runqueue,
                   runqueue_lock, zombies, ipi_line, thread_count>>

(* thread_fork: the thread is created and counted; common_prog has read    *)
(* thread_count before, without its lock.                                  *)
thread_fork(c, t) ==
    /\ Runs(c, "user")
    /\ t_state[t] = "none" /\ \E m \in Machines : m[1] = num_cpus /\ t < m[2]
    /\ wc_lock["count"] = NoCpu
    /\ num' = [num EXCEPT ![curthread[c]] = IF curthread[c] = 0 THEN thread_count ELSE 0]
    /\ t_state' = [t_state EXCEPT ![t] = "READY"]
    /\ t_cpu' = [t_cpu EXCEPT ![t] = t_cpu[curthread[c]]]
    /\ child' = [child EXCEPT ![curthread[c]] = t]
    /\ thread_count' = (thread_count + 1) % UINT_MOD
    /\ wchan_wakeall(c, "count")
    /\ Move(c, "forked")
    /\ UNCHANGED <<num_cpus, curthread, isidle, runqueue, runqueue_lock, zombies, ipi_line,
                   sem_count>>

(* Then it is made runnable.  The menu goes on to thread_wait_for_count.   *)
fork_run(c) ==
    /\ Runs(c, "forked")
    /\ Goto(c, "wake", [NoLocals EXCEPT !.list = <<child[curthread[c]]>>])
    /\ child' = [child EXCEPT ![curthread[c]] = NoThread]
    /\ Move(c, IF curthread[c] = 0 THEN "count" ELSE "user")
    /\ UNCHANGED <<num_cpus, t_state, t_cpu, num, curthread, isidle, runqueue, runqueue_lock,
                   zombies, ipi_line, chans, thread_count>>

(* thread_wait_for_count(tc)                                               *)
thread_wait_for_count(c) ==
    /\ Runs(c, "count")
    /\ wc_lock["count"] = NoCpu
    /\ IF thread_count # num[curthread[c]]
       THEN Sleep(c, "count") /\ UNCHANGED at
       ELSE Move(c, "user") /\ UNCHANGED <<wc_lock, pc, loc>>
    /\ UNCHANGED <<num_cpus, t_state, t_cpu, num, child, curthread, isidle, runqueue,
                   runqueue_lock, zombies, ipi_line, wc_threads, sem_count, thread_count>>

(* clocksleep(1): back from wchan_sleep the lock is taken once more.       *)
clocksleep(c) ==
    /\ Runs(c, "user") /\ curthread[c] # 0
    /\ wc_lock["lbolt"] = NoCpu
    /\ Sleep(c, "lbolt")
    /\ Move(c, "clock")
    /\ UNCHANGED <<num_cpus, t_state, t_cpu, num, child, curthread, isidle, runqueue,
                   runqueue_lock, zombies, ipi_line, wc_threads, sem_count, thread_count>>

clocksleep_return(c) ==
    /\ Runs(c, "clock")
    /\ wc_lock["lbolt"] = NoCpu
    /\ Move(c, "user")
    /\ UNCHANGED <<num_cpus, t_state, t_cpu, num, child, cpu, chans, thread_count>>

(* thread_exit: the count is read without its lock, lowered, and the       *)
(* thread becomes a zombie.  The menu does not exit.                       *)
thread_exit(c) ==
    /\ (Runs(c, "user") /\ curthread[c] # 0) \/ Runs(c, "exit")
    /\ Move(c, IF thread_count # 0 THEN "exit_count" ELSE "exit_switch")
    /\ UNCHANGED <<num_cpus, t_state, t_cpu, num, child, cpu, chans, thread_count>>

(* Broken variant: the count is not lowered.                               *)
exit_count_kept(c) ==
    /\ Runs(c, "exit_count")
    /\ wc_lock["count"] = NoCpu
    /\ thread_count' = thread_count
    /\ wchan_wakeall(c, "count")
    /\ Move(c, "exit_switch")
    /\ UNCHANGED <<num_cpus, t_state, t_cpu, num, child, curthread, isidle, runqueue,
                   runqueue_lock, zombies, ipi_line, sem_count>>

exit_count(c) ==
    /\ Runs(c, "exit_count")
    /\ wc_lock["count"] = NoCpu
    /\ thread_count' = (thread_count - 1) % UINT_MOD
    /\ wchan_wakeall(c, "count")
    /\ Move(c, "exit_switch")
    /\ UNCHANGED <<num_cpus, t_state, t_cpu, num, child, curthread, isidle, runqueue,
                   runqueue_lock, zombies, ipi_line, sem_count>>

exit_switch(c) ==
    /\ Runs(c, "exit_switch")
    /\ Goto(c, "switch", [NoLocals EXCEPT !.new = "ZOMBIE"])
    /\ UNCHANGED <<num_cpus, thread, curthread, isidle, runqueue, runqueue_lock, zombies,
                   ipi_line, chans, thread_count>>

-----------------------------------------------------------------------------
(* Interrupts, taken by a running thread or in cpu_idle; mainbus_interrupt *)
(* looks for one of the clock after the one of the timer ("irq").          *)

TakesInterrupts(c) == pc[c] \in {"run", "idle"}

(* Broken variant: hardclock does not yield.                               *)
AfterHardclock_no_yield(c) == IF isidle[c] THEN "unidle" ELSE "run"

(* hardclock: every MIGRATE_HARDCLOCKS-th considers migration; thread_yield *)
(* returns at once when the cpu is idle.  (thread_yield of a thread is the *)
(* same switch.)                                                           *)
AfterHardclock(c) == IF isidle[c] THEN "unidle" ELSE "switch"
Yielding == [NoLocals EXCEPT !.new = "READY"]

hardclock(c) ==
    /\ TakesInterrupts(c) \/ pc[c] = "irq"
    /\ Goto(c, AfterHardclock(c), Yielding)
    /\ UNCHANGED <<num_cpus, thread, curthread, isidle, runqueue, runqueue_lock, zombies,
                   ipi_line, chans, thread_count>>

hardclock_migrate(c) ==
    /\ TakesInterrupts(c) \/ pc[c] = "irq"
    /\ num_cpus > 1
    /\ Goto(c, "mig_count", NoLocals)
    /\ UNCHANGED <<num_cpus, thread, curthread, isidle, runqueue, runqueue_lock, zombies,
                   ipi_line, chans, thread_count>>

(* timerclock, on one of the cpus.                                         *)
timerclock(c) ==
    /\ c = 0 /\ TakesInterrupts(c)
    /\ wc_lock["lbolt"] = NoCpu
    /\ wchan_wakeall(c, "lbolt")
    /\ UNCHANGED <<num_cpus, thread, curthread, isidle, runqueue, runqueue_lock, zombies,
                   ipi_line, sem_count, thread_count>>

(* interprocessor_interrupt has nothing to do for IPI_UNIDLE; afterwards   *)
(* the line is cleared, whatever was sent in between.                      *)
interprocessor_interrupt(c) ==
    /\ TakesInterrupts(c) /\ ipi_line[c]
    /\ Goto(c, "ipi", NoLocals)
    /\ UNCHANGED <<num_cpus, thread, curthread, isidle, runqueue, runqueue_lock, zombies,
                   ipi_line, chans, thread_count>>

lamebus_clear_ipi(c) ==
    /\ pc[c] = "ipi"
    /\ ipi_line' = [ipi_line EXCEPT ![c] = FALSE]
    /\ Goto(c, IF isidle[c] THEN "unidle" ELSE "run", NoLocals)
    /\ UNCHANGED <<num_cpus, thread, curthread, isidle, runqueue, runqueue_lock, zombies, chans,
                   thread_count>>

-----------------------------------------------------------------------------
(* thread_consider_migration.                                              *)

DIVROUNDUP(a, b) == (a + b - 1) \div b

(* The run queues are counted one by one.                                  *)
migrate_count(c) ==
    /\ pc[c] = "mig_count" /\ loc[c].i < num_cpus
    /\ LET i == loc[c].i IN
       /\ runqueue_lock[i] = NoCpu
       /\ loc' = [loc EXCEPT ![c].i = i + 1, ![c].total = @ + Len(runqueue[i]),
                             ![c].mine = IF i = c THEN Len(runqueue[i]) ELSE @]
    /\ UNCHANGED <<num_cpus, thread, curthread, isidle, runqueue, runqueue_lock, zombies,
                   ipi_line, pc, chans, thread_count>>

(* Nothing to send, or the last to_send threads of the queue are taken.    *)
migrate_take(c) ==
    /\ pc[c] = "mig_count" /\ loc[c].i = num_cpus
    /\ LET share == DIVROUNDUP(loc[c].total, num_cpus)
           rest == Len(runqueue[c]) - (loc[c].mine - share) IN
       IF loc[c].mine < share
       THEN Goto(c, AfterHardclock(c), Yielding) /\ UNCHANGED runqueue
       ELSE /\ runqueue_lock[c] = NoCpu
            /\ runqueue' = [runqueue EXCEPT ![c] = SubSeq(@, 1, rest)]
            /\ Goto(c, "mig_send", [NoLocals EXCEPT
                       !.list = SubSeq(runqueue[c], rest + 1, Len(runqueue[c])),
                       !.to_send = loc[c].mine - share, !.share = share])
    /\ UNCHANGED <<num_cpus, thread, curthread, isidle, runqueue_lock, zombies, ipi_line, chans,
                   thread_count>>

Unlocked(c) == [d \in AllCpus |-> IF runqueue_lock[d] = c THEN NoCpu ELSE runqueue_lock[d]]

(* Broken variant: curthread may be migrated.                              *)
migrate_send_current(c) ==
    /\ pc[c] = "mig_send" /\ loc[c].i < num_cpus /\ loc[c].to_send > 0
    /\ LET d == loc[c].i
           t == Head(loc[c].list) IN
       IF d = c \/ Len(runqueue[d]) >= loc[c].share
       THEN /\ d # c => runqueue_lock[d] \in {NoCpu, c}
            /\ loc' = [loc EXCEPT ![c].i = d + 1]
            /\ runqueue_lock' = Unlocked(c)
            /\ UNCHANGED <<t_cpu, runqueue, ipi_line>>
       ELSE /\ runqueue_lock[d] \in {NoCpu, c}
            /\ runqueue_lock' = [runqueue_lock EXCEPT ![d] = c]
            /\ loc' = [loc EXCEPT ![c].list = Tail(@), ![c].to_send = @ - 1]
            /\ t_cpu' = [t_cpu EXCEPT ![t] = d]
            /\ runqueue' = [runqueue EXCEPT ![d] = Append(@, t)]
            /\ ipi_line' = [ipi_line EXCEPT ![d] = @ \/ isidle[d]]
    /\ UNCHANGED <<num_cpus, t_state, at, num, child, curthread, isidle, zombies, pc, chans,
                   thread_count>>

(* The loop over the other cpus: d is the one whose queue is locked.  Our  *)
(* curthread, which may be there if we are idle, stays.                    *)
migrate_send(c) ==
    /\ pc[c] = "mig_send" /\ loc[c].i < num_cpus /\ loc[c].to_send > 0
    /\ LET d == loc[c].i
           t == Head(loc[c].list) IN
       IF d = c \/ Len(runqueue[d]) >= loc[c].share
       THEN /\ d # c => runqueue_lock[d] \in {NoCpu, c}
            /\ loc' = [loc EXCEPT ![c].i = d + 1]
            /\ runqueue_lock' = Unlocked(c)
            /\ UNCHANGED <<t_cpu, runqueue, ipi_line>>
       ELSE /\ runqueue_lock[d] \in {NoCpu, c}
            /\ runqueue_lock' = [runqueue_lock EXCEPT ![d] = c]
            /\ IF t = curthread[c]
               THEN /\ loc' = [loc EXCEPT ![c].list = Append(Tail(@), t), ![c].to_send = @ - 1]
                    /\ UNCHANGED <<t_cpu, runqueue, ipi_line>>
               ELSE /\ loc' = [loc EXCEPT ![c].list = Tail(@), ![c].to_send = @ - 1]
                    /\ t_cpu' = [t_cpu EXCEPT ![t] = d]
                    /\ runqueue' = [runqueue EXCEPT ![d] = Append(@, t)]
                    /\ ipi_line' = [ipi_line EXCEPT ![d] = @ \/ isidle[d]]
    /\ UNCHANGED <<num_cpus, t_state, at, num, child, curthread, isidle, zombies, pc, chans,
                   thread_count>>

(* The last queue is unlocked.                                             *)
migrate_sent(c) ==
    /\ pc[c] = "mig_send" /\ (loc[c].i = num_cpus \/ loc[c].to_send = 0)
    /\ runqueue_lock' = Unlocked(c)
    /\ Goto(c, "mig_back", loc[c])
    /\ UNCHANGED <<num_cpus, thread, curthread, isidle, runqueue, zombies, ipi_line, chans,
                   thread_count>>

(* What is left goes back on our own queue.                                *)
migrate_leftovers(c) ==
    /\ pc[c] = "mig_back"
    /\ loc[c].list # <<>> => runqueue_lock[c] = NoCpu
    /\ runqueue' = [runqueue EXCEPT ![c] = @ \o loc[c].list]
    /\ Goto(c, AfterHardclock(c), Yielding)
    /\ UNCHANGED <<num_cpus, thread, curthread, isidle, runqueue_lock, zombies, ipi_line, chans,
                   thread_count>>

-----------------------------------------------------------------------------
Interrupt(c) == \/ hardclock(c) \/ hardclock_migrate(c) \/ timerclock(c)
                \/ interprocessor_interrupt(c)

(* Code of the kernel that does not stop: with interrupts off, and as a    *)
(* thread executes it.                                                     *)
Handler(c) ==
    \/ thread_make_runnable(c) \/ wake_done(c)
    \/ thread_switch(c) \/ idle(c) \/ unidle(c) \/ switchframe_switch(c)
    \/ lamebus_clear_ipi(c)
    \/ migrate_count(c) \/ migrate_take(c) \/ migrate_send(c) \/ migrate_sent(c)
    \/ migrate_leftovers(c)

Code(c) ==
    \/ thread_start_cpus(c) \/ cpus_online(c) \/ cpu_hatch(c)
    \/ fork_run(c) \/ thread_wait_for_count(c) \/ clocksleep_return(c)
    \/ exit_count(c) \/ exit_switch(c)

(* The choices of a thread.                                                *)
User(c) == \/ \E t \in Threads : thread_fork(c, t)
           \/ clocksleep(c) \/ thread_exit(c)

Next == \E c \in Cpus : Interrupt(c) \/ Handler(c) \/ Code(c) \/ User(c)

(* A cpu has come to code of thread t that it executes without a choice.   *)
AtCode(t) == \E c \in Cpus : pc[c] = "run" /\ curthread[c] = t /\ at[t] \notin {"user", "exit"}

(* Every cpu executes its handlers; it gets a spinlock that is free again  *)
(* and again, since whoever takes it repeatedly waits for a clock          *)
(* interrupt in between, far longer than it takes to look at the lock.     *)
(* Clocks keep interrupting every cpu: a pending interrupt is taken once   *)
(* interrupts are on; but a thread that is run again and again executes    *)
(* some of its code, since a time slice is many instructions.  If that     *)
(* code takes a spinlock, spinlock_acquire turns interrupts off before it  *)
(* spins, so the clock does not drive the thread away from the lock.       *)
Fairness ==
    /\ \A c \in AllCpus : /\ SF_vars(c \in Cpus /\ Handler(c))
                          /\ SF_vars(c \in Cpus /\ hardclock(c))
    /\ SF_vars(timerclock(0))
    /\ \A t \in Threads :
          []<>AtCode(t) /\ []<>(\A w \in Wchans : wc_lock[w] = NoCpu)
             => []<><<\E c \in Cpus : curthread[c] = t /\ Code(c)>>_vars

Spec == Init /\ [][Next]_vars /\ Fairness

-----------------------------------------------------------------------------
States == {"none", "READY", "RUN", "SLEEP", "ZOMBIE"}
CpuLabels == {"run", "idle", "irq", "unidle", "wake", "switch", "pick", "ipi", "mig_count",
              "mig_send", "mig_back"}
ThreadLabels == {"boot", "hatch", "user", "forked", "count", "clock", "exit", "exit_count",
                 "exit_switch"}

(* Types of the threads, the cpus and the channels.                        *)
TypeOK ==
    /\ num_cpus \in CpuCounts
    /\ t_state \in [Threads -> States] /\ t_cpu \in [Threads -> AllCpus \cup {NoCpu}]
    /\ at \in [Threads -> ThreadLabels]
    /\ num \in [Threads -> 0 .. UINT_MOD - 1]
    /\ child \in [Threads -> Threads \cup {NoThread}]
    /\ curthread \in [AllCpus -> Threads] /\ isidle \in [AllCpus -> BOOLEAN]
    /\ runqueue \in [AllCpus -> Seq(Threads)] /\ zombies \in [AllCpus -> Seq(Threads)]
    /\ \A c \in AllCpus : loc[c].list \in Seq(Threads) /\ loc[c].to_send \in Nat
    /\ runqueue_lock \in [AllCpus -> AllCpus \cup {NoCpu}]
    /\ ipi_line \in [AllCpus -> BOOLEAN]
    /\ pc \in [AllCpus -> CpuLabels]
    /\ wc_threads \in [Wchans -> Seq(Threads)]
    /\ wc_lock \in [Wchans -> AllCpus \cup {NoCpu}]
    /\ sem_count \in 0 .. num_cpus - 1
    /\ thread_count \in 0 .. UINT_MOD - 1

(* The lists a thread can be on, by name.                                  *)
ListNames == ({"runqueue", "zombies", "private"} \X AllCpus) \cup ({"wchan"} \X Wchans)
Lists == [l \in ListNames |->
            CASE l[1] = "runqueue" -> runqueue[l[2]]
              [] l[1] = "zombies"  -> zombies[l[2]]
              [] l[1] = "private"  -> loc[l[2]].list
              [] l[1] = "wchan"    -> wc_threads[l[2]]]

Listed(t) == \E l \in ListNames : t \in ToSet(Lists[l])

(* The threads being forked: created, and on no list yet.                  *)
Forking == {child[t] : t \in {u \in Threads : child[u] # NoThread}}

(* A thread has one list node: it is on at most one of all run queues,     *)
(* wait channels, zombie lists and the private lists of wakeups and        *)
(* migrations, and a running thread is on none; every other thread is on   *)
(* one, so none is lost between two lists.  The types hold.                *)
OnePlace ==
    /\ TypeOK
    /\ \A l, m \in ListNames : \A i \in DOMAIN Lists[l], j \in DOMAIN Lists[m] :
         Lists[l][i] = Lists[m][j] => l = m /\ i = j
    /\ \A t \in Threads :
         (t_state[t] # "none" /\ t \notin Forking) =>
            (Listed(t) <=> \A c \in Cpus : ~isidle[c] => curthread[c] # t)

(* No stack is used by two cpus, idle ones included: an idle cpu stays on  *)
(* the stack of its last thread, which may be awake on its own queue but   *)
(* is not migrated away, nor freed.                                        *)
OneStack == \A c, d \in Cpus :
    /\ curthread[c] = curthread[d] => c = d
    /\ t_state[curthread[c]] # "none"
    /\ curthread[c] \in ToSet(runqueue[d]) => d = c

(* A migration takes as many threads as it counted: its queue has not      *)
(* become shorter since, so threadlist_addhead never gets a NULL; and it   *)
(* has one for every thread it still means to send.                        *)
VictimsExist == \A c \in Cpus :
    /\ pc[c] = "mig_count" /\ loc[c].i > c => Len(runqueue[c]) >= loc[c].mine
    /\ pc[c] = "mig_send" => Len(loc[c].list) >= loc[c].to_send

(* thread_consider_migration, which looks at the queues one after the      *)
(* other and lets go of their locks in between, takes only threads that    *)
(* are there and leaves every cpu the stack it stands on.                  *)
MigrationSound == OneStack /\ VictimsExist

(* A cpu asleep in cpu_idle with a thread on its queue has an interrupt    *)
(* coming, although the line may be cleared after a later send.            *)
NoLostUnidle == \A c \in Cpus :
    pc[c] = "idle" /\ runqueue[c] # <<>> => ipi_line[c]

(* On one cpu the count is the number of threads that have not left it.    *)
Counted == {t \in Threads : t_state[t] \notin {"none", "ZOMBIE"} /\ at[t] # "exit_switch"}
CountExact == at[0] # "boot" => thread_count = Cardinality(Counted)
CountRight == num_cpus = 1 => CountExact

(* A thread that is ready gets to run, also when an idle cpu hands it to   *)
(* another one.                                                            *)
ReadyRuns == \A t \in Threads :
    t_state[t] = "READY" /\ Listed(t) ~> t_state[t] = "RUN"

(* clocksleep, which the menu does not call, returns, on whatever cpu the  *)
(* sleeper is when the timer of the first one ticks.                       *)
ClocksleepReturns == \A t \in Threads \ {0} : at[t] = "clock" ~> at[t] # "clock"
=============================================================================
