---------------------------- MODULE MCScheduler ----------------------------
\* Machines of one and of two cpus for TLC.
EXTENDS Scheduler

MCMachines == {<<1, 3>>, <<2, 3>>}

\* Liveness on two cpus is checked of one program: the menu forks a thread that
\* calls clocksleep again and again, and the first cpu considers migration when
\* it is idle, which moves either of them.  On one cpu programs are arbitrary.
LiveUser(c) ==
    /\ User(c)
    /\ \/ num_cpus = 1
       \/ at[curthread[c]] = "exit"
       \/ clocksleep(c)
       \/ curthread[c] = 0 /\ \E t \in Threads : t >= num_cpus /\ thread_fork(c, t)

LiveInterrupt(c) ==
    \/ hardclock(c) \/ timerclock(c) \/ interprocessor_interrupt(c)
    \/ c = 0 /\ isidle[c] /\ hardclock_migrate(c)

LiveNext == \E c \in Cpus : LiveInterrupt(c) \/ Handler(c) \/ Code(c) \/ LiveUser(c)

LiveSpec == Init /\ [][LiveNext]_vars /\ Fairness
=============================================================================
