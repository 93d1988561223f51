------------------------------ MODULE Monitor ------------------------------
(***************************************************************************)
(* What kern/include/synch.h promises of locks, condition variables and    *)
(* semaphores, each operation being one step: a lock has at most one       *)
(* holder, cv_wait releases the lock and goes to sleep atomically,         *)
(* cv_signal and cv_broadcast reach the threads that sleep already and are *)
(* called by a thread that holds a lock, P takes a unit that is there.     *)
(***************************************************************************)
EXTENDS Integers, Sequences

CONSTANTS Threads, Locks, CVs, Sems, NoThread

VARIABLES owner,    \* the thread holding each lock, or NoThread
          waiting,  \* the threads waiting on each cv, first come first
          count     \* the units of each semaphore

vars == <<owner, waiting, count>>

Init == /\ owner = [l \in Locks |-> NoThread]
        /\ waiting = [c \in CVs |-> <<>>]
        /\ count \in [Sems -> Nat]

Waits(t) == \E c \in CVs : \E i \in DOMAIN waiting[c] : waiting[c][i] = t

lock_acquire(t, l) ==
    /\ owner[l] = NoThread
    /\ ~Waits(t)
    /\ owner' = [owner EXCEPT ![l] = t]
    /\ UNCHANGED <<waiting, count>>

lock_release(t, l) ==
    /\ owner[l] = t
    /\ owner' = [owner EXCEPT ![l] = NoThread]
    /\ UNCHANGED <<waiting, count>>

cv_wait(t, c, l) ==
    /\ owner[l] = t
    /\ owner' = [owner EXCEPT ![l] = NoThread]
    /\ waiting' = [waiting EXCEPT ![c] = Append(@, t)]
    /\ UNCHANGED count

cv_signal(t, c, l) ==
    /\ owner[l] = t
    /\ waiting[c] # <<>>
    /\ waiting' = [waiting EXCEPT ![c] = Tail(@)]
    /\ UNCHANGED <<owner, count>>

cv_broadcast(t, c, l) ==
    /\ owner[l] = t
    /\ waiting' = [waiting EXCEPT ![c] = <<>>]
    /\ UNCHANGED <<owner, count>>

P(s) == /\ count[s] > 0
        /\ count' = [count EXCEPT ![s] = @ - 1]
        /\ UNCHANGED <<owner, waiting>>

V(s) == /\ count' = [count EXCEPT ![s] = @ + 1]
        /\ UNCHANGED <<owner, waiting>>

Next == \/ \E t \in Threads, l \in Locks : \/ lock_acquire(t, l)
                                           \/ lock_release(t, l)
        \/ \E t \in Threads, c \in CVs, l \in Locks : \/ cv_wait(t, c, l)
                                                      \/ cv_signal(t, c, l)
                                                      \/ cv_broadcast(t, c, l)
        \/ \E s \in Sems : P(s) \/ V(s)

Spec == Init /\ [][Next]_vars
=============================================================================
