------------------------------- MODULE Synch -------------------------------
(***************************************************************************)
(* Semaphores, sleep locks and condition variables of the kernel           *)
(* (kern/thread/synch.c) on top of spinlocks (kern/thread/spinlock.c) and  *)
(* wait channels (kern/thread/thread.c).                                   *)
(*                                                                         *)
(* Every object owns one spinlock and one wait channel.  A thread that has *)
(* the spinlock of an object runs the code up to the release of that       *)
(* spinlock, or up to the acquisition of another one, as a single step:    *)
(* nobody else can touch the object meanwhile.  Between two steps of a     *)
(* thread any other thread may run (another cpu, or a timer interrupt).    *)
(*                                                                         *)
(* The clients are arbitrary: a thread in state "run" may call any         *)
(* operation whose entry KASSERTs hold; a call whose entry KASSERT fails   *)
(* panics and is not modelled.                                             *)
(***************************************************************************)
EXTENDS Integers, Sequences, FiniteSets

CONSTANTS Threads,      \* kernel threads
          Locks,        \* struct lock
          CVs,          \* struct cv
          Sems,         \* struct semaphore
          NoThread,     \* a NULL thread pointer, or a free spinlock
          NoObj,        \* no argument
          MaxCount      \* the largest semaphore count (the bound of sem_count)

Objects == Locks \cup CVs \cup Sems

ASSUME SynchAssumption ==
    /\ IsFiniteSet(Threads)
    /\ NoThread \notin Threads
    /\ NoObj \notin Objects
    /\ Locks \cap CVs = {} /\ Locks \cap Sems = {} /\ CVs \cap Sems = {}
    /\ MaxCount \in Nat

VARIABLES
    spin,           \* the thread that has the object's spinlock, or NoThread
    wchan,          \* the threads asleep on the object's wait channel, FIFO
    lock_held,      \* struct lock: lock_held
    thread_holder,  \* struct lock: thread_holder
    sem_count,      \* struct semaphore: sem_count
    pc,             \* where in synch.c each thread is
    obj,            \* the cv or semaphore argument of the call in progress
    mon,            \* the lock argument of the call in progress
    owns            \* the locks each thread was told it has: what its code
                    \* relies on between lock_acquire and lock_release

vars == <<spin, wchan, lock_held, thread_holder, sem_count, pc, obj, mon, owns>>

SpinLabels == {"la_spin", "lr_spin", "cw_spin", "cw_wake", "cs_spin",
               "cb_spin", "p_spin", "v_spin"}
AsleepLabels == {"la_asleep", "cw_asleep", "p_asleep"}
BodyLabels == {"la_body", "lr_body", "cw_sleep", "cw_unlock", "cs_body",
               "cb_body", "p_body", "v_body"}
Labels == {"run"} \cup SpinLabels \cup AsleepLabels \cup BodyLabels

lock_do_i_hold(t, l) == thread_holder[l] = t

-----------------------------------------------------------------------------
(* Creation.  The objects of the model exist from the start.               *)

lock_create ==
    /\ lock_held = [l \in Locks |-> FALSE]
    /\ thread_holder = [l \in Locks |-> NoThread]

sem_create == sem_count \in [Sems -> 0 .. MaxCount]

wchan_create == wchan = [o \in Objects |-> <<>>]

spinlock_init == spin = [o \in Objects |-> NoThread]

Init == /\ spinlock_init
        /\ wchan_create
        /\ lock_create
        /\ sem_create
        /\ pc = [t \in Threads |-> "run"]
        /\ obj = [t \in Threads |-> NoObj]
        /\ mon = [t \in Threads |-> NoObj]
        /\ owns = [t \in Threads |-> {}]

-----------------------------------------------------------------------------
(* Spinlocks and wait channels.                                            *)

(* spinlock_acquire of object o's spinlock: t is at label from and goes on *)
(* at label to once the spinlock is free.                                  *)
spinlock_acquire(t, from, o, to) ==
    /\ pc[t] = from
    /\ spin[o] = NoThread
    /\ spin' = [spin EXCEPT ![o] = t]
    /\ pc' = [pc EXCEPT ![t] = to]
    /\ UNCHANGED <<wchan, lock_held, thread_holder, sem_count, obj, mon, owns>>

Spin(t) == \/ spinlock_acquire(t, "la_spin", mon[t], "la_body")
           \/ spinlock_acquire(t, "lr_spin", mon[t], "lr_body")
           \/ spinlock_acquire(t, "cw_spin", obj[t], "lr_spin")
           \/ spinlock_acquire(t, "cw_wake", obj[t], "cw_unlock")
           \/ spinlock_acquire(t, "cs_spin", obj[t], "cs_body")
           \/ spinlock_acquire(t, "cb_spin", obj[t], "cb_body")
           \/ spinlock_acquire(t, "p_spin", obj[t], "p_body")
           \/ spinlock_acquire(t, "v_spin", obj[t], "v_body")

(* spinlock_release is never a step of its own: it ends a body.            *)
spinlock_release(o) == spin' = [spin EXCEPT ![o] = NoThread]

(* wchan_sleep up to the switch: the thread is put at the tail of the      *)
(* channel before the spinlock is released.  A woken thread relocks the    *)
(* spinlock: wchan_sleep returns through the corresponding spin label.     *)
wchan_sleep(t, o, label) ==
    /\ wchan' = [wchan EXCEPT ![o] = Append(@, t)]
    /\ spinlock_release(o)
    /\ pc' = [pc EXCEPT ![t] = label]

(* wchan_wakeone by t, which goes on at label next; the thread it wakes    *)
(* goes on at label woken.                                                 *)
wchan_wakeone(t, o, next, woken) ==
    IF wchan[o] = <<>>
    THEN /\ UNCHANGED wchan
         /\ pc' = [pc EXCEPT ![t] = next]
    ELSE /\ wchan' = [wchan EXCEPT ![o] = Tail(@)]
         /\ pc' = [pc EXCEPT ![t] = next, ![Head(wchan[o])] = woken]

Sleepers(o) == {wchan[o][i] : i \in DOMAIN wchan[o]}

wchan_wakeall(t, o, next, woken) ==
    /\ wchan' = [wchan EXCEPT ![o] = <<>>]
    /\ pc' = [u \in Threads |-> IF u = t THEN next
                                ELSE IF u \in Sleepers(o) THEN woken
                                ELSE pc[u]]

-----------------------------------------------------------------------------
(* Locks.                                                                  *)

lock_acquire(t, l) ==
    /\ pc[t] = "run"
    /\ pc' = [pc EXCEPT ![t] = "la_spin"]
    /\ mon' = [mon EXCEPT ![t] = l]
    /\ UNCHANGED <<spin, wchan, lock_held, thread_holder, sem_count, obj, owns>>

(* Broken variant: the test of lock_held is missing.                       *)
lock_acquire_body_untested(t) ==
    /\ pc[t] = "la_body"
    /\ LET l == mon[t] IN
       /\ lock_held' = [lock_held EXCEPT ![l] = TRUE]
       /\ thread_holder' = [thread_holder EXCEPT ![l] = t]
       /\ spinlock_release(l)
       /\ owns' = [owns EXCEPT ![t] = @ \cup {l}]
    /\ mon' = [mon EXCEPT ![t] = NoObj]
    /\ pc' = [pc EXCEPT ![t] = "run"]
    /\ UNCHANGED <<wchan, sem_count, obj>>

(* One pass of the while loop of lock_acquire, the spinlock being held.    *)
lock_acquire_body(t) ==
    /\ pc[t] = "la_body"
    /\ LET l == mon[t] IN
       \/ /\ lock_held[l]
          /\ wchan_sleep(t, l, "la_asleep")
          /\ UNCHANGED <<lock_held, thread_holder, mon, owns>>
       \/ /\ ~lock_held[l]
          /\ lock_held' = [lock_held EXCEPT ![l] = TRUE]
          /\ thread_holder' = [thread_holder EXCEPT ![l] = t]
          /\ spinlock_release(l)
          /\ owns' = [owns EXCEPT ![t] = @ \cup {l}]
          /\ mon' = [mon EXCEPT ![t] = NoObj]
          /\ pc' = [pc EXCEPT ![t] = "run"]
          /\ UNCHANGED wchan
    /\ UNCHANGED <<sem_count, obj>>

lock_release(t, l) ==
    /\ pc[t] = "run"
    /\ lock_held[l]
    /\ lock_do_i_hold(t, l)
    /\ pc' = [pc EXCEPT ![t] = "lr_spin"]
    /\ mon' = [mon EXCEPT ![t] = l]
    /\ owns' = [owns EXCEPT ![t] = @ \ {l}]
    /\ UNCHANGED <<spin, wchan, lock_held, thread_holder, sem_count, obj>>

(* Broken variant: no wchan_wakeone.                                       *)
lock_release_body_no_wake(t) ==
    /\ pc[t] = "lr_body"
    /\ LET l == mon[t] IN
       /\ lock_held' = [lock_held EXCEPT ![l] = FALSE]
       /\ thread_holder' = [thread_holder EXCEPT ![l] = NoThread]
       /\ spinlock_release(l)
    /\ pc' = [pc EXCEPT ![t] = IF obj[t] = NoObj THEN "run" ELSE "cw_sleep"]
    /\ mon' = IF obj[t] = NoObj THEN [mon EXCEPT ![t] = NoObj] ELSE mon
    /\ UNCHANGED <<wchan, sem_count, obj, owns>>

(* The body of lock_release; it returns to cv_wait when that called it.    *)
lock_release_body(t) ==
    /\ pc[t] = "lr_body"
    /\ LET l == mon[t] IN
       /\ lock_held' = [lock_held EXCEPT ![l] = FALSE]
       /\ thread_holder' = [thread_holder EXCEPT ![l] = NoThread]
       /\ wchan_wakeone(t, l, IF obj[t] = NoObj THEN "run" ELSE "cw_sleep", "la_spin")
       /\ spinlock_release(l)
    /\ mon' = IF obj[t] = NoObj THEN [mon EXCEPT ![t] = NoObj] ELSE mon
    /\ UNCHANGED <<sem_count, obj, owns>>

-----------------------------------------------------------------------------
(* Condition variables.                                                    *)

CallCv(t, c, l, label) ==
    /\ pc[t] = "run"
    /\ lock_do_i_hold(t, l)
    /\ pc' = [pc EXCEPT ![t] = label]
    /\ obj' = [obj EXCEPT ![t] = c]
    /\ mon' = [mon EXCEPT ![t] = l]
    /\ UNCHANGED <<spin, wchan, lock_held, thread_holder, sem_count>>

(* Broken variant: cv_wait does not take the spinlock of the cv.           *)
cv_wait_no_spinlock(t, c, l) ==
    /\ CallCv(t, c, l, "lr_spin")
    /\ owns' = [owns EXCEPT ![t] = @ \ {l}]

(* cv_wait takes the spinlock of the cv, calls lock_release, sleeps,       *)
(* releases the spinlock of the cv and calls lock_acquire.                 *)
cv_wait(t, c, l) ==
    /\ CallCv(t, c, l, "cw_spin")
    /\ owns' = [owns EXCEPT ![t] = @ \ {l}]

cv_wait_sleep(t) ==
    /\ pc[t] = "cw_sleep"
    /\ wchan_sleep(t, obj[t], "cw_asleep")
    /\ UNCHANGED <<lock_held, thread_holder, sem_count, obj, mon, owns>>

(* Broken variants: cv_wait returns without the lock, or calls             *)
(* lock_acquire before it releases the spinlock of the cv.                 *)
cv_wait_no_relock(t) ==
    /\ pc[t] = "cw_unlock"
    /\ spinlock_release(obj[t])
    /\ pc' = [pc EXCEPT ![t] = "run"]
    /\ obj' = [obj EXCEPT ![t] = NoObj]
    /\ mon' = [mon EXCEPT ![t] = NoObj]
    /\ owns' = [owns EXCEPT ![t] = @ \cup {mon[t]}]
    /\ UNCHANGED <<wchan, lock_held, thread_holder, sem_count>>
cv_wait_relock_early(t) ==
    /\ pc[t] = "cw_unlock"
    /\ pc' = [pc EXCEPT ![t] = "la_spin"]
    /\ UNCHANGED <<spin, wchan, lock_held, thread_holder, sem_count, obj, mon, owns>>

cv_wait_relock(t) ==
    /\ pc[t] = "cw_unlock"
    /\ spinlock_release(obj[t])
    /\ pc' = [pc EXCEPT ![t] = "la_spin"]
    /\ obj' = [obj EXCEPT ![t] = NoObj]
    /\ UNCHANGED <<wchan, lock_held, thread_holder, sem_count, mon, owns>>

cv_signal(t, c, l) == CallCv(t, c, l, "cs_spin") /\ UNCHANGED owns

cv_broadcast(t, c, l) == CallCv(t, c, l, "cb_spin") /\ UNCHANGED owns

CvReturn(t) ==
    /\ spinlock_release(obj[t])
    /\ obj' = [obj EXCEPT ![t] = NoObj]
    /\ mon' = [mon EXCEPT ![t] = NoObj]
    /\ UNCHANGED <<lock_held, thread_holder, sem_count, owns>>

cv_signal_body(t) ==
    /\ pc[t] = "cs_body"
    /\ wchan_wakeone(t, obj[t], "run", "cw_wake")
    /\ CvReturn(t)

cv_broadcast_body(t) ==
    /\ pc[t] = "cb_body"
    /\ wchan_wakeall(t, obj[t], "run", "cw_wake")
    /\ CvReturn(t)

-----------------------------------------------------------------------------
(* Semaphores.                                                             *)

CallSem(t, s, label) ==
    /\ pc[t] = "run"
    /\ pc' = [pc EXCEPT ![t] = label]
    /\ obj' = [obj EXCEPT ![t] = s]
    /\ UNCHANGED <<spin, wchan, lock_held, thread_holder, sem_count, mon, owns>>

P(t, s) == CallSem(t, s, "p_spin")

(* Broken variant: the test is off by one.                                 *)
P_body_off_by_one(t) ==
    /\ pc[t] = "p_body"
    /\ LET s == obj[t] IN
       /\ sem_count[s] >= 0
       /\ sem_count' = [sem_count EXCEPT ![s] = @ - 1]
       /\ spinlock_release(s)
    /\ pc' = [pc EXCEPT ![t] = "run"]
    /\ obj' = [obj EXCEPT ![t] = NoObj]
    /\ UNCHANGED <<wchan, lock_held, thread_holder, mon, owns>>

(* One pass of the while loop of P, the spinlock being held.               *)
P_body(t) ==
    /\ pc[t] = "p_body"
    /\ LET s == obj[t] IN
       \/ /\ sem_count[s] = 0
          /\ wchan_sleep(t, s, "p_asleep")
          /\ UNCHANGED <<sem_count, obj>>
       \/ /\ sem_count[s] > 0
          /\ sem_count' = [sem_count EXCEPT ![s] = @ - 1]
          /\ spinlock_release(s)
          /\ pc' = [pc EXCEPT ![t] = "run"]
          /\ obj' = [obj EXCEPT ![t] = NoObj]
          /\ UNCHANGED wchan
    /\ UNCHANGED <<lock_held, thread_holder, mon, owns>>

(* The threads inside V on s.                                              *)
InV(s) == {t \in Threads : obj[t] = s /\ pc[t] \in {"v_spin", "v_body"}}

(* MaxCount bounds the count: a V that would wrap it around panics.        *)
V(t, s) == /\ sem_count[s] + Cardinality(InV(s)) < MaxCount
           /\ CallSem(t, s, "v_spin")

(* Broken variants: V wakes a thread only when the count was 0, or never.  *)
V_body_wake_if_zero(t) ==
    /\ pc[t] = "v_body"
    /\ sem_count' = [sem_count EXCEPT ![obj[t]] = @ + 1]
    /\ IF sem_count[obj[t]] = 0
       THEN wchan_wakeone(t, obj[t], "run", "p_spin")
       ELSE UNCHANGED wchan /\ pc' = [pc EXCEPT ![t] = "run"]
    /\ spinlock_release(obj[t])
    /\ obj' = [obj EXCEPT ![t] = NoObj]
    /\ UNCHANGED <<lock_held, thread_holder, mon, owns>>
V_body_no_wake(t) ==
    /\ pc[t] = "v_body"
    /\ sem_count' = [sem_count EXCEPT ![obj[t]] = @ + 1]
    /\ spinlock_release(obj[t])
    /\ pc' = [pc EXCEPT ![t] = "run"]
    /\ obj' = [obj EXCEPT ![t] = NoObj]
    /\ UNCHANGED <<wchan, lock_held, thread_holder, mon, owns>>

V_body(t) ==
    /\ pc[t] = "v_body"
    /\ sem_count' = [sem_count EXCEPT ![obj[t]] = @ + 1]
    /\ wchan_wakeone(t, obj[t], "run", "p_spin")
    /\ spinlock_release(obj[t])
    /\ obj' = [obj EXCEPT ![t] = NoObj]
    /\ UNCHANGED <<lock_held, thread_holder, mon, owns>>

-----------------------------------------------------------------------------
(* A thread inside a kernel operation, and a thread calling one.           *)

Step(t) == \/ Spin(t)
           \/ lock_acquire_body(t)
           \/ lock_release_body(t)
           \/ cv_wait_sleep(t)
           \/ cv_wait_relock(t)
           \/ cv_signal_body(t)
           \/ cv_broadcast_body(t)
           \/ P_body(t)
           \/ V_body(t)

Call(t) == \/ \E l \in Locks : lock_acquire(t, l) \/ lock_release(t, l)
           \/ \E c \in CVs, l \in Locks : \/ cv_wait(t, c, l)
                                          \/ cv_signal(t, c, l)
                                          \/ cv_broadcast(t, c, l)
           \/ \E s \in Sems : P(t, s) \/ V(t, s)

Next == \E t \in Threads : Step(t) \/ Call(t)

Spec == Init /\ [][Next]_vars

(* Interrupts are off while a spinlock is held, and a ready thread is on a *)
(* round-robin run queue: a thread inside an operation that can go on does *)
(* go on.  Nothing is assumed of what the threads call.                    *)
Fairness == \A t \in Threads : WF_vars(Step(t))

FairSpec == Spec /\ Fairness

-----------------------------------------------------------------------------
(* Type correctness of the objects' fields and of the threads' positions.  *)
TypeOK ==
    /\ spin \in [Objects -> Threads \cup {NoThread}]
    /\ wchan \in [Objects -> Seq(Threads)]
    /\ lock_held \in [Locks -> BOOLEAN]
    /\ thread_holder \in [Locks -> Threads \cup {NoThread}]
    /\ sem_count \in [Sems -> Nat]
    /\ pc \in [Threads -> Labels]
    /\ obj \in [Threads -> CVs \cup Sems \cup {NoObj}]
    /\ mon \in [Threads -> Locks \cup {NoObj}]
    /\ owns \in [Threads -> SUBSET Locks]

(* Two threads are never both past lock_acquire on the same lock, cv_wait  *)
(* giving the lock up and taking it again included.                        *)
MutualExclusion ==
    \A t, u \in Threads : t # u => owns[t] \cap owns[u] = {}

(* The spinlocks a thread has, curcpu->c_spinlocks while it runs.          *)
SpinlocksOf(t) == {o \in Objects : spin[o] = t}

(* The KASSERTs inside the operations hold for every legal sequence of     *)
(* calls: cv_wait still holds the lock when it calls lock_release, a       *)
(* thread never takes a spinlock it has, and a thread that calls           *)
(* wchan_sleep has the spinlock of the channel and no other one (it called *)
(* lock_release under the spinlock of the cv).                             *)
AssertsHold == \A t \in Threads :
    /\ pc[t] \in {"cw_spin", "lr_spin", "lr_body"} =>
          lock_held[mon[t]] /\ lock_do_i_hold(t, mon[t])
    /\ pc[t] \in {"la_spin", "lr_spin"} => spin[mon[t]] # t
    /\ pc[t] \in SpinLabels \ {"la_spin", "lr_spin"} => spin[obj[t]] # t
    /\ pc[t] \in {"cw_sleep", "p_body"} => SpinlocksOf(t) = {obj[t]}
    /\ pc[t] = "la_body" => SpinlocksOf(t) = {mon[t]}

(* The threads that will look at lock l again without being woken.         *)
Contending(l) == {t \in Threads : mon[t] = l /\ pc[t] \in {"la_spin", "la_body"}}

(* lock_release never loses a wakeup: a free lock with sleepers has a      *)
(* thread on its way to take it, although lock_release wakes only one      *)
(* thread and an arriving thread may overtake the one it woke.             *)
LockWakeup == \A l \in Locks :
    ~lock_held[l] /\ wchan[l] # <<>> => Contending(l) # {}

Testing(s) == {t \in Threads : obj[t] = s /\ pc[t] \in {"p_spin", "p_body"}}

(* V never loses a wakeup: while threads sleep in P there are as many      *)
(* threads on their way to the test of sem_count as there are units to     *)
(* take, so no sleeper is left behind with a unit nobody is coming for.    *)
SemWakeup == \A s \in Sems :
    wchan[s] # <<>> => sem_count[s] <= Cardinality(Testing(s))

(* A free lock that threads sleep on gets an owner.                        *)
LockProgress == \A l \in Locks :
    (~lock_held[l] /\ wchan[l] # <<>>) ~> lock_held[l]

(* Units of a semaphore and sleepers in P do not stay together for ever.   *)
SemProgress == \A s \in Sems :
    (sem_count[s] > 0 /\ wchan[s] # <<>>) ~> (sem_count[s] = 0 \/ wchan[s] = <<>>)
=============================================================================
