-------------------------- MODULE SynchRefinement --------------------------
(***************************************************************************)
(* synch.c implements the monitor of synch.h.  A thread counts as waiting  *)
(* on a cv from the moment lock_release gives the lock away inside         *)
(* cv_wait, although it reaches the wait channel one step later.           *)
(***************************************************************************)
EXTENDS Synch

(* The threads that gave the lock up in cv_wait and are not yet asleep.    *)
FallingAsleep(c) == {t \in Threads : obj[t] = c /\ pc[t] = "cw_sleep"}

MemberOf(S) == CHOOSE t \in S : TRUE

waiting == [c \in CVs |->
              IF FallingAsleep(c) = {} THEN wchan[c]
              ELSE Append(wchan[c], MemberOf(FallingAsleep(c)))]

M == INSTANCE Monitor WITH owner <- thread_holder, count <- sem_count

(* The code under every interleaving behaves as the monitor with atomic    *)
(* operations: cv_wait gives the lock up and enters the queue in one step, *)
(* threads leave the queue only by a signal or a broadcast, sent by the    *)
(* holder of a lock, and locks pass from thread to thread only through     *)
(* NoThread.                                                               *)
ImplementsMonitor == M!Spec

(* No signal falls between lock_release and wchan_sleep of a cv_wait: a    *)
(* cv_signal reaches the first thread that gave its lock up for the cv,    *)
(* asleep already or not, and a cv_broadcast reaches all of them.          *)
SignalsReachWaiters ==
    [][\A t \in Threads :
         /\ cv_signal_body(t) /\ waiting[obj[t]] # <<>> =>
               waiting' = [waiting EXCEPT ![obj[t]] = Tail(@)]
         /\ cv_broadcast_body(t) =>
               waiting' = [waiting EXCEPT ![obj[t]] = <<>>]]_vars
=============================================================================
