---------------------------- MODULE SynchProofs ----------------------------
(***************************************************************************)
(* Theorems about Synch for any number of threads, locks, condition        *)
(* variables and semaphores.  The argument is an inductive invariant, IInv,*)
(* made of: the arguments of the call in progress (ArgInv), which          *)
(* spinlocks a thread has at each label (SpinInv), that a wait channel     *)
(* lists exactly once threads asleep on it (SleepInv), and that whoever is *)
(* told it has a lock is recorded in it (HolderInv).                       *)
(***************************************************************************)
EXTENDS SynchRefinement, FiniteSetTheorems, TLAPS

CvLabels == {"cw_spin", "cw_sleep", "cw_asleep", "cw_wake", "cw_unlock",
             "cs_spin", "cs_body", "cb_spin", "cb_body"}
SemLabels == {"p_spin", "p_body", "p_asleep", "v_spin", "v_body"}

ArgInv == \A t \in Threads :
    /\ pc[t] = "run" => obj[t] = NoObj /\ mon[t] = NoObj
    /\ pc[t] \in {"la_spin", "la_body", "la_asleep"} =>
          obj[t] = NoObj /\ mon[t] \in Locks
    /\ pc[t] \in {"lr_spin", "lr_body"} =>
          obj[t] \in CVs \cup {NoObj} /\ mon[t] \in Locks
    /\ pc[t] \in CvLabels => obj[t] \in CVs /\ mon[t] \in Locks
    /\ pc[t] \in SemLabels => obj[t] \in Sems /\ mon[t] = NoObj

(* The labels at which a thread has the spinlock of its cv or semaphore.   *)
ObjSpinLabels == {"cw_sleep", "cw_unlock", "cs_body", "cb_body", "p_body",
                  "v_body", "lr_spin", "lr_body"}

SpinInv == \A t \in Threads, o \in Objects :
    spin[o] = t <=> \/ mon[t] = o /\ pc[t] \in {"la_body", "lr_body"}
                    \/ obj[t] = o /\ pc[t] \in ObjSpinLabels

AsleepOn(t, o) ==
    /\ o \in Locks => pc[t] = "la_asleep" /\ mon[t] = o
    /\ o \in CVs   => pc[t] = "cw_asleep" /\ obj[t] = o
    /\ o \in Sems  => pc[t] = "p_asleep" /\ obj[t] = o

SleepInv == \A o \in Objects :
    /\ \A i \in 1 .. Len(wchan[o]) : AsleepOn(wchan[o][i], o)
    /\ \A i, j \in 1 .. Len(wchan[o]) : wchan[o][i] = wchan[o][j] => i = j

HolderInv ==
    /\ \A l \in Locks : lock_held[l] <=> thread_holder[l] # NoThread
    /\ \A t \in Threads :
          /\ \A l \in owns[t] : thread_holder[l] = t
          /\ pc[t] \in {"cw_spin", "lr_spin", "lr_body"} =>
                mon[t] \notin owns[t] /\ thread_holder[mon[t]] = t
          /\ pc[t] \in {"cs_spin", "cs_body", "cb_spin", "cb_body"} =>
                thread_holder[mon[t]] = t

IInv == TypeOK /\ ArgInv /\ SpinInv /\ SleepInv /\ HolderInv

-----------------------------------------------------------------------------
(* The effect of a wakeup by t on channel o: other threads stay where they *)
(* are or, if asleep on o, go on at woken; what is left of the channel is  *)
(* its tail, still asleep.                                                 *)
WakeEffect(t, o, woken) ==
    /\ \A u \in Threads : u # t =>
          pc'[u] = pc[u] \/ (AsleepOn(u, o) /\ pc'[u] = woken)
    /\ \A p \in Objects : p # o => wchan'[p] = wchan[p]
    /\ \A i \in 1 .. Len(wchan'[o]) :
          /\ i + 1 \in 1 .. Len(wchan[o])
          /\ wchan'[o][i] = wchan[o][i + 1]
          /\ pc'[wchan'[o][i]] = pc[wchan'[o][i]]

(* Only t changes the arguments of its call.                               *)
ArgsKept(t) == \A u \in Threads : u # t => obj'[u] = obj[u] /\ mon'[u] = mon[u]

(* What wchan_wakeone does to the channel and to the threads, for a caller *)
(* t that is not asleep: the head of the channel, if any, is moved on.     *)
LEMMA WakeoneFacts ==
    ASSUME TypeOK, SleepInv, NEW t \in Threads, NEW o \in Objects,
           NEW next \in Labels, NEW woken \in Labels, pc[t] \notin AsleepLabels,
           wchan_wakeone(t, o, next, woken)
    PROVE  /\ pc' \in [Threads -> Labels]
           /\ wchan' \in [Objects -> Seq(Threads)]
           /\ pc'[t] = next
           /\ WakeEffect(t, o, woken)
<1>1. CASE wchan[o] = <<>>
  <2>1. /\ pc' = [pc EXCEPT ![t] = next] /\ wchan' = wchan
        /\ wchan[o] = <<>> /\ Len(wchan[o]) = 0
    BY <1>1 DEF wchan_wakeone
  <2>2. /\ pc' \in [Threads -> Labels] /\ pc'[t] = next
        /\ wchan' \in [Objects -> Seq(Threads)]
    BY <2>1 DEF TypeOK
  <2>3. \A u \in Threads : u # t => pc'[u] = pc[u]
    BY <2>1 DEF TypeOK
  <2>4. 1 .. Len(wchan'[o]) = {}
    BY <2>1
  <2> QED  BY <2>1, <2>2, <2>3, <2>4 DEF WakeEffect
<1>2. CASE wchan[o] # <<>>
  <2> DEFINE h == Head(wchan[o])
  <2>1. /\ wchan[o] \in Seq(Threads) /\ Len(wchan[o]) \in Nat \ {0}
        /\ h = wchan[o][1] /\ h \in Threads
        /\ Tail(wchan[o]) \in Seq(Threads)
        /\ Len(Tail(wchan[o])) = Len(wchan[o]) - 1
        /\ \A i \in 1 .. Len(Tail(wchan[o])) : Tail(wchan[o])[i] = wchan[o][i + 1]
    BY <1>2 DEF TypeOK
  <2>2. AsleepOn(h, o) /\ h # t
    <3>1. AsleepOn(h, o)
      BY <2>1 DEF SleepInv
    <3>2. pc[h] \in AsleepLabels
      BY <3>1 DEF AsleepOn, AsleepLabels, Objects
    <3> QED  BY <3>1, <3>2
  <2>4. /\ wchan' = [wchan EXCEPT ![o] = Tail(@)]
        /\ pc' = [pc EXCEPT ![t] = next, ![h] = woken]
    BY <1>2 DEF wchan_wakeone
  <2>5. /\ pc' \in [Threads -> Labels] /\ pc'[t] = next
        /\ pc'[h] = woken
        /\ \A u \in Threads : u # t /\ u # h => pc'[u] = pc[u]
    BY <2>1, <2>2, <2>4 DEF TypeOK
  <2>6. /\ wchan' \in [Objects -> Seq(Threads)]
        /\ wchan'[o] = Tail(wchan[o])
        /\ \A p \in Objects : p # o => wchan'[p] = wchan[p]
    BY <2>1, <2>4 DEF TypeOK
  <2>7. ASSUME NEW i \in 1 .. Len(wchan'[o])
        PROVE  /\ i + 1 \in 1 .. Len(wchan[o])
               /\ wchan'[o][i] = wchan[o][i + 1]
               /\ pc'[wchan'[o][i]] = pc[wchan'[o][i]]
    <3>1. /\ i + 1 \in 1 .. Len(wchan[o])
          /\ wchan'[o][i] = wchan[o][i + 1]
      BY <2>1, <2>6
    <3>2. wchan[o][i + 1] # h /\ wchan[o][i + 1] \in Threads
      BY <2>1, <3>1 DEF SleepInv
    <3>3. pc[wchan[o][i + 1]] \in AsleepLabels
      BY <3>1 DEF SleepInv, AsleepOn, AsleepLabels, Objects
    <3> QED  BY <3>1, <3>2, <3>3, <2>5
  <2> HIDE DEF h
  <2>8. \A u \in Threads : u # t =>
          pc'[u] = pc[u] \/ (AsleepOn(u, o) /\ pc'[u] = woken)
    BY <2>2, <2>5
  <2> QED  BY <2>5, <2>6, <2>7, <2>8 DEF WakeEffect
<1> QED  BY <1>1, <1>2

(* The same for wchan_wakeall: every thread on the channel is moved on.    *)
LEMMA WakeallFacts ==
    ASSUME TypeOK, SleepInv, NEW t \in Threads, NEW o \in Objects,
           NEW next \in Labels, NEW woken \in Labels,
           wchan_wakeall(t, o, next, woken)
    PROVE  /\ pc' \in [Threads -> Labels]
           /\ wchan' \in [Objects -> Seq(Threads)]
           /\ pc'[t] = next
           /\ WakeEffect(t, o, woken)
<1>1. /\ pc' \in [Threads -> Labels]
      /\ wchan' \in [Objects -> Seq(Threads)]
      /\ pc'[t] = next
      /\ \A p \in Objects : p # o => wchan'[p] = wchan[p]
      /\ wchan'[o] = <<>>
  BY DEF wchan_wakeall, TypeOK
<1>2. ASSUME NEW u \in Threads, u # t
      PROVE  pc'[u] = pc[u] \/ (AsleepOn(u, o) /\ pc'[u] = woken)
  <2>1. CASE u \in Sleepers(o)
    <3>1. AsleepOn(u, o)
      BY <2>1 DEF Sleepers, SleepInv, TypeOK
    <3> QED  BY <1>2, <2>1, <3>1 DEF wchan_wakeall
  <2>2. CASE u \notin Sleepers(o)
    BY <1>2, <2>2 DEF wchan_wakeall
  <2> QED  BY <2>1, <2>2
<1>3. 1 .. Len(wchan'[o]) = {}
  BY <1>1
<1> QED  BY <1>1, <1>2, <1>3 DEF WakeEffect

(* A channel that loses threads at its head, all others keeping their      *)
(* place, still lists sleeping threads only.                               *)
LEMMA WakeSleepInv ==
    ASSUME TypeOK, SleepInv, NEW t \in Threads, pc[t] \notin AsleepLabels,
           NEW o \in Objects, NEW woken, WakeEffect(t, o, woken), ArgsKept(t)
    PROVE  SleepInv'
<1> USE SynchAssumption DEF WakeEffect, ArgsKept
<1>1. \A p \in Objects : \A i \in 1 .. Len(wchan[p]) :
         wchan[p][i] \in Threads \ {t}
  BY DEF TypeOK, SleepInv, AsleepOn, AsleepLabels, Objects
<1>2. ASSUME NEW p \in Objects, NEW i \in 1 .. Len(wchan'[p])
      PROVE  AsleepOn(wchan[p][i], p)'
  <2>1. CASE p = o
    <3>1. PICK u \in Threads \ {t} : u = wchan[o][i + 1] /\ u = wchan'[o][i] /\ pc'[u] = pc[u]
      BY <2>1, <1>1
    <3>2. AsleepOn(u, o)
      BY <2>1, <3>1 DEF SleepInv
    <3> QED  BY <2>1, <3>1, <3>2 DEF AsleepOn
  <2>2. CASE p # o
    <3>1. PICK u \in Threads \ {t} : u = wchan[p][i] /\ u = wchan'[p][i]
      BY <2>2, <1>1
    <3>2. AsleepOn(u, p)
      BY <2>2, <3>1 DEF SleepInv
    <3>3. ~AsleepOn(u, o)
      BY <2>2, <3>2 DEF AsleepOn, Objects
    <3> QED  BY <3>1, <3>2, <3>3 DEF AsleepOn
  <2> QED  BY <2>1, <2>2
<1>3. ASSUME NEW p \in Objects, NEW i \in 1 .. Len(wchan'[p]),
             NEW j \in 1 .. Len(wchan'[p]), wchan'[p][i] = wchan'[p][j]
      PROVE  i = j
  <2>1. CASE p = o
    <3>1. /\ i + 1 \in 1 .. Len(wchan[o]) /\ j + 1 \in 1 .. Len(wchan[o])
          /\ wchan[o][i + 1] = wchan[o][j + 1]
      BY <1>3, <2>1
    <3>2. i + 1 = j + 1
      BY <3>1 DEF SleepInv
    <3>3. i \in Int /\ j \in Int
      BY <1>3
    <3> QED  BY <3>2, <3>3
  <2>2. CASE p # o
    BY <2>2, <1>3 DEF SleepInv
  <2> QED  BY <2>1, <2>2
<1> QED  BY <1>2, <1>3 DEF SleepInv

(* A step of a thread that is awake and touches no channel.                *)
LEMMA AwakeSleepInv ==
    ASSUME TypeOK, SleepInv, NEW t \in Threads, pc[t] \notin AsleepLabels,
           wchan' = wchan,
           \A u \in Threads : u # t =>
              pc'[u] = pc[u] /\ obj'[u] = obj[u] /\ mon'[u] = mon[u]
    PROVE  SleepInv'
<1>1. \A p \in Objects : \A i \in 1 .. Len(wchan[p]) :
         wchan[p][i] \in Threads \ {t}
  BY DEF TypeOK, SleepInv, AsleepOn, AsleepLabels, Objects
<1> QED  BY <1>1 DEF SleepInv, AsleepOn

-----------------------------------------------------------------------------
(* No call is in progress, no spinlock is taken and nobody sleeps.         *)
LEMMA InitInv == Init => IInv
<1> SUFFICES ASSUME Init PROVE IInv
  OBVIOUS
<1> USE SynchAssumption DEF Init, spinlock_init, wchan_create, lock_create, sem_create
<1>1. TypeOK
  BY DEF TypeOK, Labels
<1>2. ArgInv
  BY DEF ArgInv, CvLabels, SemLabels
<1>3. SpinInv
  BY DEF SpinInv, ObjSpinLabels
<1>4. SleepInv
  BY DEF SleepInv
<1>5. HolderInv
  BY DEF HolderInv
<1> QED  BY <1>1, <1>2, <1>3, <1>4, <1>5 DEF IInv

(* A thread taking a spinlock.                                             *)
LEMMA SpinStepInv ==
    ASSUME IInv, NEW t \in Threads, Spin(t)
    PROVE  IInv'
<1> USE SynchAssumption
<1>1. TypeOK'
  <2>1. spin' \in [Objects -> Threads \cup {NoThread}] /\ pc' \in [Threads -> Labels]
    BY ZenonT(40) DEF IInv, TypeOK, Spin, spinlock_acquire, Labels, SpinLabels, BodyLabels
  <2> QED  BY <2>1 DEF IInv, TypeOK, Spin, spinlock_acquire
<1>2. ArgInv'
  BY DEF IInv, TypeOK, Spin, spinlock_acquire, ArgInv, CvLabels, SemLabels
<1>3. SpinInv'
  BY DEF IInv, TypeOK, Spin, spinlock_acquire, ArgInv, CvLabels, SemLabels, SpinInv, ObjSpinLabels, Objects
<1>4. SleepInv'
  BY DEF IInv, TypeOK, Spin, spinlock_acquire, SleepInv, AsleepOn, Objects
<1>5. HolderInv'
  BY DEF IInv, TypeOK, Spin, spinlock_acquire, HolderInv
<1> QED  BY <1>1, <1>2, <1>3, <1>4, <1>5 DEF IInv

(* A thread calling an operation: only its own position changes.           *)
LEMMA CallStepInv ==
    ASSUME IInv, NEW t \in Threads, Call(t)
    PROVE  IInv'
<1> USE SynchAssumption
<1>a. UNCHANGED <<spin, wchan, lock_held, thread_holder, sem_count>>
  BY DEF Call, lock_acquire, lock_release, CallCv, cv_wait, cv_signal,
         cv_broadcast, CallSem, P, V
<1>b. /\ pc[t] = "run"
      /\ \A u \in Threads : u # t => /\ pc'[u] = pc[u] /\ obj'[u] = obj[u]
                                     /\ mon'[u] = mon[u] /\ owns'[u] = owns[u]
  BY DEF IInv, TypeOK, Call, lock_acquire, lock_release, CallCv, cv_wait,
         cv_signal, cv_broadcast, CallSem, P, V
<1>1. TypeOK'
  <2>1. pc' \in [Threads -> Labels]
    BY DEF IInv, TypeOK, Call, lock_acquire, lock_release, CallCv, cv_wait,
           cv_signal, cv_broadcast, CallSem, P, V, Labels, SpinLabels
  <2>2. obj' \in [Threads -> CVs \cup Sems \cup {NoObj}]
    BY DEF IInv, TypeOK, Call, lock_acquire, lock_release, CallCv, cv_wait,
           cv_signal, cv_broadcast, CallSem, P, V
  <2>3. mon' \in [Threads -> Locks \cup {NoObj}]
    BY DEF IInv, TypeOK, Call, lock_acquire, lock_release, CallCv, cv_wait,
           cv_signal, cv_broadcast, CallSem, P, V
  <2>4. owns' \in [Threads -> SUBSET Locks]
    BY DEF IInv, TypeOK, Call, lock_acquire, lock_release, CallCv, cv_wait,
           cv_signal, cv_broadcast, CallSem, P, V
  <2> QED  BY <1>a, <2>1, <2>2, <2>3, <2>4 DEF IInv, TypeOK
<1>2. ArgInv'
  BY DEF IInv, TypeOK, Call, lock_acquire, lock_release, CallCv, cv_wait,
         cv_signal, cv_broadcast, CallSem, P, V, ArgInv, CvLabels, SemLabels
<1>3. SpinInv'
  <2>1. obj[t] = NoObj /\ mon[t] = NoObj /\ \A o \in Objects : spin[o] # t
    BY <1>b DEF IInv, ArgInv, SpinInv, ObjSpinLabels
  <2>2. \/ pc'[t] \notin ObjSpinLabels \cup {"la_body"}
        \/ pc'[t] = "lr_spin" /\ obj'[t] = NoObj
    BY <2>1 DEF IInv, TypeOK, Call, lock_acquire, lock_release, CallCv,
           cv_wait, cv_signal, cv_broadcast, CallSem, P, V, ObjSpinLabels
  <2> QED  BY <1>a, <1>b, <2>1, <2>2 DEF IInv, SpinInv, ObjSpinLabels
<1>4. SleepInv'
  BY <1>a, <1>b, AwakeSleepInv DEF IInv, AsleepLabels
<1>5. HolderInv'
  BY <1>a, <1>b DEF IInv, TypeOK, Call, lock_acquire, lock_release, CallCv, cv_wait,
         cv_signal, cv_broadcast, CallSem, P, V, HolderInv, lock_do_i_hold
<1> QED  BY <1>1, <1>2, <1>3, <1>4, <1>5 DEF IInv

(* A thread in the loop of lock_acquire or P, or in cv_wait, that goes to  *)
(* sleep on channel o at label.                                            *)
LEMMA SleepFacts ==
    ASSUME TypeOK, SleepInv, NEW t \in Threads, NEW o \in Objects,
           NEW label \in Labels, pc[t] \notin AsleepLabels,
           wchan_sleep(t, o, label)
    PROVE  /\ pc' \in [Threads -> Labels] /\ pc'[t] = label
           /\ wchan' \in [Objects -> Seq(Threads)]
           /\ spin' \in [Objects -> Threads \cup {NoThread}]
           /\ spin'[o] = NoThread
           /\ \A p \in Objects : p # o => spin'[p] = spin[p] /\ wchan'[p] = wchan[p]
           /\ \A u \in Threads : u # t => pc'[u] = pc[u]
           /\ wchan'[o] = Append(wchan[o], t)
           /\ (obj' = obj /\ mon' = mon /\ AsleepOn(t, o)') => SleepInv'
<1>1. /\ pc' \in [Threads -> Labels] /\ pc'[t] = label
      /\ wchan' \in [Objects -> Seq(Threads)]
      /\ spin' \in [Objects -> Threads \cup {NoThread}]
      /\ spin'[o] = NoThread
      /\ \A p \in Objects : p # o => spin'[p] = spin[p] /\ wchan'[p] = wchan[p]
      /\ \A u \in Threads : u # t => pc'[u] = pc[u]
      /\ wchan'[o] = Append(wchan[o], t)
  BY DEF wchan_sleep, spinlock_release, TypeOK
<1>2. ASSUME obj' = obj, mon' = mon, AsleepOn(t, o)'
      PROVE  SleepInv'
  <2>1. \A p \in Objects : \A i \in 1 .. Len(wchan[p]) :
           wchan[p][i] \in Threads \ {t}
    BY DEF TypeOK, SleepInv, AsleepOn, AsleepLabels, Objects
  <2>2. ASSUME NEW p \in Objects, NEW i \in 1 .. Len(wchan[p]),
               NEW u \in Threads, u = wchan[p][i]
        PROVE  AsleepOn(u, p)'
    <3>1. AsleepOn(u, p) /\ u # t
      BY <2>1, <2>2 DEF SleepInv
    <3> QED  BY <1>1, <1>2, <3>1 DEF AsleepOn
  <2>3. /\ Len(wchan[o]) \in Nat
        /\ Len(wchan'[o]) = Len(wchan[o]) + 1
        /\ \A i \in 1 .. Len(wchan[o]) : wchan'[o][i] = wchan[o][i]
        /\ wchan'[o][Len(wchan[o]) + 1] = t
    BY <1>1 DEF TypeOK
  <2>4. ASSUME NEW p \in Objects, NEW i \in 1 .. Len(wchan'[p])
        PROVE  AsleepOn(wchan[p][i], p)'
    <3>1. CASE p = o /\ i = Len(wchan[o]) + 1
      <4>1. wchan'[p][i] = t
        BY <3>1, <2>3
      <4> QED  BY <1>2, <3>1, <4>1 DEF AsleepOn
    <3>2. CASE ~(p = o /\ i = Len(wchan[o]) + 1)
      <4>1. i \in 1 .. Len(wchan[p]) /\ wchan'[p][i] = wchan[p][i]
        BY <3>2, <2>3, <1>1, SMTT(30)
      <4>2. PICK u \in Threads : u = wchan[p][i]
        BY <4>1, <2>1
      <4>3. AsleepOn(u, p)'
        BY <4>1, <4>2, <2>2
      <4> QED  BY <4>1, <4>2, <4>3 DEF AsleepOn
    <3> QED  BY <3>1, <3>2
  <2>5. ASSUME NEW p \in Objects, NEW i \in 1 .. Len(wchan'[p]),
               NEW j \in 1 .. Len(wchan'[p]), wchan'[p][i] = wchan'[p][j]
        PROVE  i = j
    <3>1. CASE p = o
      BY <3>1, <2>5, <2>1, <2>3, SMTT(30) DEF SleepInv
    <3>2. CASE p # o
      BY <3>2, <2>5, <1>1 DEF SleepInv
    <3> QED  BY <3>1, <3>2
  <2> QED  BY <2>4, <2>5 DEF SleepInv
<1> QED  BY <1>1, <1>2

(* Going to sleep, from any of the three operations that do.               *)
LEMMA SleepStepInv ==
    ASSUME IInv, NEW t \in Threads, NEW o, NEW label,
           \/ pc[t] = "la_body" /\ label = "la_asleep" /\ o = mon[t]
           \/ pc[t] = "cw_sleep" /\ label = "cw_asleep" /\ o = obj[t]
           \/ pc[t] = "p_body" /\ label = "p_asleep" /\ o = obj[t],
           wchan_sleep(t, o, label),
           UNCHANGED <<lock_held, thread_holder, sem_count, obj, mon, owns>>
    PROVE  IInv'
<1> USE SynchAssumption
<1>1. /\ o \in Objects /\ label \in Labels /\ pc[t] \notin AsleepLabels
      /\ spin[o] = t
  BY DEF IInv, ArgInv, SpinInv, ObjSpinLabels, CvLabels, SemLabels, Objects,
         Labels, AsleepLabels
<1>2. /\ pc' \in [Threads -> Labels] /\ pc'[t] = label
      /\ wchan' \in [Objects -> Seq(Threads)]
      /\ spin' \in [Objects -> Threads \cup {NoThread}]
      /\ spin'[o] = NoThread
      /\ \A p \in Objects : p # o => spin'[p] = spin[p]
      /\ \A u \in Threads : u # t => pc'[u] = pc[u]
      /\ (obj' = obj /\ mon' = mon /\ AsleepOn(t, o)') => SleepInv'
  BY <1>1, SleepFacts DEF IInv
<1>3. TypeOK'
  BY <1>2 DEF IInv, TypeOK
<1>4. ArgInv'
  BY <1>2 DEF IInv, TypeOK, ArgInv, CvLabels, SemLabels
<1>5. SpinInv'
  BY <1>1, <1>2 DEF IInv, ArgInv, SpinInv, CvLabels, SemLabels, ObjSpinLabels, Objects
<1>6. SleepInv'
  <2>1. AsleepOn(t, o)'
    BY <1>1, <1>2 DEF IInv, ArgInv, CvLabels, SemLabels, AsleepOn
  <2> QED  BY <1>2, <2>1
<1>7. HolderInv'
  BY <1>2 DEF IInv, TypeOK, HolderInv
<1> QED  BY <1>3, <1>4, <1>5, <1>6, <1>7 DEF IInv

(* lock_acquire's loop preserves IInv: it sleeps, or takes the free lock.  *)
LEMMA LockAcquireStepInv ==
    ASSUME IInv, NEW t \in Threads, lock_acquire_body(t)
    PROVE  IInv'
<1> USE SynchAssumption
<1>0. PICK l \in Locks : l = mon[t]
  BY DEF IInv, ArgInv, lock_acquire_body
<1>s. pc[t] = "la_body" /\ spin[l] = t /\ obj[t] = NoObj /\ l \in Objects
  BY <1>0 DEF IInv, ArgInv, SpinInv, lock_acquire_body, Objects
<1>1. CASE lock_held[l]
  BY <1>0, <1>1, <1>s, SleepStepInv DEF lock_acquire_body
<1>2. CASE ~lock_held[l]
  <2>1. /\ lock_held' = [lock_held EXCEPT ![l] = TRUE]
        /\ thread_holder' = [thread_holder EXCEPT ![l] = t]
        /\ spin' = [spin EXCEPT ![l] = NoThread]
        /\ owns' = [owns EXCEPT ![t] = @ \cup {l}]
        /\ mon' = [mon EXCEPT ![t] = NoObj]
        /\ pc' = [pc EXCEPT ![t] = "run"]
        /\ UNCHANGED <<wchan, sem_count, obj>>
    BY <1>0, <1>2 DEF lock_acquire_body, spinlock_release
  <2>2. TypeOK'
    BY <2>1, <1>s DEF IInv, TypeOK, Labels
  <2>3. ArgInv'
    BY <2>1, <1>s DEF IInv, TypeOK, ArgInv, CvLabels, SemLabels
  <2>4. SpinInv'
    BY <2>1, <1>s, <1>0 DEF IInv, TypeOK, SpinInv, ObjSpinLabels, Objects
  <2>5. SleepInv'
    BY <2>1, <1>s, AwakeSleepInv DEF IInv, TypeOK, AsleepLabels
  <2>6. HolderInv'
    BY <2>1, <1>s, <1>2 DEF IInv, TypeOK, HolderInv
  <2> QED  BY <2>2, <2>3, <2>4, <2>5, <2>6 DEF IInv
<1> QED  BY <1>1, <1>2

(* P's loop preserves IInv: it sleeps, or takes a unit.                    *)
LEMMA PStepInv ==
    ASSUME IInv, NEW t \in Threads, P_body(t)
    PROVE  IInv'
<1> USE SynchAssumption
<1>0. PICK s \in Sems : s = obj[t]
  BY DEF IInv, ArgInv, P_body, SemLabels
<1>s. pc[t] = "p_body" /\ spin[s] = t /\ mon[t] = NoObj /\ s \in Objects
  BY <1>0 DEF IInv, ArgInv, SpinInv, P_body, SemLabels, ObjSpinLabels, Objects
<1>1. CASE sem_count[s] = 0
  BY <1>0, <1>1, <1>s, SleepStepInv DEF P_body
<1>2. CASE sem_count[s] > 0
  <2>1. /\ sem_count' = [sem_count EXCEPT ![s] = @ - 1]
        /\ spin' = [spin EXCEPT ![s] = NoThread]
        /\ obj' = [obj EXCEPT ![t] = NoObj]
        /\ pc' = [pc EXCEPT ![t] = "run"]
        /\ UNCHANGED <<wchan, lock_held, thread_holder, mon, owns>>
    BY <1>0, <1>2 DEF P_body, spinlock_release
  <2>2. TypeOK'
    <3>1. sem_count' \in [Sems -> Nat]
      BY <2>1, <1>2 DEF IInv, TypeOK
    <3> QED  BY <2>1, <3>1 DEF IInv, TypeOK, Labels
  <2>3. ArgInv'
    BY <2>1, <1>s DEF IInv, TypeOK, ArgInv, CvLabels, SemLabels
  <2>4. SpinInv'
    BY <2>1, <1>s, <1>0 DEF IInv, TypeOK, SpinInv, ObjSpinLabels, Objects
  <2>5. SleepInv'
    BY <2>1, <1>s, AwakeSleepInv DEF IInv, TypeOK, AsleepLabels
  <2>6. HolderInv'
    BY <2>1, <1>s DEF IInv, TypeOK, HolderInv
  <2> QED  BY <2>2, <2>3, <2>4, <2>5, <2>6 DEF IInv
<1> QED  BY <1>0, <1>1, <1>2 DEF IInv, TypeOK

(* The two steps of cv_wait around its sleep preserve IInv.               *)
LEMMA CvWaitStepInv ==
    ASSUME IInv, NEW t \in Threads, cv_wait_sleep(t) \/ cv_wait_relock(t)
    PROVE  IInv'
<1> USE SynchAssumption
<1>1. CASE cv_wait_sleep(t)
  BY <1>1, SleepStepInv DEF cv_wait_sleep
<1>2. CASE cv_wait_relock(t)
  <2>0. PICK c \in CVs : c = obj[t]
    BY <1>2 DEF IInv, ArgInv, cv_wait_relock, CvLabels
  <2>s. pc[t] = "cw_unlock" /\ spin[c] = t /\ mon[t] \in Locks /\ c \in Objects
    BY <1>2, <2>0 DEF IInv, ArgInv, SpinInv, cv_wait_relock, CvLabels, ObjSpinLabels, Objects
  <2>1. /\ spin' = [spin EXCEPT ![c] = NoThread]
        /\ pc' = [pc EXCEPT ![t] = "la_spin"]
        /\ obj' = [obj EXCEPT ![t] = NoObj]
        /\ UNCHANGED <<wchan, lock_held, thread_holder, sem_count, mon, owns>>
    BY <1>2, <2>0 DEF cv_wait_relock, spinlock_release
  <2>2. TypeOK'
    BY <2>1 DEF IInv, TypeOK, Labels, SpinLabels
  <2>3. ArgInv'
    BY <2>1, <2>s DEF IInv, TypeOK, ArgInv, CvLabels, SemLabels
  <2>4. SpinInv'
    BY <2>1, <2>s, <2>0 DEF IInv, TypeOK, SpinInv, ObjSpinLabels, Objects
  <2>5. SleepInv'
    BY <2>1, <2>s, AwakeSleepInv DEF IInv, TypeOK, AsleepLabels
  <2>6. HolderInv'
    BY <2>1, <2>s DEF IInv, TypeOK, HolderInv
  <2> QED  BY <2>2, <2>3, <2>4, <2>5, <2>6 DEF IInv
<1> QED  BY <1>1, <1>2

(* The three operations that wake threads under the spinlock of o and then *)
(* release it: what they have in common.                                   *)
LEMMA WakeStepInv ==
    ASSUME IInv, NEW t \in Threads, NEW o \in Objects, NEW next, NEW woken,
           \/ /\ o \in Locks /\ woken = "la_spin"
           \/ /\ o \in CVs /\ woken = "cw_wake"
           \/ /\ o \in Sems /\ woken = "p_spin",
           \/ /\ next = "run" /\ obj'[t] = NoObj /\ mon'[t] = NoObj
              /\ spin[o] = t /\ \A p \in Objects : spin[p] = t => p = o
           \/ /\ next = "cw_sleep" /\ obj'[t] = obj[t] /\ mon'[t] = mon[t]
              /\ o = mon[t] /\ pc[t] = "lr_body" /\ obj[t] \in CVs,
           pc[t] \in BodyLabels,
           wchan_wakeone(t, o, next, woken) \/ wchan_wakeall(t, o, next, woken),
           spinlock_release(o),
           ArgsKept(t)
    PROVE  /\ pc' \in [Threads -> Labels]
           /\ wchan' \in [Objects -> Seq(Threads)]
           /\ spin' \in [Objects -> Threads \cup {NoThread}]
           /\ pc'[t] = next
           /\ WakeEffect(t, o, woken)
           /\ ArgInv' /\ SpinInv' /\ SleepInv'
<1> USE SynchAssumption
<1>1. next \in Labels /\ woken \in Labels /\ pc[t] \notin AsleepLabels
  BY DEF Labels, BodyLabels, SpinLabels, AsleepLabels
<1>2. /\ pc' \in [Threads -> Labels]
      /\ wchan' \in [Objects -> Seq(Threads)]
      /\ pc'[t] = next
      /\ WakeEffect(t, o, woken)
  BY <1>1, WakeoneFacts, WakeallFacts DEF IInv
<1>a. \A u \in Threads : u # t =>
         /\ obj'[u] = obj[u] /\ mon'[u] = mon[u]
         /\ pc'[u] = pc[u] \/ (AsleepOn(u, o) /\ pc'[u] = woken)
  BY <1>2 DEF WakeEffect, ArgsKept
<1>3. /\ spin' \in [Objects -> Threads \cup {NoThread}]
      /\ spin'[o] = NoThread
      /\ \A p \in Objects : p # o => spin'[p] = spin[p]
  BY DEF spinlock_release, IInv, TypeOK
<1>4. ArgInv'
  <2> SUFFICES ASSUME NEW u \in Threads
               PROVE  /\ pc'[u] = "run" => obj'[u] = NoObj /\ mon'[u] = NoObj
                      /\ pc'[u] \in {"la_spin", "la_body", "la_asleep"} =>
                            obj'[u] = NoObj /\ mon'[u] \in Locks
                      /\ pc'[u] \in {"lr_spin", "lr_body"} =>
                            obj'[u] \in CVs \cup {NoObj} /\ mon'[u] \in Locks
                      /\ pc'[u] \in CvLabels => obj'[u] \in CVs /\ mon'[u] \in Locks
                      /\ pc'[u] \in SemLabels => obj'[u] \in Sems /\ mon'[u] = NoObj
    BY DEF ArgInv
  <2>1. CASE u = t
    BY <1>2, <2>1 DEF IInv, ArgInv, CvLabels, SemLabels
  <2>2. CASE u # t /\ pc'[u] = pc[u]
    BY <1>a, <2>2 DEF IInv, ArgInv
  <2>3. CASE u # t /\ AsleepOn(u, o) /\ pc'[u] = woken
    BY <1>a, <2>3 DEF IInv, ArgInv, AsleepOn, CvLabels, SemLabels
  <2> QED  BY <1>a, <2>1, <2>2, <2>3
<1>5. SpinInv'
  <2> SUFFICES ASSUME NEW u \in Threads, NEW p \in Objects
               PROVE  spin'[p] = u <=>
                         \/ mon'[u] = p /\ pc'[u] \in {"la_body", "lr_body"}
                         \/ obj'[u] = p /\ pc'[u] \in ObjSpinLabels
    BY DEF SpinInv
  <2>a. \A w \in Threads \ {t} : spin[o] # w
    BY DEF IInv, SpinInv, ObjSpinLabels
  <2>1. CASE u = t /\ next = "run"
    <3>1. pc'[u] = "run" /\ NoThread # t /\ \A q \in Objects : spin[q] = t => q = o
      BY <1>2, <2>1
    <3>2. spin'[p] # u
      BY <1>3, <2>1, <3>1
    <3> QED  BY <3>1, <3>2 DEF ObjSpinLabels
  <2>2. CASE u = t /\ next # "run"
    <3>1. /\ pc'[u] = "cw_sleep" /\ pc[u] = "lr_body" /\ o = mon[u]
          /\ obj[u] \in CVs /\ obj'[u] = obj[u] /\ NoThread # t /\ obj[u] # mon[u]
      BY <1>2, <2>2 DEF IInv, ArgInv
    <3>2. spin[p] = u <=> mon[u] = p \/ obj[u] = p
      BY <3>1 DEF IInv, SpinInv, ObjSpinLabels
    <3>3. spin'[p] = u <=> obj[u] = p
      BY <1>3, <2>2, <3>1, <3>2
    <3> QED  BY <3>1, <3>3 DEF ObjSpinLabels
  <2>3. CASE u # t /\ pc'[u] = pc[u]
    BY <1>3, <1>a, <2>3, <2>a DEF IInv, SpinInv
  <2>4. CASE u # t /\ AsleepOn(u, o) /\ pc'[u] = woken
    BY <1>3, <1>a, <2>4, <2>a DEF IInv, SpinInv, AsleepOn, ObjSpinLabels
  <2> QED  BY <1>a, <2>1, <2>2, <2>3, <2>4
<1>6. SleepInv'
  BY <1>1, <1>2, WakeSleepInv DEF IInv
<1> QED  BY <1>2, <1>3, <1>4, <1>5, <1>6

(* lock_release preserves IInv, called by itself or from cv_wait.          *)
LEMMA LockReleaseStepInv ==
    ASSUME IInv, NEW t \in Threads, lock_release_body(t)
    PROVE  IInv'
<1> USE SynchAssumption
<1>0. PICK l \in Locks : l = mon[t]
  BY DEF IInv, ArgInv, lock_release_body
<1>s. pc[t] = "lr_body" /\ spin[l] = t /\ obj[t] \in CVs \cup {NoObj} /\ l \in Objects
  BY <1>0 DEF IInv, ArgInv, SpinInv, lock_release_body, Objects
<1> DEFINE next == IF obj[t] = NoObj THEN "run" ELSE "cw_sleep"
<1>1. /\ lock_held' = [lock_held EXCEPT ![l] = FALSE]
      /\ thread_holder' = [thread_holder EXCEPT ![l] = NoThread]
      /\ wchan_wakeone(t, l, next, "la_spin")
      /\ spinlock_release(l)
      /\ mon' = IF obj[t] = NoObj THEN [mon EXCEPT ![t] = NoObj] ELSE mon
      /\ UNCHANGED <<sem_count, obj, owns>>
  BY <1>0 DEF lock_release_body
<1>2. /\ mon' \in [Threads -> Locks \cup {NoObj}]
      /\ mon'[t] = IF obj[t] = NoObj THEN NoObj ELSE mon[t]
      /\ ArgsKept(t)
  BY <1>1, <1>s DEF IInv, TypeOK, ArgsKept
<1>3. obj[t] = NoObj => \A p \in Objects : spin[p] = t => p = l
  BY <1>0, <1>s DEF IInv, SpinInv
<1>4. /\ \/ /\ next = "run" /\ obj'[t] = NoObj /\ mon'[t] = NoObj
            /\ spin[l] = t /\ \A p \in Objects : spin[p] = t => p = l
         \/ /\ next = "cw_sleep" /\ obj'[t] = obj[t] /\ mon'[t] = mon[t]
            /\ l = mon[t] /\ pc[t] = "lr_body" /\ obj[t] \in CVs
      /\ pc[t] \in BodyLabels
  BY <1>0, <1>s, <1>1, <1>2, <1>3 DEF BodyLabels
<1> HIDE DEF next
<1>5. /\ pc' \in [Threads -> Labels]
      /\ wchan' \in [Objects -> Seq(Threads)]
      /\ spin' \in [Objects -> Threads \cup {NoThread}]
      /\ pc'[t] = next
      /\ WakeEffect(t, l, "la_spin")
      /\ ArgInv' /\ SpinInv' /\ SleepInv'
  BY <1>s, <1>1, <1>2, <1>4, WakeStepInv
<1>6. TypeOK'
  BY <1>1, <1>2, <1>5 DEF IInv, TypeOK
<1>7. HolderInv'
  <2>1. \A u \in Threads : u # t => thread_holder[l] # u
    BY <1>0, <1>s DEF IInv, HolderInv
  <2>2. l \notin owns[t]
    BY <1>0, <1>s DEF IInv, HolderInv
  <2>3. \A u \in Threads : u # t /\ pc'[u] = pc[u] /\
          pc[u] \in {"cw_spin", "lr_spin", "lr_body", "cs_spin", "cs_body", "cb_spin", "cb_body"}
             => mon[u] \in Locks \ {l}
    BY <2>1 DEF IInv, ArgInv, HolderInv, CvLabels
  <2>4. \A k \in Locks : lock_held'[k] <=> thread_holder'[k] # NoThread
    BY <1>1 DEF IInv, TypeOK, HolderInv
  <2>5. \A u \in Threads : \A k \in owns'[u] : thread_holder'[k] = u
    BY <1>1, <2>1, <2>2 DEF IInv, TypeOK, HolderInv
  <2>6. ASSUME NEW u \in Threads,
               pc'[u] \in {"cw_spin", "lr_spin", "lr_body", "cs_spin", "cs_body", "cb_spin", "cb_body"}
        PROVE  u # t /\ pc'[u] = pc[u] /\ mon'[u] = mon[u] /\ thread_holder'[mon'[u]] = thread_holder[mon[u]]
    <3>1. u # t
      BY <1>5, <2>6, <1>4
    <3>2. pc'[u] = pc[u] /\ mon'[u] = mon[u]
      BY <1>2, <1>5, <2>6, <3>1 DEF WakeEffect, ArgsKept
    <3> QED  BY <1>1, <2>3, <2>6, <3>1, <3>2 DEF IInv, TypeOK
  <2> QED  BY <1>1, <2>4, <2>5, <2>6 DEF IInv, HolderInv
<1> QED  BY <1>5, <1>6, <1>7 DEF IInv

(* cv_signal and cv_broadcast preserve IInv.                               *)
LEMMA CvWakeStepInv ==
    ASSUME IInv, NEW t \in Threads, cv_signal_body(t) \/ cv_broadcast_body(t)
    PROVE  IInv'
<1> USE SynchAssumption
<1>0. PICK c \in CVs : c = obj[t]
  BY DEF IInv, ArgInv, cv_signal_body, cv_broadcast_body, CvLabels
<1>s. /\ pc[t] \in {"cs_body", "cb_body"} /\ pc[t] \in BodyLabels /\ c \in Objects
      /\ spin[c] = t /\ \A p \in Objects : spin[p] = t => p = c
  BY <1>0 DEF IInv, ArgInv, SpinInv, cv_signal_body, cv_broadcast_body, Objects,
              BodyLabels, ObjSpinLabels
<1>1. /\ wchan_wakeone(t, c, "run", "cw_wake") \/ wchan_wakeall(t, c, "run", "cw_wake")
      /\ spinlock_release(c)
      /\ obj' = [obj EXCEPT ![t] = NoObj]
      /\ mon' = [mon EXCEPT ![t] = NoObj]
      /\ UNCHANGED <<lock_held, thread_holder, sem_count, owns>>
  BY <1>0 DEF cv_signal_body, cv_broadcast_body, CvReturn
<1>2. /\ obj'[t] = NoObj /\ mon'[t] = NoObj
      /\ ArgsKept(t)
  BY <1>1 DEF IInv, TypeOK, ArgsKept
<1>5. /\ pc' \in [Threads -> Labels]
      /\ wchan' \in [Objects -> Seq(Threads)]
      /\ spin' \in [Objects -> Threads \cup {NoThread}]
      /\ pc'[t] = "run"
      /\ WakeEffect(t, c, "cw_wake")
      /\ ArgInv' /\ SpinInv' /\ SleepInv'
  BY <1>s, <1>1, <1>2, WakeStepInv
<1>6. TypeOK'
  BY <1>1, <1>5 DEF IInv, TypeOK
<1>7. HolderInv'
  BY <1>1, <1>2, <1>5 DEF IInv, HolderInv, WakeEffect, ArgsKept
<1> QED  BY <1>5, <1>6, <1>7 DEF IInv

(* V preserves IInv.                                                       *)
LEMMA VStepInv ==
    ASSUME IInv, NEW t \in Threads, V_body(t)
    PROVE  IInv'
<1> USE SynchAssumption
<1>0. PICK s \in Sems : s = obj[t]
  BY DEF IInv, ArgInv, V_body, SemLabels
<1>s. /\ pc[t] = "v_body" /\ pc[t] \in BodyLabels /\ s \in Objects /\ mon[t] = NoObj
      /\ spin[s] = t /\ \A p \in Objects : spin[p] = t => p = s
  BY <1>0 DEF IInv, ArgInv, SpinInv, V_body, Objects, BodyLabels, ObjSpinLabels, SemLabels
<1>1. /\ wchan_wakeone(t, s, "run", "p_spin")
      /\ sem_count' = [sem_count EXCEPT ![s] = @ + 1]
      /\ spinlock_release(s)
      /\ obj' = [obj EXCEPT ![t] = NoObj]
      /\ UNCHANGED <<lock_held, thread_holder, mon, owns>>
  BY <1>0 DEF V_body
<1>2. /\ obj'[t] = NoObj /\ mon'[t] = NoObj
      /\ ArgsKept(t)
  BY <1>1, <1>s DEF IInv, TypeOK, ArgsKept
<1>5. /\ pc' \in [Threads -> Labels]
      /\ wchan' \in [Objects -> Seq(Threads)]
      /\ spin' \in [Objects -> Threads \cup {NoThread}]
      /\ pc'[t] = "run"
      /\ WakeEffect(t, s, "p_spin")
      /\ ArgInv' /\ SpinInv' /\ SleepInv'
  BY <1>s, <1>1, <1>2, WakeStepInv
<1>6. TypeOK'
  <2>1. sem_count' \in [Sems -> Nat]
    BY <1>1 DEF IInv, TypeOK
  <2> QED  BY <1>1, <1>5, <2>1 DEF IInv, TypeOK
<1>7. HolderInv'
  BY <1>1, <1>2, <1>5 DEF IInv, HolderInv, WakeEffect, ArgsKept
<1> QED  BY <1>5, <1>6, <1>7 DEF IInv

-----------------------------------------------------------------------------
(* IInv is inductive: one case per action.                                 *)
LEMMA NextInv == IInv /\ [Next]_vars => IInv'
<1> SUFFICES ASSUME IInv, [Next]_vars PROVE IInv'
  OBVIOUS
<1>1. CASE UNCHANGED vars
  BY <1>1 DEF vars, IInv, TypeOK, ArgInv, SpinInv, SleepInv, AsleepOn, HolderInv
<1>2. ASSUME NEW t \in Threads, Step(t) PROVE IInv'
  BY <1>2, SpinStepInv, LockAcquireStepInv, LockReleaseStepInv, CvWaitStepInv,
     CvWakeStepInv, PStepInv, VStepInv DEF Step
<1>3. ASSUME NEW t \in Threads, Call(t) PROVE IInv'
  BY <1>3, CallStepInv
<1> QED  BY <1>1, <1>2, <1>3 DEF Next

(* IInv holds in every reachable state.                                    *)
LEMMA InductiveInvariant == Spec => []IInv
BY InitInv, NextInv, PTL DEF Spec

(* synch.c keeps the fields of its objects and the positions of the        *)
(* threads well typed.                                                     *)
THEOREM TypeCorrect == Spec => []TypeOK
<1>1. IInv => TypeOK
  BY DEF IInv
<1> QED  BY <1>1, InductiveInvariant, PTL

(* Locks exclude: for any set of threads calling the operations of synch.c *)
(* in any order, no two are inside lock_acquire ... lock_release of one    *)
(* lock.                                                                   *)
THEOREM LocksExclude == Spec => []MutualExclusion
<1>1. IInv => MutualExclusion
  BY DEF IInv, TypeOK, HolderInv, MutualExclusion
<1> QED  BY <1>1, InductiveInvariant, PTL

(* The KASSERTs inside the operations of synch.c never fail once the entry *)
(* KASSERTs of the call hold; in particular wchan_sleep is only reached    *)
(* with exactly one spinlock.                                              *)
THEOREM AssertionsNeverFail == Spec => []AssertsHold
<1>1. IInv => AssertsHold
  <2> SUFFICES ASSUME IInv, NEW t \in Threads
               PROVE  /\ pc[t] \in {"cw_spin", "lr_spin", "lr_body"} =>
                            lock_held[mon[t]] /\ lock_do_i_hold(t, mon[t])
                      /\ pc[t] \in {"la_spin", "lr_spin"} => spin[mon[t]] # t
                      /\ pc[t] \in SpinLabels \ {"la_spin", "lr_spin"} => spin[obj[t]] # t
                      /\ pc[t] \in {"cw_sleep", "p_body"} => SpinlocksOf(t) = {obj[t]}
                      /\ pc[t] = "la_body" => SpinlocksOf(t) = {mon[t]}
    BY DEF AssertsHold
  <2> USE SynchAssumption
  <2>1. pc[t] \in {"cw_spin", "lr_spin", "lr_body"} =>
           lock_held[mon[t]] /\ lock_do_i_hold(t, mon[t])
    BY DEF IInv, ArgInv, CvLabels, HolderInv, lock_do_i_hold
  <2>2. pc[t] \in {"la_spin", "lr_spin"} => spin[mon[t]] # t
    BY DEF IInv, ArgInv, SpinInv, ObjSpinLabels, Objects
  <2>3. pc[t] \in SpinLabels \ {"la_spin", "lr_spin"} => spin[obj[t]] # t
    BY DEF IInv, ArgInv, SpinInv, SpinLabels, CvLabels, SemLabels, ObjSpinLabels, Objects
  <2>4. pc[t] \in {"cw_sleep", "p_body"} => SpinlocksOf(t) = {obj[t]}
    BY DEF IInv, ArgInv, SpinInv, CvLabels, SemLabels, ObjSpinLabels, Objects, SpinlocksOf
  <2>5. pc[t] = "la_body" => SpinlocksOf(t) = {mon[t]}
    BY DEF IInv, ArgInv, SpinInv, ObjSpinLabels, Objects, SpinlocksOf
  <2> QED  BY <2>1, <2>2, <2>3, <2>4, <2>5
<1> QED  BY <1>1, InductiveInvariant, PTL

-----------------------------------------------------------------------------
(* No wakeup of a lock is lost.  LockWakeup is inductive relative to IInv: *)
(* a thread stops contending only by taking the lock or by finding it held *)
(* again, and lock_release, the only step that frees the lock, makes the   *)
(* head of the channel contend.                                            *)
LEMMA LockWakeupStep == IInv /\ LockWakeup /\ [Next]_vars => LockWakeup'
<1> USE SynchAssumption
<1> SUFFICES ASSUME IInv, LockWakeup, [Next]_vars, NEW k \in Locks,
                    ~lock_held'[k], wchan'[k] # <<>>
             PROVE  \E u \in Threads : mon'[u] = k /\ pc'[u] \in {"la_spin", "la_body"}
  BY DEF LockWakeup, Contending
<1>k. k \in Objects
  BY DEF Objects
<1>g. ASSUME UNCHANGED <<lock_held, wchan>>,
             \A u \in Threads : mon[u] = k /\ pc[u] \in {"la_spin", "la_body"} =>
                mon'[u] = k /\ pc'[u] \in {"la_spin", "la_body"}
      PROVE  \E u \in Threads : mon'[u] = k /\ pc'[u] \in {"la_spin", "la_body"}
  BY <1>g DEF LockWakeup, Contending
<1>1. CASE UNCHANGED vars
  BY <1>1, <1>g DEF vars
<1>2. ASSUME NEW t \in Threads, Spin(t)
      PROVE  \E u \in Threads : mon'[u] = k /\ pc'[u] \in {"la_spin", "la_body"}
  BY <1>2, <1>g DEF IInv, TypeOK, Spin, spinlock_acquire
<1>3. ASSUME NEW t \in Threads, Call(t)
      PROVE  \E u \in Threads : mon'[u] = k /\ pc'[u] \in {"la_spin", "la_body"}
  <2>1. UNCHANGED <<lock_held, wchan>>
    BY <1>3 DEF Call, lock_acquire, lock_release, CallCv, cv_wait, cv_signal,
                cv_broadcast, CallSem, P, V
  <2>2. pc[t] = "run" /\ \A u \in Threads : u # t => pc'[u] = pc[u] /\ mon'[u] = mon[u]
    BY <1>3 DEF IInv, TypeOK, Call, lock_acquire, lock_release, CallCv, cv_wait,
                cv_signal, cv_broadcast, CallSem, P, V
  <2> QED  BY <2>1, <2>2, <1>g
<1>4. ASSUME NEW t \in Threads, lock_acquire_body(t)
      PROVE  \E u \in Threads : mon'[u] = k /\ pc'[u] \in {"la_spin", "la_body"}
  <2>0. PICK l \in Locks : l = mon[t]
    BY <1>4 DEF IInv, ArgInv, lock_acquire_body
  <2>1. lock_held'[l] /\ \A j \in Locks \ {l} : lock_held'[j] = lock_held[j]
    BY <1>4, <2>0 DEF lock_acquire_body, IInv, TypeOK
  <2>2. k # l
    BY <2>1
  <2>3. wchan'[k] = wchan[k]
    BY <1>4, <1>k, <2>0, <2>2 DEF lock_acquire_body, wchan_sleep, IInv, TypeOK
  <2>4. \A u \in Threads : u # t => pc'[u] = pc[u] /\ mon'[u] = mon[u]
    BY <1>4 DEF lock_acquire_body, wchan_sleep, IInv, TypeOK
  <2> QED  BY <2>0, <2>1, <2>2, <2>3, <2>4 DEF LockWakeup, Contending
<1>5. ASSUME NEW t \in Threads, cv_wait_sleep(t) \/ cv_wait_relock(t) \/ P_body(t)
      PROVE  \E u \in Threads : mon'[u] = k /\ pc'[u] \in {"la_spin", "la_body"}
  <2>1. pc[t] \in {"cw_sleep", "cw_unlock", "p_body"}
    BY <1>5 DEF cv_wait_sleep, cv_wait_relock, P_body
  <2>2. obj[t] \in CVs \cup Sems
    BY <2>1 DEF IInv, ArgInv, CvLabels, SemLabels
  <2>3. wchan'[k] = wchan[k] /\ lock_held' = lock_held
    BY <1>5, <1>k, <2>2 DEF cv_wait_sleep, cv_wait_relock, P_body, wchan_sleep, IInv, TypeOK
  <2>4. \A u \in Threads : u # t => pc'[u] = pc[u] /\ mon'[u] = mon[u]
    BY <1>5 DEF cv_wait_sleep, cv_wait_relock, P_body, wchan_sleep, IInv, TypeOK
  <2> QED  BY <2>1, <2>3, <2>4 DEF LockWakeup, Contending
<1>6. ASSUME NEW t \in Threads, cv_signal_body(t) \/ cv_broadcast_body(t) \/ V_body(t)
      PROVE  \E u \in Threads : mon'[u] = k /\ pc'[u] \in {"la_spin", "la_body"}
  <2>1. /\ pc[t] \in {"cs_body", "cb_body", "v_body"}
        /\ pc[t] \notin AsleepLabels
    BY <1>6 DEF cv_signal_body, cv_broadcast_body, V_body, AsleepLabels
  <2>2. PICK o \in CVs \cup Sems : o = obj[t]
    BY <2>1 DEF IInv, ArgInv, CvLabels, SemLabels
  <2>3. "run" \in Labels /\ "cw_wake" \in Labels /\ "p_spin" \in Labels /\ o \in Objects
    BY DEF Labels, SpinLabels, Objects
  <2>4. \E w \in {"cw_wake", "p_spin"} : WakeEffect(t, o, w)
    BY <1>6, <2>1, <2>2, <2>3, WakeoneFacts, WakeallFacts
       DEF cv_signal_body, cv_broadcast_body, V_body, IInv
  <2>5. wchan'[k] = wchan[k] /\ lock_held' = lock_held
    BY <1>6, <1>k, <2>2, <2>4 DEF WakeEffect, cv_signal_body, cv_broadcast_body, V_body, CvReturn
  <2>6. \A u \in Threads : u # t =>
           /\ mon'[u] = mon[u]
           /\ pc'[u] = pc[u] \/ pc[u] \notin {"la_spin", "la_body"}
    <3>1. \A u \in Threads : u # t => mon'[u] = mon[u]
      BY <1>6 DEF cv_signal_body, cv_broadcast_body, V_body, CvReturn, IInv, TypeOK
    <3>2. \A u \in Threads : u # t => pc'[u] = pc[u] \/ pc[u] \notin {"la_spin", "la_body"}
      BY <2>4 DEF WakeEffect, AsleepOn
    <3> QED  BY <3>1, <3>2
  <2> QED  BY <2>1, <2>5, <2>6 DEF LockWakeup, Contending
<1>7. ASSUME NEW t \in Threads, lock_release_body(t)
      PROVE  \E u \in Threads : mon'[u] = k /\ pc'[u] \in {"la_spin", "la_body"}
  <2>1. pc[t] = "lr_body" /\ pc[t] \notin AsleepLabels
    BY <1>7 DEF lock_release_body, AsleepLabels
  <2>2. PICK l \in Locks : l = mon[t]
    BY <2>1 DEF IInv, ArgInv
  <2>3. PICK next \in Labels : wchan_wakeone(t, l, next, "la_spin")
    BY <1>7, <2>2 DEF lock_release_body, Labels, BodyLabels
  <2>4. l \in Objects /\ "la_spin" \in Labels
    BY DEF Objects, Labels, SpinLabels
  <2>5. WakeEffect(t, l, "la_spin")
    BY <2>1, <2>3, <2>4, WakeoneFacts DEF IInv
  <2>6. \A u \in Threads : u # t => mon'[u] = mon[u]
    BY <1>7 DEF lock_release_body, IInv, TypeOK
  <2>7. CASE k = l
    <3>1. wchan[l] # <<>>
      BY <1>7, <2>7, <2>3 DEF wchan_wakeone
    <3> DEFINE h == Head(wchan[l])
    <3>2. h = wchan[l][1] /\ h \in Threads /\ 1 \in 1 .. Len(wchan[l])
      BY <3>1, <2>4 DEF IInv, TypeOK
    <3>3. AsleepOn(h, l)
      BY <3>2, <2>4 DEF IInv, SleepInv
    <3>4. pc[h] = "la_asleep" /\ mon[h] = l /\ h # t
      BY <3>3, <2>1 DEF AsleepOn
    <3>5. pc'[h] = "la_spin"
      BY <2>3, <3>1, <3>2, <3>4 DEF wchan_wakeone, IInv, TypeOK
    <3> QED  BY <2>6, <2>7, <3>2, <3>4, <3>5
  <2>8. CASE k # l
    <3>1. wchan'[k] = wchan[k] /\ lock_held'[k] = lock_held[k]
      BY <1>7, <2>2, <2>5, <2>8, <1>k DEF WakeEffect, lock_release_body, IInv, TypeOK
    <3>2. \A u \in Threads : u # t => pc'[u] = pc[u] \/ pc[u] \notin {"la_spin", "la_body"}
      BY <2>5 DEF WakeEffect, AsleepOn
    <3> QED  BY <2>1, <2>6, <3>1, <3>2 DEF LockWakeup, Contending
  <2> QED  BY <2>7, <2>8
<1> QED  BY <1>1, <1>2, <1>3, <1>4, <1>5, <1>6, <1>7 DEF Next, Step

(* lock_release and the retest in lock_acquire lose no wakeup: whenever a  *)
(* lock is free and threads sleep on it, some thread is on its way to take *)
(* it.                                                                     *)
THEOREM NoLostLockWakeup == Spec => []LockWakeup
<1>1. Init => LockWakeup
  BY DEF Init, wchan_create, LockWakeup, Objects
<1> QED  BY <1>1, LockWakeupStep, InductiveInvariant, PTL DEF Spec

-----------------------------------------------------------------------------
(* No wakeup of a semaphore is lost.  The same argument, counting: a P     *)
(* that takes a unit removes one tester and one unit, a P that sleeps saw  *)
(* no unit, a V that finds sleepers adds one unit and one tester.          *)
LEMMA TestingFinite ==
    ASSUME NEW s
    PROVE  IsFiniteSet(Testing(s)) /\ Cardinality(Testing(s)) \in Nat
<1>1. Testing(s) \subseteq Threads
  BY DEF Testing
<1>2. IsFiniteSet(Testing(s))
  BY <1>1, FS_Subset, SynchAssumption
<1> QED  BY <1>2, FS_CardinalityType

(* Steps that leave semaphore s alone.                                     *)
LEMMA SemStutter ==
    ASSUME IInv, SemWakeup, NEW s \in Sems, IsFiniteSet(Testing(s)'),
           sem_count'[s] = sem_count[s],
           wchan'[s] # <<>> => wchan[s] # <<>>,
           Testing(s) \subseteq Testing(s)', wchan'[s] # <<>>
    PROVE  sem_count'[s] <= Cardinality(Testing(s)')
<1>1. sem_count[s] \in Nat /\ sem_count[s] <= Cardinality(Testing(s))
  BY DEF SemWakeup, IInv, TypeOK
<1>2. /\ Cardinality(Testing(s)) <= Cardinality(Testing(s)')
      /\ Cardinality(Testing(s)) \in Nat /\ Cardinality(Testing(s)') \in Nat
  BY FS_Subset, FS_CardinalityType, TestingFinite
<1> QED  BY <1>1, <1>2

(* Every step preserves SemWakeup: a step of V adds a unit and, if anybody *)
(* sleeps, a thread on its way to the test; a step of P removes one each.  *)
LEMMA SemWakeupStep == IInv /\ SemWakeup /\ [Next]_vars => SemWakeup'
<1> USE SynchAssumption
<1> SUFFICES ASSUME IInv, SemWakeup, [Next]_vars, NEW s \in Sems, wchan'[s] # <<>>
             PROVE  sem_count'[s] <= Cardinality(Testing(s)')
  BY DEF SemWakeup
<1>s. s \in Objects /\ wchan[s] \in Seq(Threads) /\ sem_count[s] \in Nat
  BY DEF Objects, IInv, TypeOK
<1>f. IsFiniteSet(Testing(s)') /\ Cardinality(Testing(s)') \in Nat
  <2>1. Testing(s)' \subseteq Threads
    BY DEF Testing
  <2>2. IsFiniteSet(Testing(s)')
    BY <2>1, FS_Subset
  <2> QED  BY <2>2, FS_CardinalityType
<1>i. IInv'
  BY NextInv
<1>1. CASE UNCHANGED vars
  <2>1. Testing(s) \subseteq Testing(s)'
    BY <1>1 DEF vars, Testing
  <2> QED  BY <1>1, <1>f, <2>1, SemStutter DEF vars
<1>2. ASSUME NEW t \in Threads, Spin(t)
      PROVE  sem_count'[s] <= Cardinality(Testing(s)')
  <2>1. Testing(s) \subseteq Testing(s)'
    BY <1>2 DEF IInv, TypeOK, Spin, spinlock_acquire, Testing
  <2>2. UNCHANGED <<wchan, sem_count>>
    BY <1>2 DEF Spin, spinlock_acquire
  <2> QED  BY <1>f, <2>1, <2>2, SemStutter
<1>3. ASSUME NEW t \in Threads, Call(t)
      PROVE  sem_count'[s] <= Cardinality(Testing(s)')
  <2>1. UNCHANGED <<wchan, sem_count>>
    BY <1>3 DEF Call, lock_acquire, lock_release, CallCv, cv_wait, cv_signal,
                cv_broadcast, CallSem, P, V
  <2>2. pc[t] = "run" /\ \A u \in Threads : u # t => pc'[u] = pc[u] /\ obj'[u] = obj[u]
    BY <1>3 DEF IInv, TypeOK, Call, lock_acquire, lock_release, CallCv, cv_wait,
                cv_signal, cv_broadcast, CallSem, P, V
  <2>3. Testing(s) \subseteq Testing(s)'
    BY <2>2 DEF Testing
  <2> QED  BY <1>f, <2>1, <2>3, SemStutter
<1>4. ASSUME NEW t \in Threads,
             lock_acquire_body(t) \/ cv_wait_sleep(t) \/ cv_wait_relock(t)
      PROVE  sem_count'[s] <= Cardinality(Testing(s)')
  <2>1. /\ pc[t] \in {"la_body", "cw_sleep", "cw_unlock"}
        /\ sem_count' = sem_count
        /\ \A u \in Threads : u # t => pc'[u] = pc[u] /\ obj'[u] = obj[u]
    BY <1>4 DEF lock_acquire_body, cv_wait_sleep, cv_wait_relock, wchan_sleep, IInv, TypeOK
  <2>2. /\ pc[t] = "la_body" => mon[t] \in Locks
        /\ pc[t] # "la_body" => obj[t] \in CVs
    BY <2>1 DEF IInv, ArgInv, CvLabels
  <2>3. wchan'[s] = wchan[s]
    BY <1>4, <1>s, <2>2 DEF lock_acquire_body, cv_wait_sleep, cv_wait_relock,
                            wchan_sleep, IInv, TypeOK
  <2>4. Testing(s) \subseteq Testing(s)'
    BY <2>1 DEF Testing
  <2> QED  BY <1>f, <2>1, <2>3, <2>4, SemStutter
<1>5. ASSUME NEW t \in Threads, NEW o \in Objects, NEW w, o # s,
             WakeEffect(t, o, w), pc[t] \notin {"p_spin", "p_body"},
             sem_count'[s] = sem_count[s],
             \A u \in Threads : u # t => obj'[u] = obj[u]
      PROVE  sem_count'[s] <= Cardinality(Testing(s)')
  <2>1. wchan'[s] = wchan[s]
    BY <1>5, <1>s DEF WakeEffect
  <2>2. \A u \in Threads : u # t => pc'[u] = pc[u] \/ pc[u] \notin {"p_spin", "p_body"}
    BY <1>5 DEF WakeEffect, AsleepOn, Objects
  <2>3. Testing(s) \subseteq Testing(s)'
    BY <1>5, <2>2 DEF Testing
  <2> QED  BY <1>5, <1>f, <2>1, <2>3, SemStutter
<1>6. ASSUME NEW t \in Threads, cv_signal_body(t) \/ cv_broadcast_body(t)
      PROVE  sem_count'[s] <= Cardinality(Testing(s)')
  <2>1. pc[t] \in {"cs_body", "cb_body"} /\ pc[t] \notin AsleepLabels
    BY <1>6 DEF cv_signal_body, cv_broadcast_body, AsleepLabels
  <2>2. PICK c \in CVs : c = obj[t]
    BY <2>1 DEF IInv, ArgInv, CvLabels
  <2>3. "run" \in Labels /\ "cw_wake" \in Labels /\ c \in Objects /\ c # s
    BY DEF Labels, SpinLabels, Objects
  <2>4. WakeEffect(t, c, "cw_wake")
    BY <1>6, <2>1, <2>2, <2>3, WakeoneFacts, WakeallFacts
       DEF cv_signal_body, cv_broadcast_body, IInv
  <2>5. sem_count' = sem_count /\ \A u \in Threads : u # t => obj'[u] = obj[u]
    BY <1>6 DEF cv_signal_body, cv_broadcast_body, CvReturn, IInv, TypeOK
  <2> QED  BY <1>5, <2>1, <2>3, <2>4, <2>5
<1>7. ASSUME NEW t \in Threads, lock_release_body(t)
      PROVE  sem_count'[s] <= Cardinality(Testing(s)')
  <2>1. pc[t] = "lr_body" /\ pc[t] \notin AsleepLabels
    BY <1>7 DEF lock_release_body, AsleepLabels
  <2>2. PICK l \in Locks : l = mon[t]
    BY <2>1 DEF IInv, ArgInv
  <2>3. PICK next \in Labels : wchan_wakeone(t, l, next, "la_spin")
    BY <1>7, <2>2 DEF lock_release_body, Labels, BodyLabels
  <2>4. l \in Objects /\ "la_spin" \in Labels /\ l # s
    BY DEF Objects, Labels, SpinLabels
  <2>5. WakeEffect(t, l, "la_spin")
    BY <2>1, <2>3, <2>4, WakeoneFacts DEF IInv
  <2>6. sem_count' = sem_count /\ \A u \in Threads : u # t => obj'[u] = obj[u]
    BY <1>7 DEF lock_release_body
  <2> QED  BY <1>5, <2>1, <2>4, <2>5, <2>6
<1>8. ASSUME NEW t \in Threads, P_body(t)
      PROVE  sem_count'[s] <= Cardinality(Testing(s)')
  <2>0. PICK r \in Sems : r = obj[t]
    BY <1>8 DEF IInv, ArgInv, P_body, SemLabels
  <2>1. /\ pc[t] = "p_body" /\ r \in Objects
        /\ \A u \in Threads : u # t => pc'[u] = pc[u] /\ obj'[u] = obj[u]
    BY <1>8 DEF P_body, wchan_sleep, IInv, TypeOK, Objects
  <2>2. CASE s # r
    <3>1. sem_count'[s] = sem_count[s] /\ wchan'[s] = wchan[s]
      BY <1>8, <1>s, <2>0, <2>2 DEF P_body, wchan_sleep, IInv, TypeOK
    <3>2. Testing(s) \subseteq Testing(s)'
      BY <2>0, <2>1, <2>2 DEF Testing
    <3> QED  BY <1>f, <3>1, <3>2, SemStutter
  <2>3. CASE s = r /\ sem_count[s] = 0
    <3>1. sem_count'[s] = 0
      BY <1>8, <2>0, <2>3 DEF P_body
    <3> QED  BY <1>f, <3>1
  <2>4. CASE s = r /\ sem_count[s] # 0
    <3>1. /\ sem_count'[s] = sem_count[s] - 1 /\ wchan' = wchan
          /\ pc'[t] = "run"
      BY <1>8, <1>s, <2>0, <2>4 DEF P_body, IInv, TypeOK
    <3>2. t \in Testing(s) /\ Testing(s)' = Testing(s) \ {t}
      BY <2>0, <2>1, <2>4, <3>1 DEF Testing
    <3>3. Cardinality(Testing(s)') = Cardinality(Testing(s)) - 1
      BY <3>2, TestingFinite, FS_RemoveElement
    <3>4. sem_count[s] <= Cardinality(Testing(s)) /\ Cardinality(Testing(s)) \in Nat
      BY <3>1, TestingFinite DEF SemWakeup
    <3> QED  BY <1>s, <3>1, <3>3, <3>4
  <2> QED  BY <2>2, <2>3, <2>4
<1>9. ASSUME NEW t \in Threads, V_body(t)
      PROVE  sem_count'[s] <= Cardinality(Testing(s)')
  <2>0. PICK r \in Sems : r = obj[t]
    BY <1>9 DEF IInv, ArgInv, V_body, SemLabels
  <2>1. /\ pc[t] = "v_body" /\ pc[t] \notin AsleepLabels /\ r \in Objects
        /\ "run" \in Labels /\ "p_spin" \in Labels
        /\ wchan_wakeone(t, r, "run", "p_spin")
        /\ \A u \in Threads : u # t => obj'[u] = obj[u]
    BY <1>9, <2>0 DEF V_body, IInv, TypeOK, Objects, AsleepLabels, Labels, SpinLabels
  <2>2. WakeEffect(t, r, "p_spin")
    BY <2>1, WakeoneFacts DEF IInv
  <2>3. CASE s # r
    <3>1. sem_count'[s] = sem_count[s]
      BY <1>9, <2>0, <2>3 DEF V_body, IInv, TypeOK
    <3> QED  BY <1>5, <2>1, <2>2, <2>3, <3>1
  <2>4. CASE s = r
    <3>1. sem_count'[s] = sem_count[s] + 1
      BY <1>9, <2>0, <2>4 DEF V_body, IInv, TypeOK
    <3>2. wchan[s] # <<>>
      BY <2>1, <2>4 DEF wchan_wakeone
    <3> DEFINE h == Head(wchan[s])
    <3>3. h = wchan[s][1] /\ h \in Threads /\ 1 \in 1 .. Len(wchan[s])
      BY <3>2, <1>s
    <3>4. AsleepOn(h, s)
      BY <3>3, <1>s DEF IInv, SleepInv
    <3>5. pc[h] = "p_asleep" /\ obj[h] = s /\ h # t
      BY <3>4, <2>1 DEF AsleepOn
    <3>6. pc' = [pc EXCEPT ![t] = "run", ![h] = "p_spin"]
      BY <2>1, <2>4, <3>2 DEF wchan_wakeone
    <3>7. pc'[h] = "p_spin" /\ \A u \in Threads : u # t /\ u # h => pc'[u] = pc[u]
      BY <3>3, <3>5, <3>6 DEF IInv, TypeOK
    <3> HIDE DEF h
    <3>8. /\ h \notin Testing(s)
          /\ Testing(s) \cup {h} \subseteq Testing(s)'
      BY <2>1, <3>3, <3>5, <3>7 DEF Testing
    <3>9. Cardinality(Testing(s) \cup {h}) = Cardinality(Testing(s)) + 1
      BY <3>8, TestingFinite, FS_AddElement
    <3>10. Cardinality(Testing(s) \cup {h}) <= Cardinality(Testing(s)')
      BY <1>f, <3>8, FS_Subset
    <3>11. sem_count[s] <= Cardinality(Testing(s)) /\ Cardinality(Testing(s)) \in Nat
      BY <3>2, TestingFinite DEF SemWakeup
    <3> QED  BY <1>s, <1>f, <3>1, <3>9, <3>10, <3>11
  <2> QED  BY <2>3, <2>4
<1> QED  BY <1>1, <1>2, <1>3, <1>4, <1>6, <1>7, <1>8, <1>9 DEF Next, Step

(* V and the retest in P lose no wakeup: threads are never left asleep     *)
(* with more units than threads on their way to take them.                 *)
THEOREM NoLostSemWakeup == Spec => []SemWakeup
<1>1. Init => SemWakeup
  BY DEF Init, wchan_create, SemWakeup, Objects
<1> QED  BY <1>1, SemWakeupStep, InductiveInvariant, PTL DEF Spec

-----------------------------------------------------------------------------
(* A thread in the body of cv_signal or cv_broadcast has the spinlock of   *)
(* the cv, so no thread is between lock_release and wchan_sleep of a       *)
(* cv_wait on it, and the body moves no thread to or from that place.      *)
LEMMA NobodyFallingAsleep ==
    ASSUME IInv, NEW t \in Threads, pc[t] \in {"cs_body", "cb_body"},
           NEW c \in CVs, c = obj[t], CvReturn(t),
           pc'[t] = "run", WakeEffect(t, c, "cw_wake")
    PROVE  /\ FallingAsleep(c) = {}
           /\ \A d \in CVs : FallingAsleep(d)' = FallingAsleep(d)
<1>1. spin[c] = t
  BY DEF IInv, SpinInv, ObjSpinLabels, Objects
<1>2. \A u \in Threads : pc[u] = "cw_sleep" /\ obj[u] = c => u = t
  BY <1>1 DEF IInv, SpinInv, ObjSpinLabels, Objects
<1>3. FallingAsleep(c) = {}
  BY <1>2 DEF FallingAsleep
<1>4. \A u \in Threads : u # t =>
         /\ obj'[u] = obj[u]
         /\ pc'[u] = "cw_sleep" <=> pc[u] = "cw_sleep"
  BY DEF CvReturn, WakeEffect, AsleepOn, Objects, IInv, TypeOK
<1>5. \A d \in CVs : FallingAsleep(d)' = FallingAsleep(d)
  BY <1>4 DEF FallingAsleep
<1> QED  BY <1>3, <1>5

(* What the bodies of cv_signal and cv_broadcast do to the threads that    *)
(* wait, asleep or falling asleep.                                         *)
LEMMA SignalStep ==
    ASSUME IInv, NEW t \in Threads
    PROVE  /\ cv_signal_body(t) /\ waiting[obj[t]] # <<>> =>
                 waiting' = [waiting EXCEPT ![obj[t]] = Tail(@)]
           /\ cv_broadcast_body(t) =>
                 waiting' = [waiting EXCEPT ![obj[t]] = <<>>]
<1>1. ASSUME cv_signal_body(t), waiting[obj[t]] # <<>>
      PROVE  waiting' = [waiting EXCEPT ![obj[t]] = Tail(@)]
  <2>1. pc[t] = "cs_body" /\ pc[t] \notin AsleepLabels
    BY <1>1 DEF cv_signal_body, AsleepLabels
  <2>2. PICK c \in CVs : c = obj[t]
    BY <2>1 DEF IInv, ArgInv, CvLabels
  <2>3. "run" \in Labels /\ "cw_wake" \in Labels /\ c \in Objects
    BY DEF Labels, SpinLabels, Objects
  <2>4. /\ wchan_wakeone(t, c, "run", "cw_wake") /\ CvReturn(t)
        /\ pc'[t] = "run" /\ WakeEffect(t, c, "cw_wake")
    BY <1>1, <2>1, <2>2, <2>3, WakeoneFacts DEF cv_signal_body, IInv
  <2>5. FallingAsleep(c) = {} /\ \A d \in CVs : FallingAsleep(d)' = FallingAsleep(d)
    BY <2>1, <2>2, <2>4, NobodyFallingAsleep
  <2>6. waiting[c] = wchan[c] /\ wchan[c] # <<>>
    BY <1>1, <2>2, <2>5 DEF waiting
  <2>7. wchan' = [wchan EXCEPT ![c] = Tail(@)]
    BY <2>4, <2>6 DEF wchan_wakeone
  <2>8. wchan'[c] = Tail(wchan[c]) /\ \A d \in CVs : d # c => wchan'[d] = wchan[d]
    BY <2>3, <2>7 DEF IInv, TypeOK, Objects
  <2>9. waiting' = [d \in CVs |-> IF d = c THEN Tail(wchan[c]) ELSE waiting[d]]
    BY <2>5, <2>8 DEF waiting
  <2>10. waiting = [d \in CVs |-> waiting[d]]
    BY DEF waiting
  <2> QED  BY <2>2, <2>6, <2>9, <2>10
<1>2. ASSUME cv_broadcast_body(t)
      PROVE  waiting' = [waiting EXCEPT ![obj[t]] = <<>>]
  <2>1. pc[t] = "cb_body" /\ pc[t] \notin AsleepLabels
    BY <1>2 DEF cv_broadcast_body, AsleepLabels
  <2>2. PICK c \in CVs : c = obj[t]
    BY <2>1 DEF IInv, ArgInv, CvLabels
  <2>3. "run" \in Labels /\ "cw_wake" \in Labels /\ c \in Objects
    BY DEF Labels, SpinLabels, Objects
  <2>4. /\ wchan_wakeall(t, c, "run", "cw_wake") /\ CvReturn(t)
        /\ pc'[t] = "run" /\ WakeEffect(t, c, "cw_wake")
    BY <1>2, <2>1, <2>2, <2>3, WakeallFacts DEF cv_broadcast_body, IInv
  <2>5. FallingAsleep(c) = {} /\ \A d \in CVs : FallingAsleep(d)' = FallingAsleep(d)
    BY <2>1, <2>2, <2>4, NobodyFallingAsleep
  <2>7. wchan' = [wchan EXCEPT ![c] = <<>>]
    BY <2>4 DEF wchan_wakeall
  <2>8. wchan'[c] = <<>> /\ \A d \in CVs : d # c => wchan'[d] = wchan[d]
    BY <2>3, <2>7 DEF IInv, TypeOK, Objects
  <2>9. waiting' = [d \in CVs |-> IF d = c THEN <<>> ELSE waiting[d]]
    BY <2>5, <2>8 DEF waiting
  <2>10. waiting = [d \in CVs |-> waiting[d]]
    BY DEF waiting
  <2> QED  BY <2>2, <2>9, <2>10
<1> QED  BY <1>1, <1>2

(* No signal falls between lock_release and wchan_sleep of a cv_wait: a    *)
(* cv_signal reaches the first thread that gave its lock up for the cv and *)
(* a cv_broadcast reaches all of them.                                     *)
THEOREM NoLostSignals == Spec => SignalsReachWaiters
<1> DEFINE A(t) == /\ cv_signal_body(t) /\ waiting[obj[t]] # <<>> =>
                         waiting' = [waiting EXCEPT ![obj[t]] = Tail(@)]
                   /\ cv_broadcast_body(t) =>
                         waiting' = [waiting EXCEPT ![obj[t]] = <<>>]
<1>1. IInv /\ [Next]_vars => [\A t \in Threads : A(t)]_vars
  BY SignalStep
<1> QED  BY <1>1, InductiveInvariant, PTL DEF Spec, SignalsReachWaiters
-----------------------------------------------------------------------------
(* synch.c implements the monitor of synch.h.  The invariant is enough:    *)
(* the spinlock of a cv shows that at most one thread is between           *)
(* lock_release and wchan_sleep of a cv_wait on it, so the queue of the    *)
(* abstract cv is the wait channel, plus that thread.                      *)

(* A step that touches neither the wait channel of a cv nor the threads    *)
(* between lock_release and wchan_sleep leaves the abstract queues alone.  *)
LEMMA WaitingKept ==
    ASSUME \A c \in CVs : wchan'[c] = wchan[c],
           \A c \in CVs : FallingAsleep(c)' = FallingAsleep(c)
    PROVE  waiting' = waiting
  BY DEF waiting

(* Who falls asleep changes only with pc and obj.                          *)
LEMMA FallingKept ==
    ASSUME NEW t \in Threads,
           \A u \in Threads : u # t => /\ obj'[u] = obj[u]
                                       /\ pc'[u] = "cw_sleep" <=> pc[u] = "cw_sleep",
           pc[t] # "cw_sleep", pc'[t] # "cw_sleep"
    PROVE  \A c \in CVs : FallingAsleep(c)' = FallingAsleep(c)
  BY DEF FallingAsleep

(* At most one thread falls asleep on a cv, and none while another thread  *)
(* has the spinlock of the cv.                                             *)
LEMMA OneFallsAsleep ==
    ASSUME IInv, NEW t \in Threads, NEW c \in CVs, spin[c] = t
    PROVE  FallingAsleep(c) \subseteq {t}
  BY DEF IInv, SpinInv, ObjSpinLabels, Objects, FallingAsleep

(* A thread that is running is on no abstract queue.                       *)
LEMMA NotWaiting ==
    ASSUME IInv, NEW t \in Threads, pc[t] \notin {"cw_sleep", "cw_asleep"}
    PROVE  ~M!Waits(t)
<1> SUFFICES ASSUME NEW c \in CVs, NEW i \in DOMAIN waiting[c], waiting[c][i] = t
             PROVE  FALSE
  BY DEF M!Waits
<1> DEFINE q == wchan[c]
<1>1. c \in Objects /\ q \in Seq(Threads) /\ DOMAIN q = 1 .. Len(q)
  BY DEF IInv, TypeOK, Objects
<1>2. \A j \in DOMAIN q : q[j] # t
  BY <1>1, SynchAssumption DEF IInv, SleepInv, AsleepOn
<1>3. CASE FallingAsleep(c) = {}
  BY <1>2, <1>3 DEF waiting
<1>4. CASE FallingAsleep(c) # {}
  <2>1. PICK u \in FallingAsleep(c) : u = MemberOf(FallingAsleep(c))
    BY <1>4 DEF MemberOf
  <2>2. u \in Threads /\ u # t
    BY <2>1 DEF FallingAsleep
  <2>3. waiting[c] = Append(q, u)
    BY <1>4, <2>1 DEF waiting
  <2>4. i \in DOMAIN q \/ (i = Len(q) + 1 /\ waiting[c][i] = u)
    BY <1>1, <2>2, <2>3
  <2>5. i \in DOMAIN q => waiting[c][i] = q[i]
    BY <1>1, <2>2, <2>3
  <2> QED  BY <1>2, <2>2, <2>4, <2>5
<1> QED  BY <1>3, <1>4

-----------------------------------------------------------------------------
(* Steps that only move the thread that takes them are not seen above.     *)
LEMMA SilentSteps ==
    ASSUME IInv, NEW t \in Threads, Spin(t) \/ Call(t) \/ cv_wait_relock(t)
    PROVE  UNCHANGED <<waiting, thread_holder, sem_count>>
<1>1. /\ wchan' = wchan /\ thread_holder' = thread_holder /\ sem_count' = sem_count
      /\ \A u \in Threads : u # t => pc'[u] = pc[u] /\ obj'[u] = obj[u]
  BY DEF Spin, spinlock_acquire, Call, lock_acquire, lock_release, cv_wait, cv_signal,
     cv_broadcast, CallCv, P, V, CallSem, cv_wait_relock, IInv, TypeOK
<1>2. pc[t] # "cw_sleep" /\ pc'[t] # "cw_sleep"
  BY DEF Spin, spinlock_acquire, Call, lock_acquire, lock_release, cv_wait, cv_signal,
     cv_broadcast, CallCv, P, V, CallSem, cv_wait_relock, IInv, TypeOK
<1>3. \A c \in CVs : FallingAsleep(c)' = FallingAsleep(c)
  BY <1>1, <1>2, FallingKept
<1> QED  BY <1>1, <1>3, WaitingKept

(* lock_acquire takes the lock when it is free and sleeps on it, unseen,   *)
(* when it is not.                                                         *)
LEMMA AcquireStep ==
    ASSUME IInv, NEW t \in Threads, lock_acquire_body(t)
    PROVE  \/ \E l \in Locks : M!lock_acquire(t, l)
           \/ UNCHANGED <<waiting, thread_holder, sem_count>>
<1>1. PICK l \in Locks : l = mon[t] /\ pc[t] = "la_body"
  BY DEF lock_acquire_body, IInv, ArgInv
<1>2. /\ l \notin CVs /\ l \in Objects /\ sem_count' = sem_count
      /\ \A u \in Threads : u # t => pc'[u] = pc[u] /\ obj'[u] = obj[u]
      /\ pc'[t] # "cw_sleep"
  BY SynchAssumption DEF lock_acquire_body, wchan_sleep, IInv, TypeOK, Objects
<1>3. \A c \in CVs : wchan'[c] = wchan[c]
  BY <1>1, <1>2 DEF lock_acquire_body, wchan_sleep, IInv, TypeOK, Objects
<1>4. waiting' = waiting
  BY <1>1, <1>2, <1>3, FallingKept, WaitingKept
<1>5. CASE lock_held[l]
  BY <1>1, <1>2, <1>4, <1>5 DEF lock_acquire_body
<1>6. CASE ~lock_held[l]
  <2>1. thread_holder[l] = NoThread /\ thread_holder' = [thread_holder EXCEPT ![l] = t]
    BY <1>1, <1>6 DEF lock_acquire_body, IInv, HolderInv
  <2>2. ~M!Waits(t)
    BY <1>1, NotWaiting
  <2>3. M!lock_acquire(t, l)
    BY <1>2, <1>4, <2>1, <2>2 DEF M!lock_acquire
  <2> QED  BY <2>3
<1> QED  BY <1>5, <1>6

(* lock_release on its own frees the lock; inside cv_wait it frees the     *)
(* lock and the thread joins the queue of the cv in the same step.         *)
LEMMA ReleaseStep ==
    ASSUME IInv, NEW t \in Threads, lock_release_body(t)
    PROVE  \/ \E l \in Locks : M!lock_release(t, l)
           \/ \E c \in CVs, l \in Locks : M!cv_wait(t, c, l)
<1>1. PICK l \in Locks : l = mon[t] /\ pc[t] = "lr_body" /\ thread_holder[l] = t
  BY DEF lock_release_body, IInv, ArgInv, HolderInv
<1>2. /\ l \notin CVs /\ l \in Objects /\ sem_count' = sem_count /\ obj' = obj
      /\ thread_holder' = [thread_holder EXCEPT ![l] = NoThread]
      /\ pc[t] \notin AsleepLabels
  BY <1>1, SynchAssumption DEF lock_release_body, Objects, AsleepLabels
<1> DEFINE next == IF obj[t] = NoObj THEN "run" ELSE "cw_sleep"
<1>3. /\ wchan_wakeone(t, l, next, "la_spin")
      /\ next \in Labels /\ "la_spin" \in Labels
  BY <1>1 DEF lock_release_body, Labels, BodyLabels, SpinLabels
<1>4. pc'[t] = next /\ WakeEffect(t, l, "la_spin")
  <2> HIDE DEF next
  <2> QED  BY <1>2, <1>3, WakeoneFacts DEF IInv
<1>5. \A c \in CVs : wchan'[c] = wchan[c]
  BY <1>2, <1>4 DEF WakeEffect, Objects
<1>6. \A u \in Threads : u # t => (pc'[u] = "cw_sleep" <=> pc[u] = "cw_sleep")
  BY <1>1, <1>4 DEF WakeEffect, AsleepOn
<1>7. CASE obj[t] = NoObj
  <2>1. waiting' = waiting
    BY <1>1, <1>2, <1>4, <1>5, <1>6, <1>7, FallingKept, WaitingKept
  <2>2. M!lock_release(t, l)
    BY <1>1, <1>2, <2>1 DEF M!lock_release
  <2> QED  BY <2>2
<1>8. CASE obj[t] # NoObj
  <2>1. PICK c \in CVs : c = obj[t]
    BY <1>1, <1>8 DEF IInv, ArgInv
  <2>2. spin[c] = t
    BY <1>1, <2>1 DEF IInv, SpinInv, ObjSpinLabels, Objects
  <2>3. FallingAsleep(c) = {}
    BY <1>1, <2>2, OneFallsAsleep DEF FallingAsleep
  <2>4. FallingAsleep(c)' = {t}
    BY <1>2, <1>4, <1>6, <1>8, <2>1, <2>3 DEF FallingAsleep
  <2>5. \A d \in CVs : d # c => FallingAsleep(d)' = FallingAsleep(d)
    BY <1>2, <1>6, <2>1 DEF FallingAsleep
  <2>6. MemberOf({t}) = t
    BY DEF MemberOf
  <2>7. waiting[c] = wchan[c] /\ waiting'[c] = Append(wchan[c], t)
    BY <1>5, <2>3, <2>4, <2>6 DEF waiting
  <2>8. \A d \in CVs : d # c => waiting'[d] = waiting[d]
    BY <1>5, <2>5 DEF waiting
  <2>9. waiting' = [waiting EXCEPT ![c] = Append(@, t)]
    <3>1. waiting = [d \in CVs |-> waiting[d]] /\ waiting' = [d \in CVs |-> waiting'[d]]
      BY DEF waiting
    <3> QED  BY <2>7, <2>8, <3>1
  <2>10. M!cv_wait(t, c, l)
    BY <1>1, <1>2, <2>9 DEF M!cv_wait
  <2> QED  BY <2>10
<1> QED  BY <1>7, <1>8

(* wchan_sleep inside cv_wait: the thread is on the queue already.         *)
LEMMA SleepStep ==
    ASSUME IInv, NEW t \in Threads, cv_wait_sleep(t)
    PROVE  UNCHANGED <<waiting, thread_holder, sem_count>>
<1>1. PICK c \in CVs : c = obj[t] /\ pc[t] = "cw_sleep"
  BY DEF cv_wait_sleep, IInv, ArgInv, CvLabels
<1>2. /\ thread_holder' = thread_holder /\ sem_count' = sem_count /\ obj' = obj
      /\ wchan' = [wchan EXCEPT ![c] = Append(@, t)]
      /\ \A u \in Threads : u # t => pc'[u] = pc[u]
      /\ pc'[t] = "cw_asleep"
  BY <1>1 DEF cv_wait_sleep, wchan_sleep, IInv, TypeOK
<1>3. spin[c] = t
  BY <1>1 DEF IInv, SpinInv, ObjSpinLabels, Objects
<1>4. FallingAsleep(c) = {t} /\ FallingAsleep(c)' = {}
  BY <1>1, <1>2, <1>3, OneFallsAsleep DEF FallingAsleep
<1>5. \A d \in CVs : d # c => FallingAsleep(d)' = FallingAsleep(d)
  BY <1>1, <1>2 DEF FallingAsleep
<1>6. MemberOf({t}) = t
  BY DEF MemberOf
<1>7. wchan'[c] = Append(wchan[c], t) /\ \A d \in CVs : d # c => wchan'[d] = wchan[d]
  BY <1>2 DEF IInv, TypeOK, Objects
<1>8. \A d \in CVs : waiting'[d] = waiting[d]
  BY <1>4, <1>5, <1>6, <1>7 DEF waiting
<1>9. waiting = [d \in CVs |-> waiting[d]] /\ waiting' = [d \in CVs |-> waiting'[d]]
  BY DEF waiting
<1>10. waiting' = waiting
  BY <1>8, <1>9
<1> QED  BY <1>2, <1>10

(* cv_signal and cv_broadcast, called by the holder of a lock; a signal    *)
(* that nobody waits for is not seen.                                      *)
LEMMA SignalSteps ==
    ASSUME IInv, NEW t \in Threads, cv_signal_body(t) \/ cv_broadcast_body(t)
    PROVE  \/ \E c \in CVs, l \in Locks : M!cv_signal(t, c, l) \/ M!cv_broadcast(t, c, l)
           \/ UNCHANGED <<waiting, thread_holder, sem_count>>
<1>1. /\ pc[t] \in {"cs_body", "cb_body"} /\ pc[t] \notin AsleepLabels
      /\ UNCHANGED <<thread_holder, sem_count>>
  BY DEF cv_signal_body, cv_broadcast_body, CvReturn, AsleepLabels
<1>2. PICK c \in CVs : c = obj[t]
  BY <1>1 DEF IInv, ArgInv, CvLabels
<1>3. PICK l \in Locks : l = mon[t] /\ thread_holder[l] = t
  BY <1>1 DEF IInv, ArgInv, CvLabels, HolderInv
<1>4. CASE cv_broadcast_body(t)
  <2>1. waiting' = [waiting EXCEPT ![c] = <<>>]
    BY <1>2, <1>4, SignalStep
  <2>2. M!cv_broadcast(t, c, l)
    BY <1>1, <1>3, <2>1 DEF M!cv_broadcast
  <2> QED  BY <2>2
<1>5. CASE cv_signal_body(t) /\ waiting[c] # <<>>
  <2>1. waiting' = [waiting EXCEPT ![c] = Tail(@)]
    BY <1>2, <1>5, SignalStep
  <2>2. M!cv_signal(t, c, l)
    BY <1>1, <1>3, <1>5, <2>1 DEF M!cv_signal
  <2> QED  BY <2>2
<1>6. CASE cv_signal_body(t) /\ waiting[c] = <<>>
  <2>1. "run" \in Labels /\ "cw_wake" \in Labels /\ c \in Objects
    BY DEF Labels, SpinLabels, Objects
  <2>2. /\ wchan_wakeone(t, c, "run", "cw_wake") /\ CvReturn(t)
        /\ pc'[t] = "run" /\ WakeEffect(t, c, "cw_wake")
    BY <1>1, <1>2, <1>6, <2>1, WakeoneFacts DEF cv_signal_body, IInv
  <2>3. FallingAsleep(c) = {} /\ \A d \in CVs : FallingAsleep(d)' = FallingAsleep(d)
    BY <1>1, <1>2, <2>2, NobodyFallingAsleep
  <2>4. wchan[c] = <<>>
    BY <1>6, <2>3 DEF waiting
  <2>5. wchan' = wchan
    BY <2>2, <2>4 DEF wchan_wakeone
  <2> QED  BY <1>1, <2>3, <2>5, WaitingKept
<1> QED  BY <1>2, <1>4, <1>5, <1>6

(* P takes a unit or sleeps, unseen; V adds one.                           *)
LEMMA SemSteps ==
    ASSUME IInv, NEW t \in Threads, P_body(t) \/ V_body(t)
    PROVE  \/ \E s \in Sems : M!P(s) \/ M!V(s)
           \/ UNCHANGED <<waiting, thread_holder, sem_count>>
<1>1. PICK s \in Sems : s = obj[t] /\ pc[t] \in {"p_body", "v_body"}
  BY DEF P_body, V_body, IInv, ArgInv, SemLabels
<1>2. /\ s \notin CVs /\ s \in Objects /\ thread_holder' = thread_holder
      /\ \A u \in Threads : u # t => obj'[u] = obj[u]
      /\ pc[t] \notin AsleepLabels
  BY <1>1, SynchAssumption DEF P_body, V_body, Objects, AsleepLabels, IInv, TypeOK
<1>3. CASE P_body(t)
  <2>1. /\ \A u \in Threads : u # t => pc'[u] = pc[u]
        /\ pc'[t] # "cw_sleep"
    BY <1>3 DEF P_body, wchan_sleep, IInv, TypeOK
  <2>2. \A c \in CVs : wchan'[c] = wchan[c]
    BY <1>1, <1>2, <1>3 DEF P_body, wchan_sleep, IInv, TypeOK, Objects
  <2>3. waiting' = waiting
    BY <1>1, <1>2, <2>1, <2>2, FallingKept, WaitingKept
  <2>4. \/ sem_count' = sem_count
        \/ sem_count[s] > 0 /\ sem_count' = [sem_count EXCEPT ![s] = @ - 1]
    BY <1>1, <1>3 DEF P_body
  <2> QED  BY <1>2, <2>3, <2>4 DEF M!P
<1>4. CASE V_body(t)
  <2>1. /\ wchan_wakeone(t, s, "run", "p_spin")
        /\ "run" \in Labels /\ "p_spin" \in Labels
    BY <1>1, <1>4 DEF V_body, Labels, SpinLabels
  <2>2. pc'[t] = "run" /\ WakeEffect(t, s, "p_spin")
    BY <1>2, <2>1, WakeoneFacts DEF IInv
  <2>3. \A c \in CVs : wchan'[c] = wchan[c]
    BY <1>2, <2>2 DEF WakeEffect, Objects
  <2>4. \A u \in Threads : u # t => (pc'[u] = "cw_sleep" <=> pc[u] = "cw_sleep")
    BY <1>1, <2>2 DEF WakeEffect, AsleepOn
  <2>5. waiting' = waiting
    BY <1>1, <1>2, <2>2, <2>3, <2>4, FallingKept, WaitingKept
  <2>6. sem_count' = [sem_count EXCEPT ![s] = @ + 1]
    BY <1>1, <1>4 DEF V_body
  <2> QED  BY <1>2, <2>5, <2>6 DEF M!V
<1> QED  BY <1>3, <1>4

(* Under every interleaving the spinlocks, wait channels and flags of      *)
(* synch.c behave as the monitor of synch.h: locks pass from thread to     *)
(* thread through NoThread only, cv_wait gives the lock up and joins the   *)
(* queue in one step, threads leave a queue by a signal or a broadcast of  *)
(* a lock holder only, and P takes a unit that is there.                   *)
THEOREM SynchIsMonitor == Spec => ImplementsMonitor
<1>1. Init => M!Init
  <2> SUFFICES ASSUME Init PROVE M!Init
    OBVIOUS
  <2>1. \A c \in CVs : FallingAsleep(c) = {} /\ wchan[c] = <<>>
    BY DEF Init, wchan_create, FallingAsleep, Objects
  <2>2. waiting = [c \in CVs |-> <<>>]
    BY <2>1 DEF waiting
  <2>3. sem_count \in [Sems -> Nat]
    BY SynchAssumption DEF Init, sem_create
  <2> QED  BY <2>2, <2>3 DEF Init, lock_create, M!Init
<1>2. IInv /\ [Next]_vars => [M!Next]_M!vars
  <2> SUFFICES ASSUME IInv, [Next]_vars PROVE [M!Next]_M!vars
    OBVIOUS
  <2>1. CASE UNCHANGED vars
    BY <2>1 DEF vars, waiting, FallingAsleep, M!vars
  <2>2. ASSUME NEW t \in Threads, Step(t) \/ Call(t)
        PROVE  [M!Next]_M!vars
    <3>1. CASE Spin(t) \/ Call(t) \/ cv_wait_relock(t)
      BY <3>1, SilentSteps DEF M!vars
    <3>2. CASE lock_acquire_body(t)
      BY <3>2, AcquireStep DEF M!vars, M!Next
    <3>3. CASE lock_release_body(t)
      BY <3>3, ReleaseStep DEF M!Next
    <3>4. CASE cv_wait_sleep(t)
      BY <3>4, SleepStep DEF M!vars
    <3>5. CASE cv_signal_body(t) \/ cv_broadcast_body(t)
      BY <3>5, SignalSteps DEF M!vars, M!Next
    <3>6. CASE P_body(t) \/ V_body(t)
      BY <3>6, SemSteps DEF M!vars, M!Next
    <3> QED  BY <2>2, <3>1, <3>2, <3>3, <3>4, <3>5, <3>6 DEF Step
  <2> QED  BY <2>1, <2>2 DEF Next
<1> QED  BY <1>1, <1>2, InductiveInvariant, PTL DEF Spec, ImplementsMonitor, M!Spec
=============================================================================
