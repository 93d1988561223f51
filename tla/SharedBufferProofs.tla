------------------------- MODULE SharedBufferProofs -------------------------
(***************************************************************************)
(* Theorems about SharedBuffer for any number of threads and any size of   *)
(* the buffer.  What makes the properties inductive is that a thread       *)
(* between lock_acquire and lock_release, or cv_wait, is the owner of      *)
(* buff_lock (OwnerInv): nobody else moves in, out or counter meanwhile.   *)
(***************************************************************************)
EXTENDS SharedBuffer, FiniteSetTheorems, TLAPS

InsideLabels == {"put_test", "put_store", "put_signal", "get_test", "get_read",
                 "get_advance", "get_signal", "unlock"}

OwnerInv == \A t \in Threads : pc[t] \in InsideLabels => owner["buff_lock"] = t

IInv == TypeOK /\ OwnerInv /\ RoomAfterTest /\ RingIndices

(* Indices of the ring: remainders of numbers below 2 * BUFF_SIZE.         *)
Wrap(x) == IF x < BUFF_SIZE THEN x ELSE x - BUFF_SIZE

LEMMA SmallMod == \A x \in 0 .. 2 * BUFF_SIZE - 1 : x % BUFF_SIZE = Wrap(x)
  BY SharedBufferAssumption DEF Wrap

(* Joining and leaving a queue keeps a function of queues well typed.      *)
LEMMA QueueTypes ==
    ASSUME NEW S, NEW D, NEW w \in [D -> Seq(S)], NEW c \in D
    PROVE  /\ w[c] # <<>> => [w EXCEPT ![c] = Tail(@)] \in [D -> Seq(S)]
           /\ \A t \in S : [w EXCEPT ![c] = Append(@, t)] \in [D -> Seq(S)]
<1>1. w[c] \in Seq(S)
  OBVIOUS
<1>2. w[c] # <<>> => Tail(w[c]) \in Seq(S)
  BY <1>1
<1>3. \A t \in S : Append(w[c], t) \in Seq(S)
  BY <1>1
<1> QED  BY <1>2, <1>3

-----------------------------------------------------------------------------
(* The buffer starts empty with nobody inside.                             *)
LEMMA InitInv == Init => IInv
<1> SUFFICES ASSUME Init PROVE IInv
  OBVIOUS
<1> USE SharedBufferAssumption
<1>1. TypeOK
  BY DEF Init, shared_buffer_create, M!Init, TypeOK
<1>2. OwnerInv /\ RoomAfterTest
  BY DEF Init, OwnerInv, InsideLabels, RoomAfterTest
<1>3. RingIndices
  <2>1. 0 + 0 \in 0 .. 2 * BUFF_SIZE - 1
    OBVIOUS
  <2>2. (0 + 0) % BUFF_SIZE = Wrap(0 + 0)
    BY <2>1, SmallMod, Zenon
  <2> QED  BY <2>2 DEF Init, shared_buffer_create, RingIndices, Wrap
<1> QED  BY <1>1, <1>2, <1>3 DEF IInv

(* Steps of t that leave the ring alone preserve IInv: the owner changes   *)
(* from t to nobody or from nobody to t, or stays, and t goes to a label   *)
(* that fits.                                                              *)
LEMMA RingKept ==
    ASSUME IInv, NEW t \in Threads, TypeOK', UNCHANGED bvars,
           \A u \in Threads : u # t => pc'[u] = pc[u],
           pc'[t] \in InsideLabels => owner'["buff_lock"] = t,
           \/ owner' = owner
           \/ owner["buff_lock"] = NoThread
           \/ owner["buff_lock"] = t,
           pc'[t] = "put_store" => counter < BUFF_SIZE,
           pc'[t] \in {"get_read", "get_advance"} => counter > 0
    PROVE  IInv'
<1> USE SharedBufferAssumption
<1>1. OwnerInv'
  <2> SUFFICES ASSUME NEW u \in Threads, u # t, pc[u] \in InsideLabels
               PROVE  owner'["buff_lock"] = u
    BY DEF OwnerInv
  <2>1. owner["buff_lock"] = u /\ u # NoThread
    BY DEF IInv, OwnerInv
  <2> QED  BY <2>1
<1>2. RoomAfterTest'
  BY DEF IInv, RoomAfterTest, bvars
<1>3. RingIndices'
  BY DEF IInv, RingIndices, bvars
<1> QED  BY <1>1, <1>2, <1>3 DEF IInv

(* Locking, testing, waiting, signalling and unlocking preserve IInv.      *)
LEMMA LockStepInv ==
    ASSUME IInv, NEW t \in Threads,
           \/ put_lock(t) \/ put_wake(t) \/ get_lock(t) \/ get_wake(t)
           \/ put_signal(t) \/ get_signal(t) \/ Unlock(t) \/ Call(t)
           \/ put_test(t) \/ get_test(t)
    PROVE  IInv'
<1> USE SharedBufferAssumption
<1>1. CASE put_lock(t) \/ put_wake(t) \/ get_lock(t) \/ get_wake(t)
  <2>1. TypeOK'
    BY <1>1 DEF IInv, TypeOK, PutLabels, GetLabels, put_lock, put_wake, get_lock,
       get_wake, Lock, Goto, M!lock_acquire, bvars
  <2>2. /\ owner["buff_lock"] = NoThread /\ owner'["buff_lock"] = t
        /\ UNCHANGED bvars
        /\ \A u \in Threads : u # t => pc'[u] = pc[u]
        /\ pc'[t] \in {"put_test", "get_test"}
    BY <1>1 DEF IInv, TypeOK, put_lock, put_wake, get_lock, get_wake, Lock, Goto,
       M!lock_acquire
  <2> QED  BY <2>1, <2>2, RingKept
<1>2. CASE put_signal(t) \/ get_signal(t)
  <2>0. t = owner["buff_lock"]
    BY <1>2 DEF IInv, OwnerInv, InsideLabels, put_signal, get_signal
  <2>1. TypeOK'
    <3>0. /\ waiting \in [{"prod_cv", "cons_cv"} -> Seq(Threads)]
          /\ \/ waiting' = waiting
             \/ \E cv \in {"prod_cv", "cons_cv"} :
                   waiting[cv] # <<>> /\ waiting' = [waiting EXCEPT ![cv] = Tail(@)]
      BY <1>2 DEF IInv, TypeOK, put_signal, get_signal, Signal, M!cv_signal, mvars
    <3>1. waiting' \in [{"prod_cv", "cons_cv"} -> Seq(Threads)]
      <4>1. ASSUME NEW cv \in {"prod_cv", "cons_cv"}, waiting[cv] # <<>>
            PROVE  [waiting EXCEPT ![cv] = Tail(@)] \in
                      [{"prod_cv", "cons_cv"} -> Seq(Threads)]
        BY <3>0, <4>1, QueueTypes
      <4> QED  BY <3>0, <4>1, Zenon
    <3>2. UNCHANGED <<bvars, owner, item, got>> /\ pc' = [pc EXCEPT ![t] = "unlock"]
      BY <1>2 DEF put_signal, get_signal, Signal, Goto, M!cv_signal, mvars
    <3> QED  BY <3>1, <3>2 DEF IInv, TypeOK, bvars
  <2>2. /\ owner' = owner /\ UNCHANGED bvars
        /\ \A u \in Threads : u # t => pc'[u] = pc[u]
        /\ pc'[t] = "unlock"
    BY <1>2 DEF IInv, TypeOK, put_signal, get_signal, Signal, Goto, M!cv_signal, mvars
  <2> QED  BY <2>0, <2>1, <2>2, RingKept
<1>3. CASE Unlock(t)
  <2>1. TypeOK'
    BY <1>3 DEF IInv, TypeOK, PutLabels, GetLabels, Unlock, Goto, M!lock_release, bvars
  <2>2. /\ owner["buff_lock"] = t /\ UNCHANGED bvars
        /\ \A u \in Threads : u # t => pc'[u] = pc[u]
        /\ pc'[t] = "idle"
    BY <1>3 DEF IInv, TypeOK, Unlock, Goto, M!lock_release
  <2>3. pc'[t] \notin InsideLabels
    BY <2>2 DEF InsideLabels
  <2> QED  BY <2>1, <2>2, <2>3, RingKept
<1>4. CASE Call(t)
  <2>1. TypeOK'
    BY <1>4 DEF IInv, TypeOK, PutLabels, GetLabels, Call, put_char_to_buff,
       get_char_from_buff, Goto, bvars, mvars
  <2>2. /\ owner' = owner /\ UNCHANGED bvars
        /\ \A u \in Threads : u # t => pc'[u] = pc[u]
        /\ pc'[t] \in {"put_lock", "get_lock"}
    BY <1>4 DEF IInv, TypeOK, Call, put_char_to_buff, get_char_from_buff, Goto, mvars
  <2>3. pc'[t] \notin InsideLabels
    BY <2>2 DEF InsideLabels
  <2> QED  BY <2>1, <2>2, <2>3, RingKept
<1>5. CASE put_test(t) \/ get_test(t)
  <2>0. t = owner["buff_lock"]
    BY <1>5 DEF IInv, OwnerInv, InsideLabels, put_test, get_test
  <2>1. TypeOK'
    <3>0. /\ waiting \in [{"prod_cv", "cons_cv"} -> Seq(Threads)]
          /\ \/ waiting' = waiting
             \/ \E cv \in {"prod_cv", "cons_cv"} :
                   waiting' = [waiting EXCEPT ![cv] = Append(@, t)]
      BY <1>5 DEF IInv, TypeOK, put_test, get_test, WaitWhile, M!cv_wait, mvars
    <3>1. waiting' \in [{"prod_cv", "cons_cv"} -> Seq(Threads)]
      <4>1. ASSUME NEW cv \in {"prod_cv", "cons_cv"}
            PROVE  [waiting EXCEPT ![cv] = Append(@, t)] \in
                      [{"prod_cv", "cons_cv"} -> Seq(Threads)]
        BY <3>0, <4>1, QueueTypes
      <4> QED  BY <3>0, <4>1, Zenon
    <3>2. owner' \in [{"buff_lock"} -> Threads \cup {NoThread}]
      BY <1>5 DEF IInv, TypeOK, put_test, get_test, WaitWhile, M!cv_wait, mvars
    <3>3. /\ UNCHANGED <<bvars, item, got>>
          /\ \E l \in PutLabels \cup GetLabels : pc' = [pc EXCEPT ![t] = l]
      BY <1>5 DEF put_test, get_test, WaitWhile, Goto, PutLabels, GetLabels
    <3> QED  BY <3>1, <3>2, <3>3 DEF IInv, TypeOK, bvars
  <2>2. /\ UNCHANGED bvars
        /\ \A u \in Threads : u # t => pc'[u] = pc[u]
        /\ \/ owner' = owner /\ pc'[t] = "put_store" /\ counter # BUFF_SIZE
           \/ owner' = owner /\ pc'[t] = "get_read" /\ counter # 0
           \/ pc'[t] \in {"put_wake", "get_wake"}
    BY <1>5 DEF IInv, TypeOK, put_test, get_test, WaitWhile, Goto, M!cv_wait, mvars
  <2>3. /\ pc'[t] \in InsideLabels => owner'["buff_lock"] = t
        /\ pc'[t] = "put_store" => counter < BUFF_SIZE
        /\ pc'[t] \in {"get_read", "get_advance"} => counter > 0
    BY <2>0, <2>2 DEF InsideLabels, IInv, TypeOK
  <2> QED  BY <2>0, <2>1, <2>2, <2>3, RingKept
<1> QED  BY <1>1, <1>2, <1>3, <1>4, <1>5

(* Storing and removing a character preserve IInv: the thread owns the     *)
(* lock, so no other thread is past its test.                              *)
LEMMA RingStepInv ==
    ASSUME IInv, NEW t \in Threads, put_store(t) \/ get_read(t) \/ get_advance(t)
    PROVE  IInv'
<1> USE SharedBufferAssumption
<1>0. owner["buff_lock"] = t
  BY DEF IInv, OwnerInv, InsideLabels, put_store, get_read, get_advance
<1>1. \A u \in Threads : u # t => pc[u] \notin InsideLabels /\ pc'[u] = pc[u]
  BY <1>0 DEF IInv, OwnerInv, TypeOK, put_store, get_read, get_advance, Goto
<1>2. CASE get_read(t)
  <2>1. TypeOK'
    BY <1>2 DEF IInv, TypeOK, PutLabels, GetLabels, get_read, Goto, bvars, mvars
  <2>2. /\ owner' = owner /\ UNCHANGED bvars /\ pc'[t] = "get_advance" /\ counter > 0
    BY <1>2 DEF IInv, TypeOK, RoomAfterTest, get_read, Goto, mvars
  <2> QED  BY <1>0, <1>1, <2>1, <2>2, RingKept
<1>3. CASE put_store(t)
  <2>1. /\ counter < BUFF_SIZE /\ counter' = counter + 1 /\ out' = out
        /\ in' = (in + 1) % BUFF_SIZE /\ pc'[t] = "put_signal" /\ owner' = owner
    BY <1>3 DEF IInv, TypeOK, RoomAfterTest, put_store, Goto, mvars
  <2>2. in' = Wrap(in + 1)
    <3>1. in + 1 \in 0 .. 2 * BUFF_SIZE - 1
      BY DEF IInv, TypeOK
    <3>2. (in + 1) % BUFF_SIZE = Wrap(in + 1)
      BY <3>1, SmallMod, Zenon
    <3> QED  BY <2>1, <3>2
  <2>3. TypeOK'
    BY <1>3, <2>1, <2>2 DEF Wrap, IInv, TypeOK, PutLabels, GetLabels, put_store, Goto, mvars
  <2>4. OwnerInv' /\ RoomAfterTest'
    BY <1>0, <1>1, <2>1 DEF OwnerInv, RoomAfterTest, InsideLabels
  <2>5. RingIndices'
    <3>1. /\ out + counter \in 0 .. 2 * BUFF_SIZE - 1
          /\ out' + counter' \in 0 .. 2 * BUFF_SIZE - 1
      BY <2>1 DEF IInv, TypeOK
    <3>2. (out + counter) % BUFF_SIZE = Wrap(out + counter)
      BY <3>1, SmallMod, Zenon
    <3>3. (out' + counter') % BUFF_SIZE = Wrap(out' + counter')
      BY <3>1, SmallMod, Zenon
    <3>4. in = Wrap(out + counter)
      BY <3>2 DEF IInv, RingIndices
    <3>5. /\ BUFF_SIZE \in Nat /\ in \in 0 .. BUFF_SIZE - 1
          /\ out \in 0 .. BUFF_SIZE - 1 /\ counter \in 0 .. BUFF_SIZE
      BY DEF IInv, TypeOK
    <3>6. in' = Wrap(out' + counter')
      BY <2>1, <2>2, <3>4, <3>5 DEF Wrap
    <3> QED  BY <3>3, <3>6 DEF RingIndices
  <2> QED  BY <2>3, <2>4, <2>5 DEF IInv
<1>4. CASE get_advance(t)
  <2>1. /\ counter > 0 /\ counter' = counter - 1 /\ in' = in
        /\ out' = (out + 1) % BUFF_SIZE /\ pc'[t] = "get_signal" /\ owner' = owner
    BY <1>4 DEF IInv, TypeOK, RoomAfterTest, get_advance, Goto, mvars
  <2>2. out' = Wrap(out + 1)
    <3>1. out + 1 \in 0 .. 2 * BUFF_SIZE - 1
      BY DEF IInv, TypeOK
    <3>2. (out + 1) % BUFF_SIZE = Wrap(out + 1)
      BY <3>1, SmallMod, Zenon
    <3> QED  BY <2>1, <3>2
  <2>3. TypeOK'
    BY <1>4, <2>1, <2>2 DEF Wrap, IInv, TypeOK, PutLabels, GetLabels, get_advance, Goto, mvars
  <2>4. OwnerInv' /\ RoomAfterTest'
    BY <1>0, <1>1, <2>1 DEF OwnerInv, RoomAfterTest, InsideLabels
  <2>5. RingIndices'
    <3>1. /\ out + counter \in 0 .. 2 * BUFF_SIZE - 1
          /\ out' + counter' \in 0 .. 2 * BUFF_SIZE - 1
      BY <2>1, <2>2 DEF Wrap, IInv, TypeOK
    <3>2. (out + counter) % BUFF_SIZE = Wrap(out + counter)
      BY <3>1, SmallMod, Zenon
    <3>3. (out' + counter') % BUFF_SIZE = Wrap(out' + counter')
      BY <3>1, SmallMod, Zenon
    <3>4. in = Wrap(out + counter)
      BY <3>2 DEF IInv, RingIndices
    <3>5. /\ BUFF_SIZE \in Nat /\ in \in 0 .. BUFF_SIZE - 1
          /\ out \in 0 .. BUFF_SIZE - 1 /\ counter \in 0 .. BUFF_SIZE
      BY DEF IInv, TypeOK
    <3>6. in' = Wrap(out' + counter')
      BY <2>1, <2>2, <3>4, <3>5 DEF Wrap
    <3> QED  BY <3>3, <3>6 DEF RingIndices
  <2> QED  BY <2>3, <2>4, <2>5 DEF IInv
<1> QED  BY <1>2, <1>3, <1>4

(* IInv is inductive.                                                      *)
LEMMA NextInv == IInv /\ [Next]_vars => IInv'
<1> SUFFICES ASSUME IInv, [Next]_vars PROVE IInv'
  OBVIOUS
<1>1. CASE UNCHANGED vars
  BY <1>1 DEF vars, bvars, mvars, IInv, TypeOK, OwnerInv, RoomAfterTest, RingIndices
<1>2. CASE Next
  BY <1>2, LockStepInv, RingStepInv DEF Next, Step
<1> QED  BY <1>1, <1>2

(* IInv holds in every reachable state.                                    *)
LEMMA InductiveInvariant == Spec => []IInv
  BY InitInv, NextInv, PTL DEF Spec

(* The ring's fields keep their types: in and out stay inside the array    *)
(* and counter between 0 and BUFF_SIZE.                                    *)
THEOREM TypeCorrect == Spec => []TypeOK
<1>1. IInv => TypeOK
  BY DEF IInv
<1> QED  BY <1>1, InductiveInvariant, PTL

(* A thread past its while loop has the room, or the character, it tested  *)
(* for, although put and get yield the processor before they use it.       *)
THEOREM RoomStays == Spec => []RoomAfterTest
<1>1. IInv => RoomAfterTest
  BY DEF IInv
<1> QED  BY <1>1, InductiveInvariant, PTL

(* in is always counter places after out, whatever the size of the ring.   *)
THEOREM RingConsistent == Spec => []RingIndices
<1>1. IInv => RingIndices
  BY DEF IInv
<1> QED  BY <1>1, InductiveInvariant, PTL

-----------------------------------------------------------------------------
(* What the refinement needs besides: a producer carries a character, and  *)
(* the character a consumer has read is still the oldest one.              *)
ItemInv == \A t \in Threads :
    /\ pc[t] \in {"put_lock", "put_wake", "put_test", "put_store"} => item[t] \in Chars
    /\ pc[t] = "get_advance" => item[t] = buffer[out]

(* A thread keeps its item from the call to the store, and from the read   *)
(* to the advance nobody else owns the lock.                               *)
LEMMA ItemStepInv ==
    ASSUME IInv, ItemInv, NEW t \in Threads, Step(t) \/ Call(t)
    PROVE  ItemInv'
<1> USE SharedBufferAssumption
<1>0. /\ \A u \in Threads : u # t => pc'[u] = pc[u] /\ item'[u] = item[u]
      /\ pc \in [Threads -> {"idle", "unlock"} \cup PutLabels \cup GetLabels]
      /\ item \in [Threads -> Chars \cup {NoChar}]
  BY DEF IInv, TypeOK, Step, Call, put_lock, put_wake, put_test, put_store, put_signal,
     get_lock, get_wake, get_test, get_read, get_advance, get_signal, Unlock, Lock,
     WaitWhile, Signal, Goto, put_char_to_buff, get_char_from_buff
<1>1. CASE UNCHANGED bvars /\ item' = item /\ pc'[t] # "get_advance"
           /\ (pc'[t] \in {"put_lock", "put_wake", "put_test", "put_store"} =>
                 pc[t] \in {"put_lock", "put_wake", "put_test", "put_store"})
  BY <1>0, <1>1 DEF ItemInv, bvars
<1>2. CASE put_lock(t) \/ put_wake(t) \/ put_test(t) \/ put_signal(t) \/ get_lock(t)
           \/ get_wake(t) \/ get_test(t) \/ get_signal(t) \/ get_char_from_buff(t)
  <2>1. UNCHANGED bvars /\ item' = item
    BY <1>2 DEF put_lock, put_wake, put_test, put_signal, get_lock, get_wake, get_test,
       get_signal, get_char_from_buff, Lock, WaitWhile, Signal
  <2>2. /\ pc'[t] # "get_advance"
        /\ pc'[t] \in {"put_lock", "put_wake", "put_test", "put_store"} =>
              pc[t] \in {"put_lock", "put_wake", "put_test", "put_store"}
    BY <1>0, <1>2 DEF put_lock, put_wake, put_test, put_signal, get_lock, get_wake,
       get_test, get_signal, get_char_from_buff, Lock, WaitWhile, Signal, Goto
  <2> QED  BY <1>1, <2>1, <2>2
<1>3. CASE Unlock(t) \/ \E c \in Chars : put_char_to_buff(t, c)
  <2>1. UNCHANGED bvars
    BY <1>3 DEF Unlock, put_char_to_buff
  <2>2. pc'[t] = "idle" \/ (pc'[t] = "put_lock" /\ item'[t] \in Chars)
    BY <1>0, <1>3 DEF Unlock, put_char_to_buff, Goto
  <2> QED  BY <1>0, <2>1, <2>2 DEF ItemInv, bvars
<1>4. CASE put_store(t) \/ get_read(t) \/ get_advance(t)
  <2>1. owner["buff_lock"] = t
    BY <1>4 DEF IInv, OwnerInv, InsideLabels, put_store, get_read, get_advance
  <2>2. \A u \in Threads : u # t => pc[u] # "get_advance"
    BY <2>1 DEF IInv, OwnerInv, InsideLabels
  <2>3. \/ pc'[t] \in {"put_signal", "get_signal"}
        \/ pc'[t] = "get_advance" /\ item'[t] = buffer'[out']
    BY <1>0, <1>4 DEF put_store, get_read, get_advance, Goto, bvars
  <2> QED  BY <1>0, <2>2, <2>3 DEF ItemInv
<1> QED  BY <1>2, <1>3, <1>4 DEF Step, Call

(* Both invariants together.                                               *)
LEMMA ItemInvariant == Spec => [](IInv /\ ItemInv)
<1>1. Init => ItemInv
  BY DEF Init, ItemInv
<1>2. IInv /\ ItemInv /\ [Next]_vars => ItemInv'
  <2>1. CASE UNCHANGED vars
    BY <2>1 DEF vars, bvars, ItemInv
  <2>2. CASE Next
    BY <2>2, ItemStepInv DEF Next
  <2> QED  BY <2>1, <2>2
<1> QED  BY <1>1, <1>2, InductiveInvariant, InitInv, NextInv, PTL DEF Spec

(* The n places of a ring b from place o on.                               *)
Contents(b, o, n) == [i \in 1 .. n |-> b[(o + i - 1) % BUFF_SIZE]]

(* They are a sequence of n characters.                                    *)
LEMMA ContentsIsSeq ==
    ASSUME NEW b \in [0 .. BUFF_SIZE - 1 -> Chars \cup {NoChar}],
           NEW o \in 0 .. BUFF_SIZE - 1, NEW n \in 0 .. BUFF_SIZE
    PROVE  /\ Contents(b, o, n) \in Seq(Chars \cup {NoChar})
           /\ Len(Contents(b, o, n)) = n
           /\ \A i \in 1 .. n : Contents(b, o, n)[i] = b[Wrap(o + i - 1)]
<1> USE SharedBufferAssumption
<1>2. ASSUME NEW i \in 1 .. n
      PROVE  /\ (o + i - 1) % BUFF_SIZE = Wrap(o + i - 1)
             /\ Wrap(o + i - 1) \in 0 .. BUFF_SIZE - 1
  <2>1. o + i - 1 \in 0 .. 2 * BUFF_SIZE - 1
    OBVIOUS
  <2>2. (o + i - 1) % BUFF_SIZE = Wrap(o + i - 1)
    BY <2>1, SmallMod, Zenon
  <2> QED  BY <2>2 DEF Wrap
<1>3. Contents(b, o, n) \in [1 .. n -> Chars \cup {NoChar}]
  BY <1>2 DEF Contents
<1>4. \A i \in 1 .. n : Contents(b, o, n)[i] = b[Wrap(o + i - 1)]
  BY <1>2 DEF Contents
<1> QED  BY <1>3, <1>4

(* put_store appends the item to the queue.                                *)
LEMMA StoreAppends ==
    ASSUME IInv, ItemInv, NEW t \in Threads, put_store(t)
    PROVE  F!put(item[t]) /\ item[t] \in Chars
<1> USE SharedBufferAssumption
<1>1. IInv'
  BY RingStepInv
<1>2. /\ counter < BUFF_SIZE /\ counter' = counter + 1 /\ out' = out /\ got' = got
      /\ buffer' = [buffer EXCEPT ![in] = item[t]] /\ item[t] \in Chars
  BY DEF IInv, RoomAfterTest, ItemInv, put_store
<1>3. /\ BUFF_SIZE \in Nat /\ out \in 0 .. BUFF_SIZE - 1 /\ counter \in 0 .. BUFF_SIZE
      /\ in \in 0 .. BUFF_SIZE - 1
      /\ buffer \in [0 .. BUFF_SIZE - 1 -> Chars \cup {NoChar}]
  BY DEF IInv, TypeOK
<1>4. in = Wrap(out + counter)
  <2>1. out + counter \in 0 .. 2 * BUFF_SIZE - 1
    BY <1>2, <1>3
  <2>2. (out + counter) % BUFF_SIZE = Wrap(out + counter)
    BY <2>1, SmallMod, Zenon
  <2> QED  BY <2>2 DEF IInv, RingIndices
<1>5. /\ queue \in Seq(Chars \cup {NoChar}) /\ Len(queue) = counter
      /\ \A i \in 1 .. counter : queue[i] = buffer[Wrap(out + i - 1)]
  <2>1. queue = Contents(buffer, out, counter)
    BY DEF queue, Contents
  <2>2. /\ out \in 0 .. BUFF_SIZE - 1 /\ counter \in 0 .. BUFF_SIZE
        /\ buffer \in [0 .. BUFF_SIZE - 1 -> Chars \cup {NoChar}]
    BY <1>3
  <2> QED  BY <2>1, <2>2, ContentsIsSeq, Zenon
<1>6. /\ queue' \in Seq(Chars \cup {NoChar}) /\ Len(queue') = counter'
      /\ \A i \in 1 .. counter' : queue'[i] = buffer'[Wrap(out' + i - 1)]
  <2>1. queue' = Contents(buffer', out', counter')
    BY DEF queue, Contents
  <2>2. /\ out' \in 0 .. BUFF_SIZE - 1 /\ counter' \in 0 .. BUFF_SIZE
        /\ buffer' \in [0 .. BUFF_SIZE - 1 -> Chars \cup {NoChar}]
    BY <1>1 DEF IInv, TypeOK
  <2> QED  BY <2>1, <2>2, ContentsIsSeq, Zenon
<1>7. queue' = Append(queue, item[t])
  <2>1. Append(queue, item[t]) \in Seq(Chars \cup {NoChar})
        /\ Len(Append(queue, item[t])) = counter + 1
    BY <1>2, <1>5
  <2>2. ASSUME NEW i \in 1 .. counter + 1
        PROVE  queue'[i] = Append(queue, item[t])[i]
    <3>1. queue'[i] = buffer'[Wrap(out + i - 1)]
      BY <1>2, <1>6
    <3>2. CASE i = counter + 1
      <4>1. Wrap(out + i - 1) = in
        BY <3>2, <1>3, <1>4 DEF Wrap
      <4> QED  BY <3>1, <3>2, <4>1, <1>2, <1>3, <1>5
    <3>3. CASE i \in 1 .. counter
      <4>1. Wrap(out + i - 1) # in /\ Wrap(out + i - 1) \in 0 .. BUFF_SIZE - 1
        BY <3>3, <1>2, <1>3, <1>4 DEF Wrap
      <4>2. buffer'[Wrap(out + i - 1)] = buffer[Wrap(out + i - 1)]
        BY <4>1, <1>2, <1>3
      <4> QED  BY <3>1, <3>3, <4>2, <1>5
    <3>4. i = counter + 1 \/ i \in 1 .. counter
      BY <1>3
    <3> QED  BY <3>2, <3>3, <3>4
  <2> QED  BY <1>2, <1>6, <2>1, <2>2
<1> QED  BY <1>2, <1>5, <1>7 DEF F!put

(* get_advance removes the oldest character and returns it.                *)
LEMMA AdvanceRemoves ==
    ASSUME IInv, ItemInv, NEW t \in Threads, get_advance(t)
    PROVE  F!get(t)
<1> USE SharedBufferAssumption
<1>1. IInv'
  BY RingStepInv
<1>2. /\ counter > 0 /\ counter' = counter - 1 /\ out' = (out + 1) % BUFF_SIZE
      /\ buffer' = buffer /\ got' = [got EXCEPT ![t] = buffer[out]]
  BY DEF IInv, RoomAfterTest, ItemInv, get_advance
<1>3. /\ BUFF_SIZE \in Nat /\ out \in 0 .. BUFF_SIZE - 1 /\ counter \in 0 .. BUFF_SIZE
      /\ buffer \in [0 .. BUFF_SIZE - 1 -> Chars \cup {NoChar}]
  BY DEF IInv, TypeOK
<1>4. out' = Wrap(out + 1)
  <2>1. out + 1 \in 0 .. 2 * BUFF_SIZE - 1
    BY <1>3
  <2>2. (out + 1) % BUFF_SIZE = Wrap(out + 1)
    BY <2>1, SmallMod, Zenon
  <2> QED  BY <1>2, <2>2
<1>5. /\ queue \in Seq(Chars \cup {NoChar}) /\ Len(queue) = counter
      /\ \A i \in 1 .. counter : queue[i] = buffer[Wrap(out + i - 1)]
  <2>1. queue = Contents(buffer, out, counter)
    BY DEF queue, Contents
  <2>2. /\ out \in 0 .. BUFF_SIZE - 1 /\ counter \in 0 .. BUFF_SIZE
        /\ buffer \in [0 .. BUFF_SIZE - 1 -> Chars \cup {NoChar}]
    BY <1>3
  <2> QED  BY <2>1, <2>2, ContentsIsSeq, Zenon
<1>6. /\ queue' \in Seq(Chars \cup {NoChar}) /\ Len(queue') = counter'
      /\ \A i \in 1 .. counter' : queue'[i] = buffer'[Wrap(out' + i - 1)]
  <2>1. queue' = Contents(buffer', out', counter')
    BY DEF queue, Contents
  <2>2. /\ out' \in 0 .. BUFF_SIZE - 1 /\ counter' \in 0 .. BUFF_SIZE
        /\ buffer' \in [0 .. BUFF_SIZE - 1 -> Chars \cup {NoChar}]
    BY <1>1 DEF IInv, TypeOK
  <2> QED  BY <2>1, <2>2, ContentsIsSeq, Zenon
<1>7. queue # <<>> /\ Head(queue) = buffer[out]
  <2>1. queue # <<>> /\ Head(queue) = queue[1]
    BY <1>2, <1>3, <1>5
  <2>2. queue[1] = buffer[Wrap(out + 1 - 1)]
    BY <1>2, <1>3, <1>5
  <2>3. Wrap(out + 1 - 1) = out
    BY <1>3 DEF Wrap
  <2> QED  BY <2>1, <2>2, <2>3
<1>8. queue' = Tail(queue)
  <2>1. Tail(queue) \in Seq(Chars \cup {NoChar}) /\ Len(Tail(queue)) = counter - 1
    BY <1>5, <1>7
  <2>2. ASSUME NEW i \in 1 .. counter - 1
        PROVE  queue'[i] = Tail(queue)[i]
    <3>1. queue'[i] = buffer[Wrap(out' + i - 1)]
      BY <1>2, <1>6
    <3>2. Wrap(out' + i - 1) = Wrap(out + (i + 1) - 1)
      BY <1>3, <1>4 DEF Wrap
    <3>3. queue[i + 1] = buffer[Wrap(out + (i + 1) - 1)]
      BY <1>3, <1>5
    <3>4. Tail(queue)[i] = queue[i + 1]
      BY <1>3, <1>5, <1>7
    <3> QED  BY <3>1, <3>2, <3>3, <3>4
  <2> QED  BY <1>2, <1>6, <2>1, <2>2
<1> QED  BY <1>2, <1>7, <1>8 DEF F!get

(* The ring with its lock and its condition variables is a bounded FIFO,   *)
(* for any number of threads and any size: storing is a put, advancing is  *)
(* a get that returns the oldest character, nothing else is visible.       *)
THEOREM BufferIsFifo == Spec => ImplementsFifo
<1>1. Init => F!Init
  BY DEF Init, shared_buffer_create, F!Init, queue
<1>2. IInv /\ ItemInv /\ [Next]_vars => [F!Next]_F!vars
  <2> SUFFICES ASSUME IInv, ItemInv, [Next]_vars PROVE [F!Next]_F!vars
    OBVIOUS
  <2>1. CASE UNCHANGED <<bvars, got>>
    BY <2>1 DEF bvars, queue, F!vars
  <2>2. CASE UNCHANGED vars
    BY <2>1, <2>2 DEF vars
  <2>3. ASSUME NEW t \in Threads, Step(t) \/ Call(t)
        PROVE  [F!Next]_F!vars
    <3>1. CASE put_store(t)
      BY <3>1, StoreAppends DEF F!Next
    <3>2. CASE get_advance(t)
      BY <3>2, AdvanceRemoves DEF F!Next
    <3>3. CASE put_lock(t) \/ put_wake(t) \/ put_test(t) \/ put_signal(t) \/ get_lock(t)
               \/ get_wake(t) \/ get_test(t) \/ get_read(t) \/ get_signal(t)
               \/ Unlock(t) \/ Call(t)
      <4>1. UNCHANGED <<bvars, got>>
        BY <3>3 DEF put_lock, put_wake, put_test, put_signal, get_lock, get_wake,
           get_test, get_read, get_signal, Unlock, Lock, WaitWhile, Signal, Call,
           put_char_to_buff, get_char_from_buff
      <4> QED  BY <2>1, <4>1
    <3> QED  BY <2>3, <3>1, <3>2, <3>3 DEF Step
  <2> QED  BY <2>2, <2>3 DEF Next
<1> QED  BY <1>1, <1>2, ItemInvariant, PTL DEF Spec, ImplementsFifo, F!Spec

-----------------------------------------------------------------------------
(* Nobody loses a signal.  The queues list threads that sleep inside their *)
(* own while loop, each thread once.                                       *)
CVs == {"prod_cv", "cons_cv"}
WakeLabel(c) == IF c = "prod_cv" THEN "put_wake" ELSE "get_wake"

QueueInv == \A c \in CVs : \A i \in DOMAIN waiting[c] :
    /\ pc[waiting[c][i]] = WakeLabel(c)
    /\ \A j \in DOMAIN waiting[c] : waiting[c][i] = waiting[c][j] => i = j

OnQueue(t, q) == \E i \in DOMAIN q : q[i] = t

(* What Append and Tail do to the elements of a queue.                     *)
LEMMA QueueEnds ==
    ASSUME NEW S, NEW q \in Seq(S), NEW t \in S
    PROVE  /\ DOMAIN q = 1 .. Len(q) /\ Len(q) \in Nat
           /\ Append(q, t) \in Seq(S) /\ DOMAIN Append(q, t) = 1 .. Len(q) + 1
           /\ \A i \in DOMAIN q : Append(q, t)[i] = q[i]
           /\ Append(q, t)[Len(q) + 1] = t
           /\ q # <<>> => /\ DOMAIN Tail(q) = 1 .. Len(q) - 1
                          /\ Tail(q) \in Seq(S)
                          /\ \A i \in DOMAIN Tail(q) : /\ i + 1 \in DOMAIN q
                                                       /\ Tail(q)[i] = q[i + 1]
                          /\ 1 \in DOMAIN q /\ Head(q) = q[1]
  OBVIOUS

(* Sizes of sets of threads that differ in one or two threads.             *)
LEMMA SetCounts ==
    ASSUME NEW A \in SUBSET Threads, NEW B \in SUBSET Threads
    PROVE  /\ Cardinality(A) \in Nat /\ Cardinality(B) \in Nat
           /\ A \subseteq B => Cardinality(A) <= Cardinality(B)
           /\ \A x : A \ {x} \subseteq B => Cardinality(A) <= Cardinality(B) + 1
           /\ \A y : A \subseteq B /\ y \in B \ A => Cardinality(A) + 1 <= Cardinality(B)
           /\ \A x, y : A \ {x} \subseteq B /\ y \in B \ A
                           => Cardinality(A) <= Cardinality(B)
<1>0. /\ IsFiniteSet(A) /\ IsFiniteSet(B)
      /\ Cardinality(A) \in Nat /\ Cardinality(B) \in Nat
  BY SharedBufferAssumption, FS_Subset, FS_CardinalityType
<1>1. \A X \in SUBSET B : IsFiniteSet(X) /\ Cardinality(X) <= Cardinality(B)
                          /\ Cardinality(X) \in Nat
  BY <1>0, FS_Subset, FS_CardinalityType
<1>2. \A x : /\ Cardinality(A \ {x}) \in {Cardinality(A), Cardinality(A) - 1}
             /\ IsFiniteSet(A \ {x})
  BY <1>0, FS_RemoveElement
<1>3. ASSUME NEW X, NEW y, IsFiniteSet(X), X \subseteq B, y \in B, y \notin X
      PROVE  Cardinality(X) + 1 <= Cardinality(B)
  <2>1. Cardinality(X \cup {y}) = Cardinality(X) + 1
    BY <1>3, FS_AddElement
  <2>2. X \cup {y} \in SUBSET B
    BY <1>3
  <2> QED  BY <2>1, <2>2, <1>1
<1>4. A \subseteq B => Cardinality(A) <= Cardinality(B)
  BY <1>1
<1>5. \A x : A \ {x} \subseteq B => Cardinality(A) <= Cardinality(B) + 1
  <2> TAKE x
  <2> HAVE A \ {x} \subseteq B
  <2>1. Cardinality(A \ {x}) <= Cardinality(B) /\ Cardinality(A \ {x}) \in Nat
    BY <1>1
  <2> QED  BY <1>0, <1>2, <2>1
<1>6. \A y : A \subseteq B /\ y \in B \ A => Cardinality(A) + 1 <= Cardinality(B)
  BY <1>0, <1>3
<1>7. \A x, y : A \ {x} \subseteq B /\ y \in B \ A => Cardinality(A) <= Cardinality(B)
  <2> TAKE x, y
  <2> HAVE A \ {x} \subseteq B /\ y \in B \ A
  <2>1. Cardinality(A \ {x}) + 1 <= Cardinality(B)
    BY <1>2, <1>3
  <2> QED  BY <1>0, <1>2, <2>1
<1> QED  BY <1>0, <1>4, <1>5, <1>6, <1>7

(* What one step of t does to the queues.                                  *)
QueueStep(t) ==
    \/ waiting' = waiting /\ ~Waiting(t)
    \/ \E c \in CVs : /\ waiting' = [waiting EXCEPT ![c] = Append(@, t)]
                      /\ pc'[t] = WakeLabel(c) /\ ~Waiting(t)
    \/ \E c \in CVs : /\ waiting[c] # <<>> /\ ~Waiting(t)
                      /\ waiting' = [waiting EXCEPT ![c] = Tail(@)]

(* A thread that runs is on no queue.                                      *)
LEMMA QueueSteps ==
    ASSUME IInv, QueueInv, NEW t \in Threads, Step(t) \/ Call(t)
    PROVE  QueueStep(t)
<1>1. /\ pc \in [Threads -> {"idle", "unlock"} \cup PutLabels \cup GetLabels]
      /\ waiting \in [CVs -> Seq(Threads)]
  BY DEF IInv, TypeOK, CVs
<1>2. pc[t] \notin {"put_wake", "get_wake"} => ~Waiting(t)
  BY DEF QueueInv, WakeLabel, Waiting, M!Waits, CVs
<1>3. CASE put_lock(t) \/ get_lock(t) \/ put_wake(t) \/ get_wake(t)
  BY <1>3 DEF QueueStep, put_lock, get_lock, put_wake, get_wake, Lock, M!lock_acquire,
     Waiting, M!Waits
<1>4. CASE Unlock(t) \/ Call(t) \/ put_store(t) \/ get_read(t) \/ get_advance(t)
  BY <1>2, <1>4 DEF QueueStep, Unlock, Call, put_store, get_read, get_advance,
     put_char_to_buff, get_char_from_buff, mvars, M!lock_release
<1>5. CASE put_test(t) \/ get_test(t)
  <2>1. ~Waiting(t)
    BY <1>2, <1>5 DEF put_test, get_test
  <2>2. \/ waiting' = waiting
        \/ \E c \in CVs : /\ waiting' = [waiting EXCEPT ![c] = Append(@, t)]
                          /\ pc'[t] = WakeLabel(c)
    BY <1>1, <1>5 DEF put_test, get_test, WaitWhile, Goto, M!cv_wait, mvars, CVs, WakeLabel
  <2> QED  BY <2>1, <2>2 DEF QueueStep
<1>6. CASE put_signal(t) \/ get_signal(t)
  <2>1. ~Waiting(t)
    BY <1>2, <1>6 DEF put_signal, get_signal
  <2>2. \/ waiting' = waiting
        \/ \E c \in CVs : /\ waiting[c] # <<>>
                          /\ waiting' = [waiting EXCEPT ![c] = Tail(@)]
    BY <1>1, <1>6 DEF put_signal, get_signal, Signal, M!cv_signal, mvars, CVs
  <2> QED  BY <2>1, <2>2 DEF QueueStep
<1> QED  BY <1>3, <1>4, <1>5, <1>6 DEF Step

(* The threads on a queue after a step of t.                               *)
LEMMA OnQueueAfter ==
    ASSUME IInv, QueueInv, NEW t \in Threads, NEW c \in CVs
    PROVE  /\ \A u : OnQueue(u, Append(waiting[c], t)) <=> OnQueue(u, waiting[c]) \/ u = t
           /\ waiting[c] # <<>> =>
                 /\ \A u : OnQueue(u, Tail(waiting[c]))
                             <=> OnQueue(u, waiting[c]) /\ u # Head(waiting[c])
                 /\ OnQueue(Head(waiting[c]), waiting[c])
<1>1. waiting[c] \in Seq(Threads)
  BY DEF IInv, TypeOK, CVs
<1> DEFINE q == waiting[c]
<1>2. /\ DOMAIN q = 1 .. Len(q) /\ Len(q) \in Nat
      /\ DOMAIN Append(q, t) = 1 .. Len(q) + 1
      /\ \A i \in DOMAIN q : Append(q, t)[i] = q[i]
      /\ Append(q, t)[Len(q) + 1] = t
      /\ q # <<>> => /\ DOMAIN Tail(q) = 1 .. Len(q) - 1
                     /\ \A i \in DOMAIN Tail(q) : /\ i + 1 \in DOMAIN q
                                                  /\ Tail(q)[i] = q[i + 1]
                     /\ 1 \in DOMAIN q /\ Head(q) = q[1]
  BY <1>1, QueueEnds
<1>3. \A i, j \in DOMAIN q : q[i] = q[j] => i = j
  BY DEF QueueInv
<1> HIDE DEF q
<1>4. \A u : OnQueue(u, Append(q, t)) <=> OnQueue(u, q) \/ u = t
  <2>1. \A i \in DOMAIN Append(q, t) : i \in DOMAIN q \/ i = Len(q) + 1
    BY <1>2
  <2>2. DOMAIN q \subseteq DOMAIN Append(q, t) /\ Len(q) + 1 \in DOMAIN Append(q, t)
    BY <1>2
  <2> QED  BY <1>2, <2>1, <2>2 DEF OnQueue
<1>5. ASSUME q # <<>>
      PROVE  /\ \A u : OnQueue(u, Tail(q)) <=> OnQueue(u, q) /\ u # Head(q)
             /\ OnQueue(Head(q), q)
  <2>1. \A i \in DOMAIN q : i = 1 \/ (i - 1 \in DOMAIN Tail(q) /\ (i - 1) + 1 = i)
    BY <1>2, <1>5
  <2>2. \A i \in DOMAIN Tail(q) : i + 1 # 1
    BY <1>2, <1>5
  <2>3. ASSUME NEW u, OnQueue(u, Tail(q))
        PROVE  OnQueue(u, q) /\ u # Head(q)
    BY <1>2, <1>3, <1>5, <2>2, <2>3 DEF OnQueue
  <2>4. ASSUME NEW u, OnQueue(u, q), u # Head(q)
        PROVE  OnQueue(u, Tail(q))
    BY <1>2, <1>5, <2>1, <2>4 DEF OnQueue
  <2> QED  BY <1>2, <1>5, <2>3, <2>4 DEF OnQueue
<1> QED  BY <1>4, <1>5 DEF q

(* A step of t keeps the queues in order.                                  *)
LEMMA QueueStepInv ==
    ASSUME IInv, QueueInv, NEW t \in Threads, Step(t) \/ Call(t)
    PROVE  QueueInv'
<1>0. \A u \in Threads : u # t => pc'[u] = pc[u]
  BY DEF IInv, TypeOK, Step, Call, put_lock, put_wake, put_test, put_store, put_signal,
     get_lock, get_wake, get_test, get_read, get_advance, get_signal, Unlock, Lock,
     WaitWhile, Signal, Goto, put_char_to_buff, get_char_from_buff
<1>1. waiting \in [CVs -> Seq(Threads)] /\ QueueStep(t)
  BY QueueSteps DEF IInv, TypeOK, CVs
<1>2. ~Waiting(t)
  BY <1>1 DEF QueueStep
<1>3. ASSUME NEW d \in CVs, NEW i \in DOMAIN waiting[d]
      PROVE  pc'[waiting[d][i]] = WakeLabel(d) /\ waiting[d][i] # t
  <2>1. waiting[d][i] \in Threads /\ pc[waiting[d][i]] = WakeLabel(d)
    BY <1>1 DEF QueueInv
  <2>2. waiting[d][i] # t
    BY <1>2 DEF Waiting, M!Waits, CVs
  <2> QED  BY <1>0, <2>1, <2>2
<1>4. SUFFICES ASSUME NEW d \in CVs
               PROVE  \A i \in DOMAIN waiting'[d] :
                         /\ pc'[waiting'[d][i]] = WakeLabel(d)
                         /\ \A j \in DOMAIN waiting'[d] :
                               waiting'[d][i] = waiting'[d][j] => i = j
  BY DEF QueueInv
<1>5. CASE waiting'[d] = waiting[d]
  BY <1>3, <1>5 DEF QueueInv
<1> DEFINE q == waiting[d]
<1>6. /\ DOMAIN q = 1 .. Len(q) /\ Len(q) \in Nat
      /\ DOMAIN Append(q, t) = 1 .. Len(q) + 1
      /\ \A i \in DOMAIN q : Append(q, t)[i] = q[i]
      /\ Append(q, t)[Len(q) + 1] = t
      /\ q # <<>> => /\ DOMAIN Tail(q) = 1 .. Len(q) - 1
                     /\ \A i \in DOMAIN Tail(q) : /\ i + 1 \in DOMAIN q
                                                  /\ Tail(q)[i] = q[i + 1]
  BY <1>1, QueueEnds
<1>7. /\ \A i, j \in DOMAIN q : q[i] = q[j] => i = j
      /\ \A i \in DOMAIN q : pc'[q[i]] = WakeLabel(d) /\ q[i] # t
  BY <1>3 DEF QueueInv
<1>8. CASE waiting'[d] = Append(q, t) /\ pc'[t] = WakeLabel(d)
  <2> HIDE DEF q
  <2>1. \A i \in DOMAIN Append(q, t) : i \in DOMAIN q \/ i = Len(q) + 1
    BY <1>6
  <2>2. Len(q) + 1 \notin DOMAIN q
    BY <1>6
  <2> QED  BY <1>6, <1>7, <1>8, <2>1, <2>2
<1>9. CASE q # <<>> /\ waiting'[d] = Tail(q)
  <2> HIDE DEF q
  <2>1. \A i, j \in DOMAIN Tail(q) : i + 1 = j + 1 => i = j
    BY <1>6, <1>9
  <2> QED  BY <1>6, <1>7, <1>9, <2>1
<1> QED  BY <1>1, <1>5, <1>8, <1>9 DEF QueueStep

(* Who waits after a step of t: only t can start to wait, and only the     *)
(* head of a queue can stop.                                               *)
LEMMA WaitingAfter ==
    ASSUME IInv, QueueInv, NEW t \in Threads, Step(t) \/ Call(t)
    PROVE  /\ \A u \in Threads : u # t /\ ~Waiting(u) => ~Waiting(u)'
           /\ waiting' = waiting => \A u \in Threads : Waiting(u)' <=> Waiting(u)
           /\ \A c \in CVs : waiting[c] # <<>> /\ waiting' = [waiting EXCEPT ![c] = Tail(@)]
                 => \E h \in Threads : Waiting(h) /\ ~Waiting(h)' /\ pc[h] = WakeLabel(c)
<1>1. waiting \in [CVs -> Seq(Threads)] /\ QueueStep(t)
  BY QueueSteps DEF IInv, TypeOK, CVs
<1>2. /\ \A u : Waiting(u) <=> \E c \in CVs : OnQueue(u, waiting[c])
      /\ \A u : Waiting(u)' <=> \E c \in CVs : OnQueue(u, waiting'[c])
  BY DEF Waiting, M!Waits, OnQueue, CVs
<1>3. \A c \in CVs :
        /\ \A u : OnQueue(u, Append(waiting[c], t)) <=> OnQueue(u, waiting[c]) \/ u = t
        /\ waiting[c] # <<>> =>
              /\ \A u : OnQueue(u, Tail(waiting[c]))
                          <=> OnQueue(u, waiting[c]) /\ u # Head(waiting[c])
              /\ OnQueue(Head(waiting[c]), waiting[c])
  BY OnQueueAfter
<1>4. \A u \in Threads : u # t /\ ~Waiting(u) => ~Waiting(u)'
  <2> SUFFICES ASSUME NEW u \in Threads, u # t, NEW c \in CVs, OnQueue(u, waiting'[c])
               PROVE  OnQueue(u, waiting[c])
    BY <1>2
  <2>1. CASE waiting'[c] = waiting[c]
    BY <2>1
  <2>2. CASE waiting'[c] = Append(waiting[c], t)
    BY <1>3, <2>2
  <2>3. CASE waiting[c] # <<>> /\ waiting'[c] = Tail(waiting[c])
    BY <1>3, <2>3
  <2> QED  BY <1>1, <2>1, <2>2, <2>3 DEF QueueStep
<1>5. waiting' = waiting => \A u \in Threads : Waiting(u)' <=> Waiting(u)
  BY <1>2
<1>6. ASSUME NEW c \in CVs, waiting[c] # <<>>, waiting' = [waiting EXCEPT ![c] = Tail(@)]
      PROVE  \E h \in Threads : Waiting(h) /\ ~Waiting(h)' /\ pc[h] = WakeLabel(c)
  <2>1. waiting'[c] = Tail(waiting[c]) /\ \A d \in CVs : d # c => waiting'[d] = waiting[d]
    BY <1>1, <1>6
  <2>2. PICK h : OnQueue(h, waiting[c]) /\ ~OnQueue(h, waiting'[c])
    BY <1>3, <1>6, <2>1
  <2>3. h \in Threads /\ \A d \in CVs : OnQueue(h, waiting[d]) => pc[h] = WakeLabel(d)
    BY <1>1, <2>2 DEF QueueInv, OnQueue
  <2>4. \A d \in CVs : d # c => WakeLabel(d) # WakeLabel(c)
    BY DEF CVs, WakeLabel
  <2>5. \A d \in CVs : d # c => ~OnQueue(h, waiting'[d])
    BY <2>1, <2>2, <2>3, <2>4
  <2>6. Waiting(h) /\ ~Waiting(h)' /\ pc[h] = WakeLabel(c)
    BY <1>2, <2>2, <2>3, <2>5
  <2> QED  BY <2>3, <2>6
<1> QED  BY <1>4, <1>5, <1>6

(* While producers wait, every free place has an operation under way.      *)
LEMMA PutCounts ==
    ASSUME IInv, QueueInv, NoLostSignal, NEW t \in Threads, Step(t) \/ Call(t)
    PROVE  waiting'["prod_cv"] # <<>> => BUFF_SIZE - counter' <= Cardinality(PutsUnderWay')
<1> USE SharedBufferAssumption
<1> DEFINE A == PutsUnderWay
           B == PutsUnderWay'
<1>0. /\ pc \in [Threads -> {"idle", "unlock"} \cup PutLabels \cup GetLabels]
      /\ waiting \in [CVs -> Seq(Threads)]
      /\ counter \in 0 .. BUFF_SIZE /\ BUFF_SIZE \in Nat
      /\ \A u \in Threads : u # t => pc'[u] = pc[u]
  BY DEF IInv, TypeOK, CVs, Step, Call, put_lock, put_wake, put_test, put_store, put_signal,
     get_lock, get_wake, get_test, get_read, get_advance, get_signal, Unlock, Lock,
     WaitWhile, Signal, Goto, put_char_to_buff, get_char_from_buff
<1>1. A \in SUBSET Threads /\ B \in SUBSET Threads
  BY DEF PutsUnderWay
<1>2. /\ Cardinality(A) \in Nat /\ Cardinality(B) \in Nat
      /\ A \subseteq B => Cardinality(A) <= Cardinality(B)
      /\ A \ {t} \subseteq B => Cardinality(A) <= Cardinality(B) + 1
      /\ A \subseteq B /\ t \in B \ A => Cardinality(A) + 1 <= Cardinality(B)
      /\ \A y : A \ {t} \subseteq B /\ y \in B \ A => Cardinality(A) <= Cardinality(B)
  <2> HIDE DEF A, B
  <2> QED  BY <1>1, SetCounts
<1>3. A \ {t} \subseteq B
  BY <1>0, WaitingAfter DEF PutsUnderWay
<1>4. waiting["prod_cv"] # <<>> => BUFF_SIZE - counter <= Cardinality(A)
  BY DEF NoLostSignal
<1>5. CASE /\ counter' = counter /\ waiting'["prod_cv"] = waiting["prod_cv"]
           /\ t \in A => t \in B
  <2>1. A \subseteq B
    BY <1>3, <1>5
  <2>2. Cardinality(A) <= Cardinality(B)
    BY <1>2, <2>1
  <2> QED  BY <1>0, <1>2, <1>4, <1>5, <2>2
<1>6. CASE put_lock(t) \/ put_wake(t)
  <2>1. /\ counter' = counter /\ waiting' = waiting /\ ~Waiting(t) /\ pc'[t] = "put_test"
    BY <1>0, <1>6 DEF put_lock, put_wake, Lock, Goto, M!lock_acquire, bvars, Waiting,
       M!Waits
  <2>2. ~Waiting(t)'
    BY <2>1, WaitingAfter
  <2>3. t \in B
    BY <2>1, <2>2 DEF PutsUnderWay, PutLabels
  <2> QED  BY <1>5, <2>1, <2>3
<1>7. CASE Call(t) \/ Unlock(t) \/ get_lock(t) \/ get_wake(t) \/ get_read(t)
  <2>1. /\ counter' = counter /\ waiting' = waiting
        /\ pc[t] \in {"idle", "unlock", "get_lock", "get_wake", "get_read"}
    BY <1>7 DEF Call, Unlock, get_lock, get_wake, get_read, put_char_to_buff,
       get_char_from_buff, Lock, M!lock_acquire, M!lock_release, bvars, mvars
  <2>2. t \notin A
    BY <2>1 DEF PutsUnderWay, PutLabels, GetLabels
  <2> QED  BY <1>5, <2>1, <2>2
<1>8. CASE get_test(t)
  <2>1. /\ counter' = counter /\ waiting'["prod_cv"] = waiting["prod_cv"]
        /\ pc[t] = "get_test"
    BY <1>0, <1>8 DEF get_test, WaitWhile, M!cv_wait, bvars, mvars, CVs
  <2>2. t \notin A
    BY <2>1 DEF PutsUnderWay, PutLabels, GetLabels
  <2> QED  BY <1>5, <2>1, <2>2
<1>9. CASE put_signal(t)
  <2>1. /\ counter' = counter /\ waiting'["prod_cv"] = waiting["prod_cv"]
        /\ pc[t] = "put_signal"
    BY <1>0, <1>9 DEF put_signal, Signal, M!cv_signal, bvars, mvars, CVs
  <2>2. t \notin A
    BY <2>1 DEF PutsUnderWay, PutLabels, GetLabels
  <2> QED  BY <1>5, <2>1, <2>2
<1>10. CASE put_test(t)
  <2>1. CASE counter = BUFF_SIZE
    <3>1. counter' = counter
      BY <1>10 DEF put_test, WaitWhile, bvars
    <3> QED  BY <1>0, <1>2, <2>1, <3>1
  <2>2. CASE ~(counter = BUFF_SIZE)
    <3>1. /\ counter' = counter /\ waiting' = waiting /\ pc'[t] = "put_store"
          /\ pc[t] = "put_test"
      BY <1>0, <1>10, <2>2 DEF put_test, WaitWhile, Goto, bvars, mvars
    <3>2. Waiting(t)' <=> Waiting(t)
      BY <3>1, WaitingAfter
    <3>3. t \in A => t \in B
      BY <3>1, <3>2 DEF PutsUnderWay, PutLabels, GetLabels
    <3> QED  BY <1>5, <3>1, <3>3
  <2> QED  BY <2>1, <2>2
<1>11. CASE put_store(t)
  <2>1. /\ counter' = counter + 1 /\ waiting' = waiting
    BY <1>11 DEF put_store, mvars
  <2> QED  BY <1>0, <1>2, <1>3, <1>4, <2>1
<1>12. CASE get_advance(t)
  <2>1. /\ counter' = counter - 1 /\ waiting' = waiting
        /\ pc[t] = "get_advance" /\ pc'[t] = "get_signal"
    BY <1>0, <1>12 DEF get_advance, Goto, mvars
  <2>2. t \in B /\ t \notin A
    BY <2>1 DEF PutsUnderWay, PutLabels, GetLabels
  <2>3. A \subseteq B
    BY <1>3, <2>2
  <2> QED  BY <1>0, <1>2, <1>4, <2>1, <2>2, <2>3
<1>13. CASE get_signal(t)
  <2>1. /\ counter' = counter /\ pc[t] = "get_signal" /\ pc'[t] = "unlock"
        /\ IF waiting["prod_cv"] # <<>>
           THEN waiting' = [waiting EXCEPT !["prod_cv"] = Tail(@)]
           ELSE waiting' = waiting
    BY <1>0, <1>13 DEF get_signal, Signal, Goto, M!cv_signal, bvars, mvars
  <2>2. CASE waiting["prod_cv"] # <<>>
    <3>1. PICK h \in Threads : Waiting(h) /\ ~Waiting(h)' /\ pc[h] = WakeLabel("prod_cv")
      BY <2>1, <2>2, WaitingAfter DEF CVs
    <3>2. pc[h] = "put_wake" /\ h # t
      BY <2>1, <3>1 DEF WakeLabel
    <3>3. pc'[h] = "put_wake"
      BY <1>0, <3>2
    <3>4. h \in B /\ h \notin A
      BY <3>1, <3>2, <3>3 DEF PutsUnderWay, PutLabels, GetLabels
    <3>5. Cardinality(A) <= Cardinality(B)
      BY <1>2, <1>3, <3>4
    <3> QED  BY <1>0, <1>2, <1>4, <2>1, <2>2, <3>5
  <2>3. CASE waiting["prod_cv"] = <<>>
    BY <2>1, <2>3
  <2> QED  BY <2>2, <2>3
<1> HIDE DEF A, B
<1> QED  BY <1>6, <1>7, <1>8, <1>9, <1>10, <1>11, <1>12, <1>13 DEF Step

(* While consumers wait, every character has an operation under way.       *)
LEMMA GetCounts ==
    ASSUME IInv, QueueInv, NoLostSignal, NEW t \in Threads, Step(t) \/ Call(t)
    PROVE  waiting'["cons_cv"] # <<>> => counter' <= Cardinality(GetsUnderWay')
<1> USE SharedBufferAssumption
<1> DEFINE A == GetsUnderWay
           B == GetsUnderWay'
<1>0. /\ pc \in [Threads -> {"idle", "unlock"} \cup PutLabels \cup GetLabels]
      /\ waiting \in [CVs -> Seq(Threads)]
      /\ counter \in 0 .. BUFF_SIZE /\ BUFF_SIZE \in Nat
      /\ \A u \in Threads : u # t => pc'[u] = pc[u]
  BY DEF IInv, TypeOK, CVs, Step, Call, put_lock, put_wake, put_test, put_store, put_signal,
     get_lock, get_wake, get_test, get_read, get_advance, get_signal, Unlock, Lock,
     WaitWhile, Signal, Goto, put_char_to_buff, get_char_from_buff
<1>1. A \in SUBSET Threads /\ B \in SUBSET Threads
  BY DEF GetsUnderWay
<1>2. /\ Cardinality(A) \in Nat /\ Cardinality(B) \in Nat
      /\ A \subseteq B => Cardinality(A) <= Cardinality(B)
      /\ A \ {t} \subseteq B => Cardinality(A) <= Cardinality(B) + 1
      /\ A \subseteq B /\ t \in B \ A => Cardinality(A) + 1 <= Cardinality(B)
      /\ \A y : A \ {t} \subseteq B /\ y \in B \ A => Cardinality(A) <= Cardinality(B)
  <2> HIDE DEF A, B
  <2> QED  BY <1>1, SetCounts
<1>3. A \ {t} \subseteq B
  BY <1>0, WaitingAfter DEF GetsUnderWay
<1>4. waiting["cons_cv"] # <<>> => counter <= Cardinality(A)
  BY DEF NoLostSignal
<1>5. CASE /\ counter' = counter /\ waiting'["cons_cv"] = waiting["cons_cv"]
           /\ t \in A => t \in B
  <2>1. A \subseteq B
    BY <1>3, <1>5
  <2>2. Cardinality(A) <= Cardinality(B)
    BY <1>2, <2>1
  <2> QED  BY <1>0, <1>2, <1>4, <1>5, <2>2
<1>6. CASE get_lock(t) \/ get_wake(t)
  <2>1. /\ counter' = counter /\ waiting' = waiting /\ ~Waiting(t) /\ pc'[t] = "get_test"
    BY <1>0, <1>6 DEF get_lock, get_wake, Lock, Goto, M!lock_acquire, bvars, Waiting,
       M!Waits
  <2>2. ~Waiting(t)'
    BY <2>1, WaitingAfter
  <2>3. t \in B
    BY <2>1, <2>2 DEF GetsUnderWay, GetLabels
  <2> QED  BY <1>5, <2>1, <2>3
<1>7. CASE Call(t) \/ Unlock(t) \/ put_lock(t) \/ put_wake(t)
  <2>1. /\ counter' = counter /\ waiting' = waiting
        /\ pc[t] \in {"idle", "unlock", "put_lock", "put_wake"}
    BY <1>7 DEF Call, Unlock, put_lock, put_wake, put_char_to_buff,
       get_char_from_buff, Lock, M!lock_acquire, M!lock_release, bvars, mvars
  <2>2. t \notin A
    BY <2>1 DEF GetsUnderWay, PutLabels, GetLabels
  <2> QED  BY <1>5, <2>1, <2>2
<1>14. CASE get_read(t)
  <2>1. /\ counter' = counter /\ waiting' = waiting
        /\ pc[t] = "get_read" /\ pc'[t] = "get_advance"
    BY <1>0, <1>14 DEF get_read, Goto, bvars, mvars
  <2>2. Waiting(t)' <=> Waiting(t)
    BY <2>1, WaitingAfter
  <2>3. t \in A => t \in B
    BY <2>1, <2>2 DEF GetsUnderWay, PutLabels, GetLabels
  <2> QED  BY <1>5, <2>1, <2>3
<1>8. CASE put_test(t)
  <2>1. /\ counter' = counter /\ waiting'["cons_cv"] = waiting["cons_cv"]
        /\ pc[t] = "put_test"
    BY <1>0, <1>8 DEF put_test, WaitWhile, M!cv_wait, bvars, mvars, CVs
  <2>2. t \notin A
    BY <2>1 DEF GetsUnderWay, PutLabels, GetLabels
  <2> QED  BY <1>5, <2>1, <2>2
<1>9. CASE get_signal(t)
  <2>1. /\ counter' = counter /\ waiting'["cons_cv"] = waiting["cons_cv"]
        /\ pc[t] = "get_signal"
    BY <1>0, <1>9 DEF get_signal, Signal, M!cv_signal, bvars, mvars, CVs
  <2>2. t \notin A
    BY <2>1 DEF GetsUnderWay, PutLabels, GetLabels
  <2> QED  BY <1>5, <2>1, <2>2
<1>10. CASE get_test(t)
  <2>1. CASE counter = 0
    <3>1. counter' = counter
      BY <1>10 DEF get_test, WaitWhile, bvars
    <3> QED  BY <1>0, <1>2, <2>1, <3>1
  <2>2. CASE ~(counter = 0)
    <3>1. /\ counter' = counter /\ waiting' = waiting /\ pc'[t] = "get_read"
          /\ pc[t] = "get_test"
      BY <1>0, <1>10, <2>2 DEF get_test, WaitWhile, Goto, bvars, mvars
    <3>2. Waiting(t)' <=> Waiting(t)
      BY <3>1, WaitingAfter
    <3>3. t \in A => t \in B
      BY <3>1, <3>2 DEF GetsUnderWay, PutLabels, GetLabels
    <3> QED  BY <1>5, <3>1, <3>3
  <2> QED  BY <2>1, <2>2
<1>11. CASE get_advance(t)
  <2>1. /\ counter' = counter - 1 /\ waiting' = waiting
    BY <1>11 DEF get_advance, mvars
  <2> QED  BY <1>0, <1>2, <1>3, <1>4, <2>1
<1>12. CASE put_store(t)
  <2>1. /\ counter' = counter + 1 /\ waiting' = waiting
        /\ pc[t] = "put_store" /\ pc'[t] = "put_signal"
    BY <1>0, <1>12 DEF put_store, Goto, mvars
  <2>2. t \in B /\ t \notin A
    BY <2>1 DEF GetsUnderWay, PutLabels, GetLabels
  <2>3. A \subseteq B
    BY <1>3, <2>2
  <2> QED  BY <1>0, <1>2, <1>4, <2>1, <2>2, <2>3
<1>13. CASE put_signal(t)
  <2>1. /\ counter' = counter /\ pc[t] = "put_signal" /\ pc'[t] = "unlock"
        /\ IF waiting["cons_cv"] # <<>>
           THEN waiting' = [waiting EXCEPT !["cons_cv"] = Tail(@)]
           ELSE waiting' = waiting
    BY <1>0, <1>13 DEF put_signal, Signal, Goto, M!cv_signal, bvars, mvars
  <2>2. CASE waiting["cons_cv"] # <<>>
    <3>1. PICK h \in Threads : Waiting(h) /\ ~Waiting(h)' /\ pc[h] = WakeLabel("cons_cv")
      BY <2>1, <2>2, WaitingAfter DEF CVs
    <3>2. pc[h] = "get_wake" /\ h # t
      BY <2>1, <3>1 DEF WakeLabel
    <3>3. pc'[h] = "get_wake"
      BY <1>0, <3>2
    <3>4. h \in B /\ h \notin A
      BY <3>1, <3>2, <3>3 DEF GetsUnderWay, PutLabels, GetLabels
    <3>5. Cardinality(A) <= Cardinality(B)
      BY <1>2, <1>3, <3>4
    <3> QED  BY <1>0, <1>2, <1>4, <2>1, <2>2, <3>5
  <2>3. CASE waiting["cons_cv"] = <<>>
    BY <2>1, <2>3
  <2> QED  BY <2>2, <2>3
<1> HIDE DEF A, B
<1> QED  BY <1>6, <1>7, <1>8, <1>9, <1>10, <1>11, <1>12, <1>13, <1>14 DEF Step

(* The signals reach somebody as long as somebody waits.                   *)
LEMMA SignalInvariant == Spec => [](IInv /\ QueueInv /\ NoLostSignal)
<1>1. Init => QueueInv /\ NoLostSignal
  BY DEF Init, shared_buffer_create, M!Init, QueueInv, NoLostSignal, CVs
<1>2. IInv /\ QueueInv /\ NoLostSignal /\ [Next]_vars => QueueInv' /\ NoLostSignal'
  <2> SUFFICES ASSUME IInv, QueueInv, NoLostSignal, [Next]_vars
               PROVE  QueueInv' /\ NoLostSignal'
    OBVIOUS
  <2>1. CASE UNCHANGED vars
    BY <2>1 DEF vars, bvars, mvars, QueueInv, NoLostSignal, PutsUnderWay, GetsUnderWay,
       Waiting, M!Waits
  <2>2. ASSUME NEW t \in Threads, Step(t) \/ Call(t)
        PROVE  QueueInv' /\ NoLostSignal'
    BY <2>2, QueueStepInv, PutCounts, GetCounts DEF NoLostSignal
  <2> QED  BY <2>1, <2>2 DEF Next
<1> QED  BY <1>1, <1>2, InitInv, NextInv, PTL DEF Spec

(* One cv_signal per put and per get is enough for any number of threads   *)
(* and any size of the buffer: while producers wait there are at least as  *)
(* many operations under way as free places, and while consumers wait at   *)
(* least as many as characters, so no waiter is left behind.               *)
THEOREM SignalsSuffice == Spec => []NoLostSignal
  BY SignalInvariant, PTL
=============================================================================
