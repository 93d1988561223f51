---------------------------- MODULE SharedBuffer ----------------------------
(***************************************************************************)
(* The bounded buffer of kern/shared_buffer/shared_buffer.c: one lock, two *)
(* condition variables, a ring of BUFF_SIZE characters.  The lock and the  *)
(* condition variables are those of Monitor, which synch.c implements.     *)
(* The code may yield the processor inside the critical sections (the      *)
(* buff_testnum switches): the steps are cut there.                        *)
(***************************************************************************)
EXTENDS Integers, Sequences, FiniteSets

CONSTANTS Producers, Consumers,  \* threads that call put, and get, for ever
          Chars, BUFF_SIZE, NoThread, NoChar

Threads == Producers \cup Consumers

ASSUME SharedBufferAssumption ==
    /\ IsFiniteSet(Threads)
    /\ Producers \cap Consumers = {}
    /\ NoThread \notin Threads
    /\ NoChar \notin Chars
    /\ BUFF_SIZE \in Nat \ {0}

VARIABLES
    buffer, in, out, counter,   \* struct Shared_Buffer
    owner,                      \* Monitor: holder of buff_lock
    waiting,                    \* Monitor: queues of prod_cv and cons_cv
    pc, item,                   \* position; the character being put or read
    got                         \* the character the last get returned

mvars == <<owner, waiting>>
bvars == <<buffer, in, out, counter>>
vars == <<bvars, mvars, pc, item, got>>

M == INSTANCE Monitor WITH Locks <- {"buff_lock"}, CVs <- {"prod_cv", "cons_cv"},
                           Sems <- {}, count <- [s \in {} |-> 0]

shared_buffer_create ==
    /\ buffer = [i \in 0 .. BUFF_SIZE - 1 |-> NoChar]
    /\ in = 0 /\ out = 0 /\ counter = 0
    /\ M!Init

Init == /\ shared_buffer_create
        /\ pc = [t \in Threads |-> "idle"]
        /\ item = [t \in Threads |-> NoChar]
        /\ got = [t \in Threads |-> NoChar]

Goto(t, label) == pc' = [pc EXCEPT ![t] = label]

(* lock_acquire, from the call or from the end of cv_wait.                 *)
Lock(t, from, to) ==
    /\ pc[t] = from
    /\ M!lock_acquire(t, "buff_lock")
    /\ Goto(t, to)
    /\ UNCHANGED <<bvars, item, got>>

(* while (full) cv_wait(...): the thread comes back to the test holding    *)
(* the lock again.                                                         *)
WaitWhile(t, test, cv, back, next) ==
    /\ IF test THEN M!cv_wait(t, cv, "buff_lock") /\ Goto(t, back)
               ELSE UNCHANGED mvars /\ Goto(t, next)
    /\ UNCHANGED <<bvars, item, got>>

Signal(t, cv, to) ==
    /\ IF waiting[cv] # <<>> THEN M!cv_signal(t, cv, "buff_lock")
                             ELSE UNCHANGED mvars
    /\ Goto(t, to)
    /\ UNCHANGED <<bvars, item, got>>

Unlock(t) ==
    /\ pc[t] = "unlock"
    /\ M!lock_release(t, "buff_lock")
    /\ Goto(t, "idle")
    /\ item' = [item EXCEPT ![t] = NoChar]
    /\ UNCHANGED <<bvars, got>>

-----------------------------------------------------------------------------
put_char_to_buff(t, c) ==
    /\ pc[t] = "idle" /\ t \in Producers
    /\ item' = [item EXCEPT ![t] = c]
    /\ Goto(t, "put_lock")
    /\ UNCHANGED <<bvars, mvars, got>>

put_lock(t) == Lock(t, "put_lock", "put_test")

(* Broken variant: if instead of while around cv_wait.                     *)
put_wake_no_retest(t) == Lock(t, "put_wake", "put_store")

put_wake(t) == Lock(t, "put_wake", "put_test")

put_test(t) ==
    /\ pc[t] = "put_test"
    /\ WaitWhile(t, counter = BUFF_SIZE, "prod_cv", "put_wake", "put_store")

(* Broken variants: in does not wrap around; the place is counter.         *)
put_store_no_wrap(t) ==
    /\ pc[t] = "put_store"
    /\ buffer' = [buffer EXCEPT ![in] = item[t]]
    /\ in' = in + 1
    /\ counter' = counter + 1
    /\ Goto(t, "put_signal")
    /\ UNCHANGED <<out, mvars, item, got>>
put_store_at_counter(t) ==
    /\ pc[t] = "put_store"
    /\ buffer' = [buffer EXCEPT ![counter] = item[t]]
    /\ in' = (in + 1) % BUFF_SIZE
    /\ counter' = counter + 1
    /\ Goto(t, "put_signal")
    /\ UNCHANGED <<out, mvars, item, got>>

put_store(t) ==
    /\ pc[t] = "put_store"
    /\ buffer' = [buffer EXCEPT ![in] = item[t]]
    /\ in' = (in + 1) % BUFF_SIZE
    /\ counter' = counter + 1
    /\ Goto(t, "put_signal")
    /\ UNCHANGED <<out, mvars, item, got>>

(* Broken variant: signal only when the buffer was empty.                  *)
put_signal_if_first(t) ==
    /\ pc[t] = "put_signal"
    /\ IF counter = 1 THEN Signal(t, "cons_cv", "unlock")
       ELSE Goto(t, "unlock") /\ UNCHANGED <<bvars, mvars, item, got>>

put_signal(t) == pc[t] = "put_signal" /\ Signal(t, "cons_cv", "unlock")

-----------------------------------------------------------------------------
get_char_from_buff(t) ==
    /\ pc[t] = "idle" /\ t \in Consumers
    /\ Goto(t, "get_lock")
    /\ UNCHANGED <<bvars, mvars, item, got>>

get_lock(t) == Lock(t, "get_lock", "get_test")

get_wake(t) == Lock(t, "get_wake", "get_test")

get_test(t) ==
    /\ pc[t] = "get_test"
    /\ WaitWhile(t, counter = 0, "cons_cv", "get_wake", "get_read")

get_read(t) ==
    /\ pc[t] = "get_read"
    /\ item' = [item EXCEPT ![t] = buffer[out]]
    /\ Goto(t, "get_advance")
    /\ UNCHANGED <<bvars, mvars, got>>

(* Broken variant: counter is not decremented.                             *)
get_advance_no_count(t) ==
    /\ pc[t] = "get_advance"
    /\ out' = (out + 1) % BUFF_SIZE
    /\ got' = [got EXCEPT ![t] = item[t]]
    /\ Goto(t, "get_signal")
    /\ UNCHANGED <<buffer, in, counter, mvars, item>>

get_advance(t) ==
    /\ pc[t] = "get_advance"
    /\ out' = (out + 1) % BUFF_SIZE
    /\ counter' = counter - 1
    /\ got' = [got EXCEPT ![t] = item[t]]
    /\ Goto(t, "get_signal")
    /\ UNCHANGED <<buffer, in, mvars, item>>

(* Broken variant: no signal to the producers.                             *)
get_signal_none(t) ==
    /\ pc[t] = "get_signal"
    /\ Goto(t, "unlock")
    /\ UNCHANGED <<bvars, mvars, item, got>>

get_signal(t) == pc[t] = "get_signal" /\ Signal(t, "prod_cv", "unlock")

-----------------------------------------------------------------------------
Step(t) == \/ put_lock(t) \/ put_wake(t) \/ put_test(t) \/ put_store(t) \/ put_signal(t)
           \/ get_lock(t) \/ get_wake(t) \/ get_test(t) \/ get_read(t) \/ get_advance(t)
           \/ get_signal(t) \/ Unlock(t)

Call(t) == (\E c \in Chars : put_char_to_buff(t, c)) \/ get_char_from_buff(t)

Next == \E t \in Threads : Step(t) \/ Call(t)

Spec == Init /\ [][Next]_vars

(* A thread inside put or get that can run does run; a thread need not     *)
(* call again.                                                             *)
FairSpec == Spec /\ \A t \in Threads : WF_vars(Step(t))

-----------------------------------------------------------------------------
PutLabels == {"put_lock", "put_wake", "put_test", "put_store", "put_signal"}
GetLabels == {"get_lock", "get_wake", "get_test", "get_read", "get_advance", "get_signal"}

(* Types of the buffer and of the threads.                                 *)
TypeOK ==
    /\ buffer \in [0 .. BUFF_SIZE - 1 -> Chars \cup {NoChar}]
    /\ in \in 0 .. BUFF_SIZE - 1 /\ out \in 0 .. BUFF_SIZE - 1
    /\ counter \in 0 .. BUFF_SIZE
    /\ owner \in [{"buff_lock"} -> Threads \cup {NoThread}]
    /\ waiting \in [{"prod_cv", "cons_cv"} -> Seq(Threads)]
    /\ pc \in [Threads -> {"idle", "unlock"} \cup PutLabels \cup GetLabels]
    /\ item \in [Threads -> Chars \cup {NoChar}]
    /\ got \in [Threads -> Chars \cup {NoChar}]

(* in, out and counter, updated separately, always describe one ring: in   *)
(* is counter places after out.                                            *)
RingIndices == in = (out + counter) % BUFF_SIZE

(* A thread past the test of the while loop of put, or of get, still finds *)
(* what it tested: nobody takes the space, or the character, from it.      *)
RoomAfterTest == \A t \in Threads :
    /\ pc[t] = "put_store" => counter < BUFF_SIZE
    /\ pc[t] \in {"get_read", "get_advance"} => counter > 0

Waiting(t) == M!Waits(t)

(* Producers on their way to the test or past it, and consumers that have  *)
(* made room and are about to signal.                                      *)
PutsUnderWay == {t \in Threads : \/ pc[t] \in PutLabels \ {"put_signal"}
                                    /\ ~Waiting(t)
                                 \/ pc[t] = "get_signal"}
GetsUnderWay == {t \in Threads : \/ pc[t] \in GetLabels \ {"get_signal"}
                                    /\ ~Waiting(t)
                                 \/ pc[t] = "put_signal"}

(* One cv_signal per operation is enough: while producers wait there are   *)
(* as many operations under way as there are free places, and while        *)
(* consumers wait as many as there are characters.                         *)
NoLostSignal ==
    /\ waiting["prod_cv"] # <<>> => BUFF_SIZE - counter <= Cardinality(PutsUnderWay)
    /\ waiting["cons_cv"] # <<>> => counter <= Cardinality(GetsUnderWay)

(* The contents of the ring, oldest first.                                 *)
queue == [i \in 1 .. counter |-> buffer[(out + i - 1) % BUFF_SIZE]]

F == INSTANCE BoundedFifo

(* The ring with its lock and two condition variables is a bounded FIFO.   *)
ImplementsFifo == F!Spec

(* A waiting consumer and a character, or a waiting producer and a free    *)
(* place, do not stay together for ever.                                   *)
BufferProgress ==
    /\ (waiting["cons_cv"] # <<>> /\ counter > 0)
          ~> (waiting["cons_cv"] = <<>> \/ counter = 0)
    /\ (waiting["prod_cv"] # <<>> /\ counter < BUFF_SIZE)
          ~> (waiting["prod_cv"] = <<>> \/ counter = BUFF_SIZE)
=============================================================================
