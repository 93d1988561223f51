---------------------------- MODULE BoundedFifo ----------------------------
(***************************************************************************)
(* What shared_buffer.h promises: characters come out in the order they    *)
(* went in, each one once; a put needs space and a get needs a character.  *)
(***************************************************************************)
EXTENDS Integers, Sequences

CONSTANTS Threads, Chars, BUFF_SIZE, NoChar

VARIABLES queue,  \* the characters in the buffer
          got     \* the character each thread received last

vars == <<queue, got>>

Init == queue = <<>> /\ got = [t \in Threads |-> NoChar]

put(c) == /\ Len(queue) < BUFF_SIZE
          /\ queue' = Append(queue, c)
          /\ UNCHANGED got

get(t) == /\ queue # <<>>
          /\ queue' = Tail(queue)
          /\ got' = [got EXCEPT ![t] = Head(queue)]

Next == (\E c \in Chars : put(c)) \/ (\E t \in Threads : get(t))

Spec == Init /\ [][Next]_vars
=============================================================================
