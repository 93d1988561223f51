---------------------------- MODULE Descriptors ----------------------------
(***************************************************************************)
(* What the manual pages promise of file descriptors: each process has a   *)
(* table from descriptors to open files; an open file has one position,    *)
(* which all descriptors made by dup2 and fork share and which every read, *)
(* write or lseek moves in one step.                                       *)
(***************************************************************************)
EXTENDS Integers

CONSTANTS Procs, Fds, Closed

VARIABLES running,   \* the processes that have descriptors
          table,     \* descriptors of each process
          position   \* of each open file

vars == <<running, table, position>>

Empty == [fd \in Fds |-> Closed]

Open(p, fd, d) ==
    /\ p \in running
    /\ table[p][fd] = Closed
    /\ \A q \in Procs, x \in Fds : table[q][x] # d
    /\ table' = [table EXCEPT ![p][fd] = d]
    /\ UNCHANGED <<running, position>>

Close(p, fd) ==
    /\ table[p][fd] # Closed
    /\ table' = [table EXCEPT ![p][fd] = Closed]
    /\ UNCHANGED <<running, position>>

Dup2(p, oldfd, newfd) ==
    /\ table[p][oldfd] # Closed /\ table[p][newfd] = Closed
    /\ table' = [table EXCEPT ![p][newfd] = table[p][oldfd]]
    /\ UNCHANGED <<running, position>>

Fork(p, q) ==
    /\ p \in running /\ q \notin running
    /\ running' = running \cup {q}
    /\ table' = [table EXCEPT ![q] = table[p]]
    /\ UNCHANGED position

Exit(p) ==
    /\ running' = running \ {p}
    /\ table' = [table EXCEPT ![p] = Empty]
    /\ UNCHANGED position

(* Read or write n characters at the position.                             *)
Transfer(p, fd, n) ==
    /\ table[p][fd] # Closed
    /\ position' = [position EXCEPT ![table[p][fd]] = @ + n]
    /\ UNCHANGED <<running, table>>

(* A new position that is counted from the start or the end, or from the   *)
(* old position: any one.                                                  *)
Seek(p, fd, x) ==
    /\ table[p][fd] # Closed
    /\ position' = [position EXCEPT ![table[p][fd]] = x]
    /\ UNCHANGED <<running, table>>
=============================================================================
