---------------------------- MODULE MCLinkedList ----------------------------
(* LinkedList for TLC: the least int.                                      *)
EXTENDS LinkedList

MCKeyMin == -3
=============================================================================
