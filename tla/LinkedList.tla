----------------------------- MODULE LinkedList -----------------------------
(***************************************************************************)
(* The concurrent linked lists of the two trees                            *)
(* (kern/concurrent_list/linked_list.c).  tree says which of the two is    *)
(* running: "dvz" or "vud".  Every operation holds the list's lock and may *)
(* yield inside, at the places the tests choose; the steps are cut there:  *)
(* begin (up to the first of them), middle, end.  A node is a number; a    *)
(* freed number may be given out again, as kmalloc does; what a freed node *)
(* holds is not kept.                                                      *)
(***************************************************************************)
EXTENDS Integers, Sequences, FiniteSets

CONSTANTS Threads, NoThread,
          MaxNodes,        \* bound on the nodes in the list
          Keys, KeyMin,    \* keys inserted; keys stay above KeyMin, the int
                           \* below which prepend's key - 1 would wrap
          Trees

ASSUME LinkedListAssumption ==
    /\ NoThread \notin Threads
    /\ MaxNodes \in Nat \ {0}
    /\ Keys \subseteq Int /\ KeyMin \in Int
    /\ \A k \in Keys \cup {0} : k > KeyMin
    /\ Trees \subseteq {"dvz", "vud"}

NULL == 0
Nodes == 1 .. MaxNodes

VARIABLES tree,
          live,               \* the allocated nodes
          key, next, prev,    \* struct Linked_List_Node
          first, last, length, lock,   \* struct Linked_List
          pc, op, runner, new \* of each thread: where it is, its call
                              \* (operation and key), its pointers

list == <<first, last, length>>
heap == <<live, key, next, prev>>
vars == <<tree, heap, list, lock, pc, op, runner, new>>

NoOp == [name |-> "none", key |-> 0]

(* linked_list_create                                                      *)
Init == /\ tree \in Trees
        /\ live = {}
        /\ key = [n \in Nodes |-> 0]
        /\ next = [n \in Nodes |-> NULL]
        /\ prev = [n \in Nodes |-> NULL]
        /\ first = NULL /\ last = NULL /\ length = 0
        /\ lock = NoThread
        /\ pc = [t \in Threads |-> "idle"]
        /\ op = [t \in Threads |-> NoOp]
        /\ runner = [t \in Threads |-> NULL]
        /\ new = [t \in Threads |-> NULL]

-----------------------------------------------------------------------------
(* Walk[i] is the node i places behind the first one.                      *)
Walk[i \in 0 .. MaxNodes] ==
    IF i = 0 THEN first ELSE IF Walk[i - 1] = NULL THEN NULL ELSE next[Walk[i - 1]]

FirstNode(P(_)) == LET I == {i \in 0 .. MaxNodes : Walk[i] # NULL /\ P(Walk[i])}
                   IN IF I = {} THEN NULL
                      ELSE Walk[CHOOSE i \in I : \A j \in I : i <= j]

Fresh == CHOOSE n \in Nodes \ live : \A m \in Nodes \ live : n <= m

(* linked_list_create_node                                                 *)
Create(n, k) == /\ live' = live \cup {n}
                /\ key' = [key EXCEPT ![n] = k]

(* kfree                                                                   *)
Freed(n, f) == [f EXCEPT ![n] = 0]
Free(n) == /\ live' = live \ {n}
           /\ key' = Freed(n, key)
           /\ next' = Freed(n, next)

Goto(t, label) == pc' = [pc EXCEPT ![t] = label]

(* lock_acquire, and the pointer the operation starts from.                *)
begin(t, name, k, ptr) ==
    /\ pc[t] = "idle" /\ lock = NoThread
    /\ lock' = t
    /\ op' = [op EXCEPT ![t] = [name |-> name, key |-> k]]
    /\ runner' = [runner EXCEPT ![t] = ptr]
    /\ Goto(t, "middle")
    /\ UNCHANGED <<tree, heap, list, new>>

(* lock_release and return.                                                *)
Return(t) == /\ lock' = NoThread
             /\ Goto(t, "idle")
             /\ op' = [op EXCEPT ![t] = NoOp]
             /\ runner' = [runner EXCEPT ![t] = NULL]
             /\ new' = [new EXCEPT ![t] = NULL]

-----------------------------------------------------------------------------
(* linked_list_prepend, the same in both trees but for the yields.         *)

(* Bounds: room for a node, and a key that does not wrap.                  *)
linked_list_prepend(t) ==
    /\ live # Nodes /\ (first # NULL => key[first] - 1 > KeyMin)
    /\ begin(t, "prepend", 0, first)

prepend_empty(t) ==
    /\ pc[t] = "middle" /\ op[t].name = "prepend" /\ first = NULL
    /\ Create(Fresh, 0)
    /\ next' = [next EXCEPT ![Fresh] = NULL]
    /\ prev' = [prev EXCEPT ![Fresh] = NULL]
    /\ first' = Fresh /\ last' = Fresh /\ length' = length + 1
    /\ Return(t)
    /\ UNCHANGED tree

(* Broken variant: the lock is released where the code may yield.          *)
prepend_node_unlocks(t) ==
    /\ pc[t] = "middle" /\ op[t].name = "prepend" /\ first # NULL
    /\ Create(Fresh, key[runner[t]] - 1)
    /\ next' = [next EXCEPT ![Fresh] = first]
    /\ prev' = [prev EXCEPT ![Fresh] = NULL]
    /\ new' = [new EXCEPT ![t] = Fresh]
    /\ lock' = NoThread
    /\ Goto(t, "end")
    /\ UNCHANGED <<tree, list, op, runner>>

prepend_node(t) ==
    /\ pc[t] = "middle" /\ op[t].name = "prepend" /\ first # NULL
    /\ Create(Fresh, key[runner[t]] - 1)
    /\ next' = [next EXCEPT ![Fresh] = first]
    /\ prev' = [prev EXCEPT ![Fresh] = NULL]
    /\ new' = [new EXCEPT ![t] = Fresh]
    /\ Goto(t, "end")
    /\ UNCHANGED <<tree, list, lock, op, runner>>

prepend_link(t) ==
    /\ pc[t] = "end" /\ op[t].name = "prepend"
    /\ prev' = [prev EXCEPT ![runner[t]] = new[t]]
    /\ first' = new[t] /\ length' = length + 1
    /\ Return(t)
    /\ UNCHANGED <<tree, live, key, next, last>>

-----------------------------------------------------------------------------
(* linked_list_insert of os161-dvz-main.                                   *)

dvz_insert(t, k) ==
    /\ tree = "dvz" /\ live # Nodes
    /\ begin(t, "insert", k, first)

dvz_insert_empty(t) ==
    /\ pc[t] = "middle" /\ tree = "dvz" /\ op[t].name = "insert" /\ runner[t] = NULL
    /\ Create(Fresh, op[t].key)
    /\ next' = [next EXCEPT ![Fresh] = NULL]
    /\ prev' = [prev EXCEPT ![Fresh] = NULL]
    /\ first' = Fresh /\ last' = Fresh /\ length' = length + 1
    /\ Return(t)
    /\ UNCHANGED tree

(* Not above the first key: linked before the first node; the list is told *)
(* after a yield.                                                          *)
dvz_insert_front(t) ==
    /\ pc[t] = "middle" /\ tree = "dvz" /\ op[t].name = "insert" /\ runner[t] # NULL
    /\ op[t].key <= key[runner[t]]
    /\ Create(Fresh, op[t].key)
    /\ next' = [next EXCEPT ![Fresh] = runner[t]]
    /\ prev' = [prev EXCEPT ![Fresh] = NULL, ![runner[t]] = Fresh]
    /\ new' = [new EXCEPT ![t] = Fresh]
    /\ Goto(t, "end")
    /\ UNCHANGED <<tree, list, lock, op, runner>>

dvz_insert_first(t) ==
    /\ pc[t] = "end" /\ tree = "dvz" /\ op[t].name = "insert"
    /\ first' = new[t] /\ length' = length + 1
    /\ Return(t)
    /\ UNCHANGED <<tree, heap, last>>

(* Broken variant: last is forgotten.                                      *)
dvz_insert_behind_keeps_last(t) ==
    /\ pc[t] = "middle" /\ tree = "dvz" /\ op[t].name = "insert" /\ runner[t] # NULL
    /\ op[t].key > key[runner[t]]
    /\ LET f == FirstNode(LAMBDA n : next[n] = NULL \/ key[next[n]] > op[t].key) IN
       /\ Create(Fresh, op[t].key)
       /\ next' = [next EXCEPT ![Fresh] = next[f], ![f] = Fresh]
       /\ prev' = [prev EXCEPT ![Fresh] = f]
       /\ last' = last
    /\ length' = length + 1
    /\ Return(t)
    /\ UNCHANGED <<tree, first>>

(* Otherwise behind the last node with a key that is not above the new     *)
(* one; the prev of the node that follows is not set.                      *)
dvz_insert_behind(t) ==
    /\ pc[t] = "middle" /\ tree = "dvz" /\ op[t].name = "insert" /\ runner[t] # NULL
    /\ op[t].key > key[runner[t]]
    /\ LET f == FirstNode(LAMBDA n : next[n] = NULL \/ key[next[n]] > op[t].key) IN
       /\ Create(Fresh, op[t].key)
       /\ next' = [next EXCEPT ![Fresh] = next[f], ![f] = Fresh]
       /\ prev' = [prev EXCEPT ![Fresh] = f]
       /\ last' = IF next[f] = NULL THEN Fresh ELSE last
    /\ length' = length + 1
    /\ Return(t)
    /\ UNCHANGED <<tree, first>>

-----------------------------------------------------------------------------
(* linked_list_insert of os161-vud-proj1-proj2: before the first node with *)
(* a key that is not below the new one, found before the yield.            *)

vud_insert(t, k) ==
    /\ tree = "vud" /\ live # Nodes
    /\ begin(t, "insert", k, FirstNode(LAMBDA n : key[n] >= k))

vud_insert_last(t) ==
    /\ pc[t] = "middle" /\ tree = "vud" /\ op[t].name = "insert" /\ runner[t] = NULL
    /\ Create(Fresh, op[t].key)
    /\ prev' = [prev EXCEPT ![Fresh] = last]
    /\ next' = IF last # NULL THEN [next EXCEPT ![Fresh] = NULL, ![last] = Fresh]
               ELSE [next EXCEPT ![Fresh] = NULL]
    /\ first' = IF last # NULL THEN first ELSE Fresh
    /\ last' = Fresh /\ length' = length + 1
    /\ Return(t)
    /\ UNCHANGED tree

vud_insert_before(t) ==
    /\ pc[t] = "middle" /\ tree = "vud" /\ op[t].name = "insert" /\ runner[t] # NULL
    /\ LET r == runner[t] IN
       /\ Create(Fresh, op[t].key)
       /\ prev' = [prev EXCEPT ![Fresh] = prev[r], ![r] = Fresh]
       /\ next' = IF prev[r] # NULL THEN [next EXCEPT ![Fresh] = r, ![prev[r]] = Fresh]
                  ELSE [next EXCEPT ![Fresh] = r]
       /\ first' = IF prev[r] # NULL THEN first ELSE Fresh
    /\ length' = length + 1
    /\ Return(t)
    /\ UNCHANGED <<tree, last>>

-----------------------------------------------------------------------------
(* linked_list_remove_head.                                                *)

linked_list_remove_head(t) == begin(t, "remove", 0, first)

remove_nothing(t) ==
    /\ pc[t] = "middle" /\ op[t].name = "remove" /\ runner[t] = NULL
    /\ Return(t)
    /\ UNCHANGED <<tree, heap, list>>

dvz_remove(t) ==
    /\ pc[t] = "middle" /\ tree = "dvz" /\ op[t].name = "remove" /\ runner[t] # NULL
    /\ LET n == next[runner[t]] IN
       /\ first' = n
       /\ prev' = Freed(runner[t], IF n # NULL THEN [prev EXCEPT ![n] = NULL] ELSE prev)
       /\ last' = IF n = NULL THEN NULL ELSE last
    /\ Free(runner[t])
    /\ length' = length - 1
    /\ Return(t)
    /\ UNCHANGED tree

vud_remove_last(t) ==
    /\ pc[t] = "middle" /\ tree = "vud" /\ op[t].name = "remove" /\ runner[t] # NULL
    /\ IF runner[t] = last THEN last' = NULL /\ UNCHANGED prev
       ELSE prev' = [prev EXCEPT ![next[runner[t]]] = NULL] /\ UNCHANGED last
    /\ Goto(t, "end")
    /\ UNCHANGED <<tree, live, key, next, first, length, lock, op, runner, new>>

vud_remove_first(t) ==
    /\ pc[t] = "end" /\ tree = "vud" /\ op[t].name = "remove"
    /\ first' = next[runner[t]]
    /\ Free(runner[t])
    /\ prev' = Freed(runner[t], prev)
    /\ length' = length - 1
    /\ Return(t)
    /\ UNCHANGED <<tree, last>>

-----------------------------------------------------------------------------
Call(t) == \/ linked_list_prepend(t) \/ linked_list_remove_head(t)
           \/ \E k \in Keys : dvz_insert(t, k) \/ vud_insert(t, k)

Step(t) ==
    \/ prepend_empty(t) \/ prepend_node(t) \/ prepend_link(t)
    \/ dvz_insert_empty(t) \/ dvz_insert_front(t) \/ dvz_insert_first(t) \/ dvz_insert_behind(t)
    \/ vud_insert_last(t) \/ vud_insert_before(t)
    \/ remove_nothing(t) \/ dvz_remove(t) \/ vud_remove_last(t) \/ vud_remove_first(t)

Next == \E t \in Threads : Call(t) \/ Step(t)

Spec == Init /\ [][Next]_vars

-----------------------------------------------------------------------------
Ptr == Nodes \cup {NULL}

(* Types of the list, the nodes and the threads.                           *)
TypeOK ==
    /\ tree \in Trees
    /\ live \subseteq Nodes
    /\ key \in [Nodes -> Int] /\ next \in [Nodes -> Ptr] /\ prev \in [Nodes -> Ptr]
    /\ first \in Ptr /\ last \in Ptr /\ length \in 0 .. MaxNodes
    /\ lock \in Threads \cup {NoThread}
    /\ pc \in [Threads -> {"idle", "middle", "end"}]
    /\ op \in [Threads -> [name : {"none", "prepend", "insert", "remove"}, key : Keys \cup {0}]]
    /\ runner \in [Threads -> Ptr] /\ new \in [Threads -> Ptr]

(* The chain from first: the nodes that have someone behind them.          *)
ChainLen == Cardinality({i \in 0 .. MaxNodes : Walk[i] # NULL})
Chain == [i \in 1 .. ChainLen |-> Walk[i - 1]]

(* Between operations the list is whole: the chain from first is made of   *)
(* all allocated nodes, each once, it ends at last, length counts it, and  *)
(* its head has no prev.  In the vud tree, whose insert goes by prev, that *)
(* of every other node is the node before it.  In the dvz tree, which only *)
(* sets prev, it may be any node there was: the insert behind a node does  *)
(* not set it in the node that follows.  The types hold at any time.       *)
ListSound == TypeOK /\ (lock = NoThread =>
    /\ length = ChainLen /\ length = Cardinality(live)
    /\ live = {Chain[i] : i \in DOMAIN Chain}
    /\ last = IF length = 0 THEN NULL ELSE Chain[length]
    /\ first # NULL => prev[first] = NULL
    /\ tree = "vud" => \A i \in 1 .. length - 1 : prev[Chain[i + 1]] = Chain[i])

S == INSTANCE SortedList WITH
        items <- [i \in 1 .. ChainLen |-> [node |-> Chain[i], key |-> key[Chain[i]]]]

(* Both lists, yields inside their critical sections included, do what     *)
(* linked_list.h says of a list sorted by key.                             *)
ImplementsSortedList == S!Spec
=============================================================================
