----------------------------- MODULE ListProofs -----------------------------
(***************************************************************************)
(* Theorems about LinkedList, for any number of threads, nodes and keys:   *)
(* the list is whole between operations, and implements SortedList.        *)
(***************************************************************************)
EXTENDS LinkedList, FiniteSetTheorems, SequenceTheorems, WellFoundedInduction, TLAPS

(* A new node is not yet in the list, a node is about to leave it.         *)
Linking == lock # NoThread /\ pc[lock] = "end" /\ op[lock].name # "remove"
Unlinking == lock # NoThread /\ pc[lock] = "end" /\ op[lock].name = "remove"

(* c is the chain from first, in the order of the keys.                    *)
IsChain(c) ==
    /\ c \in [1 .. length -> Nodes]
    /\ \A i, j \in 1 .. length : c[i] = c[j] => i = j
    /\ first = IF length = 0 THEN NULL ELSE c[1]
    /\ \A i \in 1 .. length : next[c[i]] = IF i = length THEN NULL ELSE c[i + 1]
    /\ \A i, j \in 1 .. length : i < j => key[c[i]] <= key[c[j]]

(* The rest of the list, for a chain c: the nodes of c are allocated, and  *)
(* no other but one that is being linked; last and prev are right but for  *)
(* what the operation in progress has yet to do.                           *)
Members(c) == {c[i] : i \in 1 .. length}
HeapOf(c) ==
    /\ live = IF Linking THEN Members(c) \cup {new[lock]} ELSE Members(c)
    /\ Cardinality(live) = IF Linking THEN length + 1 ELSE length
    /\ last = IF length = 0 \/ (Unlinking /\ length = 1) THEN NULL ELSE c[length]
    /\ ~Linking /\ first # NULL => prev[first] = NULL
    /\ Unlinking /\ length > 1 => prev[c[2]] = NULL
    /\ tree = "vud" => \A i \in 1 .. length - 1 :
                          (Unlinking /\ i = 1) \/ prev[c[i + 1]] = c[i]

(* The operation in progress.                                              *)
WorkOf(c) == lock # NoThread =>
    /\ op[lock].name # "none"
    /\ pc[lock] = "middle" /\ op[lock].name # "remove" => live # Nodes
    /\ pc[lock] = "end" => /\ first # NULL
                           /\ op[lock].name = "insert" => tree = "dvz"
                           /\ op[lock].name = "remove" => tree = "vud"
    /\ op[lock].name # "insert" \/ tree = "dvz" => runner[lock] = first
    /\ op[lock].name = "insert" => op[lock].key \in Keys
    /\ op[lock].name = "insert" /\ tree = "vud" =>
          \E j \in 1 .. length + 1 :
             /\ runner[lock] = IF j > length THEN NULL ELSE c[j]
             /\ \A i \in 1 .. length : i < j <=> key[c[i]] < op[lock].key
    /\ Linking => /\ new[lock] \notin Members(c) /\ new[lock] \in Nodes
                  /\ next[new[lock]] = first /\ prev[new[lock]] = NULL
                  /\ key[new[lock]] <= key[first]
                  /\ key[new[lock]] = IF op[lock].name = "prepend" THEN key[first] - 1
                                      ELSE op[lock].key

LockInv == \A t \in Threads : lock = t <=> pc[t] # "idle"

ListInv == TypeOK /\ LockInv /\ \E c : IsChain(c) /\ HeapOf(c) /\ WorkOf(c)
-----------------------------------------------------------------------------
(* A set of naturals that is not empty has a least member.                 *)
LEMMA LeastNat ==
    ASSUME NEW A \in SUBSET Nat, A # {}
    PROVE  \E n \in A : \A m \in A : n <= m
<1>1. PICK n \in A : \A m \in A : ~ (<<m, n>> \in OpToRel(<, Nat))
  BY NatLessThanWellFounded, WFMin
<1>2. \A m \in A : ~ (m < n)
  BY <1>1 DEF OpToRel
<1> QED  BY <1>2

(* Walk follows the chain, and ends with it.                               *)
Follows(c) == /\ Walk \in [0 .. MaxNodes -> Ptr]
              /\ \A i \in 0 .. MaxNodes : Walk[i] = IF i < length THEN c[i + 1] ELSE NULL

(* This holds of every chain: Walk is the one function with its equations. *)
LEMMA WalkIs == \A c : TypeOK /\ IsChain(c) => Follows(c)
<1> SUFFICES ASSUME NEW c, TypeOK, IsChain(c) PROVE Follows(c)
  OBVIOUS
<1> DEFINE g == [i \in 0 .. MaxNodes |-> IF i < length THEN c[i + 1] ELSE NULL]
<1>1. /\ MaxNodes \in Nat /\ length \in 0 .. MaxNodes /\ NULL = 0 /\ Nodes = 1 .. MaxNodes
      /\ c \in [1 .. length -> Nodes] /\ first = IF length = 0 THEN NULL ELSE c[1]
      /\ \A i \in 1 .. length : next[c[i]] = IF i = length THEN NULL ELSE c[i + 1]
  BY LinkedListAssumption DEF TypeOK, IsChain, NULL, Nodes
<1>2. /\ g \in [0 .. MaxNodes -> Ptr]
      /\ \A i \in 0 .. MaxNodes : g[i] = IF i < length THEN c[i + 1] ELSE NULL
  BY <1>1 DEF Ptr
<1> HIDE DEF g
<1>3. \A i \in 0 .. MaxNodes :
         g[i] = IF i = 0 THEN first ELSE IF g[i - 1] = NULL THEN NULL ELSE next[g[i - 1]]
  BY <1>1, <1>2
<1>4. g = [i \in 0 .. MaxNodes |->
             IF i = 0 THEN first ELSE IF g[i - 1] = NULL THEN NULL ELSE next[g[i - 1]]]
  BY <1>2, <1>3
<1>5. Walk = [i \in 0 .. MaxNodes |->
                IF i = 0 THEN first ELSE IF Walk[i - 1] = NULL THEN NULL ELSE next[Walk[i - 1]]]
  BY <1>4 DEF Walk
<1>6. \A i \in 0 .. MaxNodes : Walk[i] = g[i]
  <2> DEFINE B == {i \in 0 .. MaxNodes : Walk[i] # g[i]}
  <2> SUFFICES ASSUME B # {} PROVE FALSE
    OBVIOUS
  <2>1. PICK m \in B : \A k \in B : m <= k
    <3>1. B \in SUBSET Nat
      BY <1>1
    <3> HIDE DEF B
    <3> QED  BY <3>1, LeastNat
  <2>2. m \in 0 .. MaxNodes /\ Walk[m] # g[m]
    OBVIOUS
  <2>3. m # 0 => m - 1 \in 0 .. MaxNodes /\ m - 1 \notin B
    BY <1>1, <2>1, <2>2
  <2>4. m # 0 => Walk[m - 1] = g[m - 1]
    BY <2>3
  <2> HIDE DEF B
  <2>5. Walk[m] = IF m = 0 THEN first
                  ELSE IF Walk[m - 1] = NULL THEN NULL ELSE next[Walk[m - 1]]
    BY <1>5, <2>2
  <2> QED  BY <1>3, <2>2, <2>4, <2>5
<1>7. DOMAIN Walk = 0 .. MaxNodes /\ Walk = [i \in DOMAIN Walk |-> Walk[i]]
  BY <1>5
<1> QED  BY <1>2, <1>6, <1>7 DEF Follows

(* The chain that ListSound and SortedList speak of.                       *)
ChainIs(c) == ChainLen = length /\ Chain = c

(* It is the chain of the invariant.                                       *)
LEMMA ChainOf == \A c : TypeOK /\ IsChain(c) => ChainIs(c)
<1> SUFFICES ASSUME NEW c, TypeOK, IsChain(c) PROVE ChainIs(c)
  OBVIOUS
<1>1. /\ MaxNodes \in Nat /\ length \in 0 .. MaxNodes /\ NULL = 0 /\ Nodes = 1 .. MaxNodes
      /\ c \in [1 .. length -> Nodes]
  BY LinkedListAssumption DEF TypeOK, IsChain, NULL, Nodes
<1>2. \A i \in 0 .. MaxNodes : Walk[i] = IF i < length THEN c[i + 1] ELSE NULL
  BY WalkIs DEF Follows
<1>3. {i \in 0 .. MaxNodes : Walk[i] # NULL} = 0 .. length - 1
  BY <1>1, <1>2
<1>4. Cardinality(0 .. length - 1) = length
  <2>1. length - 1 \in Int /\ 0 \in Int
    BY <1>1
  <2> HIDE DEF ChainLen
  <2>2. Cardinality(0 .. length - 1) = IF 0 > length - 1 THEN 0 ELSE length - 1 - 0 + 1
    BY <2>1, FS_Interval
  <2> QED  BY <1>1, <2>2
<1>5. ChainLen = length
  BY <1>3, <1>4 DEF ChainLen
<1>6. \A i \in 1 .. length : Walk[i - 1] = c[i]
  <2>1. ASSUME NEW i \in 1 .. length PROVE Walk[i - 1] = c[i]
    <3>1. i - 1 \in 0 .. MaxNodes /\ i - 1 < length /\ (i - 1) + 1 = i
      BY <1>1
    <3> QED  BY <1>2, <3>1
  <2> QED  BY <2>1
<1>7. Chain = [i \in 1 .. length |-> c[i]]
  BY <1>5, <1>6 DEF Chain
<1>8. c = [i \in 1 .. length |-> c[i]]
  BY <1>1
<1> QED  BY <1>5, <1>7, <1>8 DEF ChainIs

(* The same after a step.                                                  *)
LEMMA ChainNext == (\A c : TypeOK /\ IsChain(c) => ChainIs(c))'
  BY ChainOf, PTL

(* The invariant is what ListSound says of a list that nobody works on.    *)
LEMMA InvSound == ListInv => ListSound
<1> SUFFICES ASSUME ListInv PROVE ListSound
  OBVIOUS
<1>1. PICK c : IsChain(c) /\ HeapOf(c) /\ WorkOf(c)
  BY DEF ListInv
<1>2. TypeOK /\ length \in Nat
  BY LinkedListAssumption DEF ListInv, TypeOK
<1>3. ChainLen = length /\ Chain = c /\ DOMAIN c = 1 .. length
  BY <1>1, <1>2, ChainOf DEF ChainIs, IsChain
<1> SUFFICES ASSUME lock = NoThread
             PROVE  /\ length = ChainLen /\ length = Cardinality(live)
                    /\ live = {Chain[i] : i \in DOMAIN Chain}
                    /\ last = IF length = 0 THEN NULL ELSE Chain[length]
                    /\ first # NULL => prev[first] = NULL
                    /\ tree = "vud" => \A i \in 1 .. length - 1 : prev[Chain[i + 1]] = Chain[i]
  BY <1>2 DEF ListSound
<1>4. ~Linking /\ ~Unlinking
  BY DEF Linking, Unlinking
<1> QED  BY <1>1, <1>2, <1>3, <1>4 DEF HeapOf, Members

(* Where the insert of the vud tree puts its key.                          *)
PlaceOf(k) == FirstNode(LAMBDA n : key[n] >= k)

(* It is the place at which all keys before are below the new one.         *)
LEMMA FirstAbove ==
    ASSUME TypeOK, NEW c, IsChain(c), NEW k \in Int
    PROVE  \E j \in 1 .. length + 1 :
              /\ PlaceOf(k) = IF j > length THEN NULL ELSE c[j]
              /\ \A i \in 1 .. length : i < j <=> key[c[i]] < k
<1> DEFINE I == {i \in 0 .. MaxNodes : Walk[i] # NULL /\ key[Walk[i]] >= k}
<1>1. PlaceOf(k) =
         IF I = {} THEN NULL ELSE Walk[CHOOSE i \in I : \A j \in I : i <= j]
  BY DEF FirstNode, PlaceOf
<1>2. /\ MaxNodes \in Nat /\ length \in 0 .. MaxNodes /\ NULL = 0 /\ Nodes = 1 .. MaxNodes
      /\ c \in [1 .. length -> Nodes] /\ key \in [Nodes -> Int]
      /\ \A i, j \in 1 .. length : i < j => key[c[i]] <= key[c[j]]
      /\ \A i \in 0 .. MaxNodes : Walk[i] = IF i < length THEN c[i + 1] ELSE NULL
  BY LinkedListAssumption, WalkIs DEF TypeOK, IsChain, NULL, Nodes, Follows
<1>3. \A i \in 0 .. MaxNodes : i \in I <=> i < length /\ key[c[i + 1]] >= k
  BY <1>2
<1>4. I \in SUBSET (0 .. MaxNodes) /\ I \in SUBSET Nat
  BY <1>2
<1> HIDE DEF I
<1>5. CASE I = {}
  <2>1. \A i \in 1 .. length : key[c[i]] < k
    <3>1. ASSUME NEW i \in 1 .. length PROVE key[c[i]] < k
      <4>1. i - 1 \in 0 .. MaxNodes /\ i - 1 < length /\ (i - 1) + 1 = i
        BY <1>2
      <4>2. ~(key[c[i]] >= k) /\ key[c[i]] \in Int
        BY <1>2, <1>3, <1>5, <4>1
      <4> QED  BY <4>2
    <3> QED  BY <3>1
  <2>2. length + 1 \in 1 .. length + 1 /\ length + 1 > length
        /\ \A i \in 1 .. length : i < length + 1
    BY <1>2
  <2> QED  BY <1>1, <1>5, <2>1, <2>2
<1>6. CASE I # {}
  <2>1. \E m \in I : \A y \in I : m <= y
    BY <1>4, <1>6, LeastNat
  <2> DEFINE m == CHOOSE i \in I : \A j \in I : i <= j
  <2>2. m \in I /\ \A y \in I : m <= y
    BY <2>1
  <2>3. PlaceOf(k) = Walk[m]
    BY <1>1, <1>6
  <2> HIDE DEF m
  <2>4. m \in 0 .. MaxNodes /\ m < length /\ key[c[m + 1]] >= k
    BY <1>3, <1>4, <2>2
  <2>5. /\ m + 1 \in 1 .. length + 1 /\ ~(m + 1 > length) /\ Walk[m] = c[m + 1]
        /\ m + 1 \in 1 .. length
    BY <1>2, <2>4
  <2>6. ASSUME NEW i \in 1 .. length PROVE i < m + 1 <=> key[c[i]] < k
    <3>1. i - 1 \in 0 .. MaxNodes /\ i - 1 < length /\ (i - 1) + 1 = i
          /\ key[c[i]] \in Int /\ key[c[m + 1]] \in Int
      BY <1>2, <2>5
    <3>2. CASE i < m + 1
      <4>1. i - 1 \notin I
        BY <2>2, <2>4, <3>1, <3>2
      <4> QED  BY <1>3, <3>1, <3>2, <4>1
    <3>3. CASE ~(i < m + 1)
      <4>1. i = m + 1 \/ m + 1 < i
        BY <2>4, <3>3
      <4>2. key[c[m + 1]] <= key[c[i]]
        BY <1>2, <2>5, <3>1, <4>1
      <4> QED  BY <2>4, <3>1, <3>3, <4>2
    <3> QED  BY <3>2, <3>3
  <2> QED  BY <2>3, <2>5, <2>6
<1> QED  BY <1>5, <1>6

(* The node behind which the insert of the dvz tree puts its key.          *)
LEMMA LastBelow ==
    ASSUME TypeOK, NEW c, IsChain(c), NEW k \in Int, length # 0
    PROVE  \E j \in 1 .. length :
              /\ FirstNode(LAMBDA n : next[n] = NULL \/ key[next[n]] > k) = c[j]
              /\ \A i \in 1 .. length : /\ 1 < i /\ i <= j => key[c[i]] <= k
                                        /\ j < i => key[c[i]] > k
<1> DEFINE I == {i \in 0 .. MaxNodes : /\ Walk[i] # NULL
                                       /\ next[Walk[i]] = NULL \/ key[next[Walk[i]]] > k}
<1>1. FirstNode(LAMBDA n : next[n] = NULL \/ key[next[n]] > k) =
         IF I = {} THEN NULL ELSE Walk[CHOOSE i \in I : \A j \in I : i <= j]
  BY DEF FirstNode
<1>2. /\ MaxNodes \in Nat /\ length \in 1 .. MaxNodes /\ NULL = 0 /\ Nodes = 1 .. MaxNodes
      /\ c \in [1 .. length -> Nodes] /\ key \in [Nodes -> Int]
      /\ \A i, j \in 1 .. length : i < j => key[c[i]] <= key[c[j]]
      /\ \A i \in 0 .. MaxNodes : Walk[i] = IF i < length THEN c[i + 1] ELSE NULL
      /\ \A i \in 1 .. length : next[c[i]] = IF i = length THEN NULL ELSE c[i + 1]
  <2>1. length \in 0 .. MaxNodes /\ MaxNodes \in Nat
    BY LinkedListAssumption DEF TypeOK
  <2>2. length \in 1 .. MaxNodes
    BY <2>1
  <2> QED  BY <2>1, <2>2, WalkIs DEF TypeOK, IsChain, NULL, Nodes, Follows
<1>3. \A i \in 0 .. MaxNodes :
         i \in I <=> i < length /\ (i + 1 = length \/ key[c[i + 2]] > k)
  <2>1. ASSUME NEW i \in 0 .. MaxNodes
        PROVE  i \in I <=> i < length /\ (i + 1 = length \/ key[c[i + 2]] > k)
    <3>1. CASE i < length
      <4>1. i + 1 \in 1 .. length /\ Walk[i] = c[i + 1] /\ Walk[i] # NULL
        BY <1>2, <3>1
      <4>2. next[c[i + 1]] = IF i + 1 = length THEN NULL ELSE c[i + 2]
        BY <1>2, <4>1
      <4>3. i + 1 # length => c[i + 2] # NULL
        BY <1>2, <4>1
      <4> QED  BY <3>1, <4>1, <4>2, <4>3
    <3>2. CASE ~(i < length)
      BY <1>2, <3>2
    <3> QED  BY <3>1, <3>2
  <2> QED  BY <2>1
<1>4. I \in SUBSET (0 .. MaxNodes) /\ I \in SUBSET Nat
  BY <1>2
<1> HIDE DEF I
<1>5. length - 1 \in I
  BY <1>2, <1>3
<1>6. \E m \in I : \A y \in I : m <= y
  BY <1>4, <1>5, LeastNat
<1> DEFINE m == CHOOSE i \in I : \A j \in I : i <= j
<1>7. m \in I /\ \A y \in I : m <= y
  BY <1>6
<1>8. FirstNode(LAMBDA n : next[n] = NULL \/ key[next[n]] > k) = Walk[m]
  BY <1>1, <1>5
<1> HIDE DEF m
<1>9. m \in 0 .. MaxNodes /\ m < length /\ (m + 1 = length \/ key[c[m + 2]] > k)
  BY <1>3, <1>4, <1>7
<1>10. m + 1 \in 1 .. length /\ Walk[m] = c[m + 1]
  BY <1>2, <1>9
<1>11. ASSUME NEW i \in 1 .. length
       PROVE  /\ 1 < i /\ i <= m + 1 => key[c[i]] <= k
              /\ m + 1 < i => key[c[i]] > k
  <2>1. key[c[i]] \in Int
    BY <1>2
  <2>2. ASSUME 1 < i, i <= m + 1 PROVE key[c[i]] <= k
    <3>1. i - 2 \in 0 .. MaxNodes /\ i - 2 < length /\ (i - 2) + 2 = i /\ (i - 2) + 1 # length
          /\ i - 2 < m
      BY <1>2, <1>9, <2>2
    <3>2. i - 2 \notin I
      BY <1>7, <1>9, <3>1
    <3> QED  BY <1>3, <2>1, <3>1, <3>2
  <2>3. ASSUME m + 1 < i PROVE key[c[i]] > k
    <3>1. m + 2 \in 1 .. length /\ (m + 2 = i \/ m + 2 < i) /\ m + 1 # length
      BY <1>2, <1>9, <2>3
    <3>2. key[c[m + 2]] > k /\ key[c[m + 2]] <= key[c[i]] /\ key[c[m + 2]] \in Int
      <4>1. key[c[m + 2]] > k /\ key[c[m + 2]] \in Int
        BY <1>2, <1>9, <3>1
      <4>2. key[c[m + 2]] <= key[c[i]]
        BY <1>2, <2>1, <3>1, <4>1
      <4> QED  BY <4>1, <4>2
    <3> QED  BY <2>1, <3>2
  <2> QED  BY <2>2, <2>3
<1> QED  BY <1>8, <1>10, <1>11

-----------------------------------------------------------------------------
(* What a step may do to the chain c: nothing, put node x with key k at    *)
(* place j, or take the first node away; and d, what it makes of c.        *)
Keeps(c) ==
    /\ length' = length /\ first' = first
    /\ \A i \in 1 .. length : next'[c[i]] = next[c[i]] /\ key'[c[i]] = key[c[i]]

Inserts(c, j, x, k) ==
    /\ length' = length + 1
    /\ first' = IF j = 1 THEN x ELSE first
    /\ next'[x] = IF j = length + 1 THEN NULL ELSE c[j]
    /\ key'[x] = k
    /\ \A i \in 1 .. length : /\ next'[c[i]] = IF i + 1 = j THEN x ELSE next[c[i]]
                              /\ key'[c[i]] = key[c[i]]
                              /\ i < j => key[c[i]] <= k
                              /\ i >= j => k <= key[c[i]]
WithNode(c, n, j, x) ==
    [i \in 1 .. n + 1 |-> IF i < j THEN c[i] ELSE IF i = j THEN x ELSE c[i - 1]]

Removes(c) ==
    /\ length # 0 /\ length' = length - 1 /\ first' = next[first]
    /\ \A i \in 1 .. length : i # 1 => next'[c[i]] = next[c[i]] /\ key'[c[i]] = key[c[i]]
WithoutFirst(c, n) == [i \in 1 .. n - 1 |-> c[i + 1]]

(* A step that keeps the chain.                                            *)
LEMMA KeepChain ==
    ASSUME NEW c, IsChain(c), Keeps(c)
    PROVE  IsChain(c)' /\ Members(c)' = Members(c)
  BY DEF IsChain, Keeps, Members

(* A step that inserts a node.                                             *)
LEMMA InsertChain ==
    ASSUME TypeOK, NEW c, IsChain(c), NEW j \in 1 .. length + 1,
           NEW x \in Nodes, x \notin Members(c), NEW k \in Int, Inserts(c, j, x, k),
           NEW d, d = WithNode(c, length, j, x)
    PROVE  /\ IsChain(d)' /\ Members(d)' = Members(c) \cup {x}
           /\ d[length + 1] = IF j = length + 1 THEN x ELSE c[length]
<1> DEFINE n == length
<1>1. n \in Nat /\ c \in [1 .. n -> Nodes] /\ key \in [Nodes -> Int] /\ j \in 1 .. n + 1
  BY LinkedListAssumption DEF TypeOK, IsChain
<1>2. \A i \in 1 .. n : c[i] # x
  BY DEF Members
<1>3. \A i, m \in 1 .. n : /\ c[i] = c[m] => i = m
                           /\ i < m => key[c[i]] <= key[c[m]]
  BY DEF IsChain
<1>4. /\ first = IF n = 0 THEN NULL ELSE c[1]
      /\ \A i \in 1 .. n : next[c[i]] = IF i = n THEN NULL ELSE c[i + 1]
  BY DEF IsChain
<1>5. /\ length' = n + 1 /\ first' = IF j = 1 THEN x ELSE first
      /\ next'[x] = IF j = n + 1 THEN NULL ELSE c[j]
      /\ \A i \in 1 .. n : next'[c[i]] = IF i + 1 = j THEN x ELSE next[c[i]]
  BY DEF Inserts
<1>6. /\ key'[x] = k
      /\ \A i \in 1 .. n : /\ key'[c[i]] = key[c[i]]
                           /\ i < j => key[c[i]] <= k
                           /\ i >= j => k <= key[c[i]]
  BY DEF Inserts
<1>7. d = [i \in 1 .. n + 1 |-> IF i < j THEN c[i] ELSE IF i = j THEN x ELSE c[i - 1]]
  BY DEF WithNode
<1> HIDE DEF n
<1>8. d \in [1 .. n + 1 -> Nodes]
  BY <1>1, <1>7
<1>9. \A i \in 1 .. n + 1 : /\ i < j => d[i] = c[i] /\ i \in 1 .. n
                            /\ i = j => d[i] = x
                            /\ i > j => d[i] = c[i - 1] /\ i - 1 \in 1 .. n
  BY <1>1, <1>7
<1>10. ASSUME NEW i \in 1 .. n + 1, NEW m \in 1 .. n + 1, d[i] = d[m] PROVE i = m
  <2>1. CASE i = j \/ m = j
    BY <1>2, <1>9, <1>10, <2>1
  <2>2. CASE i # j /\ m # j
    <3>1. \E a, b \in 1 .. n : /\ d[i] = c[a] /\ d[m] = c[b]
                               /\ i = IF a < j THEN a ELSE a + 1
                               /\ m = IF b < j THEN b ELSE b + 1
      <4>1. ASSUME NEW r \in 1 .. n + 1, r # j
            PROVE  \E a \in 1 .. n : d[r] = c[a] /\ r = IF a < j THEN a ELSE a + 1
        <5>1. CASE r < j
          BY <1>9, <5>1
        <5>2. CASE r > j
          <6>1. d[r] = c[r - 1] /\ r - 1 \in 1 .. n /\ ~(r - 1 < j) /\ r = (r - 1) + 1
            BY <1>1, <1>9, <5>2
          <6> QED  BY <6>1
        <5> QED  BY <1>1, <4>1, <5>1, <5>2
      <4> QED  BY <2>2, <4>1
    <3> QED  BY <1>3, <1>10, <3>1
  <2> QED  BY <2>1, <2>2
<1>11. first' = d[1]
  BY <1>1, <1>4, <1>5, <1>9
<1>12. ASSUME NEW i \in 1 .. n + 1
       PROVE  next'[d[i]] = IF i = n + 1 THEN NULL ELSE d[i + 1]
  <2>1. CASE i < j
    <3>1. d[i] = c[i] /\ i \in 1 .. n /\ i # n + 1 /\ i + 1 \in 1 .. n + 1
      BY <1>1, <1>9, <2>1
    <3>2. CASE i + 1 = j
      BY <1>5, <1>9, <3>1, <3>2
    <3>3. CASE i + 1 # j
      <4>1. i + 1 < j /\ i # n
        BY <1>1, <2>1, <3>3
      <4> QED  BY <1>4, <1>5, <1>9, <3>1, <3>3, <4>1
    <3> QED  BY <3>2, <3>3
  <2>2. CASE i = j
    <3>1. i # n + 1 => i + 1 \in 1 .. n + 1 /\ i + 1 > j /\ (i + 1) - 1 = i
      BY <1>1, <2>2
    <3> QED  BY <1>5, <1>9, <2>2, <3>1
  <2>3. CASE i > j
    <3>1. /\ d[i] = c[i - 1] /\ i - 1 \in 1 .. n /\ (i - 1) + 1 = i /\ i # j
          /\ i # n + 1 => i + 1 \in 1 .. n + 1 /\ i + 1 > j /\ (i + 1) - 1 = i
          /\ i = n + 1 <=> i - 1 = n
      BY <1>1, <1>9, <2>3
    <3>2. next'[d[i]] = IF i - 1 = n THEN NULL ELSE c[i]
      BY <1>4, <1>5, <3>1
    <3> QED  BY <1>9, <3>1, <3>2
  <2> QED  BY <1>1, <2>1, <2>2, <2>3
<1>13. ASSUME NEW i \in 1 .. n + 1, NEW m \in 1 .. n + 1, i < m
       PROVE  key'[d[i]] <= key'[d[m]]
  <2>1. CASE i = j
    <3>1. d[i] = x /\ d[m] = c[m - 1] /\ m - 1 \in 1 .. n /\ m - 1 >= j
      BY <1>1, <1>9, <1>13, <2>1
    <3> QED  BY <1>6, <3>1
  <2>2. CASE m = j
    <3>1. d[m] = x /\ d[i] = c[i] /\ i \in 1 .. n /\ i < j
      BY <1>1, <1>9, <1>13, <2>2
    <3> QED  BY <1>6, <3>1
  <2>3. CASE i # j /\ m # j
    <3>1. \E a, b \in 1 .. n : d[i] = c[a] /\ d[m] = c[b] /\ a < b
      <4>1. CASE i < j /\ m < j
        BY <1>9, <1>13, <4>1
      <4>2. CASE i < j /\ m > j
        BY <1>9, <1>13, <4>2
      <4>3. CASE i > j
        <5>1. m > j /\ i - 1 < m - 1
          BY <1>13, <4>3
        <5> QED  BY <1>9, <4>3, <5>1
      <4> QED  BY <1>1, <2>3, <4>1, <4>2, <4>3
    <3> QED  BY <1>3, <1>6, <3>1
  <2> QED  BY <2>1, <2>2, <2>3
<1>14. {d[i] : i \in 1 .. n + 1} = Members(c) \cup {x}
  <2>1. \A i \in 1 .. n + 1 : d[i] \in Members(c) \cup {x}
    BY <1>1, <1>9 DEF Members, n
  <2>2. \A i \in 1 .. n : \E m \in 1 .. n + 1 : d[m] = c[i]
    <3>1. ASSUME NEW i \in 1 .. n PROVE \E m \in 1 .. n + 1 : d[m] = c[i]
      <4>1. CASE i < j
        BY <1>1, <1>9, <4>1
      <4>2. CASE ~(i < j)
        <5>1. i + 1 \in 1 .. n + 1 /\ i + 1 > j /\ (i + 1) - 1 = i
          BY <1>1, <4>2
        <5> QED  BY <1>9, <5>1
      <4> QED  BY <4>1, <4>2
    <3> QED  BY <3>1
  <2>3. j \in 1 .. n + 1 /\ d[j] = x
    BY <1>9 DEF n
  <2> QED  BY <2>1, <2>2, <2>3 DEF Members, n
<1>15. d[n + 1] = IF j = n + 1 THEN x ELSE c[n]
  BY <1>1, <1>9
<1>16. IsChain(d)'
  <2>1. n + 1 # 0
    BY <1>1
  <2> QED  BY <1>5, <1>8, <1>10, <1>11, <1>12, <1>13, <2>1 DEF IsChain
<1> QED  BY <1>5, <1>14, <1>15, <1>16 DEF Members, n

(* A step that removes the first node.                                     *)
LEMMA RemoveChain ==
    ASSUME TypeOK, NEW c, IsChain(c), Removes(c), NEW d, d = WithoutFirst(c, length)
    PROVE  /\ IsChain(d)' /\ Members(d)' = Members(c) \ {first}
           /\ first = c[1] /\ next[first] = IF length = 1 THEN NULL ELSE c[2]
           /\ length # 1 => d[length - 1] = c[length]
<1> DEFINE n == length
<1>1. n \in Nat \ {0} /\ c \in [1 .. n -> Nodes] /\ key \in [Nodes -> Int]
  BY LinkedListAssumption DEF TypeOK, IsChain, Removes
<1>2. \A i, m \in 1 .. n : /\ c[i] = c[m] => i = m
                           /\ i < m => key[c[i]] <= key[c[m]]
  BY DEF IsChain
<1>3. /\ first = c[1] /\ 1 \in 1 .. n
      /\ \A i \in 1 .. n : next[c[i]] = IF i = n THEN NULL ELSE c[i + 1]
  BY <1>1 DEF IsChain
<1>4. /\ length' = n - 1 /\ first' = next[first]
      /\ \A i \in 1 .. n : i # 1 => next'[c[i]] = next[c[i]] /\ key'[c[i]] = key[c[i]]
  BY DEF Removes
<1>5. d = [i \in 1 .. n - 1 |-> c[i + 1]]
  BY DEF WithoutFirst
<1> HIDE DEF n
<1>6. /\ d \in [1 .. n - 1 -> Nodes]
      /\ \A i \in 1 .. n - 1 : d[i] = c[i + 1] /\ i + 1 \in 1 .. n /\ i + 1 # 1
  BY <1>1, <1>5
<1>7. next[first] = IF n = 1 THEN NULL ELSE c[2]
  BY <1>1, <1>3
<1>8. n # 1 => d[n - 1] = c[n]
  <2>1. n # 1 => n - 1 \in 1 .. n - 1 /\ (n - 1) + 1 = n
    BY <1>1
  <2> QED  BY <1>6, <2>1
<1>9. first' = IF n - 1 = 0 THEN NULL ELSE d[1]
  <2>1. n - 1 # 0 => 1 \in 1 .. n - 1 /\ 1 + 1 = 2
    BY <1>1
  <2>2. n = 1 <=> n - 1 = 0
    BY <1>1
  <2> QED  BY <1>4, <1>6, <1>7, <2>1, <2>2
<1>10. \A i, m \in 1 .. n - 1 : /\ d[i] = d[m] => i = m
                                /\ i < m => key'[d[i]] <= key'[d[m]]
  BY <1>2, <1>4, <1>6
<1>11. ASSUME NEW i \in 1 .. n - 1
       PROVE  next'[d[i]] = IF i = n - 1 THEN NULL ELSE d[i + 1]
  <2>1. /\ i = n - 1 <=> i + 1 = n
        /\ i # n - 1 => i + 1 \in 1 .. n - 1
    BY <1>1
  <2>2. next'[d[i]] = IF i + 1 = n THEN NULL ELSE c[(i + 1) + 1]
    BY <1>3, <1>4, <1>6
  <2> QED  BY <1>6, <2>1, <2>2
<1>12. {d[i] : i \in 1 .. n - 1} = Members(c) \ {first}
  <2>1. \A i \in 1 .. n - 1 : d[i] \in Members(c) /\ d[i] # first
    BY <1>2, <1>3, <1>6 DEF Members, n
  <2>2. ASSUME NEW i \in 1 .. n, c[i] # first PROVE \E m \in 1 .. n - 1 : d[m] = c[i]
    <3>1. i - 1 \in 1 .. n - 1 /\ (i - 1) + 1 = i
      BY <1>1, <1>3, <2>2
    <3> QED  BY <1>6, <3>1
  <2> QED  BY <2>1, <2>2 DEF Members, n
<1>13. IsChain(d)'
  BY <1>4, <1>6, <1>9, <1>10, <1>11 DEF IsChain
<1> QED  BY <1>3, <1>4, <1>7, <1>8, <1>12, <1>13 DEF Members, n

(* There are finitely many nodes.                                          *)
LEMMA NodeCount ==
    /\ IsFiniteSet(Nodes) /\ Cardinality(Nodes) = MaxNodes
    /\ \A A \in SUBSET Nodes : IsFiniteSet(A) /\ Cardinality(A) \in 0 .. MaxNodes
<1>1. MaxNodes \in Nat /\ 1 \in Int /\ MaxNodes \in Int
  BY LinkedListAssumption
<1>2. /\ IsFiniteSet(1 .. MaxNodes)
      /\ Cardinality(1 .. MaxNodes) = IF 1 > MaxNodes THEN 0 ELSE MaxNodes - 1 + 1
  BY <1>1, FS_Interval
<1>3. IsFiniteSet(Nodes) /\ Cardinality(Nodes) = MaxNodes
  BY <1>1, <1>2, LinkedListAssumption DEF Nodes
<1>4. ASSUME NEW A \in SUBSET Nodes
      PROVE  IsFiniteSet(A) /\ Cardinality(A) \in 0 .. MaxNodes
  <2>1. IsFiniteSet(A) /\ Cardinality(A) <= Cardinality(Nodes)
    BY <1>3, FS_Subset
  <2>2. Cardinality(A) \in Nat
    BY <2>1, FS_CardinalityType
  <2> QED  BY <1>1, <1>3, <2>1, <2>2
<1> QED  BY <1>3, <1>4

(* The node that kmalloc returns is free.                                  *)
LEMMA FreshNode ==
    ASSUME TypeOK, live # Nodes
    PROVE  /\ Fresh \in Nodes /\ Fresh \notin live
           /\ Cardinality(live \cup {Fresh}) = Cardinality(live) + 1
<1>1. live \subseteq Nodes /\ Nodes \ live # {} /\ Nodes \ live \in SUBSET Nat
  <2>1. Nodes \subseteq Nat
    BY LinkedListAssumption DEF Nodes
  <2>2. live \subseteq Nodes
    BY DEF TypeOK
  <2> QED  BY <2>1, <2>2
<1>2. \E n \in Nodes \ live : \A m \in Nodes \ live : n <= m
  BY <1>1, LeastNat
<1>3. Fresh \in Nodes \ live
  BY <1>2 DEF Fresh
<1>4. IsFiniteSet(live)
  BY <1>1, NodeCount
<1>5. Cardinality(live \cup {Fresh}) = Cardinality(live) + 1
  BY <1>3, <1>4, FS_AddElement
<1> QED  BY <1>3, <1>5

(* The thread at work has the lock, and no other is at work.               *)
LEMMA Locked ==
    ASSUME TypeOK, LockInv, NEW t \in Threads, pc[t] # "idle"
    PROVE  lock = t /\ t # NoThread /\ \A u \in Threads \ {t} : pc[u] = "idle"
  BY LinkedListAssumption DEF TypeOK, LockInv

(* What a return leaves behind.                                            *)
LEMMA Returned ==
    ASSUME TypeOK, LockInv, NEW t \in Threads, pc[t] # "idle", Return(t)
    PROVE  /\ LockInv' /\ lock' = NoThread /\ ~Linking' /\ ~Unlinking'
           /\ pc' \in [Threads -> {"idle", "middle", "end"}]
           /\ op' \in [Threads -> [name : {"none", "prepend", "insert", "remove"},
                                   key : Keys \cup {0}]]
           /\ runner' \in [Threads -> Ptr] /\ new' \in [Threads -> Ptr]
<1>1. lock' = NoThread /\ pc' = [pc EXCEPT ![t] = "idle"] /\ NoThread \notin Threads
  BY LinkedListAssumption DEF Return, Goto
<1>2. \A u \in Threads : pc'[u] = "idle"
  BY <1>1, Locked DEF TypeOK
<1>3. LockInv' /\ ~Linking' /\ ~Unlinking'
  BY <1>1, <1>2 DEF LockInv, Linking, Unlinking
<1>4. pc' \in [Threads -> {"idle", "middle", "end"}]
  BY <1>1 DEF TypeOK
<1>5. op' \in [Threads -> [name : {"none", "prepend", "insert", "remove"}, key : Keys \cup {0}]]
  BY DEF TypeOK, Return, NoOp
<1>6. runner' \in [Threads -> Ptr] /\ new' \in [Threads -> Ptr]
  BY DEF TypeOK, Return, Ptr
<1> QED  BY <1>1, <1>3, <1>4, <1>5, <1>6

(* The state after a return, with a whole list.                            *)
Whole(d) ==
    /\ live = Members(d) /\ Cardinality(live) = length
    /\ last = IF length = 0 THEN NULL ELSE d[length]
    /\ first # NULL => prev[first] = NULL
    /\ tree = "vud" => \A i \in 1 .. length - 1 : prev[d[i + 1]] = d[i]
HeapTypes ==
    /\ key \in [Nodes -> Int] /\ next \in [Nodes -> Ptr] /\ prev \in [Nodes -> Ptr]

(* With it the invariant holds again.                                      *)
LEMMA Committed ==
    ASSUME TypeOK, LockInv, NEW t \in Threads, pc[t] # "idle", Return(t), tree' = tree,
           HeapTypes', NEW d, IsChain(d)', Whole(d)', length' \in 0 .. MaxNodes
    PROVE  ListInv'
<1>1. LockInv' /\ lock' = NoThread /\ ~Linking' /\ ~Unlinking'
  BY Returned
<1>2. d \in [1 .. length' -> Nodes] /\ first' = IF length' = 0 THEN NULL ELSE d[1]
  BY DEF IsChain
<1>3. length' \in Nat
  BY LinkedListAssumption
<1>4. first' \in Ptr /\ last' \in Ptr /\ live' \subseteq Nodes
  BY <1>2, <1>3 DEF Whole, Members, Ptr
<1>5. TypeOK'
  BY <1>1, <1>4, Returned DEF TypeOK, HeapTypes
<1>6. HeapOf(d)' /\ WorkOf(d)'
  BY <1>1 DEF HeapOf, WorkOf, Whole
<1> QED  BY <1>1, <1>5, <1>6 DEF ListInv

(* The prev of a chain in which a node is inserted.                        *)
LEMMA InsertPrev ==
    ASSUME TypeOK, NEW c, IsChain(c), NEW j \in 1 .. length + 1, NEW x,
           NEW d, d = WithNode(c, length, j, x),
           \A i \in 1 .. length - 1 : prev[c[i + 1]] = c[i],
           \A i \in 1 .. length : prev'[c[i]] = IF i = j THEN x ELSE prev[c[i]],
           j # 1 => prev'[x] = c[j - 1]
    PROVE  \A i \in 1 .. length : prev'[d[i + 1]] = d[i]
<1> DEFINE n == length
<1>1. n \in Nat /\ j \in 1 .. n + 1
  BY LinkedListAssumption DEF TypeOK
<1>2. d = [i \in 1 .. n + 1 |-> IF i < j THEN c[i] ELSE IF i = j THEN x ELSE c[i - 1]]
  BY DEF WithNode
<1>3. \A i \in 1 .. n - 1 : prev[c[i + 1]] = c[i]
  OBVIOUS
<1>4. \A i \in 1 .. n : prev'[c[i]] = IF i = j THEN x ELSE prev[c[i]]
  OBVIOUS
<1> HIDE DEF n
<1>5. ASSUME NEW i \in 1 .. n PROVE prev'[d[i + 1]] = d[i]
  <2>0. i \in 1 .. n + 1 /\ i + 1 \in 1 .. n + 1 /\ (i + 1) - 1 = i
    BY <1>1
  <2>1. CASE i + 1 < j
    <3>1. d[i + 1] = c[i + 1] /\ d[i] = c[i] /\ i \in 1 .. n - 1 /\ i + 1 \in 1 .. n /\ i + 1 # j
      BY <1>1, <1>2, <2>0, <2>1
    <3> QED  BY <1>3, <1>4, <3>1
  <2>2. CASE i + 1 = j
    <3>1. d[i + 1] = x /\ d[i] = c[i] /\ j # 1 /\ j - 1 = i
      BY <1>1, <1>2, <2>0, <2>2
    <3> QED  BY <3>1
  <2>3. CASE i = j
    <3>1. d[i + 1] = c[i] /\ d[i] = x
      BY <1>1, <1>2, <2>0, <2>3
    <3> QED  BY <1>4, <2>3, <3>1
  <2>4. CASE i > j
    <3>1. d[i + 1] = c[i] /\ d[i] = c[i - 1] /\ i # j /\ i - 1 \in 1 .. n - 1 /\ (i - 1) + 1 = i
      BY <1>1, <1>2, <2>0, <2>4
    <3> QED  BY <1>3, <1>4, <3>1
  <2> QED  BY <1>1, <2>1, <2>2, <2>3, <2>4
<1> QED  BY <1>5 DEF n

-----------------------------------------------------------------------------
(* What every step does, seen from SortedList.                             *)
Does(c) ==
    \/ Keeps(c)
    \/ \E j \in 1 .. length + 1, x \in Nodes, k \in Keys :
          x \notin Members(c) /\ Inserts(c, j, x, k)
    \/ \E x \in Nodes : /\ x \notin Members(c)
                        /\ Inserts(c, 1, x, IF length = 0 THEN 0 ELSE key[first] - 1)
    \/ Removes(c)

(* The step that puts a node into the list and returns.                    *)
LEMMA InsertStep ==
    ASSUME TypeOK, LockInv, NEW t \in Threads, pc[t] # "idle", Return(t), tree' = tree,
           HeapTypes', NEW c, IsChain(c),
           NEW j \in 1 .. length + 1, NEW x \in Nodes, x \notin Members(c),
           NEW k \in Int, Inserts(c, j, x, k),
           live' = Members(c) \cup {x}, Cardinality(live') = length + 1,
           last' = IF j = length + 1 THEN x ELSE c[length],
           prev'[first'] = NULL,
           tree = "vud" =>
              /\ \A i \in 1 .. length - 1 : prev[c[i + 1]] = c[i]
              /\ \A i \in 1 .. length : prev'[c[i]] = IF i = j THEN x ELSE prev[c[i]]
              /\ j # 1 => prev'[x] = c[j - 1]
    PROVE  ListInv'
<1>1. PICK d : d = WithNode(c, length, j, x)
  OBVIOUS
<1>2. /\ IsChain(d)' /\ Members(d)' = Members(c) \cup {x}
      /\ d[length + 1] = IF j = length + 1 THEN x ELSE c[length]
  BY <1>1, InsertChain
<1>3. length' = length + 1 /\ length \in Nat /\ length' # 0 /\ length' - 1 = length
  BY LinkedListAssumption DEF Inserts, TypeOK
<1>4. length' \in 0 .. MaxNodes
  <2>1. live' \in SUBSET Nodes
    BY DEF IsChain, Members
  <2> QED  BY <1>3, <2>1, NodeCount
<1>5. tree' = "vud" => \A i \in 1 .. length : prev'[d[i + 1]] = d[i]
  BY <1>1, InsertPrev
<1>6. Whole(d)'
  BY <1>2, <1>3, <1>5 DEF Whole
<1> QED  BY <1>2, <1>4, <1>6, Committed

(* The step that takes the first node from the list and returns.           *)
LEMMA RemoveStep ==
    ASSUME TypeOK, LockInv, NEW t \in Threads, pc[t] # "idle", Return(t), tree' = tree,
           HeapTypes', NEW c, IsChain(c), Removes(c),
           live' = Members(c) \ {first}, Cardinality(live) = length, live = Members(c),
           last' = IF length = 1 THEN NULL ELSE c[length],
           length # 1 => prev'[c[2]] = NULL,
           tree = "vud" => \A i \in 1 .. length - 1 : i # 1 => prev'[c[i + 1]] = c[i]
    PROVE  ListInv'
<1>1. PICK d : d = WithoutFirst(c, length)
  OBVIOUS
<1>2. /\ IsChain(d)' /\ Members(d)' = Members(c) \ {first}
      /\ first = c[1] /\ next[first] = IF length = 1 THEN NULL ELSE c[2]
      /\ length # 1 => d[length - 1] = c[length]
  BY <1>1, RemoveChain
<1>3. /\ length \in 0 .. MaxNodes /\ length # 0 /\ length' = length - 1 /\ first' = next[first]
      /\ length \in Nat /\ MaxNodes \in Nat
  BY LinkedListAssumption DEF Removes, TypeOK
<1>4. length' \in 0 .. MaxNodes /\ (length' = 0 <=> length = 1) /\ length' - 1 = length - 2
  BY <1>3
<1>5. Cardinality(live') = length'
  <2>1. first \in live /\ IsFiniteSet(live)
    <3>1. 1 \in 1 .. length
      BY <1>3
    <3>2. live \in SUBSET Nodes
      BY DEF TypeOK
    <3> QED  BY <1>2, <3>1, <3>2, NodeCount DEF Members
  <2>2. Cardinality(live \ {first}) = Cardinality(live) - 1
    BY <2>1, FS_RemoveElement
  <2> QED  BY <1>3, <2>2
<1>6. first' # NULL => prev'[first'] = NULL
  BY <1>2, <1>3
<1>7. tree' = "vud" => \A i \in 1 .. length' - 1 : prev'[d[i + 1]] = d[i]
  <2> SUFFICES ASSUME tree' = "vud", NEW i \in 1 .. length - 2 PROVE prev'[d[i + 1]] = d[i]
    BY <1>4
  <2>1. /\ i + 1 \in 1 .. length - 1 /\ i + 1 # 1 /\ i \in 1 .. length - 1
    BY <1>3
  <2>2. d[i] = c[i + 1] /\ d[i + 1] = c[(i + 1) + 1]
    BY <1>1, <2>1 DEF WithoutFirst
  <2> QED  BY <2>1, <2>2
<1>8. Whole(d)'
  BY <1>2, <1>3, <1>4, <1>5, <1>6, <1>7 DEF Whole
<1> QED  BY <1>2, <1>4, <1>8, Committed

(* What the invariant says of the chain, and of a thread at work.          *)
LEMMA Basics ==
    ASSUME TypeOK, NEW c, IsChain(c)
    PROVE  /\ length \in Nat /\ NULL = 0 /\ NULL \notin Nodes /\ Ptr = Nodes \cup {NULL}
           /\ c \in [1 .. length -> Nodes] /\ first = (IF length = 0 THEN NULL ELSE c[1])
           /\ \A i \in 1 .. length : /\ c[i] \in Nodes /\ c[i] # NULL /\ c[i] \in Members(c)
                                     /\ next[c[i]] = IF i = length THEN NULL ELSE c[i + 1]
                                     /\ key[c[i]] \in Int
           /\ \A i, j \in 1 .. length : c[i] = c[j] => i = j
           /\ \A i, j \in 1 .. length : i < j => key[c[i]] <= key[c[j]]
           /\ first = NULL <=> length = 0
<1>1. /\ length \in Nat /\ NULL = 0 /\ NULL \notin Nodes /\ Ptr = Nodes \cup {NULL}
      /\ c \in [1 .. length -> Nodes] /\ key \in [Nodes -> Int]
  BY LinkedListAssumption DEF TypeOK, IsChain, NULL, Nodes, Ptr
<1>2. /\ first = (IF length = 0 THEN NULL ELSE c[1])
      /\ \A i \in 1 .. length : next[c[i]] = IF i = length THEN NULL ELSE c[i + 1]
      /\ \A i, j \in 1 .. length : c[i] = c[j] => i = j
      /\ \A i, j \in 1 .. length : i < j => key[c[i]] <= key[c[j]]
  BY DEF IsChain
<1>3. \A i \in 1 .. length :
         c[i] \in Nodes /\ c[i] # NULL /\ c[i] \in Members(c) /\ key[c[i]] \in Int
  BY <1>1 DEF Members
<1>4. length # 0 => 1 \in 1 .. length
  BY <1>1
<1>5. first = NULL <=> length = 0
  BY <1>2, <1>3, <1>4
<1> QED  BY <1>1, <1>2, <1>3, <1>5

(* What holds when an operation is past its search,                        *)
LEMMA Middle ==
    ASSUME TypeOK, LockInv, NEW c, IsChain(c), HeapOf(c), WorkOf(c),
           NEW t \in Threads, pc[t] = "middle"
    PROVE  /\ Whole(c) /\ lock = t /\ ~Linking /\ ~Unlinking
           /\ op[t].name # "remove" => live # Nodes
           /\ op[t].name # "insert" \/ tree = "dvz" => runner[t] = first
           /\ op[t].name = "insert" => op[t].key \in Keys /\ op[t].key \in Int
           /\ op[t].name = "insert" /\ tree = "vud" =>
                 \E j \in 1 .. length + 1 :
                    /\ runner[t] = IF j > length THEN NULL ELSE c[j]
                    /\ \A i \in 1 .. length : i < j <=> key[c[i]] < op[t].key
<1>1. lock = t /\ t # NoThread
  BY Locked
<1>2. ~Linking /\ ~Unlinking
  BY <1>1 DEF Linking, Unlinking
<1>3. Whole(c)
  BY <1>2 DEF HeapOf, Whole
<1> QED  BY <1>1, <1>2, <1>3, LinkedListAssumption DEF WorkOf

(* and when it has its last pointer to set.                                *)
LEMMA Ending ==
    ASSUME TypeOK, LockInv, NEW c, IsChain(c), HeapOf(c), WorkOf(c),
           NEW t \in Threads, pc[t] = "end"
    PROVE  /\ lock = t /\ first # NULL /\ op[t].name # "none"
           /\ op[t].name = "insert" => tree = "dvz" /\ op[t].key \in Keys /\ op[t].key \in Int
           /\ op[t].name = "remove" => tree = "vud" /\ Unlinking /\ ~Linking
           /\ op[t].name # "remove" => Linking /\ ~Unlinking
           /\ runner[t] = first
<1>1. lock = t /\ t # NoThread
  BY Locked
<1>2. /\ op[t].name = "remove" => Unlinking /\ ~Linking
      /\ op[t].name # "remove" => Linking /\ ~Unlinking
  BY <1>1 DEF Linking, Unlinking
<1> QED  BY <1>1, <1>2, LinkedListAssumption DEF WorkOf

(* prepend and insert on an empty list.                                    *)
LEMMA EmptyStep ==
    ASSUME TypeOK, LockInv, NEW c, IsChain(c), HeapOf(c), WorkOf(c),
           NEW t \in Threads, prepend_empty(t) \/ dvz_insert_empty(t)
    PROVE  ListInv' /\ Does(c)
<1> DEFINE x == Fresh
           k == IF op[t].name = "prepend" THEN 0 ELSE op[t].key
<1>1. /\ pc[t] = "middle" /\ op[t].name # "remove" /\ tree' = tree /\ Return(t)
      /\ op[t].name = "insert" => tree = "dvz" /\ runner[t] = NULL
      /\ op[t].name # "insert" => op[t].name = "prepend" /\ first = NULL
  BY DEF prepend_empty, dvz_insert_empty
<1>2. /\ live' = live \cup {x} /\ key' = [key EXCEPT ![x] = k]
      /\ next' = [next EXCEPT ![x] = NULL] /\ prev' = [prev EXCEPT ![x] = NULL]
      /\ first' = x /\ last' = x /\ length' = length + 1
  BY DEF prepend_empty, dvz_insert_empty, Create
<1>3. /\ Whole(c) /\ live # Nodes
      /\ op[t].name # "insert" \/ tree = "dvz" => runner[t] = first
      /\ op[t].name = "insert" => op[t].key \in Keys /\ op[t].key \in Int
  BY <1>1, Middle
<1>4. x \in Nodes /\ x \notin live /\ Cardinality(live \cup {x}) = Cardinality(live) + 1
  BY <1>3, FreshNode
<1>5. k \in Int
  BY <1>1, <1>3
<1> HIDE DEF x, k
<1>6. length = 0
  BY <1>1, <1>3, Basics
<1>7. HeapTypes'
  BY <1>2, <1>4, <1>5 DEF HeapTypes, TypeOK, Ptr
<1>8. x \notin Members(c) /\ live' = Members(c) \cup {x} /\ Cardinality(live') = length + 1
  BY <1>2, <1>3, <1>4 DEF Whole
<1>9. 1 \in 1 .. length + 1 /\ length + 1 = 1 /\ 1 .. length = {} /\ 1 .. length - 1 = {}
  BY <1>6
<1>10. Inserts(c, 1, x, k)
  BY <1>2, <1>4, <1>9 DEF Inserts, TypeOK
<1>11. ListInv'
  <2>1. prev'[first'] = NULL /\ last' = IF 1 = length + 1 THEN x ELSE c[length]
    BY <1>2, <1>4, <1>9 DEF TypeOK
  <2> QED  BY <1>1, <1>4, <1>5, <1>7, <1>8, <1>9, <1>10, <2>1, InsertStep
<1>12. Does(c)
  <2>1. CASE op[t].name = "prepend"
    BY <1>4, <1>6, <1>8, <1>10, <2>1 DEF Does, k
  <2>2. CASE op[t].name # "prepend"
    <3>1. k \in Keys
      BY <1>1, <1>3, <2>2 DEF k
    <3> QED  BY <1>4, <1>8, <1>9, <1>10, <3>1 DEF Does
  <2> QED  BY <2>1, <2>2
<1> QED  BY <1>11, <1>12

(* prepend and insert before the first node: the list is told.             *)
LEMMA FrontStep ==
    ASSUME TypeOK, LockInv, NEW c, IsChain(c), HeapOf(c), WorkOf(c),
           NEW t \in Threads, prepend_link(t) \/ dvz_insert_first(t)
    PROVE  ListInv' /\ Does(c)
<1> DEFINE x == new[t]
           k == IF op[t].name = "prepend" THEN key[first] - 1 ELSE op[t].key
<1>1. /\ pc[t] = "end" /\ op[t].name # "remove" /\ tree' = tree /\ Return(t)
      /\ op[t].name \in {"prepend", "insert"}
      /\ live' = live /\ key' = key /\ next' = next /\ last' = last
      /\ first' = x /\ length' = length + 1
  BY DEF prepend_link, dvz_insert_first, heap
<1>2. /\ op[t].name = "prepend" => prev' = [prev EXCEPT ![runner[t]] = x]
      /\ op[t].name = "insert" => prev' = prev
  BY DEF prepend_link, dvz_insert_first, heap
<1>3. /\ lock = t /\ first # NULL /\ Linking /\ ~Unlinking /\ runner[t] = first
      /\ op[t].name = "insert" => tree = "dvz" /\ op[t].key \in Keys /\ op[t].key \in Int
  BY <1>1, Ending
<1>4. /\ live = Members(c) \cup {x} /\ Cardinality(live) = length + 1
      /\ last = IF length = 0 THEN NULL ELSE c[length]
      /\ tree = "vud" => \A i \in 1 .. length - 1 : prev[c[i + 1]] = c[i]
  BY <1>3 DEF HeapOf
<1>5. /\ x \notin Members(c) /\ x \in Nodes /\ next[x] = first /\ prev[x] = NULL
      /\ key[x] <= key[first] /\ key[x] = k
  BY <1>1, <1>3, LinkedListAssumption DEF WorkOf, TypeOK
<1> HIDE DEF x, k
<1>6. /\ length \in Nat /\ length # 0 /\ first = c[1] /\ 1 \in 1 .. length
      /\ 1 \in 1 .. length + 1 /\ first \in Nodes /\ first \in Members(c) /\ 1 # length + 1
  BY <1>3, Basics
<1>7. k \in Int /\ k <= key[first]
  BY <1>5 DEF TypeOK
<1>8. HeapTypes'
  BY <1>1, <1>2, <1>3, <1>5, <1>6 DEF HeapTypes, TypeOK, Ptr
<1>9. Inserts(c, 1, x, k)
  <2>1. \A i \in 1 .. length : /\ i + 1 # 1 /\ ~(i < 1) /\ k <= key[c[i]]
    <3>1. ASSUME NEW i \in 1 .. length PROVE k <= key[c[i]]
      <4>1. key[c[1]] <= key[c[i]] /\ key[c[i]] \in Int /\ key[c[1]] \in Int
        BY <1>6, Basics
      <4> QED  BY <1>6, <1>7, <4>1
    <3> QED  BY <1>6, <3>1
  <2> QED  BY <1>1, <1>5, <1>6, <2>1 DEF Inserts
<1>10. prev'[first'] = NULL
  BY <1>1, <1>2, <1>3, <1>5, <1>6 DEF TypeOK
<1>11. tree = "vud" => \A i \in 1 .. length : prev'[c[i]] = IF i = 1 THEN x ELSE prev[c[i]]
  <2>1. \A i \in 1 .. length : c[i] \in Nodes /\ (c[i] = first <=> i = 1)
    BY <1>6, Basics
  <2> QED  BY <1>1, <1>2, <1>3, <1>5, <2>1 DEF TypeOK
<1>12. ListInv'
  BY <1>1, <1>4, <1>5, <1>6, <1>7, <1>8, <1>9, <1>10, <1>11, InsertStep
<1>13. Does(c)
  <2>1. CASE op[t].name = "prepend"
    BY <1>5, <1>6, <1>9, <2>1 DEF Does, k
  <2>2. CASE op[t].name # "prepend"
    <3>1. k \in Keys
      BY <1>1, <1>3, <2>2 DEF k
    <3> QED  BY <1>5, <1>6, <1>9, <3>1 DEF Does
  <2> QED  BY <2>1, <2>2
<1> QED  BY <1>12, <1>13

(* insert of the dvz tree, behind a node.                                  *)
LEMMA BehindStep ==
    ASSUME TypeOK, LockInv, NEW c, IsChain(c), HeapOf(c), WorkOf(c),
           NEW t \in Threads, dvz_insert_behind(t)
    PROVE  ListInv' /\ Does(c)
<1> DEFINE x == Fresh
           k == op[t].key
           f == FirstNode(LAMBDA n : next[n] = NULL \/ key[next[n]] > k)
<1>1. /\ pc[t] = "middle" /\ tree = "dvz" /\ op[t].name = "insert" /\ runner[t] # NULL
      /\ k > key[runner[t]] /\ tree' = tree /\ Return(t) /\ first' = first /\ length' = length + 1
  BY DEF dvz_insert_behind
<1>2. /\ live' = live \cup {x} /\ key' = [key EXCEPT ![x] = k]
      /\ next' = [next EXCEPT ![x] = next[f], ![f] = x]
      /\ prev' = [prev EXCEPT ![x] = f]
      /\ last' = IF next[f] = NULL THEN x ELSE last
  BY DEF dvz_insert_behind, Create
<1>3. /\ Whole(c) /\ live # Nodes /\ runner[t] = first /\ k \in Keys /\ k \in Int
  BY <1>1, Middle
<1>4. x \in Nodes /\ x \notin live /\ Cardinality(live \cup {x}) = Cardinality(live) + 1
  BY <1>3, FreshNode
<1> HIDE DEF x, k
<1>5. length \in Nat /\ length # 0 /\ first = c[1] /\ first \in Nodes
  BY <1>1, <1>3, Basics
<1>6. PICK m \in 1 .. length :
         /\ f = c[m]
         /\ \A i \in 1 .. length : /\ 1 < i /\ i <= m => key[c[i]] <= k
                                   /\ m < i => key[c[i]] > k
  BY <1>3, <1>5, LastBelow
<1> HIDE DEF f
<1>7. /\ f \in Nodes /\ f \in Members(c) /\ next[f] = IF m = length THEN NULL ELSE c[m + 1]
      /\ \A i \in 1 .. length : /\ c[i] \in Nodes /\ (c[i] = f <=> i = m)
                                /\ key[c[i]] \in Int
  BY <1>6, Basics
<1>8. x \notin Members(c) /\ live' = Members(c) \cup {x} /\ Cardinality(live') = length + 1
  BY <1>2, <1>3, <1>4 DEF Whole
<1>9. next[f] \in Ptr /\ (next[f] = NULL <=> m = length)
  <2>1. m # length => m + 1 \in 1 .. length
    BY <1>5
  <2>2. m # length => c[m + 1] # NULL
    BY <2>1, Basics
  <2> QED  BY <1>7, <2>2 DEF TypeOK
<1>10. HeapTypes'
  BY <1>2, <1>3, <1>4, <1>7, <1>9 DEF HeapTypes, TypeOK, Ptr
<1> DEFINE j == m + 1
<1>11. j \in 1 .. length + 1 /\ j # 1 /\ (j = length + 1 <=> m = length)
  BY <1>5
<1>12. Inserts(c, j, x, k)
  <2>1. x # f /\ next'[x] = next[f] /\ key'[x] = k
    BY <1>2, <1>4, <1>7, <1>8 DEF TypeOK
  <2>2. ASSUME NEW i \in 1 .. length
        PROVE  /\ next'[c[i]] = IF i + 1 = j THEN x ELSE next[c[i]]
               /\ key'[c[i]] = key[c[i]]
    <3>1. c[i] # x /\ c[i] \in Nodes
      BY <1>8, Basics
    <3>2. i + 1 = j <=> i = m
      BY <1>5
    <3> QED  BY <1>2, <1>4, <1>7, <3>1, <3>2 DEF TypeOK
  <2>3. ASSUME NEW i \in 1 .. length
        PROVE  /\ i < j => key[c[i]] <= k
               /\ i >= j => k <= key[c[i]]
    <3>1. i < j => i = 1 \/ (1 < i /\ i <= m)
      BY <1>5
    <3>2. i >= j => m < i
      BY <1>5
    <3>3. key[c[1]] < k
      BY <1>1, <1>3, <1>5, <1>7
    <3>4. key[c[i]] \in Int /\ key[c[1]] \in Int
      BY <1>5, <1>7
    <3> QED  BY <1>3, <1>6, <3>1, <3>2, <3>3, <3>4
  <2>4. next'[x] = IF j = length + 1 THEN NULL ELSE c[j]
    BY <1>7, <1>11, <2>1
  <2>5. first' = IF j = 1 THEN x ELSE first
    BY <1>1, <1>11
  <2> QED  BY <1>1, <2>1, <2>2, <2>3, <2>4, <2>5 DEF Inserts
<1>13. last' = IF j = length + 1 THEN x ELSE c[length]
  BY <1>2, <1>3, <1>5, <1>9, <1>11 DEF Whole
<1>14. prev'[first'] = NULL
  <2>1. first # NULL /\ first # x
    BY <1>5, <1>8, Basics
  <2> QED  BY <1>1, <1>2, <1>3, <1>5, <2>1 DEF Whole, TypeOK
<1> HIDE DEF j
<1>15. ListInv'
  BY <1>1, <1>3, <1>4, <1>8, <1>10, <1>11, <1>12, <1>13, <1>14, InsertStep
<1>16. Does(c)
  BY <1>3, <1>4, <1>8, <1>11, <1>12 DEF Does
<1> QED  BY <1>15, <1>16

(* insert of the vud tree.                                                 *)
LEMMA BeforeStep ==
    ASSUME TypeOK, LockInv, NEW c, IsChain(c), HeapOf(c), WorkOf(c),
           NEW t \in Threads, vud_insert_last(t) \/ vud_insert_before(t)
    PROVE  ListInv' /\ Does(c)
<1> DEFINE x == Fresh
           k == op[t].key
           r == runner[t]
<1>1. /\ pc[t] = "middle" /\ tree = "vud" /\ op[t].name = "insert"
      /\ tree' = tree /\ Return(t) /\ length' = length + 1
      /\ live' = live \cup {x} /\ key' = [key EXCEPT ![x] = k]
  BY DEF vud_insert_last, vud_insert_before, Create
<1>2. r = NULL =>
         /\ prev' = [prev EXCEPT ![x] = last]
         /\ next' = IF last # NULL THEN [next EXCEPT ![x] = NULL, ![last] = x]
                    ELSE [next EXCEPT ![x] = NULL]
         /\ first' = IF last # NULL THEN first ELSE x
         /\ last' = x
  BY DEF vud_insert_last, vud_insert_before
<1>3. r # NULL =>
         /\ prev' = [prev EXCEPT ![x] = prev[r], ![r] = x]
         /\ next' = IF prev[r] # NULL THEN [next EXCEPT ![x] = r, ![prev[r]] = x]
                    ELSE [next EXCEPT ![x] = r]
         /\ first' = IF prev[r] # NULL THEN first ELSE x
         /\ last' = last
  BY DEF vud_insert_last, vud_insert_before
<1>4. /\ Whole(c) /\ live # Nodes /\ k \in Keys /\ k \in Int
      /\ \E j \in 1 .. length + 1 :
            /\ r = IF j > length THEN NULL ELSE c[j]
            /\ \A i \in 1 .. length : i < j <=> key[c[i]] < k
  BY <1>1, Middle
<1>5. PICK j \in 1 .. length + 1 :
            /\ r = IF j > length THEN NULL ELSE c[j]
            /\ \A i \in 1 .. length : i < j <=> key[c[i]] < k
  BY <1>4
<1>6. x \in Nodes /\ x \notin live /\ Cardinality(live \cup {x}) = Cardinality(live) + 1
  BY <1>4, FreshNode
<1> HIDE DEF x, k, r
<1>7. x \notin Members(c) /\ live' = Members(c) \cup {x} /\ Cardinality(live') = length + 1
  BY <1>1, <1>4, <1>6 DEF Whole
<1>8. /\ length \in Nat /\ NULL \notin Nodes /\ x # NULL
      /\ \A i \in 1 .. length : /\ c[i] \in Nodes /\ c[i] # NULL /\ c[i] # x
                                /\ key[c[i]] \in Int
      /\ \A i, m \in 1 .. length : c[i] = c[m] => i = m
      /\ first = IF length = 0 THEN NULL ELSE c[1]
  BY <1>6, <1>7, Basics
<1>9. /\ last = IF length = 0 THEN NULL ELSE c[length]
      /\ \A i \in 1 .. length - 1 : prev[c[i + 1]] = c[i]
      /\ length # 0 => prev[first] = NULL
  BY <1>1, <1>4, Basics DEF Whole
(* b is the node before the new one, or NULL.                              *)
<1> DEFINE b == IF j = 1 THEN NULL ELSE c[j - 1]
<1>10. /\ j # 1 => j - 1 \in 1 .. length /\ b = c[j - 1] /\ b \in Nodes /\ b # NULL /\ b # x
       /\ j = 1 => b = NULL
  <2>1. j # 1 => j - 1 \in 1 .. length
    BY <1>8
  <2> QED  BY <1>8, <2>1
<1>11. /\ r = NULL <=> j = length + 1
       /\ r = NULL => last = b
       /\ r # NULL => j \in 1 .. length /\ r = c[j] /\ r \in Nodes /\ prev[r] = b
  <2>1. j > length <=> j = length + 1
    BY <1>8
  <2>2. j # length + 1 => j \in 1 .. length
    BY <1>8
  <2>3. r = NULL <=> j = length + 1
    BY <1>5, <1>8, <2>1, <2>2
  <2>4. r = NULL => last = b
    <3>1. j = length + 1 => (j = 1 <=> length = 0) /\ j - 1 = length
      BY <1>8
    <3> QED  BY <1>9, <2>3, <3>1
  <2>5. r # NULL => j \in 1 .. length /\ r = c[j] /\ r \in Nodes
    BY <1>5, <1>8, <2>1, <2>2, <2>3
  <2>6. r # NULL => prev[r] = b
    <3>1. CASE j = 1
      BY <1>8, <1>9, <2>5, <3>1
    <3>2. CASE j # 1 /\ r # NULL
      <4>1. j - 1 \in 1 .. length - 1 /\ (j - 1) + 1 = j
        BY <1>8, <2>5, <3>2
      <4> QED  BY <1>9, <2>5, <3>2, <4>1
    <3> QED  BY <3>1, <3>2
  <2> QED  BY <2>3, <2>4, <2>5, <2>6
<1> HIDE DEF b
<1>12. /\ prev'[x] = b /\ next'[x] = r
       /\ first' = IF j = 1 THEN x ELSE first
       /\ last' = IF j = length + 1 THEN x ELSE last
       /\ HeapTypes'
       /\ \A n \in Nodes : n # x => /\ prev'[n] = IF n = r THEN x ELSE prev[n]
                                    /\ next'[n] = IF n = b THEN x ELSE next[n]
  <2>1. /\ prev \in [Nodes -> Ptr] /\ next \in [Nodes -> Ptr] /\ key \in [Nodes -> Int]
        /\ Ptr = Nodes \cup {NULL} /\ r # x /\ b \in Ptr /\ r \in Ptr
    <3>1. r \in Ptr /\ b \in Ptr
      BY <1>10, <1>11 DEF Ptr
    <3>2. r # x
      BY <1>8, <1>11
    <3> QED  BY <3>1, <3>2 DEF TypeOK, Ptr
  <2>2. CASE r = NULL
    BY <1>1, <1>2, <1>4, <1>6, <1>8, <1>10, <1>11, <2>1, <2>2 DEF HeapTypes
  <2>3. CASE r # NULL
    BY <1>1, <1>3, <1>4, <1>6, <1>8, <1>10, <1>11, <2>1, <2>3 DEF HeapTypes
  <2> QED  BY <2>2, <2>3
<1>13. Inserts(c, j, x, k)
  <2>1. next'[x] = IF j = length + 1 THEN NULL ELSE c[j]
    BY <1>11, <1>12
  <2>2. ASSUME NEW i \in 1 .. length
        PROVE  /\ next'[c[i]] = IF i + 1 = j THEN x ELSE next[c[i]]
               /\ key'[c[i]] = key[c[i]]
    <3>1. c[i] = b <=> i + 1 = j
      BY <1>8, <1>10
    <3> QED  BY <1>1, <1>6, <1>8, <1>12, <3>1 DEF TypeOK
  <2>3. ASSUME NEW i \in 1 .. length
        PROVE  /\ i < j => key[c[i]] <= k
               /\ i >= j => k <= key[c[i]]
    BY <1>4, <1>5, <1>8
  <2>4. key'[x] = k
    BY <1>1, <1>6 DEF TypeOK
  <2> QED  BY <1>1, <1>12, <2>1, <2>2, <2>3, <2>4 DEF Inserts
<1>14. /\ last' = IF j = length + 1 THEN x ELSE c[length]
  <2>1. j # length + 1 => length # 0
    BY <1>8
  <2> QED  BY <1>9, <1>12, <2>1
<1>15. prev'[first'] = NULL
  <2>1. CASE j = 1
    BY <1>10, <1>12, <2>1
  <2>2. CASE j # 1
    <3>1. 1 \in 1 .. length /\ length # 0
      BY <1>8, <1>10, <2>2
    <3>2. first = c[1] /\ c[1] # r
      BY <1>8, <1>11, <2>2, <3>1
    <3> QED  BY <1>8, <1>9, <1>12, <2>2, <3>1, <3>2
  <2> QED  BY <2>1, <2>2
<1>16. /\ \A i \in 1 .. length : prev'[c[i]] = IF i = j THEN x ELSE prev[c[i]]
       /\ j # 1 => prev'[x] = c[j - 1]
  <2>1. ASSUME NEW i \in 1 .. length PROVE prev'[c[i]] = IF i = j THEN x ELSE prev[c[i]]
    <3>1. c[i] = r <=> i = j
      BY <1>8, <1>11
    <3> QED  BY <1>8, <1>12, <3>1
  <2> QED  BY <1>10, <1>12, <2>1
<1>17. ListInv'
  <2>1. tree = "vud" =>
              /\ \A i \in 1 .. length - 1 : prev[c[i + 1]] = c[i]
              /\ \A i \in 1 .. length : prev'[c[i]] = IF i = j THEN x ELSE prev[c[i]]
              /\ j # 1 => prev'[x] = c[j - 1]
    BY <1>9, <1>16
  <2> QED  BY <1>1, <1>4, <1>6, <1>7, <1>12, <1>13, <1>14, <1>15, <2>1, InsertStep
<1>18. Does(c)
  BY <1>4, <1>6, <1>7, <1>13 DEF Does
<1> QED  BY <1>17, <1>18

(* remove_head of both trees.                                              *)
LEMMA HeadStep ==
    ASSUME TypeOK, LockInv, NEW c, IsChain(c), HeapOf(c), WorkOf(c),
           NEW t \in Threads, dvz_remove(t) \/ vud_remove_first(t)
    PROVE  ListInv' /\ Does(c)
<1> DEFINE n == next[first]
<1>1. /\ runner[t] = first /\ first # NULL /\ live = Members(c) /\ Cardinality(live) = length
      /\ tree = "dvz" => last = c[length]
      /\ tree = "vud" => last = IF length = 1 THEN NULL ELSE c[length]
      /\ tree = "vud" /\ length # 1 => prev[c[2]] = NULL
      /\ tree = "vud" => \A i \in 1 .. length - 1 : i # 1 => prev[c[i + 1]] = c[i]
      /\ pc[t] # "idle" /\ length # 0
  <2>1. CASE dvz_remove(t)
    <3>1. pc[t] = "middle" /\ tree = "dvz" /\ op[t].name = "remove" /\ runner[t] # NULL
      BY <2>1 DEF dvz_remove
    <3>2. Whole(c) /\ runner[t] = first
      BY <3>1, Middle
    <3>3. length # 0
      BY <3>1, <3>2, Basics
    <3> QED  BY <3>1, <3>2, <3>3 DEF Whole
  <2>2. CASE vud_remove_first(t)
    <3>1. pc[t] = "end" /\ tree = "vud" /\ op[t].name = "remove"
      BY <2>2 DEF vud_remove_first
    <3>2. lock = t /\ first # NULL /\ Unlinking /\ ~Linking /\ runner[t] = first
      BY <3>1, Ending
    <3>3. length # 0 /\ length \in Nat
      BY <3>2, Basics
    <3>4. length # 1 => length > 1
      BY <3>3
    <3> QED  BY <3>1, <3>2, <3>3, <3>4 DEF HeapOf
  <2> QED  BY <2>1, <2>2
<1>2. /\ tree' = tree /\ Return(t) /\ first' = n /\ length' = length - 1
      /\ live' = live \ {first} /\ key' = [key EXCEPT ![first] = 0]
      /\ next' = [next EXCEPT ![first] = 0] /\ tree \in {"dvz", "vud"}
  BY <1>1 DEF dvz_remove, vud_remove_first, Free, Freed
<1>3. tree = "dvz" =>
         /\ prev' = [(IF n # NULL THEN [prev EXCEPT ![n] = NULL] ELSE prev) EXCEPT ![first] = 0]
         /\ last' = IF n = NULL THEN NULL ELSE last
  BY <1>1 DEF dvz_remove, vud_remove_first, Freed
<1>4. tree = "vud" => prev' = [prev EXCEPT ![first] = 0] /\ last' = last
  BY <1>1 DEF dvz_remove, vud_remove_first, Freed
<1> HIDE DEF n
<1>5. /\ length \in Nat /\ NULL = 0 /\ 1 \in 1 .. length /\ first = c[1] /\ first \in Nodes
      /\ \A i \in 1 .. length : /\ c[i] \in Nodes /\ c[i] # NULL
                                /\ i # 1 => c[i] # first
  <2>1. length \in Nat /\ 1 \in 1 .. length
    BY <1>1, Basics
  <2> QED  BY <1>1, <2>1, Basics
<1>6. n = (IF length = 1 THEN NULL ELSE c[2]) /\ (length # 1 => 2 \in 1 .. length)
  <2>1. next[c[1]] = IF 1 = length THEN NULL ELSE c[1 + 1]
    BY <1>5, Basics
  <2>2. 1 + 1 = 2 /\ (length # 1 => 2 \in 1 .. length)
    BY <1>5
  <2> QED  BY <1>5, <2>1, <2>2 DEF n
<1>7. n \in Ptr /\ (n # NULL => n \in Nodes) /\ (n = NULL <=> length = 1)
  BY <1>5, <1>6 DEF Ptr
<1>8. /\ prev' \in [Nodes -> Ptr]
      /\ \A i \in 1 .. length : i # 1 =>
            prev'[c[i]] = IF tree = "dvz" /\ c[i] = n THEN NULL ELSE prev[c[i]]
  <2>1. prev \in [Nodes -> Ptr] /\ Ptr = Nodes \cup {NULL} /\ tree \in {"dvz", "vud"}
    BY <1>2 DEF TypeOK, Ptr
  <2> QED  BY <1>3, <1>4, <1>5, <1>7, <2>1
<1>9. HeapTypes'
  <2>1. /\ key \in [Nodes -> Int] /\ next \in [Nodes -> Ptr] /\ 0 \in Ptr
    BY <1>5 DEF TypeOK, Ptr
  <2>2. key' \in [Nodes -> Int]
    <3>1. key' = [key EXCEPT ![first] = 0] /\ key \in [Nodes -> Int] /\ 0 \in Int
      BY <1>2, <2>1
    <3> QED  BY <3>1
  <2>3. next' \in [Nodes -> Ptr]
    BY <1>2, <2>1
  <2> QED  BY <1>8, <2>2, <2>3 DEF HeapTypes
<1>10. Removes(c)
  BY <1>1, <1>2, <1>5 DEF Removes, TypeOK, n
<1>11. last' = IF length = 1 THEN NULL ELSE c[length]
  BY <1>1, <1>2, <1>3, <1>4, <1>7
<1>12. length # 1 => prev'[c[2]] = NULL
  BY <1>1, <1>2, <1>6, <1>8
<1>13. tree = "vud" => \A i \in 1 .. length - 1 : i # 1 => prev'[c[i + 1]] = c[i]
  <2>1. ASSUME tree = "vud", NEW i \in 1 .. length - 1, i # 1 PROVE prev'[c[i + 1]] = c[i]
    <3>1. i + 1 \in 1 .. length /\ i + 1 # 1
      BY <1>5
    <3> QED  BY <1>1, <1>8, <2>1, <3>1
  <2> QED  BY <2>1
<1>14. ListInv'
  BY <1>1, <1>2, <1>9, <1>10, <1>11, <1>12, <1>13, RemoveStep
<1> QED  BY <1>10, <1>14 DEF Does

(* The steps that leave the chain as it is: acquiring the lock,            *)
LEMMA BeginStep ==
    ASSUME TypeOK, LockInv, NEW c, IsChain(c), HeapOf(c), WorkOf(c),
           NEW t \in Threads, Call(t)
    PROVE  ListInv' /\ Does(c)
<1>1. PICK o, k, r :
         /\ o \in {"prepend", "insert", "remove"} /\ k \in Keys \cup {0}
         /\ begin(t, o, k, r)
         /\ o # "remove" => live # Nodes
         /\ o # "insert" \/ tree = "dvz" => r = first
         /\ o = "insert" => k \in Keys
         /\ o = "insert" /\ tree = "vud" => r = PlaceOf(k)
  <2>1. CASE linked_list_prepend(t)
    BY <2>1 DEF linked_list_prepend
  <2>2. CASE linked_list_remove_head(t)
    BY <2>2 DEF linked_list_remove_head
  <2>3. ASSUME NEW i \in Keys, dvz_insert(t, i)
        PROVE  begin(t, "insert", i, first) /\ live # Nodes /\ tree = "dvz"
    BY <2>3 DEF dvz_insert
  <2>4. ASSUME NEW i \in Keys, vud_insert(t, i)
        PROVE  /\ begin(t, "insert", i, PlaceOf(i))
               /\ live # Nodes /\ tree = "vud"
    BY <2>4 DEF vud_insert, PlaceOf
  <2> QED  BY <2>1, <2>2, <2>3, <2>4 DEF Call
<1>2. /\ pc[t] = "idle" /\ lock = NoThread /\ lock' = t /\ t # NoThread
      /\ op' = [op EXCEPT ![t] = [name |-> o, key |-> k]]
      /\ runner' = [runner EXCEPT ![t] = r] /\ pc' = [pc EXCEPT ![t] = "middle"]
      /\ tree' = tree /\ live' = live /\ key' = key /\ next' = next /\ prev' = prev
      /\ first' = first /\ last' = last /\ length' = length /\ new' = new
  BY <1>1, LinkedListAssumption DEF begin, Goto, heap, list
<1>3. Keeps(c)
  BY <1>2 DEF Keeps
<1>4. IsChain(c)' /\ Members(c)' = Members(c)
  BY <1>3, KeepChain
<1>5. o = "insert" /\ tree = "vud" =>
         \E j \in 1 .. length + 1 :
            /\ r = IF j > length THEN NULL ELSE c[j]
            /\ \A i \in 1 .. length : i < j <=> key[c[i]] < k
  <2>1. o = "insert" => k \in Int
    BY <1>1, LinkedListAssumption
  <2> QED  BY <1>1, <2>1, FirstAbove
<1>6. r \in Ptr
  <2>1. \A j \in 1 .. length + 1 : (IF j > length THEN NULL ELSE c[j]) \in Ptr
    <3>1. ASSUME NEW j \in 1 .. length + 1 PROVE (IF j > length THEN NULL ELSE c[j]) \in Ptr
      <4>1. length \in Nat /\ c \in [1 .. length -> Nodes] /\ Ptr = Nodes \cup {NULL}
        BY Basics
      <4>2. ~(j > length) => j \in 1 .. length
        BY <4>1
      <4> QED  BY <4>1, <4>2
    <3> QED  BY <3>1
  <2>2. o = "insert" /\ tree = "vud" => r \in Ptr
    BY <1>5, <2>1
  <2>3. tree \in {"dvz", "vud"}
    BY LinkedListAssumption DEF TypeOK
  <2> QED  BY <1>1, <2>2, <2>3 DEF TypeOK
<1>7. /\ pc'[t] = "middle" /\ op'[t].name = o /\ op'[t].key = k /\ runner'[t] = r
  <2>1. op'[t] = [name |-> o, key |-> k]
    BY <1>2 DEF TypeOK
  <2> QED  BY <1>2, <2>1 DEF TypeOK
<1>8. ~Linking' /\ ~Unlinking' /\ ~Linking /\ ~Unlinking
  BY <1>2, <1>7 DEF Linking, Unlinking
<1>9. TypeOK'
  <2>1. pc' \in [Threads -> {"idle", "middle", "end"}] /\ runner' \in [Threads -> Ptr]
    BY <1>2, <1>6 DEF TypeOK
  <2>2. op' \in [Threads -> [name : {"none", "prepend", "insert", "remove"}, key : Keys \cup {0}]]
    BY <1>1, <1>2 DEF TypeOK
  <2> QED  BY <1>2, <2>1, <2>2 DEF TypeOK
<1>10. LockInv'
  <2>1. \A u \in Threads : pc[u] = "idle"
    BY <1>2, LinkedListAssumption DEF LockInv
  <2> QED  BY <1>2, <2>1 DEF LockInv, TypeOK
<1>11. HeapOf(c)'
  BY <1>2, <1>4, <1>8 DEF HeapOf
<1>12. WorkOf(c)'
  BY <1>1, <1>2, <1>5, <1>7, <1>8 DEF WorkOf
<1> QED  BY <1>3, <1>4, <1>9, <1>10, <1>11, <1>12 DEF ListInv, Does

(* allocating a node that will be the first,                               *)
LEMMA NodeStep ==
    ASSUME TypeOK, LockInv, NEW c, IsChain(c), HeapOf(c), WorkOf(c),
           NEW t \in Threads, prepend_node(t) \/ dvz_insert_front(t)
    PROVE  ListInv' /\ Does(c)
<1> DEFINE x == Fresh
           k == IF op[t].name = "prepend" THEN key[first] - 1 ELSE op[t].key
<1>1. /\ pc[t] = "middle" /\ op[t].name \in {"prepend", "insert"}
      /\ op[t].name = "insert" => tree = "dvz" /\ op[t].key <= key[runner[t]] /\ runner[t] # NULL
      /\ op[t].name = "prepend" => first # NULL
      /\ live' = live \cup {x}
      /\ key' = [key EXCEPT ![x] = IF op[t].name = "prepend" THEN key[runner[t]] - 1
                                   ELSE op[t].key]
      /\ new' = [new EXCEPT ![t] = x] /\ pc' = [pc EXCEPT ![t] = "end"]
      /\ tree' = tree /\ first' = first /\ last' = last /\ length' = length
      /\ lock' = lock /\ op' = op /\ runner' = runner
  BY DEF prepend_node, dvz_insert_front, Create, Goto, list
<1>2. /\ op[t].name = "prepend" => /\ next' = [next EXCEPT ![x] = first]
                                   /\ prev' = [prev EXCEPT ![x] = NULL]
      /\ op[t].name = "insert" => /\ next' = [next EXCEPT ![x] = runner[t]]
                                  /\ prev' = [prev EXCEPT ![x] = NULL, ![runner[t]] = x]
  BY DEF prepend_node, dvz_insert_front
<1>3. /\ Whole(c) /\ lock = t /\ ~Linking /\ ~Unlinking /\ live # Nodes
      /\ runner[t] = first
      /\ op[t].name = "insert" => op[t].key \in Keys /\ op[t].key \in Int
  BY <1>1, Middle
<1>4. x \in Nodes /\ x \notin live /\ Cardinality(live \cup {x}) = Cardinality(live) + 1
  BY <1>3, FreshNode
<1>5. first # NULL /\ first \in Nodes /\ key' = [key EXCEPT ![x] = k] /\ key[first] \in Int
  <2>1. first # NULL
    BY <1>1, <1>3
  <2>2. first \in Nodes /\ key[first] \in Int
    BY <2>1 DEF TypeOK, Ptr
  <2> QED  BY <1>1, <1>3, <2>1, <2>2
<1>6. k \in Int /\ k <= key[first]
  BY <1>1, <1>3, <1>5
<1> HIDE DEF x, k
<1>7. /\ x \notin Members(c) /\ first \in Members(c) /\ first # x
      /\ \A i \in 1 .. length : c[i] \in Nodes /\ c[i] # x
      /\ length \in Nat /\ length # 0
  <2>1. /\ x \notin Members(c)
    BY <1>3, <1>4 DEF Whole
  <2>2. length \in Nat /\ length # 0 /\ 1 \in 1 .. length /\ first = c[1]
    BY <1>5, Basics
  <2> QED  BY <2>1, <2>2, Basics
<1>8. /\ next' = [next EXCEPT ![x] = first]
      /\ prev' \in [Nodes -> Ptr] /\ prev'[x] = NULL
      /\ tree = "vud" => \A i \in 1 .. length : prev'[c[i]] = prev[c[i]]
  BY <1>1, <1>2, <1>3, <1>4, <1>5, <1>7 DEF TypeOK, Ptr
<1>9. Keeps(c)
  BY <1>1, <1>4, <1>5, <1>7, <1>8 DEF Keeps, TypeOK
<1>10. IsChain(c)' /\ Members(c)' = Members(c)
  BY <1>9, KeepChain
<1>11. /\ pc'[t] = "end" /\ new'[t] = x /\ next'[x] = first /\ key'[x] = k
       /\ key'[first] = key[first]
  BY <1>1, <1>4, <1>5, <1>7, <1>8 DEF TypeOK
<1>12. Linking' /\ ~Unlinking'
  BY <1>1, <1>3, <1>11, LinkedListAssumption DEF Linking, Unlinking
<1>13. TypeOK'
  <2>1. key' \in [Nodes -> Int] /\ next' \in [Nodes -> Ptr] /\ live' \subseteq Nodes
    BY <1>1, <1>4, <1>5, <1>6, <1>8 DEF TypeOK
  <2>2. pc' \in [Threads -> {"idle", "middle", "end"}] /\ new' \in [Threads -> Ptr]
    BY <1>1, <1>4 DEF TypeOK, Ptr
  <2> QED  BY <1>1, <1>8, <2>1, <2>2 DEF TypeOK
<1>14. LockInv'
  BY <1>1, <1>3 DEF LockInv, TypeOK
<1>15. HeapOf(c)'
  <2>1. /\ live' = Members(c) \cup {x} /\ Cardinality(live') = length + 1 /\ new'[lock'] = x
    BY <1>1, <1>3, <1>4, <1>11 DEF Whole
  <2>2. last' = IF length' = 0 THEN NULL ELSE c[length']
    BY <1>1, <1>3 DEF Whole
  <2>3. tree' = "vud" => \A i \in 1 .. length' - 1 : prev'[c[i + 1]] = c[i]
    <3>1. \A i \in 1 .. length - 1 : i + 1 \in 1 .. length
      BY <1>7
    <3> QED  BY <1>1, <1>3, <1>8, <3>1 DEF Whole
  <2> QED  BY <1>1, <1>10, <1>12, <2>1, <2>2, <2>3 DEF HeapOf
<1>16. WorkOf(c)'
  <2>1. /\ lock' = t /\ pc'[t] = "end" /\ op'[t] = op[t] /\ first' = first /\ tree' = tree
        /\ runner'[t] = first
    BY <1>1, <1>3, <1>11
  <2>2. /\ new'[t] \notin Members(c)' /\ new'[t] \in Nodes /\ next'[new'[t]] = first'
        /\ prev'[new'[t]] = NULL /\ key'[new'[t]] <= key'[first']
        /\ key'[new'[t]] = IF op'[t].name = "prepend" THEN key'[first'] - 1 ELSE op'[t].key
    BY <1>4, <1>6, <1>7, <1>8, <1>10, <1>11, <2>1 DEF k
  <2> QED  BY <1>1, <1>3, <1>5, <2>1, <2>2 DEF WorkOf
<1> QED  BY <1>9, <1>10, <1>13, <1>14, <1>15, <1>16 DEF ListInv, Does

(* finding the list empty,                                                 *)
LEMMA NothingStep ==
    ASSUME TypeOK, LockInv, NEW c, IsChain(c), HeapOf(c), WorkOf(c),
           NEW t \in Threads, remove_nothing(t)
    PROVE  ListInv' /\ Does(c)
<1>1. /\ pc[t] = "middle" /\ Return(t) /\ tree' = tree
      /\ live' = live /\ key' = key /\ next' = next /\ prev' = prev
      /\ first' = first /\ last' = last /\ length' = length
  BY DEF remove_nothing, heap, list
<1>2. Whole(c) /\ pc[t] # "idle"
  BY <1>1, Middle
<1>3. Keeps(c)
  BY <1>1 DEF Keeps
<1>4. IsChain(c)' /\ Members(c)' = Members(c)
  BY <1>3, KeepChain
<1>5. Whole(c)'
  BY <1>1, <1>2, <1>4 DEF Whole
<1>6. HeapTypes' /\ length' \in 0 .. MaxNodes
  BY <1>1 DEF HeapTypes, TypeOK
<1> QED  BY <1>1, <1>2, <1>3, <1>4, <1>5, <1>6, Committed DEF Does

(* and the first half of the removal of the vud tree.                      *)
LEMMA HalfStep ==
    ASSUME TypeOK, LockInv, NEW c, IsChain(c), HeapOf(c), WorkOf(c),
           NEW t \in Threads, vud_remove_last(t)
    PROVE  ListInv' /\ Does(c)
<1>1. /\ pc[t] = "middle" /\ tree = "vud" /\ op[t].name = "remove" /\ runner[t] # NULL
      /\ IF runner[t] = last THEN last' = NULL /\ prev' = prev
         ELSE prev' = [prev EXCEPT ![next[runner[t]]] = NULL] /\ last' = last
      /\ pc' = [pc EXCEPT ![t] = "end"]
      /\ tree' = tree /\ live' = live /\ key' = key /\ next' = next /\ first' = first
      /\ length' = length /\ lock' = lock /\ op' = op /\ runner' = runner /\ new' = new
  BY DEF vud_remove_last, Goto
<1>2. Whole(c) /\ lock = t /\ runner[t] = first /\ ~Linking /\ ~Unlinking
  BY <1>1, Middle
<1>3. /\ length \in Nat /\ length # 0 /\ 1 \in 1 .. length /\ first = c[1]
      /\ length \in 1 .. length /\ first # NULL
  <2>1. length \in Nat /\ length # 0
    BY <1>1, <1>2, Basics
  <2>2. 1 \in 1 .. length /\ length \in 1 .. length
    BY <2>1
  <2> QED  BY <2>1, <2>2, <1>1, <1>2, Basics
<1>4. last = c[length] /\ (first = last <=> length = 1)
  <2>1. last = c[length]
    BY <1>2, <1>3 DEF Whole
  <2> QED  BY <1>3, <2>1, Basics
<1>5. length # 1 => /\ next[first] = c[2] /\ 2 \in 1 .. length
  <2>1. next[c[1]] = IF 1 = length THEN NULL ELSE c[1 + 1]
    BY <1>3, Basics
  <2>2. 1 + 1 = 2 /\ (length # 1 => 2 \in 1 .. length)
    BY <1>3
  <2> QED  BY <1>3, <2>1, <2>2
<1>6. /\ last' = IF length = 1 THEN NULL ELSE c[length]
      /\ length = 1 => prev' = prev
      /\ length # 1 => prev' = [prev EXCEPT ![c[2]] = NULL]
  BY <1>1, <1>2, <1>4, <1>5
<1>7. /\ prev' \in [Nodes -> Ptr] /\ last' \in Ptr
      /\ length # 1 => prev'[c[2]] = NULL
      /\ \A i \in 1 .. length : i # 2 => prev'[c[i]] = prev[c[i]]
  <2>1. /\ \A i \in 1 .. length : c[i] \in Nodes /\ \A m \in 1 .. length : c[i] = c[m] => i = m
    BY Basics
  <2> QED  BY <1>3, <1>5, <1>6, <2>1 DEF TypeOK, Ptr
<1>8. Keeps(c)
  BY <1>1 DEF Keeps
<1>9. IsChain(c)' /\ Members(c)' = Members(c)
  BY <1>8, KeepChain
<1>10. pc'[t] = "end" /\ ~Linking' /\ Unlinking'
  <2>1. pc'[t] = "end"
    BY <1>1 DEF TypeOK
  <2> QED  BY <1>1, <1>2, <2>1, LinkedListAssumption DEF Linking, Unlinking
<1>11. TypeOK'
  <2>1. pc' \in [Threads -> {"idle", "middle", "end"}]
    BY <1>1 DEF TypeOK
  <2> QED  BY <1>1, <1>7, <2>1 DEF TypeOK
<1>12. LockInv'
  BY <1>1, <1>2 DEF LockInv, TypeOK
<1>13. HeapOf(c)'
  <2>1. first' # NULL => prev'[first'] = NULL
    BY <1>1, <1>2, <1>3, <1>7 DEF Whole
  <2>2. \A i \in 1 .. length' - 1 : i = 1 \/ prev'[c[i + 1]] = c[i]
    <3>1. ASSUME NEW i \in 1 .. length - 1, i # 1 PROVE prev'[c[i + 1]] = c[i]
      <4>1. i + 1 \in 1 .. length /\ i + 1 # 2
        BY <1>3, <3>1
      <4> QED  BY <1>1, <1>2, <1>7, <3>1, <4>1 DEF Whole
    <3> QED  BY <1>1, <3>1
  <2>3. length' > 1 => length # 1
    BY <1>1, <1>3
  <2> QED  BY <1>1, <1>2, <1>3, <1>6, <1>7, <1>9, <1>10, <2>1, <2>2, <2>3 DEF HeapOf, Whole
<1>14. WorkOf(c)'
  BY <1>1, <1>2, <1>3, <1>10 DEF WorkOf
<1> QED  BY <1>8, <1>9, <1>11, <1>12, <1>13, <1>14 DEF ListInv, Does

-----------------------------------------------------------------------------
(* The list is empty at the start.                                         *)
LEMMA InitInv == Init => ListInv
<1> SUFFICES ASSUME Init PROVE ListInv
  OBVIOUS
<1>1. TypeOK
  BY LinkedListAssumption DEF Init, TypeOK, Ptr, NoOp
<1>2. LockInv /\ ~Linking /\ ~Unlinking
  BY LinkedListAssumption DEF Init, LockInv, Linking, Unlinking
<1>3. PICK c : c = [i \in 1 .. 0 |-> NULL]
  OBVIOUS
<1>4. IsChain(c)
  <2>1. length = 0 /\ first = NULL /\ 1 .. length = {}
    BY DEF Init
  <2> QED  BY <1>3, <2>1 DEF IsChain
<1>5. HeapOf(c)
  <2>1. /\ length = 0 /\ first = NULL /\ last = NULL /\ live = {} /\ 1 .. length = {}
        /\ 1 .. length - 1 = {} /\ ~(length > 1)
    BY DEF Init
  <2> QED  BY <1>2, <2>1, FS_EmptySet DEF HeapOf, Members
<1>6. WorkOf(c)
  BY DEF Init, WorkOf
<1> QED  BY <1>1, <1>2, <1>4, <1>5, <1>6 DEF ListInv

(* Every step keeps the invariant, and does to the chain one of the four   *)
(* things.                                                                 *)
LEMMA StepInv ==
    ASSUME TypeOK, LockInv, NEW c, IsChain(c), HeapOf(c), WorkOf(c), [Next]_vars
    PROVE  ListInv' /\ Does(c)
<1>1. CASE UNCHANGED vars
  <2>1. /\ tree' = tree /\ live' = live /\ key' = key /\ next' = next /\ prev' = prev
        /\ first' = first /\ last' = last /\ length' = length /\ lock' = lock
        /\ pc' = pc /\ op' = op /\ runner' = runner /\ new' = new
    BY <1>1 DEF vars, heap, list
  <2>2. Keeps(c)
    BY <2>1 DEF Keeps
  <2>3. IsChain(c)' /\ Members(c)' = Members(c)
    BY <2>2, KeepChain
  <2>4. TypeOK' /\ LockInv'
    BY <2>1 DEF TypeOK, LockInv
  <2>5. HeapOf(c)'
    BY <2>1, <2>3 DEF HeapOf, Linking, Unlinking
  <2>6. WorkOf(c)'
    BY <2>1, <2>3 DEF WorkOf, Linking
  <2> QED  BY <2>2, <2>3, <2>4, <2>5, <2>6 DEF ListInv, Does
<1>2. ASSUME NEW t \in Threads, Call(t) \/ Step(t) PROVE ListInv' /\ Does(c)
  <2>1. CASE Call(t)
    BY <2>1, BeginStep
  <2>2. CASE prepend_empty(t) \/ dvz_insert_empty(t)
    BY <2>2, EmptyStep
  <2>3. CASE prepend_link(t) \/ dvz_insert_first(t)
    BY <2>3, FrontStep
  <2>4. CASE prepend_node(t) \/ dvz_insert_front(t)
    BY <2>4, NodeStep
  <2>5. CASE dvz_insert_behind(t)
    BY <2>5, BehindStep
  <2>6. CASE vud_insert_last(t) \/ vud_insert_before(t)
    BY <2>6, BeforeStep
  <2>7. CASE dvz_remove(t) \/ vud_remove_first(t)
    BY <2>7, HeadStep
  <2>8. CASE remove_nothing(t)
    BY <2>8, NothingStep
  <2>9. CASE vud_remove_last(t)
    BY <2>9, HalfStep
  <2> QED  BY <1>2, <2>1, <2>2, <2>3, <2>4, <2>5, <2>6, <2>7, <2>8, <2>9 DEF Step
<1> QED  BY <1>1, <1>2 DEF Next

(* The invariant is inductive.                                             *)
LEMMA NextInv ==
    ASSUME ListInv, [Next]_vars
    PROVE  ListInv'
  BY StepInv DEF ListInv

(* It holds in every reachable state.                                      *)
LEMMA InvAlways == Spec => []ListInv
  BY InitInv, NextInv, PTL DEF Spec

(* Whatever the threads do and wherever they yield, both lists are whole   *)
(* whenever nobody has the lock: every allocated node is in the chain      *)
(* once, last, length and the prev of the head agree with it, and in the   *)
(* vud tree so do all prev.                                                *)
THEOREM ListStaysWhole == Spec => []ListSound
  BY InvAlways, InvSound, PTL

-----------------------------------------------------------------------------
(* Refinement.  The items that SortedList sees in a chain.                 *)
Items(c) == [i \in 1 .. length |-> [node |-> c[i], key |-> key[c[i]]]]
Seen == [i \in 1 .. ChainLen |-> [node |-> Chain[i], key |-> key[Chain[i]]]]
Item == [node : Nodes, key : Int]

(* The operations on sequences that SortedList uses: InsertAt,             *)
LEMMA InsertsAt ==
    ASSUME NEW n \in Nat, NEW V, NEW s \in [1 .. n -> V], NEW e \in V, NEW j \in 1 .. n + 1
    PROVE  S!InsertAt(s, j, e) = WithNode(s, n, j, e) /\ Len(s) = n
<1>1. s \in Seq(V) /\ Len(s) = n
  OBVIOUS
<1> DEFINE a == SubSeq(s, 1, j - 1)
           b == SubSeq(s, j, n)
<1>2. /\ a \in Seq(V) /\ Len(a) = j - 1 /\ \A i \in 1 .. j - 1 : a[i] = s[i]
      /\ b \in Seq(V) /\ Len(b) = n + 1 - j /\ \A i \in 1 .. n + 1 - j : b[i] = s[i + j - 1]
  BY <1>1
<1>3. S!InsertAt(s, j, e) = a \o <<e>> \o b
  BY <1>1 DEF S!InsertAt
<1> HIDE DEF a, b
<1>4. /\ a \o <<e>> \in Seq(V) /\ Len(a \o <<e>>) = j
      /\ \A i \in 1 .. j : (a \o <<e>>)[i] = IF i < j THEN s[i] ELSE e
  BY <1>2
<1> DEFINE g == a \o <<e>>
<1> HIDE DEF g
<1>5. /\ g \in Seq(V) /\ Len(g) = j /\ Len(g) + Len(b) = n + 1
      /\ \A i \in 1 .. j : g[i] = IF i < j THEN s[i] ELSE e
  <2>1. /\ g \in Seq(V) /\ Len(g) = j
        /\ \A i \in 1 .. j : g[i] = IF i < j THEN s[i] ELSE e
    BY <1>4, Zenon DEF g
  <2>2. j + (n + 1 - j) = n + 1
    OBVIOUS
  <2> QED  BY <1>2, <2>1, <2>2, Zenon
<1>6. /\ g \o b \in Seq(V) /\ Len(g \o b) = n + 1
      /\ \A i \in 1 .. n + 1 : (g \o b)[i] = IF i <= j THEN g[i] ELSE b[i - j]
  <2>1. /\ g \o b \in Seq(V) /\ Len(g \o b) = Len(g) + Len(b)
        /\ \A i \in 1 .. Len(g) + Len(b) :
              (g \o b)[i] = IF i <= Len(g) THEN g[i] ELSE b[i - Len(g)]
    <3>1. g \in Seq(V) /\ b \in Seq(V)
      BY <1>2, <1>5
    <3> QED  BY <3>1, ConcatProperties, Zenon
  <2> QED  BY <1>5, <2>1
<1>7. ASSUME NEW i \in 1 .. n + 1
      PROVE  (g \o b)[i] = IF i < j THEN s[i] ELSE IF i = j THEN e ELSE s[i - 1]
  <2>1. CASE i <= j
    BY <1>5, <1>6, <2>1
  <2>2. CASE i > j
    <3>1. i - j \in 1 .. n + 1 - j /\ (i - j) + j - 1 = i - 1 /\ ~(i <= j) /\ ~(i < j) /\ i # j
      BY <2>2
    <3> QED  BY <1>2, <1>6, <3>1
  <2>3. i <= j \/ i > j
    OBVIOUS
  <2> QED  BY <2>1, <2>2, <2>3
<1>8. g \o b \in [1 .. n + 1 -> V]
  BY <1>6, LenProperties
<1> QED  BY <1>1, <1>3, <1>7, <1>8 DEF g, WithNode

(* concatenation to the right of one element,                              *)
LEMMA Joins ==
    ASSUME NEW n \in Nat, NEW V, NEW s \in [1 .. n -> V], NEW e \in V
    PROVE  <<e>> \o s = WithNode(s, n, 1, e)
<1>1. s \in Seq(V) /\ Len(s) = n
  OBVIOUS
<1>2. <<e>> \o s = [i \in 1 .. n + 1 |-> IF i = 1 THEN e ELSE s[i - 1]]
  BY <1>1
<1>3. \A i \in 1 .. n + 1 : ~(i < 1)
  OBVIOUS
<1> QED  BY <1>2, <1>3 DEF WithNode

(* and Tail.                                                               *)
LEMMA Tails ==
    ASSUME NEW n \in Nat \ {0}, NEW V, NEW s \in [1 .. n -> V]
    PROVE  Tail(s) = WithoutFirst(s, n) /\ s # <<>>
<1>1. s \in Seq(V) /\ Len(s) = n
  OBVIOUS
<1>2. s # <<>>
  BY <1>1, EmptySeq
<1>3. /\ Tail(s) \in Seq(V) /\ Len(Tail(s)) = n - 1
      /\ \A i \in 1 .. n - 1 : Tail(s)[i] = s[i + 1]
  BY <1>1, <1>2, HeadTailProperties
<1>4. Tail(s) \in [1 .. n - 1 -> V]
  BY <1>3, LenProperties
<1> QED  BY <1>2, <1>3, <1>4 DEF WithoutFirst

(* What SortedList sees is the chain, before and after a step.             *)
LEMMA SeenOf ==
    \A c : TypeOK /\ IsChain(c) => Seen = Items(c) /\ Items(c) \in [1 .. length -> Item]
<1> SUFFICES ASSUME NEW c, TypeOK, IsChain(c)
             PROVE  Seen = Items(c) /\ Items(c) \in [1 .. length -> Item]
  OBVIOUS
<1>1. Seen = Items(c)
  BY ChainOf DEF ChainIs, Seen, Items
<1>2. \A i \in 1 .. length : c[i] \in Nodes /\ key[c[i]] \in Int
  BY Basics
<1> QED  BY <1>1, <1>2 DEF Items, Item

(* The same after a step.                                                  *)
LEMMA SeenNext ==
    (\A c : TypeOK /\ IsChain(c) => Seen = Items(c) /\ Items(c) \in [1 .. length -> Item])'
  BY SeenOf, PTL

(* The items of a chain in which a node is inserted, and of one without    *)
(* its first node.                                                         *)
LEMMA InsertItems ==
    ASSUME TypeOK, NEW c, IsChain(c), NEW j \in 1 .. length + 1,
           NEW x \in Nodes, NEW k \in Int, Inserts(c, j, x, k),
           NEW d, d = WithNode(c, length, j, x)
    PROVE  Items(d)' = WithNode(Items(c), length, j, [node |-> x, key |-> k])
<1> DEFINE n == length
<1>1. n \in Nat /\ j \in 1 .. n + 1
  BY Basics
<1>2. d = [i \in 1 .. n + 1 |-> IF i < j THEN c[i] ELSE IF i = j THEN x ELSE c[i - 1]]
  BY DEF WithNode
<1>3. length' = n + 1 /\ key'[x] = k /\ \A i \in 1 .. n : key'[c[i]] = key[c[i]]
  BY DEF Inserts
<1>4. \A i \in 1 .. n : Items(c)[i] = [node |-> c[i], key |-> key[c[i]]]
  BY DEF Items
<1> HIDE DEF n
<1>5. ASSUME NEW i \in 1 .. n + 1
      PROVE  [node |-> d[i], key |-> key'[d[i]]] =
                IF i < j THEN Items(c)[i]
                ELSE IF i = j THEN [node |-> x, key |-> k] ELSE Items(c)[i - 1]
  <2>1. CASE i < j
    <3>1. i \in 1 .. n /\ d[i] = c[i]
      BY <1>1, <1>2, <2>1
    <3> QED  BY <1>3, <1>4, <2>1, <3>1
  <2>2. CASE i = j
    <3>1. d[i] = x /\ ~(i < j)
      BY <1>1, <1>2, <2>2
    <3> QED  BY <1>3, <2>2, <3>1
  <2>3. CASE i > j
    <3>1. i - 1 \in 1 .. n /\ d[i] = c[i - 1] /\ ~(i < j) /\ i # j
      BY <1>1, <1>2, <2>3
    <3> QED  BY <1>3, <1>4, <3>1
  <2>4. i < j \/ i = j \/ i > j
    BY <1>1
  <2> QED  BY <2>1, <2>2, <2>3, <2>4
<1>6. Items(d)' = [i \in 1 .. n + 1 |-> [node |-> d[i], key |-> key'[d[i]]]]
  BY <1>3 DEF Items
<1> QED  BY <1>5, <1>6 DEF n, WithNode

(* The items without the first one.                                        *)
LEMMA RemoveItems ==
    ASSUME TypeOK, NEW c, IsChain(c), Removes(c), NEW d, d = WithoutFirst(c, length)
    PROVE  Items(d)' = WithoutFirst(Items(c), length)
<1>1. length \in Nat /\ length # 0 /\ length' = length - 1
  BY Basics DEF Removes
<1>2. ASSUME NEW i \in 1 .. length - 1
      PROVE  [node |-> d[i], key |-> key'[d[i]]] = Items(c)[i + 1]
  <2>1. i + 1 \in 1 .. length /\ i + 1 # 1 /\ d[i] = c[i + 1]
    BY <1>1 DEF WithoutFirst
  <2>2. key'[c[i + 1]] = key[c[i + 1]]
    BY <2>1 DEF Removes
  <2> QED  BY <2>1, <2>2 DEF Items
<1>3. Items(d)' = [i \in 1 .. length - 1 |-> [node |-> d[i], key |-> key'[d[i]]]]
  BY <1>1 DEF Items
<1> QED  BY <1>2, <1>3 DEF WithoutFirst

(* Every step is one of SortedList, or none that it sees.                  *)
LEMMA StepRefines ==
    ASSUME TypeOK, LockInv, NEW c, IsChain(c), HeapOf(c), WorkOf(c), [Next]_vars
    PROVE  S!Next \/ Seen' = Seen
<1>1. TypeOK' /\ Does(c)
  BY StepInv DEF ListInv
<1>2. /\ Seen = Items(c) /\ Items(c) \in [1 .. length -> Item] /\ length \in Nat
      /\ length = 0 <=> first = NULL
  BY SeenOf, Basics
<1>3. ASSUME NEW j \in 1 .. length + 1, NEW x \in Nodes, x \notin Members(c), NEW k \in Int,
             Inserts(c, j, x, k)
      PROVE  /\ Seen' = WithNode(Seen, length, j, [node |-> x, key |-> k])
             /\ S!Sorted(Seen')
  <2>1. PICK d : d = WithNode(c, length, j, x)
    OBVIOUS
  <2>2. IsChain(d)'
    BY <1>3, <2>1, InsertChain
  <2>3. Seen' = Items(d)' /\ Items(d)' \in [1 .. length' -> Item]
    BY <1>1, <2>2, SeenNext
  <2>4. S!Sorted(Seen')
    <3>1. \A i, m \in 1 .. length' : i < m => key'[d[i]] <= key'[d[m]]
      BY <2>2 DEF IsChain
    <3>2. \A i \in 1 .. length' : Seen'[i].key = key'[d[i]]
      BY <2>3 DEF Items
    <3>3. DOMAIN Seen' = 1 .. length'
      BY <2>3
    <3> QED  BY <3>1, <3>2, <3>3 DEF S!Sorted
  <2> QED  BY <1>2, <1>3, <2>1, <2>3, <2>4, InsertItems
<1>4. \A x \in Nodes, k \in Int : [node |-> x, key |-> k] \in Item
  BY DEF Item
<1>5. CASE Keeps(c)
  <2>1. IsChain(c)'
    BY <1>5, KeepChain
  <2>2. Seen' = Items(c)'
    BY <1>1, <2>1, SeenNext
  <2>3. Items(c)' = Items(c)
    BY <1>5 DEF Items, Keeps
  <2> QED  BY <1>2, <2>2, <2>3
<1>6. ASSUME NEW j \in 1 .. length + 1, NEW x \in Nodes, NEW k \in Keys,
             x \notin Members(c), Inserts(c, j, x, k)
      PROVE  S!Next
  <2>1. k \in Int
    BY LinkedListAssumption
  <2>2. /\ Seen' = S!InsertAt(Seen, j, [node |-> x, key |-> k])
        /\ S!Sorted(Seen') /\ Len(Seen) = length
    <3>1. /\ S!InsertAt(Seen, j, [node |-> x, key |-> k]) =
                WithNode(Seen, length, j, [node |-> x, key |-> k])
          /\ Len(Seen) = length
      BY <1>2, <1>4, <2>1, InsertsAt
    <3> QED  BY <1>3, <1>6, <2>1, <3>1
  <2>3. S!Insert(x, k)
    BY <2>2 DEF S!Insert, Seen
  <2> QED  BY <2>3 DEF S!Next
<1>7. ASSUME NEW x \in Nodes, x \notin Members(c),
             Inserts(c, 1, x, IF length = 0 THEN 0 ELSE key[first] - 1)
      PROVE  S!Next
  <2> DEFINE k == IF length = 0 THEN 0 ELSE key[first] - 1
  <2>1. /\ k \in Int /\ k = IF Seen = <<>> THEN 0 ELSE Seen[1].key - 1
    <3>1. length = 0 <=> Seen = <<>>
      BY <1>2
    <3>2. length # 0 => /\ Seen[1].key = key[first] /\ key[first] \in Int
      <4>1. length # 0 => first = c[1] /\ 1 \in 1 .. length /\ key[c[1]] \in Int
        BY Basics
      <4> QED  BY <1>2, <4>1 DEF Items
    <3> QED  BY <3>1, <3>2
  <2>2. 1 \in 1 .. length + 1 /\ Inserts(c, 1, x, k)
    BY <1>2, <1>7
  <2> HIDE DEF k
  <2>3. Seen' = <<[node |-> x, key |-> k]>> \o Seen
    <3>1. <<[node |-> x, key |-> k]>> \o Seen =
            WithNode(Seen, length, 1, [node |-> x, key |-> k])
      <4>1. PICK e, s, n : e = [node |-> x, key |-> k] /\ s = Seen /\ n = length
        OBVIOUS
      <4>2. n \in Nat /\ s \in [1 .. n -> Item] /\ e \in Item
        BY <1>2, <1>4, <2>1, <4>1
      <4>3. <<e>> \o s = WithNode(s, n, 1, e)
        BY <4>2, Joins
      <4> QED  BY <4>1, <4>3
    <3> QED  BY <1>3, <1>7, <2>1, <2>2, <3>1
  <2>4. S!Prepend(x)
    BY <2>1, <2>3 DEF S!Prepend, Seen
  <2> QED  BY <2>4 DEF S!Next
<1>8. CASE Removes(c)
  <2>1. PICK d : d = WithoutFirst(c, length)
    OBVIOUS
  <2>2. IsChain(d)'
    BY <1>8, <2>1, RemoveChain
  <2>3. Seen' = Items(d)'
    BY <1>1, <2>2, SeenNext
  <2>4. Items(d)' = WithoutFirst(Seen, length) /\ length # 0
    BY <1>2, <1>8, <2>1, RemoveItems DEF Removes
  <2>5. Tail(Seen) = WithoutFirst(Seen, length) /\ Seen # <<>>
    <3>1. Seen \in [1 .. length -> Item] /\ length \in Nat \ {0}
      BY <1>2, <2>4
    <3> QED  BY <3>1, Tails
  <2>6. S!RemoveHead
    BY <2>3, <2>4, <2>5 DEF S!RemoveHead, Seen
  <2> QED  BY <2>6 DEF S!Next
<1> QED  BY <1>1, <1>5, <1>6, <1>7, <1>8 DEF Does

(* Both lists implement the sorted list of linked_list.h, for any number   *)
(* of threads and wherever their operations yield: each operation takes    *)
(* effect in one step, keeps the order of the keys, and prepend, insert    *)
(* and remove_head do what they say.                                       *)
THEOREM ListIsSorted == Spec => ImplementsSortedList
<1>1. Init => S!Init
  <2> SUFFICES ASSUME Init PROVE Seen = <<>>
    BY DEF S!Init, Seen
  <2>1. PICK c : TypeOK /\ IsChain(c)
    BY InitInv DEF ListInv
  <2>2. Seen \in [1 .. 0 -> Item]
    BY <2>1, SeenOf DEF Init
  <2> QED  BY <2>2
<1>2. ListInv /\ [Next]_vars => [S!Next]_Seen
  BY StepRefines DEF ListInv
<1> QED  BY <1>1, <1>2, InvAlways, PTL DEF Spec, ImplementsSortedList, S!Spec, Seen

=============================================================================
