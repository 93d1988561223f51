-------------------------- MODULE SchedulerProofs --------------------------
(***************************************************************************)
(* Theorems about Scheduler, for any number of cpus and threads.           *)
(***************************************************************************)
EXTENDS Scheduler, FiniteSetTheorems, TLAPS

(* The private state of a cpu at each label.                               *)
NewStates == {"", "READY", "SLEEP", "ZOMBIE"}
Locals == [new : NewStates, wc : Wchans \cup {"none"},
           list : Seq(Threads), i : Nat, total : Nat, mine : Nat,
           to_send : Nat, share : Nat]

LocalInv ==
    /\ loc \in [AllCpus -> Locals]
    /\ \A c \in AllCpus :
         /\ pc[c] \notin {"wake", "mig_send", "mig_back"} => loc[c].list = <<>>
         /\ c \in Cpus /\ pc[c] = "switch" =>
              /\ loc[c].new # ""
              /\ loc[c].wc \in Wchans <=> loc[c].new = "SLEEP"
              /\ loc[c].new = "ZOMBIE" => at[curthread[c]] = "exit_switch"

(* isidle is set from the moment thread_switch has put the current thread  *)
(* away to the moment it has picked the next one.                          *)
IdleInv == \A c \in Cpus :
    /\ pc[c] \in {"pick", "idle", "unidle", "irq"} => isidle[c]
    /\ pc[c] \in {"run", "switch"} => ~isidle[c]

(* What the list that a thread is on says of it.                           *)
StateInv ==
    /\ \A t \in Threads : t_state[t] # "none" => t_cpu[t] \in Cpus
    /\ \A c \in AllCpus :
         /\ \A t \in ToSet(runqueue[c]) : t_state[t] = "READY" /\ t_cpu[t] = c
         /\ \A t \in ToSet(zombies[c]) : /\ t_state[t] = "ZOMBIE" /\ t_cpu[t] = c
                                         /\ at[t] = "exit_switch"
         /\ \A t \in ToSet(loc[c].list) :
              IF pc[c] = "wake" THEN t_state[t] \in {"READY", "SLEEP"}
              ELSE t_state[t] = "READY" /\ t_cpu[t] = c
    /\ \A w \in Wchans : \A t \in ToSet(wc_threads[w]) : t_state[t] = "SLEEP"

(* The thread whose stack a cpu is on belongs to that cpu.                 *)
CurInv == \A c \in Cpus :
    /\ t_cpu[curthread[c]] = c /\ t_state[curthread[c]] # "none"
    /\ curthread[c] \notin Forking
    /\ ~isidle[c] => t_state[curthread[c]] \in {"READY", "RUN"} /\ ~Listed(curthread[c])

(* Threads that do not exist, and threads that are being created.          *)
BirthInv ==
    /\ \A t \in Threads : t_state[t] = "none" =>
         /\ ~Listed(t) /\ t \notin Forking /\ at[t] = "user"
    /\ \A u \in Threads :
         /\ child[u] # NoThread <=> at[u] = "forked"
         /\ child[u] # NoThread =>
              /\ t_state[child[u]] = "READY" /\ ~Listed(child[u]) /\ at[child[u]] = "user"
              /\ \A v \in Threads : child[v] = child[u] => v = u

(* Booting: the other cpus' first threads, and the semaphore they raise.   *)
Hatching == {t \in Threads : at[t] = "hatch"}
BootInv ==
    /\ \A t \in Threads : /\ at[t] = "boot" => t = 0
                          /\ at[t] \in {"hatch", "exit"} => t \in 1 .. num_cpus - 1
    /\ sem_count + Cardinality(Hatching) =< num_cpus - 1
    /\ at[0] \in {"boot", "user", "forked", "count"}
    /\ num_cpus = 1 /\ at[0] = "boot" => \A t \in Threads \ {0} : t_state[t] = "none"

SchedInv == /\ OnePlace /\ LocalInv /\ IdleInv /\ StateInv /\ CurInv /\ BirthInv /\ BootInv
            /\ VictimsExist /\ NoLostUnidle /\ CountRight

-----------------------------------------------------------------------------
(* Facts about the sequence operators the lists are changed with.          *)

LEMMA TailFacts ==
    ASSUME NEW S, NEW s \in Seq(S), s # <<>>
    PROVE  /\ Tail(s) \in Seq(S) /\ Len(Tail(s)) = Len(s) - 1 /\ Len(s) >= 1
           /\ Head(s) \in S /\ Head(s) = s[1]
           /\ \A i \in 1 .. Len(s) - 1 : Tail(s)[i] = s[i + 1]
           /\ ToSet(s) = {Head(s)} \cup ToSet(Tail(s))
<1>1. /\ Tail(s) \in Seq(S) /\ Len(Tail(s)) = Len(s) - 1 /\ Len(s) >= 1
      /\ Head(s) \in S /\ Head(s) = s[1]
      /\ \A i \in 1 .. Len(s) - 1 : Tail(s)[i] = s[i + 1]
  OBVIOUS
<1>2. DOMAIN s = 1 .. Len(s) /\ DOMAIN Tail(s) = 1 .. Len(s) - 1 /\ Len(s) \in Nat
  BY <1>1
<1>3. ASSUME NEW i \in DOMAIN s PROVE s[i] \in {Head(s)} \cup {Tail(s)[j] : j \in DOMAIN Tail(s)}
  <2>1. CASE i = 1  BY <2>1, <1>1
  <2>2. CASE i # 1
    <3>1. i - 1 \in 1 .. Len(s) - 1 /\ (i - 1) + 1 = i  BY <2>2, <1>2, <1>3
    <3> QED  BY <3>1, <1>1, <1>2
  <2> QED  BY <2>1, <2>2
<1>4. ASSUME NEW j \in DOMAIN Tail(s) PROVE Tail(s)[j] \in {s[i] : i \in DOMAIN s}
  <2>1. j + 1 \in DOMAIN s /\ Tail(s)[j] = s[j + 1]  BY <1>1, <1>2, <1>4
  <2> QED  BY <2>1
<1>5. Head(s) \in {s[i] : i \in DOMAIN s}
  BY <1>1, <1>2
<1> QED  BY <1>1, <1>3, <1>4, <1>5 DEF ToSet

LEMMA AppendFacts ==
    ASSUME NEW S, NEW s \in Seq(S), NEW e \in S
    PROVE  /\ Append(s, e) \in Seq(S) /\ Len(Append(s, e)) = Len(s) + 1
           /\ \A i \in 1 .. Len(s) : Append(s, e)[i] = s[i]
           /\ Append(s, e)[Len(s) + 1] = e
           /\ ToSet(Append(s, e)) = ToSet(s) \cup {e}
<1>1. /\ Append(s, e) \in Seq(S) /\ Len(Append(s, e)) = Len(s) + 1
      /\ \A i \in 1 .. Len(s) : Append(s, e)[i] = s[i]
      /\ Append(s, e)[Len(s) + 1] = e
      /\ DOMAIN s = 1 .. Len(s) /\ DOMAIN Append(s, e) = 1 .. Len(s) + 1 /\ Len(s) \in Nat
  OBVIOUS
<1>2. ASSUME NEW i \in DOMAIN Append(s, e) PROVE Append(s, e)[i] \in {s[j] : j \in DOMAIN s} \cup {e}
  <2>1. i \in 1 .. Len(s) \/ i = Len(s) + 1  BY <1>1, <1>2
  <2> QED  BY <2>1, <1>1
<1>3. ASSUME NEW j \in DOMAIN s PROVE s[j] \in {Append(s, e)[i] : i \in DOMAIN Append(s, e)}
  <2>1. j \in DOMAIN Append(s, e) /\ Append(s, e)[j] = s[j]  BY <1>1, <1>3
  <2> QED  BY <2>1
<1>4. e \in {Append(s, e)[i] : i \in DOMAIN Append(s, e)}
  <2>1. Len(s) + 1 \in DOMAIN Append(s, e)  BY <1>1
  <2> QED  BY <2>1, <1>1
<1> QED  BY <1>1, <1>2, <1>3, <1>4 DEF ToSet

-----------------------------------------------------------------------------
(* A thread stands at most once in all the lists of L, and is in one.      *)
Distinct(L) == \A l, m \in ListNames : \A i \in DOMAIN L[l], j \in DOMAIN L[m] :
                 L[l][i] = L[m][j] => l = m /\ i = j
Among(L, t) == \E l \in ListNames : t \in ToSet(L[l])
ListFunctions == [ListNames -> Seq(Threads)]

(* A thread is added that is on no list.                                   *)
LEMMA AddNew ==
    ASSUME NEW L \in ListFunctions, NEW M \in ListFunctions, Distinct(L),
           NEW a \in ListNames, NEW t \in Threads, ~Among(L, t),
           M[a] = Append(L[a], t),
           \A l \in ListNames \ {a} : M[l] = L[l]
    PROVE  Distinct(M) /\ \A u : Among(M, u) <=> Among(L, u) \/ u = t
<1>1. /\ L[a] \in Seq(Threads)
      /\ \A l \in ListNames : DOMAIN L[l] = 1 .. Len(L[l]) /\ Len(L[l]) \in Nat
  BY DEF ListFunctions
<1>2. /\ DOMAIN M[a] = 1 .. Len(L[a]) + 1
      /\ \A i \in 1 .. Len(L[a]) : M[a][i] = L[a][i]
      /\ M[a][Len(L[a]) + 1] = t
      /\ ToSet(M[a]) = ToSet(L[a]) \cup {t}
  BY <1>1, AppendFacts
<1>3. \A l \in ListNames : \A i \in DOMAIN L[l] : L[l][i] # t
  BY DEF Among, ToSet
<1>4. \A l \in ListNames : \A i \in DOMAIN M[l] :
         (i \in DOMAIN L[l] /\ M[l][i] = L[l][i]) \/ (l = a /\ i = Len(L[a]) + 1 /\ M[l][i] = t)
  <2> SUFFICES ASSUME NEW l \in ListNames, NEW i \in DOMAIN M[l]
               PROVE (i \in DOMAIN L[l] /\ M[l][i] = L[l][i]) \/ (l = a /\ i = Len(L[a]) + 1 /\ M[l][i] = t)
    OBVIOUS
  <2>1. CASE l = a  BY <2>1, <1>1, <1>2
  <2>2. CASE l # a  BY <2>2
  <2> QED  BY <2>1, <2>2
<1>5. Distinct(M)
  BY <1>3, <1>4 DEF Distinct
<1>6. ASSUME NEW u PROVE Among(M, u) <=> Among(L, u) \/ u = t
  BY <1>2 DEF Among
<1> QED  BY <1>5, <1>6

(* The head of a list is taken away.                                       *)
LEMMA DropHead ==
    ASSUME NEW L \in ListFunctions, NEW M \in ListFunctions, Distinct(L),
           NEW a \in ListNames, L[a] # <<>>,
           M[a] = Tail(L[a]),
           \A l \in ListNames \ {a} : M[l] = L[l]
    PROVE  Distinct(M) /\ \A u : Among(M, u) <=> Among(L, u) /\ u # Head(L[a])
<1>1. /\ L[a] \in Seq(Threads)
      /\ \A l \in ListNames : DOMAIN L[l] = 1 .. Len(L[l]) /\ Len(L[l]) \in Nat
  BY DEF ListFunctions
<1>2. /\ DOMAIN M[a] = 1 .. Len(L[a]) - 1 /\ Len(L[a]) >= 1
      /\ \A i \in 1 .. Len(L[a]) - 1 : M[a][i] = L[a][i + 1]
      /\ Head(L[a]) = L[a][1]
      /\ ToSet(L[a]) = ToSet(M[a]) \cup {Head(L[a])}
  BY <1>1, TailFacts
<1>3. \A l \in ListNames : \A i \in DOMAIN M[l] :
         \/ l # a /\ i \in DOMAIN L[l] /\ M[l][i] = L[l][i]
         \/ l = a /\ i + 1 \in DOMAIN L[a] /\ i + 1 # 1 /\ M[l][i] = L[a][i + 1]
  <2> SUFFICES ASSUME NEW l \in ListNames, NEW i \in DOMAIN M[l]
               PROVE \/ l # a /\ i \in DOMAIN L[l] /\ M[l][i] = L[l][i]
                     \/ l = a /\ i + 1 \in DOMAIN L[a] /\ i + 1 # 1 /\ M[l][i] = L[a][i + 1]
    OBVIOUS
  <2>1. CASE l = a
    <3>1. i \in 1 .. Len(L[a]) - 1 /\ Len(L[a]) \in Nat
      BY <2>1, <1>1, <1>2
    <3>2. i + 1 \in 1 .. Len(L[a]) /\ i + 1 # 1
      BY <3>1
    <3> QED  BY <2>1, <1>1, <1>2, <3>1, <3>2
  <2>2. CASE l # a  BY <2>2
  <2> QED  BY <2>1, <2>2
<1>4. Distinct(M)
  <2> SUFFICES ASSUME NEW l \in ListNames, NEW m \in ListNames,
                      NEW i \in DOMAIN M[l], NEW j \in DOMAIN M[m], M[l][i] = M[m][j]
               PROVE l = m /\ i = j
    BY DEF Distinct
  <2>1. \A k \in ListNames : DOMAIN M[k] \subseteq Int
    <3>1. ASSUME NEW k \in ListNames PROVE Len(M[k]) \in Nat /\ DOMAIN M[k] = 1 .. Len(M[k])
      BY <3>1 DEF ListFunctions
    <3>2. ASSUME NEW n \in Nat PROVE 1 .. n \subseteq Int
      OBVIOUS
    <3> QED  BY <3>1, <3>2
  <2>2. i \in Int /\ j \in Int
    BY <2>1
  <2> QED  BY <1>3, <2>2 DEF Distinct
<1>5. 1 \in DOMAIN L[a]
  BY <1>1, <1>2
<1>6. \A l \in ListNames : \A i \in DOMAIN M[l] : M[l][i] # Head(L[a])
  BY <1>2, <1>3, <1>5 DEF Distinct
<1>7. ASSUME NEW u PROVE Among(M, u) <=> Among(L, u) /\ u # Head(L[a])
  <2>1. Among(M, u) => u # Head(L[a])
    BY <1>6 DEF Among, ToSet
  <2> QED  BY <1>2, <2>1 DEF Among
<1> QED  BY <1>4, <1>7

(* A list is emptied.                                                      *)
LEMMA ClearList ==
    ASSUME NEW L \in ListFunctions, NEW M \in ListFunctions, Distinct(L),
           NEW a \in ListNames,
           M[a] = <<>>,
           \A l \in ListNames \ {a} : M[l] = L[l]
    PROVE  Distinct(M) /\ \A u : Among(M, u) <=> Among(L, u) /\ u \notin ToSet(L[a])
<1>1. \A l \in ListNames : \A i \in DOMAIN M[l] : l # a /\ i \in DOMAIN L[l] /\ M[l][i] = L[l][i]
  OBVIOUS
<1>2. Distinct(M)
  BY <1>1 DEF Distinct
<1>3. ASSUME NEW u PROVE Among(M, u) <=> Among(L, u) /\ u \notin ToSet(L[a])
  <2>1. ASSUME Among(M, u) PROVE Among(L, u) /\ u \notin ToSet(L[a])
    <3>1. PICK l \in ListNames : \E i \in DOMAIN M[l] : u = M[l][i]
      BY <2>1 DEF Among, ToSet
    <3>2. PICK i \in DOMAIN M[l] : u = M[l][i]
      BY <3>1
    <3> QED  BY <1>1, <3>2 DEF Among, ToSet, Distinct
  <2>2. ASSUME Among(L, u), u \notin ToSet(L[a]) PROVE Among(M, u)
    BY <2>2 DEF Among
  <2> QED  BY <2>1, <2>2
<1> QED  BY <1>2, <1>3

(* The head of a list goes to the end of another one.                      *)
LEMMA MoveHead ==
    ASSUME NEW L \in ListFunctions, NEW M \in ListFunctions, Distinct(L),
           NEW a \in ListNames, NEW b \in ListNames, a # b, L[a] # <<>>,
           M[a] = Tail(L[a]), M[b] = Append(L[b], Head(L[a])),
           \A l \in ListNames \ {a, b} : M[l] = L[l]
    PROVE  Distinct(M) /\ \A u : Among(M, u) <=> Among(L, u)
<1> DEFINE K == [L EXCEPT ![a] = Tail(L[a])]
<1>1. L[a] \in Seq(Threads) /\ Tail(L[a]) \in Seq(Threads) /\ Head(L[a]) \in Threads
  BY TailFacts DEF ListFunctions
<1>2. K \in ListFunctions /\ K[a] = Tail(L[a]) /\ \A l \in ListNames \ {a} : K[l] = L[l]
  BY <1>1 DEF ListFunctions
<1> HIDE DEF K
<1>3. Distinct(K) /\ \A u : Among(K, u) <=> Among(L, u) /\ u # Head(L[a])
  BY <1>2, DropHead
<1>4. M[b] = Append(K[b], Head(L[a])) /\ \A l \in ListNames \ {b} : M[l] = K[l]
  BY <1>2
<1>5. Distinct(M) /\ \A u : Among(M, u) <=> Among(K, u) \/ u = Head(L[a])
  BY <1>1, <1>2, <1>3, <1>4, AddNew
<1>6. Among(L, Head(L[a]))
  BY <1>1, TailFacts DEF Among
<1> QED  BY <1>3, <1>5, <1>6

(* The head of a list goes to its own end.                                 *)
LEMMA RotateList ==
    ASSUME NEW L \in ListFunctions, NEW M \in ListFunctions, Distinct(L),
           NEW a \in ListNames, L[a] # <<>>,
           M[a] = Append(Tail(L[a]), Head(L[a])),
           \A l \in ListNames \ {a} : M[l] = L[l]
    PROVE  Distinct(M) /\ \A u : Among(M, u) <=> Among(L, u)
<1> DEFINE K == [L EXCEPT ![a] = Tail(L[a])]
<1>1. L[a] \in Seq(Threads) /\ Tail(L[a]) \in Seq(Threads) /\ Head(L[a]) \in Threads
  BY TailFacts DEF ListFunctions
<1>2. K \in ListFunctions
  BY <1>1 DEF ListFunctions
<1>8. K[a] = Tail(L[a]) /\ \A l \in ListNames \ {a} : K[l] = L[l]
  BY <1>1 DEF ListFunctions
<1> HIDE DEF K
<1>3. Distinct(K) /\ \A u : Among(K, u) <=> Among(L, u) /\ u # Head(L[a])
  BY <1>2, <1>8, DropHead
<1>4. M[a] = Append(K[a], Head(L[a])) /\ \A l \in ListNames \ {a} : M[l] = K[l]
  BY <1>8
<1> DEFINE h == Head(L[a])
<1>5. h \in Threads /\ ~Among(K, h) /\ M[a] = Append(K[a], h)
  BY <1>1, <1>3, <1>4
<1> HIDE DEF h
<1>7. Distinct(M) /\ \A u : Among(M, u) <=> Among(K, u) \/ u = h
  BY ONLY M \in ListFunctions, a \in ListNames, <1>2, <1>3, <1>4, <1>5, AddNew
<1>6. Among(L, Head(L[a]))
  BY <1>1, TailFacts DEF Among
<1> QED  BY <1>3, <1>7, <1>6 DEF h

(* A list is cut in two: its end becomes a list of its own.  With k = 0    *)
(* all of it moves.                                                        *)
LEMMA SplitList ==
    ASSUME NEW L \in ListFunctions, NEW M \in ListFunctions, Distinct(L),
           NEW a \in ListNames, NEW b \in ListNames, a # b, L[b] = <<>>,
           NEW k \in 0 .. Len(L[a]),
           Len(M[a]) = k, \A i \in 1 .. k : M[a][i] = L[a][i],
           Len(M[b]) = Len(L[a]) - k, \A i \in 1 .. Len(L[a]) - k : M[b][i] = L[a][k + i],
           \A l \in ListNames \ {a, b} : M[l] = L[l]
    PROVE  Distinct(M) /\ \A u : Among(M, u) <=> Among(L, u)
<1>1. /\ DOMAIN L[a] = 1 .. Len(L[a]) /\ Len(L[a]) \in Nat /\ k \in Nat
      /\ DOMAIN M[a] = 1 .. k /\ DOMAIN M[b] = 1 .. Len(L[a]) - k
      /\ DOMAIN L[b] = {}
  BY DEF ListFunctions
<1>2. ASSUME NEW i \in DOMAIN M[a] PROVE i \in DOMAIN L[a] /\ M[a][i] = L[a][i] /\ i =< k
  BY <1>1, <1>2
<1>3. ASSUME NEW i \in DOMAIN M[b]
      PROVE k + i \in DOMAIN L[a] /\ M[b][i] = L[a][k + i] /\ k + i > k /\ i \in Int
  <2>1. i \in 1 .. Len(L[a]) - k  BY <1>1, <1>3
  <2>2. k + i \in 1 .. Len(L[a]) /\ k + i > k /\ i \in Int  BY <2>1, <1>1
  <2> QED  BY <2>1, <2>2, <1>1
<1>4. ASSUME NEW l \in ListNames, NEW i \in DOMAIN M[l], l # a, l # b
      PROVE i \in DOMAIN L[l] /\ M[l][i] = L[l][i]
  BY <1>4
<1>5. Distinct(M)
  <2> SUFFICES ASSUME NEW l \in ListNames, NEW m \in ListNames,
                      NEW i \in DOMAIN M[l], NEW j \in DOMAIN M[m], M[l][i] = M[m][j]
               PROVE l = m /\ i = j
    BY DEF Distinct
  <2>1. CASE l = a /\ m = a  BY <2>1, <1>2 DEF Distinct
  <2>2. CASE l = b /\ m = b
    <3>1. k + i = k + j  BY <2>2, <1>3 DEF Distinct
    <3> QED  BY <2>2, <3>1, <1>3, <1>1
  <2>3. CASE l = a /\ m = b
    <3>1. i = k + j  BY <2>3, <1>2, <1>3 DEF Distinct
    <3> QED  BY <2>3, <3>1, <1>2, <1>3, <1>1
  <2>4. CASE l = b /\ m = a
    <3>1. j = k + i  BY <2>4, <1>2, <1>3 DEF Distinct
    <3> QED  BY <2>4, <3>1, <1>2, <1>3, <1>1
  <2>5. CASE l \notin {a, b} /\ m \in {a, b}
    BY <2>5, <1>2, <1>3, <1>4 DEF Distinct
  <2>6. CASE l \in {a, b} /\ m \notin {a, b}
    <3>1. j \in DOMAIN L[m] /\ M[m][j] = L[m][j]  BY <2>6, <1>4
    <3>2. CASE l = a  BY <2>6, <3>1, <3>2, <1>2 DEF Distinct
    <3>3. CASE l = b  BY <2>6, <3>1, <3>3, <1>3 DEF Distinct
    <3> QED  BY <2>6, <3>2, <3>3
  <2>7. CASE l \notin {a, b} /\ m \notin {a, b}
    BY <2>7, <1>4 DEF Distinct
  <2> QED  BY <2>1, <2>2, <2>3, <2>4, <2>5, <2>6, <2>7
<1>6. ToSet(L[a]) = ToSet(M[a]) \cup ToSet(M[b])
  <2>1. ASSUME NEW i \in DOMAIN L[a] PROVE L[a][i] \in ToSet(M[a]) \cup ToSet(M[b])
    <3>1. CASE i =< k
      <4>1. i \in DOMAIN M[a] /\ M[a][i] = L[a][i]  BY <3>1, <1>1, <2>1
      <4> QED  BY <4>1 DEF ToSet
    <3>2. CASE i > k
      <4>1. i - k \in 1 .. Len(L[a]) - k /\ k + (i - k) = i  BY <3>2, <1>1, <2>1
      <4>2. i - k \in DOMAIN M[b] /\ M[b][i - k] = L[a][i]  BY <4>1, <1>1
      <4> QED  BY <4>2 DEF ToSet
    <3> QED  BY <3>1, <3>2, <1>1, <2>1
  <2> QED  BY <2>1, <1>2, <1>3 DEF ToSet
<1>7. ToSet(L[b]) = {}
  BY <1>1 DEF ToSet
<1>8. ASSUME NEW u PROVE Among(M, u) <=> Among(L, u)
  <2>1. ASSUME Among(M, u) PROVE Among(L, u)
    <3>1. PICK l \in ListNames : u \in ToSet(M[l])  BY <2>1 DEF Among
    <3>2. CASE l \in {a, b}  BY <3>1, <3>2, <1>6 DEF Among
    <3>3. CASE l \notin {a, b}  BY <3>1, <3>3 DEF Among
    <3> QED  BY <3>2, <3>3
  <2>2. ASSUME Among(L, u) PROVE Among(M, u)
    <3>1. PICK l \in ListNames : u \in ToSet(L[l])  BY <2>2 DEF Among
    <3>2. CASE l \in {a, b}  BY <3>1, <3>2, <1>6, <1>7 DEF Among
    <3>3. CASE l \notin {a, b}  BY <3>1, <3>3 DEF Among
    <3> QED  BY <3>2, <3>3
  <2> QED  BY <2>1, <2>2
<1> QED  BY <1>5, <1>8

LEMMA ConcatFacts ==
    ASSUME NEW S, NEW s \in Seq(S), NEW r \in Seq(S)
    PROVE  /\ s \o r \in Seq(S) /\ Len(s \o r) = Len(s) + Len(r)
           /\ \A i \in 1 .. Len(s) : (s \o r)[i] = s[i]
           /\ \A i \in 1 .. Len(r) : (s \o r)[Len(s) + i] = r[i]
  OBVIOUS

(* A list is put behind another one.                                       *)
LEMMA JoinLists ==
    ASSUME NEW L \in ListFunctions, NEW M \in ListFunctions, Distinct(L),
           NEW a \in ListNames, NEW b \in ListNames, a # b,
           NEW n \in Nat, NEW k \in Nat,
           DOMAIN L[a] = 1 .. n, DOMAIN L[b] = 1 .. k, DOMAIN M[a] = 1 .. (n + k), DOMAIN M[b] = {},
           \A i \in 1 .. n : M[a][i] = L[a][i],
           \A i \in 1 .. k : M[a][n + i] = L[b][i],
           \A l \in ListNames \ {a, b} : M[l] = L[l]
    PROVE  /\ Distinct(M) /\ \A u : Among(M, u) <=> Among(L, u)
           /\ ToSet(M[a]) = ToSet(L[a]) \cup ToSet(L[b])
<1>2. ASSUME NEW i \in DOMAIN M[a]
      PROVE  /\ i \in Int
             /\ \/ i =< n /\ i \in DOMAIN L[a] /\ M[a][i] = L[a][i]
                \/ i > n /\ i - n \in DOMAIN L[b] /\ M[a][i] = L[b][i - n]
  <2>1. CASE i =< n  BY <2>1, <1>2
  <2>2. CASE i > n
    <3>1. i - n \in 1 .. k /\ n + (i - n) = i  BY <2>2, <1>2
    <3> QED  BY <2>2, <3>1
  <2> QED  BY <2>1, <2>2, <1>2
<1>3. ASSUME NEW l \in ListNames, NEW i \in DOMAIN M[l], l # a
      PROVE l # b /\ i \in DOMAIN L[l] /\ M[l][i] = L[l][i]
  BY <1>3
<1>4. Distinct(M)
  <2>1. ASSUME NEW l \in ListNames, NEW i \in DOMAIN M[l]
        PROVE \E p \in ListNames : \E q \in DOMAIN L[p] :
                /\ M[l][i] = L[p][q]
                /\ \/ l = a /\ p = a /\ i \in Int /\ q = i
                   \/ l = a /\ p = b /\ i \in Int /\ q = i - n
                   \/ l \notin {a, b} /\ p = l /\ q = i
    <3>1. CASE l = a
      <4>1. CASE i =< n  BY <2>1, <3>1, <4>1, <1>2
      <4>2. CASE ~(i =< n)
        <5>1. i \in Int /\ i - n \in DOMAIN L[b] /\ M[a][i] = L[b][i - n]
          BY <2>1, <3>1, <4>2, <1>2
        <5> QED  BY <3>1, <5>1
      <4> QED  BY <4>1, <4>2
    <3>2. CASE l # a  BY <2>1, <3>2, <1>3
    <3> QED  BY <3>1, <3>2
  <2> SUFFICES ASSUME NEW l \in ListNames, NEW m \in ListNames,
                      NEW i \in DOMAIN M[l], NEW j \in DOMAIN M[m], M[l][i] = M[m][j]
               PROVE l = m /\ i = j
    BY DEF Distinct
  <2>2. PICK p \in ListNames : \E q \in DOMAIN L[p] :
                /\ M[l][i] = L[p][q]
                /\ \/ l = a /\ p = a /\ i \in Int /\ q = i
                   \/ l = a /\ p = b /\ i \in Int /\ q = i - n
                   \/ l \notin {a, b} /\ p = l /\ q = i
    BY <2>1
  <2>3. PICK r \in ListNames : \E q \in DOMAIN L[r] :
                /\ M[m][j] = L[r][q]
                /\ \/ m = a /\ r = a /\ j \in Int /\ q = j
                   \/ m = a /\ r = b /\ j \in Int /\ q = j - n
                   \/ m \notin {a, b} /\ r = m /\ q = j
    BY <2>1
  <2>4. PICK q \in DOMAIN L[p] :
                /\ M[l][i] = L[p][q]
                /\ \/ l = a /\ p = a /\ i \in Int /\ q = i
                   \/ l = a /\ p = b /\ i \in Int /\ q = i - n
                   \/ l \notin {a, b} /\ p = l /\ q = i
    BY <2>2
  <2>5. PICK s \in DOMAIN L[r] :
                /\ M[m][j] = L[r][s]
                /\ \/ m = a /\ r = a /\ j \in Int /\ s = j
                   \/ m = a /\ r = b /\ j \in Int /\ s = j - n
                   \/ m \notin {a, b} /\ r = m /\ s = j
    BY <2>3
  <2>7. L[p][q] = L[r][s]
    BY <2>4, <2>5
  <2>6. p = r /\ q = s
    BY ONLY <2>7, Distinct(L), p \in ListNames, r \in ListNames,
            q \in DOMAIN L[p], s \in DOMAIN L[r] DEF Distinct
  <2> QED  BY <2>4, <2>5, <2>6
<1>5. ToSet(M[a]) = ToSet(L[a]) \cup ToSet(L[b])
  <2>1. ASSUME NEW i \in DOMAIN L[a] PROVE L[a][i] \in ToSet(M[a])
    <3>1. i \in DOMAIN M[a] /\ M[a][i] = L[a][i]  BY <2>1
    <3> QED  BY <3>1 DEF ToSet
  <2>2. ASSUME NEW i \in DOMAIN L[b] PROVE L[b][i] \in ToSet(M[a])
    <3>1. n + i \in 1 .. n + k  BY <2>2
    <3>2. n + i \in DOMAIN M[a] /\ M[a][n + i] = L[b][i]  BY <3>1
    <3> QED  BY <3>2 DEF ToSet
  <2>3. ASSUME NEW i \in DOMAIN M[a] PROVE M[a][i] \in ToSet(L[a]) \cup ToSet(L[b])
    BY <1>2, <2>3 DEF ToSet
  <2>4. ToSet(M[a]) \subseteq ToSet(L[a]) \cup ToSet(L[b])
    BY <2>3 DEF ToSet
  <2>5. ToSet(L[a]) \subseteq ToSet(M[a])
    BY <2>1 DEF ToSet
  <2>6. ToSet(L[b]) \subseteq ToSet(M[a])
    BY <2>2 DEF ToSet
  <2> QED  BY <2>4, <2>5, <2>6
<1>6. ToSet(M[b]) = {}
  BY DEF ToSet
<1>7. ASSUME NEW u PROVE Among(M, u) <=> Among(L, u)
  <2>1. ASSUME Among(M, u) PROVE Among(L, u)
    <3>1. PICK l \in ListNames : u \in ToSet(M[l])  BY <2>1 DEF Among
    <3>2. CASE l \in {a, b}  BY <3>1, <3>2, <1>5, <1>6 DEF Among
    <3>3. CASE l \notin {a, b}  BY <3>1, <3>3 DEF Among
    <3> QED  BY <3>2, <3>3
  <2>2. ASSUME Among(L, u) PROVE Among(M, u)
    <3>1. PICK l \in ListNames : u \in ToSet(L[l])  BY <2>2 DEF Among
    <3>2. CASE l \in {a, b}  BY <3>1, <3>2, <1>5 DEF Among
    <3>3. CASE l \notin {a, b}  BY <3>1, <3>3 DEF Among
    <3> QED  BY <3>2, <3>3
  <2> QED  BY <2>1, <2>2
<1> QED  BY <1>4, <1>5, <1>7

-----------------------------------------------------------------------------
(* The lists by their names, before and after a step.                      *)
LEMMA ListParts ==
    /\ \A c \in AllCpus : /\ <<"runqueue", c>> \in ListNames
                          /\ <<"zombies", c>> \in ListNames
                          /\ <<"private", c>> \in ListNames
    /\ \A w \in Wchans : <<"wchan", w>> \in ListNames
    /\ \A c \in AllCpus : /\ Lists[<<"runqueue", c>>] = runqueue[c]
                          /\ Lists[<<"zombies", c>>] = zombies[c]
                          /\ Lists[<<"private", c>>] = loc[c].list
    /\ \A w \in Wchans : Lists[<<"wchan", w>>] = wc_threads[w]
    /\ \A c \in AllCpus : /\ Lists'[<<"runqueue", c>>] = runqueue'[c]
                          /\ Lists'[<<"zombies", c>>] = zombies'[c]
                          /\ Lists'[<<"private", c>>] = loc'[c].list
    /\ \A w \in Wchans : Lists'[<<"wchan", w>>] = wc_threads'[w]
  BY DEF ListNames, Lists

LEMMA ListCases ==
    ASSUME NEW l \in ListNames
    PROVE  \/ \E c \in AllCpus : l = <<"runqueue", c>>
           \/ \E c \in AllCpus : l = <<"zombies", c>>
           \/ \E c \in AllCpus : l = <<"private", c>>
           \/ \E w \in Wchans : l = <<"wchan", w>>
  BY DEF ListNames

(* What OnePlace says, in these terms.                                     *)
LEMMA PlaceParts ==
    /\ OnePlace <=> /\ TypeOK /\ Distinct(Lists)
                    /\ \A t \in Threads : t_state[t] # "none" /\ t \notin Forking =>
                         (Listed(t) <=> \A c \in Cpus : ~isidle[c] => curthread[c] # t)
    /\ OnePlace' <=> /\ TypeOK' /\ Distinct(Lists')
                     /\ \A t \in Threads : t_state'[t] # "none" /\ t \notin Forking' =>
                          (Listed(t)' <=> \A c \in Cpus' : ~isidle'[c] => curthread'[c] # t)
    /\ \A t : Listed(t) <=> Among(Lists, t)
    /\ \A t : Listed(t)' <=> Among(Lists', t)
  BY DEF OnePlace, Distinct, Listed, Among

-----------------------------------------------------------------------------
(* The numbers.                                                            *)
LEMMA CpuFacts ==
    ASSUME TypeOK
    PROVE  /\ num_cpus \in Nat /\ num_cpus >= 1 /\ num_cpus =< MaxCpus
           /\ MaxCpus \in Nat /\ MaxThreads \in Nat /\ MaxCpus =< MaxThreads
           /\ Cpus \subseteq AllCpus /\ Cpus \subseteq Threads /\ AllCpus \subseteq Threads
           /\ 0 \in Cpus /\ 0 \in Threads
           /\ NoThread \notin Threads /\ NoCpu \notin AllCpus
<1>1. \A m \in Machines : m[1] \in 1 .. MaxCpus
  BY SchedulerAssumption
<1>2. num_cpus \in 1 .. MaxCpus
  BY <1>1 DEF TypeOK, CpuCounts
<1> QED
  BY <1>2, SchedulerAssumption DEF Cpus, AllCpus, Threads, NoThread, NoCpu

LEMMA ShareFacts ==
    ASSUME NEW a \in Nat, NEW n \in Nat, n >= 1
    PROVE  DIVROUNDUP(a, n) \in Nat
<1>1. a + n - 1 \in Nat
  OBVIOUS
<1> QED  BY <1>1 DEF DIVROUNDUP

LEMMA CountFacts ==
    ASSUME NEW x \in Int
    PROVE  x % UINT_MOD \in 0 .. UINT_MOD - 1
<1>1. UINT_MOD \in Nat /\ UINT_MOD > 0
  BY SchedulerAssumption
<1> QED  BY <1>1

-----------------------------------------------------------------------------
(* The types that do not need counting.                                    *)
ThreadTypes ==
    /\ t_state \in [Threads -> States] /\ t_cpu \in [Threads -> AllCpus \cup {NoCpu}]
    /\ at \in [Threads -> ThreadLabels]
    /\ num \in [Threads -> 0 .. UINT_MOD - 1]
    /\ child \in [Threads -> Threads \cup {NoThread}]
    /\ thread_count \in 0 .. UINT_MOD - 1
CpuTypes ==
    /\ num_cpus \in CpuCounts
    /\ curthread \in [AllCpus -> Threads] /\ isidle \in [AllCpus -> BOOLEAN]
    /\ runqueue_lock \in [AllCpus -> AllCpus \cup {NoCpu}]
    /\ ipi_line \in [AllCpus -> BOOLEAN]
    /\ pc \in [AllCpus -> CpuLabels]
    /\ wc_lock \in [Wchans -> AllCpus \cup {NoCpu}]
ListTypes ==
    /\ runqueue \in [AllCpus -> Seq(Threads)] /\ zombies \in [AllCpus -> Seq(Threads)]
    /\ wc_threads \in [Wchans -> Seq(Threads)]
LocTypes == loc \in [AllCpus -> Locals]

LEMMA NoLocalsType == NoLocals \in Locals
  BY DEF NoLocals, Locals, NewStates

LEMMA LocalsFacts ==
    ASSUME NEW r \in Locals
    PROVE  /\ \A n \in NewStates, w \in Wchans : [r EXCEPT !.new = n, !.wc = w] \in Locals
           /\ \A n \in NewStates : [r EXCEPT !.new = n] \in Locals
           /\ \A s \in Seq(Threads) : [r EXCEPT !.list = s] \in Locals
           /\ \A w \in Wchans, s \in Seq(Threads) : [r EXCEPT !.wc = w, !.list = s] \in Locals
           /\ \A i \in Nat : [r EXCEPT !.i = i] \in Locals
           /\ \A i, a, b \in Nat : [r EXCEPT !.i = i, !.total = a, !.mine = b] \in Locals
           /\ \A s \in Seq(Threads), a \in Nat : [r EXCEPT !.list = s, !.to_send = a] \in Locals
           /\ \A s \in Seq(Threads), a, b \in Nat :
                [r EXCEPT !.list = s, !.to_send = a, !.share = b] \in Locals
  BY DEF Locals

LEMMA ThreadTypesStep ==
    ASSUME SchedInv, Next
    PROVE  ThreadTypes'
<1>1. /\ ThreadTypes /\ CpuTypes /\ ListTypes /\ LocTypes /\ TypeOK
  BY DEF SchedInv, OnePlace, TypeOK, LocalInv, ThreadTypes, CpuTypes, ListTypes, LocTypes
<1>2. PICK c \in Cpus : Interrupt(c) \/ Handler(c) \/ Code(c) \/ User(c)
  BY DEF Next
<1>3. /\ c \in AllCpus /\ AllCpus \subseteq Int /\ curthread[c] \in Threads
      /\ num_cpus \in Nat /\ num_cpus >= 1
      /\ 0 \in 0 .. UINT_MOD - 1 /\ 1 \in 0 .. UINT_MOD - 1
      /\ loc[c] \in Locals
  BY <1>1, CpuFacts, SchedulerAssumption DEF AllCpus, CpuTypes, LocTypes
<1>10. CASE hardclock(c)
  BY <1>10, <1>1, <1>3, CountFacts
     DEF ThreadTypes, States, ThreadLabels, thread, cpu, chans, Goto, hardclock, AfterHardclock,
         Yielding, TakesInterrupts
<1>11. CASE hardclock_migrate(c)
  BY <1>11, <1>1, <1>3, CountFacts
     DEF ThreadTypes, States, ThreadLabels, thread, cpu, chans, Goto, hardclock_migrate,
         TakesInterrupts
<1>12. CASE timerclock(c)
  BY <1>12, <1>1, <1>3, CountFacts
     DEF ThreadTypes, States, ThreadLabels, thread, cpu, chans, Goto, timerclock,
         TakesInterrupts, wchan_wakeall
<1>13. CASE interprocessor_interrupt(c)
  BY <1>13, <1>1, <1>3, CountFacts
     DEF ThreadTypes, States, ThreadLabels, thread, cpu, chans, Goto, interprocessor_interrupt,
         TakesInterrupts
<1>14. CASE thread_make_runnable(c)
  <2>1. Head(loc[c].list) \in Threads
    BY <1>1, <1>3, <1>14, TailFacts DEF Locals, thread_make_runnable
  <2> QED
    BY <1>14, <1>1, <2>1 DEF ThreadTypes, States, thread_make_runnable
<1>15. CASE wake_done(c)
  BY <1>15, <1>1, <1>3, CountFacts
     DEF ThreadTypes, States, ThreadLabels, thread, cpu, chans, Goto, wake_done
<1>16. CASE thread_switch(c)
  <2>1. loc[c].new \in {"READY", "SLEEP", "ZOMBIE"}
    BY <1>16, <1>3 DEF SchedInv, LocalInv, Locals, NewStates, thread_switch
  <2>2. CASE loc[c].new = "READY" /\ runqueue[c] = <<>>
    BY <1>16, <1>1, <2>2 DEF ThreadTypes, thread_switch, thread
  <2>3. CASE ~(loc[c].new = "READY" /\ runqueue[c] = <<>>)
    <3>1. /\ t_state' = [t_state EXCEPT ![curthread[c]] = loc[c].new]
          /\ UNCHANGED <<t_cpu, at, num, child, thread_count>>
      BY <1>16, <2>3 DEF thread_switch
    <3> QED  BY <1>1, <1>3, <2>1, <3>1 DEF ThreadTypes, States
  <2> QED  BY <2>2, <2>3
<1>17. CASE idle(c)
  BY <1>17, <1>1, <1>3, CountFacts
     DEF ThreadTypes, States, ThreadLabels, thread, cpu, chans, Goto, idle
<1>18. CASE unidle(c)
  BY <1>18, <1>1, <1>3, CountFacts
     DEF ThreadTypes, States, ThreadLabels, thread, cpu, chans, Goto, unidle
<1>19. CASE switchframe_switch(c)
  BY <1>19, <1>1, <1>3, CountFacts
     DEF ThreadTypes, States, ThreadLabels, thread, cpu, chans, Goto, switchframe_switch
<1>20. CASE lamebus_clear_ipi(c)
  BY <1>20, <1>1, <1>3, CountFacts
     DEF ThreadTypes, States, ThreadLabels, thread, cpu, chans, Goto, lamebus_clear_ipi
<1>21. CASE migrate_count(c)
  BY <1>21, <1>1, <1>3, CountFacts
     DEF ThreadTypes, States, ThreadLabels, thread, cpu, chans, Goto, migrate_count
<1>22. CASE migrate_take(c)
  BY <1>22, <1>1, <1>3, CountFacts
     DEF ThreadTypes, States, ThreadLabels, thread, cpu, chans, Goto, migrate_take,
         AfterHardclock, Yielding
<1>23. CASE migrate_send(c)
  <2>1. ASSUME loc[c].list # <<>> PROVE Head(loc[c].list) \in Threads
    BY <1>3, <2>1, TailFacts DEF Locals
  <2>2. Len(loc[c].list) >= loc[c].to_send /\ loc[c].list \in Seq(Threads) /\ loc[c].to_send \in Nat
    BY <1>2, <1>3, <1>23 DEF SchedInv, VictimsExist, migrate_send, Locals
  <2>3. loc[c].list # <<>>
    BY <2>2, <1>23 DEF migrate_send
  <2>4. loc[c].i \in AllCpus
    BY <1>23, <1>3, <1>1, CpuFacts DEF migrate_send, Locals, AllCpus
  <2> QED
    BY <1>23, <1>1, <2>1, <2>3, <2>4 DEF ThreadTypes, migrate_send
<1>24. CASE migrate_sent(c)
  BY <1>24, <1>1, <1>3, CountFacts
     DEF ThreadTypes, States, ThreadLabels, thread, cpu, chans, Goto, migrate_sent, Unlocked
<1>25. CASE migrate_leftovers(c)
  BY <1>25, <1>1, <1>3, CountFacts
     DEF ThreadTypes, States, ThreadLabels, thread, cpu, chans, Goto, migrate_leftovers,
         AfterHardclock, Yielding
<1>26. CASE thread_start_cpus(c)
  <2>1. UNCHANGED <<t_state, t_cpu, at, child, thread_count>> /\ num[curthread[c]] > 0
    BY <1>26 DEF thread_start_cpus
  <2>2. CASE sem_count = 0
    BY <1>26, <1>1, <2>1, <2>2 DEF ThreadTypes, thread_start_cpus
  <2>3. CASE sem_count # 0
    <3>1. num' = [num EXCEPT ![curthread[c]] = num[curthread[c]] - 1]
      BY <1>26, <2>3 DEF thread_start_cpus
    <3>2. num[curthread[c]] - 1 \in 0 .. UINT_MOD - 1
      BY <1>1, <1>3, <2>1, SchedulerAssumption DEF ThreadTypes
    <3> QED  BY <1>1, <1>3, <2>1, <3>1, <3>2 DEF ThreadTypes
  <2> QED  BY <2>2, <2>3
<1>27. CASE cpus_online(c)
  BY <1>27, <1>1, <1>3, CountFacts
     DEF ThreadTypes, States, ThreadLabels, thread, cpu, chans, Goto, cpus_online, Runs, Move
<1>28. CASE cpu_hatch(c)
  BY <1>28, <1>1, <1>3, CountFacts
     DEF ThreadTypes, States, ThreadLabels, thread, cpu, chans, Goto, cpu_hatch, Runs, Move,
         wchan_wakeone
<1>29. CASE fork_run(c)
  BY <1>29, <1>1, <1>3, CountFacts
     DEF ThreadTypes, States, ThreadLabels, thread, cpu, chans, Goto, fork_run, Runs, Move
<1>30. CASE thread_wait_for_count(c)
  BY <1>30, <1>1, <1>3, CountFacts
     DEF ThreadTypes, States, ThreadLabels, thread, cpu, chans, Goto, thread_wait_for_count,
         Runs, Move, Sleep
<1>31. CASE clocksleep_return(c)
  BY <1>31, <1>1, <1>3, CountFacts
     DEF ThreadTypes, States, ThreadLabels, thread, cpu, chans, Goto, clocksleep_return, Runs,
         Move
<1>32. CASE exit_count(c)
  BY <1>32, <1>1, <1>3, CountFacts
     DEF ThreadTypes, States, ThreadLabels, thread, cpu, chans, Goto, exit_count, Runs, Move,
         wchan_wakeall
<1>33. CASE exit_switch(c)
  BY <1>33, <1>1, <1>3, CountFacts
     DEF ThreadTypes, States, ThreadLabels, thread, cpu, chans, Goto, exit_switch, Runs
<1>34. ASSUME NEW t \in Threads, thread_fork(c, t) PROVE ThreadTypes'
  BY <1>34, <1>1, <1>3, CountFacts
     DEF ThreadTypes, States, ThreadLabels, thread, cpu, chans, Goto, thread_fork, Runs, Move,
         wchan_wakeall
<1>35. CASE clocksleep(c)
  BY <1>35, <1>1, <1>3, CountFacts
     DEF ThreadTypes, States, ThreadLabels, thread, cpu, chans, Goto, clocksleep, Runs, Move,
         Sleep
<1>36. CASE thread_exit(c)
  BY <1>36, <1>1, <1>3, CountFacts
     DEF ThreadTypes, States, ThreadLabels, thread, cpu, chans, Goto, thread_exit, Runs, Move
<1> QED
  BY <1>2, <1>10, <1>11, <1>12, <1>13, <1>14, <1>15, <1>16, <1>17, <1>18, <1>19, <1>20, <1>21,
     <1>22, <1>23, <1>24, <1>25, <1>26, <1>27, <1>28, <1>29, <1>30, <1>31, <1>32, <1>33, <1>34,
     <1>35, <1>36
     DEF Interrupt, Handler, Code, User

LEMMA CpuTypesStep ==
    ASSUME SchedInv, Next
    PROVE  CpuTypes'
<1>1. /\ ThreadTypes /\ CpuTypes /\ ListTypes /\ LocTypes /\ TypeOK
  BY DEF SchedInv, OnePlace, TypeOK, LocalInv, ThreadTypes, CpuTypes, ListTypes, LocTypes
<1>2. PICK c \in Cpus : Interrupt(c) \/ Handler(c) \/ Code(c) \/ User(c)
  BY DEF Next
<1>3. /\ c \in AllCpus /\ AllCpus \subseteq Int /\ curthread[c] \in Threads
      /\ num_cpus \in Nat /\ num_cpus >= 1
      /\ 0 \in 0 .. UINT_MOD - 1 /\ 1 \in 0 .. UINT_MOD - 1
      /\ loc[c] \in Locals
  BY <1>1, CpuFacts, SchedulerAssumption DEF AllCpus, CpuTypes, LocTypes
<1>10. CASE hardclock(c)
  BY <1>10, <1>1, <1>3
     DEF CpuTypes, CpuLabels, Wchans, thread, cpu, chans, Goto, hardclock, AfterHardclock,
         Yielding, TakesInterrupts
<1>11. CASE hardclock_migrate(c)
  BY <1>11, <1>1, <1>3
     DEF CpuTypes, CpuLabels, Wchans, thread, cpu, chans, Goto, hardclock_migrate, TakesInterrupts
<1>12. CASE timerclock(c)
  BY <1>12, <1>1, <1>3
     DEF CpuTypes, CpuLabels, Wchans, thread, cpu, chans, Goto, timerclock, TakesInterrupts,
         wchan_wakeall
<1>13. CASE interprocessor_interrupt(c)
  BY <1>13, <1>1, <1>3
     DEF CpuTypes, CpuLabels, Wchans, thread, cpu, chans, Goto, interprocessor_interrupt,
         TakesInterrupts
<1>14. CASE thread_make_runnable(c)
  BY <1>14, <1>1, <1>3
     DEF CpuTypes, CpuLabels, Wchans, thread, cpu, chans, Goto, thread_make_runnable
<1>15. CASE wake_done(c)
  BY <1>15, <1>1, <1>3
     DEF CpuTypes, CpuLabels, Wchans, thread, cpu, chans, Goto, wake_done
<1>16. CASE thread_switch(c)
  <2>2. CASE loc[c].new = "READY" /\ runqueue[c] = <<>>
    BY <1>16, <1>1, <1>3, <2>2 DEF CpuTypes, CpuLabels, thread_switch, chans, Goto
  <2>3. CASE ~(loc[c].new = "READY" /\ runqueue[c] = <<>>)
    <3>1. /\ UNCHANGED <<num_cpus, curthread, ipi_line>>
          /\ runqueue_lock' = [runqueue_lock EXCEPT ![c] = c]
          /\ wc_lock' = [w \in Wchans |-> IF w = loc[c].wc THEN NoCpu ELSE wc_lock[w]]
          /\ isidle' = [isidle EXCEPT ![c] = TRUE]
          /\ pc' = [pc EXCEPT ![c] = "pick"]
      BY <1>16, <2>3 DEF thread_switch, Goto
    <3> QED  BY <1>1, <1>3, <3>1 DEF CpuTypes, CpuLabels
  <2> QED  BY <2>2, <2>3
<1>17. CASE idle(c)
  BY <1>17, <1>1, <1>3
     DEF CpuTypes, CpuLabels, Wchans, thread, cpu, chans, Goto, idle
<1>18. CASE unidle(c)
  BY <1>18, <1>1, <1>3
     DEF CpuTypes, CpuLabels, Wchans, thread, cpu, chans, Goto, unidle
<1>19. CASE switchframe_switch(c)
  <2>1. Head(runqueue[c]) \in Threads
    BY <1>1, <1>3, <1>19, TailFacts DEF ListTypes, switchframe_switch
  <2> QED
    BY <1>19, <1>1, <1>3, <2>1 DEF CpuTypes, CpuLabels, switchframe_switch, chans, Goto
<1>20. CASE lamebus_clear_ipi(c)
  BY <1>20, <1>1, <1>3
     DEF CpuTypes, CpuLabels, Wchans, thread, cpu, chans, Goto, lamebus_clear_ipi
<1>21. CASE migrate_count(c)
  BY <1>21, <1>1, <1>3
     DEF CpuTypes, CpuLabels, Wchans, thread, cpu, chans, Goto, migrate_count
<1>22. CASE migrate_take(c)
  BY <1>22, <1>1, <1>3
     DEF CpuTypes, CpuLabels, Wchans, thread, cpu, chans, Goto, migrate_take, AfterHardclock,
         Yielding
<1>23. CASE migrate_send(c)
  BY <1>23, <1>1, <1>3
     DEF CpuTypes, CpuLabels, Wchans, thread, cpu, chans, Goto, migrate_send, Unlocked
<1>24. CASE migrate_sent(c)
  BY <1>24, <1>1, <1>3
     DEF CpuTypes, CpuLabels, Wchans, thread, cpu, chans, Goto, migrate_sent, Unlocked
<1>25. CASE migrate_leftovers(c)
  BY <1>25, <1>1, <1>3
     DEF CpuTypes, CpuLabels, Wchans, thread, cpu, chans, Goto, migrate_leftovers,
         AfterHardclock, Yielding
<1>26. CASE thread_start_cpus(c)
  BY <1>26, <1>1, <1>3
     DEF CpuTypes, CpuLabels, Wchans, thread, cpu, chans, Goto, thread_start_cpus, Runs, Sleep
<1>27. CASE cpus_online(c)
  BY <1>27, <1>1, <1>3
     DEF CpuTypes, CpuLabels, Wchans, thread, cpu, chans, Goto, cpus_online, Runs, Move
<1>28. CASE cpu_hatch(c)
  BY <1>28, <1>1, <1>3
     DEF CpuTypes, CpuLabels, Wchans, thread, cpu, chans, Goto, cpu_hatch, Runs, Move,
         wchan_wakeone
<1>29. CASE fork_run(c)
  BY <1>29, <1>1, <1>3
     DEF CpuTypes, CpuLabels, Wchans, thread, cpu, chans, Goto, fork_run, Runs, Move
<1>30. CASE thread_wait_for_count(c)
  BY <1>30, <1>1, <1>3
     DEF CpuTypes, CpuLabels, Wchans, thread, cpu, chans, Goto, thread_wait_for_count, Runs,
         Move, Sleep
<1>31. CASE clocksleep_return(c)
  BY <1>31, <1>1, <1>3
     DEF CpuTypes, CpuLabels, Wchans, thread, cpu, chans, Goto, clocksleep_return, Runs, Move
<1>32. CASE exit_count(c)
  BY <1>32, <1>1, <1>3
     DEF CpuTypes, CpuLabels, Wchans, thread, cpu, chans, Goto, exit_count, Runs, Move,
         wchan_wakeall
<1>33. CASE exit_switch(c)
  BY <1>33, <1>1, <1>3
     DEF CpuTypes, CpuLabels, Wchans, thread, cpu, chans, Goto, exit_switch, Runs
<1>34. ASSUME NEW t \in Threads, thread_fork(c, t) PROVE CpuTypes'
  BY <1>34, <1>1, <1>3
     DEF CpuTypes, CpuLabels, Wchans, thread, cpu, chans, Goto, thread_fork, Runs, Move,
         wchan_wakeall
<1>35. CASE clocksleep(c)
  BY <1>35, <1>1, <1>3
     DEF CpuTypes, CpuLabels, Wchans, thread, cpu, chans, Goto, clocksleep, Runs, Move, Sleep
<1>36. CASE thread_exit(c)
  BY <1>36, <1>1, <1>3
     DEF CpuTypes, CpuLabels, Wchans, thread, cpu, chans, Goto, thread_exit, Runs, Move
<1> QED
  BY <1>2, <1>10, <1>11, <1>12, <1>13, <1>14, <1>15, <1>16, <1>17, <1>18, <1>19, <1>20, <1>21,
     <1>22, <1>23, <1>24, <1>25, <1>26, <1>27, <1>28, <1>29, <1>30, <1>31, <1>32, <1>33, <1>34,
     <1>35, <1>36
     DEF Interrupt, Handler, Code, User

LEMMA SubSeqFacts ==
    ASSUME NEW S, NEW s \in Seq(S), NEW k \in 0 .. Len(s)
    PROVE  /\ SubSeq(s, 1, k) \in Seq(S) /\ SubSeq(s, k + 1, Len(s)) \in Seq(S)
           /\ Len(SubSeq(s, 1, k)) = k /\ Len(SubSeq(s, k + 1, Len(s))) = Len(s) - k
           /\ \A i \in 1 .. k : SubSeq(s, 1, k)[i] = s[i]
           /\ \A i \in 1 .. Len(s) - k : SubSeq(s, k + 1, Len(s))[i] = s[k + i]
  OBVIOUS

(* The thread that a wakeup takes from its list is somewhere to be put.    *)
LEMMA WakeTarget ==
    ASSUME SchedInv, NEW c \in AllCpus, pc[c] = "wake", loc[c].list # <<>>
    PROVE  t_cpu[Head(loc[c].list)] \in Cpus /\ t_cpu[Head(loc[c].list)] \in AllCpus
<1>1. loc[c].list \in Seq(Threads)
  BY DEF SchedInv, LocalInv, Locals
<1>2. Head(loc[c].list) \in ToSet(loc[c].list) /\ Head(loc[c].list) \in Threads
  BY <1>1, TailFacts
<1>3. t_state[Head(loc[c].list)] # "none"
  BY <1>2 DEF SchedInv, StateInv
<1> QED  BY <1>2, <1>3, CpuFacts DEF SchedInv, StateInv, OnePlace

(* A step that leaves the lists alone and gives a cpu other locals.        *)
LEMMA LocalsOnly ==
    ASSUME ListTypes, LocTypes, NEW c \in AllCpus, NEW r \in Locals,
           loc' = [loc EXCEPT ![c] = r], UNCHANGED <<runqueue, zombies, wc_threads>>
    PROVE  ListTypes' /\ LocTypes'
<1>1. ListTypes'
  BY DEF ListTypes
<1>2. LocTypes'
  BY DEF LocTypes
<1> QED  BY <1>1, <1>2

(* A step that leaves a wait channel with the list s.                      *)
LEMMA ChannelAndLocals ==
    ASSUME ListTypes, LocTypes, NEW c \in AllCpus, NEW r \in Locals,
           NEW w \in Wchans, NEW s \in Seq(Threads),
           loc' = [loc EXCEPT ![c] = r], wc_threads' = [wc_threads EXCEPT ![w] = s],
           UNCHANGED <<runqueue, zombies>>
    PROVE  ListTypes' /\ LocTypes'
<1>1. ListTypes'
  BY DEF ListTypes
<1>2. LocTypes'
  BY DEF LocTypes
<1> QED  BY <1>1, <1>2

(* A step that gives a run queue the list s.                               *)
LEMMA QueueAndLocals ==
    ASSUME ListTypes, LocTypes, NEW c \in AllCpus, NEW r \in Locals,
           NEW d \in AllCpus, NEW s \in Seq(Threads),
           loc' = [loc EXCEPT ![c] = r], runqueue' = [runqueue EXCEPT ![d] = s],
           UNCHANGED <<zombies, wc_threads>>
    PROVE  ListTypes' /\ LocTypes'
<1>1. ListTypes'
  BY DEF ListTypes
<1>2. LocTypes'
  BY DEF LocTypes
<1> QED  BY <1>1, <1>2

(* The locals with which a cpu enters a handler or thread_switch.          *)
LEMMA EntryLocals ==
    /\ NoLocals \in Locals /\ Yielding \in Locals
    /\ [NoLocals EXCEPT !.new = "ZOMBIE"] \in Locals
    /\ \A w \in Wchans : [NoLocals EXCEPT !.new = "SLEEP", !.wc = w] \in Locals
    /\ \A s \in Seq(Threads) : [NoLocals EXCEPT !.list = s] \in Locals
    /\ \A w \in Wchans, s \in Seq(Threads) : [NoLocals EXCEPT !.wc = w, !.list = s] \in Locals
<1>1. {"READY", "SLEEP", "ZOMBIE"} \subseteq NewStates
  BY DEF NewStates
<1> QED  BY <1>1, NoLocalsType, LocalsFacts DEF Yielding

LEMMA ListTypesStep ==
    ASSUME SchedInv, Next
    PROVE  ListTypes' /\ LocTypes'
<1>1. /\ ThreadTypes /\ CpuTypes /\ ListTypes /\ LocTypes /\ TypeOK
  BY DEF SchedInv, OnePlace, TypeOK, LocalInv, ThreadTypes, CpuTypes, ListTypes, LocTypes
<1>2. PICK c \in Cpus : Interrupt(c) \/ Handler(c) \/ Code(c) \/ User(c)
  BY DEF Next
<1>3. /\ c \in AllCpus /\ AllCpus \subseteq Int /\ curthread[c] \in Threads
      /\ num_cpus \in Nat /\ num_cpus >= 1
      /\ 0 \in 0 .. UINT_MOD - 1 /\ 1 \in 0 .. UINT_MOD - 1
      /\ loc[c] \in Locals
  BY <1>1, CpuFacts, SchedulerAssumption DEF AllCpus, CpuTypes, LocTypes
<1>10. CASE hardclock(c)
  <2>1. loc' = [loc EXCEPT ![c] = Yielding] /\ UNCHANGED <<runqueue, zombies, wc_threads>>
    BY <1>10 DEF hardclock, Goto, chans
  <2> QED  BY <1>1, <1>3, <2>1, EntryLocals, LocalsOnly
<1>11. CASE hardclock_migrate(c)
  <2>1. loc' = [loc EXCEPT ![c] = NoLocals] /\ UNCHANGED <<runqueue, zombies, wc_threads>>
    BY <1>11 DEF hardclock_migrate, Goto, chans
  <2> QED  BY <1>1, <1>3, <2>1, EntryLocals, LocalsOnly
<1>12. CASE timerclock(c)
  <2>1. "lbolt" \in Wchans /\ wc_threads["lbolt"] \in Seq(Threads) /\ <<>> \in Seq(Threads)
    BY <1>1 DEF Wchans, ListTypes
  <2>2. /\ loc' = [loc EXCEPT ![c] = [NoLocals EXCEPT !.wc = "lbolt", !.list = wc_threads["lbolt"]]]
        /\ wc_threads' = [wc_threads EXCEPT !["lbolt"] = <<>>]
        /\ UNCHANGED <<runqueue, zombies>>
    BY <1>12 DEF timerclock, wchan_wakeall, Goto
  <2>3. [NoLocals EXCEPT !.wc = "lbolt", !.list = wc_threads["lbolt"]] \in Locals
    BY <2>1, EntryLocals
  <2> QED  BY <1>1, <1>3, <2>1, <2>2, <2>3, ChannelAndLocals
<1>13. CASE interprocessor_interrupt(c)
  <2>1. loc' = [loc EXCEPT ![c] = NoLocals] /\ UNCHANGED <<runqueue, zombies, wc_threads>>
    BY <1>13 DEF interprocessor_interrupt, Goto, chans
  <2> QED  BY <1>1, <1>3, <2>1, EntryLocals, LocalsOnly
<1>14. CASE thread_make_runnable(c)
  <2>1. loc[c].list \in Seq(Threads) /\ loc[c].list # <<>>
    BY <1>14, <1>3 DEF thread_make_runnable, Locals
  <2>2. Head(loc[c].list) \in Threads /\ Tail(loc[c].list) \in Seq(Threads)
    BY <2>1, TailFacts
  <2>3. t_cpu[Head(loc[c].list)] \in AllCpus
    BY <1>1, <2>1, <2>2, <1>14, <1>3, WakeTarget DEF thread_make_runnable, SchedInv
  <2>4. Append(runqueue[t_cpu[Head(loc[c].list)]], Head(loc[c].list)) \in Seq(Threads)
    BY <1>1, <2>2, <2>3, AppendFacts DEF ListTypes
  <2>5. loc' = [loc EXCEPT ![c] = [loc[c] EXCEPT !.list = Tail(loc[c].list)]]
    BY <1>14 DEF thread_make_runnable
  <2>6. [loc[c] EXCEPT !.list = Tail(loc[c].list)] \in Locals
    BY <1>3, <2>2, LocalsFacts
  <2>7. /\ runqueue' = [runqueue EXCEPT ![t_cpu[Head(loc[c].list)]] =
                           Append(runqueue[t_cpu[Head(loc[c].list)]], Head(loc[c].list))]
        /\ UNCHANGED <<zombies, wc_threads>>
    BY <1>14 DEF thread_make_runnable, chans
  <2> QED  BY <1>1, <1>3, <2>3, <2>4, <2>5, <2>6, <2>7, QueueAndLocals
<1>15. CASE wake_done(c)
  <2>1. loc' = [loc EXCEPT ![c] = NoLocals] /\ UNCHANGED <<runqueue, zombies, wc_threads>>
    BY <1>15 DEF wake_done, Goto
  <2> QED  BY <1>1, <1>3, <2>1, EntryLocals, LocalsOnly
<1>16. CASE thread_switch(c)
  <2>2. CASE loc[c].new = "READY" /\ runqueue[c] = <<>>
    BY <1>16, <1>1, <1>3, <2>2, NoLocalsType DEF ListTypes, LocTypes, thread_switch, chans, Goto
  <2>3. CASE ~(loc[c].new = "READY" /\ runqueue[c] = <<>>)
    <3>1. /\ runqueue' = runqueue \/ runqueue' = [runqueue EXCEPT ![c] = Append(runqueue[c], curthread[c])]
          /\ zombies' = zombies \/ zombies' = [zombies EXCEPT ![c] = Append(zombies[c], curthread[c])]
      BY <1>16, <2>3 DEF thread_switch
    <3>2. /\ wc_threads' = [w \in Wchans |-> IF w = loc[c].wc THEN Append(wc_threads[w], curthread[c])
                                              ELSE wc_threads[w]]
          /\ loc' = [loc EXCEPT ![c] = NoLocals]
      BY <1>16, <2>3 DEF thread_switch, Goto
    <3>3. /\ Append(runqueue[c], curthread[c]) \in Seq(Threads)
          /\ Append(zombies[c], curthread[c]) \in Seq(Threads)
          /\ \A w \in Wchans : Append(wc_threads[w], curthread[c]) \in Seq(Threads)
      BY <1>1, <1>3, AppendFacts DEF ListTypes
    <3> QED  BY <1>1, <1>3, <3>1, <3>2, <3>3, NoLocalsType DEF ListTypes, LocTypes
  <2> QED  BY <2>2, <2>3
<1>17. CASE idle(c)
  <2>1. loc' = [loc EXCEPT ![c] = NoLocals] /\ UNCHANGED <<runqueue, zombies, wc_threads>>
    BY <1>17 DEF idle, Goto, chans
  <2> QED  BY <1>1, <1>3, <2>1, EntryLocals, LocalsOnly
<1>18. CASE unidle(c)
  <2>1. loc' = [loc EXCEPT ![c] = NoLocals] /\ UNCHANGED <<runqueue, zombies, wc_threads>>
    BY <1>18 DEF unidle, Goto, chans
  <2> QED  BY <1>1, <1>3, <2>1, EntryLocals, LocalsOnly
<1>19. CASE switchframe_switch(c)
  <2>1. Tail(runqueue[c]) \in Seq(Threads) /\ <<>> \in Seq(Threads)
    BY <1>19, <1>1, <1>3, TailFacts DEF ListTypes, switchframe_switch
  <2>2. /\ runqueue' = [runqueue EXCEPT ![c] = Tail(runqueue[c])]
        /\ zombies' = [zombies EXCEPT ![c] = <<>>]
        /\ loc' = [loc EXCEPT ![c] = NoLocals]
        /\ UNCHANGED wc_threads
    BY <1>19 DEF switchframe_switch, Goto, chans
  <2> QED  BY <1>1, <1>3, <2>1, <2>2, NoLocalsType DEF ListTypes, LocTypes
<1>20. CASE lamebus_clear_ipi(c)
  <2>1. loc' = [loc EXCEPT ![c] = NoLocals] /\ UNCHANGED <<runqueue, zombies, wc_threads>>
    BY <1>20 DEF lamebus_clear_ipi, Goto, chans
  <2> QED  BY <1>1, <1>3, <2>1, EntryLocals, LocalsOnly
<1>21. CASE migrate_count(c)
  <2>1. loc[c].i \in AllCpus /\ loc[c].total \in Nat /\ loc[c].mine \in Nat /\ loc[c].i \in Nat
    BY <1>21, <1>3, <1>1, CpuFacts DEF migrate_count, AllCpus, Locals
  <2>2. Len(runqueue[loc[c].i]) \in Nat
    BY <1>1, <2>1 DEF ListTypes
  <2> DEFINE a == loc[c].total + Len(runqueue[loc[c].i])
             b == IF loc[c].i = c THEN Len(runqueue[loc[c].i]) ELSE loc[c].mine
  <2>3. a \in Nat /\ b \in Nat /\ loc[c].i + 1 \in Nat
    <3>1. \A m, n \in Nat : m + n \in Nat /\ m + 1 \in Nat
      OBVIOUS
    <3> QED  BY <2>1, <2>2, <3>1
  <2>4. loc' = [loc EXCEPT ![c] = [loc[c] EXCEPT !.i = loc[c].i + 1, !.total = a, !.mine = b]]
    BY <1>21 DEF migrate_count
  <2> HIDE DEF a, b
  <2>5. [loc[c] EXCEPT !.i = loc[c].i + 1, !.total = a, !.mine = b] \in Locals
    BY <1>3, <2>3, LocalsFacts
  <2>6. LocTypes'
    BY <1>1, <1>3, <2>4, <2>5 DEF LocTypes
  <2> QED  BY <1>21, <1>1, <2>6 DEF migrate_count, ListTypes, chans
<1>22. CASE migrate_take(c)
  <2> DEFINE share == DIVROUNDUP(loc[c].total, num_cpus)
             rest == Len(runqueue[c]) - (loc[c].mine - share)
  <2>1. CASE loc[c].mine < share
    <3>1. loc' = [loc EXCEPT ![c] = Yielding] /\ UNCHANGED <<runqueue, zombies, wc_threads>>
      BY <1>22, <2>1 DEF migrate_take, Goto, chans
    <3> QED  BY <1>1, <1>3, <3>1, EntryLocals, LocalsOnly
  <2>2. CASE ~(loc[c].mine < share)
    <3>1. /\ loc[c].total \in Nat /\ loc[c].mine \in Nat /\ loc[c].i \in Nat
          /\ runqueue[c] \in Seq(Threads)
      BY <1>1, <1>3 DEF Locals, ListTypes
    <3>2. share \in Nat
      BY <1>3, <3>1, ShareFacts
    <3>3. Len(runqueue[c]) >= loc[c].mine
      BY <1>22, <1>2, <1>3, <3>1 DEF SchedInv, VictimsExist, migrate_take, Cpus
    <3>4. rest \in 0 .. Len(runqueue[c]) /\ loc[c].mine - share \in Nat
      BY <2>2, <3>1, <3>2, <3>3
    <3>5. /\ SubSeq(runqueue[c], 1, rest) \in Seq(Threads)
          /\ SubSeq(runqueue[c], rest + 1, Len(runqueue[c])) \in Seq(Threads)
      BY <3>1, <3>4, SubSeqFacts
    <3>6. /\ runqueue' = [runqueue EXCEPT ![c] = SubSeq(runqueue[c], 1, rest)]
          /\ loc' = [loc EXCEPT ![c] = [NoLocals EXCEPT
                       !.list = SubSeq(runqueue[c], rest + 1, Len(runqueue[c])),
                       !.to_send = loc[c].mine - share, !.share = share]]
          /\ UNCHANGED <<zombies, wc_threads>>
      BY <1>22, <2>2 DEF migrate_take, Goto, chans
    <3>7. LocTypes'
      BY <1>1, <1>3, <3>2, <3>4, <3>5, <3>6, LocalsFacts, NoLocalsType DEF LocTypes
    <3> QED  BY <1>1, <1>3, <3>5, <3>6, <3>7 DEF ListTypes
  <2> QED  BY <2>1, <2>2
<1>23. CASE migrate_send(c)
  <2>1. /\ loc[c].list \in Seq(Threads) /\ loc[c].to_send \in Nat /\ loc[c].i \in Nat
        /\ Len(loc[c].list) >= loc[c].to_send /\ loc[c].to_send > 0
    BY <1>2, <1>3, <1>23 DEF SchedInv, VictimsExist, migrate_send, Locals
  <2>2. loc[c].list # <<>>
    BY <2>1
  <2>3. /\ Tail(loc[c].list) \in Seq(Threads) /\ Head(loc[c].list) \in Threads
        /\ Append(Tail(loc[c].list), Head(loc[c].list)) \in Seq(Threads)
        /\ loc[c].to_send - 1 \in Nat /\ loc[c].i + 1 \in Nat
    BY <2>1, <2>2, TailFacts, AppendFacts
  <2>4. \/ loc' = [loc EXCEPT ![c] = [loc[c] EXCEPT !.i = loc[c].i + 1]]
        \/ loc' = [loc EXCEPT ![c] = [loc[c] EXCEPT
                      !.list = Append(Tail(loc[c].list), Head(loc[c].list)), !.to_send = loc[c].to_send - 1]]
        \/ loc' = [loc EXCEPT ![c] = [loc[c] EXCEPT
                      !.list = Tail(loc[c].list), !.to_send = loc[c].to_send - 1]]
    BY <1>23 DEF migrate_send
  <2>9. /\ [loc[c] EXCEPT !.i = loc[c].i + 1] \in Locals
        /\ [loc[c] EXCEPT !.list = Append(Tail(loc[c].list), Head(loc[c].list)),
                           !.to_send = loc[c].to_send - 1] \in Locals
        /\ [loc[c] EXCEPT !.list = Tail(loc[c].list), !.to_send = loc[c].to_send - 1] \in Locals
    BY <1>3, <2>3, LocalsFacts
  <2>5. LocTypes'
    BY <1>1, <1>3, <2>4, <2>9 DEF LocTypes
  <2>6. \/ runqueue' = runqueue
        \/ runqueue' = [runqueue EXCEPT ![loc[c].i] = Append(runqueue[loc[c].i], Head(loc[c].list))]
    BY <1>23 DEF migrate_send
  <2>7. loc[c].i \in AllCpus
    BY <1>23, <1>3, <1>1, CpuFacts, <2>1 DEF migrate_send, AllCpus
  <2>8. Append(runqueue[loc[c].i], Head(loc[c].list)) \in Seq(Threads)
    BY <1>1, <2>7, <2>3, AppendFacts DEF ListTypes
  <2> QED  BY <1>23, <1>1, <2>5, <2>6, <2>7, <2>8 DEF ListTypes, migrate_send, chans
<1>24. CASE migrate_sent(c)
  <2>1. loc' = [loc EXCEPT ![c] = loc[c]] /\ UNCHANGED <<runqueue, zombies, wc_threads>>
    BY <1>24 DEF migrate_sent, Goto, chans
  <2> QED  BY <1>1, <1>3, <2>1, LocalsOnly
<1>25. CASE migrate_leftovers(c)
  <2>1. runqueue[c] \o loc[c].list \in Seq(Threads)
    BY <1>1, <1>3, ConcatFacts DEF ListTypes, Locals
  <2>2. /\ runqueue' = [runqueue EXCEPT ![c] = runqueue[c] \o loc[c].list]
        /\ loc' = [loc EXCEPT ![c] = Yielding]
        /\ UNCHANGED <<zombies, wc_threads>>
    BY <1>25 DEF migrate_leftovers, Goto, chans
  <2> QED  BY <1>1, <1>3, <2>1, <2>2, EntryLocals, QueueAndLocals
<1>26. CASE thread_start_cpus(c)
  <2>1. "sem" \in Wchans
    BY DEF Wchans
  <2>2. UNCHANGED <<runqueue, zombies, wc_threads>>
    BY <1>26 DEF thread_start_cpus
  <2>3. CASE UNCHANGED loc
    BY <1>1, <2>2, <2>3 DEF ListTypes, LocTypes
  <2>4. CASE loc' = [loc EXCEPT ![c] = [NoLocals EXCEPT !.new = "SLEEP", !.wc = "sem"]]
    BY <1>1, <1>3, <2>1, <2>2, <2>4, EntryLocals, LocalsOnly
  <2> QED  BY <1>26, <2>3, <2>4 DEF thread_start_cpus, Sleep, Goto
<1>27. CASE cpus_online(c)
  <2>1. UNCHANGED <<loc, runqueue, zombies, wc_threads>>
    BY <1>27 DEF cpus_online, cpu, chans
  <2> QED  BY <1>1, <2>1 DEF ListTypes, LocTypes
<1>28. CASE cpu_hatch(c)
  <2> DEFINE s == wc_threads["sem"]
             r == IF s = <<>> THEN <<>> ELSE <<Head(s)>>
             u == IF s = <<>> THEN s ELSE Tail(s)
  <2>1. "sem" \in Wchans /\ s \in Seq(Threads) /\ <<>> \in Seq(Threads)
    BY <1>1 DEF Wchans, ListTypes
  <2>2. r \in Seq(Threads) /\ u \in Seq(Threads)
    BY <2>1, TailFacts
  <2>3. /\ wc_threads' = [wc_threads EXCEPT !["sem"] = u]
        /\ loc' = [loc EXCEPT ![c] = [NoLocals EXCEPT !.wc = "sem", !.list = r]]
        /\ UNCHANGED <<runqueue, zombies>>
    BY <1>28 DEF cpu_hatch, wchan_wakeone, Goto
  <2> HIDE DEF r, u
  <2>4. [NoLocals EXCEPT !.wc = "sem", !.list = r] \in Locals
    BY <2>1, <2>2, EntryLocals
  <2> QED  BY <1>1, <1>3, <2>1, <2>2, <2>3, <2>4, ChannelAndLocals
<1>29. CASE fork_run(c)
  <2>1. child[curthread[c]] \in Threads
    BY <1>29, <1>1, <1>3 DEF fork_run, Runs, SchedInv, BirthInv, ThreadTypes
  <2>2. <<child[curthread[c]]>> \in Seq(Threads)
    BY <2>1
  <2>3. /\ loc' = [loc EXCEPT ![c] = [NoLocals EXCEPT !.list = <<child[curthread[c]]>>]]
        /\ UNCHANGED <<runqueue, zombies, wc_threads>>
    BY <1>29 DEF fork_run, Goto, chans
  <2>4. [NoLocals EXCEPT !.list = <<child[curthread[c]]>>] \in Locals
    BY <2>2, EntryLocals
  <2> QED  BY <1>1, <1>3, <2>3, <2>4, LocalsOnly
<1>30. CASE thread_wait_for_count(c)
  <2>1. "count" \in Wchans
    BY DEF Wchans
  <2>2. UNCHANGED <<runqueue, zombies, wc_threads>>
    BY <1>30 DEF thread_wait_for_count
  <2>3. CASE UNCHANGED loc
    BY <1>1, <2>2, <2>3 DEF ListTypes, LocTypes
  <2>4. CASE loc' = [loc EXCEPT ![c] = [NoLocals EXCEPT !.new = "SLEEP", !.wc = "count"]]
    BY <1>1, <1>3, <2>1, <2>2, <2>4, EntryLocals, LocalsOnly
  <2> QED  BY <1>30, <2>3, <2>4 DEF thread_wait_for_count, Sleep, Goto
<1>31. CASE clocksleep_return(c)
  <2>1. UNCHANGED <<loc, runqueue, zombies, wc_threads>>
    BY <1>31 DEF clocksleep_return, cpu, chans
  <2> QED  BY <1>1, <2>1 DEF ListTypes, LocTypes
<1>32. CASE exit_count(c)
  <2>1. "count" \in Wchans /\ wc_threads["count"] \in Seq(Threads) /\ <<>> \in Seq(Threads)
    BY <1>1 DEF Wchans, ListTypes
  <2>2. /\ loc' = [loc EXCEPT ![c] = [NoLocals EXCEPT !.wc = "count", !.list = wc_threads["count"]]]
        /\ wc_threads' = [wc_threads EXCEPT !["count"] = <<>>]
        /\ UNCHANGED <<runqueue, zombies>>
    BY <1>32 DEF exit_count, wchan_wakeall, Goto
  <2>3. [NoLocals EXCEPT !.wc = "count", !.list = wc_threads["count"]] \in Locals
    BY <2>1, EntryLocals
  <2> QED  BY <1>1, <1>3, <2>1, <2>2, <2>3, ChannelAndLocals
<1>33. CASE exit_switch(c)
  <2>1. loc' = [loc EXCEPT ![c] = [NoLocals EXCEPT !.new = "ZOMBIE"]] /\ UNCHANGED <<runqueue, zombies, wc_threads>>
    BY <1>33 DEF exit_switch, Goto, chans
  <2> QED  BY <1>1, <1>3, <2>1, EntryLocals, LocalsOnly
<1>34. ASSUME NEW t \in Threads, thread_fork(c, t) PROVE ListTypes' /\ LocTypes'
  <2>1. "count" \in Wchans /\ wc_threads["count"] \in Seq(Threads) /\ <<>> \in Seq(Threads)
    BY <1>1 DEF Wchans, ListTypes
  <2>2. /\ loc' = [loc EXCEPT ![c] = [NoLocals EXCEPT !.wc = "count", !.list = wc_threads["count"]]]
        /\ wc_threads' = [wc_threads EXCEPT !["count"] = <<>>]
        /\ UNCHANGED <<runqueue, zombies>>
    BY <1>34 DEF thread_fork, wchan_wakeall, Goto
  <2>3. [NoLocals EXCEPT !.wc = "count", !.list = wc_threads["count"]] \in Locals
    BY <2>1, EntryLocals
  <2> QED  BY <1>1, <1>3, <2>1, <2>2, <2>3, ChannelAndLocals
<1>35. CASE clocksleep(c)
  <2>1. "lbolt" \in Wchans
    BY DEF Wchans
  <2>2. /\ loc' = [loc EXCEPT ![c] = [NoLocals EXCEPT !.new = "SLEEP", !.wc = "lbolt"]]
        /\ UNCHANGED <<runqueue, zombies, wc_threads>>
    BY <1>35 DEF clocksleep, Sleep, Goto
  <2> QED  BY <1>1, <1>3, <2>1, <2>2, EntryLocals, LocalsOnly
<1>36. CASE thread_exit(c)
  <2>1. UNCHANGED <<loc, runqueue, zombies, wc_threads>>
    BY <1>36 DEF thread_exit, cpu, chans
  <2> QED  BY <1>1, <2>1 DEF ListTypes, LocTypes
<1> QED
  BY <1>2, <1>10, <1>11, <1>12, <1>13, <1>14, <1>15, <1>16, <1>17, <1>18, <1>19, <1>20, <1>21,
     <1>22, <1>23, <1>24, <1>25, <1>26, <1>27, <1>28, <1>29, <1>30, <1>31, <1>32, <1>33, <1>34,
     <1>35, <1>36
     DEF Interrupt, Handler, Code, User

-----------------------------------------------------------------------------
(* The branches of the actions that have several.                          *)

(* thread_switch finds no other thread, or puts the current one away.      *)
StayRunning(c) ==
    /\ pc[c] = "switch"
    /\ pc' = [pc EXCEPT ![c] = "run"] /\ loc' = [loc EXCEPT ![c] = NoLocals]
    /\ UNCHANGED <<num_cpus, t_state, t_cpu, at, num, child, curthread, isidle, runqueue,
                   runqueue_lock, zombies, ipi_line, wc_threads, wc_lock, sem_count, thread_count>>
PutAway(c) ==
    /\ pc[c] = "switch"
    /\ pc' = [pc EXCEPT ![c] = "pick"] /\ loc' = [loc EXCEPT ![c] = NoLocals]
    /\ runqueue_lock' = [runqueue_lock EXCEPT ![c] = c]
    /\ \/ loc[c].new = "READY" /\ runqueue' = [runqueue EXCEPT ![c] = Append(runqueue[c], curthread[c])]
       \/ loc[c].new # "READY" /\ runqueue' = runqueue
    /\ wc_threads' = [w \in Wchans |-> IF w = loc[c].wc THEN Append(wc_threads[w], curthread[c])
                                       ELSE wc_threads[w]]
    /\ wc_lock' = [w \in Wchans |-> IF w = loc[c].wc THEN NoCpu ELSE wc_lock[w]]
    /\ \/ loc[c].new = "ZOMBIE" /\ zombies' = [zombies EXCEPT ![c] = Append(zombies[c], curthread[c])]
       \/ loc[c].new # "ZOMBIE" /\ zombies' = zombies
    /\ t_state' = [t_state EXCEPT ![curthread[c]] = loc[c].new]
    /\ isidle' = [isidle EXCEPT ![c] = TRUE]
    /\ UNCHANGED <<num_cpus, t_cpu, at, num, child, curthread, ipi_line, sem_count, thread_count>>

(* Fewer threads than the share, or the rest is taken.                     *)
TakeNone(c) ==
    /\ pc[c] = "mig_count"
    /\ pc' = [pc EXCEPT ![c] = AfterHardclock(c)] /\ loc' = [loc EXCEPT ![c] = Yielding]
    /\ UNCHANGED <<num_cpus, t_state, t_cpu, at, num, child, curthread, isidle, runqueue,
                   runqueue_lock, zombies, ipi_line, wc_threads, wc_lock, sem_count, thread_count>>
TakeVictims(c) ==
    /\ pc[c] = "mig_count"
    /\ pc' = [pc EXCEPT ![c] = "mig_send"]
    /\ \E k \in 0 .. Len(runqueue[c]) : \E share \in Nat :
         /\ runqueue' = [runqueue EXCEPT ![c] = SubSeq(runqueue[c], 1, k)]
         /\ loc' = [loc EXCEPT ![c] = [NoLocals EXCEPT
                       !.list = SubSeq(runqueue[c], k + 1, Len(runqueue[c])),
                       !.to_send = Len(runqueue[c]) - k, !.share = share]]
    /\ UNCHANGED <<num_cpus, t_state, t_cpu, at, num, child, curthread, isidle,
                   runqueue_lock, zombies, ipi_line, wc_threads, wc_lock, sem_count, thread_count>>

(* migrate_send goes to the next cpu, skips the current thread or sends.   *)
NextCpu(c) ==
    /\ pc[c] = "mig_send"
    /\ loc' = [loc EXCEPT ![c] = [loc[c] EXCEPT !.i = loc[c].i + 1]]
    /\ UNCHANGED <<num_cpus, t_state, t_cpu, at, num, child, curthread, isidle, runqueue,
                   zombies, ipi_line, pc, wc_threads, wc_lock, sem_count, thread_count>>
SkipCurrent(c) ==
    /\ pc[c] = "mig_send" /\ loc[c].list # <<>> /\ loc[c].to_send > 0
    /\ loc' = [loc EXCEPT ![c] = [loc[c] EXCEPT
                  !.list = Append(Tail(loc[c].list), Head(loc[c].list)), !.to_send = loc[c].to_send - 1]]
    /\ UNCHANGED <<num_cpus, t_state, t_cpu, at, num, child, curthread, isidle, runqueue,
                   zombies, ipi_line, pc, wc_threads, wc_lock, sem_count, thread_count>>
SendTo(c, d) ==
    /\ pc[c] = "mig_send" /\ loc[c].list # <<>> /\ loc[c].to_send > 0
    /\ d # c /\ Head(loc[c].list) # curthread[c]
    /\ loc' = [loc EXCEPT ![c] = [loc[c] EXCEPT
                  !.list = Tail(loc[c].list), !.to_send = loc[c].to_send - 1]]
    /\ t_cpu' = [t_cpu EXCEPT ![Head(loc[c].list)] = d]
    /\ runqueue' = [runqueue EXCEPT ![d] = Append(runqueue[d], Head(loc[c].list))]
    /\ ipi_line' = [ipi_line EXCEPT ![d] = ipi_line[d] \/ isidle[d]]
    /\ UNCHANGED <<num_cpus, t_state, at, num, child, curthread, isidle,
                   zombies, pc, wc_threads, wc_lock, sem_count, thread_count>>

(* P and thread_wait_for_count wait, or do not.                            *)
FallAsleep(c, w) ==
    /\ pc[c] = "run"
    /\ pc' = [pc EXCEPT ![c] = "switch"]
    /\ loc' = [loc EXCEPT ![c] = [NoLocals EXCEPT !.new = "SLEEP", !.wc = w]]
    /\ UNCHANGED <<num_cpus, t_state, t_cpu, at, num, child, curthread, isidle, runqueue,
                   zombies, ipi_line, wc_threads, sem_count, thread_count>>
TakeUnit(c) ==
    /\ Runs(c, "boot") /\ sem_count > 0
    /\ sem_count' = sem_count - 1
    /\ UNCHANGED <<num_cpus, t_state, t_cpu, at, child, curthread, isidle, runqueue,
                   runqueue_lock, zombies, ipi_line, pc, loc, wc_threads, wc_lock, thread_count>>
CountReached(c) ==
    /\ Runs(c, "count")
    /\ Move(c, "user")
    /\ UNCHANGED <<num_cpus, t_state, t_cpu, num, child, curthread, isidle, runqueue,
                   runqueue_lock, zombies, ipi_line, pc, loc, wc_threads, wc_lock, sem_count,
                   thread_count>>

LEMMA SwitchCases ==
    ASSUME NEW c, thread_switch(c)
    PROVE  StayRunning(c) \/ PutAway(c)
<1>1. CASE loc[c].new = "READY" /\ runqueue[c] = <<>>
  BY <1>1 DEF thread_switch, StayRunning, Goto, thread, chans
<1>2. CASE ~(loc[c].new = "READY" /\ runqueue[c] = <<>>)
  <2>1. /\ pc[c] = "switch"
        /\ pc' = [pc EXCEPT ![c] = "pick"] /\ loc' = [loc EXCEPT ![c] = NoLocals]
        /\ runqueue_lock' = [runqueue_lock EXCEPT ![c] = c]
        /\ wc_threads' = [w \in Wchans |-> IF w = loc[c].wc THEN Append(wc_threads[w], curthread[c])
                                           ELSE wc_threads[w]]
        /\ wc_lock' = [w \in Wchans |-> IF w = loc[c].wc THEN NoCpu ELSE wc_lock[w]]
        /\ t_state' = [t_state EXCEPT ![curthread[c]] = loc[c].new]
        /\ isidle' = [isidle EXCEPT ![c] = TRUE]
        /\ UNCHANGED <<num_cpus, t_cpu, at, num, child, curthread, ipi_line, sem_count, thread_count>>
    BY <1>2 DEF thread_switch, Goto
  <2>2. \/ loc[c].new = "READY" /\ runqueue' = [runqueue EXCEPT ![c] = Append(runqueue[c], curthread[c])]
        \/ loc[c].new # "READY" /\ runqueue' = runqueue
    BY <1>2 DEF thread_switch
  <2>3. \/ loc[c].new = "ZOMBIE" /\ zombies' = [zombies EXCEPT ![c] = Append(zombies[c], curthread[c])]
        \/ loc[c].new # "ZOMBIE" /\ zombies' = zombies
    BY <1>2 DEF thread_switch
  <2> QED  BY <2>1, <2>2, <2>3 DEF PutAway
<1> QED  BY <1>1, <1>2

LEMMA TakeCases ==
    ASSUME SchedInv, NEW c \in Cpus, migrate_take(c)
    PROVE  TakeNone(c) \/ TakeVictims(c)
<1> DEFINE share == DIVROUNDUP(loc[c].total, num_cpus)
           rest == Len(runqueue[c]) - (loc[c].mine - share)
<1>1. CASE loc[c].mine < share
  BY <1>1 DEF migrate_take, TakeNone, Goto, thread, chans
<1>2. CASE ~(loc[c].mine < share)
  <2>1. TypeOK /\ c \in AllCpus /\ c < num_cpus /\ num_cpus \in Nat /\ num_cpus >= 1 /\ c \in Int
    BY CpuFacts DEF SchedInv, OnePlace, Cpus
  <2>2. /\ loc[c].total \in Nat /\ loc[c].mine \in Nat /\ loc[c].i = num_cpus
        /\ runqueue[c] \in Seq(Threads) /\ pc[c] = "mig_count"
    BY <2>1 DEF SchedInv, LocalInv, Locals, TypeOK, migrate_take
  <2>3. share \in Nat
    BY <2>1, <2>2, ShareFacts
  <2>4. Len(runqueue[c]) >= loc[c].mine
    BY <2>1, <2>2 DEF SchedInv, VictimsExist
  <2>5. rest \in 0 .. Len(runqueue[c]) /\ Len(runqueue[c]) - rest = loc[c].mine - share
    BY <1>2, <2>2, <2>3, <2>4
  <2>6. /\ pc' = [pc EXCEPT ![c] = "mig_send"]
        /\ runqueue' = [runqueue EXCEPT ![c] = SubSeq(runqueue[c], 1, rest)]
        /\ loc' = [loc EXCEPT ![c] = [NoLocals EXCEPT
                     !.list = SubSeq(runqueue[c], rest + 1, Len(runqueue[c])),
                     !.to_send = loc[c].mine - share, !.share = share]]
    BY <1>2 DEF migrate_take, Goto
  <2>7. UNCHANGED <<num_cpus, t_state, t_cpu, at, num, child, curthread, isidle,
                    runqueue_lock, zombies, ipi_line, wc_threads, wc_lock, sem_count, thread_count>>
    BY DEF migrate_take, thread, chans
  <2> HIDE DEF share, rest
  <2>8. loc' = [loc EXCEPT ![c] = [NoLocals EXCEPT
                     !.list = SubSeq(runqueue[c], rest + 1, Len(runqueue[c])),
                     !.to_send = Len(runqueue[c]) - rest, !.share = share]]
    BY <2>5, <2>6
  <2> QED  BY <2>2, <2>3, <2>5, <2>6, <2>7, <2>8 DEF TakeVictims
<1> QED  BY <1>1, <1>2

LEMMA SendCases ==
    ASSUME SchedInv, NEW c \in Cpus, migrate_send(c)
    PROVE  NextCpu(c) \/ SkipCurrent(c) \/ \E d \in Cpus : SendTo(c, d)
<1>1. /\ TypeOK /\ c \in AllCpus /\ num_cpus \in Nat
      /\ pc[c] = "mig_send" /\ loc[c].i < num_cpus /\ loc[c].to_send > 0
  BY CpuFacts DEF SchedInv, OnePlace, migrate_send
<1>2. /\ loc[c].list \in Seq(Threads) /\ loc[c].to_send \in Nat /\ loc[c].i \in Nat
      /\ Len(loc[c].list) >= loc[c].to_send
  BY <1>1 DEF SchedInv, LocalInv, Locals, VictimsExist
<1>3. loc[c].list # <<>> /\ loc[c].i \in Cpus
  BY <1>1, <1>2 DEF Cpus
<1>4. UNCHANGED <<num_cpus, t_state, at, num, child, curthread, isidle, zombies, pc,
                  wc_threads, wc_lock, sem_count, thread_count>>
  BY DEF migrate_send, chans
<1>5. CASE loc[c].i = c \/ Len(runqueue[loc[c].i]) >= loc[c].share
  <2>1. /\ loc' = [loc EXCEPT ![c] = [loc[c] EXCEPT !.i = loc[c].i + 1]]
        /\ UNCHANGED <<t_cpu, runqueue, ipi_line>>
    BY <1>5 DEF migrate_send
  <2> QED  BY <1>1, <1>4, <2>1 DEF NextCpu
<1>6. CASE ~(loc[c].i = c \/ Len(runqueue[loc[c].i]) >= loc[c].share)
  <2>1. CASE Head(loc[c].list) = curthread[c]
    <3>1. /\ loc' = [loc EXCEPT ![c] = [loc[c] EXCEPT
                        !.list = Append(Tail(loc[c].list), Head(loc[c].list)),
                        !.to_send = loc[c].to_send - 1]]
          /\ UNCHANGED <<t_cpu, runqueue, ipi_line>>
      BY <1>6, <2>1 DEF migrate_send
    <3> QED  BY <1>1, <1>3, <1>4, <3>1 DEF SkipCurrent
  <2>2. CASE Head(loc[c].list) # curthread[c]
    <3>1. /\ loc' = [loc EXCEPT ![c] = [loc[c] EXCEPT
                        !.list = Tail(loc[c].list), !.to_send = loc[c].to_send - 1]]
          /\ t_cpu' = [t_cpu EXCEPT ![Head(loc[c].list)] = loc[c].i]
          /\ runqueue' = [runqueue EXCEPT ![loc[c].i] =
                              Append(runqueue[loc[c].i], Head(loc[c].list))]
          /\ ipi_line' = [ipi_line EXCEPT ![loc[c].i] = ipi_line[loc[c].i] \/ isidle[loc[c].i]]
      BY <1>6, <2>2 DEF migrate_send
    <3>2. SendTo(c, loc[c].i)
      BY <1>1, <1>3, <1>4, <1>6, <2>2, <3>1 DEF SendTo
    <3> QED  BY <1>3, <3>2
  <2> QED  BY <2>1, <2>2
<1> QED  BY <1>5, <1>6

LEMMA WaitCases ==
    ASSUME NEW c \in Cpus, TypeOK
    PROVE  /\ thread_start_cpus(c) => FallAsleep(c, "sem") \/ TakeUnit(c)
           /\ thread_wait_for_count(c) => FallAsleep(c, "count") \/ CountReached(c)
<1>1. ASSUME thread_start_cpus(c) PROVE FallAsleep(c, "sem") \/ TakeUnit(c)
  <2>1. CASE sem_count = 0
    <3>1. Sleep(c, "sem") /\ UNCHANGED <<sem_count, num>>
      BY <1>1, <2>1 DEF thread_start_cpus
    <3> QED  BY <1>1, <3>1 DEF thread_start_cpus, Sleep, Goto, FallAsleep, Runs
  <2>2. CASE sem_count # 0
    <3>1. sem_count' = sem_count - 1 /\ UNCHANGED <<wc_lock, pc, loc>>
      BY <1>1, <2>2 DEF thread_start_cpus
    <3>2. sem_count > 0
      BY <2>2, CpuFacts DEF TypeOK
    <3> QED  BY <1>1, <3>1, <3>2 DEF thread_start_cpus, TakeUnit
  <2> QED  BY <2>1, <2>2
<1>2. ASSUME thread_wait_for_count(c) PROVE FallAsleep(c, "count") \/ CountReached(c)
  <2>1. CASE thread_count # num[curthread[c]]
    <3>1. Sleep(c, "count") /\ UNCHANGED at
      BY <1>2, <2>1 DEF thread_wait_for_count
    <3> QED  BY <1>2, <3>1 DEF thread_wait_for_count, Sleep, Goto, FallAsleep, Runs
  <2>2. CASE ~(thread_count # num[curthread[c]])
    <3>1. Move(c, "user") /\ UNCHANGED <<wc_lock, pc, loc>>
      BY <1>2, <2>2 DEF thread_wait_for_count
    <3> QED  BY <1>2, <3>1 DEF thread_wait_for_count, CountReached
  <2> QED  BY <2>1, <2>2
<1> QED  BY <1>1, <1>2

(* A step is one of these, by one cpu.                                     *)
Branch(c) ==
    \/ hardclock(c) \/ hardclock_migrate(c) \/ timerclock(c)
    \/ interprocessor_interrupt(c) \/ thread_make_runnable(c) \/ wake_done(c)
    \/ StayRunning(c) \/ PutAway(c) \/ idle(c) \/ unidle(c)
    \/ switchframe_switch(c) \/ lamebus_clear_ipi(c) \/ migrate_count(c)
    \/ TakeNone(c) \/ TakeVictims(c) \/ NextCpu(c) \/ SkipCurrent(c)
    \/ (\E d \in Cpus : SendTo(c, d)) \/ migrate_sent(c)
    \/ migrate_leftovers(c) \/ (\E w \in Wchans : FallAsleep(c, w))
    \/ TakeUnit(c) \/ cpus_online(c) \/ cpu_hatch(c) \/ fork_run(c)
    \/ CountReached(c) \/ clocksleep_return(c) \/ exit_count(c)
    \/ exit_switch(c) \/ (\E t \in Threads : thread_fork(c, t))
    \/ clocksleep(c) \/ thread_exit(c)

LEMMA Branches ==
    ASSUME SchedInv, Next
    PROVE  \E c \in Cpus : Branch(c)
<1>1. PICK c \in Cpus : Interrupt(c) \/ Handler(c) \/ Code(c) \/ User(c)
  BY DEF Next
<1>2. TypeOK
  BY DEF SchedInv, OnePlace
<1>3. /\ thread_switch(c) => StayRunning(c) \/ PutAway(c)
      /\ migrate_take(c) => TakeNone(c) \/ TakeVictims(c)
      /\ migrate_send(c) => NextCpu(c) \/ SkipCurrent(c) \/ \E d \in Cpus : SendTo(c, d)
      /\ thread_start_cpus(c) => FallAsleep(c, "sem") \/ TakeUnit(c)
      /\ thread_wait_for_count(c) => FallAsleep(c, "count") \/ CountReached(c)
  BY <1>2, SwitchCases, TakeCases, SendCases, WaitCases
<1>4. "sem" \in Wchans /\ "count" \in Wchans
  BY DEF Wchans
<1>5. Branch(c)
  <2>1. CASE Interrupt(c)  BY <2>1 DEF Interrupt, Branch
  <2>2. CASE Handler(c)  BY <2>2, <1>3 DEF Handler, Branch
  <2>3. CASE Code(c)  BY <2>3, <1>3, <1>4 DEF Code, Branch
  <2>4. CASE User(c)  BY <2>4 DEF User, Branch
  <2> QED  BY <1>1, <2>1, <2>2, <2>3, <2>4
<1> QED  BY <1>5

(* isidle follows the label.                                               *)
LEMMA IdleStep ==
    ASSUME SchedInv, NEW c \in Cpus, Branch(c)
    PROVE  IdleInv'
<1>1. /\ ThreadTypes /\ CpuTypes /\ ListTypes /\ LocTypes /\ TypeOK
  BY DEF SchedInv, OnePlace, TypeOK, LocalInv, ThreadTypes, CpuTypes, ListTypes, LocTypes
<1>2. /\ c \in AllCpus /\ AllCpus \subseteq Int /\ curthread[c] \in Threads /\ loc[c] \in Locals
      /\ num_cpus \in Nat /\ num_cpus >= 1 /\ Cpus \subseteq AllCpus
  BY <1>1, CpuFacts DEF AllCpus, CpuTypes, LocTypes
<1>3. IdleInv
  BY DEF SchedInv
<1>10. CASE hardclock(c)
  BY <1>10, <1>1, <1>2, <1>3
     DEF IdleInv, CpuTypes, Cpus, thread, cpu, chans, Goto, hardclock, AfterHardclock, Yielding,
         TakesInterrupts
<1>11. CASE hardclock_migrate(c)
  BY <1>11, <1>1, <1>2, <1>3
     DEF IdleInv, CpuTypes, Cpus, thread, cpu, chans, Goto, hardclock_migrate, TakesInterrupts
<1>12. CASE timerclock(c)
  BY <1>12, <1>1, <1>2, <1>3
     DEF IdleInv, CpuTypes, Cpus, thread, cpu, chans, Goto, timerclock, TakesInterrupts,
         wchan_wakeall
<1>13. CASE interprocessor_interrupt(c)
  BY <1>13, <1>1, <1>2, <1>3
     DEF IdleInv, CpuTypes, Cpus, thread, cpu, chans, Goto, interprocessor_interrupt,
         TakesInterrupts
<1>14. CASE thread_make_runnable(c)
  BY <1>14, <1>1, <1>2, <1>3
     DEF IdleInv, CpuTypes, Cpus, thread, cpu, chans, Goto, thread_make_runnable
<1>15. CASE wake_done(c)
  BY <1>15, <1>1, <1>2, <1>3
     DEF IdleInv, CpuTypes, Cpus, thread, cpu, chans, Goto, wake_done
<1>16. CASE StayRunning(c)
  BY <1>16, <1>1, <1>2, <1>3
     DEF IdleInv, CpuTypes, Cpus, thread, cpu, chans, Goto, StayRunning
<1>17. CASE PutAway(c)
  BY <1>17, <1>1, <1>2, <1>3
     DEF IdleInv, CpuTypes, Cpus, thread, cpu, chans, Goto, PutAway
<1>18. CASE idle(c)
  BY <1>18, <1>1, <1>2, <1>3
     DEF IdleInv, CpuTypes, Cpus, thread, cpu, chans, Goto, idle
<1>19. CASE unidle(c)
  BY <1>19, <1>1, <1>2, <1>3
     DEF IdleInv, CpuTypes, Cpus, thread, cpu, chans, Goto, unidle
<1>20. CASE switchframe_switch(c)
  BY <1>20, <1>1, <1>2, <1>3
     DEF IdleInv, CpuTypes, Cpus, thread, cpu, chans, Goto, switchframe_switch
<1>21. CASE lamebus_clear_ipi(c)
  BY <1>21, <1>1, <1>2, <1>3
     DEF IdleInv, CpuTypes, Cpus, thread, cpu, chans, Goto, lamebus_clear_ipi
<1>22. CASE migrate_count(c)
  BY <1>22, <1>1, <1>2, <1>3
     DEF IdleInv, CpuTypes, Cpus, thread, cpu, chans, Goto, migrate_count
<1>23. CASE TakeNone(c)
  BY <1>23, <1>1, <1>2, <1>3
     DEF IdleInv, CpuTypes, Cpus, thread, cpu, chans, Goto, TakeNone, AfterHardclock, Yielding
<1>24. CASE TakeVictims(c)
  BY <1>24, <1>1, <1>2, <1>3
     DEF IdleInv, CpuTypes, Cpus, thread, cpu, chans, Goto, TakeVictims
<1>25. CASE NextCpu(c)
  BY <1>25, <1>1, <1>2, <1>3
     DEF IdleInv, CpuTypes, Cpus, thread, cpu, chans, Goto, NextCpu
<1>26. CASE SkipCurrent(c)
  BY <1>26, <1>1, <1>2, <1>3
     DEF IdleInv, CpuTypes, Cpus, thread, cpu, chans, Goto, SkipCurrent
<1>27. ASSUME NEW d \in Cpus, SendTo(c, d) PROVE IdleInv'
  BY <1>27, <1>1, <1>2, <1>3
     DEF IdleInv, CpuTypes, Cpus, thread, cpu, chans, Goto, SendTo
<1>28. CASE migrate_sent(c)
  BY <1>28, <1>1, <1>2, <1>3
     DEF IdleInv, CpuTypes, Cpus, thread, cpu, chans, Goto, migrate_sent, Unlocked
<1>29. CASE migrate_leftovers(c)
  BY <1>29, <1>1, <1>2, <1>3
     DEF IdleInv, CpuTypes, Cpus, thread, cpu, chans, Goto, migrate_leftovers, AfterHardclock,
         Yielding
<1>30. ASSUME NEW w \in Wchans, FallAsleep(c, w) PROVE IdleInv'
  BY <1>30, <1>1, <1>2, <1>3
     DEF IdleInv, CpuTypes, Cpus, thread, cpu, chans, Goto, FallAsleep
<1>31. CASE TakeUnit(c)
  BY <1>31, <1>1, <1>2, <1>3
     DEF IdleInv, CpuTypes, Cpus, thread, cpu, chans, Goto, TakeUnit, Runs
<1>32. CASE cpus_online(c)
  BY <1>32, <1>1, <1>2, <1>3
     DEF IdleInv, CpuTypes, Cpus, thread, cpu, chans, Goto, cpus_online, Runs, Move
<1>33. CASE cpu_hatch(c)
  BY <1>33, <1>1, <1>2, <1>3
     DEF IdleInv, CpuTypes, Cpus, thread, cpu, chans, Goto, cpu_hatch, Runs, Move, wchan_wakeone
<1>34. CASE fork_run(c)
  BY <1>34, <1>1, <1>2, <1>3
     DEF IdleInv, CpuTypes, Cpus, thread, cpu, chans, Goto, fork_run, Runs, Move
<1>35. CASE CountReached(c)
  BY <1>35, <1>1, <1>2, <1>3
     DEF IdleInv, CpuTypes, Cpus, thread, cpu, chans, Goto, CountReached, Runs, Move
<1>36. CASE clocksleep_return(c)
  BY <1>36, <1>1, <1>2, <1>3
     DEF IdleInv, CpuTypes, Cpus, thread, cpu, chans, Goto, clocksleep_return, Runs, Move
<1>37. CASE exit_count(c)
  BY <1>37, <1>1, <1>2, <1>3
     DEF IdleInv, CpuTypes, Cpus, thread, cpu, chans, Goto, exit_count, Runs, Move, wchan_wakeall
<1>38. CASE exit_switch(c)
  BY <1>38, <1>1, <1>2, <1>3
     DEF IdleInv, CpuTypes, Cpus, thread, cpu, chans, Goto, exit_switch, Runs
<1>39. ASSUME NEW t \in Threads, thread_fork(c, t) PROVE IdleInv'
  BY <1>39, <1>1, <1>2, <1>3
     DEF IdleInv, CpuTypes, Cpus, thread, cpu, chans, Goto, thread_fork, Runs, Move, wchan_wakeall
<1>40. CASE clocksleep(c)
  BY <1>40, <1>1, <1>2, <1>3
     DEF IdleInv, CpuTypes, Cpus, thread, cpu, chans, Goto, clocksleep, Runs, Move, Sleep
<1>41. CASE thread_exit(c)
  BY <1>41, <1>1, <1>2, <1>3
     DEF IdleInv, CpuTypes, Cpus, thread, cpu, chans, Goto, thread_exit, Runs, Move
<1> QED
  BY <1>10, <1>11, <1>12, <1>13, <1>14, <1>15, <1>16, <1>17, <1>18, <1>19, <1>20, <1>21, <1>22,
     <1>23, <1>24, <1>25, <1>26, <1>27, <1>28, <1>29, <1>30, <1>31, <1>32, <1>33, <1>34, <1>35,
     <1>36, <1>37, <1>38, <1>39, <1>40, <1>41
     DEF Branch

(* An idle cpu is told of a new thread on its queue.                       *)
LEMMA UnidleStep ==
    ASSUME SchedInv, NEW c \in Cpus, Branch(c)
    PROVE  NoLostUnidle'
<1>1. /\ ThreadTypes /\ CpuTypes /\ ListTypes /\ LocTypes /\ TypeOK
  BY DEF SchedInv, OnePlace, TypeOK, LocalInv, ThreadTypes, CpuTypes, ListTypes, LocTypes
<1>2. /\ c \in AllCpus /\ AllCpus \subseteq Int /\ curthread[c] \in Threads /\ loc[c] \in Locals
      /\ num_cpus \in Nat /\ num_cpus >= 1 /\ Cpus \subseteq AllCpus
  BY <1>1, CpuFacts DEF AllCpus, CpuTypes, LocTypes
<1>3. NoLostUnidle
  BY DEF SchedInv
<1>4. \A d \in Cpus : pc[d] = "idle" => isidle[d]
  BY DEF SchedInv, IdleInv
<1>10. CASE hardclock(c)
  BY <1>10, <1>1, <1>2, <1>3, <1>4
     DEF NoLostUnidle, CpuTypes, ListTypes, Cpus, thread, cpu, chans, Goto, hardclock,
         AfterHardclock, Yielding, TakesInterrupts
<1>11. CASE hardclock_migrate(c)
  BY <1>11, <1>1, <1>2, <1>3, <1>4
     DEF NoLostUnidle, CpuTypes, ListTypes, Cpus, thread, cpu, chans, Goto, hardclock_migrate,
         TakesInterrupts
<1>12. CASE timerclock(c)
  BY <1>12, <1>1, <1>2, <1>3, <1>4
     DEF NoLostUnidle, CpuTypes, ListTypes, Cpus, thread, cpu, chans, Goto, timerclock,
         TakesInterrupts, wchan_wakeall
<1>13. CASE interprocessor_interrupt(c)
  BY <1>13, <1>1, <1>2, <1>3, <1>4
     DEF NoLostUnidle, CpuTypes, ListTypes, Cpus, thread, cpu, chans, Goto,
         interprocessor_interrupt, TakesInterrupts
<1>14. CASE thread_make_runnable(c)
  BY <1>14, <1>1, <1>2, <1>3, <1>4
     DEF NoLostUnidle, CpuTypes, ListTypes, Cpus, thread, cpu, chans, Goto, thread_make_runnable
<1>15. CASE wake_done(c)
  BY <1>15, <1>1, <1>2, <1>3, <1>4
     DEF NoLostUnidle, CpuTypes, ListTypes, Cpus, thread, cpu, chans, Goto, wake_done
<1>16. CASE StayRunning(c)
  BY <1>16, <1>1, <1>2, <1>3, <1>4
     DEF NoLostUnidle, CpuTypes, ListTypes, Cpus, thread, cpu, chans, Goto, StayRunning
<1>17. CASE PutAway(c)
  BY <1>17, <1>1, <1>2, <1>3, <1>4
     DEF NoLostUnidle, CpuTypes, ListTypes, Cpus, thread, cpu, chans, Goto, PutAway
<1>18. CASE idle(c)
  BY <1>18, <1>1, <1>2, <1>3, <1>4
     DEF NoLostUnidle, CpuTypes, ListTypes, Cpus, thread, cpu, chans, Goto, idle
<1>19. CASE unidle(c)
  BY <1>19, <1>1, <1>2, <1>3, <1>4
     DEF NoLostUnidle, CpuTypes, ListTypes, Cpus, thread, cpu, chans, Goto, unidle
<1>20. CASE switchframe_switch(c)
  BY <1>20, <1>1, <1>2, <1>3, <1>4
     DEF NoLostUnidle, CpuTypes, ListTypes, Cpus, thread, cpu, chans, Goto, switchframe_switch
<1>21. CASE lamebus_clear_ipi(c)
  BY <1>21, <1>1, <1>2, <1>3, <1>4
     DEF NoLostUnidle, CpuTypes, ListTypes, Cpus, thread, cpu, chans, Goto, lamebus_clear_ipi
<1>22. CASE migrate_count(c)
  BY <1>22, <1>1, <1>2, <1>3, <1>4
     DEF NoLostUnidle, CpuTypes, ListTypes, Cpus, thread, cpu, chans, Goto, migrate_count
<1>23. CASE TakeNone(c)
  BY <1>23, <1>1, <1>2, <1>3, <1>4
     DEF NoLostUnidle, CpuTypes, ListTypes, Cpus, thread, cpu, chans, Goto, TakeNone,
         AfterHardclock, Yielding
<1>24. CASE TakeVictims(c)
  BY <1>24, <1>1, <1>2, <1>3, <1>4
     DEF NoLostUnidle, CpuTypes, ListTypes, Cpus, thread, cpu, chans, Goto, TakeVictims
<1>25. CASE NextCpu(c)
  BY <1>25, <1>1, <1>2, <1>3, <1>4
     DEF NoLostUnidle, CpuTypes, ListTypes, Cpus, thread, cpu, chans, Goto, NextCpu
<1>26. CASE SkipCurrent(c)
  BY <1>26, <1>1, <1>2, <1>3, <1>4
     DEF NoLostUnidle, CpuTypes, ListTypes, Cpus, thread, cpu, chans, Goto, SkipCurrent
<1>27. ASSUME NEW d \in Cpus, SendTo(c, d) PROVE NoLostUnidle'
  BY <1>27, <1>1, <1>2, <1>3, <1>4
     DEF NoLostUnidle, CpuTypes, ListTypes, Cpus, thread, cpu, chans, Goto, SendTo
<1>28. CASE migrate_sent(c)
  BY <1>28, <1>1, <1>2, <1>3, <1>4
     DEF NoLostUnidle, CpuTypes, ListTypes, Cpus, thread, cpu, chans, Goto, migrate_sent, Unlocked
<1>29. CASE migrate_leftovers(c)
  BY <1>29, <1>1, <1>2, <1>3, <1>4
     DEF NoLostUnidle, CpuTypes, ListTypes, Cpus, thread, cpu, chans, Goto, migrate_leftovers,
         AfterHardclock, Yielding
<1>30. ASSUME NEW w \in Wchans, FallAsleep(c, w) PROVE NoLostUnidle'
  BY <1>30, <1>1, <1>2, <1>3, <1>4
     DEF NoLostUnidle, CpuTypes, ListTypes, Cpus, thread, cpu, chans, Goto, FallAsleep
<1>31. CASE TakeUnit(c)
  BY <1>31, <1>1, <1>2, <1>3, <1>4
     DEF NoLostUnidle, CpuTypes, ListTypes, Cpus, thread, cpu, chans, Goto, TakeUnit, Runs
<1>32. CASE cpus_online(c)
  BY <1>32, <1>1, <1>2, <1>3, <1>4
     DEF NoLostUnidle, CpuTypes, ListTypes, Cpus, thread, cpu, chans, Goto, cpus_online, Runs,
         Move
<1>33. CASE cpu_hatch(c)
  BY <1>33, <1>1, <1>2, <1>3, <1>4
     DEF NoLostUnidle, CpuTypes, ListTypes, Cpus, thread, cpu, chans, Goto, cpu_hatch, Runs,
         Move, wchan_wakeone
<1>34. CASE fork_run(c)
  BY <1>34, <1>1, <1>2, <1>3, <1>4
     DEF NoLostUnidle, CpuTypes, ListTypes, Cpus, thread, cpu, chans, Goto, fork_run, Runs, Move
<1>35. CASE CountReached(c)
  BY <1>35, <1>1, <1>2, <1>3, <1>4
     DEF NoLostUnidle, CpuTypes, ListTypes, Cpus, thread, cpu, chans, Goto, CountReached, Runs,
         Move
<1>36. CASE clocksleep_return(c)
  BY <1>36, <1>1, <1>2, <1>3, <1>4
     DEF NoLostUnidle, CpuTypes, ListTypes, Cpus, thread, cpu, chans, Goto, clocksleep_return,
         Runs, Move
<1>37. CASE exit_count(c)
  BY <1>37, <1>1, <1>2, <1>3, <1>4
     DEF NoLostUnidle, CpuTypes, ListTypes, Cpus, thread, cpu, chans, Goto, exit_count, Runs,
         Move, wchan_wakeall
<1>38. CASE exit_switch(c)
  BY <1>38, <1>1, <1>2, <1>3, <1>4
     DEF NoLostUnidle, CpuTypes, ListTypes, Cpus, thread, cpu, chans, Goto, exit_switch, Runs
<1>39. ASSUME NEW t \in Threads, thread_fork(c, t) PROVE NoLostUnidle'
  BY <1>39, <1>1, <1>2, <1>3, <1>4
     DEF NoLostUnidle, CpuTypes, ListTypes, Cpus, thread, cpu, chans, Goto, thread_fork, Runs,
         Move, wchan_wakeall
<1>40. CASE clocksleep(c)
  BY <1>40, <1>1, <1>2, <1>3, <1>4
     DEF NoLostUnidle, CpuTypes, ListTypes, Cpus, thread, cpu, chans, Goto, clocksleep, Runs,
         Move, Sleep
<1>41. CASE thread_exit(c)
  BY <1>41, <1>1, <1>2, <1>3, <1>4
     DEF NoLostUnidle, CpuTypes, ListTypes, Cpus, thread, cpu, chans, Goto, thread_exit, Runs,
         Move
<1> QED
  BY <1>10, <1>11, <1>12, <1>13, <1>14, <1>15, <1>16, <1>17, <1>18, <1>19, <1>20, <1>21, <1>22,
     <1>23, <1>24, <1>25, <1>26, <1>27, <1>28, <1>29, <1>30, <1>31, <1>32, <1>33, <1>34, <1>35,
     <1>36, <1>37, <1>38, <1>39, <1>40, <1>41
     DEF Branch

(* The part of LocalInv about one cpu.                                     *)
LocalShape(d) ==
    /\ pc[d] \notin {"wake", "mig_send", "mig_back"} => loc[d].list = <<>>
    /\ d \in Cpus /\ pc[d] = "switch" =>
         /\ loc[d].new # ""
         /\ loc[d].wc \in Wchans <=> loc[d].new = "SLEEP"
         /\ loc[d].new = "ZOMBIE" => at[curthread[d]] = "exit_switch"

(* The current threads of the cpus are different ones, and none of them is *)
(* on the list of zombies of another cpu.                                  *)
LEMMA CurrentFacts ==
    ASSUME SchedInv
    PROVE  /\ \A d, e \in Cpus : curthread[d] = curthread[e] => d = e
           /\ \A d, e \in Cpus : curthread[d] \in ToSet(zombies[e]) => d = e
           /\ \A d, e \in Cpus : curthread[d] \in ToSet(runqueue[e]) => d = e
<1>1. TypeOK /\ Cpus \subseteq AllCpus
  BY CpuFacts DEF SchedInv, OnePlace
<1> QED  BY <1>1 DEF SchedInv, CurInv, StateInv

(* What a step of one cpu leaves alone of the others.                      *)

OtherCpusSame(c) ==
    /\ num_cpus' = num_cpus
    /\ \A d \in AllCpus \ {c} :
         /\ pc'[d] = pc[d] /\ loc'[d] = loc[d] /\ isidle'[d] = isidle[d]
         /\ curthread'[d] = curthread[d] /\ zombies'[d] = zombies[d]

LEMMA OtherCpus ==
    ASSUME SchedInv, NEW c \in Cpus, Branch(c)
    PROVE  OtherCpusSame(c)
<1> USE DEF OtherCpusSame
<1>1. /\ ThreadTypes /\ CpuTypes /\ ListTypes /\ LocTypes /\ TypeOK
  BY DEF SchedInv, OnePlace, TypeOK, LocalInv, ThreadTypes, CpuTypes, ListTypes, LocTypes
<1>2. /\ c \in AllCpus /\ AllCpus \subseteq Int /\ curthread[c] \in Threads /\ loc[c] \in Locals
      /\ num_cpus \in Nat /\ num_cpus >= 1 /\ Cpus \subseteq AllCpus
  BY <1>1, CpuFacts DEF AllCpus, CpuTypes, LocTypes
<1>10. CASE hardclock(c)
  BY <1>10, <1>1, <1>2
     DEF CpuTypes, LocTypes, ListTypes, thread, cpu, chans, Goto, hardclock, AfterHardclock,
         Yielding, TakesInterrupts
<1>11. CASE hardclock_migrate(c)
  BY <1>11, <1>1, <1>2
     DEF CpuTypes, LocTypes, ListTypes, thread, cpu, chans, Goto, hardclock_migrate,
         TakesInterrupts
<1>12. CASE timerclock(c)
  BY <1>12, <1>1, <1>2
     DEF CpuTypes, LocTypes, ListTypes, thread, cpu, chans, Goto, timerclock, TakesInterrupts,
         wchan_wakeall
<1>13. CASE interprocessor_interrupt(c)
  BY <1>13, <1>1, <1>2
     DEF CpuTypes, LocTypes, ListTypes, thread, cpu, chans, Goto, interprocessor_interrupt,
         TakesInterrupts
<1>14. CASE thread_make_runnable(c)
  BY <1>14, <1>1, <1>2
     DEF CpuTypes, LocTypes, ListTypes, thread, cpu, chans, Goto, thread_make_runnable
<1>15. CASE wake_done(c)
  BY <1>15, <1>1, <1>2
     DEF CpuTypes, LocTypes, ListTypes, thread, cpu, chans, Goto, wake_done
<1>16. CASE StayRunning(c)
  BY <1>16, <1>1, <1>2
     DEF CpuTypes, LocTypes, ListTypes, thread, cpu, chans, Goto, StayRunning
<1>17. CASE PutAway(c)
  BY <1>17, <1>1, <1>2
     DEF CpuTypes, LocTypes, ListTypes, thread, cpu, chans, Goto, PutAway
<1>18. CASE idle(c)
  BY <1>18, <1>1, <1>2
     DEF CpuTypes, LocTypes, ListTypes, thread, cpu, chans, Goto, idle
<1>19. CASE unidle(c)
  BY <1>19, <1>1, <1>2
     DEF CpuTypes, LocTypes, ListTypes, thread, cpu, chans, Goto, unidle
<1>20. CASE switchframe_switch(c)
  BY <1>20, <1>1, <1>2
     DEF CpuTypes, LocTypes, ListTypes, thread, cpu, chans, Goto, switchframe_switch
<1>21. CASE lamebus_clear_ipi(c)
  BY <1>21, <1>1, <1>2
     DEF CpuTypes, LocTypes, ListTypes, thread, cpu, chans, Goto, lamebus_clear_ipi
<1>22. CASE migrate_count(c)
  BY <1>22, <1>1, <1>2
     DEF CpuTypes, LocTypes, ListTypes, thread, cpu, chans, Goto, migrate_count
<1>23. CASE TakeNone(c)
  BY <1>23, <1>1, <1>2
     DEF CpuTypes, LocTypes, ListTypes, thread, cpu, chans, Goto, TakeNone, AfterHardclock,
         Yielding
<1>24. CASE TakeVictims(c)
  BY <1>24, <1>1, <1>2
     DEF CpuTypes, LocTypes, ListTypes, thread, cpu, chans, Goto, TakeVictims
<1>25. CASE NextCpu(c)
  BY <1>25, <1>1, <1>2
     DEF CpuTypes, LocTypes, ListTypes, thread, cpu, chans, Goto, NextCpu
<1>26. CASE SkipCurrent(c)
  BY <1>26, <1>1, <1>2
     DEF CpuTypes, LocTypes, ListTypes, thread, cpu, chans, Goto, SkipCurrent
<1>27. ASSUME NEW d \in Cpus, SendTo(c, d) PROVE OtherCpusSame(c)
  BY <1>27, <1>1, <1>2
     DEF CpuTypes, LocTypes, ListTypes, thread, cpu, chans, Goto, SendTo
<1>28. CASE migrate_sent(c)
  BY <1>28, <1>1, <1>2
     DEF CpuTypes, LocTypes, ListTypes, thread, cpu, chans, Goto, migrate_sent, Unlocked
<1>29. CASE migrate_leftovers(c)
  BY <1>29, <1>1, <1>2
     DEF CpuTypes, LocTypes, ListTypes, thread, cpu, chans, Goto, migrate_leftovers,
         AfterHardclock, Yielding
<1>30. ASSUME NEW w \in Wchans, FallAsleep(c, w) PROVE OtherCpusSame(c)
  BY <1>30, <1>1, <1>2
     DEF CpuTypes, LocTypes, ListTypes, thread, cpu, chans, Goto, FallAsleep
<1>31. CASE TakeUnit(c)
  BY <1>31, <1>1, <1>2
     DEF CpuTypes, LocTypes, ListTypes, thread, cpu, chans, Goto, TakeUnit, Runs
<1>32. CASE cpus_online(c)
  BY <1>32, <1>1, <1>2
     DEF CpuTypes, LocTypes, ListTypes, thread, cpu, chans, Goto, cpus_online, Runs, Move
<1>33. CASE cpu_hatch(c)
  BY <1>33, <1>1, <1>2
     DEF CpuTypes, LocTypes, ListTypes, thread, cpu, chans, Goto, cpu_hatch, Runs, Move,
         wchan_wakeone
<1>34. CASE fork_run(c)
  BY <1>34, <1>1, <1>2
     DEF CpuTypes, LocTypes, ListTypes, thread, cpu, chans, Goto, fork_run, Runs, Move
<1>35. CASE CountReached(c)
  BY <1>35, <1>1, <1>2
     DEF CpuTypes, LocTypes, ListTypes, thread, cpu, chans, Goto, CountReached, Runs, Move
<1>36. CASE clocksleep_return(c)
  BY <1>36, <1>1, <1>2
     DEF CpuTypes, LocTypes, ListTypes, thread, cpu, chans, Goto, clocksleep_return, Runs, Move
<1>37. CASE exit_count(c)
  BY <1>37, <1>1, <1>2
     DEF CpuTypes, LocTypes, ListTypes, thread, cpu, chans, Goto, exit_count, Runs, Move,
         wchan_wakeall
<1>38. CASE exit_switch(c)
  BY <1>38, <1>1, <1>2
     DEF CpuTypes, LocTypes, ListTypes, thread, cpu, chans, Goto, exit_switch, Runs
<1>39. ASSUME NEW t \in Threads, thread_fork(c, t) PROVE OtherCpusSame(c)
  BY <1>39, <1>1, <1>2
     DEF CpuTypes, LocTypes, ListTypes, thread, cpu, chans, Goto, thread_fork, Runs, Move,
         wchan_wakeall
<1>40. CASE clocksleep(c)
  BY <1>40, <1>1, <1>2
     DEF CpuTypes, LocTypes, ListTypes, thread, cpu, chans, Goto, clocksleep, Runs, Move, Sleep
<1>41. CASE thread_exit(c)
  BY <1>41, <1>1, <1>2
     DEF CpuTypes, LocTypes, ListTypes, thread, cpu, chans, Goto, thread_exit, Runs, Move
<1> QED
  BY <1>10, <1>11, <1>12, <1>13, <1>14, <1>15, <1>16, <1>17, <1>18, <1>19, <1>20, <1>21, <1>22,
     <1>23, <1>24, <1>25, <1>26, <1>27, <1>28, <1>29, <1>30, <1>31, <1>32, <1>33, <1>34, <1>35,
     <1>36, <1>37, <1>38, <1>39, <1>40, <1>41
     DEF Branch

(* How at changes: a running thread goes on, or a zombie is freed.         *)
AtEdge(c, t) ==
    \/ at'[t] = at[t]
    \/ /\ t = curthread[c] /\ pc[c] = "run"
       /\ \/ at[t] = "boot" /\ at'[t] = "user"
          \/ at[t] = "hatch" /\ at'[t] = "exit"
          \/ at[t] = "user" /\ at'[t] = "forked"
          \/ at[t] = "forked" /\ t = 0 /\ at'[t] = "count"
          \/ at[t] = "forked" /\ t # 0 /\ at'[t] = "user"
          \/ at[t] = "count" /\ at'[t] = "user"
          \/ at[t] = "user" /\ t # 0 /\ at'[t] = "clock"
          \/ at[t] = "clock" /\ at'[t] = "user"
          \/ at[t] = "user" /\ t # 0 /\ at'[t] \in {"exit_count", "exit_switch"}
          \/ at[t] = "exit" /\ at'[t] \in {"exit_count", "exit_switch"}
          \/ at[t] = "exit_count" /\ at'[t] = "exit_switch"
    \/ t \in ToSet(zombies[c]) /\ at'[t] = "user" /\ pc[c] = "pick"

LEMMA AtEdges ==
    ASSUME SchedInv, NEW c \in Cpus, Branch(c)
    PROVE  \A t \in Threads : AtEdge(c, t)
<1>1. /\ ThreadTypes /\ CpuTypes /\ ListTypes /\ LocTypes /\ TypeOK
  BY DEF SchedInv, OnePlace, TypeOK, LocalInv, ThreadTypes, CpuTypes, ListTypes, LocTypes
<1>2. /\ c \in AllCpus /\ AllCpus \subseteq Int /\ curthread[c] \in Threads /\ loc[c] \in Locals
      /\ num_cpus \in Nat /\ num_cpus >= 1 /\ Cpus \subseteq AllCpus
  BY <1>1, CpuFacts DEF AllCpus, CpuTypes, LocTypes
<1>10. CASE hardclock(c)
  BY <1>10, <1>1, <1>2
     DEF AtEdge, ThreadTypes, thread, cpu, chans, Goto, hardclock, AfterHardclock, Yielding,
         TakesInterrupts
<1>11. CASE hardclock_migrate(c)
  BY <1>11, <1>1, <1>2
     DEF AtEdge, ThreadTypes, thread, cpu, chans, Goto, hardclock_migrate, TakesInterrupts
<1>12. CASE timerclock(c)
  BY <1>12, <1>1, <1>2
     DEF AtEdge, ThreadTypes, thread, cpu, chans, Goto, timerclock, TakesInterrupts, wchan_wakeall
<1>13. CASE interprocessor_interrupt(c)
  BY <1>13, <1>1, <1>2
     DEF AtEdge, ThreadTypes, thread, cpu, chans, Goto, interprocessor_interrupt, TakesInterrupts
<1>14. CASE thread_make_runnable(c)
  BY <1>14, <1>1, <1>2
     DEF AtEdge, ThreadTypes, thread, cpu, chans, Goto, thread_make_runnable
<1>15. CASE wake_done(c)
  BY <1>15, <1>1, <1>2
     DEF AtEdge, ThreadTypes, thread, cpu, chans, Goto, wake_done
<1>16. CASE StayRunning(c)
  BY <1>16, <1>1, <1>2
     DEF AtEdge, ThreadTypes, thread, cpu, chans, Goto, StayRunning
<1>17. CASE PutAway(c)
  BY <1>17, <1>1, <1>2
     DEF AtEdge, ThreadTypes, thread, cpu, chans, Goto, PutAway
<1>18. CASE idle(c)
  BY <1>18, <1>1, <1>2
     DEF AtEdge, ThreadTypes, thread, cpu, chans, Goto, idle
<1>19. CASE unidle(c)
  BY <1>19, <1>1, <1>2
     DEF AtEdge, ThreadTypes, thread, cpu, chans, Goto, unidle
<1>20. CASE switchframe_switch(c)
  BY <1>20, <1>1, <1>2
     DEF AtEdge, ThreadTypes, thread, cpu, chans, Goto, switchframe_switch
<1>21. CASE lamebus_clear_ipi(c)
  BY <1>21, <1>1, <1>2
     DEF AtEdge, ThreadTypes, thread, cpu, chans, Goto, lamebus_clear_ipi
<1>22. CASE migrate_count(c)
  BY <1>22, <1>1, <1>2
     DEF AtEdge, ThreadTypes, thread, cpu, chans, Goto, migrate_count
<1>23. CASE TakeNone(c)
  BY <1>23, <1>1, <1>2
     DEF AtEdge, ThreadTypes, thread, cpu, chans, Goto, TakeNone, AfterHardclock, Yielding
<1>24. CASE TakeVictims(c)
  BY <1>24, <1>1, <1>2
     DEF AtEdge, ThreadTypes, thread, cpu, chans, Goto, TakeVictims
<1>25. CASE NextCpu(c)
  BY <1>25, <1>1, <1>2
     DEF AtEdge, ThreadTypes, thread, cpu, chans, Goto, NextCpu
<1>26. CASE SkipCurrent(c)
  BY <1>26, <1>1, <1>2
     DEF AtEdge, ThreadTypes, thread, cpu, chans, Goto, SkipCurrent
<1>27. ASSUME NEW d \in Cpus, SendTo(c, d) PROVE \A t \in Threads : AtEdge(c, t)
  BY <1>27, <1>1, <1>2
     DEF AtEdge, ThreadTypes, thread, cpu, chans, Goto, SendTo
<1>28. CASE migrate_sent(c)
  BY <1>28, <1>1, <1>2
     DEF AtEdge, ThreadTypes, thread, cpu, chans, Goto, migrate_sent, Unlocked
<1>29. CASE migrate_leftovers(c)
  BY <1>29, <1>1, <1>2
     DEF AtEdge, ThreadTypes, thread, cpu, chans, Goto, migrate_leftovers, AfterHardclock,
         Yielding
<1>30. ASSUME NEW w \in Wchans, FallAsleep(c, w) PROVE \A t \in Threads : AtEdge(c, t)
  BY <1>30, <1>1, <1>2
     DEF AtEdge, ThreadTypes, thread, cpu, chans, Goto, FallAsleep
<1>31. CASE TakeUnit(c)
  BY <1>31, <1>1, <1>2
     DEF AtEdge, ThreadTypes, thread, cpu, chans, Goto, TakeUnit, Runs
<1>32. CASE cpus_online(c)
  BY <1>32, <1>1, <1>2
     DEF AtEdge, ThreadTypes, thread, cpu, chans, Goto, cpus_online, Runs, Move
<1>33. CASE cpu_hatch(c)
  BY <1>33, <1>1, <1>2
     DEF AtEdge, ThreadTypes, thread, cpu, chans, Goto, cpu_hatch, Runs, Move, wchan_wakeone
<1>34. CASE fork_run(c)
  BY <1>34, <1>1, <1>2
     DEF AtEdge, ThreadTypes, thread, cpu, chans, Goto, fork_run, Runs, Move
<1>35. CASE CountReached(c)
  BY <1>35, <1>1, <1>2
     DEF AtEdge, ThreadTypes, thread, cpu, chans, Goto, CountReached, Runs, Move
<1>36. CASE clocksleep_return(c)
  BY <1>36, <1>1, <1>2
     DEF AtEdge, ThreadTypes, thread, cpu, chans, Goto, clocksleep_return, Runs, Move
<1>37. CASE exit_count(c)
  BY <1>37, <1>1, <1>2
     DEF AtEdge, ThreadTypes, thread, cpu, chans, Goto, exit_count, Runs, Move, wchan_wakeall
<1>38. CASE exit_switch(c)
  BY <1>38, <1>1, <1>2
     DEF AtEdge, ThreadTypes, thread, cpu, chans, Goto, exit_switch, Runs
<1>39. ASSUME NEW u \in Threads, thread_fork(c, u) PROVE \A t \in Threads : AtEdge(c, t)
  BY <1>39, <1>1, <1>2
     DEF AtEdge, ThreadTypes, thread, cpu, chans, Goto, thread_fork, Runs, Move, wchan_wakeall
<1>40. CASE clocksleep(c)
  BY <1>40, <1>1, <1>2
     DEF AtEdge, ThreadTypes, thread, cpu, chans, Goto, clocksleep, Runs, Move, Sleep
<1>41. CASE thread_exit(c)
  BY <1>41, <1>1, <1>2
     DEF AtEdge, ThreadTypes, thread, cpu, chans, Goto, thread_exit, Runs, Move
<1> QED
  BY <1>10, <1>11, <1>12, <1>13, <1>14, <1>15, <1>16, <1>17, <1>18, <1>19, <1>20, <1>21, <1>22,
     <1>23, <1>24, <1>25, <1>26, <1>27, <1>28, <1>29, <1>30, <1>31, <1>32, <1>33, <1>34, <1>35,
     <1>36, <1>37, <1>38, <1>39, <1>40, <1>41
     DEF Branch

LEMMA LocalOwn ==
    ASSUME SchedInv, NEW c \in Cpus, Branch(c)
    PROVE  LocalShape(c)'
<1>1. /\ ThreadTypes /\ CpuTypes /\ ListTypes /\ LocTypes /\ TypeOK
  BY DEF SchedInv, OnePlace, TypeOK, LocalInv, ThreadTypes, CpuTypes, ListTypes, LocTypes
<1>2. /\ c \in AllCpus /\ AllCpus \subseteq Int /\ curthread[c] \in Threads /\ loc[c] \in Locals
      /\ num_cpus \in Nat /\ num_cpus >= 1 /\ Cpus \subseteq AllCpus
  BY <1>1, CpuFacts DEF AllCpus, CpuTypes, LocTypes
<1>3. LocalShape(c)
  BY <1>2 DEF SchedInv, LocalInv, LocalShape
<1>4. loc[c].list \in Seq(Threads)
  BY <1>2 DEF Locals
<1>5. "none" \notin Wchans
  BY DEF Wchans
<1>10. CASE hardclock(c)
  BY <1>10, <1>1, <1>2, <1>3, <1>4, <1>5
     DEF LocalShape, NoLocals, CpuTypes, LocTypes, ThreadTypes, thread, cpu, chans, Goto,
         hardclock, AfterHardclock, Yielding, TakesInterrupts
<1>11. CASE hardclock_migrate(c)
  BY <1>11, <1>1, <1>2, <1>3, <1>4, <1>5
     DEF LocalShape, NoLocals, CpuTypes, LocTypes, ThreadTypes, thread, cpu, chans, Goto,
         hardclock_migrate, TakesInterrupts
<1>12. CASE timerclock(c)
  BY <1>12, <1>1, <1>2, <1>3, <1>4, <1>5
     DEF LocalShape, NoLocals, CpuTypes, LocTypes, ThreadTypes, thread, cpu, chans, Goto,
         timerclock, TakesInterrupts, wchan_wakeall
<1>13. CASE interprocessor_interrupt(c)
  BY <1>13, <1>1, <1>2, <1>3, <1>4, <1>5
     DEF LocalShape, NoLocals, CpuTypes, LocTypes, ThreadTypes, thread, cpu, chans, Goto,
         interprocessor_interrupt, TakesInterrupts
<1>14. CASE thread_make_runnable(c)
  BY <1>14, <1>1, <1>2, <1>3, <1>4, <1>5
     DEF LocalShape, NoLocals, CpuTypes, LocTypes, ThreadTypes, thread, cpu, chans, Goto,
         thread_make_runnable
<1>15. CASE wake_done(c)
  BY <1>15, <1>1, <1>2, <1>3, <1>4, <1>5
     DEF LocalShape, NoLocals, CpuTypes, LocTypes, ThreadTypes, thread, cpu, chans, Goto,
         wake_done
<1>16. CASE StayRunning(c)
  BY <1>16, <1>1, <1>2, <1>3, <1>4, <1>5
     DEF LocalShape, NoLocals, CpuTypes, LocTypes, ThreadTypes, thread, cpu, chans, Goto,
         StayRunning
<1>17. CASE PutAway(c)
  BY <1>17, <1>1, <1>2, <1>3, <1>4, <1>5
     DEF LocalShape, NoLocals, CpuTypes, LocTypes, ThreadTypes, thread, cpu, chans, Goto, PutAway
<1>18. CASE idle(c)
  BY <1>18, <1>1, <1>2, <1>3, <1>4, <1>5
     DEF LocalShape, NoLocals, CpuTypes, LocTypes, ThreadTypes, thread, cpu, chans, Goto, idle
<1>19. CASE unidle(c)
  BY <1>19, <1>1, <1>2, <1>3, <1>4, <1>5
     DEF LocalShape, NoLocals, CpuTypes, LocTypes, ThreadTypes, thread, cpu, chans, Goto, unidle
<1>20. CASE switchframe_switch(c)
  BY <1>20, <1>1, <1>2, <1>3, <1>4, <1>5
     DEF LocalShape, NoLocals, CpuTypes, LocTypes, ThreadTypes, thread, cpu, chans, Goto,
         switchframe_switch
<1>21. CASE lamebus_clear_ipi(c)
  BY <1>21, <1>1, <1>2, <1>3, <1>4, <1>5
     DEF LocalShape, NoLocals, CpuTypes, LocTypes, ThreadTypes, thread, cpu, chans, Goto,
         lamebus_clear_ipi
<1>22. CASE migrate_count(c)
  BY <1>22, <1>1, <1>2, <1>3, <1>4, <1>5
     DEF LocalShape, NoLocals, CpuTypes, LocTypes, ThreadTypes, thread, cpu, chans, Goto,
         migrate_count
<1>23. CASE TakeNone(c)
  BY <1>23, <1>1, <1>2, <1>3, <1>4, <1>5
     DEF LocalShape, NoLocals, CpuTypes, LocTypes, ThreadTypes, thread, cpu, chans, Goto,
         TakeNone, AfterHardclock, Yielding
<1>24. CASE TakeVictims(c)
  BY <1>24, <1>1, <1>2, <1>3, <1>4, <1>5
     DEF LocalShape, NoLocals, CpuTypes, LocTypes, ThreadTypes, thread, cpu, chans, Goto,
         TakeVictims
<1>25. CASE NextCpu(c)
  BY <1>25, <1>1, <1>2, <1>3, <1>4, <1>5
     DEF LocalShape, NoLocals, CpuTypes, LocTypes, ThreadTypes, thread, cpu, chans, Goto, NextCpu
<1>26. CASE SkipCurrent(c)
  BY <1>26, <1>1, <1>2, <1>3, <1>4, <1>5
     DEF LocalShape, NoLocals, CpuTypes, LocTypes, ThreadTypes, thread, cpu, chans, Goto,
         SkipCurrent
<1>27. ASSUME NEW d \in Cpus, SendTo(c, d) PROVE LocalShape(c)'
  BY <1>27, <1>1, <1>2, <1>3, <1>4, <1>5
     DEF LocalShape, NoLocals, CpuTypes, LocTypes, ThreadTypes, thread, cpu, chans, Goto, SendTo
<1>28. CASE migrate_sent(c)
  BY <1>28, <1>1, <1>2, <1>3, <1>4, <1>5
     DEF LocalShape, NoLocals, CpuTypes, LocTypes, ThreadTypes, thread, cpu, chans, Goto,
         migrate_sent, Unlocked
<1>29. CASE migrate_leftovers(c)
  BY <1>29, <1>1, <1>2, <1>3, <1>4, <1>5
     DEF LocalShape, NoLocals, CpuTypes, LocTypes, ThreadTypes, thread, cpu, chans, Goto,
         migrate_leftovers, AfterHardclock, Yielding
<1>30. ASSUME NEW w \in Wchans, FallAsleep(c, w) PROVE LocalShape(c)'
  BY <1>30, <1>1, <1>2, <1>3, <1>4, <1>5
     DEF LocalShape, NoLocals, CpuTypes, LocTypes, ThreadTypes, thread, cpu, chans, Goto,
         FallAsleep
<1>31. CASE TakeUnit(c)
  BY <1>31, <1>1, <1>2, <1>3, <1>4, <1>5
     DEF LocalShape, NoLocals, CpuTypes, LocTypes, ThreadTypes, thread, cpu, chans, Goto,
         TakeUnit, Runs
<1>32. CASE cpus_online(c)
  BY <1>32, <1>1, <1>2, <1>3, <1>4, <1>5
     DEF LocalShape, NoLocals, CpuTypes, LocTypes, ThreadTypes, thread, cpu, chans, Goto,
         cpus_online, Runs, Move
<1>33. CASE cpu_hatch(c)
  BY <1>33, <1>1, <1>2, <1>3, <1>4, <1>5
     DEF LocalShape, NoLocals, CpuTypes, LocTypes, ThreadTypes, thread, cpu, chans, Goto,
         cpu_hatch, Runs, Move, wchan_wakeone
<1>34. CASE fork_run(c)
  BY <1>34, <1>1, <1>2, <1>3, <1>4, <1>5
     DEF LocalShape, NoLocals, CpuTypes, LocTypes, ThreadTypes, thread, cpu, chans, Goto,
         fork_run, Runs, Move
<1>35. CASE CountReached(c)
  BY <1>35, <1>1, <1>2, <1>3, <1>4, <1>5
     DEF LocalShape, NoLocals, CpuTypes, LocTypes, ThreadTypes, thread, cpu, chans, Goto,
         CountReached, Runs, Move
<1>36. CASE clocksleep_return(c)
  BY <1>36, <1>1, <1>2, <1>3, <1>4, <1>5
     DEF LocalShape, NoLocals, CpuTypes, LocTypes, ThreadTypes, thread, cpu, chans, Goto,
         clocksleep_return, Runs, Move
<1>37. CASE exit_count(c)
  BY <1>37, <1>1, <1>2, <1>3, <1>4, <1>5
     DEF LocalShape, NoLocals, CpuTypes, LocTypes, ThreadTypes, thread, cpu, chans, Goto,
         exit_count, Runs, Move, wchan_wakeall
<1>38. CASE exit_switch(c)
  BY <1>38, <1>1, <1>2, <1>3, <1>4, <1>5
     DEF LocalShape, NoLocals, CpuTypes, LocTypes, ThreadTypes, thread, cpu, chans, Goto,
         exit_switch, Runs
<1>39. ASSUME NEW t \in Threads, thread_fork(c, t) PROVE LocalShape(c)'
  BY <1>39, <1>1, <1>2, <1>3, <1>4, <1>5
     DEF LocalShape, NoLocals, CpuTypes, LocTypes, ThreadTypes, thread, cpu, chans, Goto,
         thread_fork, Runs, Move, wchan_wakeall
<1>40. CASE clocksleep(c)
  <2>1. /\ pc'[c] = "switch" /\ loc'[c].new = "SLEEP" /\ loc'[c].wc = "lbolt" /\ loc'[c].list = <<>>
    BY <1>40, <1>1, <1>2 DEF clocksleep, Sleep, Goto, NoLocals, CpuTypes, LocTypes
  <2> QED  BY <2>1 DEF LocalShape, Wchans
<1>41. CASE thread_exit(c)
  BY <1>41, <1>1, <1>2, <1>3, <1>4, <1>5
     DEF LocalShape, NoLocals, CpuTypes, LocTypes, ThreadTypes, thread, cpu, chans, Goto,
         thread_exit, Runs, Move
<1> QED
  BY <1>10, <1>11, <1>12, <1>13, <1>14, <1>15, <1>16, <1>17, <1>18, <1>19, <1>20, <1>21, <1>22,
     <1>23, <1>24, <1>25, <1>26, <1>27, <1>28, <1>29, <1>30, <1>31, <1>32, <1>33, <1>34, <1>35,
     <1>36, <1>37, <1>38, <1>39, <1>40, <1>41
     DEF Branch

(* The private state at each label.                                        *)
LEMMA LocalStep ==
    ASSUME SchedInv, Next, NEW c \in Cpus, Branch(c)
    PROVE  LocalInv'
<1>1. /\ \A d \in AllCpus : LocalShape(d)
      /\ c \in AllCpus /\ Cpus \subseteq AllCpus /\ TypeOK /\ LocTypes /\ ThreadTypes /\ CpuTypes
      /\ loc[c] \in Locals
  BY CpuFacts
     DEF SchedInv, OnePlace, LocalInv, LocalShape, TypeOK, LocTypes, ThreadTypes, CpuTypes
<1>2. OtherCpusSame(c)
  BY OtherCpus
<1>3. ASSUME NEW d \in AllCpus, d # c PROVE LocalShape(d)'
  <2>1. /\ pc'[d] = pc[d] /\ loc'[d] = loc[d] /\ curthread'[d] = curthread[d] /\ Cpus' = Cpus
    BY <1>2, <1>3 DEF OtherCpusSame, Cpus
  <2>2. d \in Cpus => curthread[d] # curthread[c] /\ curthread[d] \notin ToSet(zombies[c])
    BY <1>3, CurrentFacts
  <2>3. d \in Cpus => at'[curthread[d]] = at[curthread[d]]
    BY <2>2, <1>1, AtEdges DEF AtEdge, CpuTypes
  <2> QED  BY <1>1, <2>1, <2>3 DEF LocalShape
<1>4. LocalShape(c)'
  BY LocalOwn
<1>5. LocTypes'
  BY ListTypesStep
<1> QED  BY <1>3, <1>4, <1>5 DEF LocalInv, LocalShape, LocTypes

(* Other cpus only add to a run queue.                                     *)
LEMMA QueuesGrow ==
    ASSUME SchedInv, NEW c \in Cpus, Branch(c)
    PROVE  \A d \in AllCpus \ {c} : Len(runqueue'[d]) >= Len(runqueue[d])
<1>1. /\ ThreadTypes /\ CpuTypes /\ ListTypes /\ LocTypes /\ TypeOK
  BY DEF SchedInv, OnePlace, TypeOK, LocalInv, ThreadTypes, CpuTypes, ListTypes, LocTypes
<1>2. /\ c \in AllCpus /\ AllCpus \subseteq Int /\ curthread[c] \in Threads /\ loc[c] \in Locals
      /\ num_cpus \in Nat /\ num_cpus >= 1 /\ Cpus \subseteq AllCpus
  BY <1>1, CpuFacts DEF AllCpus, CpuTypes, LocTypes
<1>3. \A d \in AllCpus : runqueue[d] \in Seq(Threads) /\ Len(runqueue[d]) \in Nat
  BY <1>1 DEF ListTypes
<1>10. CASE hardclock(c)
  BY <1>10, <1>1, <1>2, <1>3
     DEF ListTypes, thread, cpu, chans, Goto, hardclock, AfterHardclock, Yielding, TakesInterrupts
<1>11. CASE hardclock_migrate(c)
  BY <1>11, <1>1, <1>2, <1>3
     DEF ListTypes, thread, cpu, chans, Goto, hardclock_migrate, TakesInterrupts
<1>12. CASE timerclock(c)
  BY <1>12, <1>1, <1>2, <1>3
     DEF ListTypes, thread, cpu, chans, Goto, timerclock, TakesInterrupts, wchan_wakeall
<1>13. CASE interprocessor_interrupt(c)
  BY <1>13, <1>1, <1>2, <1>3
     DEF ListTypes, thread, cpu, chans, Goto, interprocessor_interrupt, TakesInterrupts
<1>14. CASE thread_make_runnable(c)
  <2>1. Head(loc[c].list) \in Threads
    BY <1>14, <1>2, TailFacts DEF thread_make_runnable, Locals
  <2>2. \A d \in AllCpus : Len(Append(runqueue[d], Head(loc[c].list))) = Len(runqueue[d]) + 1
    BY <1>3, <2>1, AppendFacts
  <2> QED  BY <1>14, <1>1, <1>3, <2>2 DEF thread_make_runnable, ListTypes
<1>15. CASE wake_done(c)
  BY <1>15, <1>1, <1>2, <1>3
     DEF ListTypes, thread, cpu, chans, Goto, wake_done
<1>16. CASE StayRunning(c)
  BY <1>16, <1>1, <1>2, <1>3
     DEF ListTypes, thread, cpu, chans, Goto, StayRunning
<1>17. CASE PutAway(c)
  <2>1. \/ runqueue' = runqueue
        \/ runqueue' = [runqueue EXCEPT ![c] = Append(runqueue[c], curthread[c])]
    BY <1>17 DEF PutAway
  <2> QED  BY <1>1, <1>3, <2>1 DEF ListTypes
<1>18. CASE idle(c)
  BY <1>18, <1>1, <1>2, <1>3
     DEF ListTypes, thread, cpu, chans, Goto, idle
<1>19. CASE unidle(c)
  BY <1>19, <1>1, <1>2, <1>3
     DEF ListTypes, thread, cpu, chans, Goto, unidle
<1>20. CASE switchframe_switch(c)
  BY <1>20, <1>1, <1>2, <1>3
     DEF ListTypes, thread, cpu, chans, Goto, switchframe_switch
<1>21. CASE lamebus_clear_ipi(c)
  BY <1>21, <1>1, <1>2, <1>3
     DEF ListTypes, thread, cpu, chans, Goto, lamebus_clear_ipi
<1>22. CASE migrate_count(c)
  BY <1>22, <1>1, <1>2, <1>3
     DEF ListTypes, thread, cpu, chans, Goto, migrate_count
<1>23. CASE TakeNone(c)
  BY <1>23, <1>1, <1>2, <1>3
     DEF ListTypes, thread, cpu, chans, Goto, TakeNone, AfterHardclock, Yielding
<1>24. CASE TakeVictims(c)
  BY <1>24, <1>1, <1>2, <1>3
     DEF ListTypes, thread, cpu, chans, Goto, TakeVictims
<1>25. CASE NextCpu(c)
  BY <1>25, <1>1, <1>2, <1>3
     DEF ListTypes, thread, cpu, chans, Goto, NextCpu
<1>26. CASE SkipCurrent(c)
  BY <1>26, <1>1, <1>2, <1>3
     DEF ListTypes, thread, cpu, chans, Goto, SkipCurrent
<1>27. ASSUME NEW f \in Cpus, SendTo(c, f)
       PROVE  \A d \in AllCpus \ {c} : Len(runqueue'[d]) >= Len(runqueue[d])
  <2>1. Head(loc[c].list) \in Threads
    BY <1>27, <1>2, TailFacts DEF SendTo, Locals
  <2>2. \A e \in AllCpus : Len(Append(runqueue[e], Head(loc[c].list))) = Len(runqueue[e]) + 1
    BY <1>3, <2>1, AppendFacts
  <2> QED  BY <1>27, <1>1, <1>3, <2>2 DEF SendTo, ListTypes
<1>28. CASE migrate_sent(c)
  BY <1>28, <1>1, <1>2, <1>3
     DEF ListTypes, thread, cpu, chans, Goto, migrate_sent, Unlocked
<1>29. CASE migrate_leftovers(c)
  BY <1>29, <1>1, <1>2, <1>3
     DEF ListTypes, thread, cpu, chans, Goto, migrate_leftovers, AfterHardclock, Yielding
<1>30. ASSUME NEW w \in Wchans, FallAsleep(c, w) PROVE \A d \in AllCpus \ {c} : Len(runqueue'[d]) >= Len(runqueue[d])
  BY <1>30, <1>1, <1>2, <1>3
     DEF ListTypes, thread, cpu, chans, Goto, FallAsleep
<1>31. CASE TakeUnit(c)
  BY <1>31, <1>1, <1>2, <1>3
     DEF ListTypes, thread, cpu, chans, Goto, TakeUnit, Runs
<1>32. CASE cpus_online(c)
  BY <1>32, <1>1, <1>2, <1>3
     DEF ListTypes, thread, cpu, chans, Goto, cpus_online, Runs, Move
<1>33. CASE cpu_hatch(c)
  BY <1>33, <1>1, <1>2, <1>3
     DEF ListTypes, thread, cpu, chans, Goto, cpu_hatch, Runs, Move, wchan_wakeone
<1>34. CASE fork_run(c)
  BY <1>34, <1>1, <1>2, <1>3
     DEF ListTypes, thread, cpu, chans, Goto, fork_run, Runs, Move
<1>35. CASE CountReached(c)
  BY <1>35, <1>1, <1>2, <1>3
     DEF ListTypes, thread, cpu, chans, Goto, CountReached, Runs, Move
<1>36. CASE clocksleep_return(c)
  BY <1>36, <1>1, <1>2, <1>3
     DEF ListTypes, thread, cpu, chans, Goto, clocksleep_return, Runs, Move
<1>37. CASE exit_count(c)
  BY <1>37, <1>1, <1>2, <1>3
     DEF ListTypes, thread, cpu, chans, Goto, exit_count, Runs, Move, wchan_wakeall
<1>38. CASE exit_switch(c)
  BY <1>38, <1>1, <1>2, <1>3
     DEF ListTypes, thread, cpu, chans, Goto, exit_switch, Runs
<1>39. ASSUME NEW t \in Threads, thread_fork(c, t) PROVE \A d \in AllCpus \ {c} : Len(runqueue'[d]) >= Len(runqueue[d])
  BY <1>39, <1>1, <1>2, <1>3
     DEF ListTypes, thread, cpu, chans, Goto, thread_fork, Runs, Move, wchan_wakeall
<1>40. CASE clocksleep(c)
  BY <1>40, <1>1, <1>2, <1>3
     DEF ListTypes, thread, cpu, chans, Goto, clocksleep, Runs, Move, Sleep
<1>41. CASE thread_exit(c)
  BY <1>41, <1>1, <1>2, <1>3
     DEF ListTypes, thread, cpu, chans, Goto, thread_exit, Runs, Move
<1> QED
  BY <1>10, <1>11, <1>12, <1>13, <1>14, <1>15, <1>16, <1>17, <1>18, <1>19, <1>20, <1>21, <1>22,
     <1>23, <1>24, <1>25, <1>26, <1>27, <1>28, <1>29, <1>30, <1>31, <1>32, <1>33, <1>34, <1>35,
     <1>36, <1>37, <1>38, <1>39, <1>40, <1>41
     DEF Branch

VictimsHere(d) ==
    /\ pc[d] = "mig_count" /\ loc[d].i > d => Len(runqueue[d]) >= loc[d].mine
    /\ pc[d] = "mig_send" => Len(loc[d].list) >= loc[d].to_send

LEMMA VictimsOwn ==
    ASSUME SchedInv, NEW c \in Cpus, Branch(c)
    PROVE  VictimsHere(c)'
<1>1. /\ ThreadTypes /\ CpuTypes /\ ListTypes /\ LocTypes /\ TypeOK
  BY DEF SchedInv, OnePlace, TypeOK, LocalInv, ThreadTypes, CpuTypes, ListTypes, LocTypes
<1>2. /\ c \in AllCpus /\ AllCpus \subseteq Int /\ curthread[c] \in Threads /\ loc[c] \in Locals
      /\ num_cpus \in Nat /\ num_cpus >= 1 /\ Cpus \subseteq AllCpus
  BY <1>1, CpuFacts DEF AllCpus, CpuTypes, LocTypes
<1>3. VictimsHere(c)
  BY DEF SchedInv, VictimsExist, VictimsHere
<1>4. /\ runqueue[c] \in Seq(Threads) /\ Len(runqueue[c]) \in Nat
      /\ loc[c].list \in Seq(Threads) /\ Len(loc[c].list) \in Nat
      /\ loc[c].to_send \in Nat /\ loc[c].i \in Nat /\ loc[c].mine \in Nat
  <2>1. runqueue[c] \in Seq(Threads)
    BY <1>1, <1>2 DEF ListTypes
  <2>2. /\ loc[c].list \in Seq(Threads)
        /\ loc[c].to_send \in Nat /\ loc[c].i \in Nat /\ loc[c].mine \in Nat
    BY <1>2 DEF Locals
  <2>3. \A s \in Seq(Threads) : Len(s) \in Nat
    OBVIOUS
  <2> QED  BY <2>1, <2>2, <2>3
<1>10. CASE hardclock(c)
  BY <1>10, <1>1, <1>2, <1>3, <1>4
     DEF VictimsHere, NoLocals, CpuTypes, LocTypes, thread, cpu, chans, Goto, hardclock,
         AfterHardclock, Yielding, TakesInterrupts
<1>11. CASE hardclock_migrate(c)
  <2>1. pc'[c] = "mig_count" /\ loc'[c].i = 0
    BY <1>11, <1>1, <1>2 DEF hardclock_migrate, Goto, CpuTypes, LocTypes, NoLocals
  <2>2. ~(0 > c) /\ 0 \in Int
    BY <1>2 DEF AllCpus
  <2> QED  BY <2>1, <2>2 DEF VictimsHere
<1>12. CASE timerclock(c)
  BY <1>12, <1>1, <1>2, <1>3, <1>4
     DEF VictimsHere, NoLocals, CpuTypes, LocTypes, thread, cpu, chans, Goto, timerclock,
         TakesInterrupts, wchan_wakeall
<1>13. CASE interprocessor_interrupt(c)
  BY <1>13, <1>1, <1>2, <1>3, <1>4
     DEF VictimsHere, NoLocals, CpuTypes, LocTypes, thread, cpu, chans, Goto,
         interprocessor_interrupt, TakesInterrupts
<1>14. CASE thread_make_runnable(c)
  <2>1. pc'[c] = "wake"
    BY <1>14 DEF thread_make_runnable
  <2> QED  BY <2>1 DEF VictimsHere
<1>15. CASE wake_done(c)
  BY <1>15, <1>1, <1>2, <1>3, <1>4
     DEF VictimsHere, NoLocals, CpuTypes, LocTypes, thread, cpu, chans, Goto, wake_done
<1>16. CASE StayRunning(c)
  BY <1>16, <1>1, <1>2, <1>3, <1>4
     DEF VictimsHere, NoLocals, CpuTypes, LocTypes, thread, cpu, chans, Goto, StayRunning
<1>17. CASE PutAway(c)
  BY <1>17, <1>1, <1>2, <1>3, <1>4
     DEF VictimsHere, NoLocals, CpuTypes, LocTypes, thread, cpu, chans, Goto, PutAway
<1>18. CASE idle(c)
  BY <1>18, <1>1, <1>2, <1>3, <1>4
     DEF VictimsHere, NoLocals, CpuTypes, LocTypes, thread, cpu, chans, Goto, idle
<1>19. CASE unidle(c)
  BY <1>19, <1>1, <1>2, <1>3, <1>4
     DEF VictimsHere, NoLocals, CpuTypes, LocTypes, thread, cpu, chans, Goto, unidle
<1>20. CASE switchframe_switch(c)
  BY <1>20, <1>1, <1>2, <1>3, <1>4
     DEF VictimsHere, NoLocals, CpuTypes, LocTypes, thread, cpu, chans, Goto, switchframe_switch
<1>21. CASE lamebus_clear_ipi(c)
  BY <1>21, <1>1, <1>2, <1>3, <1>4
     DEF VictimsHere, NoLocals, CpuTypes, LocTypes, thread, cpu, chans, Goto, lamebus_clear_ipi
<1>22. CASE migrate_count(c)
  <2>1. /\ pc'[c] = "mig_count" /\ runqueue' = runqueue /\ loc'[c].i = loc[c].i + 1
        /\ loc'[c].mine = IF loc[c].i = c THEN Len(runqueue[loc[c].i]) ELSE loc[c].mine
        /\ pc[c] = "mig_count"
    BY <1>22, <1>1, <1>2 DEF migrate_count, LocTypes, Locals
  <2> QED  BY <1>2, <1>3, <1>4, <2>1 DEF VictimsHere
<1>23. CASE TakeNone(c)
  BY <1>23, <1>1, <1>2, <1>3, <1>4
     DEF VictimsHere, NoLocals, CpuTypes, LocTypes, thread, cpu, chans, Goto, TakeNone,
         AfterHardclock, Yielding
<1>24. CASE TakeVictims(c)
  <2>1. PICK k \in 0 .. Len(runqueue[c]) : \E share \in Nat :
          loc' = [loc EXCEPT ![c] = [NoLocals EXCEPT
                       !.list = SubSeq(runqueue[c], k + 1, Len(runqueue[c])),
                       !.to_send = Len(runqueue[c]) - k, !.share = share]]
    BY <1>24 DEF TakeVictims
  <2>2. /\ pc'[c] = "mig_send" /\ loc'[c].to_send = Len(runqueue[c]) - k
        /\ loc'[c].list = SubSeq(runqueue[c], k + 1, Len(runqueue[c]))
    <3>1. pc'[c] = "mig_send"
      BY <1>24, <1>1, <1>2 DEF TakeVictims, CpuTypes
    <3>2. PICK share \in Nat :
            loc' = [loc EXCEPT ![c] = [NoLocals EXCEPT
                         !.list = SubSeq(runqueue[c], k + 1, Len(runqueue[c])),
                         !.to_send = Len(runqueue[c]) - k, !.share = share]]
      BY <2>1
    <3>3. loc'[c] = [NoLocals EXCEPT
                       !.list = SubSeq(runqueue[c], k + 1, Len(runqueue[c])),
                       !.to_send = Len(runqueue[c]) - k, !.share = share]
      BY <1>1, <1>2, <3>2 DEF LocTypes
    <3> QED  BY <3>1, <3>3 DEF NoLocals
  <2>3. Len(SubSeq(runqueue[c], k + 1, Len(runqueue[c]))) = Len(runqueue[c]) - k
    BY <1>4, SubSeqFacts
  <2>4. Len(runqueue[c]) - k \in Nat
    BY <1>4
  <2>5. Len(loc'[c].list) = loc'[c].to_send /\ loc'[c].to_send \in Nat
    BY <2>2, <2>3, <2>4
  <2>6. ASSUME NEW n \in Nat PROVE n >= n
    OBVIOUS
  <2>7. Len(loc'[c].list) >= loc'[c].to_send
    BY <2>5, <2>6
  <2>8. pc'[c] # "mig_count"
    BY <2>2
  <2> QED  BY <2>7, <2>8 DEF VictimsHere
<1>25. CASE NextCpu(c)
  BY <1>25, <1>1, <1>2, <1>3, <1>4
     DEF VictimsHere, NoLocals, CpuTypes, LocTypes, thread, cpu, chans, Goto, NextCpu
<1>26. CASE SkipCurrent(c)
  <2>1. Len(Append(Tail(loc[c].list), Head(loc[c].list))) = Len(loc[c].list)
    BY <1>26, <1>4, TailFacts, AppendFacts DEF SkipCurrent
  <2>2. /\ pc'[c] = "mig_send" /\ loc'[c].to_send = loc[c].to_send - 1
        /\ loc'[c].list = Append(Tail(loc[c].list), Head(loc[c].list))
    BY <1>26, <1>1, <1>2 DEF SkipCurrent, LocTypes, Locals
  <2> QED  BY <1>26, <1>3, <1>4, <2>1, <2>2 DEF VictimsHere, SkipCurrent
<1>27. ASSUME NEW d \in Cpus, SendTo(c, d) PROVE VictimsHere(c)'
  <2>1. Len(Tail(loc[c].list)) = Len(loc[c].list) - 1
    BY <1>27, <1>4, TailFacts DEF SendTo
  <2>2. /\ pc'[c] = "mig_send" /\ loc'[c].to_send = loc[c].to_send - 1
        /\ loc'[c].list = Tail(loc[c].list)
    BY <1>27, <1>1, <1>2 DEF SendTo, LocTypes, Locals
  <2> QED  BY <1>27, <1>3, <1>4, <2>1, <2>2 DEF VictimsHere, SendTo
<1>28. CASE migrate_sent(c)
  BY <1>28, <1>1, <1>2, <1>3, <1>4
     DEF VictimsHere, NoLocals, CpuTypes, LocTypes, thread, cpu, chans, Goto, migrate_sent,
         Unlocked
<1>29. CASE migrate_leftovers(c)
  BY <1>29, <1>1, <1>2, <1>3, <1>4
     DEF VictimsHere, NoLocals, CpuTypes, LocTypes, thread, cpu, chans, Goto, migrate_leftovers,
         AfterHardclock, Yielding
<1>30. ASSUME NEW w \in Wchans, FallAsleep(c, w) PROVE VictimsHere(c)'
  BY <1>30, <1>1, <1>2, <1>3, <1>4
     DEF VictimsHere, NoLocals, CpuTypes, LocTypes, thread, cpu, chans, Goto, FallAsleep
<1>31. CASE TakeUnit(c)
  BY <1>31, <1>1, <1>2, <1>3, <1>4
     DEF VictimsHere, NoLocals, CpuTypes, LocTypes, thread, cpu, chans, Goto, TakeUnit, Runs
<1>32. CASE cpus_online(c)
  BY <1>32, <1>1, <1>2, <1>3, <1>4
     DEF VictimsHere, NoLocals, CpuTypes, LocTypes, thread, cpu, chans, Goto, cpus_online, Runs,
         Move
<1>33. CASE cpu_hatch(c)
  BY <1>33, <1>1, <1>2, <1>3, <1>4
     DEF VictimsHere, NoLocals, CpuTypes, LocTypes, thread, cpu, chans, Goto, cpu_hatch, Runs,
         Move, wchan_wakeone
<1>34. CASE fork_run(c)
  BY <1>34, <1>1, <1>2, <1>3, <1>4
     DEF VictimsHere, NoLocals, CpuTypes, LocTypes, thread, cpu, chans, Goto, fork_run, Runs, Move
<1>35. CASE CountReached(c)
  BY <1>35, <1>1, <1>2, <1>3, <1>4
     DEF VictimsHere, NoLocals, CpuTypes, LocTypes, thread, cpu, chans, Goto, CountReached,
         Runs, Move
<1>36. CASE clocksleep_return(c)
  BY <1>36, <1>1, <1>2, <1>3, <1>4
     DEF VictimsHere, NoLocals, CpuTypes, LocTypes, thread, cpu, chans, Goto, clocksleep_return,
         Runs, Move
<1>37. CASE exit_count(c)
  BY <1>37, <1>1, <1>2, <1>3, <1>4
     DEF VictimsHere, NoLocals, CpuTypes, LocTypes, thread, cpu, chans, Goto, exit_count, Runs,
         Move, wchan_wakeall
<1>38. CASE exit_switch(c)
  BY <1>38, <1>1, <1>2, <1>3, <1>4
     DEF VictimsHere, NoLocals, CpuTypes, LocTypes, thread, cpu, chans, Goto, exit_switch, Runs
<1>39. ASSUME NEW t \in Threads, thread_fork(c, t) PROVE VictimsHere(c)'
  BY <1>39, <1>1, <1>2, <1>3, <1>4
     DEF VictimsHere, NoLocals, CpuTypes, LocTypes, thread, cpu, chans, Goto, thread_fork, Runs,
         Move, wchan_wakeall
<1>40. CASE clocksleep(c)
  BY <1>40, <1>1, <1>2, <1>3, <1>4
     DEF VictimsHere, NoLocals, CpuTypes, LocTypes, thread, cpu, chans, Goto, clocksleep, Runs,
         Move, Sleep
<1>41. CASE thread_exit(c)
  BY <1>41, <1>1, <1>2, <1>3, <1>4
     DEF VictimsHere, NoLocals, CpuTypes, LocTypes, thread, cpu, chans, Goto, thread_exit, Runs,
         Move
<1> QED
  BY <1>10, <1>11, <1>12, <1>13, <1>14, <1>15, <1>16, <1>17, <1>18, <1>19, <1>20, <1>21, <1>22,
     <1>23, <1>24, <1>25, <1>26, <1>27, <1>28, <1>29, <1>30, <1>31, <1>32, <1>33, <1>34, <1>35,
     <1>36, <1>37, <1>38, <1>39, <1>40, <1>41
     DEF Branch

(* A migration finds the threads it counted.                               *)
LEMMA VictimsStep ==
    ASSUME SchedInv, Next, NEW c \in Cpus, Branch(c)
    PROVE  VictimsExist'
<1>1. /\ OtherCpusSame(c) /\ TypeOK /\ Cpus \subseteq AllCpus
      /\ \A d \in AllCpus \ {c} : Len(runqueue'[d]) >= Len(runqueue[d])
  BY OtherCpus, QueuesGrow, CpuFacts DEF SchedInv, OnePlace
<1>2. Cpus' = Cpus
  BY <1>1 DEF OtherCpusSame, Cpus
<1>3. ListTypes' /\ LocTypes /\ ListTypes
  BY ListTypesStep DEF SchedInv, OnePlace, TypeOK, LocalInv, LocTypes, ListTypes
<1>4. ASSUME NEW d \in Cpus, d # c PROVE VictimsHere(d)'
  <2>1. /\ Len(runqueue[d]) \in Nat /\ Len(runqueue'[d]) \in Nat /\ loc[d].mine \in Nat
    <3>1. d \in AllCpus
      BY <1>1, <1>4
    <3>2. runqueue[d] \in Seq(Threads) /\ runqueue'[d] \in Seq(Threads)
      BY <1>3, <3>1 DEF ListTypes
    <3>3. loc[d].mine \in Nat
      BY <1>3, <3>1 DEF LocTypes, Locals
    <3>4. \A s \in Seq(Threads) : Len(s) \in Nat
      OBVIOUS
    <3> QED  BY <3>2, <3>3, <3>4
  <2>2. pc'[d] = pc[d] /\ loc'[d] = loc[d] /\ Len(runqueue'[d]) >= Len(runqueue[d])
    BY <1>1, <1>4 DEF OtherCpusSame
  <2>3. VictimsHere(d)
    BY DEF SchedInv, VictimsExist, VictimsHere
  <2> QED  BY <2>1, <2>2, <2>3 DEF VictimsHere
<1> QED  BY <1>2, <1>4, VictimsOwn DEF VictimsExist, VictimsHere

-----------------------------------------------------------------------------
(* What a step does to the lists as a whole.                               *)
LEMMA ListsTyped ==
    /\ ListTypes /\ LocTypes => Lists \in ListFunctions
    /\ ListTypes' /\ LocTypes' => Lists' \in ListFunctions
<1>1. ASSUME ListTypes, LocTypes PROVE Lists \in ListFunctions
  <2>1. /\ \A c \in AllCpus : /\ runqueue[c] \in Seq(Threads)
                              /\ zombies[c] \in Seq(Threads)
                              /\ loc[c].list \in Seq(Threads)
        /\ \A w \in Wchans : wc_threads[w] \in Seq(Threads)
    BY <1>1 DEF ListTypes, LocTypes, Locals
  <2>2. ASSUME NEW l \in ListNames PROVE Lists[l] \in Seq(Threads)
    <3>1. CASE \E w \in Wchans : l = <<"wchan", w>>
      <4>1. PICK w \in Wchans : l = <<"wchan", w>>
        BY <3>1
      <4> QED  BY <2>1, <4>1, ListParts
    <3>2. CASE \E c \in AllCpus : l = <<"runqueue", c>>
      <4>1. PICK c \in AllCpus : l = <<"runqueue", c>>
        BY <3>2
      <4> QED  BY <2>1, <4>1, ListParts
    <3>3. CASE \E c \in AllCpus : l = <<"zombies", c>>
      <4>1. PICK c \in AllCpus : l = <<"zombies", c>>
        BY <3>3
      <4> QED  BY <2>1, <4>1, ListParts
    <3>4. CASE \E c \in AllCpus : l = <<"private", c>>
      <4>1. PICK c \in AllCpus : l = <<"private", c>>
        BY <3>4
      <4> QED  BY <2>1, <4>1, ListParts
    <3> QED  BY <3>1, <3>2, <3>3, <3>4, ListCases
  <2> QED  BY <2>2 DEF Lists, ListFunctions
<1>2. ASSUME ListTypes', LocTypes' PROVE Lists' \in ListFunctions
  <2>1. /\ \A c \in AllCpus : /\ runqueue'[c] \in Seq(Threads)
                              /\ zombies'[c] \in Seq(Threads)
                              /\ loc'[c].list \in Seq(Threads)
        /\ \A w \in Wchans : wc_threads'[w] \in Seq(Threads)
    BY <1>2 DEF ListTypes, LocTypes, Locals
  <2>2. ASSUME NEW l \in ListNames PROVE Lists'[l] \in Seq(Threads)
    <3>1. CASE \E w \in Wchans : l = <<"wchan", w>>
      <4>1. PICK w \in Wchans : l = <<"wchan", w>>
        BY <3>1
      <4> QED  BY <2>1, <4>1, ListParts
    <3>2. CASE \E c \in AllCpus : l = <<"runqueue", c>>
      <4>1. PICK c \in AllCpus : l = <<"runqueue", c>>
        BY <3>2
      <4> QED  BY <2>1, <4>1, ListParts
    <3>3. CASE \E c \in AllCpus : l = <<"zombies", c>>
      <4>1. PICK c \in AllCpus : l = <<"zombies", c>>
        BY <3>3
      <4> QED  BY <2>1, <4>1, ListParts
    <3>4. CASE \E c \in AllCpus : l = <<"private", c>>
      <4>1. PICK c \in AllCpus : l = <<"private", c>>
        BY <3>4
      <4> QED  BY <2>1, <4>1, ListParts
    <3> QED  BY <3>1, <3>2, <3>3, <3>4, ListCases
  <2> QED  BY <2>2 DEF Lists, ListFunctions
<1> QED  BY <1>1, <1>2

(* The lists with other names than those in N are not touched.             *)
LEMMA ListsElse ==
    ASSUME NEW N,
           \A d \in AllCpus : <<"runqueue", d>> \in N \/ runqueue'[d] = runqueue[d],
           \A d \in AllCpus : <<"zombies", d>> \in N \/ zombies'[d] = zombies[d],
           \A d \in AllCpus : <<"private", d>> \in N \/ loc'[d].list = loc[d].list,
           \A w \in Wchans : <<"wchan", w>> \in N \/ wc_threads'[w] = wc_threads[w]
    PROVE  \A l \in ListNames \ N : Lists'[l] = Lists[l]
<1> SUFFICES ASSUME NEW l \in ListNames, l \notin N PROVE Lists'[l] = Lists[l]
  OBVIOUS
<1>1. CASE \E w \in Wchans : l = <<"wchan", w>>
  BY <1>1, ListParts
<1>2. CASE \E c \in AllCpus : l = <<"runqueue", c>>
  <2>1. PICK d \in AllCpus : l = <<"runqueue", d>>  BY <1>2
  <2>2. runqueue'[d] = runqueue[d]  BY <2>1
  <2> QED  BY <2>1, <2>2, ListParts
<1>3. CASE \E c \in AllCpus : l = <<"zombies", c>>
  <2>1. PICK d \in AllCpus : l = <<"zombies", d>>  BY <1>3
  <2>2. zombies'[d] = zombies[d]  BY <2>1
  <2> QED  BY <2>1, <2>2, ListParts
<1>4. CASE \E c \in AllCpus : l = <<"private", c>>
  <2>1. PICK d \in AllCpus : l = <<"private", d>>  BY <1>4
  <2>2. loc'[d].list = loc[d].list  BY <2>1
  <2> QED  BY <2>1, <2>2, ListParts
<1> QED  BY <1>1, <1>2, <1>3, <1>4, ListCases

(* No thread is put on a second list, none is lost, none is new.           *)
SameThreads == Distinct(Lists') /\ \A t : Listed(t)' <=> Listed(t)

LEMMA QuietLists ==
    ASSUME SchedInv, Lists' = Lists
    PROVE  SameThreads
<1>1. Distinct(Lists)
  BY PlaceParts DEF SchedInv
<1> QED  BY <1>1, PlaceParts DEF SameThreads

(* wchan_wakeall takes all threads of a channel.                           *)
LEMMA WakeallLists ==
    ASSUME SchedInv, ListTypes', LocTypes', NEW c \in AllCpus, NEW w \in Wchans,
           wchan_wakeall(c, w), loc[c].list = <<>>, UNCHANGED <<runqueue, zombies>>
    PROVE  SameThreads
<1> DEFINE a == <<"wchan", w>>
           b == <<"private", c>>
<1>1. ListTypes /\ LocTypes /\ Distinct(Lists)
  BY PlaceParts DEF SchedInv, OnePlace, LocalInv, TypeOK, ListTypes, LocTypes
<1>2. Lists \in ListFunctions /\ Lists' \in ListFunctions
  BY <1>1, ListsTyped
<1>3. /\ wc_threads' = [wc_threads EXCEPT ![w] = <<>>]
      /\ loc' = [loc EXCEPT ![c] = [NoLocals EXCEPT !.wc = w, !.list = wc_threads[w]]]
  BY DEF wchan_wakeall, Goto
<1>4. /\ wc_threads'[w] = <<>> /\ loc'[c].list = wc_threads[w]
      /\ \A v \in Wchans : v = w \/ wc_threads'[v] = wc_threads[v]
      /\ \A d \in AllCpus : d = c \/ loc'[d].list = loc[d].list
  BY <1>1, <1>3 DEF ListTypes, LocTypes, NoLocals
<1>5. a \in ListNames /\ b \in ListNames /\ a # b
  BY ListParts
<1>6. Lists[b] = <<>> /\ Lists'[a] = <<>> /\ Lists'[b] = Lists[a]
  BY <1>4, ListParts
<1>7. \A l \in ListNames \ {a, b} : Lists'[l] = Lists[l]
  <2>1. /\ \A d \in AllCpus : <<"runqueue", d>> \in {a, b} \/ runqueue'[d] = runqueue[d]
        /\ \A d \in AllCpus : <<"zombies", d>> \in {a, b} \/ zombies'[d] = zombies[d]
        /\ \A d \in AllCpus : <<"private", d>> \in {a, b} \/ loc'[d].list = loc[d].list
        /\ \A v \in Wchans : <<"wchan", v>> \in {a, b} \/ wc_threads'[v] = wc_threads[v]
    BY <1>4
  <2> HIDE DEF a, b
  <2> QED  BY <2>1, ListsElse
<1> HIDE DEF a, b
<1>8. Lists[a] \in Seq(Threads)
  BY <1>2, <1>5 DEF ListFunctions
<1>9. /\ 0 \in 0 .. Len(Lists[a])
      /\ Len(Lists'[a]) = 0 /\ \A i \in 1 .. 0 : Lists'[a][i] = Lists[a][i]
      /\ Len(Lists'[b]) = Len(Lists[a]) - 0
      /\ \A i \in 1 .. Len(Lists[a]) - 0 : Lists'[b][i] = Lists[a][0 + i]
  BY <1>6, <1>8
<1>10. Distinct(Lists') /\ \A u : Among(Lists', u) <=> Among(Lists, u)
  BY <1>1, <1>2, <1>5, <1>6, <1>7, <1>9, SplitList
<1> QED  BY <1>10, PlaceParts DEF SameThreads

(* The head of one list goes to another one.                               *)
LEMMA HeadMoves ==
    ASSUME SchedInv, ListTypes', LocTypes',
           NEW a \in ListNames, NEW b \in ListNames, a # b, Lists[a] # <<>>,
           Lists'[a] = Tail(Lists[a]), Lists'[b] = Append(Lists[b], Head(Lists[a])),
           \A l \in ListNames \ {a, b} : Lists'[l] = Lists[l]
    PROVE  SameThreads
<1>1. ListTypes /\ LocTypes /\ Distinct(Lists)
  BY PlaceParts DEF SchedInv, OnePlace, LocalInv, TypeOK, ListTypes, LocTypes
<1>2. Lists \in ListFunctions /\ Lists' \in ListFunctions
  BY <1>1, ListsTyped
<1>3. Distinct(Lists') /\ \A u : Among(Lists', u) <=> Among(Lists, u)
  BY <1>1, <1>2, MoveHead
<1> QED  BY <1>3, PlaceParts DEF SameThreads

LEMMA ListsKept ==
    ASSUME UNCHANGED <<runqueue, zombies, wc_threads>>,
           \A d \in AllCpus : loc'[d].list = loc[d].list
    PROVE  Lists' = Lists
  BY DEF Lists, ListNames

LEMMA SameThreadsStep ==
    ASSUME SchedInv, Next, NEW c \in Cpus, Branch(c),
           ~PutAway(c), ~switchframe_switch(c), ~fork_run(c)
    PROVE  SameThreads
<1>1. /\ ThreadTypes /\ CpuTypes /\ ListTypes /\ LocTypes /\ TypeOK
  BY DEF SchedInv, OnePlace, TypeOK, LocalInv, ThreadTypes, CpuTypes, ListTypes, LocTypes
<1>2. /\ c \in AllCpus /\ AllCpus \subseteq Int /\ curthread[c] \in Threads /\ loc[c] \in Locals
      /\ num_cpus \in Nat /\ num_cpus >= 1 /\ Cpus \subseteq AllCpus
  BY <1>1, CpuFacts DEF AllCpus, CpuTypes, LocTypes
<1>3. ListTypes' /\ LocTypes'
  BY ListTypesStep
<1>4. LocalShape(c)
  BY <1>2 DEF SchedInv, LocalInv, LocalShape
<1>5. /\ \A d \in AllCpus : d = c \/ loc'[d].list = loc[d].list
      /\ loc'[c].list = loc[c].list => \A d \in AllCpus : loc'[d].list = loc[d].list
  BY OtherCpus DEF OtherCpusSame
<1>6. SchedInv /\ ListTypes' /\ LocTypes'
  BY <1>3
<1>7. Distinct(Lists) /\ Lists \in ListFunctions /\ Lists' \in ListFunctions
  BY <1>1, <1>3, ListsTyped, PlaceParts DEF SchedInv
<1>10. CASE hardclock(c)
  <2>1. UNCHANGED <<runqueue, zombies, wc_threads>> /\ loc'[c].list = loc[c].list
    BY <1>10, <1>1, <1>2, <1>4
       DEF ListTypes, LocTypes, LocalShape, NoLocals, Locals, thread, cpu, chans, Goto,
           hardclock, AfterHardclock, Yielding, TakesInterrupts
  <2> QED  BY <1>5, <2>1, ListsKept, QuietLists
<1>11. CASE hardclock_migrate(c)
  <2>1. UNCHANGED <<runqueue, zombies, wc_threads>> /\ loc'[c].list = loc[c].list
    BY <1>11, <1>1, <1>2, <1>4
       DEF ListTypes, LocTypes, LocalShape, NoLocals, Locals, thread, cpu, chans, Goto,
           hardclock_migrate, TakesInterrupts
  <2> QED  BY <1>5, <2>1, ListsKept, QuietLists
<1>12. CASE timerclock(c)
  <2>1. loc[c].list = <<>> /\ "lbolt" \in Wchans
    BY <1>12, <1>4 DEF timerclock, TakesInterrupts, LocalShape, Wchans
  <2>2. wchan_wakeall(c, "lbolt") /\ UNCHANGED <<runqueue, zombies>>
    BY <1>12 DEF timerclock
  <2> QED  BY <1>2, <1>6, <2>1, <2>2, WakeallLists
<1>13. CASE interprocessor_interrupt(c)
  <2>1. UNCHANGED <<runqueue, zombies, wc_threads>> /\ loc'[c].list = loc[c].list
    BY <1>13, <1>1, <1>2, <1>4
       DEF ListTypes, LocTypes, LocalShape, NoLocals, Locals, thread, cpu, chans, Goto,
           interprocessor_interrupt, TakesInterrupts
  <2> QED  BY <1>5, <2>1, ListsKept, QuietLists
<1>14. CASE thread_make_runnable(c)
  <2> DEFINE d == t_cpu[Head(loc[c].list)]
  <2>1. d \in AllCpus
    BY <1>14, <1>2, WakeTarget DEF thread_make_runnable
  <2> DEFINE a == <<"private", c>>
             b == <<"runqueue", d>>
  <2>11. a \in ListNames /\ b \in ListNames /\ a # b
    BY <1>2, <2>1, ListParts
  <2>12. /\ loc[c].list # <<>> /\ loc'[c].list = Tail(loc[c].list)
         /\ runqueue'[d] = Append(runqueue[d], Head(loc[c].list))
         /\ \A e \in AllCpus : e = d \/ runqueue'[e] = runqueue[e]
         /\ UNCHANGED <<zombies, wc_threads>>
    BY <1>14, <1>1, <1>2, <2>1 DEF thread_make_runnable, ListTypes, LocTypes, Locals, chans
  <2>16. /\ Lists[a] = loc[c].list /\ Lists'[a] = loc'[c].list
         /\ Lists[b] = runqueue[d] /\ Lists'[b] = runqueue'[d]
    <3>1. Lists[a] = loc[c].list /\ Lists'[a] = loc'[c].list
      BY <1>2, ListParts
    <3> HIDE DEF d
    <3>2. Lists[b] = runqueue[d] /\ Lists'[b] = runqueue'[d]
      BY <2>1, ListParts
    <3> QED  BY <3>1, <3>2
  <2>13. Lists[a] # <<>> /\ Lists'[a] = Tail(Lists[a]) /\ Lists'[b] = Append(Lists[b], Head(Lists[a]))
    BY <2>12, <2>16
  <2>14. /\ \A e \in AllCpus : <<"runqueue", e>> \in {a, b} \/ runqueue'[e] = runqueue[e]
         /\ \A e \in AllCpus : <<"zombies", e>> \in {a, b} \/ zombies'[e] = zombies[e]
         /\ \A e \in AllCpus : <<"private", e>> \in {a, b} \/ loc'[e].list = loc[e].list
         /\ \A v \in Wchans : <<"wchan", v>> \in {a, b} \/ wc_threads'[v] = wc_threads[v]
    BY <1>5, <2>12
  <2> HIDE DEF a, b
  <2>15. \A l \in ListNames \ {a, b} : Lists'[l] = Lists[l]
    BY <2>14, ListsElse
  <2> QED  BY <1>6, <2>11, <2>13, <2>15, HeadMoves
<1>15. CASE wake_done(c)
  <2>1. UNCHANGED <<runqueue, zombies, wc_threads>> /\ loc'[c].list = loc[c].list
    BY <1>15, <1>1, <1>2, <1>4
       DEF ListTypes, LocTypes, LocalShape, NoLocals, Locals, thread, cpu, chans, Goto, wake_done
  <2> QED  BY <1>5, <2>1, ListsKept, QuietLists
<1>16. CASE StayRunning(c)
  <2>1. UNCHANGED <<runqueue, zombies, wc_threads>> /\ loc'[c].list = loc[c].list
    BY <1>16, <1>1, <1>2, <1>4
       DEF ListTypes, LocTypes, LocalShape, NoLocals, Locals, thread, cpu, chans, Goto,
           StayRunning
  <2> QED  BY <1>5, <2>1, ListsKept, QuietLists
<1>17. CASE idle(c)
  <2>1. UNCHANGED <<runqueue, zombies, wc_threads>> /\ loc'[c].list = loc[c].list
    BY <1>17, <1>1, <1>2, <1>4
       DEF ListTypes, LocTypes, LocalShape, NoLocals, Locals, thread, cpu, chans, Goto, idle
  <2> QED  BY <1>5, <2>1, ListsKept, QuietLists
<1>18. CASE unidle(c)
  <2>1. UNCHANGED <<runqueue, zombies, wc_threads>> /\ loc'[c].list = loc[c].list
    BY <1>18, <1>1, <1>2, <1>4
       DEF ListTypes, LocTypes, LocalShape, NoLocals, Locals, thread, cpu, chans, Goto, unidle
  <2> QED  BY <1>5, <2>1, ListsKept, QuietLists
<1>19. CASE lamebus_clear_ipi(c)
  <2>1. UNCHANGED <<runqueue, zombies, wc_threads>> /\ loc'[c].list = loc[c].list
    BY <1>19, <1>1, <1>2, <1>4
       DEF ListTypes, LocTypes, LocalShape, NoLocals, Locals, thread, cpu, chans, Goto,
           lamebus_clear_ipi
  <2> QED  BY <1>5, <2>1, ListsKept, QuietLists
<1>20. CASE migrate_count(c)
  <2>1. UNCHANGED <<runqueue, zombies, wc_threads>> /\ loc'[c].list = loc[c].list
    BY <1>20, <1>1, <1>2, <1>4
       DEF ListTypes, LocTypes, LocalShape, NoLocals, Locals, thread, cpu, chans, Goto,
           migrate_count
  <2> QED  BY <1>5, <2>1, ListsKept, QuietLists
<1>21. CASE TakeNone(c)
  <2>1. UNCHANGED <<runqueue, zombies, wc_threads>> /\ loc'[c].list = loc[c].list
    BY <1>21, <1>1, <1>2, <1>4
       DEF ListTypes, LocTypes, LocalShape, NoLocals, Locals, thread, cpu, chans, Goto,
           TakeNone, AfterHardclock, Yielding
  <2> QED  BY <1>5, <2>1, ListsKept, QuietLists
<1>22. CASE TakeVictims(c)
  <2> DEFINE a == <<"runqueue", c>>
             b == <<"private", c>>
  <2>1. a \in ListNames /\ b \in ListNames /\ a # b /\ runqueue[c] \in Seq(Threads)
    BY <1>1, <1>2, ListParts DEF ListTypes
  <2>9. PICK k \in 0 .. Len(runqueue[c]) : \E share \in Nat :
         /\ runqueue' = [runqueue EXCEPT ![c] = SubSeq(runqueue[c], 1, k)]
         /\ loc' = [loc EXCEPT ![c] = [NoLocals EXCEPT
                       !.list = SubSeq(runqueue[c], k + 1, Len(runqueue[c])),
                       !.to_send = Len(runqueue[c]) - k, !.share = share]]
    BY <1>22 DEF TakeVictims
  <2>2. /\ runqueue'[c] = SubSeq(runqueue[c], 1, k)
        /\ loc'[c].list = SubSeq(runqueue[c], k + 1, Len(runqueue[c]))
        /\ \A e \in AllCpus : e = c \/ runqueue'[e] = runqueue[e]
        /\ UNCHANGED <<zombies, wc_threads>>
    <3>1. /\ runqueue'[c] = SubSeq(runqueue[c], 1, k)
          /\ \A e \in AllCpus : e = c \/ runqueue'[e] = runqueue[e]
      BY <2>9, <1>1, <1>2 DEF ListTypes
    <3>2. loc'[c].list = SubSeq(runqueue[c], k + 1, Len(runqueue[c]))
      BY <2>9, <1>1, <1>2 DEF LocTypes, NoLocals
    <3>3. UNCHANGED <<zombies, wc_threads>>
      BY <1>22 DEF TakeVictims
    <3> QED  BY <3>1, <3>2, <3>3
  <2>10. loc[c].list = <<>>
    BY <1>22, <1>4 DEF TakeVictims, LocalShape
  <2>3. /\ Lists[b] = <<>> /\ Lists[a] = runqueue[c] /\ Lists'[a] = SubSeq(runqueue[c], 1, k)
        /\ Lists'[b] = SubSeq(runqueue[c], k + 1, Len(runqueue[c]))
    BY <1>2, <2>2, <2>10, ListParts
  <2>4. /\ \A e \in AllCpus : <<"runqueue", e>> \in {a, b} \/ runqueue'[e] = runqueue[e]
        /\ \A e \in AllCpus : <<"zombies", e>> \in {a, b} \/ zombies'[e] = zombies[e]
        /\ \A e \in AllCpus : <<"private", e>> \in {a, b} \/ loc'[e].list = loc[e].list
        /\ \A v \in Wchans : <<"wchan", v>> \in {a, b} \/ wc_threads'[v] = wc_threads[v]
    BY <1>5, <2>2
  <2> HIDE DEF a, b
  <2>5. \A l \in ListNames \ {a, b} : Lists'[l] = Lists[l]
    BY <2>4, ListsElse
  <2>7. /\ k \in 0 .. Len(Lists[a])
        /\ Len(Lists'[a]) = k /\ \A i \in 1 .. k : Lists'[a][i] = Lists[a][i]
        /\ Len(Lists'[b]) = Len(Lists[a]) - k
        /\ \A i \in 1 .. Len(Lists[a]) - k : Lists'[b][i] = Lists[a][k + i]
    BY <2>1, <2>3, SubSeqFacts
  <2>8. Lists[b] = <<>>
    BY <2>3
  <2>6. Distinct(Lists') /\ \A u : Among(Lists', u) <=> Among(Lists, u)
    BY <1>7, <2>1, <2>5, <2>7, <2>8, SplitList
  <2> QED  BY <2>6, PlaceParts DEF SameThreads
<1>23. CASE NextCpu(c)
  <2>1. UNCHANGED <<runqueue, zombies, wc_threads>> /\ loc'[c].list = loc[c].list
    BY <1>23, <1>1, <1>2, <1>4
       DEF ListTypes, LocTypes, LocalShape, NoLocals, Locals, thread, cpu, chans, Goto, NextCpu
  <2> QED  BY <1>5, <2>1, ListsKept, QuietLists
<1>24. CASE SkipCurrent(c)
  <2> DEFINE a == <<"private", c>>
  <2>1. a \in ListNames
    BY <1>2, ListParts
  <2>2. /\ loc[c].list # <<>>
        /\ loc'[c].list = Append(Tail(loc[c].list), Head(loc[c].list))
        /\ UNCHANGED <<runqueue, zombies, wc_threads>>
    BY <1>24, <1>1, <1>2 DEF SkipCurrent, LocTypes, Locals
  <2>3. Lists[a] # <<>> /\ Lists'[a] = Append(Tail(Lists[a]), Head(Lists[a]))
    BY <1>2, <2>2, ListParts
  <2>4. /\ \A e \in AllCpus : <<"runqueue", e>> \in {a} \/ runqueue'[e] = runqueue[e]
        /\ \A e \in AllCpus : <<"zombies", e>> \in {a} \/ zombies'[e] = zombies[e]
        /\ \A e \in AllCpus : <<"private", e>> \in {a} \/ loc'[e].list = loc[e].list
        /\ \A v \in Wchans : <<"wchan", v>> \in {a} \/ wc_threads'[v] = wc_threads[v]
    BY <1>5, <2>2
  <2> HIDE DEF a
  <2>5. \A l \in ListNames \ {a} : Lists'[l] = Lists[l]
    BY <2>4, ListsElse
  <2>6. Distinct(Lists') /\ \A u : Among(Lists', u) <=> Among(Lists, u)
    BY <1>7, <2>1, <2>3, <2>5, RotateList
  <2> QED  BY <2>6, PlaceParts DEF SameThreads
<1>25. ASSUME NEW d \in Cpus, SendTo(c, d) PROVE SameThreads
  <2>1. d \in AllCpus
    BY <1>25, <1>2
  <2> DEFINE a == <<"private", c>>
             b == <<"runqueue", d>>
  <2>11. a \in ListNames /\ b \in ListNames /\ a # b
    BY <1>2, <2>1, ListParts
  <2>12. /\ loc[c].list # <<>> /\ loc'[c].list = Tail(loc[c].list)
         /\ runqueue'[d] = Append(runqueue[d], Head(loc[c].list))
         /\ \A e \in AllCpus : e = d \/ runqueue'[e] = runqueue[e]
         /\ UNCHANGED <<zombies, wc_threads>>
    BY <1>25, <1>1, <1>2, <2>1 DEF SendTo, ListTypes, LocTypes, Locals
  <2>16. /\ Lists[a] = loc[c].list /\ Lists'[a] = loc'[c].list
         /\ Lists[b] = runqueue[d] /\ Lists'[b] = runqueue'[d]
    <3>1. Lists[a] = loc[c].list /\ Lists'[a] = loc'[c].list
      BY <1>2, ListParts
    <3>2. Lists[b] = runqueue[d] /\ Lists'[b] = runqueue'[d]
      BY <2>1, ListParts
    <3> QED  BY <3>1, <3>2
  <2>13. Lists[a] # <<>> /\ Lists'[a] = Tail(Lists[a]) /\ Lists'[b] = Append(Lists[b], Head(Lists[a]))
    BY <2>12, <2>16
  <2>14. /\ \A e \in AllCpus : <<"runqueue", e>> \in {a, b} \/ runqueue'[e] = runqueue[e]
         /\ \A e \in AllCpus : <<"zombies", e>> \in {a, b} \/ zombies'[e] = zombies[e]
         /\ \A e \in AllCpus : <<"private", e>> \in {a, b} \/ loc'[e].list = loc[e].list
         /\ \A v \in Wchans : <<"wchan", v>> \in {a, b} \/ wc_threads'[v] = wc_threads[v]
    BY <1>5, <2>12
  <2> HIDE DEF a, b
  <2>15. \A l \in ListNames \ {a, b} : Lists'[l] = Lists[l]
    BY <2>14, ListsElse
  <2> QED  BY <1>6, <2>11, <2>13, <2>15, HeadMoves
<1>26. CASE migrate_sent(c)
  <2>1. UNCHANGED <<runqueue, zombies, wc_threads>> /\ loc'[c].list = loc[c].list
    BY <1>26, <1>1, <1>2, <1>4
       DEF ListTypes, LocTypes, LocalShape, NoLocals, Locals, thread, cpu, chans, Goto,
           migrate_sent, Unlocked
  <2> QED  BY <1>5, <2>1, ListsKept, QuietLists
<1>27. CASE migrate_leftovers(c)
  <2> DEFINE a == <<"runqueue", c>>
             b == <<"private", c>>
             s == runqueue[c]
             r == loc[c].list
  <2>1. a \in ListNames /\ b \in ListNames /\ a # b /\ s \in Seq(Threads) /\ r \in Seq(Threads)
    BY <1>1, <1>2, ListParts DEF ListTypes, Locals
  <2>2. /\ runqueue'[c] = s \o r /\ loc'[c].list = <<>>
        /\ \A e \in AllCpus : e = c \/ runqueue'[e] = runqueue[e]
        /\ UNCHANGED <<zombies, wc_threads>>
    BY <1>27, <1>1, <1>2
       DEF migrate_leftovers, Goto, Yielding, ListTypes, LocTypes, NoLocals, chans
  <2>3. Lists[a] = s /\ Lists[b] = r /\ Lists'[a] = s \o r /\ Lists'[b] = <<>>
    BY <1>2, <2>2, ListParts
  <2>4. /\ \A e \in AllCpus : <<"runqueue", e>> \in {a, b} \/ runqueue'[e] = runqueue[e]
        /\ \A e \in AllCpus : <<"zombies", e>> \in {a, b} \/ zombies'[e] = zombies[e]
        /\ \A e \in AllCpus : <<"private", e>> \in {a, b} \/ loc'[e].list = loc[e].list
        /\ \A v \in Wchans : <<"wchan", v>> \in {a, b} \/ wc_threads'[v] = wc_threads[v]
    BY <1>5, <2>2
  <2> HIDE DEF a, b, s, r
  <2>5. \A l \in ListNames \ {a, b} : Lists'[l] = Lists[l]
    BY <2>4, ListsElse
  <2>7. /\ Len(s) \in Nat /\ Len(r) \in Nat /\ s \o r \in Seq(Threads)
        /\ Len(s \o r) = Len(s) + Len(r)
        /\ \A i \in 1 .. Len(s) : (s \o r)[i] = s[i]
        /\ \A i \in 1 .. Len(r) : (s \o r)[Len(s) + i] = r[i]
    BY <2>1, ConcatFacts
  <2>8. /\ DOMAIN Lists[a] = 1 .. Len(s) /\ DOMAIN Lists[b] = 1 .. Len(r)
        /\ DOMAIN Lists'[a] = 1 .. (Len(s) + Len(r)) /\ DOMAIN Lists'[b] = {}
        /\ \A i \in 1 .. Len(s) : Lists'[a][i] = Lists[a][i]
        /\ \A i \in 1 .. Len(r) : Lists'[a][Len(s) + i] = Lists[b][i]
    BY <2>1, <2>3, <2>7
  <2> DEFINE n == Len(s)
             k == Len(r)
             L == Lists
             M == Lists'
  <2>9. /\ n \in Nat /\ k \in Nat /\ L \in ListFunctions /\ M \in ListFunctions /\ Distinct(L)
        /\ DOMAIN L[a] = 1 .. n /\ DOMAIN L[b] = 1 .. k
        /\ DOMAIN M[a] = 1 .. (n + k) /\ DOMAIN M[b] = {}
        /\ \A i \in 1 .. n : M[a][i] = L[a][i]
        /\ \A i \in 1 .. k : M[a][n + i] = L[b][i]
        /\ \A l \in ListNames \ {a, b} : M[l] = L[l]
    BY <1>7, <2>5, <2>7, <2>8
  <2> HIDE DEF n, k, L, M
  <2>6. Distinct(M) /\ \A u : Among(M, u) <=> Among(L, u)
    BY ONLY <2>1, <2>9, JoinLists
  <2> QED  BY <2>6, PlaceParts DEF SameThreads, L, M
<1>28. ASSUME NEW w \in Wchans, FallAsleep(c, w) PROVE SameThreads
  <2>1. UNCHANGED <<runqueue, zombies, wc_threads>> /\ loc'[c].list = loc[c].list
    BY <1>28, <1>1, <1>2, <1>4
       DEF ListTypes, LocTypes, LocalShape, NoLocals, Locals, thread, cpu, chans, Goto, FallAsleep
  <2> QED  BY <1>5, <2>1, ListsKept, QuietLists
<1>29. CASE TakeUnit(c)
  <2>1. UNCHANGED <<runqueue, zombies, wc_threads>> /\ loc'[c].list = loc[c].list
    BY <1>29, <1>1, <1>2, <1>4
       DEF ListTypes, LocTypes, LocalShape, NoLocals, Locals, thread, cpu, chans, Goto,
           TakeUnit, Runs
  <2> QED  BY <1>5, <2>1, ListsKept, QuietLists
<1>30. CASE cpus_online(c)
  <2>1. UNCHANGED <<runqueue, zombies, wc_threads>> /\ loc'[c].list = loc[c].list
    BY <1>30, <1>1, <1>2, <1>4
       DEF ListTypes, LocTypes, LocalShape, NoLocals, Locals, thread, cpu, chans, Goto,
           cpus_online, Runs, Move
  <2> QED  BY <1>5, <2>1, ListsKept, QuietLists
<1>31. CASE cpu_hatch(c)
  <2>1. loc[c].list = <<>> /\ "sem" \in Wchans
    BY <1>31, <1>4 DEF cpu_hatch, Runs, LocalShape, Wchans
  <2>2. CASE wc_threads["sem"] = <<>>
    <3>1. UNCHANGED <<runqueue, zombies, wc_threads>> /\ loc'[c].list = <<>>
      BY <1>31, <1>1, <1>2, <2>1, <2>2
         DEF cpu_hatch, wchan_wakeone, Goto, ListTypes, LocTypes, NoLocals
    <3> QED  BY <1>5, <2>1, <3>1, ListsKept, QuietLists
  <2>3. CASE wc_threads["sem"] # <<>>
    <3> DEFINE a == <<"wchan", "sem">>
               b == <<"private", c>>
    <3>11. a \in ListNames /\ b \in ListNames /\ a # b
      BY <1>2, <2>1, ListParts
    <3>12. /\ wc_threads["sem"] # <<>> /\ wc_threads'["sem"] = Tail(wc_threads["sem"])
           /\ loc'[c].list = Append(loc[c].list, Head(wc_threads["sem"]))
           /\ \A v \in Wchans : v = "sem" \/ wc_threads'[v] = wc_threads[v]
           /\ UNCHANGED <<runqueue, zombies>>
      <4>1. /\ loc'[c].list = <<Head(wc_threads["sem"])>>
            /\ wc_threads' = [wc_threads EXCEPT !["sem"] = Tail(wc_threads["sem"])]
        BY <1>31, <1>1, <1>2, <2>3 DEF cpu_hatch, wchan_wakeone, Goto, LocTypes, NoLocals
      <4>2. UNCHANGED <<runqueue, zombies>>
        BY <1>31 DEF cpu_hatch
      <4>3. wc_threads'["sem"] = Tail(wc_threads["sem"])
            /\ \A v \in Wchans : v = "sem" \/ wc_threads'[v] = wc_threads[v]
        BY <1>1, <2>1, <4>1 DEF ListTypes
      <4> QED  BY <2>1, <2>3, <4>1, <4>2, <4>3
    <3>13. Lists[a] # <<>> /\ Lists'[a] = Tail(Lists[a]) /\ Lists'[b] = Append(Lists[b], Head(Lists[a]))
      BY <1>2, <2>1, <3>12, ListParts
    <3>14. /\ \A e \in AllCpus : <<"runqueue", e>> \in {a, b} \/ runqueue'[e] = runqueue[e]
           /\ \A e \in AllCpus : <<"zombies", e>> \in {a, b} \/ zombies'[e] = zombies[e]
           /\ \A e \in AllCpus : <<"private", e>> \in {a, b} \/ loc'[e].list = loc[e].list
           /\ \A v \in Wchans : <<"wchan", v>> \in {a, b} \/ wc_threads'[v] = wc_threads[v]
      BY <1>5, <3>12
    <3> HIDE DEF a, b
    <3>15. \A l \in ListNames \ {a, b} : Lists'[l] = Lists[l]
      BY <3>14, ListsElse
    <3> QED  BY <1>6, <3>11, <3>13, <3>15, HeadMoves
  <2> QED  BY <2>2, <2>3
<1>32. CASE CountReached(c)
  <2>1. UNCHANGED <<runqueue, zombies, wc_threads>> /\ loc'[c].list = loc[c].list
    BY <1>32, <1>1, <1>2, <1>4
       DEF ListTypes, LocTypes, LocalShape, NoLocals, Locals, thread, cpu, chans, Goto,
           CountReached, Runs, Move
  <2> QED  BY <1>5, <2>1, ListsKept, QuietLists
<1>33. CASE clocksleep_return(c)
  <2>1. UNCHANGED <<runqueue, zombies, wc_threads>> /\ loc'[c].list = loc[c].list
    BY <1>33, <1>1, <1>2, <1>4
       DEF ListTypes, LocTypes, LocalShape, NoLocals, Locals, thread, cpu, chans, Goto,
           clocksleep_return, Runs, Move
  <2> QED  BY <1>5, <2>1, ListsKept, QuietLists
<1>34. CASE exit_count(c)
  <2>1. loc[c].list = <<>> /\ "count" \in Wchans
    BY <1>34, <1>4 DEF exit_count, Runs, LocalShape, Wchans
  <2>2. wchan_wakeall(c, "count") /\ UNCHANGED <<runqueue, zombies>>
    BY <1>34 DEF exit_count
  <2> QED  BY <1>2, <1>6, <2>1, <2>2, WakeallLists
<1>35. CASE exit_switch(c)
  <2>1. UNCHANGED <<runqueue, zombies, wc_threads>> /\ loc'[c].list = loc[c].list
    BY <1>35, <1>1, <1>2, <1>4
       DEF ListTypes, LocTypes, LocalShape, NoLocals, Locals, thread, cpu, chans, Goto,
           exit_switch, Runs
  <2> QED  BY <1>5, <2>1, ListsKept, QuietLists
<1>36. ASSUME NEW t \in Threads, thread_fork(c, t) PROVE SameThreads
  <2>1. loc[c].list = <<>> /\ "count" \in Wchans
    BY <1>36, <1>4 DEF thread_fork, Runs, LocalShape, Wchans
  <2>2. wchan_wakeall(c, "count") /\ UNCHANGED <<runqueue, zombies>>
    BY <1>36 DEF thread_fork
  <2> QED  BY <1>2, <1>6, <2>1, <2>2, WakeallLists
<1>37. CASE clocksleep(c)
  <2>1. UNCHANGED <<runqueue, zombies, wc_threads>> /\ loc'[c].list = loc[c].list
    BY <1>37, <1>1, <1>2, <1>4
       DEF ListTypes, LocTypes, LocalShape, NoLocals, Locals, thread, cpu, chans, Goto,
           clocksleep, Runs, Move, Sleep
  <2> QED  BY <1>5, <2>1, ListsKept, QuietLists
<1>38. CASE thread_exit(c)
  <2>1. UNCHANGED <<runqueue, zombies, wc_threads>> /\ loc'[c].list = loc[c].list
    BY <1>38, <1>1, <1>2, <1>4
       DEF ListTypes, LocTypes, LocalShape, NoLocals, Locals, thread, cpu, chans, Goto,
           thread_exit, Runs, Move
  <2> QED  BY <1>5, <2>1, ListsKept, QuietLists
<1> QED
  BY <1>10, <1>11, <1>12, <1>13, <1>14, <1>15, <1>16, <1>17, <1>18, <1>19, <1>20, <1>21, <1>22,
     <1>23, <1>24, <1>25, <1>26, <1>27, <1>28, <1>29, <1>30, <1>31, <1>32, <1>33, <1>34, <1>35,
     <1>36, <1>37, <1>38
     DEF Branch

(* thread_switch puts the current thread on one list.                      *)
LEMMA PutAwayLists ==
    ASSUME SchedInv, Next, NEW c \in Cpus, Branch(c), PutAway(c)
    PROVE  Distinct(Lists') /\ \A t : Listed(t)' <=> Listed(t) \/ t = curthread[c]
<1>1. /\ ThreadTypes /\ CpuTypes /\ ListTypes /\ LocTypes /\ TypeOK
  BY DEF SchedInv, OnePlace, TypeOK, LocalInv, ThreadTypes, CpuTypes, ListTypes, LocTypes
<1>2. c \in AllCpus /\ curthread[c] \in Threads /\ loc[c] \in Locals
  BY <1>1, CpuFacts DEF CpuTypes, LocTypes
<1>3. Distinct(Lists) /\ Lists \in ListFunctions /\ Lists' \in ListFunctions
  BY <1>1, ListTypesStep, ListsTyped, PlaceParts DEF SchedInv
<1>4. /\ loc[c].list = <<>> /\ loc[c].new \in {"READY", "SLEEP", "ZOMBIE"}
      /\ loc[c].wc \in Wchans <=> loc[c].new = "SLEEP"
  BY <1>2 DEF SchedInv, LocalInv, PutAway, Locals, NewStates
<1>5. ~Among(Lists, curthread[c])
  BY PlaceParts DEF SchedInv, CurInv, IdleInv, PutAway
<1>6. \A d \in AllCpus : loc'[d].list = loc[d].list
  BY <1>1, <1>4 DEF PutAway, LocTypes, NoLocals
<1>7. ASSUME NEW a \in ListNames, Lists'[a] = Append(Lists[a], curthread[c]),
             \A l \in ListNames \ {a} : Lists'[l] = Lists[l]
      PROVE  Distinct(Lists') /\ \A t : Listed(t)' <=> Listed(t) \/ t = curthread[c]
  <2>1. Distinct(Lists') /\ \A u : Among(Lists', u) <=> Among(Lists, u) \/ u = curthread[c]
    BY <1>2, <1>3, <1>5, <1>7, AddNew
  <2> QED  BY <2>1, PlaceParts
<1>8. CASE loc[c].new = "READY"
  <2> DEFINE a == <<"runqueue", c>>
  <2>1. /\ runqueue'[c] = Append(runqueue[c], curthread[c])
        /\ \A d \in AllCpus : d = c \/ runqueue'[d] = runqueue[d]
        /\ zombies' = zombies /\ \A w \in Wchans : wc_threads'[w] = wc_threads[w]
    BY <1>1, <1>2, <1>4, <1>8 DEF PutAway, ListTypes
  <2>2. a \in ListNames /\ Lists'[a] = Append(Lists[a], curthread[c])
    BY <1>2, <2>1, ListParts
  <2>3. /\ \A d \in AllCpus : <<"runqueue", d>> \in {a} \/ runqueue'[d] = runqueue[d]
        /\ \A d \in AllCpus : <<"zombies", d>> \in {a} \/ zombies'[d] = zombies[d]
        /\ \A d \in AllCpus : <<"private", d>> \in {a} \/ loc'[d].list = loc[d].list
        /\ \A w \in Wchans : <<"wchan", w>> \in {a} \/ wc_threads'[w] = wc_threads[w]
    BY <1>6, <2>1
  <2> HIDE DEF a
  <2>4. \A l \in ListNames \ {a} : Lists'[l] = Lists[l]
    BY <2>3, ListsElse
  <2> QED  BY <1>7, <2>2, <2>4
<1>9. CASE loc[c].new = "ZOMBIE"
  <2> DEFINE a == <<"zombies", c>>
  <2>1. /\ zombies'[c] = Append(zombies[c], curthread[c])
        /\ \A d \in AllCpus : d = c \/ zombies'[d] = zombies[d]
        /\ runqueue' = runqueue /\ \A w \in Wchans : wc_threads'[w] = wc_threads[w]
    BY <1>1, <1>2, <1>4, <1>9 DEF PutAway, ListTypes
  <2>2. a \in ListNames /\ Lists'[a] = Append(Lists[a], curthread[c])
    BY <1>2, <2>1, ListParts
  <2>3. /\ \A d \in AllCpus : <<"runqueue", d>> \in {a} \/ runqueue'[d] = runqueue[d]
        /\ \A d \in AllCpus : <<"zombies", d>> \in {a} \/ zombies'[d] = zombies[d]
        /\ \A d \in AllCpus : <<"private", d>> \in {a} \/ loc'[d].list = loc[d].list
        /\ \A w \in Wchans : <<"wchan", w>> \in {a} \/ wc_threads'[w] = wc_threads[w]
    BY <1>6, <2>1
  <2> HIDE DEF a
  <2>4. \A l \in ListNames \ {a} : Lists'[l] = Lists[l]
    BY <2>3, ListsElse
  <2> QED  BY <1>7, <2>2, <2>4
<1>10. CASE loc[c].new = "SLEEP"
  <2> DEFINE v == loc[c].wc
             a == <<"wchan", v>>
  <2>1. /\ v \in Wchans /\ wc_threads'[v] = Append(wc_threads[v], curthread[c])
        /\ \A w \in Wchans : w = v \/ wc_threads'[w] = wc_threads[w]
        /\ runqueue' = runqueue /\ zombies' = zombies
    BY <1>1, <1>2, <1>4, <1>10 DEF PutAway, ListTypes
  <2>2. a \in ListNames /\ Lists'[a] = Append(Lists[a], curthread[c])
    BY <1>2, <2>1, ListParts
  <2>3. /\ \A d \in AllCpus : <<"runqueue", d>> \in {a} \/ runqueue'[d] = runqueue[d]
        /\ \A d \in AllCpus : <<"zombies", d>> \in {a} \/ zombies'[d] = zombies[d]
        /\ \A d \in AllCpus : <<"private", d>> \in {a} \/ loc'[d].list = loc[d].list
        /\ \A w \in Wchans : <<"wchan", w>> \in {a} \/ wc_threads'[w] = wc_threads[w]
    BY <1>6, <2>1
  <2> HIDE DEF a
  <2>4. \A l \in ListNames \ {a} : Lists'[l] = Lists[l]
    BY <2>3, ListsElse
  <2> QED  BY <1>7, <2>2, <2>4
<1> QED  BY <1>4, <1>8, <1>9, <1>10

(* The next thread leaves the run queue, and the zombies are freed.        *)
LEMMA SwitchLists ==
    ASSUME SchedInv, Next, NEW c \in Cpus, Branch(c), switchframe_switch(c)
    PROVE  /\ Distinct(Lists')
           /\ \A t : Listed(t)' <=> /\ Listed(t) /\ t # Head(runqueue[c])
                                    /\ t \notin ToSet(zombies[c])
<1>1. /\ ThreadTypes /\ CpuTypes /\ ListTypes /\ LocTypes /\ TypeOK
  BY DEF SchedInv, OnePlace, TypeOK, LocalInv, ThreadTypes, CpuTypes, ListTypes, LocTypes
<1>2. c \in AllCpus /\ curthread[c] \in Threads /\ loc[c] \in Locals
  BY <1>1, CpuFacts DEF CpuTypes, LocTypes
<1>3. Distinct(Lists) /\ Lists \in ListFunctions /\ Lists' \in ListFunctions
  BY <1>1, ListTypesStep, ListsTyped, PlaceParts DEF SchedInv
<1>4. loc[c].list = <<>>
  BY <1>2 DEF SchedInv, LocalInv, switchframe_switch
<1>5. /\ runqueue[c] # <<>> /\ runqueue'[c] = Tail(runqueue[c]) /\ zombies'[c] = <<>>
      /\ \A d \in AllCpus : d = c \/ runqueue'[d] = runqueue[d]
      /\ \A d \in AllCpus : d = c \/ zombies'[d] = zombies[d]
      /\ \A d \in AllCpus : loc'[d].list = loc[d].list
      /\ wc_threads' = wc_threads
  BY <1>1, <1>2, <1>4 DEF switchframe_switch, Goto, NoLocals, ListTypes, LocTypes, chans
<1> DEFINE a == <<"runqueue", c>>
           b == <<"zombies", c>>
<1>6. /\ a \in ListNames /\ b \in ListNames /\ a # b
      /\ Lists[a] # <<>> /\ Lists'[a] = Tail(Lists[a]) /\ Lists'[b] = <<>>
      /\ Lists[a] = runqueue[c] /\ Lists[b] = zombies[c]
  BY <1>2, <1>5, ListParts
<1>7. /\ \A d \in AllCpus : <<"runqueue", d>> \in {a, b} \/ runqueue'[d] = runqueue[d]
      /\ \A d \in AllCpus : <<"zombies", d>> \in {a, b} \/ zombies'[d] = zombies[d]
      /\ \A d \in AllCpus : <<"private", d>> \in {a, b} \/ loc'[d].list = loc[d].list
      /\ \A w \in Wchans : <<"wchan", w>> \in {a, b} \/ wc_threads'[w] = wc_threads[w]
  BY <1>5
<1> HIDE DEF a, b
<1>8. \A l \in ListNames \ {a, b} : Lists'[l] = Lists[l]
  BY <1>7, ListsElse
<1> DEFINE K == [Lists EXCEPT ![a] = Tail(Lists[a])]
<1>9. Tail(Lists[a]) \in Seq(Threads)
  BY <1>3, <1>6, TailFacts DEF ListFunctions
<1>10. /\ K \in ListFunctions /\ K[a] = Tail(Lists[a])
       /\ \A l \in ListNames \ {a} : K[l] = Lists[l]
  BY <1>3, <1>6, <1>9 DEF ListFunctions
<1> HIDE DEF K
<1>11. Distinct(K) /\ \A u : Among(K, u) <=> Among(Lists, u) /\ u # Head(Lists[a])
  BY <1>3, <1>6, <1>10, DropHead
<1>12. Lists'[b] = <<>> /\ K[b] = Lists[b] /\ \A l \in ListNames \ {b} : Lists'[l] = K[l]
  BY <1>6, <1>8, <1>10
<1>13. Distinct(Lists') /\ \A u : Among(Lists', u) <=> Among(K, u) /\ u \notin ToSet(K[b])
  BY <1>3, <1>6, <1>10, <1>11, <1>12, ClearList
<1> QED  BY <1>6, <1>11, <1>12, <1>13, PlaceParts

(* A forked thread is on its first list.                                   *)
LEMMA ForkRunLists ==
    ASSUME SchedInv, Next, NEW c \in Cpus, Branch(c), fork_run(c)
    PROVE  /\ child[curthread[c]] \in Threads
           /\ Distinct(Lists') /\ \A t : Listed(t)' <=> Listed(t) \/ t = child[curthread[c]]
<1>1. /\ ThreadTypes /\ CpuTypes /\ ListTypes /\ LocTypes /\ TypeOK
  BY DEF SchedInv, OnePlace, TypeOK, LocalInv, ThreadTypes, CpuTypes, ListTypes, LocTypes
<1>2. c \in AllCpus /\ curthread[c] \in Threads /\ loc[c] \in Locals
  BY <1>1, CpuFacts DEF CpuTypes, LocTypes
<1>3. Distinct(Lists) /\ Lists \in ListFunctions /\ Lists' \in ListFunctions
  BY <1>1, ListTypesStep, ListsTyped, PlaceParts DEF SchedInv
<1> DEFINE k == child[curthread[c]]
<1>4. loc[c].list = <<>>
  BY <1>2 DEF SchedInv, LocalInv, fork_run, Runs
<1>5. k \in Threads /\ ~Among(Lists, k)
  BY <1>1, <1>2, PlaceParts DEF SchedInv, BirthInv, fork_run, Runs, ThreadTypes
<1>6. /\ loc'[c].list = Append(loc[c].list, k)
      /\ \A d \in AllCpus : d = c \/ loc'[d].list = loc[d].list
      /\ UNCHANGED <<runqueue, zombies, wc_threads>>
  <2> HIDE DEF k
  <2>1. loc' = [loc EXCEPT ![c] = [NoLocals EXCEPT !.list = <<k>>]]
    BY DEF fork_run, Goto, k
  <2>2. loc'[c].list = <<k>> /\ \A d \in AllCpus : d = c \/ loc'[d].list = loc[d].list
    BY <1>1, <1>2, <2>1 DEF NoLocals, LocTypes
  <2>3. Append(<<>>, k) = <<k>>
    OBVIOUS
  <2> QED  BY <1>4, <2>2, <2>3 DEF fork_run, chans
<1> DEFINE a == <<"private", c>>
<1>7. a \in ListNames /\ Lists'[a] = Append(Lists[a], k)
  BY <1>2, <1>6, ListParts
<1>8. /\ \A d \in AllCpus : <<"runqueue", d>> \in {a} \/ runqueue'[d] = runqueue[d]
      /\ \A d \in AllCpus : <<"zombies", d>> \in {a} \/ zombies'[d] = zombies[d]
      /\ \A d \in AllCpus : <<"private", d>> \in {a} \/ loc'[d].list = loc[d].list
      /\ \A w \in Wchans : <<"wchan", w>> \in {a} \/ wc_threads'[w] = wc_threads[w]
  BY <1>6
<1> HIDE DEF a, k
<1>9. \A l \in ListNames \ {a} : Lists'[l] = Lists[l]
  BY <1>8, ListsElse
<1>10. Distinct(Lists') /\ \A u : Among(Lists', u) <=> Among(Lists, u) \/ u = k
  BY <1>3, <1>5, <1>7, <1>9, AddNew
<1> QED  BY <1>5, <1>10, PlaceParts DEF k

-----------------------------------------------------------------------------
(* A thread is on one list only, and only once.                            *)
LEMMA OneList ==
    ASSUME SchedInv
    PROVE  /\ \A l, m \in ListNames : \A t : t \in ToSet(Lists[l]) /\ t \in ToSet(Lists[m]) => l = m
           /\ \A l \in ListNames : Lists[l] # <<>> => Head(Lists[l]) \notin ToSet(Tail(Lists[l]))
           /\ \A l \in ListNames : \A t \in ToSet(Lists[l]) : Listed(t)
<1>1. Distinct(Lists)
  BY PlaceParts DEF SchedInv
<1>2. Lists \in ListFunctions
  BY ListsTyped DEF SchedInv, OnePlace, TypeOK, LocalInv, ListTypes, LocTypes
<1>3. ASSUME NEW l \in ListNames, NEW m \in ListNames, NEW t, t \in ToSet(Lists[l]), t \in ToSet(Lists[m])
      PROVE l = m
  BY <1>1, <1>3 DEF Distinct, ToSet
<1>4. ASSUME NEW l \in ListNames, Lists[l] # <<>> PROVE Head(Lists[l]) \notin ToSet(Tail(Lists[l]))
  <2>1. Lists[l] \in Seq(Threads)
    BY <1>2, <1>4 DEF ListFunctions
  <2> DEFINE s == Lists[l]
  <2>2. /\ Len(s) \in Nat /\ Len(s) >= 1 /\ DOMAIN s = 1 .. Len(s) /\ Head(s) = s[1]
        /\ DOMAIN Tail(s) = 1 .. Len(s) - 1
        /\ \A i \in 1 .. Len(s) - 1 : Tail(s)[i] = s[i + 1]
    BY <1>4, <2>1, TailFacts
  <2>3. \A i, j \in DOMAIN s : s[i] = s[j] => i = j
    BY <1>1, <1>4 DEF Distinct
  <2> HIDE DEF s
  <2>4. ASSUME NEW i \in DOMAIN Tail(s) PROVE Tail(s)[i] # Head(s)
    <3>1. i \in 1 .. Len(s) - 1 /\ i + 1 \in DOMAIN s /\ 1 \in DOMAIN s /\ i + 1 # 1
      BY <2>2, <2>4
    <3> QED  BY <2>2, <2>3, <3>1
  <2>5. Head(s) \notin ToSet(Tail(s))
    BY <2>4 DEF ToSet
  <2> QED  BY <2>5 DEF s
<1>5. ASSUME NEW l \in ListNames, NEW t \in ToSet(Lists[l]) PROVE Listed(t)
  BY <1>5 DEF Listed
<1> QED  BY <1>3, <1>4, <1>5

(* Steps that leave the threads' states, places and children alone.        *)
Frame ==
    /\ UNCHANGED <<t_state, t_cpu, child, curthread, isidle>>
    /\ \A u \in Threads : at'[u] = "forked" <=> at[u] = "forked"
    /\ \A u \in Threads : at[u] = "exit_switch" => at'[u] = "exit_switch"

LEMMA FrameStep ==
    ASSUME SchedInv, NEW c \in Cpus, Branch(c),
           ~PutAway(c), ~switchframe_switch(c), ~fork_run(c), ~thread_make_runnable(c),
           ~(\E d \in Cpus : SendTo(c, d)), ~(\E t \in Threads : thread_fork(c, t))
    PROVE  Frame
<1>1. /\ ThreadTypes /\ CpuTypes /\ ListTypes /\ LocTypes /\ TypeOK
  BY DEF SchedInv, OnePlace, TypeOK, LocalInv, ThreadTypes, CpuTypes, ListTypes, LocTypes
<1>2. /\ c \in AllCpus /\ AllCpus \subseteq Int /\ curthread[c] \in Threads /\ loc[c] \in Locals
      /\ num_cpus \in Nat /\ num_cpus >= 1 /\ Cpus \subseteq AllCpus
  BY <1>1, CpuFacts DEF AllCpus, CpuTypes, LocTypes
<1>10. CASE hardclock(c)
  BY <1>10, <1>1, <1>2
     DEF Frame, ThreadTypes, thread, cpu, chans, Goto, hardclock, AfterHardclock, Yielding,
         TakesInterrupts
<1>11. CASE hardclock_migrate(c)
  BY <1>11, <1>1, <1>2
     DEF Frame, ThreadTypes, thread, cpu, chans, Goto, hardclock_migrate, TakesInterrupts
<1>12. CASE timerclock(c)
  BY <1>12, <1>1, <1>2
     DEF Frame, ThreadTypes, thread, cpu, chans, Goto, timerclock, TakesInterrupts, wchan_wakeall
<1>13. CASE interprocessor_interrupt(c)
  BY <1>13, <1>1, <1>2
     DEF Frame, ThreadTypes, thread, cpu, chans, Goto, interprocessor_interrupt, TakesInterrupts
<1>14. CASE wake_done(c)
  BY <1>14, <1>1, <1>2
     DEF Frame, ThreadTypes, thread, cpu, chans, Goto, wake_done
<1>15. CASE StayRunning(c)
  BY <1>15, <1>1, <1>2
     DEF Frame, ThreadTypes, thread, cpu, chans, Goto, StayRunning
<1>16. CASE idle(c)
  BY <1>16, <1>1, <1>2
     DEF Frame, ThreadTypes, thread, cpu, chans, Goto, idle
<1>17. CASE unidle(c)
  BY <1>17, <1>1, <1>2
     DEF Frame, ThreadTypes, thread, cpu, chans, Goto, unidle
<1>18. CASE lamebus_clear_ipi(c)
  BY <1>18, <1>1, <1>2
     DEF Frame, ThreadTypes, thread, cpu, chans, Goto, lamebus_clear_ipi
<1>19. CASE migrate_count(c)
  BY <1>19, <1>1, <1>2
     DEF Frame, ThreadTypes, thread, cpu, chans, Goto, migrate_count
<1>20. CASE TakeNone(c)
  BY <1>20, <1>1, <1>2
     DEF Frame, ThreadTypes, thread, cpu, chans, Goto, TakeNone, AfterHardclock, Yielding
<1>21. CASE TakeVictims(c)
  BY <1>21, <1>1, <1>2
     DEF Frame, ThreadTypes, thread, cpu, chans, Goto, TakeVictims
<1>22. CASE NextCpu(c)
  BY <1>22, <1>1, <1>2
     DEF Frame, ThreadTypes, thread, cpu, chans, Goto, NextCpu
<1>23. CASE SkipCurrent(c)
  BY <1>23, <1>1, <1>2
     DEF Frame, ThreadTypes, thread, cpu, chans, Goto, SkipCurrent
<1>24. CASE migrate_sent(c)
  BY <1>24, <1>1, <1>2
     DEF Frame, ThreadTypes, thread, cpu, chans, Goto, migrate_sent, Unlocked
<1>25. CASE migrate_leftovers(c)
  BY <1>25, <1>1, <1>2
     DEF Frame, ThreadTypes, thread, cpu, chans, Goto, migrate_leftovers, AfterHardclock, Yielding
<1>26. ASSUME NEW w \in Wchans, FallAsleep(c, w) PROVE Frame
  BY <1>26, <1>1, <1>2
     DEF Frame, ThreadTypes, thread, cpu, chans, Goto, FallAsleep
<1>27. CASE TakeUnit(c)
  BY <1>27, <1>1, <1>2
     DEF Frame, ThreadTypes, thread, cpu, chans, Goto, TakeUnit, Runs
<1>28. CASE cpus_online(c)
  BY <1>28, <1>1, <1>2
     DEF Frame, ThreadTypes, thread, cpu, chans, Goto, cpus_online, Runs, Move
<1>29. CASE cpu_hatch(c)
  BY <1>29, <1>1, <1>2
     DEF Frame, ThreadTypes, thread, cpu, chans, Goto, cpu_hatch, Runs, Move, wchan_wakeone
<1>30. CASE CountReached(c)
  BY <1>30, <1>1, <1>2
     DEF Frame, ThreadTypes, thread, cpu, chans, Goto, CountReached, Runs, Move
<1>31. CASE clocksleep_return(c)
  BY <1>31, <1>1, <1>2
     DEF Frame, ThreadTypes, thread, cpu, chans, Goto, clocksleep_return, Runs, Move
<1>32. CASE exit_count(c)
  BY <1>32, <1>1, <1>2
     DEF Frame, ThreadTypes, thread, cpu, chans, Goto, exit_count, Runs, Move, wchan_wakeall
<1>33. CASE exit_switch(c)
  BY <1>33, <1>1, <1>2
     DEF Frame, ThreadTypes, thread, cpu, chans, Goto, exit_switch, Runs
<1>34. CASE clocksleep(c)
  BY <1>34, <1>1, <1>2
     DEF Frame, ThreadTypes, thread, cpu, chans, Goto, clocksleep, Runs, Move, Sleep
<1>35. CASE thread_exit(c)
  BY <1>35, <1>1, <1>2
     DEF Frame, ThreadTypes, thread, cpu, chans, Goto, thread_exit, Runs, Move
<1> QED
  BY <1>10, <1>11, <1>12, <1>13, <1>14, <1>15, <1>16, <1>17, <1>18, <1>19, <1>20, <1>21, <1>22,
     <1>23, <1>24, <1>25, <1>26, <1>27, <1>28, <1>29, <1>30, <1>31, <1>32, <1>33, <1>34, <1>35
     DEF Branch

-----------------------------------------------------------------------------
(* Where the threads are: on a list, or running.                           *)
PlaceInv == \A t \in Threads : t_state[t] # "none" /\ t \notin Forking =>
              (Listed(t) <=> \A c \in Cpus : ~isidle[c] => curthread[c] # t)
ThreadsInv == CurInv /\ BirthInv /\ PlaceInv

LEMMA ForkingParts ==
    /\ \A x : x \in Forking <=> \E u \in Threads : child[u] # NoThread /\ x = child[u]
    /\ \A x : x \in Forking' <=> \E u \in Threads : child'[u] # NoThread /\ x = child'[u]
  BY DEF Forking

LEMMA FrameThreads ==
    ASSUME SchedInv, Next, NEW c \in Cpus, Branch(c), 
           ~PutAway(c), ~switchframe_switch(c), ~fork_run(c), ~thread_make_runnable(c),
           ~(\E d \in Cpus : SendTo(c, d)), ~(\E t \in Threads : thread_fork(c, t))
    PROVE  ThreadsInv'
<1>1. /\ ThreadTypes /\ CpuTypes /\ ListTypes /\ LocTypes /\ TypeOK
  BY DEF SchedInv, OnePlace, TypeOK, LocalInv, ThreadTypes, CpuTypes, ListTypes, LocTypes
<1>2. /\ c \in AllCpus /\ Cpus \subseteq AllCpus /\ curthread[c] \in Threads /\ loc[c] \in Locals
      /\ \A e \in Cpus : curthread[e] \in Threads
      /\ NoThread \notin Threads /\ NoCpu \notin AllCpus
  BY <1>1, CpuFacts DEF CpuTypes, LocTypes
<1>3. Cpus' = Cpus
  BY OtherCpus DEF OtherCpusSame, Cpus
<1>4. CurInv /\ BirthInv /\ PlaceInv
  BY PlaceParts DEF SchedInv, PlaceInv
<1>5. /\ Frame /\ Forking' = Forking
      /\ \A t : Listed(t)' <=> Listed(t)
  BY FrameStep, SameThreadsStep DEF Frame, Forking, SameThreads
<1>6. \A t \in Threads : t_state[t] = "none" \/ t \in Forking => at'[t] = at[t] \/ at'[t] = "user"
  <2>1. \A t \in Forking : t_state[t] = "READY"
    BY <1>4, ForkingParts DEF BirthInv
  <2>2. \A t \in ToSet(zombies[c]) : t_state[t] = "ZOMBIE"
    BY <1>2 DEF SchedInv, StateInv
  <2>3. t_state[curthread[c]] # "none" /\ curthread[c] \notin Forking
    BY <1>4 DEF CurInv
  <2> QED  BY <2>1, <2>2, <2>3, AtEdges DEF AtEdge
<1>20. CurInv'
  BY <1>3, <1>4, <1>5 DEF CurInv, Frame
<1>21. BirthInv'
  <2>1. ASSUME NEW t \in Threads, t_state'[t] = "none"
        PROVE  ~Listed(t)' /\ t \notin Forking' /\ at'[t] = "user"
    BY <1>4, <1>5, <1>6, <2>1 DEF BirthInv, Frame
  <2>2. ASSUME NEW u \in Threads
        PROVE  /\ child'[u] # NoThread <=> at'[u] = "forked"
               /\ child'[u] # NoThread =>
                    /\ t_state'[child'[u]] = "READY" /\ ~Among(Lists', child[u]) /\ at'[child'[u]] = "user"
                    /\ \A v \in Threads : child'[v] = child'[u] => v = u
    <3>1. child[u] # NoThread => child[u] \in Forking /\ child[u] \in Threads
      BY <1>1, ForkingParts DEF ThreadTypes
    <3> QED  BY <1>4, <1>5, <1>6, <3>1, PlaceParts DEF BirthInv, Frame
  <2> QED  BY <2>1, <2>2, <1>5 DEF BirthInv, Frame, Listed, Among
<1>22. PlaceInv'
  BY <1>3, <1>4, <1>5 DEF PlaceInv, Frame
<1> QED  BY <1>20, <1>21, <1>22 DEF ThreadsInv

LEMMA RunnableThreads ==
    ASSUME SchedInv, Next, NEW c \in Cpus, Branch(c), thread_make_runnable(c)
    PROVE  ThreadsInv'
<1>1. /\ ThreadTypes /\ CpuTypes /\ ListTypes /\ LocTypes /\ TypeOK
  BY DEF SchedInv, OnePlace, TypeOK, LocalInv, ThreadTypes, CpuTypes, ListTypes, LocTypes
<1>2. /\ c \in AllCpus /\ Cpus \subseteq AllCpus /\ curthread[c] \in Threads /\ loc[c] \in Locals
      /\ \A e \in Cpus : curthread[e] \in Threads
      /\ NoThread \notin Threads /\ NoCpu \notin AllCpus
  BY <1>1, CpuFacts DEF CpuTypes, LocTypes
<1>3. Cpus' = Cpus
  BY OtherCpus DEF OtherCpusSame, Cpus
<1>4. CurInv /\ BirthInv /\ PlaceInv
  BY PlaceParts DEF SchedInv, PlaceInv
<1> DEFINE h == Head(loc[c].list)
<1>5. h \in Threads /\ h \in ToSet(loc[c].list) /\ Listed(h) /\ t_state[h] \in {"READY", "SLEEP"}
  <2>1. h \in Threads /\ h \in ToSet(loc[c].list)
    BY <1>2, TailFacts DEF Locals, thread_make_runnable
  <2>2. Listed(h)
    BY <1>2, <2>1, OneList, ListParts
  <2> QED  BY <1>2, <2>1, <2>2 DEF SchedInv, StateInv, thread_make_runnable
<1>6. /\ t_state' = [t_state EXCEPT ![h] = "READY"]
      /\ UNCHANGED <<t_cpu, at, child, curthread, isidle>>
  BY DEF thread_make_runnable
<1>7. Forking' = Forking /\ \A t : Listed(t)' <=> Listed(t)
  <2>1. Forking' = Forking
    BY <1>6 DEF Forking
  <2>2. ~PutAway(c) /\ ~switchframe_switch(c) /\ ~fork_run(c)
    BY DEF thread_make_runnable, PutAway, switchframe_switch, fork_run, Runs
  <2>3. SameThreads
    BY <2>2, SameThreadsStep
  <2> QED  BY <2>1, <2>3 DEF SameThreads
<1> HIDE DEF h
<1>8. \A t \in Threads : /\ t # h => t_state'[t] = t_state[t]
                         /\ t_state'[h] = "READY"
  BY <1>1, <1>5, <1>6 DEF ThreadTypes
<1>20. CurInv'
  BY <1>2, <1>3, <1>4, <1>5, <1>6, <1>7, <1>8 DEF CurInv
<1>21. BirthInv'
  BY <1>1, <1>2, <1>4, <1>5, <1>6, <1>7, <1>8 DEF BirthInv, ThreadTypes
<1>22. PlaceInv'
  BY <1>3, <1>4, <1>5, <1>6, <1>7, <1>8 DEF PlaceInv
<1> QED  BY <1>20, <1>21, <1>22 DEF ThreadsInv

LEMMA SendThreads ==
    ASSUME SchedInv, Next, NEW c \in Cpus, Branch(c), NEW d \in Cpus, SendTo(c, d)
    PROVE  ThreadsInv'
<1>1. /\ ThreadTypes /\ CpuTypes /\ ListTypes /\ LocTypes /\ TypeOK
  BY DEF SchedInv, OnePlace, TypeOK, LocalInv, ThreadTypes, CpuTypes, ListTypes, LocTypes
<1>2. /\ c \in AllCpus /\ Cpus \subseteq AllCpus /\ curthread[c] \in Threads /\ loc[c] \in Locals
      /\ \A e \in Cpus : curthread[e] \in Threads
      /\ NoThread \notin Threads /\ NoCpu \notin AllCpus
  BY <1>1, CpuFacts DEF CpuTypes, LocTypes
<1>3. Cpus' = Cpus
  BY OtherCpus DEF OtherCpusSame, Cpus
<1>4. CurInv /\ BirthInv /\ PlaceInv
  BY PlaceParts DEF SchedInv, PlaceInv
<1> DEFINE h == Head(loc[c].list)
<1>5. h \in Threads /\ h \in ToSet(loc[c].list) /\ t_cpu[h] = c /\ h # curthread[c]
  <2>1. h \in Threads /\ h \in ToSet(loc[c].list)
    BY <1>2, TailFacts DEF Locals, SendTo
  <2> QED  BY <1>2, <2>1 DEF SchedInv, StateInv, SendTo
<1>6. /\ t_cpu' = [t_cpu EXCEPT ![h] = d]
      /\ UNCHANGED <<t_state, at, child, curthread, isidle>>
  BY DEF SendTo
<1>7. Forking' = Forking /\ \A t : Listed(t)' <=> Listed(t)
  <2>1. Forking' = Forking
    BY <1>6 DEF Forking
  <2>2. ~PutAway(c) /\ ~switchframe_switch(c) /\ ~fork_run(c)
    BY DEF SendTo, PutAway, switchframe_switch, fork_run, Runs
  <2>3. SameThreads
    BY <2>2, SameThreadsStep
  <2> QED  BY <2>1, <2>3 DEF SameThreads
<1> HIDE DEF h
<1>8. \A t \in Threads : t # h => t_cpu'[t] = t_cpu[t]
  BY <1>1, <1>5, <1>6 DEF ThreadTypes
<1>20. CurInv'
  <2>1. \A e \in Cpus : curthread[e] # h
    BY <1>4, <1>5 DEF CurInv
  <2> QED  BY <1>2, <1>3, <1>4, <1>6, <1>7, <1>8, <2>1 DEF CurInv
<1>21. BirthInv'
  BY <1>1, <1>4, <1>6, <1>7 DEF BirthInv
<1>22. PlaceInv'
  BY <1>3, <1>4, <1>6, <1>7 DEF PlaceInv
<1> QED  BY <1>20, <1>21, <1>22 DEF ThreadsInv

LEMMA AwayThreads ==
    ASSUME SchedInv, Next, NEW c \in Cpus, Branch(c), PutAway(c)
    PROVE  ThreadsInv'
<1>1. /\ ThreadTypes /\ CpuTypes /\ ListTypes /\ LocTypes /\ TypeOK
  BY DEF SchedInv, OnePlace, TypeOK, LocalInv, ThreadTypes, CpuTypes, ListTypes, LocTypes
<1>2. /\ c \in AllCpus /\ Cpus \subseteq AllCpus /\ curthread[c] \in Threads /\ loc[c] \in Locals
      /\ \A e \in Cpus : curthread[e] \in Threads
      /\ NoThread \notin Threads /\ NoCpu \notin AllCpus
  BY <1>1, CpuFacts DEF CpuTypes, LocTypes
<1>3. Cpus' = Cpus
  BY OtherCpus DEF OtherCpusSame, Cpus
<1>4. CurInv /\ BirthInv /\ PlaceInv
  BY PlaceParts DEF SchedInv, PlaceInv
<1> DEFINE cur == curthread[c]
<1>5. /\ t_state' = [t_state EXCEPT ![cur] = loc[c].new] /\ loc[c].new \in {"READY", "SLEEP", "ZOMBIE"}
      /\ isidle' = [isidle EXCEPT ![c] = TRUE]
      /\ UNCHANGED <<t_cpu, at, child, curthread>>
  BY <1>2 DEF PutAway, SchedInv, LocalInv, Locals, NewStates
<1>6. Forking' = Forking /\ \A t : Listed(t)' <=> Listed(t) \/ t = cur
  BY <1>5, PutAwayLists DEF Forking
<1>7. /\ cur \in Threads /\ cur \notin Forking /\ t_state[cur] # "none"
      /\ \A e \in Cpus : curthread[e] = cur => e = c
  BY <1>2, <1>4, CurrentFacts DEF CurInv
<1> HIDE DEF cur
<1>8. /\ \A t \in Threads : t # cur => t_state'[t] = t_state[t]
      /\ t_state'[cur] \in {"READY", "SLEEP", "ZOMBIE"}
      /\ isidle'[c] /\ \A e \in Cpus : e # c => isidle'[e] = isidle[e]
  BY <1>1, <1>2, <1>5, <1>7 DEF ThreadTypes, CpuTypes
<1>20. CurInv'
  BY <1>2, <1>3, <1>4, <1>5, <1>6, <1>7, <1>8 DEF CurInv
<1>21. BirthInv'
  <2>1. \A u \in Threads : child[u] # NoThread => child[u] # cur /\ child[u] \in Threads
    BY <1>1, <1>7, ForkingParts DEF ThreadTypes
  <2> QED  BY <1>4, <1>5, <1>6, <1>7, <1>8, <2>1 DEF BirthInv
<1>22. PlaceInv'
  BY <1>3, <1>4, <1>5, <1>6, <1>7, <1>8 DEF PlaceInv, cur
<1> QED  BY <1>20, <1>21, <1>22 DEF ThreadsInv

LEMMA SwitchThreads ==
    ASSUME SchedInv, Next, NEW c \in Cpus, Branch(c), switchframe_switch(c)
    PROVE  ThreadsInv'
<1>1. /\ ThreadTypes /\ CpuTypes /\ ListTypes /\ LocTypes /\ TypeOK
  BY DEF SchedInv, OnePlace, TypeOK, LocalInv, ThreadTypes, CpuTypes, ListTypes, LocTypes
<1>2. /\ c \in AllCpus /\ Cpus \subseteq AllCpus /\ curthread[c] \in Threads /\ loc[c] \in Locals
      /\ \A e \in Cpus : curthread[e] \in Threads
      /\ NoThread \notin Threads /\ NoCpu \notin AllCpus
  BY <1>1, CpuFacts DEF CpuTypes, LocTypes
<1>3. Cpus' = Cpus
  BY OtherCpus DEF OtherCpusSame, Cpus
<1>4. CurInv /\ BirthInv /\ PlaceInv
  BY PlaceParts DEF SchedInv, PlaceInv
<1> DEFINE h == Head(runqueue[c])
           Z == ToSet(zombies[c])
<1>5. h \in Threads /\ h \in ToSet(runqueue[c])
  BY <1>1, <1>2, TailFacts DEF ListTypes, switchframe_switch
<1>6. /\ t_state[h] = "READY" /\ t_cpu[h] = c /\ Listed(h)
      /\ \A t \in Z : t_state[t] = "ZOMBIE" /\ at[t] = "exit_switch"
  <2>1. Listed(h)
    BY <1>2, <1>5, OneList, ListParts
  <2> QED  BY <1>2, <1>5, <2>1 DEF SchedInv, StateInv
<1>7. /\ \A t : Listed(t)' <=> Listed(t) /\ t # h /\ t \notin Z
      /\ isidle[c]
  BY SwitchLists DEF SchedInv, IdleInv, switchframe_switch
<1>8. /\ curthread' = [curthread EXCEPT ![c] = h]
      /\ isidle' = [isidle EXCEPT ![c] = FALSE]
      /\ t_state' = [t \in Threads |-> IF t = h THEN "RUN" ELSE IF t \in Z THEN "none" ELSE t_state[t]]
      /\ at' = [t \in Threads |-> IF t \in Z THEN "user" ELSE at[t]]
      /\ t_cpu' = [t \in Threads |-> IF t \in Z THEN NoCpu ELSE t_cpu[t]]
      /\ child' = child
  BY DEF switchframe_switch
<1>9. Forking' = Forking
  BY <1>8 DEF Forking
<1>10. \A e \in Cpus : curthread[e] \in Z => e = c
  BY CurrentFacts
<1> HIDE DEF h, Z
<1>11. /\ h \notin Z
       /\ \A t \in Threads : t # h /\ t \notin Z =>
            t_state'[t] = t_state[t] /\ at'[t] = at[t] /\ t_cpu'[t] = t_cpu[t]
       /\ \A t \in Threads : t \in Z => t_state'[t] = "none" /\ at'[t] = "user"
       /\ t_state'[h] = "RUN" /\ at'[h] = at[h] /\ t_cpu'[h] = t_cpu[h]
       /\ curthread'[c] = h /\ ~isidle'[c]
       /\ \A e \in Cpus : e # c => isidle'[e] = isidle[e] /\ curthread'[e] = curthread[e]
  BY <1>1, <1>2, <1>5, <1>6, <1>8 DEF CpuTypes
<1>12. h \notin Forking /\ \A t \in Forking : t \notin Z
  BY <1>4, <1>6, ForkingParts DEF BirthInv
<1>13. \A e \in Cpus : e # c => curthread[e] # h /\ curthread[e] \notin Z
  BY <1>4, <1>6, <1>10 DEF CurInv
<1>20. CurInv'
  <2>1. ASSUME NEW e \in Cpus
        PROVE  /\ t_cpu'[curthread'[e]] = e /\ t_state'[curthread'[e]] # "none"
               /\ curthread'[e] \notin Forking
               /\ ~isidle'[e] => /\ t_state'[curthread'[e]] \in {"READY", "RUN"}
                                 /\ ~Among(Lists', curthread'[e])
    <3>1. CASE e = c
      <4>1. ~Among(Lists', h)
        BY <1>7, PlaceParts
      <4>2. curthread'[e] = h
        BY <3>1, <1>11
      <4> QED  BY <3>1, <4>1, <4>2, <1>6, <1>11, <1>12
    <3>2. CASE e # c
      <4>1. ~isidle[e] => ~Among(Lists', curthread[e])
        BY <1>4, <1>7, PlaceParts DEF CurInv
      <4>2. curthread'[e] = curthread[e]
        BY <3>2, <1>11
      <4> QED  BY <3>2, <4>1, <4>2, <1>2, <1>4, <1>11, <1>13 DEF CurInv
    <3> QED  BY <3>1, <3>2
  <2> QED  BY <1>3, <1>9, <2>1 DEF CurInv, Listed, Among
<1>21. BirthInv'
  <2>1. ASSUME NEW t \in Threads, t_state'[t] = "none"
        PROVE  ~Listed(t)' /\ t \notin Forking' /\ at'[t] = "user"
    BY <1>4, <1>7, <1>9, <1>11, <1>12, <2>1 DEF BirthInv
  <2>2. ASSUME NEW u \in Threads
        PROVE  /\ child[u] # NoThread <=> at'[u] = "forked"
               /\ child[u] # NoThread =>
                    /\ t_state'[child[u]] = "READY" /\ ~Among(Lists', child[u]) /\ at'[child[u]] = "user"
                    /\ \A v \in Threads : child[v] = child[u] => v = u
    <3>1. child[u] # NoThread => child[u] \in Threads /\ child[u] \in Forking
      BY <1>1, ForkingParts DEF ThreadTypes
    <3>2. u \in Z => child[u] = NoThread
      BY <1>4, <1>6 DEF BirthInv
    <3>3. child[u] # NoThread <=> at'[u] = "forked"
      BY <1>4, <1>11, <3>2 DEF BirthInv
    <3>4. ASSUME child[u] # NoThread
          PROVE  /\ t_state[child[u]] = "READY" /\ ~Listed(child[u]) /\ at[child[u]] = "user"
                 /\ \A v \in Threads : child[v] = child[u] => v = u
      BY <1>4, <3>4 DEF BirthInv
    <3>5. ASSUME child[u] # NoThread
          PROVE  child[u] \in Threads /\ child[u] # h /\ child[u] \notin Z
      BY <1>12, <3>1, <3>5
    <3>6. ASSUME child[u] # NoThread
          PROVE  t_state'[child[u]] = "READY" /\ at'[child[u]] = "user"
      BY <1>11, <3>4, <3>5, <3>6
    <3>7. ASSUME child[u] # NoThread PROVE ~Among(Lists', child[u])
      <4>1. \A t : Listed(t) <=> Among(Lists, t)
        BY PlaceParts
      <4>2. \A t : Listed(t)' <=> Among(Lists', t)
        BY PlaceParts
      <4>3. \A t : Among(Lists', t) => Among(Lists, t)
        BY <1>7, <4>1, <4>2
      <4> QED  BY <3>4, <3>7, <4>1, <4>3
    <3> QED  BY <3>3, <3>4, <3>6, <3>7
  <2> QED  BY <2>1, <2>2, <1>8 DEF BirthInv, Listed, Among
<1>22. PlaceInv'
  <2>1. ASSUME NEW t \in Threads, t_state'[t] # "none", t \notin Forking
        PROVE  Listed(t)' <=> \A e \in Cpus : ~isidle'[e] => curthread'[e] # t
    <3>1. CASE t = h  BY <3>1, <1>7, <1>11
    <3>2. CASE t # h
      <4>1. t \notin Z /\ t_state[t] # "none"
        BY <2>1, <3>2, <1>11
      <4>2. (\A e \in Cpus : ~isidle'[e] => curthread'[e] # t)
             <=> \A e \in Cpus : ~isidle[e] => curthread[e] # t
        BY <3>2, <1>7, <1>11
      <4> QED  BY <2>1, <3>2, <4>1, <4>2, <1>4, <1>7 DEF PlaceInv
    <3> QED  BY <3>1, <3>2
  <2> QED  BY <1>3, <1>9, <2>1 DEF PlaceInv
<1> QED  BY <1>20, <1>21, <1>22 DEF ThreadsInv

LEMMA ForkRunThreads ==
    ASSUME SchedInv, Next, NEW c \in Cpus, Branch(c), fork_run(c)
    PROVE  ThreadsInv'
<1>1. /\ ThreadTypes /\ CpuTypes /\ ListTypes /\ LocTypes /\ TypeOK
  BY DEF SchedInv, OnePlace, TypeOK, LocalInv, ThreadTypes, CpuTypes, ListTypes, LocTypes
<1>2. /\ c \in AllCpus /\ Cpus \subseteq AllCpus /\ curthread[c] \in Threads /\ loc[c] \in Locals
      /\ \A e \in Cpus : curthread[e] \in Threads
      /\ NoThread \notin Threads /\ NoCpu \notin AllCpus
  BY <1>1, CpuFacts DEF CpuTypes, LocTypes
<1>3. Cpus' = Cpus
  BY OtherCpus DEF OtherCpusSame, Cpus
<1>4. CurInv /\ BirthInv /\ PlaceInv
  BY PlaceParts DEF SchedInv, PlaceInv
<1> DEFINE k == child[curthread[c]]
           cur == curthread[c]
<1>5. k \in Threads /\ k # NoThread /\ k \in Forking /\ \A t : Listed(t)' <=> Listed(t) \/ t = k
  BY <1>2, ForkRunLists, ForkingParts
<1>6. /\ child' = [child EXCEPT ![cur] = NoThread]
      /\ at' = [at EXCEPT ![cur] = IF cur = 0 THEN "count" ELSE "user"]
      /\ UNCHANGED <<t_state, t_cpu, curthread, isidle>>
  BY DEF fork_run, Move
<1>7. cur \in Threads /\ cur \notin Forking /\ t_state[cur] # "none"
  BY <1>2, <1>4 DEF CurInv
<1>8. k = child[cur]
  OBVIOUS
<1> HIDE DEF k, cur
<1>9. /\ child'[cur] = NoThread /\ at'[cur] # "forked"
      /\ \A u \in Threads : u # cur => child'[u] = child[u] /\ at'[u] = at[u]
  BY <1>1, <1>6, <1>7 DEF ThreadTypes
<1>10. /\ \A x : x \in Forking' => x \in Forking
       /\ \A x : x \in Forking => x \in Forking' \/ x = k
  BY <1>7, <1>8, <1>9, ForkingParts
<1>20. CurInv'
  <2>1. \A e \in Cpus : curthread[e] # k
    BY <1>4, <1>5 DEF CurInv
  <2> QED  BY <1>3, <1>4, <1>5, <1>6, <1>10, <2>1 DEF CurInv
<1>21. BirthInv'
  <2>0. t_state[k] = "READY"
    BY <1>2, <1>4, <1>5, <1>7, <1>8 DEF BirthInv
  <2>1. ASSUME NEW t \in Threads, t_state'[t] = "none"
        PROVE  ~Listed(t)' /\ t \notin Forking' /\ at'[t] = "user"
    <3>1. t_state[t] = "none" /\ t # k /\ t # cur
      BY <2>0, <2>1, <1>6, <1>7
    <3> QED  BY <3>1, <1>4, <1>5, <1>9, <1>10 DEF BirthInv
  <2>2. ASSUME NEW u \in Threads, child'[u] # NoThread
        PROVE  /\ t_state'[child'[u]] = "READY" /\ ~Among(Lists', child[u]) /\ at'[child'[u]] = "user"
               /\ \A v \in Threads : child'[v] = child'[u] => v = u
    <3>1. u # cur /\ child'[u] = child[u] /\ child[u] # k /\ child[u] \in Threads /\ child[u] # cur
      BY <1>1, <1>2, <1>4, <1>7, <1>8, <1>9, <2>2, ForkingParts DEF BirthInv, ThreadTypes
    <3> QED  BY <3>1, <2>2, <1>4, <1>5, <1>6, <1>9, PlaceParts DEF BirthInv
  <2>3. \A u \in Threads : child'[u] # NoThread <=> at'[u] = "forked"
    BY <1>4, <1>9 DEF BirthInv
  <2>4. \A u \in Threads : child'[u] # NoThread => ~Among(Lists', child'[u])
    <3> SUFFICES ASSUME NEW u \in Threads, child'[u] # NoThread PROVE ~Among(Lists', child'[u])
      OBVIOUS
    <3>1. u # cur /\ child'[u] = child[u]
      BY <1>9
    <3> QED  BY <2>2, <3>1
  <2> QED  BY <2>1, <2>2, <2>3, <2>4 DEF BirthInv, Listed, Among
<1>22. PlaceInv'
  <2>1. \A e \in Cpus : curthread[e] # k
    BY <1>4, <1>5 DEF CurInv
  <2> QED  BY <1>3, <1>4, <1>5, <1>6, <1>10, <2>1 DEF PlaceInv
<1> QED  BY <1>20, <1>21, <1>22 DEF ThreadsInv

LEMMA ForkThreads ==
    ASSUME SchedInv, Next, NEW c \in Cpus, Branch(c), NEW t \in Threads, thread_fork(c, t)
    PROVE  ThreadsInv'
<1>1. /\ ThreadTypes /\ CpuTypes /\ ListTypes /\ LocTypes /\ TypeOK
  BY DEF SchedInv, OnePlace, TypeOK, LocalInv, ThreadTypes, CpuTypes, ListTypes, LocTypes
<1>2. /\ c \in AllCpus /\ Cpus \subseteq AllCpus /\ curthread[c] \in Threads /\ loc[c] \in Locals
      /\ \A e \in Cpus : curthread[e] \in Threads
      /\ NoThread \notin Threads /\ NoCpu \notin AllCpus
  BY <1>1, CpuFacts DEF CpuTypes, LocTypes
<1>3. Cpus' = Cpus
  BY OtherCpus DEF OtherCpusSame, Cpus
<1>4. CurInv /\ BirthInv /\ PlaceInv
  BY PlaceParts DEF SchedInv, PlaceInv
<1> DEFINE cur == curthread[c]
<1>5. /\ cur \in Threads /\ cur \notin Forking /\ t_state[cur] # "none" /\ child[cur] = NoThread
      /\ t_state[t] = "none" /\ t # cur /\ t # NoThread
  BY <1>2, <1>4 DEF CurInv, BirthInv, thread_fork, Runs
<1>6. /\ child' = [child EXCEPT ![cur] = t]
      /\ at' = [at EXCEPT ![cur] = "forked"]
      /\ t_state' = [t_state EXCEPT ![t] = "READY"]
      /\ t_cpu' = [t_cpu EXCEPT ![t] = t_cpu[cur]]
      /\ UNCHANGED <<curthread, isidle>>
  BY DEF thread_fork, Move
<1>7. \A u : Listed(u)' <=> Listed(u)
  BY SameThreadsStep DEF SameThreads, thread_fork, PutAway, switchframe_switch, fork_run, Runs
<1>8. \A e \in Cpus : curthread[e] # t
  BY <1>4, <1>5 DEF CurInv
<1> HIDE DEF cur
<1>9. /\ child'[cur] = t /\ at'[cur] = "forked" /\ t_state'[t] = "READY"
      /\ \A u \in Threads : /\ u # cur => child'[u] = child[u] /\ at'[u] = at[u]
                            /\ u # t => t_state'[u] = t_state[u] /\ t_cpu'[u] = t_cpu[u]
  BY <1>1, <1>5, <1>6 DEF ThreadTypes
<1>10. \A x : x \in Forking' <=> x \in Forking \/ x = t
  BY <1>5, <1>9, ForkingParts
<1>20. CurInv'
  BY <1>2, <1>3, <1>4, <1>6, <1>7, <1>8, <1>9, <1>10 DEF CurInv
<1>21. BirthInv'
  <2>1. ~Listed(t) /\ t \notin Forking /\ at[t] = "user"
    BY <1>4, <1>5 DEF BirthInv
  <2>2. \A u \in Threads : child[u] # t
    BY <1>5, <2>1, ForkingParts
  <2>3. ASSUME NEW u \in Threads, t_state'[u] = "none"
        PROVE  ~Listed(u)' /\ u \notin Forking' /\ at'[u] = "user"
    BY <1>4, <1>5, <1>7, <1>9, <1>10, <2>3 DEF BirthInv
  <2>4. \A u \in Threads : child'[u] # NoThread <=> at'[u] = "forked"
    BY <1>4, <1>5, <1>9 DEF BirthInv
  <2>5. ASSUME NEW u \in Threads, child'[u] # NoThread
        PROVE  /\ t_state'[child'[u]] = "READY" /\ at'[child'[u]] = "user" /\ ~Listed(child'[u])
               /\ \A v \in Threads : child'[v] = child'[u] => v = u
    <3>1. CASE u = cur
      BY <3>1, <1>5, <1>9, <2>1, <2>2
    <3>2. CASE u # cur
      <4>1. child'[u] = child[u] /\ child[u] \in Threads /\ child[u] # t /\ child[u] # cur
        BY <3>2, <1>1, <1>5, <1>9, <2>2, <2>5, ForkingParts DEF ThreadTypes
      <4> QED  BY <4>1, <3>2, <2>5, <1>4, <1>9 DEF BirthInv
    <3> QED  BY <3>1, <3>2
  <2> QED  BY <1>7, <2>3, <2>4, <2>5 DEF BirthInv
<1>22. PlaceInv'
  BY <1>3, <1>4, <1>6, <1>7, <1>9, <1>10 DEF PlaceInv
<1> QED  BY <1>20, <1>21, <1>22 DEF ThreadsInv

LEMMA ThreadsStep ==
    ASSUME SchedInv, Next, NEW c \in Cpus, Branch(c)
    PROVE  ThreadsInv'
<1>1. CASE \E d \in Cpus : SendTo(c, d)  BY <1>1, SendThreads
<1>2. CASE \E t \in Threads : thread_fork(c, t)  BY <1>2, ForkThreads
<1> QED  BY <1>1, <1>2, FrameThreads, RunnableThreads, AwayThreads, SwitchThreads, ForkRunThreads

-----------------------------------------------------------------------------
(* What the lists say of their threads, when states and places are kept:   *)
(* the list a cpu c holds and its run queue get threads that fit.          *)
LEMMA StateFrame ==
    ASSUME SchedInv, NEW c \in Cpus, OtherCpusSame(c), Frame, zombies' = zombies,
           ListTypes', LocTypes',
           \A d \in AllCpus : d = c \/ runqueue'[d] = runqueue[d],
           \A t \in ToSet(runqueue'[c]) : t_state[t] = "READY" /\ t_cpu[t] = c,
           \A t \in ToSet(loc'[c].list) :
              IF pc'[c] = "wake" THEN t_state[t] \in {"READY", "SLEEP"}
              ELSE t_state[t] = "READY" /\ t_cpu[t] = c,
           \A w \in Wchans : \A t \in ToSet(wc_threads'[w]) : t_state[t] = "SLEEP"
    PROVE  StateInv'
<1>1. StateInv /\ ListTypes
  BY DEF SchedInv, OnePlace, TypeOK, ListTypes
<1>2. Cpus' = Cpus /\ UNCHANGED <<t_state, t_cpu>>
  BY DEF OtherCpusSame, Cpus, Frame
<1>3. ASSUME NEW d \in AllCpus
      PROVE  /\ \A t \in ToSet(runqueue'[d]) : t_state[t] = "READY" /\ t_cpu[t] = d
             /\ \A t \in ToSet(loc'[d].list) :
                  IF pc'[d] = "wake" THEN t_state[t] \in {"READY", "SLEEP"}
                  ELSE t_state[t] = "READY" /\ t_cpu[t] = d
  <2>1. CASE d = c  BY <2>1
  <2>2. CASE d # c
    <3>1. runqueue'[d] = runqueue[d] /\ loc'[d] = loc[d] /\ pc'[d] = pc[d]
      BY <2>2 DEF OtherCpusSame
    <3> QED  BY <1>1, <3>1 DEF StateInv
  <2> QED  BY <2>1, <2>2
<1>4. ASSUME NEW d \in AllCpus, NEW t \in ToSet(zombies[d])
      PROVE  t_state[t] = "ZOMBIE" /\ t_cpu[t] = d /\ at'[t] = "exit_switch"
  <2>1. t \in Threads
    BY <1>1, <1>4 DEF ListTypes, ToSet
  <2> QED  BY <1>1, <1>4, <2>1 DEF StateInv, Frame
<1> QED  BY <1>1, <1>2, <1>3, <1>4 DEF StateInv

(* The head of a sequence leads the others.                                *)
LEMMA RotateFacts ==
    ASSUME NEW S, NEW s \in Seq(S), s # <<>>
    PROVE  ToSet(Append(Tail(s), Head(s))) = ToSet(s)
<1>1. Tail(s) \in Seq(S) /\ Head(s) \in S /\ ToSet(s) = {Head(s)} \cup ToSet(Tail(s))
  BY TailFacts
<1>2. ASSUME NEW r \in Seq(S), NEW e \in S PROVE ToSet(Append(r, e)) = ToSet(r) \cup {e}
  BY AppendFacts
<1>3. ToSet(Append(Tail(s), Head(s))) = ToSet(Tail(s)) \cup {Head(s)}
  BY <1>1, <1>2
<1> QED  BY <1>1, <1>3

(* Parts of a sequence.                                                    *)
LEMMA PartFacts ==
    ASSUME NEW S, NEW s \in Seq(S), NEW r \in Seq(S), NEW k \in 0 .. Len(s)
    PROVE  /\ \A t \in ToSet(SubSeq(s, 1, k)) : t \in ToSet(s)
           /\ \A t \in ToSet(SubSeq(s, k + 1, Len(s))) : t \in ToSet(s)
           /\ \A t \in ToSet(s \o r) : t \in ToSet(s) \/ t \in ToSet(r)
<1>1. Len(s) \in Nat /\ DOMAIN s = 1 .. Len(s) /\ Len(r) \in Nat /\ DOMAIN r = 1 .. Len(r)
  OBVIOUS
<1>2. /\ DOMAIN SubSeq(s, 1, k) = 1 .. k
      /\ \A i \in 1 .. k : i \in DOMAIN s /\ SubSeq(s, 1, k)[i] = s[i]
  BY <1>1, SubSeqFacts
<1>3. /\ DOMAIN SubSeq(s, k + 1, Len(s)) = 1 .. Len(s) - k
      /\ \A i \in 1 .. Len(s) - k : k + i \in DOMAIN s /\ SubSeq(s, k + 1, Len(s))[i] = s[k + i]
  <2>1. /\ Len(SubSeq(s, k + 1, Len(s))) = Len(s) - k /\ SubSeq(s, k + 1, Len(s)) \in Seq(S)
        /\ \A i \in 1 .. Len(s) - k : SubSeq(s, k + 1, Len(s))[i] = s[k + i]
    BY SubSeqFacts
  <2>2. \A i \in 1 .. Len(s) - k : k + i \in 1 .. Len(s)
    BY <1>1
  <2>3. ASSUME NEW q \in Seq(S) PROVE DOMAIN q = 1 .. Len(q)
    OBVIOUS
  <2>4. DOMAIN SubSeq(s, k + 1, Len(s)) = 1 .. Len(s) - k
    BY <2>1, <2>3
  <2> QED  BY <1>1, <2>1, <2>2, <2>4
<1>4. ASSUME NEW i \in DOMAIN (s \o r) PROVE (s \o r)[i] \in ToSet(s) \/ (s \o r)[i] \in ToSet(r)
  <2>1. DOMAIN (s \o r) = 1 .. Len(s) + Len(r)
    BY <1>1, ConcatFacts
  <2>2. CASE i =< Len(s)
    <3>1. i \in DOMAIN s /\ (s \o r)[i] = s[i]
      BY <1>1, <1>4, <2>1, <2>2, ConcatFacts
    <3> QED  BY <3>1 DEF ToSet
  <2>3. CASE i > Len(s)
    <3>1. i - Len(s) \in 1 .. Len(r) /\ Len(s) + (i - Len(s)) = i
      BY <1>1, <1>4, <2>1, <2>3
    <3>2. (s \o r)[i] = r[i - Len(s)]
      BY <3>1, ConcatFacts
    <3> QED  BY <1>1, <3>1, <3>2 DEF ToSet
  <2> QED  BY <1>1, <1>4, <2>1, <2>2, <2>3
<1> QED  BY <1>2, <1>3, <1>4 DEF ToSet

LEMMA EmptySet == ToSet(<<>>) = {}
  BY DEF ToSet

LEMMA StateQuiet ==
    ASSUME SchedInv, Next, NEW c \in Cpus, Branch(c),
           ~PutAway(c), ~switchframe_switch(c), ~fork_run(c), ~thread_make_runnable(c),
           ~(\E d \in Cpus : SendTo(c, d)), ~(\E t \in Threads : thread_fork(c, t))
    PROVE  StateInv'
<1>1. /\ ThreadTypes /\ CpuTypes /\ ListTypes /\ LocTypes /\ TypeOK
  BY DEF SchedInv, OnePlace, TypeOK, LocalInv, ThreadTypes, CpuTypes, ListTypes, LocTypes
<1>2. /\ c \in AllCpus /\ AllCpus \subseteq Int /\ curthread[c] \in Threads /\ loc[c] \in Locals
      /\ num_cpus \in Nat /\ num_cpus >= 1 /\ Cpus \subseteq AllCpus
  BY <1>1, CpuFacts DEF AllCpus, CpuTypes, LocTypes
<1>3. OtherCpusSame(c) /\ Frame
  BY OtherCpus, FrameStep
<1>4. StateInv
  BY DEF SchedInv
<1>5. LocalShape(c)
  BY <1>2 DEF SchedInv, LocalInv, LocalShape
<1>6. ListTypes' /\ LocTypes'
  BY ListTypesStep
<1>7. SchedInv /\ c \in Cpus
  OBVIOUS
<1>10. CASE hardclock(c)
  <2>1. UNCHANGED <<runqueue, zombies, wc_threads>> /\ loc'[c].list = loc[c].list
    BY <1>10, <1>1, <1>2, <1>5
       DEF ListTypes, LocTypes, CpuTypes, LocalShape, NoLocals, Locals, thread, cpu, chans,
           Goto, hardclock, AfterHardclock, Yielding, TakesInterrupts
  <2>2. loc[c].list = <<>> \/ (pc'[c] = "wake" <=> pc[c] = "wake")
    BY <1>10, <1>1, <1>2, <1>5
       DEF ListTypes, LocTypes, CpuTypes, LocalShape, NoLocals, Locals, thread, cpu, chans,
           Goto, hardclock, AfterHardclock, Yielding, TakesInterrupts
  <2> QED  BY <1>2, <1>3, <1>4, <1>6, <1>7, <2>1, <2>2, EmptySet, StateFrame DEF StateInv
<1>11. CASE hardclock_migrate(c)
  <2>1. UNCHANGED <<runqueue, zombies, wc_threads>> /\ loc'[c].list = loc[c].list
    BY <1>11, <1>1, <1>2, <1>5
       DEF ListTypes, LocTypes, CpuTypes, LocalShape, NoLocals, Locals, thread, cpu, chans,
           Goto, hardclock_migrate, TakesInterrupts
  <2>2. loc[c].list = <<>> \/ (pc'[c] = "wake" <=> pc[c] = "wake")
    BY <1>11, <1>1, <1>2, <1>5
       DEF ListTypes, LocTypes, CpuTypes, LocalShape, NoLocals, Locals, thread, cpu, chans,
           Goto, hardclock_migrate, TakesInterrupts
  <2> QED  BY <1>2, <1>3, <1>4, <1>6, <1>7, <2>1, <2>2, EmptySet, StateFrame DEF StateInv
<1>12. CASE timerclock(c)
  <2>1. /\ "lbolt" \in Wchans /\ UNCHANGED <<runqueue, zombies>>
        /\ wc_threads' = [wc_threads EXCEPT !["lbolt"] = <<>>]
        /\ pc'[c] = "wake" /\ loc'[c].list = wc_threads["lbolt"]
    BY <1>12, <1>1, <1>2 DEF timerclock, wchan_wakeall, Goto, CpuTypes, LocTypes, NoLocals, Wchans
  <2>2. \A v \in Wchans : wc_threads'[v] = <<>> \/ wc_threads'[v] = wc_threads[v]
    BY <1>1, <2>1 DEF ListTypes
  <2>3. \A v \in Wchans : \A t \in ToSet(wc_threads'[v]) : t_state[t] = "SLEEP"
    BY <1>4, <2>2, EmptySet DEF StateInv
  <2> QED  BY <1>2, <1>3, <1>4, <1>6, <1>7, <2>1, <2>3, StateFrame DEF StateInv
<1>13. CASE interprocessor_interrupt(c)
  <2>1. UNCHANGED <<runqueue, zombies, wc_threads>> /\ loc'[c].list = loc[c].list
    BY <1>13, <1>1, <1>2, <1>5
       DEF ListTypes, LocTypes, CpuTypes, LocalShape, NoLocals, Locals, thread, cpu, chans,
           Goto, interprocessor_interrupt, TakesInterrupts
  <2>2. loc[c].list = <<>> \/ (pc'[c] = "wake" <=> pc[c] = "wake")
    BY <1>13, <1>1, <1>2, <1>5
       DEF ListTypes, LocTypes, CpuTypes, LocalShape, NoLocals, Locals, thread, cpu, chans,
           Goto, interprocessor_interrupt, TakesInterrupts
  <2> QED  BY <1>2, <1>3, <1>4, <1>6, <1>7, <2>1, <2>2, EmptySet, StateFrame DEF StateInv
<1>14. CASE wake_done(c)
  <2>1. UNCHANGED <<runqueue, zombies, wc_threads>> /\ loc'[c].list = loc[c].list
    BY <1>14, <1>1, <1>2, <1>5
       DEF ListTypes, LocTypes, CpuTypes, LocalShape, NoLocals, Locals, thread, cpu, chans,
           Goto, wake_done
  <2>2. loc[c].list = <<>> \/ (pc'[c] = "wake" <=> pc[c] = "wake")
    BY <1>14, <1>1, <1>2, <1>5
       DEF ListTypes, LocTypes, CpuTypes, LocalShape, NoLocals, Locals, thread, cpu, chans,
           Goto, wake_done
  <2> QED  BY <1>2, <1>3, <1>4, <1>6, <1>7, <2>1, <2>2, EmptySet, StateFrame DEF StateInv
<1>15. CASE StayRunning(c)
  <2>1. UNCHANGED <<runqueue, zombies, wc_threads>> /\ loc'[c].list = loc[c].list
    BY <1>15, <1>1, <1>2, <1>5
       DEF ListTypes, LocTypes, CpuTypes, LocalShape, NoLocals, Locals, thread, cpu, chans,
           Goto, StayRunning
  <2>2. loc[c].list = <<>> \/ (pc'[c] = "wake" <=> pc[c] = "wake")
    BY <1>15, <1>1, <1>2, <1>5
       DEF ListTypes, LocTypes, CpuTypes, LocalShape, NoLocals, Locals, thread, cpu, chans,
           Goto, StayRunning
  <2> QED  BY <1>2, <1>3, <1>4, <1>6, <1>7, <2>1, <2>2, EmptySet, StateFrame DEF StateInv
<1>16. CASE idle(c)
  <2>1. UNCHANGED <<runqueue, zombies, wc_threads>> /\ loc'[c].list = loc[c].list
    BY <1>16, <1>1, <1>2, <1>5
       DEF ListTypes, LocTypes, CpuTypes, LocalShape, NoLocals, Locals, thread, cpu, chans,
           Goto, idle
  <2>2. loc[c].list = <<>> \/ (pc'[c] = "wake" <=> pc[c] = "wake")
    BY <1>16, <1>1, <1>2, <1>5
       DEF ListTypes, LocTypes, CpuTypes, LocalShape, NoLocals, Locals, thread, cpu, chans,
           Goto, idle
  <2> QED  BY <1>2, <1>3, <1>4, <1>6, <1>7, <2>1, <2>2, EmptySet, StateFrame DEF StateInv
<1>17. CASE unidle(c)
  <2>1. UNCHANGED <<runqueue, zombies, wc_threads>> /\ loc'[c].list = loc[c].list
    BY <1>17, <1>1, <1>2, <1>5
       DEF ListTypes, LocTypes, CpuTypes, LocalShape, NoLocals, Locals, thread, cpu, chans,
           Goto, unidle
  <2>2. loc[c].list = <<>> \/ (pc'[c] = "wake" <=> pc[c] = "wake")
    BY <1>17, <1>1, <1>2, <1>5
       DEF ListTypes, LocTypes, CpuTypes, LocalShape, NoLocals, Locals, thread, cpu, chans,
           Goto, unidle
  <2> QED  BY <1>2, <1>3, <1>4, <1>6, <1>7, <2>1, <2>2, EmptySet, StateFrame DEF StateInv
<1>18. CASE lamebus_clear_ipi(c)
  <2>1. UNCHANGED <<runqueue, zombies, wc_threads>> /\ loc'[c].list = loc[c].list
    BY <1>18, <1>1, <1>2, <1>5
       DEF ListTypes, LocTypes, CpuTypes, LocalShape, NoLocals, Locals, thread, cpu, chans,
           Goto, lamebus_clear_ipi
  <2>2. loc[c].list = <<>> \/ (pc'[c] = "wake" <=> pc[c] = "wake")
    BY <1>18, <1>1, <1>2, <1>5
       DEF ListTypes, LocTypes, CpuTypes, LocalShape, NoLocals, Locals, thread, cpu, chans,
           Goto, lamebus_clear_ipi
  <2> QED  BY <1>2, <1>3, <1>4, <1>6, <1>7, <2>1, <2>2, EmptySet, StateFrame DEF StateInv
<1>19. CASE migrate_count(c)
  <2>1. UNCHANGED <<runqueue, zombies, wc_threads>> /\ loc'[c].list = loc[c].list
    BY <1>19, <1>1, <1>2, <1>5
       DEF ListTypes, LocTypes, CpuTypes, LocalShape, NoLocals, Locals, thread, cpu, chans,
           Goto, migrate_count
  <2>2. loc[c].list = <<>> \/ (pc'[c] = "wake" <=> pc[c] = "wake")
    BY <1>19, <1>1, <1>2, <1>5
       DEF ListTypes, LocTypes, CpuTypes, LocalShape, NoLocals, Locals, thread, cpu, chans,
           Goto, migrate_count
  <2> QED  BY <1>2, <1>3, <1>4, <1>6, <1>7, <2>1, <2>2, EmptySet, StateFrame DEF StateInv
<1>20. CASE TakeNone(c)
  <2>1. UNCHANGED <<runqueue, zombies, wc_threads>> /\ loc'[c].list = loc[c].list
    BY <1>20, <1>1, <1>2, <1>5
       DEF ListTypes, LocTypes, CpuTypes, LocalShape, NoLocals, Locals, thread, cpu, chans,
           Goto, TakeNone, AfterHardclock, Yielding
  <2>2. loc[c].list = <<>> \/ (pc'[c] = "wake" <=> pc[c] = "wake")
    BY <1>20, <1>1, <1>2, <1>5
       DEF ListTypes, LocTypes, CpuTypes, LocalShape, NoLocals, Locals, thread, cpu, chans,
           Goto, TakeNone, AfterHardclock, Yielding
  <2> QED  BY <1>2, <1>3, <1>4, <1>6, <1>7, <2>1, <2>2, EmptySet, StateFrame DEF StateInv
<1>21. CASE TakeVictims(c)
  <2>1. PICK k \in 0 .. Len(runqueue[c]) : \E share \in Nat :
         /\ runqueue' = [runqueue EXCEPT ![c] = SubSeq(runqueue[c], 1, k)]
         /\ loc' = [loc EXCEPT ![c] = [NoLocals EXCEPT
                       !.list = SubSeq(runqueue[c], k + 1, Len(runqueue[c])),
                       !.to_send = Len(runqueue[c]) - k, !.share = share]]
    BY <1>21 DEF TakeVictims
  <2>2. /\ runqueue'[c] = SubSeq(runqueue[c], 1, k)
        /\ loc'[c].list = SubSeq(runqueue[c], k + 1, Len(runqueue[c]))
        /\ \A e \in AllCpus : e = c \/ runqueue'[e] = runqueue[e]
        /\ UNCHANGED <<zombies, wc_threads>> /\ pc'[c] = "mig_send"
    <3>1. /\ runqueue'[c] = SubSeq(runqueue[c], 1, k)
          /\ \A e \in AllCpus : e = c \/ runqueue'[e] = runqueue[e]
      BY <2>1, <1>1, <1>2 DEF ListTypes
    <3>2. loc'[c].list = SubSeq(runqueue[c], k + 1, Len(runqueue[c]))
      BY <2>1, <1>1, <1>2 DEF LocTypes, NoLocals
    <3>3. UNCHANGED <<zombies, wc_threads>> /\ pc'[c] = "mig_send"
      BY <1>21, <1>1, <1>2 DEF TakeVictims, CpuTypes
    <3> QED  BY <3>1, <3>2, <3>3
  <2>3. runqueue[c] \in Seq(Threads)
    BY <1>1, <1>2 DEF ListTypes
  <2>4. /\ \A t \in ToSet(SubSeq(runqueue[c], 1, k)) : t \in ToSet(runqueue[c])
        /\ \A t \in ToSet(SubSeq(runqueue[c], k + 1, Len(runqueue[c]))) : t \in ToSet(runqueue[c])
    BY <2>3, PartFacts
  <2>5. \A t \in ToSet(runqueue[c]) : t_state[t] = "READY" /\ t_cpu[t] = c
    BY <1>2, <1>4 DEF StateInv
  <2> QED  BY <1>3, <1>4, <1>6, <1>7, <2>2, <2>4, <2>5, StateFrame DEF StateInv
<1>22. CASE NextCpu(c)
  <2>1. UNCHANGED <<runqueue, zombies, wc_threads>> /\ loc'[c].list = loc[c].list
    BY <1>22, <1>1, <1>2, <1>5
       DEF ListTypes, LocTypes, CpuTypes, LocalShape, NoLocals, Locals, thread, cpu, chans,
           Goto, NextCpu
  <2>2. loc[c].list = <<>> \/ (pc'[c] = "wake" <=> pc[c] = "wake")
    BY <1>22, <1>1, <1>2, <1>5
       DEF ListTypes, LocTypes, CpuTypes, LocalShape, NoLocals, Locals, thread, cpu, chans,
           Goto, NextCpu
  <2> QED  BY <1>2, <1>3, <1>4, <1>6, <1>7, <2>1, <2>2, EmptySet, StateFrame DEF StateInv
<1>23. CASE SkipCurrent(c)
  <2>1. /\ loc[c].list # <<>> /\ loc'[c].list = Append(Tail(loc[c].list), Head(loc[c].list))
        /\ UNCHANGED <<runqueue, zombies, wc_threads>> /\ pc[c] = "mig_send" /\ pc'[c] = "mig_send"
    BY <1>23, <1>1, <1>2 DEF SkipCurrent, LocTypes, Locals
  <2>2. ToSet(loc'[c].list) = ToSet(loc[c].list)
    BY <1>2, <2>1, RotateFacts DEF Locals
  <2>3. \A t \in ToSet(loc'[c].list) : t_state[t] = "READY" /\ t_cpu[t] = c
    BY <1>2, <1>4, <2>1, <2>2 DEF StateInv
  <2>4. /\ \A t \in ToSet(runqueue[c]) : t_state[t] = "READY" /\ t_cpu[t] = c
        /\ \A w \in Wchans : \A t \in ToSet(wc_threads[w]) : t_state[t] = "SLEEP"
    BY <1>2, <1>4 DEF StateInv
  <2>5. /\ \A d \in AllCpus : runqueue'[d] = runqueue[d]
        /\ zombies' = zombies /\ pc'[c] # "wake"
        /\ \A t \in ToSet(runqueue'[c]) : t_state[t] = "READY" /\ t_cpu[t] = c
        /\ \A w \in Wchans : \A t \in ToSet(wc_threads'[w]) : t_state[t] = "SLEEP"
    BY <2>1, <2>4
  <2> QED  BY <1>3, <1>6, <1>7, <2>3, <2>5, StateFrame
<1>24. CASE migrate_sent(c)
  <2>1. UNCHANGED <<runqueue, zombies, wc_threads>> /\ loc'[c].list = loc[c].list
    BY <1>24, <1>1, <1>2, <1>5
       DEF ListTypes, LocTypes, CpuTypes, LocalShape, NoLocals, Locals, thread, cpu, chans,
           Goto, migrate_sent, Unlocked
  <2>2. loc[c].list = <<>> \/ (pc'[c] = "wake" <=> pc[c] = "wake")
    BY <1>24, <1>1, <1>2, <1>5
       DEF ListTypes, LocTypes, CpuTypes, LocalShape, NoLocals, Locals, thread, cpu, chans,
           Goto, migrate_sent, Unlocked
  <2> QED  BY <1>2, <1>3, <1>4, <1>6, <1>7, <2>1, <2>2, EmptySet, StateFrame DEF StateInv
<1>25. CASE migrate_leftovers(c)
  <2>1. /\ pc[c] = "mig_back" /\ pc'[c] # "wake"
        /\ runqueue'[c] = runqueue[c] \o loc[c].list /\ loc'[c].list = <<>>
        /\ \A e \in AllCpus : e = c \/ runqueue'[e] = runqueue[e]
        /\ UNCHANGED <<zombies, wc_threads>>
    BY <1>25, <1>1, <1>2
       DEF migrate_leftovers, Goto, AfterHardclock, Yielding, ListTypes, LocTypes, CpuTypes,
           NoLocals, chans
  <2>2. runqueue[c] \in Seq(Threads) /\ loc[c].list \in Seq(Threads) /\ 0 \in 0 .. Len(runqueue[c])
    BY <1>1, <1>2 DEF ListTypes, Locals
  <2>3. \A t \in ToSet(runqueue'[c]) : t \in ToSet(runqueue[c]) \/ t \in ToSet(loc[c].list)
    BY <2>1, <2>2, PartFacts
  <2>4. \A t \in ToSet(runqueue'[c]) : t_state[t] = "READY" /\ t_cpu[t] = c
    BY <1>2, <1>4, <2>1, <2>3 DEF StateInv
  <2> QED  BY <1>3, <1>4, <1>6, <1>7, <2>1, <2>4, EmptySet, StateFrame DEF StateInv
<1>26. ASSUME NEW w \in Wchans, FallAsleep(c, w) PROVE StateInv'
  <2>1. UNCHANGED <<runqueue, zombies, wc_threads>> /\ loc'[c].list = loc[c].list
    BY <1>26, <1>1, <1>2, <1>5
       DEF ListTypes, LocTypes, CpuTypes, LocalShape, NoLocals, Locals, thread, cpu, chans,
           Goto, FallAsleep
  <2>2. loc[c].list = <<>> \/ (pc'[c] = "wake" <=> pc[c] = "wake")
    BY <1>26, <1>1, <1>2, <1>5
       DEF ListTypes, LocTypes, CpuTypes, LocalShape, NoLocals, Locals, thread, cpu, chans,
           Goto, FallAsleep
  <2> QED  BY <1>2, <1>3, <1>4, <1>6, <1>7, <2>1, <2>2, EmptySet, StateFrame DEF StateInv
<1>27. CASE TakeUnit(c)
  <2>1. UNCHANGED <<runqueue, zombies, wc_threads>> /\ loc'[c].list = loc[c].list
    BY <1>27, <1>1, <1>2, <1>5
       DEF ListTypes, LocTypes, CpuTypes, LocalShape, NoLocals, Locals, thread, cpu, chans,
           Goto, TakeUnit, Runs
  <2>2. loc[c].list = <<>> \/ (pc'[c] = "wake" <=> pc[c] = "wake")
    BY <1>27, <1>1, <1>2, <1>5
       DEF ListTypes, LocTypes, CpuTypes, LocalShape, NoLocals, Locals, thread, cpu, chans,
           Goto, TakeUnit, Runs
  <2> QED  BY <1>2, <1>3, <1>4, <1>6, <1>7, <2>1, <2>2, EmptySet, StateFrame DEF StateInv
<1>28. CASE cpus_online(c)
  <2>1. UNCHANGED <<runqueue, zombies, wc_threads>> /\ loc'[c].list = loc[c].list
    BY <1>28, <1>1, <1>2, <1>5
       DEF ListTypes, LocTypes, CpuTypes, LocalShape, NoLocals, Locals, thread, cpu, chans,
           Goto, cpus_online, Runs, Move
  <2>2. loc[c].list = <<>> \/ (pc'[c] = "wake" <=> pc[c] = "wake")
    BY <1>28, <1>1, <1>2, <1>5
       DEF ListTypes, LocTypes, CpuTypes, LocalShape, NoLocals, Locals, thread, cpu, chans,
           Goto, cpus_online, Runs, Move
  <2> QED  BY <1>2, <1>3, <1>4, <1>6, <1>7, <2>1, <2>2, EmptySet, StateFrame DEF StateInv
<1>29. CASE cpu_hatch(c)
  <2> DEFINE s == wc_threads["sem"]
  <2>1. /\ "sem" \in Wchans /\ UNCHANGED <<runqueue, zombies>>
        /\ wc_threads' = [wc_threads EXCEPT !["sem"] = IF s = <<>> THEN s ELSE Tail(s)]
        /\ pc'[c] = "wake" /\ loc'[c].list = IF s = <<>> THEN <<>> ELSE <<Head(s)>>
    BY <1>29, <1>1, <1>2 DEF cpu_hatch, wchan_wakeone, Goto, CpuTypes, LocTypes, NoLocals, Wchans
  <2>2. s \in Seq(Threads) /\ \A t \in ToSet(s) : t_state[t] = "SLEEP"
    BY <1>1, <1>4, <2>1 DEF ListTypes, StateInv
  <2>3. /\ wc_threads'["sem"] = IF s = <<>> THEN s ELSE Tail(s)
        /\ \A v \in Wchans : v # "sem" => wc_threads'[v] = wc_threads[v]
    BY <1>1, <2>1 DEF ListTypes
  <2>4. \A t \in ToSet(IF s = <<>> THEN s ELSE Tail(s)) : t \in ToSet(s)
    BY <2>2, TailFacts
  <2>5. \A v \in Wchans : \A t \in ToSet(wc_threads'[v]) : t_state[t] = "SLEEP"
    BY <1>4, <2>2, <2>3, <2>4 DEF StateInv
  <2>6. \A t \in ToSet(loc'[c].list) : t_state[t] \in {"READY", "SLEEP"}
    <3>1. CASE s = <<>>  BY <2>1, <3>1, EmptySet
    <3>2. CASE s # <<>>
      <4>1. loc'[c].list = <<Head(s)>> /\ Head(s) \in ToSet(s)
        BY <2>1, <2>2, <3>2, TailFacts
      <4>2. ToSet(<<Head(s)>>) = {Head(s)}
        BY DEF ToSet
      <4> QED  BY <2>2, <4>1, <4>2
    <3> QED  BY <3>1, <3>2
  <2> HIDE DEF s
  <2> QED  BY <1>2, <1>3, <1>4, <1>6, <1>7, <2>1, <2>5, <2>6, StateFrame DEF StateInv
<1>30. CASE CountReached(c)
  <2>1. UNCHANGED <<runqueue, zombies, wc_threads>> /\ loc'[c].list = loc[c].list
    BY <1>30, <1>1, <1>2, <1>5
       DEF ListTypes, LocTypes, CpuTypes, LocalShape, NoLocals, Locals, thread, cpu, chans,
           Goto, CountReached, Runs, Move
  <2>2. loc[c].list = <<>> \/ (pc'[c] = "wake" <=> pc[c] = "wake")
    BY <1>30, <1>1, <1>2, <1>5
       DEF ListTypes, LocTypes, CpuTypes, LocalShape, NoLocals, Locals, thread, cpu, chans,
           Goto, CountReached, Runs, Move
  <2> QED  BY <1>2, <1>3, <1>4, <1>6, <1>7, <2>1, <2>2, EmptySet, StateFrame DEF StateInv
<1>31. CASE clocksleep_return(c)
  <2>1. UNCHANGED <<runqueue, zombies, wc_threads>> /\ loc'[c].list = loc[c].list
    BY <1>31, <1>1, <1>2, <1>5
       DEF ListTypes, LocTypes, CpuTypes, LocalShape, NoLocals, Locals, thread, cpu, chans,
           Goto, clocksleep_return, Runs, Move
  <2>2. loc[c].list = <<>> \/ (pc'[c] = "wake" <=> pc[c] = "wake")
    BY <1>31, <1>1, <1>2, <1>5
       DEF ListTypes, LocTypes, CpuTypes, LocalShape, NoLocals, Locals, thread, cpu, chans,
           Goto, clocksleep_return, Runs, Move
  <2> QED  BY <1>2, <1>3, <1>4, <1>6, <1>7, <2>1, <2>2, EmptySet, StateFrame DEF StateInv
<1>32. CASE exit_count(c)
  <2>1. /\ "count" \in Wchans /\ UNCHANGED <<runqueue, zombies>>
        /\ wc_threads' = [wc_threads EXCEPT !["count"] = <<>>]
        /\ pc'[c] = "wake" /\ loc'[c].list = wc_threads["count"]
    BY <1>32, <1>1, <1>2 DEF exit_count, wchan_wakeall, Goto, CpuTypes, LocTypes, NoLocals, Wchans
  <2>2. \A v \in Wchans : wc_threads'[v] = <<>> \/ wc_threads'[v] = wc_threads[v]
    BY <1>1, <2>1 DEF ListTypes
  <2>3. \A v \in Wchans : \A t \in ToSet(wc_threads'[v]) : t_state[t] = "SLEEP"
    BY <1>4, <2>2, EmptySet DEF StateInv
  <2> QED  BY <1>2, <1>3, <1>4, <1>6, <1>7, <2>1, <2>3, StateFrame DEF StateInv
<1>33. CASE exit_switch(c)
  <2>1. UNCHANGED <<runqueue, zombies, wc_threads>> /\ loc'[c].list = loc[c].list
    BY <1>33, <1>1, <1>2, <1>5
       DEF ListTypes, LocTypes, CpuTypes, LocalShape, NoLocals, Locals, thread, cpu, chans,
           Goto, exit_switch, Runs
  <2>2. loc[c].list = <<>> \/ (pc'[c] = "wake" <=> pc[c] = "wake")
    BY <1>33, <1>1, <1>2, <1>5
       DEF ListTypes, LocTypes, CpuTypes, LocalShape, NoLocals, Locals, thread, cpu, chans,
           Goto, exit_switch, Runs
  <2> QED  BY <1>2, <1>3, <1>4, <1>6, <1>7, <2>1, <2>2, EmptySet, StateFrame DEF StateInv
<1>34. CASE clocksleep(c)
  <2>1. UNCHANGED <<runqueue, zombies, wc_threads>> /\ loc'[c].list = loc[c].list
    BY <1>34, <1>1, <1>2, <1>5
       DEF ListTypes, LocTypes, CpuTypes, LocalShape, NoLocals, Locals, thread, cpu, chans,
           Goto, clocksleep, Runs, Move, Sleep
  <2>2. loc[c].list = <<>> \/ (pc'[c] = "wake" <=> pc[c] = "wake")
    BY <1>34, <1>1, <1>2, <1>5
       DEF ListTypes, LocTypes, CpuTypes, LocalShape, NoLocals, Locals, thread, cpu, chans,
           Goto, clocksleep, Runs, Move, Sleep
  <2> QED  BY <1>2, <1>3, <1>4, <1>6, <1>7, <2>1, <2>2, EmptySet, StateFrame DEF StateInv
<1>35. CASE thread_exit(c)
  <2>1. UNCHANGED <<runqueue, zombies, wc_threads>> /\ loc'[c].list = loc[c].list
    BY <1>35, <1>1, <1>2, <1>5
       DEF ListTypes, LocTypes, CpuTypes, LocalShape, NoLocals, Locals, thread, cpu, chans,
           Goto, thread_exit, Runs, Move
  <2>2. loc[c].list = <<>> \/ (pc'[c] = "wake" <=> pc[c] = "wake")
    BY <1>35, <1>1, <1>2, <1>5
       DEF ListTypes, LocTypes, CpuTypes, LocalShape, NoLocals, Locals, thread, cpu, chans,
           Goto, thread_exit, Runs, Move
  <2> QED  BY <1>2, <1>3, <1>4, <1>6, <1>7, <2>1, <2>2, EmptySet, StateFrame DEF StateInv
<1> QED
  BY <1>10, <1>11, <1>12, <1>13, <1>14, <1>15, <1>16, <1>17, <1>18, <1>19, <1>20, <1>21, <1>22,
     <1>23, <1>24, <1>25, <1>26, <1>27, <1>28, <1>29, <1>30, <1>31, <1>32, <1>33, <1>34, <1>35
     DEF Branch

LEMMA MembersTyped ==
    ASSUME SchedInv
    PROVE  /\ \A d \in AllCpus : /\ \A t \in ToSet(runqueue[d]) : t \in Threads /\ Listed(t)
                                 /\ \A t \in ToSet(zombies[d]) : t \in Threads /\ Listed(t)
                                 /\ \A t \in ToSet(loc[d].list) : t \in Threads /\ Listed(t)
           /\ \A w \in Wchans : \A t \in ToSet(wc_threads[w]) : t \in Threads /\ Listed(t)
<1>1. /\ runqueue \in [AllCpus -> Seq(Threads)] /\ zombies \in [AllCpus -> Seq(Threads)]
      /\ \A c \in AllCpus : loc[c].list \in Seq(Threads)
      /\ wc_threads \in [Wchans -> Seq(Threads)]
  BY DEF SchedInv, OnePlace, TypeOK
<1>2. ASSUME NEW s \in Seq(Threads), NEW t \in ToSet(s) PROVE t \in Threads
  BY <1>2 DEF ToSet
<1>3. ASSUME NEW l \in ListNames, NEW t \in ToSet(Lists[l]) PROVE Listed(t)
  BY <1>3, OneList
<1>4. ASSUME NEW d \in AllCpus
      PROVE  /\ \A t \in ToSet(runqueue[d]) : t \in Threads /\ Listed(t)
             /\ \A t \in ToSet(zombies[d]) : t \in Threads /\ Listed(t)
             /\ \A t \in ToSet(loc[d].list) : t \in Threads /\ Listed(t)
  <2>1. /\ runqueue[d] \in Seq(Threads) /\ zombies[d] \in Seq(Threads) /\ loc[d].list \in Seq(Threads)
    BY <1>1
  <2>2. /\ \A t \in ToSet(runqueue[d]) : Listed(t)
        /\ \A t \in ToSet(zombies[d]) : Listed(t)
        /\ \A t \in ToSet(loc[d].list) : Listed(t)
    BY <1>3, ListParts
  <2> QED  BY <1>2, <2>1, <2>2
<1>5. ASSUME NEW w \in Wchans PROVE \A t \in ToSet(wc_threads[w]) : t \in Threads /\ Listed(t)
  <2>1. wc_threads[w] \in Seq(Threads)  BY <1>1
  <2>2. \A t \in ToSet(wc_threads[w]) : Listed(t)  BY <1>3, ListParts
  <2> QED  BY <1>2, <2>1, <2>2
<1> QED  BY <1>4, <1>5

LEMMA StateRunnable ==
    ASSUME SchedInv, Next, NEW c \in Cpus, Branch(c), thread_make_runnable(c)
    PROVE  StateInv'
<1>1. /\ ThreadTypes /\ CpuTypes /\ ListTypes /\ LocTypes /\ TypeOK
  BY DEF SchedInv, OnePlace, TypeOK, LocalInv, ThreadTypes, CpuTypes, ListTypes, LocTypes
<1>2. /\ c \in AllCpus /\ Cpus \subseteq AllCpus /\ curthread[c] \in Threads /\ loc[c] \in Locals
      /\ NoThread \notin Threads /\ NoCpu \notin AllCpus
  BY <1>1, CpuFacts DEF CpuTypes, LocTypes
<1>3. Cpus' = Cpus /\ OtherCpusSame(c)
  BY OtherCpus DEF OtherCpusSame, Cpus
<1>4. StateInv /\ CurInv
  BY DEF SchedInv
<1> DEFINE h == Head(loc[c].list)
           d == t_cpu[h]
<1>5. /\ pc[c] = "wake" /\ loc[c].list # <<>> /\ loc'[c].list = Tail(loc[c].list)
      /\ t_state' = [t_state EXCEPT ![h] = "READY"]
      /\ runqueue' = [runqueue EXCEPT ![d] = Append(runqueue[d], h)]
      /\ UNCHANGED <<t_cpu, at, zombies, pc, wc_threads>>
  BY <1>1, <1>2 DEF thread_make_runnable, LocTypes, Locals, chans
<1>6. h \in Threads /\ d \in AllCpus /\ ToSet(loc[c].list) = {h} \cup ToSet(Tail(loc[c].list))
  BY <1>2, <1>5, TailFacts, WakeTarget DEF Locals
<1>7. t_state[h] \in {"READY", "SLEEP"}
  BY <1>2, <1>4, <1>5, <1>6 DEF StateInv
<1>8. ToSet(runqueue'[d]) = ToSet(runqueue[d]) \cup {h} /\ \A e \in AllCpus : e = d \/ runqueue'[e] = runqueue[e]
  <2>1. runqueue[d] \in Seq(Threads) /\ runqueue'[d] = Append(runqueue[d], h)
    BY <1>1, <1>5, <1>6 DEF ListTypes
  <2>2. \A e \in AllCpus : e = d \/ runqueue'[e] = runqueue[e]
    BY <1>1, <1>5, <1>6 DEF ListTypes
  <2> HIDE DEF h, d
  <2>3. \A s \in Seq(Threads) : ToSet(Append(s, h)) = ToSet(s) \cup {h}
    BY <1>6, AppendFacts
  <2> QED  BY <2>1, <2>2, <2>3
<1>9. \A w \in Wchans : h \notin ToSet(wc_threads[w])
  <2>1. h \in ToSet(Lists[<<"private", c>>]) /\ <<"private", c>> \in ListNames
    BY <1>2, <1>6, ListParts
  <2> SUFFICES ASSUME NEW w \in Wchans PROVE h \notin ToSet(wc_threads[w])
    OBVIOUS
  <2>2. <<"wchan", w>> \in ListNames /\ Lists[<<"wchan", w>>] = wc_threads[w]
    BY ListParts
  <2>3. <<"wchan", w>> # <<"private", c>>
    OBVIOUS
  <2> HIDE DEF h
  <2> QED  BY <2>1, <2>2, <2>3, OneList
<1>10. t_cpu[h] = d
  OBVIOUS
<1> HIDE DEF h, d
<1>11. /\ t_state'[h] = "READY" /\ \A t \in Threads : t # h => t_state'[t] = t_state[t]
  BY <1>1, <1>5, <1>6 DEF ThreadTypes
<1>12. ASSUME NEW e \in AllCpus, NEW t \in ToSet(runqueue'[e])
       PROVE  t_state'[t] = "READY" /\ t_cpu[t] = e
  <2>1. t \in ToSet(runqueue[e]) \/ (t = h /\ e = d)
    BY <1>8, <1>12
  <2> QED  BY <2>1, <1>4, <1>10, <1>11, MembersTyped DEF StateInv
<1>13. ASSUME NEW e \in AllCpus, NEW t \in ToSet(zombies[e])
       PROVE  t_state'[t] = "ZOMBIE" /\ t_cpu[t] = e /\ at[t] = "exit_switch"
  BY <1>4, <1>7, <1>11, <1>13, MembersTyped DEF StateInv
<1>14. ASSUME NEW e \in AllCpus, NEW t \in ToSet(loc'[e].list)
       PROVE  IF pc[e] = "wake" THEN t_state'[t] \in {"READY", "SLEEP"}
              ELSE t_state'[t] = "READY" /\ t_cpu[t] = e
  <2>1. t \in ToSet(loc[e].list)
    BY <1>3, <1>5, <1>6, <1>14 DEF OtherCpusSame
  <2> QED  BY <2>1, <1>4, <1>11, MembersTyped DEF StateInv
<1>15. ASSUME NEW w \in Wchans, NEW t \in ToSet(wc_threads[w])
       PROVE  t_state'[t] = "SLEEP"
  BY <1>4, <1>9, <1>11, <1>15, MembersTyped DEF StateInv
<1>16. \A t \in Threads : t_state'[t] # "none" => t_cpu[t] \in Cpus
  BY <1>4, <1>7, <1>11 DEF StateInv
<1> QED  BY <1>3, <1>5, <1>12, <1>13, <1>14, <1>15, <1>16 DEF StateInv

LEMMA StateSend ==
    ASSUME SchedInv, Next, NEW c \in Cpus, Branch(c), NEW d \in Cpus, SendTo(c, d)
    PROVE  StateInv'
<1>1. /\ ThreadTypes /\ CpuTypes /\ ListTypes /\ LocTypes /\ TypeOK
  BY DEF SchedInv, OnePlace, TypeOK, LocalInv, ThreadTypes, CpuTypes, ListTypes, LocTypes
<1>2. /\ c \in AllCpus /\ Cpus \subseteq AllCpus /\ curthread[c] \in Threads /\ loc[c] \in Locals
      /\ NoThread \notin Threads /\ NoCpu \notin AllCpus
  BY <1>1, CpuFacts DEF CpuTypes, LocTypes
<1>3. Cpus' = Cpus /\ OtherCpusSame(c)
  BY OtherCpus DEF OtherCpusSame, Cpus
<1>4. StateInv /\ CurInv
  BY DEF SchedInv
<1> DEFINE h == Head(loc[c].list)
<1>5. /\ pc[c] = "mig_send" /\ loc[c].list # <<>> /\ loc'[c].list = Tail(loc[c].list)
      /\ t_cpu' = [t_cpu EXCEPT ![h] = d]
      /\ runqueue' = [runqueue EXCEPT ![d] = Append(runqueue[d], h)]
      /\ UNCHANGED <<t_state, at, zombies, pc, wc_threads>>
  BY <1>1, <1>2 DEF SendTo, LocTypes, Locals
<1>6. h \in Threads /\ d \in AllCpus /\ ToSet(loc[c].list) = {h} \cup ToSet(Tail(loc[c].list))
  BY <1>2, <1>5, TailFacts DEF Locals
<1>7. t_state[h] = "READY"
  BY <1>2, <1>4, <1>5, <1>6 DEF StateInv
<1>8. ToSet(runqueue'[d]) = ToSet(runqueue[d]) \cup {h} /\ \A e \in AllCpus : e = d \/ runqueue'[e] = runqueue[e]
  <2>1. runqueue[d] \in Seq(Threads) /\ runqueue'[d] = Append(runqueue[d], h)
    BY <1>1, <1>5, <1>6 DEF ListTypes
  <2>2. \A e \in AllCpus : e = d \/ runqueue'[e] = runqueue[e]
    BY <1>1, <1>5, <1>6 DEF ListTypes
  <2> QED  BY <1>6, <2>1, <2>2, AppendFacts
<1>9. /\ \A e \in AllCpus : h \notin ToSet(runqueue[e])
      /\ \A e \in AllCpus : e # c => h \notin ToSet(loc[e].list)
      /\ h \notin ToSet(Tail(loc[c].list))
  <2>1. \A e \in AllCpus : /\ <<"runqueue", e>> # <<"private", c>>
                           /\ e # c => <<"private", e>> # <<"private", c>>
    OBVIOUS
  <2>5. h \in ToSet(Lists[<<"private", c>>]) /\ <<"private", c>> \in ListNames
    BY <1>2, <1>6, ListParts
  <2>6. ASSUME NEW l \in ListNames, l # <<"private", c>> PROVE h \notin ToSet(Lists[l])
    <3> HIDE DEF h
    <3> QED  BY <2>5, <2>6, OneList
  <2>2. ASSUME NEW e \in AllCpus PROVE h \notin ToSet(runqueue[e])
    <3>1. <<"runqueue", e>> \in ListNames /\ Lists[<<"runqueue", e>>] = runqueue[e]
      BY ListParts
    <3> QED  BY <2>1, <2>6, <3>1
  <2>3. ASSUME NEW e \in AllCpus, e # c PROVE h \notin ToSet(loc[e].list)
    <3>1. <<"private", e>> \in ListNames /\ Lists[<<"private", e>>] = loc[e].list
      BY ListParts
    <3> QED  BY <2>1, <2>3, <2>6, <3>1
  <2>4. h \notin ToSet(Tail(loc[c].list))
    BY <1>2, <1>5, OneList, ListParts
  <2> QED  BY <2>2, <2>3, <2>4
<1> HIDE DEF h
<1>11. /\ t_cpu'[h] = d /\ \A t \in Threads : t # h => t_cpu'[t] = t_cpu[t]
  BY <1>1, <1>5, <1>6 DEF ThreadTypes
<1>12. ASSUME NEW e \in AllCpus, NEW t \in ToSet(runqueue'[e])
       PROVE  t_state[t] = "READY" /\ t_cpu'[t] = e
  <2>1. t \in ToSet(runqueue[e]) \/ (t = h /\ e = d)
    BY <1>8, <1>12
  <2> QED  BY <2>1, <1>4, <1>7, <1>9, <1>11, MembersTyped DEF StateInv
<1>13. ASSUME NEW e \in AllCpus, NEW t \in ToSet(zombies[e])
       PROVE  t_state[t] = "ZOMBIE" /\ t_cpu'[t] = e /\ at[t] = "exit_switch"
  BY <1>4, <1>7, <1>11, <1>13, MembersTyped DEF StateInv
<1>14. ASSUME NEW e \in AllCpus, NEW t \in ToSet(loc'[e].list)
       PROVE  IF pc[e] = "wake" THEN t_state[t] \in {"READY", "SLEEP"}
              ELSE t_state[t] = "READY" /\ t_cpu'[t] = e
  <2>1. t \in ToSet(loc[e].list) /\ t # h
    <3>1. CASE e = c  BY <3>1, <1>5, <1>6, <1>9, <1>14
    <3>2. CASE e # c  BY <3>2, <1>3, <1>9, <1>14 DEF OtherCpusSame
    <3> QED  BY <3>1, <3>2
  <2> QED  BY <2>1, <1>4, <1>11, MembersTyped DEF StateInv
<1>16. \A t \in Threads : t_state[t] # "none" => t_cpu'[t] \in Cpus
  BY <1>4, <1>11 DEF StateInv
<1> QED  BY <1>3, <1>4, <1>5, <1>12, <1>13, <1>14, <1>16 DEF StateInv

LEMMA StateAway ==
    ASSUME SchedInv, Next, NEW c \in Cpus, Branch(c), PutAway(c)
    PROVE  StateInv'
<1>1. /\ ThreadTypes /\ CpuTypes /\ ListTypes /\ LocTypes /\ TypeOK
  BY DEF SchedInv, OnePlace, TypeOK, LocalInv, ThreadTypes, CpuTypes, ListTypes, LocTypes
<1>2. /\ c \in AllCpus /\ Cpus \subseteq AllCpus /\ curthread[c] \in Threads /\ loc[c] \in Locals
      /\ NoThread \notin Threads /\ NoCpu \notin AllCpus
  BY <1>1, CpuFacts DEF CpuTypes, LocTypes
<1>3. Cpus' = Cpus /\ OtherCpusSame(c)
  BY OtherCpus DEF OtherCpusSame, Cpus
<1>4. StateInv /\ CurInv
  BY DEF SchedInv
<1> DEFINE cur == curthread[c]
           new == loc[c].new
<1>5. /\ t_state' = [t_state EXCEPT ![cur] = new] /\ UNCHANGED <<t_cpu, at>>
      /\ \/ new = "READY" /\ runqueue' = [runqueue EXCEPT ![c] = Append(runqueue[c], cur)]
         \/ new # "READY" /\ runqueue' = runqueue
      /\ \/ new = "ZOMBIE" /\ zombies' = [zombies EXCEPT ![c] = Append(zombies[c], cur)]
         \/ new # "ZOMBIE" /\ zombies' = zombies
      /\ wc_threads' = [w \in Wchans |-> IF w = loc[c].wc THEN Append(wc_threads[w], cur)
                                         ELSE wc_threads[w]]
  BY DEF PutAway
<1>6. /\ new \in {"READY", "SLEEP", "ZOMBIE"}
      /\ loc[c].wc \in Wchans => new = "SLEEP"
      /\ new = "ZOMBIE" => at[cur] = "exit_switch"
      /\ ~isidle[c]
  BY <1>2 DEF PutAway, SchedInv, LocalInv, IdleInv, Locals, NewStates
<1>7. cur \in Threads /\ t_cpu[cur] = c /\ ~Listed(cur)
  BY <1>2, <1>4, <1>6 DEF CurInv
<1>8. loc'[c].list = <<>> /\ ToSet(loc'[c].list) = {}
  BY <1>1, <1>2, EmptySet DEF PutAway, LocTypes, NoLocals
<1> HIDE DEF cur, new
<1>9. /\ t_state'[cur] = new /\ \A t \in Threads : t # cur => t_state'[t] = t_state[t]
  BY <1>1, <1>5, <1>7 DEF ThreadTypes
<1>10. \A s \in Seq(Threads) : ToSet(Append(s, cur)) = ToSet(s) \cup {cur}
  BY <1>7, AppendFacts
<1>11. ASSUME NEW e \in AllCpus, NEW t \in ToSet(runqueue'[e])
       PROVE  t_state'[t] = "READY" /\ t_cpu[t] = e
  <2>1. t \in ToSet(runqueue[e]) \/ (t = cur /\ e = c /\ new = "READY")
    <3>1. runqueue[e] \in Seq(Threads)  BY <1>1 DEF ListTypes
    <3>2. \/ runqueue'[e] = runqueue[e]
          \/ new = "READY" /\ e = c /\ runqueue'[e] = Append(runqueue[e], cur)
      BY <1>1, <1>2, <1>5 DEF ListTypes
    <3> QED  BY <1>10, <1>11, <3>1, <3>2
  <2> QED  BY <2>1, <1>4, <1>7, <1>9, MembersTyped DEF StateInv
<1>12. ASSUME NEW e \in AllCpus, NEW t \in ToSet(zombies'[e])
       PROVE  t_state'[t] = "ZOMBIE" /\ t_cpu[t] = e /\ at[t] = "exit_switch"
  <2>1. t \in ToSet(zombies[e]) \/ (t = cur /\ e = c /\ new = "ZOMBIE")
    <3>1. zombies[e] \in Seq(Threads)  BY <1>1 DEF ListTypes
    <3>2. \/ zombies'[e] = zombies[e]
          \/ new = "ZOMBIE" /\ e = c /\ zombies'[e] = Append(zombies[e], cur)
      BY <1>1, <1>2, <1>5 DEF ListTypes
    <3> QED  BY <1>10, <1>12, <3>1, <3>2
  <2> QED  BY <2>1, <1>4, <1>6, <1>7, <1>9, MembersTyped DEF StateInv
<1>13. ASSUME NEW e \in AllCpus, NEW t \in ToSet(loc'[e].list)
       PROVE  IF pc'[e] = "wake" THEN t_state'[t] \in {"READY", "SLEEP"}
              ELSE t_state'[t] = "READY" /\ t_cpu[t] = e
  <2>1. e # c /\ t \in ToSet(loc[e].list) /\ pc'[e] = pc[e]
    BY <1>3, <1>8, <1>13 DEF OtherCpusSame
  <2> QED  BY <2>1, <1>4, <1>7, <1>9, MembersTyped DEF StateInv
<1>14. ASSUME NEW w \in Wchans, NEW t \in ToSet(wc_threads'[w])
       PROVE  t_state'[t] = "SLEEP"
  <2>1. t \in ToSet(wc_threads[w]) \/ (t = cur /\ new = "SLEEP")
    <3>1. wc_threads[w] \in Seq(Threads)  BY <1>1 DEF ListTypes
    <3>2. \/ wc_threads'[w] = wc_threads[w]
          \/ new = "SLEEP" /\ wc_threads'[w] = Append(wc_threads[w], cur)
      BY <1>1, <1>2, <1>5, <1>6
    <3> QED  BY <1>10, <1>14, <3>1, <3>2
  <2> QED  BY <2>1, <1>4, <1>7, <1>9, MembersTyped DEF StateInv
<1>15. \A t \in Threads : t_state'[t] # "none" => t_cpu[t] \in Cpus
  BY <1>4, <1>7, <1>9 DEF StateInv
<1> QED  BY <1>3, <1>5, <1>11, <1>12, <1>13, <1>14, <1>15 DEF StateInv

LEMMA StateSwitch ==
    ASSUME SchedInv, Next, NEW c \in Cpus, Branch(c), switchframe_switch(c)
    PROVE  StateInv'
<1>1. /\ ThreadTypes /\ CpuTypes /\ ListTypes /\ LocTypes /\ TypeOK
  BY DEF SchedInv, OnePlace, TypeOK, LocalInv, ThreadTypes, CpuTypes, ListTypes, LocTypes
<1>2. /\ c \in AllCpus /\ Cpus \subseteq AllCpus /\ curthread[c] \in Threads /\ loc[c] \in Locals
      /\ NoThread \notin Threads /\ NoCpu \notin AllCpus
  BY <1>1, CpuFacts DEF CpuTypes, LocTypes
<1>3. Cpus' = Cpus /\ OtherCpusSame(c)
  BY OtherCpus DEF OtherCpusSame, Cpus
<1>4. StateInv /\ CurInv
  BY DEF SchedInv
<1> DEFINE h == Head(runqueue[c])
           Z == ToSet(zombies[c])
<1>5. /\ runqueue[c] # <<>> /\ runqueue' = [runqueue EXCEPT ![c] = Tail(runqueue[c])]
      /\ zombies' = [zombies EXCEPT ![c] = <<>>]
      /\ t_state' = [t \in Threads |-> IF t = h THEN "RUN" ELSE IF t \in Z THEN "none" ELSE t_state[t]]
      /\ at' = [t \in Threads |-> IF t \in Z THEN "user" ELSE at[t]]
      /\ t_cpu' = [t \in Threads |-> IF t \in Z THEN NoCpu ELSE t_cpu[t]]
      /\ wc_threads' = wc_threads
  BY DEF switchframe_switch, chans
<1>6. h \in Threads /\ ToSet(runqueue[c]) = {h} \cup ToSet(Tail(runqueue[c]))
  BY <1>1, <1>2, <1>5, TailFacts DEF ListTypes
<1>7. \A t : Listed(t)' => t # h /\ t \notin Z
  BY SwitchLists
<1>8. loc'[c].list = <<>> /\ ToSet(loc'[c].list) = {}
  BY <1>1, <1>2, EmptySet DEF switchframe_switch, Goto, LocTypes, NoLocals
<1>9. t_cpu[h] = c
  BY <1>2, <1>4, <1>6 DEF StateInv
<1> HIDE DEF h, Z
<1>10. \A t \in Threads : t # h /\ t \notin Z =>
          t_state'[t] = t_state[t] /\ at'[t] = at[t] /\ t_cpu'[t] = t_cpu[t]
  BY <1>5
<1>11. \A l \in ListNames : \A t \in ToSet(Lists'[l]) : t # h /\ t \notin Z
  BY <1>7 DEF Listed
<1>12. ASSUME NEW e \in AllCpus, NEW t \in ToSet(runqueue'[e])
       PROVE  t_state'[t] = "READY" /\ t_cpu'[t] = e
  <2>1. t \in ToSet(runqueue[e])
    BY <1>1, <1>2, <1>5, <1>6, <1>12 DEF ListTypes
  <2>2. t # h /\ t \notin Z
    BY <1>11, <1>12, ListParts
  <2> QED  BY <2>1, <2>2, <1>4, <1>10, MembersTyped DEF StateInv
<1>13. ASSUME NEW e \in AllCpus, NEW t \in ToSet(zombies'[e])
       PROVE  t_state'[t] = "ZOMBIE" /\ t_cpu'[t] = e /\ at'[t] = "exit_switch"
  <2>1. t \in ToSet(zombies[e])
    BY <1>1, <1>2, <1>5, <1>13, EmptySet DEF ListTypes
  <2>2. t # h /\ t \notin Z
    BY <1>11, <1>13, ListParts
  <2> QED  BY <2>1, <2>2, <1>4, <1>10, MembersTyped DEF StateInv
<1>14. ASSUME NEW e \in AllCpus, NEW t \in ToSet(loc'[e].list)
       PROVE  IF pc'[e] = "wake" THEN t_state'[t] \in {"READY", "SLEEP"}
              ELSE t_state'[t] = "READY" /\ t_cpu'[t] = e
  <2>1. e # c /\ t \in ToSet(loc[e].list) /\ pc'[e] = pc[e]
    BY <1>3, <1>8, <1>14 DEF OtherCpusSame
  <2>2. t # h /\ t \notin Z
    BY <1>11, <1>14, ListParts
  <2> QED  BY <2>1, <2>2, <1>4, <1>10, MembersTyped DEF StateInv
<1>15. ASSUME NEW w \in Wchans, NEW t \in ToSet(wc_threads'[w])
       PROVE  t_state'[t] = "SLEEP"
  <2>2. t # h /\ t \notin Z
    BY <1>11, <1>15, ListParts
  <2> QED  BY <2>2, <1>4, <1>5, <1>10, <1>15, MembersTyped DEF StateInv
<1>16. \A t \in Threads : t_state'[t] # "none" => t_cpu'[t] \in Cpus
  <2>1. h \notin Z
    BY <1>2, <1>4, <1>6 DEF StateInv, Z
  <2> QED  BY <1>4, <1>5, <1>9, <1>10, <2>1 DEF StateInv
<1> QED  BY <1>3, <1>12, <1>13, <1>14, <1>15, <1>16 DEF StateInv

LEMMA StateForkRun ==
    ASSUME SchedInv, Next, NEW c \in Cpus, Branch(c), fork_run(c)
    PROVE  StateInv'
<1>1. /\ ThreadTypes /\ CpuTypes /\ ListTypes /\ LocTypes /\ TypeOK
  BY DEF SchedInv, OnePlace, TypeOK, LocalInv, ThreadTypes, CpuTypes, ListTypes, LocTypes
<1>2. /\ c \in AllCpus /\ Cpus \subseteq AllCpus /\ curthread[c] \in Threads /\ loc[c] \in Locals
      /\ NoThread \notin Threads /\ NoCpu \notin AllCpus
  BY <1>1, CpuFacts DEF CpuTypes, LocTypes
<1>3. Cpus' = Cpus /\ OtherCpusSame(c)
  BY OtherCpus DEF OtherCpusSame, Cpus
<1>4. StateInv /\ CurInv
  BY DEF SchedInv
<1> DEFINE k == child[curthread[c]]
<1>5. /\ pc'[c] = "wake" /\ loc'[c].list = <<k>>
      /\ UNCHANGED <<t_state, t_cpu, runqueue, zombies, wc_threads>>
  BY <1>1, <1>2 DEF fork_run, Goto, CpuTypes, LocTypes, NoLocals, chans
<1>6. t_state[k] = "READY" /\ ToSet(<<k>>) = {k}
  BY <1>1, <1>2 DEF SchedInv, BirthInv, fork_run, Runs, ToSet
<1> HIDE DEF k
<1>7. ASSUME NEW e \in AllCpus, NEW t \in ToSet(zombies[e])
      PROVE  at'[t] = "exit_switch"
  <2>1. t \in Threads /\ at[t] = "exit_switch" /\ at[curthread[c]] = "forked"
    BY <1>4, <1>7, MembersTyped DEF StateInv, fork_run, Runs
  <2>2. t # curthread[c]
    BY <2>1
  <2> QED  BY <1>1, <1>2, <2>1, <2>2 DEF ThreadTypes, fork_run, Move
<1>8. ASSUME NEW e \in AllCpus, NEW t \in ToSet(loc'[e].list)
      PROVE  IF pc'[e] = "wake" THEN t_state[t] \in {"READY", "SLEEP"}
             ELSE t_state[t] = "READY" /\ t_cpu[t] = e
  <2>1. CASE e = c  BY <2>1, <1>5, <1>6, <1>8
  <2>2. CASE e # c
    <3>1. t \in ToSet(loc[e].list) /\ pc'[e] = pc[e]
      BY <1>3, <1>8, <2>2 DEF OtherCpusSame
    <3> QED  BY <3>1, <1>4 DEF StateInv
  <2> QED  BY <2>1, <2>2
<1> QED  BY <1>3, <1>4, <1>5, <1>7, <1>8 DEF StateInv

LEMMA StateFork ==
    ASSUME SchedInv, Next, NEW c \in Cpus, Branch(c), NEW u \in Threads, thread_fork(c, u)
    PROVE  StateInv'
<1>1. /\ ThreadTypes /\ CpuTypes /\ ListTypes /\ LocTypes /\ TypeOK
  BY DEF SchedInv, OnePlace, TypeOK, LocalInv, ThreadTypes, CpuTypes, ListTypes, LocTypes
<1>2. /\ c \in AllCpus /\ Cpus \subseteq AllCpus /\ curthread[c] \in Threads /\ loc[c] \in Locals
      /\ NoThread \notin Threads /\ NoCpu \notin AllCpus
  BY <1>1, CpuFacts DEF CpuTypes, LocTypes
<1>3. Cpus' = Cpus /\ OtherCpusSame(c)
  BY OtherCpus DEF OtherCpusSame, Cpus
<1>4. StateInv /\ CurInv
  BY DEF SchedInv
<1>5. /\ t_state' = [t_state EXCEPT ![u] = "READY"]
      /\ t_cpu' = [t_cpu EXCEPT ![u] = t_cpu[curthread[c]]]
      /\ at' = [at EXCEPT ![curthread[c]] = "forked"]
      /\ "count" \in Wchans /\ wc_threads' = [wc_threads EXCEPT !["count"] = <<>>]
      /\ pc'[c] = "wake" /\ loc'[c].list = wc_threads["count"]
      /\ UNCHANGED <<runqueue, zombies>>
  BY <1>1, <1>2 DEF thread_fork, wchan_wakeall, Move, Goto, CpuTypes, LocTypes, NoLocals, Wchans
<1>6. ~Listed(u) /\ at[curthread[c]] = "user"
  BY DEF SchedInv, BirthInv, thread_fork, Runs
<1>7. /\ \A t \in Threads : t # u => t_state'[t] = t_state[t] /\ t_cpu'[t] = t_cpu[t]
      /\ \A t \in Threads : at[t] = "exit_switch" => at'[t] = "exit_switch"
      /\ t_state'[u] = "READY" /\ t_cpu'[u] = c
  BY <1>1, <1>2, <1>4, <1>5, <1>6 DEF ThreadTypes, CurInv
<1>8. ASSUME NEW e \in AllCpus
      PROVE  /\ \A t \in ToSet(runqueue[e]) : t_state'[t] = "READY" /\ t_cpu'[t] = e
             /\ \A t \in ToSet(zombies[e]) : /\ t_state'[t] = "ZOMBIE" /\ t_cpu'[t] = e
                                             /\ at'[t] = "exit_switch"
  BY <1>4, <1>6, <1>7, MembersTyped DEF StateInv
<1>9. ASSUME NEW e \in AllCpus, NEW t \in ToSet(loc'[e].list)
      PROVE  IF pc'[e] = "wake" THEN t_state'[t] \in {"READY", "SLEEP"}
             ELSE t_state'[t] = "READY" /\ t_cpu'[t] = e
  <2>1. CASE e = c
    <3>1. t \in ToSet(wc_threads["count"])
      BY <1>5, <1>9, <2>1
    <3>2. t \in Threads /\ t # u /\ t_state[t] = "SLEEP"
      BY <1>4, <1>5, <1>6, <3>1, MembersTyped DEF StateInv
    <3> QED  BY <1>5, <1>7, <2>1, <3>2
  <2>2. CASE e # c
    <3>1. t \in ToSet(loc[e].list) /\ pc'[e] = pc[e]
      BY <1>3, <1>9, <2>2 DEF OtherCpusSame
    <3>2. t \in Threads /\ t # u
      BY <1>6, <3>1, MembersTyped
    <3> QED  BY <3>1, <3>2, <1>4, <1>7 DEF StateInv
  <2> QED  BY <2>1, <2>2
<1>10. ASSUME NEW w \in Wchans, NEW t \in ToSet(wc_threads'[w])
       PROVE  t_state'[t] = "SLEEP"
  <2>1. t \in ToSet(wc_threads[w])
    BY <1>1, <1>5, <1>10, EmptySet DEF ListTypes
  <2>2. t \in Threads /\ t # u /\ t_state[t] = "SLEEP"
    BY <1>4, <1>6, <2>1, MembersTyped DEF StateInv
  <2> QED  BY <1>7, <2>2
<1>11. \A t \in Threads : t_state'[t] # "none" => t_cpu'[t] \in Cpus
  BY <1>4, <1>7 DEF StateInv
<1> QED  BY <1>3, <1>5, <1>8, <1>9, <1>10, <1>11 DEF StateInv

LEMMA StateStep ==
    ASSUME SchedInv, Next, NEW c \in Cpus, Branch(c)
    PROVE  StateInv'
<1>1. CASE \E d \in Cpus : SendTo(c, d)  BY <1>1, StateSend
<1>2. CASE \E t \in Threads : thread_fork(c, t)  BY <1>2, StateFork
<1> QED  BY <1>1, <1>2, StateQuiet, StateRunnable, StateAway, StateSwitch, StateForkRun

-----------------------------------------------------------------------------
(* Booting, and counting threads.                                          *)

LEMMA SemKept ==
    ASSUME SchedInv, NEW c \in Cpus, Branch(c), ~TakeUnit(c), ~cpu_hatch(c)
    PROVE  sem_count' = sem_count
<1>1. /\ ThreadTypes /\ CpuTypes /\ ListTypes /\ LocTypes /\ TypeOK
  BY DEF SchedInv, OnePlace, TypeOK, LocalInv, ThreadTypes, CpuTypes, ListTypes, LocTypes
<1>2. /\ c \in AllCpus /\ AllCpus \subseteq Int /\ curthread[c] \in Threads /\ loc[c] \in Locals
      /\ num_cpus \in Nat /\ num_cpus >= 1 /\ Cpus \subseteq AllCpus
  BY <1>1, CpuFacts DEF AllCpus, CpuTypes, LocTypes
<1>10. CASE hardclock(c)
  BY <1>10, <1>2
     DEF thread, cpu, chans, hardclock, AfterHardclock, Yielding, TakesInterrupts
<1>11. CASE hardclock_migrate(c)
  BY <1>11, <1>2
     DEF thread, cpu, chans, hardclock_migrate, TakesInterrupts
<1>12. CASE timerclock(c)
  BY <1>12, <1>2
     DEF thread, cpu, chans, timerclock, TakesInterrupts, wchan_wakeall
<1>13. CASE interprocessor_interrupt(c)
  BY <1>13, <1>2
     DEF thread, cpu, chans, interprocessor_interrupt, TakesInterrupts
<1>14. CASE thread_make_runnable(c)
  BY <1>14, <1>2
     DEF thread, cpu, chans, thread_make_runnable
<1>15. CASE wake_done(c)
  BY <1>15, <1>2
     DEF thread, cpu, chans, wake_done
<1>16. CASE StayRunning(c)
  BY <1>16, <1>2
     DEF thread, cpu, chans, StayRunning
<1>17. CASE PutAway(c)
  BY <1>17, <1>2
     DEF thread, cpu, chans, PutAway
<1>18. CASE idle(c)
  BY <1>18, <1>2
     DEF thread, cpu, chans, idle
<1>19. CASE unidle(c)
  BY <1>19, <1>2
     DEF thread, cpu, chans, unidle
<1>20. CASE switchframe_switch(c)
  BY <1>20, <1>2
     DEF thread, cpu, chans, switchframe_switch
<1>21. CASE lamebus_clear_ipi(c)
  BY <1>21, <1>2
     DEF thread, cpu, chans, lamebus_clear_ipi
<1>22. CASE migrate_count(c)
  BY <1>22, <1>2
     DEF thread, cpu, chans, migrate_count
<1>23. CASE TakeNone(c)
  BY <1>23, <1>2
     DEF thread, cpu, chans, TakeNone, AfterHardclock, Yielding
<1>24. CASE TakeVictims(c)
  BY <1>24, <1>2
     DEF thread, cpu, chans, TakeVictims
<1>25. CASE NextCpu(c)
  BY <1>25, <1>2
     DEF thread, cpu, chans, NextCpu
<1>26. CASE SkipCurrent(c)
  BY <1>26, <1>2
     DEF thread, cpu, chans, SkipCurrent
<1>27. ASSUME NEW d \in Cpus, SendTo(c, d) PROVE sem_count' = sem_count
  BY <1>27, <1>2
     DEF thread, cpu, chans, SendTo
<1>28. CASE migrate_sent(c)
  BY <1>28, <1>2
     DEF thread, cpu, chans, migrate_sent, Unlocked
<1>29. CASE migrate_leftovers(c)
  BY <1>29, <1>2
     DEF thread, cpu, chans, migrate_leftovers, AfterHardclock, Yielding
<1>30. ASSUME NEW w \in Wchans, FallAsleep(c, w) PROVE sem_count' = sem_count
  BY <1>30, <1>2
     DEF thread, cpu, chans, FallAsleep
<1>31. CASE cpus_online(c)
  BY <1>31, <1>2
     DEF thread, cpu, chans, cpus_online, Runs, Move
<1>32. CASE fork_run(c)
  BY <1>32, <1>2
     DEF thread, cpu, chans, fork_run, Runs, Move
<1>33. CASE CountReached(c)
  BY <1>33, <1>2
     DEF thread, cpu, chans, CountReached, Runs, Move
<1>34. CASE clocksleep_return(c)
  BY <1>34, <1>2
     DEF thread, cpu, chans, clocksleep_return, Runs, Move
<1>35. CASE exit_count(c)
  BY <1>35, <1>2
     DEF thread, cpu, chans, exit_count, Runs, Move, wchan_wakeall
<1>36. CASE exit_switch(c)
  BY <1>36, <1>2
     DEF thread, cpu, chans, exit_switch, Runs
<1>37. ASSUME NEW t \in Threads, thread_fork(c, t) PROVE sem_count' = sem_count
  BY <1>37, <1>2
     DEF thread, cpu, chans, thread_fork, Runs, Move, wchan_wakeall
<1>38. CASE clocksleep(c)
  BY <1>38, <1>2
     DEF thread, cpu, chans, clocksleep, Runs, Move, Sleep
<1>39. CASE thread_exit(c)
  BY <1>39, <1>2
     DEF thread, cpu, chans, thread_exit, Runs, Move
<1> QED
  BY <1>10, <1>11, <1>12, <1>13, <1>14, <1>15, <1>16, <1>17, <1>18, <1>19, <1>20, <1>21, <1>22,
     <1>23, <1>24, <1>25, <1>26, <1>27, <1>28, <1>29, <1>30, <1>31, <1>32, <1>33, <1>34, <1>35,
     <1>36, <1>37, <1>38, <1>39
     DEF Branch

(* Steps that do not touch the count leave the counted threads alone.      *)
CountFrame ==
    /\ thread_count' = thread_count
    /\ \A t \in Threads : at'[t] = "boot" <=> at[t] = "boot"
    /\ \A t \in Threads : (t_state'[t] \in {"none", "ZOMBIE"} \/ at'[t] = "exit_switch")
                           <=> (t_state[t] \in {"none", "ZOMBIE"} \/ at[t] = "exit_switch")

LEMMA CountKept ==
    ASSUME SchedInv, NEW c \in Cpus, Branch(c),
           ~cpus_online(c), ~(\E t \in Threads : thread_fork(c, t)), ~exit_count(c), ~thread_exit(c)
    PROVE  CountFrame
<1>1. /\ ThreadTypes /\ CpuTypes /\ ListTypes /\ LocTypes /\ TypeOK
  BY DEF SchedInv, OnePlace, TypeOK, LocalInv, ThreadTypes, CpuTypes, ListTypes, LocTypes
<1>2. /\ c \in AllCpus /\ AllCpus \subseteq Int /\ curthread[c] \in Threads /\ loc[c] \in Locals
      /\ num_cpus \in Nat /\ num_cpus >= 1 /\ Cpus \subseteq AllCpus
  BY <1>1, CpuFacts DEF AllCpus, CpuTypes, LocTypes
<1>10. CASE hardclock(c)
  BY <1>10, <1>1, <1>2
     DEF CountFrame, ThreadTypes, thread, cpu, chans, Goto, hardclock, AfterHardclock, Yielding,
         TakesInterrupts
<1>11. CASE hardclock_migrate(c)
  BY <1>11, <1>1, <1>2
     DEF CountFrame, ThreadTypes, thread, cpu, chans, Goto, hardclock_migrate, TakesInterrupts
<1>12. CASE timerclock(c)
  BY <1>12, <1>1, <1>2
     DEF CountFrame, ThreadTypes, thread, cpu, chans, Goto, timerclock, TakesInterrupts,
         wchan_wakeall
<1>13. CASE interprocessor_interrupt(c)
  BY <1>13, <1>1, <1>2
     DEF CountFrame, ThreadTypes, thread, cpu, chans, Goto, interprocessor_interrupt,
         TakesInterrupts
<1>14. CASE thread_make_runnable(c)
  <2> DEFINE h == Head(loc[c].list)
  <2>1. t_state' = [t_state EXCEPT ![h] = "READY"] /\ UNCHANGED <<at, thread_count>>
    BY <1>14 DEF thread_make_runnable
  <2>2. h \in ToSet(loc[c].list)
    BY <1>14, <1>2, TailFacts DEF Locals, thread_make_runnable
  <2>3. t_state[h] \in {"READY", "SLEEP"}
    BY <1>14, <1>2, <2>2 DEF SchedInv, StateInv, thread_make_runnable
  <2> HIDE DEF h
  <2> QED  BY <1>1, <2>1, <2>3 DEF CountFrame, ThreadTypes
<1>15. CASE wake_done(c)
  BY <1>15, <1>1, <1>2
     DEF CountFrame, ThreadTypes, thread, cpu, chans, Goto, wake_done
<1>16. CASE StayRunning(c)
  BY <1>16, <1>1, <1>2
     DEF CountFrame, ThreadTypes, thread, cpu, chans, Goto, StayRunning
<1>17. CASE PutAway(c)
  <2>1. /\ t_state' = [t_state EXCEPT ![curthread[c]] = loc[c].new]
        /\ UNCHANGED <<at, thread_count>>
    BY <1>17 DEF PutAway
  <2>2. /\ loc[c].new \in {"READY", "SLEEP", "ZOMBIE"} /\ t_state[curthread[c]] \in {"READY", "RUN"}
        /\ loc[c].new = "ZOMBIE" => at[curthread[c]] = "exit_switch"
    BY <1>17, <1>2 DEF PutAway, SchedInv, LocalInv, IdleInv, CurInv, Locals, NewStates
  <2> QED  BY <1>1, <1>2, <2>1, <2>2 DEF CountFrame, ThreadTypes
<1>18. CASE idle(c)
  BY <1>18, <1>1, <1>2
     DEF CountFrame, ThreadTypes, thread, cpu, chans, Goto, idle
<1>19. CASE unidle(c)
  BY <1>19, <1>1, <1>2
     DEF CountFrame, ThreadTypes, thread, cpu, chans, Goto, unidle
<1>20. CASE switchframe_switch(c)
  <2> DEFINE h == Head(runqueue[c])
             Z == ToSet(zombies[c])
  <2>1. /\ t_state' = [t \in Threads |-> IF t = h THEN "RUN" ELSE IF t \in Z THEN "none" ELSE t_state[t]]
        /\ at' = [t \in Threads |-> IF t \in Z THEN "user" ELSE at[t]]
        /\ thread_count' = thread_count /\ runqueue[c] # <<>>
    BY <1>20 DEF switchframe_switch
  <2>2. h \in ToSet(runqueue[c])
    BY <1>1, <1>2, <2>1, TailFacts DEF ListTypes
  <2>3. /\ t_state[h] = "READY" /\ \A t \in Z : t_state[t] = "ZOMBIE" /\ at[t] = "exit_switch"
    BY <1>2, <2>2 DEF SchedInv, StateInv
  <2> HIDE DEF h, Z
  <2> QED  BY <2>1, <2>3 DEF CountFrame
<1>21. CASE lamebus_clear_ipi(c)
  BY <1>21, <1>1, <1>2
     DEF CountFrame, ThreadTypes, thread, cpu, chans, Goto, lamebus_clear_ipi
<1>22. CASE migrate_count(c)
  BY <1>22, <1>1, <1>2
     DEF CountFrame, ThreadTypes, thread, cpu, chans, Goto, migrate_count
<1>23. CASE TakeNone(c)
  BY <1>23, <1>1, <1>2
     DEF CountFrame, ThreadTypes, thread, cpu, chans, Goto, TakeNone, AfterHardclock, Yielding
<1>24. CASE TakeVictims(c)
  BY <1>24, <1>1, <1>2
     DEF CountFrame, ThreadTypes, thread, cpu, chans, Goto, TakeVictims
<1>25. CASE NextCpu(c)
  BY <1>25, <1>1, <1>2
     DEF CountFrame, ThreadTypes, thread, cpu, chans, Goto, NextCpu
<1>26. CASE SkipCurrent(c)
  BY <1>26, <1>1, <1>2
     DEF CountFrame, ThreadTypes, thread, cpu, chans, Goto, SkipCurrent
<1>27. ASSUME NEW d \in Cpus, SendTo(c, d) PROVE CountFrame
  BY <1>27, <1>1, <1>2
     DEF CountFrame, ThreadTypes, thread, cpu, chans, Goto, SendTo
<1>28. CASE migrate_sent(c)
  BY <1>28, <1>1, <1>2
     DEF CountFrame, ThreadTypes, thread, cpu, chans, Goto, migrate_sent, Unlocked
<1>29. CASE migrate_leftovers(c)
  BY <1>29, <1>1, <1>2
     DEF CountFrame, ThreadTypes, thread, cpu, chans, Goto, migrate_leftovers, AfterHardclock,
         Yielding
<1>30. ASSUME NEW w \in Wchans, FallAsleep(c, w) PROVE CountFrame
  BY <1>30, <1>1, <1>2
     DEF CountFrame, ThreadTypes, thread, cpu, chans, Goto, FallAsleep
<1>31. CASE TakeUnit(c)
  BY <1>31, <1>1, <1>2
     DEF CountFrame, ThreadTypes, thread, cpu, chans, Goto, TakeUnit, Runs
<1>32. CASE cpu_hatch(c)
  BY <1>32, <1>1, <1>2
     DEF CountFrame, ThreadTypes, thread, cpu, chans, Goto, cpu_hatch, Runs, Move, wchan_wakeone
<1>33. CASE fork_run(c)
  BY <1>33, <1>1, <1>2
     DEF CountFrame, ThreadTypes, thread, cpu, chans, Goto, fork_run, Runs, Move
<1>34. CASE CountReached(c)
  BY <1>34, <1>1, <1>2
     DEF CountFrame, ThreadTypes, thread, cpu, chans, Goto, CountReached, Runs, Move
<1>35. CASE clocksleep_return(c)
  BY <1>35, <1>1, <1>2
     DEF CountFrame, ThreadTypes, thread, cpu, chans, Goto, clocksleep_return, Runs, Move
<1>36. CASE exit_switch(c)
  BY <1>36, <1>1, <1>2
     DEF CountFrame, ThreadTypes, thread, cpu, chans, Goto, exit_switch, Runs
<1>37. CASE clocksleep(c)
  BY <1>37, <1>1, <1>2
     DEF CountFrame, ThreadTypes, thread, cpu, chans, Goto, clocksleep, Runs, Move, Sleep
<1> QED
  BY <1>10, <1>11, <1>12, <1>13, <1>14, <1>15, <1>16, <1>17, <1>18, <1>19, <1>20, <1>21, <1>22,
     <1>23, <1>24, <1>25, <1>26, <1>27, <1>28, <1>29, <1>30, <1>31, <1>32, <1>33, <1>34, <1>35,
     <1>36, <1>37
     DEF Branch

(* A thread that did not exist has been forked.                            *)
LEMMA Born ==
    ASSUME SchedInv, NEW c \in Cpus, Branch(c), NEW t \in Threads,
           t_state[t] = "none", t_state'[t] # "none"
    PROVE  \E u \in Threads : thread_fork(c, u)
<1>1. /\ ThreadTypes /\ CpuTypes /\ ListTypes /\ LocTypes /\ c \in AllCpus /\ loc[c] \in Locals
  BY CpuFacts DEF SchedInv, OnePlace, TypeOK, LocalInv, ThreadTypes, CpuTypes, ListTypes, LocTypes
<1>2. ASSUME thread_make_runnable(c) PROVE FALSE
  <2>1. Head(loc[c].list) \in ToSet(loc[c].list)
    BY <1>1, <1>2, TailFacts DEF Locals, thread_make_runnable
  <2>2. t_state[Head(loc[c].list)] # "none"
    BY <1>1, <1>2, <2>1 DEF SchedInv, StateInv, thread_make_runnable
  <2> QED  BY <1>1, <1>2, <2>2 DEF thread_make_runnable, ThreadTypes
<1>3. ASSUME switchframe_switch(c) PROVE FALSE
  <2>1. Head(runqueue[c]) \in ToSet(runqueue[c])
    BY <1>1, <1>3, TailFacts DEF ListTypes, switchframe_switch
  <2>2. t_state[Head(runqueue[c])] # "none"
    BY <1>1, <2>1 DEF SchedInv, StateInv
  <2> QED  BY <1>1, <1>3, <2>2 DEF switchframe_switch
<1>4. ~PutAway(c)
  BY <1>1 DEF PutAway, ThreadTypes, SchedInv, CurInv
<1>5. ~fork_run(c) /\ ~(\E d \in Cpus : SendTo(c, d))
  BY DEF fork_run, SendTo
<1> QED  BY <1>2, <1>3, <1>4, <1>5, FrameStep DEF Frame

(* On a machine with one cpu the boot thread is alone while it boots.      *)
LEMMA AloneAtBoot ==
    ASSUME SchedInv, NEW c \in Cpus, num_cpus = 1, at[0] = "boot"
    PROVE  curthread[c] = 0
  BY CpuFacts DEF SchedInv, OnePlace, TypeOK, BootInv, CurInv

LEMMA ThreadsFinite ==
    ASSUME NEW S \in SUBSET Threads
    PROVE  IsFiniteSet(S) /\ Cardinality(S) \in Nat /\ Cardinality(S) =< MaxThreads
<1>1. MaxThreads \in Nat /\ 0 \in Int /\ MaxThreads - 1 \in Int
  BY SchedulerAssumption
<1>2. IsFiniteSet(Threads) /\ Cardinality(Threads) = MaxThreads
  <2>1. /\ IsFiniteSet(0 .. MaxThreads - 1)
        /\ Cardinality(0 .. MaxThreads - 1) = IF 0 > MaxThreads - 1 THEN 0 ELSE MaxThreads - 1 - 0 + 1
    BY <1>1, FS_Interval
  <2> QED  BY <1>1, <2>1 DEF Threads
<1>3. IsFiniteSet(S) /\ Cardinality(S) =< Cardinality(Threads)
  BY <1>2, FS_Subset
<1> QED  BY <1>2, <1>3, FS_CardinalityType

LEMMA BootStep ==
    ASSUME SchedInv, Next, NEW c \in Cpus, Branch(c)
    PROVE  BootInv' /\ sem_count' \in 0 .. num_cpus' - 1
<1>1. /\ ThreadTypes /\ CpuTypes /\ TypeOK /\ BootInv /\ ThreadTypes'
  BY ThreadTypesStep DEF SchedInv, OnePlace, TypeOK, ThreadTypes, CpuTypes
<1>2. /\ c \in AllCpus /\ curthread[c] \in Threads /\ 0 \in Threads /\ num_cpus \in Nat /\ num_cpus >= 1
      /\ num_cpus' = num_cpus
  BY <1>1, CpuFacts, OtherCpus DEF CpuTypes, OtherCpusSame
<1>3. \A t \in Threads : AtEdge(c, t)
  BY AtEdges
<1>4. \A t \in Threads : /\ at'[t] = "boot" => t = 0
                         /\ at'[t] \in {"hatch", "exit"} => t \in 1 .. num_cpus - 1
  BY <1>1, <1>3 DEF BootInv, AtEdge
<1>5. at'[0] \in {"boot", "user", "forked", "count"}
  BY <1>1, <1>2, <1>3 DEF BootInv, AtEdge
<1>6. sem_count \in Nat /\ sem_count + Cardinality(Hatching) =< num_cpus - 1
  BY <1>1 DEF TypeOK, BootInv
<1>7. /\ Hatching \in SUBSET Threads /\ Hatching' \in SUBSET Threads
      /\ IsFiniteSet(Hatching) /\ Cardinality(Hatching) \in Nat /\ Cardinality(Hatching') \in Nat
  BY ThreadsFinite DEF Hatching
<1>8. Hatching' \in SUBSET Hatching
  BY <1>3 DEF Hatching, AtEdge
<1>9. Cardinality(Hatching') =< Cardinality(Hatching)
  BY <1>7, <1>8, FS_Subset
<1>10. sem_count' \in Nat /\ sem_count' + Cardinality(Hatching') =< num_cpus - 1
  <2>1. CASE TakeUnit(c)
    BY <2>1, <1>2, <1>6, <1>7, <1>9 DEF TakeUnit
  <2>2. CASE cpu_hatch(c)
    <3>1. /\ sem_count' = sem_count + 1 /\ at[curthread[c]] = "hatch"
          /\ at' = [at EXCEPT ![curthread[c]] = "exit"]
      BY <2>2 DEF cpu_hatch, Runs, Move
    <3>2. Hatching' = Hatching \ {curthread[c]} /\ curthread[c] \in Hatching
      BY <1>1, <1>2, <3>1 DEF Hatching, ThreadTypes
    <3>3. Cardinality(Hatching \ {curthread[c]}) = Cardinality(Hatching) - 1
      BY <1>7, <3>2, FS_RemoveElement
    <3> QED  BY <1>2, <1>6, <1>7, <3>1, <3>2, <3>3
  <2>3. CASE ~TakeUnit(c) /\ ~cpu_hatch(c)
    BY <2>3, <1>2, <1>6, <1>7, <1>9, SemKept
  <2> QED  BY <2>1, <2>2, <2>3
<1>11. ASSUME num_cpus = 1, at'[0] = "boot", NEW t \in Threads, t # 0 PROVE t_state'[t] = "none"
  <2>1. at[0] = "boot"
    BY <1>2, <1>3, <1>11 DEF AtEdge
  <2>2. curthread[c] = 0 /\ t_state[t] = "none"
    BY <1>1, <1>11, <2>1, AloneAtBoot DEF BootInv
  <2>3. ~(\E u \in Threads : thread_fork(c, u))
    BY <2>1, <2>2 DEF thread_fork, Runs
  <2> QED  BY <2>2, <2>3, Born
<1>12. sem_count' \in 0 .. num_cpus - 1
  BY <1>2, <1>7, <1>10
<1> QED  BY <1>2, <1>4, <1>5, <1>10, <1>11, <1>12 DEF BootInv

LEMMA Counting ==
    ASSUME NEW n \in Nat, n =< MaxThreads
    PROVE  n % UINT_MOD = n
  BY SchedulerAssumption

LEMMA CountStep ==
    ASSUME SchedInv, Next, NEW c \in Cpus, Branch(c)
    PROVE  CountRight'
<1>1. /\ ThreadTypes /\ CpuTypes /\ TypeOK /\ BootInv /\ BirthInv /\ CurInv /\ IdleInv
  BY DEF SchedInv, OnePlace, TypeOK, ThreadTypes, CpuTypes
<1>2. /\ c \in AllCpus /\ curthread[c] \in Threads /\ 0 \in Threads /\ num_cpus' = num_cpus
  BY <1>1, CpuFacts, OtherCpus DEF CpuTypes, OtherCpusSame
<1> SUFFICES ASSUME num_cpus = 1, at'[0] # "boot" PROVE thread_count' = Cardinality(Counted')
  BY <1>2 DEF CountRight, CountExact
<1>3. /\ Counted \in SUBSET Threads /\ Counted' \in SUBSET Threads /\ IsFiniteSet(Counted)
      /\ Cardinality(Counted) \in Nat /\ Cardinality(Counted') \in Nat
      /\ Cardinality(Counted) =< MaxThreads /\ Cardinality(Counted') =< MaxThreads
  BY ThreadsFinite DEF Counted
<1>4. at[0] # "boot" => thread_count = Cardinality(Counted)
  BY DEF SchedInv, CountRight, CountExact
<1>5. pc[c] = "run" => t_state[curthread[c]] \in {"READY", "RUN"}
  BY <1>1 DEF CurInv, IdleInv
<1>6. CASE cpus_online(c)
  <2>1. /\ pc[c] = "run" /\ at[curthread[c]] = "boot" /\ thread_count' = 1
        /\ at' = [at EXCEPT ![curthread[c]] = "user"] /\ t_state' = t_state
    BY <1>6 DEF cpus_online, Runs, Move
  <2>2. curthread[c] = 0 /\ \A t \in Threads \ {0} : t_state[t] = "none"
    BY <1>1, <1>2, <2>1 DEF BootInv
  <2>3. Counted' = {0}
    BY <1>1, <1>2, <1>5, <2>1, <2>2 DEF Counted, ThreadTypes
  <2> QED  BY <2>1, <2>3, FS_Singleton
<1>7. ASSUME NEW u \in Threads, thread_fork(c, u) PROVE thread_count' = Cardinality(Counted')
  <2>1. /\ pc[c] = "run" /\ at[curthread[c]] = "user" /\ t_state[u] = "none"
        /\ thread_count' = (thread_count + 1) % UINT_MOD
        /\ at' = [at EXCEPT ![curthread[c]] = "forked"]
        /\ t_state' = [t_state EXCEPT ![u] = "READY"]
    BY <1>7 DEF thread_fork, Runs, Move
  <2>2. at[0] # "boot"
    BY <2>1, AloneAtBoot
  <2>3. u # curthread[c] /\ at[u] = "user" /\ u \notin Counted
    BY <1>1, <1>5, <2>1 DEF BirthInv, Counted
  <2>4. Counted' = Counted \cup {u}
    BY <1>1, <1>2, <1>5, <2>1, <2>3 DEF Counted, ThreadTypes
  <2>5. Cardinality(Counted') = Cardinality(Counted) + 1
    BY <1>3, <2>3, <2>4, FS_AddElement
  <2>6. thread_count + 1 = Cardinality(Counted')
    BY <1>4, <2>2, <2>5
  <2> QED  BY <1>3, <2>1, <2>6, Counting
<1>8. CASE exit_count(c)
  <2>1. /\ pc[c] = "run" /\ at[curthread[c]] = "exit_count"
        /\ thread_count' = (thread_count - 1) % UINT_MOD
        /\ at' = [at EXCEPT ![curthread[c]] = "exit_switch"] /\ t_state' = t_state
    BY <1>8 DEF exit_count, Runs, Move
  <2>2. at[0] # "boot"
    BY <2>1, AloneAtBoot
  <2>3. curthread[c] \in Counted
    BY <1>2, <1>5, <2>1 DEF Counted
  <2>4. Counted' = Counted \ {curthread[c]}
    BY <1>1, <1>2, <2>1 DEF Counted, ThreadTypes
  <2>5. Cardinality(Counted') = Cardinality(Counted) - 1
    BY <1>3, <2>3, <2>4, FS_RemoveElement
  <2>6. thread_count - 1 = Cardinality(Counted')
    BY <1>4, <2>2, <2>5
  <2> QED  BY <1>3, <2>1, <2>6, Counting
<1>9. CASE thread_exit(c)
  <2>1. /\ pc[c] = "run" /\ at[curthread[c]] \in {"user", "exit"}
        /\ at' = [at EXCEPT ![curthread[c]] = IF thread_count # 0 THEN "exit_count" ELSE "exit_switch"]
        /\ t_state' = t_state /\ thread_count' = thread_count
    BY <1>9 DEF thread_exit, Runs, Move, thread
  <2>2. at[0] # "boot"
    BY <2>1, AloneAtBoot
  <2>3. curthread[c] \in Counted
    BY <1>2, <1>5, <2>1 DEF Counted
  <2>4. Cardinality(Counted) # 0
    <3>1. Cardinality(Counted \ {curthread[c]}) = Cardinality(Counted) - 1
      BY <1>3, <2>3, FS_RemoveElement
    <3>2. Counted \ {curthread[c]} \in SUBSET Threads
      BY <1>3
    <3>3. Cardinality(Counted \ {curthread[c]}) \in Nat
      BY <3>2, ThreadsFinite
    <3> QED  BY <1>3, <3>1, <3>3
  <2>5. Counted' = Counted
    BY <1>1, <1>2, <1>4, <2>1, <2>2, <2>4 DEF Counted, ThreadTypes
  <2> QED  BY <1>4, <2>1, <2>2, <2>5
<1>10. CASE CountFrame
  <2>1. Counted' = Counted
    BY <1>10 DEF CountFrame, Counted
  <2> QED  BY <1>2, <1>4, <1>10, <2>1 DEF CountFrame
<1> QED  BY <1>6, <1>7, <1>8, <1>9, <1>10, CountKept

-----------------------------------------------------------------------------
(* thread_start_cpus starts in the invariant.                              *)
LEMMA SchedInit == Init => SchedInv
<1> SUFFICES ASSUME Init PROVE SchedInv
  OBVIOUS
<1>1. num_cpus \in CpuCounts /\ num_cpus \in Nat /\ num_cpus >= 1 /\ num_cpus =< MaxCpus
  <2>1. \A m \in Machines : m[1] \in 1 .. MaxCpus
    BY SchedulerAssumption
  <2> QED  BY <2>1 DEF Init, CpuCounts
<1>2. /\ MaxCpus \in Nat /\ MaxThreads \in Nat /\ MaxCpus =< MaxThreads
      /\ UINT_MOD \in Nat /\ UINT_MOD > MaxThreads
      /\ Cpus \subseteq AllCpus /\ AllCpus \subseteq Threads /\ 0 \in Threads /\ 0 \in Cpus
      /\ Threads \subseteq Int
  BY <1>1, SchedulerAssumption DEF Cpus, AllCpus, Threads
<1>3. /\ LocTypes /\ ListTypes
      /\ \A c \in AllCpus : loc[c] = NoLocals /\ loc[c].list = <<>> /\ loc[c].to_send \in Nat
  <2>1. \A c \in AllCpus : loc[c] = NoLocals
    BY DEF Init
  <2>2. NoLocals.list = <<>> /\ NoLocals.to_send \in Nat
    BY DEF NoLocals
  <2>3. LocTypes
    BY NoLocalsType DEF Init, LocTypes
  <2>4. ListTypes
    BY DEF Init, ListTypes
  <2> QED  BY <2>1, <2>2, <2>3, <2>4
<1>4. \A l \in ListNames : Lists[l] = <<>>
  <2>1. /\ \A c \in AllCpus : runqueue[c] = <<>> /\ zombies[c] = <<>> /\ loc[c].list = <<>>
        /\ \A w \in Wchans : wc_threads[w] = <<>>
    BY <1>3 DEF Init
  <2> SUFFICES ASSUME NEW l \in ListNames PROVE Lists[l] = <<>>
    OBVIOUS
  <2>2. CASE \E c \in AllCpus : l = <<"runqueue", c>>
    <3>1. PICK c \in AllCpus : l = <<"runqueue", c>>
      BY <2>2
    <3> QED  BY <2>1, <3>1, ListParts
  <2>3. CASE \E c \in AllCpus : l = <<"zombies", c>>
    <3>1. PICK c \in AllCpus : l = <<"zombies", c>>
      BY <2>3
    <3> QED  BY <2>1, <3>1, ListParts
  <2>4. CASE \E c \in AllCpus : l = <<"private", c>>
    <3>1. PICK c \in AllCpus : l = <<"private", c>>
      BY <2>4
    <3> QED  BY <2>1, <3>1, ListParts
  <2>5. CASE \E w \in Wchans : l = <<"wchan", w>>
    <3>1. PICK w \in Wchans : l = <<"wchan", w>>
      BY <2>5
    <3> QED  BY <2>1, <3>1, ListParts
  <2> QED  BY <2>2, <2>3, <2>4, <2>5, ListCases
<1>5. \A t : ~Listed(t)
  BY <1>4, EmptySet DEF Listed
<1>6. Forking = {}
  BY DEF Forking, Init
<1>7. TypeOK
  <2>1. ThreadTypes
    BY <1>1, <1>2 DEF ThreadTypes, Init, States, ThreadLabels, AllCpus, Threads
  <2>2. CpuTypes
    BY <1>1, <1>2 DEF CpuTypes, Init, CpuLabels
  <2>3. sem_count \in 0 .. num_cpus - 1
    BY <1>1 DEF Init
  <2>4. \A c \in AllCpus : loc[c].list \in Seq(Threads) /\ loc[c].to_send \in Nat
    BY <1>3 DEF LocTypes, Locals
  <2> QED  BY <1>3, <2>1, <2>2, <2>3, <2>4 DEF TypeOK, ThreadTypes, CpuTypes, ListTypes
<1>8. OnePlace
  <2>1. Distinct(Lists)
    BY <1>4 DEF Distinct
  <2>2. ASSUME NEW t \in Threads, t_state[t] # "none"
        PROVE  t \in Cpus /\ ~isidle[t] /\ curthread[t] = t
    BY <1>1, <1>2, <2>2 DEF Init, Cpus, Threads
  <2> QED  BY <1>5, <1>7, <2>1, <2>2, PlaceParts
<1>9. LocalInv
  BY <1>2, <1>3 DEF Init, LocalInv, LocTypes
<1>10. IdleInv /\ NoLostUnidle
  BY <1>2 DEF Init, IdleInv, NoLostUnidle
<1>11. StateInv
  <2>1. ASSUME NEW t \in Threads, t_state[t] # "none" PROVE t_cpu[t] \in Cpus
    <3>1. t \in Int /\ 0 =< t
      BY DEF Threads
    <3>2. t < num_cpus /\ t_cpu[t] = t
      BY <2>1 DEF Init
    <3> QED  BY <1>1, <3>1, <3>2 DEF Cpus
  <2>2. \A c \in AllCpus : runqueue[c] = <<>> /\ zombies[c] = <<>> /\ loc[c].list = <<>>
    BY <1>3 DEF Init
  <2>3. \A w \in Wchans : wc_threads[w] = <<>>
    BY DEF Init
  <2> QED  BY <2>1, <2>2, <2>3, EmptySet DEF StateInv
<1>12. CurInv
  <2>1. ASSUME NEW c \in Cpus
        PROVE  curthread[c] = c /\ t_cpu[c] = c /\ t_state[c] = "READY"
    BY <1>1, <1>2, <2>1 DEF Init, Cpus, AllCpus, Threads
  <2> QED  BY <1>5, <1>6, <2>1 DEF CurInv
<1>13. BirthInv
  <2>1. ASSUME NEW t \in Threads
        PROVE  /\ t_state[t] = "none" => at[t] = "user"
               /\ child[t] = NoThread /\ at[t] # "forked"
    BY <1>1, <1>2 DEF Init
  <2> QED  BY <1>5, <1>6, <2>1 DEF BirthInv
<1>14. BootInv
  <2>1. Hatching = 1 .. num_cpus - 1
    BY <1>1, <1>2 DEF Hatching, Init, Threads
  <2>2. Cardinality(1 .. num_cpus - 1) = IF 1 > num_cpus - 1 THEN 0 ELSE num_cpus - 1 - 1 + 1
    BY <1>1, FS_Interval
  <2>3. sem_count = 0 /\ Cardinality(Hatching) =< num_cpus - 1
    BY <1>1, <2>1, <2>2 DEF Init
  <2>4. Cardinality(Hatching) \in Nat
    BY ThreadsFinite DEF Hatching
  <2>5. \A t \in Threads : /\ at[t] = "boot" => t = 0
                           /\ at[t] \in {"hatch", "exit"} => t \in 1 .. num_cpus - 1
    BY <1>1, <1>2 DEF Init, Threads
  <2>6. at[0] = "boot" /\ (num_cpus = 1 => \A t \in Threads \ {0} : t_state[t] = "none")
    BY <1>1, <1>2 DEF Init, Threads
  <2> QED  BY <1>1, <2>3, <2>4, <2>5, <2>6 DEF BootInv
<1>15. VictimsExist
  BY <1>2 DEF VictimsExist, Init
<1>16. CountRight
  BY <1>2 DEF CountRight, CountExact, Init
<1> QED  BY <1>8, <1>9, <1>10, <1>11, <1>12, <1>13, <1>14, <1>15, <1>16 DEF SchedInv

(* Every step of every cpu keeps it.                                       *)
LEMMA SchedStep == SchedInv /\ [Next]_vars => SchedInv'
<1> SUFFICES ASSUME SchedInv, [Next]_vars PROVE SchedInv'
  OBVIOUS
<1>1. CASE Next
  <2>1. PICK c \in Cpus : Branch(c)
    BY <1>1, Branches
  <2>2. ThreadTypes' /\ CpuTypes' /\ ListTypes' /\ LocTypes'
    BY <1>1, ThreadTypesStep, CpuTypesStep, ListTypesStep
  <2>3. BootInv' /\ sem_count' \in 0 .. num_cpus' - 1
    BY <1>1, <2>1, BootStep
  <2>4. TypeOK'
    <3>1. \A d \in AllCpus : loc'[d].list \in Seq(Threads) /\ loc'[d].to_send \in Nat
      BY <2>2 DEF LocTypes, Locals
    <3> QED  BY <2>2, <2>3, <3>1 DEF TypeOK, ThreadTypes, CpuTypes, ListTypes
  <2>5. CurInv' /\ BirthInv' /\ PlaceInv'
    BY <1>1, <2>1, ThreadsStep DEF ThreadsInv
  <2>6. Distinct(Lists')
    BY <1>1, <2>1, PutAwayLists, SwitchLists, ForkRunLists, SameThreadsStep DEF SameThreads
  <2>7. OnePlace'
    BY <2>4, <2>5, <2>6, PlaceParts DEF PlaceInv
  <2>8. LocalInv' /\ IdleInv' /\ StateInv' /\ VictimsExist' /\ NoLostUnidle' /\ CountRight'
    BY <1>1, <2>1, LocalStep, IdleStep, StateStep, VictimsStep, UnidleStep, CountStep
  <2> QED  BY <2>3, <2>5, <2>7, <2>8 DEF SchedInv
<1>2. CASE UNCHANGED vars
  <2>1. UNCHANGED <<num_cpus, t_state, t_cpu, at, num, child, curthread, isidle, runqueue,
                    runqueue_lock, zombies, ipi_line, pc, loc, wc_threads, wc_lock, sem_count,
                    thread_count>>
    BY <1>2 DEF vars, thread, cpu, chans
  <2>2. /\ Cpus' = Cpus /\ Lists' = Lists /\ Forking' = Forking /\ Hatching' = Hatching
        /\ Counted' = Counted
    BY <2>1 DEF Cpus, Lists, Forking, Hatching, Counted
  <2>3. \A t : Listed(t)' <=> Listed(t)
    BY <2>2 DEF Listed
  <2>4. TypeOK'
    BY <2>1 DEF SchedInv, OnePlace, TypeOK
  <2>5. OnePlace'
    BY <2>1, <2>2, <2>3, <2>4, PlaceParts DEF SchedInv
  <2>6. LocalInv' /\ IdleInv'
    BY <2>1, <2>2 DEF SchedInv, LocalInv, IdleInv
  <2>9. StateInv'
    BY <2>1, <2>2 DEF SchedInv, StateInv
  <2>7. CurInv' /\ BirthInv'
    BY <2>1, <2>2, <2>3 DEF SchedInv, CurInv, BirthInv
  <2>8. BootInv' /\ VictimsExist' /\ NoLostUnidle' /\ CountRight'
    BY <2>1, <2>2 DEF SchedInv, BootInv, VictimsExist, NoLostUnidle, CountRight, CountExact
  <2> QED  BY <2>5, <2>6, <2>7, <2>8, <2>9 DEF SchedInv
<1> QED  BY <1>1, <1>2

LEMMA SchedAlways == Spec => []SchedInv
  BY SchedInit, SchedStep, PTL DEF Spec

(* A thread's one list node is on at most one of the run queues, channels, *)
(* zombie lists and private lists, whatever the cpus do at the same time:  *)
(* thread_switch, wchan_wakeall, thread_consider_migration and exorcise    *)
(* never lose a thread and never put one on a second list.                 *)
THEOREM ListsAreSound == Spec => []OnePlace
<1>1. SchedInv => OnePlace
  BY DEF SchedInv
<1> QED  BY <1>1, SchedAlways, PTL

(* thread_consider_migration counts without a lock on all queues and lets  *)
(* them go before it takes its victims; still they are there, and no       *)
(* thread whose stack a cpu stands on is moved to another cpu or freed.    *)
THEOREM MigrationIsSound == Spec => []MigrationSound
<1>1. SchedInv => MigrationSound
  <2> SUFFICES ASSUME SchedInv PROVE MigrationSound
    OBVIOUS
  <2>1. OneStack
    BY CurrentFacts DEF OneStack, SchedInv, CurInv
  <2> QED  BY <2>1 DEF MigrationSound, SchedInv
<1> QED  BY <1>1, SchedAlways, PTL

(* lamebus_clear_ipi clears the line after whatever was sent while the     *)
(* interrupt was handled; a cpu in cpu_idle with work still has one.       *)
THEOREM UnidleNotLost == Spec => []NoLostUnidle
<1>1. SchedInv => NoLostUnidle
  BY DEF SchedInv
<1> QED  BY <1>1, SchedAlways, PTL

(* On one cpu thread_count is the number of threads, although thread_exit  *)
(* and common_prog read it without its lock.                               *)
THEOREM CountIsRight == Spec => []CountRight
<1>1. SchedInv => CountRight
  BY DEF SchedInv
<1> QED  BY <1>1, SchedAlways, PTL
=============================================================================
