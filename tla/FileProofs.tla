----------------------------- MODULE FileProofs -----------------------------
(***************************************************************************)
(* Theorems about FileTable, for any number of processes, table slots and  *)
(* structures.                                                             *)
(***************************************************************************)
EXTENDS FileTable, FiniteSetTheorems, WellFoundedInduction, TLAPS

(* The processes that will take a descriptor number, and those that will   *)
(* allocate a duplicate: the bounds leave room for both.                   *)
Numbering == {p \in Procs : pc[p] = "op_fd"}
Duping == {p \in Procs : loc[p].next = "dup2"}

CountInv == /\ next_fd + Cardinality(Numbering) <= next_struct
            /\ next_struct + Cardinality(Duping) <= setting.structs

(* What is known of the locals of a call at each label.                    *)
OpenLabels == {"op_fd", "op_put"}
GlobalLabels == {"cg_find", "cg_load", "cg_store"}
ForkLabels == {"fk_scan", "fk_store"}
UseLabels == {"cg_load", "cg_store", "dup_store", "dup_copy", "rw_lock", "rw_io",
              "ls_lock", "ls_set", "ca_load", "ca_store"}

ArgOf(p) ==
    /\ pc[p] \in OpenLabels \cup UseLabels => loc[p].f \in Files
    /\ pc[p] = "cl_scan" => loc[p].next \in {"close", "dup2"} /\ loc[p].fd \in Fds
    /\ pc[p] \in {"cl_scan"} \cup GlobalLabels /\ loc[p].next = "dup2" => loc[p].old \in Fds
    /\ pc[p] \in GlobalLabels => /\ loc[p].next # ""
                                 /\ loc[p].next # "exit" => loc[p].fd \in Fds
    /\ pc[p] \in GlobalLabels \cup {"fk_store", "ca_load", "ca_store"} =>
          loc[p].i \in Slots /\ files[p][loc[p].i] # NULL
    /\ pc[p] \in {"dup_lock", "dup_store", "dup_copy"} =>
          loc[p].next = "dup2" /\ loc[p].fd \in Fds /\ loc[p].old \in Fds
    /\ pc[p] \in {"rw_io", "ls_set"} => loc[p].tmp \in 0 .. MaxPos
    /\ pc[p] \in {"ca_scan", "ca_load", "ca_store"} => loc[p].next = "exit"
    /\ pc[p] \in {"ca_load", "ca_store"} => loc[p].f = files[p][loc[p].i]
    /\ loc[p].next = "exit" => pc[p] \in {"ca_scan", "ca_load", "ca_store"} \cup GlobalLabels
ArgInv == \A p \in Procs : ArgOf(p)

(* A child being forked is known to its parent only.                       *)
ChildInv == \A p \in Procs : pc[p] \in ForkLabels =>
    /\ loc[p].child \in Procs /\ pc[loc[p].child] = "new"
    /\ \A q \in Procs : pc[q] \in ForkLabels /\ loc[q].child = loc[p].child => q = p

(* The structure of an open in progress is not freed, and known to that    *)
(* open only.                                                              *)
Public(f) == f \in 0 .. next_struct - 1 /\ \A p \in InOpen : loc[p].f # f

PlaceInv ==
    /\ \A p \in Procs, i \in Slots : files[p][i] # NULL => Public(files[p][i])
    /\ \A p \in Procs : pc[p] \in UseLabels => Public(loc[p].f)
    /\ \A i \in Slots : open_files[i] # NULL =>
          Public(open_files[i]) /\ ~file[open_files[i]].is_dupe
    /\ \A p \in InOpen : /\ loc[p].f \in live \ Std /\ ~file[loc[p].f].is_dupe
                         /\ \A q \in InOpen : loc[q].f = loc[p].f => q = p

(* Structures with one global descriptor have one vnode.  The files with a *)
(* vnode have such a descriptor, once open has given it to them, and the   *)
(* files that are no standard ones have a seek position.                   *)
FdInv ==
    /\ \A f \in 0 .. next_struct - 1 :
          /\ file[f].global_fd < next_fd
          /\ file[f].std = -1 => file[f].seek \in Files
          /\ file[f].global_fd = -1 /\ Public(f) => file[f].vnode = NULL
          /\ \A g \in 0 .. next_struct - 1 :
                file[f].global_fd = file[g].global_fd /\ file[f].global_fd # -1 =>
                   file[f].vnode = file[g].vnode
    /\ \A p \in Procs : pc[p] = "op_put" => file[loc[p].f].global_fd # -1
    /\ \A f \in Std : file[f].vnode = NULL

BaseInv == GlobalTableSound /\ ArgInv /\ CountInv /\ ChildInv /\ PlaceInv /\ FdInv

-----------------------------------------------------------------------------
(* Careful programs.                                                       *)

(* A count n that does not let f be freed under one of its references.  A  *)
(* duplicate is counted twice from the start, and not freed by its count.  *)
Enough(f, n) ==
    /\ n >= 1
    /\ file[f].is_dupe => n >= 2
    /\ f \notin Std /\ ~file[f].is_dupe => n >= Cardinality(Refs(f))

(* Each structure is in one slot of a table, a duplicate in one table.     *)
SlotInv ==
    /\ Std \subseteq live
    /\ \A p \in Procs, i \in Slots : files[p][i] # NULL =>
          /\ files[p][i] \in live
          /\ files[p][i] \in Std => files[p][i] = i
          /\ \A q \in Procs, j \in Slots :
                files[q][j] = files[p][i] /\ (q = p \/ file[files[p][i]].is_dupe)
                   => q = p /\ j = i

(* The standard files keep their names.  A file that is no duplicate has a *)
(* global descriptor of its own.                                           *)
NameOf(f) ==
    /\ f \in Std => /\ file[f].std = f /\ ~file[f].is_dupe
                    /\ file[f].local_fd = f
    /\ f \notin Std /\ ~file[f].is_dupe => file[f].std = -1
    /\ file[f].std = -1 => file[f].vnode \in Vnodes
    /\ Public(f) /\ f \notin Std => /\ file[f].local_fd >= 3
                                    /\ ~file[f].is_dupe => file[f].global_fd # -1
NameInv ==
    /\ \A f \in 0 .. next_struct - 1 : NameOf(f)
    /\ \A f, g \in 0 .. next_struct - 1 :
          file[f].global_fd = file[g].global_fd /\ file[f].global_fd # -1
             /\ ~file[f].is_dupe /\ ~file[g].is_dupe => f = g
    /\ \A p \in Procs : pc[p] = "op_put" => file[loc[p].f].local_fd >= 3

(* The counts, and the counts that were loaded and will be stored.         *)
RefInv ==
    /\ \A f \in Files : ~Public(f) => refcount[f] = 1
    /\ \A f \in Std : refcount[f] >= 1
    /\ \A p \in Procs, i \in Slots : files[p][i] # NULL =>
          Enough(files[p][i], refcount[files[p][i]])
    /\ \A p \in Procs :
          /\ pc[p] \in {"cg_store", "ca_store", "dup_store"} => Enough(loc[p].f, loc[p].tmp)
          /\ pc[p] = "fk_store" => Enough(files[p][loc[p].i], loc[p].tmp)
          /\ pc[p] = "dup_copy" => refcount[loc[p].f] >= 2

(* Who has which lock.                                                     *)
Holding(p, f) ==
    \/ pc[p] \in {"rw_io", "ls_set", "dup_store", "dup_copy", "ca_load", "ca_store"}
          /\ loc[p].f = f
    \/ pc[p] = "fk_store" /\ files[p][loc[p].i] = f
LockInv ==
    /\ \A p \in Procs, f \in Files : file_lock[f] = p <=> Holding(p, f)
    /\ \A p \in Procs :
          /\ global_file_lk = p <=> pc[p] \in {"cg_load", "cg_store"}
          /\ ops_lock[p] => InCall(p) /\ pc[p] \notin {"rw_io", "ls_lock", "ls_set"}
                                      /\ loc[p].next # "exit"

(* The file a call works on is in the table of its process.                *)
UseOf(p) ==
    /\ pc[p] \in UseLabels => \E i \in Slots : files[p][i] = loc[p].f
    /\ pc[p] = "cl_scan" => loc[p].fd >= 3
    /\ pc[p] \in GlobalLabels => /\ file[files[p][loc[p].i]].std = -1
                                 /\ ~file[files[p][loc[p].i]].is_dupe
                                 /\ loc[p].next # "exit" => loc[p].fd >= 3
    /\ pc[p] \in {"cg_load", "cg_store"} => loc[p].f = files[p][loc[p].i]
    /\ pc[p] \in {"ca_load", "ca_store"} => file[loc[p].f].std = -1
    /\ pc[p] = "rw_lock" => /\ loc[p].mode \in {"r", "w"}
                            /\ file[loc[p].f].std \notin
                                  (IF loc[p].mode = "r" THEN {STDOUT, STDERR} ELSE {STDIN})
    /\ pc[p] = "ls_set" => file[loc[p].f].std = -1
UseInv == \A p \in Procs : UseOf(p)

(* The file that dup2 duplicates is not shared, and stays in the table     *)
(* while the new descriptor is being closed.                               *)
DupOf(p) == loc[p].next = "dup2" =>
    /\ pc[p] \in {"cl_scan", "dup_lock", "dup_store", "dup_copy"} \cup GlobalLabels
    /\ loc[p].old # loc[p].fd /\ loc[p].fd >= 3
    /\ p_filetable_lookup(p, loc[p].old) # NULL
    /\ ~Shared(p, p_filetable_lookup(p, loc[p].old))
    /\ pc[p] \in GlobalLabels => file[files[p][loc[p].i]].local_fd = loc[p].fd
    /\ pc[p] \in {"dup_store", "dup_copy"} => loc[p].f = p_filetable_lookup(p, loc[p].old)
DupInv == \A p \in Procs : DupOf(p)

(* The slots that fork has yet to copy are those of files that nobody else *)
(* has.                                                                    *)
ForkOf(p) == pc[p] \in ForkLabels =>
    \A i \in Slots : files[p][i] # NULL =>
       /\ i >= loc[p].i => ~Shared(p, files[p][i])
       /\ ~file[files[p][i]].is_dupe
ForkInv == \A p \in Procs : ForkOf(p)

CareInv == ~panic /\ SlotInv /\ NameInv /\ RefInv /\ LockInv /\ UseInv /\ DupInv /\ ForkInv
CarefulInv == Careful => CareInv
-----------------------------------------------------------------------------
(* Facts about the tables that do not depend on the step.                  *)

(* A nonempty set of natural numbers has a least member.                   *)
LEMMA LeastNat ==
    ASSUME NEW T \in SUBSET Nat, T # {}
    PROVE  \E n \in T : \A m \in T : n <= m
<1>1. PICK n \in T : \A m \in T : ~ (<<m, n>> \in OpToRel(<, Nat))
  BY NatLessThanWellFounded, WFMin
<1>2. \A m \in T : ~ (m < n)
  BY <1>1 DEF OpToRel
<1> QED  BY <1>2

(* The bounds that the settings give.                                      *)
LEMMA Bounds ==
    ASSUME setting \in Settings
    PROVE  /\ MostSlots \in Nat /\ MostStructs \in Nat
           /\ OPEN_MAX \in Nat /\ OPEN_MAX >= 4 /\ OPEN_MAX <= MostSlots
           /\ setting.structs \in Nat /\ setting.structs >= 3
           /\ setting.structs <= MostStructs
<1>1. \A g \in Settings : /\ g.slots \in Nat /\ g.slots >= 4
                          /\ g.structs \in Nat /\ g.structs >= 3
  BY FileTableAssumption
<1> DEFINE S == {g.slots : g \in Settings}
           T == {g.structs : g \in Settings}
<1>2. \E n \in S : \A g \in Settings : g.slots <= n
  BY FileTableAssumption
<1>3. MostSlots \in S /\ \A g \in Settings : g.slots <= MostSlots
  BY <1>2 DEF MostSlots
<1>4. \E n \in T : \A g \in Settings : g.structs <= n
  BY FileTableAssumption
<1>5. MostStructs \in T /\ \A g \in Settings : g.structs <= MostStructs
  BY <1>4 DEF MostStructs
<1>6. MostSlots \in Nat /\ MostStructs \in Nat
  BY <1>1, <1>3, <1>5
<1> QED  BY <1>1, <1>3, <1>5, <1>6 DEF OPEN_MAX

(* The sets of numbers, and that -1 is in none of them.                    *)
LEMMA Numbers ==
    ASSUME setting \in Settings
    PROVE  /\ Slots \subseteq Nat /\ Std \subseteq Slots /\ Slots = 0 .. OPEN_MAX - 1
           /\ OPEN_MAX \in Nat /\ NULL \notin Slots
           /\ Files \subseteq Nat /\ Std \subseteq Files /\ NULL \notin Files
           /\ Files = 0 .. MostStructs - 1 /\ MostStructs \in Nat
           /\ Fds \subseteq Nat /\ Std \subseteq Fds /\ NULL \notin Fds
           /\ 0 .. MostStructs \subseteq Fds
           /\ Std = {0, 1, 2} /\ NULL = -1 /\ NULL \notin Procs /\ NULL \notin Vnodes
           /\ IsFiniteSet(Slots) /\ IsFiniteSet(Procs)
<1>1. IsFiniteSet(Slots)
  BY Bounds, FS_Interval DEF Slots
<1>2. 0 .. MostStructs \subseteq Fds
  BY Bounds DEF Fds
<1> QED  BY <1>1, <1>2, Bounds, FileTableAssumption
            DEF Slots, Files, Fds, Std, STDIN, STDOUT, STDERR, NULL

(* The first and the last member of a nonempty set of slots.               *)
LEMMA FirstLast ==
    ASSUME setting \in Settings, NEW S \in SUBSET Slots, S # {}
    PROVE  /\ First_(S) \in S /\ \A j \in S : First_(S) <= j
           /\ Last_(S) \in S /\ \A j \in S : j <= Last_(S)
<1>1. S \in SUBSET Nat
  BY Numbers
<1>2. \E i \in S : \A j \in S : i <= j
  BY <1>1, LeastNat
<1>3. \E i \in S : \A j \in S : j <= i
  <2> DEFINE T == {OPEN_MAX - j : j \in S}
  <2>1. \A j \in S : OPEN_MAX - j \in Nat
    BY Numbers
  <2>2. T \in SUBSET Nat /\ T # {}
    BY <2>1
  <2>3. PICK n \in T : \A m \in T : n <= m
    BY <2>2, LeastNat
  <2>4. PICK i \in S : n = OPEN_MAX - i
    BY <2>3
  <2>5. ASSUME NEW j \in S PROVE j <= i
    <3>1. OPEN_MAX - j \in T
      OBVIOUS
    <3>2. OPEN_MAX - i <= OPEN_MAX - j
      BY <2>3, <2>4, <3>1
    <3> QED  BY <3>2, Numbers
  <2> QED  BY <2>5
<1> QED  BY <1>2, <1>3 DEF First_, Last_

(* What p_filetable_lookup finds.                                          *)
LEMMA Lookup ==
    ASSUME setting \in Settings, NEW p \in Procs, NEW fd
    PROVE  \/ /\ p_filetable_lookup(p, fd) = NULL
              /\ \A i \in Slots : files[p][i] # NULL => file[files[p][i]].local_fd # fd
           \/ \E i \in Slots :
                 /\ p_filetable_lookup(p, fd) = files[p][i] /\ files[p][i] # NULL
                 /\ file[files[p][i]].local_fd = fd
<1> DEFINE M == Matching(p, fd, 0)
<1>1. M \in SUBSET Slots
  BY DEF Matching, Used
<1>2. CASE M = {}
  <2>1. \A i \in Slots : i >= 0
    BY Numbers
  <2> QED  BY <1>2, <2>1 DEF Matching, Used, p_filetable_lookup
<1>3. CASE M # {}
  <2>1. First_(M) \in M
    BY <1>1, <1>3, FirstLast
  <2> QED  BY <1>3, <2>1 DEF Matching, Used, p_filetable_lookup
<1> QED  BY <1>2, <1>3

(* What put_file_on_ptable does.                                           *)
LEMMA PutFile ==
    ASSUME setting \in Settings, NEW p \in Procs, NEW f, put_file_on_ptable(p, f)
    PROVE  \/ files' = files /\ \A i \in Slots : files[p][i] # NULL
           \/ \E j \in Slots : files[p][j] = NULL /\ files' = [files EXCEPT ![p][j] = f]
<1> DEFINE S == {i \in Slots : files[p][i] = NULL}
<1>1. CASE S = {}
  BY <1>1 DEF put_file_on_ptable
<1>2. CASE S # {}
  BY <1>2, FirstLast DEF put_file_on_ptable
<1> QED  BY <1>1, <1>2

(* Sets of processes, and of table entries, are finite.                    *)
LEMMA SomeProcs ==
    /\ \A S \in SUBSET Procs : IsFiniteSet(S) /\ Cardinality(S) \in Nat
    /\ setting \in Settings => \A S \in SUBSET (Procs \X Slots) :
                                IsFiniteSet(S) /\ Cardinality(S) \in Nat
<1>1. \A S \in SUBSET Procs : IsFiniteSet(S) /\ Cardinality(S) \in Nat
  BY FileTableAssumption, FS_Subset, FS_CardinalityType
<1>2. ASSUME setting \in Settings, NEW S \in SUBSET (Procs \X Slots)
      PROVE  IsFiniteSet(S) /\ Cardinality(S) \in Nat
  <2>1. IsFiniteSet(Procs \X Slots)
    BY <1>2, Numbers, FS_Product
  <2> QED  BY <2>1, FS_Subset, FS_CardinalityType
<1> QED  BY <1>1, <1>2


-----------------------------------------------------------------------------
(* The types, in three parts.                                              *)
StructTypes ==
    /\ next_struct \in 3 .. MostStructs
    /\ live \subseteq 0 .. next_struct - 1
    /\ file \in [Files -> FileRec]
    /\ refcount \in [Files -> Int]
    /\ file_lock \in [Files -> Procs \cup {NULL}]
    /\ pos \in [Files -> 0 .. MaxPos]
    /\ vn_refcount \in [Vnodes -> Int]
TableTypes ==
    /\ open_files \in [Slots -> Files \cup {NULL}]
    /\ size \in 0 .. OPEN_MAX
    /\ next_fd \in 3 .. MostStructs
    /\ global_file_lk \in Procs \cup {NULL}
    /\ files \in [Procs -> [Slots -> Files \cup {NULL}]]
    /\ ops_lock \in [Procs -> BOOLEAN]
LocalTypes ==
    /\ pc \in [Procs -> Labels]
    /\ loc \in [Procs -> Locals]

(* The type invariant by parts: structures, tables, locals.                 *)
LEMMA SameTypes ==
    TypeOK <=> /\ StructTypes /\ TableTypes /\ LocalTypes
               /\ setting \in Settings /\ panic \in BOOLEAN
  BY DEF TypeOK, StructTypes, TableTypes, LocalTypes

(* The step of a process does not change the setting.                      *)
LEMMA SameSetting ==
    ASSUME Next \/ UNCHANGED vars
    PROVE  /\ setting' = setting /\ Slots' = Slots /\ OPEN_MAX' = OPEN_MAX
           /\ Careful' = Careful /\ Locals' = Locals
<1>1. ASSUME NEW p \in Procs, Call(p) PROVE setting' = setting
  BY <1>1 DEF Call, Panic, open, open_bad_flags, close, dup2, transfer, lseek, fork, exit
<1>2. ASSUME NEW p \in Procs, Step(p) PROVE setting' = setting
  BY <1>2
     DEF Step, Panic, get_next_fd, open_put, close_file_on_ptable, close_file_done,
         close_not_found, destroy_file, close_shared, close_load, close_store, copy_file_lock,
         copy_file_store, dup_file, transfer_over, transfer_begin, transfer_end, read_no_memory,
         lseek_lock, lseek_set, copy_lock, copy_store, fork_done, close_all_test,
         close_all_load, close_all_store, exit_done
<1>3. setting' = setting
  BY <1>1, <1>2 DEF Next, vars
<1> QED  BY <1>3 DEF Slots, OPEN_MAX, Careful, Locals



(* Every assignment to locals keeps their type.                            *)
FileOrNull == Files \cup {NULL}

(* Every assignment to locals keeps their type.                             *)
LEMMA SetLocals ==
    /\ setting \in Settings => NoLocals \in Locals
    /\ \A l \in Locals :
          /\ l.f \in FileOrNull /\ l.fd \in Fds \cup {NULL} /\ l.old \in Fds \cup {NULL}
          /\ l.i \in 0 .. OPEN_MAX /\ l.tmp \in Int /\ l.child \in Procs \cup {NULL}
          /\ l.mode \in {"", "r", "w"} /\ l.next \in {"", "close", "dup2", "exit"}
    /\ \A l \in Locals, f \in FileOrNull : [l EXCEPT !.f = f] \in Locals
    /\ \A l \in Locals, t \in Int : [l EXCEPT !.tmp = t] \in Locals
    /\ \A l \in Locals, i \in 0 .. OPEN_MAX : [l EXCEPT !.i = i] \in Locals
    /\ \A l \in Locals, q \in Procs : [l EXCEPT !.child = q] \in Locals
    /\ \A l \in Locals, n \in {"close", "dup2", "exit"} : [l EXCEPT !.next = n] \in Locals
    /\ \A l \in Locals, f \in FileOrNull, t \in Int : [l EXCEPT !.f = f, !.tmp = t] \in Locals
    /\ \A l \in Locals, i \in 0 .. OPEN_MAX, t \in Int : [l EXCEPT !.i = i, !.tmp = t] \in Locals
    /\ \A l \in Locals, i \in 0 .. OPEN_MAX, f \in FileOrNull :
          [l EXCEPT !.i = i, !.f = f] \in Locals
    /\ \A l \in Locals, i \in 0 .. OPEN_MAX :
          [l EXCEPT !.i = i, !.f = NULL, !.tmp = 0] \in Locals
    /\ \A l \in Locals, f \in FileOrNull, m \in {"r", "w"} :
          [l EXCEPT !.f = f, !.mode = m] \in Locals
    /\ \A l \in Locals, fd \in Fds : [l EXCEPT !.fd = fd, !.next = "close"] \in Locals
    /\ \A l \in Locals, fd \in Fds, old \in Fds :
          [l EXCEPT !.fd = fd, !.old = old, !.next = "dup2"] \in Locals
<1>1. setting \in Settings => NoLocals \in Locals
  BY Numbers DEF NoLocals, Locals
<1>2. \A l \in Locals :
          /\ l.f \in FileOrNull /\ l.fd \in Fds \cup {NULL} /\ l.old \in Fds \cup {NULL}
          /\ l.i \in 0 .. OPEN_MAX /\ l.tmp \in Int /\ l.child \in Procs \cup {NULL}
          /\ l.mode \in {"", "r", "w"} /\ l.next \in {"", "close", "dup2", "exit"}
  BY DEF Locals, FileOrNull
<1>3. \A l \in Locals, f \in FileOrNull : [l EXCEPT !.f = f] \in Locals
  BY DEF Locals, FileOrNull
<1>4. \A l \in Locals, t \in Int : [l EXCEPT !.tmp = t] \in Locals
  BY DEF Locals
<1>5. \A l \in Locals, i \in 0 .. OPEN_MAX : [l EXCEPT !.i = i] \in Locals
  BY DEF Locals
<1>6. \A l \in Locals, q \in Procs : [l EXCEPT !.child = q] \in Locals
  BY DEF Locals
<1>7. \A l \in Locals, n \in {"close", "dup2", "exit"} : [l EXCEPT !.next = n] \in Locals
  BY DEF Locals
<1>8. \A l \in Locals, f \in FileOrNull, t \in Int : [l EXCEPT !.f = f, !.tmp = t] \in Locals
  BY DEF Locals, FileOrNull
<1>9. \A l \in Locals, i \in 0 .. OPEN_MAX, t \in Int : [l EXCEPT !.i = i, !.tmp = t] \in Locals
  BY DEF Locals
<1>10. \A l \in Locals, i \in 0 .. OPEN_MAX, f \in FileOrNull :
          [l EXCEPT !.i = i, !.f = f] \in Locals
  BY DEF Locals, FileOrNull
<1>11. \A l \in Locals, i \in 0 .. OPEN_MAX :
          [l EXCEPT !.i = i, !.f = NULL, !.tmp = 0] \in Locals
  <2>1. 0 \in Int
    OBVIOUS
  <2>2. \A l \in Locals, i \in 0 .. OPEN_MAX, f \in FileOrNull, t \in Int :
          [l EXCEPT !.i = i, !.f = f, !.tmp = t] \in Locals
    BY DEF Locals, FileOrNull
  <2> QED  BY <2>1, <2>2 DEF FileOrNull
<1>12. \A l \in Locals, f \in FileOrNull, m \in {"r", "w"} :
          [l EXCEPT !.f = f, !.mode = m] \in Locals
  BY DEF Locals, FileOrNull
<1>13. \A l \in Locals, fd \in Fds : [l EXCEPT !.fd = fd, !.next = "close"] \in Locals
  BY DEF Locals
<1>14. \A l \in Locals, fd \in Fds, old \in Fds :
          [l EXCEPT !.fd = fd, !.old = old, !.next = "dup2"] \in Locals
  BY DEF Locals
<1> QED  BY <1>1, <1>2, <1>3, <1>4, <1>5, <1>6, <1>7, <1>8, <1>9, <1>10, <1>11, <1>12, <1>13,
            <1>14

(* A step keeps the types of the locals.                                   *)
LEMMA LocalStep ==
    ASSUME BaseInv, NEW p \in Procs, Call(p) \/ Step(p)
    PROVE  LocalTypes'
<1>1. /\ LocalTypes /\ StructTypes /\ TableTypes /\ setting \in Settings
      /\ Locals' = Locals
  BY SameTypes, SameSetting DEF BaseInv, GlobalTableSound, Next
<1>2. ArgInv /\ CountInv
  BY DEF BaseInv
<1>6. PlaceInv /\ FdInv
  BY DEF BaseInv
<1>3. next_struct < setting.structs => next_struct \in FileOrNull
  BY <1>1, Bounds, Numbers DEF StructTypes, FileOrNull
<1>4. loc[p].i \in Slots => [loc[p] EXCEPT !.i = @ + 1, !.f = NULL, !.tmp = 0] \in Locals
  <2> DEFINE k == loc[p].i + 1
  <2>1. loc[p].i \in Slots => k \in 0 .. OPEN_MAX
    BY <1>1, Numbers
  <2> HIDE DEF k
  <2>2. loc[p].i \in Slots => [loc[p] EXCEPT !.i = k, !.f = NULL, !.tmp = 0] \in Locals
    BY <1>1, <2>1, SetLocals DEF LocalTypes
  <2> QED  BY <2>2 DEF k
<1>5. pc[p] = "rw_lock" /\ file[loc[p].f].std = -1 => pos[file[loc[p].f].seek] \in Int
  <2>1. ASSUME pc[p] = "rw_lock", file[loc[p].f].std = -1
        PROVE  pos[file[loc[p].f].seek] \in 0 .. MaxPos
    <3>1. loc[p].f \in 0 .. next_struct - 1
      BY <1>6, <2>1 DEF PlaceInv, Public, UseLabels
    <3> QED  BY <1>1, <1>6, <2>1, <3>1 DEF FdInv, StructTypes
  <2> QED  BY <2>1, FileTableAssumption
<1>10. ASSUME NEW v \in Vnodes, NEW can \in AccessModes, open(p, v, can) PROVE LocalTypes'
  <2>1. next_struct \in FileOrNull
    <3>1. next_struct < setting.structs
      BY <1>10, <1>1, SomeProcs, Bounds DEF open, MoreStructs, StructTypes
    <3> QED  BY <3>1, <1>3
  <2>2. [NoLocals EXCEPT !.f = next_struct] \in Locals
    BY <1>1, <2>1, SetLocals
  <2> QED
    BY <1>10, <2>2, <1>1
       DEF open, Enter, At, Goto, VOP_INCREF, LocalTypes, Labels
<1>11. CASE open_bad_flags(p)
  BY <1>11, <1>1, <1>2, <1>3, Numbers, SetLocals
     DEF open_bad_flags, Enter, At, LocalTypes, Labels
<1>12. ASSUME NEW fd \in CloseFds, close(p, fd) PROVE LocalTypes'
  <2>8. [NoLocals EXCEPT !.fd = fd, !.next = "close"] \in Locals
    BY FileTableAssumption, <1>1, Numbers, SetLocals
  <2> QED
    BY <1>12, <2>8, <1>1, SetLocals, ZenonT(40)
       DEF close, Enter, At, Goto, Panic, LocalTypes, Labels
<1>13. ASSUME NEW d \in DupFds, dup2(p, d[1], d[2]) PROVE LocalTypes'
  <2>1. d[1] \in Fds /\ d[2] \in Fds
    BY <1>13, FileTableAssumption
  <2>2. [NoLocals EXCEPT !.fd = d[2], !.old = d[1], !.next = "dup2"] \in Locals
    BY <1>1, <2>1, SetLocals
  <2> DEFINE l == [NoLocals EXCEPT !.fd = d[2], !.old = d[1], !.next = "dup2"]
  <2>3. \/ pc' = pc /\ loc' = loc
        \/ \E b \in {"dup_lock", "cl_scan"} : Goto(p, b, l)
    BY <1>13 DEF dup2, Panic
  <2> HIDE DEF l
  <2> QED  BY <1>1, <2>2, <2>3 DEF Goto, LocalTypes, Labels, l
<1>14. ASSUME NEW fd \in IoFds, NEW mode \in {"r", "w"}, transfer(p, fd, mode) PROVE LocalTypes'
  <2>1. p_filetable_lookup(p, fd) # NULL => p_filetable_lookup(p, fd) \in Files
    BY Lookup, <1>1 DEF TableTypes
  <2>2. p_filetable_lookup(p, fd) \in Files =>
          [NoLocals EXCEPT !.f = p_filetable_lookup(p, fd), !.mode = mode] \in Locals
    BY <1>1, SetLocals DEF FileOrNull
  <2> DEFINE l == [NoLocals EXCEPT !.f = p_filetable_lookup(p, fd), !.mode = mode]
  <2>3. \/ pc' = pc /\ loc' = loc
        \/ p_filetable_lookup(p, fd) # NULL /\ Goto(p, "rw_lock", l)
    BY <1>14 DEF transfer, Panic
  <2>4. p_filetable_lookup(p, fd) # NULL => l \in Locals
    BY <2>1, <2>2
  <2> HIDE DEF l
  <2> QED  BY <1>1, <2>3, <2>4 DEF Goto, LocalTypes, Labels
<1>15. ASSUME NEW fd \in IoFds, lseek(p, fd) PROVE LocalTypes'
  <2>1. p_filetable_lookup(p, fd) # NULL => p_filetable_lookup(p, fd) \in Files
    BY Lookup, <1>1 DEF TableTypes
  <2>2. p_filetable_lookup(p, fd) \in Files =>
          [NoLocals EXCEPT !.f = p_filetable_lookup(p, fd)] \in Locals
    BY <1>1, SetLocals DEF FileOrNull
  <2> QED
    BY <1>15, <2>1, <2>2, <1>1, SetLocals, ZenonT(40)
       DEF lseek, Enter, At, Goto, Panic, LocalTypes, Labels
<1>16. ASSUME NEW q \in Procs, fork(p, q) PROVE LocalTypes'
  BY <1>16, <1>1, <1>2, <1>3, Numbers, SetLocals
     DEF fork, Enter, At, LocalTypes, Labels
<1>17. CASE exit(p)
  BY <1>17, <1>1, <1>2, <1>3, Numbers, SetLocals
     DEF exit, Enter, At, Goto, LocalTypes, Labels
<1>18. CASE get_next_fd(p)
  BY <1>18, <1>1, <1>2, <1>3, Numbers, SetLocals
     DEF get_next_fd, At, Goto, LocalTypes, Labels
<1>19. CASE open_put(p)
  BY <1>19, <1>1, <1>2, <1>3, Numbers, SetLocals
     DEF open_put, At, Goto, Return, put_file_on_gtable, put_file_on_ptable, LocalTypes, Labels
<1>20. CASE close_file_on_ptable(p)
  <2> DEFINE j == First_(Matching(p, loc[p].fd, loc[p].i))
  <2>1. Matching(p, loc[p].fd, loc[p].i) # {} => j \in Slots
    BY <1>1, FirstLast DEF Matching, Used
  <2>2. j \in Slots => j \in 0 .. OPEN_MAX /\ j + 1 \in 0 .. OPEN_MAX
    BY <1>1, Numbers
  <2>3. loc[p] \in Locals
    BY <1>1 DEF LocalTypes
  <2>4. j \in Slots => [loc[p] EXCEPT !.i = j] \in Locals
    BY <2>2, <2>3, SetLocals
  <2>5. j \in Slots => [loc[p] EXCEPT !.i = j + 1] \in Locals
    <3> DEFINE k == j + 1
    <3>1. j \in Slots => k \in 0 .. OPEN_MAX
      BY <2>2
    <3> HIDE DEF k
    <3>2. j \in Slots => [loc[p] EXCEPT !.i = k] \in Locals
      BY <3>1, <2>3, SetLocals
    <3> QED  BY <3>2 DEF k
  <2> QED
    BY <1>20, <2>1, <2>4, <2>5, <1>1
       DEF close_file_on_ptable, At, Goto, Panic, LocalTypes, Labels
<1>21. CASE close_file_done(p)
  <2>9. 0 \in 0 .. OPEN_MAX
    BY <1>1, Numbers
  <2>0. NoLocals \in Locals
    BY <1>1, SetLocals
  <2>1. [loc[p] EXCEPT !.i = 0] \in Locals
    BY <1>1, <2>9, SetLocals DEF LocalTypes
  <2> QED
    BY <1>21, <2>0, <2>1, <1>1
       DEF close_file_done, At, Goto, Return, LocalTypes, Labels
<1>22. CASE close_not_found(p)
  <2>1. loc[p].i \in Slots
    BY <1>22, <1>2 DEF ArgInv, ArgOf, GlobalLabels, close_not_found, At
  <2> QED
    BY <1>22, <2>1, <1>1, <1>4
       DEF close_not_found, At, Goto, SlotClosed, LocalTypes, Labels
<1>23. CASE destroy_file(p)
  <2>1. loc[p].i \in Slots
    BY <1>23, <1>2 DEF ArgInv, ArgOf, GlobalLabels, destroy_file, At
  <2> QED
    BY <1>23, <2>1, <1>1, <1>4
       DEF destroy_file, At, Goto, SlotClosed, Panic, VOP_DECREF, LocalTypes, Labels
<1>24. CASE close_shared(p)
  <2> DEFINE S == GlobalSlot(file[files[p][loc[p].i]].global_fd)
             g == open_files[Last_(S)]
  <2>1. S # {} => g \in FileOrNull
    BY <1>1, FirstLast DEF GlobalSlot, TableTypes, FileOrNull
  <2>2. S # {} => [loc[p] EXCEPT !.f = g] \in Locals
    BY <1>1, <2>1, SetLocals DEF LocalTypes
  <2> QED
    BY <1>24, <2>2, <1>1
       DEF close_shared, At, Goto, LocalTypes, Labels
<1>25. CASE close_load(p)
  <2>1. refcount[loc[p].f] \in Int
    BY <1>25, <1>1, <1>2
       DEF StructTypes, TableTypes, ArgInv, ArgOf, UseLabels, GlobalLabels, close_load, At
  <2>2. [loc[p] EXCEPT !.tmp = refcount[loc[p].f]] \in Locals
    BY <1>1, <2>1, SetLocals DEF LocalTypes
  <2> QED
    BY <1>25, <2>2, <1>1
       DEF close_load, At, Goto, LocalTypes, Labels
<1>26. CASE close_store(p)
  <2>1. loc[p].i \in Slots
    BY <1>26, <1>2 DEF ArgInv, ArgOf, GlobalLabels, close_store, At
  <2> QED
    BY <1>26, <2>1, <1>1, <1>4
       DEF close_store, At, Goto, SlotClosed, LocalTypes, Labels
<1>27. CASE copy_file_lock(p)
  <2> DEFINE f == p_filetable_lookup(p, loc[p].old)
  <2>1. f # NULL => f \in FileOrNull /\ refcount[f] \in Int
    BY Lookup, <1>1 DEF TableTypes, StructTypes, FileOrNull
  <2>2. f # NULL => [loc[p] EXCEPT !.f = f, !.tmp = refcount[f]] \in Locals
    BY <1>1, <2>1, SetLocals DEF LocalTypes
  <2> QED
    BY <1>27, <2>2, <1>1
       DEF copy_file_lock, At, Goto, Panic, LocalTypes, Labels
<1>28. CASE copy_file_store(p)
  <2>1. 0 \in Int
    OBVIOUS
  <2>2. [loc[p] EXCEPT !.tmp = 0] \in Locals
    BY <1>1, <2>1, SetLocals DEF LocalTypes
  <2> QED
    BY <1>28, <2>2, <1>1
       DEF copy_file_store, At, Goto, LocalTypes, Labels
<1>29. CASE dup_file(p)
  BY <1>29, <1>1, <1>2, <1>3, Numbers, SetLocals
     DEF dup_file, At, Goto, Return, VOP_INCREF, put_file_on_ptable, LocalTypes, Labels
<1>30. CASE transfer_over(p)
  BY <1>30, <1>1, <1>2, <1>3, Numbers, SetLocals
     DEF transfer_over, At, Goto, Return, LocalTypes, Labels
<1>31. CASE transfer_begin(p)
  <2> DEFINE f == loc[p].f
             t == IF file[f].std = -1 THEN pos[file[f].seek] ELSE 0
  <2>1. t \in Int
    BY <1>31, <1>5 DEF transfer_begin, At
  <2>2. [loc[p] EXCEPT !.tmp = t] \in Locals
    BY <1>1, <2>1, SetLocals DEF LocalTypes
  <2> QED
    BY <1>31, <2>2, <1>1
       DEF transfer_begin, At, Goto, Panic, LocalTypes, Labels
<1>32. CASE transfer_end(p)
  BY <1>32, <1>1, <1>2, <1>3, Numbers, SetLocals
     DEF transfer_end, At, Goto, LocalTypes, Labels
<1>33. CASE read_no_memory(p)
  BY <1>33, <1>1, <1>2, <1>3, Numbers, SetLocals
     DEF read_no_memory, At, Goto, LocalTypes, Labels
<1>34. CASE lseek_lock(p)
  <2>9. 0 .. MaxPos \subseteq Int
    BY FileTableAssumption
  <2>0. loc[p] \in Locals /\ NoLocals \in Locals
    BY <1>1, SetLocals DEF LocalTypes
  <2>1. \A t \in 0 .. MaxPos : [loc[p] EXCEPT !.tmp = t] \in Locals
    BY <2>0, <2>9, SetLocals
  <2> QED
    BY <1>34, <2>0, <2>1, <1>1
       DEF lseek_lock, At, Goto, Panic, LocalTypes, Labels
<1>35. CASE lseek_set(p)
  BY <1>35, <1>1, <1>2, <1>3, Numbers, SetLocals
     DEF lseek_set, At, Goto, LocalTypes, Labels
<1>36. CASE copy_lock(p)
  <2> DEFINE j == First_(Used(p, loc[p].i))
             t == refcount[files[p][j]]
  <2>1. Used(p, loc[p].i) # {} => j \in Slots /\ files[p][j] # NULL
    BY <1>1, FirstLast DEF Used
  <2>2. Used(p, loc[p].i) # {} => j \in 0 .. OPEN_MAX /\ t \in Int
    BY <1>1, <2>1, Numbers DEF TableTypes, StructTypes
  <2>3. Used(p, loc[p].i) # {} => [loc[p] EXCEPT !.i = j, !.tmp = t] \in Locals
    BY <1>1, <2>2, SetLocals DEF LocalTypes
  <2> QED
    BY <1>36, <2>3, <1>1, SMTT(30)
       DEF copy_lock, At, Goto, Panic, VOP_INCREF, LocalTypes, Labels
<1>37. CASE copy_store(p)
  <2> DEFINE k == loc[p].i + 1
  <2>1. loc[p].i \in Slots
    BY <1>37, <1>2 DEF ArgInv, ArgOf, GlobalLabels, copy_store, At
  <2>3. k \in 0 .. OPEN_MAX
    BY <1>1, <2>1, Numbers
  <2>4. 0 \in Int
    OBVIOUS
  <2> HIDE DEF k
  <2>2. [loc[p] EXCEPT !.i = k, !.tmp = 0] \in Locals
    BY <1>1, <2>3, <2>4, SetLocals DEF LocalTypes
  <2> QED
    BY <1>37, <2>2, <1>1
       DEF copy_store, At, Goto, LocalTypes, Labels, k
<1>38. CASE fork_done(p)
  BY <1>38, <1>1, <1>2, <1>3, Numbers, SetLocals
     DEF fork_done, At, LocalTypes, Labels
<1>39. CASE close_all_test(p)
  <2> DEFINE j == NextUsed(p)
             f == files[p][j]
  <2>1. ToClose(p) # {} => j \in Slots /\ f # NULL
    BY <1>1, FirstLast DEF ToClose, NextUsed, Used
  <2>2. ToClose(p) # {} => j \in 0 .. OPEN_MAX /\ f \in FileOrNull
    BY <1>1, <2>1, Numbers DEF TableTypes, FileOrNull
  <2>3. ToClose(p) # {} => /\ [loc[p] EXCEPT !.i = j] \in Locals
                          /\ [loc[p] EXCEPT !.i = j, !.f = f] \in Locals
    BY <1>1, <2>2, SetLocals DEF LocalTypes
  <2> QED
    BY <1>39, <2>3, <1>1
       DEF close_all_test, At, Goto, Panic, LocalTypes, Labels
<1>40. CASE close_all_load(p)
  <2>1. refcount[loc[p].f] \in Int
    BY <1>40, <1>1, <1>2
       DEF StructTypes, TableTypes, ArgInv, ArgOf, UseLabels, GlobalLabels, close_all_load, At
  <2>2. [loc[p] EXCEPT !.tmp = refcount[loc[p].f]] \in Locals
    BY <1>1, <2>1, SetLocals DEF LocalTypes
  <2> QED
    BY <1>40, <2>2, <1>1
       DEF close_all_load, At, Goto, VOP_DECREF, LocalTypes, Labels
<1>41. CASE close_all_store(p)
  <2>1. loc[p].i \in Slots
    BY <1>41, <1>2 DEF ArgInv, ArgOf, GlobalLabels, close_all_store, At
  <2> QED
    BY <1>41, <2>1, <1>1, <1>4
       DEF close_all_store, At, Goto, SlotClosed, LocalTypes, Labels
<1>42. CASE exit_done(p)
  BY <1>42, <1>1, <1>2, <1>3, Numbers, SetLocals
     DEF exit_done, At, Goto, LocalTypes, Labels
<1> QED
  BY <1>10, <1>11, <1>12, <1>13, <1>14, <1>15, <1>16, <1>17, <1>18, <1>19, <1>20, <1>21, <1>22,
     <1>23, <1>24, <1>25, <1>26, <1>27, <1>28, <1>29, <1>30, <1>31, <1>32, <1>33, <1>34, <1>35,
     <1>36, <1>37, <1>38, <1>39, <1>40, <1>41, <1>42
     DEF Call, Step

(* The structures that the next step may allocate.                         *)
LEMMA NewStruct ==
    ASSUME BaseInv, NEW p \in Procs
    PROVE  /\ MoreStructs => next_struct \in Files /\ next_struct + 1 \in 3 .. MostStructs
           /\ pc[p] = "dup_copy" => next_struct \in Files /\ next_struct + 1 \in 3 .. MostStructs
           /\ pc[p] = "op_fd" => next_fd + 1 \in 3 .. MostStructs /\ next_fd \in Fds
           /\ next_fd \in 3 .. MostStructs
<1>1. /\ setting \in Settings /\ next_struct \in 3 .. MostStructs
      /\ next_fd \in 3 .. MostStructs
  BY SameTypes DEF BaseInv, GlobalTableSound, TableTypes, StructTypes
<1>2. CountInv /\ ArgInv
  BY DEF BaseInv
<1>3. /\ Duping \in SUBSET Procs /\ Numbering \in SUBSET Procs
      /\ Cardinality(Duping) \in Nat /\ Cardinality(Numbering) \in Nat
  BY SomeProcs DEF Numbering, Duping
<1>4. /\ p \in Numbering => Cardinality(Numbering) >= 1
      /\ p \in Duping => Cardinality(Duping) >= 1
  <2>1. \A S \in SUBSET Procs : p \in S => Cardinality(S) # 0
    BY SomeProcs, FS_EmptySet
  <2> QED  BY <1>3, <2>1
<1>5. setting.structs \in Nat /\ setting.structs <= MostStructs /\ MostStructs \in Nat
  BY <1>1, Bounds
<1>6. MoreStructs => next_struct < MostStructs
  BY <1>1, <1>3, <1>5 DEF MoreStructs, Duping
<1>7. pc[p] = "dup_copy" => next_struct < MostStructs
  <2>1. pc[p] = "dup_copy" => p \in Duping
    BY <1>2 DEF ArgInv, ArgOf, Duping
  <2> QED  BY <2>1, <1>1, <1>2, <1>3, <1>4, <1>5 DEF CountInv
<1>8. pc[p] = "op_fd" => next_fd < MostStructs
  BY <1>1, <1>2, <1>3, <1>4, <1>5 DEF CountInv, Numbering
<1> QED  BY <1>1, <1>5, <1>6, <1>7, <1>8, Numbers


-----------------------------------------------------------------------------
(* What each step does, in a form without searches: the slot that a search *)
(* found is a parameter.  A step of p that is no panic is one of these.    *)

Moves(p, from, to) ==
    /\ ~panic /\ panic' = panic /\ setting' = setting
    /\ pc[p] = from /\ pc'[p] = to
    /\ \A q \in Procs \ {p} : pc'[q] = pc[q] /\ loc'[q] = loc[q]
Args(p) == loc'[p].fd = loc[p].fd /\ loc'[p].old = loc[p].old /\ loc'[p].next = loc[p].next
Clear(p) == loc'[p].f = NULL /\ loc'[p].child = NULL /\ loc'[p].next = ""
In(p, j) == j \in Slots /\ files[p][j] # NULL
Entering(p) == ~ops_lock[p] /\ ops_lock' = [ops_lock EXCEPT ![p] = TRUE]
Leaving(p) == ops_lock' = [ops_lock EXCEPT ![p] = FALSE]
Locking(p, f) == f \in Files /\ file_lock[f] = NULL /\ file_lock' = [file_lock EXCEPT ![f] = p]
Unlocking(f) == f \in Files /\ file_lock' = [file_lock EXCEPT ![f] = NULL]
Listing(f) == \/ UNCHANGED <<open_files, size>>
              \/ \E i \in Slots : /\ open_files[i] = NULL /\ size' = size + 1
                                  /\ open_files' = [open_files EXCEPT ![i] = f]
Putting(p, f) == \/ UNCHANGED files /\ \A i \in Slots : files[p][i] # NULL
                 \/ \E j \in Slots : /\ files[p][j] = NULL
                                     /\ files' = [files EXCEPT ![p][j] = f]
Back(p, from) == /\ In(p, loc[p].i) /\ Args(p) /\ loc'[p].i = loc[p].i + 1
                 /\ \/ loc[p].next = "exit" /\ Moves(p, from, "ca_scan")
                    \/ loc[p].next # "exit" /\ Moves(p, from, "cl_scan")
                 /\ files' = [files EXCEPT ![p][loc[p].i] = NULL]
SameStructs == UNCHANGED <<next_struct, live, file, refcount, file_lock, pos, vn_refcount>>
SameGlobal == UNCHANGED <<open_files, size, next_fd, global_file_lk>>
OthersKeep(f) == /\ file' \in [Files -> FileRec]
                 /\ \A g \in Files \ {f} : file'[g] = file[g]

open_(p, v, can) ==
    /\ Moves(p, "user", "op_fd") /\ Entering(p)
    /\ MoreStructs /\ (Careful => RoomFor(p))
    /\ loc'[p].f = next_struct /\ loc'[p].next = ""
    /\ next_struct \in Files /\ next_struct' = next_struct + 1
    /\ live' = live \cup {next_struct}
    /\ OthersKeep(next_struct)
    /\ LET g == file'[next_struct] IN
       /\ g.vnode = v /\ g.global_fd = -1 /\ g.local_fd = -1
       /\ g.is_dupe = FALSE /\ g.std = -1 /\ g.seek = next_struct
    /\ VOP_INCREF(v)
    /\ SameGlobal /\ UNCHANGED <<refcount, file_lock, pos, files>>
open_bad_flags_(p) ==
    /\ ~Careful /\ pc[p] = "user" /\ Entering(p)
    /\ SameStructs /\ SameGlobal /\ UNCHANGED <<files, pc, loc, setting, panic>>
close_(p, fd, j) ==
    /\ Moves(p, "user", "cl_scan") /\ Entering(p)
    /\ In(p, j) /\ file[files[p][j]].local_fd = fd /\ fd \in Fds
    /\ file[files[p][j]].is_dupe \/ file[files[p][j]].std = -1
    /\ loc'[p].fd = fd /\ loc'[p].next = "close"
    /\ SameStructs /\ SameGlobal /\ UNCHANGED files
dup2_(p, d, j, b) ==
    /\ b \in {"dup_lock", "cl_scan"} /\ Moves(p, "user", b) /\ Entering(p)
    /\ MoreStructs /\ (Careful => MayDup(p, d[1], d[2]))
    /\ d[1] \in Fds /\ d[2] \in Fds /\ d[1] # d[2]
    /\ In(p, j) /\ file[files[p][j]].local_fd = d[1]
    /\ files[p][j] = p_filetable_lookup(p, d[1])
    /\ loc'[p].fd = d[2] /\ loc'[p].old = d[1] /\ loc'[p].next = "dup2"
    /\ SameStructs /\ SameGlobal /\ UNCHANGED files
transfer_(p, mode, j) ==
    /\ Moves(p, "user", "rw_lock") /\ Entering(p)
    /\ In(p, j) /\ loc'[p].f = files[p][j] /\ loc'[p].mode = mode /\ loc'[p].next = ""
    /\ Careful => file[files[p][j]].std \notin
                     (IF mode = "r" THEN {STDOUT, STDERR} ELSE {STDIN})
    /\ SameStructs /\ SameGlobal /\ UNCHANGED files
lseek_(p, j) ==
    /\ Moves(p, "user", "ls_lock") /\ ~ops_lock[p]
    /\ In(p, j) /\ loc'[p].f = files[p][j] /\ loc'[p].next = ""
    /\ SameStructs /\ SameGlobal /\ UNCHANGED <<files, ops_lock>>
fork_(p, q) ==
    /\ ~panic /\ panic' = panic /\ setting' = setting /\ Entering(p)
    /\ p # q /\ pc[p] = "user" /\ pc[q] = "none" /\ (Careful => MayFork(p))
    /\ pc'[p] = "fk_scan" /\ pc'[q] = "new" /\ \A r \in Procs \ {p, q} : pc'[r] = pc[r]
    /\ loc'[p].child = q /\ loc'[p].i = 0 /\ loc'[p].next = ""
    /\ \A r \in Procs \ {p} : loc'[r] = loc[r]
    /\ files' = [files EXCEPT ![q] = FreshTable]
    /\ SameStructs /\ SameGlobal
exit_(p) ==
    /\ Moves(p, "user", "ca_scan") /\ ~ops_lock[p]
    /\ loc'[p].next = "exit"
    /\ SameStructs /\ SameGlobal /\ UNCHANGED <<files, ops_lock>>
get_next_fd_(p) ==
    /\ Moves(p, "op_fd", "op_put") /\ global_file_lk = NULL
    /\ loc'[p] = loc[p] /\ loc[p].f \in Files
    /\ next_fd \in Fds /\ next_fd' = next_fd + 1
    /\ OthersKeep(loc[p].f)
    /\ LET g == file'[loc[p].f]
           h == file[loc[p].f] IN
       /\ g.vnode = h.vnode /\ g.global_fd = next_fd /\ g.local_fd = next_fd
       /\ g.is_dupe = h.is_dupe /\ g.std = h.std /\ g.seek = h.seek /\ g.can = h.can
    /\ UNCHANGED <<next_struct, live, refcount, file_lock, pos, vn_refcount, open_files, size,
                   global_file_lk, files, ops_lock>>
open_put_(p) ==
    /\ Moves(p, "op_put", "user") /\ Leaving(p) /\ Clear(p)
    /\ loc[p].f \in Files /\ Listing(loc[p].f) /\ Putting(p, loc[p].f)
    /\ global_file_lk = NULL
    /\ SameStructs /\ UNCHANGED <<next_fd, global_file_lk>>
close_dupe_(p, j) ==
    /\ Moves(p, "cl_scan", "cl_scan") /\ Args(p)
    /\ In(p, j) /\ file[files[p][j]].is_dupe /\ file[files[p][j]].local_fd = loc[p].fd
    /\ file_lock[files[p][j]] = NULL
    /\ live' = live \ {files[p][j]}
    /\ files' = [files EXCEPT ![p][j] = NULL]
    /\ SameGlobal /\ UNCHANGED <<next_struct, file, refcount, file_lock, pos, vn_refcount,
                                 ops_lock>>
close_file_(p, j) ==
    /\ Moves(p, "cl_scan", "cg_find") /\ Args(p) /\ loc'[p].i = j
    /\ In(p, j) /\ ~file[files[p][j]].is_dupe /\ file[files[p][j]].local_fd = loc[p].fd
    /\ SameStructs /\ SameGlobal /\ UNCHANGED <<files, ops_lock>>
close_return_(p) ==
    /\ Moves(p, "cl_scan", "user") /\ Leaving(p) /\ Clear(p)
    /\ SameStructs /\ SameGlobal /\ UNCHANGED files
close_dup_(p) ==
    /\ Moves(p, "cl_scan", "dup_lock") /\ Args(p) /\ loc[p].next = "dup2"
    /\ SameStructs /\ SameGlobal /\ UNCHANGED <<files, ops_lock>>
close_not_found_(p) ==
    /\ Back(p, "cg_find") /\ global_file_lk = NULL
    /\ SameStructs /\ SameGlobal /\ UNCHANGED ops_lock
destroy_file_(p, i) ==
    /\ Back(p, "cg_find") /\ global_file_lk = NULL
    /\ i \in Slots /\ open_files[i] \in Files /\ refcount[open_files[i]] = 1
    /\ file[open_files[i]].global_fd = file[files[p][loc[p].i]].global_fd
    /\ file[open_files[i]].vnode \in Vnodes /\ file_lock[open_files[i]] = NULL
    /\ open_files' = [open_files EXCEPT ![i] = NULL] /\ size' = size - 1
    /\ VOP_DECREF(file[open_files[i]].vnode)
    /\ live' = live \ {open_files[i]}
    /\ UNCHANGED <<next_struct, file, refcount, file_lock, pos, next_fd, global_file_lk,
                   ops_lock>>
close_shared_(p, i) ==
    /\ Moves(p, "cg_find", "cg_load") /\ Args(p) /\ loc'[p].i = loc[p].i
    /\ i \in Slots /\ open_files[i] \in Files /\ refcount[open_files[i]] # 1
    /\ file[open_files[i]].global_fd = file[files[p][loc[p].i]].global_fd
    /\ loc'[p].f = open_files[i]
    /\ global_file_lk = NULL /\ global_file_lk' = p
    /\ SameStructs /\ UNCHANGED <<open_files, size, next_fd, files, ops_lock>>
close_load_(p) ==
    /\ Moves(p, "cg_load", "cg_store") /\ Args(p)
    /\ loc'[p].i = loc[p].i /\ loc'[p].f = loc[p].f /\ loc'[p].tmp = refcount[loc[p].f]
    /\ SameStructs /\ SameGlobal /\ UNCHANGED <<files, ops_lock>>
close_store_(p) ==
    /\ Back(p, "cg_store") /\ loc[p].f \in Files /\ global_file_lk' = NULL
    /\ refcount' = [refcount EXCEPT ![loc[p].f] = loc[p].tmp - 1]
    /\ UNCHANGED <<next_struct, live, file, file_lock, pos, vn_refcount, open_files, size,
                   next_fd, ops_lock>>
copy_file_lock_(p, j) ==
    /\ Moves(p, "dup_lock", "dup_store") /\ Args(p)
    /\ In(p, j) /\ file[files[p][j]].local_fd = loc[p].old
    /\ files[p][j] = p_filetable_lookup(p, loc[p].old) /\ Locking(p, files[p][j])
    /\ loc'[p].f = files[p][j] /\ loc'[p].tmp = refcount[files[p][j]]
    /\ SameGlobal /\ UNCHANGED <<next_struct, live, file, refcount, pos, vn_refcount, files,
                                 ops_lock>>
copy_file_store_(p) ==
    /\ Moves(p, "dup_store", "dup_copy") /\ Args(p)
    /\ loc'[p].f = loc[p].f /\ loc[p].f \in Files
    /\ refcount' = [refcount EXCEPT ![loc[p].f] = loc[p].tmp + 1]
    /\ SameGlobal /\ UNCHANGED <<next_struct, live, file, file_lock, pos, vn_refcount, files,
                                 ops_lock>>
dup_file_(p) ==
    /\ Moves(p, "dup_copy", "user") /\ Leaving(p) /\ Clear(p)
    /\ next_struct \in Files /\ next_struct' = next_struct + 1
    /\ live' = live \cup {next_struct}
    /\ OthersKeep(next_struct)
    /\ LET g == file'[next_struct]
           h == file[loc[p].f] IN
       /\ g.vnode = h.vnode /\ g.global_fd = h.global_fd /\ g.local_fd = loc[p].fd
       /\ g.is_dupe = TRUE /\ g.std = h.std /\ g.seek = h.seek /\ g.can = h.can
    /\ refcount' = [refcount EXCEPT ![next_struct] = refcount[loc[p].f]]
    /\ VOP_INCREF(file[loc[p].f].vnode)
    /\ Unlocking(loc[p].f) /\ Putting(p, next_struct)
    /\ SameGlobal /\ UNCHANGED pos
transfer_over_(p) ==
    /\ Moves(p, "rw_lock", "user") /\ Leaving(p) /\ Clear(p)
    /\ SameStructs /\ SameGlobal /\ UNCHANGED files
transfer_begin_(p) ==
    /\ Moves(p, "rw_lock", "rw_io") /\ Leaving(p) /\ Args(p)
    /\ Locking(p, loc[p].f) /\ loc'[p].f = loc[p].f /\ loc'[p].tmp \in 0 .. MaxPos
    /\ SameGlobal /\ UNCHANGED <<next_struct, live, file, refcount, pos, vn_refcount, files>>
transfer_end_(p) ==
    /\ Moves(p, "rw_io", "user") /\ Clear(p)
    /\ Unlocking(loc[p].f) /\ pos' \in [Files -> 0 .. MaxPos]
    /\ SameGlobal /\ UNCHANGED <<next_struct, live, file, refcount, vn_refcount, files,
                                 ops_lock>>
read_no_memory_(p) ==
    /\ Moves(p, "rw_io", "user") /\ Clear(p) /\ ~Careful
    /\ SameStructs /\ SameGlobal /\ UNCHANGED <<files, ops_lock>>
lseek_over_(p) ==
    /\ Moves(p, "ls_lock", "user") /\ Clear(p)
    /\ SameStructs /\ SameGlobal /\ UNCHANGED <<files, ops_lock>>
lseek_lock_(p) ==
    /\ Moves(p, "ls_lock", "ls_set") /\ Args(p)
    /\ Locking(p, loc[p].f) /\ loc'[p].f = loc[p].f /\ loc'[p].tmp \in 0 .. MaxPos
    /\ file[loc[p].f].std = -1
    /\ SameGlobal /\ UNCHANGED <<next_struct, live, file, refcount, pos, vn_refcount, files,
                                 ops_lock>>
lseek_set_(p) ==
    /\ Moves(p, "ls_set", "user") /\ Clear(p)
    /\ Unlocking(loc[p].f) /\ pos' \in [Files -> 0 .. MaxPos]
    /\ SameGlobal /\ UNCHANGED <<next_struct, live, file, refcount, vn_refcount, files,
                                 ops_lock>>
copy_lock_(p, j) ==
    /\ Moves(p, "fk_scan", "fk_store") /\ Args(p) /\ loc'[p].child = loc[p].child
    /\ In(p, j) /\ j >= loc[p].i /\ Locking(p, files[p][j])
    /\ \A k \in Slots : k >= loc[p].i /\ k < j => files[p][k] = NULL
    /\ loc'[p].i = j /\ loc'[p].tmp = refcount[files[p][j]]
    /\ VOP_INCREF(file[files[p][j]].vnode)
    /\ SameGlobal /\ UNCHANGED <<next_struct, live, file, refcount, pos, files, ops_lock>>
copy_store_(p) ==
    /\ Moves(p, "fk_store", "fk_scan") /\ Args(p) /\ loc'[p].child = loc[p].child
    /\ In(p, loc[p].i) /\ loc'[p].i = loc[p].i + 1 /\ loc[p].child \in Procs
    /\ Unlocking(files[p][loc[p].i])
    /\ refcount' = [refcount EXCEPT ![files[p][loc[p].i]] = loc[p].tmp + 1]
    /\ files' = [files EXCEPT ![loc[p].child][loc[p].i] = files[p][loc[p].i]]
    /\ SameGlobal /\ UNCHANGED <<next_struct, live, file, pos, vn_refcount, ops_lock>>
fork_done_(p, b) ==
    /\ ~panic /\ panic' = panic /\ setting' = setting /\ Leaving(p)
    /\ b \in {"user", "lost"} /\ (Careful => b = "user")
    /\ pc[p] = "fk_scan" /\ pc'[p] = "user" /\ loc[p].child \in Procs \ {p}
    /\ pc'[loc[p].child] = b /\ \A q \in Procs \ {p, loc[p].child} : pc'[q] = pc[q]
    /\ Clear(p) /\ \A q \in Procs \ {p} : loc'[q] = loc[q]
    /\ SameStructs /\ SameGlobal /\ UNCHANGED files
exit_shared_(p, j) ==
    /\ Moves(p, "ca_scan", "ca_load") /\ Args(p)
    /\ In(p, j) /\ loc'[p].i = j /\ loc'[p].f = files[p][j]
    /\ file[files[p][j]].std = -1 /\ Locking(p, files[p][j])
    /\ refcount[files[p][j]] > 1
    /\ SameGlobal /\ UNCHANGED <<next_struct, live, file, refcount, pos, vn_refcount, files,
                                 ops_lock>>
exit_last_(p, j) ==
    /\ Moves(p, "ca_scan", "cg_find") /\ Args(p)
    /\ In(p, j) /\ loc'[p].i = j
    /\ file[files[p][j]].std = -1 /\ ~(refcount[files[p][j]] > 1)
    /\ SameStructs /\ SameGlobal /\ UNCHANGED <<files, ops_lock>>
close_all_load_(p) ==
    /\ Moves(p, "ca_load", "ca_store") /\ Args(p)
    /\ loc'[p].i = loc[p].i /\ loc'[p].f = loc[p].f /\ loc'[p].tmp = refcount[loc[p].f]
    /\ VOP_DECREF(file[loc[p].f].vnode)
    /\ SameGlobal /\ UNCHANGED <<next_struct, live, file, refcount, file_lock, pos, files,
                                 ops_lock>>
close_all_store_(p) ==
    /\ Back(p, "ca_store") /\ Unlocking(loc[p].f)
    /\ refcount' = [refcount EXCEPT ![loc[p].f] = loc[p].tmp - 1]
    /\ SameGlobal /\ UNCHANGED <<next_struct, live, file, pos, vn_refcount, ops_lock>>
exit_done_(p) ==
    /\ Moves(p, "ca_scan", "gone") /\ Clear(p)
    /\ files' = [files EXCEPT ![p] = [i \in Slots |-> NULL]]
    /\ SameStructs /\ SameGlobal /\ UNCHANGED ops_lock

Normal(p) ==
    \/ \E v \in Vnodes, can \in AccessModes : open_(p, v, can)
    \/ open_bad_flags_(p)
    \/ \E fd \in Fds, j \in Slots : close_(p, fd, j)
    \/ \E d \in DupFds, j \in Slots, b \in {"dup_lock", "cl_scan"} : dup2_(p, d, j, b)
    \/ \E mode \in {"r", "w"}, j \in Slots : transfer_(p, mode, j)
    \/ \E j \in Slots : lseek_(p, j)
    \/ \E q \in Procs : fork_(p, q)
    \/ exit_(p)
    \/ get_next_fd_(p)
    \/ open_put_(p)
    \/ \E j \in Slots : close_dupe_(p, j)
    \/ \E j \in Slots : close_file_(p, j)
    \/ close_return_(p)
    \/ close_dup_(p)
    \/ close_not_found_(p)
    \/ \E i \in Slots : destroy_file_(p, i)
    \/ \E i \in Slots : close_shared_(p, i)
    \/ close_load_(p)
    \/ close_store_(p)
    \/ \E j \in Slots : copy_file_lock_(p, j)
    \/ copy_file_store_(p)
    \/ dup_file_(p)
    \/ transfer_over_(p)
    \/ transfer_begin_(p)
    \/ transfer_end_(p)
    \/ read_no_memory_(p)
    \/ lseek_over_(p)
    \/ lseek_lock_(p)
    \/ lseek_set_(p)
    \/ \E j \in Slots : copy_lock_(p, j)
    \/ copy_store_(p)
    \/ \E b \in {"user", "lost"} : fork_done_(p, b)
    \/ \E j \in Slots : exit_shared_(p, j)
    \/ \E j \in Slots : exit_last_(p, j)
    \/ close_all_load_(p)
    \/ close_all_store_(p)
    \/ exit_done_(p)


(* put_file_on_gtable finds a free slot when size says that there is one.  *)
LEMMA ListFile ==
    ASSUME BaseInv, NEW f, put_file_on_gtable(f)
    PROVE  Listing(f)
<1> DEFINE S == {i \in Slots : open_files[i] = NULL}
           T == {i \in Slots : open_files[i] # NULL}
<1>1. setting \in Settings /\ size = Cardinality(T)
  BY SameTypes DEF BaseInv, GlobalTableSound
<1>2. CASE size < OPEN_MAX
  <2>1. S # {}
    <3> SUFFICES ASSUME S = {} PROVE FALSE
      OBVIOUS
    <3>1. T = 0 .. OPEN_MAX - 1
      BY DEF Slots
    <3>2. Cardinality(0 .. OPEN_MAX - 1) = OPEN_MAX
      BY <1>1, Numbers, FS_Interval
    <3>3. Cardinality(T) = OPEN_MAX
      BY <3>1, <3>2
    <3> HIDE DEF T
    <3>4. OPEN_MAX \in Nat
      BY <1>1, Numbers
    <3> QED  BY <1>1, <1>2, <3>3, <3>4
  <2>2. First_(S) \in S
    BY <1>1, <2>1, FirstLast
  <2> QED  BY <1>2, <2>2 DEF put_file_on_gtable, Listing
<1>3. CASE ~(size < OPEN_MAX)
  BY <1>3 DEF put_file_on_gtable, Listing
<1> QED  BY <1>2, <1>3

(* Every step is one of these or a panic.                                  *)
LEMMA Cases ==
    ASSUME BaseInv, NEW p \in Procs, Call(p) \/ Step(p)
    PROVE  Panic \/ Normal(p)
<1>1. /\ pc \in [Procs -> Labels] /\ loc \in [Procs -> Locals] /\ setting \in Settings
      /\ setting' = setting
      /\ file \in [Files -> FileRec] /\ refcount \in [Files -> Int] /\ pos \in [Files -> 0 .. MaxPos]
      /\ files \in [Procs -> [Slots -> Files \cup {NULL}]]
      /\ open_files \in [Slots -> Files \cup {NULL}]
  BY SameTypes, SameSetting
     DEF BaseInv, GlobalTableSound, LocalTypes, TableTypes, StructTypes, Next
<1>2. ArgInv /\ ChildInv
  BY DEF BaseInv
<1>3. ASSUME NEW from \in GlobalLabels \cup {"ca_store"}, At(p, from), SlotClosed(p),
             UNCHANGED <<setting, panic>>
      PROVE  Back(p, from)
  <2> DEFINE k == loc[p].i + 1
             b == IF loc[p].next = "exit" THEN "ca_scan" ELSE "cl_scan"
  <2>1. In(p, loc[p].i)
    BY <1>2, <1>3 DEF ArgInv, ArgOf, In, At
  <2>2. /\ files' = [files EXCEPT ![p][loc[p].i] = NULL]
        /\ pc' = [pc EXCEPT ![p] = b]
        /\ loc' = [loc EXCEPT ![p] = [loc[p] EXCEPT !.i = k, !.f = NULL, !.tmp = 0]]
    BY <1>3 DEF SlotClosed, Goto
  <2> HIDE DEF k
  <2>3. Args(p) /\ loc'[p].i = k /\ Moves(p, from, b)
    BY <2>2, <1>1, <1>3 DEF Args, Moves, At
  <2> QED  BY <2>1, <2>2, <2>3 DEF Back, k
<1>4. pc[p] = "rw_lock" /\ file[loc[p].f].std = -1 => pos[file[loc[p].f].seek] \in 0 .. MaxPos
  <2> SUFFICES ASSUME pc[p] = "rw_lock", file[loc[p].f].std = -1
               PROVE  pos[file[loc[p].f].seek] \in 0 .. MaxPos
    OBVIOUS
  <2>1. loc[p].f \in 0 .. next_struct - 1
    BY DEF BaseInv, PlaceInv, Public, UseLabels
  <2> QED  BY <1>1, <2>1 DEF BaseInv, FdInv
<1>10. ASSUME NEW v \in Vnodes, NEW can \in AccessModes, open(p, v, can) PROVE Panic \/ Normal(p)
  <2>2. next_struct \in Files
    BY <1>10, NewStruct DEF open
  <2>3. create_file(v, -1, can, next_struct) \in FileRec
    BY <2>2, FileTableAssumption DEF create_file, FileRec
  <2>5. file' = [file EXCEPT ![next_struct] = create_file(v, -1, can, next_struct)]
    BY <1>10 DEF open
  <2>6. OthersKeep(next_struct)
    BY <1>1, <2>2, <2>3, <2>5 DEF OthersKeep
  <2>4. /\ file'[next_struct].vnode = v /\ file'[next_struct].global_fd = -1
        /\ file'[next_struct].local_fd = -1 /\ file'[next_struct].is_dupe = FALSE
        /\ file'[next_struct].std = -1 /\ file'[next_struct].seek = next_struct
    BY <1>1, <2>2, <2>5 DEF create_file
  <2>1. open_(p, v, can)
    BY <1>10, <1>1, <1>2, <2>2, <2>4, <2>6
       DEF open, Enter, At, Goto, VOP_INCREF, open_, Moves, Args, Clear, NoLocals, In,
           SameStructs, SameGlobal, structs, gtable, ptables, Entering
  <2> QED  BY <2>1 DEF Normal
<1>11. CASE open_bad_flags(p)
  <2>1. open_bad_flags_(p)
    BY <1>11, <1>1, <1>2
       DEF open_bad_flags, Enter, At, open_bad_flags_, Moves, Args, Clear, NoLocals, In,
           SameStructs, SameGlobal, structs, gtable, ptables, Entering
  <2> QED  BY <2>1 DEF Normal
<1>12. ASSUME NEW fd \in CloseFds, close(p, fd) PROVE Panic \/ Normal(p)
  <2> DEFINE g == p_filetable_lookup(p, fd)
  <2>1. CASE Panic
    BY <2>1
  <2>2. CASE ~Panic
    <3>1. /\ Enter(p) /\ g # NULL /\ (file[g].is_dupe \/ file[g].std \notin Std)
          /\ ops_lock' = [ops_lock EXCEPT ![p] = TRUE]
          /\ Goto(p, "cl_scan", [NoLocals EXCEPT !.fd = fd, !.next = "close"])
          /\ UNCHANGED <<structs, gtable, files, setting, panic>>
      BY <1>12, <2>2 DEF close
    <3>2. PICK j \in Slots : g = files[p][j] /\ file[files[p][j]].local_fd = fd
      BY <3>1, <1>1, Lookup
    <3>3. files[p][j] \in Files /\ In(p, j) /\ fd \in Fds
      BY <3>1, <3>2, <1>1, FileTableAssumption DEF In
    <3>4. file[g].is_dupe \/ file[g].std = -1
      BY <3>1, <3>2, <3>3, <1>1 DEF FileRec
    <3> HIDE DEF g
    <3>5. Moves(p, "user", "cl_scan") /\ loc'[p].fd = fd /\ loc'[p].next = "close" /\ Entering(p)
      BY <3>1, <1>1 DEF Enter, At, Goto, Moves, NoLocals, Entering
    <3>6. close_(p, fd, j)
      BY <3>1, <3>2, <3>3, <3>4, <3>5 DEF close_, SameStructs, SameGlobal, structs, gtable
    <3> QED  BY <3>3, <3>6 DEF Normal
  <2> QED  BY <2>1, <2>2
<1>13. ASSUME NEW d \in DupFds, dup2(p, d[1], d[2]) PROVE Panic \/ Normal(p)
  <2>0. d[1] \in Fds /\ d[2] \in Fds
    BY FileTableAssumption
  <2>1. CASE Panic
    BY <2>1
  <2>2. CASE ~Panic
    <3>1. PICK j \in Slots : /\ p_filetable_lookup(p, d[1]) = files[p][j] /\ files[p][j] # NULL
                             /\ file[files[p][j]].local_fd = d[1]
      BY <1>13, <2>2, <1>1, Lookup DEF dup2
    <3>2. PICK b \in {"dup_lock", "cl_scan"} :
             Goto(p, b, [NoLocals EXCEPT !.fd = d[2], !.old = d[1], !.next = "dup2"])
      BY <1>13, <2>2 DEF dup2
    <3>3. dup2_(p, d, j, b)
      BY <1>13, <2>0, <2>2, <3>1, <3>2, <1>1, <1>2
         DEF dup2, Enter, At, Goto, dup2_, Moves, Args, In, SameStructs, SameGlobal, structs,
             gtable,
             ptables, Entering, NoLocals
    <3> QED  BY <3>1, <3>2, <3>3 DEF Normal
  <2> QED  BY <2>1, <2>2
<1>14. ASSUME NEW fd \in IoFds, NEW mode \in {"r", "w"}, transfer(p, fd, mode)
       PROVE  Panic \/ Normal(p)
  <2>1. CASE Panic
    BY <2>1
  <2>2. CASE ~Panic
    <3>1. PICK j \in Slots : /\ p_filetable_lookup(p, fd) = files[p][j] /\ files[p][j] # NULL
                             /\ file[files[p][j]].local_fd = fd
      BY <1>14, <2>2, <1>1, Lookup DEF transfer
    <3> DEFINE l == [NoLocals EXCEPT !.f = p_filetable_lookup(p, fd), !.mode = mode]
    <3>2. /\ ~panic /\ pc[p] = "user" /\ Entering(p) /\ Goto(p, "rw_lock", l)
          /\ Careful => MayTransfer(p, fd, mode)
          /\ UNCHANGED <<structs, gtable, files, setting, panic>>
      BY <1>14, <2>2 DEF transfer, Enter, At, Entering
    <3>3. l.f = files[p][j] /\ l.mode = mode /\ l.next = ""
      BY <3>1 DEF NoLocals
    <3>4. Careful => file[files[p][j]].std \notin (IF mode = "r" THEN {STDOUT, STDERR} ELSE {STDIN})
      BY <3>1, <3>2 DEF MayTransfer
    <3>5. SameStructs /\ SameGlobal /\ UNCHANGED files
      BY <3>2 DEF SameStructs, SameGlobal, structs, gtable
    <3> HIDE DEF l
    <3>6. Moves(p, "user", "rw_lock") /\ loc'[p] = l
      BY <1>1, <3>2 DEF Goto, Moves
    <3>7. transfer_(p, mode, j)
      BY <3>1, <3>2, <3>3, <3>4, <3>5, <3>6 DEF transfer_, In
    <3> QED  BY <3>7 DEF Normal
  <2> QED  BY <2>1, <2>2
<1>15. ASSUME NEW fd \in IoFds, lseek(p, fd) PROVE Panic \/ Normal(p)
  <2>1. CASE Panic
    BY <2>1
  <2>2. CASE ~Panic
    <3>1. PICK j \in Slots : /\ p_filetable_lookup(p, fd) = files[p][j] /\ files[p][j] # NULL
                             /\ file[files[p][j]].local_fd = fd
      BY <1>15, <2>2, <1>1, Lookup DEF lseek
    <3> DEFINE g == p_filetable_lookup(p, fd)
    <3>2. lseek_(p, j)
      BY <1>15, <2>2, <3>1, <1>1, <1>2
         DEF lseek, Enter, At, Goto, lseek_, Moves, Args, Clear, NoLocals, In, SameStructs,
             SameGlobal, structs, gtable, ptables
    <3> QED  BY <3>1, <3>2 DEF Normal
  <2> QED  BY <2>1, <2>2
<1>16. ASSUME NEW q \in Procs, fork(p, q) PROVE Panic \/ Normal(p)
  <2>1. fork_(p, q)
    BY <1>16, <1>1, <1>2
       DEF fork, Enter, At, fork_, Moves, Args, Clear, NoLocals, In, SameStructs, SameGlobal,
           structs, gtable, ptables, Entering
  <2> QED  BY <2>1 DEF Normal
<1>17. CASE exit(p)
  <2>1. exit_(p)
    BY <1>17, <1>1, <1>2
       DEF exit, Enter, At, Goto, exit_, Moves, Args, Clear, NoLocals, In, SameStructs,
           SameGlobal, structs, gtable, ptables
  <2> QED  BY <2>1 DEF Normal
<1>18. CASE get_next_fd(p)
  <2>0. loc[p].f \in Files /\ next_fd \in Fds
    BY <1>18, <1>2, NewStruct DEF get_next_fd, At, ArgInv, ArgOf, OpenLabels
  <2>2. file[loc[p].f] \in FileRec
    BY <1>1, <2>0
  <2> DEFINE r == [file[loc[p].f] EXCEPT !.global_fd = next_fd, !.local_fd = next_fd]
  <2>4. r \in FileRec
    BY <2>0, <2>2 DEF FileRec
  <2>5. file' = [file EXCEPT ![loc[p].f] = r]
    BY <1>18 DEF get_next_fd
  <2>3. OthersKeep(loc[p].f) /\ file'[loc[p].f] = r
    BY <1>1, <2>0, <2>4, <2>5 DEF OthersKeep
  <2>1. get_next_fd_(p)
    BY <1>18, <1>1, <1>2, <2>0, <2>2, <2>3
       DEF get_next_fd, At, Goto, get_next_fd_, Moves, Args, Clear, NoLocals, In, SameStructs,
           SameGlobal, structs, gtable, ptables, FileRec
  <2> QED  BY <2>1 DEF Normal
<1>19. CASE open_put(p)
  <2>0. loc[p].f \in Files
    BY <1>19, <1>2 DEF open_put, At, ArgInv, ArgOf, OpenLabels
  <2>2. Listing(loc[p].f) /\ Putting(p, loc[p].f)
    BY <1>19, <1>1, ListFile, PutFile DEF open_put, Putting
  <2>1. open_put_(p)
    BY <1>19, <1>1, <1>2, <2>0, <2>2
       DEF open_put, At, Goto, Return, open_put_, Moves,
           Args, Clear, NoLocals, In, SameStructs, SameGlobal, structs, gtable, ptables, Leaving
  <2> QED  BY <2>1 DEF Normal
<1>20. CASE close_file_on_ptable(p)
  <2> DEFINE M == Matching(p, loc[p].fd, loc[p].i)
             j == First_(M)
  <2>1. CASE Panic
    BY <2>1
  <2>2. CASE ~Panic
    <3>1. /\ M # {} /\ ~panic /\ pc[p] = "cl_scan"
          /\ IF file[files[p][j]].is_dupe
             THEN /\ file_lock[files[p][j]] = NULL
                  /\ live' = live \ {files[p][j]}
                  /\ files' = [files EXCEPT ![p][j] = NULL]
                  /\ Goto(p, "cl_scan", [loc[p] EXCEPT !.i = j + 1])
                  /\ UNCHANGED <<next_struct, file, refcount, file_lock, pos, vn_refcount,
                                 gtable, ops_lock, setting, panic>>
             ELSE /\ Goto(p, "cg_find", [loc[p] EXCEPT !.i = j])
                  /\ UNCHANGED <<structs, gtable, ptables, setting, panic>>
      BY <1>20, <2>2 DEF close_file_on_ptable, At
    <3>2. j \in M
      BY <1>1, <3>1, FirstLast DEF Matching, Used
    <3>3. In(p, j) /\ file[files[p][j]].local_fd = loc[p].fd
      BY <3>2 DEF Matching, Used, In
    <3> HIDE DEF M, j
    <3>4. CASE file[files[p][j]].is_dupe
      <4>2. Goto(p, "cl_scan", [loc[p] EXCEPT !.i = j + 1]) /\ UNCHANGED <<setting, panic>>
        BY <3>1, <3>4
      <4> DEFINE k == j + 1
      <4> HIDE DEF k
      <4>3. Moves(p, "cl_scan", "cl_scan") /\ Args(p)
        BY <3>1, <4>2, <1>1 DEF Goto, Moves, Args, k
      <4>1. close_dupe_(p, j)
        BY <3>1, <3>3, <3>4, <4>3 DEF close_dupe_, SameGlobal, gtable
      <4> QED  BY <3>3, <4>1 DEF Normal, In
    <3>5. CASE ~file[files[p][j]].is_dupe
      <4>2. Goto(p, "cg_find", [loc[p] EXCEPT !.i = j]) /\ UNCHANGED <<setting, panic>>
        BY <3>1, <3>5
      <4>3. Moves(p, "cl_scan", "cg_find") /\ Args(p) /\ loc'[p].i = j
        BY <3>1, <4>2, <1>1 DEF Goto, Moves, Args
      <4>1. close_file_(p, j)
        BY <3>1, <3>3, <3>5, <4>3
           DEF close_file_, SameGlobal, SameStructs, structs, gtable, ptables
      <4> QED  BY <3>3, <4>1 DEF Normal, In
    <3> QED  BY <3>4, <3>5
  <2> QED  BY <2>1, <2>2
<1>21. CASE close_file_done(p)
  <2>1. CASE loc[p].next = "close"
    <3>2. /\ At(p, "cl_scan") /\ Return(p)
          /\ UNCHANGED <<structs, gtable, files, setting, panic>>
      BY <1>21, <2>1 DEF close_file_done
    <3>1. close_return_(p)
      BY <3>2, <1>1 DEF At, Goto, Return, close_return_, Moves, Clear, NoLocals, SameStructs,
                        SameGlobal, structs, gtable, Leaving
    <3> QED  BY <3>1 DEF Normal
  <2>2. CASE loc[p].next # "close"
    <3>1. loc[p].next = "dup2"
      BY <1>21, <2>2, <1>2 DEF close_file_done, At, ArgInv, ArgOf
    <3>3. /\ At(p, "cl_scan") /\ Goto(p, "dup_lock", [loc[p] EXCEPT !.i = 0])
          /\ UNCHANGED <<structs, gtable, files, ops_lock, setting, panic>>
      BY <1>21, <2>2 DEF close_file_done
    <3>4. Moves(p, "cl_scan", "dup_lock") /\ Args(p)
      BY <3>3, <1>1 DEF At, Goto, Moves, Args
    <3>2. close_dup_(p)
      BY <3>1, <3>3, <3>4 DEF close_dup_, SameStructs, SameGlobal, structs, gtable
    <3> QED  BY <3>2 DEF Normal
  <2> QED  BY <2>1, <2>2
<1>22. CASE close_not_found(p)
  <2>0. Back(p, "cg_find")
    BY <1>22, <1>3 DEF close_not_found, At, GlobalLabels
  <2>1. close_not_found_(p)
    BY <1>22, <1>1, <2>0
       DEF close_not_found, close_not_found_, SameStructs, SameGlobal, structs, gtable, ptables
  <2> QED  BY <2>1 DEF Normal
<1>23. CASE destroy_file(p)
  <2> DEFINE S == GlobalSlot(file[files[p][loc[p].i]].global_fd)
             i == Last_(S)
  <2>1. CASE Panic
    BY <2>1
  <2>2. CASE ~Panic
    <3>1. Back(p, "cg_find")
      BY <1>23, <2>2, <1>3 DEF destroy_file, At, GlobalLabels
    <3>2. S # {} /\ S \in SUBSET Slots
      BY <1>23 DEF destroy_file, GlobalSlot
    <3>3. i \in S
      BY <3>2, <1>1, FirstLast
    <3>4. /\ i \in Slots /\ open_files[i] \in Files
          /\ file[open_files[i]].global_fd = file[files[p][loc[p].i]].global_fd
      BY <3>3, <1>1 DEF GlobalSlot
    <3>5. /\ refcount[open_files[i]] = 1 /\ global_file_lk = NULL
          /\ file[open_files[i]].vnode # NULL /\ file_lock[open_files[i]] = NULL
          /\ open_files' = [open_files EXCEPT ![i] = NULL]
          /\ size' = size - 1
          /\ VOP_DECREF(file[open_files[i]].vnode)
          /\ live' = live \ {open_files[i]}
          /\ UNCHANGED <<next_struct, file, refcount, file_lock, pos, next_fd,
                         global_file_lk, ops_lock, setting, panic>>
      BY <1>23, <2>2 DEF destroy_file
    <3>6. file[open_files[i]].vnode \in Vnodes
      BY <3>4, <3>5, <1>1 DEF FileRec
    <3> HIDE DEF i, S
    <3>7. destroy_file_(p, i)
      BY <3>1, <3>4, <3>5, <3>6 DEF destroy_file_
    <3> QED  BY <3>4, <3>7 DEF Normal
  <2> QED  BY <2>1, <2>2
<1>24. CASE close_shared(p)
  <2> DEFINE S == GlobalSlot(file[files[p][loc[p].i]].global_fd)
             i == Last_(S)
  <2>2. S # {} /\ S \in SUBSET Slots
    BY <1>24 DEF close_shared, GlobalSlot
  <2>3. i \in S
    BY <2>2, <1>1, FirstLast
  <2>4. /\ i \in Slots /\ open_files[i] \in Files
          /\ file[open_files[i]].global_fd = file[files[p][loc[p].i]].global_fd
    BY <2>3, <1>1 DEF GlobalSlot
  <2>5. /\ refcount[open_files[i]] # 1
        /\ Goto(p, "cg_load", [loc[p] EXCEPT !.f = open_files[i]])
        /\ At(p, "cg_find") /\ UNCHANGED <<setting, panic>>
    BY <1>24 DEF close_shared
  <2> HIDE DEF i, S
  <2>7. Moves(p, "cg_find", "cg_load") /\ Args(p) /\ loc'[p].i = loc[p].i /\ loc'[p].f = open_files[i]
    BY <2>5, <1>1 DEF At, Goto, Moves, Args
  <2>6. close_shared_(p, i)
    BY <1>24, <2>4, <2>5, <2>7
       DEF close_shared, close_shared_, SameStructs, structs, ptables
  <2> QED  BY <2>4, <2>6 DEF Normal
<1>25. CASE close_load(p)
  <2>1. close_load_(p)
    BY <1>25, <1>1, <1>2
       DEF close_load, At, Goto, close_load_, Moves, Args, Clear, NoLocals, In, SameStructs,
           SameGlobal, structs, gtable, ptables
  <2> QED  BY <2>1 DEF Normal
<1>26. CASE close_store(p)
  <2>0. Back(p, "cg_store")
    BY <1>26, <1>3 DEF close_store, At, GlobalLabels
  <2>2. loc[p].f \in Files
    BY <1>26, <1>2 DEF close_store, At, ArgInv, ArgOf, UseLabels
  <2>1. close_store_(p)
    BY <1>26, <1>1, <2>0, <2>2
       DEF close_store, close_store_, SameStructs, SameGlobal, structs, gtable, ptables
  <2> QED  BY <2>1 DEF Normal
<1>27. CASE copy_file_lock(p)
  <2> DEFINE g == p_filetable_lookup(p, loc[p].old)
  <2>1. CASE Panic
    BY <2>1
  <2>2. CASE ~Panic
    <3>1. /\ At(p, "dup_lock") /\ g # NULL /\ file_lock[g] = NULL
          /\ file_lock' = [file_lock EXCEPT ![g] = p]
          /\ Goto(p, "dup_store", [loc[p] EXCEPT !.f = g, !.tmp = refcount[g]])
          /\ UNCHANGED <<next_struct, live, file, refcount, pos, vn_refcount, gtable,
                         ptables, setting, panic>>
      BY <1>27, <2>2 DEF copy_file_lock
    <3>2. PICK j \in Slots : g = files[p][j] /\ file[files[p][j]].local_fd = loc[p].old
      BY <3>1, <1>1, Lookup
    <3>3. files[p][j] \in Files /\ In(p, j)
      BY <3>1, <3>2, <1>1 DEF In
    <3>6. files[p][j] = p_filetable_lookup(p, loc[p].old)
      BY <3>2
    <3> HIDE DEF g
    <3>4. /\ Moves(p, "dup_lock", "dup_store") /\ Args(p)
          /\ loc'[p].f = g /\ loc'[p].tmp = refcount[g]
      BY <3>1, <1>1 DEF At, Goto, Moves, Args
    <3>5. copy_file_lock_(p, j)
      BY <3>1, <3>2, <3>3, <3>4, <3>6 DEF copy_file_lock_, Locking, SameGlobal, gtable, ptables
    <3> QED  BY <3>5 DEF Normal
  <2> QED  BY <2>1, <2>2
<1>28. CASE copy_file_store(p)
  <2>0. loc[p].f \in Files
    BY <1>28, <1>2 DEF copy_file_store, At, ArgInv, ArgOf, UseLabels
  <2>1. copy_file_store_(p)
    BY <1>28, <1>1, <1>2, <2>0
       DEF copy_file_store, At, Goto, copy_file_store_, Moves, Args, Clear, NoLocals, In,
           SameStructs, SameGlobal, structs, gtable, ptables
  <2> QED  BY <2>1 DEF Normal
<1>29. CASE dup_file(p)
  <2>0. loc[p].f \in Files /\ loc[p].fd \in Fds
    BY <1>29, <1>2 DEF dup_file, At, ArgInv, ArgOf, UseLabels
  <2>2. next_struct \in Files
    BY <1>29, NewStruct DEF dup_file, At
  <2>3. file[loc[p].f] \in FileRec /\ Putting(p, next_struct)
    BY <1>29, <1>1, <2>0, PutFile DEF dup_file, Putting
  <2> DEFINE r == [file[loc[p].f] EXCEPT !.local_fd = loc[p].fd, !.is_dupe = TRUE]
  <2>5. r \in FileRec
    BY <2>0, <2>3 DEF FileRec
  <2>6. file' = [file EXCEPT ![next_struct] = r]
    BY <1>29 DEF dup_file
  <2>4. OthersKeep(next_struct) /\ file'[next_struct] = r
    BY <1>1, <2>2, <2>5, <2>6 DEF OthersKeep
  <2>1. dup_file_(p)
    BY <1>29, <1>1, <1>2, <2>0, <2>2, <2>3, <2>4
       DEF dup_file, At, Goto, Return,  dup_file_, Moves, Args,
           Clear, NoLocals, In, SameStructs, SameGlobal, structs, gtable, ptables, Leaving,
           FileRec, Unlocking
  <2> QED  BY <2>1 DEF Normal
<1>30. CASE transfer_over(p)
  <2>1. transfer_over_(p)
    BY <1>30, <1>1, <1>2
       DEF transfer_over, At, Goto, Return, transfer_over_, Moves, Args, Clear, NoLocals, In,
           SameStructs, SameGlobal, structs, gtable, ptables, Leaving
  <2> QED  BY <2>1 DEF Normal
<1>31. CASE transfer_begin(p)
  <2>0. loc[p].f \in Files
    BY <1>31, <1>2 DEF transfer_begin, At, ArgInv, ArgOf, UseLabels
  <2> DEFINE t == IF file[loc[p].f].std = -1 THEN pos[file[loc[p].f].seek] ELSE 0
  <2>1. CASE Panic
    BY <2>1
  <2>2. CASE ~Panic
    <3>1. t \in 0 .. MaxPos
      BY <1>31, <1>4, FileTableAssumption DEF transfer_begin, At
    <3>2. /\ file_lock[loc[p].f] = NULL
          /\ file_lock' = [file_lock EXCEPT ![loc[p].f] = p]
          /\ ops_lock' = [ops_lock EXCEPT ![p] = FALSE]
          /\ Goto(p, "rw_io", [loc[p] EXCEPT !.tmp = t])
          /\ UNCHANGED <<next_struct, live, file, refcount, pos, vn_refcount, gtable,
                         files, setting, panic>>
      BY <1>31, <2>2 DEF transfer_begin
    <3> HIDE DEF t
    <3>3. transfer_begin_(p)
      BY <1>31, <2>0, <3>1, <3>2, <1>1
         DEF transfer_begin, At, Goto, transfer_begin_, Moves, Args, SameGlobal, gtable,
             Leaving, Locking
    <3> QED  BY <3>3 DEF Normal
  <2> QED  BY <2>1, <2>2
<1>32. CASE transfer_end(p)
  <2>0. loc[p].f \in Files /\ loc[p].tmp \in 0 .. MaxPos
    BY <1>32, <1>2 DEF transfer_end, At, ArgInv, ArgOf, UseLabels
  <2>2. pos' \in [Files -> 0 .. MaxPos]
    BY <1>32, <1>1, <2>0, FileTableAssumption DEF transfer_end
  <2>1. transfer_end_(p)
    BY <1>32, <1>1, <1>2, <2>0, <2>2
       DEF transfer_end, At, Goto, transfer_end_, Moves, Args, Clear, NoLocals, In, SameStructs,
           SameGlobal, structs, gtable, ptables, Unlocking
  <2> QED  BY <2>1 DEF Normal
<1>33. CASE read_no_memory(p)
  <2>1. read_no_memory_(p)
    BY <1>33, <1>1, <1>2
       DEF read_no_memory, At, Goto, read_no_memory_, Moves, Args, Clear, NoLocals, In,
           SameStructs, SameGlobal, structs, gtable, ptables
  <2> QED  BY <2>1 DEF Normal
<1>34. CASE lseek_lock(p)
  <2>0. loc[p].f \in Files
    BY <1>34, <1>2 DEF lseek_lock, At, ArgInv, ArgOf, UseLabels
  <2>1. CASE Panic
    BY <2>1
  <2>2. CASE Goto(p, "user", NoLocals) /\ UNCHANGED <<structs, gtable, ptables, setting, panic>>
    <3>1. lseek_over_(p)
      BY <1>34, <2>2, <1>1
         DEF lseek_lock, At, Goto, lseek_over_, Moves, Clear, NoLocals, SameStructs, SameGlobal,
             structs,
                          gtable, ptables
    <3> QED  BY <3>1 DEF Normal
  <2>3. ASSUME NEW t \in 0 .. MaxPos, Goto(p, "ls_set", [loc[p] EXCEPT !.tmp = t]),
               file_lock[loc[p].f] = NULL, file[loc[p].f].std = -1,
               file_lock' = [file_lock EXCEPT ![loc[p].f] = p],
               UNCHANGED <<next_struct, live, file, refcount, pos, vn_refcount, gtable, ptables,
                           setting, panic>>
        PROVE  Normal(p)
    <3>1. lseek_lock_(p)
      BY <1>34, <2>0, <2>3, <1>1
         DEF lseek_lock, At, Goto, lseek_lock_, Moves, Args, SameGlobal, gtable,
                                ptables, Locking
    <3> QED  BY <3>1 DEF Normal
  <2> QED  BY <1>34, <2>1, <2>2, <2>3 DEF lseek_lock
<1>35. CASE lseek_set(p)
  <2>0. loc[p].f \in Files /\ loc[p].tmp \in 0 .. MaxPos
    BY <1>35, <1>2 DEF lseek_set, At, ArgInv, ArgOf, UseLabels
  <2>2. pos' \in [Files -> 0 .. MaxPos]
    BY <1>35, <1>1, <2>0, FileTableAssumption DEF lseek_set
  <2>1. lseek_set_(p)
    BY <1>35, <1>1, <1>2, <2>0, <2>2
       DEF lseek_set, At, Goto, lseek_set_, Moves, Args, Clear, NoLocals, In, SameStructs,
           SameGlobal, structs, gtable, ptables, Unlocking
  <2> QED  BY <2>1 DEF Normal
<1>36. CASE copy_lock(p)
  <2> DEFINE U == Used(p, loc[p].i)
             j == First_(U)
  <2>1. CASE Panic
    BY <2>1
  <2>2. CASE ~Panic
    <3>1. /\ file_lock[files[p][j]] = NULL
          /\ file_lock' = [file_lock EXCEPT ![files[p][j]] = p]
          /\ VOP_INCREF(file[files[p][j]].vnode)
          /\ Goto(p, "fk_store", [loc[p] EXCEPT !.i = j, !.tmp = refcount[files[p][j]]])
          /\ UNCHANGED <<next_struct, live, file, refcount, pos, gtable, ptables, setting, panic>>
      BY <1>36, <2>2 DEF copy_lock
    <3>2. U # {} /\ U \in SUBSET Slots
      BY <1>36 DEF copy_lock, Used
    <3>3. j \in U /\ \A k \in U : j <= k
      BY <3>2, <1>1, FirstLast
    <3>4. In(p, j) /\ j >= loc[p].i /\ \A k \in Slots : k >= loc[p].i /\ k < j => files[p][k] = NULL
      <4>1. In(p, j) /\ j >= loc[p].i
        BY <3>3 DEF Used, In
      <4>2. ASSUME NEW k \in Slots, k >= loc[p].i, k < j PROVE files[p][k] = NULL
        <5>1. k \in U => j <= k
          BY <3>3
        <5>2. j \in Nat /\ k \in Nat
          BY <4>1, <1>1, Numbers DEF In
        <5>3. k \notin U
          BY <5>1, <5>2, <4>2
        <5> QED  BY <5>3, <4>2 DEF Used
      <4> QED  BY <4>1, <4>2
    <3>5. files[p][j] \in Files
      BY <3>4, <1>1 DEF In
    <3> HIDE DEF U, j
    <3>6. copy_lock_(p, j)
      BY <1>36, <3>1, <3>4, <3>5, <1>1
         DEF copy_lock, At, Goto, copy_lock_, Moves, Args, SameGlobal, gtable, ptables, Locking
    <3> QED  BY <3>4, <3>6 DEF Normal, In
  <2> QED  BY <2>1, <2>2
<1>37. CASE copy_store(p)
  <2> DEFINE i == loc[p].i
             k == i + 1
             f == files[p][i]
  <2>0. In(p, i) /\ loc[p].child \in Procs /\ f \in Files
    <3>1. i \in Slots /\ f # NULL
      BY <1>37, <1>2 DEF copy_store, At, ArgInv, ArgOf
    <3>2. loc[p].child \in Procs
      BY <1>37, <1>2 DEF copy_store, At, ChildInv, ForkLabels
    <3> QED  BY <3>1, <3>2, <1>1 DEF In
  <2>2. /\ ~panic /\ pc[p] = "fk_store"
        /\ refcount' = [refcount EXCEPT ![f] = loc[p].tmp + 1]
        /\ file_lock' = [file_lock EXCEPT ![f] = NULL]
        /\ files' = [files EXCEPT ![loc[p].child][i] = f]
        /\ Goto(p, "fk_scan", [loc[p] EXCEPT !.i = k, !.tmp = 0])
        /\ UNCHANGED <<next_struct, live, file, pos, vn_refcount, gtable, ops_lock, setting, panic>>
    BY <1>37 DEF copy_store, At
  <2> HIDE DEF k
  <2>3. Moves(p, "fk_store", "fk_scan") /\ Args(p) /\ loc'[p].child = loc[p].child /\ loc'[p].i = k
    BY <2>2, <1>1 DEF Goto, Moves, Args
  <2>1. copy_store_(p)
    BY <2>0, <2>2, <2>3 DEF copy_store_, SameGlobal, gtable, Unlocking, k
  <2> QED  BY <2>1 DEF Normal
<1>38. CASE fork_done(p)
  <2>0. loc[p].child \in Procs \ {p}
    BY <1>38, <1>2 DEF fork_done, At, ChildInv, ForkLabels
  <2>2. PICK b \in IF Careful THEN {"user"} ELSE {"user", "lost"} :
           pc' = [pc EXCEPT ![p] = "user", ![loc[p].child] = b]
    BY <1>38 DEF fork_done
  <2>1. fork_done_(p, b)
    BY <1>38, <2>0, <2>2, <1>1
       DEF fork_done, At, fork_done_, Clear, NoLocals, Leaving, SameStructs, SameGlobal,
           structs, gtable
  <2>3. b \in {"user", "lost"}
    BY <2>2
  <2> QED  BY <2>1, <2>3 DEF Normal
<1>39. CASE close_all_test(p)
  <2> DEFINE j == NextUsed(p)
  <2>1. CASE Panic
    BY <2>1
  <2>2. CASE ~Panic
    <3>1. /\ files[p][j] \in live /\ file_lock[files[p][j]] = NULL
          /\ IF refcount[files[p][j]] > 1
             THEN /\ file_lock' = [file_lock EXCEPT ![files[p][j]] = p]
                  /\ Goto(p, "ca_load", [loc[p] EXCEPT !.i = j, !.f = files[p][j]])
             ELSE /\ UNCHANGED file_lock
                  /\ Goto(p, "cg_find", [loc[p] EXCEPT !.i = j])
          /\ UNCHANGED <<next_struct, live, file, refcount, pos, vn_refcount, gtable, ptables,
                         setting, panic>>
      BY <1>39, <2>2 DEF close_all_test
    <3>2. ToClose(p) # {} /\ ToClose(p) \in SUBSET Slots
      BY <1>39 DEF close_all_test, ToClose, Used
    <3>3. j \in ToClose(p)
      BY <3>2, <1>1, FirstLast DEF NextUsed
    <3>4. In(p, j) /\ file[files[p][j]].std = -1
      BY <3>1, <3>3 DEF Used, In, ToClose
    <3>5. files[p][j] \in Files
      BY <3>4, <1>1 DEF In
    <3> HIDE DEF j
    <3>6. CASE refcount[files[p][j]] > 1
      <4>2. /\ At(p, "ca_scan") /\ UNCHANGED <<setting, panic>>
            /\ Goto(p, "ca_load", [loc[p] EXCEPT !.i = j, !.f = files[p][j]])
        BY <1>39, <3>1, <3>6 DEF close_all_test
      <4>3. Moves(p, "ca_scan", "ca_load") /\ Args(p) /\ loc'[p].i = j /\ loc'[p].f = files[p][j]
        BY <4>2, <1>1 DEF At, Goto, Moves, Args
      <4>1. exit_shared_(p, j)
        BY <3>1, <3>4, <3>5, <3>6, <4>3
           DEF exit_shared_, SameStructs, SameGlobal, gtable, ptables, Locking
      <4> QED  BY <3>4, <4>1 DEF Normal, In
    <3>7. CASE ~(refcount[files[p][j]] > 1)
      <4>2. /\ At(p, "ca_scan") /\ UNCHANGED <<setting, panic>>
            /\ Goto(p, "cg_find", [loc[p] EXCEPT !.i = j])
        BY <1>39, <3>1, <3>7 DEF close_all_test
      <4>3. Moves(p, "ca_scan", "cg_find") /\ Args(p) /\ loc'[p].i = j
        BY <4>2, <1>1 DEF At, Goto, Moves, Args
      <4>1. exit_last_(p, j)
        BY <3>1, <3>4, <3>5, <3>7, <4>3
           DEF exit_last_, SameStructs, SameGlobal, gtable, ptables, Locking
      <4> QED  BY <3>4, <4>1 DEF Normal, In
    <3> QED  BY <3>6, <3>7
  <2> QED  BY <2>1, <2>2
<1>40. CASE close_all_load(p)
  <2>1. close_all_load_(p)
    BY <1>40, <1>1, <1>2
       DEF close_all_load, At, Goto, VOP_DECREF, close_all_load_, Moves, Args, Clear, NoLocals,
           In, SameStructs, SameGlobal, structs, gtable, ptables
  <2> QED  BY <2>1 DEF Normal
<1>41. CASE close_all_store(p)
  <2>0. Back(p, "ca_store")
    BY <1>41, <1>3 DEF close_all_store, At, GlobalLabels
  <2>2. loc[p].f \in Files
    BY <1>41, <1>2 DEF close_all_store, At, ArgInv, ArgOf, UseLabels
  <2>1. close_all_store_(p)
    BY <1>41, <1>1, <2>0, <2>2
       DEF close_all_store, close_all_store_, SameStructs, SameGlobal, structs, gtable, ptables,
           Unlocking
  <2> QED  BY <2>1 DEF Normal
<1>42. CASE exit_done(p)
  <2>1. exit_done_(p)
    BY <1>42, <1>1, <1>2
       DEF exit_done, At, Goto, exit_done_, Moves, Args, Clear, NoLocals, In, SameStructs,
           SameGlobal, structs, gtable, ptables
  <2> QED  BY <2>1 DEF Normal
<1> QED
  BY <1>10, <1>11, <1>12, <1>13, <1>14, <1>15, <1>16, <1>17, <1>18, <1>19, <1>20, <1>21, <1>22,
     <1>23, <1>24, <1>25, <1>26, <1>27, <1>28, <1>29, <1>30, <1>31, <1>32, <1>33, <1>34, <1>35,
     <1>36, <1>37, <1>38, <1>39, <1>40, <1>41, <1>42
     DEF Call, Step


(* The bounds leave room when nobody joins those that will use them.       *)
CountsKept ==
    /\ next_fd' = next_fd /\ next_struct' = next_struct
    /\ \A q \in Procs : /\ pc'[q] = "op_fd" => pc[q] = "op_fd"
                        /\ loc'[q].next = "dup2" => loc[q].next = "dup2"

(* A step that takes no number and allocates no structure keeps the bounds. *)
LEMMA Counting ==
    ASSUME BaseInv, setting' = setting, CountsKept
    PROVE  CountInv'
<1>1. Numbering' \subseteq Numbering /\ Duping' \subseteq Duping
  BY DEF CountsKept, Numbering, Duping
<1>2. /\ Cardinality(Numbering') <= Cardinality(Numbering)
      /\ Cardinality(Duping') <= Cardinality(Duping)
      /\ Cardinality(Numbering') \in Nat /\ Cardinality(Numbering) \in Nat
      /\ Cardinality(Duping') \in Nat /\ Cardinality(Duping) \in Nat
  <2>1. /\ Numbering \in SUBSET Procs /\ Numbering' \in SUBSET Procs
        /\ Duping \in SUBSET Procs /\ Duping' \in SUBSET Procs
    BY DEF Numbering, Duping
  <2> QED  BY <1>1, <2>1, SomeProcs, FS_Subset
<1>3. next_fd \in Nat /\ next_struct \in Nat /\ setting.structs \in Nat
  BY SameTypes, Bounds DEF BaseInv, GlobalTableSound, TableTypes, StructTypes
<1> QED  BY <1>2, <1>3 DEF CountInv, BaseInv, CountsKept

(* Each step keeps the count of what is left below the bounds.             *)
LEMMA CountStep ==
    ASSUME BaseInv, NEW p \in Procs, Normal(p)
    PROVE  CountInv'
<1>1. /\ pc \in [Procs -> Labels] /\ loc \in [Procs -> Locals] /\ setting \in Settings
      /\ next_fd \in Nat /\ next_struct \in Nat /\ setting.structs \in Nat
  BY SameTypes, Bounds
     DEF BaseInv, GlobalTableSound, LocalTypes, TableTypes, StructTypes
<1>2. ArgInv /\ CountInv
  BY DEF BaseInv
<1>8. setting' = setting
  BY DEF Normal, Moves, Back, open_, open_bad_flags_, close_, dup2_, transfer_, lseek_, fork_,
         exit_, get_next_fd_, open_put_, close_dupe_, close_file_, close_return_, close_dup_,
         close_not_found_, destroy_file_, close_shared_, close_load_, close_store_,
         copy_file_lock_, copy_file_store_, dup_file_, transfer_over_, transfer_begin_,
         transfer_end_, read_no_memory_, lseek_over_, lseek_lock_, lseek_set_, copy_lock_,
         copy_store_, fork_done_, exit_shared_, exit_last_, close_all_load_, close_all_store_,
         exit_done_
<1>3. CountsKept => CountInv'
  BY Counting, <1>8
<1>4. /\ Cardinality(Numbering) \in Nat /\ Cardinality(Duping) \in Nat
      /\ Cardinality(Numbering') \in Nat /\ Cardinality(Duping') \in Nat
      /\ IsFiniteSet(Numbering) /\ IsFiniteSet(Duping)
  <2>1. /\ Numbering \in SUBSET Procs /\ Numbering' \in SUBSET Procs
        /\ Duping \in SUBSET Procs /\ Duping' \in SUBSET Procs
    BY DEF Numbering, Duping
  <2> QED  BY <2>1, SomeProcs
<1>5. \A S, T \in SUBSET Procs :
          /\ T \subseteq S => Cardinality(T) <= Cardinality(S)
          /\ T \subseteq S \cup {p} => Cardinality(T) <= Cardinality(S) + 1
          /\ p \in S /\ T \subseteq S \ {p} => Cardinality(T) <= Cardinality(S) - 1
  <2> TAKE S, T \in SUBSET Procs
  <2>1. /\ IsFiniteSet(S) /\ IsFiniteSet(T) /\ IsFiniteSet(S \cup {p}) /\ IsFiniteSet(S \ {p})
        /\ Cardinality(S) \in Nat /\ Cardinality(T) \in Nat
    BY SomeProcs, FS_RemoveElement, FS_AddElement
  <2>2. /\ Cardinality(S \cup {p}) = IF p \in S THEN Cardinality(S) ELSE Cardinality(S) + 1
        /\ Cardinality(S \ {p}) = IF p \in S THEN Cardinality(S) - 1 ELSE Cardinality(S)
    BY <2>1, FS_AddElement, FS_RemoveElement
  <2>3. /\ T \subseteq S => Cardinality(T) <= Cardinality(S)
        /\ T \subseteq S \cup {p} => Cardinality(T) <= Cardinality(S \cup {p})
        /\ T \subseteq S \ {p} => Cardinality(T) <= Cardinality(S \ {p})
    BY <2>1, FS_Subset
  <2> QED  BY <2>1, <2>2, <2>3
<1>6. /\ Numbering \in SUBSET Procs /\ Numbering' \in SUBSET Procs
      /\ Duping \in SUBSET Procs /\ Duping' \in SUBSET Procs
  BY DEF Numbering, Duping<1>7. pc[p] = "dup_copy" => loc[p].next = "dup2"
  BY <1>2 DEF ArgInv, ArgOf
<1>10. ASSUME NEW v \in Vnodes, NEW can \in AccessModes, open_(p, v, can) PROVE CountInv'
  <2>1. Numbering' \subseteq Numbering \cup {p} /\ Duping' \subseteq Duping
    BY <1>10, <1>1, <1>7
       DEF open_, Moves, Entering, SameGlobal, OthersKeep, Numbering, Duping, NoLocals
  <2>2. Cardinality(Numbering') <= Cardinality(Numbering) + 1
    BY <2>1, <1>5, <1>6
  <2>3. Cardinality(Duping') <= Cardinality(Duping)
    BY <2>1, <1>5, <1>6
  <2>4. next_fd' = next_fd /\ next_struct' = next_struct + 1
        /\ next_struct + Cardinality(Duping) < setting.structs
    BY <1>10 DEF open_, MoreStructs, Duping, SameGlobal, SameStructs
  <2> QED  BY <2>2, <2>3, <2>4, <1>1, <1>2, <1>4, <1>8 DEF CountInv
<1>11. CASE open_bad_flags_(p)
  <2>1. CountsKept
    BY <1>11, <1>1
       DEF open_bad_flags_, SameStructs, SameGlobal, CountsKept, NoLocals
  <2> QED  BY <2>1, <1>3
<1>12. ASSUME NEW fd \in Fds, NEW j \in Slots, close_(p, fd, j) PROVE CountInv'
  <2>1. CountsKept
    BY <1>12, <1>1
       DEF close_, Moves, SameStructs, SameGlobal, CountsKept, NoLocals
  <2> QED  BY <2>1, <1>3
<1>13. ASSUME NEW d \in DupFds, NEW j \in Slots, NEW b \in {"dup_lock", "cl_scan"},
              dup2_(p, d, j, b)
       PROVE  CountInv'
  <2>1. Numbering' \subseteq Numbering /\ Duping' \subseteq Duping \cup {p}
    BY <1>13, <1>1, <1>7
       DEF dup2_, Moves, In, Entering, SameStructs, SameGlobal, Numbering, Duping, NoLocals
  <2>2. Cardinality(Numbering') <= Cardinality(Numbering)
    BY <2>1, <1>5, <1>6
  <2>3. Cardinality(Duping') <= Cardinality(Duping) + 1
    BY <2>1, <1>5, <1>6
  <2>4. next_fd' = next_fd /\ next_struct' = next_struct
        /\ next_struct + Cardinality(Duping) < setting.structs
    BY <1>13 DEF dup2_, MoreStructs, Duping, SameGlobal, SameStructs
  <2> QED  BY <2>2, <2>3, <2>4, <1>1, <1>2, <1>4, <1>8 DEF CountInv
<1>14. ASSUME NEW mode \in {"r", "w"}, NEW j \in Slots, transfer_(p, mode, j) PROVE CountInv'
  <2>1. CountsKept
    BY <1>14, <1>1
       DEF transfer_, Moves, SameStructs, SameGlobal, CountsKept, NoLocals
  <2> QED  BY <2>1, <1>3
<1>15. ASSUME NEW j \in Slots, lseek_(p, j) PROVE CountInv'
  <2>1. CountsKept
    BY <1>15, <1>1
       DEF lseek_, Moves, SameStructs, SameGlobal, CountsKept, NoLocals
  <2> QED  BY <2>1, <1>3
<1>16. ASSUME NEW q \in Procs, fork_(p, q) PROVE CountInv'
  <2>1. CountsKept
    BY <1>16, <1>1
       DEF fork_, SameStructs, SameGlobal, CountsKept, NoLocals
  <2> QED  BY <2>1, <1>3
<1>17. CASE exit_(p)
  <2>1. CountsKept
    BY <1>17, <1>1
       DEF exit_, Moves, SameStructs, SameGlobal, CountsKept, NoLocals
  <2> QED  BY <2>1, <1>3
<1>18. CASE get_next_fd_(p)
  <2>1. Numbering' \subseteq Numbering \ {p} /\ Duping' \subseteq Duping /\ p \in Numbering
    BY <1>18, <1>1, <1>7
       DEF get_next_fd_, Moves, OthersKeep, Numbering, Duping, NoLocals
  <2>2. Cardinality(Numbering') <= Cardinality(Numbering) - 1
    BY <2>1, <1>5, <1>6
  <2>3. Cardinality(Duping') <= Cardinality(Duping)
    BY <2>1, <1>5, <1>6
  <2>4. next_fd' = next_fd + 1 /\ next_struct' = next_struct
    BY <1>18 DEF get_next_fd_, MoreStructs, Duping, SameGlobal, SameStructs
  <2> QED  BY <2>2, <2>3, <2>4, <1>1, <1>2, <1>4, <1>8 DEF CountInv
<1>19. CASE open_put_(p)
  <2>1. CountsKept
    BY <1>19, <1>1
       DEF open_put_, Moves, Clear, SameStructs, CountsKept, NoLocals
  <2> QED  BY <2>1, <1>3
<1>20. ASSUME NEW j \in Slots, close_dupe_(p, j) PROVE CountInv'
  <2>1. CountsKept
    BY <1>20, <1>1
       DEF close_dupe_, Moves, Args, SameGlobal, CountsKept, NoLocals
  <2> QED  BY <2>1, <1>3
<1>21. ASSUME NEW j \in Slots, close_file_(p, j) PROVE CountInv'
  <2>1. CountsKept
    BY <1>21, <1>1
       DEF close_file_, Moves, Args, SameStructs, SameGlobal, CountsKept, NoLocals
  <2> QED  BY <2>1, <1>3
<1>22. CASE close_return_(p)
  <2>1. CountsKept
    BY <1>22, <1>1
       DEF close_return_, Moves, Clear, SameStructs, SameGlobal, CountsKept, NoLocals
  <2> QED  BY <2>1, <1>3
<1>23. CASE close_dup_(p)
  <2>1. CountsKept
    BY <1>23, <1>1
       DEF close_dup_, Moves, Args, SameStructs, SameGlobal, CountsKept, NoLocals
  <2> QED  BY <2>1, <1>3
<1>24. CASE close_not_found_(p)
  <2>1. CountsKept
    BY <1>24, <1>1
       DEF close_not_found_, Back, Moves, Args, SameStructs, SameGlobal, CountsKept, NoLocals
  <2> QED  BY <2>1, <1>3
<1>25. ASSUME NEW i \in Slots, destroy_file_(p, i) PROVE CountInv'
  <2>1. CountsKept
    BY <1>25, <1>1
       DEF destroy_file_, Back, Moves, Args, CountsKept, NoLocals
  <2> QED  BY <2>1, <1>3
<1>26. ASSUME NEW i \in Slots, close_shared_(p, i) PROVE CountInv'
  <2>1. CountsKept
    BY <1>26, <1>1
       DEF close_shared_, Moves, Args, SameStructs, CountsKept, NoLocals
  <2> QED  BY <2>1, <1>3
<1>27. CASE close_load_(p)
  <2>1. CountsKept
    BY <1>27, <1>1
       DEF close_load_, Moves, Args, SameStructs, SameGlobal, CountsKept, NoLocals
  <2> QED  BY <2>1, <1>3
<1>28. CASE close_store_(p)
  <2>1. CountsKept
    BY <1>28, <1>1
       DEF close_store_, Back, Moves, Args, CountsKept, NoLocals
  <2> QED  BY <2>1, <1>3
<1>29. ASSUME NEW j \in Slots, copy_file_lock_(p, j) PROVE CountInv'
  <2>1. CountsKept
    BY <1>29, <1>1
       DEF copy_file_lock_, Moves, Args, SameGlobal, CountsKept, NoLocals
  <2> QED  BY <2>1, <1>3
<1>30. CASE copy_file_store_(p)
  <2>1. CountsKept
    BY <1>30, <1>1
       DEF copy_file_store_, Moves, Args, SameGlobal, CountsKept, NoLocals
  <2> QED  BY <2>1, <1>3
<1>31. CASE dup_file_(p)
  <2>1. Numbering' \subseteq Numbering /\ Duping' \subseteq Duping \ {p} /\ p \in Duping
    BY <1>31, <1>1, <1>7
       DEF dup_file_, Moves, Clear, Leaving, Unlocking, Putting, SameGlobal, OthersKeep,
           Numbering, Duping, NoLocals
  <2>2. Cardinality(Numbering') <= Cardinality(Numbering)
    BY <2>1, <1>5, <1>6
  <2>3. Cardinality(Duping') <= Cardinality(Duping) - 1
    BY <2>1, <1>5, <1>6
  <2>4. next_fd' = next_fd /\ next_struct' = next_struct + 1
    BY <1>31 DEF dup_file_, MoreStructs, Duping, SameGlobal, SameStructs
  <2> QED  BY <2>2, <2>3, <2>4, <1>1, <1>2, <1>4, <1>8 DEF CountInv
<1>32. CASE transfer_over_(p)
  <2>1. CountsKept
    BY <1>32, <1>1
       DEF transfer_over_, Moves, Clear, SameStructs, SameGlobal, CountsKept, NoLocals
  <2> QED  BY <2>1, <1>3
<1>33. CASE transfer_begin_(p)
  <2>1. CountsKept
    BY <1>33, <1>1
       DEF transfer_begin_, Moves, Args, SameGlobal, CountsKept, NoLocals
  <2> QED  BY <2>1, <1>3
<1>34. CASE transfer_end_(p)
  <2>1. CountsKept
    BY <1>34, <1>1
       DEF transfer_end_, Moves, Clear, SameGlobal, CountsKept, NoLocals
  <2> QED  BY <2>1, <1>3
<1>35. CASE read_no_memory_(p)
  <2>1. CountsKept
    BY <1>35, <1>1
       DEF read_no_memory_, Moves, Clear, SameStructs, SameGlobal, CountsKept, NoLocals
  <2> QED  BY <2>1, <1>3
<1>36. CASE lseek_over_(p)
  <2>1. CountsKept
    BY <1>36, <1>1
       DEF lseek_over_, Moves, Clear, SameStructs, SameGlobal, CountsKept, NoLocals
  <2> QED  BY <2>1, <1>3
<1>37. CASE lseek_lock_(p)
  <2>1. CountsKept
    BY <1>37, <1>1
       DEF lseek_lock_, Moves, Args, SameGlobal, CountsKept, NoLocals
  <2> QED  BY <2>1, <1>3
<1>38. CASE lseek_set_(p)
  <2>1. CountsKept
    BY <1>38, <1>1
       DEF lseek_set_, Moves, Clear, SameGlobal, CountsKept, NoLocals
  <2> QED  BY <2>1, <1>3
<1>39. ASSUME NEW j \in Slots, copy_lock_(p, j) PROVE CountInv'
  <2>1. CountsKept
    BY <1>39, <1>1
       DEF copy_lock_, Moves, Args, SameGlobal, CountsKept, NoLocals
  <2> QED  BY <2>1, <1>3
<1>40. CASE copy_store_(p)
  <2>1. CountsKept
    BY <1>40, <1>1
       DEF copy_store_, Moves, Args, SameGlobal, CountsKept, NoLocals
  <2> QED  BY <2>1, <1>3
<1>41. ASSUME NEW b \in {"user", "lost"}, fork_done_(p, b) PROVE CountInv'
  <2>1. CountsKept
    BY <1>41, <1>1
       DEF fork_done_, Clear, SameStructs, SameGlobal, CountsKept, NoLocals
  <2> QED  BY <2>1, <1>3
<1>42. ASSUME NEW j \in Slots, exit_shared_(p, j) PROVE CountInv'
  <2>1. CountsKept
    BY <1>42, <1>1
       DEF exit_shared_, Moves, Args, SameGlobal, CountsKept, NoLocals
  <2> QED  BY <2>1, <1>3
<1>43. ASSUME NEW j \in Slots, exit_last_(p, j) PROVE CountInv'
  <2>1. CountsKept
    BY <1>43, <1>1
       DEF exit_last_, Moves, Args, SameStructs, SameGlobal, CountsKept, NoLocals
  <2> QED  BY <2>1, <1>3
<1>44. CASE close_all_load_(p)
  <2>1. CountsKept
    BY <1>44, <1>1
       DEF close_all_load_, Moves, Args, SameGlobal, CountsKept, NoLocals
  <2> QED  BY <2>1, <1>3
<1>45. CASE close_all_store_(p)
  <2>1. CountsKept
    BY <1>45, <1>1
       DEF close_all_store_, Back, Moves, Args, SameGlobal, CountsKept, NoLocals
  <2> QED  BY <2>1, <1>3
<1>46. CASE exit_done_(p)
  <2>1. CountsKept
    BY <1>46, <1>1
       DEF exit_done_, Moves, Clear, SameStructs, SameGlobal, CountsKept, NoLocals
  <2> QED  BY <2>1, <1>3
<1> QED
  BY <1>10, <1>11, <1>12, <1>13, <1>14, <1>15, <1>16, <1>17, <1>18, <1>19, <1>20, <1>21, <1>22,
     <1>23, <1>24, <1>25, <1>26, <1>27, <1>28, <1>29, <1>30, <1>31, <1>32, <1>33, <1>34, <1>35,
     <1>36, <1>37, <1>38, <1>39, <1>40, <1>41, <1>42, <1>43, <1>44, <1>45, <1>46
     DEF Normal


(* The types of the structures and of the tables after a step; the size of *)
(* the global table comes with its contents.                               *)
TableTypes2 ==
    /\ open_files \in [Slots -> Files \cup {NULL}]
    /\ global_file_lk \in Procs \cup {NULL}
    /\ files \in [Procs -> [Slots -> Files \cup {NULL}]]
    /\ ops_lock \in [Procs -> BOOLEAN]

(* No step of a process takes a structure or a table out of its type.       *)
LEMMA TypeStep ==
    ASSUME BaseInv, NEW p \in Procs, Normal(p)
    PROVE  StructTypes' /\ TableTypes2'
<1>1. /\ StructTypes /\ TableTypes /\ setting \in Settings /\ LocalTypes
  BY SameTypes DEF BaseInv, GlobalTableSound
<1>2. /\ setting' = setting /\ Slots' = Slots
  BY DEF Slots, OPEN_MAX, Normal, Moves, Back, open_, open_bad_flags_, close_, dup2_, transfer_,
         lseek_, fork_, exit_, get_next_fd_, open_put_, close_dupe_, close_file_, close_return_,
         close_dup_, close_not_found_, destroy_file_, close_shared_, close_load_, close_store_,
         copy_file_lock_, copy_file_store_, dup_file_, transfer_over_, transfer_begin_,
         transfer_end_, read_no_memory_, lseek_over_, lseek_lock_, lseek_set_, copy_lock_,
         copy_store_, fork_done_, exit_shared_, exit_last_, close_all_load_, close_all_store_,
         exit_done_
<1>3. /\ Files \subseteq Nat /\ NULL \notin Files /\ Files = 0 .. MostStructs - 1
      /\ MostStructs \in Nat /\ next_struct \in Nat
  BY <1>1, Numbers DEF StructTypes
<1>4. /\ FreshTable \in [Slots -> Files \cup {NULL}]
      /\ [i \in Slots |-> NULL] \in [Slots -> Files \cup {NULL}]
  BY <1>1, Numbers DEF FreshTable
<1>5. /\ MoreStructs \/ pc[p] = "dup_copy" =>
             next_struct \in Files /\ next_struct + 1 \in 3 .. MostStructs
      /\ \A v \in Vnodes \cup {NULL} : VOP_INCREF(v) => vn_refcount' \in [Vnodes -> Int]
      /\ \A v \in Vnodes \cup {NULL} : VOP_DECREF(v) => vn_refcount' \in [Vnodes -> Int]
  BY <1>1, NewStruct DEF StructTypes, VOP_INCREF, VOP_DECREF
<1>6. /\ \A f \in Files : file[f].vnode \in Vnodes \cup {NULL}
      /\ loc[p].tmp + 1 \in Int /\ loc[p].tmp - 1 \in Int
  <2>1. loc[p].tmp \in Int
    BY <1>1, SetLocals DEF LocalTypes
  <2>2. \A f \in Files : file[f].vnode \in Vnodes \cup {NULL}
    BY <1>1 DEF StructTypes, FileRec
  <2> QED  BY <2>1, <2>2
<1>8. /\ live \subseteq 0 .. next_struct - 1
      /\ live \cup {next_struct} \subseteq 0 .. next_struct + 1 - 1
  BY <1>1, <1>3 DEF StructTypes
<1>9. \A f \in Files : Putting(p, f) => files' \in [Procs -> [Slots -> Files \cup {NULL}]]
  BY <1>1 DEF Putting, TableTypes
<1>7. pc[p] \in UseLabels => loc[p].f \in Files
  BY DEF BaseInv, ArgInv, ArgOf
<1>10. ASSUME NEW v \in Vnodes, NEW can \in AccessModes, open_(p, v, can)
       PROVE  StructTypes' /\ TableTypes2'
  <2>0. next_struct' = next_struct + 1 /\ live' = live \cup {next_struct}
    BY <1>10
       DEF open_
  <2>1. next_struct' \in 3 .. MostStructs /\ live' \subseteq 0 .. next_struct' - 1
    <3>1. MoreStructs \/ pc[p] = "dup_copy"
      BY <1>10
         DEF open_, Moves
    <3> QED  BY <2>0, <3>1, <1>5, <1>8
  <2>5. file' \in [Files -> FileRec] /\ pos' \in [Files -> 0 .. MaxPos]
    BY <1>10, <1>1
       DEF open_, OthersKeep, StructTypes
  <2>2. refcount' \in [Files -> Int] /\ file_lock' \in [Files -> Procs \cup {NULL}]
    BY <1>10, <1>1, <1>7
       DEF open_, Moves, StructTypes, Unlocking, UseLabels
  <2>3. vn_refcount' \in [Vnodes -> Int]
    BY <1>10, <1>5, <1>6, <1>7
       DEF open_, Moves, UseLabels
  <2>4. TableTypes2'
    BY <1>10, <1>1, <1>2, <1>9
       DEF open_, SameGlobal, Entering, Leaving, TableTypes, TableTypes2
  <2> QED  BY <2>1, <2>2, <2>3, <2>4, <2>5 DEF StructTypes
<1>11. CASE open_bad_flags_(p)
  <2>1. StructTypes'
    BY <1>11, <1>1, <1>2, <1>3, <1>5
       DEF open_bad_flags_, Entering, SameStructs, SameGlobal, StructTypes
  <2>2. TableTypes2'
    BY <1>11, <1>1, <1>2, <1>3, <1>5
       DEF open_bad_flags_, Entering, SameStructs, SameGlobal, TableTypes, TableTypes2
  <2> QED  BY <2>1, <2>2
<1>12. ASSUME NEW fd \in Fds, NEW j \in Slots, close_(p, fd, j)
       PROVE  StructTypes' /\ TableTypes2'
  <2>1. StructTypes'
    BY <1>12, <1>1, <1>2, <1>3, <1>5
       DEF close_, Moves, In, Entering, SameStructs, SameGlobal, StructTypes
  <2>2. TableTypes2'
    BY <1>12, <1>1, <1>2, <1>3, <1>5
       DEF close_, Moves, In, Entering, SameStructs, SameGlobal, TableTypes, TableTypes2
  <2> QED  BY <2>1, <2>2
<1>13. ASSUME NEW d \in DupFds, NEW j \in Slots, NEW b \in {"dup_lock", "cl_scan"},
              dup2_(p, d, j, b)
       PROVE  StructTypes' /\ TableTypes2'
  <2>1. StructTypes'
    BY <1>13, <1>1, <1>2, <1>3, <1>5
       DEF dup2_, Moves, In, Entering, SameStructs, SameGlobal, StructTypes
  <2>2. TableTypes2'
    BY <1>13, <1>1, <1>2, <1>3, <1>5
       DEF dup2_, Moves, In, Entering, SameStructs, SameGlobal, TableTypes, TableTypes2
  <2> QED  BY <2>1, <2>2
<1>14. ASSUME NEW mode \in {"r", "w"}, NEW j \in Slots, transfer_(p, mode, j)
       PROVE  StructTypes' /\ TableTypes2'
  <2>1. StructTypes'
    BY <1>14, <1>1, <1>2, <1>3, <1>5
       DEF transfer_, Moves, In, Entering, SameStructs, SameGlobal, StructTypes
  <2>2. TableTypes2'
    BY <1>14, <1>1, <1>2, <1>3, <1>5
       DEF transfer_, Moves, In, Entering, SameStructs, SameGlobal, TableTypes, TableTypes2
  <2> QED  BY <2>1, <2>2
<1>15. ASSUME NEW j \in Slots, lseek_(p, j) PROVE StructTypes' /\ TableTypes2'
  <2>1. StructTypes'
    BY <1>15, <1>1, <1>2, <1>3, <1>5
       DEF lseek_, Moves, In, SameStructs, SameGlobal, StructTypes
  <2>2. TableTypes2'
    BY <1>15, <1>1, <1>2, <1>3, <1>5
       DEF lseek_, Moves, In, SameStructs, SameGlobal, TableTypes, TableTypes2
  <2> QED  BY <2>1, <2>2
<1>16. ASSUME NEW q \in Procs, fork_(p, q) PROVE StructTypes' /\ TableTypes2'
  <2>1. StructTypes'
    BY <1>16, <1>1, <1>2, <1>3, <1>5
       DEF fork_, Entering, SameStructs, SameGlobal, StructTypes
  <2>2. TableTypes2'
    BY <1>16, <1>1, <1>2, <1>3, <1>5, <1>4
       DEF fork_, Entering, SameStructs, SameGlobal, TableTypes, TableTypes2
  <2> QED  BY <2>1, <2>2
<1>17. CASE exit_(p)
  <2>1. StructTypes'
    BY <1>17, <1>1, <1>2, <1>3, <1>5
       DEF exit_, Moves, SameStructs, SameGlobal, StructTypes
  <2>2. TableTypes2'
    BY <1>17, <1>1, <1>2, <1>3, <1>5
       DEF exit_, Moves, SameStructs, SameGlobal, TableTypes, TableTypes2
  <2> QED  BY <2>1, <2>2
<1>18. CASE get_next_fd_(p)
  <2>1. StructTypes'
    BY <1>18, <1>1, <1>2, <1>3, <1>5
       DEF get_next_fd_, Moves, OthersKeep, StructTypes
  <2>2. TableTypes2'
    BY <1>18, <1>1, <1>2, <1>3, <1>5
       DEF get_next_fd_, Moves, OthersKeep, TableTypes, TableTypes2
  <2> QED  BY <2>1, <2>2
<1>19. CASE open_put_(p)
  <2>1. StructTypes'
    BY <1>19, <1>1 DEF open_put_, SameStructs, StructTypes
  <2>2. TableTypes2'
    <3>1. open_files' \in [Slots -> Files \cup {NULL}]
      BY <1>19, <1>1 DEF open_put_, Listing, TableTypes
    <3> QED  BY <1>19, <3>1, <1>1, <1>2, <1>9 DEF open_put_, Leaving, TableTypes, TableTypes2
  <2> QED  BY <2>1, <2>2
<1>20. ASSUME NEW j \in Slots, close_dupe_(p, j) PROVE StructTypes' /\ TableTypes2'
  <2>1. StructTypes'
    BY <1>20, <1>1, <1>2, <1>3, <1>5
       DEF close_dupe_, Moves, Args, In, SameGlobal, StructTypes
  <2>2. TableTypes2'
    BY <1>20, <1>1, <1>2, <1>3, <1>5
       DEF close_dupe_, Moves, Args, In, SameGlobal, TableTypes, TableTypes2
  <2> QED  BY <2>1, <2>2
<1>21. ASSUME NEW j \in Slots, close_file_(p, j) PROVE StructTypes' /\ TableTypes2'
  <2>1. StructTypes'
    BY <1>21, <1>1, <1>2, <1>3, <1>5
       DEF close_file_, Moves, Args, In, SameStructs, SameGlobal, StructTypes
  <2>2. TableTypes2'
    BY <1>21, <1>1, <1>2, <1>3, <1>5
       DEF close_file_, Moves, Args, In, SameStructs, SameGlobal, TableTypes, TableTypes2
  <2> QED  BY <2>1, <2>2
<1>22. CASE close_return_(p)
  <2>1. StructTypes'
    BY <1>22, <1>1, <1>2, <1>3, <1>5
       DEF close_return_, Moves, Clear, Leaving, SameStructs, SameGlobal, StructTypes
  <2>2. TableTypes2'
    BY <1>22, <1>1, <1>2, <1>3, <1>5
       DEF close_return_, Moves, Clear, Leaving, SameStructs, SameGlobal, TableTypes, TableTypes2
  <2> QED  BY <2>1, <2>2
<1>23. CASE close_dup_(p)
  <2>1. StructTypes'
    BY <1>23, <1>1, <1>2, <1>3, <1>5
       DEF close_dup_, Moves, Args, SameStructs, SameGlobal, StructTypes
  <2>2. TableTypes2'
    BY <1>23, <1>1, <1>2, <1>3, <1>5
       DEF close_dup_, Moves, Args, SameStructs, SameGlobal, TableTypes, TableTypes2
  <2> QED  BY <2>1, <2>2
<1>24. CASE close_not_found_(p)
  <2>1. StructTypes'
    BY <1>24, <1>1, <1>2, <1>3, <1>5
       DEF close_not_found_, Back, Moves, Args, In, SameStructs, SameGlobal, StructTypes
  <2>2. TableTypes2'
    BY <1>24, <1>1, <1>2, <1>3, <1>5
       DEF close_not_found_, Back, Moves, Args, In, SameStructs, SameGlobal, TableTypes,
           TableTypes2
  <2> QED  BY <2>1, <2>2
<1>25. ASSUME NEW i \in Slots, destroy_file_(p, i) PROVE StructTypes' /\ TableTypes2'
  <2>1. StructTypes'
    BY <1>25, <1>1, <1>2, <1>3, <1>5, <1>6
       DEF destroy_file_, Back, Moves, Args, In, StructTypes
  <2>2. TableTypes2'
    BY <1>25, <1>1, <1>2, <1>3, <1>5
       DEF destroy_file_, Back, Moves, Args, In, TableTypes, TableTypes2
  <2> QED  BY <2>1, <2>2
<1>26. ASSUME NEW i \in Slots, close_shared_(p, i) PROVE StructTypes' /\ TableTypes2'
  <2>1. StructTypes'
    BY <1>26, <1>1, <1>2, <1>3, <1>5
       DEF close_shared_, Moves, Args, SameStructs, StructTypes
  <2>2. TableTypes2'
    BY <1>26, <1>1, <1>2, <1>3, <1>5
       DEF close_shared_, Moves, Args, SameStructs, TableTypes, TableTypes2
  <2> QED  BY <2>1, <2>2
<1>27. CASE close_load_(p)
  <2>1. StructTypes'
    BY <1>27, <1>1, <1>2, <1>3, <1>5
       DEF close_load_, Moves, Args, SameStructs, SameGlobal, StructTypes
  <2>2. TableTypes2'
    BY <1>27, <1>1, <1>2, <1>3, <1>5
       DEF close_load_, Moves, Args, SameStructs, SameGlobal, TableTypes, TableTypes2
  <2> QED  BY <2>1, <2>2
<1>28. CASE close_store_(p)
  <2>1. StructTypes'
    BY <1>28, <1>1, <1>2, <1>3, <1>5, <1>6
       DEF close_store_, Back, Moves, Args, In, StructTypes
  <2>2. TableTypes2'
    BY <1>28, <1>1, <1>2, <1>3, <1>5
       DEF close_store_, Back, Moves, Args, In, TableTypes, TableTypes2
  <2> QED  BY <2>1, <2>2
<1>29. ASSUME NEW j \in Slots, copy_file_lock_(p, j) PROVE StructTypes' /\ TableTypes2'
  <2>1. StructTypes'
    BY <1>29, <1>1, <1>2, <1>3, <1>5
       DEF copy_file_lock_, Moves, Args, In, Locking, SameGlobal, StructTypes
  <2>2. TableTypes2'
    BY <1>29, <1>1, <1>2, <1>3, <1>5
       DEF copy_file_lock_, Moves, Args, In, Locking, SameGlobal, TableTypes, TableTypes2
  <2> QED  BY <2>1, <2>2
<1>30. CASE copy_file_store_(p)
  <2>1. StructTypes'
    BY <1>30, <1>1, <1>2, <1>3, <1>5, <1>6
       DEF copy_file_store_, Moves, Args, SameGlobal, StructTypes
  <2>2. TableTypes2'
    BY <1>30, <1>1, <1>2, <1>3, <1>5
       DEF copy_file_store_, Moves, Args, SameGlobal, TableTypes, TableTypes2
  <2> QED  BY <2>1, <2>2
<1>31. CASE dup_file_(p)
  <2>0. next_struct' = next_struct + 1 /\ live' = live \cup {next_struct}
    BY <1>31
       DEF dup_file_
  <2>1. next_struct' \in 3 .. MostStructs /\ live' \subseteq 0 .. next_struct' - 1
    <3>1. MoreStructs \/ pc[p] = "dup_copy"
      BY <1>31
         DEF dup_file_, Moves
    <3> QED  BY <2>0, <3>1, <1>5, <1>8
  <2>5. file' \in [Files -> FileRec] /\ pos' \in [Files -> 0 .. MaxPos]
    BY <1>31, <1>1
       DEF dup_file_, OthersKeep, StructTypes
  <2>2. refcount' \in [Files -> Int] /\ file_lock' \in [Files -> Procs \cup {NULL}]
    BY <1>31, <1>1, <1>7
       DEF dup_file_, Moves, StructTypes, Unlocking, UseLabels
  <2>3. vn_refcount' \in [Vnodes -> Int]
    BY <1>31, <1>5, <1>6, <1>7
       DEF dup_file_, Moves, UseLabels
  <2>4. TableTypes2'
    BY <1>31, <1>1, <1>2, <1>9
       DEF dup_file_, SameGlobal, Entering, Leaving, TableTypes, TableTypes2
  <2> QED  BY <2>1, <2>2, <2>3, <2>4, <2>5 DEF StructTypes
<1>32. CASE transfer_over_(p)
  <2>1. StructTypes'
    BY <1>32, <1>1, <1>2, <1>3, <1>5
       DEF transfer_over_, Moves, Clear, Leaving, SameStructs, SameGlobal, StructTypes
  <2>2. TableTypes2'
    BY <1>32, <1>1, <1>2, <1>3, <1>5
       DEF transfer_over_, Moves, Clear, Leaving, SameStructs, SameGlobal, TableTypes, TableTypes2
  <2> QED  BY <2>1, <2>2
<1>33. CASE transfer_begin_(p)
  <2>1. StructTypes'
    BY <1>33, <1>1, <1>2, <1>3, <1>5
       DEF transfer_begin_, Moves, Args, Leaving, Locking, SameGlobal, StructTypes
  <2>2. TableTypes2'
    BY <1>33, <1>1, <1>2, <1>3, <1>5
       DEF transfer_begin_, Moves, Args, Leaving, Locking, SameGlobal, TableTypes, TableTypes2
  <2> QED  BY <2>1, <2>2
<1>34. CASE transfer_end_(p)
  <2>1. StructTypes'
    BY <1>34, <1>1, <1>2, <1>3, <1>5
       DEF transfer_end_, Moves, Clear, Unlocking, SameGlobal, StructTypes
  <2>2. TableTypes2'
    BY <1>34, <1>1, <1>2, <1>3, <1>5
       DEF transfer_end_, Moves, Clear, Unlocking, SameGlobal, TableTypes, TableTypes2
  <2> QED  BY <2>1, <2>2
<1>35. CASE read_no_memory_(p)
  <2>1. StructTypes'
    BY <1>35, <1>1, <1>2, <1>3, <1>5
       DEF read_no_memory_, Moves, Clear, SameStructs, SameGlobal, StructTypes
  <2>2. TableTypes2'
    BY <1>35, <1>1, <1>2, <1>3, <1>5
       DEF read_no_memory_, Moves, Clear, SameStructs, SameGlobal, TableTypes, TableTypes2
  <2> QED  BY <2>1, <2>2
<1>36. CASE lseek_over_(p)
  <2>1. StructTypes'
    BY <1>36, <1>1, <1>2, <1>3, <1>5
       DEF lseek_over_, Moves, Clear, SameStructs, SameGlobal, StructTypes
  <2>2. TableTypes2'
    BY <1>36, <1>1, <1>2, <1>3, <1>5
       DEF lseek_over_, Moves, Clear, SameStructs, SameGlobal, TableTypes, TableTypes2
  <2> QED  BY <2>1, <2>2
<1>37. CASE lseek_lock_(p)
  <2>1. StructTypes'
    BY <1>37, <1>1, <1>2, <1>3, <1>5
       DEF lseek_lock_, Moves, Args, Locking, SameGlobal, StructTypes
  <2>2. TableTypes2'
    BY <1>37, <1>1, <1>2, <1>3, <1>5
       DEF lseek_lock_, Moves, Args, Locking, SameGlobal, TableTypes, TableTypes2
  <2> QED  BY <2>1, <2>2
<1>38. CASE lseek_set_(p)
  <2>1. StructTypes'
    BY <1>38, <1>1, <1>2, <1>3, <1>5
       DEF lseek_set_, Moves, Clear, Unlocking, SameGlobal, StructTypes
  <2>2. TableTypes2'
    BY <1>38, <1>1, <1>2, <1>3, <1>5
       DEF lseek_set_, Moves, Clear, Unlocking, SameGlobal, TableTypes, TableTypes2
  <2> QED  BY <2>1, <2>2
<1>39. ASSUME NEW j \in Slots, copy_lock_(p, j) PROVE StructTypes' /\ TableTypes2'
  <2>1. StructTypes'
    BY <1>39, <1>1, <1>2, <1>3, <1>5, <1>6
       DEF copy_lock_, Moves, Args, In, Locking, SameGlobal, StructTypes
  <2>2. TableTypes2'
    BY <1>39, <1>1, <1>2, <1>3, <1>5
       DEF copy_lock_, Moves, Args, In, Locking, SameGlobal, TableTypes, TableTypes2
  <2> QED  BY <2>1, <2>2
<1>40. CASE copy_store_(p)
  <2>1. StructTypes'
    BY <1>40, <1>1, <1>2, <1>3, <1>5, <1>6
       DEF copy_store_, Moves, Args, In, Unlocking, SameGlobal, StructTypes
  <2>2. TableTypes2'
    BY <1>40, <1>1, <1>2, <1>3, <1>5
       DEF copy_store_, Moves, Args, In, Unlocking, SameGlobal, TableTypes, TableTypes2
  <2> QED  BY <2>1, <2>2
<1>41. ASSUME NEW b \in {"user", "lost"}, fork_done_(p, b) PROVE StructTypes' /\ TableTypes2'
  <2>1. StructTypes'
    BY <1>41, <1>1, <1>2, <1>3, <1>5
       DEF fork_done_, Clear, Leaving, SameStructs, SameGlobal, StructTypes
  <2>2. TableTypes2'
    BY <1>41, <1>1, <1>2, <1>3, <1>5
       DEF fork_done_, Clear, Leaving, SameStructs, SameGlobal, TableTypes, TableTypes2
  <2> QED  BY <2>1, <2>2
<1>42. ASSUME NEW j \in Slots, exit_shared_(p, j) PROVE StructTypes' /\ TableTypes2'
  <2>1. StructTypes'
    BY <1>42, <1>1, <1>2, <1>3, <1>5
       DEF exit_shared_, Moves, Args, In, Locking, SameGlobal, StructTypes
  <2>2. TableTypes2'
    BY <1>42, <1>1, <1>2, <1>3, <1>5
       DEF exit_shared_, Moves, Args, In, Locking, SameGlobal, TableTypes, TableTypes2
  <2> QED  BY <2>1, <2>2
<1>43. ASSUME NEW j \in Slots, exit_last_(p, j) PROVE StructTypes' /\ TableTypes2'
  <2>1. StructTypes'
    BY <1>43, <1>1, <1>2, <1>3, <1>5
       DEF exit_last_, Moves, Args, In, SameStructs, SameGlobal, StructTypes
  <2>2. TableTypes2'
    BY <1>43, <1>1, <1>2, <1>3, <1>5
       DEF exit_last_, Moves, Args, In, SameStructs, SameGlobal, TableTypes, TableTypes2
  <2> QED  BY <2>1, <2>2
<1>44. CASE close_all_load_(p)
  <2>1. StructTypes'
    BY <1>44, <1>1, <1>2, <1>3, <1>5, <1>6, <1>7
       DEF close_all_load_, Moves, Args, SameGlobal, StructTypes, UseLabels
  <2>2. TableTypes2'
    BY <1>44, <1>1, <1>2, <1>3, <1>5
       DEF close_all_load_, Moves, Args, SameGlobal, TableTypes, TableTypes2
  <2> QED  BY <2>1, <2>2
<1>45. CASE close_all_store_(p)
  <2>1. StructTypes'
    BY <1>45, <1>1, <1>2, <1>3, <1>5, <1>6
       DEF close_all_store_, Unlocking, Back, Moves, Args, In, SameGlobal, StructTypes
  <2>2. TableTypes2'
    BY <1>45, <1>1, <1>2, <1>3, <1>5
       DEF close_all_store_, Unlocking, Back, Moves, Args, In, SameGlobal, TableTypes, TableTypes2
  <2> QED  BY <2>1, <2>2
<1>46. CASE exit_done_(p)
  <2>1. StructTypes'
    BY <1>46, <1>1, <1>2, <1>3, <1>5
       DEF exit_done_, Moves, Clear, SameStructs, SameGlobal, StructTypes
  <2>2. TableTypes2'
    BY <1>46, <1>1, <1>2, <1>3, <1>5, <1>4
       DEF exit_done_, Moves, Clear, SameStructs, SameGlobal, TableTypes, TableTypes2
  <2> QED  BY <2>1, <2>2
<1> QED
  BY <1>10, <1>11, <1>12, <1>13, <1>14, <1>15, <1>16, <1>17, <1>18, <1>19, <1>20, <1>21, <1>22,
     <1>23, <1>24, <1>25, <1>26, <1>27, <1>28, <1>29, <1>30, <1>31, <1>32, <1>33, <1>34, <1>35,
     <1>36, <1>37, <1>38, <1>39, <1>40, <1>41, <1>42, <1>43, <1>44, <1>45, <1>46
     DEF Normal


(* The global table lists no structure twice and none that is freed, and   *)
(* size counts them.                                                       *)
Listed == {i \in Slots : open_files[i] # NULL}
ListInv == /\ size = Cardinality(Listed)
           /\ \A i, j \in Slots : open_files[i] # NULL =>
                 open_files[i] \in live /\ (open_files[i] = open_files[j] => i = j)

(* Every step keeps the global table a list without repetitions.            *)
LEMMA GlobalStep ==
    ASSUME BaseInv, NEW p \in Procs, Normal(p)
    PROVE  ListInv'
<1>1. /\ open_files \in [Slots -> Files \cup {NULL}]
      /\ files \in [Procs -> [Slots -> Files \cup {NULL}]] /\ NULL \notin Files
      /\ setting \in Settings /\ size \in Nat
  BY SameTypes, Numbers DEF BaseInv, GlobalTableSound, TableTypes
<1>2. /\ setting' = setting /\ Slots' = Slots
  BY DEF Slots, OPEN_MAX, Normal, Moves, Back, open_, open_bad_flags_, close_, dup2_, transfer_,
         lseek_, fork_, exit_, get_next_fd_, open_put_, close_dupe_, close_file_, close_return_,
         close_dup_, close_not_found_, destroy_file_, close_shared_, close_load_, close_store_,
         copy_file_lock_, copy_file_store_, dup_file_, transfer_over_, transfer_begin_,
         transfer_end_, read_no_memory_, lseek_over_, lseek_lock_, lseek_set_, copy_lock_,
         copy_store_, fork_done_, exit_shared_, exit_last_, close_all_load_, close_all_store_,
         exit_done_
<1>3. ListInv /\ PlaceInv
  BY DEF BaseInv, GlobalTableSound, ListInv, Listed
<1>4. IsFiniteSet(Listed)
  BY <1>1, Numbers, FS_Subset DEF Listed
<1>5. open_files' = open_files /\ size' = size /\ live \subseteq live' => ListInv'
  BY <1>2, <1>3 DEF ListInv, Listed
<1>6. \A i \in Slots : /\ Cardinality(Listed \cup {i}) =
                            IF i \in Listed THEN size ELSE size + 1
                       /\ Cardinality(Listed \ {i}) = IF i \in Listed THEN size - 1 ELSE size
  BY <1>3, <1>4, FS_AddElement, FS_RemoveElement DEF ListInv
<1>10. ASSUME NEW v \in Vnodes, NEW can \in AccessModes, open_(p, v, can) PROVE ListInv'
  <2>1. open_files' = open_files /\ size' = size /\ live \subseteq live'
    BY <1>10
       DEF open_, SameGlobal
  <2> QED  BY <2>1, <1>5
<1>11. CASE open_bad_flags_(p)
  <2>1. open_files' = open_files /\ size' = size /\ live \subseteq live'
    BY <1>11
       DEF open_bad_flags_, SameStructs, SameGlobal
  <2> QED  BY <2>1, <1>5
<1>12. ASSUME NEW fd \in Fds, NEW j \in Slots, close_(p, fd, j) PROVE ListInv'
  <2>1. open_files' = open_files /\ size' = size /\ live \subseteq live'
    BY <1>12
       DEF close_, SameStructs, SameGlobal
  <2> QED  BY <2>1, <1>5
<1>13. ASSUME NEW d \in DupFds, NEW j \in Slots, NEW b \in {"dup_lock", "cl_scan"},
              dup2_(p, d, j, b)
       PROVE  ListInv'
  <2>1. open_files' = open_files /\ size' = size /\ live \subseteq live'
    BY <1>13
       DEF dup2_, SameStructs, SameGlobal
  <2> QED  BY <2>1, <1>5
<1>14. ASSUME NEW mode \in {"r", "w"}, NEW j \in Slots, transfer_(p, mode, j) PROVE ListInv'
  <2>1. open_files' = open_files /\ size' = size /\ live \subseteq live'
    BY <1>14
       DEF transfer_, SameStructs, SameGlobal
  <2> QED  BY <2>1, <1>5
<1>15. ASSUME NEW j \in Slots, lseek_(p, j) PROVE ListInv'
  <2>1. open_files' = open_files /\ size' = size /\ live \subseteq live'
    BY <1>15
       DEF lseek_, SameStructs, SameGlobal
  <2> QED  BY <2>1, <1>5
<1>16. ASSUME NEW q \in Procs, fork_(p, q) PROVE ListInv'
  <2>1. open_files' = open_files /\ size' = size /\ live \subseteq live'
    BY <1>16
       DEF fork_, SameStructs, SameGlobal
  <2> QED  BY <2>1, <1>5
<1>17. CASE exit_(p)
  <2>1. open_files' = open_files /\ size' = size /\ live \subseteq live'
    BY <1>17
       DEF exit_, SameStructs, SameGlobal
  <2> QED  BY <2>1, <1>5
<1>18. CASE get_next_fd_(p)
  <2>1. open_files' = open_files /\ size' = size /\ live \subseteq live'
    BY <1>18
       DEF get_next_fd_
  <2> QED  BY <2>1, <1>5
<1>19. CASE open_put_(p)
  <2>1. CASE UNCHANGED <<open_files, size>>
    BY <1>19, <2>1, <1>5 DEF open_put_, SameStructs
  <2>2. ASSUME NEW i \in Slots, open_files[i] = NULL, size' = size + 1,
               open_files' = [open_files EXCEPT ![i] = loc[p].f]
        PROVE  ListInv'
    <3>1. /\ loc[p].f \in live /\ loc[p].f \in Files /\ live' = live
          /\ \A j \in Slots : open_files[j] # loc[p].f
      BY <1>19, <1>1, <1>3 DEF open_put_, Moves, PlaceInv, InOpen, Public, SameStructs
    <3>2. Listed' = Listed \cup {i} /\ i \notin Listed
      BY <1>1, <1>2, <2>2, <3>1 DEF Listed
    <3> QED  BY <1>1, <1>2, <1>3, <1>6, <2>2, <3>1, <3>2 DEF ListInv
  <2> QED  BY <1>19, <2>1, <2>2 DEF open_put_, Listing
<1>20. ASSUME NEW j \in Slots, close_dupe_(p, j) PROVE ListInv'
  <2>1. /\ open_files' = open_files /\ size' = size
        /\ \A i \in Slots : open_files[i] # NULL => open_files[i] # files[p][j]
    BY <1>20, <1>3 DEF close_dupe_, SameGlobal, PlaceInv
  <2>2. live' = live \ {files[p][j]}
    BY <1>20 DEF close_dupe_
  <2> QED  BY <2>1, <2>2, <1>2, <1>3 DEF ListInv, Listed
<1>21. ASSUME NEW j \in Slots, close_file_(p, j) PROVE ListInv'
  <2>1. open_files' = open_files /\ size' = size /\ live \subseteq live'
    BY <1>21
       DEF close_file_, SameStructs, SameGlobal
  <2> QED  BY <2>1, <1>5
<1>22. CASE close_return_(p)
  <2>1. open_files' = open_files /\ size' = size /\ live \subseteq live'
    BY <1>22
       DEF close_return_, SameStructs, SameGlobal
  <2> QED  BY <2>1, <1>5
<1>23. CASE close_dup_(p)
  <2>1. open_files' = open_files /\ size' = size /\ live \subseteq live'
    BY <1>23
       DEF close_dup_, SameStructs, SameGlobal
  <2> QED  BY <2>1, <1>5
<1>24. CASE close_not_found_(p)
  <2>1. open_files' = open_files /\ size' = size /\ live \subseteq live'
    BY <1>24
       DEF close_not_found_, SameStructs, SameGlobal
  <2> QED  BY <2>1, <1>5
<1>25. ASSUME NEW i \in Slots, destroy_file_(p, i) PROVE ListInv'
  <2>1. /\ open_files' = [open_files EXCEPT ![i] = NULL] /\ size' = size - 1
        /\ live' = live \ {open_files[i]} /\ open_files[i] \in Files
    BY <1>25 DEF destroy_file_
  <2>2. Listed' = Listed \ {i} /\ i \in Listed
    BY <1>1, <1>2, <2>1 DEF Listed
  <2> QED  BY <1>1, <1>2, <1>3, <1>6, <2>1, <2>2 DEF ListInv
<1>26. ASSUME NEW i \in Slots, close_shared_(p, i) PROVE ListInv'
  <2>1. open_files' = open_files /\ size' = size /\ live \subseteq live'
    BY <1>26
       DEF close_shared_, SameStructs
  <2> QED  BY <2>1, <1>5
<1>27. CASE close_load_(p)
  <2>1. open_files' = open_files /\ size' = size /\ live \subseteq live'
    BY <1>27
       DEF close_load_, SameStructs, SameGlobal
  <2> QED  BY <2>1, <1>5
<1>28. CASE close_store_(p)
  <2>1. open_files' = open_files /\ size' = size /\ live \subseteq live'
    BY <1>28
       DEF close_store_
  <2> QED  BY <2>1, <1>5
<1>29. ASSUME NEW j \in Slots, copy_file_lock_(p, j) PROVE ListInv'
  <2>1. open_files' = open_files /\ size' = size /\ live \subseteq live'
    BY <1>29
       DEF copy_file_lock_, SameGlobal
  <2> QED  BY <2>1, <1>5
<1>30. CASE copy_file_store_(p)
  <2>1. open_files' = open_files /\ size' = size /\ live \subseteq live'
    BY <1>30
       DEF copy_file_store_, SameGlobal
  <2> QED  BY <2>1, <1>5
<1>31. CASE dup_file_(p)
  <2>1. open_files' = open_files /\ size' = size /\ live \subseteq live'
    BY <1>31
       DEF dup_file_, SameGlobal
  <2> QED  BY <2>1, <1>5
<1>32. CASE transfer_over_(p)
  <2>1. open_files' = open_files /\ size' = size /\ live \subseteq live'
    BY <1>32
       DEF transfer_over_, SameStructs, SameGlobal
  <2> QED  BY <2>1, <1>5
<1>33. CASE transfer_begin_(p)
  <2>1. open_files' = open_files /\ size' = size /\ live \subseteq live'
    BY <1>33
       DEF transfer_begin_, SameGlobal
  <2> QED  BY <2>1, <1>5
<1>34. CASE transfer_end_(p)
  <2>1. open_files' = open_files /\ size' = size /\ live \subseteq live'
    BY <1>34
       DEF transfer_end_, SameGlobal
  <2> QED  BY <2>1, <1>5
<1>35. CASE read_no_memory_(p)
  <2>1. open_files' = open_files /\ size' = size /\ live \subseteq live'
    BY <1>35
       DEF read_no_memory_, SameStructs, SameGlobal
  <2> QED  BY <2>1, <1>5
<1>36. CASE lseek_over_(p)
  <2>1. open_files' = open_files /\ size' = size /\ live \subseteq live'
    BY <1>36
       DEF lseek_over_, SameStructs, SameGlobal
  <2> QED  BY <2>1, <1>5
<1>37. CASE lseek_lock_(p)
  <2>1. open_files' = open_files /\ size' = size /\ live \subseteq live'
    BY <1>37
       DEF lseek_lock_, SameGlobal
  <2> QED  BY <2>1, <1>5
<1>38. CASE lseek_set_(p)
  <2>1. open_files' = open_files /\ size' = size /\ live \subseteq live'
    BY <1>38
       DEF lseek_set_, SameGlobal
  <2> QED  BY <2>1, <1>5
<1>39. ASSUME NEW j \in Slots, copy_lock_(p, j) PROVE ListInv'
  <2>1. open_files' = open_files /\ size' = size /\ live \subseteq live'
    BY <1>39
       DEF copy_lock_, SameGlobal
  <2> QED  BY <2>1, <1>5
<1>40. CASE copy_store_(p)
  <2>1. open_files' = open_files /\ size' = size /\ live \subseteq live'
    BY <1>40
       DEF copy_store_, SameGlobal
  <2> QED  BY <2>1, <1>5
<1>41. ASSUME NEW b \in {"user", "lost"}, fork_done_(p, b) PROVE ListInv'
  <2>1. open_files' = open_files /\ size' = size /\ live \subseteq live'
    BY <1>41
       DEF fork_done_, SameStructs, SameGlobal
  <2> QED  BY <2>1, <1>5
<1>42. ASSUME NEW j \in Slots, exit_shared_(p, j) PROVE ListInv'
  <2>1. open_files' = open_files /\ size' = size /\ live \subseteq live'
    BY <1>42
       DEF exit_shared_, SameGlobal
  <2> QED  BY <2>1, <1>5
<1>43. ASSUME NEW j \in Slots, exit_last_(p, j) PROVE ListInv'
  <2>1. open_files' = open_files /\ size' = size /\ live \subseteq live'
    BY <1>43
       DEF exit_last_, SameStructs, SameGlobal
  <2> QED  BY <2>1, <1>5
<1>44. CASE close_all_load_(p)
  <2>1. open_files' = open_files /\ size' = size /\ live \subseteq live'
    BY <1>44
       DEF close_all_load_, SameGlobal
  <2> QED  BY <2>1, <1>5
<1>45. CASE close_all_store_(p)
  <2>1. open_files' = open_files /\ size' = size /\ live \subseteq live'
    BY <1>45
       DEF close_all_store_, SameGlobal
  <2> QED  BY <2>1, <1>5
<1>46. CASE exit_done_(p)
  <2>1. open_files' = open_files /\ size' = size /\ live \subseteq live'
    BY <1>46
       DEF exit_done_, SameStructs, SameGlobal
  <2> QED  BY <2>1, <1>5
<1> QED
  BY <1>10, <1>11, <1>12, <1>13, <1>14, <1>15, <1>16, <1>17, <1>18, <1>19, <1>20, <1>21, <1>22,
     <1>23, <1>24, <1>25, <1>26, <1>27, <1>28, <1>29, <1>30, <1>31, <1>32, <1>33, <1>34, <1>35,
     <1>36, <1>37, <1>38, <1>39, <1>40, <1>41, <1>42, <1>43, <1>44, <1>45, <1>46
     DEF Normal

(* The types and the global table after a step.                            *)
LEMMA SoundStep ==
    ASSUME BaseInv, NEW p \in Procs, Call(p) \/ Step(p), Normal(p)
    PROVE  GlobalTableSound' /\ CountInv'
<1>1. CountInv' /\ StructTypes' /\ TableTypes2' /\ ListInv' /\ LocalTypes'
  BY CountStep, TypeStep, GlobalStep, LocalStep
<1>2. setting' = setting /\ Slots' = Slots /\ OPEN_MAX' = OPEN_MAX /\ setting \in Settings
  BY SameSetting, SameTypes DEF Next, BaseInv, GlobalTableSound
<1>3. panic' \in BOOLEAN
  <2>1. panic \in BOOLEAN
    BY SameTypes DEF BaseInv, GlobalTableSound
  <2> QED  BY <2>1
     DEF Normal, Moves, Back, open_, open_bad_flags_, close_, dup2_, transfer_, lseek_, fork_,
         exit_, get_next_fd_, open_put_, close_dupe_, close_file_, close_return_, close_dup_,
         close_not_found_, destroy_file_, close_shared_, close_load_, close_store_,
         copy_file_lock_, copy_file_store_, dup_file_, transfer_over_, transfer_begin_,
         transfer_end_, read_no_memory_, lseek_over_, lseek_lock_, lseek_set_, copy_lock_,
         copy_store_, fork_done_, exit_shared_, exit_last_, close_all_load_, close_all_store_,
         exit_done_
<1>4. size' \in 0 .. OPEN_MAX'
  <2>1. IsFiniteSet(Slots) /\ Cardinality(Slots) = OPEN_MAX
    BY <1>2, Numbers, FS_Interval DEF Slots
  <2>2. Listed' \subseteq Slots
    BY <1>2 DEF Listed
  <2>3. Cardinality(Listed') \in Nat /\ Cardinality(Listed') <= OPEN_MAX
    BY <2>1, <2>2, FS_Subset, FS_CardinalityType
  <2> QED  BY <1>1, <1>2, <2>3, Numbers DEF ListInv
<1>5. next_fd' \in 3 .. MostStructs
  <2>1. next_fd' = next_fd \/ next_fd' = next_fd + 1
    BY DEF Normal, SameGlobal, open_, open_bad_flags_, close_, dup2_, transfer_, lseek_, fork_,
           exit_, get_next_fd_, open_put_, close_dupe_, close_file_, close_return_, close_dup_,
           close_not_found_, destroy_file_, close_shared_, close_load_, close_store_,
           copy_file_lock_, copy_file_store_, dup_file_, transfer_over_, transfer_begin_,
           transfer_end_, read_no_memory_, lseek_over_, lseek_lock_, lseek_set_, copy_lock_,
           copy_store_, fork_done_, exit_shared_, exit_last_, close_all_load_, close_all_store_,
           exit_done_
  <2>3. next_fd \in Nat /\ next_fd >= 3
    BY SameTypes, Numbers DEF BaseInv, GlobalTableSound, TableTypes
  <2>2. Cardinality(Numbering') \in Nat
    BY SomeProcs DEF Numbering
  <2> QED  BY <1>1, <1>2, <2>1, <2>2, <2>3, Numbers, Bounds DEF CountInv, StructTypes
<1>6. TypeOK'
  BY <1>1, <1>2, <1>3, <1>4, <1>5
     DEF TypeOK, StructTypes, TableTypes2, LocalTypes
<1> QED  BY <1>1, <1>6 DEF GlobalTableSound, ListInv, Listed



(* What the step of p does to the other processes: it makes and fills the  *)
(* table of a child, and starts it.                                        *)
OtherStep(q) ==
    /\ loc'[q] = loc[q]
    /\ \/ pc'[q] = pc[q] /\ files'[q] = files[q]
       \/ pc[q] = "new" /\ pc'[q] = "new"
       \/ pc[q] = "none" /\ pc'[q] = "new" /\ files'[q] = FreshTable
       \/ pc[q] = "new" /\ pc'[q] \in {"user", "lost"} /\ files'[q] = files[q]

(* What the step of one process may do to the others: only fork touches     *)
(* another process, its own child.                                          *)
LEMMA Others ==
    ASSUME BaseInv, NEW p \in Procs, Normal(p)
    PROVE  /\ \A q \in Procs \ {p} : OtherStep(q)
           /\ setting' = setting /\ Slots' = Slots /\ OPEN_MAX' = OPEN_MAX /\ Careful' = Careful
<1>1. /\ files \in [Procs -> [Slots -> Files \cup {NULL}]]
  BY SameTypes DEF BaseInv, GlobalTableSound, TableTypes
<1>2. ChildInv
  BY DEF BaseInv
<1>3. setting' = setting
  BY DEF Normal, Moves, Back, open_, open_bad_flags_, close_, dup2_, transfer_, lseek_, fork_,
         exit_, get_next_fd_, open_put_, close_dupe_, close_file_, close_return_, close_dup_,
         close_not_found_, destroy_file_, close_shared_, close_load_, close_store_,
         copy_file_lock_, copy_file_store_, dup_file_, transfer_over_, transfer_begin_,
         transfer_end_, read_no_memory_, lseek_over_, lseek_lock_, lseek_set_, copy_lock_,
         copy_store_, fork_done_, exit_shared_, exit_last_, close_all_load_, close_all_store_,
         exit_done_
<1>4. \A q \in Procs \ {p} : OtherStep(q)
  <2>10. ASSUME NEW v \in Vnodes, NEW can \in AccessModes, open_(p, v, can)
         PROVE  \A q \in Procs \ {p} : OtherStep(q)
    BY <2>10, <1>1
       DEF open_, Moves, SameGlobal, create_file, OtherStep
  <2>11. CASE open_bad_flags_(p)
    BY <2>11, <1>1
       DEF open_bad_flags_, SameStructs, SameGlobal, OtherStep
  <2>12. ASSUME NEW fd \in Fds, NEW j \in Slots, close_(p, fd, j)
         PROVE  \A q \in Procs \ {p} : OtherStep(q)
    BY <2>12, <1>1
       DEF close_, Moves, SameStructs, SameGlobal, OtherStep
  <2>13. ASSUME NEW d \in DupFds, NEW j \in Slots, NEW b \in {"dup_lock", "cl_scan"},
                dup2_(p, d, j, b)
         PROVE  \A q \in Procs \ {p} : OtherStep(q)
    BY <2>13, <1>1
       DEF dup2_, Moves, SameStructs, SameGlobal, OtherStep
  <2>14. ASSUME NEW mode \in {"r", "w"}, NEW j \in Slots, transfer_(p, mode, j)
         PROVE  \A q \in Procs \ {p} : OtherStep(q)
    BY <2>14, <1>1
       DEF transfer_, Moves, SameStructs, SameGlobal, OtherStep
  <2>15. ASSUME NEW j \in Slots, lseek_(p, j) PROVE \A q \in Procs \ {p} : OtherStep(q)
    BY <2>15, <1>1
       DEF lseek_, Moves, SameStructs, SameGlobal, OtherStep
  <2>16. ASSUME NEW c \in Procs, fork_(p, c) PROVE \A q \in Procs \ {p} : OtherStep(q)
    BY <2>16, <1>1
       DEF fork_, SameStructs, SameGlobal, OtherStep
  <2>17. CASE exit_(p)
    BY <2>17, <1>1
       DEF exit_, Moves, SameStructs, SameGlobal, OtherStep
  <2>18. CASE get_next_fd_(p)
    BY <2>18, <1>1
       DEF get_next_fd_, Moves, OtherStep
  <2>19. CASE open_put_(p)
    BY <2>19, <1>1
       DEF open_put_, Moves, Putting, SameStructs, OtherStep
  <2>20. ASSUME NEW j \in Slots, close_dupe_(p, j) PROVE \A q \in Procs \ {p} : OtherStep(q)
    BY <2>20, <1>1
       DEF close_dupe_, Moves, SameGlobal, OtherStep
  <2>21. ASSUME NEW j \in Slots, close_file_(p, j) PROVE \A q \in Procs \ {p} : OtherStep(q)
    BY <2>21, <1>1
       DEF close_file_, Moves, SameStructs, SameGlobal, OtherStep
  <2>22. CASE close_return_(p)
    BY <2>22, <1>1
       DEF close_return_, Moves, SameStructs, SameGlobal, OtherStep
  <2>23. CASE close_dup_(p)
    BY <2>23, <1>1
       DEF close_dup_, Moves, SameStructs, SameGlobal, OtherStep
  <2>24. CASE close_not_found_(p)
    BY <2>24, <1>1
       DEF close_not_found_, Back, Moves, SameStructs, SameGlobal, OtherStep
  <2>25. ASSUME NEW i \in Slots, destroy_file_(p, i) PROVE \A q \in Procs \ {p} : OtherStep(q)
    BY <2>25, <1>1
       DEF destroy_file_, Back, Moves, OtherStep
  <2>26. ASSUME NEW i \in Slots, close_shared_(p, i) PROVE \A q \in Procs \ {p} : OtherStep(q)
    BY <2>26, <1>1
       DEF close_shared_, Moves, SameStructs, OtherStep
  <2>27. CASE close_load_(p)
    BY <2>27, <1>1
       DEF close_load_, Moves, SameStructs, SameGlobal, OtherStep
  <2>28. CASE close_store_(p)
    BY <2>28, <1>1
       DEF close_store_, Back, Moves, OtherStep
  <2>29. ASSUME NEW j \in Slots, copy_file_lock_(p, j) PROVE \A q \in Procs \ {p} : OtherStep(q)
    BY <2>29, <1>1
       DEF copy_file_lock_, Moves, SameGlobal, OtherStep
  <2>30. CASE copy_file_store_(p)
    BY <2>30, <1>1
       DEF copy_file_store_, Moves, SameGlobal, OtherStep
  <2>31. CASE dup_file_(p)
    BY <2>31, <1>1
       DEF dup_file_, Moves, Putting, SameGlobal, OtherStep
  <2>32. CASE transfer_over_(p)
    BY <2>32, <1>1
       DEF transfer_over_, Moves, SameStructs, SameGlobal, OtherStep
  <2>33. CASE transfer_begin_(p)
    BY <2>33, <1>1
       DEF transfer_begin_, Moves, SameGlobal, OtherStep
  <2>34. CASE transfer_end_(p)
    BY <2>34, <1>1
       DEF transfer_end_, Moves, SameGlobal, OtherStep
  <2>35. CASE read_no_memory_(p)
    BY <2>35, <1>1
       DEF read_no_memory_, Moves, SameStructs, SameGlobal, OtherStep
  <2>36. CASE lseek_over_(p)
    BY <2>36, <1>1
       DEF lseek_over_, Moves, SameStructs, SameGlobal, OtherStep
  <2>37. CASE lseek_lock_(p)
    BY <2>37, <1>1
       DEF lseek_lock_, Moves, SameGlobal, OtherStep
  <2>38. CASE lseek_set_(p)
    BY <2>38, <1>1
       DEF lseek_set_, Moves, SameGlobal, OtherStep
  <2>39. ASSUME NEW j \in Slots, copy_lock_(p, j) PROVE \A q \in Procs \ {p} : OtherStep(q)
    BY <2>39, <1>1
       DEF copy_lock_, Moves, SameGlobal, OtherStep
  <2>40. CASE copy_store_(p)
    BY <2>40, <1>1, <1>2
       DEF copy_store_, Moves, SameGlobal, OtherStep, ChildInv, ForkLabels
  <2>41. ASSUME NEW b \in {"user", "lost"}, fork_done_(p, b)
         PROVE  \A q \in Procs \ {p} : OtherStep(q)
    BY <2>41, <1>1, <1>2
       DEF fork_done_, SameStructs, SameGlobal, OtherStep, ChildInv, ForkLabels
  <2>42. ASSUME NEW j \in Slots, exit_shared_(p, j) PROVE \A q \in Procs \ {p} : OtherStep(q)
    BY <2>42, <1>1
       DEF exit_shared_, Moves, SameGlobal, OtherStep
  <2>43. ASSUME NEW j \in Slots, exit_last_(p, j) PROVE \A q \in Procs \ {p} : OtherStep(q)
    BY <2>43, <1>1
       DEF exit_last_, Moves, SameStructs, SameGlobal, OtherStep
  <2>44. CASE close_all_load_(p)
    BY <2>44, <1>1
       DEF close_all_load_, Moves, SameGlobal, OtherStep
  <2>45. CASE close_all_store_(p)
    BY <2>45, <1>1
       DEF close_all_store_, Back, Moves, SameGlobal, OtherStep
  <2>46. CASE exit_done_(p)
    BY <2>46, <1>1
       DEF exit_done_, Moves, SameStructs, SameGlobal, OtherStep
  <2> QED
    BY <2>10, <2>11, <2>12, <2>13, <2>14, <2>15, <2>16, <2>17, <2>18, <2>19, <2>20, <2>21, <2>22,
       <2>23, <2>24, <2>25, <2>26, <2>27, <2>28, <2>29, <2>30, <2>31, <2>32, <2>33, <2>34, <2>35,
       <2>36, <2>37, <2>38, <2>39, <2>40, <2>41, <2>42, <2>43, <2>44, <2>45, <2>46
       DEF Normal
<1> QED  BY <1>3, <1>4 DEF Slots, OPEN_MAX, Careful

(* What the open calls in progress work on.                                *)
LEMMA OpenStep ==
    ASSUME BaseInv, NEW p \in Procs, Normal(p)
    PROVE  /\ \A q \in Procs \ {p} : (q \in InOpen' <=> q \in InOpen) /\ loc'[q] = loc[q]
           /\ p \in InOpen' =>
                 \/ p \in InOpen /\ loc'[p].f = loc[p].f /\ next_struct' = next_struct
                 \/ p \notin InOpen /\ loc'[p].f = next_struct /\ next_struct' = next_struct + 1
           /\ p \in InOpen /\ p \notin InOpen' => pc[p] = "op_put"
           /\ next_struct' \in {next_struct, next_struct + 1}
<1>1. /\ next_struct \in Nat
  BY SameTypes, Numbers DEF BaseInv, GlobalTableSound, StructTypes
<1>2. \A q \in Procs \ {p} : (q \in InOpen' <=> q \in InOpen) /\ loc'[q] = loc[q]
  BY Others DEF OtherStep, InOpen
<1>3. next_struct' \in {next_struct, next_struct + 1}
  BY DEF Normal, SameStructs, open_, open_bad_flags_, close_, dup2_, transfer_, lseek_, fork_,
         exit_, get_next_fd_, open_put_, close_dupe_, close_file_, close_return_, close_dup_,
         close_not_found_, destroy_file_, close_shared_, close_load_, close_store_,
         copy_file_lock_, copy_file_store_, dup_file_, transfer_over_, transfer_begin_,
         transfer_end_, read_no_memory_, lseek_over_, lseek_lock_, lseek_set_, copy_lock_,
         copy_store_, fork_done_, exit_shared_, exit_last_, close_all_load_, close_all_store_,
         exit_done_
<1>4. /\ p \in InOpen' =>
                 \/ p \in InOpen /\ loc'[p].f = loc[p].f /\ next_struct' = next_struct
                 \/ p \notin InOpen /\ loc'[p].f = next_struct /\ next_struct' = next_struct + 1
      /\ p \in InOpen /\ p \notin InOpen' => pc[p] = "op_put"
  <2>1. pc'[p] \in {"op_fd", "op_put"} =>
            \/ pc[p] = "user" /\ loc'[p].f = next_struct /\ next_struct' = next_struct + 1
            \/ pc[p] = "op_fd" /\ loc'[p] = loc[p] /\ next_struct' = next_struct
            \/ pc'[p] = pc[p] /\ loc'[p] = loc[p] /\ next_struct' = next_struct
    BY DEF Normal, Moves, Back, SameStructs, open_, open_bad_flags_, close_, dup2_, transfer_,
           lseek_, fork_, exit_, get_next_fd_, open_put_, close_dupe_, close_file_,
           close_return_, close_dup_, close_not_found_, destroy_file_, close_shared_,
           close_load_, close_store_, copy_file_lock_, copy_file_store_, dup_file_,
           transfer_over_, transfer_begin_, transfer_end_, read_no_memory_, lseek_over_,
           lseek_lock_, lseek_set_, copy_lock_, copy_store_, fork_done_, exit_shared_,
           exit_last_, close_all_load_, close_all_store_, exit_done_
  <2>2. pc[p] = "op_fd" /\ pc'[p] # "op_put" => pc'[p] = "op_fd"
    BY DEF Normal, Moves, Back, open_, open_bad_flags_, close_, dup2_, transfer_, lseek_, fork_,
           exit_, get_next_fd_, open_put_, close_dupe_, close_file_, close_return_, close_dup_,
           close_not_found_, destroy_file_, close_shared_, close_load_, close_store_,
           copy_file_lock_, copy_file_store_, dup_file_, transfer_over_, transfer_begin_,
           transfer_end_, read_no_memory_, lseek_over_, lseek_lock_, lseek_set_, copy_lock_,
           copy_store_, fork_done_, exit_shared_, exit_last_, close_all_load_, close_all_store_,
           exit_done_
  <2> QED  BY <2>1, <2>2 DEF InOpen
<1> QED  BY <1>2, <1>3, <1>4

(* A structure that is public stays so.                                    *)
PublicNext(f) == f \in 0 .. next_struct' - 1 /\ \A p \in InOpen' : loc'[p].f # f

(* A structure that is public stays so.                                     *)
LEMMA PublicStays ==
    ASSUME BaseInv, NEW p \in Procs, Normal(p), NEW f, Public(f)
    PROVE  PublicNext(f)
<1>1. next_struct \in Nat
  BY SameTypes, Numbers DEF BaseInv, GlobalTableSound, StructTypes
<1>2. f \in 0 .. next_struct' - 1
  BY <1>1, OpenStep DEF Public
<1>3. ASSUME NEW q \in Procs, q \in InOpen' PROVE loc'[q].f # f
  <2>1. CASE q # p
    BY <1>3, <2>1, OpenStep DEF Public
  <2>2. CASE q = p
    BY <1>1, <1>3, <2>2, OpenStep DEF Public
  <2> QED  BY <2>1, <2>2
<1>4. InOpen' \subseteq Procs
  BY DEF InOpen
<1> QED  BY <1>2, <1>3, <1>4 DEF PublicNext



(* The locals after a step.                                                *)
LEMMA ArgStep ==
    ASSUME BaseInv, NEW p \in Procs, Normal(p)
    PROVE  ArgInv'
<1>1. /\ files \in [Procs -> [Slots -> Files \cup {NULL}]] /\ NULL \notin Files
      /\ setting \in Settings /\ Slots' = Slots /\ next_struct \in Nat
  BY Others, SameTypes, Numbers DEF BaseInv, GlobalTableSound, TableTypes, StructTypes
<1>2. ArgOf(p) /\ ArgInv
  BY DEF BaseInv, ArgInv
<1>3. ASSUME NEW q \in Procs \ {p} PROVE ArgOf(q)'
  <2>1. ArgOf(q) /\ OtherStep(q)
    BY <1>2, Others DEF ArgInv
  <2>2. CASE pc'[q] = pc[q] /\ files'[q] = files[q]
    BY <1>1, <2>1, <2>2 DEF ArgOf, OtherStep
  <2>3. CASE pc'[q] \in {"new", "user", "lost"} /\ pc[q] \in {"new", "none"}
    <3>1. loc'[q] = loc[q] /\ loc[q].next # "exit"
      BY <2>1, <2>3 DEF ArgOf, OtherStep, GlobalLabels
    <3> QED  BY <2>3, <3>1 DEF ArgOf, OpenLabels, GlobalLabels, UseLabels
  <2> QED  BY <2>1, <2>2, <2>3 DEF OtherStep
<1>5. /\ loc[p].next \in {"", "close", "dup2", "exit"}
      /\ \A j \in Slots : files[p][j] # NULL => files[p][j] \in Files
  <2>1. loc[p] \in Locals
    BY SameTypes DEF BaseInv, GlobalTableSound, LocalTypes
  <2>2. loc[p].next \in {"", "close", "dup2", "exit"}
    BY <2>1, SetLocals
  <2> QED  BY <1>1, <2>2
<1>6. \A from \in GlobalLabels : Back(p, from) => ArgOf(p)'
  BY <1>1, <1>2, <1>5 DEF Back, Args, Moves, ArgOf, OpenLabels, GlobalLabels, UseLabels
<1>4. ArgOf(p)'
  <2>10. ASSUME NEW v \in Vnodes, NEW can \in AccessModes, open_(p, v, can) PROVE ArgOf(p)'
    BY <2>10, <1>1, <1>2
       DEF open_, Moves, SameGlobal, create_file, ArgOf, OpenLabels, GlobalLabels, ForkLabels,
           UseLabels
  <2>11. CASE open_bad_flags_(p)
    BY <2>11, <1>1, <1>2
       DEF open_bad_flags_, SameStructs, SameGlobal, ArgOf, OpenLabels, GlobalLabels, ForkLabels,
           UseLabels
  <2>12. ASSUME NEW fd \in Fds, NEW j \in Slots, close_(p, fd, j) PROVE ArgOf(p)'
    BY <2>12, <1>1, <1>2
       DEF close_, Moves, In, SameStructs, SameGlobal, ArgOf, OpenLabels, GlobalLabels,
           ForkLabels,
           UseLabels
  <2>13. ASSUME NEW d \in DupFds, NEW j \in Slots, NEW b \in {"dup_lock", "cl_scan"},
                dup2_(p, d, j, b)
         PROVE  ArgOf(p)'
    BY <2>13, <1>1, <1>2
       DEF dup2_, Moves, In, SameStructs, SameGlobal, ArgOf, OpenLabels, GlobalLabels, ForkLabels,
           UseLabels
  <2>14. ASSUME NEW mode \in {"r", "w"}, NEW j \in Slots, transfer_(p, mode, j) PROVE ArgOf(p)'
    BY <2>14, <1>1, <1>2, <1>5
       DEF transfer_, Moves, In, SameStructs, SameGlobal, ArgOf, OpenLabels, GlobalLabels,
           ForkLabels, UseLabels
  <2>15. ASSUME NEW j \in Slots, lseek_(p, j) PROVE ArgOf(p)'
    BY <2>15, <1>1, <1>2, <1>5
       DEF lseek_, Moves, In, SameStructs, SameGlobal, ArgOf, OpenLabels, GlobalLabels,
           ForkLabels,
           UseLabels
  <2>16. ASSUME NEW q \in Procs, fork_(p, q) PROVE ArgOf(p)'
    BY <2>16, <1>1, <1>2
       DEF fork_, SameStructs, SameGlobal, ArgOf, OpenLabels, GlobalLabels, ForkLabels, UseLabels
  <2>17. CASE exit_(p)
    BY <2>17, <1>1, <1>2
       DEF exit_, Moves, SameStructs, SameGlobal, ArgOf, OpenLabels, GlobalLabels, ForkLabels,
           UseLabels
  <2>18. CASE get_next_fd_(p)
    BY <2>18, <1>1, <1>2
       DEF get_next_fd_, Moves, ArgOf, OpenLabels, GlobalLabels, ForkLabels, UseLabels
  <2>19. CASE open_put_(p)
    BY <2>19, <1>1, <1>2
       DEF open_put_, Moves, Clear, SameStructs, ArgOf, OpenLabels, GlobalLabels, ForkLabels,
           UseLabels
  <2>20. ASSUME NEW j \in Slots, close_dupe_(p, j) PROVE ArgOf(p)'
    BY <2>20, <1>1, <1>2
       DEF close_dupe_, Moves, Args, In, SameGlobal, ArgOf, OpenLabels, GlobalLabels, ForkLabels,
           UseLabels
  <2>21. ASSUME NEW j \in Slots, close_file_(p, j) PROVE ArgOf(p)'
    BY <2>21, <1>1, <1>2
       DEF close_file_, Moves, Args, In, SameStructs, SameGlobal, ArgOf, OpenLabels, GlobalLabels,
           ForkLabels, UseLabels
  <2>22. CASE close_return_(p)
    BY <2>22, <1>1, <1>2
       DEF close_return_, Moves, Clear, SameStructs, SameGlobal, ArgOf, OpenLabels, GlobalLabels,
           ForkLabels, UseLabels
  <2>23. CASE close_dup_(p)
    BY <2>23, <1>1, <1>2
       DEF close_dup_, Moves, Args, SameStructs, SameGlobal, ArgOf, OpenLabels, GlobalLabels,
           ForkLabels, UseLabels
  <2>24. CASE close_not_found_(p)
    BY <2>24, <1>6 DEF close_not_found_, GlobalLabels
  <2>25. ASSUME NEW i \in Slots, destroy_file_(p, i) PROVE ArgOf(p)'
    BY <2>25, <1>6 DEF destroy_file_, GlobalLabels
  <2>26. ASSUME NEW i \in Slots, close_shared_(p, i) PROVE ArgOf(p)'
    BY <2>26, <1>1, <1>2
       DEF close_shared_, Moves, Args, SameStructs, ArgOf, OpenLabels, GlobalLabels, ForkLabels,
           UseLabels
  <2>27. CASE close_load_(p)
    BY <2>27, <1>1, <1>2
       DEF close_load_, Moves, Args, SameStructs, SameGlobal, ArgOf, OpenLabels, GlobalLabels,
           ForkLabels, UseLabels
  <2>28. CASE close_store_(p)
    BY <2>28, <1>6 DEF close_store_, GlobalLabels
  <2>29. ASSUME NEW j \in Slots, copy_file_lock_(p, j) PROVE ArgOf(p)'
    BY <2>29, <1>1, <1>2
       DEF copy_file_lock_, Moves, Args, In, Locking, SameGlobal, ArgOf, OpenLabels, GlobalLabels,
           ForkLabels, UseLabels
  <2>30. CASE copy_file_store_(p)
    BY <2>30, <1>1, <1>2
       DEF copy_file_store_, Moves, Args, SameGlobal, ArgOf, OpenLabels, GlobalLabels, ForkLabels,
           UseLabels
  <2>31. CASE dup_file_(p)
    BY <2>31, <1>1, <1>2
       DEF dup_file_, Moves, Clear, Unlocking, SameGlobal, ArgOf, OpenLabels, GlobalLabels,
           ForkLabels, UseLabels
  <2>32. CASE transfer_over_(p)
    BY <2>32, <1>1, <1>2
       DEF transfer_over_, Moves, Clear, SameStructs, SameGlobal, ArgOf, OpenLabels, GlobalLabels,
           ForkLabels, UseLabels
  <2>33. CASE transfer_begin_(p)
    BY <2>33, <1>1, <1>2
       DEF transfer_begin_, Moves, Args, Locking, SameGlobal, ArgOf, OpenLabels, GlobalLabels,
           ForkLabels, UseLabels
  <2>34. CASE transfer_end_(p)
    BY <2>34, <1>1, <1>2
       DEF transfer_end_, Moves, Clear, Unlocking, SameGlobal, ArgOf, OpenLabels, GlobalLabels,
           ForkLabels, UseLabels
  <2>35. CASE read_no_memory_(p)
    BY <2>35, <1>1, <1>2
       DEF read_no_memory_, Moves, Clear, SameStructs, SameGlobal, ArgOf, OpenLabels,
           GlobalLabels,
           ForkLabels, UseLabels
  <2>36. CASE lseek_over_(p)
    BY <2>36, <1>1, <1>2
       DEF lseek_over_, Moves, Clear, SameStructs, SameGlobal, ArgOf, OpenLabels, GlobalLabels,
           ForkLabels, UseLabels
  <2>37. CASE lseek_lock_(p)
    BY <2>37, <1>1, <1>2
       DEF lseek_lock_, Moves, Args, Locking, SameGlobal, ArgOf, OpenLabels, GlobalLabels,
           ForkLabels, UseLabels
  <2>38. CASE lseek_set_(p)
    BY <2>38, <1>1, <1>2
       DEF lseek_set_, Moves, Clear, Unlocking, SameGlobal, ArgOf, OpenLabels, GlobalLabels,
           ForkLabels, UseLabels
  <2>39. ASSUME NEW j \in Slots, copy_lock_(p, j) PROVE ArgOf(p)'
    BY <2>39, <1>1, <1>2
       DEF copy_lock_, Moves, Args, In, Locking, SameGlobal, ArgOf, OpenLabels, GlobalLabels,
           ForkLabels, UseLabels
  <2>40. CASE copy_store_(p)
    BY <2>40, <1>1, <1>2
       DEF copy_store_, Moves, Args, In, Unlocking, SameGlobal, ArgOf, OpenLabels, GlobalLabels,
           ForkLabels, UseLabels
  <2>41. ASSUME NEW b \in {"user", "lost"}, fork_done_(p, b) PROVE ArgOf(p)'
    BY <2>41, <1>1, <1>2
       DEF fork_done_, Clear, SameStructs, SameGlobal, ArgOf, OpenLabels, GlobalLabels,
           ForkLabels,
           UseLabels
  <2>42. ASSUME NEW j \in Slots, exit_shared_(p, j) PROVE ArgOf(p)'
    BY <2>42, <1>1, <1>2
       DEF exit_shared_, Moves, Args, In, Locking, SameGlobal, ArgOf, OpenLabels, GlobalLabels,
           ForkLabels, UseLabels
  <2>43. ASSUME NEW j \in Slots, exit_last_(p, j) PROVE ArgOf(p)'
    BY <2>43, <1>1, <1>2
       DEF exit_last_, Moves, Args, In, SameStructs, SameGlobal, ArgOf, OpenLabels, GlobalLabels,
           ForkLabels, UseLabels
  <2>44. CASE close_all_load_(p)
    BY <2>44, <1>1, <1>2
       DEF close_all_load_, Moves, Args, SameGlobal, ArgOf, OpenLabels, GlobalLabels, ForkLabels,
           UseLabels
  <2>45. CASE close_all_store_(p)
    BY <2>45, <1>1, <1>2
       DEF close_all_store_, Unlocking, Back, Moves, Args, In, SameGlobal, ArgOf, OpenLabels,
           GlobalLabels, ForkLabels, UseLabels
  <2>46. CASE exit_done_(p)
    BY <2>46, <1>1, <1>2
       DEF exit_done_, Moves, Clear, SameStructs, SameGlobal, ArgOf, OpenLabels, GlobalLabels,
           ForkLabels, UseLabels
  <2> QED
    BY <2>10, <2>11, <2>12, <2>13, <2>14, <2>15, <2>16, <2>17, <2>18, <2>19, <2>20, <2>21, <2>22,
       <2>23, <2>24, <2>25, <2>26, <2>27, <2>28, <2>29, <2>30, <2>31, <2>32, <2>33, <2>34, <2>35,
       <2>36, <2>37, <2>38, <2>39, <2>40, <2>41, <2>42, <2>43, <2>44, <2>45, <2>46
       DEF Normal
<1> QED  BY <1>3, <1>4 DEF ArgInv

(* The children after a step.                                              *)
LEMMA ChildStep ==
    ASSUME BaseInv, NEW p \in Procs, Normal(p)
    PROVE  ChildInv'
<1>1. ChildInv
  BY DEF BaseInv
<1> DEFINE C(q) == loc[q].child
<1>2. \/ /\ \A q \in Procs : pc'[q] \in ForkLabels =>
                pc[q] \in ForkLabels /\ loc'[q].child = loc[q].child
         /\ \A q \in Procs : pc[q] = "new" => pc'[q] = "new"
      \/ \E q \in Procs : fork_(p, q)
      \/ \E b \in {"user", "lost"} : fork_done_(p, b)
  BY DEF Normal, Moves, Back, ForkLabels, open_, open_bad_flags_, close_, dup2_, transfer_,
         lseek_, exit_, get_next_fd_, open_put_, close_dupe_, close_file_, close_return_,
         close_dup_, close_not_found_, destroy_file_, close_shared_, close_load_, close_store_,
         copy_file_lock_, copy_file_store_, dup_file_, transfer_over_, transfer_begin_,
         transfer_end_, read_no_memory_, lseek_over_, lseek_lock_, lseek_set_, copy_lock_,
         copy_store_, exit_shared_, exit_last_, close_all_load_, close_all_store_, exit_done_
<1>3. CASE /\ \A q \in Procs : pc'[q] \in ForkLabels =>
                 pc[q] \in ForkLabels /\ loc'[q].child = loc[q].child
           /\ \A q \in Procs : pc[q] = "new" => pc'[q] = "new"
  BY <1>1, <1>3 DEF ChildInv
<1>4. ASSUME NEW q \in Procs, fork_(p, q) PROVE ChildInv'
  <2>1. /\ p # q /\ pc'[q] = "new" /\ pc[q] = "none" /\ loc'[p].child = q
        /\ \A r \in Procs \ {p, q} : pc'[r] = pc[r]
        /\ \A r \in Procs \ {p} : loc'[r] = loc[r]
    BY <1>4 DEF fork_
  <2>2. \A r \in Procs : pc'[r] \in ForkLabels /\ r # p =>
           pc[r] \in ForkLabels /\ loc'[r].child = loc[r].child /\ loc[r].child # q
    BY <1>1, <2>1 DEF ChildInv, ForkLabels
  <2>3. \A r \in Procs : pc[r] = "new" => pc'[r] = "new"
    BY <1>4 DEF fork_
  <2> QED  BY <1>1, <2>1, <2>2, <2>3 DEF ChildInv
<1>5. ASSUME NEW b \in {"user", "lost"}, fork_done_(p, b) PROVE ChildInv'
  <2>1. /\ pc[p] \in ForkLabels /\ pc'[p] = "user"
        /\ \A r \in Procs \ {p, loc[p].child} : pc'[r] = pc[r]
        /\ \A r \in Procs \ {p} : loc'[r] = loc[r]
        /\ pc'[loc[p].child] \in {"user", "lost"}
    BY <1>5 DEF fork_done_, ForkLabels
  <2>2. \A r \in Procs : pc'[r] \in ForkLabels =>
           /\ r # p /\ pc[r] \in ForkLabels /\ loc'[r].child = loc[r].child
           /\ loc[r].child # loc[p].child
    BY <1>1, <2>1 DEF ChildInv, ForkLabels
  <2>3. \A r \in Procs : pc[r] = "new" /\ r # loc[p].child => pc'[r] = "new"
    BY <2>1 DEF ForkLabels
  <2> QED  BY <1>1, <2>1, <2>2, <2>3 DEF ChildInv
<1> QED  BY <1>2, <1>3, <1>4, <1>5



(* The fields of a structure do not change, but for the numbers that open  *)
(* gives to its own.                                                       *)
LEMMA KeepFile ==
    ASSUME BaseInv, NEW p \in Procs, Normal(p), NEW f \in 0 .. next_struct - 1
    PROVE  /\ file'[f].vnode = file[f].vnode /\ file'[f].is_dupe = file[f].is_dupe
           /\ file'[f].std = file[f].std /\ file'[f].seek = file[f].seek
           /\ file'[f] = file[f] \/ (get_next_fd_(p) /\ f = loc[p].f)
<1>1. next_struct \in Nat /\ f # next_struct /\ f \in Files
  BY SameTypes, Numbers DEF BaseInv, GlobalTableSound, StructTypes
<1>2. CASE get_next_fd_(p)
  BY <1>1, <1>2 DEF get_next_fd_, OthersKeep
<1>3. CASE ~get_next_fd_(p)
  BY <1>1, <1>3
     DEF Normal, SameStructs, OthersKeep, open_, open_bad_flags_, close_, dup2_, transfer_,
         lseek_, fork_, exit_, open_put_, close_dupe_, close_file_, close_return_, close_dup_,
         close_not_found_, destroy_file_, close_shared_, close_load_, close_store_,
         copy_file_lock_, copy_file_store_, dup_file_, transfer_over_, transfer_begin_,
         transfer_end_, read_no_memory_, lseek_over_, lseek_lock_, lseek_set_, copy_lock_,
         copy_store_, fork_done_, exit_shared_, exit_last_, close_all_load_, close_all_store_,
         exit_done_
<1> QED  BY <1>2, <1>3

(* The structures that tables, calls and the global table point to after a *)
(* step are public.                                                        *)
LEMMA PlaceStep ==
    ASSUME BaseInv, NEW p \in Procs, Normal(p)
    PROVE  PlaceInv'
<1>1. /\ files \in [Procs -> [Slots -> Files \cup {NULL}]] /\ NULL \notin Files
      /\ open_files \in [Slots -> Files \cup {NULL}]
      /\ setting \in Settings /\ Slots' = Slots /\ next_struct \in Nat /\ next_struct >= 3
      /\ Std = {0, 1, 2} /\ Files \subseteq Nat
  BY Others, SameTypes, Numbers DEF BaseInv, GlobalTableSound, TableTypes, StructTypes
<1>2. PlaceInv
  BY DEF BaseInv
<1>3. \A f : Public(f) => PublicNext(f)
  BY PublicStays
<1>4. \A f \in Std : Public(f)
  BY <1>1, <1>2 DEF PlaceInv, Public
<1>5. ASSUME open_put_(p) PROVE PublicNext(loc[p].f)
  <2>1. p \in InOpen /\ loc[p].f \in 0 .. next_struct - 1
    BY <1>2, <1>5, SameTypes
       DEF open_put_, Moves, InOpen, PlaceInv, BaseInv, GlobalTableSound, StructTypes
  <2>2. next_struct' = next_struct /\ InOpen' \subseteq InOpen \ {p}
    BY <1>5 DEF open_put_, SameStructs, Moves, InOpen
  <2>3. \A q \in InOpen \ {p} : loc'[q].f = loc[q].f /\ loc[q].f # loc[p].f
    BY <1>2, <1>5, <2>1 DEF open_put_, Moves, InOpen, PlaceInv
  <2> QED  BY <2>1, <2>2, <2>3 DEF PublicNext
<1>6. ASSUME dup_file_(p) PROVE PublicNext(next_struct)
  <2>1. next_struct' = next_struct + 1 /\ InOpen' \subseteq InOpen
    BY <1>6 DEF dup_file_, Moves, InOpen
  <2>2. \A q \in InOpen : loc[q].f \in 0 .. next_struct - 1 /\ (q # p => loc'[q] = loc[q]) /\ q # p
    BY <1>2, <1>6, SameTypes
       DEF dup_file_, Moves, InOpen, PlaceInv, BaseInv, GlobalTableSound, StructTypes
  <2> QED  BY <1>1, <2>1, <2>2 DEF PublicNext
<1>7. \A q \in Procs, i \in Slots : files'[q][i] # NULL => PublicNext(files'[q][i])
  <2>1. \A q \in Procs, i \in Slots :
           \/ files'[q][i] = files[q][i] \/ files'[q][i] = NULL \/ files'[q][i] \in Std
           \/ open_put_(p) /\ files'[q][i] = loc[p].f
           \/ dup_file_(p) /\ files'[q][i] = next_struct
           \/ \E r \in Procs, j \in Slots : files'[q][i] = files[r][j]
    <3>1. \/ UNCHANGED files
          \/ open_put_(p) \/ dup_file_(p)
          \/ \E q \in Procs : files' = [files EXCEPT ![q] = FreshTable]
          \/ files' = [files EXCEPT ![p] = [i \in Slots |-> NULL]]
          \/ \E i \in Slots : files' = [files EXCEPT ![p][i] = NULL]
          \/ \E q \in Procs, i \in Slots : files' = [files EXCEPT ![q][i] = files[p][i]]
      BY DEF Normal, Back, In, open_, open_bad_flags_, close_, dup2_, transfer_, lseek_, fork_,
             exit_, get_next_fd_, close_dupe_, close_file_, close_return_, close_dup_,
             close_not_found_, destroy_file_, close_shared_, close_load_, close_store_,
             copy_file_lock_, copy_file_store_, transfer_over_, transfer_begin_, transfer_end_,
             read_no_memory_, lseek_over_, lseek_lock_, lseek_set_, copy_lock_, copy_store_,
             fork_done_, exit_shared_, exit_last_, close_all_load_, close_all_store_, exit_done_
    <3>2. open_put_(p) \/ dup_file_(p) =>
             \A q \in Procs, i \in Slots :
                \/ files'[q][i] = files[q][i]
                \/ open_put_(p) /\ files'[q][i] = loc[p].f
                \/ dup_file_(p) /\ files'[q][i] = next_struct
      BY <1>1 DEF open_put_, dup_file_, Putting
    <3> QED  BY <1>1, <3>1, <3>2 DEF FreshTable
  <2> QED  BY <1>2, <1>3, <1>4, <1>5, <1>6, <2>1 DEF PlaceInv
<1>8. \A q \in Procs : pc'[q] \in UseLabels => PublicNext(loc'[q].f)
  <2>1. ASSUME NEW q \in Procs \ {p}, pc'[q] \in UseLabels PROVE PublicNext(loc'[q].f)
    <3>1. loc'[q] = loc[q] /\ pc[q] = pc'[q]
      BY <2>1, Others DEF OtherStep, UseLabels
    <3> QED  BY <1>2, <1>3, <2>1, <3>1 DEF PlaceInv
  <2>2. pc'[p] \in UseLabels =>
           \/ pc[p] \in UseLabels /\ loc'[p].f = loc[p].f
           \/ \E i \in Slots : loc'[p].f = files[p][i] /\ files[p][i] # NULL
           \/ \E i \in Slots : loc'[p].f = open_files[i] /\ open_files[i] # NULL
    BY <1>1, ZenonT(40)
       DEF Normal, Moves, Back, In, UseLabels, open_, open_bad_flags_, close_, dup2_, transfer_,
           lseek_, fork_, exit_, get_next_fd_, open_put_, close_dupe_, close_file_,
           close_return_, close_dup_, close_not_found_, destroy_file_, close_shared_,
           close_load_, close_store_, copy_file_lock_, copy_file_store_, dup_file_,
           transfer_over_, transfer_begin_, transfer_end_, read_no_memory_, lseek_over_,
           lseek_lock_, lseek_set_, copy_lock_, copy_store_, fork_done_, exit_shared_,
           exit_last_, close_all_load_, close_all_store_, exit_done_
  <2> QED  BY <1>2, <1>3, <2>1, <2>2 DEF PlaceInv
<1>9. \A i \in Slots : open_files'[i] # NULL =>
          PublicNext(open_files'[i]) /\ ~file'[open_files'[i]].is_dupe
  <2>1. \A i \in Slots : \/ open_files'[i] \in {open_files[i], NULL}
                         \/ open_put_(p) /\ open_files'[i] = loc[p].f
    <3>1. \/ UNCHANGED open_files
          \/ open_put_(p)
          \/ \E i \in Slots : open_files' = [open_files EXCEPT ![i] = NULL]
      BY DEF Normal, SameGlobal, open_, open_bad_flags_, close_, dup2_, transfer_, lseek_,
             fork_, exit_, get_next_fd_, close_dupe_, close_file_, close_return_, close_dup_,
             close_not_found_, destroy_file_, close_shared_, close_load_, close_store_,
             copy_file_lock_, copy_file_store_, dup_file_, transfer_over_, transfer_begin_,
             transfer_end_, read_no_memory_, lseek_over_, lseek_lock_, lseek_set_, copy_lock_,
             copy_store_, fork_done_, exit_shared_, exit_last_, close_all_load_,
             close_all_store_, exit_done_
    <3>2. open_put_(p) => \A i \in Slots : open_files'[i] = open_files[i] \/ open_files'[i] = loc[p].f
      BY <1>1 DEF open_put_, Listing
    <3> QED  BY <1>1, <3>1, <3>2
  <2>2. \A f \in 0 .. next_struct - 1 : file'[f].is_dupe = file[f].is_dupe
    BY KeepFile
  <2>3. open_put_(p) => loc[p].f \in 0 .. next_struct - 1 /\ ~file[loc[p].f].is_dupe
    BY <1>2, SameTypes
       DEF open_put_, Moves, InOpen, PlaceInv, BaseInv, GlobalTableSound, StructTypes
  <2> QED  BY <1>2, <1>3, <1>5, <2>1, <2>2, <2>3 DEF PlaceInv, Public
<1>10. \A q \in InOpen' : /\ loc'[q].f \in live' \ Std /\ ~file'[loc'[q].f].is_dupe
                         /\ \A r \in InOpen' : loc'[r].f = loc'[q].f => r = q
  <2>1. \A f : f \in live /\ ~Public(f) => f \in live'
    <3>1. \/ live \subseteq live'
          \/ \E i \in Slots : live' = live \ {files[p][i]} /\ files[p][i] # NULL
          \/ \E i \in Slots : live' = live \ {open_files[i]} /\ open_files[i] \in Files
      BY DEF Normal, SameStructs, In, open_, open_bad_flags_, close_, dup2_, transfer_, lseek_,
             fork_, exit_, get_next_fd_, open_put_, close_dupe_, close_file_, close_return_,
             close_dup_, close_not_found_, destroy_file_, close_shared_, close_load_,
             close_store_, copy_file_lock_, copy_file_store_, dup_file_, transfer_over_,
             transfer_begin_, transfer_end_, read_no_memory_, lseek_over_, lseek_lock_,
             lseek_set_, copy_lock_, copy_store_, fork_done_, exit_shared_, exit_last_,
             close_all_load_, close_all_store_, exit_done_
    <3> QED  BY <1>1, <1>2, <3>1 DEF PlaceInv
  <2>2. \A f \in 0 .. next_struct - 1 : file'[f].is_dupe = file[f].is_dupe
    BY KeepFile
  <2>3. \A q \in InOpen : loc[q].f \in 0 .. next_struct - 1 /\ ~Public(loc[q].f)
    BY <1>2, SameTypes DEF PlaceInv, Public, BaseInv, GlobalTableSound, StructTypes
  <2>4. ASSUME NEW q \in InOpen', q # p
        PROVE  q \in InOpen /\ loc'[q] = loc[q]
    BY <2>4, OpenStep DEF InOpen
  <2>5. CASE p \notin InOpen'
    BY <1>2, <2>1, <2>2, <2>3, <2>4, <2>5 DEF PlaceInv
  <2>6. CASE p \in InOpen /\ loc'[p].f = loc[p].f
    <3>1. \A q \in InOpen' : q \in InOpen /\ loc'[q].f = loc[q].f
      BY <2>4, <2>6
    <3> QED  BY <1>2, <2>1, <2>2, <2>3, <3>1 DEF PlaceInv
  <2>7. CASE p \in InOpen' /\ p \notin InOpen
    <3>1. pc[p] # "op_fd" /\ pc[p] # "op_put" /\ pc'[p] \in {"op_fd", "op_put"}
      BY <2>7 DEF InOpen
    <3>2. \E v \in Vnodes, can \in AccessModes : open_(p, v, can)
      BY <3>1
         DEF Normal, Moves, Back, open_bad_flags_, close_, dup2_, transfer_, lseek_, fork_,
             exit_, get_next_fd_, open_put_, close_dupe_, close_file_, close_return_,
             close_dup_, close_not_found_, destroy_file_, close_shared_, close_load_,
             close_store_, copy_file_lock_, copy_file_store_, dup_file_, transfer_over_,
             transfer_begin_, transfer_end_, read_no_memory_, lseek_over_, lseek_lock_,
             lseek_set_, copy_lock_, copy_store_, fork_done_, exit_shared_, exit_last_,
             close_all_load_, close_all_store_, exit_done_
    <3>3. /\ loc'[p].f = next_struct /\ next_struct \in live' /\ ~file'[next_struct].is_dupe
      BY <3>2 DEF open_, create_file
    <3>4. \A q \in InOpen' : q # p => loc'[q].f # next_struct
      BY <1>1, <2>3, <2>4
    <3>5. next_struct \notin Std
      BY <1>1
    <3> QED  BY <1>2, <2>1, <2>2, <2>3, <2>4, <3>3, <3>4, <3>5 DEF PlaceInv
  <2> QED  BY <2>5, <2>6, <2>7, OpenStep
<1> QED  BY <1>1, <1>7, <1>8, <1>9, <1>10 DEF PlaceInv, Public, PublicNext



(* The standard files are the first structures.                            *)
LEMMA StdStructs ==
    ASSUME TypeOK
    PROVE  \A f \in Std : f \in 0 .. next_struct - 1
<1>1. next_struct \in Nat /\ next_struct >= 3
  BY Numbers DEF TypeOK
<1>2. \A f \in Std : f \in Nat /\ f <= 2
  BY DEF Std, STDIN, STDOUT, STDERR
<1> QED  BY <1>1, <1>2

(* The descriptors, vnodes and seek positions after a step.                *)
LEMMA FdStep ==
    ASSUME BaseInv, NEW p \in Procs, Normal(p)
    PROVE  FdInv'
<1>1. /\ next_struct \in Nat /\ next_fd \in Nat /\ file \in [Files -> FileRec]
      /\ Files = 0 .. MostStructs - 1 /\ next_struct <= MostStructs /\ MostStructs \in Nat
  BY SameTypes, Numbers DEF BaseInv, GlobalTableSound, StructTypes, TableTypes
<1>2. FdInv /\ PlaceInv
  BY DEF BaseInv
<1>3. \A f \in 0 .. next_struct - 1 : file[f].global_fd \in Int /\ file'[f].vnode = file[f].vnode
  <2>1. \A f \in Files : file[f].global_fd \in Int
    BY <1>1, SameTypes, Numbers DEF FileRec, BaseInv, GlobalTableSound
  <2> QED  BY <1>1, <2>1, KeepFile
<1>4. \A f \in 0 .. next_struct - 1 : PublicNext(f) =>
         Public(f) \/ (pc[p] = "op_put" /\ f = loc[p].f)
  BY OpenStep DEF PublicNext, Public, InOpen
<1>5. \A f \in 0 .. next_struct - 1 : file'[f].std = -1 => file'[f].seek \in Files
  BY <1>2, KeepFile DEF FdInv
<1>10. \A f \in Std : file'[f].vnode = NULL
  <2>1. \A f \in Std : f \in 0 .. next_struct - 1
    BY StdStructs DEF BaseInv, GlobalTableSound
  <2> QED  BY <1>2, <1>3, <2>1 DEF FdInv
<1>6. CASE \E v \in Vnodes, can \in AccessModes : open_(p, v, can)
  <2>1. PICK v \in Vnodes, can \in AccessModes : open_(p, v, can)
    BY <1>6
  <2>2. /\ next_struct' = next_struct + 1 /\ next_fd' = next_fd
        /\ file'[next_struct].global_fd = -1 /\ file'[next_struct].seek = next_struct
        /\ next_struct \in Files
        /\ \A f \in 0 .. next_struct - 1 : file'[f] = file[f]
        /\ \A q \in Procs : pc'[q] = "op_put" => pc[q] = "op_put" /\ loc'[q] = loc[q]
    <3>1. /\ next_struct' = next_struct + 1 /\ next_fd' = next_fd
          /\ file'[next_struct].global_fd = -1 /\ file'[next_struct].seek = next_struct
          /\ next_struct \in Files
      BY <2>1 DEF open_, SameGlobal
    <3>2. \A f \in 0 .. next_struct - 1 : file'[f] = file[f]
      <4>1. \A f \in 0 .. next_struct - 1 : f \in Files \ {next_struct}
        BY <1>1
      <4> QED  BY <2>1, <4>1 DEF open_, OthersKeep
    <3>3. \A q \in Procs : pc'[q] = "op_put" => pc[q] = "op_put" /\ loc'[q] = loc[q]
      BY <2>1 DEF open_, Moves
    <3> QED  BY <3>1, <3>2, <3>3
  <2>3. ~PublicNext(next_struct)
    BY <2>1 DEF PublicNext, open_, Moves, InOpen
  <2>4. \A f \in 0 .. next_struct - 1 : PublicNext(f) => Public(f)
    BY <1>4, <2>1 DEF open_, Moves
  <2>5. 0 .. next_struct' - 1 = 0 .. next_struct - 1 \cup {next_struct}
    BY <1>1, <2>2
  <2>6. \A f \in 0 .. next_struct' - 1 :
          /\ file'[f].global_fd < next_fd'
          /\ file'[f].std = -1 => file'[f].seek \in Files
          /\ file'[f].global_fd = -1 /\ PublicNext(f) => file'[f].vnode = NULL
    BY <1>1, <1>2, <2>2, <2>3, <2>4, <2>5 DEF FdInv
  <2>7. \A f, g \in 0 .. next_struct' - 1 :
           file'[f].global_fd = file'[g].global_fd /\ file'[f].global_fd # -1 =>
                   file'[f].vnode = file'[g].vnode
    BY <1>2, <2>2, <2>5 DEF FdInv
  <2>8. \A q \in Procs : pc'[q] = "op_put" => file'[loc'[q].f].global_fd # -1
    <3>1. \A q \in Procs : pc[q] = "op_put" => loc[q].f \in 0 .. next_struct - 1
      BY <1>2, SameTypes DEF PlaceInv, InOpen, BaseInv, GlobalTableSound, StructTypes
    <3> QED  BY <1>2, <2>2, <3>1 DEF FdInv
  <2> QED  BY <1>10, <2>6, <2>7, <2>8 DEF FdInv, Public, PublicNext
<1>7. CASE get_next_fd_(p)
  <2> DEFINE h == loc[p].f
  <2>1. /\ next_struct' = next_struct /\ next_fd' = next_fd + 1
        /\ file'[h].global_fd = next_fd
        /\ \A q \in Procs : pc'[q] = "op_put" => q = p \/ (pc[q] = "op_put" /\ loc'[q] = loc[q])
        /\ loc'[p] = loc[p] /\ p \in InOpen /\ p \in InOpen'
    BY <1>7 DEF get_next_fd_, Moves, InOpen
  <2>2. h \in 0 .. next_struct - 1 /\ \A f \in 0 .. next_struct - 1 : f # h => file'[f] = file[f]
    BY <1>1, <1>2, <1>7, <2>1, SameTypes
       DEF get_next_fd_, OthersKeep, PlaceInv, BaseInv, GlobalTableSound, StructTypes
  <2>3. ~PublicNext(h) /\ \A f \in 0 .. next_struct - 1 : PublicNext(f) => Public(f)
    <3>1. pc[p] = "op_fd"
      BY <1>7 DEF get_next_fd_, Moves
    <3> QED  BY <1>4, <2>1, <3>1 DEF PublicNext
  <2>6. \A f \in 0 .. next_struct' - 1 :
          /\ file'[f].global_fd < next_fd'
          /\ file'[f].std = -1 => file'[f].seek \in Files
          /\ file'[f].global_fd = -1 /\ PublicNext(f) => file'[f].vnode = NULL
    BY <1>1, <1>2, <1>3, <1>5, <2>1, <2>2, <2>3, SMTT(30) DEF FdInv
  <2>7. \A f, g \in 0 .. next_struct' - 1 :
           file'[f].global_fd = file'[g].global_fd /\ file'[f].global_fd # -1 =>
                   file'[f].vnode = file'[g].vnode
    <3>1. \A f \in 0 .. next_struct - 1 : f # h => file'[f].global_fd # next_fd
      BY <1>1, <1>2, <1>3, <2>2 DEF FdInv
    <3> QED  BY <1>2, <1>3, <2>1, <2>2, <3>1 DEF FdInv
  <2>8. \A q \in Procs : pc'[q] = "op_put" => file'[loc'[q].f].global_fd # -1
    <3>1. \A q \in Procs : pc[q] = "op_put" => loc[q].f \in 0 .. next_struct - 1
      BY <1>2, SameTypes DEF PlaceInv, InOpen, BaseInv, GlobalTableSound, StructTypes
    <3> QED  BY <1>1, <1>2, <2>1, <2>2, <3>1 DEF FdInv
  <2> QED  BY <1>10, <2>6, <2>7, <2>8 DEF FdInv, Public, PublicNext
<1>8. CASE dup_file_(p)
  <2> DEFINE h == loc[p].f
  <2>1. /\ next_struct' = next_struct + 1 /\ next_fd' = next_fd
        /\ file'[next_struct].global_fd = file[h].global_fd
        /\ file'[next_struct].vnode = file[h].vnode
        /\ file'[next_struct].std = file[h].std /\ file'[next_struct].seek = file[h].seek
        /\ \A f \in 0 .. next_struct - 1 : file'[f] = file[f]
        /\ \A q \in Procs : pc'[q] = "op_put" => pc[q] = "op_put" /\ loc'[q] = loc[q]
    BY <1>1, <1>8 DEF dup_file_, SameGlobal, OthersKeep, Moves
  <2>2. Public(h) /\ h \in 0 .. next_struct - 1
    BY <1>2, <1>8 DEF dup_file_, Moves, PlaceInv, UseLabels, Public
  <2>4. \A f \in 0 .. next_struct - 1 : PublicNext(f) => Public(f)
    BY <1>4, <1>8 DEF dup_file_, Moves
  <2>5. 0 .. next_struct' - 1 = 0 .. next_struct - 1 \cup {next_struct}
    BY <1>1, <2>1
  <2>6. \A f \in 0 .. next_struct' - 1 :
          /\ file'[f].global_fd < next_fd'
          /\ file'[f].std = -1 => file'[f].seek \in Files
          /\ file'[f].global_fd = -1 /\ PublicNext(f) => file'[f].vnode = NULL
    BY <1>2, <2>1, <2>2, <2>4, <2>5 DEF FdInv
  <2>7. \A f, g \in 0 .. next_struct' - 1 :
           file'[f].global_fd = file'[g].global_fd /\ file'[f].global_fd # -1 =>
                   file'[f].vnode = file'[g].vnode
    BY <1>2, <2>1, <2>2, <2>5 DEF FdInv
  <2>8. \A q \in Procs : pc'[q] = "op_put" => file'[loc'[q].f].global_fd # -1
    <3>1. \A q \in Procs : pc[q] = "op_put" => loc[q].f \in 0 .. next_struct - 1
      BY <1>2, SameTypes DEF PlaceInv, InOpen, BaseInv, GlobalTableSound, StructTypes
    <3> QED  BY <1>2, <2>1, <3>1 DEF FdInv
  <2> QED  BY <1>10, <2>6, <2>7, <2>8 DEF FdInv, Public, PublicNext
<1>9. CASE UNCHANGED <<file, next_struct, next_fd>>
  <2>1. \A q \in Procs : pc'[q] = "op_put" => \/ pc[q] = "op_put" /\ loc'[q] = loc[q]
                                              \/ get_next_fd_(p)
    <3>1. pc'[p] = "op_put" => \/ pc[p] = "op_put" /\ loc'[p] = loc[p]
                               \/ get_next_fd_(p)
      BY DEF Normal, Moves, Back, open_, open_bad_flags_, close_, dup2_, transfer_, lseek_,
             fork_, exit_, open_put_, close_dupe_, close_file_, close_return_, close_dup_,
             close_not_found_, destroy_file_, close_shared_, close_load_, close_store_,
             copy_file_lock_, copy_file_store_, dup_file_, transfer_over_, transfer_begin_,
             transfer_end_, read_no_memory_, lseek_over_, lseek_lock_, lseek_set_, copy_lock_,
             copy_store_, fork_done_, exit_shared_, exit_last_, close_all_load_,
             close_all_store_, exit_done_
    <3> QED  BY <3>1, Others DEF OtherStep
  <2>2. ~get_next_fd_(p)
    BY <1>1, <1>9 DEF get_next_fd_
  <2>3. \A f \in 0 .. next_struct - 1 : PublicNext(f) /\ file[f].global_fd = -1 => Public(f)
    BY <1>2, <1>4 DEF FdInv
  <2>6. \A f \in 0 .. next_struct' - 1 :
          /\ file'[f].global_fd < next_fd'
          /\ file'[f].std = -1 => file'[f].seek \in Files
          /\ file'[f].global_fd = -1 /\ PublicNext(f) => file'[f].vnode = NULL
    BY <1>2, <1>9, <2>3 DEF FdInv
  <2>7. \A f, g \in 0 .. next_struct' - 1 :
           file'[f].global_fd = file'[g].global_fd /\ file'[f].global_fd # -1 =>
                   file'[f].vnode = file'[g].vnode
    BY <1>2, <1>9 DEF FdInv
  <2>8. \A q \in Procs : pc'[q] = "op_put" => file'[loc'[q].f].global_fd # -1
    BY <1>2, <1>9, <2>1, <2>2 DEF FdInv
  <2> QED  BY <1>10, <2>6, <2>7, <2>8 DEF FdInv, Public, PublicNext
<1> QED
  BY <1>6, <1>7, <1>8, <1>9
     DEF Normal, SameStructs, SameGlobal, open_bad_flags_, close_, dup2_, transfer_, lseek_,
         fork_, exit_, open_put_, close_dupe_, close_file_, close_return_, close_dup_,
         close_not_found_, destroy_file_, close_shared_, close_load_, close_store_,
         copy_file_lock_, copy_file_store_, transfer_over_, transfer_begin_, transfer_end_,
         read_no_memory_, lseek_over_, lseek_lock_, lseek_set_, copy_lock_, copy_store_,
         fork_done_, exit_shared_, exit_last_, close_all_load_, close_all_store_, exit_done_

-----------------------------------------------------------------------------
(* The invariant holds in every state.                                     *)
LEMMA BaseInit == Init => BaseInv
<1> SUFFICES ASSUME Init PROVE BaseInv
  OBVIOUS
<1>1. /\ Slots \subseteq Nat /\ Std = {0, 1, 2} /\ Std \subseteq Slots /\ NULL \notin Slots
      /\ Files \subseteq Nat /\ Std \subseteq Files /\ NULL \notin Files /\ NULL = -1
      /\ Std \subseteq Fds /\ NULL \notin Procs /\ setting \in Settings /\ OPEN_MAX \in Nat
      /\ setting.structs \in Nat /\ setting.structs >= 3 /\ setting.structs <= MostStructs
      /\ MostStructs \in Nat /\ OPEN_MAX >= 4 /\ Slots = 0 .. OPEN_MAX - 1
      /\ First \in Procs /\ MaxPos \in Nat /\ NULL \notin Vnodes
  BY Numbers, Bounds, FileTableAssumption DEF Init
<1>2. StructTypes
  <2>1. \A f \in Std : create_std_file(f) \in FileRec
    BY <1>1 DEF create_std_file, FileRec
  <2>2. create_file(NULL, -1, {}, NULL) \in FileRec
    BY <1>1 DEF create_file, FileRec
  <2> QED  BY <1>1, <2>1, <2>2 DEF Init, StructTypes
<1>3. FreshTable \in [Slots -> Files \cup {NULL}]
  BY <1>1 DEF FreshTable
<1>4. TableTypes
  BY <1>1, <1>3 DEF Init, TableTypes
<1>5. LocalTypes
  BY <1>1, SetLocals DEF Init, LocalTypes, Labels
<1>6. ListInv
  <2>1. Listed = Std
    BY <1>1 DEF Listed, Init, FreshTable
  <2>2. Std = 0 .. size - 1 /\ size \in Nat
    BY <1>1 DEF Init
  <2>3. Cardinality(0 .. size - 1) = size
    BY <2>2, FS_Interval
  <2> QED  BY <1>1, <2>1, <2>2, <2>3 DEF ListInv, Init, FreshTable
<1>7. /\ \A p \in Procs : /\ pc[p] \in {"user", "none"} /\ loc[p] = NoLocals
                         /\ loc[p].next = "" /\ loc[p].f = NULL
  BY DEF Init, NoLocals
<1>8. ArgInv
  BY <1>7 DEF ArgInv, ArgOf, OpenLabels, GlobalLabels, UseLabels
<1>9. CountInv
  <2>1. Numbering = {} /\ Duping = {}
    BY <1>7 DEF Numbering, Duping
  <2> QED  BY <1>1, <2>1, FS_EmptySet DEF CountInv, Init
<1>10. ChildInv
  BY <1>7 DEF ChildInv, ForkLabels
<1>11. InOpen = {} /\ \A f \in Std : Public(f)
  <2>1. InOpen = {}
    BY <1>7 DEF InOpen
  <2>2. \A f \in Std : f \in 0 .. next_struct - 1
    BY <1>1 DEF Init
  <2> QED  BY <2>1, <2>2 DEF Public
<1>12. \A f \in Std : /\ file[f].vnode = NULL /\ file[f].global_fd = -1 /\ file[f].std = f
                     /\ file[f].is_dupe = FALSE
  BY <1>1 DEF Init, create_std_file
<1>13. PlaceInv
  BY <1>1, <1>7, <1>11, <1>12 DEF PlaceInv, Init, FreshTable, UseLabels
<1>14. FdInv
  <2>1. \A f \in 0 .. next_struct - 1 : f \in Std
    BY <1>1 DEF Init
  <2>2. next_fd = 3
    BY DEF Init
  <2>3. \A p \in Procs : pc[p] # "op_put"
    BY <1>7
  <2>4. \A f \in Std : f # -1
    BY <1>1
  <2> QED  BY <1>12, <2>1, <2>2, <2>3, <2>4 DEF FdInv
<1> QED  BY <1>2, <1>4, <1>5, <1>6, <1>8, <1>9, <1>10, <1>13, <1>14, <1>1, SameTypes
            DEF BaseInv, GlobalTableSound, ListInv, Listed, Init

(* A panic changes nothing else.                                           *)
LEMMA BaseStutter ==
    ASSUME BaseInv, UNCHANGED <<structs, gtable, ptables, pc, loc, setting>>, panic' \in BOOLEAN
    PROVE  BaseInv'
<1>1. /\ UNCHANGED <<next_struct, live, file, refcount, file_lock, pos, vn_refcount>>
      /\ UNCHANGED <<open_files, size, next_fd, global_file_lk, files, ops_lock, pc, loc, setting>>
  BY DEF structs, gtable, ptables
<1>2. Slots' = Slots /\ OPEN_MAX' = OPEN_MAX /\ Locals' = Locals
  BY <1>1 DEF Slots, OPEN_MAX, Locals
<1>3. TypeOK'
  BY <1>1, <1>2 DEF BaseInv, GlobalTableSound, TypeOK
<1>4. GlobalTableSound'
  BY <1>1, <1>2, <1>3 DEF BaseInv, GlobalTableSound
<1>5. ArgInv'
  BY <1>1, <1>2 DEF BaseInv, ArgInv, ArgOf
<1>6. CountInv' /\ ChildInv'
  BY <1>1 DEF BaseInv, CountInv, ChildInv, Numbering, Duping
<1>7. PlaceInv' /\ FdInv'
  BY <1>1, <1>2 DEF BaseInv, PlaceInv, FdInv, Public, InOpen
<1> QED  BY <1>4, <1>5, <1>6, <1>7 DEF BaseInv

(* BaseInv is inductive.                                                    *)
LEMMA BaseNext ==
    ASSUME BaseInv, [Next]_vars
    PROVE  BaseInv'
<1>1. CASE UNCHANGED vars
  BY <1>1, BaseStutter DEF vars, BaseInv, GlobalTableSound, TypeOK
<1>2. ASSUME NEW p \in Procs, Call(p) \/ Step(p)
      PROVE  BaseInv'
  <2>1. CASE Panic
    BY <2>1, BaseStutter DEF Panic
  <2>2. CASE Normal(p)
    BY <1>2, <2>2, SoundStep, ArgStep, ChildStep, PlaceStep, FdStep DEF BaseInv
  <2> QED  BY <1>2, <2>1, <2>2, Cases
<1> QED  BY <1>1, <1>2 DEF Next

(* BaseInv holds in every reachable state.                                  *)
LEMMA BaseAlways == Spec => []BaseInv
  BY BaseInit, BaseNext, PTL DEF Spec

(* Whatever programs do, the global table lists each structure once and    *)
(* none that is freed, and its size counts them: open, close, exit and     *)
(* dup2 of any number of processes, at any of their steps.                 *)
THEOREM TableIsSound == Spec => []GlobalTableSound
<1>1. BaseInv => GlobalTableSound
  BY DEF BaseInv
<1> QED  BY <1>1, BaseAlways, PTL



-----------------------------------------------------------------------------
(* The references of vnodes.                                               *)

(* Finite sets that differ in one member.                                  *)
LEMMA OneMore ==
    ASSUME NEW S, IsFiniteSet(S), NEW T, NEW x
    PROVE  /\ T \subseteq S => Cardinality(T) <= Cardinality(S)
           /\ T \subseteq S \cup {x} => Cardinality(T) <= Cardinality(S) + 1
           /\ x \in S /\ T \subseteq S \ {x} => Cardinality(T) <= Cardinality(S) - 1
<1>1. /\ IsFiniteSet(S \cup {x}) /\ IsFiniteSet(S \ {x}) /\ Cardinality(S) \in Nat
      /\ Cardinality(S \cup {x}) = IF x \in S THEN Cardinality(S) ELSE Cardinality(S) + 1
      /\ Cardinality(S \ {x}) = IF x \in S THEN Cardinality(S) - 1 ELSE Cardinality(S)
  BY FS_AddElement, FS_RemoveElement, FS_CardinalityType
<1>2. /\ T \subseteq S => Cardinality(T) <= Cardinality(S)
      /\ T \subseteq S \cup {x} => Cardinality(T) <= Cardinality(S \cup {x}) /\ IsFiniteSet(T)
      /\ T \subseteq S \ {x} => Cardinality(T) <= Cardinality(S \ {x})
  BY <1>1, FS_Subset
<1>3. T \subseteq S \cup {x} => Cardinality(T) \in Nat
  BY <1>2, FS_CardinalityType
<1> QED  BY <1>1, <1>2, <1>3

(* Every step keeps a vnode covered.                                       *)
LEMMA VnodeStep ==
    ASSUME BaseInv, VnodeCovered, NEW p \in Procs, Normal(p)
    PROVE  VnodeCovered'
<1> SUFFICES ASSUME NEW v \in Vnodes
             PROVE  (vn_refcount[v] >= Cardinality(VnodeEntries(v)) + Cardinality(VnodePending(v)))'
  BY DEF VnodeCovered
<1> DEFINE E == VnodeEntries(v)
           P == VnodePending(v)
           E2 == VnodeEntries(v)'
           P2 == VnodePending(v)'
           Goal == vn_refcount'[v] >= Cardinality(E2) + Cardinality(P2)
<1>1. /\ files \in [Procs -> [Slots -> Files \cup {NULL}]] /\ NULL \notin Files
      /\ open_files \in [Slots -> Files \cup {NULL}]
      /\ setting \in Settings /\ Slots' = Slots /\ next_struct \in Nat
      /\ vn_refcount \in [Vnodes -> Int] /\ NULL \notin Vnodes
      /\ file \in [Files -> FileRec]
  BY Others, SameTypes, Numbers DEF BaseInv, GlobalTableSound, TableTypes, StructTypes
<1>2. ArgInv /\ PlaceInv /\ FdInv /\ ChildInv
  BY DEF BaseInv
<1>3. /\ IsFiniteSet(E) /\ IsFiniteSet(P) /\ IsFiniteSet(E2) /\ IsFiniteSet(P2)
      /\ Cardinality(E) \in Nat /\ Cardinality(P) \in Nat
      /\ Cardinality(E2) \in Nat /\ Cardinality(P2) \in Nat
  <2>1. /\ E \in SUBSET (Procs \X Slots) /\ P \in SUBSET Procs
        /\ E2 \in SUBSET (Procs \X Slots) /\ P2 \in SUBSET Procs
    BY <1>1 DEF VnodeEntries, VnodePending
  <2> QED  BY <1>1, <2>1, SomeProcs
<1>4. vn_refcount[v] >= Cardinality(E) + Cardinality(P) /\ vn_refcount[v] \in Int
  BY <1>1 DEF VnodeCovered
<1>5. \A q \in Procs, i \in Slots : files[q][i] # NULL =>
         /\ files[q][i] \in 0 .. next_struct - 1
         /\ file'[files[q][i]].vnode = file[files[q][i]].vnode
  BY <1>1, <1>2, KeepFile DEF PlaceInv, Public
<1>6. \A r \in E2 : \/ r \in E
                    \/ files'[r[1]][r[2]] # files[r[1]][r[2]]
                    \/ pc[p] = "ca_store" /\ r[1] = p /\ r[2] = loc[p].i
  <2> SUFFICES ASSUME NEW r \in E2, files'[r[1]][r[2]] = files[r[1]][r[2]],
                      ~(pc[p] = "ca_store" /\ r[1] = p /\ r[2] = loc[p].i)
               PROVE  r \in E
    OBVIOUS
  <2>1. /\ r \in Procs \X Slots /\ r[1] \in Procs /\ r[2] \in Slots
        /\ files[r[1]][r[2]] # NULL /\ file'[files[r[1]][r[2]]].vnode = v
        /\ ~(pc'[r[1]] = "ca_store" /\ loc'[r[1]].i = r[2])
    BY <1>1 DEF VnodeEntries
  <2>2. file[files[r[1]][r[2]]].vnode = v
    BY <1>5, <2>1
  <2>3. ~(pc[r[1]] = "ca_store" /\ loc[r[1]].i = r[2])
    BY <2>1, Others DEF OtherStep
  <2> QED  BY <2>1, <2>2, <2>3 DEF VnodeEntries
<1>7. \A q \in P2 : q # p => q \in P
  <2> SUFFICES ASSUME NEW q \in P2, q # p
               PROVE  q \in P
    OBVIOUS
  <2>1. q \in Procs \ {p} /\ OtherStep(q)
    BY Others DEF VnodePending
  <2>2. pc'[q] = pc[q] /\ loc'[q] = loc[q] /\ files'[q] = files[q]
    BY <2>1 DEF OtherStep, VnodePending
  <2>3. pc[q] \in {"op_fd", "op_put"} => file'[loc[q].f].vnode = file[loc[q].f].vnode
    <3>1. pc[q] \in {"op_fd", "op_put"} => loc[q].f \in 0 .. next_struct - 1
      BY <1>2, <2>1, SameTypes DEF PlaceInv, InOpen, BaseInv, GlobalTableSound, StructTypes
    <3> QED  BY <3>1, KeepFile
  <2>4. pc[q] = "fk_store" => file'[files[q][loc[q].i]].vnode = file[files[q][loc[q].i]].vnode
    <3>1. pc[q] = "fk_store" => loc[q].i \in Slots /\ files[q][loc[q].i] # NULL
      BY <1>2, <2>1 DEF ArgInv, ArgOf
    <3> QED  BY <1>5, <2>1, <3>1
  <2> QED  BY <2>1, <2>2, <2>3, <2>4 DEF VnodePending
<1> HIDE DEF E, P, E2, P2
<1>8. /\ vn_refcount'[v] = vn_refcount[v] /\ E2 \subseteq E /\ P2 \subseteq P => Goal
      /\ \A x : /\ vn_refcount'[v] = vn_refcount[v] /\ p \in P
                /\ E2 \subseteq E \cup {x} /\ P2 \subseteq P \ {p}
                => Goal
      /\ vn_refcount'[v] = vn_refcount[v] + 1 /\ E2 \subseteq E /\ P2 \subseteq P \cup {p} => Goal
      /\ \A x : vn_refcount'[v] = vn_refcount[v] + 1 /\ E2 \subseteq E \cup {x} /\ P2 \subseteq P
                => Goal
      /\ \A x : /\ vn_refcount'[v] = vn_refcount[v] - 1 /\ x \in E
                /\ E2 \subseteq E \ {x} /\ P2 \subseteq P
                => Goal
  <2>1. \A x : /\ E2 \subseteq E => Cardinality(E2) <= Cardinality(E)
               /\ E2 \subseteq E \cup {x} => Cardinality(E2) <= Cardinality(E) + 1
               /\ x \in E /\ E2 \subseteq E \ {x} => Cardinality(E2) <= Cardinality(E) - 1
    BY <1>3, OneMore
  <2>2. \A x : /\ P2 \subseteq P => Cardinality(P2) <= Cardinality(P)
               /\ P2 \subseteq P \cup {x} => Cardinality(P2) <= Cardinality(P) + 1
               /\ x \in P /\ P2 \subseteq P \ {x} => Cardinality(P2) <= Cardinality(P) - 1
    BY <1>3, OneMore
  <2> QED  BY <1>3, <1>4, <2>1, <2>2
<1>9. ASSUME UNCHANGED vn_refcount, pc'[p] \notin {"op_fd", "op_put", "fk_store"},
             \A q \in Procs, i \in Slots : files'[q][i] \in {files[q][i], NULL} \cup Std,
             pc[p] = "ca_store" => files'[p][loc[p].i] = NULL
      PROVE  Goal
  <2>1. p \notin P2
    BY <1>9 DEF P2, VnodePending
  <2>2. E2 \subseteq E
    <3> SUFFICES ASSUME NEW r \in E2 PROVE r \in E
      OBVIOUS
    <3>1. /\ r[1] \in Procs /\ r[2] \in Slots /\ files'[r[1]][r[2]] # NULL
          /\ file'[files'[r[1]][r[2]]].vnode = v
      BY <1>1 DEF E2, VnodeEntries
    <3>2. files'[r[1]][r[2]] \notin Std
      <4>1. \A f \in Std : f \in 0 .. next_struct - 1
        BY StdStructs DEF BaseInv, GlobalTableSound
      <4>2. \A f \in Std : file'[f].vnode = NULL
        BY <1>2, <4>1, KeepFile DEF FdInv
      <4> QED  BY <1>1, <3>1, <4>2
    <3> QED  BY <1>6, <1>9, <3>1, <3>2
  <2> QED  BY <1>7, <1>8, <1>9, <2>1, <2>2
<1>10. ASSUME NEW w \in Vnodes, NEW can \in AccessModes, open_(p, w, can) PROVE Goal
  <2>1. E2 \subseteq E
    BY <1>10, <1>6 DEF open_, Moves
  <2>2. w = v => vn_refcount'[v] = vn_refcount[v] + 1
    BY <1>1, <1>10 DEF open_, VOP_INCREF
  <2>3. w # v => vn_refcount'[v] = vn_refcount[v] /\ p \notin P2
    <3>1. w # v => vn_refcount'[v] = vn_refcount[v]
      BY <1>1, <1>10 DEF open_, VOP_INCREF
    <3>2. pc'[p] = "op_fd" /\ file'[loc'[p].f].vnode = w
      BY <1>10 DEF open_, Moves
    <3> QED  BY <3>1, <3>2 DEF P2, VnodePending
  <2> QED  BY <1>7, <1>8, <2>1, <2>2, <2>3
<1>11. ASSUME get_next_fd_(p) PROVE Goal
  <2>1. E2 \subseteq E /\ vn_refcount'[v] = vn_refcount[v]
    BY <1>11, <1>6 DEF get_next_fd_, Moves
  <2>2. p \in P2 => p \in P
    BY <1>11 DEF get_next_fd_, Moves, P, P2, VnodePending
  <2> QED  BY <1>7, <1>8, <2>1, <2>2
<1>12. ASSUME open_put_(p) PROVE Goal
  <2>1. vn_refcount' = vn_refcount /\ pc[p] = "op_put" /\ pc'[p] = "user" /\ p \notin P2
    BY <1>12 DEF open_put_, Moves, SameStructs, P2, VnodePending
  <2>2. CASE UNCHANGED files
    BY <1>6, <1>7, <1>8, <2>1, <2>2
  <2>3. ASSUME NEW j \in Slots, files[p][j] = NULL, files' = [files EXCEPT ![p][j] = loc[p].f]
        PROVE  Goal
    <3>1. E2 \subseteq E \cup {<<p, j>>}
      <4> SUFFICES ASSUME NEW r \in E2, r \notin E PROVE r = <<p, j>>
        OBVIOUS
      <4>1. r \in Procs \X Slots
        BY <1>1 DEF E2, VnodeEntries
      <4> QED  BY <1>1, <1>6, <2>1, <2>3, <4>1
    <3>2. files'[p][j] = loc[p].f /\ file' = file
      BY <1>1, <1>12, <2>3 DEF open_put_, SameStructs
    <3>3. file[loc[p].f].vnode = v => p \in P
      BY <2>1 DEF P, VnodePending
    <3>4. file[loc[p].f].vnode # v => E2 \subseteq E
      <4> SUFFICES ASSUME file[loc[p].f].vnode # v, NEW r \in E2 PROVE r \in E
        OBVIOUS
      <4>1. r # <<p, j>>
        BY <3>2 DEF E2, VnodeEntries
      <4> QED  BY <3>1, <4>1
    <3> QED  BY <1>7, <1>8, <2>1, <3>1, <3>3, <3>4
  <2> QED  BY <1>12, <2>2, <2>3 DEF open_put_, Putting
<1>13. ASSUME NEW i \in Slots, destroy_file_(p, i) PROVE Goal
  <2> DEFINE f == open_files[i]
             k == loc[p].i
  <2>1. /\ Back(p, "cg_find") /\ f \in Files /\ file[f].vnode \in Vnodes
        /\ file[f].global_fd = file[files[p][k]].global_fd
        /\ VOP_DECREF(file[f].vnode)
    BY <1>13 DEF destroy_file_
  <2>2. /\ In(p, k) /\ pc[p] = "cg_find" /\ files' = [files EXCEPT ![p][k] = NULL]
        /\ pc'[p] \in {"ca_scan", "cl_scan"}
    BY <2>1 DEF Back, Moves
  <2>3. Public(f) /\ Public(files[p][k])
    BY <1>1, <1>2, <2>1, <2>2 DEF PlaceInv, In
  <2>4. file[files[p][k]].vnode = file[f].vnode
    <3>1. file[f].global_fd # -1
      BY <1>1, <1>2, <2>1, <2>3 DEF FdInv, Public
    <3> QED  BY <1>2, <2>1, <2>3, <3>1 DEF FdInv, Public
  <2>5. E2 \subseteq E \ {<<p, k>>}
    <3> SUFFICES ASSUME NEW r \in E2 PROVE r \in E /\ r # <<p, k>>
      OBVIOUS
    <3>1. r \in Procs \X Slots /\ files'[r[1]][r[2]] # NULL
      BY <1>1 DEF E2, VnodeEntries
    <3>2. r # <<p, k>>
      BY <1>1, <2>2, <3>1 DEF In
    <3>3. files'[r[1]][r[2]] = files[r[1]][r[2]]
      BY <1>1, <2>2, <3>1 DEF In
    <3> QED  BY <1>6, <2>2, <3>2, <3>3
  <2>6. p \notin P2
    BY <2>2 DEF P2, VnodePending
  <2>7. CASE file[f].vnode = v
    <3>1. <<p, k>> \in E
      BY <2>2, <2>4, <2>7 DEF E, VnodeEntries, In
    <3>2. vn_refcount'[v] = vn_refcount[v] - 1
      BY <1>1, <2>1, <2>7 DEF VOP_DECREF
    <3> QED  BY <1>7, <1>8, <2>5, <2>6, <3>1, <3>2
  <2>8. CASE file[f].vnode # v
    <3>1. vn_refcount'[v] = vn_refcount[v]
      BY <1>1, <2>1, <2>8 DEF VOP_DECREF
    <3> QED  BY <1>7, <1>8, <2>5, <2>6, <3>1
  <2> QED  BY <2>7, <2>8
<1>14. ASSUME dup_file_(p) PROVE Goal
  <2>1. /\ pc[p] = "dup_copy" /\ pc'[p] = "user" /\ p \notin P2
        /\ VOP_INCREF(file[loc[p].f].vnode)
    BY <1>14 DEF dup_file_, Moves, P2, VnodePending
  <2>2. file[loc[p].f].vnode = v => vn_refcount'[v] = vn_refcount[v] + 1
    BY <1>1, <2>1 DEF VOP_INCREF
  <2>3. file[loc[p].f].vnode # v => vn_refcount'[v] = vn_refcount[v]
    BY <1>1, <2>1 DEF VOP_INCREF
  <2>4. CASE UNCHANGED files
    BY <1>6, <1>7, <1>8, <2>1, <2>2, <2>3, <2>4
  <2>5. ASSUME NEW j \in Slots, files[p][j] = NULL, files' = [files EXCEPT ![p][j] = next_struct]
        PROVE  Goal
    <3>1. E2 \subseteq E \cup {<<p, j>>}
      <4> SUFFICES ASSUME NEW r \in E2, r \notin E PROVE r = <<p, j>>
        OBVIOUS
      <4>1. r \in Procs \X Slots
        BY <1>1 DEF E2, VnodeEntries
      <4> QED  BY <1>1, <1>6, <2>1, <2>5, <4>1
    <3>2. files'[p][j] = next_struct /\ file'[next_struct].vnode = file[loc[p].f].vnode
      BY <1>1, <1>14, <2>5 DEF dup_file_
    <3>4. file[loc[p].f].vnode # v => E2 \subseteq E
      <4> SUFFICES ASSUME file[loc[p].f].vnode # v, NEW r \in E2 PROVE r \in E
        OBVIOUS
      <4>1. r # <<p, j>>
        BY <3>2 DEF E2, VnodeEntries
      <4> QED  BY <3>1, <4>1
    <3> QED  BY <1>7, <1>8, <2>1, <2>2, <2>3, <3>1, <3>4
  <2> QED  BY <1>14, <2>4, <2>5 DEF dup_file_, Putting
<1>15. ASSUME NEW j \in Slots, copy_lock_(p, j) PROVE Goal
  <2>1. E2 \subseteq E
    BY <1>15, <1>6 DEF copy_lock_, Moves
  <2>2. /\ In(p, j) /\ VOP_INCREF(file[files[p][j]].vnode)
        /\ pc'[p] = "fk_store" /\ loc'[p].i = j /\ files' = files /\ file' = file
    BY <1>15 DEF copy_lock_, Moves
  <2>3. file[files[p][j]].vnode = v => vn_refcount'[v] = vn_refcount[v] + 1
    BY <1>1, <2>2 DEF VOP_INCREF
  <2>4. file[files[p][j]].vnode # v => vn_refcount'[v] = vn_refcount[v] /\ p \notin P2
    BY <1>1, <2>2 DEF VOP_INCREF, P2, VnodePending
  <2> QED  BY <1>7, <1>8, <2>1, <2>3, <2>4
<1>16. ASSUME copy_store_(p) PROVE Goal
  <2> DEFINE i == loc[p].i
             c == loc[p].child
  <2>1. /\ In(p, i) /\ c \in Procs /\ files' = [files EXCEPT ![c][i] = files[p][i]]
        /\ pc[p] = "fk_store" /\ pc'[p] = "fk_scan" /\ vn_refcount' = vn_refcount /\ file' = file
    BY <1>16 DEF copy_store_, Moves
  <2>2. p \notin P2
    BY <2>1 DEF P2, VnodePending
  <2>3. E2 \subseteq E \cup {<<c, i>>}
    <3> SUFFICES ASSUME NEW r \in E2, r \notin E PROVE r = <<c, i>>
      OBVIOUS
    <3>1. r \in Procs \X Slots
      BY <1>1 DEF E2, VnodeEntries
    <3> QED  BY <1>1, <1>6, <2>1, <3>1 DEF In
  <2>4. file[files[p][i]].vnode = v => p \in P
    BY <2>1 DEF P, VnodePending
  <2>5. file[files[p][i]].vnode # v => E2 \subseteq E
    <3> SUFFICES ASSUME file[files[p][i]].vnode # v, NEW r \in E2 PROVE r \in E
      OBVIOUS
    <3>1. files'[c][i] = files[p][i]
      BY <1>1, <2>1 DEF In
    <3>2. r # <<c, i>>
      BY <2>1, <3>1 DEF E2, VnodeEntries
    <3> QED  BY <2>3, <3>2
  <2> QED  BY <1>7, <1>8, <2>1, <2>2, <2>3, <2>4, <2>5
<1>17. ASSUME close_all_load_(p) PROVE Goal
  <2> DEFINE k == loc[p].i
  <2>1. /\ pc[p] = "ca_load" /\ pc'[p] = "ca_store" /\ files' = files /\ loc'[p].i = k
        /\ VOP_DECREF(file[loc[p].f].vnode)
    BY <1>17 DEF close_all_load_, Moves
  <2>2. In(p, k) /\ loc[p].f = files[p][k]
    BY <1>2, <2>1 DEF ArgInv, ArgOf, In
  <2>3. p \notin P2
    BY <2>1 DEF P2, VnodePending
  <2>4. E2 \subseteq E \ {<<p, k>>}
    <3>1. \A r \in E2 : r # <<p, k>>
      BY <2>1 DEF E2, VnodeEntries
    <3> QED  BY <1>6, <2>1, <3>1
  <2>5. CASE file[loc[p].f].vnode = v
    <3>1. <<p, k>> \in E
      BY <2>1, <2>2, <2>5 DEF E, VnodeEntries, In
    <3>2. vn_refcount'[v] = vn_refcount[v] - 1
      BY <1>1, <2>1, <2>5 DEF VOP_DECREF
    <3> QED  BY <1>7, <1>8, <2>3, <2>4, <3>1, <3>2
  <2>6. CASE file[loc[p].f].vnode # v
    <3>1. vn_refcount'[v] = vn_refcount[v]
      BY <1>1, <2>1, <2>6 DEF VOP_DECREF
    <3> QED  BY <1>7, <1>8, <2>3, <2>4, <3>1
  <2> QED  BY <2>5, <2>6
<1>18. Goal
  <2> HIDE DEF Goal
  <2>1. CASE \/ \E w \in Vnodes, can \in AccessModes : open_(p, w, can)
             \/ get_next_fd_(p) \/ open_put_(p) \/ \E i \in Slots : destroy_file_(p, i)
             \/ dup_file_(p) \/ \E j \in Slots : copy_lock_(p, j)
             \/ copy_store_(p) \/ close_all_load_(p)
    BY <2>1, <1>10, <1>11, <1>12, <1>13, <1>14, <1>15, <1>16, <1>17
  <2>2. CASE /\ UNCHANGED vn_refcount /\ pc'[p] \notin {"op_fd", "op_put", "fk_store"}
             /\ pc[p] = "ca_store" => Back(p, "ca_store")
             /\ \/ UNCHANGED files
                \/ \E q \in Procs : files' = [files EXCEPT ![q] = FreshTable]
                \/ files' = [files EXCEPT ![p] = [i \in Slots |-> NULL]]
                \/ \E i \in Slots : files' = [files EXCEPT ![p][i] = NULL]
    <3>1. \A q \in Procs, i \in Slots : files'[q][i] \in {files[q][i], NULL} \cup Std
      BY <1>1, <2>2 DEF FreshTable
    <3>2. pc[p] = "ca_store" => files'[p][loc[p].i] = NULL
      BY <1>1, <2>2 DEF Back, In
    <3> QED  BY <2>2, <3>1, <3>2, <1>9
  <2> QED
    BY <2>1, <2>2
       DEF Normal, Moves, Back, In, SameStructs, open_bad_flags_, close_, dup2_, transfer_,
           lseek_, fork_, exit_, close_dupe_, close_file_, close_return_, close_dup_,
           close_not_found_, close_shared_, close_load_, close_store_, copy_file_lock_,
           copy_file_store_, transfer_over_, transfer_begin_, transfer_end_, read_no_memory_,
           lseek_over_, lseek_lock_, lseek_set_, fork_done_, exit_shared_, exit_last_,
           close_all_store_, exit_done_
<1> QED  BY <1>18 DEF E2, P2

(* No vnode is open at the start.                                           *)
LEMMA VnodeInit == Init => VnodeCovered
<1> SUFFICES ASSUME Init, NEW v \in Vnodes
             PROVE  vn_refcount[v] >= Cardinality(VnodeEntries(v)) + Cardinality(VnodePending(v))
  BY DEF VnodeCovered
<1>1. BaseInv /\ setting \in Settings /\ NULL \notin Vnodes
  BY BaseInit, FileTableAssumption DEF Init
<1>2. \A p \in Procs, i \in Slots : files[p][i] \in Std \cup {NULL}
  BY DEF Init, FreshTable
<1>3. VnodeEntries(v) = {}
  BY <1>1, <1>2 DEF VnodeEntries, BaseInv, FdInv
<1>4. VnodePending(v) = {}
  BY DEF VnodePending, Init
<1> QED  BY <1>3, <1>4, FS_EmptySet DEF Init

(* No step leaves a vnode with fewer references than files that name it.    *)
LEMMA VnodeNext ==
    ASSUME BaseInv, VnodeCovered, [Next]_vars
    PROVE  VnodeCovered'
<1>1. ASSUME UNCHANGED <<structs, gtable, ptables, pc, loc, setting>> PROVE VnodeCovered'
  <2>1. UNCHANGED <<file, vn_refcount, files, pc, loc, setting>>
    BY <1>1 DEF structs, ptables
  <2> QED  BY <2>1 DEF VnodeCovered, VnodeEntries, VnodePending, Slots, OPEN_MAX
<1>2. ASSUME NEW p \in Procs, Call(p) \/ Step(p) PROVE VnodeCovered'
  BY <1>1, <1>2, Cases, VnodeStep DEF Panic
<1> QED  BY <1>1, <1>2 DEF Next, vars

(* Whatever programs do, a vnode has at least as many references as there  *)
(* are table entries with it, those of calls in progress included: close   *)
(* and exit never let it be reclaimed under an open descriptor.            *)
THEOREM VnodesAreCovered == Spec => []VnodeCovered
  BY BaseAlways, VnodeInit, VnodeNext, PTL DEF Spec



-----------------------------------------------------------------------------
(* Careful programs.  What a step may put into a slot of a table.          *)
Filled(p, q, i) ==
    \/ files'[q][i] = files[q][i]
    \/ files'[q][i] = NULL
    \/ files'[q][i] \in Std /\ files'[q][i] = i /\ \E r \in Procs : fork_(p, r)
    \/ open_put_(p) /\ q = p /\ files'[q][i] = loc[p].f
    \/ dup_file_(p) /\ q = p /\ files'[q][i] = next_struct
    \/ copy_store_(p) /\ q = loc[p].child /\ i = loc[p].i /\ files'[q][i] = files[p][i]

(* How a slot of a table may change in a step.                              *)
LEMMA TableStep ==
    ASSUME BaseInv, NEW p \in Procs, Normal(p)
    PROVE  \A q \in Procs, i \in Slots : Filled(p, q, i)
<1>1. /\ files \in [Procs -> [Slots -> Files \cup {NULL}]] /\ setting \in Settings
  BY SameTypes DEF BaseInv, GlobalTableSound, TableTypes
<1>2. CASE UNCHANGED files
  BY <1>2 DEF Filled
<1>3. ASSUME NEW q \in Procs, fork_(p, q) PROVE \A r \in Procs, i \in Slots : Filled(p, r, i)
  BY <1>1, <1>3 DEF fork_, Filled, FreshTable
<1>4. CASE open_put_(p)
  BY <1>1, <1>4 DEF open_put_, Putting, Filled
<1>5. CASE dup_file_(p)
  BY <1>1, <1>5 DEF dup_file_, Putting, Filled
<1>6. CASE copy_store_(p)
  BY <1>1, <1>6 DEF copy_store_, Filled, In
<1>7. CASE exit_done_(p)
  BY <1>1, <1>7 DEF exit_done_, Filled
<1>8. ASSUME NEW j \in Slots, files' = [files EXCEPT ![p][j] = NULL]
      PROVE \A r \in Procs, i \in Slots : Filled(p, r, i)
  BY <1>1, <1>8 DEF Filled
<1>9. ASSUME NEW from, Back(p, from) PROVE \E j \in Slots : files' = [files EXCEPT ![p][j] = NULL]
  BY <1>9 DEF Back, In
<1>10. \/ UNCHANGED files \/ \E q \in Procs : fork_(p, q)
       \/ open_put_(p) \/ dup_file_(p) \/ copy_store_(p) \/ exit_done_(p)
       \/ \E j \in Slots : files' = [files EXCEPT ![p][j] = NULL]
       \/ \E from \in Labels : Back(p, from)
  BY DEF Normal, Labels, open_, open_bad_flags_, close_, dup2_, transfer_, lseek_, exit_,
         get_next_fd_, close_dupe_, close_file_, close_return_, close_dup_, close_not_found_,
         destroy_file_, close_shared_, close_load_, close_store_, copy_file_lock_,
         copy_file_store_, transfer_over_, transfer_begin_, transfer_end_, read_no_memory_,
         lseek_over_, lseek_lock_, lseek_set_, copy_lock_, fork_done_, exit_shared_, exit_last_,
         close_all_load_, close_all_store_
<1> QED
  BY <1>2, <1>3, <1>4, <1>5, <1>6, <1>7, <1>8, <1>9, <1>10

(* The references of a file, without pairs.                                *)
LEMMA SharedIs ==
    ASSUME NEW p \in Procs, NEW f
    PROVE  Shared(p, f) <=> /\ f \notin Std
                            /\ \E q \in Procs \ {p}, i \in Slots : files[q][i] = f
<1>1. ASSUME NEW q \in Procs \ {p}, NEW i \in Slots, files[q][i] = f
      PROVE  \E r \in Refs(f) : r[1] # p
  <2>1. <<q, i>> \in Refs(f) /\ <<q, i>>[1] # p
    BY <1>1 DEF Refs
  <2> QED  BY <2>1
<1>2. ASSUME NEW r \in Refs(f), r[1] # p
      PROVE  \E q \in Procs \ {p}, i \in Slots : files[q][i] = f
  BY <1>2 DEF Refs
<1> QED  BY <1>1, <1>2 DEF Shared

SharedNext(p, f) == f \notin Std /\ \E q \in Procs \ {p}, i \in Slots : files'[q][i] = f

(* Only fork makes a file shared that was not.                             *)
LEMMA SharedStep ==
    ASSUME BaseInv, NEW p \in Procs, Normal(p), NEW r \in Procs, NEW f, Public(f),
           ~Shared(r, f)
    PROVE  \/ ~SharedNext(r, f)
           \/ copy_store_(p) /\ r = p /\ loc[p].i \in Slots /\ f = files[p][loc[p].i]
<1> SUFFICES ASSUME NEW s \in Procs, NEW i \in Slots, files'[s][i] = f, s # r, f \notin Std
             PROVE  copy_store_(p) /\ r = p /\ loc[p].i \in Slots /\ f = files[p][loc[p].i]
  BY DEF SharedNext
<1>1. /\ setting \in Settings /\ NULL \notin Files /\ next_struct \in Nat
      /\ PlaceInv /\ f \in Nat /\ f # NULL
  BY SameTypes, Numbers DEF BaseInv, GlobalTableSound, StructTypes, Public
<1>2. \A q \in Procs \ {r}, j \in Slots : files[q][j] # f
  BY SharedIs
<1>3. f # next_struct /\ (open_put_(p) => f # loc[p].f)
  BY <1>1 DEF Public, InOpen, open_put_, Moves
<1>4. copy_store_(p) /\ i = loc[p].i /\ files'[s][i] = files[p][i]
  BY <1>1, <1>2, <1>3, TableStep DEF Filled
<1> QED
  BY <1>2, <1>4

(* The fields of a public file do not change.                              *)
LEMMA KeepPublic ==
    ASSUME BaseInv, NEW p \in Procs, Normal(p), NEW f, Public(f)
    PROVE  file'[f] = file[f]
<1>1. get_next_fd_(p) => p \in InOpen
  BY DEF get_next_fd_, Moves, InOpen
<1> QED  BY <1>1, KeepFile DEF Public


(* The file that close_file_on_gtable frees for p is the one in its slot,  *)
(* and it is in no other slot.                                             *)
LEMMA Named ==
    ASSUME BaseInv, CareInv, NEW p \in Procs, pc[p] = "cg_find", NEW i \in Slots,
           open_files[i] # NULL,
           file[open_files[i]].global_fd = file[files[p][loc[p].i]].global_fd
    PROVE  /\ In(p, loc[p].i) /\ open_files[i] = files[p][loc[p].i]
           /\ open_files[i] \notin Std /\ ~file[open_files[i]].is_dupe
           /\ file[open_files[i]].vnode \in Vnodes
<1> DEFINE f == files[p][loc[p].i]
           g == open_files[i]
<1>1. ArgInv /\ PlaceInv /\ NameInv /\ UseInv
  BY DEF BaseInv, CareInv
<1>2. In(p, loc[p].i)
  BY <1>1 DEF ArgInv, ArgOf, GlobalLabels, In
<1>3. Public(f) /\ Public(g) /\ ~file[g].is_dupe
  BY <1>1, <1>2 DEF PlaceInv, In
<1>4. f \in 0 .. next_struct - 1 /\ g \in 0 .. next_struct - 1
  BY <1>3 DEF Public
<1>5. file[f].std = -1 /\ ~file[f].is_dupe
  BY <1>1 DEF UseInv, UseOf, GlobalLabels
<1>6. f \notin Std /\ file[f].global_fd # -1 /\ file[f].vnode \in Vnodes
  <2>1. \A s \in Std : s # -1
    BY DEF Std, STDIN, STDOUT, STDERR
  <2> QED  BY <1>1, <1>3, <1>4, <1>5, <2>1 DEF NameInv, NameOf
<1>7. f = g
  BY <1>1, <1>3, <1>4, <1>5, <1>6 DEF NameInv
<1> QED  BY <1>2, <1>3, <1>6, <1>7

(* A file that is no duplicate and has a count of 1 is in one slot.        *)
LEMMA OneRef ==
    ASSUME BaseInv, CareInv, NEW p \in Procs, NEW k \in Slots, files[p][k] # NULL,
           files[p][k] \notin Std, ~file[files[p][k]].is_dupe, refcount[files[p][k]] = 1,
           NEW q \in Procs, NEW j \in Slots, files[q][j] = files[p][k]
    PROVE  q = p /\ j = k
<1> DEFINE R == Refs(files[p][k])
<1>1. 1 >= Cardinality(R)
  BY DEF CareInv, RefInv, Enough
<1>2. <<p, k>> \in R /\ <<q, j>> \in R
  BY DEF Refs
<1>3. IsFiniteSet(R) /\ Cardinality(R) \in Nat
  <2>1. setting \in Settings
    BY SameTypes DEF BaseInv, GlobalTableSound
  <2>2. R \in SUBSET (Procs \X Slots)
    BY DEF Refs
  <2> QED  BY <2>1, <2>2, SomeProcs
<1> HIDE DEF R
<1>4. Cardinality(R) = 0 \/ Cardinality(R) = 1
  BY <1>1, <1>3
<1>5. Cardinality(R) # 0
  BY <1>2, <1>3, FS_EmptySet
<1>6. PICK x : R = {x}
  BY <1>3, <1>4, <1>5, FS_Singleton
<1>7. <<p, k>> = <<q, j>>
  BY <1>2, <1>6
<1> QED  BY <1>7

(* What destroy_file frees is in no table but the slot being closed.        *)
LEMMA Destroyed ==
    ASSUME BaseInv, CareInv, NEW p \in Procs, NEW i \in Slots, destroy_file_(p, i)
    PROVE  LET f == files[p][loc[p].i] IN
           /\ In(p, loc[p].i) /\ live' = live \ {f} /\ f \notin Std
           /\ ~file[f].is_dupe /\ open_files[i] = f
           /\ \A q \in Procs, j \in Slots : files[q][j] = f => q = p /\ j = loc[p].i
<1> DEFINE k == loc[p].i
           f == files[p][k]
<1>1. /\ pc[p] = "cg_find" /\ open_files[i] \in Files /\ live' = live \ {open_files[i]}
      /\ file[open_files[i]].global_fd = file[files[p][k]].global_fd
      /\ refcount[open_files[i]] = 1
  BY DEF destroy_file_, Back, Moves
<1>2. NULL \notin Files
  BY SameTypes, Numbers DEF BaseInv, GlobalTableSound
<1>3. In(p, k) /\ open_files[i] = f /\ f \notin Std /\ ~file[f].is_dupe
  BY <1>1, <1>2, Named
<1>4. \A q \in Procs, j \in Slots : files[q][j] = f => q = p /\ j = k
  BY <1>1, <1>3, OneRef DEF In
<1> QED  BY <1>1, <1>3, <1>4


(* A file of careful programs stays in its slots until it is closed there. *)
LEMMA SlotStep ==
    ASSUME BaseInv, CareInv, NEW p \in Procs, Normal(p)
    PROVE  SlotInv'
<1>1. /\ files \in [Procs -> [Slots -> Files \cup {NULL}]] /\ NULL \notin Files
      /\ open_files \in [Slots -> Files \cup {NULL}] /\ setting \in Settings /\ Slots' = Slots
      /\ next_struct \in Nat /\ live \subseteq 0 .. next_struct - 1 /\ NULL \notin Std
      /\ refcount \in [Files -> Int]
  BY Others, SameTypes, Numbers DEF BaseInv, GlobalTableSound, TableTypes, StructTypes
<1>2. ArgInv /\ PlaceInv /\ ChildInv /\ SlotInv /\ NameInv /\ RefInv /\ UseInv /\ ForkInv
  BY DEF BaseInv, CareInv
<1>3. \A q \in Procs, i \in Slots : files[q][i] # NULL =>
         /\ Public(files[q][i]) /\ files[q][i] \in 0 .. next_struct - 1
         /\ file'[files[q][i]].is_dupe = file[files[q][i]].is_dupe
  BY <1>1, <1>2, KeepFile DEF PlaceInv, Public
<1>4. ASSUME \A q \in Procs, i \in Slots : files'[q][i] \in {files[q][i], NULL},
             \A q \in Procs, i \in Slots : files'[q][i] # NULL => files'[q][i] \in live',
             Std \subseteq live'
      PROVE  SlotInv'
  BY <1>1, <1>2, <1>3, <1>4 DEF SlotInv
<1>5. ASSUME NEW f \in Files \ Std, f \in live', live \subseteq live', NEW j \in Slots,
             files' = [files EXCEPT ![p][j] = f],
             \A q \in Procs, i \in Slots : files[q][i] # f
      PROVE  SlotInv'
  <2>1. \A q \in Procs, i \in Slots : \/ files'[q][i] = files[q][i] /\ files[q][i] # f
                                      \/ files'[q][i] = f /\ q = p /\ i = j
    BY <1>1, <1>5
  <2> QED  BY <1>1, <1>2, <1>3, <1>5, <2>1 DEF SlotInv
<1>6. \A q \in Procs, i \in Slots : files[q][i] # NULL /\ files[q][i] \in Std =>
         files[q][i] = i /\ ~file[files[q][i]].is_dupe
  BY <1>2, <1>3 DEF SlotInv, NameInv, NameOf
<1>7. ASSUME NEW q \in Procs, fork_(p, q) PROVE SlotInv'
  <2>1. /\ files' = [files EXCEPT ![q] = FreshTable] /\ live' = live /\ file' = file
    BY <1>7 DEF fork_, SameStructs
  <2>2. \A r \in Procs, i \in Slots : \/ files'[r][i] = files[r][i] /\ r # q
                                      \/ files'[r][i] = NULL
                                      \/ files'[r][i] = i /\ i \in Std
    BY <1>1, <2>1 DEF FreshTable
  <2>3. \A f \in Std : ~file[f].is_dupe
    BY <1>2, StdStructs DEF NameInv, NameOf, BaseInv, GlobalTableSound
  <2>4. \A r \in Procs, i \in Slots : files'[r][i] # NULL =>
           /\ files'[r][i] \in live /\ (files'[r][i] \in Std => files'[r][i] = i)
           /\ files'[r][i] \notin Std => files'[r][i] = files[r][i]
    BY <1>2, <2>2 DEF SlotInv
  <2>5. ASSUME NEW r \in Procs, NEW i \in Slots, NEW s \in Procs, NEW j \in Slots,
               files'[r][i] # NULL, files'[s][j] = files'[r][i],
               s = r \/ file[files'[r][i]].is_dupe
        PROVE  s = r /\ j = i
    <3>1. CASE files'[r][i] \in Std
      BY <2>3, <2>4, <2>5, <3>1
    <3>2. CASE files'[r][i] \notin Std
      BY <1>2, <2>4, <2>5, <3>2 DEF SlotInv
    <3> QED  BY <3>1, <3>2
  <2> QED  BY <1>1, <1>2, <2>1, <2>4, <2>5 DEF SlotInv
<1>8. ASSUME open_put_(p) PROVE SlotInv'
  <2>1. /\ p \in InOpen /\ live' = live /\ loc[p].f \in Files /\ loc[p].f \in live \ Std
        /\ Putting(p, loc[p].f) /\ file' = file
    BY <1>2, <1>8 DEF open_put_, Moves, InOpen, SameStructs, PlaceInv
  <2>2. \A q \in Procs, i \in Slots : files[q][i] # loc[p].f
    BY <1>1, <1>3, <2>1 DEF Public
  <2>3. CASE UNCHANGED files
    BY <1>2, <1>4, <2>1, <2>3 DEF SlotInv
  <2>4. CASE \E j \in Slots : files[p][j] = NULL /\ files' = [files EXCEPT ![p][j] = loc[p].f]
    BY <1>5, <2>1, <2>2, <2>4
  <2> QED  BY <2>1, <2>3, <2>4 DEF Putting
<1>9. ASSUME dup_file_(p) PROVE SlotInv'
  <2>1. /\ live' = live \cup {next_struct} /\ next_struct \in Files /\ Putting(p, next_struct)
    BY <1>9 DEF dup_file_
  <2>2. next_struct \notin Std /\ \A q \in Procs, i \in Slots : files[q][i] # next_struct
    <3>1. next_struct \notin Std
      BY <1>1, StdStructs DEF BaseInv, GlobalTableSound
    <3>2. next_struct \notin 0 .. next_struct - 1
      BY <1>1
    <3> QED  BY <1>1, <1>3, <2>1, <3>1, <3>2
  <2>3. CASE UNCHANGED files
    BY <1>2, <1>4, <2>1, <2>3 DEF SlotInv
  <2>4. CASE \E j \in Slots : files[p][j] = NULL /\ files' = [files EXCEPT ![p][j] = next_struct]
    BY <1>5, <2>1, <2>2, <2>4
  <2> QED  BY <2>1, <2>3, <2>4 DEF Putting
<1>10. ASSUME copy_store_(p) PROVE SlotInv'
  <2> DEFINE k == loc[p].i
             c == loc[p].child
             f == files[p][k]
  <2>1. /\ pc[p] = "fk_store" /\ In(p, k) /\ c \in Procs
        /\ files' = [files EXCEPT ![c][k] = f]
        /\ live' = live /\ file' = file
    BY <1>10 DEF copy_store_, Moves
  <2>2. c # p
    BY <1>2, <2>1 DEF ChildInv, ForkLabels
  <2>3. ~Shared(p, f) /\ ~file[f].is_dupe /\ f # NULL
    <3>1. k \in Slots /\ k >= k /\ files[p][k] # NULL
      BY <1>1, <2>1, Numbers DEF In
    <3> QED  BY <1>2, <2>1, <3>1 DEF ForkInv, ForkOf, ForkLabels
  <2>4. \A i \in Slots : files[c][i] = f => i = k
    <3>1. CASE f \in Std
      BY <1>2, <2>1, <2>3, <3>1 DEF SlotInv, In
    <3>2. CASE f \notin Std
      BY <2>1, <2>2, <2>3, <3>2, SharedIs
    <3> QED  BY <3>1, <3>2
  <2>5. k \in Slots /\ f \in live /\ (f \in Std => f = k)
    BY <1>2, <2>1, <2>3 DEF SlotInv, In
  <2> HIDE DEF k, c, f
  <2>6. \A q \in Procs, i \in Slots : \/ files'[q][i] = files[q][i] /\ ~(q = c /\ i = k)
                                      \/ files'[q][i] = f /\ q = c /\ i = k
    BY <1>1, <2>1, <2>5
  <2>7. \A q \in Procs, i \in Slots : files'[q][i] # NULL =>
           files'[q][i] \in live /\ (files'[q][i] \in Std => files'[q][i] = i)
    BY <1>2, <2>5, <2>6 DEF SlotInv
  <2>8. ASSUME NEW r \in Procs, NEW i \in Slots, NEW s \in Procs, NEW j \in Slots,
               files'[r][i] # NULL, files'[s][j] = files'[r][i],
               s = r \/ file[files'[r][i]].is_dupe
        PROVE  s = r /\ j = i
    <3>1. CASE files'[r][i] = f
      BY <2>3, <2>4, <2>6, <2>8, <3>1, <1>2 DEF SlotInv
    <3>2. CASE files'[r][i] # f
      BY <1>2, <2>6, <2>8, <3>2 DEF SlotInv
    <3> QED  BY <3>1, <3>2
  <2> QED  BY <1>1, <1>2, <2>1, <2>7, <2>8 DEF SlotInv
<1>11. ASSUME NEW j \in Slots, close_dupe_(p, j) PROVE SlotInv'
  <2>1. /\ In(p, j) /\ file[files[p][j]].is_dupe /\ live' = live \ {files[p][j]}
        /\ files' = [files EXCEPT ![p][j] = NULL]
    BY <1>11 DEF close_dupe_
  <2>2. \A q \in Procs, i \in Slots : files[q][i] = files[p][j] => q = p /\ i = j
    BY <1>2, <2>1 DEF SlotInv, In
  <2>3. \A q \in Procs, i \in Slots : \/ files'[q][i] = files[q][i] /\ ~(q = p /\ i = j)
                                      \/ files'[q][i] = NULL
    BY <1>1, <2>1
  <2>4. files[p][j] \notin Std
    BY <1>6, <2>1 DEF In
  <2>5. \A q \in Procs, i \in Slots : files'[q][i] # NULL => files'[q][i] \in live'
    BY <1>2, <2>1, <2>2, <2>3 DEF SlotInv
  <2> QED  BY <1>2, <1>4, <2>1, <2>3, <2>4, <2>5 DEF SlotInv
<1>12. ASSUME NEW i \in Slots, destroy_file_(p, i) PROVE SlotInv'
  <2> DEFINE k == loc[p].i
             f == files[p][k]
  <2>1. /\ In(p, k) /\ live' = live \ {f} /\ f \notin Std
        /\ \A q \in Procs, j \in Slots : files[q][j] = f => q = p /\ j = k
    BY <1>12, Destroyed
  <2>2. files' = [files EXCEPT ![p][k] = NULL]
    BY <1>12 DEF destroy_file_, Back
  <2> HIDE DEF k, f
  <2>3. \A q \in Procs, j \in Slots : \/ files'[q][j] = files[q][j] /\ ~(q = p /\ j = k)
                                      \/ files'[q][j] = NULL
    BY <1>1, <2>1, <2>2 DEF In
  <2>4. \A q \in Procs, j \in Slots : files'[q][j] # NULL => files'[q][j] \in live'
    BY <1>2, <2>1, <2>3 DEF SlotInv
  <2> QED  BY <1>2, <1>4, <2>1, <2>3, <2>4 DEF SlotInv
<1>13. ASSUME live \subseteq live',
              \A q \in Procs, i \in Slots : files'[q][i] \in {files[q][i], NULL}
       PROVE  SlotInv'
  BY <1>2, <1>4, <1>13 DEF SlotInv
<1>14. ASSUME \A q \in Procs : ~fork_(p, q), ~open_put_(p), ~dup_file_(p), ~copy_store_(p)
       PROVE  \A q \in Procs, i \in Slots : files'[q][i] \in {files[q][i], NULL}
  BY <1>14, TableStep DEF Filled
<1>15. ASSUME \A j \in Slots : ~close_dupe_(p, j), \A i \in Slots : ~destroy_file_(p, i)
       PROVE  live \subseteq live'
  BY <1>15
     DEF Normal, SameStructs, open_, open_bad_flags_, close_, dup2_, transfer_, lseek_, fork_,
         exit_, get_next_fd_, open_put_, close_file_, close_return_, close_dup_,
         close_not_found_, close_shared_, close_load_, close_store_, copy_file_lock_,
         copy_file_store_, dup_file_, transfer_over_, transfer_begin_, transfer_end_,
         read_no_memory_, lseek_over_, lseek_lock_, lseek_set_, copy_lock_, copy_store_,
         fork_done_, exit_shared_, exit_last_, close_all_load_, close_all_store_, exit_done_
<1> QED
  BY <1>7, <1>8, <1>9, <1>10, <1>11, <1>12, <1>13, <1>14, <1>15


(* The names of the files after a step.                                    *)
NameNext(f) ==
    /\ f \in Std => /\ file'[f].std = f /\ ~file'[f].is_dupe
                    /\ file'[f].local_fd = f
    /\ f \notin Std /\ ~file'[f].is_dupe => file'[f].std = -1
    /\ file'[f].std = -1 => file'[f].vnode \in Vnodes
    /\ PublicNext(f) /\ f \notin Std => /\ file'[f].local_fd >= 3
                                        /\ ~file'[f].is_dupe => file'[f].global_fd # -1

(* The steps of careful programs keep the names of files.                   *)
LEMMA NameStep ==
    ASSUME BaseInv, CareInv, NEW p \in Procs, Normal(p)
    PROVE  NameInv'
<1>1. /\ next_struct \in Nat /\ next_fd \in Nat /\ next_fd >= 3 /\ file \in [Files -> FileRec]
      /\ Files = 0 .. MostStructs - 1 /\ next_struct <= MostStructs /\ MostStructs \in Nat
  BY SameTypes, Numbers DEF BaseInv, GlobalTableSound, StructTypes, TableTypes
<1>2. FdInv /\ PlaceInv /\ NameInv /\ DupInv
  BY DEF BaseInv, CareInv
<1>3. \A f \in Std : f \in 0 .. next_struct - 1
  BY StdStructs DEF BaseInv, GlobalTableSound
<1>4. \A f \in 0 .. next_struct - 1 : PublicNext(f) =>
         Public(f) \/ (pc[p] = "op_put" /\ f = loc[p].f)
  BY OpenStep DEF PublicNext, Public, InOpen
<1>5. \A q \in Procs : pc[q] = "op_put" => loc[q].f \in 0 .. next_struct - 1
  BY <1>2, SameTypes DEF PlaceInv, InOpen, BaseInv, GlobalTableSound, StructTypes
<1>6. SUFFICES /\ \A f \in 0 .. next_struct' - 1 : NameNext(f)
               /\ \A f, g \in 0 .. next_struct' - 1 :
                     file'[f].global_fd = file'[g].global_fd /\ file'[f].global_fd # -1
                        /\ ~file'[f].is_dupe /\ ~file'[g].is_dupe => f = g
               /\ \A q \in Procs : pc'[q] = "op_put" => file'[loc'[q].f].local_fd >= 3
  BY DEF NameInv, NameOf, NameNext, Public, PublicNext
<1>7. CASE \E v \in Vnodes, can \in AccessModes : open_(p, v, can)
  <2>1. PICK v \in Vnodes, can \in AccessModes : open_(p, v, can)
    BY <1>7
  <2>2. /\ next_struct' = next_struct + 1
        /\ file'[next_struct].global_fd = -1 /\ file'[next_struct].std = -1
        /\ file'[next_struct].is_dupe = FALSE /\ file'[next_struct].vnode = v
        /\ \A f \in 0 .. next_struct - 1 : file'[f] = file[f]
        /\ \A q \in Procs : pc'[q] = "op_put" => pc[q] = "op_put" /\ loc'[q] = loc[q]
    <3>1. /\ next_struct' = next_struct + 1
          /\ file'[next_struct].global_fd = -1 /\ file'[next_struct].std = -1
          /\ file'[next_struct].is_dupe = FALSE /\ file'[next_struct].vnode = v
      BY <2>1 DEF open_
    <3>2. \A f \in 0 .. next_struct - 1 : file'[f] = file[f]
      <4>1. \A f \in 0 .. next_struct - 1 : f \in Files \ {next_struct}
        BY <1>1
      <4> QED  BY <2>1, <4>1 DEF open_, OthersKeep
    <3>3. \A q \in Procs : pc'[q] = "op_put" => pc[q] = "op_put" /\ loc'[q] = loc[q]
      BY <2>1 DEF open_, Moves
    <3> QED  BY <3>1, <3>2, <3>3
  <2>3. ~PublicNext(next_struct)
    BY <2>1 DEF PublicNext, open_, Moves, InOpen
  <2>4. \A f \in 0 .. next_struct - 1 : PublicNext(f) => Public(f)
    BY <1>4, <2>1 DEF open_, Moves
  <2>5. 0 .. next_struct' - 1 = 0 .. next_struct - 1 \cup {next_struct}
    BY <1>1, <2>2
  <2>6. NameNext(next_struct)
    BY <1>1, <1>3, <2>2, <2>3 DEF NameNext
  <2>7. \A f \in 0 .. next_struct - 1 : NameNext(f)
    BY <1>2, <2>2, <2>4 DEF NameInv, NameOf, NameNext
  <2>8. \A f, g \in 0 .. next_struct' - 1 :
           file'[f].global_fd = file'[g].global_fd /\ file'[f].global_fd # -1
              /\ ~file'[f].is_dupe /\ ~file'[g].is_dupe => f = g
    BY <1>2, <2>2, <2>5 DEF NameInv
  <2>9. \A q \in Procs : pc'[q] = "op_put" => file'[loc'[q].f].local_fd >= 3
    BY <1>2, <1>5, <2>2 DEF NameInv
  <2> QED  BY <2>5, <2>6, <2>7, <2>8, <2>9
<1>8. CASE get_next_fd_(p)
  <2> DEFINE h == loc[p].f
  <2>1. /\ next_struct' = next_struct /\ next_fd' = next_fd + 1
        /\ file'[h].global_fd = next_fd /\ file'[h].local_fd = next_fd
        /\ file'[h].std = file[h].std /\ file'[h].is_dupe = file[h].is_dupe
        /\ file'[h].vnode = file[h].vnode
        /\ \A q \in Procs : pc'[q] = "op_put" => q = p \/ (pc[q] = "op_put" /\ loc'[q] = loc[q])
        /\ loc'[p] = loc[p] /\ p \in InOpen /\ p \in InOpen'
    BY <1>8 DEF get_next_fd_, Moves, InOpen
  <2>2. /\ h \in 0 .. next_struct - 1 /\ h \notin Std
        /\ \A f \in 0 .. next_struct - 1 : f # h => file'[f] = file[f]
    BY <1>1, <1>2, <1>8, <2>1, SameTypes
       DEF get_next_fd_, OthersKeep, PlaceInv, BaseInv, GlobalTableSound, StructTypes
  <2>3. ~PublicNext(h) /\ \A f \in 0 .. next_struct - 1 : PublicNext(f) => Public(f)
    <3>1. pc[p] = "op_fd"
      BY <1>8 DEF get_next_fd_, Moves
    <3> QED  BY <1>4, <2>1, <3>1 DEF PublicNext
  <2>4. \A f \in 0 .. next_struct - 1 : NameNext(f)
    <3>1. NameNext(h)
      BY <1>2, <2>1, <2>2, <2>3 DEF NameInv, NameOf, NameNext
    <3>2. \A f \in 0 .. next_struct - 1 : f # h => NameNext(f)
      BY <1>2, <2>2, <2>3 DEF NameInv, NameOf, NameNext
    <3> QED  BY <3>1, <3>2
  <2>5. \A f \in 0 .. next_struct - 1 : f # h => file'[f].global_fd # next_fd
    <3>1. \A f \in Files : file[f].global_fd \in Int
      BY <1>1, SameTypes, Numbers DEF FileRec, BaseInv, GlobalTableSound
    <3>2. \A f \in 0 .. next_struct - 1 : file[f].global_fd \in Int /\ file[f].global_fd < next_fd
      BY <1>1, <1>2, <3>1 DEF FdInv
    <3> QED  BY <1>1, <2>2, <3>2
  <2>6. \A f, g \in 0 .. next_struct' - 1 :
           file'[f].global_fd = file'[g].global_fd /\ file'[f].global_fd # -1
              /\ ~file'[f].is_dupe /\ ~file'[g].is_dupe => f = g
    BY <1>2, <2>1, <2>2, <2>5 DEF NameInv
  <2>7. \A q \in Procs : pc'[q] = "op_put" => file'[loc'[q].f].local_fd >= 3
    BY <1>1, <1>2, <1>5, <2>1, <2>2 DEF NameInv
  <2> QED  BY <2>1, <2>4, <2>6, <2>7
<1>9. CASE dup_file_(p)
  <2> DEFINE h == loc[p].f
  <2>1. /\ next_struct' = next_struct + 1
        /\ file'[next_struct].is_dupe = TRUE /\ file'[next_struct].local_fd = loc[p].fd
        /\ file'[next_struct].vnode = file[h].vnode /\ file'[next_struct].std = file[h].std
        /\ \A f \in 0 .. next_struct - 1 : file'[f] = file[f]
        /\ \A q \in Procs : pc'[q] = "op_put" => pc[q] = "op_put" /\ loc'[q] = loc[q]
    BY <1>1, <1>9 DEF dup_file_, OthersKeep, Moves
  <2>2. Public(h) /\ h \in 0 .. next_struct - 1
    BY <1>2, <1>9 DEF dup_file_, Moves, PlaceInv, UseLabels, Public
  <2>3. loc[p].fd >= 3
    BY <1>2, <1>9 DEF dup_file_, Moves, DupInv, DupOf, BaseInv, ArgInv, ArgOf
  <2>4. \A f \in 0 .. next_struct - 1 : PublicNext(f) => Public(f)
    BY <1>4, <1>9 DEF dup_file_, Moves
  <2>5. 0 .. next_struct' - 1 = 0 .. next_struct - 1 \cup {next_struct}
    BY <1>1, <2>1
  <2>6. NameNext(next_struct)
    <3>1. next_struct \notin Std
      BY <1>1, <1>3
    <3> QED  BY <1>2, <2>1, <2>2, <2>3, <3>1 DEF NameInv, NameOf, NameNext
  <2>7. \A f \in 0 .. next_struct - 1 : NameNext(f)
    BY <1>2, <2>1, <2>4 DEF NameInv, NameOf, NameNext
  <2>8. \A f, g \in 0 .. next_struct' - 1 :
           file'[f].global_fd = file'[g].global_fd /\ file'[f].global_fd # -1
              /\ ~file'[f].is_dupe /\ ~file'[g].is_dupe => f = g
    BY <1>2, <2>1, <2>5 DEF NameInv
  <2>9. \A q \in Procs : pc'[q] = "op_put" => file'[loc'[q].f].local_fd >= 3
    BY <1>2, <1>5, <2>1 DEF NameInv
  <2> QED  BY <2>5, <2>6, <2>7, <2>8, <2>9
<1>10. CASE UNCHANGED <<file, next_struct, next_fd>>
  <2>1. \A q \in Procs : pc'[q] = "op_put" => \/ pc[q] = "op_put" /\ loc'[q] = loc[q]
                                              \/ get_next_fd_(p)
    <3>1. pc'[p] = "op_put" => \/ pc[p] = "op_put" /\ loc'[p] = loc[p]
                               \/ get_next_fd_(p)
      BY DEF Normal, Moves, Back, open_, open_bad_flags_, close_, dup2_, transfer_, lseek_,
             fork_, exit_, open_put_, close_dupe_, close_file_, close_return_, close_dup_,
             close_not_found_, destroy_file_, close_shared_, close_load_, close_store_,
             copy_file_lock_, copy_file_store_, dup_file_, transfer_over_, transfer_begin_,
             transfer_end_, read_no_memory_, lseek_over_, lseek_lock_, lseek_set_, copy_lock_,
             copy_store_, fork_done_, exit_shared_, exit_last_, close_all_load_,
             close_all_store_, exit_done_
    <3> QED  BY <3>1, Others DEF OtherStep
  <2>2. ~get_next_fd_(p)
    BY <1>1, <1>10 DEF get_next_fd_
  <2>3. \A f \in 0 .. next_struct - 1 : NameNext(f)
    <3> SUFFICES ASSUME NEW f \in 0 .. next_struct - 1 PROVE NameNext(f)
      OBVIOUS
    <3>1. CASE PublicNext(f) => Public(f)
      BY <1>2, <1>10, <3>1 DEF NameInv, NameOf, NameNext
    <3>2. CASE pc[p] = "op_put" /\ f = loc[p].f
      BY <1>2, <1>10, <3>2 DEF NameInv, NameOf, NameNext, FdInv
    <3> QED  BY <1>4, <3>1, <3>2
  <2>4. \A f, g \in 0 .. next_struct' - 1 :
           file'[f].global_fd = file'[g].global_fd /\ file'[f].global_fd # -1
              /\ ~file'[f].is_dupe /\ ~file'[g].is_dupe => f = g
    BY <1>2, <1>10 DEF NameInv
  <2>5. \A q \in Procs : pc'[q] = "op_put" => file'[loc'[q].f].local_fd >= 3
    BY <1>2, <1>10, <2>1, <2>2 DEF NameInv
  <2> QED  BY <1>10, <2>3, <2>4, <2>5
<1> QED
  BY <1>7, <1>8, <1>9, <1>10
     DEF Normal, SameStructs, SameGlobal, open_bad_flags_, close_, dup2_, transfer_, lseek_,
         fork_, exit_, open_put_, close_dupe_, close_file_, close_return_, close_dup_,
         close_not_found_, destroy_file_, close_shared_, close_load_, close_store_,
         copy_file_lock_, copy_file_store_, transfer_over_, transfer_begin_, transfer_end_,
         read_no_memory_, lseek_over_, lseek_lock_, lseek_set_, copy_lock_, copy_store_,
         fork_done_, exit_shared_, exit_last_, close_all_load_, close_all_store_, exit_done_


(* The locks after a step.                                                 *)
HoldNext(q, f) ==
    \/ pc'[q] \in {"rw_io", "ls_set", "dup_store", "dup_copy", "ca_load", "ca_store"}
          /\ loc'[q].f = f
    \/ pc'[q] = "fk_store" /\ files'[q][loc'[q].i] = f
FileLocks(p) ==
    \/ UNCHANGED file_lock /\ \A f \in Files : HoldNext(p, f) <=> Holding(p, f)
    \/ \E f \in Files : /\ Locking(p, f)
                        /\ \A g \in Files : ~Holding(p, g) /\ (HoldNext(p, g) <=> g = f)
    \/ \E f \in Files : /\ Unlocking(f)
                        /\ \A g \in Files : (Holding(p, g) <=> g = f) /\ ~HoldNext(p, g)
OtherLocks(p) ==
    /\ global_file_lk' = p <=> pc'[p] \in {"cg_load", "cg_store"}
    /\ \A q \in Procs \ {p} : global_file_lk' = q <=> global_file_lk = q
    /\ \A q \in Procs \ {p} : ops_lock'[q] = ops_lock[q]
    /\ ops_lock'[p] => /\ pc'[p] \notin {"none", "new", "user", "lost", "gone", "rw_io",
                                         "ls_lock", "ls_set"}
                       /\ loc'[p].next # "exit"

(* The steps of careful programs keep the locks with their owners.          *)
LEMMA LockStep ==
    ASSUME BaseInv, Careful, CareInv, NEW p \in Procs, Normal(p)
    PROVE  LockInv'
<1>1. /\ files \in [Procs -> [Slots -> Files \cup {NULL}]] /\ NULL \notin Files
      /\ file_lock \in [Files -> Procs \cup {NULL}] /\ NULL \notin Procs
      /\ ops_lock \in [Procs -> BOOLEAN] /\ setting \in Settings
  BY SameTypes, Numbers DEF BaseInv, GlobalTableSound, TableTypes, StructTypes
<1>2. ArgOf(p) /\ ChildInv /\ LockInv
  BY DEF BaseInv, CareInv, ArgInv
<1>3. FileLocks(p)
  <2>10. ASSUME NEW v \in Vnodes, NEW can \in AccessModes, open_(p, v, can) PROVE FileLocks(p)
    <3>1. UNCHANGED file_lock /\ \A f \in Files : ~HoldNext(p, f) /\ ~Holding(p, f)
      BY <2>10, <1>1 DEF open_, Moves, Holding, HoldNext
    <3> QED  BY <3>1 DEF FileLocks
  <2>11. CASE open_bad_flags_(p)
    BY <2>11 DEF open_bad_flags_
  <2>12. ASSUME NEW fd \in Fds, NEW j \in Slots, close_(p, fd, j) PROVE FileLocks(p)
    <3>1. UNCHANGED file_lock /\ \A f \in Files : ~HoldNext(p, f) /\ ~Holding(p, f)
      BY <2>12, <1>1 DEF close_, Moves, SameStructs, Holding, HoldNext
    <3> QED  BY <3>1 DEF FileLocks
  <2>13. ASSUME NEW d \in DupFds, NEW j \in Slots, NEW b \in {"dup_lock", "cl_scan"},
                dup2_(p, d, j, b)
         PROVE  FileLocks(p)
    <3>1. UNCHANGED file_lock /\ \A f \in Files : ~HoldNext(p, f) /\ ~Holding(p, f)
      BY <2>13, <1>1 DEF dup2_, Moves, SameStructs, Holding, HoldNext
    <3> QED  BY <3>1 DEF FileLocks
  <2>14. ASSUME NEW mode \in {"r", "w"}, NEW j \in Slots, transfer_(p, mode, j) PROVE FileLocks(p)
    <3>1. UNCHANGED file_lock /\ \A f \in Files : ~HoldNext(p, f) /\ ~Holding(p, f)
      BY <2>14, <1>1 DEF transfer_, Moves, SameStructs, Holding, HoldNext
    <3> QED  BY <3>1 DEF FileLocks
  <2>15. ASSUME NEW j \in Slots, lseek_(p, j) PROVE FileLocks(p)
    <3>1. UNCHANGED file_lock /\ \A f \in Files : ~HoldNext(p, f) /\ ~Holding(p, f)
      BY <2>15, <1>1 DEF lseek_, Moves, SameStructs, Holding, HoldNext
    <3> QED  BY <3>1 DEF FileLocks
  <2>16. ASSUME NEW q \in Procs, fork_(p, q) PROVE FileLocks(p)
    <3>1. UNCHANGED file_lock /\ \A f \in Files : ~HoldNext(p, f) /\ ~Holding(p, f)
      BY <2>16, <1>1 DEF fork_, SameStructs, Holding, HoldNext
    <3> QED  BY <3>1 DEF FileLocks
  <2>17. CASE exit_(p)
    <3>1. UNCHANGED file_lock /\ \A f \in Files : ~HoldNext(p, f) /\ ~Holding(p, f)
      BY <2>17, <1>1 DEF exit_, Moves, SameStructs, Holding, HoldNext
    <3> QED  BY <3>1 DEF FileLocks
  <2>18. CASE get_next_fd_(p)
    <3>1. UNCHANGED file_lock /\ \A f \in Files : ~HoldNext(p, f) /\ ~Holding(p, f)
      BY <2>18, <1>1 DEF get_next_fd_, Moves, Holding, HoldNext
    <3> QED  BY <3>1 DEF FileLocks
  <2>19. CASE open_put_(p)
    <3>1. UNCHANGED file_lock /\ \A f \in Files : ~HoldNext(p, f) /\ ~Holding(p, f)
      BY <2>19, <1>1 DEF open_put_, Moves, SameStructs, Holding, HoldNext
    <3> QED  BY <3>1 DEF FileLocks
  <2>20. ASSUME NEW j \in Slots, close_dupe_(p, j) PROVE FileLocks(p)
    <3>1. UNCHANGED file_lock /\ \A f \in Files : ~HoldNext(p, f) /\ ~Holding(p, f)
      BY <2>20, <1>1 DEF close_dupe_, Moves, Holding, HoldNext
    <3> QED  BY <3>1 DEF FileLocks
  <2>21. ASSUME NEW j \in Slots, close_file_(p, j) PROVE FileLocks(p)
    <3>1. UNCHANGED file_lock /\ \A f \in Files : ~HoldNext(p, f) /\ ~Holding(p, f)
      BY <2>21, <1>1 DEF close_file_, Moves, SameStructs, Holding, HoldNext
    <3> QED  BY <3>1 DEF FileLocks
  <2>22. CASE close_return_(p)
    <3>1. UNCHANGED file_lock /\ \A f \in Files : ~HoldNext(p, f) /\ ~Holding(p, f)
      BY <2>22, <1>1 DEF close_return_, Moves, SameStructs, Holding, HoldNext
    <3> QED  BY <3>1 DEF FileLocks
  <2>23. CASE close_dup_(p)
    <3>1. UNCHANGED file_lock /\ \A f \in Files : ~HoldNext(p, f) /\ ~Holding(p, f)
      BY <2>23, <1>1 DEF close_dup_, Moves, SameStructs, Holding, HoldNext
    <3> QED  BY <3>1 DEF FileLocks
  <2>24. CASE close_not_found_(p)
    <3>1. UNCHANGED file_lock /\ \A f \in Files : ~HoldNext(p, f) /\ ~Holding(p, f)
      BY <2>24, <1>1 DEF close_not_found_, Back, Moves, SameStructs, Holding, HoldNext
    <3> QED  BY <3>1 DEF FileLocks
  <2>25. ASSUME NEW i \in Slots, destroy_file_(p, i) PROVE FileLocks(p)
    <3>1. UNCHANGED file_lock /\ \A f \in Files : ~HoldNext(p, f) /\ ~Holding(p, f)
      BY <2>25, <1>1 DEF destroy_file_, Back, Moves, Holding, HoldNext
    <3> QED  BY <3>1 DEF FileLocks
  <2>26. ASSUME NEW i \in Slots, close_shared_(p, i) PROVE FileLocks(p)
    <3>1. UNCHANGED file_lock /\ \A f \in Files : ~HoldNext(p, f) /\ ~Holding(p, f)
      BY <2>26, <1>1 DEF close_shared_, Moves, SameStructs, Holding, HoldNext
    <3> QED  BY <3>1 DEF FileLocks
  <2>27. CASE close_load_(p)
    <3>1. UNCHANGED file_lock /\ \A f \in Files : ~HoldNext(p, f) /\ ~Holding(p, f)
      BY <2>27, <1>1 DEF close_load_, Moves, SameStructs, Holding, HoldNext
    <3> QED  BY <3>1 DEF FileLocks
  <2>28. CASE close_store_(p)
    <3>1. UNCHANGED file_lock /\ \A f \in Files : ~HoldNext(p, f) /\ ~Holding(p, f)
      BY <2>28, <1>1 DEF close_store_, Back, Moves, Holding, HoldNext
    <3> QED  BY <3>1 DEF FileLocks
  <2>29. ASSUME NEW j \in Slots, copy_file_lock_(p, j) PROVE FileLocks(p)
    <3>1. PICK f \in Files : Locking(p, f) /\ loc'[p].f = f
      BY <2>29 DEF copy_file_lock_, Locking
    <3>2. pc[p] = "dup_lock" /\ pc'[p] = "dup_store"
      BY <2>29 DEF copy_file_lock_, Moves
    <3>3. \A g \in Files : ~Holding(p, g) /\ (HoldNext(p, g) <=> g = f)
      BY <3>1, <3>2 DEF Holding, HoldNext
    <3> QED  BY <3>1, <3>3 DEF FileLocks
  <2>30. CASE copy_file_store_(p)
    <3>1. UNCHANGED file_lock /\ \A f \in Files : HoldNext(p, f) <=> Holding(p, f)
      BY <2>30 DEF copy_file_store_, Moves, Holding, HoldNext
    <3> QED  BY <3>1 DEF FileLocks
  <2>31. CASE dup_file_(p)
    <3>1. loc[p].f \in Files /\ Unlocking(loc[p].f)
      BY <2>31 DEF dup_file_, Unlocking
    <3>2. pc[p] = "dup_copy" /\ pc'[p] = "user"
      BY <2>31 DEF dup_file_, Moves
    <3>3. \A g \in Files : (Holding(p, g) <=> g = loc[p].f) /\ ~HoldNext(p, g)
      BY <3>1, <3>2 DEF Holding, HoldNext
    <3> QED  BY <3>1, <3>3 DEF FileLocks
  <2>32. CASE transfer_over_(p)
    <3>1. UNCHANGED file_lock /\ \A f \in Files : ~HoldNext(p, f) /\ ~Holding(p, f)
      BY <2>32, <1>1 DEF transfer_over_, Moves, SameStructs, Holding, HoldNext
    <3> QED  BY <3>1 DEF FileLocks
  <2>33. CASE transfer_begin_(p)
    <3>1. PICK f \in Files : Locking(p, f) /\ loc'[p].f = f
      BY <2>33 DEF transfer_begin_, Locking
    <3>2. pc[p] = "rw_lock" /\ pc'[p] = "rw_io"
      BY <2>33 DEF transfer_begin_, Moves
    <3>3. \A g \in Files : ~Holding(p, g) /\ (HoldNext(p, g) <=> g = f)
      BY <3>1, <3>2 DEF Holding, HoldNext
    <3> QED  BY <3>1, <3>3 DEF FileLocks
  <2>34. CASE transfer_end_(p)
    <3>1. loc[p].f \in Files /\ Unlocking(loc[p].f)
      BY <2>34 DEF transfer_end_, Unlocking
    <3>2. pc[p] = "rw_io" /\ pc'[p] = "user"
      BY <2>34 DEF transfer_end_, Moves
    <3>3. \A g \in Files : (Holding(p, g) <=> g = loc[p].f) /\ ~HoldNext(p, g)
      BY <3>1, <3>2 DEF Holding, HoldNext
    <3> QED  BY <3>1, <3>3 DEF FileLocks
  <2>35. CASE read_no_memory_(p)
    BY <2>35 DEF read_no_memory_
  <2>36. CASE lseek_over_(p)
    <3>1. UNCHANGED file_lock /\ \A f \in Files : ~HoldNext(p, f) /\ ~Holding(p, f)
      BY <2>36, <1>1 DEF lseek_over_, Moves, SameStructs, Holding, HoldNext
    <3> QED  BY <3>1 DEF FileLocks
  <2>37. CASE lseek_lock_(p)
    <3>1. PICK f \in Files : Locking(p, f) /\ loc'[p].f = f
      BY <2>37 DEF lseek_lock_, Locking
    <3>2. pc[p] = "ls_lock" /\ pc'[p] = "ls_set"
      BY <2>37 DEF lseek_lock_, Moves
    <3>3. \A g \in Files : ~Holding(p, g) /\ (HoldNext(p, g) <=> g = f)
      BY <3>1, <3>2 DEF Holding, HoldNext
    <3> QED  BY <3>1, <3>3 DEF FileLocks
  <2>38. CASE lseek_set_(p)
    <3>1. loc[p].f \in Files /\ Unlocking(loc[p].f)
      BY <2>38 DEF lseek_set_, Unlocking
    <3>2. pc[p] = "ls_set" /\ pc'[p] = "user"
      BY <2>38 DEF lseek_set_, Moves
    <3>3. \A g \in Files : (Holding(p, g) <=> g = loc[p].f) /\ ~HoldNext(p, g)
      BY <3>1, <3>2 DEF Holding, HoldNext
    <3> QED  BY <3>1, <3>3 DEF FileLocks
  <2>39. ASSUME NEW j \in Slots, copy_lock_(p, j) PROVE FileLocks(p)
    <3>1. PICK f \in Files : Locking(p, f) /\ loc'[p].i = j /\ files' = files /\ files[p][j] = f
      BY <2>39 DEF copy_lock_, Locking
    <3>2. pc[p] = "fk_scan" /\ pc'[p] = "fk_store"
      BY <2>39 DEF copy_lock_, Moves
    <3>3. \A g \in Files : ~Holding(p, g) /\ (HoldNext(p, g) <=> g = f)
      BY <3>1, <3>2 DEF Holding, HoldNext
    <3> QED  BY <3>1, <3>3 DEF FileLocks
  <2>40. CASE copy_store_(p)
    <3> DEFINE f == files[p][loc[p].i]
    <3>1. f \in Files /\ Unlocking(f) /\ pc[p] = "fk_store" /\ pc'[p] = "fk_scan"
      BY <2>40 DEF copy_store_, Unlocking, Moves
    <3>3. \A g \in Files : (Holding(p, g) <=> g = f) /\ ~HoldNext(p, g)
      BY <3>1 DEF Holding, HoldNext
    <3> QED  BY <3>1, <3>3 DEF FileLocks
  <2>41. ASSUME NEW b \in {"user", "lost"}, fork_done_(p, b) PROVE FileLocks(p)
    <3>1. UNCHANGED file_lock /\ \A f \in Files : ~HoldNext(p, f) /\ ~Holding(p, f)
      BY <2>41, <1>1 DEF fork_done_, SameStructs, Holding, HoldNext
    <3> QED  BY <3>1 DEF FileLocks
  <2>42. ASSUME NEW j \in Slots, exit_shared_(p, j) PROVE FileLocks(p)
    <3>1. PICK f \in Files : Locking(p, f) /\ loc'[p].f = f
      BY <2>42 DEF exit_shared_, Locking
    <3>2. pc[p] = "ca_scan" /\ pc'[p] = "ca_load"
      BY <2>42 DEF exit_shared_, Moves
    <3>3. \A g \in Files : ~Holding(p, g) /\ (HoldNext(p, g) <=> g = f)
      BY <3>1, <3>2 DEF Holding, HoldNext
    <3> QED  BY <3>1, <3>3 DEF FileLocks
  <2>43. ASSUME NEW j \in Slots, exit_last_(p, j) PROVE FileLocks(p)
    <3>1. UNCHANGED file_lock /\ \A f \in Files : ~HoldNext(p, f) /\ ~Holding(p, f)
      BY <2>43, <1>1 DEF exit_last_, Moves, SameStructs, Holding, HoldNext
    <3> QED  BY <3>1 DEF FileLocks
  <2>44. CASE close_all_load_(p)
    <3>1. UNCHANGED file_lock /\ \A f \in Files : HoldNext(p, f) <=> Holding(p, f)
      BY <2>44 DEF close_all_load_, Moves, Holding, HoldNext
    <3> QED  BY <3>1 DEF FileLocks
  <2>45. CASE close_all_store_(p)
    <3>1. loc[p].f \in Files /\ Unlocking(loc[p].f)
      BY <2>45 DEF close_all_store_, Unlocking
    <3>2. pc[p] = "ca_store" /\ pc'[p] \in {"ca_scan", "cl_scan"}
      BY <2>45 DEF close_all_store_, Moves, Back
    <3>3. \A g \in Files : (Holding(p, g) <=> g = loc[p].f) /\ ~HoldNext(p, g)
      BY <3>1, <3>2 DEF Holding, HoldNext
    <3> QED  BY <3>1, <3>3 DEF FileLocks
  <2>46. CASE exit_done_(p)
    <3>1. UNCHANGED file_lock /\ \A f \in Files : ~HoldNext(p, f) /\ ~Holding(p, f)
      BY <2>46, <1>1 DEF exit_done_, Moves, SameStructs, Holding, HoldNext
    <3> QED  BY <3>1 DEF FileLocks
  <2> QED
    BY <2>10, <2>11, <2>12, <2>13, <2>14, <2>15, <2>16, <2>17, <2>18, <2>19, <2>20, <2>21, <2>22,
       <2>23, <2>24, <2>25, <2>26, <2>27, <2>28, <2>29, <2>30, <2>31, <2>32, <2>33, <2>34, <2>35,
       <2>36, <2>37, <2>38, <2>39, <2>40, <2>41, <2>42, <2>43, <2>44, <2>45, <2>46
       DEF Normal
<1>4. OtherLocks(p)
  <2>10. ASSUME NEW v \in Vnodes, NEW can \in AccessModes, open_(p, v, can) PROVE OtherLocks(p)
    BY <2>10, <1>1, <1>2
       DEF open_, Moves, Entering, SameGlobal, OtherLocks, LockInv, InCall, ArgOf, GlobalLabels
  <2>11. CASE open_bad_flags_(p)
    BY <2>11, <1>1, <1>2
       DEF open_bad_flags_, Entering, SameGlobal, OtherLocks, LockInv, InCall, ArgOf,
           GlobalLabels
  <2>12. ASSUME NEW fd \in Fds, NEW j \in Slots, close_(p, fd, j) PROVE OtherLocks(p)
    BY <2>12, <1>1, <1>2
       DEF close_, Moves, Entering, SameGlobal, OtherLocks, LockInv, InCall, ArgOf, GlobalLabels
  <2>13. ASSUME NEW d \in DupFds, NEW j \in Slots, NEW b \in {"dup_lock", "cl_scan"},
                dup2_(p, d, j, b)
         PROVE  OtherLocks(p)
    BY <2>13, <1>1, <1>2
       DEF dup2_, Moves, Entering, SameGlobal, OtherLocks, LockInv, InCall, ArgOf, GlobalLabels
  <2>14. ASSUME NEW mode \in {"r", "w"}, NEW j \in Slots, transfer_(p, mode, j)
         PROVE  OtherLocks(p)
    BY <2>14, <1>1, <1>2
       DEF transfer_, Moves, Entering, SameGlobal, OtherLocks, LockInv, InCall, ArgOf,
           GlobalLabels
  <2>15. ASSUME NEW j \in Slots, lseek_(p, j) PROVE OtherLocks(p)
    BY <2>15, <1>1, <1>2
       DEF lseek_, Moves, SameGlobal, OtherLocks, LockInv, InCall, ArgOf, GlobalLabels
  <2>16. ASSUME NEW q \in Procs, fork_(p, q) PROVE OtherLocks(p)
    BY <2>16, <1>1, <1>2
       DEF fork_, Entering, SameGlobal, OtherLocks, LockInv, InCall, ArgOf, GlobalLabels
  <2>17. CASE exit_(p)
    BY <2>17, <1>1, <1>2
       DEF exit_, Moves, SameGlobal, OtherLocks, LockInv, InCall, ArgOf, GlobalLabels
  <2>18. CASE get_next_fd_(p)
    BY <2>18, <1>1, <1>2 DEF get_next_fd_, Moves, OtherLocks, LockInv, InCall, ArgOf, GlobalLabels
  <2>19. CASE open_put_(p)
    BY <2>19, <1>1, <1>2, ZenonT(40)
       DEF open_put_, Moves, Clear, Leaving, OtherLocks, LockInv, InCall, ArgOf, GlobalLabels
  <2>20. ASSUME NEW j \in Slots, close_dupe_(p, j) PROVE OtherLocks(p)
    BY <2>20, <1>1, <1>2
       DEF close_dupe_, Moves, Args, SameGlobal, OtherLocks, LockInv, InCall, ArgOf,
           GlobalLabels
  <2>21. ASSUME NEW j \in Slots, close_file_(p, j) PROVE OtherLocks(p)
    BY <2>21, <1>1, <1>2
       DEF close_file_, Moves, Args, SameGlobal, OtherLocks, LockInv, InCall, ArgOf,
           GlobalLabels
  <2>22. CASE close_return_(p)
    BY <2>22, <1>1, <1>2
       DEF close_return_, Moves, Clear, Leaving, SameGlobal, OtherLocks, LockInv, InCall, ArgOf,
           GlobalLabels
  <2>23. CASE close_dup_(p)
    BY <2>23, <1>1, <1>2
       DEF close_dup_, Moves, Args, SameGlobal, OtherLocks, LockInv, InCall, ArgOf, GlobalLabels
  <2>24. CASE close_not_found_(p)
    BY <2>24, <1>1, <1>2
       DEF close_not_found_, Back, Moves, Args, SameGlobal, OtherLocks, LockInv, InCall, ArgOf,
           GlobalLabels
  <2>25. ASSUME NEW i \in Slots, destroy_file_(p, i) PROVE OtherLocks(p)
    BY <2>25, <1>1, <1>2
       DEF destroy_file_, Back, Moves, Args, OtherLocks, LockInv, InCall, ArgOf, GlobalLabels
  <2>26. ASSUME NEW i \in Slots, close_shared_(p, i) PROVE OtherLocks(p)
    BY <2>26, <1>1, <1>2, ZenonT(40)
       DEF close_shared_, Moves, Args, OtherLocks, LockInv, InCall, ArgOf, GlobalLabels
  <2>27. CASE close_load_(p)
    <3>1. /\ pc[p] = "cg_load" /\ pc'[p] = "cg_store" /\ loc'[p].next = loc[p].next
          /\ UNCHANGED <<global_file_lk, ops_lock>>
      BY <2>27 DEF close_load_, Moves, Args, SameGlobal
    <3>2. global_file_lk = p /\ (ops_lock[p] => loc[p].next # "exit")
      BY <1>2, <3>1 DEF LockInv
    <3> QED  BY <3>1, <3>2 DEF OtherLocks
  <2>28. CASE close_store_(p)
    BY <2>28, <1>1, <1>2
       DEF close_store_, Back, Moves, Args, OtherLocks, LockInv, InCall, ArgOf, GlobalLabels
  <2>29. ASSUME NEW j \in Slots, copy_file_lock_(p, j) PROVE OtherLocks(p)
    BY <2>29, <1>1, <1>2
       DEF copy_file_lock_, Moves, Args, SameGlobal, OtherLocks, LockInv, InCall, ArgOf,
           GlobalLabels
  <2>30. CASE copy_file_store_(p)
    BY <2>30, <1>1, <1>2
       DEF copy_file_store_, Moves, Args, SameGlobal, OtherLocks, LockInv, InCall, ArgOf,
           GlobalLabels
  <2>31. CASE dup_file_(p)
    BY <2>31, <1>1, <1>2
       DEF dup_file_, Moves, Clear, Leaving, SameGlobal, OtherLocks, LockInv, InCall, ArgOf,
           GlobalLabels
  <2>32. CASE transfer_over_(p)
    BY <2>32, <1>1, <1>2
       DEF transfer_over_, Moves, Clear, Leaving, SameGlobal, OtherLocks, LockInv, InCall,
           ArgOf, GlobalLabels
  <2>33. CASE transfer_begin_(p)
    BY <2>33, <1>1, <1>2
       DEF transfer_begin_, Moves, Args, Leaving, SameGlobal, OtherLocks, LockInv, InCall,
           ArgOf, GlobalLabels
  <2>34. CASE transfer_end_(p)
    BY <2>34, <1>1, <1>2
       DEF transfer_end_, Moves, Clear, SameGlobal, OtherLocks, LockInv, InCall, ArgOf,
           GlobalLabels
  <2>35. CASE read_no_memory_(p)
    BY <2>35, <1>1, <1>2
       DEF read_no_memory_, Moves, Clear, SameGlobal, OtherLocks, LockInv, InCall, ArgOf,
           GlobalLabels
  <2>36. CASE lseek_over_(p)
    BY <2>36, <1>1, <1>2
       DEF lseek_over_, Moves, Clear, SameGlobal, OtherLocks, LockInv, InCall, ArgOf,
           GlobalLabels
  <2>37. CASE lseek_lock_(p)
    BY <2>37, <1>1, <1>2
       DEF lseek_lock_, Moves, Args, SameGlobal, OtherLocks, LockInv, InCall, ArgOf,
           GlobalLabels
  <2>38. CASE lseek_set_(p)
    BY <2>38, <1>1, <1>2
       DEF lseek_set_, Moves, Clear, SameGlobal, OtherLocks, LockInv, InCall, ArgOf,
           GlobalLabels
  <2>39. ASSUME NEW j \in Slots, copy_lock_(p, j) PROVE OtherLocks(p)
    BY <2>39, <1>1, <1>2
       DEF copy_lock_, Moves, Args, SameGlobal, OtherLocks, LockInv, InCall, ArgOf, GlobalLabels
  <2>40. CASE copy_store_(p)
    BY <2>40, <1>1, <1>2
       DEF copy_store_, Moves, Args, SameGlobal, OtherLocks, LockInv, InCall, ArgOf,
           GlobalLabels
  <2>41. ASSUME NEW b \in {"user", "lost"}, fork_done_(p, b) PROVE OtherLocks(p)
    BY <2>41, <1>1, <1>2, ZenonT(40)
       DEF fork_done_, Clear, Leaving, SameGlobal, OtherLocks, LockInv, InCall, ArgOf,
           GlobalLabels
  <2>42. ASSUME NEW j \in Slots, exit_shared_(p, j) PROVE OtherLocks(p)
    BY <2>42, <1>1, <1>2
       DEF exit_shared_, Moves, Args, SameGlobal, OtherLocks, LockInv, InCall, ArgOf,
           GlobalLabels
  <2>43. ASSUME NEW j \in Slots, exit_last_(p, j) PROVE OtherLocks(p)
    BY <2>43, <1>1, <1>2
       DEF exit_last_, Moves, Args, SameGlobal, OtherLocks, LockInv, InCall, ArgOf, GlobalLabels
  <2>44. CASE close_all_load_(p)
    BY <2>44, <1>1, <1>2
       DEF close_all_load_, Moves, Args, SameGlobal, OtherLocks, LockInv, InCall, ArgOf,
           GlobalLabels
  <2>45. CASE close_all_store_(p)
    BY <2>45, <1>1, <1>2
       DEF close_all_store_, Back, Moves, Args, SameGlobal, OtherLocks, LockInv, InCall, ArgOf,
           GlobalLabels
  <2>46. CASE exit_done_(p)
    BY <2>46, <1>1, <1>2
       DEF exit_done_, Moves, Clear, SameGlobal, OtherLocks, LockInv, InCall, ArgOf,
           GlobalLabels
  <2> QED
    BY <2>10, <2>11, <2>12, <2>13, <2>14, <2>15, <2>16, <2>17, <2>18, <2>19, <2>20, <2>21, <2>22,
       <2>23, <2>24, <2>25, <2>26, <2>27, <2>28, <2>29, <2>30, <2>31, <2>32, <2>33, <2>34, <2>35,
       <2>36, <2>37, <2>38, <2>39, <2>40, <2>41, <2>42, <2>43, <2>44, <2>45, <2>46
       DEF Normal
<1>5. \A q \in Procs \ {p}, f \in Files : HoldNext(q, f) <=> Holding(q, f)
  BY Others DEF OtherStep, HoldNext, Holding
<1>6. \A q \in Procs, f \in Files : file_lock'[f] = q <=> HoldNext(q, f)
  <2>1. ASSUME UNCHANGED file_lock, \A f \in Files : HoldNext(p, f) <=> Holding(p, f)
        PROVE  \A q \in Procs, f \in Files : file_lock'[f] = q <=> HoldNext(q, f)
    BY <1>2, <1>5, <2>1 DEF LockInv
  <2>2. ASSUME NEW f \in Files, Locking(p, f),
               \A g \in Files : ~Holding(p, g) /\ (HoldNext(p, g) <=> g = f)
        PROVE  \A q \in Procs, g \in Files : file_lock'[g] = q <=> HoldNext(q, g)
    <3>1. \A g \in Files : file_lock'[g] = IF g = f THEN p ELSE file_lock[g]
      BY <1>1, <2>2 DEF Locking
    <3>2. \A q \in Procs : ~Holding(q, f)
      BY <1>1, <1>2, <2>2 DEF LockInv, Locking
    <3> QED  BY <1>2, <1>5, <2>2, <3>1, <3>2 DEF LockInv
  <2>3. ASSUME NEW f \in Files, Unlocking(f),
               \A g \in Files : (Holding(p, g) <=> g = f) /\ ~HoldNext(p, g)
        PROVE  \A q \in Procs, g \in Files : file_lock'[g] = q <=> HoldNext(q, g)
    <3>1. \A g \in Files : file_lock'[g] = IF g = f THEN NULL ELSE file_lock[g]
      BY <1>1, <2>3 DEF Unlocking
    <3>2. \A q \in Procs : Holding(q, f) => q = p
      BY <1>2, <2>3 DEF LockInv
    <3> QED  BY <1>1, <1>2, <1>5, <2>3, <3>1, <3>2 DEF LockInv
  <2> QED  BY <1>3, <2>1, <2>2, <2>3 DEF FileLocks
<1>7. ASSUME NEW q \in Procs
      PROVE  /\ global_file_lk' = q <=> pc'[q] \in {"cg_load", "cg_store"}
             /\ ops_lock'[q] => /\ pc'[q] \notin {"none", "new", "user", "lost", "gone", "rw_io",
                                                  "ls_lock", "ls_set"}
                                /\ loc'[q].next # "exit"
  <2>1. CASE q = p
    BY <1>4, <2>1 DEF OtherLocks
  <2>2. CASE q # p
    <3>1. /\ global_file_lk' = q <=> global_file_lk = q
          /\ ops_lock'[q] = ops_lock[q] /\ OtherStep(q)
      BY <1>4, <2>2, Others DEF OtherLocks
    <3> QED  BY <1>2, <3>1 DEF LockInv, InCall, OtherStep
  <2> QED  BY <2>1, <2>2
<1> QED  BY <1>6, <1>7 DEF LockInv, Holding, HoldNext, InCall



(* The files that calls work on, after a step.                             *)
LEMMA UseStep ==
    ASSUME BaseInv, Careful, CareInv, NEW p \in Procs, Normal(p)
    PROVE  UseInv'
<1>1. /\ files \in [Procs -> [Slots -> Files \cup {NULL}]] /\ NULL \notin Files
      /\ setting \in Settings /\ Slots' = Slots /\ refcount \in [Files -> Int]
  BY Others, SameTypes, Numbers DEF BaseInv, GlobalTableSound, TableTypes, StructTypes
<1>2. ArgInv /\ ArgOf(p) /\ PlaceInv /\ NameInv /\ RefInv /\ UseInv /\ UseOf(p) /\ DupOf(p)
  BY DEF BaseInv, CareInv, ArgInv, UseInv, DupInv
<1>3. \A f : Public(f) => file'[f].std = file[f].std /\ file'[f].is_dupe = file[f].is_dupe
  BY KeepFile DEF Public
<1>4. \A q \in Procs, i \in Slots : files[q][i] # NULL => Public(files[q][i])
  BY <1>2 DEF PlaceInv
<1>5. \A q \in Procs : pc[q] \in UseLabels => Public(loc[q].f)
  BY <1>2 DEF PlaceInv
<1>6. ASSUME NEW q \in Procs, q # p PROVE UseOf(q)'
  <2>1. OtherStep(q) /\ UseOf(q) /\ ArgOf(q)
    BY <1>2, <1>6, Others DEF UseInv, ArgInv
  <2>2. CASE pc'[q] = pc[q] /\ files'[q] = files[q]
    <3>1. loc'[q] = loc[q]
      BY <2>1 DEF OtherStep
    <3>2. pc[q] \in GlobalLabels => Public(files[q][loc[q].i])
      BY <1>4, <2>1 DEF ArgOf
    <3> QED  BY <1>1, <1>3, <1>5, <2>1, <2>2, <3>1, <3>2 DEF UseOf, UseLabels, GlobalLabels
  <2>3. CASE pc'[q] \in {"new", "user", "lost"}
    BY <2>3 DEF UseOf, UseLabels, GlobalLabels
  <2> QED  BY <2>1, <2>2, <2>3 DEF OtherStep
<1>7. ASSUME pc'[p] \in {"user", "gone", "op_fd", "op_put", "fk_scan", "fk_store", "ca_scan", "dup_lock"}
      PROVE  UseOf(p)'
  BY <1>7 DEF UseOf, UseLabels, GlobalLabels
<1>8. ASSUME pc'[p] = "cl_scan", loc'[p].fd >= 3
      PROVE  UseOf(p)'
  BY <1>8 DEF UseOf, UseLabels, GlobalLabels
<1>9. \A i \in Slots : files[p][i] # NULL /\ (file[files[p][i]].std = -1 \/ file[files[p][i]].is_dupe)
         => file[files[p][i]].local_fd >= 3
  <2>1. \A s \in Std : s # -1
    BY DEF Std, STDIN, STDOUT, STDERR
  <2>2. \A i \in Slots : files[p][i] # NULL =>
           files[p][i] \in 0 .. next_struct - 1 /\ NameOf(files[p][i])
    BY <1>2, <1>4 DEF NameInv, Public
  <2> QED  BY <1>4, <2>1, <2>2 DEF NameOf
<1>10. UseOf(p)'
  <2>10. ASSUME NEW v \in Vnodes, NEW can \in AccessModes, open_(p, v, can) PROVE UseOf(p)'
    BY <2>10, <1>7 DEF open_, Moves
  <2>11. CASE open_bad_flags_(p)
    BY <2>11, <1>7 DEF open_bad_flags_
  <2>12. ASSUME NEW fd \in Fds, NEW j \in Slots, close_(p, fd, j) PROVE UseOf(p)'
    <3>1. pc'[p] = "cl_scan" /\ loc'[p].fd >= 3
      BY <2>12, <1>9 DEF close_, Moves, In
    <3> QED  BY <1>8, <3>1
  <2>13. ASSUME NEW d \in DupFds, NEW j \in Slots, NEW b \in {"dup_lock", "cl_scan"},
                dup2_(p, d, j, b)
         PROVE  UseOf(p)'
    <3>1. pc'[p] \in {"cl_scan", "dup_lock"} /\ loc'[p].fd = d[2] /\ MayDup(p, d[1], d[2])
      BY <2>13 DEF dup2_, Moves
    <3>2. loc'[p].fd >= 3
      BY <3>1 DEF MayDup
    <3> QED  BY <1>7, <1>8, <3>1, <3>2
  <2>14. ASSUME NEW mode \in {"r", "w"}, NEW j \in Slots, transfer_(p, mode, j) PROVE UseOf(p)'
    <3>1. /\ pc'[p] = "rw_lock" /\ loc'[p].f = files[p][j] /\ loc'[p].mode = mode
          /\ In(p, j) /\ files' = files
          /\ file[files[p][j]].std \notin (IF mode = "r" THEN {STDOUT, STDERR} ELSE {STDIN})
      BY <2>14 DEF transfer_, Moves
    <3>2. file'[files[p][j]].std = file[files[p][j]].std
      BY <1>3, <1>4, <3>1 DEF In
    <3> QED  BY <1>1, <3>1, <3>2 DEF UseOf, UseLabels, GlobalLabels, In
  <2>15. ASSUME NEW j \in Slots, lseek_(p, j) PROVE UseOf(p)'
    <3>1. pc'[p] = "ls_lock" /\ loc'[p].f = files[p][j] /\ In(p, j) /\ files' = files
      BY <2>15 DEF lseek_, Moves
    <3> QED  BY <1>1, <3>1 DEF UseOf, UseLabels, GlobalLabels, In
  <2>16. ASSUME NEW q \in Procs, fork_(p, q) PROVE UseOf(p)'
    BY <2>16, <1>7 DEF fork_
  <2>17. CASE exit_(p)
    BY <2>17, <1>7 DEF exit_, Moves
  <2>18. CASE get_next_fd_(p)
    BY <2>18, <1>7 DEF get_next_fd_, Moves
  <2>19. CASE open_put_(p)
    BY <2>19, <1>7 DEF open_put_, Moves
  <2>20. ASSUME NEW j \in Slots, close_dupe_(p, j) PROVE UseOf(p)'
    <3>1. pc[p] = "cl_scan" /\ pc'[p] = "cl_scan" /\ loc'[p].fd = loc[p].fd
      BY <2>20 DEF close_dupe_, Moves, Args
    <3> QED  BY <1>2, <1>8, <3>1 DEF UseOf
  <2>21. ASSUME NEW j \in Slots, close_file_(p, j) PROVE UseOf(p)'
    <3>1. /\ pc[p] = "cl_scan" /\ pc'[p] = "cg_find" /\ loc'[p].fd = loc[p].fd /\ loc'[p].i = j
          /\ In(p, j) /\ files' = files /\ ~file[files[p][j]].is_dupe
          /\ file[files[p][j]].local_fd = loc[p].fd
      BY <2>21 DEF close_file_, Moves, Args
    <3>2. loc[p].fd >= 3
      BY <1>2, <3>1 DEF UseOf
    <3>3. Public(files[p][j]) /\ NameOf(files[p][j])
      BY <1>2, <1>4, <3>1 DEF In, NameInv, Public
    <3>4. \A s \in Std : ~(s >= 3)
      BY DEF Std, STDIN, STDOUT, STDERR
    <3>5. file[files[p][j]].std = -1
      BY <3>1, <3>2, <3>3, <3>4 DEF NameOf
    <3>6. file'[files[p][j]].std = -1 /\ ~file'[files[p][j]].is_dupe
      BY <1>3, <3>1, <3>3, <3>5
    <3> QED  BY <3>1, <3>2, <3>6 DEF UseOf, UseLabels, GlobalLabels
  <2>22. CASE close_return_(p)
    BY <2>22, <1>7 DEF close_return_, Moves
  <2>23. CASE close_dup_(p)
    BY <2>23, <1>7 DEF close_dup_, Moves
  <2>24. CASE close_not_found_(p)
    <3>1. /\ pc[p] \in GlobalLabels /\ loc'[p].fd = loc[p].fd
          /\ \/ loc[p].next = "exit" /\ pc'[p] = "ca_scan"
             \/ loc[p].next # "exit" /\ pc'[p] = "cl_scan"
      BY <2>24 DEF close_not_found_, Back, Moves, Args, GlobalLabels
    <3> QED  BY <1>2, <1>7, <1>8, <3>1 DEF UseOf
  <2>25. ASSUME NEW i \in Slots, destroy_file_(p, i) PROVE UseOf(p)'
    <3>1. /\ pc[p] \in GlobalLabels /\ loc'[p].fd = loc[p].fd
          /\ \/ loc[p].next = "exit" /\ pc'[p] = "ca_scan"
             \/ loc[p].next # "exit" /\ pc'[p] = "cl_scan"
      BY <2>25 DEF destroy_file_, Back, Moves, Args, GlobalLabels
    <3> QED  BY <1>2, <1>7, <1>8, <3>1 DEF UseOf
  <2>26. ASSUME NEW i \in Slots, close_shared_(p, i) PROVE UseOf(p)'
    <3>1. /\ pc[p] = "cg_find" /\ pc'[p] = "cg_load" /\ loc'[p].i = loc[p].i
          /\ loc'[p].fd = loc[p].fd /\ loc'[p].next = loc[p].next
          /\ loc'[p].f = open_files[i] /\ files' = files /\ open_files[i] \in Files
          /\ file[open_files[i]].global_fd = file[files[p][loc[p].i]].global_fd
      BY <2>26 DEF close_shared_, Moves, Args
    <3>2. In(p, loc[p].i) /\ open_files[i] = files[p][loc[p].i]
      BY <1>1, <3>1, Named
    <3>3. /\ file'[files[p][loc[p].i]].std = -1 /\ ~file'[files[p][loc[p].i]].is_dupe
          /\ loc[p].next # "exit" => loc[p].fd >= 3
      BY <1>2, <1>3, <1>4, <3>1, <3>2 DEF UseOf, GlobalLabels, In
    <3> QED  BY <1>1, <3>1, <3>2, <3>3 DEF UseOf, UseLabels, GlobalLabels, In
  <2>27. CASE close_load_(p)
    <3>1. /\ pc[p] = "cg_load" /\ pc'[p] = "cg_store" /\ loc'[p].i = loc[p].i
          /\ loc'[p].fd = loc[p].fd /\ loc'[p].next = loc[p].next
          /\ loc'[p].f = loc[p].f /\ files' = files /\ file' = file
      BY <2>27 DEF close_load_, Moves, Args, SameStructs
    <3> QED  BY <1>1, <1>2, <3>1 DEF UseOf, UseLabels, GlobalLabels
  <2>28. CASE close_store_(p)
    <3>1. /\ pc[p] \in GlobalLabels /\ loc'[p].fd = loc[p].fd
          /\ \/ loc[p].next = "exit" /\ pc'[p] = "ca_scan"
             \/ loc[p].next # "exit" /\ pc'[p] = "cl_scan"
      BY <2>28 DEF close_store_, Back, Moves, Args, GlobalLabels
    <3> QED  BY <1>2, <1>7, <1>8, <3>1 DEF UseOf
  <2>29. ASSUME NEW j \in Slots, copy_file_lock_(p, j) PROVE UseOf(p)'
    <3>1. pc'[p] = "dup_store" /\ loc'[p].f = files[p][j] /\ In(p, j) /\ files' = files
      BY <2>29 DEF copy_file_lock_, Moves
    <3> QED  BY <1>1, <3>1 DEF UseOf, UseLabels, GlobalLabels, In
  <2>30. CASE copy_file_store_(p)
    <3>1. /\ pc[p] = "dup_store" /\ pc'[p] = "dup_copy" /\ loc'[p].f = loc[p].f
          /\ files' = files
      BY <2>30 DEF copy_file_store_, Moves
    <3> QED  BY <1>1, <1>2, <3>1 DEF UseOf, UseLabels, GlobalLabels
  <2>31. CASE dup_file_(p)
    BY <2>31, <1>7 DEF dup_file_, Moves
  <2>32. CASE transfer_over_(p)
    BY <2>32, <1>7 DEF transfer_over_, Moves
  <2>33. CASE transfer_begin_(p)
    <3>1. /\ pc[p] = "rw_lock" /\ pc'[p] = "rw_io" /\ loc'[p].f = loc[p].f
          /\ files' = files
      BY <2>33 DEF transfer_begin_, Moves
    <3> QED  BY <1>1, <1>2, <3>1 DEF UseOf, UseLabels, GlobalLabels
  <2>34. CASE transfer_end_(p)
    BY <2>34, <1>7 DEF transfer_end_, Moves
  <2>35. CASE read_no_memory_(p)
    BY <2>35, <1>7 DEF read_no_memory_, Moves
  <2>36. CASE lseek_over_(p)
    BY <2>36, <1>7 DEF lseek_over_, Moves
  <2>37. CASE lseek_lock_(p)
    <3>1. /\ pc[p] = "ls_lock" /\ pc'[p] = "ls_set" /\ loc'[p].f = loc[p].f
          /\ files' = files /\ file' = file /\ file[loc[p].f].std = -1
      BY <2>37 DEF lseek_lock_, Moves
    <3> QED  BY <1>1, <1>2, <3>1 DEF UseOf, UseLabels, GlobalLabels
  <2>38. CASE lseek_set_(p)
    BY <2>38, <1>7 DEF lseek_set_, Moves
  <2>39. ASSUME NEW j \in Slots, copy_lock_(p, j) PROVE UseOf(p)'
    BY <2>39, <1>7 DEF copy_lock_, Moves
  <2>40. CASE copy_store_(p)
    BY <2>40, <1>7 DEF copy_store_, Moves
  <2>41. ASSUME NEW b \in {"user", "lost"}, fork_done_(p, b) PROVE UseOf(p)'
    BY <2>41, <1>7 DEF fork_done_
  <2>42. ASSUME NEW j \in Slots, exit_shared_(p, j) PROVE UseOf(p)'
    <3>1. /\ pc'[p] = "ca_load" /\ loc'[p].f = files[p][j] /\ In(p, j) /\ files' = files
          /\ file' = file /\ file[files[p][j]].std = -1
      BY <2>42 DEF exit_shared_, Moves
    <3> QED  BY <1>1, <3>1 DEF UseOf, UseLabels, GlobalLabels, In
  <2>43. ASSUME NEW j \in Slots, exit_last_(p, j) PROVE UseOf(p)'
    <3>1. /\ pc[p] = "ca_scan" /\ pc'[p] = "cg_find" /\ loc'[p].next = loc[p].next
          /\ loc'[p].i = j /\ In(p, j) /\ files' = files
          /\ file[files[p][j]].std = -1 /\ ~(refcount[files[p][j]] > 1)
      BY <2>43 DEF exit_last_, Moves, Args
    <3>2. loc[p].next = "exit"
      BY <1>2, <3>1 DEF ArgOf
    <3>3. ~file[files[p][j]].is_dupe
      <4>1. refcount[files[p][j]] \in Int
        BY <1>1, <3>1 DEF In
      <4> QED  BY <1>2, <3>1, <4>1 DEF RefInv, Enough, In
    <3>4. file'[files[p][j]].std = -1 /\ ~file'[files[p][j]].is_dupe
      BY <1>3, <1>4, <3>1, <3>3 DEF In
    <3> QED  BY <3>1, <3>2, <3>4 DEF UseOf, UseLabels, GlobalLabels
  <2>44. CASE close_all_load_(p)
    <3>1. /\ pc[p] = "ca_load" /\ pc'[p] = "ca_store" /\ loc'[p].f = loc[p].f
          /\ files' = files /\ file' = file
      BY <2>44 DEF close_all_load_, Moves
    <3> QED  BY <1>1, <1>2, <3>1 DEF UseOf, UseLabels, GlobalLabels
  <2>45. CASE close_all_store_(p)
    <3>1. pc[p] = "ca_store" /\ (loc[p].next = "exit" => pc'[p] = "ca_scan")
      BY <2>45 DEF close_all_store_, Back, Moves
    <3> QED  BY <1>2, <1>7, <3>1 DEF ArgOf
  <2>46. CASE exit_done_(p)
    BY <2>46, <1>7 DEF exit_done_, Moves
  <2> QED
    BY <2>10, <2>11, <2>12, <2>13, <2>14, <2>15, <2>16, <2>17, <2>18, <2>19, <2>20, <2>21, <2>22,
       <2>23, <2>24, <2>25, <2>26, <2>27, <2>28, <2>29, <2>30, <2>31, <2>32, <2>33, <2>34, <2>35,
       <2>36, <2>37, <2>38, <2>39, <2>40, <2>41, <2>42, <2>43, <2>44, <2>45, <2>46
       DEF Normal
<1> QED  BY <1>6, <1>10 DEF UseInv


(* A descriptor is looked up with the same result while only slots with    *)
(* other descriptors are cleared.                                          *)
MatchNext(p, fd) == {j \in {k \in Slots : k >= 0 /\ files'[p][k] # NULL} :
                        file'[files'[p][j]].local_fd = fd}
LookupNext(p, fd) ==
    IF MatchNext(p, fd) = {} THEN NULL ELSE files'[p][First_(MatchNext(p, fd))]

(* A lookup finds what it found before when the entries with that number    *)
(* have not changed.                                                        *)
LEMMA LookupStep ==
    ASSUME setting \in Settings, NEW p \in Procs, NEW fd,
           \A i \in Slots :
              \/ /\ files'[p][i] = files[p][i]
                 /\ files[p][i] # NULL => file'[files[p][i]] = file[files[p][i]]
              \/ files'[p][i] = NULL /\ files[p][i] # NULL /\ file[files[p][i]].local_fd # fd
    PROVE  LookupNext(p, fd) = p_filetable_lookup(p, fd)
<1> DEFINE M == Matching(p, fd, 0)
<1>1. M \in SUBSET Slots
  BY DEF Matching, Used
<1>2. MatchNext(p, fd) = M
  BY DEF Matching, Used, MatchNext
<1>3. \A j \in M : files'[p][j] = files[p][j]
  BY DEF Matching, Used
<1>4. M # {} => First_(M) \in M
  BY <1>1, FirstLast
<1> QED  BY <1>2, <1>3, <1>4 DEF LookupNext, p_filetable_lookup

(* dup2 keeps the file that it duplicates.                                 *)
DupNext(p) == loc'[p].next = "dup2" =>
    /\ pc'[p] \in {"cl_scan", "dup_lock", "dup_store", "dup_copy"} \cup GlobalLabels
    /\ loc'[p].old # loc'[p].fd /\ loc'[p].fd >= 3
    /\ LookupNext(p, loc'[p].old) # NULL
    /\ ~SharedNext(p, LookupNext(p, loc'[p].old))
    /\ pc'[p] \in GlobalLabels => file'[files'[p][loc'[p].i]].local_fd = loc'[p].fd
    /\ pc'[p] \in {"dup_store", "dup_copy"} => loc'[p].f = LookupNext(p, loc'[p].old)

(* What dup2 will duplicate stays in its table and unshared.                *)
LEMMA DupStep ==
    ASSUME BaseInv, Careful, CareInv, NEW p \in Procs, Normal(p)
    PROVE  DupInv'
<1>1. /\ files \in [Procs -> [Slots -> Files \cup {NULL}]] /\ NULL \notin Files
      /\ setting \in Settings /\ Slots' = Slots
  BY Others, SameTypes, Numbers DEF BaseInv, GlobalTableSound, TableTypes, StructTypes
<1>2. ArgInv /\ ArgOf(p) /\ PlaceInv /\ DupInv /\ DupOf(p)
  BY DEF BaseInv, CareInv, ArgInv, DupInv
<1>3. \A q \in Procs, i \in Slots : files[q][i] # NULL =>
         Public(files[q][i]) /\ file'[files[q][i]] = file[files[q][i]]
  BY <1>2, KeepPublic DEF PlaceInv
<1>4. \A q \in Procs : \A fd : p_filetable_lookup(q, fd) # NULL =>
         /\ Public(p_filetable_lookup(q, fd))
         /\ file'[p_filetable_lookup(q, fd)] = file[p_filetable_lookup(q, fd)]
  BY <1>1, <1>3, Lookup
<1>5. ASSUME NEW q \in Procs, q # p PROVE DupNext(q)
  <2>1. OtherStep(q) /\ DupOf(q) /\ ArgOf(q)
    BY <1>2, <1>5, Others DEF DupInv, ArgInv
  <2> SUFFICES ASSUME loc[q].next = "dup2" PROVE DupNext(q)
    BY <2>1 DEF OtherStep, DupNext
  <2> DEFINE g == p_filetable_lookup(q, loc[q].old)
  <2>2. pc'[q] = pc[q] /\ files'[q] = files[q] /\ loc'[q] = loc[q]
    BY <2>1 DEF OtherStep, DupOf, GlobalLabels
  <2>3. LookupNext(q, loc[q].old) = g
    BY <1>1, <1>3, <2>2, LookupStep
  <2>4. g # NULL /\ ~Shared(q, g) /\ Public(g)
    BY <1>4, <2>1 DEF DupOf
  <2>5. ~SharedNext(q, g)
    BY <1>5, <2>4, SharedStep
  <2>6. pc[q] \in GlobalLabels => file'[files[q][loc[q].i]] = file[files[q][loc[q].i]]
    BY <1>3, <2>1 DEF ArgOf
  <2> HIDE DEF g
  <2>7. /\ pc[q] \in {"cl_scan", "dup_lock", "dup_store", "dup_copy"} \cup GlobalLabels
        /\ loc[q].old # loc[q].fd /\ loc[q].fd >= 3
        /\ pc[q] \in GlobalLabels => file[files[q][loc[q].i]].local_fd = loc[q].fd
        /\ pc[q] \in {"dup_store", "dup_copy"} => loc[q].f = g
    BY <2>1 DEF DupOf, g
  <2> QED  BY <2>2, <2>3, <2>4, <2>5, <2>6, <2>7 DEF DupNext
<1>6. ASSUME loc[p].next = "dup2" =>
                \/ ~Args(p)
                \/ pc[p] \notin {"cl_scan", "dup_lock", "dup_store", "dup_copy"} \cup GlobalLabels,
             loc'[p].next = "dup2" => Args(p)
      PROVE  DupNext(p)
  BY <1>2, <1>6 DEF DupNext, DupOf, Args
<1>7. ASSUME loc[p].next = "dup2", pc[p] # "fk_store",
             \A i \in Slots :
                \/ files'[p][i] = files[p][i]
                \/ /\ files'[p][i] = NULL /\ files[p][i] # NULL
                   /\ file[files[p][i]].local_fd = loc[p].fd
      PROVE  LET g == p_filetable_lookup(p, loc[p].old) IN
             g # NULL /\ LookupNext(p, loc[p].old) = g /\ ~SharedNext(p, g)
  <2> DEFINE g == p_filetable_lookup(p, loc[p].old)
  <2>1. g # NULL /\ ~Shared(p, g) /\ Public(g) /\ loc[p].fd # loc[p].old
    BY <1>2, <1>4, <1>7 DEF DupOf
  <2>2. LookupNext(p, loc[p].old) = g
    BY <1>1, <1>3, <1>7, <2>1, LookupStep
  <2>3. ~SharedNext(p, g)
    BY <1>7, <2>1, SharedStep DEF copy_store_, Moves
  <2> QED  BY <2>1, <2>2, <2>3
<1>8. ASSUME loc[p].next = "dup2", Args(p), pc[p] # "fk_store",
             \A i \in Slots :
                \/ files'[p][i] = files[p][i]
                \/ /\ files'[p][i] = NULL /\ files[p][i] # NULL
                   /\ file[files[p][i]].local_fd = loc[p].fd,
             pc'[p] \in {"cl_scan", "dup_lock", "dup_store", "dup_copy"} \cup GlobalLabels,
             pc'[p] \in GlobalLabels => file'[files'[p][loc'[p].i]].local_fd = loc[p].fd,
             pc'[p] \in {"dup_store", "dup_copy"} => loc'[p].f = p_filetable_lookup(p, loc[p].old)
      PROVE  DupNext(p)
  <2>1. loc[p].old # loc[p].fd /\ loc[p].fd >= 3
    BY <1>2, <1>8 DEF DupOf
  <2> QED  BY <1>7, <1>8, <2>1 DEF DupNext, Args
<1>9. DupNext(p)
  <2>10. ASSUME NEW v \in Vnodes, NEW can \in AccessModes, open_(p, v, can) PROVE DupNext(p)
    BY <2>10 DEF open_, DupNext
  <2>11. CASE open_bad_flags_(p)
    BY <2>11 DEF open_bad_flags_
  <2>12. ASSUME NEW fd \in Fds, NEW j \in Slots, close_(p, fd, j) PROVE DupNext(p)
    BY <2>12 DEF close_, DupNext
  <2>13. ASSUME NEW d \in DupFds, NEW j \in Slots, NEW b \in {"dup_lock", "cl_scan"},
                dup2_(p, d, j, b)
         PROVE  DupNext(p)
    <3> DEFINE g == p_filetable_lookup(p, d[1])
    <3>1. /\ pc[p] = "user" /\ pc'[p] \in {"cl_scan", "dup_lock"} /\ MayDup(p, d[1], d[2])
          /\ loc'[p].fd = d[2] /\ loc'[p].old = d[1] /\ d[1] # d[2] /\ files' = files
          /\ In(p, j) /\ files[p][j] = g
      BY <2>13 DEF dup2_, Moves
    <3>2. LookupNext(p, d[1]) = g
      BY <1>1, <1>3, <3>1, LookupStep
    <3>3. g # NULL /\ Public(g) /\ ~Shared(p, g) /\ d[2] >= 3
      BY <1>3, <3>1 DEF In, MayDup
    <3>4. ~SharedNext(p, g)
      BY <3>1, <3>3, SharedStep DEF copy_store_, Moves
    <3> HIDE DEF g
    <3> QED  BY <3>1, <3>2, <3>3, <3>4 DEF DupNext, GlobalLabels
  <2>14. ASSUME NEW mode \in {"r", "w"}, NEW j \in Slots, transfer_(p, mode, j) PROVE DupNext(p)
    BY <2>14 DEF transfer_, DupNext
  <2>15. ASSUME NEW j \in Slots, lseek_(p, j) PROVE DupNext(p)
    BY <2>15 DEF lseek_, DupNext
  <2>16. ASSUME NEW q \in Procs, fork_(p, q) PROVE DupNext(p)
    BY <2>16 DEF fork_, DupNext
  <2>17. CASE exit_(p)
    BY <2>17 DEF exit_, DupNext
  <2>18. CASE get_next_fd_(p)
    <3>1. pc[p] \notin {"cl_scan", "dup_lock", "dup_store", "dup_copy"} \cup GlobalLabels
      BY <2>18 DEF get_next_fd_, Moves, GlobalLabels
    <3>2. loc'[p].next = loc[p].next
      BY <2>18 DEF get_next_fd_, Moves
    <3> QED  BY <1>2, <3>1, <3>2 DEF DupNext, DupOf
  <2>19. CASE open_put_(p)
    BY <2>19 DEF open_put_, Clear, DupNext
  <2>20. ASSUME NEW j \in Slots, close_dupe_(p, j) PROVE DupNext(p)
    <3>1. /\ pc[p] = "cl_scan" /\ pc'[p] = "cl_scan" /\ Args(p) /\ In(p, j)
          /\ file[files[p][j]].local_fd = loc[p].fd /\ files' = [files EXCEPT ![p][j] = NULL]
      BY <2>20 DEF close_dupe_, Moves
    <3>2. \A i \in Slots : \/ files'[p][i] = files[p][i]
                           \/ /\ files'[p][i] = NULL /\ files[p][i] # NULL
                              /\ file[files[p][i]].local_fd = loc[p].fd
      BY <1>1, <3>1 DEF In
    <3> QED  BY <1>8, <3>1, <3>2 DEF DupNext, Args, GlobalLabels
  <2>21. ASSUME NEW j \in Slots, close_file_(p, j) PROVE DupNext(p)
    <3>1. /\ pc[p] = "cl_scan" /\ pc'[p] = "cg_find" /\ Args(p) /\ In(p, j) /\ loc'[p].i = j
          /\ file[files[p][j]].local_fd = loc[p].fd /\ files' = files
      BY <2>21 DEF close_file_, Moves
    <3>2. file'[files'[p][loc'[p].i]].local_fd = loc[p].fd
      BY <1>3, <3>1 DEF In
    <3> QED  BY <1>8, <3>1, <3>2 DEF DupNext, Args, GlobalLabels
  <2>22. CASE close_return_(p)
    BY <2>22 DEF close_return_, Clear, DupNext
  <2>23. CASE close_dup_(p)
    <3>1. pc[p] = "cl_scan" /\ pc'[p] = "dup_lock" /\ Args(p) /\ files' = files
      BY <2>23 DEF close_dup_, Moves
    <3> QED  BY <1>8, <3>1 DEF DupNext, Args, GlobalLabels
  <2>24. CASE close_not_found_(p)
    <3>1. /\ pc[p] = "cg_find" /\ (loc[p].next = "dup2" => pc'[p] = "cl_scan") /\ Args(p)
          /\ In(p, loc[p].i) /\ files' = [files EXCEPT ![p][loc[p].i] = NULL]
      BY <2>24 DEF close_not_found_, Back, Moves
    <3>2. loc[p].next = "dup2" => file[files[p][loc[p].i]].local_fd = loc[p].fd
      BY <1>2, <3>1 DEF DupOf, GlobalLabels
    <3>3. loc[p].next = "dup2" => \A i \in Slots :
             \/ files'[p][i] = files[p][i]
             \/ /\ files'[p][i] = NULL /\ files[p][i] # NULL
                /\ file[files[p][i]].local_fd = loc[p].fd
      BY <1>1, <3>1, <3>2 DEF In
    <3> QED  BY <1>8, <3>1, <3>3 DEF DupNext, Args, GlobalLabels
  <2>25. ASSUME NEW i \in Slots, destroy_file_(p, i) PROVE DupNext(p)
    <3>1. /\ pc[p] = "cg_find" /\ (loc[p].next = "dup2" => pc'[p] = "cl_scan") /\ Args(p)
          /\ In(p, loc[p].i) /\ files' = [files EXCEPT ![p][loc[p].i] = NULL]
      BY <2>25 DEF destroy_file_, Back, Moves
    <3>2. loc[p].next = "dup2" => file[files[p][loc[p].i]].local_fd = loc[p].fd
      BY <1>2, <3>1 DEF DupOf, GlobalLabels
    <3>3. loc[p].next = "dup2" => \A k \in Slots :
             \/ files'[p][k] = files[p][k]
             \/ /\ files'[p][k] = NULL /\ files[p][k] # NULL
                /\ file[files[p][k]].local_fd = loc[p].fd
      BY <1>1, <3>1, <3>2 DEF In
    <3> QED  BY <1>8, <3>1, <3>3 DEF DupNext, Args, GlobalLabels
  <2>26. ASSUME NEW i \in Slots, close_shared_(p, i) PROVE DupNext(p)
    <3>1. /\ pc[p] = "cg_find" /\ pc'[p] = "cg_load" /\ Args(p) /\ files' = files /\ loc'[p].i = loc[p].i
      BY <2>26 DEF close_shared_, Moves
    <3>2. loc[p].next = "dup2" => file[files[p][loc[p].i]].local_fd = loc[p].fd
      BY <1>2, <3>1 DEF DupOf, GlobalLabels
    <3>3. file'[files[p][loc[p].i]] = file[files[p][loc[p].i]]
      BY <1>2, <1>3, <3>1 DEF ArgOf, GlobalLabels
    <3> QED  BY <1>8, <3>1, <3>2, <3>3 DEF DupNext, Args, GlobalLabels
  <2>27. CASE close_load_(p)
    <3>1. /\ pc[p] = "cg_load" /\ pc'[p] = "cg_store" /\ Args(p) /\ files' = files /\ loc'[p].i = loc[p].i
      BY <2>27 DEF close_load_, Moves
    <3>2. loc[p].next = "dup2" => file[files[p][loc[p].i]].local_fd = loc[p].fd
      BY <1>2, <3>1 DEF DupOf, GlobalLabels
    <3>3. file'[files[p][loc[p].i]] = file[files[p][loc[p].i]]
      BY <1>2, <1>3, <3>1 DEF ArgOf, GlobalLabels
    <3> QED  BY <1>8, <3>1, <3>2, <3>3 DEF DupNext, Args, GlobalLabels
  <2>28. CASE close_store_(p)
    <3>1. /\ pc[p] = "cg_store" /\ (loc[p].next = "dup2" => pc'[p] = "cl_scan") /\ Args(p)
          /\ In(p, loc[p].i) /\ files' = [files EXCEPT ![p][loc[p].i] = NULL]
      BY <2>28 DEF close_store_, Back, Moves
    <3>2. loc[p].next = "dup2" => file[files[p][loc[p].i]].local_fd = loc[p].fd
      BY <1>2, <3>1 DEF DupOf, GlobalLabels
    <3>3. loc[p].next = "dup2" => \A i \in Slots :
             \/ files'[p][i] = files[p][i]
             \/ /\ files'[p][i] = NULL /\ files[p][i] # NULL
                /\ file[files[p][i]].local_fd = loc[p].fd
      BY <1>1, <3>1, <3>2 DEF In
    <3> QED  BY <1>8, <3>1, <3>3 DEF DupNext, Args, GlobalLabels
  <2>29. ASSUME NEW j \in Slots, copy_file_lock_(p, j) PROVE DupNext(p)
    <3>1. /\ pc[p] = "dup_lock" /\ pc'[p] = "dup_store" /\ Args(p) /\ files' = files
          /\ loc'[p].f = p_filetable_lookup(p, loc[p].old)
      BY <2>29 DEF copy_file_lock_, Moves
    <3> QED  BY <1>8, <3>1 DEF DupNext, Args, GlobalLabels
  <2>30. CASE copy_file_store_(p)
    <3>1. /\ pc[p] = "dup_store" /\ pc'[p] = "dup_copy" /\ Args(p) /\ files' = files
          /\ loc'[p].f = loc[p].f
      BY <2>30 DEF copy_file_store_, Moves
    <3>2. loc[p].next = "dup2" => loc[p].f = p_filetable_lookup(p, loc[p].old)
      BY <1>2, <3>1 DEF DupOf
    <3> QED  BY <1>8, <3>1, <3>2 DEF DupNext, Args, GlobalLabels
  <2>31. CASE dup_file_(p)
    BY <2>31 DEF dup_file_, Clear, DupNext
  <2>32. CASE transfer_over_(p)
    BY <2>32 DEF transfer_over_, Clear, DupNext
  <2>33. CASE transfer_begin_(p)
    <3>1. pc[p] \notin {"cl_scan", "dup_lock", "dup_store", "dup_copy"} \cup GlobalLabels
      BY <2>33 DEF transfer_begin_, Moves, Args, GlobalLabels
    <3>2. loc'[p].next = loc[p].next
      BY <2>33 DEF transfer_begin_, Moves, Args
    <3> QED  BY <1>2, <3>1, <3>2 DEF DupNext, DupOf
  <2>34. CASE transfer_end_(p)
    BY <2>34 DEF transfer_end_, Clear, DupNext
  <2>35. CASE read_no_memory_(p)
    BY <2>35 DEF read_no_memory_
  <2>36. CASE lseek_over_(p)
    BY <2>36 DEF lseek_over_, Clear, DupNext
  <2>37. CASE lseek_lock_(p)
    <3>1. pc[p] \notin {"cl_scan", "dup_lock", "dup_store", "dup_copy"} \cup GlobalLabels
      BY <2>37 DEF lseek_lock_, Moves, Args, GlobalLabels
    <3>2. loc'[p].next = loc[p].next
      BY <2>37 DEF lseek_lock_, Moves, Args
    <3> QED  BY <1>2, <3>1, <3>2 DEF DupNext, DupOf
  <2>38. CASE lseek_set_(p)
    BY <2>38 DEF lseek_set_, Clear, DupNext
  <2>39. ASSUME NEW j \in Slots, copy_lock_(p, j) PROVE DupNext(p)
    <3>1. pc[p] \notin {"cl_scan", "dup_lock", "dup_store", "dup_copy"} \cup GlobalLabels
      BY <2>39 DEF copy_lock_, Moves, Args, GlobalLabels
    <3>2. loc'[p].next = loc[p].next
      BY <2>39 DEF copy_lock_, Moves, Args
    <3> QED  BY <1>2, <3>1, <3>2 DEF DupNext, DupOf
  <2>40. CASE copy_store_(p)
    <3>1. pc[p] \notin {"cl_scan", "dup_lock", "dup_store", "dup_copy"} \cup GlobalLabels
      BY <2>40 DEF copy_store_, Moves, Args, GlobalLabels
    <3>2. loc'[p].next = loc[p].next
      BY <2>40 DEF copy_store_, Moves, Args
    <3> QED  BY <1>2, <3>1, <3>2 DEF DupNext, DupOf
  <2>41. ASSUME NEW b \in {"user", "lost"}, fork_done_(p, b) PROVE DupNext(p)
    BY <2>41 DEF fork_done_, Clear, DupNext
  <2>42. ASSUME NEW j \in Slots, exit_shared_(p, j) PROVE DupNext(p)
    <3>1. pc[p] \notin {"cl_scan", "dup_lock", "dup_store", "dup_copy"} \cup GlobalLabels
      BY <2>42 DEF exit_shared_, Moves, Args, GlobalLabels
    <3>2. loc'[p].next = loc[p].next
      BY <2>42 DEF exit_shared_, Moves, Args
    <3> QED  BY <1>2, <3>1, <3>2 DEF DupNext, DupOf
  <2>43. ASSUME NEW j \in Slots, exit_last_(p, j) PROVE DupNext(p)
    <3>1. pc[p] \notin {"cl_scan", "dup_lock", "dup_store", "dup_copy"} \cup GlobalLabels
      BY <2>43 DEF exit_last_, Moves, Args, GlobalLabels
    <3>2. loc'[p].next = loc[p].next
      BY <2>43 DEF exit_last_, Moves, Args
    <3> QED  BY <1>2, <3>1, <3>2 DEF DupNext, DupOf
  <2>44. CASE close_all_load_(p)
    <3>1. pc[p] \notin {"cl_scan", "dup_lock", "dup_store", "dup_copy"} \cup GlobalLabels
      BY <2>44 DEF close_all_load_, Moves, Args, GlobalLabels
    <3>2. loc'[p].next = loc[p].next
      BY <2>44 DEF close_all_load_, Moves, Args
    <3> QED  BY <1>2, <3>1, <3>2 DEF DupNext, DupOf
  <2>45. CASE close_all_store_(p)
    <3>1. pc[p] \notin {"cl_scan", "dup_lock", "dup_store", "dup_copy"} \cup GlobalLabels
      BY <2>45 DEF close_all_store_, Back, Moves, Args, GlobalLabels
    <3>2. loc'[p].next = loc[p].next
      BY <2>45 DEF close_all_store_, Back, Moves, Args
    <3> QED  BY <1>2, <3>1, <3>2 DEF DupNext, DupOf
  <2>46. CASE exit_done_(p)
    BY <2>46 DEF exit_done_, Clear, DupNext
  <2> QED
    BY <2>10, <2>11, <2>12, <2>13, <2>14, <2>15, <2>16, <2>17, <2>18, <2>19, <2>20, <2>21, <2>22,
       <2>23, <2>24, <2>25, <2>26, <2>27, <2>28, <2>29, <2>30, <2>31, <2>32, <2>33, <2>34, <2>35,
       <2>36, <2>37, <2>38, <2>39, <2>40, <2>41, <2>42, <2>43, <2>44, <2>45, <2>46
       DEF Normal
<1>10. ASSUME NEW q \in Procs, DupNext(q) PROVE DupOf(q)'
  <2>1. p_filetable_lookup(q, loc[q].old)' = LookupNext(q, loc'[q].old)
    BY <1>1 DEF p_filetable_lookup, Matching, Used, LookupNext, MatchNext
  <2>2. Shared(q, p_filetable_lookup(q, loc[q].old))' => SharedNext(q, LookupNext(q, loc'[q].old))
    <3>1. \A r \in (Procs \X Slots)' : r[1] \in Procs /\ r[2] \in Slots
      BY <1>1
    <3> QED  BY <1>1, <2>1, <3>1 DEF Shared, Refs, SharedNext
  <2> QED  BY <1>10, <2>1, <2>2 DEF DupNext, DupOf
<1> QED  BY <1>5, <1>9, <1>10 DEF DupInv

(* The files of a process that forks.                                      *)
LEMMA ForkStep ==
    ASSUME BaseInv, Careful, CareInv, NEW p \in Procs, Normal(p)
    PROVE  ForkInv'
<1>1. /\ files \in [Procs -> [Slots -> Files \cup {NULL}]] /\ NULL \notin Files
      /\ setting \in Settings /\ Slots' = Slots /\ Slots \subseteq Nat
      /\ loc \in [Procs -> Locals]
  BY Others, SameTypes, Numbers DEF BaseInv, GlobalTableSound, TableTypes, LocalTypes
<1>2. ArgInv /\ ArgOf(p) /\ PlaceInv /\ ChildInv /\ SlotInv /\ ForkInv /\ ForkOf(p)
  BY DEF BaseInv, CareInv, ArgInv, ForkInv
<1>3. \A q \in Procs, i \in Slots : files[q][i] # NULL =>
         Public(files[q][i]) /\ file'[files[q][i]] = file[files[q][i]]
  BY <1>2, KeepPublic DEF PlaceInv
<1> DEFINE N(q) == pc'[q] \in ForkLabels =>
                      \A i \in Slots : files'[q][i] # NULL =>
                         /\ i >= loc'[q].i => ~SharedNext(q, files'[q][i])
                         /\ ~file'[files'[q][i]].is_dupe
<1>4. ASSUME NEW q \in Procs, q # p PROVE N(q)
  <2> SUFFICES ASSUME pc'[q] \in ForkLabels, NEW i \in Slots, files'[q][i] # NULL
               PROVE  /\ i >= loc'[q].i => ~SharedNext(q, files'[q][i])
                      /\ ~file'[files'[q][i]].is_dupe
    OBVIOUS
  <2>1. pc'[q] = pc[q] /\ files'[q] = files[q] /\ loc'[q] = loc[q]
    BY <1>4, Others DEF OtherStep, ForkLabels
  <2>2. ~file'[files'[q][i]].is_dupe
    BY <1>2, <1>3, <2>1 DEF ForkInv, ForkOf
  <2>3. i >= loc[q].i => ~Shared(q, files[q][i])
    BY <1>2, <2>1 DEF ForkInv, ForkOf
  <2>4. Public(files[q][i])
    BY <1>3, <2>1
  <2> QED  BY <1>4, <2>1, <2>2, <2>3, <2>4, SharedStep
<1>5. ASSUME NEW q \in Procs, fork_(p, q) PROVE N(p)
  <2> SUFFICES ASSUME NEW i \in Slots, files'[p][i] # NULL
               PROVE  ~SharedNext(p, files'[p][i]) /\ ~file'[files'[p][i]].is_dupe
    OBVIOUS
  <2>1. files'[p] = files[p] /\ MayFork(p) /\ pc[p] = "user"
    BY <1>1, <1>5 DEF fork_
  <2>2. i \in Used(p, 0)
    BY <1>1, <2>1 DEF Used
  <2>3. ~Shared(p, files[p][i]) /\ ~file[files[p][i]].is_dupe
    BY <2>1, <2>2 DEF MayFork
  <2> QED  BY <1>3, <2>1, <2>3, SharedStep DEF copy_store_, Moves
<1>6. ASSUME NEW j \in Slots, copy_lock_(p, j) PROVE N(p)
  <2> SUFFICES ASSUME NEW i \in Slots, files'[p][i] # NULL
               PROVE  /\ i >= loc'[p].i => ~SharedNext(p, files'[p][i])
                      /\ ~file'[files'[p][i]].is_dupe
    OBVIOUS
  <2>1. files' = files /\ j >= loc[p].i /\ loc'[p].i = j /\ pc[p] = "fk_scan"
    BY <1>6 DEF copy_lock_, Moves
  <2>2. i >= j => i >= loc[p].i
    <3>1. loc[p] \in Locals
      BY <1>1
    <3>2. loc[p].i \in 0 .. OPEN_MAX
      BY <3>1, SetLocals
    <3>3. i \in Int /\ j \in Int /\ loc[p].i \in Int
      BY <1>1, <3>2
    <3> QED  BY <2>1, <3>3
  <2>3. (i >= loc[p].i => ~Shared(p, files[p][i])) /\ ~file[files[p][i]].is_dupe
    BY <1>2, <2>1 DEF ForkOf, ForkLabels
  <2> QED  BY <1>3, <2>1, <2>2, <2>3, SharedStep DEF copy_store_, Moves
<1>7. ASSUME copy_store_(p) PROVE N(p)
  <2> SUFFICES ASSUME NEW i \in Slots, files'[p][i] # NULL
               PROVE  /\ i >= loc'[p].i => ~SharedNext(p, files'[p][i])
                      /\ ~file'[files'[p][i]].is_dupe
    OBVIOUS
  <2> DEFINE k == loc[p].i
  <2>1. /\ In(p, k) /\ loc'[p].i = k + 1 /\ loc[p].child \in Procs /\ pc[p] = "fk_store"
        /\ files' = [files EXCEPT ![loc[p].child][k] = files[p][k]]
    BY <1>7 DEF copy_store_, Moves
  <2>2. loc[p].child # p
    BY <1>2, <2>1 DEF ChildInv, ForkLabels
  <2>3. files'[p] = files[p] /\ k \in Nat
    BY <1>1, <2>1, <2>2 DEF In
  <2>4. (i >= k => ~Shared(p, files[p][i])) /\ ~file[files[p][i]].is_dupe
    BY <1>2, <2>1, <2>3 DEF ForkOf, ForkLabels
  <2>5. i >= k + 1 => i >= k /\ i # k
    BY <1>1, <2>3
  <2>6. i # k => files[p][i] # files[p][k]
    BY <1>2, <2>1, <2>3 DEF SlotInv, In
  <2> HIDE DEF k
  <2>7. i >= k + 1 => ~SharedNext(p, files[p][i])
    BY <1>3, <2>3, <2>4, <2>5, <2>6, SharedStep DEF k
  <2> QED  BY <1>3, <2>1, <2>3, <2>4, <2>7
<1>8. (\E q \in Procs : fork_(p, q)) \/ (\E j \in Slots : copy_lock_(p, j)) \/ copy_store_(p)
         \/ pc'[p] \notin ForkLabels
  <2> DEFINE Goal == (\E q \in Procs : fork_(p, q)) \/ (\E j \in Slots : copy_lock_(p, j))
                    \/ copy_store_(p) \/ pc'[p] \notin ForkLabels
  <2>10. ASSUME NEW v \in Vnodes, NEW can \in AccessModes, open_(p, v, can) PROVE Goal
    BY <2>10 DEF open_, Moves, ForkLabels
  <2>11. CASE open_bad_flags_(p)
    BY <2>11 DEF open_bad_flags_, ForkLabels
  <2>12. ASSUME NEW fd \in Fds, NEW j \in Slots, close_(p, fd, j) PROVE Goal
    BY <2>12 DEF close_, Moves, ForkLabels
  <2>13. ASSUME NEW d \in DupFds, NEW j \in Slots, NEW b \in {"dup_lock", "cl_scan"},
                dup2_(p, d, j, b)
         PROVE  Goal
    BY <2>13 DEF dup2_, Moves, ForkLabels
  <2>14. ASSUME NEW mode \in {"r", "w"}, NEW j \in Slots, transfer_(p, mode, j) PROVE Goal
    BY <2>14 DEF transfer_, Moves, ForkLabels
  <2>15. ASSUME NEW j \in Slots, lseek_(p, j) PROVE Goal
    BY <2>15 DEF lseek_, Moves, ForkLabels
  <2>16. ASSUME NEW q \in Procs, fork_(p, q) PROVE Goal
    BY <2>16
  <2>17. CASE exit_(p)
    BY <2>17 DEF exit_, Moves, ForkLabels
  <2>18. CASE get_next_fd_(p)
    BY <2>18 DEF get_next_fd_, Moves, ForkLabels
  <2>19. CASE open_put_(p)
    BY <2>19 DEF open_put_, Moves, ForkLabels
  <2>20. ASSUME NEW j \in Slots, close_dupe_(p, j) PROVE Goal
    BY <2>20 DEF close_dupe_, Moves, ForkLabels
  <2>21. ASSUME NEW j \in Slots, close_file_(p, j) PROVE Goal
    BY <2>21 DEF close_file_, Moves, ForkLabels
  <2>22. CASE close_return_(p)
    BY <2>22 DEF close_return_, Moves, ForkLabels
  <2>23. CASE close_dup_(p)
    BY <2>23 DEF close_dup_, Moves, ForkLabels
  <2>24. CASE close_not_found_(p)
    BY <2>24 DEF close_not_found_, Back, Moves, ForkLabels
  <2>25. ASSUME NEW i \in Slots, destroy_file_(p, i) PROVE Goal
    BY <2>25 DEF destroy_file_, Back, Moves, ForkLabels
  <2>26. ASSUME NEW i \in Slots, close_shared_(p, i) PROVE Goal
    BY <2>26 DEF close_shared_, Moves, ForkLabels
  <2>27. CASE close_load_(p)
    BY <2>27 DEF close_load_, Moves, ForkLabels
  <2>28. CASE close_store_(p)
    BY <2>28 DEF close_store_, Back, Moves, ForkLabels
  <2>29. ASSUME NEW j \in Slots, copy_file_lock_(p, j) PROVE Goal
    BY <2>29 DEF copy_file_lock_, Moves, ForkLabels
  <2>30. CASE copy_file_store_(p)
    BY <2>30 DEF copy_file_store_, Moves, ForkLabels
  <2>31. CASE dup_file_(p)
    BY <2>31 DEF dup_file_, Moves, ForkLabels
  <2>32. CASE transfer_over_(p)
    BY <2>32 DEF transfer_over_, Moves, ForkLabels
  <2>33. CASE transfer_begin_(p)
    BY <2>33 DEF transfer_begin_, Moves, ForkLabels
  <2>34. CASE transfer_end_(p)
    BY <2>34 DEF transfer_end_, Moves, ForkLabels
  <2>35. CASE read_no_memory_(p)
    BY <2>35 DEF read_no_memory_, Moves, ForkLabels
  <2>36. CASE lseek_over_(p)
    BY <2>36 DEF lseek_over_, Moves, ForkLabels
  <2>37. CASE lseek_lock_(p)
    BY <2>37 DEF lseek_lock_, Moves, ForkLabels
  <2>38. CASE lseek_set_(p)
    BY <2>38 DEF lseek_set_, Moves, ForkLabels
  <2>39. ASSUME NEW j \in Slots, copy_lock_(p, j) PROVE Goal
    BY <2>39
  <2>40. CASE copy_store_(p)
    BY <2>40
  <2>41. ASSUME NEW b \in {"user", "lost"}, fork_done_(p, b) PROVE Goal
    BY <2>41 DEF fork_done_, ForkLabels
  <2>42. ASSUME NEW j \in Slots, exit_shared_(p, j) PROVE Goal
    BY <2>42 DEF exit_shared_, Moves, ForkLabels
  <2>43. ASSUME NEW j \in Slots, exit_last_(p, j) PROVE Goal
    BY <2>43 DEF exit_last_, Moves, ForkLabels
  <2>44. CASE close_all_load_(p)
    BY <2>44 DEF close_all_load_, Moves, ForkLabels
  <2>45. CASE close_all_store_(p)
    BY <2>45 DEF close_all_store_, Back, Moves, ForkLabels
  <2>46. CASE exit_done_(p)
    BY <2>46 DEF exit_done_, Moves, ForkLabels
  <2> QED
    BY <2>10, <2>11, <2>12, <2>13, <2>14, <2>15, <2>16, <2>17, <2>18, <2>19, <2>20, <2>21, <2>22,
       <2>23, <2>24, <2>25, <2>26, <2>27, <2>28, <2>29, <2>30, <2>31, <2>32, <2>33, <2>34, <2>35,
       <2>36, <2>37, <2>38, <2>39, <2>40, <2>41, <2>42, <2>43, <2>44, <2>45, <2>46
       DEF Normal
<1>9. ASSUME NEW q \in Procs, N(q) PROVE ForkOf(q)'
  <2>1. \A i \in Slots : Shared(q, files[q][i])' => SharedNext(q, files'[q][i])
    <3>1. \A r \in (Procs \X Slots)' : r[1] \in Procs /\ r[2] \in Slots
      BY <1>1
    <3> QED  BY <1>1, <3>1 DEF Shared, Refs, SharedNext
  <2> QED  BY <1>1, <1>9, <2>1 DEF ForkOf
<1> QED
  <2>1. N(p)
    BY <1>5, <1>6, <1>7, <1>8
  <2>2. \A q \in Procs : N(q)
    BY <1>4, <2>1
  <2> HIDE DEF N
  <2> QED  BY <1>9, <2>2 DEF ForkInv



(* The references of a file after a step.                                  *)
RefsNext(f) == {r \in Procs \X Slots : files'[r[1]][r[2]] = f}
EnoughNext(f, n) ==
    /\ n >= 1
    /\ file'[f].is_dupe => n >= 2
    /\ f \notin Std /\ ~file'[f].is_dupe => n >= Cardinality(RefsNext(f))

(* How many entries of a file a step may add: one, and only fork.           *)
LEMMA RefsStep ==
    ASSUME BaseInv, NEW p \in Procs, Normal(p), NEW f, Public(f), f \notin Std
    PROVE  /\ Cardinality(Refs(f)) \in Nat /\ Cardinality(RefsNext(f)) \in Nat
           /\ \/ Cardinality(RefsNext(f)) <= Cardinality(Refs(f))
              \/ copy_store_(p) /\ f = files[p][loc[p].i]
           /\ Cardinality(RefsNext(f)) <= Cardinality(Refs(f)) + 1
           /\ \A k \in Slots : files[p][k] = f /\ files'[p][k] = NULL /\ ~copy_store_(p) =>
                 Cardinality(RefsNext(f)) <= Cardinality(Refs(f)) - 1
<1> DEFINE R == Refs(f)
           T == RefsNext(f)
           x == <<loc[p].child, loc[p].i>>
<1>1. /\ setting \in Settings /\ NULL \notin Files /\ next_struct \in Nat
      /\ f \in Nat /\ f # NULL
  BY SameTypes, Numbers DEF BaseInv, GlobalTableSound, StructTypes, Public
<1>2. f # next_struct /\ (open_put_(p) => f # loc[p].f)
  BY <1>1 DEF Public, InOpen, open_put_, Moves
<1>3. \A r \in T : \/ r \in R
                   \/ copy_store_(p) /\ f = files[p][loc[p].i] /\ r = x
  <2> SUFFICES ASSUME NEW r \in T, r \notin R
               PROVE  copy_store_(p) /\ f = files[p][loc[p].i] /\ r = x
    OBVIOUS
  <2>1. r \in Procs \X Slots /\ files'[r[1]][r[2]] = f /\ files[r[1]][r[2]] # f
    BY DEF Refs, RefsNext
  <2>2. r[1] \in Procs /\ r[2] \in Slots /\ r = <<r[1], r[2]>>
    BY <2>1
  <2>3. Filled(p, r[1], r[2])
    BY <2>2, TableStep
  <2> QED  BY <1>1, <1>2, <2>1, <2>2, <2>3 DEF Filled
<1>4. /\ IsFiniteSet(R) /\ IsFiniteSet(T) /\ Cardinality(R) \in Nat /\ Cardinality(T) \in Nat
  <2>1. R \in SUBSET (Procs \X Slots) /\ T \in SUBSET (Procs \X Slots)
    BY DEF Refs, RefsNext
  <2> QED  BY <1>1, <2>1, SomeProcs
<1>5. ASSUME NEW k \in Slots, files[p][k] = f, files'[p][k] = NULL, ~copy_store_(p)
      PROVE  <<p, k>> \in R /\ T \subseteq R \ {<<p, k>>}
  <2>1. <<p, k>> \in R /\ <<p, k>> \notin T
    BY <1>1, <1>5 DEF Refs, RefsNext
  <2> QED  BY <1>3, <1>5, <2>1
<1> HIDE DEF R, T, x
<1>6. /\ \/ Cardinality(T) <= Cardinality(R)
         \/ copy_store_(p) /\ f = files[p][loc[p].i]
      /\ Cardinality(T) <= Cardinality(R) + 1
  <2>1. T \subseteq R \cup {x}
    BY <1>3
  <2>2. Cardinality(T) <= Cardinality(R) + 1
    BY <1>4, <2>1, OneMore
  <2>3. T \subseteq R => Cardinality(T) <= Cardinality(R)
    BY <1>4, OneMore
  <2> QED  BY <1>3, <2>2, <2>3
<1>7. ASSUME NEW k \in Slots, files[p][k] = f, files'[p][k] = NULL, ~copy_store_(p)
      PROVE  Cardinality(T) <= Cardinality(R) - 1
  BY <1>4, <1>5, <1>7, OneMore
<1> QED  BY <1>4, <1>6, <1>7 DEF R, T

(* A count that was enough stays so, but when fork adds a reference.       *)
LEMMA EnoughStep ==
    ASSUME BaseInv, NEW p \in Procs, Normal(p), NEW f, Public(f), NEW n \in Int, Enough(f, n)
    PROVE  /\ EnoughNext(f, n) \/ (copy_store_(p) /\ f = files[p][loc[p].i] /\ f \notin Std)
           /\ EnoughNext(f, n + 1)
<1>1. file'[f] = file[f]
  BY KeepPublic
<1>2. CASE f \in Std
  BY <1>1, <1>2 DEF Enough, EnoughNext
<1>3. CASE f \notin Std
  BY <1>1, <1>3, RefsStep DEF Enough, EnoughNext
<1> QED  BY <1>2, <1>3

(* What a step stores in the counts.                                       *)
Stores(p) ==
    \/ UNCHANGED refcount /\ ~copy_store_(p)
    \/ dup_file_(p)
    \/ \E k \in Slots, t \in Int :
          /\ files[p][k] # NULL /\ Enough(files[p][k], t)
          /\ copy_store_(p) => k = loc[p].i
          /\ refcount' = [refcount EXCEPT ![files[p][k]] = t + 1]
    \/ \E k \in Slots, t \in Int :
          /\ files[p][k] # NULL /\ Enough(files[p][k], t)
          /\ files[p][k] \notin Std /\ ~copy_store_(p)
          /\ files'[p][k] = NULL
          /\ refcount' = [refcount EXCEPT ![files[p][k]] = t - 1]

(* The counts that a step may store.                                        *)
LEMMA StoreStep ==
    ASSUME BaseInv, Careful, CareInv, NEW p \in Procs, Normal(p)
    PROVE  Stores(p)
<1>1. /\ files \in [Procs -> [Slots -> Files \cup {NULL}]] /\ NULL \notin Files
      /\ setting \in Settings /\ loc \in [Procs -> Locals]
  BY SameTypes, Numbers DEF BaseInv, GlobalTableSound, TableTypes, LocalTypes
<1>2. ArgOf(p) /\ PlaceInv /\ NameInv /\ RefInv /\ UseOf(p)
  BY DEF BaseInv, CareInv, ArgInv, UseInv
<1>3. loc[p].tmp \in Int
  <2>1. loc[p] \in Locals
    BY <1>1
  <2> QED  BY <2>1, SetLocals
<1>4. \A i \in Slots : files[p][i] # NULL /\ file[files[p][i]].std = -1 => files[p][i] \notin Std
  <2>1. \A s \in Std : s # -1
    BY DEF Std, STDIN, STDOUT, STDERR
  <2> QED  BY <1>2, <2>1 DEF NameInv, NameOf, PlaceInv, Public
<1>5. CASE close_store_(p)
  <2>1. /\ pc[p] = "cg_store" /\ In(p, loc[p].i)
        /\ files' = [files EXCEPT ![p][loc[p].i] = NULL]
        /\ refcount' = [refcount EXCEPT ![loc[p].f] = loc[p].tmp - 1]
    BY <1>5 DEF close_store_, Back, Moves
  <2>2. loc[p].f = files[p][loc[p].i] /\ Enough(loc[p].f, loc[p].tmp)
    BY <1>2, <2>1 DEF UseOf, RefInv
  <2>3. files'[p][loc[p].i] = NULL /\ files[p][loc[p].i] \notin Std
    BY <1>1, <1>2, <1>4, <2>1 DEF In, UseOf, GlobalLabels
  <2>4. ~copy_store_(p)
    BY <2>1 DEF copy_store_, Moves
  <2> QED  BY <1>3, <2>1, <2>2, <2>3, <2>4 DEF Stores, In
<1>6. CASE close_all_store_(p)
  <2>1. /\ pc[p] = "ca_store" /\ In(p, loc[p].i)
        /\ files' = [files EXCEPT ![p][loc[p].i] = NULL]
        /\ refcount' = [refcount EXCEPT ![loc[p].f] = loc[p].tmp - 1]
    BY <1>6 DEF close_all_store_, Back, Moves
  <2>2. loc[p].f = files[p][loc[p].i] /\ Enough(loc[p].f, loc[p].tmp)
    BY <1>2, <2>1 DEF ArgOf, RefInv
  <2>3. files'[p][loc[p].i] = NULL /\ files[p][loc[p].i] \notin Std
    BY <1>1, <1>2, <1>4, <2>1, <2>2 DEF In, UseOf
  <2>4. ~copy_store_(p)
    BY <2>1 DEF copy_store_, Moves
  <2> QED  BY <1>3, <2>1, <2>2, <2>3, <2>4 DEF Stores, In
<1>7. CASE copy_file_store_(p)
  <2>1. /\ pc[p] = "dup_store" /\ loc[p].f \in Files
        /\ refcount' = [refcount EXCEPT ![loc[p].f] = loc[p].tmp + 1]
    BY <1>7 DEF copy_file_store_, Moves
  <2>2. Enough(loc[p].f, loc[p].tmp) /\ \E i \in Slots : files[p][i] = loc[p].f
    BY <1>2, <2>1 DEF UseOf, RefInv, UseLabels
  <2>4. ~copy_store_(p) /\ loc[p].f # NULL
    BY <1>1, <2>1 DEF copy_store_, Moves
  <2> QED  BY <1>3, <2>1, <2>2, <2>4 DEF Stores
<1>8. CASE copy_store_(p)
  <2>1. /\ pc[p] = "fk_store" /\ In(p, loc[p].i)
        /\ refcount' = [refcount EXCEPT ![files[p][loc[p].i]] = loc[p].tmp + 1]
    BY <1>8 DEF copy_store_, Moves
  <2>2. Enough(files[p][loc[p].i], loc[p].tmp)
    BY <1>2, <2>1 DEF RefInv
  <2> QED  BY <1>3, <2>1, <2>2 DEF Stores, In
<1>9. CASE dup_file_(p)
  BY <1>9 DEF Stores
<1>10. CASE UNCHANGED refcount /\ ~copy_store_(p)
  BY <1>10 DEF Stores
<1> QED
  BY <1>5, <1>6, <1>7, <1>8, <1>9, <1>10
     DEF Normal, SameStructs, open_, open_bad_flags_, close_, dup2_, transfer_, lseek_, fork_,
         exit_, get_next_fd_, open_put_, close_dupe_, close_file_, close_return_, close_dup_,
         close_not_found_, destroy_file_, close_shared_, close_load_, copy_file_lock_,
         transfer_over_, transfer_begin_, transfer_end_, read_no_memory_, lseek_over_,
         lseek_lock_, lseek_set_, copy_lock_, fork_done_, exit_shared_, exit_last_,
         close_all_load_, exit_done_


(* The counts after a step cover the references.                           *)
LEMMA RefStep ==
    ASSUME BaseInv, Careful, CareInv, NEW p \in Procs, Normal(p)
    PROVE  RefInv'
<1>1. /\ files \in [Procs -> [Slots -> Files \cup {NULL}]] /\ NULL \notin Files
      /\ setting \in Settings /\ Slots' = Slots /\ refcount \in [Files -> Int]
      /\ loc \in [Procs -> Locals] /\ next_struct \in Nat /\ Std \subseteq Files
  <2>1. TypeOK
    BY DEF BaseInv, GlobalTableSound
  <2>2. setting \in Settings /\ Slots' = Slots /\ NULL \notin Files /\ Std \subseteq Files
    BY <2>1, Others, Numbers DEF TypeOK
  <2> QED  BY <2>1, <2>2 DEF TypeOK
<1>2. ArgInv /\ PlaceInv /\ SlotInv /\ NameInv /\ RefInv /\ UseInv /\ DupInv /\ ForkInv
  BY DEF BaseInv, CareInv
<1>3. \A q \in Procs, i \in Slots : files[q][i] # NULL =>
         /\ Public(files[q][i]) /\ file'[files[q][i]] = file[files[q][i]]
         /\ files[q][i] \in Files /\ files[q][i] \in 0 .. next_struct - 1
         /\ files[q][i] # next_struct /\ refcount[files[q][i]] \in Int
  <2>1. \A q \in Procs, i \in Slots : files[q][i] # NULL =>
           Public(files[q][i]) /\ files[q][i] \in Files
    BY <1>1, <1>2 DEF PlaceInv
  <2>2. \A f : Public(f) => f \in 0 .. next_struct - 1 /\ f # next_struct
    BY <1>1 DEF Public
  <2> QED  BY <1>1, <2>1, <2>2, KeepPublic
<1>4. \A q \in Procs : loc[q].tmp \in Int
  <2>1. \A q \in Procs : loc[q] \in Locals
    BY <1>1
  <2> QED  BY <2>1, SetLocals
<1>5. \A f \in Std : file'[f] = file[f] /\ ~file[f].is_dupe
  <2>1. \A f \in Std : f \in 0 .. next_struct - 1 /\ f \notin {loc[q].f : q \in InOpen}
    BY <1>2, StdStructs DEF BaseInv, GlobalTableSound, PlaceInv
  <2>2. \A f \in Std : Public(f)
    BY <2>1 DEF Public
  <2> QED  BY <1>2, <2>1, <2>2, KeepPublic DEF NameInv, NameOf
<1>6. ASSUME copy_store_(p)
      PROVE  /\ loc[p].i \in Slots /\ files[p][loc[p].i] # NULL
             /\ \A q \in Procs \ {p}, i \in Slots :
                   files[q][i] = files[p][loc[p].i] => files[q][i] \in Std
  <2>1. pc[p] = "fk_store" /\ In(p, loc[p].i)
    BY <1>6 DEF copy_store_, Moves
  <2>2. loc[p].i >= loc[p].i
    BY <1>1, <2>1, Numbers DEF In
  <2>3. ~Shared(p, files[p][loc[p].i])
    BY <1>2, <2>1, <2>2 DEF ForkInv, ForkOf, ForkLabels, In
  <2> QED  BY <2>1, <2>3, SharedIs DEF In
<1>7. ASSUME NEW q \in Procs, NEW i \in Slots, NEW n \in Int, files[q][i] # NULL,
             Enough(files[q][i], n), q # p \/ ~copy_store_(p)
      PROVE  EnoughNext(files[q][i], n)
  BY <1>3, <1>6, <1>7, EnoughStep
<1> DEFINE Good(f) == EnoughNext(f, refcount'[f])
<1>8. ASSUME UNCHANGED refcount, ~copy_store_(p), NEW q \in Procs, NEW i \in Slots,
             files[q][i] # NULL
      PROVE  Good(files[q][i])
  BY <1>2, <1>3, <1>7, <1>8 DEF RefInv
<1>9. ASSUME NEW k \in Slots, NEW t \in Int, files[p][k] # NULL, Enough(files[p][k], t),
             copy_store_(p) => k = loc[p].i,
             refcount' = [refcount EXCEPT ![files[p][k]] = t + 1]
      PROVE  /\ \A q \in Procs, i \in Slots : files[q][i] # NULL => Good(files[q][i])
             /\ t + 1 >= 2
  <2>1. Good(files[p][k]) /\ t + 1 >= 2
    <3>1. t + 1 >= 2
      BY <1>9 DEF Enough
    <3>2. refcount'[files[p][k]] = t + 1
      BY <1>1, <1>3, <1>9
    <3> QED  BY <1>3, <1>9, <3>1, <3>2, EnoughStep
  <2>2. ASSUME NEW q \in Procs, NEW i \in Slots, files[q][i] # NULL,
               files[q][i] # files[p][k]
        PROVE  Good(files[q][i])
    <3>1. refcount'[files[q][i]] = refcount[files[q][i]]
      BY <1>1, <1>3, <1>9, <2>2
    <3>2. Enough(files[q][i], refcount[files[q][i]]) /\ Public(files[q][i])
      BY <1>2, <1>3, <2>2 DEF RefInv
    <3>3. ~(copy_store_(p) /\ files[q][i] = files[p][loc[p].i])
      BY <1>9, <2>2
    <3> QED  BY <1>3, <2>2, <3>1, <3>2, <3>3, EnoughStep
  <2> QED  BY <2>1, <2>2
<1>10. ASSUME NEW k \in Slots, NEW t \in Int, files[p][k] # NULL, Enough(files[p][k], t),
              files[p][k] \notin Std, ~copy_store_(p), files'[p][k] = NULL,
              refcount' = [refcount EXCEPT ![files[p][k]] = t - 1],
              NEW q \in Procs, NEW i \in Slots, files'[q][i] # NULL, files'[q][i] = files[q][i]
       PROVE  Good(files[q][i])
  <2> DEFINE g == files[p][k]
  <2>1. CASE files[q][i] = g
    <3>1. /\ refcount'[g] = t - 1 /\ Public(g) /\ file'[g] = file[g]
      BY <1>1, <1>3, <1>10
    <3>2. ~file[g].is_dupe
      BY <1>2, <1>10, <2>1 DEF SlotInv
    <3>3. t >= Cardinality(Refs(g))
      BY <1>10, <3>2 DEF Enough
    <3>4. /\ Cardinality(Refs(g)) \in Nat /\ Cardinality(RefsNext(g)) \in Nat
          /\ Cardinality(RefsNext(g)) <= Cardinality(Refs(g)) - 1
      BY <1>10, <3>1, RefsStep
    <3>5. Cardinality(RefsNext(g)) # 0
      <4>1. <<q, i>> \in RefsNext(g) /\ RefsNext(g) \in SUBSET (Procs \X Slots)
        BY <1>10, <2>1 DEF RefsNext
      <4>2. IsFiniteSet(RefsNext(g))
        BY <1>1, <4>1, SomeProcs
      <4> QED  BY <4>1, <4>2, FS_EmptySet
    <3> HIDE DEF g
    <3>6. t - 1 >= 1 /\ t - 1 >= Cardinality(RefsNext(g))
      BY <1>10, <3>3, <3>4, <3>5
    <3> QED  BY <2>1, <3>1, <3>2, <3>6 DEF EnoughNext
  <2>2. CASE files[q][i] # g
    <3>1. refcount'[files[q][i]] = refcount[files[q][i]]
      BY <1>1, <1>3, <1>10, <2>2
    <3>2. Enough(files[q][i], refcount[files[q][i]])
      BY <1>2, <1>10 DEF RefInv
    <3> QED  BY <1>3, <1>7, <1>10, <3>1, <3>2
  <2> QED  BY <2>1, <2>2
<1>11. ASSUME dup_file_(p)
       PROVE  /\ \A f \in Files : f # next_struct => refcount'[f] = refcount[f]
              /\ \A q \in Procs, i \in Slots : files[q][i] # NULL => Good(files[q][i])
              /\ Good(next_struct) /\ PublicNext(next_struct)
  <2>1. /\ pc[p] = "dup_copy" /\ next_struct \in Files
        /\ refcount' = [refcount EXCEPT ![next_struct] = refcount[loc[p].f]]
        /\ file'[next_struct].is_dupe = TRUE
    BY <1>11 DEF dup_file_, Moves
  <2>2. \A f \in Files : f # next_struct => refcount'[f] = refcount[f]
    BY <1>1, <2>1
  <2>3. ~copy_store_(p)
    BY <2>1 DEF copy_store_, Moves
  <2>4. ASSUME NEW q \in Procs, NEW i \in Slots, files[q][i] # NULL PROVE Good(files[q][i])
    <3>1. refcount'[files[q][i]] = refcount[files[q][i]]
      BY <1>3, <2>2, <2>4
    <3>2. Enough(files[q][i], refcount[files[q][i]])
      BY <1>2, <2>4 DEF RefInv
    <3> QED  BY <1>3, <1>7, <2>3, <2>4, <3>1, <3>2
  <2>5. refcount'[next_struct] >= 2
    BY <1>1, <1>2, <2>1 DEF RefInv
  <2>6. refcount'[next_struct] \in Int
    <3>1. loc[p].f \in Files
      BY <1>2, <2>1 DEF ArgInv, ArgOf, UseLabels
    <3> QED  BY <1>1, <2>1, <3>1
  <2>7. Good(next_struct)
    BY <2>1, <2>5, <2>6 DEF EnoughNext
  <2>8. PublicNext(next_struct)
    <3>1. next_struct' = next_struct + 1 /\ InOpen' \subseteq InOpen /\ p \notin InOpen
      BY <1>11 DEF dup_file_, Moves, InOpen
    <3>2. \A q \in InOpen : loc[q].f \in 0 .. next_struct - 1 /\ loc'[q] = loc[q]
      BY <1>2, <1>11, <3>1, SameTypes
         DEF dup_file_, Moves, InOpen, PlaceInv, BaseInv, GlobalTableSound, StructTypes
    <3> QED  BY <1>1, <3>1, <3>2 DEF PublicNext
  <2> QED  BY <2>2, <2>4, <2>7, <2>8
<1>12. Stores(p)
  BY StoreStep
<1>13. ASSUME NEW q \in Procs, NEW i \in Slots, files'[q][i] # NULL, files'[q][i] = files[q][i]
       PROVE  Good(files'[q][i])
  BY <1>8, <1>9, <1>10, <1>11, <1>12, <1>13 DEF Stores
<1>14. \A f \in Files : ~PublicNext(f) => refcount'[f] = 1
  <2> SUFFICES ASSUME NEW f \in Files, ~PublicNext(f) PROVE refcount'[f] = 1
    OBVIOUS
  <2>1. ~Public(f)
    BY PublicStays
  <2>2. refcount[f] = 1 /\ \A k \in Slots : files[p][k] # NULL => files[p][k] # f
    BY <1>2, <1>3, <2>1 DEF RefInv
  <2>3. dup_file_(p) => f # next_struct
    BY <1>11
  <2> QED  BY <1>1, <1>3, <1>11, <1>12, <2>2, <2>3 DEF Stores
<1>15. \A f \in Std : refcount'[f] >= 1
  <2> SUFFICES ASSUME NEW f \in Std PROVE refcount'[f] >= 1
    OBVIOUS
  <2>1. refcount[f] >= 1 /\ f \in Files
    BY <1>1, <1>2 DEF RefInv
  <2>2. CASE \E k \in Slots, t \in Int :
               /\ files[p][k] # NULL /\ Enough(files[p][k], t)
               /\ copy_store_(p) => k = loc[p].i
               /\ refcount' = [refcount EXCEPT ![files[p][k]] = t + 1]
    <3>1. PICK k \in Slots, t \in Int :
               /\ files[p][k] # NULL /\ Enough(files[p][k], t)
               /\ copy_store_(p) => k = loc[p].i
               /\ refcount' = [refcount EXCEPT ![files[p][k]] = t + 1]
      BY <2>2
    <3>2. t + 1 >= 1
      BY <3>1 DEF Enough
    <3>3. refcount'[f] = IF f = files[p][k] THEN t + 1 ELSE refcount[f]
      BY <1>1, <2>1, <3>1
    <3> QED  BY <2>1, <3>2, <3>3
  <2>3. dup_file_(p) => f # next_struct
    BY <1>1, StdStructs DEF BaseInv, GlobalTableSound
  <2> QED  BY <1>1, <1>11, <1>12, <2>1, <2>2, <2>3 DEF Stores
<1>16. \A q \in Procs, i \in Slots : files'[q][i] # NULL => Good(files'[q][i])
  <2> SUFFICES ASSUME NEW q \in Procs, NEW i \in Slots, files'[q][i] # NULL
               PROVE  Good(files'[q][i])
    OBVIOUS
  <2>1. CASE files'[q][i] = files[q][i]
    BY <1>13, <2>1
  <2>2. CASE files'[q][i] \in Std
    BY <1>5, <1>15, <2>2 DEF EnoughNext
  <2>3. CASE open_put_(p) /\ q = p /\ files'[q][i] = loc[p].f
    <3> DEFINE f == loc[p].f
    <3>1. /\ p \in InOpen /\ f \in Files /\ refcount' = refcount /\ file' = file
          /\ Putting(p, f)
      BY <2>3 DEF open_put_, Moves, InOpen, SameStructs
    <3>2. ~Public(f) /\ refcount[f] = 1 /\ ~file[f].is_dupe
      BY <1>2, <3>1 DEF RefInv, PlaceInv, Public
    <3>3. \A r \in Procs, j \in Slots : files[r][j] # f
      BY <1>1, <1>3, <3>1, <3>2
    <3>4. PICK j \in Slots : files' = [files EXCEPT ![p][j] = f]
      BY <2>3, <3>1, <3>3 DEF Putting
    <3>5. \A r \in Procs, m \in Slots : files'[r][m] = f => r = p /\ m = j
      BY <1>1, <3>3, <3>4
    <3>6. RefsNext(f) \subseteq {<<p, j>>}
      BY <3>5 DEF RefsNext
    <3>7. Cardinality(RefsNext(f)) <= 1 
      <4>1. IsFiniteSet({<<p, j>>}) /\ Cardinality({<<p, j>>}) = 1
        BY FS_Singleton
      <4> QED  BY <3>6, <4>1, FS_Subset
    <3>8. Cardinality(RefsNext(f)) \in Nat
      <4>1. RefsNext(f) \in SUBSET (Procs \X Slots)
        BY DEF RefsNext
      <4> QED  BY <1>1, <4>1, SomeProcs
    <3> HIDE DEF f
    <3>9. Good(f)
      BY <3>1, <3>2, <3>7, <3>8 DEF EnoughNext
    <3> QED  BY <2>3, <3>9 DEF f
  <2>4. CASE dup_file_(p) /\ files'[q][i] = next_struct
    BY <1>11, <2>4
  <2>5. CASE copy_store_(p) /\ i = loc[p].i /\ files'[q][i] = files[p][i]
    <3>1. files[p][i] # NULL
      BY <2>5
    <3>2. ~dup_file_(p)
      BY <2>5 DEF dup_file_, copy_store_, Moves
    <3>3. PICK t \in Int : /\ Enough(files[p][i], t)
                           /\ refcount' = [refcount EXCEPT ![files[p][i]] = t + 1]
      BY <1>12, <2>5, <3>2 DEF Stores
    <3> HIDE DEF Good
    <3>4. Good(files[p][i])
      BY <1>9, <2>5, <3>1, <3>3
    <3> QED  BY <2>5, <3>4
  <2> QED  BY <2>1, <2>2, <2>3, <2>4, <2>5, TableStep DEF Filled
<1> HIDE DEF Good
<1>17. ASSUME NEW q \in Procs, q # p
       PROVE  /\ pc'[q] \in {"cg_store", "ca_store", "dup_store"} => EnoughNext(loc'[q].f, loc'[q].tmp)
              /\ pc'[q] = "fk_store" => EnoughNext(files'[q][loc'[q].i], loc'[q].tmp)
              /\ pc'[q] = "dup_copy" => refcount'[loc'[q].f] >= 2
  <2>1. pc'[q] \in {"cg_store", "ca_store", "dup_store", "fk_store", "dup_copy"} =>
           pc'[q] = pc[q] /\ files'[q] = files[q] /\ loc'[q] = loc[q]
    BY <1>17, Others DEF OtherStep
  <2>2. pc[q] \in UseLabels => loc[q].f \in Files /\ \E i \in Slots : files[q][i] = loc[q].f
    BY <1>2 DEF UseInv, UseOf, ArgInv, ArgOf
  <2>3. ASSUME pc'[q] \in {"cg_store", "ca_store", "dup_store"}
        PROVE  EnoughNext(loc'[q].f, loc'[q].tmp)
    <3>1. PICK i \in Slots : files[q][i] = loc[q].f
      BY <2>1, <2>2, <2>3 DEF UseLabels
    <3>2. Enough(loc[q].f, loc[q].tmp) /\ loc[q].f # NULL
      BY <1>1, <1>2, <2>1, <2>2, <2>3 DEF RefInv, UseLabels
    <3> QED  BY <1>4, <1>7, <1>17, <2>1, <2>3, <3>1, <3>2
  <2>4. ASSUME pc'[q] = "fk_store" PROVE EnoughNext(files'[q][loc'[q].i], loc'[q].tmp)
    <3>1. loc[q].i \in Slots /\ files[q][loc[q].i] # NULL
      BY <1>2, <2>1, <2>4 DEF ArgInv, ArgOf
    <3>2. Enough(files[q][loc[q].i], loc[q].tmp)
      BY <1>2, <2>1, <2>4 DEF RefInv
    <3> QED  BY <1>4, <1>7, <1>17, <2>1, <2>4, <3>1, <3>2
  <2>5. ASSUME pc'[q] = "dup_copy" PROVE refcount'[loc'[q].f] >= 2
    <3> DEFINE f == loc[q].f
    <3>1. pc[q] = "dup_copy" /\ loc'[q] = loc[q]
      BY <2>1, <2>5
    <3>2. f \in Files /\ refcount[f] >= 2 /\ \E i \in Slots : files[q][i] = f
      BY <1>2, <2>2, <3>1 DEF RefInv, UseLabels
    <3>3. ~Shared(q, f)
      BY <1>2, <3>1 DEF DupInv, DupOf, ArgInv, ArgOf
    <3>4. \A k \in Slots : files[p][k] = f => f \in Std
      BY <1>17, <3>3, SharedIs
    <3>5. dup_file_(p) => f # next_struct
      BY <1>1, <1>3, <3>2
    <3> HIDE DEF f
    <3>6. ASSUME NEW k \in Slots, NEW t \in Int, files[p][k] # NULL, Enough(files[p][k], t),
                 refcount' = [refcount EXCEPT ![files[p][k]] = t + 1]
          PROVE  refcount'[f] >= 2
      <4>1. t + 1 >= 2
        BY <3>6 DEF Enough
      <4>2. refcount'[f] = IF f = files[p][k] THEN t + 1 ELSE refcount[f]
        BY <1>1, <3>2, <3>6
      <4> QED  BY <3>2, <4>1, <4>2
    <3>7. refcount'[f] >= 2
      BY <1>1, <1>11, <1>12, <3>2, <3>4, <3>5, <3>6 DEF Stores
    <3> QED  BY <3>1, <3>7 DEF f
  <2> QED  BY <2>3, <2>4, <2>5
<1>18. /\ pc'[p] \in {"cg_store", "ca_store", "dup_store"} => EnoughNext(loc'[p].f, loc'[p].tmp)
       /\ pc'[p] = "fk_store" => EnoughNext(files'[p][loc'[p].i], loc'[p].tmp)
       /\ pc'[p] = "dup_copy" => refcount'[loc'[p].f] >= 2
  <2>1. ASSUME NEW k \in Slots, files[p][k] # NULL, ~copy_store_(p)
        PROVE  EnoughNext(files[p][k], refcount[files[p][k]])
    BY <1>2, <1>3, <1>7, <2>1 DEF RefInv
  <2>2. CASE close_load_(p)
    <3>1. /\ pc[p] = "cg_load" /\ pc'[p] = "cg_store" /\ loc'[p].f = loc[p].f
          /\ loc'[p].tmp = refcount[loc[p].f]
      BY <2>2 DEF close_load_, Moves
    <3>2. ~copy_store_(p) /\ loc[p].f # NULL /\ \E i \in Slots : files[p][i] = loc[p].f
      BY <1>1, <1>2, <3>1 DEF copy_store_, Moves, UseInv, UseOf, UseLabels, ArgInv, ArgOf
    <3> QED  BY <2>1, <3>1, <3>2
  <2>3. CASE close_all_load_(p)
    <3>1. /\ pc[p] = "ca_load" /\ pc'[p] = "ca_store" /\ loc'[p].f = loc[p].f
          /\ loc'[p].tmp = refcount[loc[p].f]
      BY <2>3 DEF close_all_load_, Moves
    <3>2. ~copy_store_(p) /\ loc[p].f # NULL /\ \E i \in Slots : files[p][i] = loc[p].f
      BY <1>1, <1>2, <3>1 DEF copy_store_, Moves, UseInv, UseOf, UseLabels, ArgInv, ArgOf
    <3> QED  BY <2>1, <3>1, <3>2
  <2>4. ASSUME NEW j \in Slots, copy_file_lock_(p, j)
        PROVE  pc'[p] = "dup_store" /\ EnoughNext(loc'[p].f, loc'[p].tmp)
    <3>1. /\ pc[p] = "dup_lock" /\ pc'[p] = "dup_store" /\ loc'[p].f = files[p][j]
          /\ loc'[p].tmp = refcount[files[p][j]] /\ In(p, j)
      BY <2>4 DEF copy_file_lock_, Moves
    <3>2. ~copy_store_(p)
      BY <3>1 DEF copy_store_, Moves
    <3> QED  BY <2>1, <3>1, <3>2 DEF In
  <2>5. ASSUME NEW j \in Slots, copy_lock_(p, j)
        PROVE  pc'[p] = "fk_store" /\ EnoughNext(files'[p][loc'[p].i], loc'[p].tmp)
    <3>1. /\ pc[p] = "fk_scan" /\ pc'[p] = "fk_store" /\ loc'[p].i = j /\ files' = files
          /\ loc'[p].tmp = refcount[files[p][j]] /\ In(p, j)
      BY <2>5 DEF copy_lock_, Moves
    <3>2. ~copy_store_(p)
      BY <3>1 DEF copy_store_, Moves
    <3> QED  BY <2>1, <3>1, <3>2 DEF In
  <2>6. ASSUME copy_file_store_(p) PROVE pc'[p] = "dup_copy" /\ refcount'[loc'[p].f] >= 2
    <3>1. /\ pc[p] = "dup_store" /\ pc'[p] = "dup_copy" /\ loc'[p].f = loc[p].f
          /\ loc[p].f \in Files /\ refcount' = [refcount EXCEPT ![loc[p].f] = loc[p].tmp + 1]
      BY <2>6 DEF copy_file_store_, Moves
    <3>2. loc[p].tmp >= 1 /\ loc[p].tmp \in Int
      BY <1>2, <1>4, <3>1 DEF RefInv, Enough
    <3>3. refcount'[loc[p].f] = loc[p].tmp + 1
      BY <1>1, <3>1
    <3> QED  BY <3>1, <3>2, <3>3
  <2>7. pc'[p] \in {"cg_store", "ca_store", "dup_store", "fk_store", "dup_copy"} =>
           \/ close_load_(p) \/ close_all_load_(p) \/ copy_file_store_(p)
           \/ \E j \in Slots : copy_file_lock_(p, j) \/ copy_lock_(p, j)
    <3> DEFINE Goal == pc'[p] \in {"cg_store", "ca_store", "dup_store", "fk_store", "dup_copy"} =>
                           \/ close_load_(p) \/ close_all_load_(p) \/ copy_file_store_(p)
                           \/ \E j \in Slots : copy_file_lock_(p, j) \/ copy_lock_(p, j)
    <3>10. ASSUME NEW v \in Vnodes, NEW can \in AccessModes, open_(p, v, can) PROVE Goal
      BY <3>10 DEF open_, Moves
    <3>11. CASE open_bad_flags_(p)
      BY <3>11 DEF open_bad_flags_
    <3>12. ASSUME NEW fd \in Fds, NEW j \in Slots, close_(p, fd, j) PROVE Goal
      BY <3>12 DEF close_, Moves
    <3>13. ASSUME NEW d \in DupFds, NEW j \in Slots, NEW b \in {"dup_lock", "cl_scan"},
                  dup2_(p, d, j, b)
           PROVE  Goal
      BY <3>13 DEF dup2_, Moves
    <3>14. ASSUME NEW mode \in {"r", "w"}, NEW j \in Slots, transfer_(p, mode, j) PROVE Goal
      BY <3>14 DEF transfer_, Moves
    <3>15. ASSUME NEW j \in Slots, lseek_(p, j) PROVE Goal
      BY <3>15 DEF lseek_, Moves
    <3>16. ASSUME NEW q \in Procs, fork_(p, q) PROVE Goal
      BY <3>16 DEF fork_
    <3>17. CASE exit_(p)
      BY <3>17 DEF exit_, Moves
    <3>18. CASE get_next_fd_(p)
      BY <3>18 DEF get_next_fd_, Moves
    <3>19. CASE open_put_(p)
      BY <3>19 DEF open_put_, Moves
    <3>20. ASSUME NEW j \in Slots, close_dupe_(p, j) PROVE Goal
      BY <3>20 DEF close_dupe_, Moves
    <3>21. ASSUME NEW j \in Slots, close_file_(p, j) PROVE Goal
      BY <3>21 DEF close_file_, Moves
    <3>22. CASE close_return_(p)
      BY <3>22 DEF close_return_, Moves
    <3>23. CASE close_dup_(p)
      BY <3>23 DEF close_dup_, Moves
    <3>24. CASE close_not_found_(p)
      BY <3>24 DEF close_not_found_, Back, Moves
    <3>25. ASSUME NEW i \in Slots, destroy_file_(p, i) PROVE Goal
      BY <3>25 DEF destroy_file_, Back, Moves
    <3>26. ASSUME NEW i \in Slots, close_shared_(p, i) PROVE Goal
      BY <3>26 DEF close_shared_, Moves
    <3>27. CASE close_load_(p)
      BY <3>27
    <3>28. CASE close_store_(p)
      BY <3>28 DEF close_store_, Back, Moves
    <3>29. ASSUME NEW j \in Slots, copy_file_lock_(p, j) PROVE Goal
      BY <3>29
    <3>30. CASE copy_file_store_(p)
      BY <3>30
    <3>31. CASE dup_file_(p)
      BY <3>31 DEF dup_file_, Moves
    <3>32. CASE transfer_over_(p)
      BY <3>32 DEF transfer_over_, Moves
    <3>33. CASE transfer_begin_(p)
      BY <3>33 DEF transfer_begin_, Moves
    <3>34. CASE transfer_end_(p)
      BY <3>34 DEF transfer_end_, Moves
    <3>35. CASE read_no_memory_(p)
      BY <3>35 DEF read_no_memory_, Moves
    <3>36. CASE lseek_over_(p)
      BY <3>36 DEF lseek_over_, Moves
    <3>37. CASE lseek_lock_(p)
      BY <3>37 DEF lseek_lock_, Moves
    <3>38. CASE lseek_set_(p)
      BY <3>38 DEF lseek_set_, Moves
    <3>39. ASSUME NEW j \in Slots, copy_lock_(p, j) PROVE Goal
      BY <3>39
    <3>40. CASE copy_store_(p)
      BY <3>40 DEF copy_store_, Moves
    <3>41. ASSUME NEW b \in {"user", "lost"}, fork_done_(p, b) PROVE Goal
      BY <3>41 DEF fork_done_
    <3>42. ASSUME NEW j \in Slots, exit_shared_(p, j) PROVE Goal
      BY <3>42 DEF exit_shared_, Moves
    <3>43. ASSUME NEW j \in Slots, exit_last_(p, j) PROVE Goal
      BY <3>43 DEF exit_last_, Moves
    <3>44. CASE close_all_load_(p)
      BY <3>44
    <3>45. CASE close_all_store_(p)
      BY <3>45 DEF close_all_store_, Back, Moves
    <3>46. CASE exit_done_(p)
      BY <3>46 DEF exit_done_, Moves
    <3> QED
      BY <3>10, <3>11, <3>12, <3>13, <3>14, <3>15, <3>16, <3>17, <3>18, <3>19, <3>20, <3>21,
         <3>22,
         <3>23, <3>24, <3>25, <3>26, <3>27, <3>28, <3>29, <3>30, <3>31, <3>32, <3>33, <3>34,
         <3>35,
         <3>36, <3>37, <3>38, <3>39, <3>40, <3>41, <3>42, <3>43, <3>44, <3>45, <3>46
         DEF Normal
  <2>8. CASE \E j \in Slots : copy_file_lock_(p, j)
    BY <2>4, <2>8
  <2>9. CASE \E j \in Slots : copy_lock_(p, j)
    BY <2>5, <2>9
  <2>10. CASE copy_file_store_(p)
    BY <2>6, <2>10
  <2> QED  BY <2>2, <2>3, <2>7, <2>8, <2>9, <2>10
<1>19. \A q \in Procs, i \in Slots : files'[q][i] # NULL =>
          EnoughNext(files'[q][i], refcount'[files'[q][i]])
  BY <1>16 DEF Good
<1>20. \A q \in Procs :
          /\ pc'[q] \in {"cg_store", "ca_store", "dup_store"} => EnoughNext(loc'[q].f, loc'[q].tmp)
          /\ pc'[q] = "fk_store" => EnoughNext(files'[q][loc'[q].i], loc'[q].tmp)
          /\ pc'[q] = "dup_copy" => refcount'[loc'[q].f] >= 2
  BY <1>17, <1>18
<1> QED
  BY <1>1, <1>14, <1>15, <1>19, <1>20
     DEF RefInv, Enough, EnoughNext, Refs, RefsNext, Public, PublicNext


-----------------------------------------------------------------------------
(* Whoever has the lock of a file has the file.                            *)
LEMMA Holder ==
    ASSUME BaseInv, CareInv, NEW f \in Files, file_lock[f] # NULL
    PROVE  \E q \in Procs : Holding(q, f) /\ \E k \in Slots : files[q][k] = f
<1>1. file_lock[f] \in Procs
  BY DEF BaseInv, GlobalTableSound, TypeOK
<1>2. Holding(file_lock[f], f)
  BY <1>1 DEF CareInv, LockInv
<1>3. ASSUME NEW q \in Procs, Holding(q, f) PROVE \E k \in Slots : files[q][k] = f
  <2>1. UseOf(q) /\ ArgOf(q)
    BY DEF CareInv, UseInv, BaseInv, ArgInv
  <2> QED  BY <1>3, <2>1 DEF Holding, UseOf, ArgOf, UseLabels
<1> QED  BY <1>1, <1>2, <1>3

(* No step of a careful program makes the kernel panic.                    *)
LEMMA NoPanic ==
    ASSUME BaseInv, Careful, CareInv, NEW p \in Procs, Call(p) \/ Step(p)
    PROVE  panic' = panic
<1>1. /\ files \in [Procs -> [Slots -> Files \cup {NULL}]] /\ NULL \notin Files
      /\ open_files \in [Slots -> Files \cup {NULL}]
      /\ setting \in Settings /\ NULL \notin Vnodes /\ file \in [Files -> FileRec]
  BY SameTypes, Numbers DEF BaseInv, GlobalTableSound, TableTypes, StructTypes
<1>2. /\ ~panic /\ ArgOf(p) /\ SlotInv /\ UseOf(p) /\ DupOf(p) /\ LockInv /\ NameInv
  BY DEF BaseInv, CareInv, ArgInv, UseInv, DupInv
<1>3. /\ \A i \in Slots : files[p][i] # NULL => files[p][i] \in live
      /\ \A fd, i : ~ReadsFreed(p, fd, i)
  BY <1>2 DEF SlotInv, ReadsFreed, Used
<1>4. pc[p] \in UseLabels => loc[p].f \in live /\ loc[p].f \in Files
  <2>1. pc[p] \in UseLabels => loc[p].f \in Files /\ \E i \in Slots : files[p][i] = loc[p].f
    BY <1>2 DEF UseOf, ArgOf
  <2> QED  BY <1>1, <1>3, <2>1
<1>5. CASE close_file_on_ptable(p)
  <2> DEFINE M == Matching(p, loc[p].fd, loc[p].i)
             j == First_(M)
             f == files[p][j]
  <2>1. pc[p] = "cl_scan" /\ M \in SUBSET Slots
    BY <1>5 DEF close_file_on_ptable, At, Matching, Used
  <2>2. M # {} => j \in Slots /\ f # NULL /\ f \in Files
    <3>1. M # {} => j \in M
      BY <1>1, <2>1, FirstLast
    <3>2. \A m \in M : m \in Slots /\ files[p][m] # NULL
      BY DEF Matching, Used
    <3> QED  BY <1>1, <3>1, <3>2
  <2>3. M # {} /\ file[f].is_dupe => file_lock[f] = NULL
    <3> SUFFICES ASSUME M # {}, file[f].is_dupe, file_lock[f] # NULL PROVE FALSE
      OBVIOUS
    <3>1. PICK q \in Procs : Holding(q, f) /\ \E k \in Slots : files[q][k] = f
      BY <2>2, Holder
    <3>2. q = p
      BY <1>2, <2>2, <3>1 DEF SlotInv
    <3> QED  BY <2>1, <3>1, <3>2 DEF Holding
  <2> HIDE DEF j, f, M
  <2> QED  BY <1>3, <1>5, <2>3 DEF close_file_on_ptable, M, j, f
<1>6. CASE destroy_file(p)
  <2> DEFINE k == loc[p].i
             S == GlobalSlot(file[files[p][k]].global_fd)
             i == Last_(S)
             f == open_files[i]
  <2>1. pc[p] = "cg_find" /\ S \in SUBSET Slots /\ S # {} /\ refcount[f] = 1
    BY <1>6 DEF destroy_file, At, GlobalSlot
  <2>2. i \in S
    BY <1>1, <2>1, FirstLast
  <2>3. i \in Slots /\ f # NULL /\ file[f].global_fd = file[files[p][k]].global_fd /\ f \in Files
    <3>1. \A m \in S : /\ m \in Slots /\ open_files[m] # NULL
                       /\ file[open_files[m]].global_fd = file[files[p][k]].global_fd
      BY DEF GlobalSlot
    <3> QED  BY <1>1, <2>2, <3>1
  <2> HIDE DEF i, S
  <2>4. /\ In(p, k) /\ f = files[p][k] /\ f \notin Std /\ ~file[f].is_dupe
        /\ file[f].vnode \in Vnodes
    BY <2>1, <2>3, Named
  <2>5. file_lock[f] = NULL
    <3> SUFFICES ASSUME file_lock[f] # NULL PROVE FALSE
      OBVIOUS
    <3>1. PICK q \in Procs : Holding(q, f) /\ \E m \in Slots : files[q][m] = f
      BY <2>3, Holder
    <3>2. q = p
      BY <2>1, <2>4, <3>1, OneRef DEF In
    <3> QED  BY <2>1, <3>1, <3>2 DEF Holding
  <2> HIDE DEF f, k
  <2> QED  BY <1>1, <1>6, <2>4, <2>5 DEF destroy_file, f, i, S, k
<1>7. CASE copy_file_lock(p)
  <2>1. p_filetable_lookup(p, loc[p].old) # NULL
    BY <1>2, <1>7 DEF copy_file_lock, At, ArgOf, DupOf
  <2> QED  BY <1>3, <1>7, <2>1 DEF copy_file_lock
<1>8. CASE transfer_begin(p)
  <2>1. pc[p] = "rw_lock"
    BY <1>8 DEF transfer_begin, At
  <2>2. loc[p].f \in live /\ file[loc[p].f].std \in Std \cup {-1}
    <3>1. loc[p].f \in live /\ file[loc[p].f] \in FileRec
      BY <1>1, <1>4, <2>1 DEF UseLabels
    <3> QED  BY <3>1 DEF FileRec
  <2>3. \/ file[loc[p].f].std = -1 \/ ReadsInput(loc[p].f, loc[p].mode)
        \/ WritesOutput(loc[p].f, loc[p].mode)
    BY <1>2, <2>1, <2>2 DEF UseOf, ReadsInput, WritesOutput, Std
  <2> QED  BY <1>8, <2>2, <2>3 DEF transfer_begin
<1>9. CASE lseek_lock(p)
  BY <1>4, <1>9 DEF lseek_lock, At, UseLabels
<1>10. CASE copy_lock(p)
  <2> DEFINE U == Used(p, loc[p].i)
  <2>1. U \in SUBSET Slots /\ U # {} /\ \A m \in U : files[p][m] # NULL
    BY <1>10 DEF copy_lock, Used
  <2>2. First_(U) \in U
    BY <1>1, <2>1, FirstLast
  <2>3. files[p][First_(U)] \in live
    BY <1>3, <2>1, <2>2
  <2> QED  BY <1>10, <2>3 DEF copy_lock
<1>11. CASE close_all_test(p)
  <2>1. ToClose(p) \in SUBSET Slots /\ ToClose(p) # {} /\ \A m \in ToClose(p) : files[p][m] # NULL
    BY <1>11 DEF close_all_test, ToClose, Used
  <2>2. First_(ToClose(p)) \in ToClose(p)
    BY <1>1, <2>1, FirstLast
  <2>3. files[p][NextUsed(p)] \in live
    BY <1>3, <2>1, <2>2 DEF NextUsed
  <2> QED  BY <1>11, <2>3 DEF close_all_test
<1>12. CASE Call(p)
  BY <1>3, <1>12 DEF Call, open, open_bad_flags, close, dup2, transfer, lseek, fork, exit
<1>13. CASE \/ get_next_fd(p) \/ open_put(p) \/ close_file_done(p) \/ close_not_found(p)
            \/ close_shared(p) \/ close_load(p) \/ close_store(p) \/ copy_file_store(p)
            \/ dup_file(p) \/ transfer_over(p) \/ transfer_end(p) \/ read_no_memory(p)
            \/ lseek_set(p) \/ copy_store(p) \/ fork_done(p) \/ close_all_load(p)
            \/ close_all_store(p) \/ exit_done(p)
  BY <1>13 DEF get_next_fd, open_put, close_file_done, close_not_found, close_shared,
               close_load, close_store, copy_file_store, dup_file, transfer_over,
               transfer_end, read_no_memory, lseek_set, copy_store, fork_done,
               close_all_load, close_all_store, exit_done
<1> QED
  BY <1>5, <1>6, <1>7, <1>8, <1>9, <1>10, <1>11, <1>12, <1>13 DEF Step

(* The invariant of careful programs holds at the start,                    *)
LEMMA CareInit == Init => CarefulInv
<1> SUFFICES ASSUME Init PROVE CareInv
  BY DEF CarefulInv
<1>1. /\ Slots \subseteq Nat /\ Std = {0, 1, 2} /\ Std \subseteq Slots /\ NULL \notin Slots
      /\ Std \subseteq Files /\ NULL \notin Files /\ NULL = -1 /\ NULL \notin Procs
      /\ setting \in Settings
  BY Numbers DEF Init
<1>2. /\ BaseInv /\ FdInv /\ PlaceInv /\ InOpen = {}
  <2>1. InOpen = {}
    BY DEF Init, InOpen
  <2> QED  BY <2>1, BaseInit DEF BaseInv
<1>3. /\ \A p \in Procs : /\ pc[p] \in {"user", "none"} /\ loc[p] = NoLocals
                         /\ loc[p].next = "" /\ loc[p].f = NULL
  BY DEF Init, NoLocals
<1>4. \A p \in Procs, i \in Slots :
         \/ files[p][i] = NULL
         \/ files[p][i] = i /\ i \in Std
  <2> TAKE p \in Procs, i \in Slots
  <2>1. CASE p = First
    <3>1. files[p] = FreshTable
      BY <2>1 DEF Init
    <3> QED  BY <3>1 DEF FreshTable
  <2>2. CASE p # First
    <3>1. files[p] = [j \in Slots |-> NULL]
      BY <2>2 DEF Init
    <3> QED  BY <3>1
  <2> QED  BY <2>1, <2>2
<1>5. \A f \in Std : /\ file[f].std = f /\ ~file[f].is_dupe /\ file[f].local_fd = f
                    /\ file[f].global_fd = -1 /\ refcount[f] = 1
  BY <1>1 DEF Init, create_std_file
<1>6. \A f \in 0 .. next_struct - 1 : f \in Std
  BY <1>1 DEF Init
<1>7. SlotInv
  BY <1>1, <1>4, <1>5 DEF SlotInv, Init
<1>8. NameInv
  <2>1. \A f \in Std : f # -1
    BY <1>1
  <2>2. \A p \in Procs : pc[p] # "op_put"
    BY <1>3
  <2> QED  BY <1>5, <1>6, <2>1, <2>2 DEF NameInv, NameOf
<1>9. RefInv
  <2>1. \A f \in Files : refcount[f] = 1
    BY DEF Init
  <2>2. \A f \in Std : Enough(f, 1)
    BY <1>5 DEF Enough
  <2>3. \A p \in Procs, i \in Slots : files[p][i] # NULL =>
           Enough(files[p][i], refcount[files[p][i]])
    <3>1. ASSUME NEW p \in Procs, NEW i \in Slots, files[p][i] # NULL
          PROVE  Enough(files[p][i], refcount[files[p][i]])
      <4>1. files[p][i] = i /\ i \in Std /\ i \in Files
        BY <1>1, <1>4, <3>1
      <4>2. refcount[i] = 1 /\ Enough(i, 1)
        BY <2>1, <2>2, <4>1
      <4> QED  BY <4>1, <4>2
    <3> QED  BY <3>1
  <2>4. \A f \in Std : refcount[f] >= 1
    BY <1>5
  <2> QED  BY <1>3, <2>1, <2>3, <2>4 DEF RefInv
<1>10. LockInv
  BY <1>1, <1>3 DEF LockInv, Init, Holding
<1>11. UseInv /\ DupInv /\ ForkInv
  BY <1>3 DEF UseInv, UseOf, DupInv, DupOf, ForkInv, ForkOf, UseLabels, GlobalLabels, ForkLabels
<1> QED  BY <1>7, <1>8, <1>9, <1>10, <1>11 DEF CareInv, Init

(* in a step that changes nothing,                                          *)
LEMMA CareStutter ==
    ASSUME CareInv, UNCHANGED vars
    PROVE  CareInv'
<1>1. /\ UNCHANGED <<next_struct, live, file, refcount, file_lock, pos, vn_refcount>>
      /\ UNCHANGED <<open_files, size, next_fd, global_file_lk, files, ops_lock, pc, loc, setting>>
      /\ panic' = panic
  BY DEF vars, structs, gtable, ptables
<1>2. Slots' = Slots
  BY <1>1 DEF Slots, OPEN_MAX
<1>3. SlotInv'
  BY <1>1, <1>2 DEF CareInv, SlotInv
<1>4. NameInv'
  BY <1>1, <1>2 DEF CareInv, NameInv, NameOf, Public, InOpen
<1>5. RefInv'
  BY <1>1, <1>2 DEF CareInv, RefInv, Enough, Public, InOpen, Refs
<1>6. LockInv'
  BY <1>1, <1>2 DEF CareInv, LockInv, Holding, InCall
<1>7. UseInv'
  BY <1>1, <1>2 DEF CareInv, UseInv, UseOf
<1>8. DupInv'
  <2>1. \A q, fd : p_filetable_lookup(q, fd)' = p_filetable_lookup(q, fd)
    BY <1>1, <1>2 DEF p_filetable_lookup, Matching, Used
  <2>2. \A q, f : Shared(q, f)' = Shared(q, f)
    BY <1>1, <1>2 DEF Shared, Refs
  <2>3. ASSUME NEW p \in Procs PROVE DupOf(p)'
    <3>1. DupOf(p)
      BY DEF CareInv, DupInv
    <3> QED  BY <1>1, <2>1, <2>2, <3>1 DEF DupOf
  <2> QED  BY <2>3 DEF DupInv
<1>9. ForkInv'
  BY <1>1, <1>2 DEF CareInv, ForkInv, ForkOf, Shared, Refs
<1> QED  BY <1>1, <1>3, <1>4, <1>5, <1>6, <1>7, <1>8, <1>9 DEF CareInv

(* and after every step of careful programs.                                *)
LEMMA CareNext ==
    ASSUME BaseInv, CarefulInv, [Next]_vars
    PROVE  CarefulInv'
<1>1. Careful' = Careful
  BY SameSetting
<1> SUFFICES ASSUME Careful, CareInv PROVE CareInv'
  BY <1>1 DEF CarefulInv
<1>2. CASE UNCHANGED vars
  BY <1>2, CareStutter
<1>3. ASSUME NEW p \in Procs, Call(p) \/ Step(p) PROVE CareInv'
  <2>1. panic' = panic /\ ~panic
    BY <1>3, NoPanic DEF CareInv
  <2>2. Normal(p)
    BY <1>3, <2>1, Cases DEF Panic
  <2> QED  BY <2>1, <2>2, SlotStep, NameStep, RefStep, LockStep, UseStep, DupStep, ForkStep
              DEF CareInv
<1> QED  BY <1>2, <1>3 DEF Next

(* Both invariants hold in every reachable state.                           *)
LEMMA CareAlways == Spec => [](BaseInv /\ CarefulInv)
<1>1. Init => BaseInv /\ CarefulInv
  BY BaseInit, CareInit
<1>2. BaseInv /\ CarefulInv /\ [Next]_vars => (BaseInv /\ CarefulInv)'
  BY BaseNext, CareNext
<1> QED  BY <1>1, <1>2, PTL DEF Spec

(* Careful programs, any number of them: no table entry points to a freed  *)
(* structure and the kernel does not panic, although close tests and       *)
(* lowers the counts under another lock than fork, dup2 and exit.          *)
THEOREM NothingUsedAfterClose == Spec => []NoUseAfterClose
<1>1. BaseInv /\ CarefulInv => NoUseAfterClose
  BY DEF CarefulInv, CareInv, SlotInv, NoUseAfterClose
<1> QED  BY <1>1, CareAlways, PTL

(* A process that waits for a lock waits for one whose holder can go on.   *)
LEMMA HolderMoves ==
    ASSUME BaseInv, CareInv, NEW p \in Procs, InCall(p), Blocked(p)
    PROVE  \E q \in Procs : InCall(q) /\ ~Blocked(q)
<1>1. /\ files \in [Procs -> [Slots -> Files \cup {NULL}]] /\ NULL \notin Files
      /\ setting \in Settings /\ global_file_lk \in Procs \cup {NULL}
  BY SameTypes, Numbers DEF BaseInv, GlobalTableSound, TableTypes, StructTypes
<1>2. ArgOf(p) /\ DupOf(p) /\ LockInv
  BY DEF BaseInv, CareInv, ArgInv, DupInv
<1>3. ASSUME global_file_lk # NULL PROVE \E q \in Procs : InCall(q) /\ ~Blocked(q)
  <2>1. PICK q \in Procs : global_file_lk = q
    BY <1>1, <1>3
  <2>2. pc[q] \in {"cg_load", "cg_store"}
    BY <1>2, <2>1 DEF LockInv
  <2> QED  BY <2>2 DEF InCall, Blocked
<1>4. ASSUME NEW f \in Files, file_lock[f] # NULL PROVE \E q \in Procs : InCall(q) /\ ~Blocked(q)
  <2>1. PICK q \in Procs : Holding(q, f)
    BY <1>4, Holder
  <2>2. pc[q] \in {"rw_io", "ls_set", "dup_store", "dup_copy", "ca_load", "ca_store", "fk_store"}
    BY <2>1 DEF Holding
  <2> QED  BY <2>2 DEF InCall, Blocked
<1>5. CASE pc[p] \in {"op_fd", "op_put", "cg_find"} /\ global_file_lk # NULL
  BY <1>3, <1>5
<1>6. CASE pc[p] \in {"rw_lock", "ls_lock"} /\ file_lock[loc[p].f] # NULL
  <2>1. loc[p].f \in Files
    BY <1>2, <1>6 DEF ArgOf, UseLabels
  <2> QED  BY <1>4, <1>6, <2>1
<1>7. CASE pc[p] = "dup_lock" /\ file_lock[p_filetable_lookup(p, loc[p].old)] # NULL
  <2>1. p_filetable_lookup(p, loc[p].old) # NULL
    BY <1>2, <1>7 DEF ArgOf, DupOf
  <2>2. p_filetable_lookup(p, loc[p].old) \in Files
    BY <1>1, <2>1, Lookup
  <2> QED  BY <1>4, <1>7, <2>2
<1>8. ASSUME NEW U \in SUBSET Slots, U # {}, \A i \in U : files[p][i] # NULL,
             file_lock[files[p][First_(U)]] # NULL
      PROVE  \E q \in Procs : InCall(q) /\ ~Blocked(q)
  <2>1. First_(U) \in U
    BY <1>1, <1>8, FirstLast
  <2>2. files[p][First_(U)] \in Files
    BY <1>1, <1>8, <2>1
  <2> QED  BY <1>4, <1>8, <2>2
<1>9. CASE /\ pc[p] = "fk_scan" /\ Used(p, loc[p].i) # {}
           /\ file_lock[files[p][First_(Used(p, loc[p].i))]] # NULL
  <2>1. Used(p, loc[p].i) \in SUBSET Slots /\ \A i \in Used(p, loc[p].i) : files[p][i] # NULL
    BY DEF Used
  <2> QED  BY <1>8, <1>9, <2>1
<1>10. CASE pc[p] = "ca_scan" /\ ToClose(p) # {} /\ file_lock[files[p][NextUsed(p)]] # NULL
  <2>1. ToClose(p) \in SUBSET Slots /\ \A i \in ToClose(p) : files[p][i] # NULL
    BY DEF Used, ToClose
  <2> QED  BY <1>8, <1>10, <2>1 DEF NextUsed
<1> QED  BY <1>5, <1>6, <1>7, <1>9, <1>10 DEF Blocked

(* Careful programs, any number of them: locks are held only inside calls, *)
(* and while there are calls, one of them is not waiting for a lock: the   *)
(* locks of open, close, dup2, read, write, lseek, fork and exit cannot    *)
(* block all of them for ever.                                             *)
THEOREM SomeCallGoesOn == Spec => []NoStuckCall
<1>1. BaseInv /\ CarefulInv => NoStuckCall
  <2> SUFFICES ASSUME BaseInv, CareInv
               PROVE  /\ \A p \in Procs : ~InCall(p) =>
                            ~ops_lock[p] /\ global_file_lk # p /\ \A f \in Files : file_lock[f] # p
                      /\ (\E p \in Procs : InCall(p)) => \E p \in Procs : InCall(p) /\ ~Blocked(p)
    BY DEF CarefulInv, NoStuckCall
  <2>1. \A p \in Procs : ~InCall(p) =>
           ~ops_lock[p] /\ global_file_lk # p /\ \A f \in Files : file_lock[f] # p
    BY DEF CareInv, LockInv, Holding, InCall
  <2>2. (\E p \in Procs : InCall(p)) => \E p \in Procs : InCall(p) /\ ~Blocked(p)
    BY HolderMoves
  <2> QED  BY <2>1, <2>2
<1> QED  BY <1>1, CareAlways, PTL

=============================================================================
