-------------------------- MODULE DescriptorProofs --------------------------
(***************************************************************************)
(* FileTable implements Descriptors for careful programs, for any number   *)
(* of processes, table slots and structures.  The invariant of FileProofs  *)
(* does not say which descriptor is in which slot and who shares a seek    *)
(* position; DescInv does.                                                 *)
(***************************************************************************)
EXTENDS FileProofs

(* No slot of p has the descriptor fd.                                     *)
Unused(p, fd) == \A i \in Slots : files[p][i] # NULL => file[files[p][i]].local_fd # fd

(* A descriptor is in one slot of its process, and open has given it out.  *)
NumberInv ==
    /\ \A p \in Procs, i \in Slots : files[p][i] # NULL =>
          /\ file[files[p][i]].local_fd < next_fd
          /\ \A j \in Slots : files[p][j] # NULL
                /\ file[files[p][j]].local_fd = file[files[p][i]].local_fd => i = j
    /\ \A p \in Procs : pc[p] = "op_put" =>
          file[loc[p].f].local_fd < next_fd /\ Unused(p, file[loc[p].f].local_fd)

(* close works on the slot with its descriptor, and when it is done there  *)
(* is no other; so dup2 finds the descriptor free.                         *)
ClosingOf(p) ==
    /\ pc[p] \in GlobalLabels /\ loc[p].next # "exit" =>
          file[files[p][loc[p].i]].local_fd = loc[p].fd
    /\ pc[p] = "cl_scan" => loc[p].i = 0 \/ Unused(p, loc[p].fd)
    /\ pc[p] \in {"dup_lock", "dup_store", "dup_copy"} => Unused(p, loc[p].fd)
    /\ loc[p].next = "dup2" => loc[p].fd < next_fd
ClosingInv == \A p \in Procs : ClosingOf(p)

(* The standard files are in their slots, also in the table of a child,    *)
(* which has besides what fork has copied.                                 *)
CopyInv ==
    /\ \A p \in Procs : pc[p] \notin {"none", "gone"} => \A i \in Std : files[p][i] = i
    /\ \A p \in Procs : pc[p] \in ForkLabels =>
          \A i \in Slots : i \notin Std =>
             files[loc[p].child][i] = IF i < loc[p].i THEN files[p][i] ELSE NULL

(* A seek position belongs to the file it was allocated for and to its     *)
(* duplicates.                                                             *)
SeekInv ==
    /\ \A f \in 0 .. next_struct - 1 : file[f].std = -1 =>
          /\ file[f].seek \in 0 .. next_struct - 1
          /\ ~file[f].is_dupe => file[f].seek = f
    /\ \A p \in InOpen, f \in 0 .. next_struct - 1 :
          file[f].std = -1 /\ file[f].seek = loc[p].f => f = loc[p].f

(* Two processes share a position only through one structure, whose lock   *)
(* keeps them apart: nobody moves the position of a transfer in progress.  *)
PosInv ==
    /\ \A p, q \in Procs, i, j \in Slots :
          /\ p # q /\ files[p][i] # NULL /\ files[q][j] # NULL
          /\ file[files[p][i]].std = -1 /\ file[files[q][j]].std = -1
          /\ file[files[p][i]].seek = file[files[q][j]].seek
          => files[p][i] = files[q][j]
    /\ \A p \in Procs : pc[p] = "rw_io" /\ file[loc[p].f].std = -1 =>
          loc[p].tmp = pos[file[loc[p].f].seek]

DescInv == NumberInv /\ ClosingInv /\ CopyInv /\ SeekInv /\ PosInv

-----------------------------------------------------------------------------
(* The label that a process is at tells its action.                        *)
LEMMA Doing ==
    ASSUME NEW p \in Procs, Call(p) \/ Step(p)
    PROVE  /\ pc[p] = "user" => Call(p)
           /\ pc[p] = "op_put" => open_put(p)
           /\ pc[p] = "cl_scan" => close_file_on_ptable(p) \/ close_file_done(p)
           /\ pc[p] = "dup_copy" => dup_file(p)
           /\ pc[p] = "rw_lock" => transfer_over(p) \/ transfer_begin(p)
           /\ pc[p] = "rw_io" => transfer_end(p) \/ read_no_memory(p)
           /\ pc[p] = "ls_set" => lseek_set(p)
           /\ pc[p] = "fk_scan" => copy_lock(p) \/ fork_done(p)
<1>1. Call(p) => pc[p] = "user"
  BY DEF Call, Enter, At, open, open_bad_flags, close, dup2, transfer, lseek, fork, exit
<1>2. /\ get_next_fd(p) => pc[p] = "op_fd"
      /\ open_put(p) => pc[p] = "op_put"
      /\ close_file_on_ptable(p) \/ close_file_done(p) => pc[p] = "cl_scan"
      /\ close_not_found(p) \/ destroy_file(p) \/ close_shared(p) => pc[p] = "cg_find"
      /\ close_load(p) => pc[p] = "cg_load"
      /\ close_store(p) => pc[p] = "cg_store"
      /\ copy_file_lock(p) => pc[p] = "dup_lock"
      /\ copy_file_store(p) => pc[p] = "dup_store"
      /\ dup_file(p) => pc[p] = "dup_copy"
  BY DEF At, get_next_fd, open_put, close_file_on_ptable, close_file_done, close_not_found,
         destroy_file, close_shared, close_load, close_store, copy_file_lock, copy_file_store,
         dup_file
<1>3. /\ transfer_over(p) \/ transfer_begin(p) => pc[p] = "rw_lock"
      /\ transfer_end(p) \/ read_no_memory(p) => pc[p] = "rw_io"
      /\ lseek_lock(p) => pc[p] = "ls_lock"
      /\ lseek_set(p) => pc[p] = "ls_set"
      /\ copy_lock(p) \/ fork_done(p) => pc[p] = "fk_scan"
      /\ copy_store(p) => pc[p] = "fk_store"
      /\ close_all_test(p) \/ exit_done(p) => pc[p] = "ca_scan"
      /\ close_all_load(p) => pc[p] = "ca_load"
      /\ close_all_store(p) => pc[p] = "ca_store"
  BY DEF At, transfer_over, transfer_begin, transfer_end, read_no_memory, lseek_lock, lseek_set,
         copy_lock, fork_done, copy_store, close_all_test, exit_done, close_all_load,
         close_all_store
<1>4. pc[p] # "user" => Step(p)
  BY <1>1
<1>5. pc[p] = "user" => Call(p)
  BY <1>2, <1>3 DEF Step
<1> QED  BY <1>2, <1>3, <1>4, <1>5 DEF Step

(* What the searches and the positions of a step are.                      *)
Details(p) ==
    /\ pc[p] = "user" /\ pc'[p] = "cl_scan" => loc'[p].i = 0
    /\ pc[p] = "user" /\ pc'[p] = "dup_lock" => Unused(p, loc'[p].fd)
    /\ pc[p] = "user" /\ pc'[p] = "ca_scan" => exit(p)
    /\ pc[p] = "cl_scan" /\ pc'[p] = "dup_lock" => Matching(p, loc[p].fd, loc[p].i) = {}
    /\ pc[p] = "rw_lock" /\ pc'[p] = "rw_io" /\ file[loc[p].f].std = -1 =>
          loc'[p].tmp = pos[file[loc[p].f].seek]
    /\ pc[p] = "fk_scan" /\ pc'[p] = "user" => fork_done(p)

(* These facts are in the actions, and not in their normal forms.          *)
LEMMA Detailed ==
    ASSUME BaseInv, Careful, NEW p \in Procs, Call(p) \/ Step(p), Normal(p)
    PROVE  Details(p)
<1>1. /\ pc \in [Procs -> Labels] /\ loc \in [Procs -> Locals] /\ setting \in Settings
  BY SameTypes DEF BaseInv, GlobalTableSound, LocalTypes
<1>2. CASE pc[p] = "user"
  <2>1. Call(p)
    BY <1>2, Doing
  <2>2. ASSUME NEW l, NEW b, Goto(p, b, l) PROVE pc'[p] = b /\ loc'[p] = l
    BY <1>1, <2>2 DEF Goto
  <2>3. ASSUME NEW v \in Vnodes, NEW can \in AccessModes, open(p, v, can) PROVE pc'[p] = "op_fd"
    BY <2>2, <2>3 DEF open
  <2>4. ASSUME open_bad_flags(p) PROVE FALSE
    BY <2>4 DEF open_bad_flags
  <2>5. ASSUME Panic PROVE pc'[p] = "user"
    BY <1>2, <2>5 DEF Panic
  <2>6. ASSUME NEW fd \in CloseFds, close(p, fd), pc'[p] # "user"
        PROVE  pc'[p] = "cl_scan" /\ loc'[p].i = 0
    <3>1. Goto(p, "cl_scan", [NoLocals EXCEPT !.fd = fd, !.next = "close"])
      BY <2>5, <2>6 DEF close
    <3>2. [NoLocals EXCEPT !.fd = fd, !.next = "close"].i = 0
      BY DEF NoLocals
    <3> QED  BY <2>2, <3>1, <3>2
  <2>7. ASSUME NEW d \in DupFds, dup2(p, d[1], d[2]), pc'[p] # "user"
        PROVE  /\ pc'[p] \in {"cl_scan", "dup_lock"} /\ loc'[p].i = 0
               /\ pc'[p] = "dup_lock" => Unused(p, loc'[p].fd)
    <3> DEFINE b == IF p_filetable_lookup(p, d[2]) = NULL THEN "dup_lock" ELSE "cl_scan"
               l == [NoLocals EXCEPT !.fd = d[2], !.old = d[1], !.next = "dup2"]
    <3>1. Goto(p, b, l)
      BY <2>5, <2>7 DEF dup2
    <3>2. l.i = 0 /\ l.fd = d[2]
      BY DEF NoLocals
    <3>3. b = "dup_lock" => Unused(p, d[2])
      BY <1>1, Lookup DEF Unused
    <3>4. b \in {"cl_scan", "dup_lock"}
      OBVIOUS
    <3> HIDE DEF b, l
    <3> QED  BY <2>2, <3>1, <3>2, <3>3, <3>4
  <2>8. ASSUME NEW fd, NEW mode, transfer(p, fd, mode) PROVE pc'[p] \in {"user", "rw_lock"}
    BY <2>2, <2>5, <2>8 DEF transfer
  <2>9. ASSUME NEW fd, lseek(p, fd) PROVE pc'[p] \in {"user", "ls_lock"}
    BY <2>2, <2>5, <2>9 DEF lseek
  <2>10. ASSUME NEW q \in Procs, fork(p, q) PROVE pc'[p] \in {"fk_scan", "new"}
    BY <1>1, <2>10 DEF fork
  <2>11. CASE exit(p)
    <3>1. pc'[p] = "ca_scan"
      BY <2>2, <2>11 DEF exit
    <3> QED  BY <1>2, <2>11, <3>1 DEF Details
  <2>12. CASE pc'[p] \in {"user", "op_fd", "rw_lock", "ls_lock", "fk_scan", "new"}
    BY <1>2, <2>12 DEF Details
  <2>13. CASE pc'[p] = "cl_scan" /\ loc'[p].i = 0
    BY <1>2, <2>13 DEF Details
  <2>14. CASE pc'[p] = "dup_lock" /\ Unused(p, loc'[p].fd)
    BY <1>2, <2>14 DEF Details
  <2> QED  BY <2>1, <2>3, <2>4, <2>6, <2>7, <2>8, <2>9, <2>10, <2>11, <2>12, <2>13, <2>14 DEF Call
<1>3. CASE pc[p] = "cl_scan"
  <2>1. CASE close_file_done(p)
    BY <1>3, <2>1 DEF close_file_done, Details
  <2>2. CASE close_file_on_ptable(p)
    <3>1. pc'[p] # "dup_lock"
      BY <1>1, <1>3, <2>2 DEF close_file_on_ptable, Panic, Goto
    <3> QED  BY <1>3, <3>1 DEF Details
  <2> QED  BY <1>3, <2>1, <2>2, Doing
<1>4. CASE pc[p] = "rw_lock"
  <2>1. CASE transfer_over(p)
    <3>1. pc'[p] = "user"
      BY <1>1, <2>1 DEF transfer_over, Return, Goto
    <3> QED  BY <1>4, <3>1 DEF Details
  <2>2. CASE transfer_begin(p) /\ ~Panic
    <3>1. loc' = [loc EXCEPT ![p] = [loc[p] EXCEPT !.tmp =
                    IF file[loc[p].f].std = -1 THEN pos[file[loc[p].f].seek] ELSE 0]]
      BY <2>2 DEF transfer_begin, Goto
    <3>2. file[loc[p].f].std = -1 => loc'[p].tmp = pos[file[loc[p].f].seek]
      BY <1>1, <3>1 DEF Locals
    <3> QED  BY <1>4, <3>2 DEF Details
  <2>3. CASE Panic
    BY <1>4, <2>3 DEF Panic, Details
  <2> QED  BY <1>4, <2>1, <2>2, <2>3, Doing
<1>5. CASE pc[p] = "fk_scan"
  <2>1. CASE copy_lock(p)
    <3>1. pc'[p] # "user"
      BY <1>1, <1>5, <2>1 DEF copy_lock, Panic, Goto
    <3> QED  BY <1>5, <3>1 DEF Details
  <2>2. CASE fork_done(p)
    BY <1>5, <2>2 DEF Details
  <2> QED  BY <1>5, <2>1, <2>2, Doing
<1> QED  BY <1>2, <1>3, <1>4, <1>5 DEF Details

(* The steps by which a process gets to a label.                           *)
LEMMA Arrives ==
    ASSUME NEW p \in Procs, Normal(p)
    PROVE  /\ pc'[p] = "op_put" => get_next_fd_(p)
           /\ pc'[p] = "cl_scan" =>
                 \/ \E fd \in Fds, j \in Slots : close_(p, fd, j)
                 \/ \E d \in DupFds, j \in Slots : dup2_(p, d, j, "cl_scan")
                 \/ \E j \in Slots : close_dupe_(p, j)
                 \/ Back(p, "ca_store") /\ loc[p].next # "exit"
                 \/ \E from \in GlobalLabels : Back(p, from) /\ pc[p] = from
                                               /\ loc[p].next # "exit"
           /\ pc'[p] \in GlobalLabels =>
                 \/ \E j \in Slots : close_file_(p, j) \/ close_shared_(p, j) \/ exit_last_(p, j)
                 \/ close_load_(p)
           /\ pc'[p] \in {"dup_lock", "dup_store", "dup_copy"} =>
                 \/ \E d \in DupFds, j \in Slots : dup2_(p, d, j, "dup_lock")
                 \/ close_dup_(p)
                 \/ \E j \in Slots : copy_file_lock_(p, j)
                 \/ copy_file_store_(p)
           /\ pc'[p] = "rw_io" => transfer_begin_(p)
           /\ pc'[p] \in ForkLabels =>
                 \/ \E q \in Procs : fork_(p, q)
                 \/ \E j \in Slots : copy_lock_(p, j)
                 \/ copy_store_(p)
           /\ pc'[p] \notin {"none", "new"}
           /\ pc'[p] = "gone" => exit_done_(p)
           /\ pc[p] \notin {"none", "gone"}
  BY DEF Normal, Moves, Back, GlobalLabels, ForkLabels, open_, open_bad_flags_, close_, dup2_,
         transfer_, lseek_, fork_, exit_, get_next_fd_, open_put_, close_dupe_, close_file_,
         close_return_, close_dup_, close_not_found_, destroy_file_, close_shared_, close_load_,
         close_store_, copy_file_lock_, copy_file_store_, dup_file_, transfer_over_,
         transfer_begin_, transfer_end_, read_no_memory_, lseek_over_, lseek_lock_, lseek_set_,
         copy_lock_, copy_store_, fork_done_, exit_shared_, exit_last_, close_all_load_,
         close_all_store_, exit_done_

(* The arguments of dup2, and the numbers of descriptors.                  *)
LEMMA DupArgs ==
    ASSUME NEW p \in Procs, Normal(p)
    PROVE  /\ loc'[p].next = "dup2" =>
                 \/ \E d \in DupFds, j \in Slots, b \in {"dup_lock", "cl_scan"} : dup2_(p, d, j, b)
                 \/ loc[p].next = "dup2" /\ loc'[p].fd = loc[p].fd
           /\ next_fd' = next_fd \/ (get_next_fd_(p) /\ next_fd' = next_fd + 1)
<1>1. loc'[p].next = "dup2" =>
         \/ \E d \in DupFds, j \in Slots, b \in {"dup_lock", "cl_scan"} : dup2_(p, d, j, b)
         \/ loc[p].next = "dup2" /\ loc'[p].fd = loc[p].fd
  BY DEF Normal, Args, Clear, Back, open_, open_bad_flags_, close_, transfer_, lseek_, fork_,
         exit_, get_next_fd_, open_put_, close_dupe_, close_file_, close_return_, close_dup_,
         close_not_found_, destroy_file_, close_shared_, close_load_, close_store_,
         copy_file_lock_, copy_file_store_, dup_file_, transfer_over_, transfer_begin_,
         transfer_end_, read_no_memory_, lseek_over_, lseek_lock_, lseek_set_, copy_lock_,
         copy_store_, fork_done_, exit_shared_, exit_last_, close_all_load_, close_all_store_,
         exit_done_
<1>2. next_fd' = next_fd \/ (get_next_fd_(p) /\ next_fd' = next_fd + 1)
  BY DEF Normal, SameGlobal, open_, open_bad_flags_, close_, dup2_, transfer_, lseek_, fork_,
         exit_, get_next_fd_, open_put_, close_dupe_, close_file_, close_return_, close_dup_,
         close_not_found_, destroy_file_, close_shared_, close_load_, close_store_,
         copy_file_lock_, copy_file_store_, dup_file_, transfer_over_, transfer_begin_,
         transfer_end_, read_no_memory_, lseek_over_, lseek_lock_, lseek_set_, copy_lock_,
         copy_store_, fork_done_, exit_shared_, exit_last_, close_all_load_, close_all_store_,
         exit_done_
<1> QED  BY <1>1, <1>2

(* Positions are moved by the ends of transfers and by lseek.              *)
LEMMA PosKept ==
    ASSUME NEW p \in Procs, Normal(p)
    PROVE  pos' = pos \/ transfer_end_(p) \/ lseek_set_(p)
  BY DEF Normal, SameStructs, open_, open_bad_flags_, close_, dup2_, transfer_, lseek_, fork_,
         exit_, get_next_fd_, open_put_, close_dupe_, close_file_, close_return_, close_dup_,
         close_not_found_, destroy_file_, close_shared_, close_load_, close_store_,
         copy_file_lock_, copy_file_store_, dup_file_, transfer_over_, transfer_begin_,
         transfer_end_, read_no_memory_, lseek_over_, lseek_lock_, lseek_set_, copy_lock_,
         copy_store_, fork_done_, exit_shared_, exit_last_, close_all_load_, close_all_store_,
         exit_done_

(* What careful programs have in their tables stays as it is.              *)
Facts(p) ==
    /\ files \in [Procs -> [Slots -> Files \cup {NULL}]] /\ NULL \notin Files
    /\ setting \in Settings /\ Slots' = Slots /\ next_fd \in Nat /\ next_struct \in Nat
    /\ ArgInv /\ ChildInv /\ PlaceInv /\ SlotInv /\ NameInv
    /\ \A q \in Procs, i \in Slots : files[q][i] # NULL =>
          Public(files[q][i]) /\ file'[files[q][i]] = file[files[q][i]]
    /\ \A q \in Procs \ {p} : OtherStep(q)
    /\ next_fd' \in Nat /\ next_fd <= next_fd'
    /\ Std = {0, 1, 2} /\ Std \subseteq Slots /\ NULL = -1 /\ Slots \subseteq Nat

(* These facts hold of every step of a careful program.                    *)
LEMMA Known ==
    ASSUME BaseInv, CareInv, NEW p \in Procs, Normal(p)
    PROVE  Facts(p)
<1>1. /\ files \in [Procs -> [Slots -> Files \cup {NULL}]] /\ NULL \notin Files
      /\ setting \in Settings /\ Slots' = Slots /\ next_fd \in Nat /\ next_struct \in Nat
      /\ Std = {0, 1, 2} /\ Std \subseteq Slots /\ NULL = -1 /\ Slots \subseteq Nat
  BY Others, SameTypes, Numbers DEF BaseInv, GlobalTableSound, TableTypes, StructTypes
<1>2. ArgInv /\ ChildInv /\ PlaceInv /\ SlotInv /\ NameInv
  BY DEF BaseInv, CareInv
<1>3. \A q \in Procs, i \in Slots : files[q][i] # NULL =>
         Public(files[q][i]) /\ file'[files[q][i]] = file[files[q][i]]
  BY <1>2, KeepPublic DEF PlaceInv
<1>4. next_fd' \in Nat /\ next_fd <= next_fd'
  BY <1>1, DupArgs
<1> QED  BY <1>1, <1>2, <1>3, <1>4, Others DEF Facts

(* Each table has a descriptor once.                                       *)
NumberOf(q, i) == files'[q][i] # NULL =>
    /\ file'[files'[q][i]].local_fd < next_fd'
    /\ \A j \in Slots : files'[q][j] # NULL
          /\ file'[files'[q][j]].local_fd = file'[files'[q][i]].local_fd => i = j

(* open, dup2 and fork put descriptors into a table that it does not have. *)
LEMMA NumberStep ==
    ASSUME BaseInv, Careful, CareInv, DescInv, NEW p \in Procs, Normal(p)
    PROVE  NumberInv'
<1>1. Facts(p)
  BY Known
<1>2. NumberInv /\ ClosingOf(p) /\ CopyInv
  BY DEF DescInv, ClosingInv
<1>3. \A q \in Procs, i \in Slots : files[q][i] # NULL =>
         file'[files[q][i]].local_fd \in Int /\ file[files[q][i]].local_fd \in Int
  BY <1>1 DEF Facts, BaseInv, GlobalTableSound, TypeOK, FileRec, Fds
<1>4. ASSUME NEW q \in Procs, \A i \in Slots : files'[q][i] \in {files[q][i], NULL}
      PROVE  \A i \in Slots : NumberOf(q, i)
  <2>1. \A i \in Slots : files'[q][i] # NULL =>
           /\ files'[q][i] = files[q][i]
           /\ file'[files'[q][i]].local_fd = file[files[q][i]].local_fd
           /\ file[files[q][i]].local_fd \in Int /\ file[files[q][i]].local_fd < next_fd
    BY <1>1, <1>2, <1>3, <1>4 DEF NumberInv, Facts
  <2>2. next_fd \in Nat /\ next_fd' \in Nat /\ next_fd <= next_fd'
    BY <1>1 DEF Facts
  <2>3. \A i, j \in Slots : files[q][i] # NULL /\ files[q][j] # NULL
           /\ file[files[q][j]].local_fd = file[files[q][i]].local_fd => i = j
    BY <1>2 DEF NumberInv
  <2> QED  BY <2>1, <2>2, <2>3 DEF NumberOf
<1>5. ASSUME NEW f, NEW k \in Slots, files[p][k] = NULL, files' = [files EXCEPT ![p][k] = f],
             file'[f].local_fd < next_fd', Unused(p, file'[f].local_fd)
      PROVE  \A q \in Procs, i \in Slots : NumberOf(q, i)
  <2>1. ASSUME NEW q \in Procs, q # p PROVE \A i \in Slots : NumberOf(q, i)
    BY <1>1, <1>4, <1>5, <2>1 DEF Facts
  <2>2. /\ files'[p][k] = f /\ \A i \in Slots \ {k} : files'[p][i] = files[p][i]
    BY <1>1, <1>5 DEF Facts
  <2>3. ASSUME NEW i \in Slots PROVE NumberOf(p, i)
    BY <1>1, <1>2, <1>3, <1>5, <2>2 DEF NumberInv, NumberOf, Facts, Unused
  <2> QED  BY <2>1, <2>3
<1>6. \A q \in Procs, i \in Slots : NumberOf(q, i)
  <2>1. CASE open_put_(p)
    <3>1. pc[p] = "op_put" /\ file' = file /\ next_fd' = next_fd /\ Putting(p, loc[p].f)
      BY <2>1 DEF open_put_, Moves, SameStructs
    <3>2. file[loc[p].f].local_fd < next_fd /\ Unused(p, file[loc[p].f].local_fd)
      BY <1>2, <3>1 DEF NumberInv
    <3> QED  BY <1>4, <1>5, <3>1, <3>2 DEF Putting
  <2>2. CASE dup_file_(p)
    <3>1. /\ pc[p] = "dup_copy" /\ file'[next_struct].local_fd = loc[p].fd
          /\ next_fd' = next_fd /\ Putting(p, next_struct)
      BY <2>2 DEF dup_file_, Moves, SameGlobal
    <3>2. loc[p].fd < next_fd /\ Unused(p, loc[p].fd)
      BY <1>1, <1>2, <3>1 DEF ClosingOf, Facts, ArgInv, ArgOf
    <3> QED  BY <1>4, <1>5, <3>1, <3>2 DEF Putting
  <2>3. ASSUME NEW r \in Procs, fork_(p, r) PROVE \A q \in Procs, i \in Slots : NumberOf(q, i)
    <3>1. files' = [files EXCEPT ![r] = FreshTable]
      BY <2>3 DEF fork_
    <3>2. ASSUME NEW i \in Slots, files'[r][i] # NULL
          PROVE  i \in Std /\ files'[r][i] = i
      BY <1>1, <3>1, <3>2 DEF FreshTable, Facts
    <3>3. \A i \in Std : file'[i].local_fd = i /\ i < next_fd'
      <4>1. file' = file /\ next_fd' = next_fd
        BY <2>3 DEF fork_, SameStructs, SameGlobal
      <4>2. next_struct >= 3 /\ next_fd >= 3
        BY DEF BaseInv, GlobalTableSound, TypeOK
      <4>3. \A i \in Std : i \in 0 .. next_struct - 1
        BY <1>1, <4>2 DEF Facts
      <4> QED  BY <1>1, <4>1, <4>2, <4>3 DEF Facts, NameInv, NameOf
    <3>4. \A i \in Slots : NumberOf(r, i)
      BY <1>1, <3>2, <3>3 DEF NumberOf, Facts
    <3>5. ASSUME NEW q \in Procs, q # r PROVE \A i \in Slots : NumberOf(q, i)
      BY <1>1, <1>4, <3>1, <3>5 DEF Facts
    <3> QED  BY <3>4, <3>5
  <2>4. CASE copy_store_(p)
    <3> DEFINE c == loc[p].child
               k == loc[p].i
    <3>1. /\ pc[p] = "fk_store" /\ k \in Slots /\ files[p][k] # NULL /\ c \in Procs
          /\ files' = [files EXCEPT ![c][k] = files[p][k]]
      BY <2>4 DEF copy_store_, In, Moves
    <3>2. pc[c] = "new"
      BY <1>1, <3>1 DEF Facts, ChildInv, ForkLabels
    <3>3. \A i \in Std : files[c][i] = i /\ files[p][i] = i
      BY <1>2, <3>1, <3>2 DEF CopyInv
    <3>4. \A i \in Slots : i \notin Std => files[c][i] \in {files[p][i], NULL}
      BY <1>2, <3>1 DEF CopyInv, ForkLabels
    <3>5. \A i \in Slots : files'[c][i] \in {files[p][i], NULL}
      BY <1>1, <3>1, <3>3, <3>4 DEF Facts
    <3>6. \A i \in Slots : NumberOf(c, i)
      <4> HIDE DEF c, k
      <4> QED  BY <1>1, <1>2, <1>3, <3>1, <3>5 DEF NumberInv, NumberOf, Facts
    <3>7. ASSUME NEW q \in Procs, q # c PROVE \A i \in Slots : NumberOf(q, i)
      BY <1>1, <1>4, <3>1, <3>7 DEF Facts
    <3> QED  BY <3>6, <3>7
  <2>5. CASE /\ ~open_put_(p) /\ ~dup_file_(p) /\ ~copy_store_(p)
             /\ \A r \in Procs : ~fork_(p, r)
    BY <1>4, <2>5, TableStep DEF Filled
  <2> QED  BY <2>1, <2>2, <2>3, <2>4, <2>5
<1>7. ASSUME NEW q \in Procs, pc'[q] = "op_put"
      PROVE  /\ file'[loc'[q].f].local_fd < next_fd'
             /\ \A i \in Slots : files'[q][i] # NULL =>
                   file'[files'[q][i]].local_fd # file'[loc'[q].f].local_fd
  <2>1. CASE q = p
    <3>1. get_next_fd_(p)
      BY <1>7, <2>1, Arrives
    <3>2. /\ files' = files /\ file'[loc[p].f].local_fd = next_fd /\ loc'[p] = loc[p]
          /\ next_fd' = next_fd + 1
      BY <3>1 DEF get_next_fd_
    <3> QED  BY <1>1, <1>2, <1>3, <2>1, <3>2 DEF NumberInv, Facts
  <2>2. CASE q # p
    <3>1. pc[q] = "op_put" /\ files'[q] = files[q] /\ loc'[q] = loc[q]
      BY <1>1, <1>7, <2>2 DEF Facts, OtherStep
    <3>2. file'[loc[q].f] = file[loc[q].f]
      <4>1. q \in InOpen /\ loc[q].f \in live
        BY <1>1, <3>1 DEF InOpen, Facts, PlaceInv
      <4>2. loc[q].f \in 0 .. next_struct - 1
        BY <4>1 DEF BaseInv, GlobalTableSound, TypeOK
      <4>3. get_next_fd_(p) => p \in InOpen
        BY DEF get_next_fd_, Moves, InOpen
      <4> QED  BY <1>1, <2>2, <4>1, <4>2, <4>3, KeepFile DEF Facts, PlaceInv
    <3>3. file[loc[q].f].local_fd < next_fd /\ Unused(q, file[loc[q].f].local_fd)
      BY <1>2, <3>1 DEF NumberInv
    <3>4. file[loc[q].f].local_fd \in Int
      <4>1. loc[q].f \in Files
        BY <1>1, <3>1 DEF Facts, ArgInv, ArgOf, OpenLabels
      <4> QED  BY <4>1 DEF BaseInv, GlobalTableSound, TypeOK, FileRec, Fds
    <3> QED  BY <1>1, <3>1, <3>2, <3>3, <3>4 DEF Unused, Facts
  <2> QED  BY <2>1, <2>2
<1> QED  BY <1>1, <1>6, <1>7 DEF NumberInv, NumberOf, Unused, Facts

(* What ClosingOf says after the step.                                     *)
UnusedNext(p, fd) == \A i \in Slots : files'[p][i] # NULL => file'[files'[p][i]].local_fd # fd
ClosingNext(p) ==
    /\ pc'[p] \in GlobalLabels /\ loc'[p].next # "exit" =>
          file'[files'[p][loc'[p].i]].local_fd = loc'[p].fd
    /\ pc'[p] = "cl_scan" => loc'[p].i = 0 \/ UnusedNext(p, loc'[p].fd)
    /\ pc'[p] \in {"dup_lock", "dup_store", "dup_copy"} => UnusedNext(p, loc'[p].fd)
    /\ loc'[p].next = "dup2" => loc'[p].fd < next_fd'

(* A close that is done has removed the only slot with its descriptor.     *)
LEMMA ClosingStep ==
    ASSUME BaseInv, Careful, CareInv, DescInv, NEW p \in Procs, Normal(p), Details(p)
    PROVE  ClosingInv'
<1>1. Facts(p)
  BY Known
<1>2. NumberInv /\ ClosingInv /\ ArgInv /\ ArgOf(p) /\ ClosingOf(p)
  BY DEF DescInv, ClosingInv, BaseInv, ArgInv
<1>3. loc \in [Procs -> Locals]
  BY SameTypes DEF BaseInv, GlobalTableSound, LocalTypes
<1>4. \A q \in Procs : loc[q].next = "dup2" => loc[q].fd < next_fd /\ loc[q].fd \in Int
  <2>1. \A q \in Procs : loc[q].fd \in Int
    <3>1. Fds \subseteq Nat /\ NULL = -1
      BY <1>1, Numbers DEF Facts
    <3>2. \A x \in Fds : x \in Int
      BY <3>1
    <3>3. \A q \in Procs : loc[q].fd \in Fds \/ loc[q].fd = -1
      BY <1>3, <3>1, SetLocals
    <3> QED  BY <3>2, <3>3
  <2> QED  BY <1>2, <2>1 DEF ClosingInv, ClosingOf
<1>5. ASSUME NEW q \in Procs, NEW fd, files'[q] = files[q]
      PROVE  UnusedNext(q, fd) <=> Unused(q, fd)
  <2>1. \A i \in Slots : files'[q][i] = files[q][i]
    BY <1>5
  <2>2. \A i \in Slots : files[q][i] # NULL => file'[files[q][i]] = file[files[q][i]]
    BY <1>1 DEF Facts
  <2> QED  BY <2>1, <2>2 DEF Unused, UnusedNext
<1>6. ASSUME NEW q \in Procs, q # p PROVE ClosingNext(q)
  <2>1. OtherStep(q) /\ ClosingOf(q) /\ ArgOf(q)
    BY <1>1, <1>2, <1>6 DEF ClosingInv, ArgInv, Facts
  <2>2. loc'[q] = loc[q] /\ (loc'[q].next = "dup2" => loc'[q].fd < next_fd')
    BY <1>1, <1>4, <2>1 DEF OtherStep, Facts
  <2>3. CASE pc'[q] = pc[q] /\ files'[q] = files[q]
    <3>1. pc[q] \in GlobalLabels => loc[q].i \in Slots /\ files[q][loc[q].i] # NULL
      BY <2>1 DEF ArgOf
    <3>2. pc[q] \in GlobalLabels =>
             file'[files[q][loc[q].i]].local_fd = file[files[q][loc[q].i]].local_fd
      BY <1>1, <3>1 DEF Facts
    <3>3. \A fd : UnusedNext(q, fd) <=> Unused(q, fd)
      BY <1>5, <2>3
    <3> QED  BY <2>1, <2>2, <2>3, <3>2, <3>3 DEF ClosingNext, ClosingOf
  <2>4. CASE pc'[q] \in {"new", "user", "lost"}
    BY <2>2, <2>4 DEF ClosingNext, GlobalLabels
  <2> QED  BY <2>1, <2>3, <2>4 DEF OtherStep
<1>7. loc'[p].next = "dup2" => loc'[p].fd < next_fd'
  <2>1. ASSUME NEW d \in DupFds, NEW j \in Slots, NEW b \in {"dup_lock", "cl_scan"},
               dup2_(p, d, j, b)
        PROVE  loc'[p].fd < next_fd'
    <3>1. /\ loc'[p].fd = d[2] /\ MayDup(p, d[1], d[2]) /\ next_fd' = next_fd
      BY <2>1 DEF dup2_, SameGlobal
    <3> QED  BY <1>1, <3>1 DEF MayDup, Facts
  <2> QED  BY <1>1, <1>4, <2>1, DupArgs DEF Facts
<1>8. ASSUME pc'[p] \in GlobalLabels, loc'[p].next # "exit"
      PROVE  file'[files'[p][loc'[p].i]].local_fd = loc'[p].fd
  <2>1. ASSUME NEW j \in Slots, close_file_(p, j)
        PROVE  file'[files'[p][loc'[p].i]].local_fd = loc'[p].fd
    BY <2>1 DEF close_file_, Args, SameStructs
  <2>2. ASSUME NEW j \in Slots, close_shared_(p, j)
        PROVE  file'[files'[p][loc'[p].i]].local_fd = loc'[p].fd
    BY <1>2, <1>8, <2>2 DEF close_shared_, Args, SameStructs, Moves, ClosingOf, GlobalLabels
  <2>3. ASSUME NEW j \in Slots, exit_last_(p, j) PROVE FALSE
    BY <1>2, <1>8, <2>3 DEF exit_last_, Args, Moves, ArgOf
  <2>4. CASE close_load_(p)
    BY <1>2, <1>8, <2>4 DEF close_load_, Args, SameStructs, Moves, ClosingOf, GlobalLabels
  <2> QED  BY <1>8, <2>1, <2>2, <2>3, <2>4, Arrives
<1>9. ASSUME NEW k \in Slots, files[p][k] # NULL, file[files[p][k]].local_fd = loc[p].fd,
             files' = [files EXCEPT ![p][k] = NULL]
      PROVE  UnusedNext(p, loc[p].fd)
  BY <1>1, <1>2, <1>9 DEF Facts, NumberInv, UnusedNext
<1>10. ASSUME pc'[p] = "cl_scan" PROVE loc'[p].i = 0 \/ UnusedNext(p, loc'[p].fd)
  <2>1. ASSUME pc[p] = "user" PROVE loc'[p].i = 0
    BY <1>10, <2>1 DEF Details
  <2>2. ASSUME NEW fd, NEW j, close_(p, fd, j) PROVE pc[p] = "user"
    BY <2>2 DEF close_, Moves
  <2>3. ASSUME NEW d, NEW j, dup2_(p, d, j, "cl_scan") PROVE pc[p] = "user"
    BY <2>3 DEF dup2_, Moves
  <2>4. ASSUME NEW j \in Slots, close_dupe_(p, j) PROVE UnusedNext(p, loc'[p].fd)
    <3>1. /\ files[p][j] # NULL /\ file[files[p][j]].local_fd = loc[p].fd
          /\ files' = [files EXCEPT ![p][j] = NULL] /\ loc'[p].fd = loc[p].fd
      BY <2>4 DEF close_dupe_, In, Args
    <3> QED  BY <1>9, <3>1
  <2>5. ASSUME Back(p, "ca_store"), loc[p].next # "exit" PROVE FALSE
    BY <1>2, <2>5 DEF Back, Moves, ArgOf
  <2>6. ASSUME NEW from \in GlobalLabels, Back(p, from), pc[p] = from, loc[p].next # "exit"
        PROVE  UnusedNext(p, loc'[p].fd)
    <3>1. /\ loc[p].i \in Slots /\ files[p][loc[p].i] # NULL
          /\ files' = [files EXCEPT ![p][loc[p].i] = NULL] /\ loc'[p].fd = loc[p].fd
      BY <2>6 DEF Back, In, Args
    <3>2. file[files[p][loc[p].i]].local_fd = loc[p].fd
      BY <1>2, <2>6 DEF ClosingOf
    <3> QED  BY <1>9, <3>1, <3>2
  <2> QED  BY <1>10, <2>1, <2>2, <2>3, <2>4, <2>5, <2>6, Arrives
<1>11. ASSUME pc'[p] \in {"dup_lock", "dup_store", "dup_copy"} PROVE UnusedNext(p, loc'[p].fd)
  <2>1. ASSUME NEW d \in DupFds, NEW j \in Slots, dup2_(p, d, j, "dup_lock")
        PROVE  UnusedNext(p, loc'[p].fd)
    <3>1. pc[p] = "user" /\ pc'[p] = "dup_lock" /\ files' = files
      BY <2>1 DEF dup2_, Moves
    <3> QED  BY <1>5, <3>1 DEF Details
  <2>2. CASE close_dup_(p)
    <3>1. pc[p] = "cl_scan" /\ pc'[p] = "dup_lock" /\ files' = files /\ loc'[p].fd = loc[p].fd
      BY <2>2 DEF close_dup_, Moves, Args
    <3>2. Matching(p, loc[p].fd, loc[p].i) = {} /\ (loc[p].i = 0 \/ Unused(p, loc[p].fd))
      BY <1>2, <3>1 DEF Details, ClosingOf
    <3>3. Unused(p, loc[p].fd)
      <4>1. \A i \in Slots : i >= 0
        BY <1>1 DEF Facts
      <4> QED  BY <3>2, <4>1 DEF Matching, Used, Unused
    <3> QED  BY <1>5, <3>1, <3>3
  <2>3. ASSUME NEW j \in Slots, copy_file_lock_(p, j) PROVE UnusedNext(p, loc'[p].fd)
    BY <1>2, <1>5, <2>3 DEF copy_file_lock_, Moves, Args, ClosingOf
  <2>4. CASE copy_file_store_(p)
    BY <1>2, <1>5, <2>4 DEF copy_file_store_, Moves, Args, ClosingOf
  <2> QED  BY <1>11, <2>1, <2>2, <2>3, <2>4, Arrives
<1>12. \A q \in Procs : ClosingNext(q)
  BY <1>6, <1>7, <1>8, <1>10, <1>11 DEF ClosingNext
<1> QED  BY <1>1, <1>12 DEF ClosingInv, ClosingOf, ClosingNext, Unused, UnusedNext, Facts

(* The steps that write a table.                                           *)
LEMMA Writes ==
    ASSUME NEW p \in Procs, Normal(p)
    PROVE  \/ files' = files
           \/ open_put_(p) \/ dup_file_(p) \/ copy_store_(p) \/ exit_done_(p)
           \/ \E q \in Procs : fork_(p, q)
           \/ \E j \in Slots : close_dupe_(p, j)
           \/ \E from \in GlobalLabels \cup {"ca_store"} : Back(p, from)
  BY DEF Normal, GlobalLabels, open_, open_bad_flags_, close_, dup2_, transfer_, lseek_, fork_,
         exit_, get_next_fd_, open_put_, close_dupe_, close_file_, close_return_, close_dup_,
         close_not_found_, destroy_file_, close_shared_, close_load_, close_store_,
         copy_file_lock_, copy_file_store_, dup_file_, transfer_over_, transfer_begin_,
         transfer_end_, read_no_memory_, lseek_over_, lseek_lock_, lseek_set_, copy_lock_,
         copy_store_, fork_done_, exit_shared_, exit_last_, close_all_load_, close_all_store_,
         exit_done_

(* A child that is being forked does not move.                             *)
LEMMA Movers ==
    ASSUME NEW p \in Procs, Normal(p)
    PROVE  pc[p] # "new"
  BY DEF Normal, Moves, Back, open_, open_bad_flags_, close_, dup2_, transfer_, lseek_, fork_,
         exit_, get_next_fd_, open_put_, close_dupe_, close_file_, close_return_, close_dup_,
         close_not_found_, destroy_file_, close_shared_, close_load_, close_store_,
         copy_file_lock_, copy_file_store_, dup_file_, transfer_over_, transfer_begin_,
         transfer_end_, read_no_memory_, lseek_over_, lseek_lock_, lseek_set_, copy_lock_,
         copy_store_, fork_done_, exit_shared_, exit_last_, close_all_load_, close_all_store_,
         exit_done_

(* The standard files stay in their slots, and fork copies the others.     *)
LEMMA CopyStep ==
    ASSUME BaseInv, Careful, CareInv, DescInv, NEW p \in Procs, Normal(p), Details(p)
    PROVE  CopyInv'
<1>1. Facts(p)
  BY Known
<1>2. CopyInv /\ UseOf(p) /\ ArgOf(p)
  BY DEF DescInv, CareInv, UseInv, BaseInv, ArgInv
<1>3. ASSUME NEW k \in Slots, files[p][k] # NULL,
             file[files[p][k]].std = -1 \/ file[files[p][k]].is_dupe
      PROVE  k \notin Std
  <2>1. files[p][k] \in 0 .. next_struct - 1
    BY <1>1, <1>3 DEF Facts, Public
  <2>2. files[p][k] \notin Std
    BY <1>1, <1>3, <2>1 DEF Facts, NameInv, NameOf
  <2>3. pc[p] \notin {"none", "gone"}
    BY Arrives
  <2> QED  BY <1>2, <2>2, <2>3 DEF CopyInv
<1>4. pc[p] \notin {"none", "gone"} /\ pc'[p] \notin {"none", "new"}
  BY Arrives
<1>5. ASSUME NEW q \in Procs, pc'[q] \notin {"none", "gone"}, NEW i \in Std
      PROVE  files'[q][i] = i
  <2>1. CASE pc[q] \in {"none", "gone"}
    <3>1. files'[q] = FreshTable
      BY <1>1, <1>4, <1>5, <2>1 DEF Facts, OtherStep
    <3> QED  BY <1>1, <3>1 DEF FreshTable, Facts
  <2>2. CASE pc[q] \notin {"none", "gone"}
    <3>1. files[q][i] = i /\ \A k \in Std : files[p][k] = k
      BY <1>2, <1>4, <2>2 DEF CopyInv
    <3>2. ASSUME NEW k \in Slots, NEW f, files' = [files EXCEPT ![p][k] = f], k \notin Std
          PROVE  files'[q][i] = i
      BY <1>1, <3>1, <3>2 DEF Facts
    <3>3. ASSUME NEW f, Putting(p, f) PROVE files'[q][i] = i
      <4>1. \A k \in Slots : files[p][k] = NULL => k \notin Std
        BY <1>1, <3>1 DEF Facts
      <4> QED  BY <3>1, <3>2, <3>3, <4>1 DEF Putting
    <3>4. ASSUME NEW j \in Slots, close_dupe_(p, j) PROVE files'[q][i] = i
      BY <1>3, <3>2, <3>4 DEF close_dupe_, In
    <3>5. ASSUME NEW from \in GlobalLabels \cup {"ca_store"}, Back(p, from)
          PROVE  files'[q][i] = i
      <4>1. /\ loc[p].i \in Slots /\ files[p][loc[p].i] # NULL /\ pc[p] = from
            /\ files' = [files EXCEPT ![p][loc[p].i] = NULL]
        BY <3>5 DEF Back, In, Moves
      <4>2. file[files[p][loc[p].i]].std = -1
        <5>1. CASE from \in GlobalLabels
          BY <1>2, <4>1, <5>1 DEF UseOf
        <5>2. CASE from = "ca_store"
          BY <1>2, <4>1, <5>2 DEF UseOf, ArgOf
        <5> QED  BY <5>1, <5>2
      <4> QED  BY <1>3, <3>2, <4>1, <4>2
    <3>6. CASE copy_store_(p)
      <4>1. /\ loc[p].i \in Slots /\ loc[p].child \in Procs
            /\ files' = [files EXCEPT ![loc[p].child][loc[p].i] = files[p][loc[p].i]]
        BY <3>6 DEF copy_store_, In
      <4> QED  BY <1>1, <3>1, <4>1 DEF Facts
    <3>7. ASSUME NEW r \in Procs, fork_(p, r) PROVE files'[q][i] = i
      BY <1>1, <3>1, <3>7 DEF fork_, Facts, FreshTable
    <3>8. CASE files' = files
      BY <3>1, <3>8
    <3>9. CASE exit_done_(p)
      BY <1>1, <1>5, <3>1, <3>9 DEF exit_done_, Moves, Facts
    <3>10. CASE open_put_(p)
      BY <3>3, <3>10 DEF open_put_
    <3>11. CASE dup_file_(p)
      BY <3>3, <3>11 DEF dup_file_
    <3> QED  BY <3>4, <3>5, <3>6, <3>7, <3>8, <3>9, <3>10, <3>11, Writes
  <2> QED  BY <2>1, <2>2
<1>6. ASSUME NEW q \in Procs, pc'[q] \in ForkLabels, NEW i \in Slots, i \notin Std
      PROVE  files'[loc'[q].child][i] = IF i < loc'[q].i THEN files'[q][i] ELSE NULL
  <2>1. CASE q # p
    <3>1. /\ pc[q] \in ForkLabels /\ pc'[q] = pc[q] /\ loc'[q] = loc[q] /\ files'[q] = files[q]
      BY <1>1, <1>6, <2>1 DEF Facts, OtherStep, ForkLabels
    <3>2. /\ loc[q].child \in Procs /\ pc[loc[q].child] = "new"
          /\ pc[p] \in ForkLabels => loc[p].child # loc[q].child
      BY <1>1, <2>1, <3>1 DEF Facts, ChildInv
    <3>3. files[loc[q].child][i] = IF i < loc[q].i THEN files[q][i] ELSE NULL
      BY <1>2, <1>6, <3>1 DEF CopyInv
    <3>4. files'[loc[q].child] = files[loc[q].child]
      <4>1. loc[q].child # p
        BY <3>2, Movers
      <4>2. CASE copy_store_(p)
        BY <1>1, <3>2, <4>2 DEF copy_store_, Moves, ForkLabels, Facts
      <4>3. ASSUME NEW r \in Procs, fork_(p, r) PROVE files'[loc[q].child] = files[loc[q].child]
        BY <1>1, <3>2, <4>3 DEF fork_, Facts
      <4>4. ASSUME NEW f, Putting(p, f) PROVE files'[loc[q].child] = files[loc[q].child]
        BY <1>1, <3>2, <4>1, <4>4 DEF Putting, Facts
      <4>5. ASSUME NEW from, Back(p, from) PROVE files'[loc[q].child] = files[loc[q].child]
        BY <1>1, <3>2, <4>1, <4>5 DEF Back, In, Facts
      <4>6. ASSUME NEW j \in Slots, close_dupe_(p, j)
            PROVE  files'[loc[q].child] = files[loc[q].child]
        BY <1>1, <3>2, <4>1, <4>6 DEF close_dupe_, Facts
      <4>7. CASE exit_done_(p)
        BY <1>1, <3>2, <4>1, <4>7 DEF exit_done_, Facts
      <4>8. CASE open_put_(p) \/ dup_file_(p)
        BY <4>4, <4>8 DEF open_put_, dup_file_
      <4> QED  BY <4>2, <4>3, <4>5, <4>6, <4>7, <4>8, Writes
    <3> QED  BY <3>1, <3>3, <3>4
  <2>2. CASE q = p
    <3>1. ASSUME NEW r \in Procs, fork_(p, r)
          PROVE  files'[loc'[p].child][i] = IF i < loc'[p].i THEN files'[p][i] ELSE NULL
      <4>1. /\ loc'[p].child = r /\ loc'[p].i = 0 /\ files' = [files EXCEPT ![r] = FreshTable]
        BY <3>1 DEF fork_
      <4>2. ~(i < 0)
        BY <1>1 DEF Facts
      <4> QED  BY <1>1, <1>6, <4>1, <4>2 DEF Facts, FreshTable
    <3>2. ASSUME NEW j \in Slots, copy_lock_(p, j)
          PROVE  files'[loc'[p].child][i] = IF i < loc'[p].i THEN files'[p][i] ELSE NULL
      <4>1. /\ pc[p] = "fk_scan" /\ loc'[p].child = loc[p].child /\ loc'[p].i = j
            /\ files' = files /\ j >= loc[p].i
            /\ \A k \in Slots : k >= loc[p].i /\ k < j => files[p][k] = NULL
        BY <3>2 DEF copy_lock_, Moves
      <4>2. files[loc[p].child][i] = IF i < loc[p].i THEN files[p][i] ELSE NULL
        BY <1>2, <1>6, <4>1 DEF CopyInv, ForkLabels
      <4>3. i \in Int /\ j \in Int /\ loc[p].i \in Int
        <5>1. loc[p] \in Locals
          BY SameTypes DEF BaseInv, GlobalTableSound, LocalTypes
        <5>2. loc[p].i \in 0 .. OPEN_MAX
          BY <5>1, SetLocals
        <5> QED  BY <1>1, <5>2 DEF Facts
      <4> QED  BY <4>1, <4>2, <4>3
    <3>3. CASE copy_store_(p)
      <4>1. /\ pc[p] = "fk_store" /\ loc'[p].child = loc[p].child /\ loc'[p].i = loc[p].i + 1
            /\ loc[p].i \in Slots /\ loc[p].child \in Procs
            /\ files' = [files EXCEPT ![loc[p].child][loc[p].i] = files[p][loc[p].i]]
        BY <3>3 DEF copy_store_, Moves, In
      <4>2. files[loc[p].child][i] = IF i < loc[p].i THEN files[p][i] ELSE NULL
        BY <1>2, <1>6, <4>1 DEF CopyInv, ForkLabels
      <4>3. loc[p].child # p
        BY <1>1, <4>1 DEF Facts, ChildInv, ForkLabels
      <4>4. /\ files'[p][i] = files[p][i]
            /\ files'[loc[p].child][i] = IF i = loc[p].i THEN files[p][i]
                                          ELSE files[loc[p].child][i]
        BY <1>1, <1>6, <4>1, <4>3 DEF Facts
      <4>5. i \in Int /\ loc[p].i \in Int
        <5>1. Slots \subseteq Nat
          BY <1>1 DEF Facts
        <5> QED  BY <4>1, <5>1
      <4>6. i < loc[p].i + 1 <=> i < loc[p].i \/ i = loc[p].i
        BY <4>5
      <4>7. loc'[p].child = loc[p].child /\ loc'[p].i = loc[p].i + 1
        BY <4>1
      <4>8. files'[loc[p].child][i] = IF i < loc[p].i + 1 THEN files'[p][i] ELSE NULL
        BY <4>2, <4>4, <4>6
      <4> QED  BY <2>2, <4>7, <4>8
    <3> QED  BY <1>6, <2>2, <3>1, <3>2, <3>3, Arrives
  <2> QED  BY <2>1, <2>2
<1> QED  BY <1>1, <1>5, <1>6 DEF CopyInv, Facts

(* Structures are made by open and dup2.                                   *)
LEMMA NewFile ==
    ASSUME NEW p \in Procs, Normal(p)
    PROVE  \/ next_struct' = next_struct
           \/ \E v \in Vnodes, can \in AccessModes : open_(p, v, can)
           \/ dup_file_(p)
  BY DEF Normal, SameStructs, open_, open_bad_flags_, close_, dup2_, transfer_, lseek_, fork_,
         exit_, get_next_fd_, open_put_, close_dupe_, close_file_, close_return_, close_dup_,
         close_not_found_, destroy_file_, close_shared_, close_load_, close_store_,
         copy_file_lock_, copy_file_store_, dup_file_, transfer_over_, transfer_begin_,
         transfer_end_, read_no_memory_, lseek_over_, lseek_lock_, lseek_set_, copy_lock_,
         copy_store_, fork_done_, exit_shared_, exit_last_, close_all_load_, close_all_store_,
         exit_done_

(* What SeekInv says of one file after the step.                           *)
SeekNext(f) == file'[f].std = -1 =>
    /\ file'[f].seek \in 0 .. next_struct' - 1
    /\ ~file'[f].is_dupe => file'[f].seek = f
    /\ \A q \in InOpen' : file'[f].seek = loc'[q].f => f = loc'[q].f

(* open makes a new seek position, and dup2 shares one that is in use.     *)
LEMMA SeekStep ==
    ASSUME BaseInv, Careful, CareInv, DescInv, NEW p \in Procs, Normal(p)
    PROVE  SeekInv'
<1>1. next_struct \in Nat /\ next_struct' \in Nat /\ next_struct <= next_struct'
      /\ next_struct' \in {next_struct, next_struct + 1}
  BY OpenStep, SameTypes, Numbers DEF BaseInv, GlobalTableSound, StructTypes
<1>2. SeekInv /\ PlaceInv
  BY DEF DescInv, BaseInv
<1>3. \A q \in InOpen : loc[q].f \in 0 .. next_struct - 1
  BY <1>2 DEF PlaceInv, BaseInv, GlobalTableSound, TypeOK
<1>4. ASSUME NEW q \in Procs, q \in InOpen'
      PROVE  \/ q \in InOpen /\ loc'[q].f = loc[q].f
             \/ loc'[q].f = next_struct /\ next_struct' = next_struct + 1
  BY <1>4, OpenStep
<1>5. InOpen' \subseteq Procs
  BY DEF InOpen
<1>6. ASSUME NEW f \in 0 .. next_struct - 1 PROVE SeekNext(f)
  <2>1. /\ file'[f].std = file[f].std /\ file'[f].seek = file[f].seek
        /\ file'[f].is_dupe = file[f].is_dupe
    BY KeepFile
  <2>2. ASSUME file[f].std = -1
        PROVE  /\ file[f].seek \in 0 .. next_struct - 1
               /\ ~file[f].is_dupe => file[f].seek = f
               /\ \A q \in InOpen : file[f].seek = loc[q].f => f = loc[q].f
    BY <1>2, <2>2 DEF SeekInv
  <2>3. ASSUME file[f].std = -1, NEW q \in InOpen', file[f].seek = loc'[q].f
        PROVE  f = loc'[q].f
    <3>1. file[f].seek # next_struct
      BY <1>1, <2>2, <2>3
    <3> QED  BY <1>4, <1>5, <2>2, <2>3, <3>1
  <2>4. file[f].std = -1 => file[f].seek \in 0 .. next_struct' - 1
    BY <1>1, <2>2
  <2> QED  BY <2>1, <2>2, <2>3, <2>4 DEF SeekNext
<1>7. ASSUME next_struct' = next_struct + 1 PROVE SeekNext(next_struct)
  <2>1. ASSUME NEW v \in Vnodes, NEW can \in AccessModes, open_(p, v, can)
        PROVE  SeekNext(next_struct)
    <3>1. file'[next_struct].seek = next_struct
      BY <2>1 DEF open_
    <3>2. next_struct \in 0 .. next_struct' - 1
      BY <1>1, <1>7
    <3>3. \A q \in InOpen' : next_struct = loc'[q].f => next_struct = loc'[q].f
      OBVIOUS
    <3> QED  BY <3>1, <3>2 DEF SeekNext
  <2>2. CASE dup_file_(p)
    <3>1. /\ file'[next_struct].std = file[loc[p].f].std /\ pc[p] = "dup_copy"
          /\ file'[next_struct].seek = file[loc[p].f].seek /\ file'[next_struct].is_dupe
      BY <2>2 DEF dup_file_, Moves
    <3>2. Public(loc[p].f)
      BY <1>2, <3>1 DEF PlaceInv, UseLabels
    <3>3. loc[p].f \in 0 .. next_struct - 1 /\ \A q \in InOpen : loc[p].f # loc[q].f
      BY <3>2 DEF Public
    <3>4. ASSUME file[loc[p].f].std = -1
          PROVE  /\ file[loc[p].f].seek \in 0 .. next_struct - 1
                 /\ \A q \in InOpen : file[loc[p].f].seek # loc[q].f
      BY <1>2, <3>3, <3>4 DEF SeekInv
    <3>5. ASSUME file[loc[p].f].std = -1, NEW q \in InOpen' PROVE file[loc[p].f].seek # loc'[q].f
      <4>1. file[loc[p].f].seek # next_struct
        BY <1>1, <3>4, <3>5
      <4> QED  BY <1>4, <1>5, <3>4, <3>5, <4>1
    <3>6. file[loc[p].f].std = -1 => file[loc[p].f].seek \in 0 .. next_struct' - 1
      BY <1>1, <3>4
    <3> QED  BY <3>1, <3>5, <3>6 DEF SeekNext
  <2>3. next_struct' # next_struct
    BY <1>1, <1>7
  <2> QED  BY <2>1, <2>2, <2>3, NewFile
<1>8. ASSUME NEW f \in 0 .. next_struct' - 1 PROVE SeekNext(f)
  <2>1. f \in 0 .. next_struct - 1 \/ (f = next_struct /\ next_struct' = next_struct + 1)
    <3>1. CASE next_struct' = next_struct
      BY <1>8, <3>1
    <3>2. CASE next_struct' = next_struct + 1
      BY <1>1, <1>8, <3>2
    <3> QED  BY <1>1, <3>1, <3>2
  <2> QED  BY <1>6, <1>7, <2>1
<1> QED  BY <1>8 DEF SeekInv, SeekNext

(* The one position that a step moves is that of the file it works on.     *)
LEMMA PosMoved ==
    ASSUME BaseInv, Careful, CareInv, NEW p \in Procs, Call(p) \/ Step(p), Normal(p)
    PROVE  \/ pos' = pos
           \/ /\ pc[p] \in {"rw_io", "ls_set"} /\ file[loc[p].f].std = -1
              /\ file' = file /\ files' = files
              /\ \E x : pos' = [pos EXCEPT ![file[loc[p].f].seek] = x]
<1>1. CASE transfer_end_(p)
  <2>1. pc[p] = "rw_io" /\ file' = file /\ files' = files
    BY <1>1 DEF transfer_end_, Moves
  <2>2. transfer_end(p) \/ read_no_memory(p)
    BY <2>1, Doing
  <2>3. ~read_no_memory(p)
    BY DEF read_no_memory
  <2> QED  BY <2>1, <2>2, <2>3 DEF transfer_end
<1>2. CASE lseek_set_(p)
  <2>1. pc[p] = "ls_set" /\ file' = file /\ files' = files
    BY <1>2 DEF lseek_set_, Moves
  <2>2. lseek_set(p)
    BY <2>1, Doing
  <2>3. file[loc[p].f].std = -1
    BY <2>1 DEF CareInv, UseInv, UseOf
  <2> QED  BY <2>1, <2>2, <2>3 DEF lseek_set
<1> QED  BY <1>1, <1>2, PosKept

(* An entry of a table that has a seek position after the step.            *)
Seeking(q, i) == files'[q][i] # NULL /\ file'[files'[q][i]].std = -1
SameSeek(r, i, s, j) == file'[files'[r][i]].seek = file'[files'[s][j]].seek

(* Processes share positions only by sharing a structure, so only its      *)
(* holder moves the position of a structure.                               *)
LEMMA PosStep ==
    ASSUME BaseInv, Careful, CareInv, DescInv, NEW p \in Procs, Call(p) \/ Step(p), Normal(p),
           Details(p)
    PROVE  PosInv'
<1>1. Facts(p)
  BY Known
<1>2. PosInv /\ SeekInv /\ UseInv /\ UseOf(p) /\ DupOf(p) /\ ForkOf(p) /\ LockInv
  BY DEF DescInv, CareInv, UseInv, DupInv, ForkInv
<1>3. \A r \in Procs, i \in Slots : Filled(p, r, i)
  BY TableStep
<1>4. \A r \in Procs, i \in Slots : files[r][i] # NULL =>
         Public(files[r][i]) /\ file'[files[r][i]] = file[files[r][i]]
  BY <1>1 DEF Facts
<1>5. ASSUME NEW r \in Procs, NEW i \in Slots, Seeking(r, i) PROVE files'[r][i] \notin Std
  <2>1. \A f \in Std : f \in 0 .. next_struct - 1 /\ f # -1 /\ file[f].std = f
    <3>1. \A f \in Std : f \in 0 .. next_struct - 1
      BY StdStructs DEF BaseInv, GlobalTableSound
    <3>2. \A f \in Std : f # -1
      BY <1>1 DEF Facts
    <3> QED  BY <1>1, <3>1, <3>2 DEF Facts, NameInv, NameOf
  <2>2. \A f \in Std : file'[f].std # -1
    BY <2>1, KeepFile
  <2> QED  BY <1>5, <2>2 DEF Seeking
<1>6. ASSUME NEW r \in Procs, NEW i \in Slots, Seeking(r, i), files'[r][i] # files[r][i]
      PROVE  \/ open_put_(p) /\ r = p /\ files'[r][i] = loc[p].f
             \/ dup_file_(p) /\ r = p /\ files'[r][i] = next_struct
             \/ copy_store_(p) /\ r = loc[p].child /\ i = loc[p].i /\ files'[r][i] = files[p][i]
  BY <1>3, <1>5, <1>6 DEF Filled, Seeking
<1>7. ASSUME NEW r \in Procs, NEW s \in Procs, NEW i \in Slots, NEW j \in Slots, r # s,
             Seeking(r, i), Seeking(s, j)
      PROVE  files'[r][i] = files[r][i] \/ files'[s][j] = files[s][j]
  <2>1. open_put_(p) => ~copy_store_(p) /\ ~dup_file_(p)
    BY DEF open_put_, copy_store_, dup_file_, Moves
  <2>2. copy_store_(p) => ~dup_file_(p)
    BY DEF copy_store_, dup_file_, Moves
  <2> QED  BY <1>6, <1>7, <2>1, <2>2
<1>8. ASSUME NEW r \in Procs, NEW s \in Procs, NEW i \in Slots, NEW j \in Slots, r # s,
             Seeking(r, i), Seeking(s, j), SameSeek(r, i, s, j), files'[s][j] = files[s][j]
      PROVE  files'[r][i] = files'[s][j]
  <2> DEFINE g == files[s][j]
  <2>1. /\ g # NULL /\ Public(g) /\ file'[g] = file[g] /\ file[g].std = -1
        /\ file'[files'[r][i]].seek = file[g].seek
    BY <1>4, <1>8 DEF Seeking, SameSeek
  <2>2. g \in 0 .. next_struct - 1
    BY <2>1 DEF Public
  <2> HIDE DEF g
  <2>3. CASE files'[r][i] = files[r][i]
    <3>1. /\ files[r][i] # NULL /\ file[files[r][i]].std = -1
          /\ file[files[r][i]].seek = file[g].seek
      BY <1>4, <1>8, <2>1, <2>3 DEF Seeking
    <3>2. files[r][i] = g
      BY <1>2, <1>8, <2>1, <3>1 DEF PosInv, g
    <3> QED  BY <1>8, <2>3, <3>2 DEF g
  <2>4. CASE open_put_(p) /\ r = p /\ files'[r][i] = loc[p].f
    <3>1. p \in InOpen /\ file' = file
      BY <2>4 DEF open_put_, Moves, InOpen, SameStructs
    <3>2. loc[p].f \in live \ Std /\ ~file[loc[p].f].is_dupe
      BY <1>1, <3>1 DEF Facts, PlaceInv
    <3>3. loc[p].f \in 0 .. next_struct - 1
      BY <3>2 DEF BaseInv, GlobalTableSound, TypeOK
    <3>4. file[loc[p].f].std = -1
      BY <1>1, <3>2, <3>3 DEF Facts, NameInv, NameOf
    <3>5. file[loc[p].f].seek = loc[p].f
      BY <1>2, <3>2, <3>3, <3>4 DEF SeekInv
    <3>6. file[g].seek = loc[p].f
      BY <2>1, <2>4, <3>1, <3>5
    <3>7. g = loc[p].f
      BY <1>2, <2>1, <2>2, <3>1, <3>6 DEF SeekInv
    <3> QED  BY <1>8, <2>4, <3>7 DEF g
  <2>5. CASE dup_file_(p) /\ r = p /\ files'[r][i] = next_struct
    <3>1. /\ pc[p] = "dup_copy" /\ file'[next_struct].std = file[loc[p].f].std
          /\ file'[next_struct].seek = file[loc[p].f].seek
      BY <2>5 DEF dup_file_, Moves
    <3>2. file[loc[p].f].std = -1 /\ file[loc[p].f].seek = file[g].seek
      BY <1>8, <2>1, <2>5, <3>1 DEF Seeking
    <3>3. PICK k \in Slots : files[p][k] = loc[p].f
      BY <1>2, <3>1 DEF UseOf, UseLabels
    <3>4. loc[p].f # NULL
      <4>1. pc[p] \in UseLabels
        BY <3>1 DEF UseLabels
      <4> QED  BY <1>1, <4>1 DEF Facts, ArgInv, ArgOf
    <3>5. loc[p].f = g
      BY <1>2, <1>8, <2>1, <2>5, <3>2, <3>3, <3>4 DEF PosInv, g
    <3>6. /\ loc[p].next = "dup2" /\ loc[p].f = p_filetable_lookup(p, loc[p].old)
          /\ ~Shared(p, loc[p].f)
      BY <1>1, <1>2, <3>1 DEF Facts, ArgInv, ArgOf, DupOf
    <3>7. loc[p].f \notin Std
      BY <1>1, <2>2, <3>2, <3>5 DEF Facts, NameInv, NameOf
    <3> QED  BY <1>8, <2>5, <3>5, <3>6, <3>7, SharedIs DEF g
  <2>6. CASE copy_store_(p) /\ r = loc[p].child /\ i = loc[p].i /\ files'[r][i] = files[p][i]
    <3>1. pc[p] \in ForkLabels
      BY <2>6 DEF copy_store_, Moves, ForkLabels
    <3>2. /\ files[p][i] # NULL /\ file[files[p][i]].std = -1
          /\ file[files[p][i]].seek = file[g].seek
      BY <1>4, <1>8, <2>1, <2>6 DEF Seeking
    <3>3. CASE s # p
      <4>1. files[p][i] = g
        BY <1>2, <2>1, <3>2, <3>3 DEF PosInv, g
      <4> QED  BY <1>8, <2>6, <4>1 DEF g
    <3>4. CASE s = p
      <4>1. ~file[files[p][i]].is_dupe /\ ~file[g].is_dupe
        BY <1>2, <2>1, <3>1, <3>2, <3>4 DEF ForkOf, g
      <4>2. files[p][i] \in 0 .. next_struct - 1
        BY <1>4, <3>2 DEF Public
      <4>3. files[p][i] = g
        BY <1>2, <2>1, <2>2, <3>2, <4>1, <4>2 DEF SeekInv
      <4> QED  BY <1>8, <2>6, <4>3 DEF g
    <3> QED  BY <3>3, <3>4
  <2> QED  BY <1>6, <1>8, <2>3, <2>4, <2>5, <2>6
<1>9. ASSUME NEW r \in Procs, NEW s \in Procs, NEW i \in Slots, NEW j \in Slots, r # s,
             Seeking(r, i), Seeking(s, j), SameSeek(r, i, s, j)
      PROVE  files'[r][i] = files'[s][j]
  <2>1. SameSeek(s, j, r, i)
    BY <1>9 DEF SameSeek
  <2> QED  BY <1>7, <1>8, <1>9, <2>1
<1>10. ASSUME NEW q \in Procs, pc'[q] = "rw_io", file'[loc'[q].f].std = -1
       PROVE  loc'[q].tmp = pos'[file'[loc'[q].f].seek]
  <2>1. CASE q = p
    <3>1. transfer_begin_(p)
      BY <1>10, <2>1, Arrives
    <3>2. pc[p] = "rw_lock" /\ loc'[p].f = loc[p].f /\ file' = file /\ pos' = pos
      BY <3>1 DEF transfer_begin_, Moves
    <3> QED  BY <1>10, <2>1, <3>2 DEF Details
  <2>2. CASE q # p
    <3>1. pc[q] = "rw_io" /\ loc'[q] = loc[q]
      BY <1>1, <1>10, <2>2 DEF Facts, OtherStep
    <3>2. PICK l \in Slots : files[q][l] = loc[q].f
      BY <1>2, <3>1 DEF UseInv, UseOf, UseLabels
    <3>3. loc[q].f # NULL /\ loc[q].f \in Files
      <4>1. pc[q] \in UseLabels
        BY <3>1 DEF UseLabels
      <4> QED  BY <1>1, <4>1 DEF Facts, ArgInv, ArgOf
    <3>4. file'[loc[q].f] = file[loc[q].f] /\ file[loc[q].f].std = -1
      BY <1>4, <1>10, <3>1, <3>2, <3>3
    <3>5. loc[q].tmp = pos[file[loc[q].f].seek]
      BY <1>2, <3>1, <3>4 DEF PosInv
    <3>6. CASE pos' = pos
      BY <3>1, <3>4, <3>5, <3>6
    <3>7. ASSUME pc[p] \in {"rw_io", "ls_set"}, file[loc[p].f].std = -1, NEW x,
                 pos' = [pos EXCEPT ![file[loc[p].f].seek] = x]
          PROVE  loc'[q].tmp = pos'[file'[loc'[q].f].seek]
      <4>1. PICK k \in Slots : files[p][k] = loc[p].f
        BY <1>2, <3>7 DEF UseOf, UseLabels
      <4>2. loc[p].f # NULL
        <5>1. pc[p] \in UseLabels
          BY <3>7 DEF UseLabels
        <5> QED  BY <1>1, <5>1 DEF Facts, ArgInv, ArgOf
      <4>3. ASSUME file[loc[p].f].seek = file[loc[q].f].seek PROVE FALSE
        <5>1. loc[p].f = loc[q].f
          BY <1>2, <2>2, <3>2, <3>3, <3>4, <3>7, <4>1, <4>2, <4>3 DEF PosInv
        <5>2. Holding(p, loc[q].f) /\ Holding(q, loc[q].f)
          BY <3>1, <3>7, <5>1 DEF Holding
        <5> QED  BY <1>2, <2>2, <3>3, <5>2 DEF LockInv
      <4>4. file[loc[q].f].seek \in Files
        <5>1. Public(loc[q].f)
          BY <1>4, <3>2, <3>3
        <5> QED  BY <3>4, <5>1 DEF Public, BaseInv, FdInv
      <4>5. pos \in [Files -> 0 .. MaxPos]
        BY DEF BaseInv, GlobalTableSound, TypeOK
      <4>6. pos'[file[loc[q].f].seek] = pos[file[loc[q].f].seek]
        BY <3>7, <4>3, <4>4, <4>5
      <4> QED  BY <3>1, <3>4, <3>5, <4>6
    <3> QED  BY <3>6, <3>7, PosMoved
  <2> QED  BY <2>1, <2>2
<1>11. Slots' = Slots
  BY <1>1 DEF Facts
<1> QED  BY <1>9, <1>10, <1>11 DEF PosInv, Seeking, SameSeek

(* The first process has the standard files.                               *)
LEMMA DescInit == Init => DescInv
<1> SUFFICES ASSUME Init PROVE DescInv
  OBVIOUS
<1>1. /\ Slots \subseteq Nat /\ Std = {0, 1, 2} /\ Std \subseteq Slots /\ NULL \notin Slots
      /\ Std \subseteq Files /\ NULL = -1
  BY Numbers DEF Init
<1>2. /\ next_struct = 3 /\ next_fd = 3 /\ \A f \in Std : file[f] = create_std_file(f)
  BY <1>1 DEF Init
<1>3. \A p \in Procs, i \in Slots : files[p][i] = IF p = First /\ i \in Std THEN i ELSE NULL
  BY DEF Init, FreshTable
<1>4. \A p \in Procs : pc[p] \in {"user", "none"} /\ (pc[p] = "user" => p = First)
  BY DEF Init
<1>5. \A f \in Std : file[f].local_fd = f /\ file[f].std = f /\ f # -1
  BY <1>1, <1>2 DEF create_std_file
<1>6. \A p \in Procs : loc[p].next = ""
  BY DEF Init, NoLocals
<1>7. NumberInv
  <2>1. \A p \in Procs, i \in Slots : files[p][i] # NULL =>
           i \in Std /\ files[p][i] = i /\ file[files[p][i]].local_fd = i
    BY <1>3, <1>5
  <2>2. \A i \in Std : i < next_fd
    BY <1>1, <1>2
  <2>3. \A p \in Procs : pc[p] # "op_put"
    BY <1>4
  <2> QED  BY <2>1, <2>2, <2>3 DEF NumberInv
<1>8. ClosingInv
  BY <1>4, <1>6 DEF ClosingInv, ClosingOf, GlobalLabels
<1>9. CopyInv
  BY <1>1, <1>3, <1>4 DEF CopyInv, ForkLabels
<1>10. SeekInv
  <2>1. 0 .. next_struct - 1 = Std
    BY <1>1, <1>2
  <2> QED  BY <1>5, <2>1 DEF SeekInv
<1>11. PosInv
  BY <1>3, <1>4 DEF PosInv
<1> QED  BY <1>7, <1>8, <1>9, <1>10, <1>11 DEF DescInv

(* What is said of the state does not change with it.                      *)
LEMMA DescStutter ==
    ASSUME DescInv, UNCHANGED vars
    PROVE  DescInv'
<1>1. UNCHANGED <<next_struct, file, pos, next_fd, files, pc, loc, setting>>
  BY DEF vars, structs, gtable, ptables
<1>2. Slots' = Slots /\ InOpen' = InOpen
  BY <1>1 DEF Slots, OPEN_MAX, InOpen
<1>3. NumberInv' /\ ClosingInv'
  BY <1>1, <1>2 DEF DescInv, NumberInv, ClosingInv, ClosingOf, Unused
<1>4. CopyInv' /\ SeekInv' /\ PosInv'
  BY <1>1, <1>2 DEF DescInv, CopyInv, SeekInv, PosInv
<1> QED  BY <1>3, <1>4 DEF DescInv

(* A step of careful programs is in normal form, with the details.         *)
LEMMA CarefulStep ==
    ASSUME BaseInv, Careful, CareInv, NEW p \in Procs, Call(p) \/ Step(p)
    PROVE  Normal(p) /\ Details(p)
<1>1. panic' = panic /\ ~panic
  BY NoPanic DEF CareInv
<1>2. Normal(p)
  BY <1>1, Cases DEF Panic
<1> QED  BY <1>2, Detailed

(* The tables of careful programs stay what Descriptors needs them to be.  *)
LEMMA DescNext ==
    ASSUME BaseInv, CarefulInv, Careful => DescInv, [Next]_vars
    PROVE  Careful' => DescInv'
<1>1. Careful' = Careful
  BY SameSetting
<1> SUFFICES ASSUME Careful, CareInv, DescInv PROVE DescInv'
  BY <1>1 DEF CarefulInv
<1>2. CASE UNCHANGED vars
  BY <1>2, DescStutter
<1>3. ASSUME NEW p \in Procs, Call(p) \/ Step(p) PROVE DescInv'
  <2>1. Normal(p) /\ Details(p)
    BY <1>3, CarefulStep
  <2> QED  BY <1>3, <2>1, NumberStep, ClosingStep, CopyStep, SeekStep, PosStep DEF DescInv
<1> QED  BY <1>2, <1>3 DEF Next

(* and they are in every reachable state.                                  *)
LEMMA DescAlways == Spec => [](BaseInv /\ CarefulInv /\ (Careful => DescInv))
<1>1. Init => (Careful => DescInv)
  BY DescInit
<1>2. BaseInv /\ CarefulInv /\ (Careful => DescInv) /\ [Next]_vars => (Careful => DescInv)'
  BY DescNext
<1> QED  BY <1>1, <1>2, CareAlways, PTL DEF Spec

-----------------------------------------------------------------------------
(* What Descriptors sees after a step.                                     *)
RunningNext(q) == pc'[q] \notin {"none", "new", "lost", "gone"} /\ loc'[q].next # "exit"
OpenNext(f) == IF file'[f].std # -1 THEN file'[f].std ELSE file'[f].seek
TableNext(q) == [fd \in Fds |-> IF RunningNext(q) /\ LookupNext(q, fd) # NULL
                                THEN OpenNext(LookupNext(q, fd)) ELSE NULL]

(* These are the primed forms.                                             *)
LEMMA Primed ==
    ASSUME Slots' = Slots
    PROVE  /\ \A q \in Procs : Table(q)' = TableNext(q)
           /\ {q \in Procs : Running(q)}' = {q \in Procs : RunningNext(q)}
<1>1. \A q \in Procs : \A fd : p_filetable_lookup(q, fd)' = LookupNext(q, fd)
  BY DEF p_filetable_lookup, Matching, Used, LookupNext, MatchNext, First_
<1>2. \A f : OpenFile(f)' = OpenNext(f)
  BY DEF OpenFile, OpenNext
<1>3. \A q \in Procs : Running(q)' <=> RunningNext(q)
  BY DEF Running, Exiting, RunningNext
<1>4. ASSUME NEW q \in Procs PROVE Table(q)' = TableNext(q)
  BY <1>1, <1>2, <1>3 DEF Table, TableNext
<1> QED  BY <1>3, <1>4

(* A process runs until it exits, a child from the end of its fork.        *)
LEMMA RunStep ==
    ASSUME BaseInv, NEW p \in Procs, Normal(p)
    PROVE  /\ exit_(p) => Running(p) /\ ~RunningNext(p)
           /\ ~exit_(p) => (RunningNext(p) <=> Running(p))
           /\ \A q \in Procs \ {p} :
                 \/ RunningNext(q) <=> Running(q)
                 \/ \E b \in {"user", "lost"} : fork_done_(p, b) /\ q = loc[p].child
<1>1. ArgOf(p)
  BY DEF BaseInv, ArgInv
<1>2. exit_(p) => Running(p) /\ ~RunningNext(p)
  BY <1>1 DEF exit_, Moves, Running, Exiting, RunningNext, ArgOf, GlobalLabels
<1>3. ~exit_(p) => (RunningNext(p) <=> Running(p))
  <2>1. pc[p] \notin {"none", "new", "lost", "gone"}
    BY DEF Normal, Moves, Back, open_, open_bad_flags_, close_, dup2_, transfer_, lseek_, fork_,
           exit_, get_next_fd_, open_put_, close_dupe_, close_file_, close_return_, close_dup_,
           close_not_found_, destroy_file_, close_shared_, close_load_, close_store_,
           copy_file_lock_, copy_file_store_, dup_file_, transfer_over_, transfer_begin_,
           transfer_end_, read_no_memory_, lseek_over_, lseek_lock_, lseek_set_, copy_lock_,
           copy_store_, fork_done_, exit_shared_, exit_last_, close_all_load_, close_all_store_,
           exit_done_
  <2>2. pc'[p] \in {"none", "new", "lost", "gone"} => exit_done_(p)
    BY ZenonT(40)
       DEF Normal, Moves, Back, open_, open_bad_flags_, close_, dup2_, transfer_, lseek_, fork_,
           exit_, get_next_fd_, open_put_, close_dupe_, close_file_, close_return_, close_dup_,
           close_not_found_, destroy_file_, close_shared_, close_load_, close_store_,
           copy_file_lock_, copy_file_store_, dup_file_, transfer_over_, transfer_begin_,
           transfer_end_, read_no_memory_, lseek_over_, lseek_lock_, lseek_set_, copy_lock_,
           copy_store_, fork_done_, exit_shared_, exit_last_, close_all_load_, close_all_store_,
           exit_done_
  <2>3. \/ exit_(p) \/ exit_done_(p)
        \/ loc'[p].next = loc[p].next
        \/ /\ loc'[p].next # "exit"
           /\ pc[p] \notin {"ca_scan", "ca_load", "ca_store"} \cup GlobalLabels
    BY DEF Normal, Moves, Back, Args, Clear, GlobalLabels, open_, open_bad_flags_, close_,
           dup2_, transfer_, lseek_, fork_, exit_, get_next_fd_, open_put_, close_dupe_,
           close_file_, close_return_, close_dup_, close_not_found_, destroy_file_,
           close_shared_, close_load_, close_store_, copy_file_lock_, copy_file_store_,
           dup_file_, transfer_over_, transfer_begin_, transfer_end_, read_no_memory_,
           lseek_over_, lseek_lock_, lseek_set_, copy_lock_, copy_store_, fork_done_,
           exit_shared_, exit_last_, close_all_load_, close_all_store_, exit_done_
  <2>4. exit_done_(p) => loc[p].next = "exit" /\ pc'[p] = "gone"
    BY <1>1 DEF exit_done_, Moves, ArgOf
  <2> QED  BY <1>1, <2>1, <2>2, <2>3, <2>4 DEF Running, Exiting, RunningNext, ArgOf
<1>4. ASSUME NEW q \in Procs \ {p}
      PROVE  \/ RunningNext(q) <=> Running(q)
             \/ \E b \in {"user", "lost"} : fork_done_(p, b) /\ q = loc[p].child
  BY <1>1, ZenonT(40) DEF Normal, Running, Exiting, RunningNext, Moves, Back, open_, open_bad_flags_,
              close_, dup2_, transfer_, lseek_, fork_, exit_, get_next_fd_, open_put_,
              close_dupe_, close_file_, close_return_, close_dup_, close_not_found_,
              destroy_file_, close_shared_, close_load_, close_store_, copy_file_lock_,
              copy_file_store_, dup_file_, transfer_over_, transfer_begin_, transfer_end_,
              read_no_memory_, lseek_over_, lseek_lock_, lseek_set_, copy_lock_, copy_store_,
              fork_done_, exit_shared_, exit_last_, close_all_load_, close_all_store_,
              exit_done_
<1> QED  BY <1>2, <1>3, <1>4

(* The slot with a descriptor is the one that a lookup finds.              *)
LEMMA Found ==
    ASSUME setting \in Settings, NumberInv, NEW q \in Procs, NEW i \in Slots,
           files[q][i] # NULL
    PROVE  p_filetable_lookup(q, file[files[q][i]].local_fd) = files[q][i]
  BY Lookup DEF NumberInv

(* What a lookup finds after a step.                                       *)
LEMMA LookupNextIs ==
    ASSUME setting \in Settings, NEW q \in Procs, NEW fd
    PROVE  \/ LookupNext(q, fd) = NULL /\ UnusedNext(q, fd)
           \/ \E i \in Slots : /\ LookupNext(q, fd) = files'[q][i] /\ files'[q][i] # NULL
                               /\ file'[files'[q][i]].local_fd = fd
<1> DEFINE M == MatchNext(q, fd)
<1>1. M \in SUBSET Slots /\ (M # {} => First_(M) \in M)
  <2>1. M \in SUBSET Slots
    BY DEF MatchNext
  <2> QED  BY <2>1, FirstLast
<1>2. \A i \in Slots : i >= 0
  BY Numbers
<1>3. CASE M = {}
  BY <1>2, <1>3 DEF MatchNext, LookupNext, UnusedNext
<1>4. CASE M # {}
  <2>1. First_(M) \in M
    BY <1>1, <1>4
  <2>2. LookupNext(q, fd) = files'[q][First_(M)]
    BY <1>4 DEF LookupNext
  <2> QED  BY <2>1, <2>2 DEF MatchNext
<1> QED  BY <1>3, <1>4

(* and that is the only slot with the descriptor.                          *)
LEMMA FoundNext ==
    ASSUME setting \in Settings, Slots' = Slots, NumberInv', NEW q \in Procs, NEW i \in Slots,
           files'[q][i] # NULL
    PROVE  LookupNext(q, file'[files'[q][i]].local_fd) = files'[q][i]
<1>1. \A j \in Slots : files'[q][j] # NULL
         /\ file'[files'[q][j]].local_fd = file'[files'[q][i]].local_fd => i = j
  BY DEF NumberInv
<1> QED  BY <1>1, LookupNextIs DEF UnusedNext

(* Descriptors are not -1, and neither are open files.                     *)
LEMMA SlotFds ==
    ASSUME BaseInv, CareInv, NEW q \in Procs, NEW i \in Slots, files[q][i] # NULL
    PROVE  /\ file[files[q][i]].local_fd \in Fds /\ OpenFile(files[q][i]) # NULL
           /\ file[files[q][i]].std # -1 => OpenFile(files[q][i]) \in Std
           /\ file[files[q][i]].std = -1 => OpenFile(files[q][i]) = file[files[q][i]].seek
<1>1. /\ NULL \notin Files /\ NULL = -1 /\ Std \subseteq Fds
  BY SameTypes, Numbers DEF BaseInv, GlobalTableSound
<1>2. Public(files[q][i]) /\ files[q][i] \in 0 .. next_struct - 1
  BY DEF BaseInv, PlaceInv, Public
<1>3. file[files[q][i]] \in FileRec
  BY <1>1 DEF BaseInv, GlobalTableSound, TypeOK
<1>4. file[files[q][i]].local_fd \in Fds \cup {-1} /\ file[files[q][i]].std \in Std \cup {-1}
  BY <1>3 DEF FileRec
<1>5. file[files[q][i]].local_fd # -1
  <2>1. CASE files[q][i] \in Std
    <3>1. file[files[q][i]].local_fd = files[q][i]
      BY <1>2, <2>1 DEF CareInv, NameInv, NameOf
    <3> QED  BY <2>1, <3>1 DEF Std, STDIN, STDOUT, STDERR
  <2>2. CASE files[q][i] \notin Std
    BY <1>2, <2>2 DEF CareInv, NameInv, NameOf
  <2> QED  BY <2>1, <2>2
<1>6. file[files[q][i]].std = -1 => file[files[q][i]].seek \in Files
  BY <1>2 DEF BaseInv, FdInv
<1> QED  BY <1>1, <1>4, <1>5, <1>6 DEF OpenFile

(* The table of a process in terms of its slots, before a step             *)
LEMMA Entries ==
    ASSUME BaseInv, CareInv, NumberInv, NEW q \in Procs
    PROVE  /\ \A i \in Slots : Running(q) /\ files[q][i] # NULL =>
                 /\ file[files[q][i]].local_fd \in Fds /\ OpenFile(files[q][i]) # NULL
                 /\ Table(q)[file[files[q][i]].local_fd] = OpenFile(files[q][i])
           /\ \A fd \in Fds : Unused(q, fd) \/ ~Running(q) => Table(q)[fd] = NULL
           /\ Table(q) = [fd \in Fds |-> Table(q)[fd]]
<1>1. setting \in Settings
  BY DEF BaseInv, GlobalTableSound, TypeOK
<1>2. ASSUME NEW i \in Slots, Running(q), files[q][i] # NULL
      PROVE  /\ file[files[q][i]].local_fd \in Fds /\ OpenFile(files[q][i]) # NULL
             /\ Table(q)[file[files[q][i]].local_fd] = OpenFile(files[q][i])
  <2>1. file[files[q][i]].local_fd \in Fds /\ OpenFile(files[q][i]) # NULL
    BY <1>2, SlotFds
  <2>2. p_filetable_lookup(q, file[files[q][i]].local_fd) = files[q][i]
    BY <1>1, <1>2, Found
  <2> QED  BY <1>2, <2>1, <2>2 DEF Table
<1>3. ASSUME NEW fd \in Fds, Unused(q, fd) \/ ~Running(q) PROVE Table(q)[fd] = NULL
  <2>1. CASE ~Running(q)
    BY <2>1 DEF Table
  <2>2. CASE Unused(q, fd)
    <3>1. p_filetable_lookup(q, fd) = NULL
      BY <1>1, <2>2, Lookup DEF Unused
    <3> QED  BY <3>1 DEF Table
  <2> QED  BY <1>3, <2>1, <2>2
<1>4. Table(q) = [fd \in Fds |-> Table(q)[fd]]
  BY DEF Table
<1> QED  BY <1>2, <1>3, <1>4

(* and after it.                                                           *)
LEMMA EntriesNext ==
    ASSUME setting \in Settings, Slots' = Slots, NumberInv', NEW q \in Procs
    PROVE  /\ \A i \in Slots : RunningNext(q) /\ files'[q][i] # NULL
                 /\ file'[files'[q][i]].local_fd \in Fds =>
                 TableNext(q)[file'[files'[q][i]].local_fd] = OpenNext(files'[q][i])
           /\ \A fd \in Fds : UnusedNext(q, fd) \/ ~RunningNext(q) => TableNext(q)[fd] = NULL
           /\ TableNext(q) = [fd \in Fds |-> TableNext(q)[fd]]
<1>1. ASSUME NEW i \in Slots, RunningNext(q), files'[q][i] # NULL,
             file'[files'[q][i]].local_fd \in Fds
      PROVE  TableNext(q)[file'[files'[q][i]].local_fd] = OpenNext(files'[q][i])
  <2>1. LookupNext(q, file'[files'[q][i]].local_fd) = files'[q][i]
    BY <1>1, FoundNext
  <2> QED  BY <1>1, <2>1 DEF TableNext
<1>2. ASSUME NEW fd \in Fds, UnusedNext(q, fd) \/ ~RunningNext(q) PROVE TableNext(q)[fd] = NULL
  <2>1. CASE ~RunningNext(q)
    BY <2>1 DEF TableNext
  <2>2. CASE UnusedNext(q, fd)
    <3>1. LookupNext(q, fd) = NULL
      BY <2>2, LookupNextIs DEF UnusedNext
    <3> QED  BY <3>1 DEF TableNext
  <2> QED  BY <1>2, <2>1, <2>2
<1>3. TableNext(q) = [fd \in Fds |-> TableNext(q)[fd]]
  BY DEF TableNext
<1> QED  BY <1>1, <1>2, <1>3

(* The descriptors that are in the same slots as before are unchanged.     *)
LEMMA KeptEntry ==
    ASSUME BaseInv, Careful, CareInv, DescInv, NEW p \in Procs, Normal(p), NumberInv',
           NEW q \in Procs, Running(q), RunningNext(q), NEW fd \in Fds,
           \A i \in Slots : \/ files'[q][i] = files[q][i]
                            \/ /\ files'[q][i] # NULL => file'[files'[q][i]].local_fd # fd
                               /\ files[q][i] # NULL => file[files[q][i]].local_fd # fd
    PROVE  TableNext(q)[fd] = Table(q)[fd]
<1>1. /\ setting \in Settings /\ Slots' = Slots /\ NumberInv
      /\ \A i \in Slots : files[q][i] # NULL => file'[files[q][i]] = file[files[q][i]]
  BY Known DEF Facts, DescInv
<1>2. ASSUME NEW i \in Slots, files[q][i] # NULL, file[files[q][i]].local_fd = fd
      PROVE  TableNext(q)[fd] = Table(q)[fd]
  <2>1. files'[q][i] = files[q][i] /\ file'[files[q][i]] = file[files[q][i]]
    BY <1>1, <1>2
  <2>2. Table(q)[fd] = OpenFile(files[q][i])
    BY <1>1, <1>2, Entries
  <2>3. TableNext(q)[fd] = OpenNext(files[q][i])
    BY <1>1, <1>2, <2>1, EntriesNext
  <2> QED  BY <2>1, <2>2, <2>3 DEF OpenFile, OpenNext
<1>3. CASE Unused(q, fd)
  <2>1. UnusedNext(q, fd)
    BY <1>1, <1>3 DEF Unused, UnusedNext
  <2> QED  BY <1>1, <1>3, <2>1, Entries, EntriesNext
<1> QED  BY <1>2, <1>3 DEF Unused

(* A process whose slots stay keeps its table.                             *)
LEMMA SameTable ==
    ASSUME BaseInv, Careful, CareInv, DescInv, NEW p \in Procs, Normal(p), NumberInv',
           NEW q \in Procs, RunningNext(q) <=> Running(q),
           Running(q) => \A i \in Slots : files'[q][i] = files[q][i]
    PROVE  TableNext(q) = Table(q)
<1>1. /\ setting \in Settings /\ Slots' = Slots /\ NumberInv
  BY Known DEF Facts, DescInv
<1>2. ASSUME NEW fd \in Fds PROVE TableNext(q)[fd] = Table(q)[fd]
  <2>1. CASE Running(q)
    BY <2>1, KeptEntry
  <2>2. CASE ~Running(q)
    BY <1>1, <2>2, Entries, EntriesNext
  <2> QED  BY <2>1, <2>2
<1> QED  BY <1>1, <1>2, Entries, EntriesNext

(* A file that is put into a free slot has its descriptor.                 *)
LEMMA PutEntry ==
    ASSUME BaseInv, Careful, CareInv, DescInv, NEW p \in Procs, Normal(p), NumberInv',
           Running(p), RunningNext(p), NEW f, f # NULL, NEW k \in Slots, files[p][k] = NULL,
           files' = [files EXCEPT ![p][k] = f], NEW fd \in Fds, file'[f].local_fd = fd,
           Unused(p, fd)
    PROVE  /\ Table(p)[fd] = NULL
           /\ TableNext(p) = [Table(p) EXCEPT ![fd] = OpenNext(f)]
<1>1. /\ setting \in Settings /\ Slots' = Slots /\ NumberInv
      /\ files \in [Procs -> [Slots -> Files \cup {NULL}]]
  BY Known DEF Facts, DescInv
<1>2. files'[p][k] = f /\ \A i \in Slots \ {k} : files'[p][i] = files[p][i]
  BY <1>1
<1>3. TableNext(p)[fd] = OpenNext(f)
  BY <1>1, <1>2, EntriesNext
<1>4. ASSUME NEW x \in Fds, x # fd PROVE TableNext(p)[x] = Table(p)[x]
  <2>1. \A i \in Slots : \/ files'[p][i] = files[p][i]
                         \/ /\ files'[p][i] # NULL => file'[files'[p][i]].local_fd # x
                            /\ files[p][i] # NULL => file[files[p][i]].local_fd # x
    BY <1>2, <1>4
  <2> QED  BY <2>1, KeptEntry
<1>5. /\ Table(p) = [x \in Fds |-> Table(p)[x]] /\ TableNext(p) = [x \in Fds |-> TableNext(p)[x]]
      /\ Table(p)[fd] = NULL
  BY <1>1, Entries, EntriesNext
<1> QED  BY <1>3, <1>4, <1>5

(* A slot that is cleared was the only one with its descriptor.            *)
LEMMA ClearEntry ==
    ASSUME BaseInv, Careful, CareInv, DescInv, NEW p \in Procs, Normal(p), NumberInv',
           Running(p), RunningNext(p), NEW k \in Slots, files[p][k] # NULL,
           files' = [files EXCEPT ![p][k] = NULL]
    PROVE  LET fd == file[files[p][k]].local_fd IN
           /\ fd \in Fds /\ Table(p)[fd] # NULL
           /\ TableNext(p) = [Table(p) EXCEPT ![fd] = NULL]
<1> DEFINE fd == file[files[p][k]].local_fd
<1>1. /\ setting \in Settings /\ Slots' = Slots /\ NumberInv
      /\ files \in [Procs -> [Slots -> Files \cup {NULL}]]
      /\ \A i \in Slots : files[p][i] # NULL => file'[files[p][i]] = file[files[p][i]]
  BY Known DEF Facts, DescInv
<1>2. files'[p][k] = NULL /\ \A i \in Slots \ {k} : files'[p][i] = files[p][i]
  BY <1>1
<1>3. fd \in Fds /\ Table(p)[fd] # NULL
  BY <1>1, Entries
<1>4. UnusedNext(p, fd)
  BY <1>1, <1>2 DEF UnusedNext, NumberInv
<1>5. ASSUME NEW x \in Fds, x # fd PROVE TableNext(p)[x] = Table(p)[x]
  <2>1. \A i \in Slots : \/ files'[p][i] = files[p][i]
                         \/ /\ files'[p][i] # NULL => file'[files'[p][i]].local_fd # x
                            /\ files[p][i] # NULL => file[files[p][i]].local_fd # x
    BY <1>2, <1>5
  <2> QED  BY <2>1, KeptEntry
<1>6. /\ Table(p) = [x \in Fds |-> Table(p)[x]] /\ TableNext(p) = [x \in Fds |-> TableNext(p)[x]]
  BY <1>1, Entries, EntriesNext
<1>7. TableNext(p)[fd] = NULL
  BY <1>1, <1>3, <1>4, EntriesNext
<1> HIDE DEF fd
<1>8. TableNext(p) = [Table(p) EXCEPT ![fd] = NULL]
  BY <1>3, <1>5, <1>6, <1>7
<1> QED  BY <1>3, <1>8 DEF fd

(* The steps that change the tables of processes that run.                 *)
Visible(p) ==
    \/ open_put_(p) \/ dup_file_(p) \/ \E j \in Slots : close_dupe_(p, j)
    \/ loc[p].next # "exit" /\ \E from \in GlobalLabels \cup {"ca_store"} : Back(p, from)

(* The other steps leave them alone.                                       *)
LEMMA Invisible ==
    ASSUME BaseInv, CareInv, NEW p \in Procs, Normal(p), ~Visible(p), NEW q \in Procs, Running(q)
    PROVE  \A i \in Slots : files'[q][i] = files[q][i]
<1>1. Facts(p) /\ ArgOf(p)
  BY Known DEF BaseInv, ArgInv
<1>2. CASE files' = files
  BY <1>2
<1>3. CASE exit_done_(p)
  <2>1. p # q
    BY <1>1, <1>3 DEF exit_done_, Moves, ArgOf, Running, Exiting
  <2> QED  BY <1>1, <1>3, <2>1 DEF exit_done_, Facts
<1>4. ASSUME NEW r \in Procs, fork_(p, r) PROVE \A i \in Slots : files'[q][i] = files[q][i]
  <2>1. r # q
    BY <1>4 DEF fork_, Running
  <2> QED  BY <1>1, <1>4, <2>1 DEF fork_, Facts
<1>5. CASE copy_store_(p)
  <2>1. pc[p] \in ForkLabels
    BY <1>5 DEF copy_store_, Moves, ForkLabels
  <2>2. loc[p].child \in Procs /\ loc[p].child # q
    BY <1>1, <2>1 DEF Facts, ChildInv, Running
  <2> QED  BY <1>1, <1>5, <2>2 DEF copy_store_, Facts
<1>6. ASSUME NEW from \in GlobalLabels \cup {"ca_store"}, Back(p, from)
      PROVE  \A i \in Slots : files'[q][i] = files[q][i]
  <2>1. loc[p].next = "exit"
    BY <1>6 DEF Visible
  <2>2. p # q
    BY <2>1 DEF Running, Exiting
  <2> QED  BY <1>1, <1>6, <2>2 DEF Back, Facts
<1> QED  BY <1>2, <1>3, <1>4, <1>5, <1>6, Writes DEF Visible

(* The operations of Descriptors, on the tables before and after a step.   *)
LEMMA Operations ==
    ASSUME Slots' = Slots, NEW p \in Procs, \A q \in Procs \ {p} : TableNext(q) = Table(q)
    PROVE  /\ /\ \A q \in Procs : RunningNext(q) <=> Running(q)
              /\ TableNext(p) = Table(p) /\ pos' = pos
              => UNCHANGED D!vars
           /\ \A fd \in Fds : \A d :
                 /\ \A q \in Procs : RunningNext(q) <=> Running(q)
                 /\ Running(p) /\ Table(p)[fd] = NULL /\ pos' = pos
                 /\ \A q \in Procs, x \in Fds : Table(q)[x] # d
                 /\ TableNext(p) = [Table(p) EXCEPT ![fd] = d]
                 => D!Open(p, fd, d)
           /\ \A fd \in Fds :
                 /\ \A q \in Procs : RunningNext(q) <=> Running(q)
                 /\ Table(p)[fd] # NULL /\ pos' = pos
                 /\ TableNext(p) = [Table(p) EXCEPT ![fd] = NULL]
                 => D!Close(p, fd)
           /\ \A old, fd \in Fds :
                 /\ \A q \in Procs : RunningNext(q) <=> Running(q)
                 /\ Table(p)[old] # NULL /\ Table(p)[fd] = NULL /\ pos' = pos
                 /\ TableNext(p) = [Table(p) EXCEPT ![fd] = Table(p)[old]]
                 => D!Dup2(p, old, fd)
           /\ /\ \A q \in Procs \ {p} : RunningNext(q) <=> Running(q)
              /\ ~RunningNext(p) /\ pos' = pos /\ TableNext(p) = [fd \in Fds |-> NULL]
              => D!Exit(p)
           /\ \A fd \in Fds, n \in 0 .. MaxPos :
                 /\ \A q \in Procs : RunningNext(q) <=> Running(q)
                 /\ TableNext(p) = Table(p) /\ Table(p)[fd] # NULL
                 /\ pos' = [pos EXCEPT ![Table(p)[fd]] = @ + n]
                 => D!Transfer(p, fd, n)
           /\ \A fd \in Fds : \A x :
                 /\ \A q \in Procs : RunningNext(q) <=> Running(q)
                 /\ TableNext(p) = Table(p) /\ Table(p)[fd] # NULL
                 /\ pos' = [pos EXCEPT ![Table(p)[fd]] = x]
                 => D!Seek(p, fd, x)
<1> DEFINE T == [q \in Procs |-> Table(q)]
           R == {q \in Procs : Running(q)}
<1>1. T' = [q \in Procs |-> TableNext(q)] /\ R' = {q \in Procs : RunningNext(q)}
  BY Primed
<1>2. T' = [T EXCEPT ![p] = TableNext(p)]
  BY <1>1
<1>3. (\A q \in Procs : RunningNext(q) <=> Running(q)) => R' = R
  BY <1>1
<1>4. TableNext(p) = Table(p) => T' = T
  BY <1>1
<1>5. \A fd, d : TableNext(p) = [Table(p) EXCEPT ![fd] = d] => T' = [T EXCEPT ![p][fd] = d]
  BY <1>2
<1>6. T[p] = Table(p) /\ \A q \in Procs : T[q] = Table(q)
  OBVIOUS
<1>7. p \in R <=> Running(p)
  OBVIOUS
<1>8. (\A q \in Procs \ {p} : RunningNext(q) <=> Running(q)) /\ ~RunningNext(p) => R' = R \ {p}
  BY <1>1
<1> HIDE DEF T, R
<1>9. /\ (UNCHANGED <<R, T, pos>>) => UNCHANGED D!vars
  BY DEF D!vars, T, R
<1>10. ASSUME NEW fd \in Fds, NEW d, \A q \in Procs : RunningNext(q) <=> Running(q),
              Running(p), Table(p)[fd] = NULL, pos' = pos,
              \A q \in Procs, x \in Fds : Table(q)[x] # d,
              TableNext(p) = [Table(p) EXCEPT ![fd] = d]
       PROVE  D!Open(p, fd, d)
  <2>1. R' = R /\ p \in R /\ T[p][fd] = NULL /\ T' = [T EXCEPT ![p][fd] = d]
    BY <1>3, <1>5, <1>6, <1>7, <1>10
  <2>2. \A q \in Procs, x \in Fds : T[q][x] # d
    BY <1>6, <1>10
  <2> QED  BY <1>10, <2>1, <2>2 DEF D!Open, T, R
<1>11. ASSUME NEW fd \in Fds, \A q \in Procs : RunningNext(q) <=> Running(q),
              Table(p)[fd] # NULL, pos' = pos, TableNext(p) = [Table(p) EXCEPT ![fd] = NULL]
       PROVE  D!Close(p, fd)
  <2>1. R' = R /\ T[p][fd] # NULL /\ T' = [T EXCEPT ![p][fd] = NULL]
    BY <1>3, <1>5, <1>6, <1>11
  <2> QED  BY <1>11, <2>1 DEF D!Close, T, R
<1>12. ASSUME NEW old \in Fds, NEW fd \in Fds, \A q \in Procs : RunningNext(q) <=> Running(q),
              Table(p)[old] # NULL, Table(p)[fd] = NULL, pos' = pos,
              TableNext(p) = [Table(p) EXCEPT ![fd] = Table(p)[old]]
       PROVE  D!Dup2(p, old, fd)
  <2>1. R' = R /\ T[p][old] # NULL /\ T[p][fd] = NULL /\ T' = [T EXCEPT ![p][fd] = T[p][old]]
    BY <1>3, <1>5, <1>6, <1>12, ZenonT(40)
  <2> QED  BY <1>12, <2>1 DEF D!Dup2, T, R
<1>13. ASSUME \A q \in Procs \ {p} : RunningNext(q) <=> Running(q), ~RunningNext(p), pos' = pos,
              TableNext(p) = [fd \in Fds |-> NULL]
       PROVE  D!Exit(p)
  <2>1. R' = R \ {p} /\ T' = [T EXCEPT ![p] = [fd \in Fds |-> NULL]]
    BY <1>2, <1>8, <1>13
  <2> QED  BY <1>13, <2>1 DEF D!Exit, D!Empty, T, R
<1>14. ASSUME NEW fd \in Fds, NEW n \in 0 .. MaxPos,
              \A q \in Procs : RunningNext(q) <=> Running(q),
              TableNext(p) = Table(p), Table(p)[fd] # NULL,
              pos' = [pos EXCEPT ![Table(p)[fd]] = @ + n]
       PROVE  D!Transfer(p, fd, n)
  <2>1. R' = R /\ T' = T /\ T[p][fd] # NULL /\ pos' = [pos EXCEPT ![T[p][fd]] = @ + n]
    BY <1>3, <1>4, <1>6, <1>14
  <2> QED  BY <2>1 DEF D!Transfer, T, R
<1>15. ASSUME NEW fd \in Fds, NEW x, \A q \in Procs : RunningNext(q) <=> Running(q),
              TableNext(p) = Table(p), Table(p)[fd] # NULL,
              pos' = [pos EXCEPT ![Table(p)[fd]] = x]
       PROVE  D!Seek(p, fd, x)
  <2>1. R' = R /\ T' = T /\ T[p][fd] # NULL /\ pos' = [pos EXCEPT ![T[p][fd]] = x]
    BY <1>3, <1>4, <1>6, <1>15
  <2> QED  BY <2>1 DEF D!Seek, T, R
<1> QED  BY <1>3, <1>4, <1>9, <1>10, <1>11, <1>12, <1>13, <1>14, <1>15

(* The end of fork: the child has what its parent has.                     *)
LEMMA ForkOperation ==
    ASSUME BaseInv, Careful, CareInv, DescInv, NEW p \in Procs, Normal(p), NumberInv',
           fork_done(p), fork_done_(p, "user")
    PROVE  D!Fork(p, loc[p].child)
<1> DEFINE c == loc[p].child
           T == [q \in Procs |-> Table(q)]
           R == {q \in Procs : Running(q)}
<1>1. Facts(p) /\ CopyInv /\ ArgOf(p)
  BY Known DEF DescInv, BaseInv, ArgInv
<1>2. /\ pc[p] = "fk_scan" /\ pc'[p] = "user" /\ c \in Procs /\ c # p /\ pc'[c] = "user"
      /\ loc'[c] = loc[c] /\ files' = files /\ file' = file /\ pos' = pos /\ setting' = setting
      /\ pc[c] = "new"
  BY <1>1 DEF fork_done_, SameStructs, Facts, ChildInv, ForkLabels
<1>3. loc[c].next # "exit"
  BY <1>2 DEF BaseInv, ArgInv, ArgOf, GlobalLabels
<1>4. ~Running(c) /\ RunningNext(c) /\ Running(p) /\ RunningNext(p)
  <2>1. ~Running(c) /\ RunningNext(c)
    BY <1>2, <1>3 DEF Running, RunningNext
  <2>2. Running(p)
    BY <1>1, <1>2 DEF Running, Exiting, ArgOf, GlobalLabels
  <2>3. ~exit_(p)
    BY <1>2 DEF exit_, Moves
  <2> QED  BY <2>1, <2>2, <2>3, RunStep
<1>5. \A q \in Procs \ {c} : RunningNext(q) <=> Running(q)
  <2>1. \A q \in Procs \ {p, c} : RunningNext(q) <=> Running(q)
    BY RunStep DEF fork_done_
  <2> QED  BY <1>4, <2>1
<1>6. \A q \in Procs \ {c} : TableNext(q) = Table(q)
  BY <1>2, <1>5, SameTable
<1>7. \A i \in Slots : files[c][i] = files[p][i]
  <2>1. Used(p, loc[p].i) = {}
    BY DEF fork_done
  <2>2. ASSUME NEW i \in Slots, i \notin Std PROVE files[c][i] = files[p][i]
    <3>1. files[c][i] = IF i < loc[p].i THEN files[p][i] ELSE NULL
      BY <1>1, <1>2, <2>2 DEF CopyInv, ForkLabels
    <3>2. loc[p].i \in Int /\ i \in Int
      <4>1. loc[p] \in Locals
        BY SameTypes DEF BaseInv, GlobalTableSound, LocalTypes
      <4>2. loc[p].i \in 0 .. OPEN_MAX /\ Slots \subseteq Nat
        BY <1>1, <4>1, SetLocals DEF Facts
      <4> QED  BY <4>2
    <3>3. ~(i < loc[p].i) => files[p][i] = NULL
      BY <2>1, <3>2 DEF Used
    <3> QED  BY <3>1, <3>3
  <2>3. \A i \in Std : files[c][i] = i /\ files[p][i] = i
    BY <1>1, <1>2 DEF CopyInv
  <2> QED  BY <2>2, <2>3
<1>8. TableNext(c) = Table(p)
  <2>1. /\ setting \in Settings /\ Slots' = Slots /\ NumberInv
    BY <1>1 DEF Facts, DescInv
  <2>2. ASSUME NEW i \in Slots, files[p][i] # NULL
        PROVE  LET fd == file[files[p][i]].local_fd IN
               fd \in Fds /\ TableNext(c)[fd] = Table(p)[fd]
    <3>1. /\ file[files[p][i]].local_fd \in Fds
          /\ Table(p)[file[files[p][i]].local_fd] = OpenFile(files[p][i])
      BY <1>4, <2>1, <2>2, Entries
    <3>2. files'[c][i] = files[p][i] /\ file'[files[p][i]] = file[files[p][i]]
      BY <1>2, <1>7
    <3>3. TableNext(c)[file[files[p][i]].local_fd] = OpenNext(files[p][i])
      BY <1>2, <1>4, <2>1, <2>2, <3>1, <3>2, EntriesNext
    <3> QED  BY <3>1, <3>2, <3>3 DEF OpenFile, OpenNext
  <2>3. ASSUME NEW fd \in Fds PROVE TableNext(c)[fd] = Table(p)[fd]
    <3>1. CASE Unused(p, fd)
      <4>1. UnusedNext(c, fd)
        BY <1>2, <1>7, <3>1 DEF Unused, UnusedNext
      <4> QED  BY <1>2, <2>1, <3>1, <4>1, Entries, EntriesNext
    <3>2. CASE ~Unused(p, fd)
      BY <2>2, <3>2 DEF Unused
    <3> QED  BY <3>1, <3>2
  <2> QED  BY <1>2, <2>1, <2>3, Entries, EntriesNext
<1>9. T' = [q \in Procs |-> TableNext(q)] /\ R' = {q \in Procs : RunningNext(q)}
  <2>1. Slots' = Slots
    BY <1>1 DEF Facts
  <2> QED  BY <2>1, Primed
<1>10. T' = [T EXCEPT ![c] = T[p]]
  <2> HIDE DEF c
  <2> QED  BY <1>2, <1>6, <1>8, <1>9
<1>11. R' = R \cup {c} /\ p \in R /\ c \notin R
  <2> HIDE DEF c
  <2> QED  BY <1>2, <1>4, <1>5, <1>9
<1> QED  BY <1>2, <1>10, <1>11 DEF D!Fork

(* A file is put into a slot by open and dup2, with the number they have.  *)
LEMMA OpenOperation ==
    ASSUME BaseInv, Careful, CareInv, DescInv, NEW p \in Procs, open_put(p), Normal(p),
           NumberInv', open_put_(p)
    PROVE  DescriptorStep
<1> DEFINE f == loc[p].f
           fd == file[loc[p].f].local_fd
<1>1. Facts(p) /\ NumberInv /\ SeekInv /\ ArgOf(p)
  BY Known DEF DescInv, BaseInv, ArgInv
<1>2. /\ pc[p] = "op_put" /\ file' = file /\ pos' = pos /\ p \in InOpen /\ Putting(p, f)
  BY DEF open_put_, Moves, SameStructs, InOpen
<1>3. /\ setting \in Settings /\ Slots' = Slots
      /\ files \in [Procs -> [Slots -> Files \cup {NULL}]]
  BY <1>1 DEF Facts
<1>4. \A q \in Procs : RunningNext(q) <=> Running(q)
  <2>1. ~exit_(p) /\ \A b : ~fork_done_(p, b)
    BY <1>2 DEF exit_, fork_done_, Moves
  <2> QED  BY <2>1, RunStep
<1>5. Running(p)
  BY <1>1, <1>2 DEF Running, Exiting, ArgOf, GlobalLabels
<1>6. CASE files' = files
  <2>1. \A q \in Procs : TableNext(q) = Table(q)
    BY <1>4, <1>6, SameTable
  <2>2. UNCHANGED D!vars
    BY <1>2, <1>3, <1>4, <2>1, Operations
  <2> QED  BY <2>2 DEF DescriptorStep
<1>7. ASSUME NEW k \in Slots, files[p][k] = NULL, files' = [files EXCEPT ![p][k] = f]
      PROVE  DescriptorStep
  <2>1. f \in live \ Std /\ ~file[f].is_dupe /\ f \in Files /\ NULL \notin Files
    BY <1>1, <1>2 DEF Facts, PlaceInv, ArgOf, OpenLabels
  <2>2. f \in 0 .. next_struct - 1 /\ f # NULL
    BY <2>1 DEF BaseInv, GlobalTableSound, TypeOK
  <2>3. file[f].std = -1 /\ file[f].seek = f
    BY <1>1, <2>1, <2>2 DEF Facts, NameInv, NameOf, SeekInv
  <2>4. fd \in Fds /\ Unused(p, fd)
    <3>1. file[f] \in FileRec
      BY <2>1 DEF BaseInv, GlobalTableSound, TypeOK
    <3>2. fd \in Fds \cup {-1}
      BY <3>1 DEF FileRec
    <3>3. fd >= 3
      BY <1>1, <1>2 DEF Facts, NameInv
    <3>4. Unused(p, fd)
      BY <1>1, <1>2 DEF NumberInv
    <3> QED  BY <3>2, <3>3, <3>4
  <2>5. OpenNext(f) = f
    BY <1>2, <2>3 DEF OpenNext
  <2>6. Table(p)[fd] = NULL /\ TableNext(p) = [Table(p) EXCEPT ![fd] = f]
    <3>1. RunningNext(p) /\ file'[f].local_fd = fd
      BY <1>2, <1>4, <1>5
    <3> HIDE DEF f, fd
    <3> QED  BY <1>5, <1>7, <2>2, <2>4, <2>5, <3>1, PutEntry, ZenonT(40)
  <2>7. \A q \in Procs \ {p} : TableNext(q) = Table(q)
    <3>1. \A q \in Procs \ {p} : \A i \in Slots : files'[q][i] = files[q][i]
      BY <1>3, <1>7
    <3> QED  BY <1>4, <3>1, SameTable
  <2>8. ASSUME NEW q \in Procs, NEW x \in Fds PROVE Table(q)[x] # f
    <3>1. CASE Unused(q, x) \/ ~Running(q)
      BY <1>1, <2>2, <3>1, Entries
    <3>2. ASSUME NEW i \in Slots, files[q][i] # NULL, Running(q),
                 file[files[q][i]].local_fd = x
          PROVE  Table(q)[x] # f
      <4>1. Table(q)[x] = OpenFile(files[q][i])
        BY <1>1, <3>2, Entries
      <4>2. CASE file[files[q][i]].std # -1
        BY <2>1, <3>2, <4>1, <4>2, SlotFds
      <4>3. CASE file[files[q][i]].std = -1
        <5>1. Table(q)[x] = file[files[q][i]].seek
          BY <3>2, <4>1, <4>3, SlotFds
        <5>2. Public(files[q][i])
          BY <1>1, <3>2 DEF Facts
        <5>3. files[q][i] \in 0 .. next_struct - 1 /\ files[q][i] # f
          BY <1>2, <5>2 DEF Public
        <5> QED  BY <1>1, <1>2, <4>3, <5>1, <5>3 DEF SeekInv
      <4> QED  BY <4>2, <4>3
    <3> QED  BY <3>1, <3>2 DEF Unused
  <2>9. D!Open(p, fd, f)
    <3> HIDE DEF f, fd
    <3> QED  BY <1>2, <1>3, <1>4, <1>5, <2>4, <2>6, <2>7, <2>8, Operations
  <2> QED  BY <2>9 DEF DescriptorStep
<1> QED  BY <1>2, <1>6, <1>7 DEF Putting

(* dup2 gives the open file of the old descriptor a new one.               *)
LEMMA DupOperation ==
    ASSUME BaseInv, Careful, CareInv, DescInv, NEW p \in Procs, dup_file(p), Normal(p),
           NumberInv', dup_file_(p)
    PROVE  DescriptorStep
<1> DEFINE f == loc[p].f
           fd == loc[p].fd
           old == loc[p].old
<1>1. Facts(p) /\ NumberInv /\ ArgOf(p) /\ DupOf(p) /\ ClosingOf(p)
  BY Known DEF DescInv, BaseInv, ArgInv, CareInv, DupInv, ClosingInv
<1>2. /\ pc[p] = "dup_copy" /\ pos' = pos /\ Putting(p, next_struct)
      /\ file'[next_struct].std = file[f].std /\ file'[next_struct].seek = file[f].seek
      /\ file'[next_struct].local_fd = fd /\ next_struct \in Files
  BY DEF dup_file_, Moves
<1>3. /\ setting \in Settings /\ Slots' = Slots /\ NULL \notin Files
      /\ files \in [Procs -> [Slots -> Files \cup {NULL}]]
  BY <1>1 DEF Facts
<1>4. \A q \in Procs : RunningNext(q) <=> Running(q)
  <2>1. ~exit_(p) /\ \A b : ~fork_done_(p, b)
    BY <1>2 DEF exit_, fork_done_, Moves
  <2> QED  BY <2>1, RunStep
<1>5. Running(p)
  BY <1>1, <1>2 DEF Running, Exiting, ArgOf, GlobalLabels
<1>6. CASE files' = files
  <2>1. \A q \in Procs : TableNext(q) = Table(q)
    BY <1>4, <1>6, SameTable
  <2>2. UNCHANGED D!vars
    BY <1>2, <1>3, <1>4, <2>1, Operations
  <2> QED  BY <2>2 DEF DescriptorStep
<1>7. ASSUME NEW k \in Slots, files[p][k] = NULL, files' = [files EXCEPT ![p][k] = next_struct]
      PROVE  DescriptorStep
  <2>1. /\ loc[p].next = "dup2" /\ fd \in Fds /\ old \in Fds /\ Unused(p, fd)
    BY <1>1, <1>2 DEF ArgOf, ClosingOf
  <2>2. f = p_filetable_lookup(p, old) /\ f # NULL
    BY <1>1, <1>2, <2>1 DEF DupOf
  <2>3. PICK i \in Slots : f = files[p][i] /\ file[f].local_fd = old
    BY <1>3, <2>2, Lookup
  <2>4. Table(p)[old] = OpenFile(f) /\ OpenFile(f) # NULL
    BY <1>1, <1>5, <2>2, <2>3, Entries
  <2>5. OpenNext(next_struct) = Table(p)[old]
    BY <1>2, <2>4 DEF OpenNext, OpenFile
  <2>6. Table(p)[fd] = NULL /\ TableNext(p) = [Table(p) EXCEPT ![fd] = Table(p)[old]]
    <3>1. RunningNext(p) /\ next_struct # NULL /\ file'[next_struct].local_fd = fd
      BY <1>2, <1>3, <1>4, <1>5
    <3> HIDE DEF fd, old
    <3>2. Table(p)[fd] = NULL /\ TableNext(p) = [Table(p) EXCEPT ![fd] = OpenNext(next_struct)]
      BY <1>5, <1>7, <2>1, <3>1, PutEntry
    <3> QED  BY <2>5, <3>2
  <2>7. \A q \in Procs \ {p} : TableNext(q) = Table(q)
    <3>1. \A q \in Procs \ {p} : \A j \in Slots : files'[q][j] = files[q][j]
      BY <1>3, <1>7
    <3> QED  BY <1>4, <3>1, SameTable
  <2>8. D!Dup2(p, old, fd)
    <3> HIDE DEF f, fd, old
    <3> QED  BY <1>2, <1>3, <1>4, <2>1, <2>4, <2>6, <2>7, Operations
  <2> QED  BY <2>8 DEF DescriptorStep
<1> QED  BY <1>2, <1>6, <1>7 DEF Putting

(* close removes the descriptor when its slot is cleared.                  *)
LEMMA CloseOperation ==
    ASSUME BaseInv, Careful, CareInv, DescInv, NEW p \in Procs, Normal(p), NumberInv', Running(p),
           pc[p] \in {"cl_scan"} \cup GlobalLabels, NEW k \in Slots, files[p][k] # NULL,
           files' = [files EXCEPT ![p][k] = NULL], file[files[p][k]].local_fd = loc[p].fd
    PROVE  DescriptorStep
<1> DEFINE fd == loc[p].fd
<1>1. Facts(p)
  BY Known
<1>2. pos' = pos
  BY PosKept DEF transfer_end_, lseek_set_, Moves, GlobalLabels
<1>3. /\ setting \in Settings /\ Slots' = Slots
      /\ files \in [Procs -> [Slots -> Files \cup {NULL}]]
  BY <1>1 DEF Facts
<1>4. \A q \in Procs : RunningNext(q) <=> Running(q)
  <2>1. ~exit_(p) /\ \A b : ~fork_done_(p, b)
    BY DEF exit_, fork_done_, Moves, GlobalLabels
  <2> QED  BY <2>1, RunStep
<1>5. fd \in Fds /\ Table(p)[fd] # NULL /\ TableNext(p) = [Table(p) EXCEPT ![fd] = NULL]
  <2>1. RunningNext(p)
    BY <1>4
  <2> QED  BY <2>1, ClearEntry
<1>6. \A q \in Procs \ {p} : TableNext(q) = Table(q)
  <2>1. \A q \in Procs \ {p} : \A i \in Slots : files'[q][i] = files[q][i]
    BY <1>3
  <2> QED  BY <1>4, <2>1, SameTable
<1>7. D!Close(p, fd)
  <2> HIDE DEF fd
  <2> QED  BY <1>2, <1>3, <1>4, <1>5, <1>6, Operations
<1> QED  BY <1>5, <1>7 DEF DescriptorStep

(* The end of a transfer, or of lseek, moves the one position.             *)
LEMMA MoveOperation ==
    ASSUME BaseInv, Careful, CareInv, DescInv, NEW p \in Procs, Call(p) \/ Step(p), Normal(p),
           NumberInv', pos' # pos
    PROVE  DescriptorStep
<1> DEFINE f == loc[p].f
           fd == file[loc[p].f].local_fd
<1>1. Facts(p) /\ NumberInv /\ PosInv /\ ArgOf(p) /\ UseOf(p)
  BY Known DEF DescInv, BaseInv, ArgInv, CareInv, UseInv
<1>2. /\ pc[p] \in {"rw_io", "ls_set"} /\ file[f].std = -1 /\ files' = files
  BY PosMoved
<1>3. Slots' = Slots
  BY <1>1 DEF Facts
<1>4. \A q \in Procs : RunningNext(q) <=> Running(q)
  <2>1. ~exit_(p) /\ \A b : ~fork_done_(p, b)
    BY <1>2 DEF exit_, fork_done_, Moves
  <2> QED  BY <2>1, RunStep
<1>5. Running(p)
  BY <1>1, <1>2 DEF Running, Exiting, ArgOf, GlobalLabels
<1>6. \A q \in Procs : TableNext(q) = Table(q)
  BY <1>2, <1>4, SameTable
<1>7. PICK i \in Slots : files[p][i] = f
  BY <1>1, <1>2 DEF UseOf, UseLabels
<1>8. f # NULL
  <2>1. f \in Files /\ NULL \notin Files
    BY <1>1, <1>2 DEF ArgOf, UseLabels, Facts
  <2> QED  BY <2>1
<1>9. fd \in Fds /\ Table(p)[fd] = file[f].seek /\ Table(p)[fd] # NULL
  BY <1>1, <1>2, <1>5, <1>7, <1>8, Entries DEF OpenFile
<1>10. CASE pc[p] = "rw_io"
  <2>1. transfer_end(p)
    BY <1>10, Doing DEF read_no_memory
  <2>2. PICK n \in 0 .. MaxPos - loc[p].tmp : pos' = [pos EXCEPT ![file[f].seek] = loc[p].tmp + n]
    BY <2>1 DEF transfer_end
  <2>3. loc[p].tmp = pos[file[f].seek] /\ loc[p].tmp \in 0 .. MaxPos
    BY <1>1, <1>2, <1>10 DEF PosInv, ArgOf
  <2>4. MaxPos \in Nat
    BY FileTableAssumption
  <2>5. n \in 0 .. MaxPos
    BY <2>3, <2>4
  <2>6. pos' = [pos EXCEPT ![Table(p)[fd]] = @ + n]
    BY <1>9, <2>2, <2>3
  <2>7. D!Transfer(p, fd, n)
    <3> HIDE DEF f, fd
    <3> QED  BY <1>3, <1>4, <1>6, <1>9, <2>5, <2>6, Operations
  <2> QED  BY <1>9, <2>1, <2>5, <2>7 DEF DescriptorStep
<1>11. CASE pc[p] = "ls_set"
  <2>1. lseek_set(p)
    BY <1>11, Doing
  <2>2. pos' = [pos EXCEPT ![Table(p)[fd]] = loc[p].tmp]
    BY <1>9, <2>1 DEF lseek_set
  <2>3. D!Seek(p, fd, loc[p].tmp)
    <3> HIDE DEF f, fd
    <3> QED  BY <1>3, <1>4, <1>6, <1>9, <2>2, Operations
  <2> QED  BY <1>9, <2>1, <2>3 DEF DescriptorStep
<1> QED  BY <1>2, <1>10, <1>11

(* Every step of a careful program is an operation of Descriptors, or      *)
(* nothing that Descriptors sees.                                          *)
LEMMA EachStep ==
    ASSUME BaseInv, Careful, CareInv, DescInv, NEW p \in Procs, Call(p) \/ Step(p)
    PROVE  DescriptorStep
<1>1. Normal(p) /\ Details(p)
  BY CarefulStep
<1>2. NumberInv'
  BY <1>1, NumberStep
<1>3. Facts(p) /\ ArgOf(p) /\ ClosingOf(p) /\ NumberInv /\ Slots' = Slots
  <2>1. Facts(p)
    BY <1>1, Known
  <2> QED  BY <2>1 DEF Facts, DescInv, BaseInv, ArgInv, ClosingInv
<1>4. CASE open_put_(p)
  <2>1. pc[p] = "op_put"
    BY <1>4 DEF open_put_, Moves
  <2> QED  BY <1>1, <1>2, <1>4, <2>1, Doing, OpenOperation
<1>5. CASE dup_file_(p)
  <2>1. pc[p] = "dup_copy"
    BY <1>5 DEF dup_file_, Moves
  <2> QED  BY <1>1, <1>2, <1>5, <2>1, Doing, DupOperation
<1>6. ASSUME NEW j \in Slots, close_dupe_(p, j) PROVE DescriptorStep
  <2>1. /\ pc[p] = "cl_scan" /\ files[p][j] # NULL /\ files' = [files EXCEPT ![p][j] = NULL]
        /\ file[files[p][j]].local_fd = loc[p].fd
    BY <1>6 DEF close_dupe_, Moves, In
  <2>2. Running(p)
    BY <1>3, <2>1 DEF Running, Exiting, ArgOf
  <2> QED  BY <1>1, <1>2, <2>1, <2>2, CloseOperation
<1>7. ASSUME loc[p].next # "exit", NEW from \in GlobalLabels \cup {"ca_store"}, Back(p, from)
      PROVE  DescriptorStep
  <2>1. /\ pc[p] = from /\ loc[p].i \in Slots /\ files[p][loc[p].i] # NULL
        /\ files' = [files EXCEPT ![p][loc[p].i] = NULL]
    BY <1>7 DEF Back, Moves, In
  <2>2. pc[p] \in GlobalLabels
    BY <1>3, <1>7, <2>1 DEF ArgOf
  <2>3. file[files[p][loc[p].i]].local_fd = loc[p].fd /\ Running(p)
    BY <1>3, <1>7, <2>2 DEF ClosingOf, Running, Exiting, GlobalLabels
  <2> QED  BY <1>1, <1>2, <2>1, <2>2, <2>3, CloseOperation
<1>8. CASE pos' # pos
  BY <1>1, <1>2, <1>8, MoveOperation
<1>9. CASE \E b \in {"user", "lost"} : fork_done_(p, b)
  <2>1. fork_done_(p, "user") /\ pc[p] = "fk_scan" /\ pc'[p] = "user"
    BY <1>9 DEF fork_done_
  <2>2. fork_done(p)
    BY <1>1, <2>1 DEF Details
  <2>3. D!Fork(p, loc[p].child)
    BY <1>1, <1>2, <2>1, <2>2, ForkOperation
  <2> QED  BY <2>2, <2>3 DEF DescriptorStep
<1>10. CASE exit_(p)
  <2>1. pc[p] = "user" /\ pc'[p] = "ca_scan" /\ files' = files /\ pos' = pos
    BY <1>10 DEF exit_, Moves, SameStructs
  <2>2. exit(p)
    BY <1>1, <2>1 DEF Details
  <2>3. ~RunningNext(p) /\ \A q \in Procs \ {p} : RunningNext(q) <=> Running(q)
    <3>1. \A b : ~fork_done_(p, b)
      BY <2>1 DEF fork_done_
    <3> QED  BY <1>1, <1>10, <3>1, RunStep
  <2>4. \A q \in Procs \ {p} : TableNext(q) = Table(q)
    BY <1>1, <1>2, <2>1, <2>3, SameTable
  <2>5. TableNext(p) = [fd \in Fds |-> NULL]
    BY <2>3 DEF TableNext
  <2>6. D!Exit(p)
    BY <1>3, <2>1, <2>3, <2>4, <2>5, Operations
  <2> QED  BY <2>2, <2>6 DEF DescriptorStep
<1>11. CASE /\ ~Visible(p) /\ pos' = pos /\ ~exit_(p)
            /\ ~\E b \in {"user", "lost"} : fork_done_(p, b)
  <2>1. \A q \in Procs : RunningNext(q) <=> Running(q)
    BY <1>1, <1>11, RunStep
  <2>2. ASSUME NEW q \in Procs PROVE TableNext(q) = Table(q)
    <3>1. Running(q) => \A i \in Slots : files'[q][i] = files[q][i]
      BY <1>1, <1>11, Invisible
    <3> QED  BY <1>1, <1>2, <2>1, <3>1, SameTable
  <2>3. UNCHANGED D!vars
    BY <1>3, <1>11, <2>1, <2>2, Operations
  <2> QED  BY <2>3 DEF DescriptorStep
<1> QED  BY <1>4, <1>5, <1>6, <1>7, <1>8, <1>9, <1>10, <1>11 DEF Visible

(* Careful programs, any number of them: although open, close, dup2, fork, *)
(* exit, read, write and lseek take several steps each and interleave,     *)
(* descriptors and positions change as Descriptors says, each call in one  *)
(* step.                                                                   *)
THEOREM DescriptorsHold == Spec => ImplementsDescriptors
<1>1. BaseInv /\ CarefulInv /\ (Careful => DescInv) /\ [Next]_vars
         => [Careful => DescriptorStep]_vars
  BY EachStep DEF CarefulInv, Next
<1> QED  BY <1>1, DescAlways, PTL DEF Spec, ImplementsDescriptors
=============================================================================
