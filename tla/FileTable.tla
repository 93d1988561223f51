----------------------------- MODULE FileTable -----------------------------
(***************************************************************************)
(* The global file table, the file table of each process (kern/vfs/file.c) *)
(* and the calls that use them (kern/syscall/{open,close,dup2,read,write,  *)
(* lseek}.c, the copy made by fork, the closing done by proc_destroy).     *)
(*                                                                         *)
(* A struct file is a number; 0, 1 and 2 are STDIN, STDOUT and STDERR.     *)
(* Several tables may point to one structure, and its refcount is changed  *)
(* under two different locks: under global_file_lk by close and under the  *)
(* file_lock by fork and exit.  refcount++ and refcount-- are therefore a  *)
(* load and a store.  A process has one thread, so only it uses its own    *)
(* table; proc_ft_lock is never contended and left out, and ops_lock is a  *)
(* Boolean: does the process have it?  (ProcTable has the other users.)    *)
(* Steps that touch nothing shared are merged with the next one.  The      *)
(* stdin_open, stdout_open and stderr_open marks and p_ft->size, which can *)
(* only make a call return early with an error, are left out: such returns *)
(* change nothing here and may happen at any time.                         *)
(*                                                                         *)
(* A failed KASSERT, a NULL pointer and the use of freed memory end in     *)
(* panic.  Memory that nobody points to any more is not recorded.          *)
(***************************************************************************)
EXTENDS Integers, FiniteSets

CONSTANTS Procs, First,    \* the processes, the one that is started
          Vnodes,          \* what vfs_open may return
          MaxPos,          \* bound on seek positions
          AccessModes,     \* what open may ask for: sets of "r" and "w"
          CloseFds, DupFds, IoFds,  \* arguments of close, of dup2 (pairs),
                                    \* of read, write and lseek
          Settings         \* what runs: are the programs careful, how many
                           \* slots has every table (__OPEN_MAX), and the
                           \* bound on the struct files allocated

NULL == -1
STDIN == 0
STDOUT == 1
STDERR == 2
Std == {STDIN, STDOUT, STDERR}

MostSlots == CHOOSE n \in {g.slots : g \in Settings} : \A g \in Settings : g.slots <= n
MostStructs == CHOOSE n \in {g.structs : g \in Settings} : \A g \in Settings : g.structs <= n
Files == 0 .. MostStructs - 1
Fds == 0 .. IF MostSlots > MostStructs THEN MostSlots ELSE MostStructs

ASSUME FileTableAssumption ==
    /\ First \in Procs /\ IsFiniteSet(Procs) /\ NULL \notin Procs
    /\ Settings \subseteq [careful : BOOLEAN, slots : Nat \ (0 .. 3), structs : Nat \ (0 .. 2)]
    /\ \E g \in Settings : \A h \in Settings : h.slots <= g.slots
    /\ \E g \in Settings : \A h \in Settings : h.structs <= g.structs
    /\ MaxPos \in Nat
    /\ CloseFds \cup IoFds \subseteq Fds /\ DupFds \subseteq Fds \X Fds
    /\ AccessModes \subseteq {{"r"}, {"w"}, {"r", "w"}}
    /\ NULL \notin Vnodes

VARIABLES
    \* struct file
    next_struct,  \* the structures below it have been allocated
    live,         \* those not yet freed
    file,         \* the fields that do not change
    refcount, file_lock,
    pos,          \* *seek_pos, by the structure it was allocated for
    vn_refcount,  \* references to each vnode (vnode.c)
    \* struct g_filetable
    open_files, size, next_fd, global_file_lk,
    \* struct p_filetable and struct proc
    files, ops_lock,
    pc, loc,      \* where each thread is, and its locals
    setting,      \* one of Settings, it does not change
    panic

structs == <<next_struct, live, file, refcount, file_lock, pos, vn_refcount>>
gtable == <<open_files, size, next_fd, global_file_lk>>
ptables == <<files, ops_lock>>
vars == <<structs, gtable, ptables, pc, loc, setting, panic>>

OPEN_MAX == setting.slots
Slots == 0 .. OPEN_MAX - 1

NoLocals == [f |-> NULL, fd |-> NULL, old |-> NULL, i |-> 0, tmp |-> 0,
             child |-> NULL, mode |-> "", next |-> ""]

(* create_std_file: global_fd keeps the -1 of create_file.                 *)
create_std_file(n) ==
    [vnode |-> NULL, global_fd |-> -1, local_fd |-> n, is_dupe |-> FALSE,
     std |-> n, seek |-> NULL, can |-> {"r", "w"}]

create_file(v, fd, can, f) ==
    [vnode |-> v, global_fd |-> fd, local_fd |-> fd, is_dupe |-> FALSE,
     std |-> -1, seek |-> f, can |-> can]

(* p_filetable_create                                                      *)
FreshTable == [i \in Slots |-> IF i \in Std THEN i ELSE NULL]

Init == /\ setting \in Settings
        /\ next_struct = 3
        /\ live = Std
        /\ file = [f \in Files |-> IF f \in Std THEN create_std_file(f)
                                   ELSE create_file(NULL, -1, {}, NULL)]
        /\ refcount = [f \in Files |-> 1]
        /\ file_lock = [f \in Files |-> NULL]
        /\ pos = [f \in Files |-> 0]
        /\ vn_refcount = [v \in Vnodes |-> 0]
        /\ open_files = FreshTable
        /\ size = 3
        /\ next_fd = 3
        /\ global_file_lk = NULL
        /\ files = [p \in Procs |-> IF p = First THEN FreshTable
                                    ELSE [i \in Slots |-> NULL]]
        /\ ops_lock = [p \in Procs |-> FALSE]
        /\ pc = [p \in Procs |-> IF p = First THEN "user" ELSE "none"]
        /\ loc = [p \in Procs |-> NoLocals]
        /\ panic = FALSE

-----------------------------------------------------------------------------
(* Helpers.                                                                *)

At(p, label) == ~panic /\ pc[p] = label

Goto(p, label, l) == /\ pc' = [pc EXCEPT ![p] = label]
                     /\ loc' = [loc EXCEPT ![p] = l]

(* Back to the program, with the ops_lock released.                        *)
Return(p) == /\ Goto(p, "user", NoLocals)
             /\ ops_lock' = [ops_lock EXCEPT ![p] = FALSE]

Panic == panic' = TRUE /\ UNCHANGED <<structs, gtable, ptables, pc, loc, setting>>

(* A system call starts by taking the ops_lock of its process.             *)
Enter(p) == At(p, "user") /\ ~ops_lock[p]

First_(S) == CHOOSE i \in S : \A j \in S : i <= j
Last_(S) == CHOOSE i \in S : \A j \in S : j <= i

(* p_filetable_lookup: the first slot with that local_fd, found by reading *)
(* every structure before it.                                              *)
Used(p, i) == {j \in Slots : j >= i /\ files[p][j] # NULL}
Matching(p, fd, i) == {j \in Used(p, i) : file[files[p][j]].local_fd = fd}
ReadsFreed(p, fd, i) ==
    \E j \in Used(p, i) : /\ files[p][j] \notin live
                          /\ \A k \in Matching(p, fd, i) : j <= k
p_filetable_lookup(p, fd) ==
    LET M == Matching(p, fd, 0) IN IF M = {} THEN NULL ELSE files[p][First_(M)]

VOP_INCREF(v) == vn_refcount' = IF v = NULL THEN vn_refcount
                                ELSE [vn_refcount EXCEPT ![v] = @ + 1]
VOP_DECREF(v) == vn_refcount' = [vn_refcount EXCEPT ![v] = @ - 1]

(* put_file_on_ptable: the first free slot, if there is one.               *)
put_file_on_ptable(p, f) ==
    LET Free == {i \in Slots : files[p][i] = NULL} IN
    files' = IF Free = {} THEN files ELSE [files EXCEPT ![p][First_(Free)] = f]

-----------------------------------------------------------------------------
(* Careful programs.  They keep to what these tables can do: they open and *)
(* duplicate only while there is room, dup2 only onto numbers that open    *)
(* has given out, read no output and write no input, do not share          *)
(* duplicates, and fork only while their files are not shared already.     *)
(* Memory does not run out for them.                                       *)

Careful == setting.careful

Refs(f) == {r \in Procs \X Slots : files[r[1]][r[2]] = f}
Shared(p, f) == f \notin Std /\ \E r \in Refs(f) : r[1] # p
InOpen == {p \in Procs : pc[p] \in {"op_fd", "op_put"}}

RoomFor(p) == /\ size + Cardinality(InOpen) < OPEN_MAX
              /\ \E i \in Slots : files[p][i] = NULL
MayDup(p, oldfd, newfd) ==
    /\ newfd \in 3 .. next_fd - 1
    /\ ~Shared(p, p_filetable_lookup(p, oldfd))
    /\ Matching(p, newfd, 0) # {} \/ \E i \in Slots : files[p][i] = NULL
MayFork(p) == \A i \in Used(p, 0) : LET f == files[p][i] IN
                 ~Shared(p, f) /\ ~file[f].is_dupe
MayTransfer(p, fd, mode) == LET f == p_filetable_lookup(p, fd) IN
    f # NULL => file[f].std \notin (IF mode = "r" THEN {STDOUT, STDERR} ELSE {STDIN})

(* Bound: structures are left, also for the dup2 calls in progress.        *)
MoreStructs == next_struct + Cardinality({p \in Procs : loc[p].next = "dup2"})
                  < setting.structs

-----------------------------------------------------------------------------
(* open.  The returns for a full table, a bad pointer, no memory or a      *)
(* failing vfs_open leave no trace but lost memory.                        *)

(* Up to vfs_open: the size of the global table is read without its lock.  *)
open(p, v, can) ==
    /\ Enter(p)
    /\ MoreStructs
    /\ size # OPEN_MAX
    /\ Careful => RoomFor(p)
    /\ ops_lock' = [ops_lock EXCEPT ![p] = TRUE]
    /\ next_struct' = next_struct + 1
    /\ live' = live \cup {next_struct}
    /\ file' = [file EXCEPT ![next_struct] = create_file(v, -1, can, next_struct)]
    /\ VOP_INCREF(v)
    /\ Goto(p, "op_fd", [NoLocals EXCEPT !.f = next_struct])
    /\ UNCHANGED <<refcount, file_lock, pos, gtable, files, setting, panic>>

(* The access mode 3 is refused by a return that keeps the ops_lock.       *)
open_bad_flags(p) ==
    /\ Enter(p)
    /\ ~Careful
    /\ size # OPEN_MAX
    /\ ops_lock' = [ops_lock EXCEPT ![p] = TRUE]
    /\ UNCHANGED <<structs, gtable, files, pc, loc, setting, panic>>

get_next_fd(p) ==
    /\ At(p, "op_fd")
    /\ global_file_lk = NULL
    /\ next_fd' = next_fd + 1
    /\ file' = [file EXCEPT ![loc[p].f].global_fd = next_fd, ![loc[p].f].local_fd = next_fd]
    /\ Goto(p, "op_put", loc[p])
    /\ UNCHANGED <<next_struct, live, refcount, file_lock, pos, vn_refcount, open_files,
                   size, global_file_lk, ptables, setting, panic>>

put_file_on_gtable(f) ==
    LET Free == {i \in Slots : open_files[i] = NULL} IN
    IF size < OPEN_MAX
    THEN /\ open_files' = [open_files EXCEPT ![First_(Free)] = f]
         /\ size' = size + 1
    ELSE UNCHANGED <<open_files, size>>

(* Neither of the two results is looked at.                                *)
open_put(p) ==
    /\ At(p, "op_put")
    /\ global_file_lk = NULL
    /\ put_file_on_gtable(loc[p].f)
    /\ put_file_on_ptable(p, loc[p].f)
    /\ Return(p)
    /\ UNCHANGED <<structs, next_fd, global_file_lk, setting, panic>>

-----------------------------------------------------------------------------
(* close.  A standard file is only marked closed, the rest goes through    *)
(* close_file_on_ptable, which visits every slot with that descriptor.     *)

close(p, fd) ==
    /\ Enter(p)
    /\ LET f == p_filetable_lookup(p, fd) IN
       \/ ReadsFreed(p, fd, 0) /\ Panic
       \/ /\ ~ReadsFreed(p, fd, 0) /\ f # NULL
          /\ file[f].is_dupe \/ file[f].std \notin Std
          /\ ops_lock' = [ops_lock EXCEPT ![p] = TRUE]
          /\ Goto(p, "cl_scan", [NoLocals EXCEPT !.fd = fd, !.next = "close"])
          /\ UNCHANGED <<structs, gtable, files, setting, panic>>

(* The loop is done: back to close, or on to dup_file.                     *)
close_file_done(p) ==
    /\ At(p, "cl_scan")
    /\ Matching(p, loc[p].fd, loc[p].i) = {} /\ ~ReadsFreed(p, loc[p].fd, loc[p].i)
    /\ IF loc[p].next = "close" THEN Return(p)
       ELSE Goto(p, "dup_lock", [loc[p] EXCEPT !.i = 0]) /\ UNCHANGED ops_lock
    /\ UNCHANGED <<structs, gtable, files, setting, panic>>

(* The next slot: a duplicate is freed whoever else points to it, another  *)
(* file is closed on the global table.                                     *)
close_file_on_ptable(p) ==
    /\ At(p, "cl_scan")
    /\ LET M == Matching(p, loc[p].fd, loc[p].i)
           j == First_(M)
           f == files[p][j] IN
       \/ ReadsFreed(p, loc[p].fd, loc[p].i) /\ Panic
       \/ /\ M # {} /\ ~ReadsFreed(p, loc[p].fd, loc[p].i)
          /\ IF file[f].is_dupe
             THEN IF file_lock[f] # NULL THEN Panic    \* lock_destroy
                  ELSE /\ live' = live \ {f}
                       /\ files' = [files EXCEPT ![p][j] = NULL]
                       /\ Goto(p, "cl_scan", [loc[p] EXCEPT !.i = j + 1])
                       /\ UNCHANGED <<next_struct, file, refcount, file_lock, pos, vn_refcount,
                                      gtable, ops_lock, setting, panic>>
             ELSE /\ Goto(p, "cg_find", [loc[p] EXCEPT !.i = j])
                  /\ UNCHANGED <<structs, gtable, ptables, setting, panic>>

-----------------------------------------------------------------------------
(* close_file_on_gtable(files[i]->global_fd), called by close and by exit. *)

(* Back in the caller: the slot is cleared and the loop goes on.           *)
SlotClosed(p) == /\ files' = [files EXCEPT ![p][loc[p].i] = NULL]
             /\ Goto(p, IF loc[p].next = "exit" THEN "ca_scan" ELSE "cl_scan",
                     [loc[p] EXCEPT !.i = @ + 1, !.f = NULL, !.tmp = 0])

(* The last slot with that global_fd: the standard files all have -1.      *)
GlobalSlot(fd) == {i \in Slots : open_files[i] # NULL /\ file[open_files[i]].global_fd = fd}

(* Not found.                                                              *)
close_not_found(p) ==
    /\ At(p, "cg_find")
    /\ global_file_lk = NULL
    /\ GlobalSlot(file[files[p][loc[p].i]].global_fd) = {}
    /\ SlotClosed(p)
    /\ UNCHANGED <<structs, gtable, ops_lock, setting, panic>>

(* Broken variant: the freed file stays on the global table.               *)
destroy_file_stays_listed(p) ==
    /\ At(p, "cg_find")
    /\ global_file_lk = NULL
    /\ LET S == GlobalSlot(file[files[p][loc[p].i]].global_fd)
           i == Last_(S)
           f == open_files[i] IN
       /\ S # {} /\ refcount[f] = 1
       /\ IF file[f].vnode = NULL \/ file_lock[f] # NULL THEN Panic
          ELSE /\ open_files' = open_files
               /\ size' = size
               /\ VOP_DECREF(file[f].vnode)
               /\ live' = live \ {f}
               /\ SlotClosed(p)
               /\ UNCHANGED <<next_struct, file, refcount, file_lock, pos, next_fd,
                              global_file_lk, ops_lock, setting, panic>>

(* refcount == 1: the file leaves the table and destroy_file frees it.     *)
destroy_file(p) ==
    /\ At(p, "cg_find")
    /\ global_file_lk = NULL
    /\ LET S == GlobalSlot(file[files[p][loc[p].i]].global_fd)
           i == Last_(S)
           f == open_files[i] IN
       /\ S # {} /\ refcount[f] = 1
       /\ IF file[f].vnode = NULL \/ file_lock[f] # NULL THEN Panic
          ELSE /\ open_files' = [open_files EXCEPT ![i] = NULL]
               /\ size' = size - 1
               /\ VOP_DECREF(file[f].vnode)
               /\ live' = live \ {f}
               /\ SlotClosed(p)
               /\ UNCHANGED <<next_struct, file, refcount, file_lock, pos, next_fd,
                              global_file_lk, ops_lock, setting, panic>>

(* Otherwise refcount--, a load and a store, under the global lock.        *)
close_shared(p) ==
    /\ At(p, "cg_find")
    /\ global_file_lk = NULL
    /\ LET S == GlobalSlot(file[files[p][loc[p].i]].global_fd) IN
       /\ S # {} /\ refcount[open_files[Last_(S)]] # 1
       /\ Goto(p, "cg_load", [loc[p] EXCEPT !.f = open_files[Last_(S)]])
    /\ global_file_lk' = p
    /\ UNCHANGED <<structs, open_files, size, next_fd, ptables, setting, panic>>

close_load(p) ==
    /\ At(p, "cg_load")
    /\ Goto(p, "cg_store", [loc[p] EXCEPT !.tmp = refcount[loc[p].f]])
    /\ UNCHANGED <<structs, gtable, ptables, setting, panic>>

close_store(p) ==
    /\ At(p, "cg_store")
    /\ refcount' = [refcount EXCEPT ![loc[p].f] = loc[p].tmp - 1]
    /\ global_file_lk' = NULL
    /\ SlotClosed(p)
    /\ UNCHANGED <<next_struct, live, file, file_lock, pos, vn_refcount, open_files, size,
                   next_fd, ops_lock, setting, panic>>

-----------------------------------------------------------------------------
(* dup2.                                                                   *)

dup2(p, oldfd, newfd) ==
    /\ Enter(p)
    /\ MoreStructs
    /\ oldfd # newfd /\ newfd < OPEN_MAX
    /\ Careful => MayDup(p, oldfd, newfd)
    /\ \/ (ReadsFreed(p, oldfd, 0) \/ ReadsFreed(p, newfd, 0)) /\ Panic
       \/ /\ ~ReadsFreed(p, oldfd, 0) /\ ~ReadsFreed(p, newfd, 0)
          /\ p_filetable_lookup(p, oldfd) # NULL
          /\ Goto(p, IF p_filetable_lookup(p, newfd) = NULL THEN "dup_lock" ELSE "cl_scan",
                  [NoLocals EXCEPT !.fd = newfd, !.old = oldfd, !.next = "dup2"])
          /\ ops_lock' = [ops_lock EXCEPT ![p] = TRUE]
          /\ UNCHANGED <<structs, gtable, files, setting, panic>>

(* copy_file takes the lock of the old file; its refcount++ loads.  It     *)
(* does not look whether create_file had memory.                           *)
copy_file_lock(p) ==
    /\ At(p, "dup_lock")
    /\ LET f == p_filetable_lookup(p, loc[p].old) IN
       \/ (f = NULL \/ ReadsFreed(p, loc[p].old, 0) \/ ~Careful) /\ Panic
       \/ /\ f # NULL /\ ~ReadsFreed(p, loc[p].old, 0)
          /\ file_lock[f] = NULL
          /\ file_lock' = [file_lock EXCEPT ![f] = p]
          /\ Goto(p, "dup_store", [loc[p] EXCEPT !.f = f, !.tmp = refcount[f]])
          /\ UNCHANGED <<next_struct, live, file, refcount, pos, vn_refcount, gtable,
                         ptables, setting, panic>>

copy_file_store(p) ==
    /\ At(p, "dup_store")
    /\ refcount' = [refcount EXCEPT ![loc[p].f] = loc[p].tmp + 1]
    /\ Goto(p, "dup_copy", [loc[p] EXCEPT !.tmp = 0])
    /\ UNCHANGED <<next_struct, live, file, file_lock, pos, vn_refcount, gtable, ptables,
                   setting, panic>>

(* Broken variant: the duplicate keeps the position copy_file made.        *)
dup_file_own_position(p) ==
    /\ At(p, "dup_copy")
    /\ LET f == loc[p].f IN
       /\ next_struct' = next_struct + 1
       /\ live' = live \cup {next_struct}
       /\ file' = [file EXCEPT ![next_struct] =
                     [file[f] EXCEPT !.local_fd = loc[p].fd, !.is_dupe = TRUE,
                                    !.seek = next_struct]]
       /\ refcount' = [refcount EXCEPT ![next_struct] = refcount[f]]
       /\ VOP_INCREF(file[f].vnode)
       /\ file_lock' = [file_lock EXCEPT ![f] = NULL]
    /\ put_file_on_ptable(p, next_struct)
    /\ Return(p)
    /\ UNCHANGED <<pos, gtable, setting, panic>>

(* The rest of copy_file and dup_file: the duplicate has the count of the  *)
(* original, its vnode and its seek position, and a lock of its own.       *)
dup_file(p) ==
    /\ At(p, "dup_copy")
    /\ LET f == loc[p].f IN
       /\ next_struct' = next_struct + 1
       /\ live' = live \cup {next_struct}
       /\ file' = [file EXCEPT ![next_struct] =
                     [file[f] EXCEPT !.local_fd = loc[p].fd, !.is_dupe = TRUE]]
       /\ refcount' = [refcount EXCEPT ![next_struct] = refcount[f]]
       /\ VOP_INCREF(file[f].vnode)
       /\ file_lock' = [file_lock EXCEPT ![f] = NULL]
    /\ put_file_on_ptable(p, next_struct)
    /\ Return(p)
    /\ UNCHANGED <<pos, gtable, setting, panic>>

-----------------------------------------------------------------------------
(* read and write.                                                         *)

transfer(p, fd, mode) ==
    /\ Enter(p)
    /\ Careful => MayTransfer(p, fd, mode)
    /\ \/ ReadsFreed(p, fd, 0) /\ Panic
       \/ /\ ~ReadsFreed(p, fd, 0)
          /\ p_filetable_lookup(p, fd) # NULL
          /\ ops_lock' = [ops_lock EXCEPT ![p] = TRUE]
          /\ Goto(p, "rw_lock",
                  [NoLocals EXCEPT !.f = p_filetable_lookup(p, fd), !.mode = mode])
          /\ UNCHANGED <<structs, gtable, files, setting, panic>>

(* The standard files: what read and write do with them.                   *)
ReadsInput(f, mode) == mode = "r" /\ file[f].std = STDIN
WritesOutput(f, mode) == mode = "w" /\ file[f].std \in {STDOUT, STDERR}

(* With the file locked: refused, or input taken from the console, or      *)
(* output to a closed channel; everything is released.                     *)
transfer_over(p) ==
    /\ At(p, "rw_lock")
    /\ LET f == loc[p].f
           mode == loc[p].mode IN
       /\ f \in live /\ file_lock[f] = NULL
       /\ \/ mode \notin file[f].can
          \/ ReadsInput(f, mode)
          \/ WritesOutput(f, mode)
    /\ Return(p)
    /\ UNCHANGED <<structs, gtable, files, setting, panic>>

(* Otherwise the ops_lock is released and the file stays locked.  Other    *)
(* standard files have no seek position to read.                           *)
transfer_begin(p) ==
    /\ At(p, "rw_lock")
    /\ LET f == loc[p].f
           mode == loc[p].mode IN
       \/ f \notin live /\ Panic
       \/ /\ f \in live /\ file_lock[f] = NULL
          /\ mode \in file[f].can /\ ~ReadsInput(f, mode)
          /\ IF file[f].std # -1 /\ ~WritesOutput(f, mode)
             THEN Panic
             ELSE /\ file_lock' = [file_lock EXCEPT ![f] = p]
                  /\ ops_lock' = [ops_lock EXCEPT ![p] = FALSE]
                  /\ Goto(p, "rw_io", [loc[p] EXCEPT !.tmp =
                                         IF file[f].std = -1 THEN pos[file[f].seek] ELSE 0])
                  /\ UNCHANGED <<next_struct, live, file, refcount, pos, vn_refcount, gtable,
                                 files, setting, panic>>

(* Broken variant: the file_lock is not released.                          *)
transfer_end_keeps_lock(p) ==
    /\ At(p, "rw_io")
    /\ LET f == loc[p].f IN
       /\ \/ UNCHANGED pos
          \/ \E n \in 0 .. MaxPos - loc[p].tmp :
               /\ file[f].std = -1
               /\ pos' = [pos EXCEPT ![file[f].seek] = loc[p].tmp + n]
    /\ Goto(p, "user", NoLocals)
    /\ UNCHANGED <<next_struct, live, file, refcount, file_lock, vn_refcount, gtable, ptables, setting, panic>>

(* VOP_READ or VOP_WRITE moved n characters, or something failed.          *)
transfer_end(p) ==
    /\ At(p, "rw_io")
    /\ LET f == loc[p].f IN
       /\ \/ UNCHANGED pos
          \/ \E n \in 0 .. MaxPos - loc[p].tmp :
               /\ file[f].std = -1
               /\ pos' = [pos EXCEPT ![file[f].seek] = loc[p].tmp + n]
       /\ file_lock' = [file_lock EXCEPT ![f] = NULL]
    /\ Goto(p, "user", NoLocals)
    /\ UNCHANGED <<next_struct, live, file, refcount, vn_refcount, gtable, ptables, setting, panic>>

(* read without memory for its buffer returns with the file locked.        *)
read_no_memory(p) ==
    /\ At(p, "rw_io")
    /\ loc[p].mode = "r" /\ ~Careful
    /\ Goto(p, "user", NoLocals)
    /\ UNCHANGED <<structs, gtable, ptables, setting, panic>>

-----------------------------------------------------------------------------
(* lseek releases the ops_lock before it takes the file_lock.              *)

lseek(p, fd) ==
    /\ Enter(p)
    /\ fd < OPEN_MAX
    /\ \/ ReadsFreed(p, fd, 0) /\ Panic
       \/ /\ ~ReadsFreed(p, fd, 0)
          /\ p_filetable_lookup(p, fd) # NULL
          /\ Goto(p, "ls_lock", [NoLocals EXCEPT !.f = p_filetable_lookup(p, fd)])
          /\ UNCHANGED <<structs, gtable, ptables, setting, panic>>

(* The base of SEEK_SET, SEEK_CUR or SEEK_END (any size) plus an offset; a *)
(* negative result, and a file without positions, is refused.              *)
lseek_lock(p) ==
    /\ At(p, "ls_lock")
    /\ LET f == loc[p].f IN
       \/ f \notin live /\ Panic
       \/ /\ f \in live /\ file_lock[f] = NULL
          /\ Goto(p, "user", NoLocals)
          /\ UNCHANGED <<structs, gtable, ptables, setting, panic>>
       \/ /\ f \in live /\ file_lock[f] = NULL
          /\ file[f].std = -1
          /\ \E base \in {0, pos[file[f].seek]} \cup 0 .. MaxPos, off \in -1 .. 1 :
                /\ base + off \in 0 .. MaxPos
                /\ Goto(p, "ls_set", [loc[p] EXCEPT !.tmp = base + off])
          /\ file_lock' = [file_lock EXCEPT ![f] = p]
          /\ UNCHANGED <<next_struct, live, file, refcount, pos, vn_refcount, gtable, ptables,
                         setting, panic>>

lseek_set(p) ==
    /\ At(p, "ls_set")
    /\ LET f == loc[p].f IN
       /\ pos' = [pos EXCEPT ![file[f].seek] = loc[p].tmp]
       /\ file_lock' = [file_lock EXCEPT ![f] = NULL]
    /\ Goto(p, "user", NoLocals)
    /\ UNCHANGED <<next_struct, live, file, refcount, vn_refcount, gtable, ptables, setting, panic>>

-----------------------------------------------------------------------------
(* fork: the child starts with a fresh table, then copy_p_filetable.       *)

fork(p, q) ==
    /\ Enter(p)
    /\ pc[q] = "none"
    /\ Careful => MayFork(p)
    /\ ops_lock' = [ops_lock EXCEPT ![p] = TRUE]
    /\ files' = [files EXCEPT ![q] = FreshTable]
    /\ pc' = [pc EXCEPT ![p] = "fk_scan", ![q] = "new"]
    /\ loc' = [loc EXCEPT ![p] = [NoLocals EXCEPT !.child = q]]
    /\ UNCHANGED <<structs, gtable, setting, panic>>

(* Broken variant: no VOP_INCREF for the child.                            *)
copy_lock_no_incref(p) ==
    /\ At(p, "fk_scan")
    /\ Used(p, loc[p].i) # {}
    /\ LET j == First_(Used(p, loc[p].i))
           f == files[p][j] IN
       \/ f \notin live /\ Panic
       \/ /\ f \in live /\ file_lock[f] = NULL
          /\ file_lock' = [file_lock EXCEPT ![f] = p]
          /\ Goto(p, "fk_store", [loc[p] EXCEPT !.i = j, !.tmp = refcount[f]])
          /\ UNCHANGED <<next_struct, live, file, refcount, pos, vn_refcount, gtable, ptables, setting, panic>>

(* Under the lock of the file: VOP_INCREF and the load of refcount++.      *)
copy_lock(p) ==
    /\ At(p, "fk_scan")
    /\ Used(p, loc[p].i) # {}
    /\ LET j == First_(Used(p, loc[p].i))
           f == files[p][j] IN
       \/ f \notin live /\ Panic
       \/ /\ f \in live /\ file_lock[f] = NULL
          /\ file_lock' = [file_lock EXCEPT ![f] = p]
          /\ VOP_INCREF(file[f].vnode)
          /\ Goto(p, "fk_store", [loc[p] EXCEPT !.i = j, !.tmp = refcount[f]])
          /\ UNCHANGED <<next_struct, live, file, refcount, pos, gtable, ptables, setting, panic>>

(* Broken variant: the child's reference is not counted.                   *)
copy_store_uncounted(p) ==
    /\ At(p, "fk_store")
    /\ LET f == files[p][loc[p].i] IN
       /\ refcount' = [refcount EXCEPT ![f] = loc[p].tmp]
       /\ file_lock' = [file_lock EXCEPT ![f] = NULL]
       /\ files' = [files EXCEPT ![loc[p].child][loc[p].i] = f]
    /\ Goto(p, "fk_scan", [loc[p] EXCEPT !.i = @ + 1, !.tmp = 0])
    /\ UNCHANGED <<next_struct, live, file, pos, vn_refcount, gtable,
                   ops_lock, setting, panic>>

copy_store(p) ==
    /\ At(p, "fk_store")
    /\ LET f == files[p][loc[p].i] IN
       /\ refcount' = [refcount EXCEPT ![f] = loc[p].tmp + 1]
       /\ file_lock' = [file_lock EXCEPT ![f] = NULL]
       /\ files' = [files EXCEPT ![loc[p].child][loc[p].i] = f]
    /\ Goto(p, "fk_scan", [loc[p] EXCEPT !.i = @ + 1, !.tmp = 0])
    /\ UNCHANGED <<next_struct, live, file, pos, vn_refcount, gtable,
                   ops_lock, setting, panic>>

(* The child runs, unless thread_fork fails and leaves its table behind.   *)
fork_done(p) ==
    /\ At(p, "fk_scan")
    /\ Used(p, loc[p].i) = {}
    /\ ops_lock' = [ops_lock EXCEPT ![p] = FALSE]
    /\ \E label \in IF Careful THEN {"user"} ELSE {"user", "lost"} :
          pc' = [pc EXCEPT ![p] = "user", ![loc[p].child] = label]
    /\ loc' = [loc EXCEPT ![p] = NoLocals]
    /\ UNCHANGED <<structs, gtable, files, setting, panic>>

-----------------------------------------------------------------------------
(* exit: proc_destroy -> p_filetable_destroy -> close_all_files_ptable.    *)

exit(p) ==
    /\ Enter(p)
    /\ Goto(p, "ca_scan", [NoLocals EXCEPT !.next = "exit"])
    /\ UNCHANGED <<structs, gtable, ptables, setting, panic>>

(* Standard files are locked, unlocked and left alone: passed over here.   *)
ToClose(p) == {j \in Used(p, loc[p].i) : files[p][j] \notin live \/ file[files[p][j]].std = -1}
NextUsed(p) == First_(ToClose(p))

(* refcount > 1 keeps the file_lock; the last one goes to the global table.*)
close_all_test(p) ==
    /\ At(p, "ca_scan")
    /\ ToClose(p) # {}
    /\ LET f == files[p][NextUsed(p)] IN
       \/ f \notin live /\ Panic
       \/ /\ f \in live /\ file_lock[f] = NULL
          /\ IF refcount[f] > 1
             THEN /\ file_lock' = [file_lock EXCEPT ![f] = p]
                  /\ Goto(p, "ca_load", [loc[p] EXCEPT !.i = NextUsed(p), !.f = f])
             ELSE /\ UNCHANGED file_lock
                  /\ Goto(p, "cg_find", [loc[p] EXCEPT !.i = NextUsed(p)])
          /\ UNCHANGED <<next_struct, live, file, refcount, pos, vn_refcount, gtable, ptables,
                         setting, panic>>

close_all_load(p) ==
    /\ At(p, "ca_load")
    /\ VOP_DECREF(file[loc[p].f].vnode)
    /\ Goto(p, "ca_store", [loc[p] EXCEPT !.tmp = refcount[loc[p].f]])
    /\ UNCHANGED <<next_struct, live, file, refcount, file_lock, pos, gtable, ptables, setting, panic>>

close_all_store(p) ==
    /\ At(p, "ca_store")
    /\ refcount' = [refcount EXCEPT ![loc[p].f] = loc[p].tmp - 1]
    /\ file_lock' = [file_lock EXCEPT ![loc[p].f] = NULL]
    /\ SlotClosed(p)
    /\ UNCHANGED <<next_struct, live, file, pos, vn_refcount, gtable,
                   ops_lock, setting, panic>>

exit_done(p) ==
    /\ At(p, "ca_scan")
    /\ ToClose(p) = {}
    /\ files' = [files EXCEPT ![p] = [i \in Slots |-> NULL]]
    /\ Goto(p, "gone", NoLocals)
    /\ UNCHANGED <<structs, gtable, ops_lock, setting, panic>>

-----------------------------------------------------------------------------
Call(p) ==
    \/ \E v \in Vnodes, can \in AccessModes : open(p, v, can)
    \/ open_bad_flags(p)
    \/ \E fd \in CloseFds : close(p, fd)
    \/ \E d \in DupFds : dup2(p, d[1], d[2])
    \/ \E fd \in IoFds, mode \in {"r", "w"} : transfer(p, fd, mode)
    \/ \E fd \in IoFds : lseek(p, fd)
    \/ \E q \in Procs : fork(p, q)
    \/ exit(p)

Step(p) ==
    \/ get_next_fd(p) \/ open_put(p)
    \/ close_file_on_ptable(p) \/ close_file_done(p) \/ close_not_found(p)
    \/ destroy_file(p) \/ close_shared(p) \/ close_load(p) \/ close_store(p)
    \/ copy_file_lock(p) \/ copy_file_store(p) \/ dup_file(p)
    \/ transfer_over(p) \/ transfer_begin(p) \/ transfer_end(p) \/ read_no_memory(p)
    \/ lseek_lock(p) \/ lseek_set(p)
    \/ copy_lock(p) \/ copy_store(p) \/ fork_done(p)
    \/ close_all_test(p) \/ close_all_load(p)
    \/ close_all_store(p) \/ exit_done(p)

Next == \E p \in Procs : Call(p) \/ Step(p)

Spec == Init /\ [][Next]_vars

-----------------------------------------------------------------------------
Labels == {"none", "new", "user", "lost", "gone", "op_fd", "op_put", "cl_scan", "cg_find",
           "cg_load", "cg_store", "dup_lock", "dup_store", "dup_copy", "rw_lock", "rw_io",
           "ls_lock", "ls_set", "fk_scan", "fk_store", "ca_scan", "ca_load", "ca_store"}

InCall(p) == pc[p] \notin {"none", "new", "user", "lost", "gone"}

FileRec == [vnode : Vnodes \cup {NULL}, global_fd : Fds \cup {-1}, local_fd : Fds \cup {-1},
            is_dupe : BOOLEAN, std : Std \cup {-1}, seek : Files \cup {NULL},
            can : SUBSET {"r", "w"}]
Locals == [f : Files \cup {NULL}, fd : Fds \cup {NULL}, old : Fds \cup {NULL},
           i : 0 .. OPEN_MAX, tmp : Int, child : Procs \cup {NULL},
           mode : {"", "r", "w"}, next : {"", "close", "dup2", "exit"}]

(* Types of the tables, the structures and the threads.                    *)
TypeOK ==
    /\ next_struct \in 3 .. MostStructs
    /\ live \subseteq 0 .. next_struct - 1
    /\ file \in [Files -> FileRec]
    /\ refcount \in [Files -> Int]
    /\ file_lock \in [Files -> Procs \cup {NULL}]
    /\ pos \in [Files -> 0 .. MaxPos]
    /\ vn_refcount \in [Vnodes -> Int]
    /\ open_files \in [Slots -> Files \cup {NULL}]
    /\ size \in 0 .. OPEN_MAX
    /\ next_fd \in 3 .. MostStructs
    /\ global_file_lk \in Procs \cup {NULL}
    /\ files \in [Procs -> [Slots -> Files \cup {NULL}]]
    /\ ops_lock \in [Procs -> BOOLEAN]
    /\ pc \in [Procs -> Labels]
    /\ loc \in [Procs -> Locals]
    /\ setting \in Settings
    /\ panic \in BOOLEAN

(* Whatever programs do, and although the counts of the structures are     *)
(* changed under two locks: a vnode has at least as many references as     *)
(* there are table entries with it, those of an open, a fork or an exit in *)
(* progress included, so it is not reclaimed under an open descriptor.     *)
VnodeEntries(v) ==
    {r \in Procs \X Slots : /\ files[r[1]][r[2]] # NULL
                            /\ file[files[r[1]][r[2]]].vnode = v
                            /\ ~(pc[r[1]] = "ca_store" /\ loc[r[1]].i = r[2])}
VnodePending(v) ==
    {p \in Procs : \/ pc[p] \in {"op_fd", "op_put"} /\ file[loc[p].f].vnode = v
                   \/ pc[p] = "fk_store" /\ file[files[p][loc[p].i]].vnode = v}
VnodeCovered == \A v \in Vnodes :
    vn_refcount[v] >= Cardinality(VnodeEntries(v)) + Cardinality(VnodePending(v))

(* The global table, whose scans read every structure it lists, lists each *)
(* structure once and none that is freed, and its size counts them; the    *)
(* types hold.                                                             *)
GlobalTableSound ==
    /\ TypeOK
    /\ size = Cardinality({i \in Slots : open_files[i] # NULL})
    /\ \A i, j \in Slots : open_files[i] # NULL =>
          open_files[i] \in live /\ (open_files[i] = open_files[j] => i = j)

(* For careful programs: no table entry points to a freed structure and    *)
(* the kernel does not panic, although close tests and lowers the count    *)
(* under another lock than exit.                                           *)
NoUseAfterClose == Careful =>
    /\ ~panic
    /\ \A p \in Procs, i \in Slots : files[p][i] # NULL => files[p][i] \in live

(* man/syscall/dup2.html: dup2 is mostly used to put open files onto the   *)
(* standard descriptors.  It closes the standard file first, and that must *)
(* not stop the kernel.                                                    *)
DupOntoStandard == panic => \A p \in Procs :
    ~(pc[p] = "cg_find" /\ loc[p].next = "dup2" /\ loc[p].fd \in Std)

(* The process is waiting for a lock that somebody has.                    *)
Blocked(p) ==
    \/ pc[p] \in {"op_fd", "op_put", "cg_find"} /\ global_file_lk # NULL
    \/ pc[p] \in {"rw_lock", "ls_lock"} /\ file_lock[loc[p].f] # NULL
    \/ pc[p] = "dup_lock" /\ file_lock[p_filetable_lookup(p, loc[p].old)] # NULL
    \/ /\ pc[p] = "fk_scan" /\ Used(p, loc[p].i) # {}
       /\ file_lock[files[p][First_(Used(p, loc[p].i))]] # NULL
    \/ pc[p] = "ca_scan" /\ ToClose(p) # {} /\ file_lock[files[p][NextUsed(p)]] # NULL

(* For careful programs: a process that is not in a call holds no lock,    *)
(* and while some process is in a call, one of those can go on.            *)
NoStuckCall == Careful =>
    /\ \A p \in Procs : ~InCall(p) =>
          ~ops_lock[p] /\ global_file_lk # p /\ \A f \in Files : file_lock[f] # p
    /\ (\E p \in Procs : InCall(p)) => \E p \in Procs : InCall(p) /\ ~Blocked(p)

-----------------------------------------------------------------------------
(* Refinement.  A process has descriptors from its first step to its exit; *)
(* an open file is the structure its seek position was allocated for.      *)

Exiting(p) == loc[p].next = "exit"
Running(p) == pc[p] \notin {"none", "new", "lost", "gone"} /\ ~Exiting(p)
OpenFile(f) == IF file[f].std # -1 THEN file[f].std ELSE file[f].seek
Table(p) == [fd \in Fds |-> LET f == p_filetable_lookup(p, fd) IN
                            IF Running(p) /\ f # NULL THEN OpenFile(f) ELSE NULL]

D == INSTANCE Descriptors WITH
        Closed <- NULL,
        running <- {p \in Procs : Running(p)},
        table <- [p \in Procs |-> Table(p)],
        position <- pos

(* What a step of the calls does to descriptors and positions: what one    *)
(* operation of Descriptors does, or nothing.                              *)
DescriptorStep ==
    \/ UNCHANGED <<files, file, pos, {p \in Procs : Running(p)}>>  \* all D sees
    \/ UNCHANGED D!vars
    \/ \E p \in Procs :
         \/ open_put(p) /\ D!Open(p, file[loc[p].f].local_fd, loc[p].f)
         \/ loc[p].fd \in Fds /\ D!Close(p, loc[p].fd)
         \/ dup_file(p) /\ D!Dup2(p, loc[p].old, loc[p].fd)
         \/ fork_done(p) /\ D!Fork(p, loc[p].child)
         \/ exit(p) /\ D!Exit(p)
         \/ /\ transfer_end(p)
            /\ \E fd \in Fds, n \in 0 .. MaxPos : D!Transfer(p, fd, n)
         \/ lseek_set(p) /\ \E fd \in Fds : D!Seek(p, fd, loc[p].tmp)

(* For careful programs every step of the calls does to descriptors and    *)
(* positions what one operation of Descriptors does, or nothing.           *)
ImplementsDescriptors == [][Careful => DescriptorStep]_vars
=============================================================================
