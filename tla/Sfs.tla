-------------------------------- MODULE Sfs --------------------------------
(***************************************************************************)
(* The simple file system: kern/fs/sfs (blocks, block maps, the one        *)
(* directory, inodes and their vnodes, mount, sync, unmount), with the     *)
(* calls of kern/vfs (vfspath.c, vfslookup.c, vnode.c, vfslist.c) that     *)
(* drive it.                                                               *)
(*                                                                         *)
(* Every sfs function runs under the recursive vfs_biglock, so one section *)
(* of that lock is one step.  What interleaves are the sections: a path    *)
(* call is vfs_lookparent, the operation, and a VOP_DECREF for each        *)
(* reference, and VOP_DECREF decides to reclaim a vnode before sfs_reclaim *)
(* has the lock.  A section is computed by operators that take a state     *)
(* record s and return it changed: disk, freemap, freemapdirty and vnodes, *)
(* the outcome res, the value out a function hands back, what uiomove has  *)
(* moved, a fault for a panic or a failed KASSERT, and io, which says      *)
(* which of the block transfers still to come the disk fails (the next one *)
(* is 1).                                                                  *)
(*                                                                         *)
(* A read the disk fails is EIO in the end.  A write is lost and reported  *)
(* as done, see sfs_rwblock: from there on the volume may be anything, so  *)
(* that nothing is claimed any more and the behaviour ends.                *)
(*                                                                         *)
(* The size of the directory counts entries.  Sizes and offsets of files   *)
(* count parts of a block, which have one value each, zero where nothing   *)
(* was written.  A failing kmalloc in sfs_loadvnode acts as its failing    *)
(* sfs_readblock.  Reads of a file change nothing and are not actions.     *)
(***************************************************************************)
EXTENDS Integers, Sequences, FiniteSets, SequencesExt

CONSTANTS
    Threads,
    Names,        \* file names
    Data,         \* non-zero contents of a part of a block, natural numbers
    Parts,        \* parts of a file block that are told apart
    NBLOCKS,      \* sb_nblocks
    SFS_NDIRECT,
    SFS_DBPERIDB,
    DirPerBlock,  \* directory entries in a block
    Writes,       \* pairs: where a write begins, and its length in parts (bound)
    Bounds,       \* pairs: at most so many calls by name and writes together
                  \* with so many transfers that the disk fails (bound)
    MaxIo         \* no section does more block transfers than this (bound)

ASSUME SfsAssumption ==
    /\ Data \subseteq Nat \ {0}
    /\ NBLOCKS \in Nat /\ NBLOCKS > 3
    /\ {Parts, SFS_NDIRECT, SFS_DBPERIDB, DirPerBlock} \subseteq Nat \ {0}
    /\ Writes \subseteq Nat \X (Nat \ {0})
    /\ Bounds \subseteq Nat \X Nat /\ MaxIo \in Nat

VARIABLES
    disk,     \* contents of every block but the superblock and the freemap
    diskmap,  \* the freemap on disk: the blocks in use
    mounted,  \* kd_fs is not NULL
    sfs,      \* struct sfs_fs: freemap, freemapdirty, vnodes; the ghosts are
              \* lost, a write did not reach the disk, and fault, the kernel
              \* has stopped: "assert", or "rename" for sfs_rename's own panic
    pc,       \* where the thread is in its call
    file,     \* inode of the file vnode the thread holds, or SFS_NOINO
    drop,     \* inodes of the references it will VOP_DECREF, in order
    trunc,    \* its vfs_open has O_TRUNC still to do
    fails,    \* transfers that the disk has failed so far
    calls     \* calls by name and writes so far

vars == <<disk, diskmap, mounted, sfs, pc, file, drop, trunc, fails, calls>>
threadvars == <<pc, file, drop, trunc>>

Blocks == 0 .. NBLOCKS - 1
SFS_NOINO == 0
SFS_ROOTDIR_INO == 1
SFS_FREEMAP_START == 2

Direct == 0 .. SFS_NDIRECT - 1
Indirect == 0 .. SFS_DBPERIDB - 1
MaxSize == SFS_NDIRECT + SFS_DBPERIDB

\* What sfs_clearblock writes: a cleared block reads as an inode of type
\* SFS_TYPE_INVAL, an indirect block without blocks, free directory entries.
Cleared == [is |-> "cleared"]

\* The contents of a block that is not in use are not told apart.
Stale == [is |-> "stale"]

FreeEntry == [name |-> "", ino |-> SFS_NOINO]

EmptyInode(type) ==
    [is |-> "inode", type |-> type, linkcount |-> 0, size |-> 0,
     direct |-> [i \in Direct |-> 0], indirect |-> 0]

AsIndirect(b) ==
    IF b.is = "indirect" THEN b.block ELSE [j \in Indirect |-> 0]
AsEntries(b) ==
    IF b.is = "dir" THEN b.entry ELSE [i \in 0 .. DirPerBlock - 1 |-> FreeEntry]
AsData(b) ==
    IF b.is = "data" THEN b.part ELSE [p \in 0 .. Parts - 1 |-> 0]

Minimum(S) == CHOOSE x \in S : \A y \in S : x <= y
Maximum(a, b) == IF a >= b THEN a ELSE b

----------------------------------------------------------------------------
\* Blocks (sfs_io.c, sfs_balloc.c)

\* What follows a part of a function: only its success, or any outcome.
Then(s, F(_)) == IF s.res = "ok" THEN F(s) ELSE s
After(s, F(_)) == F(s)
Panic(s, why) == [s EXCEPT !.fault = why, !.res = "panic"]
Fault(s) == Panic(s, "assert")
KASSERT(s, holds) == IF holds THEN s ELSE [s EXCEPT !.fault = "assert"]
Out(s, value) == [s EXCEPT !.out = value]

Failing(s) == 1 \in s.io

\* One transfer.  A read that fails is retried and given up with EIO.  A write
\* has used up its uio when the disk fails it (lhd_io, uiomove): the retry has
\* nothing left to transfer and succeeds.
sfs_rwblock(s, rw) ==
    LET r == [s EXCEPT !.io = {k - 1 : k \in @ \ {1}}]
    IN  CASE ~Failing(s) -> r
          [] Failing(s) /\ rw = "read" -> [r EXCEPT !.res = "EIO"]
          [] Failing(s) /\ rw = "write" -> [r EXCEPT !.lost = TRUE]

sfs_readblock(s) == sfs_rwblock(s, "read")
sfs_writeblock(s, b, contents) ==
    LET r == sfs_rwblock(s, "write")
    IN  IF Failing(s) THEN r ELSE [r EXCEPT !.disk[b] = contents]

sfs_balloc(s) ==
    IF Blocks \ s.freemap = {} THEN [s EXCEPT !.res = "ENOSPC"]
    ELSE LET b == Minimum(Blocks \ s.freemap)
             r == sfs_writeblock([s EXCEPT !.freemap = @ \union {b},
                                           !.freemapdirty = TRUE], b, Cleared)
         IN  IF r.res = "ok" THEN Out(r, b) ELSE [r EXCEPT !.freemap = @ \ {b}]

\* sfs_bfree of every block of bs; bitmap_unmark asserts that each is in use.
sfs_bfree(s, bs) ==
    IF bs = {} THEN s
    ELSE [KASSERT(s, bs \subseteq s.freemap) EXCEPT
             !.freemap = @ \ bs, !.freemapdirty = TRUE,
             !.disk = [b \in Blocks |-> IF b \in bs THEN Stale ELSE @[b]]]

----------------------------------------------------------------------------
\* Block maps (sfs_bmap.c)

\* sfs_bmap hands back a block that must be in use.
HandBack(s, block) ==
    IF block # 0 /\ block \notin s.freemap THEN Fault(s) ELSE Out(s, block)

bmap_direct(s, v, fileblock, doalloc) ==
    LET block == s.vnodes[v].i.direct[fileblock]
    IN  IF block # 0 \/ ~doalloc THEN HandBack(s, block)
        ELSE Then(sfs_balloc(s),
                  LAMBDA r : [r EXCEPT !.vnodes[v].i.direct[fileblock] = r.out,
                                       !.vnodes[v].dirty = TRUE])

\* The indirect block is there, and its contents are in idbuf.
bmap_entry(s, idblock, idbuf, idoff, doalloc) ==
    IF idbuf[idoff] # 0 \/ ~doalloc THEN HandBack(s, idbuf[idoff])
    ELSE Then(sfs_balloc(s),
              LAMBDA r : sfs_writeblock(r, idblock,
                             [is |-> "indirect",
                              block |-> [idbuf EXCEPT ![idoff] = r.out]]))

bmap_indirect(s, v, idoff, doalloc) ==
    LET idblock == s.vnodes[v].i.indirect
    IN  CASE idoff >= SFS_DBPERIDB -> [s EXCEPT !.res = "EFBIG"]
          [] idoff < SFS_DBPERIDB /\ idblock = 0 /\ ~doalloc -> Out(s, 0)
          [] idoff < SFS_DBPERIDB /\ idblock = 0 /\ doalloc ->
                Then(sfs_balloc(s),
                     LAMBDA r : bmap_entry([r EXCEPT !.vnodes[v].i.indirect = r.out,
                                                     !.vnodes[v].dirty = TRUE],
                                           r.out, AsIndirect(Cleared), idoff, TRUE))
          [] OTHER ->
                Then(sfs_readblock(s),
                     LAMBDA r : bmap_entry(r, idblock, AsIndirect(r.disk[idblock]),
                                           idoff, doalloc))

sfs_bmap(s, v, fileblock, doalloc) ==
    IF fileblock < SFS_NDIRECT THEN bmap_direct(s, v, fileblock, doalloc)
    ELSE bmap_indirect(s, v, fileblock - SFS_NDIRECT, doalloc)

\* Free the blocks past the new end, and the indirect block when it is empty.
itrunc_indirect(s, v, idblock, blocklen) ==
    LET idbuf == AsIndirect(s.disk[idblock])
        past  == {j \in Indirect : blocklen < SFS_NDIRECT + j /\ idbuf[j] # 0}
        kept  == [j \in Indirect |-> IF j \in past THEN 0 ELSE idbuf[j]]
        r     == sfs_bfree(s, {idbuf[j] : j \in past})
    IN  IF \A j \in Indirect : kept[j] = 0
        THEN [sfs_bfree(r, {idblock}) EXCEPT !.vnodes[v].i.indirect = 0,
                                             !.vnodes[v].dirty = TRUE]
        ELSE IF past = {} THEN r
        ELSE sfs_writeblock(r, idblock, [is |-> "indirect", block |-> kept])

sfs_itrunc(s, v, len) ==
    LET i        == s.vnodes[v].i
        blocklen == (len + Parts - 1) \div Parts
        past     == {b \in Direct : b >= blocklen /\ i.direct[b] # 0}
        r        == [sfs_bfree(s, {i.direct[b] : b \in past}) EXCEPT
                        !.vnodes[v].i.direct =
                            [b \in Direct |-> IF b \in past THEN 0 ELSE @[b]],
                        !.vnodes[v].dirty = @ \/ past # {}]
        idblock  == i.indirect
        q        == IF blocklen < MaxSize - 1 /\ idblock # 0
                    THEN Then(sfs_readblock(r),
                              LAMBDA x : itrunc_indirect(x, v, idblock, blocklen))
                    ELSE r
    IN  Then(q, LAMBDA x : [x EXCEPT !.vnodes[v].i.size = len,
                                     !.vnodes[v].dirty = TRUE])

----------------------------------------------------------------------------
\* Inodes and vnodes (sfs_inode.c, vnode.c)

sfs_sync_inode(s, v) ==
    IF ~s.vnodes[v].dirty THEN s
    ELSE Then(sfs_writeblock(s, v, s.vnodes[v].i),
              LAMBDA r : [r EXCEPT !.vnodes[v].dirty = FALSE])

\* Broken variant: the count is not looked at again.
sfs_reclaim_no_recheck(s, v) ==
    LET unlinked == s.vnodes[v].i.linkcount = 0
        emptied  == IF unlinked THEN sfs_itrunc(s, v, 0) ELSE s
        synced   == Then(emptied, LAMBDA r : sfs_sync_inode(r, v))
        freed(r) == IF unlinked THEN sfs_bfree(r, {v}) ELSE r
    IN  Then(synced,
             LAMBDA r : [freed(r) EXCEPT
                 !.vnodes = [w \in DOMAIN @ \ {v} |-> @[w]]])

\* Broken variant: the inode of an unlinked file is freed without its blocks.
sfs_reclaim_no_itrunc(s, v) ==
    LET synced   == sfs_sync_inode(s, v)
        freed(r) == IF s.vnodes[v].i.linkcount = 0 THEN sfs_bfree(r, {v}) ELSE r
    IN  IF s.vnodes[v].refcount # 1
        THEN [s EXCEPT !.vnodes[v].refcount = @ - 1, !.res = "EBUSY"]
        ELSE Then(synced,
                  LAMBDA r : [freed(r) EXCEPT
                      !.vnodes = [w \in DOMAIN @ \ {v} |-> @[w]]])

\* The vnode is reclaimed only if nobody has picked it up in the meantime.
sfs_reclaim(s, v) ==
    LET unlinked == s.vnodes[v].i.linkcount = 0
        emptied  == IF unlinked THEN sfs_itrunc(s, v, 0) ELSE s
        synced   == Then(emptied, LAMBDA r : sfs_sync_inode(r, v))
        freed(r) == IF unlinked THEN sfs_bfree(r, {v}) ELSE r
    IN  IF s.vnodes[v].refcount # 1
        THEN [s EXCEPT !.vnodes[v].refcount = @ - 1, !.res = "EBUSY"]
        ELSE Then(synced,
                  LAMBDA r : [freed(r) EXCEPT
                      !.vnodes = [w \in DOMAIN @ \ {v} |-> @[w]]])

\* VOP_DECREF inside a section: only a warning tells of a failed reclaim.
VOP_DECREF(s, v) ==
    IF s.vnodes[v].refcount > 1 THEN [s EXCEPT !.vnodes[v].refcount = @ - 1]
    ELSE [sfs_reclaim([s EXCEPT !.res = "ok"], v) EXCEPT !.res = s.res, !.out = s.out]

\* Add the vnode of an inode that was just read to the table.
load_new(s, ino, forcetype) ==
    LET b     == s.disk[ino]
        valid == IF forcetype = "inval" THEN b.is = "inode" ELSE b.is = "cleared"
        new   == [i |-> IF forcetype = "inval" THEN b ELSE EmptyInode(forcetype),
                  dirty |-> forcetype # "inval", refcount |-> 1]
    IN  IF ~valid THEN Fault(s)
        ELSE Out([s EXCEPT !.vnodes = [w \in DOMAIN @ \union {ino} |->
                                          IF w = ino THEN new ELSE @[w]]], ino)

sfs_loadvnode(s, ino, forcetype) ==
    IF ~((DOMAIN s.vnodes \union {ino}) \subseteq s.freemap) THEN Fault(s)
    ELSE IF ino \in DOMAIN s.vnodes
    THEN Out([KASSERT(s, forcetype = "inval") EXCEPT !.vnodes[ino].refcount = @ + 1], ino)
    ELSE Then(sfs_readblock(s), LAMBDA r : load_new(r, ino, forcetype))

sfs_makeobj(s) ==
    Then(sfs_balloc(s),
         LAMBDA r : LET q == sfs_loadvnode(r, r.out, "file")
                    IN  IF q.res = "ok" THEN q ELSE sfs_bfree(q, {r.out}))

sfs_getroot(s) == sfs_loadvnode(s, SFS_ROOTDIR_INO, "inval")

----------------------------------------------------------------------------
\* The directory (sfs_dir.c; sfs_metaio of sfs_io.c).  dv is its inode.

BlockOf(slot) == slot \div DirPerBlock
PlaceOf(slot) == slot % DirPerBlock

sfs_readdir(s, dv, slot) ==
    LET mapped == sfs_bmap(s, dv, BlockOf(slot), FALSE)
    IN  Then(mapped,
             LAMBDA r : IF r.out = 0 THEN Out(r, FreeEntry)
                        ELSE Then(sfs_readblock(r),
                                  LAMBDA q : Out(q, AsEntries(q.disk[r.out])[PlaceOf(slot)])))

sfs_writedir(s, dv, slot, entry) ==
    LET mapped == sfs_bmap(s, dv, BlockOf(slot), TRUE)
    IN  Then(mapped,
             LAMBDA r : Then(sfs_readblock(r),
             LAMBDA q : Then(sfs_writeblock(q, r.out,
                                 [is |-> "dir",
                                  entry |-> [AsEntries(q.disk[r.out]) EXCEPT
                                                ![PlaceOf(slot)] = entry]]),
             LAMBDA x : [x EXCEPT
                            !.vnodes[dv].i.size = Maximum(@, slot + 1),
                            !.vnodes[dv].dirty = @ \/ slot >= q.vnodes[dv].i.size])))

\* Hands back the inode and the slot of the name, and the last free slot (-1:
\* none).  A name that is there twice is a failed KASSERT.
sfs_dir_findname(s, dv, name) ==
    LET look(r, i) ==
            Then(sfs_readdir(r, dv, i),
                 LAMBDA q :
                     CASE q.out.ino = SFS_NOINO -> Out(q, [r.out EXCEPT !.empty = i])
                       [] q.out.ino # SFS_NOINO /\ q.out.name = name ->
                             Out(KASSERT(q, r.out.ino = SFS_NOINO),
                                 [r.out EXCEPT !.ino = q.out.ino, !.slot = i])
                       [] OTHER -> Out(q, r.out))
        nentries == s.vnodes[dv].i.size
        r == FoldLeft(LAMBDA acc, i : Then(acc, LAMBDA x : look(x, i)),
                      Out(s, [ino |-> SFS_NOINO, slot |-> -1, empty |-> -1]),
                      [i \in 1 .. nentries |-> i - 1])
    IN  Then(r, LAMBDA x : IF x.out.ino = SFS_NOINO
                           THEN [x EXCEPT !.res = "ENOENT"] ELSE x)

\* Hands back the slot of the new entry.
sfs_dir_link(s, dv, name, ino) ==
    After(sfs_dir_findname(s, dv, name),
          LAMBDA r :
              LET slot == IF r.out.empty >= 0 THEN r.out.empty ELSE r.vnodes[dv].i.size
              IN  CASE r.res = "ok" -> [r EXCEPT !.res = "EEXIST"]
                    [] r.res = "ENOENT" ->
                          Out(sfs_writedir([r EXCEPT !.res = "ok"], dv, slot,
                                           [name |-> name, ino |-> ino]), slot)
                    [] OTHER -> r)

sfs_dir_unlink(s, dv, slot) == sfs_writedir(s, dv, slot, FreeEntry)

\* Hands back the inode, loaded and referenced, and the slot.
sfs_lookonce(s, dv, name) ==
    Then(sfs_dir_findname(s, dv, name),
         LAMBDA r : Then(sfs_loadvnode(r, r.out.ino, "inval"),
         LAMBDA q : IF q.vnodes[r.out.ino].i.linkcount = 0 THEN Fault(q)
                    ELSE Out(q, r.out)))

----------------------------------------------------------------------------
\* The vnode operations (sfs_vnops.c; sfs_io of sfs_io.c)

\* Broken variant: the inode is not marked dirty.
AddLink_clean(s, v, n) ==
    [s EXCEPT !.vnodes[v].i.linkcount = @ + n]

AddLink(s, v, n) ==
    [s EXCEPT !.vnodes[v].i.linkcount = @ + n, !.vnodes[v].dirty = TRUE]

\* A new file; its inode is given up again when the name cannot be written.
creat_new(s, dv, name) ==
    Then(sfs_makeobj(s),
         LAMBDA r : After(sfs_dir_link(r, dv, name, r.out),
         LAMBDA q : IF q.res = "ok" THEN Out(AddLink(q, r.out, 1), r.out)
                    ELSE VOP_DECREF(q, r.out)))

\* Hands back the inode of the file, which is loaded and referenced.
sfs_creat(s, dv, name, excl) ==
    After(sfs_dir_findname(s, dv, name),
          LAMBDA r :
              CASE r.res = "ok" /\ excl  -> [r EXCEPT !.res = "EEXIST"]
                [] r.res = "ok" /\ ~excl -> sfs_loadvnode(r, r.out.ino, "inval")
                [] r.res = "ENOENT"      -> creat_new([r EXCEPT !.res = "ok"], dv, name)
                [] OTHER                 -> r)

sfs_link(s, dv, name, f) ==
    Then(sfs_dir_link(s, dv, name, f), LAMBDA r : AddLink(r, f, 1))

\* Broken variant: the file is emptied with its last name, whoever holds it.
sfs_remove_empties(s, dv, name) ==
    Then(sfs_lookonce(s, dv, name),
         LAMBDA r : LET victim == r.out.ino
                        q      == Then(sfs_dir_unlink(r, dv, r.out.slot),
                                       LAMBDA x : AddLink(x, victim, -1))
                    IN  VOP_DECREF(IF q.vnodes[victim].i.linkcount > 0 THEN q
                                   ELSE sfs_itrunc(q, victim, 0), victim))

sfs_remove(s, dv, name) ==
    Then(sfs_lookonce(s, dv, name),
         LAMBDA r : LET victim == r.out.ino
                        q      == Then(sfs_dir_unlink(r, dv, r.out.slot),
                                       LAMBDA x : AddLink(x, victim, -1))
                    IN  VOP_DECREF(q, victim))

\* Broken variant: a rename that is undone keeps the count of the new name.
rename_undo_counts(s, dv, g1, slot2) ==
    After(sfs_dir_unlink([s EXCEPT !.res = "ok"], dv, slot2),
          LAMBDA x : IF x.res # "ok" THEN Panic(x, "rename") ELSE [x EXCEPT !.res = s.res])

\* The old entry could not be erased: the new one is erased again.
rename_undo(s, dv, g1, slot2) ==
    After(sfs_dir_unlink([s EXCEPT !.res = "ok"], dv, slot2),
          LAMBDA x : IF x.res # "ok" THEN Panic(x, "rename")
                     ELSE [x EXCEPT !.vnodes[g1].i.linkcount = @ - 1, !.res = s.res])

\* The new name is there; erase the old one.
rename_unlink(s, dv, g1, slot1, slot2) ==
    After(sfs_dir_unlink(s, dv, slot1),
          LAMBDA x : IF x.res = "ok" THEN AddLink(x, g1, -1)
                     ELSE rename_undo(x, dv, g1, slot2))

sfs_rename(s, dv, n1, n2) ==
    Then(sfs_lookonce(s, dv, n1),
         LAMBDA r : VOP_DECREF(
             Then(sfs_dir_link(r, dv, n2, r.out.ino),
                  LAMBDA x : rename_unlink(AddLink(x, r.out.ino, 1), dv, r.out.ino,
                                           r.out.slot, x.out)),
             r.out.ino))

\* uiomove of n parts.
Moved(s, n) == [s EXCEPT !.moved = @ + n]

\* The len parts from pos on, less than a block: the rest of it is read first.
sfs_partialio(s, v, pos, len, value) ==
    LET skipstart == pos % Parts
        over(old) == [p \in 0 .. Parts - 1 |->
                         IF p >= skipstart /\ p < skipstart + len THEN value ELSE old[p]]
    IN  Then(sfs_bmap(s, v, pos \div Parts, TRUE),
             LAMBDA r : Then(sfs_readblock(r),
             LAMBDA q : sfs_writeblock(Moved(q, len), r.out,
                            [is |-> "data", part |-> over(AsData(q.disk[r.out]))])))

sfs_blockio(s, v, pos, value) ==
    Then(sfs_bmap(s, v, pos \div Parts, TRUE),
         LAMBDA r : Moved(sfs_writeblock(r, r.out,
                              [is |-> "data", part |-> [p \in 0 .. Parts - 1 |-> value]]),
                          Parts))

\* A write of n parts: the rest of a block, whole blocks, the start of a block.
\* The size follows what was moved.
sfs_io(s, v, offset, n, value) ==
    LET head    == IF offset % Parts = 0 THEN 0
                   ELSE Minimum({Parts - (offset % Parts), n})
        nblocks == (n - head) \div Parts
        tail    == (n - head) % Parts
        pos(x)  == offset + x.moved
        first   == IF head = 0 THEN s ELSE sfs_partialio(s, v, offset, head, value)
        whole   == FoldLeft(LAMBDA acc, i :
                                Then(acc, LAMBDA x : sfs_blockio(x, v, pos(x), value)),
                            first, [i \in 1 .. nblocks |-> i])
        r       == IF tail = 0 THEN whole
                   ELSE Then(whole, LAMBDA x : sfs_partialio(x, v, pos(x), tail, value))
    IN  IF r.moved > 0 /\ pos(r) > r.vnodes[v].i.size
        THEN [r EXCEPT !.vnodes[v].i.size = pos(r), !.vnodes[v].dirty = TRUE]
        ELSE r

----------------------------------------------------------------------------
\* The file system (sfs_fsops.c)

\* Failures of VOP_FSYNC are not looked at.
sfs_sync_vnodes(s) ==
    FoldLeft(LAMBDA acc, v : [sfs_sync_inode(acc, v) EXCEPT !.res = "ok"],
             s, SetToSeq(DOMAIN s.vnodes))

sfs_sync_freemap(s) ==
    IF ~s.freemapdirty THEN s
    ELSE [sfs_rwblock(s, "write") EXCEPT
             !.diskmap = IF Failing(s) THEN @ ELSE s.freemap, !.freemapdirty = FALSE]

sfs_sync(s) == sfs_sync_freemap(sfs_sync_vnodes(s))

----------------------------------------------------------------------------
\* The calls, one action for each section of the big lock

Unmounted ==
    [freemap |-> {}, freemapdirty |-> FALSE, vnodes |-> << >>, lost |-> FALSE,
     fault |-> "none"]

\* The volume as mksfs leaves it.
Init ==
    /\ disk = [b \in Blocks |->
                  IF b = SFS_ROOTDIR_INO
                  THEN [EmptyInode("dir") EXCEPT !.linkcount = 1] ELSE Stale]
    /\ diskmap = 0 .. SFS_FREEMAP_START
    /\ mounted = FALSE
    /\ sfs = Unmounted
    /\ pc = [t \in Threads |-> "idle"]
    /\ file = [t \in Threads |-> SFS_NOINO]
    /\ drop = [t \in Threads |-> << >>]
    /\ trunc = [t \in Threads |-> FALSE]
    /\ fails = 0
    /\ calls = 0

Within(c, f) == \E b \in Bounds : c <= b[1] /\ f <= b[2]

\* The transfers of a section that the disk fails: none, one or two of them.
OneFails == {{k} : k \in 1 .. MaxIo}
TwoFail == {{j, k} : j, k \in 1 .. MaxIo} \ OneFails
FailAt ==
    {{}} \union (IF Within(calls, fails + 1) THEN OneFails ELSE {})
         \union (IF Within(calls, fails + 2) THEN TwoFail ELSE {})

Start(F) ==
    [disk |-> disk, diskmap |-> diskmap, freemap |-> sfs.freemap,
     freemapdirty |-> sfs.freemapdirty, vnodes |-> sfs.vnodes, lost |-> sfs.lost,
     fault |-> sfs.fault, res |-> "ok", out |-> 0, moved |-> 0, io |-> F]

\* The section that began with Start(F) has transferred as much as r says.
Transfers(F, r) ==
    /\ r.io = {}
    /\ fails' = fails + Cardinality(F)
    /\ disk' = r.disk
    /\ diskmap' = r.diskmap

\* It ends in r.
Section(F, r) ==
    /\ Transfers(F, r)
    /\ sfs' = [freemap |-> r.freemap, freemapdirty |-> r.freemapdirty,
               vnodes |-> r.vnodes, lost |-> r.lost, fault |-> r.fault]
    /\ UNCHANGED mounted

\* The kernel has not stopped, and no write was lost.
Running == sfs.fault = "none" /\ ~sfs.lost

\* The thread begins a call.
Begin(t, F) ==
    /\ mounted /\ Running /\ pc[t] = "idle"
    /\ Within(calls + 1, fails + Cardinality(F))
    /\ calls' = calls + 1

At(t, place) == mounted /\ Running /\ pc[t] = place

\* vfs_lookup of an open without O_CREAT, which may have O_TRUNC, or of the old
\* name of a link.
vfs_lookup(t, name, F) ==
    LET r == Then(sfs_getroot(Start(F)),
                  LAMBDA x : VOP_DECREF(sfs_lookonce(x, SFS_ROOTDIR_INO, name),
                                        SFS_ROOTDIR_INO))
    IN  /\ Begin(t, F) /\ file[t] = SFS_NOINO
        /\ Section(F, r)
        /\ IF r.res = "ok"
           THEN /\ file' = [file EXCEPT ![t] = r.out.ino]
                /\ \E next \in {"idle", "truncate", "newdir"} : pc' = [pc EXCEPT ![t] = next]
           ELSE UNCHANGED <<file, pc>>
        /\ UNCHANGED <<drop, trunc>>

\* vfs_rename calls vfs_lookparent twice; the second call only counts.
vfs_lookparent(t, call, F) ==
    LET r     == sfs_getroot(Start(F))
        count == IF call = "rename" THEN 2 ELSE 1
    IN  /\ \/ call \in {"remove", "rename"} /\ Begin(t, F)
           \/ call = "creat" /\ Begin(t, F) /\ file[t] = SFS_NOINO
           \/ call = "link" /\ At(t, "newdir") /\ UNCHANGED calls
        /\ IF r.res = "ok"
           THEN /\ Section(F, [r EXCEPT !.vnodes[SFS_ROOTDIR_INO].refcount = @ + count - 1])
                /\ drop' = [drop EXCEPT ![t] = [i \in 1 .. count |-> SFS_ROOTDIR_INO]]
                /\ pc' = [pc EXCEPT ![t] = call]
                /\ UNCHANGED file
           ELSE /\ Section(F, r)
                /\ IF call = "link"
                   THEN /\ drop' = [drop EXCEPT ![t] = <<file[t]>>]
                        /\ file' = [file EXCEPT ![t] = SFS_NOINO]
                        /\ pc' = [pc EXCEPT ![t] = "drop"]
                   ELSE UNCHANGED <<drop, file, pc>>
        /\ UNCHANGED trunc

\* An open with O_CREAT, which may have O_TRUNC.
VOP_CREAT(t, name, excl, F) ==
    LET r == sfs_creat(Start(F), SFS_ROOTDIR_INO, name, excl)
    IN  /\ At(t, "creat")
        /\ Section(F, r)
        /\ file' = [file EXCEPT ![t] = IF r.res = "ok" THEN r.out ELSE @]
        /\ \E otrunc \in BOOLEAN : trunc' = [trunc EXCEPT ![t] = otrunc /\ r.res = "ok"]
        /\ pc' = [pc EXCEPT ![t] = "drop"]
        /\ UNCHANGED <<drop, calls>>

VOP_LINK(t, name, F) ==
    /\ At(t, "link")
    /\ Section(F, sfs_link(Start(F), SFS_ROOTDIR_INO, name, file[t]))
    /\ drop' = [drop EXCEPT ![t] = Append(@, file[t])]
    /\ file' = [file EXCEPT ![t] = SFS_NOINO]
    /\ pc' = [pc EXCEPT ![t] = "drop"]
    /\ UNCHANGED <<trunc, calls>>

VOP_REMOVE(t, name, F) ==
    /\ At(t, "remove")
    /\ Section(F, sfs_remove(Start(F), SFS_ROOTDIR_INO, name))
    /\ pc' = [pc EXCEPT ![t] = "drop"]
    /\ UNCHANGED <<file, drop, trunc, calls>>

VOP_RENAME(t, n1, n2, F) ==
    /\ At(t, "rename")
    /\ Section(F, sfs_rename(Start(F), SFS_ROOTDIR_INO, n1, n2))
    /\ pc' = [pc EXCEPT ![t] = "drop"]
    /\ UNCHANGED <<file, drop, trunc, calls>>

\* O_TRUNC; the vnode is dropped when the truncation fails.
VOP_TRUNCATE(t, F) ==
    LET r == sfs_itrunc(Start(F), file[t], 0)
    IN  /\ At(t, "truncate")
        /\ Section(F, r)
        /\ trunc' = [trunc EXCEPT ![t] = FALSE]
        /\ UNCHANGED calls
        /\ IF r.res = "ok"
           THEN pc' = [pc EXCEPT ![t] = "idle"] /\ UNCHANGED <<file, drop>>
           ELSE /\ pc' = [pc EXCEPT ![t] = "drop"]
                /\ drop' = [drop EXCEPT ![t] = <<file[t]>>]
                /\ file' = [file EXCEPT ![t] = SFS_NOINO]

VOP_WRITE(t, offset, n, value, F) ==
    /\ Begin(t, F) /\ file[t] # SFS_NOINO
    /\ Section(F, sfs_io(Start(F), file[t], offset, n, value))
    /\ UNCHANGED threadvars

vfs_close(t) ==
    /\ At(t, "idle") /\ file[t] # SFS_NOINO
    /\ drop' = [drop EXCEPT ![t] = <<file[t]>>]
    /\ file' = [file EXCEPT ![t] = SFS_NOINO]
    /\ pc' = [pc EXCEPT ![t] = "drop"]
    /\ UNCHANGED <<disk, diskmap, mounted, sfs, trunc, fails, calls>>

\* The first reference of drop[t] is gone.
Dropped(t) ==
    /\ drop' = [drop EXCEPT ![t] = Tail(@)]
    /\ pc' = [pc EXCEPT ![t] = IF Len(drop[t]) > 1 THEN "drop"
                               ELSE IF trunc[t] THEN "truncate" ELSE "idle"]
    /\ UNCHANGED <<file, trunc>>

\* vnode_decref, outside the big lock: the last reference is kept for
\* VOP_RECLAIM, which follows.
vnode_decref(t) ==
    LET v == Head(drop[t])
    IN  /\ At(t, "drop")
        /\ IF v \notin DOMAIN sfs.vnodes
           THEN sfs' = [sfs EXCEPT !.fault = "assert"] /\ UNCHANGED threadvars
           ELSE IF sfs.vnodes[v].refcount > 1
           THEN sfs' = [sfs EXCEPT !.vnodes[v].refcount = @ - 1] /\ Dropped(t)
           ELSE pc' = [pc EXCEPT ![t] = "reclaim"] /\ UNCHANGED <<sfs, file, drop, trunc>>
        /\ UNCHANGED <<disk, diskmap, mounted, fails, calls>>

VOP_RECLAIM(t, F) ==
    LET v == Head(drop[t])
    IN  /\ At(t, "reclaim")
        /\ Section(F, IF v \in DOMAIN sfs.vnodes THEN sfs_reclaim(Start(F), v)
                      ELSE Fault(Start({})))
        /\ Dropped(t)
        /\ UNCHANGED calls

vfs_sync(F) ==
    /\ mounted /\ Running
    /\ Section(F, sfs_sync(Start(F)))
    /\ UNCHANGED <<threadvars, calls>>

\* FSOP_SYNC, then FSOP_UNMOUNT, which refuses while a vnode is loaded.
vfs_unmount(F) ==
    LET r    == sfs_sync(Start(F))
        busy == r.res # "ok" \/ DOMAIN r.vnodes # {}
    IN  /\ mounted /\ Running
        /\ IF busy THEN Section(F, r)
           ELSE /\ Transfers(F, r)
                /\ mounted' = FALSE
                /\ sfs' = [Unmounted EXCEPT
                              !.lost = r.lost,
                              !.fault = IF r.freemapdirty THEN "assert" ELSE "none"]
        /\ UNCHANGED <<threadvars, calls>>

\* Two transfers: the superblock and the freemap.
sfs_domount(F) ==
    LET r == Then(sfs_readblock(Start(F)), sfs_readblock)
    IN  /\ ~mounted /\ Running
        /\ Transfers(F, r)
        /\ mounted' = (r.res = "ok")
        /\ sfs' = IF r.res = "ok" THEN [sfs EXCEPT !.freemap = diskmap] ELSE sfs
        /\ UNCHANGED <<threadvars, calls>>

OpenCall(t) ==
    \E name \in Names, F \in FailAt :
        vfs_lookup(t, name, F) \/ \E excl \in BOOLEAN : VOP_CREAT(t, name, excl, F)

NameCall(t) ==
    \E F \in FailAt :
        \/ \E call \in {"creat", "remove", "rename", "link"} : vfs_lookparent(t, call, F)
        \/ \E name \in Names : VOP_LINK(t, name, F) \/ VOP_REMOVE(t, name, F)
        \/ \E n1, n2 \in Names : VOP_RENAME(t, n1, n2, F)

FileCall(t) ==
    \E F \in FailAt :
        \/ \E w \in Writes, value \in Data : VOP_WRITE(t, w[1], w[2], value, F)
        \/ VOP_TRUNCATE(t, F)
        \/ VOP_RECLAIM(t, F)

Next ==
    \/ \E t \in Threads :
           OpenCall(t) \/ NameCall(t) \/ FileCall(t) \/ vfs_close(t) \/ vnode_decref(t)
    \/ \E F \in FailAt : vfs_sync(F) \/ vfs_unmount(F) \/ sfs_domount(F)

Spec == Init /\ [][Next]_vars

----------------------------------------------------------------------------
\* What is on the volume, as the kernel sees it: loaded inodes are in memory.

InodeOf(ino) == IF ino \in DOMAIN sfs.vnodes THEN sfs.vnodes[ino].i ELSE disk[ino]
FreeMap == IF mounted THEN sfs.freemap ELSE diskmap

BlockAt(i, fileblock) ==
    CASE fileblock < SFS_NDIRECT -> i.direct[fileblock]
      [] fileblock >= SFS_NDIRECT /\ i.indirect = 0 -> 0
      [] OTHER -> AsIndirect(disk[i.indirect])[fileblock - SFS_NDIRECT]

\* The slots of the directory that are in use, with their entries.
EntryAt(slot) ==
    LET b == BlockAt(InodeOf(SFS_ROOTDIR_INO), BlockOf(slot))
    IN  IF b = 0 THEN FreeEntry ELSE AsEntries(disk[b])[PlaceOf(slot)]
Entries ==
    {e \in {<<slot, EntryAt(slot)>> : slot \in 0 .. InodeOf(SFS_ROOTDIR_INO).size - 1} :
        e[2].ino # SFS_NOINO}
Named == {e[2].ino : e \in Entries}
Inodes == {SFS_ROOTDIR_INO} \union Named \union DOMAIN sfs.vnodes

\* Every place that refers to a block, with the block.
Claims(ino) ==
    LET i == InodeOf(ino)
    IN  {<<ino, "inode", 0, ino>>, <<ino, "indirect", 0, i.indirect>>}
        \union {<<ino, "block", b, BlockAt(i, b)>> : b \in 0 .. MaxSize - 1}
AllClaims == {c \in UNION {Claims(ino) : ino \in Inodes} : c[4] # 0}

\* No block has two owners, and the blocks marked in use are exactly those that
\* something refers to: no file shares a block with another and none is leaked,
\* whatever was unlinked while open and whatever could not be read.
BlocksSound ==
    LET claims == AllClaims
        owned  == {c[4] : c \in claims}
    IN  ~sfs.lost =>
            /\ Cardinality(owned) = Cardinality(claims)
            /\ owned \intersect {0, SFS_FREEMAP_START} = {}
            /\ FreeMap = owned \union {0, SFS_FREEMAP_START}

\* The link count of every inode is the number of its names, and no name is
\* there twice, also after a rename or a remove that failed half way.
LinksSound ==
    LET entries == Entries
    IN  ~sfs.lost =>
            /\ \A e, f \in entries : e[2].name = f[2].name => e = f
            /\ \A ino \in Inodes \ {SFS_ROOTDIR_INO} :
                  /\ InodeOf(ino).type = "file"
                  /\ InodeOf(ino).linkcount = Cardinality({e \in entries : e[2].ino = ino})

Holders(v) ==
    {<<t, 0>> : t \in {u \in Threads : file[u] = v}}
    \union {h \in Threads \X (1 .. 2) : h[2] <= Len(drop[h[1]]) /\ drop[h[1]][h[2]] = v}

\* A vnode is in memory as long as somebody refers to it, and no longer: its
\* reference count is the number of references (a failed reclaim strands one).
\* As long as no write is lost no KASSERT of the file system fails, and the only
\* panic is that of a rename that neither goes on nor can be undone, which takes
\* two reads that fail.
RefsSound ==
    /\ ~sfs.lost => sfs.fault # "assert"
    /\ sfs.fault = "rename" => fails >= 2
    /\ \A v \in Blocks \ {0} : Holders(v) # {} => v \in DOMAIN sfs.vnodes
    /\ \A v \in DOMAIN sfs.vnodes :
          /\ sfs.vnodes[v].refcount >= Cardinality(Holders(v))
          /\ fails = 0 => sfs.vnodes[v].refcount = Cardinality(Holders(v))

\* What is not marked dirty is on disk, unless the disk failed the write that
\* cleared the mark: sync and reclaim miss nothing.
CleanIsOnDisk ==
    mounted /\ ~sfs.lost =>
        /\ \A v \in DOMAIN sfs.vnodes : sfs.vnodes[v].dirty \/ disk[v] = sfs.vnodes[v].i
        /\ sfs.freemapdirty \/ diskmap = sfs.freemap

\* The file each name stands for, and the contents of the files that live.
DirNow ==
    LET entries == Entries
    IN  [n \in Names |-> IF \E e \in entries : e[2].name = n
                         THEN (CHOOSE e \in entries : e[2].name = n)[2].ino ELSE SFS_NOINO]
ContentNow(ino) ==
    LET inode == InodeOf(ino)
        block(n) == LET b == BlockAt(inode, n) IN AsData(IF b = 0 THEN Cleared ELSE disk[b])
    IN  [i \in 1 .. inode.size |-> block((i - 1) \div Parts)[(i - 1) % Parts]]

Promise == INSTANCE NamedFiles WITH
    Files <- Blocks \ {0, SFS_ROOTDIR_INO, SFS_FREEMAP_START}, NoFile <- SFS_NOINO,
    MaxLen <- MaxSize * Parts, dir <- DirNow, held <- file,
    content <- [ino \in (Named \union {file[t] : t \in Threads}) \ {SFS_NOINO} |->
                   ContentNow(ino)]

\* The calls behave as if names, files and contents changed in one step each:
\* no failed call leaves half a rename or a file without its blocks, and what
\* was written is there again after a reclaim, an unmount and a mount.  A step
\* that loses a write or stops the kernel is not held to it.
ImplementsNamedFiles ==
    Promise!Init /\ [][Running' => UNCHANGED Promise!vars \/ Promise!Next]_vars

\* What write.html says of EIO: a write that reports success is on the disk.
\* False: sfs_rwblock reports success for a write the disk has failed.
WriteReports ==
    [][\A t \in Threads, w \in Writes, value \in Data, F \in FailAt :
          /\ VOP_WRITE(t, w[1], w[2], value, F)
          /\ sfs_io(Start(F), file[t], w[1], w[2], value).res = "ok"
          => \A i \in w[1] + 1 .. w[1] + w[2] : ContentNow(file[t])'[i] = value]_vars

=============================================================================
