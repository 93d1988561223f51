----------------------------- MODULE NamedFiles -----------------------------
(***************************************************************************)
(* What the calls open, link, remove, rename and write are to their        *)
(* callers: a call on a name takes effect in one step or not at all, and a *)
(* file keeps its contents as long as it has a name or somebody holds it.  *)
(* Loading, reclaiming, syncing, unmounting and mounting are not seen.     *)
(*                                                                         *)
(* It is what the manual pages promise but for a rename onto a name that   *)
(* exists: rename.html replaces that name, and succeeds when both stand    *)
(* for the same file, where sfs_rename refuses with EEXIST.                *)
(***************************************************************************)
EXTENDS Integers, Sequences

CONSTANTS Threads, Names, Files, NoFile, Data, MaxLen

VARIABLES dir,      \* the file of each name, or NoFile
          held,     \* the file each thread holds, or NoFile
          content   \* the parts of every file that lives

vars == <<dir, held, content>>

Live(d, h) == ({d[n] : n \in Names} \union {h[t] : t \in Threads}) \ {NoFile}

\* A file that has lost its last name and its last holder is gone.
Become(d, h, c) ==
    /\ held' = h
    /\ dir' = d
    /\ content' = [f \in Live(d, h) |-> c[f]]

Let(t, f) == [held EXCEPT ![t] = f]
Name(n, f) == [dir EXCEPT ![n] = f]

Init ==
    /\ dir = [n \in Names |-> NoFile]
    /\ held = [t \in Threads |-> NoFile]
    /\ content = << >>

Create(t, n, f) ==
    /\ held[t] = NoFile /\ dir[n] = NoFile /\ f \notin Live(dir, held)
    /\ Become(Name(n, f), Let(t, f), [g \in DOMAIN content \union {f} |->
                                          IF g = f THEN << >> ELSE content[g]])

Open(t, n) ==
    /\ held[t] = NoFile /\ dir[n] # NoFile
    /\ Become(dir, Let(t, dir[n]), content)

Close(t) ==
    /\ held[t] # NoFile
    /\ Become(dir, Let(t, NoFile), content)

\* The caller gives the file up at the end of the call.
Link(t, n) ==
    /\ held[t] # NoFile /\ dir[n] = NoFile
    /\ Become(Name(n, held[t]), Let(t, NoFile), content)

Remove(n) ==
    /\ dir[n] # NoFile
    /\ Become(Name(n, NoFile), held, content)

\* The new name must not be there (sfs_dir_link).
Rename(n1, n2) ==
    /\ dir[n1] # NoFile /\ dir[n2] = NoFile
    /\ Become([Name(n1, NoFile) EXCEPT ![n2] = dir[n1]], held, content)

\* Parts that were never written read as zero.
Written(c, offset, n, value) ==
    [i \in 1 .. (IF Len(c) > offset + n THEN Len(c) ELSE offset + n) |->
        CASE i > offset /\ i <= offset + n -> value
          [] ~(i > offset /\ i <= offset + n) /\ i <= Len(c) -> c[i]
          [] OTHER -> 0]

Write(t) ==
    /\ held[t] # NoFile
    /\ \E offset \in 0 .. MaxLen - 1, n \in 1 .. MaxLen, value \in Data :
          Become(dir, held, [content EXCEPT ![held[t]] = Written(@, offset, n, value)])

Truncate(t) ==
    /\ held[t] # NoFile
    /\ Become(dir, held, [content EXCEPT ![held[t]] = << >>])

\* A truncation that cannot read the disk gives the file up; parts may be lost.
TruncateFails(t) ==
    /\ held[t] # NoFile
    /\ \E lost \in SUBSET (1 .. MaxLen) :
          Become(dir, Let(t, NoFile),
                 [content EXCEPT ![held[t]] =
                     [i \in DOMAIN @ |-> IF i \in lost THEN 0 ELSE @[i]]])

\* The calls that take or give up a file, that change names, that change files.
HolderStep ==
    \E t \in Threads :
        /\ held'[t] # held[t]
        /\ \/ Close(t) \/ TruncateFails(t)
           \/ \E n \in Names : Open(t, n) \/ Link(t, n) \/ \E f \in Files : Create(t, n, f)

NameStep ==
    /\ dir' # dir
    /\ \/ \E n \in Names : Remove(n)
       \/ \E n1, n2 \in Names : Rename(n1, n2)

FileStep ==
    /\ content' # content
    /\ \E t \in Threads : Write(t) \/ Truncate(t)

Next == HolderStep \/ NameStep \/ FileStep

Spec == Init /\ [][Next]_vars
=============================================================================
