---------------------------- MODULE MCFileTable -----------------------------
(* FileTable for TLC.                                                      *)
EXTENDS FileTable

(* A file onto standard output, onto another file, an output onto a file.  *)
MCDupFds == {<<3, 1>>, <<3, 4>>, <<1, 3>>}

(* Two files and a duplicate for careful programs; two files for others,   *)
(* with room for both or for one of them.                                  *)
MCAny == [careful |-> FALSE, slots |-> 5, structs |-> 5]
MCAnyProgram == {MCAny}
MCSettings == {MCAny, [MCAny EXCEPT !.slots = 4],
               [careful |-> TRUE, slots |-> 5, structs |-> 6]}
=============================================================================
