----------------------------- MODULE MCFileSys -----------------------------
(* A directory of four entries with FNAME_LEN = 3: ".", the shell, a      *)
(* full-length name (no terminator) and a name that is its prefix, which *)
(* the lookup scan reaches after it.  Blocks of 2 bytes; the shell's 4   *)
(* bytes fill two blocks, so its last byte ends on a block boundary.     *)
EXTENDS FileSys

MC_Dir == << [name |-> <<".">>,           file_type |-> 1, inode_index |-> 0],
             [name |-> <<"s", "h">>,      file_type |-> 2, inode_index |-> 1],
             [name |-> <<"a", "b", "c">>, file_type |-> 2, inode_index |-> 2],
             [name |-> <<"a", "b">>,      file_type |-> 2, inode_index |-> 3] >>

(* Inode 1 (the shell): 4 bytes in blocks 1 and 2, unused entry 0, which *)
(* read_data fetches after the last byte.                                *)
MC_Inodes == [i \in 0 .. 3 |->
                CASE i = 0 -> [length |-> 0, blocks |-> <<0, 0, 0>>]
                  [] i = 1 -> [length |-> 4, blocks |-> <<1, 2, 0>>]
                  [] i = 2 -> [length |-> 2, blocks |-> <<3, 0, 0>>]
                  [] i = 3 -> [length |-> 1, blocks |-> <<3, 0, 0>>]]

MC_DirName == <<".">>

MC_RegName == <<"s", "h">>

(* A cursor may fall to -2 before reads stop. *)
MC_POS_FLOOR == -2

MC_Queries == {<<"s", "h">>, <<"a">>, <<"a", "b">>, <<"x">>}

MC_QueriesPass == {<<"a", "b">>, <<"x">>}
=============================================================================
