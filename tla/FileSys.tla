------------------------------- MODULE FileSys -------------------------------
(***************************************************************************)
(* The read-only file system of filesys.c as the descriptor layer uses it: *)
(* name lookup (read_dentry_by_name), directory listing for ls            *)
(* (fs_dir_ls_read_helper) and regular-file reads (filesys_read over      *)
(* read_data).                                                            *)
(*                                                                         *)
(* A listing keeps its position in two globals shared by every            *)
(* descriptor and task: file_pos_keeper, which every successful           *)
(* read_dentry_by_name also overwrites, and fs_dir_read_flag.  The        *)
(* actors are the open directory descriptors DirFds, the regular-file     *)
(* descriptors RegFds and the other name lookups of the kernel (open and   *)
(* execute of any file, halt's restart of "shell"); one program can       *)
(* interleave all of them in any order, so no scheduler is needed for     *)
(* these interleavings.                                                   *)
(*                                                                         *)
(* Names are tuples of one-character strings.  A directory entry's name   *)
(* has no terminator when it is FNAME_LEN characters long.               *)
(***************************************************************************)
EXTENDS Naturals, Integers, Sequences, FiniteSets

CONSTANTS
  FNAME_LEN,        \* filesys.h FNAME_LEN (32)
  FILE_DENTRIES,    \* filesys.h FILE_DENTRIES (63)
  DATA_BLOCK_SIZE,  \* filesys.h DATA_BLOCK_SIZE (4096)
  Dir,              \* the boot block's dentries: <<[name, file_type, inode_index]>>
  Inodes,           \* inode_index -> [length, DATA_BLOCKS]
  N_DATA_BLOCKS,    \* boot block word 2: number of data blocks
  DirName,          \* name the directory descriptors were opened with (".")
  RegName,          \* name the regular-file descriptors were opened with
  Queries,          \* names other syscalls look up
  NBytes,           \* nbytes arguments of read
  DirFds, RegFds,   \* directory and regular-file descriptors
  MAX_LISTING,      \* bound on the names one descriptor collects
  POS_FLOOR,        \* bound on how far a cursor may fall below 0
  NONE

ASSUME /\ FNAME_LEN \in Nat \ {0}
       /\ Len(Dir) \in 1 .. FILE_DENTRIES
       /\ \A i \in DOMAIN Dir : Len(Dir[i].name) \in 1 .. FNAME_LEN
       /\ DATA_BLOCK_SIZE \in Nat \ {0}
       /\ NBytes \subseteq Nat \ {0}

Idx == 0 .. Len(Dir) - 1

(* The dentry at index i (dentries are 0-based in the code). *)
Dentry(i) == Dir[i + 1]

(* strlen of a dentry name: a full-length name runs into file_type, so    *)
(* its strlen is at least FNAME_LEN.                                      *)
DentryLen(i) == Len(Dentry(i).name)

(* strncmp(a, b, n) = 0 *)
PrefixEq(a, b, n) == SubSeq(a, 1, n) = SubSeq(b, 1, n)

(* read_dentry_by_name (filesys.c 35-64): the index it finds, or -1.     *)
(* fname_len is strlen(fname) cut to FNAME_LEN; an entry matches when     *)
(* its length is fname_len or at least FNAME_LEN and its first fname_len *)
(* characters are fname's.                                               *)
RECURSIVE ScanDentries(_, _, _)
ScanDentries(fname, fname_len, i) ==
  IF i >= FILE_DENTRIES \/ i >= Len(Dir) THEN -1
  ELSE IF /\ DentryLen(i) = fname_len \/ DentryLen(i) >= FNAME_LEN
          /\ PrefixEq(fname, Dentry(i).name, fname_len)
       THEN i
       ELSE ScanDentries(fname, fname_len, i + 1)

read_dentry_by_name(fname) ==
  LET fname_len == IF Len(fname) > FNAME_LEN THEN FNAME_LEN ELSE Len(fname)
  IN IF fname_len = 0 THEN -1 ELSE ScanDentries(fname, fname_len, 0)

(* Mutant: read_dentry_by_index without its index >= dir_num check. *)
ReadDentryByIndexOkNoDirNum(index) == index < FILE_DENTRIES

(* read_dentry_by_index (filesys.c 73-89) succeeds. *)
ReadDentryByIndexOk(index) == index < FILE_DENTRIES /\ index < Len(Dir)

(* Every entry once, in directory order. *)
WholeListing == [k \in 1 .. Len(Dir) |-> k - 1]

VARIABLES
  file_pos_keeper,   \* filesys.c file_pos_keeper
  fs_dir_read_flag,  \* filesys.c fs_dir_read_flag
  dir_open,          \* descriptor in use (file_array[fd].flags)
  file_pos,          \* file_array[fd].file_pos of a regular-file descriptor
  listing,           \* history: entries the descriptor's reads returned since open
  complete,          \* history: whether the listing the last 0-return ended was whole
  delivered,         \* history: bytes the reads of a regular descriptor reported
  last_read          \* history: result of the descriptor's last read

vars == <<file_pos_keeper, fs_dir_read_flag, dir_open, file_pos, listing,
          complete, delivered, last_read>>

(* Every read_dentry_by_name that succeeds leaves its index in           *)
(* file_pos_keeper (filesys.c 55).                                        *)
Lookup(fname) ==
  LET r == read_dentry_by_name(fname)
  IN file_pos_keeper' = IF r = -1 THEN file_pos_keeper ELSE r

(***************************************************************************)
(* read_data (filesys.c 105-144)                                           *)
(***************************************************************************)

(* inode_ptr->DATA_BLOCKS[k]; an index past the inode block reads other   *)
(* memory, whose value garbage stands for.                               *)
BlockAt(inode, k, garbage) ==
  IF k < Len(Inodes[inode].blocks) THEN Inodes[inode].blocks[k + 1] ELSE garbage

(* Mutant: the copy loop runs while i + offset <= length. *)
RECURSIVE CopyLoopPastEof(_, _, _, _, _, _, _)
CopyLoopPastEof(inode, offset, length, i, nth_blk, byte_tracker, garbage) ==
  IF ~(i < length /\ i + offset <= Inodes[inode].length) THEN i
  ELSE IF byte_tracker + 1 >= DATA_BLOCK_SIZE
       THEN IF BlockAt(inode, nth_blk + 1, garbage) >= N_DATA_BLOCKS THEN -1
            ELSE CopyLoopPastEof(inode, offset, length, i + 1, nth_blk + 1, 0, garbage)
       ELSE CopyLoopPastEof(inode, offset, length, i + 1, nth_blk, byte_tracker + 1, garbage)

(* The copy loop (126-141): stop at length bytes or at the end of the    *)
(* file; crossing into a block whose number is out of range returns -1  *)
(* and drops the count of bytes already copied.                          *)
RECURSIVE CopyLoop(_, _, _, _, _, _, _)
CopyLoop(inode, offset, length, i, nth_blk, byte_tracker, garbage) ==
  IF ~(i < length /\ i + offset < Inodes[inode].length) THEN i
  ELSE IF byte_tracker + 1 >= DATA_BLOCK_SIZE
       THEN IF BlockAt(inode, nth_blk + 1, garbage) >= N_DATA_BLOCKS THEN -1
            ELSE CopyLoop(inode, offset, length, i + 1, nth_blk + 1, 0, garbage)
       ELSE CopyLoop(inode, offset, length, i + 1, nth_blk, byte_tracker + 1, garbage)

(* read_data(inode, offset, buf, length) with the int32 file_pos passed  *)
(* as the uint32 offset.  A negative pos is an offset of at least 2^31:  *)
(* its block index lies far past the inode, and it is past the end.     *)
read_data(inode, pos, length, garbage) ==
  IF pos < 0
  THEN IF garbage >= N_DATA_BLOCKS THEN -1 ELSE 0
  ELSE LET nth_blk   == pos \div DATA_BLOCK_SIZE
           cur_block == BlockAt(inode, nth_blk, garbage)
       IN IF inode \notin DOMAIN Inodes \/ cur_block >= N_DATA_BLOCKS THEN -1
          ELSE IF pos >= Inodes[inode].length THEN 0
          ELSE CopyLoop(inode, pos, length, 0, nth_blk, pos % DATA_BLOCK_SIZE, garbage)

(* Values an out-of-inode DATA_BLOCKS read can produce: a valid and an   *)
(* out-of-range block number.                                            *)
Garbage == {0, N_DATA_BLOCKS}

(***************************************************************************)
(* Actions                                                                 *)
(***************************************************************************)

(* Another syscall's lookup: open or execute of any name, halt's restart. *)
OtherLookup(fname) ==
  /\ Lookup(fname)
  /\ UNCHANGED <<fs_dir_read_flag, dir_open, file_pos, listing, complete,
                 delivered, last_read>>

(* open(DirName) of a directory descriptor (syscall.c 557-599): the      *)
(* lookup, then a fresh entry; fs_dir_open does nothing.                 *)
OpenDir(d) ==
  /\ ~dir_open[d]
  /\ Lookup(DirName)
  /\ dir_open' = [dir_open EXCEPT ![d] = TRUE]
  /\ listing' = [listing EXCEPT ![d] = <<>>]
  /\ UNCHANGED <<fs_dir_read_flag, file_pos, complete, delivered, last_read>>

(* close of a directory descriptor: fs_dir_close does nothing. *)
CloseDir(d) ==
  /\ dir_open[d]
  /\ dir_open' = [dir_open EXCEPT ![d] = FALSE]
  /\ UNCHANGED <<file_pos_keeper, fs_dir_read_flag, file_pos, listing, complete,
                 delivered, last_read>>

(* read of a directory descriptor: fs_dir_read -> fs_dir_ls_read_helper  *)
(* (filesys.c 262-301).  With the flag clear it looks up the directory's *)
(* own name and returns that entry; with it set it advances the shared   *)
(* file_pos_keeper, and at the end clears both and returns 0.            *)
DirRead(d) ==
  /\ dir_open[d]
  /\ Len(listing[d]) < MAX_LISTING
  /\ IF fs_dir_read_flag = 0
     THEN LET r == read_dentry_by_name(DirName)
          IN /\ fs_dir_read_flag' = 1
             /\ Lookup(DirName)
             /\ listing' = IF r = -1 THEN listing
                           ELSE [listing EXCEPT ![d] = Append(@, r)]
             /\ UNCHANGED complete
     ELSE LET k == file_pos_keeper + 1
          IN IF ReadDentryByIndexOk(k)
             THEN /\ file_pos_keeper' = k
                  /\ listing' = [listing EXCEPT ![d] = Append(@, k)]
                  /\ UNCHANGED <<fs_dir_read_flag, complete>>
             ELSE /\ fs_dir_read_flag' = 0
                  /\ file_pos_keeper' = 0
                  /\ complete' = [complete EXCEPT ![d] = (listing[d] = WholeListing)]
                  /\ listing' = [listing EXCEPT ![d] = <<>>]
  /\ UNCHANGED <<dir_open, file_pos, delivered, last_read>>

(* open(RegName) of a regular-file descriptor: file_pos starts at 0. *)
OpenFile(f) ==
  /\ file_pos[f] = NONE
  /\ Lookup(RegName)
  /\ file_pos' = [file_pos EXCEPT ![f] = 0]
  /\ delivered' = [delivered EXCEPT ![f] = 0]
  /\ last_read' = [last_read EXCEPT ![f] = NONE]
  /\ UNCHANGED <<fs_dir_read_flag, dir_open, listing, complete>>

CloseFile(f) ==
  /\ file_pos[f] # NONE
  /\ file_pos' = [file_pos EXCEPT ![f] = NONE]
  /\ UNCHANGED <<file_pos_keeper, fs_dir_read_flag, dir_open, listing, complete,
                 delivered, last_read>>

(* filesys_read_helper (filesys.c 167-182): look the stored name up and *)
(* read_data from the cursor. *)
filesys_read_helper(pos, n, g) ==
  LET r == read_dentry_by_name(RegName)
  IN IF r = -1 THEN -1 ELSE read_data(Dentry(r).inode_index, pos, n, g)

(* read of a regular-file descriptor: filesys_read (syscall.c 715-722)   *)
(* looks the stored name up again, reads from file_pos, and adds the     *)
(* result, -1 included, to file_pos.                                     *)
FileRead(f, n) ==
  /\ file_pos[f] # NONE
  /\ file_pos[f] > POS_FLOOR
  /\ Lookup(RegName)
  /\ \E g \in Garbage :
       LET ret == filesys_read_helper(file_pos[f], n, g)
       IN /\ file_pos' = [file_pos EXCEPT ![f] = @ + ret]
          /\ delivered' = [delivered EXCEPT ![f] = @ + (IF ret > 0 THEN ret ELSE 0)]
          /\ last_read' = [last_read EXCEPT ![f] = ret]
  /\ UNCHANGED <<fs_dir_read_flag, dir_open, listing, complete>>

(* The globals are zero-initialised; no descriptor is open. *)
Init ==
  /\ file_pos_keeper = 0
  /\ fs_dir_read_flag = 0
  /\ dir_open = [d \in DirFds |-> FALSE]
  /\ file_pos = [f \in RegFds |-> NONE]
  /\ listing = [d \in DirFds |-> <<>>]
  /\ complete = [d \in DirFds |-> NONE]
  /\ delivered = [f \in RegFds |-> 0]
  /\ last_read = [f \in RegFds |-> NONE]

Next ==
  \/ \E q \in Queries : OtherLookup(q)
  \/ \E d \in DirFds : OpenDir(d) \/ CloseDir(d) \/ DirRead(d)
  \/ \E f \in RegFds : OpenFile(f) \/ CloseFile(f) \/ (\E n \in NBytes : FileRead(f, n))

Spec == Init /\ [][Next]_vars

(***************************************************************************)
(* Properties                                                              *)
(***************************************************************************)

TypeOK ==
  /\ file_pos_keeper \in Idx
  /\ fs_dir_read_flag \in {0, 1}
  /\ dir_open \in [DirFds -> BOOLEAN]
  /\ file_pos \in [RegFds -> Int \cup {NONE}]
  /\ listing \in [DirFds -> Seq(Idx)]
  /\ complete \in [DirFds -> BOOLEAN \cup {NONE}]
  /\ delivered \in [RegFds -> Nat]
  /\ last_read \in [RegFds -> Int \cup {NONE}]

(* A regular file's cursor is the number of bytes its reads reported,    *)
(* never past the end of the file, and a read returns 0 only at the end *)
(* (filesys_read advancing file_pos by read_data's result; spec 6: read  *)
(* returns bytes read, 0 at EOF).                                        *)
FileCursorTracksData ==
  \A f \in RegFds :
    file_pos[f] # NONE =>
      LET len == Inodes[Dentry(read_dentry_by_name(RegName)).inode_index].length
      IN /\ file_pos[f] = delivered[f]
         /\ file_pos[f] <= len
         /\ last_read[f] = 0 => file_pos[f] = len

(* A directory read that returns 0 has returned, since the descriptor    *)
(* was opened or last returned 0, every entry exactly once and in order, *)
(* starting with "." (fs_dir_ls_read_helper's comments: the first call   *)
(* returns "."; 0 marks the end of the directory).                       *)
ListingComplete ==
  \A d \in DirFds :
    complete[d] # FALSE
====
