----------------------------- MODULE CommandLine -----------------------------
(***************************************************************************)
(* The path a command line takes through the kernel's fixed buffers.  The *)
(* keyboard interrupt edits keyboard_buffer (keyboard.c 78-123, lib.c     *)
(* reset and keyboard_buffer_reset) and, on Enter, hands the line to a    *)
(* waiting terminal_read through ter_read_buffer and the flags            *)
(* ter_read_indicator/cross_enter_flag; terminal_read (terminal.c         *)
(* 110-140) spins on the flag and copies the line into the caller's      *)
(* buffer.  The shell passes a line to execute, whose tokenizer          *)
(* (syscall.c 178-250) strcpy's it into arg_line[ARGMAXLEN] and splits it *)
(* into first_cmd[CMDLENGTH] and getargbuf[EXEBUFSIZE]; the new pcb's     *)
(* arg_buffer gets a copy (syscall.c 323-324) that getargs (syscall.c     *)
(* 630-641) returns.                                                      *)
(*                                                                         *)
(* Strings are sequences over small alphabets.  A copy is modelled by the *)
(* indexes it writes; overrun records every buffer some copy has written  *)
(* past its last element.  What such a write clobbers is undefined, so    *)
(* what a later strcpy reads out of an unterminated buffer is a choice.   *)
(* The keyboard interrupt may arrive between any two statements of        *)
(* terminal_read that run with interrupts enabled (the system-call gate   *)
(* is a trap gate, idt_init.c 37-42); the copy itself runs under cli.     *)
(***************************************************************************)
EXTENDS Naturals, Integers, Sequences, SequencesExt

CONSTANTS
  CMDLENGTH,    \* syscall.h CMDLENGTH (20): first_cmd
  EXEBUFSIZE,   \* syscall.h EXEBUFSIZE (30): getargbuf
  ARGMAXLEN,    \* syscall.h ARGMAXLEN (128): arg_line
  BUF_SIZE,     \* keyboard.h/terminal.h BUF_SIZE (128): the keyboard line
  Chars,        \* the alphabet of command lines, SP among them
  SP,           \* ' '
  Keys,         \* the printable keys typed at the keyboard
  NL,           \* '\n'
  NUL,          \* '\0'
  Programs,     \* names read_dentry_by_name finds as executables
  Commands,     \* command strings user programs pass to execute
  NBytes        \* nbytes / buffer sizes user programs pass

ASSUME /\ SP \in Chars
       /\ NBytes \subseteq Nat
       /\ {NL, NUL} \cap Keys = {}

VARIABLES
  keyboard_buffer,    \* keyboard_buffer[0..kb_buffer_position-1]
  enter_flag,         \* 0 normal mode, -1 text-editing mode (Ctrl+P)
  ter_read_buffer,    \* terminal.c ter_read_buffer[BUF_SIZE]
  ter_read_buf_size,
  ter_read_indicator, \* 1 while a terminal_read is in progress
  cross_enter_flag,   \* 1 when an Enter has handed over a line
  reader,             \* where terminal_read is: idle, spin, copy, done
  rd_nbytes,          \* its nbytes; -1 when idle
  arg_buffer,         \* pcb.arg_buffer of the task execute started last
  program,            \* the name of the executable execute loaded last
  overrun,            \* history: the buffers some copy has written past
  typed,              \* history: the line of the last Enter that handed one over
  fresh,              \* history: that line has not been returned by a read
  last_cmd            \* history: the command of the last execute that loaded

kbVars == <<keyboard_buffer, enter_flag>>
readVars == <<ter_read_buffer, ter_read_buf_size, ter_read_indicator,
              cross_enter_flag, reader, rd_nbytes, typed, fresh>>
execVars == <<arg_buffer, program, last_cmd>>
vars == <<kbVars, readVars, execVars, overrun>>

Buffers == {"arg_line", "first_cmd", "getargbuf", "getargs_buf",
            "read_buf", "ter_read_buffer"}

Idx == 0 .. BUF_SIZE - 1

(* execute's first loop (syscall.c 195-210): skip leading spaces, copy   *)
(* the first word into first_cmd; at the space after it write '\0' and   *)
(* break.  i is 1-based.  Result: the word, where the second loop starts *)
(* and whether the '\0' was written.                                     *)
RECURSIVE FirstCmdLoop(_, _, _, _)
FirstCmdLoop(cmd, i, space_indicator, first_cmd) ==
  IF i > Len(cmd)
  THEN [word |-> first_cmd, next |-> i, term |-> FALSE]
  ELSE IF cmd[i] = SP /\ space_indicator = 0
  THEN FirstCmdLoop(cmd, i + 1, 0, first_cmd)
  ELSE IF cmd[i] # SP
  THEN FirstCmdLoop(cmd, i + 1, 1, Append(first_cmd, cmd[i]))
  ELSE [word |-> first_cmd, next |-> i, term |-> TRUE]

(* The second loop without its space_indicator test: the spaces after    *)
(* the first word are copied into the arguments.                          *)
RECURSIVE ArgLoopNoSkip(_, _, _, _)
ArgLoopNoSkip(cmd, j, space_indicator, getargbuf) ==
  IF j > Len(cmd) THEN getargbuf
  ELSE ArgLoopNoSkip(cmd, j + 1, 1, Append(getargbuf, cmd[j]))

(* execute's second loop (syscall.c 211-224): from there skip spaces and *)
(* copy the rest, spaces included, into getargbuf; no '\0' is written.   *)
RECURSIVE ArgLoop(_, _, _, _)
ArgLoop(cmd, j, space_indicator, getargbuf) ==
  IF j > Len(cmd) THEN getargbuf
  ELSE IF cmd[j] = SP /\ space_indicator = 0
  THEN ArgLoop(cmd, j + 1, 0, getargbuf)
  ELSE ArgLoop(cmd, j + 1, 1, Append(getargbuf, cmd[j]))

(* The buffers execute's parse writes past: strcpy into arg_line writes  *)
(* Len + 1 bytes; first_cmd gets the word and maybe its '\0'; getargbuf  *)
(* gets the arguments.                                                   *)
ParseOverrun(cmd) ==
  LET f == FirstCmdLoop(cmd, 1, 0, <<>>)
      a == ArgLoop(cmd, f.next, 0, <<>>)
  IN    (IF Len(cmd) + 1 > ARGMAXLEN THEN {"arg_line"} ELSE {})
     \cup (IF Len(f.word) + (IF f.term THEN 1 ELSE 0) > CMDLENGTH
           THEN {"first_cmd"} ELSE {})
     \cup (IF Len(a) > EXEBUFSIZE THEN {"getargbuf"} ELSE {})

(* strcpy(arg_buffer, getargbuf) (syscall.c 323-324): getargbuf is        *)
(* terminated by its zero initialiser only when the arguments are shorter *)
(* than EXEBUFSIZE; otherwise the copy runs on into whatever the stack    *)
(* holds next, here at most one more byte before a zero.                  *)
ArgBufferOutcomes(args) ==
  IF Len(args) < EXEBUFSIZE THEN {args}
  ELSE {args} \cup {args \o <<c>> : c \in Chars \ {SP}}

(* The program and argument string execute can leave in the new task    *)
(* for cmd (syscall.c 227-250, 323-324); empty when the first word is not *)
(* an executable and execute returns -1 before the pcb is written.  A     *)
(* first_cmd without a '\0' in bounds is read on past its end, so its    *)
(* lookup may find any executable, or none.                              *)
LoadOutcomes(cmd) ==
  LET f == FirstCmdLoop(cmd, 1, 0, <<>>)
      a == ArgLoop(cmd, f.next, 0, <<>>)
      unterminated == Len(f.word) >= CMDLENGTH
      found == IF unterminated THEN Programs
               ELSE IF f.word \in Programs THEN {f.word} ELSE {}
  IN {[program |-> p, args |-> b] : p \in found, b \in ArgBufferOutcomes(a)}

(* execute(command) may also fail the lookup of an unterminated first_cmd *)
MayFail(cmd) ==
  LET f == FirstCmdLoop(cmd, 1, 0, <<>>)
  IN f.word \notin Programs \/ Len(f.word) >= CMDLENGTH

(* execute(command): parse, then load the program or return -1.          *)
Execute(cmd) ==
  /\ overrun' = overrun \cup ParseOverrun(cmd)
  /\ \/ \E o \in LoadOutcomes(cmd) :
          /\ program' = o.program
          /\ arg_buffer' = o.args
          /\ last_cmd' = cmd
     \/ /\ MayFail(cmd)
        /\ UNCHANGED execVars
  /\ UNCHANGED <<kbVars, readVars>>

(* getargs(buf, nbytes) (syscall.c 630-641): -1 for nbytes 0, an empty   *)
(* argument or strlen(arg_buffer) > nbytes; otherwise strcpy writes the  *)
(* argument and its '\0'.                                                *)
Getargs(nbytes) ==
  /\ nbytes # 0
  /\ Len(arg_buffer) # 0
  /\ Len(arg_buffer) <= nbytes
  /\ overrun' = overrun \cup (IF Len(arg_buffer) + 1 > nbytes THEN {"getargs_buf"} ELSE {})
  /\ UNCHANGED <<kbVars, readVars, execVars>>

(***************************************************************************)
(* The keyboard line (keyboard.c keyboard_buffer_edit, called from        *)
(* get_char).                                                             *)
(***************************************************************************)

(* A printable key with the line full: the missing check lets the line    *)
(* grow past BUF_SIZE.                                                    *)
KeyCharNoLimit(c) ==
  /\ keyboard_buffer' = Append(keyboard_buffer, c)
  /\ UNCHANGED <<enter_flag, readVars, execVars, overrun>>

(* Indicator 1 (keyboard.c 79-87): a key is stored at kb_buffer_position  *)
(* unless the line already holds BUF_SIZE characters.  Text-editing mode  *)
(* stores Enter this way too (keyboard.c 214-216).                        *)
KeyChar(c) ==
  /\ Len(keyboard_buffer) # BUF_SIZE
  /\ keyboard_buffer' = Append(keyboard_buffer, c)
  /\ UNCHANGED <<enter_flag, readVars, execVars, overrun>>

(* Indicator 0 (keyboard.c 89-97): Backspace drops the last character.   *)
KeyBackspace ==
  /\ Len(keyboard_buffer) # 0
  /\ keyboard_buffer' = Front(keyboard_buffer)
  /\ UNCHANGED <<enter_flag, readVars, execVars, overrun>>

(* Ctrl+L, indicator 2 (keyboard.c 98-100, 295-300): reset() clears the  *)
(* screen and the line.                                                   *)
KeyClear ==
  /\ keyboard_buffer' = <<>>
  /\ UNCHANGED <<enter_flag, readVars, execVars, overrun>>

(* Ctrl+P (keyboard.c 302-314): reset(), then toggle the mode.           *)
KeyToggleMode ==
  /\ keyboard_buffer' = <<>>
  /\ enter_flag' = IF enter_flag = 0 THEN -1 ELSE 0
  /\ UNCHANGED <<readVars, execVars, overrun>>

(* Enter in normal mode, indicator 3 (keyboard.c 102-123).  Only while   *)
(* ter_read_indicator is 1 is the line copied: all BUF_SIZE bytes of     *)
(* keyboard_buffer (zero past the line), then '\n' at kb_buffer_position *)
(* and '\0' one further, which is ter_read_buffer[BUF_SIZE] when the line *)
(* is BUF_SIZE - 1 long.  The line is cleared either way.                *)
KeyEnter ==
  LET pos == Len(keyboard_buffer)
  IN /\ enter_flag = 0
     /\ IF ter_read_indicator = 1
        THEN /\ ter_read_buffer' =
                  [k \in Idx |-> IF k < pos THEN keyboard_buffer[k + 1]
                                 ELSE IF k = pos THEN NL ELSE NUL]
             /\ ter_read_buf_size' = IF pos < BUF_SIZE THEN pos + 1 ELSE BUF_SIZE
             /\ cross_enter_flag' = 1
             /\ typed' = keyboard_buffer
             /\ fresh' = TRUE
             /\ overrun' = overrun \cup
                  (IF pos + 1 = BUF_SIZE THEN {"ter_read_buffer"} ELSE {})
        ELSE UNCHANGED <<ter_read_buffer, ter_read_buf_size, cross_enter_flag,
                         typed, fresh, overrun>>
     /\ keyboard_buffer' = <<>>
     /\ UNCHANGED <<enter_flag, ter_read_indicator, reader, rd_nbytes, execVars>>

(***************************************************************************)
(* terminal_read (terminal.c 110-140), one caller at a time.             *)
(***************************************************************************)

(* terminal.c 112-116: raise ter_read_indicator; in normal mode go on to *)
(* the spin, in text-editing mode return -1 with the indicator left up.  *)
ReadStart(nbytes) ==
  /\ reader = "idle"
  /\ ter_read_indicator' = 1
  /\ IF enter_flag = 0
     THEN reader' = "spin" /\ rd_nbytes' = nbytes
     ELSE UNCHANGED <<reader, rd_nbytes>>
  /\ UNCHANGED <<kbVars, ter_read_buffer, ter_read_buf_size, cross_enter_flag,
                 typed, fresh, execVars, overrun>>

(* terminal.c 117-119: the spin ends on cross_enter_flag and clears it;  *)
(* interrupts are still enabled until the cli on line 120.               *)
ReadWake ==
  /\ reader = "spin"
  /\ cross_enter_flag = 1
  /\ cross_enter_flag' = 0
  /\ reader' = "copy"
  /\ UNCHANGED <<kbVars, ter_read_buffer, ter_read_buf_size, ter_read_indicator,
                 rd_nbytes, typed, fresh, execVars, overrun>>

(* The copy loop with i <= nbytes in place of i < nbytes.                 *)
CopyLenInclusive(n) ==
  LET bound == Min({n + 1, BUF_SIZE})
      ends == {k \in 0 .. bound - 1 : ter_read_buffer[k] = NUL}
  IN IF ends = {} THEN bound ELSE Min(ends)

(* The copy loop (terminal.c 124-126) stops at nbytes, at BUF_SIZE or at *)
(* the first '\0' of ter_read_buffer: the i it ends with.                *)
CopyLen(n) ==
  LET bound == Min({n, BUF_SIZE})
      ends == {k \in 0 .. bound - 1 : ter_read_buffer[k] = NUL}
  IN IF ends = {} THEN bound ELSE Min(ends)

(* The bytes the caller's buffer receives, and the value returned        *)
(* (terminal.c 129-133).                                                  *)
ReadBytes(n) == [k \in 1 .. CopyLen(n) |-> ter_read_buffer[k - 1]]

ReadRet(n) == IF ter_read_buf_size > n THEN n ELSE CopyLen(n)

(* terminal.c 120-134 under cli: copy, then buffer[i+1] = '\0', which is *)
(* past a caller's buffer of nbytes when i + 1 >= nbytes.                 *)
ReadCopy ==
  /\ reader = "copy"
  /\ reader' = "done"
  /\ fresh' = FALSE
  /\ overrun' = overrun \cup
       (IF CopyLen(rd_nbytes) + 1 >= rd_nbytes THEN {"read_buf"} ELSE {})
  /\ UNCHANGED <<kbVars, ter_read_buffer, ter_read_buf_size, ter_read_indicator,
                 cross_enter_flag, rd_nbytes, typed, execVars>>

(* terminal.c 135-136, after sti: lower the indicator and return.        *)
ReadDone ==
  /\ reader = "done"
  /\ ter_read_indicator' = 0
  /\ reader' = "idle"
  /\ rd_nbytes' = -1
  /\ UNCHANGED <<kbVars, ter_read_buffer, ter_read_buf_size, cross_enter_flag,
                 typed, fresh, execVars, overrun>>

(***************************************************************************)
(* The reference of spec 4.4: the program is the first space-separated   *)
(* word, its argument the remainder with leading spaces trimmed.          *)
(***************************************************************************)
TrimLeading(s) ==
  LET k == SelectInSeq(s, LAMBDA ch : ch # SP)
  IN IF k = 0 THEN <<>> ELSE SubSeq(s, k, Len(s))

SpecName(cmd) ==
  LET t == TrimLeading(cmd)
      e == SelectInSeq(t, LAMBDA ch : ch = SP)
  IN IF e = 0 THEN t ELSE SubSeq(t, 1, e - 1)

SpecArgs(cmd) ==
  LET t == TrimLeading(cmd)
      e == SelectInSeq(t, LAMBDA ch : ch = SP)
  IN IF e = 0 THEN <<>> ELSE TrimLeading(SubSeq(t, e, Len(t)))

(* What a read of nbytes should hand over: the typed line and its '\n',  *)
(* as much as fits nbytes and the BUF_SIZE line.                          *)
SpecRead(line, n) ==
  LET full == IF Len(line) < BUF_SIZE THEN Append(line, NL) ELSE line
  IN SubSeq(full, 1, Min({n, Len(full)}))

Init ==
  /\ keyboard_buffer = <<>>
  /\ enter_flag = 0
  /\ ter_read_buffer = [k \in Idx |-> NUL]
  /\ ter_read_buf_size = 0
  /\ ter_read_indicator = 0
  /\ cross_enter_flag = 0
  /\ reader = "idle"
  /\ rd_nbytes = -1
  /\ arg_buffer = <<>>
  /\ program = <<>>
  /\ overrun = {}
  /\ typed = <<>>
  /\ fresh = FALSE
  /\ last_cmd = <<>>

Next ==
  \/ \E c \in Keys : KeyChar(c)
  \/ enter_flag = -1 /\ KeyChar(NL)
  \/ KeyBackspace
  \/ KeyClear
  \/ KeyToggleMode
  \/ KeyEnter
  \/ \E n \in NBytes : ReadStart(n)
  \/ ReadWake
  \/ ReadCopy
  \/ ReadDone
  \/ \E c \in Commands : Execute(c)
  \/ \E n \in NBytes : Getargs(n)

Spec == Init /\ [][Next]_vars

TypeOK ==
  /\ keyboard_buffer \in Seq(Keys \cup {NL})
  /\ Len(keyboard_buffer) <= BUF_SIZE
  /\ enter_flag \in {0, -1}
  /\ ter_read_buffer \in [Idx -> Keys \cup {NL, NUL}]
  /\ ter_read_buf_size \in 0 .. BUF_SIZE
  /\ ter_read_indicator \in {0, 1}
  /\ cross_enter_flag \in {0, 1}
  /\ reader \in {"idle", "spin", "copy", "done"}
  /\ rd_nbytes \in NBytes \cup {-1}
  /\ arg_buffer \in Seq(Chars)
  /\ overrun \subseteq Buffers

(* A read that wakes up and copies while no other line has been handed *)
(* over since its wake-up (cross_enter_flag is still 0) returns the line *)
(* of the Enter that woke it and its '\n', cut to nbytes and to         *)
(* BUF_SIZE, and reports how many bytes it copied: keyboard_buffer_edit's *)
(* hand-over (keyboard.c 102-123) and terminal_read's copy and return    *)
(* value (terminal.c 124-133) agree on the line, its terminator and its  *)
(* length, for empty, BUF_SIZE - 1 and full lines.  A line handed over   *)
(* between the wake-up (terminal.c 119) and the cli (120) replaces the   *)
(* one that woke the read; NoLineReadTwice is about that window.         *)
LineDelivered ==
  reader = "copy" /\ cross_enter_flag = 0 =>
    /\ ReadBytes(rd_nbytes) = SpecRead(typed, rd_nbytes)
    /\ ReadRet(rd_nbytes) = Len(SpecRead(typed, rd_nbytes))

(* Every line the keyboard hands over is returned by at most one read:    *)
(* terminal_read clears cross_enter_flag (terminal.c 119) before it masks *)
(* the keyboard interrupt (terminal.c 120), and an Enter between the two  *)
(* sets the flag again for a line this same read then returns.           *)
NoLineReadTwice == reader = "copy" => fresh

(* When the command of the last execute that loaded a program fits      *)
(* arg_line, its first word fits first_cmd with its '\0' and its         *)
(* arguments fit getargbuf with a '\0', the task runs the program spec   *)
(* 4.4 names with the spec's argument string: the two loops of syscall.c *)
(* 195-224 and the copy to arg_buffer implement the split.                *)
ArgsFollowSpec ==
  /\ Len(last_cmd) < ARGMAXLEN
  /\ Len(SpecName(last_cmd)) < CMDLENGTH
  /\ Len(SpecArgs(last_cmd)) < EXEBUFSIZE
  => /\ program = SpecName(last_cmd)
     /\ arg_buffer = SpecArgs(last_cmd)

(* No kernel copy writes past the end of its destination: arg_line,      *)
(* first_cmd and getargbuf in execute, the caller's buffer in getargs    *)
(* and terminal_read, ter_read_buffer on Enter (spec 4.4 step 1          *)
(* tokenizes into the argument string the child's getargs returns; a     *)
(* copy past a buffer corrupts the kernel stack or the user's memory     *)
(* instead).                                                              *)
WritesStayInBuffers == overrun = {}
====
