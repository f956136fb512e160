------------------------------- MODULE Kernel -------------------------------
(***************************************************************************)
(* The process and address-space core of student-distrib: the task slot   *)
(* store and the execute/halt state machine of syscall.c, the descriptor  *)
(* table operations open/close/read and vidmap, the three terminals of    *)
(* terminal.c (terminal_switch boots a shell by calling execute from      *)
(* inside the keyboard interrupt), the busy-waits of terminal_read and    *)
(* rtc_read, and the interrupts that end them (keyboard Enter in          *)
(* keyboard.c, the RTC tick in rtc.c).                                    *)
(*                                                                         *)
(* One CPU.  scheduling_handler (sche.c) returns at its first statement,  *)
(* so no timer switch happens: the only interleavings are interrupts      *)
(* arriving while the current context runs in user mode or spins in a     *)
(* blocking read.  Each syscall body runs with interrupts off (cli) and   *)
(* is one atomic step.  A failing syscall that changes nothing is a       *)
(* stuttering step and is not written as an action.                       *)
(*                                                                         *)
(* kstack[s] abstracts the kernel stack of slot s to the frames that are  *)
(* suspended on it: an execute waiting for its child's halt, a            *)
(* terminal_switch waiting for the shell it booted, or a busy-wait read.  *)
(* esp0 (tss.esp0) names the stack the running context uses.             *)
(***************************************************************************)
EXTENDS Naturals, Integers, Sequences, FiniteSets, SequencesExt, Bitwise

CONSTANTS
  MAXNUMTASK,    \* syscall.h MAXNUMTASK: task slots (6 in the build)
  MAXOPENFILE,   \* syscall.h MAXOPENFILE: descriptors per task (8)
  TERMINAL_NUM,  \* terminal.h TERMINAL_NUM: terminals (3)
  Files,         \* names read_dentry_by_name finds
  FileType,      \* dentry.file_type of each file: 0 rtc, 1 directory, 2 regular
  Executables,   \* files whose first 4 bytes are 0x7f 'E' 'L' 'F'
  BadImages,     \* executables whose full read_data stops at a bad block
  SHELL,         \* the file "shell"
  Statuses,      \* halt arguments (uint8_t) user programs pass
  FreqInputs,    \* frequencies user programs write to an rtc descriptor
  InitRegA,      \* RTC register A as the firmware leaves it
  NONE           \* NULL pointer / not-present entry

ASSUME /\ MAXNUMTASK \in Nat \ {0}
       /\ MAXOPENFILE \in Nat /\ MAXOPENFILE >= 3
       /\ TERMINAL_NUM \in Nat \ {0}
       /\ FileType \in [Files -> {0, 1, 2}]
       /\ BadImages \subseteq Executables /\ Executables \subseteq Files
       /\ SHELL \in Executables
       /\ Statuses \subseteq 0 .. 255
       /\ FreqInputs \subseteq Nat /\ InitRegA \subseteq 0 .. 255

Slots == 0 .. MAXNUMTASK - 1
Fds   == 0 .. MAXOPENFILE - 1
Terms == 0 .. TERMINAL_NUM - 1

(* Operation tables of syscall.c: stdin_op_table, stdout_op_table,        *)
(* rtc_fop_table, fs_dir_fop_table, file_fop_table.                        *)
FopTables == {"stdin", "stdout", "rtc", "dir", "file"}
FopOfType == [t \in {0, 1, 2} |-> CASE t = 0 -> "rtc"
                                    [] t = 1 -> "dir"
                                    [] t = 2 -> "file"]

(* Physical frame behind page_tab[0] (the vidmap page): the video memory  *)
(* or the backing buffer video_buf_addr[t] of terminal t.                 *)
VideoMem == -1

(* Frames suspended on a kernel stack. *)
ExecFrame       == [k |-> "exec", t |-> NONE]
BootFrame(t)    == [k |-> "boot", t |-> t]
TermReadFrame   == [k |-> "terminal_read", t |-> NONE]
RtcReadFrame    == [k |-> "rtc_read", t |-> NONE]
Frames == {ExecFrame, TermReadFrame, RtcReadFrame} \cup {BootFrame(t) : t \in Terms}

ClosedFd == [fop |-> NONE, flags |-> 0]

(* A pcb_t after memset(0): pcb_init and the end of halt. *)
ZeroPcb == [process_id |-> 0, parent_process_id |-> 0, parent_ctx |-> 0,
            running_state |-> 0, open_file_num |-> 0,
            file_array |-> [fd \in Fds |-> ClosedFd]]

VARIABLES
  task_bitmap,           \* syscall.c task_bitmap[MAXNUMTASK]
  runn_task_num,         \* syscall.c runn_task_num
  curr_task_pos,         \* syscall.c curr_task_pos: whose pcb syscalls use
  pcb,                   \* the pcb_t at 8MB - 8KB*(s+1) of each slot
  page_user,             \* page_dir[PAGEINDEX]: slot behind the 128MB window
  page_vid,              \* page_dir[VIDMAPNEW] + page_tab[0]: the 136MB window
  esp0,                  \* tss.esp0: the slot whose kernel stack is in use
  kstack,                \* frames suspended on each slot's kernel stack
  terminal_state,        \* terminal_array[t].terminal_state
  current_terminal_idx,  \* terminal.c current_terminal_idx
  ter_read_indicator,    \* terminal.c ter_read_indicator
  cross_enter_flag,      \* keyboard.c cross_enter_flag
  rtc_interrupt_occured, \* rtc.c rtc_interrupt_occured
  reg_a,                 \* RTC register A (index RTCREGA): divider and rate
  last_accepted,         \* history: the last frequency rtc_write accepted
  task_term,             \* history: terminal each running task was started on
  vid_callers,           \* history: running tasks that have called vidmap
  last_exit              \* history: status the last teardown halt delivered, and why

procVars == <<task_bitmap, runn_task_num, curr_task_pos, pcb, page_user, esp0,
              kstack, task_term, vid_callers>>
termVars == <<terminal_state, current_terminal_idx, page_vid>>
ioVars   == <<ter_read_indicator, cross_enter_flag, rtc_interrupt_occured, reg_a,
              last_accepted>>
vars     == <<procVars, termVars, ioVars, last_exit>>

Running == {s \in Slots : task_bitmap[s] = 1}

Booted == terminal_state[0] = 1

(* The running context is in user mode: nothing suspended on its stack. *)
InUserMode == Booted /\ kstack[esp0] = <<>>

(* Slot s has a frame of kind k on top of its kernel stack. *)
Top(s, k) == kstack[s] # <<>> /\ Last(kstack[s]).k = k

(***************************************************************************)
(* execute (syscall.c 178-389)                                             *)
(***************************************************************************)

(* The slot execute's bitmap loop settles on: the lowest free one.  When  *)
(* every bit is set but runn_task_num < MAXNUMTASK (only after a leaked   *)
(* slot) the loop falls through and curr_task_pos keeps its old value.    *)
FreeSlot ==
  IF \E i \in Slots : task_bitmap[i] = 0
  THEN CHOOSE i \in Slots : task_bitmap[i] = 0 /\ \A j \in 0 .. i - 1 : task_bitmap[j] = 1
  ELSE curr_task_pos

(* Mutant: the parent taken from the owner's own parent field. *)
NewPcbGrandparent(i, owner) ==
  [process_id        |-> i,
   parent_process_id |-> IF i = 0 /\ runn_task_num = 0 THEN -1
                         ELSE pcb[owner].parent_process_id,
   parent_ctx        |-> owner,
   running_state     |-> 1,
   open_file_num     |-> 2,
   file_array        |-> [fd \in Fds |->
                            CASE fd = 0 -> [fop |-> "stdin", flags |-> 1]
                              [] fd = 1 -> [fop |-> "stdout", flags |-> 1]
                              [] OTHER  -> ClosedFd]]

(* Steps 5-6: the new pcb.  The parent is read from the pcb at the base   *)
(* of the kernel stack execute runs on (parent_esp & PROCESSMASK), except *)
(* for the very first shell.  stdin and stdout occupy descriptors 0, 1.  *)
NewPcb(i, owner) ==
  [process_id        |-> i,
   parent_process_id |-> IF i = 0 /\ runn_task_num = 0 THEN -1
                         ELSE pcb[owner].process_id,
   parent_ctx        |-> owner,
   running_state     |-> 1,
   open_file_num     |-> 2,
   file_array        |-> [fd \in Fds |->
                            CASE fd = 0 -> [fop |-> "stdin", flags |-> 1]
                              [] fd = 1 -> [fop |-> "stdout", flags |-> 1]
                              [] OTHER  -> ClosedFd]]

(* Mutant: execute without its runn_task_num >= MAXNUMTASK check. *)
ExecuteLoadedNoCapacity(cmd, frame, term) ==
  LET i     == FreeSlot
      owner == esp0
  IN /\ cmd \in Executables \ BadImages
     /\ task_bitmap' = [task_bitmap EXCEPT ![i] = 1]
     /\ curr_task_pos' = i
     /\ page_user' = i
     /\ pcb' = [pcb EXCEPT ![i] = NewPcb(i, owner)]
     /\ esp0' = i
     /\ runn_task_num' = runn_task_num + 1
     /\ kstack' = IF i = 0 /\ runn_task_num = 0 THEN kstack
                  ELSE [kstack EXCEPT ![owner] = Append(@, frame)]
     /\ task_term' = [task_term EXCEPT ![i] = term]
     /\ vid_callers' = vid_callers \ {i}

(* execute of an executable that loads: allocate, map, build the pcb,    *)
(* set tss.esp0 and iret.  The caller's context stays suspended on its    *)
(* kernel stack as frame until the child halts; a parentless first shell  *)
(* is never returned to.                                                  *)
ExecuteLoaded(cmd, frame, term) ==
  LET i     == FreeSlot
      owner == esp0
  IN /\ runn_task_num < MAXNUMTASK
     /\ cmd \in Executables \ BadImages
     /\ task_bitmap' = [task_bitmap EXCEPT ![i] = 1]
     /\ curr_task_pos' = i
     /\ page_user' = i
     /\ pcb' = [pcb EXCEPT ![i] = NewPcb(i, owner)]
     /\ esp0' = i
     /\ runn_task_num' = runn_task_num + 1
     /\ kstack' = IF i = 0 /\ runn_task_num = 0 THEN kstack
                  ELSE [kstack EXCEPT ![owner] = Append(@, frame)]
     /\ task_term' = [task_term EXCEPT ![i] = term]
     /\ vid_callers' = vid_callers \ {i}

(* execute whose read_data of the whole image fails (retval != size):    *)
(* the bitmap bit, curr_task_pos and the page directory were already     *)
(* changed, and execute returns -1 to the caller without undoing them.   *)
ExecuteLoadFails(cmd) ==
  LET i == FreeSlot
  IN /\ runn_task_num < MAXNUMTASK
     /\ cmd \in BadImages
     /\ task_bitmap' = [task_bitmap EXCEPT ![i] = 1]
     /\ curr_task_pos' = i
     /\ page_user' = i
     /\ UNCHANGED <<runn_task_num, pcb, esp0, kstack, task_term, vid_callers>>

(* The execute syscall of the running user program. *)
Execute(cmd) ==
  /\ InUserMode
  /\ \/ ExecuteLoaded(cmd, ExecFrame, task_term[curr_task_pos])
     \/ ExecuteLoadFails(cmd)
  /\ UNCHANGED <<termVars, ioVars, last_exit>>

(***************************************************************************)
(* halt (syscall.c 397-496) and the exception handlers (idt_init.c 80-189) *)
(***************************************************************************)

(* halt's first test: such a task is restarted as a shell in place, which *)
(* changes none of the modelled state.                                   *)
IsRootHalt ==
  \/ curr_task_pos = 0
  \/ runn_task_num = 1
  \/ pcb[curr_task_pos].parent_process_id = -1
  \/ pcb[curr_task_pos].process_id = 0

(* halt's 8-bit status as execute returns it: 255 becomes 256. *)
ExpandStatus(status) ==
  LET s == status % 256 IN IF s = 255 THEN 256 ELSE s

(* Mutants of the teardown: runn_task_num not decremented; the user      *)
(* window left mapped to the halting task's slot.                         *)
HaltTeardownNoDecrement(status, cause) ==
  LET c   == curr_task_pos
      p   == pcb[c].parent_process_id
      ctx == pcb[c].parent_ctx
      fr  == Last(kstack[ctx])
  IN /\ ~IsRootHalt
     /\ kstack[ctx] # <<>>
     /\ task_bitmap' = [task_bitmap EXCEPT ![c] = 0]
     /\ curr_task_pos' = p
     /\ runn_task_num' = runn_task_num
     /\ page_user' = p
     /\ esp0' = p
     /\ pcb' = [pcb EXCEPT ![c] = ZeroPcb]
     /\ kstack' = [kstack EXCEPT ![ctx] = Front(@)]
     /\ task_term' = [task_term EXCEPT ![c] = NONE]
     /\ vid_callers' = vid_callers \ {c}
     /\ current_terminal_idx' = IF fr.k = "boot" THEN fr.t ELSE current_terminal_idx
     /\ last_exit' = [val |-> ExpandStatus(status), cause |-> cause]
     /\ UNCHANGED <<terminal_state, page_vid, ioVars>>

HaltTeardownKeepsWindow(status, cause) ==
  LET c   == curr_task_pos
      p   == pcb[c].parent_process_id
      ctx == pcb[c].parent_ctx
      fr  == Last(kstack[ctx])
  IN /\ ~IsRootHalt
     /\ kstack[ctx] # <<>>
     /\ task_bitmap' = [task_bitmap EXCEPT ![c] = 0]
     /\ curr_task_pos' = p
     /\ runn_task_num' = runn_task_num - 1
     /\ page_user' = c
     /\ esp0' = p
     /\ pcb' = [pcb EXCEPT ![c] = ZeroPcb]
     /\ kstack' = [kstack EXCEPT ![ctx] = Front(@)]
     /\ task_term' = [task_term EXCEPT ![c] = NONE]
     /\ vid_callers' = vid_callers \ {c}
     /\ current_terminal_idx' = IF fr.k = "boot" THEN fr.t ELSE current_terminal_idx
     /\ last_exit' = [val |-> ExpandStatus(status), cause |-> cause]
     /\ UNCHANGED <<terminal_state, page_vid, ioVars>>

(* Mutant: halt returns to the parent's parent. *)
HaltTargetGrandparent(c) ==
  LET p == pcb[c].parent_process_id
  IN IF pcb[p].parent_process_id = -1 THEN p ELSE pcb[p].parent_process_id

(* The task halt makes current: curr_pcb->parent_process_id. *)
HaltTarget(c) == pcb[c].parent_process_id

(* Teardown of a task with a parent: free the slot, map the parent's     *)
(* window, reset tss.esp0, zero the pcb, and jump to the saved            *)
(* parent_esp/parent_ebp, which resumes the frame suspended there.  A    *)
(* resumed terminal_switch finishes by setting current_terminal_idx.     *)
HaltTeardown(status, cause) ==
  LET c   == curr_task_pos
      p   == HaltTarget(c)
      ctx == pcb[c].parent_ctx
      fr  == Last(kstack[ctx])
  IN /\ ~IsRootHalt
     /\ kstack[ctx] # <<>>
     /\ task_bitmap' = [task_bitmap EXCEPT ![c] = 0]
     /\ curr_task_pos' = p
     /\ runn_task_num' = runn_task_num - 1
     /\ page_user' = p
     /\ esp0' = p
     /\ pcb' = [pcb EXCEPT ![c] = ZeroPcb]
     /\ kstack' = [kstack EXCEPT ![ctx] = Front(@)]
     /\ task_term' = [task_term EXCEPT ![c] = NONE]
     /\ vid_callers' = vid_callers \ {c}
     /\ current_terminal_idx' = IF fr.k = "boot" THEN fr.t ELSE current_terminal_idx
     /\ last_exit' = [val |-> ExpandStatus(status), cause |-> cause]
     /\ UNCHANGED <<terminal_state, page_vid, ioVars>>

(* The halt syscall. *)
Halt(status) == InUserMode /\ HaltTeardown(status, "halt")

(* A CPU exception in user mode: the handler calls halt(255). *)
Exception == InUserMode /\ HaltTeardown(255, "exception")

(***************************************************************************)
(* Descriptor syscalls (syscall.c 503-673)                                 *)
(***************************************************************************)

(* open's free-descriptor loop (syscall.c 561-569): the first i >= 2 with *)
(* flags 0, but every iteration that meets a used slot first returns -1  *)
(* if the LAST slot is in use.                                           *)
RECURSIVE OpenScan(_, _)
OpenScan(fa, i) ==
  IF i > MAXOPENFILE - 1 THEN NONE
  ELSE IF fa[i].flags = 0 THEN i
  ELSE IF fa[MAXOPENFILE - 1].flags = 1 THEN NONE
  ELSE OpenScan(fa, i + 1)

(* open of a file the directory has (not "stdin"/"stdout", which return  *)
(* 0 at once).  The kind's own open operation is not called.            *)
Open(name) ==
  LET c  == curr_task_pos
      fd == OpenScan(pcb[c].file_array, 2)
  IN /\ InUserMode
     /\ name \in Files
     /\ pcb[c].open_file_num # MAXOPENFILE
     /\ fd # NONE
     /\ pcb' = [pcb EXCEPT
                  ![c].file_array[fd] = [fop |-> FopOfType[FileType[name]], flags |-> 1],
                  ![c].open_file_num  = @ + 1]
     /\ UNCHANGED <<task_bitmap, runn_task_num, curr_task_pos, page_user, esp0,
                    kstack, task_term, vid_callers, termVars, ioVars, last_exit>>

(* Mutant: the lower bound of close's check off by one (closes stdout). *)
CloseAllowedStdout(fd) ==
  fd >= 1 /\ fd <= MAXOPENFILE - 1 /\ pcb[curr_task_pos].open_file_num > 2

(* close's only validation (syscall.c 612). *)
CloseAllowed(fd) ==
  fd >= 2 /\ fd <= MAXOPENFILE - 1 /\ pcb[curr_task_pos].open_file_num > 2

(* close of an open descriptor: its close operation (no state) and the   *)
(* entry is cleared. *)
Close(fd) ==
  LET c == curr_task_pos
  IN /\ InUserMode
     /\ CloseAllowed(fd)
     /\ pcb[c].file_array[fd].fop # NONE
     /\ pcb' = [pcb EXCEPT ![c].file_array[fd] = ClosedFd,
                           ![c].open_file_num  = @ - 1]
     /\ UNCHANGED <<task_bitmap, runn_task_num, curr_task_pos, page_user, esp0,
                    kstack, task_term, vid_callers, termVars, ioVars, last_exit>>

(* close of a descriptor that passes the check but is not open: the call *)
(* through fop_table[3] reads address 12, the kernel page-faults and the  *)
(* handler calls halt(255) on the caller.                                 *)
CloseUnopened(fd) ==
  /\ InUserMode
  /\ CloseAllowed(fd)
  /\ pcb[curr_task_pos].file_array[fd].fop = NONE
  /\ HaltTeardown(255, "kernel_fault")

(* read's validation (syscall.c 506-511) for a table of the given kind. *)
Readable(fd, kind) ==
  /\ pcb[curr_task_pos].file_array[fd].flags = 1
  /\ pcb[curr_task_pos].file_array[fd].fop = kind

(* read on stdin: terminal_read (terminal.c 110-140) raises              *)
(* ter_read_indicator and spins until Enter sets cross_enter_flag.       *)
ReadTerminal(fd) ==
  /\ InUserMode
  /\ Readable(fd, "stdin")
  /\ ter_read_indicator' = 1
  /\ kstack' = [kstack EXCEPT ![esp0] = Append(@, TermReadFrame)]
  /\ UNCHANGED <<task_bitmap, runn_task_num, curr_task_pos, pcb, page_user, esp0,
                 task_term, vid_callers, termVars, cross_enter_flag, rtc_interrupt_occured, reg_a,
                 last_accepted, last_exit>>

(* The spin sees cross_enter_flag: clear it and the indicator, return. *)
TerminalReadReturn ==
  /\ Booted
  /\ Top(esp0, "terminal_read")
  /\ cross_enter_flag = 1
  /\ cross_enter_flag' = 0
  /\ ter_read_indicator' = 0
  /\ kstack' = [kstack EXCEPT ![esp0] = Front(@)]
  /\ UNCHANGED <<task_bitmap, runn_task_num, curr_task_pos, pcb, page_user, esp0,
                 task_term, vid_callers, termVars, rtc_interrupt_occured, reg_a, last_accepted,
                 last_exit>>

(* read on an RTC descriptor: rtc_read (rtc.c 103-113) clears the flag   *)
(* and spins until the next RTC interrupt. *)
ReadRtc(fd) ==
  /\ InUserMode
  /\ Readable(fd, "rtc")
  /\ rtc_interrupt_occured' = 0
  /\ kstack' = [kstack EXCEPT ![esp0] = Append(@, RtcReadFrame)]
  /\ UNCHANGED <<task_bitmap, runn_task_num, curr_task_pos, pcb, page_user, esp0,
                 task_term, vid_callers, termVars, ter_read_indicator, cross_enter_flag, reg_a,
                 last_accepted, last_exit>>

RtcReadReturn ==
  /\ Booted
  /\ Top(esp0, "rtc_read")
  /\ rtc_interrupt_occured = 1
  /\ kstack' = [kstack EXCEPT ![esp0] = Front(@)]
  /\ UNCHANGED <<task_bitmap, runn_task_num, curr_task_pos, pcb, page_user, esp0,
                 task_term, vid_callers, termVars, ioVars, last_exit>>

ERRORMAG == 20270   \* rtc.h ERRORMAG 0x4F2E
RTCUNUN  == 240     \* rtc.h RTCUNUN 0xF0

(* Mutant: 512 Hz and 1024 Hz swapped in the table. *)
RateOfSwapped(freq) ==
  CASE freq = 2 -> 15 [] freq = 4 -> 14 [] freq = 8 -> 13 [] freq = 16 -> 12
    [] freq = 32 -> 11 [] freq = 64 -> 10 [] freq = 128 -> 9 [] freq = 256 -> 8
    [] freq = 512 -> 6 [] freq = 1024 -> 7 [] OTHER -> ERRORMAG

(* rtc_write's switch (rtc.c 126-159): the rate bits for each accepted   *)
(* frequency, ERRORMAG for any other value. *)
RateOf(freq) ==
  CASE freq = 2 -> 15 [] freq = 4 -> 14 [] freq = 8 -> 13 [] freq = 16 -> 12
    [] freq = 32 -> 11 [] freq = 64 -> 10 [] freq = 128 -> 9 [] freq = 256 -> 8
    [] freq = 512 -> 7 [] freq = 1024 -> 6 [] OTHER -> ERRORMAG

(* write's validation (syscall.c 521-535): an open entry whose table has *)
(* a write entry; stdin_op_table's is NULL.                              *)
Writable(fd) ==
  /\ pcb[curr_task_pos].file_array[fd].flags = 1
  /\ pcb[curr_task_pos].file_array[fd].fop \notin {NONE, "stdin"}

(* write on an RTC descriptor: write's validation, then rtc_write (rtc.c 120-175): a rejected value returns -1 and       *)
(* leaves register A alone; an accepted one keeps its high nibble and    *)
(* replaces the rate bits.                                               *)
WriteRtc(fd, freq) ==
  /\ InUserMode
  /\ Writable(fd)
  /\ pcb[curr_task_pos].file_array[fd].fop = "rtc"
  /\ RateOf(freq) # ERRORMAG
  /\ reg_a' = (reg_a & RTCUNUN) | RateOf(freq)
  /\ last_accepted' = freq
  /\ UNCHANGED <<procVars, termVars, ter_read_indicator, cross_enter_flag,
                 rtc_interrupt_occured, last_exit>>

(* vidmap with an output pointer inside the 128MB page: map page_tab[0]  *)
(* to video memory behind page_dir[VIDMAPNEW]. *)
Vidmap ==
  /\ InUserMode
  /\ page_vid' = VideoMem
  /\ vid_callers' = vid_callers \cup {esp0}
  /\ UNCHANGED <<task_bitmap, runn_task_num, curr_task_pos, pcb, page_user, esp0,
                 kstack, task_term, terminal_state, current_terminal_idx, ioVars, last_exit>>

(***************************************************************************)
(* Interrupts                                                              *)
(***************************************************************************)

(* Enter in normal mode (keyboard_buffer_edit indicator 3): only while a *)
(* terminal_read has raised ter_read_indicator is the line handed over.  *)
KeyEnter ==
  /\ Booted
  /\ ter_read_indicator = 1
  /\ cross_enter_flag = 0
  /\ cross_enter_flag' = 1
  /\ UNCHANGED <<procVars, termVars, ter_read_indicator, rtc_interrupt_occured, reg_a,
                 last_accepted, last_exit>>

(* Mutant: the RTC handler acknowledges the interrupt without setting   *)
(* the flag. *)
RtcTickNoFlag ==
  /\ Booted
  /\ rtc_interrupt_occured = 0
  /\ UNCHANGED vars

(* _idt_rtc_irq_handler sets rtc_interrupt_occured. *)
RtcTick ==
  /\ Booted
  /\ rtc_interrupt_occured = 0
  /\ rtc_interrupt_occured' = 1
  /\ UNCHANGED <<procVars, termVars, ter_read_indicator, cross_enter_flag, reg_a,
                 last_accepted, last_exit>>

(* Alt+F(t+1) on an active terminal t: terminal_switch (terminal.c       *)
(* 173-238) points the vidmap page at the old terminal's backing buffer   *)
(* and changes the displayed terminal.  The running task is unchanged.   *)
TerminalSwitch(t) ==
  /\ Booted
  /\ t # current_terminal_idx
  /\ terminal_state[t] = 1
  /\ page_vid' = current_terminal_idx
  /\ current_terminal_idx' = t
  /\ UNCHANGED <<procVars, terminal_state, ioVars, last_exit>>

(* Alt+F(t+1) on an inactive terminal: terminal_switch calls              *)
(* terminal_boot(t), which marks it active and calls execute("shell") on  *)
(* the interrupted context's kernel stack.  If execute fails at its first *)
(* check the terminal stays active with no shell.                        *)
TerminalBoot(t) ==
  /\ Booted
  /\ terminal_state[t] = 0
  /\ terminal_state' = [terminal_state EXCEPT ![t] = 1]
  /\ current_terminal_idx' = t
  /\ page_vid' = current_terminal_idx
  /\ \/ ExecuteLoaded(SHELL, BootFrame(t), t)
     \/ ExecuteLoadFails(SHELL)
     \/ /\ runn_task_num >= MAXNUMTASK
        /\ UNCHANGED procVars
  /\ UNCHANGED <<ioVars, last_exit>>

(* terminal_init (terminal.c 39-65): terminal_boot(0) runs the first     *)
(* shell, parentless, in slot 0. *)
TerminalInit ==
  /\ ~Booted
  /\ terminal_state' = [terminal_state EXCEPT ![0] = 1]
  /\ current_terminal_idx' = 0
  /\ ExecuteLoaded(SHELL, ExecFrame, 0)
  /\ UNCHANGED <<page_vid, ioVars, last_exit>>

(***************************************************************************)
(* Specification                                                           *)
(***************************************************************************)

(* keyboard_init (keyboard.c 46-70) clears cross_enter_flag; the flags of *)
(* terminal.c and rtc.c are zero-initialised globals; rtc_init leaves     *)
(* register A as the firmware set it.                                     *)
DeviceInit ==
  /\ ter_read_indicator = 0
  /\ cross_enter_flag = 0
  /\ rtc_interrupt_occured = 0
  /\ reg_a \in InitRegA
  /\ last_accepted = NONE

(* After pcb_init and the zero-initialised globals, before terminal_init. *)
Init ==
  /\ task_bitmap = [s \in Slots |-> 0]
  /\ runn_task_num = 0
  /\ curr_task_pos = 0
  /\ pcb = [s \in Slots |-> ZeroPcb]
  /\ page_user = NONE
  /\ page_vid = NONE
  /\ esp0 = NONE
  /\ kstack = [s \in Slots \cup {NONE} |-> <<>>]
  /\ terminal_state = [t \in Terms |-> 0]
  /\ current_terminal_idx = 0
  /\ DeviceInit
  /\ task_term = [s \in Slots |-> NONE]
  /\ vid_callers = {}
  /\ last_exit = NONE

Next ==
  \/ TerminalInit
  \/ \E cmd \in Executables : Execute(cmd)
  \/ \E st \in Statuses : Halt(st)
  \/ Exception
  \/ \E name \in Files : Open(name)
  \/ \E fd \in Fds : Close(fd) \/ CloseUnopened(fd)
  \/ \E fd \in Fds : ReadTerminal(fd) \/ ReadRtc(fd)
  \/ \E fd \in Fds, f \in FreqInputs : WriteRtc(fd, f)
  \/ TerminalReadReturn
  \/ RtcReadReturn
  \/ Vidmap
  \/ KeyEnter
  \/ RtcTick
  \/ \E t \in Terms : TerminalSwitch(t) \/ TerminalBoot(t)

(* The hardware keeps raising RTC interrupts, a spinning loop keeps       *)
(* testing its flag, and (an assumption about the user) Enter is pressed  *)
(* whenever a line is awaited.  User programs owe nothing.               *)
Fairness ==
  /\ WF_vars(RtcTick)
  /\ WF_vars(RtcReadReturn)
  /\ WF_vars(KeyEnter)
  /\ WF_vars(TerminalReadReturn)

Spec == Init /\ [][Next]_vars /\ Fairness

(***************************************************************************)
(* Properties                                                              *)
(***************************************************************************)

TypeOK ==
  /\ task_bitmap \in [Slots -> {0, 1}]
  /\ runn_task_num \in 0 .. MAXNUMTASK
  /\ curr_task_pos \in Slots
  /\ pcb \in [Slots -> [process_id : Slots, parent_process_id : Slots \cup {-1},
                        parent_ctx : Slots \cup {NONE}, running_state : {0, 1},
                        open_file_num : 0 .. MAXOPENFILE,
                        file_array : [Fds -> [fop : FopTables \cup {NONE}, flags : {0, 1}]]]]
  /\ page_user \in Slots \cup {NONE}
  /\ page_vid \in Terms \cup {VideoMem, NONE}
  /\ esp0 \in Slots \cup {NONE}
  /\ kstack \in [Slots \cup {NONE} -> Seq(Frames)]
  /\ terminal_state \in [Terms -> {0, 1}]
  /\ current_terminal_idx \in Terms
  /\ {ter_read_indicator, cross_enter_flag, rtc_interrupt_occured} \subseteq {0, 1}
  /\ reg_a \in 0 .. 255
  /\ last_accepted \in FreqInputs \cup {NONE}
  /\ task_term \in [Slots -> Terms \cup {NONE}]
  /\ vid_callers \subseteq Running
  /\ last_exit \in {NONE} \cup [val : 0 .. 256, cause : {"halt", "exception", "kernel_fault"}]

(* Slot accounting (spec 3: a slot's running flag is 1 iff its bitmap    *)
(* bit is 1) across execute, halt and the boot of terminals:             *)
(* runn_task_num, which execute's capacity check reads, counts exactly   *)
(* the slots the bitmap holds, and each held slot has a live pcb.        *)
SlotAccounting ==
  /\ runn_task_num = Cardinality(Running)
  /\ \A s \in Slots : task_bitmap[s] = pcb[s].running_state

(* Address-space isolation: after every execute, halt and interrupt, the *)
(* 128MB user window and tss.esp0 both belong to the task whose pcb the   *)
(* syscalls use.                                                         *)
ActiveWindow ==
  Booted => page_user = curr_task_pos /\ esp0 = curr_task_pos

(* The live tasks form one chain from the first shell to the current     *)
(* task: every live task but the current one is suspended (in execute or  *)
(* in a terminal boot) under exactly the live child whose halt will      *)
(* resume it, every live task's parent is live, and a free slot has      *)
(* nothing suspended on its stack.                                       *)
TaskChain ==
  Booted =>
    /\ curr_task_pos \in Running
    /\ \A s \in Running :
         /\ pcb[s].parent_process_id # -1 => pcb[s].parent_process_id \in Running
         /\ (s # curr_task_pos) <=> (Top(s, "exec") \/ Top(s, "boot"))
         /\ s # curr_task_pos =>
              \E c \in Running : pcb[c].parent_process_id = s /\ pcb[c].parent_ctx = s
    /\ \A s \in Slots \ Running : kstack[s] = <<>>

(* Descriptor table of every live task (spec 3): 0 and 1 stay stdin and *)
(* stdout, and open_file_num, which open and close test, counts exactly   *)
(* the entries in use.                                                   *)
FdTableConsistent ==
  \A s \in Running :
    /\ pcb[s].file_array[0] = [fop |-> "stdin", flags |-> 1]
    /\ pcb[s].file_array[1] = [fop |-> "stdout", flags |-> 1]
    /\ pcb[s].open_file_num = Cardinality({fd \in Fds : pcb[s].file_array[fd].flags = 1})
    /\ \A fd \in Fds : (pcb[s].file_array[fd].flags = 1) <=> (pcb[s].file_array[fd].fop # NONE)

(* Reference: the periodic-interrupt frequency an MC146818 produces for *)
(* rate bits r in 3..15 is 32768 >> (r - 1) Hz; 0 turns it off, and 1, 2 *)
(* give 256 and 128 Hz.                                                    *)
Frequency(rate) ==
  CASE rate = 0 -> 0 [] rate = 1 -> 256 [] rate = 2 -> 128
    [] OTHER -> 32768 \div 2^(rate - 1)

(* Once rtc_write has accepted a frequency the device interrupts at     *)
(* exactly that frequency, whatever rejected writes, descriptor closes, *)
(* halts and terminal boots came after, and no write ever changes the   *)
(* divider bits the firmware set (spec 8: an RTC write accepts only     *)
(* 2..1024; any other value fails and leaves the rate unchanged).       *)
RateFollowsAcceptedWrites ==
  /\ last_accepted # NONE => Frequency(reg_a & 15) = last_accepted
  /\ \E r0 \in InitRegA : reg_a \div 16 = r0 \div 16

(* An rtc_read eventually returns or is suspended under a shell booted on *)
(* its stack: the RTC interrupt sets the flag the spin waits for.        *)
RtcReadReturns ==
  \A s \in Slots : Top(s, "rtc_read") ~> ~Top(s, "rtc_read")

(* A terminal_read eventually returns or is suspended under a shell      *)
(* booted on its stack, when Enter is pressed whenever a line is awaited *)
(* (spec 6: the read blocks until a line terminator is produced).        *)
TerminalReadReturns ==
  \A s \in Slots : Top(s, "terminal_read") ~> ~Top(s, "terminal_read")

(* The error classes of spec 7 as open, close and halt meet them.  open  *)
(* fails for want of a descriptor only when none of 2 .. MAXOPENFILE-1   *)
(* is free (ResourceExhausted, spec 4.3), whatever opens and closes came *)
(* before; a close of a descriptor that is not in use is a               *)
(* ValidationError, which fails without killing the caller; and a parent *)
(* gets the sentinel 256 from its child's halt exactly when the child    *)
(* died of an exception (spec 4.4), never for an exit status 0..255.     *)
ErrorsFollowTaxonomy ==
  /\ \A s \in Running :
       (\E fd \in 2 .. MAXOPENFILE - 1 : pcb[s].file_array[fd].flags = 0)
         => OpenScan(pcb[s].file_array, 2) # NONE
  /\ last_exit # NONE =>
       /\ last_exit.cause # "kernel_fault"
       /\ (last_exit.val = 256) = (last_exit.cause = "exception")

(* A task that called vidmap writes, through the 136MB page, to its own  *)
(* terminal: video memory while that terminal is displayed, its backing  *)
(* buffer otherwise (the intent terminal_switch's comment states for its *)
(* remap of page_tab[0]).  The page is one global entry that vidmap,     *)
(* terminal_switch and terminal_boot rewrite and halt never restores.    *)
VidmapShowsOwnTerminal ==
  esp0 \in vid_callers =>
    page_vid = IF task_term[esp0] = current_terminal_idx THEN VideoMem
               ELSE task_term[esp0]

(* Every active terminal keeps a shell (spec 4.4: exactly one root shell *)
(* alive per execution context).                                         *)
TerminalsKeepShell ==
  \A t \in Terms : terminal_state[t] = 1 => \E s \in Running : task_term[s] = t

(***************************************************************************)
(* Refinement of ProcessStack                                              *)
(***************************************************************************)

(* The live tasks as a stack: from curr_task_pos down the                 *)
(* parent_process_id links to the first shell (parent -1).  n bounds the *)
(* walk by the number of slots.                                           *)
RECURSIVE Chain(_, _)
Chain(s, n) ==
  IF n = 0 THEN <<>>
  ELSE IF pcb[s].parent_process_id = -1 THEN <<s>>
  ELSE Chain(pcb[s].parent_process_id, n - 1) \o <<s>>

TaskStack == IF Booted THEN Chain(curr_task_pos, MAXNUMTASK) ELSE <<>>

PS == INSTANCE ProcessStack
        WITH stack <- TaskStack, running <- esp0,
             Tasks <- Slots, Capacity <- MAXNUMTASK

(* execute, halt, faults and the terminal boots from the keyboard        *)
(* interrupt together implement a stack of tasks: every step starts the  *)
(* first shell, pushes one task that was not live and runs it, pops the  *)
(* running task and resumes the one below, or leaves the stack and the    *)
(* running task alone (spec 4.4: halt returns to the parent that          *)
(* executed the task).                                                   *)
ProcessStackRefined == PS!Spec
=============================================================================
