# TLA+ models of student-distrib

TLA+ models of the teaching kernel in `src/student-distrib`, and the TLC runs
that check them. `PROJECT.json` lists the components, the runs, the mutants,
the source lines behind every definition (`map`), the findings and the hazards.

## 1. The system

student-distrib is a single-CPU x86 kernel. It has these parts:

| Part | Source | State | Operations |
|---|---|---|---|
| Process table / execution engine | `syscall.c`, `syscall.h` | `task_bitmap[6]`, `runn_task_num`, `curr_task_pos`, one `pcb_t` per slot at 8MB-8KB(s+1), `page_dir[32]` (128MB user window), `tss.esp0` | `execute`, `halt`, `pcb_init` |
| Descriptor layer | `syscall.c` | `pcb.file_array[8]`, `open_file_num`, five fixed operation tables | `open`, `close`, `read`, `write`, `getargs`, `vidmap` |
| Exceptions | `idt_init.c` | none | every handler prints and calls `halt(255)` |
| Terminals | `terminal.c` | `terminal_array[3]` (active flag, saved buffers), `current_terminal_idx`, `ter_read_indicator`, `ter_read_buffer` | `terminal_init`, `terminal_boot`, `terminal_switch`, `terminal_read`, `terminal_write` |
| Keyboard | `keyboard.c` | `keyboard_buffer`, `kb_buffer_position`, `enter_flag` (normal or text-editing mode), `cross_enter_flag`, modifier flags | IRQ1 handler: printable keys, Backspace, Ctrl+L and Ctrl+P edit the line; Enter hands it to `terminal_read`; Alt+F1..F3 call `terminal_switch` |
| RTC | `rtc.c` | `rtc_interrupt_occured`, register A (divider and rate) | IRQ8 handler sets the flag; `rtc_read` clears it and spins; `rtc_write` validates a frequency and sets the rate bits |
| File system | `filesys.c` | read-only image; globals `file_pos_keeper`, `fs_dir_read_flag` | `read_dentry_by_name/index`, `read_data`, file and directory reads |
| Scheduler, PIT | `sche.c`, `pit.c` | `pcb.esp/ebp` (never read in the build) | the PIT handler calls `scheduling_handler`, which returns at its first statement (`sche.c:44`); its switch body is dead |
| Paging, PIC, console | `paging.c`, `i8259.c`, `lib.c` | page tables, PIC masks, screen | boot-time setup, port I/O, output |

How they interact. Nothing preempts a task: the PIT handler calls a
scheduler that returns at once. Concurrency comes only from interrupts. A
keyboard or RTC interrupt can arrive while the current task runs in user
mode, or while it spins in `terminal_read` or `rtc_read`: the system-call
gate is a trap gate (`idt_init.c:37-42`), so syscalls run with interrupts on.
`execute` starts with `cli`. `terminal_read` masks interrupts only around
its copy, after it has cleared `cross_enter_flag`. The keyboard handler runs
with interrupts masked.
The one deep interaction: Alt+F on a terminal that is not active calls
`terminal_boot`, which calls `execute("shell")` from inside the keyboard
interrupt, on the kernel stack of whatever task was interrupted. That task may
be suspended in the middle of a `terminal_read`. `execute` reads the parent
from the base of that stack (`parent_esp & PROCESSMASK`), so the new shell
becomes a child of the interrupted task. When the shell halts, `halt` jumps
back into the keyboard handler, which finishes the terminal switch.

## 2. Modules

### `Kernel.tla`: the process and terminal core

The state is the process table and the interrupt-visible flags:

| Variable | Code |
|---|---|
| `task_bitmap`, `runn_task_num`, `curr_task_pos` | the globals of `syscall.c:35-37` |
| `pcb[s]` | `process_id`, `parent_process_id`, `running_state`, `open_file_num`, `file_array[fd]` as `[fop, flags]`; `parent_ctx` is the slot whose kernel stack `parent_esp` points into |
| `page_user` | the slot behind `page_dir[PAGEINDEX]` |
| `page_vid` | what `page_tab[0]` maps: video memory or terminal *t*'s backing buffer |
| `esp0` | the slot of `tss.esp0` |
| `kstack[s]` | the frames suspended on slot *s*'s kernel stack: an `execute` waiting for its child, a `terminal_switch` waiting for the shell it booted, or a spinning read |
| `terminal_state`, `current_terminal_idx`, `ter_read_indicator`, `cross_enter_flag`, `rtc_interrupt_occured` | the globals of the same names |
| `reg_a` | RTC register A; its initial values (`InitRegA`) are what the firmware leaves, since `rtc_init` does not write it |
| `last_accepted` | history variable: the last frequency `rtc_write` accepted |
| `task_term`, `last_exit`, `vid_callers` | history variables: the terminal each task was started on, the status and cause of the last teardown, and the live tasks that have called `vidmap` (no action reads it; `MCKernel.cfg` leaves it out of its `VIEW`, which is exact for that reason) |

There is one action per operation. `Execute` covers the whole syscall. When
the image loads it is `ExecuteLoaded`. `ExecuteLoadFails` is the short
`read_data` path, which returns -1 after the slot was taken. Failures before
the slot is taken change nothing and are stuttering steps. `Halt(status)` is
the whole of `halt`. A root halt restarts the shell in place and changes no
modelled state. Any other halt is `HaltTeardown`. `Exception` is a fault in
user mode, which calls `halt(255)`. The other actions are `Open(name)` with
`open`'s scan loop `OpenScan` (RECURSIVE), `Close(fd)`, and
`CloseUnopened(fd)`, a close through a NULL table that page-faults and halts
the caller. Reads are `ReadTerminal(fd)`/`TerminalReadReturn` and
`ReadRtc(fd)`/`RtcReadReturn`: each blocking read is split at its spin loop.
`WriteRtc(fd, freq)` is `write` on an rtc descriptor (`Writable` is
`write`'s check), with `rtc_write`'s frequency table as `RateOf`; a rejected
frequency returns -1 and is a stuttering step. Then `Vidmap`. The interrupts are `KeyEnter`, `RtcTick`, `TerminalSwitch(t)`
(Alt+F on an active terminal) and `TerminalBoot(t)` (Alt+F on an inactive
one, including the case where `execute` fails). `TerminalInit` is the first
shell. `write`, `getargs`, `set_handler` and `sigreturn` change no modelled
state, so they are stuttering steps.

`MCKernel.tla` holds the file sets for TLC: `shell` (regular, executable),
`rtc` (the device) and, for the load-failure runs, `broken` (an executable
whose data block is bad).

### `ProcessStack.tla`: what execute and halt promise

The abstract specification of the process tree. The live tasks form one
stack. The first shell starts it. `execute`, whether called by a program or
by a terminal boot from the keyboard interrupt, pushes a task that is not
live. `halt` pops the top task, and the task below runs again. Only the top
task runs. `Kernel` implements it (`ProcessStackRefined == PS!Spec`). The
refinement mapping is `PS == INSTANCE ProcessStack WITH stack <- TaskStack,
running <- esp0, Tasks <- Slots, Capacity <- MAXNUMTASK`. `TaskStack` is the
chain of `parent_process_id` links from `curr_task_pos` down to the first
shell (the RECURSIVE `Chain`), empty before boot. A root halt, a failed load
and the other syscalls are stuttering steps of the stack.

### `CommandLine.tla`: the line from the keyboard to getargs

This module follows a command line through the kernel's fixed buffers. It
has two halves that share only `overrun`.

The line discipline, for one terminal:
- `keyboard_buffer` is the line; its length is `kb_buffer_position`.
- `enter_flag` is the mode.
- `ter_read_buffer`, `ter_read_buf_size`, `ter_read_indicator` and
  `cross_enter_flag` are the globals of the same names.
- `reader` and `rd_nbytes` say where a `terminal_read` is and what it asked
  for.

Its actions are the keyboard handler's and `terminal_read`'s steps:
- `KeyChar(c)` (indicator 1; also Enter in text-editing mode), `KeyBackspace`,
  `KeyClear` (Ctrl+L: `reset`), `KeyToggleMode` (Ctrl+P) and `KeyEnter`
  (indicator 3, the hand-over to a waiting read).
- `terminal_read` is split where interrupts can arrive: `ReadStart(n)`,
  `ReadWake` (the spin ends and clears the flag), `ReadCopy` (the copy under
  `cli`, with `CopyLen`, `ReadBytes` and `ReadRet`) and `ReadDone` (after
  `sti`).
- The history variables are `typed` and `fresh`: the last line handed over,
  and whether a read has returned it yet.

The tokenizer:
- `FirstCmdLoop` and `ArgLoop` (RECURSIVE) are `execute`'s two loops.
- `ParseOverrun` lists the buffers the parse writes past.
- `LoadOutcomes` gives the program and argument string `execute` can leave.
  `ArgBufferOutcomes` is the choice of what `strcpy` reads from an
  unterminated `getargbuf`. `MayFail` is the -1 return.
- `Execute(cmd)` and `Getargs(n)` are the actions.
- `last_cmd` is the command of the last load, a history variable.
- `SpecName`, `SpecArgs` and `SpecRead` are spec 4.4's split and the line a
  read should return.

Strings are sequences over a small alphabet. A copy is modelled by the
indexes it writes. `overrun` records every buffer written past its end.

### `FileSys.tla`: lookups, directory listing and file reads

The file system image is constant: `Dir` (the boot block's entries, names as
tuples of one-character strings) and `Inodes` (length and data-block list).
The pure functions are operators: `read_dentry_by_name` (the RECURSIVE scan
`ScanDentries` with its prefix comparison `PrefixEq`), `ReadDentryByIndexOk`
and `read_data` (the RECURSIVE `CopyLoop`, one step per byte, fetching the
next block at each block boundary).

The state is the two globals `file_pos_keeper` and `fs_dir_read_flag`, which
every directory descriptor and every name lookup share, the open directory
descriptors with the entries each listing has returned (`listing`,
`complete`), and each regular-file descriptor's `file_pos` with the bytes
its reads reported (`delivered`, `last_read`). The actions are
`OtherLookup(q)` (any open, execute or halt restart looking up a name),
`OpenDir`, `CloseDir`, `DirRead` (the whole of `fs_dir_ls_read_helper`),
`OpenFile`, `CloseFile` and `FileRead(f, n)` (`filesys_read` through
`filesys_read_helper`). `read_data` reads a block number past the inode's
list at a block boundary: `Garbage` is the choice of what that word holds,
a valid block or an out-of-range one.

`MCFileSys.tla` holds a four-entry directory: ".", "sh" (four bytes
filling two blocks of two bytes), a full-length "abc" and "ab", with FNAME_LEN 3.

### `Scheduler.tla`: the disabled switch

`scheduling_handler` returns at `sche.c:44`. In `Kernel` the PIT tick is
therefore a stuttering step. `Scheduler` models the body behind that
return, which the design asks to make live. Its state is each slot's
`running_state`, `runn_task_num`, `curr_task_pos`, the parent slots,
`saved` (what `pcb.esp` holds: a point a switch saved on some stack,
`STACKTOP` as `execute` leaves it at `syscall.c:307`, or nothing),
`page_user`, `esp0`, and `cpu`, the stack the processor actually runs on.
Its actions are `SchedulingHandler` (the whole body, with
`get_next_availble_process`), and the `Execute` and `Halt` that create and
destroy tasks around it.

## 3. Runs

| Run | cfg | Bounds | Checks | Result |
|---|---|---|---|---|
| kernel_safety | `MCKernel.cfg` | 3 slots, 4 fds, 2 terminals | `TypeOK`, `SlotAccounting`, `ActiveWindow`, `TaskChain`, `FdTableConsistent`, `ProcessStackRefined` | pass, 757,553 states, about 1 min |
| rtc_read_returns | `MCKernelLive.cfg` | 2 slots, 3 fds, 2 terminals, a bad image, frequencies {0, 2, 1024}, register A 0x26 or 0x2F | `RtcReadReturns` (liveness), `RateFollowsAcceptedWrites` | pass, 23,682 states |
| terminal_read_hang | `MCKernelTermRead.cfg` | 2 slots, 2 terminals | `TerminalReadReturns` | violation |
| vidmap_window | `MCKernelVidmap.cfg` | 3 slots, 2 terminals | `VidmapShowsOwnTerminal` | violation |
| arg_overrun | `MCCommandLine.cfg` | CMDLENGTH 3, EXEBUFSIZE 3, ARGMAXLEN = BUF_SIZE 6, all commands of up to 6 characters | `WritesStayInBuffers` | violation |
| command_line | `MCCommandLineSafety.cfg` | as above but BUF_SIZE 2, reads of 0..3 bytes, all commands of up to 4 characters | `TypeOK`, `LineDelivered`, `ArgsFollowSpec` | pass, 372,780 states, about 2 min |
| line_reread | `MCCommandLineReread.cfg` | BUF_SIZE 3, reads of 0..4 bytes, no commands | `NoLineReadTwice` | violation |
| errors_taxonomy | `MCKernelErrors.cfg` | 2 slots, 5 fds, 1 terminal, statuses {0, 255} | `ErrorsFollowTaxonomy` | violation |
| terminal_keeps_shell | `MCKernelShell.cfg` | 3 slots, 2 terminals | `TerminalsKeepShell` | violation |
| fs_safety | `MCFileSys.cfg` | 1 directory fd, 1 file fd, reads of 1 or 3 bytes | `TypeOK`, `FileCursorTracksData` | pass, 38,124 states |
| dir_listing | `MCFileSysListing.cfg` | as above, lookups of 4 names | `ListingComplete` | violation |
| scheduler_switch | `MCScheduler.cfg` | 6 slots, as built | `SwitchResumesIncoming` | violation |

What the passing properties say:
- `ProcessStackRefined`: every step of the kernel is a step of
  `ProcessStack` or leaves the stack alone. A halt resumes exactly the task
  that executed the halting one, including a shell booted from the keyboard
  interrupt and a death by exception.
- `SlotAccounting`: `runn_task_num`, which `execute`'s capacity check reads,
  always equals the number of bitmap bits. Each bit set means a live pcb.
- `ActiveWindow`: the user window and `tss.esp0` belong to `curr_task_pos`
  after every step, including the halt of a shell booted from an interrupt.
- `TaskChain`: the live tasks form one chain. Each task that is not current
  is suspended in `execute` or in a terminal boot, under exactly the live
  child whose halt will resume it. This is what makes `halt`'s jump to
  `parent_esp` land on a live frame.
- `FdTableConsistent`: fds 0/1 stay stdin/stdout, and `open_file_num` counts
  the entries in use.
- `RtcReadReturns`: every `rtc_read` spin ends.
- `RateFollowsAcceptedWrites`: once `rtc_write` accepted a frequency, the
  rate bits make the chip interrupt at exactly that frequency (checked
  against the chip's formula `32768 >> (rate-1)`), and the divider bits are
  never changed.
- `LineDelivered`: a read that copies with no other line handed over since
  its wake-up gets the line of the Enter that woke it, with its newline,
  cut to `nbytes` and `BUF_SIZE`, and its return value counts exactly the
  bytes copied. This holds for empty lines, for lines of `BUF_SIZE - 1`
  characters and for full lines. A line handed over between the wake-up and
  the `cli` sets `cross_enter_flag` again, and the property leaves that case
  out: the read then returns the newer line, which is finding 4.
- `ArgsFollowSpec`: after a load, when the last command fits its buffers,
  the task runs spec 4.4's first word with spec 4.4's argument string
  (leading spaces trimmed, the rest kept).
- `FileCursorTracksData`: a file's cursor equals the bytes its reads
  reported, never passes the end of the file, and a read returns 0 only at
  the end.

Each of these properties has a mutant in `PROJECT.json`, a plausible bug in
the code that TLC catches under the same cfg. The mutants are: no capacity
check in `execute`; no `runn_task_num--` in `halt`; `halt` leaving the
window on the dead task; the parent taken from the owner's own parent field;
`close` accepting fd 1; `halt` returning to the parent's parent; an RTC
handler that does not set the flag; the 512 and 1024 Hz rates swapped in
`rtc_write`; a key stored with the line full; `terminal_read`'s loop running
to `i <= nbytes`; `execute`'s second loop copying the spaces after the first
word; `read_dentry_by_index` without its
entry-count check; `read_data`'s copy loop running one byte past the end.

Findings (violation runs; details in `PROJECT.json`):
1. **terminal_read hang** (`terminal.c:117-135`, `keyboard.c:106`). Shell A
   waits in `terminal_read`. Alt+F boots shell B on A's stack. B's read takes
   the next line and clears the global `ter_read_indicator`. When B dies, A
   resumes its spin, but Enter is ignored while the indicator is 0, so A
   spins forever.
2. **the vidmap page shows another terminal** (`syscall.c:668`,
   `terminal.c:211`). `vidmap` maps video memory whatever terminal the caller
   belongs to. `terminal_switch` maps the buffer of the terminal being left,
   whoever runs. One trace: with every slot in use, Alt+F2 marks terminal 2
   active and displays it, but no shell starts there. The running
   terminal-1 task then calls `vidmap` and draws on terminal 2's screen.
   Another leads through a boot, a switch and `vidmap`; which of them TLC
   prints depends on its search order.
3. **command-line copies write past their buffers**. The shortest case is
   `syscall.c:207`: `execute` writes the `'\0'` after the first word at
   `first_cmd[len]`, so a 20-character program name followed by a space
   writes past `first_cmd[20]`. Names of up to 32 characters are valid. The
   same unchecked copies overrun:
   - `getargbuf` (`syscall.c:222`);
   - `arg_line` (`syscall.c:190`);
   - the caller's buffer in `getargs` when its size equals `strlen`
     (`syscall.c:637-640`);
   - the caller's buffer in `terminal_read`, at `buffer[i+1]`
     (`terminal.c:127`);
   - `ter_read_buffer[BUF_SIZE]`, on Enter after a line of 127 characters
     (`keyboard.c:113`).
4. **a line is read twice** (`terminal.c:119-120`). `terminal_read` clears
   `cross_enter_flag`, then masks interrupts. An Enter in between hands over
   another line and sets the flag again. This read returns the new line, and
   the one that woke it is lost. The next read finds the flag set, does not
   wait, and returns the same line again.
5. **errors outside spec 7's classes** (`syscall.c:479`, `561-569`,
   `612-617`). `ErrorsFollowTaxonomy` states three rules of spec 4.3, 4.4
   and 7 together. TLC reports the shortest break: a program that calls
   `halt(255)` gives its parent 256, the value that means a death by
   exception. Checked one at a time, the other two conjuncts also fail:
   - after three `open`s and a `close` of fd 2, `open`'s scan stops before
     the last fd and fails with fd 2 free;
   - a `close` of a descriptor that was never opened calls through a NULL
     operations table, and the page fault kills the caller (a
     `kernel_fault` exit) where the spec has -1.
6. **a terminal loses its shell**: a shell booted by `terminal_boot` is not
   a root for `halt` (`syscall.c:406`), so `exit` tears it down. The terminal
   also stays active when its `execute` fails (`terminal.c:77,91`).
7. **ls skips or restarts** (`filesys.c:283`): the listing position is the
   global `file_pos_keeper`, which any lookup overwrites, and a listing left
   unfinished makes the next one start in the middle.
8. **the scheduler cannot resume a task** (`sche.c:88`): with the early
   return removed, the first switch loads the `esp` that `execute` set to the
   top of the stack, which no switch saved, and `leave; ret` runs off it.
   `curr_task_pos` is also never updated, so the next save would go to the
   wrong pcb.

### Bounds, and why they are enough

The build has 6 slots, 8 fds and 3 terminals. Three slots already give a
chain of depth three: the first shell, a program, and a shell booted on top.
They also give a full table, so `TerminalBoot` and `Execute` meet capacity.
Two terminals let a boot nest on a blocked read. Four fds give a hole,
which `CloseUnopened` needs. Two files cover both blocking kinds (the terminal is fd 0). Five fds are the least at which `open`'s scan bug
shows (three opens fill fds 2-4, and a close of fd 2 leaves a hole the
scan must find), so `errors_taxonomy` uses five; it also adds status 255,
the one `halt` rewrites. The other runs use status {0}: nothing they check
depends on the value. The RTC run writes one rejected
frequency (0), the slowest (2) and the fastest (1024), from both a
1024 Hz and a 2 Hz start. The liveness runs use 2 slots and 2 terminals:
one boot on top of a blocked read is the interesting case.

The file system bounds shrink names to FNAME_LEN 3 and blocks to 2 bytes:
"abc" is then a full-length name without a terminator, "ab" its prefix, and
"sh" a four-byte file that crosses a block boundary and ends on one, so
`read_data` fetches the unused block entry after its last byte (entry 0,
in range). Reads of 1 and 3 bytes reach both an exact end and a short read.
The image is good: a block out of range makes `read_data` return -1, and
`filesys_read` then moves the cursor back (`syscall.c:720`). That case
breaks `FileCursorTracksData`, and no run slot is left for it (section 4).

The CommandLine bounds scale the build's buffers down but keep their
relations:
- `first_cmd` (3) and `getargbuf` (3) are shorter than the commands;
- `arg_line` equals the keyboard line (6 = 6);
- the command alphabet is one letter and the space, all that the tokenizer
  tells apart.

In the pass run, all commands of up to four characters give:
- leading, repeated and trailing spaces;
- a word, a space and a word;
- an unterminated three-letter first word.

`BUF_SIZE` 2 gives the three line lengths the line discipline tells apart:
empty, `BUF_SIZE - 1` (the `'\0'` lands past the buffer) and full (no
newline). Reads of 0..3 bytes are shorter than, equal to and longer than
each of them. The keyboard types one letter; the model reads no other
property of a key.

The
Scheduler run uses the build's 6 slots; its violation needs two tasks.

### Fairness

`WF` on `RtcTick` (rtc_init programs a periodic interrupt that keeps
firing), on `RtcReadReturn` and `TerminalReadReturn` (a spinning loop keeps
testing its flag), and on `KeyEnter`. The last is an assumption about the
user: Enter is pressed whenever a line is awaited. The command-line runs
check safety only. No fairness is assumed for
user programs or for Alt+F. `FileSys` and `Scheduler` check safety only and
assume no fairness.

## 4. Not modelled, and why

- Console rendering, cursor, scrolling (`lib.c`) and keyboard scan-code
  translation: formatting only.
- PIC and paging setup: boot-time port and table initialisation, one fixed
  layout. `pit_init` only programs the timer. The PIC's in-service state
  would be the one thing worth composing: the keyboard and RTC handlers
  send EOI before they return, and `terminal_boot` sends `send_eoi(1)` and
  `sti` before it runs the new shell from inside the keyboard handler
  (`terminal.c:87-89`). In every reachable state no IRQ is left in service,
  so a property about it would hold by the model's shape.
- File data. Command lines and arguments are modelled only in `CommandLine`.
  `Kernel` keeps no buffer contents.
- `terminal_switch`'s save and restore of the keyboard and read buffers:
  `CommandLine` has one terminal's line.
- The text-editing mode's scroll (`lib.c:55-140`), which shifts
  `keyboard_buffer`. Ctrl+P clears that line before normal mode hands any
  line to a reader.
- `lib.c` declares `kb_buffer_position` `uint32_t` while `keyboard.c`
  defines it `uint8_t`. `reset` therefore zeroes three bytes after it, and
  which variables those are is the linker's layout. This is listed as a
  hazard.
- `read_dentry_by_name` compares only `strlen(fname)` characters against a
  full-length entry, so a prefix finds a 32-character name
  (`filesys.c:49-52`). `ScanDentries` models it as written and `fs_safety`
  explores it. Its run slot went to the command-line checks; it is listed
  as a hazard.
- A failed image load leaks the slot and moves `curr_task_pos`
  (`syscall.c:283-288`). Spec 4.4 already names this fragility. Its run
  slot went to `errors_taxonomy`; `ExecuteLoadFails` models it and
  `rtc_read_returns` explores it.
- `halt` never calls the close operations of the descriptors it drops
  (`syscall.c:464`). Every close operation (`rtc_close`, `filesys_close`,
  `fs_dir_close`, `terminal_close`) only returns 0, so nothing is lost, and
  no hazard is listed for it. `open` leaves a pointer to the stack-local
  dentry in the pcb (`syscall.c:574`), but nothing reads it again.
- `terminal_switch` copies the keyboard and read buffers per terminal, but
  `ter_read_indicator` and `cross_enter_flag` are global, and
  `ter_read_buf_size` is not saved. A line typed on the displayed terminal
  can be delivered to a read waiting on another, and counted by the other
  terminal's length (`keyboard.c:106`, `terminal.c:226`). Both are listed
  as hazards. Checking them needs `CommandLine` with two terminals, and
  that multiplies the `command_line` run's states past its time.
- A `terminal_read` in text-editing mode returns -1 and leaves
  `ter_read_indicator` at 1 (`terminal.c:137`), so the next Enter hands its
  line over with no reader waiting, and a later read returns it at once.
  `CommandLine` reaches this, and `LineDelivered` checks the line arrives
  intact. No property says a read must return only a line typed after it
  began: the spec does not say whether type-ahead is kept.
- `rtc_open`: `open` never calls a table's open entry, so it is unreachable.
- `fs_dir_read_helper`, `fs_print_name`, `get_dentry_size`: not reachable
  from any syscall.
- A `read_data` that meets an out-of-range block returns -1 and
  `filesys_read` adds it to the cursor (`syscall.c:720`). The run that shows
  it is left out under the twelve-run budget; it is listed as a hazard.

## 5. Plan for later sittings

In order of importance:
1. **Composing FileSys with Kernel**: directory and file descriptors of
   several tasks sharing the file system globals, and halt dropping them.
2. **Line buffers across terminals**: `terminal_switch`'s save and
   restore of `keyboard_buffer`/`ter_read_buffer` composed with
   `CommandLine`'s line discipline. `ter_read_buf_size` is not saved, so a
   read after a switch may count another terminal's line.
3. **Scheduler after a fix**: with `execute` saving a resumable context and
   the switch updating `curr_task_pos`, a round-robin liveness property
   (every running task is eventually on the processor), which the
   `% (MAXNUMTASK-1)` scan would break for slot 5.
