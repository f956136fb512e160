------------------------------ MODULE Scheduler ------------------------------
(***************************************************************************)
(* The round-robin switch of sche.c, the body of scheduling_handler that  *)
(* the PIT interrupt (pit.c 41-51) calls, with the tasks execute and halt *)
(* create and destroy around it.  In the build the body is unreachable:   *)
(* scheduling_handler returns at its first statement (sche.c 44), so the  *)
(* build's tick is a stuttering step.  This module checks the body as it *)
(* would run with that return removed, the change the design asks for.   *)
(*                                                                         *)
(* cpu is the slot whose kernel stack the processor runs on; a task's     *)
(* code runs in the window page_user maps.  saved[s] is what pcb[s].esp   *)
(* points at: a point on slot x's stack the switch saved (x), the top of *)
(* its own stack as execute left it (STACKTOP), or nothing (NONE).         *)
(***************************************************************************)
EXTENDS Integers

CONSTANTS
  MAXNUMTASK,  \* syscall.h / sche.h MAXNUMTASK: task slots (6)
  NONE,
  WILD,        \* the processor runs from no task's saved point
  STACKTOP     \* execute's esp = ebp = pcb + 8KB - 4

Slots == 0 .. MAXNUMTASK - 1

VARIABLES
  running_state,  \* pcb[s].running_state
  runn_task_num,  \* syscall.c runn_task_num
  curr_task_pos,  \* syscall.c curr_task_pos
  parent,         \* pcb[s].parent_process_id, the slot whose stack parent_esp is on
  saved,          \* pcb[s].esp
  page_user,      \* page_dir[PAGEINDEX]: slot behind the 128MB window
  esp0,           \* tss.esp0
  cpu             \* the stack the processor runs on

vars == <<running_state, runn_task_num, curr_task_pos, parent, saved, page_user, esp0, cpu>>

(* get_next_availble_process (sche.c 17-33): the first of                *)
(* (curr_task_pos + i) % (MAXNUMTASK - 1), i = 1 .. MAXNUMTASK - 1, whose *)
(* pcb is running, or -1.  The modulus is one short: slot MAXNUMTASK - 1 *)
(* is never a candidate, and i = MAXNUMTASK - 1 gives curr_task_pos.    *)
get_next_availble_process ==
  LET cand == {i \in 1 .. MAXNUMTASK - 1 :
                 running_state[(curr_task_pos + i) % (MAXNUMTASK - 1)] # 0}
  IN IF cand = {} THEN -1
     ELSE LET i == CHOOSE j \in cand : \A k \in cand : j <= k
          IN (curr_task_pos + i) % (MAXNUMTASK - 1)

(* The PIT interrupt with the switch live (sche.c 45-100): with two or   *)
(* more tasks and a candidate, remap the window and tss.esp0 to it, save *)
(* the processor's stack into curr_pcb, the pcb of curr_task_pos, load   *)
(* esp/ebp from the candidate's pcb, and leave/ret on that stack.  An    *)
(* esp that no switch saved (execute's stack top) returns through a word *)
(* of the neighbouring pcb.  curr_task_pos is not updated.  The other    *)
(* cases return without a change and are stuttering steps.               *)
SchedulingHandler ==
  LET next == get_next_availble_process
      savedNow == [saved EXCEPT ![curr_task_pos] = cpu]
  IN /\ cpu \in Slots
     /\ runn_task_num > 1
     /\ next # -1
     /\ page_user' = next
     /\ esp0' = next
     /\ saved' = savedNow
     /\ cpu' = IF savedNow[next] \in Slots THEN savedNow[next] ELSE WILD
     /\ UNCHANGED <<running_state, runn_task_num, curr_task_pos, parent>>

(* execute by the program on the processor (syscall.c 252-345): the       *)
(* lowest free slot, parent from the stack execute runs on, esp = ebp =  *)
(* the top of the new stack, window and tss.esp0 to it, iret into it.    *)
Execute ==
  LET i == CHOOSE j \in Slots : running_state[j] = 0
                                /\ \A k \in 0 .. j - 1 : running_state[k] # 0
  IN /\ cpu \in Slots
     /\ runn_task_num < MAXNUMTASK
     /\ running_state' = [running_state EXCEPT ![i] = 1]
     /\ runn_task_num' = runn_task_num + 1
     /\ curr_task_pos' = i
     /\ parent' = [parent EXCEPT ![i] = cpu]
     /\ saved' = [saved EXCEPT ![i] = STACKTOP]
     /\ page_user' = i
     /\ esp0' = i
     /\ cpu' = i

(* halt by the program on the processor (syscall.c 441-496): it tears    *)
(* down curr_pcb, the pcb of curr_task_pos, makes its parent current,   *)
(* remaps, and jumps to parent_esp.  The first shell restarts in place.  *)
Halt ==
  /\ cpu \in Slots
  /\ parent[curr_task_pos] # NONE
  /\ running_state' = [running_state EXCEPT ![curr_task_pos] = 0]
  /\ runn_task_num' = runn_task_num - 1
  /\ curr_task_pos' = parent[curr_task_pos]
  /\ parent' = [parent EXCEPT ![curr_task_pos] = NONE]
  /\ saved' = [saved EXCEPT ![curr_task_pos] = NONE]
  /\ page_user' = parent[curr_task_pos]
  /\ esp0' = parent[curr_task_pos]
  /\ cpu' = parent[curr_task_pos]

(* terminal_init has executed the first shell into slot 0. *)
Init ==
  /\ running_state = [s \in Slots |-> IF s = 0 THEN 1 ELSE 0]
  /\ runn_task_num = 1
  /\ curr_task_pos = 0
  /\ parent = [s \in Slots |-> NONE]
  /\ saved = [s \in Slots |-> IF s = 0 THEN STACKTOP ELSE NONE]
  /\ page_user = 0
  /\ esp0 = 0
  /\ cpu = 0

Next == SchedulingHandler \/ Execute \/ Halt

Spec == Init /\ [][Next]_vars

TypeOK ==
  /\ running_state \in [Slots -> {0, 1}]
  /\ runn_task_num \in 0 .. MAXNUMTASK
  /\ curr_task_pos \in Slots
  /\ parent \in [Slots -> Slots \cup {NONE}]
  /\ saved \in [Slots -> Slots \cup {STACKTOP, NONE}]
  /\ {page_user, esp0} \subseteq Slots
  /\ cpu \in Slots \cup {WILD}

(* After every switch the processor runs on the saved point of the task  *)
(* whose window is mapped and whose stack tss.esp0 names (spec 4.5:      *)
(* remap to the incoming task, then resume it at its last saved point).  *)
SwitchResumesIncoming ==
  /\ cpu = page_user
  /\ cpu = esp0
=============================================================================
