------------------------------ MODULE MCKernel ------------------------------
(* Model-checking instance of Kernel.  The .cfg files fix the bounds:    *)
(* two or three task slots (the build has six; three already reach slot *)
(* exhaustion, a three-deep chain and a shell booted on every terminal), *)
(* two or three terminals, and three to five descriptors per task.       *)
(* Files: the shell, and the rtc device file that read blocks on.        *)
EXTENDS Kernel

MC_Files == {"shell", "rtc"}

MC_FileType == [f \in MC_Files |-> IF f = "rtc" THEN 0 ELSE 2]

(* A second executable whose image has a bad data block. *)
MC_FilesBad == MC_Files \cup {"broken"}

MC_FileTypeBad == [f \in MC_FilesBad |-> IF f = "rtc" THEN 0 ELSE 2]

(* vid_callers is a history variable no action reads: states that differ *)
(* only in it have the same successors up to it.  Runs whose properties *)
(* do not mention it fingerprint states without it.                     *)
KernelView == <<task_bitmap, runn_task_num, curr_task_pos, pcb, page_user, esp0,
                kstack, task_term, termVars, ioVars, last_exit>>
=============================================================================
