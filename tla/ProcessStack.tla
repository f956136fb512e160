---------------------------- MODULE ProcessStack ----------------------------
(***************************************************************************)
(* What execute and halt promise of the tasks of one machine, without     *)
(* slots, pcbs, stacks or page tables: the live tasks form one stack.     *)
(* The first shell starts it; execute (from a program, or from the        *)
(* keyboard interrupt that boots a terminal) pushes a task that is not    *)
(* live; halt pops the task on top, and the one below it runs again.      *)
(* Only the top of the stack runs.  A halt of the bottom task restarts    *)
(* it in place and is a stuttering step.                                  *)
(***************************************************************************)
EXTENDS Naturals, Sequences, SequencesExt

CONSTANTS
  Tasks,     \* names a live task can have
  Capacity,  \* most tasks live at once
  NONE

VARIABLES
  stack,     \* live tasks, the first one started at the bottom
  running    \* the task whose code runs

vars == <<stack, running>>

Start(t) ==
  /\ stack = <<>>
  /\ stack' = <<t>>
  /\ running' = t

Push(t) ==
  /\ stack # <<>>
  /\ Len(stack) < Capacity
  /\ t \notin ToSet(stack)
  /\ stack' = Append(stack, t)
  /\ running' = t

Pop ==
  /\ Len(stack) > 1
  /\ stack' = Front(stack)
  /\ running' = Last(Front(stack))

Init ==
  /\ stack = <<>>
  /\ running = NONE

Next == (\E t \in Tasks : Start(t) \/ Push(t)) \/ Pop

Spec == Init /\ [][Next]_vars
=============================================================================
