----------------------------- MODULE RoundRobin -----------------------------
(***************************************************************************)
(* What the scheduler promises: tasks take turns in the order of a queue.  *)
(* The running task is the first of the queue; when its turn ends it goes  *)
(* to the back.  A task that is admitted waits at the back, and none ever  *)
(* leaves.  So between two turns of a task, every task that was queued has *)
(* had exactly one turn.                                                   *)
(***************************************************************************)
EXTENDS Naturals, Sequences

CONSTANT Task

VARIABLES queue, running

Queued == {queue[i] : i \in DOMAIN queue}

Init == \E t \in Task : queue = <<t>> /\ running = t

EndTurn ==
    /\ queue' = Append(Tail(queue), Head(queue))
    /\ running' = Head(queue')

Admit(t) ==
    /\ t \notin Queued
    /\ queue' = Append(queue, t)
    /\ UNCHANGED running

Next == EndTurn \/ \E t \in Task : Admit(t)

Spec == Init /\ [][Next]_<<queue, running>>
=============================================================================
