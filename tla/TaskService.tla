---------------------------- MODULE TaskService ----------------------------
(***************************************************************************)
(* What a task_queue served by a task_worker_pool promises to the code     *)
(* that pushes tasks: a submitted task waits in submission order, is       *)
(* started or withdrawn at most once, always from the front of the queue,  *)
(* and completes at most once.  Threads, the mutex, the condition variable *)
(* and the pool's life cycle are invisible at this level.                  *)
(***************************************************************************)
EXTENDS Sequences, SequencesExt

CONSTANT Task

VARIABLES
    queued,     \* submitted and not yet started, in order of submission
    running,    \* started and not yet complete
    done,       \* completed
    withdrawn   \* taken back by a client that called pop() itself

vars == <<queued, running, done, withdrawn>>

Known == ToSet(queued) \union running \union done \union withdrawn

Init ==
    /\ queued = <<>>
    /\ running = {}
    /\ done = {}
    /\ withdrawn = {}

Submit ==
    \E t \in Task \ Known :
        /\ queued' = Append(queued, t)
        /\ UNCHANGED <<running, done, withdrawn>>

Start ==
    /\ queued # <<>>
    /\ running' = running \union {Head(queued)}
    /\ queued' = Tail(queued)
    /\ UNCHANGED <<done, withdrawn>>

Withdraw ==
    /\ queued # <<>>
    /\ withdrawn' = withdrawn \union {Head(queued)}
    /\ queued' = Tail(queued)
    /\ UNCHANGED <<running, done>>

Complete ==
    \E t \in running :
        /\ running' = running \ {t}
        /\ done' = done \union {t}
        /\ UNCHANGED <<queued, withdrawn>>

Next == Submit \/ Start \/ Withdraw \/ Complete

Spec == Init /\ [][Next]_vars
=============================================================================
