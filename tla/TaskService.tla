----------------------------- MODULE TaskService -----------------------------
(***************************************************************************)
(* What the bot promises the threads that post work to its main thread     *)
(* (task_queue.h:7, main.cpp:96): posted tasks are run one at a time, in   *)
(* the order they were posted, each once, for as long as the bot serves.   *)
(***************************************************************************)
EXTENDS Naturals, Sequences

CONSTANT Tasks

VARIABLES waiting, done, serving

Init == waiting = <<>> /\ done = <<>> /\ serving = TRUE

Post(t) ==
    /\ waiting' = Append(waiting, t)
    /\ UNCHANGED <<done, serving>>

Perform ==
    /\ serving
    /\ waiting # <<>>
    /\ done' = Append(done, Head(waiting))
    /\ waiting' = Tail(waiting)
    /\ UNCHANGED serving

(* The service ends; the tasks taken in hand may be dropped. *)
End ==
    /\ serving
    /\ serving' = FALSE
    /\ \E taken \in 0 .. Len(waiting) :
          waiting' = SubSeq(waiting, taken + 1, Len(waiting))
    /\ UNCHANGED done

Next == (\E t \in Tasks : Post(t)) \/ Perform \/ End

Spec == Init /\ [][Next]_<<waiting, done, serving>>
=============================================================================
