----------------------------- MODULE IssueTable -----------------------------
(***************************************************************************)
(* What chanserv and listchecker promise each other of the table issues:   *)
(* an issue gets a row at most once, a row gets a contractor only when it  *)
(* has none, and so changes hands only through the first column, and a row *)
(* that is gone stays gone.                                                *)
(***************************************************************************)
CONSTANTS Tasks, Workers, Nobody, NoRow

VARIABLES
    raised,   \* the issues created so far
    worker    \* per issue: the contractor its row names

Init ==
    /\ raised \in SUBSET Tasks
    /\ worker = [t \in Tasks |-> IF t \in raised THEN Nobody ELSE NoRow]

(* The row may fail to be written; it is not tried again. *)
Raise(t, written) ==
    /\ t \in Tasks \ raised
    /\ raised' = raised \cup {t}
    /\ worker' = IF written THEN [worker EXCEPT ![t] = Nobody] ELSE worker

Assign(t, w) ==
    /\ worker[t] = Nobody
    /\ worker' = [worker EXCEPT ![t] = w]
    /\ UNCHANGED raised

TakeBack(t) ==
    /\ worker[t] \in Workers
    /\ worker' = [worker EXCEPT ![t] = Nobody]
    /\ UNCHANGED raised

Remove(S) ==
    /\ worker' = [t \in Tasks |-> IF t \in S THEN NoRow ELSE worker[t]]
    /\ UNCHANGED raised

Next ==
    \/ \E t \in Tasks, written \in BOOLEAN : Raise(t, written)
    \/ \E t \in Tasks, w \in Workers : Assign(t, w)
    \/ \E t \in Tasks : TakeBack(t)
    \/ \E S \in SUBSET Tasks : Remove(S)

Spec == Init /\ [][Next]_<<raised, worker>>
=============================================================================
