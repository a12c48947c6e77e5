---------------------------- MODULE Publication -----------------------------
(***************************************************************************)
(* What the presence writer promises the rest of the program, without its  *)
(* timers, backoff or connection: at every moment Discord displays nothing *)
(* or an activity the program asked for; a new display is always of the    *)
(* activity asked for at that moment; and clearing or stopping leaves      *)
(* nothing displayed and no refusal on record.                             *)
(***************************************************************************)
CONSTANTS Payloads, NULL

VARIABLES
    open,       \* the writer is accepting activities
    wanted,     \* the last activity asked for, or NULL
    shown,      \* what Discord displays for the program, or NULL
    refusal     \* Discord is reported to have refused an activity for good

vars == <<open, wanted, shown, refusal>>

Init == open = TRUE /\ wanted = NULL /\ shown = NULL /\ refusal = FALSE

\* What one attempt (or the lack of one) does to the display.
PutOff == UNCHANGED <<shown, refusal>>
Vanishes == shown' = NULL /\ UNCHANGED refusal
Appears(activity) == shown' = activity /\ refusal' = FALSE
IsRefused == shown' \in {shown, NULL} /\ refusal' = TRUE

Attempt(activity) ==
    Vanishes \/ Appears(activity) \/ IsRefused

Want(activity) ==
    /\ open
    /\ wanted' = activity
    /\ PutOff \/ Attempt(activity)
    /\ UNCHANGED open

Retry ==
    /\ open
    /\ wanted # NULL
    /\ Attempt(wanted)
    /\ UNCHANGED <<open, wanted>>

Clear ==
    /\ open
    /\ wanted' = NULL /\ shown' = NULL /\ refusal' = FALSE
    /\ UNCHANGED open

\* The connection is lost, whoever ends it.
Lose ==
    /\ Vanishes
    /\ UNCHANGED <<open, wanted>>

Close ==
    /\ open
    /\ open' = FALSE
    /\ Vanishes
    /\ UNCHANGED wanted

Next ==
    \/ \E activity \in Payloads : Want(activity)
    \/ Retry
    \/ Clear
    \/ Lose
    \/ Close

Spec == Init /\ [][Next]_vars
=============================================================================
