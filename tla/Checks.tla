------------------------------- MODULE Checks -------------------------------
(***************************************************************************)
(* What a team is promised about the checks of its tasks, whatever queues, *)
(* retries, refusals and deaths do below: a check is asked for once, is    *)
(* open until it is decided once, and its task shows exactly that.         *)
(* Verification implements this specification.                             *)
(***************************************************************************)
CONSTANTS
    Tasks,
    CheckIds,   \* the names of the checks
    Results     \* what a check is decided with; "error" is one of them

VARIABLES
    check,      \* a check: the task it is of, and its stage
    board       \* what a task shows: the stage of its newest check

vars == <<check, board>>

NoneOpen(t) == \A c \in CheckIds : ~(check[c].stage = "open" /\ check[c].task = t)

Init ==
    /\ \A c \in CheckIds : check[c].stage = "none"
    /\ \A t \in Tasks : board[t] = "none"

Open(c, t) ==
    /\ NoneOpen(t)
    /\ check' = [check EXCEPT ![c] = [task |-> t, stage |-> "open"]]
    /\ board' = [board EXCEPT ![t] = "open"]

\* A check is asked for once, and not beside another open one of its task.
Ask(c, t) == check[c].stage = "none" /\ Open(c, t)

\* Only a check that could not be carried out is asked for again.
AskAgain(c) == check[c].stage = "error" /\ Open(c, check[c].task)

Decide(c, result) ==
    /\ check[c].stage = "open"
    /\ check' = [check EXCEPT ![c].stage = result]
    /\ board' = [board EXCEPT ![check[c].task] = result]

Next ==
    \E c \in CheckIds :
        \/ \E t \in Tasks : Ask(c, t)
        \/ AskAgain(c)
        \/ \E result \in Results : Decide(c, result)

Spec == Init /\ [][Next]_vars
=============================================================================
