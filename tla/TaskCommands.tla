----------------------------- MODULE TaskCommands ------------------------------
(***************************************************************************)
(* What the command side of a slave promises, without bytes: every task     *)
(* obeys a command meant for it or its default.  A loss of the slave puts   *)
(* the tasks that ask for it (connection_lost_write_action 0x02) back to    *)
(* their default and leaves the others what they had, across the            *)
(* reconfiguration that follows; leaving the program resets them all.       *)
(***************************************************************************)
CONSTANTS Tasks, Cmds, NoCommand

VARIABLES
    obeys,     \* obeys[t]: the command task t obeys, NoCommand for its default
    resets     \* the tasks to be reset when the slave is lost

Init ==
    /\ obeys = [t \in Tasks |-> NoCommand]
    /\ resets \in SUBSET Tasks

(* A command that disables the task leaves it at its default.               *)
Command(t) ==
    /\ \E c \in Cmds \cup {NoCommand} : obeys' = [obeys EXCEPT ![t] = c]
    /\ UNCHANGED resets

ResetTasks(T) ==
    /\ obeys' = [t \in Tasks |-> IF t \in T THEN NoCommand ELSE obeys[t]]
    /\ UNCHANGED resets

Next ==
    \/ \E t \in Tasks : Command(t)
    \/ ResetTasks(resets) \/ ResetTasks(Tasks)

Spec == Init /\ [][Next]_<<obeys, resets>>
=============================================================================
