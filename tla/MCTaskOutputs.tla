----------------------------- MODULE MCTaskOutputs -----------------------------
(* Instance of TaskOutputs for TLC: every type of task, with few or all of  *)
(* its motors, before and after a task of another width; a loss resets one  *)
(* of the two.                                                              *)
EXTENDS TaskOutputs

WithMotors ==
    [type : {"DJI_MOTOR", "DD_MOTOR", "EXTERNAL_PWM"}, motors : {Motors, {2, 4}}]
Others ==
    [type : LKTypes \cup DMTypes \cup {"SUPER_CAP", "DSHOT", "ONBOARD_PWM"}, motors : {Motors}]
Neighbour == [type |-> "DM_SPEED", motors |-> Motors]

(* One right behind the other; the place in the list is not the place in    *)
(* the buffer.                                                              *)
Placed(t, r, at) == [type |-> t.type, motors |-> t.motors, reset |-> r, offset |-> at]
Pairs(t, r) ==
    { << Placed(t, r, 0), Placed(Neighbour, ~r, Width(t)) >>,
      << Placed(t, r, Width(Neighbour)), Placed(Neighbour, ~r, 0) >> }

MCTaskLists == UNION {Pairs(t, r) : t \in WithMotors \cup Others, r \in BOOLEAN}
MCCmds == { [on |-> {1, 2, 3, 4}, val |-> 2], [on |-> {2}, val |-> 3] }
=============================================================================
