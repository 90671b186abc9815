------------------------------ MODULE TaskReports ------------------------------
(***************************************************************************)
(* What the tasks publish.  All tasks of one type, on whatever slave, fill  *)
(* in the same static message, part by part, and publish it on their own    *)
(* topic: the data thread in read(), when a slave's status has come back,   *)
(* the checker in publish_empty_message(), when a slave is lost.  Each      *)
(* thread holds the mtx_ of the slave it works for, and no other lock.      *)
(***************************************************************************)
EXTENDS Naturals, Sequences

CONSTANTS
    TaskLists   \* configurations: lists[s] are the tasks of slave s that publish, in
                \* order; a task is [type, enabled: its motors,
                \* reset: connection_lost_read_action = 0x02]

TaskTypes == {"DJI_MOTOR", "DD_MOTOR", "LK_MOTOR", "LK_MOTOR_MULTI", "DM_MOTOR", "SUPER_CAP",
              "DBUS_RC", "SBUS_RC", "VT13_RC", "PMU_CAN", "MS5837_30BA", "HIPNUC_IMU_CAN"}
Motors == 1 .. 4
TaskRecords == [type : TaskTypes, enabled : SUBSET Motors, reset : BOOLEAN]

ASSUME TaskListsAssumption ==
    \A lists \in TaskLists :
        /\ lists \in Seq(Seq(TaskRecords)) /\ lists # << >>
        /\ \A s \in DOMAIN lists : lists[s] # << >>

-----------------------------------------------------------------------------
(* A step fills one part of the message: from the slave's process image, or *)
(* with its default.  X_empty is what publish_empty_message() of type X     *)
(* does, X_read(t) the set of what its read() can do, for task t.           *)
Sensor(part) == [part |-> part, from |-> "image"]
Default(part) == [part |-> part, from |-> "default"]

Motor == << "motor1", "motor2", "motor3", "motor4" >>

DJI_MOTOR_empty == [m \in Motors |-> Default(Motor[m])]

(* Mutant: a motor that is not enabled is left alone.                       *)
DJI_MOTOR_readEnabledOnly(t) ==
    {SelectSeq([m \in Motors |-> Sensor(Motor[m])], LAMBDA step : \E m \in t.enabled : step.part = Motor[m])}

DJI_MOTOR_read(t) ==
    {[m \in Motors |-> IF m \in t.enabled THEN Sensor(Motor[m]) ELSE Default(Motor[m])]}

DD_MOTOR_empty == [m \in Motors |-> Default(Motor[m])]
DD_MOTOR_read(t) ==
    {[m \in Motors |-> IF m \in t.enabled THEN Sensor(Motor[m]) ELSE Default(Motor[m])]}

LK_MOTOR_empty(t) ==
    IF t.type = "LK_MOTOR_MULTI" THEN [m \in Motors |-> Default(Motor[m])]
    ELSE << Default("state"), Default("values") >>
LK_MOTOR_read(t) ==
    IF t.type = "LK_MOTOR_MULTI" THEN {[m \in Motors |-> Sensor(Motor[m])]}
    ELSE {<< Sensor("state"), Sensor("values") >>}

(* Of the flags at most the one that the error code names is set.           *)
DM_MOTOR_empty == << Default("flags"), Default("online"), Default("values") >>
DM_MOTOR_read(t) ==
    {<< Default("flags"), Sensor("online") >> \o flag \o << Sensor("values") >> :
        flag \in {<< >>, << Sensor("flags") >>}}

SUPER_CAP_empty == << Default("online"), Default("values") >>
SUPER_CAP_read(t) == {<< Sensor("online"), Sensor("values") >>}

(* While the receiver is offline the channels are left as they are.         *)
DBUS_RC_empty == << Default("channels"), Default("online") >>
DBUS_RC_read(t) ==
    {<< Sensor("channels"), Sensor("online") >>, << Default("online") >>}
SBUS_RC_empty == << Default("channels"), Default("online") >>
SBUS_RC_read(t) ==
    {<< Sensor("channels"), Sensor("online") >>, << Default("online") >>}
VT13_RC_empty == << Default("channels"), Default("online") >>
VT13_RC_read(t) ==
    {<< Sensor("channels"), Sensor("online") >>, << Default("online") >>}

PMU_CAN_empty == << Default("online"), Default("values") >>
PMU_CAN_read(t) ==
    {<< Default("online") >> \o live : live \in {<< >>, << Sensor("online"), Sensor("values") >>}}
MS5837_30BA_empty == << Default("online"), Default("values") >>
MS5837_30BA_read(t) ==
    {<< Default("online") >> \o live : live \in {<< >>, << Sensor("online"), Sensor("values") >>}}

(* The frame name is the task's own in both.                                *)
HIPNUC_IMU_CAN_empty == << Sensor("frame"), Default("values") >>
HIPNUC_IMU_CAN_read(t) == {<< Sensor("frame"), Sensor("values") >>}

Empty(t) ==
    CASE t.type = "DJI_MOTOR" -> DJI_MOTOR_empty
      [] t.type = "DD_MOTOR" -> DD_MOTOR_empty
      [] t.type \in {"LK_MOTOR", "LK_MOTOR_MULTI"} -> LK_MOTOR_empty(t)
      [] t.type = "DM_MOTOR" -> DM_MOTOR_empty
      [] t.type = "SUPER_CAP" -> SUPER_CAP_empty
      [] t.type = "DBUS_RC" -> DBUS_RC_empty
      [] t.type = "SBUS_RC" -> SBUS_RC_empty
      [] t.type = "VT13_RC" -> VT13_RC_empty
      [] t.type = "PMU_CAN" -> PMU_CAN_empty
      [] t.type = "MS5837_30BA" -> MS5837_30BA_empty
      [] t.type = "HIPNUC_IMU_CAN" -> HIPNUC_IMU_CAN_empty

Reads(t) ==
    CASE t.type = "DJI_MOTOR" -> DJI_MOTOR_read(t)
      [] t.type = "DD_MOTOR" -> DD_MOTOR_read(t)
      [] t.type \in {"LK_MOTOR", "LK_MOTOR_MULTI"} -> LK_MOTOR_read(t)
      [] t.type = "DM_MOTOR" -> DM_MOTOR_read(t)
      [] t.type = "SUPER_CAP" -> SUPER_CAP_read(t)
      [] t.type = "DBUS_RC" -> DBUS_RC_read(t)
      [] t.type = "SBUS_RC" -> SBUS_RC_read(t)
      [] t.type = "VT13_RC" -> VT13_RC_read(t)
      [] t.type = "PMU_CAN" -> PMU_CAN_read(t)
      [] t.type = "MS5837_30BA" -> MS5837_30BA_read(t)
      [] t.type = "HIPNUC_IMU_CAN" -> HIPNUC_IMU_CAN_read(t)

-----------------------------------------------------------------------------
Threads == {"data", "checker"}

VARIABLES
    tasks,   \* the configuration, chosen at the start
    msg,     \* msg[type]: the static message; whose data each part holds
    shown,   \* shown[id]: the last message on the topic of a task, and its kind
    ready,   \* ready[s]: is_ready_ and is_conf_ros_done_
    lost,    \* lost[s]: the checker has reset the slave and it is not back yet
    turn,    \* the slave the data thread is at in its cycle
    at,      \* at[th]: the slave whose mtx_ thread th holds, 0 for none
    work     \* work[th]: the messages it has yet to publish under that lock

vars == <<tasks, msg, shown, ready, lost, turn, at, work>>

Slaves == DOMAIN tasks
Task(id) == tasks[id[1]][id[2]]
TasksOf(s) == {<<s, i>> : i \in DOMAIN tasks[s]}
AllTasks == UNION {TasksOf(s) : s \in Slaves}

NoOne == << >>            \* the origin of a default value
Types == {Task(id).type : id \in AllTasks}
Parts(type) ==
    LET id == CHOOSE i \in AllTasks : Task(i).type = type
    IN {Empty(Task(id))[k].part : k \in DOMAIN Empty(Task(id))}
Blank(type) == [p \in Parts(type) |-> NoOne]

Init ==
    /\ tasks \in TaskLists
    /\ msg = [type \in Types |-> Blank(type)]
    /\ shown = [id \in AllTasks |-> [by |-> "none", msg |-> Blank(Task(id).type)]]
    /\ ready = [s \in Slaves |-> TRUE]
    /\ lost = [s \in Slaves |-> FALSE]
    /\ turn = 1
    /\ at = [th \in Threads |-> 0]
    /\ work = [th \in Threads |-> << >>]

Free(s) == \A th \in Threads : at[th] # s

(* Mutant: the cycle goes on behind the last slave.                         *)
NextTurnBeyond == IF turn \in Slaves THEN turn + 1 ELSE 1

NextTurn == IF turn + 1 \in Slaves THEN turn + 1 ELSE 1

(* What a thread has to do for one task: the steps, then publish().         *)
Job(id, steps, kind) == [id |-> id, todo |-> steps, by |-> kind]

(* The data thread at a slave, under its lock: it leaves the slave alone    *)
(* when it is not ready or its status has not come back, or it has every    *)
(* task read its part of the process image.                                 *)
SkipSlave ==
    /\ at["data"] = 0 /\ Free(turn)
    /\ turn' = NextTurn
    /\ UNCHANGED <<tasks, msg, shown, ready, lost, at, work>>

ProcessPdo ==
    /\ at["data"] = 0 /\ Free(turn)
    /\ ready[turn]
    /\ at' = [at EXCEPT !["data"] = turn]
    /\ LET n == Len(tasks[turn])
           choices == [i \in 1 .. n |-> Reads(Task(<<turn, i>>))]
       IN \E r \in [1 .. n -> UNION {choices[i] : i \in 1 .. n}] :
             /\ \A i \in 1 .. n : r[i] \in choices[i]
             /\ work' = [work EXCEPT !["data"] =
                           [i \in 1 .. n |-> Job(<<turn, i>>, r[i], "read")]]
    /\ UNCHANGED <<tasks, msg, shown, ready, lost, turn>>

(* on_connection_lost(): task after task, the default message is published  *)
(* for those that ask for it; the others keep what they show.               *)
LossJobs(s) ==
    [i \in DOMAIN tasks[s] |->
        IF Task(<<s, i>>).reset THEN Job(<<s, i>>, Empty(Task(<<s, i>>)), "loss")
                                ELSE Job(<<s, i>>, << >>, "keep")]

(* Mutant: reset_state() is forgotten.                                      *)
LoseSlaveStillReady(s) ==
    /\ at["checker"] = 0 /\ Free(s) /\ ~lost[s]
    /\ at' = [at EXCEPT !["checker"] = s]
    /\ work' = [work EXCEPT !["checker"] = LossJobs(s)]
    /\ UNCHANGED <<tasks, msg, shown, ready, lost, turn>>

(* Mutant: the checker does not take the lock first.                        *)
LoseSlaveUnlocked(s) ==
    /\ at["checker"] = 0 /\ ~lost[s]
    /\ at' = [at EXCEPT !["checker"] = s]
    /\ ready' = [ready EXCEPT ![s] = FALSE]
    /\ work' = [work EXCEPT !["checker"] = LossJobs(s)]
    /\ UNCHANGED <<tasks, msg, shown, lost, turn>>

(* The checker finds a slave lost: reset_state(), on_connection_lost().     *)
LoseSlave(s) ==
    /\ at["checker"] = 0 /\ Free(s) /\ ~lost[s]
    /\ at' = [at EXCEPT !["checker"] = s]
    /\ ready' = [ready EXCEPT ![s] = FALSE]
    /\ work' = [work EXCEPT !["checker"] = LossJobs(s)]
    /\ UNCHANGED <<tasks, msg, shown, lost, turn>>

(* Both threads: fill in a part, publish, and let go of the slave.          *)
FillPart(th) ==
    /\ work[th] # << >> /\ Head(work[th]).todo # << >>
    /\ LET job == Head(work[th])
           step == Head(job.todo)
       IN /\ msg' = [msg EXCEPT ![Task(job.id).type] =
                       [@ EXCEPT ![step.part] = IF step.from = "image" THEN job.id ELSE NoOne]]
          /\ work' = [work EXCEPT ![th][1].todo = Tail(@)]
    /\ UNCHANGED <<tasks, shown, ready, lost, turn, at>>

Publish(th) ==
    /\ work[th] # << >> /\ Head(work[th]).todo = << >>
    /\ LET job == Head(work[th])
       IN shown' = IF job.by = "keep" THEN shown
                   ELSE [shown EXCEPT ![job.id] = [by |-> job.by, msg |-> msg[Task(job.id).type]]]
    /\ work' = [work EXCEPT ![th] = Tail(@)]
    /\ UNCHANGED <<tasks, msg, ready, lost, turn, at>>

LeaveSlave(th) ==
    /\ at[th] # 0 /\ work[th] = << >>
    /\ at' = [at EXCEPT ![th] = 0]
    /\ IF th = "data" THEN turn' = NextTurn /\ lost' = lost
                      ELSE lost' = [lost EXCEPT ![at[th]] = TRUE] /\ turn' = turn
    /\ UNCHANGED <<tasks, msg, shown, ready, work>>

(* The slave is back: recover_state(), which one caller runs without mtx_,  *)
(* or set_ready() once it has been configured again.                        *)
Recover(s) ==
    /\ lost[s]
    /\ lost' = [lost EXCEPT ![s] = FALSE]
    /\ ready' = [ready EXCEPT ![s] = TRUE]
    /\ UNCHANGED <<tasks, msg, shown, turn, at, work>>

Next ==
    \/ SkipSlave \/ ProcessPdo
    \/ \E s \in Slaves : LoseSlave(s) \/ Recover(s)
    \/ \E th \in Threads : FillPart(th) \/ Publish(th) \/ LeaveSlave(th)

Spec == Init /\ [][Next]_vars

-----------------------------------------------------------------------------
(* Properties.                                                              *)

(* Every variable has its type; a message has all its parts.                *)
Origins == AllTasks \cup {NoOne}
Messages(type) == [Parts(type) -> Origins]
PartNames == {"motor1", "motor2", "motor3", "motor4", "state", "flags", "online", "channels",
              "values", "frame"}
Steps == [part : PartNames, from : {"image", "default"}]
Jobs == [id : AllTasks, todo : Seq(Steps), by : {"read", "loss", "keep"}]

TypeOK ==
    /\ tasks \in TaskLists
    /\ DOMAIN msg = Types /\ \A type \in Types : msg[type] \in Messages(type)
    /\ DOMAIN shown = AllTasks
    /\ \A id \in AllTasks :
          /\ shown[id].by \in {"none", "read", "loss"}
          /\ shown[id].msg \in Messages(Task(id).type)
    /\ ready \in [Slaves -> BOOLEAN] /\ lost \in [Slaves -> BOOLEAN]
    /\ turn \in Slaves
    /\ at \in [Threads -> Slaves \cup {0}]
    /\ work \in [Threads -> Seq(Jobs)]

(* What a task publishes comes from its own part of its own slave's process *)
(* image, or is a default, although it shares the message with every task   *)
(* of its type.                                                             *)
ReportsAreOwn ==
    \A id \in AllTasks : \A p \in DOMAIN shown[id].msg : shown[id].msg[p] \in {NoOne, id}

(* The message that announces a loss is the default message and nothing     *)
(* else: no part of it is sensor data the other thread was filling in.      *)
Cleared(id) ==
    [p \in Parts(Task(id).type) |->
        IF Sensor(p) \in {Empty(Task(id))[k] : k \in DOMAIN Empty(Task(id))} THEN id ELSE NoOne]
LossReportIsDefault ==
    \A id \in AllTasks : shown[id].by = "loss" => shown[id].msg = Cleared(id)

(* Once the loss of a slave has been announced on a topic, nothing is       *)
(* published there until the slave is back.                                 *)
DefaultUntilBack ==
    \A id \in AllTasks : lost[id[1]] /\ Task(id).reset => shown[id].by = "loss"
=============================================================================
