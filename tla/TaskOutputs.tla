------------------------------ MODULE TaskOutputs ------------------------------
(***************************************************************************)
(* The bytes of master_to_slave_buf_ of one slave: where the tasks'         *)
(* on_command() and init_value() write, what send_arg() leaves there, what  *)
(* is saved when the slave is lost and what is put back.  SlaveDevice knows *)
(* one content per task; this module shows, for the byte layouts of the     *)
(* task types, that the tasks do keep apart (refinement of TaskCommands).   *)
(*                                                                          *)
(* The offsets come from the configuration; nothing in the code checks that *)
(* the areas of two tasks are apart (LayoutAssumption).                     *)
(***************************************************************************)
EXTENDS Naturals, Sequences

CONSTANTS
    NumTasks,   \* the tasks of a slave that have subscribers
    TaskLists,  \* task lists; a task is [type, motors: those with a CAN id, reset:
                \* connection_lost_write_action = 0x02, offset: pdowrite_offset]
    BufLen,     \* master_to_slave_buf_len_
    Cmds        \* commands: [on: the motors it enables, val: the values it carries]

TasksAt == 1 .. NumTasks
Motors == 1 .. 4

(* What a task obeys when it obeys no command: its default, or bytes that   *)
(* are neither its default nor a command for it.                            *)
NoCommand == [on |-> {}, val |-> 0]
Garbage == [on |-> {}, val |-> 1]

(* Cells: a byte holds 0, 1 (enabled), an argument, the configured init     *)
(* value, or a byte of a command's value.                                   *)
ArgByte == 100
InitByte == 101

LKTypes == {"LK_OPENLOOP", "LK_TORQUE", "LK_SPEED_WITH_TORQUE_LIMIT", "LK_MULTI_ROUND",
            "LK_MULTI_ROUND_WITH_SPEED_LIMIT", "LK_SINGLE_ROUND",
            "LK_SINGLE_ROUND_WITH_SPEED_LIMIT", "LK_BROADCAST"}
DMTypes == {"DM_MIT", "DM_POSITION_WITH_SPEED_LIMIT", "DM_SPEED"}
TaskTypes ==
    LKTypes \cup DMTypes
    \cup {"DJI_MOTOR", "DD_MOTOR", "SUPER_CAP", "DSHOT", "ONBOARD_PWM", "EXTERNAL_PWM"}
TaskRecords == [type : TaskTypes, motors : SUBSET Motors, reset : BOOLEAN, offset : Nat]

ASSUME TaskListsAssumption ==
    /\ NumTasks \in Nat /\ BufLen \in Nat
    /\ TaskLists \subseteq [TasksAt -> TaskRecords]
ASSUME CmdsAssumption ==
    \A c \in Cmds : c.on \subseteq Motors /\ c.val \in 2 .. 99

-----------------------------------------------------------------------------
(* What on_command() writes: byte by byte, an enable flag of a motor or a   *)
(* byte of its value.                                                       *)
Enable(m) == << [role |-> "enable", motor |-> m] >>
Value(m, width) == [b \in 1 .. width |-> [role |-> "value", motor |-> m]]

(* What is written for the four motors, one behind the other.               *)
InOrder(pieces) == pieces[1] \o pieces[2] \o pieces[3] \o pieces[4]
IfEnabled(t, m, bytes) == IF m \in t.motors THEN bytes ELSE << >>

DJI_MOTOR_command(t) == InOrder([m \in Motors |-> IfEnabled(t, m, Enable(m) \o Value(m, 2))])
DD_MOTOR_command(t) == InOrder([m \in Motors |-> IfEnabled(t, m, Enable(m) \o Value(m, 2))])

LK_MOTOR_command(t) ==
    CASE t.type \in {"LK_OPENLOOP", "LK_TORQUE"} -> Enable(1) \o Value(1, 2)
      [] t.type = "LK_SPEED_WITH_TORQUE_LIMIT" -> Enable(1) \o Value(1, 2 + 4)
      [] t.type = "LK_MULTI_ROUND" -> Enable(1) \o Value(1, 4)
      [] t.type = "LK_MULTI_ROUND_WITH_SPEED_LIMIT" -> Enable(1) \o Value(1, 2 + 4)
      [] t.type = "LK_SINGLE_ROUND" -> Enable(1) \o Value(1, 1 + 4)
      [] t.type = "LK_SINGLE_ROUND_WITH_SPEED_LIMIT" -> Enable(1) \o Value(1, 1 + 2 + 4)
      [] t.type = "LK_BROADCAST" -> InOrder([m \in Motors |-> Value(m, 2)])

DM_MOTOR_command(t) ==
    CASE t.type = "DM_MIT" -> Enable(1) \o Value(1, 8)
      [] t.type = "DM_POSITION_WITH_SPEED_LIMIT" -> Enable(1) \o Value(1, 4 + 4)
      [] t.type = "DM_SPEED" -> Enable(1) \o Value(1, 4)

SUPER_CAP_command == Enable(1) \o Value(1, 3)

DSHOT_command == InOrder([m \in Motors |-> Value(m, 2)])
ONBOARD_PWM_command == InOrder([m \in Motors |-> Value(m, 2)])
EXTERNAL_PWM_command(t) == InOrder([m \in Motors |-> IfEnabled(t, m, Value(m, 2))])

CommandBytes(t) ==
    CASE t.type = "DJI_MOTOR" -> DJI_MOTOR_command(t)
      [] t.type = "DD_MOTOR" -> DD_MOTOR_command(t)
      [] t.type \in LKTypes -> LK_MOTOR_command(t)
      [] t.type \in DMTypes -> DM_MOTOR_command(t)
      [] t.type = "SUPER_CAP" -> SUPER_CAP_command
      [] t.type = "DSHOT" -> DSHOT_command
      [] t.type = "ONBOARD_PWM" -> ONBOARD_PWM_command
      [] t.type = "EXTERNAL_PWM" -> EXTERNAL_PWM_command(t)

Cell(byte, c) ==
    IF byte.role = "value" THEN c.val ELSE IF byte.motor \in c.on THEN 1 ELSE 0

-----------------------------------------------------------------------------
(* What init_value() writes.                                                *)
Zeros(n) == [b \in 1 .. n |-> 0]

(* Mutant: three motors are reset, not four.                                *)
DJI_MOTOR_initThree == Zeros(3 * (1 + 2))

DJI_MOTOR_init == Zeros(4 * (1 + 2))
DD_MOTOR_init == Zeros(4 * (1 + 2))
LK_MOTOR_init(t) == Zeros(IF t.type = "LK_BROADCAST" THEN 4 * 2 ELSE 1)
DM_MOTOR_init == Zeros(1)
SUPER_CAP_init == Zeros(4)
DSHOT_init == [b \in 1 .. 4 * 2 |-> InitByte]
ONBOARD_PWM_init == [b \in 1 .. 4 * 2 |-> InitByte]
EXTERNAL_PWM_init(t) == InOrder([m \in Motors |-> IfEnabled(t, m, << InitByte, InitByte >>)])

InitBytes(t) ==
    CASE t.type = "DJI_MOTOR" -> DJI_MOTOR_init
      [] t.type = "DD_MOTOR" -> DD_MOTOR_init
      [] t.type \in LKTypes -> LK_MOTOR_init(t)
      [] t.type \in DMTypes -> DM_MOTOR_init
      [] t.type = "SUPER_CAP" -> SUPER_CAP_init
      [] t.type = "DSHOT" -> DSHOT_init
      [] t.type = "ONBOARD_PWM" -> ONBOARD_PWM_init
      [] t.type = "EXTERNAL_PWM" -> EXTERNAL_PWM_init(t)

(* Per task of a list: what a command writes, what init_value() writes, and *)
(* the area of the buffer both stay in.                                     *)
AllTasks == {list[i] : list \in TaskLists, i \in TasksAt}
Layout == [t \in AllTasks |-> CommandBytes(t)]
Defaults == [t \in AllTasks |-> InitBytes(t)]

Width(t) ==
    IF Len(CommandBytes(t)) > Len(InitBytes(t)) THEN Len(CommandBytes(t)) ELSE Len(InitBytes(t))
Area(t) == t.offset + 1 .. t.offset + Width(t)

(* A configuration that keeps the areas apart, and within the buffer.       *)
ASSUME LayoutAssumption ==
    \A list \in TaskLists : \A i \in TasksAt :
        /\ Area(list[i]) \subseteq 1 .. BufLen
        /\ \A j \in TasksAt : i # j => Area(list[i]) \cap Area(list[j]) = {}

-----------------------------------------------------------------------------
VARIABLES
    tasks,      \* task_list_, chosen at the start
    buf,        \* master_to_slave_buf_
    backup,     \* master_to_slave_buf_backup_
    phase,      \* "handshake" while arguments are sent, "working" after it
    firstTime   \* reconnected_times_ = 0

vars == <<tasks, buf, backup, phase, firstTime>>

(* b with bytes written from an offset on.                                  *)
Write(b, offset, bytes) ==
    [a \in DOMAIN b |-> IF a - offset \in DOMAIN bytes THEN bytes[a - offset] ELSE b[a]]

(* b after init_value() of the tasks T, in the order of the list: of those  *)
(* that write a byte, the last one decides.                                 *)
InitTasks(b, T) ==
    [a \in DOMAIN b |->
        LET writers == {i \in T : a - tasks[i].offset \in DOMAIN Defaults[tasks[i]]}
            last == CHOOSE i \in writers : \A j \in writers : j <= i
        IN IF writers = {} THEN b[a] ELSE Defaults[tasks[last]][a - tasks[last].offset]]

Init ==
    /\ tasks \in TaskLists
    /\ buf = Zeros(BufLen) /\ backup = Zeros(BufLen)
    /\ phase = "handshake"
    /\ firstTime = TRUE

SendArg ==
    /\ phase = "handshake"
    /\ buf' = Write(buf, 0, << ArgByte, ArgByte, ArgByte >>)
    /\ UNCHANGED <<tasks, backup, phase, firstTime>>

OnCommand(i, c) ==
    /\ LET bytes == Layout[tasks[i]]
       IN buf' = Write(buf, tasks[i].offset, [k \in DOMAIN bytes |-> Cell(bytes[k], c)])
    /\ UNCHANGED <<tasks, backup, phase, firstTime>>

WriteInitValues == buf' = InitTasks(Zeros(BufLen), TasksAt)

(* The end of the handshake, the first and any other time.                  *)
Activate ==
    /\ phase = "handshake" /\ phase' = "working"
    /\ IF firstTime THEN WriteInitValues ELSE buf' = backup
    /\ UNCHANGED <<tasks, backup, firstTime>>

(* The slave is lost while it works (EcatMaster says what else can happen): *)
(* on_connection_lost(), the backup, and the reconfiguration begins.        *)
LoseSlave ==
    /\ phase = "working" /\ phase' = "handshake"
    /\ buf' = InitTasks(buf, {i \in TasksAt : tasks[i].reset})
    /\ backup' = buf'
    /\ firstTime' = FALSE
    /\ UNCHANGED tasks

ExitReset ==
    /\ phase = "working"
    /\ WriteInitValues
    /\ UNCHANGED <<tasks, backup, phase, firstTime>>

Next ==
    \/ SendArg \/ Activate \/ LoseSlave \/ ExitReset
    \/ \E i \in TasksAt, c \in Cmds : OnCommand(i, c)

Spec == Init /\ [][Next]_vars

-----------------------------------------------------------------------------
(* What the firmware makes of a task's bytes (external): a motor without    *)
(* its enable flag does nothing, whatever its value is.                     *)
Off(bytes, cells) ==
    {bytes[k].motor : k \in {j \in DOMAIN bytes : bytes[j].role = "enable" /\ cells[j] = 0}}

(* What is sent to each byte of a task that its firmware heeds.             *)
Heeded(t, cells) ==
    LET bytes == Layout[t]
        off == Off(bytes, cells)
    IN {<<k, cells[k]>> : k \in {j \in DOMAIN bytes : bytes[j].motor \notin off}}

OfCommand == [t \in AllTasks |-> [c \in Cmds |->
    Heeded(t, [k \in DOMAIN Layout[t] |-> Cell(Layout[t][k], c)])]]
OfDefault == [t \in AllTasks |-> Heeded(t, Write(Zeros(Width(t)), 0, Defaults[t]))]

(* The command task t obeys when the buffer is b.                           *)
Obeyed(t, b) ==
    LET bytes == Layout[t]
        now == Heeded(t, [k \in DOMAIN bytes |-> b[t.offset + k]])
        sent == {c \in Cmds : OfCommand[t][c] = now}
    IN IF now = OfDefault[t] THEN NoCommand
       ELSE IF sent # {} THEN CHOOSE c \in sent : TRUE
       ELSE Garbage

(* The buffer that counts: the slave is not driven during a handshake, and  *)
(* gets the defaults or the backup at its end.                              *)
Effective ==
    IF phase = "working" THEN buf
    ELSE IF firstTime THEN InitTasks(Zeros(BufLen), TasksAt) ELSE backup

TC == INSTANCE TaskCommands WITH
        Tasks <- TasksAt,
        obeys <- [i \in TasksAt |-> Obeyed(tasks[i], Effective)],
        resets <- {i \in TasksAt : tasks[i].reset}

(* The bytes implement the promise: a command reaches the task it is meant  *)
(* for and no other, arguments never become commands, a reset task is at    *)
(* its default with every motor, and the others keep what they had.         *)
TasksKeepApart == TC!Spec
=============================================================================
