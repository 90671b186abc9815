------------------------------ MODULE TaskConfig -------------------------------
(***************************************************************************)
(* How a slave gets its tasks (SlaveDevice::init_task_list and the          *)
(* init_sdo() of the fourteen task types): from the configuration the       *)
(* parser has loaded, the argument bytes that are later sent to the slave   *)
(* (EcatMaster, SlaveDevice!SendArg) are laid out in arg_buf_, task after   *)
(* task, and every setting the master itself needs is looked up.            *)
(*                                                                          *)
(* A setting that is missing or has another type throws, and nothing        *)
(* between here and main() catches: the process terminates.                 *)
(***************************************************************************)
EXTENDS ConfigurationParser

CONSTANTS
    Slave,     \* the name of the slave's section, "sn" and its serial number
    App,       \* App[i]: the name of the section of task i, "app_" and i
    Motor      \* Motor[m]: "motor" and m, for the four motors of a CAN task

Tasks == 1 .. 255   \* task_count is a uint8_t
Motors == 1 .. 4

ASSUME NamesAssumption ==
    /\ Slave \in STRING
    /\ App \in [Tasks -> STRING] /\ \A i, j \in Tasks : App[i] = App[j] => i = j
    /\ Motor \in [Motors -> STRING] /\ \A m, n \in Motors : Motor[m] = Motor[n] => m = n

VARIABLES
    arg,       \* arg_buf_: whose byte each of its bytes is
    idx,       \* arg_buf_idx
    beyond,    \* has a byte been written behind the end of arg_buf_?
    count,     \* task_count
    app,       \* app_idx
    ops,       \* what is left of the task's init_sdo()
    built      \* temp_buf_, what build_buf() has laid out so far

vars == <<parser, arg, idx, beyond, count, app, ops, built>>

-----------------------------------------------------------------------------
(* Settings.                                                                *)
OfSlave(name) == << Slave, name >>
OfTask(i, field) == << Slave, App[i] >> \o field
Sdo(name) == << "sdowrite", name >>
OfMotor(m, name) == << "sdowrite", Motor[m], name >>

Has(key, type) == key \in DOMAIN fields /\ fields[key].type = type
Value(key) == IF key \in DOMAIN fields THEN fields[key].val ELSE 0
Is(i, field, values) == Value(OfTask(i, field)) \in values

(* build_buf() writes a value as wide as its type; strings take no byte.    *)
Width(type) ==
    CASE type \in {"uint8_t", "int8_t"} -> 1
      [] type \in {"uint16_t", "int16_t"} -> 2
      [] type \in {"uint32_t", "int32_t", "float"} -> 4
      [] type = "std::string" -> 0

Bytes(key) == [b \in 1 .. Width(fields[key].type) |-> [of |-> key, byte |-> b]]
NoByte == [of |-> << >>, byte |-> 0]

-----------------------------------------------------------------------------
(* The init_sdo() of a task type, for task i: a sequence of operations.     *)
(* BuildBuf lays out fields and copies them to arg_buf_, Need looks a       *)
(* setting up that must be there, Default one that has a default when it is *)
(* not.                                                                     *)
Operation(op, field, type) == [op |-> op, field |-> field, type |-> type]
BuildBuf(flds) ==
    [k \in DOMAIN flds |-> Operation("append", flds[k], "any")]
    \o << Operation("copy", << >>, "any") >>
Need(field, type) == << Operation("need", field, type) >>
Default(field, type) == << Operation("default", field, type) >>

Args(names) == BuildBuf([k \in DOMAIN names |-> Sdo(names[k])])
MotorArgs(m, names) == BuildBuf([k \in DOMAIN names |-> OfMotor(m, names[k])])
PubTopic == Need(<< "pub_topic" >>, "std::string")
SubTopic == Need(<< "sub_topic" >>, "std::string")

load_slave_info ==
    Default(<< "pdoread_offset" >>, "uint16_t") \o Default(<< "pdowrite_offset" >>, "uint16_t")
    \o Default(<< "conf", "connection_lost_read_action" >>, "uint8_t")
    \o Default(Sdo("connection_lost_write_action"), "uint8_t")

MotorIds == [m \in Motors |-> OfMotor(m, "can_id")]
InOrder(pieces) == pieces[1] \o pieces[2] \o pieces[3] \o pieces[4]

(* A motor is enabled by a can_id other than 0.                             *)
IfEnabled(i, m, steps) ==
    Need(OfMotor(m, "can_id"), "uint32_t")
    \o (IF Is(i, OfMotor(m, "can_id"), {0}) THEN << >> ELSE steps)

DD_MOTOR_init_sdo(i) ==
    BuildBuf(<< Sdo("can_baudrate"), Sdo("connection_lost_write_action"), Sdo("control_period"),
              Sdo("can_packet_id") >> \o MotorIds \o << Sdo("can_inst") >>)
    \o InOrder([m \in Motors |-> IfEnabled(i, m, MotorArgs(m, << "control_type" >>))])
    \o load_slave_info \o PubTopic \o SubTopic

SpeedPid == << "speed_pid_kp", "speed_pid_ki", "speed_pid_kd",
               "speed_pid_max_out", "speed_pid_max_iout" >>
AnglePid == << "angle_pid_kp", "angle_pid_ki", "angle_pid_kd",
               "angle_pid_max_out", "angle_pid_max_iout" >>

(* Mutant: position control forgets the outer loop.                         *)
DJI_MOTOR_controlSpeedOnly(i, m) ==
    LET type(values) == Is(i, OfMotor(m, "control_type"), values)
    IN Need(OfMotor(m, "control_type"), "uint8_t")
       \o (IF type({1}) THEN MotorArgs(m, << "control_type" >>) ELSE << >>)
       \o (IF type({2, 3}) THEN MotorArgs(m, << "control_type" >> \o SpeedPid) ELSE << >>)

(* An unknown control type gets no byte at all.                             *)
DJI_MOTOR_control(i, m) ==
    LET type(values) == Is(i, OfMotor(m, "control_type"), values)
        pids == (IF type({2, 3}) THEN SpeedPid ELSE << >>) \o (IF type({3}) THEN AnglePid ELSE << >>)
    IN Need(OfMotor(m, "control_type"), "uint8_t")
       \o (IF type({1, 2, 3}) THEN MotorArgs(m, << "control_type" >> \o pids) ELSE << >>)

DJI_MOTOR_init_sdo(i) ==
    BuildBuf(<< Sdo("connection_lost_write_action"), Sdo("control_period"), Sdo("can_packet_id") >>
           \o MotorIds \o << Sdo("can_inst") >>)
    \o InOrder([m \in Motors |-> IfEnabled(i, m, DJI_MOTOR_control(i, m))])
    \o load_slave_info \o PubTopic \o SubTopic

(* The control type selects the subscription; an unknown one gets none.     *)
SubTopicFor(i, types) ==
    Need(Sdo("control_type"), "uint8_t")
    \o (IF Is(i, Sdo("control_type"), types) THEN SubTopic ELSE << >>)

DM_MOTOR_init_sdo(i) ==
    Args(<< "connection_lost_write_action", "control_period", "can_id", "master_id",
            "can_inst", "control_type" >>)
    \o load_slave_info
    \o SubTopicFor(i, 1 .. 3)
    \o Default(<< "conf", "pmax" >>, "float") \o Need(<< "conf", "vmax" >>, "float")
    \o Need(<< "conf", "tmax" >>, "float") \o PubTopic

LK_BROADCAST == 8
LK_MOTOR_init_sdo(i) ==
    Need(Sdo("control_type"), "uint8_t")
    \o Args(<< "connection_lost_write_action", "control_period", "control_type" >>
            \o (IF Is(i, Sdo("control_type"), {LK_BROADCAST}) THEN << >> ELSE << "can_packet_id" >>)
            \o << "can_inst" >>)
    \o load_slave_info \o SubTopicFor(i, 1 .. LK_BROADCAST) \o PubTopic

SUPER_CAP_init_sdo ==
    Args(<< "connection_lost_write_action", "can_inst", "chassis_to_cap_id", "cap_to_chassis_id" >>)
    \o load_slave_info \o SubTopic \o PubTopic

InitValue == Need(Sdo("init_value"), "uint16_t")
DSHOT_init_sdo ==
    Args(<< "connection_lost_write_action", "dshot_id", "init_value" >>)
    \o load_slave_info \o InitValue \o SubTopic
ONBOARD_PWM_init_sdo ==
    Args(<< "connection_lost_write_action", "port_id", "pwm_period", "init_value" >>)
    \o load_slave_info \o InitValue \o SubTopic
EXTERNAL_PWM_init_sdo ==
    Args(<< "connection_lost_write_action", "uart_id", "pwm_period", "channel_num", "init_value" >>)
    \o load_slave_info \o InitValue \o Need(Sdo("channel_num"), "uint8_t") \o SubTopic

HIPNUC_IMU_CAN_init_sdo ==
    Args(<< "can_inst", "packet1_id", "packet2_id", "packet3_id" >>)
    \o load_slave_info \o Default(<< "conf", "frame_name" >>, "std::string") \o PubTopic
MS5837_30BA_init_sdo == Args(<< "i2c_id", "osr_id" >>) \o load_slave_info \o PubTopic
PMU_CAN_init_sdo == load_slave_info \o PubTopic
DBUS_RC_init_sdo == load_slave_info \o PubTopic
SBUS_RC_init_sdo == load_slave_info \o PubTopic
VT13_RC_init_sdo == load_slave_info \o PubTopic

(* The switch of init_task_list(): the task types there are a class for.    *)
TaskTypes == 1 .. 15 \ {9}
init_sdo(type, i) ==
    CASE type = 1 -> DBUS_RC_init_sdo
      [] type = 2 -> LK_MOTOR_init_sdo(i)
      [] type = 3 -> HIPNUC_IMU_CAN_init_sdo
      [] type = 4 -> DSHOT_init_sdo
      [] type = 5 -> DJI_MOTOR_init_sdo(i)
      [] type = 6 -> ONBOARD_PWM_init_sdo
      [] type = 7 -> EXTERNAL_PWM_init_sdo
      [] type = 8 -> MS5837_30BA_init_sdo
      [] type = 10 -> PMU_CAN_init_sdo
      [] type = 11 -> SBUS_RC_init_sdo
      [] type = 12 -> DM_MOTOR_init_sdo(i)
      [] type = 13 -> SUPER_CAP_init_sdo
      [] type = 14 -> VT13_RC_init_sdo
      [] type = 15 -> DD_MOTOR_init_sdo(i)

-----------------------------------------------------------------------------
Init ==
    /\ InitParser
    /\ arg = << >> /\ idx = 0 /\ beyond = FALSE
    /\ count = 0 /\ app = 0 /\ ops = << >> /\ built = << >>

ParseEntry == Parse /\ UNCHANGED <<arg, idx, beyond, count, app, ops, built>>

(* memcpy() at the index: the bytes that fit are in the buffer, the others  *)
(* are written behind it.                                                   *)
Written(buf, at, bytes) ==
    [k \in DOMAIN buf |-> IF k - at \in DOMAIN bytes THEN bytes[k - at] ELSE buf[k]]
Overrun(buf, at, bytes) == at + Len(bytes) > Len(buf)

Terminate == pc' = "terminated"

(* init_task_list() up to its loop.                                         *)
BeginTaskList ==
    /\ Loaded
    /\ IF \/ ~Has(OfSlave("sdo_len"), "uint16_t")
          \/ ~Has(OfSlave("latency_pub_topic"), "std::string")
          \/ ~Has(OfSlave("task_count"), "uint8_t")
       THEN Terminate /\ UNCHANGED <<arg, idx, beyond, count, app>>
       ELSE LET clear == [k \in 1 .. Value(OfSlave("sdo_len")) |-> NoByte]
                bytes == Bytes(OfSlave("task_count"))
            IN /\ count' = Value(OfSlave("task_count"))
               /\ IF count' = 0
                  THEN arg' = clear /\ pc' = "refused" /\ UNCHANGED <<idx, beyond, app>>
                  ELSE /\ arg' = Written(clear, 0, bytes)
                       /\ beyond' = Overrun(clear, 0, bytes)
                       /\ idx' = 1 /\ app' = 1 /\ pc' = "task"
    /\ UNCHANGED <<document, fields, todo, ops, built>>

(* Mutant: the index is moved by the length of the copy and then by one.    *)
BeginTaskTwice ==
    /\ pc = "task"
    /\ LET key == OfTask(app, Sdo("task_type"))
       IN IF ~Has(key, "uint8_t") \/ Value(key) \notin TaskTypes
          THEN Terminate /\ UNCHANGED <<arg, idx, beyond, ops>>
          ELSE /\ arg' = Written(arg, idx, Bytes(key))
               /\ beyond' = (beyond \/ Overrun(arg, idx, Bytes(key)))
               /\ idx' = idx + 2
               /\ ops' = init_sdo(Value(key), app)
               /\ pc' = "init_sdo"
    /\ UNCHANGED <<document, fields, todo, count, app, built>>

(* The loop: the type of the next task.  For a type without a class a null  *)
(* pointer is called.                                                       *)
BeginTask ==
    /\ pc = "task"
    /\ LET key == OfTask(app, Sdo("task_type"))
       IN IF ~Has(key, "uint8_t") \/ Value(key) \notin TaskTypes
          THEN Terminate /\ UNCHANGED <<arg, idx, beyond, ops>>
          ELSE /\ arg' = Written(arg, idx, Bytes(key))
               /\ beyond' = (beyond \/ Overrun(arg, idx, Bytes(key)))
               /\ idx' = idx + 1
               /\ ops' = init_sdo(Value(key), app)
               /\ pc' = "init_sdo"
    /\ UNCHANGED <<document, fields, todo, count, app, built>>

Doing(op) == pc = "init_sdo" /\ ops # << >> /\ Head(ops).op = op

(* build_buf(): the next field.                                             *)
AppendField ==
    /\ Doing("append")
    /\ LET key == OfTask(app, Head(ops).field)
       IN IF key \in DOMAIN fields
          THEN built' = built \o Bytes(key) /\ pc' = pc
          ELSE Terminate /\ UNCHANGED built
    /\ ops' = Tail(ops)
    /\ UNCHANGED <<document, fields, todo, arg, idx, beyond, count, app>>

(* Mutant: build_buf() does not begin at the front of its buffer again.     *)
CopyBuiltOn ==
    /\ Doing("copy")
    /\ arg' = Written(arg, idx, built)
    /\ beyond' = (beyond \/ Overrun(arg, idx, built))
    /\ idx' = idx + Len(built)
    /\ ops' = Tail(ops)
    /\ UNCHANGED <<document, fields, todo, pc, count, app, built>>

(* The copy of what build_buf() returns into arg_buf_, in one piece; the    *)
(* next build_buf() begins anew.                                            *)
CopyBuilt ==
    /\ Doing("copy")
    /\ arg' = Written(arg, idx, built)
    /\ beyond' = (beyond \/ Overrun(arg, idx, built))
    /\ idx' = idx + Len(built)
    /\ built' = << >>
    /\ ops' = Tail(ops)
    /\ UNCHANGED <<document, fields, todo, pc, count, app>>

(* get_field_as(): the default replaces a missing setting, not one of       *)
(* another type.                                                            *)
LookUp ==
    /\ Doing("need") \/ Doing("default")
    /\ LET key == OfTask(app, Head(ops).field)
       IN IF \/ Has(key, Head(ops).type)
             \/ Head(ops).op = "default" /\ key \notin DOMAIN fields
          THEN pc' = pc
          ELSE Terminate
    /\ ops' = Tail(ops)
    /\ UNCHANGED <<document, fields, todo, arg, idx, beyond, count, app, built>>

EndTask ==
    /\ pc = "init_sdo" /\ ops = << >>
    /\ IF app < count THEN app' = app + 1 /\ pc' = "task"
                      ELSE app' = app /\ pc' = "configured"
    /\ UNCHANGED <<document, fields, todo, arg, idx, beyond, count, ops, built>>

Next ==
    \/ ParseEntry \/ BeginTaskList \/ BeginTask \/ EndTask
    \/ AppendField \/ CopyBuilt \/ LookUp

Spec == Init /\ [][Next]_vars

-----------------------------------------------------------------------------
(* Properties.                                                              *)

(* Documents as load_initial_value_from_config() expects them: a list of    *)
(* slaves, each with settings, lists of tasks and other nodes, each task    *)
(* with settings.  A scalar has any tag and any value of V.                 *)
Keys == Seq(STRING)
Scalars(V) == [kind : {"scalar"}, tag : STRING, val : V]
Pairs(N) == [key : Keys, node : N]
Maps(E) == [kind : {"map"}, entries : Seq(E)]
Lists(N) == [kind : {"sequence"}, items : Seq(Maps(Pairs(N)))]
Others(V) == Maps(V) \cup [kind : {"null"}]

TaskSections(V) == Maps(Pairs(Scalars(V)))
SlaveSections(V) == Maps(Pairs(Scalars(V) \cup Lists(TaskSections(V)) \cup Others(V)))
SlaveLists(V) == Lists(SlaveSections(V))

(* The map of settings holds what the document says, under the name of the  *)
(* slave and of the task it says it of: no setting leaks to another slave   *)
(* or task, and of two that have one name the later holds.                  *)
SlaveMaps == FlattenSeq([i \in DOMAIN document.items |-> document.items[i].entries])
SettingsOf(path, map) ==
    FlattenSeq([k \in DOMAIN map.entries |->
        LET e == map.entries[k]
        IN CASE e.node.kind = "scalar" -> << [key |-> path \o e.key, node |-> e.node] >>
             [] e.node.kind = "sequence" ->
                  FlattenSeq([t \in DOMAIN e.node.items |->
                      FlattenSeq([n \in DOMAIN e.node.items[t].entries |->
                          LET task == e.node.items[t].entries[n]
                          IN [s \in DOMAIN task.node.entries |->
                                [key |-> path \o task.key \o task.node.entries[s].key,
                                 node |-> task.node.entries[s].node]]])])
             [] OTHER -> << >>])
Settings == FlattenSeq([i \in DOMAIN SlaveMaps |-> SettingsOf(SlaveMaps[i].key, SlaveMaps[i].node)])
LastOf(key) == Max({i \in DOMAIN Settings : Settings[i].key = key})

ParsedAsWritten ==
    Loaded /\ document.kind = "sequence" =>
        /\ DOMAIN fields = {Settings[i].key : i \in DOMAIN Settings}
        /\ \A key \in DOMAIN fields :
              fields[key] = [type |-> Settings[LastOf(key)].node.tag, val |-> Settings[LastOf(key)].node.val]

(* The argument settings of the tasks that are counted, and the bytes they  *)
(* take together with the task count: what the sample configurations give   *)
(* as sdo_len.                                                              *)
ArgumentKeys ==
    {key \in DOMAIN fields :
        /\ Len(key) >= 4 /\ key[1] = Slave /\ key[3] = "sdowrite"
        /\ \E i \in 1 .. count : key[2] = App[i]}
BytesOf(keys) ==
    {byte \in [of : keys, byte : 1 .. 4] : byte.byte <= Width(fields[byte.of].type)}
ArgumentBytes == 1 + Cardinality(BytesOf(ArgumentKeys))

(* With an sdo_len that counts every argument setting, nothing is ever      *)
(* written behind the end of arg_buf_, whatever is missing or mistyped.     *)
WithinBuffer == Len(arg) >= ArgumentBytes => ~beyond

(* The slave can take the arguments apart again: up to the index there is   *)
(* no gap, no byte twice and no field split, and the tasks follow each      *)
(* other in order, each led by its type.                                    *)
Sent == SubSeq(arg, 1, IF idx <= Len(arg) THEN idx ELSE Len(arg))
AppOf(byte) == CHOOSE i \in Tasks : byte.of[2] = App[i]

(* byte may follow prev, which is the task count if first.                  *)
Follows(first, prev, byte) ==
    IF byte.byte > 1
    THEN prev = [byte EXCEPT !.byte = @ - 1]
    ELSE /\ prev.byte = Width(fields[prev.of].type)
         /\ LET new == first \/ AppOf(byte) # AppOf(prev)
            IN /\ new <=> byte.of = OfTask(AppOf(byte), Sdo("task_type"))
               /\ new => AppOf(byte) = IF first THEN 1 ELSE AppOf(prev) + 1

ArgumentsInOrder ==
    /\ \A j \in DOMAIN Sent : Sent[j] # NoByte
    /\ \A j, k \in DOMAIN Sent : Sent[j] = Sent[k] => j = k
    /\ \A j \in 2 .. Len(Sent) : Follows(j = 2, Sent[j - 1], Sent[j])

(* Once a slave is configured, every argument setting of its tasks is in    *)
(* the buffer, except those that say nothing: of a motor that is not        *)
(* enabled, or of a control loop that its control type does not have.       *)
Idle(key) ==
    \E i \in 1 .. count : \E m \in Motors :
        /\ key \in {OfTask(i, OfMotor(m, name)) :
                      name \in {"control_type"} \cup ToSet(SpeedPid) \cup ToSet(AnglePid)}
        /\ \/ Is(i, OfMotor(m, "can_id"), {0})
           \/ Is(i, OfMotor(m, "control_type"), {1}) /\ key[5] \in ToSet(SpeedPid)
           \/ Is(i, OfMotor(m, "control_type"), {1, 2}) /\ key[5] \in ToSet(AnglePid)

ArgumentsComplete ==
    pc = "configured" =>
        \A key \in ArgumentKeys :
            Idle(key) \/ ToSet(Bytes(key)) \subseteq ToSet(Sent) \/ Len(arg) < ArgumentBytes

(* The sample configuration of docs/first-run-test.md starts.               *)
SampleStarts == pc # "terminated"
=============================================================================
