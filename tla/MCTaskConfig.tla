----------------------------- MODULE MCTaskConfig ------------------------------
(* Instances of TaskConfig for TLC: configuration documents.                *)
EXTENDS TaskConfig

MCApp == [i \in Tasks |-> "app_" \o ToString(i)]
MCMotor == << "motor1", "motor2", "motor3", "motor4" >>

U8(key, val) == Entry(key, Scalar("uint8_t", val))
U16(key, val) == Entry(key, Scalar("uint16_t", val))
U32(key, val) == Entry(key, Scalar("uint32_t", val))
Float(key) == Entry(key, Scalar("float", 0))
Text(key) == Entry(key, Scalar("std::string", 0))

Each(names, E(_)) == [k \in DOMAIN names |-> E(Sdo(names[k]))]
Bytes1(names) == Each(names, LAMBDA key : U8(key, 1))
Bytes2(names) == Each(names, LAMBDA key : U16(key, 300))
Bytes4(names) == Each(names, LAMBDA key : U32(key, 70000))

TopicIn == << Text(<< "sub_topic" >>) >>
TopicOut == << Text(<< "pub_topic" >>) >>
Offset(dir, at) == << U16(<< dir >>, at) >>
OnLoss == << U8(Sdo("connection_lost_write_action"), 2) >>
Type(id) == << U8(Sdo("task_type"), id) >>

(* Sections of tasks, complete ones.                                        *)
Receiver(id) == Type(id) \o TopicOut \o Offset("pdoread_offset", 4)
Imu == Type(3) \o Bytes1(<< "can_inst" >>) \o Bytes4(<< "packet1_id", "packet2_id", "packet3_id" >>)
       \o TopicOut
Depth == Type(8) \o Bytes1(<< "i2c_id", "osr_id" >>) \o TopicOut
Dshot == Type(4) \o OnLoss \o Bytes1(<< "dshot_id" >>) \o Bytes2(<< "init_value" >>) \o TopicIn
Onboard == Type(6) \o OnLoss \o Bytes1(<< "port_id" >>) \o Bytes2(<< "pwm_period", "init_value" >>) \o TopicIn
External == Type(7) \o OnLoss \o Bytes1(<< "uart_id", "channel_num" >>)
            \o Bytes2(<< "pwm_period", "init_value" >>) \o TopicIn
Cap == Type(13) \o OnLoss \o Bytes1(<< "can_inst" >>)
       \o Bytes4(<< "chassis_to_cap_id", "cap_to_chassis_id" >>) \o TopicIn \o TopicOut
Lk(control) ==
    Type(2) \o OnLoss \o Bytes2(<< "control_period" >>) \o << U8(Sdo("control_type"), control) >>
    \o (IF control = 8 THEN << >> ELSE Bytes4(<< "can_packet_id" >>))
    \o Bytes1(<< "can_inst" >>) \o TopicIn \o TopicOut
Dm == Type(12) \o OnLoss \o Bytes2(<< "control_period", "can_id", "master_id" >>)
      \o Bytes1(<< "can_inst", "control_type" >>) \o TopicIn \o TopicOut
      \o << Float(<< "conf", "vmax" >>), Float(<< "conf", "tmax" >>) >>

(* ids[m] = 0: the motor is not enabled; types[m]: its control type.        *)
CanMotors(ids) ==
    OnLoss \o Bytes2(<< "control_period" >>) \o Bytes4(<< "can_packet_id" >>) \o Bytes1(<< "can_inst" >>)
    \o [m \in 1 .. 4 |-> U32(OfMotor(m, "can_id"), ids[m])]
ControlTypes(types) == [m \in 1 .. 4 |-> U8(OfMotor(m, "control_type"), types[m])]
Pids(m, names) == [k \in DOMAIN names |-> Float(OfMotor(m, names[k]))]
Dji == Type(5) \o CanMotors(<< 1, 0, 3, 4 >>) \o ControlTypes(<< 3, 2, 2, 1 >>)
       \o Pids(1, SpeedPid) \o Pids(1, AnglePid) \o Pids(3, SpeedPid)
       \o TopicIn \o TopicOut
Dd == Type(15) \o CanMotors(<< 513, 514, 0, 0 >>) \o Bytes1(<< "can_baudrate" >>)
      \o ControlTypes(<< 1, 2, 1, 1 >>) \o TopicIn \o TopicOut

-----------------------------------------------------------------------------
(* A slave with its tasks; and two slaves around it that are to be left out *)
(* of account.                                                              *)
Section(name, len, n, sections) ==
    Entry(<< name >>, Map(
        << U16(<< "sdo_len" >>, len), U8(<< "task_count" >>, n), Text(<< "latency_pub_topic" >>),
           Entry(<< "tasks" >>, List([i \in DOMAIN sections |->
               Map(<< Entry(<< MCApp[i] >>, Map(sections[i])) >>)])),
           Entry(<< "note" >>, [kind |-> "null"]) >>))
Other(name) == Section(name, 9, 1, << Onboard >>)
Doc(len, n, sections) ==
    List(<< Map(<< Other("sn7") >>), Map(<< Section("sn1", len, n, sections), Other("sn8") >>) >>)

(* The bytes of the sections' arguments, with the task count.               *)
SizeOf(sections) ==
    LET all == FlattenSeq(sections)
        args == SelectSeq(all, LAMBDA e : e.key[1] = "sdowrite")
    IN FoldSeq(LAMBDA e, sum : sum + Width(e.node.tag), 1, args)
Fitting(sections) == Doc(SizeOf(sections), Len(sections), sections)

Without(section, name) == SelectSeq(section, LAMBDA e : e.key # name)

Complete ==
    {Fitting(<< Imu, Dji, Receiver(1) >>), Fitting(<< Dd, Depth, Dshot >>),
     Fitting(<< Onboard, External, Receiver(10), Cap >>),
     Fitting(<< Lk(3), Lk(8), Receiver(11), Dm, Receiver(14) >>),
     Doc(60, 2, << Dshot, Dshot, Imu >>)}

(* The sample of config/config.yaml.                                        *)
SampleDshot == Type(4) \o Bytes2(<< "dshot_id", "init_value" >>) \o TopicIn \o Offset("pdowrite_offset", 0)

(* Missing, mistyped, unknown, doubled, too short.                          *)
Faulty ==
    {Fitting(<< Without(s, name), Depth >>) :
        s \in {Dji, Dd, Dm, External}, name \in {Sdo("control_type"), << "sub_topic" >>, OfMotor(3, "can_id"),
                                                OfMotor(1, "control_type"), << "conf", "tmax" >>}}
    \cup {Fitting(<< Depth, Dshot \o Bytes1(<< "init_value" >>) >>),
          Fitting(<< Dshot \o Bytes2(<< "dshot_id" >>) \o << U8(<< "pdowrite_offset" >>, 3) >>, Depth >>),
          Fitting(<< Dm \o << U8(<< "conf", "pmax" >>, 3) >> >>),
          Doc(6, 1, << SampleDshot >>), Fitting(<< Type(9) >>), Fitting(<< << >> >>), Fitting(<< Imu, Receiver(4) >>),
          Doc(4, 2, << Cap, Dshot >>), Doc(0, 1, << Depth >>), Doc(9, 0, << >>),
          List(<< Map(<< Other("sn2") >>) >>), [kind |-> "null"],
          Doc(30, 2, << Imu, << Entry(Sdo("task_type"), Scalar("bool", 1)) >> >>),
          Fitting(<< Imu, << U8(Sdo("task_type"), 300) >> >>)}

MCDocuments == Complete \cup Faulty

(* The sample of docs/first-run-test.md:29.                                 *)
SampleImu == Type(3) \o TopicOut \o Offset("pdoread_offset", 0)
MCSample == {List(<< Map(<< Section("sn1", 2, 1, << SampleImu >>) >>) >>)}

(* These documents are of the form of which the parser's theorem speaks.    *)
ASSUME DocumentsAreSlaveLists ==
    \A d \in MCDocuments \cup MCSample : d.kind = "sequence" => d \in SlaveLists(Int)
=============================================================================
