--------------------------- MODULE EcatMaster_proofs ---------------------------
(***************************************************************************)
(* Theorems about EcatMaster, for every number of slaves, every set of      *)
(* tasks and commands, every argument length and every fault model: first   *)
(* what holds of a slave without faults of its own, then of slaves that     *)
(* fail and recover; last the exchange of arguments: what a slave is        *)
(* configured with, and that EcatMaster implements ArgTransfer.             *)
(***************************************************************************)
EXTENDS EcatMaster, SlaveDevice_proofs, TLAPS

USE TasksAssumption, CmdsAssumption, ArgLenAssumption, MaxStatusAssumption,
    ReconnectAssumption, NumSlavesAssumption, FaultsAssumption

-----------------------------------------------------------------------------
(* The slave's own changes.                                                 *)
LEMMA OutputTypes ==
    /\ NoOutputs \in Outputs
    /\ \A d \in Devices : [stat |-> d.mstat, buf |-> d.m2s] \in Outputs
  <1>1. NoOutputs \in Outputs
    BY ContentTypes, Ranges DEF NoOutputs, Outputs
  <1>2. \A d \in Devices : d.mstat \in 0 .. MaxStatus /\ d.m2s \in Buffers
    BY DEF Devices
  <1> QED
    BY <1>1, <1>2 DEF Outputs

LEMMA ALTypes ==
    /\ INIT \in ALStates /\ SAFE_OP \in ALStates /\ OP \in ALStates
    /\ PRE_OP \in ALStates /\ SAFE_OP_ERROR \in ALStates
    /\ \A h \in Hardware : ALSeen(h) \in ALStates \cup {NONE}
    /\ \A h \in Hardware : h.al \in ALStates
  BY DEF ALStates, Hardware, ALSeen

LEMMA HardwareTypes ==
    ASSUME NEW h \in Hardware
    PROVE  /\ \A a \in ALStates : [h EXCEPT !.al = a] \in Hardware
           /\ \A b \in BOOLEAN : /\ [h EXCEPT !.link = b] \in Hardware
                                /\ [h EXCEPT !.power = b] \in Hardware
                                /\ [h EXCEPT !.addr = b] \in Hardware
                                /\ [h EXCEPT !.own = b] \in Hardware
                                /\ [h EXCEPT !.fit = b] \in Hardware
           /\ \A o \in Outputs : [h EXCEPT !.rx = o] \in Hardware
           /\ Restarted(h) \in Hardware
           /\ [Restarted(h) EXCEPT !.power = FALSE, !.addr = FALSE] \in Hardware
  <1>1. \A a \in ALStates : [h EXCEPT !.al = a] \in Hardware
    BY DEF Hardware
  <1>2. \A b \in BOOLEAN : /\ [h EXCEPT !.link = b] \in Hardware
                         /\ [h EXCEPT !.power = b] \in Hardware
                         /\ [h EXCEPT !.addr = b] \in Hardware
                         /\ [h EXCEPT !.own = b] \in Hardware
                         /\ [h EXCEPT !.fit = b] \in Hardware
    BY DEF Hardware
  <1>3. \A o \in Outputs : [h EXCEPT !.rx = o] \in Hardware
    BY DEF Hardware
  <1>4. NoArgs \in [1 .. ArgLen -> {"none", "good", "bad"}]
    BY DEF NoArgs
  <1>5. Restarted(h) \in Hardware
    BY <1>4, ContentTypes, OutputTypes, ALTypes, Ranges DEF Restarted, Hardware
  <1>6. \A g \in Hardware : [g EXCEPT !.power = FALSE, !.addr = FALSE] \in Hardware
    BY DEF Hardware
  <1> QED
    BY <1>1, <1>2, <1>3, <1>5, <1>6

-----------------------------------------------------------------------------
(* The type invariant.                                                      *)
LEMMA InitType == Init => TypeOK
  <1> SUFFICES ASSUME Init PROVE TypeOK
    OBVIOUS
  <1>1. FreshDevice \in Devices
    BY ContentTypes, Ranges DEF FreshDevice, Devices
  <1>2. NoArgs \in [1 .. ArgLen -> {"none", "good", "bad"}]
    BY DEF NoArgs
  <1>3. FreshHardware \in Hardware
    BY <1>2, ContentTypes, OutputTypes, ALTypes, Ranges DEF FreshHardware, Hardware
  <1>4. [stat |-> SLAVE_INITIALIZING, echo |-> Zero] \in Inputs
    BY ContentTypes, Ranges DEF Inputs
  <1>5. Const(InitVal) \in Buffers
    BY ContentTypes
  <1>6. 1 \in Slaves /\ OP \in ALStates
    BY ALTypes DEF Slaves
  <1>7. /\ dev \in [Slaves -> Devices] /\ hw \in [Slaves -> Hardware]
        /\ inp \in [Slaves -> Inputs] /\ out \in [Slaves -> Outputs]
        /\ latest \in [Slaves -> Buffers] /\ atLoss \in [Slaves -> Buffers]
    BY <1>1, <1>3, <1>4, <1>5, OutputTypes DEF Init
  <1>8. /\ obs \in [Slaves -> ALStates \cup {NONE}]
        /\ islost \in [Slaves -> BOOLEAN]
        /\ wkcOk \in BOOLEAN /\ docheck \in BOOLEAN
    BY <1>6 DEF Init
  <1>9. /\ dcur \in Slaves /\ ccur \in Slaves
        /\ cyc \in 0 .. 2 /\ faults \in 0 .. MaxFaults
    BY <1>6 DEF Init
  <1> QED
    BY <1>7, <1>8, <1>9 DEF Init, TypeOK

LEMMA AdvanceType ==
    ASSUME TypeOK,
           NEW here, NEW next \in {"receive", "process", "transfer", "exchange"},
           Advance(here, next)
    PROVE  /\ dcur' \in Slaves
           /\ dpc' \in {"receive", "process", "transfer", "exchange"}
  BY DEF TypeOK, Advance, Slaves

LEMMA DataType ==
    ASSUME TypeOK, DataThread
    PROVE  TypeOK'
  <1>1. CASE ReceiveSlave
    <2>1. \A i \in Inputs : i.stat \in 0 .. MaxStatus /\ i.echo \in InContent
      BY DEF Inputs
    <2>2. dev' \in [Slaves -> Devices]
      BY <1>1, <2>1, ReceiveType DEF TypeOK, ReceiveSlave
    <2> QED
      BY <1>1, <2>2, AdvanceType DEF ReceiveSlave, TypeOK, checker, history
  <1>2. CASE ProcessOne
    <2>1. dev' \in [Slaves -> Devices]
      BY <1>2, ProcessSlaveType DEF TypeOK, ProcessOne
    <2> QED
      BY <1>2, <2>1, AdvanceType DEF ProcessOne, TypeOK, checker, history
  <1>3. CASE TransferSlave
    <2>1. out' \in [Slaves -> Outputs]
      BY <1>3, OutputTypes DEF TypeOK, TransferSlave
    <2> QED
      BY <1>3, <2>1, AdvanceType DEF TransferSlave, TypeOK, checker, history
  <1>4. ASSUME NEW lost \in {"no", "out", "back"}, Exchange(lost)
        PROVE  TypeOK'
    <2>1. hw' \in [Slaves -> Hardware]
      BY <1>4, HardwareTypes DEF TypeOK, Exchange
    <2>2. inp' \in [Slaves -> Inputs]
      <3>1. \A h \in Hardware : [stat |-> h.stat, echo |-> h.echo] \in Inputs
        BY DEF Hardware, Inputs
      <3> QED
        BY <1>4, <3>1 DEF TypeOK, Exchange
    <2>3. cyc' \in 0 .. 2 /\ faults' \in 0 .. MaxFaults /\ wkcOk' \in BOOLEAN
      BY <1>4 DEF TypeOK, Exchange
    <2> QED
      BY <1>4, <2>1, <2>2, <2>3 DEF Exchange, TypeOK, checker, history
  <1> QED
    BY <1>1, <1>2, <1>3, <1>4 DEF DataThread

(* What the two cursor operators of the checker leave behind.               *)
CheckerPlaces ==
    {"sleep", "check", "op", "reconfig", "configured", "failed",
     "tail", "recover", "recovering"}

LEMMA NextSlaveType ==
    ASSUME TypeOK, NextSlave
    PROVE  cpc' \in CheckerPlaces /\ ccur' \in Slaves /\ cyc' \in 0 .. 2
  BY DEF TypeOK, NextSlave, CheckerPlaces, Slaves

LEMMA GotoType ==
    ASSUME TypeOK, NEW pc \in CheckerPlaces, Goto(pc)
    PROVE  cpc' \in CheckerPlaces /\ ccur' \in Slaves /\ cyc' \in 0 .. 2
  BY DEF TypeOK, Goto, CheckerPlaces

LEMMA CheckBranchType ==
    ASSUME TypeOK, NEW s \in Slaves,
           \/ CheckOperational(s) \/ CheckSafeOp(s) \/ RequestOp(s)
           \/ CheckInit(s) \/ CheckLost(s) \/ CheckOther(s)
    PROVE  TypeOK'
  <1>1. dev[s] \in Devices /\ hw[s] \in Hardware
    BY DEF TypeOK
  <1>2. CASE CheckOperational(s)
    BY <1>2, GotoType DEF CheckOperational, TypeOK, master, history, CheckerPlaces
  <1>3. CASE CheckSafeOp(s)
    <2>1. dev' \in [Slaves -> Devices]
      BY <1>1, <1>3, CheckerTypes DEF CheckSafeOp, TypeOK
    <2> QED
      BY <1>3, <2>1, GotoType DEF CheckSafeOp, TypeOK, master, history, CheckerPlaces
  <1>4. CASE RequestOp(s)
    <2>1. (IF Reachable(hw[s]) /\ hw[s].al = SAFE_OP THEN OP ELSE hw[s].al) \in ALStates
      BY <1>1, ALTypes
    <2>2. hw' \in [Slaves -> Hardware]
      BY <1>1, <1>4, <2>1, HardwareTypes DEF RequestOp, TypeOK
    <2>3. obs' \in [Slaves -> ALStates \cup {NONE}]
      BY <1>4, <2>2, ALTypes DEF RequestOp, TypeOK
    <2> QED
      BY <1>4, <2>2, <2>3, GotoType DEF RequestOp, TypeOK, master, history, CheckerPlaces
  <1>5. CASE CheckInit(s)
    <2>1. obs' \in [Slaves -> ALStates \cup {NONE}]
      BY <1>1, <1>5, ALTypes DEF CheckInit, TypeOK
    <2> QED
      BY <1>5, <2>1, GotoType DEF CheckInit, TypeOK, master, history, CheckerPlaces
  <1>6. CASE CheckLost(s)
    <2>1. dev' \in [Slaves -> Devices]
      BY <1>1, <1>6, CheckerTypes DEF CheckLost, TypeOK
    <2>2. \A buf \in Buffers : Forget(buf) \in Buffers
      BY ContentTypes DEF Forget, Buffers
    <2>3. latest' \in [Slaves -> Buffers] /\ atLoss' \in [Slaves -> Buffers]
      BY <1>1, <1>6, <2>2 DEF CheckLost, TypeOK, Devices
    <2> QED
      BY <1>6, <2>1, <2>3, GotoType DEF CheckLost, TypeOK, master, CheckerPlaces
  <1>7. CASE CheckOther(s)
    BY <1>7, GotoType DEF CheckOther, TypeOK, master, history, CheckerPlaces
  <1> QED
    BY <1>2, <1>3, <1>4, <1>5, <1>6, <1>7

(* One slave's hardware changes.                                            *)
LEMMA HardwareUpdate ==
    ASSUME TypeOK, NEW s \in Slaves, NEW h \in Hardware
    PROVE  [hw EXCEPT ![s] = h] \in [Slaves -> Hardware]
  BY DEF TypeOK

LEMMA ReconfigType ==
    ASSUME TypeOK, NEW s \in Slaves, Reconfig(s) \/ AfterReconfig(s)
    PROVE  TypeOK'
  <1>1. dev[s] \in Devices /\ hw[s] \in Hardware
    BY DEF TypeOK
  <1>2. \A i \in Identities : [dev EXCEPT ![s] = ReInit(dev[s], i)] \in [Slaves -> Devices]
    BY <1>1, CheckerTypes DEF TypeOK
  <1>3. CASE Reconfig(s)
    <2>1. dev' \in [Slaves -> Devices]
      <3>1. \/ dev' = dev
            \/ \E own, fit : dev' = [dev EXCEPT ![s] = ReInit(dev[s], Identity(own, fit))]
        BY <1>3, Zenon DEF Reconfig, LostOnTheWay
      <3>2. \A own, fit : Identity(own, fit) \in Identities
        BY DEF Identity, Identities
      <3> QED
        BY <1>2, <3>1, <3>2 DEF TypeOK
    <2>2. hw' \in [Slaves -> Hardware]
      <3> DEFINE h(a) == [hw[s] EXCEPT !.al = a]
      <3>1. \A a \in ALStates : h(a) \in Hardware
        BY <1>1, HardwareTypes
      <3>2. hw' = hw \/ \E a \in ALStates : hw' = [hw EXCEPT ![s] = h(a)]
        BY <1>3, ALTypes DEF Reconfig, LostOnTheWay
      <3> HIDE DEF h
      <3>3. CASE hw' = hw
        BY <3>3 DEF TypeOK
      <3>4. CASE \E a \in ALStates : hw' = [hw EXCEPT ![s] = h(a)]
        BY <3>1, <3>4, HardwareUpdate
      <3> QED
        BY <3>2, <3>3, <3>4
    <2>3. obs' \in [Slaves -> ALStates \cup {NONE}] /\ faults' \in 0 .. MaxFaults
      <3>1. obs' = [obs EXCEPT ![s] = SAFE_OP] \/ obs' = [obs EXCEPT ![s] = NONE]
        BY <1>3, Zenon DEF Reconfig
      <3>2. faults' = faults \/ (faults < MaxFaults /\ faults' = faults + 1)
        BY <1>3, Zenon DEF Reconfig
      <3>3. faults' \in 0 .. MaxFaults
        BY <3>2 DEF TypeOK
      <3> QED
        BY <3>1, <3>3, ALTypes DEF TypeOK
    <2>4. cpc' \in CheckerPlaces /\ ccur' \in Slaves /\ cyc' \in 0 .. 2
      BY <1>3, GotoType DEF Reconfig, CheckerPlaces
    <2> QED
      BY <1>3, <2>1, <2>2, <2>3, <2>4 DEF Reconfig, TypeOK, master, history, CheckerPlaces
  <1>4. CASE AfterReconfig(s)
    <2>1. dev' \in [Slaves -> Devices]
      BY <1>1, <1>4, CheckerTypes DEF AfterReconfig, TypeOK
    <2>2. (IF Reachable(hw[s]) THEN INIT ELSE hw[s].al) \in ALStates
      BY <1>1, ALTypes
    <2>3. hw' \in [Slaves -> Hardware]
      <3> DEFINE a == IF Reachable(hw[s]) THEN INIT ELSE hw[s].al
                 h == [hw[s] EXCEPT !.al = a]
      <3>1. h \in Hardware
        <4> HIDE DEF a
        <4>1. a \in ALStates
          BY <2>2 DEF a
        <4> QED
          BY <1>1, <4>1, HardwareTypes
      <3>2. hw' = hw \/ hw' = [hw EXCEPT ![s] = h]
        BY <1>4, Zenon DEF AfterReconfig
      <3> HIDE DEF h
      <3>3. CASE hw' = hw
        BY <3>3 DEF TypeOK
      <3>4. CASE hw' = [hw EXCEPT ![s] = h]
        BY <3>1, <3>4, HardwareUpdate
      <3> QED
        BY <3>2, <3>3, <3>4
    <2>4. obs' \in [Slaves -> ALStates \cup {NONE}] /\ islost' \in [Slaves -> BOOLEAN]
      BY <1>4, ALTypes DEF AfterReconfig, TypeOK
    <2> QED
      BY <1>4, <2>1, <2>3, <2>4, GotoType
      DEF AfterReconfig, TypeOK, master, history, CheckerPlaces
  <1> QED
    BY <1>3, <1>4

LEMMA TailType ==
    ASSUME TypeOK, NEW s \in Slaves,
           \/ TailNotLost(s) \/ TailRecover(s) \/ TailFound(s)
           \/ RecoverFirstWrite(s) \/ RecoverSecondWrite(s)
    PROVE  TypeOK'
  <1>1. dev[s] \in Devices /\ hw[s] \in Hardware
    BY DEF TypeOK
  <1>2. CASE TailNotLost(s)
    BY <1>2, NextSlaveType DEF TailNotLost, TypeOK, master, history, CheckerPlaces
  <1>3. CASE TailRecover(s)
    <2>1. hw' \in [Slaves -> Hardware]
      BY <1>1, <1>3, HardwareTypes DEF TailRecover, TypeOK
    <2>2. cpc' \in CheckerPlaces /\ ccur' \in Slaves /\ cyc' \in 0 .. 2
      BY <1>3, GotoType, NextSlaveType DEF TailRecover, CheckerPlaces
    <2>3. islost' \in [Slaves -> BOOLEAN]
      BY <1>3 DEF TailRecover, TypeOK
    <2> QED
      BY <1>3, <2>1, <2>2, <2>3 DEF TailRecover, TypeOK, master, history, CheckerPlaces
  <1>4. CASE TailFound(s)
    <2>1. dev' \in [Slaves -> Devices] /\ islost' \in [Slaves -> BOOLEAN]
      BY <1>1, <1>4, CheckerTypes DEF TailFound, TypeOK
    <2> QED
      BY <1>4, <2>1, NextSlaveType DEF TailFound, TypeOK, master, history, CheckerPlaces
  <1>5. CASE RecoverFirstWrite(s)
    <2>1. \A d \in Devices : /\ [d EXCEPT !.ready = TRUE] \in Devices
                            /\ [d EXCEPT !.confRos = TRUE] \in Devices
      BY DEF Devices
    <2>2. dev' \in [Slaves -> Devices]
      BY <1>1, <1>5, <2>1 DEF RecoverFirstWrite, TypeOK
    <2> QED
      BY <1>5, <2>2, GotoType DEF RecoverFirstWrite, TypeOK, master, history, CheckerPlaces
  <1>6. CASE RecoverSecondWrite(s)
    <2>1. dev' \in [Slaves -> Devices]
      BY <1>1, <1>6, CheckerTypes DEF RecoverSecondWrite, TypeOK
    <2> QED
      BY <1>6, <2>1, NextSlaveType DEF RecoverSecondWrite, TypeOK, master, history, CheckerPlaces
  <1> QED
    BY <1>2, <1>3, <1>4, <1>5, <1>6

LEMMA WakeType ==
    ASSUME TypeOK, Wake
    PROVE  TypeOK'
  <1>1. obs' \in [Slaves -> ALStates \cup {NONE}]
    BY ALTypes DEF Wake, TypeOK
  <1>2. cpc' \in CheckerPlaces /\ cyc' \in 0 .. 2
    BY DEF Wake, CheckerPlaces
  <1>3. docheck' \in BOOLEAN
    BY Zenon DEF Wake
  <1> QED
    BY <1>1, <1>2, <1>3 DEF Wake, TypeOK, master, history, CheckerPlaces

LEMMA CommandType ==
    ASSUME TypeOK, NEW s \in Slaves, NEW t \in Tasks, NEW c \in Cmds, Command(s, t, c)
    PROVE  TypeOK'
  <1>1. dev' \in [Slaves -> Devices]
    BY OnCommandType DEF Command, TypeOK
  <1>2. latest' \in [Slaves -> Buffers]
    <2>1. \A buf \in Buffers : [buf EXCEPT ![t] = Cmd(c)] \in Buffers
      BY ContentTypes DEF Buffers
    <2> QED
      BY <2>1 DEF Command, TypeOK
  <1> QED
    BY <1>1, <1>2 DEF Command, TypeOK, master, checker

(* The slave, its faults and its repairs change hw (and count faults).      *)
LEMMA SlaveType ==
    ASSUME TypeOK, NEW s \in Slaves, Firmware(s) \/ Fault(s) \/ Repair(s)
    PROVE  TypeOK'
  <1>1. hw[s] \in Hardware
    BY DEF TypeOK
  <1>2. CASE Firmware(s)
    <2>1. \A h \in Hardware : \A i \in 1 .. ArgLen : \A v \in {"good", "bad"} :
              \A e \in InContent :
              [h EXCEPT !.args = [h.args EXCEPT ![i] = v], !.echo = e] \in Hardware
      BY DEF Hardware
    <2>2. \A h \in Hardware : \A n \in 1 .. MaxStatus : \A e \in InContent :
              /\ [h EXCEPT !.stat = n] \in Hardware
              /\ [h EXCEPT !.stat = n, !.echo = e] \in Hardware
      BY DEF Hardware
    <2>3. CASE TakeArg(s)
      <3> DEFINE h(i, v, e) == [hw[s] EXCEPT !.args = [@ EXCEPT ![i] = v], !.echo = e]
      <3>1. \A i \in 1 .. ArgLen : \A v \in {"good", "bad"} : \A e \in InContent :
                h(i, v, e) \in Hardware
        BY <1>1, <2>1
      <3>2. \/ \E i \in 1 .. ArgLen : hw' = [hw EXCEPT ![s] = h(i, "good", Arg(i))]
            \/ \E i \in 1 .. ArgLen : hw' = [hw EXCEPT ![s] = h(i, "bad", Junk)]
        BY <1>1, <2>3 DEF TakeArg, TypeOK
      <3>3. hw' \in [Slaves -> Hardware]
        <4> HIDE DEF h
        <4>1. \A i \in 1 .. ArgLen : Arg(i) \in InContent /\ Junk \in InContent
          BY ContentTypes
        <4> QED
          BY <3>1, <3>2, <4>1, HardwareUpdate
      <3> QED
        BY <2>3, <3>3 DEF TakeArg, TypeOK, master, checker, history
    <2>4. CASE ReportReady(s)
      <3>1. hw' = [hw EXCEPT ![s] = [hw[s] EXCEPT !.stat = SLAVE_READY]]
        BY <2>4 DEF ReportReady
      <3>2. \A n \in 1 .. MaxStatus : [hw[s] EXCEPT !.stat = n] \in Hardware
        BY <1>1 DEF Hardware
      <3>3. SLAVE_READY \in 1 .. MaxStatus
        BY Ranges
      <3>4. [hw[s] EXCEPT !.stat = SLAVE_READY] \in Hardware
        BY <3>2, <3>3, Zenon
      <3>5. hw' \in [Slaves -> Hardware]
        BY <3>1, <3>4, HardwareUpdate
      <3> QED
        BY <2>4, <3>5 DEF ReportReady, TypeOK, master, checker, history
    <2>5. CASE EchoStatus(s)
      <3>1. hw[s].rx.stat \in 1 .. MaxStatus
        BY <1>1, <2>5 DEF EchoStatus, Driven, MASTER_READY, Hardware, Outputs
      <3>2. hw' \in [Slaves -> Hardware]
        BY <1>1, <2>2, <2>5, <3>1, ContentTypes DEF EchoStatus, TypeOK
      <3> QED
        BY <2>5, <3>2 DEF EchoStatus, TypeOK, master, checker, history
    <2> QED
      BY <1>2, <2>3, <2>4, <2>5 DEF Firmware
  <1>3. CASE Fault(s)
    <2>1. hw' \in [Slaves -> Hardware]
      <3>1. CASE Unplug(s)
        BY <1>1, <3>1, HardwareTypes, HardwareUpdate DEF Unplug
      <3>4. CASE FallToSafeOp(s) \/ Watchdog(s)
        <4>1. /\ [hw[s] EXCEPT !.al = SAFE_OP] \in Hardware
              /\ [hw[s] EXCEPT !.al = SAFE_OP_ERROR] \in Hardware
          BY <1>1, HardwareTypes, ALTypes, Zenon
        <4>2. \/ hw' = [hw EXCEPT ![s] = [hw[s] EXCEPT !.al = SAFE_OP]]
              \/ hw' = [hw EXCEPT ![s] = [hw[s] EXCEPT !.al = SAFE_OP_ERROR]]
          BY <3>4, Zenon DEF FallToSafeOp, Watchdog
        <4> QED
          BY <4>1, <4>2, HardwareUpdate, Zenon
      <3>2. CASE PowerOff(s) \/ McuReset(s)
        BY <1>1, <3>2, HardwareTypes DEF PowerOff, McuReset, TypeOK
      <3>3. CASE Swap(s)
        <4>1. \E b \in BOOLEAN : hw' = [hw EXCEPT ![s] = [hw[s] EXCEPT !.own = b]]
          BY <3>3 DEF Swap
        <4> QED
          BY <1>1, <4>1, HardwareTypes DEF TypeOK
      <3>5. CASE Reflash(s)
        <4>1. \E b \in BOOLEAN : hw' = [hw EXCEPT ![s] = [hw[s] EXCEPT !.fit = b]]
          BY <3>5 DEF Reflash
        <4> QED
          BY <1>1, <4>1, HardwareTypes DEF TypeOK
      <3> QED
        BY <1>3, <3>1, <3>2, <3>3, <3>4, <3>5 DEF Fault
    <2>2. \E kind \in FaultKinds : Strike(kind, s)
      BY <1>3 DEF Fault, Unplug, PowerOff, Swap, Reflash, McuReset, FallToSafeOp, Watchdog, Strike
    <2> QED
      BY <2>1, <2>2 DEF Strike, TypeOK, master, checker, history
  <1>4. CASE Repair(s)
    <2>1. hw' \in [Slaves -> Hardware]
      BY <1>1, <1>4, HardwareTypes DEF Repair, TypeOK
    <2> QED
      BY <1>4, <2>1 DEF Repair, TypeOK, master, checker, history
  <1> QED
    BY <1>2, <1>3, <1>4

LEMMA NextType == TypeOK /\ [Next]_vars => TypeOK'
  <1> SUFFICES ASSUME TypeOK, [Next]_vars PROVE TypeOK'
    OBVIOUS
  <1>1. CASE DataThread
    BY <1>1, DataType
  <1>2. CASE CheckerThread
    BY <1>2, WakeType, CheckBranchType, ReconfigType, TailType DEF CheckerThread, CheckSlave
  <1>3. ASSUME NEW s \in Slaves, NEW t \in Tasks, NEW c \in Cmds, Command(s, t, c)
        PROVE  TypeOK'
    BY <1>3, CommandType
  <1>4. ASSUME NEW s \in Slaves, Firmware(s) \/ Fault(s) \/ Repair(s)
        PROVE  TypeOK'
    BY <1>4, SlaveType
  <1>5. CASE UNCHANGED vars
    BY <1>5 DEF TypeOK, vars, master, checker, history
  <1> QED
    BY <1>1, <1>2, <1>3, <1>4, <1>5 DEF Next

(* Type correctness: for every configuration and every fault model the      *)
(* argument index stays inside arg_buf_ and the status counter inside its   *)
(* protocol range.                                                          *)
THEOREM TypeCorrect == Spec => []TypeOK
  BY InitType, NextType, PTL DEF Spec

-----------------------------------------------------------------------------
(* Hot recovery is local.  What a slave without faults of its own keeps:    *)
(* it answers in OP, the checker has never seen it otherwise, and so never  *)
(* gets past the first test for it.                                         *)
Healthy(s) ==
    /\ hw[s].power = TRUE /\ hw[s].link = TRUE /\ hw[s].addr = TRUE
    /\ hw[s].al = OP
    /\ obs[s] = OP /\ islost[s] = FALSE
    /\ ccur = s => cpc \in {"sleep", "check", "tail"}

HealthyInv == \A s \in Slaves \ FaultySlaves : Healthy(s)

LEMMA ALDistinct ==
    /\ OP # NONE /\ OP # INIT /\ OP # SAFE_OP /\ OP # SAFE_OP_ERROR
    /\ OP # PRE_OP
  BY DEF OP, PRE_OP, NONE, INIT, SAFE_OP, SAFE_OP_ERROR

(* A checker step for a slave x: of a healthy one it only goes on, another  *)
(* one's is none of a healthy slave's business.                             *)
LEMMA HealthyChecker ==
    ASSUME TypeOK, HealthyInv, NEW s \in Slaves \ FaultySlaves, NEW x \in Slaves,
           CheckSlave(x)
    PROVE  /\ Healthy(s)'
           /\ dev'[s] = dev[s] /\ hw'[s] = hw[s]
           /\ latest'[s] = latest[s] /\ atLoss'[s] = atLoss[s]
  <1>1. Healthy(s)
    BY DEF HealthyInv
  <1>2. CASE x = s
    <2>1. CheckOperational(s) \/ TailNotLost(s)
      BY <1>1, <1>2, ALDistinct
      DEF CheckSlave, Healthy, At, CheckSafeOp, RequestOp, CheckInit,
      Reconfig, LostOnTheWay,
          AfterReconfig, CheckLost, CheckOther, TailRecover, TailFound,
          RecoverFirstWrite, RecoverSecondWrite
    <2> QED
      BY <1>1, <2>1
      DEF Healthy, CheckOperational, TailNotLost, At, Goto, NextSlave, Slaves, history
  <1>3. CASE x # s
    <2>1. dev'[s] = dev[s] /\ hw'[s] = hw[s] /\ obs'[s] = obs[s] /\ islost'[s] = islost[s]
      BY <1>3 DEF TypeOK, CheckSlave, CheckOperational, CheckSafeOp, RequestOp, CheckInit,
          Reconfig, LostOnTheWay, AfterReconfig, CheckLost, CheckOther, TailNotLost, TailRecover,
          TailFound, RecoverFirstWrite, RecoverSecondWrite
    <2>2. latest'[s] = latest[s] /\ atLoss'[s] = atLoss[s]
      BY <1>3 DEF TypeOK, CheckSlave, CheckOperational, CheckSafeOp, RequestOp, CheckInit,
          Reconfig, LostOnTheWay, AfterReconfig, CheckLost, CheckOther, TailNotLost, TailRecover,
          TailFound, RecoverFirstWrite, RecoverSecondWrite, history
    <2>3. ccur' = s => cpc' \in {"sleep", "check", "tail"}
      BY <1>1, <1>3
      DEF CheckSlave, CheckOperational, CheckSafeOp, RequestOp, CheckInit,
          Reconfig, LostOnTheWay, AfterReconfig, CheckLost, CheckOther, TailNotLost, TailRecover,
          TailFound, RecoverFirstWrite, RecoverSecondWrite, At, Goto, NextSlave
    <2> QED
      BY <1>1, <2>1, <2>2, <2>3 DEF Healthy
  <1> QED
    BY <1>2, <1>3

LEMMA CheckerLeavesMaster ==
    ASSUME NEW x \in Slaves, CheckSlave(x)
    PROVE  inp' = inp /\ out' = out /\ dpc' = dpc /\ dcur' = dcur
  BY DEF CheckSlave, CheckOperational, CheckSafeOp, RequestOp, CheckInit,
      Reconfig, LostOnTheWay,
      AfterReconfig, CheckLost, CheckOther, TailNotLost, TailRecover, TailFound,
      RecoverFirstWrite, RecoverSecondWrite, master

LEMMA HealthyHardware ==
    ASSUME TypeOK, HealthyInv, NEW s \in Slaves \ FaultySlaves, NEW x \in Slaves,
           Firmware(x) \/ Fault(x) \/ Repair(x)
    PROVE  Healthy(s)' /\ dev'[s] = dev[s]
  <1>1. Healthy(s) /\ hw[s] \in Hardware
    BY DEF HealthyInv, TypeOK
  <1>2. dev' = dev /\ obs' = obs /\ islost' = islost /\ cpc' = cpc /\ ccur' = ccur
    BY DEF Firmware, TakeArg, ReportReady, EchoStatus, Fault, Unplug, PowerOff, Swap,
           Reflash, McuReset, FallToSafeOp, Watchdog, Strike, Repair, checker
  <1>3. CASE x # s
    <2>1. hw'[s] = hw[s]
      BY <1>3 DEF Firmware, TakeArg, ReportReady, EchoStatus, Fault, Unplug, PowerOff,
             Swap, Reflash, McuReset, FallToSafeOp, Watchdog, Repair, TypeOK
    <2> QED
      BY <1>1, <1>2, <2>1 DEF Healthy
  <1>4. CASE x = s
    <2>1. ~Fault(s)
      BY DEF Fault, Unplug, PowerOff, Swap, Reflash, McuReset, FallToSafeOp, Watchdog, Strike
    <2>2. ~Repair(s)
      BY <1>1 DEF Healthy, Repair
    <2>3. Firmware(s)
      BY <1>4, <2>1, <2>2
    <2>4. /\ hw'[s].power = hw[s].power /\ hw'[s].link = hw[s].link
          /\ hw'[s].addr = hw[s].addr /\ hw'[s].al = hw[s].al
      <3>1. CASE TakeArg(s)
        <4> DEFINE h(i, v, e) == [hw[s] EXCEPT !.args = [@ EXCEPT ![i] = v], !.echo = e]
        <4>1. \/ \E i \in 1 .. ArgLen : hw'[s] = h(i, "good", Arg(i))
              \/ \E i \in 1 .. ArgLen : hw'[s] = h(i, "bad", Junk)
          BY <3>1 DEF TakeArg, TypeOK
        <4>2. \A i, v, e : /\ h(i, v, e).power = hw[s].power /\ h(i, v, e).link = hw[s].link
                           /\ h(i, v, e).addr = hw[s].addr /\ h(i, v, e).al = hw[s].al
          BY <1>1 DEF Hardware
        <4> HIDE DEF h
        <4> QED
          BY <4>1, <4>2
      <3>2. CASE ReportReady(s)
        BY <1>1, <3>2 DEF ReportReady, TypeOK, Hardware
      <3>3. CASE EchoStatus(s)
        BY <1>1, <3>3 DEF EchoStatus, TypeOK, Hardware
      <3> QED
        BY <2>3, <3>1, <3>2, <3>3 DEF Firmware
    <2> QED
      BY <1>1, <1>2, <2>4 DEF Healthy
  <1> QED
    BY <1>3, <1>4

LEMMA HealthyData ==
    ASSUME TypeOK, HealthyInv, NEW s \in Slaves \ FaultySlaves, DataThread
    PROVE  Healthy(s)' /\ Keeps(dev[s], dev'[s])
  <1>1. Healthy(s) /\ dev[s] \in Devices /\ hw[s] \in Hardware
    BY DEF HealthyInv, TypeOK
  <1>2. obs' = obs /\ islost' = islost /\ cpc' = cpc /\ ccur' = ccur
    BY DEF DataThread, ReceiveSlave, ProcessOne, TransferSlave, Exchange, checker
  <1>3. /\ hw'[s].power = hw[s].power /\ hw'[s].link = hw[s].link
        /\ hw'[s].addr = hw[s].addr /\ hw'[s].al = hw[s].al
    BY <1>1 DEF DataThread, ReceiveSlave, ProcessOne, TransferSlave, Exchange, Hardware
  <1>4. Keeps(dev[s], dev'[s])
    <2>1. Keeps(dev[s], dev[s])
      BY DEF Keeps
    <2>2. \A i : Keeps(dev[s], ReceiveFromSlave(dev[s], i))
      BY <1>1 DEF Keeps, ReceiveFromSlave, Devices
    <2>3. Keeps(dev[s], ProcessSlave(dev[s]))
      BY <1>1, ProcessKeeps
    <2>4. \/ dev'[s] = dev[s]
          \/ dev'[s] = ReceiveFromSlave(dev[s], inp[s])
          \/ dev'[s] = ProcessSlave(dev[s])
      BY DEF DataThread, ReceiveSlave, ProcessOne, TransferSlave, Exchange, TypeOK
    <2> QED
      BY <2>1, <2>2, <2>3, <2>4
  <1> QED
    BY <1>1, <1>2, <1>3, <1>4 DEF Healthy

LEMMA HealthyInit == Init => HealthyInv
  BY DEF Init, HealthyInv, Healthy, FreshHardware

LEMMA HealthyStep ==
    ASSUME TypeOK, HealthyInv, [Next]_vars
    PROVE  HealthyInv' /\ [\A s \in Slaves \ FaultySlaves : StaysInService(s)]_vars
  <1> SUFFICES ASSUME NEW s \in Slaves \ FaultySlaves
               PROVE  Healthy(s)' /\ (Keeps(dev[s], dev'[s]) \/ dev'[s] = dev[s])
    BY DEF HealthyInv, Keeps, StaysInService
  <1>1. CASE DataThread
    BY <1>1, HealthyData
  <1>2. CASE Wake
    <2>1. Healthy(s) /\ hw[s] \in Hardware
      BY DEF HealthyInv, TypeOK
    <2>2. ALSeen(hw[s]) = OP
      BY <2>1 DEF Healthy, ALSeen, Reachable
    <2> QED
      BY <1>2, <2>1, <2>2 DEF Wake, Healthy, master, history
  <1>3. CASE \E x \in Slaves : CheckSlave(x)
    BY <1>3, HealthyChecker
  <1>4. CASE \E x \in Slaves : \E t \in Tasks : \E c \in Cmds : Command(x, t, c)
    <2>1. Healthy(s) /\ dev[s] \in Devices
      BY DEF HealthyInv, TypeOK
    <2>2. \A t \in Tasks : \A c \in Cmds : Keeps(dev[s], OnCommand(dev[s], t, c))
      BY <2>1 DEF Keeps, OnCommand, Devices
    <2>3. \/ dev'[s] = dev[s]
          \/ \E t \in Tasks : \E c \in Cmds : dev'[s] = OnCommand(dev[s], t, c)
      BY <1>4 DEF Command, TypeOK
    <2>4. Healthy(s)'
      BY <1>4, <2>1 DEF Command, Healthy, checker
    <2> QED
      BY <2>2, <2>3, <2>4
  <1>5. CASE \E x \in Slaves : Firmware(x) \/ Fault(x) \/ Repair(x)
    BY <1>5, HealthyHardware
  <1>6. CASE UNCHANGED vars
    BY <1>6 DEF vars, master, checker, HealthyInv, Healthy
  <1> QED
    BY <1>1, <1>2, <1>3, <1>4, <1>5, <1>6 DEF Next, CheckerThread

(* Hot recovery is local: whatever faults hit the other slaves, however     *)
(* often and in whatever phase, a slave without faults of its own is never  *)
(* reset, reconfigured or asked for its arguments again.                    *)
THEOREM HotRecoveryIsLocal == Spec => HealthyUndisturbed
  <1>1. Spec => []HealthyInv
    BY TypeCorrect, HealthyInit, HealthyStep, PTL DEF Spec
  <1> QED
    BY <1>1, TypeCorrect, HealthyStep, PTL DEF Spec, HealthyUndisturbed

-----------------------------------------------------------------------------
(* What drives and what is reported of a slave without faults of its own.   *)
(* The argument: a status of MASTER_READY or more, wherever it is on its    *)
(* way round (device, outputs, slave, inputs, device), shows that the       *)
(* device has left the handshake, and a device that has left it holds       *)
(* nothing but init values and commands.                                    *)
SoundDevice(d, l) ==
    /\ d.reconn = 0
    /\ d.ready => d.mstat >= MASTER_READY
    /\ d.sstat >= MASTER_READY => d.mstat >= MASTER_READY /\ d.echo = Report
    /\ d.mstat >= MASTER_READY => \A t \in Tasks : d.m2s[t] \in {l[t], InitVal}

Sound(s) ==
    /\ SoundDevice(dev[s], latest[s])
    /\ Clean(latest[s]) /\ atLoss[s] = Const(InitVal)
    /\ inp[s].stat >= MASTER_READY => dev[s].mstat >= MASTER_READY /\ inp[s].echo = Report
    /\ hw[s].stat >= MASTER_READY => dev[s].mstat >= MASTER_READY /\ hw[s].echo = Report
    /\ out[s].stat >= MASTER_READY => dev[s].mstat >= MASTER_READY /\ Clean(out[s].buf)
    /\ hw[s].rx.stat >= MASTER_READY => dev[s].mstat >= MASTER_READY /\ Clean(hw[s].rx.buf)

SoundInv == \A s \in Slaves \ FaultySlaves : Sound(s)

(* The stages of the data cycle, one by one.                                *)
LEMMA SetReadySound ==
    ASSUME NEW d \in Devices, NEW l, SoundDevice(d, l)
    PROVE  SetReady(d) \in Devices /\ SoundDevice(SetReady(d), l)
  <1>1. CASE d.sstat = SLAVE_CONFIRM_READY /\ ~d.ready
    <2>1. SetReady(d) = [d EXCEPT !.ready = TRUE]
      BY <1>1 DEF SetReady
    <2>2. d.mstat >= MASTER_READY
      BY <1>1 DEF SoundDevice, SLAVE_CONFIRM_READY, MASTER_READY
    <2> QED
      BY <2>1, <2>2 DEF SoundDevice, Devices
  <1>2. CASE ~(d.sstat = SLAVE_CONFIRM_READY /\ ~d.ready)
    BY <1>2 DEF SetReady
  <1> QED
    BY <1>1, <1>2

LEMMA SendingArgsSound ==
    ASSUME NEW d \in Devices, NEW l, SoundDevice(d, l)
    PROVE  SendingArgs(d) \in Devices /\ SoundDevice(SendingArgs(d), l)
  <1>1. SendingArgs(d) \in Devices
    BY SendArgType DEF SendingArgs
  <1>2. CASE d.mstat = MASTER_SENDING_ARGUMENTS
    <2>1. /\ SendingArgs(d).mstat = d.mstat /\ SendingArgs(d).reconn = d.reconn
          /\ SendingArgs(d).ready = d.ready /\ SendingArgs(d).sstat = d.sstat
          /\ SendingArgs(d).echo = d.echo
      BY DEF SendingArgs, SendArg, Devices
    <2>2. ~(d.mstat >= MASTER_READY)
      BY <1>2 DEF MASTER_SENDING_ARGUMENTS, MASTER_READY
    <2> QED
      BY <1>1, <2>1, <2>2 DEF SoundDevice
  <1>3. CASE d.mstat # MASTER_SENDING_ARGUMENTS
    BY <1>3 DEF SendingArgs
  <1> QED
    BY <1>2, <1>3

LEMMA LeaveHandshakeSound ==
    ASSUME NEW d \in Devices, NEW l, SoundDevice(d, l)
    PROVE  LeaveHandshake(d) \in Devices /\ SoundDevice(LeaveHandshake(d), l)
  <1>1. LeaveHandshake(d) \in Devices
    BY ActivateType DEF LeaveHandshake
  <1>2. CASE d.mstat = MASTER_READY
    BY <1>1, <1>2 DEF LeaveHandshake, Activate, SoundDevice, Devices
  <1>3. CASE d.mstat # MASTER_READY
    <2>1. Activate(d) = [d EXCEPT !.m2s = Const(InitVal), !.mstat = MASTER_READY]
      BY <1>3 DEF Activate, WriteInitValues, SoundDevice, Devices
    <2>2. \A t \in Tasks : Const(InitVal)[t] \in {l[t], InitVal}
      BY DEF Const
    <2>3. SoundDevice(Activate(d), l)
      BY <2>1, <2>2 DEF SoundDevice, Devices, MASTER_READY
    <2> QED
      BY <1>1, <2>3 DEF LeaveHandshake
  <1> QED
    BY <1>2, <1>3

LEMMA WorkingSound ==
    ASSUME NEW d \in Devices, NEW l, SoundDevice(d, l)
    PROVE  SoundDevice(Working(d), l)
  BY DEF Working, ProcessPdo, NextStatus, SoundDevice, Devices, MASTER_READY

LEMMA ProcessSound ==
    ASSUME NEW d \in Devices, NEW l, SoundDevice(d, l)
    PROVE  /\ SoundDevice(ProcessSlave(d), l)
           /\ Publishing(d) => d.echo = Report
  <1> DEFINE a == SetReady(d)
             b == SendingArgs(a)
             c == LeaveHandshake(b)
  <1>1. a \in Devices /\ SoundDevice(a, l)
    BY SetReadySound
  <1>2. b \in Devices /\ SoundDevice(b, l)
    BY <1>1, SendingArgsSound
  <1>3. c \in Devices /\ SoundDevice(c, l)
    BY <1>2, LeaveHandshakeSound
  <1>4. SoundDevice(Working(c), l)
    BY <1>3, WorkingSound
  <1>5. c.echo = d.echo
    <2>1. a.echo = d.echo
      BY DEF SetReady, Devices
    <2>2. b.echo = a.echo
      BY <1>1 DEF SendingArgs, SendArg, Devices
    <2>3. c.echo = b.echo
      BY <1>2 DEF LeaveHandshake, Activate, WriteInitValues, RecoverBuf, Devices
    <2> QED
      BY <2>1, <2>2, <2>3
  <1> HIDE DEF a, b, c
  <1>6. Publishing(d) => c.ready /\ c.sstat = c.mstat
    BY DEF Publishing, a, b, c
  <1>7. Publishing(d) => d.echo = Report
    BY <1>3, <1>5, <1>6 DEF SoundDevice, Devices
  <1> QED
    BY <1>4, <1>7 DEF ProcessSlave, a, b, c

LEMMA SoundInit == Init => SoundInv
  <1> SUFFICES ASSUME Init, NEW s \in Slaves PROVE Sound(s)
    BY DEF SoundInv
  <1>1. /\ dev[s] = FreshDevice /\ hw[s] = FreshHardware /\ out[s] = NoOutputs
        /\ inp[s] = [stat |-> SLAVE_INITIALIZING, echo |-> Zero]
        /\ latest[s] = Const(InitVal) /\ atLoss[s] = Const(InitVal)
    BY DEF Init
  <1> QED
    BY <1>1 DEF Sound, SoundDevice, FreshDevice, FreshHardware, NoOutputs, Clean, Const,
        InitVal, SLAVE_INITIALIZING, MASTER_SENDING_ARGUMENTS, MASTER_READY

LEMMA SoundData ==
    ASSUME TypeOK, NEW s \in Slaves, Sound(s), DataThread
    PROVE  Sound(s)'
  <1>1. /\ dev[s] \in Devices /\ hw[s] \in Hardware
        /\ inp[s] \in Inputs /\ out[s] \in Outputs /\ latest[s] \in Buffers
    BY DEF TypeOK
  <1>2. latest' = latest /\ atLoss' = atLoss
    BY DEF DataThread, ReceiveSlave, ProcessOne, TransferSlave, Exchange, history
  <1>3. CASE ReceiveSlave
    <2>1. hw' = hw /\ inp' = inp /\ out' = out
      BY <1>3 DEF ReceiveSlave
    <2>2. dev'[s] = dev[s] \/ dev'[s] = ReceiveFromSlave(dev[s], inp[s])
      BY <1>3 DEF ReceiveSlave, TypeOK
    <2>3. /\ SoundDevice(ReceiveFromSlave(dev[s], inp[s]), latest[s])
          /\ ReceiveFromSlave(dev[s], inp[s]).mstat = dev[s].mstat
      BY <1>1 DEF Sound, SoundDevice, ReceiveFromSlave, Devices, Inputs
    <2> QED
      BY <1>2, <2>1, <2>2, <2>3 DEF Sound
  <1>4. CASE ProcessOne
    <2>1. hw' = hw /\ inp' = inp /\ out' = out
      BY <1>4 DEF ProcessOne
    <2>2. dev'[s] = dev[s] \/ dev'[s] = ProcessSlave(dev[s])
      BY <1>4 DEF ProcessOne, TypeOK
    <2>3. /\ SoundDevice(ProcessSlave(dev[s]), latest[s])
          /\ ProcessSlave(dev[s]) \in Devices
          /\ Keeps(dev[s], ProcessSlave(dev[s]))
      BY <1>1, ProcessSound, ProcessKeeps, ProcessSlaveType DEF Sound
    <2>4. dev[s].mstat >= MASTER_READY => ProcessSlave(dev[s]).mstat >= MASTER_READY
      BY <1>1, <2>3 DEF Keeps, Devices, MASTER_READY, MASTER_SENDING_ARGUMENTS
    <2> QED
      BY <1>2, <2>1, <2>2, <2>3, <2>4 DEF Sound
  <1>5. CASE TransferSlave
    <2>1. hw' = hw /\ inp' = inp /\ dev' = dev
      BY <1>5 DEF TransferSlave
    <2>2. out'[s] = out[s] \/ out'[s] = [stat |-> dev[s].mstat, buf |-> dev[s].m2s]
      BY <1>5 DEF TransferSlave, TypeOK
    <2>3. dev[s].mstat >= MASTER_READY => Clean(dev[s].m2s)
      <3>1. InitVal.kind \in {"init", "cmd"}
        BY DEF InitVal
      <3>2. \A t \in Tasks : latest[s][t].kind \in {"init", "cmd"}
        BY DEF Sound, Clean
      <3>3. dev[s].mstat >= MASTER_READY =>
               \A t \in Tasks : dev[s].m2s[t] \in {latest[s][t], InitVal}
        BY DEF Sound, SoundDevice
      <3> QED
        BY <3>1, <3>2, <3>3, Zenon DEF Clean
    <2> QED
      BY <1>2, <2>1, <2>2, <2>3 DEF Sound
  <1>6. ASSUME NEW lost \in {"no", "out", "back"}, Exchange(lost)
        PROVE  Sound(s)'
    <2>1. dev' = dev /\ out' = out
      BY <1>6 DEF Exchange
    <2>2. \/ inp'[s] = inp[s]
          \/ inp'[s] = [stat |-> hw[s].stat, echo |-> hw[s].echo]
      BY <1>6 DEF Exchange
    <2>3. hw'[s] = hw[s] \/ hw'[s] = [hw[s] EXCEPT !.rx = out[s]]
      BY <1>6 DEF Exchange
    <2>4. /\ hw'[s].stat = hw[s].stat /\ hw'[s].echo = hw[s].echo
          /\ hw'[s].rx = hw[s].rx \/ hw'[s].rx = out[s]
      BY <1>1, <2>3 DEF Hardware
    <2> QED
      BY <1>2, <2>1, <2>2, <2>4 DEF Sound
  <1> QED
    BY <1>3, <1>4, <1>5, <1>6 DEF DataThread

LEMMA SoundSlave ==
    ASSUME TypeOK, HealthyInv, NEW s \in Slaves \ FaultySlaves, Sound(s),
           NEW x \in Slaves, Firmware(x) \/ Fault(x) \/ Repair(x)
    PROVE  Sound(s)'
  <1>1. hw[s] \in Hardware /\ Healthy(s)
    BY DEF TypeOK, HealthyInv
  <1>2. /\ dev' = dev /\ inp' = inp /\ out' = out
        /\ latest' = latest /\ atLoss' = atLoss
    BY DEF Firmware, TakeArg, ReportReady, EchoStatus, Fault, Unplug, PowerOff, Swap,
           Reflash, McuReset, FallToSafeOp, Watchdog, Strike, Repair, master, history
  <1>3. CASE x # s
    <2>1. hw'[s] = hw[s]
      BY <1>3 DEF Firmware, TakeArg, ReportReady, EchoStatus, Fault, Unplug, PowerOff,
             Swap, Reflash, McuReset, FallToSafeOp, Watchdog, Repair, TypeOK
    <2> QED
      BY <1>2, <2>1 DEF Sound
  <1>4. CASE x = s
    <2>1. Firmware(s)
      BY <1>1, <1>4 DEF Healthy, Fault, Unplug, PowerOff, Swap, Reflash, McuReset, FallToSafeOp,
             Watchdog, Strike, Repair
    <2>2. CASE TakeArg(s)
      <3> DEFINE h(i, v, e) == [hw[s] EXCEPT !.args = [@ EXCEPT ![i] = v], !.echo = e]
      <3>1. \/ \E i \in 1 .. ArgLen : hw'[s] = h(i, "good", Arg(i))
            \/ \E i \in 1 .. ArgLen : hw'[s] = h(i, "bad", Junk)
        BY <2>2 DEF TakeArg, TypeOK
      <3>2. \A i, v, e : h(i, v, e).stat = hw[s].stat /\ h(i, v, e).rx = hw[s].rx
        BY <1>1 DEF Hardware
      <3> HIDE DEF h
      <3>3. hw'[s].stat = hw[s].stat /\ hw'[s].rx = hw[s].rx
        BY <3>1, <3>2
      <3>4. ~(hw[s].stat >= MASTER_READY)
        BY <2>2 DEF TakeArg, SLAVE_INITIALIZING, SLAVE_READY, MASTER_READY
      <3> QED
        BY <1>2, <3>3, <3>4 DEF Sound
    <2>3. CASE ReportReady(s)
      <3>1. hw'[s] = [hw[s] EXCEPT !.stat = SLAVE_READY]
        BY <2>3 DEF ReportReady, TypeOK
      <3>2. hw'[s].stat = SLAVE_READY /\ hw'[s].rx = hw[s].rx
        BY <1>1, <3>1 DEF Hardware
      <3>3. ~(SLAVE_READY >= MASTER_READY)
        BY DEF SLAVE_READY, MASTER_READY
      <3> QED
        BY <1>2, <3>2, <3>3 DEF Sound
    <2>4. CASE EchoStatus(s)
      <3>1. hw'[s] = [hw[s] EXCEPT !.stat = hw[s].rx.stat, !.echo = Report]
        BY <2>4 DEF EchoStatus, TypeOK
      <3>2. hw'[s].stat = hw[s].rx.stat /\ hw'[s].rx = hw[s].rx /\ hw'[s].echo = Report
        BY <1>1, <3>1 DEF Hardware
      <3> QED
        BY <1>2, <3>2 DEF Sound
    <2> QED
      BY <2>1, <2>2, <2>3, <2>4 DEF Firmware
  <1> QED
    BY <1>3, <1>4

LEMMA SoundCommand ==
    ASSUME TypeOK, NEW s \in Slaves, Sound(s),
           NEW x \in Slaves, NEW t \in Tasks, NEW c \in Cmds, Command(x, t, c)
    PROVE  Sound(s)'
  <1>1. dev[s] \in Devices /\ latest[s] \in Buffers
    BY DEF TypeOK
  <1>2. hw' = hw /\ inp' = inp /\ out' = out /\ atLoss' = atLoss
    BY DEF Command, master
  <1>3. CASE x # s
    <2>1. dev'[s] = dev[s] /\ latest'[s] = latest[s]
      BY <1>3 DEF Command, TypeOK
    <2> QED
      BY <1>2, <2>1 DEF Sound
  <1>4. CASE x = s
    <2>1. /\ dev'[s] = OnCommand(dev[s], t, c)
          /\ latest'[s] = [latest[s] EXCEPT ![t] = Cmd(c)]
      BY <1>4 DEF Command, TypeOK
    <2> DEFINE d == OnCommand(dev[s], t, c)
               l == [latest[s] EXCEPT ![t] = Cmd(c)]
    <2>2. /\ d.mstat = dev[s].mstat /\ d.reconn = dev[s].reconn /\ d.ready = dev[s].ready
          /\ d.sstat = dev[s].sstat /\ d.echo = dev[s].echo
          /\ d.m2s = [dev[s].m2s EXCEPT ![t] = Cmd(c)]
      BY <1>1 DEF OnCommand, Devices
    <2>3. SoundDevice(d, l)
      <3> HIDE DEF d
      <3>1. \A u \in Tasks : dev[s].m2s[u] \in {latest[s][u], InitVal} =>
                                 d.m2s[u] \in {l[u], InitVal}
        BY <1>1, <2>2 DEF Devices, Buffers
      <3> HIDE DEF l
      <3> QED
        BY <2>2, <3>1 DEF Sound, SoundDevice
    <2>4. Clean(l)
      BY <1>1 DEF Sound, Clean, Buffers, Cmd
    <2> HIDE DEF d, l
    <2>5. dev'[s] = d /\ latest'[s] = l
      BY <2>1 DEF d, l
    <2> QED
      BY <1>2, <2>2, <2>3, <2>4, <2>5 DEF Sound
  <1> QED
    BY <1>3, <1>4

LEMMA SoundStep ==
    ASSUME TypeOK, HealthyInv, SoundInv, [Next]_vars
    PROVE  SoundInv'
  <1> SUFFICES ASSUME NEW s \in Slaves \ FaultySlaves
               PROVE  Sound(s)'
    BY DEF SoundInv
  <1>1. Sound(s)
    BY DEF SoundInv
  <1>2. CASE DataThread
    BY <1>1, <1>2, SoundData
  <1>3. CASE Wake
    BY <1>1, <1>3 DEF Wake, Sound, master, history
  <1>4. CASE \E x \in Slaves : CheckSlave(x)
    BY <1>1, <1>4, HealthyChecker, CheckerLeavesMaster DEF Sound
  <1>5. CASE \E x \in Slaves : \E t \in Tasks : \E c \in Cmds : Command(x, t, c)
    BY <1>1, <1>5, SoundCommand
  <1>6. CASE \E x \in Slaves : Firmware(x) \/ Fault(x) \/ Repair(x)
    BY <1>1, <1>6, SoundSlave
  <1>7. CASE UNCHANGED vars
    BY <1>1, <1>7 DEF Sound, vars, master, history
  <1> QED
    BY <1>2, <1>3, <1>4, <1>5, <1>6, <1>7 DEF Next, CheckerThread

LEMMA SoundImplies ==
    ASSUME TypeOK, NEW s \in Slaves, Sound(s)
    PROVE  NoPhantom(s) /\ Kept(s) /\ ReportIsReport(s)
  <1>1. dev[s] \in Devices
    BY DEF TypeOK
  <1>2. NoPhantom(s)
    BY DEF Sound, NoPhantom, Driven
  <1>3. Kept(s)
    <2>1. \A t \in Tasks : atLoss[s][t] = InitVal
      BY DEF Sound, Const
    <2> QED
      BY <1>1, <2>1 DEF Sound, SoundDevice, Kept
  <1>4. ReportIsReport(s)
    BY <1>1, ProcessSound DEF Sound, ReportIsReport
  <1> QED
    BY <1>2, <1>3, <1>4

(* A slave without faults of its own is driven by init values and published *)
(* commands only, its buffer keeps the latest command, and only its reports *)
(* are published, whatever happens to the other slaves, however many frames *)
(* are lost, and whenever clients publish.                                  *)
THEOREM HealthySlaveSafe ==
    Spec => [](\A s \in Slaves \ FaultySlaves :
                 NoPhantom(s) /\ Kept(s) /\ ReportIsReport(s))
  <1>1. TypeOK /\ SoundInv => \A s \in Slaves \ FaultySlaves :
                                NoPhantom(s) /\ Kept(s) /\ ReportIsReport(s)
    BY SoundImplies DEF SoundInv
  <1>2. Spec => [](TypeOK /\ HealthyInv /\ SoundInv)
    BY TypeCorrect, HealthyInit, HealthyStep, SoundInit, SoundStep, PTL DEF Spec
  <1> QED
    BY <1>1, <1>2, PTL

(* The whole system without faults of the slaves: the argument bytes        *)
(* send_arg() leaves in the buffer never drive a task.                      *)
THEOREM NoPhantomWithoutFaults ==
    FaultySlaves = {} => (Spec => []NoPhantomCommand)
  <1> SUFFICES ASSUME FaultySlaves = {} PROVE Spec => []NoPhantomCommand
    OBVIOUS
  <1>1. (\A s \in Slaves \ FaultySlaves : NoPhantom(s) /\ Kept(s) /\ ReportIsReport(s))
        => NoPhantomCommand
    BY DEF NoPhantomCommand
  <1> QED
    BY <1>1, HealthySlaveSafe, PTL

(* Without faults of the slaves no command is lost or misplaced: the buffer *)
(* of a working slave holds the latest one of every task.                   *)
THEOREM CommandsKeptWithoutFaults ==
    FaultySlaves = {} => (Spec => []CommandKept)
  <1> SUFFICES ASSUME FaultySlaves = {} PROVE Spec => []CommandKept
    OBVIOUS
  <1>1. (\A s \in Slaves \ FaultySlaves : NoPhantom(s) /\ Kept(s) /\ ReportIsReport(s))
        => CommandKept
    BY DEF CommandKept
  <1> QED
    BY <1>1, HealthySlaveSafe, PTL

(* Without faults of the slaves process_pdo() never hands the echo of an    *)
(* argument to the tasks' read().                                           *)
THEOREM ReportsWithoutFaults ==
    FaultySlaves = {} => (Spec => []ReportsAreReports)
  <1> SUFFICES ASSUME FaultySlaves = {} PROVE Spec => []ReportsAreReports
    OBVIOUS
  <1>1. (\A s \in Slaves \ FaultySlaves : NoPhantom(s) /\ Kept(s) /\ ReportIsReport(s))
        => ReportsAreReports
    BY DEF ReportsAreReports
  <1> QED
    BY <1>1, HealthySlaveSafe, PTL

-----------------------------------------------------------------------------
(* A foreign board stays out of OP as long as its serial number can be      *)
(* read: a board is exchanged in INIT, the reconfiguration that takes it to *)
(* SAFE_OP rejects it, and the checker asks no rejected board for OP.       *)
Guarded(s) ==
    /\ hw[s].power = FALSE => hw[s].al = INIT
    /\ hw[s].own = FALSE =>
          /\ hw[s].al \in {INIT, PRE_OP, SAFE_OP}
          /\ hw[s].al = SAFE_OP => dev[s].rejected = TRUE /\ ~At("op", s)

GuardedInv == \A s \in Slaves : Guarded(s)

LEMMA ALNames ==
    /\ INIT # SAFE_OP /\ INIT # OP /\ SAFE_OP # OP /\ SAFE_OP_ERROR # OP
    /\ INIT # SAFE_OP_ERROR /\ PRE_OP # SAFE_OP /\ PRE_OP # OP
  BY DEF INIT, PRE_OP, SAFE_OP, OP, SAFE_OP_ERROR

LEMMA GuardedData ==
    ASSUME TypeOK, NEW s \in Slaves, Guarded(s), DataThread
    PROVE  Guarded(s)'
  <1>1. dev[s] \in Devices /\ hw[s] \in Hardware
    BY DEF TypeOK
  <1>2. cpc' = cpc /\ ccur' = ccur
    BY DEF DataThread, ReceiveSlave, ProcessOne, TransferSlave, Exchange, checker
  <1>3. dev'[s].rejected = dev[s].rejected
    <2>1. \/ dev'[s] = dev[s] \/ dev'[s] = ReceiveFromSlave(dev[s], inp[s])
          \/ dev'[s] = ProcessSlave(dev[s])
      BY DEF DataThread, ReceiveSlave, ProcessOne, TransferSlave, Exchange, TypeOK
    <2>2. /\ ReceiveFromSlave(dev[s], inp[s]).rejected = dev[s].rejected
          /\ ProcessSlave(dev[s]).rejected = dev[s].rejected
      BY <1>1, RejectedKept, Zenon
    <2> QED
      BY <2>1, <2>2, Zenon
  <1>4. hw'[s] = hw[s] \/ hw'[s] = [hw[s] EXCEPT !.rx = out[s]]
    BY DEF DataThread, ReceiveSlave, ProcessOne, TransferSlave, Exchange
  <1>5. hw'[s].power = hw[s].power /\ hw'[s].own = hw[s].own /\ hw'[s].al = hw[s].al
    BY <1>1, <1>4 DEF Hardware
  <1> QED
    BY <1>2, <1>3, <1>5 DEF Guarded, At

LEMMA GuardedChecker ==
    ASSUME TypeOK, "sdo" \notin FaultKinds, NEW s \in Slaves, Guarded(s),
           NEW x \in Slaves, CheckSlave(x)
    PROVE  Guarded(s)'
  <1>1. dev[s] \in Devices /\ hw[s] \in Hardware
    BY DEF TypeOK
  <1>2. CASE CheckSafeOp(x)
    <2>1. hw' = hw /\ dev'[s].rejected = dev[s].rejected
      <3>1. hw' = hw /\ (dev'[s] = dev[s] \/ dev'[s] = PreRecover(dev[s]))
        BY <1>2 DEF CheckSafeOp, TypeOK
      <3>2. PreRecover(dev[s]).rejected = dev[s].rejected
        BY <1>1, RejectedKept, Zenon
      <3> QED
        BY <3>1, <3>2, Zenon
    <2>2. x # s => ~At("op", s)'
      BY <1>2 DEF CheckSafeOp, At, Goto
    <2>3. x = s => dev[s].rejected # TRUE
      BY <1>2 DEF CheckSafeOp
    <2> QED
      BY <2>1, <2>2, <2>3 DEF Guarded
  <1>3. CASE RequestOp(x)
    <2>1. dev' = dev /\ ~At("op", s)'
      BY <1>3 DEF RequestOp, At, Goto
    <2>2. CASE x # s
      <3>1. hw'[s] = hw[s]
        BY <1>3, <2>2 DEF RequestOp, TypeOK
      <3> QED
        BY <2>1, <3>1 DEF Guarded
    <2>3. CASE x = s
      <3> DEFINE a == IF Reachable(hw[s]) /\ hw[s].al = SAFE_OP THEN OP ELSE hw[s].al
      <3>1. hw'[s] = [hw[s] EXCEPT !.al = a]
        BY <1>3, <2>3 DEF RequestOp, TypeOK
      <3>2. /\ hw'[s].power = hw[s].power /\ hw'[s].own = hw[s].own /\ hw'[s].al = a
        BY <1>1, <3>1 DEF Hardware
      <3>3. hw[s].power = FALSE => a = INIT
        BY ALNames DEF Guarded
      <3>4. hw[s].own = FALSE => a = hw[s].al /\ a \in {INIT, PRE_OP}
        BY <1>3, <2>3 DEF RequestOp, Guarded
      <3> HIDE DEF a
      <3> QED
        BY <2>1, <3>2, <3>3, <3>4, ALNames DEF Guarded
    <2> QED
      BY <2>2, <2>3
  <1>4. CASE Reconfig(x)
    <2>1. ~At("op", s)'
      BY <1>4 DEF Reconfig, At, Goto
    <2>2. CASE x # s
      <3>1. hw'[s] = hw[s] /\ dev'[s] = dev[s]
        BY <1>4, <2>2 DEF Reconfig, LostOnTheWay, TypeOK
      <3> QED
        BY <2>1, <3>1 DEF Guarded
    <2>3. CASE x = s
      <3>1. CASE Reachable(hw[s])
        <4>1. hw'[s] = [hw[s] EXCEPT !.al = SAFE_OP]
          BY <1>4, <2>3, <3>1 DEF Reconfig, TypeOK
        <4>2. \E fit : dev'[s] = ReInit(dev[s], Identity(hw[s].own, fit))
          <5>1. \E fit : dev' = [dev EXCEPT ![s] = ReInit(dev[s], Identity(hw[s].own, fit))]
            BY <1>4, <2>3, <3>1, Zenon DEF Reconfig
          <5> QED
            BY <5>1, Zenon DEF TypeOK
        <4>3. hw'[s].power = hw[s].power /\ hw'[s].own = hw[s].own /\ hw'[s].al = SAFE_OP
          BY <1>1, <4>1 DEF Hardware
        <4>4. hw[s].power # FALSE
          BY <3>1 DEF Reachable
        <4>5. hw[s].own = FALSE => dev'[s].rejected = TRUE
          <5>1. ReInit(dev[s], "foreign").rejected = TRUE
            BY <1>1, RejectedKept, Zenon
          <5>2. \A fit : Identity(FALSE, fit) = "foreign"
            BY DEF Identity
          <5> QED
            BY <4>2, <5>1, <5>2, Zenon
        <4> QED
          BY <2>1, <4>3, <4>4, <4>5 DEF Guarded
      <3>2. CASE ~Reachable(hw[s])
        <4>1. CASE UNCHANGED <<dev, hw>>
          BY <2>1, <4>1 DEF Guarded
        <4>2. CASE LostOnTheWay(s)
          <5> DEFINE a == IF hw[s].power /\ hw[s].addr THEN PRE_OP ELSE INIT
          <5>1. hw'[s] = [hw[s] EXCEPT !.al = a]
            BY <4>2 DEF LostOnTheWay, TypeOK
          <5>2. hw'[s].power = hw[s].power /\ hw'[s].own = hw[s].own /\ hw'[s].al = a
            BY <1>1, <5>1 DEF Hardware
          <5>3. hw[s].power = FALSE => a = INIT
            OBVIOUS
          <5>4. a \in {INIT, PRE_OP}
            OBVIOUS
          <5> HIDE DEF a
          <5> QED
            BY <2>1, <5>2, <5>3, <5>4, ALNames DEF Guarded
        <4> QED
          BY <1>4, <2>3, <3>2, <4>1, <4>2 DEF Reconfig
      <3> QED
        BY <3>1, <3>2
    <2> QED
      BY <2>2, <2>3
  <1>5. CASE AfterReconfig(x)
    <2>1. ~At("op", s)' /\ dev'[s].rejected = dev[s].rejected
      BY <1>1, <1>5, RejectedKept DEF AfterReconfig, At, Goto, TypeOK
    <2>2. \/ hw'[s] = hw[s]
          \/ hw'[s] = [hw[s] EXCEPT !.al = INIT]
          \/ hw'[s] = [hw[s] EXCEPT !.al = hw[s].al]
      BY <1>5 DEF AfterReconfig, TypeOK
    <2>3. /\ hw'[s].power = hw[s].power /\ hw'[s].own = hw[s].own
          /\ hw'[s].al = hw[s].al \/ hw'[s].al = INIT
      BY <1>1, <2>2 DEF Hardware
    <2> QED
      BY <2>1, <2>3, ALNames DEF Guarded
  <1>6. CASE TailRecover(x)
    <2>1. ~At("op", s)' /\ dev' = dev
      BY <1>6 DEF TailRecover, At, Goto, NextSlave
    <2>2. hw'[s] = hw[s] \/ hw'[s] = [hw[s] EXCEPT !.addr = TRUE]
      <3>1. hw' = hw \/ hw' = [hw EXCEPT ![x] = [hw[x] EXCEPT !.addr = TRUE]]
        BY <1>6, Zenon DEF TailRecover
      <3>2. CASE hw' = hw
        BY <3>2
      <3>3. CASE hw' = [hw EXCEPT ![x] = [hw[x] EXCEPT !.addr = TRUE]]
        BY <3>3, Zenon DEF TypeOK
      <3> QED
        BY <3>1, <3>2, <3>3
    <2>3. /\ [hw[s] EXCEPT !.addr = TRUE].power = hw[s].power
          /\ [hw[s] EXCEPT !.addr = TRUE].own = hw[s].own
          /\ [hw[s] EXCEPT !.addr = TRUE].al = hw[s].al
      BY <1>1 DEF Hardware
    <2>4. hw'[s].power = hw[s].power /\ hw'[s].own = hw[s].own /\ hw'[s].al = hw[s].al
      BY <2>2, <2>3, Zenon
    <2> QED
      BY <2>1, <2>4 DEF Guarded
  <1>7. CASE RecoverFirstWrite(x)
    <2>1. ~At("op", s)' /\ hw' = hw
      BY <1>7 DEF RecoverFirstWrite, At, Goto
    <2>2. dev'[s].rejected = dev[s].rejected
      <3>1. \/ dev'[s] = dev[s]
            \/ dev'[s] = [dev[s] EXCEPT !.ready = TRUE]
            \/ dev'[s] = [dev[s] EXCEPT !.confRos = TRUE]
        BY <1>7 DEF RecoverFirstWrite, TypeOK
      <3>2. /\ [dev[s] EXCEPT !.ready = TRUE].rejected = dev[s].rejected
            /\ [dev[s] EXCEPT !.confRos = TRUE].rejected = dev[s].rejected
        BY <1>1 DEF Devices
      <3> QED
        BY <3>1, <3>2, Zenon
    <2> QED
      BY <2>1, <2>2 DEF Guarded
  <1>8. CASE \/ CheckOperational(x) \/ CheckInit(x) \/ CheckLost(x) \/ CheckOther(x)
             \/ TailNotLost(x) \/ TailFound(x) \/ RecoverSecondWrite(x)
    <2>1. ~At("op", s)' /\ hw' = hw
      BY <1>8 DEF CheckOperational, CheckInit, CheckLost, CheckOther, TailNotLost, TailFound,
         RecoverSecondWrite, At, Goto, NextSlave
    <2>2. \/ dev'[s] = dev[s] \/ dev'[s] = LoseConnection(dev[s])
          \/ dev'[s] = RecoverState(dev[s])
      BY <1>8 DEF CheckOperational, CheckInit, CheckLost, CheckOther, TailNotLost, TailFound,
         RecoverSecondWrite, TypeOK
    <2>3. /\ LoseConnection(dev[s]).rejected = dev[s].rejected
          /\ RecoverState(dev[s]).rejected = dev[s].rejected
      BY <1>1, RejectedKept, Zenon
    <2>4. dev'[s].rejected = dev[s].rejected
      BY <2>2, <2>3, Zenon
    <2> QED
      BY <2>1, <2>4 DEF Guarded
  <1> QED
    BY <1>2, <1>3, <1>4, <1>5, <1>6, <1>7, <1>8 DEF CheckSlave

LEMMA GuardedHardware ==
    ASSUME TypeOK, NEW s \in Slaves, Guarded(s),
           NEW x \in Slaves, Firmware(x) \/ Fault(x) \/ Repair(x)
    PROVE  Guarded(s)'
  <1>1. hw[s] \in Hardware /\ Restarted(hw[s]) \in Hardware
    BY HardwareTypes DEF TypeOK
  <1>2. dev' = dev /\ cpc' = cpc /\ ccur' = ccur
    BY DEF Firmware, TakeArg, ReportReady, EchoStatus, Fault, Unplug, PowerOff, Swap,
           Reflash, McuReset, FallToSafeOp, Watchdog, Strike, Repair, checker
  <1>3. CASE x # s
    <2>1. hw'[s] = hw[s]
      BY <1>3 DEF Firmware, TakeArg, ReportReady, EchoStatus, Fault, Unplug, PowerOff,
             Swap, Reflash, McuReset, FallToSafeOp, Watchdog, Repair, TypeOK
    <2> QED
      BY <1>2, <2>1 DEF Guarded, At
  <1>4. CASE x = s
    <2>1. CASE TakeArg(s)
      <3> DEFINE h(i, v, e) == [hw[s] EXCEPT !.args = [@ EXCEPT ![i] = v], !.echo = e]
      <3>1. \/ \E i \in 1 .. ArgLen : hw'[s] = h(i, "good", Arg(i))
            \/ \E i \in 1 .. ArgLen : hw'[s] = h(i, "bad", Junk)
        BY <2>1 DEF TakeArg, TypeOK
      <3>2. \A i, v, e : /\ h(i, v, e).power = hw[s].power /\ h(i, v, e).own = hw[s].own
                         /\ h(i, v, e).al = hw[s].al
        BY <1>1 DEF Hardware
      <3> HIDE DEF h
      <3> QED
        BY <1>2, <3>1, <3>2 DEF Guarded, At
    <2>2. CASE ReportReady(s) \/ EchoStatus(s) \/ Unplug(s)
      <3>1. hw'[s].power = hw[s].power /\ hw'[s].own = hw[s].own /\ hw'[s].al = hw[s].al
        BY <1>1, <2>2 DEF ReportReady, EchoStatus, Unplug, TypeOK, Hardware
      <3> QED
        BY <1>2, <3>1 DEF Guarded, At
    <2>3. CASE PowerOff(s) \/ McuReset(s)
      <3>1. \/ hw'[s] = [Restarted(hw[s]) EXCEPT !.power = FALSE, !.addr = FALSE]
            \/ hw'[s] = Restarted(hw[s])
        BY <2>3 DEF PowerOff, McuReset, TypeOK
      <3>2. Restarted(hw[s]).al = INIT
        BY <1>1 DEF Restarted, Hardware
      <3>3. hw'[s].al = INIT
        <4> DEFINE r == Restarted(hw[s])
        <4>1. r \in Hardware /\ r.al = INIT
          BY <1>1, <3>2
        <4>2. hw'[s] = r \/ hw'[s] = [r EXCEPT !.power = FALSE, !.addr = FALSE]
          BY <3>1
        <4> HIDE DEF r
        <4> QED
          BY <4>1, <4>2 DEF Hardware
      <3> QED
        BY <1>2, <3>3, ALNames DEF Guarded
    <2>4. CASE Swap(s) \/ Reflash(s)
      <3>1. hw[s].power = FALSE
        BY <1>1, <2>4 DEF Swap, Reflash, Hardware
      <3>2. hw[s].al = INIT
        BY <3>1 DEF Guarded
      <3>3. hw'[s].al = hw[s].al
        BY <1>1, <2>4 DEF Swap, Reflash, TypeOK, Hardware
      <3> QED
        BY <3>2, <3>3, ALNames DEF Guarded
    <2>5. CASE FallToSafeOp(s) \/ Watchdog(s)
      <3>1. hw[s].al = OP
        BY <2>5 DEF FallToSafeOp, Watchdog
      <3>2. hw[s].power # FALSE /\ hw[s].own # FALSE
        BY <3>1, ALNames DEF Guarded
      <3>3. hw'[s].power = hw[s].power /\ hw'[s].own = hw[s].own
        BY <1>1, <2>5 DEF FallToSafeOp, Watchdog, TypeOK, Hardware
      <3> QED
        BY <3>2, <3>3 DEF Guarded
    <2>6. CASE Repair(s)
      <3>1. /\ hw'[s].own = hw[s].own /\ hw'[s].al = hw[s].al
            /\ hw'[s].power = hw[s].power \/ hw'[s].power = TRUE
        BY <1>1, <2>6 DEF Repair, TypeOK, Hardware
      <3> QED
        BY <1>2, <3>1 DEF Guarded, At
    <2> QED
      BY <1>4, <2>1, <2>2, <2>3, <2>4, <2>5, <2>6 DEF Firmware, Fault
  <1> QED
    BY <1>3, <1>4

LEMMA GuardedInit == Init => GuardedInv
  BY ALNames DEF Init, GuardedInv, Guarded, FreshHardware

LEMMA GuardedStep ==
    ASSUME TypeOK, "sdo" \notin FaultKinds, GuardedInv, [Next]_vars
    PROVE  GuardedInv'
  <1> SUFFICES ASSUME NEW s \in Slaves PROVE Guarded(s)'
    BY DEF GuardedInv
  <1>1. Guarded(s)
    BY DEF GuardedInv
  <1>2. CASE DataThread
    BY <1>1, <1>2, GuardedData
  <1>3. CASE Wake
    BY <1>1, <1>3 DEF Wake, Guarded, At
  <1>4. CASE \E x \in Slaves : CheckSlave(x)
    BY <1>1, <1>4, GuardedChecker
  <1>5. CASE \E x \in Slaves : \E t \in Tasks : \E c \in Cmds : Command(x, t, c)
    <2>1. dev[s] \in Devices
      BY DEF TypeOK
    <2>2. hw' = hw /\ cpc' = cpc /\ ccur' = ccur /\ dev'[s].rejected = dev[s].rejected
      <3>1. hw' = hw /\ cpc' = cpc /\ ccur' = ccur
        BY <1>5 DEF Command, checker
      <3>2. \/ dev'[s] = dev[s]
            \/ \E t \in Tasks : \E c \in Cmds : dev'[s] = OnCommand(dev[s], t, c)
        BY <1>5 DEF Command, TypeOK
      <3>3. \A t \in Tasks : \A c \in Cmds : OnCommand(dev[s], t, c).rejected = dev[s].rejected
        BY <2>1, RejectedKept, Zenon
      <3> QED
        BY <3>1, <3>2, <3>3, Zenon
    <2> QED
      BY <1>1, <2>2 DEF Guarded, At
  <1>6. CASE \E x \in Slaves : Firmware(x) \/ Fault(x) \/ Repair(x)
    BY <1>1, <1>6, GuardedHardware
  <1>7. CASE UNCHANGED vars
    BY <1>1, <1>7 DEF Guarded, At, vars, checker
  <1> QED
    BY <1>2, <1>3, <1>4, <1>5, <1>6, <1>7 DEF Next, CheckerThread

(* As long as serial numbers can be read, no number of exchanges, losses    *)
(* and restarts lets a foreign board reach OP.                              *)
THEOREM ForeignBoardRejected ==
    "sdo" \notin FaultKinds => (Spec => []ForeignBoardNotOperational)
  <1> SUFFICES ASSUME "sdo" \notin FaultKinds PROVE Spec => []ForeignBoardNotOperational
    OBVIOUS
  <1>1. TypeOK /\ GuardedInv /\ [Next]_vars => GuardedInv'
    BY GuardedStep
  <1>2. TypeOK /\ GuardedInv => ForeignBoardNotOperational
    BY ALNames DEF GuardedInv, Guarded, ForeignBoardNotOperational, TypeOK, Hardware
  <1> QED
    BY <1>1, <1>2, TypeCorrect, GuardedInit, PTL DEF Spec

-----------------------------------------------------------------------------
(* Slaves that fail and recover.                                            *)
(*                                                                          *)
(* What EcatMaster keeps up for them, however often and in whatever order   *)
(* they do, for every number of slaves and faults.  The hypotheses, beside  *)
(* the named assumptions of the modules:                                    *)
(*   - faults hit slaves past their handshake (~FaultsInHandshake),         *)
(*   - frames come back while the checker sleeps (SleepCoversCycle),        *)
(*   - a slave that answered before ec_reconfig_slave() answers in it       *)
(*     (ReconfigAnswered).                                                  *)

ReconfigAnswered == \A s \in Slaves : At("reconfig", s) => Reachable(hw[s])

Recoverable == ~FaultsInHandshake /\ SleepCoversCycle

-----------------------------------------------------------------------------
(* Where the two threads are, as far as a slave is concerned.               *)

(* The checker has read the AL state of s and has not yet looked at it.     *)
Awaits(s) == cpc # "sleep" /\ (s > ccur \/ At("check", s))

(* The checker is not in the middle of a branch for s.                      *)
IdleAt(s) == ccur = s => cpc \in {"sleep", "check", "tail"}

(* What the data thread has already done for s in this cycle.               *)
PastReceive(s) ==
    dpc \in {"process", "transfer", "exchange"} \/ (dpc = "receive" /\ dcur > s)
PastTransfer(s) == dpc = "exchange" \/ (dpc = "transfer" /\ dcur > s)

Threads ==
    /\ cpc # "sleep" => cyc = 0
    /\ cpc = "sleep" => ccur = 1
    /\ dpc = "exchange" => dcur = 1

-----------------------------------------------------------------------------
(* A step, as slave s sees it.                                              *)

DataPlace == <<dpc, dcur>>
CheckerPlace == <<cpc, ccur>>

(* Nothing of s changes; a thread may go on at another slave.               *)
Elsewhere(s) ==
    /\ dev'[s] = dev[s] /\ hw'[s] = hw[s] /\ inp'[s] = inp[s] /\ out'[s] = out[s]
    /\ obs'[s] = obs[s] /\ islost'[s] = islost[s]
    /\ latest'[s] = latest[s] /\ atLoss'[s] = atLoss[s]
    /\ cyc' = cyc \/ cyc' = 0
    /\ Awaits(s)' => Awaits(s)
    /\ IdleAt(s) => IdleAt(s)'
    /\ PastReceive(s)' => PastReceive(s)
    /\ PastTransfer(s)' => PastTransfer(s)
    /\ \A p \in {"op", "reconfig", "configured", "failed"} : At(p, s)' <=> At(p, s)

(* The data thread is at s.                                                 *)
DataHere(s) ==
    /\ inp'[s] = inp[s] /\ hw'[s] = hw[s] /\ obs'[s] = obs[s] /\ islost'[s] = islost[s]
    /\ latest'[s] = latest[s] /\ atLoss'[s] = atLoss[s]
    /\ cyc' = cyc /\ UNCHANGED CheckerPlace

Receives(s) ==
    /\ DataHere(s)
    /\ dev'[s] = ReceiveFromSlave(dev[s], inp[s]) /\ out'[s] = out[s]
    /\ ~PastTransfer(s)'

Processes(s) ==
    /\ DataHere(s)
    /\ dev'[s] = ProcessSlave(dev[s]) /\ out'[s] = out[s]
    /\ PastReceive(s) /\ ~PastTransfer(s)'

Transfers(s) ==
    /\ DataHere(s)
    /\ dev'[s] = dev[s] /\ out'[s] = [stat |-> dev[s].mstat, buf |-> dev[s].m2s]
    /\ PastReceive(s)

Exchanges(s, lost) ==
    /\ dev'[s] = dev[s] /\ out'[s] = out[s] /\ obs'[s] = obs[s] /\ islost'[s] = islost[s]
    /\ latest'[s] = latest[s] /\ atLoss'[s] = atLoss[s]
    /\ UNCHANGED CheckerPlace
    /\ hw'[s] = IF Takes(hw[s], lost) THEN [hw[s] EXCEPT !.rx = out[s]] ELSE hw[s]
    /\ inp'[s] = IF Gives(hw[s], lost) THEN [stat |-> hw[s].stat, echo |-> hw[s].echo]
                                       ELSE inp[s]
    /\ cyc' = IF SleepCoversCycle /\ lost = "no" /\ cpc = "sleep" /\ cyc < 2
              THEN cyc + 1 ELSE cyc
    /\ PastReceive(s) /\ PastTransfer(s)
    /\ ~PastReceive(s)' /\ ~PastTransfer(s)'

(* The checker is at s.                                                     *)
WakesAt(s) ==
    /\ dev'[s] = dev[s] /\ hw'[s] = hw[s] /\ inp'[s] = inp[s] /\ out'[s] = out[s]
    /\ islost'[s] = islost[s] /\ latest'[s] = latest[s] /\ atLoss'[s] = atLoss[s]
    /\ obs'[s] = ALSeen(hw[s])
    /\ cpc = "sleep" /\ cpc' = "check"
    /\ (SleepCoversCycle => cyc = 2) /\ cyc' = 0

Commands(s, t, c) ==
    /\ QuietHandshake => dev[s].ready /\ dev[s].mstat # MASTER_SENDING_ARGUMENTS
    /\ dev'[s] = OnCommand(dev[s], t, c)
    /\ latest'[s] = [latest[s] EXCEPT ![t] = Cmd(c)]
    /\ hw'[s] = hw[s] /\ inp'[s] = inp[s] /\ out'[s] = out[s] /\ obs'[s] = obs[s]
    /\ islost'[s] = islost[s] /\ atLoss'[s] = atLoss[s]
    /\ cyc' = cyc /\ UNCHANGED <<CheckerPlace, DataPlace>>

(* The board itself, a fault or a repair.                                   *)
BoardOnly(s) ==
    /\ dev'[s] = dev[s] /\ inp'[s] = inp[s] /\ out'[s] = out[s] /\ obs'[s] = obs[s]
    /\ islost'[s] = islost[s] /\ latest'[s] = latest[s] /\ atLoss'[s] = atLoss[s]
    /\ cyc' = cyc /\ UNCHANGED <<CheckerPlace, DataPlace>>

StepAt(s) ==
    \/ Elsewhere(s)
    \/ Receives(s) \/ Processes(s) \/ Transfers(s)
    \/ \E lost \in {"no", "out", "back"} : Exchanges(s, lost)
    \/ WakesAt(s)
    \/ CheckSlave(s)
    \/ \E t \in Tasks : \E c \in Cmds : Commands(s, t, c)
    \/ BoardOnly(s) /\ (Firmware(s) \/ Fault(s) \/ Repair(s))

LEMMA ThreadsKept ==
    ASSUME TypeOK, Threads, [Next]_vars
    PROVE  Threads'
  <1>1. CASE DataThread
    <2>1. CASE ReceiveSlave \/ ProcessOne \/ TransferSlave
      <3>1. cpc' = cpc /\ ccur' = ccur /\ cyc' = cyc
        BY <2>1 DEF ReceiveSlave, ProcessOne, TransferSlave, checker
      <3>2. dpc' = "exchange" => dcur' = 1
        BY <2>1 DEF ReceiveSlave, ProcessOne, TransferSlave, Advance
      <3> QED
        BY <3>1, <3>2 DEF Threads
    <2>2. ASSUME NEW lost, Exchange(lost) PROVE Threads'
      BY <2>2 DEF Exchange, Threads, checker
    <2> QED
      BY <1>1, <2>1, <2>2 DEF DataThread
  <1>2. CASE Wake
    BY <1>2 DEF Wake, Threads, master
  <1>3. ASSUME NEW x \in Slaves, CheckSlave(x)
        PROVE  Threads'
    <2>1. dpc' = dpc /\ dcur' = dcur
      BY <1>3, CheckerLeavesMaster
    <2>2. cpc # "sleep"
      BY <1>3 DEF CheckSlave, CheckOperational, CheckSafeOp, RequestOp, CheckInit, Reconfig,
             AfterReconfig, CheckLost, CheckOther, TailNotLost, TailRecover, TailFound,
             RecoverFirstWrite, RecoverSecondWrite, At
    <2>3. (\E p : p # "sleep" /\ Goto(p)) \/ NextSlave
      BY <1>3 DEF CheckSlave, CheckOperational, CheckSafeOp, RequestOp, CheckInit, Reconfig,
             AfterReconfig, CheckLost, CheckOther, TailNotLost, TailRecover, TailFound,
             RecoverFirstWrite, RecoverSecondWrite
    <2>4. (cpc' # "sleep" => cyc' = 0) /\ (cpc' = "sleep" => ccur' = 1)
      BY <2>2, <2>3 DEF Threads, Goto, NextSlave
    <2> QED
      BY <2>1, <2>4 DEF Threads
  <1>4. CASE \E x \in Slaves : \E t \in Tasks : \E c \in Cmds : Command(x, t, c)
    BY <1>4 DEF Command, Threads, master, checker
  <1>5. CASE \E x \in Slaves : Firmware(x) \/ Fault(x) \/ Repair(x)
    BY <1>5 DEF Firmware, TakeArg, ReportReady, EchoStatus, Fault, Unplug, PowerOff, Swap,
           Reflash, McuReset, FallToSafeOp, Watchdog, Strike, Repair, Threads, master, checker
  <1>6. CASE UNCHANGED vars
    BY <1>6 DEF vars, Threads, master, checker
  <1> QED
    BY <1>1, <1>2, <1>3, <1>4, <1>5, <1>6 DEF Next, CheckerThread

LEMMA ThreadsInit == Init => Threads
  BY DEF Init, Threads

LEMMA DataStep ==
    ASSUME TypeOK, Threads, NEW s \in Slaves, DataThread
    PROVE  StepAt(s)
  <1>1. s \in 1 .. NumSlaves /\ dcur \in 1 .. NumSlaves
    BY DEF TypeOK, Slaves
  <1> DEFINE Still == /\ hw' = hw /\ inp' = inp /\ UNCHANGED checker /\ cyc' = cyc
                      /\ UNCHANGED history
  <1>2. ASSUME Still, dev'[s] = dev[s], out'[s] = out[s],
               PastReceive(s)' => PastReceive(s), PastTransfer(s)' => PastTransfer(s)
        PROVE  Elsewhere(s)
    BY <1>2 DEF Elsewhere, Awaits, IdleAt, At, checker, history
  <1>3. Still => DataHere(s)
    BY DEF DataHere, checker, history, CheckerPlace
  <1>4. CASE ReceiveSlave
    <2>1. Still /\ out' = out
      BY <1>4 DEF ReceiveSlave
    <2>2. CASE dcur = s
      <3>1. dev'[s] = ReceiveFromSlave(dev[s], inp[s])
        BY <1>4, <2>2 DEF ReceiveSlave, TypeOK
      <3>2. ~PastTransfer(s)'
        BY <1>4 DEF ReceiveSlave, Advance, PastTransfer
      <3> QED
        BY <1>3, <2>1, <3>1, <3>2 DEF Receives, StepAt
    <2>3. CASE dcur # s
      <3>1. dev'[s] = dev[s]
        BY <1>4, <2>3 DEF ReceiveSlave, TypeOK
      <3>2. (PastReceive(s)' => PastReceive(s)) /\ ~PastTransfer(s)'
        BY <1>1, <1>4, <2>3 DEF ReceiveSlave, Advance, PastReceive, PastTransfer
      <3> QED
        BY <1>2, <2>1, <3>1, <3>2 DEF StepAt
    <2> QED
      BY <2>2, <2>3
  <1>5. CASE ProcessOne
    <2>1. Still /\ out' = out
      BY <1>5 DEF ProcessOne
    <2>2. PastReceive(s) /\ ~PastTransfer(s)'
      BY <1>1, <1>5 DEF ProcessOne, Advance, PastReceive, PastTransfer
    <2>3. CASE dcur = s
      <3>1. dev'[s] = ProcessSlave(dev[s])
        BY <1>5, <2>3 DEF ProcessOne, TypeOK
      <3> QED
        BY <1>3, <2>1, <2>2, <3>1 DEF Processes, StepAt
    <2>4. CASE dcur # s
      <3>1. dev'[s] = dev[s]
        BY <1>5, <2>4 DEF ProcessOne, TypeOK
      <3> QED
        BY <1>2, <2>1, <2>2, <3>1 DEF StepAt
    <2> QED
      BY <2>3, <2>4
  <1>6. CASE TransferSlave
    <2>1. Still /\ dev' = dev
      BY <1>6 DEF TransferSlave
    <2>2. PastReceive(s)
      BY <1>6 DEF TransferSlave, Advance, PastReceive
    <2>3. CASE dcur = s
      <3>1. out'[s] = [stat |-> dev[s].mstat, buf |-> dev[s].m2s]
        BY <1>6, <2>3 DEF TransferSlave, TypeOK
      <3> QED
        BY <1>3, <2>1, <2>2, <3>1 DEF Transfers, StepAt
    <2>4. CASE dcur # s
      <3>1. out'[s] = out[s]
        BY <1>6, <2>4 DEF TransferSlave, TypeOK
      <3>2. PastTransfer(s)' => PastTransfer(s)
        BY <1>1, <1>6, <2>4 DEF TransferSlave, Advance, PastTransfer
      <3> QED
        BY <1>2, <2>1, <2>2, <3>1, <3>2 DEF StepAt
    <2> QED
      BY <2>3, <2>4
  <1>7. ASSUME NEW lost \in {"no", "out", "back"}, Exchange(lost)
        PROVE  StepAt(s)
    <2>1. PastReceive(s) /\ PastTransfer(s)
      BY <1>7 DEF Exchange, PastReceive, PastTransfer
    <2>2. ~PastReceive(s)' /\ ~PastTransfer(s)'
      BY <1>1, <1>7 DEF Exchange, PastReceive, PastTransfer, Threads
    <2>3. /\ hw'[s] = IF Takes(hw[s], lost) THEN [hw[s] EXCEPT !.rx = out[s]] ELSE hw[s]
          /\ inp'[s] = IF Gives(hw[s], lost) THEN [stat |-> hw[s].stat, echo |-> hw[s].echo]
                                             ELSE inp[s]
      BY <1>7 DEF Exchange
    <2>4. /\ dev' = dev /\ out' = out /\ UNCHANGED checker /\ UNCHANGED history
          /\ cyc' = IF SleepCoversCycle /\ lost = "no" /\ cpc = "sleep" /\ cyc < 2
                    THEN cyc + 1 ELSE cyc
      BY <1>7, Zenon DEF Exchange
    <2>5. Exchanges(s, lost)
      BY <2>1, <2>2, <2>3, <2>4 DEF Exchanges, checker, history, CheckerPlace
    <2> QED
      BY <2>5 DEF StepAt
  <1> QED
    BY <1>4, <1>5, <1>6, <1>7 DEF DataThread

LEMMA CheckerStep ==
    ASSUME TypeOK, Threads, NEW s \in Slaves, CheckerThread
    PROVE  StepAt(s)
  <1>1. CASE Wake
    <2>1. obs'[s] = ALSeen(hw[s])
      BY <1>1 DEF Wake
    <2> QED
      BY <1>1, <2>1 DEF Wake, WakesAt, StepAt, master, history
  <1>2. ASSUME NEW x \in Slaves, x # s, CheckSlave(x)
        PROVE  Elsewhere(s)
    <2>1. dev'[s] = dev[s] /\ hw'[s] = hw[s] /\ obs'[s] = obs[s] /\ islost'[s] = islost[s]
      BY <1>2 DEF TypeOK, CheckSlave, CheckOperational, CheckSafeOp, RequestOp, CheckInit,
          Reconfig, LostOnTheWay, AfterReconfig, CheckLost, CheckOther, TailNotLost, TailRecover,
          TailFound, RecoverFirstWrite, RecoverSecondWrite
    <2>2. latest'[s] = latest[s] /\ atLoss'[s] = atLoss[s]
      BY <1>2 DEF TypeOK, CheckSlave, CheckOperational, CheckSafeOp, RequestOp, CheckInit,
          Reconfig, LostOnTheWay, AfterReconfig, CheckLost, CheckOther, TailNotLost, TailRecover,
          TailFound, RecoverFirstWrite, RecoverSecondWrite, history
    <2>3. inp' = inp /\ out' = out /\ dpc' = dpc /\ dcur' = dcur
      BY <1>2, CheckerLeavesMaster
    <2>4. ccur = x /\ cpc # "sleep"
      BY <1>2 DEF CheckSlave, CheckOperational, CheckSafeOp, RequestOp, CheckInit,
          Reconfig, AfterReconfig, CheckLost, CheckOther, TailNotLost, TailRecover,
          TailFound, RecoverFirstWrite, RecoverSecondWrite, At
    <2>5. (\E p : Goto(p)) \/ NextSlave
      BY <1>2 DEF CheckSlave, CheckOperational, CheckSafeOp, RequestOp, CheckInit, Reconfig,
             AfterReconfig, CheckLost, CheckOther, TailNotLost, TailRecover, TailFound,
             RecoverFirstWrite, RecoverSecondWrite
    <2>6. x \in 1 .. NumSlaves /\ s \in 1 .. NumSlaves
      BY DEF Slaves
    <2>7. /\ Awaits(s)' => Awaits(s)
          /\ IdleAt(s)'
          /\ cyc' = cyc \/ cyc' = 0
          /\ \A p \in {"op", "reconfig", "configured", "failed"} : ~At(p, s)' /\ ~At(p, s)
      BY <1>2, <2>4, <2>5, <2>6 DEF Goto, NextSlave, Awaits, IdleAt, At
    <2> QED
      BY <2>1, <2>2, <2>3, <2>7 DEF Elsewhere, PastReceive, PastTransfer
  <1>3. ASSUME NEW x \in Slaves, CheckSlave(x)
        PROVE  StepAt(s)
    BY <1>2, <1>3 DEF StepAt
  <1> QED
    BY <1>1, <1>3 DEF CheckerThread

(* Every step is, for each slave, one of those named above.                 *)
LEMMA EveryStep ==
    ASSUME TypeOK, Threads, NEW s \in Slaves, [Next]_vars
    PROVE  StepAt(s)
  <1> DEFINE Unmoved == /\ dpc' = dpc /\ dcur' = dcur /\ cpc' = cpc /\ ccur' = ccur
                        /\ cyc' = cyc
             Master == inp' = inp /\ out' = out /\ obs' = obs /\ islost' = islost
  <1>1. ASSUME Unmoved, Master, dev'[s] = dev[s], hw'[s] = hw[s],
               latest'[s] = latest[s], atLoss'[s] = atLoss[s]
        PROVE  StepAt(s)
    BY <1>1 DEF StepAt, Elsewhere, Awaits, IdleAt, PastReceive, PastTransfer, At
  <1>2. CASE DataThread
    BY <1>2, DataStep
  <1>3. CASE CheckerThread
    BY <1>3, CheckerStep
  <1>4. ASSUME NEW x \in Slaves, NEW t \in Tasks, NEW c \in Cmds, Command(x, t, c)
        PROVE  StepAt(s)
    <2>1. Unmoved /\ Master /\ hw' = hw /\ atLoss' = atLoss
      BY <1>4 DEF Command, master, checker
    <2>2. CASE x # s
      <3>1. dev'[s] = dev[s] /\ latest'[s] = latest[s]
        BY <1>4, <2>2 DEF Command, TypeOK
      <3> QED
        BY <1>1, <2>1, <3>1
    <2>3. CASE x = s
      <3>1. /\ dev'[s] = OnCommand(dev[s], t, c)
            /\ latest'[s] = [latest[s] EXCEPT ![t] = Cmd(c)]
            /\ QuietHandshake => dev[s].ready /\ dev[s].mstat # MASTER_SENDING_ARGUMENTS
        BY <1>4, <2>3 DEF Command, TypeOK
      <3>2. Commands(s, t, c)
        BY <2>1, <3>1 DEF Commands, CheckerPlace, DataPlace
      <3> QED
        BY <3>2 DEF StepAt
    <2> QED
      BY <2>2, <2>3
  <1>5. ASSUME NEW x \in Slaves, Firmware(x) \/ Fault(x) \/ Repair(x)
        PROVE  StepAt(s)
    <2>1. Unmoved /\ Master /\ dev' = dev /\ latest' = latest /\ atLoss' = atLoss
      BY <1>5 DEF Firmware, TakeArg, ReportReady, EchoStatus, Fault, Unplug, PowerOff, Swap,
             Reflash, McuReset, FallToSafeOp, Watchdog, Strike, Repair, master, checker, history
    <2>2. CASE x # s
      <3>1. hw'[s] = hw[s]
        BY <1>5, <2>2 DEF Firmware, TakeArg, ReportReady, EchoStatus, Fault, Unplug, PowerOff,
               Swap, Reflash, McuReset, FallToSafeOp, Watchdog, Repair, TypeOK
      <3> QED
        BY <1>1, <2>1, <3>1
    <2>3. CASE x = s
      <3>1. BoardOnly(s)
        BY <2>1 DEF BoardOnly, CheckerPlace, DataPlace
      <3> QED
        BY <1>5, <2>3, <3>1 DEF StepAt
    <2> QED
      BY <2>2, <2>3
  <1>6. CASE UNCHANGED vars
    BY <1>1, <1>6 DEF vars, master, checker, history
  <1> QED
    BY <1>2, <1>3, <1>4, <1>5, <1>6 DEF Next

-----------------------------------------------------------------------------
(* What the process section of a data cycle does to a record.               *)
USE DEF SLAVE_INITIALIZING, SLAVE_READY, SLAVE_CONFIRM_READY,
        MASTER_SENDING_ARGUMENTS, MASTER_READY, NONE, INIT, PRE_OP, SAFE_OP, OP, SAFE_OP_ERROR

(* What neither stage touches.                                              *)
SameRest(d, e) ==
    /\ e.sstat = d.sstat /\ e.echo = d.echo /\ e.reconn = d.reconn
    /\ e.backed = d.backed /\ e.backup = d.backup
    /\ e.confRos = d.confRos /\ e.rejected = d.rejected

(* What the buffer is filled with when the handshake is left.               *)
Filling(d) == IF d.reconn = 0 THEN Const(InitVal) ELSE d.backup

LEMMA BeforeWorking ==
    ASSUME NEW d \in Devices, NEW c, c = LeaveHandshake(SendingArgs(SetReady(d)))
    PROVE  /\ c \in Devices /\ SameRest(d, c)
           /\ c.ready = TRUE <=> d.ready = TRUE \/ d.sstat = 3
           /\ d.mstat # 2 => c.idx = d.idx /\ c.argSent = d.argSent
           /\ d.mstat = 2 => c.mstat \in {2, 3}
           /\ d.mstat = 3 => c.mstat = 3 /\ c.m2s = d.m2s
           /\ d.mstat > 3 => c.mstat = 3 \/ c.mstat = d.mstat
           /\ d.mstat > 3 /\ d.sstat # 2 => c.mstat = d.mstat /\ c.m2s = d.m2s
           /\ d.mstat = 2 /\ c.mstat = 3 =>
                 /\ d.sstat = 2 /\ c.argSent = TRUE
                 /\ d.reconn = 0 \/ d.backed = TRUE => c.m2s = Filling(d)
           /\ d.mstat = 2 /\ c.mstat = 2 =>
                 c.m2s = SendingArgs(d).m2s
           /\ d.mstat = 2 => c.idx = SendingArgs(d).idx /\ c.argSent = SendingArgs(d).argSent
  <1> DEFINE a == SetReady(d)
             b == SendingArgs(a)
  <1>1. /\ a \in Devices /\ SameRest(d, a)
        /\ a.mstat = d.mstat /\ a.m2s = d.m2s /\ a.idx = d.idx /\ a.argSent = d.argSent
        /\ a.ready = TRUE <=> d.ready = TRUE \/ d.sstat = 3
    BY DEF SetReady, Devices, SameRest
  <1>2. b \in Devices
    BY <1>1, SendArgType DEF SendingArgs
  <1>3. /\ SameRest(a, b) /\ b.mstat = a.mstat /\ b.ready = a.ready
        /\ a.mstat # 2 => b = a
    BY <1>1 DEF SendingArgs, SendArg, Devices, SameRest
  <1>4. /\ b.m2s = SendingArgs(d).m2s /\ b.idx = SendingArgs(d).idx
        /\ b.argSent = SendingArgs(d).argSent
    <2>1. a = d \/ a = [d EXCEPT !.ready = TRUE]
      BY DEF SetReady
    <2> HIDE DEF a
    <2> QED
      BY <2>1 DEF SendingArgs, SendArg, Confirmed, Devices
  <1> HIDE DEF a, b
  <1>5. c = LeaveHandshake(b)
    BY DEF a, b
  <1>6. c \in Devices
    BY <1>2, <1>5, ActivateType DEF LeaveHandshake
  <1>7. CASE ~b.ready /\ b.argSent /\ b.sstat = 2
    <2>1. c = Activate(b)
      BY <1>5, <1>7 DEF LeaveHandshake
    <2>2. /\ SameRest(b, c) /\ c.mstat = 3 /\ c.ready = b.ready
          /\ c.idx = b.idx /\ c.argSent = b.argSent
      BY <1>2, <2>1 DEF Activate, WriteInitValues, RecoverBuf, Devices, SameRest
    <2>3. b.mstat = 3 => c.m2s = b.m2s
      BY <1>2, <2>1 DEF Activate, Devices
    <2>4. b.mstat # 3 /\ (b.reconn = 0 \/ b.backed = TRUE) => c.m2s = Filling(b)
      BY <1>2, <2>1 DEF Activate, WriteInitValues, RecoverBuf, Filling, Devices
    <2>5. Filling(b) = Filling(d)
      BY <1>1, <1>3 DEF Filling, SameRest
    <2>6. d.sstat = 2 /\ b.reconn = d.reconn /\ b.backed = d.backed
      BY <1>1, <1>3, <1>7 DEF SameRest
    <2>7. SameRest(d, c) /\ b.mstat = d.mstat /\ b.m2s = SendingArgs(d).m2s
      BY <1>1, <1>3, <1>4, <2>2 DEF SameRest
    <2>8. d.mstat # 2 => b.m2s = d.m2s /\ b.idx = d.idx /\ b.argSent = d.argSent
      BY <1>1, <1>3
    <2>9. b.argSent = TRUE /\ (c.ready = TRUE <=> d.ready = TRUE \/ d.sstat = 3)
      BY <1>1, <1>2, <1>3, <1>7, <2>2 DEF Devices
    <2> QED
      BY <1>4, <1>6, <2>2, <2>3, <2>4, <2>5, <2>6, <2>7, <2>8, <2>9
  <1>8. CASE ~(~b.ready /\ b.argSent /\ b.sstat = 2)
    <2>1. c = b
      BY <1>5, <1>8 DEF LeaveHandshake
    <2> QED
      BY <1>1, <1>3, <1>4, <1>6, <2>1 DEF SameRest
  <1> QED
    BY <1>7, <1>8

LEMMA ProcessSteps ==
    ASSUME NEW d \in Devices, NEW p, p = ProcessSlave(d)
    PROVE  /\ p \in Devices /\ SameRest(d, p)
           /\ d.sstat # 3 => p.ready = d.ready
           /\ d.confRos = FALSE => p = d
           /\ d.mstat = 2 /\ d.sstat # 2 => p.mstat = 2
           /\ d.mstat = 2 /\ d.sstat = 2 /\ d.ready = FALSE => p.mstat \in {2, 3}
           /\ d.mstat = 2 /\ p.mstat = 3 /\ d.ready = FALSE =>
                 /\ p.argSent = TRUE
                 /\ d.reconn = 0 \/ d.backed = TRUE => p.m2s = Filling(d)
           /\ d.mstat = 3 => p.m2s = d.m2s
           /\ d.mstat = 3 /\ d.sstat # 3 => p.mstat = 3
           /\ d.mstat = 3 /\ d.sstat = 3 => p = d \/ p.mstat = 4
           /\ d.mstat > 3 /\ d.sstat # 2 => p.mstat > 3 /\ p.m2s = d.m2s
           /\ d.mstat # 2 => p.idx = d.idx /\ p.argSent = d.argSent
  <1> DEFINE c == LeaveHandshake(SendingArgs(SetReady(d)))
  <1>1. CASE d.confRos = FALSE
    <2>1. p = d
      BY <1>1 DEF ProcessSlave
    <2> QED
      BY <2>1 DEF SameRest, Devices
  <1>2. CASE d.confRos = TRUE
    <2>1. p = Working(c)
      BY <1>2 DEF ProcessSlave
    <2>2. p \in Devices
      BY ProcessSlaveType
    <2> HIDE DEF c
    <2>3. /\ c \in Devices /\ SameRest(d, c)
          /\ c.ready = TRUE <=> d.ready = TRUE \/ d.sstat = 3
          /\ d.mstat # 2 => c.idx = d.idx /\ c.argSent = d.argSent
          /\ d.mstat = 2 => c.mstat \in {2, 3}
          /\ d.mstat = 3 => c.mstat = 3 /\ c.m2s = d.m2s
          /\ d.mstat > 3 /\ d.sstat # 2 => c.mstat = d.mstat /\ c.m2s = d.m2s
          /\ d.mstat = 2 /\ c.mstat = 3 =>
                /\ d.sstat = 2 /\ c.argSent = TRUE
                /\ d.reconn = 0 \/ d.backed = TRUE => c.m2s = Filling(d)
      BY BeforeWorking DEF c
    <2>4. /\ SameRest(c, p) /\ p.ready = c.ready /\ p.idx = c.idx /\ p.argSent = c.argSent
          /\ p.m2s = c.m2s
          /\ p.mstat = IF c.ready /\ c.sstat = c.mstat THEN NextStatus(c.mstat) ELSE c.mstat
      BY <2>1, <2>3 DEF Working, ProcessPdo, SameRest, Devices
    <2>5. /\ c.mstat = 3 => NextStatus(c.mstat) = 4
          /\ c.mstat > 3 => NextStatus(c.mstat) > 3
          /\ c.mstat = 2 => NextStatus(c.mstat) = 3
      BY <2>3 DEF NextStatus, Devices
    <2>6. /\ d.ready \in BOOLEAN /\ c.ready \in BOOLEAN /\ c.sstat = d.sstat
          /\ d.mstat \in Nat /\ d.sstat \in Nat /\ c.mstat \in Nat
      BY <2>3 DEF Devices, SameRest
    <2>7. SameRest(d, p)
      BY <2>3, <2>4 DEF SameRest
    <2>8. /\ c.mstat = p.mstat \/ (c.sstat = c.mstat /\ c.ready = TRUE /\ p.mstat = NextStatus(c.mstat))
          /\ c.sstat = c.mstat /\ c.ready = TRUE => p.mstat = NextStatus(c.mstat)
      BY <2>4, <2>6
    <2>9. /\ d.sstat # 3 => p.ready = d.ready
          /\ p.m2s = c.m2s /\ p.idx = c.idx /\ p.argSent = c.argSent
      BY <2>3, <2>4, <2>6
    <2>10. CASE d.mstat = 2
      BY <1>2, <2>2, <2>3, <2>5, <2>6, <2>7, <2>8, <2>9, <2>10
    <2>11. CASE d.mstat = 3
      BY <1>2, <2>2, <2>3, <2>5, <2>6, <2>7, <2>8, <2>9, <2>11
    <2>12. CASE d.mstat > 3
      BY <1>2, <2>2, <2>3, <2>5, <2>6, <2>7, <2>8, <2>9, <2>12
    <2>13. d.mstat = 2 \/ d.mstat = 3 \/ d.mstat > 3
      BY DEF Devices
    <2> QED
      BY <2>10, <2>11, <2>12, <2>13
  <1> QED
    BY <1>1, <1>2 DEF Devices

(* A record publishes only on a report, or in a handshake it is ready in.   *)
LEMMA PublishesWhen ==
    ASSUME NEW d \in Devices, Publishing(d)
    PROVE  d.sstat >= 3 \/ (d.mstat = 2 /\ d.sstat = 2 /\ d.ready = TRUE)
  <1> DEFINE c == LeaveHandshake(SendingArgs(SetReady(d)))
  <1>1. c.ready /\ c.sstat = c.mstat
    BY DEF Publishing
  <1> HIDE DEF c
  <1>2. /\ c \in Devices /\ SameRest(d, c)
        /\ c.ready = TRUE <=> d.ready = TRUE \/ d.sstat = 3
        /\ d.mstat = 3 => c.mstat = 3
        /\ d.mstat > 3 /\ d.sstat # 2 => c.mstat = d.mstat
    BY BeforeWorking DEF c
  <1>3. d.mstat > 3 => c.mstat = 3 \/ c.mstat = d.mstat
    BY BeforeWorking DEF c
  <1>4. d.mstat = 2 => c.mstat \in {2, 3}
    BY BeforeWorking DEF c
  <1>5. c.sstat = d.sstat /\ c.ready = TRUE
    BY <1>1, <1>2 DEF SameRest, Devices
  <1>6. d.mstat \in Nat /\ d.sstat \in Nat /\ (d.mstat = 2 \/ d.mstat = 3 \/ d.mstat > 3)
    BY DEF Devices
  <1> QED
    BY <1>1, <1>2, <1>3, <1>4, <1>5, <1>6

-----------------------------------------------------------------------------
(* The stages of a slave's life.  From the start on it is in its handshake  *)
(* (Handshaking, Confirming), then it is Serving; only then faults hit it.  *)
(* A reconfiguration that makes init() ask for the arguments again takes it *)
(* through Configuring, Waiting (for the checker's next round) and          *)
(* Requesting back into the handshake.                                      *)
Blank(h) ==
    h.stat = SLAVE_INITIALIZING /\ h.args = NoArgs /\ h.echo = Zero /\ h.rx = NoOutputs
Answers(h) == h.power = TRUE /\ h.link = TRUE /\ h.addr = TRUE

InputFresh(s) == inp[s].stat = SLAVE_INITIALIZING /\ inp[s].echo = Zero
RecordFresh(s) == dev[s].sstat = SLAVE_INITIALIZING /\ dev[s].echo = Zero
OutputFresh(s) == out[s].stat = MASTER_SENDING_ARGUMENTS

Restarting(s) ==
    /\ dev[s].mstat = MASTER_SENDING_ARGUMENTS
    /\ dev[s].sstat # SLAVE_READY /\ inp[s].stat # SLAVE_READY
    /\ hw[s].al = SAFE_OP /\ Answers(hw[s]) /\ Blank(hw[s]) /\ obs[s] = SAFE_OP

(* init() has accepted the board; reset_state() is still to come.           *)
Configuring(s) == Restarting(s) /\ At("configured", s) /\ dev[s].rejected = FALSE

(* What was on its way before is replaced, place by place, as frames come   *)
(* back; when the checker looks again, nothing of it is left.               *)
Waiting(s) ==
    /\ Restarting(s) /\ IdleAt(s)
    /\ dev[s].ready = FALSE /\ dev[s].confRos = FALSE /\ islost[s] = FALSE
    /\ cyc >= 1 \/ Awaits(s) => InputFresh(s)
    /\ cyc = 2 \/ Awaits(s) \/ (cyc = 1 /\ PastReceive(s)) => RecordFresh(s)
    /\ cyc = 2 \/ Awaits(s) \/ (cyc = 1 /\ PastTransfer(s)) => OutputFresh(s)

Requesting(s) ==
    /\ Restarting(s) /\ At("op", s)
    /\ dev[s].ready = FALSE /\ islost[s] = FALSE
    /\ InputFresh(s) /\ RecordFresh(s) /\ OutputFresh(s)

Attached(s) ==
    /\ hw[s].al = OP /\ Answers(hw[s]) /\ obs[s] = OP /\ IdleAt(s)
    /\ dev[s].ready = FALSE /\ islost[s] = FALSE

Handshaking(s) ==
    /\ Attached(s) /\ dev[s].mstat = MASTER_SENDING_ARGUMENTS
    /\ dev[s].sstat < SLAVE_CONFIRM_READY /\ inp[s].stat < SLAVE_CONFIRM_READY
    /\ hw[s].stat < SLAVE_CONFIRM_READY
    /\ hw[s].rx.stat < MASTER_READY /\ out[s].stat < MASTER_READY

(* MASTER_READY on its way to the slave, CONFIRM_READY on its way back.     *)
Confirming(s) ==
    /\ Attached(s) /\ dev[s].mstat = MASTER_READY
    /\ out[s].stat <= MASTER_READY /\ hw[s].rx.stat <= MASTER_READY
    /\ hw[s].stat <= SLAVE_CONFIRM_READY /\ inp[s].stat <= SLAVE_CONFIRM_READY
    /\ dev[s].sstat <= SLAVE_CONFIRM_READY
    /\ hw[s].rx.stat = MASTER_READY => out[s].stat = MASTER_READY
    /\ hw[s].stat = SLAVE_CONFIRM_READY => hw[s].rx.stat = MASTER_READY
    /\ inp[s].stat = SLAVE_CONFIRM_READY => hw[s].stat = SLAVE_CONFIRM_READY
    /\ dev[s].sstat = SLAVE_CONFIRM_READY => inp[s].stat = SLAVE_CONFIRM_READY

(* No 2 is left anywhere: neither SLAVE_READY nor SENDING_ARGUMENTS.        *)
Serving(s) ==
    /\ dev[s].mstat > MASTER_READY /\ out[s].stat >= MASTER_READY
    /\ dev[s].sstat # SLAVE_READY /\ inp[s].stat # SLAVE_READY /\ hw[s].stat # SLAVE_READY
    /\ hw[s].rx.stat # MASTER_SENDING_ARGUMENTS
    /\ hw[s].stat = SLAVE_INITIALIZING => hw[s].args = NoArgs
    /\ At("reconfig", s) => hw[s].al = INIT
    /\ At("configured", s) => Blank(hw[s]) /\ hw[s].al \in {INIT, SAFE_OP}

Stage(s) ==
    \/ Configuring(s) \/ Waiting(s) \/ Requesting(s)
    \/ Handshaking(s) \/ Confirming(s) \/ Serving(s)

(* In every stage.                                                          *)
Plain(s) ==
    /\ hw[s].stat >= SLAVE_CONFIRM_READY => hw[s].echo = Report
    /\ inp[s].stat >= SLAVE_CONFIRM_READY => inp[s].echo = Report
    /\ dev[s].sstat >= SLAVE_CONFIRM_READY => dev[s].echo = Report
    /\ hw[s].al = INIT => Blank(hw[s])
    /\ hw[s].addr = FALSE => hw[s].al = INIT
    /\ hw[s].power = FALSE => hw[s].addr = FALSE
    /\ obs[s] = INIT /\ Awaits(s) => hw[s].al = INIT
    /\ ~At("failed", s)

Lives(s) == Plain(s) /\ Stage(s)

LEMMA SlaveTypes ==
    ASSUME TypeOK, NEW s \in Slaves
    PROVE  /\ dev[s] \in Devices /\ hw[s] \in Hardware
           /\ inp[s] \in Inputs /\ out[s] \in Outputs
           /\ hw[s].rx \in Outputs
           /\ s \in Nat /\ ccur \in Nat /\ cyc \in 0 .. 2
           /\ latest[s] \in Buffers /\ atLoss[s] \in Buffers
           /\ obs[s] \in ALStates \cup {NONE} /\ islost[s] \in BOOLEAN
  BY DEF TypeOK, Hardware, Slaves

LEMMA StatusTypes ==
    ASSUME TypeOK, NEW s \in Slaves
    PROVE  /\ dev[s].mstat \in 2 .. MaxStatus /\ dev[s].sstat \in 0 .. MaxStatus
           /\ inp[s].stat \in 0 .. MaxStatus /\ out[s].stat \in 0 .. MaxStatus
           /\ hw[s].stat \in 1 .. MaxStatus /\ hw[s].rx.stat \in 0 .. MaxStatus
           /\ dev[s].ready \in BOOLEAN /\ dev[s].confRos \in BOOLEAN
           /\ dev[s].rejected \in BOOLEAN /\ dev[s].backed \in BOOLEAN
           /\ hw[s].power \in BOOLEAN /\ hw[s].link \in BOOLEAN /\ hw[s].addr \in BOOLEAN
           /\ hw[s].fit \in BOOLEAN /\ hw[s].al \in ALStates
  BY SlaveTypes DEF Devices, Inputs, Outputs, Hardware

LEMMA ElsewhereLives ==
    ASSUME TypeOK, NEW s \in Slaves, Lives(s), Elsewhere(s)
    PROVE  Lives(s)'
  <1>1. Plain(s)'
    BY DEF Elsewhere, Lives, Plain, Blank
  <1>2. CASE Configuring(s)
    BY <1>1, <1>2 DEF Elsewhere, Configuring, Restarting, Answers, Blank, Lives, Stage
  <1>3. CASE Waiting(s)
    <2>1. cyc \in 0 .. 2
      BY SlaveTypes
    <2>2. Waiting(s)'
      BY <1>3, <2>1 DEF Elsewhere, Waiting, Restarting, Answers, Blank,
             InputFresh, RecordFresh, OutputFresh
    <2> QED
      BY <1>1, <2>2 DEF Lives, Stage
  <1>4. CASE Requesting(s)
    BY <1>1, <1>4 DEF Elsewhere, Requesting, Restarting, Answers, Blank, Lives, Stage,
           InputFresh, RecordFresh, OutputFresh
  <1>5. CASE Handshaking(s)
    BY <1>1, <1>5 DEF Elsewhere, Handshaking, Attached, Answers, Lives, Stage
  <1>6. CASE Confirming(s)
    BY <1>1, <1>6 DEF Elsewhere, Confirming, Attached, Answers, Lives, Stage
  <1>7. CASE Serving(s)
    BY <1>1, <1>7 DEF Elsewhere, Serving, Blank, Lives, Stage
  <1> QED
    BY <1>2, <1>3, <1>4, <1>5, <1>6, <1>7 DEF Lives, Stage

LEMMA InitLives ==
    ASSUME Init, NEW s \in Slaves
    PROVE  Lives(s)
  <1>1. Handshaking(s)
    BY DEF Init, Handshaking, Attached, Answers, FreshDevice, FreshHardware, NoOutputs, IdleAt
  <1>2. Plain(s)
    BY DEF Init, Plain, FreshDevice, FreshHardware, Awaits, At
  <1> QED
    BY <1>1, <1>2 DEF Lives, Stage

LEMMA ReceivesLives ==
    ASSUME TypeOK, NEW s \in Slaves, Lives(s), Receives(s)
    PROVE  Lives(s)'
  <1>1. /\ dev'[s].sstat = inp[s].stat /\ dev'[s].echo = inp[s].echo
        /\ dev'[s].mstat = dev[s].mstat /\ dev'[s].ready = dev[s].ready
        /\ dev'[s].confRos = dev[s].confRos /\ dev'[s].rejected = dev[s].rejected
    BY SlaveTypes DEF Receives, ReceiveFromSlave, Devices
  <1>2. /\ inp'[s] = inp[s] /\ hw'[s] = hw[s] /\ out'[s] = out[s] /\ obs'[s] = obs[s]
        /\ islost'[s] = islost[s] /\ cpc' = cpc /\ ccur' = ccur /\ cyc' = cyc
        /\ ~PastTransfer(s)'
    BY DEF Receives, DataHere, CheckerPlace
  <1>3. Plain(s)'
    BY <1>1, <1>2 DEF Lives, Plain, Blank, Awaits, At
  <1>4. CASE Configuring(s)
    BY <1>1, <1>2, <1>3, <1>4 DEF Configuring, Restarting, Answers, Blank, Lives, Stage, At
  <1>5. CASE Waiting(s)
    <2>1. cyc \in 0 .. 2
      BY SlaveTypes
    <2>2. Waiting(s)'
      BY <1>1, <1>2, <1>5, <2>1 DEF Waiting, Restarting, Answers, Blank,
             InputFresh, RecordFresh, OutputFresh, Awaits, IdleAt, At
    <2> QED
      BY <1>3, <2>2 DEF Lives, Stage
  <1>6. CASE Requesting(s)
    BY <1>1, <1>2, <1>3, <1>6 DEF Requesting, Restarting, Answers, Blank, Lives, Stage,
           InputFresh, RecordFresh, OutputFresh, At
  <1>7. CASE Handshaking(s)
    BY <1>1, <1>2, <1>3, <1>7 DEF Handshaking, Attached, Answers, IdleAt, Lives, Stage
  <1>8. CASE Confirming(s)
    BY <1>1, <1>2, <1>3, <1>8 DEF Confirming, Attached, Answers, IdleAt, Lives, Stage
  <1>9. CASE Serving(s)
    BY <1>1, <1>2, <1>3, <1>9 DEF Serving, Blank, Lives, Stage, At
  <1> QED
    BY <1>4, <1>5, <1>6, <1>7, <1>8, <1>9 DEF Lives, Stage

LEMMA ProcessesLives ==
    ASSUME TypeOK, NEW s \in Slaves, Lives(s), Processes(s)
    PROVE  Lives(s)'
  <1> DEFINE d == dev[s]
             p == dev'[s]
  <1>1. d \in Devices /\ p = ProcessSlave(d)
    BY SlaveTypes DEF Processes
  <1>2. /\ inp'[s] = inp[s] /\ hw'[s] = hw[s] /\ out'[s] = out[s] /\ obs'[s] = obs[s]
        /\ islost'[s] = islost[s] /\ cpc' = cpc /\ ccur' = ccur /\ cyc' = cyc
        /\ PastReceive(s) /\ ~PastTransfer(s)'
    BY DEF Processes, DataHere, CheckerPlace
  <1>3. p.sstat = d.sstat /\ p.echo = d.echo /\ p.confRos = d.confRos /\ p.rejected = d.rejected
    BY <1>1, ProcessSteps DEF SameRest
  <1>4. /\ d.sstat # 3 => p.ready = d.ready
        /\ d.confRos = FALSE => p = d
        /\ d.mstat = 2 /\ d.sstat # 2 => p.mstat = 2
        /\ d.mstat = 2 /\ d.sstat = 2 /\ d.ready = FALSE => p.mstat \in {2, 3}
        /\ d.mstat = 3 /\ d.sstat # 3 => p.mstat = 3
        /\ d.mstat = 3 /\ d.sstat = 3 => p = d \/ p.mstat = 4
        /\ d.mstat > 3 /\ d.sstat # 2 => p.mstat > 3
    BY <1>1, ProcessSteps
  <1> HIDE DEF d, p
  <1>5. Plain(s)'
    BY <1>2, <1>3 DEF Lives, Plain, Blank, Awaits, At, d, p
  <1>6. CASE Configuring(s)
    BY <1>2, <1>3, <1>4, <1>5, <1>6
    DEF Configuring, Restarting, Answers, Blank, Lives, Stage, At, d, p
  <1>7. CASE Waiting(s)
    <2>1. p = d
      BY <1>4, <1>7 DEF Waiting, d
    <2>2. Waiting(s)'
      BY <1>2, <1>7, <2>1 DEF Waiting, Restarting, Answers, Blank,
             InputFresh, RecordFresh, OutputFresh, Awaits, IdleAt, At, d, p
    <2> QED
      BY <1>5, <2>2 DEF Lives, Stage
  <1>8. CASE Requesting(s)
    BY <1>2, <1>3, <1>4, <1>5, <1>8
    DEF Requesting, Restarting, Answers, Blank, Lives, Stage,
        InputFresh, RecordFresh, OutputFresh, At, d, p
  <1>9. CASE Handshaking(s)
    <2>1. /\ d.sstat \in Nat /\ inp[s].stat \in Nat /\ hw[s].stat \in Nat
          /\ hw[s].rx.stat \in Nat /\ out[s].stat \in Nat
      BY StatusTypes DEF d
    <2>2. p.ready = FALSE /\ p.mstat \in {2, 3}
      BY <1>4, <1>9, <2>1 DEF Handshaking, Attached, d
    <2>3. Attached(s)'
      BY <1>2, <1>9, <2>2 DEF Handshaking, Attached, Answers, IdleAt, p
    <2>4. Handshaking(s)' \/ Confirming(s)'
      BY <1>2, <1>3, <1>9, <2>1, <2>2, <2>3 DEF Handshaking, Confirming, d, p
    <2> QED
      BY <1>5, <2>4 DEF Lives, Stage
  <1>10. CASE Confirming(s)
    <2>1. CASE d.sstat # 3 \/ p = d
      BY <1>2, <1>3, <1>4, <1>5, <1>10, <2>1
      DEF Confirming, Attached, Answers, IdleAt, Lives, Stage, d, p
    <2>2. CASE d.sstat = 3 /\ p.mstat = 4
      <3>1. Serving(s)'
        BY <1>2, <1>3, <1>10, <2>2 DEF Confirming, Attached, IdleAt, Serving, At, d, p
      <3> QED
        BY <1>5, <3>1 DEF Lives, Stage
    <2> QED
      BY <1>4, <1>10, <2>1, <2>2 DEF Confirming, d
  <1>11. CASE Serving(s)
    BY <1>2, <1>3, <1>4, <1>5, <1>11 DEF Serving, Blank, Lives, Stage, At, d, p
  <1> QED
    BY <1>6, <1>7, <1>8, <1>9, <1>10, <1>11 DEF Lives, Stage

LEMMA TransfersLives ==
    ASSUME TypeOK, NEW s \in Slaves, Lives(s), Transfers(s)
    PROVE  Lives(s)'
  <1>1. /\ inp'[s] = inp[s] /\ hw'[s] = hw[s] /\ dev'[s] = dev[s] /\ obs'[s] = obs[s]
        /\ islost'[s] = islost[s] /\ cpc' = cpc /\ ccur' = ccur /\ cyc' = cyc
        /\ PastReceive(s) /\ out'[s].stat = dev[s].mstat
    BY DEF Transfers, DataHere, CheckerPlace
  <1>2. Plain(s)'
    BY <1>1 DEF Lives, Plain, Blank, Awaits, At
  <1>3. CASE Configuring(s)
    BY <1>1, <1>2, <1>3 DEF Configuring, Restarting, Answers, Blank, Lives, Stage, At
  <1>4. CASE Waiting(s)
    <2>1. Waiting(s)'
      BY <1>1, <1>4 DEF Waiting, Restarting, Answers, Blank,
             InputFresh, RecordFresh, OutputFresh, Awaits, IdleAt, At
    <2> QED
      BY <1>2, <2>1 DEF Lives, Stage
  <1>5. CASE Requesting(s)
    BY <1>1, <1>2, <1>5 DEF Requesting, Restarting, Answers, Blank, Lives, Stage,
           InputFresh, RecordFresh, OutputFresh, At
  <1>6. CASE Handshaking(s)
    BY <1>1, <1>2, <1>6 DEF Handshaking, Attached, Answers, IdleAt, Lives, Stage
  <1>7. CASE Confirming(s)
    BY <1>1, <1>2, <1>7 DEF Confirming, Attached, Answers, IdleAt, Lives, Stage
  <1>8. CASE Serving(s)
    BY <1>1, <1>2, <1>8, StatusTypes DEF Serving, Blank, Lives, Stage, At
  <1> QED
    BY <1>3, <1>4, <1>5, <1>6, <1>7, <1>8 DEF Lives, Stage

LEMMA ExchangesLives ==
    ASSUME TypeOK, Threads, NEW s \in Slaves, Lives(s),
           NEW lost \in {"no", "out", "back"}, Exchanges(s, lost)
    PROVE  Lives(s)'
  <1> DEFINE h == hw[s]
             g == hw'[s]
  <1>1. /\ out'[s] = out[s] /\ dev'[s] = dev[s] /\ obs'[s] = obs[s] /\ islost'[s] = islost[s]
        /\ cpc' = cpc /\ ccur' = ccur
        /\ PastReceive(s) /\ PastTransfer(s) /\ ~PastReceive(s)' /\ ~PastTransfer(s)'
    BY DEF Exchanges, CheckerPlace
  <1>2. /\ g.stat = h.stat /\ g.args = h.args /\ g.echo = h.echo /\ g.al = h.al
        /\ g.power = h.power /\ g.link = h.link /\ g.addr = h.addr
        /\ g.rx = h.rx \/ (g.rx = out[s] /\ h.al = OP)
    BY SlaveTypes DEF Exchanges, Takes, Hardware
  <1>3. \/ inp'[s] = inp[s]
        \/ inp'[s].stat = h.stat /\ inp'[s].echo = h.echo
    BY DEF Exchanges
  <1>4. /\ cyc' = cyc \/ (cyc' = cyc + 1 /\ lost = "no" /\ cpc = "sleep")
        /\ cyc \in 0 .. 2 /\ (cpc # "sleep" => cyc = 0)
    BY SlaveTypes DEF Exchanges, Threads
  <1> HIDE DEF h, g
  <1>5. Plain(s)'
    BY <1>1, <1>2, <1>3 DEF Lives, Plain, Blank, Awaits, At, h, g
  <1>6. Restarting(s) => Restarting(s)'
    BY <1>1, <1>2, <1>3 DEF Restarting, Answers, Blank, h, g
  <1>7. Restarting(s) /\ InputFresh(s) => InputFresh(s)'
    BY <1>1, <1>2, <1>3 DEF Restarting, Blank, InputFresh, h
  <1>8. CASE Configuring(s)
    BY <1>1, <1>5, <1>6, <1>8 DEF Configuring, Lives, Stage, At
  <1>9. CASE Waiting(s)
    <2>1. Awaits(s) => InputFresh(s)' /\ RecordFresh(s)' /\ OutputFresh(s)'
      BY <1>1, <1>7, <1>9 DEF Waiting, RecordFresh, OutputFresh
    <2>2. cyc' >= 1 => InputFresh(s)'
      <3>1. CASE cyc >= 1
        BY <1>7, <1>9, <3>1 DEF Waiting
      <3>2. CASE lost = "no"
        <4>1. Gives(h, lost)
          BY <1>9, <3>2 DEF Waiting, Restarting, Answers, Gives, Reachable, h
        <4>2. inp'[s].stat = h.stat /\ inp'[s].echo = h.echo
          BY <4>1 DEF Exchanges, h
        <4> QED
          BY <1>9, <4>2 DEF Waiting, Restarting, Blank, InputFresh, h
      <3> QED
        BY <1>4, <3>1, <3>2
    <2>3. cyc' = 2 => RecordFresh(s)' /\ OutputFresh(s)'
      BY <1>1, <1>4, <1>9 DEF Waiting, RecordFresh, OutputFresh
    <2>4. Awaits(s)' => Awaits(s)
      BY <1>1 DEF Awaits, At
    <2>5. Waiting(s)'
      BY <1>1, <1>6, <1>9, <2>1, <2>2, <2>3, <2>4 DEF Waiting, IdleAt
    <2> QED
      BY <1>5, <2>5 DEF Lives, Stage
  <1>10. CASE Requesting(s)
    BY <1>1, <1>5, <1>6, <1>7, <1>10 DEF Requesting, Lives, Stage,
           RecordFresh, OutputFresh, At
  <1>11. CASE Handshaking(s)
    BY <1>1, <1>2, <1>3, <1>5, <1>11
    DEF Handshaking, Attached, Answers, IdleAt, Lives, Stage, h, g
  <1>12. CASE Confirming(s)
    <2>1. Attached(s)'
      BY <1>1, <1>2, <1>12 DEF Confirming, Attached, Answers, IdleAt, h, g
    <2>2. Confirming(s)'
      BY <1>1, <1>2, <1>3, <1>12, <2>1 DEF Confirming, h, g
    <2> QED
      BY <1>5, <2>2 DEF Lives, Stage
  <1>13. CASE Serving(s)
    <2>1. Blank(h) /\ h.al \in {INIT, SAFE_OP} => Blank(g)
      BY <1>2 DEF Blank
    <2>2. Serving(s)'
      BY <1>1, <1>2, <1>3, <1>13, <2>1 DEF Serving, At, h, g
    <2> QED
      BY <1>5, <2>2 DEF Lives, Stage
  <1> QED
    BY <1>8, <1>9, <1>10, <1>11, <1>12, <1>13 DEF Lives, Stage

LEMMA WakesLives ==
    ASSUME Recoverable, TypeOK, Threads, NEW s \in Slaves, Lives(s), WakesAt(s), Threads'
    PROVE  Lives(s)'
  <1>1. /\ out'[s] = out[s] /\ inp'[s] = inp[s] /\ hw'[s] = hw[s] /\ dev'[s] = dev[s]
        /\ islost'[s] = islost[s]
        /\ cpc = "sleep" /\ cpc' = "check" /\ cyc = 2 /\ cyc' = 0
        /\ obs'[s] = ALSeen(hw[s])
    BY DEF WakesAt, Recoverable
  <1>2. /\ Answers(hw[s]) => obs'[s] = hw[s].al
        /\ obs'[s] = INIT => hw[s].al = INIT
    BY <1>1 DEF ALSeen, Reachable, Answers
  <1>3. Plain(s)'
    BY <1>1, <1>2 DEF Lives, Plain, Blank, At
  <1>4. ~Configuring(s) /\ ~Requesting(s)
    BY <1>1 DEF Configuring, Requesting, At
  <1>5. CASE Waiting(s)
    BY <1>1, <1>2, <1>3, <1>5 DEF Waiting, Restarting, Answers, Blank, IdleAt, Lives, Stage,
           InputFresh, RecordFresh, OutputFresh
  <1>6. CASE Handshaking(s)
    BY <1>1, <1>2, <1>3, <1>6 DEF Handshaking, Attached, Answers, IdleAt, Lives, Stage
  <1>7. CASE Confirming(s)
    BY <1>1, <1>2, <1>3, <1>7 DEF Confirming, Attached, Answers, IdleAt, Lives, Stage
  <1>8. CASE Serving(s)
    BY <1>1, <1>3, <1>8 DEF Serving, Lives, Stage, At
  <1> QED
    BY <1>4, <1>5, <1>6, <1>7, <1>8 DEF Lives, Stage

LEMMA CommandsLives ==
    ASSUME TypeOK, NEW s \in Slaves, Lives(s),
           NEW t \in Tasks, NEW c \in Cmds, Commands(s, t, c)
    PROVE  Lives(s)'
  <1>1. /\ inp'[s] = inp[s] /\ hw'[s] = hw[s] /\ out'[s] = out[s] /\ obs'[s] = obs[s]
        /\ islost'[s] = islost[s] /\ cpc' = cpc /\ ccur' = ccur /\ cyc' = cyc
        /\ dpc' = dpc /\ dcur' = dcur
    BY DEF Commands, CheckerPlace, DataPlace
  <1>2. /\ dev'[s].mstat = dev[s].mstat /\ dev'[s].sstat = dev[s].sstat
        /\ dev'[s].echo = dev[s].echo /\ dev'[s].ready = dev[s].ready
        /\ dev'[s].confRos = dev[s].confRos /\ dev'[s].rejected = dev[s].rejected
    BY SlaveTypes DEF Commands, OnCommand, Devices
  <1>3. Plain(s)'
    BY <1>1, <1>2 DEF Lives, Plain, Blank, Awaits, At
  <1>4. Restarting(s) => Restarting(s)'
    BY <1>1, <1>2 DEF Restarting, Answers, Blank
  <1>5. CASE Configuring(s)
    BY <1>1, <1>2, <1>3, <1>4, <1>5 DEF Configuring, Lives, Stage, At
  <1>6. CASE Waiting(s)
    <2>1. Waiting(s)'
      BY <1>1, <1>2, <1>4, <1>6 DEF Waiting, InputFresh, RecordFresh, OutputFresh,
             Awaits, IdleAt, At, PastReceive, PastTransfer
    <2> QED
      BY <1>3, <2>1 DEF Lives, Stage
  <1>7. CASE Requesting(s)
    BY <1>1, <1>2, <1>3, <1>4, <1>7 DEF Requesting, Lives, Stage,
           InputFresh, RecordFresh, OutputFresh, At
  <1>8. CASE Handshaking(s)
    BY <1>1, <1>2, <1>3, <1>8 DEF Handshaking, Attached, Answers, IdleAt, Lives, Stage
  <1>9. CASE Confirming(s)
    BY <1>1, <1>2, <1>3, <1>9 DEF Confirming, Attached, Answers, IdleAt, Lives, Stage
  <1>10. CASE Serving(s)
    BY <1>1, <1>2, <1>3, <1>10 DEF Serving, Blank, Lives, Stage, At
  <1> QED
    BY <1>5, <1>6, <1>7, <1>8, <1>9, <1>10 DEF Lives, Stage

-----------------------------------------------------------------------------
(* The board.                                                               *)

(* What the firmware's three actions change of a board.                     *)
FirmwareChange(h, g) ==
    /\ h.power = TRUE /\ h.al = OP
    /\ g.power = h.power /\ g.link = h.link /\ g.addr = h.addr /\ g.own = h.own
    /\ g.fit = h.fit /\ g.al = h.al /\ g.rx = h.rx

Parses(h, g) ==
    /\ h.stat \in {SLAVE_INITIALIZING, SLAVE_READY} /\ g.stat = h.stat
    /\ h.rx.stat = MASTER_SENDING_ARGUMENTS

Announces(h, g) ==
    /\ h.stat = SLAVE_INITIALIZING /\ h.args # NoArgs
    /\ g.stat = SLAVE_READY /\ g.args = h.args /\ g.echo = h.echo

Echoes(h, g) ==
    /\ h.stat >= SLAVE_READY /\ h.rx.stat >= MASTER_READY
    /\ g.stat = h.rx.stat /\ g.echo = Report /\ g.args = h.args

LEMMA FirmwareSteps ==
    ASSUME TypeOK, NEW s \in Slaves, Firmware(s)
    PROVE  /\ FirmwareChange(hw[s], hw'[s])
           /\ Parses(hw[s], hw'[s]) \/ Announces(hw[s], hw'[s]) \/ Echoes(hw[s], hw'[s])
  <1>1. hw[s] \in Hardware /\ hw[s].power \in BOOLEAN
    BY SlaveTypes, StatusTypes
  <1>2. CASE TakeArg(s)
    <2> DEFINE h(i, v, e) == [hw[s] EXCEPT !.args = [@ EXCEPT ![i] = v], !.echo = e]
    <2>1. \E i, v, e : hw'[s] = h(i, v, e)
      <3>1. \/ hw'[s] = h(hw[s].rx.buf[HeadTask].val, "good", Arg(hw[s].rx.buf[HeadTask].val))
            \/ \E i \in 1 .. ArgLen : hw'[s] = h(i, "bad", Junk)
        BY <1>2 DEF TakeArg, TypeOK
      <3> HIDE DEF h
      <3> QED
        BY <3>1
    <2>2. \A i, v, e : /\ h(i, v, e).power = hw[s].power /\ h(i, v, e).link = hw[s].link
                       /\ h(i, v, e).addr = hw[s].addr /\ h(i, v, e).own = hw[s].own
                       /\ h(i, v, e).fit = hw[s].fit /\ h(i, v, e).al = hw[s].al
                       /\ h(i, v, e).rx = hw[s].rx /\ h(i, v, e).stat = hw[s].stat
      BY <1>1 DEF Hardware
    <2>3. /\ hw[s].power /\ hw[s].al = OP /\ hw[s].stat \in {SLAVE_INITIALIZING, SLAVE_READY}
          /\ hw[s].rx.stat = MASTER_SENDING_ARGUMENTS
      BY <1>2 DEF TakeArg
    <2> HIDE DEF h
    <2> QED
      BY <1>1, <2>1, <2>2, <2>3 DEF FirmwareChange, Parses
  <1>3. CASE ReportReady(s)
    <2>1. hw'[s] = [hw[s] EXCEPT !.stat = SLAVE_READY]
      BY <1>3 DEF ReportReady, TypeOK
    <2>2. hw[s].args # NoArgs
      <3>1. hw[s].args[1] # "none"
        BY <1>3 DEF ReportReady
      <3> QED
        BY <3>1 DEF NoArgs
    <2>3. /\ hw'[s].power = hw[s].power /\ hw'[s].link = hw[s].link
          /\ hw'[s].addr = hw[s].addr /\ hw'[s].own = hw[s].own
          /\ hw'[s].fit = hw[s].fit /\ hw'[s].al = hw[s].al
          /\ hw'[s].rx = hw[s].rx /\ hw'[s].stat = SLAVE_READY
          /\ hw'[s].args = hw[s].args /\ hw'[s].echo = hw[s].echo
      BY <1>1, <2>1 DEF Hardware
    <2>4. hw[s].power = TRUE /\ hw[s].al = OP /\ hw[s].stat = SLAVE_INITIALIZING
      BY <1>1, <1>3 DEF ReportReady
    <2> QED
      BY <2>2, <2>3, <2>4 DEF FirmwareChange, Announces
  <1>4. CASE EchoStatus(s)
    <2>1. hw'[s] = [hw[s] EXCEPT !.stat = hw[s].rx.stat, !.echo = Report]
      BY <1>4 DEF EchoStatus, TypeOK
    <2>2. /\ hw'[s].power = hw[s].power /\ hw'[s].link = hw[s].link
          /\ hw'[s].addr = hw[s].addr /\ hw'[s].own = hw[s].own
          /\ hw'[s].fit = hw[s].fit /\ hw'[s].al = hw[s].al
          /\ hw'[s].rx = hw[s].rx /\ hw'[s].stat = hw[s].rx.stat
          /\ hw'[s].args = hw[s].args /\ hw'[s].echo = Report
      BY <1>1, <2>1 DEF Hardware
    <2>3. /\ hw[s].power = TRUE /\ hw[s].al = OP /\ hw[s].stat >= SLAVE_READY
          /\ hw[s].rx.stat >= MASTER_READY
      BY <1>1, <1>4 DEF EchoStatus, Driven
    <2> QED
      BY <2>2, <2>3 DEF FirmwareChange, Echoes
  <1> QED
    BY <1>2, <1>3, <1>4 DEF Firmware

LEMMA FirmwareLives ==
    ASSUME TypeOK, NEW s \in Slaves, Lives(s), BoardOnly(s), Firmware(s)
    PROVE  Lives(s)'
  <1> DEFINE h == hw[s]
             g == hw'[s]
  <1>1. /\ dev'[s] = dev[s] /\ inp'[s] = inp[s] /\ out'[s] = out[s] /\ obs'[s] = obs[s]
        /\ islost'[s] = islost[s] /\ cpc' = cpc /\ ccur' = ccur
    BY DEF BoardOnly, CheckerPlace
  <1>2. FirmwareChange(h, g) /\ (Parses(h, g) \/ Announces(h, g) \/ Echoes(h, g))
    BY FirmwareSteps
  <1>3. /\ h.stat \in Nat /\ h.rx.stat \in Nat /\ inp[s].stat \in Nat
        /\ dev[s].sstat \in Nat /\ out[s].stat \in Nat
    BY StatusTypes
  <1> HIDE DEF h, g
  <1>4. Plain(s)'
    BY <1>1, <1>2, <1>3 DEF FirmwareChange, Parses, Announces, Echoes, Lives, Plain,
           Awaits, At, h, g
  <1>5. ~Restarting(s)
    BY <1>2 DEF FirmwareChange, Restarting, h
  <1>6. CASE Attached(s)
    <2>1. Attached(s)'
      BY <1>1, <1>2, <1>6 DEF FirmwareChange, Attached, Answers, IdleAt, h, g
    <2>2. Handshaking(s) => Handshaking(s)'
      BY <1>1, <1>2, <1>3, <2>1 DEF FirmwareChange, Parses, Announces, Echoes, Handshaking, h, g
    <2>3. Confirming(s) => Confirming(s)'
      BY <1>1, <1>2, <1>3, <2>1 DEF FirmwareChange, Parses, Announces, Echoes, Confirming, h, g
    <2>4. Serving(s) => Serving(s)'
      BY <1>1, <1>2, <1>3, <1>6 DEF FirmwareChange, Parses, Announces, Echoes, Serving,
             Attached, IdleAt, At, h, g
    <2> QED
      BY <1>4, <1>5, <2>2, <2>3, <2>4 DEF Lives, Stage, Configuring, Waiting, Requesting
  <1>7. CASE Serving(s)
    <2>1. /\ ~At("reconfig", s) /\ ~At("configured", s)
          /\ h.rx.stat # 2 /\ (h.stat = 1 => h.args = NoArgs)
      BY <1>2, <1>7 DEF Serving, FirmwareChange, h
    <2>2. Echoes(h, g)
      BY <1>2, <2>1 DEF Parses, Announces
    <2>3. Serving(s)'
      BY <1>1, <1>2, <1>3, <1>7, <2>1, <2>2 DEF FirmwareChange, Echoes, Serving, At, h, g
    <2> QED
      BY <1>4, <2>3 DEF Lives, Stage
  <1> QED
    BY <1>5, <1>6, <1>7
    DEF Lives, Stage, Configuring, Waiting, Requesting, Handshaking, Confirming

LEMMA RestartedBoard ==
    ASSUME NEW h \in Hardware
    PROVE  /\ Restarted(h) \in Hardware /\ Restarted(h).al = INIT /\ Blank(Restarted(h))
           /\ Restarted(h).power = h.power /\ Restarted(h).link = h.link
           /\ Restarted(h).addr = h.addr /\ Restarted(h).fit = h.fit
           /\ Restarted(h).own = h.own
  <1>1. Restarted(h) \in Hardware
    BY HardwareTypes
  <1>2. /\ Restarted(h).al = INIT /\ Restarted(h).stat = SLAVE_INITIALIZING
        /\ Restarted(h).args = NoArgs /\ Restarted(h).echo = Zero
        /\ Restarted(h).rx = NoOutputs
    BY DEF Hardware, Restarted
  <1>3. /\ Restarted(h).power = h.power /\ Restarted(h).link = h.link
        /\ Restarted(h).addr = h.addr /\ Restarted(h).fit = h.fit
        /\ Restarted(h).own = h.own
    BY DEF Hardware, Restarted
  <1> QED
    BY <1>1, <1>2, <1>3 DEF Blank

(* A fault leaves the board what it holds, or restarts it.                  *)
LeavesBoard(h, g) ==
    /\ g.stat = h.stat /\ g.args = h.args /\ g.echo = h.echo /\ g.rx = h.rx
    /\ g.addr = h.addr /\ g.power = h.power
    /\ g.al = h.al \/ (h.al = OP /\ g.al \in {SAFE_OP, SAFE_OP_ERROR})
RestartsBoard(h, g) ==
    /\ g.al = INIT /\ Blank(g)
    /\ (g.addr = h.addr /\ g.power = h.power) \/ g.addr = FALSE

LEMMA FaultSteps ==
    ASSUME TypeOK, NEW s \in Slaves, Fault(s)
    PROVE  LeavesBoard(hw[s], hw'[s]) \/ RestartsBoard(hw[s], hw'[s])
  <1> DEFINE h == hw[s]
             g == hw'[s]
  <1> SUFFICES LeavesBoard(h, g) \/ RestartsBoard(h, g)
    OBVIOUS
  <1>1. h \in Hardware
    BY SlaveTypes
  <1>2. CASE Unplug(s) \/ Swap(s) \/ Reflash(s)
    <2>1. \/ g = [h EXCEPT !.link = FALSE] \/ g = [h EXCEPT !.own = ~h.own]
          \/ g = [h EXCEPT !.fit = ~h.fit]
      BY <1>2 DEF Unplug, Swap, Reflash, TypeOK
    <2> HIDE DEF g, h
    <2> QED
      BY <1>1, <2>1 DEF Hardware, LeavesBoard
  <1>3. CASE FallToSafeOp(s) \/ Watchdog(s)
    <2>1. /\ h.al = OP
          /\ g = [h EXCEPT !.al = SAFE_OP] \/ g = [h EXCEPT !.al = SAFE_OP_ERROR]
      BY <1>3 DEF FallToSafeOp, Watchdog, TypeOK
    <2> HIDE DEF g, h
    <2> QED
      BY <1>1, <2>1 DEF Hardware, LeavesBoard
  <1>4. CASE PowerOff(s)
    <2>1. g = [Restarted(h) EXCEPT !.power = FALSE, !.addr = FALSE]
      BY <1>4 DEF PowerOff, TypeOK
    <2> DEFINE r == Restarted(h)
    <2>2. r \in Hardware /\ r.al = INIT /\ Blank(r)
      BY <1>1, RestartedBoard
    <2>3. g = [r EXCEPT !.power = FALSE, !.addr = FALSE]
      BY <2>1
    <2> HIDE DEF g, h, r
    <2> QED
      BY <2>2, <2>3 DEF Hardware, Blank, RestartsBoard
  <1>5. CASE McuReset(s)
    <2>1. g = Restarted(h)
      BY <1>5 DEF McuReset, TypeOK
    <2> HIDE DEF g, h
    <2> QED
      BY <1>1, <2>1, RestartedBoard DEF RestartsBoard
  <1> QED
    BY <1>2, <1>3, <1>4, <1>5 DEF Fault

LEMMA FaultLives ==
    ASSUME Recoverable, TypeOK, NEW s \in Slaves, Lives(s), BoardOnly(s), Fault(s)
    PROVE  Lives(s)'
  <1> DEFINE h == hw[s]
             g == hw'[s]
  <1>1. /\ dev'[s] = dev[s] /\ inp'[s] = inp[s] /\ out'[s] = out[s] /\ obs'[s] = obs[s]
        /\ islost'[s] = islost[s] /\ cpc' = cpc /\ ccur' = ccur
    BY DEF BoardOnly, CheckerPlace
  <1>2. dev[s].mstat > 3
    BY DEF Recoverable, Fault, Unplug, PowerOff, Swap, Reflash, McuReset, FallToSafeOp,
           Watchdog, Strike
  <1>3. Serving(s)
    BY <1>2 DEF Lives, Stage, Configuring, Waiting, Requesting, Restarting,
           Handshaking, Confirming
  <1>4. h \in Hardware
    BY SlaveTypes
  <1>5. LeavesBoard(h, g) \/ RestartsBoard(h, g)
    BY FaultSteps
  <1> HIDE DEF h, g
  <1>6. Plain(s)'
    BY <1>1, <1>5 DEF LeavesBoard, RestartsBoard, Lives, Plain, Blank, Awaits, At, h, g
  <1>7. Serving(s)'
    BY <1>1, <1>3, <1>5 DEF LeavesBoard, RestartsBoard, Serving, Blank, NoOutputs, At, h, g
  <1> QED
    BY <1>6, <1>7 DEF Lives, Stage

LEMMA RepairLives ==
    ASSUME TypeOK, NEW s \in Slaves, Lives(s), BoardOnly(s), Repair(s)
    PROVE  Lives(s)'
  <1> DEFINE h == hw[s]
             g == hw'[s]
  <1>1. /\ dev'[s] = dev[s] /\ inp'[s] = inp[s] /\ out'[s] = out[s] /\ obs'[s] = obs[s]
        /\ islost'[s] = islost[s] /\ cpc' = cpc /\ ccur' = ccur
    BY DEF BoardOnly, CheckerPlace
  <1>2. Serving(s)
    BY DEF Repair, Lives, Stage, Configuring, Waiting, Requesting, Restarting,
           Handshaking, Confirming, Attached, Answers
  <1>3. /\ g.stat = h.stat /\ g.args = h.args /\ g.echo = h.echo /\ g.rx = h.rx
        /\ g.al = h.al /\ g.addr = h.addr /\ (g.power = h.power \/ g.power = TRUE)
    <2>1. h \in Hardware /\ (g = [h EXCEPT !.link = TRUE] \/ g = [h EXCEPT !.power = TRUE])
      BY SlaveTypes DEF Repair, TypeOK
    <2> HIDE DEF g, h
    <2> QED
      BY <2>1 DEF Hardware
  <1> HIDE DEF h, g
  <1>4. Plain(s)'
    BY <1>1, <1>3 DEF Lives, Plain, Blank, Awaits, At, h, g
  <1>5. Serving(s)'
    BY <1>1, <1>2, <1>3 DEF Serving, Blank, At, h, g
  <1> QED
    BY <1>4, <1>5 DEF Lives, Stage

-----------------------------------------------------------------------------
(* The checker, at the slave.                                               *)
LEMMA CheckerHere ==
    ASSUME TypeOK, Threads, NEW s \in Slaves, CheckSlave(s)
    PROVE  /\ inp'[s] = inp[s] /\ out'[s] = out[s] /\ dpc' = dpc /\ dcur' = dcur
           /\ ccur = s /\ cpc # "sleep" /\ cyc = 0 /\ cyc' = 0
           /\ ~Awaits(s)'
           /\ NextSlave \/ \E p \in CheckerPlaces : p \notin {"sleep", "check"} /\ Goto(p)
  <1>1. /\ inp'[s] = inp[s] /\ out'[s] = out[s] /\ dpc' = dpc /\ dcur' = dcur
    BY CheckerLeavesMaster
  <1>2. ccur = s /\ cpc # "sleep"
    BY DEF CheckSlave, CheckOperational, CheckSafeOp, RequestOp, CheckInit, Reconfig,
           AfterReconfig, CheckLost, CheckOther, TailNotLost, TailRecover, TailFound,
           RecoverFirstWrite, RecoverSecondWrite, At
  <1>3. NextSlave \/ \E p \in CheckerPlaces : p \notin {"sleep", "check"} /\ Goto(p)
    BY DEF CheckSlave, CheckOperational, CheckSafeOp, RequestOp, CheckInit, Reconfig,
           AfterReconfig, CheckLost, CheckOther, TailNotLost, TailRecover, TailFound,
           RecoverFirstWrite, RecoverSecondWrite, CheckerPlaces
  <1>4. s \in Nat
    BY SlaveTypes
  <1>5. ~Awaits(s)' /\ cyc' = 0
    BY <1>2, <1>3, <1>4 DEF Goto, NextSlave, Awaits, At, Threads
  <1> QED
    BY <1>1, <1>2, <1>3, <1>5 DEF Threads

LEMMA PlacesOf ==
    ASSUME NEW s \in Nat, ccur = s
    PROVE  /\ \A p : Goto(p) => At(p, s)' /\ \A q : q # p => ~At(q, s)'
           /\ NextSlave => /\ IdleAt(s)'
                           /\ \A q \in {"op", "reconfig", "configured", "failed"} : ~At(q, s)'
           /\ \A p \in {"sleep", "check", "tail"} : Goto(p) => IdleAt(s)'
  BY DEF Goto, NextSlave, At, IdleAt

(* In the middle of no branch, it is at one of the two tests.               *)
LEMMA AtATest ==
    ASSUME TypeOK, Threads, NEW s \in Slaves, CheckSlave(s), IdleAt(s)
    PROVE  \/ CheckOperational(s) \/ CheckSafeOp(s) \/ CheckInit(s) \/ CheckLost(s)
           \/ CheckOther(s) \/ TailNotLost(s) \/ TailRecover(s) \/ TailFound(s)
  <1>1. cpc \in {"check", "tail"}
    BY CheckerHere DEF IdleAt
  <1>2. /\ ~At("op", s) /\ ~At("reconfig", s) /\ ~At("configured", s) /\ ~At("failed", s)
        /\ ~At("recover", s) /\ ~At("recovering", s)
    BY <1>1 DEF At
  <1>3. /\ ~RequestOp(s) /\ ~Reconfig(s) /\ ~AfterReconfig(s)
        /\ ~RecoverFirstWrite(s) /\ ~RecoverSecondWrite(s)
    BY <1>2, Zenon DEF RequestOp, Reconfig, AfterReconfig, RecoverFirstWrite, RecoverSecondWrite
  <1> QED
    BY <1>3 DEF CheckSlave

LEMMA CheckConfiguring ==
    ASSUME TypeOK, Threads, NEW s \in Slaves, Lives(s), Configuring(s), CheckSlave(s)
    PROVE  Plain(s)' /\ Waiting(s)'
  <1>1. AfterReconfig(s)
    BY DEF Configuring, CheckSlave, CheckOperational, CheckSafeOp, RequestOp, CheckInit, Reconfig,
           CheckLost, CheckOther, TailNotLost, TailRecover, TailFound,
           RecoverFirstWrite, RecoverSecondWrite, At
  <1>2. /\ islost'[s] = FALSE /\ hw' = hw /\ obs' = obs
        /\ dev'[s] = ResetState(dev[s]) /\ Goto("tail")
    BY <1>1 DEF AfterReconfig, Configuring, At, TypeOK
  <1>3. /\ dev'[s].mstat = dev[s].mstat /\ dev'[s].echo = dev[s].echo
        /\ dev'[s].ready = FALSE /\ dev'[s].confRos = FALSE /\ dev'[s].sstat = 1
    BY <1>2, SlaveTypes DEF ResetState, Devices
  <1>4. /\ inp'[s] = inp[s] /\ cyc' = 0 /\ ~Awaits(s)' /\ ccur = s /\ s \in Nat
    BY CheckerHere, SlaveTypes
  <1>5. IdleAt(s)' /\ ~At("failed", s)'
    BY <1>2, <1>4, PlacesOf
  <1>6. Plain(s)'
    BY <1>2, <1>3, <1>4, <1>5 DEF Lives, Plain, Blank
  <1>7. Waiting(s)'
    BY <1>2, <1>3, <1>4, <1>5 DEF Configuring, Restarting, Answers, Blank, Waiting
  <1> QED
    BY <1>6, <1>7

LEMMA CheckWaiting ==
    ASSUME TypeOK, Threads, NEW s \in Slaves, Lives(s), Waiting(s), CheckSlave(s)
    PROVE  Plain(s)' /\ (Waiting(s)' \/ Requesting(s)')
  <1>1. /\ inp'[s] = inp[s] /\ out'[s] = out[s] /\ cyc = 0 /\ cyc' = 0 /\ ~Awaits(s)'
        /\ ccur = s /\ s \in Nat
    BY CheckerHere, SlaveTypes
  <1>2. CheckSafeOp(s) \/ CheckOther(s) \/ TailNotLost(s)
    <2>1. IdleAt(s) /\ obs[s] = SAFE_OP /\ islost[s] = FALSE
      BY DEF Waiting, Restarting
    <2>2. ~CheckOperational(s) /\ ~CheckInit(s) /\ ~CheckLost(s)
      BY <2>1 DEF CheckOperational, CheckInit, CheckLost
    <2>3. ~TailRecover(s) /\ ~TailFound(s)
      BY <2>1, Zenon DEF TailRecover, TailFound
    <2> QED
      BY <2>1, <2>2, <2>3, AtATest, Zenon
  <1>3. CASE CheckOther(s) \/ TailNotLost(s)
    <2>1. dev' = dev /\ hw' = hw /\ obs' = obs /\ islost' = islost
      BY <1>3 DEF CheckOther, TailNotLost
    <2>2. IdleAt(s)' /\ ~At("failed", s)'
      BY <1>1, <1>3, PlacesOf DEF CheckOther, TailNotLost
    <2>3. Plain(s)'
      BY <1>1, <2>1, <2>2 DEF Lives, Plain, Blank
    <2>4. Waiting(s)'
      BY <1>1, <2>1, <2>2 DEF Restarting, Answers, Blank, Waiting
    <2> QED
      BY <2>3, <2>4
  <1>4. CASE CheckSafeOp(s)
    <2>1. /\ hw' = hw /\ obs' = obs /\ islost' = islost
          /\ dev'[s] = PreRecover(dev[s]) /\ Goto("op") /\ Awaits(s)
      BY <1>1, <1>4 DEF CheckSafeOp, TypeOK, Awaits, At
    <2>2. /\ dev'[s].mstat = dev[s].mstat /\ dev'[s].sstat = dev[s].sstat
          /\ dev'[s].echo = dev[s].echo /\ dev'[s].ready = dev[s].ready
      BY <2>1, SlaveTypes DEF PreRecover, Devices
    <2>3. At("op", s)' /\ ~At("failed", s)'
      BY <1>1, <2>1, PlacesOf
    <2>4. Plain(s)'
      BY <1>1, <2>1, <2>2, <2>3 DEF Lives, Plain, Blank
    <2>5. Requesting(s)'
      BY <1>1, <2>1, <2>2, <2>3 DEF Restarting, Answers, Blank, Waiting, Requesting,
             InputFresh, RecordFresh, OutputFresh
    <2> QED
      BY <2>4, <2>5
  <1> QED
    BY <1>2, <1>3, <1>4

LEMMA CheckRequesting ==
    ASSUME TypeOK, Threads, NEW s \in Slaves, Lives(s), Requesting(s), CheckSlave(s)
    PROVE  Plain(s)' /\ Handshaking(s)'
  <1>1. RequestOp(s)
    BY DEF Requesting, CheckSlave, CheckOperational, CheckSafeOp, CheckInit, Reconfig,
           AfterReconfig, CheckLost, CheckOther, TailNotLost, TailRecover, TailFound,
           RecoverFirstWrite, RecoverSecondWrite, At
  <1>2. /\ inp'[s] = inp[s] /\ out'[s] = out[s] /\ cyc' = 0 /\ ~Awaits(s)'
        /\ ccur = s /\ s \in Nat
    BY CheckerHere, SlaveTypes
  <1>3. /\ dev' = dev /\ islost' = islost /\ Goto("tail")
        /\ hw'[s] = [hw[s] EXCEPT !.al = OP] /\ obs'[s] = ALSeen(hw'[s])
    <2>1. Reachable(hw[s]) /\ hw[s].al = SAFE_OP
      BY DEF Requesting, Restarting, Answers, Reachable
    <2>2. (IF Reachable(hw[s]) /\ hw[s].al = SAFE_OP THEN OP ELSE hw[s].al) = OP
      BY <2>1
    <2>3. hw'[s] = [hw[s] EXCEPT !.al = OP]
      BY <1>1, <2>2 DEF RequestOp, TypeOK
    <2> QED
      BY <1>1, <2>3 DEF RequestOp, TypeOK
  <1>4. /\ hw'[s].al = OP /\ hw'[s].stat = hw[s].stat /\ hw'[s].args = hw[s].args
        /\ hw'[s].echo = hw[s].echo /\ hw'[s].rx = hw[s].rx /\ hw'[s].power = hw[s].power
        /\ hw'[s].link = hw[s].link /\ hw'[s].addr = hw[s].addr
    BY <1>3, SlaveTypes DEF Hardware
  <1>5. obs'[s] = OP
    BY <1>3, <1>4 DEF Requesting, Restarting, Answers, ALSeen, Reachable
  <1>6. IdleAt(s)' /\ ~At("failed", s)'
    BY <1>2, <1>3, PlacesOf
  <1>7. Plain(s)'
    BY <1>2, <1>3, <1>4, <1>6, <1>5 DEF Lives, Plain, Requesting, Restarting, Answers
  <1>8. Handshaking(s)'
    BY <1>2, <1>3, <1>4, <1>6, <1>5
    DEF Requesting, Restarting, Answers, Blank, NoOutputs, Handshaking, Attached,
        InputFresh, RecordFresh, OutputFresh
  <1> QED
    BY <1>7, <1>8

LEMMA CheckAttached ==
    ASSUME TypeOK, Threads, NEW s \in Slaves, Lives(s), CheckSlave(s), Attached(s)
    PROVE  /\ dev' = dev /\ hw' = hw /\ latest' = latest /\ atLoss' = atLoss
           /\ Handshaking(s) => Lives(s)'
           /\ Confirming(s) => Lives(s)'
  <1>1. /\ inp'[s] = inp[s] /\ out'[s] = out[s] /\ ~Awaits(s)' /\ ccur = s /\ s \in Nat
    BY CheckerHere, SlaveTypes
  <1>2. CheckOperational(s) \/ TailNotLost(s)
    <2>1. IdleAt(s) /\ obs[s] = OP /\ islost[s] = FALSE
      BY DEF Attached
    <2>2. ~CheckSafeOp(s) /\ ~CheckInit(s) /\ ~CheckLost(s) /\ ~CheckOther(s)
      BY <2>1 DEF CheckSafeOp, CheckInit, CheckLost, CheckOther
    <2>3. ~TailRecover(s) /\ ~TailFound(s)
      BY <2>1, Zenon DEF TailRecover, TailFound
    <2> QED
      BY <2>1, <2>2, <2>3, AtATest, Zenon
  <1>3. /\ dev' = dev /\ hw' = hw /\ obs' = obs /\ islost' = islost
        /\ latest' = latest /\ atLoss' = atLoss
    BY <1>2 DEF CheckOperational, TailNotLost, history
  <1>4. IdleAt(s)' /\ ~At("failed", s)'
    BY <1>1, <1>2, PlacesOf DEF CheckOperational, TailNotLost
  <1>5. Plain(s)'
    BY <1>1, <1>3, <1>4 DEF Lives, Plain, Blank
  <1>6. Attached(s)'
    BY <1>1, <1>3, <1>4 DEF Attached, Answers
  <1>7. Handshaking(s) => Lives(s)'
    BY <1>1, <1>3, <1>5, <1>6 DEF Handshaking, Lives, Stage
  <1>8. Confirming(s) => Lives(s)'
    BY <1>1, <1>3, <1>5, <1>6 DEF Confirming, Lives, Stage
  <1> QED
    BY <1>3, <1>7, <1>8

(* What the checker's member functions leave of a record.                   *)
SameContent(d, e) ==
    /\ e.m2s = d.m2s /\ e.backed = d.backed /\ e.backup = d.backup

(* Neither the status sent nor the handshake's place changes.               *)
SameProgress(d, e) ==
    /\ e.mstat = d.mstat /\ e.echo = d.echo
    /\ e.reconn = d.reconn /\ e.idx = d.idx /\ e.argSent = d.argSent

Loses(d, e) ==
    /\ SameProgress(d, e) /\ e.sstat = SLAVE_INITIALIZING
    /\ e.m2s = Forget(d.m2s) /\ e.backed = TRUE /\ e.backup = e.m2s
Resets(d, e) == SameProgress(d, e) /\ SameContent(d, e) /\ e.sstat = SLAVE_INITIALIZING
Recovers(d, e) == SameProgress(d, e) /\ SameContent(d, e) /\ e.sstat = d.sstat
Prepares(d, e) ==
    /\ SameContent(d, e)
    /\ e.mstat = d.mstat /\ e.sstat = d.sstat /\ e.echo = d.echo /\ e.ready = d.ready
    /\ e.reconn = (d.reconn + 1) % ReconnectMod /\ e.idx = 1 /\ e.argSent = FALSE
Inits(d, e, i) ==
    /\ SameContent(d, e)
    /\ e.sstat = d.sstat /\ e.echo = d.echo
    /\ e.reconn = d.reconn /\ e.idx = d.idx /\ e.argSent = d.argSent
    /\ IF i = "known" THEN e.mstat = MASTER_SENDING_ARGUMENTS /\ e.rejected = FALSE
                      ELSE e.mstat = d.mstat

LEMMA ResetSteps == \A d \in Devices : Resets(d, ResetState(d))
  BY DEF ResetState, Devices, Resets, SameProgress, SameContent

LEMMA LoseSteps ==
    ASSUME NEW d \in Devices
    PROVE  Loses(d, LoseConnection(d))
  <1> DEFINE r == ResetState(d)
             b == Forget(r.m2s)
             f == [r EXCEPT !.m2s = b]
  <1>1. LoseConnection(d) = [f EXCEPT !.backed = TRUE, !.backup = f.m2s]
    BY DEF LoseConnection, OnConnectionLost, BackupBuf, Forget
  <1>2. r \in Devices /\ Resets(d, r)
    BY CheckerTypes, ResetSteps
  <1> HIDE DEF r
  <1>3. b \in Buffers /\ b = Forget(d.m2s)
    BY <1>2, ContentTypes DEF Forget, Devices, Buffers, Resets, SameContent
  <1> HIDE DEF b
  <1>4. f \in Devices /\ SameProgress(r, f) /\ f.sstat = r.sstat /\ f.m2s = b
    BY <1>2, <1>3 DEF Devices, SameProgress
  <1> HIDE DEF f
  <1> DEFINE l == [f EXCEPT !.backed = TRUE, !.backup = f.m2s]
  <1>5. /\ SameProgress(f, l) /\ l.sstat = f.sstat /\ l.m2s = f.m2s
        /\ l.backed = TRUE /\ l.backup = f.m2s
    BY <1>4 DEF Devices, SameProgress
  <1> HIDE DEF l
  <1>6. Loses(d, l)
    BY <1>2, <1>3, <1>4, <1>5 DEF Loses, Resets, SameProgress
  <1> QED
    BY <1>1, <1>6 DEF l

LEMMA RecoverSteps ==
    ASSUME NEW d \in Devices
    PROVE  /\ Recovers(d, RecoverState(d))
           /\ Recovers(d, [d EXCEPT !.ready = TRUE])
           /\ Recovers(d, [d EXCEPT !.confRos = TRUE])
  <1>1. Recovers(d, RecoverState(d))
    BY DEF RecoverState, Devices, Recovers, SameProgress, SameContent
  <1>2. Recovers(d, [d EXCEPT !.ready = TRUE])
    BY DEF Devices, Recovers, SameProgress, SameContent
  <1>3. Recovers(d, [d EXCEPT !.confRos = TRUE])
    BY DEF Devices, Recovers, SameProgress, SameContent
  <1> QED
    BY <1>1, <1>2, <1>3

LEMMA PrepareSteps == \A d \in Devices : Prepares(d, PreRecover(d))
  BY DEF PreRecover, Devices, Prepares, SameContent

LEMMA InitSteps ==
    ASSUME NEW d \in Devices, NEW i \in Identities
    PROVE  Inits(d, ReInit(d, i), i)
  <1>1. CASE i = "foreign"
    BY <1>1 DEF ReInit, Devices, Inits, SameContent
  <1>2. CASE i = "outdated"
    BY <1>2 DEF ReInit, Devices, Inits, SameContent
  <1>3. CASE i = "known"
    BY <1>3 DEF ReInit, Devices, Inits, SameContent
  <1> QED
    BY <1>1, <1>2, <1>3 DEF Identities

(* A serving slave of which the checker changes neither status nor content. *)
LEMMA ServesOn ==
    ASSUME TypeOK, NEW s \in Slaves, Lives(s), Serving(s),
           inp'[s] = inp[s], out'[s] = out[s], ~Awaits(s)',
           dev'[s].mstat = dev[s].mstat, dev'[s].echo = dev[s].echo,
           dev'[s].sstat \in {dev[s].sstat, SLAVE_INITIALIZING},
           hw'[s].stat = hw[s].stat, hw'[s].args = hw[s].args, hw'[s].echo = hw[s].echo,
           hw'[s].rx = hw[s].rx, hw'[s].power = hw[s].power,
           hw'[s].addr = hw[s].addr \/ (hw'[s].addr = TRUE /\ hw[s].power = TRUE),
           hw'[s].al = INIT => Blank(hw[s]),
           hw[s].addr = FALSE /\ hw'[s].addr = FALSE => hw'[s].al = INIT,
           At("reconfig", s)' => hw'[s].al = INIT,
           At("configured", s)' => Blank(hw[s]) /\ hw'[s].al \in {INIT, SAFE_OP},
           ~At("failed", s)'
    PROVE  Plain(s)' /\ Serving(s)'
  <1>1. Plain(s)'
    BY DEF Lives, Plain, Blank
  <1>2. Serving(s)'
    BY DEF Serving, Blank
  <1> QED
    BY <1>1, <1>2

LEMMA CheckServing ==
    ASSUME ReconfigAnswered, TypeOK, Threads, NEW s \in Slaves, Lives(s), Serving(s),
           CheckSlave(s)
    PROVE  Plain(s)' /\ (Serving(s)' \/ Configuring(s)')
  <1> DEFINE h == hw[s]
             g == hw'[s]
             Board == /\ g.stat = h.stat /\ g.args = h.args /\ g.echo = h.echo /\ g.rx = h.rx
                      /\ g.power = h.power
             Rec == /\ dev'[s].mstat = dev[s].mstat /\ dev'[s].echo = dev[s].echo
                    /\ dev'[s].sstat \in {dev[s].sstat, SLAVE_INITIALIZING}
  <1>1. /\ inp'[s] = inp[s] /\ out'[s] = out[s] /\ ~Awaits(s)' /\ ccur = s /\ s \in Nat
    BY CheckerHere, SlaveTypes
  <1>2. /\ h.al = INIT => Blank(h)
        /\ h.addr = FALSE => h.al = INIT
        /\ h.power = FALSE => h.addr = FALSE
        /\ h \in Hardware /\ dev[s] \in Devices
    BY SlaveTypes DEF Lives, Plain
  <1>3. dev' = dev => Rec
    OBVIOUS
  <1>4. \A a \in ALStates :
           LET b == [h EXCEPT !.al = a]
           IN /\ b.stat = h.stat /\ b.args = h.args /\ b.echo = h.echo /\ b.rx = h.rx
              /\ b.power = h.power /\ b.addr = h.addr /\ b.link = h.link /\ b.al = a
    BY <1>2 DEF Hardware
  <1>5. CASE \/ CheckOperational(s) \/ CheckInit(s) \/ CheckOther(s) \/ TailNotLost(s)
    <2>1. dev' = dev /\ hw' = hw
      BY <1>5 DEF CheckOperational, CheckInit, CheckOther, TailNotLost
    <2>2. /\ ~At("configured", s)' /\ ~At("failed", s)'
          /\ At("reconfig", s)' => h.al = INIT
      <3>1. CASE CheckOperational(s) \/ CheckOther(s) \/ TailNotLost(s)
        BY <1>1, <3>1, PlacesOf DEF CheckOperational, CheckOther, TailNotLost
      <3>2. CASE CheckInit(s)
        <4>1. At("check", s) /\ obs[s] = INIT /\ (Goto("reconfig") \/ Goto("tail"))
          BY <3>2 DEF CheckInit
        <4>2. h.al = INIT
          BY <4>1 DEF Lives, Plain, Awaits, At
        <4> QED
          BY <1>1, <4>1, <4>2, PlacesOf
      <3> QED
        BY <1>5, <3>1, <3>2
    <2> HIDE DEF h, g
    <2>3. Serving(s)' /\ Plain(s)'
      BY <1>1, <1>2, <2>1, <2>2, ServesOn DEF h, g
    <2> QED
      BY <2>3
  <1>6. CASE CheckSafeOp(s) \/ CheckLost(s)
    <2>1. /\ hw' = hw /\ (Goto("op") \/ Goto("tail"))
          /\ dev'[s] = PreRecover(dev[s]) \/ dev'[s] = LoseConnection(dev[s])
      BY <1>6 DEF CheckSafeOp, CheckLost, TypeOK
    <2>5. Prepares(dev[s], dev'[s]) \/ Loses(dev[s], dev'[s])
      BY <1>2, <2>1, PrepareSteps, LoseSteps
    <2>2. Rec
      BY <2>5 DEF Prepares, Loses, SameProgress
    <2>3. ~At("configured", s)' /\ ~At("failed", s)' /\ ~At("reconfig", s)'
      BY <1>1, <2>1, PlacesOf
    <2>4. Serving(s)' /\ Plain(s)'
      BY <1>1, <1>2, <2>1, <2>2, <2>3, ServesOn
    <2> QED
      BY <2>4
  <1>7. CASE RequestOp(s)
    <2>1. dev' = dev /\ Goto("tail")
      BY <1>7 DEF RequestOp
    <2>2. \E a \in ALStates : g = [h EXCEPT !.al = a] /\ (a = h.al \/ (h.al = SAFE_OP /\ a = OP))
      <3> DEFINE a == IF Reachable(h) /\ h.al = SAFE_OP THEN OP ELSE h.al
      <3>1. a \in ALStates /\ (a = h.al \/ (h.al = SAFE_OP /\ a = OP))
        BY <1>2, ALTypes
      <3>2. g = [h EXCEPT !.al = a]
        BY <1>7 DEF RequestOp, TypeOK
      <3> HIDE DEF a
      <3> QED
        BY <3>1, <3>2
    <2>3. ~At("configured", s)' /\ ~At("failed", s)' /\ ~At("reconfig", s)'
      BY <1>1, <2>1, PlacesOf
    <2>4. Board /\ g.addr = h.addr /\ (g.al = h.al \/ (h.al = SAFE_OP /\ g.al = OP))
      <3> HIDE DEF h, g
      <3> QED
        BY <1>4, <2>2
    <2>6. /\ g.al = INIT => Blank(h)
          /\ h.addr = FALSE /\ g.addr = FALSE => g.al = INIT
          /\ g.addr = h.addr \/ (g.addr = TRUE /\ h.power = TRUE)
      BY <1>2, <2>4
    <2>7. dev'[s] = dev[s]
      BY <2>1
    <2> HIDE DEF h, g, Rec
    <2>5. Serving(s)' /\ Plain(s)'
      BY <1>1, <1>3, <2>1, <2>3, <2>4, <2>6, ServesOn DEF h, g, Rec
    <2> QED
      BY <2>5
  <1>8. CASE TailRecover(s)
    <2>1. dev' = dev /\ (Goto("recover") \/ NextSlave)
      BY <1>8, Zenon DEF TailRecover
    <2>2. ~At("configured", s)' /\ ~At("failed", s)' /\ ~At("reconfig", s)'
      BY <1>1, <2>1, PlacesOf
    <2>3. g = h \/ (h.power = TRUE /\ g = [h EXCEPT !.addr = TRUE])
      BY <1>2, <1>8 DEF TailRecover, TypeOK, Hardware
    <2>4. Board /\ g.al = h.al /\ (g.addr = h.addr \/ (g.addr = TRUE /\ h.power = TRUE))
      <3> HIDE DEF h, g
      <3> QED
        BY <1>2, <2>3 DEF Hardware
    <2>6. /\ g.al = INIT => Blank(h)
          /\ h.addr = FALSE /\ g.addr = FALSE => g.al = INIT
          /\ g.addr = h.addr \/ (g.addr = TRUE /\ h.power = TRUE)
      BY <1>2, <2>4
    <2> HIDE DEF h, g, Rec
    <2>5. Serving(s)' /\ Plain(s)'
      BY <1>1, <1>3, <2>1, <2>2, <2>4, <2>6, ServesOn DEF h, g, Rec
    <2> QED
      BY <2>5
  <1>9. CASE TailFound(s) \/ RecoverFirstWrite(s) \/ RecoverSecondWrite(s)
    <2>1. /\ hw' = hw /\ (Goto("recovering") \/ NextSlave)
          /\ \/ dev'[s] = RecoverState(dev[s])
             \/ dev'[s] = [dev[s] EXCEPT !.ready = TRUE]
             \/ dev'[s] = [dev[s] EXCEPT !.confRos = TRUE]
      BY <1>9 DEF TailFound, RecoverFirstWrite, RecoverSecondWrite, TypeOK
    <2>2. Recovers(dev[s], dev'[s])
      BY <1>2, <2>1, RecoverSteps
    <2>6. Rec
      BY <2>2 DEF Recovers, SameProgress
    <2>3. ~At("configured", s)' /\ ~At("failed", s)' /\ ~At("reconfig", s)'
      BY <1>1, <2>1, PlacesOf
    <2>4. Serving(s)' /\ Plain(s)'
      BY <1>1, <1>2, <2>1, <2>6, <2>3, ServesOn
    <2> QED
      BY <2>4
  <1>10. CASE Reconfig(s)
    <2>1. At("reconfig", s) /\ Reachable(h)
      BY <1>10, Zenon DEF Reconfig, ReconfigAnswered
    <2>2. /\ h.al = INIT /\ Blank(h) /\ Answers(h)
      BY <1>2, <2>1 DEF Serving, Reachable, Answers, Hardware
    <2>3. /\ hw' = [hw EXCEPT ![s].al = SAFE_OP] /\ obs' = [obs EXCEPT ![s] = SAFE_OP]
          /\ \E own, fit : dev' = [dev EXCEPT ![s] = ReInit(@, Identity(own, fit))]
          /\ Goto("configured")
      BY <1>10, <2>1, Zenon DEF Reconfig
    <2>4. g = [h EXCEPT !.al = SAFE_OP] /\ obs'[s] = SAFE_OP
      BY <2>3 DEF TypeOK
    <2>5. PICK i \in Identities : dev'[s] = ReInit(dev[s], i)
      <3>1. \A own, fit : Identity(own, fit) \in Identities
        BY DEF Identity, Identities
      <3> QED
        BY <2>3, <3>1 DEF TypeOK
    <2>6. /\ dev'[s].sstat = dev[s].sstat /\ dev'[s].echo = dev[s].echo
          /\ \/ dev'[s].mstat = 2 /\ dev'[s].rejected = FALSE
             \/ dev'[s].mstat = dev[s].mstat
      <3>1. Inits(dev[s], dev'[s], i)
        BY <1>2, <2>5, InitSteps
      <3> QED
        BY <3>1 DEF Inits
    <2>7. Board /\ g.al = SAFE_OP /\ g.addr = h.addr /\ g.link = h.link
      <3>1. SAFE_OP \in ALStates
        BY ALTypes
      <3> HIDE DEF h, g
      <3> QED
        BY <1>4, <2>4, <3>1
    <2>8. At("configured", s)' /\ ~At("reconfig", s)' /\ ~At("failed", s)'
      BY <1>1, <2>3, PlacesOf
    <2>9. CASE dev'[s].mstat = dev[s].mstat
      BY <1>1, <1>2, <2>2, <2>6, <2>7, <2>8, <2>9, ServesOn DEF Answers
    <2>10. CASE dev'[s].mstat = 2 /\ dev'[s].rejected = FALSE
      <3>1. Plain(s)'
        BY <1>1, <2>2, <2>6, <2>7, <2>8 DEF Lives, Plain, Answers
      <3>2. Configuring(s)'
        BY <1>1, <2>2, <2>4, <2>6, <2>7, <2>8, <2>10
        DEF Serving, Configuring, Restarting, Answers, Blank
      <3> QED
        BY <3>1, <3>2
    <2> QED
      BY <2>6, <2>9, <2>10
  <1>11. CASE AfterReconfig(s)
    <2>1. At("configured", s)
      BY <1>11 DEF AfterReconfig, Lives, Plain
    <2>2. Blank(h) /\ h.al \in {INIT, SAFE_OP}
      BY <2>1 DEF Serving
    <2>3. dev'[s] = ResetState(dev[s]) /\ Goto("tail")
      BY <1>11 DEF AfterReconfig, TypeOK
    <2>4. Rec
      BY <1>2, <2>3, ResetSteps DEF Resets, SameProgress
    <2>5. ~At("configured", s)' /\ ~At("failed", s)' /\ ~At("reconfig", s)'
      BY <1>1, <2>3, PlacesOf
    <2>6. \E a \in ALStates : g = [h EXCEPT !.al = a] /\ (a = h.al \/ a = INIT)
      <3> DEFINE a == IF Reachable(h) THEN INIT ELSE h.al
      <3>1. a \in ALStates /\ (a = h.al \/ a = INIT)
        BY <1>2, ALTypes
      <3>2. g = [h EXCEPT !.al = a] \/ g = h
        BY <1>11 DEF AfterReconfig, TypeOK
      <3>3. h = [h EXCEPT !.al = h.al] /\ h.al \in ALStates
        BY <1>2 DEF Hardware
      <3> HIDE DEF a
      <3> QED
        BY <3>1, <3>2, <3>3
    <2>7. Board /\ g.addr = h.addr /\ (g.al = h.al \/ g.al = INIT)
      <3> HIDE DEF h, g
      <3> QED
        BY <1>4, <2>6
    <2>9. /\ g.al = INIT => Blank(h)
          /\ h.addr = FALSE /\ g.addr = FALSE => g.al = INIT
          /\ g.addr = h.addr \/ (g.addr = TRUE /\ h.power = TRUE)
      BY <1>2, <2>2, <2>7
    <2> HIDE DEF h, g, Rec
    <2>8. Serving(s)' /\ Plain(s)'
      BY <1>1, <2>4, <2>5, <2>7, <2>9, ServesOn DEF h, g, Rec
    <2> QED
      BY <2>8
  <1> QED
    BY <1>5, <1>6, <1>7, <1>8, <1>9, <1>10, <1>11 DEF CheckSlave

LEMMA CheckLives ==
    ASSUME ReconfigAnswered, TypeOK, Threads, NEW s \in Slaves, Lives(s), CheckSlave(s)
    PROVE  Lives(s)'
  <1>1. CASE Configuring(s)
    BY <1>1, CheckConfiguring DEF Lives, Stage
  <1>2. CASE Waiting(s)
    BY <1>2, CheckWaiting DEF Lives, Stage
  <1>3. CASE Requesting(s)
    BY <1>3, CheckRequesting DEF Lives, Stage
  <1>4. CASE Handshaking(s) \/ Confirming(s)
    <2>1. Attached(s)
      BY <1>4 DEF Handshaking, Confirming
    <2> QED
      BY <1>4, <2>1, CheckAttached
  <1>5. CASE Serving(s)
    BY <1>5, CheckServing DEF Lives, Stage
  <1> QED
    BY <1>1, <1>2, <1>3, <1>4, <1>5 DEF Lives, Stage

-----------------------------------------------------------------------------
LivesInv == Threads /\ \A s \in Slaves : Lives(s)

LEMMA LivesStep ==
    ASSUME Recoverable, ReconfigAnswered, TypeOK, LivesInv, [Next]_vars
    PROVE  LivesInv'
  <1>1. Threads /\ Threads'
    BY ThreadsKept DEF LivesInv
  <1>2. ASSUME NEW s \in Slaves
        PROVE  Lives(s)'
    <2>1. Lives(s)
      BY DEF LivesInv
    <2>2. CASE Elsewhere(s)
      BY <2>1, <2>2, ElsewhereLives
    <2>3. CASE Receives(s)
      BY <2>1, <2>3, ReceivesLives
    <2>4. CASE Processes(s)
      BY <2>1, <2>4, ProcessesLives
    <2>5. CASE Transfers(s)
      BY <2>1, <2>5, TransfersLives
    <2>6. ASSUME NEW lost \in {"no", "out", "back"}, Exchanges(s, lost) PROVE Lives(s)'
      BY <1>1, <2>1, <2>6, ExchangesLives
    <2>7. CASE WakesAt(s)
      BY <1>1, <2>1, <2>7, WakesLives
    <2>8. CASE CheckSlave(s)
      BY <1>1, <2>1, <2>8, CheckLives
    <2>9. ASSUME NEW t \in Tasks, NEW c \in Cmds, Commands(s, t, c) PROVE Lives(s)'
      BY <2>1, <2>9, CommandsLives
    <2>10. CASE BoardOnly(s) /\ Firmware(s)
      BY <2>1, <2>10, FirmwareLives
    <2>11. CASE BoardOnly(s) /\ Fault(s)
      BY <2>1, <2>11, FaultLives
    <2>12. CASE BoardOnly(s) /\ Repair(s)
      BY <2>1, <2>12, RepairLives
    <2>13. StepAt(s)
      BY <1>1, EveryStep
    <2> QED
      BY <2>2, <2>3, <2>4, <2>5, <2>6, <2>7, <2>8, <2>9, <2>10, <2>11, <2>12, <2>13
      DEF StepAt
  <1> QED
    BY <1>1, <1>2 DEF LivesInv

LEMMA LivesReport ==
    ASSUME TypeOK, LivesInv
    PROVE  ReportsAreReports
  <1> SUFFICES ASSUME NEW s \in Slaves, Publishing(dev[s])
               PROVE  dev[s].echo = Report
    BY DEF ReportsAreReports, ReportIsReport
  <1>1. /\ dev[s] \in Devices
        /\ dev[s].sstat >= 3 \/ (dev[s].mstat = 2 /\ dev[s].sstat = 2 /\ dev[s].ready = TRUE)
    BY SlaveTypes, PublishesWhen
  <1>2. Lives(s)
    BY DEF LivesInv
  <1>3. ~(dev[s].mstat = 2 /\ dev[s].sstat = 2 /\ dev[s].ready = TRUE)
    BY <1>2 DEF Lives, Stage, Configuring, Waiting, Requesting, Restarting, Handshaking,
           Confirming, Attached, Serving
  <1> QED
    BY <1>1, <1>2, <1>3 DEF Lives, Plain

(* Through every fault and recovery, each slave is in one of the six stages *)
(* of its life.                                                             *)
THEOREM EverySlaveInAStage ==
    Recoverable => (Spec /\ []ReconfigAnswered => []LivesInv)
  <1> SUFFICES ASSUME Recoverable PROVE Spec /\ []ReconfigAnswered => []LivesInv
    OBVIOUS
  <1>1. Init => LivesInv
    BY ThreadsInit, InitLives DEF LivesInv
  <1>2. ReconfigAnswered /\ TypeOK /\ LivesInv /\ [Next]_vars => LivesInv'
    BY LivesStep
  <1> QED
    BY <1>1, <1>2, TypeCorrect, PTL DEF Spec

(* What is published is a report of the slave, for slaves that fail and     *)
(* recover too: after a restart process_pdo() never hands a task's read()   *)
(* the echo of an argument, whatever was on its way when the slave failed.  *)
THEOREM ReportsThroughRecovery ==
    Recoverable => (Spec /\ []ReconfigAnswered => []ReportsAreReports)
  <1> SUFFICES ASSUME Recoverable PROVE Spec /\ []ReconfigAnswered => []ReportsAreReports
    OBVIOUS
  <1>1. TypeOK /\ LivesInv => ReportsAreReports
    BY LivesReport
  <1> QED
    BY <1>1, EverySlaveInAStage, TypeCorrect, PTL DEF Spec

-----------------------------------------------------------------------------
(* What a step of the checker may do to a board, and to a record.           *)
LEMMA CheckerOnBoard ==
    ASSUME TypeOK, NEW s \in Slaves, CheckSlave(s)
    PROVE  /\ hw'[s].stat = hw[s].stat /\ hw'[s].rx = hw[s].rx /\ hw'[s].args = hw[s].args
           /\ hw'[s].echo = hw[s].echo /\ hw'[s].fit = hw[s].fit
  <1>1. \/ hw'[s] = hw[s] \/ hw'[s] = [hw[s] EXCEPT !.addr = TRUE]
        \/ \E a : hw'[s] = [hw[s] EXCEPT !.al = a]
    <2>1. CASE RequestOp(s)
      BY <2>1 DEF RequestOp, TypeOK
    <2>2. CASE Reconfig(s)
      <3>1. \/ hw' = [hw EXCEPT ![s].al = SAFE_OP] \/ hw' = hw
            \/ \E a : hw' = [hw EXCEPT ![s].al = a]
        BY <2>2, Zenon DEF Reconfig, LostOnTheWay
      <3> QED
        BY <3>1 DEF TypeOK
    <2>3. CASE AfterReconfig(s)
      <3>1. hw' = hw \/ \E a : hw' = [hw EXCEPT ![s].al = a]
        <4> DEFINE a == IF Reachable(hw[s]) THEN INIT ELSE hw[s].al
        <4>1. hw' = hw \/ hw' = [hw EXCEPT ![s].al = a]
          BY <2>3 DEF AfterReconfig
        <4> HIDE DEF a
        <4> QED
          BY <4>1
      <3> QED
        BY <3>1 DEF TypeOK
    <2>4. CASE TailRecover(s)
      BY <2>4 DEF TailRecover, TypeOK
    <2>5. CASE \/ CheckOperational(s) \/ CheckSafeOp(s) \/ CheckInit(s)
               \/ CheckLost(s) \/ CheckOther(s) \/ TailNotLost(s) \/ TailFound(s)
               \/ RecoverFirstWrite(s) \/ RecoverSecondWrite(s)
      BY <2>5 DEF CheckOperational, CheckSafeOp, CheckInit, CheckLost, CheckOther, TailNotLost,
             TailFound, RecoverFirstWrite, RecoverSecondWrite
    <2> QED
      BY <2>1, <2>2, <2>3, <2>4, <2>5 DEF CheckSlave
  <1> QED
    BY <1>1, SlaveTypes DEF Hardware

LEMMA CheckerOnRecord ==
    ASSUME ReconfigAnswered, TypeOK, NEW s \in Slaves, Lives(s), CheckSlave(s)
    PROVE  \/ Recovers(dev[s], dev'[s]) /\ ~Reconfig(s) /\ ~CheckLost(s)
           \/ Resets(dev[s], dev'[s]) /\ AfterReconfig(s)
           \/ Prepares(dev[s], dev'[s]) /\ CheckSafeOp(s)
           \/ Loses(dev[s], dev'[s]) /\ CheckLost(s)
           \/ /\ Reconfig(s)
              /\ \E i \in Identities : Inits(dev[s], dev'[s], i)
              /\ "rev" \notin FaultKinds /\ hw[s].fit = FALSE => dev'[s].mstat = dev[s].mstat
  <1>1. dev[s] \in Devices
    BY SlaveTypes
  <1>2. CASE \/ CheckOperational(s) \/ RequestOp(s) \/ CheckInit(s) \/ CheckOther(s)
             \/ TailNotLost(s) \/ TailRecover(s)
    <2>1. dev' = dev
      BY <1>2, Zenon DEF CheckOperational, RequestOp, CheckInit, CheckOther, TailNotLost, TailRecover
    <2>2. ~Reconfig(s) /\ ~CheckLost(s)
      <3>1. ~At("reconfig", s)
        BY <1>2, Zenon DEF CheckOperational, RequestOp, CheckInit, CheckOther, TailNotLost,
               TailRecover, At
      <3>2. CASE RequestOp(s) \/ TailNotLost(s) \/ TailRecover(s)
        BY <3>1, <3>2, Zenon DEF RequestOp, TailNotLost, TailRecover, Reconfig, CheckLost, At
      <3>3. CASE CheckOperational(s) \/ CheckInit(s) \/ CheckOther(s)
        <4>1. obs[s] # NONE \/ islost[s]
          BY <3>3 DEF CheckOperational, CheckInit, CheckOther
        <4> QED
          BY <3>1, <4>1, Zenon DEF Reconfig, CheckLost
      <3> QED
        BY <1>2, <3>2, <3>3
    <2> QED
      BY <2>1, <2>2 DEF Recovers, SameProgress, SameContent
  <1>3. CASE TailFound(s) \/ RecoverFirstWrite(s) \/ RecoverSecondWrite(s)
    <2>1. /\ \/ dev'[s] = RecoverState(dev[s])
             \/ dev'[s] = [dev[s] EXCEPT !.ready = TRUE]
             \/ dev'[s] = [dev[s] EXCEPT !.confRos = TRUE]
          /\ cpc \notin {"reconfig", "check"}
      BY <1>3 DEF TailFound, RecoverFirstWrite, RecoverSecondWrite, TypeOK, At
    <2> QED
      BY <1>1, <2>1, RecoverSteps DEF Reconfig, CheckLost, At
  <1>4. CASE AfterReconfig(s)
    BY <1>1, <1>4, ResetSteps DEF AfterReconfig, TypeOK
  <1>5. CASE CheckSafeOp(s)
    BY <1>1, <1>5, PrepareSteps DEF CheckSafeOp, TypeOK
  <1>6. CASE CheckLost(s)
    BY <1>1, <1>6, LoseSteps DEF CheckLost, TypeOK
  <1>7. CASE Reconfig(s)
    <2>1. Reachable(hw[s])
      BY <1>7, Zenon DEF Reconfig, ReconfigAnswered
    <2>2. \E own, fit : /\ dev' = [dev EXCEPT ![s] = ReInit(@, Identity(own, fit))]
                        /\ "rev" \notin FaultKinds => fit = hw[s].fit
      BY <1>7, <2>1, Zenon DEF Reconfig
    <2>3. PICK own, fit : /\ dev'[s] = ReInit(dev[s], Identity(own, fit))
                          /\ "rev" \notin FaultKinds => fit = hw[s].fit
      BY <2>2 DEF TypeOK
    <2>4. Identity(own, fit) \in Identities /\ (fit = FALSE => Identity(own, fit) # "known")
      BY DEF Identity, Identities
    <2>5. Inits(dev[s], dev'[s], Identity(own, fit))
      BY <1>1, <2>3, <2>4, InitSteps
    <2>6. fit = FALSE => dev'[s].mstat = dev[s].mstat
      BY <2>4, <2>5 DEF Inits
    <2> QED
      BY <1>7, <2>3, <2>4, <2>5, <2>6
  <1> QED
    BY <1>2, <1>3, <1>4, <1>5, <1>6, <1>7 DEF CheckSlave

-----------------------------------------------------------------------------
(* A board with too old a firmware, flashed while the power was off, has     *)
(* restarted since, and init() keeps master_status_ above the handshake.    *)
Refused(s) == hw[s].fit = FALSE => dev[s].mstat > MASTER_READY /\ hw[s].stat = SLAVE_INITIALIZING

LEMMA RefusedFault ==
    ASSUME Recoverable, TypeOK, NEW s \in Slaves, Lives(s), Refused(s), BoardOnly(s), Fault(s)
    PROVE  Refused(s)'
  <1> DEFINE h == hw[s]
             g == hw'[s]
  <1>1. dev[s].mstat > 3 /\ dev'[s] = dev[s]
    BY DEF BoardOnly, Recoverable, Fault, Unplug, PowerOff, Swap, Reflash, McuReset, FallToSafeOp,
           Watchdog, Strike
  <1>2. h \in Hardware
    BY SlaveTypes
  <1>3. CASE Unplug(s) \/ Swap(s) \/ FallToSafeOp(s) \/ Watchdog(s)
    <2>1. \/ g = [h EXCEPT !.link = FALSE] \/ g = [h EXCEPT !.own = ~h.own]
          \/ g = [h EXCEPT !.al = SAFE_OP] \/ g = [h EXCEPT !.al = SAFE_OP_ERROR]
      BY <1>3 DEF Unplug, Swap, FallToSafeOp, Watchdog, TypeOK
    <2>2. g.fit = h.fit /\ g.stat = h.stat
      <3> HIDE DEF g, h
      <3> QED
        BY <1>2, <2>1 DEF Hardware
    <2> QED
      BY <1>1, <2>2 DEF Refused
  <1>4. CASE Reflash(s)
    <2>1. g = [h EXCEPT !.fit = ~h.fit] /\ h.power = FALSE
      BY <1>2, <1>4 DEF Reflash, TypeOK, Hardware
    <2>2. h.stat = 1
      BY <2>1 DEF Lives, Plain, Blank
    <2>3. g.stat = h.stat
      <3> HIDE DEF g, h
      <3> QED
        BY <1>2, <2>1 DEF Hardware
    <2> QED
      BY <1>1, <2>2, <2>3 DEF Refused
  <1>5. CASE PowerOff(s) \/ McuReset(s)
    <2> DEFINE r == Restarted(h)
    <2>1. r \in Hardware /\ Blank(r)
      BY <1>2, RestartedBoard
    <2>2. g = r \/ g = [r EXCEPT !.power = FALSE, !.addr = FALSE]
      BY <1>5 DEF PowerOff, McuReset, TypeOK
    <2>3. g.stat = 1
      <3> HIDE DEF g, h, r
      <3> QED
        BY <2>1, <2>2 DEF Hardware, Blank
    <2> QED
      BY <1>1, <2>3 DEF Refused
  <1> QED
    BY <1>3, <1>4, <1>5 DEF Fault

LEMMA RefusedStep ==
    ASSUME Recoverable, "rev" \notin FaultKinds, ReconfigAnswered, TypeOK, Threads,
           NEW s \in Slaves, Lives(s), Refused(s), [Next]_vars
    PROVE  Refused(s)'
  <1>1. dev[s] \in Devices /\ hw[s] \in Hardware /\ hw[s].stat \in Nat
    BY SlaveTypes, StatusTypes
  <1>2. dev[s].mstat > 3 => Serving(s)
    BY DEF Lives, Stage, Configuring, Waiting, Requesting, Restarting, Handshaking, Confirming
  <1>3. CASE Elsewhere(s) \/ Transfers(s) \/ WakesAt(s)
    BY <1>3 DEF Elsewhere, Transfers, DataHere, WakesAt, Refused
  <1>4. CASE Receives(s)
    BY <1>1, <1>4 DEF Receives, DataHere, ReceiveFromSlave, Devices, Refused
  <1>5. CASE Processes(s)
    <2>1. hw'[s] = hw[s] /\ dev'[s] = ProcessSlave(dev[s])
      BY <1>5 DEF Processes, DataHere
    <2>2. dev[s].mstat > 3 => dev'[s].mstat > 3
      BY <1>1, <1>2, <2>1, ProcessSteps DEF Serving
    <2> QED
      BY <2>1, <2>2 DEF Refused
  <1>6. ASSUME NEW lost \in {"no", "out", "back"}, Exchanges(s, lost) PROVE Refused(s)'
    BY <1>1, <1>6 DEF Exchanges, Hardware, Refused
  <1>7. ASSUME NEW t \in Tasks, NEW c \in Cmds, Commands(s, t, c) PROVE Refused(s)'
    BY <1>1, <1>7 DEF Commands, OnCommand, Devices, Refused
  <1>8. CASE CheckSlave(s)
    <2>1. hw'[s].stat = hw[s].stat /\ hw'[s].fit = hw[s].fit
      BY <1>8, CheckerOnBoard
    <2>2. hw[s].fit = FALSE => dev'[s].mstat = dev[s].mstat
      BY <1>8, CheckerOnRecord DEF Recovers, Resets, Prepares, Loses, SameProgress
    <2> QED
      BY <2>1, <2>2 DEF Refused
  <1>9. CASE BoardOnly(s) /\ Firmware(s)
    <2>1. /\ FirmwareChange(hw[s], hw'[s])
          /\ Parses(hw[s], hw'[s]) \/ Announces(hw[s], hw'[s]) \/ Echoes(hw[s], hw'[s])
          /\ dev'[s] = dev[s]
      BY <1>9, FirmwareSteps DEF BoardOnly
    <2>2. dev[s].mstat > 3 /\ hw[s].stat = 1 => Parses(hw[s], hw'[s])
      BY <1>2, <2>1 DEF Serving, Announces, Echoes
    <2> QED
      BY <2>1, <2>2 DEF FirmwareChange, Parses, Refused
  <1>10. CASE BoardOnly(s) /\ Fault(s)
    BY <1>10, RefusedFault
  <1>11. CASE BoardOnly(s) /\ Repair(s)
    <2>1. \/ hw'[s] = [hw[s] EXCEPT !.link = TRUE] \/ hw'[s] = [hw[s] EXCEPT !.power = TRUE]
      BY <1>11 DEF Repair, TypeOK
    <2> QED
      BY <1>1, <1>11, <2>1 DEF BoardOnly, Hardware, Refused
  <1>12. StepAt(s)
    BY EveryStep
  <1> QED
    BY <1>3, <1>4, <1>5, <1>6, <1>7, <1>8, <1>9, <1>10, <1>11, <1>12 DEF StepAt

(* A board that comes back with too old a firmware is not driven, although  *)
(* init() does not reject it and the checker takes it to OP: through every  *)
(* fault but a failed read of the revision (find_foreign_board shows what a *)
(* failed read does to the serial number), it is never offered arguments    *)
(* and so never gets past SLAVE_INITIALIZING.                               *)
THEOREM OutdatedThroughRecovery ==
    Recoverable /\ "rev" \notin FaultKinds =>
        (Spec /\ []ReconfigAnswered => []OutdatedNotDriven)
  <1> SUFFICES ASSUME Recoverable, "rev" \notin FaultKinds
               PROVE  Spec /\ []ReconfigAnswered => []OutdatedNotDriven
    OBVIOUS
  <1> DEFINE RefusedInv == \A s \in Slaves : Refused(s)
  <1>1. Init => RefusedInv
    BY DEF Init, FreshHardware, Refused
  <1>2. ReconfigAnswered /\ TypeOK /\ LivesInv /\ RefusedInv /\ [Next]_vars => RefusedInv'
    BY RefusedStep DEF LivesInv
  <1>3. TypeOK /\ RefusedInv => OutdatedNotDriven
    BY StatusTypes DEF Refused, OutdatedNotDriven, Driven
  <1> HIDE DEF RefusedInv
  <1> QED
    BY <1>1, <1>2, <1>3, EverySlaveInAStage, TypeCorrect, PTL DEF Spec

-----------------------------------------------------------------------------
(* Where the checker's step comes from, judged by what it leads to.         *)
LEMMA CheckerMoves ==
    ASSUME ReconfigAnswered, TypeOK, Threads, NEW s \in Slaves, Lives(s), CheckSlave(s)
    PROVE  /\ hw'[s].al = INIT /\ hw'[s].addr = TRUE =>
                 \/ hw[s].al = INIT /\ hw[s].addr = TRUE
                 \/ islost[s] = TRUE \/ At("configured", s)
           /\ hw'[s].al = SAFE_OP => hw[s].al = SAFE_OP \/ Reconfig(s)
           /\ hw'[s].al = OP => hw[s].al = OP \/ At("op", s)
           /\ islost'[s] = TRUE => islost[s] = TRUE \/ CheckLost(s)
           /\ At("configured", s)' => Reconfig(s)
           /\ At("op", s)' => CheckSafeOp(s)
           /\ ~CheckLost(s) => latest' = latest /\ atLoss' = atLoss
           /\ Reconfig(s) => /\ hw[s].al = INIT /\ hw[s].addr = TRUE
                             /\ hw'[s].al = SAFE_OP /\ At("configured", s)'
  <1>1. ccur = s /\ s \in Nat /\ hw[s] \in Hardware /\ islost[s] \in BOOLEAN
    BY CheckerHere, SlaveTypes
  <1>2. INIT # OP /\ INIT # SAFE_OP /\ OP # SAFE_OP
    OBVIOUS
  <1>3. CASE CheckOperational(s) \/ CheckInit(s) \/ CheckOther(s) \/ TailNotLost(s)
    <2>1. /\ hw' = hw /\ islost' = islost /\ latest' = latest /\ atLoss' = atLoss
          /\ Goto("tail") \/ Goto("reconfig") \/ NextSlave
      BY <1>3 DEF CheckOperational, CheckInit, CheckOther, TailNotLost, history
    <2>2. ~At("configured", s)' /\ ~At("op", s)'
      BY <1>1, <2>1, PlacesOf
    <2>3. ~Reconfig(s)
      BY <1>3 DEF CheckOperational, CheckInit, CheckOther, TailNotLost, Reconfig, At
    <2> QED
      BY <2>1, <2>2, <2>3
  <1>4. CASE CheckSafeOp(s)
    <2>1. /\ hw' = hw /\ islost' = islost /\ latest' = latest /\ atLoss' = atLoss
          /\ Goto("op")
      BY <1>4 DEF CheckSafeOp, history
    <2>2. ~At("configured", s)' /\ ~Reconfig(s)
      BY <1>1, <1>4, <2>1, PlacesOf DEF CheckSafeOp, Reconfig, At
    <2> QED
      BY <1>4, <2>1, <2>2
  <1>5. CASE RequestOp(s)
    <2>1. /\ islost' = islost /\ latest' = latest /\ atLoss' = atLoss
          /\ Goto("tail") /\ At("op", s)
      BY <1>5 DEF RequestOp, history
    <2>2. ~At("configured", s)' /\ ~Reconfig(s) /\ ~At("op", s)'
      BY <1>1, <2>1, PlacesOf DEF Reconfig, At
    <2>3. \E a : hw'[s] = [hw[s] EXCEPT !.al = a] /\ (a = hw[s].al \/ (hw[s].al = SAFE_OP /\ a = OP))
      <3> DEFINE a == IF Reachable(hw[s]) /\ hw[s].al = SAFE_OP THEN OP ELSE hw[s].al
      <3>1. hw'[s] = [hw[s] EXCEPT !.al = a]
        BY <1>5 DEF RequestOp, TypeOK
      <3>2. a = hw[s].al \/ (hw[s].al = SAFE_OP /\ a = OP)
        OBVIOUS
      <3> HIDE DEF a
      <3> QED
        BY <3>1, <3>2
    <2>4. hw'[s].addr = hw[s].addr /\ (hw'[s].al = hw[s].al \/ (hw[s].al = SAFE_OP /\ hw'[s].al = OP))
      BY <1>1, <2>3 DEF Hardware
    <2> QED
      BY <1>2, <2>1, <2>2, <2>4
  <1>6. CASE Reconfig(s)
    <2>1. At("reconfig", s) /\ Reachable(hw[s])
      BY <1>6, Zenon DEF Reconfig, ReconfigAnswered
    <2>2. /\ hw' = [hw EXCEPT ![s].al = SAFE_OP] /\ islost' = islost
          /\ latest' = latest /\ atLoss' = atLoss /\ Goto("configured")
      BY <1>6, <2>1, Zenon DEF Reconfig, history
    <2>3. hw'[s].al = SAFE_OP /\ hw[s].addr = TRUE
      BY <1>1, <2>1, <2>2 DEF TypeOK, Hardware, Reachable
    <2>4. At("configured", s)' /\ ~At("op", s)'
      BY <1>1, <2>2, PlacesOf
    <2>5. hw[s].al = INIT
      BY <2>1 DEF Lives, Stage, Configuring, Waiting, Requesting, Restarting, Handshaking,
             Confirming, Attached, IdleAt, Serving, At
    <2> QED
      BY <1>2, <1>6, <2>2, <2>3, <2>4, <2>5
  <1>7. CASE AfterReconfig(s)
    <2>1. At("configured", s)
      BY <1>7 DEF AfterReconfig, Lives, Plain
    <2>2. /\ latest' = latest /\ atLoss' = atLoss /\ Goto("tail")
          /\ islost'[s] = TRUE => islost[s] = TRUE
      BY <1>1, <1>7 DEF AfterReconfig, history, TypeOK
    <2>3. \E a : hw'[s] = [hw[s] EXCEPT !.al = a] /\ (a = hw[s].al \/ a = INIT)
      <3> DEFINE a == IF Reachable(hw[s]) THEN INIT ELSE hw[s].al
      <3>1. hw'[s] = [hw[s] EXCEPT !.al = a] \/ hw'[s] = hw[s]
        BY <1>7 DEF AfterReconfig, TypeOK
      <3>2. a = hw[s].al \/ a = INIT
        OBVIOUS
      <3>3. hw[s] = [hw[s] EXCEPT !.al = hw[s].al]
        BY <1>1 DEF Hardware
      <3> HIDE DEF a
      <3> QED
        BY <3>1, <3>2, <3>3
    <2>4. hw'[s].al = hw[s].al \/ hw'[s].al = INIT
      BY <1>1, <2>3 DEF Hardware
    <2>5. ~At("configured", s)' /\ ~At("op", s)' /\ ~Reconfig(s)
      BY <1>1, <2>1, <2>2, PlacesOf DEF Reconfig, At
    <2> QED
      BY <1>2, <2>1, <2>2, <2>4, <2>5
  <1>8. CASE CheckLost(s)
    <2>1. hw' = hw /\ Goto("tail") /\ At("check", s)
      BY <1>8 DEF CheckLost
    <2>2. ~At("configured", s)' /\ ~At("op", s)' /\ ~Reconfig(s)
      BY <1>1, <2>1, PlacesOf DEF Reconfig, At
    <2> QED
      BY <1>8, <2>1, <2>2
  <1>9. CASE TailRecover(s)
    <2>1. /\ latest' = latest /\ atLoss' = atLoss /\ (Goto("recover") \/ NextSlave)
          /\ islost[s] = TRUE /\ At("tail", s)
      BY <1>1, <1>9, Zenon DEF TailRecover, history
    <2>2. ~At("configured", s)' /\ ~At("op", s)' /\ ~Reconfig(s)
      BY <1>1, <2>1, PlacesOf DEF Reconfig, At
    <2>3. hw'[s] = hw[s] \/ hw'[s] = [hw[s] EXCEPT !.addr = TRUE]
      BY <1>9 DEF TailRecover, TypeOK
    <2>4. hw'[s].al = hw[s].al
      BY <1>1, <2>3 DEF Hardware
    <2> QED
      BY <2>1, <2>2, <2>4
  <1>10. CASE TailFound(s) \/ RecoverFirstWrite(s) \/ RecoverSecondWrite(s)
    <2>1. /\ hw' = hw /\ latest' = latest /\ atLoss' = atLoss
          /\ islost'[s] = TRUE => islost[s] = TRUE
          /\ Goto("recovering") \/ NextSlave
      BY <1>10 DEF TailFound, RecoverFirstWrite, RecoverSecondWrite, history, TypeOK
    <2>2. ~At("configured", s)' /\ ~At("op", s)'
      BY <1>1, <2>1, PlacesOf
    <2>3. cpc # "reconfig"
      BY <1>10 DEF TailFound, RecoverFirstWrite, RecoverSecondWrite, At
    <2>4. ~Reconfig(s)
      BY <2>3 DEF Reconfig, At
    <2> QED
      BY <2>1, <2>2, <2>4
  <1> QED
    BY <1>3, <1>4, <1>5, <1>6, <1>7, <1>8, <1>9, <1>10 DEF CheckSlave

-----------------------------------------------------------------------------
(* What the buffers hold while the status that goes with them drives the    *)
(* slave: default values and commands.  The values a client means and those *)
(* kept at the last loss are such; a record that was backed up holds the    *)
(* latter; and a slave that restarted, was found lost or is set up again    *)
(* has been backed up, so that what fills the buffer after the arguments is *)
(* the backup and never what send_arg() left.                               *)
Content(s) ==
    /\ Clean(latest[s]) /\ Clean(atLoss[s])
    /\ dev[s].backed = TRUE => dev[s].backup = atLoss[s]
    /\ dev[s].mstat >= MASTER_READY => Clean(dev[s].m2s)
    /\ out[s].stat >= MASTER_READY => Clean(out[s].buf)
    /\ hw[s].rx.stat >= MASTER_READY => Clean(hw[s].rx.buf)
    /\ hw[s].al = INIT /\ hw[s].addr = TRUE => dev[s].backed = TRUE
    /\ islost[s] = TRUE => dev[s].backed = TRUE
    /\ At("configured", s) => dev[s].backed = TRUE
    /\ dev[s].mstat = MASTER_SENDING_ARGUMENTS => dev[s].backed = TRUE \/ dev[s].reconn = 0
    /\ dev[s].mstat = MASTER_SENDING_ARGUMENTS /\ hw[s].al = SAFE_OP => dev[s].backed = TRUE

LEMMA CleanContents ==
    /\ Clean(Const(InitVal))
    /\ \A b \in Buffers : Clean(b) => Clean(Forget(b))
    /\ \A b \in Buffers, t \in Tasks, c \in Cmds : Clean(b) => Clean([b EXCEPT ![t] = Cmd(c)])
  BY DEF Clean, Const, InitVal, Forget, Buffers, Cmd

LEMMA ContentProcesses ==
    ASSUME TypeOK, NEW s \in Slaves, Lives(s), Content(s), Processes(s)
    PROVE  Content(s)'
  <1> DEFINE d == dev[s]
             p == dev'[s]
  <1>1. d \in Devices /\ p = ProcessSlave(d)
    BY SlaveTypes DEF Processes
  <1>2. /\ inp'[s] = inp[s] /\ hw'[s] = hw[s] /\ out'[s] = out[s]
        /\ islost'[s] = islost[s] /\ cpc' = cpc /\ ccur' = ccur
        /\ latest'[s] = latest[s] /\ atLoss'[s] = atLoss[s]
    BY DEF Processes, DataHere, CheckerPlace
  <1>3. p.reconn = d.reconn /\ p.backed = d.backed /\ p.backup = d.backup
    BY <1>1, ProcessSteps DEF SameRest
  <1>4. /\ d.mstat = 2 /\ d.sstat # 2 => p.mstat = 2
        /\ d.mstat = 2 /\ d.sstat = 2 /\ d.ready = FALSE => p.mstat \in {2, 3}
        /\ d.mstat = 2 /\ p.mstat = 3 /\ d.ready = FALSE =>
              (d.reconn = 0 \/ d.backed = TRUE => p.m2s = Filling(d))
        /\ d.mstat = 3 => p.m2s = d.m2s
        /\ d.mstat = 3 /\ d.sstat # 3 => p.mstat = 3
        /\ d.mstat = 3 /\ d.sstat = 3 => p = d \/ p.mstat = 4
        /\ d.mstat > 3 /\ d.sstat # 2 => p.mstat > 3 /\ p.m2s = d.m2s
    BY <1>1, ProcessSteps
  <1>5. /\ d.mstat = 2 => (d.sstat # 2 \/ d.ready = FALSE)
        /\ d.mstat > 3 => d.sstat # 2
    BY DEF Lives, Stage, Configuring, Waiting, Requesting, Restarting, Handshaking, Confirming,
           Attached, Serving
  <1>6. (d.mstat = 2 \/ d.mstat = 3 \/ d.mstat > 3) /\ d.mstat \in Nat
    BY <1>1 DEF Devices
  <1>7. d.mstat = 3 => p.mstat >= 3
    <2> HIDE DEF d, p
    <2> QED
      BY <1>4
  <1>8. d.mstat = 2 => p.mstat \in {2, 3}
    BY <1>4, <1>5, StatusTypes
  <1>9. d.mstat = 2 /\ p.mstat = 3 => p.m2s = Filling(d)
    BY <1>4, <1>5 DEF Content
  <1>10. d.mstat = 2 => Clean(Filling(d))
    BY CleanContents DEF Filling, Content
  <1> HIDE DEF d, p
  <1>11. p.mstat >= 3 => Clean(p.m2s)
    <2>1. CASE d.mstat = 2
      BY <1>8, <1>9, <1>10, <2>1
    <2>2. CASE d.mstat = 3 \/ d.mstat > 3
      <3>1. Clean(d.m2s)
        BY <1>6, <2>2 DEF Content, d
      <3>2. p.m2s = d.m2s
        <4> HIDE DEF d, p
        <4> QED
          BY <1>4, <1>5, <2>2
      <3> QED
        BY <3>1, <3>2
    <2> QED
      BY <1>6, <2>1, <2>2
  <1>12. p.mstat = 2 => d.mstat = 2
    BY <1>4, <1>5, <1>6, <1>7
  <1> QED
    BY <1>2, <1>3, <1>11, <1>12 DEF Content, At, d, p

LEMMA ContentChecker ==
    ASSUME ReconfigAnswered, TypeOK, Threads, NEW s \in Slaves, Lives(s), Content(s),
           CheckSlave(s)
    PROVE  Content(s)'
  <1> DEFINE d == dev[s]
             e == dev'[s]
  <1>1. out'[s] = out[s] /\ hw'[s].rx = hw[s].rx
    BY CheckerHere, CheckerOnBoard
  <1>2. d \in Devices /\ d.m2s \in Buffers /\ latest[s] \in Buffers
    BY SlaveTypes DEF Devices
  <1>3. CASE CheckLost(s)
    <2>1. /\ ~At("op", s) /\ islost[s] = FALSE /\ obs[s] = NONE
          /\ latest'[s] = Forget(latest[s]) /\ atLoss'[s] = Forget(d.m2s)
          /\ hw' = hw
      BY <1>3, SlaveTypes DEF CheckLost, At, TypeOK
    <2>2. Serving(s)
      BY <2>1 DEF Lives, Stage, Configuring, Waiting, Requesting, Restarting, Handshaking,
             Confirming, Attached, OP, SAFE_OP, NONE
    <2>3. Loses(d, e)
      BY <1>2, <1>3, LoseSteps DEF CheckLost, TypeOK
    <2>4. d.mstat > 3 /\ d.mstat \in Nat
      BY <1>2, <2>2 DEF Serving, Devices
    <2>5. Clean(latest[s]) /\ Clean(d.m2s)
      BY <2>4 DEF Content
    <2>6. Clean(latest[s])' /\ Clean(Forget(d.m2s))
      BY <1>2, <2>1, <2>5, CleanContents
    <2>7. e.backed = TRUE /\ e.backup = atLoss'[s] /\ e.m2s = Forget(d.m2s) /\ e.mstat = d.mstat
      BY <2>1, <2>3 DEF Loses, SameProgress
    <2> HIDE DEF d, e
    <2>8. Clean(atLoss[s])' /\ Clean(e.m2s)
      BY <2>1, <2>6, <2>7
    <2> QED
      BY <1>1, <2>4, <2>6, <2>7, <2>8 DEF Content, d, e
  <1>4. CASE ~CheckLost(s)
    <2>1. /\ latest' = latest /\ atLoss' = atLoss
          /\ hw'[s].al = INIT /\ hw'[s].addr = TRUE =>
                 \/ hw[s].al = INIT /\ hw[s].addr = TRUE
                 \/ islost[s] = TRUE \/ At("configured", s)
          /\ hw'[s].al = SAFE_OP => hw[s].al = SAFE_OP \/ Reconfig(s)
          /\ islost'[s] = TRUE => islost[s] = TRUE
          /\ At("configured", s)' => Reconfig(s)
          /\ Reconfig(s) => hw[s].al = INIT /\ hw[s].addr = TRUE /\ hw'[s].al = SAFE_OP
      BY <1>4, CheckerMoves
    <2>2. /\ e.m2s = d.m2s /\ e.backed = d.backed /\ e.backup = d.backup
          /\ e.mstat = d.mstat \/ (Reconfig(s) /\ e.mstat = 2)
          /\ e.reconn = d.reconn \/ CheckSafeOp(s)
      BY <1>4, CheckerOnRecord
      DEF Recovers, Resets, Prepares, Inits, SameProgress, SameContent, Identities
    <2>3. CheckSafeOp(s) /\ d.mstat = 2 => d.backed = TRUE
      <3>1. SUFFICES ASSUME CheckSafeOp(s), d.mstat = 2 PROVE d.backed = TRUE
        OBVIOUS
      <3>2. At("check", s) /\ obs[s] = SAFE_OP
        BY <3>1 DEF CheckSafeOp
      <3>3. hw[s].al = SAFE_OP
        BY <3>1, <3>2 DEF Lives, Stage, Configuring, Waiting, Requesting, Restarting,
               Handshaking, Confirming, Attached, Serving, OP, SAFE_OP
      <3> QED
        BY <3>1, <3>3 DEF Content
    <2>4. Reconfig(s) => d.backed = TRUE
      BY <2>1 DEF Content
    <2>5. d.mstat \in Nat
      BY <1>2 DEF Devices
    <2> HIDE DEF d, e
    <2>6. e.mstat = 2 => e.backed = TRUE \/ e.reconn = 0
      BY <2>2, <2>3, <2>4 DEF Content, d
    <2>7. e.mstat >= 3 => Clean(e.m2s)
      BY <2>2, <2>5 DEF Content, d
    <2>8. /\ islost'[s] = TRUE => e.backed = TRUE
          /\ At("configured", s)' => e.backed = TRUE
          /\ hw'[s].al = INIT /\ hw'[s].addr = TRUE => e.backed = TRUE
          /\ e.mstat = 2 /\ hw'[s].al = SAFE_OP => e.backed = TRUE
      BY <2>1, <2>2, <2>4 DEF Content, d
    <2> QED
      BY <1>1, <2>1, <2>2, <2>6, <2>7, <2>8 DEF Content, d, e
  <1> QED
    BY <1>3, <1>4

LEMMA ContentBoard ==
    ASSUME Recoverable, "mcureset" \notin FaultKinds, TypeOK, NEW s \in Slaves, Lives(s),
           Content(s), BoardOnly(s), Firmware(s) \/ Fault(s) \/ Repair(s)
    PROVE  Content(s)'
  <1> DEFINE h == hw[s]
             g == hw'[s]
  <1>1. /\ dev'[s] = dev[s] /\ out'[s] = out[s] /\ islost'[s] = islost[s]
        /\ latest'[s] = latest[s] /\ atLoss'[s] = atLoss[s] /\ cpc' = cpc /\ ccur' = ccur
    BY DEF BoardOnly, CheckerPlace
  <1>2. h \in Hardware
    BY SlaveTypes
  <1>3. ASSUME g.rx = h.rx \/ g.rx = NoOutputs,
               g.al = INIT /\ g.addr = TRUE => h.al = INIT /\ h.addr = TRUE,
               g.al = SAFE_OP => h.al = SAFE_OP \/ dev[s].mstat > 3
        PROVE  Content(s)'
    BY <1>1, <1>3 DEF Content, NoOutputs, At
  <1>4. CASE Firmware(s)
    BY <1>3, <1>4, FirmwareSteps DEF FirmwareChange
  <1>5. CASE Unplug(s) \/ Swap(s) \/ Reflash(s) \/ Repair(s)
    <2>1. \/ g = [h EXCEPT !.link = FALSE] \/ g = [h EXCEPT !.own = ~h.own]
          \/ g = [h EXCEPT !.fit = ~h.fit]
          \/ g = [h EXCEPT !.link = TRUE] \/ g = [h EXCEPT !.power = TRUE]
      BY <1>5 DEF Unplug, Swap, Reflash, Repair, TypeOK
    <2>2. g.rx = h.rx /\ g.al = h.al /\ g.addr = h.addr
      <3> HIDE DEF g, h
      <3> QED
        BY <1>2, <2>1 DEF Hardware
    <2> QED
      BY <1>3, <2>2
  <1>6. CASE FallToSafeOp(s) \/ Watchdog(s)
    <2>1. /\ g = [h EXCEPT !.al = SAFE_OP] \/ g = [h EXCEPT !.al = SAFE_OP_ERROR]
          /\ dev[s].mstat > 3
      BY <1>6 DEF FallToSafeOp, Watchdog, Strike, Recoverable, TypeOK
    <2>2. g.rx = h.rx /\ g.addr = h.addr /\ (g.al = SAFE_OP \/ g.al = SAFE_OP_ERROR)
      <3> HIDE DEF g, h
      <3> QED
        BY <1>2, <2>1 DEF Hardware
    <2>3. g.al # INIT
      BY <2>2
    <2> HIDE DEF g, h
    <2> QED
      BY <1>3, <2>1, <2>2, <2>3
  <1>7. CASE PowerOff(s)
    <2> DEFINE r == Restarted(h)
    <2>1. r \in Hardware /\ Blank(r) /\ r.al = INIT
      BY <1>2, RestartedBoard
    <2>2. g = [r EXCEPT !.power = FALSE, !.addr = FALSE]
      BY <1>7 DEF PowerOff, TypeOK
    <2>3. g.rx = NoOutputs /\ g.addr = FALSE /\ g.al = INIT
      <3> HIDE DEF g, h, r
      <3> QED
        BY <2>1, <2>2 DEF Hardware, Blank
    <2>4. g.al # SAFE_OP
      BY <2>3
    <2> HIDE DEF g, h
    <2> QED
      BY <1>3, <2>3, <2>4
  <1>8. ~McuReset(s)
    BY DEF McuReset, Strike
  <1> QED
    BY <1>4, <1>5, <1>6, <1>7, <1>8 DEF Fault

LEMMA ContentStep ==
    ASSUME Recoverable, "mcureset" \notin FaultKinds, ReconfigAnswered, TypeOK, Threads,
           NEW s \in Slaves, Lives(s), Content(s), [Next]_vars
    PROVE  Content(s)'
  <1>1. /\ dev[s] \in Devices /\ hw[s] \in Hardware
        /\ dev[s].m2s \in Buffers /\ latest[s] \in Buffers
    BY SlaveTypes DEF Devices
  <1>2. CASE Elsewhere(s)
    BY <1>2 DEF Elsewhere, Content
  <1>3. CASE Receives(s)
    <2>1. /\ dev'[s].mstat = dev[s].mstat /\ dev'[s].m2s = dev[s].m2s
          /\ dev'[s].backed = dev[s].backed /\ dev'[s].backup = dev[s].backup
          /\ dev'[s].reconn = dev[s].reconn
      BY <1>1, <1>3 DEF Receives, ReceiveFromSlave, Devices
    <2> QED
      BY <1>3, <2>1 DEF Receives, DataHere, CheckerPlace, Content, At
  <1>4. CASE Processes(s)
    BY <1>4, ContentProcesses
  <1>5. CASE Transfers(s)
    BY <1>5 DEF Transfers, DataHere, CheckerPlace, Content, At
  <1>6. ASSUME NEW lost \in {"no", "out", "back"}, Exchanges(s, lost) PROVE Content(s)'
    <2>1. /\ hw'[s].rx = hw[s].rx \/ hw'[s].rx = out[s]
          /\ hw'[s].al = hw[s].al /\ hw'[s].addr = hw[s].addr
      BY <1>1, <1>6 DEF Exchanges, Hardware
    <2> QED
      BY <1>6, <2>1 DEF Exchanges, CheckerPlace, Content, At
  <1>7. CASE WakesAt(s)
    BY <1>7 DEF WakesAt, Content, At
  <1>8. CASE CheckSlave(s)
    BY <1>8, ContentChecker
  <1>9. ASSUME NEW t \in Tasks, NEW c \in Cmds, Commands(s, t, c) PROVE Content(s)'
    <2>1. /\ dev'[s].mstat = dev[s].mstat /\ dev'[s].backed = dev[s].backed
          /\ dev'[s].backup = dev[s].backup /\ dev'[s].reconn = dev[s].reconn
          /\ dev'[s].m2s = [dev[s].m2s EXCEPT ![t] = Cmd(c)]
          /\ latest'[s] = [latest[s] EXCEPT ![t] = Cmd(c)]
      BY <1>1, <1>9 DEF Commands, OnCommand, Devices
    <2>2. Clean(latest[s])' /\ (dev'[s].mstat >= 3 => Clean(dev'[s].m2s))
      <3>1. Clean(latest[s]) /\ (dev[s].mstat >= 3 => Clean(dev[s].m2s))
        BY DEF Content
      <3> QED
        BY <1>1, <2>1, <3>1, CleanContents
    <2> QED
      BY <1>9, <2>1, <2>2 DEF Commands, CheckerPlace, Content, At
  <1>10. CASE BoardOnly(s) /\ (Firmware(s) \/ Fault(s) \/ Repair(s))
    BY <1>10, ContentBoard
  <1>11. StepAt(s)
    BY EveryStep
  <1> QED
    BY <1>2, <1>3, <1>4, <1>5, <1>6, <1>7, <1>8, <1>9, <1>10, <1>11 DEF StepAt

ContentInv == \A s \in Slaves : Content(s)

LEMMA ContentInit == Init => ContentInv
  BY CleanContents DEF Init, FreshDevice, FreshHardware, NoOutputs, ContentInv, Content, At

LEMMA ContentAlways ==
    Recoverable /\ "mcureset" \notin FaultKinds =>
        (Spec /\ []ReconfigAnswered => []ContentInv)
  <1> SUFFICES ASSUME Recoverable, "mcureset" \notin FaultKinds
               PROVE  Spec /\ []ReconfigAnswered => []ContentInv
    OBVIOUS
  <1>1. ReconfigAnswered /\ TypeOK /\ LivesInv /\ ContentInv /\ [Next]_vars => ContentInv'
    BY ContentStep DEF LivesInv, ContentInv
  <1> QED
    BY <1>1, ContentInit, EverySlaveInAStage, TypeCorrect, PTL DEF Spec

(* Through every fault and recovery but a restart of the firmware alone     *)
(* (find_mcu_restart), the outputs that drive a slave are default values or *)
(* commands somebody published: neither the argument bytes send_arg() wrote *)
(* in the same buffer nor memory that nobody initialised.                   *)
THEOREM NoPhantomThroughRecovery ==
    Recoverable /\ "mcureset" \notin FaultKinds =>
        (Spec /\ []ReconfigAnswered => []NoPhantomCommand)
  <1> SUFFICES ASSUME Recoverable, "mcureset" \notin FaultKinds
               PROVE  Spec /\ []ReconfigAnswered => []NoPhantomCommand
    OBVIOUS
  <1>1. ContentInv => NoPhantomCommand
    BY DEF ContentInv, Content, NoPhantomCommand, NoPhantom, Driven
  <1> QED
    BY <1>1, ContentAlways, PTL

-----------------------------------------------------------------------------
(* reconnected_times_ has room for one more reconnection: it is what tells  *)
(* the first configuration, which writes default values, from the others,   *)
(* which restore the backup, and at 256 it would be 0 again.                *)
CounterHasRoom == \A s \in Slaves : dev[s].reconn + 1 < ReconnectMod

(* The buffer of a working slave holds what is meant; nothing was meant at  *)
(* a loss that never was; and when the handshake after a loss fills the     *)
(* buffer, the reconnection has been counted.                               *)
Remembers(s) ==
    /\ dev[s].mstat >= MASTER_READY =>
          \A t \in Tasks : dev[s].m2s[t] \in {latest[s][t], atLoss[s][t]}
    /\ dev[s].backed = FALSE => atLoss[s] = Const(InitVal)
    /\ /\ dev[s].mstat = MASTER_SENDING_ARGUMENTS /\ dev[s].backed = TRUE
       /\ hw[s].al = OP \/ At("op", s)
       => dev[s].reconn >= 1

LEMMA RemembersProcesses ==
    ASSUME TypeOK, NEW s \in Slaves, Lives(s), Content(s), Remembers(s), Processes(s)
    PROVE  Remembers(s)'
  <1> DEFINE d == dev[s]
             p == dev'[s]
  <1>1. d \in Devices /\ p = ProcessSlave(d)
    BY SlaveTypes DEF Processes
  <1>2. /\ hw'[s] = hw[s] /\ cpc' = cpc /\ ccur' = ccur
        /\ latest'[s] = latest[s] /\ atLoss'[s] = atLoss[s]
    BY DEF Processes, DataHere, CheckerPlace
  <1>3. p.reconn = d.reconn /\ p.backed = d.backed /\ p.backup = d.backup
    BY <1>1, ProcessSteps DEF SameRest
  <1>4. /\ d.mstat = 2 /\ d.sstat # 2 => p.mstat = 2
        /\ d.mstat = 2 /\ d.sstat = 2 /\ d.ready = FALSE => p.mstat \in {2, 3}
        /\ d.mstat = 2 /\ p.mstat = 3 /\ d.ready = FALSE =>
              (d.reconn = 0 \/ d.backed = TRUE => p.m2s = Filling(d))
        /\ d.mstat = 3 => p.m2s = d.m2s
        /\ d.mstat = 3 /\ d.sstat # 3 => p.mstat = 3
        /\ d.mstat = 3 /\ d.sstat = 3 => p = d \/ p.mstat = 4
        /\ d.mstat > 3 /\ d.sstat # 2 => p.mstat > 3 /\ p.m2s = d.m2s
    BY <1>1, ProcessSteps
  <1>5. /\ d.mstat = 2 => (d.sstat # 2 \/ d.ready = FALSE)
        /\ d.mstat = 2 /\ d.sstat = 2 => hw[s].al = OP
        /\ d.mstat > 3 => d.sstat # 2
    BY DEF Lives, Stage, Configuring, Waiting, Requesting, Restarting, Handshaking, Confirming,
           Attached, Serving
  <1>6. /\ d.mstat = 2 \/ d.mstat = 3 \/ d.mstat > 3
        /\ d.mstat \in Nat /\ d.reconn \in Nat /\ d.backed \in BOOLEAN
    BY <1>1 DEF Devices
  <1>7. d.mstat = 3 => p.mstat >= 3
    <2> HIDE DEF d, p
    <2> QED
      BY <1>4
  <1>8. d.mstat = 2 => p.mstat \in {2, 3}
    BY <1>4, <1>5, StatusTypes
  <1>9. d.mstat = 2 /\ p.mstat = 3 =>
            /\ p.m2s = Filling(d) /\ (d.reconn = 0 \/ d.backed = TRUE)
            /\ d.sstat = 2
    BY <1>4, <1>5 DEF Content
  <1>10. d.mstat = 2 /\ p.mstat = 3 => p.m2s = atLoss[s]
    <2>1. SUFFICES ASSUME d.mstat = 2, p.mstat = 3 PROVE p.m2s = atLoss[s]
      OBVIOUS
    <2>2. hw[s].al = OP /\ p.m2s = Filling(d) /\ (d.reconn = 0 \/ d.backed = TRUE)
      BY <1>5, <1>9, <2>1
    <2>3. CASE d.backed = TRUE
      BY <1>6, <2>1, <2>2, <2>3 DEF Remembers, Content, Filling
    <2>4. CASE d.backed = FALSE
      BY <2>2, <2>4 DEF Remembers, Filling
    <2> QED
      BY <1>6, <2>3, <2>4
  <1> HIDE DEF d, p
  <1>11. p.mstat >= 3 => \A t \in Tasks : p.m2s[t] \in {latest[s][t], atLoss[s][t]}
    <2>1. CASE d.mstat = 2
      BY <1>8, <1>10, <2>1
    <2>2. CASE d.mstat = 3 \/ d.mstat > 3
      <3>1. \A t \in Tasks : d.m2s[t] \in {latest[s][t], atLoss[s][t]}
        <4>1. dev[s].mstat >= MASTER_READY
          BY <1>6, <2>2 DEF d
        <4> QED
          BY <4>1, Zenon DEF Remembers, d
      <3>2. p.m2s = d.m2s
        <4> HIDE DEF d, p
        <4> QED
          BY <1>4, <1>5, <2>2
      <3> QED
        BY <3>1, <3>2
    <2> QED
      BY <1>6, <2>1, <2>2
  <1>12. p.mstat = 2 => d.mstat = 2
    BY <1>4, <1>5, <1>6, <1>7
  <1> QED
    BY <1>2, <1>3, <1>11, <1>12 DEF Remembers, At, d, p

LEMMA RemembersChecker ==
    ASSUME ReconfigAnswered, CounterHasRoom, TypeOK, Threads, NEW s \in Slaves, Lives(s),
           Content(s), Remembers(s), CheckSlave(s)
    PROVE  Remembers(s)'
  <1> DEFINE d == dev[s]
             e == dev'[s]
  <1>1. d \in Devices /\ d.mstat \in Nat /\ d.reconn \in Nat
    BY SlaveTypes DEF Devices
  <1>2. CASE CheckLost(s)
    <2>1. /\ obs[s] = NONE /\ atLoss'[s] = Forget(d.m2s)
      BY <1>2 DEF CheckLost, TypeOK
    <2>2. Serving(s)
      <3>1. IdleAt(s)
        BY <1>2 DEF CheckLost, IdleAt, At
      <3> QED
        BY <2>1 DEF Lives, Stage, Configuring, Waiting, Requesting, Restarting, Handshaking,
           Confirming, Attached
    <2>3. Loses(d, e)
      BY <1>1, <1>2, LoseSteps DEF CheckLost, TypeOK
    <2>4. e.backed = TRUE /\ e.m2s = atLoss'[s] /\ e.mstat > 3
      BY <2>1, <2>2, <2>3 DEF Loses, SameProgress, Serving
    <2> HIDE DEF d, e
    <2> QED
      BY <2>4 DEF Remembers, e
  <1>3. CASE ~CheckLost(s)
    <2>1. /\ latest' = latest /\ atLoss' = atLoss
          /\ hw'[s].al = OP => hw[s].al = OP \/ At("op", s)
          /\ At("op", s)' => CheckSafeOp(s)
          /\ Reconfig(s) => hw'[s].al = SAFE_OP /\ At("configured", s)'
      BY <1>3, CheckerMoves
    <2>2. /\ e.m2s = d.m2s /\ e.backed = d.backed
          /\ e.mstat = d.mstat \/ (Reconfig(s) /\ e.mstat = 2)
          /\ e.reconn = d.reconn \/ (CheckSafeOp(s) /\ e.reconn = (d.reconn + 1) % ReconnectMod)
      BY <1>3, CheckerOnRecord
      DEF Recovers, Resets, Prepares, Inits, SameProgress, SameContent, Identities
    <2>3. CheckSafeOp(s) => e.reconn >= 1
      <3>1. SUFFICES ASSUME CheckSafeOp(s) PROVE e.reconn >= 1
        OBVIOUS
      <3>2. e.reconn = (d.reconn + 1) % ReconnectMod
        BY <1>1, <3>1, PrepareSteps DEF CheckSafeOp, Prepares, TypeOK
      <3>3. d.reconn + 1 \in 1 .. (ReconnectMod - 1) /\ ReconnectMod \in Nat
        BY <1>1 DEF CounterHasRoom
      <3>4. \A n \in 1 .. (ReconnectMod - 1) : n % ReconnectMod = n
        BY <3>3
      <3> QED
        BY <3>2, <3>3, <3>4
    <2>4. Reconfig(s) => hw'[s].al # OP /\ ~At("op", s)'
      BY <2>1 DEF At
    <2> HIDE DEF d, e
    <2>5. e.mstat >= 3 => e.mstat = d.mstat
      BY <2>2
    <2>6. e.mstat = 2 /\ e.backed = TRUE /\ (hw'[s].al = OP \/ At("op", s)') => e.reconn >= 1
      BY <1>1, <2>1, <2>2, <2>3, <2>4 DEF Remembers, d
    <2>7. e.mstat >= 3 => \A t \in Tasks : e.m2s[t] \in {latest[s][t], atLoss[s][t]}'
      BY <2>1, <2>2, <2>5 DEF Remembers, d
    <2> QED
      BY <2>1, <2>2, <2>6, <2>7 DEF Remembers, d, e
  <1> QED
    BY <1>2, <1>3

LEMMA RemembersBoard ==
    ASSUME Recoverable, TypeOK, NEW s \in Slaves, Remembers(s), BoardOnly(s),
           Firmware(s) \/ Fault(s) \/ Repair(s)
    PROVE  Remembers(s)'
  <1> DEFINE h == hw[s]
             g == hw'[s]
  <1>1. /\ dev'[s] = dev[s] /\ latest'[s] = latest[s] /\ atLoss'[s] = atLoss[s]
        /\ cpc' = cpc /\ ccur' = ccur
    BY DEF BoardOnly, CheckerPlace
  <1>2. Fault(s) => dev[s].mstat > 3
    BY DEF Recoverable, Fault, Unplug, PowerOff, Swap, Reflash, McuReset, FallToSafeOp,
           Watchdog, Strike
  <1>3. Firmware(s) => g.al = h.al
    BY FirmwareSteps DEF FirmwareChange
  <1>4. Repair(s) => g.al = h.al
    <2>1. h \in Hardware /\ (Repair(s) => g = [h EXCEPT !.link = TRUE] \/ g = [h EXCEPT !.power = TRUE])
      BY SlaveTypes DEF Repair, TypeOK
    <2> HIDE DEF g, h
    <2> QED
      BY <2>1 DEF Hardware
  <1> QED
    BY <1>1, <1>2, <1>3, <1>4 DEF Remembers, At

LEMMA RemembersStep ==
    ASSUME Recoverable, ReconfigAnswered, CounterHasRoom, TypeOK, Threads,
           NEW s \in Slaves, Lives(s), Content(s), Remembers(s), [Next]_vars
    PROVE  Remembers(s)'
  <1>1. /\ dev[s] \in Devices /\ hw[s] \in Hardware
        /\ dev[s].m2s \in Buffers /\ latest[s] \in Buffers
    BY SlaveTypes DEF Devices
  <1>2. CASE Elsewhere(s)
    BY <1>2 DEF Elsewhere, Remembers
  <1>3. CASE Receives(s)
    <2>1. /\ dev'[s].mstat = dev[s].mstat /\ dev'[s].m2s = dev[s].m2s
          /\ dev'[s].backed = dev[s].backed /\ dev'[s].reconn = dev[s].reconn
      BY <1>1, <1>3 DEF Receives, ReceiveFromSlave, Devices
    <2> QED
      BY <1>3, <2>1 DEF Receives, DataHere, CheckerPlace, Remembers, At
  <1>4. CASE Processes(s)
    BY <1>4, RemembersProcesses
  <1>5. CASE Transfers(s)
    BY <1>5 DEF Transfers, DataHere, CheckerPlace, Remembers, At
  <1>6. ASSUME NEW lost \in {"no", "out", "back"}, Exchanges(s, lost) PROVE Remembers(s)'
    <2>1. hw'[s].al = hw[s].al
      BY <1>1, <1>6 DEF Exchanges, Hardware
    <2> QED
      BY <1>6, <2>1 DEF Exchanges, CheckerPlace, Remembers, At
  <1>7. CASE WakesAt(s)
    BY <1>7 DEF WakesAt, Remembers, At
  <1>8. CASE CheckSlave(s)
    BY <1>8, RemembersChecker
  <1>9. ASSUME NEW t \in Tasks, NEW c \in Cmds, Commands(s, t, c) PROVE Remembers(s)'
    <2>1. /\ dev'[s].mstat = dev[s].mstat /\ dev'[s].backed = dev[s].backed
          /\ dev'[s].reconn = dev[s].reconn
          /\ dev'[s].m2s = [dev[s].m2s EXCEPT ![t] = Cmd(c)]
          /\ latest'[s] = [latest[s] EXCEPT ![t] = Cmd(c)] /\ atLoss'[s] = atLoss[s]
      BY <1>1, <1>9 DEF Commands, OnCommand, Devices
    <2>2. \A u \in Tasks : dev[s].m2s[u] \in {latest[s][u], atLoss[s][u]} =>
                           dev'[s].m2s[u] \in {latest'[s][u], atLoss'[s][u]}
      BY <1>1, <2>1 DEF Buffers
    <2> QED
      BY <1>9, <2>1, <2>2 DEF Commands, CheckerPlace, Remembers, At
  <1>10. CASE BoardOnly(s) /\ (Firmware(s) \/ Fault(s) \/ Repair(s))
    BY <1>10, RemembersBoard
  <1>11. StepAt(s)
    BY EveryStep
  <1> QED
    BY <1>2, <1>3, <1>4, <1>5, <1>6, <1>7, <1>8, <1>9, <1>10, <1>11 DEF StepAt

(* Once a slave works again, its buffer holds the latest command of every   *)
(* task or what was in force when the loss was noticed, however often it    *)
(* failed, unless the firmware restarts alone (find_mcu_restart) or the     *)
(* count of its reconnections comes round to 0.                             *)
THEOREM CommandsKeptThroughRecovery ==
    Recoverable /\ "mcureset" \notin FaultKinds =>
        (Spec /\ []ReconfigAnswered /\ []CounterHasRoom => []CommandKept)
  <1> SUFFICES ASSUME Recoverable, "mcureset" \notin FaultKinds
               PROVE  Spec /\ []ReconfigAnswered /\ []CounterHasRoom => []CommandKept
    OBVIOUS
  <1> DEFINE RemembersInv == \A s \in Slaves : Remembers(s)
  <1>1. Init => RemembersInv
    BY DEF Init, FreshDevice, FreshHardware, Remembers, At
  <1>2. /\ ReconfigAnswered /\ CounterHasRoom /\ TypeOK /\ LivesInv /\ ContentInv /\ RemembersInv
        /\ [Next]_vars
        => RemembersInv'
    BY RemembersStep DEF LivesInv, ContentInv
  <1>3. TypeOK /\ RemembersInv => CommandKept
    <2> SUFFICES ASSUME TypeOK, RemembersInv, NEW s \in Slaves PROVE Kept(s)
      BY DEF CommandKept
    <2>1. dev[s].mstat # 2 => dev[s].mstat >= 3
      BY StatusTypes
    <2> QED
      BY <2>1 DEF Remembers, Kept
  <1> HIDE DEF RemembersInv
  <1> QED
    BY <1>1, <1>2, <1>3, ContentAlways, EverySlaveInAStage, TypeCorrect, PTL DEF Spec

-----------------------------------------------------------------------------
(* The argument.  Wherever a frame that says SENDING_ARGUMENTS is on its    *)
(* way out, it carries no argument beyond the one send_arg() is at; so the  *)
(* slave has nothing beyond it either.  Wherever the echo of an argument is *)
(* on its way back, the slave has that argument; so send_arg() goes on to   *)
(* the next one only when the slave has all the ones before it.             *)
Places == 1 .. ArgLen
Good(args, i) == args[i] = "good"
Carries(buf, n) ==
    \/ buf[HeadTask] = Zero
    \/ \E j \in Places : j <= n /\ buf[HeadTask] = Arg(j)

TransferDevice(d, args) ==
    /\ \A i \in Places : i < d.idx => Good(args, i)
    /\ \A i \in Places : i > d.idx => args[i] = "none"
    /\ \A i \in Places : d.echo = Arg(i) => Good(args, i)
    /\ d.argSent = TRUE \/ d.mstat # MASTER_SENDING_ARGUMENTS => \A i \in Places : Good(args, i)
    /\ d.mstat = MASTER_SENDING_ARGUMENTS => Carries(d.m2s, d.idx)

Transferring(s) ==
    /\ TransferDevice(dev[s], hw[s].args)
    /\ \A i \in Places : hw[s].args[i] \in {"none", "good"}
    /\ \A i \in Places : Arg(i) \in {hw[s].echo, inp[s].echo} => Good(hw[s].args, i)
    /\ out[s].stat = MASTER_SENDING_ARGUMENTS => Carries(out[s].buf, dev[s].idx)
    /\ hw[s].rx.stat = MASTER_SENDING_ARGUMENTS => Carries(hw[s].rx.buf, dev[s].idx)

TransferInv == \A s \in Slaves \ FaultySlaves : Transferring(s)

LEMMA ArgFacts ==
    /\ \A i, j : Arg(i) = Arg(j) => i = j
    /\ \A i : Arg(i) # Zero /\ Arg(i) # Report /\ Arg(i).kind = "arg" /\ Arg(i).val = i
    /\ Zero.kind = "zero"
  BY DEF Arg, Zero, Report

LEMMA CarriesMore == \A buf, m, n : m \in Nat /\ n \in Nat /\ m <= n /\ Carries(buf, m) => Carries(buf, n)
  BY DEF Carries, Places

(* The stages of the data cycle.                                            *)
LEMMA SendArgTransfers ==
    ASSUME NEW d \in Devices, NEW a, TransferDevice(d, a)
    PROVE  TransferDevice(SendingArgs(d), a) /\ SendingArgs(d).idx >= d.idx
  <1>1. CASE ~(d.mstat = MASTER_SENDING_ARGUMENTS /\ ~d.argSent)
    BY <1>1 DEF SendingArgs, Devices
  <1>2. CASE d.mstat = MASTER_SENDING_ARGUMENTS /\ ~d.argSent /\ Confirmed(d) /\ d.idx = ArgLen
    <2>1. SendingArgs(d) = [d EXCEPT !.argSent = TRUE]
      BY <1>2 DEF SendingArgs, SendArg
    <2>2. \A i \in Places : Good(a, i)
      <3>1. \A i \in Places : i < d.idx \/ i = d.idx
        BY <1>2 DEF Places
      <3>2. ArgLen \in Places
        BY DEF Places
      <3> QED
        BY <1>2, <3>1, <3>2 DEF TransferDevice, Confirmed
    <2> QED
      BY <2>1, <2>2 DEF TransferDevice, Devices
  <1>3. CASE d.mstat = MASTER_SENDING_ARGUMENTS /\ ~d.argSent /\ ~(Confirmed(d) /\ d.idx = ArgLen)
    <2> DEFINE n == IF Confirmed(d) THEN d.idx + 1 ELSE d.idx
               buf == [d.m2s EXCEPT ![HeadTask] = Arg(n)]
               e == [d EXCEPT !.idx = n, !.m2s = buf]
    <2>1. SendingArgs(d) = e
      BY <1>3 DEF SendingArgs, SendArg
    <2>2. n \in Places /\ n >= d.idx /\ d.idx \in Places
      BY <1>3 DEF Devices, Places
    <2>3. \A i \in Places : i < n => Good(a, i)
      <3>1. CASE Confirmed(d)
        <4>1. \A i \in Places : i < n => i < d.idx \/ i = d.idx
          BY <2>2, <3>1 DEF Places
        <4> QED
          BY <3>1, <4>1 DEF TransferDevice, Confirmed
      <3>2. CASE ~Confirmed(d)
        BY <3>2 DEF TransferDevice
      <3> QED
        BY <3>1, <3>2
    <2>4. \A i \in Places : i > n => a[i] = "none"
      <3>1. \A i \in Places : i > n => i > d.idx
        BY <2>2 DEF Places
      <3> QED
        BY <3>1 DEF TransferDevice
    <2>5. buf[HeadTask] = Arg(n)
      BY DEF Devices, Buffers
    <2>6. Carries(buf, n)
      <3> HIDE DEF n, buf
      <3> QED
        BY <2>2, <2>5 DEF Carries, Places
    <2> HIDE DEF n, buf
    <2>7. /\ e.idx = n /\ e.m2s = buf /\ e.echo = d.echo /\ e.argSent = d.argSent
          /\ e.mstat = d.mstat
      BY DEF Devices
    <2> HIDE DEF e
    <2> QED
      BY <2>1, <2>2, <2>3, <2>4, <2>6, <2>7 DEF TransferDevice
  <1> QED
    BY <1>1, <1>2, <1>3

LEMMA LeaveHandshakeTransfers ==
    ASSUME NEW d \in Devices, NEW a, TransferDevice(d, a)
    PROVE  TransferDevice(LeaveHandshake(d), a) /\ LeaveHandshake(d).idx = d.idx
  <1>1. CASE ~(~d.ready /\ d.argSent /\ d.sstat = SLAVE_READY)
    BY <1>1 DEF LeaveHandshake
  <1>2. CASE ~d.ready /\ d.argSent /\ d.sstat = SLAVE_READY
    <2> DEFINE e == Activate(d)
    <2>1. /\ e.idx = d.idx /\ e.echo = d.echo /\ e.argSent = d.argSent /\ e.mstat = MASTER_READY
      BY DEF Activate, WriteInitValues, RecoverBuf, Devices
    <2>2. LeaveHandshake(d) = e
      BY <1>2 DEF LeaveHandshake
    <2>3. MASTER_READY # MASTER_SENDING_ARGUMENTS
      BY DEF MASTER_READY, MASTER_SENDING_ARGUMENTS
    <2>4. d.argSent = TRUE
      BY <1>2 DEF Devices
    <2> HIDE DEF e
    <2> QED
      BY <2>1, <2>2, <2>3, <2>4 DEF TransferDevice
  <1> QED
    BY <1>1, <1>2

LEMMA WorkingTransfers ==
    ASSUME NEW d \in Devices, NEW a, NEW l, SoundDevice(d, l), TransferDevice(d, a)
    PROVE  TransferDevice(Working(d), a) /\ Working(d).idx = d.idx
  <1>1. CASE ~(d.ready /\ d.sstat = d.mstat)
    BY <1>1 DEF Working, ProcessPdo
  <1>2. CASE d.ready /\ d.sstat = d.mstat
    <2> DEFINE e == [d EXCEPT !.mstat = NextStatus(d.mstat)]
    <2>1. Working(d) = e
      BY <1>2 DEF Working, ProcessPdo
    <2>2. d.mstat # MASTER_SENDING_ARGUMENTS /\ NextStatus(d.mstat) # MASTER_SENDING_ARGUMENTS
      BY <1>2 DEF SoundDevice, NextStatus, MASTER_READY, MASTER_SENDING_ARGUMENTS, Devices
    <2>3. /\ e.idx = d.idx /\ e.echo = d.echo /\ e.argSent = d.argSent
          /\ e.mstat = NextStatus(d.mstat)
      BY DEF Devices
    <2> HIDE DEF e
    <2> QED
      BY <2>1, <2>2, <2>3 DEF TransferDevice
  <1> QED
    BY <1>1, <1>2

LEMMA ProcessTransfers ==
    ASSUME NEW d \in Devices, NEW a, NEW l, SoundDevice(d, l), TransferDevice(d, a)
    PROVE  TransferDevice(ProcessSlave(d), a) /\ ProcessSlave(d).idx >= d.idx
  <1> DEFINE x == SetReady(d)
             y == SendingArgs(x)
             z == LeaveHandshake(y)
  <1>1. x \in Devices /\ SoundDevice(x, l) /\ TransferDevice(x, a) /\ x.idx = d.idx
    <2>1. x \in Devices /\ SoundDevice(x, l)
      BY SetReadySound
    <2>2. x = d \/ x = [d EXCEPT !.ready = TRUE]
      BY DEF SetReady
    <2>3. /\ x.idx = d.idx /\ x.echo = d.echo /\ x.argSent = d.argSent
          /\ x.mstat = d.mstat /\ x.m2s = d.m2s
      BY <2>2 DEF Devices
    <2> HIDE DEF x
    <2> QED
      BY <2>1, <2>3 DEF TransferDevice
  <1> HIDE DEF x
  <1>2. y \in Devices /\ SoundDevice(y, l) /\ TransferDevice(y, a) /\ y.idx >= x.idx
    BY <1>1, SendingArgsSound, SendArgTransfers
  <1> HIDE DEF y
  <1>3. z \in Devices /\ SoundDevice(z, l) /\ TransferDevice(z, a) /\ z.idx = y.idx
    BY <1>2, LeaveHandshakeSound, LeaveHandshakeTransfers
  <1> HIDE DEF z
  <1>4. TransferDevice(Working(z), a) /\ Working(z).idx = z.idx
    BY <1>3, WorkingTransfers
  <1>5. CASE d.confRos
    <2>1. ProcessSlave(d) = Working(z)
      BY <1>5 DEF ProcessSlave, x, y, z
    <2>2. Working(z).idx >= d.idx
      BY <1>1, <1>2, <1>3, <1>4 DEF Devices
    <2> QED
      BY <1>4, <2>1, <2>2
  <1>6. CASE ~d.confRos
    BY <1>6 DEF ProcessSlave, Devices
  <1> QED
    BY <1>5, <1>6

LEMMA TransferInit == Init => TransferInv
  <1> SUFFICES ASSUME Init, NEW s \in Slaves PROVE Transferring(s)
    BY DEF TransferInv
  <1>1. /\ dev[s] = FreshDevice /\ hw[s] = FreshHardware /\ out[s] = NoOutputs
        /\ inp[s].echo = Zero
    BY DEF Init
  <1>2. \A i \in Places : ~(i < 1) /\ FreshHardware.args[i] = "none"
    BY DEF Places, FreshHardware, NoArgs
  <1>3. /\ FreshDevice.idx = 1 /\ FreshDevice.echo = Zero /\ FreshDevice.argSent = FALSE
        /\ FreshDevice.mstat = MASTER_SENDING_ARGUMENTS /\ FreshDevice.m2s[HeadTask] = Zero
        /\ FreshHardware.echo = Zero /\ FreshHardware.rx = NoOutputs
    BY DEF FreshDevice, FreshHardware, Const
  <1>4. NoOutputs.stat # MASTER_SENDING_ARGUMENTS
    BY DEF NoOutputs, MASTER_SENDING_ARGUMENTS
  <1>5. TransferDevice(FreshDevice, FreshHardware.args)
    BY <1>2, <1>3, ArgFacts DEF TransferDevice, Carries
  <1> QED
    BY <1>1, <1>2, <1>3, <1>4, <1>5, ArgFacts DEF Transferring

LEMMA TransferData ==
    ASSUME TypeOK, NEW s \in Slaves, Sound(s), Transferring(s), DataThread
    PROVE  Transferring(s)'
  <1> DEFINE n == dev[s].idx
  <1>1. /\ dev[s] \in Devices /\ hw[s] \in Hardware /\ inp[s] \in Inputs /\ out[s] \in Outputs
        /\ n \in Nat
    BY DEF TypeOK, Devices
  <1>2. CASE ReceiveSlave
    <2>1. hw' = hw /\ inp' = inp /\ out' = out
      BY <1>2 DEF ReceiveSlave
    <2>2. dev'[s] = dev[s] \/ dev'[s] = ReceiveFromSlave(dev[s], inp[s])
      BY <1>2 DEF ReceiveSlave, TypeOK
    <2> DEFINE e == ReceiveFromSlave(dev[s], inp[s])
    <2>3. /\ e.idx = n /\ e.echo = inp[s].echo /\ e.argSent = dev[s].argSent
          /\ e.mstat = dev[s].mstat /\ e.m2s = dev[s].m2s
      BY <1>1 DEF ReceiveFromSlave, Devices
    <2> HIDE DEF e
    <2>4. TransferDevice(e, hw[s].args)
      BY <2>3 DEF Transferring, TransferDevice
    <2> QED
      BY <2>1, <2>2, <2>3, <2>4 DEF Transferring, e
  <1>3. CASE ProcessOne
    <2>1. hw' = hw /\ inp' = inp /\ out' = out
      BY <1>3 DEF ProcessOne
    <2>2. dev'[s] = dev[s] \/ dev'[s] = ProcessSlave(dev[s])
      BY <1>3 DEF ProcessOne, TypeOK
    <2> DEFINE e == ProcessSlave(dev[s])
    <2>3. TransferDevice(e, hw[s].args) /\ e.idx >= n
      BY <1>1, ProcessTransfers DEF Sound, Transferring
    <2>4. e.idx \in Nat
      BY <1>1, ProcessSlaveType DEF Devices
    <2> HIDE DEF e
    <2>5. \A buf : Carries(buf, n) => Carries(buf, e.idx)
      BY <1>1, <2>3, <2>4, CarriesMore
    <2>6. dev'[s] = dev[s] \/ dev'[s] = e
      BY <2>2 DEF e
    <2> QED
      BY <2>1, <2>3, <2>5, <2>6 DEF Transferring
  <1>4. CASE TransferSlave
    <2>1. hw' = hw /\ inp' = inp /\ dev' = dev
      BY <1>4 DEF TransferSlave
    <2>2. out'[s] = out[s] \/ out'[s] = [stat |-> dev[s].mstat, buf |-> dev[s].m2s]
      BY <1>4 DEF TransferSlave, TypeOK
    <2> QED
      BY <2>1, <2>2 DEF Transferring, TransferDevice
  <1>5. ASSUME NEW lost \in {"no", "out", "back"}, Exchange(lost)
        PROVE  Transferring(s)'
    <2>1. dev' = dev /\ out' = out
      BY <1>5 DEF Exchange
    <2>2. inp'[s] = inp[s] \/ inp'[s] = [stat |-> hw[s].stat, echo |-> hw[s].echo]
      BY <1>5 DEF Exchange
    <2>3. hw'[s] = hw[s] \/ hw'[s] = [hw[s] EXCEPT !.rx = out[s]]
      BY <1>5 DEF Exchange
    <2>4. /\ hw'[s].args = hw[s].args /\ hw'[s].echo = hw[s].echo
          /\ hw'[s].rx = hw[s].rx \/ hw'[s].rx = out[s]
      BY <1>1, <2>3 DEF Hardware
    <2>5. inp'[s].echo \in {inp[s].echo, hw[s].echo}
      BY <2>2
    <2> QED
      BY <2>1, <2>4, <2>5 DEF Transferring
  <1> QED
    BY <1>2, <1>3, <1>4, <1>5 DEF DataThread

(* The slave parses an argument: one it has, or the next one.               *)
Parsed(h, j) == [h EXCEPT !.args = [h.args EXCEPT ![j] = "good"], !.echo = Arg(j)]

ParsesNext(s) ==
    \E j \in Places :
        /\ j <= dev[s].idx
        /\ hw'[s] = Parsed(hw[s], j)
        /\ hw[s].rx.stat = MASTER_SENDING_ARGUMENTS

LEMMA ParsesOnlyArguments ==
    ASSUME TypeOK, NEW s \in Slaves, Transferring(s), TakeArg(s)
    PROVE  ParsesNext(s)
  <1> DEFINE head == hw[s].rx.buf[HeadTask]
  <1>1. hw[s].rx.stat = MASTER_SENDING_ARGUMENTS /\ Carries(hw[s].rx.buf, dev[s].idx)
    BY DEF TakeArg, Transferring
  <1>2. head.kind \in {"arg", "cmd", "init"}
    BY DEF TakeArg
  <1>3. PICK j \in Places : j <= dev[s].idx /\ head = Arg(j)
    BY <1>1, <1>2, ArgFacts DEF Carries
  <1>4. head.kind = "arg" /\ head.val = j
    BY <1>3, ArgFacts
  <1>5. hw' = [hw EXCEPT ![s].args = [@ EXCEPT ![j] = "good"], ![s].echo = Arg(j)]
    BY <1>4 DEF TakeArg
  <1>6. hw'[s] = [hw[s] EXCEPT !.args = [hw[s].args EXCEPT ![j] = "good"], !.echo = Arg(j)]
    BY <1>5 DEF TypeOK
  <1> QED
    BY <1>1, <1>3, <1>6 DEF ParsesNext, Parsed

LEMMA ParsedArgs ==
    ASSUME NEW h \in Hardware, NEW j \in Places
    PROVE  /\ Parsed(h, j).args[j] = "good"
           /\ \A i \in Places : i # j => Parsed(h, j).args[i] = h.args[i]
           /\ Parsed(h, j).echo = Arg(j) /\ Parsed(h, j).rx = h.rx
           /\ Parsed(h, j).al = h.al /\ Parsed(h, j).stat = h.stat
  <1> DEFINE a == [h.args EXCEPT ![j] = "good"]
  <1>1. h.args \in [Places -> {"none", "good", "bad"}]
    BY DEF Hardware, Places
  <1>2. a[j] = "good" /\ \A i \in Places : i # j => a[i] = h.args[i]
    BY <1>1
  <1> HIDE DEF a
  <1>3. Parsed(h, j) = [h EXCEPT !.args = a, !.echo = Arg(j)]
    BY DEF a, Parsed
  <1> QED
    BY <1>2, <1>3 DEF Hardware

LEMMA TransferFirmware ==
    ASSUME TypeOK, HealthyInv, NEW s \in Slaves \ FaultySlaves, Transferring(s),
           NEW x \in Slaves, Firmware(x) \/ Fault(x) \/ Repair(x)
    PROVE  Transferring(s)'
  <1>1. hw[s] \in Hardware /\ Healthy(s) /\ dev[s] \in Devices
    BY DEF TypeOK, HealthyInv
  <1>2. dev' = dev /\ inp' = inp /\ out' = out
    BY DEF Firmware, TakeArg, ReportReady, EchoStatus, Fault, Unplug, PowerOff, Swap,
           Reflash, McuReset, FallToSafeOp, Watchdog, Strike, Repair, master
  <1>3. CASE x # s
    <2>1. hw'[s] = hw[s]
      BY <1>3 DEF Firmware, TakeArg, ReportReady, EchoStatus, Fault, Unplug, PowerOff,
             Swap, Reflash, McuReset, FallToSafeOp, Watchdog, Repair, TypeOK
    <2> QED
      BY <1>2, <2>1 DEF Transferring
  <1>4. CASE x = s
    <2>1. Firmware(s)
      BY <1>1, <1>4 DEF Healthy, Fault, Unplug, PowerOff, Swap, Reflash, McuReset, FallToSafeOp,
             Watchdog, Strike, Repair
    <2>2. CASE TakeArg(s)
      <3>1. PICK j \in Places : j <= dev[s].idx /\ hw'[s] = Parsed(hw[s], j)
        BY <2>2, ParsesOnlyArguments DEF ParsesNext
      <3>2. /\ Good(hw'[s].args, j) /\ \A i \in Places : i # j => hw'[s].args[i] = hw[s].args[i]
            /\ hw'[s].echo = Arg(j) /\ hw'[s].rx = hw[s].rx
        <4>1. hw'[s] = Parsed(hw[s], j)
          BY <3>1
        <4>2. /\ Parsed(hw[s], j).args[j] = "good"
              /\ \A i \in Places : i # j => Parsed(hw[s], j).args[i] = hw[s].args[i]
              /\ Parsed(hw[s], j).echo = Arg(j) /\ Parsed(hw[s], j).rx = hw[s].rx
          <5>1. hw[s] \in Hardware /\ j \in Places
            BY <1>1, <3>1
          <5> QED
            BY <5>1, ParsedArgs
        <4> QED
          BY <4>1, <4>2, Zenon DEF Good
      <3>3. \A i \in Places : Good(hw[s].args, i) => Good(hw'[s].args, i)
        BY <3>2 DEF Good
      <3>4. \A i \in Places : i > dev[s].idx => i # j
        BY <1>1, <3>1 DEF Places, Devices
      <3>5. TransferDevice(dev[s], hw'[s].args)
        BY <3>2, <3>3, <3>4 DEF Transferring, TransferDevice
      <3>6. \A i \in Places : hw'[s].args[i] \in {"none", "good"}
        BY <3>2 DEF Transferring, Good
      <3>7. \A i \in Places : Arg(i) \in {hw'[s].echo, inp[s].echo} => Good(hw'[s].args, i)
        BY <3>2, <3>3, ArgFacts DEF Transferring
      <3> QED
        BY <1>2, <3>2, <3>5, <3>6, <3>7 DEF Transferring
    <2>3. CASE ReportReady(s)
      <3>1. hw'[s] = [hw[s] EXCEPT !.stat = SLAVE_READY]
        BY <2>3 DEF ReportReady, TypeOK
      <3>2. hw'[s].args = hw[s].args /\ hw'[s].echo = hw[s].echo /\ hw'[s].rx = hw[s].rx
        BY <1>1, <3>1 DEF Hardware
      <3> QED
        BY <1>2, <3>2 DEF Transferring
    <2>4. CASE EchoStatus(s)
      <3>1. hw'[s] = [hw[s] EXCEPT !.stat = hw[s].rx.stat, !.echo = Report]
        BY <2>4 DEF EchoStatus, TypeOK
      <3>2. hw'[s].args = hw[s].args /\ hw'[s].echo = Report /\ hw'[s].rx = hw[s].rx
        BY <1>1, <3>1 DEF Hardware
      <3> QED
        BY <1>2, <3>2, ArgFacts DEF Transferring
    <2> QED
      BY <2>1, <2>2, <2>3, <2>4 DEF Firmware
  <1> QED
    BY <1>3, <1>4

LEMMA TransferCommand ==
    ASSUME TypeOK, QuietHandshake, NEW s \in Slaves, Transferring(s),
           NEW x \in Slaves, NEW t \in Tasks, NEW c \in Cmds, Command(x, t, c)
    PROVE  Transferring(s)'
  <1>1. hw' = hw /\ inp' = inp /\ out' = out /\ dev[s] \in Devices
    BY DEF Command, master, TypeOK
  <1>2. CASE x # s
    <2>1. dev'[s] = dev[s]
      BY <1>2 DEF Command, TypeOK
    <2> QED
      BY <1>1, <2>1 DEF Transferring
  <1>3. CASE x = s
    <2> DEFINE e == OnCommand(dev[s], t, c)
    <2>1. dev'[s] = e /\ dev[s].mstat # MASTER_SENDING_ARGUMENTS
      BY <1>3 DEF Command, TypeOK
    <2>2. /\ e.idx = dev[s].idx /\ e.echo = dev[s].echo /\ e.argSent = dev[s].argSent
          /\ e.mstat = dev[s].mstat
      BY <1>1 DEF OnCommand, Devices
    <2> HIDE DEF e
    <2> QED
      BY <1>1, <2>1, <2>2 DEF Transferring, TransferDevice
  <1> QED
    BY <1>2, <1>3

LEMMA TransferStep ==
    ASSUME QuietHandshake, TypeOK, HealthyInv, SoundInv, TransferInv, [Next]_vars
    PROVE  TransferInv'
  <1> SUFFICES ASSUME NEW s \in Slaves \ FaultySlaves PROVE Transferring(s)'
    BY DEF TransferInv
  <1>1. Transferring(s) /\ Sound(s)
    BY DEF TransferInv, SoundInv
  <1>2. CASE DataThread
    BY <1>1, <1>2, TransferData
  <1>3. CASE Wake
    BY <1>1, <1>3 DEF Wake, Transferring, master
  <1>4. CASE \E x \in Slaves : CheckSlave(x)
    BY <1>1, <1>4, HealthyChecker, CheckerLeavesMaster DEF Transferring
  <1>5. CASE \E x \in Slaves : \E t \in Tasks : \E c \in Cmds : Command(x, t, c)
    BY <1>1, <1>5, TransferCommand
  <1>6. CASE \E x \in Slaves : Firmware(x) \/ Fault(x) \/ Repair(x)
    BY <1>1, <1>6, TransferFirmware
  <1>7. CASE UNCHANGED vars
    BY <1>1, <1>7 DEF Transferring, vars, master
  <1> QED
    BY <1>2, <1>3, <1>4, <1>5, <1>6, <1>7 DEF Next, CheckerThread

-----------------------------------------------------------------------------
(* A slave that is driven has been taken out of the handshake, which        *)
(* LeaveHandshake() does only when the last argument is confirmed.          *)
LEMMA DrivenHasAll ==
    ASSUME NEW d \in Devices, NEW h \in Hardware, TransferDevice(d, h.args), Driven(h),
           h.rx.stat >= MASTER_READY => d.mstat >= MASTER_READY
    PROVE  h.args = AllArgs
  <1>1. d.mstat # MASTER_SENDING_ARGUMENTS
    BY DEF Driven, MASTER_READY, MASTER_SENDING_ARGUMENTS, Devices
  <1>2. \A i \in Places : h.args[i] = "good"
    BY <1>1 DEF TransferDevice, Good
  <1>3. h.args \in [Places -> {"none", "good", "bad"}]
    BY DEF Hardware, Places
  <1> QED
    BY <1>2, <1>3 DEF AllArgs, Places

TransferInvariant == TypeOK /\ HealthyInv /\ SoundInv /\ TransferInv

LEMMA TransferAlways == QuietHandshake => (Spec => []TransferInvariant)
  <1> SUFFICES ASSUME QuietHandshake PROVE Spec => []TransferInvariant
    OBVIOUS
  <1>1. Init => TransferInv
    BY TransferInit
  <1>2. TypeOK /\ HealthyInv /\ SoundInv /\ TransferInv /\ [Next]_vars => TransferInv'
    BY TransferStep
  <1>3. HealthyInv /\ TypeOK /\ [Next]_vars => HealthyInv'
    BY HealthyStep
  <1>4. SoundInv /\ HealthyInv /\ TypeOK /\ [Next]_vars => SoundInv'
    BY SoundStep
  <1> QED
    BY <1>1, <1>2, <1>3, <1>4, TypeCorrect, HealthyInit, SoundInit, PTL
       DEF Spec, TransferInvariant

(* A slave without faults of its own is driven only with every argument     *)
(* byte received intact, whatever happens to the others and however many    *)
(* frames are lost.                                                         *)
THEOREM HealthySlaveConfigured ==
    QuietHandshake =>
        (Spec => [](\A s \in Slaves \ FaultySlaves : Driven(hw[s]) => hw[s].args = AllArgs))
  <1> SUFFICES ASSUME QuietHandshake
               PROVE  Spec => [](\A s \in Slaves \ FaultySlaves :
                                   Driven(hw[s]) => hw[s].args = AllArgs)
    OBVIOUS
  <1>1. TransferInvariant => \A s \in Slaves \ FaultySlaves :
                               Driven(hw[s]) => hw[s].args = AllArgs
    BY DrivenHasAll DEF TransferInvariant, SoundInv, Sound, TransferInv, Transferring, TypeOK
  <1> QED
    BY <1>1, TransferAlways, PTL

(* Without faults of the slaves every slave is driven only with every       *)
(* argument byte received intact: the echo comparison of send_arg()         *)
(* protects the configuration from lost frames.                             *)
THEOREM ConfiguredWithoutFaults ==
    FaultySlaves = {} /\ QuietHandshake => (Spec => []ConfiguredWhenDriven)
  <1> SUFFICES ASSUME FaultySlaves = {}, QuietHandshake PROVE Spec => []ConfiguredWhenDriven
    OBVIOUS
  <1>1. (\A s \in Slaves \ FaultySlaves : Driven(hw[s]) => hw[s].args = AllArgs)
        => ConfiguredWhenDriven
    BY DEF ConfiguredWhenDriven
  <1> QED
    BY <1>1, HealthySlaveConfigured, PTL

-----------------------------------------------------------------------------
(* The refinement.  Only TakeArg(s) changes the arguments of slave s; in    *)
(* every other step it starts or stops being driven, or nothing happens to  *)
(* it.                                                                      *)
LEMMA ArgsOnlyParsed ==
    ASSUME FaultySlaves = {}, TypeOK, HealthyInv, NEW s \in Slaves, [Next]_vars, ~TakeArg(s)
    PROVE  hw'[s].args = hw[s].args
  <1>1. hw[s] \in Hardware /\ Healthy(s)
    BY DEF TypeOK, HealthyInv
  <1>2. CASE DataThread
    <2>1. hw'[s] = hw[s] \/ hw'[s] = [hw[s] EXCEPT !.rx = out[s]]
      BY <1>2 DEF DataThread, ReceiveSlave, ProcessOne, TransferSlave, Exchange
    <2> QED
      BY <1>1, <2>1 DEF Hardware
  <1>3. CASE Wake
    BY <1>3 DEF Wake
  <1>4. CASE \E x \in Slaves : CheckSlave(x)
    BY <1>4, HealthyChecker
  <1>5. CASE \E x \in Slaves : \E t \in Tasks : \E c \in Cmds : Command(x, t, c)
    BY <1>5 DEF Command
  <1>6. ASSUME NEW x \in Slaves, Firmware(x) \/ Fault(x) \/ Repair(x)
        PROVE  hw'[s].args = hw[s].args
    <2>1. Firmware(x)
      <3>1. Healthy(x)
        BY DEF HealthyInv
      <3> QED
        BY <1>6, <3>1 DEF Healthy, Fault, Unplug, PowerOff, Swap, Reflash, McuReset,
           FallToSafeOp, Watchdog, Strike, Repair
    <2>2. CASE x # s
      BY <2>1, <2>2 DEF Firmware, TakeArg, ReportReady, EchoStatus, TypeOK
    <2>3. CASE x = s
      <3>1. \/ hw'[s] = [hw[s] EXCEPT !.stat = SLAVE_READY]
            \/ hw'[s] = [hw[s] EXCEPT !.stat = hw[s].rx.stat, !.echo = Report]
        BY <2>1, <2>3 DEF Firmware, ReportReady, EchoStatus, TypeOK
      <3> QED
        BY <1>1, <3>1 DEF Hardware
    <2> QED
      BY <2>2, <2>3
  <1>7. CASE UNCHANGED vars
    BY <1>7 DEF vars
  <1> QED
    BY <1>2, <1>3, <1>4, <1>5, <1>6, <1>7 DEF Next, CheckerThread

(* One slave's part of a step.                                              *)
Part(s) ==
    (\E i \in 1 .. ArgLen : Transfer!Take(s, i))
        \/ Transfer!Start(s) \/ Transfer!Stop(s) \/ Transfer!Lose(s)

LEMMA ParsePart ==
    ASSUME TypeOK, NEW s \in Slaves, Transferring(s), TakeArg(s),
           Received(hw'[s]) # Received(hw[s])
    PROVE  \E i \in 1 .. ArgLen : Transfer!Take(s, i)
  <1> DEFINE a == hw[s].args
             n == dev[s].idx
  <1>1. hw[s] \in Hardware /\ n \in Nat
    BY DEF TypeOK, Devices
  <1>2. PICK j \in Places : j <= n /\ hw'[s] = Parsed(hw[s], j)
    BY ParsesOnlyArguments DEF ParsesNext
  <1>3. hw[s].rx.stat = MASTER_SENDING_ARGUMENTS
    BY ParsesOnlyArguments DEF ParsesNext
  <1>4. /\ Parsed(hw[s], j).args[j] = "good"
        /\ \A i \in Places : i # j => Parsed(hw[s], j).args[i] = a[i]
        /\ Parsed(hw[s], j).rx = hw[s].rx
    BY <1>1, ParsedArgs
  <1>5. /\ hw'[s].args[j] = "good" /\ \A i \in Places : i # j => hw'[s].args[i] = a[i]
        /\ hw'[s].rx = hw[s].rx
    BY <1>2, <1>4, Zenon
  <1>6. a[j] # "good"
    BY <1>5 DEF Received, Places
  <1>7. j = n
    BY <1>1, <1>2, <1>6 DEF Transferring, TransferDevice, Good, Places
  <1>8. \A i \in Places : a[i] = (IF i < j THEN "good" ELSE "none")
    BY <1>6, <1>7 DEF Transferring, TransferDevice, Good, Places
  <1>9. Received(hw[s]) = [i \in 1 .. ArgLen |-> IF i < j THEN "good" ELSE "none"]
    BY <1>8 DEF Received, Places
  <1>10. Received(hw'[s]) = [Received(hw[s]) EXCEPT ![j] = "good"]
    BY <1>5 DEF Received, Places
  <1>11. Driven(hw[s]) = FALSE /\ Driven(hw'[s]) = FALSE
    BY <1>3, <1>5 DEF Driven, MASTER_READY, MASTER_SENDING_ARGUMENTS
  <1>12. Transfer!Take(s, j)
    <2> DEFINE g == [r \in Slaves |-> Received(hw[r])]
               h == [r \in Slaves |-> Received(hw'[r])]
    <2>1. g[s] = Received(hw[s]) /\ h[s] = Received(hw'[s])
      OBVIOUS
    <2>2. /\ [r \in Slaves |-> Driven(hw[r])][s] = Driven(hw[s])
          /\ [r \in Slaves |-> Driven(hw'[r])][s] = Driven(hw'[s])
      BY Zenon
    <2>3. /\ g[s] = [i \in 1 .. ArgLen |-> IF i < j THEN "good" ELSE "none"]
          /\ h[s] = [g[s] EXCEPT ![j] = "good"]
      BY <1>9, <1>10, <2>1, Zenon
    <2>4. [r \in Slaves |-> Driven(hw'[r])][s] = [r \in Slaves |-> Driven(hw[r])][s]
      BY <1>11, <2>2, Zenon
    <2> QED
      BY <2>3, <2>4, Zenon DEF Transfer!Take
  <1> QED
    BY <1>12 DEF Places

LEMMA StepParts ==
    ASSUME FaultySlaves = {}, QuietHandshake, TransferInvariant, TransferInvariant',
           [Next]_vars, NEW s \in Slaves
    PROVE  Part(s)
  <1>1. TypeOK /\ HealthyInv /\ Transferring(s)
    BY DEF TransferInvariant, TransferInv
  <1>2. CASE Received(hw'[s]) = Received(hw[s])
    <2>1. CASE Driven(hw'[s])
      <3>1. /\ dev'[s] \in Devices /\ hw'[s] \in Hardware
            /\ TransferDevice(dev'[s], hw'[s].args)
            /\ hw'[s].rx.stat >= MASTER_READY => dev'[s].mstat >= MASTER_READY
        BY DEF TransferInvariant, TransferInv, Transferring, SoundInv, Sound, TypeOK
      <3>2. hw'[s].args = AllArgs
        BY <2>1, <3>1, DrivenHasAll
      <3>3. Received(hw'[s]) = Transfer!All
        BY <3>2 DEF Received, AllArgs, Transfer!All
      <3>4. Transfer!Start(s)
        BY <1>2, <2>1, <3>3 DEF Transfer!Start
      <3> QED
        BY <3>4 DEF Part
    <2>2. CASE ~Driven(hw'[s])
      <3>1. Transfer!Stop(s)
        BY <1>2, <2>2 DEF Transfer!Stop
      <3> QED
        BY <3>1 DEF Part
    <2> QED
      BY <2>1, <2>2
  <1>3. CASE Received(hw'[s]) # Received(hw[s])
    <2>1. TakeArg(s)
      <3>1. hw'[s].args # hw[s].args
        BY <1>3 DEF Received
      <3> QED
        BY <1>1, <3>1, ArgsOnlyParsed
    <2>2. \E i \in 1 .. ArgLen : Transfer!Take(s, i)
      BY <1>1, <1>3, <2>1, ParsePart
    <2> QED
      BY <2>2 DEF Part
  <1> QED
    BY <1>2, <1>3

LEMMA RefinedInit == Init => Transfer!Init
  <1> SUFFICES ASSUME Init PROVE Transfer!Init
    OBVIOUS
  <1>1. \A s \in Slaves : hw[s] = FreshHardware
    BY DEF Init
  <1>2. Received(FreshHardware) = Transfer!None
    BY DEF Received, FreshHardware, NoArgs, Transfer!None
  <1>3. Driven(FreshHardware) = FALSE
    BY DEF Driven, FreshHardware, NoOutputs, MASTER_READY
  <1>4. [s \in Slaves |-> Received(hw[s])] = [s \in Slaves |-> Transfer!None]
    BY <1>1, <1>2, Zenon
  <1>5. [s \in Slaves |-> Driven(hw[s])] = [s \in Slaves |-> FALSE]
    BY <1>1, <1>3, Zenon
  <1> QED
    BY <1>4, <1>5, Zenon DEF Transfer!Init

LEMMA RefinedStep ==
    ASSUME FaultySlaves = {}, QuietHandshake, TransferInvariant, TransferInvariant', [Next]_vars
    PROVE  Transfer!Next
  <1>1. \A s \in Slaves : Part(s)
    BY StepParts
  <1> QED
    BY <1>1 DEF Transfer!Next, Part

(* Without faults of the slaves, with any number of slaves, tasks, argument *)
(* bytes and lost frames, EcatMaster implements ArgTransfer.                *)
THEOREM TransferImplemented ==
    FaultySlaves = {} /\ QuietHandshake => (Spec => ArgumentsTransferred)
  <1> SUFFICES ASSUME FaultySlaves = {}, QuietHandshake PROVE Spec => ArgumentsTransferred
    OBVIOUS
  <1>1. TransferInvariant /\ TransferInvariant' /\ [Next]_vars => [Transfer!Next]_(Transfer!vars)
    BY RefinedStep
  <1> QED
    BY <1>1, RefinedInit, TransferAlways, PTL DEF Spec, ArgumentsTransferred, Transfer!Spec

-----------------------------------------------------------------------------
(* Slaves that fail and recover.  What the buffers hold of the arguments    *)
(* depends on the stage of the slave's life (EcatMaster_proofs): while it   *)
(* is set up again nothing of an earlier handshake may be left, neither in  *)
(* the outputs on their way to it nor in the echoes on their way back.      *)
USE DEF SLAVE_INITIALIZING, SLAVE_READY, SLAVE_CONFIRM_READY,
        MASTER_SENDING_ARGUMENTS, MASTER_READY, NONE, INIT, PRE_OP, SAFE_OP, OP, SAFE_OP_ERROR

AllGood(args) == \A i \in Places : Good(args, i)
Raw(buf) == buf[HeadTask].kind # "arg"
Argument(buf, n) == \E j \in Places : j <= n /\ buf[HeadTask] = Arg(j)

(* From the record to the slave, an argument is only behind an argument.    *)
Pipeline(s, n) ==
    /\ Raw(dev[s].m2s) \/ Argument(dev[s].m2s, n)
    /\ out[s].stat = MASTER_SENDING_ARGUMENTS =>
          Raw(out[s].buf) \/ (Argument(out[s].buf, n) /\ Argument(dev[s].m2s, n))
    /\ hw[s].rx.stat = MASTER_SENDING_ARGUMENTS =>
          \/ Raw(hw[s].rx.buf)
          \/ /\ Argument(hw[s].rx.buf, n)
             /\ out[s].stat = MASTER_SENDING_ARGUMENTS /\ Argument(out[s].buf, n)

Echoed(s, i) == Arg(i) \in {dev[s].echo, inp[s].echo, hw[s].echo}
Unechoed(s) == \A i \in Places : ~Echoed(s, i)
FromTheFirst(d) == d.argSent = FALSE => d.idx = 1

(* The slave waits for the handshake; it has no arguments.                  *)
Before(s) == Pipeline(s, 1) /\ Unechoed(s) /\ FromTheFirst(dev[s])

(* In the handshake: all before sending_arg_buf_idx_, none behind it, and   *)
(* what is parsed as soon as there is one is nothing but arguments.         *)
InHand(s) ==
    LET n == dev[s].idx
        args == hw[s].args
    IN /\ Pipeline(s, n)
       /\ \A i \in Places : i < n => Good(args, i)
       /\ \A i \in Places : i > n => ~Good(args, i)
       /\ \A i \in Places : Echoed(s, i) => Good(args, i)
       /\ dev[s].argSent = TRUE => AllGood(args)
       /\ (\E i \in Places : Good(args, i)) =>
             hw[s].rx.stat = MASTER_SENDING_ARGUMENTS /\ Argument(hw[s].rx.buf, n)

(* The slave has all; the last outputs it may still parse are arguments.    *)
Complete(s) ==
    /\ AllGood(hw[s].args) /\ dev[s].argSent = TRUE
    /\ out[s].stat = MASTER_SENDING_ARGUMENTS => Argument(out[s].buf, dev[s].idx)
    /\ hw[s].rx.stat = MASTER_SENDING_ARGUMENTS => Argument(hw[s].rx.buf, dev[s].idx)

(* In service, or restarted and not yet set up.                             *)
Beyond(s) ==
    /\ Unechoed(s) /\ FromTheFirst(dev[s])
    /\ hw[s].stat >= SLAVE_CONFIRM_READY => AllGood(hw[s].args)

Carrying(s) ==
    LET m == dev[s].mstat
        al == hw[s].al
    IN /\ m = MASTER_SENDING_ARGUMENTS /\ al = SAFE_OP => Before(s)
       /\ m = MASTER_SENDING_ARGUMENTS /\ At("op", s) =>
             dev[s].idx = 1 /\ dev[s].argSent = FALSE
       /\ m = MASTER_SENDING_ARGUMENTS /\ al = OP => InHand(s)
       /\ m = MASTER_READY => Complete(s)
       /\ m > MASTER_READY => Beyond(s)

CarryingInv == \A s \in Slaves : Carrying(s)

LEMMA RawOrArgument ==
    /\ \A buf, n : ~(Raw(buf) /\ Argument(buf, n))
    /\ \A buf, m, n : m \in Nat /\ n \in Nat /\ m <= n /\ Argument(buf, m) => Argument(buf, n)
    /\ \A i : Arg(i) # Junk
  <1>1. \A buf, n : ~(Raw(buf) /\ Argument(buf, n))
    BY ArgFacts DEF Raw, Argument
  <1>2. \A buf, m, n : m \in Nat /\ n \in Nat /\ m <= n /\ Argument(buf, m) => Argument(buf, n)
    BY DEF Argument, Places
  <1>3. \A i : Arg(i) # Junk
    BY DEF Junk, Arg
  <1> QED
    BY <1>1, <1>2, <1>3

(* The three things ProcessSlave() does to a record in the handshake.       *)
Rests(d, p) == p.idx = d.idx /\ p.argSent = d.argSent /\ (p.mstat = 2 => p.m2s = d.m2s)
Completes(d, p) ==
    /\ Confirmed(d) /\ d.idx = ArgLen
    /\ p.idx = d.idx /\ p.argSent = TRUE /\ (p.mstat = 2 => p.m2s = d.m2s)
Offers(d, p) ==
    /\ p.idx \in Places /\ d.argSent = FALSE /\ p.argSent = FALSE
    /\ p.mstat = 2 => p.m2s[HeadTask] = Arg(p.idx)
    /\ p.idx = d.idx \/ (Confirmed(d) /\ p.idx = d.idx + 1)

LEMMA SendingSteps ==
    ASSUME NEW d \in Devices, d.mstat = 2
    PROVE  LET q == SendingArgs(d)
           IN q.mstat = 2 /\ (Rests(d, q) \/ Completes(d, q) \/ Offers(d, q))
  <1> DEFINE q == SendingArgs(d)
  <1>1. CASE d.argSent = TRUE
    <2>1. q = d
      BY <1>1 DEF SendingArgs
    <2> QED
      BY <2>1 DEF Rests
  <1>2. CASE ~d.argSent /\ Confirmed(d) /\ d.idx = ArgLen
    <2>1. q = [d EXCEPT !.argSent = TRUE]
      BY <1>2 DEF SendingArgs, SendArg
    <2>2. q.mstat = 2 /\ q.idx = d.idx /\ q.argSent = TRUE /\ q.m2s = d.m2s
      BY <2>1 DEF Devices
    <2> QED
      BY <1>2, <2>2 DEF Completes
  <1>3. CASE ~d.argSent /\ ~(Confirmed(d) /\ d.idx = ArgLen)
    <2> DEFINE n == IF Confirmed(d) THEN d.idx + 1 ELSE d.idx
               buf == [d.m2s EXCEPT ![HeadTask] = Arg(n)]
               e == [d EXCEPT !.idx = n, !.m2s = buf]
    <2>1. q = e
      BY <1>3 DEF SendingArgs, SendArg
    <2>2. n \in Places /\ (n = d.idx \/ (Confirmed(d) /\ n = d.idx + 1))
      BY <1>3 DEF Devices, Places
    <2>3. buf[HeadTask] = Arg(n)
      BY DEF Devices, Buffers
    <2> HIDE DEF n, buf
    <2>4. /\ e.idx = n /\ e.m2s = buf /\ e.argSent = FALSE /\ e.mstat = 2
          /\ d.argSent = FALSE
      BY <1>3 DEF Devices
    <2> HIDE DEF e, q
    <2>5. q.mstat = 2 /\ Offers(d, q)
      BY <2>1, <2>2, <2>3, <2>4 DEF Offers
    <2> QED
      BY <2>5 DEF q
  <1> QED
    BY <1>1, <1>2, <1>3 DEF Devices

LEMMA ProcessSends ==
    ASSUME NEW d \in Devices, d.mstat = 2, NEW p, p = ProcessSlave(d)
    PROVE  Rests(d, p) \/ Completes(d, p) \/ Offers(d, p)
  <1> DEFINE c == LeaveHandshake(SendingArgs(SetReady(d)))
             q == SendingArgs(d)
  <1>1. CASE d.confRos = FALSE
    BY <1>1 DEF ProcessSlave, Rests
  <1>2. CASE d.confRos = TRUE
    <2>1. p = Working(c)
      BY <1>2 DEF ProcessSlave
    <2>2. /\ c \in Devices /\ c.mstat \in {2, 3}
          /\ c.idx = q.idx /\ c.argSent = q.argSent
          /\ c.mstat = 2 => c.m2s = q.m2s
      BY BeforeWorking
    <2> HIDE DEF c
    <2>3. /\ p.idx = c.idx /\ p.argSent = c.argSent /\ p.m2s = c.m2s
          /\ p.mstat = 2 => c.mstat = 2
      <3>1. p = c \/ p = [c EXCEPT !.mstat = NextStatus(c.mstat)]
        BY <2>1 DEF Working, ProcessPdo
      <3>2. NextStatus(c.mstat) # 2
        BY <2>2 DEF NextStatus
      <3> QED
        BY <2>2, <3>1, <3>2 DEF Devices
    <2>4. q.mstat = 2 /\ (Rests(d, q) \/ Completes(d, q) \/ Offers(d, q))
      BY SendingSteps
    <2> HIDE DEF q
    <2> QED
      BY <2>2, <2>3, <2>4 DEF Rests, Completes, Offers
  <1> QED
    BY <1>1, <1>2 DEF Devices

LEMMA CarryingInit == Init => CarryingInv
  <1> SUFFICES ASSUME Init, NEW s \in Slaves PROVE Carrying(s)
    BY DEF CarryingInv
  <1>1. /\ dev[s] = FreshDevice /\ hw[s] = FreshHardware /\ out[s] = NoOutputs
        /\ inp[s].echo = Zero
    BY DEF Init
  <1>2. /\ FreshDevice.idx = 1 /\ FreshDevice.echo = Zero /\ FreshDevice.argSent = FALSE
        /\ FreshDevice.mstat = 2 /\ FreshDevice.m2s[HeadTask] = Zero
    BY DEF FreshDevice, Const
  <1>3. /\ FreshHardware.echo = Zero /\ FreshHardware.rx = NoOutputs /\ NoOutputs.stat = 0
        /\ FreshHardware.al = OP /\ FreshHardware.args = NoArgs
    BY DEF FreshHardware, NoOutputs
  <1>4. \A i \in Places : ~(i < 1) /\ ~Good(NoArgs, i)
    BY DEF Places, Good, NoArgs
  <1>5. Pipeline(s, 1)
    BY <1>1, <1>2, <1>3, ArgFacts DEF Pipeline, Raw
  <1>6. InHand(s)
    BY <1>1, <1>2, <1>3, <1>4, <1>5, ArgFacts DEF InHand, Echoed
  <1> QED
    BY <1>1, <1>2, <1>3, <1>6 DEF Carrying

(* The data thread.                                                         *)
LEMMA ReceivesCarrying ==
    ASSUME TypeOK, NEW s \in Slaves, Carrying(s), Receives(s)
    PROVE  Carrying(s)'
  <1>1. /\ dev'[s].mstat = dev[s].mstat /\ dev'[s].m2s = dev[s].m2s
        /\ dev'[s].idx = dev[s].idx /\ dev'[s].argSent = dev[s].argSent
        /\ dev'[s].echo = inp[s].echo
    BY SlaveTypes DEF Receives, ReceiveFromSlave, Devices
  <1>2. /\ hw'[s] = hw[s] /\ inp'[s] = inp[s] /\ out'[s] = out[s] /\ (At("op", s)' <=> At("op", s))
    BY DEF Receives, DataHere, CheckerPlace, At
  <1>3. \A n : Pipeline(s, n) => Pipeline(s, n)'
    BY <1>1, <1>2 DEF Pipeline
  <1>4. \A i \in Places : Echoed(s, i)' => Echoed(s, i)
    BY <1>1, <1>2 DEF Echoed
  <1>5. FromTheFirst(dev[s]) => FromTheFirst(dev'[s])
    BY <1>1 DEF FromTheFirst
  <1>6. (Before(s) => Before(s)') /\ (Beyond(s) => Beyond(s)')
    BY <1>2, <1>3, <1>4, <1>5 DEF Before, Beyond, Unechoed
  <1>7. InHand(s) => InHand(s)'
    BY <1>1, <1>2, <1>3, <1>4 DEF InHand
  <1>8. Complete(s) => Complete(s)'
    BY <1>1, <1>2 DEF Complete
  <1> QED
    BY <1>1, <1>2, <1>6, <1>7, <1>8 DEF Carrying

LEMMA TransfersCarrying ==
    ASSUME TypeOK, NEW s \in Slaves, Lives(s), Carrying(s), Transfers(s)
    PROVE  Carrying(s)'
  <1>1. /\ dev'[s] = dev[s] /\ hw'[s] = hw[s] /\ inp'[s] = inp[s]
        /\ out'[s].stat = dev[s].mstat /\ out'[s].buf = dev[s].m2s
        /\ (At("op", s)' <=> At("op", s))
    BY DEF Transfers, DataHere, CheckerPlace, At
  <1>2. \A n : dev[s].mstat = 2 /\ Pipeline(s, n) => Pipeline(s, n)'
    BY <1>1, RawOrArgument DEF Pipeline
  <1>3. \A i \in Places : Echoed(s, i)' <=> Echoed(s, i)
    BY <1>1 DEF Echoed
  <1>4. /\ dev[s].mstat = 2 /\ Before(s) => Before(s)'
        /\ Beyond(s) => Beyond(s)'
    BY <1>1, <1>2, <1>3 DEF Before, Beyond, Unechoed
  <1>5. dev[s].mstat = 2 /\ InHand(s) => InHand(s)'
    BY <1>1, <1>2, <1>3 DEF InHand
  <1>6. dev[s].mstat = 3 /\ Complete(s) => Complete(s)'
    BY <1>1 DEF Complete
  <1> QED
    BY <1>1, <1>4, <1>5, <1>6 DEF Carrying

LEMMA ExchangesCarrying ==
    ASSUME TypeOK, NEW s \in Slaves, Carrying(s), NEW lost, Exchanges(s, lost)
    PROVE  Carrying(s)'
  <1>1. /\ dev'[s] = dev[s] /\ out'[s] = out[s] /\ (At("op", s)' <=> At("op", s))
    BY DEF Exchanges, CheckerPlace, At
  <1>2. /\ hw'[s].args = hw[s].args /\ hw'[s].echo = hw[s].echo /\ hw'[s].al = hw[s].al
        /\ hw'[s].stat = hw[s].stat
        /\ hw'[s].rx = hw[s].rx \/ hw'[s].rx = out[s]
    BY SlaveTypes DEF Exchanges, Hardware
  <1>3. inp'[s] = inp[s] \/ inp'[s].echo = hw[s].echo
    BY DEF Exchanges
  <1>4. \A n : Pipeline(s, n) => Pipeline(s, n)'
    BY <1>1, <1>2 DEF Pipeline
  <1>5. \A i \in Places : Echoed(s, i)' => Echoed(s, i)
    BY <1>1, <1>2, <1>3 DEF Echoed
  <1>6. (Before(s) => Before(s)') /\ (Beyond(s) => Beyond(s)')
    BY <1>1, <1>2, <1>4, <1>5 DEF Before, Beyond, Unechoed
  <1>7. InHand(s) => InHand(s)'
    <2> SUFFICES ASSUME InHand(s) PROVE InHand(s)'
      OBVIOUS
    <2>1. ASSUME NEW i \in Places, Good(hw[s].args, i)
          PROVE  hw'[s].rx.stat = 2 /\ Argument(hw'[s].rx.buf, dev[s].idx)
      BY <1>2, <2>1, RawOrArgument DEF InHand, Pipeline
    <2> QED
      BY <1>1, <1>2, <1>4, <1>5, <2>1 DEF InHand
  <1>8. Complete(s) => Complete(s)'
    BY <1>1, <1>2 DEF Complete
  <1> QED
    BY <1>1, <1>2, <1>6, <1>7, <1>8 DEF Carrying

LEMMA CommandsCarrying ==
    ASSUME QuietHandshake, TypeOK, NEW s \in Slaves, Carrying(s),
           NEW t \in Tasks, NEW c \in Cmds, Commands(s, t, c)
    PROVE  Carrying(s)'
  <1>1. /\ dev'[s].mstat = dev[s].mstat /\ dev'[s].echo = dev[s].echo
        /\ dev'[s].idx = dev[s].idx /\ dev'[s].argSent = dev[s].argSent
    BY SlaveTypes DEF Commands, OnCommand, Devices
  <1>2. dev[s].mstat # 2 /\ hw'[s] = hw[s] /\ inp'[s] = inp[s] /\ out'[s] = out[s]
    BY DEF Commands
  <1>3. Beyond(s) => Beyond(s)'
    BY <1>1, <1>2 DEF Beyond, Unechoed, Echoed, FromTheFirst
  <1>4. Complete(s) => Complete(s)'
    BY <1>1, <1>2 DEF Complete
  <1> QED
    BY <1>1, <1>2, <1>3, <1>4 DEF Carrying

(* A step that changes nothing the arguments pass through.                  *)
LEMMA StillCarrying ==
    ASSUME NEW s \in Slaves, Carrying(s), dev'[s] = dev[s], hw'[s] = hw[s], inp'[s] = inp[s],
           out'[s] = out[s], At("op", s)' => At("op", s)
    PROVE  Carrying(s)'
  <1>1. \A n : Pipeline(s, n) => Pipeline(s, n)'
    BY DEF Pipeline
  <1>2. (Before(s) => Before(s)') /\ (Beyond(s) => Beyond(s)')
    BY <1>1 DEF Before, Beyond, Unechoed, Echoed
  <1>3. (InHand(s) => InHand(s)') /\ (Complete(s) => Complete(s)')
    BY <1>1 DEF InHand, Complete, Echoed
  <1> QED
    BY <1>2, <1>3 DEF Carrying

(* In the handshake: send_arg() goes on to the next byte only when the      *)
(* slave has this one, and ends only when it has the last.                  *)
LEMMA InHandProcesses ==
    ASSUME TypeOK, NEW s \in Slaves, InHand(s), dev[s].mstat = 2,
           dev'[s] = ProcessSlave(dev[s]), dev'[s].mstat \in {2, 3},
           dev'[s].mstat = 3 => dev'[s].argSent = TRUE,
           hw'[s] = hw[s], inp'[s] = inp[s], out'[s] = out[s]
    PROVE  /\ dev'[s].mstat = 2 => InHand(s)'
           /\ dev'[s].mstat = 3 => Complete(s)'
  <1> DEFINE d == dev[s]
             p == dev'[s]
             args == hw[s].args
  <1>1. /\ d \in Devices /\ p \in Devices /\ d.idx \in Places /\ p.idx \in Places /\ p.echo = d.echo
        /\ ArgLen \in Places
    <2>1. d \in Devices
      BY SlaveTypes
    <2>2. p \in Devices /\ SameRest(d, p)
      BY <2>1, ProcessSteps
    <2> QED
      BY <2>1, <2>2 DEF SameRest, Devices, Places
  <1>2. Rests(d, p) \/ Completes(d, p) \/ Offers(d, p)
    BY <1>1, ProcessSends
  <1>3. Confirmed(d) => Good(args, d.idx)
    BY <1>1 DEF Confirmed, InHand, Echoed
  <1>4. \A i \in Places : /\ i < p.idx => i < d.idx \/ (i = d.idx /\ Confirmed(d))
                          /\ i > p.idx => i > d.idx
                          /\ d.idx = ArgLen => i < d.idx \/ i = d.idx
    BY <1>1, <1>2 DEF Rests, Completes, Offers, Places
  <1>5. /\ \A i \in Places : i < p.idx => Good(args, i)
        /\ \A i \in Places : i > p.idx => ~Good(args, i)
    BY <1>3, <1>4 DEF InHand
  <1>6. p.argSent = TRUE => AllGood(args)
    <2>1. CASE Completes(d, p)
      BY <1>1, <1>3, <1>4, <2>1 DEF InHand, AllGood, Completes
    <2>2. CASE Rests(d, p) \/ Offers(d, p)
      BY <2>2 DEF InHand, Rests, Offers
    <2> QED
      BY <1>2, <2>1, <2>2
  <1>7. \A buf : Argument(buf, d.idx) => Argument(buf, p.idx)
    <2>1. d.idx \in Nat /\ p.idx \in Nat /\ d.idx <= p.idx
      BY <1>1, <1>2 DEF Rests, Completes, Offers, Places
    <2> QED
      BY <2>1, RawOrArgument
  <1>8. p.mstat = 2 => \/ p.m2s = d.m2s
                       \/ Argument(p.m2s, p.idx)
    <2>1. CASE Offers(d, p)
      <3>1. p.idx \in Places /\ p.idx <= p.idx /\ (p.mstat = 2 => p.m2s[HeadTask] = Arg(p.idx))
        BY <2>1 DEF Offers, Places
      <3> HIDE DEF p
      <3> QED
        BY <3>1 DEF Argument
    <2> QED
      BY <1>2, <2>1 DEF Rests, Completes
  <1>9. (\E i \in Places : Good(args, i)) =>
             hw[s].rx.stat = 2 /\ Argument(hw[s].rx.buf, p.idx)
    BY <1>7 DEF InHand
  <1>10. p.mstat = 2 => InHand(s)'
    <2> SUFFICES ASSUME p.mstat = 2 PROVE InHand(s)'
      OBVIOUS
    <2>1. Pipeline(s, dev[s].idx)'
      BY <1>7, <1>8 DEF InHand, Pipeline
    <2>2. \A i \in Places : Echoed(s, i)' => Good(args, i)
      BY <1>1 DEF Echoed, InHand
    <2> QED
      BY <1>5, <1>6, <1>9, <2>1, <2>2 DEF InHand
  <1>11. p.mstat = 3 => Complete(s)'
    <2> SUFFICES ASSUME p.mstat = 3 PROVE Complete(s)'
      OBVIOUS
    <2>1. p.argSent = TRUE /\ AllGood(args)
      BY <1>6
    <2>2. Good(args, ArgLen)
      BY <1>1, <2>1 DEF AllGood
    <2>3. hw[s].rx.stat = 2 /\ Argument(hw[s].rx.buf, d.idx)
      BY <1>1, <2>2 DEF InHand
    <2>4. Argument(out[s].buf, d.idx)
      BY <2>3, RawOrArgument DEF InHand, Pipeline
    <2> QED
      BY <1>7, <2>1, <2>3, <2>4 DEF Complete
  <1> QED
    BY <1>10, <1>11

LEMMA BeforeProcesses ==
    ASSUME TypeOK, NEW s \in Slaves, Before(s), dev[s].mstat = 2,
           dev'[s] = ProcessSlave(dev[s]), dev'[s].mstat = 2,
           hw'[s] = hw[s], inp'[s] = inp[s], out'[s] = out[s]
    PROVE  /\ Before(s)'
           /\ dev'[s].idx = dev[s].idx /\ dev'[s].argSent = dev[s].argSent
  <1> DEFINE d == dev[s]
             p == dev'[s]
  <1>1. /\ d \in Devices /\ d.idx \in Places /\ p.echo = d.echo
    <2>1. d \in Devices
      BY SlaveTypes
    <2>2. SameRest(d, p)
      BY <2>1, ProcessSteps
    <2> QED
      BY <2>1, <2>2 DEF SameRest, Devices, Places
  <1>2. ~Confirmed(d)
    BY <1>1 DEF Confirmed, Before, Unechoed, Echoed
  <1>3. Rests(d, p) \/ Offers(d, p)
    BY <1>1, <1>2, ProcessSends DEF Completes
  <1>4. p.idx = d.idx /\ p.argSent = d.argSent
    BY <1>2, <1>3 DEF Rests, Offers
  <1>5. p.m2s = d.m2s \/ Argument(p.m2s, 1)
    <2>1. CASE Offers(d, p)
      <3>1. d.idx = 1
        BY <2>1 DEF Offers, Before, FromTheFirst
      <3>2. p.m2s[HeadTask] = Arg(1) /\ 1 \in Places
        BY <1>1, <1>4, <2>1, <3>1 DEF Offers
      <3> HIDE DEF p
      <3> QED
        BY <3>2 DEF Argument
    <2> QED
      BY <1>3, <2>1 DEF Rests
  <1>6. Pipeline(s, 1)'
    BY <1>5 DEF Before, Pipeline
  <1>7. Before(s)'
    BY <1>1, <1>4, <1>6 DEF Before, Unechoed, Echoed, FromTheFirst
  <1> QED
    BY <1>4, <1>7

LEMMA ProcessesCarrying ==
    ASSUME TypeOK, NEW s \in Slaves, Lives(s), Carrying(s), Processes(s)
    PROVE  Carrying(s)'
  <1> DEFINE d == dev[s]
             p == dev'[s]
  <1>1. /\ p = ProcessSlave(d) /\ hw'[s] = hw[s] /\ inp'[s] = inp[s] /\ out'[s] = out[s]
        /\ (At("op", s)' <=> At("op", s))
    BY DEF Processes, DataHere, CheckerPlace, At
  <1>2. d \in Devices /\ d.mstat \in Nat /\ (d.mstat = 2 \/ d.mstat = 3 \/ d.mstat > 3)
    BY SlaveTypes DEF Devices
  <1>3. /\ p.echo = d.echo
        /\ d.mstat = 2 /\ d.sstat # 2 => p.mstat = 2
        /\ d.mstat = 2 /\ d.sstat = 2 /\ d.ready = FALSE => p.mstat \in {2, 3}
        /\ d.mstat = 2 /\ p.mstat = 3 /\ d.ready = FALSE => p.argSent = TRUE
        /\ d.mstat = 3 /\ d.sstat # 3 => p.mstat = 3
        /\ d.mstat = 3 /\ d.sstat = 3 => p = d \/ p.mstat = 4
        /\ d.mstat > 3 /\ d.sstat # 2 => p.mstat > 3
        /\ d.mstat # 2 => p.idx = d.idx /\ p.argSent = d.argSent
    <2>1. SameRest(d, p)
      BY <1>1, <1>2, ProcessSteps
    <2>2. p.echo = d.echo
      BY <2>1 DEF SameRest
    <2>3. /\ d.mstat = 2 /\ d.sstat # 2 => p.mstat = 2
          /\ d.mstat = 2 /\ d.sstat = 2 /\ d.ready = FALSE => p.mstat \in {2, 3}
          /\ d.mstat = 3 /\ d.sstat # 3 => p.mstat = 3
          /\ d.mstat = 3 /\ d.sstat = 3 => p = d \/ p.mstat = 4
      BY <1>1, <1>2, ProcessSteps
    <2>4. /\ d.mstat = 2 /\ p.mstat = 3 /\ d.ready = FALSE => p.argSent = TRUE
          /\ d.mstat > 3 /\ d.sstat # 2 => p.mstat > 3
          /\ d.mstat # 2 => p.idx = d.idx /\ p.argSent = d.argSent
      BY <1>1, <1>2, ProcessSteps
    <2> HIDE DEF d, p
    <2> QED
      BY <2>2, <2>3, <2>4
  <1>4. CASE d.mstat = 2
    <2>1. /\ hw[s].al \in {SAFE_OP, OP}
          /\ hw[s].al = SAFE_OP => d.sstat # 2
          /\ hw[s].al = OP => d.ready = FALSE
          /\ At("op", s) => hw[s].al = SAFE_OP
      BY <1>4 DEF Lives, Stage, Configuring, Waiting, Requesting, Restarting, Handshaking,
             Confirming, Attached, Serving, IdleAt, At
    <2>2. CASE hw[s].al = SAFE_OP
      <3>1. p.mstat = 2 /\ Before(s)
        BY <1>3, <1>4, <2>1, <2>2 DEF Carrying
      <3>2. Before(s)' /\ p.idx = d.idx /\ p.argSent = d.argSent
        BY <1>1, <1>4, <3>1, BeforeProcesses
      <3> HIDE DEF p
      <3> QED
        BY <1>1, <1>4, <2>2, <3>1, <3>2 DEF Carrying, p
    <2>3. CASE hw[s].al = OP
      <3>1. p.mstat \in {2, 3} /\ (p.mstat = 3 => p.argSent = TRUE) /\ InHand(s)
        <4>1. p.mstat \in {2, 3}
          BY <1>3, <1>4, <2>1, <2>3
        <4>2. p.mstat = 3 => p.argSent = TRUE
          BY <1>3, <1>4, <2>1, <2>3
        <4> QED
          BY <1>4, <2>3, <4>1, <4>2 DEF Carrying
      <3>2. /\ p.mstat = 2 => InHand(s)'
            /\ p.mstat = 3 => Complete(s)'
        BY <1>1, <1>4, <3>1, InHandProcesses
      <3>3. ~At("op", s) /\ hw'[s].al = OP
        BY <1>1, <2>1, <2>3
      <3> HIDE DEF p
      <3> QED
        BY <1>1, <3>1, <3>2, <3>3 DEF Carrying, p
    <2> QED
      BY <2>1, <2>2, <2>3
  <1>5. CASE d.mstat = 3
    <2>1. Complete(s) /\ Confirming(s)
      BY <1>5 DEF Carrying, Lives, Stage, Configuring, Waiting, Requesting, Restarting,
             Handshaking, Serving
    <2>2. p.mstat = 3 \/ (p.mstat = 4 /\ d.sstat = 3)
      BY <1>3, <1>5
    <2>3. p.idx = d.idx /\ p.argSent = d.argSent
      BY <1>3, <1>5
    <2>4. Complete(s)'
      BY <1>1, <2>1, <2>3 DEF Complete
    <2>5. p.mstat = 4 /\ d.sstat = 3 => Beyond(s)'
      <3> SUFFICES ASSUME d.sstat = 3 PROVE Beyond(s)'
        OBVIOUS
      <3>1. d.echo = Report /\ inp[s].echo = Report /\ hw[s].echo = Report
        BY <2>1 DEF Confirming, Lives, Plain
      <3>2. Unechoed(s)'
        BY <1>1, <1>3, <3>1, ArgFacts DEF Unechoed, Echoed
      <3>3. FromTheFirst(p)
        BY <2>1, <2>3 DEF Complete, FromTheFirst
      <3> QED
        BY <1>1, <2>1, <3>2, <3>3 DEF Beyond, Complete
    <2> HIDE DEF p
    <2> QED
      BY <2>2, <2>4, <2>5 DEF Carrying, p
  <1>6. CASE d.mstat > 3
    <2>1. Beyond(s) /\ d.sstat # 2
      BY <1>6 DEF Carrying, Lives, Stage, Configuring, Waiting, Requesting, Restarting,
             Handshaking, Confirming, Serving
    <2>2. p.mstat > 3 /\ p.idx = d.idx /\ p.argSent = d.argSent
      BY <1>2, <1>3, <1>6, <2>1
    <2>3. Beyond(s)'
      BY <1>1, <1>3, <2>1, <2>2 DEF Beyond, Unechoed, Echoed, FromTheFirst
    <2> HIDE DEF p
    <2> QED
      BY <2>2, <2>3 DEF Carrying, p
  <1> QED
    BY <1>2, <1>4, <1>5, <1>6

(* The board.                                                               *)
SameArgs(h, g) == g.args = h.args /\ g.echo \in {h.echo, Report} /\ (g.stat = 2 \/ h.stat >= 2)
ParsesByte(h, g) ==
    /\ h.rx.stat = MASTER_SENDING_ARGUMENTS
    /\ \E j \in Places :
          /\ h.rx.buf[HeadTask].kind = "arg" /\ h.rx.buf[HeadTask].val = j
          /\ Good(g.args, j) /\ (\A i \in Places : i # j => g.args[i] = h.args[i])
          /\ g.echo = Arg(j)
ParsesOther(h, g) ==
    /\ h.rx.stat = MASTER_SENDING_ARGUMENTS
    /\ Raw(h.rx.buf) /\ g.echo = Junk
    /\ \A i \in Places : g.args[i] = h.args[i] \/ ~Good(g.args, i)

LEMMA FirmwareArgs ==
    ASSUME TypeOK, NEW s \in Slaves, Firmware(s)
    PROVE  SameArgs(hw[s], hw'[s]) \/ ParsesByte(hw[s], hw'[s]) \/ ParsesOther(hw[s], hw'[s])
  <1> DEFINE h == hw[s]
             g == hw'[s]
  <1> SUFFICES SameArgs(h, g) \/ ParsesByte(h, g) \/ ParsesOther(h, g)
    OBVIOUS
  <1>1. h \in Hardware /\ h.stat \in Nat /\ h.args \in [Places -> {"none", "good", "bad"}]
    BY SlaveTypes DEF Hardware, Places
  <1>2. CASE TakeArg(s)
    <2> DEFINE v == h.rx.buf[HeadTask].val
    <2>1. h.rx.stat = 2
      BY <1>2 DEF TakeArg
    <2>2. CASE h.rx.buf[HeadTask].kind = "arg"
      <3>1. v \in Places /\ g = Parsed(h, v)
        <4>1. /\ v \in Places
              /\ hw' = [hw EXCEPT ![s].args = [@ EXCEPT ![v] = "good"], ![s].echo = Arg(v)]
          BY <1>2, <2>2 DEF TakeArg, Places
        <4> QED
          BY <4>1 DEF TypeOK, Parsed
      <3> HIDE DEF g, h, v
      <3>2. /\ g.args[v] = "good" /\ \A i \in Places : i # v => g.args[i] = h.args[i]
            /\ g.echo = Arg(v)
        BY <1>1, <3>1, ParsedArgs, Zenon
      <3>3. ParsesByte(h, g)
        BY <2>1, <2>2, <3>1, <3>2 DEF ParsesByte, Good, v
      <3> QED
        BY <3>3
    <2>3. CASE h.rx.buf[HeadTask].kind # "arg"
      <3>1. PICK i \in Places :
               hw' = [hw EXCEPT ![s].args = [@ EXCEPT ![i] = "bad"], ![s].echo = Junk]
        BY <1>2, <2>3 DEF TakeArg, Places
      <3> DEFINE a == [h.args EXCEPT ![i] = "bad"]
      <3>2. g = [h EXCEPT !.args = a, !.echo = Junk]
        BY <3>1 DEF TypeOK
      <3>3. \A k \in Places : a[k] = h.args[k] \/ a[k] = "bad"
        BY <1>1
      <3> HIDE DEF g, h, a
      <3>4. g.args = a /\ g.echo = Junk
        BY <1>1, <3>2 DEF Hardware
      <3>5. ParsesOther(h, g)
        BY <2>1, <2>3, <3>3, <3>4 DEF ParsesOther, Raw, Good
      <3> QED
        BY <3>5
    <2> QED
      BY <2>2, <2>3
  <1>3. CASE ReportReady(s)
    <2>1. g = [h EXCEPT !.stat = SLAVE_READY]
      BY <1>3 DEF ReportReady, TypeOK
    <2> HIDE DEF g, h
    <2> QED
      BY <1>1, <2>1 DEF Hardware, SameArgs
  <1>4. CASE EchoStatus(s)
    <2>1. g = [h EXCEPT !.stat = h.rx.stat, !.echo = Report] /\ h.stat >= 2
      BY <1>4 DEF EchoStatus, Driven, TypeOK
    <2> HIDE DEF g, h
    <2> QED
      BY <1>1, <2>1 DEF Hardware, SameArgs
  <1> QED
    BY <1>2, <1>3, <1>4 DEF Firmware

LEMMA InHandFirmware ==
    ASSUME TypeOK, NEW s \in Slaves, InHand(s), Firmware(s), dev'[s] = dev[s],
           inp'[s] = inp[s], out'[s] = out[s], hw'[s].rx = hw[s].rx
    PROVE  InHand(s)'
  <1> DEFINE h == hw[s]
             g == hw'[s]
             n == dev[s].idx
  <1>1. n \in Places /\ dev[s].argSent \in BOOLEAN
    BY SlaveTypes DEF Devices, Places
  <1>2. Pipeline(s, n)'
    BY DEF InHand, Pipeline
  <1>3. CASE SameArgs(h, g)
    <2>1. \A i \in Places : Echoed(s, i)' => Echoed(s, i)
      BY <1>3, ArgFacts DEF SameArgs, Echoed
    <2> QED
      BY <1>2, <1>3, <2>1 DEF SameArgs, InHand
  <1>4. CASE ParsesByte(h, g)
    <2>1. PICK j \in Places :
            /\ h.rx.buf[HeadTask].kind = "arg" /\ h.rx.buf[HeadTask].val = j
            /\ Good(g.args, j) /\ (\A i \in Places : i # j => g.args[i] = h.args[i])
            /\ g.echo = Arg(j)
      BY <1>4 DEF ParsesByte
    <2>2. h.rx.stat = 2 /\ ~Raw(h.rx.buf)
      BY <1>4, <2>1 DEF ParsesByte, Raw
    <2>3. Argument(h.rx.buf, n)
      BY <2>2 DEF InHand, Pipeline
    <2>4. j <= n
      BY <2>1, <2>3, ArgFacts DEF Argument
    <2>5. \A i \in Places : Good(h.args, i) => Good(g.args, i)
      BY <2>1 DEF Good
    <2>6. \A i \in Places : i > n => ~Good(g.args, i)
      <3>1. \A i \in Places : i > n => i # j
        BY <1>1, <2>4 DEF Places
      <3> QED
        BY <2>1, <3>1 DEF InHand, Good
    <2>7. \A i \in Places : Echoed(s, i)' => Echoed(s, i) \/ i = j
      BY <2>1, ArgFacts DEF Echoed
    <2>8. /\ \A i \in Places : i < n => Good(g.args, i)
          /\ dev[s].argSent = TRUE => AllGood(g.args)
      BY <2>5 DEF InHand, AllGood
    <2>9. \A i \in Places : Echoed(s, i)' => Good(g.args, i)
      BY <2>1, <2>5, <2>7 DEF InHand
    <2> QED
      BY <1>2, <2>2, <2>3, <2>6, <2>8, <2>9 DEF InHand
  <1>5. CASE ParsesOther(h, g)
    <2>1. h.rx.stat = 2 /\ Raw(h.rx.buf)
      BY <1>5 DEF ParsesOther
    <2>2. \A i \in Places : ~Good(h.args, i)
      BY <2>1, RawOrArgument DEF InHand
    <2>3. \A i \in Places : ~Good(g.args, i)
      BY <1>5, <2>2 DEF ParsesOther, Good
    <2>4. \A i \in Places : ~(i < n)
      BY <2>2 DEF InHand
    <2>5. dev[s].argSent # TRUE
      BY <1>1, <2>2 DEF InHand, AllGood
    <2>6. \A i \in Places : Echoed(s, i)' => Echoed(s, i)
      BY <1>5, RawOrArgument DEF ParsesOther, Echoed
    <2>7. \A i \in Places : ~Echoed(s, i)'
      BY <2>2, <2>6 DEF InHand
    <2> QED
      BY <1>2, <2>3, <2>4, <2>5, <2>7 DEF InHand
  <1> QED
    BY <1>3, <1>4, <1>5, FirmwareArgs

LEMMA FirmwareCarrying ==
    ASSUME TypeOK, NEW s \in Slaves, Lives(s), Carrying(s), BoardOnly(s), Firmware(s)
    PROVE  Carrying(s)'
  <1> DEFINE h == hw[s]
             g == hw'[s]
  <1>1. /\ dev'[s] = dev[s] /\ inp'[s] = inp[s] /\ out'[s] = out[s]
        /\ (At("op", s)' <=> At("op", s))
    BY DEF BoardOnly, CheckerPlace, At
  <1>2. h.al = OP /\ g.al = OP /\ g.rx = h.rx
    BY FirmwareSteps DEF FirmwareChange
  <1>3. SameArgs(h, g) \/ ParsesByte(h, g) \/ ParsesOther(h, g)
    BY FirmwareArgs
  <1>4. dev[s].mstat = 2 => InHand(s)'
    BY <1>1, <1>2, InHandFirmware DEF Carrying
  <1>5. dev[s].mstat = 3 => Complete(s)'
    <2> SUFFICES ASSUME Complete(s) PROVE Complete(s)'
      BY DEF Carrying
    <2>1. ~ParsesOther(h, g)
      BY RawOrArgument DEF ParsesOther, Complete
    <2>2. AllGood(g.args)
      BY <1>3, <2>1 DEF SameArgs, ParsesByte, Complete, AllGood, Good
    <2> QED
      BY <1>1, <1>2, <2>2 DEF Complete
  <1>6. dev[s].mstat > 3 => Beyond(s)'
    <2> SUFFICES ASSUME dev[s].mstat > 3, Beyond(s) PROVE Beyond(s)'
      BY DEF Carrying
    <2>1. h.rx.stat # 2 /\ h.stat # 2 /\ h.stat \in Nat
      BY StatusTypes DEF Lives, Stage, Configuring, Waiting, Requesting, Restarting, Handshaking,
             Confirming, Serving
    <2>2. SameArgs(h, g)
      BY <1>3, <2>1 DEF ParsesByte, ParsesOther
    <2>3. g.stat >= 3 => AllGood(g.args)
      BY <2>1, <2>2 DEF SameArgs, Beyond
    <2>4. Unechoed(s)'
      BY <1>1, <2>2, ArgFacts DEF SameArgs, Beyond, Unechoed, Echoed
    <2> QED
      BY <1>1, <2>3, <2>4 DEF Beyond
  <1> QED
    BY <1>1, <1>2, <1>4, <1>5, <1>6 DEF Carrying

LEMMA FaultCarrying ==
    ASSUME Recoverable, TypeOK, NEW s \in Slaves, Carrying(s), BoardOnly(s), Fault(s)
    PROVE  Carrying(s)'
  <1>1. /\ dev'[s] = dev[s] /\ inp'[s] = inp[s] /\ out'[s] = out[s]
    BY DEF BoardOnly
  <1>2. dev[s].mstat > 3
    BY DEF Recoverable, Fault, Unplug, PowerOff, Swap, Reflash, McuReset, FallToSafeOp,
           Watchdog, Strike
  <1>3. LeavesBoard(hw[s], hw'[s]) \/ RestartsBoard(hw[s], hw'[s])
    BY FaultSteps
  <1>4. Beyond(s)
    BY <1>2 DEF Carrying
  <1>5. Beyond(s)'
    BY <1>1, <1>3, <1>4, ArgFacts
    DEF LeavesBoard, RestartsBoard, Blank, Beyond, Unechoed, Echoed
  <1> QED
    BY <1>1, <1>2, <1>5 DEF Carrying

LEMMA RepairCarrying ==
    ASSUME TypeOK, NEW s \in Slaves, Carrying(s), BoardOnly(s), Repair(s)
    PROVE  Carrying(s)'
  <1> DEFINE h == hw[s]
             g == hw'[s]
  <1>1. /\ dev'[s] = dev[s] /\ inp'[s] = inp[s] /\ out'[s] = out[s]
        /\ (At("op", s)' <=> At("op", s))
    BY DEF BoardOnly, CheckerPlace, At
  <1>2. /\ g.stat = h.stat /\ g.args = h.args /\ g.echo = h.echo /\ g.rx = h.rx
        /\ g.al = h.al
    <2>1. h \in Hardware /\ (g = [h EXCEPT !.link = TRUE] \/ g = [h EXCEPT !.power = TRUE])
      BY SlaveTypes DEF Repair, TypeOK
    <2> HIDE DEF g, h
    <2> QED
      BY <2>1 DEF Hardware
  <1>3. \A n : Pipeline(s, n) => Pipeline(s, n)'
    BY <1>1, <1>2 DEF Pipeline
  <1>4. (Before(s) => Before(s)') /\ (Beyond(s) => Beyond(s)')
    BY <1>1, <1>2, <1>3 DEF Before, Beyond, Unechoed, Echoed
  <1>5. (InHand(s) => InHand(s)') /\ (Complete(s) => Complete(s)')
    BY <1>1, <1>2, <1>3 DEF InHand, Complete, Echoed
  <1> QED
    BY <1>1, <1>2, <1>4, <1>5 DEF Carrying

(* The checker: a slave comes into its handshake with nothing of an earlier *)
(* one anywhere, and send_arg() at the first byte.                          *)
LEMMA CheckerRecord ==
    ASSUME ReconfigAnswered, TypeOK, NEW s \in Slaves, Lives(s), CheckSlave(s)
    PROVE  /\ dev'[s].echo = dev[s].echo
           /\ dev'[s].mstat = dev[s].mstat \/ (Reconfig(s) /\ dev'[s].mstat = 2)
           /\ \/ dev'[s].idx = dev[s].idx /\ dev'[s].argSent = dev[s].argSent
              \/ dev'[s].idx = 1 /\ dev'[s].argSent = FALSE
           /\ ~CheckLost(s) => dev'[s].m2s = dev[s].m2s
           /\ CheckSafeOp(s) => dev'[s].idx = 1 /\ dev'[s].argSent = FALSE
  <1> DEFINE d == dev[s]
             e == dev'[s]
  <1>1. /\ e.echo = d.echo
        /\ e.mstat = d.mstat \/ (Reconfig(s) /\ e.mstat = 2)
        /\ \/ e.idx = d.idx /\ e.argSent = d.argSent
           \/ e.idx = 1 /\ e.argSent = FALSE
        /\ ~CheckLost(s) => e.m2s = d.m2s
    BY CheckerOnRecord
    DEF Recovers, Resets, Prepares, Loses, Inits, SameProgress, SameContent, Identities
  <1>2. CheckSafeOp(s) => e.idx = 1 /\ e.argSent = FALSE
    BY SlaveTypes, PrepareSteps DEF CheckSafeOp, Prepares, TypeOK
  <1> QED
    BY <1>1, <1>2

(* Only a slave that serves is found lost, or is reconfigured.              *)
LEMMA OnlyServing ==
    ASSUME ReconfigAnswered, TypeOK, Threads, NEW s \in Slaves, Lives(s), CheckSlave(s),
           dev[s].mstat \in {2, 3}
    PROVE  ~CheckLost(s) /\ ~Reconfig(s)
  <1>1. hw[s].al # INIT /\ obs[s] # NONE
    BY DEF Lives, Stage, Configuring, Waiting, Requesting, Restarting, Handshaking,
           Confirming, Attached, Serving
  <1>2. ~CheckLost(s)
    BY <1>1 DEF CheckLost
  <1>3. ~Reconfig(s)
    BY <1>1, CheckerMoves
  <1> QED
    BY <1>2, <1>3

LEMMA CheckCarrying ==
    ASSUME ReconfigAnswered, TypeOK, Threads, NEW s \in Slaves, Lives(s), Content(s),
           Carrying(s), CheckSlave(s)
    PROVE  Carrying(s)'
  <1> DEFINE d == dev[s]
             e == dev'[s]
  <1>1. /\ inp'[s] = inp[s] /\ out'[s] = out[s]
        /\ hw'[s].stat = hw[s].stat /\ hw'[s].rx = hw[s].rx /\ hw'[s].args = hw[s].args
        /\ hw'[s].echo = hw[s].echo
    BY CheckerHere, CheckerOnBoard
  <1>2. /\ e.echo = d.echo
        /\ e.mstat = d.mstat \/ (Reconfig(s) /\ e.mstat = 2)
        /\ \/ e.idx = d.idx /\ e.argSent = d.argSent
           \/ e.idx = 1 /\ e.argSent = FALSE
        /\ ~CheckLost(s) => e.m2s = d.m2s
        /\ CheckSafeOp(s) => e.idx = 1 /\ e.argSent = FALSE
    BY CheckerRecord
  <1>3. At("op", s)' => e.idx = 1 /\ e.argSent = FALSE
    BY <1>2, CheckerMoves
  <1>4. d \in Devices /\ d.mstat \in Nat /\ (d.mstat = 2 \/ d.mstat = 3 \/ d.mstat > 3)
    BY SlaveTypes DEF Devices
  <1>5. \A i \in Places : Echoed(s, i)' <=> Echoed(s, i)
    BY <1>1, <1>2 DEF Echoed
  <1>6. FromTheFirst(d) => FromTheFirst(e)
    BY <1>2 DEF FromTheFirst
  <1>7. \A n : ~CheckLost(s) /\ Pipeline(s, n) => Pipeline(s, n)'
    BY <1>1, <1>2 DEF Pipeline
  <1>8. ~CheckLost(s) /\ Before(s) => Before(s)'
    BY <1>5, <1>6, <1>7 DEF Before, Unechoed
  <1>9. CASE d.mstat = 2
    <2>1. ~CheckLost(s) /\ ~Reconfig(s) /\ e.mstat = 2
      BY <1>2, <1>9, OnlyServing
    <2>2. CASE Handshaking(s)
      <3>1. dev' = dev /\ hw' = hw /\ hw[s].al = OP
        BY <2>2, CheckAttached DEF Handshaking, Attached
      <3>2. InHand(s)
        BY <1>9, <3>1 DEF Carrying
      <3>3. InHand(s)'
        BY <1>1, <1>5, <1>7, <2>1, <3>1, <3>2 DEF InHand
      <3> QED
        BY <1>3, <2>1, <3>1, <3>3 DEF Carrying
    <2>3. CASE ~Handshaking(s)
      <3>1. hw[s].al = SAFE_OP /\ Blank(hw[s])
        BY <1>9, <2>3 DEF Lives, Stage, Configuring, Waiting, Requesting, Restarting,
               Confirming, Serving
      <3>2. Before(s)'
        BY <1>8, <1>9, <2>1, <3>1 DEF Carrying
      <3>3. hw'[s].al = OP => InHand(s)'
        <4> SUFFICES ASSUME hw'[s].al = OP PROVE InHand(s)'
          OBVIOUS
        <4>1. At("op", s)
          <5>1. hw[s].al # OP
            BY <3>1
          <5>2. hw'[s].al = OP => hw[s].al = OP \/ At("op", s)
            BY CheckerMoves
          <5> QED
            BY <5>1, <5>2
        <4>2. e.idx = 1 /\ e.argSent = FALSE
          BY <1>2, <1>9, <4>1 DEF Carrying
        <4>3. \A i \in Places : ~Good(hw[s].args, i)
          BY <3>1 DEF Blank, NoArgs, Good, Places
        <4>4. \A i \in Places : ~(i < 1)
          BY DEF Places
        <4> QED
          BY <1>1, <3>2, <4>2, <4>3, <4>4 DEF Before, Unechoed, InHand
      <3> QED
        BY <1>3, <2>1, <3>2, <3>3 DEF Carrying
    <2> QED
      BY <2>2, <2>3
  <1>10. CASE d.mstat = 3
    <2>1. Confirming(s)
      BY <1>10 DEF Lives, Stage, Configuring, Waiting, Requesting, Restarting, Handshaking, Serving
    <2>2. dev' = dev /\ hw' = hw
      BY <2>1, CheckAttached DEF Confirming
    <2>3. Complete(s) /\ d.mstat # 2
      BY <1>10 DEF Carrying
    <2>4. Complete(s)'
      BY <1>1, <2>2, <2>3 DEF Complete
    <2> QED
      BY <1>10, <2>2, <2>4 DEF Carrying
  <1>11. CASE d.mstat > 3
    <2>1. Beyond(s)
      BY <1>11 DEF Carrying
    <2>2. Beyond(s)'
      BY <1>1, <1>5, <1>6, <2>1 DEF Beyond, Unechoed
    <2>3. CASE ~Reconfig(s)
      BY <1>2, <1>4, <1>11, <2>2, <2>3 DEF Carrying
    <2>4. CASE Reconfig(s)
      <3>1. hw'[s].al = SAFE_OP /\ ~CheckLost(s)
        BY <2>4, CheckerMoves, CheckerOnRecord DEF Reconfig, CheckLost, At
      <3>2. Raw(d.m2s)
        <4>1. Clean(d.m2s)
          BY <1>4, <1>11 DEF Content
        <4>2. d.m2s[HeadTask].kind \in {"init", "cmd"}
          BY <4>1, TasksAssumption DEF Clean
        <4> QED
          BY <4>2 DEF Raw
      <3>3. out[s].stat # 2 /\ hw[s].rx.stat # 2
        <4>1. out[s].stat >= 3 /\ hw[s].rx.stat # 2 /\ out[s].stat \in Nat
          BY <1>11, StatusTypes
          DEF Lives, Stage, Configuring, Waiting, Requesting, Restarting, Handshaking,
              Confirming, Serving
        <4> QED
          BY <4>1
      <3>4. Pipeline(s, 1)'
        BY <1>1, <1>2, <3>1, <3>2, <3>3 DEF Pipeline
      <3>5. Before(s)'
        BY <2>2, <3>4 DEF Before, Beyond
      <3>6. e.mstat # 3 /\ (e.mstat > 3 => Beyond(s)') /\ hw'[s].al # OP
        BY <1>2, <1>11, <2>2, <3>1
      <3> HIDE DEF e
      <3> QED
        BY <1>3, <3>5, <3>6 DEF Carrying, e
    <2> QED
      BY <2>3, <2>4
  <1> QED
    BY <1>4, <1>9, <1>10, <1>11

LEMMA CarryingStep ==
    ASSUME Recoverable, QuietHandshake, ReconfigAnswered, TypeOK, Threads,
           NEW s \in Slaves, Lives(s), Content(s), Carrying(s), [Next]_vars
    PROVE  Carrying(s)'
  <1>1. CASE Elsewhere(s)
    BY <1>1, StillCarrying DEF Elsewhere
  <1>2. CASE Receives(s)
    BY <1>2, ReceivesCarrying
  <1>3. CASE Processes(s)
    BY <1>3, ProcessesCarrying
  <1>4. CASE Transfers(s)
    BY <1>4, TransfersCarrying
  <1>5. ASSUME NEW lost \in {"no", "out", "back"}, Exchanges(s, lost) PROVE Carrying(s)'
    BY <1>5, ExchangesCarrying
  <1>6. CASE WakesAt(s)
    BY <1>6, StillCarrying DEF WakesAt, At
  <1>7. CASE CheckSlave(s)
    BY <1>7, CheckCarrying
  <1>8. ASSUME NEW t \in Tasks, NEW c \in Cmds, Commands(s, t, c) PROVE Carrying(s)'
    BY <1>8, CommandsCarrying
  <1>9. CASE BoardOnly(s) /\ Firmware(s)
    BY <1>9, FirmwareCarrying
  <1>10. CASE BoardOnly(s) /\ Fault(s)
    BY <1>10, FaultCarrying
  <1>11. CASE BoardOnly(s) /\ Repair(s)
    BY <1>11, RepairCarrying
  <1>12. StepAt(s)
    BY EveryStep
  <1> QED
    BY <1>1, <1>2, <1>3, <1>4, <1>5, <1>6, <1>7, <1>8, <1>9, <1>10, <1>11, <1>12 DEF StepAt

RecoveryInvariant == TypeOK /\ LivesInv /\ ContentInv /\ CarryingInv

LEMMA CarryingAlways ==
    Recoverable /\ QuietHandshake /\ "mcureset" \notin FaultKinds =>
        (Spec /\ []ReconfigAnswered => []RecoveryInvariant)
  <1> SUFFICES ASSUME Recoverable, QuietHandshake, "mcureset" \notin FaultKinds
               PROVE  Spec /\ []ReconfigAnswered => []RecoveryInvariant
    OBVIOUS
  <1>1. ReconfigAnswered /\ TypeOK /\ LivesInv /\ ContentInv /\ CarryingInv /\ [Next]_vars
        => CarryingInv'
    BY CarryingStep DEF LivesInv, ContentInv, CarryingInv
  <1> QED
    BY <1>1, CarryingInit, ContentAlways, EverySlaveInAStage, TypeCorrect, PTL
       DEF Spec, RecoveryInvariant

LEMMA DrivenIsComplete ==
    ASSUME TypeOK, NEW s \in Slaves, Lives(s), Carrying(s), Driven(hw[s])
    PROVE  hw[s].args = AllArgs
  <1>1. /\ hw[s].al = OP /\ hw[s].stat >= 2 /\ hw[s].rx.stat >= 3
        /\ hw[s].stat \in Nat /\ hw[s].rx.stat \in Nat
    BY StatusTypes DEF Driven
  <1>2. dev[s].mstat = 3 \/ (dev[s].mstat > 3 /\ hw[s].stat # 2)
    BY <1>1 DEF Lives, Stage, Configuring, Waiting, Requesting, Restarting, Handshaking,
           Confirming, Serving
  <1>3. AllGood(hw[s].args)
    BY <1>1, <1>2 DEF Carrying, Complete, Beyond
  <1>4. hw[s].args \in [Places -> {"none", "good", "bad"}]
    BY SlaveTypes DEF Hardware, Places
  <1> QED
    BY <1>3, <1>4 DEF AllArgs, AllGood, Good, Places

(* Through every fault and recovery but a restart of the firmware alone, a  *)
(* slave is driven only with every argument byte received intact: no byte   *)
(* it lost is missing, and no echo of an earlier handshake, nor outputs     *)
(* that were still on their way, are taken for part of the new one.         *)
THEOREM ConfiguredThroughRecovery ==
    Recoverable /\ QuietHandshake /\ "mcureset" \notin FaultKinds =>
        (Spec /\ []ReconfigAnswered => []ConfiguredWhenDriven)
  <1> SUFFICES ASSUME Recoverable, QuietHandshake, "mcureset" \notin FaultKinds
               PROVE  Spec /\ []ReconfigAnswered => []ConfiguredWhenDriven
    OBVIOUS
  <1>1. RecoveryInvariant => ConfiguredWhenDriven
    BY DrivenIsComplete DEF RecoveryInvariant, LivesInv, CarryingInv, ConfiguredWhenDriven
  <1> QED
    BY <1>1, CarryingAlways, PTL

-----------------------------------------------------------------------------
(* The refinement, with faults: a slave that restarts loses its arguments.  *)
LEMMA ArgsChange ==
    ASSUME TypeOK, Threads, NEW s \in Slaves, [Next]_vars, ~(BoardOnly(s) /\ Firmware(s))
    PROVE  hw'[s].args = hw[s].args \/ (hw'[s].args = NoArgs /\ hw'[s].al = INIT)
  <1>1. StepAt(s) /\ hw[s] \in Hardware
    BY EveryStep, SlaveTypes
  <1>2. CASE \/ Elsewhere(s) \/ Receives(s) \/ Processes(s) \/ Transfers(s) \/ WakesAt(s)
             \/ \E t \in Tasks : \E c \in Cmds : Commands(s, t, c)
    <2>1. hw'[s] = hw[s]
      BY <1>2 DEF Elsewhere, Receives, Processes, Transfers, DataHere, WakesAt, Commands
    <2> QED
      BY <2>1
  <1>3. ASSUME NEW lost, Exchanges(s, lost) PROVE hw'[s].args = hw[s].args
    BY <1>1, <1>3 DEF Exchanges, Hardware
  <1>4. CASE CheckSlave(s)
    BY <1>4, CheckerOnBoard
  <1>5. CASE Fault(s)
    BY <1>5, FaultSteps DEF LeavesBoard, RestartsBoard, Blank
  <1>6. CASE Repair(s)
    <2>1. hw'[s] = [hw[s] EXCEPT !.link = TRUE] \/ hw'[s] = [hw[s] EXCEPT !.power = TRUE]
      BY <1>6 DEF Repair, TypeOK
    <2> QED
      BY <1>1, <2>1 DEF Hardware
  <1> QED
    BY <1>1, <1>2, <1>3, <1>4, <1>5, <1>6 DEF StepAt

LEMMA FirmwareTakes ==
    ASSUME TypeOK, NEW s \in Slaves, Lives(s), Carrying(s), BoardOnly(s), Firmware(s),
           Received(hw'[s]) # Received(hw[s])
    PROVE  \E i \in 1 .. ArgLen : Transfer!Take(s, i)
  <1> DEFINE a == hw[s].args
             n == dev[s].idx
  <1>1. hw[s].rx.stat = 2 /\ hw'[s].rx = hw[s].rx /\ hw[s].al = OP /\ n \in Places
    <2>1. hw'[s].args # a
      BY DEF Received
    <2>2. ParsesByte(hw[s], hw'[s]) \/ ParsesOther(hw[s], hw'[s])
      BY <2>1, FirmwareArgs DEF SameArgs
    <2>3. hw[s].rx.stat = 2
      BY <2>2 DEF ParsesByte, ParsesOther
    <2> QED
      BY <2>3, FirmwareSteps, SlaveTypes DEF FirmwareChange, Devices, Places
  <1>2. PICK k \in Places : (a[k] = "good" /\ hw'[s].args[k] # "good")
                            \/ (a[k] # "good" /\ hw'[s].args[k] = "good")
    BY DEF Received, Places
  <1>3. dev[s].mstat = 2
    <2>1. dev[s].mstat # 3
      <3> SUFFICES ASSUME dev[s].mstat = 3 PROVE FALSE
        OBVIOUS
      <3>1. Complete(s)
        BY DEF Carrying
      <3>2. ~ParsesOther(hw[s], hw'[s])
        BY <3>1, RawOrArgument DEF ParsesOther, Complete
      <3>3. \A i \in Places : a[i] = "good" /\ hw'[s].args[i] = "good"
        BY <3>1, <3>2, FirmwareArgs DEF SameArgs, ParsesByte, Complete, AllGood, Good
      <3> QED
        BY <1>2, <3>3
    <2>2. ~(dev[s].mstat > 3)
      BY <1>1 DEF Lives, Stage, Configuring, Waiting, Requesting, Restarting, Handshaking,
             Confirming, Serving
    <2> QED
      BY <2>1, <2>2, SlaveTypes DEF Devices
  <1>4. InHand(s)
    BY <1>1, <1>3 DEF Carrying
  <1>5. ParsesByte(hw[s], hw'[s])
    <2>1. ~SameArgs(hw[s], hw'[s])
      BY <1>2 DEF SameArgs
    <2>2. ~ParsesOther(hw[s], hw'[s])
      <3> SUFFICES ASSUME ParsesOther(hw[s], hw'[s]) PROVE FALSE
        OBVIOUS
      <3>1. \A i \in Places : ~Good(a, i)
        BY <1>4, RawOrArgument DEF ParsesOther, InHand
      <3>2. \A i \in Places : ~Good(hw'[s].args, i)
        BY <3>1 DEF ParsesOther, Good
      <3> QED
        BY <1>2, <3>1, <3>2 DEF Good
    <2> QED
      BY <2>1, <2>2, FirmwareArgs
  <1>6. PICK j \in Places :
          /\ hw[s].rx.buf[HeadTask].kind = "arg" /\ hw[s].rx.buf[HeadTask].val = j
          /\ Good(hw'[s].args, j) /\ (\A i \in Places : i # j => hw'[s].args[i] = a[i])
    BY <1>5 DEF ParsesByte
  <1>7. j <= n
    <2>1. Argument(hw[s].rx.buf, n)
      BY <1>1, <1>4, <1>6 DEF InHand, Pipeline, Raw
    <2> QED
      BY <1>6, <2>1, ArgFacts DEF Argument
  <1>8. ~Good(a, j)
    BY <1>2, <1>6 DEF Good
  <1>9. j = n
    <2>1. ~(j < n)
      BY <1>4, <1>8 DEF InHand
    <2> QED
      BY <1>1, <1>7, <2>1 DEF Places
  <1>10. \A i \in Places : Good(a, i) <=> i < j
    <2>1. \A i \in Places : i < j \/ i = j \/ i > j
      BY DEF Places
    <2>2. \A i \in Places : i > j => ~(i < j)
      BY DEF Places
    <2>3. ~(j < j)
      BY DEF Places
    <2> QED
      BY <1>4, <1>8, <1>9, <2>1, <2>2, <2>3 DEF InHand
  <1>11. Received(hw[s]) = [i \in 1 .. ArgLen |-> IF i < j THEN "good" ELSE "none"]
    BY <1>10 DEF Received, Places, Good
  <1>12. Received(hw'[s]) = [Received(hw[s]) EXCEPT ![j] = "good"]
    BY <1>6 DEF Received, Places, Good
  <1>13. Driven(hw[s]) = FALSE /\ Driven(hw'[s]) = FALSE
    BY <1>1 DEF Driven
  <1>14. Transfer!Take(s, j)
    <2> DEFINE g == [r \in Slaves |-> Received(hw[r])]
               h == [r \in Slaves |-> Received(hw'[r])]
    <2>1. g[s] = Received(hw[s]) /\ h[s] = Received(hw'[s])
      OBVIOUS
    <2>2. /\ [r \in Slaves |-> Driven(hw[r])][s] = Driven(hw[s])
          /\ [r \in Slaves |-> Driven(hw'[r])][s] = Driven(hw'[s])
      BY Zenon
    <2>3. /\ g[s] = [i \in 1 .. ArgLen |-> IF i < j THEN "good" ELSE "none"]
          /\ h[s] = [g[s] EXCEPT ![j] = "good"]
      BY <1>11, <1>12, <2>1, Zenon
    <2>4. [r \in Slaves |-> Driven(hw'[r])][s] = [r \in Slaves |-> Driven(hw[r])][s]
      BY <1>13, <2>2, Zenon
    <2> QED
      BY <2>3, <2>4, Zenon DEF Transfer!Take
  <1> QED
    BY <1>14 DEF Places

LEMMA RecoveryParts ==
    ASSUME RecoveryInvariant, ConfiguredWhenDriven', [Next]_vars, NEW s \in Slaves
    PROVE  Part(s)
  <1>1. TypeOK /\ Threads /\ Lives(s) /\ Carrying(s)
    BY DEF RecoveryInvariant, LivesInv, CarryingInv
  <1>2. CASE Received(hw'[s]) = Received(hw[s])
    <2>1. CASE Driven(hw'[s])
      <3>1. hw'[s].args = AllArgs
        BY <2>1 DEF ConfiguredWhenDriven
      <3>2. Received(hw'[s]) = Transfer!All
        BY <3>1 DEF Received, AllArgs, Transfer!All
      <3>3. Transfer!Start(s)
        BY <1>2, <2>1, <3>2 DEF Transfer!Start
      <3> QED
        BY <3>3 DEF Part
    <2>2. CASE ~Driven(hw'[s])
      <3>1. Transfer!Stop(s)
        BY <1>2, <2>2 DEF Transfer!Stop
      <3> QED
        BY <3>1 DEF Part
    <2> QED
      BY <2>1, <2>2
  <1>3. CASE Received(hw'[s]) # Received(hw[s])
    <2>1. CASE BoardOnly(s) /\ Firmware(s)
      <3>1. \E i \in 1 .. ArgLen : Transfer!Take(s, i)
        BY <1>1, <1>3, <2>1, FirmwareTakes
      <3> QED
        BY <3>1 DEF Part
    <2>2. CASE ~(BoardOnly(s) /\ Firmware(s))
      <3>1. hw'[s].args = NoArgs /\ hw'[s].al = INIT
        BY <1>1, <1>3, <2>2, ArgsChange DEF Received
      <3>2. Received(hw'[s]) = Transfer!None /\ ~Driven(hw'[s])
        BY <3>1 DEF Received, NoArgs, Transfer!None, Driven
      <3>3. Transfer!Lose(s)
        BY <3>2 DEF Transfer!Lose
      <3> QED
        BY <3>3 DEF Part
    <2> QED
      BY <2>1, <2>2
  <1> QED
    BY <1>2, <1>3

(* Through every fault and recovery but a restart of the firmware alone,    *)
(* EcatMaster implements ArgTransfer: whatever its history, a slave that    *)
(* has lost its arguments gets them all again, in order and intact, before  *)
(* it is driven the next time.                                              *)
THEOREM TransferThroughRecovery ==
    Recoverable /\ QuietHandshake /\ "mcureset" \notin FaultKinds =>
        (Spec /\ []ReconfigAnswered => ArgumentsTransferred)
  <1> SUFFICES ASSUME Recoverable, QuietHandshake, "mcureset" \notin FaultKinds
               PROVE  Spec /\ []ReconfigAnswered => ArgumentsTransferred
    OBVIOUS
  <1>1. RecoveryInvariant /\ ConfiguredWhenDriven' /\ [Next]_vars
        => [Transfer!Next]_(Transfer!vars)
    <2> SUFFICES ASSUME RecoveryInvariant, ConfiguredWhenDriven', [Next]_vars
                 PROVE  Transfer!Next
      OBVIOUS
    <2>1. \A s \in Slaves : Part(s)
      BY RecoveryParts
    <2> QED
      BY <2>1 DEF Transfer!Next, Part
  <1> QED
    BY <1>1, RefinedInit, CarryingAlways, ConfiguredThroughRecovery, PTL
       DEF Spec, ArgumentsTransferred, Transfer!Spec
================================================================================
