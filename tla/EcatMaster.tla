------------------------------ MODULE EcatMaster -------------------------------
(***************************************************************************)
(* The running master: the data thread (datacycle_callback), the checker    *)
(* thread (state_check_callback) and the ROS executor's subscription        *)
(* callbacks, over the slaves on the EtherCAT segment.                      *)
(*                                                                          *)
(* The slave hardware, SOEM and the faults of the wire are not in this      *)
(* repository; they are modelled from how the code uses them.               *)
(***************************************************************************)
EXTENDS SlaveDevice, Integers

CONSTANTS
    NumSlaves,        \* ec_slavecount
    FaultySlaves,     \* the slaves faults may happen to
    FaultKinds,       \* which faults happen
    MaxFaults,        \* bound on the number of faults
    FaultsInHandshake,\* may a fault hit a slave that is still being configured?
    QuietHandshake,   \* do clients publish only to slaves that are ready?
    SleepCoversCycle  \* do two frames come back while the checker sleeps 100 ms?

Slaves == 1 .. NumSlaves

AllFaults == {"unplug", "power", "swap", "reflash", "mcureset", "safeop", "watchdog", "frame",
              "sdo", "rev", "midway"}

ASSUME NumSlavesAssumption == NumSlaves \in Nat \ {0}
ASSUME FaultsAssumption ==
    /\ FaultySlaves \subseteq Slaves
    /\ FaultKinds \subseteq AllFaults
    /\ MaxFaults \in Nat
    /\ {FaultsInHandshake, QuietHandshake, SleepCoversCycle} \subseteq BOOLEAN

VARIABLES
    dev,      \* dev[s]: the SlaveDevice of slave s
    hw,       \* hw[s]: slave s itself (external)
    inp,      \* inp[s]: ec_slave[s].inputs, the process image SOEM last received
    out,      \* out[s]: ec_slave[s].outputs, the process image sent next
    wkcOk,    \* wkc_ >= expectedWkc_
    dpc, dcur,\* data thread: where it is, and the slave it is at
    cpc, ccur,\* checker thread: where it is, and the slave it is at
    obs,      \* obs[s]: ec_slave[s].state
    islost,   \* islost[s]: ec_slave[s].islost
    docheck,  \* ec_group[0].docheckstate
    cyc,      \* frames that came back since the checker went to sleep (0, 1, 2)
    faults,   \* how many faults have happened
    latest,   \* history: latest[s][t], the last value a client meant for task t
    atLoss    \* history: atLoss[s][t], what task t was to keep at the last loss

master == <<dpc, dcur, inp, out, wkcOk>>
checker == <<cpc, ccur, obs, islost, docheck>>
history == <<latest, atLoss>>
vars == <<dev, hw, master, checker, cyc, faults, history>>

-----------------------------------------------------------------------------
(* The slave (external).                                                    *)

NONE == 0       \* AL states: no answer,
INIT == 1
PRE_OP == 2
SAFE_OP == 4
OP == 8
SAFE_OP_ERROR == 20    \* SAFE_OP + EC_STATE_ERROR
ALStates == {INIT, PRE_OP, SAFE_OP, OP, SAFE_OP_ERROR}

NoArgs == [i \in 1 .. ArgLen |-> "none"]
AllArgs == [i \in 1 .. ArgLen |-> "good"]
NoOutputs == [stat |-> 0, buf |-> Const(Zero)]
Outputs == [stat : 0 .. MaxStatus, buf : Buffers]
Inputs == [stat : 0 .. MaxStatus, echo : InContent]

Hardware ==
    [power : BOOLEAN, link : BOOLEAN, addr : BOOLEAN, own : BOOLEAN, fit : BOOLEAN,
     al : ALStates, stat : 1 .. MaxStatus, args : [1 .. ArgLen -> {"none", "good", "bad"}],
     echo : InContent, rx : Outputs]

FreshHardware ==
    [power |-> TRUE, link |-> TRUE, addr |-> TRUE, own |-> TRUE, fit |-> TRUE, al |-> OP,
     stat |-> SLAVE_INITIALIZING, args |-> NoArgs, echo |-> Zero, rx |-> NoOutputs]

(* It answers frames to its station address.                                *)
Reachable(h) == h.power /\ h.link /\ h.addr
ALSeen(h) == IF Reachable(h) THEN h.al ELSE NONE

(* The firmware restarts: arguments, outputs and status are gone.           *)
Restarted(h) ==
    [h EXCEPT !.al = INIT, !.stat = SLAVE_INITIALIZING, !.args = NoArgs,
              !.echo = Zero, !.rx = NoOutputs]

(* What init() takes it for, when its serial number and its firmware        *)
(* revision are read as own and fit.                                        *)
Identity(own, fit) ==
    IF ~own THEN "foreign" ELSE IF ~fit THEN "outdated" ELSE "known"

(* The revision string is one for all slaves: when it cannot be read, it is *)
(* the one of some slave read before.                                       *)
StaleRevisions == {TRUE} \cup {r \in {FALSE} : "reflash" \in FaultKinds}

(* The firmware's application is driven by the outputs it holds.            *)
Driven(h) == h.al = OP /\ h.stat >= SLAVE_READY /\ h.rx.stat >= MASTER_READY

-----------------------------------------------------------------------------
Init ==
    /\ dev = [s \in Slaves |-> FreshDevice]
    /\ hw = [s \in Slaves |-> FreshHardware]
    /\ inp = [s \in Slaves |-> [stat |-> SLAVE_INITIALIZING, echo |-> Zero]]
    /\ out = [s \in Slaves |-> NoOutputs]
    /\ wkcOk = TRUE
    /\ dpc = "receive" /\ dcur = 1
    /\ cpc = "sleep" /\ ccur = 1
    /\ obs = [s \in Slaves |-> OP]
    /\ islost = [s \in Slaves |-> FALSE]
    /\ docheck = FALSE
    /\ cyc = 0
    /\ faults = 0
    /\ latest = [s \in Slaves |-> Const(InitVal)]
    /\ atLoss = [s \in Slaves |-> Const(InitVal)]

-----------------------------------------------------------------------------
(* Data thread: receive, process, transfer each slave in turn, then send the *)
(* frame and wait for it to come back.                                      *)

Advance(here, next) ==
    /\ dpc = here
    /\ IF dcur < NumSlaves THEN dcur' = dcur + 1 /\ dpc' = dpc
                           ELSE dcur' = 1 /\ dpc' = next

ReceiveSlave ==
    /\ Advance("receive", "process")
    /\ dev' = [dev EXCEPT ![dcur] = ReceiveFromSlave(@, inp[dcur])]
    /\ UNCHANGED <<hw, inp, out, wkcOk, checker, cyc, faults, history>>

ProcessOne ==
    /\ Advance("process", "transfer")
    /\ dev' = [dev EXCEPT ![dcur] = ProcessSlave(@)]
    /\ UNCHANGED <<hw, inp, out, wkcOk, checker, cyc, faults, history>>

TransferSlave ==
    /\ Advance("transfer", "exchange")
    /\ out' = [out EXCEPT ![dcur] = [stat |-> dev[dcur].mstat, buf |-> dev[dcur].m2s]]
    /\ UNCHANGED <<dev, hw, inp, wkcOk, checker, cyc, faults, history>>

(* ec_send_processdata, then ec_receive_processdata of the next cycle: one  *)
(* frame visits every slave.  A slave in OP takes its outputs, one in OP or *)
(* SAFE_OP fills in its inputs; the inputs of the others keep what they     *)
(* held.  A lost frame (fault "frame") may be lost on its way out, or back. *)
Takes(h, lost) == Reachable(h) /\ h.al = OP /\ lost # "out"
Gives(h, lost) == Reachable(h) /\ h.al \in {SAFE_OP, SAFE_OP_ERROR, OP} /\ lost = "no"

Exchange(lost) ==
    /\ dpc = "exchange"
    /\ IF lost = "no" THEN faults' = faults
       ELSE "frame" \in FaultKinds /\ faults < MaxFaults /\ faults' = faults + 1
    /\ hw' = [s \in Slaves |-> IF Takes(hw[s], lost)
                               THEN [hw[s] EXCEPT !.rx = out[s]] ELSE hw[s]]
    /\ inp' = [s \in Slaves |-> IF Gives(hw[s], lost)
                                THEN [stat |-> hw[s].stat, echo |-> hw[s].echo] ELSE inp[s]]
    /\ wkcOk' = (lost = "no" /\ \A s \in Slaves : Reachable(hw[s]) /\ hw[s].al = OP)
    /\ dpc' = "receive"
    /\ cyc' = IF SleepCoversCycle /\ lost = "no" /\ cpc = "sleep" /\ cyc < 2
               THEN cyc + 1 ELSE cyc
    /\ UNCHANGED <<dev, dcur, out, checker, history>>

DataThread ==
    \/ ReceiveSlave \/ ProcessOne \/ TransferSlave
    \/ \E lost \in {"no", "out", "back"} : Exchange(lost)

-----------------------------------------------------------------------------
(* Checker thread.  A round visits the slaves in order; "check" is the test *)
(* of ec_slave[s].state, "tail" the islost test that follows it.            *)

NextSlave ==
    IF ccur < NumSlaves THEN cpc' = "check" /\ ccur' = ccur + 1 /\ cyc' = cyc
                        ELSE cpc' = "sleep" /\ ccur' = 1 /\ cyc' = 0

(* The 100 ms are over and there is something to check: ec_readstate().     *)
Wake ==
    /\ cpc = "sleep"
    /\ SleepCoversCycle => cyc = 2
    /\ ~wkcOk \/ docheck
    /\ docheck' = FALSE
    /\ obs' = [s \in Slaves |-> ALSeen(hw[s])]
    /\ cpc' = "check"
    /\ cyc' = 0
    /\ UNCHANGED <<dev, hw, master, ccur, islost, faults, history>>

(* Mutant: the position in ec_slave is not the position in the device list. *)
AtAny(pc, s) == cpc = pc /\ s \in Slaves

At(pc, s) == cpc = pc /\ ccur = s
Goto(pc) == cpc' = pc /\ ccur' = ccur /\ cyc' = cyc

CheckOperational(s) ==
    /\ At("check", s)
    /\ obs[s] = OP
    /\ Goto("tail")
    /\ UNCHANGED <<dev, hw, master, obs, islost, docheck, faults, history>>

(* SAFE_OP: the slave restarted and was reconfigured; resend all arguments. *)
CheckSafeOp(s) ==
    /\ At("check", s)
    /\ obs[s] = SAFE_OP /\ ~dev[s].rejected
    /\ docheck' = TRUE
    /\ dev' = [dev EXCEPT ![s] = PreRecover(@)]
    /\ Goto("op")
    /\ UNCHANGED <<hw, master, obs, islost, faults, history>>

RequestOp(s) ==
    /\ At("op", s)
    /\ hw' = [hw EXCEPT ![s].al = IF Reachable(hw[s]) /\ @ = SAFE_OP THEN OP ELSE @]
    /\ obs' = [obs EXCEPT ![s] = ALSeen(hw'[s])]
    /\ Goto("tail")
    /\ UNCHANGED <<dev, master, islost, docheck, faults, history>>

(* INIT: ec_statecheck() stores the state it reads and returns it; NONE is  *)
(* the only one that is false.                                              *)
CheckInit(s) ==
    /\ At("check", s)
    /\ obs[s] = INIT
    /\ docheck' = TRUE
    /\ obs' = [obs EXCEPT ![s] = ALSeen(hw[s])]
    /\ Goto(IF Reachable(hw[s]) THEN "reconfig" ELSE "tail")
    /\ UNCHANGED <<dev, hw, master, islost, faults, history>>

(* The slave stops answering during ec_reconfig_slave(), before init() or in *)
(* it, with its serial number and revision read or not.  It is left in      *)
(* PRE_OP (fault "midway"), a restart takes it back to INIT.                *)
LostOnTheWay(s) ==
    LET kept == hw[s].power /\ hw[s].addr
    IN /\ kept => "midway" \in FaultKinds
       /\ \/ dev' = dev
          \/ \E own \in {TRUE, hw[s].own}, fit \in StaleRevisions \cup {hw[s].fit} :
                dev' = [dev EXCEPT ![s] = ReInit(@, Identity(own, fit))]
       /\ hw' = [hw EXCEPT ![s].al = IF kept THEN PRE_OP ELSE INIT]

(* ec_reconfig_slave() takes the slave to SAFE_OP, calling init() on the    *)
(* way (whose result SOEM ignores), unless the slave stops answering.       *)
(* init() also ignores a failed SDO read: of the serial number (fault       *)
(* "sdo"), which it then compares with itself, or of the revision ("rev").  *)
Reconfig(s) ==
    /\ At("reconfig", s)
    /\ \/ /\ Reachable(hw[s])
          /\ \/ /\ dev' = [dev EXCEPT ![s] = ReInit(@, Identity(hw[s].own, hw[s].fit))]
                /\ faults' = faults
             \/ /\ faults < MaxFaults /\ s \in FaultySlaves
                /\ \/ /\ "sdo" \in FaultKinds
                      /\ dev' = [dev EXCEPT ![s] = ReInit(@, Identity(TRUE, hw[s].fit))]
                   \/ /\ "rev" \in FaultKinds
                      /\ \E fit \in StaleRevisions :
                            dev' = [dev EXCEPT ![s] = ReInit(@, Identity(hw[s].own, fit))]
                /\ faults' = faults + 1
          /\ hw' = [hw EXCEPT ![s].al = SAFE_OP]
          /\ obs' = [obs EXCEPT ![s] = SAFE_OP]
          /\ Goto("configured")
       \/ /\ ~Reachable(hw[s])
          /\ UNCHANGED <<dev, hw>> \/ LostOnTheWay(s)
          /\ obs' = [obs EXCEPT ![s] = NONE]
          /\ Goto("failed")
          /\ UNCHANGED faults
    /\ UNCHANGED <<master, islost, docheck, history>>

(* A rejected board is sent back to INIT, the known one is no longer lost;  *)
(* either way, and also when the reconfiguration failed, reset_state().     *)
AfterReconfig(s) ==
    /\ At("configured", s) \/ At("failed", s)
    /\ IF cpc = "failed" THEN UNCHANGED <<hw, obs, islost>>
       ELSE IF dev[s].rejected
       THEN /\ obs' = [obs EXCEPT ![s] = INIT]
            /\ hw' = [hw EXCEPT ![s].al = IF Reachable(hw[s]) THEN INIT ELSE @]
            /\ UNCHANGED islost
       ELSE /\ islost' = [islost EXCEPT ![s] = FALSE]
            /\ UNCHANGED <<hw, obs>>
    /\ dev' = [dev EXCEPT ![s] = ResetState(@)]
    /\ Goto("tail")
    /\ UNCHANGED <<master, docheck, faults, history>>

(* What is still meant for the tasks after a loss (history).                *)
Forget(buf) == [t \in Tasks |-> IF t \in ResetWrite THEN InitVal ELSE buf[t]]

(* Not seen before as lost, and silent now.                                 *)
CheckLost(s) ==
    /\ At("check", s)
    /\ obs[s] = NONE /\ ~islost[s]
    /\ docheck' = TRUE
    /\ islost' = [islost EXCEPT ![s] = TRUE]
    /\ dev' = [dev EXCEPT ![s] = LoseConnection(@)]
    /\ latest' = [latest EXCEPT ![s] = Forget(@)]
    /\ atLoss' = [atLoss EXCEPT ![s] = Forget(dev[s].m2s)]
    /\ Goto("tail")
    /\ UNCHANGED <<hw, master, obs, faults>>

(* The states no branch handles, or a rejected board in SAFE_OP.            *)
CheckOther(s) ==
    /\ At("check", s)
    /\ \/ obs[s] \in {PRE_OP, SAFE_OP_ERROR}
       \/ obs[s] = SAFE_OP /\ dev[s].rejected
       \/ obs[s] = NONE /\ islost[s]
    /\ docheck' = TRUE
    /\ Goto("tail")
    /\ UNCHANGED <<dev, hw, master, obs, islost, faults, history>>

TailNotLost(s) ==
    /\ At("tail", s)
    /\ ~islost[s]
    /\ NextSlave
    /\ UNCHANGED <<dev, hw, master, obs, islost, docheck, faults, history>>

(* ec_recover_slave(): a board of the same type answers at the position and *)
(* has, or is given, the station address.                                   *)
TailRecover(s) ==
    /\ At("tail", s)
    /\ islost[s] /\ obs[s] = NONE
    /\ IF hw[s].power /\ hw[s].link
       THEN /\ hw' = [hw EXCEPT ![s].addr = TRUE]
            /\ islost' = [islost EXCEPT ![s] = FALSE]
            /\ Goto("recover")
       ELSE NextSlave /\ UNCHANGED <<hw, islost>>
    /\ UNCHANGED <<dev, master, obs, docheck, faults, history>>

(* recover_state() without the lock: two writes another thread can see one  *)
(* of, in either order.                                                     *)
RecoverFirstWrite(s) ==
    /\ At("recover", s)
    /\ \/ dev' = [dev EXCEPT ![s].ready = TRUE]
       \/ dev' = [dev EXCEPT ![s].confRos = TRUE]
    /\ Goto("recovering")
    /\ UNCHANGED <<hw, master, obs, islost, docheck, faults, history>>

RecoverSecondWrite(s) ==
    /\ At("recovering", s)
    /\ dev' = [dev EXCEPT ![s] = RecoverState(@)]
    /\ NextSlave
    /\ UNCHANGED <<hw, master, obs, islost, docheck, faults, history>>

TailFound(s) ==
    /\ At("tail", s)
    /\ islost[s] /\ obs[s] # NONE
    /\ islost' = [islost EXCEPT ![s] = FALSE]
    /\ dev' = [dev EXCEPT ![s] = RecoverState(@)]
    /\ NextSlave
    /\ UNCHANGED <<hw, master, obs, docheck, faults, history>>

CheckSlave(s) ==
    \/ CheckOperational(s) \/ CheckSafeOp(s) \/ RequestOp(s)
    \/ CheckInit(s) \/ Reconfig(s) \/ AfterReconfig(s)
    \/ CheckLost(s) \/ CheckOther(s)
    \/ TailNotLost(s) \/ TailRecover(s) \/ TailFound(s)
    \/ RecoverFirstWrite(s) \/ RecoverSecondWrite(s)

CheckerThread == Wake \/ \E s \in Slaves : CheckSlave(s)

-----------------------------------------------------------------------------
(* ROS executor: on_command() takes the slave's lock and nothing else.      *)
Command(s, t, c) ==
    /\ QuietHandshake => dev[s].ready /\ dev[s].mstat # MASTER_SENDING_ARGUMENTS
    /\ dev' = [dev EXCEPT ![s] = OnCommand(@, t, c)]
    /\ latest' = [latest EXCEPT ![s] = [@ EXCEPT ![t] = Cmd(c)]]
    /\ UNCHANGED <<hw, master, checker, cyc, faults, atLoss>>

-----------------------------------------------------------------------------
(* Firmware of a slave (external): it parses outputs sent with status       *)
(* SENDING_ARGUMENTS as (index, byte), answers what it parsed, and reports  *)
(* READY once it holds a byte for every index.                              *)

TakeArg(s) ==
    LET h == hw[s]
        head == h.rx.buf[HeadTask]
    IN /\ h.power /\ h.al = OP
       /\ h.stat \in {SLAVE_INITIALIZING, SLAVE_READY}
       /\ h.rx.stat = MASTER_SENDING_ARGUMENTS
       /\ \/ /\ head.kind = "arg" /\ head.val \in 1 .. ArgLen
             /\ hw' = [hw EXCEPT ![s].args = [@ EXCEPT ![head.val] = "good"], ![s].echo = Arg(head.val)]
          \/ /\ head.kind \in {"cmd", "init"}
             /\ \E i \in 1 .. ArgLen :
                   hw' = [hw EXCEPT ![s].args = [@ EXCEPT ![i] = "bad"], ![s].echo = Junk]
       /\ hw' # hw
       /\ UNCHANGED <<dev, master, checker, cyc, faults, history>>

ReportReady(s) ==
    /\ hw[s].power /\ hw[s].al = OP
    /\ hw[s].stat = SLAVE_INITIALIZING
    /\ \A i \in 1 .. ArgLen : hw[s].args[i] # "none"
    /\ hw' = [hw EXCEPT ![s].stat = SLAVE_READY]
    /\ UNCHANGED <<dev, master, checker, cyc, faults, history>>

(* From MASTER_READY on it runs its tasks and echoes the master's status.   *)
EchoStatus(s) ==
    /\ hw[s].power /\ Driven(hw[s])
    /\ hw[s].stat # hw[s].rx.stat
    /\ hw' = [hw EXCEPT ![s].stat = hw[s].rx.stat, ![s].echo = Report]
    /\ UNCHANGED <<dev, master, checker, cyc, faults, history>>

Firmware(s) == TakeArg(s) \/ ReportReady(s) \/ EchoStatus(s)

-----------------------------------------------------------------------------
(* Faults (external).                                                       *)

Strike(kind, s) ==
    /\ kind \in FaultKinds /\ s \in FaultySlaves
    /\ faults < MaxFaults
    /\ FaultsInHandshake \/ dev[s].mstat > MASTER_READY
    /\ faults' = faults + 1
    /\ UNCHANGED <<dev, master, checker, cyc, history>>

Unplug(s) ==
    /\ hw[s].link
    /\ hw' = [hw EXCEPT ![s].link = FALSE]
    /\ Strike("unplug", s)

PowerOff(s) ==
    /\ hw[s].power
    /\ hw' = [hw EXCEPT ![s] = [Restarted(@) EXCEPT !.power = FALSE, !.addr = FALSE]]
    /\ Strike("power", s)

(* While it is off, the board may be exchanged for another of its type.     *)
Swap(s) ==
    /\ ~hw[s].power
    /\ hw' = [hw EXCEPT ![s].own = ~@]
    /\ Strike("swap", s)

(* Or given another firmware, older than the master requires or not.        *)
Reflash(s) ==
    /\ ~hw[s].power
    /\ hw' = [hw EXCEPT ![s].fit = ~@]
    /\ Strike("reflash", s)

(* The firmware restarts while the EtherCAT controller keeps its address.   *)
McuReset(s) ==
    /\ hw[s].power
    /\ hw' = [hw EXCEPT ![s] = Restarted(@)]
    /\ Strike("mcureset", s)

(* The slave drops to SAFE_OP, without or with the error flag.              *)
FallToSafeOp(s) ==
    /\ hw[s].al = OP
    /\ hw' = [hw EXCEPT ![s].al = SAFE_OP]
    /\ Strike("safeop", s)

Watchdog(s) ==
    /\ hw[s].al = OP /\ ~hw[s].link
    /\ hw' = [hw EXCEPT ![s].al = SAFE_OP_ERROR]
    /\ Strike("watchdog", s)

Fault(s) ==
    \/ Unplug(s) \/ PowerOff(s) \/ Swap(s) \/ Reflash(s)
    \/ McuReset(s) \/ FallToSafeOp(s) \/ Watchdog(s)

(* What was unplugged or switched off comes back.                           *)
Repair(s) ==
    /\ \/ /\ ~hw[s].link
          /\ hw' = [hw EXCEPT ![s].link = TRUE]
       \/ /\ ~hw[s].power
          /\ hw' = [hw EXCEPT ![s].power = TRUE]
    /\ UNCHANGED <<dev, master, checker, cyc, faults, history>>

-----------------------------------------------------------------------------
Next ==
    \/ DataThread
    \/ CheckerThread
    \/ \E s \in Slaves : \E t \in Tasks : \E c \in Cmds : Command(s, t, c)
    \/ \E s \in Slaves : Firmware(s) \/ Fault(s) \/ Repair(s)

Spec == Init /\ [][Next]_vars

(* The operating system schedules both threads for ever, the firmware keeps *)
(* running, and what failed is repaired.  Nobody has to publish a command.  *)
Fairness ==
    /\ WF_vars(DataThread)
    /\ WF_vars(CheckerThread)
    /\ \A s \in Slaves : WF_vars(Firmware(s)) /\ WF_vars(Repair(s))

LiveSpec == Spec /\ Fairness

-----------------------------------------------------------------------------
(* Properties.                                                              *)

(* Every variable has its type; in particular sending_arg_buf_idx_ always   *)
(* indexes arg_buf_, and master_status_ stays between 2 and MaxStatus.      *)
TypeOK ==
    /\ dev \in [Slaves -> Devices]
    /\ hw \in [Slaves -> Hardware]
    /\ inp \in [Slaves -> Inputs]
    /\ out \in [Slaves -> Outputs]
    /\ wkcOk \in BOOLEAN
    /\ dpc \in {"receive", "process", "transfer", "exchange"} /\ dcur \in Slaves
    /\ cpc \in {"sleep", "check", "op", "reconfig", "configured", "failed",
                "tail", "recover", "recovering"}
    /\ ccur \in Slaves
    /\ obs \in [Slaves -> ALStates \cup {NONE}]
    /\ islost \in [Slaves -> BOOLEAN]
    /\ docheck \in BOOLEAN
    /\ cyc \in 0 .. 2
    /\ faults \in 0 .. MaxFaults
    /\ latest \in [Slaves -> Buffers]
    /\ atLoss \in [Slaves -> Buffers]

(* The outputs that drive a slave's tasks are default values or commands    *)
(* somebody published: never uninitialised memory and never the argument    *)
(* bytes send_arg() leaves in the same buffer.                              *)
Clean(buf) == \A t \in Tasks : buf[t].kind \in {"init", "cmd"}

NoPhantom(s) == Driven(hw[s]) => Clean(hw[s].rx.buf)
NoPhantomCommand == \A s \in Slaves : NoPhantom(s)

(* A slave is driven only with every argument byte received intact: the     *)
(* echo comparison of send_arg() really protects the configuration.         *)
ConfiguredWhenDriven ==
    \A s \in Slaves : Driven(hw[s]) => hw[s].args = AllArgs

(* Once the slave works (again), the buffer holds what was last meant for   *)
(* each task: the latest command, or what was in force when the loss was    *)
(* noticed; a task configured to be reset holds nothing from before that.   *)
Kept(s) ==
    dev[s].ready /\ dev[s].mstat # MASTER_SENDING_ARGUMENTS =>
        \A t \in Tasks : dev[s].m2s[t] \in {latest[s][t], atLoss[s][t]}
CommandKept == \A s \in Slaves : Kept(s)

(* process_pdo() hands the tasks' read() only bytes the slave wrote as      *)
(* sensor data, never the echo of an argument.                              *)
ReportIsReport(s) ==
    dpc = "process" /\ dcur = s /\ Publishing(dev[s]) => dev[s].echo = Report
ReportsAreReports == \A s \in Slaves : ReportIsReport(s)

(* A board with another serial number than the one configured at this       *)
(* position is never taken to OP, so it never receives outputs.             *)
ForeignBoardNotOperational ==
    \A s \in Slaves : ~hw[s].own => hw[s].al # OP

(* A board whose firmware has become too old is never driven, although      *)
(* init() does not reject it and the checker takes it to OP like any other: *)
(* what keeps it back is that it is not offered its arguments.              *)
OutdatedNotDriven ==
    \A s \in Slaves : ~hw[s].fit => ~Driven(hw[s])

(* The arguments reach every slave as ArgTransfer promises: one by one, in  *)
(* order and intact; it is driven only when it has them all, and it gets    *)
(* all of them again after every restart.  (What it parses from the frames  *)
(* that carry SENDING_ARGUMENTS before the first argument is in the buffer  *)
(* counts as nothing received.)                                             *)
Received(h) == [i \in 1 .. ArgLen |-> IF h.args[i] = "good" THEN "good" ELSE "none"]
Transfer ==
    INSTANCE ArgTransfer WITH got <- [s \in Slaves |-> Received(hw[s])],
                              driven <- [s \in Slaves |-> Driven(hw[s])]
ArgumentsTransferred == Transfer!Spec

(* Hot recovery is local: whatever happens to the other slaves, one that    *)
(* has no fault of its own is never reset, reconfigured or asked for its    *)
(* arguments again, and once ready it stays ready.                          *)
StaysInService(s) ==
    /\ dev[s].ready => dev'[s].ready
    /\ dev[s].argSent => dev'[s].argSent
    /\ dev[s].mstat # MASTER_SENDING_ARGUMENTS => dev'[s].mstat # MASTER_SENDING_ARGUMENTS
    /\ dev'[s].reconn = dev[s].reconn

HealthyUndisturbed == [][\A s \in Slaves \ FaultySlaves : StaysInService(s)]_vars

(* Faults being finite in number and repaired, every slave is in the end    *)
(* operational, past the handshake and treated as ready, for good.          *)
InService(s) ==
    /\ ALSeen(hw[s]) = OP /\ hw[s].stat >= SLAVE_CONFIRM_READY
    /\ dev[s].ready /\ dev[s].confRos /\ ~islost[s]

AllRecover == <>[](\A s \in Slaves : InService(s))
=============================================================================
