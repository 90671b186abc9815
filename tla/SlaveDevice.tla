------------------------------ MODULE SlaveDevice ------------------------------
(***************************************************************************)
(* The master's record of one slave (class SlaveDevice, soem_backend.cpp)   *)
(* as a value, and each of its member functions as an operator from a       *)
(* record to the record it leaves behind.  Every caller holds slave->mtx_   *)
(* while it runs one of them (the one exception is named in EcatMaster), so *)
(* an operator is one atomic change.                                        *)
(*                                                                          *)
(* Abstraction of the process data.  master_to_slave_buf_ is one content    *)
(* per task; HeadTask owns the first bytes of the buffer, the ones send_arg *)
(* overwrites with (index lo, index hi, byte).  slave_to_master_buf_ is     *)
(* only looked at in its first three bytes, the argument echo.              *)
(***************************************************************************)
EXTENDS Naturals

CONSTANTS
    Tasks,          \* the tasks of a slave (task_list_)
    HeadTask,       \* the task whose pdowrite area starts at offset 0
    ResetWrite,     \* the tasks configured with connection_lost_write_action = 0x02
    Cmds,           \* the command payloads a ROS client can publish
    ArgLen,         \* sdo_len: how many argument bytes the slave needs
    MaxStatus,      \* where master_status_ wraps (250 in the code)
    ReconnectMod    \* 2^8: reconnected_times_ is a uint8_t

ASSUME TasksAssumption == HeadTask \in Tasks /\ ResetWrite \subseteq Tasks
ASSUME CmdsAssumption == Cmds \subseteq Nat
ASSUME ArgLenAssumption == ArgLen \in Nat \ {0}
ASSUME MaxStatusAssumption == MaxStatus \in Nat /\ MaxStatus >= 5
ASSUME ReconnectAssumption == ReconnectMod \in Nat \ {0}

-----------------------------------------------------------------------------
(* Protocol statuses (ecat_node.hpp).                                       *)
SLAVE_INITIALIZING == 1
SLAVE_READY == 2
SLAVE_CONFIRM_READY == 3
MASTER_SENDING_ARGUMENTS == 2
MASTER_READY == 3

(* What an area of a process-data buffer can hold.                          *)
Zero == [kind |-> "zero", val |-> 0]      \* cleared memory
InitVal == [kind |-> "init", val |-> 0]   \* what the task's init_value() writes
Report == [kind |-> "report", val |-> 0]  \* sensor data of a running slave
Junk == [kind |-> "junk", val |-> 0]      \* the echo of bytes that are no argument
Arg(i) == [kind |-> "arg", val |-> i]     \* (i, arg_buf_[i-1])
Cmd(c) == [kind |-> "cmd", val |-> c]     \* a command on_command() wrote

OutContent == [kind : {"zero", "init", "arg", "cmd"}, val : Nat]
InContent == [kind : {"zero", "arg", "report", "junk"}, val : Nat]
Buffers == [Tasks -> OutContent]
Const(c) == [t \in Tasks |-> c]

Devices ==
    [mstat : 2 .. MaxStatus, sstat : 0 .. MaxStatus, m2s : Buffers,
     echo : InContent, idx : 1 .. ArgLen, argSent : BOOLEAN, ready : BOOLEAN,
     confRos : BOOLEAN, rejected : BOOLEAN, reconn : 0 .. ReconnectMod - 1,
     backed : BOOLEAN, backup : Buffers]

(* The record after a successful setup_ecat(): init() and init_task_list()  *)
(* have run (so is_ecat_conf_done_ is TRUE and stays TRUE for ever).        *)
FreshDevice ==
    [mstat |-> MASTER_SENDING_ARGUMENTS, sstat |-> 0, m2s |-> Const(Zero),
     echo |-> Zero, idx |-> 1, argSent |-> FALSE, ready |-> FALSE,
     confRos |-> TRUE, rejected |-> FALSE, reconn |-> 0,
     backed |-> FALSE, backup |-> Const(Zero)]

-----------------------------------------------------------------------------
(* Data thread.                                                             *)

ReceiveFromSlave(d, image) ==
    [d EXCEPT !.sstat = image.stat, !.echo = image.echo]

(* Mutant: any echo confirms the byte.                                      *)
ConfirmedUnread(d) == d.echo.kind \in {"arg", "junk"}

Confirmed(d) == d.echo = Arg(d.idx)

SendArg(d) ==
    IF Confirmed(d) /\ d.idx = ArgLen
    THEN [d EXCEPT !.argSent = TRUE]
    ELSE LET i == IF Confirmed(d) THEN d.idx + 1 ELSE d.idx
         IN [d EXCEPT !.idx = i, !.m2s = [@ EXCEPT ![HeadTask] = Arg(i)]]

(* memset, then init_value() of every task that subscribes; the bytes each  *)
(* init_value() writes are below this abstraction.                          *)
WriteInitValues(d) == [d EXCEPT !.m2s = Const(InitVal)]

RecoverBuf(d) == IF d.backed THEN [d EXCEPT !.m2s = d.backup] ELSE d

(* Mutant: the buffer is only filled on the first initialisation.           *)
ActivateOnce(d) ==
    [IF d.reconn = 0 THEN WriteInitValues(d) ELSE d EXCEPT !.mstat = MASTER_READY]

(* The slave has all arguments: leave the handshake.                        *)
Activate(d) ==
    LET filled == IF d.mstat = MASTER_READY THEN d
                  ELSE IF d.reconn = 0 THEN WriteInitValues(d) ELSE RecoverBuf(d)
    IN [filled EXCEPT !.mstat = MASTER_READY]

(* Mutant: the counter wraps one step late.                                 *)
NextStatusLate(n) == IF n > MaxStatus THEN MASTER_READY + 2 ELSE n + 1

NextStatus(n) == IF n >= MaxStatus THEN MASTER_READY + 2 ELSE n + 1

ProcessPdo(d) ==
    IF d.sstat = d.mstat THEN [d EXCEPT !.mstat = NextStatus(@)] ELSE d

(* The four tests of the data cycle, in their order.                        *)
SetReady(d) ==
    IF d.sstat = SLAVE_CONFIRM_READY /\ ~d.ready
    THEN [d EXCEPT !.ready = TRUE] ELSE d

SendingArgs(d) ==
    IF d.mstat = MASTER_SENDING_ARGUMENTS /\ ~d.argSent THEN SendArg(d) ELSE d

LeaveHandshake(d) ==
    IF ~d.ready /\ d.argSent /\ d.sstat = SLAVE_READY THEN Activate(d) ELSE d

Working(d) == IF d.ready THEN ProcessPdo(d) ELSE d

ProcessSlave(d) ==
    IF d.confRos THEN Working(LeaveHandshake(SendingArgs(SetReady(d)))) ELSE d

(* The state in which ProcessSlave hands slave_to_master_buf_ to the tasks' *)
(* read(), which publishes it.                                              *)
Publishing(d) ==
    LET e == LeaveHandshake(SendingArgs(SetReady(d)))
    IN d.confRos /\ e.ready /\ e.sstat = e.mstat

-----------------------------------------------------------------------------
(* Checker thread.                                                          *)

(* What init() makes of the board that answers: another serial number than  *)
(* the one read at start-up, the known board with a firmware older than     *)
(* required, or the known board.                                            *)
Identities == {"foreign", "outdated", "known"}

(* Mutant: init() accepts every board.                                      *)
ReInitAnyBoard(d, identity) ==
    [d EXCEPT !.rejected = FALSE, !.mstat = MASTER_SENDING_ARGUMENTS]

(* Mutant: the firmware is checked too late.                                *)
ReInitAnyFirmware(d, identity) ==
    IF identity = "foreign" THEN [d EXCEPT !.rejected = TRUE]
    ELSE [d EXCEPT !.rejected = FALSE, !.mstat = MASTER_SENDING_ARGUMENTS]

(* A foreign board is rejected before anything else is changed; for an old  *)
(* firmware init() returns before master_status_ is set, without rejecting. *)
ReInit(d, identity) ==
    CASE identity = "foreign" -> [d EXCEPT !.rejected = TRUE]
      [] identity = "outdated" -> [d EXCEPT !.rejected = FALSE]
      [] identity = "known" ->
            [d EXCEPT !.rejected = FALSE, !.mstat = MASTER_SENDING_ARGUMENTS]

(* Mutant: the argument index is not reset.                                 *)
PreRecoverKeepsIndex(d) ==
    [d EXCEPT !.argSent = FALSE, !.confRos = TRUE, !.reconn = (@ + 1) % ReconnectMod]

PreRecover(d) ==
    [d EXCEPT !.argSent = FALSE, !.idx = 1, !.confRos = TRUE,
              !.reconn = (@ + 1) % ReconnectMod]

(* Mutant: the slave stays ready while it is set up again.                  *)
ResetKeepsReady(d) == [d EXCEPT !.confRos = FALSE, !.sstat = SLAVE_INITIALIZING]

ResetState(d) ==
    [d EXCEPT !.ready = FALSE, !.confRos = FALSE, !.sstat = SLAVE_INITIALIZING]

RecoverState(d) == [d EXCEPT !.ready = TRUE, !.confRos = TRUE]

BackupBuf(d) == [d EXCEPT !.backed = TRUE, !.backup = d.m2s]

OnConnectionLost(d) ==
    [d EXCEPT !.m2s = [t \in Tasks |-> IF t \in ResetWrite THEN InitVal ELSE d.m2s[t]]]

(* Mutant: the buffer is saved before the tasks are reset, and restored.    *)
LoseConnectionTooLate(d) == LET e == BackupBuf(ResetState(d)) IN OnConnectionLost(e)

(* The three calls the checker makes when a slave stops answering.          *)
LoseConnection(d) == BackupBuf(OnConnectionLost(ResetState(d)))

-----------------------------------------------------------------------------
(* A ROS subscription callback (TaskWrapper::on_command).                   *)
OnCommand(d, t, c) == [d EXCEPT !.m2s = [@ EXCEPT ![t] = Cmd(c)]]
=============================================================================
