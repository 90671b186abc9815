-------------------------------- MODULE Startup --------------------------------
(***************************************************************************)
(* From main() to the running master: setup_ecat() scans the bus, has SOEM  *)
(* configure every slave (which calls SlaveDevice::init), sets up their     *)
(* task lists, takes them to OP and starts the data and the checker thread; *)
(* run() then registers on_shutdown() and spins.  EcatMaster starts where   *)
(* this module ends with both threads running, Shutdown where it spins.     *)
(*                                                                          *)
(* What init_task_list() makes of a slave's configuration is TaskConfig's;  *)
(* here it is one of four outcomes per serial number.                       *)
(***************************************************************************)
EXTENDS Naturals

CONSTANTS
    MaxSlaves,     \* bound on the boards on the bus
    Serials,       \* serial numbers
    Revisions,     \* firmware revisions
    MinSwRev,      \* the minimum register_module() demands
    MaxTries,      \* how often reaching OP is tried again (50 in the code)
    FailingReads,  \* which SDO reads of init() may fail: "sn", "rev"
    EarlySignal    \* may SIGINT arrive before on_shutdown() is registered?

ASSUME SizesAssumption == {MaxSlaves, MaxTries, MinSwRev} \subseteq Nat /\ MaxSlaves > 0
ASSUME BoardsAssumption == Serials \subseteq Nat \ {0} /\ Revisions \subseteq Nat
ASSUME FaultsAssumption == FailingReads \subseteq {"sn", "rev"} /\ EarlySignal \in BOOLEAN

Positions == 1 .. MaxSlaves
Boards == [sn : Serials, rev : Revisions]

(* What the configuration says of a slave: everything needed; no sdo_len;   *)
(* something else missing or mistyped; no task.                             *)
Configurations == {"complete", "unsized", "broken", "empty"}

VARIABLES
    board,      \* board[s]: the board at position s of the bus (external)
    conf,       \* conf[sn]: the configuration of a serial number
    bus,        \* ec_slavecount, as of the last scan
    ndev,       \* how many SlaveDevices there are
    dev,        \* dev[s]: sn_ and the flags of SlaveDevice s
    revStr,     \* sw_rev_str_, one for all SlaveDevices
    pc, cur,    \* where the main thread is, and the slave it is at
    chk,        \* the retries left
    inOp,       \* is ec_slave[0].state OP?
    threads,    \* have the threads been started?
    signalled,  \* has SIGINT arrived?
    unread      \* history: the slaves whose revision could not be read

environment == <<board, conf, signalled>>
vars == <<environment, bus, ndev, dev, revStr, pc, cur, chk, inOp, threads, unread>>

NoDevice == [sn |-> 0, swOk |-> FALSE, ecatConf |-> FALSE, rosConf |-> FALSE]
Devices == [sn : Serials \cup {0}, swOk : BOOLEAN, ecatConf : BOOLEAN, rosConf : BOOLEAN]

Init ==
    /\ board \in [Positions -> Boards]
    /\ conf \in [Serials -> Configurations]
    /\ bus = 0 /\ ndev = 0
    /\ dev = [s \in Positions |-> NoDevice]
    /\ revStr = 0
    /\ pc = "open" /\ cur = 1 /\ chk = MaxTries
    /\ inOp = FALSE /\ threads = FALSE /\ signalled = FALSE
    /\ unread = {}

-----------------------------------------------------------------------------
(* setup_ecat().                                                            *)

(* ec_init(), ec_config_init(): no socket, or nobody there.                 *)
OpenFails ==
    /\ pc = "open"
    /\ pc' = "failed"
    /\ UNCHANGED <<environment, bus, ndev, dev, revStr, cur, chk, inOp, threads, unread>>

FirstScan(n) ==
    /\ pc = "open" /\ n > 0
    /\ bus' = n /\ ndev' = n
    /\ pc' = "rescan"
    /\ UNCHANGED <<environment, dev, revStr, cur, chk, inOp, threads, unread>>

(* All slaves go back to INIT and are counted again; the result is only     *)
(* logged, although ec_slavecount now is the new number.                    *)
SecondScan(n) ==
    /\ pc = "rescan"
    /\ bus' = n
    /\ pc' = IF n = 0 THEN "tasks" ELSE "map"
    /\ UNCHANGED <<environment, ndev, dev, revStr, cur, chk, inOp, threads, unread>>

(* Mutant: a revision that is too old is only logged.                       *)
InitDeviceAnyRevision(sn, rev) ==
    [sn |-> sn, swOk |-> TRUE, ecatConf |-> sn \in Serials /\ conf[sn] # "unsized", rosConf |-> FALSE]

(* init(): without sdo_len get_field_as() throws, which init() catches, but *)
(* only after the revision has passed.                                      *)
InitDevice(sn, rev) ==
    LET passed == rev >= MinSwRev
    IN [sn |-> sn, swOk |-> passed,
        ecatConf |-> passed /\ sn \in Serials /\ conf[sn] # "unsized", rosConf |-> FALSE]

(* Mutant: one slave too many.                                              *)
NextOfBeyond(last, next) ==
    IF cur <= last THEN cur' = cur + 1 /\ pc' = pc ELSE cur' = 1 /\ pc' = next

NextOf(last, next) ==
    IF cur < last THEN cur' = cur + 1 /\ pc' = pc ELSE cur' = 1 /\ pc' = next

(* ec_config_map() calls config_ec_slave() for a slave.  A failed read of   *)
(* the serial number leaves 0, one of the revision what the slave before    *)
(* left in the shared string.                                               *)
MapSlave(failing) ==
    /\ pc = "map" /\ cur <= ndev
    /\ LET sn == IF "sn" \in failing THEN 0 ELSE board[cur].sn
           rev == IF "rev" \in failing THEN revStr ELSE board[cur].rev
       IN /\ dev' = [dev EXCEPT ![cur] = InitDevice(sn, rev)]
          /\ revStr' = rev
    /\ unread' = IF "rev" \in failing THEN unread \cup {cur} ELSE unread
    /\ NextOf(bus, "tasks")
    /\ UNCHANGED <<environment, bus, ndev, chk, inOp, threads>>

(* A board that was not there in the first scan: get_slave_device() throws. *)
MapUnknown ==
    /\ pc = "map" /\ cur > ndev
    /\ pc' = "terminated"
    /\ UNCHANGED <<environment, bus, ndev, dev, revStr, cur, chk, inOp, threads, unread>>

(* Mutant: the firmware check is not looked at.                             *)
OutcomeUnchecked(d) ==
    IF d.sn \in Serials THEN conf[d.sn] ELSE "unsized"

(* What init_task_list() comes to.                                          *)
Outcome(d) ==
    IF ~d.swOk THEN "refused" ELSE IF d.sn \in Serials THEN conf[d.sn] ELSE "unsized"

(* Mutant: its result is ignored.                                           *)
TaskListIgnored ==
    /\ pc = "tasks"
    /\ LET outcome == Outcome(dev[cur])
       IN IF outcome \in {"unsized", "broken"} THEN pc' = "terminated" /\ UNCHANGED <<dev, cur>>
          ELSE /\ dev' = [dev EXCEPT ![cur].rosConf = (outcome = "complete")]
               /\ NextOf(ndev, "op")
    /\ UNCHANGED <<environment, bus, ndev, revStr, chk, inOp, threads, unread>>

TaskList ==
    /\ pc = "tasks"
    /\ LET outcome == Outcome(dev[cur])
       IN CASE outcome \in {"refused", "empty"} -> pc' = "failed" /\ UNCHANGED <<dev, cur>>
            [] outcome \in {"unsized", "broken"} -> pc' = "terminated" /\ UNCHANGED <<dev, cur>>
            [] outcome = "complete" ->
                 /\ dev' = [dev EXCEPT ![cur].rosConf = TRUE]
                 /\ NextOf(ndev, "op")
    /\ UNCHANGED <<environment, bus, ndev, revStr, chk, inOp, threads, unread>>

(* After SIGINT the context is invalid: publishers cannot be created        *)
(* (external), which init_task_list() does not catch either.                *)
TaskListAfterSignal ==
    /\ pc = "tasks" /\ signalled
    /\ pc' = "terminated"
    /\ UNCHANGED <<environment, bus, ndev, dev, revStr, cur, chk, inOp, threads, unread>>

(* Mutant: only the state ends the loop; chk wraps.                         *)
TryOpForever(reached) ==
    /\ pc = "op"
    /\ inOp' = reached
    /\ IF reached THEN pc' = "decide" /\ chk' = chk
                  ELSE pc' = pc /\ chk' = IF chk = 0 THEN MaxTries ELSE chk - 1
    /\ UNCHANGED <<environment, bus, ndev, dev, revStr, cur, threads, unread>>

(* do .. while (chk-- && not OP)                                            *)
TryOp(reached) ==
    /\ pc = "op"
    /\ inOp' = reached
    /\ IF reached \/ chk = 0 THEN pc' = "decide" /\ chk' = chk
                             ELSE pc' = pc /\ chk' = chk - 1
    /\ UNCHANGED <<environment, bus, ndev, dev, revStr, cur, threads, unread>>

(* setup_ecat() succeeds with or without the threads.                       *)
StartThreads ==
    /\ pc = "decide"
    /\ threads' = inOp
    /\ pc' = "register"
    /\ UNCHANGED <<environment, bus, ndev, dev, revStr, cur, chk, inOp, unread>>

-----------------------------------------------------------------------------
(* run() and main(): a callback registered after SIGINT is never called and *)
(* spin() returns at once (external); destroying joinable threads           *)
(* terminates the process.                                                  *)
Register ==
    /\ pc = "register"
    /\ pc' = IF signalled THEN "leave" ELSE "spin"
    /\ UNCHANGED <<environment, bus, ndev, dev, revStr, cur, chk, inOp, threads, unread>>

Leave ==
    /\ pc \in {"leave", "failed"}
    /\ pc' = IF threads THEN "terminated" ELSE "exited"
    /\ UNCHANGED <<environment, bus, ndev, dev, revStr, cur, chk, inOp, threads, unread>>

Signal ==
    /\ EarlySignal /\ ~signalled
    /\ pc \notin {"spin", "exited", "terminated"}
    /\ signalled' = TRUE
    /\ UNCHANGED <<board, conf, bus, ndev, dev, revStr, pc, cur, chk, inOp, threads, unread>>

-----------------------------------------------------------------------------
MainThread ==
    \/ OpenFails
    \/ \E n \in 0 .. MaxSlaves : FirstScan(n) \/ SecondScan(n)
    \/ \E failing \in SUBSET FailingReads : MapSlave(failing)
    \/ MapUnknown
    \/ TaskList \/ TaskListAfterSignal
    \/ \E reached \in BOOLEAN : TryOp(reached)
    \/ StartThreads \/ Register \/ Leave

Next == MainThread \/ Signal

Spec == Init /\ [][Next]_vars

LiveSpec == Spec /\ WF_vars(MainThread)

-----------------------------------------------------------------------------
(* Properties.                                                              *)

(* Every variable has its type.                                             *)
TypeOK ==
    /\ board \in [Positions -> Boards]
    /\ conf \in [Serials -> Configurations]
    /\ {bus, ndev} \subseteq 0 .. MaxSlaves
    /\ dev \in [Positions -> Devices]
    /\ revStr \in Revisions \cup {0}
    /\ pc \in {"open", "rescan", "map", "tasks", "op", "decide", "register", "spin",
               "leave", "failed", "exited", "terminated"}
    /\ cur \in Positions
    /\ chk \in 0 .. MaxTries
    /\ {inOp, threads, signalled} \subseteq BOOLEAN
    /\ unread \subseteq Positions

(* The threads run only over slaves that have all been initialised and      *)
(* given their tasks, from the configuration of the very board that is at   *)
(* the position, and over no fewer devices than there are slaves.  This is  *)
(* where EcatMaster starts; nothing checks it, it follows from the lists    *)
(* having been made from the first scan and filled in from the second.      *)
RunningIsComplete ==
    threads =>
        /\ bus = ndev /\ ndev > 0
        /\ \A s \in 1 .. ndev :
              /\ dev[s].swOk /\ dev[s].ecatConf /\ dev[s].rosConf
              /\ dev[s].sn = board[s].sn /\ conf[board[s].sn] = "complete"

(* A board with too old a firmware is never run, but for the one case that  *)
(* its revision cannot be read and a board before it has a sufficient one.  *)
FirmwareChecked ==
    threads => \A s \in 1 .. ndev :
        \/ board[s].rev >= MinSwRev
        \/ s \in unread /\ \E r \in 1 .. s : r < s /\ board[r].rev >= MinSwRev

(* The process is terminated in no other way than by a board that joins     *)
(* between the scans, a setting that is missing for a board that passed the *)
(* firmware check, or a signal before on_shutdown() is registered.          *)
Unconfigured(d) == d.swOk /\ (d.sn = 0 \/ conf[d.sn] \in {"unsized", "broken"})
AbortsExplained ==
    pc = "terminated" =>
        signalled \/ bus > ndev \/ \E s \in 1 .. ndev : Unconfigured(dev[s])

(* Start-up comes to an end, whether the slaves reach OP or not.            *)
Decided == pc \in {"spin", "exited", "terminated"}
StartupDecides == <>Decided
=============================================================================
