------------------------------- MODULE Shutdown --------------------------------
(***************************************************************************)
(* Leaving the program: the signal thread runs on_shutdown(), while main    *)
(* returns from spin(), a subscription callback may still be in progress,   *)
(* and the data and the checker thread look at the flags on_shutdown()      *)
(* sets.  What the data thread does to a slave is SlaveDevice's; what the   *)
(* checker does to a slave is EcatMaster's, and appears here only as the    *)
(* one call that changes is_arg_sent_.                                      *)
(***************************************************************************)
EXTENDS SlaveDevice, Integers

CONSTANTS
    NumSlaves,
    Operational,    \* did setup_ecat() bring every slave to OP and start the threads?
    Starts,         \* the conditions slaves are in when it begins
    CallbackPending,\* may a callback be in progress when the signal comes?
    DropsToSafeOp,  \* may a slave drop to SAFE_OP without a restart before it?
    CallbackFirst   \* does on_shutdown() get its node before main lets go of it?

Slaves == 1 .. NumSlaves

ASSUME ShutdownAssumption ==
    /\ NumSlaves \in Nat \ {0}
    /\ {Operational, CallbackPending, DropsToSafeOp, CallbackFirst} \subseteq BOOLEAN
    /\ Starts \subseteq {"working", "recovering"}
    /\ ReconnectMod > 1

VARIABLES
    dev,            \* dev[s]: the SlaveDevice of slave s
    image,          \* image[s]: what slave s will answer next (external)
    out, rx,        \* out[s]: outputs to be sent; rx[s]: outputs the slave holds
    running,        \* running_
    exiting,        \* exiting_
    resetCalled,    \* exiting_reset_called_
    ok,             \* rclcpp::ok()
    flushed,        \* has a frame left since exiting_reset_called_ was set?
    dpc, dcur,      \* data thread
    cpc,            \* checker thread
    mpc, pending,   \* main thread, and the callback it is in
    spc,            \* signal thread
    disturbed       \* history: was there a handshake, a callback in progress or a
                    \* drop to SAFE_OP at the exit?

flags == <<running, exiting, resetCalled, ok, flushed>>
wire == <<image, out, rx>>
vars == <<dev, wire, flags, dpc, dcur, cpc, mpc, pending, spc, disturbed>>

NoCallback == [s |-> 0, t |-> HeadTask, c |-> 0]
Callbacks == [s : Slaves, t : Tasks, c : Cmds] \cup {NoCallback}
Outputs == [stat : 0 .. MaxStatus, buf : Buffers]

(* A slave in operation, whose tasks obey some command, and one that has    *)
(* lost its power and has just been sent its arguments again.               *)
StartDevice(condition, c) ==
    IF condition = "working"
    THEN [FreshDevice EXCEPT !.mstat = MASTER_READY + 1, !.sstat = MASTER_READY,
                             !.argSent = TRUE, !.ready = TRUE, !.echo = Report,
                             !.m2s = Const(Cmd(c))]
    ELSE [FreshDevice EXCEPT !.argSent = TRUE, !.sstat = SLAVE_INITIALIZING,
                             !.echo = Arg(ArgLen), !.idx = ArgLen, !.reconn = 1,
                             !.m2s = [Const(Cmd(c)) EXCEPT ![HeadTask] = Arg(ArgLen)],
                             !.backed = TRUE, !.backup = Const(Cmd(c))]

Held(d) == [stat |-> d.mstat, buf |-> d.m2s]

Init ==
    /\ \E condition \in [Slaves -> Starts], c \in Cmds :
          /\ dev = [s \in Slaves |-> StartDevice(condition[s], c)]
          /\ disturbed = (\E s \in Slaves : condition[s] # "working")
    /\ image = [s \in Slaves |-> [stat |-> dev[s].sstat, echo |-> dev[s].echo]]
    /\ out = [s \in Slaves |-> Held(dev[s])] /\ rx = out
    /\ running = TRUE /\ exiting = FALSE /\ resetCalled = FALSE
    /\ ok = TRUE /\ flushed = FALSE
    /\ dpc = (IF Operational THEN "loop" ELSE "none") /\ dcur = 1
    /\ cpc = (IF Operational THEN "loop" ELSE "none")
    /\ mpc = "spin" /\ pending = NoCallback
    /\ spc = "idle"

-----------------------------------------------------------------------------
(* Data thread.                                                             *)

LoopTest ==
    /\ dpc = "loop"
    /\ dpc' = IF running THEN "receive" ELSE "cleanup"
    /\ UNCHANGED <<dev, wire, flags, dcur, cpc, mpc, pending, spc, disturbed>>

ReceiveAll ==
    /\ dpc = "receive" /\ dpc' = "process"
    /\ dev' = [s \in Slaves |-> ReceiveFromSlave(dev[s], image[s])]
    /\ UNCHANGED <<wire, flags, dcur, cpc, mpc, pending, spc, disturbed>>

Advance(here, next) ==
    /\ dpc = here
    /\ IF dcur < NumSlaves THEN dcur' = dcur + 1 /\ dpc' = dpc
                           ELSE dcur' = 1 /\ dpc' = next

ProcessOne ==
    /\ Advance("process", "test")
    /\ dev' = [dev EXCEPT ![dcur] = ProcessSlave(@)]
    /\ UNCHANGED <<wire, flags, cpc, mpc, pending, spc, disturbed>>

TestExit ==
    /\ dpc = "test"
    /\ dpc' = IF exiting /\ ~resetCalled THEN "reset" ELSE "transfer"
    /\ UNCHANGED <<dev, wire, flags, dcur, cpc, mpc, pending, spc, disturbed>>

(* write_init_values() without the lock: the memset, then the tasks' init   *)
(* values; a callback may run before, between or after the two.             *)
NextReset ==
    IF dcur < NumSlaves
    THEN dcur' = dcur + 1 /\ dpc' = "reset" /\ UNCHANGED resetCalled
    ELSE dcur' = 1 /\ dpc' = "transfer" /\ resetCalled' = TRUE

(* Mutant: the flag is set only by a cycle that reset the last slave.        *)
SkipResetForgets ==
    /\ dpc = "reset" /\ ~dev[dcur].argSent
    /\ dpc' = (IF dcur < NumSlaves THEN "reset" ELSE "transfer")
    /\ dcur' = (IF dcur < NumSlaves THEN dcur + 1 ELSE 1)
    /\ UNCHANGED <<dev, wire, flags, cpc, mpc, pending, spc, disturbed>>

SkipReset ==
    /\ dpc = "reset" /\ ~dev[dcur].argSent
    /\ NextReset
    /\ UNCHANGED <<dev, wire, running, exiting, ok, flushed, cpc, mpc, pending, spc, disturbed>>

ClearOne ==
    /\ dpc = "reset" /\ dev[dcur].argSent
    /\ dev' = [dev EXCEPT ![dcur].m2s = Const(Zero)]
    /\ dpc' = "fill"
    /\ UNCHANGED <<wire, flags, dcur, cpc, mpc, pending, spc, disturbed>>

FillOne ==
    /\ dpc = "fill"
    /\ dev' = [dev EXCEPT ![dcur] = WriteInitValues(@)]
    /\ NextReset
    /\ UNCHANGED <<wire, running, exiting, ok, flushed, cpc, mpc, pending, spc, disturbed>>

TransferOne ==
    /\ Advance("transfer", "exchange")
    /\ out' = [out EXCEPT ![dcur] = Held(dev[dcur])]
    /\ UNCHANGED <<dev, image, rx, flags, cpc, mpc, pending, spc, disturbed>>

(* The frame delivers the outputs and collects the next answers: a driven   *)
(* slave echoes the status, another one has its arguments or not yet.       *)
Answers(o) ==
    IF o.stat >= MASTER_READY THEN {[stat |-> o.stat, echo |-> Report]}
    ELSE [stat : {SLAVE_INITIALIZING, SLAVE_READY}, echo : {Arg(ArgLen)}]

Exchange ==
    /\ dpc = "exchange" /\ dpc' = "loop"
    /\ rx' = out
    /\ image' \in {f \in [Slaves -> UNION {Answers(out[s]) : s \in Slaves}] :
                     \A s \in Slaves : f[s] \in Answers(out[s])}
    /\ flushed' = resetCalled
    /\ UNCHANGED <<dev, out, running, exiting, resetCalled, ok, dcur, cpc, mpc, pending, spc, disturbed>>

Cleanup ==
    /\ dpc = "cleanup" /\ dpc' = "done"
    /\ UNCHANGED <<dev, wire, flags, dcur, cpc, mpc, pending, spc, disturbed>>

DataThread ==
    \/ LoopTest \/ ReceiveAll \/ ProcessOne \/ TestExit
    \/ SkipReset \/ ClearOne \/ FillOne \/ TransferOne \/ Exchange \/ Cleanup

-----------------------------------------------------------------------------
(* Checker thread: its loop, and pre_recover() for a slave in SAFE_OP.      *)
CheckRound ==
    /\ cpc = "loop"
    /\ IF running /\ ok
       THEN /\ cpc' = "sleep"
            /\ \/ UNCHANGED <<dev, disturbed>>
               \/ /\ \E s \in Slaves : DropsToSafeOp /\ dev[s].argSent /\ dev[s].ready
                                       /\ dev' = [dev EXCEPT ![s] = PreRecover(@)]
                  /\ disturbed' = TRUE
       ELSE cpc' = "done" /\ UNCHANGED <<dev, disturbed>>
    /\ UNCHANGED <<wire, flags, dpc, dcur, mpc, pending, spc>>

CheckerSleep ==
    /\ cpc = "sleep" /\ cpc' = "loop"
    /\ UNCHANGED <<dev, wire, flags, dpc, dcur, mpc, pending, spc, disturbed>>

-----------------------------------------------------------------------------
(* Main thread: spin(), destroy_node(), rclcpp::shutdown(), return.         *)
TakeMessage ==
    /\ mpc = "spin" /\ ok
    /\ mpc' = "callback"
    /\ pending' \in [s : Slaves, t : Tasks, c : Cmds]
    /\ UNCHANGED <<dev, wire, flags, dpc, dcur, cpc, spc, disturbed>>

RunCallback ==
    /\ mpc = "callback" /\ mpc' = "spin"
    /\ dev' = [dev EXCEPT ![pending.s] = OnCommand(@, pending.t, pending.c)]
    /\ pending' = NoCallback
    /\ UNCHANGED <<wire, flags, dpc, dcur, cpc, spc, disturbed>>

DestroyNode ==
    /\ mpc = "spin" /\ ~ok
    /\ CallbackFirst => spc # "enter"
    /\ mpc' = "destroyed"
    /\ UNCHANGED <<dev, wire, flags, dpc, dcur, cpc, pending, spc, disturbed>>

(* rclcpp::shutdown() waits for the shutdown already in progress (external). *)
MainReturns ==
    /\ mpc = "destroyed" /\ spc = "done"
    /\ mpc' = "exited"
    /\ UNCHANGED <<dev, wire, flags, dpc, dcur, cpc, pending, spc, disturbed>>

-----------------------------------------------------------------------------
(* Signal thread: the context is invalidated (external), then on_shutdown(). *)
Signal ==
    /\ spc = "idle" /\ spc' = "enter"
    /\ CallbackPending \/ mpc = "spin"
    /\ ok' = FALSE
    /\ disturbed' = (disturbed \/ mpc # "spin")
    /\ UNCHANGED <<dev, wire, running, exiting, resetCalled, flushed, dpc, dcur, cpc, mpc, pending>>

EnterShutdown ==
    /\ spc = "enter" /\ spc' = "waitReset"
    /\ exiting' = TRUE
    /\ UNCHANGED <<dev, wire, running, resetCalled, ok, flushed, dpc, dcur, cpc, mpc, pending, disturbed>>

ResetSeen ==
    /\ spc = "waitReset" /\ resetCalled
    /\ spc' = "grace"
    /\ UNCHANGED <<dev, wire, flags, dpc, dcur, cpc, mpc, pending, disturbed>>

(* Mutant: the data cycle is stopped without the 100 ms.                    *)
StopRunningAtOnce ==
    /\ spc = "grace"
    /\ running' = FALSE
    /\ spc' = "joinData"
    /\ UNCHANGED <<dev, wire, exiting, resetCalled, ok, flushed, dpc, dcur, cpc, mpc, pending, disturbed>>

(* The 100 ms are many data cycles; one is enough here.                     *)
StopRunning ==
    /\ spc = "grace" /\ flushed
    /\ running' = FALSE
    /\ spc' = "joinData"
    /\ UNCHANGED <<dev, wire, exiting, resetCalled, ok, flushed, dpc, dcur, cpc, mpc, pending, disturbed>>

JoinData ==
    /\ spc = "joinData" /\ dpc \in {"done", "none"}
    /\ spc' = "joinChecker"
    /\ UNCHANGED <<dev, wire, flags, dpc, dcur, cpc, mpc, pending, disturbed>>

(* Mutant: the checker is detached instead of joined.                       *)
JoinCheckerDetached ==
    /\ spc = "joinChecker" /\ spc' = "close"
    /\ UNCHANGED <<dev, wire, flags, dpc, dcur, cpc, mpc, pending, disturbed>>

JoinChecker ==
    /\ spc = "joinChecker" /\ cpc \in {"done", "none"}
    /\ spc' = "close"
    /\ UNCHANGED <<dev, wire, flags, dpc, dcur, cpc, mpc, pending, disturbed>>

(* INIT is requested of every slave, which stops its outputs; ec_close().   *)
CloseEcat ==
    /\ spc = "close" /\ spc' = "done"
    /\ UNCHANGED <<dev, wire, flags, dpc, dcur, cpc, mpc, pending, disturbed>>

OnShutdown ==
    EnterShutdown \/ ResetSeen \/ StopRunning \/ JoinData \/ JoinChecker \/ CloseEcat

-----------------------------------------------------------------------------
Main == RunCallback \/ DestroyNode \/ MainReturns
Exited == mpc = "exited" /\ UNCHANGED vars

Next ==
    \/ DataThread
    \/ CheckRound \/ CheckerSleep
    \/ TakeMessage \/ Main
    \/ Signal \/ OnShutdown
    \/ Exited

Spec == Init /\ [][Next]_vars

(* Every thread is scheduled; messages and the signal need not come.        *)
LiveSpec ==
    /\ Spec
    /\ WF_vars(DataThread) /\ WF_vars(CheckRound \/ CheckerSleep)
    /\ WF_vars(Main) /\ WF_vars(OnShutdown)

-----------------------------------------------------------------------------
(* Properties.                                                              *)

(* Every variable has its type.                                             *)
TypeOK ==
    /\ dev \in [Slaves -> Devices]
    /\ \A s \in Slaves : image[s].stat \in 0 .. MaxStatus /\ image[s].echo \in InContent
    /\ {out, rx} \subseteq [Slaves -> Outputs]
    /\ {running, exiting, resetCalled, ok, flushed, disturbed} \subseteq BOOLEAN
    /\ dcur \in Slaves
    /\ dpc \in {"none", "loop", "receive", "process", "test", "reset", "fill",
                "transfer", "exchange", "cleanup", "done"}
    /\ cpc \in {"none", "loop", "sleep", "done"}
    /\ mpc \in {"spin", "callback", "destroyed", "exited"} /\ pending \in Callbacks
    /\ spc \in {"idle", "enter", "waitReset", "grace", "joinData", "joinChecker",
                "close", "done"}

(* When on_shutdown() stops the data cycle, every slave whose tasks are     *)
(* driven holds their init values: the actuators have been reset.           *)
ActuatorsReset ==
    ~running => \A s \in Slaves :
        rx[s].stat >= MASTER_READY => rx[s].buf = Const(InitVal)

(* So it is in the quiet case: every slave in normal operation, no callback *)
(* in progress when the signal comes, no slave that drops to SAFE_OP.       *)
QuietExitResets == disturbed \/ ActuatorsReset

(* The node, which owns the thread objects, is gone only after both threads *)
(* are: main has let go of it and no on_shutdown() call holds it.           *)
NodeGone == mpc \in {"destroyed", "exited"} /\ spc \in {"idle", "enter", "done"}
NodeOutlivesThreads == NodeGone => {dpc, cpc} \subseteq {"done", "none"}

(* Once a signal has arrived the program ends.                              *)
ShutdownCompletes == ~ok ~> mpc = "exited"
=============================================================================
