----------------------------- MODULE Shutdown_proofs ----------------------------
(***************************************************************************)
(* Theorems about Shutdown, for every number of slaves, every set of tasks  *)
(* and commands, and every condition the slaves may be in.                  *)
(***************************************************************************)
EXTENDS Shutdown, SlaveDevice_proofs, TLAPS

USE TasksAssumption, CmdsAssumption, ArgLenAssumption, MaxStatusAssumption,
    ReconnectAssumption, ShutdownAssumption

-----------------------------------------------------------------------------
(* The type invariant.                                                      *)
Images == [stat : 0 .. MaxStatus, echo : InContent]

LEMMA HeldType == \A d \in Devices : Held(d) \in Outputs
  BY DEF Devices, Held, Outputs

LEMMA StartTypes ==
    ASSUME NEW condition \in {"working", "recovering"}, NEW c \in Cmds
    PROVE  StartDevice(condition, c) \in Devices
  <1>1. /\ Const(Cmd(c)) \in Buffers /\ Report \in InContent
        /\ Const(Zero) \in Buffers /\ Zero \in InContent
    BY ContentTypes
  <1>2. FreshDevice \in Devices
    BY <1>1, Ranges DEF FreshDevice, Devices
  <1>3. CASE condition = "working"
    <2> DEFINE d == [FreshDevice EXCEPT !.mstat = MASTER_READY + 1, !.sstat = MASTER_READY,
                                        !.argSent = TRUE, !.ready = TRUE, !.echo = Report,
                                        !.m2s = Const(Cmd(c))]
    <2>1. MASTER_READY + 1 \in 2 .. MaxStatus /\ MASTER_READY \in 0 .. MaxStatus
      BY DEF MASTER_READY
    <2>2. d \in Devices
      BY <1>1, <1>2, <2>1 DEF Devices
    <2> QED
      BY <1>3, <2>2 DEF StartDevice
  <1>4. CASE condition # "working"
    <2> DEFINE buf == [Const(Cmd(c)) EXCEPT ![HeadTask] = Arg(ArgLen)]
               d == [FreshDevice EXCEPT !.argSent = TRUE, !.sstat = SLAVE_INITIALIZING,
                             !.echo = Arg(ArgLen), !.idx = ArgLen, !.reconn = 1,
                             !.m2s = buf, !.backed = TRUE, !.backup = Const(Cmd(c))]
    <2>1. Arg(ArgLen) \in OutContent /\ Arg(ArgLen) \in InContent
      BY ContentTypes
    <2>2. buf \in Buffers
      BY <1>1, <2>1 DEF Buffers
    <2>3. ArgLen \in 1 .. ArgLen /\ 1 \in 0 .. ReconnectMod - 1
      OBVIOUS
    <2>4. StartDevice(condition, c) = d
      BY <1>4, Zenon DEF StartDevice
    <2> HIDE DEF buf
    <2>5. d \in Devices
      BY <1>1, <1>2, <2>1, <2>2, <2>3, Ranges DEF Devices
    <2> QED
      BY <2>4, <2>5
  <1> QED
    BY <1>3, <1>4

LEMMA InitType == Init => TypeOK
  <1> SUFFICES ASSUME Init PROVE TypeOK
    OBVIOUS
  <1>1. dev \in [Slaves -> Devices]
    <2>1. PICK condition \in [Slaves -> Starts], c \in Cmds :
             dev = [s \in Slaves |-> StartDevice(condition[s], c)]
      BY DEF Init
    <2> QED
      BY <2>1, StartTypes
  <1>2. \A s \in Slaves : dev[s].sstat \in 0 .. MaxStatus /\ dev[s].echo \in InContent
    BY <1>1 DEF Devices
  <1>3. \A s \in Slaves : image[s].stat \in 0 .. MaxStatus /\ image[s].echo \in InContent
    BY <1>2 DEF Init
  <1>4. {out, rx} \subseteq [Slaves -> Outputs]
    BY <1>1, HeldType DEF Init
  <1>5. dcur \in Slaves /\ pending \in Callbacks
    BY DEF Init, Slaves, Callbacks
  <1>6. disturbed \in BOOLEAN
    BY DEF Init
  <1>7. {running, exiting, resetCalled, ok, flushed, disturbed} \subseteq BOOLEAN
    BY <1>6 DEF Init
  <1>8. dpc \in {"none", "loop"} /\ cpc \in {"none", "loop"} /\ mpc = "spin" /\ spc = "idle"
    BY DEF Init
  <1> QED
    BY <1>1, <1>3, <1>4, <1>5, <1>7, <1>8 DEF TypeOK

LEMMA CursorType ==
    ASSUME TypeOK, NEW here, NEW next, Advance(here, next)
    PROVE  dcur' \in Slaves /\ dpc' \in {dpc, next}
  BY DEF TypeOK, Advance, Slaves

LEMMA ResetCursorType ==
    ASSUME TypeOK, NextReset
    PROVE  dcur' \in Slaves /\ dpc' \in {"reset", "transfer"} /\ resetCalled' \in BOOLEAN
  <1>1. dcur' \in Slaves /\ dpc' \in {"reset", "transfer"}
    BY DEF TypeOK, NextReset, Slaves
  <1>2. resetCalled \in BOOLEAN
    BY DEF TypeOK
  <1>3. resetCalled' = resetCalled \/ resetCalled' = TRUE
    BY Zenon DEF NextReset
  <1>4. resetCalled' \in BOOLEAN
    BY <1>2, <1>3, Zenon
  <1> QED
    BY <1>1, <1>4

LEMMA FillType == \A d \in Devices : WriteInitValues(d) \in Devices
  BY ContentTypes DEF WriteInitValues, Devices

LEMMA DataType ==
    ASSUME TypeOK, DataThread
    PROVE  TypeOK'
  <1>1. CASE LoopTest \/ TestExit \/ Cleanup
    BY <1>1 DEF LoopTest, TestExit, Cleanup, TypeOK, wire, flags
  <1>2. CASE ReceiveAll
    <2>1. dev' \in [Slaves -> Devices]
      BY <1>2, ReceiveType DEF ReceiveAll, TypeOK
    <2> QED
      BY <1>2, <2>1 DEF ReceiveAll, TypeOK, wire, flags
  <1>3. CASE ProcessOne
    <2>1. dev' \in [Slaves -> Devices]
      BY <1>3, ProcessSlaveType DEF ProcessOne, TypeOK
    <2> QED
      BY <1>3, <2>1, CursorType DEF ProcessOne, TypeOK, wire, flags
  <1>4. CASE SkipReset
    BY <1>4, ResetCursorType DEF SkipReset, TypeOK, wire
  <1>5. CASE ClearOne
    <2>1. \A d \in Devices : [d EXCEPT !.m2s = Const(Zero)] \in Devices
      BY ContentTypes DEF Devices
    <2>2. dev' \in [Slaves -> Devices]
      BY <1>5, <2>1 DEF ClearOne, TypeOK
    <2> QED
      BY <1>5, <2>2 DEF ClearOne, TypeOK, wire, flags
  <1>6. CASE FillOne
    <2>1. dev' \in [Slaves -> Devices]
      BY <1>6, FillType DEF FillOne, TypeOK
    <2> QED
      BY <1>6, <2>1, ResetCursorType DEF FillOne, TypeOK, wire
  <1>7. CASE TransferOne
    <2>1. out' \in [Slaves -> Outputs]
      BY <1>7, HeldType DEF TransferOne, TypeOK
    <2> QED
      BY <1>7, <2>1, CursorType DEF TransferOne, TypeOK, flags
  <1>8. CASE Exchange
    <2>1. \A o \in Outputs : \A a \in Answers(o) : a.stat \in 0 .. MaxStatus /\ a.echo \in InContent
      <3> SUFFICES ASSUME NEW o \in Outputs, NEW a \in Answers(o)
                   PROVE  a.stat \in 0 .. MaxStatus /\ a.echo \in InContent
        OBVIOUS
      <3>1. o.stat \in 0 .. MaxStatus
        BY DEF Outputs
      <3>2. Arg(ArgLen) \in InContent /\ Report \in InContent
        BY ContentTypes
      <3>3. SLAVE_INITIALIZING \in 0 .. MaxStatus /\ SLAVE_READY \in 0 .. MaxStatus
        BY Ranges
      <3>4. CASE o.stat >= MASTER_READY
        BY <3>1, <3>2, <3>4 DEF Answers
      <3>5. CASE ~(o.stat >= MASTER_READY)
        BY <3>2, <3>3, <3>5 DEF Answers
      <3> QED
        BY <3>4, <3>5
    <2>2. \A s \in Slaves : out[s] \in Outputs /\ image'[s] \in Answers(out[s])
      BY <1>8 DEF Exchange, TypeOK
    <2>3. \A s \in Slaves : image'[s].stat \in 0 .. MaxStatus /\ image'[s].echo \in InContent
      BY <2>1, <2>2
    <2>4. rx' = out /\ out' = out /\ dev' = dev /\ flushed' \in BOOLEAN
      BY <1>8 DEF Exchange, TypeOK
    <2> QED
      BY <1>8, <2>3, <2>4 DEF Exchange, TypeOK
  <1> QED
    BY <1>1, <1>2, <1>3, <1>4, <1>5, <1>6, <1>7, <1>8 DEF DataThread

LEMMA OthersType ==
    ASSUME TypeOK,
           \/ CheckRound \/ CheckerSleep \/ TakeMessage \/ Main
           \/ Signal \/ OnShutdown \/ Exited
    PROVE  TypeOK'
  <1>1. CASE CheckRound
    <2>1. dev' \in [Slaves -> Devices]
      BY <1>1, CheckerTypes DEF CheckRound, TypeOK
    <2> QED
      BY <1>1, <2>1 DEF CheckRound, TypeOK, wire, flags
  <1>2. CASE CheckerSleep \/ Exited \/ DestroyNode \/ MainReturns
    BY <1>2 DEF CheckerSleep, Exited, DestroyNode, MainReturns, TypeOK, wire, flags, vars
  <1>3. CASE TakeMessage
    BY <1>3 DEF TakeMessage, Callbacks, TypeOK, wire, flags
  <1>4. CASE RunCallback
    <2>1. NoCallback \in Callbacks
      BY DEF Callbacks
    <2>2. dev' \in [Slaves -> Devices]
      <3>1. CASE pending.s \in Slaves
        <4>1. pending.t \in Tasks /\ pending.c \in Cmds
          BY <3>1 DEF TypeOK, Callbacks, NoCallback, Slaves
        <4>2. dev[pending.s] \in Devices
          BY <3>1 DEF TypeOK
        <4>3. OnCommand(dev[pending.s], pending.t, pending.c) \in Devices
          BY <4>1, <4>2, OnCommandType
        <4> QED
          BY <1>4, <4>3 DEF RunCallback, TypeOK
      <3>2. CASE pending.s \notin Slaves
        <4>1. dev \in [Slaves -> Devices]
          BY DEF TypeOK
        <4>2. dev' = [dev EXCEPT ![pending.s] = OnCommand(dev[pending.s], pending.t, pending.c)]
          BY <1>4 DEF RunCallback
        <4> QED
          BY <3>2, <4>1, <4>2
      <3> QED
        BY <3>1, <3>2
    <2> QED
      BY <1>4, <2>1, <2>2 DEF RunCallback, TypeOK, wire, flags
  <1>5. CASE Signal \/ OnShutdown
    BY <1>5 DEF Signal, OnShutdown, EnterShutdown, ResetSeen, StopRunning, JoinData,
                JoinChecker, CloseEcat, TypeOK, wire, flags
  <1> QED
    BY <1>1, <1>2, <1>3, <1>4, <1>5 DEF Main

LEMMA NextType == TypeOK /\ [Next]_vars => TypeOK'
  <1>1. TypeOK /\ UNCHANGED vars => TypeOK'
    BY DEF vars, wire, flags, TypeOK
  <1> QED
    BY <1>1, DataType, OthersType DEF Next

(* Type correctness of the exit sequence.                                   *)
THEOREM ShutdownTypeCorrect == Spec => []TypeOK
  BY InitType, NextType, PTL DEF Spec

-----------------------------------------------------------------------------
(* The node is gone only after main has let go of it, which it does after   *)
(* on_shutdown() has its own reference, and after on_shutdown() has joined  *)
(* both threads; a thread that has ended does not start again.              *)
Stopped(thread) == thread \in {"done", "none"}

JoinInv ==
    /\ spc = "idle" => ok = TRUE
    /\ mpc \in {"destroyed", "exited"} => spc \notin {"idle", "enter"}
    /\ spc \in {"joinChecker", "close", "done"} => Stopped(dpc)
    /\ spc \in {"close", "done"} => Stopped(cpc)

LEMMA JoinInit == Init => JoinInv
  BY DEF Init, JoinInv

LEMMA DataEnds ==
    ASSUME DataThread
    PROVE  dpc \notin {"done", "none"} /\ spc' = spc /\ mpc' = mpc /\ cpc' = cpc /\ ok' = ok
  BY DEF DataThread, LoopTest, ReceiveAll, ProcessOne, TestExit, SkipReset, ClearOne, FillOne,
         TransferOne, Exchange, Cleanup, Advance, flags

LEMMA JoinStep ==
    ASSUME CallbackFirst, TypeOK, JoinInv, [Next]_vars
    PROVE  JoinInv'
  <1>1. CASE DataThread
    BY <1>1, DataEnds DEF JoinInv, Stopped
  <1>2. CASE CheckRound \/ CheckerSleep
    BY <1>2 DEF CheckRound, CheckerSleep, JoinInv, Stopped, flags
  <1>3. CASE TakeMessage \/ Main
    BY <1>3 DEF TakeMessage, Main, RunCallback, DestroyNode, MainReturns, JoinInv, Stopped, flags
  <1>4. CASE Signal \/ OnShutdown
    BY <1>4 DEF Signal, OnShutdown, EnterShutdown, ResetSeen, StopRunning, JoinData, JoinChecker,
                CloseEcat, JoinInv, Stopped, flags
  <1>5. CASE Exited \/ UNCHANGED vars
    BY <1>5 DEF Exited, vars, flags, JoinInv, Stopped
  <1> QED
    BY <1>1, <1>2, <1>3, <1>4, <1>5 DEF Next

(* Provided on_shutdown() gets hold of the node before main lets go of it,  *)
(* the thread objects are never destroyed while a thread is running.        *)
THEOREM NodeOutlives == CallbackFirst => (Spec => []NodeOutlivesThreads)
  <1> SUFFICES ASSUME CallbackFirst PROVE Spec => []NodeOutlivesThreads
    OBVIOUS
  <1>1. TypeOK /\ JoinInv /\ [Next]_vars => JoinInv'
    BY JoinStep
  <1>2. TypeOK /\ JoinInv => NodeOutlivesThreads
    BY DEF TypeOK, JoinInv, Stopped, NodeOutlivesThreads, NodeGone
  <1> QED
    BY <1>1, <1>2, ShutdownTypeCorrect, JoinInit, PTL DEF Spec

-----------------------------------------------------------------------------
(* The quiet exit.  A slave in normal operation is touched by no stage of   *)
(* the data cycle but the status counter; after the signal no callback runs *)
(* any more; so what write_init_values() leaves in the buffers stays there, *)
(* is copied to the outputs of the same cycle, and is sent by the frame     *)
(* that ends it, before on_shutdown() may stop the cycle.                   *)
InOperation(d) == d.argSent = TRUE /\ d.ready = TRUE
IsReset(buf) == buf = Const(InitVal)

Quiet ==
    /\ \A s \in Slaves : InOperation(dev[s])
    /\ ok # TRUE => mpc # "callback"
    /\ exiting = TRUE => ok # TRUE
    /\ spc # "idle" => ok # TRUE

Resetting ==
    /\ dpc \notin {"process", "reset", "fill", "transfer"} => dcur = 1
    /\ dpc \in {"reset", "fill"} =>
          /\ exiting = TRUE /\ resetCalled # TRUE
          /\ \A s \in 1 .. dcur - 1 : IsReset(dev[s].m2s)
    /\ resetCalled = TRUE =>
          /\ exiting = TRUE
          /\ \A s \in Slaves : IsReset(dev[s].m2s)
          /\ \/ \A s \in Slaves : IsReset(out[s].buf)
             \/ dpc = "transfer" /\ \A s \in 1 .. dcur - 1 : IsReset(out[s].buf)

Sent ==
    /\ flushed = TRUE =>
          resetCalled = TRUE /\ \A s \in Slaves : IsReset(out[s].buf) /\ IsReset(rx[s].buf)
    /\ running # TRUE => flushed = TRUE

QuietInv == disturbed # TRUE => Quiet /\ Resetting /\ Sent

(* What the stages of the data cycle leave alone.                           *)
LEMMA OperationKept ==
    ASSUME NEW d \in Devices, InOperation(d)
    PROVE  /\ InOperation(ProcessSlave(d)) /\ ProcessSlave(d).m2s = d.m2s
           /\ \A i : InOperation(ReceiveFromSlave(d, i)) /\ ReceiveFromSlave(d, i).m2s = d.m2s
           /\ InOperation(WriteInitValues(d)) /\ IsReset(WriteInitValues(d).m2s)
           /\ InOperation([d EXCEPT !.m2s = Const(Zero)])
           /\ \A t, c : InOperation(OnCommand(d, t, c))
  <1>1. InOperation(ProcessSlave(d)) /\ ProcessSlave(d).m2s = d.m2s
    <2>1. SetReady(d) = d /\ SendingArgs(d) = d /\ LeaveHandshake(d) = d
      BY DEF InOperation, SetReady, SendingArgs, LeaveHandshake
    <2>2. ProcessSlave(d) = d \/ ProcessSlave(d) = Working(d)
      BY <2>1 DEF ProcessSlave
    <2>3. InOperation(Working(d)) /\ Working(d).m2s = d.m2s
      BY DEF Working, ProcessPdo, InOperation, Devices
    <2> QED
      BY <2>2, <2>3
  <1>2. /\ \A i : InOperation(ReceiveFromSlave(d, i)) /\ ReceiveFromSlave(d, i).m2s = d.m2s
        /\ InOperation(WriteInitValues(d)) /\ IsReset(WriteInitValues(d).m2s)
        /\ InOperation([d EXCEPT !.m2s = Const(Zero)])
        /\ \A t, c : InOperation(OnCommand(d, t, c))
    BY DEF InOperation, IsReset, ReceiveFromSlave, WriteInitValues, OnCommand, Devices
  <1> QED
    BY <1>1, <1>2

LEMMA QuietInit == Init => QuietInv
  <1> SUFFICES ASSUME Init, disturbed # TRUE PROVE Quiet /\ Resetting /\ Sent
    BY DEF QuietInv
  <1>1. PICK condition \in [Slaves -> Starts], c \in Cmds :
            /\ dev = [s \in Slaves |-> StartDevice(condition[s], c)]
            /\ disturbed = (\E s \in Slaves : condition[s] # "working")
    BY DEF Init
  <1>2. FreshDevice \in Devices
    BY ContentTypes, Ranges DEF FreshDevice, Devices
  <1>3. \A s \in Slaves : InOperation(dev[s])
    <2> SUFFICES ASSUME NEW s \in Slaves PROVE InOperation(dev[s])
      OBVIOUS
    <2>1. condition[s] = "working"
      BY <1>1
    <2>2. dev[s] = StartDevice("working", c)
      BY <1>1, <2>1
    <2>3. InOperation(StartDevice("working", c))
      BY <1>2 DEF StartDevice, InOperation, Devices
    <2> QED
      BY <2>2, <2>3
  <1> QED
    BY <1>3 DEF Init, Quiet, Resetting, Sent

(* A step of the data thread of a system in normal operation.               *)
LEMMA QuietData ==
    ASSUME TypeOK, Quiet, Resetting, Sent, DataThread
    PROVE  Quiet' /\ Resetting' /\ Sent'
  <1> SUFFICES ASSUME NEW c, c = dcur PROVE Quiet' /\ Resetting' /\ Sent'
    OBVIOUS
  <1>1. /\ mpc' = mpc /\ ok' = ok /\ spc' = spc /\ exiting' = exiting /\ running' = running
        /\ c \in Slaves /\ dev \in [Slaves -> Devices] /\ out \in [Slaves -> Outputs]
        /\ resetCalled \in BOOLEAN
    BY DEF DataThread, LoopTest, ReceiveAll, ProcessOne, TestExit, SkipReset, ClearOne, FillOne,
           TransferOne, Exchange, Cleanup, flags, TypeOK
  <1>2. ASSUME \A s \in Slaves : InOperation(dev'[s])
        PROVE  Quiet'
    BY <1>1, <1>2 DEF Quiet
  <1>3. CASE LoopTest \/ TestExit \/ Cleanup
    <2>1. /\ dev' = dev /\ out' = out /\ rx' = rx /\ resetCalled' = resetCalled
          /\ flushed' = flushed /\ dcur' = dcur
      BY <1>3 DEF LoopTest, TestExit, Cleanup, wire, flags
    <2>2. Quiet'
      BY <1>1, <2>1 DEF Quiet
    <2>3. /\ dpc \in {"loop", "test", "cleanup"}
          /\ dpc' = "reset" => exiting = TRUE /\ resetCalled # TRUE /\ dcur = 1
          /\ dpc' # "fill"
      BY <1>3 DEF LoopTest, TestExit, Cleanup, Resetting
    <2>4. Resetting'
      <3>1. dcur = 1 /\ 1 \in Nat /\ \A s \in 1 .. 1 - 1 : FALSE
        BY <2>3 DEF Resetting
      <3>2. resetCalled = TRUE => /\ exiting = TRUE
                                  /\ \A s \in Slaves : IsReset(dev[s].m2s)
                                  /\ \A s \in Slaves : IsReset(out[s].buf)
        BY <2>3 DEF Resetting
      <3> QED
        BY <1>1, <2>1, <2>3, <3>1, <3>2 DEF Resetting
    <2>5. Sent'
      BY <1>1, <2>1 DEF Sent
    <2> QED
      BY <2>2, <2>4, <2>5
  <1>4. CASE ReceiveAll
    <2>1. /\ out' = out /\ rx' = rx /\ resetCalled' = resetCalled /\ flushed' = flushed
          /\ dcur' = dcur /\ dpc = "receive" /\ dpc' = "process"
      BY <1>4 DEF ReceiveAll, wire, flags
    <2>2. \A s \in Slaves : InOperation(dev'[s]) /\ dev'[s].m2s = dev[s].m2s
      <3>1. \A s \in Slaves : dev'[s] = ReceiveFromSlave(dev[s], image[s])
        BY <1>4 DEF ReceiveAll
      <3>2. \A s \in Slaves : dev[s] \in Devices /\ InOperation(dev[s])
        BY <1>1 DEF Quiet
      <3>3. \A s \in Slaves : /\ InOperation(ReceiveFromSlave(dev[s], image[s]))
                             /\ ReceiveFromSlave(dev[s], image[s]).m2s = dev[s].m2s
        BY <3>2, OperationKept, Zenon
      <3> QED
        BY <3>1, <3>3, Zenon
    <2>3. Resetting' /\ Sent'
      BY <1>1, <2>1, <2>2 DEF Resetting, Sent
    <2> QED
      BY <1>2, <2>2, <2>3
  <1>5. CASE ProcessOne
    <2>1. /\ out' = out /\ rx' = rx /\ resetCalled' = resetCalled /\ flushed' = flushed
          /\ dpc = "process" /\ Advance("process", "test")
      BY <1>5 DEF ProcessOne, Advance, wire, flags
    <2>2. \A s \in Slaves : InOperation(dev'[s]) /\ dev'[s].m2s = dev[s].m2s
      <3>1. \A s \in Slaves : dev'[s] = dev[s] \/ dev'[s] = ProcessSlave(dev[s])
        BY <1>1, <1>5 DEF ProcessOne
      <3>2. \A s \in Slaves : dev[s] \in Devices /\ InOperation(dev[s])
        BY <1>1 DEF Quiet
      <3>3. \A s \in Slaves : /\ InOperation(ProcessSlave(dev[s]))
                             /\ ProcessSlave(dev[s]).m2s = dev[s].m2s
        BY <3>2, OperationKept, Zenon
      <3> QED
        BY <3>1, <3>2, <3>3, Zenon
    <2>3. dpc' = "process" \/ (dpc' = "test" /\ dcur' = 1)
      BY <2>1 DEF Advance
    <2>4. Resetting' /\ Sent'
      BY <1>1, <2>1, <2>2, <2>3 DEF Resetting, Sent
    <2> QED
      BY <1>2, <2>2, <2>4
  <1>6. CASE SkipReset
    <2>1. InOperation(dev[dcur])
      BY <1>1 DEF Quiet
    <2>2. ~dev[dcur].argSent
      BY <1>6 DEF SkipReset
    <2> QED
      BY <2>1, <2>2, Zenon DEF InOperation
  <1>7. CASE ClearOne
    <2>1. /\ out' = out /\ rx' = rx /\ resetCalled' = resetCalled /\ flushed' = flushed
          /\ dcur' = dcur /\ dpc = "reset" /\ dpc' = "fill"
          /\ dev' = [dev EXCEPT ![c] = [dev[c] EXCEPT !.m2s = Const(Zero)]]
      BY <1>7 DEF ClearOne, wire, flags
    <2>2. \A s \in Slaves : InOperation(dev'[s])
      BY <1>1, <2>1, OperationKept DEF Quiet
    <2>3. \A s \in 1 .. c - 1 : dev'[s] = dev[s]
      BY <1>1, <2>1 DEF Slaves
    <2>4. Resetting' /\ Sent'
      BY <1>1, <2>1, <2>3 DEF Resetting, Sent
    <2> QED
      BY <1>2, <2>2, <2>4
  <1>8. CASE FillOne
    <2>1. /\ out' = out /\ rx' = rx /\ flushed' = flushed /\ dpc = "fill" /\ NextReset
          /\ dev' = [dev EXCEPT ![c] = WriteInitValues(dev[c])]
      BY <1>8 DEF FillOne, wire
    <2>2. \A s \in Slaves : InOperation(dev'[s])
      BY <1>1, <2>1, OperationKept DEF Quiet
    <2>3. \A s \in 1 .. c : IsReset(dev'[s].m2s)
      <3>1. IsReset(dev'[c].m2s)
        <4>1. dev'[c] = WriteInitValues(dev[c])
          BY <1>1, <2>1
        <4>2. dev[c] \in Devices /\ InOperation(dev[c])
          BY <1>1 DEF Quiet
        <4> QED
          BY <4>1, <4>2, OperationKept
      <3>2. \A s \in 1 .. c - 1 : IsReset(dev[s].m2s) /\ dev'[s] = dev[s]
        BY <1>1, <2>1 DEF Slaves, Resetting
      <3>3. \A s \in 1 .. c : s = c \/ s \in 1 .. c - 1
        BY <1>1 DEF Slaves
      <3> QED
        BY <3>1, <3>2, <3>3
    <2>4. exiting = TRUE /\ resetCalled # TRUE /\ flushed # TRUE /\ running = TRUE
      BY <2>1 DEF Resetting, Sent
    <2>5. CASE c < NumSlaves
      <3>1. dcur' = c + 1 /\ dpc' = "reset" /\ resetCalled' = resetCalled /\ (c + 1) - 1 = c
        BY <1>1, <2>1, <2>5 DEF NextReset, Slaves
      <3> QED
        BY <1>1, <1>2, <2>1, <2>2, <2>3, <2>4, <3>1 DEF Resetting, Sent
    <2>6. CASE ~(c < NumSlaves)
      <3>1. dcur' = 1 /\ dpc' = "transfer" /\ resetCalled' = TRUE
        BY <2>1, <2>6 DEF NextReset
      <3>2. \A s \in Slaves : IsReset(dev'[s].m2s)
        BY <1>1, <2>3, <2>6 DEF Slaves
      <3>3. \A s \in 1 .. 1 - 1 : FALSE
        OBVIOUS
      <3> QED
        BY <1>1, <1>2, <2>1, <2>2, <2>4, <3>1, <3>2, <3>3 DEF Resetting, Sent
    <2> QED
      BY <2>5, <2>6
  <1>9. CASE TransferOne
    <2>1. /\ dev' = dev /\ rx' = rx /\ resetCalled' = resetCalled /\ flushed' = flushed
          /\ dpc = "transfer" /\ Advance("transfer", "exchange")
          /\ out' = [out EXCEPT ![c] = Held(dev[c])]
      BY <1>9 DEF TransferOne, Advance, flags
    <2>2. \A s \in Slaves : InOperation(dev'[s])
      BY <2>1 DEF Quiet
    <2>3. Held(dev[c]).buf = dev[c].m2s
      BY DEF Held
    <2>4. ASSUME NEW s \in Slaves, resetCalled = TRUE, s <= c \/ IsReset(out[s].buf)
          PROVE  IsReset(out'[s].buf)
      <3>1. IsReset(dev[c].m2s) /\ (s < c => IsReset(out[s].buf) \/ \A x \in Slaves : IsReset(out[x].buf))
        BY <1>1, <2>4 DEF Resetting, Slaves
      <3>2. CASE s = c
        BY <1>1, <2>1, <2>3, <3>1, <3>2
      <3>3. CASE s # c
        <4>1. out'[s] = out[s]
          BY <1>1, <2>1, <3>3
        <4>2. s <= c => s < c
          BY <1>1, <3>3 DEF Slaves
        <4> QED
          BY <2>4, <3>1, <4>1, <4>2
      <3> QED
        BY <3>2, <3>3
    <2>5. Sent'
      BY <1>1, <2>1, <2>4 DEF Sent
    <2>6. Resetting'
      <3>1. CASE c < NumSlaves
        <4>1. dcur' = c + 1 /\ dpc' = "transfer" /\ (c + 1) - 1 = c
          BY <1>1, <2>1, <3>1 DEF Advance, Slaves
        <4>2. \A s \in 1 .. c : s \in Slaves /\ s <= c
          BY <1>1 DEF Slaves
        <4>3. resetCalled = TRUE => \A s \in 1 .. c : IsReset(out'[s].buf)
          BY <2>4, <4>2
        <4> QED
          BY <1>1, <2>1, <4>1, <4>3 DEF Resetting
      <3>2. CASE ~(c < NumSlaves)
        <4>1. dcur' = 1 /\ dpc' = "exchange"
          BY <2>1, <3>2 DEF Advance
        <4>2. \A s \in Slaves : s <= c
          BY <1>1, <3>2 DEF Slaves
        <4>3. resetCalled = TRUE => \A s \in Slaves : IsReset(out'[s].buf)
          BY <2>4, <4>2
        <4> QED
          BY <1>1, <2>1, <4>1, <4>3 DEF Resetting
      <3> QED
        BY <3>1, <3>2
    <2> QED
      BY <1>2, <2>2, <2>5, <2>6
  <1>10. CASE Exchange
    <2>1. /\ dev' = dev /\ out' = out /\ rx' = out /\ flushed' = resetCalled
          /\ resetCalled' = resetCalled /\ dcur' = dcur /\ dpc = "exchange" /\ dpc' = "loop"
      BY <1>10 DEF Exchange
    <2>2. Quiet'
      BY <1>1, <2>1 DEF Quiet
    <2>3. Resetting' /\ Sent'
      BY <1>1, <2>1 DEF Resetting, Sent
    <2> QED
      BY <2>2, <2>3
  <1> QED
    BY <1>3, <1>4, <1>5, <1>6, <1>7, <1>8, <1>9, <1>10 DEF DataThread

LEMMA QuietOthers ==
    ASSUME TypeOK, Quiet, Resetting, Sent, disturbed' # TRUE,
           \/ CheckRound \/ CheckerSleep \/ TakeMessage \/ Main
           \/ Signal \/ OnShutdown \/ Exited \/ UNCHANGED vars
    PROVE  Quiet' /\ Resetting' /\ Sent'
  <1>1. CASE CheckRound \/ CheckerSleep
    <2>1. /\ dev' = dev /\ mpc' = mpc /\ spc' = spc /\ UNCHANGED <<wire, flags, dpc, dcur>>
      BY <1>1 DEF CheckRound, CheckerSleep
    <2> QED
      BY <2>1 DEF Quiet, Resetting, Sent, wire, flags
  <1>2. CASE TakeMessage
    BY <1>2 DEF TakeMessage, Quiet, Resetting, Sent, wire, flags
  <1>3. CASE RunCallback
    <2>1. ok = TRUE /\ exiting # TRUE /\ resetCalled # TRUE
      BY <1>3 DEF RunCallback, Quiet, Resetting
    <2>2. \A s \in Slaves : InOperation(dev'[s])
      <3>1. \A s \in Slaves : \/ dev'[s] = dev[s]
                              \/ dev'[s] = OnCommand(dev[s], pending.t, pending.c)
        BY <1>3 DEF RunCallback, TypeOK
      <3>2. \A s \in Slaves : dev[s] \in Devices /\ InOperation(dev[s])
        BY DEF Quiet, TypeOK
      <3>3. \A s \in Slaves : InOperation(OnCommand(dev[s], pending.t, pending.c))
        BY <3>2, OperationKept, Zenon
      <3> QED
        BY <3>1, <3>2, <3>3, Zenon
    <2> QED
      BY <1>3, <2>1, <2>2 DEF RunCallback, Quiet, Resetting, Sent, wire, flags
  <1>4. CASE DestroyNode \/ MainReturns \/ Exited \/ UNCHANGED vars
    <2>1. /\ UNCHANGED <<dev, wire, flags, dpc, dcur, spc>>
          /\ mpc' = "callback" => mpc = "callback"
      BY <1>4 DEF DestroyNode, MainReturns, Exited, vars
    <2> QED
      BY <2>1 DEF Quiet, Resetting, Sent, wire, flags
  <1>5. CASE Signal
    <2>1. mpc = "spin" /\ ok' # TRUE /\ mpc' = mpc
          /\ UNCHANGED <<dev, wire, running, exiting, resetCalled, flushed, dpc, dcur>>
      BY <1>5 DEF Signal
    <2> QED
      BY <2>1 DEF Quiet, Resetting, Sent, wire
  <1>6. CASE EnterShutdown
    <2>1. ok # TRUE /\ exiting' = TRUE
          /\ UNCHANGED <<dev, wire, running, resetCalled, ok, flushed, dpc, dcur, mpc>>
      BY <1>6 DEF EnterShutdown, Quiet
    <2> QED
      BY <1>6, <2>1 DEF EnterShutdown, Quiet, Resetting, Sent, wire
  <1>7. CASE StopRunning
    <2>1. flushed = TRUE /\ ok # TRUE
          /\ UNCHANGED <<dev, wire, exiting, resetCalled, ok, flushed, dpc, dcur, mpc>>
      BY <1>7 DEF StopRunning, Quiet, TypeOK
    <2> QED
      BY <2>1 DEF Quiet, Resetting, Sent, wire
  <1>8. CASE ResetSeen \/ JoinData \/ JoinChecker \/ CloseEcat
    <2>1. ok # TRUE /\ UNCHANGED <<dev, wire, flags, dpc, dcur, mpc>>
      BY <1>8 DEF ResetSeen, JoinData, JoinChecker, CloseEcat, Quiet
    <2> QED
      BY <2>1 DEF Quiet, Resetting, Sent, wire, flags
  <1> QED
    BY <1>1, <1>2, <1>3, <1>4, <1>5, <1>6, <1>7, <1>8 DEF Main, OnShutdown

LEMMA QuietStep == TypeOK /\ QuietInv /\ [Next]_vars => QuietInv'
  <1> SUFFICES ASSUME TypeOK, QuietInv, [Next]_vars, disturbed' # TRUE
               PROVE  Quiet' /\ Resetting' /\ Sent'
    BY DEF QuietInv
  <1>1. disturbed # TRUE
    BY DEF Next, DataThread, LoopTest, ReceiveAll, ProcessOne, TestExit, SkipReset, ClearOne,
           FillOne, TransferOne, Exchange, Cleanup, CheckRound, CheckerSleep, TakeMessage, Main,
           RunCallback, DestroyNode, MainReturns, Signal, OnShutdown, EnterShutdown, ResetSeen,
           StopRunning, JoinData, JoinChecker, CloseEcat, Exited, vars
  <1>2. Quiet /\ Resetting /\ Sent
    BY <1>1 DEF QuietInv
  <1> QED
    BY <1>2, QuietData, QuietOthers DEF Next

(* From normal operation, and with no callback in progress when the signal  *)
(* comes, every slave whose tasks are driven holds their init values when   *)
(* the data cycle is stopped, for any number of slaves and however the two  *)
(* threads interleave.                                                      *)
THEOREM QuietExit == Spec => []QuietExitResets
  <1>1. TypeOK /\ QuietInv => QuietExitResets
    BY DEF TypeOK, QuietInv, Sent, QuietExitResets, ActuatorsReset, IsReset
  <1> QED
    BY <1>1, ShutdownTypeCorrect, QuietInit, QuietStep, PTL DEF Spec
=============================================================================
