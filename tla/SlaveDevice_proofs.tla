--------------------------- MODULE SlaveDevice_proofs --------------------------
(***************************************************************************)
(* Lemmas about the member functions of SlaveDevice, for EcatMaster_proofs  *)
(* and Shutdown_proofs.                                                     *)
(***************************************************************************)
EXTENDS SlaveDevice, TLAPS

USE TasksAssumption, CmdsAssumption, ArgLenAssumption, MaxStatusAssumption,
    ReconnectAssumption

-----------------------------------------------------------------------------
(* What a buffer can hold.                                                  *)
LEMMA ContentTypes ==
    /\ Zero \in OutContent /\ InitVal \in OutContent
    /\ \A i \in Nat : Arg(i) \in OutContent /\ Arg(i) \in InContent
    /\ \A c \in Nat : Cmd(c) \in OutContent
    /\ Zero \in InContent /\ Report \in InContent /\ Junk \in InContent
    /\ \A c \in OutContent : Const(c) \in Buffers
  BY DEF Zero, InitVal, Report, Junk, Arg, Cmd, OutContent, InContent, Const, Buffers

(* Each member function of SlaveDevice leaves a well-formed record.         *)
LEMMA ReceiveType ==
    ASSUME NEW d \in Devices, NEW image,
           image.stat \in 0 .. MaxStatus, image.echo \in InContent
    PROVE  ReceiveFromSlave(d, image) \in Devices
  BY DEF Devices, ReceiveFromSlave

LEMMA SendArgType ==
    ASSUME NEW d \in Devices
    PROVE  SendArg(d) \in Devices
  <1>1. CASE Confirmed(d) /\ d.idx = ArgLen
    BY <1>1 DEF SendArg, Devices
  <1>2. CASE ~(Confirmed(d) /\ d.idx = ArgLen)
    <2> DEFINE i == IF Confirmed(d) THEN d.idx + 1 ELSE d.idx
    <2>1. i \in 1 .. ArgLen
      BY <1>2 DEF Devices
    <2>2. [d.m2s EXCEPT ![HeadTask] = Arg(i)] \in Buffers
      BY <2>1, ContentTypes DEF Devices, Buffers
    <2> HIDE DEF i
    <2>3. [d EXCEPT !.idx = i, !.m2s = [d.m2s EXCEPT ![HeadTask] = Arg(i)]] \in Devices
      BY <2>1, <2>2 DEF Devices
    <2>4. SendArg(d) = [d EXCEPT !.idx = i, !.m2s = [d.m2s EXCEPT ![HeadTask] = Arg(i)]]
      BY <1>2 DEF SendArg, i
    <2> QED
      BY <2>3, <2>4
  <1> QED
    BY <1>1, <1>2

LEMMA ActivateType ==
    ASSUME NEW d \in Devices
    PROVE  Activate(d) \in Devices
  <1> DEFINE f == IF d.mstat = MASTER_READY THEN d
                  ELSE IF d.reconn = 0 THEN WriteInitValues(d) ELSE RecoverBuf(d)
  <1>1. Const(InitVal) \in Buffers
    BY ContentTypes
  <1>2. f \in Devices
    BY <1>1 DEF WriteInitValues, RecoverBuf, Devices
  <1> HIDE DEF f
  <1>3. [f EXCEPT !.mstat = MASTER_READY] \in Devices
    BY <1>2 DEF Devices, MASTER_READY
  <1> QED
    BY <1>3 DEF Activate, f

LEMMA ProcessPdoType ==
    ASSUME NEW d \in Devices
    PROVE  ProcessPdo(d) \in Devices
  <1>1. NextStatus(d.mstat) \in 2 .. MaxStatus
    BY DEF Devices, NextStatus, MASTER_READY
  <1> QED
    BY <1>1 DEF ProcessPdo, Devices

LEMMA ProcessSlaveType ==
    ASSUME NEW d \in Devices
    PROVE  ProcessSlave(d) \in Devices
  <1>1. \A e \in Devices : SetReady(e) \in Devices
    BY DEF SetReady, Devices
  <1>2. \A e \in Devices : SendingArgs(e) \in Devices
    BY SendArgType DEF SendingArgs
  <1>3. \A e \in Devices : LeaveHandshake(e) \in Devices
    BY ActivateType DEF LeaveHandshake
  <1>4. \A e \in Devices : Working(e) \in Devices
    BY ProcessPdoType DEF Working
  <1> QED
    BY <1>1, <1>2, <1>3, <1>4 DEF ProcessSlave

LEMMA Ranges ==
    /\ SLAVE_INITIALIZING \in 0 .. MaxStatus
    /\ SLAVE_INITIALIZING \in 1 .. MaxStatus
    /\ SLAVE_READY \in 1 .. MaxStatus
    /\ MASTER_SENDING_ARGUMENTS \in 2 .. MaxStatus
    /\ 0 \in 0 .. MaxStatus
    /\ 1 \in 1 .. ArgLen
    /\ 0 \in 0 .. ReconnectMod - 1
  BY DEF SLAVE_INITIALIZING, SLAVE_READY, MASTER_SENDING_ARGUMENTS

LEMMA CheckerTypes ==
    ASSUME NEW d \in Devices
    PROVE  /\ \A i \in Identities : ReInit(d, i) \in Devices
           /\ PreRecover(d) \in Devices
           /\ ResetState(d) \in Devices
           /\ RecoverState(d) \in Devices
           /\ LoseConnection(d) \in Devices
  <1>1. \A i \in Identities : ReInit(d, i) \in Devices
    <2>1. ReInit(d, "foreign") \in Devices
      BY DEF ReInit, Devices
    <2>2. ReInit(d, "outdated") \in Devices
      BY DEF ReInit, Devices
    <2>3. ReInit(d, "known") \in Devices
      BY Ranges DEF ReInit, Devices
    <2> QED
      BY <2>1, <2>2, <2>3 DEF Identities
  <1>2. PreRecover(d) \in Devices
    <2>1. (d.reconn + 1) % ReconnectMod \in 0 .. ReconnectMod - 1
      BY DEF Devices
    <2> QED
      BY <2>1, Ranges DEF PreRecover, Devices
  <1>3. ResetState(d) \in Devices /\ RecoverState(d) \in Devices
    BY Ranges DEF ResetState, RecoverState, Devices
  <1>4. \A e \in Devices : OnConnectionLost(e) \in Devices
    BY ContentTypes DEF OnConnectionLost, Devices, Buffers
  <1>5. \A e \in Devices : BackupBuf(e) \in Devices
    BY DEF BackupBuf, Devices
  <1> QED
    BY <1>3, <1>1, <1>2, <1>4, <1>5 DEF LoseConnection

LEMMA OnCommandType ==
    ASSUME NEW d \in Devices, NEW t \in Tasks, NEW c \in Cmds
    PROVE  OnCommand(d, t, c) \in Devices
  <1>1. [d.m2s EXCEPT ![t] = Cmd(c)] \in Buffers
    BY ContentTypes DEF Devices, Buffers
  <1> QED
    BY <1>1 DEF OnCommand, Devices

(* The data cycle never takes a step of the handshake back.                 *)
Keeps(d, e) ==
    /\ d.ready => e.ready
    /\ d.argSent => e.argSent
    /\ d.mstat # MASTER_SENDING_ARGUMENTS => e.mstat # MASTER_SENDING_ARGUMENTS
    /\ e.reconn = d.reconn

LEMMA ProcessKeeps ==
    ASSUME NEW d \in Devices
    PROVE  Keeps(d, ProcessSlave(d))
  <1>1. \A e \in Devices : SetReady(e) \in Devices /\ Keeps(e, SetReady(e))
    BY DEF SetReady, Devices, Keeps
  <1>2. \A e \in Devices : SendingArgs(e) \in Devices /\ Keeps(e, SendingArgs(e))
    <2> SUFFICES ASSUME NEW e \in Devices
                 PROVE  SendingArgs(e) \in Devices /\ Keeps(e, SendingArgs(e))
      OBVIOUS
    <2>1. SendingArgs(e) \in Devices
      BY SendArgType DEF SendingArgs
    <2>2. Keeps(e, SendingArgs(e))
      BY DEF SendingArgs, SendArg, Devices, Keeps
    <2> QED
      BY <2>1, <2>2
  <1>3. \A e \in Devices : LeaveHandshake(e) \in Devices /\ Keeps(e, LeaveHandshake(e))
    <2> SUFFICES ASSUME NEW e \in Devices
                 PROVE  LeaveHandshake(e) \in Devices /\ Keeps(e, LeaveHandshake(e))
      OBVIOUS
    <2>1. LeaveHandshake(e) \in Devices
      BY ActivateType DEF LeaveHandshake
    <2>2. Keeps(e, LeaveHandshake(e))
      BY DEF LeaveHandshake, Activate, WriteInitValues, RecoverBuf, Devices, Keeps,
             MASTER_READY, MASTER_SENDING_ARGUMENTS
    <2> QED
      BY <2>1, <2>2
  <1>4. \A e \in Devices : Keeps(e, Working(e))
    BY DEF Working, ProcessPdo, NextStatus, Devices, Keeps,
           MASTER_READY, MASTER_SENDING_ARGUMENTS
  <1>5. \A e, f, g \in Devices : Keeps(e, f) /\ Keeps(f, g) => Keeps(e, g)
    BY DEF Keeps
  <1>6. Keeps(d, d)
    BY DEF Keeps
  <1> DEFINE a == SetReady(d)
             b == SendingArgs(a)
             c == LeaveHandshake(b)
             w == Working(c)
  <1>7. a \in Devices /\ b \in Devices /\ c \in Devices /\ w \in Devices
    BY <1>1, <1>2, <1>3, ProcessPdoType DEF Working
  <1>8. Keeps(d, a) /\ Keeps(a, b) /\ Keeps(b, c) /\ Keeps(c, w)
    BY <1>1, <1>2, <1>3, <1>4, <1>7
  <1> HIDE DEF a, b, c, w
  <1>9. Keeps(d, w)
    BY <1>5, <1>7, <1>8
  <1> QED
    BY <1>6, <1>9 DEF ProcessSlave, a, b, c, w

(* Only the two reconfiguration operators touch is_recover_rejected_.       *)
LEMMA RejectedKept ==
    ASSUME NEW d \in Devices
    PROVE  /\ \A i : ReceiveFromSlave(d, i).rejected = d.rejected
           /\ ProcessSlave(d).rejected = d.rejected
           /\ PreRecover(d).rejected = d.rejected
           /\ ResetState(d).rejected = d.rejected
           /\ RecoverState(d).rejected = d.rejected
           /\ LoseConnection(d).rejected = d.rejected
           /\ \A t \in Tasks : \A c \in Cmds : OnCommand(d, t, c).rejected = d.rejected
           /\ ReInit(d, "foreign").rejected = TRUE
  <1>1. ProcessSlave(d).rejected = d.rejected
    <2>1. \A e \in Devices : SetReady(e) \in Devices /\ SetReady(e).rejected = e.rejected
      BY DEF SetReady, Devices
    <2>2. \A e \in Devices : SendingArgs(e) \in Devices
      BY SendArgType DEF SendingArgs
    <2>3. \A e \in Devices : SendingArgs(e).rejected = e.rejected
      BY DEF SendingArgs, SendArg, Devices
    <2>4. \A e \in Devices : LeaveHandshake(e) \in Devices
      BY ActivateType DEF LeaveHandshake
    <2>5. \A e \in Devices : LeaveHandshake(e).rejected = e.rejected
      BY DEF LeaveHandshake, Activate, WriteInitValues, RecoverBuf, Devices
    <2>6. \A e \in Devices : Working(e).rejected = e.rejected
      BY DEF Working, ProcessPdo, Devices
    <2> QED
      BY <2>1, <2>2, <2>3, <2>4, <2>5, <2>6 DEF ProcessSlave
  <1>2. /\ \A i : ReceiveFromSlave(d, i).rejected = d.rejected
        /\ PreRecover(d).rejected = d.rejected
        /\ ResetState(d).rejected = d.rejected
        /\ RecoverState(d).rejected = d.rejected
        /\ \A t \in Tasks : \A c \in Cmds : OnCommand(d, t, c).rejected = d.rejected
        /\ ReInit(d, "foreign").rejected = TRUE
    BY DEF ReceiveFromSlave, PreRecover, ResetState, RecoverState, OnCommand, ReInit, Devices
  <1>3. LoseConnection(d).rejected = d.rejected
    <2>1. ResetState(d) \in Devices
      BY CheckerTypes
    <2>2. \A e \in Devices : OnConnectionLost(e) \in Devices
      BY ContentTypes DEF OnConnectionLost, Devices, Buffers
    <2>3. \A e \in Devices : /\ OnConnectionLost(e).rejected = e.rejected
                             /\ BackupBuf(e).rejected = e.rejected
      BY DEF OnConnectionLost, BackupBuf, Devices
    <2> QED
      BY <1>2, <2>1, <2>2, <2>3 DEF LoseConnection
  <1> QED
    BY <1>1, <1>2, <1>3
=============================================================================
