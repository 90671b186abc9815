----------------------------- MODULE Startup_proofs -----------------------------
(***************************************************************************)
(* Theorems about Startup, for every number of boards, every bus and every  *)
(* configuration, any failing reads and a signal at any time.               *)
(***************************************************************************)
EXTENDS Startup, TLAPS

USE SizesAssumption, BoardsAssumption, FaultsAssumption

-----------------------------------------------------------------------------
(* The type invariant.                                                      *)
LEMMA DeviceTypes ==
    /\ NoDevice \in Devices
    /\ \A sn \in Serials \cup {0}, rev \in Nat : InitDevice(sn, rev) \in Devices
    /\ \A d \in Devices, b \in BOOLEAN : [d EXCEPT !.rosConf = b] \in Devices
  <1>1. NoDevice \in Devices
    BY DEF NoDevice, Devices
  <1>2. \A sn \in Serials \cup {0}, rev \in Nat : InitDevice(sn, rev) \in Devices
    <2> SUFFICES ASSUME NEW sn \in Serials \cup {0}, NEW rev \in Nat
                 PROVE  InitDevice(sn, rev) \in Devices
      OBVIOUS
    <2> DEFINE passed == rev >= MinSwRev
               set == passed /\ sn \in Serials /\ conf[sn] # "unsized"
    <2>1. passed \in BOOLEAN /\ set \in BOOLEAN
      OBVIOUS
    <2>2. InitDevice(sn, rev) = [sn |-> sn, swOk |-> passed, ecatConf |-> set, rosConf |-> FALSE]
      BY Zenon DEF InitDevice
    <2> HIDE DEF passed, set
    <2> QED
      BY <2>1, <2>2 DEF Devices
  <1>3. \A d \in Devices, b \in BOOLEAN : [d EXCEPT !.rosConf = b] \in Devices
    BY DEF Devices
  <1> QED
    BY <1>1, <1>2, <1>3

LEMMA InitType == Init => TypeOK
  <1> SUFFICES ASSUME Init PROVE TypeOK
    OBVIOUS
  <1>1. dev \in [Positions -> Devices]
    BY DeviceTypes DEF Init
  <1>2. cur \in Positions /\ chk \in 0 .. MaxTries /\ {bus, ndev} \subseteq 0 .. MaxSlaves
    BY DEF Init, Positions
  <1> QED
    BY <1>1, <1>2 DEF Init, TypeOK

LEMMA NextOfType ==
    ASSUME TypeOK, NEW last \in 0 .. MaxSlaves, NEW next \in {"tasks", "op"},
           pc \in {"map", "tasks"}, NextOf(last, next)
    PROVE  cur' \in Positions /\ pc' \in {"map", "tasks", "op"}
  BY DEF TypeOK, NextOf, Positions

LEMMA MapType ==
    ASSUME TypeOK, NEW failing \in SUBSET FailingReads, MapSlave(failing)
    PROVE  TypeOK'
  <1> DEFINE sn == IF "sn" \in failing THEN 0 ELSE board[cur].sn
             rev == IF "rev" \in failing THEN revStr ELSE board[cur].rev
  <1>1. sn \in Serials \cup {0} /\ rev \in Revisions \cup {0}
    BY DEF TypeOK, Boards
  <1>2. dev' = [dev EXCEPT ![cur] = InitDevice(sn, rev)] /\ revStr' = rev
    BY DEF MapSlave
  <1>3. InitDevice(sn, rev) \in Devices
    BY <1>1, DeviceTypes
  <1> HIDE DEF sn, rev
  <1>4. dev' \in [Positions -> Devices] /\ revStr' \in Revisions \cup {0}
    BY <1>1, <1>2, <1>3 DEF TypeOK
  <1>5. unread' \subseteq Positions
    BY DEF MapSlave, TypeOK
  <1>6. cur' \in Positions /\ pc' \in {"map", "tasks", "op"}
    BY NextOfType DEF MapSlave, TypeOK
  <1> QED
    BY <1>4, <1>5, <1>6 DEF MapSlave, TypeOK, environment

LEMMA TaskListType ==
    ASSUME TypeOK, TaskList
    PROVE  TypeOK'
  <1>1. \/ pc' = "failed" /\ UNCHANGED <<dev, cur>>
        \/ pc' = "terminated" /\ UNCHANGED <<dev, cur>>
        \/ dev' = [dev EXCEPT ![cur].rosConf = TRUE] /\ NextOf(ndev, "op")
        \/ UNCHANGED <<dev, cur>> /\ FALSE
    <2>1. Outcome(dev[cur]) \in {"refused"} \cup Configurations
      BY DEF Outcome, TypeOK, Configurations
    <2> QED
      BY <2>1 DEF TaskList, Configurations
  <1>2. dev' \in [Positions -> Devices]
    <2>1. dev[cur] \in Devices
      BY DEF TypeOK
    <2>2. [dev[cur] EXCEPT !.rosConf = TRUE] \in Devices
      BY <2>1, DeviceTypes
    <2>3. dev' = dev \/ dev' = [dev EXCEPT ![cur] = [dev[cur] EXCEPT !.rosConf = TRUE]]
      BY <1>1
    <2> QED
      BY <2>2, <2>3 DEF TypeOK
  <1>3. cur' \in Positions /\ pc' \in {"map", "tasks", "op", "failed", "terminated"}
    BY <1>1, NextOfType DEF TaskList, TypeOK
  <1> QED
    BY <1>2, <1>3 DEF TaskList, TypeOK, environment

LEMMA NextType == TypeOK /\ [Next]_vars => TypeOK'
  <1> SUFFICES ASSUME TypeOK, [Next]_vars PROVE TypeOK'
    OBVIOUS
  <1>1. CASE \E failing \in SUBSET FailingReads : MapSlave(failing)
    BY <1>1, MapType
  <1>2. CASE TaskList
    BY <1>2, TaskListType
  <1>3. CASE \/ OpenFails \/ MapUnknown \/ TaskListAfterSignal
             \/ StartThreads \/ Register \/ Leave
    BY <1>3 DEF OpenFails, MapUnknown, TaskListAfterSignal, StartThreads, Register, Leave,
                TypeOK, environment
  <1>4. ASSUME NEW n \in 0 .. MaxSlaves, FirstScan(n) \/ SecondScan(n)
        PROVE  TypeOK'
    BY <1>4 DEF FirstScan, SecondScan, TypeOK, environment
  <1>5. ASSUME NEW reached \in BOOLEAN, TryOp(reached)
        PROVE  TypeOK'
    <2>1. chk' \in 0 .. MaxTries
      BY <1>5 DEF TryOp, TypeOK
    <2> QED
      BY <1>5, <2>1 DEF TryOp, TypeOK, environment
  <1>6. CASE Signal
    BY <1>6 DEF Signal, TypeOK
  <1>7. CASE UNCHANGED vars
    BY <1>7 DEF vars, environment, TypeOK
  <1> QED
    BY <1>1, <1>2, <1>3, <1>4, <1>5, <1>6, <1>7 DEF Next, MainThread

(* Type correctness, in particular: whatever the two scans find, the main   *)
(* thread never looks for a device beyond the list.                         *)
THEOREM TypeCorrect == Spec => []TypeOK
  BY InitType, NextType, PTL DEF Spec

-----------------------------------------------------------------------------
(* How far the main thread has got with the slaves.  The first two scans    *)
(* leave devices that know nothing; the mapping goes through the slaves of  *)
(* the second scan and fills in the devices of the first; the task lists    *)
(* are then made for every device, and one that was not mapped is refused.  *)
FirmwareOK(s) ==
    \/ board[s].rev >= MinSwRev
    \/ s \in unread /\ \E r \in 1 .. s : r < s /\ board[r].rev >= MinSwRev

Mapped(s) ==
    /\ dev[s].sn \in {0, board[s].sn}
    /\ dev[s].swOk = TRUE => FirmwareOK(s)
    /\ dev[s].ecatConf = TRUE \/ dev[s].sn = 0 \/ dev[s].swOk = FALSE \/ conf[dev[s].sn] = "unsized"

Blank(s) == dev[s] = NoDevice

RevFromBefore(last) == revStr = 0 \/ \E r \in Positions : r < last /\ revStr = board[r].rev

Done(s) ==
    /\ dev[s].swOk = TRUE /\ dev[s].ecatConf = TRUE /\ dev[s].rosConf = TRUE
    /\ dev[s].sn = board[s].sn /\ conf[board[s].sn] = "complete"
    /\ FirmwareOK(s)

AllDone == bus = ndev /\ ndev > 0 /\ \A s \in 1 .. ndev : Done(s)

Scanning ==
    pc \in {"open", "rescan"} =>
        cur = 1 /\ revStr = 0 /\ (\A s \in Positions : Blank(s)) /\ (pc = "rescan" => ndev > 0)

Mapping ==
    pc = "map" =>
        /\ ndev > 0 /\ cur <= bus /\ cur <= ndev + 1
        /\ \A s \in Positions : IF s < cur THEN Mapped(s) ELSE Blank(s)
        /\ RevFromBefore(cur)

Listing ==
    pc = "tasks" =>
        /\ cur <= ndev /\ bus <= ndev
        /\ \A s \in Positions : IF s <= bus THEN Mapped(s) ELSE Blank(s)
        /\ \A s \in 1 .. cur - 1 : s <= bus /\ Done(s)

Running ==
    /\ pc \in {"op", "decide", "register", "spin", "leave"} \/ threads = TRUE => AllDone
    /\ threads = TRUE => pc \in {"register", "spin", "leave", "terminated"}
    /\ pc = "leave" => signalled = TRUE

Ended ==
    pc = "terminated" =>
        signalled = TRUE \/ bus > ndev \/ \E s \in 1 .. ndev : Unconfigured(dev[s])

StartupInv == Scanning /\ Mapping /\ Listing /\ Running /\ Ended

LEMMA InvInit == Init => StartupInv
  BY DEF Init, StartupInv, Scanning, Mapping, Listing, Running, Ended, Blank

LEMMA InvImplies ==
    TypeOK /\ StartupInv => RunningIsComplete /\ FirmwareChecked /\ AbortsExplained
  <1> SUFFICES ASSUME TypeOK, StartupInv
               PROVE  RunningIsComplete /\ FirmwareChecked /\ AbortsExplained
    OBVIOUS
  <1>1. threads \in BOOLEAN /\ signalled \in BOOLEAN
    BY DEF TypeOK
  <1>2. RunningIsComplete
    BY <1>1 DEF StartupInv, Running, AllDone, Done, RunningIsComplete
  <1>3. FirmwareChecked
    BY <1>1 DEF StartupInv, Running, AllDone, Done, FirmwareOK, FirmwareChecked
  <1>4. AbortsExplained
    BY <1>1 DEF StartupInv, Ended, AbortsExplained
  <1> QED
    BY <1>2, <1>3, <1>4

(* One more slave has been mapped.                                          *)
LEMMA InvMap ==
    ASSUME TypeOK, StartupInv, NEW failing \in SUBSET FailingReads, MapSlave(failing)
    PROVE  StartupInv'
  <1> SUFFICES ASSUME NEW c, c = cur PROVE StartupInv'
    OBVIOUS
  <1> DEFINE sn == IF "sn" \in failing THEN 0 ELSE board[cur].sn
             rev == IF "rev" \in failing THEN revStr ELSE board[cur].rev
  <1>1. /\ pc = "map" /\ cur <= ndev /\ cur <= bus /\ RevFromBefore(cur)
        /\ \A s \in Positions : IF s < cur THEN Mapped(s) ELSE Blank(s)
    BY DEF StartupInv, Mapping, MapSlave
  <1>2. /\ dev' = [dev EXCEPT ![cur] = InitDevice(sn, rev)] /\ revStr' = rev
        /\ unread' = IF "rev" \in failing THEN unread \cup {cur} ELSE unread
        /\ board' = board /\ conf' = conf /\ signalled' = signalled
        /\ bus' = bus /\ ndev' = ndev /\ threads' = threads
        /\ NextOf(bus, "tasks")
    BY DEF MapSlave, environment
  <1>3. /\ cur \in Positions /\ bus \in 0 .. MaxSlaves /\ ndev \in 0 .. MaxSlaves
        /\ dev \in [Positions -> Devices] /\ board \in [Positions -> Boards]
        /\ conf \in [Serials -> Configurations] /\ revStr \in Revisions \cup {0}
    BY DEF TypeOK
  <1>4. threads # TRUE
    BY <1>1 DEF StartupInv, Running
  <1>5. sn \in {0, board[cur].sn} /\ sn \in Serials \cup {0} /\ rev \in Nat
    <2>1. \A b \in Boards : b.sn \in Serials /\ b.rev \in Revisions
      BY DEF Boards
    <2>2. board[cur].sn \in Serials /\ board[cur].rev \in Revisions
      BY <1>3, <2>1
    <2>3. Revisions \cup {0} \subseteq Nat
      OBVIOUS
    <2>4. sn = 0 \/ sn = board[cur].sn
      OBVIOUS
    <2>5. rev = revStr \/ rev = board[cur].rev
      OBVIOUS
    <2> HIDE DEF sn, rev
    <2> QED
      BY <1>3, <2>2, <2>3, <2>4, <2>5
  <1>6. rev >= MinSwRev => FirmwareOK(c)'
    <2>1. CASE "rev" \notin failing
      BY <1>2, <2>1 DEF FirmwareOK
    <2>2. CASE "rev" \in failing
      <3>1. cur \in unread' /\ rev = revStr
        BY <1>2, <2>2
      <3>2. CASE revStr = 0
        <4>1. board[c].rev \in Nat
          BY <1>3 DEF Boards
        <4>2. rev >= MinSwRev => board[c].rev >= MinSwRev
          BY <3>1, <3>2, <4>1
        <4> QED
          BY <1>2, <4>2 DEF FirmwareOK
      <3>3. CASE \E r \in Positions : r < cur /\ revStr = board[r].rev
        BY <1>2, <1>3, <3>1, <3>3 DEF FirmwareOK, Positions
      <3> QED
        BY <1>1, <3>2, <3>3 DEF RevFromBefore
    <2> QED
      BY <2>1, <2>2
  <1>7. Mapped(c)'
    <2> DEFINE d == InitDevice(sn, rev)
    <2>1. dev'[c] = d
      BY <1>2, <1>3
    <2>2. /\ d.sn = sn /\ d.swOk = (rev >= MinSwRev)
          /\ d.ecatConf = (rev >= MinSwRev /\ sn \in Serials /\ conf[sn] # "unsized")
      BY DEF InitDevice
    <2> HIDE DEF d, sn, rev
    <2>3. d.ecatConf = TRUE \/ d.sn = 0 \/ d.swOk = FALSE \/ conf[d.sn] = "unsized"
      BY <1>5, <2>2
    <2>4. d.swOk = TRUE => FirmwareOK(c)'
      BY <1>5, <1>6, <2>2
    <2>5. dev'[c].sn \in {0, board'[c].sn}
      BY <1>2, <1>5, <2>1, <2>2
    <2> QED
      BY <1>2, <2>1, <2>3, <2>4, <2>5 DEF Mapped
  <1>8. \A s \in Positions : s < c => Mapped(s)'
    <2> SUFFICES ASSUME NEW s \in Positions, s < c PROVE Mapped(s)'
      OBVIOUS
    <2>1. Mapped(s) /\ dev'[s] = dev[s] /\ unread \subseteq unread'
      BY <1>1, <1>2, <1>3 DEF Positions
    <2>2. FirmwareOK(s) => FirmwareOK(s)'
      BY <1>2, <2>1 DEF FirmwareOK
    <2> QED
      BY <1>2, <2>1, <2>2 DEF Mapped
  <1>9. \A s \in Positions : s > c => Blank(s)'
    BY <1>1, <1>2, <1>3 DEF Blank, Positions
  <1>10. RevFromBefore(c + 1)'
    <2>1. CASE "rev" \notin failing
      BY <1>2, <1>3, <2>1 DEF RevFromBefore, Positions
    <2>2. CASE "rev" \in failing
      BY <1>1, <1>2, <1>3, <2>2 DEF RevFromBefore, Positions
    <2> QED
      BY <2>1, <2>2
  <1> HIDE DEF sn, rev
  <1>11. CASE cur < bus
    <2>1. pc' = "map" /\ cur' = c + 1
      BY <1>1, <1>2, <1>11 DEF NextOf
    <2>2. Mapping'
      <3>1. \A s \in Positions : IF s < c + 1 THEN Mapped(s)' ELSE Blank(s)'
        BY <1>3, <1>7, <1>8, <1>9 DEF Positions
      <3>2. ndev' > 0 /\ cur' <= bus' /\ cur' <= ndev' + 1
        BY <1>1, <1>2, <1>3, <1>11, <2>1 DEF Positions
      <3> QED
        BY <1>10, <2>1, <3>1, <3>2 DEF Mapping, RevFromBefore
    <2> QED
      BY <1>2, <1>4, <2>1, <2>2 DEF StartupInv, Scanning, Listing, Running, Ended
  <1>12. CASE ~(cur < bus)
    <2>1. pc' = "tasks" /\ cur' = 1
      BY <1>2, <1>12 DEF NextOf
    <2>2. Listing'
      <3>1. c = bus
        BY <1>1, <1>3, <1>12 DEF Positions
      <3>2. \A s \in Positions : IF s <= bus' THEN Mapped(s)' ELSE Blank(s)'
        BY <1>2, <1>3, <1>7, <1>8, <1>9, <3>1 DEF Positions
      <3>3. cur' <= ndev' /\ bus' <= ndev'
        BY <1>1, <1>2, <1>3, <2>1, <3>1 DEF Positions
      <3> QED
        BY <2>1, <3>2, <3>3 DEF Listing
    <2> QED
      BY <1>2, <1>4, <2>1, <2>2 DEF StartupInv, Scanning, Mapping, Running, Ended
  <1> QED
    BY <1>11, <1>12

(* One more device has been given its tasks, or start-up is given up.       *)
LEMMA InvTaskList ==
    ASSUME TypeOK, StartupInv, TaskList
    PROVE  StartupInv'
  <1> SUFFICES ASSUME NEW c, c = cur PROVE StartupInv'
    OBVIOUS
  <1> DEFINE outcome == Outcome(dev[c])
  <1>1. /\ c \in Positions /\ c <= ndev /\ bus <= ndev
        /\ \A s \in Positions : IF s <= bus THEN Mapped(s) ELSE Blank(s)
        /\ \A s \in 1 .. c - 1 : s <= bus /\ Done(s)
        /\ pc = "tasks" /\ threads # TRUE
    BY DEF StartupInv, Listing, Running, TaskList, TypeOK
  <1>2. /\ board' = board /\ conf' = conf /\ signalled' = signalled /\ unread' = unread
        /\ bus' = bus /\ ndev' = ndev /\ threads' = threads /\ revStr' = revStr
    BY DEF TaskList, environment
  <1>3. /\ bus \in 0 .. MaxSlaves /\ ndev \in 0 .. MaxSlaves
        /\ dev \in [Positions -> Devices] /\ board \in [Positions -> Boards]
        /\ conf \in [Serials -> Configurations]
    BY DEF TypeOK
  <1>4. dev[c] \in Devices /\ dev[c].swOk \in BOOLEAN /\ dev[c].sn \in Serials \cup {0}
    BY <1>1, <1>3 DEF Devices
  <1>5. outcome \in {"refused", "unsized", "broken", "empty", "complete"}
    BY <1>3, <1>4 DEF Outcome, Configurations
  <1>6. CASE outcome \in {"refused", "empty"}
    <2>1. pc' = "failed"
      BY <1>6 DEF TaskList
    <2> QED
      BY <1>1, <1>2, <2>1 DEF StartupInv, Scanning, Mapping, Listing, Running, Ended
  <1>7. CASE outcome \in {"unsized", "broken"}
    <2>1. pc' = "terminated" /\ dev' = dev
      BY <1>7 DEF TaskList
    <2>2. Unconfigured(dev[c])
      BY <1>4, <1>7 DEF Outcome, Unconfigured
    <2>3. c \in 1 .. ndev
      BY <1>1, <1>3 DEF Positions
    <2>4. Unconfigured(dev[c])'
      BY <1>2, <2>1, <2>2 DEF Unconfigured
    <2> QED
      BY <1>1, <1>2, <2>1, <2>3, <2>4 DEF StartupInv, Scanning, Mapping, Listing, Running, Ended
  <1>8. CASE outcome = "complete"
    <2>1. dev' = [dev EXCEPT ![c].rosConf = TRUE] /\ NextOf(ndev, "op")
      BY <1>8 DEF TaskList
    <2>2. dev[c].swOk = TRUE /\ dev[c].sn \in Serials /\ conf[dev[c].sn] = "complete"
      BY <1>4, <1>8 DEF Outcome
    <2>3. c <= bus
      BY <1>1, <2>2 DEF Blank, NoDevice
    <2>4. Mapped(c)
      BY <1>1, <2>3
    <2>5. /\ dev'[c].swOk = dev[c].swOk /\ dev'[c].sn = dev[c].sn
          /\ dev'[c].ecatConf = dev[c].ecatConf /\ dev'[c].rosConf = TRUE
      BY <1>1, <1>3, <1>4, <2>1 DEF Devices
    <2>6. \A s \in Positions : s # c => dev'[s] = dev[s]
      BY <1>3, <2>1
    <2>7. Done(c)'
      <3>1. dev[c].sn = board[c].sn /\ FirmwareOK(c)
        BY <2>2, <2>4 DEF Mapped
      <3>2. dev[c].ecatConf = TRUE
        BY <2>2, <2>4 DEF Mapped
      <3>3. FirmwareOK(c)'
        BY <1>2, <3>1 DEF FirmwareOK
      <3> QED
        BY <1>2, <2>2, <2>5, <3>1, <3>2, <3>3 DEF Done
    <2>8. \A s \in 1 .. c - 1 : Done(s)'
      <3> SUFFICES ASSUME NEW s \in 1 .. c - 1 PROVE Done(s)'
        OBVIOUS
      <3>1. Done(s) /\ dev'[s] = dev[s]
        BY <1>1, <2>6 DEF Positions
      <3> QED
        BY <1>2, <3>1 DEF Done, FirmwareOK
    <2>9. \A s \in Positions : (IF s <= bus THEN Mapped(s) ELSE Blank(s))'
      <3> SUFFICES ASSUME NEW s \in Positions PROVE (IF s <= bus THEN Mapped(s) ELSE Blank(s))'
        OBVIOUS
      <3>1. CASE s = c
        <4>1. Mapped(c)'
          BY <1>2, <2>4, <2>5 DEF Mapped, FirmwareOK
        <4> QED
          BY <1>2, <2>3, <3>1, <4>1
      <3>2. CASE s # c
        <4>1. dev'[s] = dev[s] /\ IF s <= bus THEN Mapped(s) ELSE Blank(s)
          BY <1>1, <2>6, <3>2
        <4> QED
          BY <1>2, <4>1 DEF Mapped, Blank, FirmwareOK
      <3> QED
        BY <3>1, <3>2
    <2>10. \A s \in 1 .. c : s <= bus /\ Done(s)'
      <3>1. \A s \in 1 .. c : s = c \/ s \in 1 .. c - 1
        BY <1>1 DEF Positions
      <3> QED
        BY <1>1, <2>3, <2>7, <2>8, <3>1
    <2>11. CASE c < ndev
      <3>1. pc' = "tasks" /\ cur' = c + 1
        BY <1>1, <2>1, <2>11 DEF NextOf
      <3>2. (c + 1) - 1 = c /\ c + 1 <= ndev
        BY <1>1, <1>3, <2>11 DEF Positions
      <3>3. Listing'
        BY <1>1, <1>2, <2>9, <2>10, <3>1, <3>2 DEF Listing
      <3> QED
        BY <1>1, <1>2, <3>1, <3>3 DEF StartupInv, Scanning, Mapping, Running, Ended
    <2>12. CASE ~(c < ndev)
      <3>1. pc' = "op"
        BY <1>1, <2>1, <2>12 DEF NextOf
      <3>2. c = ndev /\ bus = ndev /\ ndev > 0
        BY <1>1, <1>3, <2>3, <2>12 DEF Positions
      <3>3. AllDone'
        BY <1>2, <2>10, <3>2 DEF AllDone
      <3> QED
        BY <1>1, <1>2, <3>1, <3>3 DEF StartupInv, Scanning, Mapping, Listing, Running, Ended
    <2> QED
      BY <2>11, <2>12
  <1> QED
    BY <1>5, <1>6, <1>7, <1>8

(* The rest of setup_ecat(), run(), main() and the signal.                  *)
LEMMA InvScan ==
    ASSUME TypeOK, StartupInv, NEW n \in 0 .. MaxSlaves,
           OpenFails \/ FirstScan(n) \/ SecondScan(n) \/ MapUnknown
    PROVE  StartupInv'
  <1>1. threads # TRUE
    BY DEF StartupInv, Running, OpenFails, FirstScan, SecondScan, MapUnknown
  <1>2. CASE OpenFails
    BY <1>1, <1>2 DEF OpenFails, environment, StartupInv, Scanning, Mapping, Listing, Running, Ended
  <1>3. CASE FirstScan(n)
    BY <1>1, <1>3 DEF FirstScan, environment, StartupInv, Scanning, Mapping, Listing, Running,
       Ended, Blank
  <1>4. CASE SecondScan(n)
    <2>1. /\ cur = 1 /\ revStr = 0 /\ ndev > 0 /\ \A s \in Positions : Blank(s)
          /\ ndev \in 0 .. MaxSlaves
      BY <1>4 DEF SecondScan, StartupInv, Scanning, TypeOK
    <2>2. /\ cur' = cur /\ dev' = dev /\ revStr' = revStr /\ ndev' = ndev /\ bus' = n
          /\ board' = board /\ threads' = threads
      BY <1>4 DEF SecondScan, environment
    <2>3. \A s \in Positions : Blank(s)' /\ s >= 1 /\ ~(s < 1) /\ s \in Nat
      BY <2>1, <2>2 DEF Blank, Positions
    <2>4. CASE n = 0
      <3>1. pc' = "tasks"
        BY <1>4, <2>4 DEF SecondScan
      <3>2. Listing'
        BY <2>1, <2>2, <2>3, <2>4 DEF Listing
      <3> QED
        BY <1>1, <2>2, <3>1, <3>2 DEF StartupInv, Scanning, Mapping, Running, Ended
    <2>5. CASE n # 0
      <3>1. pc' = "map"
        BY <1>4, <2>5 DEF SecondScan
      <3>2. Mapping'
        BY <2>1, <2>2, <2>3, <2>5 DEF Mapping, RevFromBefore
      <3> QED
        BY <1>1, <2>2, <3>1, <3>2 DEF StartupInv, Scanning, Listing, Running, Ended
    <2> QED
      BY <2>4, <2>5
  <1>5. CASE MapUnknown
    <2>1. bus > ndev
      BY <1>5 DEF MapUnknown, StartupInv, Mapping, TypeOK, Positions
    <2> QED
      BY <1>1, <1>5, <2>1 DEF MapUnknown, StartupInv, Scanning, Mapping, Listing, Running, Ended
  <1> QED
    BY <1>2, <1>3, <1>4, <1>5

LEMMA InvRun ==
    ASSUME TypeOK, StartupInv, NEW reached \in BOOLEAN,
           \/ TaskListAfterSignal \/ TryOp(reached) \/ StartThreads \/ Register \/ Leave
    PROVE  StartupInv'
  <1>1. /\ board' = board /\ conf' = conf /\ signalled' = signalled /\ unread' = unread
        /\ bus' = bus /\ ndev' = ndev /\ dev' = dev /\ threads \in BOOLEAN /\ signalled \in BOOLEAN
    BY DEF TaskListAfterSignal, TryOp, StartThreads, Register, Leave, environment, TypeOK
  <1>2. AllDone => AllDone'
    BY <1>1 DEF AllDone, Done, FirmwareOK
  <1>3. CASE TaskListAfterSignal
    BY <1>1, <1>3 DEF TaskListAfterSignal, StartupInv, Scanning, Mapping, Listing, Running, Ended
  <1>4. CASE TryOp(reached)
    BY <1>1, <1>2, <1>4 DEF TryOp, StartupInv, Scanning, Mapping, Listing, Running, Ended
  <1>5. CASE StartThreads
    BY <1>1, <1>2, <1>5 DEF StartThreads, StartupInv, Scanning, Mapping, Listing, Running, Ended
  <1>6. CASE Register
    BY <1>1, <1>2, <1>6 DEF Register, StartupInv, Scanning, Mapping, Listing, Running, Ended
  <1>7. CASE Leave
    <2>1. pc' = (IF threads THEN "terminated" ELSE "exited") /\ threads' = threads
      BY <1>7 DEF Leave
    <2>2. threads = TRUE => signalled = TRUE /\ AllDone
      BY <1>7 DEF Leave, StartupInv, Running
    <2> QED
      BY <1>1, <1>2, <2>1, <2>2 DEF StartupInv, Scanning, Mapping, Listing, Running, Ended
  <1> QED
    BY <1>3, <1>4, <1>5, <1>6, <1>7

LEMMA InvSignal ==
    ASSUME TypeOK, StartupInv, Signal \/ UNCHANGED vars
    PROVE  StartupInv'
  <1>1. /\ board' = board /\ conf' = conf /\ bus' = bus /\ ndev' = ndev /\ dev' = dev
        /\ revStr' = revStr /\ pc' = pc /\ cur' = cur /\ threads' = threads /\ unread' = unread
        /\ signalled = TRUE => signalled' = TRUE
    BY DEF Signal, vars, environment
  <1>2. \A s : /\ FirmwareOK(s)' <=> FirmwareOK(s)
               /\ Mapped(s)' <=> Mapped(s)
               /\ Done(s)' <=> Done(s)
               /\ Blank(s)' <=> Blank(s)
    BY <1>1 DEF FirmwareOK, Mapped, Done, Blank
  <1>3. Scanning' /\ Mapping' /\ Listing' /\ Running'
    BY <1>1, <1>2
    DEF StartupInv, Scanning, Mapping, Listing, Running, AllDone, RevFromBefore
  <1>4. Ended'
    <2>1. \A d : Unconfigured(d)' <=> Unconfigured(d)
      BY <1>1 DEF Unconfigured
    <2> QED
      BY <1>1, <2>1 DEF StartupInv, Ended
  <1> QED
    BY <1>3, <1>4 DEF StartupInv

LEMMA InvNext == TypeOK /\ StartupInv /\ [Next]_vars => StartupInv'
  <1> SUFFICES ASSUME TypeOK, StartupInv, [Next]_vars PROVE StartupInv'
    OBVIOUS
  <1>1. 0 \in 0 .. MaxSlaves /\ TRUE \in BOOLEAN
    OBVIOUS
  <1> QED
    BY <1>1, InvMap, InvTaskList, InvScan, InvRun, InvSignal DEF Next, MainThread

LEMMA InvAlways == Spec => [](TypeOK /\ StartupInv)
  BY TypeCorrect, InvInit, InvNext, PTL DEF Spec

(* Whatever joins, leaves or cannot be read while the bus is scanned: the   *)
(* threads run only over slaves that have all been initialised and given    *)
(* their tasks from their own configuration.                                *)
THEOREM RunsOnlyComplete == Spec => []RunningIsComplete
  BY InvAlways, InvImplies, PTL

(* A board with too old a firmware is never run, but when its revision      *)
(* cannot be read and an earlier board has a sufficient one.                *)
THEOREM FirmwareIsChecked == Spec => []FirmwareChecked
  BY InvAlways, InvImplies, PTL

(* The process is terminated only by a board that joins between the scans,  *)
(* by a missing setting or by a signal before on_shutdown() is registered.  *)
THEOREM AbortsAreExplained == Spec => []AbortsExplained
  BY InvAlways, InvImplies, PTL
=============================================================================
