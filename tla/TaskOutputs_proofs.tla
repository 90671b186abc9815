--------------------------- MODULE TaskOutputs_proofs ---------------------------
(***************************************************************************)
(* The output bytes of a slave implement TaskCommands: for every number of  *)
(* tasks, every list of them whose areas are apart, and every command.      *)
(***************************************************************************)
EXTENDS TaskOutputs, SequenceTheorems, TLAPS

-----------------------------------------------------------------------------
(* What the layouts are made of.                                            *)
ByteSet == [role : {"enable", "value"}, motor : Motors]

LEMMA EnableIsByte ==
    ASSUME NEW m \in Motors
    PROVE  /\ Enable(m) \in Seq(ByteSet) /\ Len(Enable(m)) = 1
           /\ Enable(m)[1] = [role |-> "enable", motor |-> m]
BY DEF Enable, ByteSet

LEMMA ValueIsBytes ==
    ASSUME NEW m \in Motors, NEW width \in Nat
    PROVE  /\ Value(m, width) \in Seq(ByteSet) /\ Len(Value(m, width)) = width
           /\ \A k \in 1 .. width : Value(m, width)[k] = [role |-> "value", motor |-> m]
<1> DEFINE byte == [role |-> "value", motor |-> m]
<1>1. byte \in ByteSet
    BY DEF ByteSet
<1> HIDE DEF byte
<1>2. Value(m, width) = [b \in 1 .. width |-> byte]
    BY DEF Value, byte
<1>3. Value(m, width) \in Seq(ByteSet) /\ Len(Value(m, width)) = width
    BY <1>1, <1>2
<1>4. \A k \in 1 .. width : Value(m, width)[k] = byte
    BY <1>2
<1> QED
    BY <1>3, <1>4 DEF byte

LEMMA ZerosAreNumbers ==
    ASSUME NEW n \in Nat
    PROVE  Zeros(n) \in Seq(Nat) /\ Len(Zeros(n)) = n /\ DOMAIN Zeros(n) = 1 .. n
BY DEF Zeros

LEMMA Joined ==
    ASSUME NEW S, NEW left \in Seq(S), NEW right \in Seq(S)
    PROVE  left \o right \in Seq(S) /\ Len(left \o right) = Len(left) + Len(right)
BY ConcatProperties

(* The pieces of the four motors, one behind the other.                     *)
LEMMA InOrderLength ==
    ASSUME NEW S, NEW pieces \in [Motors -> Seq(S)]
    PROVE  /\ InOrder(pieces) \in Seq(S)
           /\ Len(InOrder(pieces)) =
                Len(pieces[1]) + Len(pieces[2]) + Len(pieces[3]) + Len(pieces[4])
<1>1. \A m \in 1 .. 4 : pieces[m] \in Seq(S)
    BY DEF Motors
<1> DEFINE first == pieces[1]
           second == pieces[2]
           third == pieces[3]
           fourth == pieces[4]
<1>2. first \in Seq(S) /\ second \in Seq(S) /\ third \in Seq(S) /\ fourth \in Seq(S)
    BY <1>1
<1>3. InOrder(pieces) = first \o second \o third \o fourth
    BY DEF InOrder
<1> HIDE DEF first, second, third, fourth
<1>4. first \o second \in Seq(S) /\ Len(first \o second) = Len(first) + Len(second)
    BY <1>2, Joined
<1>5. /\ first \o second \o third \in Seq(S)
      /\ Len(first \o second \o third) = Len(first \o second) + Len(third)
    <2> DEFINE left == first \o second
    <2>1. left \in Seq(S)
        BY <1>4
    <2> HIDE DEF left
    <2>2. left \o third \in Seq(S) /\ Len(left \o third) = Len(left) + Len(third)
        BY <1>2, <2>1, Joined
    <2> QED
        BY <2>2 DEF left
<1>6. /\ first \o second \o third \o fourth \in Seq(S)
      /\ Len(first \o second \o third \o fourth) =
            Len(first \o second \o third) + Len(fourth)
    <2> DEFINE left == first \o second \o third
    <2>1. left \in Seq(S)
        BY <1>5
    <2> HIDE DEF left
    <2>2. left \o fourth \in Seq(S) /\ Len(left \o fourth) = Len(left) + Len(fourth)
        BY <1>2, <2>1, Joined
    <2> QED
        BY <2>2 DEF left
<1>7. /\ InOrder(pieces) \in Seq(S)
      /\ Len(InOrder(pieces)) = Len(first) + Len(second) + Len(third) + Len(fourth)
    <2>1. Len(InOrder(pieces)) = Len(first \o second \o third) + Len(fourth)
        BY <1>3, <1>6
    <2>2. Len(first \o second \o third) = Len(first) + Len(second) + Len(third)
        BY <1>4, <1>5
    <2>3. InOrder(pieces) \in Seq(S)
        BY <1>3, <1>6
    <2> QED
        BY <2>1, <2>2, <2>3
<1> QED
    BY <1>7 DEF first, second, third, fourth

(* What is written only for the motors that have a CAN id.                  *)
LEMMA EnabledLength ==
    ASSUME NEW S, NEW t \in TaskRecords, NEW bytes \in [Motors -> Seq(S)]
    PROVE  LET written == InOrder([m \in Motors |-> IfEnabled(t, m, bytes[m])])
               length(m) == IF m \in t.motors THEN Len(bytes[m]) ELSE 0
           IN /\ written \in Seq(S)
              /\ Len(written) = length(1) + length(2) + length(3) + length(4)
<1> DEFINE pieces == [m \in Motors |-> IfEnabled(t, m, bytes[m])]
           length(m) == IF m \in t.motors THEN Len(bytes[m]) ELSE 0
<1>1. << >> \in Seq(S) /\ Len(<< >>) = 0
    BY EmptySeq
<1>2. \A m \in Motors : IfEnabled(t, m, bytes[m]) \in Seq(S)
    BY <1>1 DEF IfEnabled
<1>3. pieces \in [Motors -> Seq(S)]
    BY <1>2
<1>4. \A m \in Motors : Len(pieces[m]) = length(m)
    BY <1>1 DEF IfEnabled
<1>5. 1 \in Motors /\ 2 \in Motors /\ 3 \in Motors /\ 4 \in Motors
    BY DEF Motors
<1> HIDE DEF pieces, length
<1>6. /\ InOrder(pieces) \in Seq(S)
      /\ Len(InOrder(pieces)) = length(1) + length(2) + length(3) + length(4)
    BY <1>3, <1>4, <1>5, InOrderLength
<1> QED
    BY <1>6 DEF pieces, length

(* A flag and a value of motor 1.                                           *)
LEMMA FlagThenValue ==
    ASSUME NEW width \in Nat
    PROVE  LET bytes == Enable(1) \o Value(1, width)
           IN /\ bytes \in Seq(ByteSet) /\ Len(bytes) = 1 + width
              /\ bytes[1] = [role |-> "enable", motor |-> 1]
              /\ \A k \in DOMAIN bytes : bytes[k].motor = 1
<1> DEFINE bytes == Enable(1) \o Value(1, width)
<1>1. 1 \in Motors
    BY DEF Motors
<1>2. /\ Enable(1) \in Seq(ByteSet) /\ Len(Enable(1)) = 1
      /\ Value(1, width) \in Seq(ByteSet) /\ Len(Value(1, width)) = width
    BY <1>1, EnableIsByte, ValueIsBytes
<1> DEFINE flag == Enable(1)
           value == Value(1, width)
<1>3. /\ bytes \in Seq(ByteSet) /\ Len(bytes) = 1 + width
      /\ \A k \in 1 .. 1 + width : bytes[k] = IF k <= 1 THEN flag[k] ELSE value[k - 1]
    <2> HIDE DEF flag, value
    <2>1. /\ flag \in Seq(ByteSet) /\ Len(flag) = 1
          /\ value \in Seq(ByteSet) /\ Len(value) = width
        BY <1>2 DEF flag, value
    <2>2. bytes = flag \o value
        BY DEF flag, value
    <2> HIDE DEF bytes
    <2> QED
        BY <2>1, <2>2, ConcatProperties
<1> HIDE DEF bytes
<1>4. DOMAIN bytes = 1 .. 1 + width
    BY <1>3
<1>5. bytes[1] = [role |-> "enable", motor |-> 1]
    BY <1>1, <1>3, EnableIsByte
<1>6. ASSUME NEW k \in 1 .. 1 + width PROVE bytes[k].motor = 1
    <2>1. CASE k = 1
        BY <1>5, <2>1
    <2>2. CASE k # 1
        <3>1. k - 1 \in 1 .. width /\ ~(k <= 1)
            BY <2>2
        <3>2. bytes[k] = [role |-> "value", motor |-> 1]
            BY <1>1, <1>3, <3>1, ValueIsBytes
        <3> QED
            BY <3>2
    <2> QED
        BY <2>1, <2>2
<1> QED
    BY <1>3, <1>4, <1>5, <1>6 DEF bytes

-----------------------------------------------------------------------------
(* The two shapes a task has: init_value() writes every byte that           *)
(* on_command() writes (Covers), or on_command() writes for motor 1 only,   *)
(* its flag first, and init_value() clears the flag (ClearsFlag).           *)
Covers(command, init) == Len(command) <= Len(init)

ClearsFlag(command, init) ==
    /\ Len(command) >= 1 /\ command[1] = [role |-> "enable", motor |-> 1]
    /\ \A k \in DOMAIN command : command[k].motor = 1
    /\ Len(init) >= 1 /\ init[1] = 0

Shaped(command, init) ==
    /\ command \in Seq(ByteSet) /\ init \in Seq(Nat)
    /\ Covers(command, init) \/ ClearsFlag(command, init)

LEMMA FlagAndValueShaped ==
    ASSUME NEW width \in Nat
    PROVE  Shaped(Enable(1) \o Value(1, width), Zeros(1))
<1> DEFINE bytes == Enable(1) \o Value(1, width)
<1>1. /\ bytes \in Seq(ByteSet) /\ Len(bytes) = 1 + width
      /\ bytes[1] = [role |-> "enable", motor |-> 1]
      /\ \A k \in DOMAIN bytes : bytes[k].motor = 1
    BY FlagThenValue
<1>2. Zeros(1) \in Seq(Nat) /\ Len(Zeros(1)) = 1
    BY ZerosAreNumbers
<1>3. Zeros(1)[1] = 0
    BY DEF Zeros
<1> HIDE DEF bytes
<1>4. Shaped(bytes, Zeros(1))
    BY <1>1, <1>2, <1>3 DEF Shaped, ClearsFlag
<1> QED
    BY <1>4 DEF bytes

(* Four values, whichever motors there are.                                 *)
LEMMA FourValues ==
    LET bytes == InOrder([m \in Motors |-> Value(m, 2)])
    IN bytes \in Seq(ByteSet) /\ Len(bytes) = 8
<1> DEFINE pieces == [m \in Motors |-> Value(m, 2)]
<1>1. pieces \in [Motors -> Seq(ByteSet)]
    BY ValueIsBytes
<1>2. \A m \in 1 .. 4 : Len(pieces[m]) = 2
    BY ValueIsBytes DEF Motors
<1> HIDE DEF pieces
<1>3. InOrder(pieces) \in Seq(ByteSet) /\ Len(InOrder(pieces)) = 8
    <2>1. /\ InOrder(pieces) \in Seq(ByteSet)
          /\ Len(InOrder(pieces)) =
               Len(pieces[1]) + Len(pieces[2]) + Len(pieces[3]) + Len(pieces[4])
        BY <1>1, InOrderLength
    <2>2. /\ Len(pieces[1]) = 2 /\ Len(pieces[2]) = 2
          /\ Len(pieces[3]) = 2 /\ Len(pieces[4]) = 2
        BY <1>2
    <2> QED
        BY <2>1, <2>2
<1> QED
    BY <1>3 DEF pieces

LEMMA FlaggedMotors ==
    ASSUME NEW t \in TaskRecords
    PROVE  LET bytes == InOrder([m \in Motors |-> IfEnabled(t, m, Enable(m) \o Value(m, 2))])
           IN bytes \in Seq(ByteSet) /\ Len(bytes) <= 12
<1> DEFINE pieces == [m \in Motors |-> Enable(m) \o Value(m, 2)]
           written == InOrder([m \in Motors |-> IfEnabled(t, m, pieces[m])])
           length(m) == IF m \in t.motors THEN Len(pieces[m]) ELSE 0
<1>1. ASSUME NEW m \in Motors
      PROVE  pieces[m] \in Seq(ByteSet) /\ Len(pieces[m]) = 3
    <2>1. /\ Enable(m) \in Seq(ByteSet) /\ Len(Enable(m)) = 1
          /\ Value(m, 2) \in Seq(ByteSet) /\ Len(Value(m, 2)) = 2
        BY EnableIsByte, ValueIsBytes
    <2>2. Enable(m) \o Value(m, 2) \in Seq(ByteSet) /\ Len(Enable(m) \o Value(m, 2)) = 1 + 2
        BY <2>1, Joined
    <2> QED
        BY <2>2
<1>2. written = InOrder([m \in Motors |-> IfEnabled(t, m, Enable(m) \o Value(m, 2))])
    BY Zenon
<1>3. pieces \in [Motors -> Seq(ByteSet)]
    BY <1>1
<1>4. \A m \in 1 .. 4 : Len(pieces[m]) = 3
    BY <1>1 DEF Motors
<1> HIDE DEF pieces
<1>5. /\ written \in Seq(ByteSet)
      /\ Len(written) = length(1) + length(2) + length(3) + length(4)
    BY <1>3, EnabledLength
<1>6. \A m \in 1 .. 4 : length(m) \in 0 .. 3
    BY <1>4
<1> HIDE DEF written, length
<1>7. written \in Seq(ByteSet) /\ Len(written) <= 12
    BY <1>5, <1>6
<1> QED
    BY <1>2, <1>7

LEMMA EnabledValues ==
    ASSUME NEW t \in TaskRecords
    PROVE  Shaped(EXTERNAL_PWM_command(t), EXTERNAL_PWM_init(t))
<1> DEFINE values == [m \in Motors |-> Value(m, 2)]
           inits == [m \in Motors |-> << InitByte, InitByte >>]
           length(m) == IF m \in t.motors THEN 2 ELSE 0
<1>1. values \in [Motors -> Seq(ByteSet)] /\ \A m \in 1 .. 4 : Len(values[m]) = 2
    BY ValueIsBytes DEF Motors
<1>2. inits \in [Motors -> Seq(Nat)] /\ \A m \in 1 .. 4 : Len(inits[m]) = 2
    BY DEF Motors, InitByte
<1>3. EXTERNAL_PWM_command(t) = InOrder([m \in Motors |-> IfEnabled(t, m, values[m])])
    BY DEF EXTERNAL_PWM_command
<1>4. EXTERNAL_PWM_init(t) = InOrder([m \in Motors |-> IfEnabled(t, m, inits[m])])
    BY DEF EXTERNAL_PWM_init
<1> HIDE DEF values, inits
<1>5. /\ EXTERNAL_PWM_command(t) \in Seq(ByteSet)
      /\ Len(EXTERNAL_PWM_command(t)) = length(1) + length(2) + length(3) + length(4)
    <2> DEFINE given(m) == IF m \in t.motors THEN Len(values[m]) ELSE 0
    <2>1. /\ EXTERNAL_PWM_command(t) \in Seq(ByteSet)
          /\ Len(EXTERNAL_PWM_command(t)) = given(1) + given(2) + given(3) + given(4)
        BY <1>1, <1>3, EnabledLength
    <2>2. \A m \in 1 .. 4 : given(m) = length(m)
        BY <1>1
    <2> HIDE DEF given, length
    <2> QED
        BY <2>1, <2>2
<1>6. /\ EXTERNAL_PWM_init(t) \in Seq(Nat)
      /\ Len(EXTERNAL_PWM_init(t)) = length(1) + length(2) + length(3) + length(4)
    <2> DEFINE given(m) == IF m \in t.motors THEN Len(inits[m]) ELSE 0
    <2>1. /\ EXTERNAL_PWM_init(t) \in Seq(Nat)
          /\ Len(EXTERNAL_PWM_init(t)) = given(1) + given(2) + given(3) + given(4)
        <3> DEFINE Numbers == Nat
        <3>1. inits \in [Motors -> Seq(Numbers)]
            BY <1>2
        <3> HIDE DEF Numbers
        <3>2. /\ EXTERNAL_PWM_init(t) \in Seq(Numbers)
              /\ Len(EXTERNAL_PWM_init(t)) = given(1) + given(2) + given(3) + given(4)
            BY <1>4, <3>1, EnabledLength
        <3> QED
            BY <3>2 DEF Numbers
    <2>2. \A m \in 1 .. 4 : given(m) = length(m)
        BY <1>2
    <2> HIDE DEF given, length
    <2> QED
        BY <2>1, <2>2
<1>7. Len(EXTERNAL_PWM_command(t)) <= Len(EXTERNAL_PWM_init(t))
    BY <1>5, <1>6
<1> QED
    BY <1>5, <1>6, <1>7 DEF Shaped, Covers

LEMMA InitByteRow ==
    ASSUME NEW n \in Nat
    PROVE  LET row == [b \in 1 .. n |-> InitByte]
           IN row \in Seq(Nat) /\ Len(row) = n
BY DEF InitByte

(* Every type of task has one of the two shapes.                            *)
LEMMA TasksAreShaped ==
    ASSUME NEW t \in TaskRecords
    PROVE  Shaped(CommandBytes(t), InitBytes(t))
<1>1. t.type \in TaskTypes
    BY DEF TaskRecords
<1>2. CASE t.type = "DJI_MOTOR"
    <2>1. CommandBytes(t) = DJI_MOTOR_command(t) /\ InitBytes(t) = Zeros(12)
        BY <1>2 DEF CommandBytes, InitBytes, LKTypes, DMTypes, DJI_MOTOR_init
    <2>2. DJI_MOTOR_command(t) \in Seq(ByteSet) /\ Len(DJI_MOTOR_command(t)) <= 12
        BY FlaggedMotors DEF DJI_MOTOR_command
    <2> QED
        BY <2>1, <2>2, ZerosAreNumbers DEF Shaped, Covers
<1>3. CASE t.type = "DD_MOTOR"
    <2>1. CommandBytes(t) = DD_MOTOR_command(t) /\ InitBytes(t) = Zeros(12)
        BY <1>3 DEF CommandBytes, InitBytes, LKTypes, DMTypes, DD_MOTOR_init
    <2>2. DD_MOTOR_command(t) \in Seq(ByteSet) /\ Len(DD_MOTOR_command(t)) <= 12
        BY FlaggedMotors DEF DD_MOTOR_command
    <2> QED
        BY <2>1, <2>2, ZerosAreNumbers DEF Shaped, Covers
<1>4. CASE t.type \in LKTypes
    <2>1. CommandBytes(t) = LK_MOTOR_command(t) /\ InitBytes(t) = LK_MOTOR_init(t)
        BY <1>4 DEF CommandBytes, InitBytes, LKTypes, DMTypes
    <2>2. CASE t.type = "LK_BROADCAST"
        <3>1. LK_MOTOR_command(t) = InOrder([m \in Motors |-> Value(m, 2)])
            BY <2>2 DEF LK_MOTOR_command
        <3>2. LK_MOTOR_init(t) = Zeros(8)
            BY <2>2 DEF LK_MOTOR_init
        <3>3. LK_MOTOR_command(t) \in Seq(ByteSet) /\ Len(LK_MOTOR_command(t)) = 8
            BY <3>1, FourValues
        <3> QED
            BY <2>1, <3>2, <3>3, ZerosAreNumbers DEF Shaped, Covers
    <2>3. CASE t.type # "LK_BROADCAST"
        <3>1. \E width \in Nat : LK_MOTOR_command(t) = Enable(1) \o Value(1, width)
            <4>1. CASE t.type \in {"LK_OPENLOOP", "LK_TORQUE"}
                <5>1. LK_MOTOR_command(t) = Enable(1) \o Value(1, 2)
                    BY <4>1 DEF LK_MOTOR_command
                <5> QED
                    BY <5>1
            <4>2. CASE t.type \in {"LK_SPEED_WITH_TORQUE_LIMIT", "LK_MULTI_ROUND_WITH_SPEED_LIMIT"}
                <5>1. LK_MOTOR_command(t) = Enable(1) \o Value(1, 2 + 4)
                    BY <4>2 DEF LK_MOTOR_command
                <5> QED
                    BY <5>1
            <4>3. CASE t.type = "LK_MULTI_ROUND"
                <5>1. LK_MOTOR_command(t) = Enable(1) \o Value(1, 4)
                    BY <4>3 DEF LK_MOTOR_command
                <5> QED
                    BY <5>1
            <4>4. CASE t.type = "LK_SINGLE_ROUND"
                <5>1. LK_MOTOR_command(t) = Enable(1) \o Value(1, 1 + 4)
                    BY <4>4 DEF LK_MOTOR_command
                <5> QED
                    BY <5>1
            <4>5. CASE t.type = "LK_SINGLE_ROUND_WITH_SPEED_LIMIT"
                <5>1. LK_MOTOR_command(t) = Enable(1) \o Value(1, 1 + 2 + 4)
                    BY <4>5 DEF LK_MOTOR_command
                <5> QED
                    BY <5>1
            <4> QED
                BY <1>4, <2>3, <4>1, <4>2, <4>3, <4>4, <4>5 DEF LKTypes
        <3>2. LK_MOTOR_init(t) = Zeros(1)
            BY <2>3 DEF LK_MOTOR_init
        <3> QED
            BY <2>1, <3>1, <3>2, FlagAndValueShaped
    <2> QED
        BY <2>2, <2>3
<1>5. CASE t.type \in DMTypes
    <2>1. CommandBytes(t) = DM_MOTOR_command(t) /\ InitBytes(t) = Zeros(1)
        BY <1>5 DEF CommandBytes, InitBytes, LKTypes, DMTypes, DM_MOTOR_init
    <2>2. \E width \in Nat : DM_MOTOR_command(t) = Enable(1) \o Value(1, width)
        <3>1. CASE t.type = "DM_MIT"
            <4>1. DM_MOTOR_command(t) = Enable(1) \o Value(1, 8)
                BY <3>1 DEF DM_MOTOR_command
            <4> QED
                BY <4>1
        <3>2. CASE t.type = "DM_POSITION_WITH_SPEED_LIMIT"
            <4>1. DM_MOTOR_command(t) = Enable(1) \o Value(1, 4 + 4)
                BY <3>2 DEF DM_MOTOR_command
            <4> QED
                BY <4>1
        <3>3. CASE t.type = "DM_SPEED"
            <4>1. DM_MOTOR_command(t) = Enable(1) \o Value(1, 4)
                BY <3>3 DEF DM_MOTOR_command
            <4> QED
                BY <4>1
        <3> QED
            BY <1>5, <3>1, <3>2, <3>3 DEF DMTypes
    <2> QED
        BY <2>1, <2>2, FlagAndValueShaped
<1>6. CASE t.type = "SUPER_CAP"
    <2>1. CommandBytes(t) = Enable(1) \o Value(1, 3) /\ InitBytes(t) = Zeros(4)
        BY <1>6 DEF CommandBytes, InitBytes, LKTypes, DMTypes, SUPER_CAP_command, SUPER_CAP_init
    <2>2. CommandBytes(t) \in Seq(ByteSet) /\ Len(CommandBytes(t)) = 1 + 3
        BY <2>1, FlagThenValue
    <2> QED
        BY <2>1, <2>2, ZerosAreNumbers DEF Shaped, Covers
<1>7. CASE t.type \in {"DSHOT", "ONBOARD_PWM"}
    <2>1. /\ CommandBytes(t) = InOrder([m \in Motors |-> Value(m, 2)])
          /\ InitBytes(t) = [b \in 1 .. 8 |-> InitByte]
        BY <1>7 DEF CommandBytes, InitBytes, LKTypes, DMTypes, DSHOT_command, DSHOT_init,
                    ONBOARD_PWM_command, ONBOARD_PWM_init
    <2>2. CommandBytes(t) \in Seq(ByteSet) /\ Len(CommandBytes(t)) = 8
        BY <2>1, FourValues
    <2>3. InitBytes(t) \in Seq(Nat) /\ Len(InitBytes(t)) = 8
        BY <2>1, InitByteRow
    <2> QED
        BY <2>2, <2>3 DEF Shaped, Covers
<1>8. CASE t.type = "EXTERNAL_PWM"
    <2>1. CommandBytes(t) = EXTERNAL_PWM_command(t) /\ InitBytes(t) = EXTERNAL_PWM_init(t)
        BY <1>8 DEF CommandBytes, InitBytes, LKTypes, DMTypes
    <2> QED
        BY <2>1, EnabledValues
<1> QED
    BY <1>1, <1>2, <1>3, <1>4, <1>5, <1>6, <1>7, <1>8 DEF TaskTypes

-----------------------------------------------------------------------------
(* A task of a list, and its area.                                          *)
LEMMA TasksOfLists ==
    ASSUME NEW t \in AllTasks
    PROVE  /\ t \in TaskRecords /\ t.offset \in Nat
           /\ Layout[t] = CommandBytes(t) /\ Defaults[t] = InitBytes(t)
<1>1. t \in TaskRecords
    BY TaskListsAssumption DEF AllTasks
<1> QED
    BY <1>1 DEF TaskRecords, Layout, Defaults

LEMMA TasksStayInTheirArea ==
    ASSUME NEW t \in AllTasks
    PROVE  /\ Width(t) \in Nat
           /\ Layout[t] \in Seq(ByteSet) /\ DOMAIN Layout[t] \subseteq 1 .. Width(t)
           /\ DOMAIN Defaults[t] \subseteq 1 .. Width(t)
<1> DEFINE command == CommandBytes(t)
           init == InitBytes(t)
<1>1. Shaped(command, init) /\ Layout[t] = command /\ Defaults[t] = init
    BY TasksOfLists, TasksAreShaped
<1>2. Width(t) = IF Len(command) > Len(init) THEN Len(command) ELSE Len(init)
    BY DEF Width
<1> HIDE DEF command, init
<1>3. command \in Seq(ByteSet) /\ init \in Seq(Nat)
    BY <1>1 DEF Shaped
<1>4. /\ Len(command) \in Nat /\ DOMAIN command = 1 .. Len(command)
      /\ Len(init) \in Nat /\ DOMAIN init = 1 .. Len(init)
    BY <1>3
<1>5. Width(t) \in Nat /\ Len(command) <= Width(t) /\ Len(init) <= Width(t)
    BY <1>2, <1>4
<1>6. DOMAIN command \subseteq 1 .. Width(t) /\ DOMAIN init \subseteq 1 .. Width(t)
    BY <1>4, <1>5
<1> QED
    BY <1>1, <1>3, <1>5, <1>6

-----------------------------------------------------------------------------
(* What the firmware heeds.                                                 *)
LEMMA HeededSame ==
    ASSUME NEW t \in AllTasks, NEW left, NEW right,
           \A k \in DOMAIN Layout[t] : left[k] = right[k]
    PROVE  Heeded(t, left) = Heeded(t, right)
<1>1. Off(Layout[t], left) = Off(Layout[t], right)
    BY DEF Off
<1> QED
    BY <1>1 DEF Heeded

(* A cleared flag, and nothing but motor 1.                                 *)
LEMMA HeededNothing ==
    ASSUME NEW t \in AllTasks, NEW init, ClearsFlag(Layout[t], init), NEW cells, cells[1] = 0
    PROVE  Heeded(t, cells) = {}
<1> DEFINE bytes == Layout[t]
<1>1. bytes \in Seq(ByteSet) /\ ClearsFlag(bytes, init)
    BY TasksStayInTheirArea
<1> HIDE DEF bytes
<1>2. 1 \in DOMAIN bytes /\ bytes[1].role = "enable" /\ bytes[1].motor = 1
    BY <1>1 DEF ClearsFlag
<1>3. 1 \in Off(bytes, cells)
    BY <1>2 DEF Off
<1>4. {j \in DOMAIN bytes : bytes[j].motor \notin Off(bytes, cells)} = {}
    BY <1>1, <1>3 DEF ClearsFlag
<1> QED
    BY <1>4 DEF Heeded, bytes

(* The bytes of init_value() are enough to put a task to its default.       *)
LEMMA HeededDefault ==
    ASSUME NEW t \in AllTasks, NEW cells,
           \A k \in DOMAIN Defaults[t] : k \in DOMAIN Layout[t] => cells[k] = Defaults[t][k]
    PROVE  Heeded(t, cells) = OfDefault[t]
<1> DEFINE fresh == Write(Zeros(Width(t)), 0, Defaults[t])
<1>1. OfDefault[t] = Heeded(t, fresh)
    BY DEF OfDefault
<1>2. /\ Width(t) \in Nat
      /\ DOMAIN Layout[t] \subseteq 1 .. Width(t) /\ DOMAIN Defaults[t] \subseteq 1 .. Width(t)
    BY TasksStayInTheirArea
<1>3. DOMAIN Zeros(Width(t)) = 1 .. Width(t)
    BY <1>2, ZerosAreNumbers
<1>4. \A k \in DOMAIN Defaults[t] : fresh[k] = Defaults[t][k]
    BY <1>2, <1>3 DEF Write
<1> HIDE DEF fresh
<1>5. Shaped(Layout[t], Defaults[t])
    BY TasksOfLists, TasksAreShaped
<1>6. CASE Covers(Layout[t], Defaults[t])
    <2>1. DOMAIN Layout[t] \subseteq DOMAIN Defaults[t]
        BY <1>5, <1>6 DEF Covers, Shaped
    <2>2. \A k \in DOMAIN Layout[t] : cells[k] = fresh[k]
        BY <1>4, <2>1
    <2> QED
        BY <1>1, <2>2, HeededSame
<1>7. CASE ClearsFlag(Layout[t], Defaults[t])
    <2>1. 1 \in DOMAIN Layout[t] /\ 1 \in DOMAIN Defaults[t] /\ Defaults[t][1] = 0
        BY <1>5, <1>7 DEF ClearsFlag, Shaped
    <2>2. cells[1] = 0 /\ fresh[1] = 0
        BY <1>4, <2>1
    <2> QED
        BY <1>1, <1>7, <2>2, HeededNothing
<1> QED
    BY <1>5, <1>6, <1>7 DEF Shaped

-----------------------------------------------------------------------------
(* What a task obeys, in a buffer.                                          *)
LEMMA ObeyedSame ==
    ASSUME NEW t \in AllTasks, NEW left, NEW right,
           \A k \in DOMAIN Layout[t] : left[t.offset + k] = right[t.offset + k]
    PROVE  Obeyed(t, left) = Obeyed(t, right)
<1>1. Heeded(t, [k \in DOMAIN Layout[t] |-> left[t.offset + k]])
        = Heeded(t, [k \in DOMAIN Layout[t] |-> right[t.offset + k]])
    BY HeededSame
<1> DEFINE obeying(now) ==
               LET sent == {c \in Cmds : OfCommand[t][c] = now}
               IN IF now = OfDefault[t] THEN NoCommand
                  ELSE IF sent # {} THEN CHOOSE c \in sent : TRUE
                  ELSE Garbage
<1>2. /\ Obeyed(t, left) = obeying(Heeded(t, [k \in DOMAIN Layout[t] |-> left[t.offset + k]]))
      /\ Obeyed(t, right) = obeying(Heeded(t, [k \in DOMAIN Layout[t] |-> right[t.offset + k]]))
    BY Zenon DEF Obeyed
<1> HIDE DEF obeying
<1> QED
    BY <1>1, <1>2

LEMMA ObeyedDefault ==
    ASSUME NEW t \in AllTasks, NEW b,
           \A k \in DOMAIN Defaults[t] :
                k \in DOMAIN Layout[t] => b[t.offset + k] = Defaults[t][k]
    PROVE  Obeyed(t, b) = NoCommand
<1>1. Heeded(t, [k \in DOMAIN Layout[t] |-> b[t.offset + k]]) = OfDefault[t]
    BY HeededDefault
<1> QED
    BY <1>1 DEF Obeyed

LEMMA ObeyedCommand ==
    ASSUME NEW t \in AllTasks, NEW c \in Cmds, NEW b,
           \A k \in DOMAIN Layout[t] : b[t.offset + k] = Cell(Layout[t][k], c)
    PROVE  Obeyed(t, b) \in Cmds \cup {NoCommand}
<1> DEFINE now == Heeded(t, [k \in DOMAIN Layout[t] |-> b[t.offset + k]])
           sent == {d \in Cmds : OfCommand[t][d] = now}
<1>1. OfCommand[t][c] = Heeded(t, [k \in DOMAIN Layout[t] |-> Cell(Layout[t][k], c)])
    BY DEF OfCommand
<1>2. now = Heeded(t, [k \in DOMAIN Layout[t] |-> Cell(Layout[t][k], c)])
    BY HeededSame
<1>3. sent # {} /\ sent \subseteq Cmds
    BY <1>1, <1>2
<1>4. Obeyed(t, b) = IF now = OfDefault[t] THEN NoCommand
                     ELSE IF sent # {} THEN CHOOSE d \in sent : TRUE
                     ELSE Garbage
    BY DEF Obeyed
<1> HIDE DEF now, sent
<1> QED
    BY <1>3, <1>4

-----------------------------------------------------------------------------
(* The invariant: the buffers keep their length.                            *)
OutputsInv ==
    /\ tasks \in TaskLists
    /\ DOMAIN buf = 1 .. BufLen /\ DOMAIN backup = 1 .. BufLen
    /\ phase \in {"handshake", "working"} /\ firstTime \in BOOLEAN

LEMMA InitTasksLength ==
    ASSUME NEW b, NEW T
    PROVE  DOMAIN InitTasks(b, T) = DOMAIN b
BY DEF InitTasks

LEMMA OutputsInvInductive ==
    /\ Init => OutputsInv
    /\ OutputsInv /\ [Next]_vars => OutputsInv'
<1>1. BufLen \in Nat /\ DOMAIN Zeros(BufLen) = 1 .. BufLen
    BY TaskListsAssumption, ZerosAreNumbers
<1>2. Init => OutputsInv
    BY <1>1 DEF Init, OutputsInv
<1>3. ASSUME OutputsInv, [Next]_vars PROVE OutputsInv'
    <2> USE <1>1, <1>3 DEF OutputsInv
    <2>1. CASE SendArg
        BY <2>1 DEF SendArg, Write
    <2>2. ASSUME NEW i \in TasksAt, NEW c \in Cmds, OnCommand(i, c) PROVE OutputsInv'
        BY <2>2 DEF OnCommand, Write
    <2>3. CASE Activate
        BY <2>3, InitTasksLength DEF Activate, WriteInitValues
    <2>4. CASE LoseSlave
        BY <2>4, InitTasksLength DEF LoseSlave
    <2>5. CASE ExitReset
        BY <2>5, InitTasksLength DEF ExitReset, WriteInitValues
    <2>6. CASE UNCHANGED vars
        BY <2>6 DEF vars
    <2> QED
        BY <2>1, <2>2, <2>3, <2>4, <2>5, <2>6 DEF Next
<1> QED
    BY <1>2, <1>3

-----------------------------------------------------------------------------
(* Tasks of one list do not reach into each other's area.                   *)
LEMMA AreasApart ==
    ASSUME tasks \in TaskLists, NEW i \in TasksAt, NEW j \in TasksAt, i # j,
           NEW a \in Area(tasks[i])
    PROVE  /\ a - tasks[j].offset \notin DOMAIN Layout[tasks[j]]
           /\ a - tasks[j].offset \notin DOMAIN Defaults[tasks[j]]
<1> DEFINE own == tasks[i]
           other == tasks[j]
<1>1. own \in AllTasks /\ other \in AllTasks
    BY DEF AllTasks
<1>2. a \notin Area(other)
    BY LayoutAssumption
<1> HIDE DEF own, other
<1>3. /\ own.offset \in Nat /\ other.offset \in Nat
      /\ Width(own) \in Nat /\ Width(other) \in Nat
      /\ DOMAIN Layout[other] \subseteq 1 .. Width(other)
      /\ DOMAIN Defaults[other] \subseteq 1 .. Width(other)
    BY <1>1, TasksOfLists, TasksStayInTheirArea
<1>4. a \in Nat
    BY <1>3 DEF Area, own
<1>5. a - other.offset \notin 1 .. Width(other)
    BY <1>2, <1>3, <1>4 DEF Area
<1>6. /\ a - other.offset \notin DOMAIN Layout[other]
      /\ a - other.offset \notin DOMAIN Defaults[other]
    BY <1>3, <1>5
<1> QED
    BY <1>6 DEF other

(* What a task writes is in its area, which is inside the buffer.           *)
LEMMA AreaInBuffer ==
    ASSUME tasks \in TaskLists, NEW i \in TasksAt, NEW k \in DOMAIN Layout[tasks[i]],
           NEW a, a = tasks[i].offset + k
    PROVE  a \in Area(tasks[i]) /\ a \in 1 .. BufLen /\ a - tasks[i].offset = k
<1> DEFINE own == tasks[i]
<1>1. own \in AllTasks /\ Area(own) \subseteq 1 .. BufLen
    BY LayoutAssumption DEF AllTasks
<1> HIDE DEF own
<1>2. /\ own.offset \in Nat /\ Width(own) \in Nat
      /\ DOMAIN Layout[own] \subseteq 1 .. Width(own)
    BY <1>1, TasksOfLists, TasksStayInTheirArea
<1>3. k \in 1 .. Width(own) /\ a = own.offset + k
    BY <1>2 DEF own
<1>4. a \in Area(own) /\ a - own.offset = k
    BY <1>2, <1>3 DEF Area
<1> QED
    BY <1>1, <1>4 DEF own

(* init_value() of some tasks puts these to their default and leaves the    *)
(* others what they had.                                                    *)
LEMMA InitTasksResets ==
    ASSUME tasks \in TaskLists, NEW b, DOMAIN b = 1 .. BufLen, NEW T \in SUBSET TasksAt,
           NEW i \in TasksAt
    PROVE  Obeyed(tasks[i], InitTasks(b, T)) =
               IF i \in T THEN NoCommand ELSE Obeyed(tasks[i], b)
<1> DEFINE after == InitTasks(b, T)
           offset(j) == tasks[j].offset
           writers(a) == {j \in T : a - offset(j) \in DOMAIN Defaults[tasks[j]]}
           last(a) == CHOOSE j \in writers(a) : \A l \in writers(a) : l <= j
<1>1. tasks[i] \in AllTasks
    BY DEF AllTasks
<1>2. \A a \in 1 .. BufLen :
          after[a] = IF writers(a) = {} THEN b[a]
                     ELSE Defaults[tasks[last(a)]][a - offset(last(a))]
    BY Zenon DEF InitTasks
<1> HIDE DEF after
<1>3. ASSUME NEW k \in DOMAIN Layout[tasks[i]], NEW a, a = offset(i) + k
      PROVE  a \in 1 .. BufLen /\ a - offset(i) = k /\ writers(a) \subseteq {i}
    <2>1. a \in Area(tasks[i]) /\ a \in 1 .. BufLen /\ a - offset(i) = k
        BY <1>3, AreaInBuffer
    <2>2. ASSUME NEW j \in writers(a), j # i PROVE FALSE
        <3>1. j \in TasksAt /\ a - offset(j) \in DOMAIN Defaults[tasks[j]]
            OBVIOUS
        <3> QED
            BY <2>1, <2>2, <3>1, AreasApart
    <2> QED
        BY <2>1, <2>2
<1>4. CASE i \notin T
    <2>1. ASSUME NEW k \in DOMAIN Layout[tasks[i]] PROVE after[offset(i) + k] = b[offset(i) + k]
        <3> DEFINE a == offset(i) + k
        <3>1. a \in 1 .. BufLen /\ writers(a) \subseteq {i}
            BY <1>3
        <3>2. writers(a) = {}
            BY <1>4, <3>1
        <3> HIDE DEF writers, last, a
        <3>3. after[a] = b[a]
            BY <1>2, <3>1, <3>2
        <3> QED
            BY <3>3 DEF a
    <2> QED
        BY <1>1, <1>4, <2>1, ObeyedSame DEF after
<1>5. CASE i \in T
    <2>1. ASSUME NEW k \in DOMAIN Layout[tasks[i]], k \in DOMAIN Defaults[tasks[i]]
          PROVE  after[offset(i) + k] = Defaults[tasks[i]][k]
        <3> DEFINE a == offset(i) + k
        <3>1. a \in 1 .. BufLen /\ a - offset(i) = k /\ writers(a) \subseteq {i}
            BY <1>3
        <3> HIDE DEF a
        <3>2. writers(a) = {i}
            BY <1>5, <2>1, <3>1
        <3>3. i <= i
            BY TaskListsAssumption DEF TasksAt
        <3>4. last(a) = i
            BY <3>2, <3>3
        <3> HIDE DEF writers, last
        <3>5. after[a] = Defaults[tasks[i]][a - offset(i)]
            BY <1>2, <3>1, <3>2, <3>4
        <3> QED
            BY <3>1, <3>5 DEF a
    <2> QED
        BY <1>1, <1>5, <2>1, ObeyedDefault DEF after
<1> QED
    BY <1>4, <1>5 DEF after

(* A command of one task is obeyed by it, and the others obey what they did.*)
LEMMA CommandReachesItsTask ==
    ASSUME OutputsInv, NEW i \in TasksAt, NEW c \in Cmds, OnCommand(i, c), NEW j \in TasksAt
    PROVE  IF j = i THEN Obeyed(tasks[j], buf') \in Cmds \cup {NoCommand}
                    ELSE Obeyed(tasks[j], buf') = Obeyed(tasks[j], buf)
<1> DEFINE offset(n) == tasks[n].offset
           bytes == Layout[tasks[i]]
           after == buf'
<1>1. tasks \in TaskLists /\ DOMAIN buf = 1 .. BufLen /\ tasks[j] \in AllTasks
    BY DEF OutputsInv, AllTasks
<1>2. \A a \in 1 .. BufLen :
          after[a] = IF a - offset(i) \in DOMAIN bytes THEN Cell(bytes[a - offset(i)], c)
                     ELSE buf[a]
    BY <1>1 DEF OnCommand, Write
<1> HIDE DEF after
<1>3. CASE j = i
    <2>1. ASSUME NEW k \in DOMAIN bytes PROVE after[offset(i) + k] = Cell(bytes[k], c)
        <3> DEFINE a == offset(i) + k
        <3>1. a \in 1 .. BufLen /\ a - offset(i) = k
            BY <1>1, AreaInBuffer
        <3> HIDE DEF a
        <3>2. after[a] = Cell(bytes[k], c)
            BY <1>2, <3>1
        <3> QED
            BY <3>2 DEF a
    <2> QED
        BY <1>1, <1>3, <2>1, ObeyedCommand DEF after
<1>4. CASE j # i
    <2>1. ASSUME NEW k \in DOMAIN Layout[tasks[j]] PROVE after[offset(j) + k] = buf[offset(j) + k]
        <3> DEFINE a == offset(j) + k
        <3>1. a \in Area(tasks[j]) /\ a \in 1 .. BufLen
            BY <1>1, AreaInBuffer
        <3> HIDE DEF a
        <3>2. a - offset(i) \notin DOMAIN bytes
            BY <1>1, <1>4, <3>1, AreasApart
        <3>3. after[a] = buf[a]
            BY <1>2, <3>1, <3>2
        <3> QED
            BY <3>3 DEF a
    <2> QED
        BY <1>1, <1>4, <2>1, ObeyedSame DEF after
<1> QED
    BY <1>3, <1>4

-----------------------------------------------------------------------------
(* The refinement.                                                          *)
LEMMA OutputsRefineInit == Init => TC!Init
<1> SUFFICES ASSUME Init PROVE TC!Init
    OBVIOUS
<1>1. OutputsInv
    BY OutputsInvInductive
<1>2. Effective = InitTasks(Zeros(BufLen), TasksAt)
    BY DEF Init, Effective
<1>3. DOMAIN Zeros(BufLen) = 1 .. BufLen
    BY TaskListsAssumption, ZerosAreNumbers
<1>4. ASSUME NEW i \in TasksAt PROVE Obeyed(tasks[i], Effective) = NoCommand
    BY <1>1, <1>2, <1>3, InitTasksResets DEF OutputsInv
<1> QED
    BY <1>4 DEF TC!Init

LEMMA OutputsRefineNext ==
    ASSUME OutputsInv, [Next]_vars
    PROVE  [TC!Next]_<<[i \in TasksAt |-> Obeyed(tasks[i], Effective)],
                       {i \in TasksAt : tasks[i].reset}>>
<1> DEFINE obeys == [i \in TasksAt |-> Obeyed(tasks[i], Effective)]
           resets == {i \in TasksAt : tasks[i].reset}
<1>1. /\ tasks \in TaskLists /\ DOMAIN buf = 1 .. BufLen
      /\ phase \in {"handshake", "working"} /\ firstTime \in BOOLEAN
    BY DEF OutputsInv
<1>2. tasks' = tasks
    BY DEF Next, vars, SendArg, Activate, LoseSlave, ExitReset, OnCommand
<1>3. resets' = resets
    BY <1>2
<1>4. DOMAIN Zeros(BufLen) = 1 .. BufLen
    BY TaskListsAssumption, ZerosAreNumbers
<1>5. ASSUME Effective' = Effective PROVE obeys' = obeys /\ resets' = resets
    BY <1>2, <1>5
<1>6. CASE SendArg
    <2>1. Effective' = Effective
        BY <1>6 DEF SendArg, Effective, InitTasks
    <2> QED
        BY <1>5, <2>1
<1>7. CASE Activate
    <2>1. Effective' = Effective
        BY <1>7 DEF Activate, WriteInitValues, Effective
    <2> QED
        BY <1>5, <2>1
<1>8. ASSUME NEW i \in TasksAt, NEW c \in Cmds, OnCommand(i, c)
      PROVE  TC!Command(i) \/ (obeys' = obeys /\ resets' = resets)
    <2>1. CASE phase = "handshake"
        <3>1. Effective' = Effective
            BY <1>8, <2>1 DEF OnCommand, Effective, InitTasks
        <3> QED
            BY <1>5, <3>1
    <2>2. CASE phase = "working"
        <3>1. Effective = buf /\ Effective' = buf'
            BY <1>8, <2>2 DEF OnCommand, Effective
        <3>2. PICK d \in Cmds \cup {NoCommand} : Obeyed(tasks[i], buf') = d
            BY <1>8, CommandReachesItsTask
        <3>3. ASSUME NEW j \in TasksAt
              PROVE  Obeyed(tasks[j], buf') = IF j = i THEN d ELSE Obeyed(tasks[j], buf)
            BY <1>8, <3>2, CommandReachesItsTask
        <3>4. obeys' = [obeys EXCEPT ![i] = d]
            BY <1>2, <3>1, <3>3
        <3> QED
            BY <1>3, <3>2, <3>4 DEF TC!Command
    <2> QED
        BY <1>1, <2>1, <2>2
<1>9. ASSUME NEW b, DOMAIN b = 1 .. BufLen, NEW T \in SUBSET TasksAt,
             Effective' = InitTasks(b, T), T # TasksAt => Effective = b
      PROVE  TC!ResetTasks(T)
    <2>1. ASSUME NEW i \in TasksAt
          PROVE  Obeyed(tasks[i], Effective') =
                     IF i \in T THEN NoCommand ELSE Obeyed(tasks[i], Effective)
        BY <1>1, <1>9, InitTasksResets
    <2>2. obeys' = [i \in TasksAt |-> IF i \in T THEN NoCommand ELSE obeys[i]]
        BY <1>2, <2>1
    <2> QED
        BY <1>3, <2>2 DEF TC!ResetTasks
<1>10. CASE LoseSlave
    <2>1. Effective = buf /\ Effective' = InitTasks(buf, resets)
        BY <1>10 DEF LoseSlave, Effective
    <2>2. resets \in SUBSET TasksAt
        OBVIOUS
    <2>3. TC!ResetTasks(resets)
        BY <1>1, <1>9, <2>1, <2>2
    <2> QED
        BY <2>3 DEF TC!Next
<1>11. CASE ExitReset
    <2>1. Effective' = InitTasks(Zeros(BufLen), TasksAt)
        BY <1>11 DEF ExitReset, WriteInitValues, Effective, InitTasks
    <2>2. TC!ResetTasks(TasksAt)
        BY <1>4, <1>9, <2>1
    <2> QED
        BY <2>2 DEF TC!Next
<1>12. CASE UNCHANGED vars
    <2>1. Effective' = Effective
        BY <1>12 DEF vars, Effective, InitTasks
    <2> QED
        BY <1>5, <2>1
<1> QED
    BY <1>6, <1>7, <1>8, <1>10, <1>11, <1>12 DEF Next, TC!Next

(* A task obeys the commands meant for it and no other, arguments never     *)
(* become commands, a loss resets the tasks that ask for it with every      *)
(* motor and keeps the others what they had (on_command, init_value,        *)
(* send_arg, on_connection_lost): for every type and number of tasks.       *)
THEOREM OutputsKeepTasksApart == Spec => TasksKeepApart
<1>1. Spec => []OutputsInv
    <2>1. Init => OutputsInv
        BY OutputsInvInductive
    <2>2. OutputsInv /\ [Next]_vars => OutputsInv'
        BY OutputsInvInductive
    <2> QED
        BY <2>1, <2>2, PTL DEF Spec
<1>2. Init => TC!Init
    BY OutputsRefineInit
<1>3. OutputsInv /\ [Next]_vars
        => [TC!Next]_<<[i \in TasksAt |-> Obeyed(tasks[i], Effective)],
                       {i \in TasksAt : tasks[i].reset}>>
    BY OutputsRefineNext
<1> QED
    BY <1>1, <1>2, <1>3, PTL DEF Spec, TasksKeepApart, TC!Spec
================================================================================
