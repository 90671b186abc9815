--------------------------- MODULE TaskConfig_proofs ---------------------------
(***************************************************************************)
(* The argument buffer of a slave: for every configuration document, its    *)
(* bytes are in the order in which the slave takes them apart, nothing is   *)
(* written behind the end of a buffer that is long enough, and nothing that *)
(* the tasks of a configured slave need is left out.  At the end, the map   *)
(* of settings they are taken from: it holds what the document says.        *)
(***************************************************************************)
EXTENDS TaskConfig, FunctionTheorems, FiniteSetTheorems, SequenceTheorems, WellFoundedInduction,
        TLAPS

-----------------------------------------------------------------------------
(* Keys are sequences of names.  (Words are strings; the provers do not     *)
(* know that a string literal is one.)                                      *)
Words ==
    {"sdowrite", "conf", "task_count", "task_type", "connection_lost_write_action",
     "connection_lost_read_action", "pdoread_offset", "pdowrite_offset", "pub_topic", "sub_topic",
     "control_period", "control_type", "can_baudrate", "can_packet_id", "can_id", "master_id",
     "can_inst", "speed_pid_kp", "speed_pid_ki", "speed_pid_kd", "speed_pid_max_out",
     "speed_pid_max_iout", "angle_pid_kp", "angle_pid_ki", "angle_pid_kd", "angle_pid_max_out",
     "angle_pid_max_iout", "pmax", "vmax", "tmax", "frame_name", "chassis_to_cap_id",
     "cap_to_chassis_id", "dshot_id", "port_id", "uart_id", "pwm_period", "channel_num",
     "init_value", "packet1_id", "packet2_id", "packet3_id", "i2c_id", "osr_id"}
Names == STRING \cup Words

LEMMA TheNames ==
    /\ Slave \in Names /\ App \in [Tasks -> Names] /\ Motor \in [Motors -> Names]
    /\ "sdowrite" \in Names /\ "task_type" \in Names
<1>1. Slave \in Names /\ App \in [Tasks -> Names] /\ Motor \in [Motors -> Names]
    BY NamesAssumption DEF Names
<1>2. "sdowrite" \in Names
    BY DEF Names, Words
<1>3. "task_type" \in Names
    BY DEF Names, Words
<1> QED
    BY <1>1, <1>2, <1>3

LEMMA Pair ==
    ASSUME NEW S, NEW a \in S, NEW b \in S
    PROVE  /\ << a, b >> \in Seq(S) /\ Len(<< a, b >>) = 2
           /\ << a, b >>[1] = a /\ << a, b >>[2] = b
OBVIOUS

LEMMA Triple ==
    ASSUME NEW S, NEW a \in S, NEW b \in S, NEW c \in S
    PROVE  /\ << a, b, c >> \in Seq(S) /\ Len(<< a, b, c >>) = 3
           /\ << a, b, c >>[1] = a /\ << a, b, c >>[2] = b /\ << a, b, c >>[3] = c
OBVIOUS

LEMMA Joined ==
    ASSUME NEW S, NEW left \in Seq(S), NEW right \in Seq(S), NEW n \in Nat, n = Len(left)
    PROVE  /\ left \o right \in Seq(S) /\ Len(left \o right) = n + Len(right)
           /\ Len(right) \in Nat
           /\ \A k \in 1 .. n : (left \o right)[k] = left[k]
           /\ \A k \in 1 .. Len(right) : (left \o right)[n + k] = right[k]
OBVIOUS

LEMMA SdoField ==
    ASSUME NEW n \in Names
    PROVE  /\ Sdo(n) \in Seq(Names) /\ Len(Sdo(n)) = 2
           /\ Sdo(n)[1] = "sdowrite" /\ Sdo(n)[2] = n
BY TheNames, Pair DEF Sdo

LEMMA MotorField ==
    ASSUME NEW m \in Motors, NEW n \in Names
    PROVE  /\ OfMotor(m, n) \in Seq(Names) /\ Len(OfMotor(m, n)) = 3
           /\ OfMotor(m, n)[1] = "sdowrite" /\ OfMotor(m, n)[2] = Motor[m]
           /\ OfMotor(m, n)[3] = n
<1>1. Motor[m] \in Names
    BY TheNames
<1> QED
    BY <1>1, TheNames, Triple DEF OfMotor

LEMMA MotorFieldsDiffer ==
    ASSUME NEW m \in Motors, NEW n \in Motors, NEW a \in Names, NEW b \in Names,
           OfMotor(m, a) = OfMotor(n, b)
    PROVE  m = n /\ a = b
<1>1. Motor[m] = Motor[n] /\ a = b
    BY MotorField
<1> QED
    BY <1>1, NamesAssumption

LEMMA TaskKey ==
    ASSUME NEW i \in Tasks, NEW f \in Seq(Names)
    PROVE  /\ OfTask(i, f) \in Seq(Names) /\ Len(OfTask(i, f)) = 2 + Len(f)
           /\ OfTask(i, f)[1] = Slave /\ OfTask(i, f)[2] = App[i]
           /\ \A k \in 1 .. Len(f) : OfTask(i, f)[k + 2] = f[k]
<1> DEFINE head == << Slave, App[i] >>
<1>1. App[i] \in Names /\ Slave \in Names
    BY TheNames
<1>2. head \in Seq(Names) /\ Len(head) = 2 /\ head[1] = Slave /\ head[2] = App[i]
    BY <1>1, Pair
<1> HIDE DEF head
<1>3. OfTask(i, f) = head \o f
    BY DEF OfTask, head
<1>4. /\ head \o f \in Seq(Names) /\ Len(head \o f) = 2 + Len(f)
      /\ \A k \in 1 .. 2 : (head \o f)[k] = head[k]
      /\ \A k \in 1 .. Len(f) : (head \o f)[2 + k] = f[k]
    <2> DEFINE n == Len(head)
    <2>1. n = 2
        BY <1>2
    <2>2. head \in Seq(Names) /\ n \in Nat /\ n = Len(head)
        BY <1>2
    <2> HIDE DEF n
    <2>3. /\ head \o f \in Seq(Names) /\ Len(head \o f) = n + Len(f)
          /\ \A k \in 1 .. n : (head \o f)[k] = head[k]
          /\ \A k \in 1 .. Len(f) : (head \o f)[n + k] = f[k]
        BY <2>2, Joined
    <2> QED
        BY <2>1, <2>3
<1>5. (head \o f)[1] = head[1] /\ (head \o f)[2] = head[2]
    BY <1>2, <1>4
<1>6. \A k \in 1 .. Len(f) : (head \o f)[k + 2] = f[k]
    <2>1. Len(f) \in Nat
        OBVIOUS
    <2>2. \A k \in 1 .. Len(f) : k + 2 = 2 + k
        BY <2>1
    <2> QED
        BY <1>4, <2>2
<1> QED
    BY <1>2, <1>3, <1>4, <1>5, <1>6

LEMMA TaskKeysDiffer ==
    ASSUME NEW i \in Tasks, NEW j \in Tasks, NEW f \in Seq(Names), NEW g \in Seq(Names),
           OfTask(i, f) = OfTask(j, g)
    PROVE  i = j /\ f = g
<1>1. App[i] = App[j] /\ 2 + Len(f) = 2 + Len(g)
    <2>1. OfTask(i, f)[2] = App[i] /\ Len(OfTask(i, f)) = 2 + Len(f)
        BY TaskKey
    <2>2. OfTask(j, g)[2] = App[j] /\ Len(OfTask(j, g)) = 2 + Len(g)
        BY TaskKey
    <2> QED
        BY <2>1, <2>2
<1>2. i = j /\ Len(f) = Len(g)
    BY <1>1, NamesAssumption
<1>3. ASSUME NEW k \in 1 .. Len(f)
      PROVE  f[k] = g[k]
    <2>1. OfTask(i, f)[k + 2] = f[k]
        BY TaskKey
    <2>2. OfTask(j, g)[k + 2] = g[k]
        BY <1>2, TaskKey
    <2> QED
        BY <2>1, <2>2
<1> QED
    BY <1>2, <1>3

LEMMA AppOfKey ==
    ASSUME NEW byte, NEW i \in Tasks, NEW f \in Seq(Names), byte.of = OfTask(i, f)
    PROVE  AppOf(byte) = i
<1>1. byte.of[2] = App[i]
    BY TaskKey
<1>2. \A j \in Tasks : byte.of[2] = App[j] => j = i
    BY <1>1, NamesAssumption
<1> QED
    BY <1>1, <1>2 DEF AppOf

-----------------------------------------------------------------------------
(* What the operations of an init_sdo() may be.  Listed: every element once. *)
(* Proper: the fields appended are in F, each is appended once, and each     *)
(* time the copy is still to come.                                          *)
Operations ==
    [op : {"append", "copy", "need", "default"}, field : Seq(Names), type : Types \cup {"any"}]
Listed(s, F) == s \in Seq(F) /\ \A k, l \in DOMAIN s : s[k] = s[l] => k = l
Appends(s, k) == s[k].op = "append"
Proper(s, F) ==
    /\ s \in Seq(Operations)
    /\ \A k \in DOMAIN s :
          Appends(s, k) => s[k].field \in F /\ \E l \in DOMAIN s : k < l /\ s[l].op = "copy"
    /\ \A k, l \in DOMAIN s : Appends(s, k) /\ Appends(s, l) /\ s[k].field = s[l].field => k = l

LEMMA TaskNumbers == \A i \in Tasks : i \in Nat /\ i \in 1 .. i
BY DEF Tasks

LEMMA Positions ==
    ASSUME NEW n \in Nat, NEW m \in Nat, NEW k \in 1 .. n + m
    PROVE  k \in 1 .. n \/ (k - n \in 1 .. m /\ k = n + (k - n))
OBVIOUS

LEMMA ListedJoined ==
    ASSUME NEW F, NEW G, NEW s, NEW t, Listed(s, F), Listed(t, G), F \cap G = {}
    PROVE  Listed(s \o t, F \cup G)
<1> DEFINE w == s \o t
           n == Len(s)
           m == Len(t)
           H == F \cup G
<1>1. s \in Seq(F) /\ t \in Seq(G)
    BY DEF Listed
<1>2. n \in Nat /\ m \in Nat /\ n = Len(s) /\ m = Len(t)
    BY <1>1
<1>3. s \in Seq(H) /\ t \in Seq(H)
    BY <1>1
<1>4. (\A k \in 1 .. n : s[k] \in F) /\ (\A k \in 1 .. m : t[k] \in G)
    BY <1>1
<1>5. /\ \A k, l \in 1 .. n : s[k] = s[l] => k = l
      /\ \A k, l \in 1 .. m : t[k] = t[l] => k = l
    BY <1>1 DEF Listed
<1> HIDE DEF w, n, m, H
<1>6. /\ w \in Seq(H) /\ Len(w) = n + m
      /\ \A k \in 1 .. n : w[k] = s[k]
      /\ \A k \in 1 .. m : w[n + k] = t[k]
    BY <1>2, <1>3, Joined DEF w
<1>7. ASSUME NEW k \in DOMAIN w, NEW l \in DOMAIN w, w[k] = w[l]
      PROVE  k = l
    <2>1. k \in 1 .. n + m /\ l \in 1 .. n + m
        BY <1>2, <1>6
    <2>2. CASE k \in 1 .. n /\ l \in 1 .. n
        BY <2>2, <1>5, <1>6, <1>7
    <2>3. CASE k - n \in 1 .. m /\ l - n \in 1 .. m
        <3>1. w[n + (k - n)] = t[k - n] /\ w[n + (l - n)] = t[l - n]
            BY <2>3, <1>6
        <3>2. n + (k - n) = k /\ n + (l - n) = l
            BY <2>1, <1>2
        <3>3. k - n = l - n
            BY <2>3, <3>1, <3>2, <1>5, <1>7
        <3> QED
            BY <3>2, <3>3
    <2>4. CASE k \in 1 .. n /\ l - n \in 1 .. m
        <3>1. w[k] \in F
            BY <2>4, <1>4, <1>6
        <3>2. w[n + (l - n)] \in G
            BY <2>4, <1>4, <1>6
        <3>3. n + (l - n) = l
            BY <2>1, <1>2
        <3> QED
            BY <3>1, <3>2, <3>3, <1>7
    <2>5. CASE k - n \in 1 .. m /\ l \in 1 .. n
        <3>1. w[l] \in F
            BY <2>5, <1>4, <1>6
        <3>2. w[n + (k - n)] \in G
            BY <2>5, <1>4, <1>6
        <3>3. n + (k - n) = k
            BY <2>1, <1>2
        <3> QED
            BY <3>1, <3>2, <3>3, <1>7
    <2> QED
        BY <2>1, <2>2, <2>3, <2>4, <2>5, <1>2, Positions
<1> QED
    BY <1>6, <1>7 DEF Listed, w, H

LEMMA ListedMapped ==
    ASSUME NEW W, NEW names, Listed(names, W), W \subseteq Words
    PROVE  /\ Listed([k \in DOMAIN names |-> Sdo(names[k])], {Sdo(n) : n \in W})
           /\ \A m \in Motors :
                Listed([k \in DOMAIN names |-> OfMotor(m, names[k])], {OfMotor(m, n) : n \in W})
<1>1. names \in Seq(W) /\ \A k, l \in DOMAIN names : names[k] = names[l] => k = l
    BY DEF Listed
<1> DEFINE n == Len(names)
<1>2. n \in Nat /\ DOMAIN names = 1 .. n /\ \A k \in 1 .. n : names[k] \in W /\ names[k] \in Names
    BY <1>1 DEF Names
<1> HIDE DEF n
<1>3. Listed([k \in DOMAIN names |-> Sdo(names[k])], {Sdo(x) : x \in W})
    <2> DEFINE s == [k \in 1 .. n |-> Sdo(names[k])]
               F == {Sdo(x) : x \in W}
    <2>1. \A k \in 1 .. n : s[k] \in F /\ s[k] = Sdo(names[k]) /\ Sdo(names[k])[2] = names[k]
        BY <1>2, SdoField
    <2>2. s \in [1 .. n -> F]
        BY <2>1
    <2> HIDE DEF F
    <2>3. s \in Seq(F) /\ DOMAIN s = 1 .. n
        BY <2>2, <1>2
    <2> HIDE DEF s
    <2>4. \A k, l \in 1 .. n : s[k] = s[l] => k = l
        BY <2>1, <1>1, <1>2
    <2>5. Listed(s, F)
        BY <2>3, <2>4 DEF Listed
    <2> QED
        BY <2>5, <1>2 DEF s, F
<1>4. ASSUME NEW m \in Motors
      PROVE  Listed([k \in DOMAIN names |-> OfMotor(m, names[k])], {OfMotor(m, x) : x \in W})
    <2> DEFINE s == [k \in 1 .. n |-> OfMotor(m, names[k])]
               F == {OfMotor(m, x) : x \in W}
    <2>1. \A k \in 1 .. n : /\ s[k] \in F /\ s[k] = OfMotor(m, names[k])
                            /\ OfMotor(m, names[k])[3] = names[k]
        BY <1>2, MotorField
    <2>2. s \in [1 .. n -> F]
        BY <2>1
    <2> HIDE DEF F
    <2>3. s \in Seq(F) /\ DOMAIN s = 1 .. n
        BY <2>2, <1>2
    <2> HIDE DEF s
    <2>4. \A k, l \in 1 .. n : s[k] = s[l] => k = l
        BY <2>1, <1>1, <1>2
    <2>5. Listed(s, F)
        BY <2>3, <2>4 DEF Listed
    <2> QED
        BY <2>5, <1>2 DEF s, F
<1> QED
    BY <1>3, <1>4

LEMMA ProperWider ==
    ASSUME NEW F, NEW G, NEW s, Proper(s, F), F \subseteq G
    PROVE  Proper(s, G)
BY DEF Proper

LEMMA ProperJoined ==
    ASSUME NEW F, NEW G, NEW s, NEW t, Proper(s, F), Proper(t, G), F \cap G = {}
    PROVE  Proper(s \o t, F \cup G)
<1> DEFINE w == s \o t
           n == Len(s)
           m == Len(t)
<1>1. s \in Seq(Operations) /\ t \in Seq(Operations)
    BY DEF Proper
<1>2. n \in Nat /\ m \in Nat /\ n = Len(s) /\ m = Len(t)
    BY <1>1
<1>3. DOMAIN s = 1 .. n /\ DOMAIN t = 1 .. m
    BY <1>1
<1> HIDE DEF w, n, m
<1>4. /\ w \in Seq(Operations) /\ Len(w) = n + m
      /\ \A k \in 1 .. n : w[k] = s[k]
      /\ \A k \in 1 .. m : w[n + k] = t[k]
    BY <1>1, <1>2, Joined DEF w
<1>5. DOMAIN w = 1 .. n + m
    BY <1>4
<1>6. ASSUME NEW k \in 1 .. n, Appends(w, k)
      PROVE  w[k].field \in F /\ \E l \in DOMAIN w : k < l /\ w[l].op = "copy"
    <2>1. Appends(s, k) /\ w[k] = s[k]
        BY <1>4, <1>6 DEF Appends
    <2>2. s[k].field \in F
        BY <2>1, <1>3 DEF Proper
    <2>3. PICK l \in 1 .. n : k < l /\ s[l].op = "copy"
        BY <2>1, <1>3 DEF Proper
    <2>4. l \in DOMAIN w /\ w[l].op = "copy"
        BY <2>3, <1>2, <1>4, <1>5
    <2> QED
        BY <2>1, <2>2, <2>3, <2>4
<1>7. ASSUME NEW k \in 1 .. m, Appends(w, n + k)
      PROVE  w[n + k].field \in G /\ \E l \in DOMAIN w : n + k < l /\ w[l].op = "copy"
    <2>1. Appends(t, k) /\ w[n + k] = t[k]
        BY <1>4, <1>7 DEF Appends
    <2>2. t[k].field \in G
        BY <2>1, <1>3 DEF Proper
    <2>3. PICK l \in 1 .. m : k < l /\ t[l].op = "copy"
        BY <2>1, <1>3 DEF Proper
    <2>4. n + l \in DOMAIN w /\ n + k < n + l
        BY <2>3, <1>2, <1>5
    <2>5. w[n + l].op = "copy"
        BY <2>3, <1>4
    <2> QED
        BY <2>1, <2>2, <2>4, <2>5
<1>8. ASSUME NEW k \in DOMAIN w, Appends(w, k)
      PROVE  w[k].field \in F \cup G /\ \E l \in DOMAIN w : k < l /\ w[l].op = "copy"
    <2>1. CASE k \in 1 .. n
        BY <2>1, <1>6, <1>8
    <2>2. CASE k - n \in 1 .. m /\ k = n + (k - n)
        BY <2>2, <1>7, <1>8
    <2> QED
        BY <2>1, <2>2, <1>2, <1>5, Positions
<1>9. ASSUME NEW k \in DOMAIN w, NEW l \in DOMAIN w,
             Appends(w, k), Appends(w, l), w[k].field = w[l].field
      PROVE  k = l
    <2>1. CASE k \in 1 .. n /\ l \in 1 .. n
        <3>1. Appends(s, k) /\ Appends(s, l) /\ s[k].field = s[l].field
            BY <2>1, <1>4, <1>9 DEF Appends
        <3> QED
            BY <3>1, <2>1, <1>3 DEF Proper
    <2>2. CASE k - n \in 1 .. m /\ k = n + (k - n) /\ l - n \in 1 .. m /\ l = n + (l - n)
        <3>1. w[k] = t[k - n] /\ w[l] = t[l - n]
            BY <2>2, <1>4
        <3>2. Appends(t, k - n) /\ Appends(t, l - n) /\ t[k - n].field = t[l - n].field
            BY <3>1, <1>9 DEF Appends
        <3>3. k - n = l - n
            BY <3>2, <2>2, <1>3 DEF Proper
        <3> QED
            BY <3>3, <2>2
    <2>3. CASE k \in 1 .. n /\ l - n \in 1 .. m /\ l = n + (l - n)
        BY <2>3, <1>6, <1>7, <1>9
    <2>4. CASE k - n \in 1 .. m /\ k = n + (k - n) /\ l \in 1 .. n
        BY <2>4, <1>6, <1>7, <1>9
    <2>5. /\ k \in 1 .. n \/ (k - n \in 1 .. m /\ k = n + (k - n))
          /\ l \in 1 .. n \/ (l - n \in 1 .. m /\ l = n + (l - n))
        BY <1>2, <1>5, Positions
    <2> QED
        BY <2>1, <2>2, <2>3, <2>4, <2>5
<1>10. Proper(w, F \cup G)
    BY <1>4, <1>8, <1>9 DEF Proper
<1> QED
    BY <1>10 DEF w

(* Two pieces that append nothing in common.                                *)
LEMMA ProperBoth ==
    ASSUME NEW F, NEW G, NEW s, NEW t, NEW H, Proper(s, F), Proper(t, G), F \cap G = {},
           F \cup G \subseteq H
    PROVE  Proper(s \o t, H)
BY ProperJoined, ProperWider

LEMMA ProperAppends ==
    ASSUME NEW F, NEW flds, Listed(flds, F), F \subseteq Seq(Names)
    PROVE  Proper(BuildBuf(flds), F)
<1> DEFINE n == Len(flds)
           s == [k \in DOMAIN flds |-> Operation("append", flds[k], "any")]
           last == << Operation("copy", << >>, "any") >>
           w == s \o last
<1>1. flds \in Seq(F) /\ \A k, l \in DOMAIN flds : flds[k] = flds[l] => k = l
    BY DEF Listed
<1>2. n \in Nat /\ DOMAIN flds = 1 .. n /\ \A k \in 1 .. n : flds[k] \in F /\ flds[k] \in Seq(Names)
    BY <1>1
<1> HIDE DEF n
<1>3. \A k \in 1 .. n : /\ Operation("append", flds[k], "any") \in Operations
                        /\ Operation("append", flds[k], "any").op = "append"
                        /\ Operation("append", flds[k], "any").field = flds[k]
    BY <1>2 DEF Operation, Operations
<1>4. s \in [1 .. n -> Operations] /\ \A k \in 1 .. n : s[k] = Operation("append", flds[k], "any")
    BY <1>2, <1>3
<1>5. << >> \in Seq(Names)
    OBVIOUS
<1>6. /\ last \in Seq(Operations) /\ Len(last) = 1
      /\ last[1].op = "copy"
    BY <1>5 DEF Operation, Operations
<1> HIDE DEF s, last
<1>7. s \in Seq(Operations) /\ Len(s) = n
    BY <1>2, <1>4
<1> HIDE DEF w
<1>8. /\ w \in Seq(Operations) /\ Len(w) = n + 1
      /\ \A k \in 1 .. n : w[k] = s[k]
      /\ \A k \in 1 .. 1 : w[n + k] = last[k]
    <2> DEFINE m == Len(last)
    <2>1. m = 1 /\ last \in Seq(Operations)
        BY <1>6
    <2>2. m = Len(last)
        OBVIOUS
    <2> HIDE DEF m
    <2>3. s \in Seq(Operations) /\ last \in Seq(Operations) /\ n \in Nat /\ n = Len(s)
        BY <1>2, <1>7, <2>1
    <2>4. /\ w \in Seq(Operations) /\ Len(w) = n + m
          /\ \A k \in 1 .. n : w[k] = s[k]
          /\ \A k \in 1 .. m : w[n + k] = last[k]
        BY <2>2, <2>3, Joined DEF w
    <2> QED
        BY <2>1, <2>4
<1>9. DOMAIN w = 1 .. n + 1 /\ w[n + 1].op = "copy"
    BY <1>2, <1>6, <1>8
<1>10. \A k \in DOMAIN w : Appends(w, k) => k \in 1 .. n /\ w[k].field = flds[k]
    <2> SUFFICES ASSUME NEW k \in DOMAIN w, Appends(w, k)
                 PROVE  k \in 1 .. n /\ w[k].field = flds[k]
        OBVIOUS
    <2>1. k # n + 1
        BY <1>9 DEF Appends
    <2>2. k \in 1 .. n
        BY <2>1, <1>2, <1>9
    <2> QED
        BY <2>2, <1>3, <1>4, <1>8
<1>11. ASSUME NEW k \in DOMAIN w, Appends(w, k)
       PROVE  w[k].field \in F /\ \E l \in DOMAIN w : k < l /\ w[l].op = "copy"
    <2>1. k \in 1 .. n /\ w[k].field \in F
        BY <1>2, <1>10, <1>11
    <2>2. n + 1 \in DOMAIN w /\ k < n + 1
        BY <2>1, <1>2, <1>9
    <2> QED
        BY <2>1, <2>2, <1>9
<1>12. \A k, l \in DOMAIN w : Appends(w, k) /\ Appends(w, l) /\ w[k].field = w[l].field => k = l
    BY <1>1, <1>2, <1>10
<1>13. Proper(w, F)
    BY <1>8, <1>11, <1>12 DEF Proper
<1> QED
    BY <1>13 DEF w, s, last, BuildBuf

-----------------------------------------------------------------------------
(* The parts of the init_sdo()s.                                            *)
LEMMA WordsAreNames == Words \subseteq Names
BY DEF Names

LEMMA ProperNone == Proper(<< >>, {})
<1> DEFINE s == << >>
<1>1. s \in Seq(Operations) /\ DOMAIN s = {}
    OBVIOUS
<1> HIDE DEF s
<1>2. Proper(s, {})
    BY <1>1 DEF Proper
<1> QED
    BY <1>2 DEF s

LEMMA ProperLookUp ==
    ASSUME NEW field \in Seq(Names), NEW type \in Types
    PROVE  Proper(Need(field, type), {}) /\ Proper(Default(field, type), {})
<1>1. ASSUME NEW op \in {"need", "default"}
      PROVE  Proper(<< Operation(op, field, type) >>, {})
    <2> DEFINE o == Operation(op, field, type)
               s == << o >>
    <2>1. o \in Operations /\ o.op = op
        BY DEF Operation, Operations
    <2> HIDE DEF o
    <2>2. s \in Seq(Operations) /\ DOMAIN s = {1} /\ s[1] = o
        BY <2>1
    <2> HIDE DEF s
    <2>3. \A k \in DOMAIN s : ~Appends(s, k)
        BY <2>1, <2>2 DEF Appends
    <2>4. Proper(s, {})
        BY <2>2, <2>3 DEF Proper
    <2> QED
        BY <2>4 DEF s, o
<1> QED
    BY <1>1 DEF Need, Default

LEMMA ProperThen ==
    ASSUME NEW F, NEW s, NEW t, Proper(s, F), Proper(t, {})
    PROVE  Proper(s \o t, F)
BY ProperBoth

LEMMA ProperBefore ==
    ASSUME NEW F, NEW s, NEW t, Proper(s, {}), Proper(t, F)
    PROVE  Proper(s \o t, F)
BY ProperBoth

SdoFields(W) == {Sdo(n) : n \in W}
MotorFields(m, W) == {OfMotor(m, n) : n \in W}
MotorsFields(W) == {OfMotor(m, n) : m \in Motors, n \in W}

LEMMA FieldsAreFields ==
    ASSUME NEW W, W \subseteq Words
    PROVE  /\ SdoFields(W) \subseteq Seq(Names)
           /\ \A m \in Motors : MotorFields(m, W) \subseteq Seq(Names)
BY SdoField, MotorField, WordsAreNames DEF SdoFields, MotorFields

LEMMA ProperArgs ==
    ASSUME NEW W, W \subseteq Words, NEW names, Listed(names, W)
    PROVE  /\ Proper(Args(names), SdoFields(W))
           /\ \A m \in Motors : Proper(MotorArgs(m, names), MotorFields(m, W))
<1>1. Proper(Args(names), SdoFields(W))
    <2> DEFINE flds == [k \in DOMAIN names |-> Sdo(names[k])]
    <2>1. Listed(flds, SdoFields(W)) /\ SdoFields(W) \subseteq Seq(Names)
        BY ListedMapped, FieldsAreFields DEF SdoFields
    <2> HIDE DEF flds
    <2>2. Proper(BuildBuf(flds), SdoFields(W))
        BY <2>1, ProperAppends
    <2> QED
        BY <2>2 DEF Args, flds
<1>2. ASSUME NEW m \in Motors
      PROVE  Proper(MotorArgs(m, names), MotorFields(m, W))
    <2> DEFINE flds == [k \in DOMAIN names |-> OfMotor(m, names[k])]
    <2>1. Listed(flds, MotorFields(m, W)) /\ MotorFields(m, W) \subseteq Seq(Names)
        BY ListedMapped, FieldsAreFields DEF MotorFields
    <2> HIDE DEF flds
    <2>2. Proper(BuildBuf(flds), MotorFields(m, W))
        BY <2>1, ProperAppends
    <2> QED
        BY <2>2 DEF MotorArgs, flds
<1> QED
    BY <1>1, <1>2

(* The four motors append nothing in common.                                *)
LEMMA ProperInOrder ==
    ASSUME NEW W, W \subseteq Words, NEW pieces,
           \A m \in Motors : Proper(pieces[m], MotorFields(m, W))
    PROVE  Proper(InOrder(pieces), MotorsFields(W))
<1>1. \A m, n \in Motors : m # n => MotorFields(m, W) \cap MotorFields(n, W) = {}
    BY MotorFieldsDiffer, WordsAreNames DEF MotorFields
<1> DEFINE first == pieces[1]
           second == pieces[2]
           third == pieces[3]
           fourth == pieces[4]
           F == MotorFields(1, W)
           G == MotorFields(2, W)
           H == MotorFields(3, W)
           I == MotorFields(4, W)
<1>2. Proper(first, F) /\ Proper(second, G) /\ Proper(third, H) /\ Proper(fourth, I)
    BY DEF Motors
<1>3. /\ F \cap G = {} /\ F \cap H = {} /\ F \cap I = {}
      /\ G \cap H = {} /\ G \cap I = {} /\ H \cap I = {}
    BY <1>1 DEF Motors
<1>4. F \cup G \cup H \cup I \subseteq MotorsFields(W)
    BY DEF MotorFields, MotorsFields, Motors
<1>5. InOrder(pieces) = first \o second \o third \o fourth
    BY DEF InOrder
<1> HIDE DEF first, second, third, fourth, F, G, H, I
<1>6. Proper(first \o second, F \cup G)
    BY <1>2, <1>3, ProperJoined
<1>7. Proper(first \o second \o third, F \cup G \cup H)
    <2>1. (F \cup G) \cap H = {}
        BY <1>3
    <2> QED
        BY <1>2, <1>6, <2>1, ProperJoined
<1>8. Proper(first \o second \o third \o fourth, F \cup G \cup H \cup I)
    <2>1. (F \cup G \cup H) \cap I = {}
        BY <1>3
    <2> QED
        BY <1>2, <1>7, <2>1, ProperJoined
<1> QED
    BY <1>4, <1>5, <1>8, ProperWider

-----------------------------------------------------------------------------
(* Of every task type, the init_sdo() appends each argument field at most    *)
(* once, and never the task type again.                                     *)
ArgumentWords == Words \ {"task_type"}
ArgumentFields == SdoFields(ArgumentWords) \cup MotorsFields(Words)
SdoArguments == SdoFields(ArgumentWords)

LEMMA OneName ==
    ASSUME NEW a \in Words
    PROVE  << a >> \in Seq(Names) /\ Len(<< a >>) = 1
BY WordsAreNames

LEMMA TwoNames ==
    ASSUME NEW a \in Words, NEW b \in Words
    PROVE  << a, b >> \in Seq(Names)
BY WordsAreNames, Pair

LEMMA SdoArgumentsAreArguments ==
    ASSUME NEW s, Proper(s, SdoArguments)
    PROVE  Proper(s, ArgumentFields)
BY ProperWider DEF ArgumentFields, SdoArguments

LEMMA ProperTopics == Proper(PubTopic, {}) /\ Proper(SubTopic, {})
<1>1. "std::string" \in Types /\ "pub_topic" \in Words /\ "sub_topic" \in Words
    BY DEF Types, Words
<1>2. << "pub_topic" >> \in Seq(Names) /\ << "sub_topic" >> \in Seq(Names)
    BY <1>1, OneName
<1> QED
    BY <1>1, <1>2, ProperLookUp DEF PubTopic, SubTopic

LEMMA ProperLoadSlaveInfo == Proper(load_slave_info, {})
<1>1. /\ "uint8_t" \in Types /\ "uint16_t" \in Types
    BY DEF Types
<1>2. /\ "pdoread_offset" \in Words /\ "pdowrite_offset" \in Words /\ "conf" \in Words
      /\ "connection_lost_read_action" \in Words /\ "connection_lost_write_action" \in Words
    BY DEF Words
<1> DEFINE a == << "pdoread_offset" >>
           b == << "pdowrite_offset" >>
           c == << "conf", "connection_lost_read_action" >>
           d == Sdo("connection_lost_write_action")
<1>3. a \in Seq(Names) /\ b \in Seq(Names)
    BY <1>2, OneName
<1>4. c \in Seq(Names)
    BY <1>2, TwoNames
<1>5. d \in Seq(Names)
    BY <1>2, WordsAreNames, SdoField
<1> HIDE DEF a, b, c, d
<1>6. /\ Proper(Default(a, "uint16_t"), {}) /\ Proper(Default(b, "uint16_t"), {})
      /\ Proper(Default(c, "uint8_t"), {}) /\ Proper(Default(d, "uint8_t"), {})
    BY <1>1, <1>3, <1>4, <1>5, ProperLookUp
<1>7. Proper(Default(a, "uint16_t") \o Default(b, "uint16_t"), {})
    BY <1>6, ProperThen
<1>8. Proper(Default(a, "uint16_t") \o Default(b, "uint16_t") \o Default(c, "uint8_t"), {})
    BY <1>6, <1>7, ProperThen
<1>9. Proper(Default(a, "uint16_t") \o Default(b, "uint16_t") \o Default(c, "uint8_t")
             \o Default(d, "uint8_t"), {})
    BY <1>6, <1>8, ProperThen
<1> QED
    BY <1>9 DEF load_slave_info, a, b, c, d

LEMMA ProperNeedSdo ==
    ASSUME NEW n \in Words, NEW type \in Types
    PROVE  Proper(Need(Sdo(n), type), {})
BY WordsAreNames, SdoField, ProperLookUp

LEMMA ProperInitValue == Proper(InitValue, {})
<1>1. "uint16_t" \in Types /\ "init_value" \in Words
    BY DEF Types, Words
<1> QED
    BY <1>1, ProperNeedSdo DEF InitValue

LEMMA ProperSubTopicFor ==
    ASSUME NEW i, NEW types
    PROVE  Proper(SubTopicFor(i, types), {})
<1>1. "uint8_t" \in Types /\ "control_type" \in Words
    BY DEF Types, Words
<1> DEFINE topic == IF Is(i, Sdo("control_type"), types) THEN SubTopic ELSE << >>
<1>2. Proper(topic, {})
    BY ProperTopics, ProperNone
<1>3. Proper(Need(Sdo("control_type"), "uint8_t"), {})
    BY <1>1, ProperNeedSdo
<1> HIDE DEF topic
<1>4. Proper(Need(Sdo("control_type"), "uint8_t") \o topic, {})
    BY <1>2, <1>3, ProperThen
<1> QED
    BY <1>4 DEF SubTopicFor, topic

LEMMA ProperSdoArgs ==
    ASSUME NEW W, W \subseteq ArgumentWords, NEW names, Listed(names, W)
    PROVE  Proper(Args(names), SdoArguments)
<1>1. W \subseteq Words /\ SdoFields(W) \subseteq SdoArguments
    BY DEF ArgumentWords, SdoFields, SdoArguments
<1> QED
    BY <1>1, ProperArgs, ProperWider

LEMMA ProperReceivers ==
    /\ Proper(PMU_CAN_init_sdo, ArgumentFields) /\ Proper(DBUS_RC_init_sdo, ArgumentFields)
    /\ Proper(SBUS_RC_init_sdo, ArgumentFields) /\ Proper(VT13_RC_init_sdo, ArgumentFields)
<1>1. Proper(load_slave_info \o PubTopic, {})
    BY ProperLoadSlaveInfo, ProperTopics, ProperThen
<1>2. Proper(load_slave_info \o PubTopic, ArgumentFields)
    BY <1>1, ProperWider
<1> QED
    BY <1>2 DEF PMU_CAN_init_sdo, DBUS_RC_init_sdo, SBUS_RC_init_sdo, VT13_RC_init_sdo

LEMMA Proper_DSHOT == Proper(DSHOT_init_sdo, ArgumentFields)
<1> DEFINE names == << "connection_lost_write_action", "dshot_id", "init_value" >>
           W == {"connection_lost_write_action", "dshot_id", "init_value"}
<1>1. names = << "connection_lost_write_action", "dshot_id", "init_value" >>
    OBVIOUS
<1>2. W \subseteq ArgumentWords
    BY DEF ArgumentWords, Words
<1> HIDE DEF names
<1>3. Listed(names, W)
    BY <1>1 DEF Listed
<1> HIDE DEF W
<1>4. Proper(Args(names), SdoArguments)
    BY <1>2, <1>3, ProperSdoArgs
<1>5. Proper(Args(names) \o load_slave_info, SdoArguments)
    BY <1>4, ProperLoadSlaveInfo, ProperThen
<1>6. Proper(Args(names) \o load_slave_info \o InitValue, SdoArguments)
    BY <1>5, ProperInitValue, ProperThen
<1>7. Proper(Args(names) \o load_slave_info \o InitValue \o SubTopic, SdoArguments)
    BY <1>6, ProperTopics, ProperThen
<1> QED
    BY <1>7, SdoArgumentsAreArguments DEF DSHOT_init_sdo, names

LEMMA Proper_ONBOARD_PWM == Proper(ONBOARD_PWM_init_sdo, ArgumentFields)
<1> DEFINE names == << "connection_lost_write_action", "port_id", "pwm_period",
                       "init_value" >>
           W == {"connection_lost_write_action", "port_id", "pwm_period", "init_value"}
<1>1. names = << "connection_lost_write_action", "port_id", "pwm_period", "init_value" >>
    OBVIOUS
<1>2. W \subseteq ArgumentWords
    BY DEF ArgumentWords, Words
<1> HIDE DEF names
<1>3. Listed(names, W)
    BY <1>1 DEF Listed
<1> HIDE DEF W
<1>4. Proper(Args(names), SdoArguments)
    BY <1>2, <1>3, ProperSdoArgs
<1>5. Proper(Args(names) \o load_slave_info, SdoArguments)
    BY <1>4, ProperLoadSlaveInfo, ProperThen
<1>6. Proper(Args(names) \o load_slave_info \o InitValue, SdoArguments)
    BY <1>5, ProperInitValue, ProperThen
<1>7. Proper(Args(names) \o load_slave_info \o InitValue \o SubTopic, SdoArguments)
    BY <1>6, ProperTopics, ProperThen
<1> QED
    BY <1>7, SdoArgumentsAreArguments DEF ONBOARD_PWM_init_sdo, names

LEMMA Proper_SUPER_CAP == Proper(SUPER_CAP_init_sdo, ArgumentFields)
<1> DEFINE names == << "connection_lost_write_action", "can_inst", "chassis_to_cap_id",
                       "cap_to_chassis_id" >>
           W == {"connection_lost_write_action", "can_inst", "chassis_to_cap_id",
                 "cap_to_chassis_id"}
<1>1. names = << "connection_lost_write_action", "can_inst", "chassis_to_cap_id",
                 "cap_to_chassis_id" >>
    OBVIOUS
<1>2. W \subseteq ArgumentWords
    BY DEF ArgumentWords, Words
<1> HIDE DEF names
<1>3. Listed(names, W)
    BY <1>1 DEF Listed
<1> HIDE DEF W
<1>4. Proper(Args(names), SdoArguments)
    BY <1>2, <1>3, ProperSdoArgs
<1>5. Proper(Args(names) \o load_slave_info, SdoArguments)
    BY <1>4, ProperLoadSlaveInfo, ProperThen
<1>6. Proper(Args(names) \o load_slave_info \o SubTopic, SdoArguments)
    BY <1>5, ProperTopics, ProperThen
<1>7. Proper(Args(names) \o load_slave_info \o SubTopic \o PubTopic, SdoArguments)
    BY <1>6, ProperTopics, ProperThen
<1> QED
    BY <1>7, SdoArgumentsAreArguments DEF SUPER_CAP_init_sdo, names

LEMMA Proper_MS5837_30BA == Proper(MS5837_30BA_init_sdo, ArgumentFields)
<1> DEFINE names == << "i2c_id", "osr_id" >>
           W == {"i2c_id", "osr_id"}
<1>1. names = << "i2c_id", "osr_id" >>
    OBVIOUS
<1>2. W \subseteq ArgumentWords
    BY DEF ArgumentWords, Words
<1> HIDE DEF names
<1>3. Listed(names, W)
    BY <1>1 DEF Listed
<1> HIDE DEF W
<1>4. Proper(Args(names), SdoArguments)
    BY <1>2, <1>3, ProperSdoArgs
<1>5. Proper(Args(names) \o load_slave_info, SdoArguments)
    BY <1>4, ProperLoadSlaveInfo, ProperThen
<1>6. Proper(Args(names) \o load_slave_info \o PubTopic, SdoArguments)
    BY <1>5, ProperTopics, ProperThen
<1> QED
    BY <1>6, SdoArgumentsAreArguments DEF MS5837_30BA_init_sdo, names


LEMMA Proper_EXTERNAL_PWM == Proper(EXTERNAL_PWM_init_sdo, ArgumentFields)
<1> DEFINE names == << "connection_lost_write_action", "uart_id", "pwm_period", "channel_num",
                       "init_value" >>
           W == {"connection_lost_write_action", "uart_id", "pwm_period", "channel_num",
                 "init_value"}
           channels == Need(Sdo("channel_num"), "uint8_t")
<1>1. names = << "connection_lost_write_action", "uart_id", "pwm_period", "channel_num",
                 "init_value" >>
    OBVIOUS
<1>2. W \subseteq ArgumentWords
    BY DEF ArgumentWords, Words
<1> HIDE DEF names
<1>3. Listed(names, W)
    BY <1>1 DEF Listed
<1> HIDE DEF W
<1>4. Proper(Args(names), SdoArguments)
    BY <1>2, <1>3, ProperSdoArgs
<1>5. "uint8_t" \in Types /\ "channel_num" \in Words
    BY DEF Types, Words
<1>6. Proper(channels, {})
    BY <1>5, ProperNeedSdo
<1> HIDE DEF channels
<1>7. Proper(Args(names) \o load_slave_info, SdoArguments)
    BY <1>4, ProperLoadSlaveInfo, ProperThen
<1>8. Proper(Args(names) \o load_slave_info \o InitValue, SdoArguments)
    BY <1>7, ProperInitValue, ProperThen
<1>9. Proper(Args(names) \o load_slave_info \o InitValue \o channels, SdoArguments)
    BY <1>8, <1>6, ProperThen
<1>10. Proper(Args(names) \o load_slave_info \o InitValue \o channels \o SubTopic, SdoArguments)
    BY <1>9, ProperTopics, ProperThen
<1> QED
    BY <1>10, SdoArgumentsAreArguments DEF EXTERNAL_PWM_init_sdo, names, channels

LEMMA Proper_HIPNUC_IMU_CAN == Proper(HIPNUC_IMU_CAN_init_sdo, ArgumentFields)
<1> DEFINE names == << "can_inst", "packet1_id", "packet2_id", "packet3_id" >>
           W == {"can_inst", "packet1_id", "packet2_id", "packet3_id"}
           frame == Default(<< "conf", "frame_name" >>, "std::string")
<1>1. names = << "can_inst", "packet1_id", "packet2_id", "packet3_id" >>
    OBVIOUS
<1>2. W \subseteq ArgumentWords
    BY DEF ArgumentWords, Words
<1> HIDE DEF names
<1>3. Listed(names, W)
    BY <1>1 DEF Listed
<1> HIDE DEF W
<1>4. Proper(Args(names), SdoArguments)
    BY <1>2, <1>3, ProperSdoArgs
<1>5. "std::string" \in Types /\ "conf" \in Words /\ "frame_name" \in Words
    BY DEF Types, Words
<1>6. Proper(frame, {})
    BY <1>5, TwoNames, ProperLookUp
<1> HIDE DEF frame
<1>7. Proper(Args(names) \o load_slave_info, SdoArguments)
    BY <1>4, ProperLoadSlaveInfo, ProperThen
<1>8. Proper(Args(names) \o load_slave_info \o frame, SdoArguments)
    BY <1>7, <1>6, ProperThen
<1>9. Proper(Args(names) \o load_slave_info \o frame \o PubTopic, SdoArguments)
    BY <1>8, ProperTopics, ProperThen
<1> QED
    BY <1>9, SdoArgumentsAreArguments DEF HIPNUC_IMU_CAN_init_sdo, names, frame

LEMMA Proper_DM_MOTOR ==
    ASSUME NEW i
    PROVE  Proper(DM_MOTOR_init_sdo(i), ArgumentFields)
<1> DEFINE names == << "connection_lost_write_action", "control_period", "can_id", "master_id",
                       "can_inst", "control_type" >>
           W == {"connection_lost_write_action", "control_period", "can_id", "master_id",
                 "can_inst", "control_type"}
           topic == SubTopicFor(i, 1 .. 3)
           pmax == Default(<< "conf", "pmax" >>, "float")
           vmax == Need(<< "conf", "vmax" >>, "float")
           tmax == Need(<< "conf", "tmax" >>, "float")
<1>1. names = << "connection_lost_write_action", "control_period", "can_id", "master_id",
                 "can_inst", "control_type" >>
    OBVIOUS
<1>2. W \subseteq ArgumentWords
    BY DEF ArgumentWords, Words
<1> HIDE DEF names
<1>3. Listed(names, W)
    BY <1>1 DEF Listed
<1> HIDE DEF W
<1>4. Proper(Args(names), SdoArguments)
    BY <1>2, <1>3, ProperSdoArgs
<1>5. "float" \in Types /\ "conf" \in Words /\ "pmax" \in Words /\ "vmax" \in Words /\ "tmax" \in Words
    BY DEF Types, Words
<1>6. Proper(pmax, {}) /\ Proper(vmax, {}) /\ Proper(tmax, {})
    BY <1>5, TwoNames, ProperLookUp
<1>7. Proper(topic, {})
    BY ProperSubTopicFor
<1> HIDE DEF pmax, vmax, tmax, topic
<1>8. Proper(Args(names) \o load_slave_info, SdoArguments)
    BY <1>4, ProperLoadSlaveInfo, ProperThen
<1>9. Proper(Args(names) \o load_slave_info \o topic, SdoArguments)
    BY <1>8, <1>7, ProperThen
<1>10. Proper(Args(names) \o load_slave_info \o topic \o pmax, SdoArguments)
    BY <1>9, <1>6, ProperThen
<1>11. Proper(Args(names) \o load_slave_info \o topic \o pmax \o vmax, SdoArguments)
    BY <1>10, <1>6, ProperThen
<1>12. Proper(Args(names) \o load_slave_info \o topic \o pmax \o vmax \o tmax, SdoArguments)
    BY <1>11, <1>6, ProperThen
<1>13. Proper(Args(names) \o load_slave_info \o topic \o pmax \o vmax \o tmax \o PubTopic,
              SdoArguments)
    BY <1>12, ProperTopics, ProperThen
<1> QED
    BY <1>13, SdoArgumentsAreArguments DEF DM_MOTOR_init_sdo, names, topic, pmax, vmax, tmax

LEMMA Proper_LK_MOTOR ==
    ASSUME NEW i
    PROVE  Proper(LK_MOTOR_init_sdo(i), ArgumentFields)
<1> DEFINE first == << "connection_lost_write_action", "control_period", "control_type" >>
           packet == IF Is(i, Sdo("control_type"), {LK_BROADCAST}) THEN << >>
                     ELSE << "can_packet_id" >>
           last == << "can_inst" >>
           names == first \o packet \o last
           F == {"connection_lost_write_action", "control_period", "control_type"}
           G == {"can_packet_id"}
           H == {"can_inst"}
           type == Need(Sdo("control_type"), "uint8_t")
           topic == SubTopicFor(i, 1 .. LK_BROADCAST)
<1>1. first = << "connection_lost_write_action", "control_period", "control_type" >>
    OBVIOUS
<1>2. packet = << >> \/ packet = << "can_packet_id" >>
    OBVIOUS
<1>3. last = << "can_inst" >>
    OBVIOUS
<1>4. /\ F \cup G \cup H \subseteq ArgumentWords
      /\ F \cap G = {} /\ (F \cup G) \cap H = {}
    BY DEF ArgumentWords, Words
<1> HIDE DEF first, packet, last
<1>5. Listed(first, F)
    BY <1>1 DEF Listed
<1>6. Listed(packet, G)
    <2>1. CASE packet = << >>
        <3>1. packet \in Seq(G) /\ DOMAIN packet = {}
            BY <2>1
        <3> QED
            BY <3>1 DEF Listed
    <2>2. CASE packet = << "can_packet_id" >>
        <3>1. packet \in Seq(G) /\ DOMAIN packet = {1}
            BY <2>2
        <3> QED
            BY <3>1 DEF Listed
    <2> QED
        BY <1>2, <2>1, <2>2
<1>7. Listed(last, H)
    BY <1>3 DEF Listed
<1> HIDE DEF F, G, H
<1>8. Listed(first \o packet, F \cup G)
    BY <1>4, <1>5, <1>6, ListedJoined
<1>9. Listed(names, F \cup G \cup H)
    BY <1>4, <1>7, <1>8, ListedJoined
<1> HIDE DEF names
<1>10. Proper(Args(names), SdoArguments)
    BY <1>4, <1>9, ProperSdoArgs
<1>11. "uint8_t" \in Types /\ "control_type" \in Words
    BY DEF Types, Words
<1>12. Proper(type, {}) /\ Proper(topic, {})
    BY <1>11, ProperNeedSdo, ProperSubTopicFor
<1> HIDE DEF type, topic
<1>13. Proper(type \o Args(names), SdoArguments)
    BY <1>10, <1>12, ProperBefore
<1>14. Proper(type \o Args(names) \o load_slave_info, SdoArguments)
    BY <1>13, ProperLoadSlaveInfo, ProperThen
<1>15. Proper(type \o Args(names) \o load_slave_info \o topic, SdoArguments)
    BY <1>14, <1>12, ProperThen
<1>16. Proper(type \o Args(names) \o load_slave_info \o topic \o PubTopic, SdoArguments)
    BY <1>15, ProperTopics, ProperThen
<1> QED
    BY <1>16, SdoArgumentsAreArguments
    DEF LK_MOTOR_init_sdo, type, topic, names, first, packet, last

(* The tasks of four motors.                                                *)
LEMMA ProperIfEnabled ==
    ASSUME NEW i, NEW m \in Motors, NEW F, NEW steps, Proper(steps, F)
    PROVE  Proper(IfEnabled(i, m, steps), F)
<1>1. "uint32_t" \in Types /\ "can_id" \in Names
    BY DEF Types, Words, Names
<1> DEFINE id == Need(OfMotor(m, "can_id"), "uint32_t")
           rest == IF Is(i, OfMotor(m, "can_id"), {0}) THEN << >> ELSE steps
<1>2. Proper(id, {})
    BY <1>1, MotorField, ProperLookUp
<1>3. Proper(rest, F)
    BY ProperNone, ProperWider
<1> HIDE DEF id, rest
<1>4. Proper(id \o rest, F)
    BY <1>2, <1>3, ProperBefore
<1> QED
    BY <1>4 DEF IfEnabled, id, rest

LEMMA NoNames == \A F : Listed(<< >>, F)
<1> SUFFICES ASSUME NEW F
             PROVE  Listed(<< >>, F)
    OBVIOUS
<1> DEFINE s == << >>
<1>1. s \in Seq(F) /\ DOMAIN s = {}
    OBVIOUS
<1> HIDE DEF s
<1>2. Listed(s, F)
    BY <1>1 DEF Listed
<1> QED
    BY <1>2 DEF s

LEMMA ListedOne ==
    ASSUME NEW a
    PROVE  Listed(<< a >>, {a})
<1> DEFINE s == << a >>
<1>1. s \in Seq({a}) /\ DOMAIN s = {1}
    OBVIOUS
<1> HIDE DEF s
<1>2. Listed(s, {a})
    BY <1>1 DEF Listed
<1> QED
    BY <1>2 DEF s

SpeedWords == {"speed_pid_kp", "speed_pid_ki", "speed_pid_kd",
               "speed_pid_max_out", "speed_pid_max_iout"}
AngleWords == {"angle_pid_kp", "angle_pid_ki", "angle_pid_kd",
               "angle_pid_max_out", "angle_pid_max_iout"}
MotorWords == Words \ {"can_id"}

LEMMA ListedPids == Listed(SpeedPid, SpeedWords) /\ Listed(AnglePid, AngleWords)
<1>1. Listed(SpeedPid, SpeedWords)
    <2> DEFINE s == SpeedPid
    <2>1. s = << "speed_pid_kp", "speed_pid_ki", "speed_pid_kd",
                 "speed_pid_max_out", "speed_pid_max_iout" >>
        BY DEF SpeedPid
    <2> HIDE DEF s
    <2>2. Listed(s, SpeedWords)
        BY <2>1 DEF Listed, SpeedWords
    <2> QED
        BY <2>2 DEF s
<1>2. Listed(AnglePid, AngleWords)
    <2> DEFINE s == AnglePid
    <2>1. s = << "angle_pid_kp", "angle_pid_ki", "angle_pid_kd",
                 "angle_pid_max_out", "angle_pid_max_iout" >>
        BY DEF AnglePid
    <2> HIDE DEF s
    <2>2. Listed(s, AngleWords)
        BY <2>1 DEF Listed, AngleWords
    <2> QED
        BY <2>2 DEF s
<1> QED
    BY <1>1, <1>2

LEMMA ProperDJIControl ==
    ASSUME NEW i, NEW m \in Motors
    PROVE  Proper(DJI_MOTOR_control(i, m), MotorFields(m, MotorWords))
<1> DEFINE type(values) == Is(i, OfMotor(m, "control_type"), values)
           speed == IF type({2, 3}) THEN SpeedPid ELSE << >>
           angle == IF type({3}) THEN AnglePid ELSE << >>
           first == << "control_type" >>
           names == first \o (speed \o angle)
           args == IF type({1, 2, 3}) THEN MotorArgs(m, names) ELSE << >>
           need == Need(OfMotor(m, "control_type"), "uint8_t")
           F == {"control_type"}
<1>1. Listed(speed, SpeedWords) /\ Listed(angle, AngleWords)
    BY ListedPids, NoNames
<1>2. Listed(first, F)
    BY ListedOne
<1>3. /\ SpeedWords \cap AngleWords = {} /\ F \cap (SpeedWords \cup AngleWords) = {}
      /\ F \cup (SpeedWords \cup AngleWords) \subseteq MotorWords
      /\ MotorWords \subseteq Words
    BY DEF SpeedWords, AngleWords, MotorWords, Words
<1> HIDE DEF speed, angle, first, F
<1>4. Listed(speed \o angle, SpeedWords \cup AngleWords)
    BY <1>1, <1>3, ListedJoined
<1>5. Listed(names, F \cup (SpeedWords \cup AngleWords))
    BY <1>2, <1>3, <1>4, ListedJoined
<1> HIDE DEF names
<1>6. Listed(names, MotorWords)
    BY <1>3, <1>5 DEF Listed
<1>7. Proper(MotorArgs(m, names), MotorFields(m, MotorWords))
    BY <1>3, <1>6, ProperArgs
<1>8. Proper(args, MotorFields(m, MotorWords))
    BY <1>7, ProperNone, ProperWider
<1>9. "uint8_t" \in Types /\ "control_type" \in Names
    BY DEF Types, Words, Names
<1>10. Proper(need, {})
    BY <1>9, MotorField, ProperLookUp
<1> HIDE DEF args, need
<1>11. Proper(need \o args, MotorFields(m, MotorWords))
    BY <1>8, <1>10, ProperBefore
<1>12. DJI_MOTOR_control(i, m) = need \o args
    BY DEF DJI_MOTOR_control, need, args, names, first, speed, angle
<1> QED
    BY <1>11, <1>12

LEMMA ProperDDControl ==
    ASSUME NEW m \in Motors
    PROVE  Proper(MotorArgs(m, << "control_type" >>), MotorFields(m, MotorWords))
<1> DEFINE names == << "control_type" >>
           F == {"control_type"}
<1>1. Listed(names, F) /\ F \subseteq MotorWords /\ MotorWords \subseteq Words
    BY ListedOne DEF MotorWords, Words
<1> HIDE DEF names
<1>2. Listed(names, MotorWords)
    BY <1>1 DEF Listed
<1>3. Proper(MotorArgs(m, names), MotorFields(m, MotorWords))
    BY <1>1, <1>2, ProperArgs
<1> QED
    BY <1>3 DEF names

(* The common front part: arguments of the task and the CAN ids.            *)
IdFields == MotorsFields({"can_id"})

LEMMA ListedMotorIds == Listed(MotorIds, IdFields)
<1> DEFINE s == [m \in 1 .. 4 |-> OfMotor(m, "can_id")]
<1>1. "can_id" \in Names
    BY DEF Names, Words
<1>2. \A m \in 1 .. 4 : OfMotor(m, "can_id") \in IdFields
    BY DEF IdFields, MotorsFields, Motors
<1>3. \A m, n \in 1 .. 4 : OfMotor(m, "can_id") = OfMotor(n, "can_id") => m = n
    BY <1>1, MotorFieldsDiffer DEF Motors
<1>4. s \in [1 .. 4 -> IdFields] /\ \A m \in 1 .. 4 : s[m] = OfMotor(m, "can_id")
    BY <1>2
<1>5. MotorIds = s
    BY DEF MotorIds, Motors
<1> HIDE DEF s
<1>6. s \in Seq(IdFields) /\ DOMAIN s = 1 .. 4
    <2> DEFINE n == 4
    <2>1. n \in Nat /\ s \in [1 .. n -> IdFields]
        BY <1>4
    <2> HIDE DEF n
    <2>2. s \in Seq(IdFields) /\ DOMAIN s = 1 .. n
        BY <2>1
    <2> QED
        BY <2>2 DEF n
<1>7. Listed(s, IdFields)
    BY <1>3, <1>4, <1>6 DEF Listed
<1> QED
    BY <1>5, <1>7

LEMMA SdosAndMotorsDiffer ==
    ASSUME NEW V, NEW W, V \subseteq Words, W \subseteq Words
    PROVE  SdoFields(V) \cap MotorsFields(W) = {}
<1>1. ASSUME NEW a \in V, NEW m \in Motors, NEW b \in W, Sdo(a) = OfMotor(m, b)
      PROVE  FALSE
    <2>1. a \in Names /\ b \in Names
        BY WordsAreNames
    <2>2. Len(Sdo(a)) = 2
        BY <2>1, SdoField
    <2>3. Len(OfMotor(m, b)) = 3
        BY <2>1, MotorField
    <2> QED
        BY <2>2, <2>3, <1>1
<1> QED
    BY <1>1 DEF SdoFields, MotorsFields

LEMMA SdosDiffer ==
    ASSUME NEW a \in Words, NEW b \in Words, a # b
    PROVE  Sdo(a) # Sdo(b)
BY SdoField, WordsAreNames

LEMMA ProperFront ==
    ASSUME NEW V, NEW front, V \subseteq ArgumentWords \ {"can_inst"}, Listed(front, SdoFields(V))
    PROVE  Proper(BuildBuf(front \o MotorIds \o << Sdo("can_inst") >>), SdoArguments \cup IdFields)
<1> DEFINE F == SdoFields(V)
           last == << Sdo("can_inst") >>
           I == {Sdo("can_inst")}
           flds == front \o MotorIds \o last
<1>1. "can_inst" \in ArgumentWords /\ "can_inst" \in Words /\ {"can_id"} \subseteq Words
    BY DEF ArgumentWords, Words
<1>2. I \subseteq SdoFields(ArgumentWords) /\ F \subseteq SdoFields(ArgumentWords)
    BY <1>1 DEF SdoFields
<1>3. F \cap I = {}
    <2>1. \A a \in V : a \in Words /\ a # "can_inst"
        BY DEF ArgumentWords
    <2> QED
        BY <1>1, <2>1, SdosDiffer DEF SdoFields
<1>4. SdoFields(ArgumentWords) \cap IdFields = {}
    BY <1>1, SdosAndMotorsDiffer DEF IdFields, ArgumentWords
<1>5. F \cap IdFields = {} /\ (F \cup IdFields) \cap I = {}
    BY <1>2, <1>3, <1>4
<1>6. Listed(last, I)
    BY ListedOne
<1> HIDE DEF F, last, I
<1>7. Listed(front \o MotorIds, F \cup IdFields)
    BY <1>5, ListedMotorIds, ListedJoined DEF F
<1>8. Listed(flds, F \cup IdFields \cup I)
    BY <1>5, <1>6, <1>7, ListedJoined
<1> HIDE DEF flds
<1>9. F \cup IdFields \cup I \subseteq SdoArguments \cup IdFields
    BY <1>2 DEF SdoArguments
<1>10. SdoArguments \cup IdFields \subseteq Seq(Names)
    BY <1>1, WordsAreNames, SdoField, MotorField
    DEF SdoArguments, SdoFields, IdFields, MotorsFields, ArgumentWords
<1>11. Proper(BuildBuf(flds), SdoArguments \cup IdFields)
    <2>1. Proper(BuildBuf(flds), F \cup IdFields \cup I)
        BY <1>8, <1>9, <1>10, ProperAppends
    <2> QED
        BY <2>1, <1>9, ProperWider
<1> QED
    BY <1>11 DEF flds, last

LEMMA ProperMotors ==
    ASSUME NEW front, Proper(front, SdoArguments \cup IdFields),
           NEW pieces, \A m \in Motors : Proper(pieces[m], MotorFields(m, MotorWords))
    PROVE  Proper(front \o InOrder(pieces) \o load_slave_info \o PubTopic \o SubTopic,
                  ArgumentFields)
<1> DEFINE motors == InOrder(pieces)
           F == SdoArguments \cup IdFields
           G == MotorsFields(MotorWords)
<1>1. MotorWords \subseteq Words /\ ArgumentWords \subseteq Words /\ {"can_id"} \subseteq Words
    BY DEF MotorWords, ArgumentWords, Words
<1>2. Proper(motors, G)
    BY <1>1, ProperInOrder
<1>3. SdoArguments \cap G = {}
    BY <1>1, SdosAndMotorsDiffer DEF SdoArguments
<1>4. IdFields \cap G = {}
    <2>1. ASSUME NEW m \in Motors, NEW n \in Motors, NEW b \in MotorWords,
                 OfMotor(m, "can_id") = OfMotor(n, b)
          PROVE  FALSE
        <3>1. b \in Names /\ "can_id" \in Names
            BY <1>1, WordsAreNames
        <3>2. "can_id" = b
            BY <2>1, <3>1, MotorFieldsDiffer
        <3> QED
            BY <3>2 DEF MotorWords
    <2> QED
        BY <2>1 DEF IdFields, MotorsFields
<1>5. F \cup G \subseteq ArgumentFields
    BY <1>1 DEF IdFields, MotorsFields, ArgumentFields, SdoArguments
<1> HIDE DEF motors, F, G
<1>6. F \cap G = {}
    BY <1>3, <1>4 DEF F
<1>7. Proper(front \o motors, ArgumentFields)
    BY <1>2, <1>5, <1>6, ProperBoth DEF F
<1>8. Proper(front \o motors \o load_slave_info, ArgumentFields)
    BY <1>7, ProperLoadSlaveInfo, ProperThen
<1>9. Proper(front \o motors \o load_slave_info \o PubTopic, ArgumentFields)
    BY <1>8, ProperTopics, ProperThen
<1>10. Proper(front \o motors \o load_slave_info \o PubTopic \o SubTopic, ArgumentFields)
    BY <1>9, ProperTopics, ProperThen
<1> QED
    BY <1>10 DEF motors

LEMMA Proper_DJI_MOTOR ==
    ASSUME NEW i
    PROVE  Proper(DJI_MOTOR_init_sdo(i), ArgumentFields)
<1> DEFINE V == {"connection_lost_write_action", "control_period", "can_packet_id"}
           front == << Sdo("connection_lost_write_action"), Sdo("control_period"),
                       Sdo("can_packet_id") >>
           pieces == [m \in Motors |-> IfEnabled(i, m, DJI_MOTOR_control(i, m))]
           a == Sdo("connection_lost_write_action")
           b == Sdo("control_period")
           c == Sdo("can_packet_id")
<1>1. V \subseteq ArgumentWords \ {"can_inst"} /\ V \subseteq Words
    BY DEF ArgumentWords, Words
<1>2. a # b /\ a # c /\ b # c
    BY <1>1, SdosDiffer
<1>3. a \in SdoFields(V) /\ b \in SdoFields(V) /\ c \in SdoFields(V)
    BY DEF SdoFields
<1>4. front = << a, b, c >>
    OBVIOUS
<1> HIDE DEF V, front, a, b, c
<1>5. Listed(front, SdoFields(V))
    BY <1>2, <1>3, <1>4 DEF Listed
<1> DEFINE buf == BuildBuf(front \o MotorIds \o << Sdo("can_inst") >>)
<1>6. Proper(buf, SdoArguments \cup IdFields)
    BY <1>1, <1>5, ProperFront
<1>7. \A m \in Motors : Proper(pieces[m], MotorFields(m, MotorWords))
    BY ProperDJIControl, ProperIfEnabled
<1> HIDE DEF buf, pieces
<1>8. Proper(buf \o InOrder(pieces) \o load_slave_info \o PubTopic \o SubTopic, ArgumentFields)
    BY <1>6, <1>7, ProperMotors
<1> QED
    BY <1>8 DEF DJI_MOTOR_init_sdo, buf, pieces, front

LEMMA Proper_DD_MOTOR ==
    ASSUME NEW i
    PROVE  Proper(DD_MOTOR_init_sdo(i), ArgumentFields)
<1> DEFINE V == {"can_baudrate", "connection_lost_write_action", "control_period", "can_packet_id"}
           front == << Sdo("can_baudrate"), Sdo("connection_lost_write_action"),
                       Sdo("control_period"), Sdo("can_packet_id") >>
           pieces == [m \in Motors |-> IfEnabled(i, m, MotorArgs(m, << "control_type" >>))]
           a == Sdo("can_baudrate")
           b == Sdo("connection_lost_write_action")
           c == Sdo("control_period")
           d == Sdo("can_packet_id")
<1>1. V \subseteq ArgumentWords \ {"can_inst"} /\ V \subseteq Words
    BY DEF ArgumentWords, Words
<1>2. a # b /\ a # c /\ a # d /\ b # c /\ b # d /\ c # d
    BY <1>1, SdosDiffer
<1>3. /\ a \in SdoFields(V) /\ b \in SdoFields(V) /\ c \in SdoFields(V)
      /\ d \in SdoFields(V)
    BY DEF SdoFields
<1>4. front = << a, b, c, d >>
    OBVIOUS
<1> HIDE DEF V, front, a, b, c, d
<1>5. Listed(front, SdoFields(V))
    BY <1>2, <1>3, <1>4 DEF Listed
<1> DEFINE buf == BuildBuf(front \o MotorIds \o << Sdo("can_inst") >>)
<1>6. Proper(buf, SdoArguments \cup IdFields)
    BY <1>1, <1>5, ProperFront
<1>7. \A m \in Motors : Proper(pieces[m], MotorFields(m, MotorWords))
    BY ProperDDControl, ProperIfEnabled
<1> HIDE DEF buf, pieces
<1>8. Proper(buf \o InOrder(pieces) \o load_slave_info \o PubTopic \o SubTopic, ArgumentFields)
    BY <1>6, <1>7, ProperMotors
<1> QED
    BY <1>8 DEF DD_MOTOR_init_sdo, buf, pieces, front

LEMMA init_sdoProper ==
    ASSUME NEW type \in TaskTypes, NEW i
    PROVE  Proper(init_sdo(type, i), ArgumentFields)
<1>1. type \in {1, 2, 3, 4, 5, 6, 7, 8, 10, 11, 12, 13, 14, 15}
    BY DEF TaskTypes
<1>2. CASE type \in {1, 10, 11, 14}
    BY <1>2, ProperReceivers DEF init_sdo
<1>3. CASE type = 2
    BY <1>3, Proper_LK_MOTOR DEF init_sdo
<1>4. CASE type = 3
    BY <1>4, Proper_HIPNUC_IMU_CAN DEF init_sdo
<1>5. CASE type = 4
    BY <1>5, Proper_DSHOT DEF init_sdo
<1>6. CASE type = 5
    BY <1>6, Proper_DJI_MOTOR DEF init_sdo
<1>7. CASE type = 6
    BY <1>7, Proper_ONBOARD_PWM DEF init_sdo
<1>8. CASE type = 7
    BY <1>8, Proper_EXTERNAL_PWM DEF init_sdo
<1>9. CASE type = 8
    BY <1>9, Proper_MS5837_30BA DEF init_sdo
<1>10. CASE type = 12
    BY <1>10, Proper_DM_MOTOR DEF init_sdo
<1>11. CASE type = 13
    BY <1>11, Proper_SUPER_CAP DEF init_sdo
<1>12. CASE type = 15
    BY <1>12, Proper_DD_MOTOR DEF init_sdo
<1> QED
    BY <1>1, <1>2, <1>3, <1>4, <1>5, <1>6, <1>7, <1>8, <1>9, <1>10, <1>11, <1>12

LEMMA ArgumentFieldsAreFields ==
    ASSUME NEW f \in ArgumentFields
    PROVE  /\ f \in Seq(Names) /\ Len(f) >= 2 /\ f[1] = "sdowrite"
           /\ f # Sdo("task_type")
<1>1. CASE f \in SdoFields(ArgumentWords)
    <2>1. PICK a \in ArgumentWords : f = Sdo(a)
        BY <1>1 DEF SdoFields
    <2>2. a \in Words /\ a \in Names /\ a # "task_type" /\ "task_type" \in Words
        BY WordsAreNames DEF ArgumentWords, Words
    <2>3. f # Sdo("task_type")
        BY <2>1, <2>2, SdosDiffer
    <2>4. f \in Seq(Names) /\ Len(f) = 2 /\ f[1] = "sdowrite"
        BY <2>1, <2>2, SdoField
    <2> QED
        BY <2>3, <2>4
<1>2. CASE f \in MotorsFields(Words)
    <2>1. PICK m \in Motors, a \in Words : f = OfMotor(m, a)
        BY <1>2 DEF MotorsFields
    <2>2. a \in Names /\ "task_type" \in Names
        BY WordsAreNames, TheNames
    <2>3. f \in Seq(Names) /\ Len(f) = 3 /\ f[1] = "sdowrite"
        BY <2>1, <2>2, MotorField
    <2>4. Len(Sdo("task_type")) = 2
        BY <2>2, SdoField
    <2> DEFINE g == Sdo("task_type")
    <2>5. Len(f) = 3 /\ Len(g) = 2
        BY <2>3, <2>4
    <2> HIDE DEF g
    <2>6. f # g /\ Len(f) >= 2
        BY <2>5
    <2> QED
        BY <2>3, <2>6 DEF g
<1> QED
    BY <1>1, <1>2 DEF ArgumentFields

-----------------------------------------------------------------------------
(* What is laid out: the task count, then whole fields of the tasks 1 .. n,  *)
(* in order.                                                                *)
ByteSet == [of : Seq(Names), byte : Nat]
CountByte == [of |-> OfSlave("task_count"), byte |-> 1]
AllFields == ArgumentFields \cup {Sdo("task_type")}
WidthOf(key) == Width(fields[key].type)

Argument(b, i, f) ==
    /\ b \in ByteSet /\ b.of = OfTask(i, f)
    /\ b.of \in DOMAIN fields /\ b.byte \in 1 .. WidthOf(b.of)
Ordered(w) ==
    /\ \A j \in DOMAIN w : w[j] # NoByte
    /\ \A j, k \in DOMAIN w : w[j] = w[k] => j = k
    /\ \A j \in 2 .. Len(w) : Follows(j = 2, w[j - 1], w[j])
Ends(w, n) ==
    /\ w[Len(w)].byte = WidthOf(w[Len(w)].of)
    /\ IF n = 0 THEN Len(w) = 1 ELSE Len(w) > 1 /\ AppOf(w[Len(w)]) = n
Laid(w, n) ==
    /\ w \in Seq(ByteSet) /\ Len(w) >= 1 /\ w[1] = CountByte
    /\ \A j \in 2 .. Len(w) : \E i \in 1 .. n : \E f \in AllFields : Argument(w[j], i, f)
    /\ Ordered(w) /\ Ends(w, n)

LEMMA InOrderIsOrdered == ArgumentsInOrder <=> Ordered(Sent)
BY DEF ArgumentsInOrder, Ordered

LEMMA AllFieldsAreFields ==
    /\ AllFields \subseteq Seq(Names) /\ Sdo("task_type") \in Seq(Names)
    /\ \A f \in AllFields : Len(f) >= 2 /\ f[1] = "sdowrite"
<1>1. "task_type" \in Names
    BY TheNames
<1> DEFINE type == Sdo("task_type")
<1>2. type \in Seq(Names) /\ Len(type) = 2 /\ type[1] = "sdowrite"
    BY <1>1, SdoField
<1>3. \A f \in ArgumentFields : f \in Seq(Names) /\ Len(f) >= 2 /\ f[1] = "sdowrite"
    BY ArgumentFieldsAreFields
<1>4. AllFields = ArgumentFields \cup {type}
    BY DEF AllFields
<1> HIDE DEF type
<1>5. Len(type) >= 2
    BY <1>2
<1>6. AllFields \subseteq Seq(Names)
    BY <1>2, <1>3, <1>4
<1>7. \A f \in AllFields : Len(f) >= 2 /\ f[1] = "sdowrite"
    BY <1>2, <1>3, <1>4, <1>5
<1> QED
    BY <1>2, <1>6, <1>7 DEF type

LEMMA OrderedPrefix ==
    ASSUME NEW w \in Seq(ByteSet), NEW u \in Seq(ByteSet), Ordered(w), Len(u) <= Len(w),
           \A j \in 1 .. Len(u) : u[j] = w[j]
    PROVE  Ordered(u)
<1>1. DOMAIN u = 1 .. Len(u) /\ DOMAIN w = 1 .. Len(w) /\ Len(u) \in Nat /\ Len(w) \in Nat
    OBVIOUS
<1>2. \A j \in DOMAIN u : j \in DOMAIN w /\ u[j] = w[j]
    BY <1>1
<1>3. \A j \in DOMAIN u : u[j] # NoByte
    BY <1>2 DEF Ordered
<1>4. \A j, k \in DOMAIN u : u[j] = u[k] => j = k
    BY <1>2 DEF Ordered
<1>5. ASSUME NEW j \in 2 .. Len(u)
      PROVE  Follows(j = 2, u[j - 1], u[j])
    <2>1. j \in 2 .. Len(w) /\ u[j] = w[j] /\ u[j - 1] = w[j - 1]
        BY <1>1, <1>2
    <2>2. Follows(j = 2, w[j - 1], w[j])
        BY <2>1 DEF Ordered
    <2> QED
        BY <2>1, <2>2
<1> QED
    BY <1>3, <1>4, <1>5 DEF Ordered

(* The bytes of a field, and these behind what is laid out.                 *)
LEMMA BytesOfField ==
    ASSUME NEW key \in Seq(Names), NEW wd \in Nat, wd = WidthOf(key)
    PROVE  /\ Bytes(key) \in Seq(ByteSet) /\ Len(Bytes(key)) = wd
           /\ \A b \in 1 .. wd : Bytes(key)[b] = [of |-> key, byte |-> b]
<1> DEFINE s == [b \in 1 .. wd |-> [of |-> key, byte |-> b]]
<1>1. s \in [1 .. wd -> ByteSet] /\ \A b \in 1 .. wd : s[b] = [of |-> key, byte |-> b]
    BY DEF ByteSet
<1> HIDE DEF s
<1>2. s \in Seq(ByteSet) /\ Len(s) = wd
    BY <1>1
<1>3. Bytes(key) = s
    BY DEF Bytes, WidthOf, s
<1> QED
    BY <1>1, <1>2, <1>3

LEMMA BytesJoined ==
    ASSUME NEW w \in Seq(ByteSet), NEW key \in Seq(Names), NEW wd \in Nat, wd = WidthOf(key),
           NEW l \in Nat, l = Len(w)
    PROVE  /\ w \o Bytes(key) \in Seq(ByteSet) /\ Len(w \o Bytes(key)) = l + wd
           /\ \A j \in 1 .. l : (w \o Bytes(key))[j] = w[j]
           /\ \A b \in 1 .. wd : (w \o Bytes(key))[l + b] = [of |-> key, byte |-> b]
<1> DEFINE s == Bytes(key)
<1>1. s \in Seq(ByteSet) /\ Len(s) = wd /\ \A b \in 1 .. wd : s[b] = [of |-> key, byte |-> b]
    BY BytesOfField
<1> HIDE DEF s
<1>2. /\ w \o s \in Seq(ByteSet) /\ Len(w \o s) = l + Len(s)
      /\ \A j \in 1 .. l : (w \o s)[j] = w[j]
      /\ \A b \in 1 .. Len(s) : (w \o s)[l + b] = s[b]
    BY <1>1, Joined
<1> QED
    BY <1>1, <1>2 DEF s

(* Behind whole fields of the tasks 1 .. n, one more field of task n, or the *)
(* type of task n + 1.                                                      *)
LEMMA LaidExtended ==
    ASSUME NEW w, NEW n \in Nat, NEW i \in Tasks, NEW f \in AllFields, Laid(w, n),
           i = n \/ i = n + 1, i = n + 1 <=> f = Sdo("task_type"),
           OfTask(i, f) \in DOMAIN fields, WidthOf(OfTask(i, f)) \in Nat,
           i = n + 1 => WidthOf(OfTask(i, f)) > 0,
           \A j \in 1 .. Len(w) : w[j].of # OfTask(i, f)
    PROVE  Laid(w \o Bytes(OfTask(i, f)), i)
<1> DEFINE key == OfTask(i, f)
           wd == WidthOf(key)
           l == Len(w)
           v == w \o Bytes(key)
           Byte(b) == [of |-> key, byte |-> b]
<1>1. w \in Seq(ByteSet) /\ l \in Nat /\ l >= 1 /\ w[1] = CountByte
    BY DEF Laid
<1>2. f \in Seq(Names) /\ key \in Seq(Names) /\ Len(key) >= 4
    <2>1. f \in Seq(Names) /\ Len(f) >= 2
        BY AllFieldsAreFields
    <2>2. key \in Seq(Names) /\ Len(key) = 2 + Len(f)
        BY <2>1, TaskKey
    <2> QED
        BY <2>1, <2>2
<1>3. /\ v \in Seq(ByteSet) /\ Len(v) = l + wd
      /\ \A j \in 1 .. l : v[j] = w[j]
      /\ \A b \in 1 .. wd : v[l + b] = Byte(b)
    <2>1. wd \in Nat /\ l \in Nat /\ w \in Seq(ByteSet) /\ l = Len(w) /\ wd = WidthOf(key)
        BY <1>1
    <2>2. key \in Seq(Names)
        BY <1>2
    <2> HIDE DEF key, wd, l
    <2> QED
        BY <2>1, <2>2, BytesJoined, SMTT(30)
<1>4. \A j \in 1 .. l + wd : j \in 1 .. l \/ (j - l \in 1 .. wd /\ j = l + (j - l))
    BY <1>1, Positions
<1>5. \A j \in 1 .. l : w[j].of # key
    OBVIOUS
<1>6. \A byte : byte.of = key => AppOf(byte) = i
    BY <1>2, AppOfKey
<1>7. wd \in Nat /\ key \in DOMAIN fields /\ (i = n + 1 => wd > 0)
    OBVIOUS
<1>8. \A b \in 1 .. wd : /\ Byte(b) \in ByteSet /\ Byte(b).of = key /\ Byte(b).byte = b
                         /\ Argument(Byte(b), i, f)
    BY <1>2, <1>7 DEF ByteSet, Argument
<1>9. wd = WidthOf(key)
    OBVIOUS
<1>10. key = OfTask(i, f)
    OBVIOUS
<1>11. Ends(w, n) /\ Ordered(w) /\ Len(w) = l
    BY DEF Laid
<1>12. \A j \in 2 .. l : \E k \in 1 .. n : \E g \in AllFields : Argument(w[j], k, g)
    BY DEF Laid
<1> HIDE DEF key, wd, l, v
<1>13. Len(v) = l + wd /\ DOMAIN v = 1 .. l + wd /\ l + wd \in Nat
    BY <1>1, <1>3, <1>7
<1> DEFINE New(j) == j - l \in 1 .. wd /\ j = l + (j - l)
<1>14. ASSUME NEW j, New(j)
       PROVE  v[j].of = key /\ v[j].byte = j - l /\ Argument(v[j], i, f)
    <2> DEFINE b == j - l
    <2>1. b \in 1 .. wd /\ j = l + b
        BY <1>14
    <2>2. v[l + b] = Byte(b)
        BY <2>1, <1>3
    <2>3. Byte(b).of = key /\ Byte(b).byte = b /\ Argument(Byte(b), i, f)
        BY <2>1, <1>8
    <2> QED
        BY <2>1, <2>2, <2>3
<1>15. \A j \in 2 .. Len(v) : \E k \in 1 .. i : \E g \in AllFields : Argument(v[j], k, g)
    <2> SUFFICES ASSUME NEW j \in 2 .. Len(v)
                 PROVE  \E k \in 1 .. i : \E g \in AllFields : Argument(v[j], k, g)
        OBVIOUS
    <2>1. CASE j \in 1 .. l
        <3>1. j \in 2 .. l /\ v[j] = w[j]
            BY <2>1, <1>1, <1>3
        <3>2. PICK k \in 1 .. n, g \in AllFields : Argument(w[j], k, g)
            BY <3>1, <1>12
        <3>3. k \in 1 .. i
            <4>1. i \in Nat
                BY TaskNumbers, Zenon
            <4> QED
                BY <4>1
        <3> QED
            BY <3>1, <3>2, <3>3
    <2>2. CASE j - l \in 1 .. wd /\ j = l + (j - l)
        <3>1. Argument(v[j], i, f)
            BY <2>2, <1>14
        <3>2. i \in 1 .. i
            BY TaskNumbers, Zenon
        <3> QED
            BY <3>1, <3>2
    <2> QED
        BY <2>1, <2>2, <1>1, <1>4, <1>13
<1>16. \A j \in DOMAIN v : v[j] # NoByte
    <2> SUFFICES ASSUME NEW j \in DOMAIN v
                 PROVE  v[j] # NoByte
        OBVIOUS
    <2>1. CASE j \in 1 .. l
        <3>1. j \in DOMAIN w /\ v[j] = w[j]
            BY <2>1, <1>1, <1>3, <1>11
        <3> QED
            BY <3>1, <1>11 DEF Ordered
    <2>2. CASE j - l \in 1 .. wd /\ j = l + (j - l)
        <3>1. v[j].byte = j - l
            BY <2>2, <1>14
        <3>2. j - l > 0
            BY <2>2, <1>7
        <3> QED
            BY <3>1, <3>2 DEF NoByte
    <2> QED
        BY <2>1, <2>2, <1>4, <1>13
<1>17. \A j, k \in DOMAIN v : v[j] = v[k] => j = k
    <2> SUFFICES ASSUME NEW j \in DOMAIN v, NEW k \in DOMAIN v, v[j] = v[k]
                 PROVE  j = k
        OBVIOUS
    <2>1. CASE j \in 1 .. l /\ k \in 1 .. l
        <3>1. j \in DOMAIN w /\ k \in DOMAIN w /\ w[j] = w[k]
            BY <2>1, <1>1, <1>3, <1>11
        <3> QED
            BY <3>1, <1>11 DEF Ordered
    <2>2. CASE j - l \in 1 .. wd /\ j = l + (j - l) /\ k - l \in 1 .. wd /\ k = l + (k - l)
        <3>1. v[j].byte = j - l /\ v[k].byte = k - l
            BY <2>2, <1>14
        <3> QED
            BY <2>2, <3>1
    <2>3. CASE j \in 1 .. l /\ k - l \in 1 .. wd /\ k = l + (k - l)
        <3>1. v[j].of # key
            BY <2>3, <1>3, <1>5
        <3>2. v[k].of = key
            BY <2>3, <1>14
        <3> QED
            BY <3>1, <3>2
    <2>4. CASE k \in 1 .. l /\ j - l \in 1 .. wd /\ j = l + (j - l)
        <3>1. v[k].of # key
            BY <2>4, <1>3, <1>5
        <3>2. v[j].of = key
            BY <2>4, <1>14
        <3> QED
            BY <3>1, <3>2
    <2> QED
        BY <2>1, <2>2, <2>3, <2>4, <1>4, <1>13
(* Where the field begins.                                                  *)
<1>18. wd > 0 => Follows(l + 1 = 2, v[l], v[l + 1])
    <2> SUFFICES ASSUME wd > 0
                 PROVE  Follows(l + 1 = 2, v[l], v[l + 1])
        OBVIOUS
    <2>1. 1 \in 1 .. wd /\ l \in 1 .. l
        BY <1>1, <1>7
    <2>2. v[l] = w[l] /\ v[l + 1] = Byte(1)
        BY <2>1, <1>3
    <2> DEFINE prev == v[l]
               byte == v[l + 1]
               first == l + 1 = 2
    <2>3. byte.byte = 1 /\ byte.of = key /\ AppOf(byte) = i
        BY <2>1, <2>2, <1>6, <1>8
    <2>4. prev.byte = Width(fields[prev.of].type)
        BY <2>2, <1>11 DEF Ends, WidthOf
    <2>5. first <=> n = 0
        BY <1>1, <1>11 DEF Ends
    <2>6. n # 0 => AppOf(prev) = n
        BY <2>2, <1>11 DEF Ends
    <2> HIDE DEF prev, byte, first
    <2> DEFINE new == first \/ AppOf(byte) # AppOf(prev)
    <2>7. new <=> i = n + 1
        <3>1. CASE n = 0
            <4>1. i = n + 1
                BY <3>1 DEF Tasks
            <4> QED
                BY <3>1, <4>1, <2>5
        <3>2. CASE n # 0
            BY <3>2, <2>3, <2>5, <2>6
        <3> QED
            BY <3>1, <3>2
    <2>8. new <=> byte.of = OfTask(AppOf(byte), Sdo("task_type"))
        <3>1. OfTask(i, f) = OfTask(i, Sdo("task_type")) => f = Sdo("task_type")
            BY <1>2, AllFieldsAreFields, TaskKeysDiffer
        <3> QED
            BY <3>1, <2>3, <2>7, <1>10
    <2>9. new => AppOf(byte) = IF first THEN 1 ELSE AppOf(prev) + 1
        BY <2>3, <2>5, <2>6, <2>7
    <2>10. ~(byte.byte > 1)
        BY <2>3
    <2> HIDE DEF new
    <2>11. Follows(first, prev, byte)
        BY <2>4, <2>8, <2>9, <2>10 DEF Follows, new
    <2> QED
        BY <2>11 DEF first, prev, byte
<1>19. \A j \in 2 .. Len(v) : Follows(j = 2, v[j - 1], v[j])
    <2> SUFFICES ASSUME NEW j \in 2 .. Len(v)
                 PROVE  Follows(j = 2, v[j - 1], v[j])
        OBVIOUS
    <2>1. CASE j \in 1 .. l
        <3>1. j \in 2 .. Len(w) /\ v[j] = w[j] /\ v[j - 1] = w[j - 1]
            BY <2>1, <1>1, <1>3, <1>11
        <3>2. Follows(j = 2, w[j - 1], w[j])
            BY <3>1, <1>11 DEF Ordered
        <3> QED
            BY <3>1, <3>2
    <2>2. CASE j = l + 1
        <3>1. wd > 0 /\ j - 1 = l
            BY <2>2, <1>1, <1>7, <1>13
        <3> QED
            BY <3>1, <2>2, <1>18
    <2>3. CASE j - l \in 1 .. wd /\ j = l + (j - l) /\ j # l + 1
        <3> DEFINE b == j - l
        <3>1. b \in 1 .. wd /\ b - 1 \in 1 .. wd /\ b > 1 /\ j = l + b /\ j - 1 = l + (b - 1)
            BY <2>3, <1>1, <1>7
        <3>2. v[j] = Byte(b) /\ v[j - 1] = Byte(b - 1)
            BY <3>1, <1>3
        <3>3. v[j].byte = b /\ v[j - 1] = [v[j] EXCEPT !.byte = @ - 1]
            BY <3>2
        <3> QED
            BY <3>1, <3>3 DEF Follows
    <2> QED
        BY <2>1, <2>2, <2>3, <1>1, <1>4, <1>13
<1>20. Ends(v, i)
    <2>1. CASE wd > 0
        <3>1. wd \in 1 .. wd /\ v[l + wd] = Byte(wd)
            BY <2>1, <1>3, <1>7
        <3>2. v[Len(v)].byte = wd /\ v[Len(v)].of = key /\ AppOf(v[Len(v)]) = i
            BY <3>1, <1>6, <1>8, <1>13
        <3>3. i # 0 /\ Len(v) > 1
            <4>1. i \in Nat /\ i \in 1 .. i
                BY TaskNumbers, Zenon
            <4>2. i # 0
                BY <4>1
            <4>3. Len(v) > 1
                BY <2>1, <1>1, <1>7, <1>13
            <4> QED
                BY <4>2, <4>3
        <3> QED
            BY <3>2, <3>3, <1>9 DEF Ends
    <2>2. CASE ~(wd > 0)
        <3>1. i = n /\ n # 0 /\ Len(v) = l /\ v[l] = w[l]
            <4>1. i \in Nat /\ i \in 1 .. i
                BY TaskNumbers, Zenon
            <4>2. i = n /\ wd = 0
                BY <2>2, <1>7
            <4>3. n # 0
                BY <4>1, <4>2
            <4>4. Len(v) = l /\ v[l] = w[l]
                BY <4>2, <1>1, <1>3
            <4> QED
                BY <4>2, <4>3, <4>4
        <3> QED
            BY <3>1, <1>11 DEF Ends
    <2> QED
        BY <2>1, <2>2
<1>21. Len(v) >= 1 /\ v[1] = CountByte
    BY <1>1, <1>3, <1>7, <1>13
<1>22. Laid(v, i)
    BY <1>3, <1>15, <1>16, <1>17, <1>19, <1>20, <1>21 DEF Laid, Ordered
<1> QED
    BY <1>22 DEF v, key

-----------------------------------------------------------------------------
(* The loaded settings; and the bytes that are laid out are no more than     *)
(* what a long enough buffer has room for.                                  *)
FieldOK(field) ==
    /\ field.type \in Types
    /\ field.type = "uint8_t" => field.val \in Nat /\ field.val <= 255
    /\ field.type = "uint16_t" => field.val \in Nat
FieldsOK == IsFiniteSet(DOMAIN fields) /\ \A key \in DOMAIN fields : FieldOK(fields[key])

LEMMA Widths ==
    /\ \A type \in Types : Width(type) \in 0 .. 4
    /\ Width("uint8_t") = 1
BY DEF Width, Types

LEMMA FieldWidth ==
    ASSUME FieldsOK, NEW key \in DOMAIN fields
    PROVE  /\ WidthOf(key) \in 0 .. 4
           /\ fields[key].type = "uint8_t" => WidthOf(key) = 1
<1>1. FieldOK(fields[key])
    BY Zenon DEF FieldsOK
<1>2. fields[key].type \in Types
    BY <1>1, Zenon DEF FieldOK
<1> QED
    BY <1>2, Widths, Zenon DEF WidthOf

LEMMA Intervals ==
    \A a, b \in Int : /\ IsFiniteSet(a .. b)
                      /\ Cardinality(a .. b) = IF a > b THEN 0 ELSE b - a + 1
BY FS_Interval

LEMMA BytesOfFinite ==
    ASSUME NEW keys, IsFiniteSet(keys)
    PROVE  IsFiniteSet(BytesOf(keys))
<1> DEFINE T == BytesOf(keys)
           P == keys \X (1 .. 4)
           g == [b \in T |-> << b.of, b.byte >>]
<1>1. IsFiniteSet(1 .. 4)
    <2>1. 1 \in Int /\ 4 \in Int
        OBVIOUS
    <2> QED
        BY <2>1, Intervals, Zenon
<1>2. IsFiniteSet(P)
    BY <1>1, FS_Product
<1>3. \A b \in T : b = [of |-> b.of, byte |-> b.byte] /\ b.of \in keys /\ b.byte \in 1 .. 4
    BY DEF BytesOf
<1> HIDE DEF T
<1>4. g \in [T -> P]
    BY <1>3
<1>5. \A b, c \in T : g[b] = g[c] => b = c
    <2> SUFFICES ASSUME NEW b \in T, NEW c \in T, g[b] = g[c]
                 PROVE  b = c
        OBVIOUS
    <2>1. << b.of, b.byte >> = << c.of, c.byte >>
        OBVIOUS
    <2>2. b.of = c.of /\ b.byte = c.byte
        BY <2>1
    <2> QED
        BY <2>2, <1>3
<1> HIDE DEF g, P
<1>6. g \in Injection(T, P)
    BY <1>4, <1>5, Fun_IsInj
<1>7. IsFiniteSet(T)
    BY <1>2, <1>6, FS_Injection
<1> QED
    BY <1>7 DEF T

LEMMA ArgumentBytesNatural ==
    ASSUME FieldsOK
    PROVE  /\ IsFiniteSet(BytesOf(ArgumentKeys))
           /\ ArgumentBytes \in Nat /\ ArgumentBytes >= 1
<1>1. ArgumentKeys \in SUBSET DOMAIN fields
    BY DEF ArgumentKeys
<1>2. IsFiniteSet(ArgumentKeys)
    <2> DEFINE D == DOMAIN fields
    <2>1. IsFiniteSet(D) /\ ArgumentKeys \in SUBSET D
        BY <1>1, Zenon DEF FieldsOK
    <2> HIDE DEF D
    <2> QED
        BY <2>1, FS_Subset
<1>3. IsFiniteSet(BytesOf(ArgumentKeys))
    BY <1>2, BytesOfFinite
<1>4. Cardinality(BytesOf(ArgumentKeys)) \in Nat
    BY <1>3, FS_CardinalityType
<1> QED
    BY <1>3, <1>4 DEF ArgumentBytes

LEMMA LaidFits ==
    ASSUME FieldsOK, count \in 0 .. 255, NEW w, NEW n \in 0 .. count, Laid(w, n)
    PROVE  Len(w) <= ArgumentBytes
<1> DEFINE T == BytesOf(ArgumentKeys)
           l == Len(w)
           S == 2 .. l
           g == [j \in S |-> w[j]]
<1>1. w \in Seq(ByteSet) /\ l \in Nat /\ l >= 1
    BY DEF Laid
<1>2. ASSUME NEW j \in S
      PROVE  w[j] \in T
    <2>1. PICK i \in 1 .. n, f \in AllFields : Argument(w[j], i, f)
        BY DEF Laid
    <2> DEFINE key == OfTask(i, f)
    <2>2. i \in Tasks /\ i \in 1 .. count
        BY DEF Tasks
    <2>3. f \in Seq(Names) /\ Len(f) \in Nat /\ Len(f) >= 2 /\ f[1] = "sdowrite"
        BY AllFieldsAreFields
    <2>4. /\ Len(key) = 2 + Len(f) /\ key[1] = Slave /\ key[2] = App[i]
          /\ \A k \in 1 .. Len(f) : key[k + 2] = f[k]
        BY <2>2, <2>3, TaskKey
    <2>5. 1 \in 1 .. Len(f) /\ Len(key) >= 4
        BY <2>3, <2>4
    <2>6. key[1 + 2] = f[1]
        BY <2>4, <2>5
    <2>7. key[3] = "sdowrite"
        BY <2>3, <2>6
    <2>8. /\ w[j] \in ByteSet /\ w[j].of = key
          /\ key \in DOMAIN fields /\ w[j].byte \in 1 .. WidthOf(key)
        BY <2>1 DEF Argument
    <2> HIDE DEF key
    <2>9. key \in ArgumentKeys
        BY <2>2, <2>4, <2>5, <2>7, <2>8 DEF ArgumentKeys
    <2>10. WidthOf(key) \in 0 .. 4
        BY <2>8, FieldWidth
    <2>11. w[j].byte \in 1 .. 4 /\ w[j].byte <= Width(fields[w[j].of].type)
        BY <2>8, <2>10 DEF WidthOf
    <2>12. w[j] = [of |-> w[j].of, byte |-> w[j].byte]
        BY <2>8 DEF ByteSet
    <2>13. w[j] \in [of : ArgumentKeys, byte : 1 .. 4]
        BY <2>8, <2>9, <2>11, <2>12
    <2> QED
        BY <2>11, <2>13 DEF BytesOf
<1>3. \A j, k \in S : w[j] = w[k] => j = k
    <2>1. \A j \in S : j \in DOMAIN w
        BY <1>1
    <2> QED
        BY <2>1 DEF Laid, Ordered
<1> HIDE DEF T, S
<1>4. g \in [S -> T] /\ \A j, k \in S : g[j] = g[k] => j = k
    BY <1>2, <1>3
<1> HIDE DEF g
<1>5. g \in Injection(S, T)
    BY <1>4, Fun_IsInj
<1>6. IsFiniteSet(T) /\ Cardinality(T) \in Nat
    BY ArgumentBytesNatural, FS_CardinalityType DEF T
<1>7. Cardinality(S) <= Cardinality(T)
    BY <1>5, <1>6, FS_Injection
<1>8. Cardinality(S) = IF 2 > l THEN 0 ELSE l - 2 + 1
    <2>1. 2 \in Int /\ l \in Int
        BY <1>1
    <2> QED
        BY <2>1, Intervals DEF S
<1>9. l <= 1 + Cardinality(T)
    BY <1>1, <1>6, <1>7, <1>8
<1> QED
    BY <1>9 DEF ArgumentBytes, T

-----------------------------------------------------------------------------
(* The inductive invariant.  SoFar: what is laid out, in the buffer and in  *)
(* the piece that is yet to be copied; Done: up to which task.              *)
Top(a, n) == SubSeq(a, 1, IF n <= Len(a) THEN n ELSE Len(a))
SoFar == Sent \o built
Done == IF pc = "task" THEN app - 1 ELSE app
Building == pc \in {"task", "init_sdo"}

ConfigTypes ==
    /\ FieldsOK
    /\ count \in Nat /\ count <= 255
    /\ arg \in Seq(ByteSet) /\ built \in Seq(ByteSet)
    /\ idx \in Nat /\ beyond \in BOOLEAN
    /\ pc = "load" => arg = << >> /\ built = << >> /\ idx = 0 /\ count = 0 /\ ~beyond
    /\ Building => app \in 1 .. count

(* What is still to be appended is not there yet.                           *)
NotIn(w, s, i) ==
    \A k \in DOMAIN s : Appends(s, k) =>
        \A j \in 1 .. Len(w) : w[j].of # OfTask(i, s[k].field)
Unused == NotIn(SoFar, ops, app)

StepsLeft ==
    /\ pc = "task" => built = << >>
    /\ pc = "init_sdo" => /\ Proper(ops, ArgumentFields)
                          /\ built # << >> => \E k \in DOMAIN ops : ops[k].op = "copy"

FrontLaid ==
    Building /\ idx <= Len(arg) => Laid(SoFar, Done) /\ (pc = "init_sdo" => Unused)

ConfigInv ==
    /\ ConfigTypes /\ StepsLeft /\ FrontLaid
    /\ ~beyond => idx <= Len(arg)
    /\ ArgumentsInOrder /\ WithinBuffer

(* The bytes up to the index, before and after a copy.                      *)
LEMMA TopBytes ==
    ASSUME NEW a \in Seq(ByteSet), NEW n \in Nat
    PROVE  /\ Top(a, n) \in Seq(ByteSet)
           /\ Len(Top(a, n)) = IF n <= Len(a) THEN n ELSE Len(a)
           /\ \A j \in 1 .. Len(Top(a, n)) : Top(a, n)[j] = a[j]
<1> DEFINE m == IF n <= Len(a) THEN n ELSE Len(a)
<1>1. m \in Nat /\ m <= Len(a)
    OBVIOUS
<1> HIDE DEF m
<1>2. /\ SubSeq(a, 1, m) \in Seq(ByteSet) /\ Len(SubSeq(a, 1, m)) = m
      /\ \A j \in 1 .. m : SubSeq(a, 1, m)[j] = a[j]
    BY <1>1
<1> QED
    BY <1>2 DEF Top, m

LEMMA NothingJoined ==
    ASSUME NEW S, NEW s \in Seq(S)
    PROVE  s \o << >> = s /\ << >> \in Seq(S)
OBVIOUS

IsCopy(a, n, t, b) ==
    /\ b \in Seq(ByteSet) /\ Len(b) = Len(a)
    /\ n > Len(a) => Top(b, n + Len(t)) = Top(a, n)
    /\ n <= Len(a) =>
         /\ Len(Top(b, n + Len(t))) <= Len(Top(a, n) \o t)
         /\ \A j \in 1 .. Len(Top(b, n + Len(t))) :
               Top(b, n + Len(t))[j] = (Top(a, n) \o t)[j]
    /\ n + Len(t) <= Len(a) => Top(b, n + Len(t)) = Top(a, n) \o t

LEMMA EmptyJoined ==
    ASSUME NEW S, NEW u \in Seq(S), Len(u) = 0, NEW t \in Seq(S)
    PROVE  u = << >> /\ u \o t = t
OBVIOUS

LEMMA JoinedThrice ==
    \A r, s, t \in Seq(ByteSet) : r \o (s \o t) = (r \o s) \o t
BY SMTT(30)

LEMMA TopCopied ==
    ASSUME NEW a \in Seq(ByteSet), NEW n \in Nat, NEW t \in Seq(ByteSet), NEW b,
           b = Written(a, n, t)
    PROVE  IsCopy(a, n, t, b)
<1> DEFINE l == Len(a)
           m == Len(t)
           u == Top(b, n + m)
           s == Top(a, n)
           w == s \o t
<1>1. l \in Nat /\ m \in Nat /\ DOMAIN a = 1 .. l /\ DOMAIN t = 1 .. m
    OBVIOUS
<1>2. b = [k \in 1 .. l |-> IF k - n \in 1 .. m THEN t[k - n] ELSE a[k]]
    BY <1>1 DEF Written
<1>3. \A k \in 1 .. l : b[k] = IF k - n \in 1 .. m THEN t[k - n] ELSE a[k]
    BY <1>2
<1>4. b \in Seq(ByteSet) /\ Len(b) = l
    <2>1. \A k \in 1 .. l : a[k] \in ByteSet
        OBVIOUS
    <2>2. \A k \in 1 .. m : t[k] \in ByteSet
        OBVIOUS
    <2>3. \A k \in 1 .. l : (IF k - n \in 1 .. m THEN t[k - n] ELSE a[k]) \in ByteSet
        BY <2>1, <2>2
    <2>4. b \in [1 .. l -> ByteSet]
        BY <1>2, <2>3
    <2> QED
        BY <1>1, <2>4
<1>5. /\ s \in Seq(ByteSet) /\ Len(s) = (IF n <= l THEN n ELSE l)
      /\ \A j \in 1 .. Len(s) : s[j] = a[j]
    BY TopBytes
<1>6. n + m \in Nat
    BY <1>1
<1>7. /\ u \in Seq(ByteSet) /\ Len(u) = (IF n + m <= l THEN n + m ELSE l)
      /\ \A j \in 1 .. Len(u) : u[j] = b[j]
    BY <1>4, <1>6, TopBytes
<1> HIDE DEF u, s, w
<1>8. ASSUME n > l
      PROVE  u = s
    <2>1. ~(n <= l) /\ ~(n + m <= l)
        BY <1>1, <1>8
    <2>2. Len(u) = l
        BY <1>7, <2>1
    <2>3. Len(s) = l
        BY <1>5, <2>1
    <2>4. Len(u) = l /\ Len(s) = l
        BY <2>2, <2>3
    <2>5. \A j \in 1 .. l : u[j] = s[j]
        <3>1. \A j \in 1 .. l : ~(j - n \in 1 .. m)
            BY <1>1, <1>8
        <3> QED
            BY <3>1, <2>4, <1>3, <1>5, <1>7
    <2> QED
        BY <2>4, <2>5, <1>5, <1>7
<1>9. ASSUME n <= l
      PROVE  /\ w \in Seq(ByteSet) /\ Len(w) = n + m /\ Len(u) <= Len(w)
             /\ \A j \in 1 .. Len(u) : u[j] = w[j]
    <2>1. Len(s) = n /\ n = Len(s)
        BY <1>5, <1>9
    <2>2. /\ w \in Seq(ByteSet) /\ Len(w) = n + m
          /\ \A k \in 1 .. n : w[k] = s[k]
          /\ \A k \in 1 .. m : w[n + k] = t[k]
        BY <1>5, <2>1, Joined DEF w
    <2>3. Len(u) <= Len(w) /\ Len(u) <= l /\ Len(u) <= n + m
        BY <1>1, <1>7, <1>9, <2>2
    <2>4. ASSUME NEW j \in 1 .. Len(u)
          PROVE  u[j] = w[j]
        <3>1. u[j] = b[j] /\ j \in 1 .. l
            BY <1>1, <1>7, <2>3
        <3>2. CASE j <= n
            <4>1. ~(j - n \in 1 .. m) /\ j \in 1 .. n
                BY <3>2
            <4>2. b[j] = a[j]
                BY <3>1, <4>1, <1>3
            <4>3. w[j] = s[j] /\ s[j] = a[j]
                BY <4>1, <2>1, <2>2, <1>5
            <4> QED
                BY <3>1, <4>2, <4>3
        <3>3. CASE j > n
            <4> DEFINE k == j - n
            <4>1. k \in 1 .. m /\ j = n + k
                BY <3>3, <1>1, <2>2, <2>3
            <4>2. b[j] = t[k]
                BY <3>1, <4>1, <1>3
            <4> HIDE DEF k
            <4>3. w[n + k] = t[k]
                BY <4>1, <2>2
            <4> QED
                BY <3>1, <4>1, <4>2, <4>3
        <3> QED
            BY <3>2, <3>3
    <2> QED
        BY <2>2, <2>3, <2>4
<1>10. ASSUME n + m <= l
       PROVE  u = w
    <2>1. n <= l
        BY <1>1, <1>10
    <2>2. w \in Seq(ByteSet) /\ Len(w) = n + m /\ \A j \in 1 .. Len(u) : u[j] = w[j]
        BY <2>1, <1>9
    <2>3. Len(u) = n + m
        BY <1>7, <1>10
    <2> QED
        BY <2>2, <2>3, <1>7
<1> QED
    BY <1>4, <1>8, <1>9, <1>10 DEF IsCopy, u, s, w

(* What is left of the operations after the first of them.                  *)
Copies(s) == \E k \in DOMAIN s : s[k].op = "copy"

LEMMA TailProper ==
    ASSUME NEW F, NEW s, Proper(s, F), s # << >>
    PROVE  /\ Proper(Tail(s), F)
           /\ \A k \in DOMAIN Tail(s) : k + 1 \in DOMAIN s /\ Tail(s)[k] = s[k + 1]
           /\ Head(s).op = "append" =>
                /\ Head(s).field \in F /\ Copies(Tail(s))
                /\ \A k \in DOMAIN Tail(s) :
                      Appends(Tail(s), k) => Tail(s)[k].field # Head(s).field
           /\ Head(s).op # "copy" /\ Copies(s) => Copies(Tail(s))
<1> DEFINE t == Tail(s)
           n == Len(s)
           first == Head(s)
<1>1. s \in Seq(Operations) /\ n \in Nat /\ n >= 1 /\ DOMAIN s = 1 .. n /\ first = s[1]
    BY DEF Proper
<1>2. /\ t \in Seq(Operations) /\ DOMAIN t = 1 .. n - 1
      /\ \A k \in 1 .. n - 1 : t[k] = s[k + 1]
    BY <1>1
<1> HIDE DEF t, n, first
<1>3. \A k \in DOMAIN t : k + 1 \in DOMAIN s /\ t[k] = s[k + 1]
    BY <1>1, <1>2
<1>4. ASSUME NEW l \in DOMAIN s, s[l].op = "copy", l # 1
      PROVE  l - 1 \in DOMAIN t /\ t[l - 1].op = "copy"
    <2>1. l - 1 \in 1 .. n - 1 /\ (l - 1) + 1 = l
        BY <1>1, <1>4
    <2>2. t[l - 1] = s[(l - 1) + 1]
        BY <2>1, <1>2
    <2> QED
        BY <2>1, <2>2, <1>2, <1>4
<1>5. ASSUME NEW k \in DOMAIN t, Appends(t, k)
      PROVE  t[k].field \in F /\ \E l \in DOMAIN t : k < l /\ t[l].op = "copy"
    <2>1. k + 1 \in DOMAIN s /\ Appends(s, k + 1) /\ t[k] = s[k + 1]
        BY <1>3, <1>5 DEF Appends
    <2>2. PICK l \in DOMAIN s : k + 1 < l /\ s[l].op = "copy"
        BY <2>1 DEF Proper
    <2>3. k \in Nat /\ l \in Nat
        BY <1>1, <1>2
    <2>4. l # 1 /\ k < l - 1
        BY <2>2, <2>3
    <2>5. l - 1 \in DOMAIN t /\ t[l - 1].op = "copy"
        BY <2>2, <2>4, <1>4
    <2>6. s[k + 1].field \in F
        BY <2>1 DEF Proper
    <2> QED
        BY <2>1, <2>4, <2>5, <2>6
<1>6. \A k, l \in DOMAIN t : Appends(t, k) /\ Appends(t, l) /\ t[k].field = t[l].field => k = l
    <2> SUFFICES ASSUME NEW k \in DOMAIN t, NEW l \in DOMAIN t,
                        Appends(t, k), Appends(t, l), t[k].field = t[l].field
                 PROVE  k = l
        OBVIOUS
    <2>1. /\ k + 1 \in DOMAIN s /\ Appends(s, k + 1)
          /\ l + 1 \in DOMAIN s /\ Appends(s, l + 1)
          /\ s[k + 1].field = s[l + 1].field
        BY <1>3 DEF Appends
    <2>2. k + 1 = l + 1
        BY <2>1 DEF Proper
    <2> QED
        BY <2>2, <1>1, <1>2
<1>7. Proper(t, F)
    BY <1>2, <1>5, <1>6 DEF Proper
<1>8. ASSUME first.op = "append"
      PROVE  /\ first.field \in F /\ Copies(t)
             /\ \A k \in DOMAIN t : Appends(t, k) => t[k].field # first.field
    <2>1. 1 \in DOMAIN s /\ Appends(s, 1)
        BY <1>1, <1>8 DEF Appends
    <2>2. PICK l \in DOMAIN s : 1 < l /\ s[l].op = "copy"
        BY <2>1 DEF Proper
    <2>3. Copies(t)
        BY <2>2, <1>4 DEF Copies
    <2>4. first.field \in F
        BY <2>1, <1>1 DEF Proper
    <2>5. ASSUME NEW k \in DOMAIN t, Appends(t, k), t[k].field = first.field
          PROVE  FALSE
        <3>1. k + 1 \in DOMAIN s /\ Appends(s, k + 1) /\ s[k + 1].field = s[1].field
            BY <2>5, <1>1, <1>3 DEF Appends
        <3>2. k + 1 = 1
            BY <3>1, <2>1 DEF Proper
        <3> QED
            BY <3>2, <1>2
    <2> QED
        BY <2>3, <2>4, <2>5
<1>9. first.op # "copy" /\ Copies(s) => Copies(t)
    <2> SUFFICES ASSUME first.op # "copy", Copies(s)
                 PROVE  Copies(t)
        OBVIOUS
    <2>1. PICK l \in DOMAIN s : s[l].op = "copy"
        BY DEF Copies
    <2>2. l # 1
        BY <2>1, <1>1
    <2> QED
        BY <2>1, <2>2, <1>4 DEF Copies
<1> QED
    BY <1>3, <1>7, <1>8, <1>9 DEF t, first

-----------------------------------------------------------------------------
(* From one state to the next, the settings being what they are.            *)
LEMMA OrderedNext ==
    ASSUME fields' = fields, Ordered(Sent')
    PROVE  ArgumentsInOrder'
BY DEF Ordered, ArgumentsInOrder, Follows

LEMMA LaidNext ==
    ASSUME fields' = fields, Laid(SoFar', Done')
    PROVE  Laid(SoFar, Done)'
BY DEF Laid, Ordered, Ends, Argument, WidthOf, Follows

LEMMA ArgumentBytesNext ==
    ASSUME fields' = fields, count' = count
    PROVE  ArgumentBytes' = ArgumentBytes
BY DEF ArgumentBytes, BytesOf, ArgumentKeys

LEMMA FieldsNext ==
    ASSUME fields' = fields, FieldsOK
    PROVE  FieldsOK'
BY DEF FieldsOK

(* A copy into the buffer.                                                  *)
LEMMA Copied ==
    ASSUME ConfigInv, NEW t \in Seq(ByteSet), NEW n \in 0 .. count,
           idx <= Len(arg) => Laid(Sent \o t, n),
           arg' = Written(arg, idx, t), beyond' = (beyond \/ Overrun(arg, idx, t)),
           idx' = idx + Len(t), fields' = fields, count' = count
    PROVE  /\ ArgumentsInOrder' /\ WithinBuffer' /\ (~beyond => idx <= Len(arg))'
           /\ FieldsOK' /\ arg' \in Seq(ByteSet) /\ idx' \in Nat /\ beyond' \in BOOLEAN
           /\ idx' <= Len(arg') => idx <= Len(arg) /\ Sent' = Sent \o t
<1> DEFINE m == Len(t)
           l == Len(arg)
<1>1. /\ arg \in Seq(ByteSet) /\ idx \in Nat /\ beyond \in BOOLEAN /\ FieldsOK
      /\ count \in Nat /\ count <= 255
    BY DEF ConfigInv, ConfigTypes
<1>2. m \in Nat /\ l \in Nat
    BY <1>1
<1>3. Sent = Top(arg, idx) /\ Sent' = Top(arg', idx')
    BY DEF Sent, Top
<1>4. /\ arg' \in Seq(ByteSet) /\ Len(arg') = l
      /\ idx > l => Sent' = Sent
      /\ idx <= l => /\ Len(Sent') <= Len(Sent \o t)
                     /\ \A j \in 1 .. Len(Sent') : Sent'[j] = (Sent \o t)[j]
      /\ idx + m <= l => Sent' = Sent \o t
    <2>1. IsCopy(arg, idx, t, arg')
        <3>1. arg \in Seq(ByteSet) /\ idx \in Nat /\ arg' = Written(arg, idx, t)
            BY <1>1
        <3> QED
            BY <3>1, TopCopied, Zenon
    <2>2. Sent' = Top(arg', idx + Len(t))
        BY <1>3
    <2> QED
        BY <2>1, <2>2, <1>3, Zenon DEF IsCopy
<1>5. idx' = idx + m
    OBVIOUS
<1>6. Sent' \in Seq(ByteSet) /\ Sent \in Seq(ByteSet)
    <2>1. idx' \in Nat
        BY <1>1, <1>2, <1>5
    <2> QED
        BY <2>1, <1>1, <1>3, <1>4, TopBytes
<1> HIDE DEF m, l
<1>7. Ordered(Sent')
    <2>1. CASE idx > l
        BY <2>1, <1>4, InOrderIsOrdered DEF ConfigInv
    <2>2. CASE idx <= l
        <3>1. Ordered(Sent \o t) /\ Sent \o t \in Seq(ByteSet)
            BY <2>2 DEF Laid, l
        <3> QED
            BY <3>1, <2>2, <1>4, <1>6, OrderedPrefix
    <2> QED
        BY <2>1, <2>2, <1>1, <1>2
<1>8. ~beyond => idx <= l
    BY DEF ConfigInv, l
<1>9. Overrun(arg, idx, t) <=> idx + m > l
    BY DEF Overrun, m, l
<1>10. ~beyond' => idx' <= Len(arg')
    <2>1. SUFFICES ASSUME ~beyond'
                   PROVE  idx' <= Len(arg')
        OBVIOUS
    <2>2. ~Overrun(arg, idx, t)
        BY <2>1, Zenon
    <2>3. ~(idx + m > l)
        BY <2>2, <1>9, Zenon
    <2>4. idx + m <= l
        BY <2>3, <1>1, <1>2
    <2> QED
        BY <2>4, <1>4, <1>5
<1>11. ArgumentBytes' = ArgumentBytes /\ ArgumentBytes \in Nat
    BY <1>1, ArgumentBytesNext, ArgumentBytesNatural
<1>12. Len(arg') >= ArgumentBytes' => ~beyond'
    <2> SUFFICES ASSUME l >= ArgumentBytes
                 PROVE  ~beyond'
        BY <1>4, <1>11
    <2>1. ~beyond
        BY DEF ConfigInv, WithinBuffer, l
    <2>2. idx <= l /\ Laid(Sent \o t, n)
        BY <2>1, <1>8 DEF l
    <2>3. Len(Sent \o t) <= ArgumentBytes
        <3>1. count \in 0 .. 255
            BY <1>1
        <3> QED
            BY <2>2, <3>1, <1>1, LaidFits
    <2>4. Len(Sent \o t) = idx + m
        <3>1. Len(Sent) = idx
            BY <2>2, <1>1, <1>3, TopBytes DEF l
        <3> QED
            BY <3>1, <1>6 DEF m
    <2> QED
        BY <2>1, <2>3, <2>4, <1>1, <1>2, <1>9, <1>11
<1>13. idx' <= Len(arg') => idx <= l /\ Sent' = Sent \o t
    BY <1>1, <1>2, <1>4, <1>5
<1>14. idx' \in Nat /\ beyond' \in BOOLEAN
    BY <1>1, <1>2, <1>5
<1>15. ArgumentsInOrder' /\ FieldsOK'
    BY <1>1, <1>7, OrderedNext, FieldsNext
<1>16. WithinBuffer' /\ (~beyond => idx <= Len(arg))'
    BY <1>10, <1>12 DEF WithinBuffer
<1> QED
    BY <1>4, <1>13, <1>14, <1>15, <1>16 DEF l

(* A step that leaves the buffer alone.                                     *)
LEMMA BufferKept ==
    ASSUME ConfigInv, fields' = fields, count' = count,
           arg' = arg, idx' = idx, beyond' = beyond
    PROVE  /\ ArgumentsInOrder' /\ WithinBuffer' /\ (~beyond => idx <= Len(arg))'
           /\ FieldsOK' /\ Sent' = Sent /\ Sent \in Seq(ByteSet)
<1>1. Sent' = Sent
    BY DEF Sent
<1>2. Sent \in Seq(ByteSet)
    <2>1. Sent = Top(arg, idx)
        BY DEF Sent, Top
    <2> QED
        BY <2>1, TopBytes DEF ConfigInv, ConfigTypes
<1>3. ArgumentsInOrder'
    BY <1>1, InOrderIsOrdered, OrderedNext DEF ConfigInv
<1>4. FieldsOK'
    BY FieldsNext DEF ConfigInv, ConfigTypes
<1>5. WithinBuffer'
    BY ArgumentBytesNext DEF ConfigInv, WithinBuffer
<1> QED
    BY <1>1, <1>2, <1>3, <1>4, <1>5 DEF ConfigInv

-----------------------------------------------------------------------------
(* Nothing is laid out before the document is loaded.                       *)
LEMMA NothingSent ==
    ASSUME NEW s, s = SubSeq(<< >>, 1, IF 0 <= Len(<< >>) THEN 0 ELSE Len(<< >>))
    PROVE  s = << >> /\ Len(s) = 0 /\ DOMAIN s = {} /\ 2 .. Len(s) = {}
           /\ << >> \in Seq(ByteSet)
<1>1. s = << >>
    OBVIOUS
<1> QED
    BY <1>1

LEMMA InitConfig == Init => ConfigInv
<1> SUFFICES ASSUME Init
             PROVE  ConfigInv
    OBVIOUS
<1>1. /\ fields = << >> /\ pc = "load" /\ arg = << >> /\ idx = 0 /\ beyond = FALSE
      /\ count = 0 /\ built = << >> /\ ops = << >>
    BY DEF Init, InitParser
<1>2. Sent = SubSeq(<< >>, 1, IF 0 <= Len(<< >>) THEN 0 ELSE Len(<< >>))
    BY <1>1 DEF Sent
<1>3. DOMAIN Sent = {} /\ 2 .. Len(Sent) = {} /\ << >> \in Seq(ByteSet)
    BY <1>2, NothingSent, Zenon
<1>4. ArgumentsInOrder
    BY <1>3, Zenon DEF ArgumentsInOrder
<1>5. DOMAIN fields = {}
    BY <1>1
<1>6. FieldsOK
    BY <1>5, FS_EmptySet, Zenon DEF FieldsOK
<1>7. ~Building
    BY <1>1 DEF Building
<1>8. ConfigTypes
    <2>1. count \in Nat /\ count <= 255 /\ idx \in Nat
        BY <1>1
    <2>2. arg \in Seq(ByteSet) /\ built \in Seq(ByteSet) /\ beyond \in BOOLEAN
        BY <1>1, <1>3, Zenon
    <2> QED
        BY <2>1, <2>2, <1>1, <1>6, <1>7, Zenon DEF ConfigTypes
<1>9. StepsLeft
    BY <1>1 DEF StepsLeft
<1>10. FrontLaid
    BY <1>7 DEF FrontLaid
<1>11. WithinBuffer /\ (~beyond => idx <= Len(arg))
    BY <1>1 DEF WithinBuffer
<1> QED
    BY <1>4, <1>8, <1>9, <1>10, <1>11 DEF ConfigInv

(* A field that is set has a value of its type; every other stays.          *)
LEMMA FieldSet ==
    ASSUME FieldsOK, NEW key, NEW type \in Types, NEW val, Fits(type, val),
           fields' = Set(fields, key, type, val)
    PROVE  FieldsOK'
<1> DEFINE D == DOMAIN fields
<1>1. /\ DOMAIN fields' = D \cup {key}
      /\ \A k \in D \cup {key} :
            fields'[k] = IF k = key THEN [type |-> type, val |-> val] ELSE fields[k]
    BY DEF Set
<1>2. IsFiniteSet(D)
    BY Zenon DEF FieldsOK
<1>3. IsFiniteSet(D \cup {key})
    <2> HIDE DEF D
    <2> QED
        BY <1>2, FS_AddElement
<1>4. FieldOK([type |-> type, val |-> val])
    BY DEF Fits, FieldOK
<1>5. \A k \in D \cup {key} : FieldOK(fields'[k])
    <2>1. \A k \in D : FieldOK(fields[k])
        BY Zenon DEF FieldsOK
    <2> HIDE DEF D
    <2> QED
        BY <2>1, <1>1, <1>4
<1>6. \A k \in DOMAIN fields' : FieldOK(fields[k])'
    BY <1>1, <1>5 DEF FieldOK
<1>7. IsFiniteSet(DOMAIN fields')
    BY <1>1, <1>3
<1> QED
    BY <1>6, <1>7, Zenon DEF FieldsOK, FieldOK

LEMMA ParseEntryConfig ==
    ASSUME ConfigInv, ParseEntry
    PROVE  ConfigInv'
<1>1. /\ pc = "load" /\ pc' \in {"load", "terminated"}
      /\ arg' = arg /\ idx' = idx /\ beyond' = beyond /\ count' = count /\ built' = built
    BY DEF ParseEntry, Parse, ParseScalar, ParseSequence, ParseOther
<1>2. FieldsOK /\ arg = << >> /\ built = << >> /\ idx = 0 /\ count = 0 /\ ~beyond
    BY <1>1 DEF ConfigInv, ConfigTypes
<1>3. FieldsOK'
    <2>1. CASE fields' = fields
        BY <2>1, <1>2, FieldsNext
    <2>2. CASE fields' # fields
        <3>1. PICK key, type, val :
                 type \in Types /\ Fits(type, val) /\ fields' = Set(fields, key, type, val)
            <4>1. ParseScalar
                BY <2>2 DEF ParseEntry, Parse, ParseSequence, ParseOther
            <4> DEFINE node == Head(todo).node
                       key == Head(todo).path \o Head(todo).key
            <4>2. /\ node.tag \in Types /\ Fits(node.tag, node.val)
                  /\ fields' = Set(fields, key, node.tag, node.val)
                BY <4>1, <2>2 DEF ParseScalar
            <4> HIDE DEF node, key
            <4> QED
                BY <4>2, Zenon
        <3> QED
            BY <3>1, <1>2, FieldSet
    <2> QED
        BY <2>1, <2>2
<1>4. Sent' = SubSeq(<< >>, 1, IF 0 <= Len(<< >>) THEN 0 ELSE Len(<< >>))
    BY <1>1, <1>2 DEF Sent
<1>5. DOMAIN Sent' = {} /\ 2 .. Len(Sent') = {} /\ << >> \in Seq(ByteSet)
    BY <1>4, NothingSent, Zenon
<1>6. ArgumentsInOrder'
    BY <1>5, Zenon DEF ArgumentsInOrder
<1>7. ~Building'
    BY <1>1 DEF Building
<1>8. ConfigTypes'
    <2>1. count' = 0 /\ idx' = 0 /\ beyond' \in BOOLEAN /\ ~beyond' /\ arg' = << >> /\ built' = << >>
        BY <1>1, <1>2 DEF ConfigInv, ConfigTypes
    <2>2. count' \in Nat /\ count' <= 255 /\ idx' \in Nat
        BY <2>1
    <2> QED
        BY <2>1, <2>2, <1>3, <1>5, <1>7, Zenon DEF ConfigTypes
<1>9. StepsLeft'
    BY <1>1 DEF StepsLeft
<1>10. FrontLaid'
    BY <1>7 DEF FrontLaid
<1>11. WithinBuffer' /\ (~beyond => idx <= Len(arg))'
    BY <1>1, <1>2 DEF WithinBuffer
<1> QED
    BY <1>6, <1>8, <1>9, <1>10, <1>11 DEF ConfigInv

(* The process ends, or the slave is configured: nothing is laid out any    *)
(* more.                                                                    *)
LEMMA NoLongerBuilding ==
    ASSUME ConfigInv, fields' = fields, count' = count, built' \in Seq(ByteSet),
           arg' = arg, idx' = idx, beyond' = beyond,
           pc' \in {"terminated", "configured"}
    PROVE  ConfigInv'
<1>1. /\ ArgumentsInOrder' /\ WithinBuffer' /\ (~beyond => idx <= Len(arg))'
      /\ FieldsOK'
    BY BufferKept
<1>2. ~Building' /\ pc' # "load" /\ pc' # "task" /\ pc' # "init_sdo"
    BY DEF Building
<1>3. ConfigTypes'
    <2>1. /\ count \in Nat /\ count <= 255 /\ arg \in Seq(ByteSet)
          /\ idx \in Nat /\ beyond \in BOOLEAN
        BY DEF ConfigInv, ConfigTypes
    <2> QED
        BY <1>1, <1>2, <2>1, Zenon DEF ConfigTypes
<1>4. StepsLeft' /\ FrontLaid'
    BY <1>2 DEF StepsLeft, FrontLaid
<1> QED
    BY <1>1, <1>3, <1>4 DEF ConfigInv

(* init_task_list() up to its loop.                                         *)
LEMMA BytesOfOne ==
    ASSUME NEW key \in Seq(Names), WidthOf(key) = 1
    PROVE  /\ Bytes(key) \in Seq(ByteSet) /\ Len(Bytes(key)) = 1
           /\ Bytes(key)[1] = [of |-> key, byte |-> 1]
<1> DEFINE wd == WidthOf(key)
<1>1. wd = 1 /\ wd = WidthOf(key) /\ wd \in Nat /\ 1 \in 1 .. wd
    OBVIOUS
<1> HIDE DEF wd
<1>2. /\ Bytes(key) \in Seq(ByteSet) /\ Len(Bytes(key)) = wd
      /\ \A b \in 1 .. wd : Bytes(key)[b] = [of |-> key, byte |-> b]
    BY <1>1, BytesOfField
<1> QED
    BY <1>1, <1>2

LEMMA CountLaid ==
    ASSUME FieldsOK, Has(OfSlave("task_count"), "uint8_t"),
           NEW t, t = Bytes(OfSlave("task_count"))
    PROVE  t \in Seq(ByteSet) /\ Len(t) = 1 /\ Laid(t, 0)
<1> DEFINE key == OfSlave("task_count")
<1>1. key \in Seq(Names)
    <2>1. "task_count" \in Names
        BY DEF Names, Words
    <2> QED
        BY <2>1, TheNames, Pair DEF OfSlave
<1>2. key \in DOMAIN fields /\ WidthOf(key) = 1
    BY FieldWidth DEF Has
<1>3. t \in Seq(ByteSet) /\ Len(t) = 1 /\ t[1] = CountByte
    <2>1. t = Bytes(key) /\ CountByte = [of |-> key, byte |-> 1]
        BY DEF CountByte
    <2> HIDE DEF key
    <2> QED
        BY <1>1, <1>2, <2>1, BytesOfOne
<1>4. CountByte.byte = 1 /\ CountByte.of = key /\ CountByte # NoByte
    BY DEF CountByte, NoByte
<1> HIDE DEF key
<1>5. DOMAIN t = {1} /\ 2 .. Len(t) = {}
    <2>1. DOMAIN t = 1 .. Len(t)
        BY <1>3
    <2>2. 1 .. 1 = {1} /\ 2 .. 1 = {}
        OBVIOUS
    <2> QED
        BY <2>1, <2>2, <1>3
<1>6. Ordered(t)
    <2>1. \A j \in DOMAIN t : t[j] # NoByte
        BY <1>3, <1>4, <1>5
    <2>2. \A j, k \in DOMAIN t : t[j] = t[k] => j = k
        BY <1>5
    <2> QED
        BY <2>1, <2>2, <1>5, Zenon DEF Ordered
<1>7. Ends(t, 0)
    BY <1>2, <1>3, <1>4 DEF Ends
<1> QED
    BY <1>3, <1>5, <1>6, <1>7 DEF Laid

(* A buffer of any length that is large enough has room for the task count. *)
LEMMA RoomForCount ==
    ASSUME FieldsOK, fields' = fields
    PROVE  ArgumentBytes' \in Nat /\ ArgumentBytes' >= 1
<1> DEFINE D == DOMAIN fields
           K == ArgumentKeys'
<1>1. K \in SUBSET D
    BY DEF ArgumentKeys
<1>2. IsFiniteSet(D)
    BY Zenon DEF FieldsOK
<1>3. BytesOf(ArgumentKeys)' = BytesOf(K)
    BY DEF BytesOf
<1> HIDE DEF D, K
<1>4. IsFiniteSet(K)
    BY <1>1, <1>2, FS_Subset
<1>5. IsFiniteSet(BytesOf(K))
    BY <1>4, BytesOfFinite
<1>6. Cardinality(BytesOf(K)) \in Nat
    BY <1>5, FS_CardinalityType
<1>7. ArgumentBytes' = 1 + Cardinality(BytesOf(K))
    BY <1>3 DEF ArgumentBytes
<1> QED
    BY <1>6, <1>7

LEMMA BeginTaskListConfig ==
    ASSUME ConfigInv, BeginTaskList
    PROVE  ConfigInv'
<1>1. /\ FieldsOK /\ fields' = fields /\ built' = built /\ built = << >> /\ idx = 0 /\ ~beyond
      /\ count = 0 /\ arg = << >>
    BY DEF BeginTaskList, Loaded, ConfigInv, ConfigTypes
<1>2. << >> \in Seq(ByteSet)
    OBVIOUS
<1> DEFINE sdo_len == Value(OfSlave("sdo_len"))
           task_count == Value(OfSlave("task_count"))
           clear == [k \in 1 .. sdo_len |-> NoByte]
           bytes == Bytes(OfSlave("task_count"))
<1>3. CASE Terminate /\ UNCHANGED <<arg, idx, beyond, count, app>>
    BY <1>1, <1>2, <1>3, NoLongerBuilding DEF Terminate
<1>4. ASSUME ~(Terminate /\ UNCHANGED <<arg, idx, beyond, count, app>>)
      PROVE  /\ Has(OfSlave("sdo_len"), "uint16_t") /\ Has(OfSlave("task_count"), "uint8_t")
             /\ count' = task_count
             /\ \/ count' = 0 /\ arg' = clear /\ pc' = "refused" /\ UNCHANGED <<idx, beyond, app>>
                \/ /\ count' # 0 /\ arg' = Written(clear, 0, bytes)
                   /\ beyond' = Overrun(clear, 0, bytes)
                   /\ idx' = 1 /\ app' = 1 /\ pc' = "task"
    BY <1>4 DEF BeginTaskList
<1>5. ASSUME ~(Terminate /\ UNCHANGED <<arg, idx, beyond, count, app>>)
      PROVE  sdo_len \in Nat /\ task_count \in Nat /\ task_count <= 255
    <2>1. \A key \in DOMAIN fields : FieldOK(fields[key])
        BY <1>1, Zenon DEF FieldsOK
    <2> QED
        BY <1>4, <1>5, <2>1 DEF Has, Value, FieldOK
<1>6. ASSUME ~(Terminate /\ UNCHANGED <<arg, idx, beyond, count, app>>)
      PROVE  clear \in Seq(ByteSet) /\ Len(clear) = sdo_len
    <2>1. NoByte \in ByteSet
        BY DEF NoByte, ByteSet
    <2>2. sdo_len \in Nat
        BY <1>5, <1>6
    <2> HIDE DEF sdo_len
    <2>3. clear \in [1 .. sdo_len -> ByteSet]
        BY <2>1
    <2> QED
        BY <2>2, <2>3
<1>7. FieldsOK'
    BY <1>1, FieldsNext
<1>8. ASSUME ~(Terminate /\ UNCHANGED <<arg, idx, beyond, count, app>>), count' = 0
      PROVE  ConfigInv'
    <2>1. /\ arg' = clear /\ pc' = "refused" /\ idx' = 0 /\ beyond' = beyond
        BY <1>1, <1>4, <1>8
    <2>2. arg' \in Seq(ByteSet)
        BY <1>6, <1>8, <2>1
    <2>3. Sent' = Top(arg', 0)
        BY <2>1 DEF Sent, Top
    <2>4. Sent' \in Seq(ByteSet) /\ Len(Sent') = 0
        <3>1. Len(arg') \in Nat /\ 0 \in Nat
            BY <2>2
        <3>2. 0 <= Len(arg')
            BY <3>1
        <3> QED
            BY <2>2, <2>3, <3>1, <3>2, TopBytes
    <2>5. DOMAIN Sent' = {} /\ 2 .. Len(Sent') = {}
        BY <2>4
    <2>6. ArgumentsInOrder'
        BY <2>5, Zenon DEF ArgumentsInOrder
    <2>7. ~Building' /\ pc' # "load" /\ pc' # "task" /\ pc' # "init_sdo"
        BY <2>1 DEF Building
    <2>8. ConfigTypes'
        <3>1. count' \in Nat /\ count' <= 255 /\ idx' \in Nat
            BY <1>8, <2>1
        <3>2. beyond \in BOOLEAN
            BY DEF ConfigInv, ConfigTypes
        <3>3. beyond' \in BOOLEAN /\ built' \in Seq(ByteSet)
            BY <2>1, <3>2, <1>1, <1>2, Zenon
        <3> QED
            BY <1>7, <2>2, <2>7, <3>1, <3>3, Zenon DEF ConfigTypes
    <2>9. StepsLeft' /\ FrontLaid'
        BY <2>7 DEF StepsLeft, FrontLaid
    <2>10. WithinBuffer'
        BY <1>1, <2>1, Zenon DEF WithinBuffer
    <2>11. (~beyond => idx <= Len(arg))'
        <3>1. idx' = 0
            BY <2>1
        <3> HIDE DEF clear
        <3>2. Len(arg') \in Nat
            BY <2>2
        <3>3. idx' <= Len(arg')
            BY <3>1, <3>2
        <3> QED
            BY <3>3, Zenon
    <2> QED
        BY <2>6, <2>8, <2>9, <2>10, <2>11 DEF ConfigInv
<1>9. ASSUME ~(Terminate /\ UNCHANGED <<arg, idx, beyond, count, app>>), count' # 0
      PROVE  ConfigInv'
    <2>1. /\ arg' = Written(clear, 0, bytes) /\ beyond' = Overrun(clear, 0, bytes)
          /\ idx' = 1 /\ app' = 1 /\ pc' = "task" /\ count' = task_count
        BY <1>4, <1>9
    <2>2. bytes \in Seq(ByteSet) /\ Len(bytes) = 1 /\ Laid(bytes, 0)
        BY <1>1, <1>4, <1>9, CountLaid
    <2>3. clear \in Seq(ByteSet) /\ Len(clear) \in Nat
        BY <1>5, <1>6, <1>9
    <2>4. count' \in Nat /\ count' <= 255
        BY <1>5, <1>9, <2>1
    <2>5. beyond' \in BOOLEAN /\ (beyond' <=> 0 + Len(bytes) > Len(clear))
        <3>1. Overrun(clear, 0, bytes) \in BOOLEAN
            BY DEF Overrun
        <3>2. Overrun(clear, 0, bytes) <=> 0 + Len(bytes) > Len(clear)
            BY DEF Overrun
        <3> QED
            BY <2>1, <3>1, <3>2, Zenon
    <2> HIDE DEF clear, bytes, sdo_len, task_count
    <2>6. IsCopy(clear, 0, bytes, arg')
        <3>1. 0 \in Nat
            OBVIOUS
        <3> QED
            BY <3>1, <2>1, <2>2, <2>3, TopCopied, Zenon
    <2>7. Top(clear, 0) = << >> /\ Top(clear, 0) \o bytes = bytes
        <3>1. 0 \in Nat /\ 0 <= Len(clear)
            BY <2>3
        <3>2. Top(clear, 0) \in Seq(ByteSet) /\ Len(Top(clear, 0)) = 0
            BY <2>3, <3>1, TopBytes
        <3> QED
            BY <2>2, <3>2, EmptyJoined
    <2>8. Sent' = Top(arg', 0 + Len(bytes))
        BY <2>1, <2>2 DEF Sent, Top
    <2>9. arg' \in Seq(ByteSet) /\ Len(arg') = Len(clear)
        BY <2>6, Zenon DEF IsCopy
    <2>10. /\ Len(Sent') <= Len(bytes) /\ \A j \in 1 .. Len(Sent') : Sent'[j] = bytes[j]
        <3>1. 0 <= Len(clear)
            BY <2>3
        <3> QED
            BY <3>1, <2>6, <2>7, <2>8, Zenon DEF IsCopy
    <2>11. Sent' \in Seq(ByteSet)
        <3>1. 0 + Len(bytes) \in Nat
            BY <2>2
        <3> QED
            BY <3>1, <2>8, <2>9, TopBytes
    <2>12. ArgumentsInOrder'
        <3>1. Ordered(bytes)
            BY <2>2 DEF Laid
        <3>2. Ordered(Sent')
            BY <3>1, <2>2, <2>10, <2>11, OrderedPrefix
        <3> QED
            BY <3>2, <1>1, OrderedNext
    <2>13. WithinBuffer' /\ (~beyond => idx <= Len(arg))'
        <3>1. ArgumentBytes' \in Nat /\ ArgumentBytes' >= 1
            BY <1>1, RoomForCount
        <3>2. beyond' <=> 1 > Len(arg')
            BY <2>2, <2>5, <2>9
        <3>3. Len(arg') \in Nat
            BY <2>9
        <3>4. Len(arg') >= ArgumentBytes' => ~beyond'
            BY <3>1, <3>2, <3>3
        <3>5. ~beyond' => idx' <= Len(arg')
            BY <3>2, <3>3, <2>1
        <3> QED
            BY <3>4, <3>5 DEF WithinBuffer
    <2>14. ConfigTypes'
        <3>1. app' \in 1 .. count'
            BY <1>9, <2>1, <2>4
        <3>2. idx' \in Nat /\ pc' # "load"
            BY <2>1
        <3>3. built' \in Seq(ByteSet)
            BY <1>1, <1>2
        <3> QED
            BY <1>7, <2>4, <2>5, <2>9, <3>1, <3>2, <3>3, Zenon DEF ConfigTypes
    <2>15. StepsLeft'
        BY <1>1, <2>1 DEF StepsLeft
    <2>16. FrontLaid'
        <3>1. SUFFICES ASSUME idx' <= Len(arg')
                       PROVE  Laid(SoFar, Done)'
            BY <2>1 DEF FrontLaid
        <3>2. 0 + Len(bytes) <= Len(clear)
            BY <3>1, <2>1, <2>2, <2>9
        <3>3. Sent' = bytes
            BY <3>2, <2>6, <2>7, <2>8, Zenon DEF IsCopy
        <3>4. SoFar' = bytes
            BY <3>3, <1>1, <2>2, NothingJoined DEF SoFar
        <3>5. Done' = 0
            BY <2>1 DEF Done
        <3> QED
            BY <3>4, <3>5, <2>2, <1>1, LaidNext
    <2> QED
        BY <2>12, <2>13, <2>14, <2>15, <2>16 DEF ConfigInv
<1> QED
    BY <1>3, <1>8, <1>9

-----------------------------------------------------------------------------
(* The loop over the tasks.  What is left to be appended is not laid out:   *)
(* it does not become so when another field is, and nothing is laid out of  *)
(* a task that has yet to come.                                             *)
LEMMA NotInTail ==
    ASSUME NEW w, NEW s, NEW i, Proper(s, ArgumentFields), s # << >>, NotIn(w, s, i)
    PROVE  NotIn(w, Tail(s), i)
<1> DEFINE t == Tail(s)
<1>1. \A k \in DOMAIN t : k + 1 \in DOMAIN s /\ t[k] = s[k + 1]
    BY TailProper
<1> HIDE DEF t
<1>2. NotIn(w, t, i)
    BY <1>1 DEF NotIn, Appends
<1> QED
    BY <1>2 DEF t

LEMMA NotInExtended ==
    ASSUME NEW w \in Seq(ByteSet), NEW s, NEW i \in Tasks, NEW f \in Seq(Names),
           Proper(s, ArgumentFields), NotIn(w, s, i), WidthOf(OfTask(i, f)) \in Nat,
           \A k \in DOMAIN s : Appends(s, k) => s[k].field # f
    PROVE  NotIn(w \o Bytes(OfTask(i, f)), s, i)
<1> DEFINE key == OfTask(i, f)
           wd == WidthOf(key)
           l == Len(w)
           v == w \o Bytes(key)
<1>1. /\ Len(v) = l + wd /\ l \in Nat /\ wd \in Nat
      /\ \A j \in 1 .. l : v[j] = w[j]
      /\ \A b \in 1 .. wd : v[l + b] = [of |-> key, byte |-> b]
    <2>1. key \in Seq(Names)
        BY TaskKey
    <2>2. wd \in Nat /\ wd = WidthOf(key) /\ l \in Nat /\ l = Len(w)
        OBVIOUS
    <2> HIDE DEF key, wd, l
    <2> QED
        BY <2>1, <2>2, BytesJoined
<1> HIDE DEF wd, l, v
<1>2. ASSUME NEW k \in DOMAIN s, Appends(s, k), NEW j \in 1 .. Len(v)
      PROVE  v[j].of # OfTask(i, s[k].field)
    <2>1. s[k].field \in Seq(Names) /\ s[k].field # f
        <3>1. s[k].field \in ArgumentFields
            BY <1>2 DEF Proper
        <3> QED
            BY <3>1, <1>2, ArgumentFieldsAreFields
    <2>2. j \in 1 .. l \/ (j - l \in 1 .. wd /\ j = l + (j - l))
        BY <1>1, Positions
    <2>3. CASE j \in 1 .. l
        BY <2>3, <1>1, <1>2 DEF NotIn, l
    <2>4. CASE j - l \in 1 .. wd /\ j = l + (j - l)
        <3> DEFINE b == j - l
        <3>1. b \in 1 .. wd /\ j = l + b
            BY <2>4
        <3> HIDE DEF b
        <3>2. v[l + b] = [of |-> key, byte |-> b]
            BY <3>1, <1>1
        <3>3. v[j].of = key
            BY <3>1, <3>2
        <3> QED
            BY <3>3, <2>1, TaskKeysDiffer
    <2> QED
        BY <2>2, <2>3, <2>4
<1>3. NotIn(v, s, i)
    BY <1>2 DEF NotIn
<1> QED
    BY <1>3 DEF v, key

LEMMA NotYetLaid ==
    ASSUME NEW w, NEW n \in Nat, NEW i \in Tasks, n < i, Laid(w, n),
           NEW f \in Seq(Names), Len(f) >= 1
    PROVE  \A j \in 1 .. Len(w) : w[j].of # OfTask(i, f)
<1> SUFFICES ASSUME NEW j \in 1 .. Len(w), w[j].of = OfTask(i, f)
             PROVE  FALSE
    OBVIOUS
<1>1. CASE j = 1
    <2>1. w[j].of = OfSlave("task_count")
        BY <1>1 DEF Laid, CountByte
    <2> DEFINE key == OfTask(i, f)
               count_key == OfSlave("task_count")
    <2>2. Len(key) >= 3
        BY TaskKey
    <2>3. Len(count_key) = 2
        <3>1. "task_count" \in Names
            BY DEF Names, Words
        <3> QED
            BY <3>1, TheNames, Pair DEF OfSlave
    <2>4. key = count_key
        BY <2>1
    <2> HIDE DEF key, count_key
    <2>5. Len(key) = Len(count_key)
        BY <2>4
    <2> QED
        BY <2>2, <2>3, <2>5
<1>2. CASE j # 1
    <2>1. j \in 2 .. Len(w)
        BY <1>2 DEF Laid
    <2>2. PICK m \in 1 .. n, g \in AllFields : Argument(w[j], m, g)
        BY <2>1 DEF Laid
    <2>3. m \in Tasks /\ m # i
        BY DEF Tasks
    <2>4. w[j].of = OfTask(m, g) /\ g \in Seq(Names)
        BY <2>2, AllFieldsAreFields DEF Argument
    <2> QED
        BY <2>3, <2>4, TaskKeysDiffer
<1> QED
    BY <1>1, <1>2

(* One operation of an init_sdo() done, and the task not yet.               *)
LEMMA OperationDone ==
    ASSUME ConfigInv, pc = "init_sdo", ops # << >>,
           pc' = pc, app' = app, count' = count, ops' = Tail(ops),
           FieldsOK', arg' \in Seq(ByteSet), idx' \in Nat, beyond' \in BOOLEAN,
           built' \in Seq(ByteSet),
           ArgumentsInOrder', WithinBuffer', (~beyond => idx <= Len(arg))', fields' = fields,
           built' # << >> => Copies(ops'),
           idx' <= Len(arg') => Laid(SoFar', app) /\ NotIn(SoFar', ops', app)
    PROVE  ConfigInv'
<1>1. app \in 1 .. count /\ count \in Nat /\ count <= 255 /\ Proper(ops, ArgumentFields)
    BY DEF ConfigInv, ConfigTypes, StepsLeft, Building
<1>2. Proper(ops', ArgumentFields)
    BY <1>1, TailProper
<1>3. ConfigTypes'
    <2>1. pc' # "load"
        OBVIOUS
    <2> QED
        BY <1>1, <2>1, Zenon DEF ConfigTypes
<1>4. StepsLeft'
    BY <1>2, Zenon DEF StepsLeft, Copies
<1>5. FrontLaid'
    <2>1. SUFFICES ASSUME idx' <= Len(arg')
                   PROVE  Laid(SoFar, Done)' /\ Unused'
        BY DEF FrontLaid
    <2>2. Done' = app
        BY DEF Done
    <2>3. Laid(SoFar, Done)'
        BY <2>1, <2>2, LaidNext
    <2>4. Unused'
        BY <2>1 DEF Unused
    <2> QED
        BY <2>3, <2>4
<1> QED
    BY <1>3, <1>4, <1>5, Zenon DEF ConfigInv

(* In a task: what it lays out so far, and of which fields.                 *)
LEMMA InTask ==
    ASSUME ConfigInv, pc = "init_sdo"
    PROVE  /\ Proper(ops, ArgumentFields)
           /\ built # << >> => Copies(ops)
           /\ built \in Seq(ByteSet) /\ arg \in Seq(ByteSet) /\ idx \in Nat /\ beyond \in BOOLEAN
           /\ app \in Tasks /\ app \in 0 .. count /\ FieldsOK
           /\ idx <= Len(arg) => Laid(SoFar, app) /\ NotIn(SoFar, ops, app)
<1>1. /\ Proper(ops, ArgumentFields)
      /\ built # << >> => Copies(ops)
    BY DEF ConfigInv, StepsLeft, Copies
<1>2. /\ built \in Seq(ByteSet) /\ arg \in Seq(ByteSet) /\ idx \in Nat /\ beyond \in BOOLEAN
      /\ FieldsOK /\ app \in 1 .. count /\ count \in Nat /\ count <= 255
    BY DEF ConfigInv, ConfigTypes, Building
<1>3. app \in Tasks /\ app \in 0 .. count
    BY <1>2 DEF Tasks
<1>4. idx <= Len(arg) => Laid(SoFar, app) /\ NotIn(SoFar, ops, app)
    BY DEF ConfigInv, FrontLaid, Building, Done, Unused
<1> QED
    BY <1>1, <1>2, <1>3, <1>4

LEMMA LookUpConfig ==
    ASSUME ConfigInv, LookUp
    PROVE  ConfigInv'
<1>1. /\ pc = "init_sdo" /\ ops # << >> /\ Head(ops).op \in {"need", "default"}
      /\ ops' = Tail(ops) /\ fields' = fields /\ arg' = arg /\ idx' = idx
      /\ beyond' = beyond /\ count' = count /\ app' = app /\ built' = built
      /\ pc' = pc \/ pc' = "terminated"
    BY DEF LookUp, Doing, Terminate
<1>2. /\ Proper(ops, ArgumentFields)
      /\ built # << >> => Copies(ops)
      /\ built \in Seq(ByteSet) /\ arg \in Seq(ByteSet) /\ idx \in Nat /\ beyond \in BOOLEAN
      /\ idx <= Len(arg) => Laid(SoFar, app) /\ NotIn(SoFar, ops, app)
    BY <1>1, InTask
<1>3. CASE pc' = "terminated"
    BY <1>1, <1>2, <1>3, NoLongerBuilding
<1>4. CASE pc' = pc
    <2>1. /\ ArgumentsInOrder' /\ WithinBuffer' /\ (~beyond => idx <= Len(arg))'
          /\ FieldsOK' /\ Sent' = Sent
        BY <1>1, BufferKept
    <2>2. SoFar' = SoFar
        BY <1>1, <2>1 DEF SoFar
    <2>3. built' # << >> => Copies(ops')
        <3>1. Head(ops).op # "copy"
            BY <1>1
        <3> QED
            BY <3>1, <1>1, <1>2, TailProper
    <2>4. idx' <= Len(arg') => Laid(SoFar', app) /\ NotIn(SoFar', ops', app)
        BY <1>1, <1>2, <2>2, NotInTail
    <2>5. arg' \in Seq(ByteSet) /\ idx' \in Nat /\ beyond' \in BOOLEAN /\ built' \in Seq(ByteSet)
        BY <1>1, <1>2, Zenon
    <2> QED
        BY <1>1, <1>4, <2>1, <2>3, <2>4, <2>5, OperationDone
<1> QED
    BY <1>1, <1>3, <1>4

LEMMA AppendFieldConfig ==
    ASSUME ConfigInv, AppendField
    PROVE  ConfigInv'
<1> DEFINE f == Head(ops).field
           key == OfTask(app, f)
<1>1. /\ pc = "init_sdo" /\ ops # << >> /\ Head(ops).op = "append"
      /\ ops' = Tail(ops) /\ fields' = fields /\ arg' = arg /\ idx' = idx
      /\ beyond' = beyond /\ count' = count /\ app' = app
    BY DEF AppendField, Doing
<1>2. \/ key \in DOMAIN fields /\ built' = built \o Bytes(key) /\ pc' = pc
      \/ pc' = "terminated" /\ built' = built
    BY DEF AppendField, Terminate
<1>3. /\ Proper(ops, ArgumentFields)
      /\ built \in Seq(ByteSet) /\ arg \in Seq(ByteSet) /\ idx \in Nat /\ beyond \in BOOLEAN
      /\ app \in Tasks /\ FieldsOK
      /\ idx <= Len(arg) => Laid(SoFar, app) /\ NotIn(SoFar, ops, app)
    BY <1>1, InTask
<1>4. /\ f \in ArgumentFields /\ Copies(Tail(ops)) /\ Proper(Tail(ops), ArgumentFields)
      /\ \A k \in DOMAIN Tail(ops) : Appends(Tail(ops), k) => Tail(ops)[k].field # f
    BY <1>1, <1>3, TailProper
<1>5. f \in Seq(Names) /\ f # Sdo("task_type") /\ f \in AllFields
    BY <1>4, ArgumentFieldsAreFields DEF AllFields
<1>6. CASE pc' = "terminated" /\ built' = built
    BY <1>1, <1>3, <1>6, NoLongerBuilding
<1>7. CASE key \in DOMAIN fields /\ built' = built \o Bytes(key) /\ pc' = pc
    <2>1. /\ ArgumentsInOrder' /\ WithinBuffer' /\ (~beyond => idx <= Len(arg))'
          /\ FieldsOK' /\ Sent' = Sent /\ Sent \in Seq(ByteSet)
        BY <1>1, BufferKept
    <2>2. WidthOf(key) \in Nat
        <3>1. WidthOf(key) \in 0 .. 4
            BY <1>3, <1>7, FieldWidth
        <3> QED
            BY <3>1
    <2>3. key \in Seq(Names)
        BY <1>3, <1>5, TaskKey
    <2>4. Bytes(key) \in Seq(ByteSet)
        <3> HIDE DEF key
        <3> QED
            BY <2>2, <2>3, BytesOfField
    <2>5. built' \in Seq(ByteSet) /\ SoFar' = SoFar \o Bytes(key) /\ SoFar \in Seq(ByteSet)
        <3> DEFINE t == Bytes(key)
        <3>1. t \in Seq(ByteSet) /\ built' = built \o t /\ Sent' = Sent
            BY <1>7, <2>1, <2>4
        <3> HIDE DEF t
        <3>2. built' \in Seq(ByteSet) /\ Sent \o built \in Seq(ByteSet)
            BY <3>1, <1>3, <2>1
        <3>3. Sent \o (built \o t) = (Sent \o built) \o t
            BY <3>1, <1>3, <2>1, JoinedThrice, Zenon
        <3>4. SoFar' = SoFar \o t
            BY <3>1, <3>3 DEF SoFar
        <3> QED
            BY <3>2, <3>4 DEF SoFar, t
    <2>6. ASSUME idx <= Len(arg)
          PROVE  Laid(SoFar \o Bytes(key), app) /\ NotIn(SoFar \o Bytes(key), Tail(ops), app)
        <3>1. Laid(SoFar, app) /\ NotIn(SoFar, ops, app)
            BY <1>3, <2>6
        <3>2. app \in Nat /\ app # app + 1
            BY <1>3 DEF Tasks
        <3>3. \A j \in 1 .. Len(SoFar) : SoFar[j].of # OfTask(app, f)
            <4>1. 1 \in DOMAIN ops /\ ops[1] = Head(ops)
                BY <1>1, <1>3 DEF Proper
            <4> QED
                BY <4>1, <3>1, <1>1 DEF NotIn, Appends
        <3>4. Laid(SoFar \o Bytes(key), app)
            <4>1. key \in DOMAIN fields
                BY <1>7
            <4> HIDE DEF f
            <4> QED
                BY <3>1, <3>2, <3>3, <4>1, <1>3, <1>5, <2>2, LaidExtended
        <3>5. NotIn(SoFar, Tail(ops), app)
            BY <3>1, <1>1, <1>3, NotInTail
        <3>6. NotIn(SoFar \o Bytes(key), Tail(ops), app)
            <4> HIDE DEF f
            <4> QED
                BY <3>5, <1>3, <1>4, <1>5, <2>2, <2>5, NotInExtended
        <3> QED
            BY <3>4, <3>6
    <2>7. idx' <= Len(arg') => Laid(SoFar', app) /\ NotIn(SoFar', ops', app)
        <3> HIDE DEF key
        <3> QED
            BY <1>1, <2>5, <2>6
    <2>8. arg' \in Seq(ByteSet) /\ idx' \in Nat /\ beyond' \in BOOLEAN /\ Copies(ops')
        BY <1>1, <1>3, <1>4, Zenon
    <2> HIDE DEF key, f
    <2> QED
        BY <1>1, <1>7, <2>1, <2>5, <2>7, <2>8, OperationDone
<1> QED
    BY <1>2, <1>6, <1>7

LEMMA CopyBuiltConfig ==
    ASSUME ConfigInv, CopyBuilt
    PROVE  ConfigInv'
<1>1. /\ pc = "init_sdo" /\ ops # << >> /\ pc' = pc
      /\ ops' = Tail(ops) /\ fields' = fields /\ count' = count /\ app' = app
      /\ arg' = Written(arg, idx, built) /\ beyond' = (beyond \/ Overrun(arg, idx, built))
      /\ idx' = idx + Len(built) /\ built' = << >>
    BY DEF CopyBuilt, Doing
<1>2. /\ Proper(ops, ArgumentFields) /\ built \in Seq(ByteSet) /\ app \in 0 .. count
      /\ idx <= Len(arg) => Laid(SoFar, app) /\ NotIn(SoFar, ops, app)
    BY <1>1, InTask
<1>3. idx <= Len(arg) => Laid(Sent \o built, app)
    BY <1>2 DEF SoFar
<1>4. /\ ArgumentsInOrder' /\ WithinBuffer' /\ (~beyond => idx <= Len(arg))'
      /\ FieldsOK' /\ arg' \in Seq(ByteSet) /\ idx' \in Nat /\ beyond' \in BOOLEAN
      /\ idx' <= Len(arg') => idx <= Len(arg) /\ Sent' = Sent \o built
    BY <1>1, <1>2, <1>3, Copied
<1>5. ASSUME idx' <= Len(arg')
      PROVE  Laid(SoFar', app) /\ NotIn(SoFar', ops', app)
    <2>1. idx <= Len(arg) /\ Sent' = SoFar
        BY <1>4, <1>5 DEF SoFar
    <2>2. SoFar' = SoFar
        <3>1. SoFar \in Seq(ByteSet)
            BY <2>1, <1>2 DEF Laid
        <3>2. SoFar' = SoFar \o << >>
            BY <2>1, <1>1 DEF SoFar
        <3> QED
            BY <3>1, <3>2, NothingJoined
    <2> QED
        BY <2>1, <2>2, <1>1, <1>2, NotInTail
<1>6. built' \in Seq(ByteSet)
    BY <1>1
<1> QED
    BY <1>1, <1>4, <1>5, <1>6, OperationDone

LEMMA EndTaskConfig ==
    ASSUME ConfigInv, EndTask
    PROVE  ConfigInv'
<1>1. /\ pc = "init_sdo" /\ ops = << >> /\ ops' = ops /\ built' = built
      /\ fields' = fields /\ arg' = arg /\ idx' = idx /\ beyond' = beyond /\ count' = count
      /\ \/ app < count /\ app' = app + 1 /\ pc' = "task"
         \/ pc' = "configured"
    BY DEF EndTask
<1>2. /\ built # << >> => Copies(ops)
      /\ built \in Seq(ByteSet) /\ arg \in Seq(ByteSet) /\ idx \in Nat /\ beyond \in BOOLEAN
      /\ app \in 0 .. count /\ FieldsOK
      /\ idx <= Len(arg) => Laid(SoFar, app) /\ NotIn(SoFar, ops, app)
    BY <1>1, InTask
<1>3. built = << >>
    <2>1. DOMAIN ops = {}
        BY <1>1
    <2> QED
        BY <2>1, <1>2 DEF Copies
<1>4. CASE pc' = "configured"
    BY <1>1, <1>2, <1>4, NoLongerBuilding
<1>5. CASE app < count /\ app' = app + 1 /\ pc' = "task"
    <2>1. /\ ArgumentsInOrder' /\ WithinBuffer' /\ (~beyond => idx <= Len(arg))'
          /\ FieldsOK' /\ Sent' = Sent
        BY <1>1, BufferKept
    <2>2. ConfigTypes'
        <3>1. count \in Nat /\ count <= 255
            BY DEF ConfigInv, ConfigTypes
        <3>2. app' \in 1 .. count
            BY <3>1, <1>2, <1>5
        <3>3. pc' # "load"
            BY <1>5
        <3> QED
            BY <3>1, <3>2, <3>3, <1>1, <1>2, <2>1, Zenon DEF ConfigTypes
    <2>3. StepsLeft'
        BY <1>1, <1>3, <1>5 DEF StepsLeft
    <2>4. SoFar' = SoFar
        BY <1>1, <2>1 DEF SoFar
    <2>5. Done' = app
        BY <1>2, <1>5 DEF Done
    <2>6. FrontLaid'
        <3>1. SUFFICES ASSUME idx' <= Len(arg')
                       PROVE  Laid(SoFar, Done)'
            BY <1>5 DEF FrontLaid
        <3> QED
            BY <3>1, <1>1, <1>2, <2>4, <2>5, LaidNext
    <2> QED
        BY <2>1, <2>2, <2>3, <2>6 DEF ConfigInv
<1> QED
    BY <1>1, <1>4, <1>5

LEMMA BeginTaskConfig ==
    ASSUME ConfigInv, BeginTask
    PROVE  ConfigInv'
<1> DEFINE f == Sdo("task_type")
           key == OfTask(app, f)
           bytes == Bytes(key)
           operations == init_sdo(Value(key), app)
<1>1. /\ pc = "task" /\ fields' = fields /\ count' = count /\ app' = app /\ built' = built
      /\ \/ /\ pc' = "terminated"
            /\ arg' = arg /\ idx' = idx /\ beyond' = beyond
         \/ /\ Has(key, "uint8_t") /\ Value(key) \in TaskTypes
            /\ arg' = Written(arg, idx, bytes) /\ beyond' = (beyond \/ Overrun(arg, idx, bytes))
            /\ idx' = idx + 1 /\ ops' = operations /\ pc' = "init_sdo"
    BY DEF BeginTask, Terminate
<1>2. /\ FieldsOK /\ count \in Nat /\ count <= 255 /\ app \in 1 .. count
      /\ built = << >> /\ built \in Seq(ByteSet) /\ arg \in Seq(ByteSet) /\ idx \in Nat
    BY <1>1 DEF ConfigInv, ConfigTypes, StepsLeft, Building
<1>3. app \in Tasks /\ app \in 0 .. count /\ app - 1 \in Nat
    BY <1>2 DEF Tasks
<1>4. Sent \in Seq(ByteSet) /\ SoFar = Sent
    <2>1. Sent = Top(arg, idx)
        BY DEF Sent, Top
    <2>2. Sent \in Seq(ByteSet)
        BY <2>1, <1>2, TopBytes
    <2> QED
        BY <2>2, <1>2, NothingJoined DEF SoFar
<1>5. idx <= Len(arg) => Laid(Sent, app - 1)
    BY <1>1, <1>4 DEF ConfigInv, FrontLaid, Building, Done
<1>6. CASE /\ pc' = "terminated"
           /\ arg' = arg /\ idx' = idx /\ beyond' = beyond
    BY <1>1, <1>2, <1>6, NoLongerBuilding
<1>7. CASE /\ Has(key, "uint8_t") /\ Value(key) \in TaskTypes
           /\ arg' = Written(arg, idx, bytes) /\ beyond' = (beyond \/ Overrun(arg, idx, bytes))
           /\ idx' = idx + 1 /\ ops' = operations /\ pc' = "init_sdo"
    <2>1. f \in Seq(Names) /\ f \in AllFields /\ Len(f) >= 1
        <3>1. f \in Seq(Names) /\ f \in AllFields
            BY AllFieldsAreFields DEF AllFields
        <3>2. Len(f) >= 2
            BY <3>1, AllFieldsAreFields
        <3> HIDE DEF f
        <3> QED
            BY <3>1, <3>2
    <2>2. key \in DOMAIN fields /\ WidthOf(key) = 1 /\ key \in Seq(Names)
        <3>1. key \in DOMAIN fields /\ fields[key].type = "uint8_t"
            BY <1>7 DEF Has
        <3>2. key \in Seq(Names)
            BY <2>1, <1>3, TaskKey
        <3> HIDE DEF key
        <3> QED
            BY <3>1, <3>2, <1>2, FieldWidth
    <2>3. bytes \in Seq(ByteSet) /\ Len(bytes) = 1
        <3> HIDE DEF key
        <3> QED
            BY <2>2, BytesOfOne
    <2>4. Proper(operations, ArgumentFields)
        BY <1>7, init_sdoProper
    <2>5. ASSUME idx <= Len(arg)
          PROVE  Laid(Sent \o bytes, app) /\ NotIn(Sent \o bytes, operations, app)
        <3> DEFINE n == app - 1
        <3>1. Laid(Sent, n)
            BY <1>5, <2>5
        <3>2. n \in Nat /\ n < app /\ app = n + 1
            BY <1>2
        <3>3. WidthOf(key) \in Nat /\ WidthOf(key) > 0 /\ key \in DOMAIN fields
            <4> HIDE DEF key
            <4> QED
                BY <2>2
        <3> HIDE DEF n, operations
        <3>4. \A j \in 1 .. Len(Sent) : Sent[j].of # OfTask(app, f)
            BY <3>1, <3>2, <1>3, <2>1, NotYetLaid
        <3>5. Laid(Sent \o Bytes(OfTask(app, f)), app)
            BY <3>1, <3>2, <3>3, <3>4, <1>3, <2>1, LaidExtended
        <3>6. NotIn(Sent, operations, app)
            <4> SUFFICES ASSUME NEW k \in DOMAIN operations, Appends(operations, k)
                         PROVE  \A j \in 1 .. Len(Sent) :
                                    Sent[j].of # OfTask(app, operations[k].field)
                BY DEF NotIn
            <4> DEFINE g == operations[k].field
            <4>1. g \in ArgumentFields
                BY <2>4 DEF Proper
            <4> HIDE DEF g
            <4>2. g \in Seq(Names) /\ Len(g) >= 1
                BY <4>1, ArgumentFieldsAreFields
            <4>3. \A j \in 1 .. Len(Sent) : Sent[j].of # OfTask(app, g)
                BY <4>2, <3>1, <3>2, <1>3, NotYetLaid
            <4> QED
                BY <4>3 DEF g
        <3>7. \A k \in DOMAIN operations : Appends(operations, k) => operations[k].field # f
            BY <2>4, ArgumentFieldsAreFields DEF Proper
        <3> HIDE DEF f
        <3>8. NotIn(Sent \o Bytes(OfTask(app, f)), operations, app)
            BY <3>3, <3>6, <3>7, <1>3, <1>4, <2>1, <2>4, NotInExtended
        <3> QED
            BY <3>5, <3>8
    <2>6. idx' = idx + Len(bytes)
        BY <1>7, <2>3
    <2> HIDE DEF bytes, operations
    <2>7. /\ ArgumentsInOrder' /\ WithinBuffer' /\ (~beyond => idx <= Len(arg))'
          /\ FieldsOK' /\ arg' \in Seq(ByteSet) /\ idx' \in Nat /\ beyond' \in BOOLEAN
          /\ idx' <= Len(arg') => idx <= Len(arg) /\ Sent' = Sent \o bytes
        <3>1. idx <= Len(arg) => Laid(Sent \o bytes, app)
            BY <2>5
        <3> QED
            BY <3>1, <1>1, <1>3, <1>7, <2>3, <2>6, Copied
    <2>8. ConfigTypes'
        <3>1. pc' # "load"
            BY <1>7
        <3> QED
            BY <3>1, <1>1, <1>2, <2>7, Zenon DEF ConfigTypes
    <2>9. StepsLeft'
        BY <1>1, <1>2, <1>7, <2>4, Zenon DEF StepsLeft
    <2>10. FrontLaid'
        <3>1. SUFFICES ASSUME idx' <= Len(arg')
                       PROVE  Laid(SoFar, Done)' /\ Unused'
            BY DEF FrontLaid
        <3>2. idx <= Len(arg) /\ Sent' = Sent \o bytes
            BY <3>1, <2>7
        <3>3. Laid(Sent \o bytes, app) /\ NotIn(Sent \o bytes, operations, app)
            BY <3>2, <2>5
        <3>4. SoFar' = Sent \o bytes
            <4>1. Sent \o bytes \in Seq(ByteSet)
                BY <1>4, <2>3
            <4>2. SoFar' = (Sent \o bytes) \o << >>
                BY <3>2, <1>1, <1>2 DEF SoFar
            <4> QED
                BY <4>1, <4>2, NothingJoined
        <3>5. Done' = app
            BY <1>1, <1>7 DEF Done
        <3>6. Laid(SoFar, Done)'
            BY <3>3, <3>4, <3>5, <1>1, LaidNext
        <3>7. Unused'
            BY <3>3, <3>4, <1>1, <1>7 DEF Unused
        <3> QED
            BY <3>6, <3>7
    <2> QED
        BY <2>7, <2>8, <2>9, <2>10 DEF ConfigInv
<1> QED
    BY <1>1, <1>6, <1>7

-----------------------------------------------------------------------------
LEMMA ConfigStutters ==
    ASSUME ConfigInv, UNCHANGED vars
    PROVE  ConfigInv'
<1>1. /\ fields' = fields /\ arg' = arg /\ idx' = idx /\ beyond' = beyond /\ count' = count
      /\ app' = app /\ ops' = ops /\ built' = built /\ pc' = pc
    BY DEF vars, parser
<1>2. /\ ArgumentsInOrder' /\ WithinBuffer' /\ (~beyond => idx <= Len(arg))'
      /\ FieldsOK' /\ Sent' = Sent
    BY <1>1, BufferKept
<1>3. ConfigTypes'
    BY <1>1, <1>2 DEF ConfigInv, ConfigTypes, Building
<1>4. StepsLeft'
    BY <1>1 DEF ConfigInv, StepsLeft
<1>5. SoFar' = SoFar /\ Done' = Done
    BY <1>1, <1>2 DEF SoFar, Done
<1>6. FrontLaid'
    <2>1. SUFFICES ASSUME Building', idx' <= Len(arg')
                   PROVE  Laid(SoFar, Done)' /\ (pc' = "init_sdo" => Unused')
        BY DEF FrontLaid
    <2>2. Laid(SoFar, Done) /\ (pc = "init_sdo" => Unused)
        BY <2>1, <1>1 DEF ConfigInv, FrontLaid, Building
    <2>3. Laid(SoFar, Done)'
        BY <2>2, <1>1, <1>5, LaidNext
    <2>4. pc' = "init_sdo" => Unused'
        BY <2>2, <1>1, <1>5 DEF Unused
    <2> QED
        BY <2>3, <2>4
<1> QED
    BY <1>2, <1>3, <1>4, <1>6 DEF ConfigInv

(* In every state of init_task_list() and of the init_sdo() it calls, what   *)
(* is laid out in arg_buf_ and temp_buf_ is the task count and whole fields  *)
(* of the tasks done so far, no field twice and none that is yet to come.   *)
THEOREM ConfigInvariant == Spec => []ConfigInv
<1>1. Init => ConfigInv
    BY InitConfig
<1>2. ConfigInv /\ [Next]_vars => ConfigInv'
    <2> SUFFICES ASSUME ConfigInv, [Next]_vars
                 PROVE  ConfigInv'
        OBVIOUS
    <2>1. CASE ParseEntry
        BY <2>1, ParseEntryConfig
    <2>2. CASE BeginTaskList
        BY <2>2, BeginTaskListConfig
    <2>3. CASE BeginTask
        BY <2>3, BeginTaskConfig
    <2>4. CASE AppendField
        BY <2>4, AppendFieldConfig
    <2>5. CASE CopyBuilt
        BY <2>5, CopyBuiltConfig
    <2>6. CASE LookUp
        BY <2>6, LookUpConfig
    <2>7. CASE EndTask
        BY <2>7, EndTaskConfig
    <2>8. CASE UNCHANGED vars
        BY <2>8, ConfigStutters
    <2> QED
        BY <2>1, <2>2, <2>3, <2>4, <2>5, <2>6, <2>7, <2>8 DEF Next
<1> QED
    BY <1>1, <1>2, PTL DEF Spec

(* For every document and every combination of task types and settings, the  *)
(* slave can take arg_buf_ apart: no gap, no byte twice, no field split, the *)
(* tasks in order and each led by its type.                                 *)
THEOREM ArgumentsStayInOrder == Spec => []ArgumentsInOrder
<1>1. ConfigInv => ArgumentsInOrder
    BY DEF ConfigInv
<1> QED
    BY <1>1, ConfigInvariant, PTL

(* With an sdo_len that counts every argument setting, the copies of         *)
(* init_task_list() and of build_buf() never write behind arg_buf_.         *)
THEOREM StaysWithinBuffer == Spec => []WithinBuffer
<1>1. ConfigInv => WithinBuffer
    BY DEF ConfigInv
<1> QED
    BY <1>1, ConfigInvariant, PTL

-----------------------------------------------------------------------------
(* What an init_sdo() appends.  Covers: the operations s append at least    *)
(* the fields in F; Enumerates: the sequence s has exactly the elements of F. *)
Appended(s, f) == \E k \in DOMAIN s : Appends(s, k) /\ s[k].field = f
Covers(s, F) == s \in Seq(Operations) /\ \A f \in F : Appended(s, f)
Enumerates(s, F) == s \in Seq(F) /\ \A f \in F : \E k \in DOMAIN s : s[k] = f

LEMMA EnumeratesJoined ==
    ASSUME NEW F, NEW G, NEW s, NEW t, Enumerates(s, F), Enumerates(t, G)
    PROVE  Enumerates(s \o t, F \cup G)
<1> DEFINE w == s \o t
           n == Len(s)
           m == Len(t)
           H == F \cup G
<1>1. s \in Seq(F) /\ t \in Seq(G)
    BY DEF Enumerates
<1>2. /\ s \in Seq(H) /\ t \in Seq(H) /\ n \in Nat /\ n = Len(s) /\ m \in Nat /\ m = Len(t)
      /\ DOMAIN s = 1 .. n /\ DOMAIN t = 1 .. m
    BY <1>1
<1> HIDE DEF w, n, m, H
<1>3. /\ w \in Seq(H) /\ Len(w) = n + m
      /\ \A k \in 1 .. n : w[k] = s[k]
      /\ \A k \in 1 .. m : w[n + k] = t[k]
    BY <1>2, Joined DEF w
<1>4. DOMAIN w = 1 .. n + m
    BY <1>3
<1>5. ASSUME NEW f \in F
      PROVE  \E k \in DOMAIN w : w[k] = f
    <2>1. PICK k \in 1 .. n : s[k] = f
        BY <1>2 DEF Enumerates
    <2>2. k \in DOMAIN w /\ w[k] = f
        BY <2>1, <1>2, <1>3, <1>4
    <2> QED
        BY <2>2
<1>6. ASSUME NEW f \in G
      PROVE  \E k \in DOMAIN w : w[k] = f
    <2>1. PICK k \in 1 .. m : t[k] = f
        BY <1>2 DEF Enumerates
    <2>2. n + k \in DOMAIN w
        BY <1>2, <1>4
    <2>3. w[n + k] = f
        BY <2>1, <1>3
    <2> QED
        BY <2>2, <2>3
<1>7. Enumerates(w, H)
    BY <1>3, <1>5, <1>6 DEF Enumerates, H
<1> QED
    BY <1>7 DEF w, H

LEMMA EnumeratesNone == Enumerates(<< >>, {})
<1> DEFINE s == << >>
<1>1. s \in Seq({})
    OBVIOUS
<1> HIDE DEF s
<1>2. Enumerates(s, {})
    BY <1>1 DEF Enumerates
<1> QED
    BY <1>2 DEF s

LEMMA EnumeratesOne ==
    ASSUME NEW a
    PROVE  Enumerates(<< a >>, {a})
<1> DEFINE s == << a >>
<1>1. s \in Seq({a}) /\ 1 \in DOMAIN s /\ s[1] = a
    OBVIOUS
<1> HIDE DEF s
<1>2. Enumerates(s, {a})
    BY <1>1 DEF Enumerates
<1> QED
    BY <1>2 DEF s

LEMMA CoversJoined ==
    ASSUME NEW F, NEW G, NEW s, NEW t, Covers(s, F), Covers(t, G)
    PROVE  Covers(s \o t, F \cup G)
<1> DEFINE w == s \o t
           n == Len(s)
           m == Len(t)
<1>1. s \in Seq(Operations) /\ t \in Seq(Operations)
    BY DEF Covers
<1>2. /\ n \in Nat /\ n = Len(s) /\ m \in Nat /\ m = Len(t)
      /\ DOMAIN s = 1 .. n /\ DOMAIN t = 1 .. m
    BY <1>1
<1> HIDE DEF w, n, m
<1>3. /\ w \in Seq(Operations) /\ Len(w) = n + m
      /\ \A k \in 1 .. n : w[k] = s[k]
      /\ \A k \in 1 .. m : w[n + k] = t[k]
    BY <1>1, <1>2, Joined DEF w
<1>4. DOMAIN w = 1 .. n + m
    BY <1>3
<1>5. ASSUME NEW f \in F
      PROVE  Appended(w, f)
    <2>1. PICK k \in 1 .. n : Appends(s, k) /\ s[k].field = f
        BY <1>2 DEF Covers, Appended
    <2>2. k \in DOMAIN w /\ w[k] = s[k]
        BY <1>2, <1>3, <1>4
    <2> QED
        BY <2>1, <2>2 DEF Appended, Appends
<1>6. ASSUME NEW f \in G
      PROVE  Appended(w, f)
    <2>1. PICK k \in 1 .. m : Appends(t, k) /\ t[k].field = f
        BY <1>2 DEF Covers, Appended
    <2>2. n + k \in DOMAIN w
        BY <1>2, <1>4
    <2>3. w[n + k] = t[k]
        BY <1>3
    <2> QED
        BY <2>1, <2>2, <2>3 DEF Appended, Appends
<1>7. Covers(w, F \cup G)
    BY <1>3, <1>5, <1>6 DEF Covers
<1> QED
    BY <1>7 DEF w

LEMMA CoversLess ==
    ASSUME NEW F, NEW G, NEW s, Covers(s, F), G \subseteq F
    PROVE  Covers(s, G)
BY DEF Covers

LEMMA CoversNone ==
    ASSUME NEW F, NEW s, Proper(s, F)
    PROVE  Covers(s, {})
BY DEF Proper, Covers

LEMMA CoversThen ==
    ASSUME NEW F, NEW s, NEW t, Covers(s, F), Proper(t, {})
    PROVE  Covers(s \o t, F)
<1>1. Covers(s \o t, F \cup {})
    BY CoversNone, CoversJoined
<1> QED
    BY <1>1, CoversLess

LEMMA CoversBefore ==
    ASSUME NEW F, NEW s, NEW t, Proper(s, {}), Covers(t, F)
    PROVE  Covers(s \o t, F)
<1>1. Covers(s \o t, {} \cup F)
    BY CoversNone, CoversJoined
<1> QED
    BY <1>1, CoversLess

LEMMA CoversBuilt ==
    ASSUME NEW F, F \subseteq Seq(Names), NEW flds, Enumerates(flds, F)
    PROVE  Covers(BuildBuf(flds), F)
<1> DEFINE n == Len(flds)
           s == [k \in DOMAIN flds |-> Operation("append", flds[k], "any")]
           last == << Operation("copy", << >>, "any") >>
<1>1. flds \in Seq(F)
    BY DEF Enumerates
<1>2. n \in Nat /\ DOMAIN flds = 1 .. n /\ \A k \in 1 .. n : flds[k] \in Seq(Names)
    BY <1>1
<1> HIDE DEF n
<1>3. \A k \in 1 .. n : /\ Operation("append", flds[k], "any") \in Operations
                        /\ Operation("append", flds[k], "any").op = "append"
                        /\ Operation("append", flds[k], "any").field = flds[k]
    BY <1>2 DEF Operation, Operations
<1>4. s \in [1 .. n -> Operations] /\ \A k \in 1 .. n : s[k] = Operation("append", flds[k], "any")
    BY <1>2, <1>3
<1>5. last \in Seq(Operations)
    <2>1. << >> \in Seq(Names)
        OBVIOUS
    <2>2. Operation("copy", << >>, "any") \in Operations
        BY <2>1 DEF Operation, Operations
    <2> QED
        BY <2>2
<1> HIDE DEF s, last
<1>6. s \in Seq(Operations) /\ DOMAIN s = 1 .. n
    BY <1>2, <1>4
<1>7. ASSUME NEW f \in F
      PROVE  Appended(s, f)
    <2>1. PICK k \in 1 .. n : flds[k] = f
        BY <1>2 DEF Enumerates
    <2> QED
        BY <2>1, <1>3, <1>4, <1>6 DEF Appended, Appends
<1>8. Covers(s, F) /\ Covers(last, {})
    BY <1>5, <1>6, <1>7 DEF Covers
<1>9. Covers(s \o last, F)
    <2>1. Covers(s \o last, F \cup {})
        BY <1>8, CoversJoined
    <2> QED
        BY <2>1, CoversLess
<1> QED
    BY <1>9 DEF s, last, BuildBuf

LEMMA CoversArgs ==
    ASSUME NEW W, W \subseteq Words, NEW names, Enumerates(names, W)
    PROVE  /\ Covers(Args(names), SdoFields(W))
           /\ \A m \in Motors : Covers(MotorArgs(m, names), MotorFields(m, W))
<1> DEFINE n == Len(names)
<1>1. names \in Seq(W)
    BY DEF Enumerates
<1>2. n \in Nat /\ DOMAIN names = 1 .. n /\ \A k \in 1 .. n : names[k] \in W
    BY <1>1
<1> HIDE DEF n
<1>3. Covers(Args(names), SdoFields(W))
    <2> DEFINE flds == [k \in DOMAIN names |-> Sdo(names[k])]
               F == SdoFields(W)
    <2>1. /\ flds \in [1 .. n -> F] /\ \A k \in 1 .. n : flds[k] = Sdo(names[k])
        BY <1>2 DEF SdoFields
    <2>2. \A f \in F : \E a \in W : f = Sdo(a)
        BY DEF SdoFields
    <2>3. F \subseteq Seq(Names)
        BY FieldsAreFields
    <2> HIDE DEF flds, F
    <2>4. flds \in Seq(F) /\ DOMAIN flds = 1 .. n
        BY <2>1, <1>2
    <2>5. ASSUME NEW f \in F
          PROVE  \E k \in DOMAIN flds : flds[k] = f
        <3>1. PICK a \in W : f = Sdo(a)
            BY <2>2
        <3>2. PICK k \in 1 .. n : names[k] = a
            BY <1>2 DEF Enumerates
        <3> QED
            BY <3>1, <3>2, <2>1, <2>4
    <2>6. Covers(BuildBuf(flds), F)
        BY <2>3, <2>4, <2>5, CoversBuilt DEF Enumerates
    <2> QED
        BY <2>6 DEF Args, flds, F
<1>4. ASSUME NEW m \in Motors
      PROVE  Covers(MotorArgs(m, names), MotorFields(m, W))
    <2> DEFINE flds == [k \in DOMAIN names |-> OfMotor(m, names[k])]
               F == MotorFields(m, W)
    <2>1. /\ flds \in [1 .. n -> F] /\ \A k \in 1 .. n : flds[k] = OfMotor(m, names[k])
        BY <1>2 DEF MotorFields
    <2>2. \A f \in F : \E a \in W : f = OfMotor(m, a)
        BY DEF MotorFields
    <2>3. F \subseteq Seq(Names)
        BY FieldsAreFields
    <2> HIDE DEF flds, F
    <2>4. flds \in Seq(F) /\ DOMAIN flds = 1 .. n
        BY <2>1, <1>2
    <2>5. ASSUME NEW f \in F
          PROVE  \E k \in DOMAIN flds : flds[k] = f
        <3>1. PICK a \in W : f = OfMotor(m, a)
            BY <2>2
        <3>2. PICK k \in 1 .. n : names[k] = a
            BY <1>2 DEF Enumerates
        <3> QED
            BY <3>1, <3>2, <2>1, <2>4
    <2>6. Covers(BuildBuf(flds), F)
        BY <2>3, <2>4, <2>5, CoversBuilt DEF Enumerates
    <2> QED
        BY <2>6 DEF MotorArgs, flds, F
<1> QED
    BY <1>3, <1>4

-----------------------------------------------------------------------------
(* The settings that each task type's init_sdo() appends, whatever the      *)
(* fields of the document are: the simple types first.                      *)
LEMMA Covers_DSHOT ==
    Covers(DSHOT_init_sdo, SdoFields({"connection_lost_write_action", "dshot_id",
                                      "init_value"}))
<1> DEFINE names == << "connection_lost_write_action", "dshot_id", "init_value" >>
           W == {"connection_lost_write_action", "dshot_id", "init_value"}
<1>1. names = << "connection_lost_write_action", "dshot_id", "init_value" >>
    OBVIOUS
<1>2. W \subseteq Words
    BY DEF Words
<1> HIDE DEF names
<1>3. Enumerates(names, W)
    BY <1>1 DEF Enumerates
<1> HIDE DEF W
<1>4. Covers(Args(names), SdoFields(W))
    BY <1>2, <1>3, CoversArgs
<1>5. Covers(Args(names) \o load_slave_info, SdoFields(W))
    BY <1>4, ProperLoadSlaveInfo, CoversThen
<1>6. Covers(Args(names) \o load_slave_info \o InitValue, SdoFields(W))
    BY <1>5, ProperInitValue, CoversThen
<1>7. Covers(Args(names) \o load_slave_info \o InitValue \o SubTopic, SdoFields(W))
    BY <1>6, ProperTopics, CoversThen
<1> QED
    BY <1>7 DEF DSHOT_init_sdo, names, W

LEMMA Covers_ONBOARD_PWM ==
    Covers(ONBOARD_PWM_init_sdo, SdoFields({"connection_lost_write_action", "port_id",
                                            "pwm_period", "init_value"}))
<1> DEFINE names == << "connection_lost_write_action", "port_id", "pwm_period", "init_value" >>
           W == {"connection_lost_write_action", "port_id", "pwm_period", "init_value"}
<1>1. names = << "connection_lost_write_action", "port_id", "pwm_period", "init_value" >>
    OBVIOUS
<1>2. W \subseteq Words
    BY DEF Words
<1> HIDE DEF names
<1>3. Enumerates(names, W)
    BY <1>1 DEF Enumerates
<1> HIDE DEF W
<1>4. Covers(Args(names), SdoFields(W))
    BY <1>2, <1>3, CoversArgs
<1>5. Covers(Args(names) \o load_slave_info, SdoFields(W))
    BY <1>4, ProperLoadSlaveInfo, CoversThen
<1>6. Covers(Args(names) \o load_slave_info \o InitValue, SdoFields(W))
    BY <1>5, ProperInitValue, CoversThen
<1>7. Covers(Args(names) \o load_slave_info \o InitValue \o SubTopic, SdoFields(W))
    BY <1>6, ProperTopics, CoversThen
<1> QED
    BY <1>7 DEF ONBOARD_PWM_init_sdo, names, W

LEMMA Covers_EXTERNAL_PWM ==
    Covers(EXTERNAL_PWM_init_sdo, SdoFields({"connection_lost_write_action", "uart_id",
                                             "pwm_period", "channel_num", "init_value"}))
<1> DEFINE names == << "connection_lost_write_action", "uart_id", "pwm_period",
                       "channel_num", "init_value" >>
           W == {"connection_lost_write_action", "uart_id", "pwm_period", "channel_num",
                 "init_value"}
           channels == Need(Sdo("channel_num"), "uint8_t")
<1>1. names = << "connection_lost_write_action", "uart_id", "pwm_period", "channel_num",
                 "init_value" >>
    OBVIOUS
<1>2. W \subseteq Words
    BY DEF Words
<1> HIDE DEF names
<1>3. Enumerates(names, W)
    BY <1>1 DEF Enumerates
<1> HIDE DEF W
<1>4. Covers(Args(names), SdoFields(W))
    BY <1>2, <1>3, CoversArgs
<1>5. "uint8_t" \in Types /\ "channel_num" \in Words
    BY DEF Types, Words
<1>6. Proper(channels, {})
    BY <1>5, ProperNeedSdo
<1> HIDE DEF channels
<1>7. Covers(Args(names) \o load_slave_info, SdoFields(W))
    BY <1>4, ProperLoadSlaveInfo, CoversThen
<1>8. Covers(Args(names) \o load_slave_info \o InitValue, SdoFields(W))
    BY <1>7, ProperInitValue, CoversThen
<1>9. Covers(Args(names) \o load_slave_info \o InitValue \o channels, SdoFields(W))
    BY <1>8, <1>6, CoversThen
<1>10. Covers(Args(names) \o load_slave_info \o InitValue \o channels \o SubTopic, SdoFields(W))
    BY <1>9, ProperTopics, CoversThen
<1> QED
    BY <1>10 DEF EXTERNAL_PWM_init_sdo, names, W, channels

LEMMA Covers_SUPER_CAP ==
    Covers(SUPER_CAP_init_sdo, SdoFields({"connection_lost_write_action", "can_inst",
                                          "chassis_to_cap_id", "cap_to_chassis_id"}))
<1> DEFINE names == << "connection_lost_write_action", "can_inst", "chassis_to_cap_id",
                       "cap_to_chassis_id" >>
           W == {"connection_lost_write_action", "can_inst", "chassis_to_cap_id",
                 "cap_to_chassis_id"}
<1>1. names = << "connection_lost_write_action", "can_inst", "chassis_to_cap_id",
                 "cap_to_chassis_id" >>
    OBVIOUS
<1>2. W \subseteq Words
    BY DEF Words
<1> HIDE DEF names
<1>3. Enumerates(names, W)
    BY <1>1 DEF Enumerates
<1> HIDE DEF W
<1>4. Covers(Args(names), SdoFields(W))
    BY <1>2, <1>3, CoversArgs
<1>5. Covers(Args(names) \o load_slave_info, SdoFields(W))
    BY <1>4, ProperLoadSlaveInfo, CoversThen
<1>6. Covers(Args(names) \o load_slave_info \o SubTopic, SdoFields(W))
    BY <1>5, ProperTopics, CoversThen
<1>7. Covers(Args(names) \o load_slave_info \o SubTopic \o PubTopic, SdoFields(W))
    BY <1>6, ProperTopics, CoversThen
<1> QED
    BY <1>7 DEF SUPER_CAP_init_sdo, names, W

LEMMA Covers_MS5837_30BA ==
    Covers(MS5837_30BA_init_sdo, SdoFields({"i2c_id", "osr_id"}))
<1> DEFINE names == << "i2c_id", "osr_id" >>
           W == {"i2c_id", "osr_id"}
<1>1. names = << "i2c_id", "osr_id" >>
    OBVIOUS
<1>2. W \subseteq Words
    BY DEF Words
<1> HIDE DEF names
<1>3. Enumerates(names, W)
    BY <1>1 DEF Enumerates
<1> HIDE DEF W
<1>4. Covers(Args(names), SdoFields(W))
    BY <1>2, <1>3, CoversArgs
<1>5. Covers(Args(names) \o load_slave_info, SdoFields(W))
    BY <1>4, ProperLoadSlaveInfo, CoversThen
<1>6. Covers(Args(names) \o load_slave_info \o PubTopic, SdoFields(W))
    BY <1>5, ProperTopics, CoversThen
<1> QED
    BY <1>6 DEF MS5837_30BA_init_sdo, names, W

LEMMA Covers_HIPNUC_IMU_CAN ==
    Covers(HIPNUC_IMU_CAN_init_sdo, SdoFields({"can_inst", "packet1_id", "packet2_id",
                                               "packet3_id"}))
<1> DEFINE names == << "can_inst", "packet1_id", "packet2_id", "packet3_id" >>
           W == {"can_inst", "packet1_id", "packet2_id", "packet3_id"}
           frame == Default(<< "conf", "frame_name" >>, "std::string")
<1>1. names = << "can_inst", "packet1_id", "packet2_id", "packet3_id" >>
    OBVIOUS
<1>2. W \subseteq Words
    BY DEF Words
<1> HIDE DEF names
<1>3. Enumerates(names, W)
    BY <1>1 DEF Enumerates
<1> HIDE DEF W
<1>4. Covers(Args(names), SdoFields(W))
    BY <1>2, <1>3, CoversArgs
<1>5. "std::string" \in Types /\ "conf" \in Words /\ "frame_name" \in Words
    BY DEF Types, Words
<1>6. Proper(frame, {})
    BY <1>5, TwoNames, ProperLookUp
<1> HIDE DEF frame
<1>7. Covers(Args(names) \o load_slave_info, SdoFields(W))
    BY <1>4, ProperLoadSlaveInfo, CoversThen
<1>8. Covers(Args(names) \o load_slave_info \o frame, SdoFields(W))
    BY <1>7, <1>6, CoversThen
<1>9. Covers(Args(names) \o load_slave_info \o frame \o PubTopic, SdoFields(W))
    BY <1>8, ProperTopics, CoversThen
<1> QED
    BY <1>9 DEF HIPNUC_IMU_CAN_init_sdo, names, W, frame

(* The motors: their settings depend on which motors are enabled and how.   *)
LEMMA Covers_DM_MOTOR ==
    ASSUME NEW i
    PROVE  Covers(DM_MOTOR_init_sdo(i),
                  SdoFields({"connection_lost_write_action", "control_period", "can_id",
                             "master_id", "can_inst", "control_type"}))
<1> DEFINE names == << "connection_lost_write_action", "control_period", "can_id", "master_id",
                       "can_inst", "control_type" >>
           W == {"connection_lost_write_action", "control_period", "can_id", "master_id",
                 "can_inst", "control_type"}
           topic == SubTopicFor(i, 1 .. 3)
           pmax == Default(<< "conf", "pmax" >>, "float")
           vmax == Need(<< "conf", "vmax" >>, "float")
           tmax == Need(<< "conf", "tmax" >>, "float")
<1>1. names = << "connection_lost_write_action", "control_period", "can_id", "master_id",
                 "can_inst", "control_type" >>
    OBVIOUS
<1>2. W \subseteq Words
    BY DEF Words
<1> HIDE DEF names
<1>3. Enumerates(names, W)
    BY <1>1 DEF Enumerates
<1> HIDE DEF W
<1>4. Covers(Args(names), SdoFields(W))
    BY <1>2, <1>3, CoversArgs
<1>5. "float" \in Types /\ "conf" \in Words /\ "pmax" \in Words /\ "vmax" \in Words /\ "tmax" \in Words
    BY DEF Types, Words
<1>6. Proper(pmax, {}) /\ Proper(vmax, {}) /\ Proper(tmax, {})
    BY <1>5, TwoNames, ProperLookUp
<1>7. Proper(topic, {})
    BY ProperSubTopicFor
<1> HIDE DEF pmax, vmax, tmax, topic
<1>8. Covers(Args(names) \o load_slave_info, SdoFields(W))
    BY <1>4, ProperLoadSlaveInfo, CoversThen
<1>9. Covers(Args(names) \o load_slave_info \o topic, SdoFields(W))
    BY <1>8, <1>7, CoversThen
<1>10. Covers(Args(names) \o load_slave_info \o topic \o pmax, SdoFields(W))
    BY <1>9, <1>6, CoversThen
<1>11. Covers(Args(names) \o load_slave_info \o topic \o pmax \o vmax, SdoFields(W))
    BY <1>10, <1>6, CoversThen
<1>12. Covers(Args(names) \o load_slave_info \o topic \o pmax \o vmax \o tmax, SdoFields(W))
    BY <1>11, <1>6, CoversThen
<1>13. Covers(Args(names) \o load_slave_info \o topic \o pmax \o vmax \o tmax \o PubTopic,
              SdoFields(W))
    BY <1>12, ProperTopics, CoversThen
<1> QED
    BY <1>13 DEF DM_MOTOR_init_sdo, topic, pmax, vmax, tmax, names, W

(* A packet id is sent unless the motor listens to the broadcast.           *)
LEMMA Covers_LK_MOTOR ==
    ASSUME NEW i
    PROVE  Covers(LK_MOTOR_init_sdo(i),
                  SdoFields({"connection_lost_write_action", "control_period", "control_type"}
                            \cup (IF Is(i, Sdo("control_type"), {LK_BROADCAST}) THEN {}
                                  ELSE {"can_packet_id"})
                            \cup {"can_inst"}))
<1> DEFINE first == << "connection_lost_write_action", "control_period", "control_type" >>
           broadcast == Is(i, Sdo("control_type"), {LK_BROADCAST})
           packet == IF broadcast THEN << >> ELSE << "can_packet_id" >>
           last == << "can_inst" >>
           names == first \o packet \o last
           F == {"connection_lost_write_action", "control_period", "control_type"}
           G == IF broadcast THEN {} ELSE {"can_packet_id"}
           H == {"can_inst"}
           W == F \cup G \cup H
           type == Need(Sdo("control_type"), "uint8_t")
           topic == SubTopicFor(i, 1 .. LK_BROADCAST)
<1>1. first = << "connection_lost_write_action", "control_period", "control_type" >>
    OBVIOUS
<1>2. Enumerates(packet, G) /\ Enumerates(last, H)
    BY EnumeratesNone, EnumeratesOne
<1>3. W \subseteq Words
    BY DEF Words
<1> HIDE DEF first, packet, last
<1>4. Enumerates(first, F)
    BY <1>1 DEF Enumerates
<1> HIDE DEF F, G, H
<1>5. Enumerates(names, W)
    BY <1>2, <1>4, EnumeratesJoined
<1> HIDE DEF names, W
<1>6. Covers(Args(names), SdoFields(W))
    BY <1>3, <1>5, CoversArgs
<1>7. "uint8_t" \in Types /\ "control_type" \in Words
    BY DEF Types, Words
<1>8. Proper(type, {}) /\ Proper(topic, {})
    BY <1>7, ProperNeedSdo, ProperSubTopicFor
<1> HIDE DEF type, topic
<1>9. Covers(type \o Args(names), SdoFields(W))
    BY <1>6, <1>8, CoversBefore
<1>10. Covers(type \o Args(names) \o load_slave_info, SdoFields(W))
    BY <1>9, ProperLoadSlaveInfo, CoversThen
<1>11. Covers(type \o Args(names) \o load_slave_info \o topic, SdoFields(W))
    BY <1>10, <1>8, CoversThen
<1>12. Covers(type \o Args(names) \o load_slave_info \o topic \o PubTopic, SdoFields(W))
    BY <1>11, ProperTopics, CoversThen
<1> QED
    BY <1>12 DEF LK_MOTOR_init_sdo, type, topic, names, first, packet, last, W, F, G, H

(* The tasks of four motors: the front part, and one motor after the other. *)
LEMMA EnumeratesMotorIds == Enumerates(MotorIds, IdFields)
<1>1. MotorIds \in Seq(IdFields)
    BY ListedMotorIds DEF Listed
<1>2. \A f \in IdFields : \E k \in DOMAIN MotorIds : MotorIds[k] = f
    BY DEF MotorIds, IdFields, MotorsFields
<1> QED
    BY <1>1, <1>2 DEF Enumerates

LEMMA CoversFront ==
    ASSUME NEW V, NEW front, V \subseteq Words, Enumerates(front, SdoFields(V))
    PROVE  Covers(BuildBuf(front \o MotorIds \o << Sdo("can_inst") >>),
                  SdoFields(V \cup {"can_inst"}) \cup IdFields)
<1> DEFINE F == SdoFields(V)
           last == << Sdo("can_inst") >>
           I == {Sdo("can_inst")}
           flds == front \o MotorIds \o last
           H == SdoFields(V \cup {"can_inst"}) \cup IdFields
<1>1. Enumerates(last, I)
    BY EnumeratesOne
<1>2. H = F \cup IdFields \cup I
    BY DEF SdoFields
<1>3. H \subseteq Seq(Names)
    <2>1. V \cup {"can_inst"} \subseteq Words /\ {"can_id"} \subseteq Words
        BY DEF Words
    <2> QED
        BY <2>1, WordsAreNames, SdoField, MotorField DEF SdoFields, IdFields, MotorsFields
<1> HIDE DEF F, last, I, H
<1>4. Enumerates(front \o MotorIds, F \cup IdFields)
    BY EnumeratesMotorIds, EnumeratesJoined DEF F
<1>5. Enumerates(flds, H)
    BY <1>1, <1>2, <1>4, EnumeratesJoined
<1> HIDE DEF flds
<1>6. Covers(BuildBuf(flds), H)
    BY <1>3, <1>5, CoversBuilt
<1> QED
    BY <1>6 DEF flds, last, H

LEMMA CoversInOrder ==
    ASSUME NEW pieces, NEW W, \A n \in Motors : Proper(pieces[n], MotorFields(n, W)),
           NEW m \in Motors, NEW F, Covers(pieces[m], F)
    PROVE  Covers(InOrder(pieces), F)
<1> DEFINE first == pieces[1]
           second == pieces[2]
           third == pieces[3]
           fourth == pieces[4]
           G(n) == IF n = m THEN F ELSE {}
<1>1. \A n \in Motors : Covers(pieces[n], G(n))
    BY CoversNone
<1>2. Covers(first, G(1)) /\ Covers(second, G(2)) /\ Covers(third, G(3)) /\ Covers(fourth, G(4))
    BY <1>1 DEF Motors
<1>3. F \subseteq G(1) \cup G(2) \cup G(3) \cup G(4)
    BY DEF Motors
<1>4. InOrder(pieces) = first \o second \o third \o fourth
    BY DEF InOrder
<1> HIDE DEF first, second, third, fourth, G
<1>5. Covers(first \o second, G(1) \cup G(2))
    BY <1>2, CoversJoined
<1>6. Covers(first \o second \o third, G(1) \cup G(2) \cup G(3))
    BY <1>2, <1>5, CoversJoined
<1>7. Covers(first \o second \o third \o fourth, G(1) \cup G(2) \cup G(3) \cup G(4))
    BY <1>2, <1>6, CoversJoined
<1> QED
    BY <1>3, <1>4, <1>7, CoversLess

LEMMA CoversIfEnabled ==
    ASSUME NEW i, NEW m \in Motors, NEW F, NEW steps, Covers(steps, F),
           ~Is(i, OfMotor(m, "can_id"), {0})
    PROVE  Covers(IfEnabled(i, m, steps), F)
<1>1. "uint32_t" \in Types /\ "can_id" \in Names
    BY DEF Types, Words, Names
<1> DEFINE id == Need(OfMotor(m, "can_id"), "uint32_t")
<1>2. Proper(id, {})
    BY <1>1, MotorField, ProperLookUp
<1> HIDE DEF id
<1>3. Covers(id \o steps, F)
    BY <1>2, CoversBefore
<1> QED
    BY <1>3 DEF IfEnabled, id

(* The loops of a DJI motor's control type.                                 *)
ControlWords(i, m) ==
    {"control_type"}
    \cup (IF Is(i, OfMotor(m, "control_type"), {2, 3}) THEN SpeedWords ELSE {})
    \cup (IF Is(i, OfMotor(m, "control_type"), {3}) THEN AngleWords ELSE {})

LEMMA EnumeratesPids == Enumerates(SpeedPid, SpeedWords) /\ Enumerates(AnglePid, AngleWords)
<1>1. Enumerates(SpeedPid, SpeedWords)
    <2> DEFINE s == SpeedPid
    <2>1. s = << "speed_pid_kp", "speed_pid_ki", "speed_pid_kd",
                 "speed_pid_max_out", "speed_pid_max_iout" >>
        BY DEF SpeedPid
    <2> HIDE DEF s
    <2>2. Enumerates(s, SpeedWords)
        BY <2>1 DEF Enumerates, SpeedWords
    <2> QED
        BY <2>2 DEF s
<1>2. Enumerates(AnglePid, AngleWords)
    <2> DEFINE s == AnglePid
    <2>1. s = << "angle_pid_kp", "angle_pid_ki", "angle_pid_kd",
                 "angle_pid_max_out", "angle_pid_max_iout" >>
        BY DEF AnglePid
    <2> HIDE DEF s
    <2>2. Enumerates(s, AngleWords)
        BY <2>1 DEF Enumerates, AngleWords
    <2> QED
        BY <2>2 DEF s
<1> QED
    BY <1>1, <1>2

LEMMA CoversDJIControl ==
    ASSUME NEW i, NEW m \in Motors, Is(i, OfMotor(m, "control_type"), {1, 2, 3})
    PROVE  Covers(DJI_MOTOR_control(i, m), MotorFields(m, ControlWords(i, m)))
<1> DEFINE type(values) == Is(i, OfMotor(m, "control_type"), values)
           speed == IF type({2, 3}) THEN SpeedPid ELSE << >>
           angle == IF type({3}) THEN AnglePid ELSE << >>
           first == << "control_type" >>
           names == first \o (speed \o angle)
           need == Need(OfMotor(m, "control_type"), "uint8_t")
           F == {"control_type"}
           G == IF type({2, 3}) THEN SpeedWords ELSE {}
           H == IF type({3}) THEN AngleWords ELSE {}
           W == F \cup (G \cup H)
<1>1. Enumerates(speed, G) /\ Enumerates(angle, H)
    BY EnumeratesPids, EnumeratesNone
<1>2. Enumerates(first, F)
    BY EnumeratesOne
<1>3. W \subseteq Words
    BY DEF SpeedWords, AngleWords, Words
<1>4. W = ControlWords(i, m)
    BY DEF ControlWords
<1> HIDE DEF speed, angle, first, F, G, H
<1>5. Enumerates(speed \o angle, G \cup H)
    BY <1>1, EnumeratesJoined
<1>6. Enumerates(names, W)
    BY <1>2, <1>5, EnumeratesJoined
<1> HIDE DEF names, W
<1>7. Covers(MotorArgs(m, names), MotorFields(m, W))
    BY <1>3, <1>6, CoversArgs
<1>8. "uint8_t" \in Types /\ "control_type" \in Names
    BY DEF Types, Words, Names
<1>9. Proper(need, {})
    BY <1>8, MotorField, ProperLookUp
<1> HIDE DEF need
<1>10. Covers(need \o MotorArgs(m, names), MotorFields(m, W))
    BY <1>7, <1>9, CoversBefore
<1>11. DJI_MOTOR_control(i, m) = need \o MotorArgs(m, names)
    BY DEF DJI_MOTOR_control, need, names, first, speed, angle
<1> QED
    BY <1>4, <1>10, <1>11

LEMMA CoversMotors ==
    ASSUME NEW front, NEW F, Covers(front, F), NEW pieces,
           \A m \in Motors : Proper(pieces[m], MotorFields(m, MotorWords))
    PROVE  /\ Covers(front \o InOrder(pieces) \o load_slave_info \o PubTopic \o SubTopic, F)
           /\ \A m \in Motors : \A G : Covers(pieces[m], G) =>
                 Covers(front \o InOrder(pieces) \o load_slave_info \o PubTopic \o SubTopic, G)
<1> DEFINE motors == InOrder(pieces)
<1>1. ASSUME NEW G, Covers(motors, G)
      PROVE  Covers(front \o motors \o load_slave_info \o PubTopic \o SubTopic, F \cup G)
    <2> HIDE DEF motors
    <2>1. Covers(front \o motors, F \cup G)
        BY <1>1, CoversJoined
    <2>2. Covers(front \o motors \o load_slave_info, F \cup G)
        BY <2>1, ProperLoadSlaveInfo, CoversThen
    <2>3. Covers(front \o motors \o load_slave_info \o PubTopic, F \cup G)
        BY <2>2, ProperTopics, CoversThen
    <2>4. Covers(front \o motors \o load_slave_info \o PubTopic \o SubTopic, F \cup G)
        BY <2>3, ProperTopics, CoversThen
    <2> QED
        BY <2>4
<1>2. Covers(motors, {})
    <2>1. 1 \in Motors
        BY DEF Motors
    <2>2. Covers(pieces[1], {})
        BY <2>1, CoversNone
    <2> QED
        BY <2>1, <2>2, CoversInOrder
<1>3. ASSUME NEW m \in Motors, NEW G, Covers(pieces[m], G)
      PROVE  Covers(motors, G)
    BY <1>3, CoversInOrder
<1> HIDE DEF motors
<1>4. Covers(front \o motors \o load_slave_info \o PubTopic \o SubTopic, F)
    BY <1>1, <1>2, CoversLess
<1>5. ASSUME NEW m \in Motors, NEW G, Covers(pieces[m], G)
      PROVE  Covers(front \o motors \o load_slave_info \o PubTopic \o SubTopic, G)
    <2>1. Covers(motors, G)
        BY <1>3, <1>5
    <2>2. Covers(front \o motors \o load_slave_info \o PubTopic \o SubTopic, F \cup G)
        BY <1>1, <2>1
    <2> QED
        BY <2>2, CoversLess
<1> QED
    BY <1>4, <1>5 DEF motors

LEMMA Covers_DJI_MOTOR ==
    ASSUME NEW i
    PROVE  /\ Covers(DJI_MOTOR_init_sdo(i),
                     SdoFields({"connection_lost_write_action", "control_period", "can_packet_id"}
                               \cup {"can_inst"})
                     \cup IdFields)
           /\ \A m \in Motors :
                 ~Is(i, OfMotor(m, "can_id"), {0}) /\ Is(i, OfMotor(m, "control_type"), {1, 2, 3}) =>
                    Covers(DJI_MOTOR_init_sdo(i), MotorFields(m, ControlWords(i, m)))
<1> DEFINE V == {"connection_lost_write_action", "control_period", "can_packet_id"}
           front == << Sdo("connection_lost_write_action"), Sdo("control_period"),
                       Sdo("can_packet_id") >>
           pieces == [m \in Motors |-> IfEnabled(i, m, DJI_MOTOR_control(i, m))]
           a == Sdo("connection_lost_write_action")
           b == Sdo("control_period")
           c == Sdo("can_packet_id")
           F == SdoFields(V \cup {"can_inst"}) \cup IdFields
<1>1. V \subseteq Words
    BY DEF Words
<1>2. SdoFields(V) = {a, b, c}
    BY DEF SdoFields
<1>3. front = << a, b, c >>
    OBVIOUS
<1> HIDE DEF V, front, a, b, c, F
<1>4. Enumerates(front, SdoFields(V))
    BY <1>2, <1>3 DEF Enumerates
<1> DEFINE buf == BuildBuf(front \o MotorIds \o << Sdo("can_inst") >>)
<1>5. Covers(buf, F)
    BY <1>1, <1>4, CoversFront DEF F
<1>6. \A m \in Motors : Proper(pieces[m], MotorFields(m, MotorWords))
    BY ProperDJIControl, ProperIfEnabled
<1>7. \A m \in Motors :
         ~Is(i, OfMotor(m, "can_id"), {0}) /\ Is(i, OfMotor(m, "control_type"), {1, 2, 3}) =>
            Covers(pieces[m], MotorFields(m, ControlWords(i, m)))
    BY CoversDJIControl, CoversIfEnabled
<1> HIDE DEF buf, pieces
<1> DEFINE w == buf \o InOrder(pieces) \o load_slave_info \o PubTopic \o SubTopic
<1>8. Covers(w, F) /\ \A m \in Motors : \A G : Covers(pieces[m], G) => Covers(w, G)
    BY <1>5, <1>6, CoversMotors
<1>9. w = DJI_MOTOR_init_sdo(i)
    BY DEF DJI_MOTOR_init_sdo, buf, pieces, front
<1> HIDE DEF w
<1> QED
    BY <1>7, <1>8, <1>9 DEF F, V

LEMMA Covers_DD_MOTOR ==
    ASSUME NEW i
    PROVE  /\ Covers(DD_MOTOR_init_sdo(i),
                     SdoFields({"can_baudrate", "connection_lost_write_action", "control_period",
                                "can_packet_id"} \cup {"can_inst"})
                     \cup IdFields)
           /\ \A m \in Motors :
                 ~Is(i, OfMotor(m, "can_id"), {0}) =>
                    Covers(DD_MOTOR_init_sdo(i), MotorFields(m, {"control_type"}))
<1> DEFINE V == {"can_baudrate", "connection_lost_write_action", "control_period", "can_packet_id"}
           front == << Sdo("can_baudrate"), Sdo("connection_lost_write_action"),
                       Sdo("control_period"), Sdo("can_packet_id") >>
           pieces == [m \in Motors |-> IfEnabled(i, m, MotorArgs(m, << "control_type" >>))]
           a == Sdo("can_baudrate")
           b == Sdo("connection_lost_write_action")
           c == Sdo("control_period")
           d == Sdo("can_packet_id")
           F == SdoFields(V \cup {"can_inst"}) \cup IdFields
<1>1. V \subseteq Words
    BY DEF Words
<1>2. SdoFields(V) = {a, b, c, d}
    BY DEF SdoFields
<1>3. front = << a, b, c, d >>
    OBVIOUS
<1> HIDE DEF V, front, a, b, c, d, F
<1>4. Enumerates(front, SdoFields(V))
    BY <1>2, <1>3 DEF Enumerates
<1> DEFINE buf == BuildBuf(front \o MotorIds \o << Sdo("can_inst") >>)
<1>5. Covers(buf, F)
    BY <1>1, <1>4, CoversFront DEF F
<1>6. \A m \in Motors : Proper(pieces[m], MotorFields(m, MotorWords))
    BY ProperDDControl, ProperIfEnabled
<1>7. \A m \in Motors :
         ~Is(i, OfMotor(m, "can_id"), {0}) => Covers(pieces[m], MotorFields(m, {"control_type"}))
    <2>1. {"control_type"} \subseteq Words /\ Enumerates(<< "control_type" >>, {"control_type"})
        BY EnumeratesOne DEF Words
    <2>2. \A m \in Motors :
             Covers(MotorArgs(m, << "control_type" >>), MotorFields(m, {"control_type"}))
        BY <2>1, CoversArgs
    <2> QED
        BY <2>2, CoversIfEnabled
<1> HIDE DEF buf, pieces
<1> DEFINE w == buf \o InOrder(pieces) \o load_slave_info \o PubTopic \o SubTopic
<1>8. Covers(w, F) /\ \A m \in Motors : \A G : Covers(pieces[m], G) => Covers(w, G)
    BY <1>5, <1>6, CoversMotors
<1>9. w = DD_MOTOR_init_sdo(i)
    BY DEF DD_MOTOR_init_sdo, buf, pieces, front
<1> HIDE DEF w
<1> QED
    BY <1>7, <1>8, <1>9 DEF F, V

-----------------------------------------------------------------------------
(* The argument settings a task of each type has (task_defs.hpp and the      *)
(* build_buf() calls of the task's class), whatever the others of its        *)
(* settings are.                                                            *)
TaskType(i) == Value(OfTask(i, Sdo("task_type")))

ArgumentSettings(type) ==
    CASE type = 2 -> SdoFields({"connection_lost_write_action", "control_period", "control_type",
                                "can_packet_id", "can_inst"})
      [] type = 3 -> SdoFields({"can_inst", "packet1_id", "packet2_id", "packet3_id"})
      [] type = 4 -> SdoFields({"connection_lost_write_action", "dshot_id", "init_value"})
      [] type = 5 -> SdoFields({"connection_lost_write_action", "control_period", "can_packet_id",
                                "can_inst"})
                     \cup MotorsFields({"can_id", "control_type"} \cup SpeedWords \cup AngleWords)
      [] type = 6 -> SdoFields({"connection_lost_write_action", "port_id", "pwm_period",
                                "init_value"})
      [] type = 7 -> SdoFields({"connection_lost_write_action", "uart_id", "pwm_period",
                                "channel_num", "init_value"})
      [] type = 8 -> SdoFields({"i2c_id", "osr_id"})
      [] type = 12 -> SdoFields({"connection_lost_write_action", "control_period", "can_id",
                                 "master_id", "can_inst", "control_type"})
      [] type = 13 -> SdoFields({"connection_lost_write_action", "can_inst", "chassis_to_cap_id",
                                 "cap_to_chassis_id"})
      [] type = 15 -> SdoFields({"can_baudrate", "connection_lost_write_action", "control_period",
                                 "can_packet_id", "can_inst"})
                      \cup MotorsFields({"can_id", "control_type"})
      [] OTHER -> {}

(* No task has a setting that its type does not know; an enabled DJI motor   *)
(* has one of the three control types, and an LK motor that listens to the  *)
(* broadcast no packet id of its own.                                       *)
KnownControl(i) ==
    /\ TaskType(i) = 5 => \A m \in Motors : \/ Is(i, OfMotor(m, "can_id"), {0})
                                            \/ Is(i, OfMotor(m, "control_type"), {1, 2, 3})
    /\ TaskType(i) = 2 /\ Is(i, Sdo("control_type"), {LK_BROADCAST}) =>
          OfTask(i, Sdo("can_packet_id")) \notin DOMAIN fields
SettingsKnown ==
    /\ \A key \in ArgumentKeys : \E i \in 1 .. count :
          \E f \in ArgumentSettings(TaskType(i)) \cup {Sdo("task_type")} : key = OfTask(i, f)
    /\ \A i \in 1 .. count : KnownControl(i)

LEMMA PidSets == ToSet(SpeedPid) = SpeedWords /\ ToSet(AnglePid) = AngleWords
<1>1. \A s, F : Enumerates(s, F) => ToSet(s) = F
    BY DEF Enumerates, ToSet
<1> QED
    BY <1>1, EnumeratesPids

LEMMA IdleMotor ==
    ASSUME NEW i \in 1 .. count, i \in Tasks, NEW m \in Motors,
           NEW name \in {"control_type"} \cup SpeedWords \cup AngleWords,
           \/ Is(i, OfMotor(m, "can_id"), {0})
           \/ Is(i, OfMotor(m, "control_type"), {1}) /\ name \in SpeedWords
           \/ Is(i, OfMotor(m, "control_type"), {1, 2}) /\ name \in AngleWords
    PROVE  Idle(OfTask(i, OfMotor(m, name)))
<1> DEFINE f == OfMotor(m, name)
           key == OfTask(i, f)
<1>1. name \in Names
    BY WordsAreNames DEF SpeedWords, AngleWords, Words
<1>2. f \in Seq(Names) /\ Len(f) = 3 /\ f[3] = name
    BY <1>1, MotorField
<1>3. \A k \in 1 .. Len(f) : key[k + 2] = f[k]
    BY <1>2, TaskKey
<1>4. key[3 + 2] = f[3]
    BY <1>2, <1>3
<1>5. key[5] = name
    BY <1>2, <1>4
<1>6. key \in {OfTask(i, OfMotor(m, n)) :
                  n \in {"control_type"} \cup ToSet(SpeedPid) \cup ToSet(AnglePid)}
    BY PidSets
<1> HIDE DEF key, f
<1>7. Idle(key)
    BY <1>5, <1>6, PidSets DEF Idle
<1> QED
    BY <1>7 DEF key, f

(* Every setting that a task type knows is sent, unless it says nothing.    *)
LEMMA SettingsAppended ==
    ASSUME NEW i \in 1 .. count, i \in Tasks, TaskType(i) \in TaskTypes, KnownControl(i),
           NEW f \in ArgumentSettings(TaskType(i)), OfTask(i, f) \in DOMAIN fields
    PROVE  Appended(init_sdo(TaskType(i), i), f) \/ Idle(OfTask(i, f))
<1> DEFINE type == TaskType(i)
           sdo == init_sdo(type, i)
<1>1. type \in {1, 2, 3, 4, 5, 6, 7, 8, 10, 11, 12, 13, 14, 15}
    BY DEF TaskTypes
<1>2. f \in ArgumentSettings(type)
    OBVIOUS
<1>3. CASE type \in {1, 10, 11, 14}
    BY <1>2, <1>3 DEF ArgumentSettings
<1>4. CASE type = 3
    BY <1>2, <1>4, Covers_HIPNUC_IMU_CAN DEF ArgumentSettings, init_sdo, Covers
<1>5. CASE type = 4
    BY <1>2, <1>5, Covers_DSHOT DEF ArgumentSettings, init_sdo, Covers
<1>6. CASE type = 6
    BY <1>2, <1>6, Covers_ONBOARD_PWM DEF ArgumentSettings, init_sdo, Covers
<1>7. CASE type = 7
    BY <1>2, <1>7, Covers_EXTERNAL_PWM DEF ArgumentSettings, init_sdo, Covers
<1>8. CASE type = 8
    BY <1>2, <1>8, Covers_MS5837_30BA DEF ArgumentSettings, init_sdo, Covers
<1>9. CASE type = 12
    BY <1>2, <1>9, Covers_DM_MOTOR DEF ArgumentSettings, init_sdo, Covers
<1>10. CASE type = 13
    BY <1>2, <1>10, Covers_SUPER_CAP DEF ArgumentSettings, init_sdo, Covers
<1>11. CASE type = 2
    <2> DEFINE broadcast == Is(i, Sdo("control_type"), {LK_BROADCAST})
               W == {"connection_lost_write_action", "control_period", "control_type"}
                    \cup (IF broadcast THEN {} ELSE {"can_packet_id"}) \cup {"can_inst"}
    <2>1. Covers(sdo, SdoFields(W))
        BY <1>11, Covers_LK_MOTOR DEF init_sdo
    <2>2. f \in SdoFields({"connection_lost_write_action", "control_period", "control_type",
                           "can_packet_id", "can_inst"})
        BY <1>2, <1>11 DEF ArgumentSettings
    <2>3. ~(broadcast /\ f = Sdo("can_packet_id"))
        BY <1>11 DEF KnownControl
    <2>4. f \in SdoFields(W)
        BY <2>2, <2>3 DEF SdoFields
    <2> HIDE DEF W
    <2> QED
        BY <2>1, <2>4 DEF Covers
<1>12. CASE type = 5
    <2> DEFINE V == {"connection_lost_write_action", "control_period", "can_packet_id"}
                    \cup {"can_inst"}
               W == {"control_type"} \cup SpeedWords \cup AngleWords
               Enabled(m) == ~Is(i, OfMotor(m, "can_id"), {0})
               Control(m, values) == Is(i, OfMotor(m, "control_type"), values)
    <2>1. /\ Covers(sdo, SdoFields(V) \cup IdFields)
          /\ \A m \in Motors : Enabled(m) /\ Control(m, {1, 2, 3}) =>
                Covers(sdo, MotorFields(m, ControlWords(i, m)))
        BY <1>12, Covers_DJI_MOTOR DEF init_sdo
    <2>2. f \in SdoFields(V) \/ f \in IdFields \/ f \in MotorsFields(W)
        BY <1>2, <1>12 DEF ArgumentSettings, SdoFields, IdFields, MotorsFields
    <2>3. CASE f \in SdoFields(V) \/ f \in IdFields
        BY <2>1, <2>3 DEF Covers
    <2>4. CASE f \in MotorsFields(W)
        <3>1. PICK m \in Motors, name \in W : f = OfMotor(m, name)
            BY <2>4 DEF MotorsFields
        <3>2. CASE ~Enabled(m)
            BY <3>1, <3>2, IdleMotor
        <3>3. CASE Control(m, {1}) /\ name \in SpeedWords
            BY <3>1, <3>3, IdleMotor
        <3>4. CASE Control(m, {1, 2}) /\ name \in AngleWords
            BY <3>1, <3>4, IdleMotor
        <3>5. CASE /\ Enabled(m) /\ ~(Control(m, {1}) /\ name \in SpeedWords)
                   /\ ~(Control(m, {1, 2}) /\ name \in AngleWords)
            <4>1. Control(m, {1, 2, 3})
                BY <1>12, <3>5 DEF KnownControl
            <4>2. name \in ControlWords(i, m)
                BY <3>5, <4>1 DEF ControlWords, Is
            <4>3. f \in MotorFields(m, ControlWords(i, m))
                BY <3>1, <4>2 DEF MotorFields
            <4>4. Covers(sdo, MotorFields(m, ControlWords(i, m)))
                BY <2>1, <3>5, <4>1
            <4> QED
                BY <4>3, <4>4 DEF Covers
        <3> QED
            BY <3>2, <3>3, <3>4, <3>5
    <2> QED
        BY <2>2, <2>3, <2>4
<1>13. CASE type = 15
    <2> DEFINE V == {"can_baudrate", "connection_lost_write_action", "control_period",
                     "can_packet_id"} \cup {"can_inst"}
               Enabled(m) == ~Is(i, OfMotor(m, "can_id"), {0})
    <2>1. /\ Covers(sdo, SdoFields(V) \cup IdFields)
          /\ \A m \in Motors : Enabled(m) => Covers(sdo, MotorFields(m, {"control_type"}))
        BY <1>13, Covers_DD_MOTOR DEF init_sdo
    <2>2. f \in SdoFields(V) \/ f \in IdFields \/ f \in MotorsFields({"control_type"})
        BY <1>2, <1>13 DEF ArgumentSettings, SdoFields, IdFields, MotorsFields
    <2>3. CASE f \in SdoFields(V) \/ f \in IdFields
        BY <2>1, <2>3 DEF Covers
    <2>4. CASE f \in MotorsFields({"control_type"})
        <3>1. PICK m \in Motors : f = OfMotor(m, "control_type")
            BY <2>4 DEF MotorsFields
        <3>2. CASE ~Enabled(m)
            BY <3>1, <3>2, IdleMotor
        <3>3. CASE Enabled(m)
            <4>1. f \in MotorFields(m, {"control_type"})
                BY <3>1 DEF MotorFields
            <4> QED
                BY <3>3, <4>1, <2>1 DEF Covers
        <3> QED
            BY <3>2, <3>3
    <2> QED
        BY <2>2, <2>3, <2>4
<1> QED
    BY <1>1, <1>3, <1>4, <1>5, <1>6, <1>7, <1>8, <1>9, <1>10, <1>11, <1>12, <1>13

-----------------------------------------------------------------------------
(* Every setting a task appends is laid out or still to be appended; those   *)
(* of the tasks done are laid out.                                          *)
Within(w, key) == key \in DOMAIN fields /\ ToSet(Bytes(key)) \subseteq ToSet(w)
TaskLaid(w, rest, i) ==
    /\ TaskType(i) \in TaskTypes /\ Within(w, OfTask(i, Sdo("task_type")))
    /\ \A f \in ArgumentFields :
          Appended(init_sdo(TaskType(i), i), f) => Within(w, OfTask(i, f)) \/ Appended(rest, f)

Rest(i) == IF pc = "init_sdo" /\ i = app THEN ops ELSE << >>
Started == pc \in {"task", "init_sdo", "configured"}
TasksLaid == Started /\ idx <= Len(arg) => \A i \in 1 .. Done : TaskLaid(SoFar, Rest(i), i)
AllDone == pc = "configured" => app = count /\ built = << >>

LEMMA IsNext ==
    ASSUME fields' = fields
    PROVE  \A i, f, v : Is(i, f, v)' = Is(i, f, v)
BY DEF Is, Value

LEMMA init_sdoNext ==
    ASSUME fields' = fields
    PROVE  \A type, i : init_sdo(type, i)' = init_sdo(type, i)
<1>1. \A i, f, v : Is(i, f, v)' = Is(i, f, v)
    BY IsNext
<1>2. \A i, types : SubTopicFor(i, types)' = SubTopicFor(i, types)
    BY <1>1 DEF SubTopicFor
<1>3. \A i, m, steps : IfEnabled(i, m, steps)' = IfEnabled(i, m, steps)
    BY <1>1 DEF IfEnabled
<1>4. \A i : LK_MOTOR_init_sdo(i)' = LK_MOTOR_init_sdo(i)
    BY <1>1, <1>2 DEF LK_MOTOR_init_sdo
<1>5. \A i : DM_MOTOR_init_sdo(i)' = DM_MOTOR_init_sdo(i)
    BY <1>2 DEF DM_MOTOR_init_sdo
<1>6. \A i, m : DJI_MOTOR_control(i, m)' = DJI_MOTOR_control(i, m)
    BY <1>1 DEF DJI_MOTOR_control
<1>7. \A i : DJI_MOTOR_init_sdo(i)' = DJI_MOTOR_init_sdo(i)
    BY <1>3, <1>6 DEF DJI_MOTOR_init_sdo
<1>8. \A i : DD_MOTOR_init_sdo(i)' = DD_MOTOR_init_sdo(i)
    BY <1>3 DEF DD_MOTOR_init_sdo
<1> QED
    BY <1>4, <1>5, <1>7, <1>8 DEF init_sdo

-----------------------------------------------------------------------------
(* The steps of init_task_list() keep what is laid out, and lay out what is *)
(* to come.                                                                 *)
LEMMA WithinMore ==
    ASSUME NEW w \in Seq(ByteSet), NEW t \in Seq(ByteSet), NEW key, Within(w, key)
    PROVE  Within(w \o t, key)
<1> DEFINE n == Len(w)
           m == Len(t)
           v == w \o t
<1>1. /\ w \in Seq(ByteSet) /\ t \in Seq(ByteSet) /\ n \in Nat /\ n = Len(w) /\ m \in Nat
      /\ m = Len(t) /\ DOMAIN w = 1 .. n
    OBVIOUS
<1> HIDE DEF n, m, v
<1>2. v \in Seq(ByteSet) /\ Len(v) = n + m /\ \A k \in 1 .. n : v[k] = w[k]
    BY <1>1, Joined DEF v
<1>3. DOMAIN v = 1 .. n + m
    BY <1>2
<1>4. 1 .. n \subseteq 1 .. n + m
    BY <1>1
<1>5. ToSet(w) \subseteq ToSet(v)
    BY <1>1, <1>2, <1>3, <1>4 DEF ToSet
<1> QED
    BY <1>5 DEF Within, v

LEMMA WithinNew ==
    ASSUME NEW w \in Seq(ByteSet), NEW key \in DOMAIN fields, NEW t \in Seq(ByteSet), t = Bytes(key)
    PROVE  Within(w \o t, key)
<1> DEFINE n == Len(w)
           m == Len(t)
           v == w \o t
<1>1. /\ w \in Seq(ByteSet) /\ t \in Seq(ByteSet) /\ n \in Nat /\ n = Len(w) /\ m \in Nat
      /\ m = Len(t) /\ DOMAIN t = 1 .. m
    OBVIOUS
<1> HIDE DEF n, m, v
<1>2. v \in Seq(ByteSet) /\ Len(v) = n + m /\ \A k \in 1 .. m : v[n + k] = t[k]
    BY <1>1, Joined DEF v
<1>3. DOMAIN v = 1 .. n + m
    BY <1>2
<1>4. \A k \in 1 .. m : n + k \in 1 .. n + m
    BY <1>1
<1>5. ASSUME NEW x \in ToSet(t)
      PROVE  x \in ToSet(v)
    <2>1. PICK k \in 1 .. m : x = t[k]
        BY <1>1 DEF ToSet
    <2>2. n + k \in DOMAIN v /\ v[n + k] = x
        BY <2>1, <1>2, <1>3, <1>4
    <2> QED
        BY <2>2 DEF ToSet
<1> QED
    BY <1>5 DEF Within, v

LEMMA TaskLaidNext ==
    ASSUME fields' = fields, \A i \in 1 .. Done' : TaskLaid(SoFar', Rest(i)', i)
    PROVE  (\A i \in 1 .. Done : TaskLaid(SoFar, Rest(i), i))'
BY init_sdoNext DEF TaskLaid, TaskType, Value, Within, Bytes

(* A step within the tasks: what is laid out stays so, and what is no longer *)
(* to be appended has been laid out.                                        *)
LEMMA StepLaid ==
    ASSUME fields' = fields, Started, TasksLaid, Done' = Done,
           idx' <= Len(arg') => idx <= Len(arg) /\ \A key : Within(SoFar, key) => Within(SoFar', key),
           \A i \in 1 .. Done : \A f \in ArgumentFields :
              idx' <= Len(arg') /\ Appended(Rest(i), f) =>
                 Appended(Rest(i)', f) \/ Within(SoFar', OfTask(i, f))
    PROVE  TasksLaid'
<1> SUFFICES ASSUME idx' <= Len(arg')
             PROVE  (\A i \in 1 .. Done : TaskLaid(SoFar, Rest(i), i))'
    BY DEF TasksLaid
<1> SUFFICES ASSUME NEW i \in 1 .. Done
             PROVE  TaskLaid(SoFar', Rest(i)', i)
    BY TaskLaidNext
<1>1. TaskLaid(SoFar, Rest(i), i)
    BY DEF TasksLaid
<1>2. \A key : Within(SoFar, key) => Within(SoFar', key)
    OBVIOUS
<1>3. TaskType(i) \in TaskTypes /\ Within(SoFar', OfTask(i, Sdo("task_type")))
    BY <1>1, <1>2 DEF TaskLaid
<1>4. ASSUME NEW f \in ArgumentFields, Appended(init_sdo(TaskType(i), i), f)
      PROVE  Within(SoFar', OfTask(i, f)) \/ Appended(Rest(i)', f)
    <2>1. Within(SoFar, OfTask(i, f)) \/ Appended(Rest(i), f)
        BY <1>1, <1>4 DEF TaskLaid
    <2> QED
        BY <2>1, <1>2
<1> QED
    BY <1>3, <1>4 DEF TaskLaid

LEMMA NothingAppended ==
    \A f : ~Appended(<< >>, f)
<1> SUFFICES ASSUME NEW f, Appended(<< >>, f)
             PROVE  FALSE
    OBVIOUS
<1> DEFINE s == << >>
<1>1. DOMAIN s = {}
    OBVIOUS
<1> HIDE DEF s
<1>2. ~Appended(s, f)
    BY <1>1 DEF Appended
<1> QED
    BY <1>2 DEF s

LEMMA AppendedLater ==
    ASSUME NEW s, Proper(s, ArgumentFields), s # << >>, NEW f, Appended(s, f)
    PROVE  Appended(Tail(s), f) \/ (Head(s).op = "append" /\ Head(s).field = f)
<1> DEFINE t == Tail(s)
           n == Len(s)
<1>1. s \in Seq(Operations) /\ n \in Nat /\ n >= 1 /\ DOMAIN s = 1 .. n /\ Head(s) = s[1]
    BY DEF Proper
<1>2. DOMAIN t = 1 .. n - 1 /\ \A k \in 1 .. n - 1 : t[k] = s[k + 1]
    BY <1>1
<1> HIDE DEF t, n
<1>3. PICK k \in 1 .. n : Appends(s, k) /\ s[k].field = f
    BY <1>1 DEF Appended
<1>4. CASE k = 1
    BY <1>1, <1>3, <1>4 DEF Appends
<1>5. CASE k # 1
    <2>1. k - 1 \in 1 .. n - 1 /\ (k - 1) + 1 = k
        BY <1>1, <1>5
    <2>2. t[k - 1] = s[(k - 1) + 1]
        BY <2>1, <1>2
    <2>3. t[k - 1] = s[k] /\ k - 1 \in DOMAIN t
        BY <2>1, <2>2, <1>2
    <2>4. Appended(t, f)
        BY <2>3, <1>3 DEF Appended, Appends
    <2> QED
        BY <2>4 DEF t
<1> QED
    BY <1>4, <1>5

-----------------------------------------------------------------------------
LEMMA LookUpLaid ==
    ASSUME ConfigInv, TasksLaid, LookUp
    PROVE  TasksLaid' /\ AllDone'
<1>1. /\ pc = "init_sdo" /\ ops # << >> /\ Head(ops).op \in {"need", "default"}
      /\ ops' = Tail(ops) /\ fields' = fields /\ arg' = arg /\ idx' = idx
      /\ app' = app /\ built' = built
      /\ pc' = pc \/ pc' = "terminated"
    BY DEF LookUp, Doing, Terminate
<1>2. CASE pc' = "terminated"
    BY <1>2 DEF TasksLaid, AllDone, Started
<1>3. CASE pc' = pc
    <2>1. SoFar' = SoFar /\ Done' = Done /\ Started
        BY <1>1, <1>3 DEF SoFar, Sent, Done, Started
    <2>2. ASSUME NEW i \in 1 .. Done, NEW f \in ArgumentFields, Appended(Rest(i), f)
          PROVE  Appended(Rest(i)', f)
        <3>1. i = app /\ Appended(ops, f)
            BY <2>2, NothingAppended DEF Rest
        <3>2. Proper(ops, ArgumentFields) /\ Head(ops).op # "append"
            BY <1>1, InTask
        <3>3. Appended(Tail(ops), f)
            BY <3>1, <3>2, <1>1, AppendedLater
        <3>4. Rest(i)' = Tail(ops)
            BY <3>1, <1>1, <1>3 DEF Rest
        <3> QED
            BY <3>3, <3>4
    <2>3. TasksLaid'
        BY <1>1, <2>1, <2>2, StepLaid
    <2> QED
        BY <2>3, <1>1, <1>3 DEF AllDone
<1> QED
    BY <1>1, <1>2, <1>3

LEMMA AppendFieldLaid ==
    ASSUME ConfigInv, TasksLaid, AppendField
    PROVE  TasksLaid' /\ AllDone'
<1> DEFINE f0 == Head(ops).field
           key == OfTask(app, f0)
           t == Bytes(key)
<1>1. /\ pc = "init_sdo" /\ ops # << >> /\ Head(ops).op = "append"
      /\ ops' = Tail(ops) /\ fields' = fields /\ arg' = arg /\ idx' = idx /\ app' = app
    BY DEF AppendField, Doing
<1>2. \/ key \in DOMAIN fields /\ built' = built \o t /\ pc' = pc
      \/ pc' = "terminated"
    BY DEF AppendField, Terminate
<1>3. CASE pc' = "terminated"
    BY <1>3 DEF TasksLaid, AllDone, Started
<1>4. CASE key \in DOMAIN fields /\ built' = built \o t /\ pc' = pc
    <2>1. /\ Proper(ops, ArgumentFields) /\ built \in Seq(ByteSet) /\ arg \in Seq(ByteSet)
          /\ idx \in Nat /\ app \in Tasks /\ FieldsOK
        BY <1>1, InTask
    <2>2. t \in Seq(ByteSet)
        <3>1. WidthOf(key) \in 0 .. 4
            BY <2>1, <1>4, FieldWidth
        <3>2. WidthOf(key) \in Nat
            BY <3>1
        <3>3. key \in Seq(Names)
            BY <2>1, <1>1, TailProper, ArgumentFieldsAreFields, TaskKey
        <3> HIDE DEF key
        <3> QED
            BY <3>2, <3>3, BytesOfField
    <2>3. Sent \in Seq(ByteSet)
        <3>1. Sent = Top(arg, idx)
            BY DEF Sent, Top
        <3> QED
            BY <3>1, <2>1, TopBytes
    <2>4. SoFar' = SoFar \o t /\ SoFar \in Seq(ByteSet)
        <3>1. Sent' = Sent
            BY <1>1 DEF Sent
        <3>2. built' = built \o t
            BY <1>4
        <3> HIDE DEF t
        <3>3. Sent \o (built \o t) = (Sent \o built) \o t
            BY <2>1, <2>2, <2>3, JoinedThrice, Zenon
        <3>4. SoFar' = SoFar \o t
            BY <3>1, <3>2, <3>3 DEF SoFar
        <3>5. SoFar \in Seq(ByteSet)
            BY <2>1, <2>3 DEF SoFar
        <3> QED
            BY <3>4, <3>5
    <2>5. Done' = Done /\ Started
        BY <1>1, <1>4 DEF Done, Started
    <2>6. \A k : Within(SoFar, k) => Within(SoFar', k)
        <3> HIDE DEF t
        <3> QED
            BY <2>2, <2>4, WithinMore
    <2>7. Within(SoFar', key)
        <3>1. key \in DOMAIN fields /\ t = Bytes(key)
            BY <1>4
        <3> HIDE DEF key, t
        <3> QED
            BY <3>1, <2>2, <2>4, WithinNew
    <2>8. ASSUME NEW i \in 1 .. Done, NEW f \in ArgumentFields, Appended(Rest(i), f)
          PROVE  Appended(Rest(i)', f) \/ Within(SoFar', OfTask(i, f))
        <3>1. i = app /\ Appended(ops, f)
            BY <2>8, NothingAppended DEF Rest
        <3>2. Appended(Tail(ops), f) \/ f = f0
            BY <3>1, <1>1, <2>1, AppendedLater
        <3>3. Rest(i)' = Tail(ops)
            BY <3>1, <1>1, <1>4 DEF Rest
        <3> QED
            BY <3>1, <3>2, <3>3, <2>7
    <2> HIDE DEF key, t, f0
    <2>9. TasksLaid'
        BY <1>1, <2>5, <2>6, <2>8, StepLaid
    <2> QED
        BY <2>9, <1>1, <1>4 DEF AllDone
<1> QED
    BY <1>2, <1>3, <1>4

(* The bytes in the buffer, before and after a copy.                        *)
LEMMA SentCopied ==
    ASSUME ConfigInv, NEW t \in Seq(ByteSet), arg' = Written(arg, idx, t), idx' = idx + Len(t),
           idx' <= Len(arg')
    PROVE  idx <= Len(arg) /\ Sent' = Sent \o t
<1>1. arg \in Seq(ByteSet) /\ idx \in Nat /\ Len(t) \in Nat /\ Len(arg) \in Nat
    BY DEF ConfigInv, ConfigTypes
<1>2. IsCopy(arg, idx, t, arg')
    BY <1>1, TopCopied, Zenon
<1>3. Len(arg') = Len(arg)
    BY <1>2, Zenon DEF IsCopy
<1>4. idx + Len(t) <= Len(arg)
    BY <1>3, Zenon
<1>5. Sent' = Top(arg', idx + Len(t)) /\ Sent = Top(arg, idx)
    BY DEF Sent, Top
<1>6. Sent' = Sent \o t
    BY <1>2, <1>4, <1>5, Zenon DEF IsCopy
<1> QED
    BY <1>1, <1>4, <1>6

LEMMA CopyBuiltLaid ==
    ASSUME ConfigInv, TasksLaid, CopyBuilt
    PROVE  TasksLaid' /\ AllDone'
<1>1. /\ pc = "init_sdo" /\ ops # << >> /\ Head(ops).op = "copy" /\ pc' = pc
      /\ ops' = Tail(ops) /\ fields' = fields /\ app' = app
      /\ arg' = Written(arg, idx, built) /\ idx' = idx + Len(built) /\ built' = << >>
    BY DEF CopyBuilt, Doing
<1>2. Proper(ops, ArgumentFields) /\ built \in Seq(ByteSet) /\ arg \in Seq(ByteSet) /\ idx \in Nat
    BY <1>1, InTask
<1>3. Done' = Done /\ Started
    BY <1>1 DEF Done, Started
<1>4. Sent \in Seq(ByteSet)
    <2>1. Sent = Top(arg, idx)
        BY DEF Sent, Top
    <2> QED
        BY <2>1, <1>2, TopBytes
<1>5. idx' <= Len(arg') => idx <= Len(arg) /\ SoFar' = SoFar
    <2> SUFFICES ASSUME idx' <= Len(arg')
                 PROVE  idx <= Len(arg) /\ SoFar' = SoFar
        OBVIOUS
    <2>1. idx <= Len(arg) /\ Sent' = Sent \o built
        BY <1>1, <1>2, SentCopied
    <2>2. Sent \o built \in Seq(ByteSet)
        BY <1>2, <1>4
    <2>3. SoFar' = (Sent \o built) \o << >>
        BY <2>1, <1>1 DEF SoFar
    <2>4. SoFar' = Sent \o built
        BY <2>2, <2>3, NothingJoined
    <2> QED
        BY <2>1, <2>4 DEF SoFar
<1>6. ASSUME NEW i \in 1 .. Done, NEW f \in ArgumentFields, Appended(Rest(i), f)
      PROVE  Appended(Rest(i)', f)
    <2>1. i = app /\ Appended(ops, f)
        BY <1>6, NothingAppended DEF Rest
    <2>2. Appended(Tail(ops), f)
        BY <2>1, <1>1, <1>2, AppendedLater
    <2>3. Rest(i)' = Tail(ops)
        BY <2>1, <1>1 DEF Rest
    <2> QED
        BY <2>2, <2>3
<1>7. TasksLaid'
    <2>1. idx' <= Len(arg') => idx <= Len(arg) /\ \A key : Within(SoFar, key) => Within(SoFar', key)
        BY <1>5
    <2> QED
        BY <2>1, <1>1, <1>3, <1>6, StepLaid
<1> QED
    BY <1>7, <1>1 DEF AllDone

LEMMA EndTaskLaid ==
    ASSUME ConfigInv, TasksLaid, EndTask
    PROVE  TasksLaid' /\ AllDone'
<1>1. /\ pc = "init_sdo" /\ ops = << >> /\ ops' = ops /\ built' = built
      /\ fields' = fields /\ arg' = arg /\ idx' = idx /\ count' = count
      /\ \/ app < count /\ app' = app + 1 /\ pc' = "task"
         \/ ~(app < count) /\ app' = app /\ pc' = "configured"
    BY DEF EndTask
<1>2. app \in 1 .. count /\ count \in Nat
    BY <1>1 DEF ConfigInv, ConfigTypes, Building
<1>3. Started /\ SoFar' = SoFar /\ Done = app
    BY <1>1 DEF Started, SoFar, Sent, Done
<1>4. Done' = app
    <2>1. CASE app' = app + 1 /\ pc' = "task"
        <3>1. (app + 1) - 1 = app
            BY <1>2
        <3>2. Done' = app' - 1
            BY <2>1 DEF Done
        <3> QED
            BY <2>1, <3>1, <3>2
    <2>2. CASE app' = app /\ pc' = "configured"
        BY <2>2 DEF Done
    <2> QED
        BY <2>1, <2>2, <1>1
<1>5. \A i, f : ~Appended(Rest(i), f)
    <2>1. \A i : Rest(i) = << >>
        BY <1>1 DEF Rest
    <2> QED
        BY <2>1, NothingAppended
<1>6. TasksLaid'
    BY <1>1, <1>3, <1>4, <1>5, StepLaid
<1>7. built = << >>
    <2>1. built # << >> => Copies(ops)
        BY <1>1, InTask
    <2>2. DOMAIN ops = {}
        BY <1>1
    <2> QED
        BY <2>1, <2>2 DEF Copies
<1>8. AllDone'
    <2>1. CASE pc' = "configured"
        <3>1. ~(app < count) /\ app' = app
            BY <2>1, <1>1
        <3>2. app = count
            BY <3>1, <1>2
        <3> QED
            BY <3>1, <3>2, <1>1, <1>7 DEF AllDone
    <2> QED
        BY <2>1 DEF AllDone
<1> QED
    BY <1>6, <1>8

LEMMA BeginTaskLaid ==
    ASSUME ConfigInv, TasksLaid, BeginTask
    PROVE  TasksLaid' /\ AllDone'
<1> DEFINE f0 == Sdo("task_type")
           key == OfTask(app, f0)
           t == Bytes(key)
<1>1. /\ pc = "task" /\ fields' = fields /\ app' = app /\ built' = built
      /\ \/ pc' = "terminated"
         \/ /\ Has(key, "uint8_t") /\ Value(key) \in TaskTypes
            /\ arg' = Written(arg, idx, t)
            /\ idx' = idx + 1 /\ ops' = init_sdo(Value(key), app) /\ pc' = "init_sdo"
    BY DEF BeginTask, Terminate
<1>2. CASE pc' = "terminated"
    BY <1>2 DEF TasksLaid, AllDone, Started
<1>3. CASE /\ Has(key, "uint8_t") /\ Value(key) \in TaskTypes
           /\ arg' = Written(arg, idx, t)
           /\ idx' = idx + 1 /\ ops' = init_sdo(Value(key), app) /\ pc' = "init_sdo"
    <2>1. /\ FieldsOK /\ count \in Nat /\ count <= 255 /\ app \in 1 .. count
          /\ built = << >> /\ arg \in Seq(ByteSet) /\ idx \in Nat
        BY <1>1 DEF ConfigInv, ConfigTypes, StepsLeft, Building
    <2>2. app \in Tasks
        BY <2>1 DEF Tasks
    <2>3. f0 \in Seq(Names)
        BY AllFieldsAreFields
    <2>4. key \in DOMAIN fields /\ WidthOf(key) = 1 /\ key \in Seq(Names)
        <3>1. key \in DOMAIN fields /\ fields[key].type = "uint8_t"
            BY <1>3 DEF Has
        <3>2. key \in Seq(Names)
            BY <2>2, <2>3, TaskKey
        <3> HIDE DEF key
        <3> QED
            BY <3>1, <3>2, <2>1, FieldWidth
    <2>5. t \in Seq(ByteSet) /\ Len(t) = 1
        <3> HIDE DEF key
        <3> QED
            BY <2>4, BytesOfOne
    <2>6. Sent \in Seq(ByteSet) /\ SoFar = Sent
        <3>1. Sent = Top(arg, idx)
            BY DEF Sent, Top
        <3>2. Sent \in Seq(ByteSet)
            BY <3>1, <2>1, TopBytes
        <3> QED
            BY <3>2, <2>1, NothingJoined DEF SoFar
    <2>7. idx' <= Len(arg') => idx <= Len(arg) /\ SoFar' = SoFar \o t
        <3> SUFFICES ASSUME idx' <= Len(arg')
                     PROVE  idx <= Len(arg) /\ SoFar' = SoFar \o t
            OBVIOUS
        <3>1. idx' = idx + Len(t) /\ arg' = Written(arg, idx, t)
            BY <1>3, <2>5
        <3>2. built' = << >>
            BY <1>1, <2>1
        <3> HIDE DEF t
        <3>3. idx <= Len(arg) /\ Sent' = Sent \o t
            BY <3>1, <2>5, SentCopied
        <3>4. Sent \o t \in Seq(ByteSet)
            BY <2>5, <2>6
        <3>5. SoFar' = (Sent \o t) \o << >>
            BY <3>2, <3>3 DEF SoFar
        <3> QED
            BY <3>3, <3>4, <3>5, <2>6, NothingJoined
    <2>8. Done' = app /\ Done = app - 1
        BY <1>1, <1>3 DEF Done
    <2>9. ASSUME idx' <= Len(arg'), NEW i \in 1 .. app
          PROVE  TaskLaid(SoFar', Rest(i)', i)
        <3>1. CASE i = app
            <4>1. key \in DOMAIN fields /\ t = Bytes(key)
                BY <2>4
            <4>2. SoFar' = SoFar \o t /\ SoFar \in Seq(ByteSet) /\ t \in Seq(ByteSet)
                BY <2>5, <2>6, <2>7, <2>9
            <4>3. Within(SoFar', key)
                <5> HIDE DEF key, t
                <5> QED
                    BY <4>1, <4>2, WithinNew
            <4>4. TaskType(i) = Value(key)
                BY <3>1 DEF TaskType
            <4>5. Rest(i)' = ops'
                BY <3>1, <1>1, <1>3 DEF Rest
            <4> QED
                BY <3>1, <4>3, <4>4, <4>5, <1>3 DEF TaskLaid
        <3>2. CASE i # app
            <4>1. i \in 1 .. Done
                BY <3>2, <2>1, <2>8
            <4>2. TaskLaid(SoFar, Rest(i), i)
                BY <4>1, <2>7, <2>9, <1>1 DEF TasksLaid, Started
            <4>3. Rest(i) = << >>
                BY <1>1 DEF Rest
            <4>4. \A k : Within(SoFar, k) => Within(SoFar', k)
                <5>1. SoFar' = SoFar \o t /\ SoFar \in Seq(ByteSet) /\ t \in Seq(ByteSet)
                    BY <2>5, <2>6, <2>7, <2>9
                <5> HIDE DEF t
                <5> QED
                    BY <5>1, WithinMore
            <4> QED
                BY <4>2, <4>3, <4>4, NothingAppended DEF TaskLaid
        <3> QED
            BY <3>1, <3>2
    <2>10. TasksLaid'
        <3>1. SUFFICES ASSUME idx' <= Len(arg')
                       PROVE  (\A i \in 1 .. Done : TaskLaid(SoFar, Rest(i), i))'
            BY DEF TasksLaid
        <3> QED
            BY <3>1, <2>8, <2>9, <1>1, TaskLaidNext
    <2> QED
        BY <2>10, <1>3 DEF AllDone
<1> QED
    BY <1>1, <1>2, <1>3

LEMMA BeforeTasksLaid ==
    ASSUME ParseEntry \/ BeginTaskList
    PROVE  TasksLaid' /\ AllDone'
<1>1. /\ pc' # "init_sdo" /\ pc' # "configured"
      /\ pc' = "task" => app' = 1
    BY DEF ParseEntry, Parse, ParseScalar, ParseSequence, ParseOther, BeginTaskList, Loaded, Terminate
<1>2. CASE pc' = "task"
    <2>1. Done' = 0
        BY <1>1, <1>2 DEF Done
    <2>2. 1 .. Done' = {}
        BY <2>1
    <2>3. TasksLaid'
        BY <2>2, Zenon DEF TasksLaid
    <2> QED
        BY <2>3, <1>1 DEF AllDone
<1>3. CASE pc' # "task"
    BY <1>1, <1>3 DEF TasksLaid, AllDone, Started
<1> QED
    BY <1>2, <1>3

LEMMA StutterLaid ==
    ASSUME TasksLaid, AllDone, UNCHANGED vars
    PROVE  TasksLaid' /\ AllDone'
<1>1. /\ fields' = fields /\ arg' = arg /\ idx' = idx /\ count' = count
      /\ app' = app /\ ops' = ops /\ built' = built /\ pc' = pc
    BY DEF vars, parser
<1>2. SoFar' = SoFar /\ Done' = Done /\ \A i : Rest(i)' = Rest(i)
    BY <1>1 DEF SoFar, Sent, Done, Rest
<1>3. TasksLaid'
    <2>1. CASE Started
        BY <2>1, <1>1, <1>2, StepLaid
    <2>2. CASE ~Started
        BY <2>2, <1>1 DEF TasksLaid, Started
    <2> QED
        BY <2>1, <2>2
<1> QED
    BY <1>1, <1>3 DEF AllDone

(* When all tasks are done, every setting they append is in the buffer; and  *)
(* what their types know of is appended, unless it says nothing.            *)
LEMMA CompleteWhenConfigured ==
    ASSUME ConfigInv, TasksLaid, AllDone, SettingsKnown
    PROVE  ArgumentsComplete
<1> SUFFICES ASSUME pc = "configured", NEW key \in ArgumentKeys, ~(Len(arg) < ArgumentBytes)
             PROVE  Idle(key) \/ ToSet(Bytes(key)) \subseteq ToSet(Sent)
    BY DEF ArgumentsComplete
<1>1. FieldsOK /\ arg \in Seq(ByteSet) /\ idx \in Nat /\ count \in Nat /\ count <= 255
    BY DEF ConfigInv, ConfigTypes
<1>2. idx <= Len(arg)
    <2>1. ArgumentBytes \in Nat /\ Len(arg) \in Nat
        BY <1>1, ArgumentBytesNatural
    <2>2. Len(arg) >= ArgumentBytes
        BY <2>1
    <2> QED
        BY <2>2 DEF ConfigInv, WithinBuffer
<1>3. Sent \in Seq(ByteSet)
    <2>1. Sent = Top(arg, idx)
        BY DEF Sent, Top
    <2> QED
        BY <2>1, <1>1, TopBytes
<1>4. SoFar = Sent
    <2>1. SoFar = Sent \o << >>
        BY DEF AllDone, SoFar
    <2> QED
        BY <2>1, <1>3, NothingJoined
<1>5. \A i \in 1 .. count : TaskLaid(Sent, << >>, i)
    <2>1. Started /\ Done = count /\ \A i : Rest(i) = << >>
        BY DEF Started, Done, AllDone, Rest
    <2> QED
        BY <2>1, <1>2, <1>4 DEF TasksLaid
<1>6. PICK i \in 1 .. count :
         \E f \in ArgumentSettings(TaskType(i)) \cup {Sdo("task_type")} : key = OfTask(i, f)
    BY DEF SettingsKnown
<1>7. PICK f \in ArgumentSettings(TaskType(i)) \cup {Sdo("task_type")} : key = OfTask(i, f)
    BY <1>6
<1>8. TaskLaid(Sent, << >>, i) /\ KnownControl(i) /\ key \in DOMAIN fields
    BY <1>5 DEF SettingsKnown, ArgumentKeys
<1>9. i \in Tasks
    BY <1>1 DEF Tasks
<1>10. CASE f = Sdo("task_type")
    BY <1>7, <1>8, <1>10 DEF TaskLaid, Within
<1>11. CASE f \in ArgumentSettings(TaskType(i))
    <2>1. TaskType(i) \in TaskTypes
        BY <1>8 DEF TaskLaid
    <2>2. Appended(init_sdo(TaskType(i), i), f) \/ Idle(OfTask(i, f))
        BY <2>1, <1>7, <1>8, <1>9, <1>11, SettingsAppended
    <2>3. CASE Appended(init_sdo(TaskType(i), i), f)
        <3>1. Proper(init_sdo(TaskType(i), i), ArgumentFields)
            BY <2>1, init_sdoProper
        <3>2. f \in ArgumentFields
            BY <3>1, <2>3 DEF Proper, Appended
        <3>3. Within(Sent, OfTask(i, f))
            BY <3>2, <2>3, <1>8, NothingAppended DEF TaskLaid
        <3> QED
            BY <3>3, <1>7 DEF Within
    <2> QED
        BY <2>2, <2>3, <1>7
<1> QED
    BY <1>7, <1>10, <1>11

(* As init_task_list() goes through the tasks, every setting that a task's   *)
(* init_sdo() is to send is in arg_buf_ or temp_buf_, or still to come; of   *)
(* the tasks behind it nothing is left out.                                 *)
THEOREM TasksLaidInvariant == Spec => [](TasksLaid /\ AllDone)
<1>1. Init => TasksLaid /\ AllDone
    BY DEF Init, InitParser, TasksLaid, AllDone, Started
<1>2. ConfigInv /\ TasksLaid /\ AllDone /\ [Next]_vars => TasksLaid' /\ AllDone'
    <2> SUFFICES ASSUME ConfigInv, TasksLaid, AllDone, [Next]_vars
                 PROVE  TasksLaid' /\ AllDone'
        OBVIOUS
    <2>1. CASE ParseEntry \/ BeginTaskList
        BY <2>1, BeforeTasksLaid
    <2>2. CASE BeginTask
        BY <2>2, BeginTaskLaid
    <2>3. CASE AppendField
        BY <2>3, AppendFieldLaid
    <2>4. CASE CopyBuilt
        BY <2>4, CopyBuiltLaid
    <2>5. CASE LookUp
        BY <2>5, LookUpLaid
    <2>6. CASE EndTask
        BY <2>6, EndTaskLaid
    <2>7. CASE UNCHANGED vars
        BY <2>7, StutterLaid
    <2> QED
        BY <2>1, <2>2, <2>3, <2>4, <2>5, <2>6, <2>7 DEF Next
<1> QED
    BY <1>1, <1>2, ConfigInvariant, PTL DEF Spec

(* Whatever tasks a slave has, once it is configured every argument setting  *)
(* of theirs that their types know is in arg_buf_ as long as sdo_len counts  *)
(* them, except those of motors and control loops that are not in use: no    *)
(* branch of an init_sdo() forgets one.                                     *)
THEOREM KnownArgumentsAreComplete == Spec => [](SettingsKnown => ArgumentsComplete)
<1>1. ConfigInv /\ TasksLaid /\ AllDone => (SettingsKnown => ArgumentsComplete)
    BY CompleteWhenConfigured
<1> QED
    BY <1>1, ConfigInvariant, TasksLaidInvariant, PTL

-----------------------------------------------------------------------------
(* Induction on the length of a sequence, for a set in place of a           *)
(* predicate: a set of numbers that holds 0 and with a number its successor *)
(* holds them all.                                                          *)
LEMMA AllNumbers ==
    ASSUME NEW T, 0 \in T, \A n \in Nat : n \in T => n + 1 \in T
    PROVE  \A n \in Nat : n \in T
<1> DEFINE less == OpToRel(<, Nat)
           bad == {n \in Nat : n \notin T}
<1> SUFFICES ASSUME bad # {}
             PROVE  FALSE
    OBVIOUS
<1>1. PICK n \in bad : \A m \in bad : ~(<< m, n >> \in less)
    <2>1. IsWellFoundedOn(less, Nat) /\ bad \subseteq Nat
        BY NatLessThanWellFounded
    <2> HIDE DEF less, bad
    <2> QED
        BY <2>1, WFMin, Zenon
<1>2. n \in Nat /\ n # 0
    OBVIOUS
<1>3. n - 1 \in Nat /\ n - 1 < n /\ (n - 1) + 1 = n
    BY <1>2
<1>4. << n - 1, n >> \in less
    BY <1>2, <1>3 DEF OpToRel
<1>5. n - 1 \in T
    BY <1>1, <1>3, <1>4
<1> QED
    BY <1>3, <1>5

-----------------------------------------------------------------------------
(* FlattenSeq: what its recursive function piles up.                        *)
IsPile(f, ss, n) == f = [i \in 1 .. n |-> IF i = 1 THEN ss[i] ELSE f[i - 1] \o ss[i]]

LEMMA PileStep ==
    ASSUME NEW ss, NEW n \in Nat, NEW f, IsPile(f, ss, n)
    PROVE  \E g : IsPile(g, ss, n + 1)
<1> DEFINE g == [i \in 1 .. n + 1 |-> IF i = n + 1 THEN (IF i = 1 THEN ss[i] ELSE f[n] \o ss[i]) ELSE f[i]]
           step == [i \in 1 .. n + 1 |-> IF i = 1 THEN ss[i] ELSE g[i - 1] \o ss[i]]
<1>1. ASSUME NEW i \in 1 .. n + 1
      PROVE  g[i] = IF i = 1 THEN ss[i] ELSE g[i - 1] \o ss[i]
    <2>1. CASE i = 1 /\ n = 0
        BY <2>1
    <2>2. CASE i = n + 1 /\ n # 0
        <3>1. n \in 1 .. n + 1 /\ n # n + 1 /\ i - 1 = n /\ i # 1
            BY <2>2
        <3>2. g[n] = f[n] /\ g[i] = f[n] \o ss[i]
            BY <3>1, <2>2
        <3> HIDE DEF g
        <3> QED
            BY <3>1, <3>2
    <2>3. CASE i # n + 1
        <3>1. i \in 1 .. n
            BY <2>3
        <3>2. f[i] = IF i = 1 THEN ss[i] ELSE f[i - 1] \o ss[i]
            BY <3>1 DEF IsPile
        <3>3. g[i] = f[i]
            BY <2>3
        <3>4. i # 1 => i - 1 \in 1 .. n + 1 /\ i - 1 # n + 1
            BY <3>1
        <3>5. i # 1 => g[i - 1] = f[i - 1]
            BY <3>4
        <3> HIDE DEF g
        <3> QED
            BY <3>2, <3>3, <3>5
    <2> QED
        BY <2>1, <2>2, <2>3
<1>2. g = step
    <2>1. g = [i \in 1 .. n + 1 |-> g[i]]
        OBVIOUS
    <2> HIDE DEF g
    <2> QED
        BY <1>1, <2>1
<1> QED
    BY <1>2 DEF IsPile

LEMMA PileExists ==
    ASSUME NEW ss, NEW n \in Nat
    PROVE  \E f : IsPile(f, ss, n)
<1> DEFINE T == {k \in Nat : \E f : IsPile(f, ss, k)}
<1>1. 0 \in T
    <2> DEFINE f == [i \in 1 .. 0 |-> 0]
    <2>1. f = [i \in 1 .. 0 |-> IF i = 1 THEN ss[i] ELSE f[i - 1] \o ss[i]]
        OBVIOUS
    <2>2. IsPile(f, ss, 0)
        BY <2>1, Zenon DEF IsPile
    <2> QED
        BY <2>2
<1>2. \A k \in Nat : k \in T => k + 1 \in T
    BY PileStep
<1> HIDE DEF T
<1>3. n \in T
    BY <1>1, <1>2, AllNumbers
<1> QED
    BY <1>3 DEF T

LEMMA Piled ==
    ASSUME NEW ss, Len(ss) \in Nat, Len(ss) # 0
    PROVE  \E f : IsPile(f, ss, Len(ss)) /\ FlattenSeq(ss) = f[Len(ss)]
<1> DEFINE n == Len(ss)
           f == CHOOSE g : g = [i \in 1 .. n |-> IF i = 1 THEN ss[i] ELSE g[i - 1] \o ss[i]]
<1>1. \E g : g = [i \in 1 .. n |-> IF i = 1 THEN ss[i] ELSE g[i - 1] \o ss[i]]
    BY PileExists DEF IsPile
<1>2. f = [i \in 1 .. n |-> IF i = 1 THEN ss[i] ELSE f[i - 1] \o ss[i]]
    BY <1>1, Zenon
<1>3. FlattenSeq(ss) = f[n]
    BY DEF FlattenSeq
<1> HIDE DEF f, n
<1>4. IsPile(f, ss, n)
    BY <1>2, Zenon DEF IsPile
<1> QED
    BY <1>3, <1>4 DEF n

LEMMA PileIn ==
    ASSUME NEW S, NEW ss \in Seq(Seq(S)), NEW f, IsPile(f, ss, Len(ss))
    PROVE  \A i \in 1 .. Len(ss) : f[i] \in Seq(S)
<1> DEFINE n == Len(ss)
           T == {k \in Nat : k \in 1 .. n => f[k] \in Seq(S)}
<1>1. n \in Nat /\ \A i \in 1 .. n : ss[i] \in Seq(S)
    OBVIOUS
<1>2. \A i \in 1 .. n : f[i] = IF i = 1 THEN ss[i] ELSE f[i - 1] \o ss[i]
    BY DEF IsPile
<1>3. 0 \in T
    OBVIOUS
<1>4. ASSUME NEW k \in Nat, k \in T
      PROVE  k + 1 \in T
    <2> SUFFICES ASSUME k + 1 \in 1 .. n
                 PROVE  f[k + 1] \in Seq(S)
        OBVIOUS
    <2>1. CASE k = 0
        BY <2>1, <1>1, <1>2
    <2>2. CASE k # 0
        <3>1. k \in 1 .. n /\ (k + 1) - 1 = k /\ k + 1 # 1
            BY <2>2, <1>1
        <3>2. f[k + 1] = f[k] \o ss[k + 1]
            BY <3>1, <1>2
        <3>3. f[k] \in Seq(S) /\ ss[k + 1] \in Seq(S)
            BY <3>1, <1>4, <1>1
        <3> QED
            BY <3>2, <3>3
    <2> QED
        BY <2>1, <2>2
<1> HIDE DEF T
<1>5. \A k \in Nat : k \in T
    BY <1>3, <1>4, AllNumbers
<1> QED
    BY <1>5 DEF T

Agree(ss, tt, n) == \A i \in 1 .. n : ss[i] = tt[i]

LEMMA PileSame ==
    ASSUME NEW ss, NEW tt, NEW n \in Nat, n # 0, Agree(ss, tt, n),
           NEW f, IsPile(f, ss, n), NEW g, IsPile(g, tt, n + 1)
    PROVE  f[n] = g[n]
<1> DEFINE T == {k \in Nat : k \in 1 .. n => f[k] = g[k]}
<1>1. \A i \in 1 .. n : i \in 1 .. n + 1
    OBVIOUS
<1>2. \A i \in 1 .. n : /\ f[i] = IF i = 1 THEN ss[i] ELSE f[i - 1] \o ss[i]
                        /\ g[i] = IF i = 1 THEN ss[i] ELSE g[i - 1] \o ss[i]
    BY <1>1 DEF IsPile, Agree
<1>3. 0 \in T
    OBVIOUS
<1>4. ASSUME NEW k \in Nat, k \in T
      PROVE  k + 1 \in T
    <2> SUFFICES ASSUME k + 1 \in 1 .. n
                 PROVE  f[k + 1] = g[k + 1]
        OBVIOUS
    <2>1. CASE k = 0
        BY <2>1, <1>2
    <2>2. CASE k # 0
        <3>1. k \in 1 .. n /\ (k + 1) - 1 = k /\ k + 1 # 1
            BY <2>2
        <3> QED
            BY <3>1, <1>2, <1>4
    <2> QED
        BY <2>1, <2>2
<1> HIDE DEF T
<1>5. \A k \in Nat : k \in T
    BY <1>3, <1>4, AllNumbers
<1>6. n \in 1 .. n
    OBVIOUS
<1> QED
    BY <1>5, <1>6 DEF T

LEMMA FlatNone == FlattenSeq(<< >>) = << >>
BY DEF FlattenSeq

LEMMA FlatIn ==
    ASSUME NEW S, NEW ss \in Seq(Seq(S))
    PROVE  FlattenSeq(ss) \in Seq(S)
<1>1. CASE ss = << >>
    <2>1. << >> \in Seq(S)
        OBVIOUS
    <2> QED
        BY <2>1, <1>1, FlatNone, Zenon
<1>2. CASE ss # << >>
    <2>1. Len(ss) \in Nat /\ Len(ss) # 0
        BY <1>2
    <2>2. PICK f : IsPile(f, ss, Len(ss)) /\ FlattenSeq(ss) = f[Len(ss)]
        BY <2>1, Piled
    <2>3. Len(ss) \in 1 .. Len(ss)
        BY <2>1
    <2> QED
        BY <2>2, <2>3, PileIn
<1> QED
    BY <1>1, <1>2

LEMMA FlatAppend ==
    ASSUME NEW S, NEW ss \in Seq(Seq(S)), NEW s \in Seq(S)
    PROVE  FlattenSeq(Append(ss, s)) = FlattenSeq(ss) \o s
<1> DEFINE len == Len(ss)
           longer == Append(ss, s)
<1>1. longer \in Seq(Seq(S)) /\ len \in Nat /\ Len(longer) = len + 1 /\ longer[len + 1] = s /\ Agree(ss, longer, len)
    BY DEF Agree
<1> HIDE DEF longer, len
<1>2. Len(longer) \in Nat /\ Len(longer) # 0
    BY <1>1
<1>3. PICK g : IsPile(g, longer, len + 1) /\ FlattenSeq(longer) = g[len + 1]
    BY <1>1, <1>2, Piled
<1>4. g[len + 1] = IF len + 1 = 1 THEN s ELSE g[(len + 1) - 1] \o s
    <2>1. len + 1 \in 1 .. len + 1
        BY <1>1
    <2>2. g[len + 1] = IF len + 1 = 1 THEN longer[len + 1] ELSE g[(len + 1) - 1] \o longer[len + 1]
        BY <1>3, <2>1 DEF IsPile
    <2> QED
        BY <1>1, <2>2
<1>5. CASE len = 0
    <2>1. ss = << >>
        BY <1>5 DEF len
    <2>2. FlattenSeq(longer) = s
        BY <1>5, <1>3, <1>4
    <2>3. << >> \o s = s
        OBVIOUS
    <2> QED
        BY <2>1, <2>2, <2>3, FlatNone DEF longer
<1>6. CASE len # 0
    <2>1. PICK f : IsPile(f, ss, len) /\ FlattenSeq(ss) = f[len]
        BY <1>1, <1>6, Piled DEF len
    <2>2. len + 1 \in Nat /\ len <= len + 1 /\ len \in 1 .. len /\ (len + 1) - 1 = len /\ len + 1 # 1
        BY <1>1, <1>6
    <2>3. f[len] = g[len]
        <3>1. IsPile(f, ss, len) /\ IsPile(g, longer, len + 1) /\ Agree(ss, longer, len)
            BY <1>1, <1>3, <2>1 DEF Agree
        <3> QED
            BY <3>1, <1>1, <1>6, PileSame
    <2> QED
        BY <2>1, <2>2, <2>3, <1>3, <1>4 DEF longer
<1> QED
    BY <1>5, <1>6

-----------------------------------------------------------------------------
(* A set of sequences that holds the empty one, and with a sequence every   *)
(* sequence that is longer by an element, holds them all.                   *)
LEMMA AllSequences ==
    ASSUME NEW S, NEW T, << >> \in T, \A s \in Seq(S) : \A x \in S : s \in T => Append(s, x) \in T
    PROVE  \A s \in Seq(S) : s \in T
<1> DEFINE N == {n \in Nat : \A s \in Seq(S) : Len(s) = n => s \in T}
<1>1. 0 \in N
    <2>1. \A s \in Seq(S) : Len(s) = 0 => s = << >>
        OBVIOUS
    <2> QED
        BY <2>1
<1>2. ASSUME NEW n \in Nat, n \in N
      PROVE  n + 1 \in N
    <2> SUFFICES ASSUME NEW s \in Seq(S), Len(s) = n + 1
                 PROVE  s \in T
        OBVIOUS
    <2>1. PICK t \in Seq(S), x \in S : s = Append(t, x)
        <3>1. s # << >>
            OBVIOUS
        <3> HIDE DEF N
        <3> QED
            BY <3>1, SequenceEmptyOrAppend, Zenon
    <2>2. Len(s) = Len(t) + 1 /\ Len(t) \in Nat
        BY <2>1
    <2>3. Len(t) = n
        BY <2>2
    <2>4. t \in T
        BY <2>3, <1>2
    <2> HIDE DEF N
    <2> QED
        BY <2>1, <2>4
<1> HIDE DEF N
<1>3. \A n \in Nat : n \in N
    BY <1>1, <1>2, AllNumbers
<1>4. \A s \in Seq(S) : Len(s) \in N
    BY <1>3
<1> QED
    BY <1>4 DEF N

LEMMA FlatJoined ==
    ASSUME NEW S, NEW ss \in Seq(Seq(S)), NEW tt \in Seq(Seq(S))
    PROVE  FlattenSeq(ss \o tt) = FlattenSeq(ss) \o FlattenSeq(tt)
<1> DEFINE W == Seq(S)
           T == {rr \in Seq(W) : FlattenSeq(ss \o rr) = FlattenSeq(ss) \o FlattenSeq(rr)}
<1>1. << >> \in T
    <2>1. << >> \in Seq(W) /\ ss \o << >> = ss
        BY EmptySeq, ConcatEmptySeq
    <2>2. FlattenSeq(ss) \o << >> = FlattenSeq(ss)
        BY FlatIn, ConcatEmptySeq
    <2> QED
        BY <2>1, <2>2, FlatNone
<1>2. ASSUME NEW rr \in Seq(W), NEW x \in W, rr \in T
      PROVE  Append(rr, x) \in T
    <2>1. Append(rr, x) \in Seq(W) /\ ss \o rr \in Seq(W)
        OBVIOUS
    <2>2. ss \o Append(rr, x) = Append(ss \o rr, x)
        <3>1. ss \o (rr \o << x >>) = (ss \o rr) \o << x >>
            <4>1. << x >> \in Seq(W)
                OBVIOUS
            <4> HIDE DEF W
            <4> QED
                BY <4>1, ConcatAssociative
        <3> HIDE DEF W
        <3> QED
            BY <2>1, <3>1, AppendIsConcat
    <2>3. FlattenSeq(Append(ss \o rr, x)) = FlattenSeq(ss \o rr) \o x
        BY <2>1, FlatAppend
    <2>4. FlattenSeq(Append(rr, x)) = FlattenSeq(rr) \o x
        BY FlatAppend
    <2>5. FlattenSeq(ss \o rr) = FlattenSeq(ss) \o FlattenSeq(rr)
        BY <1>2
    <2>6. FlattenSeq(ss) \in Seq(S) /\ FlattenSeq(rr) \in Seq(S)
        BY FlatIn
    <2>7. (FlattenSeq(ss) \o FlattenSeq(rr)) \o x = FlattenSeq(ss) \o (FlattenSeq(rr) \o x)
        BY <2>6, ConcatAssociative
    <2> QED
        BY <2>1, <2>2, <2>3, <2>4, <2>5, <2>7, Zenon
<1> HIDE DEF T
<1>3. \A rr \in Seq(W) : rr \in T
    BY <1>1, <1>2, AllSequences, Zenon
<1> QED
    BY <1>3 DEF T

-----------------------------------------------------------------------------
(* What the elements of a sequence expand to, one behind the other.         *)
Expansions(D, W) == [D -> W]
Each(e, s) == [k \in DOMAIN s |-> e[s[k]]]
Spread(e, s) == FlattenSeq(Each(e, s))

LEMMA EachIn ==
    ASSUME NEW D, NEW W, NEW e \in Expansions(D, W), NEW s \in Seq(D)
    PROVE  /\ Each(e, s) \in Seq(W) /\ Len(Each(e, s)) = Len(s) /\ DOMAIN Each(e, s) = 1 .. Len(s)
           /\ \A k \in 1 .. Len(s) : Each(e, s)[k] = e[s[k]]
<1> DEFINE n == Len(s)
<1>1. /\ n \in Nat /\ DOMAIN s = 1 .. n /\ \A k \in 1 .. n : s[k] \in D
      /\ e \in [D -> W]
    BY DEF Expansions
<1>2. n = Len(s)
    OBVIOUS
<1> HIDE DEF n
<1>3. Each(e, s) = [k \in 1 .. n |-> e[s[k]]]
    BY <1>1 DEF Each
<1>4. \A k \in 1 .. n : e[s[k]] \in W
    BY <1>1
<1> QED
    BY <1>1, <1>2, <1>3, <1>4

LEMMA EachJoined ==
    ASSUME NEW D, NEW W, NEW e \in Expansions(D, W), NEW s \in Seq(D), NEW t \in Seq(D)
    PROVE  Each(e, s \o t) = Each(e, s) \o Each(e, t)
<1> DEFINE n == Len(s)
           m == Len(t)
           u == s \o t
           a == Each(e, s)
           b == Each(e, t)
           c == Each(e, u)
<1>1. n \in Nat /\ m \in Nat /\ n = Len(s) /\ m = Len(t)
    OBVIOUS
<1>2. /\ u \in Seq(D) /\ Len(u) = n + m /\ \A k \in 1 .. n : u[k] = s[k]
      /\ \A k \in 1 .. m : u[n + k] = t[k]
    BY <1>1, Joined
<1>3. /\ a \in Seq(W) /\ Len(a) = n /\ \A k \in 1 .. n : a[k] = e[s[k]]
    BY EachIn
<1>4. /\ b \in Seq(W) /\ Len(b) = m /\ \A k \in 1 .. m : b[k] = e[t[k]]
    BY EachIn
<1> HIDE DEF n, m, u
<1>5. /\ c \in Seq(W) /\ Len(c) = n + m /\ \A k \in 1 .. n + m : c[k] = e[u[k]]
    BY <1>2, EachIn
<1> HIDE DEF a, b, c
<1>6. /\ a \o b \in Seq(W) /\ Len(a \o b) = n + m /\ \A k \in 1 .. n : (a \o b)[k] = a[k]
      /\ \A k \in 1 .. m : (a \o b)[n + k] = b[k]
    <2>1. a \in Seq(W) /\ b \in Seq(W) /\ n \in Nat /\ n = Len(a) /\ m = Len(b)
        BY <1>1, <1>3, <1>4
    <2> QED
        BY <2>1, Joined
<1>7. ASSUME NEW i \in 1 .. n + m
      PROVE  c[i] = (a \o b)[i]
    <2>1. CASE i <= n
        <3>1. i \in 1 .. n
            BY <2>1, <1>1
        <3>2. c[i] = e[u[i]] /\ u[i] = s[i]
            BY <3>1, <1>2, <1>5
        <3>3. a[i] = e[s[i]] /\ (a \o b)[i] = a[i]
            BY <3>1, <1>3, <1>6
        <3> QED
            BY <3>2, <3>3
    <2>2. CASE ~(i <= n)
        <3>1. PICK k \in 1 .. m : i = n + k
            <4>1. i - n \in 1 .. m /\ i = n + (i - n)
                BY <2>2, <1>1
            <4> QED
                BY <4>1
        <3>2. c[i] = e[t[k]]
            <4>1. c[i] = e[u[i]] /\ u[n + k] = t[k]
                BY <1>2, <1>5
            <4> QED
                BY <4>1, <3>1
        <3> QED
            BY <3>1, <3>2, <1>4, <1>6
    <2> QED
        BY <2>1, <2>2
<1>8. c = a \o b
    BY <1>5, <1>6, <1>7, SeqEqual
<1> QED
    BY <1>8 DEF a, b, c, u

LEMMA SpreadIn ==
    ASSUME NEW D, NEW S, NEW e \in Expansions(D, Seq(S)), NEW s \in Seq(D)
    PROVE  Spread(e, s) \in Seq(S)
<1>1. Each(e, s) \in Seq(Seq(S))
    BY EachIn
<1> QED
    BY <1>1, FlatIn DEF Spread

LEMMA SpreadNone ==
    ASSUME NEW e
    PROVE  Spread(e, << >>) = << >>
<1>1. Each(e, << >>) = << >>
    BY DEF Each
<1> QED
    BY <1>1, FlatNone DEF Spread

LEMMA SpreadJoined ==
    ASSUME NEW D, NEW S, NEW e \in Expansions(D, Seq(S)), NEW s \in Seq(D), NEW t \in Seq(D)
    PROVE  Spread(e, s \o t) = Spread(e, s) \o Spread(e, t)
<1>1. Each(e, s) \in Seq(Seq(S)) /\ Each(e, t) \in Seq(Seq(S))
    BY EachIn
<1>2. Each(e, s \o t) = Each(e, s) \o Each(e, t)
    BY EachJoined
<1> QED
    BY <1>1, <1>2, FlatJoined DEF Spread

LEMMA FlatOne ==
    ASSUME NEW S, NEW s \in Seq(S)
    PROVE  FlattenSeq(<< s >>) = s
<1>1. << >> \in Seq(Seq(S)) /\ Append(<< >>, s) = << s >>
    OBVIOUS
<1>2. FlattenSeq(Append(<< >>, s)) = << >> \o s
    BY <1>1, FlatAppend, FlatNone
<1> QED
    BY <1>1, <1>2, ConcatEmptySeq

LEMMA SpreadFlat ==
    ASSUME NEW D, NEW S, NEW e \in Expansions(D, Seq(S)), NEW ss \in Seq(Seq(D))
    PROVE  Spread(e, FlattenSeq(ss)) = FlattenSeq([j \in DOMAIN ss |-> Spread(e, ss[j])])
<1> DEFINE W == Seq(D)
           big == [s \in W |-> Spread(e, s)]
           T == {rr \in Seq(W) : Spread(e, FlattenSeq(rr)) = Spread(big, rr)}
<1>1. big \in Expansions(W, Seq(S))
    BY SpreadIn DEF Expansions
<1>2. \A s \in W : big[s] = Spread(e, s)
    OBVIOUS
<1> HIDE DEF big
<1>3. << >> \in T
    <2>1. << >> \in Seq(W)
        BY EmptySeq
    <2> QED
        BY <2>1, FlatNone, SpreadNone
<1>4. ASSUME NEW rr \in Seq(W), NEW x \in W, rr \in T
      PROVE  Append(rr, x) \in T
    <2>1. Append(rr, x) \in Seq(W) /\ << x >> \in Seq(W) /\ Append(rr, x) = rr \o << x >>
        OBVIOUS
    <2>2. FlattenSeq(Append(rr, x)) = FlattenSeq(rr) \o x
        BY FlatAppend
    <2>3. FlattenSeq(rr) \in Seq(D)
        BY FlatIn
    <2>4. Spread(e, FlattenSeq(rr) \o x) = Spread(e, FlattenSeq(rr)) \o Spread(e, x)
        <3>1. \A t \in Seq(D) : Spread(e, t \o x) = Spread(e, t) \o Spread(e, x)
            BY SpreadJoined
        <3> QED
            BY <3>1, <2>3, Zenon
    <2> HIDE DEF W
    <2>5. Spread(big, rr \o << x >>) = Spread(big, rr) \o Spread(big, << x >>)
        <3>1. \A t, u \in Seq(W) : Spread(big, t \o u) = Spread(big, t) \o Spread(big, u)
            BY <1>1, SpreadJoined
        <3> QED
            BY <3>1, <2>1, Zenon
    <2>6. Spread(big, << x >>) = Spread(e, x)
        <3>1. Each(big, << x >>) = << big[x] >>
            BY DEF Each
        <3>2. big[x] \in Seq(S)
            BY <1>1 DEF Expansions
        <3> QED
            BY <3>1, <3>2, <1>2, FlatOne DEF Spread
    <2> QED
        BY <2>1, <2>2, <2>4, <2>5, <2>6, <1>4
<1> HIDE DEF T
<1>5. \A rr \in Seq(W) : rr \in T
    <2> HIDE DEF W
    <2> QED
        BY <1>3, <1>4, AllSequences
<1>6. Spread(e, FlattenSeq(ss)) = Spread(big, ss)
    BY <1>5 DEF T
<1>7. Each(big, ss) = [j \in DOMAIN ss |-> Spread(e, ss[j])]
    <2>1. \A j \in DOMAIN ss : ss[j] \in W
        OBVIOUS
    <2> HIDE DEF W
    <2> QED
        BY <2>1, <1>2 DEF Each
<1> QED
    BY <1>6, <1>7, Zenon DEF Spread

LEMMA FlatSingles ==
    ASSUME NEW S, NEW u \in Seq(S)
    PROVE  FlattenSeq([k \in DOMAIN u |-> << u[k] >>]) = u
<1> DEFINE e == [x \in S |-> << x >>]
           T == {s \in Seq(S) : Spread(e, s) = s}
<1>1. e \in Expansions(S, Seq(S)) /\ \A x \in S : e[x] = << x >>
    BY DEF Expansions
<1> HIDE DEF e
<1>2. << >> \in T
    BY SpreadNone, EmptySeq
<1>3. ASSUME NEW s \in Seq(S), NEW x \in S, s \in T
      PROVE  Append(s, x) \in T
    <2>1. Append(s, x) \in Seq(S) /\ << x >> \in Seq(S) /\ Append(s, x) = s \o << x >>
        OBVIOUS
    <2>2. Spread(e, s \o << x >>) = Spread(e, s) \o Spread(e, << x >>)
        <3>1. \A y \in Seq(S) : Spread(e, s \o y) = Spread(e, s) \o Spread(e, y)
            BY <1>1, SpreadJoined
        <3> QED
            BY <3>1, <2>1
    <2>3. Spread(e, << x >>) = << x >>
        <3>1. Each(e, << x >>) = << e[x] >>
            BY DEF Each
        <3> QED
            BY <3>1, <2>1, <1>1, FlatOne DEF Spread
    <2> QED
        BY <2>1, <2>2, <2>3, <1>3
<1> HIDE DEF T
<1>4. u \in T
    BY <1>2, <1>3, AllSequences
<1>5. Each(e, u) = [k \in DOMAIN u |-> << u[k] >>]
    <2>1. \A k \in DOMAIN u : u[k] \in S
        OBVIOUS
    <2> QED
        BY <2>1, <1>1 DEF Each
<1> QED
    BY <1>4, <1>5 DEF Spread, T

-----------------------------------------------------------------------------
(* A list of sections expands to what its sections expand to.               *)
LEMMA EntriesOfMap ==
    ASSUME NEW N, NEW path \in Keys, NEW node \in Maps(Pairs(N))
    PROVE  /\ node.entries \in Seq(Pairs(N))
           /\ Entries(path, node) =
                 [i \in DOMAIN node.entries |->
                     [path |-> path, key |-> node.entries[i].key, node |-> node.entries[i].node]]
           /\ Entries(path, node) \in Seq([path : Keys, key : Keys, node : N])
<1> DEFINE es == node.entries
           n == Len(es)
           D == [path : Keys, key : Keys, node : N]
<1>1. node.kind = "map" /\ es \in Seq(Pairs(N))
    BY DEF Maps
<1> HIDE DEF es
<1>2. n \in Nat /\ DOMAIN es = 1 .. n /\ \A i \in 1 .. n : es[i] \in Pairs(N)
    BY <1>1
<1> HIDE DEF n
<1>3. \A i \in 1 .. n : [path |-> path, key |-> es[i].key, node |-> es[i].node] \in D
    BY <1>2 DEF Pairs
<1> HIDE DEF D
<1>4. [i \in 1 .. n |-> [path |-> path, key |-> es[i].key, node |-> es[i].node]] \in Seq(D)
    BY <1>2, <1>3
<1>5. Entries(path, node) =
         [i \in DOMAIN es |-> [path |-> path, key |-> es[i].key, node |-> es[i].node]]
    BY <1>1 DEF Entries, es
<1> QED
    BY <1>1, <1>2, <1>4, <1>5, Zenon DEF es, D

SectionsOf(path, map) == [j \in DOMAIN map.entries |->
                             Entries(path \o map.entries[j].key, map.entries[j].node)]

LEMMA NestedSections ==
    ASSUME NEW M, NEW path \in Keys, NEW list \in Lists(M)
    PROVE  Nested(path, list) =
              FlattenSeq([i \in DOMAIN list.items |-> FlattenSeq(SectionsOf(path, list.items[i]))])
<1> DEFINE items == list.items
<1>1. items \in Seq(Maps(Pairs(M)))
    BY DEF Lists
<1> HIDE DEF items
<1>2. ASSUME NEW i \in DOMAIN items
      PROVE  LET maps == Entries(path, items[i])
             IN [j \in DOMAIN maps |-> Entries(path \o maps[j].key, maps[j].node)]
                   = SectionsOf(path, items[i])
    <2> DEFINE maps == Entries(path, items[i])
               es == items[i].entries
    <2>1. items[i] \in Maps(Pairs(M))
        BY <1>1
    <2>2. maps = [k \in DOMAIN es |-> [path |-> path, key |-> es[k].key, node |-> es[k].node]]
        BY <2>1, EntriesOfMap
    <2> HIDE DEF maps
    <2>3. DOMAIN maps = DOMAIN es /\ \A j \in DOMAIN es : maps[j].key = es[j].key /\ maps[j].node = es[j].node
        BY <2>2
    <2>4. [j \in DOMAIN maps |-> Entries(path \o maps[j].key, maps[j].node)] = SectionsOf(path, items[i])
        BY <2>3 DEF SectionsOf
    <2> QED
        BY <2>4 DEF maps
<1>3. Nested(path, list) =
         FlattenSeq([i \in DOMAIN items |->
            LET maps == Entries(path, items[i])
            IN FlattenSeq([j \in DOMAIN maps |-> Entries(path \o maps[j].key, maps[j].node)])])
    BY DEF Nested, items
<1>4. [i \in DOMAIN items |->
            LET maps == Entries(path, items[i])
            IN FlattenSeq([j \in DOMAIN maps |-> Entries(path \o maps[j].key, maps[j].node)])]
      = [i \in DOMAIN items |-> FlattenSeq(SectionsOf(path, items[i]))]
    BY <1>2
<1> QED
    BY <1>3, <1>4, Zenon DEF items

Sectioned(M, D) == \A p \in Keys : \A node \in M : Entries(p, node) \in Seq(D)

LEMMA SectionsIn ==
    ASSUME NEW M, NEW D, Sectioned(M, D),
           NEW path \in Keys, NEW map \in Maps(Pairs(M))
    PROVE  SectionsOf(path, map) \in Seq(Seq(D)) /\ DOMAIN SectionsOf(path, map) = DOMAIN map.entries
<1> DEFINE es == map.entries
           n == Len(es)
           W == Seq(D)
<1>1. es \in Seq(Pairs(M))
    BY DEF Maps
<1> HIDE DEF es
<1>2. n \in Nat /\ DOMAIN es = 1 .. n /\ \A j \in 1 .. n : es[j] \in Pairs(M)
    BY <1>1
<1> HIDE DEF n
<1>3. \A j \in 1 .. n : es[j].key \in Keys /\ es[j].node \in M
    BY <1>2 DEF Pairs
<1>4. \A key \in Keys : path \o key \in Keys
    BY DEF Keys
<1>5. \A j \in 1 .. n : Entries(path \o es[j].key, es[j].node) \in W
    BY <1>3, <1>4 DEF Sectioned
<1> HIDE DEF W
<1>6. [j \in 1 .. n |-> Entries(path \o es[j].key, es[j].node)] \in Seq(W)
    BY <1>2, <1>5
<1>7. SectionsOf(path, map) = [j \in 1 .. n |-> Entries(path \o es[j].key, es[j].node)]
    BY <1>2 DEF SectionsOf, es
<1> QED
    BY <1>2, <1>6, <1>7 DEF W, es

SpreadSections(e, path, list) ==
    FlattenSeq([i \in DOMAIN list.items |->
        FlattenSeq([j \in DOMAIN list.items[i].entries |->
            Spread(e, Entries(path \o list.items[i].entries[j].key, list.items[i].entries[j].node))])])

LEMMA NestedSpread ==
    ASSUME NEW M, NEW D, Sectioned(M, D),
           NEW S, NEW e \in Expansions(D, Seq(S)), NEW path \in Keys, NEW list \in Lists(M)
    PROVE  /\ Nested(path, list) \in Seq(D)
           /\ Spread(e, Nested(path, list)) = SpreadSections(e, path, list)
<1> DEFINE items == list.items
           n == Len(items)
           Part(i) == FlattenSeq(SectionsOf(path, items[i]))
           parts == [i \in 1 .. n |-> Part(i)]
           Entry1(i, j) == Entries(path \o items[i].entries[j].key, items[i].entries[j].node)
           W == Seq(D)
<1>1. items \in Seq(Maps(Pairs(M)))
    BY DEF Lists
<1> HIDE DEF items
<1>2. n \in Nat /\ DOMAIN items = 1 .. n /\ \A i \in 1 .. n : items[i] \in Maps(Pairs(M))
    BY <1>1
<1> HIDE DEF n
<1>3. \A i \in 1 .. n : /\ SectionsOf(path, items[i]) \in Seq(Seq(D))
                        /\ DOMAIN SectionsOf(path, items[i]) = DOMAIN items[i].entries
    BY <1>2, SectionsIn
<1>4. \A i \in 1 .. n : Part(i) \in W
    BY <1>3, FlatIn
<1>5. ASSUME NEW i \in 1 .. n
      PROVE  Spread(e, Part(i)) = FlattenSeq([j \in DOMAIN items[i].entries |-> Spread(e, Entry1(i, j))])
    <2> DEFINE ss == SectionsOf(path, items[i])
    <2>1. ss \in Seq(Seq(D)) /\ DOMAIN ss = DOMAIN items[i].entries
        BY <1>3
    <2>2. \A j \in DOMAIN ss : ss[j] = Entry1(i, j)
        BY DEF SectionsOf
    <2> HIDE DEF ss, Entry1
    <2>3. Spread(e, FlattenSeq(ss)) = FlattenSeq([j \in DOMAIN ss |-> Spread(e, ss[j])])
        BY <2>1, SpreadFlat
    <2>4. [j \in DOMAIN ss |-> Spread(e, ss[j])]
             = [j \in DOMAIN items[i].entries |-> Spread(e, Entry1(i, j))]
        BY <2>1, <2>2
    <2> QED
        BY <2>3, <2>4, Zenon DEF ss
<1> HIDE DEF Part, Entry1
<1>6. parts \in Seq(W) /\ DOMAIN parts = 1 .. n /\ \A i \in 1 .. n : parts[i] = Part(i)
    <2> HIDE DEF W
    <2> QED
        BY <1>2, <1>4
<1>7. Nested(path, list) = FlattenSeq(parts)
    <2>1. parts = [i \in DOMAIN items |-> FlattenSeq(SectionsOf(path, items[i]))]
        BY <1>2 DEF Part
    <2>2. Nested(path, list) =
             FlattenSeq([i \in DOMAIN items |-> FlattenSeq(SectionsOf(path, items[i]))])
        BY NestedSections DEF items
    <2> HIDE DEF parts
    <2> QED
        BY <2>1, <2>2, Zenon
<1> HIDE DEF parts
<1>8. Nested(path, list) \in Seq(D)
    BY <1>6, <1>7, FlatIn
<1>9. Spread(e, FlattenSeq(parts)) = FlattenSeq([i \in DOMAIN parts |-> Spread(e, parts[i])])
    <2>1. parts \in Seq(Seq(D))
        BY <1>6
    <2> QED
        BY <2>1, SpreadFlat
<1>10. [i \in DOMAIN parts |-> Spread(e, parts[i])]
          = [i \in DOMAIN items |->
                FlattenSeq([j \in DOMAIN items[i].entries |-> Spread(e, Entry1(i, j))])]
    <2>1. \A i \in 1 .. n : Spread(e, parts[i]) =
              FlattenSeq([j \in DOMAIN items[i].entries |-> Spread(e, Entry1(i, j))])
        BY <1>5, <1>6
    <2> QED
        BY <2>1, <1>2, <1>6
<1>11. Spread(e, Nested(path, list)) =
          FlattenSeq([i \in DOMAIN items |->
                FlattenSeq([j \in DOMAIN items[i].entries |-> Spread(e, Entry1(i, j))])])
    BY <1>7, <1>9, <1>10, Zenon
<1> QED
    BY <1>8, <1>11, Zenon DEF items, Entry1, SpreadSections

-----------------------------------------------------------------------------
(* What an entry that parse_map() has yet to look at will make of the map.  *)
Said(e) == [key |-> e.path \o e.key, node |-> e.node]
TaskSettings(path, list) ==
    FlattenSeq([t \in DOMAIN list.items |->
        FlattenSeq([n \in DOMAIN list.items[t].entries |->
            LET task == list.items[t].entries[n]
            IN [s \in DOMAIN task.node.entries |->
                  [key |-> path \o task.key \o task.node.entries[s].key,
                   node |-> task.node.entries[s].node]]])])
Says(e) == CASE e.node.kind = "scalar" -> << Said(e) >>
             [] e.node.kind = "sequence" -> TaskSettings(e.path, e.node)
             [] OTHER -> << >>

Setting(V) == Pairs(Scalars(V))
ScalarEntry(V) == [path : Keys, key : Keys, node : Scalars(V)]
Nodes(V) == Scalars(V) \cup Lists(TaskSections(V)) \cup Others(V)
AnyEntry(V) == [path : Keys, key : Keys, node : Nodes(V)]
SaysEach(V) == [e \in AnyEntry(V) |-> Says(e)]

LEMMA SaidIn ==
    ASSUME NEW V, NEW e \in ScalarEntry(V)
    PROVE  Said(e) \in Setting(V)
<1>1. e.path \in Keys /\ e.key \in Keys /\ e.node \in Scalars(V)
    BY DEF ScalarEntry
<1>2. e.path \o e.key \in Keys
    BY <1>1 DEF Keys
<1> QED
    BY <1>1, <1>2 DEF Said, Setting, Pairs

LEMMA TaskSpread ==
    ASSUME NEW V, NEW D, ScalarEntry(V) \subseteq D, NEW e \in Expansions(D, Seq(Setting(V))),
           \A x \in ScalarEntry(V) : e[x] = << Said(x) >>,
           NEW path \in Keys, NEW node \in TaskSections(V)
    PROVE  /\ Entries(path, node) \in Seq(D)
           /\ Spread(e, Entries(path, node)) =
                 [s \in DOMAIN node.entries |-> [key |-> path \o node.entries[s].key,
                                                node |-> node.entries[s].node]]
<1> DEFINE es == node.entries
           F == Setting(V)
           u == [s \in DOMAIN es |-> [key |-> path \o es[s].key, node |-> es[s].node]]
           v == Entries(path, node)
<1>1. /\ es \in Seq(Pairs(Scalars(V))) /\ v \in Seq(ScalarEntry(V))
      /\ v = [i \in DOMAIN es |-> [path |-> path, key |-> es[i].key, node |-> es[i].node]]
    BY EntriesOfMap DEF TaskSections, ScalarEntry
<1> HIDE DEF es, v
<1>2. /\ DOMAIN v = DOMAIN es
      /\ \A i \in DOMAIN v : Said(v[i]) = [key |-> path \o es[i].key, node |-> es[i].node]
    BY <1>1 DEF Said
<1>3. \A i \in DOMAIN v : v[i] \in ScalarEntry(V)
    BY <1>1
<1>4. u = [i \in DOMAIN v |-> Said(v[i])]
    BY <1>2
<1> HIDE DEF u
<1>5. u \in Seq(F) /\ DOMAIN u = DOMAIN v /\ \A i \in DOMAIN v : u[i] = Said(v[i])
    <2>1. Len(v) \in Nat /\ DOMAIN v = 1 .. Len(v)
        BY <1>1
    <2>2. \A i \in DOMAIN v : Said(v[i]) \in F
        BY <1>3, SaidIn
    <2> HIDE DEF F
    <2> QED
        BY <2>1, <2>2, <1>4
<1>6. Each(e, v) = [k \in DOMAIN u |-> << u[k] >>]
    BY <1>3, <1>5 DEF Each
<1>7. Spread(e, v) = u
    BY <1>5, <1>6, FlatSingles DEF Spread
<1>8. v \in Seq(D)
    BY <1>1, SeqMonotonic
<1> QED
    BY <1>7, <1>8 DEF u, v, es

LEMMA NestedTasks ==
    ASSUME NEW V, NEW D, ScalarEntry(V) \subseteq D, NEW e \in Expansions(D, Seq(Setting(V))),
           \A x \in ScalarEntry(V) : e[x] = << Said(x) >>,
           NEW path \in Keys, NEW list \in Lists(TaskSections(V))
    PROVE  /\ Nested(path, list) \in Seq(D)
           /\ Spread(e, Nested(path, list)) = TaskSettings(path, list)
<1> DEFINE items == list.items
           Task(t, n) == items[t].entries[n]
           Of(t, n) == [s \in DOMAIN Task(t, n).node.entries |->
                           [key |-> path \o Task(t, n).key \o Task(t, n).node.entries[s].key,
                            node |-> Task(t, n).node.entries[s].node]]
           Spreads(t, n) == Spread(e, Entries(path \o Task(t, n).key, Task(t, n).node))
<1>1. Sectioned(TaskSections(V), D)
    BY TaskSpread DEF Sectioned
<1>2. /\ Nested(path, list) \in Seq(D)
      /\ Spread(e, Nested(path, list)) = SpreadSections(e, path, list)
    BY <1>1, NestedSpread
<1>3. ASSUME NEW i \in DOMAIN items, NEW j \in DOMAIN items[i].entries
      PROVE  Spreads(i, j) = Of(i, j)
    <2>1. items \in Seq(Maps(Pairs(TaskSections(V))))
        BY DEF Lists
    <2> HIDE DEF items
    <2>2. items[i] \in Maps(Pairs(TaskSections(V)))
        BY <2>1
    <2>3. items[i].entries \in Seq(Pairs(TaskSections(V)))
        BY <2>2 DEF Maps
    <2>4. Task(i, j) \in Pairs(TaskSections(V))
        BY <2>3
    <2> HIDE DEF Task
    <2>5. Task(i, j).key \in Keys /\ Task(i, j).node \in TaskSections(V)
        BY <2>4 DEF Pairs
    <2>6. path \o Task(i, j).key \in Keys
        BY <2>5 DEF Keys
    <2>7. \A p \in Keys : \A node \in TaskSections(V) :
             Spread(e, Entries(p, node)) =
                [s \in DOMAIN node.entries |-> [key |-> p \o node.entries[s].key,
                                               node |-> node.entries[s].node]]
        BY TaskSpread
    <2> QED
        BY <2>5, <2>6, <2>7
<1>6. SpreadSections(e, path, list) =
         FlattenSeq([i \in DOMAIN items |->
                FlattenSeq([j \in DOMAIN items[i].entries |-> Spreads(i, j)])])
    BY DEF SpreadSections
<1> HIDE DEF Of, Spreads
<1>4. [i \in DOMAIN items |-> FlattenSeq([j \in DOMAIN items[i].entries |-> Spreads(i, j)])]
      = [i \in DOMAIN items |-> FlattenSeq([j \in DOMAIN items[i].entries |-> Of(i, j)])]
    <2>1. ASSUME NEW i \in DOMAIN items
          PROVE  [j \in DOMAIN items[i].entries |-> Spreads(i, j)]
                     = [j \in DOMAIN items[i].entries |-> Of(i, j)]
        BY <1>3
    <2> QED
        BY <2>1
<1>5. TaskSettings(path, list) =
         FlattenSeq([i \in DOMAIN items |-> FlattenSeq([j \in DOMAIN items[i].entries |-> Of(i, j)])])
    BY DEF TaskSettings, Of
<1> QED
    BY <1>2, <1>4, <1>5, <1>6, Zenon

LEMMA Kinds ==
    ASSUME NEW V
    PROVE  /\ \A node \in Scalars(V) : node.kind = "scalar"
           /\ \A M : \A node \in Lists(M) : node.kind = "sequence"
           /\ \A node \in Others(V) : node.kind \in {"map", "null"}
BY DEF Scalars, Lists, Others, Maps

LEMMA TaskSettingsIn ==
    ASSUME NEW V, NEW path \in Keys, NEW list \in Lists(TaskSections(V))
    PROVE  TaskSettings(path, list) \in Seq(Setting(V))
<1> DEFINE D == ScalarEntry(V)
           e == [x \in D |-> << Said(x) >>]
<1>1. \A x \in D : << Said(x) >> \in Seq(Setting(V))
    BY SaidIn
<1>2. e \in Expansions(D, Seq(Setting(V)))
    BY <1>1 DEF Expansions
<1>3. \A x \in ScalarEntry(V) : e[x] = << Said(x) >>
    OBVIOUS
<1>4. ScalarEntry(V) \subseteq D
    OBVIOUS
<1> HIDE DEF e, D
<1>5. Nested(path, list) \in Seq(D) /\ Spread(e, Nested(path, list)) = TaskSettings(path, list)
    BY <1>2, <1>3, <1>4, NestedTasks
<1>6. Spread(e, Nested(path, list)) \in Seq(Setting(V))
    BY <1>2, <1>5, SpreadIn
<1> QED
    BY <1>5, <1>6

LEMMA SaysWhat ==
    ASSUME NEW V, NEW x \in AnyEntry(V)
    PROVE  /\ x.path \in Keys /\ x.key \in Keys
           /\ \/ x.node.kind = "scalar" /\ x \in ScalarEntry(V) /\ Says(x) = << Said(x) >>
              \/ /\ x.node.kind = "sequence" /\ x.node \in Lists(TaskSections(V))
                 /\ Says(x) = TaskSettings(x.path, x.node)
              \/ x.node.kind \in {"map", "null"} /\ Says(x) = << >>
<1>1. x.path \in Keys /\ x.key \in Keys /\ x.node \in Nodes(V)
    BY DEF AnyEntry
<1>2. x = [path |-> x.path, key |-> x.key, node |-> x.node]
    BY DEF AnyEntry
<1>3. CASE x.node \in Scalars(V)
    <2>1. x.node.kind = "scalar"
        BY <1>3, Kinds
    <2>2. x \in ScalarEntry(V)
        BY <1>1, <1>2, <1>3 DEF ScalarEntry
    <2> QED
        BY <1>1, <2>1, <2>2 DEF Says
<1>4. CASE x.node \in Lists(TaskSections(V))
    <2>1. x.node.kind = "sequence"
        BY <1>4, Kinds
    <2> QED
        BY <1>1, <1>4, <2>1 DEF Says
<1>5. CASE x.node \in Others(V)
    <2>1. x.node.kind \in {"map", "null"}
        BY <1>5, Kinds
    <2> QED
        BY <1>1, <2>1 DEF Says
<1> QED
    BY <1>1, <1>3, <1>4, <1>5 DEF Nodes

LEMMA SaysIn ==
    ASSUME NEW V
    PROVE  /\ SaysEach(V) \in Expansions(AnyEntry(V), Seq(Setting(V)))
           /\ \A x \in AnyEntry(V) : SaysEach(V)[x] = Says(x)
           /\ ScalarEntry(V) \subseteq AnyEntry(V)
           /\ \A x \in ScalarEntry(V) : SaysEach(V)[x] = << Said(x) >>
<1>1. ASSUME NEW x \in AnyEntry(V)
      PROVE  Says(x) \in Seq(Setting(V))
    <2>1. CASE x \in ScalarEntry(V) /\ Says(x) = << Said(x) >>
        <3>1. Said(x) \in Setting(V)
            BY <2>1, SaidIn
        <3> QED
            BY <2>1, <3>1
    <2>2. CASE x.node \in Lists(TaskSections(V)) /\ Says(x) = TaskSettings(x.path, x.node)
        BY <2>2, SaysWhat, TaskSettingsIn
    <2>3. CASE Says(x) = << >>
        BY <2>3, EmptySeq
    <2> QED
        BY <2>1, <2>2, <2>3, SaysWhat
<1>2. SaysEach(V) = [x \in AnyEntry(V) |-> Says(x)]
    BY DEF SaysEach
<1>3. SaysEach(V) \in Expansions(AnyEntry(V), Seq(Setting(V)))
    BY <1>1, <1>2 DEF Expansions
<1>4. ASSUME NEW x \in ScalarEntry(V)
      PROVE  x \in AnyEntry(V) /\ Says(x) = << Said(x) >>
    <2>1. x \in AnyEntry(V)
        BY DEF ScalarEntry, AnyEntry, Nodes
    <2>2. x.node.kind = "scalar"
        BY Kinds DEF ScalarEntry
    <2> QED
        BY <2>1, <2>2 DEF Says
<1> QED
    BY <1>2, <1>3, <1>4

LEMMA SaysList ==
    ASSUME NEW V, NEW x \in AnyEntry(V), x.node.kind = "sequence"
    PROVE  /\ Nested(x.path, x.node) \in Seq(AnyEntry(V))
           /\ Says(x) = Spread(SaysEach(V), Nested(x.path, x.node))
<1>1. /\ x.path \in Keys /\ x.node \in Lists(TaskSections(V))
      /\ Says(x) = TaskSettings(x.path, x.node)
    BY SaysWhat
<1> DEFINE e == SaysEach(V)
           D == AnyEntry(V)
<1>2. /\ e \in Expansions(D, Seq(Setting(V))) /\ ScalarEntry(V) \subseteq D
      /\ \A y \in ScalarEntry(V) : e[y] = << Said(y) >>
    BY SaysIn
<1> HIDE DEF e, D
<1>3. /\ Nested(x.path, x.node) \in Seq(D)
      /\ Spread(e, Nested(x.path, x.node)) = TaskSettings(x.path, x.node)
    BY <1>1, <1>2, NestedTasks
<1> QED
    BY <1>1, <1>3 DEF e, D

LEMMA SlaveSpread ==
    ASSUME NEW V, NEW path \in Keys, NEW node \in SlaveSections(V)
    PROVE  /\ Entries(path, node) \in Seq(AnyEntry(V))
           /\ Spread(SaysEach(V), Entries(path, node)) = SettingsOf(path, node)
<1> DEFINE es == node.entries
           v == Entries(path, node)
           D == AnyEntry(V)
           Of(k) == LET e == es[k]
                    IN CASE e.node.kind = "scalar" -> << [key |-> path \o e.key, node |-> e.node] >>
                         [] e.node.kind = "sequence" -> TaskSettings(path, e.node)
                         [] OTHER -> << >>
<1>1. /\ v \in Seq(D)
      /\ v = [i \in DOMAIN es |-> [path |-> path, key |-> es[i].key, node |-> es[i].node]]
    BY EntriesOfMap DEF SlaveSections, Nodes, AnyEntry
<1> HIDE DEF v
<1>2. DOMAIN v = DOMAIN es /\ \A k \in DOMAIN es : v[k] \in D /\ Says(v[k]) = Of(k)
    <2>1. DOMAIN v = DOMAIN es
        BY <1>1
    <2>2. \A k \in DOMAIN es : v[k] \in D
        BY <1>1
    <2>3. ASSUME NEW k \in DOMAIN es
          PROVE  Says(v[k]) = Of(k)
        <3>1. v[k].path = path /\ v[k].key = es[k].key /\ v[k].node = es[k].node
            BY <1>1
        <3> QED
            BY <3>1 DEF Says, Said
    <2> QED
        BY <2>1, <2>2, <2>3
<1> HIDE DEF Of
<1>3. Each(SaysEach(V), v) = [k \in DOMAIN es |-> Of(k)]
    BY <1>2, SaysIn DEF Each
<1>4. SettingsOf(path, node) = FlattenSeq([k \in DOMAIN es |-> Of(k)])
    BY DEF SettingsOf, Of, TaskSettings
<1> QED
    BY <1>1, <1>3, <1>4 DEF Spread, v

(* The whole document: the entries parse_map() starts with say all that is   *)
(* written in it.                                                           *)
LEMMA SettingsSaid ==
    ASSUME NEW V, document \in SlaveLists(V)
    PROVE  /\ Nested(<< >>, document) \in Seq(AnyEntry(V))
           /\ Settings = Spread(SaysEach(V), Nested(<< >>, document))
<1> DEFINE M == SlaveSections(V)
           D == AnyEntry(V)
           F == Setting(V)
           e == SaysEach(V)
           items == document.items
           Section(i, j) == items[i].entries[j]
           g == [m \in Pairs(M) |-> SettingsOf(m.key, m.node)]
           ents == [i \in DOMAIN items |-> items[i].entries]
           Sections(i) == [j \in DOMAIN items[i].entries |-> SettingsOf(Section(i, j).key, Section(i, j).node)]
<1>1. << >> \in Keys /\ \A key \in Keys : << >> \o key = key
    BY EmptySeq, ConcatEmptySeq DEF Keys
<1>2. e \in Expansions(D, Seq(F))
    BY SaysIn
<1>3. \A p \in Keys : \A node \in M : /\ Entries(p, node) \in Seq(D)
                                      /\ Spread(e, Entries(p, node)) = SettingsOf(p, node)
    BY SlaveSpread
<1>4. document \in Lists(M)
    BY DEF SlaveLists
<1> HIDE DEF e, M, D, F
<1>5. Nested(<< >>, document) \in Seq(D) /\ Spread(e, Nested(<< >>, document)) = SpreadSections(e, << >>, document)
    <2>1. Sectioned(M, D)
        BY <1>3 DEF Sectioned
    <2> QED
        BY <2>1, <1>1, <1>2, <1>4, NestedSpread
<1>6. items \in Seq(Maps(Pairs(M)))
    BY <1>4 DEF Lists
<1> HIDE DEF items
<1>7. \A i \in DOMAIN items : items[i].entries \in Seq(Pairs(M))
    <2>1. \A i \in DOMAIN items : items[i] \in Maps(Pairs(M))
        BY <1>6
    <2> QED
        BY <2>1 DEF Maps
<1>8. ASSUME NEW i \in DOMAIN items, NEW j \in DOMAIN items[i].entries
      PROVE  /\ Section(i, j) \in Pairs(M)
             /\ Spread(e, Entries(<< >> \o Section(i, j).key, Section(i, j).node))
                   = SettingsOf(Section(i, j).key, Section(i, j).node)
    <2>1. Section(i, j) \in Pairs(M)
        BY <1>7
    <2> HIDE DEF Section
    <2>2. Section(i, j).key \in Keys /\ Section(i, j).node \in M
        BY <2>1 DEF Pairs
    <2> QED
        BY <2>1, <2>2, <1>1, <1>3
<1>9. SpreadSections(e, << >>, document) = FlattenSeq([i \in DOMAIN items |-> FlattenSeq(Sections(i))])
    <2>1. \A i \in DOMAIN items :
             [j \in DOMAIN items[i].entries |->
                 Spread(e, Entries(<< >> \o Section(i, j).key, Section(i, j).node))] = Sections(i)
        BY <1>8
    <2>2. SpreadSections(e, << >>, document) =
             FlattenSeq([i \in DOMAIN items |-> FlattenSeq(
                 [j \in DOMAIN items[i].entries |->
                     Spread(e, Entries(<< >> \o Section(i, j).key, Section(i, j).node))])])
        BY DEF SpreadSections, items
    <2> HIDE DEF Sections, Section
    <2>3. [i \in DOMAIN items |-> FlattenSeq(
                 [j \in DOMAIN items[i].entries |->
                     Spread(e, Entries(<< >> \o Section(i, j).key, Section(i, j).node))])]
          = [i \in DOMAIN items |-> FlattenSeq(Sections(i))]
        BY <2>1
    <2> QED
        BY <2>2, <2>3, Zenon
<1>10. g \in Expansions(Pairs(M), Seq(F)) /\ \A m \in Pairs(M) : g[m] = SettingsOf(m.key, m.node)
    <2>1. ASSUME NEW m \in Pairs(M)
          PROVE  SettingsOf(m.key, m.node) \in Seq(F)
        <3>1. m.key \in Keys /\ m.node \in M
            BY DEF Pairs
        <3>2. Entries(m.key, m.node) \in Seq(D)
            BY <3>1, <1>3
        <3>3. Spread(e, Entries(m.key, m.node)) \in Seq(F)
            BY <3>2, <1>2, SpreadIn
        <3> QED
            BY <3>1, <3>3, <1>3
    <2> QED
        BY <2>1 DEF Expansions
<1> HIDE DEF g
<1>11. /\ ents \in Seq(Seq(Pairs(M))) /\ DOMAIN ents = DOMAIN items
       /\ \A i \in DOMAIN items : ents[i] = items[i].entries
    <2> DEFINE W == Seq(Pairs(M))
    <2>1. Len(items) \in Nat /\ DOMAIN items = 1 .. Len(items)
        BY <1>6
    <2>2. \A i \in DOMAIN items : items[i].entries \in W
        BY <1>7
    <2> HIDE DEF W
    <2>3. ents \in Seq(W)
        BY <2>1, <2>2
    <2> QED
        BY <2>3 DEF W
<1>12. SlaveMaps = FlattenSeq(ents)
    BY DEF SlaveMaps, items
<1> HIDE DEF ents
<1>13. SlaveMaps \in Seq(Pairs(M))
    BY <1>11, <1>12, FlatIn
<1>14. Settings = Spread(g, SlaveMaps)
    <2>1. \A i \in DOMAIN SlaveMaps : SlaveMaps[i] \in Pairs(M)
        BY <1>13
    <2>2. Each(g, SlaveMaps) = [i \in DOMAIN SlaveMaps |-> SettingsOf(SlaveMaps[i].key, SlaveMaps[i].node)]
        BY <2>1, <1>10 DEF Each
    <2> QED
        BY <2>2 DEF Settings, Spread
<1>15. Spread(g, SlaveMaps) = FlattenSeq([i \in DOMAIN ents |-> Spread(g, ents[i])])
    BY <1>10, <1>11, <1>12, SpreadFlat
<1>16. \A i \in DOMAIN items : Spread(g, ents[i]) = FlattenSeq(Sections(i))
    <2>1. \A i \in DOMAIN items : Each(g, ents[i]) = Sections(i)
        BY <1>8, <1>10, <1>11 DEF Each
    <2> QED
        BY <2>1 DEF Spread
<1> HIDE DEF Sections
<1>17. [i \in DOMAIN ents |-> Spread(g, ents[i])] = [i \in DOMAIN items |-> FlattenSeq(Sections(i))]
    BY <1>11, <1>16
<1> QED
    BY <1>5, <1>9, <1>14, <1>15, <1>17, Zenon DEF D, e

-----------------------------------------------------------------------------
(* What has been said and what is still to be said make up the document; of *)
(* what has been said, the map holds what was said last.                    *)
HoldsLast(map, done) ==
    /\ DOMAIN map = {done[i].key : i \in DOMAIN done}
    /\ \A key \in DOMAIN map : \E i \in DOMAIN done :
          /\ done[i].key = key /\ \A j \in DOMAIN done : done[j].key = key => j <= i
          /\ map[key] = [type |-> done[i].node.tag, val |-> done[i].node.val]
SaidSoFar(V) ==
    \E done \in Seq(Setting(V)) : Settings = done \o Spread(SaysEach(V), todo) /\ HoldsLast(fields, done)
ParseInv(V) ==
    pc = "load" /\ document.kind = "sequence" =>
        document \in SlaveLists(V) /\ todo \in Seq(AnyEntry(V)) /\ SaidSoFar(V)

LEMMA HeadSpread ==
    ASSUME NEW V, NEW s \in Seq(AnyEntry(V)), s # << >>
    PROVE  /\ Head(s) \in AnyEntry(V) /\ Tail(s) \in Seq(AnyEntry(V))
           /\ Says(Head(s)) \in Seq(Setting(V)) /\ Spread(SaysEach(V), Tail(s)) \in Seq(Setting(V))
           /\ Spread(SaysEach(V), s) = Says(Head(s)) \o Spread(SaysEach(V), Tail(s))
<1> DEFINE D == AnyEntry(V)
           F == Setting(V)
           e == SaysEach(V)
<1>1. e \in Expansions(D, Seq(F)) /\ \A x \in D : e[x] = Says(x)
    BY SaysIn
<1> HIDE DEF D, F, e
<1>2. Head(s) \in D /\ Tail(s) \in Seq(D) /\ << Head(s) >> \in Seq(D) /\ s = << Head(s) >> \o Tail(s)
    <2>1. s \in Seq(D)
        BY DEF D
    <2> QED
        BY <2>1
<1>3. Says(Head(s)) \in Seq(F)
    BY <1>1, <1>2 DEF Expansions
<1>4. Spread(e, << Head(s) >>) = Says(Head(s))
    <2>1. Each(e, << Head(s) >>) = << e[Head(s)] >>
        BY DEF Each
    <2>2. FlattenSeq(<< Says(Head(s)) >>) = Says(Head(s))
        BY <1>3, FlatOne
    <2>3. e[Head(s)] = Says(Head(s))
        BY <1>1, <1>2, Zenon
    <2> QED
        BY <2>1, <2>2, <2>3, Zenon DEF Spread
<1>5. Spread(e, << Head(s) >> \o Tail(s)) = Spread(e, << Head(s) >>) \o Spread(e, Tail(s))
    <2>1. e \in Expansions(D, Seq(F))
        BY <1>1
    <2>2. \A t, u \in Seq(D) : Spread(e, t \o u) = Spread(e, t) \o Spread(e, u)
        BY <2>1, SpreadJoined
    <2> QED
        BY <2>2, <1>2, Zenon
<1>6. Spread(e, Tail(s)) \in Seq(F)
    BY <1>1, <1>2, SpreadIn
<1> QED
    BY <1>2, <1>3, <1>4, <1>5, <1>6, Zenon DEF D, F, e

LEMMA SettingsNext ==
    ASSUME document' = document
    PROVE  Settings' = Settings
BY DEF Settings, SlaveMaps

LEMMA HoldsLastMore ==
    ASSUME NEW V, NEW done \in Seq(Setting(V)), NEW s \in Setting(V),
           NEW map, HoldsLast(map, done), NEW new, new = Set(map, s.key, s.node.tag, s.node.val)
    PROVE  HoldsLast(new, Append(done, s))
<1> DEFINE n == Len(done)
           more == Append(done, s)
<1>1. /\ n \in Nat /\ DOMAIN done = 1 .. n /\ more \in Seq(Setting(V)) /\ DOMAIN more = 1 .. n + 1
      /\ more[n + 1] = s /\ \A i \in 1 .. n : more[i] = done[i]
    OBVIOUS
<1> HIDE DEF n, more
<1>2. \A i \in 1 .. n + 1 : i = n + 1 \/ i \in 1 .. n
    BY <1>1
<1>3. n + 1 \in 1 .. n + 1 /\ \A i \in 1 .. n : i \in 1 .. n + 1 /\ i <= n + 1
    BY <1>1
<1>4. DOMAIN map = {done[i].key : i \in 1 .. n}
    BY <1>1 DEF HoldsLast
<1>5. /\ DOMAIN new = DOMAIN map \cup {s.key}
      /\ new[s.key] = [type |-> s.node.tag, val |-> s.node.val]
      /\ \A key \in DOMAIN map : key # s.key => new[key] = map[key]
    BY DEF Set
<1>6. DOMAIN new = {more[i].key : i \in 1 .. n + 1}
    <2>1. ASSUME NEW i \in 1 .. n + 1
          PROVE  more[i].key \in DOMAIN new
        BY <1>1, <1>2, <1>4, <1>5
    <2>2. ASSUME NEW key \in DOMAIN new
          PROVE  \E i \in 1 .. n + 1 : more[i].key = key
        <3>1. CASE key = s.key
            BY <3>1, <1>1, <1>3
        <3>2. CASE key # s.key
            <4>1. key \in DOMAIN map
                BY <3>2, <1>5
            <4>2. PICK i \in 1 .. n : done[i].key = key
                BY <4>1, <1>4
            <4> QED
                BY <4>2, <1>1, <1>3
        <3> QED
            BY <3>1, <3>2
    <2> QED
        BY <2>1, <2>2
<1>7. ASSUME NEW key \in DOMAIN new
      PROVE  \E i \in 1 .. n + 1 :
                /\ more[i].key = key /\ \A j \in 1 .. n + 1 : more[j].key = key => j <= i
                /\ new[key] = [type |-> more[i].node.tag, val |-> more[i].node.val]
    <2>1. CASE key = s.key
        <3>1. \A j \in 1 .. n + 1 : j <= n + 1
            BY <1>1
        <3> QED
            BY <2>1, <3>1, <1>1, <1>3, <1>5
    <2>2. CASE key # s.key
        <3>1. key \in DOMAIN map /\ new[key] = map[key]
            BY <2>2, <1>5
        <3>2. PICK i \in 1 .. n :
                 /\ done[i].key = key /\ \A j \in 1 .. n : done[j].key = key => j <= i
                 /\ map[key] = [type |-> done[i].node.tag, val |-> done[i].node.val]
            <4>1. PICK i \in DOMAIN done :
                     /\ done[i].key = key /\ \A j \in DOMAIN done : done[j].key = key => j <= i
                     /\ map[key] = [type |-> done[i].node.tag, val |-> done[i].node.val]
                BY <3>1, Zenon DEF HoldsLast
            <4>2. i \in 1 .. n /\ \A j \in 1 .. n : done[j].key = key => j <= i
                BY <4>1, <1>1
            <4> QED
                BY <4>1, <4>2
        <3>3. \A j \in 1 .. n + 1 : more[j].key = key => j \in 1 .. n /\ done[j].key = key
            BY <2>2, <1>1, <1>2
        <3>4. \A j \in 1 .. n + 1 : more[j].key = key => j <= i
            BY <3>2, <3>3
        <3> QED
            BY <3>1, <3>2, <3>4, <1>1, <1>3
    <2> QED
        BY <2>1, <2>2
<1>8. DOMAIN new = {more[i].key : i \in DOMAIN more}
    BY <1>1, <1>6, Zenon
<1>9. ASSUME NEW key \in DOMAIN new
      PROVE  \E i \in DOMAIN more :
                /\ more[i].key = key /\ \A j \in DOMAIN more : more[j].key = key => j <= i
                /\ new[key] = [type |-> more[i].node.tag, val |-> more[i].node.val]
    <2>1. PICK i \in 1 .. n + 1 :
             /\ more[i].key = key /\ \A j \in 1 .. n + 1 : more[j].key = key => j <= i
             /\ new[key] = [type |-> more[i].node.tag, val |-> more[i].node.val]
        BY <1>7
    <2>2. i \in DOMAIN more /\ \A j \in DOMAIN more : more[j].key = key => j <= i
        BY <2>1, <1>1
    <2> QED
        BY <2>1, <2>2
<1> QED
    BY <1>8, <1>9, Zenon DEF HoldsLast, more

LEMMA ParseStepSays ==
    ASSUME NEW V, ParseInv(V), Parse, pc' = "load", document' = document,
           document.kind = "sequence"
    PROVE  todo' \in Seq(AnyEntry(V)) /\ SaidSoFar(V)'
<1> DEFINE h == Head(todo)
           rest == Tail(todo)
           e == SaysEach(V)
           F == Setting(V)
           D == AnyEntry(V)
<1>1. pc = "load" /\ todo # << >> /\ todo \in Seq(D) /\ SaidSoFar(V)
    BY DEF Parse, ParseScalar, ParseSequence, ParseOther, ParseInv
<1>2. PICK done \in Seq(F) : Settings = done \o Spread(e, todo) /\ HoldsLast(fields, done)
    BY <1>1 DEF SaidSoFar
<1>3. /\ h \in D /\ rest \in Seq(D) /\ Says(h) \in Seq(F) /\ Spread(e, rest) \in Seq(F)
      /\ Spread(e, todo) = Says(h) \o Spread(e, rest)
    BY <1>1, HeadSpread
<1>4. Settings' = Settings
    BY SettingsNext
<1>5. e \in Expansions(D, Seq(F))
    BY SaysIn
<1>6. /\ h.path \in Keys /\ h.key \in Keys
      /\ \/ h.node.kind = "scalar" /\ h \in ScalarEntry(V) /\ Says(h) = << Said(h) >>
         \/ h.node.kind = "sequence" /\ h.node \in Lists(TaskSections(V))
         \/ h.node.kind \in {"map", "null"} /\ Says(h) = << >>
    BY <1>3, SaysWhat
<1>7. CASE ParseScalar
    <2> DEFINE s == Said(h)
    <2>1. /\ h.node.kind = "scalar" /\ todo' = rest
          /\ fields' = Set(fields, h.path \o h.key, h.node.tag, h.node.val)
        BY <1>1, <1>7 DEF ParseScalar
    <2>2. h \in ScalarEntry(V) /\ Says(h) = << s >>
        BY <1>6, <2>1
    <2>3. s \in F
        BY <2>2, SaidIn
    <2>4. s.key = h.path \o h.key /\ s.node = h.node
        BY DEF Said
    <2> HIDE DEF s
    <2>5. fields' = Set(fields, s.key, s.node.tag, s.node.val)
        BY <2>1, <2>4
    <2>6. HoldsLast(fields', Append(done, s))
        BY <1>2, <2>3, <2>5, HoldsLastMore, Zenon
    <2> HIDE DEF F, D, e, h, rest
    <2>7. << s >> \in Seq(F) /\ Append(done, s) = done \o << s >> /\ Append(done, s) \in Seq(F)
        BY <1>2, <2>3
    <2>8. done \o (<< s >> \o Spread(e, rest)) = (done \o << s >>) \o Spread(e, rest)
        <3>1. \A t, u \in Seq(F) : (done \o t) \o u = done \o (t \o u)
            BY <1>2, ConcatAssociative
        <3> QED
            BY <3>1, <1>3, <2>7
    <2>9. Settings' = Append(done, s) \o Spread(e, rest)
        BY <1>2, <1>3, <1>4, <2>2, <2>7, <2>8, Zenon
    <2>10. Settings' = Append(done, s) \o Spread(e, todo')
        BY <2>1, <2>9, Zenon
    <2>11. SaidSoFar(V)'
        BY <2>6, <2>7, <2>10, Zenon DEF SaidSoFar, F, e
    <2> QED
        BY <1>3, <2>1, <2>11 DEF D
<1>8. CASE ParseSequence
    <2> DEFINE inner == Nested(h.path, h.node)
    <2>1. h.node.kind = "sequence" /\ todo' = inner \o rest /\ fields' = fields
        BY <1>8 DEF ParseSequence
    <2>2. inner \in Seq(D) /\ Says(h) = Spread(e, inner)
        BY <1>3, <2>1, SaysList
    <2> HIDE DEF inner
    <2> HIDE DEF F, D, e, h, rest
    <2>3. inner \o rest \in Seq(D) /\ Spread(e, inner \o rest) = Spread(e, inner) \o Spread(e, rest)
        <3>1. \A t \in Seq(D) : Spread(e, t \o rest) = Spread(e, t) \o Spread(e, rest)
            BY <1>3, <1>5, SpreadJoined
        <3>2. inner \o rest \in Seq(D)
            BY <1>3, <2>2
        <3> QED
            BY <3>1, <3>2, <2>2
    <2>4. Settings' = done \o Spread(e, inner \o rest)
        BY <1>2, <1>3, <1>4, <2>2, <2>3, Zenon
    <2>5. HoldsLast(fields', done)
        BY <1>2, <2>1
    <2> QED
        BY <1>2, <2>1, <2>3, <2>4, <2>5 DEF SaidSoFar, F, D, e
<1>9. CASE ParseOther
    <2>1. h.node.kind \in {"map", "null"} /\ todo' = rest /\ fields' = fields
        BY <1>9 DEF ParseOther
    <2>2. Says(h) = << >>
        BY <1>6, <2>1
    <2> HIDE DEF F, D, e, h, rest
    <2>3. Spread(e, todo) = Spread(e, rest)
        BY <1>3, <2>2, ConcatEmptySeq
    <2>4. Settings' = done \o Spread(e, rest)
        BY <1>2, <1>4, <2>3, Zenon
    <2>5. HoldsLast(fields', done)
        BY <1>2, <2>1
    <2> QED
        BY <1>2, <1>3, <2>1, <2>4, <2>5 DEF SaidSoFar, F, D, e
<1> QED
    BY <1>7, <1>8, <1>9 DEF Parse

LEMMA SaidAll ==
    ASSUME NEW V, ParseInv(V)
    PROVE  ParsedAsWritten
<1> SUFFICES ASSUME Loaded, document.kind = "sequence"
             PROVE  /\ DOMAIN fields = {Settings[i].key : i \in DOMAIN Settings}
                    /\ \A key \in DOMAIN fields :
                          fields[key] = [type |-> Settings[LastOf(key)].node.tag,
                                         val |-> Settings[LastOf(key)].node.val]
    BY DEF ParsedAsWritten
<1>1. todo = << >> /\ SaidSoFar(V)
    BY DEF Loaded, ParseInv
<1>2. PICK done \in Seq(Setting(V)) : Settings = done \o Spread(SaysEach(V), todo) /\ HoldsLast(fields, done)
    BY <1>1 DEF SaidSoFar
<1>3. Spread(SaysEach(V), todo) = << >>
    BY <1>1, SpreadNone
<1>4. Settings = done
    BY <1>2, <1>3, ConcatEmptySeq
<1>5. \A i \in DOMAIN done : i \in Nat
    BY <1>2
<1>6. ASSUME NEW key \in DOMAIN fields
      PROVE  fields[key] = [type |-> done[LastOf(key)].node.tag, val |-> done[LastOf(key)].node.val]
    <2> DEFINE S == {i \in DOMAIN done : done[i].key = key}
    <2>1. PICK i \in DOMAIN done :
             /\ done[i].key = key /\ \A j \in DOMAIN done : done[j].key = key => j <= i
             /\ fields[key] = [type |-> done[i].node.tag, val |-> done[i].node.val]
        BY <1>2 DEF HoldsLast
    <2>2. i \in S /\ \A j \in S : i >= j /\ j \in Nat /\ i \in Nat
        BY <2>1, <1>5
    <2> HIDE DEF S
    <2>3. Max(S) \in S /\ \A j \in S : Max(S) >= j
        BY <2>2 DEF Max
    <2>4. Max(S) = i
        BY <2>2, <2>3
    <2>5. LastOf(key) = Max(S)
        BY <1>4 DEF LastOf, S
    <2> QED
        BY <2>1, <2>4, <2>5
<1> QED
    BY <1>2, <1>4, <1>6 DEF HoldsLast

(* From every document that is a list of slaves, the map of settings that    *)
(* parse_map() builds is what the document says, of two settings of one     *)
(* name the later one.                                                      *)
THEOREM DocumentsParsedAsWritten ==
    ASSUME NEW V, \A d \in Documents : d.kind = "sequence" => d \in SlaveLists(V)
    PROVE  Spec => []ParsedAsWritten
<1>1. Init => ParseInv(V)
    <2> SUFFICES ASSUME Init, document.kind = "sequence"
                 PROVE  document \in SlaveLists(V) /\ todo \in Seq(AnyEntry(V)) /\ SaidSoFar(V)
        BY DEF ParseInv
    <2>1. document \in SlaveLists(V) /\ todo = Nested(<< >>, document) /\ fields = << >>
        BY DEF Init, InitParser
    <2>2. todo \in Seq(AnyEntry(V)) /\ Settings = Spread(SaysEach(V), todo)
        BY <2>1, SettingsSaid
    <2>3. Spread(SaysEach(V), todo) \in Seq(Setting(V))
        BY <2>2, SaysIn, SpreadIn
    <2>4. << >> \in Seq(Setting(V)) /\ Settings = << >> \o Spread(SaysEach(V), todo)
        BY <2>2, <2>3, EmptySeq, ConcatEmptySeq
    <2>5. HoldsLast(fields, << >>)
        BY <2>1 DEF HoldsLast
    <2> QED
        BY <2>1, <2>2, <2>4, <2>5 DEF SaidSoFar
<1>2. ParseInv(V) /\ [Next]_vars => ParseInv(V)'
    <2> SUFFICES ASSUME ParseInv(V), [Next]_vars, pc' = "load", document'.kind = "sequence"
                 PROVE  document' \in SlaveLists(V) /\ todo' \in Seq(AnyEntry(V)) /\ SaidSoFar(V)'
        BY DEF ParseInv
    <2>1. CASE ParseEntry
        <3>1. Parse /\ document' = document /\ pc = "load"
            BY <2>1 DEF ParseEntry, Parse, ParseScalar, ParseSequence, ParseOther
        <3>2. document' \in SlaveLists(V)
            BY <3>1 DEF ParseInv
        <3> QED
            BY <3>1, <3>2, ParseStepSays
    <2>2. CASE BeginTaskList
        BY <2>2 DEF BeginTaskList, Terminate
    <2>3. CASE BeginTask
        BY <2>3 DEF BeginTask, Terminate
    <2>4. CASE AppendField \/ CopyBuilt \/ LookUp
        BY <2>4 DEF AppendField, CopyBuilt, LookUp, Doing, Terminate
    <2>5. CASE EndTask
        BY <2>5 DEF EndTask
    <2>6. CASE UNCHANGED vars
        <3>1. document' = document /\ todo' = todo /\ fields' = fields /\ pc' = pc
            BY <2>6 DEF vars, parser
        <3>2. Settings' = Settings
            BY <3>1, SettingsNext
        <3>3. document \in SlaveLists(V) /\ todo \in Seq(AnyEntry(V)) /\ SaidSoFar(V)
            BY <3>1 DEF ParseInv
        <3>4. SaidSoFar(V)'
            BY <3>1, <3>2, <3>3 DEF SaidSoFar
        <3> QED
            BY <3>1, <3>3, <3>4
    <2> QED
        BY <2>1, <2>2, <2>3, <2>4, <2>5, <2>6 DEF Next
<1>3. ParseInv(V) => ParsedAsWritten
    BY SaidAll
<1> QED
    BY <1>1, <1>2, <1>3, PTL DEF Spec
================================================================================
