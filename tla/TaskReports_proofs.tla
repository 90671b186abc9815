-------------------------- MODULE TaskReports_proofs ---------------------------
(***************************************************************************)
(* Proofs about TaskReports, for every configuration: the types, the silence *)
(* of a lost slave's topics, the announcement of a loss, and that a report   *)
(* is a task's own.                                                          *)
(***************************************************************************)
EXTENDS TaskReports, SequenceTheorems, TLAPS

-----------------------------------------------------------------------------
(* What the tasks publish.                                                  *)

LEMMA MotorDef ==
    /\ DOMAIN Motor = Motors
    /\ \A m \in Motors : Motor[m] \in PartNames
    /\ \A m, n \in Motors : Motor[m] = Motor[n] => m = n
  <1>1. DOMAIN Motor = Motors
    BY DEF Motor, Motors
  <1>2. Motors = {1, 2, 3, 4}
    BY DEF Motors
  <1>3. Motor[1] = "motor1" /\ Motor[2] = "motor2" /\ Motor[3] = "motor3" /\ Motor[4] = "motor4"
    BY DEF Motor
  <1> QED
    BY <1>1, <1>2, <1>3 DEF PartNames

(* A sequence with a step for each motor.                                   *)
LEMMA MotorSteps ==
    ASSUME NEW f, f = [m \in Motors |-> f[m]], \A m \in Motors : f[m] \in Steps
    PROVE  f \in Seq(Steps)
  <1>1. f \in [1 .. 4 -> Steps]
    BY DEF Motors
  <1> QED
    BY <1>1, SeqDef

LEMMA StepTypes ==
    ASSUME NEW p \in PartNames
    PROVE  Sensor(p) \in Steps /\ Default(p) \in Steps
  BY DEF Sensor, Default, Steps

LEMMA Tuples ==
    ASSUME NEW S, NEW a \in S, NEW b \in S, NEW c \in S
    PROVE  {<< >>, << a >>, << a, b >>, << a, b, c >>} \subseteq Seq(S)
  OBVIOUS

LEMMA StepLists ==
    ASSUME NEW p \in PartNames, NEW q \in PartNames
    PROVE  {<< Default(p) >>, << Default(p), Default(q) >>, << Sensor(p), Sensor(q) >>,
            << Sensor(p), Default(q) >>, << Default(p), Sensor(q) >>} \subseteq Seq(Steps)
  BY StepTypes, Tuples

LEMMA EmptyTyped ==
    ASSUME NEW t \in TaskRecords
    PROVE  Empty(t) \in Seq(Steps)
  <1>1. CASE t.type \in {"DJI_MOTOR", "DD_MOTOR", "LK_MOTOR_MULTI"}
    <2> DEFINE f == [m \in Motors |-> Default(Motor[m])]
    <2>1. f \in Seq(Steps)
      <3>1. \A m \in Motors : f[m] \in Steps
        BY MotorDef, StepTypes
      <3> HIDE DEF f
      <3>2. f = [m \in Motors |-> f[m]]
        BY DEF f
      <3> QED
        BY <3>1, <3>2, MotorSteps
    <2>2. Empty(t) = f
      BY <1>1 DEF Empty, DJI_MOTOR_empty, DD_MOTOR_empty, LK_MOTOR_empty
    <2> QED
      BY <2>1, <2>2
  <1>2. CASE t.type \in {"LK_MOTOR", "SUPER_CAP", "DBUS_RC"}
    <2>1. Empty(t) \in {<< Default("state"), Default("values") >>, << Default("online"), Default("values") >>,
                     << Default("channels"), Default("online") >>}
      BY <1>2 DEF Empty, LK_MOTOR_empty, SUPER_CAP_empty, DBUS_RC_empty
    <2> QED
      BY <2>1, StepLists DEF PartNames
  <1>3. CASE t.type \in {"SBUS_RC", "VT13_RC", "PMU_CAN", "MS5837_30BA"}
    <2>1. Empty(t) \in {<< Default("state"), Default("values") >>, << Default("online"), Default("values") >>,
                     << Default("channels"), Default("online") >>}
      BY <1>3 DEF Empty, SBUS_RC_empty, VT13_RC_empty, PMU_CAN_empty, MS5837_30BA_empty
    <2> QED
      BY <2>1, StepLists DEF PartNames
  <1>4. CASE t.type = "DM_MOTOR"
    <2>1. Empty(t) = << Default("flags"), Default("online"), Default("values") >>
      BY <1>4 DEF Empty, DM_MOTOR_empty
    <2> QED
      BY <2>1, StepTypes, Tuples DEF PartNames
  <1>5. CASE t.type = "HIPNUC_IMU_CAN"
    <2>1. Empty(t) = << Sensor("frame"), Default("values") >>
      BY <1>5 DEF Empty, HIPNUC_IMU_CAN_empty
    <2> QED
      BY <2>1, StepTypes, Tuples DEF PartNames
  <1> QED
    BY <1>1, <1>2, <1>3, <1>4, <1>5 DEF TaskRecords, TaskTypes

(* What a task clears depends on its type only, and it sets no part twice.  *)
LEMMA EmptySame ==
    ASSUME NEW t \in TaskRecords, NEW u \in TaskRecords, t.type = u.type
    PROVE  Empty(t) = Empty(u)
  BY DEF Empty, LK_MOTOR_empty

LEMMA EmptyOnce ==
    ASSUME NEW t \in TaskRecords, NEW i \in DOMAIN Empty(t), NEW j \in DOMAIN Empty(t),
           Empty(t)[i].part = Empty(t)[j].part
    PROVE  Empty(t)[i] = Empty(t)[j]
  <1>1. CASE t.type \in {"DJI_MOTOR", "DD_MOTOR", "LK_MOTOR_MULTI"}
    <2>1. Empty(t) = [m \in Motors |-> Default(Motor[m])]
      BY <1>1 DEF Empty, DJI_MOTOR_empty, DD_MOTOR_empty, LK_MOTOR_empty
    <2> QED
      BY <2>1, MotorDef DEF Default
  <1>2. CASE t.type \in {"LK_MOTOR", "SUPER_CAP", "DBUS_RC"}
    BY <1>2 DEF Empty, LK_MOTOR_empty, SUPER_CAP_empty, DBUS_RC_empty, Default
  <1>3. CASE t.type = "DM_MOTOR"
    BY <1>3 DEF Empty, DM_MOTOR_empty, Default
  <1>4. CASE t.type \in {"SBUS_RC", "VT13_RC", "PMU_CAN", "MS5837_30BA"}
    BY <1>4 DEF Empty, SBUS_RC_empty, VT13_RC_empty, PMU_CAN_empty, MS5837_30BA_empty, Default
  <1>5. CASE t.type = "HIPNUC_IMU_CAN"
    BY <1>5 DEF Empty, HIPNUC_IMU_CAN_empty, Default, Sensor
  <1> QED
    BY <1>1, <1>2, <1>3, <1>4, <1>5 DEF TaskRecords, TaskTypes

LEMMA ReadsTyped ==
    ASSUME NEW t \in TaskRecords, NEW r \in Reads(t)
    PROVE  r \in Seq(Steps)
  <1>1. CASE t.type \in {"DJI_MOTOR", "DD_MOTOR"}
    <2>1. r = [m \in Motors |-> IF m \in t.enabled THEN Sensor(Motor[m]) ELSE Default(Motor[m])]
      BY <1>1 DEF Reads, DJI_MOTOR_read, DD_MOTOR_read
    <2>2. r = [m \in Motors |-> r[m]] /\ \A m \in Motors : r[m] \in Steps
      BY <2>1, MotorDef, StepTypes
    <2> QED
      BY <2>2, MotorSteps
  <1>2. CASE t.type = "LK_MOTOR_MULTI"
    <2>1. r = [m \in Motors |-> Sensor(Motor[m])]
      BY <1>2 DEF Reads, LK_MOTOR_read
    <2>2. r = [m \in Motors |-> r[m]] /\ \A m \in Motors : r[m] \in Steps
      BY <2>1, MotorDef, StepTypes
    <2> QED
      BY <2>2, MotorSteps
  <1>3. CASE t.type = "DM_MOTOR"
    <2>1. PICK flag \in {<< >>, << Sensor("flags") >>} :
             r = << Default("flags"), Sensor("online") >> \o flag \o << Sensor("values") >>
      BY <1>3 DEF Reads, DM_MOTOR_read
    <2>2. {Default("flags"), Sensor("online"), Sensor("flags"), Sensor("values")} \subseteq Steps
      BY StepTypes DEF PartNames
    <2>3. /\ << Default("flags"), Sensor("online") >> \in Seq(Steps)
          /\ flag \in Seq(Steps) /\ << Sensor("values") >> \in Seq(Steps)
      BY <2>2, Tuples
    <2> QED
      BY <2>1, <2>3, ConcatProperties
  <1>4. CASE t.type \in {"PMU_CAN", "MS5837_30BA"}
    <2>1. PICK live \in {<< >>, << Sensor("online"), Sensor("values") >>} : r = << Default("online") >> \o live
      BY <1>4 DEF Reads, PMU_CAN_read, MS5837_30BA_read
    <2>2. << Default("online") >> \in Seq(Steps) /\ live \in Seq(Steps)
      BY StepLists, Tuples, StepTypes DEF PartNames
    <2> QED
      BY <2>1, <2>2, ConcatProperties
  <1>5. CASE t.type \in {"LK_MOTOR", "SUPER_CAP"}
    <2>1. r \in {<< Sensor("state"), Sensor("values") >>, << Sensor("online"), Sensor("values") >>}
      BY <1>5 DEF Reads, LK_MOTOR_read, SUPER_CAP_read
    <2> QED
      BY <2>1, StepLists DEF PartNames
  <1>6. CASE t.type \in {"DBUS_RC", "SBUS_RC", "VT13_RC", "HIPNUC_IMU_CAN"}
    <2>1. r \in {<< Sensor("channels"), Sensor("online") >>, << Default("online") >>,
                << Sensor("frame"), Sensor("values") >>}
      BY <1>6 DEF Reads, DBUS_RC_read, SBUS_RC_read, VT13_RC_read, HIPNUC_IMU_CAN_read
    <2> QED
      BY <2>1, StepLists DEF PartNames
  <1> QED
    BY <1>1, <1>2, <1>3, <1>4, <1>5, <1>6 DEF TaskRecords, TaskTypes

-----------------------------------------------------------------------------
(* The configuration.                                                       *)
LEMMA TaskFacts ==
    ASSUME tasks \in TaskLists
    PROVE  /\ Slaves = 1 .. Len(tasks) /\ Len(tasks) \in Nat \ {0}
           /\ \A s \in Slaves : tasks[s] \in Seq(TaskRecords) /\ tasks[s] # << >>
           /\ \A s \in Slaves : \A i \in DOMAIN tasks[s] : <<s, i>> \in AllTasks
           /\ \A id \in AllTasks :
                 /\ id[1] \in Slaves /\ id[2] \in DOMAIN tasks[id[1]] /\ id = <<id[1], id[2]>>
                 /\ Task(id) \in TaskRecords /\ Task(id).type \in Types
  <1>1. tasks \in Seq(Seq(TaskRecords)) /\ tasks # << >> /\ \A s \in DOMAIN tasks : tasks[s] # << >>
    BY TaskListsAssumption
  <1>2. Slaves = 1 .. Len(tasks) /\ Len(tasks) \in Nat \ {0}
    BY <1>1, EmptySeq, LenProperties DEF Slaves
  <1>3. \A s \in Slaves : tasks[s] \in Seq(TaskRecords) /\ tasks[s] # << >>
    BY <1>1, <1>2, ElementOfSeq DEF Slaves
  <1>4. \A s \in Slaves : \A i \in DOMAIN tasks[s] : <<s, i>> \in AllTasks
    BY DEF AllTasks, TasksOf
  <1>5. ASSUME NEW id \in AllTasks
        PROVE  /\ id[1] \in Slaves /\ id[2] \in DOMAIN tasks[id[1]] /\ id = <<id[1], id[2]>>
               /\ Task(id) \in TaskRecords /\ Task(id).type \in Types
    <2>1. PICK s \in Slaves : \E i \in DOMAIN tasks[s] : id = <<s, i>>
      BY DEF AllTasks, TasksOf
    <2>2. PICK i \in DOMAIN tasks[s] : id = <<s, i>>
      BY <2>1
    <2>3. tasks[s][i] \in TaskRecords
      BY <1>3, LenProperties, ElementOfSeq
    <2>4. Task(id).type \in Types
      BY DEF Types
    <2> QED
      BY <2>2, <2>3, <2>4 DEF Task
  <1> QED
    BY <1>2, <1>3, <1>4, <1>5

(* It is fixed, and with it all that is made from it.                       *)
LEMMA SameTasks ==
    ASSUME UNCHANGED tasks
    PROVE  /\ Slaves' = Slaves /\ AllTasks' = AllTasks /\ Types' = Types
           /\ \A id : Task(id)' = Task(id)
           /\ \A s : TasksOf(s)' = TasksOf(s)
           /\ \A type : Parts(type)' = Parts(type)
           /\ \A type : Messages(type)' = Messages(type)
           /\ Jobs' = Jobs
  <1>1. \A id : Task(id)' = Task(id)
    BY DEF Task
  <1>2. Slaves' = Slaves /\ \A s : TasksOf(s)' = TasksOf(s)
    BY DEF Slaves, TasksOf
  <1>3. AllTasks' = AllTasks
    BY DEF AllTasks, Slaves, TasksOf
  <1>4. Types' = Types
    BY <1>1, <1>3 DEF Types
  <1>5. \A type : Parts(type)' = Parts(type)
    BY DEF Parts, AllTasks, Slaves, TasksOf, Task
  <1>6. \A type : Messages(type)' = Messages(type)
    BY <1>3, <1>5 DEF Messages, Origins
  <1>7. Jobs' = Jobs
    BY <1>3 DEF Jobs
  <1> QED
    BY <1>1, <1>2, <1>3, <1>4, <1>5, <1>6, <1>7

-----------------------------------------------------------------------------
(* The type invariant.                                                      *)

(* The job a thread is at.                                                  *)
LEMMA HeadJob ==
    ASSUME TypeOK, NEW th \in Threads, work[th] # << >>
    PROVE  /\ work[th] \in Seq(Jobs) /\ Len(work[th]) \in Nat \ {0}
           /\ DOMAIN work[th] = 1 .. Len(work[th])
           /\ Head(work[th]) = work[th][1] /\ work[th][1] \in Jobs
           /\ Tail(work[th]) \in Seq(Jobs) /\ Len(Tail(work[th])) = Len(work[th]) - 1
           /\ \A k \in 1 .. Len(work[th]) - 1 : Tail(work[th])[k] = work[th][k + 1]
  BY EmptySeq, LenProperties, HeadTailProperties DEF TypeOK

LEMMA InitType == Init => TypeOK
  <1> SUFFICES ASSUME Init PROVE TypeOK
    OBVIOUS
  <1>1. \A type : Blank(type) \in Messages(type)
    BY DEF Blank, Messages, Origins
  <1>2. \A id \in AllTasks : Task(id).type \in Types
    BY DEF Types
  <1>3. 1 \in Slaves
    BY TaskFacts DEF Init
  <1>4. << >> \in Seq(Jobs)
    BY EmptySeq
  <1> QED
    BY <1>1, <1>2, <1>3, <1>4 DEF Init, TypeOK

LEMMA NextTurnType == TypeOK => NextTurn \in Slaves
  BY TaskFacts DEF TypeOK, NextTurn

(* Jobs for all tasks of a slave, in order.                                 *)
LEMMA JobList ==
    ASSUME TypeOK, NEW s \in Slaves, NEW jobs, jobs = [i \in DOMAIN tasks[s] |-> jobs[i]],
           \A i \in DOMAIN tasks[s] : jobs[i] \in Jobs
    PROVE  jobs \in Seq(Jobs) /\ DOMAIN jobs = DOMAIN tasks[s]
  <1>1. DOMAIN tasks[s] = 1 .. Len(tasks[s]) /\ Len(tasks[s]) \in Nat
    BY TaskFacts, LenProperties DEF TypeOK
  <1>2. jobs \in [1 .. Len(tasks[s]) -> Jobs]
    BY <1>1
  <1> QED
    BY <1>1, <1>2, SeqDef

LEMMA ReadJobs ==
    ASSUME TypeOK, ProcessPdo
    PROVE  /\ work'["data"] \in Seq(Jobs) /\ DOMAIN work'["data"] = DOMAIN tasks[turn]
           /\ \A k \in DOMAIN tasks[turn] : work'["data"][k].id = <<turn, k>>
           /\ \A k \in DOMAIN tasks[turn] : work'["data"][k].by = "read"
           /\ work'["checker"] = work["checker"] /\ work' = [th \in Threads |-> work'[th]]
  <1> DEFINE n == Len(tasks[turn])
             choices == [i \in 1 .. n |-> Reads(Task(<<turn, i>>))]
  <1>1. DOMAIN tasks[turn] = 1 .. n /\ n \in Nat
    BY TaskFacts, LenProperties DEF TypeOK
  <1>2. PICK r : /\ \A i \in 1 .. n : r[i] \in choices[i]
                 /\ work' = [work EXCEPT !["data"] = [i \in 1 .. n |-> Job(<<turn, i>>, r[i], "read")]]
    BY DEF ProcessPdo
  <1> DEFINE jobs == [i \in 1 .. n |-> Job(<<turn, i>>, r[i], "read")]
  <1>3. ASSUME NEW i \in 1 .. n
        PROVE  r[i] \in Seq(Steps) /\ <<turn, i>> \in AllTasks
    <2>1. <<turn, i>> \in AllTasks
      BY <1>1, TaskFacts DEF TypeOK
    <2>2. r[i] \in Reads(Task(<<turn, i>>))
      BY <1>2
    <2> QED
      BY <2>1, <2>2, TaskFacts, ReadsTyped DEF TypeOK
  <1>4. /\ jobs = [i \in DOMAIN tasks[turn] |-> jobs[i]]
        /\ \A i \in DOMAIN tasks[turn] : jobs[i] \in Jobs /\ jobs[i].id = <<turn, i>> /\ jobs[i].by = "read"
    BY <1>1, <1>3 DEF Job, Jobs
  <1> HIDE DEF jobs, choices, n
  <1>5. jobs \in Seq(Jobs) /\ DOMAIN jobs = DOMAIN tasks[turn]
    BY <1>4, JobList DEF TypeOK
  <1>6. work' = [work EXCEPT !["data"] = jobs]
    BY <1>2 DEF jobs, n
  <1> QED
    BY <1>4, <1>5, <1>6 DEF TypeOK, Threads

LEMMA LossJobsAre ==
    ASSUME TypeOK, NEW s \in Slaves
    PROVE  /\ LossJobs(s) \in Seq(Jobs) /\ DOMAIN LossJobs(s) = DOMAIN tasks[s]
           /\ \A i \in DOMAIN tasks[s] :
                 /\ LossJobs(s)[i].id = <<s, i>>
                 /\ LossJobs(s)[i].by = IF Task(<<s, i>>).reset THEN "loss" ELSE "keep"
                 /\ Task(<<s, i>>).reset => LossJobs(s)[i].todo = Empty(Task(<<s, i>>))
  <1>1. \A i \in DOMAIN tasks[s] : <<s, i>> \in AllTasks /\ Task(<<s, i>>) \in TaskRecords
    BY TaskFacts DEF TypeOK
  <1>2. << >> \in Seq(Steps)
    BY EmptySeq
  <1>3. ASSUME NEW i \in DOMAIN tasks[s]
        PROVE  /\ LossJobs(s)[i] \in Jobs
               /\ LossJobs(s)[i].id = <<s, i>>
               /\ LossJobs(s)[i].by = IF Task(<<s, i>>).reset THEN "loss" ELSE "keep"
               /\ Task(<<s, i>>).reset => LossJobs(s)[i].todo = Empty(Task(<<s, i>>))
    <2>1. Empty(Task(<<s, i>>)) \in Seq(Steps)
      BY <1>1, EmptyTyped
    <2> QED
      BY <1>1, <1>2, <2>1 DEF LossJobs, Job, Jobs
  <1>4. LossJobs(s) = [i \in DOMAIN tasks[s] |-> LossJobs(s)[i]]
    BY DEF LossJobs
  <1> QED
    BY <1>3, <1>4, JobList

LEMMA FillWork ==
    ASSUME TypeOK, NEW th \in Threads, FillPart(th)
    PROVE  LET job == work[th][1]
           IN /\ work' \in [Threads -> Seq(Jobs)]
              /\ \A u \in Threads \ {th} : work'[u] = work[u]
              /\ DOMAIN work'[th] = DOMAIN work[th]
              /\ job \in Jobs /\ 1 \in DOMAIN work[th] /\ job.todo # << >>
              /\ work'[th][1].id = job.id /\ work'[th][1].by = job.by
              /\ work'[th][1].todo = Tail(job.todo)
              /\ \A k \in DOMAIN work[th] \ {1} : work'[th][k] = work[th][k]
  <1> DEFINE job == work[th][1]
             next == [job EXCEPT !.todo = Tail(@)]
  <1>1. work[th] # << >>
    BY DEF FillPart
  <1>2. /\ job \in Jobs /\ 1 \in 1 .. Len(work[th]) /\ job.todo # << >>
        /\ DOMAIN work[th] = 1 .. Len(work[th]) /\ work[th] \in Seq(Jobs)
    BY <1>1, HeadJob DEF FillPart
  <1>3. Tail(job.todo) \in Seq(Steps)
    BY <1>2, HeadTailProperties DEF Jobs
  <1>4. next \in Jobs /\ next.id = job.id /\ next.by = job.by /\ next.todo = Tail(job.todo)
    BY <1>2, <1>3 DEF Jobs
  <1>5. work' = [work EXCEPT ![th] = [work[th] EXCEPT ![1] = next]]
    BY DEF FillPart
  <1> HIDE DEF next
  <1>6. [work[th] EXCEPT ![1] = next] \in Seq(Jobs)
    BY <1>2, <1>4, ExceptSeq
  <1>7. work' \in [Threads -> Seq(Jobs)]
    BY <1>5, <1>6 DEF TypeOK
  <1>8. work'[th] = [work[th] EXCEPT ![1] = next] /\ \A u \in Threads \ {th} : work'[u] = work[u]
    BY <1>5 DEF TypeOK
  <1> QED
    BY <1>2, <1>4, <1>7, <1>8

LEMMA FillMsg ==
    ASSUME TypeOK, NEW th \in Threads, FillPart(th)
    PROVE  LET job == work[th][1]
               ty == Task(job.id).type
               step == Head(job.todo)
           IN /\ DOMAIN msg' = Types
              /\ \A type \in Types \ {ty} : msg'[type] = msg[type]
              /\ msg'[ty] = [msg[ty] EXCEPT ![step.part] = IF step.from = "image" THEN job.id ELSE NoOne]
              /\ ty \in Types /\ msg'[ty] \in Messages(ty)
  <1> DEFINE job == work[th][1]
             ty == Task(job.id).type
             step == Head(job.todo)
             value == IF step.from = "image" THEN job.id ELSE NoOne
             new == [msg[ty] EXCEPT ![step.part] = value]
  <1>1. Head(work[th]) = job /\ job \in Jobs
    BY HeadJob DEF FillPart
  <1>2. ty \in Types
    BY <1>1, TaskFacts DEF TypeOK, Jobs
  <1>3. value \in Origins
    BY <1>1 DEF Jobs, Origins
  <1>4. msg' = [msg EXCEPT ![ty] = new]
    BY <1>1 DEF FillPart
  <1>5. msg[ty] \in [Parts(ty) -> Origins]
    BY <1>2 DEF TypeOK, Messages
  <1> HIDE DEF value
  <1>6. new \in Messages(ty)
    BY <1>3, <1>5 DEF Messages
  <1>7. DOMAIN msg = Types
    BY DEF TypeOK
  <1> HIDE DEF new, ty
  <1>8. DOMAIN msg' = Types /\ msg'[ty] = new /\ \A type \in Types \ {ty} : msg'[type] = msg[type]
    BY <1>2, <1>4, <1>7
  <1> QED
    BY <1>2, <1>6, <1>8 DEF new, ty, value

LEMMA PublishShown ==
    ASSUME TypeOK, NEW th \in Threads, Publish(th)
    PROVE  LET job == work[th][1]
           IN /\ job \in Jobs /\ 1 \in DOMAIN work[th] /\ job.todo = << >>
              /\ work' \in [Threads -> Seq(Jobs)]
              /\ \A u \in Threads \ {th} : work'[u] = work[u]
              /\ Len(work[th]) \in Nat \ {0} /\ DOMAIN work[th] = 1 .. Len(work[th])
              /\ DOMAIN work'[th] = 1 .. Len(work[th]) - 1
              /\ \A k \in 1 .. Len(work[th]) - 1 : work'[th][k] = work[th][k + 1]
              /\ DOMAIN shown' = AllTasks
              /\ \A id \in AllTasks : id # job.id \/ job.by = "keep" => shown'[id] = shown[id]
              /\ job.by # "keep" => shown'[job.id] = [by |-> job.by, msg |-> msg[Task(job.id).type]]
  <1> DEFINE job == work[th][1]
             next == [by |-> job.by, msg |-> msg[Task(job.id).type]]
  <1>1. work[th] # << >>
    BY DEF Publish
  <1>2. /\ Head(work[th]) = job /\ job \in Jobs
        /\ work' = [work EXCEPT ![th] = Tail(work[th])] /\ job.todo = << >>
    BY <1>1, HeadJob DEF Publish
  <1>3. work'[th] = Tail(work[th]) /\ \A u \in Threads \ {th} : work'[u] = work[u]
    BY <1>2 DEF TypeOK
  <1>4. work' \in [Threads -> Seq(Jobs)]
    BY <1>1, <1>2, HeadJob DEF TypeOK
  <1>5. DOMAIN Tail(work[th]) = 1 .. Len(work[th]) - 1
    BY <1>1, HeadJob, LenProperties
  <1>6. DOMAIN shown = AllTasks /\ job.id \in AllTasks
    BY <1>2 DEF TypeOK, Jobs
  <1>7. shown' = IF job.by = "keep" THEN shown ELSE [shown EXCEPT ![job.id] = next]
    BY <1>2 DEF Publish
  <1> HIDE DEF next
  <1>8. /\ DOMAIN shown' = AllTasks
        /\ \A id \in AllTasks : id # job.id \/ job.by = "keep" => shown'[id] = shown[id]
        /\ job.by # "keep" => shown'[job.id] = next
    BY <1>6, <1>7
  <1> QED
    BY <1>1, <1>2, <1>3, <1>4, <1>5, <1>8, HeadJob DEF next

LEMMA TypeNext == TypeOK /\ [Next]_vars => TypeOK'
  <1> SUFFICES ASSUME TypeOK, [Next]_vars PROVE TypeOK'
    OBVIOUS
  <1>0. UNCHANGED tasks
    BY DEF Next, vars, SkipSlave, ProcessPdo, LoseSlave, Recover, FillPart, Publish, LeaveSlave
  <1> USE <1>0, SameTasks
  <1>1. CASE SkipSlave
    BY <1>1, NextTurnType DEF SkipSlave, TypeOK
  <1>2. CASE ProcessPdo
    <2>1. work' \in [Threads -> Seq(Jobs)]
      BY <1>2, ReadJobs DEF TypeOK, Threads
    <2>2. at' \in [Threads -> Slaves \cup {0}]
      BY <1>2 DEF ProcessPdo, TypeOK
    <2> QED
      BY <1>2, <2>1, <2>2 DEF ProcessPdo, TypeOK
  <1>3. ASSUME NEW s \in Slaves, LoseSlave(s) PROVE TypeOK'
    <2>1. LossJobs(s) \in Seq(Jobs)
      BY LossJobsAre
    <2>2. /\ work' \in [Threads -> Seq(Jobs)]
          /\ at' \in [Threads -> Slaves \cup {0}]
          /\ ready' \in [Slaves -> BOOLEAN]
      BY <1>3, <2>1 DEF LoseSlave, TypeOK
    <2> QED
      BY <1>3, <2>2 DEF LoseSlave, TypeOK
  <1>4. ASSUME NEW s \in Slaves, Recover(s) PROVE TypeOK'
    BY <1>4 DEF Recover, TypeOK
  <1>5. ASSUME NEW th \in Threads, FillPart(th) PROVE TypeOK'
    <2>1. work' \in [Threads -> Seq(Jobs)]
      BY <1>5, FillWork
    <2>2. DOMAIN msg' = Types /\ \A type \in Types : msg'[type] \in Messages(type)
      BY <1>5, FillMsg DEF TypeOK
    <2>3. UNCHANGED <<tasks, shown, ready, lost, turn, at>>
      BY <1>5 DEF FillPart
    <2> QED
      BY <2>1, <2>2, <2>3 DEF TypeOK
  <1>6. ASSUME NEW th \in Threads, Publish(th) PROVE TypeOK'
    <2>1. work' \in [Threads -> Seq(Jobs)] /\ DOMAIN shown' = AllTasks
      BY <1>6, PublishShown
    <2>2. ASSUME NEW id \in AllTasks
          PROVE  shown'[id].by \in {"none", "read", "loss"} /\ shown'[id].msg \in Messages(Task(id).type)
      <3> DEFINE job == work[th][1]
      <3>1. \/ shown'[id] = shown[id]
            \/ /\ id = job.id /\ job.by # "keep"
               /\ shown'[id] = [by |-> job.by, msg |-> msg[Task(id).type]]
        BY <1>6, PublishShown
      <3>2. job \in Jobs /\ Task(id).type \in Types
        BY <1>6, PublishShown, TaskFacts DEF TypeOK
      <3> QED
        BY <3>1, <3>2 DEF TypeOK, Jobs
    <2> QED
      BY <1>6, <2>1, <2>2 DEF Publish, TypeOK
  <1>7. ASSUME NEW th \in Threads, LeaveSlave(th) PROVE TypeOK'
    <2>1. at' \in [Threads -> Slaves \cup {0}] /\ turn' \in Slaves
      BY <1>7, NextTurnType DEF LeaveSlave, TypeOK
    <2>2. lost' \in [Slaves -> BOOLEAN]
      BY <1>7 DEF LeaveSlave, TypeOK
    <2> QED
      BY <1>7, <2>1, <2>2 DEF LeaveSlave, TypeOK
  <1>8. CASE UNCHANGED vars
    BY <1>8 DEF vars, TypeOK
  <1> QED
    BY <1>1, <1>2, <1>3, <1>4, <1>5, <1>6, <1>7, <1>8 DEF Next

(* Every variable keeps its type, whatever the configuration.               *)
THEOREM TypeCorrect == Spec => []TypeOK
  BY InitType, TypeNext, PTL DEF Spec

-----------------------------------------------------------------------------
(* The silence of a lost slave.  A lost slave is not ready and the data     *)
(* thread is not at it; both were so already when the checker began to      *)
(* announce the loss, and while it does, what it has not announced yet is   *)
(* still on its list.                                                       *)
Apart ==
    /\ \A s \in Slaves : lost[s] => ~ready[s] /\ at["data"] # s
    /\ at["checker"] # 0 =>
          ~ready[at["checker"]] /\ ~lost[at["checker"]] /\ at["data"] # at["checker"]
OwnJobs ==
    /\ \A th \in Threads : \A k \in DOMAIN work[th] : work[th][k].id[1] = at[th]
    /\ \A k \in DOMAIN work["data"] : work["data"][k].by = "read"
    /\ \A k \in DOMAIN work["checker"] : work["checker"][k].by # "read"
Listed(id) == \E k \in DOMAIN work["checker"] : work["checker"][k].id = id /\ work["checker"][k].by = "loss"
Announcing ==
    \A id \in AllTasks :
        id[1] = at["checker"] /\ Task(id).reset => shown[id].by = "loss" \/ Listed(id)
SilentInv == Apart /\ OwnJobs /\ Announcing /\ DefaultUntilBack

LEMMA SilentInit == Init => SilentInv
  <1> SUFFICES ASSUME Init PROVE SilentInv
    OBVIOUS
  <1>1. TypeOK
    BY InitType
  <1>2. \A th \in Threads : DOMAIN work[th] = {} /\ at[th] = 0
    BY DEF Init
  <1>3. \A id \in AllTasks : id[1] # 0 /\ id[1] \in Slaves
    BY TaskFacts DEF Init
  <1>4. {"data", "checker"} = Threads
    BY DEF Threads
  <1> QED
    BY <1>2, <1>3, <1>4
    DEF Init, SilentInv, Apart, OwnJobs, Announcing, DefaultUntilBack

LEMMA SilentProcess == TypeOK /\ SilentInv /\ ProcessPdo => SilentInv'
  <1> SUFFICES ASSUME TypeOK, SilentInv, ProcessPdo PROVE SilentInv'
    OBVIOUS
  <1>1. UNCHANGED <<tasks, msg, shown, ready, lost, turn>>
    BY DEF ProcessPdo
  <1> USE <1>1, SameTasks
  <1>2. /\ at["checker"] # turn /\ ready[turn] /\ turn \in Slaves
        /\ at'["data"] = turn /\ at'["checker"] = at["checker"]
    BY DEF ProcessPdo, Free, Threads, TypeOK
  <1>3. Apart'
    BY <1>2 DEF SilentInv, Apart
  <1>4. OwnJobs'
    BY <1>2, ReadJobs DEF SilentInv, OwnJobs, Threads
  <1>5. Announcing' /\ DefaultUntilBack'
    BY <1>2, ReadJobs DEF SilentInv, Announcing, Listed, DefaultUntilBack
  <1> QED
    BY <1>3, <1>4, <1>5 DEF SilentInv

LEMMA SilentLose == TypeOK /\ SilentInv /\ (\E s \in Slaves : LoseSlave(s)) => SilentInv'
  <1> SUFFICES ASSUME TypeOK, SilentInv, NEW s \in Slaves, LoseSlave(s) PROVE SilentInv'
    OBVIOUS
  <1>1. UNCHANGED <<tasks, msg, shown, lost, turn>>
    BY DEF LoseSlave
  <1> USE <1>1, SameTasks
  <1>2. /\ at["data"] # s /\ ~lost[s]
        /\ at'["checker"] = s /\ at'["data"] = at["data"]
        /\ ready' = [ready EXCEPT ![s] = FALSE]
        /\ work'["checker"] = LossJobs(s) /\ work'["data"] = work["data"]
    BY DEF LoseSlave, Free, Threads, TypeOK
  <1>3. Apart'
    BY <1>2 DEF SilentInv, Apart, TypeOK
  <1>4. OwnJobs'
    <2>1. ASSUME NEW k \in DOMAIN LossJobs(s)
          PROVE  LossJobs(s)[k].id[1] = s /\ LossJobs(s)[k].by # "read"
      <3>1. /\ LossJobs(s)[k].id = <<s, k>>
            /\ LossJobs(s)[k].by = IF Task(<<s, k>>).reset THEN "loss" ELSE "keep"
        BY LossJobsAre
      <3> QED
        BY <3>1
    <2>2. /\ \A k \in DOMAIN work["data"] : work["data"][k].id[1] = at["data"]
          /\ \A k \in DOMAIN work["data"] : work["data"][k].by = "read"
      BY DEF SilentInv, OwnJobs, Threads
    <2> QED
      BY <1>2, <2>1, <2>2 DEF OwnJobs, Threads
  <1>5. Announcing'
    <2> SUFFICES ASSUME NEW id \in AllTasks, id[1] = s, Task(id).reset
                 PROVE  Listed(id)'
      BY <1>2 DEF Announcing
    <2>1. id[2] \in DOMAIN tasks[s] /\ id = <<s, id[2]>>
      BY TaskFacts DEF TypeOK
    <2>2. /\ id[2] \in DOMAIN LossJobs(s) /\ LossJobs(s)[id[2]].id = id
          /\ LossJobs(s)[id[2]].by = "loss"
      BY <2>1, LossJobsAre
    <2> QED
      BY <1>2, <2>2 DEF Listed
  <1>6. DefaultUntilBack'
    BY DEF SilentInv, DefaultUntilBack
  <1> QED
    BY <1>3, <1>4, <1>5, <1>6 DEF SilentInv

LEMMA SilentFill ==
    ASSUME TypeOK, SilentInv, NEW th \in Threads, FillPart(th)
    PROVE  SilentInv'
  <1>1. UNCHANGED <<tasks, shown, ready, lost, turn, at>>
    BY DEF FillPart
  <1> USE <1>1, SameTasks
  <1>2. \A u \in Threads :
           /\ DOMAIN work'[u] = DOMAIN work[u]
           /\ \A k \in DOMAIN work[u] : work'[u][k].id = work[u][k].id /\ work'[u][k].by = work[u][k].by
    BY FillWork
  <1>3. Apart' /\ DefaultUntilBack'
    BY DEF SilentInv, Apart, DefaultUntilBack
  <1>4. OwnJobs'
    BY <1>2 DEF SilentInv, OwnJobs, Threads
  <1>5. \A id : Listed(id)' <=> Listed(id)
    BY <1>2 DEF Listed, Threads
  <1>6. Announcing'
    BY <1>5 DEF SilentInv, Announcing
  <1> QED
    BY <1>3, <1>4, <1>6 DEF SilentInv

LEMMA SilentPublish ==
    ASSUME TypeOK, SilentInv, NEW th \in Threads, Publish(th)
    PROVE  SilentInv'
  <1> DEFINE job == work[th][1]
             n == Len(work[th])
  <1>1. UNCHANGED <<tasks, msg, ready, lost, turn, at>>
    BY DEF Publish
  <1> USE <1>1, SameTasks
  <1>2. /\ job \in Jobs /\ 1 \in DOMAIN work[th] /\ n \in Nat \ {0} /\ DOMAIN work[th] = 1 .. n
        /\ \A u \in Threads \ {th} : work'[u] = work[u]
        /\ DOMAIN work'[th] = 1 .. n - 1
        /\ \A k \in 1 .. n - 1 : work'[th][k] = work[th][k + 1]
        /\ \A id \in AllTasks : id # job.id \/ job.by = "keep" => shown'[id] = shown[id]
        /\ job.by # "keep" => shown'[job.id].by = job.by
    <2>1. job.by # "keep" => shown'[job.id] = [by |-> job.by, msg |-> msg[Task(job.id).type]]
      BY PublishShown
    <2>2. job.by # "keep" => shown'[job.id].by = job.by
      BY <2>1
    <2> QED
      BY <2>2, PublishShown
  <1>3. job.id[1] = at[th] /\ job.id \in AllTasks /\ at[th] \in Slaves
    BY <1>2, TaskFacts DEF SilentInv, OwnJobs, Jobs, TypeOK
  <1>4. \A k \in DOMAIN work'[th] : k + 1 \in DOMAIN work[th] /\ work'[th][k] = work[th][k + 1]
    BY <1>2
  <1>5. Apart'
    BY DEF SilentInv, Apart
  <1>6. OwnJobs'
    <2>1. ASSUME NEW u \in Threads, NEW k \in DOMAIN work'[u]
          PROVE  \E j \in DOMAIN work[u] : work'[u][k] = work[u][j]
      BY <1>2, <1>4
    <2> QED
      BY <2>1 DEF SilentInv, OwnJobs, Threads
  <1>7. CASE th = "data"
    <2>1. /\ job.by = "read" /\ job.id[1] # at["checker"] /\ ~lost[job.id[1]]
          /\ work'["checker"] = work["checker"]
      <3>1. job.by = "read" /\ work'["checker"] = work["checker"]
        BY <1>2, <1>7 DEF SilentInv, OwnJobs, Threads
      <3>2. at["data"] \in Slaves /\ job.id[1] = at["data"]
        BY <1>3, <1>7
      <3>3. at["data"] # at["checker"]
        BY <3>2, TaskFacts DEF SilentInv, Apart, TypeOK
      <3>4. ~lost[at["data"]]
        BY <3>2 DEF SilentInv, Apart
      <3> QED
        BY <3>1, <3>2, <3>3, <3>4
    <2>2. \A id : Listed(id)' <=> Listed(id)
      BY <2>1 DEF Listed
    <2>3. Announcing'
      BY <1>2, <2>1, <2>2 DEF SilentInv, Announcing
    <2>4. DefaultUntilBack'
      BY <1>2, <2>1 DEF SilentInv, DefaultUntilBack
    <2> QED
      BY <1>5, <1>6, <2>3, <2>4 DEF SilentInv
  <1>8. CASE th = "checker"
    <2>1. job.by \in {"loss", "keep"}
      BY <1>2, <1>8 DEF SilentInv, OwnJobs, Jobs
    <2>2. \A id \in AllTasks : shown[id].by = "loss" => shown'[id].by = "loss"
      BY <1>2, <2>1
    <2>3. ASSUME NEW id \in AllTasks, Listed(id)
          PROVE  shown'[id].by = "loss" \/ Listed(id)'
      <3>1. PICK k \in DOMAIN work["checker"] :
               work["checker"][k].id = id /\ work["checker"][k].by = "loss"
        BY <2>3 DEF Listed
      <3>2. CASE k = 1
        BY <1>2, <1>8, <3>1, <3>2
      <3>3. CASE k # 1
        <4>1. k - 1 \in 1 .. n - 1 /\ work'["checker"][k - 1] = work["checker"][k]
          BY <1>2, <1>8, <3>3
        <4> QED
          BY <1>2, <1>8, <3>1, <4>1 DEF Listed
      <3> QED
        BY <3>2, <3>3
    <2>4. Announcing'
      BY <2>2, <2>3 DEF SilentInv, Announcing
    <2>5. DefaultUntilBack'
      BY <2>2 DEF SilentInv, DefaultUntilBack
    <2> QED
      BY <1>5, <1>6, <2>4, <2>5 DEF SilentInv
  <1> QED
    BY <1>7, <1>8 DEF Threads

LEMMA SilentLeave ==
    ASSUME TypeOK, SilentInv, NEW th \in Threads, LeaveSlave(th)
    PROVE  SilentInv'
  <1>1. UNCHANGED <<tasks, msg, shown, ready, work>> /\ at[th] # 0 /\ work[th] = << >>
    BY DEF LeaveSlave
  <1> USE <1>1, SameTasks
  <1>2. /\ at'[th] = 0 /\ \A u \in Threads \ {th} : at'[u] = at[u]
        /\ DOMAIN work[th] = {} /\ 0 \notin Slaves
        /\ at[th] \in Slaves
    BY TaskFacts DEF LeaveSlave, TypeOK
  <1>3. OwnJobs'
    BY <1>2 DEF SilentInv, OwnJobs, Threads
  <1>4. \A id : Listed(id)' <=> Listed(id)
    BY DEF Listed
  <1>5. CASE th = "data"
    <2>1. lost' = lost /\ at'["checker"] = at["checker"] /\ at'["data"] = 0
      BY <1>2, <1>5 DEF LeaveSlave, Threads
    <2> QED
      BY <1>2, <1>3, <1>4, <2>1 DEF SilentInv, Apart, Announcing, DefaultUntilBack
  <1>6. CASE th = "checker"
    <2> DEFINE s == at["checker"]
    <2>1. /\ lost' = [lost EXCEPT ![s] = TRUE] /\ at'["checker"] = 0 /\ at'["data"] = at["data"]
      BY <1>2, <1>6 DEF LeaveSlave, Threads
    <2>2. ~ready[s] /\ at["data"] # s
      BY <1>1, <1>6 DEF SilentInv, Apart
    <2>3. Apart'
      BY <2>1, <2>2 DEF SilentInv, Apart, TypeOK
    <2>4. \A id \in AllTasks : id[1] # 0 /\ id[1] \in Slaves
      BY <1>2, TaskFacts DEF TypeOK
    <2>5. Announcing'
      BY <2>1, <2>4 DEF Announcing
    <2>6. \A id : ~Listed(id)
      BY <1>2, <1>6 DEF Listed
    <2>7. DefaultUntilBack'
      BY <2>1, <2>4, <2>6 DEF SilentInv, DefaultUntilBack, Announcing, TypeOK
    <2> QED
      BY <1>3, <2>3, <2>5, <2>7 DEF SilentInv
  <1> QED
    BY <1>5, <1>6 DEF Threads

LEMMA SilentNext == TypeOK /\ SilentInv /\ [Next]_vars => SilentInv'
  <1> SUFFICES ASSUME TypeOK, SilentInv, [Next]_vars PROVE SilentInv'
    OBVIOUS
  <1>1. ASSUME UNCHANGED <<tasks, msg, shown, ready, lost, at, work>> PROVE SilentInv'
    <2>1. \A id : Listed(id)' <=> Listed(id)
      BY <1>1 DEF Listed
    <2> QED
      BY <1>1, <2>1, SameTasks
      DEF SilentInv, Apart, OwnJobs, Announcing, DefaultUntilBack
  <1>2. ASSUME NEW s \in Slaves, Recover(s) PROVE SilentInv'
    <2>1. /\ UNCHANGED <<tasks, shown, at, work>> /\ lost[s]
          /\ lost' = [lost EXCEPT ![s] = FALSE] /\ ready' = [ready EXCEPT ![s] = TRUE]
      BY <1>2 DEF Recover
    <2>2. Apart'
      <3>1. at["checker"] # 0 => at["checker"] # s
        BY <2>1 DEF SilentInv, Apart
      <3>2. \A u : u # s => ready'[u] = ready[u] /\ lost'[u] = lost[u]
        BY <2>1 DEF TypeOK
      <3>3. ~lost'[s]
        BY <2>1 DEF TypeOK
      <3> QED
        BY <2>1, <3>1, <3>2, <3>3, SameTasks DEF SilentInv, Apart
    <2>3. OwnJobs' /\ Announcing'
      BY <2>1, SameTasks DEF SilentInv, OwnJobs, Announcing, Listed
    <2>4. DefaultUntilBack'
      BY <2>1, SameTasks, TaskFacts DEF SilentInv, DefaultUntilBack, TypeOK
    <2> QED
      BY <2>2, <2>3, <2>4 DEF SilentInv
  <1>3. CASE SkipSlave
    BY <1>1, <1>3 DEF SkipSlave
  <1>4. CASE UNCHANGED vars
    BY <1>1, <1>4 DEF vars
  <1> QED
    BY <1>2, <1>3, <1>4, SilentProcess, SilentLose, SilentFill, SilentPublish, SilentLeave DEF Next

LEMMA SilentAlways == Spec => [](TypeOK /\ SilentInv)
  BY InitType, SilentInit, TypeNext, SilentNext, PTL DEF Spec

(* Once the loss of a slave has been announced on a topic, nothing is       *)
(* published there until the slave is back, for any slaves and tasks.       *)
THEOREM LostSlavesAreSilent == Spec => []DefaultUntilBack
  <1>1. SilentInv => DefaultUntilBack
    BY DEF SilentInv
  <1> QED
    BY <1>1, SilentAlways, PTL

-----------------------------------------------------------------------------
(* The announcement of a loss is whole, where no type of task is on two     *)
(* slaves: then a message belongs to the slave whose lock is held.          *)
TypesApart ==
    \A lists \in TaskLists : \A s, u \in DOMAIN lists :
        s # u => \A i \in DOMAIN lists[s] : \A j \in DOMAIN lists[u] : lists[s][i].type # lists[u][j].type

(* Of an announcement, every part is set to its default or still to be set. *)
Filled(k, id, todo) ==
    LET type == Task(id).type
        steps == Empty(Task(id))
    IN /\ \A j \in DOMAIN todo : \E i \in DOMAIN steps : todo[j] = steps[i]
       /\ \A p \in Parts(type) :
             \/ k = 1 /\ msg[type][p] = Cleared(id)[p]
             \/ \E j \in DOMAIN todo : todo[j].part = p
LossFilled ==
    \A k \in DOMAIN work["checker"] :
        work["checker"][k].by = "loss" => Filled(k, work["checker"][k].id, work["checker"][k].todo)
WholeInv == LossFilled /\ LossReportIsDefault

LEMMA PartsAre ==
    ASSUME TypeOK, NEW id \in AllTasks
    PROVE  Parts(Task(id).type) = {Empty(Task(id))[k].part : k \in DOMAIN Empty(Task(id))}
  <1> DEFINE other == CHOOSE i \in AllTasks : Task(i).type = Task(id).type
  <1>1. other \in AllTasks /\ Task(other).type = Task(id).type
    OBVIOUS
  <1>2. Task(other) \in TaskRecords /\ Task(id) \in TaskRecords
    BY <1>1, TaskFacts DEF TypeOK
  <1>3. Empty(Task(other)) = Empty(Task(id))
    BY <1>1, <1>2, EmptySame
  <1>4. Parts(Task(id).type) = {Empty(Task(other))[k].part : k \in DOMAIN Empty(Task(other))}
    BY DEF Parts
  <1> HIDE DEF other
  <1> QED
    BY <1>3, <1>4

LEMMA ClearedStep ==
    ASSUME TypeOK, NEW id \in AllTasks, NEW i \in DOMAIN Empty(Task(id))
    PROVE  LET step == Empty(Task(id))[i]
           IN /\ step.part \in Parts(Task(id).type)
              /\ Cleared(id)[step.part] = IF step.from = "image" THEN id ELSE NoOne
  <1> DEFINE steps == Empty(Task(id))
             step == steps[i]
  <1>1. Task(id) \in TaskRecords
    BY TaskFacts DEF TypeOK
  <1>2. step.part \in Parts(Task(id).type)
    BY PartsAre
  <1>3. steps \in Seq(Steps) /\ step \in Steps
    BY <1>1, EmptyTyped, LenProperties, ElementOfSeq
  <1>4. (\E k \in DOMAIN steps : Sensor(step.part) = steps[k]) <=> step.from = "image"
    <2>1. ASSUME NEW k \in DOMAIN steps, Sensor(step.part) = steps[k] PROVE step.from = "image"
      <3>1. steps[k].part = step.part /\ steps[k].from = "image"
        BY <2>1 DEF Sensor
      <3>2. steps[k] = step
        BY <1>1, <3>1, EmptyOnce
      <3> QED
        BY <3>1, <3>2
    <2>2. step.from = "image" => Sensor(step.part) = step
      BY <1>3 DEF Sensor, Steps
    <2> QED
      BY <2>1, <2>2
  <1>5. Cleared(id)[step.part] =
          IF Sensor(step.part) \in {steps[k] : k \in DOMAIN steps} THEN id ELSE NoOne
    BY <1>2 DEF Cleared
  <1> HIDE DEF steps
  <1>6. Sensor(step.part) \in {steps[k] : k \in DOMAIN steps} <=> step.from = "image"
    BY <1>4
  <1> QED
    BY <1>2, <1>5, <1>6 DEF steps

LEMMA SameCleared ==
    ASSUME UNCHANGED tasks
    PROVE  \A id : Cleared(id)' = Cleared(id)
  BY SameTasks DEF Cleared, Parts, Task, AllTasks, Slaves, TasksOf

LEMMA WholeInit == Init => WholeInv
  <1> SUFFICES ASSUME Init PROVE WholeInv
    OBVIOUS
  <1>1. DOMAIN work["checker"] = {}
    BY DEF Init, Threads
  <1>2. \A id \in AllTasks : shown[id].by # "loss"
    BY DEF Init
  <1> QED
    BY <1>1, <1>2 DEF WholeInv, LossFilled, LossReportIsDefault

LEMMA WholeLose ==
    ASSUME TypeOK, WholeInv, NEW s \in Slaves, LoseSlave(s)
    PROVE  WholeInv'
  <1>1. UNCHANGED <<tasks, msg, shown>> /\ work'["checker"] = LossJobs(s)
    BY DEF LoseSlave, TypeOK, Threads
  <1> USE <1>1, SameTasks, SameCleared
  <1>2. LossReportIsDefault'
    BY DEF WholeInv, LossReportIsDefault
  <1>3. ASSUME NEW k \in DOMAIN LossJobs(s), LossJobs(s)[k].by = "loss"
        PROVE  LET job == LossJobs(s)[k]
               IN /\ job.todo = Empty(Task(job.id))
                  /\ \A p \in Parts(Task(job.id).type) : \E j \in DOMAIN job.todo : job.todo[j].part = p
    <2>1. /\ k \in DOMAIN tasks[s] /\ LossJobs(s)[k].id = <<s, k>>
          /\ LossJobs(s)[k].todo = Empty(Task(<<s, k>>))
      BY <1>3, LossJobsAre
    <2>2. <<s, k>> \in AllTasks
      BY <2>1, TaskFacts DEF TypeOK
    <2> QED
      BY <2>1, <2>2, PartsAre
  <1>4. LossFilled'
    BY <1>3 DEF LossFilled, Filled
  <1> QED
    BY <1>2, <1>4 DEF WholeInv

(* The checker fills in a part.                                             *)
LEMMA WholeFillOwn ==
    ASSUME TypeOK, WholeInv, FillPart("checker")
    PROVE  WholeInv'
  <1> DEFINE job == work["checker"][1]
             type == Task(job.id).type
             steps == Empty(Task(job.id))
             step == Head(job.todo)
  <1>1. UNCHANGED <<tasks, shown>> /\ "checker" \in Threads
    BY DEF FillPart, Threads
  <1> USE <1>1, SameTasks, SameCleared
  <1>2. LossReportIsDefault'
    BY DEF WholeInv, LossReportIsDefault
  <1>3. /\ DOMAIN work'["checker"] = DOMAIN work["checker"] /\ 1 \in DOMAIN work["checker"]
        /\ job \in Jobs /\ job.todo # << >>
        /\ work'["checker"][1].id = job.id /\ work'["checker"][1].by = job.by
        /\ work'["checker"][1].todo = Tail(job.todo)
        /\ \A k \in DOMAIN work["checker"] \ {1} : work'["checker"][k] = work["checker"][k]
    BY FillWork
  <1>4. /\ type \in Types
        /\ msg'[type] = [msg[type] EXCEPT ![step.part] = IF step.from = "image" THEN job.id ELSE NoOne]
    BY FillMsg
  <1>5. /\ job.todo \in Seq(Steps) /\ Len(job.todo) \in Nat \ {0} /\ DOMAIN job.todo = 1 .. Len(job.todo)
        /\ step = job.todo[1]
        /\ DOMAIN Tail(job.todo) = 1 .. Len(job.todo) - 1
        /\ \A j \in 1 .. Len(job.todo) - 1 : Tail(job.todo)[j] = job.todo[j + 1]
    BY <1>3, EmptySeq, HeadTailProperties, LenProperties DEF Jobs
  <1>6. ASSUME job.by = "loss"
        PROVE  /\ \A j \in DOMAIN Tail(job.todo) : \E i \in DOMAIN steps : Tail(job.todo)[j] = steps[i]
               /\ \A p \in Parts(type) :
                     \/ msg'[type][p] = Cleared(job.id)[p]
                     \/ \E j \in DOMAIN Tail(job.todo) : Tail(job.todo)[j].part = p
    <2>1. /\ \A j \in DOMAIN job.todo : \E i \in DOMAIN steps : job.todo[j] = steps[i]
          /\ \A p \in Parts(type) :
                \/ msg[type][p] = Cleared(job.id)[p]
                \/ \E j \in DOMAIN job.todo : job.todo[j].part = p
      <3>1. Filled(1, job.id, job.todo)
        BY <1>3, <1>6 DEF WholeInv, LossFilled
      <3> QED
        BY <3>1 DEF Filled
    <2>2. \A j \in DOMAIN Tail(job.todo) : \E i \in DOMAIN steps : Tail(job.todo)[j] = steps[i]
      <3>1. ASSUME NEW j \in DOMAIN Tail(job.todo)
            PROVE  j + 1 \in DOMAIN job.todo /\ Tail(job.todo)[j] = job.todo[j + 1]
        BY <1>5
      <3> QED
        BY <2>1, <3>1
    <2>3. PICK i \in DOMAIN steps : step = steps[i]
      BY <1>5, <2>1
    <2>4. Cleared(job.id)[step.part] = IF step.from = "image" THEN job.id ELSE NoOne
      BY <1>3, <2>3, ClearedStep DEF Jobs
    <2>5. msg[type] \in [Parts(type) -> Origins]
      BY <1>4 DEF TypeOK, Messages
    <2>6. ASSUME NEW p \in Parts(type)
          PROVE  \/ msg'[type][p] = Cleared(job.id)[p]
                 \/ \E j \in DOMAIN Tail(job.todo) : Tail(job.todo)[j].part = p
      <3>1. CASE p = step.part
        BY <1>4, <2>4, <2>5, <3>1
      <3>2. CASE p # step.part
        <4>1. msg'[type][p] = msg[type][p]
          BY <1>4, <2>5, <3>2
        <4>2. ASSUME NEW j \in DOMAIN job.todo, job.todo[j].part = p
              PROVE  \E i2 \in DOMAIN Tail(job.todo) : Tail(job.todo)[i2].part = p
          <5>1. j # 1
            BY <1>5, <3>2, <4>2
          <5>2. j - 1 \in 1 .. Len(job.todo) - 1 /\ Tail(job.todo)[j - 1] = job.todo[j]
            BY <1>5, <5>1
          <5> QED
            BY <1>5, <4>2, <5>2
        <4> QED
          BY <2>1, <4>1, <4>2
      <3> QED
        BY <3>1, <3>2
    <2> QED
      BY <2>2, <2>6
  <1>7. ASSUME NEW id, NEW todo, id = job.id, todo = Tail(job.todo), job.by = "loss"
        PROVE  Filled(1, id, todo)'
    BY <1>6, <1>7 DEF Filled
  <1>8. ASSUME NEW k \in DOMAIN work["checker"] \ {1}, NEW id, NEW todo, Filled(k, id, todo)
        PROVE  Filled(k, id, todo)'
    BY <1>8 DEF Filled
  <1>9. LossFilled'
    BY <1>3, <1>7, <1>8 DEF WholeInv, LossFilled
  <1> QED
    BY <1>2, <1>9 DEF WholeInv

(* The data thread fills in a part, of a message of its own slave.          *)
LEMMA WholeFillOther ==
    ASSUME TypesApart, TypeOK, SilentInv, WholeInv, FillPart("data")
    PROVE  WholeInv'
  <1> DEFINE mine == work["data"][1]
  <1>1. UNCHANGED <<tasks, shown>> /\ {"data", "checker"} = Threads
    BY DEF FillPart, Threads
  <1> USE <1>1, SameTasks, SameCleared
  <1>2. LossReportIsDefault'
    BY DEF WholeInv, LossReportIsDefault
  <1>3. /\ work'["checker"] = work["checker"] /\ mine \in Jobs /\ 1 \in DOMAIN work["data"]
        /\ \A type \in Types \ {Task(mine.id).type} : msg'[type] = msg[type]
    BY FillWork, FillMsg
  <1>4. ASSUME NEW k \in DOMAIN work["checker"]
        PROVE  LET type == Task(work["checker"][k].id).type IN msg'[type] = msg[type]
    <2> DEFINE id == work["checker"][k].id
    <2>1. id \in AllTasks /\ mine.id \in AllTasks
      <3>1. work["checker"] \in Seq(Jobs)
        BY DEF TypeOK
      <3>2. work["checker"][k] \in Jobs
        BY <3>1, LenProperties, ElementOfSeq
      <3> QED
        BY <1>3, <3>2 DEF Jobs
    <2>2. id[1] = at["checker"] /\ mine.id[1] = at["data"]
      BY <1>3 DEF SilentInv, OwnJobs
    <2> HIDE DEF id, mine
    <2>3. id[1] # mine.id[1]
      BY <2>1, <2>2, TaskFacts DEF SilentInv, Apart, TypeOK
    <2>4. Task(id).type # Task(mine.id).type /\ Task(id).type \in Types
      <3>1. /\ id[1] \in DOMAIN tasks /\ id[2] \in DOMAIN tasks[id[1]]
            /\ mine.id[1] \in DOMAIN tasks /\ mine.id[2] \in DOMAIN tasks[mine.id[1]]
        BY <2>1, TaskFacts DEF TypeOK, Slaves
      <3>2. tasks[id[1]][id[2]].type # tasks[mine.id[1]][mine.id[2]].type
        BY <2>3, <3>1 DEF TypesApart, TypeOK
      <3>3. Task(id).type \in Types
        BY <2>1, TaskFacts DEF TypeOK
      <3> QED
        BY <3>2, <3>3 DEF Task
    <2> QED
      BY <1>3, <2>4 DEF id, mine
  <1>5. LossFilled'
    BY <1>3, <1>4 DEF WholeInv, LossFilled, Filled
  <1> QED
    BY <1>2, <1>5 DEF WholeInv

LEMMA WholePublish ==
    ASSUME TypeOK, SilentInv, WholeInv, NEW th \in Threads, Publish(th)
    PROVE  WholeInv'
  <1> DEFINE job == work[th][1]
             n == Len(work[th])
  <1>1. UNCHANGED <<tasks, msg>>
    BY DEF Publish
  <1> USE <1>1, SameTasks, SameCleared
  <1>2. /\ job \in Jobs /\ 1 \in DOMAIN work[th] /\ n \in Nat \ {0} /\ DOMAIN work[th] = 1 .. n
        /\ job.todo = << >>
        /\ \A u \in Threads \ {th} : work'[u] = work[u]
        /\ DOMAIN work'[th] = 1 .. n - 1
        /\ \A k \in 1 .. n - 1 : work'[th][k] = work[th][k + 1]
        /\ \A id \in AllTasks : id # job.id \/ job.by = "keep" => shown'[id] = shown[id]
        /\ job.by # "keep" => shown'[job.id] = [by |-> job.by, msg |-> msg[Task(job.id).type]]
    BY PublishShown
  <1>3. CASE th = "data"
    <2>1. job.by = "read" /\ work'["checker"] = work["checker"]
      BY <1>2, <1>3 DEF SilentInv, OwnJobs, Threads
    <2>2. shown'[job.id].by = "read"
      BY <1>2, <2>1
    <2>3. LossReportIsDefault'
      BY <1>2, <2>2 DEF WholeInv, LossReportIsDefault
    <2>4. LossFilled'
      BY <2>1 DEF WholeInv, LossFilled, Filled
    <2> QED
      BY <2>3, <2>4 DEF WholeInv
  <1>4. CASE th = "checker"
    <2>1. ASSUME job.by = "loss" PROVE msg[Task(job.id).type] = Cleared(job.id)
      <3> DEFINE type == Task(job.id).type
      <3>1. type \in Types
        BY <1>2, TaskFacts DEF Jobs, TypeOK
      <3>2. \A p \in Parts(type) : msg[type][p] = Cleared(job.id)[p]
        <4>1. Filled(1, job.id, << >>)
          BY <1>2, <1>4, <2>1 DEF WholeInv, LossFilled
        <4> QED
          BY <4>1 DEF Filled
      <3>3. msg[type] \in [Parts(type) -> Origins]
        BY <3>1 DEF TypeOK, Messages
      <3>4. Cleared(job.id) = [p \in Parts(type) |-> Cleared(job.id)[p]]
        BY DEF Cleared
      <3> QED
        BY <3>2, <3>3, <3>4
    <2>2. ASSUME NEW id \in AllTasks, shown'[id].by = "loss" PROVE shown'[id].msg = Cleared(id)
      <3>1. CASE shown'[id] = shown[id]
        BY <2>2, <3>1 DEF WholeInv, LossReportIsDefault
      <3>2. CASE id = job.id /\ job.by # "keep"
        <4>1. shown'[id] = [by |-> job.by, msg |-> msg[Task(job.id).type]]
          BY <1>2, <3>2
        <4>2. shown'[id].by = job.by /\ shown'[id].msg = msg[Task(job.id).type]
          BY <4>1
        <4> QED
          BY <2>1, <2>2, <3>2, <4>2
      <3> QED
        BY <1>2, <3>1, <3>2
    <2>3. LossReportIsDefault'
      BY <2>2 DEF LossReportIsDefault
    <2>4. ASSUME NEW k \in DOMAIN work'["checker"]
          PROVE  k + 1 \in DOMAIN work["checker"] /\ k + 1 # 1 /\ work'["checker"][k] = work["checker"][k + 1]
      BY <1>2, <1>4
    <2>5. LossFilled'
      BY <2>4 DEF WholeInv, LossFilled, Filled
    <2> QED
      BY <2>3, <2>5 DEF WholeInv
  <1> QED
    BY <1>3, <1>4 DEF Threads

LEMMA WholeNext ==
    ASSUME TypesApart
    PROVE  TypeOK /\ SilentInv /\ WholeInv /\ [Next]_vars => WholeInv'
  <1> SUFFICES ASSUME TypeOK, SilentInv, WholeInv, [Next]_vars PROVE WholeInv'
    OBVIOUS
  <1>1. ASSUME UNCHANGED <<tasks, msg, shown>>, work'["checker"] = work["checker"] PROVE WholeInv'
    BY <1>1, SameTasks, SameCleared DEF WholeInv, LossFilled, Filled, LossReportIsDefault
  <1>2. CASE ProcessPdo
    <2>1. UNCHANGED <<tasks, msg, shown>> /\ work'["checker"] = work["checker"]
      BY <1>2, ReadJobs DEF ProcessPdo
    <2> QED
      BY <1>1, <2>1
  <1>3. CASE SkipSlave
    BY <1>1, <1>3 DEF SkipSlave
  <1>4. ASSUME NEW s \in Slaves, Recover(s) PROVE WholeInv'
    BY <1>1, <1>4 DEF Recover
  <1>5. ASSUME NEW th \in Threads, LeaveSlave(th) PROVE WholeInv'
    BY <1>1, <1>5 DEF LeaveSlave
  <1>6. ASSUME NEW th \in Threads, FillPart(th) PROVE WholeInv'
    BY <1>6, WholeFillOwn, WholeFillOther DEF Threads
  <1>7. CASE UNCHANGED vars
    BY <1>1, <1>7 DEF vars
  <1> QED
    BY <1>2, <1>3, <1>4, <1>5, <1>6, <1>7, WholeLose, WholePublish DEF Next

(* Where no type of task is on two slaves, the message that announces a     *)
(* loss is the default message and nothing else, although both threads fill *)
(* in messages without a common lock.                                       *)
THEOREM AnnouncementsAreWhole ==
    ASSUME TypesApart
    PROVE  Spec => []LossReportIsDefault
  <1>1. Init => WholeInv
    BY WholeInit
  <1>2. TypeOK /\ SilentInv /\ WholeInv /\ [Next]_vars => WholeInv'
    BY WholeNext
  <1>3. WholeInv => LossReportIsDefault
    BY DEF WholeInv
  <1> QED
    BY <1>1, <1>2, <1>3, SilentAlways, PTL DEF Spec

-----------------------------------------------------------------------------
(* A task's reports are its own, where no type of task is on two slaves and *)
(* those that leave parts of the message alone while the sensor is offline  *)
(* have no second task of their type.                                       *)
LeaveParts == {"DBUS_RC", "SBUS_RC", "VT13_RC", "PMU_CAN", "MS5837_30BA"}
OneOfAKind ==
    \A lists \in TaskLists : \A s \in DOMAIN lists : \A i, j \in DOMAIN lists[s] :
        lists[s][i].type = lists[s][j].type /\ lists[s][i].type \in LeaveParts => i = j

(* The only task of its type, which then is the only one to fill in the     *)
(* message.                                                                 *)
Alone(id) == \A other \in AllTasks : Task(other).type = Task(id).type => other = id
OwnPart(id, p) == msg[Task(id).type][p] \in {NoOne, id}
LeftToOne == \A id \in AllTasks : Alone(id) => \A p \in Parts(Task(id).type) : OwnPart(id, p)

(* Any other has yet to fill in a part before it publishes, or has done so. *)
Covers(todo, p) == \E j \in DOMAIN todo : todo[j].part = p
Renewed(k, job) ==
    job.by # "keep" =>
        \A p \in Parts(Task(job.id).type) :
            Covers(job.todo, p) \/ Alone(job.id) \/ (k = 1 /\ OwnPart(job.id, p))
AllRenewed == \A th \in Threads : \A k \in DOMAIN work[th] : Renewed(k, work[th][k])
OwnInv == LeftToOne /\ AllRenewed /\ ReportsAreOwn

LEMMA AloneIs ==
    ASSUME TypesApart, OneOfAKind, TypeOK, NEW id \in AllTasks, Task(id).type \in LeaveParts
    PROVE  Alone(id)
  <1> SUFFICES ASSUME NEW other \in AllTasks, Task(other).type = Task(id).type PROVE other = id
    BY DEF Alone
  <1>1. /\ id[1] \in DOMAIN tasks /\ id[2] \in DOMAIN tasks[id[1]] /\ id = <<id[1], id[2]>>
        /\ other[1] \in DOMAIN tasks /\ other[2] \in DOMAIN tasks[other[1]]
        /\ other = <<other[1], other[2]>>
    BY TaskFacts DEF TypeOK, Slaves
  <1>2. tasks[id[1]][id[2]].type = tasks[other[1]][other[2]].type
    BY DEF Task
  <1>3. id[1] = other[1]
    BY <1>1, <1>2 DEF TypesApart, TypeOK
  <1>4. id[2] = other[2]
    BY <1>1, <1>2, <1>3 DEF OneOfAKind, TypeOK, Task
  <1> QED
    BY <1>1, <1>3, <1>4

LEMMA JoinedCover ==
    ASSUME NEW a \in Seq(Steps), NEW b \in Seq(Steps), NEW p, Covers(a, p) \/ Covers(b, p)
    PROVE  Covers(a \o b, p)
  <1>1. /\ a \o b \in Seq(Steps) /\ Len(a \o b) = Len(a) + Len(b)
        /\ \A i \in 1 .. Len(a) + Len(b) : (a \o b)[i] = IF i <= Len(a) THEN a[i] ELSE b[i - Len(a)]
    BY ConcatProperties
  <1>2. /\ Len(a) \in Nat /\ Len(b) \in Nat /\ DOMAIN a = 1 .. Len(a) /\ DOMAIN b = 1 .. Len(b)
        /\ DOMAIN (a \o b) = 1 .. Len(a) + Len(b)
    BY <1>1, LenProperties
  <1>3. CASE Covers(a, p)
    <2>1. PICK i \in DOMAIN a : a[i].part = p
      BY <1>3 DEF Covers
    <2>2. i \in DOMAIN (a \o b) /\ (a \o b)[i] = a[i]
      BY <1>1, <1>2
    <2> QED
      BY <2>1, <2>2 DEF Covers
  <1>4. CASE Covers(b, p)
    <2>1. PICK i \in DOMAIN b : b[i].part = p
      BY <1>4 DEF Covers
    <2>2. Len(a) + i \in DOMAIN (a \o b) /\ (a \o b)[Len(a) + i] = b[i]
      BY <1>1, <1>2
    <2> QED
      BY <2>1, <2>2 DEF Covers
  <1> QED
    BY <1>3, <1>4

(* read() sets all that publish_empty_message() sets, except for these types.*)
LEMMA ReadsCover ==
    ASSUME NEW t \in TaskRecords, t.type \notin LeaveParts, NEW r \in Reads(t),
           NEW k \in DOMAIN Empty(t)
    PROVE  Covers(r, Empty(t)[k].part)
  <1> DEFINE p == Empty(t)[k].part
  <1>1. CASE t.type \in {"DJI_MOTOR", "DD_MOTOR", "LK_MOTOR_MULTI"}
    <2>1. Empty(t) = [m \in Motors |-> Default(Motor[m])]
      BY <1>1 DEF Empty, DJI_MOTOR_empty, DD_MOTOR_empty, LK_MOTOR_empty
    <2>2. k \in Motors /\ p = Motor[k]
      BY <2>1 DEF Default
    <2>3. DOMAIN r = Motors /\ r[k] \in {Sensor(Motor[k]), Default(Motor[k])}
      <3>1. CASE t.type = "LK_MOTOR_MULTI"
        BY <2>2, <3>1 DEF Reads, LK_MOTOR_read
      <3>2. CASE t.type \in {"DJI_MOTOR", "DD_MOTOR"}
        <4>1. r = [m \in Motors |-> IF m \in t.enabled THEN Sensor(Motor[m]) ELSE Default(Motor[m])]
          BY <3>2 DEF Reads, DJI_MOTOR_read, DD_MOTOR_read
        <4> QED
          BY <2>2, <4>1
      <3> QED
        BY <1>1, <3>1, <3>2
    <2>4. r[k].part = Motor[k]
      BY <2>3 DEF Sensor, Default
    <2> QED
      BY <2>2, <2>3, <2>4 DEF Covers
  <1>2. CASE t.type \in {"LK_MOTOR", "SUPER_CAP", "HIPNUC_IMU_CAN"}
    <2>1. PICK a \in PartNames, b \in PartNames :
             /\ Empty(t) \in {<< Default(a), Default(b) >>, << Sensor(a), Default(b) >>}
             /\ r = << Sensor(a), Sensor(b) >>
      BY <1>2 DEF Empty, Reads, LK_MOTOR_empty, LK_MOTOR_read, SUPER_CAP_empty, SUPER_CAP_read,
             HIPNUC_IMU_CAN_empty, HIPNUC_IMU_CAN_read, PartNames
    <2>2. (k = 1 /\ p = a) \/ (k = 2 /\ p = b)
      BY <2>1 DEF Sensor, Default
    <2>3. DOMAIN r = {1, 2} /\ r[1].part = a /\ r[2].part = b
      BY <2>1 DEF Sensor
    <2> QED
      BY <2>2, <2>3 DEF Covers
  <1>3. CASE t.type = "DM_MOTOR"
    <2>1. Empty(t) = << Default("flags"), Default("online"), Default("values") >>
      BY <1>3 DEF Empty, DM_MOTOR_empty
    <2>2. p \in {"flags", "online", "values"}
      BY <2>1 DEF Default
    <2>3. PICK flag \in {<< >>, << Sensor("flags") >>} :
             r = << Default("flags"), Sensor("online") >> \o flag \o << Sensor("values") >>
      BY <1>3 DEF Reads, DM_MOTOR_read
    <2>4. /\ << Default("flags"), Sensor("online") >> \in Seq(Steps)
          /\ flag \in Seq(Steps) /\ << Sensor("values") >> \in Seq(Steps)
          /\ << Default("flags"), Sensor("online") >> \o flag \in Seq(Steps)
      <3>1. {Default("flags"), Sensor("online"), Sensor("flags"), Sensor("values")} \subseteq Steps
        BY StepTypes DEF PartNames
      <3> QED
        BY <3>1, Tuples, ConcatProperties
    <2>5. /\ \A q \in {"flags", "online"} : Covers(<< Default("flags"), Sensor("online") >>, q)
          /\ Covers(<< Sensor("values") >>, "values")
      BY DEF Covers, Sensor, Default
    <2>6. \A q \in {"flags", "online"} : Covers(<< Default("flags"), Sensor("online") >> \o flag, q)
      BY <2>4, <2>5, JoinedCover
    <2>7. \A q \in {"flags", "online", "values"} : Covers(r, q)
      BY <2>3, <2>4, <2>5, <2>6, JoinedCover
    <2> QED
      BY <2>2, <2>7
  <1> QED
    BY <1>1, <1>2, <1>3 DEF TaskRecords, TaskTypes, LeaveParts

LEMMA SameOwn ==
    ASSUME UNCHANGED tasks
    PROVE  \A id : Alone(id)' <=> Alone(id)
  BY SameTasks DEF Alone

LEMMA OwnInit == Init => OwnInv
  <1> SUFFICES ASSUME Init PROVE OwnInv
    OBVIOUS
  <1>1. \A th \in Threads : DOMAIN work[th] = {}
    BY DEF Init
  <1>2. ASSUME NEW id \in AllTasks
        PROVE  msg[Task(id).type] = Blank(Task(id).type) /\ shown[id].msg = Blank(Task(id).type)
    <2>1. Task(id).type \in Types
      BY DEF Types
    <2> QED
      BY <2>1 DEF Init
  <1>3. LeftToOne /\ ReportsAreOwn
    BY <1>2 DEF LeftToOne, ReportsAreOwn, OwnPart, Blank
  <1>4. AllRenewed
    BY <1>1 DEF AllRenewed
  <1> QED
    BY <1>3, <1>4 DEF OwnInv

(* New jobs.                                                                *)
LEMMA OwnProcess ==
    ASSUME TypesApart, OneOfAKind, TypeOK, OwnInv, ProcessPdo
    PROVE  OwnInv'
  <1>1. UNCHANGED <<tasks, msg, shown>>
    BY DEF ProcessPdo
  <1> USE <1>1, SameTasks, SameOwn
  <1>2. ReportsAreOwn' /\ LeftToOne'
    BY DEF OwnInv, ReportsAreOwn, LeftToOne, OwnPart
  <1>3. ASSUME NEW k \in DOMAIN tasks[turn]
        PROVE  work'["data"][k].todo \in Reads(Task(<<turn, k>>))
    <2> DEFINE n == Len(tasks[turn])
               choices == [i \in 1 .. n |-> Reads(Task(<<turn, i>>))]
    <2>1. DOMAIN tasks[turn] = 1 .. n
      BY TaskFacts, LenProperties DEF TypeOK
    <2>2. PICK r : /\ \A i \in 1 .. n : r[i] \in choices[i]
                   /\ work' = [work EXCEPT !["data"] = [i \in 1 .. n |-> Job(<<turn, i>>, r[i], "read")]]
      BY DEF ProcessPdo
    <2>3. work'["data"] = [i \in 1 .. n |-> Job(<<turn, i>>, r[i], "read")]
      BY <2>2 DEF TypeOK, Threads
    <2>4. work'["data"][k].todo = r[k]
      BY <2>1, <2>3 DEF Job
    <2> QED
      BY <2>1, <2>2, <2>4
  <1>4. ASSUME NEW k \in DOMAIN tasks[turn], NEW p \in Parts(Task(<<turn, k>>).type)
        PROVE  Covers(work'["data"][k].todo, p) \/ Alone(<<turn, k>>)
    <2>1. <<turn, k>> \in AllTasks /\ Task(<<turn, k>>) \in TaskRecords
      BY TaskFacts DEF TypeOK
    <2>2. PICK i \in DOMAIN Empty(Task(<<turn, k>>)) : p = Empty(Task(<<turn, k>>))[i].part
      BY <2>1, PartsAre
    <2> QED
      BY <1>3, <2>1, <2>2, ReadsCover, AloneIs
  <1>5. AllRenewed'
    <2>1. /\ DOMAIN work'["data"] = DOMAIN tasks[turn] /\ work'["checker"] = work["checker"]
          /\ \A k \in DOMAIN tasks[turn] : work'["data"][k].id = <<turn, k>>
      BY ReadJobs
    <2>2. ASSUME NEW k \in DOMAIN work'["data"] PROVE Renewed(k, work["data"][k])'
      BY <1>4, <2>1 DEF Renewed
    <2>3. ASSUME NEW k \in DOMAIN work["checker"] PROVE Renewed(k, work["checker"][k])'
      <3>1. Renewed(k, work["checker"][k])
        BY DEF OwnInv, AllRenewed, Threads
      <3> QED
        BY <2>1, <3>1 DEF Renewed, OwnPart
    <2> QED
      BY <2>1, <2>2, <2>3 DEF AllRenewed, Threads
  <1> QED
    BY <1>2, <1>5 DEF OwnInv

LEMMA OwnLose ==
    ASSUME TypeOK, OwnInv, NEW s \in Slaves, LoseSlave(s)
    PROVE  OwnInv'
  <1>1. /\ UNCHANGED <<tasks, msg, shown>>
        /\ work'["checker"] = LossJobs(s) /\ work'["data"] = work["data"]
    BY DEF LoseSlave, TypeOK, Threads
  <1> USE <1>1, SameTasks, SameOwn
  <1>2. ReportsAreOwn' /\ LeftToOne'
    BY DEF OwnInv, ReportsAreOwn, LeftToOne, OwnPart
  <1>3. ASSUME NEW k \in DOMAIN LossJobs(s), LossJobs(s)[k].by # "keep",
               NEW p \in Parts(Task(LossJobs(s)[k].id).type)
        PROVE  Covers(LossJobs(s)[k].todo, p)
    <2>1. /\ k \in DOMAIN tasks[s] /\ LossJobs(s)[k].id = <<s, k>>
          /\ LossJobs(s)[k].todo = Empty(Task(<<s, k>>))
      BY <1>3, LossJobsAre
    <2>2. <<s, k>> \in AllTasks
      BY <2>1, TaskFacts DEF TypeOK
    <2> QED
      BY <2>1, <2>2, PartsAre DEF Covers
  <1>4. AllRenewed'
    <2>1. ASSUME NEW k \in DOMAIN LossJobs(s), NEW job, job = LossJobs(s)[k]
          PROVE  Renewed(k, job)'
      BY <1>3, <2>1 DEF Renewed
    <2>2. ASSUME NEW k \in DOMAIN work["data"] PROVE Renewed(k, work["data"][k])'
      <3>1. Renewed(k, work["data"][k])
        BY DEF OwnInv, AllRenewed, Threads
      <3> QED
        BY <3>1 DEF Renewed, OwnPart
    <2> QED
      BY <2>1, <2>2 DEF AllRenewed, Threads
  <1> QED
    BY <1>2, <1>4 DEF OwnInv

(* The two threads never work at messages of one type.                      *)
LEMMA OtherType ==
    ASSUME TypesApart, TypeOK, SilentInv, NEW th \in Threads, NEW u \in Threads, th # u,
           NEW k \in DOMAIN work[th], NEW j \in DOMAIN work[u]
    PROVE  Task(work[th][k].id).type # Task(work[u][j].id).type
  <1> DEFINE mine == work[th][k].id
             other == work[u][j].id
  <1>1. mine \in AllTasks /\ other \in AllTasks
    <2>1. work[th] \in Seq(Jobs) /\ work[u] \in Seq(Jobs)
      BY DEF TypeOK
    <2>2. work[th][k] \in Jobs /\ work[u][j] \in Jobs
      BY <2>1, LenProperties, ElementOfSeq
    <2> QED
      BY <2>2 DEF Jobs
  <1>2. mine[1] = at[th] /\ other[1] = at[u]
    BY DEF SilentInv, OwnJobs
  <1> HIDE DEF mine, other
  <1>3. mine[1] # other[1]
    <2>1. at["checker"] # 0 => at["data"] # at["checker"]
      BY DEF SilentInv, Apart
    <2>2. mine[1] # 0 /\ other[1] # 0
      BY <1>1, TaskFacts DEF TypeOK
    <2> QED
      BY <1>2, <2>1, <2>2 DEF Threads
  <1>4. /\ mine[1] \in DOMAIN tasks /\ mine[2] \in DOMAIN tasks[mine[1]]
        /\ other[1] \in DOMAIN tasks /\ other[2] \in DOMAIN tasks[other[1]]
    BY <1>1, TaskFacts DEF TypeOK, Slaves
  <1>5. tasks[mine[1]][mine[2]].type # tasks[other[1]][other[2]].type
    BY <1>3, <1>4 DEF TypesApart, TypeOK
  <1> QED
    BY <1>5 DEF Task, mine, other

LEMMA OwnFill ==
    ASSUME TypesApart, TypeOK, SilentInv, OwnInv, NEW th \in Threads, FillPart(th)
    PROVE  OwnInv'
  <1> DEFINE job == work[th][1]
             type == Task(job.id).type
             step == Head(job.todo)
  <1>1. UNCHANGED <<tasks, shown>>
    BY DEF FillPart
  <1> USE <1>1, SameTasks, SameOwn
  <1>2. ReportsAreOwn'
    BY DEF OwnInv, ReportsAreOwn
  <1>3. /\ \A u \in Threads \ {th} : work'[u] = work[u]
        /\ DOMAIN work'[th] = DOMAIN work[th] /\ 1 \in DOMAIN work[th]
        /\ job \in Jobs /\ job.todo # << >>
        /\ work'[th][1].id = job.id /\ work'[th][1].by = job.by
        /\ work'[th][1].todo = Tail(job.todo)
        /\ \A k \in DOMAIN work[th] \ {1} : work'[th][k] = work[th][k]
    BY FillWork
  <1>4. /\ type \in Types /\ \A ty \in Types \ {type} : msg'[ty] = msg[ty]
        /\ msg'[type] = [msg[type] EXCEPT ![step.part] = IF step.from = "image" THEN job.id ELSE NoOne]
    BY FillMsg
  <1>5. job.id \in AllTasks /\ msg[type] \in [Parts(type) -> Origins]
    BY <1>3, <1>4 DEF Jobs, TypeOK, Messages
  <1>6. ASSUME NEW p \in Parts(type)
        PROVE  /\ p = step.part => msg'[type][p] \in {NoOne, job.id}
               /\ p # step.part => msg'[type][p] = msg[type][p]
    BY <1>4, <1>5
  <1>7. /\ job.todo \in Seq(Steps) /\ Len(job.todo) \in Nat \ {0} /\ DOMAIN job.todo = 1 .. Len(job.todo)
        /\ step = job.todo[1]
        /\ DOMAIN Tail(job.todo) = 1 .. Len(job.todo) - 1
        /\ \A j \in 1 .. Len(job.todo) - 1 : Tail(job.todo)[j] = job.todo[j + 1]
    BY <1>3, EmptySeq, HeadTailProperties, LenProperties DEF Jobs
  <1>8. ASSUME NEW p, Covers(job.todo, p), p # step.part PROVE Covers(Tail(job.todo), p)
    <2>1. PICK j \in DOMAIN job.todo : job.todo[j].part = p
      BY <1>8 DEF Covers
    <2>2. j # 1
      BY <1>7, <1>8, <2>1
    <2>3. j - 1 \in 1 .. Len(job.todo) - 1 /\ Tail(job.todo)[j - 1] = job.todo[j]
      BY <1>7, <2>2
    <2> QED
      BY <1>7, <2>1, <2>3 DEF Covers
  <1>9. Renewed(1, job)
    BY <1>3 DEF OwnInv, AllRenewed
  <1>10. \A id \in AllTasks : Task(id).type \in Types
    BY TaskFacts DEF TypeOK
  <1> HIDE DEF type, step, job
  <1>11. LeftToOne'
    <2> SUFFICES ASSUME NEW id \in AllTasks, Alone(id), NEW p \in Parts(Task(id).type)
                 PROVE  msg'[Task(id).type][p] \in {NoOne, id}
      BY DEF LeftToOne, OwnPart
    <2>1. msg[Task(id).type][p] \in {NoOne, id}
      BY DEF OwnInv, LeftToOne, OwnPart
    <2>2. CASE Task(id).type = type
      <3>1. id = job.id
        BY <1>5, <2>2 DEF Alone, type
      <3> QED
        BY <1>6, <2>1, <2>2, <3>1
    <2>3. CASE Task(id).type # type
      BY <1>4, <1>10, <2>1, <2>3
    <2> QED
      BY <2>2, <2>3
  <1>12. ASSUME NEW u \in Threads, u # th, NEW k \in DOMAIN work[u]
         PROVE  Renewed(k, work[u][k])'
    <2>1. Renewed(k, work[u][k])
      BY DEF OwnInv, AllRenewed
    <2>2. Task(work[u][k].id).type # type
      BY <1>3, <1>12, OtherType DEF type, job
    <2>3. work[u][k].id \in AllTasks
      <3>1. work[u] \in Seq(Jobs)
        BY DEF TypeOK
      <3>2. work[u][k] \in Jobs
        BY <3>1, LenProperties, ElementOfSeq
      <3> QED
        BY <3>2 DEF Jobs
    <2>4. msg'[Task(work[u][k].id).type] = msg[Task(work[u][k].id).type]
      BY <1>4, <1>10, <2>2, <2>3
    <2>5. work'[u][k] = work[u][k]
      BY <1>3, <1>12
    <2> QED
      BY <2>1, <2>4, <2>5 DEF Renewed, OwnPart
  <1>13. Renewed(1, work[th][1])'
    <2> SUFFICES ASSUME job.by # "keep", NEW p \in Parts(type)
                 PROVE  Covers(Tail(job.todo), p) \/ Alone(job.id) \/ msg'[type][p] \in {NoOne, job.id}
      BY <1>3 DEF Renewed, OwnPart, type
    <2>1. Covers(job.todo, p) \/ Alone(job.id) \/ msg[type][p] \in {NoOne, job.id}
      BY <1>9 DEF Renewed, OwnPart, type
    <2> QED
      BY <1>6, <1>8, <2>1
  <1>14. ASSUME NEW k \in DOMAIN work[th] \ {1} PROVE Renewed(k, work[th][k])'
    <2>1. Renewed(k, work[th][k])
      BY DEF OwnInv, AllRenewed
    <2> QED
      BY <1>3, <1>14, <2>1 DEF Renewed
  <1>15. AllRenewed'
    BY <1>3, <1>12, <1>13, <1>14 DEF AllRenewed
  <1> QED
    BY <1>2, <1>11, <1>15 DEF OwnInv

LEMMA OwnPublish ==
    ASSUME TypeOK, OwnInv, NEW th \in Threads, Publish(th)
    PROVE  OwnInv'
  <1> DEFINE job == work[th][1]
             n == Len(work[th])
  <1>1. UNCHANGED <<tasks, msg>>
    BY DEF Publish
  <1> USE <1>1, SameTasks, SameOwn
  <1>2. /\ job \in Jobs /\ 1 \in DOMAIN work[th] /\ n \in Nat \ {0} /\ DOMAIN work[th] = 1 .. n
        /\ job.todo = << >>
        /\ \A u \in Threads \ {th} : work'[u] = work[u]
        /\ DOMAIN work'[th] = 1 .. n - 1
        /\ \A k \in 1 .. n - 1 : work'[th][k] = work[th][k + 1]
        /\ \A id \in AllTasks : id # job.id \/ job.by = "keep" => shown'[id] = shown[id]
        /\ job.by # "keep" => shown'[job.id] = [by |-> job.by, msg |-> msg[Task(job.id).type]]
    BY PublishShown
  <1>3. LeftToOne'
    BY DEF OwnInv, LeftToOne, OwnPart
  <1>4. ASSUME job.by # "keep", NEW p \in DOMAIN msg[Task(job.id).type]
        PROVE  msg[Task(job.id).type][p] \in {NoOne, job.id}
    <2>1. job.id \in AllTasks /\ Task(job.id).type \in Types
      BY <1>2, TaskFacts DEF Jobs, TypeOK
    <2>2. p \in Parts(Task(job.id).type)
      BY <1>4, <2>1 DEF TypeOK, Messages
    <2>3. ~Covers(job.todo, p)
      BY <1>2 DEF Covers
    <2>4. Renewed(1, job)
      BY <1>2 DEF OwnInv, AllRenewed
    <2>5. CASE Alone(job.id)
      BY <2>1, <2>2, <2>5 DEF OwnInv, LeftToOne, OwnPart
    <2>6. CASE ~Alone(job.id)
      BY <1>4, <2>2, <2>3, <2>4, <2>6 DEF Renewed, OwnPart
    <2> QED
      BY <2>5, <2>6
  <1>5. ReportsAreOwn'
    <2> SUFFICES ASSUME NEW id \in AllTasks, NEW p \in DOMAIN shown'[id].msg
                 PROVE  shown'[id].msg[p] \in {NoOne, id}
      BY DEF ReportsAreOwn
    <2>1. CASE shown'[id] = shown[id]
      BY <2>1 DEF OwnInv, ReportsAreOwn
    <2>2. CASE id = job.id /\ job.by # "keep"
      <3>1. shown'[id].msg = msg[Task(job.id).type]
        BY <1>2, <2>2
      <3> HIDE DEF job
      <3> QED
        BY <1>4, <2>2, <3>1
    <2> QED
      BY <1>2, <2>1, <2>2
  <1>6. ASSUME NEW k \in DOMAIN work'[th] PROVE Renewed(k, work[th][k])'
    <2>1. k + 1 \in DOMAIN work[th] /\ k + 1 # 1 /\ work'[th][k] = work[th][k + 1]
      BY <1>2
    <2>2. Renewed(k + 1, work[th][k + 1])
      BY <2>1 DEF OwnInv, AllRenewed
    <2> QED
      BY <2>1, <2>2 DEF Renewed
  <1>7. ASSUME NEW u \in Threads \ {th}, NEW k \in DOMAIN work[u] PROVE Renewed(k, work[u][k])'
    <2>1. Renewed(k, work[u][k])
      BY DEF OwnInv, AllRenewed
    <2> QED
      BY <1>2, <2>1 DEF Renewed, OwnPart
  <1>8. AllRenewed'
    BY <1>2, <1>6, <1>7 DEF AllRenewed
  <1> QED
    BY <1>3, <1>5, <1>8 DEF OwnInv

LEMMA OwnNext ==
    ASSUME TypesApart, OneOfAKind
    PROVE  TypeOK /\ SilentInv /\ OwnInv /\ [Next]_vars => OwnInv'
  <1> SUFFICES ASSUME TypeOK, SilentInv, OwnInv, [Next]_vars PROVE OwnInv'
    OBVIOUS
  <1>1. ASSUME UNCHANGED <<tasks, msg, shown, work>> PROVE OwnInv'
    BY <1>1, SameTasks, SameOwn
       DEF OwnInv, ReportsAreOwn, LeftToOne, AllRenewed, Renewed, OwnPart
  <1>2. CASE SkipSlave
    BY <1>1, <1>2 DEF SkipSlave
  <1>3. ASSUME NEW s \in Slaves, Recover(s) PROVE OwnInv'
    BY <1>1, <1>3 DEF Recover
  <1>4. ASSUME NEW th \in Threads, LeaveSlave(th) PROVE OwnInv'
    BY <1>1, <1>4 DEF LeaveSlave
  <1>5. CASE UNCHANGED vars
    BY <1>1, <1>5 DEF vars
  <1> QED
    BY <1>2, <1>3, <1>4, <1>5, OwnProcess, OwnLose, OwnFill, OwnPublish DEF Next

(* Where no type of task is on two slaves, and a type that leaves parts of  *)
(* its message alone while its sensor is offline is there once, a task      *)
(* publishes its own data or defaults, although all tasks of a type share   *)
(* one message and two threads fill it in.                                  *)
THEOREM ReportsStayOwn ==
    ASSUME TypesApart, OneOfAKind
    PROVE  Spec => []ReportsAreOwn
  <1>1. TypeOK /\ SilentInv /\ OwnInv /\ [Next]_vars => OwnInv'
    BY OwnNext
  <1>2. OwnInv => ReportsAreOwn
    BY DEF OwnInv
  <1> QED
    BY <1>1, <1>2, OwnInit, SilentAlways, PTL DEF Spec
================================================================================
