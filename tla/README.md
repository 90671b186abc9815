# A verification project for EcatV2_Master

EcatV2_Master is a ROS 2 node (`soem_wrapper`, C++) that drives a line of
EtherCAT slaves.  A slave is a controller board with several *tasks* (motor
drivers, receivers, IMUs, PWM outputs and so on).  The master sends each slave
its configuration, then exchanges process data with it as fast as frames return,
publishes what the tasks report and writes the commands it receives
into the outputs.  Slaves may be unplugged, restarted and exchanged while the
program runs.

This directory holds TLA+ models of that program, TLC configurations that check
them on small instances, and theorems about them that TLAPS checks.  In the
following, *N* is `src/src/soem_wrapper/src/ecat_node.cpp` and *B* is
`src/src/soem_wrapper/src/soem_backend.cpp`; `PROJECT.json` gives, for every
definition, the lines it models.

## 1. Inventory

### Components

| component | where | state it keeps | operations |
|---|---|---|---|
| Slave device record | class `SlaveDevice`, B and `wrapper.hpp` | `master_status_`, `slave_status_`, the two process-data buffers and the backup, argument index, flags `is_arg_sent_`, `is_ready_`, `is_conf_ros_done_`, `is_recover_rejected_`, `reconnected_times_`, the mutex `mtx_` | `init`, `receive_from_slave`, `send_arg`, `process_pdo`, `write_init_values`, `transfer_to_slave`, `pre_recover`, `reset_state`, `recover_state`, `on_connection_lost`, `backup_` and `recover_master_to_slave_buf` |
| Data cycle | `datacycle_callback`, N:88-249 | `wkc_`, the process image of SOEM | receive frame, process each slave, exit reset, transfer, send frame |
| State checker | `state_check_callback`, N:251-357 | `ec_slave[].state`, `islost`, `docheckstate` | one branch per AL state, then the `islost` test |
| Shutdown | `on_shutdown`, `main`, N and B | `running_`, `exiting_`, `exiting_reset_called_` | reset the actuators, stop and join the threads, close |
| Start-up | `setup_ecat`, N:359-430 | `in_operational_`, the device list | scan, map, `init` and `init_task_list` of each slave, go to OP, start threads |
| Task command handlers | `tasks/*.cpp` | the command bytes in the slave's output buffer | `on_command` (ROS executor), `init_value` |
| Task reports | `tasks/*.cpp` | one static message per type of task | `read` (data thread), `publish_empty_message` (checker) |
| Task configuration | `init_sdo`, `init_task_list` | argument bytes `arg_buf_`, offsets of the tasks | one per type of task |
| Configuration parser | `config_utils.cpp` | the configuration map | `parse_map`, `build_buf`, `get_field_as` |
| Byte codec | `io_utils.cpp` | none | read and write of integers and floats at an offset |
| CPU, IRQ and NIC set-up, logging | `sys_utils.cpp`, `logger_utils.cpp` | none | calls of the operating system |
| SOEM, slave firmware, ROS | not in the repository | | external |

### How they interact

Three kinds of thread touch a `SlaveDevice`.

* The **data thread** takes `mtx_` of each slave in turn, once to receive, once
  to process and once to transfer; between these, and while the frame travels,
  others may come in.
* The **checker thread** wakes every 100 ms.  If the working counter was too low,
  or a slave was not in OP at the last round, it reads all AL states once and
  visits the slaves in order with what it read.  It takes `mtx_` around the calls
  that change the record, with one exception: `recover_state()` at N:343.  It does
  not hold it across the SOEM calls that take hundreds of milliseconds;
  `SlaveDevice::init()` is called back from one of these.
* The **executor** runs `on_command()` of a task when a message comes.  It takes
  `mtx_` and asks nothing about the state of the slave.

A fourth, the **signal thread** of rclcpp, runs `on_shutdown()` while `main`
returns from `spin()`.

### The protocol with a slave

`master_status_` starts at 2 (SENDING_ARGUMENTS).  The data thread puts (index,
byte) at the head of the output buffer until the slave echoes it, then the next.
A slave that has all bytes reports 2 (READY).  The master then fills the buffer
with init values, or with the backup on a reconnection, and sends 3.  The slave
answers 3 (CONFIRM_READY), the master sets `is_ready_`, and from there each echo of
the status makes the master count on, 4 to 250 and back to 5, and publish a report.
Note that 2 means two things, and that the same bytes of the output buffer hold
arguments during the handshake and the commands of the first task after it.

### What is hard

Interleavings of these threads over the record; a process image that still holds
the answer of a slave that has gone; `init()` in the middle of a call that takes
hundreds of milliseconds; losses at any point of the handshake, of a
reconfiguration or of the exit; static messages shared by threads that hold
different locks; a sequence of losses, restarts and exchanges.  `PROJECT.json`
lists these hazards at their lines.

### What makes each component correct

* *Record, data cycle, checker.*  A task is driven only by init values and
  published commands.  A slave is driven only when it holds every argument byte.
  Commands survive a loss unless the task is configured to be reset.  Only sensor
  data is published as such.  A foreign board is never driven.  What happens to one
  slave leaves the others alone.  A slave that can come back does.
* *Shutdown.*  The program ends; the actuators are reset before it does; the
  threads end before the node.
* *Commands.*  Two tasks of a slave never write each other's bytes, and whatever
  the order of commands, losses and restores, a task obeys its command or its default.
* *Reports.*  A task publishes its own data; after the announcement of a loss the
  default stays on the topic until the slave is back.

## 2. Plan

Done, in this order: `SlaveDevice`, `EcatMaster` and its proofs, `Shutdown`,
`TaskCommands` with `TaskOutputs`, `TaskReports`; then the configuration
(`ConfigurationParser`, `TaskConfig`), `Startup`, the refinement `ArgTransfer`, `Codec`,
and the proofs about the refinement, `Startup`, `Shutdown`, `TaskReports` and `Codec`;
then the theorems about slaves that fail and recover (`EcatMaster_proofs`, and the refinement
of `ArgTransfer` with faults), `ReportsAreOwn`, the refinement of `TaskCommands` by `TaskOutputs`, and the configuration
(`TaskConfig_proofs`: the layout of the argument bytes, their completeness, the parser).

Left: floats and half floats in `Codec` (section 8).

## 3. Modules

| module | models | composed of |
|---|---|---|
| `ConfigurationParser` | the flattening of the YAML document into `fields_` | |
| `TaskConfig` | `init_task_list` and `init_sdo` of every type of task: settings, argument bytes | extends `ConfigurationParser` |
| `Startup` | `main`, `run`, `setup_ecat`, `SlaveDevice::init` of the first configuration | |
| `SlaveDevice` | the record of one slave; each member function is an operator from record to record | |
| `ArgTransfer` | abstract: what the handshake promises a slave | |
| `EcatMaster` | data thread, checker thread, executor, slave hardware and firmware, faults | extends `SlaveDevice`, refines `ArgTransfer` |
| `Shutdown` | the exit: signal thread, main thread, data thread, checker | extends `SlaveDevice` |
| `TaskCommands` | abstract: what the command side of a slave promises | |
| `TaskOutputs` | the bytes of the output buffer under all types of task | refines `TaskCommands` |
| `TaskReports` | static messages and topics | |
| `Codec` | how integers, receiver channels and motor fields are packed into bytes | |
| `MCTaskConfig`, `MCTaskOutputs`, `MCTaskReports` | instances for TLC | |
| `TaskConfig_proofs`, `Startup_proofs`, `SlaveDevice_proofs`, `EcatMaster_proofs`, `Shutdown_proofs`, `TaskOutputs_proofs`, `TaskReports_proofs`, `Codec_proofs` | theorems and lemmas | extend the module they are about, and TLAPS; `EcatMaster_proofs` and `Shutdown_proofs` extend `SlaveDevice_proofs` |

In time, `ConfigurationParser` and `TaskConfig` are what happens before a slave is on the
bus and while `Startup` is in its state "tasks" (there, their outcome is one of four per
board); `EcatMaster` begins where `Startup` has both threads running, `Shutdown` where it spins.
Operators whose comment begins with "Mutant" are wrong on purpose: they show
that a property notices the mistake, and no specification uses them.

### ConfigurationParser and TaskConfig

A key of `fields_` is the sequence of names the code joins with `_`.  `todo` holds the entries
`parse_map()` has yet to visit, in the order of its recursion.  `Nested` is the odd part: the
name of a map inside a YAML sequence becomes part of the path, the name of the sequence itself
does not.  A value is stored under the type of its tag; a tag or a value `as<T>()` cannot
handle terminates.

`TaskConfig` gives the `init_sdo()` of each type as a sequence of operations: a field that `build_buf()` appends to
`temp_buf_` (`AppendField`), the `memcpy()` of what it has built into `arg_buf_` (`CopyBuilt`), a setting that must be
there and one with a default (`LookUp`).  A field that is missing throws in the middle of `build_buf()`, before anything is copied.  A byte of `arg_buf_` is known by the setting it belongs to and
its number in it, so that a byte lost, doubled or out of place shows.  `beyond` records a write behind the end.

### Startup

One action per step that can end differently: the two scans (`FirstScan` makes the devices, `SecondScan` sets
`ec_slavecount` again), `MapSlave` with the SDO reads of `init()` that fail, `TaskList` with the outcome of
`init_task_list()`, the retry loop `TryOp`, the start of the threads, the registration of `on_shutdown()`.
`board` and `conf` are what is on the bus and in the file.  `revStr` is `sw_rev_str_`, one
static buffer for all slaves.  "terminated" is the end by an exception or by the destructor of a joinable thread.

### SlaveDevice and EcatMaster

A record in `dev[s]` stands for a `SlaveDevice`: `mstat`, `sstat` are the two
statuses, `m2s` the output buffer, `echo` the first three bytes of the input
buffer, `idx` is `sending_arg_buf_idx_`, `argSent`, `ready`, `confRos`, `rejected`
the flags, `reconn` is `reconnected_times_` with its 8 bits, `backed`/`backup` the
backup.  The output buffer is one content per task (zero, init value, command,
argument); `HeadTask` is the one whose area begins at offset 0, where `send_arg()`
writes.  That areas keep apart is what `TaskOutputs` is about.

`ReceiveSlave`, `ProcessOne`, `TransferSlave` are the three critical sections of
the data thread; `ProcessSlave` composes the four tests of N:169-214 in their
order.  `Exchange` is `ec_send_processdata` at the end of one cycle together with
`ec_receive_processdata` at the beginning of the next: no code of the master lies
between them.  `inp` keeps the old content for a slave that does not answer.

The checker has one action per branch of `state_check_callback` and per SOEM call
inside a branch that takes time: `Wake` (ec_readstate), `CheckOperational`,
`CheckSafeOp` then `RequestOp`, `CheckInit` then `Reconfig` (with `init()`
inside) then `AfterReconfig`, `CheckLost`, `CheckOther` for the states no branch
handles, and the second `if`: `TailNotLost`, `TailRecover`, `TailFound`.  The
unlocked `recover_state()` is two actions, in either order.

`Command` is `on_command()`.  `TakeArg`, `ReportReady`, `EchoStatus` are the
firmware, as the protocol above and the comments at N:180-205 require it; `Fault` and
`Repair` are the environment.  These are marked external in the map.  The board as it
is, `hw[s]`, has power, link, a station address, an identity (`own`: the board
configured at start-up or another one; `fit`: its firmware is new enough), an AL state,
its status, the argument bytes it holds and the outputs it received.

`Init` is the state a successful `setup_ecat()` leaves: all slaves in OP, arguments
not yet sent.  `is_ecat_conf_done_` is TRUE from there on and is left out.

`ReInit` is `init()` on a reconnection.  It finds the board it knows, a foreign one, which it
rejects, or one with too old a firmware, for which it returns before it changes anything
(B:94); a read that fails gives the wrong answer (faults `sdo` and `rev`).

`ArgTransfer` is the handshake without the bus: bytes are taken in order and intact, a slave is driven
only with all of them, and gets all again after it lost them.  The refinement mapping
takes the bytes from `hw[s].args` and "driven" from the firmware's state; steps of the master
and of the wire are its stutters.

### Shutdown

`main` leaves `spin()` when the context is invalid and lets go of the node; `on_shutdown()`
sets `exiting_`, waits for `exiting_reset_called_`, grants 100 ms, clears
`running_`, joins, closes.  `ClearOne` and `FillOne` are the two halves of
`write_init_values()`, which runs here without a lock.  Of the checker only its loop and
`pre_recover()` matter here (it clears `is_arg_sent_`, which the exit reset
tests).  A slave is working at the start, or in the handshake after a loss.
The history variable `disturbed` says whether one of the three things happened that
are known to defeat the reset (section 6).

### TaskCommands and TaskOutputs

`TaskCommands` promises, without bytes, that each task obeys a command sent to it or its
default, that a loss resets exactly the tasks that ask for it, and that the exit
resets all.  `TaskOutputs` has the buffer, the byte layout of each `on_command()`
and `init_value()`, the arguments in the first three bytes, the backup and the
restore.  The refinement mapping is `Obeyed`: the command whose bytes, as far as the
firmware heeds them, are in the buffer that counts (during a handshake that is what
the handshake will end with).  `TasksKeepApart` is `TC!Spec`.  `InitTasks` says at once what
the loop over `init_value()` leaves: of the tasks that write a byte, the last one decides.

### TaskReports

All tasks of one type share one static message (for example `task_defs.hpp:178`).
`FillPart` sets one part of it, `Publish` sends it, each thread under the lock of the
slave it works for.  `X_read` and `X_empty` list the parts that `read()` and
`publish_empty_message()` of type X set, in order, including the early returns of
receivers that are offline.  `ready[s]` and `lost[s]` are the part of `EcatMaster`
that this depends on.  The header stamp and the scaling of values are left out.

### Codec

Pure operators: what `write_*()` and `read_*()` of `io_utils.cpp` put where, the eight 11-bit channels a
receiver packs into eleven bytes, the switches beside them, and the 16- and 12-bit fields of a DM motor's command and
report.  Shifts and masks are `\div`, `*` and `%`; `|` is `+`, which is right only if no two operands share a
bit, and that is what the theorems of `Codec_proofs` say.  `float_to_uint()` computes with `float`: a value is a whole number of
`Unit`s (2^-149), and each of the four operations rounds its exact result to a nearest `Float32`, by a rounding `fl` of which nothing
else is assumed (`Roundings`).  Infinity and NaN are left out.  No run uses this module: its theorems cover
every value, and values beyond 2^31 are out of TLC's arithmetic.

## 4. Runs

Bounds that all runs of `EcatMaster` and `Shutdown` share: `MaxStatus = 6` stands for
250, so the counter wraps within three reports; `ReconnectMod = 256` is the width
in the code (no run gets near it); one command value per task, since the properties only
ask whose command it is, not which; one or two argument bytes, since the handshake does the
same for each byte after the first, and the second is what an echo of the first
could be mistaken for; `MaxFaults = 2`, which is a fault and another one during the recovery
from it (one in `core_healthy`, where it may come at any time; three in
`find_foreign_board`: power off, swap, failed read).

| run | what it asks | size | result |
|---|---|---|---|
| `core_recover` | One slave with two tasks, one of which is reset at a loss; first handshake, commands, then any two faults (unplug, power, swap, reflash, lost frame, drop to SAFE_OP, watchdog, failed reads of serial number or revision, a reconfiguration that breaks off). `TypeOK`, `NoPhantomCommand`, `ConfiguredWhenDriven`, `CommandKept`, `ReportsAreReports`, `ForeignBoardNotOperational`, `OutdatedNotDriven`, and the refinement `ArgumentsTransferred` | 668 k states, 21 s | hold |
| `core_live` | One slave, any two faults: `AllRecover`, it is in service for good | 69 k, 6 s | holds |
| `core_healthy` | Two slaves, one of which fails at any time, also in its handshake: `HealthyUndisturbed`, the checker never touches the other | 518 k, 12 s | holds |
| `startup` | Up to two boards, of two serial numbers and two revisions, on either side of the minimum; each scan may find other boards; every configuration, failed reads, OP not reached, SIGINT at any time. `TypeOK`, `RunningIsComplete`, `FirmwareChecked`, `AbortsExplained`, `StartupDecides` | 56 k, 3 s | hold |
| `config` | Complete configurations that contain every type of task, and faulty ones: something missing, mistyped, doubled, unknown, an `sdo_len` too short. `ParsedAsWritten`, `WithinBuffer`, `ArgumentsInOrder`, `ArgumentsComplete` | 2040, 37 s | hold |
| `shutdown` | Two slaves, each working or in a handshake, a callback in progress, drops to SAFE_OP: `TypeOK`, `ShutdownCompletes`, `NodeOutlivesThreads`, `QuietExitResets` | 578 k, 60 s | hold |
| `reports` | Two configurations of two slaves that hold every type of task: `TypeOK`, `ReportsAreOwn`, `LossReportIsDefault`, `DefaultUntilBack` | 227 k, 16 s | hold |
| `outputs` | Every type of task before and behind another one, with few and with all motors, reset or not at a loss: `TasksKeepApart` (refinement) | 15 k, 26 s | holds |
| `find_mcu_restart` | The firmware restarts, the link stays: `NoPhantomCommand` | | violated |
| `find_foreign_board` | A failed SDO read and a swap: `ForeignBoardNotOperational` | | violated |
| `find_exit_hangs` | Not every slave reached OP: `ShutdownCompletes` | | violated |
| `find_sample_config` | The sample configuration of `docs/first-run-test.md`: `SampleStarts` | | violated |

The deadlock check is off where the program stops by itself: in `startup` (it spins, has exited or
was terminated), `config` and `find_sample_config` (the slave is configured or start-up is over), and
`find_exit_hangs`, whose subject is that nothing more happens.

Two slaves are enough in `startup`: the second one is judged by what reading the first left in `sw_rev_str_`, may be
missing in one scan, or be reached when the first has already failed.  Two retries stand for 50.  In `config` at most five tasks
share a slave, so that each type has a task before or behind it whose bytes it could displace.

`CommandKept` deserves a word: after a recovery a task has the latest command or the one in
force when the loss was noticed.  The code restores the latter over the former (N:199), so
a command published during an outage lasts only until the slave is back; the property allows
that, and forbids what the code must not do: give back an older
command, another task's, or one from before the loss to a task that was to be reset.

`OutdatedNotDriven` holds for a subtle reason.  A board with too old a firmware is not rejected like a foreign one; the
checker takes it to OP and `reset_state()` and `recover_state()` treat it like any other.  It stays
idle only because `init()` has returned before it set `master_status_` back to 2, so that no argument is sent.

### What the violations show

Each is a disagreement between what the code does and what a document, a comment or a log
message of the repository says; `findings` in `PROJECT.json` quotes the lines.

* *Firmware restart* (N:322).  The checker sees INIT, not NONE, so it never calls
  `on_connection_lost()` and takes no backup.  The new handshake has nothing to restore:
  its last argument bytes become the first task's command.
* *Foreign board* (B:49).  The result of the SDO read is ignored; after a failed read the serial
  number is compared with itself.
* *Exit hangs* (N:426).  `setup_ecat()` returns true without starting the data thread, which
  is the only one to set the flag `on_shutdown()` waits for.
* *Sample configuration* (`hipnuc_imu_can.cpp:18`).  It lacks the settings the IMU task builds its arguments from; the
  exception is caught by nobody and the process ends.

## 5. Assumptions, and why

*Scheduling (fairness).*  Weak fairness of the data thread and the checker (the operating
system schedules them; the data thread is a real-time one), of the firmware, and of `Repair`
(`AllRecover` speaks of slaves that come back).  In `Shutdown`, of each of the
threads.  No fairness for commands, faults and the signal.

*`SleepCoversCycle`.*  The checker sleeps 100 ms; a data cycle waits 100 microseconds for its frame and
does not sleep.  So between two rounds many cycles pass, and unless frames are lost for all of the 100 ms,
two of them come back: `Wake` waits for two frames that do.  The first replaces the process image, the record and the frame
to be sent, the second lets the slave answer to what was sent.  Without it a checker
could run ahead of a data thread that never moves, and recovery would look impossible where
it only needs time.  The theorems about recovery have it as a hypothesis; section 6 says what goes wrong otherwise.  The
others do not use it.

*One slave, two tasks.*  The data of slaves are disjoint and the checker visits them in turn;
what remains between two slaves is `core_healthy`, and its theorem for any number.  Two tasks are the
one at the head of the buffer, where arguments are written, and one behind it.

*`ArgLen` is at least 1.*  The task count, which must not be 0, is an argument byte itself (B:171-178), so
`init()`'s case `sdo_len = 0` (ready without a handshake) does not occur where `sdo_len` is right.
That `sdo_len` counts the bytes the tasks append is checked by nothing in the code; `WithinBuffer` shows that
then nothing is written behind the buffer.

*`FaultsInHandshake = FALSE`, `QuietHandshake = TRUE`* in `core_recover` and `core_live`.
Faults hit a slave that has left its handshake (a second one also in the recovery up to
`init()`), and clients publish to slaves that are ready.  Section 6 says what happens otherwise.
`core_healthy` does without the first.  Of the theorems only those about recovery need the first, and only those about
the transfer of arguments need the second.

*`ReconfigAnswered`*, a hypothesis of the theorems about recovery and of no run: a slave that still answered when the checker
confirmed INIT (N:302) answers until `ec_reconfig_slave()` has taken it to SAFE_OP (N:303).  What a loss in between may
do is in section 6.

*`CounterHasRoom`*, a hypothesis of `CommandsKeptThroughRecovery`: `reconnected_times_` (a `uint8_t`, B:374) does not come
round to 0.  At 256 the slave would be given default values like a new one.

*Start-up.*  A board keeps its identity during start-up; boards join and leave between the scans.  A publisher
cannot be created after SIGINT.  What `init_task_list()` comes to depends on the section of the
board's serial number only.

*Configuration.*  yaml-cpp is external: `as<T>()` throws for a value `T` cannot hold, `Tag()` is the tag as
written.  That the width of a tag is the one the slave's firmware expects cannot be seen in this repository.

*Reports.*  A part of a message is written in one step.  No type is on two slaves (section 6 says what
happens then).  Sensors of one type, two on one slave, of which one is offline, publish
what the other left (see the hazards); motors of one type do not, and are in the run.

*Outputs.*  `LayoutAssumption`: the areas of the tasks are in the buffer and apart, where the area of a task is as
wide as the widest thing it writes; nothing in the code
checks that a configuration is laid out so (`init_value()` of a DJI motor task writes 12 bytes
however few motors are enabled).  The packing buffer the DM motor task shares is used by the executor
thread only.  The firmware ignores the value of a motor whose enable flag is 0.

*Buffers.*  `init()` resizes the process-data buffers and clears them again (B:111-123): their size is 0
and their bytes are used through `data()` and `operator[]`.  The models take the bytes to be there, as they are in a
build without library assertions.

*Shutdown.*  `on_shutdown()` gets hold of the node before `main` lets go of it (`CallbackFirst`; the
order is up to rclcpp).  One exchange stands for the 100 ms.  At most one callback is in progress, as the
executor has one thread.  No slave reconnects 256 times (`ReconnectMod > 1`).  `rclcpp::shutdown()` in `main` waits for a shutdown that is in progress.

*SOEM.*  `ec_reconfig_slave()` takes a slave that answers to SAFE_OP; one that stops answering on the way
is left in INIT, or (fault `midway`) in PRE_OP.  `ec_recover_slave()` gives a board of the known
type its address back and changes no AL state.  A slave that does not answer leaves its part of
the process image as it was.

## 6. Known weaknesses outside the passing runs

Each of these can be reproduced by changing the constants of a configuration as said.

| change | property that fails | what happens |
|---|---|---|
| `core_recover` with `QuietHandshake = FALSE`, no fault at all | `ConfiguredWhenDriven` | *Early command*: `on_command()` (e.g. `dshot.cpp:46`) overwrites the argument at the head of the buffer.  The slave stores command bytes over an argument it had already received and echoed; the master takes that earlier echo as the confirmation, and the slave runs with a wrong configuration |
| `core_recover` with `FaultsInHandshake = TRUE`, one `unplug` | `NoPhantomCommand` | lost in its first handshake, the slave starts with a backup of argument bytes instead of init values (N:196, N:333) |
| the same | `ReportsAreReports` | `recover_state()` makes it ready; READY and SENDING_ARGUMENTS are both 2, so `process_pdo()` publishes the argument echo (N:343) |
| `core_recover` with three faults, `safeop`, `power`, `power` | `NoPhantomCommand` | lost during its reconfiguration: `init()` has set `master_status_` back to 2 when the slave stops answering; until the checker sees the loss, argument bytes go into the buffer, and `on_connection_lost()` takes them for commands (N:303, N:332) |
| `core_recover` with three faults, `power`, `frame`, `frame`, and `SleepCoversCycle = FALSE` | `NoPhantomCommand`, `CommandKept`, `ConfiguredWhenDriven`, `ReportsAreReports` | every frame of the checker's 100 ms is lost: the slave is taken to OP while the process image still holds the answer it gave before the loss, which passes for one in the new handshake (N:297) |
| `core_recover` with two faults, `mcureset` twice | `ArgumentsTransferred` | as in `find_mcu_restart` the last argument byte stays in the buffer; after the next restart it is the first thing the slave is sent, and it takes it out of order (N:322).  `ConfiguredWhenDriven` holds in these runs |
| `core_recover` with one `mcureset` | `CommandKept` | the same: a task that was to get its command back gets the argument byte |
| `core_recover` with three faults, `power`, `reflash`, `rev` | `OutdatedNotDriven` | a failed read of the revision lets `init()` pass the board once; the next `init()` refuses it, but its arguments are already being sent (B:52, B:94) |
| `core_live` with `FaultsInHandshake = TRUE`, one `power` | `AllRecover` | a data cycle between `init()` and `reset_state()` counts `master_status_` from 2 to 3; no argument is sent any more (N:303-322) |
| `core_live` with `unplug`, `watchdog` | `AllRecover` | SAFE_OP with the error flag matches no branch (N:281) |
| `core_live` with `mcureset`, `unplug`, `midway` | `AllRecover` | PRE_OP matches no branch (N:281) |
| `startup`, invariant `~(pc = "terminated" /\ threads)` | itself | SIGINT before `on_shutdown()` is registered: nobody stops the threads, and destroying joinable threads terminates the process (B:444) |
| `shutdown` with `Starts = {"working"}`, `DropsToSafeOp = FALSE` | `ActuatorsReset` | *Late command*: a callback in progress takes the lock after the exit reset (N:222) |
| `shutdown` with `Starts = {"working"}`, `CallbackPending = FALSE` | `ActuatorsReset` | `pre_recover()` has cleared `is_arg_sent_` of a slave that needed no arguments; the exit reset skips it (N:224, N:292) |
| `shutdown` with `Starts = {"recovering"}`, `CallbackPending = FALSE`, `DropsToSafeOp = FALSE` | `ActuatorsReset` | a handshake that ends after the exit reset restores the backup (N:199) |
| `shutdown` with `CallbackFirst = FALSE` | `NodeOutlivesThreads` | `main` lets go of the node before `on_shutdown()` has fetched it (B:445) |
| `reports` with `TaskLists <- MCTwinLists` | `LossReportIsDefault`, `ReportsAreOwn` | *Torn report*: the tasks of two slaves fill one static message in two threads under two locks (B:413) |

And these were met while modelling, and are seen in the source alone:

* A DJI motor with a control type other than 1, 2 or 3 gets not even its control type (`dji_motor.cpp:68`), so that
  the slave reads the bytes behind it wrongly.  A type of task that has no class leaves a null pointer, which is
  called (B:265).  A missing offset of process data is silently 0 (`task_utils.cpp:15`).
* An `sdo_len` that is too small makes the tasks write behind `arg_buf_` (B:176); `config` has such states, which
  `WithinBuffer` excludes by its premise.
* `config/config.yaml` has no `connection_lost_write_action` for its DSHOT task: start-up ends with an exception.
  A type of board the program does not know gets buffers of length 0 (B:112).
* Nothing compares the size of the mapped process data with `IOmap_`, 4096 bytes (N:389).
* The data thread destroys the publishers when it ends (N:246); a checker that notices a loss at that moment
  publishes through a null pointer (N:333).
* Set-points and gains of a DM motor are not clamped: beyond its range a value spills into the neighbouring
  field of the frame (`dm_motor.cpp:217`).  `CountFits` and `MitFieldsAreTheBytes` say when it does not.  The upper end of a
  range is not always all ones: with `pmax_` = 4.0190735 the quotient rounds to just under 65535 and the count is 65534.

## 7. Proofs

The theorems hold for every number of slaves, sets of tasks and commands, argument
length, `MaxStatus` of at least 5, counter width, and every choice of the fault constants that the named
assumptions of the modules allow; TLC evaluates these assumptions on every run.

| theorem | statement | argument |
|---|---|---|
| `EcatMaster_proofs` | | |
| `TypeCorrect` | `Spec => []TypeOK` | inductive by itself; a lemma per member function of the record (in `SlaveDevice_proofs`), one per action |
| `HotRecoveryIsLocal` | `Spec => HealthyUndisturbed` | `HealthyInv`: a slave without faults is seen in OP and is not lost, so the checker never gets past the first test for it; the stages of the data cycle only move forward (`ProcessKeeps`) |
| `HealthySlaveSafe` | `NoPhantom`, `Kept`, `ReportIsReport` for every slave without faults, whatever hits the others | `SoundInv`, see below |
| `NoPhantomWithoutFaults`, `CommandsKeptWithoutFaults`, `ReportsWithoutFaults` | `NoPhantomCommand`, `CommandKept`, `ReportsAreReports` when `FaultySlaves = {}` | corollaries of `HealthySlaveSafe` |
| `ForeignBoardRejected` | `Spec => []ForeignBoardNotOperational` if no SDO read fails | `GuardedInv`: a foreign board is in INIT or PRE_OP, or in SAFE_OP, rejected, and the checker is not about to ask it for OP |
| `EcatMaster_proofs`, slaves that fail | | |
| `EverySlaveInAStage` | `Spec /\ []ReconfigAnswered => []LivesInv` | a slave is untouched or in one of six stages, see below |
| `ReportsThroughRecovery` | `ReportsAreReports` | follows from the stages |
| `OutdatedThroughRecovery` | `OutdatedNotDriven`, if the revision can be read (no `rev`) | `Refused`: such a board has restarted, and `init()` has left `master_status_` beyond the handshake |
| `NoPhantomThroughRecovery` | `NoPhantomCommand`, without `mcureset` | `ContentInv`: what buffer, backup, frames and slave hold, per stage |
| `CommandsKeptThroughRecovery` | `CommandKept`, without `mcureset`, if `CounterHasRoom` | `Remembers`: the buffer of a working slave holds what is meant, and so does the backup of one that is lost |
| `EcatMaster_proofs`, the exchange of arguments | | |
| `HealthySlaveConfigured`, `ConfiguredWithoutFaults` | a slave without faults is driven only with every byte intact (the second: `ConfiguredWhenDriven` when `FaultySlaves = {}`), if clients wait for the handshake | `TransferInv`, see below |
| `TransferImplemented` | `Spec => ArgumentsTransferred` under the same two conditions | every step maps to a `Take`, `Start` or `Stop` of each slave, or to a stutter |
| `ConfiguredThroughRecovery` | `ConfiguredWhenDriven` for slaves that fail, without `mcureset`, if clients wait for the handshake | `CarryingInv`: which arguments slave, echoes and frames may hold, per stage |
| `TransferThroughRecovery` | `ArgumentsTransferred` for slaves that fail, under the same conditions | as above, and a slave that loses its arguments makes a `Lose` |
| `TaskConfig_proofs` | | |
| `ConfigInvariant` | `Spec => []ConfigInv` | `ConfigInv`: what is laid out, and what is not yet, see below |
| `ArgumentsStayInOrder`, `StaysWithinBuffer` | `Spec => []ArgumentsInOrder`, `Spec => []WithinBuffer`, for every document | follow from `ConfigInv` |
| `KnownArgumentsAreComplete` | `Spec => [](SettingsKnown => ArgumentsComplete)`: nothing a task needs is left out, if it has no settings its type does not know | `TasksLaid` and `AllDone`, on top of `ConfigInv`, see below |
| `TasksLaidInvariant` | `Spec => [](TasksLaid /\ AllDone)` | what a task so far is to send is laid out, in `temp_buf_`, or still to come |
| `DocumentsParsedAsWritten` | `Spec => []ParsedAsWritten`, for every list of slaves (`SlaveLists`) | `ParseInv`: what has been said and what `todo` will say make up the document, see below |
| `init_sdoProper` | what the `init_sdo()` of every type may append | piece by piece: no name is listed twice, and the pieces of a motor and of the task have no field in common |
| `Startup_proofs` | | |
| `TypeCorrect` | `Spec => []TypeOK` | inductive |
| `RunsOnlyComplete`, `FirmwareIsChecked`, `AbortsAreExplained` | the three safety properties of start-up | `StartupInv`: per phase, which devices are blank, mapped or done, and where `sw_rev_str_` came from |
| `Shutdown_proofs` | | |
| `ShutdownTypeCorrect` | `Spec => []TypeOK` | inductive |
| `NodeOutlives` | `Spec => []NodeOutlivesThreads` if `CallbackFirst` | `JoinInv`: past a join the thread has stopped, and a stopped thread does not start again |
| `QuietExit` | `Spec => []QuietExitResets` | `QuietInv`: in the quiet case every slave is past its handshake with its arguments sent, the slaves the exit reset has visited hold init values, and so does every stage of the frame that comes after |
| `TaskOutputs_proofs` | | |
| `OutputsKeepTasksApart` | `Spec => TasksKeepApart`, the refinement of `TaskCommands`, for every number and type of tasks with `LayoutAssumption` | see below |
| `TaskReports_proofs` | | |
| `TypeCorrect` | `Spec => []TypeOK` | inductive |
| `LostSlavesAreSilent` | `Spec => []DefaultUntilBack`, also with a type on two slaves | `SilentInv`: the threads are at different slaves, each works only for tasks of the slave it holds, and a task of the checker's slave has been announced or is on its list |
| `ReportsStayOwn` | `Spec => []ReportsAreOwn` if no type is on two slaves, and a type that leaves parts alone while offline (receivers, PMU, depth sensor) is there once | `OwnInv`: a part of a message in the making is own already, is yet to be filled, or was left alone by a task that is the only one of its type |
| `AnnouncementsAreWhole` | `Spec => []LossReportIsDefault` if no type is on two slaves | `WholeInv`: what the list has filled in so far is default, and no other thread is at a task of the type |
| `Codec_proofs` | | |
| `UnsignedReadBack`, `SignedReadBack`, `NeighboursKept` | what is written at any offset is read back, and nothing else changes | the bytes are the digits of the number to base 256 |
| `ChannelsAreTheBytes`, `SticksAreTheBytes` | the channels (sticks, switches) and the bytes are the same number, to base 2048 and 256 | each byte is split where a channel ends |
| `CountFits` | values in range fit their fields and keep their order; the ends are 0, and all ones or one less | rounding keeps the order and what is a `float` already; see below |
| `MitFieldsAreTheBytes`, `ReportFieldsAreTheBytes` | the fields of a frame do not touch | the same splitting |

`SoundInv` is needed because `NoPhantomCommand` speaks of the outputs the slave holds, which say
nothing about where they came from.  Wherever a status of at least 3 is seen (the slave's own, in the process image, in
the record, in the frame to be sent, in what the slave received), the master has left
the handshake, the buffer beside it is clean and the echo beside it is a report; and
a device past the handshake holds init values or the latest commands.  With the handshake left
only once, because of `HealthyInv`, this is inductive.  These theorems allow lost frames of the whole
line, commands at any time (`QuietHandshake` FALSE) and faults of the other
slaves at any time.

`TransferInv` is needed because an echo is compared by index and value only, and may be as old as a lost frame.  The
slave holds every byte before the master's index and none behind it; wherever an echo of
byte *j* is seen (in the slave, in the process image, in the record) the slave holds *j*; and a frame that says
SENDING_ARGUMENTS, wherever it is, carries nothing at its head or an argument not beyond the index.  So an
old echo confirms only what is true, and an old frame brings only what is there.

*Through recovery.*  The theorems that end in `ThroughRecovery` hold after any number of faults, of any slaves, in whatever
order; faults may also hit a slave on its way back, up to `init()`.  Their hypotheses, `Recoverable` (`~FaultsInHandshake` and `SleepCoversCycle`) and
`[]ReconfigAnswered`, are those of section 5.  They are not there for convenience: for each of them, and for the absence of
`rev` and `mcureset`, a row of section 6 or a violation of section 4 shows a property that fails without it.  (Whether
`ConfiguredThroughRecovery` needs the absence of `mcureset` is open: TLC finds no violation with it, but the invariant speaks of
arguments in order.)  That they can be met together is what `core_recover` shows, whose executions go through every
stage.

The difficulty is that nothing in the program says where in a recovery a slave is: `master_status_`, `is_ready_`, `islost`, the
state the checker read at the beginning of its round, and up to five copies of the slave's status (its own, in
the process image, in the record, in the frame to be sent, and the master's status the slave received) change at different
times in different threads, and most combinations of them are wrong.  `LivesInv` lists the right
ones.  A slave is always in one of six stages:

* *Configuring*: `init()` has accepted the board, `reset_state()` is still to come;
* *Waiting*: in SAFE_OP, reset; the process image, the record and the frame are replaced one after the other by the first
  two frames that come back (`InputFresh`, `RecordFresh`, `OutputFresh`);
* *Requesting*: the checker asks for OP, and nothing of the time before the loss is left;
* *Handshaking*: in OP, arguments under way, nobody has said READY or more;
* *Confirming*: the chain frame, slave, image, record, in which each place says READY or CONFIRM_READY only if the one before it does;
* *Serving*: past the handshake, and so is a slave that is hit or lost until `init()` accepts it again; no 2 is left anywhere, so
  READY and SENDING_ARGUMENTS can no longer be mistaken for each other.

The other invariants say, stage by stage, what the data beside these statuses are: `Refused` for outdated boards, `ContentInv` for
command bytes (init values, published commands or, only between `init()` and the confirmation, arguments),
`Remembers` for commands to be given back, `CarryingInv` for arguments and echoes (`TransferInv` from `Handshaking` on, with
what an old echo may say before that).

*Configuration.*  `NamesAssumption` says that the sections of tasks, and those of motors, have different names, which
they have because a number is part of them (`app_1`, `motor2`); nothing is assumed of the document.  `ConfigInv` says of the front of `arg_buf_` and the
piece in `temp_buf_` together (`SoFar`) that they are `Laid`: the task count, then whole fields of the tasks `1` to `Done`, in order.  To keep that, a
field about to be appended must not be there yet; therefore `ConfigInv` also says that no field `init_sdo()` has yet to
append is laid out (`Unused`), which rests on `init_sdoProper` and on keys of different tasks being different
(`TaskKeysDiffer`).  `LaidExtended` is the step: one more field of the task, or the type of the next.  `StaysWithinBuffer` is a
counting argument: bytes that are laid out are different from each other and are all of argument settings, so there are no more of them
than `ArgumentBytes` (`LaidFits`, by an injection).  Once the index is beyond the end, nothing is claimed of what is
written there, only that the front keeps its order.

*Completeness.*  `ArgumentsComplete` is false of arbitrary documents: a setting that no `init_sdo()` asks for, or the settings of
a DJI motor whose control type does not exist (section 6), are never sent.  `SettingsKnown` says which documents are meant:
each task has only the argument settings of its type (`ArgumentSettings`, a table of the fourteen types), the
control type of an enabled DJI motor is 1, 2 or 3, and an LK motor that listens to the broadcast has no packet id of its own.
Every complete configuration of the run `config` is such a document.  `SettingsAppended` is the part about the tasks: type by
type (`Covers_DSHOT` to `Covers_DD_MOTOR`), each of these settings is appended by `init_sdo()` or idle.  The rest is that the
steps bring every appended field into the buffer (`TasksLaid`: it is laid out, or it is still among the operations),
whole and of every task (`AllDone`).

*The parser.*  `parse_map()` keeps no record of what it has read, so `ParseInv` says there is a sequence `done` of settings such that
`done` and what the entries of `todo` say (`Says`, flattened) are together `Settings`, and `fields_` holds the last of each name
in `done` (`HoldsLast`).  `Settings` and `Nested` are nested flattenings of the document in different orders of nesting, for documents of any
size; that they agree takes induction over the length of a sequence.  `AllNumbers` and `AllSequences` give it for a set in place of a predicate,
from the well-foundedness of `<`; with them `Piled` opens the recursive function in `FlattenSeq`, and `FlatJoined` and `SpreadFlat` say
how flattening goes together with concatenation and with itself.  The theorem is about the documents of `SlaveLists(V)`: a list of
slaves, each with scalars, lists of tasks and nodes that are passed over, each task with scalars, with any keys, tags and values;
another document that is a sequence would mean something `Settings` does not describe.  `MCTaskConfig` assumes, and TLC finds,
that all documents of the runs are of this form.

*Outputs.*  The inductive part is small (`OutputsInv`: the buffers keep their length); what makes the refinement true is what
the bytes of a task look like.  `TasksAreShaped` shows for each type that `init_value()` either writes every byte
`on_command()` writes, or clears the flag of the only motor, so that no byte of a command is heeded after it (`HeededDefault`).
`TasksStayInTheirArea` and `AreasApart` turn `LayoutAssumption` into what is needed of two tasks: neither's bytes are
among those the other one obeys.  A step of the argument phase changes nothing that counts, because the buffer that counts is then
the backup, or the init values.

*Counts.*  `CountFits` holds for every rounding to nearest (`RoundingsExist`: there are some), every range up to 2^104 wide,
beyond which the product might overflow, and up to 16 bits.  `RoundingGrows` and `RoundingKeeps` make the whole conversion
monotonic, so that only the upper end is left.  `FloatNearby` finds a `float` less than half a span from the exact product, the product
without its lowest bits; therefore the rounded product is as near (`ProductNearby`), and the quotient, rounded once more, is less than one
from the highest count (`QuotientNearby`).  `SetHoldsAll` is the induction that opens the recursive function `pow2`.

Each proof has a step per action of the model; PTL combines the invariants with the specification.

*Only model-checked:*

* `AllRecover`, `StartupDecides` and `ShutdownCompletes`: liveness under fairness is out
  of the prover's reach.
* What happens to a slave that is hit in its handshake or during its reconfiguration, beyond what section 6 shows to go wrong.
* `ArgumentsComplete` for a configuration in which a task has settings that its type does not know; the faulty ones of the run `config`
  that get as far as "configured" have none.

## 8. Not modelled

* `sys_utils.cpp`: CPU affinity, priorities, interrupts, NIC; calls of the operating system before the data cycle begins, whose
  failures are logged.  `logger_utils.cpp`: logging.
* Floats and half floats in `io_utils.cpp` (the wire formats, not the arithmetic of `float_to_uint()`): they are bit patterns that no decision depends on, and the conversion of a
  half float (powers of two of a variable exponent) is out of the reach of the provers.
* The scaling of sensor and command values, message stamps, latency and diagnostic messages.
* `init()` with `sdo_len = 0` (section 5).
* SOEM, the firmware, ROS, yaml-cpp: modelled from how the code uses them, external.
