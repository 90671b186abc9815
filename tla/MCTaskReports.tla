----------------------------- MODULE MCTaskReports -----------------------------
(* Instances of TaskReports for TLC: task lists.                            *)
EXTENDS TaskReports

T(type, enabled, reset) == [type |-> type, enabled |-> enabled, reset |-> reset]

(* Two tasks of a type on one slave, no type on two slaves.                 *)
MotorSlaves ==
    << << T("DJI_MOTOR", {1, 2}, TRUE), T("DJI_MOTOR", {2, 4}, FALSE), T("DM_MOTOR", {}, TRUE) >>,
       << T("DD_MOTOR", {1, 3}, FALSE), T("LK_MOTOR", {}, TRUE), T("LK_MOTOR_MULTI", {}, TRUE) >> >>

SensorSlaves ==
    << << T("HIPNUC_IMU_CAN", {}, TRUE), T("DBUS_RC", {}, TRUE), T("PMU_CAN", {}, TRUE) >>,
       << T("SBUS_RC", {}, TRUE), T("MS5837_30BA", {}, FALSE),
          T("VT13_RC", {}, TRUE), T("SUPER_CAP", {}, TRUE) >> >>

(* A type on two slaves.                                                    *)
TwinSlaves ==
    << << T("DJI_MOTOR", {1, 2}, FALSE) >>, << T("DJI_MOTOR", {1}, TRUE) >> >>

MCTaskLists == {MotorSlaves, SensorSlaves}
MCTwinLists == {TwinSlaves}
=============================================================================
