------------------------------ MODULE ArgTransfer ------------------------------
(***************************************************************************)
(* What the exchange of arguments promises to every slave, without the bus: *)
(* it gets its argument bytes one by one, from the first to the last and    *)
(* each as it was configured; its application is driven only when it has    *)
(* got them all; and when it loses them, it is given all of them again      *)
(* before it is driven the next time.  EcatMaster implements this.          *)
(***************************************************************************)
EXTENDS Naturals

CONSTANTS Slaves, ArgLen

VARIABLES
    got,      \* got[s][i]: what slave s has for byte i, "none" or "good"
    driven    \* driven[s]: do the outputs drive its application?

vars == <<got, driven>>

None == [i \in 1 .. ArgLen |-> "none"]
All == [i \in 1 .. ArgLen |-> "good"]

Init == got = [s \in Slaves |-> None] /\ driven = [s \in Slaves |-> FALSE]

(* One slave's part of a step.                                              *)
Take(s, i) ==
    /\ got[s] = [j \in 1 .. ArgLen |-> IF j < i THEN "good" ELSE "none"]
    /\ got'[s] = [got[s] EXCEPT ![i] = "good"]
    /\ driven'[s] = driven[s]

Start(s) == got[s] = All /\ driven'[s] /\ got'[s] = got[s]
Stop(s) == ~driven'[s] /\ got'[s] = got[s]
Lose(s) == ~driven'[s] /\ got'[s] = None

(* One frame reaches all slaves, so several may take a step at once.        *)
Next ==
    /\ got' = [s \in Slaves |-> got'[s]] /\ driven' = [s \in Slaves |-> driven'[s]]
    /\ \A s \in Slaves : (\E i \in 1 .. ArgLen : Take(s, i)) \/ Start(s) \/ Stop(s) \/ Lose(s)

Spec == Init /\ [][Next]_vars
=============================================================================
