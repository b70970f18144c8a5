------------------------------ MODULE MCDriver ------------------------------
(***************************************************************************)
(* Two studies of the SDO queue of a node: worker threads and callbacks    *)
(* make requests and the queue is flushed at any time; or a driver makes   *)
(* them, and the queue is flushed when the driver is unloaded.             *)
(***************************************************************************)
EXTENDS Driver

CONSTANTS r1, r2, r3, w1

VARIABLE study

ThreeReqs == {r1, r2, r3}
TwoReqs == {r1, r2}
OneWorker == {w1}

allvars == <<vars, drvvars, study>>

MCInit == Init /\ DriverInit /\ study \in {"threads", "driver"}

\* The main loop, as far as it is not in the driver.
MainLoop ==
    \/ MainCheck \/ MainWake \/ OnDoneData \/ EventsDone \/ IdleJob
    \/ sdo_req__process_queue
    \/ \E n \in Nodes, status \in {"OK", "ABORT"} : OnDoneStatus(n, status)

\* Which request is made first makes no difference.
InTurn == (req'[r2].made => req'[r1].made) /\ (req'[r3].made => req'[r2].made)

MCNext ==
    /\ \/ study = "threads" /\ Next /\ UNCHANGED drvvars
       \/ study = "driver" /\ drv.phase # "init" /\ MainLoop /\ UNCHANGED drvvars
       \/ study = "driver" /\ DriverStep
    /\ InTurn
    /\ UNCHANGED study

MCSpec == MCInit /\ [][MCNext]_allvars /\ Fairness
=============================================================================
