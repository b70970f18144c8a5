---- MODULE MCMaster ----
(* Setups of Master for model checking. *)
EXTENDS Master

\* Drivers initialise, with and without a guard, until the program is stopped.
GuardedAndStopped ==
    [Present |-> Nodes, Guarded |-> {1}, n_timeouts_max |-> 1, Outcomes |-> {"ok"},
     QuickLoads |-> FALSE, MayStop |-> TRUE, MaxBootups |-> 1]

\* A node, alone, that comes back again and again, guarded whatever becomes of
\* its driver.
BootingOften ==
    [Present |-> {1}, Guarded |-> {1}, n_timeouts_max |-> 0,
     Outcomes |-> {"ok", "fail", "inhibit"},
     QuickLoads |-> TRUE, MayStop |-> FALSE, MaxBootups |-> 2]

\* Drivers that fail or put off their start, and loads that fail at once.
Failing ==
    [Present |-> Nodes, Guarded |-> {}, n_timeouts_max |-> 0,
     Outcomes |-> {"ok", "fail", "inhibit"},
     QuickLoads |-> TRUE, MayStop |-> FALSE, MaxBootups |-> 1]

MCSetups == {GuardedAndStopped, BootingOften, Failing}
====
