----------------------------- MODULE MCSockets -----------------------------
(***************************************************************************)
(* Three users of the same sockets (sock.c), each in behaviours of its     *)
(* own: the trace buffer that a master's socket fills, the master's search *)
(* for nodes, and the bridge to TCP.                                       *)
(***************************************************************************)
EXTENDS TraceBuffer, NetProbe, CanTcp

VARIABLE study

allvars == <<vars, probevars, bridgevars, study>>

\* All nodes, a range of several nodes and a range of one.
MCRanges == {<<0, 0>>, <<2, 3>>, <<2, 2>>}

MCInit ==
    /\ study \in {"trace", "probe", "bridge"}
    /\ Init
    /\ IF study = "probe" THEN ProbeInit("begin")
       ELSE /\ ProbeInit("done")
            /\ range = <<0, 0>>
            /\ object = "heartbeat"
    /\ BridgeInit(IF study = "bridge" THEN {"server", "client"} ELSE {"server"})

MCNext ==
    \/ study = "trace" /\ Next /\ UNCHANGED <<probevars, bridgevars, study>>
    \/ study = "probe" /\ ProbeNext /\ UNCHANGED <<vars, bridgevars, study>>
    \/ study = "bridge" /\ BridgeNext /\ UNCHANGED <<vars, probevars, study>>

MCSpec == MCInit /\ [][MCNext]_allvars /\ ProbeFairness /\ BridgeFairness

=============================================================================
