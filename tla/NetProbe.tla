------------------------------ MODULE NetProbe ------------------------------
(***************************************************************************)
(* How the master finds the nodes of its network (network.c, run_net_probe *)
(* in master.c): it resets them and collects the boot-up messages, asks    *)
(* those that were not heard for a heartbeat, and collects again.  A wait  *)
(* ends when nothing is left to read and no heartbeat has come for a while.*)
(*                                                                         *)
(* The probe runs in a worker, which may be slow to read.  Time passes in  *)
(* ticks.  The nodes are the environment; a frame is the object of its id  *)
(* (canopen_get_object_type) and its node.                                 *)
(***************************************************************************)
EXTENDS Integers, Sequences

CONSTANTS
    ProbedNodes,    \* the ids of the nodes that are on the bus, of 1..127
    Ranges,         \* the pairs of cfg.range_start and cfg.range_stop
    ResetTicks,     \* 100 ms
    BootDelays,     \* the ticks that a node may take to boot, 0 for never
    ReplyDelays,    \* the ticks that it takes to answer a request
    MaxBeats        \* bound: other frames, and heartbeats that nobody asked for

VARIABLES
    range,          \* cfg.range_start, cfg.range_stop
    object,         \* what the second wait looks for: see co_net_probe
    wait,           \* [pc, timeout, left]: the wait and the time up to t_end
    nodes_seen,
    rx,             \* frames in the socket
    owing,          \* per node: ticks until it sends a frame, or none
    beats,          \* bound: frames sent unasked
    prompt          \* history: the nodes that answer the request in time

probevars == <<range, object, wait, nodes_seen, rx, owing, beats, prompt>>

Nothing == [in |-> -1, object |-> "none"]
CANOPEN_NODEID_MIN == 1
CANOPEN_NODEID_MAX == 127

\* pc is "begin" for a master whose probe is to be looked at, else "done".
ProbeInit(pc) ==
    /\ range \in Ranges
    /\ object \in {"heartbeat", "tsdo"}
    /\ wait = [pc |-> pc, timeout |-> 0, left |-> 0]
    /\ nodes_seen = {}
    /\ rx = <<>>
    /\ owing = [n \in ProbedNodes |-> Nothing]
    /\ beats = 0
    /\ prompt = {}

-----------------------------------------------------------------------------
(* The probe. *)

\* With no range in the configuration all nodes are reset, by one message.
WholeNetwork == range = <<0, 0>>

start == IF WholeNetwork THEN CANOPEN_NODEID_MIN ELSE range[1]
stop == IF WholeNetwork THEN CANOPEN_NODEID_MAX ELSE range[2]

\* Mutant: poll is given what is left, also when that is negative.
NoMax(n) == n

Max0(n) == IF n > 0 THEN n ELSE 0

\* The time given to a range is 100 * (start - stop + 1): it is not positive
\* but for a range of one node, and then the wait takes what is there already.
ResetTimeout ==
    IF WholeNetwork THEN ResetTicks ELSE ResetTicks * (start - stop + 1)

\* Who gets the message NMT_CS_RESET_COMMUNICATION of co_net_send_nmt.
Reset(n) == WholeNetwork \/ n \in start..stop

\* A node that is reset forgets what it was about to send.
co_net_reset ==
    /\ wait.pc = "begin"
    /\ wait' = [pc |-> "reset", timeout |-> ResetTimeout, left |-> Max0(ResetTimeout)]
    /\ \E boots \in [ProbedNodes -> BootDelays] :
         owing' = [n \in ProbedNodes |->
                     IF ~Reset(n) THEN owing[n]
                     ELSE IF boots[n] = 0 THEN Nothing
                     ELSE [in |-> boots[n], object |-> "heartbeat"]]
    /\ UNCHANGED <<range, object, nodes_seen, rx, beats, prompt>>

\* Heard in the first wait is any node of 0..127, or of the range.
Wanted(frame) ==
    /\ (WholeNetwork /\ wait.pc = "reset") \/ frame.node \in start..stop
    /\ frame.object = IF wait.pc = "reset" THEN "heartbeat" ELSE object

\* sock_timed_recv gives a frame: each one that is looked for gives the nodes
\* the whole time again, any other leaves t_end as it is.
co_net__wait_for_bootup ==
    /\ wait.pc \in {"reset", "probe"}
    /\ rx # <<>>
    /\ rx' = Tail(rx)
    /\ IF Wanted(Head(rx))
       THEN /\ nodes_seen' = nodes_seen \union {Head(rx).node}
            /\ wait' = [wait EXCEPT !.left = Max0(wait.timeout)]
       ELSE UNCHANGED <<nodes_seen, wait>>
    /\ UNCHANGED <<range, object, owing, beats, prompt>>

\* Mutant: the time is looked at before the socket.
TimedOutFirst == wait.left = 0

\* poll returns 0: the time is up and there is nothing to read.
TimedOut == rx = <<>> /\ wait.left = 0

\* A request for a heartbeat or for the object 0x1000, by what it has in return;
\* a node that is still booting does not hear it.
Requested(n) == n \in start..stop /\ n \notin nodes_seen /\ owing[n] = Nothing

\* The nodes that have not been heard are asked for a heartbeat (co_net_probe)
\* or for an object (co_net_probe_sdo).
co_net_probe ==
    /\ wait.pc = "reset"
    /\ TimedOut
    /\ wait' = [pc |-> "probe", timeout |-> ResetTicks, left |-> ResetTicks]
    /\ LET heard == {n \in ProbedNodes : Requested(n)} IN
       \E delays \in [heard -> ReplyDelays] :
          /\ owing' = [n \in ProbedNodes |-> IF n \in heard
                          THEN [in |-> delays[n], object |-> object] ELSE owing[n]]
          /\ prompt' = {n \in heard : delays[n] < ResetTicks}
    /\ UNCHANGED <<range, object, nodes_seen, rx, beats>>

run_net_probe_returns ==
    /\ wait.pc = "probe"
    /\ TimedOut
    /\ wait' = [wait EXCEPT !.pc = "done"]
    /\ UNCHANGED <<range, object, nodes_seen, rx, owing, beats, prompt>>

-----------------------------------------------------------------------------
(* The nodes and the time. *)

NodeSends(n) ==
    /\ owing[n].in = 0
    /\ rx' = Append(rx, [node |-> n, object |-> owing[n].object])
    /\ owing' = [owing EXCEPT ![n] = Nothing]
    /\ UNCHANGED <<range, object, wait, nodes_seen, beats, prompt>>

\* A heartbeat of a node that produces them, or a frame of another kind.
Unasked(n) ==
    /\ beats < MaxBeats
    /\ wait.pc # "done"
    /\ owing[n] = Nothing
    /\ beats' = beats + 1
    /\ \E o \in {"heartbeat", "tpdo"} : rx' = Append(rx, [node |-> n, object |-> o])
    /\ UNCHANGED <<range, object, wait, nodes_seen, owing, prompt>>

Tick ==
    /\ wait.pc \in {"reset", "probe"}
    /\ \A n \in ProbedNodes : owing[n].in # 0
    /\ wait.left > 0 \/ \E n \in ProbedNodes : owing[n] # Nothing
    /\ wait' = [wait EXCEPT !.left = Max0(@ - 1)]
    /\ owing' = [n \in ProbedNodes |->
                   IF owing[n] = Nothing THEN Nothing ELSE [owing[n] EXCEPT !.in = @ - 1]]
    /\ UNCHANGED <<range, object, nodes_seen, rx, beats, prompt>>

-----------------------------------------------------------------------------
run_net_probe ==
    co_net_reset \/ co_net__wait_for_bootup \/ co_net_probe \/ run_net_probe_returns

ProbeNext ==
    \/ run_net_probe
    \/ Tick
    \/ \E n \in ProbedNodes : NodeSends(n) \/ Unasked(n)

\* The worker runs, time passes and nodes do what they are about to do.
ProbeFairness ==
    /\ WF_probevars(run_net_probe)
    /\ WF_probevars(Tick)
    /\ \A n \in ProbedNodes : WF_probevars(NodeSends(n))

-----------------------------------------------------------------------------
(* Properties. *)

\* A node that could hear the request and answers it in less than the time
\* given has been seen when the probe is over, whatever else was on the bus and
\* however slowly the worker read; and a node outside of the range that was
\* configured has not, so that no driver is loaded for it.
AnswerersSeen ==
    wait.pc = "done" =>
        /\ prompt \subseteq nodes_seen
        /\ ~WholeNetwork => nodes_seen \subseteq start..stop

\* The probe comes to an end once the heartbeats that nobody asked for do.
ProbeEnds == (wait.pc # "begin") ~> (wait.pc = "done")
=============================================================================
