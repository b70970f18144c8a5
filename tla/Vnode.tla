------------------------------- MODULE Vnode -------------------------------
(***************************************************************************)
(* The virtual nodes of canopen-vnode (vnode.c): their creation, their NMT *)
(* state, their heartbeat, node guarding and SDO server.  All nodes of a   *)
(* process share one configuration file and one socket, and run in one     *)
(* main loop, so the handler of a frame is one step.  A client sends node  *)
(* Served any SDO frame at any time; the other nodes receive none.         *)
(***************************************************************************)
EXTENDS SdoSrv

CONSTANTS
    NNodes,         \* the size of the table vnode__node
    Ids,            \* the node ids of the command line, in order
    Configs,        \* what the section [device] of the file may say
    Served,         \* the node whose SDO server is srv
    Incoming,       \* the SDO frames a client may send
    MaxBuffer       \* bound: bytes after which the client sends nothing more

Config == [have_node_guarding : BOOLEAN, have_guard_status_bug : BOOLEAN,
           bootup_method : SUBSET {"STANDARD", "LEGACY"}]

ASSUME VnodeAssumption ==
    /\ Ids \in Seq(1..NNodes) /\ Served \in {Ids[k] : k \in 1..Len(Ids)}
    /\ Configs \subseteq Config
    /\ Incoming \subseteq Frame /\ MaxBuffer \in Nat
    /\ NNodes \in Nat /\ Byte \subseteq 0..255
    /\ Period \in DOMAIN Objects => Objects[Period] = <<0, 0>>

VARIABLES
    config,         \* the configuration of the process
    created,        \* how many of Ids have been created
    exited,         \* a node could not be created, the process ended
    node,           \* vnode__node
    sent            \* the frames that the last handler sent, SDO aside

processVars == <<config, created, exited>>
vars == <<processVars, node, sent, serverVars>>

Commands == {"START", "STOP", "ENTER_PREOPERATIONAL", "RESET_NODE",
             "RESET_COMMUNICATION"}

\* beat is the period that the heartbeat timer is armed with, 0 if it is stopped.
Empty == [is_running |-> FALSE, nodeid |-> 0, state |-> "BOOTUP", beat |-> 0]

Init ==
    /\ config \in Configs
    /\ created = 0
    /\ exited = FALSE
    /\ node = [i \in 1..NNodes |-> Empty]
    /\ sent = <<>>
    /\ sdo_srv_init

\* Object 0x1017 exists in a node with a heartbeat, and is its period: a 16 bit
\* number, the low byte first, which is 0 in a node that received no SDO frame.
have_heartbeat == Period \in DOMAIN od

heartbeat_period(i, objects) ==
    IF i = Served /\ have_heartbeat
    THEN objects[Period][1] + 256 * objects[Period][2] ELSE 0

Running == created = Len(Ids) /\ ~exited

-----------------------------------------------------------------------------
(* What the handlers are made of: self is a struct vnode. *)

\* A node with the status bug reports state 0, which is BOOTUP.
vnode__send_state(self) ==
    [id |-> self.nodeid, object |-> "HEARTBEAT",
     state |-> IF config.have_guard_status_bug THEN "BOOTUP" ELSE self.state]

vnode__send_legacy_bootup(self) ==
    [id |-> self.nodeid, object |-> "EMCY", state |-> "BOOTUP"]

Standard == "STANDARD" \in config.bootup_method

vnode__reset_communication(self) ==
    IF Standard THEN [self EXCEPT !.state = "PREOPERATIONAL"] ELSE self

BootupFrames(self) ==
    IF Standard THEN <<vnode__send_state([self EXCEPT !.state = "BOOTUP"])>> ELSE <<>>

\* mloop_timer_start leaves a timer alone that is running.
vnode__start_heartbeat_timer(self, period) ==
    IF have_heartbeat /\ self.state = "OPERATIONAL" /\ period # 0 /\ self.beat = 0
    THEN [self EXCEPT !.beat = period] ELSE self

\* Mutant: the timer is started without being stopped first.
RestartRunning(self, period) == vnode__start_heartbeat_timer(self, period)

vnode__restart_heartbeat_timer(self, period) ==
    vnode__start_heartbeat_timer([self EXCEPT !.beat = 0], period)

\* The state of a node after an NMT command for it.
vnode__nmt(self, cs) ==
    CASE cs = "START" ->
            vnode__start_heartbeat_timer([self EXCEPT !.state = "OPERATIONAL"],
                                         heartbeat_period(self.nodeid, od))
      [] cs = "STOP" -> [self EXCEPT !.state = "STOPPED", !.beat = 0]
      [] cs = "ENTER_PREOPERATIONAL" -> [self EXCEPT !.state = "PREOPERATIONAL"]
      [] OTHER -> vnode__reset_communication([self EXCEPT !.beat = 0])

NmtFrames(self, cs) ==
    IF cs \in {"RESET_NODE", "RESET_COMMUNICATION"} THEN BootupFrames(self) ELSE <<>>

-----------------------------------------------------------------------------
(* Start-up: init_nodes and co_vnode_new. *)

NextId == Ids[created + 1]

co_vnode_new ==
    LET self == [Empty EXCEPT !.nodeid = NextId] IN
    /\ created < Len(Ids) /\ ~exited
    /\ created' = created + 1
    /\ node' = [node EXCEPT ![NextId] =
                  [vnode__reset_communication(self) EXCEPT !.is_running = TRUE]]
    /\ sent' = (IF "LEGACY" \in config.bootup_method
                THEN <<vnode__send_legacy_bootup(self)>> ELSE <<>>)
               \o BootupFrames(self)
    /\ UNCHANGED <<config, exited, serverVars>>

\* The socket, the file or the timer fails: init_nodes destroys the nodes that
\* were created, and main returns.
init_nodes_failure ==
    /\ created < Len(Ids) /\ ~exited
    /\ exited' = TRUE
    /\ node' = [i \in 1..NNodes |-> [node[i] EXCEPT !.is_running = FALSE]]
    /\ sent' = <<>>
    /\ UNCHANGED <<config, created, serverVars>>

-----------------------------------------------------------------------------
(* vnode__on_frame, called by vnode__mux for each frame. *)

\* An NMT command for one node; a node that does not exist ignores it.
NmtToNode(cs, i) ==
    /\ Running
    /\ IF node[i].nodeid = i
       THEN /\ node' = [node EXCEPT ![i] = vnode__nmt(node[i], cs)]
            /\ sent' = NmtFrames(node[i], cs)
       ELSE /\ sent' = <<>>
            /\ UNCHANGED node
    /\ UNCHANGED <<processVars, serverVars>>

\* An NMT command with node id 0.  The loop over the nodes returns at the end
\* of its first round.
NmtToAll(cs) ==
    /\ Running
    /\ IF node[1].is_running
       THEN /\ node' = [node EXCEPT ![1] = vnode__nmt(node[1], cs)]
            /\ sent' = NmtFrames(node[1], cs)
       ELSE /\ sent' = <<>>
            /\ UNCHANGED node
    /\ UNCHANGED <<processVars, serverVars>>

\* A request for the state of a node (node guarding).
vnode__heartbeat(i) ==
    /\ Running
    /\ node[i].nodeid = i
    /\ sent' = IF config.have_node_guarding THEN <<vnode__send_state(node[i])>> ELSE <<>>
    /\ UNCHANGED <<processVars, node, serverVars>>

\* What the frame that was just fed ended is a download of the period, or one
\* that the client aborted, whose on_done runs as well.
PeriodWritten ==
    /\ srv'.type = "DOWNLOAD" /\ srv'.mux = Period
    /\ srv'.comm = "INIT_REQ" /\ srv'.status \in {"OK", "REMOTE_ABORT"}

vnode__rsdo(cf) ==
    /\ Running
    /\ toCl = <<>> /\ Len(srv.buf) <= MaxBuffer
    /\ sdo_srv_feed(cf)
    /\ node' = IF PeriodWritten
               THEN [node EXCEPT ![Served] = vnode__restart_heartbeat_timer(node[Served],
                                                heartbeat_period(Served, od'))]
               ELSE node
    /\ sent' = <<>>
    /\ UNCHANGED <<processVars>>

\* The bus takes what the SDO server sent.
Transmit ==
    /\ toCl # <<>>
    /\ toCl' = Tail(toCl)
    /\ UNCHANGED <<processVars, node, sent, srv, od>>

\* The heartbeat timer of a node expires; it is periodic.
vnode__on_heartbeat(i) ==
    /\ Running
    /\ node[i].beat # 0
    /\ sent' = <<vnode__send_state(node[i])>>
    /\ UNCHANGED <<processVars, node, serverVars>>

Next ==
    \/ co_vnode_new
    \/ init_nodes_failure
    \/ \E cs \in Commands : NmtToAll(cs)
    \/ \E i \in 1..NNodes :
          \/ \E cs \in Commands : NmtToNode(cs, i)
          \/ vnode__heartbeat(i)
          \/ vnode__on_heartbeat(i)
    \/ \E cf \in Incoming : vnode__rsdo(cf)
    \/ Transmit

Spec == Init /\ [][Next]_vars

-----------------------------------------------------------------------------
(* Properties. *)

\* The values of a uint16_t.
Word == {n \in Nat : n < 65536}

\* Types; in particular frames are sent with the id of a node.
TypeOK ==
    /\ config \in Config
    /\ created \in 0..Len(Ids)
    /\ node \in [1..NNodes ->
           [is_running : BOOLEAN, nodeid : 0..NNodes,
            state : {"BOOTUP", "STOPPED", "OPERATIONAL", "PREOPERATIONAL"},
            beat : Word]]
    /\ \A k \in 1..Len(sent) : sent[k].id \in 1..NNodes
    /\ srv \in SdoServer
    /\ od \in [DOMAIN Objects -> Seq(Byte)]
    /\ toCl \in Seq(Frame)

\* A node that boots up the standard way sends heartbeats whenever it is
\* operational and has a period, in whatever order it was started, stopped and
\* reset and SDO transfers that set its period were made, broken off or refused.
OperationalBeats ==
    \A i \in 1..NNodes :
        (/\ node[i].is_running
         /\ Standard
         /\ node[i].state = "OPERATIONAL"
         /\ heartbeat_period(i, od) # 0) => node[i].beat # 0

\* A timer that runs was armed with the period that an upload of object 0x1017
\* would read now, and a node that is stopped does not send heartbeats.
BeatsAtPeriod ==
    \A i \in 1..NNodes : node[i].beat # 0 =>
        /\ node[i].beat = heartbeat_period(i, od)
        /\ node[i].state # "STOPPED"

\* While segments of an upload are asked for there is one left to send (the
\* assertion size > 0 in sdo_srv__ul_seg_req), and they are cut from the value
\* the object holds, whatever requests and aborts came before.
UploadFromObject ==
    srv.comm = "UL_SEG_REQ" =>
        /\ srv.type = "UPLOAD"
        /\ srv.pos < Len(srv.buf)
        /\ srv.mux \in DOMAIN od
        /\ srv.buf = od[srv.mux]

\* No sequence of frames changes an object that vnode__on_sdo_init refuses to
\* have written: not one aborted half way, whose on_done runs with the
\* multiplexer and the buffer of the request that was refused.
ReadOnlyKept ==
    \A m \in DOMAIN Objects \ (Store \union {Period}) : od[m] = Objects[m]

\* While a download collects segments, on_init has let its object be written.
DownloadWasAccepted ==
    srv.comm = "DL_SEG_REQ" =>
        srv.type = "DOWNLOAD" /\ srv.mux \in Store \union {Period}

\* A frame is answered by one frame, and only an abort may go unanswered, so
\* the client's answers stay in step with its requests.
OneAnswer ==
    [][ toCl = <<>> /\ srv' # srv =>
            \/ Len(toCl') = 1
            \/ toCl' = <<>> /\ srv'.status = "REMOTE_ABORT" ]_vars

\* The heartbeat timer runs when it should, at the period that was last written.
HeartbeatTimer == OperationalBeats /\ BeatsAtPeriod

\* A transfer in progress is one that on_init has accepted, whatever requests
\* and aborts came before: it cuts its segments from the value of its object,
\* or may be stored in it; an object that is only read keeps its value.
TransfersAccepted ==
    TypeOK /\ UploadFromObject /\ DownloadWasAccepted /\ ReadOnlyKept
=============================================================================
