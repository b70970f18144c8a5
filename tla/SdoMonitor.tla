----------------------------- MODULE SdoMonitor -----------------------------
(***************************************************************************)
(* The traffic monitor (dump.c) on the bus of an SDO client and a server:  *)
(* it sees every frame in the order of the bus, tells by its identifier    *)
(* what object it is (canopen.c), and prints a line for it; from the       *)
(* frames of a segmented transfer it puts together the data transferred.   *)
(*                                                                         *)
(* A line is what it says and not how it is laid out.  A frame that the    *)
(* receiver loses, the monitor may see or not.                             *)
(***************************************************************************)
EXTENDS SdoLink

CONSTANTS NodeId,         \* the node of the server
          OtherIds,       \* identifiers of frames that are not of the transfers
          Filters,        \* sets of objects that the monitor may be started for
          DeviceTypeMux   \* the multiplexer of object 0x1000

ASSUME SdoMonitorAssumption ==
    /\ NodeId \in 1..127
    /\ OtherIds \subseteq 0..2047

VARIABLES options_,    \* the objects of which lines are printed
          node_state,  \* struct node_state of the server's node
          line         \* what was printed for the last frame, if this step was one

monitorVars == <<options_, node_state, line>>

-----------------------------------------------------------------------------
(* Identifiers. *)

\* The first identifier of each object that nodes have one of.
canopen_range ==
    [TPDO1 |-> 384, RPDO1 |-> 512, TPDO2 |-> 640, RPDO2 |-> 768, TPDO3 |-> 896,
     RPDO3 |-> 1024, TPDO4 |-> 1152, RPDO4 |-> 1280, TSDO |-> 1408, RSDO |-> 1536,
     HEARTBEAT |-> 1792]

Msg(object, id) == [object |-> object, id |-> id]

canopen_get_object_type(cob) ==
    CASE cob = 0 -> Msg("NMT", 0)
      [] cob = 128 -> Msg("SYNC", 0)
      [] cob = 256 -> Msg("TIMESTAMP", 0)
      [] cob \in 129..255 -> Msg("EMCY", cob - 128)
      [] OTHER ->
           LET S == {o \in DOMAIN canopen_range :
                       cob \in canopen_range[o]..(canopen_range[o] + 127)} IN
           IF S = {} THEN Msg("UNSPEC", cob)
           ELSE LET o == CHOOSE o \in S : TRUE IN Msg(o, cob - canopen_range[o])

-----------------------------------------------------------------------------
(* Lines. *)

\* What the filters of co_dump call the objects.
FilterOf(object) ==
    CASE object \in {"TSDO", "RSDO"} -> "SDO"
      [] object \in {"TPDO1", "RPDO1"} -> "PDO1"
      [] object \in {"TPDO2", "RPDO2"} -> "PDO2"
      [] object \in {"TPDO3", "RPDO3"} -> "PDO3"
      [] object \in {"TPDO4", "RPDO4"} -> "PDO4"
      [] OTHER -> object

AllFilters == {"NMT", "SYNC", "TIMESTAMP", "EMCY", "PDO1", "PDO2", "PDO3", "PDO4",
               "SDO", "HEARTBEAT"}

resolve_filters(options) == IF options = {} THEN AllFilters ELSE options

NoLine == [what |-> "none", object |-> "UNSPEC", id |-> 0, mux |-> NoMux, data |-> <<>>]

\* data are those of a whole transfer, or what an emergency is explained by.
Line(msg, what, mux, data) ==
    [what |-> what, object |-> msg.object, id |-> msg.id, mux |-> mux, data |-> data]

node_state_init == [current_mux |-> NoMux, sdo_data |-> <<>>, device_type |-> Zeros(4)]

\* Bytes from the first one up to the size, of which the length is a bound.
ExpeditedData(cf) ==
    LET max_size == cf.dlc - SDO_EXPEDIATED_DATA_IDX
        size == IF sdo_is_size_indicated(cf)
                THEN Minimum(sdo_get_expediated_size(cf), max_size) ELSE max_size
    IN  SubSeq(cf.data, 1, size)

\* Mutant: the data of the transfer before are kept.
InitKeepsData(msg, cf) ==
    /\ node_state' = [node_state EXCEPT !.current_mux = cf.mux]
    /\ line' = Line(msg, "init", cf.mux, <<>>)

\* dump_sdo_dl_init_req, dump_sdo_ul_init_res: the data are cleared if their size
\* is indicated in a full frame.
InitSegmented(msg, cf) ==
    LET cleared == sdo_is_size_indicated(cf) /\ cf.dlc = CAN_MAX_DLC IN
    /\ node_state' = [node_state EXCEPT !.current_mux = cf.mux,
                                        !.sdo_data = IF cleared THEN <<>> ELSE @]
    /\ line' = Line(msg, "init", cf.mux, <<>>)

dump_sdo_dl_init_req(msg, cf) ==
    IF ~sdo_is_expediated(cf) THEN InitSegmented(msg, cf)
    ELSE /\ line' = Line(msg, "transfer", cf.mux, ExpeditedData(cf))
         /\ UNCHANGED node_state

\* The device type is that of the last upload of object 0x1000.
dump_sdo_ul_init_res(msg, cf) ==
    IF ~sdo_is_expediated(cf) THEN InitSegmented(msg, cf)
    ELSE LET data == ExpeditedData(cf) IN
         /\ line' = Line(msg, "transfer", cf.mux, data)
         /\ node_state' =
              IF cf.mux # DeviceTypeMux THEN node_state
              ELSE [node_state EXCEPT !.device_type =
                      [i \in 1..4 |-> IF i <= Len(data) THEN data[i] ELSE @[i]]]

\* dump_sdo_dl_seg_req, dump_sdo_ul_seg_res: all that the frame has room for is
\* data; mux is what is kept of the multiplexer after the end of the transfer.
DumpSegment(msg, cf, mux) ==
    LET all == node_state.sdo_data \o SubSeq(cf.data, 1, cf.dlc - SDO_SEGMENT_IDX) IN
    /\ line' = IF sdo_is_end_segment(cf)
               THEN Line(msg, "transfer", node_state.current_mux, all)
               ELSE Line(msg, "segment", node_state.current_mux, <<>>)
    /\ node_state' = [node_state EXCEPT
                         !.sdo_data = all,
                         !.current_mux = IF sdo_is_end_segment(cf) THEN mux ELSE @]

dump_sdo_dl_seg_req(msg, cf) == DumpSegment(msg, cf, NoMux)
dump_sdo_ul_seg_res(msg, cf) == DumpSegment(msg, cf, node_state.current_mux)

\* The lines that say no more than what kind of frame it is.
Say(msg, what, mux) == line' = Line(msg, what, mux, <<>>) /\ UNCHANGED node_state

dump_rsdo(msg, cf) ==
    CASE cf.cs = SDO_CCS_DL_INIT_REQ -> dump_sdo_dl_init_req(msg, cf)
      [] cf.cs = SDO_CCS_DL_SEG_REQ -> dump_sdo_dl_seg_req(msg, cf)
      [] cf.cs = SDO_CCS_UL_INIT_REQ -> Say(msg, "init", cf.mux)
      [] cf.cs = SDO_CCS_UL_SEG_REQ -> Say(msg, "segment", NoMux)
      [] cf.cs = SDO_ABORT_CS -> Say(msg, "abort", cf.mux)
      [] OTHER -> Say(msg, "unknown", NoMux)

dump_tsdo(msg, cf) ==
    CASE cf.cs = SDO_SCS_DL_INIT_RES -> Say(msg, "init", NoMux)
      [] cf.cs = SDO_SCS_DL_SEG_RES -> Say(msg, "segment", NoMux)
      [] cf.cs = SDO_SCS_UL_INIT_RES -> dump_sdo_ul_init_res(msg, cf)
      [] cf.cs = SDO_SCS_UL_SEG_RES -> dump_sdo_ul_seg_res(msg, cf)
      [] cf.cs = SDO_ABORT_CS -> Say(msg, "abort", cf.mux)
      [] OTHER -> Say(msg, "unknown", NoMux)

\* An emergency is explained by the device type that the node is known to have.
dump_emcy(msg, cf) ==
    /\ line' = IF cf.dlc = 0 THEN Line(msg, "empty", NoMux, <<>>)
               ELSE Line(msg, "error", NoMux, node_state.device_type)
    /\ UNCHANGED node_state

\* dump_nmt, dump_sync, dump_timestamp
DumpService(msg) == Say(msg, "service", NoMux)

dump_pdo(msg) == Say(msg, "pdo", NoMux)

dump_heartbeat(msg) == Say(msg, "heartbeat", NoMux)

\* A frame of an object that no line is printed of leaves no trace.
multiplex(cob, cf) ==
    LET msg == canopen_get_object_type(cob)
        printed == FilterOf(msg.object) \in options_
        Is(objects) == printed /\ msg.object \in objects
    IN  /\ UNCHANGED options_
        /\ \/ ~printed /\ line' = NoLine /\ UNCHANGED node_state
           \/ Is({"RSDO"}) /\ dump_rsdo(msg, cf)
           \/ Is({"TSDO"}) /\ dump_tsdo(msg, cf)
           \/ Is({"EMCY"}) /\ dump_emcy(msg, cf)
           \/ Is({"NMT", "SYNC", "TIMESTAMP"}) /\ DumpService(msg)
           \/ Is({"HEARTBEAT"}) /\ dump_heartbeat(msg)
           \/ Is({"TPDO1", "TPDO2", "TPDO3", "TPDO4", "RPDO1", "RPDO2", "RPDO3", "RPDO4"})
              /\ dump_pdo(msg)

-----------------------------------------------------------------------------
(* The bus with its monitor. *)

RSDO == canopen_range["RSDO"] + NodeId
TSDO == canopen_range["TSDO"] + NodeId

co_dump ==
    /\ options_ \in {resolve_filters(f) : f \in Filters}
    /\ node_state = node_state_init
    /\ line = NoLine

MonitorInit == Init /\ co_dump

\* The frame that a step takes off the bus, to deliver or to lose it, is seen.
FromClient == toSrv # <<>> /\ toSrv' = Tail(toSrv)
FromServer == toCl # <<>> /\ toCl' = Tail(toCl)

run_dumper ==
    \/ FromClient /\ multiplex(RSDO, Head(toSrv))
    \/ FromServer /\ multiplex(TSDO, Head(toCl))
    \/ /\ losses' # losses \/ ~(FromClient \/ FromServer)
       /\ line' = NoLine
       /\ UNCHANGED <<options_, node_state>>

\* Other nodes use the bus between transfers, with a frame each time (bound).
OtherTraffic ==
    /\ Quiet /\ ~cl.running
    /\ line.object \in {"UNSPEC", "TSDO", "RSDO"}
    /\ \E cob \in OtherIds, dlc \in {0, CAN_MAX_DLC} :
          multiplex(cob, [BareSegment(0, 0) EXCEPT !.dlc = dlc])
    /\ UNCHANGED vars

MonitorNext == (Next /\ run_dumper) \/ OtherTraffic

\* The bus delivers what it does not lose, and the main loop runs an expired
\* timer.  While frames keep coming the timer is started anew each time, so
\* only its expiry on an idle bus is certain.
MonitorSpec ==
    /\ MonitorInit
    /\ [][MonitorNext]_<<vars, monitorVars>>
    /\ WF_vars(FeedServer /\ run_dumper)
    /\ WF_vars(FeedClient /\ run_dumper)
    /\ WF_vars(Quiet /\ Timeout /\ run_dumper)

-----------------------------------------------------------------------------
\* The data that the monitor prints for a transfer are the ones transferred, with
\* the multiplexer they belong to, if the transfer starts on an idle bus, loses
\* no frame and has no padded frames: what it saw of transfers before that broke
\* off, or only in part, does not matter.
DumpedAsTransferred ==
    [][ line'.what = "transfer" /\ clean /\ cl.running /\ ~NeedsFullFrame =>
            /\ line'.mux = cl.mux
            /\ line'.data = IF cl.type = "DOWNLOAD" THEN cl.buf ELSE od[cl.mux]
            /\ line'.id = NodeId ]_<<vars, monitorVars>>
=============================================================================
