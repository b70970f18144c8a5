-------------------------------- MODULE Cfg --------------------------------
(***************************************************************************)
(* The configuration (cfg.c): defaults, the section "master" of the file,  *)
(* the options of the command line (master-main.c), and, each time that    *)
(* the driver of a node is loaded (master.c), the settings of the node,    *)
(* which the file gives for its id, for its name or for all nodes, and     *)
(* which the master's own settings replace.  They end in the quirks of     *)
(* the SDO client of the node.                                             *)
(*                                                                         *)
(* Settings that are handled alike have one representative each.           *)
(***************************************************************************)
EXTENDS Ini

CONSTANTS
    CfgNodes,       \* node ids
    NodeNames,      \* names of nodes; "" is none
    OptionPeriods   \* heartbeat periods that may be given as an option

VARIABLES
    cfgfile,        \* the lines of the file, or Absent
    ini,            \* what was parsed of it
    is_initialised,
    cfg,            \* the settings of the master
    cfgnode,        \* name, settings and quirks of a node
    cfgphase        \* how far main has come

cfgvars == <<cfgfile, ini, is_initialised, cfg, cfgnode, cfgphase>>

\* CFG__PARAMETERS and CFG__NODE_PARAMETERS: types and defaults.
MasterDefaults == [be_strict |-> 0, heartbeat_period |-> 0, n_timeouts_max |-> 2]
NodeDefaults ==
    [ignore_sdo_multiplexer |-> 1, send_full_sdo_frame |-> 0, heartbeat_period |-> 10000,
     n_timeouts_max |-> 0]

IsBool(key) == key \in {"be_strict", "ignore_sdo_multiplexer", "send_full_sdo_frame"}

\* Values are written as texts or numbers; a text is 0 to strtoll, and whatever
\* is not "yes" is no.
CFG__STRTO(key, v) ==
    IF IsBool(key) THEN IF v = [text |-> "yes"] THEN 1 ELSE 0
    ELSE IF "number" \in DOMAIN v THEN v.number ELSE 0

\* What reading a key makes of a setting; found is what the file has.
Assign(setting, key, found) ==
    {IF v = Absent THEN setting ELSE CFG__STRTO(key, v) : v \in found}

CfgInit(lines) ==
    /\ cfgfile = lines
    /\ ini = EmptyIni
    /\ is_initialised = FALSE
    /\ cfg = MasterDefaults
    /\ cfgnode = [n \in CfgNodes |-> [name |-> "", settings |-> NodeDefaults,
                                      quirks |-> {}, phase |-> "new"]]
    /\ cfgphase = "defaults"

-----------------------------------------------------------------------------
(* main *)

\* A file that cannot be opened, or parsed, is not used; what was parsed of it
\* stays in ini.
cfg_load_file ==
    /\ cfgphase = "defaults"
    /\ IF cfgfile = Absent THEN UNCHANGED <<ini, is_initialised>>
       ELSE /\ ini' = ini_parse(cfgfile)
            /\ is_initialised' = (ini'.lineno = 0)
    /\ cfgphase' = IF is_initialised' THEN "globals" ELSE "options"
    /\ UNCHANGED <<cfgfile, cfg, cfgnode>>

cfg_load_globals ==
    /\ cfgphase = "globals"
    /\ \E i \in ini_find_section(ini, Named("master")) :
          LET Read(k) == Assign(cfg[k], k, ini_find_key(ini.section[i], k)) IN
          IF i = Absent THEN cfg' = cfg
          ELSE cfg' \in [be_strict: Read("be_strict"),
                         heartbeat_period: Read("heartbeat_period"),
                         n_timeouts_max: Read("n_timeouts_max")]
    /\ cfgphase' = "options"
    /\ UNCHANGED <<cfgfile, ini, is_initialised, cfgnode>>

\* The loop over the options, and sdo_req_queues_init with the quirks of all nodes.
ParseOptions ==
    /\ cfgphase = "options"
    /\ \E strict \in BOOLEAN, period \in OptionPeriods \cup {Absent} :
         cfg' = [cfg EXCEPT !.be_strict = IF strict THEN 1 ELSE @,
                            !.heartbeat_period = IF period = Absent THEN @ ELSE period]
    /\ cfgnode' = [n \in CfgNodes |-> [cfgnode[n] EXCEPT !.quirks =
            IF cfg'.be_strict = 1 THEN {} ELSE {"IGNORE_MULTIPLEXER", "NEEDS_FULL_FRAME"}]]
    /\ cfgphase' = "running"
    /\ UNCHANGED <<cfgfile, ini, is_initialised>>

-----------------------------------------------------------------------------
(* Loading the driver of a node. *)

cfg__get_by_nodeid(n, key) == ini_find(ini, [nodeid |-> n], key)

cfg__get_by_name(name, key) ==
    IF name = "" THEN {Absent} ELSE ini_find(ini, [name |-> name], key)

\* Mutant: what is set for all nodes comes before what is set for a name.
FileReadAllFirst(n, name, key) ==
    IF ~is_initialised THEN {Absent}
    ELSE IF Absent \notin cfg__get_by_nodeid(n, key) THEN cfg__get_by_nodeid(n, key)
    ELSE IF Absent \notin ini_find(ini, Named("all"), key) THEN ini_find(ini, Named("all"), key)
    ELSE cfg__get_by_name(name, key)

cfg__file_read(n, name, key) ==
    IF ~is_initialised THEN {Absent}
    ELSE IF Absent \notin cfg__get_by_nodeid(n, key) THEN cfg__get_by_nodeid(n, key)
    ELSE IF Absent \notin cfg__get_by_name(name, key) THEN cfg__get_by_name(name, key)
    ELSE ini_find(ini, Named("all"), key)

\* Settings of the master that are not zero replace those of the node.
Override(s) ==
    [s EXCEPT !.ignore_sdo_multiplexer = IF cfg.be_strict = 1 THEN 0 ELSE @,
              !.heartbeat_period = IF cfg.heartbeat_period # 0 THEN cfg.heartbeat_period ELSE @,
              !.n_timeouts_max = IF cfg.n_timeouts_max # 0 THEN cfg.n_timeouts_max ELSE @]

cfg_load_node(n, name) ==
    LET Read(k) == Assign(NodeDefaults[k], k, cfg__file_read(n, name, k)) IN
    {Override(s) : s \in [ignore_sdo_multiplexer: Read("ignore_sdo_multiplexer"),
                          send_full_sdo_frame: Read("send_full_sdo_frame"),
                          heartbeat_period: Read("heartbeat_period"),
                          n_timeouts_max: Read("n_timeouts_max")]}

apply_quirks(s) ==
    (IF s.ignore_sdo_multiplexer = 1 THEN {"IGNORE_MULTIPLEXER"} ELSE {})
    \cup (IF s.send_full_sdo_frame = 1 THEN {"NEEDS_FULL_FRAME"} ELSE {})

Configure(n, name, phase) ==
    \E s \in cfg_load_node(n, name) :
        cfgnode' = [cfgnode EXCEPT ![n] = [name |-> name, settings |-> s,
                                           quirks |-> apply_quirks(s), phase |-> phase]]

\* load_driver begins, for the first time or after the node was lost, or after an
\* earlier attempt failed: the name of an earlier load is dropped.
LoadDriver(n) ==
    /\ cfgphase = "running"
    /\ Configure(n, "", "asked")
    /\ UNCHANGED <<cfgfile, ini, is_initialised, cfg, cfgphase>>

\* The node has told its name: its settings are read again.
NameKnown(n) ==
    /\ cfgphase = "running" /\ cfgnode[n].phase = "asked"
    /\ \E name \in NodeNames : Configure(n, name, "loaded")
    /\ UNCHANGED <<cfgfile, ini, is_initialised, cfg, cfgphase>>

cfg_unload_file ==
    /\ cfgphase = "running"
    /\ ini' = IF is_initialised THEN EmptyIni ELSE ini
    /\ is_initialised' = FALSE
    /\ cfgphase' = "stopped"
    /\ UNCHANGED <<cfgfile, cfg, cfgnode>>

CfgNext ==
    \/ cfg_load_file \/ cfg_load_globals \/ ParseOptions \/ cfg_unload_file
    \/ \E n \in CfgNodes : LoadDriver(n) \/ NameKnown(n)

-----------------------------------------------------------------------------
(* Properties. *)

\* The value that the lines of the file give to a setting of a node: the one for
\* its id, else for its name, else for all nodes, else the default.
MostSpecific(n, key) ==
    LET lines == IF cfgfile # Absent /\ WellFormed(cfgfile) THEN cfgfile ELSE <<>>
        Value(i) == Written(lines, <<[nodeid |-> n], [name |-> cfgnode[n].name],
                                     Named("all")>>[i], key)
        S == {i \in 1..3 : Value(i) # {}}
    IN  IF S = {} THEN {NodeDefaults[key]}
        ELSE {CFG__STRTO(key, v) : v \in Value(CHOOSE i \in S : \A j \in S : i <= j)}

\* A master that is strict compares the multiplexers of all answers, from the
\* first request of a node on, whatever the file says of the node.
StrictIsStrict ==
    cfgphase = "running" /\ cfg.be_strict = 1 =>
        \A n \in CfgNodes : "IGNORE_MULTIPLEXER" \notin cfgnode[n].quirks

\* A node that is loaded has the settings that the file gives it, whatever the
\* order of the lines and whatever its earlier names: of a file that cannot be
\* parsed it has none, not even those before the error.  A setting of the master
\* comes first, and a strict one before the first node is loaded.
ConfiguredAsWritten ==
    /\ StrictIsStrict
    /\ \A n \in CfgNodes :
           cfgnode[n].phase = "loaded" =>
               LET s == cfgnode[n].settings IN
               /\ s.send_full_sdo_frame \in MostSpecific(n, "send_full_sdo_frame")
               /\ s.heartbeat_period \in (IF cfg.heartbeat_period # 0 THEN {cfg.heartbeat_period}
                                          ELSE MostSpecific(n, "heartbeat_period"))
               /\ s.n_timeouts_max \in (IF cfg.n_timeouts_max # 0 THEN {cfg.n_timeouts_max}
                                        ELSE MostSpecific(n, "n_timeouts_max"))
               /\ s.ignore_sdo_multiplexer \in (IF cfg.be_strict = 1 THEN {0}
                                        ELSE MostSpecific(n, "ignore_sdo_multiplexer"))
=============================================================================
