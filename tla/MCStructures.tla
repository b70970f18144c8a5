--------------------------- MODULE MCStructures ----------------------------
(***************************************************************************)
(* Three studies of what shares nothing: the configuration, the data       *)
(* sheets, kept in trees, and the heap that the jobs wait in.              *)
(***************************************************************************)
EXTENDS Eds, Cfg, Prioq

VARIABLE study

allvars == <<edsvars, cfgvars, prioqvars, study>>

-----------------------------------------------------------------------------
(* Sheets. *)

DeviceInfo(vendor, product, revision, name) ==
    <<Section(Named("deviceinfo")), Pair("vendornumber", vendor),
      Pair("productnumber", product), Pair("revisionnumber", revision),
      Pair("productname", name)>>

ObjectLines(idx, tail, sub, type) ==
    <<Section(ObjectName(idx, tail, sub)), Pair("datatype", type)>>

\* Enough objects for every way to rebalance a tree, one of them twice under
\* different names and once more under the same, and sections that are no objects.
LargeFile ==
    DeviceInfo(1, 1, 10, <<"a">>)
    \o ObjectLines(1, "", Absent, 7) \o ObjectLines(2, "", Absent, 7)
    \o ObjectLines(3, "", Absent, 7) \o ObjectLines(4, "sub", Absent, 7)
    \o ObjectLines(4, "sub", 1, 7) \o ObjectLines(4, "sub", 2, 7)
    \o ObjectLines(4, "sub", 3, 7)
    \o ObjectLines(4, "", Absent, 5) \o ObjectLines(3, "", Absent, 6)
    \o ObjectLines(5, "sub", -1, 7) \o ObjectLines(6, "other", Absent, 7)
    \o <<Section(ObjectName(7, "", Absent)), Pair("accesstype", "rw")>>

SmallFile(product, revision, name) ==
    DeviceInfo(1, product, revision, name) \o ObjectLines(2, "", Absent, 7)

BrokenFile == Append(SmallFile(1, 9, <<"b">>), BrokenSection)
NamelessFile == SubSeq(DeviceInfo(1, 1, 9, <<"b">>), 1, 4)

ManyFiles ==
    {SmallFile(1, 5, <<"a", "b">>), SmallFile(1, 8, <<"a">>), SmallFile(2, 5, <<"c">>),
     SmallFile(1, 20, <<"a", "b">>), BrokenFile, NamelessFile}

\* Nodes that are looked up.
Node(vendor, product, revision, name) ==
    [vendor |-> vendor, product |-> product, revision |-> revision, name |-> name]

LookedUp ==
    {Node(v, p, r, <<"a", "b">>) : v \in {0, 1, 2, 17}, p \in {0, 1, 2, 3, 17},
                                       r \in {0, 5, 6, 7, 10, 12, 31}}

-----------------------------------------------------------------------------
(* Configurations: each of the sections may be there or not. *)

yes == [text |-> "yes"]
no == [text |-> "no"]

Choice(S) == S \cup {<<>>}

ConfigFiles ==
    {master \o id \o <<Blank>> \o name \o all :
        master \in Choice({<<Section(Named("master")), Pair("n_timeouts_max", [number |-> 0])>>,
                           <<Section(Named("master")), Pair("be_strict", yes),
                             Pair("heartbeat_period", [number |-> 1])>>}),
        id \in Choice({<<Section([nodeid |-> 1]), Comment, Pair("n_timeouts_max", [number |-> 7]),
                         Pair("heartbeat_period", [number |-> 5])>>}),
        name \in Choice({<<Section([name |-> "x"]), Pair("ignore_sdo_multiplexer", no),
                           Pair("heartbeat_period", [number |-> 6])>>,
                         <<Section([name |-> "x"]), Pair("heartbeat_period", yes), NoPair>>}),
        all \in Choice({<<Section(Named("all")), Pair("ignore_sdo_multiplexer", yes),
                          Pair("send_full_sdo_frame", yes)>>,
                        <<Section(Named("all")), Pair("ignore_sdo_multiplexer", no),
                          Pair("n_timeouts_max", [number |-> 3])>>})}

-----------------------------------------------------------------------------
MCInit ==
    /\ study \in {"configuration", "sheets", "heap"}
    /\ IF study = "configuration" THEN \E lines \in ConfigFiles \cup {Absent} : CfgInit(lines)
       ELSE CfgInit(Absent)
    /\ IF study = "sheets" THEN \E directory \in {{LargeFile}, ManyFiles} : EdsInit(directory)
       ELSE EdsInit({})
    /\ prioq_init

MCNext ==
    \/ study = "configuration" /\ CfgNext /\ UNCHANGED <<edsvars, prioqvars, study>>
    \/ study = "sheets" /\ EdsNext /\ UNCHANGED <<cfgvars, prioqvars, study>>
    \/ study = "heap" /\ PrioqNext /\ UNCHANGED <<edsvars, cfgvars, study>>

MCSpec == MCInit /\ [][MCNext]_allvars

\* NearestSheet for the nodes above: sdo_rest__find_eds gives a node the sheet of
\* its vendor and product that is nearest to its revision.
NearestRevision == study = "sheets" => NearestSheet(LookedUp)
=============================================================================
