------------------------------ MODULE MCVnode ------------------------------
EXTENDS Vnode, TLC

\* The command line names node 1.
OneId == <<1>>

\* 1 is the heartbeat period, 2 and 3 are read-only, 3 a string of two
\* segments; 4 does not exist.
MCObjects == 1 :> <<0, 0>> @@ 2 :> <<1>> @@ 3 :> <<1, 1, 1, 0, 0, 0, 1, 1>>

\* Boot-up the standard way, and not at all with the other options on.
TwoConfigs ==
    {[have_node_guarding |-> FALSE, have_guard_status_bug |-> FALSE,
      bootup_method |-> {"STANDARD", "LEGACY"}],
     [have_node_guarding |-> TRUE, have_guard_status_bug |-> TRUE,
      bootup_method |-> {}]}

Cf(cs, t, n, e, mux, dlc, byte) ==
    [cs |-> cs, t |-> t, n |-> n, e |-> e, mux |-> mux,
     data |-> [i \in 1..7 |-> byte], dlc |-> dlc,
     code |-> IF cs = SDO_ABORT_CS THEN "REMOTE" ELSE NoCode]

\* The frames that the server tells apart: initiate frames of a download,
\* segmented, or expedited with two bytes or as many as the length says;
\* those of an upload; segments that end a download, of four or seven bytes, or
\* do not end it; segments of an upload; each cut short; aborts; the rest.
MCIncoming ==
    {Cf(SDO_CCS_DL_INIT_REQ, 0, ne[1], ne[2], mux, dlc, 1) :
         ne \in {<<0, 0>>, <<5, 0>>, <<5, 1>>}, mux \in Mux, dlc \in {4, 8}} \union
    {Cf(SDO_CCS_DL_INIT_REQ, 0, 5, 0, Period, 5, byte) : byte \in Byte} \union
    {Cf(SDO_CCS_UL_INIT_REQ, 0, 0, 0, mux, 4, 1) : mux \in Mux} \union
    {Cf(cs, 0, 0, 0, Period, 3, 1) :
         cs \in {SDO_CCS_DL_INIT_REQ, SDO_CCS_UL_INIT_REQ}} \union
    {Cf(SDO_CCS_DL_SEG_REQ, t, ne[1], ne[2], NoMux, dlc, 1) : t \in Bit,
         ne \in {<<0, 0>>, <<0, 1>>, <<3, 1>>}, dlc \in {0, 1, 8}} \union
    {Cf(SDO_CCS_UL_SEG_REQ, t, 0, 0, NoMux, dlc, 1) : t \in Bit, dlc \in {0, 1}} \union
    {Cf(cs, 0, 0, 0, NoMux, 8, 1) : cs \in {SDO_ABORT_CS, 5}}
=============================================================================
