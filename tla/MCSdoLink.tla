----------------------------- MODULE MCSdoLink ------------------------------
EXTENDS SdoLink, TLC

\* 1 is the heartbeat period, 2 a stored object, 3 and 4 read-only strings of
\* two segments; 5 does not exist.
MCObjects == 1 :> <<9, 9>> @@ 2 :> <<8>> @@ 3 :> <<1, 2, 3, 4, 5, 6, 7, 8>>
             @@ 4 :> <<3, 3, 3, 3, 3, 3, 3, 3>>

Ul(m) == [type |-> "UPLOAD", mux |-> m, data |-> <<>>]
Dl(m, d) == [type |-> "DOWNLOAD", mux |-> m, data |-> d]

TwoSegments == <<2, 3, 4, 5, 6, 7, 8, 9>>

\* Transfers of every kind, with some the node refuses: read-only, over-long
\* and missing objects.
AllRequests == {Ul(1), Ul(2), Ul(3), Ul(4), Ul(5),
                Dl(1, <<5, 6>>), Dl(1, <<1, 1, 1, 1, 1>>),
                Dl(2, <<4>>), Dl(2, <<1, 1, 1, 1, 1>>), Dl(2, TwoSegments),
                Dl(3, <<5>>)}
=============================================================================
