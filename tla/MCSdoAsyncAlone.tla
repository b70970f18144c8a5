--------------------------- MODULE MCSdoAsyncAlone --------------------------
EXTENDS SdoAsyncAlone

Numbered(n) == [i \in 1..n |-> i % 4]

\* Sizes around the limits of an expedited transfer and of a segment.
MCRequests ==
    {[type |-> "UPLOAD", mux |-> 1, data |-> <<>>]} \union
    {[type |-> "DOWNLOAD", mux |-> 1, data |-> Numbered(n)] :
         n \in {0, 1, 4, 5, 7, 8, 14, 15}}

\* Every specifier, toggle and end bit, with sizes and lengths at the limits.
MCIncoming ==
    {[cs |-> cs, t |-> t, n |-> n, e |-> e, mux |-> mux, data |-> Zeros(7),
      dlc |-> dlc, code |-> IF cs = SDO_ABORT_CS THEN "REMOTE" ELSE NoCode] :
         cs \in 0..5, t \in Bit, n \in {0, 1, 7}, e \in Bit, mux \in {1, 2},
         dlc \in {0, 3, 4, 8}}
=============================================================================
