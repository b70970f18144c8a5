\* One client, as clients share nothing, with every request.
CONSTANTS
    Clients = {c1}
    Requests <- AllRequests
    Garbled <- GarbledRequests
    NObjects = 3
    EdsTypes = {"INTEGER16", "VISIBLE_STRING"}
    Answers <- NodeAnswers
    Decimal <- DecimalWords
    Hexadecimal <- HexadecimalWords
    URL_INDEX_MAX = 5
SPECIFICATION FairSpec
INVARIANT ClientsAccounted RequestsUnderstood 
  
CHECK_DEADLOCK FALSE
