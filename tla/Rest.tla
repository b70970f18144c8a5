-------------------------------- MODULE Rest --------------------------------
(***************************************************************************)
(* The clients of the REST server (rest.c) and the service that reads and  *)
(* writes objects of nodes for them (sdo-rest.c).  A client is connected,  *)
(* its request arrives in pieces, and it is answered at once, by the       *)
(* callback of an SDO request, or by a work that a worker does; meanwhile  *)
(* it may send more, or hang up.                                           *)
(*                                                                         *)
(* The main loop runs one handler at a time, each of them a step.  Workers *)
(* run sdo_rest__eds_job at the same time.  A socket that was stopped is   *)
(* freed at the end of the iteration, so that other handlers may run in    *)
(* between.  A request is the text that Http parses, of which one item may *)
(* have been garbled on its way, and content that Conversions turns into   *)
(* data.                                                                   *)
(***************************************************************************)
EXTENDS Http, Conversions, FiniteSets

CONSTANTS
    Clients,        \* connections
    Requests,       \* what clients may ask for
    Garbled,        \* those of them whose text may be garbled
    NObjects,       \* objects in an EDS
    EdsTypes,       \* types that an EDS gives to an object
    Answers,        \* data that nodes answer uploads with
    Decimal,        \* the numbers that words of a path spell to the base 10,
    Hexadecimal     \* and to the base 16; other words spell 0

ASSUME RequestsAssumption ==
    /\ Garbled \subseteq Requests
    /\ NObjects \in Nat \ {0}
    /\ EdsTypes \subseteq DOMAIN CANOPEN_TYPES

VARIABLES client    \* struct rest_client, its socket and its SDO request or work

vars == <<client>>

(* request: what the client means; text: the head of its request, as sent,   *)
(*    with the place that is garbled, or 0                                   *)
(* arrived, buffer: how many items of the head and the content were sent,    *)
(*    and were read                                                          *)
(* hungup: the peer closed the connection                                    *)
(* socket: what the loop does with the socket                                *)
(* job: what was started for the client and still refers to it; "lost" is a  *)
(*    request whose callback will never be called                            *)
(* type, sent, answer: the type of the object, the data of the download, the *)
(*    data that the node answered an upload with and the text sent for them  *)
(* objects: how many objects the worker has written                          *)
(* status: of the last reply                                                 *)
(* replies, late: history; replies sent, and whether one went to a stream    *)
(*    that was closed                                                        *)
NoClient ==
    [request |-> CHOOSE r \in Requests : TRUE, text |-> <<>>, garbled |-> 0,
     arrived |-> 0, buffer |-> 0, req |-> NoRequest,
     hungup |-> FALSE, readable |-> FALSE, socket |-> "none", state |-> "START",
     ref |-> 0, output |-> FALSE, job |-> "none", type |-> "UNKNOWN", sent |-> NoData,
     answer |-> <<>>, objects |-> 0, status |-> 0, replies |-> 0, late |-> FALSE]

Init == client = [c \in Clients |-> NoClient]

Set(c, x) == client' = [client EXCEPT ![c] = x]

\* All that the peer sends.
Stream(x) == x.text \o x.request.content

\* The text of a request with item i garbled, if that is not 0.
Garble(r, i) == IF i = 0 THEN Text(r) ELSE [Text(r) EXCEPT ![i] = Mark("junk")]
Places(r) == {0} \cup IF r \in Garbled THEN 1..Len(Text(r)) ELSE {}

\* http_req_parse for all that it may be called with, the head and what was read
\* of the content, as a table.
Parsed ==
    [input \in UNION {{SubSeq(Garble(r, i) \o r.content, 1, n) : i \in Places(r),
                                n \in Len(Text(r))..(Len(Text(r)) + Len(r.content))} :
                      r \in Requests} |-> http_req_parse(input)]

-----------------------------------------------------------------------------
(* The peer. *)

\* All of the request, or a part of it that breaks off near the end of the head.
Send(c) ==
    LET x == client[c]
        n == Len(x.text)
    IN  /\ x.socket # "none" /\ ~x.hungup
        /\ \E i \in {n - 1, n, n + 1, Len(Stream(x))} :
              /\ i > x.arrived /\ i <= Len(Stream(x))
              /\ Set(c, [x EXCEPT !.arrived = i, !.readable = TRUE])

\* The peer hangs up, or sends more than its request.
Hangup(c) ==
    LET x == client[c] IN
    /\ x.socket # "none" /\ ~x.hungup
    /\ Set(c, [x EXCEPT !.hungup = TRUE, !.readable = TRUE])

SendMore(c) ==
    LET x == client[c] IN
    /\ x.socket = "started" /\ x.arrived = Len(Stream(x)) /\ ~x.readable
    /\ Set(c, [x EXCEPT !.readable = TRUE])

-----------------------------------------------------------------------------
(* Parts of the handlers: x is a client. *)

rest_client_unref(x) == [x EXCEPT !.ref = @ - 1]

\* rest_reply by any of the functions that reply and set the state.
Reply(x, status) ==
    [x EXCEPT !.replies = @ + 1, !.late = @ \/ ~x.output, !.status = status,
              !.state = "DONE"]

\* mloop_socket_stop
Stop(x) == [x EXCEPT !.socket = "stopped"]

sdo_rest__get_type(x) == canopen_type_from_string(http_req_query(x.req, "type"))

\* The types of the object that sdo_rest__get and sdo_rest__put may find: the
\* one that is asked for, or else that of the EDS of the node ...
TypesFound(x) ==
    IF sdo_rest__get_type(x) # "UNKNOWN" THEN {sdo_rest__get_type(x)} ELSE EdsTypes

\* ... unless there is none, or the object is not in it or has no such access.
sdo_rest__get_eds_obj(x) ==
    IF sdo_rest__get_type(x) # "UNKNOWN" THEN {}
    ELSE {Reply(x, 500), Reply(x, 404), Reply(x, 400)}

\* The request is queued and refers to the client, or the queue is full and the
\* client is told.
StartRequest(x) == {[x EXCEPT !.job = "sdo", !.ref = @ + 1], Reply(x, 500)}

sdo_rest__get(x) ==
    sdo_rest__get_eds_obj(x)
    \cup UNION {StartRequest([x EXCEPT !.type = type]) : type \in TypesFound(x)}

\* A string is freed before the request copies it, which may take anything.
sdo_rest__put(x, content) ==
    LET Start(type) ==
          LET data == canopen_data_fromstring(type, string_trim(content)) IN
          IF data = NoData THEN {Reply(x, 500)}
          ELSE UNION {StartRequest([x EXCEPT !.type = type, !.sent = d]) :
                        d \in IF canopen_type_is_string(type) THEN {data, [freed |-> TRUE]}
                              ELSE {data}}
    IN  sdo_rest__get_eds_obj(x) \cup UNION {Start(type) : type \in TypesFound(x)}

\* strtoul
Spelled(word, numbers) == IF word \in DOMAIN numbers THEN numbers[word] ELSE 0

IsNode(word) == Spelled(word, Decimal) \in 1..127

sdo_rest__convert_path(url) == IsNode(url[2]) /\ Spelled(url[3], Hexadecimal) >= 4096

\* Mutant: a work that does not start does not refer to the client; freeing
\* its context gives a reference back all the same.
SendEdsUnreferenced(x) ==
    {[x EXCEPT !.job = "queued", !.ref = @ + 1], [Reply(x, 500) EXCEPT !.job = "over"]}

\* There may be no EDS.  A work that could not be started still has to be freed
\* with its context, which gives the reference back.
sdo_rest__send_eds(x) ==
    LET y == [x EXCEPT !.ref = @ + 1] IN
    IF ~IsNode(x.req.url[2]) THEN {Reply(x, 404)}
    ELSE {Reply(x, 500), [y EXCEPT !.job = "queued"], [Reply(y, 500) EXCEPT !.job = "over"]}

sdo_rest_service(x, content) ==
    CASE Len(x.req.url) = 2 /\ x.req.method = "GET" -> sdo_rest__send_eds(x)
      [] Len(x.req.url) < 4 /\ ~(Len(x.req.url) = 2 /\ x.req.method = "GET") ->
            {Reply(x, 404)}
      [] OTHER -> CASE ~sdo_rest__convert_path(x.req.url) -> {Reply(x, 404)}
                    [] x.req.method = "GET" -> sdo_rest__get(x)
                    [] OTHER -> sdo_rest__put(x, content)

\* The services, the latest first: co_master_run registers one.
rest_register_service(list, methods, path) ==
    <<[method |-> methods \cup {"OPTIONS"}, path |-> path]>> \o list

rest_service_list_ == rest_register_service(<<>>, {"GET", "PUT"}, "sdo")

rest__service_is_match(service, req) ==
    req.method \in service.method /\ Len(req.url) > 0 /\ req.url[1] = service.path

\* Whether rest__find_service finds one.
rest__find_service(req) ==
    \E i \in 1..Len(rest_service_list_) :
        rest__service_is_match(rest_service_list_[i], req)

\* The end of rest__process_content and of rest__handle_get.
Service(x, content) ==
    IF rest__find_service(x.req)
    THEN sdo_rest_service([x EXCEPT !.state = "SERVICING"], content)
    ELSE {Reply(x, 404)}

\* The lengths are 0 as long as the parser did not come to them.
rest__have_full_content(x) == x.buffer >= x.req.header_length + x.req.content_length

rest__process_content(x) ==
    IF rest__have_full_content(x)
    THEN Service(x, SubSeq(SubSeq(Stream(x), 1, x.buffer), x.req.header_length + 1,
                           x.req.header_length + x.req.content_length))
    ELSE {x}

rest__handle_get(x) ==
    IF x.req.url = <<>> THEN {Reply(x, 200)} ELSE Service(x, <<>>)

rest__handle_options(x) ==
    IF x.req.url = <<>> \/ x.req.url[1] = "*" \/ rest__find_service(x.req)
    THEN {Reply(x, 200)} ELSE {Reply(x, 404)}

\* The switch at the end of rest__handle_header.
HandleMethod(x) ==
    CASE x.req.method = "GET" -> rest__handle_get(x)
      [] x.req.method = "PUT" -> rest__process_content([x EXCEPT !.state = "CONTENT"])
      [] x.req.method = "OPTIONS" -> rest__handle_options(x)
      [] OTHER -> {x}

\* rest__read: an end of file counts more than what was read before it.
ReadAll(x) == [x EXCEPT !.buffer = x.arrived, !.readable = FALSE]

\* rest__read_head: whether an empty line was read.
HasHead(x) ==
    \E i \in 1..(x.buffer - 3) :
        \A j \in 0..3 : Stream(x)[i + j] = Mark(IF j % 2 = 0 THEN "cr" ELSE "lf")

\* A request that cannot be parsed stops the socket, and is handled like
\* another as far as it was parsed.
rest__handle_header(x) ==
    LET y == ReadAll(x)
        parsed == Parsed[SubSeq(Stream(y), 1, y.buffer)]
        z == [y EXCEPT !.req = parsed.req]
    IN  CASE x.hungup -> {Stop(x)}
          [] ~x.hungup /\ ~HasHead(y) -> {y}
          [] OTHER -> HandleMethod(IF parsed.rc = 0 THEN z ELSE Stop(z))

rest__handle_content(x) ==
    IF x.hungup THEN {Stop(x)} ELSE rest__process_content(ReadAll(x))

rest__handle_junk(x) ==
    {IF x.hungup THEN Stop(x) ELSE [x EXCEPT !.readable = FALSE]}

-----------------------------------------------------------------------------
(* The handlers of the main loop. *)

rest__on_connection(c) ==
    /\ client[c].socket = "none"
    /\ \E r \in Requests : \E i \in Places(r) :
          Set(c, [NoClient EXCEPT
                    !.request = r, !.garbled = i, !.socket = "started", !.ref = 1,
                    !.output = TRUE, !.text = Garble(r, i)])

rest__on_client_data(c) ==
    LET x == client[c] IN
    /\ x.socket = "started" /\ x.readable
    /\ \E y \in CASE x.state = "START" -> rest__handle_header(x)
                  [] x.state = "CONTENT" -> rest__handle_content(x)
                  [] x.state = "SERVICING" -> rest__handle_junk(x)
                  [] x.state = "DONE" -> {Stop(x)} :
          Set(c, y)

\* mloop__collect frees the socket, and that calls rest__on_socket_free.
rest__on_socket_free(c) ==
    LET x == client[c] IN
    /\ x.socket = "stopped"
    /\ Set(c, rest_client_unref([x EXCEPT !.socket = "freed", !.output = FALSE,
                                          !.state = "DISCONNECTED"]))

\* on_sdo_rest_upload_done, on_sdo_rest_download_done: the request failed, or a
\* download is over, or the data that were uploaded are sent as a text.
OnSdoRestDone(c) ==
    LET x == client[c]
        Uploaded(data) ==
          LET text == canopen_data_tostring(x.type, data) IN
          IF text = NoText THEN Reply(x, 500)
          ELSE [Reply(x, 200) EXCEPT !.answer = <<data, text>>]
        outcomes == {Reply(x, 500)}
                    \cup (IF x.req.method = "PUT" THEN {Reply(x, 200)}
                          ELSE {Uploaded(data) : data \in Answers})
    IN  /\ x.job = "sdo"
        /\ \E y \in IF x.state = "DISCONNECTED" THEN {x} ELSE outcomes :
              Set(c, rest_client_unref([y EXCEPT !.job = "none"]))

\* unload_driver flushes the queue of the node: the request goes, and nobody
\* tells the client.
sdo_req_queue_flush(c) ==
    /\ client[c].job = "sdo"
    /\ Set(c, [client[c] EXCEPT !.job = "lost"])

\* The done function of the work; one that was cancelled is not called.
sdo_rest__eds_job_done(c) ==
    LET x == client[c] IN
    /\ x.job = "done"
    /\ Set(c, [(IF x.state = "DISCONNECTED" THEN x ELSE Reply(x, 200)) EXCEPT !.job = "over"])

\* Mutant: a work that was cancelled is not freed.
FreeUnlessCancelled(c) ==
    /\ client[c].job = "over"
    /\ Set(c, rest_client_unref([client[c] EXCEPT !.job = "none"]))

\* The work is freed, with its context.
sdo_rest__eds_job_free(c) ==
    /\ client[c].job \in {"over", "cancelled"}
    /\ Set(c, rest_client_unref([client[c] EXCEPT !.job = "none"]))

-----------------------------------------------------------------------------
(* The worker: sdo_rest__eds_job. *)

EdsStart(c) ==
    /\ client[c].job = "queued"
    /\ Set(c, [client[c] EXCEPT !.job = "running"])

\* An object is written; reading its value takes an SDO transfer.
EdsObject(c) ==
    LET x == client[c] IN
    /\ x.job = "running"
    /\ x.objects = 0 \/ x.state # "DISCONNECTED"
    /\ x.objects < NObjects
    /\ Set(c, [x EXCEPT !.objects = @ + 1])

\* Mutant: the work of a client that waits for it is cancelled too.
CancelUnlessDone(c) ==
    LET x == client[c] IN
    /\ x.job = "running"
    /\ x.objects \in 1..(NObjects - 1)
    /\ x.state # "DONE"
    /\ Set(c, [x EXCEPT !.job = "cancelled"])

\* Before each object but the first the worker looks at the client.
EdsCancel(c) ==
    LET x == client[c] IN
    /\ x.job = "running"
    /\ x.objects \in 1..(NObjects - 1)
    /\ x.state = "DISCONNECTED"
    /\ Set(c, [x EXCEPT !.job = "cancelled"])

EdsEnd(c) ==
    LET x == client[c] IN
    /\ x.job = "running"
    /\ x.objects = NObjects
    /\ Set(c, [x EXCEPT !.job = "done"])

-----------------------------------------------------------------------------
Peer(c) == Send(c) \/ Hangup(c) \/ SendMore(c)

MainLoop(c) ==
    \/ rest__on_client_data(c) \/ rest__on_socket_free(c)
    \/ OnSdoRestDone(c) \/ sdo_rest__eds_job_done(c) \/ sdo_rest__eds_job_free(c)

sdo_rest__eds_job(c) == EdsStart(c) \/ EdsObject(c) \/ EdsCancel(c) \/ EdsEnd(c)

Next ==
    \E c \in Clients :
        \/ Peer(c) \/ rest__on_connection(c) \/ MainLoop(c)
        \/ sdo_req_queue_flush(c) \/ sdo_rest__eds_job(c)

Spec == Init /\ [][Next]_vars

\* The main loop handles what is ready, workers go on, and SDO requests end
\* (SdoReq shows that).  Nothing is assumed of the peer.
FairSpec ==
    /\ Spec
    /\ \A c \in Clients :
          /\ WF_vars(rest__on_client_data(c)) /\ WF_vars(rest__on_socket_free(c))
          /\ WF_vars(OnSdoRestDone(c))
          /\ WF_vars(sdo_rest__eds_job_done(c)) /\ WF_vars(sdo_rest__eds_job_free(c))
          /\ WF_vars(sdo_rest__eds_job(c))

-----------------------------------------------------------------------------
(* Properties. *)

Freed(c) == client[c].socket # "none" /\ client[c].ref = 0

\* Types; a client is in one of the states that rest__on_client_data expects as
\* long as its socket can call it.
TypeOK ==
    \A c \in Clients :
        LET x == client[c] IN
        /\ x.buffer \in 0..Len(Stream(x))
        /\ x.ref \in 0..2
        /\ x.replies \in Nat
        /\ x.socket \in {"none", "started", "stopped", "freed"}
        /\ x.job \in {"none", "sdo", "lost", "queued", "running", "done", "over",
                      "cancelled"}
        /\ x.state \in {"START", "CONTENT", "SERVICING", "DISCONNECTED", "DONE"}
        /\ x.socket = "started" => x.state # "DISCONNECTED"

\* Each reference of a client is that of its socket or of what was started for
\* it: while a worker or a request may use a client it is not freed, and none
\* is given back twice, whenever the peer hangs up.
RefCounted ==
    \A c \in Clients :
        client[c].ref =
            (IF client[c].socket \in {"started", "stopped"} THEN 1 ELSE 0)
          + (IF client[c].job # "none" THEN 1 ELSE 0)

\* A client is answered at most once, and never on the stream that
\* rest__on_socket_free has closed, though requests and works end long after
\* their client has gone, or after the failure to start them was reported.
AnsweredOnce == \A c \in Clients : client[c].replies <= 1 /\ ~client[c].late

\* What is started for a well-formed request has all of it, however it arrives:
\* a download never starts with a part of its content.
CompleteBeforeService ==
    \A c \in Clients :
        (client[c].job = "sdo" /\ client[c].req.method = "PUT" /\ client[c].garbled = 0) =>
            client[c].buffer = Len(Stream(client[c]))

\* How a request may be answered.
StatusOf(r) ==
    LET known == r.path # <<>> /\ r.path[1] = "sdo"
        typed == canopen_type_from_string(http_req_query(r, "type")) # "UNKNOWN"
    IN  CASE r.method = "OPTIONS" ->
               {IF known \/ r.path = <<>> \/ r.path[1] = "*" THEN 200 ELSE 404}
          [] r.method = "GET" /\ r.path = <<>> -> {200}
          [] r.method = "GET" /\ known /\ Len(r.path) = 2 ->
               IF IsNode(r.path[2]) THEN {200, 500} ELSE {404}
          [] OTHER ->
               IF ~known \/ Len(r.path) < 4 THEN {404}
               ELSE IF ~sdo_rest__convert_path(r.path) THEN {404}
               ELSE {200, 500} \cup IF typed THEN {} ELSE {400, 404}

\* A request that arrives whole is understood as it was meant, in whatever pieces
\* it comes: its method, path, queries, lengths and type are those the client
\* wrote, unless the path is longer than URL_INDEX_MAX, and its answer has a
\* status that fits what was asked for.
RequestsUnderstood ==
    \A c \in Clients :
        LET x == client[c] IN
        x.garbled = 0 =>
            /\ (x.req # NoRequest /\ Len(x.request.path) <= URL_INDEX_MAX) =>
                  Understood(x.request, x.req)
            /\ x.replies > 0 => x.status \in StatusOf(x.request)

\* The number of a type that bytes of its size are.
ValueOf(type, bytes) ==
    CHOOSE n \in {byteorder2(bytes), byteorder2(bytes) - 256^Len(bytes)} :
        n \in RangeOf(type)

\* A number reaches a node as the client wrote it if it is one of the type, and
\* is never sent without its sign; and what a node answers with all the bytes of
\* the type reaches the client.  A request that was garbled writes nothing else
\* to a node than what it was meant to write.
NumbersKept ==
    \A c \in Clients :
        LET x == client[c]
            written == string_trim(x.request.content)
        IN  /\ (x.job = "sdo" /\ x.req.method = "PUT" /\ Integer(x.type)) =>
                 /\ x.request.method = "PUT"
                 /\ IsNumber(written)
                 /\ Len(x.sent.bytes) = canopen_type_size(x.type)
                 /\ written[1].n \in RangeOf(x.type) =>
                        ValueOf(x.type, x.sent.bytes) = written[1].n
                 /\ canopen_type_is_unsigned_integer(x.type) => written[1].n >= 0
            /\ (x.answer # <<>> /\ Integer(x.type)) =>
                 LET data == x.answer[1] IN
                 Len(data.bytes) = canopen_type_size(x.type) =>
                    x.answer[2] = NumberText(ValueOf(x.type, data.bytes))

\* A client that is being serviced is answered or has gone, with one exception:
\* sdo_req_queue_flush drops its request without a call of on_done.
ServicedIsAnswered ==
    \A c \in Clients :
        client[c].state = "SERVICING" ~>
            client[c].state \in {"DONE", "DISCONNECTED"} \/ client[c].job = "lost"

\* A client that hangs up is freed, whatever was started for it and whatever
\* becomes of that, unless its request was flushed, which keeps its reference.
GoneIsFreed ==
    \A c \in Clients : client[c].hungup ~> Freed(c) \/ client[c].job = "lost"

\* Clients are accounted for: each reference has a holder, what was started for a
\* client has all of its request, and each is answered once, on an open stream.
ClientsAccounted == TypeOK /\ RefCounted /\ CompleteBeforeService /\ AnsweredOnce
=============================================================================
