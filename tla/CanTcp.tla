------------------------------- MODULE CanTcp -------------------------------
(***************************************************************************)
(* The bridge between a CAN interface and TCP connections (can-tcp.c over  *)
(* sock.c, run by canbridge.c).  A server accepts any number of            *)
(* connections; a client makes one.  What comes in at one end goes out at  *)
(* all the others, by sends that block the only thread while a send buffer *)
(* is full.                                                                *)
(*                                                                         *)
(* A frame is its sender, its number and the byte order of its can_id: in  *)
(* host order on CAN, in network order on TCP.  The machine is little      *)
(* endian, so that htonl and ntohl both turn the order around.             *)
(***************************************************************************)
EXTENDS Integers, Sequences, FiniteSets, FiniteSetsExt

CONSTANTS
    Peers,          \* the far ends of TCP connections
    Can,            \* the CAN interface
    SndBuf,         \* frames a send buffer holds
    BridgeFrames,   \* bound: frames that all far ends send together
    MaxLeaves,      \* bound: far ends that leave
    StartOutcomes   \* what mloop_socket_start may return for a new entry

Ends == Peers \union {Can}

VARIABLES
    bridge,     \* [mode, phase, ref, listening]: the process and struct can_tcp
    entry,      \* per end: its can_tcp_entry, by the state of its mloop_socket
    files,      \* the file descriptors: the end behind each, or none
    fd,         \* per end: the number that its entry has
    inq, outq,  \* per end: frames to be read from it, frames in its send buffer
    hup,        \* per end: whether the far side is gone
    handling,   \* the frame that is being forwarded and to whom it has to go
    sent, got   \* history: the number of the last frame that a far end has sent,
                \* and per other end of the last one it has received from it

bridgevars == <<bridge, entry, files, fd, inq, outq, hup, handling, sent, got>>

Fds == 1..(Cardinality(Ends) + 1)
NoEnd == "none"
Idle == [busy |-> FALSE]

BridgeInit(modes) ==
    /\ \E m \in modes :
         bridge = [mode |-> m, phase |-> "setup", ref |-> 0, listening |-> FALSE]
    /\ entry = [e \in Ends |-> "none"]
    /\ files = [f \in Fds |-> NoEnd]
    /\ fd = [e \in Ends |-> 0]
    /\ inq = [e \in Ends |-> <<>>]
    /\ outq = [e \in Ends |-> <<>>]
    /\ hup = [e \in Ends |-> "no"]
    /\ handling = Idle
    /\ sent = [e \in Ends |-> 0]
    /\ got = [e \in Ends |-> [s \in Ends |-> 0]]

Running == bridge.phase = "running"

-----------------------------------------------------------------------------
(* Entries. *)

\* The kernel gives out the least number that is free.
NewFd == CHOOSE f \in Fds : /\ files[f] = NoEnd
                            /\ \A g \in Fds : files[g] = NoEnd => f <= g

\* LIST_REMOVE comes with the release of the entry: one whose socket is
\* stopped, or did not start, is in the list until the loop collects it.
Listed == {e \in Ends : entry[e] \in {"started", "stopped", "failed"}}

\* The reference to can_tcp is taken after mloop_socket_start, and only if it
\* succeeded; the entry drops it in any case.
can_tcp__add_entry(e, started) ==
    /\ entry' = [entry EXCEPT ![e] = IF started THEN "started" ELSE "failed"]
    /\ bridge' = [bridge EXCEPT !.ref = IF started THEN @ + 1 ELSE @]

can_tcp__unref == bridge' = [bridge EXCEPT !.ref = @ - 1]

\* can_tcp_entry__free closes the descriptor, and mloop_socket_free that calls
\* it closes the same number once more.
can_tcp_entry__free(e) ==
    /\ Running
    /\ ~handling.busy
    /\ entry[e] \in {"stopped", "failed"}
    /\ entry' = [entry EXCEPT ![e] = "freed"]
    /\ files' = [files EXCEPT ![fd[e]] = NoEnd]
    /\ can_tcp__unref
    /\ UNCHANGED <<fd, inq, outq, hup, handling, sent, got>>

-----------------------------------------------------------------------------
(* Setting up. *)

\* Whether a descriptor is returned; one that was opened on the way to a
\* failure is closed again.
sock_open == BOOLEAN
open_tcp_server == BOOLEAN
can_tcp_open == BOOLEAN

\* canbridge ends when an end cannot be set up.
SetUpFails ==
    /\ bridge' = [bridge EXCEPT !.phase = "failed"]
    /\ UNCHANGED <<entry, files, fd>>

\* The CAN socket, the listening socket with its handler, which is the first
\* user of can_tcp, and the entry of the CAN socket.
can_tcp_bridge_server ==
    /\ bridge.phase = "setup"
    /\ bridge.mode = "server"
    /\ \E can \in sock_open, tcp \in open_tcp_server, memory \in BOOLEAN :
         IF can /\ tcp /\ memory
         THEN /\ bridge' = [bridge EXCEPT !.phase = "running", !.ref = 2,
                                          !.listening = TRUE]
              /\ entry' = [entry EXCEPT ![Can] = "started"]
              /\ files' = [files EXCEPT ![1] = Can, ![2] = "listen"]
              /\ fd' = [fd EXCEPT ![Can] = 1]
         ELSE SetUpFails
    /\ UNCHANGED <<inq, outq, hup, handling, sent, got>>

\* Both ends are there from the start, and nothing but them holds can_tcp.
can_tcp_bridge_client ==
    /\ bridge.phase = "setup"
    /\ bridge.mode = "client"
    /\ \E can \in sock_open, tcp \in can_tcp_open, memory \in BOOLEAN, p \in Peers :
         IF can /\ tcp /\ memory
         THEN /\ bridge' = [bridge EXCEPT !.phase = "running", !.ref = 2]
              /\ entry' = [entry EXCEPT ![Can] = "started", ![p] = "started"]
              /\ files' = [files EXCEPT ![1] = Can, ![2] = p]
              /\ fd' = [fd EXCEPT ![Can] = 1, ![p] = 2]
         ELSE SetUpFails
    /\ UNCHANGED <<inq, outq, hup, handling, sent, got>>

\* A connection; without memory for it, it is closed at once.  When its socket
\* does not start, the number is closed here, while the entry waits for the
\* collector that closes it again.
can_tcp__on_connection(p) ==
    /\ Running
    /\ bridge.listening
    /\ ~handling.busy
    /\ entry[p] = "none"
    /\ \/ \E started \in StartOutcomes :
            /\ can_tcp__add_entry(p, started)
            /\ fd' = [fd EXCEPT ![p] = NewFd]
            /\ files' = IF started THEN [files EXCEPT ![NewFd] = p] ELSE files
       \/ /\ entry' = [entry EXCEPT ![p] = "freed"]
          /\ UNCHANGED <<bridge, fd, files>>
    /\ UNCHANGED <<inq, outq, hup, handling, sent, got>>

-----------------------------------------------------------------------------
(* Forwarding. *)

Turned(order) == IF order = "host" THEN "net" ELSE "host"

\* sock__frame_htonl and sock__frame_ntohl.
Converted(e, frame) ==
    IF e = Can THEN frame ELSE [frame EXCEPT !.order = Turned(@)]

can_tcp__forward_message(e) ==
    /\ Running
    /\ ~handling.busy
    /\ entry[e] = "started"
    /\ inq[e] # <<>>
    /\ handling' = [busy |-> TRUE, frame |-> Converted(e, Head(inq[e])),
                    todo |-> Listed \ {e}]
    /\ inq' = [inq EXCEPT ![e] = Tail(@)]
    /\ UNCHANGED <<bridge, entry, files, fd, outq, hup, sent, got>>

\* recv gives 0 or an error; an error may come before what is still unread.
EndOfStream(e) ==
    /\ Running
    /\ ~handling.busy
    /\ entry[e] = "started"
    /\ hup[e] # "no"
    /\ entry' = [entry EXCEPT ![e] = "stopped"]
    /\ UNCHANGED <<bridge, files, fd, inq, outq, hup, handling, sent, got>>

\* A send to an end that is gone: an interface that is down refuses it, and the
\* result is not looked at.  A connection takes one more frame, its peer answers
\* with a reset, and the send after that one raises SIGPIPE, which nobody
\* handles: the process ends.
SendToGone(e) ==
    /\ handling' = [handling EXCEPT !.todo = @ \ {e}]
    /\ hup' = [hup EXCEPT ![e] = IF e = Can THEN @ ELSE "reset"]
    /\ bridge' = [bridge EXCEPT !.phase = IF hup[e] = "reset" THEN "killed" ELSE @]
    /\ UNCHANGED outq

\* Mutant: sock_send, which converts in place, is given the frame itself.
SendInPlace(e) ==
    /\ Running
    /\ handling.busy
    /\ e \in handling.todo
    /\ IF hup[e] # "no" THEN SendToGone(e) ELSE
       /\ Len(outq[e]) < SndBuf
       /\ outq' = [outq EXCEPT ![e] = Append(@, Converted(e, handling.frame))]
       /\ handling' = [handling EXCEPT !.todo = @ \ {e},
                                       !.frame = Converted(e, handling.frame)]
       /\ UNCHANGED <<hup, bridge>>
    /\ UNCHANGED <<entry, files, fd, inq, sent, got>>

\* Mutant: a send to an end that is gone waits for room like any other.
SendWaits(e) ==
    /\ Running
    /\ handling.busy
    /\ e \in handling.todo
    /\ Len(outq[e]) < SndBuf
    /\ outq' = [outq EXCEPT ![e] = Append(@, Converted(e, handling.frame))]
    /\ handling' = [handling EXCEPT !.todo = @ \ {e}]
    /\ UNCHANGED <<hup, bridge, entry, files, fd, inq, sent, got>>

\* sock_send on a copy; it waits for room in the send buffer.  The list also
\* has the entries that are no longer served.
my_sock_send(e) ==
    /\ Running
    /\ handling.busy
    /\ e \in handling.todo
    /\ IF hup[e] # "no" THEN SendToGone(e) ELSE
       /\ Len(outq[e]) < SndBuf
       /\ outq' = [outq EXCEPT ![e] = Append(@, Converted(e, handling.frame))]
       /\ handling' = [handling EXCEPT !.todo = @ \ {e}]
       /\ UNCHANGED <<hup, bridge>>
    /\ UNCHANGED <<entry, files, fd, inq, sent, got>>

\* can_tcp__send_to_others returns.
Sent ==
    /\ Running
    /\ handling.busy
    /\ handling.todo = {}
    /\ handling' = Idle
    /\ UNCHANGED <<bridge, entry, files, fd, inq, outq, hup, sent, got>>

-----------------------------------------------------------------------------
(* The far ends. *)

Wire(e) == IF e = Can THEN "host" ELSE "net"

Connected(e) == entry[e] \in {"started", "stopped"} /\ hup[e] = "no"

FarSends(e) ==
    /\ Running
    /\ Connected(e)
    /\ MapThenSumSet(LAMBDA s : sent[s], Ends) < BridgeFrames
    /\ sent' = [sent EXCEPT ![e] = @ + 1]
    /\ inq' = [inq EXCEPT ![e] =
                 Append(@, [from |-> e, n |-> sent[e] + 1, order |-> Wire(e)])]
    /\ UNCHANGED <<bridge, entry, files, fd, outq, hup, handling, got>>

FarReceives(e) ==
    /\ outq[e] # <<>>
    /\ hup[e] = "no"
    /\ got' = [got EXCEPT ![e][Head(outq[e]).from] = Head(outq[e]).n]
    /\ outq' = [outq EXCEPT ![e] = Tail(@)]
    /\ UNCHANGED <<bridge, entry, files, fd, inq, hup, handling, sent>>

\* A peer closes its connection; an interface goes down.
FarLeaves(e) ==
    /\ Running
    /\ Connected(e)
    /\ Cardinality({x \in Ends : hup[x] # "no"}) < MaxLeaves
    /\ hup' = [hup EXCEPT ![e] = "closed"]
    /\ UNCHANGED <<bridge, entry, files, fd, inq, outq, handling, sent, got>>

-----------------------------------------------------------------------------
Forward(e) == can_tcp__forward_message(e) \/ EndOfStream(e)

BridgeNext ==
    \/ can_tcp_bridge_server
    \/ can_tcp_bridge_client
    \/ \E p \in Peers : can_tcp__on_connection(p)
    \/ Sent
    \/ \E e \in Ends : \/ Forward(e) \/ my_sock_send(e) \/ can_tcp_entry__free(e)
                       \/ FarSends(e) \/ FarReceives(e) \/ FarLeaves(e)

\* The loop serves every socket that is ready, sends go on when there is room,
\* and a far end that is there reads what it is sent.
BridgeFairness ==
    /\ WF_bridgevars(Sent)
    /\ \A e \in Ends : /\ WF_bridgevars(Forward(e))
                       /\ WF_bridgevars(my_sock_send(e))
                       /\ WF_bridgevars(FarReceives(e))

-----------------------------------------------------------------------------
(* Properties. *)

\* struct can_tcp is referred to by the listening socket and by its entries, so
\* that it is there as long as one of them is; and an entry that is in use has a
\* descriptor of its own, which no late close has taken from it.
BridgeAccounted ==
    Running =>
        /\ bridge.ref = Cardinality({e \in Ends : entry[e] \in {"started", "stopped"}})
                        + (IF bridge.listening THEN 1 ELSE 0)
        /\ \A e \in Ends : entry[e] \in {"started", "stopped"} => files[fd[e]] = e

\* What a far end receives is in the byte order of its wire, and of each other
\* end it receives all frames, once and in order, from the first one that was
\* forwarded after it had joined; it never receives its own.
FramesForwarded ==
    \A e \in Ends : \A i \in 1..Len(outq[e]) :
        LET frame == outq[e][i]
            before == {got[e][frame.from]} \union
                      {outq[e][j].n : j \in {k \in 1..(i - 1) : outq[e][k].from = frame.from}}
        IN  /\ frame.order = Wire(e)
            /\ frame.from # e
            /\ Max(before) \in {0, frame.n - 1}

\* The bridge keeps its ends, with a descriptor and a reference each, and gives
\* them all frames of the others in order, whoever stalls, leaves or joins.
BridgeForwards == BridgeAccounted /\ FramesForwarded

\* A frame does not wait for ever: with ends that read or hang up, the bridge
\* comes round to every end that has sent something, unless the end leaves or
\* the process is ended.
FramesMove ==
    \A e \in Ends :
        (entry[e] = "started" /\ inq[e] # <<>>) ~>
            (inq[e] = <<>> \/ hup[e] # "no" \/ ~Running)
=============================================================================
