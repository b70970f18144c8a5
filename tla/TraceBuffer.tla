---------------------------- MODULE TraceBuffer ----------------------------
(***************************************************************************)
(* The ring buffer of CAN frames (trace-buffer.c).  sock_send and          *)
(* sock_recv append every frame of the master's socket to it, in the main  *)
(* loop and in the workers that load drivers; a worker dumps it to a file  *)
(* when a node times out, at the end of start-up and on a signal.          *)
(*                                                                         *)
(* The only synchronisation is is_blocked, which is atomic.  All other     *)
(* fields are plain memory, so every access that a thread makes to them is *)
(* a step of its own.  A frame is a number: frame n is the n-th one whose  *)
(* tb_append found the buffer unblocked.                                   *)
(***************************************************************************)
EXTENDS Integers, Sequences, Functions

CONSTANTS
    Appenders,      \* the threads that use the socket
    Dumpers,        \* the workers that run do_dump_tracebuffer
    Size,           \* cfg.trace_buffer_size, in frames
    MaxFrames,      \* bound: frames that are appended
    MaxDumps        \* bound: dumps of each worker

\* A size of 0 or 1 frames makes round_up_to_power_of_2 count the leading
\* zeros of ~0 or of 0, which leaves the shift or the count undefined.
ASSUME SizeAssumption == Size \in Nat \ {0, 1}

VARIABLES
    data,           \* malloc'ed: 0 is what the memory held
    index, count, is_blocked,
    append,         \* per appender: where in tb_append it is
    dump,           \* per dumper: where in tb_dump it is
    begun,          \* history: how many appends found the buffer unblocked
    log             \* history: the frames in the order they were stored

vars == <<data, index, count, is_blocked, append, dump, begun, log>>

round_up_to_power_of_2(x) ==
    CHOOSE p \in {2^k : k \in 0..x} : x <= p /\ p < 2 * x

length == round_up_to_power_of_2(Size)

\* What the proofs need to know of the power of two: a fact about numbers.
ASSUME LengthAssumption == length \in Nat \ {0}

\* The dump of a worker: the places that the current fwrite has still to copy,
\* whether a second fwrite follows, what was written.  The last three are
\* history: the frames stored when the dump blocked the buffer, the places of
\* the appends that were under way at that moment, and the number of dumps made.
NoDump == [pc |-> "idle", todo |-> <<>>, more |-> FALSE, out |-> <<>>,
           want |-> <<>>, overlap |-> {}, n |-> 0]

Init ==
    /\ data = [i \in 0..(length - 1) |-> 0]
    /\ index = 0
    /\ count = 0
    /\ is_blocked = FALSE
    /\ append = [a \in Appenders |-> [pc |-> "idle", frame |-> 0, at |-> 0]]
    /\ dump = [d \in Dumpers |-> NoDump]
    /\ begun = 0
    /\ log = <<>>

-----------------------------------------------------------------------------
(* tb_append.  Each step is one access to the shared fields. *)

\* A blocked buffer drops the frame: tb_append returns and nothing changes.
AppendCheck(a) ==
    /\ append[a].pc = "idle"
    /\ begun < MaxFrames
    /\ ~is_blocked
    /\ begun' = begun + 1
    /\ append' = [append EXCEPT ![a] = [pc |-> "load", frame |-> begun + 1, at |-> 0]]
    /\ UNCHANGED <<data, index, count, is_blocked, dump, log>>

AppendLoad(a) ==
    /\ append[a].pc = "load"
    /\ append' = [append EXCEPT ![a].pc = "store", ![a].at = index]
    /\ UNCHANGED <<data, index, count, is_blocked, dump, begun, log>>

\* With several appenders the place may lie outside of data; what such a store
\* does is not defined and the model stops there, in a state without TypeOK.
AppendStore(a) ==
    /\ append[a].pc = "store"
    /\ append[a].at < length
    /\ data' = [data EXCEPT ![append[a].at] = append[a].frame]
    /\ log' = Append(log, append[a].frame)
    /\ append' = [append EXCEPT ![a].pc = "advance"]
    /\ UNCHANGED <<index, count, is_blocked, dump, begun>>

\* index++ and the mask after it: an optimising compiler makes one store of
\* them, another one stores the unmasked value first.
AppendAdvance(a) ==
    /\ append[a].pc = "advance"
    /\ \/ /\ index' = (append[a].at + 1) % length
          /\ append' = [append EXCEPT ![a].pc = "count"]
       \/ /\ index' = append[a].at + 1
          /\ append' = [append EXCEPT ![a].pc = "mask"]
    /\ UNCHANGED <<data, count, is_blocked, dump, begun, log>>

AppendMask(a) ==
    /\ append[a].pc = "mask"
    /\ index' = index % length
    /\ append' = [append EXCEPT ![a].pc = "count"]
    /\ UNCHANGED <<data, count, is_blocked, dump, begun, log>>

AppendCount(a) ==
    /\ append[a].pc = "count"
    /\ count' = IF count < length THEN count + 1 ELSE count
    /\ append' = [append EXCEPT ![a].pc = "idle"]
    /\ UNCHANGED <<data, index, is_blocked, dump, begun, log>>

-----------------------------------------------------------------------------
(* tb_dump, as do_dump_tracebuffer calls it. *)

\* The frames that a dump is there to save: the latest that fit.
Latest(frames) ==
    [i \in 1..length |-> frames[Len(frames) - length + i]]

\* The places that the appends under way fill, or have just filled.
PlacesUnderWay ==
    {IF append[a].pc = "load" THEN index ELSE append[a].at :
        a \in {b \in Appenders : append[b].pc # "idle"}}

\* The compare-and-swap; when it fails the dump is given up.
DumpBlock(d) ==
    /\ dump[d].pc \in {"idle", "done"}
    /\ dump[d].n < MaxDumps
    /\ ~is_blocked
    /\ is_blocked' = TRUE
    /\ dump' = [dump EXCEPT ![d] =
                  [NoDump EXCEPT !.pc = "plan",
                     !.want = IF Len(log) <= length THEN log ELSE Latest(log),
                     !.overlap = PlacesUnderWay,
                     !.n = dump[d].n + 1]]
    /\ UNCHANGED <<data, index, count, append, begun, log>>

\* The places from i up to but not including j.
Places(i, j) == [k \in 1..(j - i) |-> i + k - 1]

\* Mutant: the first write takes the index for the number of its frames.
PlanSwapped(d) ==
    /\ dump[d].pc = "plan"
    /\ dump' = [dump EXCEPT
                  ![d].pc = "copy",
                  ![d].todo = IF count < length THEN Places(0, count)
                                                ELSE Places(index, 2 * index),
                  ![d].more = count = length]
    /\ UNCHANGED <<data, index, count, is_blocked, append, begun, log>>

DumpPlan(d) ==
    /\ dump[d].pc = "plan"
    /\ dump' = [dump EXCEPT
                  ![d].pc = "copy",
                  ![d].todo = IF count < length THEN Places(0, count)
                                                ELSE Places(index, length),
                  ![d].more = count = length]
    /\ UNCHANGED <<data, index, count, is_blocked, append, begun, log>>

\* fwrite copies frame by frame.
DumpCopy(d) ==
    /\ dump[d].pc = "copy"
    /\ dump[d].todo # <<>>
    /\ dump' = [dump EXCEPT ![d].todo = Tail(@),
                            ![d].out = Append(@, data[Head(dump[d].todo)])]
    /\ UNCHANGED <<data, index, count, is_blocked, append, begun, log>>

\* The second fwrite reads the index again.
DumpSecond(d) ==
    /\ dump[d].pc = "copy"
    /\ dump[d].todo = <<>>
    /\ dump[d].more
    /\ dump' = [dump EXCEPT ![d].todo = Places(0, index), ![d].more = FALSE]
    /\ UNCHANGED <<data, index, count, is_blocked, append, begun, log>>

DumpUnblock(d) ==
    /\ dump[d].pc = "copy"
    /\ dump[d].todo = <<>>
    /\ ~dump[d].more
    /\ is_blocked' = FALSE
    /\ dump' = [dump EXCEPT ![d].pc = "done"]
    /\ UNCHANGED <<data, index, count, append, begun, log>>

-----------------------------------------------------------------------------
tb_append(a) ==
    \/ AppendCheck(a) \/ AppendLoad(a) \/ AppendStore(a)
    \/ AppendAdvance(a) \/ AppendMask(a) \/ AppendCount(a)

tb_dump(d) ==
    \/ DumpBlock(d) \/ DumpPlan(d) \/ DumpCopy(d)
    \/ DumpSecond(d) \/ DumpUnblock(d)

Next ==
    \/ \E a \in Appenders : tb_append(a)
    \/ \E d \in Dumpers : tb_dump(d)

Spec == Init /\ [][Next]_vars

-----------------------------------------------------------------------------
(* Properties. *)

\* A dump that began while no frame was being appended writes exactly the
\* latest frames, in the order of their arrival: is_blocked keeps all appends
\* out until the dump is over, also when another worker tries to dump.
QuietDumpIsLatest ==
    \A d \in Dumpers :
        (dump[d].pc = "done" /\ dump[d].overlap = {}) => dump[d].out = dump[d].want

\* A dump that overlaps an append, which had already looked at is_blocked,
\* loses at most one of the frames that were stored when it began; unless the
\* append fills the last place.  Then the index returns to 0, perhaps between
\* the two writes of tb_dump, and the frames before it are written by neither.
AtMostOneLost ==
    \A d \in Dumpers :
        (dump[d].pc = "done" /\ (length - 1) \notin dump[d].overlap) =>
            \A f, g \in Range(dump[d].want) \ Range(dump[d].out) : f = g

\* Whatever the overlap, a dump writes frames that were received and never what
\* the memory held before.
OnlyStored == \A d \in Dumpers : Range(dump[d].out) \subseteq Range(log)

\* What a reader of a dump may rely on: it holds received frames only, it is
\* exact when it began in quiet, and lacks at most one of the frames that were
\* stored when it overlaps an append that does not fill the last place.
DumpsExact == QuietDumpIsLatest /\ AtMostOneLost /\ OnlyStored
=============================================================================
