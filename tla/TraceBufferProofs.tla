------------------------- MODULE TraceBufferProofs -------------------------
(***************************************************************************)
(* What a dump of the trace buffer holds, for a ring of any length, any    *)
(* number of frames and any number of workers that dump it, as long as one *)
(* thread appends.                                                         *)
(*                                                                         *)
(* The invariant says where in the ring each frame is (Ring), what the     *)
(* append under way has still to do to the index and the count             *)
(* (Positions), that one dump at most is under way (OneDump), and what     *)
(* each dump has written and will write (DumpInv).                         *)
(***************************************************************************)
EXTENDS TraceBuffer, TLAPS

OneAppender == \A a, b \in Appenders : a = b

AppendType == [pc : {"idle", "load", "store", "advance", "mask", "count"},
               frame : Nat, at : 0..(length - 1)]

DumpType == [pc : {"idle", "plan", "copy", "done"}, todo : Seq(Nat),
             more : BOOLEAN, out : Seq(Nat), want : Seq(Nat),
             overlap : SUBSET Nat, n : Nat]

TypeOK ==
    /\ data \in [0..(length - 1) -> Nat]
    /\ index \in 0..length
    /\ count \in 0..length
    /\ is_blocked \in BOOLEAN
    /\ append \in [Appenders -> AppendType]
    /\ dump \in [Dumpers -> DumpType]
    /\ begun \in Nat
    /\ log \in Seq(Nat)

\* How many of n frames the ring keeps, and the place after the last one.
Kept(n) == IF n < length THEN n ELSE length
Wrap(x) == IF x = length THEN 0 ELSE x

\* The append under way is at one of the given steps.
At(steps) == \E a \in Appenders : append[a].pc \in steps

\* The place of the next frame: the index is behind it before it is advanced.
Place == IF At({"advance"}) THEN Wrap(index + 1) ELSE Wrap(index)

\* The ring d holds the latest of k frames, and p is the place of the next.
Ring(d, p, k) ==
    /\ k <= length => p = Wrap(k)
    /\ \A c \in 0..(p - 1) : d[c] = k - p + 1 + c
    /\ k >= length => \A c \in p..(length - 1) : d[c] = k - p + 1 + c - length

\* One appender gives the frames their numbers in order.
Positions ==
    /\ \A i \in 1..Len(log) : log[i] = i
    /\ begun = IF At({"load", "store"}) THEN Len(log) + 1 ELSE Len(log)
    /\ index = length => At({"mask"})
    /\ count = IF At({"advance", "mask", "count"}) THEN Kept(Len(log) - 1)
                                                   ELSE Kept(Len(log))
    /\ \A a \in Appenders :
        /\ append[a].pc \in {"load", "store"} => append[a].frame = Len(log) + 1
        /\ append[a].pc \in {"store", "advance"} => append[a].at = index
        /\ append[a].pc = "mask" => append[a].at + 1 = index
        /\ append[a].pc = "count" => index = Wrap(append[a].at + 1)
        /\ append[a].pc \in {"advance", "mask", "count"} => Len(log) > 0

OneDump ==
    /\ is_blocked <=> \E d \in Dumpers : dump[d].pc \in {"plan", "copy"}
    /\ \A d, e \in Dumpers :
        (dump[d].pc \in {"plan", "copy"} /\ dump[e].pc \in {"plan", "copy"}) => d = e

\* w are the latest that the ring keeps of k frames.
Wanted(w, k) ==
    /\ Len(w) = Kept(k)
    /\ \A i \in 1..Len(w) : w[i] = k - Len(w) + i

\* A dump that nothing overlaps: what it has written, what it is about to
\* write and what the second write will add make up what was wanted.
Quiet(o) ==
    /\ ~At({"load", "store", "advance", "mask", "count"})
    /\ Wanted(o.want, Len(log))
    /\ o.pc = "plan" => o.out = <<>>
    /\ o.pc = "copy" =>
        /\ Len(o.out) + Len(o.todo) + (IF o.more THEN index ELSE 0) = Len(o.want)
        /\ \A i \in 1..Len(o.out) : o.out[i] = o.want[i]
        /\ \A i \in 1..Len(o.todo) : data[o.todo[i]] = o.want[Len(o.out) + i]
        /\ o.more => Len(o.want) = length

\* A dump of k frames that overlaps an append at place p, not the last: the
\* places other than p keep their frames, and each has been written, is about
\* to be or lies before p and the second write is to come.
Overlapped(o, p, k) ==
    /\ p \in 0..(length - 2)
    /\ Wanted(o.want, k)
    /\ At({"load", "store"}) => Place = p /\ Len(log) = k
    /\ ~At({"load", "store"}) => Place = p + 1 /\ Len(log) \in {k, k + 1}
    /\ o.pc = "copy" =>
        \A c \in 0..(Kept(k) - 1) :
            \/ c = p
            \/ data[c] \in Range(o.out)
            \/ c \in Range(o.todo)
            \/ o.more /\ c < p

\* A frame at most is missing.
OneMissing(o) == \E x \in Nat : Range(o.want) \subseteq Range(o.out) \cup {x}

DumpInv(o) ==
    /\ Range(o.out) \subseteq 1..Len(log)
    /\ o.pc \in {"plan", "copy"} =>
        /\ \A c \in Range(o.todo) : c < length /\ data[c] \in 1..Len(log)
        /\ o.more => Len(log) >= length
        /\ o.overlap = {} => Quiet(o)
        /\ o.overlap # {} /\ (length - 1) \notin o.overlap =>
            \E p, k \in Nat : Overlapped(o, p, k)
    /\ o.pc = "done" =>
        /\ o.overlap = {} => o.out = o.want
        /\ (length - 1) \notin o.overlap => OneMissing(o)

Inv ==
    /\ TypeOK
    /\ Positions
    /\ Ring(data, Place, Len(log))
    /\ OneDump
    /\ \A d \in Dumpers : DumpInv(dump[d])

-----------------------------------------------------------------------------
(* The append. *)

\* With one appender, the step that an append is at is the step of that one.
LEMMA OneAt ==
    ASSUME OneAppender, NEW a \in Appenders, NEW steps
    PROVE  /\ At(steps) <=> append[a].pc \in steps
           /\ At(steps)' <=> append'[a].pc \in steps
  BY DEF OneAppender, At

\* What is known of an append and of the ring before a step of it.
LEMMA AppendFacts ==
    ASSUME OneAppender, Inv, NEW a \in Appenders
    PROVE  /\ length \in Nat /\ length > 0
           /\ append[a] \in AppendType
           /\ Len(log) \in Nat
           /\ index \in 0..length
           /\ append[a].pc # "mask" => index < length
           /\ Place = IF append[a].pc = "advance" THEN Wrap(index + 1) ELSE Wrap(index)
           /\ Place \in 0..(length - 1)
  <1>1. length \in Nat /\ length > 0
    BY LengthAssumption
  <1>2. append[a] \in AppendType /\ Len(log) \in Nat /\ index \in 0..length
    BY DEF Inv, TypeOK
  <1>3. At({"mask"}) <=> append[a].pc = "mask"
    BY OneAt
  <1>4. At({"advance"}) <=> append[a].pc = "advance"
    BY OneAt
  <1>5. append[a].pc # "mask" => index < length
    BY <1>1, <1>2, <1>3 DEF Inv, Positions
  <1>6. Place = IF append[a].pc = "advance" THEN Wrap(index + 1) ELSE Wrap(index)
    BY <1>4 DEF Place
  <1>7. append[a].pc = "advance" => index < length
    BY <1>5
  <1>8. Place \in 0..(length - 1)
    BY <1>1, <1>2, <1>6, <1>7 DEF Wrap
  <1> QED BY <1>1, <1>2, <1>5, <1>6, <1>8

\* A step of an append that leaves the frames and the place of the next one
\* alone keeps what is known of the dumps: none of them is quiet.
LEMMA DumpsAside ==
    ASSUME OneAppender, Inv, NEW a \in Appenders,
           append[a].pc # "idle",
           At({"load", "store"})' <=> At({"load", "store"}),
           UNCHANGED <<data, dump, log>>, Place' = Place
    PROVE  \A d \in Dumpers : DumpInv(dump[d])'
  <1> SUFFICES ASSUME NEW d \in Dumpers PROVE DumpInv(dump[d])'
    OBVIOUS
  <1>1. append[a] \in AppendType /\ DumpInv(dump[d])
    BY DEF Inv, TypeOK
  <1>2. append[a].pc \in {"load", "store", "advance", "mask", "count"}
    BY <1>1 DEF AppendType
  <1>3. At({"load", "store", "advance", "mask", "count"})
    BY <1>2 DEF At
  <1>4. ~Quiet(dump[d])
    BY <1>3 DEF Quiet
  <1>5. ASSUME NEW p \in Nat, NEW k \in Nat, Overlapped(dump[d], p, k)
        PROVE  Overlapped(dump[d], p, k)'
    BY <1>5 DEF Overlapped
  <1> QED BY <1>1, <1>4, <1>5 DEF DumpInv, OneMissing

\* Storing the next frame fills its place and moves on.
LEMMA RingStored ==
    ASSUME NEW d \in [0..(length - 1) -> Nat], NEW p \in 0..(length - 1),
           NEW k \in Nat, Ring(d, p, k)
    PROVE  Ring([d EXCEPT ![p] = k + 1], Wrap(p + 1), k + 1)
  <1> DEFINE e == [d EXCEPT ![p] = k + 1]
  <1>1. length \in Nat /\ length > 0
    BY LengthAssumption
  <1>2. \A c \in 0..(length - 1) : e[c] = IF c = p THEN k + 1 ELSE d[c]
    OBVIOUS
  <1> HIDE DEF e
  <1>3. CASE p + 1 = length
    BY <1>1, <1>2, <1>3 DEF Ring, Wrap, e
  <1>4. CASE p + 1 # length
    BY <1>1, <1>2, <1>4 DEF Ring, Wrap, e
  <1> QED BY <1>3, <1>4

LEMMA DumpsStored ==
    ASSUME OneAppender, Inv, NEW a \in Appenders,
           append[a].pc = "store", append'[a].pc = "advance",
           data' = [data EXCEPT ![Place] = Len(log) + 1],
           Len(log') = Len(log) + 1, Place' = Wrap(Place + 1), UNCHANGED dump
    PROVE  \A d \in Dumpers : DumpInv(dump[d])'
  <1> SUFFICES ASSUME NEW d \in Dumpers PROVE DumpInv(dump[d])'
    OBVIOUS
  <1> DEFINE o == dump[d]
  <1>1. /\ length \in Nat /\ length > 0 /\ Len(log) \in Nat
        /\ Place \in 0..(length - 1) /\ o \in DumpType
        /\ data \in [0..(length - 1) -> Nat] /\ DumpInv(o)
    BY AppendFacts DEF Inv, TypeOK
  <1>2. At({"load", "store", "advance", "mask", "count"}) /\ At({"load", "store"})
    BY DEF At
  <1>3. ~At({"load", "store"})'
    BY OneAt
  <1>4. ~Quiet(o)
    BY <1>2 DEF Quiet
  <1>5. \A c \in 0..(length - 1) :
            data'[c] = IF c = Place THEN Len(log) + 1 ELSE data[c]
    BY <1>1
  <1>6. ASSUME NEW p \in Nat, NEW k \in Nat, Overlapped(o, p, k)
        PROVE  Overlapped(o, p, k)'
    <2>1. Place = p /\ Len(log) = k /\ p \in 0..(length - 2)
      BY <1>2, <1>6 DEF Overlapped
    <2>2. Place' = p + 1
      BY <1>1, <2>1 DEF Wrap
    <2>3. \A c \in 0..(Kept(k) - 1) : c \in 0..(length - 1)
      BY <1>1 DEF Kept
    <2>4. \A c \in 0..(Kept(k) - 1) : c # p => data'[c] = data[c]
      BY <1>5, <2>1, <2>3
    <2> QED BY <1>3, <1>6, <2>1, <2>2, <2>4 DEF Overlapped
  <1>7. \A c \in Range(o.todo) :
            c < length /\ data[c] \in 1..Len(log) => data'[c] \in 1..Len(log')
    <2>1. \A c \in Range(o.todo) : c \in Nat
      <3>1. o.todo \in Seq(Nat)
        BY <1>1 DEF DumpType
      <3>2. ASSUME NEW s \in Seq(Nat) PROVE \A c \in Range(s) : c \in Nat
        BY DEF Range
      <3> QED BY <3>1, <3>2
    <2> QED BY <1>1, <1>5, <2>1
  <1>8. Range(o.out) \subseteq 1..Len(log) => Range(o.out) \subseteq 1..Len(log')
    BY <1>1
  <1> QED BY <1>1, <1>4, <1>6, <1>7, <1>8 DEF DumpInv, OneMissing

\* The mask only wraps: an index is at most one beyond the last place.
LEMMA Masked ==
    ASSUME NEW x \in 0..length
    PROVE  x % length = Wrap(x)
  <1>1. length \in Nat /\ length > 0
    BY LengthAssumption
  <1>2. ASSUME NEW m \in Nat, m > 0, NEW y \in 0..m
        PROVE  y % m = IF y = m THEN 0 ELSE y
    BY <1>2
  <1> QED BY <1>1, <1>2 DEF Wrap

\* A step of an append leaves the dumps and the flag alone.
LEMMA OneDumpKept ==
    ASSUME OneDump, UNCHANGED <<dump, is_blocked>>
    PROVE  OneDump'
  BY DEF OneDump

LEMMA AppendCheckKeeps ==
    ASSUME OneAppender, Inv, NEW a \in Appenders, AppendCheck(a)
    PROVE  Inv'
  <1>1. ~At({"load", "store"})
    BY OneAt DEF AppendCheck
  <1>2. Len(log) \in Nat /\ length \in Nat /\ length > 0 /\ index < length
    BY AppendFacts DEF AppendCheck
  <1>3. begun = Len(log) /\ begun' = Len(log) + 1
    BY <1>1 DEF Inv, Positions, AppendCheck
  <1>4. append' = [append EXCEPT ![a] = [pc |-> "load", frame |-> Len(log) + 1, at |-> 0]]
    BY <1>3 DEF AppendCheck
  <1>5. append[a].pc = "idle" /\ append'[a] = [pc |-> "load", frame |-> Len(log) + 1, at |-> 0]
    BY <1>4 DEF AppendCheck, Inv, TypeOK
  <1>6. UNCHANGED <<data, index, count, is_blocked, dump, log>> /\ ~is_blocked
    BY DEF AppendCheck
  <1>7. TypeOK'
    <2>1. [pc |-> "load", frame |-> Len(log) + 1, at |-> 0] \in AppendType
      BY <1>2 DEF AppendType
    <2> QED BY <1>2, <1>3, <1>4, <1>6, <2>1 DEF Inv, TypeOK
  <1>8. \A b \in Appenders : b = a
    BY DEF OneAppender
  <1>9. /\ ~At({"mask"}) /\ ~At({"advance"}) /\ ~At({"advance", "mask", "count"})
        /\ ~At({"mask"})' /\ ~At({"advance"})' /\ ~At({"advance", "mask", "count"})'
        /\ At({"load", "store"})'
    BY <1>5, OneAt
  <1>10. Positions'
    BY <1>2, <1>3, <1>5, <1>6, <1>8, <1>9 DEF Inv, Positions
  <1>11. Place' = Place
    BY <1>6, <1>9 DEF Place
  <1>12. Ring(data, Place, Len(log))'
    BY <1>6, <1>11 DEF Inv, Ring
  <1>13. ASSUME NEW d \in Dumpers PROVE DumpInv(dump[d])'
    <2>1. dump[d].pc \notin {"plan", "copy"} /\ DumpInv(dump[d])
      BY <1>6 DEF Inv, OneDump
    <2> QED BY <1>6, <2>1, Zenon DEF DumpInv, OneMissing
  <1>14. OneDump'
    BY <1>6, OneDumpKept DEF Inv
  <1> QED BY <1>7, <1>10, <1>12, <1>13, <1>14 DEF Inv

LEMMA AppendLoadKeeps ==
    ASSUME OneAppender, Inv, NEW a \in Appenders, AppendLoad(a)
    PROVE  Inv'
  <1>1. Len(log) \in Nat /\ length \in Nat /\ length > 0 /\ index \in 0..(length - 1)
    BY AppendFacts DEF AppendLoad
  <1>2. append[a].pc = "load" /\ append[a] \in AppendType
    BY AppendFacts DEF AppendLoad
  <1>3. append'[a] = [append[a] EXCEPT !.pc = "store", !.at = index]
    BY DEF AppendLoad, Inv, TypeOK
  <1>4. append' = [append EXCEPT ![a] = append'[a]]
    BY <1>3, Zenon DEF AppendLoad, Inv, TypeOK
  <1>5. UNCHANGED <<data, index, count, is_blocked, dump, begun, log>>
    BY DEF AppendLoad
  <1>6. /\ append'[a] \in AppendType
        /\ append'[a].pc = "store" /\ append'[a].at = index
        /\ append'[a].frame = append[a].frame
    BY <1>1, <1>2, <1>3, Zenon DEF AppendType
  <1>7. TypeOK'
    BY <1>4, <1>5, <1>6 DEF Inv, TypeOK
  <1>8. \A b \in Appenders : b = a
    BY DEF OneAppender
  <1>9. /\ ~At({"mask"}) /\ ~At({"advance"}) /\ ~At({"advance", "mask", "count"})
        /\ ~At({"mask"})' /\ ~At({"advance"})' /\ ~At({"advance", "mask", "count"})'
        /\ At({"load", "store"}) /\ At({"load", "store"})'
    BY <1>2, <1>6, OneAt
  <1>10. Positions'
    BY <1>1, <1>2, <1>5, <1>6, <1>8, <1>9 DEF Inv, Positions
  <1>11. Place' = Place
    BY <1>5, <1>9 DEF Place
  <1>12. Ring(data, Place, Len(log))'
    BY <1>5, <1>11 DEF Inv, Ring
  <1>13. \A d \in Dumpers : DumpInv(dump[d])'
    BY <1>2, <1>5, <1>9, <1>11, DumpsAside
  <1>14. OneDump'
    BY <1>5, OneDumpKept DEF Inv
  <1> QED BY <1>7, <1>10, <1>12, <1>13, <1>14 DEF Inv

LEMMA AppendStoreKeeps ==
    ASSUME OneAppender, Inv, NEW a \in Appenders, AppendStore(a)
    PROVE  Inv'
  <1>1. Len(log) \in Nat /\ length \in Nat /\ length > 0 /\ index \in 0..(length - 1)
    BY AppendFacts DEF AppendStore
  <1>2. append[a].pc = "store" /\ append[a] \in AppendType
    BY AppendFacts DEF AppendStore
  <1>3. append[a].frame = Len(log) + 1 /\ append[a].at = index
    BY <1>2 DEF Inv, Positions
  <1>4. append'[a] = [append[a] EXCEPT !.pc = "advance"]
    BY DEF AppendStore, Inv, TypeOK
  <1>5. append' = [append EXCEPT ![a] = append'[a]]
    BY <1>4 DEF AppendStore, Inv, TypeOK
  <1>6. UNCHANGED <<index, count, is_blocked, dump, begun>>
    BY DEF AppendStore
  <1>7. /\ append'[a] \in AppendType
        /\ append'[a].pc = "advance" /\ append'[a].at = index
    BY <1>2, <1>3, <1>4 DEF AppendType
  <1>8. \A b \in Appenders : b = a
    BY DEF OneAppender
  <1>9. /\ ~At({"mask"}) /\ ~At({"advance"}) /\ ~At({"advance", "mask", "count"})
        /\ ~At({"mask"})' /\ At({"advance"})' /\ At({"advance", "mask", "count"})'
        /\ At({"load", "store"}) /\ ~At({"load", "store"})'
    BY <1>2, <1>7, OneAt
  <1>10. Place = index /\ Place' = Wrap(index + 1)
    BY <1>1, <1>6, <1>9 DEF Place, Wrap
  <1>11. data' = [data EXCEPT ![Place] = Len(log) + 1]
    BY <1>3, <1>10 DEF AppendStore
  <1>12. log' = Append(log, Len(log) + 1)
    BY <1>3 DEF AppendStore
  <1>13. /\ log' \in Seq(Nat) /\ Len(log') = Len(log) + 1
         /\ \A i \in 1..Len(log') : log'[i] = IF i <= Len(log) THEN log[i] ELSE Len(log) + 1
    BY <1>1, <1>12 DEF Inv, TypeOK
  <1>14. TypeOK'
    <2>1. data' \in [0..(length - 1) -> Nat]
      <3>1. data \in [0..(length - 1) -> Nat] /\ Len(log) + 1 \in Nat
        BY <1>1 DEF Inv, TypeOK
      <3> QED BY <1>11, <3>1, Zenon
    <2>2. append' \in [Appenders -> AppendType]
      BY <1>5, <1>7 DEF Inv, TypeOK
    <2> QED BY <1>6, <1>13, <2>1, <2>2 DEF Inv, TypeOK
  <1>15. Positions'
    BY <1>1, <1>6, <1>7, <1>8, <1>9, <1>13, SMTT(30) DEF Inv, Positions, Kept
  <1>16. Ring(data, Place, Len(log))'
    <2>1. data \in [0..(length - 1) -> Nat] /\ Ring(data, Place, Len(log))
      BY DEF Inv, TypeOK
    <2>2. Ring([data EXCEPT ![Place] = Len(log) + 1], Wrap(Place + 1), Len(log) + 1)
      BY <1>1, <1>10, <2>1, RingStored, Zenon
    <2> QED BY <1>10, <1>11, <1>13, <2>2
  <1>17. \A d \in Dumpers : DumpInv(dump[d])'
    BY <1>2, <1>6, <1>7, <1>10, <1>11, <1>13, DumpsStored
  <1>18. OneDump'
    BY <1>6, OneDumpKept DEF Inv
  <1> QED BY <1>14, <1>15, <1>16, <1>17, <1>18 DEF Inv

\* The steps after the store: the index and the count follow the frames.
LEMMA AppendRestKeeps ==
    ASSUME OneAppender, Inv, NEW a \in Appenders,
           AppendAdvance(a) \/ AppendMask(a) \/ AppendCount(a)
    PROVE  Inv'
  <1>1. /\ Len(log) \in Nat /\ length \in Nat /\ length > 0
        /\ index \in 0..length /\ append[a] \in AppendType
        /\ append[a].pc # "mask" => index < length
    BY AppendFacts
  <1>2. \A b \in Appenders : b = a
    BY DEF OneAppender
  <1>3. \E pc \in {"mask", "count", "idle"} :
            append' = [append EXCEPT ![a].pc = pc]
    BY DEF AppendAdvance, AppendMask, AppendCount
  <1>4. PICK pc \in {"mask", "count", "idle"} : append' = [append EXCEPT ![a].pc = pc]
    BY <1>3, Zenon
  <1>5. append'[a] = [append[a] EXCEPT !.pc = pc]
    BY <1>4 DEF Inv, TypeOK
  <1>6. append' = [append EXCEPT ![a] = append'[a]]
    BY <1>4, <1>5 DEF Inv, TypeOK
  <1>7. append'[a] \in AppendType /\ append'[a].pc = pc /\ append'[a].at = append[a].at
    BY <1>1, <1>5 DEF AppendType
  <1>8. append[a].pc \in {"advance", "mask", "count"} /\ Len(log) > 0
    BY DEF AppendAdvance, AppendMask, AppendCount, Inv, Positions
  <1>9. UNCHANGED <<data, is_blocked, dump, begun, log>>
    BY DEF AppendAdvance, AppendMask, AppendCount
  <1>10. append[a].at \in 0..(length - 1)
    BY <1>1 DEF AppendType
  <1>11. At({"advance", "mask", "count"})
    BY <1>8, OneAt
  <1>12. count = Kept(Len(log) - 1)
    BY <1>11 DEF Inv, Positions
  <1>13. /\ append[a].pc = "advance" => append[a].at = index
         /\ append[a].pc = "mask" => append[a].at + 1 = index
         /\ append[a].pc = "count" => index = Wrap(append[a].at + 1)
    BY DEF Inv, Positions
  <1>14. Place = Wrap(append[a].at + 1)
    <2>1. Place = IF append[a].pc = "advance" THEN Wrap(index + 1) ELSE Wrap(index)
      BY AppendFacts
    <2>2. Wrap(Wrap(append[a].at + 1)) = Wrap(append[a].at + 1)
      BY <1>1, <1>10 DEF Wrap
    <2> QED BY <1>8, <1>13, <2>1, <2>2
  <1>15. /\ pc = "mask" => index' = append[a].at + 1 /\ count' = count
         /\ pc = "count" => index' = Wrap(append[a].at + 1) /\ count' = count
         /\ pc = "idle" => /\ index' = Wrap(append[a].at + 1)
                           /\ count' = IF count < length THEN count + 1 ELSE count
    <2>1. CASE AppendAdvance(a)
      <3>1. (append[a].at + 1) % length = Wrap(append[a].at + 1)
        BY <1>1, <1>10, Masked
      <3>2. append[a].pc = "advance" /\ count' = count
        BY <2>1 DEF AppendAdvance
      <3>3. \/ index' = Wrap(append[a].at + 1) /\ append'[a].pc = "count"
            \/ index' = append[a].at + 1 /\ append'[a].pc = "mask"
        BY <2>1, <3>1, <1>1 DEF AppendAdvance, AppendType, Inv, TypeOK
      <3> QED BY <1>7, <3>2, <3>3
    <2>2. CASE AppendMask(a)
      <3>1. index % length = Wrap(index)
        BY <1>1, Masked
      <3>2. append[a].pc = "mask" /\ count' = count /\ index' = Wrap(index)
        BY <2>2, <3>1 DEF AppendMask
      <3>3. append'[a].pc = "count"
        BY <2>2, <1>1 DEF AppendMask, AppendType, Inv, TypeOK
      <3> QED BY <1>7, <1>13, <3>2, <3>3
    <2>3. CASE AppendCount(a)
      <3>1. /\ append[a].pc = "count" /\ index' = index
            /\ count' = IF count < length THEN count + 1 ELSE count
        BY <2>3 DEF AppendCount
      <3>2. append'[a].pc = "idle"
        BY <2>3, <1>1 DEF AppendCount, AppendType, Inv, TypeOK
      <3> QED BY <1>7, <1>13, <3>1, <3>2
    <2> QED BY <2>1, <2>2, <2>3
  <1>16. index' \in 0..length /\ (index' = length => pc = "mask")
    BY <1>1, <1>4, <1>10, <1>15 DEF Wrap
  <1>17. count' \in 0..length
    BY <1>1, <1>4, <1>15 DEF Inv, TypeOK
  <1>18. TypeOK'
    BY <1>6, <1>7, <1>9, <1>16, <1>17 DEF Inv, TypeOK
  <1>19. /\ At({"mask"})' <=> pc = "mask"
         /\ At({"advance", "mask", "count"})' <=> pc \in {"mask", "count"}
         /\ ~At({"advance"})' /\ ~At({"load", "store"})' /\ ~At({"load", "store"})
    BY <1>4, <1>7, <1>8, OneAt
  <1>20. Positions'
    <2>1. (count = IF At({"advance", "mask", "count"}) THEN Kept(Len(log) - 1)
                                                      ELSE Kept(Len(log)))'
      <3>1. CASE pc = "idle"
        <4>1. ~At({"advance", "mask", "count"})'
          BY <1>19, <3>1
        <4>2. count' = Kept(Len(log))
          BY <1>1, <1>8, <1>12, <1>15, <3>1 DEF Kept
        <4> QED BY <1>9, <4>1, <4>2
      <3>2. CASE pc # "idle"
        BY <1>4, <1>9, <1>12, <1>15, <1>19, <3>2
      <3> QED BY <3>1, <3>2
    <2>2. ASSUME NEW b \in Appenders
          PROVE  /\ append'[b].pc \in {"mask", "count", "idle"}
                 /\ append'[b].pc = "mask" => append'[b].at + 1 = index'
                 /\ append'[b].pc = "count" => index' = Wrap(append'[b].at + 1)
      BY <1>2, <1>4, <1>7, <1>15
    <2>3. \A i \in 1..Len(log') : log'[i] = i
      BY <1>9 DEF Inv, Positions
    <2>4. Len(log') > 0
      BY <1>8, <1>9
    <2>5. begun' = IF At({"load", "store"})' THEN Len(log') + 1 ELSE Len(log')
      BY <1>9, <1>19 DEF Inv, Positions
    <2> QED BY <1>16, <1>19, <2>1, <2>2, <2>3, <2>4, <2>5 DEF Positions
  <1>21. Place' = Place
    <2>1. Place' = Wrap(index')
      BY <1>19 DEF Place
    <2>2. Wrap(Wrap(append[a].at + 1)) = Wrap(append[a].at + 1)
      BY <1>1, <1>10 DEF Wrap
    <2> QED BY <1>4, <1>14, <1>15, <2>1, <2>2
  <1>22. Ring(data, Place, Len(log))'
    BY <1>9, <1>21 DEF Inv, Ring
  <1>23. \A d \in Dumpers : DumpInv(dump[d])'
    BY <1>8, <1>9, <1>19, <1>21, DumpsAside
  <1>24. OneDump'
    BY <1>9, OneDumpKept DEF Inv
  <1> QED BY <1>18, <1>20, <1>22, <1>23, <1>24 DEF Inv

-----------------------------------------------------------------------------
(* The dump. *)

\* A step of a dump changes the flag and the worker's own part.
LEMMA DumpStep ==
    ASSUME Inv, NEW d \in Dumpers, NEW o \in DumpType,
           dump' = [dump EXCEPT ![d] = o], DumpInv(o), OneDump',
           is_blocked' \in BOOLEAN, UNCHANGED <<data, index, count, append, begun, log>>
    PROVE  Inv'
  <1>1. TypeOK'
    BY DEF Inv, TypeOK
  <1>2. \A steps : At(steps)' <=> At(steps)
    BY DEF At
  <1>3. Positions'
    BY <1>2 DEF Inv, Positions
  <1>4. Place' = Place
    BY <1>2 DEF Place
  <1>5. Ring(data, Place, Len(log))'
    BY <1>4 DEF Inv, Ring
  <1>6. ASSUME NEW x, DumpInv(x) PROVE DumpInv(x)'
    <2>1. Quiet(x) => Quiet(x)'
      BY <1>2, Zenon DEF Quiet
    <2>2. \A p, k \in Nat : Overlapped(x, p, k) => Overlapped(x, p, k)'
      BY <1>2, <1>4 DEF Overlapped
    <2> QED BY <1>6, <2>1, <2>2 DEF DumpInv
  <1>7. ASSUME NEW e \in Dumpers PROVE DumpInv(dump[e])'
    <2>1. PICK x : x = dump'[e]
      OBVIOUS
    <2>2. DumpInv(x)
      BY <2>1 DEF Inv, TypeOK
    <2>3. DumpInv(x)'
      BY <1>6, <2>2
    <2> QED BY <2>1, <2>3
  <1> QED BY <1>1, <1>3, <1>5, <1>7 DEF Inv

\* A worker that dumps goes on being the one that does, as long as the flag
\* stays.
LEMMA StillOneDump ==
    ASSUME Inv, NEW d \in Dumpers, NEW o, dump' = [dump EXCEPT ![d] = o],
           dump[d].pc \in {"plan", "copy"}, o.pc = "copy", UNCHANGED is_blocked
    PROVE  OneDump'
  BY DEF Inv, TypeOK, OneDump

LEMMA NumbersKnown ==
    ASSUME Inv
    PROVE  /\ length \in Nat /\ length > 0
           /\ Len(log) \in Nat /\ index \in 0..length /\ count \in 0..length
           /\ Place \in 0..(length - 1)
           /\ data \in [0..(length - 1) -> Nat]
           /\ Kept(Len(log)) \in 0..length /\ Kept(Len(log)) <= Len(log)
  <1>1. /\ length \in Nat /\ length > 0
        /\ Len(log) \in Nat /\ index \in 0..length /\ count \in 0..length
        /\ data \in [0..(length - 1) -> Nat]
    BY LengthAssumption DEF Inv, TypeOK
  <1>2. At({"advance"}) => index < length
    <2> SUFFICES ASSUME NEW a \in Appenders, append[a].pc = "advance"
                 PROVE  index < length
      BY DEF At
    <2>1. append[a] \in AppendType /\ append[a].at = index
      BY DEF Inv, TypeOK, Positions
    <2> QED BY <1>1, <2>1 DEF AppendType
  <1>3. Place \in 0..(length - 1)
    BY <1>1, <1>2 DEF Place, Wrap
  <1> QED BY <1>1, <1>3 DEF Kept

\* Every place that is in use holds a frame that was stored.
LEMMA RingHolds ==
    ASSUME NEW f \in [0..(length - 1) -> Nat], NEW p \in 0..(length - 1),
           NEW k \in Nat, Ring(f, p, k), NEW c \in 0..(Kept(k) - 1)
    PROVE  c \in 0..(length - 1) /\ f[c] \in 1..k
  <1>1. length \in Nat /\ length > 0
    BY LengthAssumption
  <1>2. CASE k < length
    BY <1>1, <1>2 DEF Ring, Kept, Wrap
  <1>3. CASE k >= length /\ c < p
    BY <1>1, <1>3 DEF Ring, Kept
  <1>4. CASE k >= length /\ c >= p
    BY <1>1, <1>4 DEF Ring, Kept
  <1>5. Kept(k) \in Nat
    BY <1>1 DEF Kept
  <1> QED BY <1>1, <1>2, <1>3, <1>4, <1>5

LEMMA PlacesHold ==
    ASSUME Inv
    PROVE  \A c \in 0..(Kept(Len(log)) - 1) : data[c] \in 1..Len(log)
  BY NumbersKnown, RingHolds DEF Inv

\* The frames that are saved are the latest that the ring keeps.
LEMMA SavedAreWanted ==
    ASSUME Inv
    PROVE  LET w == IF Len(log) <= length THEN log ELSE Latest(log)
           IN  w \in Seq(Nat) /\ Wanted(w, Len(log))
  <1>1. /\ log \in Seq(Nat) /\ Len(log) \in Nat /\ length \in Nat /\ length > 0
        /\ \A i \in 1..Len(log) : log[i] = i
    BY LengthAssumption DEF Inv, TypeOK, Positions
  <1>2. CASE Len(log) <= length
    BY <1>1, <1>2 DEF Wanted, Kept
  <1>3. CASE Len(log) > length
    <2>1. Latest(log) \in [1..length -> Nat]
      BY <1>1, <1>3 DEF Latest
    <2>2. Latest(log) \in Seq(Nat)
      BY <1>1, <2>1
    <2>5. Len(Latest(log)) = length
      BY <1>1, <2>1
    <2>6. \A i \in 1..length : Latest(log)[i] = Len(log) - length + i
      BY <1>1, <1>3 DEF Latest
    <2>7. Wanted(Latest(log), Len(log))
      BY <1>1, <1>3, <2>5, <2>6 DEF Wanted, Kept
    <2>8. Latest(log) \in Seq(Nat) /\ ~(Len(log) <= length)
      BY <1>1, <1>3, <2>2
    <2> QED BY <2>7, <2>8
  <1> QED BY <1>1, <1>2, <1>3

\* Blocking the buffer: no dump is under way, and the append that is, if any,
\* has its place.
LEMMA DumpBlockKeeps ==
    ASSUME OneAppender, Inv, NEW d \in Dumpers, DumpBlock(d)
    PROVE  Inv'
  <1> DEFINE w == IF Len(log) <= length THEN log ELSE Latest(log)
  <1>1. PICK o : o = [NoDump EXCEPT !.pc = "plan", !.want = w,
                        !.overlap = PlacesUnderWay, !.n = dump[d].n + 1]
    OBVIOUS
  <1>2. dump' = [dump EXCEPT ![d] = o]
    BY <1>1 DEF DumpBlock
  <1>3. /\ w \in Seq(Nat) /\ Wanted(w, Len(log))
        /\ dump[d].n + 1 \in Nat /\ PlacesUnderWay \in SUBSET Nat
    <2>1. dump[d] \in DumpType
      BY DEF Inv, TypeOK
    <2>2. PlacesUnderWay \in SUBSET Nat
      BY NumbersKnown DEF PlacesUnderWay, Inv, TypeOK, AppendType
    <2> QED BY <2>1, <2>2, SavedAreWanted DEF DumpType
  <1> HIDE DEF w
  <1>4. /\ o.pc = "plan" /\ o.todo = <<>> /\ o.more = FALSE /\ o.out = <<>>
        /\ o.want = w /\ o.overlap = PlacesUnderWay /\ o.n = dump[d].n + 1
    BY <1>1 DEF NoDump
  <1>5. o \in DumpType
    <2>1. o = [pc |-> "plan", todo |-> <<>>, more |-> FALSE, out |-> <<>>,
               want |-> w, overlap |-> PlacesUnderWay, n |-> dump[d].n + 1]
      BY <1>1, Zenon DEF NoDump
    <2>2. <<>> \in Seq(Nat)
      OBVIOUS
    <2> QED BY <1>3, <2>1, <2>2 DEF DumpType
  <1>6. Range(o.out) = {} /\ Range(o.todo) = {}
    BY <1>4 DEF Range
  <1>7. o.overlap = {} => Quiet(o)
    <2> SUFFICES ASSUME PlacesUnderWay = {} PROVE Quiet(o)
      BY <1>4
    <2>1. \A a \in Appenders : append[a].pc = "idle"
      BY DEF PlacesUnderWay
    <2>2. ~At({"load", "store", "advance", "mask", "count"})
      BY <2>1 DEF At
    <2> QED BY <1>3, <1>4, <2>2 DEF Quiet
  <1>8. ASSUME o.overlap # {}, (length - 1) \notin o.overlap
        PROVE  \E p, k \in Nat : Overlapped(o, p, k)
    <2>1. PICK a \in Appenders : append[a].pc # "idle"
      BY <1>4, <1>8 DEF PlacesUnderWay
    <2>2. PICK p : p = IF append[a].pc = "load" THEN index ELSE append[a].at
      OBVIOUS
    <2>3. p \in PlacesUnderWay
      BY <2>1, <2>2 DEF PlacesUnderWay
    <2>4. /\ length \in Nat /\ length > 0 /\ append[a] \in AppendType
          /\ index \in 0..length /\ Len(log) \in Nat
          /\ append[a].pc # "mask" => index < length
      BY AppendFacts
    <2>5. p \in 0..(length - 1)
      BY <2>2, <2>4 DEF AppendType
    <2>6. p \in 0..(length - 2)
      BY <1>4, <1>8, <2>3, <2>4, <2>5
    <2>7. /\ append[a].pc \in {"store", "advance"} => append[a].at = index
          /\ append[a].pc = "mask" => append[a].at + 1 = index
          /\ append[a].pc = "count" => index = Wrap(append[a].at + 1)
      BY DEF Inv, Positions
    <2>8. Place = IF append[a].pc = "advance" THEN Wrap(index + 1) ELSE Wrap(index)
      BY AppendFacts
    <2>9. append[a].pc \in {"load", "store"} => Place = p
      BY <2>2, <2>4, <2>7, <2>8 DEF Wrap
    <2>10. append[a].pc \notin {"load", "store"} => Place = p + 1
      <3>1. append[a].pc \in {"load", "store", "advance", "mask", "count"}
        BY <2>1, <2>4 DEF AppendType
      <3>2. append[a].pc # "load" => p = append[a].at
        BY <2>2
      <3>3. Wrap(p + 1) = p + 1
        BY <2>4, <2>6 DEF Wrap
      <3> QED BY <2>7, <2>8, <3>1, <3>2, <3>3
    <2>11. At({"load", "store"}) <=> append[a].pc \in {"load", "store"}
      BY OneAt
    <2>12. Overlapped(o, p, Len(log))
      BY <1>3, <1>4, <2>6, <2>9, <2>10, <2>11 DEF Overlapped
    <2> QED BY <2>4, <2>5, <2>12
  <1>9. DumpInv(o)
    BY <1>4, <1>6, <1>7, <1>8 DEF DumpInv
  <1>10. is_blocked' = TRUE /\ ~is_blocked /\ UNCHANGED <<data, index, count, append, begun, log>>
    BY DEF DumpBlock
  <1>11. OneDump'
    <2>1. \A e \in Dumpers : dump[e].pc \notin {"plan", "copy"}
      BY <1>10 DEF Inv, OneDump
    <2>2. \A e \in Dumpers : dump'[e].pc \in {"plan", "copy"} <=> e = d
      BY <1>2, <1>4, <2>1 DEF Inv, TypeOK
    <2> QED BY <1>10, <2>2 DEF OneDump
  <1> QED BY <1>2, <1>5, <1>9, <1>10, <1>11, DumpStep, Zenon

\* The places of a write.
LEMMA PlacesAre ==
    ASSUME NEW i \in Nat, NEW j \in Nat, i <= j
    PROVE  /\ Places(i, j) \in Seq(Nat)
           /\ Len(Places(i, j)) = j - i
           /\ \A k \in 1..(j - i) : Places(i, j)[k] = i + k - 1
           /\ Range(Places(i, j)) = i..(j - 1)
  <1>1. /\ Places(i, j) \in Seq(Nat)
        /\ Len(Places(i, j)) = j - i
        /\ \A k \in 1..(j - i) : Places(i, j)[k] = i + k - 1
    BY DEF Places
  <1>2. Range(Places(i, j)) \subseteq i..(j - 1)
    BY DEF Places, Range
  <1>3. ASSUME NEW c \in i..(j - 1) PROVE c \in Range(Places(i, j))
    <2>1. (c - i + 1) \in 1..(j - i) /\ i + (c - i + 1) - 1 = c
      OBVIOUS
    <2>2. DOMAIN Places(i, j) = 1..(j - i)
      BY DEF Places
    <2>3. Places(i, j)[c - i + 1] = c
      BY <1>1, <2>1
    <2> QED BY <2>1, <2>2, <2>3 DEF Range
  <1> QED BY <1>1, <1>2, <1>3, Zenon

\* The part of the plan that a dump needs whatever it overlaps.
LEMMA PlanHolds ==
    ASSUME Inv, NEW t, t = IF count < length THEN Places(0, count)
                                             ELSE Places(index, length)
    PROVE  /\ t \in Seq(Nat)
           /\ \A c \in Range(t) : c < length /\ data[c] \in 1..Len(log)
           /\ count = length => Len(log) >= length
           /\ count <= Kept(Len(log))
  <1>1. count <= Kept(Len(log)) /\ (count = length => Len(log) >= length)
    <2>1. CASE At({"advance", "mask", "count"})
      <3>1. Len(log) > 0 /\ count = Kept(Len(log) - 1)
        BY <2>1 DEF Inv, Positions, At
      <3> QED BY <3>1, NumbersKnown DEF Kept
    <2>2. CASE ~At({"advance", "mask", "count"})
      <3>1. count = Kept(Len(log))
        BY <2>2 DEF Inv, Positions
      <3> QED BY <3>1, NumbersKnown DEF Kept
    <2> QED BY <2>1, <2>2
  <1>2. CASE count < length
    <2>1. t \in Seq(Nat) /\ Range(t) = 0..(count - 1)
      <3>1. t = Places(0, count) /\ count \in Nat /\ 0 \in Nat /\ 0 <= count
        BY <1>2, NumbersKnown
      <3> QED BY <3>1, PlacesAre, Zenon
    <2>2. \A c \in Range(t) : c \in 0..(Kept(Len(log)) - 1) /\ c < length
      BY <1>1, <1>2, <2>1, NumbersKnown
    <2> QED BY <1>1, <2>1, <2>2, PlacesHold
  <1>3. CASE ~(count < length)
    <2>1. t \in Seq(Nat) /\ Range(t) = index..(length - 1)
      <3>1. t = Places(index, length) /\ index \in Nat /\ length \in Nat /\ index <= length
        BY <1>3, NumbersKnown
      <3> QED BY <3>1, PlacesAre, Zenon
    <2>2. count = length /\ Len(log) >= length
      BY <1>1, <1>3, NumbersKnown
    <2>3. Kept(Len(log)) = length
      BY <2>2, NumbersKnown DEF Kept
    <2>4. \A c \in Range(t) : c \in 0..(Kept(Len(log)) - 1) /\ c < length
      BY <2>1, <2>3, NumbersKnown
    <2> QED BY <1>1, <2>1, <2>4, PlacesHold
  <1> QED BY <1>2, <1>3

\* In quiet the first write has the oldest frames, and the second the rest.
LEMMA QuietPlan ==
    ASSUME Inv, NEW o, Quiet(o), o.pc = "plan", NEW q,
           q.pc = "copy", q.out = o.out, q.want = o.want,
           q.todo = IF count < length THEN Places(0, count) ELSE Places(index, length),
           q.more = (count = length)
    PROVE  Quiet(q)
  <1>1. /\ ~At({"load", "store", "advance", "mask", "count"})
        /\ Wanted(o.want, Len(log)) /\ o.out = <<>>
    BY DEF Quiet
  <1>2. ~At({"mask"}) /\ ~At({"advance"}) /\ ~At({"advance", "mask", "count"})
    BY <1>1 DEF At
  <1>3. count = Kept(Len(log)) /\ index # length
    BY <1>2 DEF Inv, Positions
  <1>4. PICK p : p = index
    OBVIOUS
  <1>5. PICK k : k = Len(log)
    BY Zenon
  <1>6. /\ length \in Nat /\ length > 0 /\ p \in 0..(length - 1) /\ k \in Nat
        /\ data \in [0..(length - 1) -> Nat] /\ Ring(data, p, k)
        /\ count = Kept(k) /\ Wanted(o.want, k)
    <2>1. Place = p
      BY <1>2, <1>3, <1>4, NumbersKnown DEF Place, Wrap
    <2> QED BY <1>1, <1>3, <1>4, <1>5, <2>1, NumbersKnown DEF Inv
  <1>7. Len(q.out) = 0 /\ q.out = <<>>
    BY <1>1
  <1>8. CASE count < length
    <2>1. count = k /\ k < length /\ p = k
      BY <1>6, <1>8 DEF Kept, Ring, Wrap
    <2>2. Len(q.todo) = k /\ \A i \in 1..k : q.todo[i] = i - 1
      <3>1. q.todo = Places(0, k) /\ 0 \in Nat /\ k \in Nat /\ 0 <= k
        BY <1>6, <1>8, <2>1
      <3>2. Len(q.todo) = k - 0 /\ \A i \in 1..(k - 0) : q.todo[i] = 0 + i - 1
        BY <3>1, PlacesAre, Zenon
      <3> QED BY <1>6, <3>2
    <2>3. Len(q.want) = k /\ \A i \in 1..k : q.want[i] = i
      BY <1>6, <2>1 DEF Wanted, Kept
    <2>4. \A i \in 1..k : data[i - 1] = i
      BY <1>6, <2>1 DEF Ring
    <2>5. ~q.more
      <3>1. count # length
        BY <1>6, <2>1
      <3> QED BY <3>1, Zenon
    <2>6. ASSUME NEW i \in 1..Len(q.todo)
          PROVE  data[q.todo[i]] = q.want[Len(q.out) + i]
      <3>1. i \in 1..k /\ Len(q.out) + i = i
        BY <1>6, <1>7, <2>2
      <3> QED BY <2>2, <2>3, <2>4, <3>1
    <2> QED BY <1>1, <1>5, <1>6, <1>7, <2>2, <2>3, <2>5, <2>6 DEF Quiet
  <1>9. CASE ~(count < length)
    <2>1. count = length /\ k >= length
      BY <1>6, <1>9 DEF Kept
    <2>2. /\ Len(q.todo) = length - p
          /\ \A i \in 1..(length - p) : q.todo[i] = p + i - 1
      <3>1. q.todo = Places(p, length) /\ p \in Nat /\ length \in Nat /\ p <= length
        BY <1>4, <1>6, <1>9
      <3> QED BY <3>1, PlacesAre, Zenon
    <2>3. Len(q.want) = length /\ \A i \in 1..length : q.want[i] = k - length + i
      BY <1>6, <2>1 DEF Wanted, Kept
    <2>4. \A i \in 1..(length - p) : data[p + i - 1] = k - length + i
      BY <1>6, <2>1 DEF Ring
    <2>5. ASSUME NEW i \in 1..Len(q.todo)
          PROVE  data[q.todo[i]] = q.want[Len(q.out) + i]
      <3>1. i \in 1..(length - p) /\ i \in 1..length /\ Len(q.out) + i = i
        BY <1>6, <1>7, <2>2
      <3> QED BY <2>2, <2>3, <2>4, <3>1
    <2>6. q.more
      BY <2>1, Zenon
    <2>7. Len(q.out) + Len(q.todo) + index = Len(q.want)
      BY <1>4, <1>6, <1>7, <2>2, <2>3
    <2> QED BY <1>1, <1>5, <1>6, <1>7, <2>3, <2>5, <2>6, <2>7 DEF Quiet
  <1> QED BY <1>8, <1>9

\* How the place of an append that a dump overlaps, the frames wanted and the
\* count belong together.
LEMMA OverlapCount ==
    ASSUME OneAppender, Inv, NEW o, NEW p \in Nat, NEW k \in Nat, Overlapped(o, p, k)
    PROVE  /\ index \in {p, p + 1} /\ p + 1 < length
           /\ k >= length => count = length
           /\ k < length => /\ Len(log) < length
                            /\ p \in {k - 1, k}
                            /\ p = k => count >= k
                            /\ p + 1 = k => count + 1 >= k
  <1>1. p \in 0..(length - 2) /\ p + 1 < length
    BY NumbersKnown DEF Overlapped
  <1>2. Ring(data, Place, Len(log))
    BY DEF Inv
  <1>3. PICK n : n = Len(log)
    BY Zenon
  <1>4. length \in Nat /\ n \in Nat /\ (n <= length => Place = Wrap(n))
    BY <1>2, <1>3, NumbersKnown DEF Ring
  <1>5. CASE At({"load", "store"})
    <2>1. Place = p /\ n = k
      BY <1>3, <1>5 DEF Overlapped
    <2>2. PICK a \in Appenders : append[a].pc \in {"load", "store"}
      BY <1>5 DEF At
    <2>3. /\ ~At({"advance"}) /\ ~At({"mask"})
          /\ ~At({"advance", "mask", "count"})
      BY <2>2, OneAt
    <2>4. Place = Wrap(index) /\ index # length /\ count = Kept(n)
      BY <1>3, <2>3 DEF Place, Inv, Positions
    <2>5. index = p
      BY <2>1, <2>4 DEF Wrap
    <2>6. k < length => p = k
      BY <1>1, <1>4, <2>1 DEF Wrap
    <2> QED BY <1>1, <1>3, <1>4, <2>1, <2>4, <2>5, <2>6 DEF Kept
  <1>6. CASE ~At({"load", "store"})
    <2>1. Place = p + 1 /\ n \in {k, k + 1}
      BY <1>3, <1>6 DEF Overlapped
    <2>2. n # length
      BY <1>1, <1>4, <2>1 DEF Wrap
    <2>3. n < length => n = p + 1
      BY <1>1, <1>4, <2>1 DEF Wrap
    <2>4. count \in {Kept(n), Kept(n - 1)} /\ (n = 0 => count = Kept(n))
      <3>1. count \in {Kept(n), Kept(n - 1)}
        BY <1>3 DEF Inv, Positions
      <3>2. ASSUME n = 0 PROVE count = Kept(n)
        <4>1. ~At({"advance", "mask", "count"})
          BY <1>3, <3>2 DEF Inv, Positions, At
        <4> QED BY <1>3, <4>1 DEF Inv, Positions
      <3> QED BY <3>1, <3>2
    <2>5. index \in {p, p + 1}
      <3>1. CASE At({"advance"})
        <4>1. Wrap(index + 1) = p + 1
          BY <2>1, <3>1 DEF Place
        <4> QED BY <1>1, <4>1, NumbersKnown, SMTT(30) DEF Wrap
      <3>2. CASE ~At({"advance"})
        <4>1. Wrap(index) = p + 1 /\ p + 1 # 0
          BY <2>1, <3>2 DEF Place
        <4> QED BY <4>1, Zenon DEF Wrap
      <3> QED BY <3>1, <3>2
    <2>6. k >= length => count = length
      BY <1>4, <2>1, <2>2, <2>4 DEF Kept
    <2>7. ASSUME k < length
          PROVE  /\ n < length /\ p \in {k - 1, k}
                 /\ p = k => count >= k
                 /\ p + 1 = k => count + 1 >= k
      <3>1. n < length /\ n = p + 1
        BY <1>4, <2>1, <2>2, <2>3, <2>7
      <3> QED BY <1>4, <2>1, <2>4, <3>1 DEF Kept
    <2> QED BY <1>1, <1>3, <2>5, <2>6, <2>7
  <1> QED BY <1>5, <1>6

\* The plan of a dump that overlaps an append leaves out the place of that
\* append at most.
LEMMA OverlappedPlan ==
    ASSUME OneAppender, Inv, NEW o, NEW p \in Nat, NEW k \in Nat,
           Overlapped(o, p, k), NEW q, q.pc = "copy", q.want = o.want,
           q.todo = IF count < length THEN Places(0, count) ELSE Places(index, length),
           q.more = (count = length)
    PROVE  Overlapped(q, p, k)
  <1>1. /\ length \in Nat /\ length > 0 /\ count \in 0..length /\ index \in 0..length
        /\ index \in {p, p + 1} /\ p + 1 < length
        /\ k >= length => count = length
        /\ k < length => /\ p \in {k - 1, k}
                         /\ p = k => count >= k
                         /\ p + 1 = k => count + 1 >= k
    BY NumbersKnown, OverlapCount
  <1>2. ASSUME NEW c \in 0..(Kept(k) - 1), c # p
        PROVE  c \in Range(q.todo) \/ (q.more /\ c < p)
    <2>1. c \in Nat /\ c < length /\ (k < length => c < k)
      BY <1>1 DEF Kept
    <2>2. CASE count < length
      <3>1. q.todo = Places(0, count) /\ count \in Nat /\ 0 \in Nat /\ 0 <= count
        BY <1>1, <2>2
      <3>2. Range(q.todo) = 0..(count - 1)
        BY <3>1, PlacesAre
      <3>3. k < length
        BY <1>1, <2>2
      <3> QED BY <1>1, <1>2, <2>1, <3>2, <3>3
    <2>3. CASE ~(count < length)
      <3>1. q.todo = Places(index, length) /\ index \in Nat /\ length \in Nat /\ index <= length
        BY <1>1, <2>3
      <3>2. Range(q.todo) = index..(length - 1)
        BY <3>1, PlacesAre, ZenonT(30)
      <3>3. count = length
        BY <1>1, <2>3
      <3>4. q.more
        BY <3>3, Zenon
      <3>5. c >= index \/ c < p
        BY <1>1, <1>2, <2>1
      <3> QED BY <1>1, <2>1, <3>2, <3>4, <3>5
    <2> QED BY <2>2, <2>3
  <1> QED BY <1>2 DEF Overlapped

LEMMA DumpPlanKeeps ==
    ASSUME OneAppender, Inv, NEW d \in Dumpers, DumpPlan(d)
    PROVE  Inv'
  <1> DEFINE t == IF count < length THEN Places(0, count) ELSE Places(index, length)
  <1>1. PICK o : o = dump[d]
    OBVIOUS
  <1>2. PICK q : q = [o EXCEPT !.pc = "copy", !.todo = t, !.more = (count = length)]
    OBVIOUS
  <1>3. /\ o.pc = "plan" /\ o \in DumpType /\ DumpInv(o)
        /\ UNCHANGED <<data, index, count, is_blocked, append, begun, log>>
    BY <1>1 DEF DumpPlan, Inv, TypeOK
  <1>4. dump' = [dump EXCEPT ![d] = q]
    BY <1>1, <1>2, Zenon DEF DumpPlan
  <1>5. /\ t \in Seq(Nat)
        /\ \A c \in Range(t) : c < length /\ data[c] \in 1..Len(log)
        /\ count = length => Len(log) >= length
    BY PlanHolds
  <1> HIDE DEF t
  <1>6. /\ q.pc = "copy" /\ q.todo = t /\ q.more = (count = length)
        /\ q.out = o.out /\ q.want = o.want /\ q.overlap = o.overlap
    BY <1>2, <1>3 DEF DumpType
  <1>7. q \in DumpType
    BY <1>2, <1>3, <1>5, Zenon DEF DumpType
  <1>8. o.overlap = {} => Quiet(q)
    BY <1>3, <1>6, QuietPlan DEF DumpInv, t
  <1>9. o.overlap # {} /\ (length - 1) \notin o.overlap =>
            \E p, k \in Nat : Overlapped(q, p, k)
    BY <1>3, <1>6, OverlappedPlan DEF DumpInv, t
  <1>10. DumpInv(q)
    BY <1>3, <1>5, <1>6, <1>8, <1>9, Zenon DEF DumpInv
  <1>11. OneDump' /\ is_blocked' \in BOOLEAN
    BY <1>1, <1>3, <1>4, <1>6, StillOneDump, Zenon DEF Inv, TypeOK
  <1> QED BY <1>3, <1>4, <1>7, <1>10, <1>11, DumpStep, Zenon

\* Writing a frame moves a place from what is to be written to what is.
LEMMA CopiedRanges ==
    ASSUME NEW t \in Seq(Nat), t # <<>>, NEW w \in Seq(Nat), NEW f \in Nat
    PROVE  /\ Head(t) \in Nat /\ Tail(t) \in Seq(Nat) /\ Append(w, f) \in Seq(Nat)
           /\ Len(Tail(t)) = Len(t) - 1 /\ Len(Append(w, f)) = Len(w) + 1
           /\ Len(t) \in Nat /\ Len(t) > 0 /\ Len(w) \in Nat
           /\ Head(t) = t[1]
           /\ \A i \in 1..(Len(t) - 1) : Tail(t)[i] = t[i + 1]
           /\ \A i \in 1..Len(w) : Append(w, f)[i] = w[i]
           /\ Append(w, f)[Len(w) + 1] = f
           /\ Range(t) = {Head(t)} \cup Range(Tail(t))
           /\ Range(Append(w, f)) = Range(w) \cup {f}
  <1>1. /\ Head(t) \in Nat /\ Tail(t) \in Seq(Nat) /\ Append(w, f) \in Seq(Nat)
        /\ Len(Tail(t)) = Len(t) - 1 /\ Len(Append(w, f)) = Len(w) + 1
        /\ Len(t) \in Nat /\ Len(t) > 0 /\ Len(w) \in Nat
        /\ Head(t) = t[1]
    OBVIOUS
  <1>2. \A i \in 1..(Len(t) - 1) : Tail(t)[i] = t[i + 1]
    OBVIOUS
  <1>3. \A i \in 1..Len(w) : Append(w, f)[i] = w[i]
    OBVIOUS
  <1>4. Append(w, f)[Len(w) + 1] = f
    OBVIOUS
  <1>5. /\ Range(t) = {t[i] : i \in 1..Len(t)}
        /\ Range(Tail(t)) = {Tail(t)[i] : i \in 1..(Len(t) - 1)}
        /\ Range(w) = {w[i] : i \in 1..Len(w)}
        /\ Range(Append(w, f)) = {Append(w, f)[i] : i \in 1..(Len(w) + 1)}
    <2>1. \A s \in Seq(Nat) : Range(s) = {s[i] : i \in 1..Len(s)}
      <3> SUFFICES ASSUME NEW s \in Seq(Nat) PROVE Range(s) = {s[i] : i \in 1..Len(s)}
        OBVIOUS
      <3>1. DOMAIN s = 1..Len(s)
        OBVIOUS
      <3> QED BY <3>1 DEF Range
    <2> QED BY <1>1, <2>1, Zenon
  <1>6. Range(t) \subseteq {Head(t)} \cup Range(Tail(t))
    <2> SUFFICES ASSUME NEW i \in 1..Len(t), i # 1 PROVE t[i] \in Range(Tail(t))
      BY <1>1, <1>5
    <2>1. (i - 1) \in 1..(Len(t) - 1) /\ (i - 1) + 1 = i
      BY <1>1
    <2>2. Tail(t)[i - 1] = t[i]
      BY <1>2, <2>1
    <2> QED BY <1>5, <2>1, <2>2, SMTT(30)
  <1>7. {Head(t)} \cup Range(Tail(t)) \subseteq Range(t)
    <2>1. Head(t) \in Range(t)
      <3>1. 1 \in 1..Len(t)
        BY <1>1
      <3> QED BY <1>1, <1>5, <3>1
    <2>2. ASSUME NEW i \in 1..(Len(t) - 1) PROVE Tail(t)[i] \in Range(t)
      <3>1. i + 1 \in 1..Len(t)
        BY <1>1
      <3> QED BY <1>2, <1>5, <3>1
    <2> QED BY <1>5, <2>1, <2>2
  <1>8. Range(Append(w, f)) = Range(w) \cup {f}
    <2>1. \A i \in 1..(Len(w) + 1) : i \in 1..Len(w) \/ i = Len(w) + 1
      BY <1>1
    <2>2. \A i \in 1..Len(w) : i \in 1..(Len(w) + 1)
      BY <1>1
    <2>3. Len(w) + 1 \in 1..(Len(w) + 1)
      BY <1>1
    <2> QED BY <1>3, <1>4, <1>5, <2>1, <2>2, <2>3
  <1> QED BY <1>1, <1>2, <1>3, <1>4, <1>6, <1>7, <1>8

LEMMA DumpCopyKeeps ==
    ASSUME Inv, NEW d \in Dumpers, DumpCopy(d)
    PROVE  Inv'
  <1>1. PICK o : o = dump[d]
    OBVIOUS
  <1>2. PICK c : c = Head(o.todo)
    OBVIOUS
  <1>3. PICK f : f = data[c]
    OBVIOUS
  <1>4. PICK q : q = [o EXCEPT !.todo = Tail(o.todo), !.out = Append(o.out, f)]
    OBVIOUS
  <1>5. /\ o.pc = "copy" /\ o \in DumpType /\ DumpInv(o) /\ o.todo # <<>>
        /\ UNCHANGED <<data, index, count, is_blocked, append, begun, log>>
    BY <1>1 DEF DumpCopy, Inv, TypeOK
  <1>6. dump' = [dump EXCEPT ![d] = q]
    BY <1>1, <1>2, <1>3, <1>4, Zenon DEF DumpCopy
  <1>7. PICK t : t = o.todo
    OBVIOUS
  <1>8. PICK w : w = o.out
    OBVIOUS
  <1>9. t \in Seq(Nat) /\ w \in Seq(Nat) /\ t # <<>> /\ c = Head(t)
    BY <1>2, <1>5, <1>7, <1>8 DEF DumpType
  <1>10. c \in Range(t)
    BY <1>9 DEF Range
  <1>11. \A x \in Range(t) : x < length /\ data[x] \in 1..Len(log)
    BY <1>5, <1>7 DEF DumpInv
  <1>12. f \in 1..Len(log) /\ f \in Nat
    BY <1>3, <1>10, <1>11, NumbersKnown
  <1>13. /\ Head(t) \in Nat /\ Tail(t) \in Seq(Nat) /\ Append(w, f) \in Seq(Nat)
         /\ Len(Tail(t)) = Len(t) - 1 /\ Len(Append(w, f)) = Len(w) + 1
         /\ Len(t) \in Nat /\ Len(t) > 0 /\ Len(w) \in Nat
         /\ Head(t) = t[1]
         /\ \A i \in 1..(Len(t) - 1) : Tail(t)[i] = t[i + 1]
         /\ \A i \in 1..Len(w) : Append(w, f)[i] = w[i]
         /\ Append(w, f)[Len(w) + 1] = f
         /\ Range(t) = {Head(t)} \cup Range(Tail(t))
         /\ Range(Append(w, f)) = Range(w) \cup {f}
    BY <1>9, <1>12, CopiedRanges
  <1>14. /\ q.todo = Tail(t) /\ q.out = Append(w, f)
         /\ q.pc = o.pc /\ q.more = o.more /\ q.want = o.want /\ q.overlap = o.overlap
    BY <1>4, <1>5, <1>7, <1>8 DEF DumpType
  <1>15. q \in DumpType
    BY <1>4, <1>5, <1>7, <1>8, <1>13, Zenon DEF DumpType
  <1>16. ASSUME Quiet(o) PROVE Quiet(q)
    <2>1. /\ Len(w) + Len(t) + (IF o.more THEN index ELSE 0) = Len(o.want)
          /\ \A i \in 1..Len(w) : w[i] = o.want[i]
          /\ \A i \in 1..Len(t) : data[t[i]] = o.want[Len(w) + i]
      BY <1>5, <1>7, <1>8, <1>16, Zenon DEF Quiet
    <2>2. f = o.want[Len(w) + 1]
      BY <1>3, <1>9, <1>13, <2>1
    <2>3. Len(q.out) + Len(q.todo) = Len(w) + Len(t)
      BY <1>13, <1>14
    <2>4. ASSUME NEW i \in 1..Len(q.out) PROVE q.out[i] = o.want[i]
      <3>1. i \in 1..Len(w) \/ i = Len(w) + 1
        BY <1>13, <1>14
      <3> QED BY <1>13, <1>14, <2>1, <2>2, <3>1
    <2>5. ASSUME NEW i \in 1..Len(q.todo)
          PROVE  data[q.todo[i]] = o.want[Len(q.out) + i]
      <3>1. i \in 1..(Len(t) - 1) /\ i + 1 \in 1..Len(t)
        BY <1>13, <1>14
      <3>2. Len(q.out) + i = Len(w) + (i + 1)
        BY <1>13, <1>14
      <3>3. q.todo[i] = t[i + 1]
        BY <1>13, <1>14, <3>1
      <3> QED BY <2>1, <3>1, <3>2, <3>3
    <2>6. Len(q.out) + Len(q.todo) + (IF q.more THEN index ELSE 0) = Len(q.want)
      BY <1>14, <2>1, <2>3, Zenon
    <2> QED BY <1>5, <1>14, <1>16, <2>4, <2>5, <2>6, Zenon DEF Quiet
  <1>17. ASSUME NEW p \in Nat, NEW k \in Nat, Overlapped(o, p, k)
         PROVE  Overlapped(q, p, k)
    <2>1. ASSUME NEW x \in 0..(Kept(k) - 1)
          PROVE  \/ x = p \/ data[x] \in Range(q.out) \/ x \in Range(q.todo)
                 \/ q.more /\ x < p
      <3>1. \/ x = p \/ data[x] \in Range(o.out) \/ x \in Range(o.todo)
            \/ o.more /\ x < p
        BY <1>5, <1>17, Zenon DEF Overlapped
      <3>2. Range(o.out) = Range(w) /\ Range(o.todo) = Range(t)
        BY <1>7, <1>8
      <3>3. Range(q.out) = Range(w) \cup {f} /\ Range(q.todo) = Range(Tail(t))
        BY <1>13, <1>14
      <3>4. x \in Range(t) => x \in Range(q.todo) \/ data[x] = f
        BY <1>3, <1>9, <1>13, <3>3, SMTT(30)
      <3> QED BY <1>14, <3>1, <3>2, <3>3, <3>4
    <2> QED BY <1>5, <1>14, <1>17, <2>1 DEF Overlapped
  <1>18. DumpInv(q)
    <2>1. Range(q.out) \subseteq 1..Len(log)
      BY <1>5, <1>8, <1>12, <1>13, <1>14, SMTT(30) DEF DumpInv
    <2>2. \A x \in Range(q.todo) : x < length /\ data[x] \in 1..Len(log)
      BY <1>11, <1>13, <1>14
    <2> QED BY <1>5, <1>14, <1>16, <1>17, <2>1, <2>2, SMTT(30) DEF DumpInv
  <1>19. OneDump' /\ is_blocked' \in BOOLEAN
    BY <1>1, <1>5, <1>6, <1>14, StillOneDump, Zenon DEF Inv, TypeOK
  <1> QED BY <1>5, <1>6, <1>15, <1>18, <1>19, DumpStep, Zenon

LEMMA DumpSecondKeeps ==
    ASSUME OneAppender, Inv, NEW d \in Dumpers, DumpSecond(d)
    PROVE  Inv'
  <1>1. PICK o : o = dump[d]
    OBVIOUS
  <1>2. PICK t : t = Places(0, index)
    OBVIOUS
  <1>3. PICK q : q = [o EXCEPT !.todo = t, !.more = FALSE]
    OBVIOUS
  <1>4. /\ o.pc = "copy" /\ o \in DumpType /\ DumpInv(o) /\ o.todo = <<>> /\ o.more
        /\ UNCHANGED <<data, index, count, is_blocked, append, begun, log>>
    BY <1>1 DEF DumpSecond, Inv, TypeOK
  <1>5. dump' = [dump EXCEPT ![d] = q]
    BY <1>1, <1>2, <1>3, Zenon DEF DumpSecond
  <1>6. /\ t \in Seq(Nat) /\ Len(t) = index /\ Range(t) = 0..(index - 1)
        /\ \A i \in 1..index : t[i] = i - 1
    <2>1. index \in Nat /\ 0 \in Nat /\ 0 <= index
      BY NumbersKnown
    <2>2. /\ t \in Seq(Nat) /\ Len(t) = index - 0 /\ Range(t) = 0..(index - 1)
          /\ \A i \in 1..(index - 0) : t[i] = 0 + i - 1
      BY <1>2, <2>1, PlacesAre, Zenon
    <2> QED BY <2>1, <2>2
  <1>7. /\ q.todo = t /\ q.more = FALSE /\ q.out = o.out
        /\ q.pc = o.pc /\ q.want = o.want /\ q.overlap = o.overlap
    BY <1>3, <1>4 DEF DumpType
  <1>8. q \in DumpType
    BY <1>3, <1>4, <1>6, Zenon DEF DumpType
  <1>9. Len(log) >= length /\ Kept(Len(log)) = length
    BY <1>4, NumbersKnown DEF DumpInv, Kept
  <1>10. \A c \in Range(t) : c < length /\ data[c] \in 1..Len(log)
    <2>1. \A c \in Range(t) : c \in 0..(Kept(Len(log)) - 1) /\ c < length
      BY <1>6, <1>9, NumbersKnown, SMTT(30)
    <2> QED BY <2>1, PlacesHold
  <1>11. ASSUME Quiet(o) PROVE Quiet(q)
    <2>1. ~At({"mask"}) /\ ~At({"advance"})
      BY <1>11 DEF Quiet, At
    <2>2. index # length
      BY <2>1 DEF Inv, Positions
    <2>3. Place = index
      BY <2>1, <2>2 DEF Place, Wrap
    <2>4. PICK k : k = Len(log)
      BY Zenon
    <2>5. PICK p : p = index
      OBVIOUS
    <2>6. /\ length \in Nat /\ k \in Nat /\ p \in Nat /\ p < length
          /\ Len(o.out) = length - p /\ Len(o.want) = length
          /\ \A i \in 1..length : o.want[i] = k - length + i
          /\ \A c \in 0..(p - 1) : data[c] = k - p + 1 + c
      <3>1. Ring(data, p, k)
        BY <2>3, <2>4, <2>5 DEF Inv
      <3>2. Len(o.out) + Len(o.todo) + p = Len(o.want) /\ Len(o.want) = length
        BY <1>4, <1>11, <2>5 DEF Quiet
      <3>3. Len(o.todo) = 0 /\ Len(o.out) \in Nat
        BY <1>4 DEF DumpType
      <3>4. Wanted(o.want, k)
        BY <1>11, <2>4 DEF Quiet
      <3>5. length \in Nat /\ k \in Nat /\ p \in Nat /\ p < length
        BY <2>2, <2>4, <2>5, NumbersKnown
      <3> QED BY <3>1, <3>2, <3>3, <3>4, <3>5 DEF Ring, Wanted
    <2>7. ASSUME NEW i \in 1..Len(t)
          PROVE  data[t[i]] = o.want[Len(o.out) + i]
      <3>1. i \in 1..p /\ t[i] = i - 1 /\ i - 1 \in 0..(p - 1)
        BY <1>6, <2>5, <2>6
      <3>2. Len(o.out) + i \in 1..length
        <4>1. Len(o.out) = length - p /\ length \in Nat /\ p \in Nat /\ p < length
          BY <2>6
        <4> QED BY <3>1, <4>1
      <3>3. data[i - 1] = k - p + 1 + (i - 1)
        BY <2>6, <3>1
      <3>4. o.want[Len(o.out) + i] = k - length + (Len(o.out) + i)
        BY <2>6, <3>2
      <3>5. k - p + 1 + (i - 1) = k - length + (Len(o.out) + i)
        BY <2>6, <3>1
      <3> QED BY <3>1, <3>3, <3>4, <3>5
    <2>8. Len(q.out) + Len(q.todo) + (IF q.more THEN index ELSE 0) = Len(q.want)
      <3>1. Len(q.out) = length - p /\ Len(q.todo) = p /\ Len(q.want) = length
        BY <1>6, <1>7, <2>5, <2>6
      <3>2. (IF q.more THEN index ELSE 0) = 0
        BY <1>7
      <3> QED BY <2>6, <3>1, <3>2
    <2>9. \A i \in 1..Len(o.out) : o.out[i] = o.want[i]
      BY <1>4, <1>11, SMTT(30) DEF Quiet
    <2> QED BY <1>4, <1>7, <1>11, <2>7, <2>8, <2>9 DEF Quiet
  <1>12. ASSUME NEW p \in Nat, NEW k \in Nat, Overlapped(o, p, k)
         PROVE  Overlapped(q, p, k)
    <2>1. index \in {p, p + 1}
      BY <1>12, OverlapCount
    <2>2. Range(o.todo) = {}
      BY <1>4 DEF Range
    <2>3. ASSUME NEW x \in 0..(Kept(k) - 1)
          PROVE  x = p \/ data[x] \in Range(q.out) \/ x \in Range(q.todo)
      <3>1. x = p \/ data[x] \in Range(o.out) \/ x < p
        BY <1>4, <1>12, <2>2, Zenon DEF Overlapped
      <3>2. x < p => x \in Range(t)
        BY <1>6, <2>1, SMTT(30)
      <3> QED BY <1>7, <3>1, <3>2
    <2> QED BY <1>4, <1>7, <1>12, <2>3 DEF Overlapped
  <1>13. DumpInv(q)
    BY <1>4, <1>7, <1>10, <1>11, <1>12 DEF DumpInv
  <1>14. OneDump' /\ is_blocked' \in BOOLEAN
    BY <1>1, <1>4, <1>5, <1>7, StillOneDump, Zenon DEF Inv, TypeOK
  <1> QED BY <1>4, <1>5, <1>8, <1>13, <1>14, DumpStep, Zenon

\* The frames at the places other than that of the append are all that were
\* wanted, but for one.
LEMMA OverlappedEnds ==
    ASSUME OneAppender, Inv, NEW o \in DumpType, NEW p \in Nat, NEW k \in Nat,
           Overlapped(o, p, k), o.pc = "copy", o.todo = <<>>, ~o.more
    PROVE  OneMissing(o)
  <1>1. PICK n : n = Len(log)
    OBVIOUS
  <1>2. PICK h : h = Place
    BY SMTT(30)
  <1>3. /\ length \in Nat /\ n \in Nat /\ h \in 0..(length - 1) /\ p + 1 < length
        /\ Ring(data, h, n) /\ data \in [0..(length - 1) -> Nat]
        /\ k < length => n < length
    BY <1>1, <1>2, NumbersKnown, OverlapCount DEF Inv
  <1>4. \/ h = p /\ n = k
        \/ h = p + 1 /\ n \in {k, k + 1}
    BY <1>1, <1>2 DEF Overlapped
  <1>5. Range(o.todo) = {}
    BY DEF Range
  <1>6. \A c \in 0..(Kept(k) - 1) : c # p => data[c] \in Range(o.out)
    BY <1>5, Zenon DEF Overlapped
  <1>7. /\ \A i \in 1..Len(o.want) : o.want[i] = k - Len(o.want) + i
        /\ Len(o.want) = Kept(k)
    BY DEF Overlapped, Wanted
  <1>8. PICK x \in Nat : x = IF k < length THEN p + 1
                             ELSE IF n = k THEN data[p] ELSE k - length + 1
    <2>1. (IF k < length THEN p + 1
            ELSE IF n = k THEN data[p] ELSE k - length + 1) \in Nat
      BY <1>3
    <2> QED BY <2>1
  <1>9. ASSUME NEW i \in 1..Len(o.want)
        PROVE  o.want[i] = x \/ \E c \in 0..(Kept(k) - 1) : c # p /\ data[c] = o.want[i]
    <2>1. CASE k < length
      <3>1. h = n /\ Len(o.want) = k /\ o.want[i] = i
        BY <1>3, <1>7, <2>1 DEF Ring, Wrap, Kept
      <3>2. (i - 1) \in 0..(Kept(k) - 1) /\ (i - 1) \in 0..(h - 1)
        BY <1>3, <1>4, <2>1, <3>1, SMTT(30) DEF Kept
      <3>3. data[i - 1] = i
        BY <1>3, <3>1, <3>2 DEF Ring
      <3>4. i - 1 = p => i = x
        BY <1>8, <2>1
      <3> QED BY <3>1, <3>2, <3>3, <3>4
    <2>2. CASE ~(k < length)
      <3>1. /\ Len(o.want) = length /\ i \in 1..length
            /\ o.want[i] = k - length + i /\ Kept(k) = length /\ n >= length
        BY <1>3, <1>4, <1>7, <2>2, SMTT(30) DEF Kept
      <3>2. /\ \A c \in 0..(h - 1) : data[c] = n - h + 1 + c
            /\ \A c \in h..(length - 1) : data[c] = n - h + 1 + c - length
        BY <1>3, <3>1 DEF Ring
      <3>3. CASE n = k
        <4>1. PICK c \in 0..(length - 1) : data[c] = k - length + i
          <5>1. CASE i <= length - h
            <6>1. h + i - 1 \in h..(length - 1)
              BY <1>3, <3>1, <5>1
            <6>2. data[h + i - 1] = k - length + i
              BY <1>3, <3>1, <3>2, <3>3, <6>1, SMTT(30)
            <6> QED BY <1>3, <6>1, <6>2
          <5>2. CASE i > length - h
            <6>1. h + i - 1 - length \in 0..(h - 1)
              BY <1>3, <3>1, <5>2
            <6>2. data[h + i - 1 - length] = k - length + i
              BY <1>3, <3>1, <3>2, <3>3, <6>1, SMTT(30)
            <6> QED BY <1>3, <6>1, <6>2
          <5> QED BY <1>3, <3>1, <5>1, <5>2
        <4> QED BY <1>8, <2>2, <3>1, <3>3, <4>1
      <3>4. CASE n = k + 1 /\ h = p + 1
        <4>1. CASE i = 1
          BY <1>8, <1>3, <2>2, <3>1, <3>4, <4>1
        <4>2. CASE i # 1
          <5>1. CASE i <= length - h + 1
            <6>1. p + i - 1 \in h..(length - 1) /\ p + i - 1 # p
              BY <1>3, <3>1, <3>4, <4>2, <5>1
            <6>2. data[p + i - 1] = k - length + i
              BY <1>3, <3>1, <3>2, <3>4, <6>1
            <6> QED BY <1>3, <3>1, <6>1, <6>2, SMTT(30)
          <5>2. CASE i > length - h + 1
            <6>1. p + i - 1 - length \in 0..(h - 1) /\ p + i - 1 - length # p
              BY <1>3, <3>1, <3>4, <4>2, <5>2
            <6>2. data[p + i - 1 - length] = k - length + i
              BY <1>3, <3>1, <3>2, <3>4, <6>1
            <6> QED BY <1>3, <3>1, <6>1, <6>2
          <5> QED BY <1>3, <3>1, <5>1, <5>2
        <4> QED BY <4>1, <4>2
      <3> QED BY <1>4, <3>3, <3>4
    <2> QED BY <2>1, <2>2
  <1>10. \A i \in 1..Len(o.want) : o.want[i] \in Range(o.out) \cup {x}
    BY <1>6, <1>9
  <1>11. Range(o.want) = {o.want[i] : i \in 1..Len(o.want)}
    <2>1. o.want \in Seq(Nat)
      BY DEF DumpType
    <2>2. DOMAIN o.want = 1..Len(o.want)
      BY <2>1
    <2> QED BY <2>2 DEF Range
  <1>12. Range(o.want) \subseteq Range(o.out) \cup {x}
    BY <1>10, <1>11
  <1> QED BY <1>12 DEF OneMissing

LEMMA DumpUnblockKeeps ==
    ASSUME OneAppender, Inv, NEW d \in Dumpers, DumpUnblock(d)
    PROVE  Inv'
  <1>1. PICK o : o = dump[d]
    OBVIOUS
  <1>2. PICK q : q = [o EXCEPT !.pc = "done"]
    BY Zenon
  <1>3. /\ o.pc = "copy" /\ o \in DumpType /\ DumpInv(o) /\ o.todo = <<>> /\ ~o.more
        /\ is_blocked' = FALSE /\ UNCHANGED <<data, index, count, append, begun, log>>
    BY <1>1 DEF DumpUnblock, Inv, TypeOK
  <1>4. dump' = [dump EXCEPT ![d] = q]
    BY <1>1, <1>2 DEF DumpUnblock
  <1>5. /\ q.pc = "done" /\ q.out = o.out /\ q.want = o.want /\ q.overlap = o.overlap
        /\ q \in DumpType
    BY <1>2, <1>3, Zenon DEF DumpType
  <1>6. ASSUME o.overlap = {} PROVE o.out = o.want
    <2>1. Quiet(o)
      BY <1>3, <1>6 DEF DumpInv
    <2>2. o.out \in Seq(Nat) /\ o.want \in Seq(Nat) /\ Len(o.todo) = 0
      BY <1>3, SMTT(30) DEF DumpType
    <2>3. Len(o.out) = Len(o.want) /\ \A i \in 1..Len(o.out) : o.out[i] = o.want[i]
      BY <1>3, <2>1, <2>2 DEF Quiet
    <2>4. \A s, t \in Seq(Nat) :
            Len(s) = Len(t) /\ (\A i \in 1..Len(s) : s[i] = t[i]) => s = t
      BY SMTT(30)
    <2> QED BY <2>2, <2>3, <2>4, Zenon
  <1>7. ASSUME (length - 1) \notin o.overlap PROVE OneMissing(q)
    <2>1. CASE o.overlap = {}
      <3>1. Range(q.want) \subseteq Range(q.out) \cup {0} /\ 0 \in Nat
        BY <1>5, <1>6, <2>1
      <3> QED BY <3>1 DEF OneMissing
    <2>2. CASE o.overlap # {}
      <3>1. \E p, k \in Nat : Overlapped(o, p, k)
        BY <1>3, <1>7, <2>2 DEF DumpInv
      <3>2. OneMissing(o)
        BY <1>3, <3>1, OverlappedEnds, SMTT(30)
      <3> QED BY <1>5, <3>2 DEF OneMissing
    <2> QED BY <2>1, <2>2
  <1>8. DumpInv(q)
    BY <1>3, <1>5, <1>6, <1>7 DEF DumpInv
  <1>9. OneDump'
    <2>1. \A e \in Dumpers : e # d => dump[e].pc \notin {"plan", "copy"}
      BY <1>1, <1>3 DEF Inv, OneDump
    <2>2. \A e \in Dumpers : dump'[e].pc \notin {"plan", "copy"}
      BY <1>4, <1>5, <2>1 DEF Inv, TypeOK
    <2> QED BY <1>3, <2>2 DEF OneDump
  <1> QED BY <1>3, <1>4, <1>5, <1>8, <1>9, DumpStep, Zenon

-----------------------------------------------------------------------------
(* The theorems. *)

LEMMA InitInv == Init => Inv
  <1> SUFFICES ASSUME Init PROVE Inv
    OBVIOUS
  <1>1. length \in Nat /\ length > 0 /\ Len(log) = 0
    BY LengthAssumption DEF Init
  <1>2. TypeOK
    <2>1. [pc |-> "idle", frame |-> 0, at |-> 0] \in AppendType
      BY <1>1 DEF AppendType
    <2>2. NoDump \in DumpType
      BY DEF NoDump, DumpType
    <2>3. data \in [0..(length - 1) -> Nat]
      BY DEF Init
    <2>4. append \in [Appenders -> AppendType] /\ dump \in [Dumpers -> DumpType]
      BY <2>1, <2>2 DEF Init
    <2>5. index \in 0..length /\ count \in 0..length /\ begun \in Nat /\ log \in Seq(Nat)
      BY <1>1 DEF Init
    <2>6. is_blocked \in BOOLEAN
      BY Zenon DEF Init
    <2> QED BY <2>3, <2>4, <2>5, <2>6 DEF TypeOK
  <1>3. \A steps : "idle" \notin steps => ~At(steps)
    BY DEF Init, At
  <1>4. /\ ~At({"mask"}) /\ ~At({"advance"}) /\ ~At({"advance", "mask", "count"})
        /\ ~At({"load", "store"})
    BY <1>3
  <1>5. Positions
    BY <1>1, <1>4 DEF Init, Positions, Kept
  <1>6. Place = 0
    BY <1>4 DEF Place, Wrap, Init
  <1>7. Ring(data, Place, Len(log))
    BY <1>1, <1>6 DEF Ring, Wrap
  <1>8. OneDump
    BY DEF OneDump, Init, NoDump
  <1>9. ASSUME NEW d \in Dumpers PROVE DumpInv(dump[d])
    BY DEF DumpInv, Init, NoDump, Range
  <1> QED BY <1>2, <1>5, <1>7, <1>8, <1>9 DEF Inv

LEMMA NextInv == ASSUME OneAppender, Inv, [Next]_vars PROVE Inv'
  <1>1. CASE UNCHANGED vars
    <2> USE <1>1 DEF vars
    <2>1. \A steps : At(steps)' <=> At(steps)
      BY DEF At
    <2>2. Place' = Place
      BY <2>1, SMTT(30) DEF Place
    <2>3. TypeOK' /\ Positions' /\ OneDump' /\ Ring(data, Place, Len(log))'
      BY <2>1, <2>2 DEF Inv, TypeOK, Positions, OneDump, Ring
    <2>4. ASSUME NEW d \in Dumpers PROVE DumpInv(dump[d])'
      <3>1. DumpInv(dump[d])
        BY DEF Inv
      <3>2. Quiet(dump[d]) => Quiet(dump[d])'
        BY <2>1, ZenonT(30) DEF Quiet
      <3>3. \A p, k \in Nat : Overlapped(dump[d], p, k) => Overlapped(dump[d], p, k)'
        BY <2>1, <2>2 DEF Overlapped
      <3> QED BY <3>1, <3>2, <3>3, Zenon DEF DumpInv, OneMissing
    <2> QED BY <2>3, <2>4 DEF Inv
  <1>2. CASE \E a \in Appenders : tb_append(a)
    BY <1>2, AppendCheckKeeps, AppendLoadKeeps, AppendStoreKeeps, AppendRestKeeps, Zenon
       DEF tb_append
  <1>3. CASE \E d \in Dumpers : tb_dump(d)
    BY <1>3, DumpBlockKeeps, DumpPlanKeeps, DumpCopyKeeps, DumpSecondKeeps,
       DumpUnblockKeeps, Zenon DEF tb_dump
  <1> QED BY <1>1, <1>2, <1>3, Zenon DEF Next

\* With one thread that appends, the ring always holds the latest frames at the
\* places that the index and the count say, once the steps that the append under
\* way has still to make are allowed for.
THEOREM RingInvariance ==
    ASSUME OneAppender
    PROVE  Spec => []Inv
  <1>1. Init => Inv
    BY InitInv
  <1>2. Inv /\ [Next]_vars => Inv'
    BY NextInv
  <1> QED BY <1>1, <1>2, PTL DEF Spec

\* With one thread that appends (tb_append) and any number of workers that dump
\* (tb_dump), a dump holds received frames only, is exact when it began in
\* quiet, and lacks at most one of the frames that were stored when it overlaps
\* an append that does not fill the last place.
THEOREM DumpsAreExact ==
    ASSUME OneAppender
    PROVE  Spec => []DumpsExact
  <1>1. Inv => DumpsExact
    <2> SUFFICES ASSUME Inv PROVE DumpsExact
      BY SMTT(30)
    <2>1. QuietDumpIsLatest
      BY DEF QuietDumpIsLatest, Inv, DumpInv
    <2>2. AtMostOneLost
      <3> SUFFICES ASSUME NEW d \in Dumpers, dump[d].pc = "done",
                          (length - 1) \notin dump[d].overlap
                   PROVE  \A f, g \in Range(dump[d].want) \ Range(dump[d].out) : f = g
        BY DEF AtMostOneLost
      <3>1. OneMissing(dump[d])
        BY DEF Inv, DumpInv
      <3>2. PICK x : Range(dump[d].want) \subseteq Range(dump[d].out) \cup {x}
        BY <3>1 DEF OneMissing
      <3> QED BY <3>2
    <2>3. OnlyStored
      <3> SUFFICES ASSUME NEW d \in Dumpers PROVE Range(dump[d].out) \subseteq Range(log)
        BY DEF OnlyStored
      <3>1. Range(dump[d].out) \subseteq 1..Len(log)
        BY DEF Inv, DumpInv
      <3>2. DOMAIN log = 1..Len(log) /\ \A i \in 1..Len(log) : log[i] = i
        BY DEF Inv, TypeOK, Positions
      <3>3. 1..Len(log) \subseteq Range(log)
        BY <3>2 DEF Range
      <3> QED BY <3>1, <3>3
    <2> QED BY <2>1, <2>2, <2>3 DEF DumpsExact
  <1> QED BY <1>1, RingInvariance, PTL
=============================================================================
