-------------------------------- MODULE Eds --------------------------------
(***************************************************************************)
(* The database of electronic data sheets (eds.c).  The files of a         *)
(* directory are parsed one by one; the sections of a file become objects  *)
(* in a red-black tree, each one a step here; lookups find the sheet of a  *)
(* node, by its identity or by its name, and the objects in it.            *)
(*                                                                         *)
(* A section name is what eds__get_section_index makes of it: index is the *)
(* number that it starts with, tail what follows the number, sub the       *)
(* number behind "sub".  Sections are converted in the order of their      *)
(* texts, which may be any order of their numbers ("a" is behind "1000").  *)
(***************************************************************************)
EXTENDS Ini, RbTree

CONSTANTS IntWidth      \* bits of an int

VARIABLES
    files,      \* the files that the walk through the directory has not reached
    building,   \* the sheet being converted, and the sections left of its file
    eds__db,    \* the vector of sheets: its memory, and how many it says it has
    walk        \* "walking", "loaded", "failed", "unloading", "unloaded"

edsvars == <<files, building, eds__db, walk>>

NoSheet == [phase |-> "none"]

EdsInit(directory) ==
    /\ files = directory
    /\ building = NoSheet
    /\ eds__db = [data |-> <<>>, index |-> 0]
    /\ walk = "walking"

-----------------------------------------------------------------------------
IsObjectName(name) == "index" \in DOMAIN name

ObjectName(index, tail, sub) == [index |-> index, tail |-> tail, sub |-> sub]

\* -1 for a name that is not a number, with or without a "sub" behind it.
eds__get_section_index(name) ==
    IF IsObjectName(name) /\ name.tail \in {"", "sub"} THEN name.index ELSE -1

\* 0 without a "sub", or with nothing behind it; -1 if it is not a number.
eds__get_section_subindex(name) ==
    IF name.tail # "sub" \/ name.sub = Absent THEN 0 ELSE name.sub

Key(index, subindex) == index * 256 + subindex

\* Mutant: the object that was there is removed, and that is all.
InsertDropped(sheet, key, obj) ==
    IF RB_FIND(sheet.tree, key) = NULL
    THEN [sheet EXCEPT !.tree = RB_INSERT(sheet.tree, key),
                       !.obj = [k \in DOMAIN sheet.obj \cup {key} |->
                                   IF k = key THEN obj ELSE sheet.obj[k]]]
    ELSE [sheet EXCEPT !.tree = RB_REMOVE(sheet.tree, key),
                       !.obj = [k \in DOMAIN sheet.obj \ {key} |-> sheet.obj[k]]]

\* An object that has the key already is removed, and the new one takes its
\* place.
eds__insert(sheet, key, obj) ==
    LET t == IF RB_FIND(sheet.tree, key) = NULL THEN sheet.tree
             ELSE RB_REMOVE(sheet.tree, key)
    IN  [sheet EXCEPT !.tree = RB_INSERT(t, key),
                      !.obj = [k \in DOMAIN sheet.obj \cup {key} |->
                                  IF k = key THEN obj ELSE sheet.obj[k]]]

\* An object whose access is not given can be read, one whose access is not
\* known can neither be read nor written.
eds__get_access_type(access) ==
    CASE access \in {Absent, "ro"} -> {"R"}
      [] access = "wo" -> {"W"}
      [] access \in {"rw", "rwr", "rww"} -> {"R", "W"}
      [] access = "const" -> {"CONST"}
      [] OTHER -> {}

\* The sections that the loop of eds__convert_obj_tree does not pass over.
Convertible(section) ==
    /\ eds__get_section_index(section.name) >= 0
    /\ eds__get_section_subindex(section.name) >= 0
    /\ Absent \notin ini_find_key(section, "datatype")

\* A turn of that loop.
ConvertSection(sheet, section, type, access) ==
    eds__insert(sheet, Key(eds__get_section_index(section.name),
                           eds__get_section_subindex(section.name)),
                [type |-> type, access |-> eds__get_access_type(access)])

-----------------------------------------------------------------------------
(* Loading. *)

\* eds__walker and eds__load_file, up to the objects: a file that cannot be
\* parsed, or that does not say what device it is for, is passed over.
eds__load_file ==
    /\ walk = "walking" /\ building.phase = "none"
    /\ \E f \in files :
          LET ini == ini_parse(f) IN
          /\ files' = files \ {f}
          /\ \E vendor \in ini_find(ini, Named("deviceinfo"), "vendornumber"),
                product \in ini_find(ini, Named("deviceinfo"), "productnumber"),
                revision \in ini_find(ini, Named("deviceinfo"), "revisionnumber"),
                name \in ini_find(ini, Named("deviceinfo"), "productname") :
                building' =
                    IF ini.lineno # 0 \/ Absent \in {vendor, product, revision, name}
                    THEN NoSheet
                    ELSE [phase |-> "convert", ini |-> ini,
                          todo |-> {i \in 1..Len(ini.section) :
                                      Convertible(ini.section[i])},
                          sheet |-> [file |-> f, vendor |-> vendor, product |-> product,
                                     revision |-> revision, name |-> name,
                                     tree |-> RB_INIT, obj |-> <<>>]]
    /\ UNCHANGED <<eds__db, walk>>

\* The sections come in the order of their names, and equal ones in any; the
\* model takes them all in any order.
eds__convert_obj_tree ==
    /\ building.phase = "convert"
    /\ \E i \in building.todo :
          LET section == building.ini.section[i] IN
          \E type \in ini_find_key(section, "datatype"),
             access \in ini_find_key(section, "accesstype") :
             building' = [building EXCEPT !.todo = @ \ {i},
                              !.sheet = ConvertSection(@, section, type, access)]
    /\ UNCHANGED <<files, eds__db, walk>>

\* There is no memory for an object: the sheet is given up.
eds__obj_new_fails ==
    /\ building.phase = "convert" /\ building.todo # {}
    /\ building' = [building EXCEPT !.phase = "clear"]
    /\ UNCHANGED <<files, eds__db, walk>>

\* The end of eds__convert_ini.
eds__convert_ini ==
    /\ building.phase = "convert" /\ building.todo = {}
    /\ eds__db' = [data |-> Append(eds__db.data, building.sheet),
                   index |-> eds__db.index + 1]
    /\ building' = NoSheet
    /\ UNCHANGED <<files, walk>>

\* A turn of the loop of eds__clear: the first object goes.
ClearFirst(sheet) ==
    LET key == RB_MIN(sheet.tree)
    IN  [sheet EXCEPT !.tree = RB_REMOVE(@, key),
                      !.obj = [k \in DOMAIN sheet.obj \ {key} |-> sheet.obj[k]]]

eds__clear ==
    /\ building.phase = "clear"
    /\ building' = IF RB_EMPTY(building.sheet.tree) THEN NoSheet
                   ELSE [building EXCEPT !.sheet = ClearFirst(@)]
    /\ UNCHANGED <<files, eds__db, walk>>

\* nftw ends; it may fail in the middle of the directory.
eds__load_all_files ==
    /\ walk = "walking" /\ building.phase = "none"
    /\ \/ files = {} /\ walk' = "loaded"
       \/ files # {} /\ walk' = "failed"
    /\ UNCHANGED <<files, building, eds__db>>

-----------------------------------------------------------------------------
(* Unloading: at the end of the program, and when loading fails. *)

eds__db_clear ==
    /\ walk \in {"failed", "unloading"}
    /\ \E i \in 1..Len(eds__db.data) :
          /\ ~RB_EMPTY(eds__db.data[i].tree)
          /\ \A j \in 1..(i - 1) : RB_EMPTY(eds__db.data[j].tree)
          /\ eds__db' = [eds__db EXCEPT !.data[i] = ClearFirst(@)]
    /\ UNCHANGED <<files, building, walk>>

\* vector_destroy frees the memory and leaves the index as it is.
eds_db_unload ==
    /\ walk \in {"failed", "unloading"}
    /\ \A i \in 1..Len(eds__db.data) : RB_EMPTY(eds__db.data[i].tree)
    /\ eds__db' = [eds__db EXCEPT !.data = <<>>]
    /\ walk' = IF walk = "failed" THEN "loaded" ELSE "unloaded"
    /\ UNCHANGED <<files, building>>

\* co_master_run ends.
Shutdown ==
    /\ walk = "loaded"
    /\ walk' = "unloading"
    /\ UNCHANGED <<files, building, eds__db>>

EdsNext ==
    \/ eds__load_file \/ eds__convert_obj_tree \/ eds__obj_new_fails
    \/ eds__convert_ini \/ eds__clear \/ eds__load_all_files
    \/ eds__db_clear \/ eds_db_unload \/ Shutdown

-----------------------------------------------------------------------------
(* Lookups: the result is an index of the database, or NULL. *)

Least(S) == CHOOSE i \in S : \A j \in S : i <= j

Distance(a, b) == IF a > b THEN a - b ELSE b - a

\* The identity of a node is of unsigned numbers; lookups take them as ints.
AsInt(x) == IF x >= 2^(IntWidth - 1) THEN x - 2^IntWidth ELSE x

\* Mutant: a sheet of another revision ends the search.
FindFirst(db, vendor, product, revision) ==
    LET match == {i \in 1..Len(db) : /\ vendor <= 0 \/ AsInt(db[i].vendor) = vendor
                                     /\ product <= 0 \/ AsInt(db[i].product) = product}
    IN  IF match = {} THEN NULL ELSE Least(match)

\* The loop returns at a sheet that fits and remembers the nearest revision, the
\* first of equals, until then.
eds_db_find(db, vendor, product, revision) ==
    LET match == {i \in 1..Len(db) : /\ vendor <= 0 \/ AsInt(db[i].vendor) = vendor
                                     /\ product <= 0 \/ AsInt(db[i].product) = product}
        exact == {i \in match : revision <= 0 \/ AsInt(db[i].revision) = revision}
        Off(i) == Distance(revision, AsInt(db[i].revision))
    IN  IF exact # {} THEN Least(exact)
        ELSE IF match = {} THEN NULL
        ELSE Least({i \in match : \A j \in match : Off(i) <= Off(j)})

\* Names are sequences; the last of the longest that begin the name.
eds_db_find_by_name(db, name) ==
    LET match == {i \in 1..Len(db) :
                     /\ Len(db[i].name) <= Len(name)
                     /\ SubSeq(name, 1, Len(db[i].name)) = db[i].name}
        best == {i \in match : \A j \in match : Len(db[j].name) <= Len(db[i].name)}
    IN  IF best = {} THEN NULL ELSE CHOOSE i \in best : \A j \in best : j <= i

eds_obj_find(sheet, index, subindex) == RB_FIND(sheet.tree, Key(index, subindex))

\* The sheet of a node, for sdo-rest.c.
sdo_rest__find_eds(db, node) ==
    LET first == eds_db_find(db, AsInt(node.vendor), AsInt(node.product), AsInt(node.revision))
    IN  IF node.vendor = 0 THEN eds_db_find_by_name(db, node.name)
        ELSE IF first # NULL THEN first
        ELSE eds_db_find(db, AsInt(node.vendor), AsInt(node.product), -1)

-----------------------------------------------------------------------------
(* Properties. *)

Sheets ==
    {eds__db.data[i] : i \in 1..Len(eds__db.data)}
    \cup (IF building.phase = "none" THEN {} ELSE {building.sheet})

\* The tree of each sheet is a red-black tree after every insertion and removal:
\* its pointers agree, its keys are in order, no red node has a red child and all
\* ways down have as many black nodes.  Its nodes are the objects.
ObjectTrees ==
    \A s \in Sheets :
        /\ Nodes(s.tree) = DOMAIN s.obj
        /\ Linked(s.tree) /\ Balanced(s.tree) /\ Ordered(s.tree)

\* The sections of a file that describe an object, with the key.
Described(f) ==
    {i \in 1..Len(f) :
        /\ f[i].first = "[" /\ IsObjectName(f[i].name)
        /\ f[i].name.tail \in {"", "sub"} /\ f[i].name.index >= 0
        /\ eds__get_section_subindex(f[i].name) >= 0
        /\ i < Len(f) /\ f[i + 1].first = "other" /\ f[i + 1].key = "datatype"}

\* A loaded sheet has the objects of its file and no others: each one is found by
\* its index and subindex, with a type that the file gives it, and whatever the
\* order of the sections, the last one to be converted replaced the others.  The
\* trees it is found in are red-black trees at all times.
ObjectsAsWritten ==
    ObjectTrees /\ (walk \in {"walking", "loaded"} =>
        \A n \in 1..Len(eds__db.data) :
            LET s == eds__db.data[n]
                KeyOf(i) == Key(s.file[i].name.index, eds__get_section_subindex(s.file[i].name))
            IN  /\ DOMAIN s.obj = {KeyOf(i) : i \in Described(s.file)}
                /\ \A i \in Described(s.file) :
                      LET name == s.file[i].name IN
                      /\ eds_obj_find(s, name.index, eds__get_section_subindex(name)) = KeyOf(i)
                      /\ s.obj[KeyOf(i)].type \in
                            {s.file[j + 1].value : j \in {k \in Described(s.file) :
                                                             KeyOf(k) = KeyOf(i)}})

\* The sheet that is used for a node with an identity is one of its vendor and its
\* product, and none of them is of a nearer revision; a node has none only if the
\* database has none.  It is asked between two files (one that is being converted
\* is not in the database).  The database has as many sheets as its index says, except
\* after a failure in the middle of loading.  A number with its highest bit set is
\* negative, and a number that is not positive fits all sheets.
NearestSheet(nodes) ==
    /\ (walk = "walking" \/ (walk = "loaded" /\ files = {})) =>
          eds__db.index = Len(eds__db.data)
    /\ building.phase = "none" => \A node \in nodes :
           LET db == eds__db.data
               n  == sdo_rest__find_eds(db, node)
               fit == {i \in 1..Len(db) :
                          /\ db[i].vendor = node.vendor
                          /\ AsInt(node.product) > 0 => db[i].product = node.product}
           IN  AsInt(node.vendor) > 0 =>
                   /\ n = NULL <=> fit = {}
                   /\ n # NULL => /\ n \in fit
                                  /\ AsInt(node.revision) > 0 => \A i \in fit :
                                         Distance(node.revision, AsInt(db[n].revision))
                                           <= Distance(node.revision, AsInt(db[i].revision))
=============================================================================
