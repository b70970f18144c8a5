-------------------------------- MODULE Ini --------------------------------
(***************************************************************************)
(* The parser of ini files (ini_parser.c), which reads the configuration   *)
(* and the electronic data sheets.  Of a line, trimmed, the model keeps    *)
(* what the parser looks at, its first and last characters and whether it  *)
(* has a "=", and the name, key and value in it, in lower case as the      *)
(* parser makes them.                                                      *)
(*                                                                         *)
(* Sections and keys are sorted by qsort and found by bsearch, which       *)
(* promise nothing about equal elements: what a search may find is a set.  *)
(***************************************************************************)
EXTENDS Integers, Sequences

CONSTANTS Absent    \* what a search that finds nothing returns

Blank == [first |-> "none", last |-> "none", eq |-> FALSE]
Comment == [first |-> ";", last |-> "other", eq |-> TRUE]
Section(name) == [first |-> "[", last |-> "]", eq |-> FALSE, name |-> name]
BrokenSection == [first |-> "[", last |-> "other", eq |-> FALSE]
Pair(key, value) ==
    [first |-> "other", last |-> "other", eq |-> TRUE, key |-> key, value |-> value]
NoPair == [first |-> "other", last |-> "]", eq |-> FALSE]

\* A name that is just a text.
Named(text) == [text |-> text]

\* memset, and the section of the lines before the first header.
EmptyIni ==
    [lineno |-> 0, sorted |-> FALSE, section |-> <<[name |-> Named("(root)"), kv |-> <<>>]>>]

-----------------------------------------------------------------------------
\* To the section that was appended last.
ini__append_new_key_value(ini, line) ==
    [ini EXCEPT !.section[Len(ini.section)].kv =
        Append(@, [key |-> line.key, value |-> line.value])]

ini__append_new_section(ini, name) ==
    [ini EXCEPT !.section = Append(@, [name |-> name, kv |-> <<>>])]

\* What a line does; lineno is that of a line that could not be parsed.
ini__parse_line(ini, line, lineno) ==
    CASE line.first \in {"none", ";"} -> ini
      [] line.first = "[" /\ line.last = "]" -> ini__append_new_section(ini, line.name)
      [] line.first = "other" /\ line.eq -> ini__append_new_key_value(ini, line)
      [] OTHER -> [ini EXCEPT !.lineno = lineno]

\* Parsing ends at the first error, with the lines before it kept.  Only a file
\* without one is sorted.
ini_parse(lines) ==
    LET After[i \in 0..Len(lines)] ==
            IF i = 0 THEN EmptyIni
            ELSE LET before == After[i - 1]
                 IN  IF before.lineno # 0 THEN before ELSE ini__parse_line(before, lines[i], i)
        ini == After[Len(lines)]
    IN  [ini EXCEPT !.sorted = (ini.lineno = 0)]

ini_find_section(ini, name) ==
    LET found == {i \in 1..Len(ini.section) : ini.section[i].name = name}
    IN  IF found = {} \/ ~ini.sorted THEN found \cup {Absent} ELSE found

ini_find_key(section, key) ==
    LET found == {i \in 1..Len(section.kv) : section.kv[i].key = key}
    IN  IF found = {} THEN {Absent} ELSE {section.kv[i].value : i \in found}

ini_find(ini, name, key) ==
    UNION {IF i = Absent THEN {Absent} ELSE ini_find_key(ini.section[i], key) :
              i \in ini_find_section(ini, name)}

-----------------------------------------------------------------------------
(* What is written in a file, by its lines alone. *)

\* The name of the section that line i is in.
SectionAt(lines, i) ==
    LET headers == {j \in 1..i : lines[j].first = "["} IN
    IF headers = {} THEN Named("(root)")
    ELSE lines[CHOOSE j \in headers : \A k \in headers : k <= j].name

WellFormed(lines) ==
    \A i \in 1..Len(lines) :
        \/ lines[i].first \in {"none", ";"}
        \/ lines[i].first = "[" /\ lines[i].last = "]"
        \/ lines[i].first = "other" /\ lines[i].eq

\* The values that a file gives to a key of a section.
Written(lines, name, key) ==
    {lines[i].value : i \in {j \in 1..Len(lines) :
        /\ lines[j].first = "other" /\ lines[j].key = key
        /\ SectionAt(lines, j) = name}}
=============================================================================
