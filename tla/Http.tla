-------------------------------- MODULE Http --------------------------------
(***************************************************************************)
(* The parser of HTTP requests (http.c): a lexer with a state for each     *)
(* part of a request, and functions that each take a part of it or leave   *)
(* the token that they could not use for the next one.                     *)
(*                                                                         *)
(* A text is a sequence of items, each a run of characters that no state   *)
(* of the lexer divides: a word, a key with its colon, one solidus, one    *)
(* blank, one carriage return, and so on; "junk" is a character that is    *)
(* not printable.  No two words stand side by side, and letters are not    *)
(* told from capitals, as the code compares without regard to them.        *)
(***************************************************************************)
EXTENDS Integers, Sequences

CONSTANTS URL_INDEX_MAX

Mark(k) == [k |-> k]
Word(v) == [k |-> "lit", v |-> v]
Number(v, n) == [k |-> "lit", v |-> v, n |-> n]
KeyWord(v) == [k |-> "key", v |-> v]

-----------------------------------------------------------------------------
(* The lexer. *)

NoToken == [type |-> "NULL"]
Failed(i) == [token |-> NoToken, next |-> i]

\* The first place from i on that does not hold a k (strspn).
AfterRun(input, i, k) ==
    CHOOSE j \in i..(Len(input) + 1) :
        /\ j = Len(input) + 1 \/ input[j].k # k
        /\ \A l \in i..(j - 1) : input[l].k = k

\* Solidi and blanks are taken together; a literal is what its characters are.
httplex__classify_request_token(input, i) ==
    IF i > Len(input) \/ input[i].k = "junk" THEN Failed(i)
    ELSE LET x == input[i] IN
         CASE x.k \in {"/", "ws"} ->
                [token |-> [type |-> x.k], next |-> AfterRun(input, i, x.k)]
           [] x.k = "lit" -> [token |-> [type |-> "lit", value |-> x.v], next |-> i + 1]
           [] x.k = "key" ->
                [token |-> [type |-> "lit", value |-> x.v \o ":"], next |-> i + 1]
           [] OTHER -> [token |-> [type |-> x.k], next |-> i + 1]

\* A key, with its colon and the blanks behind it, or the end of the header.
httplex__classify_key_token(input, i) ==
    IF i > Len(input) \/ input[i].k \notin {"cr", "lf", "key"} THEN Failed(i)
    ELSE LET x == input[i] IN
         IF x.k = "key"
         THEN [token |-> [type |-> "key", value |-> x.v],
               next |-> AfterRun(input, i + 1, "ws")]
         ELSE [token |-> [type |-> x.k], next |-> i + 1]

\* All up to the next carriage return, which has to begin the end of a line.
httplex__classify_value_token(input, i) ==
    LET ends == {j \in i..Len(input) : input[j].k = "cr"} IN
    IF ends = {} THEN Failed(i)
    ELSE LET end == CHOOSE j \in ends : \A l \in ends : j <= l IN
         IF end = Len(input) \/ input[end + 1].k # "lf" THEN Failed(i)
         ELSE [token |-> [type |-> "value", value |-> SubSeq(input, i, end - 1)],
               next |-> end + 2]

httplex__classify_token(state, input, i) ==
    CASE state = "REQUEST" -> httplex__classify_request_token(input, i)
      [] state = "KEY" -> httplex__classify_key_token(input, i)
      [] state = "VALUE" -> httplex__classify_value_token(input, i)

NoRequest ==
    [method |-> "none", url |-> <<>>, query |-> <<>>, content_length |-> 0,
     content_type |-> <<>>, header_length |-> 0]

\* struct httplex, the request it is for, and whether the last function has
\* taken what it is there for.
httplex_init(input) ==
    [input |-> input, state |-> "REQUEST", next |-> 1, token |-> NoToken,
     accepted |-> TRUE, req |-> NoRequest, key |-> "", ok |-> TRUE]

\* A token that was not accepted is given again, also in another state.
httplex_next_token(p) ==
    LET Found(found) ==
          [p EXCEPT !.token = found.token, !.next = found.next,
                    !.accepted = (found.token = NoToken)]
    IN  IF p.accepted THEN Found(httplex__classify_token(p.state, p.input, p.next)) ELSE p

httplex_accept_token(p) == [p EXCEPT !.accepted = TRUE, !.ok = TRUE]
Refuse(p) == [p EXCEPT !.ok = FALSE]
Leave(p) == [p EXCEPT !.ok = TRUE]

-----------------------------------------------------------------------------
(* The parser.  Its functions map a parser to one; ok is what they return. *)
(* The steps of a function are local operators, the last one first.        *)

http__literal(p, str) ==
    LET Try(q) == IF q.token.type = "lit" /\ q.token.value = str
                  THEN httplex_accept_token(q) ELSE Refuse(q)
    IN  Try(httplex_next_token(p))

http__method(p) ==
    LET Taken(q, method) == IF q.ok THEN [q EXCEPT !.req.method = method] ELSE q
        Try(q, method) == Taken(http__literal(q, method), method)
        Put(g) == IF g.ok THEN g ELSE Try(g, "PUT")
        Options(u) == IF u.ok THEN u ELSE Try(u, "OPTIONS")
    IN  Options(Put(Try(p, "GET")))

http__peek(p, type) ==
    LET Peek(q) == [q EXCEPT !.ok = (q.token.type = type)]
    IN  Peek(httplex_next_token(p))

http__expect(p, type) ==
    LET Take(q) == IF q.ok THEN httplex_accept_token(q) ELSE q
    IN  Take(http__peek(p, type))

http__version(p) ==
    LET Version(s) == IF s.ok THEN http__literal(s, "1.1") ELSE s
        Solidus(h) == IF h.ok THEN http__expect(h, "/") ELSE h
    IN  Version(Solidus(http__literal(p, "HTTP")))

\* Mutant: the last word of a path is left out.
RECURSIVE UrlPathDropsLast(_)
UrlPathDropsLast(p) ==
    LET More(m, value) ==
          IF m.ok THEN UrlPathDropsLast([m EXCEPT !.req.url = Append(@, value)]) ELSE Leave(m)
        Part(q) ==
          IF q.token.type # "lit" THEN [q EXCEPT !.ok = (q.token.type = "ws")]
          ELSE More(http__peek(httplex_accept_token(q), "/"), q.token.value)
        Solidus(s) == IF s.ok THEN Part(httplex_next_token(s)) ELSE s
    IN  Solidus(http__expect(p, "/"))

RECURSIVE http__url_path(_)
http__url_path(p) ==
    LET More(m) == IF m.ok THEN http__url_path(m) ELSE Leave(m)
        Part(q) ==
          CASE q.token.type # "lit" -> [q EXCEPT !.ok = (q.token.type = "ws")]
            [] q.token.type = "lit" /\ Len(q.req.url) >= URL_INDEX_MAX -> Refuse(q)
            [] OTHER -> More(http__peek([httplex_accept_token(q) EXCEPT
                                           !.req.url = Append(@, q.token.value)], "/"))
        Solidus(s) == IF s.ok THEN Part(httplex_next_token(s)) ELSE s
    IN  Solidus(http__expect(p, "/"))

\* The room for queries is measured by the length of the path.
QueryWord(p) ==
    LET Check(q) ==
          [q EXCEPT !.ok = (q.token.type = "lit" /\ Len(q.req.url) < URL_INDEX_MAX)]
    IN  Check(httplex_next_token(p))

http__url_query_key(p) ==
    LET Take(q) ==
          IF q.ok THEN [httplex_accept_token(q) EXCEPT !.key = q.token.value] ELSE q
    IN  Take(QueryWord(p))

http__url_query_value(p) ==
    LET Take(q) ==
          IF ~q.ok THEN q
          ELSE [httplex_accept_token(q) EXCEPT
                   !.req.query = Append(@, [key |-> q.key, value |-> q.token.value])]
    IN  Take(QueryWord(p))

\* What ends the queries, or breaks one off, is left for the next function.
RECURSIVE http__url_query(_)
http__url_query(p) ==
    LET More(a) == IF a.ok THEN http__url_query(a) ELSE Leave(a)
        Ampersand(v) == IF v.ok THEN More(http__expect(v, "&")) ELSE Leave(v)
        Value(e) == IF e.ok THEN Ampersand(http__url_query_value(e)) ELSE Leave(e)
        Equals(k) == IF k.ok THEN Value(http__expect(k, "=")) ELSE Leave(k)
    IN  Equals(http__url_query_key(p))

\* Never refuses: a path that is broken off is left for the next function too.
http__url(p) ==
    LET Query(m) == IF m.ok THEN http__url_query(m) ELSE Leave(m)
        QuestionMark(u) == IF u.ok THEN Query(http__expect(u, "?")) ELSE Leave(u)
    IN  QuestionMark(http__url_path(p))

http__request(p) ==
    LET LineFeed(c) == IF c.ok THEN http__expect(c, "lf") ELSE c
        Return(v) == IF v.ok THEN http__expect(v, "cr") ELSE v
        Version(t) == IF t.ok THEN http__version(t) ELSE t
        Url(s) == IF s.ok THEN http__expect(http__url(s), "ws") ELSE s
        Blank(m) == IF m.ok THEN http__expect(m, "ws") ELSE m
    IN  LineFeed(Return(Version(Url(Blank(http__method(p))))))

InState(p, state) == [p EXCEPT !.state = state]

http__expect_key(p, key) ==
    LET Try(q) == IF q.token.type = "key" /\ key \in {q.token.value, "any"}
                  THEN httplex_accept_token(q) ELSE Refuse(q)
    IN  Try(httplex_next_token(InState(p, "KEY")))

atoi(value) ==
    IF value # <<>> /\ "n" \in DOMAIN value[1] THEN value[1].n ELSE 0

\* The value of the key that was taken last.
KeyValue(p, key) ==
    LET Store(r) ==
          CASE key = "Content-Length" -> [r EXCEPT !.req.content_length = atoi(r.token.value)]
            [] key = "Content-Type" -> [r EXCEPT !.req.content_type = r.token.value]
            [] OTHER -> r
        Take(q) == IF q.token.type = "value" THEN Store(httplex_accept_token(q)) ELSE Refuse(q)
    IN  Take(httplex_next_token(InState(p, "VALUE")))

\* A line of the header, of which the names of two keys are known; a key whose
\* value is not as it should be is not given back.
http__header_kv(p) ==
    LET Value(k, key) == IF k.ok THEN KeyValue(k, key) ELSE k
        Try(q, key) == Value(http__expect_key(q, key), key)
        Type(l) == IF l.ok THEN l ELSE Try(l, "Content-Type")
        Any(t) == IF t.ok THEN t ELSE Try(t, "any")
    IN  Any(Type(Try(p, "Content-Length")))

\* A line that is no pair of key and value ends the header like an empty one.
RECURSIVE http__header(_)
http__header(p) ==
    LET Return(c) == IF c.ok THEN http__expect(c, "lf") ELSE Leave(c)
        More(kv) == IF kv.ok THEN http__header(kv)
                    ELSE Return(http__expect(InState(kv, "KEY"), "cr"))
    IN  More(http__header_kv(p))

\* The request is filled in as far as the parser comes, also if it fails.
http_req_parse(input) ==
    LET Header(h) == IF ~h.ok THEN [rc |-> -1, req |-> h.req]
                     ELSE [rc |-> 0, req |-> [h.req EXCEPT !.header_length = h.next - 1]]
        Request(r) == IF r.ok THEN Header(http__header(r)) ELSE [rc |-> -1, req |-> r.req]
    IN  Request(http__request(httplex_init(input)))

\* The value of the first pair with a key; NoValue stands for NULL.
NoValue == ""
http_req_query(req, key) ==
    LET S == {i \in 1..Len(req.query) : req.query[i].key = key}
    IN  IF S = {} THEN NoValue ELSE req.query[CHOOSE i \in S : \A j \in S : i <= j].value

-----------------------------------------------------------------------------
(* Requests as a client means them, and their texts. *)

RECURSIVE Joined(_, _)
Joined(parts, between) ==
    IF Len(parts) <= 1 THEN IF parts = <<>> THEN <<>> ELSE parts[1]
    ELSE parts[1] \o between \o Joined(Tail(parts), between)

EndOfLine == <<Mark("cr"), Mark("lf")>>

\* r has a method, the words of a path, pairs of words, and lines of a header.
Text(r) ==
    LET path == Joined([i \in 1..Len(r.path) |-> <<Word(r.path[i])>>], <<Mark("/")>>)
        pairs == [i \in 1..Len(r.query) |->
                    <<Word(r.query[i].key), Mark("="), Word(r.query[i].value)>>]
        lines == [i \in 1..Len(r.header) |->
                    <<KeyWord(r.header[i].key), Mark("ws")>> \o r.header[i].value]
    IN  <<Word(r.method), Mark("ws"), Mark("/")>> \o path
        \o (IF pairs = <<>> THEN <<>> ELSE <<Mark("?")>> \o Joined(pairs, <<Mark("&")>>))
        \o <<Mark("ws"), Word("HTTP"), Mark("/"), Word("1.1")>> \o EndOfLine
        \o Joined([i \in 1..(Len(lines) + 1) |->
                     IF i <= Len(lines) THEN lines[i] ELSE <<>>], EndOfLine)
        \o EndOfLine

\* The value of the last line with a key, or none.
LastValue(header, key, none) ==
    LET S == {i \in 1..Len(header) : header[i].key = key}
    IN  IF S = {} THEN none ELSE header[CHOOSE i \in S : \A j \in S : j <= i].value

\* What the parser makes of the text of r is r.
Understood(r, req) ==
    /\ req.method = r.method
    /\ req.url = r.path
    /\ req.query = r.query
    /\ req.content_length = atoi(LastValue(r.header, "Content-Length", <<>>))
    /\ req.content_type = LastValue(r.header, "Content-Type", <<>>)
    /\ req.header_length = Len(Text(r))
=============================================================================
