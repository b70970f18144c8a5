------------------------------- MODULE MCRest -------------------------------
EXTENDS Rest, TLC

Asking(method, path) ==
    [method |-> method, path |-> path, query |-> <<>>, header |-> <<>>, content |-> <<>>]

Typed(r, type) == [r EXCEPT !.query = <<[key |-> "type", value |-> type]>>]

\* Content, with the lines of the header that go with it.
With(r, content) ==
    [r EXCEPT !.content = content,
              !.header = <<[key |-> "Host", value |-> <<Word("master")>>],
                           [key |-> "Content-Length",
                            value |-> <<Number("length", Len(content))>>],
                           [key |-> "Content-Type",
                            value |-> <<Word("text"), Mark("/"), Word("plain")>>]>>]

Object == <<"sdo", "5", "1000", "0">>
Blank == <<Mark("ws")>>
Num(n) == <<Number("number", n)>>

\* One request for each way to be handled, and values at the ends of their types.
Paths == {<<>>, <<"*">>, <<"other", "5", "1000", "0">>, <<"sdo">>, <<"sdo", "5">>,
          <<"sdo", "0">>, <<"sdo", "5", "1000">>, <<"sdo", "200", "1000", "0">>,
          <<"sdo", "5", "999", "0">>, Object \o <<"a">>, Object \o <<"a", "b">>}

Writes ==
    {<<"UNSIGNED8", Num(255) \o Blank>>, <<"UNSIGNED8", Num(256)>>,
     <<"UNSIGNED8", Num(-1)>>, <<"INTEGER8", Num(-128)>>, <<"INTEGER16", Num(-129)>>,
     <<"UNSIGNED24", Num(65536)>>, <<"BOOLEAN", <<Word("true")>> >>,
     <<"UNSIGNED16", <<Word("word")>> >>, <<"VISIBLE_STRING", <<Word("word")>> >>}

TypedWrite == With(Typed(Asking("PUT", Object), "UNSIGNED16"), Blank \o Num(300))

AllRequests ==
    {Asking(m, p) : m \in {"GET", "PUT", "OPTIONS"}, p \in Paths}
    \cup {Typed(Asking("GET", Object), t) : t \in {"INTEGER8", "INTEGER16", "UNSIGNED8"}}
    \cup {With(Typed(Asking("PUT", Object), w[1]), w[2]) : w \in Writes}
    \cup {With(Asking("PUT", Object), Num(7)), TypedWrite,
          Asking("GET", Object), Typed(Asking("GET", Object), "none")}
    \cup {[Asking("GET", <<"sdo", "5">>) EXCEPT
              !.query = <<[key |-> "a", value |-> "b"], [key |-> "with_value", value |-> "1"]>>]}

GarbledRequests == {TypedWrite, Asking("GET", Object), With(Asking("PUT", Object), Num(7))}

NodeAnswers ==
    {[bytes |-> b, unknown |-> u] :
        b \in {<<255>>, <<1>>, <<0, 128>>, <<255, 127>>}, u \in BOOLEAN}

DecimalWords == ("5" :> 5) @@ ("200" :> 200) @@ ("1000" :> 1000) @@ ("999" :> 999)
HexadecimalWords == ("5" :> 5) @@ ("200" :> 512) @@ ("1000" :> 4096) @@ ("999" :> 2457)
=============================================================================
