--------------------------- MODULE MessageSamples ---------------------------
(* Messages to parse, for TLC.                                             *)
EXTENDS Message

Header(name, value) == [name |-> name, value |-> value]

\* What follows a start line: headers, and a body of up to two symbols.
Contents ==
    {[headers |-> h \o b.headers, body |-> b.body] :
        h \in {<<>>, <<Header(HOST, <<"v">>)>>, <<Header(CONNECTION, <<"v">>)>>,
               <<Header(HOST, <<"v", "sp", "v">>), Header(CONNECTION, <<"k">>)>>},
        b \in {[headers |-> <<>>, body |-> <<>>]} \cup
              {[headers |-> <<Header(CONTENT_LENGTH, <<DIGITS[n + 1]>>)>>,
                body |-> [i \in 1..n |-> "v"]] : n \in 0..2}}

Requests ==
    {[method |-> METHODS[i], target |-> <<"t">>, version |-> VERSIONS[i],
      headers |-> x.headers, body |-> x.body] : i \in 1..2, x \in Contents}

\* Responses, as the server programs of the tests build them.
Responces ==
    {[version |-> <<"1", ".", "1">>, code |-> c, status_text |-> <<"t">>,
      headers |-> x.headers, body |-> x.body] :
        c \in {<<"2", "0", "0">>, <<"5", "9", "9">>},
        x \in {y \in Contents : \A i \in DOMAIN y.headers : y.headers[i].name # HOST}}

\* Texts the parser must refuse, made of a request: an unknown method, an unknown
\* header, a body longer than announced.
Refused(req) ==
    {Request_str([req EXCEPT !.method = <<"q">>]),
     Request_str([req EXCEPT !.headers = <<Header(<<"q">>, <<"v">>)>> \o @]),
     Request_str([req EXCEPT !.body = @ \o <<"v">>])}

\* Where a text ends at the end of a line of the head, or inside the body.
LineCuts(req) ==
    LET text == Request_str(req)
    IN  {k \in 2..(Len(text) - 1) :
           \/ SubSeq(text, k - 1, k) = CRLF /\ k < Len(text) - Len(req.body) - 1
           \/ k >= Len(text) - Len(req.body)}

=============================================================================
