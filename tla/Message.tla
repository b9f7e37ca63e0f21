------------------------------ MODULE Message -------------------------------
(***************************************************************************)
(* The parser of http messages (6.http/lib/message.cpp): http::Request and *)
(* http::Responce, their parse and str.                                    *)
(*                                                                         *)
(* A text is a sequence of symbols, a string_view the text that is left.   *)
(* Names are abridged to two or three symbols ("g" "e" is GET), so that a  *)
(* text can still be cut inside any of them.  A step of the parser gives   *)
(* its verdict: "ok", or the exception it throws, "expecting" for          *)
(* ExpectingData and "incorrect" for IncorrectData; "undefined" when it    *)
(* goes on to read memory beyond the text.                                 *)
(***************************************************************************)
EXTENDS Integers, Sequences, SequencesExt

SPACE == {"sp", "tab"}
CRLF  == <<"cr", "lf">>
HTTP_ == <<"h", "/">>                                   \* "HTTP/"

METHODS  == << <<"g", "e">>, <<"p", "o">> >>            \* GET, POST
VERSIONS == << <<"1", ".", "0">>, <<"1", ".", "1">> >>

CONTENT_LENGTH == <<"c", "l">>
TRANSFER_ENCODING == <<"t", "e">>
CONNECTION     == <<"c", "n">>
HOST           == <<"h", "o", "s">>
AGE            == <<"a", "g">>
REQUEST_HEADER_NAMES == {CONTENT_LENGTH, TRANSFER_ENCODING, CONNECTION, HOST}
RESPONCE_HEADER_NAMES == {CONTENT_LENGTH, TRANSFER_ENCODING, CONNECTION, AGE}

DIGITS == <<"0", "1", "2", "3", "4", "5", "6", "7", "8", "9">>

\* A string_view whose remove_prefix took more than there was: its size has
\* wrapped around.
Wild == <<"wild">>

-----------------------------------------------------------------------------
(* Helpers on texts.                                                       *)

\* string_view::remove_prefix.
Drop(sv, n) == IF n > Len(sv) THEN Wild ELSE SubSeq(sv, n + 1, Len(sv))

\* The number of symbols before the first one that is in stop, if stops is TRUE, or
\* that is not in it; all symbols if there is none.
Before(sv, stop, stops) ==
    LET i == SelectInSeq(sv, LAMBDA x : (x \in stop) = stops)
    IN  IF i = 0 THEN Len(sv) ELSE i - 1

\* string_view::substr(0, n).
Take(sv, n) == SubSeq(sv, 1, IF n < Len(sv) THEN n ELSE Len(sv))

LeftStrip(sv) == Drop(sv, Before(sv, SPACE, FALSE))

\* The token, and what is left of the text.
ReadToken(sv) ==
    LET s == LeftStrip(sv)
        n == Before(s, {"sp", "cr"}, TRUE)
    IN  [token |-> SubSeq(s, 1, n), rest |-> Drop(s, n)]

\* string_view::find("\r\n"), counted from 1; 0 is npos.
FindCrlf(sv) ==
    LET at == {i \in 1..(Len(sv) - 1) : SubSeq(sv, i, i + 1) = CRLF}
    IN  IF at = {} THEN 0 ELSE CHOOSE i \in at : \A j \in at : i <= j

mismatch(lhs, rhs) == Len(LongestCommonPrefix({lhs, rhs}))

\* The value of std::stoul, -1 when it throws.
RECURSIVE Decimal(_)
Decimal(ds) ==
    IF ds = <<>> THEN 0
    ELSE 10 * Decimal(Front(ds)) + SelectInSeq(DIGITS, LAMBDA x : x = Last(ds)) - 1

stoul(text) ==
    LET n == Before(text, ToSet(DIGITS), FALSE)
    IN  IF n = 0 THEN -1 ELSE Decimal(SubSeq(text, 1, n))

\* The first exception counts.
Then(verdict, next) == IF verdict = "ok" THEN next ELSE verdict

\* A message being parsed, p: the verdict so far, what is left of the text, and the
\* fields that have been read.  An exception ends the parsing.
Begin(text, fields) == [verdict |-> "ok", rest |-> text, value |-> fields]

Advance(p, verdict, rest, fields) ==
    IF p.verdict # "ok" THEN p
    ELSE [verdict |-> verdict, rest |-> rest, value |-> fields]

-----------------------------------------------------------------------------
(* The parts of a message.                                                 *)

\* Whether expecting throws: the text ends with a proper prefix of expectation.
expecting(expectation, reality, full_message) ==
    IF /\ IsStrictPrefix(reality, expectation) /\ reality # <<>>
       /\ full_message = <<>>
    THEN "expecting" ELSE "ok"

\* find_if stops at the first element of which reality is a prefix; when more
\* text follows, any prefix passes for the element itself.
expecting_to_find_in_range(range, reality, full_message) ==
    LET fits == SelectSeq(range, LAMBDA e : IsPrefix(reality, e))
    IN  IF fits = <<>> THEN "incorrect"
        ELSE expecting(Head(fits), reality, full_message)

parse_protocol(p) ==
    LET read == ReadToken(p.rest)
        cur  == mismatch(HTTP_, read.token)
        version == Drop(read.token, cur)
    IN  Advance(p,
            Then(expecting(HTTP_, read.token, read.rest),
            Then(IF cur = 0 THEN "incorrect" ELSE "ok",
            Then(IF version = <<>> THEN "expecting"
                 ELSE IF Len(version) > 3 THEN "incorrect" ELSE "ok",
                 expecting_to_find_in_range(VERSIONS, version, read.rest)))),
            read.rest, [p.value EXCEPT !.version = version])

\* The tests on a header's name; headers are those before it.
HeaderName(names, headers, token) ==
    LET name == Front(token)
    IN  IF /\ token # <<>> /\ SelectInSeq(token, LAMBDA x : x = ":") = Len(token)
           /\ name \in names \/ IsPrefix(<<"x", "-">>, name)
           /\ \A i \in DOMAIN headers : headers[i].name # name
        THEN "ok" ELSE "incorrect"

\* One turn of the loop per header line.  The text ends without an empty line:
\* only if nothing at all is left is more data expected.
RECURSIVE parse_headers(_, _, _)
parse_headers(names, headers, sv) ==
    LET read  == ReadToken(sv)
        line  == LeftStrip(read.rest)
        cur   == FindCrlf(line)
        valid == HeaderName(names, headers, read.token)
        header == [name |-> Front(read.token), value |-> SubSeq(line, 1, cur - 1)]
    IN  IF FindCrlf(sv) > 1
        THEN IF valid = "ok"
             THEN parse_headers(names, Append(headers, header), Drop(line, cur + 1))
             ELSE [verdict |-> valid, headers |-> headers, rest |-> sv]
        ELSE [verdict |-> IF sv = <<>> THEN "expecting" ELSE "ok",
              headers |-> headers, rest |-> sv]

\* The headers whose value is taken for the length of the body.
LENGTHS == {CONTENT_LENGTH, TRANSFER_ENCODING}

\* Mutant: a body that is still short is taken as it is.
parse_body_Short(headers, sv) ==
    LET it   == SelectInSeq(headers, LAMBDA h : h.name \in LENGTHS)
        size == stoul(headers[it].value)
    IN  IF it = 0 THEN IF sv = <<>> THEN "ok" ELSE "incorrect"
        ELSE IF size = -1 \/ sv = Wild \/ Len(sv) > size THEN "incorrect" ELSE "ok"

\* What is left of the text must have the announced length.
parse_body(headers, sv) ==
    LET it   == SelectInSeq(headers, LAMBDA h : h.name \in LENGTHS)
        size == stoul(headers[it].value)
    IN  IF it = 0 THEN IF sv = <<>> THEN "ok" ELSE "incorrect"
        ELSE IF size = -1 \/ sv = Wild \/ Len(sv) > size THEN "incorrect"
        ELSE IF Len(sv) < size THEN "expecting" ELSE "ok"

-----------------------------------------------------------------------------
(* The messages.                                                           *)

to_string(header) == header.name \o <<":", "sp">> \o header.value \o CRLF

\* Message's part of str.
Tail_str(message) ==
    FlattenSeq([i \in DOMAIN message.headers |-> to_string(message.headers[i])])
        \o CRLF \o message.body

Request_str(req) ==
    req.method \o <<"sp">> \o req.target \o <<"sp">> \o HTTP_ \o req.version \o CRLF
        \o Tail_str(req)

Responce_str(res) ==
    HTTP_ \o res.version \o <<"sp">> \o res.code \o <<"sp">> \o res.status_text \o CRLF
        \o Tail_str(res)

\* The empty line after the headers is dropped without a look at it.
ReadHeaders(p, names) ==
    LET head == parse_headers(names, <<>>, p.rest)
    IN  Advance(p, head.verdict, Drop(head.rest, 2), [p.value EXCEPT !.headers = head.headers])

ReadBody(p) ==
    Advance(p, parse_body(p.value.headers, p.rest), <<>>, [p.value EXCEPT !.body = p.rest])

ReadMethod(p) ==
    LET read == ReadToken(p.rest)
    IN  Advance(p, expecting_to_find_in_range(METHODS, read.token, read.rest),
                read.rest, [p.value EXCEPT !.method = read.token])

ReadTarget(p) ==
    LET read == ReadToken(p.rest)
    IN  Advance(p, "ok", read.rest, [p.value EXCEPT !.target = read.token])

\* expecting never throws for the end of the start line, since full_message is that
\* text itself: if one symbol is left, "cr", two are removed.
ReadLineEnd(p) ==
    LET line == LeftStrip(p.rest)
    IN  Advance(p, IF mismatch(CRLF, Take(line, 2)) = 0 THEN "incorrect"
                   ELSE IF Len(line) = 1 THEN "undefined" ELSE "ok",
                Drop(line, 2), p.value)

Request_parse(text) ==
    LET none  == [method |-> <<>>, target |-> <<>>, version |-> <<>>,
                  headers |-> <<>>, body |-> <<>>]
        start == ReadLineEnd(parse_protocol(ReadTarget(ReadMethod(Begin(text, none)))))
    IN  ReadBody(ReadHeaders(start, REQUEST_HEADER_NAMES))

\* The code is kept in 16 bits.
ReadCode(p) ==
    LET read == ReadToken(p.rest)
        code == stoul(read.token) % 2^16
    IN  Advance(p, IF stoul(read.token) = -1 THEN "incorrect"
                   ELSE IF code < 60 /\ read.rest = <<>> THEN "expecting"
                   ELSE IF code > 599 THEN "incorrect" ELSE "ok",
                read.rest, [p.value EXCEPT !.code = read.token])

ReadText(p) ==
    LET line == LeftStrip(p.rest)
        cur  == FindCrlf(line)
    IN  Advance(p, IF cur = 0 THEN "expecting" ELSE "ok",
                Drop(line, cur + 1), [p.value EXCEPT !.status_text = SubSeq(line, 1, cur - 1)])

Responce_parse(text) ==
    LET none  == [version |-> <<>>, code |-> <<>>, status_text |-> <<>>,
                  headers |-> <<>>, body |-> <<>>]
        start == ReadText(ReadCode(parse_protocol(Begin(text, none))))
    IN  ReadBody(ReadHeaders(start, RESPONCE_HEADER_NAMES))

\* is_keep_alive of the workers; "k" stands for Keep-Alive.
is_keep_alive(headers) ==
    LET it == SelectInSeq(headers, LAMBDA h : h.name = CONNECTION)
    IN  it # 0 /\ Contains(headers[it].value, "k")

=============================================================================
