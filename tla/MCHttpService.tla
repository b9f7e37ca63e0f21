--------------------------- MODULE MCHttpService ----------------------------
(* HttpService for TLC.                                                    *)
EXTENDS HttpService, TLC

Symmetry == Permutations(Conns) \cup Permutations(Workers)

-----------------------------------------------------------------------------
(* The chunks clients send, written out as the texts module Message parses. *)

Text == INSTANCE MessageSamples

\* The texts of a buffer that holds chunks of these kinds of request req, with
\* a part of k symbols.
Written(kinds, req, k) ==
    LET str == Text!Request_str(req)
        pieces == [whole |-> {str}, part |-> {SubSeq(str, 1, k)},
                   rest |-> {SubSeq(str, k + 1, Len(str))}, bad |-> Text!Refused(req)]
    IN  IF Len(kinds) = 1 THEN pieces[kinds[1]]
        ELSE {x \o y : x \in pieces[kinds[1]], y \in pieces[kinds[2]]}

Buffer(kinds, ka) == [i \in DOMAIN kinds |-> [kind |-> kinds[i], id |-> 1, ka |-> ka]]

\* The parser's result p has this verdict and, if that is "ok", is message m.
ReadAs(p, verdict, m) == p.verdict = verdict /\ (verdict = "ok" => p.value = m)

\* On every text a buffer of these kinds of chunks stands for, the parser says
\* what Parse says, and reads the request that was sent.
FaithfulOn(kinds, ka) ==
    \A req \in {r \in Text!Requests : Text!is_keep_alive(r.headers) = ka} :
        \A k \in IF kinds[1] = "part" THEN Text!LineCuts(req) ELSE {0} :
            \A text \in Written(kinds, req, k) :
                ReadAs(Text!Request_parse(text), Parse(Buffer(kinds, ka)), req)

ResponcesFaithful ==
    \A res \in Text!Responces :
        ReadAs(Text!Responce_parse(Text!Responce_str(res)), "ok", res)

\* When a worker has drained the socket, Request::parse gives for read_ the verdict,
\* the headers and the body that HttpWorkers takes it to give, wherever the
\* request was split between two lines or in its body; and a response about to be
\* sent is one Responce can be made of.
ParseFaithful ==
    \A w \in Workers :
        /\ ReadDone(w) /\ conn[wconn[w]].read # <<>> =>
              LET buf == conn[wconn[w]].read
              IN  FaithfulOn([i \in DOMAIN buf |-> buf[i].kind], buf[1].ka)
        /\ wpc[w] = "arm" /\ conn[wconn[w]].write # <<>> => ResponcesFaithful

=============================================================================
