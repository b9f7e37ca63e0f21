----------------------------- MODULE MCMessage ------------------------------
(* A request arrives symbol by symbol and is parsed at every symbol.       *)
EXTENDS MessageSamples

VARIABLES request, arrived

text == SubSeq(Request_str(request), 1, arrived)

Init == request \in Requests /\ arrived = 1

Arrive ==
    /\ arrived < Len(Request_str(request))
    /\ arrived' = arrived + 1
    /\ UNCHANGED request

Spec == Init /\ [][Arrive]_<<request, arrived>>

\* The text ends inside the name of a header: a line that has just begun.
InHeaderName ==
    \E i \in 3..Len(text) :
        /\ SubSeq(text, i - 2, i - 1) = CRLF
        /\ \E h \in REQUEST_HEADER_NAMES : IsStrictPrefix(SubSeq(text, i, Len(text)), h)

\* A request that ends inside the name of a header is one the parser waits for:
\* it is neither refused nor taken for a whole one (parse_headers).
HeaderCutAwaited == InHeaderName => Request_parse(text).verdict = "expecting"

=============================================================================
