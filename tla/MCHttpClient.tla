----------------------------- MODULE MCHttpClient -----------------------------
(* Instances of HttpClient for TLC.                                        *)
EXTENDS HttpClient

AllBytes == {"head", "CR", "LF", "0", "1", "2", "3", ";", "x", "}"}

\* Bodies with everything in them that could be mistaken for framing; only
\* receipts end with a closing brace.
Texts == BoundedSeq({"x", "CR", "LF", "1"}, 1) \cup
         {CRLF, <<"1", "CR">>, <<"LF", "1">>, <<"0", "CR">>}
ReceiptBodies == { t \o <<"}">> : t \in Texts }
Meant == Texts \cup ReceiptBodies

\* Every way to cut a body into chunks.
Chunkings(b) ==
    IF b = <<>> THEN {<<>>}
    ELSE { [i \in 1 .. Cardinality(cuts) + 1 |->
               LET ends == SetToSortSeq(cuts \cup {0, Len(b)}, <)
               IN  SubSeq(b, ends[i] + 1, ends[i + 1])] :
           cuts \in SUBSET (1 .. Len(b) - 1) }

SizeByte == <<"1", "2", "3">>
SizeLines(n) ==
    LET digit == IF n = 0 THEN "0" ELSE SizeByte[n]
    IN  { <<digit>>, <<"0", digit>>, <<digit, ";", "x">> }

Chunked(chunks, style) ==
    LET Line(n) == CHOOSE l \in SizeLines(n) : Len(l) = style
        Chunk(c) == Line(Len(c)) \o CRLF \o c \o CRLF
    IN  FlattenSeq([i \in DOMAIN chunks |-> Chunk(chunks[i])]) \o Line(0) \o CRLF \o CRLF

ChunkedResponses ==
    UNION { { [status |-> "2xx", chunked |-> TRUE, length |-> len,
               payload |-> Chunked(chunks, style), meant |-> b] :
                  chunks \in Chunkings(b), style \in {1, 2, 3}, len \in {None, 1} } :
            b \in Meant }

\* A body may be followed by bytes that do not belong to it.
LengthResponses ==
    { [status |-> s, chunked |-> FALSE, length |-> Len(b), payload |-> b \o rest,
       meant |-> b] : s \in {"2xx", "other", "bad"}, b \in Meant, rest \in {<<>>, <<"x">>} }

StreamResponses ==
    { [status |-> s, chunked |-> FALSE, length |-> None, payload |-> b, meant |-> b] :
        s \in {"2xx", "other"}, b \in Meant }

AllResponses == ChunkedResponses \cup LengthResponses \cup StreamResponses
==============================================================================
