------------------------------ MODULE HttpClient ------------------------------
(***************************************************************************)
(* The hand-written HTTP client (src/src/http.rs) and what the anchoring   *)
(* hop makes of its answers (src/src/log_anchor.rs): one request, whose    *)
(* response arrives in pieces cut anywhere, may break off or stall         *)
(* anywhere, and is delimited by chunks, by Content-Length or by the end   *)
(* of the stream; a timeout covers the whole exchange.                     *)
(*                                                                         *)
(* The stream is a sequence of bytes.  The response head is one byte,      *)
(* "head", that stands for status line and headers; what they say is in    *)
(* the record of the response.  The body is modelled byte by byte, because *)
(* the decoder searches line ends in it.                                   *)
(***************************************************************************)
EXTENDS Integers, Sequences, SequencesExt, FiniteSetsExt

CONSTANTS
    Responses,   \* what the server may be about to send
    Receipts,    \* the bodies that parse as a receipt (JSON, all fields)
    Bytes,       \* the bytes that occur
    BufSize,     \* the most bytes one read returns
    Incomplete,  \* a chunked body that is not all there
    None         \* no Content-Length, no outcome

\* The part of a response that the client sees in its head, the bytes after
\* it, and the body that the server meant to convey.
IsResponse(r) ==
    /\ r.status \in {"2xx", "other", "bad"}
    /\ r.chunked \in BOOLEAN
    /\ r.length \in Nat \cup {None}
    /\ r.payload \in Seq(Bytes)
    /\ r.meant \in Seq(Bytes)

\* A log that means a JSON object sends nothing after it that could be left
\* out, so that no beginning of its body is a receipt too.
ASSUME ClientAssumption ==
    /\ \A r \in Responses : IsResponse(r)
    /\ Receipts \subseteq Seq(Bytes)
    /\ \A r \in Responses, a \in Receipts : IsPrefix(a, r.meant) => a = r.meant
    /\ {"head", "CR", "LF"} \subseteq Bytes
    /\ BufSize \in Nat \ {0}
    /\ None \notin Nat

VARIABLES
    resp,     \* the response of this exchange
    wire,     \* what of it the client has not read yet
    closes,   \* whether the server closes the connection after that
    whole,    \* history: nothing of the response was cut off
    raw,      \* bytes read while looking for the end of the head
    body,     \* body_bytes
    phase,    \* which loop of the client is running
    outcome   \* what request returns

vars == <<resp, wire, closes, whole, raw, body, phase, outcome>>
server == <<resp, wire, closes, whole>>

Reading == phase \in {"head", "chunked", "length", "eof"}

-----------------------------------------------------------------------------
(* Bytes.                                                                  *)

CRLF == <<"CR", "LF">>

\* find_subslice, from a position on; 0 when there is none.
Find(s, from, t) ==
    LET hits == { i \in from .. Len(s) + 1 - Len(t) :
                     \A k \in 1 .. Len(t) : s[i + k - 1] = t[k] }
    IN  IF hits = {} THEN 0 ELSE Min(hits)

\* A chunk size line: a hexadecimal number, then an extension.  Four digits
\* stand for the sixteen.  The other spellings that from_str_radix takes, white
\* space around a number or a + before it, are left out, and so are numbers
\* so large that pos + size would not fit a usize.
DigitValue == [d \in {"0", "1", "2", "3"} |->
                  CASE d = "0" -> 0 [] d = "1" -> 1 [] d = "2" -> 2 [] d = "3" -> 3]
Numeral(line) ==
    LET semicolon == Find(line, 1, <<";">>)
    IN  IF semicolon = 0 THEN line ELSE SubSeq(line, 1, semicolon - 1)
IsSize(line) ==
    /\ Numeral(line) # <<>>
    /\ ToSet(Numeral(line)) \subseteq DOMAIN DigitValue
ChunkSize(line) ==
    LET digits == Numeral(line)
        value[i \in 0 .. Len(digits)] ==
            IF i = 0 THEN 0 ELSE 16 * value[i - 1] + DigitValue[digits[i]]
    IN  value[Len(digits)]

\* decode_chunked_body, from a position on: every failure counts as "read
\* more".  The chunk of size zero ends the body; what follows it is not awaited.
ChunkAt(s, pos, from) ==
    LET eol   == Find(s, pos, CRLF)
        line  == SubSeq(s, pos, eol - 1)
        size  == ChunkSize(line)
        data  == eol + 2
        after == data + size + 2
    IN  IF eol = 0 \/ ~IsSize(line) THEN Incomplete
        ELSE IF size = 0 THEN <<>>
        ELSE IF after > Len(s) + 1 THEN Incomplete
        ELSE IF from[after] = Incomplete THEN Incomplete
        ELSE SubSeq(s, data, data + size - 1) \o from[after]
DecodeChunkedBody(s) ==
    LET from[pos \in 1 .. Len(s) + 1] == ChunkAt(s, pos, from)
    IN  from[1]

\* What a server means to convey is what the framing it announces delimits in
\* all that it sends.
Conveys(r) ==
    IF r.chunked THEN r.meant # Incomplete /\ DecodeChunkedBody(r.payload) = r.meant
    ELSE IF r.length # None
    THEN r.length <= Len(r.payload) /\ r.meant = SubSeq(r.payload, 1, r.length)
    ELSE r.meant = r.payload

ASSUME ServerAssumption == \A r \in Responses : Conveys(r)

-----------------------------------------------------------------------------
(* The exchange.                                                           *)

Wire(r) == <<"head">> \o CRLF \o CRLF \o r.payload

Init ==
    /\ resp \in Responses
    /\ wire = Wire(resp)
    /\ closes \in BOOLEAN
    /\ whole = TRUE
    /\ raw = <<>>
    /\ body = <<>>
    /\ phase = "connect"
    /\ outcome = None

Answer(b) == [kind |-> "ok", body |-> b]
Failure(how) == [kind |-> how, body |-> <<>>]

Finish(result) ==
    /\ phase' = "over"
    /\ outcome' = result

\* Connected, and the request is written.
Send ==
    /\ phase = "connect"
    /\ phase' = "head"
    /\ UNCHANGED <<server, raw, body, outcome>>

Framing ==
    CASE resp.chunked -> "chunked"
      [] ~resp.chunked /\ resp.length # None -> "length"
      [] ~resp.chunked /\ resp.length = None -> "eof"

\* The body is complete, without waiting for the end of the stream.
LengthReached_Exceeded(b) == Len(b) > resp.length
LengthReached(b) == Len(b) >= resp.length

ChunksDone_Assumed(b) == TRUE
ChunksDone(b) == DecodeChunkedBody(b) # Incomplete

Enough(b) ==
    \/ Framing = "chunked" /\ ChunksDone(b)
    \/ Framing = "length" /\ LengthReached(b)

\* What of the bytes read is the body.
Truncated_Kept(b) == b
Truncated(b) == IF Len(b) > resp.length THEN SubSeq(b, 1, resp.length) ELSE b

Contents(b) ==
    CASE Framing = "chunked" -> DecodeChunkedBody(b)
      [] Framing = "length" -> Truncated(b)
      [] Framing = "eof" -> b

\* Go on with the body's first or next bytes.
Continue(b) ==
    /\ body' = b
    /\ IF Enough(b)
       THEN Finish(Answer(Contents(b)))
       ELSE phase' = Framing /\ outcome' = None

\* One read of up to BufSize bytes, as many as happen to be there.
Receive(n) ==
    /\ n <= BufSize
    /\ wire' = SubSeq(wire, n + 1, Len(wire))
    /\ UNCHANGED <<resp, closes, whole>>

ReadHead(n) ==
    /\ phase = "head"
    /\ Receive(n)
    /\ LET got == raw \o SubSeq(wire, 1, n)
           end == Find(got, 1, CRLF \o CRLF)
       IN  /\ raw' = got
           /\ IF end = 0
              THEN UNCHANGED <<body, phase, outcome>>
              ELSE IF resp.status = "bad"
              THEN Finish(Failure("bad_status")) /\ UNCHANGED body
              ELSE Continue(SubSeq(got, end + 4, Len(got)))

\* Bytes read are appended, in the order read.
Extended_Replaced(more) == more
Extended(more) == body \o more

ReadBody(n) ==
    /\ phase \in {"chunked", "length", "eof"}
    /\ Receive(n)
    /\ Continue(Extended(SubSeq(wire, 1, n)))
    /\ UNCHANGED raw

\* A read returns no byte: an error inside the head or a chunk, the end of
\* the body otherwise, also of one that is shorter than announced.
EndsBody_Always == TRUE
EndsBody == phase \in {"length", "eof"}
EndOfStream ==
    /\ Reading
    /\ wire = <<>>
    /\ closes
    /\ Finish(IF EndsBody THEN Answer(body) ELSE Failure("unexpected_eof"))
    /\ UNCHANGED <<server, raw, body>>

\* Connecting, writing or reading returns an error.
IoError ==
    /\ phase # "over"
    /\ Finish(Failure("io_error"))
    /\ UNCHANGED <<server, raw, body>>

\* The timeout is around all of it.
TimeoutCovers_Connect == phase \in {"connect", "head"}
TimeoutCovers == phase # "over"
Timeout ==
    /\ TimeoutCovers
    /\ Finish(Failure("timeout"))
    /\ UNCHANGED <<server, raw, body>>

\* The server or the network breaks off in mid-stream, with or without
\* closing the connection.
Break ==
    /\ phase # "over"
    /\ wire # <<>>
    /\ wire' = <<>>
    /\ whole' = FALSE
    /\ closes' \in BOOLEAN
    /\ UNCHANGED <<resp, raw, body, phase, outcome>>

Next ==
    \/ Send
    \/ \E n \in 1 .. Len(wire) : ReadHead(n) \/ ReadBody(n)
    \/ EndOfStream
    \/ IoError
    \/ Timeout
    \/ Break

Spec == Init /\ [][Next]_vars

\* Only that the timer fires: the server may stall for ever.
FairSpec == Spec /\ WF_vars(Timeout)

-----------------------------------------------------------------------------
(* log_anchor::anchor and anchor_summary_from_receipt.                     *)

StatusAccepted == resp.status = "2xx"

\* Whether the snapshot will be recorded as anchored.
Anchored ==
    /\ phase = "over"
    /\ outcome.kind = "ok"
    /\ StatusAccepted
    /\ outcome.body \in Receipts

-----------------------------------------------------------------------------
(* Properties.                                                             *)

\* The shapes of the exchange.
TypeOK ==
    /\ resp \in Responses
    /\ wire \in Seq(Bytes)
    /\ closes \in BOOLEAN
    /\ whole \in BOOLEAN
    /\ raw \in Seq(Bytes)
    /\ body \in Seq(Bytes)
    /\ phase \in {"connect", "head", "chunked", "length", "eof", "over"}
    /\ outcome # None =>
          /\ outcome.kind \in {"ok", "bad_status", "unexpected_eof", "io_error", "timeout"}
          /\ outcome.body \in Seq(Bytes)

\* However the reads cut a response that arrives whole, through line ends,
\* sizes and separators: the answer is the body that the server meant, and
\* never the error of a connection closed too early.
RightBody ==
    whole /\ outcome # None =>
        /\ outcome.kind = "ok" => outcome.body = resp.meant
        /\ outcome.kind # "unexpected_eof"

\* A response that breaks off yields a part of its body at most, and a
\* chunked one never passes for complete.
NoFalseEnd ==
    outcome # None /\ outcome.kind = "ok" =>
        /\ IsPrefix(outcome.body, resp.meant)
        /\ resp.chunked => outcome.body = resp.meant

\* Once a delimited response has been read the client does not wait for the
\* server to close: the mutation lock is not held until the timeout.
NeverWaitsForMore ==
    whole /\ wire = <<>> /\ Framing # "eof" => ~Reading

\* A snapshot is recorded as anchored only by the complete receipt that the
\* log meant, wherever the response was cut into reads and wherever the
\* connection broke (a short body is an Ok of the client).
HonestAnchoring ==
    Anchored => outcome.body = resp.meant

\* The exchange ends, whatever the server does or fails to do; the request
\* flows rely on it while they hold the mutation lock.
Ended == <>(phase = "over")
==============================================================================
