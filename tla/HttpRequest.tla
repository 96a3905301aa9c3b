----------------------------- MODULE HttpRequest -----------------------------
(***************************************************************************)
(* The incremental request parser of simple_http                           *)
(* (http_server/src/http_request.cpp).  Text is a sequence of tokens: CR,  *)
(* LF, ":", "sp" (white space), "CL" (the name Content-Length), a minus    *)
(* sign, digits, and "x" for any other character.                          *)
(*                                                                         *)
(* A stream arrives in pieces of any size; each piece is given to Append.  *)
(***************************************************************************)
EXTENDS Integers, Sequences, SequencesExt

CONSTANTS Streams,   \* the byte streams clients send
          SizeSpace  \* how many values a size_t has: 2^64 in the code

VARIABLES
    stream,    \* what the client sends
    consumed,  \* how much of it has been given to Append
    request    \* the HttpRequest object

vars == <<stream, consumed, request>>

\* HttpRequest::HttpRequest; `thrown` records an exception out of Append.
NewRequest == [buf |-> <<>>, firstLine |-> <<>>, headers |-> [n \in {} |-> <<>>],
               body |-> <<>>, contentLength |-> 0,
               headersParseComplete |-> FALSE, totalParseComplete |-> FALSE,
               thrown |-> FALSE]

\* buf.find(LINE_END): tokens before the first line end; Len(s) for npos.
FindLineEnd(s) ==
    LET at == {i \in 1..Len(s) - 1 : s[i] = "CR" /\ s[i + 1] = "LF"}
    IN  IF at = {} THEN Len(s) ELSE Min(at) - 1
HasLineEnd(s) == FindLineEnd(s) < Len(s)
Drop(s, n) == SubSeq(s, n + 1, Len(s))

SetFirstLine(r) ==
    IF r.firstLine # <<>> \/ ~HasLineEnd(r.buf) THEN r
    ELSE [r EXCEPT !.firstLine = SubSeq(r.buf, 1, FindLineEnd(r.buf)),
                   !.buf = Drop(@, FindLineEnd(@) + 2)]

Trim(s) == LET solid == {i \in DOMAIN s : s[i] # "sp"}
           IN  IF solid = {} THEN <<>> ELSE SubSeq(s, Min(solid), Max(solid))

\* A header line without separator throws; a repeated name is overwritten.
AddHeader(r, line) ==
    LET sep == SelectInSeq(line, LAMBDA c : c = ":")
        name == SubSeq(line, 1, sep - 1)
    IN  IF sep = 0 THEN [r EXCEPT !.thrown = TRUE]
        ELSE [r EXCEPT !.headers =
                [n \in DOMAIN @ \cup {name} |-> IF n = name THEN Trim(Drop(line, sep)) ELSE @[n]]]

Digits == {"0", "1", "2"}
Digit(c) == CHOOSE n \in 0..2 : c = ToString(n)

Number(digits) == FoldLeft(LAMBDA n, c : 10 * n + Digit(c), 0, digits)
\* The digits s begins with
LeadingDigits(s) ==
    SubSeq(s, 1, Max({n \in 0..Len(s) : \A i \in 1..n : s[i] \in Digits}))

\* std::stoi takes a sign and the digits behind it, and throws if there are none;
\* the int becomes a size_t.
SetContentLength(r) ==
    IF <<"CL">> \notin DOMAIN r.headers THEN [r EXCEPT !.contentLength = 0]
    ELSE LET value == r.headers[<<"CL">>]
             negative == value # <<>> /\ Head(value) = "-"
             digits == LeadingDigits(IF negative THEN Tail(value) ELSE value)
         IN  IF digits = <<>> THEN [r EXCEPT !.thrown = TRUE]
             ELSE [r EXCEPT !.contentLength =
                      (IF negative THEN -Number(digits) ELSE Number(digits)) % SizeSpace]

RECURSIVE SetHeaders(_)
SetHeaders(r) ==
    IF r.thrown \/ ~HasLineEnd(r.buf) THEN r
    ELSE LET line == SubSeq(r.buf, 1, FindLineEnd(r.buf))
             rest == [r EXCEPT !.buf = Drop(@, FindLineEnd(@) + 2)]
         IN  IF line = <<>>
             THEN SetContentLength([rest EXCEPT !.headersParseComplete = TRUE])
             ELSE SetHeaders(AddHeader(rest, line))

\* Mutant: the body must be longer than the content length.
ParseMessageBody_Strict(r) ==
    IF ~r.headersParseComplete \/ r.totalParseComplete THEN r
    ELSE [r EXCEPT !.body = @ \o r.buf, !.buf = <<>>,
                   !.totalParseComplete = Len(r.body \o r.buf) > r.contentLength]

ParseMessageBody(r) ==
    IF ~r.headersParseComplete \/ r.totalParseComplete THEN r
    ELSE [r EXCEPT !.body = @ \o r.buf, !.buf = <<>>,
                   !.totalParseComplete = Len(r.body \o r.buf) >= r.contentLength]

ParseRequest(r) ==
    LET head == IF r.headersParseComplete THEN r ELSE SetHeaders(SetFirstLine(r))
    IN  IF head.thrown THEN head ELSE ParseMessageBody(head)

\* HttpRequest::Append: nothing more is taken once the request is complete.
AppendData(r, s) ==
    IF r.totalParseComplete THEN r ELSE ParseRequest([r EXCEPT !.buf = @ \o s])

-----------------------------------------------------------------------------
Init ==
    /\ stream \in Streams
    /\ consumed = 0
    /\ request = NewRequest

\* HttpRequestHandler::AppendReceivedData with the next piece of the stream; an
\* exception out of it ends the process.
AppendReceivedData ==
    /\ ~request.thrown
    /\ \E n \in 1..Len(stream) - consumed :
        /\ consumed' = consumed + n
        /\ request' = AppendData(request, SubSeq(stream, consumed + 1, consumed + n))
    /\ UNCHANGED stream

Next == AppendReceivedData

Spec == Init /\ [][Next]_vars

-----------------------------------------------------------------------------
\* The request as one piece would give it.
AtOnce == AppendData(NewRequest, SubSeq(stream, 1, consumed))

\* Where the pieces are cut does not show: first line, headers, content length,
\* completion and the declared part of the body are those of the same bytes
\* parsed at once, line ends and numbers cut in two included.
ChunkingInvisible ==
    LET Declared(r) == SubSeq(r.body, 1, r.contentLength)
    IN  /\ request.thrown = AtOnce.thrown
        /\ ~request.thrown =>
            /\ \A f \in {"firstLine", "headers", "contentLength",
                         "headersParseComplete", "totalParseComplete"} : request[f] = AtOnce[f]
            /\ request.headersParseComplete \/ request.buf = AtOnce.buf
            /\ request.totalParseComplete => Declared(request) = Declared(AtOnce)

\* A request is complete exactly when its head, up to the first empty line, and
\* as many bytes as the last Content-Length of the head says have arrived; a
\* negative length is never reached.
CompleteExactly ==
    LET lineEnds == {i \in 1..Len(stream) - 1 : stream[i] = "CR" /\ stream[i + 1] = "LF"}
        blanks == {i \in lineEnds : i - 2 \in lineEnds}
        head == IF blanks = {} THEN Len(stream) + 1 ELSE Min(blanks) + 1
        names == {i \in DOMAIN stream : i < head /\ stream[i] = "CL"}
        digits == {i \in DOMAIN stream : i > Max(names) /\ i < head /\ stream[i] \in Digits}
        value == IF names = {} THEN 0 ELSE Number(SubSeq(stream, Min(digits), Max(digits)))
        negative == names # {} /\ stream[Min(digits) - 1] = "-" /\ value > 0
    IN  ~request.thrown =>
            (request.totalParseComplete <=> consumed >= head + value /\ ~negative)

\* The stream begins with a line end.  SetFirstLine takes an empty first line for
\* one that has not come yet, and does so again at the next Append.
FirstLineEmpty == Len(stream) > 1 /\ stream[1] = "CR" /\ stream[2] = "LF"

\* HttpRequest::Append: where its input is cut does not show (ChunkingInvisible),
\* and the request is complete exactly when head and body have arrived
\* (CompleteExactly), except behind an empty first line.
ParsedAsWhole == FirstLineEmpty \/ (ChunkingInvisible /\ CompleteExactly)
=============================================================================
