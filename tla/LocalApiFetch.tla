--------------------------- MODULE LocalApiFetch ---------------------------
(* fetch_localapi_status and _read_chunked_body: read tailscaled's status    *)
(* over a stream socket that may hand over its bytes in pieces of any size,  *)
(* end early or stall.  The stream is immutable and read through an index.   *)
EXTENDS Integers, SequencesExt

CONSTANTS
    MaxHeaders,     \* MAX_HTTP_HEADERS
    MaxBody,        \* MAX_HTTP_BODY
    Recv,           \* most bytes of one recv, 4096 in the code
    Streams         \* what tailscaled may send

\* Bytes the reader tells apart: line ends, hexadecimal digits, the separators
\* of chunk extensions and trailers, and a status that is the object {}.
CR == "CR"
LF == "LF"
Digits == <<"0", "1", "2">>
HttpBytes == {CR, LF, ";", ":", "{", "}"} \union Range(Digits)

\* head: length of the status line and the headers, blank line included;
\* framing: what they say of the body; rest: the bytes behind; sent: how many
\* bytes arrive at all; closes: the connection ends then, or stalls.
Framings == [kind : {"bad", "chunked", "toEnd"}] \union [kind : {"length"}, n : Nat]
StreamType == [head : Nat, framing : Framings, rest : Seq(HttpBytes),
               sent : Nat, closes : BOOLEAN]

ASSUME FetchAssumption ==
    /\ MaxHeaders \in Nat \ {0}
    /\ MaxBody \in Nat
    /\ Recv \in Nat \ {0}
    /\ \A s \in Streams : s \in StreamType /\ s.sent <= s.head + Len(s.rest)

VARIABLES
    stream,
    got,        \* bytes received
    phase,
    used,       \* bytes of rest that are parsed (chunked only)
    size,       \* size of the current chunk
    trailer,    \* trailer_bytes
    output,     \* the body so far (chunked only)
    outcome,    \* "none", "accepted" or "refused"
    expired     \* the deadline passed (history)

parsing   == <<used, size, trailer, output>>
fetchVars == <<stream, got, phase, parsing, outcome, expired>>

FetchInit ==
    /\ stream \in Streams
    /\ got = 0 /\ phase = "headers"
    /\ used = 0 /\ size = 0 /\ trailer = 0 /\ output = << >>
    /\ outcome = "none" /\ expired = FALSE

-----------------------------------------------------------------------------
\* Received behind the headers, and not yet parsed.
Behind == got - stream.head
Pending == Behind - used

\* The first line end at or behind position o of text, 0 when there is none.
LineEnd(text, o) ==
    LET ends == {i \in o + 1 .. Len(text) - 1 : text[i] = CR /\ text[i + 1] = LF}
    IN  IF ends = {} THEN 0 ELSE CHOOSE i \in ends : \A j \in ends : i <= j

NextLineEnd == LineEnd(SubSeq(stream.rest, 1, Behind), used)
Line == SubSeq(stream.rest, used + 1, NextLineEnd - 1)

Blank(c) == c \in {CR, LF}

\* json.loads finds an object: with these bytes only {} and blanks.
IsObject(body) == SelectSeq(body, LAMBDA c : ~Blank(c)) = <<"{", "}">>

Fail == phase' = "done" /\ outcome' = "refused" /\ UNCHANGED <<got, parsing>>

Accept(body) ==
    /\ phase' = "done"
    /\ output' = body
    /\ outcome' = IF IsObject(body) THEN "accepted" ELSE "refused"
    /\ UNCHANGED <<got, used, size, trailer>>

GoTo(l) == phase' = l /\ UNCHANGED <<got, outcome>>

\* Mutant of TooLong: a body without framing may have any length.
TooLongLine ==
    \/ phase = "headers" /\ got < stream.head /\ got > MaxHeaders
    \/ phase \in {"size", "trailer"} /\ NextLineEnd = 0 /\ Pending > MaxHeaders

\* Something that has not ended yet is over its limit already.
TooLong ==
    \/ phase = "headers" /\ got < stream.head /\ got > MaxHeaders
    \/ phase \in {"size", "trailer"} /\ NextLineEnd = 0 /\ Pending > MaxHeaders
    \/ phase = "toEnd" /\ Behind > MaxBody

\* Mutant of ChunkArrived: one recv is taken for the whole chunk.
ChunkArrivedPartly == Pending > 0

\* receive_exact waits for all of it.
ChunkArrived == Pending >= size

\* The phase asks for more bytes before it can go on.
Hungry ==
    /\ ~TooLong
    /\ \/ phase = "headers" /\ got < stream.head
       \/ phase = "length" /\ Behind < stream.framing.n
       \/ phase = "toEnd"
       \/ phase \in {"size", "trailer"} /\ NextLineEnd = 0
       \/ phase = "data" /\ ~ChunkArrived
       \/ phase = "frame" /\ Pending < 2

\* How much it asks for.
Cap ==
    LET rest == IF phase = "length" THEN stream.framing.n - Behind
                ELSE IF phase = "data" THEN size - Pending
                ELSE IF phase = "frame" THEN 2 - Pending
                ELSE Recv
    IN  IF rest < Recv THEN rest ELSE Recv

\* recv returns any piece of what has been sent.
Read ==
    /\ Hungry
    /\ \E n \in 1 .. Cap : got + n <= stream.sent /\ got' = got + n
    /\ UNCHANGED <<stream, phase, parsing, outcome, expired>>

\* recv returns nothing: only a body without framing may end like this.
EndOfStream ==
    /\ Hungry
    /\ got = stream.sent /\ stream.closes
    /\ \/ phase # "toEnd" /\ Fail
       \/ phase = "toEnd" /\ Accept(SubSeq(stream.rest, 1, Behind))
    /\ UNCHANGED <<stream, expired>>

\* Mutant of Expire: only the wait for the headers has a timeout.
ExpireHeaders ==
    /\ Hungry
    /\ phase = "headers"
    /\ Fail
    /\ expired' = TRUE
    /\ UNCHANGED stream

\* _remaining or recv raises when the deadline has passed.
Expire ==
    /\ Hungry
    /\ Fail
    /\ expired' = TRUE
    /\ UNCHANGED stream

Overflow ==
    /\ TooLong
    /\ Fail
    /\ UNCHANGED <<stream, expired>>

\* Mutant of Fits: a body that came with the headers is one byte too much.
FitsBelow(n) == n <= MaxBody /\ Behind < n

\* A surplus is refused when it came with the headers, else it is not read.
Fits(n) == n <= MaxBody /\ Behind <= n

\* The blank line has been received; what came with it is body already.
HeadersEnd ==
    /\ phase = "headers"
    /\ got >= stream.head
    /\ LET f == stream.framing
           good == /\ stream.head <= MaxHeaders
                   /\ f.kind # "bad"
                   /\ f.kind = "length" => Fits(f.n)
       IN  \/ ~good /\ Fail
           \/ /\ good
              /\ GoTo(IF f.kind = "chunked" THEN "size" ELSE f.kind)
              /\ UNCHANGED parsing
    /\ UNCHANGED <<stream, expired>>

LengthEnds ==
    /\ phase = "length"
    /\ Behind >= stream.framing.n
    /\ Accept(SubSeq(stream.rest, 1, Behind))
    /\ UNCHANGED <<stream, expired>>

-----------------------------------------------------------------------------
(* _read_chunked_body *)

\* Chunk extensions are ignored.
SizeText(line) ==
    LET semis == {i \in 1 .. Len(line) : line[i] = ";"}
    IN  SubSeq(line, 1, IF semis = {} THEN Len(line)
                        ELSE (CHOOSE i \in semis : \A j \in semis : i <= j) - 1)

IsSize(text) == Len(text) \in 1 .. 16 /\ Range(text) \subseteq Range(Digits)

Digit(c) == (CHOOSE i \in DOMAIN Digits : Digits[i] = c) - 1

\* Values of the first digits of text.
Values(text) ==
    LET upTo[k \in 0 .. Len(text)] == IF k = 0 THEN 0 ELSE 16 * upTo[k - 1] + Digit(text[k])
    IN  upTo

Value(text) == Values(text)[Len(text)]

SizeLine ==
    /\ phase = "size"
    /\ NextLineEnd # 0
    /\ LET text == SizeText(Line)
           fits == IsSize(text) /\ Len(output) + Value(text) <= MaxBody
       IN  \/ ~fits /\ Fail
           \/ /\ fits
              /\ GoTo(IF Value(text) = 0 THEN "trailer" ELSE "data")
              /\ size' = Value(text)
              /\ used' = NextLineEnd + 1
              /\ trailer' = 0
              /\ UNCHANGED output
    /\ UNCHANGED <<stream, expired>>

ChunkEnds ==
    /\ phase = "data"
    /\ ChunkArrived
    /\ output' = output \o SubSeq(stream.rest, used + 1, used + size)
    /\ used' = used + size
    /\ GoTo("frame")
    /\ UNCHANGED <<stream, size, trailer, expired>>

\* Mutant of Framed: the two bytes behind a chunk are not looked at.
FramedAnyhow(bytes) == TRUE

Framed(bytes) == bytes = <<CR, LF>>

FrameEnds ==
    /\ phase = "frame"
    /\ Pending >= 2
    /\ \/ ~Framed(SubSeq(stream.rest, used + 1, used + 2)) /\ Fail
       \/ /\ Framed(SubSeq(stream.rest, used + 1, used + 2))
          /\ GoTo("size")
          /\ used' = used + 2
          /\ UNCHANGED <<size, trailer, output>>
    /\ UNCHANGED <<stream, expired>>

\* A blank line ends the trailers and the body.
TrailerLine ==
    /\ phase = "trailer"
    /\ NextLineEnd # 0
    /\ LET total == trailer + Len(Line) + 2
           wrong == Line # << >> /\ (Blank(Line[1]) \/ ":" \notin Range(Line))
       IN  \/ (total > MaxHeaders \/ wrong) /\ Fail
           \/ total <= MaxHeaders /\ Line = << >> /\ Accept(output)
           \/ /\ total <= MaxHeaders /\ Line # << >> /\ ~wrong
              /\ GoTo("trailer")
              /\ trailer' = total
              /\ used' = NextLineEnd + 1
              /\ UNCHANGED <<size, output>>
    /\ UNCHANGED <<stream, expired>>

FetchNext ==
    \/ Read \/ EndOfStream \/ Expire \/ Overflow
    \/ HeadersEnd \/ LengthEnds
    \/ SizeLine \/ ChunkEnds \/ FrameEnds \/ TrailerLine

\* The process runs and time passes; nothing is assumed of tailscaled.
FetchSpec == FetchInit /\ [][FetchNext]_fetchVars /\ WF_fetchVars(FetchNext)

-----------------------------------------------------------------------------
(* Properties *)

FetchTypeOK ==
    /\ stream \in StreamType
    /\ got \in 0 .. stream.sent
    /\ phase \in {"headers", "length", "toEnd", "size", "data", "frame",
                  "trailer", "done"}
    /\ used \in Nat /\ size \in Nat /\ trailer \in Nat
    /\ used > 0 => used <= Behind
    /\ output \in Seq(HttpBytes)
    /\ outcome \in {"none", "accepted", "refused"}
    /\ expired \in BOOLEAN

\* What tailscaled sent behind the headers, however it arrived.
Text == SubSeq(stream.rest, 1, stream.sent - stream.head)

Nothing == <<"nothing">>

\* Trailers from o on: where they end, 0 when they do not or are malformed;
\* behind tells it of the lines that come behind.
TrailersFrom(o, behind) ==
    LET e == LineEnd(Text, o)
        line == SubSeq(Text, o + 1, e - 1)
    IN  IF e = 0 THEN 0
        ELSE IF line = << >> THEN e + 1
        ELSE IF ":" \in Range(line) /\ ~Blank(line[1]) THEN behind[e + 1]
        ELSE 0

TrailersEnd[o \in 0 .. Len(Text)] == TrailersFrom(o, TrailersEnd)

\* RFC 9112, 7.1: the body that the chunks from o on carry; behind gives that
\* of the chunks that come behind.
BodyFrom(o, behind) ==
    LET e == LineEnd(Text, o)
        text == SizeText(SubSeq(Text, o + 1, e - 1))
        n == Value(text)
    IN  IF e = 0 \/ ~IsSize(text) THEN Nothing
        ELSE IF n = 0 THEN IF TrailersEnd[e + 1] - e - 1 \in 1 .. MaxHeaders
                           THEN << >> ELSE Nothing
        ELSE IF \/ Len(Text) < e + n + 3
                \/ SubSeq(Text, e + n + 2, e + n + 3) # <<CR, LF>>
                \/ behind[e + n + 3] = Nothing THEN Nothing
        ELSE SubSeq(Text, e + 2, e + n + 1) \o behind[e + n + 3]

Dechunked[o \in 0 .. Len(Text)] == BodyFrom(o, Dechunked)

\* The body the headers announce, Nothing when it is not all there.
Declared ==
    LET f == stream.framing
    IN  IF stream.sent < stream.head THEN Nothing
        ELSE IF f.kind = "chunked" THEN Dechunked[0]
        ELSE IF f.kind = "length" /\ f.n <= Len(Text) THEN SubSeq(Text, 1, f.n)
        ELSE IF f.kind = "toEnd" /\ stream.closes THEN Text
        ELSE Nothing

\* However the stream was cut into pieces: an accepted status is the one the
\* headers announce, whole, within the limit, and an object.
AcceptedIsWhole ==
    outcome = "accepted" =>
        /\ Declared # Nothing
        /\ output = Declared
        /\ Len(output) <= MaxBody

\* More than MaxHeaders bytes without a line end.
HasLongLine ==
    \E o \in 0 .. Len(Text) - MaxHeaders - 1 :
        LineEnd(SubSeq(Text, 1, o + MaxHeaders + 1), o) = 0

\* The status is not all there, is no object, has something behind it, or some
\* part of it is over its limit.
Cause ==
    \/ Declared = Nothing \/ ~IsObject(Declared)
    \/ stream.head > MaxHeaders \/ Len(Declared) > MaxBody
    \/ stream.framing.kind = "length" /\ Len(Text) > stream.framing.n
    \/ stream.framing.kind = "chunked" /\ HasLongLine

\* A whole status without anything behind it is refused only when the deadline
\* passes or some part of it is over its limit.  (Whether bytes behind a body
\* of known length are refused depends on the piece they arrive in.)
RefusedForCause == outcome = "refused" /\ ~expired => Cause

\* A server that never stops sending does not fill the controller's memory.
Held == IF phase = "headers" THEN got ELSE Pending + Len(output)

MemoryIsBounded == phase # "done" => Held <= MaxHeaders + MaxBody + Recv

\* A server that goes silent in the middle does not stop the controller.
Returns == <>(phase = "done")
=============================================================================
