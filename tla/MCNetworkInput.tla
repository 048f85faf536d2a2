--------------------------- MODULE MCNetworkInput ---------------------------
(* What comes off the network: tailscaled's status, a DNS reply and the      *)
(* names in it.  The three readers share no state, so a behaviour runs one   *)
(* of them, reader, while the others wait in a fixed initial state.          *)
EXTENDS LocalApiFetch, DnsAnswer, DnsName

VARIABLE reader

mcVars == <<reader, fetchVars, answerVars, nameVars>>

SomeStream == CHOOSE s \in Streams : TRUE
SomeReply  == CHOOSE r \in Replies : TRUE

FetchWaits == stream = SomeStream /\ FetchInit

AnswerWaits == reply = SomeReply /\ AnswerInit

NameWaits == packet = [i \in 1 .. Size |-> 0] /\ start = 0 /\ NameInit

MCInit ==
    \/ reader = "fetch" /\ FetchInit /\ AnswerWaits /\ NameWaits
    \/ reader = "answer" /\ FetchWaits /\ AnswerInit /\ NameWaits
    \/ reader = "name" /\ FetchWaits /\ AnswerWaits /\ NameInit

RunsFetch  == reader = "fetch"  /\ FetchNext  /\ UNCHANGED <<reader, answerVars, nameVars>>
RunsAnswer == reader = "answer" /\ AnswerNext /\ UNCHANGED <<reader, fetchVars, nameVars>>
RunsName   == reader = "name"   /\ NameNext   /\ UNCHANGED <<reader, fetchVars, answerVars>>

MCNext == RunsFetch \/ RunsAnswer \/ RunsName

\* The fairness of the three modules: the process runs.
MCSpec == MCInit /\ [][MCNext]_mcVars /\ WF_mcVars(MCNext)

-----------------------------------------------------------------------------
(* Properties *)

\* fetch_localapi_status: an accepted status is whole, a good one is not
\* refused, and no server fills the memory.
StatusIsRight == FetchTypeOK /\ AcceptedIsWhole /\ RefusedForCause /\ MemoryIsBounded

\* _parse_dns_answer: the chain is followed exactly, and the reply says what
\* its answer section says.  _decode_dns_name: a name is what its bytes denote,
\* and the caller goes on behind it.
ReplyIsRight ==
    /\ AnswerTypeOK /\ ChainIsFollowed /\ AnswerIsRight
    /\ NameTypeOK /\ NameIsRight /\ CallerMovesOn

\* No server, reply or packet keeps the controller's loop from going on.
InputIsRead ==
    /\ reader = "fetch" => Returns
    /\ reader = "answer" => Concludes
    /\ reader = "name" => Decodes

-----------------------------------------------------------------------------
(* Streams *)

CRLF == <<CR, LF>>

\* {} in one chunk.
Plain == <<"2">> \o CRLF \o <<"{", "}">> \o CRLF \o <<"0">> \o CRLF \o CRLF

\* A line end in the data, an extension, a second chunk and a trailer.
Rich == <<"2", ";">> \o CRLF \o CRLF \o CRLF \o <<"2">> \o CRLF \o <<"{", "}">>
        \o CRLF \o <<"0">> \o CRLF \o <<":">> \o CRLF \o CRLF

\* Chunks that are too long together, and a line and trailers over their limit.
TooMuch ==
    {<<"2">> \o CRLF \o CRLF \o CRLF \o <<"2">> \o CRLF \o CRLF \o CRLF \o Plain,
     <<"2", ";", ";", ";", ";", ";">> \o Tail(Plain),
     SubSeq(Rich, 1, 17) \o <<":", ":">> \o CRLF \o <<":">> \o CRLF \o CRLF,
     <<"1", "0">> \o Tail(Plain)}

\* One byte of a good body is another one, or is missing.
Damaged == {[Plain EXCEPT ![i] = b] : i \in DOMAIN Plain, b \in HttpBytes}
           \union {RemoveAt(Plain, i) : i \in DOMAIN Plain}

Bodies == UNION {[1 .. n -> {"{", "}", LF}] : n \in 0 .. 5}
          \union {[i \in 1 .. 16 |-> LF]}

Sends(head, framings, rests, sent) ==
    {[head |-> head, framing |-> f, rest |-> r, sent |-> n, closes |-> c] :
        f \in framings, r \in rests, n \in sent, c \in BOOLEAN}

Whole(framings, rests) ==
    UNION {Sends(4, framings, {r}, {4 + Len(r)}) : r \in rests}

MCStreams ==
    Whole({[kind |-> "chunked"]}, Damaged \union TooMuch)
    \union Sends(4, {[kind |-> "chunked"]}, {Plain}, 0 .. 4 + Len(Plain))
    \union Sends(4, {[kind |-> "chunked"]}, {Rich}, 0 .. 4 + Len(Rich))
    \union Whole([kind : {"length"}, n : 0 .. 5] \union {[kind |-> "toEnd"]}, Bodies)
    \union UNION {Sends(h, {[kind |-> "bad"], [kind |-> "length", n |-> 2]},
                        {<<"{", "}">>}, 0 .. h + 2) : h \in {4, 5, 6, 12}}

-----------------------------------------------------------------------------
(* Replies *)

\* One record of each sort, for every owner and target.
MCRecords ==
    [owner : Names, kind : {"cname"}, data : Names \union {Bad}]
    \union
    [owner : Names, kind : {"address"}, data : Addresses \union {Bad}]
    \union
    {[owner |-> Asked, kind |-> "other", data |-> Bad],
     [owner |-> Bad, kind |-> "other", data |-> Bad]}

\* Every order of three records, two or three of them in the answer section;
\* and every combination of flags, with one record.
MCReplies ==
    [header : {TRUE}, tc : {FALSE}, rcode : {FALSE}, trailing : {FALSE},
     ancount : {2, 3}, records : [1 .. 3 -> MCRecords]]
    \union
    [header : BOOLEAN, tc : BOOLEAN, rcode : BOOLEAN, trailing : BOOLEAN,
     ancount : {0, 1}, records : [1 .. 1 -> MCRecords]]
=============================================================================
