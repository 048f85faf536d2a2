----------------------------- MODULE DnsAnswer -----------------------------
(* _parse_dns_answer: what one reply to the question for a name says, with   *)
(* CNAME chains in any order.  What _decode_dns_name makes of the bytes      *)
(* (module DnsName) is a name or Bad.                                        *)
EXTENDS Naturals, Sequences

CONSTANTS
    Names,
    Asked,      \* the name in the question
    Addresses,
    Bad,        \* what a decoder refuses
    Replies     \* the replies the server may send

\* A record's kind: "cname" and "address" (the type asked for) in class IN, or
\* "other".  data is a name or Bad, or an address or Bad (its length is wrong).
Records ==
    [owner : Names \union {Bad}, kind : {"cname"}, data : Names \union {Bad}]
    \union
    [owner : Names \union {Bad}, kind : {"address", "other"},
     data : Addresses \union {Bad}]

\* header: identifier, opcode and question are those of the query; tc: the
\* reply is truncated; rcode: an error code; trailing: bytes behind the last
\* record.  The first ancount records are the answer section.
ReplyType == [header : BOOLEAN, tc : BOOLEAN, rcode : BOOLEAN,
              trailing : BOOLEAN, ancount : Nat, records : Seq(Records)]

ASSUME AnswerAssumption ==
    /\ Asked \in Names
    /\ Bad \notin Names \union Addresses
    /\ \A r \in Replies : r \in ReplyType /\ r.ancount <= Len(r.records)

VARIABLES
    reply,
    reachable,  \* names the chain leads to so far
    changed,    \* this pass over the records found a new one
    index,      \* record the pass looks at
    step,       \* "parse", "chase", "collect" or "done"
    result      \* truncated and addresses, or Bad

answerVars == <<reply, reachable, changed, index, step, result>>

\* Mutant of Answers: authority and additional records count as answers.
AnswersAll == reply.records

\* records: the answer section.
Answers == SubSeq(reply.records, 1, reply.ancount)

AnswerInit ==
    /\ reply \in Replies
    /\ reachable = {}
    /\ changed = FALSE
    /\ index = 1
    /\ step = "parse"
    /\ result = Bad

Return(value) == step' = "done" /\ result' = value

\* The flags decide before any record is read; then every record of every
\* section has to be well formed.
Parse ==
    /\ step = "parse"
    /\ \/ ~reply.header /\ Return(Bad)
       \/ reply.header /\ reply.tc /\ Return([tc |-> TRUE, found |-> {}])
       \/ /\ reply.header /\ ~reply.tc /\ reply.rcode
          /\ Return([tc |-> FALSE, found |-> {}])
       \/ /\ reply.header /\ ~reply.tc /\ ~reply.rcode
          /\ \/ \E i \in 1 .. Len(reply.records) : reply.records[i].owner = Bad
             \/ reply.trailing
          /\ Return(Bad)
       \/ /\ reply.header /\ ~reply.tc /\ ~reply.rcode
          /\ \A i \in 1 .. Len(reply.records) : reply.records[i].owner # Bad
          /\ ~reply.trailing
          /\ step' = "chase" /\ UNCHANGED result
    /\ reachable' = {Asked}
    /\ UNCHANGED <<reply, changed, index>>

\* Mutant of Linked: any CNAME extends the chain.
LinkedAny(r) == r.kind = "cname"

Linked(r) == r.kind = "cname" /\ r.owner \in reachable

\* The next record of a pass.
Chase ==
    /\ step = "chase"
    /\ index <= Len(Answers)
    /\ index' = index + 1
    /\ LET r == Answers[index]
       IN  \/ ~Linked(r) /\ UNCHANGED <<reachable, changed, step, result>>
           \/ /\ Linked(r) /\ r.data = Bad
              /\ Return(Bad)
              /\ UNCHANGED <<reachable, changed>>
           \/ /\ Linked(r) /\ r.data # Bad
              /\ reachable' = reachable \union {r.data}
              /\ changed' = (changed \/ r.data \notin reachable)
              /\ UNCHANGED <<step, result>>
    /\ UNCHANGED reply

\* Mutant of Again: the answers are looked through only once.
AgainNever == FALSE

\* Mutant of Again: as long as there are CNAMEs to follow.
AgainWhileLinked == \E i \in 1 .. Len(Answers) : Linked(Answers[i])

Again == changed

PassEnds ==
    /\ step = "chase"
    /\ index > Len(Answers)
    /\ index' = 1
    /\ changed' = FALSE
    /\ step' = IF Again THEN "chase" ELSE "collect"
    /\ UNCHANGED <<reply, reachable, result>>

\* The records that answer the question.
Matching == {i \in 1 .. Len(Answers) : /\ Answers[i].kind = "address"
                                       /\ Answers[i].owner \in reachable}

\* Mutant of Verdict: malformed addresses are passed on.
VerdictUnchecked(found) == [tc |-> FALSE, found |-> found]

\* One malformed address refuses the reply.
Verdict(found) == IF Bad \in found THEN Bad ELSE [tc |-> FALSE, found |-> found]

Collect ==
    /\ step = "collect"
    /\ Return(Verdict({Answers[i].data : i \in Matching}))
    /\ UNCHANGED <<reply, reachable, changed, index>>

AnswerNext == Parse \/ Chase \/ PassEnds \/ Collect

\* A loop without system calls: it is only the scheduler that is relied on.
AnswerSpec == AnswerInit /\ [][AnswerNext]_answerVars /\ WF_answerVars(AnswerNext)

-----------------------------------------------------------------------------
(* Properties *)

AnswerTypeOK ==
    /\ reply \in ReplyType
    /\ reachable \subseteq Names
    /\ changed \in BOOLEAN
    /\ index \in 1 .. Len(reply.records) + 1
    /\ step \in {"parse", "chase", "collect", "done"}
    /\ result \in [tc : BOOLEAN, found : SUBSET Addresses] \union {Bad}

AnswerSet == {reply.records[i] : i \in 1 .. reply.ancount}

\* A set of names that the CNAMEs of the answer do not lead out of.
Closed(names) ==
    \A r \in AnswerSet :
        r.kind = "cname" /\ r.owner \in names => r.data \in names \union {Bad}

\* The names that the CNAMEs, in whatever order, lead to.
Chain == {n \in Names : \A names \in SUBSET Names :
                            Asked \in names /\ Closed(names) => n \in names}

\* When the records are read out, the chain has been followed exactly: neither
\* cut short by the order of the records nor led astray by records of others.
ChainIsFollowed ==
    step = "collect" => reachable = Chain

WellFormed ==
    /\ reply.header
    /\ ~reply.trailing
    /\ \A i \in 1 .. Len(reply.records) : reply.records[i].owner # Bad
    /\ \A r \in AnswerSet : r.owner \in Chain /\ r.data = Bad => r.kind = "other"

\* The addresses found are those of the answer section at the end of the
\* chain; none comes from another section or another name, and no order of
\* the records makes a difference.
AnswerIsRight ==
    step = "done" /\ reply.header /\ ~reply.tc /\ ~reply.rcode =>
        result = IF WellFormed
                 THEN [tc |-> FALSE,
                       found |-> {r.data : r \in {s \in AnswerSet :
                           s.kind = "address" /\ s.owner \in Chain}}]
                 ELSE Bad

\* CNAMEs that form a circle do not keep the parser busy for ever.
Concludes == <>(step = "done")
=============================================================================
