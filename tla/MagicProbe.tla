----------------------------- MODULE MagicProbe -----------------------------
(* probe_magicdns and _probe_one: ask MagicDNS for the node's own name, one  *)
(* address family after the other, first over UDP and over TCP when that     *)
(* reply is truncated, all within one budget.  Time is in ticks; the server  *)
(* decides beforehand what it answers to each family and how fast.           *)
EXTENDS Naturals, Sequences

CONSTANTS
    Budget,     \* REQUEST_SECONDS, in ticks
    Reads,      \* recv calls a TCP reply takes
    Delays      \* ticks until a reply, or one read of it, arrives

ASSUME ProbeAssumption ==
    /\ Budget \in Nat \ {0}
    /\ Reads \in Nat \ {0}
    /\ Delays \subseteq Nat

VARIABLES
    order,      \* query_types: the families with expected addresses
    server,     \* what MagicDNS answers (does not change during a probe)
    clock,      \* ticks since the probe began
    index,      \* the family being asked
    limit,      \* probe_deadline
    phase,
    waited,     \* ticks in the current system call
    reads,      \* recv calls done
    askedAt,    \* when each family was asked (history)
    verdict

setting   == <<order, server>>
attempt   == <<limit, phase, waited, reads>>
probeVars == <<setting, clock, index, attempt, askedAt, verdict>>

Families == {"A", "AAAA"}

\* discovery_from_status prefers A whenever there is an IPv4 address.
Orders == {<<"A">>, <<"AAAA">>, <<"A", "AAAA">>}

\* A final reply with an expected address; a reply that is malformed, an
\* error, someone else's, or of other addresses; one with TC set; silence.
Replies == {"expected", "other", "truncated", "none"}
Servers == [Families -> [udp : Replies, tcp : Replies, delay : Delays]]

ProbeInit ==
    /\ order \in Orders
    /\ server \in Servers
    /\ clock = 0 /\ index = 1 /\ limit = 0
    /\ phase = "ask" /\ waited = 0 /\ reads = 0
    /\ askedAt = << >>
    /\ verdict = "none"

Now == server[order[index]]

\* Mutant of Limit: the first family may use up the whole budget.
LimitShared == Budget

\* Mutant of Limit: each family has a budget of its own.
LimitEach == clock + Budget

\* Its share of what is left, all of it for the last family.
Limit == clock + (Budget - clock) \div (Len(order) + 1 - index)

NextFamily ==
    /\ index' = index + 1
    /\ phase' = "ask"
    /\ UNCHANGED <<limit, waited, reads, verdict>>

Finish(v) ==
    /\ phase' = "done"
    /\ verdict' = v
    /\ UNCHANGED <<index, limit, waited, reads>>

\* Another system call in phase l: _remaining raises when no time is left.
GoOn(l, n) ==
    \/ /\ clock < limit
       /\ phase' = l /\ waited' = 0 /\ reads' = n
       /\ UNCHANGED <<index, limit, verdict>>
    \/ clock >= limit /\ NextFamily

Ask ==
    /\ phase = "ask"
    /\ index <= Len(order)
    /\ askedAt' = Append(askedAt, clock)
    /\ limit' = Limit
    /\ waited' = 0
    /\ \/ clock < limit' /\ phase' = "udp" /\ UNCHANGED index
       \/ clock >= limit' /\ index' = index + 1 /\ UNCHANGED phase
    /\ UNCHANGED <<setting, clock, reads, verdict>>

\* Mutant of Conclude: a truncated reply proves the name as well.
ConcludeTruncated(reply) ==
    \/ reply \in {"expected", "truncated"} /\ Finish("yes")
    \/ reply = "other" /\ NextFamily

\* A complete reply, or a socket error, ends the attempt.
Conclude(reply) ==
    \/ reply = "expected" /\ Finish("yes")
    \/ reply \in {"other", "truncated"} /\ NextFamily

UdpReply ==
    /\ phase = "udp"
    /\ waited = Now.delay
    /\ \/ Now.udp = "truncated" /\ GoOn("tcp", 0)
       \/ Now.udp \in {"expected", "other"} /\ Conclude(Now.udp)
    /\ UNCHANGED <<setting, clock, askedAt>>

\* _recv_exact: every recv has what is left of the deadline, not a new one.
TcpRead ==
    /\ phase = "tcp"
    /\ waited = Now.delay
    /\ Now.tcp # "none"
    /\ \/ reads + 1 < Reads /\ GoOn("tcp", reads + 1)
       \/ reads + 1 = Reads /\ Conclude(Now.tcp)
    /\ UNCHANGED <<setting, clock, askedAt>>

\* Mutant of Expire: the TCP socket blocks.
ExpireUdp ==
    /\ clock >= limit
    /\ \/ phase = "udp" /\ NextFamily
       \/ phase = "tcp" /\ UNCHANGED <<index, attempt, verdict>>
    /\ UNCHANGED <<setting, clock, askedAt>>

\* TimeoutError; a reply due at this very moment may still be read.
Expire ==
    /\ phase \in {"udp", "tcp"}
    /\ clock >= limit
    /\ NextFamily
    /\ UNCHANGED <<setting, clock, askedAt>>

AllAsked ==
    /\ phase = "ask"
    /\ index > Len(order)
    /\ Finish("no")
    /\ UNCHANGED <<setting, clock, askedAt>>

Awaited == IF phase = "udp" THEN Now.udp ELSE Now.tcp

ProbeTick ==
    /\ phase \in {"udp", "tcp"}
    /\ clock < limit
    /\ waited < Now.delay \/ Awaited = "none"
    /\ clock' = clock + 1
    /\ waited' = waited + 1
    /\ UNCHANGED <<setting, index, limit, phase, reads, askedAt, verdict>>

ProbeNext == Ask \/ UdpReply \/ TcpRead \/ Expire \/ AllAsked \/ ProbeTick

\* Time passes and the process runs.
ProbeSpec == ProbeInit /\ [][ProbeNext]_probeVars /\ WF_probeVars(ProbeNext)

-----------------------------------------------------------------------------
(* Properties *)

ProbeTypeOK ==
    /\ order \in Orders
    /\ server \in Servers
    /\ clock \in Nat /\ limit \in Nat /\ waited \in Nat
    /\ index \in 1 .. Len(order) + 1
    /\ phase \in {"ask", "udp", "tcp", "done"}
    /\ reads \in 0 .. Reads
    /\ askedAt \in Seq(Nat)
    /\ verdict \in {"none", "yes", "no"}

\* All families, their TCP retries and a server that trickles its reply take
\* no more than one request's time: LoopTiming's bound on the probe.
ProbeInTime == clock <= Budget

\* However the families before it behaved, each is asked with at least its
\* share of the budget left.
EachHasItsShare ==
    \A i \in 1 .. Len(askedAt) :
        i <= Len(order) /\ askedAt[i] + Budget \div Len(order) <= Budget

\* The server proves the name to family f.
Proves(f) == \/ server[f].udp = "expected"
             \/ server[f].udp = "truncated" /\ server[f].tcp = "expected"

\* How long the reply that proves it takes, TCP reads included.
Needs(f) == IF server[f].udp = "expected" THEN server[f].delay
                                          ELSE server[f].delay * (1 + Reads)

\* The probe succeeds only on a complete reply with an expected address, and
\* does not miss one that any family gives within its share.
VerdictIsRight ==
    LET asked == {order[i] : i \in 1 .. Len(order)}
    IN  /\ verdict = "yes" => \E f \in asked : Proves(f)
        /\ verdict = "no" =>
             ~\E f \in asked : Proves(f) /\ Needs(f) < Budget \div Len(order)

\* The probe returns, whatever the server does.
Returns == <>(phase = "done")
=============================================================================
