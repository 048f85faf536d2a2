------------------------------ MODULE DnsName ------------------------------
(* _decode_dns_name: read the name at an offset of a DNS packet, following   *)
(* compression pointers.  A packet is a sequence of bytes chosen by whoever  *)
(* answers; offsets count from 0 as in the code.                             *)
EXTENDS Integers, Sequences

CONSTANTS
    Bytes,      \* byte values a packet may hold
    Size,       \* length of the packet
    Letters,    \* the bytes that _DNS_LABEL accepts in a label
    MaxName     \* longest name, a separator after each label (code: 254)

ASSUME NameAssumption ==
    /\ Bytes \subseteq 0 .. 255
    /\ Size \in Nat \ {0}
    /\ Letters \subseteq Bytes
    /\ MaxName \in Nat

VARIABLES
    packet,
    start,      \* the offset the caller asked for
    offset,
    labels,     \* labels read so far
    next,       \* next_offset: behind the first pointer, -1 before there is one
    visited,    \* pointer targets
    decoded,    \* "reading", "name" or "refused"
    end         \* where the caller goes on

nameVars == <<packet, start, offset, labels, next, visited, decoded, end>>

Offsets == 0 .. Size - 1

At(o) == packet[o + 1]

NameInit ==
    /\ packet \in [1 .. Size -> Bytes]
    /\ start \in Offsets
    /\ offset = start
    /\ labels = << >>
    /\ next = -1
    /\ visited = {}
    /\ decoded = "reading"
    /\ end = -1

IsPointer(o) == At(o) >= 192

Target(o) == (At(o) - 192) * 256 + At(o + 1)

\* What is inside the label at o.
Label(o) == SubSeq(packet, o + 2, o + 1 + At(o))

IsLabel(o) ==
    /\ At(o) \in 1 .. 63
    /\ o + 1 + At(o) <= Size
    /\ \A i \in o + 2 .. o + 1 + At(o) : packet[i] \in Letters

\* Length of the first labels of a name, with a separator after each.
Lengths(ls) ==
    LET upTo[k \in 0 .. Len(ls)] == IF k = 0 THEN 0 ELSE upTo[k - 1] + Len(ls[k]) + 1
    IN  upTo

Length(ls) == Lengths(ls)[Len(ls)]

\* Mutant of MayFollow: pointers may be followed again.
MayFollowAgain(o) ==
    /\ o + 1 < Size
    /\ Target(o) < Size

\* Mutant of MayFollow: pointers may lead out of the packet.
MayFollowOutside(o) ==
    /\ o + 1 < Size
    /\ Target(o) \notin visited

MayFollow(o) ==
    /\ o + 1 < Size
    /\ Target(o) < Size
    /\ Target(o) \notin visited

\* Mutant of Resume: the caller goes on behind the last pointer.
ResumeLast == offset + 2

\* Only the first pointer decides where the caller goes on.
Resume == IF next = -1 THEN offset + 2 ELSE next

Follow ==
    /\ decoded = "reading"
    /\ offset < Size
    /\ IsPointer(offset)
    /\ MayFollow(offset)
    /\ visited' = visited \union {Target(offset)}
    /\ next' = Resume
    /\ offset' = Target(offset)
    /\ UNCHANGED <<packet, start, labels, decoded, end>>

TakeLabel ==
    /\ decoded = "reading"
    /\ offset < Size
    /\ IsLabel(offset)
    /\ Length(labels) + At(offset) + 1 <= MaxName
    /\ labels' = Append(labels, Label(offset))
    /\ offset' = offset + 1 + At(offset)
    /\ UNCHANGED <<packet, start, next, visited, decoded, end>>

\* Mutant of EndOf: the caller goes on behind the byte that ended the name.
EndOfHere == offset + 1

EndOf == IF next = -1 THEN offset + 1 ELSE next

Finish ==
    /\ decoded = "reading"
    /\ offset < Size
    /\ At(offset) = 0
    /\ decoded' = "name"
    /\ end' = EndOf
    /\ UNCHANGED <<packet, start, offset, labels, next, visited>>

\* Every raise: the packet ends in the name, a pointer leads outside or back,
\* the two high bits are 01 or 10, a label is not one, the name is too long.
RefuseName ==
    /\ decoded = "reading"
    /\ \/ offset >= Size
       \/ offset < Size /\ IsPointer(offset) /\ ~MayFollow(offset)
       \/ /\ offset < Size
          /\ At(offset) \in 1 .. 191
          /\ \/ ~IsLabel(offset)
             \/ Length(labels) + At(offset) + 1 > MaxName
    /\ decoded' = "refused"
    /\ UNCHANGED <<packet, start, offset, labels, next, visited, end>>

NameNext == Follow \/ TakeLabel \/ Finish \/ RefuseName

\* A loop without system calls: it is only the scheduler that is relied on.
NameSpec == NameInit /\ [][NameNext]_nameVars /\ WF_nameVars(NameNext)

-----------------------------------------------------------------------------
(* Properties *)

NameTypeOK ==
    /\ packet \in [1 .. Size -> Bytes]
    /\ start \in Offsets
    /\ offset \in 0 .. Size
    /\ labels \in Seq(Seq(Bytes))
    /\ next \in -1 .. Size
    /\ visited \subseteq Offsets
    /\ decoded \in {"reading", "name", "refused"}
    /\ end \in -1 .. Size

\* No name: a name has no empty label.
None == << << >> >>

\* RFC 1035, 4.1.4: a name is a zero byte, or a label and a name, or a pointer
\* to a name; rest gives the names that come behind.
Denotes(o, rest) ==
    IF At(o) = 0 THEN << >>
    ELSE IF IsPointer(o) /\ o + 1 < Size /\ Target(o) < Size THEN rest[Target(o)]
    ELSE IF IsLabel(o) /\ rest[o + 1 + At(o)] # None
         THEN <<Label(o)>> \o rest[o + 1 + At(o)]
    ELSE None

\* The name at every offset, with n steps to find its end.
Denoted[n \in 0 .. 2 * Size] ==
    [o \in 0 .. Size |-> IF n = 0 \/ o = Size THEN None ELSE Denotes(o, Denoted[n - 1])]

\* What stands at o itself, up to and including its first pointer.
Stands(o, behind) ==
    IF At(o) = 0 THEN o + 1
    ELSE IF IsPointer(o) THEN o + 2
    ELSE IF IsLabel(o) THEN behind[o + 1 + At(o)]
    ELSE o

Extent[o \in 0 .. Size] == IF o = Size THEN Size ELSE Stands(o, Extent)

\* A reply decodes to what the name at the offset denotes, and is refused when
\* it denotes nothing, because its pointers lead in a circle or outside, or
\* when the name is too long.
NameIsRight ==
    LET meant == Denoted[2 * Size][start]
        right == meant # None /\ Length(meant) <= MaxName
    IN  /\ decoded = "name" => right /\ labels = meant /\ end = Extent[start]
        /\ decoded = "refused" => ~right

\* Wherever the pointers led, the caller goes on in the packet and behind the
\* offset it asked for: the loop over the records moves on.
CallerMovesOn == decoded = "name" => end > start /\ end <= Size

\* No packet keeps the decoder busy for ever.
Decodes == <>(decoded # "reading")
=============================================================================
