------------------------ MODULE NetworkInput_proofs ------------------------
(* What the controller makes of bytes off the network, for any limits, any   *)
(* stream cut into any pieces, any reply and any packet: a status, an answer *)
(* and a name are what the protocols say the bytes mean.                     *)
EXTENDS MCNetworkInput, Positions_proofs, SequenceTheorems

-----------------------------------------------------------------------------
(* DnsAnswer: the records of a reply.  The chain followed so far is part of  *)
(* the least set of names that the records lead to, and no pass ends before  *)
(* the records lead nowhere else.                                            *)

\* What the server may send is well typed, and answers are some of the records.
ReplyOK == reply \in ReplyType /\ reply.ancount <= Len(reply.records)

\* The flags and the records let the parser go on to the chain.
Proceeds ==
    /\ reply.header /\ ~reply.tc /\ ~reply.rcode /\ ~reply.trailing
    /\ \A i \in 1 .. Len(reply.records) : reply.records[i].owner # Bad

\* The records at these positions lead nowhere new.
Followed(n) ==
    \A i \in 1 .. reply.ancount : i < n =>
        (Linked(reply.records[i]) => reply.records[i].data \in reachable)

Chasing == step = "chase" /\ ~changed => Followed(index)

Chased == step = "collect" => Followed(reply.ancount + 1)

AnswerInv ==
    /\ AnswerTypeOK
    /\ ReplyOK
    /\ step = "parse" => index = 1 /\ ~changed
    /\ step # "parse" => Asked \in reachable /\ reachable \subseteq Chain
    /\ step \in {"chase", "collect"} => Proceeds
    /\ Chasing
    /\ Chased
    /\ AnswerIsRight

\* The records of the answer section, typed.
LEMMA AnswerRecords ==
  ASSUME ReplyOK
  PROVE  /\ Len(Answers) = reply.ancount /\ reply.ancount \in Nat
         /\ reply.records \in Seq(Records) /\ Len(reply.records) \in Nat
         /\ \A i \in 1 .. reply.ancount :
                /\ Answers[i] = reply.records[i]
                /\ i \in 1 .. Len(reply.records)
                /\ reply.records[i] \in Records
                /\ reply.records[i] \in AnswerSet
  <1>1. /\ reply.ancount \in Nat /\ reply.records \in Seq(Records)
        /\ reply.ancount <= Len(reply.records)
    BY DEF ReplyOK, ReplyType
  <1> DEFINE records == reply.records
             n == reply.ancount
  <1>2. n \in Nat /\ records \in Seq(Records) /\ n <= Len(records) /\ Len(records) \in Nat
    BY <1>1
  <1> HIDE DEF records, n
  <1>3. /\ Len(SubSeq(records, 1, n)) = n
        /\ \A i \in 1 .. n : SubSeq(records, 1, n)[i] = records[i] /\ i \in 1 .. Len(records)
    BY <1>2
  <1>4. \A i \in 1 .. n : records[i] \in Records
    BY <1>2, <1>3
  <1> QED BY <1>2, <1>3, <1>4 DEF records, n, Answers, AnswerSet

\* A record's data, by its kind.
LEMMA RecordTypes ==
  ASSUME NEW r \in Records
  PROVE  /\ r.owner \in Names \union {Bad}
         /\ r.kind \in {"cname", "address", "other"}
         /\ r.kind = "cname" => r.data \in Names \union {Bad}
         /\ r.kind # "cname" => r.data \in Addresses \union {Bad}
  BY DEF Records

\* The asked name is in the chain, and a CNAME leads on in it.
LEMMA ChainGrows ==
  /\ Chain \subseteq Names
  /\ Asked \in Chain
  /\ \A r \in AnswerSet : r.kind = "cname" /\ r.owner \in Chain /\ r.data \in Names
                            => r.data \in Chain
  <1>1. Chain \subseteq Names /\ Asked \in Chain
    BY AnswerAssumption DEF Chain
  <1>2. ASSUME NEW r \in AnswerSet, r.kind = "cname", r.owner \in Chain, r.data \in Names
        PROVE  r.data \in Chain
    <2>1. r.data # Bad
      BY <1>2, AnswerAssumption
    <2>2. ASSUME NEW names \in SUBSET Names, Asked \in names, Closed(names)
          PROVE  r.data \in names
      <3>1. r.owner \in names
        BY <1>2, <2>2 DEF Chain
      <3> QED BY <1>2, <2>1, <2>2, <3>1 DEF Closed
    <2> QED BY <1>2, <2>2 DEF Chain
  <1> QED BY <1>1, <1>2

\* Names that the answer does not lead out of hold the chain.
LEMMA ChainIsLeast ==
  ASSUME ReplyOK, reachable \subseteq Names, Asked \in reachable, Followed(reply.ancount + 1)
  PROVE  Chain \subseteq reachable
  <1>1. Closed(reachable)
    <2> SUFFICES ASSUME NEW r \in AnswerSet, r.kind = "cname", r.owner \in reachable
                 PROVE  r.data \in reachable
      BY DEF Closed
    <2>1. PICK i \in 1 .. reply.ancount : r = reply.records[i]
      BY DEF AnswerSet
    <2>2. i < reply.ancount + 1
      BY <2>1, AnswerRecords
    <2> QED BY <2>1, <2>2 DEF Followed, Linked
  <1> QED BY <1>1 DEF Chain

\* Either result is one.
LEMMA ResultTypes ==
  /\ Bad \in [tc : BOOLEAN, found : SUBSET Addresses] \union {Bad}
  /\ \A t \in BOOLEAN, f \in SUBSET Addresses :
        [tc |-> t, found |-> f] \in [tc : BOOLEAN, found : SUBSET Addresses] \union {Bad}
  OBVIOUS

LEMMA AnswerStarts == AnswerInit => AnswerInv
  <1> SUFFICES ASSUME AnswerInit PROVE AnswerInv
    OBVIOUS
  <1>1. ReplyOK
    BY AnswerAssumption DEF ReplyOK, AnswerInit
  <1>2. PICK n \in Nat : n = Len(reply.records)
    BY <1>1, AnswerRecords
  <1>3. index \in 1 .. n + 1
    BY <1>2 DEF AnswerInit
  <1>4. AnswerTypeOK
    BY <1>1, <1>2, <1>3 DEF AnswerTypeOK, ReplyOK, AnswerInit
  <1> QED BY <1>1, <1>4 DEF AnswerInv, Chasing, Chased, AnswerIsRight, AnswerInit

LEMMA ParseKeeps == AnswerInv /\ Parse => AnswerInv'
  <1> SUFFICES ASSUME AnswerInv, Parse PROVE AnswerInv'
    OBVIOUS
  <1> USE DEF AnswerInv
  <1>1. reply' = reply /\ changed' = changed /\ index' = index /\ reachable' = {Asked}
    BY DEF Parse
  <1>2. Chain' = Chain /\ AnswerSet' = AnswerSet
    BY <1>1 DEF Chain, AnswerSet, Closed
  <1>3. ReplyOK' /\ reachable' \subseteq Chain' /\ Asked \in reachable'
    BY <1>1, <1>2, ChainGrows DEF ReplyOK
  <1>4. result' \in [tc : BOOLEAN, found : SUBSET Addresses] \union {Bad}
    <2>1. result \in [tc : BOOLEAN, found : SUBSET Addresses] \union {Bad}
      BY DEF AnswerTypeOK
    <2>2. \/ result' \in {result, Bad}
          \/ result' = [tc |-> TRUE, found |-> {}] \/ result' = [tc |-> FALSE, found |-> {}]
      BY DEF Parse, Return
    <2> QED BY <2>1, <2>2, ResultTypes
  <1>5. AnswerTypeOK'
    <2>1. step' \in {"done", "chase"}
      BY DEF Parse, Return
    <2>2. Asked \in Names
      BY AnswerAssumption
    <2> QED BY <1>1, <1>4, <2>1, <2>2 DEF AnswerTypeOK
  <1>6. step' \in {"chase", "collect"} => Proceeds'
    BY <1>1 DEF Parse, Return, Proceeds
  <1>7. step' \in {"chase", "done"} /\ step = "parse" /\ index = 1
    BY DEF Parse, Return
  <1>8. CASE step' = "done"
    <2>1. reply.header /\ ~reply.tc /\ ~reply.rcode => result' = Bad /\ ~WellFormed'
      BY <1>1, <1>8 DEF Parse, Return, WellFormed
    <2>2. AnswerIsRight'
      BY <1>1, <2>1 DEF AnswerIsRight
    <2> QED BY <1>3, <1>5, <1>6, <1>8, <2>2 DEF Chasing, Chased
  <1>9. CASE step' = "chase"
    <2>1. Followed(index)'
      BY <1>1, <1>7, <1>3, AnswerRecords DEF Followed
    <2> QED BY <1>3, <1>5, <1>6, <1>9, <2>1 DEF Chasing, Chased, AnswerIsRight
  <1> QED BY <1>7, <1>8, <1>9

LEMMA ChaseKeeps == AnswerInv /\ Chase => AnswerInv'
  <1> SUFFICES ASSUME AnswerInv, Chase PROVE AnswerInv'
    OBVIOUS
  <1>1. /\ AnswerTypeOK /\ ReplyOK /\ Asked \in reachable /\ reachable \subseteq Chain
        /\ Proceeds /\ Chasing
    BY DEF AnswerInv, Chase
  <1>2. reply' = reply /\ index' = index + 1 /\ step = "chase"
    BY DEF Chase
  <1>3. Chain' = Chain /\ AnswerSet' = AnswerSet /\ ReplyOK' /\ Proceeds'
    BY <1>1, <1>2 DEF Chain, AnswerSet, Closed, ReplyOK, Proceeds
  <1>4. PICK n \in Nat : n = reply.ancount /\ n = Len(Answers) /\ n <= Len(reply.records)
    BY <1>1, AnswerRecords DEF ReplyOK
  <1>5. index \in 1 .. n /\ reply'.ancount = n /\ Len(reply.records) \in Nat
    <2>1. index <= n
      BY <1>4 DEF Chase
    <2> QED BY <1>1, <1>2, <1>4, <2>1, AnswerRecords DEF AnswerTypeOK
  <1>6. PICK r : r = reply.records[index]
    OBVIOUS
  <1>7. Answers[index] = r /\ r \in Records /\ r \in AnswerSet
    BY <1>1, <1>4, <1>5, <1>6, AnswerRecords
  <1>8. index' \in 1 .. Len(reply'.records) + 1
    BY <1>2, <1>4, <1>5
  <1>9. \/ ~Linked(r) /\ UNCHANGED <<reachable, changed, step, result>>
        \/ Linked(r) /\ r.data = Bad /\ Return(Bad) /\ UNCHANGED <<reachable, changed>>
        \/ /\ Linked(r) /\ r.data # Bad
           /\ reachable' = reachable \union {r.data}
           /\ changed' = (changed \/ r.data \notin reachable)
           /\ UNCHANGED <<step, result>>
    BY <1>7 DEF Chase
  <1>10. ASSUME ~Linked(r), UNCHANGED <<reachable, changed, step, result>>
         PROVE  AnswerInv'
    <2>1. AnswerTypeOK'
      BY <1>1, <1>2, <1>8, <1>10 DEF AnswerTypeOK
    <2>2. Chasing'
      <3> SUFFICES ASSUME ~changed, NEW i \in 1 .. n, i < index + 1,
                          Linked(reply.records[i])
                   PROVE  reply.records[i].data \in reachable
        BY <1>2, <1>4, <1>10 DEF Chasing, Followed, Linked
      <3>1. i # index
        BY <1>6, <1>10
      <3>2. i < index
        BY <1>5, <3>1
      <3> QED BY <1>1, <1>2, <1>4, <3>2 DEF Chasing, Followed
    <2> QED BY <1>1, <1>2, <1>3, <1>10, <2>1, <2>2 DEF AnswerInv, Chased, AnswerIsRight
  <1>11. ASSUME Linked(r), r.data = Bad, Return(Bad), UNCHANGED <<reachable, changed>>
         PROVE  AnswerInv'
    <2>1. AnswerTypeOK'
      BY <1>1, <1>2, <1>8, <1>11 DEF AnswerTypeOK, Return
    <2>2. ~WellFormed
      BY <1>1, <1>7, <1>11 DEF WellFormed, Linked
    <2>3. WellFormed' = WellFormed
      BY <1>2, <1>3 DEF WellFormed
    <2>4. AnswerIsRight'
      BY <1>11, <2>2, <2>3 DEF AnswerIsRight, Return
    <2> QED BY <1>1, <1>2, <1>3, <1>11, <2>1, <2>4 DEF AnswerInv, Chasing, Chased, Return
  <1>12. ASSUME Linked(r), r.data # Bad, reachable' = reachable \union {r.data},
                changed' = (changed \/ r.data \notin reachable),
                UNCHANGED <<step, result>>
         PROVE  AnswerInv'
    <2>1. r.data \in Names /\ r.data \in Chain
      BY <1>1, <1>7, <1>12, RecordTypes, ChainGrows DEF Linked
    <2>2. AnswerTypeOK'
      <3>1. changed' \in BOOLEAN
        BY <1>12
      <3> QED BY <1>1, <1>2, <1>8, <1>12, <2>1, <3>1 DEF AnswerTypeOK
    <2>3. Chasing'
      <3> SUFFICES ASSUME ~changed', NEW i \in 1 .. n, i < index + 1,
                          Linked(reply.records[i])'
                   PROVE  reply.records[i].data \in reachable'
        BY <1>2, <1>4 DEF Chasing, Followed
      <3>1. ~changed /\ reachable' = reachable /\ r.data \in reachable
        BY <1>12
      <3>2. CASE i = index
        BY <1>6, <3>1, <3>2
      <3>3. CASE i < index
        BY <1>1, <1>2, <1>4, <3>1, <3>3 DEF Chasing, Followed, Linked
      <3> QED BY <1>5, <3>2, <3>3
    <2> QED BY <1>1, <1>2, <1>3, <1>12, <2>1, <2>2, <2>3 DEF AnswerInv, Chased, AnswerIsRight
  <1> QED BY <1>9, <1>10, <1>11, <1>12

LEMMA PassEndsKeeps == AnswerInv /\ PassEnds => AnswerInv'
  <1> SUFFICES ASSUME AnswerInv, PassEnds PROVE AnswerInv'
    OBVIOUS
  <1>1. /\ AnswerTypeOK /\ ReplyOK /\ Asked \in reachable /\ reachable \subseteq Chain
        /\ Proceeds /\ Chasing
    BY DEF AnswerInv, PassEnds
  <1>2. /\ reply' = reply /\ index' = 1 /\ changed' = FALSE /\ step = "chase"
        /\ reachable' = reachable /\ result' = result
        /\ step' = IF changed THEN "chase" ELSE "collect"
    BY DEF PassEnds, Again
  <1>3. Chain' = Chain /\ ReplyOK' /\ Proceeds'
    BY <1>1, <1>2 DEF Chain, AnswerSet, Closed, ReplyOK, Proceeds
  <1>4. PICK n \in Nat : n = reply.ancount /\ n = Len(Answers)
    BY <1>1, AnswerRecords
  <1>5. index > n /\ index \in Nat
    BY <1>1, <1>4, AnswerRecords DEF PassEnds, AnswerTypeOK
  <1>6. AnswerTypeOK'
    <2>1. Len(reply.records) \in Nat
      BY <1>1, AnswerRecords
    <2>2. 1 \in 1 .. Len(reply.records) + 1
      BY <2>1
    <2> QED BY <1>1, <1>2, <2>2 DEF AnswerTypeOK
  <1>7. Chasing'
    BY <1>2, <1>4 DEF Chasing, Followed
  <1>8. Chased'
    <2> SUFFICES ASSUME ~changed, NEW i \in 1 .. n, Linked(reply.records[i])
                 PROVE  reply.records[i].data \in reachable
      BY <1>2, <1>4 DEF Chased, Followed, Linked
    <2>1. i < index
      BY <1>5
    <2> QED BY <1>1, <1>2, <1>4, <2>1 DEF Chasing, Followed
  <1> QED BY <1>1, <1>2, <1>3, <1>6, <1>7, <1>8 DEF AnswerInv, AnswerIsRight

LEMMA CollectKeeps == AnswerInv /\ Collect => AnswerInv'
  <1> SUFFICES ASSUME AnswerInv, Collect PROVE AnswerInv'
    OBVIOUS
  <1>1. /\ AnswerTypeOK /\ ReplyOK /\ Asked \in reachable /\ reachable \subseteq Chain
        /\ Proceeds /\ Followed(reply.ancount + 1)
    BY DEF AnswerInv, Chased, Collect
  <1> DEFINE data == {Answers[i].data : i \in Matching}
             meant == {r.data : r \in {s \in AnswerSet : s.kind = "address" /\ s.owner \in Chain}}
  <1>2. /\ UNCHANGED <<reply, reachable, changed, index>> /\ step' = "done"
        /\ result' = Verdict(data)
    BY DEF Collect, Return
  <1>3. Chain' = Chain /\ AnswerSet' = AnswerSet /\ ReplyOK' /\ WellFormed' = WellFormed
    BY <1>1, <1>2 DEF Chain, AnswerSet, Closed, ReplyOK, WellFormed
  <1>4. reachable = Chain
    BY <1>1, ChainIsLeast DEF AnswerTypeOK
  <1>5. PICK n \in Nat : n = reply.ancount /\ n = Len(Answers)
    BY <1>1, AnswerRecords
  <1>6. /\ AnswerSet = {reply.records[i] : i \in 1 .. n}
        /\ \A i \in 1 .. n : Answers[i] = reply.records[i] /\ reply.records[i] \in Records
    BY <1>1, <1>5, AnswerRecords DEF AnswerSet
  <1>7. data = meant
    BY <1>4, <1>5, <1>6 DEF Matching
  <1>8. data \subseteq Addresses \union {Bad}
    <2> SUFFICES ASSUME NEW i \in 1 .. n, reply.records[i].kind = "address"
                 PROVE  reply.records[i].data \in Addresses \union {Bad}
      BY <1>5, <1>6 DEF Matching
    <2>1. PICK r \in Records : r = reply.records[i]
      BY <1>6
    <2> QED BY <2>1, RecordTypes
  <1>9. Bad \in data <=> ~WellFormed
    <2>1. ASSUME Bad \in data PROVE ~WellFormed
      <3>1. PICK r \in AnswerSet : r.kind = "address" /\ r.owner \in Chain /\ r.data = Bad
        BY <1>7, <2>1
      <3> QED BY <3>1 DEF WellFormed
    <2>2. ASSUME ~WellFormed PROVE Bad \in data
      <3>1. PICK r \in AnswerSet : r.owner \in Chain /\ r.data = Bad /\ r.kind # "other"
        BY <1>1, <2>2 DEF WellFormed, Proceeds
      <3>2. PICK i \in 1 .. n : r = reply.records[i]
        BY <1>6
      <3>3. r.kind = "cname" => r.data \in reachable
        <4>1. i < n + 1
          OBVIOUS
        <4> QED BY <1>1, <1>4, <1>5, <3>1, <3>2, <4>1 DEF Followed, Linked
      <3>4. r.kind # "cname"
        BY <1>1, <3>1, <3>3, AnswerAssumption DEF AnswerTypeOK
      <3>5. r.kind = "address"
        BY <1>6, <3>1, <3>2, <3>4, RecordTypes
      <3> QED BY <1>7, <3>1, <3>5
    <2> QED BY <2>1, <2>2
  <1> HIDE DEF data
  <1>10. AnswerTypeOK'
    <2>1. result' \in [tc : BOOLEAN, found : SUBSET Addresses] \union {Bad}
      <3>1. CASE Bad \in data
        BY <1>2, <3>1 DEF Verdict
      <3>2. CASE Bad \notin data
        <4>1. data \in SUBSET Addresses
          BY <1>8, <3>2
        <4>2. result' = [tc |-> FALSE, found |-> data]
          BY <1>2, <3>2 DEF Verdict
        <4> QED BY <4>1, <4>2, ResultTypes
      <3> QED BY <3>1, <3>2
    <2> QED BY <1>1, <1>2, <2>1 DEF AnswerTypeOK
  <1>11. AnswerIsRight'
    BY <1>2, <1>3, <1>7, <1>9 DEF AnswerIsRight, Verdict
  <1> QED BY <1>1, <1>2, <1>3, <1>10, <1>11 DEF AnswerInv, Chasing, Chased, Proceeds

LEMMA AnswerStutters == AnswerInv /\ UNCHANGED answerVars => AnswerInv'
  BY DEF AnswerInv, answerVars, AnswerTypeOK, ReplyOK, Chain, Closed, AnswerSet, Proceeds,
         Chasing, Chased, Followed, Linked, AnswerIsRight, WellFormed

LEMMA AnswerChain == AnswerInv => ChainIsFollowed
  BY ChainIsLeast DEF AnswerInv, Chased, ChainIsFollowed, AnswerTypeOK

LEMMA AnswerNextKeeps == AnswerInv /\ AnswerNext => AnswerInv'
  BY ParseKeeps, ChaseKeeps, PassEndsKeeps, CollectKeeps DEF AnswerNext

-----------------------------------------------------------------------------
(* DnsName: the bytes of a name.  What has been read and what the bytes from *)
(* here on denote are, together, what the name denotes; the offsets passed   *)
(* are all different until a pointer leads back, and then there is no name.  *)

-----------------------------------------------------------------------------
(* Lengths *)

LabelLists == Seq(Seq(Bytes))

Added(ls, k, sums) == IF k = 0 THEN 0 ELSE sums[k - 1] + Len(ls[k]) + 1

\* Lengths is what its definition says.
LEMMA LengthsAre ==
  ASSUME NEW ls, Len(ls) \in Nat
  PROVE  Lengths(ls) = [k \in 0 .. Len(ls) |-> Added(ls, k, Lengths(ls))]
  <1> DEFINE S == {m \in Nat : \E g : g = [k \in 0 .. m |-> Added(ls, k, g)]}
  <1>1. 0 \in S
    <2> DEFINE g == [k \in 0 .. 0 |-> 0]
    <2>1. \A k \in 0 .. 0 : Added(ls, k, g) = 0
      BY DEF Added
    <2>2. g = [k \in 0 .. 0 |-> Added(ls, k, g)]
      BY <2>1
    <2> QED BY <2>2
  <1>2. ASSUME NEW m \in Nat, m # 0, m - 1 \in S PROVE m \in S
    <2>1. PICK g : g = [k \in 0 .. m - 1 |-> Added(ls, k, g)]
      BY <1>2
    <2> DEFINE h == [k \in 0 .. m |-> IF k = m THEN Added(ls, m, g) ELSE g[k]]
    <2>2. ASSUME NEW k \in 0 .. m PROVE h[k] = Added(ls, k, h)
      <3>1. CASE k = 0
        BY <1>2, <2>1, <3>1 DEF Added
      <3>2. CASE k # 0
        <4>1. h[k - 1] = g[k - 1]
          BY <3>2
        <4>2. Added(ls, k, h) = Added(ls, k, g)
          BY <3>2, <4>1 DEF Added
        <4> HIDE DEF Added
        <4>3. CASE k = m
          BY <4>2, <4>3
        <4>4. CASE k # m
          <5>1. k \in 0 .. m - 1
            BY <4>4
          <5> QED BY <2>1, <4>2, <4>4, <5>1
        <4> QED BY <4>3, <4>4
      <3> QED BY <3>1, <3>2
    <2>3. h = [k \in 0 .. m |-> h[k]]
      OBVIOUS
    <2> HIDE DEF h
    <2>4. h = [k \in 0 .. m |-> Added(ls, k, h)]
      BY <2>2, <2>3
    <2> QED BY <2>4
  <1>3. Len(ls) \in S
    <2> HIDE DEF S
    <2>1. 0 .. Len(ls) \subseteq S
      BY <1>1, <1>2, CountingUp
    <2> QED BY <2>1
  <1>4. PICK g : g = [k \in 0 .. Len(ls) |-> Added(ls, k, g)]
    BY <1>3
  <1> QED BY <1>4 DEF Lengths, Added

LEMMA LengthsAt ==
  ASSUME NEW ls \in LabelLists
  PROVE  /\ Lengths(ls)[0] = 0
         /\ \A k \in 1 .. Len(ls) : Lengths(ls)[k] = Lengths(ls)[k - 1] + Len(ls[k]) + 1
         /\ \A k \in 1 .. Len(ls) : Len(ls[k]) \in Nat
  <1>1. Len(ls) \in Nat /\ \A k \in 1 .. Len(ls) : Len(ls[k]) \in Nat
    BY DEF LabelLists
  <1>2. Lengths(ls) = [k \in 0 .. Len(ls) |-> Added(ls, k, Lengths(ls))]
    BY <1>1, LengthsAre
  <1> QED BY <1>1, <1>2 DEF Added

\* The lengths of more and more labels are growing numbers.
LEMMA LengthsGrow ==
  ASSUME NEW ls \in LabelLists, NEW n \in 0 .. Len(ls)
  PROVE  /\ Lengths(ls)[n] \in Nat
         /\ Lengths(ls)[n] <= Length(ls) /\ Length(ls) \in Nat
  <1> DEFINE sums == Lengths(ls)
             S == {k \in 0 .. Len(ls) : sums[k] \in Nat}
             T == {k \in Nat : n + k > Len(ls) \/ sums[n] <= sums[n + k]}
  <1>1. Len(ls) \in Nat
    BY DEF LabelLists
  <1>2. /\ sums[0] = 0
        /\ \A k \in 1 .. Len(ls) : sums[k] = sums[k - 1] + Len(ls[k]) + 1
        /\ \A k \in 1 .. Len(ls) : Len(ls[k]) \in Nat
    BY LengthsAt
  <1> HIDE DEF sums
  <1>3. \A k \in 0 .. Len(ls) : sums[k] \in Nat
    <2>0. 0 \in S
      BY <1>1, <1>2
    <2>1. ASSUME NEW k \in 1 .. Len(ls), k - 1 \in S PROVE k \in S
      <3>1. k \in 0 .. Len(ls) /\ sums[k - 1] \in Nat
        BY <1>1, <2>1
      <3>2. sums[k] \in Nat
        BY <1>2, <3>1
      <3> QED BY <3>1, <3>2
    <2> HIDE DEF S
    <2>2. 0 .. Len(ls) \subseteq S
      BY <1>1, <2>0, <2>1, CountingUp
    <2> QED BY <2>2 DEF S
  <1>4. \A k \in 0 .. Len(ls) : k \in T
    <2>1. 0 \in T
      BY <1>3
    <2>2. ASSUME NEW k \in 1 .. Len(ls), k - 1 \in T PROVE k \in T
      <3>1. CASE n + k > Len(ls)
        BY <3>1
      <3>2. CASE n + k <= Len(ls)
        <4>1. n + k \in 1 .. Len(ls) /\ n + (k - 1) = (n + k) - 1 /\ (n + k) - 1 \in 0 .. Len(ls)
          BY <1>1, <3>2
        <4>2. sums[n] <= sums[(n + k) - 1]
          BY <1>1, <2>2, <3>2, <4>1
        <4>3. sums[n + k] >= sums[(n + k) - 1]
          BY <1>2, <1>3, <4>1
        <4> QED BY <1>3, <4>1, <4>2, <4>3
      <3> QED BY <1>1, <3>1, <3>2
    <2> HIDE DEF T
    <2>3. 0 .. Len(ls) \subseteq T
      BY <1>1, <2>1, <2>2, CountingUp
    <2> QED BY <2>3
  <1>5. sums[n] <= sums[Len(ls)]
    <2>1. Len(ls) - n \in T /\ n + (Len(ls) - n) = Len(ls)
      BY <1>1, <1>4
    <2> QED BY <1>1, <2>1
  <1> QED BY <1>1, <1>3, <1>5 DEF sums, Length

\* Labels that two names begin with have the same length in both.
LEMMA SameLengths ==
  ASSUME NEW ls \in LabelLists, NEW ms \in LabelLists, NEW n \in Nat,
         n <= Len(ls), n <= Len(ms), \A k \in 1 .. n : ls[k] = ms[k]
  PROVE  Lengths(ls)[n] = Lengths(ms)[n]
  <1> DEFINE S == {k \in 0 .. n : Lengths(ls)[k] = Lengths(ms)[k]}
  <1>1. Len(ls) \in Nat /\ Len(ms) \in Nat
    BY DEF LabelLists
  <1>2. 0 \in S
    BY LengthsAt
  <1>3. ASSUME NEW k \in 1 .. n, k - 1 \in S PROVE k \in S
    <2>1. k \in 1 .. Len(ls) /\ k \in 1 .. Len(ms)
      BY <1>1
    <2> QED BY <1>3, <2>1, LengthsAt
  <1> HIDE DEF S
  <1>4. 0 .. n \subseteq S
    BY <1>2, <1>3, CountingUp
  <1> QED BY <1>4 DEF S

\* One more label adds its length and a separator; more labels make no name
\* shorter.
LEMMA LengthOfMore ==
  /\ Length(<< >>) = 0
  /\ \A ls \in LabelLists, l \in Seq(Bytes) : Length(Append(ls, l)) = Length(ls) + Len(l) + 1
  /\ \A ls, ms \in LabelLists : Length(ls) <= Length(ls \o ms)
  /\ \A ls \in LabelLists : Length(ls) \in Nat
  <1>1. Length(<< >>) = 0
    <2>1. << >> \in LabelLists /\ Len(<< >>) = 0
      BY DEF LabelLists
    <2> QED BY <2>1, LengthsAt DEF Length
  <1>2. ASSUME NEW ls \in LabelLists, NEW l \in Seq(Bytes)
        PROVE  Length(Append(ls, l)) = Length(ls) + Len(l) + 1
    <2> DEFINE ms == Append(ls, l)
               n == Len(ls)
    <2>1. /\ n \in Nat /\ ms \in LabelLists /\ Len(ms) = n + 1 /\ ms[n + 1] = l
          /\ \A k \in 1 .. n : ls[k] = ms[k]
      BY DEF LabelLists
    <2> HIDE DEF ms
    <2>2. Lengths(ls)[n] = Lengths(ms)[n]
      BY <2>1, SameLengths
    <2>3. Lengths(ms)[n + 1] = Lengths(ms)[(n + 1) - 1] + Len(ms[n + 1]) + 1
      <3>1. n + 1 \in 1 .. Len(ms)
        BY <2>1
      <3> QED BY <2>1, <3>1, LengthsAt
    <2>4. (n + 1) - 1 = n
      BY <2>1
    <2> QED BY <2>1, <2>2, <2>3, <2>4 DEF Length, ms
  <1>3. ASSUME NEW ls \in LabelLists, NEW ms \in LabelLists
        PROVE  Length(ls) <= Length(ls \o ms)
    <2> DEFINE both == ls \o ms
               n == Len(ls)
    <2>1. /\ n \in Nat /\ both \in LabelLists /\ Len(both) = n + Len(ms) /\ Len(ms) \in Nat
          /\ \A k \in 1 .. n : ls[k] = both[k]
      BY DEF LabelLists
    <2> HIDE DEF both
    <2>2. Lengths(ls)[n] = Lengths(both)[n]
      BY <2>1, SameLengths
    <2>3. Lengths(both)[n] <= Length(both)
      <3>1. n \in 0 .. Len(both)
        BY <2>1
      <3> QED BY <2>1, <3>1, LengthsGrow
    <2> QED BY <2>2, <2>3 DEF Length, both
  <1>4. ASSUME NEW ls \in LabelLists PROVE Length(ls) \in Nat
    <2>1. 0 \in 0 .. Len(ls)
      BY DEF LabelLists
    <2> QED BY <2>1, LengthsGrow
  <1> QED BY <1>1, <1>2, <1>3, <1>4

-----------------------------------------------------------------------------
(* Denoted and Extent *)

\* The row of Denoted for n steps, from the row before.
Row(n, before) ==
    [o \in 0 .. Size |-> IF n = 0 \/ o = Size THEN None ELSE Denotes(o, before)]

\* Denoted is what its definition says: every row is told from the one before.
LEMMA RowsOfDenoted ==
  Denoted = [n \in 0 .. 2 * Size |-> Row(n, Denoted[n - 1])]
  <1> DEFINE S == {m \in Nat : \E g : g = [n \in 0 .. m |-> Row(n, g[n - 1])]}
  <1>1. \A p, q : Row(0, p) = Row(0, q)
    BY DEF Row
  <1>2. 0 \in S
    <2> DEFINE g == [n \in 0 .. 0 |-> Row(0, << >>)]
    <2>1. \A n \in 0 .. 0 : n = 0
      OBVIOUS
    <2>2. g = [n \in 0 .. 0 |-> Row(n, g[n - 1])]
      BY <1>1, <2>1, Zenon
    <2> QED BY <2>2
  <1>3. ASSUME NEW m \in Nat, m # 0, m - 1 \in S PROVE m \in S
    <2>1. PICK g : g = [n \in 0 .. m - 1 |-> Row(n, g[n - 1])]
      BY <1>3
    <2> DEFINE h == [n \in 0 .. m |-> IF n = m THEN Row(m, g[m - 1]) ELSE g[n]]
    <2>2. ASSUME NEW n \in 0 .. m PROVE h[n] = Row(n, h[n - 1])
      <3>1. CASE n = m
        <4>1. h[m - 1] = g[m - 1]
          BY <1>3
        <4> QED BY <3>1, <4>1
      <3>2. CASE n # m /\ n # 0
        <4>1. h[n - 1] = g[n - 1] /\ n \in 0 .. m - 1
          BY <3>2
        <4>2. h[n] = g[n] /\ g[n] = Row(n, g[n - 1])
          BY <2>1, <3>2, <4>1
        <4> QED BY <4>1, <4>2
      <3>3. CASE n # m /\ n = 0
        <4>1. 0 \in 0 .. m - 1
          BY <3>3
        <4>2. h[n] = g[0] /\ g[0] = Row(0, g[0 - 1])
          BY <2>1, <3>3, <4>1
        <4> QED BY <1>1, <3>3, <4>2, Zenon
      <3> QED BY <3>1, <3>2, <3>3
    <2>3. h = [n \in 0 .. m |-> h[n]]
      OBVIOUS
    <2> HIDE DEF h
    <2>4. h = [n \in 0 .. m |-> Row(n, h[n - 1])]
      BY <2>2, <2>3
    <2> QED BY <2>4
  <1>4. 2 * Size \in Nat /\ 2 * Size \in 0 .. 2 * Size
    BY NameAssumption
  <1>5. 2 * Size \in S
    <2> HIDE DEF S
    <2>1. 0 .. 2 * Size \subseteq S
      BY <1>2, <1>3, <1>4, CountingUp
    <2> QED BY <1>4, <2>1
  <1>6. PICK g : g = [n \in 0 .. 2 * Size |-> Row(n, g[n - 1])]
    BY <1>5
  <1> QED BY <1>6 DEF Denoted, Row

LEMMA DenotedIs ==
  ASSUME NEW n \in 0 .. 2 * Size, NEW o \in 0 .. Size
  PROVE  Denoted[n][o] = IF n = 0 \/ o = Size THEN None ELSE Denotes(o, Denoted[n - 1])
  <1>1. Denoted[n] = Row(n, Denoted[n - 1])
    BY RowsOfDenoted
  <1> QED BY <1>1 DEF Row

\* Extent at o, told from Extent behind it.
ExtentAt(o, behind) == IF o = Size THEN Size ELSE Stands(o, behind)

\* Extent is what its definition says, from the end of the packet on.
LEMMA ExtentIs ==
  ASSUME packet \in [1 .. Size -> Bytes]
  PROVE  Extent = [o \in 0 .. Size |-> ExtentAt(o, Extent)]
  <1> DEFINE S == {m \in Nat : \E g : g = [o \in Size - m .. Size |-> ExtentAt(o, g)]}
  <1>0. Size \in Nat /\ Size # 0
    BY NameAssumption
  <1>1. ASSUME NEW o \in 0 .. Size - 1 PROVE At(o) \in Nat
    <2>1. o + 1 \in 1 .. Size
      BY <1>0
    <2>2. packet[o + 1] \in Bytes /\ Bytes \subseteq Nat
      BY <2>1, NameAssumption
    <2> QED BY <2>2 DEF At
  <1>2. 0 \in S
    <2> DEFINE g == [o \in Size .. Size |-> Size]
    <2>1. \A o \in Size .. Size : o = Size /\ ExtentAt(o, g) = Size
      BY <1>0 DEF ExtentAt
    <2>2. g = [o \in Size .. Size |-> ExtentAt(o, g)]
      BY <2>1
    <2>3. Size - 0 = Size
      BY <1>0
    <2> QED BY <2>2, <2>3
  <1>3. ASSUME NEW m \in 1 .. Size, m - 1 \in S PROVE m \in S
    <2>1. PICK g : g = [o \in Size - (m - 1) .. Size |-> ExtentAt(o, g)]
      BY <1>3
    <2> DEFINE first == Size - m
               h == [o \in first .. Size |-> IF o = first THEN ExtentAt(first, g) ELSE g[o]]
    <2>2. first \in 0 .. Size - 1 /\ Size - (m - 1) = first + 1
      BY <1>0
    <2> HIDE DEF first
    <2>3. ASSUME NEW o \in first .. Size PROVE ExtentAt(o, h) = ExtentAt(o, g)
      <3>1. CASE o = Size
        BY <3>1 DEF ExtentAt
      <3>2. CASE o # Size /\ IsLabel(o)
        <4>1. o + 1 + At(o) \in first + 1 .. Size
          BY <1>0, <1>1, <2>2, <3>2 DEF IsLabel
        <4>2. h[o + 1 + At(o)] = g[o + 1 + At(o)]
          BY <2>2, <4>1
        <4> HIDE DEF h
        <4> QED BY <4>2 DEF ExtentAt, Stands
      <3>3. CASE o # Size /\ ~IsLabel(o)
        BY <3>3 DEF ExtentAt, Stands
      <3> QED BY <3>1, <3>2, <3>3
    <2>4. ASSUME NEW o \in first .. Size PROVE h[o] = ExtentAt(o, h)
      <3>1. CASE o = first
        BY <2>3, <3>1
      <3>2. CASE o # first
        <4>1. o \in first + 1 .. Size
          BY <1>0, <2>2, <3>2
        <4>2. h[o] = g[o] /\ g[o] = ExtentAt(o, g)
          BY <2>1, <2>2, <3>2, <4>1
        <4> QED BY <2>3, <4>2
      <3> QED BY <3>1, <3>2
    <2>5. h = [o \in first .. Size |-> h[o]]
      OBVIOUS
    <2> HIDE DEF h
    <2>6. h = [o \in first .. Size |-> ExtentAt(o, h)]
      BY <2>4, <2>5
    <2> QED BY <2>6 DEF first
  <1>4. Size \in S
    <2> HIDE DEF S
    <2>1. 0 .. Size \subseteq S
      BY <1>0, <1>2, <1>3, CountingUp
    <2> QED BY <1>0, <2>1
  <1>5. Size - Size = 0
    BY <1>0
  <1>6. PICK g : g = [o \in 0 .. Size |-> ExtentAt(o, g)]
    BY <1>4, <1>5
  <1> QED BY <1>6 DEF Extent, ExtentAt

-----------------------------------------------------------------------------
(* Steps through a packet *)

PacketOK == packet \in [1 .. Size -> Bytes]

\* A byte, and the label it is the length of.
LEMMA BytesOfPacket ==
  ASSUME PacketOK, NEW o \in Offsets
  PROVE  /\ Size \in Nat /\ Size # 0 /\ o \in Nat /\ o < Size
         /\ At(o) \in Nat
         /\ o + 1 < Size => Target(o) \in Int
         /\ IsPointer(o) /\ o + 1 < Size => Target(o) \in Nat
         /\ IsLabel(o) => /\ Label(o) \in Seq(Bytes) /\ Len(Label(o)) = At(o)
                          /\ At(o) # 0 /\ ~IsPointer(o)
                          /\ o + 1 + At(o) \in o + 2 .. Size
  <1>1. Size \in Nat /\ Size # 0 /\ o \in Nat /\ o < Size /\ Bytes \subseteq Nat
    BY NameAssumption DEF Offsets
  <1>2. ASSUME NEW i \in 0 .. Size - 1 PROVE At(i) \in Nat
    <2>1. i + 1 \in 1 .. Size
      BY <1>1
    <2> QED BY <1>1, <2>1 DEF At, PacketOK
  <1>3. At(o) \in Nat
    BY <1>1, <1>2
  <1>4. o + 1 < Size => At(o + 1) \in Nat
    BY <1>1, <1>2
  <1>5. ASSUME IsLabel(o)
        PROVE  /\ Label(o) \in Seq(Bytes) /\ Len(Label(o)) = At(o)
               /\ At(o) # 0 /\ ~IsPointer(o)
               /\ o + 1 + At(o) \in o + 2 .. Size
    <2>1. At(o) \in 1 .. 63 /\ o + 1 + At(o) <= Size
      BY <1>5 DEF IsLabel
    <2>2. packet \in Seq(Bytes) /\ Len(packet) = Size
      BY <1>1 DEF PacketOK
    <2> DEFINE m == o + 2
               n == o + 1 + At(o)
    <2>3. m \in 1 .. Size /\ n \in 1 .. Size /\ n - m + 1 = At(o) /\ m <= n
      BY <1>1, <1>3, <2>1
    <2> HIDE DEF m, n
    <2>4. SubSeq(packet, m, n) \in Seq(Bytes) /\ Len(SubSeq(packet, m, n)) = At(o)
      BY <2>2, <2>3
    <2>5. Label(o) = SubSeq(packet, m, n)
      BY DEF Label, m, n
    <2>6. o + 1 + At(o) \in o + 2 .. Size /\ At(o) # 0 /\ ~IsPointer(o)
      BY <1>1, <1>3, <2>1 DEF IsPointer
    <2> QED BY <2>4, <2>5, <2>6
  <1> QED BY <1>1, <1>3, <1>4, <1>5 DEF Target, IsPointer

\* Where the decoder can go on from o, and where it goes.
GoesOn(o) ==
    /\ o \in Offsets
    /\ \/ IsPointer(o) /\ o + 1 < Size /\ Target(o) < Size
       \/ IsLabel(o)

Onward(o) == IF IsPointer(o) THEN Target(o) ELSE o + 1 + At(o)

\* Names are names; one that has an end goes on to one that has.
LEMMA DenotedTypes ==
  ASSUME PacketOK
  PROVE  \A n \in 0 .. 2 * Size, o \in 0 .. Size : Denoted[n][o] \in LabelLists
  <1> DEFINE S == {n \in 0 .. 2 * Size : \A o \in 0 .. Size : Denoted[n][o] \in LabelLists}
  <1>0. Size \in Nat /\ 2 * Size \in Nat
    BY NameAssumption
  <1>1. None \in LabelLists /\ << >> \in LabelLists
    BY DEF None, LabelLists
  <1>2. 0 \in S
    BY <1>0, <1>1, DenotedIs
  <1>3. ASSUME NEW n \in 1 .. 2 * Size, n - 1 \in S PROVE n \in S
    <2> SUFFICES ASSUME NEW o \in 0 .. Size PROVE Denoted[n][o] \in LabelLists
      BY <1>0
    <2>1. CASE o = Size
      BY <1>0, <1>1, <2>1, DenotedIs
    <2>2. CASE o # Size
      <3>1. o \in Offsets
        BY <1>0, <2>2 DEF Offsets
      <3>2. Denoted[n][o] = Denotes(o, Denoted[n - 1])
        BY <1>0, <2>2, DenotedIs
      <3>3. \A i \in 0 .. Size : Denoted[n - 1][i] \in LabelLists
        BY <1>3
      <3> DEFINE rest == Denoted[n - 1]
      <3> HIDE DEF rest
      <3>4. CASE IsPointer(o) /\ o + 1 < Size /\ Target(o) < Size
        <4>1. Target(o) \in 0 .. Size
          BY <1>0, <3>1, <3>4, BytesOfPacket
        <4> QED BY <1>1, <3>2, <3>3, <3>4, <4>1 DEF Denotes, rest
      <3>5. CASE IsLabel(o)
        <4>1. o + 1 + At(o) \in 0 .. Size /\ Label(o) \in Seq(Bytes)
          BY <1>0, <3>1, <3>5, BytesOfPacket
        <4>2. <<Label(o)>> \o rest[o + 1 + At(o)] \in LabelLists
          BY <3>3, <4>1 DEF rest, LabelLists
        <4> QED BY <1>1, <3>1, <3>2, <3>5, <4>2, BytesOfPacket DEF Denotes, rest
      <3>6. CASE ~(IsPointer(o) /\ o + 1 < Size /\ Target(o) < Size) /\ ~IsLabel(o)
        BY <1>1, <3>2, <3>6 DEF Denotes
      <3> QED BY <3>4, <3>5, <3>6
    <2> QED BY <2>1, <2>2
  <1> HIDE DEF S
  <1>4. 0 .. 2 * Size \subseteq S
    BY <1>0, <1>2, <1>3, CountingUp
  <1> QED BY <1>4 DEF S

\* A name that goes on denotes what comes behind, with one step less.
LEMMA DenotedGoesOn ==
  ASSUME PacketOK, NEW o \in 0 .. Size, GoesOn(o), NEW n \in 1 .. 2 * Size
  PROVE  /\ Onward(o) \in 0 .. Size
         /\ n - 1 \in 0 .. 2 * Size
         /\ IsPointer(o) => Denoted[n][o] = Denoted[n - 1][Onward(o)]
         /\ ~IsPointer(o) => Denoted[n][o] = IF Denoted[n - 1][Onward(o)] = None THEN None
                                             ELSE <<Label(o)>> \o Denoted[n - 1][Onward(o)]
         /\ Denoted[n][o] = None <=> Denoted[n - 1][Onward(o)] = None
  <1>0. Size \in Nat /\ 2 * Size \in Nat /\ o \in Offsets /\ o # Size
    BY NameAssumption DEF GoesOn, Offsets
  <1>1. Denoted[n][o] = Denotes(o, Denoted[n - 1]) /\ n - 1 \in 0 .. 2 * Size
    BY <1>0, DenotedIs
  <1>2. CASE IsPointer(o)
    <2>1. o + 1 < Size /\ Target(o) < Size
      BY <1>0, <1>2, BytesOfPacket DEF GoesOn
    <2>2. Onward(o) = Target(o) /\ Target(o) \in 0 .. Size /\ At(o) # 0
      BY <1>0, <1>2, <2>1, BytesOfPacket DEF Onward, IsPointer
    <2> QED BY <1>1, <1>2, <2>1, <2>2 DEF Denotes
  <1>3. CASE ~IsPointer(o)
    <2>1. IsLabel(o) /\ Onward(o) = o + 1 + At(o)
      BY <1>3 DEF GoesOn, Onward
    <2>2. Onward(o) \in 0 .. Size /\ Label(o) \in Seq(Bytes) /\ Len(Label(o)) # 0 /\ At(o) # 0
      BY <1>0, <2>1, BytesOfPacket
    <2>3. Denoted[n][o] = IF Denoted[n - 1][Onward(o)] = None THEN None
                          ELSE <<Label(o)>> \o Denoted[n - 1][Onward(o)]
      BY <1>1, <1>3, <2>1, <2>2 DEF Denotes
    <2>4. Denoted[n - 1][Onward(o)] \in LabelLists
      BY <1>1, <2>2, DenotedTypes
    <2> DEFINE rest == Denoted[n - 1][Onward(o)]
               l == Label(o)
    <2> HIDE DEF rest, l
    <2>5. ASSUME rest \in Seq(Seq(Bytes)), l \in Seq(Bytes), Len(l) # 0
          PROVE  <<l>> \o rest # << << >> >>
      <3>1. (<<l>> \o rest)[1] = l
        BY <2>5
      <3>2. << << >> >>[1] = << >> /\ Len(<< >>) = 0
        OBVIOUS
      <3> QED BY <2>5, <3>1, <3>2
    <2>6. <<l>> \o rest # None
      BY <2>2, <2>4, <2>5 DEF rest, l, LabelLists, None
    <2> QED BY <1>1, <1>3, <2>2, <2>3, <2>6 DEF rest, l
  <1> QED BY <1>2, <1>3

\* Offsets that lead only to each other denote nothing.
LEMMA CirclesDenoteNothing ==
  ASSUME PacketOK, NEW C \in SUBSET Offsets, \A c \in C : GoesOn(c) /\ Onward(c) \in C
  PROVE  \A c \in C : Denoted[2 * Size][c] = None
  <1> DEFINE S == {n \in 0 .. 2 * Size : \A c \in C : Denoted[n][c] = None}
  <1>0. Size \in Nat /\ 2 * Size \in Nat /\ 2 * Size \in 0 .. 2 * Size /\ C \subseteq 0 .. Size
    BY NameAssumption DEF Offsets
  <1>1. 0 \in S
    BY <1>0, DenotedIs
  <1>2. ASSUME NEW n \in 1 .. 2 * Size, n - 1 \in S PROVE n \in S
    <2>1. ASSUME NEW c \in C PROVE Denoted[n][c] = None
      <3>1. c \in 0 .. Size /\ GoesOn(c) /\ Onward(c) \in C
        BY <1>0
      <3> QED BY <1>2, <3>1, DenotedGoesOn
    <2> QED BY <1>0, <2>1
  <1> HIDE DEF S
  <1>3. 0 .. 2 * Size \subseteq S
    BY <1>0, <1>1, <1>2, CountingUp
  <1> QED BY <1>0, <1>3 DEF S
-----------------------------------------------------------------------------
(* The decoder *)

Meant == Denoted[2 * Size][start]

\* The offsets passed lead to each other and to this one.  While none is met
\* again, the labels read and what stands here are what the name denotes.
PassedBy(P) ==
    /\ P \in SUBSET Offsets
    /\ \A p \in P : GoesOn(p) /\ Onward(p) \in P \union {offset}
    /\ start \in P \union {offset}
    /\ visited \subseteq P \union {offset}
    /\ offset \notin P =>
          LET left == Denoted[2 * Size - Cardinality(P)][offset]
          IN  Meant = IF left = None THEN None ELSE labels \o left

\* Labels are not empty, and not too long together.
LabelsOK ==
    /\ \A k \in 1 .. Len(labels) : labels[k] # << >>
    /\ Length(labels) <= MaxName

\* Where the caller goes on is known from the first pointer on.
Resumes ==
    /\ next = -1 => offset >= start /\ Extent[offset] = Extent[start]
    /\ next # -1 => next > start /\ next = Extent[start]

NameInv ==
    /\ NameTypeOK
    /\ decoded = "reading" => LabelsOK /\ Resumes /\ \E P : PassedBy(P)
    /\ NameIsRight
    /\ CallerMovesOn

\* A packet that stays denotes what it did.
LEMMA MeaningStays ==
  ASSUME packet' = packet
  PROVE  Denoted' = Denoted /\ Extent' = Extent
  <1>1. Denoted' = Denoted
    BY DEF Denoted, Denotes, At, IsPointer, Target, IsLabel, Label
  <1>2. Extent' = Extent
    BY DEF Extent, Stands, At, IsPointer, Target, IsLabel, Label
  <1> QED BY <1>1, <1>2

\* There is fuel left whatever has been passed.
LEMMA FuelIsLeft ==
  ASSUME NEW P \in SUBSET Offsets
  PROVE  /\ IsFiniteSet(P) /\ Cardinality(P) \in 0 .. Size
         /\ 2 * Size - Cardinality(P) \in 1 .. 2 * Size
         /\ \A o \in Offsets : o \notin P => Cardinality(P \union {o}) = Cardinality(P) + 1
  <1>1. Size \in Nat /\ Size # 0
    BY NameAssumption
  <1>2. IsFiniteSet(Offsets) /\ Cardinality(Offsets) = Size
    BY <1>1, FS_Interval DEF Offsets
  <1>3. IsFiniteSet(P) /\ Cardinality(P) \in Nat /\ Cardinality(P) <= Size
    BY <1>2, FS_Subset, FS_CardinalityType
  <1>4. \A o \in Offsets : o \notin P => Cardinality(P \union {o}) = Cardinality(P) + 1
    BY <1>3, FS_AddElement
  <1> QED BY <1>1, <1>3, <1>4

\* Once an offset is met again, the name denotes nothing.
LEMMA CircleIsRefused ==
  ASSUME PacketOK, NEW P \in SUBSET Offsets, start \in P,
         \A p \in P : GoesOn(p) /\ Onward(p) \in P
  PROVE  Meant = None
  BY CirclesDenoteNothing DEF Meant

LEMMA NameStarts == NameInit => NameInv
  <1> SUFFICES ASSUME NameInit PROVE NameInv
    OBVIOUS
  <1> USE DEF NameInit
  <1>1. Size \in Nat /\ Size # 0 /\ MaxName \in Nat
    BY NameAssumption
  <1>2. NameTypeOK
    <2>1. << >> \in Seq(Seq(Bytes)) /\ start \in 0 .. Size /\ -1 \in -1 .. Size
      BY <1>1 DEF Offsets
    <2> QED BY <2>1 DEF NameTypeOK
  <1>3. LabelsOK
    BY <1>1, LengthOfMore DEF LabelsOK
  <1>4. Resumes
    BY DEF Resumes, Offsets
  <1>5. PassedBy({})
    <2>1. Cardinality({}) = 0 /\ 2 * Size - 0 = 2 * Size
      BY <1>1, FS_EmptySet
    <2>2. Meant \in LabelLists
      BY <1>1, DenotedTypes DEF Meant, PacketOK, Offsets
    <2>3. << >> \o Meant = Meant
      BY <2>2 DEF LabelLists
    <2> QED BY <2>1, <2>3 DEF PassedBy, Meant
  <1> QED BY <1>2, <1>3, <1>4, <1>5 DEF NameInv, NameIsRight, CallerMovesOn

\* The step to the next offset, by a pointer or behind a label.
LEMMA OnePassedMore ==
  ASSUME NameTypeOK, offset \in Offsets, GoesOn(offset), NEW P, PassedBy(P),
         packet' = packet, start' = start, offset' = Onward(offset),
         visited' \subseteq visited \union {offset'},
         IsPointer(offset) => labels' = labels,
         ~IsPointer(offset) => labels' = Append(labels, Label(offset))
  PROVE  \E Q : PassedBy(Q)'
  <1>0. PICK Q : Q = P \union {offset}
    OBVIOUS
  <1>1. PacketOK /\ PacketOK' /\ Size \in Nat
    BY NameAssumption DEF NameTypeOK, PacketOK
  <1>2. \A p : GoesOn(p)' = GoesOn(p) /\ Onward(p)' = Onward(p)
    BY DEF GoesOn, Onward, IsPointer, IsLabel, Target, At
  <1>3. Denoted' = Denoted /\ Meant' = Meant
    BY MeaningStays DEF Meant
  <1>4. P \in SUBSET Offsets /\ Q \in SUBSET Offsets
    BY <1>0 DEF PassedBy
  <1>5. \A p \in Q : GoesOn(p) /\ Onward(p) \in Q \union {offset'}
    BY <1>0 DEF PassedBy
  <1>6. start \in Q /\ visited' \subseteq Q \union {offset'}
    BY <1>0 DEF PassedBy
  <1>7. ASSUME offset' \notin Q
        PROVE  LET left == Denoted[2 * Size - Cardinality(Q)][offset']
               IN  Meant = IF left = None THEN None ELSE labels' \o left
    <2>1. CASE offset \in P
      <3>1. \A p \in P : GoesOn(p) /\ Onward(p) \in P
        BY <2>1 DEF PassedBy
      <3> QED BY <1>0, <1>7, <2>1, <3>1
    <2>2. CASE offset \notin P
      <3> DEFINE n == 2 * Size - Cardinality(P)
                 here == Denoted[n][offset]
                 left == Denoted[n - 1][offset']
      <3>1. n \in 1 .. 2 * Size /\ 2 * Size - Cardinality(Q) = n - 1
        BY <1>0, <1>1, <1>4, <2>2, FuelIsLeft
      <3>2. Meant = IF here = None THEN None ELSE labels \o here
        BY <2>2 DEF PassedBy
      <3> HIDE DEF n
      <3>3. offset \in 0 .. Size
        BY DEF NameTypeOK
      <3>4. /\ IsPointer(offset) => here = left
            /\ ~IsPointer(offset) => here = IF left = None THEN None ELSE <<Label(offset)>> \o left
            /\ here = None <=> left = None
            /\ offset' \in 0 .. Size /\ n - 1 \in 0 .. 2 * Size
        BY <1>1, <3>1, <3>3, DenotedGoesOn
      <3>5. left \in LabelLists /\ labels \in LabelLists
        BY <1>1, <3>4, DenotedTypes DEF NameTypeOK, LabelLists
      <3>6. CASE IsPointer(offset)
        BY <3>1, <3>2, <3>4, <3>6
      <3>7. CASE ~IsPointer(offset)
        <4>1. Label(offset) \in Seq(Bytes)
          BY <1>1, <3>7, BytesOfPacket DEF GoesOn
        <4>2. labels \o (<<Label(offset)>> \o left) = labels' \o left
          <5> DEFINE l == Label(offset)
          <5> HIDE DEF l, left
          <5>1. <<l>> \in LabelLists /\ l \in Seq(Bytes)
            BY <4>1 DEF l, LabelLists
          <5>2. (labels \o <<l>>) \o left = labels \o (<<l>> \o left)
            BY <3>5, <5>1, ConcatAssociative DEF LabelLists
          <5>3. labels \o <<l>> = Append(labels, l)
            BY <3>5, <5>1 DEF LabelLists
          <5> QED BY <3>7, <5>2, <5>3 DEF l
        <4> QED BY <3>1, <3>2, <3>4, <3>7, <4>2
      <3> QED BY <3>6, <3>7
    <2> QED BY <2>1, <2>2
  <1>8. PassedBy(Q)'
    BY <1>2, <1>3, <1>4, <1>5, <1>6, <1>7 DEF PassedBy
  <1> QED BY <1>8

LEMMA FollowKeeps == NameInv /\ Follow => NameInv'
  <1> SUFFICES ASSUME NameInv, Follow PROVE NameInv'
    OBVIOUS
  <1>1. NameTypeOK /\ LabelsOK /\ Resumes /\ PacketOK
    BY DEF NameInv, Follow, NameTypeOK, PacketOK
  <1>2. PICK P : PassedBy(P)
    BY DEF NameInv, Follow
  <1>3. /\ UNCHANGED <<packet, start, labels, decoded, end>> /\ decoded = "reading"
        /\ IsPointer(offset) /\ MayFollow(offset) /\ offset' = Target(offset)
        /\ visited' = visited \union {offset'} /\ next' = Resume
    BY DEF Follow
  <1>4. Size \in Nat /\ offset \in Offsets
    BY <1>1, NameAssumption DEF Follow, Offsets, NameTypeOK
  <1>5. offset + 1 < Size /\ Target(offset) \in Offsets
    BY <1>1, <1>3, <1>4, BytesOfPacket DEF MayFollow, Offsets
  <1>6. GoesOn(offset) /\ offset' = Onward(offset)
    BY <1>3, <1>4, <1>5 DEF GoesOn, Onward, MayFollow
  <1>7. \E Q : PassedBy(Q)'
    BY <1>1, <1>2, <1>3, <1>4, <1>6, OnePassedMore
  <1>8. Extent' = Extent /\ Extent[offset] = offset + 2
    <2>1. At(offset) # 0 /\ offset # Size
      BY <1>1, <1>3, <1>4, BytesOfPacket DEF IsPointer, Offsets
    <2>2. offset \in 0 .. Size
      BY <1>1 DEF NameTypeOK
    <2>3. Extent[offset] = ExtentAt(offset, Extent)
      BY <1>1, <2>2, ExtentIs DEF PacketOK
    <2> QED BY <1>3, <2>1, <2>3, MeaningStays DEF ExtentAt, Stands
  <1>9. Resumes'
    BY <1>1, <1>3, <1>4, <1>8 DEF Resumes, Resume, NameTypeOK, Offsets
  <1>10. NameTypeOK'
    <2>1. next' \in -1 .. Size
      BY <1>1, <1>3, <1>4, <1>5 DEF Resume, NameTypeOK, Offsets
    <2>2. offset' \in 0 .. Size
      BY <1>3, <1>4, <1>5 DEF Offsets
    <2>3. visited' \subseteq Offsets
      BY <1>1, <1>3, <1>5 DEF NameTypeOK
    <2> QED BY <1>1, <1>3, <2>1, <2>2, <2>3 DEF NameTypeOK
  <1>11. LabelsOK'
    BY <1>1, <1>3 DEF LabelsOK, Length, Lengths
  <1> QED BY <1>3, <1>7, <1>9, <1>10, <1>11 DEF NameInv, NameIsRight, CallerMovesOn

LEMMA TakeLabelKeeps == NameInv /\ TakeLabel => NameInv'
  <1> SUFFICES ASSUME NameInv, TakeLabel PROVE NameInv'
    OBVIOUS
  <1>1. NameTypeOK /\ LabelsOK /\ Resumes /\ PacketOK
    BY DEF NameInv, TakeLabel, NameTypeOK, PacketOK
  <1>2. PICK P : PassedBy(P)
    BY DEF NameInv, TakeLabel
  <1>3. /\ UNCHANGED <<packet, start, next, visited, decoded, end>> /\ decoded = "reading"
        /\ IsLabel(offset) /\ offset' = offset + 1 + At(offset)
        /\ labels' = Append(labels, Label(offset))
        /\ Length(labels) + At(offset) + 1 <= MaxName
    BY DEF TakeLabel
  <1>4. Size \in Nat /\ offset \in Offsets /\ offset \in 0 .. Size /\ offset # Size
    BY <1>1, NameAssumption DEF TakeLabel, Offsets, NameTypeOK
  <1>5. /\ Label(offset) \in Seq(Bytes) /\ Len(Label(offset)) = At(offset)
        /\ At(offset) \in Nat /\ At(offset) # 0 /\ ~IsPointer(offset)
        /\ offset' \in offset + 2 .. Size
    BY <1>1, <1>3, <1>4, BytesOfPacket
  <1>6. GoesOn(offset) /\ offset' = Onward(offset)
    BY <1>3, <1>4, <1>5 DEF GoesOn, Onward
  <1>7. \E Q : PassedBy(Q)'
    BY <1>1, <1>2, <1>3, <1>4, <1>5, <1>6, OnePassedMore
  <1>8. Extent' = Extent /\ Extent[offset] = Extent[offset']
    <2>1. Extent[offset] = ExtentAt(offset, Extent)
      BY <1>1, <1>4, ExtentIs DEF PacketOK
    <2> QED BY <1>3, <1>4, <1>5, <2>1, MeaningStays DEF ExtentAt, Stands
  <1>9. Resumes'
    BY <1>1, <1>3, <1>4, <1>5, <1>8 DEF Resumes, NameTypeOK, Offsets
  <1>10. labels \in LabelLists /\ labels' \in LabelLists
    BY <1>1, <1>3, <1>5 DEF NameTypeOK, LabelLists
  <1>11. NameTypeOK'
    <2>1. offset' \in 0 .. Size
      BY <1>4, <1>5
    <2> QED BY <1>1, <1>3, <1>10, <2>1 DEF NameTypeOK, LabelLists
  <1>12. LabelsOK'
    <2>1. Length(labels)' = Length(labels')
      BY DEF Length, Lengths
    <2>2. Length(labels') <= MaxName
      BY <1>3, <1>5, <1>10, LengthOfMore, NameAssumption
    <2>3. Label(offset) # << >>
      BY <1>5
    <2>4. \A k \in 1 .. Len(labels') : labels'[k] # << >>
      <3> DEFINE l == Label(offset)
      <3>1. /\ labels \in Seq(Seq(Bytes)) /\ l \in Seq(Bytes) /\ l # << >>
            /\ labels' = Append(labels, l) /\ \A k \in 1 .. Len(labels) : labels[k] # << >>
        BY <1>1, <1>3, <1>5, <1>10, <2>3 DEF LabelsOK, LabelLists
      <3> HIDE DEF l
      <3>2. /\ Len(labels) \in Nat /\ Len(labels') = Len(labels) + 1
            /\ labels'[Len(labels) + 1] = l
            /\ \A k \in 1 .. Len(labels) : labels'[k] = labels[k]
        BY <3>1
      <3>3. ASSUME NEW k \in 1 .. Len(labels') PROVE labels'[k] # << >>
        <4>1. k \in 1 .. Len(labels) \/ k = Len(labels) + 1
          BY <3>2
        <4> QED BY <3>1, <3>2, <4>1
      <3> QED BY <3>3
    <2> QED BY <2>1, <2>2, <2>4 DEF LabelsOK
  <1> QED BY <1>3, <1>7, <1>9, <1>11, <1>12 DEF NameInv, NameIsRight, CallerMovesOn

LEMMA FinishKeeps == NameInv /\ Finish => NameInv'
  <1> SUFFICES ASSUME NameInv, Finish PROVE NameInv'
    OBVIOUS
  <1>1. NameTypeOK /\ LabelsOK /\ Resumes /\ PacketOK
    BY DEF NameInv, Finish, NameTypeOK, PacketOK
  <1>2. PICK P : PassedBy(P)
    BY DEF NameInv, Finish
  <1>3. /\ UNCHANGED <<packet, start, offset, labels, next, visited>>
        /\ At(offset) = 0 /\ decoded' = "name" /\ end' = EndOf
    BY DEF Finish
  <1>4. Size \in Nat /\ Size # 0 /\ offset \in Offsets /\ offset \in 0 .. Size /\ offset < Size
    BY <1>1, NameAssumption DEF Finish, Offsets, NameTypeOK
  <1>5. ~IsPointer(offset) /\ ~IsLabel(offset) /\ ~GoesOn(offset)
    BY <1>3 DEF IsPointer, IsLabel, GoesOn
  <1>6. offset \notin P /\ P \in SUBSET Offsets
    BY <1>2, <1>5 DEF PassedBy
  <1> DEFINE n == 2 * Size - Cardinality(P)
  <1>7. n \in 1 .. 2 * Size
    BY <1>6, FuelIsLeft
  <1> HIDE DEF n
  <1>8. Denoted[n][offset] = << >>
    <2>1. n \in 0 .. 2 * Size /\ n # 0 /\ offset # Size
      BY <1>4, <1>7
    <2>2. Denoted[n][offset] = Denotes(offset, Denoted[n - 1])
      BY <1>4, <2>1, DenotedIs, Zenon
    <2> QED BY <1>3, <2>2 DEF Denotes
  <1>9. labels \in LabelLists /\ << >> # None
    BY <1>1 DEF NameTypeOK, LabelLists, None
  <1>10. Meant = labels /\ labels # None
    <2>1. Meant = labels \o << >>
      BY <1>2, <1>6, <1>8, <1>9 DEF PassedBy, n
    <2>2. labels \o << >> = labels
      BY <1>9 DEF LabelLists
    <2>3. labels # None
      BY <1>1 DEF LabelsOK, None
    <2> QED BY <2>1, <2>2, <2>3
  <1>11. Extent[offset] = offset + 1
    <2>1. Extent[offset] = ExtentAt(offset, Extent)
      BY <1>1, <1>4, ExtentIs DEF PacketOK
    <2> QED BY <1>3, <1>4, <2>1 DEF ExtentAt, Stands
  <1>12. end' = Extent[start] /\ end' > start /\ end' <= Size /\ end' \in -1 .. Size
    BY <1>1, <1>3, <1>4, <1>11 DEF Resumes, EndOf, NameTypeOK, Offsets
  <1>13. NameTypeOK'
    BY <1>1, <1>3, <1>12 DEF NameTypeOK
  <1>14. NameIsRight'
    <2>1. Denoted' = Denoted /\ Extent' = Extent
      BY <1>3, MeaningStays
    <2>2. Length(labels) <= MaxName
      BY <1>1 DEF LabelsOK
    <2>3. Meant' = labels
      BY <1>3, <1>10, <2>1 DEF Meant
    <2>4. Length(Meant)' = Length(labels)
      BY <2>3
    <2> QED BY <1>3, <1>10, <1>12, <2>1, <2>2, <2>3, <2>4 DEF NameIsRight, Meant
  <1> QED BY <1>3, <1>12, <1>13, <1>14 DEF NameInv, CallerMovesOn

LEMMA RefuseNameKeeps == NameInv /\ RefuseName => NameInv'
  <1> SUFFICES ASSUME NameInv, RefuseName PROVE NameInv'
    OBVIOUS
  <1>1. NameTypeOK /\ LabelsOK /\ PacketOK
    BY DEF NameInv, RefuseName, NameTypeOK, PacketOK
  <1>2. PICK P : PassedBy(P)
    BY DEF NameInv, RefuseName
  <1>3. UNCHANGED <<packet, start, offset, labels, next, visited, end>> /\ decoded' = "refused"
    BY DEF RefuseName
  <1>4. Size \in Nat /\ Size # 0 /\ offset \in 0 .. Size
    BY <1>1, NameAssumption DEF NameTypeOK
  <1>5. P \in SUBSET Offsets
    BY <1>2 DEF PassedBy
  <1>6. ASSUME offset \in P PROVE Meant = None
    <2>1. start \in P /\ \A p \in P : GoesOn(p) /\ Onward(p) \in P
      BY <1>2, <1>6 DEF PassedBy
    <2> QED BY <1>1, <1>5, <2>1, CircleIsRefused
  <1> DEFINE n == 2 * Size - Cardinality(P)
             left == Denoted[n][offset]
  <1>7. n \in 1 .. 2 * Size /\ n \in 0 .. 2 * Size
    BY <1>5, FuelIsLeft
  <1>8. ASSUME offset \notin P
        PROVE  Meant = IF left = None THEN None ELSE labels \o left
    BY <1>2, <1>8 DEF PassedBy
  <1> HIDE DEF n
  <1>9. left = None \/ Meant = None \/ Length(Meant) > MaxName
    <2>1. CASE offset >= Size
      <3>1. offset = Size
        BY <1>4, <2>1
      <3> QED BY <1>4, <1>7, <3>1, DenotedIs
    <2>2. ASSUME offset < Size
          PROVE  left = None \/ Meant = None \/ Length(Meant) > MaxName
      <3>0. offset \in Offsets /\ offset # Size
        BY <1>4, <2>2 DEF Offsets
      <3>1. left = Denotes(offset, Denoted[n - 1])
        BY <1>4, <1>7, <3>0, DenotedIs
      <3>2. CASE IsPointer(offset) /\ ~MayFollow(offset)
        <4>1. At(offset) # 0 /\ ~IsLabel(offset)
          BY <1>1, <3>0, <3>2, BytesOfPacket DEF IsPointer
        <4>2. CASE ~(offset + 1 < Size /\ Target(offset) < Size)
          BY <3>1, <4>1, <4>2 DEF Denotes
        <4>3. CASE offset + 1 < Size /\ Target(offset) < Size
          <5> DEFINE Q == P \union {offset}
          <5>1. Target(offset) \in visited /\ Onward(offset) = Target(offset)
            BY <3>2, <4>3 DEF MayFollow, Onward
          <5>2. GoesOn(offset) /\ Onward(offset) \in Q
            BY <1>2, <3>0, <3>2, <4>3, <5>1 DEF GoesOn, PassedBy
          <5>3. start \in Q /\ Q \in SUBSET Offsets /\ \A p \in Q : GoesOn(p) /\ Onward(p) \in Q
            BY <1>2, <3>0, <5>2 DEF PassedBy
          <5> QED BY <1>1, <5>3, CircleIsRefused
        <4> QED BY <4>2, <4>3
      <3>3. CASE At(offset) \in 1 .. 191 /\ ~IsLabel(offset)
        <4>1. At(offset) # 0 /\ ~IsPointer(offset)
          BY <3>3 DEF IsPointer
        <4> QED BY <3>1, <3>3, <4>1 DEF Denotes
      <3>4. CASE IsLabel(offset) /\ Length(labels) + At(offset) + 1 > MaxName
        <4> DEFINE rest == Denoted[n - 1][Onward(offset)]
                   l == Label(offset)
        <4>1. GoesOn(offset) /\ ~IsPointer(offset) /\ l \in Seq(Bytes) /\ Len(l) = At(offset)
              /\ At(offset) \in Nat
          BY <1>1, <3>0, <3>4, BytesOfPacket DEF GoesOn
        <4>2. /\ left = IF rest = None THEN None ELSE <<l>> \o rest
              /\ Onward(offset) \in 0 .. Size /\ n - 1 \in 0 .. 2 * Size
          BY <1>1, <1>4, <1>7, <4>1, DenotedGoesOn
        <4>3. rest \in LabelLists /\ labels \in LabelLists
          BY <1>1, <4>2, DenotedTypes DEF NameTypeOK, LabelLists
        <4>4. CASE offset \notin P /\ left # None
          <5>1. Meant = labels \o (<<l>> \o rest)
            BY <1>8, <4>2, <4>4
          <5> HIDE DEF l, rest
          <5>2. <<l>> \in LabelLists /\ Append(labels, l) \in LabelLists
            BY <4>1, <4>3 DEF LabelLists
          <5>3. labels \o (<<l>> \o rest) = Append(labels, l) \o rest
            <6>1. (labels \o <<l>>) \o rest = labels \o (<<l>> \o rest)
              BY <4>3, <5>2, ConcatAssociative DEF LabelLists
            <6>2. labels \o <<l>> = Append(labels, l)
              BY <4>1, <4>3 DEF LabelLists
            <6> QED BY <6>1, <6>2
          <5>4. Length(Append(labels, l)) <= Length(Meant)
            BY <4>3, <5>1, <5>2, <5>3, LengthOfMore
          <5>5. Length(Append(labels, l)) > MaxName
            BY <3>4, <4>1, <4>3, LengthOfMore
          <5>6. Length(Meant) \in Nat /\ Length(Append(labels, l)) \in Nat
            <6>1. Meant \in LabelLists
              <7>1. start \in 0 .. Size /\ 2 * Size \in 0 .. 2 * Size
                BY <1>1, <1>4 DEF NameTypeOK, Offsets
              <7> QED BY <1>1, <7>1, DenotedTypes DEF Meant
            <6> QED BY <5>2, <6>1, LengthOfMore
          <5> QED BY <5>4, <5>5, <5>6, NameAssumption
        <4> QED BY <1>6, <4>4
      <3>5. ~(offset >= Size)
        BY <1>4, <2>2
      <3>6. \/ IsPointer(offset) /\ ~MayFollow(offset)
            \/ At(offset) \in 1 .. 191 /\ ~IsLabel(offset)
            \/ IsLabel(offset) /\ Length(labels) + At(offset) + 1 > MaxName
        BY <3>5 DEF RefuseName
      <3> QED BY <3>2, <3>3, <3>4, <3>6
    <2> QED BY <1>4, <2>1, <2>2 DEF NameTypeOK
  <1>10. Meant = None \/ ~(Length(Meant) <= MaxName)
    <2>1. Length(Meant) \in Nat
      <3>1. start \in 0 .. Size /\ 2 * Size \in 0 .. 2 * Size
        BY <1>1, <1>4 DEF NameTypeOK, Offsets
      <3> QED BY <1>1, <3>1, DenotedTypes, LengthOfMore DEF Meant
    <2>2. left = None => Meant = None
      BY <1>6, <1>8
    <2> HIDE DEF left
    <2> QED BY <1>9, <2>1, <2>2, NameAssumption
  <1>11. NameIsRight'
    <2>1. Denoted' = Denoted
      BY <1>3, MeaningStays
    <2>2. Length(Meant)' = Length(Meant)
      BY <1>3, <2>1 DEF Length, Lengths, Meant
    <2> QED BY <1>3, <1>10, <2>1, <2>2 DEF NameIsRight, Meant
  <1>12. NameTypeOK'
    BY <1>1, <1>3 DEF NameTypeOK
  <1> QED BY <1>3, <1>11, <1>12 DEF NameInv, CallerMovesOn
LEMMA NameStutters == NameInv /\ UNCHANGED nameVars => NameInv'
  <1> SUFFICES ASSUME NameInv, UNCHANGED nameVars PROVE NameInv'
    OBVIOUS
  <1>1. UNCHANGED <<packet, start, offset, labels, next, visited, decoded, end>>
    BY DEF nameVars
  <1>2. Denoted' = Denoted /\ Extent' = Extent
    BY <1>1, MeaningStays
  <1>3. Meant' = Meant /\ Length(labels)' = Length(labels) /\ Length(Meant)' = Length(Meant)
    BY <1>1, <1>2 DEF Meant, Length, Lengths
  <1>4. NameTypeOK' /\ CallerMovesOn'
    BY <1>1 DEF NameInv, NameTypeOK, CallerMovesOn
  <1>5. NameIsRight'
    BY <1>1, <1>2, <1>3 DEF NameInv, NameIsRight, Meant
  <1>6. ASSUME decoded = "reading" PROVE LabelsOK' /\ Resumes' /\ \E P : PassedBy(P)'
    <2>1. LabelsOK' /\ Resumes'
      BY <1>1, <1>2, <1>3, <1>6 DEF NameInv, LabelsOK, Resumes
    <2>2. PICK P : PassedBy(P)
      BY <1>6 DEF NameInv
    <2>3. \A p : (GoesOn(p)' <=> GoesOn(p)) /\ Onward(p)' = Onward(p)
      BY <1>1 DEF GoesOn, Onward, At, IsPointer, Target, IsLabel, Label
    <2>4. PassedBy(P)'
      BY <1>1, <1>2, <1>3, <2>2, <2>3 DEF PassedBy
    <2> QED BY <2>1, <2>4
  <1> QED BY <1>1, <1>4, <1>5, <1>6 DEF NameInv

LEMMA NameNextKeeps == NameInv /\ NameNext => NameInv'
  BY FollowKeeps, TakeLabelKeeps, FinishKeeps, RefuseNameKeeps DEF NameNext

-----------------------------------------------------------------------------
(* LocalApiFetch: a stream in pieces.  What is parsed already and what the   *)
(* rest of the text carries are, together, the body the headers announce.    *)

\* What tailscaled sends is well typed, and no more arrives than is sent.
StreamOK ==
    /\ stream \in StreamType
    /\ stream.sent <= stream.head + Len(stream.rest)

\* A frame behind a chunk: the two bytes at o.
FrameAt(o) == o + 2 <= Len(Text) /\ SubSeq(Text, o + 1, o + 2) = <<CR, LF>>

Joined(a, b) == IF b = Nothing THEN Nothing ELSE a \o b

-----------------------------------------------------------------------------
(* The text *)

\* What has arrived of the bytes behind the headers is what was sent of them.
LEMMA TextIs ==
  ASSUME StreamOK
  PROVE  /\ stream.sent \in Nat /\ stream.head \in Nat /\ stream.rest \in Seq(HttpBytes)
         /\ Text \in Seq(HttpBytes) /\ Len(Text) \in Nat
         /\ Len(Text) = IF stream.sent >= stream.head THEN stream.sent - stream.head ELSE 0
         /\ Len(Text) <= Len(stream.rest)
         /\ \A i \in 1 .. Len(Text) : Text[i] = stream.rest[i]
         /\ \A a \in Nat \ {0}, b \in Int : b <= Len(Text) =>
                /\ SubSeq(stream.rest, a, b) = SubSeq(Text, a, b)
                /\ SubSeq(Text, a, b) \in Seq(HttpBytes)
                /\ Len(SubSeq(Text, a, b)) = IF a <= b THEN b - a + 1 ELSE 0
                /\ \A i \in 1 .. b - a + 1 : SubSeq(Text, a, b)[i] = Text[a + i - 1]
  <1>1. /\ stream.sent \in Nat /\ stream.head \in Nat /\ stream.rest \in Seq(HttpBytes)
        /\ stream.sent <= stream.head + Len(stream.rest)
    BY DEF StreamOK, StreamType
  <1> DEFINE rest == stream.rest
             n == stream.sent - stream.head
  <1>2. rest \in Seq(HttpBytes) /\ n \in Int /\ n <= Len(rest) /\ Len(rest) \in Nat
    BY <1>1
  <1>3. Text = SubSeq(rest, 1, n)
    BY DEF Text
  <1>4. n >= 0 <=> stream.sent >= stream.head
    BY <1>1
  <1> HIDE DEF rest, n
  <1>5. /\ SubSeq(rest, 1, n) \in Seq(HttpBytes)
        /\ Len(SubSeq(rest, 1, n)) = IF n >= 0 THEN n ELSE 0
        /\ \A i \in 1 .. n : SubSeq(rest, 1, n)[i] = rest[i]
    BY <1>2
  <1> DEFINE t == Text
             l == Len(Text)
  <1>6. /\ t \in Seq(HttpBytes) /\ l \in Nat /\ l = Len(t) /\ l <= Len(rest)
        /\ l = IF n >= 0 THEN n ELSE 0
        /\ \A i \in 1 .. l : t[i] = rest[i]
    BY <1>2, <1>3, <1>5
  <1> HIDE DEF t, l
  <1>7. ASSUME NEW a \in Nat \ {0}, NEW b \in Int, b <= l
        PROVE  /\ SubSeq(rest, a, b) = SubSeq(t, a, b)
               /\ SubSeq(t, a, b) \in Seq(HttpBytes)
               /\ Len(SubSeq(t, a, b)) = IF a <= b THEN b - a + 1 ELSE 0
               /\ \A i \in 1 .. b - a + 1 : SubSeq(t, a, b)[i] = t[a + i - 1]
    <2>1. CASE a <= b
      <3>0. t \in Seq(HttpBytes) /\ a \in 1 .. Len(t) + 1 /\ b \in a - 1 .. Len(t)
        BY <1>6, <1>7, <2>1
      <3>1. a \in 1 .. Len(rest) + 1 /\ b \in a - 1 .. Len(rest)
        BY <1>2, <1>6, <1>7, <2>1
      <3>2. /\ SubSeq(t, a, b) \in Seq(HttpBytes) /\ Len(SubSeq(t, a, b)) = b - a + 1
            /\ \A i \in 1 .. b - a + 1 : SubSeq(t, a, b)[i] = t[a + i - 1]
        BY <2>1, <3>0
      <3>3. /\ SubSeq(rest, a, b) \in Seq(HttpBytes) /\ Len(SubSeq(rest, a, b)) = b - a + 1
            /\ \A i \in 1 .. b - a + 1 : SubSeq(rest, a, b)[i] = rest[a + i - 1]
        BY <1>2, <2>1, <3>1
      <3>4. \A i \in 1 .. b - a + 1 : t[a + i - 1] = rest[a + i - 1]
        BY <1>6, <2>1, <3>0
      <3> DEFINE x == SubSeq(t, a, b)
                 y == SubSeq(rest, a, b)
                 k == b - a + 1
      <3>5. x \in Seq(HttpBytes) /\ y \in Seq(HttpBytes) /\ Len(x) = k /\ Len(y) = k
            /\ k \in Nat /\ \A i \in 1 .. k : x[i] = y[i]
        BY <2>1, <3>2, <3>3, <3>4
      <3> HIDE DEF x, y, k
      <3>6. x = y
        BY <3>5
      <3> QED BY <2>1, <3>2, <3>6 DEF x, y
    <2>2. CASE ~(a <= b)
      <3>1. SubSeq(t, a, b) = << >> /\ SubSeq(rest, a, b) = << >>
        BY <1>2, <1>6, <2>2
      <3>2. << >> \in Seq(HttpBytes) /\ Len(<< >>) = 0 /\ 1 .. b - a + 1 = {}
        BY <2>2
      <3> QED BY <2>2, <3>1, <3>2
    <2> QED BY <2>1, <2>2
  <1> QED BY <1>1, <1>4, <1>6, <1>7 DEF rest, n, t, l

\* The line end found is the first.
LEMMA LineEndIs ==
  ASSUME NEW text \in Seq(HttpBytes), NEW o \in Nat
  PROVE  LET e == LineEnd(text, o)
         IN  /\ e \in Nat
             /\ e # 0 => /\ e \in o + 1 .. Len(text) - 1
                         /\ text[e] = CR /\ text[e + 1] = LF
                         /\ \A i \in o + 1 .. e - 1 : ~(text[i] = CR /\ text[i + 1] = LF)
             /\ e = 0 => \A i \in o + 1 .. Len(text) - 1 : ~(text[i] = CR /\ text[i + 1] = LF)
  <1> DEFINE ends == {i \in o + 1 .. Len(text) - 1 : text[i] = CR /\ text[i + 1] = LF}
             e == LineEnd(text, o)
  <1>1. e = IF ends = {} THEN 0 ELSE CHOOSE i \in ends : \A j \in ends : i <= j
    BY DEF LineEnd
  <1> HIDE DEF e
  <1>2. ASSUME ends # {}
        PROVE  e \in ends /\ \A i \in ends : e <= i
    <2>1. ends \in SUBSET Nat
      OBVIOUS
    <2> HIDE DEF ends
    <2>2. Min(ends) \in ends /\ \A j \in ends : Min(ends) <= j
      BY <1>2, <2>1, Smallest
    <2> QED BY <1>1, <1>2, <2>2
  <1>3. e = 0 <=> ends = {}
    <2>1. \A i \in ends : i # 0
      OBVIOUS
    <2> HIDE DEF ends
    <2>2. ends = {} => e = 0
      BY <1>1
    <2> QED BY <1>2, <2>1, <2>2
  <1>4. e # 0 => /\ e \in o + 1 .. Len(text) - 1 /\ text[e] = CR /\ text[e + 1] = LF
                 /\ \A i \in o + 1 .. Len(text) - 1 : text[i] = CR /\ text[i + 1] = LF => e <= i
    BY <1>2, <1>3
  <1>5. e = 0 => \A i \in o + 1 .. Len(text) - 1 : ~(text[i] = CR /\ text[i + 1] = LF)
    BY <1>3
  <1> HIDE DEF ends
  <1>6. e \in Nat
    BY <1>4
  <1>7. e # 0 => \A i \in o + 1 .. e - 1 : ~(text[i] = CR /\ text[i + 1] = LF)
    <2> SUFFICES ASSUME e # 0, NEW i \in o + 1 .. e - 1
                 PROVE  ~(text[i] = CR /\ text[i + 1] = LF)
      OBVIOUS
    <2>1. Len(text) \in Nat /\ e \in o + 1 .. Len(text) - 1
      BY <1>4
    <2>2. i \in o + 1 .. Len(text) - 1 /\ ~(e <= i)
      BY <2>1
    <2> QED BY <1>4, <2>2
  <1> QED BY <1>4, <1>5, <1>6, <1>7 DEF e

\* A line end in what has arrived is the one in the text, and when all has
\* arrived there is no other.
LEMMA LineEndInPart ==
  ASSUME StreamOK, NEW b \in 0 .. Len(Text), NEW o \in Nat
  PROVE  LET here == LineEnd(SubSeq(Text, 1, b), o)
             there == LineEnd(Text, o)
         IN  /\ here \in Nat /\ there \in Nat
             /\ here # 0 => here = there /\ here \in o + 1 .. b - 1
             /\ there # 0 => there \in o + 1 .. Len(Text) - 1
             /\ b = Len(Text) => here = there
             /\ here = 0 => \A c \in 0 .. b : LineEnd(SubSeq(Text, 1, c), o) = 0
  <1> DEFINE part(c) == SubSeq(Text, 1, c)
             here == LineEnd(part(b), o)
             there == LineEnd(Text, o)
  <1>1. Text \in Seq(HttpBytes) /\ Len(Text) \in Nat
    BY TextIs
  <1>2. ASSUME NEW c \in 0 .. b
        PROVE  /\ part(c) \in Seq(HttpBytes) /\ Len(part(c)) = c
               /\ \A i \in 1 .. c : part(c)[i] = Text[i]
    <2>1. c \in Int /\ c <= Len(Text) /\ 1 \in Nat \ {0}
      BY <1>1
    <2>2. /\ part(c) \in Seq(HttpBytes) /\ Len(part(c)) = IF 1 <= c THEN c - 1 + 1 ELSE 0
          /\ \A i \in 1 .. c - 1 + 1 : part(c)[i] = Text[1 + i - 1]
      BY <2>1, TextIs
    <2> HIDE DEF part
    <2>3. Len(part(c)) = c /\ c - 1 + 1 = c
      BY <2>1, <2>2
    <2>4. \A i \in 1 .. c : part(c)[i] = Text[i]
      <3>1. \A i \in 1 .. c : 1 + i - 1 = i
        BY <2>1
      <3> QED BY <2>2, <2>3, <3>1
    <2> QED BY <2>2, <2>3, <2>4
  <1> HIDE DEF part
  <1>3. ASSUME NEW c \in 0 .. b
        PROVE  LET e == LineEnd(part(c), o)
               IN  /\ e \in Nat
                   /\ e # 0 => /\ e \in o + 1 .. c - 1
                               /\ Text[e] = CR /\ Text[e + 1] = LF
                               /\ \A i \in o + 1 .. e - 1 : ~(Text[i] = CR /\ Text[i + 1] = LF)
                   /\ e = 0 => \A i \in o + 1 .. c - 1 : ~(Text[i] = CR /\ Text[i + 1] = LF)
    <2> DEFINE e == LineEnd(part(c), o)
               p == part(c)
    <2>1. /\ e \in Nat
          /\ e # 0 => /\ e \in o + 1 .. Len(p) - 1
                      /\ p[e] = CR /\ p[e + 1] = LF
                      /\ \A i \in o + 1 .. e - 1 : ~(p[i] = CR /\ p[i + 1] = LF)
          /\ e = 0 => \A i \in o + 1 .. Len(p) - 1 : ~(p[i] = CR /\ p[i + 1] = LF)
      BY <1>2, LineEndIs
    <2>2. Len(p) = c /\ \A i \in 1 .. c : p[i] = Text[i]
      BY <1>2
    <2> HIDE DEF e, p
    <2>3. \A i \in o + 1 .. c - 1 : p[i] = Text[i] /\ p[i + 1] = Text[i + 1]
      BY <2>2
    <2>4. e # 0 => o + 1 .. e - 1 \subseteq o + 1 .. c - 1
      BY <2>1, <2>2
    <2> QED BY <2>1, <2>2, <2>3, <2>4 DEF e
  <1>4. /\ there \in Nat
        /\ there # 0 => /\ there \in o + 1 .. Len(Text) - 1
                        /\ Text[there] = CR /\ Text[there + 1] = LF
                        /\ \A i \in o + 1 .. there - 1 : ~(Text[i] = CR /\ Text[i + 1] = LF)
        /\ there = 0 => \A i \in o + 1 .. Len(Text) - 1 : ~(Text[i] = CR /\ Text[i + 1] = LF)
    BY <1>1, LineEndIs
  <1>5. /\ here \in Nat
        /\ here # 0 => /\ here \in o + 1 .. b - 1
                       /\ Text[here] = CR /\ Text[here + 1] = LF
                       /\ \A i \in o + 1 .. here - 1 : ~(Text[i] = CR /\ Text[i + 1] = LF)
        /\ here = 0 => \A i \in o + 1 .. b - 1 : ~(Text[i] = CR /\ Text[i + 1] = LF)
    <2>1. b \in 0 .. b
      OBVIOUS
    <2> QED BY <1>3, <2>1
  <1> HIDE DEF here, there
  <1>6. ASSUME here # 0 PROVE here = there
    <2>1. there # 0
      <3>1. here \in o + 1 .. Len(Text) - 1
        BY <1>1, <1>5, <1>6
      <3> QED BY <1>4, <1>5, <1>6, <3>1
    <2>2. ~(here < there)
      <3>1. here < there => here \in o + 1 .. there - 1
        BY <1>4, <1>5, <1>6, <2>1
      <3> QED BY <1>4, <1>5, <1>6, <2>1, <3>1
    <2>3. ~(there < here)
      <3>1. there < here => there \in o + 1 .. here - 1
        BY <1>4, <1>5, <1>6, <2>1
      <3> QED BY <1>4, <1>5, <1>6, <2>1, <3>1
    <2> QED BY <1>4, <1>5, <2>2, <2>3
  <1>7. ASSUME b = Len(Text), here = 0 PROVE there = 0
    BY <1>4, <1>5, <1>7
  <1>8. ASSUME here = 0, NEW c \in 0 .. b PROVE LineEnd(part(c), o) = 0
    <2> DEFINE e == LineEnd(part(c), o)
    <2>1. e # 0 => e \in o + 1 .. c - 1 /\ Text[e] = CR /\ Text[e + 1] = LF
      BY <1>3
    <2> HIDE DEF e
    <2>2. e # 0 => e \in o + 1 .. b - 1
      BY <2>1
    <2>3. e = 0
      BY <1>5, <1>8, <2>1, <2>2
    <2> QED BY <2>3 DEF e
  <1> QED BY <1>4, <1>5, <1>6, <1>7, <1>8 DEF here, there, part
-----------------------------------------------------------------------------
(* Sizes *)

Valued(text, k, upTo) == IF k = 0 THEN 0 ELSE 16 * upTo[k - 1] + Digit(text[k])

\* Values is what its definition says.
LEMMA ValuesAre ==
  ASSUME NEW text, Len(text) \in Nat
  PROVE  Values(text) = [k \in 0 .. Len(text) |-> Valued(text, k, Values(text))]
  <1> DEFINE S == {m \in Nat : \E g : g = [k \in 0 .. m |-> Valued(text, k, g)]}
  <1>1. 0 \in S
    <2> DEFINE g == [k \in 0 .. 0 |-> 0]
    <2>1. \A k \in 0 .. 0 : Valued(text, k, g) = 0
      BY DEF Valued
    <2>2. g = [k \in 0 .. 0 |-> Valued(text, k, g)]
      BY <2>1
    <2> QED BY <2>2
  <1>2. ASSUME NEW m \in Nat, m # 0, m - 1 \in S PROVE m \in S
    <2>1. PICK g : g = [k \in 0 .. m - 1 |-> Valued(text, k, g)]
      BY <1>2
    <2> DEFINE h == [k \in 0 .. m |-> IF k = m THEN Valued(text, m, g) ELSE g[k]]
    <2>2. ASSUME NEW k \in 0 .. m PROVE h[k] = Valued(text, k, h)
      <3>1. CASE k = 0
        BY <1>2, <2>1, <3>1 DEF Valued
      <3>2. CASE k # 0
        <4>1. h[k - 1] = g[k - 1]
          BY <3>2
        <4>2. Valued(text, k, h) = Valued(text, k, g)
          BY <3>2, <4>1 DEF Valued
        <4> HIDE DEF Valued
        <4>3. CASE k = m
          BY <4>2, <4>3
        <4>4. CASE k # m
          <5>1. k \in 0 .. m - 1
            BY <4>4
          <5> QED BY <2>1, <4>2, <4>4, <5>1
        <4> QED BY <4>3, <4>4
      <3> QED BY <3>1, <3>2
    <2>3. h = [k \in 0 .. m |-> h[k]]
      OBVIOUS
    <2> HIDE DEF h
    <2>4. h = [k \in 0 .. m |-> Valued(text, k, h)]
      BY <2>2, <2>3
    <2> QED BY <2>4
  <1>3. Len(text) \in S
    <2> DEFINE n == Len(text)
    <2>1. n \in Nat
      OBVIOUS
    <2> HIDE DEF S, n
    <2>2. 0 .. n \subseteq S
      BY <1>1, <1>2, <2>1, CountingUp
    <2>3. n \in S
      BY <2>1, <2>2
    <2> QED BY <2>3 DEF n
  <1>4. PICK g : g = [k \in 0 .. Len(text) |-> Valued(text, k, g)]
    BY <1>3
  <1> QED BY <1>4 DEF Values, Valued

\* A size is a number.
LEMMA SizeIsNumber ==
  ASSUME NEW text \in Seq(HttpBytes), IsSize(text)
  PROVE  Value(text) \in Nat
  <1> DEFINE n == Len(text)
             v == Values(text)
             S == {k \in 0 .. n : v[k] \in Nat}
  <1>1. n \in Nat /\ DOMAIN text = 1 .. n
    OBVIOUS
  <1>2. ASSUME NEW k \in 1 .. n PROVE Digit(text[k]) \in Nat
    <2>1. text[k] \in Range(Digits)
      BY <1>1 DEF IsSize, Range
    <2>2. PICK i \in 1 .. 3 : Digits[i] = text[k]
      BY <2>1 DEF Range, Digits
    <2>3. DOMAIN Digits = 1 .. 3
      BY DEF Digits
    <2>4. (CHOOSE j \in DOMAIN Digits : Digits[j] = text[k]) \in 1 .. 3
      BY <2>2, <2>3
    <2> DEFINE place == CHOOSE j \in DOMAIN Digits : Digits[j] = text[k]
    <2>5. place \in 1 .. 3 /\ Digit(text[k]) = place - 1
      BY <2>4 DEF Digit
    <2> HIDE DEF place
    <2> QED BY <2>5
  <1>3. \A k \in 0 .. n : v[k] = Valued(text, k, v)
    BY <1>1, ValuesAre
  <1>4. 0 \in S
    BY <1>1, <1>3 DEF Valued
  <1> HIDE DEF v
  <1>5. ASSUME NEW k \in 1 .. n, k - 1 \in S PROVE k \in S
    <2>1. v[k] = 16 * v[k - 1] + Digit(text[k])
      BY <1>3 DEF Valued
    <2>2. v[k - 1] \in Nat
      BY <1>5
    <2> QED BY <1>2, <2>1, <2>2
  <1>6. n \in S
    <2> HIDE DEF S, n
    <2>1. 0 .. n \subseteq S
      BY <1>1, <1>4, <1>5, CountingUp
    <2> QED BY <1>1, <2>1
  <1> QED BY <1>6 DEF Value, v

\* The size text is a part of its line.
LEMMA SizeTextIs ==
  ASSUME NEW line \in Seq(HttpBytes)
  PROVE  SizeText(line) \in Seq(HttpBytes)
  <1> DEFINE semis == {i \in 1 .. Len(line) : line[i] = ";"}
             stop == IF semis = {} THEN Len(line)
                    ELSE (CHOOSE i \in semis : \A j \in semis : i <= j) - 1
  <1>0. Len(line) \in Nat /\ semis \in SUBSET Nat /\ \A i \in semis : i \in 1 .. Len(line)
    <2>1. Len(line) \in Nat /\ 1 .. Len(line) \subseteq Nat
      OBVIOUS
    <2> QED BY <2>1
  <1>1. stop \in 0 .. Len(line)
    <2> DEFINE first == CHOOSE i \in semis : \A j \in semis : i <= j
    <2> HIDE DEF semis
    <2>1. semis # {} => first \in semis
      <3>1. semis # {} => Min(semis) \in semis /\ \A j \in semis : Min(semis) <= j
        BY <1>0, Smallest
      <3> QED BY <3>1
    <2>2. stop = IF semis = {} THEN Len(line) ELSE first - 1
      OBVIOUS
    <2> HIDE DEF stop, first
    <2>3. PICK l \in Nat : l = Len(line)
      BY <1>0
    <2>4. semis # {} => first \in 1 .. l
      BY <1>0, <2>1, <2>3
    <2>5. stop \in 0 .. l
      BY <2>2, <2>3, <2>4
    <2> QED BY <2>3, <2>5
  <1> HIDE DEF stop
  <1>2. SubSeq(line, 1, stop) \in Seq(HttpBytes)
    BY <1>1
  <1>3. SizeText(line) = SubSeq(line, 1, stop)
    BY DEF SizeText, stop
  <1> QED BY <1>2, <1>3

-----------------------------------------------------------------------------
(* Trailers and chunks *)

\* What trailers and chunks say at o depends on what comes behind.
LEMMA TrailersFromBehind ==
  ASSUME StreamOK, NEW o \in 0 .. Len(Text), NEW f, NEW g,
         \A i \in o + 1 .. Len(Text) : f[i] = g[i]
  PROVE  TrailersFrom(o, f) = TrailersFrom(o, g)
  <1> DEFINE e == LineEnd(Text, o)
  <1>1. Text \in Seq(HttpBytes) /\ Len(Text) \in Nat
    BY TextIs
  <1>2. e # 0 => e \in o + 1 .. Len(Text) - 1
    BY <1>1, LineEndIs
  <1> HIDE DEF e
  <1>3. e # 0 => f[e + 1] = g[e + 1]
    <2>1. e # 0 => e + 1 \in o + 1 .. Len(Text)
      BY <1>1, <1>2
    <2> QED BY <2>1
  <1> QED BY <1>3 DEF TrailersFrom, e

LEMMA BodyFromBehind ==
  ASSUME StreamOK, NEW o \in 0 .. Len(Text), NEW f, NEW g,
         \A i \in o + 1 .. Len(Text) : f[i] = g[i]
  PROVE  BodyFrom(o, f) = BodyFrom(o, g)
  <1> DEFINE e == LineEnd(Text, o)
             line == SubSeq(Text, o + 1, e - 1)
             n == Value(SizeText(line))
  <1>1. Text \in Seq(HttpBytes) /\ Len(Text) \in Nat
    BY TextIs
  <1>2. e # 0 => e \in o + 1 .. Len(Text) - 1
    BY <1>1, LineEndIs
  <1>3. e # 0 => line \in Seq(HttpBytes)
    <2> HIDE DEF e
    <2>1. e # 0 => o + 1 \in Nat \ {0} /\ e - 1 \in Int /\ e - 1 <= Len(Text)
      BY <1>1, <1>2
    <2> QED BY <2>1, TextIs
  <1>4. e # 0 /\ IsSize(SizeText(line)) => n \in Nat
    <2> HIDE DEF line
    <2> QED BY <1>3, SizeTextIs, SizeIsNumber
  <1> HIDE DEF e, n
  <1>5. ASSUME e # 0, IsSize(SizeText(line)), ~(Len(Text) < e + n + 3)
        PROVE  f[e + n + 3] = g[e + n + 3]
    <2> HIDE DEF line
    <2>1. e + n + 3 \in o + 1 .. Len(Text)
      BY <1>1, <1>2, <1>4, <1>5
    <2> QED BY <2>1
  <1> QED BY <1>5 DEF BodyFrom, e, n

\* TrailersEnd and Dechunked are what their definitions say, from the end of
\* the text on.
LEMMA TrailersEndIs ==
  ASSUME StreamOK
  PROVE  TrailersEnd = [o \in 0 .. Len(Text) |-> TrailersFrom(o, TrailersEnd)]
  <1> DEFINE n == Len(Text)
             S == {m \in Nat : \E g : g = [o \in n - m .. n |-> TrailersFrom(o, g)]}
  <1>0. n \in Nat
    BY TextIs
  <1> HIDE DEF n
  <1>1. 0 \in S
    <2> DEFINE g == [o \in n .. n |-> TrailersFrom(n, << >>)]
    <2>1. \A o \in n .. n : o = n /\ TrailersFrom(n, g) = TrailersFrom(n, << >>)
      <3>1. n \in 0 .. Len(Text) /\ \A i \in n + 1 .. Len(Text) : g[i] = << >>[i]
        BY <1>0 DEF n
      <3> HIDE DEF g
      <3>2. TrailersFrom(n, g) = TrailersFrom(n, << >>)
        BY <3>1, TrailersFromBehind
      <3> QED BY <1>0, <3>2
    <2>2. g = [o \in n .. n |-> TrailersFrom(o, g)]
      <3>1. g = [o \in n .. n |-> TrailersFrom(o, << >>)]
        BY <2>1
      <3> HIDE DEF g
      <3> QED BY <2>1, <3>1
    <2>3. n - 0 = n
      BY <1>0
    <2> QED BY <2>2, <2>3
  <1>2. ASSUME NEW m \in 1 .. n, m - 1 \in S PROVE m \in S
    <2>1. PICK g : g = [o \in n - (m - 1) .. n |-> TrailersFrom(o, g)]
      BY <1>2
    <2> DEFINE first == n - m
               h == [o \in first .. n |-> IF o = first THEN TrailersFrom(first, g) ELSE g[o]]
    <2>2. first \in 0 .. n - 1 /\ n - (m - 1) = first + 1
      BY <1>0
    <2> HIDE DEF first
    <2>3. ASSUME NEW o \in first .. n PROVE TrailersFrom(o, h) = TrailersFrom(o, g)
      <3>1. o \in 0 .. Len(Text) /\ \A i \in o + 1 .. Len(Text) : h[i] = g[i]
        BY <1>0, <2>2 DEF n
      <3> HIDE DEF h
      <3> QED BY <3>1, TrailersFromBehind
    <2>4. ASSUME NEW o \in first .. n PROVE h[o] = TrailersFrom(o, h)
      <3>1. CASE o = first
        BY <2>3, <3>1
      <3>2. CASE o # first
        <4>1. o \in first + 1 .. n
          BY <1>0, <2>2, <3>2
        <4>2. h[o] = g[o] /\ g[o] = TrailersFrom(o, g)
          BY <2>1, <2>2, <3>2, <4>1
        <4> QED BY <2>3, <4>2
      <3> QED BY <3>1, <3>2
    <2>5. h = [o \in first .. n |-> h[o]]
      OBVIOUS
    <2> HIDE DEF h
    <2>6. h = [o \in first .. n |-> TrailersFrom(o, h)]
      BY <2>4, <2>5
    <2> QED BY <2>6 DEF first
  <1>3. n \in S
    <2> HIDE DEF S
    <2>1. 0 .. n \subseteq S
      BY <1>0, <1>1, <1>2, CountingUp
    <2> QED BY <1>0, <2>1
  <1>4. n - n = 0
    BY <1>0
  <1>5. PICK g : g = [o \in 0 .. n |-> TrailersFrom(o, g)]
    BY <1>3, <1>4
  <1> QED BY <1>5 DEF TrailersEnd, n

LEMMA DechunkedIs ==
  ASSUME StreamOK
  PROVE  Dechunked = [o \in 0 .. Len(Text) |-> BodyFrom(o, Dechunked)]
  <1> DEFINE n == Len(Text)
             S == {m \in Nat : \E g : g = [o \in n - m .. n |-> BodyFrom(o, g)]}
  <1>0. n \in Nat
    BY TextIs
  <1> HIDE DEF n
  <1>1. 0 \in S
    <2> DEFINE g == [o \in n .. n |-> BodyFrom(n, << >>)]
    <2>1. \A o \in n .. n : o = n /\ BodyFrom(n, g) = BodyFrom(n, << >>)
      <3>1. n \in 0 .. Len(Text) /\ \A i \in n + 1 .. Len(Text) : g[i] = << >>[i]
        BY <1>0 DEF n
      <3> HIDE DEF g
      <3>2. BodyFrom(n, g) = BodyFrom(n, << >>)
        BY <3>1, BodyFromBehind
      <3> QED BY <1>0, <3>2
    <2>2. g = [o \in n .. n |-> BodyFrom(o, g)]
      <3>1. g = [o \in n .. n |-> BodyFrom(o, << >>)]
        BY <2>1
      <3> HIDE DEF g
      <3> QED BY <2>1, <3>1
    <2>3. n - 0 = n
      BY <1>0
    <2> QED BY <2>2, <2>3
  <1>2. ASSUME NEW m \in 1 .. n, m - 1 \in S PROVE m \in S
    <2>1. PICK g : g = [o \in n - (m - 1) .. n |-> BodyFrom(o, g)]
      BY <1>2
    <2> DEFINE first == n - m
               h == [o \in first .. n |-> IF o = first THEN BodyFrom(first, g) ELSE g[o]]
    <2>2. first \in 0 .. n - 1 /\ n - (m - 1) = first + 1
      BY <1>0
    <2> HIDE DEF first
    <2>3. ASSUME NEW o \in first .. n PROVE BodyFrom(o, h) = BodyFrom(o, g)
      <3>1. o \in 0 .. Len(Text) /\ \A i \in o + 1 .. Len(Text) : h[i] = g[i]
        BY <1>0, <2>2 DEF n
      <3> HIDE DEF h
      <3> QED BY <3>1, BodyFromBehind
    <2>4. ASSUME NEW o \in first .. n PROVE h[o] = BodyFrom(o, h)
      <3>1. CASE o = first
        BY <2>3, <3>1
      <3>2. CASE o # first
        <4>1. o \in first + 1 .. n
          BY <1>0, <2>2, <3>2
        <4>2. h[o] = g[o] /\ g[o] = BodyFrom(o, g)
          BY <2>1, <2>2, <3>2, <4>1
        <4> QED BY <2>3, <4>2
      <3> QED BY <3>1, <3>2
    <2>5. h = [o \in first .. n |-> h[o]]
      OBVIOUS
    <2> HIDE DEF h
    <2>6. h = [o \in first .. n |-> BodyFrom(o, h)]
      BY <2>4, <2>5
    <2> QED BY <2>6 DEF first
  <1>3. n \in S
    <2> HIDE DEF S
    <2>1. 0 .. n \subseteq S
      BY <1>0, <1>1, <1>2, CountingUp
    <2> QED BY <1>0, <2>1
  <1>4. n - n = 0
    BY <1>0
  <1>5. PICK g : g = [o \in 0 .. n |-> BodyFrom(o, g)]
    BY <1>3, <1>4
  <1> QED BY <1>5 DEF Dechunked, n

-----------------------------------------------------------------------------
(* What a line says *)

\* The line of the text that begins at o.
LEMMA LineAt ==
  ASSUME StreamOK, NEW o \in 0 .. Len(Text)
  PROVE  LET e == LineEnd(Text, o)
             line == SubSeq(Text, o + 1, e - 1)
         IN  /\ e \in Nat
             /\ e # 0 => /\ e \in o + 1 .. Len(Text) - 1
                         /\ e + 1 \in 0 .. Len(Text)
                         /\ line \in Seq(HttpBytes)
                         /\ Len(line) = e - 1 - o
                         /\ SizeText(line) \in Seq(HttpBytes)
                         /\ IsSize(SizeText(line)) => Value(SizeText(line)) \in Nat
  <1> DEFINE e == LineEnd(Text, o)
             line == SubSeq(Text, o + 1, e - 1)
  <1>1. Text \in Seq(HttpBytes) /\ Len(Text) \in Nat
    BY TextIs
  <1>2. e \in Nat /\ (e # 0 => e \in o + 1 .. Len(Text) - 1)
    BY <1>1, LineEndIs
  <1> HIDE DEF e
  <1>3. ASSUME e # 0
        PROVE  /\ e + 1 \in 0 .. Len(Text)
               /\ line \in Seq(HttpBytes) /\ Len(line) = e - 1 - o
    <2>1. o + 1 \in Nat \ {0} /\ e - 1 \in Int /\ e - 1 <= Len(Text) /\ e + 1 \in 0 .. Len(Text)
      BY <1>1, <1>2, <1>3
    <2>2. line \in Seq(HttpBytes) /\ Len(line) = IF o + 1 <= e - 1 THEN (e - 1) - (o + 1) + 1 ELSE 0
      BY <2>1, TextIs
    <2> HIDE DEF line
    <2>3. Len(line) = e - 1 - o
      BY <1>2, <1>3, <2>2
    <2> QED BY <2>1, <2>2, <2>3
  <1> HIDE DEF line
  <1>4. e # 0 => SizeText(line) \in Seq(HttpBytes)
    BY <1>3, SizeTextIs
  <1>5. e # 0 /\ IsSize(SizeText(line)) => Value(SizeText(line)) \in Nat
    BY <1>4, SizeIsNumber
  <1> QED BY <1>2, <1>3, <1>4, <1>5 DEF e, line

LEMMA TrailersAt ==
  ASSUME StreamOK, NEW o \in 0 .. Len(Text)
  PROVE  LET e == LineEnd(Text, o)
             line == SubSeq(Text, o + 1, e - 1)
         IN  TrailersEnd[o] =
               IF e = 0 THEN 0
               ELSE IF line = << >> THEN e + 1
               ELSE IF ":" \in Range(line) /\ ~Blank(line[1]) THEN TrailersEnd[e + 1]
               ELSE 0
  <1>1. TrailersEnd[o] = TrailersFrom(o, TrailersEnd)
    BY TrailersEndIs
  <1> QED BY <1>1 DEF TrailersFrom

\* Trailers end behind their beginning, if they do.
LEMMA TrailersEndTypes ==
  ASSUME StreamOK
  PROVE  \A o \in 0 .. Len(Text) :
            TrailersEnd[o] \in Nat /\ (TrailersEnd[o] # 0 => TrailersEnd[o] > o)
  <1> DEFINE n == Len(Text)
             Right(o) == TrailersEnd[o] \in Nat /\ (TrailersEnd[o] # 0 => TrailersEnd[o] > o)
             S == {m \in Nat : \A o \in n - m .. n : o < 0 \/ Right(o)}
  <1>0. n \in Nat
    BY TextIs
  <1>1. ASSUME NEW o \in 0 .. n, \A i \in o + 1 .. n : Right(i) PROVE Right(o)
    <2> DEFINE e == LineEnd(Text, o)
               line == SubSeq(Text, o + 1, e - 1)
    <2>1. e \in Nat /\ (e # 0 => e \in o + 1 .. n - 1)
      BY LineAt
    <2>2. TrailersEnd[o] = IF e = 0 THEN 0
                           ELSE IF line = << >> THEN e + 1
                           ELSE IF ":" \in Range(line) /\ ~Blank(line[1]) THEN TrailersEnd[e + 1]
                           ELSE 0
      BY TrailersAt
    <2> HIDE DEF e, line, n
    <2>3. e # 0 => TrailersEnd[e + 1] \in Nat
                   /\ (TrailersEnd[e + 1] # 0 => TrailersEnd[e + 1] > e + 1)
      <3>1. e # 0 => e + 1 \in o + 1 .. n
        BY <1>0, <2>1
      <3> QED BY <1>1, <3>1
    <2> QED BY <2>1, <2>2, <2>3
  <1> HIDE DEF n, Right
  <1>2. 0 \in S
    <2> SUFFICES ASSUME NEW o \in n - 0 .. n PROVE Right(o)
      OBVIOUS
    <2>1. o \in 0 .. n /\ o + 1 .. n = {}
      BY <1>0
    <2> QED BY <1>1, <2>1
  <1>3. ASSUME NEW m \in 1 .. n, m - 1 \in S PROVE m \in S
    <2> SUFFICES ASSUME NEW o \in n - m .. n PROVE Right(o)
      OBVIOUS
    <2>1. \A i \in n - (m - 1) .. n : Right(i)
      <3>1. \A i \in n - (m - 1) .. n : ~(i < 0)
        BY <1>0
      <3> QED BY <1>3, <3>1
    <2>2. o \in 0 .. n /\ \A i \in o + 1 .. n : i \in n - (m - 1) .. n
      BY <1>0
    <2> QED BY <1>1, <2>1, <2>2
  <1>4. 0 .. n \subseteq S
    <2> HIDE DEF S
    <2> QED BY <1>0, <1>2, <1>3, CountingUp
  <1>5. \A o \in 0 .. n : Right(o)
    <2> SUFFICES ASSUME NEW o \in 0 .. n PROVE Right(o)
      OBVIOUS
    <2>1. n \in S /\ n - n = 0
      BY <1>0, <1>4
    <2>2. o \in n - n .. n /\ ~(o < 0)
      BY <1>0
    <2> QED BY <2>1, <2>2
  <1> QED BY <1>5 DEF n, Right

\* What the size line at o and the chunk behind it say.
LEMMA ChunkAt ==
  ASSUME StreamOK, NEW o \in 0 .. Len(Text)
  PROVE  LET e == LineEnd(Text, o)
             text == SizeText(SubSeq(Text, o + 1, e - 1))
             n == Value(text)
         IN  /\ e = 0 \/ ~IsSize(text) => Dechunked[o] = Nothing
             /\ e # 0 /\ IsSize(text) /\ n = 0 =>
                  Dechunked[o] = IF TrailersEnd[e + 1] - (e + 1) \in 1 .. MaxHeaders
                                 THEN << >> ELSE Nothing
             /\ e # 0 /\ IsSize(text) /\ n # 0 =>
                  Dechunked[o] = IF FrameAt(e + 1 + n)
                                 THEN Joined(SubSeq(Text, e + 2, e + 1 + n),
                                             Dechunked[e + 1 + n + 2])
                                 ELSE Nothing
  <1> DEFINE e == LineEnd(Text, o)
             text == SizeText(SubSeq(Text, o + 1, e - 1))
             n == Value(text)
  <1>1. Dechunked[o] = BodyFrom(o, Dechunked)
    BY DechunkedIs
  <1>2. /\ e \in Nat /\ Len(Text) \in Nat
        /\ e # 0 /\ IsSize(text) => n \in Nat /\ TrailersEnd[e + 1] \in Nat
    BY LineAt, TextIs, TrailersEndTypes
  <1>3. Dechunked[o] =
          IF e = 0 \/ ~IsSize(text) THEN Nothing
          ELSE IF n = 0 THEN IF TrailersEnd[e + 1] - e - 1 \in 1 .. MaxHeaders
                             THEN << >> ELSE Nothing
          ELSE IF \/ Len(Text) < e + n + 3
                  \/ SubSeq(Text, e + n + 2, e + n + 3) # <<CR, LF>>
                  \/ Dechunked[e + n + 3] = Nothing THEN Nothing
          ELSE SubSeq(Text, e + 2, e + n + 1) \o Dechunked[e + n + 3]
    BY <1>1 DEF BodyFrom
  <1> HIDE DEF e, text, n
  <1>4. e # 0 /\ IsSize(text) =>
          /\ TrailersEnd[e + 1] - e - 1 = TrailersEnd[e + 1] - (e + 1)
          /\ e + n + 3 = e + 1 + n + 2 /\ e + n + 2 = e + 1 + n + 1 /\ e + n + 1 = e + 1 + n
          /\ ~(Len(Text) < e + n + 3) <=> e + 1 + n + 2 <= Len(Text)
    BY <1>2
  <1>5. CASE e = 0 \/ ~IsSize(text)
    BY <1>3, <1>5 DEF e, text, n
  <1>6. CASE e # 0 /\ IsSize(text) /\ n = 0
    BY <1>3, <1>4, <1>6 DEF e, text, n
  <1>7. CASE e # 0 /\ IsSize(text) /\ n # 0
    <2>1. FrameAt(e + 1 + n) <=> ~(Len(Text) < e + n + 3)
                                 /\ SubSeq(Text, e + n + 2, e + n + 3) = <<CR, LF>>
      BY <1>4, <1>7 DEF FrameAt
    <2>2. Dechunked[o] = IF FrameAt(e + 1 + n)
                         THEN Joined(SubSeq(Text, e + 2, e + 1 + n), Dechunked[e + 1 + n + 2])
                         ELSE Nothing
      BY <1>3, <1>4, <1>7, <2>1 DEF Joined
    <2> QED BY <1>7, <2>2 DEF e, text, n
  <1> QED BY <1>5, <1>6, <1>7

\* No body is Nothing.
LEMMA NothingIsNoBody ==
  \A b \in Seq(HttpBytes) : b # Nothing
  <1> SUFFICES ASSUME Nothing \in Seq(HttpBytes) PROVE FALSE
    OBVIOUS
  <1>1. Nothing[1] = "nothing" /\ Len(Nothing) = 1
    BY DEF Nothing
  <1>2. "nothing" \in HttpBytes
    <2>1. 1 \in 1 .. Len(Nothing)
      BY <1>1
    <2> QED BY <1>1, <2>1
  <1>3. \A c \in Range(Digits) : c \in {"0", "1", "2"}
    BY DEF Range, Digits
  <1> QED BY <1>2, <1>3 DEF HttpBytes, CR, LF

BodyOrNothing == Seq(HttpBytes) \union {Nothing}

\* BodyOrNothing joined are a body.
LEMMA JoinedBodies ==
  ASSUME NEW a \in Seq(HttpBytes), NEW b \in BodyOrNothing
  PROVE  /\ Joined(a, b) \in BodyOrNothing
         /\ Joined(a, b) = Nothing <=> b = Nothing
         /\ b # Nothing => Len(Joined(a, b)) >= Len(a) /\ Len(Joined(a, b)) \in Nat
         /\ \A c \in Seq(HttpBytes) : Joined(c \o a, b) = Joined(c, Joined(a, b))
         /\ Joined(<< >>, b) = b
  <1>1. CASE b = Nothing
    BY <1>1 DEF Joined, BodyOrNothing
  <1>2. CASE b # Nothing
    <2>1. b \in Seq(HttpBytes)
      BY <1>2 DEF BodyOrNothing
    <2>2. a \o b \in Seq(HttpBytes) /\ Len(a \o b) = Len(a) + Len(b) /\ Len(a) \in Nat /\ Len(b) \in Nat
      BY <2>1
    <2>3. a \o b # Nothing
      BY <2>2, NothingIsNoBody
    <2>4. \A c \in Seq(HttpBytes) : (c \o a) \o b = c \o (a \o b)
      BY <2>1, ConcatAssociative
    <2>5. << >> \o b = b
      BY <2>1
    <2>6. Joined(a, b) = a \o b /\ Joined(<< >>, b) = << >> \o b
      BY <1>2 DEF Joined
    <2>7. Joined(a, b) \in BodyOrNothing /\ Joined(a, b) # Nothing
      BY <2>2, <2>3, <2>6 DEF BodyOrNothing
    <2>8. Len(Joined(a, b)) >= Len(a) /\ Len(Joined(a, b)) \in Nat
      BY <2>2, <2>6
    <2>9. \A c : Joined(c \o a, b) = (c \o a) \o b /\ Joined(c, Joined(a, b)) = c \o (a \o b)
      BY <1>2, <2>6, <2>7, Zenon DEF Joined
    <2>10. \A c \in Seq(HttpBytes) : Joined(c \o a, b) = Joined(c, Joined(a, b))
      BY <2>4, <2>9, Zenon
    <2> QED BY <1>2, <2>5, <2>6, <2>7, <2>8, <2>10, Zenon
  <1> QED BY <1>1, <1>2

LEMMA DechunkedTypes ==
  ASSUME StreamOK
  PROVE  \A o \in 0 .. Len(Text) : Dechunked[o] \in BodyOrNothing
  <1> DEFINE n == Len(Text)
             S == {m \in Nat : \A o \in n - m .. n : o < 0 \/ Dechunked[o] \in BodyOrNothing}
  <1>0. n \in Nat
    BY TextIs
  <1>1. ASSUME NEW o \in 0 .. n, \A i \in o + 1 .. n : Dechunked[i] \in BodyOrNothing
        PROVE  Dechunked[o] \in BodyOrNothing
    <2> DEFINE e == LineEnd(Text, o)
               text == SizeText(SubSeq(Text, o + 1, e - 1))
               k == Value(text)
    <2>1. Nothing \in BodyOrNothing /\ << >> \in BodyOrNothing
      BY DEF BodyOrNothing
    <2>2. e \in Nat /\ (e # 0 => e \in o + 1 .. n - 1) /\ (e # 0 /\ IsSize(text) => k \in Nat)
      BY LineAt
    <2>3. CASE e # 0 /\ IsSize(text) /\ k # 0 /\ FrameAt(e + 1 + k)
      <3>1. Dechunked[o] = Joined(SubSeq(Text, e + 2, e + 1 + k), Dechunked[e + 1 + k + 2])
        BY <2>3, ChunkAt
      <3> HIDE DEF e, k, text
      <3>2. e + 1 + k + 2 \in o + 1 .. n /\ e + 2 \in Nat \ {0} /\ e + 1 + k \in Int
            /\ e + 1 + k <= Len(Text)
        BY <1>0, <2>2, <2>3 DEF FrameAt
      <3>3. SubSeq(Text, e + 2, e + 1 + k) \in Seq(HttpBytes)
        BY <3>2, TextIs
      <3> QED BY <1>1, <3>1, <3>2, <3>3, JoinedBodies
    <2>4. CASE ~(e # 0 /\ IsSize(text) /\ k # 0 /\ FrameAt(e + 1 + k))
      <3>1. Dechunked[o] \in {Nothing, << >>}
        BY <2>4, ChunkAt
      <3> QED BY <2>1, <3>1
    <2> QED BY <2>3, <2>4
  <1> HIDE DEF n
  <1>2. 0 \in S
    <2> SUFFICES ASSUME NEW o \in n - 0 .. n PROVE Dechunked[o] \in BodyOrNothing
      OBVIOUS
    <2>1. o \in 0 .. n /\ o + 1 .. n = {}
      BY <1>0
    <2> QED BY <1>1, <2>1
  <1>3. ASSUME NEW m \in 1 .. n, m - 1 \in S PROVE m \in S
    <2> SUFFICES ASSUME NEW o \in n - m .. n PROVE Dechunked[o] \in BodyOrNothing
      OBVIOUS
    <2>1. \A i \in n - (m - 1) .. n : Dechunked[i] \in BodyOrNothing
      <3>1. \A i \in n - (m - 1) .. n : ~(i < 0)
        BY <1>0
      <3> QED BY <1>3, <3>1
    <2>2. o \in 0 .. n /\ \A i \in o + 1 .. n : i \in n - (m - 1) .. n
      BY <1>0
    <2> QED BY <1>1, <2>1, <2>2
  <1>4. 0 .. n \subseteq S
    <2> HIDE DEF S
    <2> QED BY <1>0, <1>2, <1>3, CountingUp
  <1>5. \A o \in 0 .. n : Dechunked[o] \in BodyOrNothing
    <2> SUFFICES ASSUME NEW o \in 0 .. n PROVE Dechunked[o] \in BodyOrNothing
      OBVIOUS
    <2>1. n \in S /\ n - n = 0
      BY <1>0, <1>4
    <2>2. o \in n - n .. n /\ ~(o < 0)
      BY <1>0
    <2> QED BY <2>1, <2>2
  <1> QED BY <1>5 DEF n

-----------------------------------------------------------------------------
(* The reader *)

ChunkPhases == {"size", "data", "frame", "trailer"}

\* What is known of each phase's own variables.
PhaseOK ==
    /\ phase # "done" => outcome = "none"
    /\ phase \in {"headers", "length", "toEnd"} => used = 0 /\ output = << >>
    /\ phase \notin {"headers", "done"} =>
          got >= stream.head /\ stream.head <= MaxHeaders /\ used <= Behind
    /\ phase \in ChunkPhases => stream.framing.kind = "chunked" /\ Len(output) <= MaxBody
    /\ phase = "length" => /\ stream.framing.kind = "length"
                           /\ stream.framing.n <= MaxBody /\ Behind <= stream.framing.n
    /\ phase = "toEnd" => stream.framing.kind = "toEnd"
    /\ phase = "trailer" => trailer <= used

\* The body is what is parsed already and what the rest of the text carries.
Parsed ==
    /\ phase = "size" => Dechunked[0] = Joined(output, Dechunked[used])
    /\ phase = "data" =>
          /\ size # 0 /\ Len(output) + size <= MaxBody
          /\ Dechunked[0] = IF FrameAt(used + size)
                            THEN Joined(output \o SubSeq(Text, used + 1, used + size),
                                        Dechunked[used + size + 2])
                            ELSE Nothing
    /\ phase = "frame" =>
          Dechunked[0] = IF FrameAt(used) THEN Joined(output, Dechunked[used + 2]) ELSE Nothing
    /\ phase = "trailer" =>
          Dechunked[0] = IF TrailersEnd[used] - (used - trailer) \in 1 .. MaxHeaders
                         THEN output ELSE Nothing

FetchInv ==
    /\ FetchTypeOK /\ StreamOK /\ PhaseOK /\ Parsed
    /\ AcceptedIsWhole /\ RefusedForCause /\ MemoryIsBounded

\* A stream that stays says what it did.
LEMMA StreamStays ==
  ASSUME stream' = stream
  PROVE  /\ Text' = Text /\ TrailersEnd' = TrailersEnd /\ Dechunked' = Dechunked
         /\ Declared' = Declared /\ Cause' = Cause /\ (StreamOK <=> StreamOK')
         /\ \A o : FrameAt(o)' <=> FrameAt(o)
  <1>1. Text' = Text
    BY DEF Text
  <1>2. TrailersEnd' = TrailersEnd
    <2>1. \A o, b : TrailersFrom(o, b)' = TrailersFrom(o, b)
      BY <1>1 DEF TrailersFrom
    <2> QED BY <1>1, <2>1 DEF TrailersEnd
  <1>3. Dechunked' = Dechunked
    <2>1. \A o, b : BodyFrom(o, b)' = BodyFrom(o, b)
      BY <1>1, <1>2 DEF BodyFrom
    <2> QED BY <1>1, <2>1 DEF Dechunked
  <1>4. Declared' = Declared
    BY <1>1, <1>3 DEF Declared
  <1>5. Cause' = Cause
    BY <1>1, <1>4 DEF Cause, HasLongLine
  <1>6. StreamOK <=> StreamOK'
    BY DEF StreamOK
  <1>7. \A o : FrameAt(o)' <=> FrameAt(o)
    BY <1>1 DEF FrameAt
  <1> QED BY <1>1, <1>2, <1>3, <1>4, <1>5, <1>6, <1>7

\* The numbers of an invariant state.
LEMMA FetchNumbers ==
  ASSUME FetchTypeOK, StreamOK
  PROVE  /\ got \in Nat /\ got <= stream.sent /\ stream.sent \in Nat /\ stream.head \in Nat
         /\ Behind \in Int /\ Behind = got - stream.head
         /\ used \in Nat /\ size \in Nat /\ trailer \in Nat
         /\ output \in Seq(HttpBytes) /\ Len(output) \in Nat
         /\ got >= stream.head => Behind \in 0 .. Len(Text)
         /\ Pending = Behind - used
         /\ Len(Text) \in Nat
         /\ MaxHeaders \in Nat /\ MaxHeaders # 0 /\ MaxBody \in Nat /\ Recv \in Nat /\ Recv # 0
  <1>1. /\ stream.sent \in Nat /\ stream.head \in Nat /\ Len(Text) \in Nat
        /\ Len(Text) = IF stream.sent >= stream.head THEN stream.sent - stream.head ELSE 0
    BY TextIs
  <1>2. got \in Nat /\ got <= stream.sent
    BY <1>1 DEF FetchTypeOK
  <1>3. Behind = got - stream.head /\ Pending = Behind - used
    BY DEF Behind, Pending
  <1>4. got >= stream.head => Behind \in 0 .. Len(Text)
    BY <1>1, <1>2, <1>3
  <1>5. output \in Seq(HttpBytes) /\ Len(output) \in Nat
    BY DEF FetchTypeOK
  <1> QED BY <1>1, <1>2, <1>3, <1>4, <1>5, FetchAssumption DEF FetchTypeOK

\* The line that has arrived is the text's.
LEMMA LineNow ==
  ASSUME FetchTypeOK, StreamOK, got >= stream.head, used <= Behind
  PROVE  /\ NextLineEnd \in Nat /\ used \in 0 .. Len(Text)
         /\ NextLineEnd # 0 =>
               /\ NextLineEnd = LineEnd(Text, used)
               /\ NextLineEnd \in used + 1 .. Behind - 1
               /\ Line = SubSeq(Text, used + 1, NextLineEnd - 1)
         /\ NextLineEnd = 0 /\ Behind = Len(Text) => LineEnd(Text, used) = 0
         /\ NextLineEnd = 0 /\ Pending > MaxHeaders => HasLongLine
  <1> DEFINE e == NextLineEnd
  <1>1. /\ Behind \in 0 .. Len(Text) /\ used \in Nat /\ Len(Text) \in Nat
        /\ Pending = Behind - used /\ MaxHeaders \in Nat
    BY FetchNumbers
  <1>2. SubSeq(stream.rest, 1, Behind) = SubSeq(Text, 1, Behind)
    <2>1. 1 \in Nat \ {0} /\ Behind \in Int /\ Behind <= Len(Text)
      BY <1>1
    <2> QED BY <2>1, TextIs
  <1>3. e = LineEnd(SubSeq(Text, 1, Behind), used)
    BY <1>2 DEF NextLineEnd
  <1>4. /\ e \in Nat
        /\ e # 0 => e = LineEnd(Text, used) /\ e \in used + 1 .. Behind - 1
        /\ Behind = Len(Text) => e = LineEnd(Text, used)
        /\ e = 0 => \A c \in 0 .. Behind : LineEnd(SubSeq(Text, 1, c), used) = 0
    BY <1>1, <1>3, LineEndInPart
  <1>5. e # 0 => Line = SubSeq(Text, used + 1, e - 1)
    <2> HIDE DEF e
    <2>1. e # 0 => used + 1 \in Nat \ {0} /\ e - 1 \in Int /\ e - 1 <= Len(Text)
      BY <1>1, <1>4
    <2>2. Line = SubSeq(stream.rest, used + 1, e - 1)
      BY DEF Line, e
    <2> QED BY <2>1, <2>2, TextIs
  <1>6. ASSUME e = 0, Pending > MaxHeaders PROVE HasLongLine
    <2>1. /\ used + MaxHeaders + 1 \in 0 .. Behind
          /\ used \in 0 .. Len(Text) - MaxHeaders - 1
      BY <1>1, <1>6
    <2>2. LineEnd(SubSeq(Text, 1, used + MaxHeaders + 1), used) = 0
      BY <1>4, <1>6, <2>1
    <2> QED BY <2>1, <2>2 DEF HasLongLine
  <1>7. used \in 0 .. Len(Text)
    BY <1>1
  <1> HIDE DEF e
  <1> QED BY <1>4, <1>5, <1>6, <1>7 DEF e

-----------------------------------------------------------------------------
(* The two ways to end *)

LEMMA FailKeeps ==
  ASSUME FetchInv, phase # "done", Fail, stream' = stream, expired' \in BOOLEAN,
         expired' \/ Cause
  PROVE  FetchInv'
  <1>1. /\ FetchTypeOK /\ StreamOK
        /\ phase' = "done" /\ outcome' = "refused" /\ UNCHANGED <<got, used, size, trailer, output>>
    BY DEF FetchInv, Fail, parsing
  <1>2. StreamOK' /\ Cause' = Cause
    BY <1>1, StreamStays
  <1>3. FetchTypeOK'
    BY <1>1 DEF FetchTypeOK, Behind
  <1> QED BY <1>1, <1>2, <1>3 DEF FetchInv, PhaseOK, ChunkPhases, Parsed, AcceptedIsWhole,
                                 RefusedForCause, MemoryIsBounded

LEMMA AcceptKeeps ==
  ASSUME FetchInv, phase # "done", NEW body \in Seq(HttpBytes), Accept(body),
         UNCHANGED <<stream, expired>>, Declared = body, Len(body) <= MaxBody
  PROVE  FetchInv'
  <1>1. /\ FetchTypeOK /\ StreamOK
        /\ phase' = "done" /\ output' = body /\ UNCHANGED <<got, used, size, trailer>>
        /\ outcome' = IF IsObject(body) THEN "accepted" ELSE "refused"
    BY DEF FetchInv, Accept
  <1>2. StreamOK' /\ Cause' = Cause /\ Declared' = Declared
    BY <1>1, StreamStays
  <1>3. FetchTypeOK'
    BY <1>1 DEF FetchTypeOK, Behind
  <1>4. AcceptedIsWhole'
    BY <1>1, <1>2, NothingIsNoBody DEF AcceptedIsWhole
  <1>5. RefusedForCause'
    BY <1>1, <1>2 DEF RefusedForCause, Cause
  <1> QED BY <1>1, <1>2, <1>3, <1>4, <1>5 DEF FetchInv, PhaseOK, ChunkPhases, Parsed,
                                             MemoryIsBounded

LEMMA FetchStarts == FetchInit => FetchInv
  <1> SUFFICES ASSUME FetchInit PROVE FetchInv
    OBVIOUS
  <1>1. stream \in Streams /\ got = 0 /\ phase = "headers" /\ used = 0 /\ size = 0 /\ trailer = 0
        /\ output = << >> /\ outcome = "none" /\ expired = FALSE
    BY DEF FetchInit
  <1>2. StreamOK
    BY <1>1, FetchAssumption DEF StreamOK
  <1>3. stream.sent \in Nat /\ MaxHeaders \in Nat /\ MaxBody \in Nat /\ Recv \in Nat
    BY <1>2, TextIs, FetchAssumption
  <1>4. FetchTypeOK
    <2>1. got \in 0 .. stream.sent /\ output \in Seq(HttpBytes)
      BY <1>1, <1>3
    <2>2. used \in Nat /\ size \in Nat /\ trailer \in Nat /\ ~(used > 0)
      BY <1>1
    <2> QED BY <1>1, <1>2, <2>1, <2>2 DEF FetchTypeOK, StreamOK
  <1>5. Held <= MaxHeaders + MaxBody + Recv
    BY <1>1, <1>3 DEF Held
  <1> QED BY <1>1, <1>2, <1>4, <1>5 DEF FetchInv, PhaseOK, ChunkPhases, Parsed, AcceptedIsWhole,
                                       RefusedForCause, MemoryIsBounded

LEMMA ReadKeeps == FetchInv /\ Read => FetchInv'
  <1> SUFFICES ASSUME FetchInv, Read PROVE FetchInv'
    OBVIOUS
  <1>1. FetchTypeOK /\ StreamOK /\ PhaseOK /\ Parsed /\ Hungry
    BY DEF FetchInv, Read
  <1>2. PICK n \in 1 .. Cap : got + n <= stream.sent /\ got' = got + n
    BY DEF Read
  <1>3. UNCHANGED <<stream, phase, used, size, trailer, output, outcome, expired>>
    BY DEF Read, parsing
  <1>4. /\ got \in Nat /\ got <= stream.sent /\ stream.sent \in Nat /\ stream.head \in Nat
        /\ Behind = got - stream.head
        /\ used \in Nat /\ size \in Nat /\ trailer \in Nat
        /\ output \in Seq(HttpBytes) /\ Len(output) \in Nat
        /\ Pending = Behind - used
        /\ MaxHeaders \in Nat /\ MaxHeaders # 0 /\ MaxBody \in Nat /\ Recv \in Nat /\ Recv # 0
    BY <1>1, FetchNumbers
  <1>5. /\ phase \in {"headers", "length", "toEnd", "size", "data", "frame", "trailer"}
        /\ stream.framing \in Framings
    BY <1>1 DEF Hungry, FetchTypeOK, StreamOK, StreamType
  <1>6. phase = "length" => stream.framing.n \in Nat
    BY <1>1, <1>5 DEF PhaseOK, Framings
  <1>7. /\ n \in Nat /\ n >= 1 /\ n <= Recv
        /\ phase = "length" => n <= stream.framing.n - Behind
        /\ phase = "data" => n <= size - Pending
        /\ phase = "frame" => n <= 2 - Pending
    <2>1. CASE phase = "length"
      <3> DEFINE m == stream.framing.n - Behind
      <3>1. m \in Int /\ Cap = IF m < Recv THEN m ELSE Recv
        BY <1>4, <1>6, <2>1 DEF Cap
      <3> HIDE DEF m
      <3>2. n \in Nat /\ n >= 1 /\ n <= Recv /\ n <= m
        BY <1>4, <3>1
      <3> QED BY <2>1, <3>2 DEF m
    <2>2. CASE phase = "data"
      BY <1>4, <2>2 DEF Cap
    <2>3. CASE phase = "frame"
      BY <1>4, <2>3 DEF Cap
    <2>4. CASE phase \notin {"length", "data", "frame"}
      BY <1>4, <2>4 DEF Cap
    <2> QED BY <2>1, <2>2, <2>3, <2>4
  <1>8. Behind' = Behind + n /\ Pending' = Pending + n
    BY <1>2, <1>3, <1>4, <1>7 DEF Behind, Pending
  <1>9. StreamOK' /\ Text' = Text /\ TrailersEnd' = TrailersEnd /\ Dechunked' = Dechunked
        /\ Cause' = Cause /\ Declared' = Declared /\ \A o : FrameAt(o)' <=> FrameAt(o)
    BY <1>1, <1>3, StreamStays
  <1>10. FetchTypeOK'
    <2>1. got' \in 0 .. stream.sent
      BY <1>2, <1>4, <1>7
    <2>2. used > 0 => used <= Behind'
      BY <1>1, <1>4, <1>7, <1>8 DEF FetchTypeOK
    <2> QED BY <1>1, <1>3, <2>1, <2>2 DEF FetchTypeOK
  <1>11. PhaseOK'
    <2>1. ASSUME phase \notin {"headers", "done"}
          PROVE  got' >= stream.head /\ used <= Behind'
      <3>1. got >= stream.head /\ used <= Behind
        BY <1>1, <2>1 DEF PhaseOK
      <3> QED BY <1>2, <1>4, <1>7, <1>8, <3>1
    <2>2. phase = "length" => Behind' <= stream.framing.n
      BY <1>4, <1>6, <1>7, <1>8
    <2> QED BY <1>1, <1>3, <2>1, <2>2 DEF PhaseOK, ChunkPhases
  <1>12. Parsed'
    BY <1>1, <1>3, <1>9 DEF Parsed, Joined
  <1>13. MemoryIsBounded'
    <2>1. CASE phase = "headers"
      <3>1. got <= MaxHeaders
        BY <1>1, <1>4, <2>1 DEF Hungry, TooLong
      <3>2. Held' = got'
        BY <1>3, <2>1 DEF Held
      <3> QED BY <1>2, <1>4, <1>7, <3>1, <3>2 DEF MemoryIsBounded
    <2>2. CASE phase # "headers"
      <3>0. /\ Pending \in Int /\ n \in Nat /\ Len(output) \in Nat /\ size \in Nat
            /\ MaxHeaders \in Nat /\ MaxHeaders >= 1 /\ MaxBody \in Nat
            /\ Recv \in Nat /\ Recv >= 1
        BY <1>4, <1>7
      <3>1. Held' = Pending + n + Len(output)
        BY <1>3, <1>8, <2>2 DEF Held
      <3>2. CASE phase = "length"
        <4>1. output = << >> /\ used = 0 /\ stream.framing.n <= MaxBody
          BY <1>1, <3>2 DEF PhaseOK
        <4>2. Len(output) = 0
          BY <4>1
        <4> QED BY <1>4, <1>6, <1>7, <3>1, <3>2, <4>1, <4>2 DEF MemoryIsBounded
      <3>3. CASE phase = "toEnd"
        <4>1. output = << >> /\ used = 0 /\ Behind <= MaxBody
          BY <1>1, <1>4, <3>3 DEF PhaseOK, Hungry, TooLong
        <4>2. Len(output) = 0
          BY <4>1
        <4> QED BY <1>4, <1>7, <3>1, <4>1, <4>2 DEF MemoryIsBounded
      <3>4. CASE phase \in {"size", "trailer"}
        <4>1. Pending <= MaxHeaders /\ Len(output) <= MaxBody
          BY <1>1, <1>4, <3>4 DEF PhaseOK, ChunkPhases, Hungry, TooLong
        <4>2. Held' <= MaxHeaders + MaxBody + Recv
          BY <1>4, <1>7, <3>1, <4>1
        <4> QED BY <4>2 DEF MemoryIsBounded
      <3>5. CASE phase = "data"
        <4>1. Len(output) + size <= MaxBody /\ n <= size - Pending
          BY <1>1, <1>7, <3>5 DEF Parsed
        <4>2. Pending + n <= size
          BY <1>4, <1>7, <4>1
        <4> QED BY <3>0, <3>1, <4>1, <4>2 DEF MemoryIsBounded
      <3>6. CASE phase = "frame"
        <4>1. Len(output) <= MaxBody /\ n <= 2 - Pending
          BY <1>1, <1>7, <3>6 DEF PhaseOK, ChunkPhases
        <4>2. Pending + n <= 2
          BY <3>0, <4>1
        <4>3. 2 <= MaxHeaders + Recv
          BY <3>0
        <4> QED BY <3>0, <3>1, <4>1, <4>2, <4>3 DEF MemoryIsBounded
      <3> QED BY <1>5, <2>2, <3>2, <3>3, <3>4, <3>5, <3>6
    <2> QED BY <2>1, <2>2
  <1>14. AcceptedIsWhole' /\ RefusedForCause'
    BY <1>1, <1>3, <1>5 DEF PhaseOK, AcceptedIsWhole, RefusedForCause
  <1> QED BY <1>9, <1>10, <1>11, <1>12, <1>13, <1>14 DEF FetchInv

LEMMA StepKeeps ==
  ASSUME FetchInv, phase # "done", phase' # "done", UNCHANGED <<stream, got, outcome, expired>>,
         FetchTypeOK', PhaseOK', Parsed', Held \in Int, Held' \in Int, Held' <= Held
  PROVE  FetchInv'
  <1>1. StreamOK' /\ outcome = "none"
    BY StreamStays DEF FetchInv, PhaseOK
  <1>2. AcceptedIsWhole' /\ RefusedForCause'
    BY <1>1 DEF AcceptedIsWhole, RefusedForCause
  <1>3. MemoryIsBounded'
    <2>1. Held <= MaxHeaders + MaxBody + Recv
      BY DEF FetchInv, MemoryIsBounded
    <2>2. MaxHeaders + MaxBody + Recv \in Int
      BY FetchAssumption
    <2>3. Held' <= MaxHeaders + MaxBody + Recv
      <3> DEFINE h == Held
                 i == Held'
                 m == MaxHeaders + MaxBody + Recv
      <3>1. h \in Int /\ i \in Int /\ m \in Int /\ i <= h /\ h <= m
        BY <2>1, <2>2
      <3> HIDE DEF h, i, m
      <3>2. i <= m
        BY <3>1
      <3> QED BY <3>2 DEF i, m
    <2> QED BY <2>3 DEF MemoryIsBounded
  <1> QED BY <1>1, <1>2, <1>3 DEF FetchInv

\* Behind the headers, the announced body is a matter of the text.
LEMMA DeclaredNow ==
  ASSUME FetchInv, phase \notin {"headers", "done"}
  PROVE  /\ FetchTypeOK /\ StreamOK
         /\ got >= stream.head /\ Behind \in 0 .. Len(Text)
         /\ Len(Text) = stream.sent - stream.head
         /\ used <= Behind
         /\ phase \in ChunkPhases => Declared = Dechunked[0]
         /\ phase = "length" =>
               /\ stream.framing.n \in Nat /\ stream.framing.n <= MaxBody
               /\ Behind <= stream.framing.n
               /\ Declared = IF stream.framing.n <= Len(Text)
                             THEN SubSeq(Text, 1, stream.framing.n) ELSE Nothing
         /\ phase = "toEnd" => Declared = IF stream.closes THEN Text ELSE Nothing
  <1>1. FetchTypeOK /\ StreamOK /\ PhaseOK
    BY DEF FetchInv
  <1>2. got >= stream.head /\ used <= Behind
    BY <1>1 DEF PhaseOK
  <1>3. /\ got \in Nat /\ got <= stream.sent /\ stream.sent \in Nat /\ stream.head \in Nat
        /\ Behind \in 0 .. Len(Text)
    BY <1>1, <1>2, FetchNumbers
  <1>4. stream.sent >= stream.head /\ Len(Text) = stream.sent - stream.head
    BY <1>1, <1>2, <1>3, TextIs
  <1>5. ~(stream.sent < stream.head)
    BY <1>3, <1>4
  <1>6. stream.framing \in Framings
    BY <1>1 DEF FetchTypeOK, StreamType
  <1>7. phase \in ChunkPhases => Declared = Dechunked[0]
    BY <1>1, <1>5 DEF Declared, PhaseOK
  <1>8. phase = "length" =>
               /\ stream.framing.n \in Nat /\ stream.framing.n <= MaxBody
               /\ Behind <= stream.framing.n
               /\ Declared = IF stream.framing.n <= Len(Text)
                             THEN SubSeq(Text, 1, stream.framing.n) ELSE Nothing
    BY <1>1, <1>5, <1>6 DEF Declared, PhaseOK, Framings
  <1>9. phase = "toEnd" => Declared = IF stream.closes THEN Text ELSE Nothing
    BY <1>1, <1>5 DEF Declared, PhaseOK
  <1> QED BY <1>1, <1>2, <1>3, <1>4, <1>7, <1>8, <1>9

\* Nothing comes behind an unfinished text: there is no body.
LEMMA EndedEarly ==
  ASSUME FetchInv, Hungry, phase # "toEnd", got = stream.sent
  PROVE  Declared = Nothing
  <1>1. FetchTypeOK /\ StreamOK /\ PhaseOK /\ Parsed
    BY DEF FetchInv
  <1>2. /\ stream.sent \in Nat /\ stream.head \in Nat /\ Behind = got - stream.head
        /\ used \in Nat /\ size \in Nat /\ trailer \in Nat /\ Pending = Behind - used
        /\ output \in Seq(HttpBytes)
    BY <1>1, FetchNumbers
  <1>3. CASE phase = "headers"
    <2>1. stream.sent < stream.head
      BY <1>3, <1>2 DEF Hungry
    <2> QED BY <2>1 DEF Declared
  <1>4. CASE phase # "headers"
    <2>1. phase \in {"length", "size", "data", "frame", "trailer"}
      BY <1>4 DEF Hungry
    <2>2. /\ got >= stream.head /\ Len(Text) = stream.sent - stream.head /\ used <= Behind
          /\ phase \in ChunkPhases => Declared = Dechunked[0]
      BY <2>1, DeclaredNow
    <2>3. Behind = Len(Text)
      BY <1>2, <2>2
    <2>4. CASE phase = "length"
      <3>1. /\ stream.framing.n \in Nat
            /\ Declared = IF stream.framing.n <= Len(Text)
                          THEN SubSeq(Text, 1, stream.framing.n) ELSE Nothing
        BY <2>4, DeclaredNow
      <3>2. Behind < stream.framing.n /\ Behind \in Int
        BY <1>2, <2>4 DEF Hungry
      <3>3. ~(stream.framing.n <= Len(Text))
        BY <2>3, <3>1, <3>2
      <3> QED BY <3>1, <3>3
    <2>5. CASE phase \in {"size", "trailer"}
      <3>1. NextLineEnd = 0
        BY <2>5 DEF Hungry
      <3>2. LineEnd(Text, used) = 0 /\ used \in 0 .. Len(Text)
        BY <1>1, <2>2, <2>3, <3>1, LineNow
      <3>3. CASE phase = "size"
        <4>1. Dechunked[used] = Nothing
          BY <1>1, <3>2, ChunkAt
        <4>2. Dechunked[0] = Nothing
          BY <1>1, <3>3, <4>1 DEF Parsed, Joined
        <4> QED BY <2>2, <3>3, <4>2 DEF ChunkPhases
      <3>4. CASE phase = "trailer"
        <4>1. TrailersEnd[used] = 0
          BY <1>1, <3>2, TrailersAt
        <4>2. trailer <= used
          BY <1>1, <3>4 DEF PhaseOK
        <4>3. TrailersEnd[used] - (used - trailer) \notin 1 .. MaxHeaders
          BY <1>2, <4>1, <4>2, FetchAssumption
        <4>4. Dechunked[0] = Nothing
          BY <1>1, <3>4, <4>3 DEF Parsed
        <4> QED BY <2>2, <3>4, <4>4 DEF ChunkPhases
      <3> QED BY <2>5, <3>3, <3>4
    <2>6. CASE phase = "data"
      <3>1. ~(Pending >= size)
        BY <2>6 DEF Hungry, ChunkArrived
      <3>2. ~(used + size + 2 <= Len(Text))
        BY <1>2, <2>2, <2>3, <3>1
      <3>3. Dechunked[0] = Nothing
        BY <1>1, <2>6, <3>2 DEF Parsed, FrameAt
      <3> QED BY <2>2, <2>6, <3>3 DEF ChunkPhases
    <2>7. CASE phase = "frame"
      <3>1. Pending < 2
        BY <2>7 DEF Hungry
      <3>2. ~(used + 2 <= Len(Text))
        BY <1>2, <2>2, <2>3, <3>1
      <3>3. Dechunked[0] = Nothing
        BY <1>1, <2>7, <3>2 DEF Parsed, FrameAt
      <3> QED BY <2>2, <2>7, <3>3 DEF ChunkPhases
    <2> QED BY <2>1, <2>4, <2>5, <2>6, <2>7
  <1> QED BY <1>3, <1>4

LEMMA EndOfStreamKeeps == FetchInv /\ EndOfStream => FetchInv'
  <1> SUFFICES ASSUME FetchInv, EndOfStream PROVE FetchInv'
    OBVIOUS
  <1>1. /\ Hungry /\ got = stream.sent /\ stream.closes /\ UNCHANGED <<stream, expired>>
        /\ expired \in BOOLEAN /\ phase # "done"
    BY DEF EndOfStream, FetchInv, FetchTypeOK, Hungry
  <1>2. CASE phase # "toEnd" /\ Fail
    <2>1. Cause
      BY <1>1, <1>2, EndedEarly DEF Cause
    <2> QED BY <1>1, <1>2, <2>1, FailKeeps
  <1>3. CASE phase = "toEnd" /\ Accept(SubSeq(stream.rest, 1, Behind))
    <2>1. /\ FetchTypeOK /\ StreamOK
          /\ Len(Text) = stream.sent - stream.head /\ Behind \in 0 .. Len(Text)
          /\ Declared = Text
      BY <1>1, <1>3, DeclaredNow
    <2>2. Behind = Len(Text) /\ Text \in Seq(HttpBytes) /\ Len(Text) \in Nat
      BY <1>1, <2>1, TextIs DEF Behind
    <2>3. SubSeq(stream.rest, 1, Behind) = SubSeq(Text, 1, Behind)
      <3>1. 1 \in Nat \ {0} /\ Behind \in Int /\ Behind <= Len(Text)
        BY <2>2
      <3> QED BY <2>1, <3>1, TextIs
    <2>4. SubSeq(Text, 1, Behind) = Text
      <3> DEFINE t == Text
      <3>1. t \in Seq(HttpBytes) /\ Behind = Len(t)
        BY <2>2
      <3> HIDE DEF t
      <3>2. SubSeq(t, 1, Len(t)) = t
        BY <3>1
      <3> QED BY <3>1, <3>2 DEF t
    <2>5. Len(Text) <= MaxBody
      <3>1. ~(Behind > MaxBody)
        BY <1>1, <1>3 DEF Hungry, TooLong
      <3> QED BY <2>2, <3>1, FetchAssumption
    <2>6. Accept(Text)
      BY <1>3, <2>3, <2>4
    <2> QED BY <1>1, <2>1, <2>2, <2>5, <2>6, AcceptKeeps
  <1> QED BY <1>2, <1>3 DEF EndOfStream

LEMMA ExpireKeeps == FetchInv /\ Expire => FetchInv'
  <1> SUFFICES ASSUME FetchInv, Expire PROVE FetchInv'
    OBVIOUS
  <1>1. Fail /\ stream' = stream /\ expired' /\ expired' \in BOOLEAN /\ phase # "done"
    BY DEF Expire, Hungry
  <1> QED BY <1>1, FailKeeps

LEMMA OverflowKeeps == FetchInv /\ Overflow => FetchInv'
  <1> SUFFICES ASSUME FetchInv, Overflow PROVE FetchInv'
    OBVIOUS
  <1>1. /\ TooLong /\ Fail /\ UNCHANGED <<stream, expired>> /\ expired \in BOOLEAN
        /\ FetchTypeOK /\ StreamOK /\ PhaseOK
    BY DEF Overflow, FetchInv, FetchTypeOK
  <1>2. CASE phase = "headers"
    <2>1. got < stream.head /\ got > MaxHeaders
      BY <1>1, <1>2 DEF TooLong
    <2>2. got \in Nat /\ stream.head \in Nat /\ MaxHeaders \in Nat
      BY <1>1, FetchNumbers
    <2>3. Cause
      BY <2>1, <2>2 DEF Cause
    <2> QED BY <1>1, <1>2, <2>3, FailKeeps
  <1>3. CASE phase \in {"size", "trailer"}
    <2>1. NextLineEnd = 0 /\ Pending > MaxHeaders
      BY <1>1, <1>3 DEF TooLong
    <2>2. got >= stream.head /\ used <= Behind
      BY <1>3, DeclaredNow
    <2>3. HasLongLine
      BY <1>1, <2>1, <2>2, LineNow
    <2>4. stream.framing.kind = "chunked"
      BY <1>1, <1>3 DEF PhaseOK, ChunkPhases
    <2>5. Cause
      BY <2>3, <2>4 DEF Cause
    <2> QED BY <1>1, <1>3, <2>5, FailKeeps
  <1>4. CASE phase = "toEnd"
    <2>1. Behind > MaxBody
      BY <1>1, <1>4 DEF TooLong
    <2>2. Behind \in 0 .. Len(Text) /\ Declared \in {Text, Nothing}
      BY <1>4, DeclaredNow
    <2>3. Len(Text) > MaxBody
      BY <1>1, <2>1, <2>2, FetchAssumption, TextIs
    <2>4. Cause
      BY <2>2, <2>3 DEF Cause
    <2> QED BY <1>1, <1>4, <2>4, FailKeeps
  <1> QED BY <1>1, <1>2, <1>3, <1>4 DEF TooLong

LEMMA HeadersEndKeeps == FetchInv /\ HeadersEnd => FetchInv'
  <1> SUFFICES ASSUME FetchInv, HeadersEnd PROVE FetchInv'
    OBVIOUS
  <1> DEFINE f == stream.framing
             good == /\ stream.head <= MaxHeaders
                     /\ f.kind # "bad"
                     /\ f.kind = "length" => Fits(f.n)
  <1>1. /\ phase = "headers" /\ got >= stream.head /\ UNCHANGED <<stream, expired>>
        /\ FetchTypeOK /\ StreamOK /\ PhaseOK /\ MemoryIsBounded /\ expired \in BOOLEAN
        /\ \/ ~good /\ Fail
           \/ /\ good
              /\ GoTo(IF f.kind = "chunked" THEN "size" ELSE f.kind)
              /\ UNCHANGED parsing
    BY DEF HeadersEnd, FetchInv, FetchTypeOK
  <1>2. /\ got \in Nat /\ got <= stream.sent /\ stream.sent \in Nat /\ stream.head \in Nat
        /\ Behind = got - stream.head /\ Behind \in 0 .. Len(Text) /\ Len(Text) \in Nat
        /\ MaxHeaders \in Nat /\ MaxBody \in Nat
    BY <1>1, FetchNumbers
  <1>3. f \in Framings
    BY <1>1 DEF FetchTypeOK, StreamType
  <1>4. /\ f.kind \in {"bad", "chunked", "toEnd", "length"}
        /\ f.kind = "length" => f.n \in Nat
    BY <1>3 DEF Framings
  <1>5. ~(stream.sent < stream.head)
    BY <1>1, <1>2
  <1>6. CASE ~good /\ Fail
    <2>1. CASE ~(stream.head <= MaxHeaders)
      <3>1. Cause
        BY <1>2, <2>1 DEF Cause
      <3> QED BY <1>1, <1>6, <3>1, FailKeeps
    <2>2. CASE f.kind = "bad"
      <3>1. Declared = Nothing
        BY <2>2 DEF Declared
      <3> QED BY <1>1, <1>6, <3>1, FailKeeps DEF Cause
    <2>3. CASE f.kind = "length" /\ ~Fits(f.n)
      <3>1. Declared = IF f.n <= Len(Text) THEN SubSeq(Text, 1, f.n) ELSE Nothing
        BY <1>5, <2>3 DEF Declared
      <3>2. CASE ~(f.n <= Len(Text))
        BY <1>1, <1>6, <3>1, <3>2, FailKeeps DEF Cause
      <3>3. CASE f.n <= Len(Text) /\ ~(f.n <= MaxBody)
        <4>1. 1 \in Nat \ {0} /\ f.n \in Int /\ f.n <= Len(Text)
          BY <1>4, <2>3, <3>3
        <4>2. Len(SubSeq(Text, 1, f.n)) = IF 1 <= f.n THEN f.n - 1 + 1 ELSE 0
          BY <1>1, <4>1, TextIs
        <4>3. Len(Declared) > MaxBody
          BY <1>2, <1>4, <2>3, <3>1, <3>3, <4>2
        <4> QED BY <1>1, <1>6, <4>3, FailKeeps DEF Cause
      <3>4. CASE ~(Behind <= f.n)
        <4>1. Len(Text) > f.n
          BY <1>2, <1>4, <2>3, <3>4
        <4> QED BY <1>1, <1>6, <2>3, <4>1, FailKeeps DEF Cause
      <3> QED BY <2>3, <3>2, <3>3, <3>4 DEF Fits
    <2> QED BY <1>6, <2>1, <2>2, <2>3
  <1>7. CASE good /\ GoTo(IF f.kind = "chunked" THEN "size" ELSE f.kind) /\ UNCHANGED parsing
    <2>1. /\ UNCHANGED <<got, used, size, trailer, output, outcome>>
          /\ used = 0 /\ output = << >> /\ outcome = "none"
          /\ phase' = IF f.kind = "chunked" THEN "size" ELSE f.kind
      BY <1>1, <1>7 DEF GoTo, parsing, PhaseOK
    <2>2. phase' \in {"size", "length", "toEnd"}
      BY <1>4, <1>7, <2>1
    <2>3. Behind' = Behind /\ Pending' = Behind /\ Dechunked' = Dechunked
      BY <1>1, <1>2, <2>1, StreamStays DEF Behind, Pending
    <2>4. FetchTypeOK'
      BY <1>1, <2>1, <2>2 DEF FetchTypeOK, Behind
    <2>5. PhaseOK'
      <3>1. phase' = "length" => f.kind = "length" /\ f.n <= MaxBody /\ Behind <= f.n
        BY <1>7, <2>1 DEF Fits
      <3>2. /\ phase' = "size" => f.kind = "chunked"
            /\ phase' = "toEnd" => f.kind = "toEnd"
        BY <1>4, <1>7, <2>1
      <3>3. Len(<< >>) <= MaxBody /\ 0 <= Behind
        BY <1>2
      <3> QED BY <1>1, <1>7, <2>1, <2>2, <2>3, <3>1, <3>2, <3>3 DEF PhaseOK, ChunkPhases
    <2>6. Parsed'
      <3>1. 0 \in 0 .. Len(Text)
        BY <1>2
      <3>2. Dechunked[0] \in BodyOrNothing
        BY <1>1, <3>1, DechunkedTypes
      <3>3. Joined(<< >>, Dechunked[0]) = Dechunked[0]
        <4>1. << >> \in Seq(HttpBytes)
          OBVIOUS
        <4> QED BY <3>2, <4>1, JoinedBodies
      <3> QED BY <2>1, <2>2, <2>3, <3>3 DEF Parsed, Joined
    <2>7. Held = got /\ Held' = Behind + 0
      <3>1. Len(<< >>) = 0
        OBVIOUS
      <3> QED BY <1>1, <2>1, <2>2, <2>3, <3>1 DEF Held
    <2>8. Held \in Int /\ Held' \in Int /\ Held' <= Held
      BY <1>2, <2>7
    <2>9. phase # "done" /\ phase' # "done"
      BY <1>1, <2>2
    <2> QED BY <1>1, <2>1, <2>4, <2>5, <2>6, <2>8, <2>9, StepKeeps
  <1> QED BY <1>1, <1>6, <1>7

LEMMA LengthEndsKeeps == FetchInv /\ LengthEnds => FetchInv'
  <1> SUFFICES ASSUME FetchInv, LengthEnds PROVE FetchInv'
    OBVIOUS
  <1> DEFINE n == stream.framing.n
  <1>1. /\ phase = "length" /\ Behind >= n /\ UNCHANGED <<stream, expired>>
        /\ Accept(SubSeq(stream.rest, 1, Behind)) /\ FetchTypeOK /\ StreamOK
    BY DEF LengthEnds, FetchInv
  <1>2. /\ Behind \in 0 .. Len(Text) /\ n \in Nat /\ n <= MaxBody /\ Behind <= n
        /\ Declared = IF n <= Len(Text) THEN SubSeq(Text, 1, n) ELSE Nothing
    BY <1>1, DeclaredNow
  <1>3. Behind = n /\ n <= Len(Text) /\ MaxBody \in Nat
    BY <1>1, <1>2, FetchNumbers
  <1>4. 1 \in Nat \ {0} /\ n \in Int
    BY <1>2
  <1> HIDE DEF n
  <1>5. /\ SubSeq(stream.rest, 1, n) = SubSeq(Text, 1, n)
        /\ SubSeq(Text, 1, n) \in Seq(HttpBytes)
        /\ Len(SubSeq(Text, 1, n)) = IF 1 <= n THEN n - 1 + 1 ELSE 0
    BY <1>1, <1>3, <1>4, TextIs
  <1>6. Len(SubSeq(Text, 1, n)) <= MaxBody
    BY <1>2, <1>3, <1>5
  <1>7. Accept(SubSeq(Text, 1, n)) /\ Declared = SubSeq(Text, 1, n) /\ phase # "done"
    BY <1>1, <1>2, <1>3, <1>5
  <1> QED BY <1>1, <1>5, <1>6, <1>7, AcceptKeeps

LEMMA SizeLineKeeps == FetchInv /\ SizeLine => FetchInv'
  <1> SUFFICES ASSUME FetchInv, SizeLine PROVE FetchInv'
    OBVIOUS
  <1> DEFINE text == SizeText(Line)
             k == Value(text)
             e == NextLineEnd
             fits == IsSize(text) /\ Len(output) + k <= MaxBody
  <1>1. /\ phase = "size" /\ e # 0 /\ UNCHANGED <<stream, expired>>
        /\ FetchTypeOK /\ StreamOK /\ PhaseOK /\ Parsed /\ expired \in BOOLEAN
        /\ \/ ~fits /\ Fail
           \/ /\ fits
              /\ GoTo(IF k = 0 THEN "trailer" ELSE "data")
              /\ size' = k
              /\ used' = e + 1
              /\ trailer' = 0
              /\ UNCHANGED output
    BY DEF SizeLine, FetchInv, FetchTypeOK
  <1>2. /\ got >= stream.head /\ used <= Behind /\ Declared = Dechunked[0]
        /\ Behind \in 0 .. Len(Text)
    BY <1>1, DeclaredNow DEF ChunkPhases
  <1>3. /\ e = LineEnd(Text, used) /\ e \in used + 1 .. Behind - 1
        /\ Line = SubSeq(Text, used + 1, e - 1) /\ used \in 0 .. Len(Text)
    BY <1>1, <1>2, LineNow
  <1>4. IsSize(text) => k \in Nat
    BY <1>1, <1>3, LineAt
  <1>5. /\ ~IsSize(text) => Dechunked[used] = Nothing
        /\ IsSize(text) /\ k = 0 =>
             Dechunked[used] = IF TrailersEnd[e + 1] - (e + 1) \in 1 .. MaxHeaders
                               THEN << >> ELSE Nothing
        /\ IsSize(text) /\ k # 0 =>
             Dechunked[used] = IF FrameAt(e + 1 + k)
                               THEN Joined(SubSeq(Text, e + 2, e + 1 + k),
                                           Dechunked[e + 1 + k + 2])
                               ELSE Nothing
    BY <1>1, <1>3, ChunkAt
  <1>6. Dechunked[0] = Joined(output, Dechunked[used])
    BY <1>1 DEF Parsed
  <1>7. /\ got \in Nat /\ stream.head \in Nat /\ used \in Nat /\ Len(Text) \in Nat
        /\ output \in Seq(HttpBytes) /\ Len(output) \in Nat /\ Behind = got - stream.head
        /\ Pending = Behind - used /\ MaxBody \in Nat /\ MaxHeaders \in Nat
    BY <1>1, FetchNumbers
  <1> HIDE DEF text, k, e
  <1>8. ASSUME IsSize(text), k # 0, FrameAt(e + 1 + k)
        PROVE  LET chunk == SubSeq(Text, e + 2, e + 1 + k)
               IN  /\ chunk \in Seq(HttpBytes) /\ Len(chunk) = k
                   /\ Dechunked[e + 1 + k + 2] \in BodyOrNothing
                   /\ Dechunked[0] = Joined(output \o chunk, Dechunked[e + 1 + k + 2])
    <2> DEFINE chunk == SubSeq(Text, e + 2, e + 1 + k)
               d == Dechunked[e + 1 + k + 2]
    <2>1. /\ k \in Nat /\ e \in Nat /\ e + 1 + k + 2 \in 0 .. Len(Text)
          /\ e + 2 \in Nat \ {0} /\ e + 1 + k \in Int /\ e + 1 + k <= Len(Text)
          /\ e + 2 <= e + 1 + k /\ e + 1 + k - (e + 2) + 1 = k
      <3>1. k \in Nat /\ k # 0 /\ e \in Nat /\ Len(Text) \in Nat
        BY <1>3, <1>4, <1>7, <1>8
      <3>2. e + 1 + k + 2 <= Len(Text)
        BY <1>8 DEF FrameAt
      <3> QED BY <3>1, <3>2
    <2>2. chunk \in Seq(HttpBytes) /\ Len(chunk) = k
      BY <1>1, <2>1, TextIs
    <2>3. d \in BodyOrNothing
      BY <1>1, <2>1, DechunkedTypes
    <2>4. Dechunked[0] = Joined(output, Joined(chunk, d))
      BY <1>5, <1>6, <1>8
    <2> HIDE DEF chunk, d
    <2>5. Joined(output \o chunk, d) = Joined(output, Joined(chunk, d))
      BY <1>7, <2>2, <2>3, JoinedBodies
    <2> QED BY <2>2, <2>3, <2>4, <2>5 DEF chunk, d
  <1>9. CASE ~fits /\ Fail
    <2>1. CASE ~IsSize(text)
      <3>1. Declared = Nothing
        BY <1>2, <1>5, <1>6, <2>1 DEF Joined
      <3> QED BY <1>1, <1>9, <3>1, FailKeeps DEF Cause
    <2>2. CASE IsSize(text) /\ ~(Len(output) + k <= MaxBody)
      <3>1. k # 0
        <4>1. Len(output) <= MaxBody
          BY <1>1 DEF PhaseOK, ChunkPhases
        <4> QED BY <1>4, <1>7, <2>2, <4>1
      <3>2. CASE ~FrameAt(e + 1 + k)
        <4>1. Declared = Nothing
          BY <1>2, <1>5, <1>6, <2>2, <3>1, <3>2 DEF Joined
        <4> QED BY <1>1, <1>9, <4>1, FailKeeps DEF Cause
      <3>3. CASE FrameAt(e + 1 + k)
        <4> DEFINE chunk == SubSeq(Text, e + 2, e + 1 + k)
                   d == Dechunked[e + 1 + k + 2]
                   o == output \o chunk
        <4>1. /\ chunk \in Seq(HttpBytes) /\ Len(chunk) = k /\ d \in BodyOrNothing
              /\ Dechunked[0] = Joined(o, d)
          BY <1>8, <2>2, <3>1, <3>3
        <4> HIDE DEF chunk, d
        <4>2. o \in Seq(HttpBytes) /\ Len(o) = Len(output) + k
          <5>1. output \in Seq(HttpBytes) /\ chunk \in Seq(HttpBytes) /\ Len(chunk) = k
            BY <1>7, <4>1
          <5> QED BY <5>1
        <4> HIDE DEF o
        <4>3. /\ Joined(o, d) = Nothing <=> d = Nothing
              /\ d # Nothing => Len(Joined(o, d)) >= Len(o) /\ Len(Joined(o, d)) \in Nat
          BY <4>1, <4>2, JoinedBodies
        <4>4. Declared = Nothing \/ Len(Declared) > MaxBody
          <5>1. Len(o) > MaxBody /\ Len(o) \in Nat
            BY <1>4, <1>7, <2>2, <4>2
          <5>2. d # Nothing => Len(Joined(o, d)) > MaxBody
            BY <1>7, <4>3, <5>1
          <5> QED BY <1>2, <4>1, <4>3, <5>2
        <4> QED BY <1>1, <1>9, <4>4, FailKeeps DEF Cause
      <3> QED BY <3>2, <3>3
    <2> QED BY <1>9, <2>1, <2>2
  <1>10. CASE /\ fits
              /\ GoTo(IF k = 0 THEN "trailer" ELSE "data")
              /\ size' = k /\ used' = e + 1 /\ trailer' = 0 /\ UNCHANGED output
    <2>1. /\ UNCHANGED <<got, outcome, output>> /\ k \in Nat /\ e \in Nat
          /\ phase' = IF k = 0 THEN "trailer" ELSE "data"
          /\ used' \in Nat /\ used' > used /\ used' <= Behind
      <3>1. /\ UNCHANGED <<got, outcome, output>> /\ k \in Nat
            /\ phase' = IF k = 0 THEN "trailer" ELSE "data"
        BY <1>4, <1>10 DEF GoTo
      <3>2. used' = e + 1 /\ used \in Nat /\ Behind \in Int /\ e \in used + 1 .. Behind - 1
        BY <1>2, <1>3, <1>7, <1>10
      <3>3. e \in Nat /\ used' \in Nat /\ used' > used /\ used' <= Behind
        BY <3>2
      <3> QED BY <3>1, <3>3
    <2>2. Behind' = Behind /\ Pending' = Behind - used'
      BY <1>1, <1>7, <2>1 DEF Behind, Pending
    <2>3. /\ Dechunked' = Dechunked /\ TrailersEnd' = TrailersEnd /\ Text' = Text
          /\ \A o : FrameAt(o)' <=> FrameAt(o)
      BY <1>1, StreamStays
    <2>4. FetchTypeOK'
      <3>1. used' > 0 => used' <= Behind'
        BY <2>1, <2>2
      <3>2. size' \in Nat /\ trailer' \in Nat
        BY <1>10, <2>1
      <3> QED BY <1>1, <2>1, <3>1, <3>2 DEF FetchTypeOK
    <2>5. PhaseOK'
      <3>1. trailer' <= used'
        BY <1>10, <2>1
      <3>2. used' <= Behind' /\ outcome = "none"
        BY <1>1, <2>1, <2>2 DEF PhaseOK
      <3> QED BY <1>1, <2>1, <3>1, <3>2 DEF PhaseOK, ChunkPhases
    <2>6. Parsed'
      <3>1. CASE k = 0
        <4>1. phase' = "trailer"
          BY <2>1, <3>1
        <4>2. Dechunked[0] = IF TrailersEnd[e + 1] - (e + 1) \in 1 .. MaxHeaders
                             THEN output ELSE Nothing
          <5>1. Joined(output, << >>) = output /\ Joined(output, Nothing) = Nothing
            <6>1. << >> # Nothing
              <7>1. << >> \in Seq(HttpBytes)
                OBVIOUS
              <7> QED BY <7>1, NothingIsNoBody
            <6>2. output \o << >> = output
              BY <1>7
            <6> QED BY <6>1, <6>2 DEF Joined
          <5> QED BY <1>5, <1>6, <1>10, <3>1, <5>1
        <4>3. used' - trailer' = e + 1
          BY <1>10, <2>1
        <4>4. TrailersEnd'[used'] - (used' - trailer') = TrailersEnd[e + 1] - (e + 1)
          BY <1>10, <2>3, <4>3
        <4>5. Dechunked'[0] = IF TrailersEnd'[used'] - (used' - trailer') \in 1 .. MaxHeaders
                              THEN output' ELSE Nothing
          BY <2>1, <2>3, <4>2, <4>4
        <4> QED BY <4>1, <4>5 DEF Parsed
      <3>2. CASE k # 0
        <4>1. phase' = "data" /\ size' # 0 /\ Len(output) + size' <= MaxBody
          BY <1>10, <2>1, <3>2
        <4>2. used' + size' = e + 1 + k /\ used' + 1 = e + 2
          BY <1>10, <2>1
        <4>3. Dechunked[0] = IF FrameAt(e + 1 + k)
                             THEN Joined(output \o SubSeq(Text, e + 2, e + 1 + k),
                                         Dechunked[e + 1 + k + 2])
                             ELSE Nothing
          <5>1. CASE FrameAt(e + 1 + k)
            BY <1>8, <1>10, <3>2, <5>1
          <5>2. CASE ~FrameAt(e + 1 + k)
            BY <1>5, <1>6, <1>10, <3>2, <5>2 DEF Joined
          <5> QED BY <5>1, <5>2
        <4>4. Dechunked'[0] =
                IF FrameAt(used + size)'
                THEN Joined(output' \o SubSeq(Text', used' + 1, used' + size'),
                            Dechunked'[used' + size' + 2])
                ELSE Nothing
          <5>1. FrameAt(used + size)' <=> FrameAt(e + 1 + k)
            <6>1. FrameAt(used + size)' <=> (/\ used' + size' + 2 <= Len(Text')
                                             /\ SubSeq(Text', used' + size' + 1, used' + size' + 2) = <<CR, LF>>)
              BY DEF FrameAt
            <6> QED BY <2>3, <4>2, <6>1 DEF FrameAt
          <5> QED BY <2>1, <2>3, <4>2, <4>3, <5>1
        <4> QED BY <2>1, <4>1, <4>4 DEF Parsed, Joined
      <3> QED BY <3>1, <3>2
    <2>7. Held \in Int /\ Held' \in Int /\ Held' <= Held
      <3>1. Held = Behind - used + Len(output) /\ Held' = Behind - used' + Len(output)
        BY <1>1, <1>7, <2>1, <2>2 DEF Held
      <3>2. /\ Behind \in Int /\ used \in Nat /\ used' \in Nat /\ used' > used
            /\ Len(output) \in Nat
        BY <1>2, <1>7, <2>1
      <3> QED BY <3>1, <3>2
    <2>8. phase # "done" /\ phase' # "done"
      BY <1>1, <2>1
    <2> QED BY <1>1, <2>1, <2>4, <2>5, <2>6, <2>7, <2>8, StepKeeps
  <1> QED BY <1>1, <1>9, <1>10

LEMMA ChunkEndsKeeps == FetchInv /\ ChunkEnds => FetchInv'
  <1> SUFFICES ASSUME FetchInv, ChunkEnds PROVE FetchInv'
    OBVIOUS
  <1> DEFINE chunk == SubSeq(Text, used + 1, used + size)
  <1>1. /\ phase = "data" /\ Pending >= size
        /\ output' = output \o SubSeq(stream.rest, used + 1, used + size)
        /\ used' = used + size /\ phase' = "frame"
        /\ UNCHANGED <<stream, got, size, trailer, outcome, expired>>
        /\ FetchTypeOK /\ StreamOK /\ PhaseOK /\ Parsed
    BY DEF ChunkEnds, ChunkArrived, GoTo, FetchInv
  <1>2. used <= Behind /\ Behind \in 0 .. Len(Text)
    BY <1>1, DeclaredNow
  <1>3. /\ got \in Nat /\ stream.head \in Nat /\ used \in Nat /\ size \in Nat /\ Len(Text) \in Nat
        /\ output \in Seq(HttpBytes) /\ Len(output) \in Nat /\ Behind = got - stream.head
        /\ Pending = Behind - used /\ MaxBody \in Nat
    BY <1>1, FetchNumbers
  <1>4. /\ size # 0 /\ Len(output) + size <= MaxBody
        /\ Dechunked[0] = IF FrameAt(used + size)
                          THEN Joined(output \o chunk, Dechunked[used + size + 2])
                          ELSE Nothing
    BY <1>1 DEF Parsed
  <1>5. chunk \in Seq(HttpBytes) /\ Len(chunk) = size /\ output' = output \o chunk
    <2>1. /\ used + 1 \in Nat \ {0} /\ used + size \in Int /\ used + size <= Len(Text)
          /\ used + 1 <= used + size /\ used + size - (used + 1) + 1 = size
      <3>1. /\ used \in Nat /\ size \in Nat /\ size # 0 /\ Behind \in Int /\ Len(Text) \in Nat
            /\ Behind <= Len(Text) /\ Behind - used >= size
        BY <1>1, <1>2, <1>3, <1>4
      <3> QED BY <3>1
    <2> DEFINE a == used + 1
               b == used + size
    <2>2. a \in Nat \ {0} /\ b \in Int /\ b <= Len(Text) /\ a <= b /\ b - a + 1 = size
      <3>1. used \in Nat /\ size \in Nat /\ size # 0
        BY <1>3, <1>4
      <3> QED BY <2>1, <3>1
    <2>3. output' = output \o SubSeq(stream.rest, a, b)
      BY <1>1
    <2> HIDE DEF a, b
    <2>4. /\ SubSeq(stream.rest, a, b) = SubSeq(Text, a, b)
          /\ SubSeq(Text, a, b) \in Seq(HttpBytes) /\ Len(SubSeq(Text, a, b)) = size
      BY <1>1, <2>2, TextIs
    <2> QED BY <2>3, <2>4 DEF a, b
  <1> HIDE DEF chunk
  <1>6. output' \in Seq(HttpBytes) /\ Len(output') = Len(output) + size
    <2>1. output \in Seq(HttpBytes) /\ chunk \in Seq(HttpBytes) /\ output' = output \o chunk
      BY <1>3, <1>5
    <2>2. Len(output \o chunk) = Len(output) + Len(chunk) /\ output \o chunk \in Seq(HttpBytes)
      BY <2>1
    <2> QED BY <1>5, <2>1, <2>2
  <1>7. /\ Behind' = Behind /\ Pending' = Behind - (used + size)
        /\ used + size \in Nat /\ used + size <= Behind
    BY <1>1, <1>2, <1>3 DEF Behind, Pending
  <1>8. Dechunked' = Dechunked /\ Text' = Text /\ \A o : FrameAt(o)' <=> FrameAt(o)
    BY <1>1, StreamStays
  <1>9. FetchTypeOK'
    BY <1>1, <1>3, <1>6, <1>7 DEF FetchTypeOK
  <1>10. PhaseOK'
    <2>1. used' <= Behind' /\ Len(output') <= MaxBody
      BY <1>1, <1>4, <1>6, <1>7
    <2> QED BY <1>1, <2>1 DEF PhaseOK, ChunkPhases
  <1>11. Parsed'
    <2>1. Dechunked'[0] = IF FrameAt(used)' THEN Joined(output', Dechunked'[used' + 2])
                          ELSE Nothing
      <3>1. FrameAt(used)' <=> FrameAt(used + size)
        <4>1. FrameAt(used)' <=> (/\ used' + 2 <= Len(Text')
                                  /\ SubSeq(Text', used' + 1, used' + 2) = <<CR, LF>>)
          BY DEF FrameAt
        <4> QED BY <1>1, <1>8, <4>1 DEF FrameAt
      <3> QED BY <1>1, <1>4, <1>5, <1>8, <3>1
    <2> QED BY <1>1, <2>1 DEF Parsed, Joined
  <1>12. Held \in Int /\ Held' \in Int /\ Held' <= Held
    <2>1. Held = Pending + Len(output) /\ Held' = Pending' + Len(output')
      BY <1>1 DEF Held
    <2>2. /\ Behind \in Int /\ used \in Nat /\ size \in Nat /\ Len(output) \in Nat
          /\ Held = Behind - used + Len(output)
          /\ Held' = Behind - (used + size) + (Len(output) + size)
      BY <1>2, <1>3, <1>6, <1>7, <2>1
    <2> QED BY <2>2
  <1>13. phase # "done" /\ phase' # "done"
    BY <1>1
  <1> QED BY <1>1, <1>9, <1>10, <1>11, <1>12, <1>13, StepKeeps

LEMMA FrameEndsKeeps == FetchInv /\ FrameEnds => FetchInv'
  <1> SUFFICES ASSUME FetchInv, FrameEnds PROVE FetchInv'
    OBVIOUS
  <1> DEFINE framed == Framed(SubSeq(stream.rest, used + 1, used + 2))
  <1>1. /\ phase = "frame" /\ Pending >= 2 /\ UNCHANGED <<stream, expired>>
        /\ \/ ~framed /\ Fail
           \/ framed /\ GoTo("size") /\ used' = used + 2 /\ UNCHANGED <<size, trailer, output>>
        /\ FetchTypeOK /\ StreamOK /\ PhaseOK /\ Parsed /\ expired \in BOOLEAN
    BY DEF FrameEnds, FetchInv, FetchTypeOK
  <1>2. used <= Behind /\ Behind \in 0 .. Len(Text) /\ Declared = Dechunked[0]
    BY <1>1, DeclaredNow DEF ChunkPhases
  <1>3. /\ got \in Nat /\ stream.head \in Nat /\ used \in Nat /\ Len(Text) \in Nat
        /\ output \in Seq(HttpBytes) /\ Len(output) \in Nat /\ Behind = got - stream.head
        /\ Pending = Behind - used
    BY <1>1, FetchNumbers
  <1>4. used + 2 <= Behind /\ used + 2 <= Len(Text)
    BY <1>1, <1>2, <1>3
  <1>5. framed <=> FrameAt(used)
    <2>1. used + 1 \in Nat \ {0} /\ used + 2 \in Int
      BY <1>3
    <2>2. SubSeq(stream.rest, used + 1, used + 2) = SubSeq(Text, used + 1, used + 2)
      BY <1>1, <1>4, <2>1, TextIs
    <2> QED BY <1>4, <2>2 DEF Framed, FrameAt
  <1>6. Dechunked[0] = IF FrameAt(used) THEN Joined(output, Dechunked[used + 2]) ELSE Nothing
    BY <1>1 DEF Parsed
  <1> HIDE DEF framed
  <1>7. CASE ~framed /\ Fail
    <2>1. Declared = Nothing
      BY <1>2, <1>5, <1>6, <1>7
    <2> QED BY <1>1, <1>7, <2>1, FailKeeps DEF Cause
  <1>8. CASE framed /\ GoTo("size") /\ used' = used + 2 /\ UNCHANGED <<size, trailer, output>>
    <2>1. phase' = "size" /\ UNCHANGED <<got, outcome, size, trailer, output>> /\ used' = used + 2
      BY <1>8 DEF GoTo
    <2>2. Behind' = Behind /\ Pending' = Behind - (used + 2)
      BY <1>1, <1>3, <2>1 DEF Behind, Pending
    <2>3. Dechunked' = Dechunked
      BY <1>1, StreamStays
    <2>4. FetchTypeOK'
      BY <1>1, <1>3, <1>4, <2>1, <2>2 DEF FetchTypeOK
    <2>5. PhaseOK'
      BY <1>1, <1>4, <2>1, <2>2 DEF PhaseOK, ChunkPhases
    <2>6. Parsed'
      BY <1>5, <1>6, <1>8, <2>1, <2>3 DEF Parsed, Joined
    <2>7. Held \in Int /\ Held' \in Int /\ Held' <= Held
      <3>1. Held = Pending + Len(output) /\ Held' = Pending' + Len(output)
        BY <1>1, <2>1 DEF Held
      <3>2. /\ Behind \in Int /\ used \in Nat /\ Len(output) \in Nat
            /\ Held = Behind - used + Len(output)
            /\ Held' = Behind - (used + 2) + Len(output)
        BY <1>2, <1>3, <2>2, <3>1
      <3> QED BY <3>2
    <2>8. phase # "done" /\ phase' # "done"
      BY <1>1, <2>1
    <2> QED BY <1>1, <2>1, <2>4, <2>5, <2>6, <2>7, <2>8, StepKeeps
  <1> QED BY <1>1, <1>7, <1>8

LEMMA TrailerLineKeeps == FetchInv /\ TrailerLine => FetchInv'
  <1> SUFFICES ASSUME FetchInv, TrailerLine PROVE FetchInv'
    OBVIOUS
  <1> DEFINE e == NextLineEnd
             line == Line
             total == trailer + Len(line) + 2
             wrong == line # << >> /\ (Blank(line[1]) \/ ":" \notin Range(line))
  <1>1. /\ phase = "trailer" /\ e # 0 /\ UNCHANGED <<stream, expired>>
        /\ \/ (total > MaxHeaders \/ wrong) /\ Fail
           \/ total <= MaxHeaders /\ line = << >> /\ Accept(output)
           \/ /\ total <= MaxHeaders /\ line # << >> /\ ~wrong
              /\ GoTo("trailer")
              /\ trailer' = total
              /\ used' = e + 1
              /\ UNCHANGED <<size, output>>
        /\ FetchTypeOK /\ StreamOK /\ PhaseOK /\ Parsed /\ expired \in BOOLEAN
    BY DEF TrailerLine, FetchInv, FetchTypeOK
  <1>2. /\ got >= stream.head /\ used <= Behind /\ Declared = Dechunked[0]
        /\ Behind \in 0 .. Len(Text)
    BY <1>1, DeclaredNow DEF ChunkPhases
  <1>3. /\ e = LineEnd(Text, used) /\ e \in used + 1 .. Behind - 1
        /\ line = SubSeq(Text, used + 1, e - 1) /\ used \in 0 .. Len(Text)
    BY <1>1, <1>2, LineNow
  <1>4. line \in Seq(HttpBytes) /\ Len(line) = e - 1 - used
    BY <1>1, <1>3, LineAt
  <1>5. TrailersEnd[used] = IF line = << >> THEN e + 1
                            ELSE IF ":" \in Range(line) /\ ~Blank(line[1])
                                 THEN TrailersEnd[e + 1] ELSE 0
    BY <1>1, <1>3, TrailersAt
  <1>6. /\ got \in Nat /\ stream.head \in Nat /\ used \in Nat /\ trailer \in Nat
        /\ output \in Seq(HttpBytes) /\ Len(output) \in Nat /\ Behind = got - stream.head
        /\ Pending = Behind - used /\ MaxBody \in Nat /\ MaxHeaders \in Nat /\ Len(Text) \in Nat
    BY <1>1, FetchNumbers
  <1>7. Dechunked[0] = IF TrailersEnd[used] - (used - trailer) \in 1 .. MaxHeaders
                       THEN output ELSE Nothing
    BY <1>1 DEF Parsed
  <1>8. trailer <= used /\ Len(output) <= MaxBody
    BY <1>1 DEF PhaseOK, ChunkPhases
  <1> HIDE DEF e, line
  <1>9. e \in Nat /\ e + 1 \in 0 .. Len(Text) /\ e + 1 > used /\ e + 1 <= Behind
    <2>1. /\ used \in Nat /\ Behind \in Int /\ Len(Text) \in Nat /\ Behind <= Len(Text)
          /\ e \in used + 1 .. Behind - 1
      BY <1>2, <1>3, <1>6
    <2> QED BY <2>1
  <1>10. total = e + 1 - (used - trailer) /\ total \in Nat /\ total >= 2
    <2>1. /\ used \in Nat /\ Behind \in Int /\ trailer \in Nat
          /\ e \in used + 1 .. Behind - 1 /\ Len(line) = e - 1 - used
      BY <1>2, <1>3, <1>4, <1>6
    <2> QED BY <2>1
  <1>11. TrailersEnd[e + 1] \in Nat /\ (TrailersEnd[e + 1] # 0 => TrailersEnd[e + 1] > e + 1)
    BY <1>1, <1>9, TrailersEndTypes
  <1> HIDE DEF total
  <1>12. CASE (total > MaxHeaders \/ wrong) /\ Fail
    <2>1. CASE wrong
      <3>1. TrailersEnd[used] = 0
        BY <1>5, <2>1
      <3>2. TrailersEnd[used] - (used - trailer) \notin 1 .. MaxHeaders
        BY <1>6, <1>8, <3>1
      <3> QED BY <1>1, <1>2, <1>7, <1>12, <3>2, FailKeeps DEF Cause
    <2>2. CASE total > MaxHeaders
      <3>1. TrailersEnd[used] = 0 \/ TrailersEnd[used] >= e + 1
        BY <1>5, <1>9, <1>11
      <3>2. TrailersEnd[used] \in Nat
        BY <1>5, <1>9, <1>11
      <3>3. TrailersEnd[used] - (used - trailer) \notin 1 .. MaxHeaders
        BY <1>6, <1>8, <1>9, <1>10, <2>2, <3>1, <3>2
      <3> QED BY <1>1, <1>2, <1>7, <1>12, <3>3, FailKeeps DEF Cause
    <2> QED BY <1>12, <2>1, <2>2
  <1>13. CASE total <= MaxHeaders /\ line = << >> /\ Accept(output)
    <2>1. TrailersEnd[used] - (used - trailer) = total
      <3>1. TrailersEnd[used] = e + 1
        BY <1>5, <1>13
      <3>2. used \in Nat /\ trailer \in Nat /\ total = e + 1 - (used - trailer)
        BY <1>6, <1>10
      <3>3. e \in Nat
        BY <1>9
      <3> QED BY <3>1, <3>2, <3>3
    <2>2. total \in 1 .. MaxHeaders
      BY <1>6, <1>10, <1>13
    <2>3. Declared = output
      BY <1>2, <1>7, <2>1, <2>2
    <2> QED BY <1>1, <1>6, <1>8, <1>13, <2>3, AcceptKeeps
  <1>14. CASE /\ total <= MaxHeaders /\ line # << >> /\ ~wrong
              /\ GoTo("trailer")
              /\ trailer' = total /\ used' = e + 1 /\ UNCHANGED <<size, output>>
    <2>1. /\ phase' = "trailer" /\ UNCHANGED <<got, outcome, size, output>>
          /\ used' = e + 1 /\ trailer' = total
      BY <1>14 DEF GoTo
    <2>2. Behind' = Behind /\ Pending' = Behind - (e + 1)
      BY <1>1, <1>6, <2>1 DEF Behind, Pending
    <2>3. Dechunked' = Dechunked /\ TrailersEnd' = TrailersEnd
      BY <1>1, StreamStays
    <2>4. e + 1 \in Nat /\ e + 1 - total = used - trailer /\ total <= e + 1
      BY <1>6, <1>8, <1>9, <1>10
    <2>5. FetchTypeOK'
      BY <1>1, <1>9, <1>10, <2>1, <2>2, <2>4 DEF FetchTypeOK
    <2>6. PhaseOK'
      BY <1>1, <1>9, <2>1, <2>2, <2>4 DEF PhaseOK, ChunkPhases
    <2>7. Parsed'
      <3>1. TrailersEnd[used] = TrailersEnd[e + 1]
        BY <1>5, <1>14
      <3>2. TrailersEnd'[used'] - (used' - trailer') = TrailersEnd[used] - (used - trailer)
        <4>1. TrailersEnd'[used'] = TrailersEnd[used]
          BY <2>1, <2>3, <3>1
        <4>2. used' - trailer' = used - trailer
          <5> DEFINE first == used - trailer
          <5>1. first \in Int /\ total = e + 1 - first
            BY <1>6, <1>10
          <5> HIDE DEF first
          <5>2. used' = e + 1 /\ trailer' = e + 1 - first /\ e \in Nat
            BY <1>9, <2>1, <5>1
          <5>3. used' - trailer' = first
            BY <5>1, <5>2
          <5> QED BY <5>3 DEF first
        <4> QED BY <4>1, <4>2
      <3>3. Dechunked'[0] = IF TrailersEnd'[used'] - (used' - trailer') \in 1 .. MaxHeaders
                            THEN output' ELSE Nothing
        BY <1>7, <2>1, <2>3, <3>2
      <3> QED BY <2>1, <3>3 DEF Parsed
    <2>8. Held \in Int /\ Held' \in Int /\ Held' <= Held
      <3>1. Held = Pending + Len(output) /\ Held' = Pending' + Len(output)
        BY <1>1, <2>1 DEF Held
      <3>2. /\ Behind \in Int /\ used \in Nat /\ e + 1 \in Nat /\ e + 1 > used
            /\ Len(output) \in Nat
        BY <1>2, <1>6, <1>9
      <3>3. Held = Behind - used + Len(output) /\ Held' = Behind - (e + 1) + Len(output)
        BY <1>6, <2>2, <3>1
      <3> QED BY <3>2, <3>3
    <2>9. phase # "done" /\ phase' # "done"
      BY <1>1, <2>1
    <2> QED BY <1>1, <2>1, <2>5, <2>6, <2>7, <2>8, <2>9, StepKeeps
  <1> QED BY <1>1, <1>12, <1>13, <1>14

LEMMA FetchStutters == FetchInv /\ UNCHANGED fetchVars => FetchInv'
  <1> SUFFICES ASSUME FetchInv, UNCHANGED fetchVars PROVE FetchInv'
    OBVIOUS
  <1>1. UNCHANGED <<stream, got, phase, used, size, trailer, output, outcome, expired>>
    BY DEF fetchVars, parsing
  <1>2. /\ StreamOK' /\ Cause' = Cause /\ Declared' = Declared /\ Dechunked' = Dechunked
        /\ TrailersEnd' = TrailersEnd /\ Text' = Text /\ \A o : FrameAt(o)' <=> FrameAt(o)
    BY <1>1, StreamStays DEF FetchInv
  <1>3. FetchTypeOK'
    BY <1>1 DEF FetchInv, FetchTypeOK, Behind
  <1>4. PhaseOK' /\ MemoryIsBounded' /\ AcceptedIsWhole' /\ RefusedForCause'
    BY <1>1, <1>2 DEF FetchInv, PhaseOK, ChunkPhases, Behind, Pending, Held, MemoryIsBounded,
                     AcceptedIsWhole, RefusedForCause
  <1>5. Parsed'
    BY <1>1, <1>2 DEF FetchInv, Parsed, Joined
  <1> QED BY <1>2, <1>3, <1>4, <1>5 DEF FetchInv

LEMMA FetchNextKeeps == FetchInv /\ [FetchNext]_fetchVars => FetchInv'
  BY ReadKeeps, EndOfStreamKeeps, ExpireKeeps, OverflowKeeps, HeadersEndKeeps, LengthEndsKeeps,
     SizeLineKeeps, ChunkEndsKeeps, FrameEndsKeeps, TrailerLineKeeps, FetchStutters
  DEF FetchNext

-----------------------------------------------------------------------------
(* One behaviour runs one of the readers *)

InputInv == FetchInv /\ AnswerInv /\ NameInv

\* Each reader keeps its own invariant, and the others' variables.
THEOREM InputInvHolds == MCSpec => []InputInv
  <1>1. MCInit => InputInv
    BY FetchStarts, AnswerStarts, NameStarts
    DEF MCInit, FetchWaits, AnswerWaits, NameWaits, InputInv
  <1>2. InputInv /\ [MCNext]_mcVars => InputInv'
    <2> SUFFICES ASSUME InputInv, [MCNext]_mcVars PROVE InputInv'
      OBVIOUS
    <2>1. CASE RunsFetch
      BY <2>1, FetchNextKeeps, AnswerStutters, NameStutters DEF RunsFetch, InputInv
    <2>2. CASE RunsAnswer
      BY <2>2, AnswerNextKeeps, FetchStutters, NameStutters DEF RunsAnswer, InputInv
    <2>3. CASE RunsName
      BY <2>3, NameNextKeeps, FetchStutters, AnswerStutters DEF RunsName, InputInv
    <2>4. CASE UNCHANGED mcVars
      BY <2>4, FetchStutters, AnswerStutters, NameStutters DEF mcVars, InputInv
    <2> QED BY <2>1, <2>2, <2>3, <2>4 DEF MCNext
  <1> QED BY <1>1, <1>2, PTL DEF MCSpec

\* For any limits and any streams, however recv cuts them into pieces: what is
\* accepted is the body the headers announce, whole, within its limit and an
\* object; what is refused in time has a cause; and memory is bounded.
THEOREM StatusRight == MCSpec => []StatusIsRight
  <1>1. InputInv => StatusIsRight
    BY DEF InputInv, FetchInv, StatusIsRight
  <1> QED BY <1>1, InputInvHolds, PTL

\* For any replies: the CNAME chain is followed to its end whatever the order of
\* the records, and the reply says what its answer section says.  For any
\* packet: a name is what RFC 1035 says its bytes denote, no circle of pointers
\* gets through, and the caller goes on behind it.
THEOREM ReplyRight == MCSpec => []ReplyIsRight
  <1>1. InputInv => ReplyIsRight
    BY AnswerChain DEF InputInv, AnswerInv, NameInv, ReplyIsRight
  <1> QED BY <1>1, InputInvHolds, PTL
=============================================================================
