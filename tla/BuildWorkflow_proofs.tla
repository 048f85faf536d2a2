------------------------ MODULE BuildWorkflow_proofs ------------------------
(* Proofs about the two parts of build.yml that publish, for any number of   *)
(* jobs, versions, contents and releases.                                    *)
EXTENDS MCBuildWorkflow, Positions_proofs

-----------------------------------------------------------------------------
(* ChartPages: the branch, its index and the jobs.                           *)

\* What holds while job j is between its steps.  Only one job is at work, so
\* the branch has nothing but j's own bytes for its version; what it fetched
\* is the branch itself or older, and the branch has kept everything in it.
WorkInHand(j) ==
    /\ step[j] \in {"attest", "fetch", "publish"} =>
         /\ built[j].content = source[j].content
         /\ built[j] # NoArchive
         /\ pages.file[source[j].version] \in {NoArchive, built[j]}
    /\ step[j] \in {"fetch", "publish"} =>
         /\ source[j].event = "push"
         /\ built[j] \in attested
    /\ step[j] = "publish" =>
         /\ base[j].rev <= pages.rev
         /\ base[j].rev = pages.rev => base[j] = pages
         /\ \A v \in Versions :
                base[j].file[v] # NoArchive => pages.file[v] = base[j].file[v]

\* A job that is over has something to compare with the branch.
Concluded(j) ==
    /\ step[j] = "done" /\ source[j].event = "push" => built[j] # NoArchive
    /\ step[j] = "changed" => pages.file[source[j].version] # NoArchive

PagesInv ==
    /\ PagesTypeOK
    /\ IndexMatchesFiles
    /\ ReleasedIsPublished
    /\ RefusedForChange
    /\ \A j \in Jobs : WorkInHand(j) /\ Concluded(j)

LEMMA NoPagesType == NoPages \in Pages
  BY DEF NoPages, Pages, NoEntry

LEMMA PagesTyping ==
  ASSUME PagesTypeOK
  PROVE  /\ pages \in Pages /\ pages.rev \in Nat
         /\ \A v \in Versions : /\ pages.file[v] \in Archive \union {NoArchive}
                                /\ pages.entry[v].archive \in Archive \union {NoArchive}
         /\ \A j \in Jobs : /\ source[j].version \in Versions
                            /\ source[j].content \in Contents \union {Broken}
                            /\ source[j].event \in {"push", "pull_request"}
                            /\ built[j] \in Archive \union {NoArchive}
                            /\ base[j] \in Pages
                            /\ step[j] \in Over \union AtWork \union {"waiting"}
         /\ None \notin Jobs
  <1>1. pages.rev \in Nat
    BY DEF PagesTypeOK, Pages
  <1>2. \A v \in Versions : /\ pages.file[v] \in Archive \union {NoArchive}
                            /\ pages.entry[v].archive \in Archive \union {NoArchive}
    BY DEF PagesTypeOK, Pages
  <1>3. \A j \in Jobs : /\ source[j].version \in Versions
                        /\ source[j].content \in Contents \union {Broken}
                        /\ source[j].event \in {"push", "pull_request"}
    BY DEF PagesTypeOK, Sources
  <1> QED BY <1>1, <1>2, <1>3, PagesAssumption DEF PagesTypeOK

\* What the end of a job does to the concurrency group: the job is over, the
\* waiting one begins, and no other is touched.
LEMMA EndType ==
  ASSUME PagesTypeOK, NEW j \in Jobs, step[j] \in AtWork, NEW s \in Over, End(j, s)
  PROVE  /\ running' \in Jobs \union {None} /\ pending' \in Jobs \union {None}
         /\ step' \in [Jobs -> Over \union AtWork \union {"waiting"}]
         /\ \A i \in Jobs : (step'[i] \in AtWork <=> running' = i)
                          /\ (step'[i] = "waiting" <=> pending' = i)
         /\ base' \in [Jobs -> Pages]
         /\ step'[j] = s
         /\ \A i \in Jobs \ {j} : step'[i] \in {step[i], "package"}
  <1>1. /\ running = j /\ pending # j
        /\ \A i \in Jobs : (step[i] \in AtWork <=> i = j) /\ (step[i] = "waiting" <=> pending = i)
    BY DEF PagesTypeOK, AtWork
  <1>2. /\ step' = [i \in Jobs |-> IF i = j THEN s ELSE IF i = pending THEN "package" ELSE step[i]]
        /\ running' = pending /\ pending' = None
    BY DEF End
  <1>3. step' \in [Jobs -> Over \union AtWork \union {"waiting"}]
    BY <1>2 DEF PagesTypeOK, AtWork
  <1>4. \A i \in Jobs : (step'[i] \in AtWork <=> running' = i)
                      /\ (step'[i] = "waiting" <=> pending' = i)
    BY <1>1, <1>2, PagesAssumption DEF AtWork, Over
  <1>5. base' \in [Jobs -> Pages]
    BY NoPagesType DEF End, PagesTypeOK
  <1> QED BY <1>2, <1>3, <1>4, <1>5 DEF PagesTypeOK

LEMMA AdmitType ==
  ASSUME PagesTypeOK, NEW j \in Jobs, step[j] \in Over, Admit(j)
  PROVE  /\ running' \in Jobs \union {None} /\ pending' \in Jobs \union {None}
         /\ step' \in [Jobs -> Over \union AtWork \union {"waiting"}]
         /\ \A i \in Jobs : (step'[i] \in AtWork <=> running' = i)
                          /\ (step'[i] = "waiting" <=> pending' = i)
         /\ \A i \in Jobs : step'[i] \in {step[i], "package", "waiting", "cancelled"}
  <1>1. /\ running # j /\ pending # j /\ None \notin Jobs /\ step \in [Jobs -> Over \union AtWork \union {"waiting"}]
        /\ \A i \in Jobs : (step[i] \in AtWork <=> running = i)
                         /\ (step[i] = "waiting" <=> pending = i)
    BY PagesAssumption DEF PagesTypeOK, AtWork, Over
  <1>2. CASE /\ running = None
             /\ running' = j
             /\ step' = [step EXCEPT ![j] = "package"]
             /\ UNCHANGED pending
    BY <1>1, <1>2 DEF PagesTypeOK, AtWork, Over
  <1>3. CASE /\ running # None
             /\ pending' = j
             /\ step' = [i \in Jobs |-> IF i = j THEN "waiting"
                                        ELSE IF i = pending THEN "cancelled" ELSE step[i]]
             /\ UNCHANGED running
    BY <1>1, <1>3 DEF PagesTypeOK, AtWork, Over
  <1> QED BY <1>2, <1>3 DEF Admit

LEMMA GoType ==
  ASSUME PagesTypeOK, NEW j \in Jobs, step[j] \in AtWork, NEW s \in AtWork, Proceed(j, s)
  PROVE  /\ running' \in Jobs \union {None} /\ pending' \in Jobs \union {None}
         /\ step' \in [Jobs -> Over \union AtWork \union {"waiting"}]
         /\ \A i \in Jobs : (step'[i] \in AtWork <=> running' = i)
                          /\ (step'[i] = "waiting" <=> pending' = i)
         /\ step'[j] = s
         /\ \A i \in Jobs \ {j} : step'[i] = step[i]
  BY DEF PagesTypeOK, Proceed, group, AtWork, Over

\* The jobs that are not at work keep what is known of them as long as the
\* branch keeps its archives and they keep theirs.
LEMMA OthersKeep ==
  ASSUME PagesInv, PagesTypeOK', NEW i \in Jobs,
         step'[i] \in {step[i], "package", "waiting", "cancelled", "failed"},
         step[i] \notin AtWork, source' = source, built'[i] = built[i],
         \A v \in Versions : pages.file[v] # NoArchive => pages'.file[v] = pages.file[v]
  PROVE  /\ WorkInHand(i)' /\ Concluded(i)'
         /\ step'[i] = "done" /\ source'[i].event = "push" =>
              /\ built'[i] = pages'.file[source'[i].version]
              /\ built'[i].content = source'[i].content
         /\ step'[i] = "changed" =>
              source'[i].content # pages'.file[source'[i].version].content
  <1>0. source[i].version \in Versions
    BY PagesTyping DEF PagesInv
  <1>1. WorkInHand(i)'
    BY DEF WorkInHand, AtWork
  <1>2. CASE step'[i] = "done" /\ source[i].event = "push"
    <2>1. step[i] = "done"
      BY <1>2
    <2>2. /\ built[i] = pages.file[source[i].version]
          /\ built[i].content = source[i].content
          /\ built[i] # NoArchive
      BY <1>2, <2>1 DEF PagesInv, ReleasedIsPublished, Concluded
    <2> QED BY <1>0, <1>1, <1>2, <2>2 DEF Concluded
  <1>3. CASE step'[i] = "changed"
    <2>1. step[i] = "changed"
      BY <1>3
    <2>2. /\ source[i].content # pages.file[source[i].version].content
          /\ pages.file[source[i].version] # NoArchive
      BY <2>1 DEF PagesInv, RefusedForChange, Concluded
    <2> QED BY <1>0, <1>1, <1>3, <2>2 DEF Concluded
  <1> QED BY <1>1, <1>2, <1>3 DEF Concluded

\* From the facts about each job to the invariant.
LEMMA Assembled ==
  ASSUME PagesTypeOK', IndexMatchesFiles',
         \A i \in Jobs :
           /\ WorkInHand(i)' /\ Concluded(i)'
           /\ step'[i] = "done" /\ source'[i].event = "push" =>
                /\ built'[i] = pages'.file[source'[i].version]
                /\ built'[i].content = source'[i].content
           /\ step'[i] = "changed" =>
                source'[i].content # pages'.file[source'[i].version].content
  PROVE  PagesInv'
  BY DEF PagesInv, ReleasedIsPublished, RefusedForChange

LEMMA AloneAtWork ==
  ASSUME PagesTypeOK, NEW j \in Jobs, step[j] \in AtWork, NEW i \in Jobs, i # j
  PROVE  step[i] \notin AtWork
  BY DEF PagesTypeOK

LEMMA TriggerKeeps == ASSUME PagesInv, NEW j \in Jobs, Trigger(j) PROVE PagesInv'
  <1>1. /\ PagesTypeOK /\ step[j] \in Over /\ Admit(j)
        /\ UNCHANGED <<source, pages, built, base, runs, others, attested>>
    BY DEF PagesInv, Trigger
  <1>2. PagesTypeOK'
    BY <1>1, AdmitType DEF PagesTypeOK
  <1>3. IndexMatchesFiles'
    BY <1>1 DEF PagesInv, IndexMatchesFiles
  <1>4. ASSUME NEW i \in Jobs
        PROVE  /\ WorkInHand(i)' /\ Concluded(i)'
               /\ step'[i] = "done" /\ source'[i].event = "push" =>
                    /\ built'[i] = pages'.file[source'[i].version]
                    /\ built'[i].content = source'[i].content
               /\ step'[i] = "changed" =>
                    source'[i].content # pages'.file[source'[i].version].content
    <2>1. step'[i] \in {step[i], "package", "waiting", "cancelled"}
      BY <1>1, AdmitType
    <2> QED BY <1>1, <2>1
            DEF PagesInv, WorkInHand, Concluded, ReleasedIsPublished, RefusedForChange
  <1> QED BY <1>2, <1>3, <1>4, Assembled

LEMMA PackageKeeps == ASSUME PagesInv, NEW j \in Jobs, Package(j) PROVE PagesInv'
  <1> DEFINE new == [content |-> source[j].content, stamp |-> runs']
             old == pages.file[source[j].version]
             readable == Broken \notin {new.content, old.content}
  <1>1. /\ PagesTypeOK /\ step[j] = "package" /\ step[j] \in AtWork
        /\ runs' = runs + 1 /\ runs < MaxRuns
        /\ UNCHANGED <<source, pages, others, attested>>
    BY DEF PagesInv, Package, AtWork
  <1>2. /\ old \in Archive \union {NoArchive} /\ new \in Archive /\ new # NoArchive
        /\ runs' \in 1 .. MaxRuns
    <2>1. runs' \in 1 .. MaxRuns
      BY <1>1, PagesAssumption DEF PagesTypeOK
    <2>2. new \in Archive
      BY <1>1, <2>1, PagesTyping DEF Archive
    <2>3. new # NoArchive
      BY <2>1 DEF NoArchive
    <2> QED BY <1>1, <2>1, <2>2, <2>3, PagesTyping
  <1>3. IndexMatchesFiles'
    BY <1>1 DEF PagesInv, IndexMatchesFiles
  <1>4. \/ /\ old = NoArchive
           /\ built' = [built EXCEPT ![j] = new]
           /\ Go(j, "attest")
        \/ /\ old # NoArchive
           /\ SameContent(new, old)
           /\ built' = [built EXCEPT ![j] = old]
           /\ Go(j, "attest")
        \/ /\ old # NoArchive
           /\ ~readable \/ ~SameContent(new, old)
           /\ built' = [built EXCEPT ![j] = new]
           /\ End(j, IF readable THEN "changed" ELSE "failed")
    BY DEF Package
  <1>5. \A i \in Jobs \ {j} : built'[i] = built[i]
    BY <1>1, <1>4 DEF PagesTypeOK
  <1>6. CASE /\ built' = [built EXCEPT ![j] = IF old = NoArchive THEN new ELSE old]
             /\ old # NoArchive => SameContent(new, old)
             /\ Go(j, "attest")
    <2>1. "attest" \in AtWork /\ Proceed(j, "attest") /\ base' = base
      BY <1>6 DEF AtWork, Go
    <2>2. PagesTypeOK'
      BY <1>1, <1>2, <1>6, <2>1, GoType DEF PagesTypeOK
    <2>3. step'[j] = "attest" /\ \A i \in Jobs \ {j} : step'[i] = step[i]
      BY <1>1, <2>1, GoType
    <2>4. built'[j] = IF old = NoArchive THEN new ELSE old
      BY <1>1, <1>6 DEF PagesTypeOK
    <2>5. WorkInHand(j)' /\ Concluded(j)'
      BY <1>1, <1>2, <1>6, <2>3, <2>4 DEF WorkInHand, Concluded, SameContent
    <2> QED BY <1>1, <1>3, <1>5, <2>2, <2>3, <2>5, Assembled, OthersKeep, AloneAtWork
  <1>7. CASE /\ old # NoArchive
             /\ ~readable \/ ~SameContent(new, old)
             /\ built' = [built EXCEPT ![j] = new]
             /\ End(j, IF readable THEN "changed" ELSE "failed")
    <2> DEFINE s == IF readable THEN "changed" ELSE "failed"
    <2>1. s \in Over /\ s \in {"changed", "failed"} /\ End(j, s)
      BY <1>7 DEF Over
    <2>2. PagesTypeOK'
      <3> HIDE DEF s
      <3> QED BY <1>1, <1>2, <1>7, <2>1, EndType DEF PagesTypeOK
    <2>3. step'[j] = s /\ \A i \in Jobs \ {j} : step'[i] \in {step[i], "package"}
      <3> HIDE DEF s
      <3> QED BY <1>1, <2>1, EndType
    <2>4. step'[j] = "changed" => source[j].content # old.content
      BY <1>7, <2>3 DEF SameContent
    <2>5. WorkInHand(j)' /\ Concluded(j)'
      BY <1>1, <1>7, <2>1, <2>3 DEF WorkInHand, Concluded
    <2> HIDE DEF s
    <2> QED BY <1>1, <1>3, <1>5, <2>1, <2>2, <2>3, <2>4, <2>5,
               Assembled, OthersKeep, AloneAtWork
  <1> QED BY <1>4, <1>6, <1>7

LEMMA AttestKeeps == ASSUME PagesInv, NEW j \in Jobs, Attest(j) PROVE PagesInv'
  <1>1. /\ PagesTypeOK /\ step[j] = "attest" /\ step[j] \in AtWork
        /\ UNCHANGED <<source, pages, built, runs, others>>
    BY DEF PagesInv, Attest, AtWork
  <1>2. CASE /\ source[j].event = "pull_request"
             /\ End(j, "done")
             /\ UNCHANGED attested
    <2>1. PagesTypeOK'
      BY <1>1, <1>2, EndType DEF PagesTypeOK, Over
    <2>2. step'[j] = "done" /\ \A i \in Jobs \ {j} : step'[i] \in {step[i], "package"}
      BY <1>1, <1>2, EndType DEF Over
    <2>3. WorkInHand(j)' /\ Concluded(j)'
      BY <1>1, <1>2, <2>2 DEF WorkInHand, Concluded
    <2>4. IndexMatchesFiles'
      BY <1>1, <1>2 DEF PagesInv, IndexMatchesFiles
    <2> QED BY <1>1, <1>2, <2>1, <2>2, <2>3, <2>4, Assembled, OthersKeep, AloneAtWork
  <1>3. CASE /\ source[j].event = "push"
             /\ attested' = attested \union {built[j]}
             /\ Go(j, "fetch")
    <2>1. "fetch" \in AtWork /\ Proceed(j, "fetch") /\ base' = base
      BY <1>3 DEF AtWork, Go
    <2>2. /\ built[j].content = source[j].content
          /\ built[j] # NoArchive
          /\ pages.file[source[j].version] \in {NoArchive, built[j]}
      BY <1>1 DEF PagesInv, WorkInHand
    <2>3. PagesTypeOK'
      <3>1. attested' \subseteq Archive
        BY <1>1, <1>3, <2>2, PagesTyping DEF PagesTypeOK
      <3> QED BY <1>1, <1>3, <2>1, <3>1, GoType DEF PagesTypeOK
    <2>4. step'[j] = "fetch" /\ \A i \in Jobs \ {j} : step'[i] = step[i]
      BY <1>1, <2>1, GoType
    <2>5. WorkInHand(j)' /\ Concluded(j)'
      BY <1>1, <1>3, <2>2, <2>4 DEF WorkInHand, Concluded
    <2>6. IndexMatchesFiles'
      BY <1>1, <1>3 DEF PagesInv, IndexMatchesFiles
    <2> QED BY <1>1, <1>3, <2>3, <2>4, <2>5, <2>6, Assembled, OthersKeep, AloneAtWork
  <1> QED BY <1>2, <1>3 DEF Attest

LEMMA FetchKeeps == ASSUME PagesInv, NEW j \in Jobs, Fetch(j) PROVE PagesInv'
  <1>1. /\ PagesTypeOK /\ step[j] = "fetch" /\ step[j] \in AtWork
        /\ "publish" \in AtWork /\ Proceed(j, "publish")
        /\ base' = [base EXCEPT ![j] = pages]
        /\ UNCHANGED <<source, pages, built, runs, others, attested>>
    BY DEF PagesInv, Fetch, AtWork
  <1>2. PagesTypeOK'
    BY <1>1, GoType DEF PagesTypeOK
  <1>3. step'[j] = "publish" /\ \A i \in Jobs \ {j} : step'[i] = step[i]
    BY <1>1, GoType
  <1>4. base'[j] = pages /\ pages.rev <= pages.rev
    BY <1>1, PagesTyping DEF PagesTypeOK
  <1>5. WorkInHand(j)' /\ Concluded(j)'
    BY <1>1, <1>3, <1>4 DEF PagesInv, WorkInHand, Concluded
  <1>6. IndexMatchesFiles'
    BY <1>1 DEF PagesInv, IndexMatchesFiles
  <1> QED BY <1>1, <1>2, <1>3, <1>5, <1>6, Assembled, OthersKeep, AloneAtWork

LEMMA PagesOf ==
  ASSUME NEW F \in [Versions -> Archive \union {NoArchive}],
         NEW G \in [Versions -> [archive : Archive \union {NoArchive}, created : Nat]],
         NEW r \in Nat
  PROVE  [file |-> F, entry |-> G, rev |-> r] \in Pages
  BY DEF Pages

\* What a push to the branch is: the branch has not moved since the job
\* fetched it, and has no archive of the job's version.
LEMMA PushEffect ==
  ASSUME PagesInv, NEW j \in Jobs, step[j] = "publish",
         base[j].file[source[j].version] = NoArchive, pages.rev = base[j].rev,
         pages' = [file  |-> [base[j].file EXCEPT ![source[j].version] = built[j]],
                   entry |-> Indexed(base[j], source[j].version, built[j]),
                   rev   |-> pages.rev + 1]
  PROVE  /\ pages.file[source[j].version] = NoArchive
         /\ pages'.file[source[j].version] = built[j]
         /\ pages'.entry[source[j].version].archive = built[j]
         /\ \A v \in Versions \ {source[j].version} :
                pages'.file[v] = pages.file[v] /\ pages'.entry[v] = pages.entry[v]
         /\ pages' \in Pages
  <1> DEFINE v == source[j].version
  <1>1. base[j] = pages
    BY DEF PagesInv, WorkInHand
  <1>2. v \in Versions /\ pages \in Pages /\ built[j] \in Archive \union {NoArchive} /\ runs \in Nat
    BY PagesTyping, PagesAssumption DEF PagesInv, PagesTypeOK
  <1>3. /\ pages.file \in [Versions -> Archive \union {NoArchive}]
        /\ pages.entry \in [Versions -> [archive : Archive \union {NoArchive}, created : Nat]]
        /\ pages.rev \in Nat
    BY <1>2 DEF Pages
  <1>4. pages' = [file  |-> [pages.file EXCEPT ![v] = built[j]],
                  entry |-> [pages.entry EXCEPT ![v] = [archive |-> built[j], created |-> runs]],
                  rev   |-> pages.rev + 1]
    BY <1>1 DEF Indexed
  <1>5. pages' \in Pages
    <2> DEFINE F == [pages.file EXCEPT ![v] = built[j]]
               G == [pages.entry EXCEPT ![v] = [archive |-> built[j], created |-> runs]]
    <2>1. F \in [Versions -> Archive \union {NoArchive}]
      BY <1>2, <1>3
    <2>2. [archive |-> built[j], created |-> runs]
             \in [archive : Archive \union {NoArchive}, created : Nat]
      BY <1>2
    <2>3. G \in [Versions -> [archive : Archive \union {NoArchive}, created : Nat]]
      BY <1>3, <2>2
    <2>4. pages.rev + 1 \in Nat
      BY <1>3
    <2>5. pages' = [file |-> F, entry |-> G, rev |-> pages.rev + 1]
      BY <1>4
    <2> HIDE DEF F, G
    <2> QED BY <2>1, <2>3, <2>4, <2>5, PagesOf
  <1> QED BY <1>1, <1>2, <1>3, <1>4, <1>5

LEMMA PublishKeeps == ASSUME PagesInv, NEW j \in Jobs, Publish(j) PROVE PagesInv'
  <1> DEFINE v == source[j].version
             old == base[j].file[v]
  <1>1. /\ PagesTypeOK /\ step[j] = "publish" /\ step[j] \in AtWork /\ v \in Versions
        /\ UNCHANGED <<source, built, runs, others, attested>>
    BY PagesTyping DEF PagesInv, Publish, AtWork
  <1>2. /\ source[j].event = "push" /\ built[j] \in attested
        /\ built[j].content = source[j].content /\ built[j] # NoArchive
        /\ pages.file[v] \in {NoArchive, built[j]}
        /\ old # NoArchive => pages.file[v] = old
    BY <1>1 DEF PagesInv, WorkInHand
  <1>3. CASE /\ old # NoArchive
             /\ End(j, IF old = built[j] THEN "done" ELSE "changed")
             /\ UNCHANGED pages
    <2>1. old = built[j] /\ End(j, "done")
      BY <1>2, <1>3
    <2>2. PagesTypeOK'
      BY <1>1, <1>3, <2>1, EndType DEF PagesTypeOK, Over
    <2>3. step'[j] = "done" /\ \A i \in Jobs \ {j} : step'[i] \in {step[i], "package"}
      BY <1>1, <2>1, EndType DEF Over
    <2>4. WorkInHand(j)' /\ Concluded(j)'
      BY <1>1, <1>2, <2>3 DEF WorkInHand, Concluded
    <2>5. IndexMatchesFiles'
      BY <1>1, <1>3 DEF PagesInv, IndexMatchesFiles
    <2> QED BY <1>1, <1>2, <1>3, <2>1, <2>2, <2>3, <2>4, <2>5, Assembled, OthersKeep, AloneAtWork
  <1>4. CASE End(j, "failed") /\ UNCHANGED pages
    <2>2. PagesTypeOK'
      BY <1>1, <1>4, EndType DEF PagesTypeOK, Over
    <2>3. step'[j] = "failed" /\ \A i \in Jobs \ {j} : step'[i] \in {step[i], "package"}
      BY <1>1, <1>4, EndType DEF Over
    <2>4. WorkInHand(j)' /\ Concluded(j)'
      BY <2>3 DEF WorkInHand, Concluded
    <2>5. IndexMatchesFiles'
      BY <1>1, <1>4 DEF PagesInv, IndexMatchesFiles
    <2> QED BY <1>1, <1>4, <2>2, <2>3, <2>4, <2>5, Assembled, OthersKeep, AloneAtWork
  <1>5. CASE /\ old = NoArchive
             /\ pages.rev = base[j].rev
             /\ pages' = [file  |-> [base[j].file EXCEPT ![v] = built[j]],
                          entry |-> Indexed(base[j], v, built[j]),
                          rev   |-> pages.rev + 1]
             /\ End(j, "done")
    <2>1. /\ pages.file[v] = NoArchive
          /\ pages'.file[v] = built[j]
          /\ pages'.entry[v].archive = built[j]
          /\ \A u \in Versions \ {v} :
                 pages'.file[u] = pages.file[u] /\ pages'.entry[u] = pages.entry[u]
          /\ pages' \in Pages
      BY <1>1, <1>5, PushEffect
    <2>2. PagesTypeOK'
      BY <1>1, <1>5, <2>1, EndType DEF PagesTypeOK, Over
    <2>3. step'[j] = "done" /\ \A i \in Jobs \ {j} : step'[i] \in {step[i], "package"}
      BY <1>1, <1>5, EndType DEF Over
    <2>4. WorkInHand(j)' /\ Concluded(j)'
      BY <1>1, <1>2, <2>3 DEF WorkInHand, Concluded
    <2>5. IndexMatchesFiles'
      BY <1>1, <1>2, <2>1 DEF PagesInv, IndexMatchesFiles
    <2>6. \A u \in Versions : pages.file[u] # NoArchive => pages'.file[u] = pages.file[u]
      BY <2>1
    <2> QED BY <1>1, <1>2, <2>1, <2>2, <2>3, <2>4, <2>5, <2>6, Assembled, OthersKeep, AloneAtWork
  <1> QED BY <1>3, <1>4, <1>5 DEF Publish

LEMMA JobFailsKeeps == ASSUME PagesInv, NEW j \in Jobs, JobFails(j) PROVE PagesInv'
  <1>1. /\ PagesTypeOK /\ step[j] \in AtWork /\ End(j, "failed")
        /\ UNCHANGED <<source, pages, built, runs, others, attested>>
    BY DEF PagesInv, JobFails
  <1>2. PagesTypeOK'
    BY <1>1, EndType DEF PagesTypeOK, Over
  <1>3. step'[j] = "failed" /\ \A i \in Jobs \ {j} : step'[i] \in {step[i], "package"}
    BY <1>1, EndType DEF Over
  <1>4. WorkInHand(j)' /\ Concluded(j)'
    BY <1>3 DEF WorkInHand, Concluded
  <1>5. IndexMatchesFiles'
    BY <1>1 DEF PagesInv, IndexMatchesFiles
  <1> QED BY <1>1, <1>2, <1>3, <1>4, <1>5, Assembled, OthersKeep, AloneAtWork

LEMMA OtherCommitKeeps == ASSUME PagesInv, OtherCommit PROVE PagesInv'
  <1>1. /\ PagesTypeOK /\ others < MaxOthers /\ others' = others + 1
        /\ pages' = [pages EXCEPT !.rev = @ + 1]
        /\ source' = source /\ UNCHANGED group /\ step' = step /\ built' = built
        /\ base' = base /\ runs' = runs /\ attested' = attested
    BY DEF PagesInv, OtherCommit
  <1>2. /\ pages'.file = pages.file /\ pages'.entry = pages.entry
        /\ pages'.rev = pages.rev + 1 /\ pages' \in Pages /\ pages.rev \in Nat
    BY <1>1, PagesTyping DEF Pages
  <1>3. PagesTypeOK'
    <2>1. others' \in 0 .. MaxOthers
      BY <1>1, PagesAssumption DEF PagesTypeOK
    <2> QED BY <1>1, <1>2, <2>1 DEF PagesTypeOK, group
  <1>4. IndexMatchesFiles'
    BY <1>1, <1>2 DEF PagesInv, IndexMatchesFiles
  <1>5. ASSUME NEW i \in Jobs
        PROVE  WorkInHand(i)' /\ Concluded(i)'
    <2>1. base[i].rev \in Nat
      BY <1>1, PagesTyping DEF Pages
    <2>2. WorkInHand(i)
      BY DEF PagesInv
    <2>3. step[i] = "publish" => base[i].rev <= pages'.rev /\ base[i].rev # pages'.rev
      BY <1>2, <2>1, <2>2 DEF WorkInHand
    <2>4. WorkInHand(i)'
      BY <1>1, <1>2, <2>2, <2>3 DEF WorkInHand
    <2> QED BY <1>1, <1>2, <2>4 DEF PagesInv, Concluded
  <1> QED BY <1>1, <1>2, <1>3, <1>4, <1>5 DEF PagesInv, ReleasedIsPublished, RefusedForChange

LEMMA PagesStart == PagesInit => PagesInv
  <1> SUFFICES ASSUME PagesInit PROVE PagesInv
    OBVIOUS
  <1>1. PagesTypeOK
    BY NoPagesType, PagesAssumption
       DEF PagesInit, NothingRan, PagesTypeOK, AtWork, Over
  <1>2. IndexMatchesFiles
    BY DEF PagesInit, NothingRan, IndexMatchesFiles, NoPages, NoEntry
  <1> QED BY <1>1, <1>2 DEF PagesInit, NothingRan, PagesInv, ReleasedIsPublished,
                            RefusedForChange, WorkInHand, Concluded

LEMMA PagesStep == PagesInv /\ [PagesNext]_pagesVars => PagesInv'
  <1> SUFFICES ASSUME PagesInv, [PagesNext]_pagesVars PROVE PagesInv'
    OBVIOUS
  <1>1. CASE \E j \in Jobs : Trigger(j)
    BY <1>1, TriggerKeeps
  <1>2. CASE \E j \in Jobs : Package(j)
    BY <1>2, PackageKeeps
  <1>3. CASE \E j \in Jobs : Attest(j)
    BY <1>3, AttestKeeps
  <1>4. CASE \E j \in Jobs : Fetch(j)
    BY <1>4, FetchKeeps
  <1>5. CASE \E j \in Jobs : Publish(j)
    BY <1>5, PublishKeeps
  <1>6. CASE \E j \in Jobs : JobFails(j)
    BY <1>6, JobFailsKeeps
  <1>7. CASE OtherCommit
    BY <1>7, OtherCommitKeeps
  <1>8. CASE UNCHANGED pagesVars
    BY <1>8 DEF pagesVars, group, PagesInv, PagesTypeOK, IndexMatchesFiles,
                ReleasedIsPublished, RefusedForChange, WorkInHand, Concluded
  <1> QED BY <1>1, <1>2, <1>3, <1>4, <1>5, <1>6, <1>7, <1>8 DEF PagesNext

\* A behaviour of the chart job within one of the whole workflow.
ChartInv == part = "chart" => PagesInv

LEMMA ChartStep == ChartInv /\ [MCNext]_mcVars => ChartInv'
  <1> SUFFICES ASSUME ChartInv, [MCNext]_mcVars PROVE ChartInv'
    OBVIOUS
  <1>1. CASE RunsImage
    BY <1>1 DEF RunsImage, ChartInv
  <1>2. CASE RunsChart
    BY <1>2, PagesStep DEF RunsChart, ChartInv
  <1>3. CASE UNCHANGED mcVars
    BY <1>3, PagesStep DEF mcVars, ChartInv
  <1> QED BY <1>1, <1>2, <1>3 DEF MCNext

\* For any number of jobs, versions and contents: the branch, the index, the
\* attestations and what the release job gets agree, and a job that is refused
\* for changed bytes really has another content.
THEOREM ChartsAgree == MCSpec => []PagesAreRight
  <1>1. MCInit => ChartInv
    BY PagesStart DEF MCInit, ChartInv
  <1>2. ChartInv => PagesAreRight
    BY DEF ChartInv, PagesInv, PagesAreRight
  <1> QED BY <1>1, <1>2, ChartStep, PTL DEF MCSpec

\* For any number of jobs, versions and contents: no step of the workflow
\* changes or removes a published archive or its entry in the index.
THEOREM NeverUnpublished == MCSpec => PublishedForGood
  <1> DEFINE Kept == \A v \in Versions : pages.file[v] # NoArchive =>
                       /\ pages'.file[v] = pages.file[v]
                       /\ pages'.entry[v] = pages.entry[v]
  <1>1. ChartInv /\ [MCNext]_mcVars => [Kept]_pages
    <2> SUFFICES ASSUME ChartInv, [MCNext]_mcVars PROVE [Kept]_pages
      OBVIOUS
    <2>1. CASE RunsImage \/ UNCHANGED mcVars
      BY <2>1 DEF RunsImage, mcVars, pagesVars
    <2>2. CASE part = "chart" /\ PagesNext
      <3>1. PagesInv
        BY <2>2 DEF ChartInv
      <3>2. ASSUME NEW j \in Jobs, Publish(j) PROVE [Kept]_pages
        BY <3>1, <3>2, PushEffect DEF Publish
      <3>3. CASE OtherCommit
        <4>1. pages'.file = pages.file /\ pages'.entry = pages.entry
          BY <3>1, <3>3, PagesTyping DEF OtherCommit, PagesInv, Pages
        <4> QED BY <4>1
      <3> QED BY <2>2, <3>2, <3>3
              DEF PagesNext, Trigger, Package, Attest, Fetch, JobFails
    <2> QED BY <2>1, <2>2 DEF MCNext, RunsChart
  <1>2. MCInit => ChartInv
    BY PagesStart DEF MCInit, ChartInv
  <1> QED BY <1>1, <1>2, ChartStep, PTL DEF MCSpec, PublishedForGood

-----------------------------------------------------------------------------
(* ImageReuse: releases and images.                                          *)

IsLast(v) == v \in Pushed /\ \A w \in Pushed : w <= v
IsPrevious(p, v) == p \in Others(v) /\ \A w \in Others(v) : w <= p

\* The newest image of a release, and some image that is called main, has
\* context c.
ReleaseImage(c) ==
    \E i \in Newest(ReleaseTags) :
        images[i].context = c /\ \A k \in Newest(ReleaseTags) : i <= k
MainImage(c) == \E i \in DOMAIN images : Main \in images[i].tags /\ images[i].context = c

JobsMatch ==
    /\ \A v \in ReleaseTags : v \in Pushed <=> job[v].stage # "none"
    /\ \A v \in Pushed : job[v].head = tags[v]
    /\ job[Main].head = main /\ job[Main].stage # "none"

\* What is known while the job of release v, the last one, is on its way: the
\* newest image is that of the previous release or v's own, and v reuses it
\* only if their contexts are the same.
LastRelease(v) ==
    /\ job[v].stage = "done" => ReleaseImage(tags[v])
    /\ Others(v) # {} => \E p \in Pushed : IsPrevious(p, v)
    /\ job[v].stage = "reuse" => Others(v) # {}
    /\ \A p \in Pushed : IsPrevious(p, v) =>
           /\ ReleaseImage(tags[p]) \/ ReleaseImage(tags[v])
           /\ job[v].stage = "reuse" => tags[p] = tags[v]

ReleasesInOrder ==
    inOrder =>
        /\ \A v \in Pushed : ~IsLast(v) => job[v].stage = "done"
        /\ Pushed # {} => \E v \in Pushed : IsLast(v)
        /\ \A v \in Pushed : IsLast(v) => LastRelease(v)

\* The same for main: its image is that of the push before, or of this one.
MainInOrder ==
    ~missed =>
        /\ job[Main].stage = "done" => MainImage(main)
        /\ job[Main].before # NoContext => MainImage(job[Main].before) \/ MainImage(main)
        /\ job[Main].stage = "reuse" => job[Main].before = main

ImagesInv ==
    ReuseTypeOK /\ JobsMatch /\ ReleasesInOrder /\ MainInOrder /\ ReleaseIsCurrent

LEMMA ReuseTyping ==
  ASSUME ReuseTypeOK
  PROVE  /\ main \in Contexts /\ NoContext \notin Contexts
         /\ Pushed \subseteq ReleaseTags /\ ReleaseTags \subseteq Nat
         /\ \A v \in ReleaseTags : tags[v] \in Contexts \union {NoContext}
         /\ \A v \in Pushed : tags[v] \in Contexts
         /\ \A r \in Refs : /\ job[r].stage \in Stages
                            /\ job[r].head \in Contexts \union {NoContext}
                            /\ job[r].before \in Contexts \union {NoContext}
         /\ images \in Seq(Image) /\ Len(images) \in Nat /\ DOMAIN images = 1 .. Len(images)
         /\ \A i \in DOMAIN images : /\ images[i] \in Image
                                     /\ images[i].tags \subseteq Refs \union {Latest}
                                     /\ images[i].context \in Contexts
         /\ Main \in Refs /\ ReleaseTags \subseteq Refs
         /\ Main \notin ReleaseTags /\ Latest \notin ReleaseTags /\ Main # Latest
  <1>1. /\ Pushed \subseteq ReleaseTags
        /\ \A v \in ReleaseTags : tags[v] \in Contexts \union {NoContext}
        /\ \A v \in Pushed : tags[v] \in Contexts
    BY DEF ReuseTypeOK, Pushed
  <1>2. \A r \in Refs : /\ job[r].stage \in Stages
                        /\ job[r].head \in Contexts \union {NoContext}
                        /\ job[r].before \in Contexts \union {NoContext}
    BY DEF ReuseTypeOK, Job
  <1>3. images \in Seq(Image) /\ Len(images) \in Nat /\ DOMAIN images = 1 .. Len(images)
    BY DEF ReuseTypeOK
  <1>4. \A i \in DOMAIN images : images[i] \in Image
    BY <1>3
  <1>5. \A i \in DOMAIN images : /\ images[i].tags \subseteq Refs \union {Latest}
                                 /\ images[i].context \in Contexts
    BY <1>4 DEF Image
  <1> QED BY <1>1, <1>2, <1>3, <1>4, <1>5, ReuseAssumption DEF ReuseTypeOK, Refs

LEMMA SelectedType ==
  ASSUME ReuseTypeOK, Selected # {}
  PROVE  Min(Selected) \in DOMAIN images /\ images[Min(Selected)].context \in Contexts
  <1>1. Selected \subseteq DOMAIN images
    BY DEF Selected, Listed, Newest
  <1>2. Selected \subseteq Nat
    BY <1>1, ReuseTyping
  <1> QED BY <1>1, <1>2, Smallest, ReuseTyping

\* As long as an image of a release is listed, the newest such one is reused.
LEMMA SelectsRelease ==
  ASSUME ReuseTypeOK, NEW c, ReleaseImage(c), ~Buried
  PROVE  Selected # {} /\ images[Min(Selected)].context = c
  <1>1. PICK i \in Newest(ReleaseTags) :
            images[i].context = c /\ \A k \in Newest(ReleaseTags) : i <= k
    BY DEF ReleaseImage
  <1>2. PICK n \in Listed(ReleaseTags) : TRUE
    BY <1>1 DEF Buried
  <1>3. Selected = Listed(ReleaseTags) /\ Selected \subseteq Nat /\ Selected \subseteq Newest(ReleaseTags)
    BY <1>2, ReuseTyping DEF Selected, Listed, Newest
  <1>4. i \in Selected
    <2>1. i \in Nat /\ n \in Nat /\ PageSize \in Nat
      BY <1>1, <1>2, ReuseTyping, ReuseAssumption DEF Listed, Newest
    <2>2. i <= n /\ n <= PageSize
      BY <1>1, <1>2 DEF Listed
    <2> QED BY <1>1, <1>3, <2>1, <2>2 DEF Listed
  <1>5. Min(Selected) \in Selected /\ \A k \in Selected : Min(Selected) <= k
    BY <1>3, <1>4, Smallest
  <1>6. Min(Selected) = i
    BY <1>1, <1>3, <1>4, <1>5
  <1> QED BY <1>1, <1>4, <1>6

LEMMA SeqOf == ASSUME NEW S, NEW n \in Nat, NEW f \in [1 .. n -> S]
               PROVE  f \in Seq(S) /\ Len(f) = n
  OBVIOUS

\* A new image in front, and its names taken from the others.
LEMMA NewImage ==
  ASSUME ReuseTypeOK, NEW names \in SUBSET (Refs \union {Latest}), NEW c \in Contexts,
         images' = <<[tags |-> names, context |-> c]>>
                      \o [i \in DOMAIN images |-> Retagged(images[i], names)]
  PROVE  /\ images' \in Seq(Image)
         /\ DOMAIN images' = 1 .. Len(images) + 1
         /\ images'[1] = [tags |-> names, context |-> c]
         /\ \A i \in DOMAIN images : /\ images'[i + 1].tags = images[i].tags \ names
                                     /\ images'[i + 1].context = images[i].context
         /\ \A i, j \in DOMAIN images' :
                images'[i].tags \intersect images'[j].tags # {} => i = j
  <1> DEFINE new == [tags |-> names, context |-> c]
             old == [i \in DOMAIN images |-> Retagged(images[i], names)]
  <1>1. new \in Image
    BY DEF Image
  <1>2. \A i \in DOMAIN images : /\ Retagged(images[i], names) \in Image
                                 /\ Retagged(images[i], names).tags = images[i].tags \ names
                                 /\ Retagged(images[i], names).context = images[i].context
    BY ReuseTyping DEF Retagged, Image
  <1>3. old \in Seq(Image) /\ Len(old) = Len(images)
    <2>1. old \in [1 .. Len(images) -> Image]
      BY <1>2, ReuseTyping
    <2> HIDE DEF old
    <2> QED BY <2>1, ReuseTyping, SeqOf
  <1>4. /\ <<new>> \o old \in Seq(Image)
        /\ Len(<<new>> \o old) = Len(images) + 1
        /\ (<<new>> \o old)[1] = new
        /\ \A i \in DOMAIN images : (<<new>> \o old)[i + 1] = old[i]
    <2> HIDE DEF new, old
    <2> QED BY <1>1, <1>3, ReuseTyping
  <1>5. /\ images' \in Seq(Image)
        /\ DOMAIN images' = 1 .. Len(images) + 1
        /\ images'[1] = new
        /\ \A i \in DOMAIN images : images'[i + 1] = old[i]
    BY <1>4
  <1>6. \A i \in DOMAIN images : /\ images'[i + 1].tags = images[i].tags \ names
                                 /\ images'[i + 1].context = images[i].context
    BY <1>2, <1>5
  <1>7. ASSUME NEW i \in DOMAIN images', NEW j \in DOMAIN images',
               images'[i].tags \intersect images'[j].tags # {}
        PROVE  i = j
    <2>1. \A k \in DOMAIN images' : k = 1 \/ (k - 1 \in DOMAIN images /\ k = (k - 1) + 1)
      BY <1>5, ReuseTyping
    <2>2. \A k \in DOMAIN images' :
             k # 1 => /\ images'[k].tags = images[k - 1].tags \ names
      BY <1>6, <2>1
    <2>3. images'[1].tags = names
      BY <1>5
    <2>4. (i = 1 /\ j = 1) \/ (i # 1 /\ j # 1)
      BY <1>7, <2>2, <2>3
    <2>5. CASE i # 1 /\ j # 1
      <3>1. images[i - 1].tags \intersect images[j - 1].tags # {}
        BY <1>7, <2>2, <2>5
      <3>2. i - 1 = j - 1
        BY <2>1, <2>5, <3>1 DEF ReuseTypeOK
      <3> QED BY <1>5, <3>2, ReuseTyping
    <2> QED BY <2>4, <2>5
  <1> QED BY <1>5, <1>6, <1>7

\* A release is built: its image is the newest, and the others keep "main".
LEMMA BuiltRelease ==
  ASSUME ReuseTypeOK, NEW v \in ReleaseTags, NEW c \in Contexts,
         images' = <<[tags |-> TagsOf(v), context |-> c]>>
                      \o [i \in DOMAIN images |-> Retagged(images[i], TagsOf(v))]
  PROVE  ReleaseImage(c)' /\ \A d : MainImage(d) => MainImage(d)'
  <1>0. TagsOf(v) \in SUBSET (Refs \union {Latest}) /\ Main \notin TagsOf(v)
    BY ReuseTyping DEF TagsOf
  <1>1. /\ DOMAIN images' = 1 .. Len(images) + 1
        /\ images'[1] = [tags |-> TagsOf(v), context |-> c]
        /\ \A i \in DOMAIN images : /\ images'[i + 1].tags = images[i].tags \ TagsOf(v)
                                    /\ images'[i + 1].context = images[i].context
    BY <1>0, NewImage
  <1>2. DOMAIN images = 1 .. Len(images) /\ Len(images) \in Nat
    BY ReuseTyping
  <1>3. ReleaseImage(c)'
    <2>1. 1 \in DOMAIN images' /\ \A k \in DOMAIN images' : 1 <= k
      BY <1>1, <1>2
    <2>2. images'[1].context = c /\ images'[1].tags \intersect ReleaseTags # {}
      BY <1>1 DEF TagsOf
    <2> QED BY <2>1, <2>2 DEF ReleaseImage, Newest
  <1>4. ASSUME NEW d, MainImage(d) PROVE MainImage(d)'
    <2>1. PICK i \in DOMAIN images : Main \in images[i].tags /\ images[i].context = d
      BY <1>4 DEF MainImage
    <2>2. /\ i + 1 \in DOMAIN images'
          /\ Main \in images'[i + 1].tags /\ images'[i + 1].context = d
      <3>1. i + 1 \in DOMAIN images'
        BY <1>1, <1>2
      <3>2. images'[i + 1].tags = images[i].tags \ TagsOf(v) /\ images'[i + 1].context = d
        BY <1>1, <2>1
      <3> QED BY <1>0, <2>1, <3>1, <3>2
    <2> QED BY <2>2 DEF MainImage
  <1> QED BY <1>3, <1>4

\* main is built: it has its image, and the newest of a release stays so.
LEMMA BuiltMain ==
  ASSUME ReuseTypeOK, NEW c \in Contexts,
         images' = <<[tags |-> TagsOf(Main), context |-> c]>>
                      \o [i \in DOMAIN images |-> Retagged(images[i], TagsOf(Main))]
  PROVE  MainImage(c)' /\ \A d : ReleaseImage(d) => ReleaseImage(d)'
  <1>0. /\ TagsOf(Main) \in SUBSET (Refs \union {Latest})
        /\ TagsOf(Main) \intersect ReleaseTags = {}
    BY ReuseTyping DEF TagsOf
  <1>1. /\ DOMAIN images' = 1 .. Len(images) + 1
        /\ images'[1] = [tags |-> TagsOf(Main), context |-> c]
        /\ \A i \in DOMAIN images : /\ images'[i + 1].tags = images[i].tags \ TagsOf(Main)
                                    /\ images'[i + 1].context = images[i].context
    BY <1>0, NewImage
  <1>2. DOMAIN images = 1 .. Len(images) /\ Len(images) \in Nat
    BY ReuseTyping
  <1>3. MainImage(c)'
    <2>1. 1 \in DOMAIN images' /\ images'[1].context = c /\ Main \in images'[1].tags
      BY <1>1, <1>2 DEF TagsOf
    <2> QED BY <2>1 DEF MainImage
  <1>4. ASSUME NEW d, ReleaseImage(d) PROVE ReleaseImage(d)'
    <2>1. PICK i \in Newest(ReleaseTags) :
              images[i].context = d /\ \A k \in Newest(ReleaseTags) : i <= k
      BY <1>4 DEF ReleaseImage
    <2>2. i \in DOMAIN images /\ images[i].tags \intersect ReleaseTags # {}
      BY DEF Newest
    <2>3. /\ i + 1 \in DOMAIN images' /\ images'[i + 1].context = d
          /\ images'[i + 1].tags \intersect ReleaseTags # {}
      <3>1. i + 1 \in DOMAIN images'
        BY <1>1, <1>2, <2>2
      <3>2. images'[i + 1].tags = images[i].tags \ TagsOf(Main) /\ images'[i + 1].context = d
        BY <1>1, <2>1, <2>2
      <3> QED BY <1>0, <2>2, <3>1, <3>2
    <2>4. ASSUME NEW k \in DOMAIN images', images'[k].tags \intersect ReleaseTags # {}
          PROVE  i + 1 <= k
      <3>1. k # 1
        BY <1>0, <1>1, <2>4
      <3>2. k - 1 \in DOMAIN images /\ k = (k - 1) + 1
        BY <1>1, <1>2, <3>1
      <3>3. images[k - 1].tags \intersect ReleaseTags # {}
        BY <1>1, <2>4, <3>2
      <3>4. k - 1 \in Newest(ReleaseTags)
        BY <3>2, <3>3 DEF Newest
      <3>5. i <= k - 1
        BY <2>1, <3>4
      <3> QED BY <1>1, <1>2, <2>2, <3>2, <3>5
    <2> QED BY <2>3, <2>4 DEF ReleaseImage, Newest
  <1> QED BY <1>3, <1>4

\* What depends on the tags, or on the images, alone.
LEMMA SameTags ==
  ASSUME tags' = tags
  PROVE  /\ Pushed' = Pushed
         /\ \A v : Others(v)' = Others(v) /\ (IsLast(v)' <=> IsLast(v))
         /\ \A p, v : IsPrevious(p, v)' <=> IsPrevious(p, v)
  BY DEF Pushed, Others, IsLast, IsPrevious

LEMMA SameImages ==
  ASSUME images' = images
  PROVE  \A c : /\ ReleaseImage(c)' <=> ReleaseImage(c)
                /\ MainImage(c)' <=> MainImage(c)
  BY DEF ReleaseImage, MainImage, Newest

LEMMA ThePrevious ==
  ASSUME ReuseTypeOK, NEW v, NEW p, IsPrevious(p, v)
  PROVE  PreviousTag(v) = p /\ Others(v) # {}
  <1>1. Others(v) \subseteq Nat
    BY ReuseTyping DEF Others
  <1>2. p \in Others(v) /\ \A w \in Others(v) : p >= w
    BY <1>1 DEF IsPrevious
  <1>3. \A q \in Others(v) : (\A w \in Others(v) : q >= w) => q = p
    BY <1>1, <1>2
  <1> QED BY <1>2, <1>3 DEF PreviousTag, Max

LEMMA StageStep ==
  ASSUME ReuseTypeOK, NEW r \in Refs, NEW s \in Stages, job' = [job EXCEPT ![r].stage = s]
  PROVE  /\ job' \in [Refs -> Job]
         /\ job'[r].stage = s /\ job'[r].head = job[r].head /\ job'[r].before = job[r].before
         /\ \A q \in Refs \ {r} : job'[q] = job[q]
  BY DEF ReuseTypeOK, Job

\* A release whose job is on its way is the last one.
LEMMA OnItsWay ==
  ASSUME ImagesInv, inOrder, NEW v \in ReleaseTags, job[v].stage \in {"queued", "build", "reuse"}
  PROVE  v \in Pushed /\ IsLast(v) /\ LastRelease(v)
  BY DEF ImagesInv, JobsMatch, ReleasesInOrder

\* A job's stage changes and nothing that the other refs rely on.
LEMMA StageKeeps ==
  ASSUME ImagesInv, ReuseTypeOK', NEW r \in Refs, NEW s \in Stages \ {"none"},
         job[r].stage # "none",
         job' = [job EXCEPT ![r].stage = s],
         tags' = tags, main' = main, missed' = missed, inOrder' => inOrder,
         \A v \in Pushed \ {r} : inOrder /\ IsLast(v) /\ LastRelease(v) => LastRelease(v)',
         inOrder' /\ r \in Pushed => IsLast(r) /\ LastRelease(r)',
         MainInOrder', ReleaseIsCurrent'
  PROVE  ImagesInv'
  <1>0. /\ Main \in Refs /\ ReleaseTags \subseteq Refs /\ Pushed \subseteq ReleaseTags
        /\ ReuseTypeOK
    BY ReuseTyping DEF ImagesInv
  <1>1. /\ job'[r].stage = s /\ job'[r].head = job[r].head /\ job'[r].before = job[r].before
        /\ \A q \in Refs \ {r} : job'[q] = job[q]
    BY <1>0, StageStep
  <1>2. Pushed' = Pushed /\ \A v : IsLast(v)' <=> IsLast(v)
    BY SameTags
  <1>3. JobsMatch'
    BY <1>0, <1>1, <1>2 DEF ImagesInv, JobsMatch
  <1>4. ReleasesInOrder'
    <2> SUFFICES ASSUME inOrder' PROVE ReleasesInOrder'
      BY DEF ReleasesInOrder
    <2>1. /\ \A v \in Pushed : ~IsLast(v) => job[v].stage = "done"
          /\ Pushed # {} => \E v \in Pushed : IsLast(v)
          /\ \A v \in Pushed : IsLast(v) => LastRelease(v)
      BY DEF ImagesInv, ReleasesInOrder
    <2>2. ASSUME NEW v \in Pushed, ~IsLast(v) PROVE job'[v].stage = "done"
      BY <1>0, <1>1, <2>1, <2>2
    <2>3. ASSUME NEW v \in Pushed, IsLast(v) PROVE LastRelease(v)'
      BY <2>1, <2>3
    <2> QED BY <1>2, <2>1, <2>2, <2>3 DEF ReleasesInOrder
  <1> QED BY <1>3, <1>4 DEF ImagesInv

LEMMA PushRight == ASSUME ImagesInv, Push PROVE ImagesInv'
  <1>0. /\ Main \in Refs /\ ReleaseTags \subseteq Refs /\ Pushed \subseteq ReleaseTags
        /\ Main \notin ReleaseTags /\ main \in Contexts /\ ReuseTypeOK
    BY ReuseTyping DEF ImagesInv
  <1> DEFINE new == [stage |-> "queued", head |-> main', before |-> main]
  <1>1. /\ job' = [job EXCEPT ![Main] = new] /\ main' \in Contexts /\ pushes' = pushes + 1
        /\ pushes < MaxPushes /\ missed' = (missed \/ job[Main].stage # "done")
        /\ UNCHANGED <<tags, images, releases, troubles, inOrder>>
    BY DEF Push
  <1>2. new \in Job
    BY <1>0, <1>1 DEF Job, Stages
  <1>3. job' \in [Refs -> Job] /\ job'[Main] = new /\ \A v \in ReleaseTags : job'[v] = job[v]
    BY <1>0, <1>1, <1>2 DEF ReuseTypeOK
  <1>4. ReuseTypeOK'
    <2>1. pushes' \in 0 .. MaxPushes
      BY <1>0, <1>1, ReuseAssumption DEF ReuseTypeOK
    <2>2. missed' \in BOOLEAN
      BY <1>1
    <2> QED BY <1>0, <1>1, <1>3, <2>1, <2>2 DEF ReuseTypeOK
  <1>5. JobsMatch'
    BY <1>0, <1>1, <1>3, SameTags DEF ImagesInv, JobsMatch
  <1>6. ReleasesInOrder'
    <2>1. \A v \in Pushed : job'[v] = job[v] /\ tags'[v] = tags[v]
      BY <1>0, <1>1, <1>3
    <2>2. \A v \in Pushed : LastRelease(v) => LastRelease(v)'
      BY <1>1, <2>1, SameTags, SameImages DEF LastRelease
    <2> QED BY <1>1, <2>1, <2>2, SameTags DEF ImagesInv, ReleasesInOrder
  <1>7. MainInOrder'
    <2> SUFFICES ASSUME ~missed' PROVE MainInOrder'
      BY DEF MainInOrder
    <2>1. ~missed /\ job[Main].stage = "done"
      BY <1>1
    <2>2. MainImage(main)
      BY <2>1 DEF ImagesInv, MainInOrder
    <2>3. job'[Main].stage = "queued" /\ job'[Main].before = main
      BY <1>3
    <2>4. PICK i \in DOMAIN images : Main \in images[i].tags /\ images[i].context = main
      BY <2>2 DEF MainImage
    <2>5. MainImage(job[Main].before)'
      BY <1>1, <2>3, <2>4 DEF MainImage
    <2> QED BY <2>3, <2>5 DEF MainInOrder
  <1>8. ReleaseIsCurrent'
    BY <1>1 DEF ImagesInv, ReleaseIsCurrent
  <1> QED BY <1>4, <1>5, <1>6, <1>7, <1>8 DEF ImagesInv

LEMMA TagRight == ASSUME ImagesInv, NEW v \in ReleaseTags, Tag(v) PROVE ImagesInv'
  <1>0. /\ Main \in Refs /\ ReleaseTags \subseteq Refs /\ Pushed \subseteq ReleaseTags
        /\ Main \notin ReleaseTags /\ main \in Contexts /\ NoContext \notin Contexts
        /\ ReleaseTags \subseteq Nat /\ ReuseTypeOK
    BY ReuseTyping DEF ImagesInv
  <1> DEFINE new == [stage |-> "queued", head |-> main, before |-> NoContext]
  <1>1. /\ v \notin Pushed /\ tags' = [tags EXCEPT ![v] = main]
        /\ job' = [job EXCEPT ![v] = new]
        /\ inOrder' = (inOrder /\ \A w \in Pushed : w < v /\ job[w].stage = "done")
        /\ UNCHANGED <<main, images, releases, pushes, troubles, missed>>
    BY DEF Tag
  <1>2. new \in Job
    BY <1>0 DEF Job, Stages
  <1>3. /\ job' \in [Refs -> Job] /\ job'[v] = new
        /\ \A r \in Refs \ {v} : job'[r] = job[r]
        /\ tags' \in [ReleaseTags -> Contexts \union {NoContext}] /\ tags'[v] = main
        /\ \A w \in ReleaseTags \ {v} : tags'[w] = tags[w]
    BY <1>0, <1>1, <1>2 DEF ReuseTypeOK
  <1>4. Pushed' = Pushed \union {v} /\ Others(v)' = Pushed
    BY <1>0, <1>1, <1>3 DEF Pushed, Others
  <1>5. ReuseTypeOK'
    <2>1. inOrder' \in BOOLEAN
      BY <1>1
    <2> QED BY <1>0, <1>1, <1>3, <2>1 DEF ReuseTypeOK
  <1>6. JobsMatch'
    BY <1>0, <1>1, <1>3, <1>4 DEF ImagesInv, JobsMatch
  <1>7. ReleasesInOrder'
    <2> SUFFICES ASSUME inOrder' PROVE ReleasesInOrder'
      BY DEF ReleasesInOrder
    <2>1. inOrder /\ \A w \in Pushed : w < v /\ job[w].stage = "done"
      BY <1>1
    <2>2. IsLast(v)' /\ \A w \in Pushed : ~IsLast(w)'
      BY <1>0, <1>4, <2>1 DEF IsLast
    <2>3. \A w \in Pushed : job'[w].stage = "done"
      BY <1>0, <1>1, <1>3, <2>1
    <2>4. \A p : IsPrevious(p, v)' <=> IsLast(p)
      BY <1>4 DEF IsPrevious, IsLast
    <2>5. Pushed # {} => \E p \in Pushed : IsLast(p)
      BY <2>1 DEF ImagesInv, ReleasesInOrder
    <2>6. ASSUME NEW p \in Pushed, IsLast(p) PROVE ReleaseImage(tags[p])' /\ tags'[p] = tags[p]
      <3>1. ReleaseImage(tags[p])
        BY <2>1, <2>6 DEF ImagesInv, ReleasesInOrder, LastRelease
      <3> QED BY <1>0, <1>1, <1>3, <3>1, SameImages DEF ReleaseImage, Newest
    <2>7. LastRelease(v)'
      <3>1. job'[v].stage = "queued"
        BY <1>3
      <3>2. Others(v)' # {} => \E p \in Pushed' : IsPrevious(p, v)'
        BY <1>4, <2>4, <2>5
      <3>3. ASSUME NEW p \in Pushed', IsPrevious(p, v)' PROVE ReleaseImage(tags[p])'
        BY <1>4, <2>4, <2>6, <3>3 DEF IsLast
      <3> QED BY <3>1, <3>2, <3>3 DEF LastRelease
    <2> QED BY <1>4, <2>2, <2>3, <2>7 DEF ReleasesInOrder
  <1>8. MainInOrder'
    BY <1>0, <1>1, <1>3, SameImages DEF ImagesInv, MainInOrder
  <1>9. ReleaseIsCurrent'
    <2>1. inOrder => releases[v] = NoContext
      BY <1>1 DEF ImagesInv, ReleaseIsCurrent, Pushed
    <2> QED BY <1>1, <1>3, <2>1 DEF ImagesInv, ReleaseIsCurrent
  <1> QED BY <1>5, <1>6, <1>7, <1>8, <1>9 DEF ImagesInv

LEMMA RerunRight == ASSUME ImagesInv, NEW r \in Refs, Rerun(r) PROVE ImagesInv'
  <1>0. /\ Main \in Refs /\ ReleaseTags \subseteq Refs /\ Pushed \subseteq ReleaseTags
        /\ Main \notin ReleaseTags /\ ReuseTypeOK
    BY ReuseTyping DEF ImagesInv
  <1>1. /\ job[r].stage \in {"done", "failed"} /\ troubles < MaxTroubles
        /\ troubles' = troubles + 1 /\ job' = [job EXCEPT ![r].stage = "queued"]
        /\ inOrder' = (inOrder /\ (r = Main \/ \A w \in Pushed : w <= r))
        /\ UNCHANGED <<main, tags, images, releases, pushes, missed>>
        /\ "queued" \in Stages \ {"none"}
    BY DEF Rerun, Stages
  <1>2. /\ job' \in [Refs -> Job] /\ job'[r].stage = "queued"
        /\ job'[r].before = job[r].before /\ \A q \in Refs \ {r} : job'[q] = job[q]
    BY <1>0, <1>1, StageStep
  <1>3. ReuseTypeOK'
    <2>1. troubles' \in 0 .. MaxTroubles
      BY <1>0, <1>1, ReuseAssumption DEF ReuseTypeOK
    <2>2. inOrder' \in BOOLEAN
      BY <1>1
    <2> QED BY <1>0, <1>1, <1>2, <2>1, <2>2 DEF ReuseTypeOK
  <1>4. \A v \in Pushed \ {r} : LastRelease(v) => LastRelease(v)'
    BY <1>0, <1>1, <1>2, SameTags, SameImages DEF LastRelease
  <1>5. ASSUME inOrder', r \in Pushed PROVE IsLast(r) /\ LastRelease(r)'
    <2>1. IsLast(r) /\ LastRelease(r)
      BY <1>0, <1>1, <1>5 DEF IsLast, ImagesInv, ReleasesInOrder
    <2> QED BY <1>1, <1>2, <2>1, SameTags, SameImages DEF LastRelease
  <1>6. MainInOrder'
    BY <1>0, <1>1, <1>2, SameImages DEF ImagesInv, MainInOrder
  <1>7. ReleaseIsCurrent'
    BY <1>1 DEF ImagesInv, ReleaseIsCurrent
  <1>8. inOrder' => inOrder
    BY <1>1
  <1> QED BY <1>1, <1>3, <1>4, <1>5, <1>6, <1>7, <1>8, StageKeeps

LEMMA DetectRight == ASSUME ImagesInv, NEW r \in Refs, Detect(r) PROVE ImagesInv'
  <1>0. /\ Main \in Refs /\ ReleaseTags \subseteq Refs /\ Pushed \subseteq ReleaseTags
        /\ Main \notin ReleaseTags /\ ReuseTypeOK /\ (r = Main \/ r \in ReleaseTags)
    BY ReuseTyping DEF ImagesInv, Refs
  <1>a. PICK s \in {"build", "reuse"} :
          /\ job' = [job EXCEPT ![r].stage = s]
          /\ s = "reuse" => Base(r) = job[r].head
    BY DEF Detect
  <1>1. /\ job[r].stage = "queued" /\ job' = [job EXCEPT ![r].stage = s]
        /\ UNCHANGED <<main, tags, images, releases, pushes, troubles, missed>>
        /\ s \in {"build", "reuse"} /\ s \in Stages \ {"none"}
        /\ s = "reuse" => Base(r) = job[r].head
    BY <1>a DEF Detect, Stages
  <1>b. inOrder' = inOrder
    BY DEF Detect
  <1>2. /\ job' \in [Refs -> Job] /\ job'[r].stage = s
        /\ job'[r].before = job[r].before /\ \A q \in Refs \ {r} : job'[q] = job[q]
    BY <1>0, <1>1, StageStep
  <1>3. ReuseTypeOK'
    BY <1>0, <1>1, <1>2, <1>b DEF ReuseTypeOK
  <1>4. \A v \in Pushed \ {r} : LastRelease(v) => LastRelease(v)'
    BY <1>0, <1>1, <1>2, SameTags, SameImages DEF LastRelease
  <1>5. ASSUME inOrder', r \in Pushed PROVE IsLast(r) /\ LastRelease(r)'
    <2>1. IsLast(r) /\ LastRelease(r) /\ r # Main
      BY <1>0, <1>1, <1>5, <1>b, OnItsWay
    <2>2. job[r].head = tags[r] /\ tags[r] # NoContext
      BY <1>5 DEF ImagesInv, JobsMatch, Pushed
    <2>3. ASSUME s = "reuse"
          PROVE  Others(r) # {} /\ \A p \in Pushed : IsPrevious(p, r) => tags[p] = tags[r]
      <3>1. Base(r) = tags[r]
        BY <1>1, <2>2, <2>3
      <3>2. Others(r) # {} /\ tags[PreviousTag(r)] = tags[r]
        BY <2>1, <2>2, <3>1 DEF Base
      <3> QED BY <1>0, <3>2, ThePrevious
    <2> QED BY <1>1, <1>2, <2>1, <2>3, SameTags, SameImages DEF LastRelease
  <1>6. MainInOrder'
    <2>1. CASE r = Main
      <3>1. s = "reuse" => job[Main].before = main
        BY <1>1, <2>1 DEF Base, ImagesInv, JobsMatch
      <3> QED BY <1>1, <1>2, <2>1, <3>1, SameImages DEF ImagesInv, MainInOrder
    <2>2. CASE r # Main
      BY <1>0, <1>1, <1>2, <2>2, SameImages DEF ImagesInv, MainInOrder
    <2> QED BY <2>1, <2>2
  <1>7. ReleaseIsCurrent'
    BY <1>1, <1>b DEF ImagesInv, ReleaseIsCurrent
  <1>8. job[r].stage # "none" /\ (inOrder' => inOrder)
    BY <1>1, <1>b
  <1> QED BY <1>1, <1>3, <1>4, <1>5, <1>6, <1>7, <1>8, StageKeeps

LEMMA BuildRight == ASSUME ImagesInv, NEW r \in Refs, Build(r) PROVE ImagesInv'
  <1>0. /\ Main \in Refs /\ ReleaseTags \subseteq Refs /\ Pushed \subseteq ReleaseTags
        /\ Main \notin ReleaseTags /\ ReuseTypeOK /\ (r = Main \/ r \in ReleaseTags)
        /\ TagsOf(r) \in SUBSET (Refs \union {Latest})
    BY ReuseTyping DEF ImagesInv, Refs, TagsOf
  <1>1. /\ job[r].stage = "build" /\ job' = [job EXCEPT ![r].stage = "done"]
        /\ images' = <<[tags |-> TagsOf(r), context |-> job[r].head]>>
                        \o [i \in DOMAIN images |-> Retagged(images[i], TagsOf(r))]
        /\ UNCHANGED <<main, tags, pushes, troubles>>
        /\ releases' = IF r = Main THEN releases ELSE [releases EXCEPT ![r] = job[r].head]
        /\ "done" \in Stages \ {"none"}
    BY DEF Build, Stages, Installs
  <1>a. inOrder' = inOrder /\ missed' = missed
    BY DEF Build
  <1>2. /\ job' \in [Refs -> Job] /\ job'[r].stage = "done"
        /\ job'[r].before = job[r].before /\ \A q \in Refs \ {r} : job'[q] = job[q]
    BY <1>0, <1>1, StageStep
  <1>3. PICK c \in Contexts : /\ job[r].head = c
                              /\ r = Main => main = c
                              /\ r # Main => r \in Pushed /\ tags[r] = c
    <2>1. r # Main => r \in Pushed /\ job[r].head = tags[r]
      BY <1>0, <1>1 DEF ImagesInv, JobsMatch
    <2>2. r = Main => job[r].head = main
      BY DEF ImagesInv, JobsMatch
    <2>3. job[r].head \in Contexts
      BY <1>0, <2>1, <2>2, ReuseTyping
    <2> QED BY <2>1, <2>2, <2>3
  <1>4. ReuseTypeOK'
    <2>1. /\ images' \in Seq(Image)
          /\ \A i, j \in DOMAIN images' :
                images'[i].tags \intersect images'[j].tags # {} => i = j
      BY <1>0, <1>1, <1>3, NewImage
    <2>2. releases' \in [ReleaseTags -> Contexts \union {NoContext}]
      BY <1>0, <1>1, <1>3 DEF ReuseTypeOK
    <2> QED BY <1>0, <1>1, <1>a, <1>2, <2>1, <2>2 DEF ReuseTypeOK
  <1>5. ReleaseIsCurrent'
    <2>1. \A v \in ReleaseTags : releases'[v] \in {releases[v], tags[v]}
      BY <1>0, <1>1, <1>3 DEF ReuseTypeOK
    <2> QED BY <1>1, <1>a, <2>1 DEF ImagesInv, ReleaseIsCurrent
  <1>6. CASE r = Main
    <2>1. MainImage(c)' /\ \A d : ReleaseImage(d) => ReleaseImage(d)'
      BY <1>0, <1>1, <1>3, <1>6, BuiltMain
    <2>2. \A v \in Pushed \ {r} : LastRelease(v) => LastRelease(v)'
      BY <1>0, <1>1, <1>2, <1>6, <2>1, SameTags DEF LastRelease
    <2>3. MainInOrder'
      BY <1>1, <1>2, <1>3, <1>6, <2>1 DEF MainInOrder
    <2>4. r \notin Pushed /\ job[r].stage # "none"
      BY <1>0, <1>1, <1>6
    <2> QED BY <1>1, <1>a, <1>4, <1>5, <2>2, <2>3, <2>4, StageKeeps
  <1>7. CASE r # Main
    <2>0. r \in ReleaseTags
      BY <1>0, <1>7
    <2>1. ReleaseImage(c)' /\ \A d : MainImage(d) => MainImage(d)'
      BY <1>0, <1>1, <1>3, <2>0, BuiltRelease
    <2>2. ASSUME NEW v \in Pushed \ {r}, inOrder PROVE ~IsLast(v)
      <3>1. IsLast(r)
        BY <1>1, <2>0, <2>2, OnItsWay
      <3> QED BY <1>0, <3>1, ReuseTyping DEF IsLast
    <2>3. ASSUME inOrder', r \in Pushed PROVE IsLast(r) /\ LastRelease(r)'
      <3>1. IsLast(r) /\ LastRelease(r)
        BY <1>1, <1>a, <2>0, <2>3, OnItsWay
      <3> QED BY <1>1, <1>2, <1>3, <1>7, <2>1, <3>1, SameTags DEF LastRelease
    <2>4. MainInOrder'
      BY <1>0, <1>1, <1>a, <1>2, <1>7, <2>1 DEF ImagesInv, MainInOrder
    <2>5. job[r].stage # "none"
      BY <1>1
    <2> QED BY <1>0, <1>1, <1>a, <1>4, <1>5, <2>2, <2>3, <2>4, <2>5, StageKeeps
  <1> QED BY <1>6, <1>7

LEMMA ReuseRight == ASSUME ImagesInv, NEW r \in Refs, Reuse(r) PROVE ImagesInv'
  <1>0. /\ Main \in Refs /\ ReleaseTags \subseteq Refs /\ Pushed \subseteq ReleaseTags
        /\ Main \notin ReleaseTags /\ ReuseTypeOK /\ (r = Main \/ r \in ReleaseTags)
        /\ main \in Contexts /\ NoContext \notin Contexts
    BY ReuseTyping DEF ImagesInv, Refs
  <1> DEFINE found == images[Min(Selected)].context
  <1>1. /\ job[r].stage = "reuse" /\ job' = [job EXCEPT ![r].stage = "done"]
        /\ UNCHANGED <<main, tags, images, pushes, troubles>>
        /\ releases' = IF r = Main THEN releases ELSE [releases EXCEPT ![r] = found]
        /\ "done" \in Stages \ {"none"}
    BY DEF Reuse, Stages, Installs
  <1>a. inOrder' = (inOrder /\ (r = Main \/ ~Buried)) /\ inOrder' \in BOOLEAN /\ missed' = missed
    BY DEF Reuse
  <1>2. /\ job' \in [Refs -> Job] /\ job'[r].stage = "done"
        /\ job'[r].before = job[r].before /\ \A q \in Refs \ {r} : job'[q] = job[q]
    BY <1>0, <1>1, StageStep
  <1>3. ReuseTypeOK'
    <2>1. found \in Contexts
      BY <1>0, SelectedType DEF Reuse
    <2>2. releases' \in [ReleaseTags -> Contexts \union {NoContext}]
      <3> HIDE DEF found
      <3> QED BY <1>0, <1>1, <2>1 DEF ReuseTypeOK
    <2> QED BY <1>0, <1>1, <1>a, <1>2, <2>2 DEF ReuseTypeOK
  <1>4. ASSUME inOrder, r \in ReleaseTags
        PROVE  r \in Pushed /\ IsLast(r) /\ LastRelease(r) /\ ReleaseImage(tags[r])
    <2>1. r \in Pushed /\ IsLast(r) /\ LastRelease(r)
      BY <1>1, <1>4, OnItsWay
    <2>2. PICK p \in Pushed : IsPrevious(p, r)
      BY <1>1, <2>1 DEF LastRelease
    <2> QED BY <1>1, <2>1, <2>2 DEF LastRelease
  <1>5. inOrder' /\ r \in ReleaseTags => found = tags[r]
    BY <1>0, <1>a, <1>4, SelectsRelease
  <1>6. ReleaseIsCurrent'
    <2> HIDE DEF found
    <2>1. inOrder' => \A v \in ReleaseTags : releases'[v] \in {releases[v], tags[v]}
      BY <1>0, <1>1, <1>5 DEF ReuseTypeOK
    <2> QED BY <1>1, <1>a, <2>1 DEF ImagesInv, ReleaseIsCurrent
  <1>7. \A v \in Pushed \ {r} : LastRelease(v) => LastRelease(v)'
    BY <1>0, <1>1, <1>2, SameTags, SameImages DEF LastRelease
  <1>8. ASSUME inOrder', r \in Pushed PROVE IsLast(r) /\ LastRelease(r)'
    <2>1. IsLast(r) /\ LastRelease(r) /\ ReleaseImage(tags[r])
      BY <1>0, <1>a, <1>4, <1>8
    <2> QED BY <1>1, <1>2, <2>1, SameTags, SameImages DEF LastRelease
  <1>9. MainInOrder'
    <2>1. CASE r = Main
      <3>1. ~missed => MainImage(main)
        BY <1>0, <1>1, <2>1 DEF ImagesInv, MainInOrder
      <3> QED BY <1>1, <1>a, <1>2, <2>1, <3>1, SameImages DEF MainInOrder
    <2>2. CASE r # Main
      BY <1>0, <1>1, <1>a, <1>2, <2>2, SameImages DEF ImagesInv, MainInOrder
    <2> QED BY <2>1, <2>2
  <1>10. job[r].stage # "none"
    BY <1>1
  <1> QED BY <1>1, <1>a, <1>3, <1>6, <1>7, <1>8, <1>9, <1>10, StageKeeps

LEMMA FailRight == ASSUME ImagesInv, NEW r \in Refs, ImageJobFails(r) PROVE ImagesInv'
  <1>0. /\ Main \in Refs /\ ReleaseTags \subseteq Refs /\ Pushed \subseteq ReleaseTags
        /\ Main \notin ReleaseTags /\ ReuseTypeOK /\ (r = Main \/ r \in ReleaseTags)
    BY ReuseTyping DEF ImagesInv, Refs
  <1>1. /\ job[r].stage \in {"queued", "build", "reuse"}
        /\ job' = [job EXCEPT ![r].stage = "failed"]
        /\ troubles' = troubles \/ (troubles < MaxTroubles /\ troubles' = troubles + 1)
        /\ UNCHANGED <<main, tags, images, releases, pushes>>
        /\ "failed" \in Stages \ {"none"}
    BY DEF ImageJobFails, Stages, Running
  <1>a. inOrder' = inOrder /\ missed' = missed
    BY DEF ImageJobFails
  <1>2. /\ job' \in [Refs -> Job] /\ job'[r].stage = "failed"
        /\ job'[r].before = job[r].before /\ \A q \in Refs \ {r} : job'[q] = job[q]
    BY <1>0, <1>1, StageStep
  <1>3. ReuseTypeOK'
    <2>1. troubles' \in 0 .. MaxTroubles
      BY <1>0, <1>1, ReuseAssumption DEF ReuseTypeOK
    <2> QED BY <1>0, <1>1, <1>a, <1>2, <2>1 DEF ReuseTypeOK
  <1>4. \A v \in Pushed \ {r} : LastRelease(v) => LastRelease(v)'
    BY <1>0, <1>1, <1>2, SameTags, SameImages DEF LastRelease
  <1>5. ASSUME inOrder', r \in Pushed PROVE IsLast(r) /\ LastRelease(r)'
    <2>1. IsLast(r) /\ LastRelease(r)
      BY <1>0, <1>1, <1>a, <1>5, OnItsWay
    <2> QED BY <1>1, <1>2, <2>1, SameTags, SameImages DEF LastRelease
  <1>6. MainInOrder'
    BY <1>0, <1>1, <1>a, <1>2, SameImages DEF ImagesInv, MainInOrder
  <1>7. ReleaseIsCurrent'
    BY <1>1, <1>a DEF ImagesInv, ReleaseIsCurrent
  <1>8. job[r].stage # "none"
    BY <1>1
  <1> QED BY <1>1, <1>a, <1>3, <1>4, <1>5, <1>6, <1>7, <1>8, StageKeeps

LEMMA ReuseStart == ReuseInit => ImagesInv
  <1> SUFFICES ASSUME NEW c \in Contexts, Starts(c) PROVE ImagesInv
    BY DEF ReuseInit
  <1>1. Pushed = {}
    BY DEF Starts, Pushed
  <1>2. /\ Main \in Refs /\ ReleaseTags \subseteq Refs /\ Main \notin ReleaseTags
        /\ [stage |-> "queued", head |-> c, before |-> NoContext] \in Job /\ NoJob \in Job
    BY ReuseAssumption DEF Refs, Job, NoJob, Stages
  <1>3. /\ job \in [Refs -> Job] /\ \A v \in ReleaseTags : job[v] = NoJob
        /\ job[Main] = [stage |-> "queued", head |-> c, before |-> NoContext]
    BY <1>2 DEF Starts
  <1>4. ReuseTypeOK
    <2>1. /\ main \in Contexts /\ images = << >> /\ pushes = 0 /\ troubles = 0
          /\ tags \in [ReleaseTags -> Contexts \union {NoContext}]
          /\ releases \in [ReleaseTags -> Contexts \union {NoContext}]
      BY DEF Starts
    <2>2. inOrder \in BOOLEAN /\ missed \in BOOLEAN
      BY DEF Starts
    <2>3. images \in Seq(Image) /\ DOMAIN images = {}
      BY <2>1
    <2>4. pushes \in 0 .. MaxPushes /\ troubles \in 0 .. MaxTroubles
      BY <2>1, ReuseAssumption
    <2> QED BY <1>3, <2>1, <2>2, <2>3, <2>4 DEF ReuseTypeOK
  <1>5. JobsMatch
    BY <1>1, <1>3 DEF JobsMatch, Starts, NoJob
  <1>6. ReleasesInOrder
    BY <1>1 DEF ReleasesInOrder
  <1>7. MainInOrder
    BY <1>3 DEF MainInOrder
  <1>8. ReleaseIsCurrent
    BY DEF Starts, ReleaseIsCurrent
  <1> QED BY <1>4, <1>5, <1>6, <1>7, <1>8 DEF ImagesInv

LEMMA ReuseStep == ImagesInv /\ [ReuseNext]_reuseVars => ImagesInv'
  <1> SUFFICES ASSUME ImagesInv, [ReuseNext]_reuseVars PROVE ImagesInv'
    OBVIOUS
  <1>1. CASE Push
    BY <1>1, PushRight
  <1>2. CASE \E v \in ReleaseTags : Tag(v)
    BY <1>2, TagRight
  <1>3. CASE \E r \in Refs : Rerun(r)
    BY <1>3, RerunRight
  <1>4. CASE \E r \in Refs : Detect(r)
    BY <1>4, DetectRight
  <1>5. CASE \E r \in Refs : Build(r)
    BY <1>5, BuildRight
  <1>6. CASE \E r \in Refs : Reuse(r)
    BY <1>6, ReuseRight
  <1>7. CASE \E r \in Refs : ImageJobFails(r)
    BY <1>7, FailRight
  <1>8. CASE UNCHANGED reuseVars
    <2>1. /\ UNCHANGED <<main, tags, job, images, releases, pushes, troubles>>
          /\ inOrder' = inOrder /\ missed' = missed
      BY <1>8 DEF reuseVars
    <2>2. ReuseTypeOK' /\ JobsMatch' /\ ReleaseIsCurrent'
      BY <2>1, SameTags DEF ImagesInv, ReuseTypeOK, JobsMatch, ReleaseIsCurrent
    <2>3. \A v : LastRelease(v) => LastRelease(v)'
      BY <2>1, SameTags, SameImages DEF LastRelease
    <2>4. ReleasesInOrder' /\ MainInOrder'
      BY <2>1, <2>3, SameTags, SameImages DEF ImagesInv, ReleasesInOrder, MainInOrder
    <2> QED BY <2>2, <2>4 DEF ImagesInv
  <1> QED BY <1>1, <1>2, <1>3, <1>4, <1>5, <1>6, <1>7, <1>8 DEF ReuseNext

\* A behaviour of the image job within one of the whole workflow.
ImageInv == part = "image" => ImagesInv

LEMMA ImageStep == ImageInv /\ [MCNext]_mcVars => ImageInv'
  <1> SUFFICES ASSUME ImageInv, [MCNext]_mcVars PROVE ImageInv'
    OBVIOUS
  <1>1. CASE RunsImage
    BY <1>1, ReuseStep DEF RunsImage, ImageInv
  <1>2. CASE RunsChart
    BY <1>2 DEF RunsChart, ImageInv
  <1>3. CASE UNCHANGED mcVars
    BY <1>3, ReuseStep DEF mcVars, ImageInv
  <1> QED BY <1>1, <1>2, <1>3 DEF MCNext

\* For any contexts, releases, pushes and troubles: releases that are tagged in
\* turn install images of their own context, and what is called main is main.
THEOREM ReleasesAreCurrent == MCSpec => []ImagesAreCurrent
  <1>1. MCInit => ImageInv
    BY ReuseStart DEF MCInit, ImageInv
  <1>2. ASSUME ImagesInv PROVE MainIsCurrent
    BY <1>2 DEF ImagesInv, MainInOrder, MainImage, MainIsCurrent
  <1>3. ImageInv => ImagesAreCurrent
    BY <1>2 DEF ImageInv, ImagesInv, ImagesAreCurrent
  <1> QED BY <1>1, <1>3, ImageStep, PTL DEF MCSpec
=============================================================================
