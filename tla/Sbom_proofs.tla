---------------------------- MODULE Sbom_proofs ----------------------------
(* Proofs about the SBOM generator, for any number of statements of any      *)
(* size: what compaction does to one, and what the adapter leaves on disk.   *)
EXTENDS SbomAdapter, Positions_proofs

-----------------------------------------------------------------------------
(* SbomCompact                                                               *)

\* A field with a list in it, and what its entries are.
LEMMA FieldEntries ==
  ASSUME NEW S, NEW field \in Seq(S), field \notin {NoField, BadJson}
  PROVE  /\ Entries(field) = {field[i] : i \in DOMAIN field}
         /\ Entries(field) \subseteq S
  BY DEF Entries, ToSet

LEMMA NoEntries ==
  /\ Entries(NoField) = {} /\ Entries(BadJson) = {}
  /\ Entries(<< >>) = {}
  BY DEF Entries, ToSet

\* Picking from a list keeps the entries at the positions.
LEMMA PickedIs ==
  ASSUME NEW S, NEW s \in Seq(S), NoField \notin Seq(S), BadJson \notin Seq(S),
         NEW F \in SUBSET (DOMAIN s)
  PROVE  /\ Picked(s, F) \in Seq(S) /\ Picked(s, F) \notin {NoField, BadJson}
         /\ Entries(Picked(s, F)) = {s[i] : i \in F}
         /\ Len(Picked(s, F)) <= Len(s)
  <1>1. /\ Picked(s, F) \in Seq(S)
        /\ Len(Picked(s, F)) <= Len(s)
        /\ DOMAIN Picked(s, F) = 1 .. Cardinality(F)
        /\ InOrder(F) \in [1 .. Cardinality(F) -> F]
        /\ \A k \in 1 .. Cardinality(F) : Picked(s, F)[k] = s[InOrder(F)[k]]
        /\ \A i \in F : \E k \in 1 .. Cardinality(F) : InOrder(F)[k] = i
    BY PickedEntries
  <1>2. Picked(s, F) \notin {NoField, BadJson}
    BY <1>1
  <1>3. Entries(Picked(s, F)) = {Picked(s, F)[k] : k \in DOMAIN Picked(s, F)}
    BY <1>1, <1>2, FieldEntries
  <1>4. {Picked(s, F)[k] : k \in DOMAIN Picked(s, F)} = {s[i] : i \in F}
    BY <1>1
  <1> QED BY <1>1, <1>2, <1>3, <1>4

LEMMA StatementType ==
  ASSUME NEW doc \in Statements
  PROVE  /\ doc.spdx \in BOOLEAN
         /\ doc.files \in Seq(FileEntries) \cup {NoField, BadJson}
         /\ doc.packages \in Seq(Packages) \cup {NoField, BadJson}
         /\ doc.relationships \in Seq(Relationships) \cup {NoField, BadJson}
         /\ DOMAIN doc = {"spdx", "files", "packages", "relationships"}
  BY DEF Statements

\* What filterHasFiles leaves of a package that decodes.
LEMMA PackageKept ==
  ASSUME NEW p \in Packages, NEW ids, p.hasFiles # BadJson
  PROVE  LET q == KeepFiles(p, ids)
         IN  /\ q \in Packages /\ q.name = p.name
             /\ q.hasFiles # BadJson
             /\ Entries(q.hasFiles) = {id \in Entries(p.hasFiles) : id \notin ids}
             /\ ids = {} => q = p
  <1> DEFINE q == KeepFiles(p, ids)
             F == {i \in DOMAIN p.hasFiles : p.hasFiles[i] \notin ids}
             kept == Picked(p.hasFiles, F)
  <1>1. /\ p.name \in Ids /\ p.hasFiles \in Seq(Ids \cup {BadJson}) \cup {NoField}
        /\ \A h \in Seq(Ids \cup {BadJson}) \cup {NoField} :
              /\ [p EXCEPT !.hasFiles = h] \in Packages
              /\ [p EXCEPT !.hasFiles = h].name = p.name
              /\ [p EXCEPT !.hasFiles = h].hasFiles = h
    BY DEF Packages
  <1>2. CASE p.hasFiles = NoField \/ ids = {}
    <2>1. q = p
      BY <1>2 DEF KeepFiles
    <2>2. Entries(p.hasFiles) = {id \in Entries(p.hasFiles) : id \notin ids}
      BY <1>2, NoEntries
    <2> QED BY <2>1, <2>2
  <1>3. CASE p.hasFiles # NoField /\ ids # {}
    <2>1. /\ p.hasFiles \in Seq(Ids \cup {BadJson})
          /\ p.hasFiles \notin {NoField, BadJson}
          /\ NoField \notin Seq(Ids \cup {BadJson}) /\ BadJson \notin Seq(Ids \cup {BadJson})
      BY <1>1, <1>3, CompactAssumption
    <2>2. /\ kept \in Seq(Ids \cup {BadJson}) /\ kept \notin {NoField, BadJson}
          /\ Entries(kept) = {p.hasFiles[i] : i \in F}
      BY <2>1, PickedIs
    <2>3. Entries(p.hasFiles) = {p.hasFiles[i] : i \in DOMAIN p.hasFiles}
      BY <2>1, FieldEntries
    <2>4. Entries(kept) = {id \in Entries(p.hasFiles) : id \notin ids}
      BY <2>2, <2>3
    <2>5. q = [p EXCEPT !.hasFiles = IF kept = << >> THEN NoField ELSE kept]
      BY <1>3 DEF KeepFiles, Without
    <2> HIDE DEF kept, q
    <2>6. CASE kept = << >>
      <3>1. q = [p EXCEPT !.hasFiles = NoField]
        BY <2>5, <2>6
      <3>2. q \in Packages /\ q.name = p.name /\ q.hasFiles = NoField
        BY <1>1, <3>1
      <3> QED BY <1>3, <2>4, <2>6, <3>2, NoEntries, CompactAssumption DEF q
    <2>7. CASE kept # << >>
      <3>1. q = [p EXCEPT !.hasFiles = kept]
        BY <2>5, <2>7
      <3>2. q \in Packages /\ q.name = p.name /\ q.hasFiles = kept
        BY <1>1, <2>2, <3>1
      <3> QED BY <1>3, <2>2, <2>4, <3>2 DEF q
    <2> QED BY <2>6, <2>7
  <1> QED BY <1>2, <1>3

\* What Statement makes of an accepted one, field by field.
LEMMA CompactFields ==
  ASSUME NEW doc \in Statements, Accepts(doc, MaxSize)
  PROVE  LET new == Compact(doc)
             ids == FileIds(doc)
         IN  /\ new \in Statements /\ new.spdx = doc.spdx
             /\ new.files = NoField
             /\ doc.packages = NoField => new.packages = NoField
             /\ doc.packages # NoField =>
                  /\ doc.packages \in Seq(Packages) /\ new.packages \in Seq(Packages)
                  /\ DOMAIN new.packages = DOMAIN doc.packages
                  /\ Len(new.packages) = Len(doc.packages)
                  /\ \A i \in DOMAIN doc.packages :
                        /\ new.packages[i] = KeepFiles(doc.packages[i], ids)
                        /\ doc.packages[i] \in Packages
                        /\ doc.packages[i].hasFiles # BadJson
                        /\ BadJson \notin Entries(doc.packages[i].hasFiles)
             /\ doc.relationships = NoField => new.relationships = NoField
             /\ doc.relationships # NoField =>
                  LET kept == {i \in DOMAIN doc.relationships :
                                   KeepRelationship(doc.relationships[i], ids)}
                  IN  /\ doc.relationships \in Seq(Relationships)
                      /\ new.relationships = Picked(doc.relationships, kept)
                      /\ new.relationships \in Seq(Relationships)
  <1> DEFINE new == Compact(doc)
             ids == FileIds(doc)
             pkgs == IF doc.packages = NoField THEN NoField
                     ELSE [i \in DOMAIN doc.packages |-> KeepFiles(doc.packages[i], ids)]
             kept == {i \in DOMAIN doc.relationships :
                          KeepRelationship(doc.relationships[i], ids)}
             rels == IF doc.relationships = NoField THEN NoField
                     ELSE Picked(doc.relationships, kept)
  <1>1. /\ doc.spdx \in BOOLEAN
        /\ doc.packages \in Seq(Packages) \cup {NoField}
        /\ doc.relationships \in Seq(Relationships) \cup {NoField}
    BY StatementType DEF Accepts, HasFilesDecode, RelationshipsDecode
  <1>2. new = [doc EXCEPT !.files = NoField, !.packages = pkgs, !.relationships = rels]
    BY DEF Compact
  <1>3. doc.packages # NoField =>
          /\ doc.packages \in Seq(Packages) /\ doc.packages \notin {NoField, BadJson}
          /\ Entries(doc.packages) = {doc.packages[i] : i \in DOMAIN doc.packages}
          /\ DOMAIN doc.packages = 1 .. Len(doc.packages) /\ Len(doc.packages) \in Nat
          /\ \A i \in DOMAIN doc.packages : doc.packages[i] \in Packages
    BY <1>1, FieldEntries DEF Accepts, HasFilesDecode
  <1>4. doc.packages # NoField => \A i \in DOMAIN doc.packages :
          /\ doc.packages[i].hasFiles # BadJson
          /\ BadJson \notin Entries(doc.packages[i].hasFiles)
    BY <1>3 DEF Accepts, HasFilesDecode
  <1>5. doc.packages # NoField => \A i \in DOMAIN doc.packages :
          KeepFiles(doc.packages[i], ids) \in Packages
    BY <1>3, <1>4, PackageKept
  <1> HIDE DEF ids
  <1>6. doc.packages # NoField =>
          /\ pkgs \in Seq(Packages) /\ DOMAIN pkgs = DOMAIN doc.packages
          /\ Len(pkgs) = Len(doc.packages)
          /\ \A i \in DOMAIN doc.packages : pkgs[i] = KeepFiles(doc.packages[i], ids)
    <2> SUFFICES ASSUME doc.packages # NoField
                 PROVE  /\ pkgs \in Seq(Packages) /\ DOMAIN pkgs = DOMAIN doc.packages
                        /\ Len(pkgs) = Len(doc.packages)
                        /\ \A i \in DOMAIN doc.packages : pkgs[i] = KeepFiles(doc.packages[i], ids)
      OBVIOUS
    <2> DEFINE n == Len(doc.packages)
    <2>1. n \in Nat /\ DOMAIN doc.packages = 1 .. n
      BY <1>3
    <2>2. pkgs = [i \in 1 .. n |-> KeepFiles(doc.packages[i], ids)]
      BY <2>1
    <2>3. \A i \in 1 .. n : KeepFiles(doc.packages[i], ids) \in Packages
      BY <1>5, <2>1
    <2> HIDE DEF pkgs, n
    <2>4. pkgs \in [1 .. n -> Packages]
      BY <2>2, <2>3
    <2>5. pkgs \in Seq(Packages) /\ DOMAIN pkgs = 1 .. n /\ Len(pkgs) = n
      BY <2>1, <2>4
    <2> QED BY <2>1, <2>2, <2>5 DEF n
  <1>7. doc.relationships # NoField => doc.relationships \in Seq(Relationships) /\ rels \in Seq(Relationships)
    <2> SUFFICES ASSUME doc.relationships # NoField
                 PROVE  doc.relationships \in Seq(Relationships) /\ rels \in Seq(Relationships)
      OBVIOUS
    <2>1. doc.relationships \in Seq(Relationships) /\ kept \in SUBSET (DOMAIN doc.relationships)
      BY <1>1
    <2> HIDE DEF kept
    <2>2. Picked(doc.relationships, kept) \in Seq(Relationships)
      BY <2>1, PickedEntries
    <2> QED BY <2>1, <2>2
  <1>8. pkgs \in Seq(Packages) \cup {NoField} /\ rels \in Seq(Relationships) \cup {NoField}
    BY <1>6, <1>7
  <1> HIDE DEF pkgs, rels, new
  <1>9. /\ new \in Statements /\ new.spdx = doc.spdx /\ new.files = NoField
        /\ new.packages = pkgs /\ new.relationships = rels
    BY <1>2, <1>8 DEF Statements
  <1>10. doc.packages = NoField => new.packages = NoField
    BY <1>9 DEF pkgs
  <1>11. doc.relationships = NoField => new.relationships = NoField
    BY <1>9 DEF rels
  <1>12. doc.relationships # NoField => new.relationships = Picked(doc.relationships, kept)
    BY <1>9 DEF rels
  <1> QED BY <1>3, <1>4, <1>6, <1>7, <1>9, <1>10, <1>11, <1>12 DEF new, ids

\* The packages after compaction are those before it, with fewer files.
LEMMA CompactPackages ==
  ASSUME NEW doc \in Statements, Accepts(doc, MaxSize)
  PROVE  LET old == Entries(doc.packages)
             new == Entries(Compact(doc).packages)
             ids == FileIds(doc)
         IN  /\ \A k \in new : /\ k \in Packages /\ k.hasFiles # BadJson
                               /\ BadJson \notin Entries(k.hasFiles)
                               /\ Entries(k.hasFiles) \cap ids = {}
             /\ {k.name : k \in new} = {k.name : k \in old}
             /\ Compact(doc).packages # BadJson
  <1> DEFINE ids == FileIds(doc)
             new == Compact(doc).packages
             old == doc.packages
  <1>1. CASE old = NoField
    <2>1. new = NoField
      BY <1>1, CompactFields
    <2> QED BY <1>1, <2>1, NoEntries, CompactAssumption
  <1>2. CASE old # NoField
    <2>1. /\ old \in Seq(Packages) /\ new \in Seq(Packages) /\ DOMAIN new = DOMAIN old
          /\ \A i \in DOMAIN old : /\ new[i] = KeepFiles(old[i], ids)
                                   /\ old[i] \in Packages /\ old[i].hasFiles # BadJson
                                   /\ BadJson \notin Entries(old[i].hasFiles)
      BY <1>2, CompactFields
    <2>2. /\ old \notin {NoField, BadJson} /\ new \notin {NoField, BadJson}
      BY <2>1, CompactAssumption
    <2> HIDE DEF old, new, ids
    <2>3. /\ Entries(old) = {old[i] : i \in DOMAIN old}
          /\ Entries(new) = {new[i] : i \in DOMAIN new}
      BY <2>1, <2>2, FieldEntries
    <2>4. \A i \in DOMAIN old :
              /\ new[i] \in Packages /\ new[i].name = old[i].name
              /\ new[i].hasFiles # BadJson
              /\ Entries(new[i].hasFiles) = {id \in Entries(old[i].hasFiles) : id \notin ids}
      BY <2>1, PackageKept
    <2>5. \A i \in DOMAIN old : /\ BadJson \notin Entries(new[i].hasFiles)
                                /\ Entries(new[i].hasFiles) \cap ids = {}
      BY <2>1, <2>4
    <2>6. {k.name : k \in Entries(new)} = {k.name : k \in Entries(old)}
      BY <2>1, <2>3, <2>4
    <2> QED BY <2>1, <2>2, <2>3, <2>4, <2>5, <2>6 DEF old, new, ids
  <1> QED BY <1>1, <1>2

\* The relationships after compaction are those that name no dropped file.
LEMMA CompactRelationships ==
  ASSUME NEW doc \in Statements, Accepts(doc, MaxSize)
  PROVE  LET old == Entries(doc.relationships)
             new == Entries(Compact(doc).relationships)
         IN  /\ new = {r \in old : {r.from, r.to} \cap FileIds(doc) = {}}
             /\ \A r \in new : r \in Relationships /\ BadJson \notin {r.from, r.to}
             /\ Compact(doc).relationships # BadJson
  <1> DEFINE ids == FileIds(doc)
             new == Compact(doc).relationships
             old == doc.relationships
             kept == {i \in DOMAIN old : KeepRelationship(old[i], ids)}
  <1>1. CASE old = NoField
    <2>1. new = NoField
      BY <1>1, CompactFields
    <2> QED BY <1>1, <2>1, NoEntries, CompactAssumption
  <1>2. CASE old # NoField
    <2>1. old \in Seq(Relationships) /\ new = Picked(old, kept)
      BY <1>2, CompactFields
    <2>2. \A r \in Entries(old) : BadJson \notin {r.from, r.to}
      BY DEF Accepts, RelationshipsDecode
    <2>3. /\ NoField \notin Seq(Relationships) /\ BadJson \notin Seq(Relationships)
          /\ old \notin {NoField, BadJson}
      BY <2>1, CompactAssumption
    <2>4. kept \in SUBSET (DOMAIN old)
      OBVIOUS
    <2> HIDE DEF old, new, ids, kept
    <2>5. new \notin {NoField, BadJson} /\ Entries(new) = {old[i] : i \in kept}
      BY <2>1, <2>3, <2>4, PickedIs
    <2>6. Entries(old) = {old[i] : i \in DOMAIN old} /\ Entries(old) \subseteq Relationships
      BY <2>1, <2>3, FieldEntries
    <2>7. \A i \in DOMAIN old : i \in kept <=> {old[i].from, old[i].to} \cap ids = {}
      BY DEF kept, KeepRelationship
    <2>8. Entries(new) = {r \in Entries(old) : {r.from, r.to} \cap ids = {}}
      BY <2>4, <2>5, <2>6, <2>7
    <2> QED BY <2>2, <2>5, <2>6, <2>8 DEF old, new, ids
  <1> QED BY <1>1, <1>2

\* Compacting again is allowed, and changes nothing.
LEMMA CompactTwice ==
  ASSUME NEW doc \in Statements, Accepts(doc, MaxSize)
  PROVE  Accepts(Compact(doc), MaxSize) /\ Compact(Compact(doc)) = Compact(doc)
  <1> DEFINE new == Compact(doc)
             pkgs == IF new.packages = NoField THEN new.packages
                     ELSE [i \in DOMAIN new.packages |-> KeepFiles(new.packages[i], FileIds(new))]
             kept == {i \in DOMAIN new.relationships :
                          KeepRelationship(new.relationships[i], FileIds(new))}
             rels == IF new.relationships = NoField THEN new.relationships
                     ELSE Picked(new.relationships, kept)
  <1>1. /\ new \in Statements /\ new.spdx = doc.spdx /\ new.files = NoField
        /\ new.packages \in Seq(Packages) \cup {NoField}
        /\ new.relationships \in Seq(Relationships) \cup {NoField}
    <2>1. /\ new \in Statements /\ new.spdx = doc.spdx /\ new.files = NoField
          /\ doc.packages = NoField => new.packages = NoField
          /\ doc.packages # NoField => new.packages \in Seq(Packages)
          /\ doc.relationships = NoField => new.relationships = NoField
          /\ doc.relationships # NoField => new.relationships \in Seq(Relationships)
      BY CompactFields
    <2> QED BY <2>1
  <1>2. /\ \A k \in Entries(new.packages) : /\ k \in Packages /\ k.hasFiles # BadJson
                                            /\ BadJson \notin Entries(k.hasFiles)
        /\ new.packages # BadJson
    BY CompactPackages
  <1>3. /\ \A r \in Entries(new.relationships) : BadJson \notin {r.from, r.to}
        /\ new.relationships # BadJson
    BY CompactRelationships
  <1>4. Size(new) <= MaxSize /\ new.spdx
    BY <1>1 DEF Accepts
  <1>5. Compact(new) = [new EXCEPT !.files = NoField, !.packages = pkgs, !.relationships = rels]
    BY DEF Compact
  <1> HIDE DEF new
  <1>6. FileIds(new) = {} /\ Entries(new.files) = {}
    BY <1>1, NoEntries DEF FileIds
  <1>7. pkgs = new.packages
    <2> SUFFICES ASSUME new.packages # NoField
                 PROVE  [i \in DOMAIN new.packages |-> KeepFiles(new.packages[i], FileIds(new))]
                          = new.packages
      OBVIOUS
    <2>1. new.packages \in Seq(Packages) /\ new.packages \notin {NoField, BadJson}
      BY <1>1, <1>2
    <2>2. \A i \in DOMAIN new.packages : new.packages[i] \in Entries(new.packages)
      BY <2>1, FieldEntries
    <2>3. \A i \in DOMAIN new.packages : KeepFiles(new.packages[i], FileIds(new)) = new.packages[i]
      BY <1>2, <1>6, <2>2, PackageKept
    <2> QED BY <2>1, <2>3
  <1>8. rels = new.relationships
    <2> SUFFICES ASSUME new.relationships # NoField
                 PROVE  Picked(new.relationships, kept) = new.relationships
      OBVIOUS
    <2>1. new.relationships \in Seq(Relationships)
      BY <1>1
    <2>2. kept = DOMAIN new.relationships
      BY <1>6 DEF KeepRelationship
    <2> HIDE DEF kept
    <2> QED BY <2>1, <2>2, PickedAll
  <1> HIDE DEF pkgs, rels
  <1>9. Compact(new) = new
    <2>1. [new EXCEPT !.files = new.files, !.packages = new.packages,
                      !.relationships = new.relationships] = new
      BY <1>1 DEF Statements
    <2> QED BY <1>1, <1>5, <1>7, <1>8, <2>1
  <1>10. Accepts(new, MaxSize)
    <2>1. FilesDecode(new)
      BY <1>1, <1>6, CompactAssumption DEF FilesDecode
    <2>2. HasFilesDecode(new) /\ RelationshipsDecode(new)
      BY <1>2, <1>3 DEF HasFilesDecode, RelationshipsDecode
    <2> QED BY <1>4, <1>9, <2>1, <2>2 DEF Accepts
  <1> QED BY <1>9, <1>10 DEF new

-----------------------------------------------------------------------------
(* SbomAdapter                                                               *)

\* The first n outputs in order, and those behind them.
FirstOutputs(n) == {Outputs[i] : i \in 1 .. n}
OutputsBehind(n) == {Outputs[i] : i \in n + 1 .. Len(Outputs)}

\* Statements are prepared in order, each from its own path.
PreparedInOrder ==
    /\ Len(prepared) <= Len(Outputs)
    /\ \A i \in DOMAIN prepared : /\ Accepts(scanned[Outputs[i]], MaxSize)
                                  /\ prepared[i] = Compact(scanned[Outputs[i]])

\* Nothing is renamed before all are prepared; then they are replaced in order.
RenamedInOrder ==
    /\ renamed > 0 => Len(prepared) = Len(Outputs)
    /\ \A p \in Targets :
          disk[p] = IF p \in FirstOutputs(renamed) THEN Compact(scanned[p]) ELSE scanned[p]

\* Temporary files appear in order, and go as they are renamed.
TempsInOrder ==
    /\ status \in {"scan", "prepare"} => renamed = 0 /\ temps = {}
    /\ status = "scan" => prepared = << >>
    /\ status = "write" =>
          /\ renamed = 0 /\ Len(prepared) = Len(Outputs)
          /\ IsFiniteSet(temps) /\ Cardinality(temps) < Len(prepared)
          /\ temps = FirstOutputs(Cardinality(temps))
    /\ status = "rename" =>
          /\ renamed < Len(prepared) /\ Len(prepared) = Len(Outputs)
          /\ temps = OutputsBehind(renamed)
    /\ status = "ok" => renamed = Len(Outputs) /\ temps = {}
    /\ status = "failed" => temps = {}

SbomInv ==
    /\ SbomTypeOK
    /\ PreparedInOrder
    /\ RenamedInOrder
    /\ TempsInOrder

\* The outputs are the paths with a statement, each once.
LEMMA OutputsAre ==
  ASSUME scanned \in [Targets -> Statements \cup {NoFile}]
  PROVE  /\ Outputs \in Seq(Targets) /\ Len(Outputs) \in Nat /\ Len(Outputs) <= Len(Paths)
         /\ DOMAIN Outputs = 1 .. Len(Outputs) /\ Len(Paths) \in Nat
         /\ \A i \in 1 .. Len(Outputs) : /\ Outputs[i] \in Targets
                                         /\ scanned[Outputs[i]] \in Statements
         /\ \A i, j \in 1 .. Len(Outputs) : Outputs[i] = Outputs[j] => i = j
         /\ \A p \in Targets : scanned[p] # NoFile => \E i \in 1 .. Len(Outputs) : Outputs[i] = p
  <1> DEFINE F == {i \in DOMAIN Paths : scanned[Paths[i]] # NoFile}
             c == Cardinality(F)
             o == InOrder(F)
  <1>1. /\ Paths \in Seq(Targets) /\ Len(Paths) \in Nat /\ DOMAIN Paths = 1 .. Len(Paths)
        /\ \A i, j \in DOMAIN Paths : Paths[i] = Paths[j] => i = j
        /\ Targets = {Paths[i] : i \in DOMAIN Paths}
    BY AdapterAssumption DEF Targets, ToSet
  <1>2. /\ Picked(Paths, F) \in Seq(Targets)
        /\ Len(Picked(Paths, F)) = c /\ Len(Picked(Paths, F)) <= Len(Paths)
        /\ c \in Nat /\ DOMAIN Picked(Paths, F) = 1 .. c
        /\ o \in [1 .. c -> F]
        /\ \A k \in 1 .. c : Picked(Paths, F)[k] = Paths[o[k]]
        /\ \A i \in F : \E k \in 1 .. c : o[k] = i
    <2>1. F \in SUBSET (DOMAIN Paths)
      OBVIOUS
    <2> HIDE DEF F
    <2> QED BY <1>1, <2>1, PickedEntries
  <1>3. \A k, l \in 1 .. c : o[k] = o[l] => k = l
    <2>1. F \in SUBSET (1 .. Len(Paths))
      BY <1>1
    <2> HIDE DEF F
    <2> QED BY <1>1, <2>1, OrderOfPositions
  <1>4. Outputs = Picked(Paths, F)
    BY DEF Outputs
  <1>5. \A i \in F : /\ i \in DOMAIN Paths /\ Paths[i] \in Targets
                     /\ scanned[Paths[i]] \in Statements
    BY <1>1
  <1>6. \A p \in Targets : scanned[p] # NoFile => \E i \in F : p = Paths[i]
    BY <1>1
  <1> HIDE DEF F, c, o
  <1>7. \A k \in 1 .. c : Outputs[k] = Paths[o[k]] /\ o[k] \in F
    BY <1>2, <1>4
  <1>8. /\ Outputs \in Seq(Targets) /\ Len(Outputs) = c /\ DOMAIN Outputs = 1 .. c
        /\ c \in Nat /\ c <= Len(Paths)
    BY <1>2, <1>4
  <1>9. ASSUME NEW k \in 1 .. c, NEW l \in 1 .. c, Outputs[k] = Outputs[l]
        PROVE  k = l
    <2>1. o[k] \in DOMAIN Paths /\ o[l] \in DOMAIN Paths /\ Paths[o[k]] = Paths[o[l]]
      BY <1>5, <1>7, <1>9
    <2>2. o[k] = o[l]
      BY <1>1, <2>1, Zenon
    <2> QED BY <1>3, <2>2
  <1>10. \A p \in Targets : scanned[p] # NoFile => \E k \in 1 .. c : Outputs[k] = p
    BY <1>2, <1>6, <1>7
  <1>11. /\ Outputs \in Seq(Targets) /\ Len(Outputs) \in Nat /\ Len(Outputs) <= Len(Paths)
         /\ DOMAIN Outputs = 1 .. Len(Outputs) /\ Len(Paths) \in Nat /\ Len(Outputs) = c
    BY <1>1, <1>8
  <1>12. \A i \in 1 .. c : Outputs[i] \in Targets /\ scanned[Outputs[i]] \in Statements
    BY <1>5, <1>7
  <1> QED BY <1>9, <1>10, <1>11, <1>12

LEMMA SbomTyping ==
  ASSUME SbomTypeOK
  PROVE  /\ disk \in [Targets -> Statements \cup {NoFile}]
         /\ scanned \in [Targets -> Statements \cup {NoFile}]
         /\ prepared \in Seq(Statements) /\ Len(prepared) \in Nat
         /\ DOMAIN prepared = 1 .. Len(prepared)
         /\ temps \subseteq Targets
         /\ renamed \in Nat /\ renamed <= Len(prepared)
  BY DEF SbomTypeOK

\* A step that neither scans nor renames, but for an error return's cleanup.
LEMMA FailKeeps ==
  ASSUME SbomInv, disk' = disk, scanned' = scanned, prepared' = prepared, renamed' = renamed,
         \/ Fail
         \/ temps' = temps /\ status' = "killed"
         \/ temps' = temps /\ status' = status
  PROVE  SbomInv'
  <1>1. status' \in Statuses /\ temps' \subseteq Targets
    BY DEF SbomInv, SbomTypeOK, Fail, Statuses
  <1>2. SbomTypeOK'
    BY <1>1 DEF SbomInv, SbomTypeOK
  <1>3. Outputs' = Outputs
    BY DEF Outputs
  <1>4. PreparedInOrder'
    BY <1>3 DEF SbomInv, PreparedInOrder
  <1>5. RenamedInOrder'
    BY <1>3 DEF SbomInv, RenamedInOrder, FirstOutputs
  <1>6. TempsInOrder'
    BY <1>3 DEF SbomInv, TempsInOrder, Fail, FirstOutputs, OutputsBehind
  <1> QED BY <1>2, <1>4, <1>5, <1>6 DEF SbomInv

LEMMA ScanKeeps ==
  ASSUME SbomInv, Scan
  PROVE  SbomInv'
  <1>1. /\ scanned' \in [Targets -> Documents \cup {NoFile}] /\ disk' = scanned'
        /\ status' \in {"failed", "prepare"} /\ prepared' = << >> /\ temps' = {} /\ renamed' = 0
    BY DEF Scan, SbomInv, TempsInOrder
  <1>2. scanned' \in [Targets -> Statements \cup {NoFile}]
    BY <1>1, AdapterAssumption
  <1>3. Len(Outputs') \in Nat /\ Len(Paths) \in Nat
    <2>1. Len(Paths) \in Nat
      BY AdapterAssumption
    <2>2. Outputs' = Picked(Paths, {i \in DOMAIN Paths : scanned'[Paths[i]] # NoFile})
      BY DEF Outputs
    <2> QED BY <2>1, <2>2, PickedEntries, AdapterAssumption
  <1>4. SbomTypeOK'
    BY <1>1, <1>2, <1>3 DEF SbomTypeOK, Statuses, Running
  <1>5. PreparedInOrder'
    BY <1>1, <1>3 DEF PreparedInOrder
  <1>6. RenamedInOrder'
    BY <1>1 DEF RenamedInOrder, FirstOutputs
  <1>7. TempsInOrder'
    BY <1>1 DEF TempsInOrder
  <1> QED BY <1>4, <1>5, <1>6, <1>7 DEF SbomInv

LEMMA PrepareKeeps ==
  ASSUME SbomInv, PrepareFile
  PROVE  SbomInv'
  <1> DEFINE n == Len(prepared)
             path == Outputs[n + 1]
             doc == disk[path]
  <1>1. /\ status = "prepare" /\ n < Len(Outputs)
        /\ disk' = disk /\ scanned' = scanned /\ renamed' = renamed
    BY DEF PrepareFile
  <1>2. CASE Fail /\ prepared' = prepared
    BY <1>1, <1>2, FailKeeps
  <1>3. CASE /\ Accepts(doc, MaxSize) /\ prepared' = Append(prepared, Compact(doc))
             /\ status' = IF Len(prepared') = Len(Outputs) THEN "write" ELSE "prepare"
             /\ temps' = temps
    <2>1. /\ prepared \in Seq(Statements) /\ n \in Nat /\ DOMAIN prepared = 1 .. n
          /\ scanned \in [Targets -> Statements \cup {NoFile}] /\ temps = {} /\ renamed = 0
      BY <1>1, SbomTyping DEF SbomInv, TempsInOrder
    <2>2. /\ Len(Outputs) \in Nat /\ Len(Outputs) <= Len(Paths) /\ Len(Paths) \in Nat
          /\ path \in Targets /\ scanned[path] \in Statements
      <3>1. n + 1 \in 1 .. Len(Outputs)
        BY <1>1, <2>1, OutputsAre
      <3> HIDE DEF n
      <3> QED BY <2>1, <3>1, OutputsAre
    <2>3. doc = scanned[path]
      <3>1. path \notin FirstOutputs(renamed)
        BY <2>1 DEF FirstOutputs
      <3> QED BY <2>2, <3>1 DEF SbomInv, RenamedInOrder
    <2>4. Compact(doc) \in Statements
      BY <1>3, <2>2, <2>3, CompactFields
    <2>5. Outputs' = Outputs
      BY <1>1 DEF Outputs
    <2> HIDE DEF n, path, doc
    <2>6. /\ prepared' \in Seq(Statements) /\ Len(prepared') = n + 1
          /\ DOMAIN prepared' = 1 .. n + 1
          /\ \A i \in 1 .. n : prepared'[i] = prepared[i]
          /\ prepared'[n + 1] = Compact(doc)
      BY <1>3, <2>1, <2>4 DEF n
    <2>7. n + 1 <= Len(Paths) /\ 0 \in 0 .. n + 1 /\ n + 1 <= Len(Outputs)
      BY <1>1, <2>1, <2>2
    <2>8. SbomTypeOK'
      <3>1. renamed' \in 0 .. Len(prepared')
        BY <1>1, <2>1, <2>6, <2>7
      <3>2. status' \in Statuses
        BY <1>3 DEF Statuses, Running
      <3> QED BY <1>1, <1>3, <2>1, <2>6, <2>7, <3>1, <3>2 DEF SbomInv, SbomTypeOK
    <2>9. PreparedInOrder'
      <3>1. \A i \in 1 .. n : /\ Accepts(scanned[Outputs[i]], MaxSize)
                              /\ prepared[i] = Compact(scanned[Outputs[i]])
        BY <2>1 DEF SbomInv, PreparedInOrder
      <3>2. Accepts(scanned[Outputs[n + 1]], MaxSize) /\ prepared'[n + 1] = Compact(scanned[Outputs[n + 1]])
        BY <1>3, <2>3, <2>6 DEF path
      <3>3. \A i \in 1 .. n + 1 : i \in 1 .. n \/ i = n + 1
        BY <2>1
      <3>4. \A i \in 1 .. n + 1 : /\ Accepts(scanned[Outputs[i]], MaxSize)
                                  /\ prepared'[i] = Compact(scanned[Outputs[i]])
        BY <2>6, <3>1, <3>2, <3>3
      <3> QED BY <1>1, <2>5, <2>6, <2>7, <3>4 DEF PreparedInOrder
    <2>10. RenamedInOrder'
      BY <1>1, <2>1, <2>5 DEF SbomInv, RenamedInOrder, FirstOutputs
    <2>11. TempsInOrder'
      <3>1. status' \in {"write", "prepare"} /\ (status' = "write" => Len(prepared') = Len(Outputs))
        BY <1>3
      <3>2. IsFiniteSet({}) /\ Cardinality({}) = 0
        BY FS_EmptySet
      <3>3. FirstOutputs(0)' = {}
        BY DEF FirstOutputs
      <3> QED BY <1>1, <1>3, <2>1, <2>5, <2>6, <3>1, <3>2, <3>3 DEF TempsInOrder
    <2> QED BY <2>8, <2>9, <2>10, <2>11 DEF SbomInv
  <1> QED BY <1>2, <1>3 DEF PrepareFile

LEMMA WriteKeeps ==
  ASSUME SbomInv, WriteTemporary
  PROVE  SbomInv'
  <1> DEFINE c == Cardinality(temps)
             path == Outputs[c + 1]
  <1>1. /\ status = "write" /\ c < Len(prepared)
        /\ disk' = disk /\ scanned' = scanned /\ prepared' = prepared /\ renamed' = renamed
    BY DEF WriteTemporary
  <1>2. CASE Fail
    BY <1>1, <1>2, FailKeeps
  <1>3. CASE /\ temps' = temps \cup {path}
             /\ status' = IF Cardinality(temps') = Len(prepared) THEN "rename" ELSE "write"
    <2>1. /\ Len(prepared) = Len(Outputs) /\ IsFiniteSet(temps) /\ temps = FirstOutputs(c)
          /\ renamed = 0 /\ temps \subseteq Targets
          /\ scanned \in [Targets -> Statements \cup {NoFile}] /\ Len(prepared) \in Nat
      BY <1>1, SbomTyping DEF SbomInv, TempsInOrder
    <2>2. c \in Nat
      BY <2>1, FS_CardinalityType
    <2>3. /\ Len(Outputs) \in Nat
          /\ \A i \in 1 .. Len(Outputs) : Outputs[i] \in Targets
          /\ \A i, j \in 1 .. Len(Outputs) : Outputs[i] = Outputs[j] => i = j
      BY <2>1, OutputsAre
    <2>4. Outputs' = Outputs
      BY <1>1 DEF Outputs
    <2>5. c + 1 \in 1 .. Len(Outputs) /\ \A i \in 1 .. c : i \in 1 .. Len(Outputs) /\ i # c + 1
      BY <1>1, <2>1, <2>2, <2>3
    <2> HIDE DEF c
    <2>6. path \notin temps /\ path \in Targets
      BY <2>1, <2>3, <2>5 DEF FirstOutputs
    <2>7. \A i \in 1 .. c + 1 : i \in 1 .. c \/ i = c + 1
      BY <2>2
    <2>8. temps' = FirstOutputs(c + 1)
      <3>1. 1 .. c + 1 = 1 .. c \union {c + 1}
        BY <2>2
      <3>2. FirstOutputs(c + 1) = FirstOutputs(c) \union {Outputs[c + 1]}
        BY <3>1 DEF FirstOutputs
      <3> QED BY <1>3, <2>1, <3>2
    <2>9. IsFiniteSet(temps') /\ Cardinality(temps') = c + 1
      BY <1>3, <2>1, <2>6, FS_AddElement DEF c
    <2>10. OutputsBehind(0)' = FirstOutputs(Len(Outputs))
      <3>1. 0 + 1 .. Len(Outputs) = 1 .. Len(Outputs)
        OBVIOUS
      <3>2. OutputsBehind(0)' = {Outputs[i] : i \in 0 + 1 .. Len(Outputs)}
        BY <2>4 DEF OutputsBehind
      <3> QED BY <3>1, <3>2 DEF FirstOutputs
    <2>11. SbomTypeOK'
      <3>1. status' \in Statuses /\ temps' \subseteq Targets
        BY <1>3, <2>1, <2>6 DEF Statuses, Running
      <3> QED BY <1>1, <3>1 DEF SbomInv, SbomTypeOK
    <2>12. PreparedInOrder'
      BY <1>1, <2>4 DEF SbomInv, PreparedInOrder
    <2>13. RenamedInOrder'
      BY <1>1, <2>1, <2>4 DEF SbomInv, RenamedInOrder, FirstOutputs
    <2>14. TempsInOrder'
      <3>1. CASE c + 1 = Len(prepared)
        <4>1. status' = "rename"
          BY <1>3, <2>9, <3>1
        <4>2. temps' = OutputsBehind(0)'
          BY <2>1, <2>8, <2>10, <3>1
        <4>3. 0 < Len(prepared)
          BY <2>2, <3>1
        <4> QED BY <1>1, <2>1, <2>4, <4>1, <4>2, <4>3 DEF TempsInOrder, OutputsBehind
      <3>2. CASE c + 1 # Len(prepared)
        <4>1. status' = "write"
          BY <1>3, <2>9, <3>2
        <4>2. c + 1 < Len(prepared)
          BY <1>1, <2>1, <2>2, <3>2 DEF c
        <4>3. temps' = {Outputs'[i] : i \in 1 .. Cardinality(temps')}
          BY <2>4, <2>8, <2>9 DEF FirstOutputs
        <4> QED BY <1>1, <2>1, <2>4, <2>9, <4>1, <4>2, <4>3 DEF TempsInOrder, FirstOutputs
      <3> QED BY <3>1, <3>2
    <2> QED BY <2>11, <2>12, <2>13, <2>14 DEF SbomInv
  <1> QED BY <1>2, <1>3 DEF WriteTemporary, CleanUp

LEMMA RenameKeeps ==
  ASSUME SbomInv, Rename
  PROVE  SbomInv'
  <1> DEFINE n == renamed + 1
             path == Outputs[n]
  <1>1. status = "rename" /\ scanned' = scanned /\ prepared' = prepared
    BY DEF Rename
  <1>2. CASE Fail /\ disk' = disk /\ renamed' = renamed
    BY <1>1, <1>2, FailKeeps
  <1>3. CASE /\ disk' = [disk EXCEPT ![path] = prepared[n]]
             /\ temps' = temps \ {path} /\ renamed' = n
             /\ status' = IF renamed' = Len(prepared) THEN "ok" ELSE "rename"
    <2>1. /\ Len(prepared) = Len(Outputs) /\ temps = OutputsBehind(renamed)
          /\ renamed < Len(prepared) /\ renamed \in Nat /\ Len(prepared) \in Nat
          /\ scanned \in [Targets -> Statements \cup {NoFile}]
          /\ disk \in [Targets -> Statements \cup {NoFile}]
          /\ DOMAIN prepared = 1 .. Len(prepared) /\ prepared \in Seq(Statements)
      BY <1>1, SbomTyping DEF SbomInv, TempsInOrder
    <2>2. /\ \A i \in 1 .. Len(Outputs) : Outputs[i] \in Targets
          /\ \A i, j \in 1 .. Len(Outputs) : Outputs[i] = Outputs[j] => i = j
      BY <2>1, OutputsAre
    <2>3. Outputs' = Outputs
      BY <1>1 DEF Outputs
    <2>4. n \in DOMAIN prepared /\ n \in 1 .. Len(Outputs) /\ n \in 0 .. Len(prepared)
      BY <2>1
    <2>5. path \in Targets /\ prepared[n] = Compact(scanned[path]) /\ prepared[n] \in Statements
      BY <2>1, <2>2, <2>4 DEF SbomInv, PreparedInOrder
    <2>6. 1 .. n = 1 .. renamed \union {n}
      BY <2>1
    <2>7. /\ \A i \in renamed + 1 .. Len(Outputs) : i = n \/ i \in n + 1 .. Len(Outputs)
          /\ \A i \in n + 1 .. Len(Outputs) : i \in 1 .. Len(Outputs) /\ i # n /\ i \in renamed + 1 .. Len(Outputs)
      BY <2>1
    <2>8. FirstOutputs(n) = FirstOutputs(renamed) \union {path}
      BY <2>6 DEF FirstOutputs
    <2> HIDE DEF n
    <2>9. temps' = OutputsBehind(n)
      BY <1>3, <2>1, <2>2, <2>4, <2>7 DEF OutputsBehind
    <2>10. SbomTypeOK'
      <3>1. disk' \in [Targets -> Statements \cup {NoFile}]
        BY <1>3, <2>1, <2>5
      <3>2. status' \in Statuses /\ temps' \subseteq Targets
        BY <1>3 DEF Statuses, Running, SbomInv, SbomTypeOK
      <3> QED BY <1>1, <1>3, <2>4, <3>1, <3>2 DEF SbomInv, SbomTypeOK
    <2>11. PreparedInOrder'
      BY <1>1, <2>3 DEF SbomInv, PreparedInOrder
    <2>12. RenamedInOrder'
      <3>1. ASSUME NEW p \in Targets
            PROVE  disk'[p] = IF p \in FirstOutputs(n) THEN Compact(scanned[p]) ELSE scanned[p]
        <4>1. disk[p] = IF p \in FirstOutputs(renamed) THEN Compact(scanned[p]) ELSE scanned[p]
          BY DEF SbomInv, RenamedInOrder
        <4>2. CASE p = path
          BY <1>3, <2>1, <2>5, <2>8, <4>2
        <4>3. CASE p # path
          BY <1>3, <2>1, <2>8, <4>1, <4>3
        <4> QED BY <4>2, <4>3
      <3>2. FirstOutputs(renamed)' = FirstOutputs(n)
        BY <1>3, <2>3 DEF FirstOutputs
      <3> QED BY <1>1, <2>1, <2>3, <3>1, <3>2 DEF RenamedInOrder
    <2>13. TempsInOrder'
      <3>1. OutputsBehind(renamed)' = OutputsBehind(n)
        BY <1>3, <2>3 DEF OutputsBehind
      <3>2. CASE n = Len(prepared)
        <4>1. status' = "ok"
          BY <1>3, <3>2
        <4>2. OutputsBehind(n) = {}
          BY <2>1, <3>2 DEF OutputsBehind
        <4> QED BY <1>3, <2>1, <2>3, <2>9, <3>2, <4>1, <4>2 DEF TempsInOrder
      <3>3. CASE n # Len(prepared)
        <4>1. status' = "rename"
          BY <1>3, <3>3
        <4>2. n < Len(prepared)
          BY <2>1, <2>4, <3>3
        <4> QED BY <1>1, <1>3, <2>1, <2>3, <2>9, <3>1, <4>1, <4>2 DEF TempsInOrder
      <3> QED BY <3>2, <3>3
    <2> QED BY <2>10, <2>11, <2>12, <2>13 DEF SbomInv
  <1> QED BY <1>2, <1>3 DEF Rename, CleanUp

LEMMA SbomStart ==
  Init => SbomInv
  <1> SUFFICES ASSUME Init PROVE SbomInv
    OBVIOUS
  <1>1. /\ disk = Nobody /\ scanned = Nobody /\ prepared = << >> /\ temps = {}
        /\ renamed = 0 /\ status = "scan"
    BY DEF Init
  <1>2. Nobody \in [Targets -> Statements \cup {NoFile}]
    BY DEF Nobody
  <1>3. Len(Outputs) \in Nat /\ Len(Paths) \in Nat
    BY <1>1, <1>2, OutputsAre
  <1>4. SbomTypeOK
    BY <1>1, <1>2, <1>3 DEF SbomTypeOK, Statuses, Running
  <1>5. PreparedInOrder
    BY <1>1, <1>3 DEF PreparedInOrder
  <1>6. RenamedInOrder
    BY <1>1 DEF RenamedInOrder, FirstOutputs
  <1>7. TempsInOrder
    BY <1>1 DEF TempsInOrder
  <1> QED BY <1>4, <1>5, <1>6, <1>7 DEF SbomInv

LEMMA SbomStep ==
  SbomInv /\ [Next]_sbomVars => SbomInv'
  <1> SUFFICES ASSUME SbomInv, [Next]_sbomVars PROVE SbomInv'
    OBVIOUS
  <1>1. CASE Scan
    BY <1>1, ScanKeeps
  <1>2. CASE NothingFound
    BY <1>2, FailKeeps DEF NothingFound
  <1>3. CASE PrepareFile
    BY <1>3, PrepareKeeps
  <1>4. CASE WriteTemporary
    BY <1>4, WriteKeeps
  <1>5. CASE Rename
    BY <1>5, RenameKeeps
  <1>6. CASE Kill
    BY <1>6, FailKeeps DEF Kill
  <1>7. CASE UNCHANGED sbomVars
    BY <1>7, FailKeeps DEF sbomVars
  <1> QED BY <1>1, <1>2, <1>3, <1>4, <1>5, <1>6, <1>7 DEF Next

\* The adapter works in order, whatever fails: SbomInv holds in every behaviour.
THEOREM SbomInductive ==
  Spec => []SbomInv
  BY SbomStart, SbomStep, PTL DEF Spec

-----------------------------------------------------------------------------
(* What BuildKit finds                                                       *)

LEMMA WholeFromInv ==
  SbomInv => OutputIsWhole
  <1> SUFFICES ASSUME SbomInv PROVE OutputIsWhole
    OBVIOUS
  <1>1. /\ scanned \in [Targets -> Statements \cup {NoFile}]
        /\ renamed \in Nat /\ renamed <= Len(prepared) /\ Len(prepared) \in Nat
        /\ Len(prepared) <= Len(Outputs)
    BY SbomTyping DEF SbomInv, PreparedInOrder
  <1>2. /\ Len(Outputs) \in Nat
        /\ \A i \in 1 .. Len(Outputs) : scanned[Outputs[i]] \in Statements
        /\ \A p \in Targets : scanned[p] # NoFile => \E i \in 1 .. Len(Outputs) : Outputs[i] = p
    BY <1>1, OutputsAre
  <1>3. EachStatementWhole
    <2> SUFFICES ASSUME NEW p \in Targets
                 PROVE  \/ disk[p] = scanned[p]
                        \/ scanned[p] # NoFile /\ disk[p] = Compact(scanned[p])
      BY DEF EachStatementWhole
    <2>1. disk[p] = IF p \in FirstOutputs(renamed) THEN Compact(scanned[p]) ELSE scanned[p]
      BY DEF SbomInv, RenamedInOrder
    <2>2. p \in FirstOutputs(renamed) => scanned[p] \in Statements
      BY <1>1, <1>2 DEF FirstOutputs
    <2> QED BY <2>1, <2>2, AdapterAssumption
  <1>4. ASSUME status = "ok", NEW p \in Targets, scanned[p] # NoFile
        PROVE  disk[p] = Compact(scanned[p])
    <2>1. renamed = Len(Outputs)
      BY <1>4 DEF SbomInv, TempsInOrder
    <2>2. p \in FirstOutputs(renamed)
      BY <1>2, <1>4, <2>1 DEF FirstOutputs
    <2> QED BY <2>2 DEF SbomInv, RenamedInOrder
  <1>5. status \in {"ok", "failed"} => temps = {}
    BY DEF SbomInv, TempsInOrder
  <1>6. EndsClean
    BY <1>4, <1>5 DEF EndsClean
  <1> QED BY <1>3, <1>6 DEF OutputIsWhole, SbomInv

\* Whatever the number of statements, and wherever the scanner, the compactor,
\* a write or a rename fails or BuildKit kills the adapter, each path holds
\* what the scanner wrote there or its compact form; a successful run has
\* replaced every one, and no error return leaves a temporary file.
THEOREM EveryOutputIsWhole ==
  Spec => []OutputIsWhole
  BY SbomInductive, WholeFromInv, PTL

LEMMA RefusalFromInv ==
  SbomInv => RefusalChangesNothing
  <1> SUFFICES ASSUME SbomInv, NEW q \in Targets, scanned[q] # NoFile,
                      ~Accepts(scanned[q], MaxSize)
               PROVE  disk = scanned
    BY DEF RefusalChangesNothing
  <1>1. /\ scanned \in [Targets -> Statements \cup {NoFile}]
        /\ disk \in [Targets -> Statements \cup {NoFile}]
        /\ DOMAIN prepared = 1 .. Len(prepared)
        /\ renamed \in Nat
    BY SbomTyping DEF SbomInv
  <1>2. \E i \in 1 .. Len(Outputs) : Outputs[i] = q
    BY <1>1, OutputsAre
  <1>3. Len(prepared) # Len(Outputs)
    BY <1>1, <1>2 DEF SbomInv, PreparedInOrder
  <1>4. renamed = 0
    BY <1>1, <1>3 DEF SbomInv, RenamedInOrder
  <1>5. \A p \in Targets : disk[p] = scanned[p]
    BY <1>4 DEF SbomInv, RenamedInOrder, FirstOutputs
  <1> QED BY <1>1, <1>5

\* One statement the compactor refuses leaves every path as the scanner left
\* it, at every moment of the run: prepareAll comes before the first rename.
THEOREM OneRefusalKeepsAll ==
  Spec => []RefusalChangesNothing
  BY SbomInductive, RefusalFromInv, PTL

\* What is on disk and is not the scanner's was accepted, and is compact.
LEMMA ReplacedIsCompact ==
  ASSUME SbomInv, NEW p \in Targets, disk[p] # scanned[p]
  PROVE  /\ scanned[p] \in Statements /\ Accepts(scanned[p], MaxSize)
         /\ disk[p] = Compact(scanned[p])
  <1>1. /\ scanned \in [Targets -> Statements \cup {NoFile}]
        /\ renamed \in Nat /\ renamed <= Len(prepared) /\ Len(prepared) \in Nat
        /\ DOMAIN prepared = 1 .. Len(prepared)
        /\ Len(prepared) <= Len(Outputs)
    BY SbomTyping DEF SbomInv, PreparedInOrder
  <1>2. p \in FirstOutputs(renamed) /\ disk[p] = Compact(scanned[p])
    BY DEF SbomInv, RenamedInOrder
  <1>3. PICK i \in 1 .. renamed : p = Outputs[i]
    BY <1>2 DEF FirstOutputs
  <1>4. i \in DOMAIN prepared
    BY <1>1
  <1>5. /\ Len(Outputs) \in Nat
        /\ \A k \in 1 .. Len(Outputs) : scanned[Outputs[k]] \in Statements
    BY <1>1, OutputsAre
  <1>6. scanned[p] \in Statements
    BY <1>1, <1>3, <1>5
  <1>7. Accepts(scanned[p], MaxSize)
    BY <1>3, <1>4 DEF SbomInv, PreparedInOrder
  <1> QED BY <1>2, <1>6, <1>7

LEMMA SoundFromInv ==
  SbomInv => CommittedIsSound
  <1> SUFFICES ASSUME SbomInv, NEW p \in Targets, disk[p] # scanned[p]
               PROVE  LET old == scanned[p]
                          new == disk[p]
                          ids == FileIds(old)
                          kept == {r \in Entries(old.relationships) : {r.from, r.to} \cap ids = {}}
                      IN  /\ new.files = NoField
                          /\ {k.name : k \in Entries(new.packages)}
                               = {k.name : k \in Entries(old.packages)}
                          /\ \A k \in Entries(new.packages) : Entries(k.hasFiles) \cap ids = {}
                          /\ Entries(new.relationships) = kept
    BY DEF CommittedIsSound
  <1>1. /\ scanned[p] \in Statements /\ Accepts(scanned[p], MaxSize)
        /\ disk[p] = Compact(scanned[p])
    BY ReplacedIsCompact
  <1>2. disk[p].files = NoField
    BY <1>1, CompactFields
  <1>3. /\ {k.name : k \in Entries(disk[p].packages)} = {k.name : k \in Entries(scanned[p].packages)}
        /\ \A k \in Entries(disk[p].packages) : Entries(k.hasFiles) \cap FileIds(scanned[p]) = {}
    BY <1>1, CompactPackages
  <1>4. Entries(disk[p].relationships)
          = {r \in Entries(scanned[p].relationships) : {r.from, r.to} \cap FileIds(scanned[p]) = {}}
    BY <1>1, CompactRelationships
  <1> QED BY <1>2, <1>3, <1>4

\* A statement of any size that was replaced lists the same packages, refers
\* to none of the files it dropped, and keeps every other relationship.
THEOREM WhatIsCommittedIsSound ==
  Spec => []CommittedIsSound
  BY SbomInductive, SoundFromInv, PTL

LEMMA RepeatableFromInv ==
  SbomInv => Repeatable
  <1> SUFFICES ASSUME SbomInv, NEW p \in Targets, scanned[p] # NoFile,
                      Accepts(scanned[p], MaxSize)
               PROVE  Accepts(Compact(scanned[p]), MaxSize)
                      /\ Compact(Compact(scanned[p])) = Compact(scanned[p])
    BY DEF Repeatable
  <1>1. scanned[p] \in Statements
    BY SbomTyping DEF SbomInv
  <1> QED BY <1>1, CompactTwice

\* A statement the compactor accepted is accepted again once compact, and
\* comes out as it went in: repeating the build step is harmless.
THEOREM CompactingTwiceIsHarmless ==
  Spec => []Repeatable
  BY SbomInductive, RepeatableFromInv, PTL
=============================================================================
