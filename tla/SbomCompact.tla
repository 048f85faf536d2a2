----------------------------- MODULE SbomCompact -----------------------------
(* sbom-generator/internal/compact: what Statement does to one SPDX          *)
(* statement.  A JSON value the decoders refuse (a field of the wrong type,  *)
(* trailing data, a null) is BadJson where it can stand; everything the code *)
(* copies without reading is left out, but for the body that tells two file  *)
(* entries of one SPDXID apart.                                              *)
EXTENDS Naturals, Sequences, SequencesExt, Positions

CONSTANTS
    Ids,       \* SPDX identifiers
    Bodies,    \* contents of a file entry
    BadJson,   \* a value that does not decode
    NoField    \* the field is missing

FileEntries   == [id : Ids \cup {BadJson}, body : Bodies]
Packages      == [name : Ids, hasFiles : Seq(Ids \cup {BadJson}) \cup {NoField, BadJson}]
Relationships == [from : Ids \cup {BadJson}, to : Ids \cup {BadJson}]

\* A statement; spdx stands for a decodable object with an SPDX predicate.
Statements == [spdx  : BOOLEAN,
               files : Seq(FileEntries) \cup {NoField, BadJson},
               packages : Seq(Packages) \cup {NoField, BadJson},
               relationships : Seq(Relationships) \cup {NoField, BadJson}]

ASSUME CompactAssumption ==
    /\ BadJson # NoField /\ {BadJson, NoField} \intersect Ids = {}
    /\ \A v \in {BadJson, NoField} :
          v \notin Seq(FileEntries) /\ v \notin Seq(Packages) /\ v \notin Seq(Relationships)
          /\ v \notin Seq(Ids \cup {BadJson})

Entries(field) == IF field \in {NoField, BadJson} THEN {} ELSE ToSet(field)

FileIds(doc) == {f.id : f \in Entries(doc.files)}

-----------------------------------------------------------------------------
\* collectFileIDs
FilesDecode(doc) ==
    /\ doc.files # BadJson
    /\ \A f \in Entries(doc.files) : f.id # BadJson
    /\ \A f, g \in Entries(doc.files) : f.id = g.id => f = g

HasFilesDecode(doc) ==
    /\ doc.packages # BadJson
    /\ \A p \in Entries(doc.packages) :
         p.hasFiles # BadJson /\ BadJson \notin Entries(p.hasFiles)

RelationshipsDecode(doc) ==
    /\ doc.relationships # BadJson
    /\ \A r \in Entries(doc.relationships) : BadJson \notin {r.from, r.to}

Length(field) == IF field \in {NoField, BadJson} THEN 0 ELSE Len(field)

\* The encoded size, in list elements.
Size(doc) == Length(doc.files) + Length(doc.packages) + Length(doc.relationships)

-----------------------------------------------------------------------------
Without(hasFiles, ids) == Picked(hasFiles, {i \in DOMAIN hasFiles : hasFiles[i] \notin ids})

\* Mutant of KeepFiles: a list that becomes empty is encoded as null.
KeepFilesNull(pkg, ids) ==
    LET kept == Without(pkg.hasFiles, ids)
    IN  IF pkg.hasFiles = NoField \/ ids = {} THEN pkg
        ELSE [pkg EXCEPT !.hasFiles = IF kept = << >> THEN BadJson ELSE kept]

\* Mutant of KeepFiles: a package without files left leaves a null behind.
KeepFilesOrNull(pkg, ids) ==
    LET kept == Without(pkg.hasFiles, ids)
    IN  IF pkg.hasFiles = NoField \/ ids = {} THEN pkg
        ELSE IF kept = << >> THEN BadJson
        ELSE [pkg EXCEPT !.hasFiles = kept]

\* filterHasFiles on one package: without file entries nothing is touched, a
\* list that becomes empty goes with its field.
KeepFiles(pkg, ids) ==
    LET kept == Without(pkg.hasFiles, ids)
    IN  IF pkg.hasFiles = NoField \/ ids = {} THEN pkg
        ELSE [pkg EXCEPT !.hasFiles = IF kept = << >> THEN NoField ELSE kept]

\* Mutant of KeepRelationship: only where the relationship starts counts.
KeepByFrom(r, ids) == r.from \notin ids

\* filterRelationships on one relationship.
KeepRelationship(r, ids) == r.from \notin ids /\ r.to \notin ids

Compact(doc) ==
    LET ids == FileIds(doc)
    IN  [doc EXCEPT
           !.files = NoField,
           !.packages =
               IF @ = NoField THEN @
               ELSE [i \in DOMAIN @ |-> KeepFiles(@[i], ids)],
           !.relationships =
               IF @ = NoField THEN @
               ELSE Picked(@, {i \in DOMAIN @ : KeepRelationship(@[i], ids)})]

\* Statement returns Compact(doc), or an error when this does not hold.
Accepts(doc, maxSize) ==
    /\ doc.spdx
    /\ FilesDecode(doc) /\ HasFilesDecode(doc) /\ RelationshipsDecode(doc)
    /\ Size(Compact(doc)) <= maxSize
=============================================================================
