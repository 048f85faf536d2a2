----------------------------- MODULE SbomAdapter -----------------------------
(* sbom-generator/internal/runner and the commit of internal/compact: run    *)
(* the scanner, compact every statement it wrote in memory, write and sync   *)
(* one temporary file per statement, then rename them into place one by one. *)
EXTENDS SbomCompact

CONSTANTS
    Paths,      \* the sorted *.spdx.json paths, a sequence
    MaxSize,    \* DefaultMaxBytes, in elements
    Documents,  \* statements the scanner may write
    NoFile      \* no file at a path

VARIABLES
    disk,       \* what each path holds
    scanned,    \* what the scanner left there (history)
    prepared,   \* compacted statements in memory, one per path in order
    temps,      \* paths that have a temporary file beside them
    renamed,    \* how many renames are done
    status      \* what the adapter is doing, or how it ended

sbomVars == <<disk, scanned, prepared, temps, renamed, status>>

ASSUME AdapterAssumption ==
    /\ Paths \in Seq(ToSet(Paths))
    /\ \A i, j \in DOMAIN Paths : Paths[i] = Paths[j] => i = j
    /\ MaxSize \in Nat
    /\ Documents \subseteq Statements
    /\ NoFile \notin Statements

Targets == ToSet(Paths)
Nobody  == [p \in Targets |-> NoFile]

\* The paths discoverOutputs finds, in order.
Outputs == Picked(Paths, {i \in DOMAIN Paths : scanned[Paths[i]] # NoFile})

Running  == {"scan", "prepare", "write", "rename"}
Statuses == Running \cup {"ok", "failed", "killed"}

Init ==
    /\ disk = Nobody
    /\ scanned = Nobody
    /\ prepared = << >>
    /\ temps = {}
    /\ renamed = 0
    /\ status = "scan"

\* An error return before or after CommitFiles has temporary files to remove.
Fail == status' = "failed" /\ temps' = {}

\* Mutant of CleanUp: the temporary files stay.
LeaveTemps == status' = "failed" /\ UNCHANGED temps

\* cleanup in CommitFiles.
CleanUp == Fail

\* The scanner ends; a failed one may have written some statements too.  An
\* unreadable directory ends the adapter like a failed scanner.
Scan ==
    /\ status = "scan"
    /\ scanned' \in [Targets -> Documents \cup {NoFile}]
    /\ disk' = scanned'
    /\ status' \in {"failed", "prepare"}
    /\ UNCHANGED <<prepared, temps, renamed>>

NothingFound ==
    /\ status = "prepare"
    /\ Outputs = << >>
    /\ Fail
    /\ UNCHANGED <<disk, scanned, prepared, renamed>>

\* Mutant of PrepareFile: commits each statement as soon as it is compacted.
PrepareAndCommit ==
    /\ status = "prepare"
    /\ Len(prepared) < Len(Outputs)
    /\ LET path == Outputs[Len(prepared) + 1]
       IN  \/ /\ Accepts(disk[path], MaxSize)
              /\ prepared' = Append(prepared, Compact(disk[path]))
              /\ disk' = [disk EXCEPT ![path] = Compact(@)]
              /\ status' = IF Len(prepared') = Len(Outputs) THEN "ok" ELSE "prepare"
              /\ UNCHANGED temps
           \/ ~Accepts(disk[path], MaxSize) /\ Fail /\ UNCHANGED <<prepared, disk>>
    /\ UNCHANGED <<scanned, renamed>>

\* The next statement is read and compacted; one that cannot be read ends the
\* adapter like one that is refused.
PrepareFile ==
    /\ status = "prepare"
    /\ Len(prepared) < Len(Outputs)
    /\ LET doc == disk[Outputs[Len(prepared) + 1]]
       IN  \/ /\ Accepts(doc, MaxSize)
              /\ prepared' = Append(prepared, Compact(doc))
              /\ status' = IF Len(prepared') = Len(Outputs) THEN "write" ELSE "prepare"
              /\ UNCHANGED temps
           \/ Fail /\ UNCHANGED prepared
    /\ UNCHANGED <<disk, scanned, renamed>>

\* CreateTemp, Chmod, Write, Sync and Close for the next path; a failure
\* after CreateTemp leaves that file to cleanup as well.
WriteTemporary ==
    /\ status = "write"
    /\ Cardinality(temps) < Len(prepared)
    /\ \/ /\ temps' = temps \cup {Outputs[Cardinality(temps) + 1]}
          /\ status' = IF Cardinality(temps') = Len(prepared) THEN "rename" ELSE "write"
       \/ CleanUp
    /\ UNCHANGED <<disk, scanned, prepared, renamed>>

\* Mutant of Rename: writes the statement of the path before.
RenameOffByOne ==
    /\ status = "rename"
    /\ LET path == Outputs[renamed + 1]
       IN  \/ /\ disk' = [disk EXCEPT ![path] = prepared[IF renamed = 0 THEN 1 ELSE renamed]]
              /\ temps' = temps \ {path}
              /\ renamed' = renamed + 1
              /\ status' = IF renamed' = Len(prepared) THEN "ok" ELSE "rename"
           \/ CleanUp /\ UNCHANGED <<disk, renamed>>
    /\ UNCHANGED <<scanned, prepared>>

Rename ==
    /\ status = "rename"
    /\ LET path == Outputs[renamed + 1]
       IN  \/ /\ disk' = [disk EXCEPT ![path] = prepared[renamed + 1]]
              /\ temps' = temps \ {path}
              /\ renamed' = renamed + 1
              /\ status' = IF renamed' = Len(prepared) THEN "ok" ELSE "rename"
           \/ CleanUp /\ UNCHANGED <<disk, renamed>>
    /\ UNCHANGED <<scanned, prepared>>

\* BuildKit may kill the adapter at any moment; nothing cleans up.
Kill ==
    /\ status \in Running
    /\ status' = "killed"
    /\ UNCHANGED <<disk, scanned, prepared, temps, renamed>>

Next == Scan \/ NothingFound \/ PrepareFile \/ WriteTemporary \/ Rename \/ Kill

Spec == Init /\ [][Next]_sbomVars

-----------------------------------------------------------------------------
(* Properties *)

SbomTypeOK ==
    /\ disk \in [Targets -> Statements \cup {NoFile}]
    /\ scanned \in [Targets -> Statements \cup {NoFile}]
    /\ prepared \in Seq(Statements) /\ Len(prepared) <= Len(Paths)
    /\ temps \subseteq Targets
    /\ renamed \in 0 .. Len(prepared)
    /\ status \in Statuses

\* However the run ends, each statement is the scanner's or its own compact
\* form, never another path's or half of one.
EachStatementWhole ==
    \A p \in Targets : \/ disk[p] = scanned[p]
                       \/ scanned[p] # NoFile /\ disk[p] = Compact(scanned[p])

\* One statement the compactor refuses keeps every statement as scanned: no
\* rename happens before all of them are prepared.
RefusalChangesNothing ==
    (\E p \in Targets : scanned[p] # NoFile /\ ~Accepts(scanned[p], MaxSize))
        => disk = scanned

\* A successful run replaced all of them; an error return leaves no temporary
\* file for BuildKit to pick up as a statement.
EndsClean ==
    /\ status = "ok" => \A p \in Targets : scanned[p] # NoFile => disk[p] = Compact(scanned[p])
    /\ status \in {"ok", "failed"} => temps = {}

\* What BuildKit finds when the adapter is over.
OutputIsWhole == SbomTypeOK /\ EachStatementWhole /\ EndsClean

\* A committed statement lists every package the scanner found, refers to no
\* file it dropped, and keeps every relationship between what is left.
CommittedIsSound ==
    \A p \in Targets : disk[p] # scanned[p] =>
        LET old == scanned[p]
            new == disk[p]
            ids == FileIds(old)
            kept == {r \in Entries(old.relationships) : {r.from, r.to} \cap ids = {}}
        IN  /\ new.files = NoField
            /\ {k.name : k \in Entries(new.packages)} = {k.name : k \in Entries(old.packages)}
            /\ \A k \in Entries(new.packages) : Entries(k.hasFiles) \cap ids = {}
            /\ Entries(new.relationships) = kept

\* Compacting its own output changes nothing and cannot fail, so a repeated
\* build step is harmless.
Repeatable ==
    \A p \in Targets : scanned[p] # NoFile /\ Accepts(scanned[p], MaxSize) =>
        LET new == Compact(scanned[p])
        IN  Accepts(new, MaxSize) /\ Compact(new) = new

\* The design document's promise for any nonzero exit.
NoPartialReplacement == status = "failed" => disk = scanned
=============================================================================
