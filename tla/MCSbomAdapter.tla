---------------------------- MODULE MCSbomAdapter ----------------------------
(* TLC instance of SbomAdapter.                                              *)
EXTENDS SbomAdapter

CONSTANTS f1, f2, k1, k2, x, b1, b2, a, b

MCPaths == <<a, b>>

File(id, body) == [id |-> id, body |-> body]
Pkg(name, hasFiles) == [name |-> name, hasFiles |-> hasFiles]
Rel(from, to) == [from |-> from, to |-> to]
Doc(files, packages, relationships) ==
    [spdx |-> TRUE, files |-> files, packages |-> packages, relationships |-> relationships]

Rich == Doc(<<File(f1, b1), File(f2, b2)>>,
            <<Pkg(k1, <<f1, x>>), Pkg(k2, <<f1>>)>>,
            <<Rel(k1, f1), Rel(k1, k2), Rel(f2, k1)>>)

\* Accepted: files with references to them and to others, the same entry
\* twice, no files field, no files; then one statement per refusal.
MCDocuments ==
    {Rich,
     Doc(<<File(f1, b1), File(f1, b1)>>, NoField, <<Rel(f1, f1)>>),
     Doc(NoField, <<Pkg(k1, <<f1>>)>>, <<Rel(k1, f1)>>),
     Doc(<< >>, <<Pkg(k1, << >>), Pkg(k2, NoField)>>, NoField),
     [Rich EXCEPT !.spdx = FALSE],
     [Rich EXCEPT !.files = BadJson],
     [Rich EXCEPT !.packages = BadJson],
     [Rich EXCEPT !.relationships = BadJson],
     [Rich EXCEPT !.files = <<File(BadJson, b1)>>],
     [Rich EXCEPT !.packages = <<Pkg(k1, <<BadJson>>)>>],
     [Rich EXCEPT !.packages = <<Pkg(k1, BadJson)>>],
     [Rich EXCEPT !.relationships = <<Rel(k1, BadJson)>>],
     Doc(<<File(f1, b1), File(f1, b2)>>, NoField, NoField),
     Doc(NoField, <<Pkg(k1, NoField), Pkg(k2, NoField)>>,
         <<Rel(k1, k2), Rel(k2, k1), Rel(x, k1)>>)}
=============================================================================
