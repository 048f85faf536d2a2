---------------------------- MODULE PatchBudget ----------------------------
(* curate_commit_payloads and truncate_patch: share --max-patch-chars among  *)
(* the shipping files of all commits, in order.  A patch is its length.      *)
EXTENDS Integers, Sequences, FiniteSets

CONSTANTS
    MaxPatch,   \* --max-patch-chars
    Suffix,     \* length of "\n... [truncated]"
    CommitLists \* the commits: sequences of sequences of files

\* A file is shipped or matches is_ignored_path; nameless ones are skipped.
File == [sort : {"shipping", "ignored", "nameless"}, patch : Nat]

ASSUME BudgetAssumption ==
    /\ MaxPatch \in Nat
    /\ Suffix \in Nat
    /\ CommitLists \subseteq Seq(Seq(File))

VARIABLES
    commits,
    at,         \* commit being curated
    file,       \* its next file
    remaining,  \* remaining_patch_budget
    snippets,   \* lengths of the snippets of shipping_files of this commit
    ignored,    \* length of its ignored_files
    curated,    \* the snippets of the commits kept
    stats,
    spent       \* characters in snippets so far (history)

budgetVars == <<commits, at, file, remaining, snippets, ignored, curated, stats, spent>>

BudgetInit ==
    /\ commits \in CommitLists
    /\ at = 1 /\ file = 1
    /\ remaining = MaxPatch
    /\ snippets = << >> /\ ignored = 0
    /\ curated = << >>
    /\ stats = [kept |-> 0, dropped |-> 0, shipping |-> 0, ignored |-> 0]
    /\ spent = 0

\* How much of a patch is shown; a cut patch gets the suffix on top.
Snippet(patch) ==
    IF remaining <= 0 \/ patch = 0 THEN 0
    ELSE IF patch > remaining THEN remaining + Suffix ELSE patch

\* Mutant of Left: the rest of the budget is not carried over to the next file.
LeftWhole(n) == remaining

\* Mutant of Left: the budget is overdrawn.
LeftUnbounded(n) == remaining - n

Left(n) == IF remaining > n THEN remaining - n ELSE 0

TakeFile ==
    /\ at <= Len(commits)
    /\ file <= Len(commits[at])
    /\ file' = file + 1
    /\ LET f == commits[at][file]
           n == Snippet(f.patch)
       IN  \/ f.sort = "nameless" /\ UNCHANGED <<remaining, snippets, ignored, spent>>
           \/ /\ f.sort = "ignored"
              /\ ignored' = ignored + 1
              /\ UNCHANGED <<remaining, snippets, spent>>
           \/ /\ f.sort = "shipping"
              /\ snippets' = Append(snippets, n)
              /\ remaining' = Left(n)
              /\ spent' = spent + n
              /\ UNCHANGED ignored
    /\ UNCHANGED <<commits, at, curated, stats>>

\* Mutant of Keeps: a commit without files counts as shipped.
KeepsEmpty == snippets # << >> \/ ignored = 0

\* Only commits with a shipping file are shown.
Keeps == snippets # << >>

CommitEnds ==
    /\ at <= Len(commits)
    /\ file > Len(commits[at])
    /\ at' = at + 1
    /\ file' = 1 /\ snippets' = << >> /\ ignored' = 0
    /\ curated' = IF Keeps THEN Append(curated, snippets) ELSE curated
    /\ stats' = [kept     |-> stats.kept + (IF Keeps THEN 1 ELSE 0),
                 dropped  |-> stats.dropped + (IF Keeps THEN 0 ELSE 1),
                 shipping |-> stats.shipping + Len(snippets),
                 ignored  |-> stats.ignored + ignored]
    /\ UNCHANGED <<commits, remaining, spent>>

BudgetNext == TakeFile \/ CommitEnds

BudgetSpec == BudgetInit /\ [][BudgetNext]_budgetVars

-----------------------------------------------------------------------------
(* Properties *)

BudgetTypeOK ==
    /\ commits \in Seq(Seq(File))
    /\ at \in 1 .. Len(commits) + 1
    /\ file \in Nat \ {0}
    /\ remaining \in 0 .. MaxPatch
    /\ snippets \in Seq(Nat)
    /\ ignored \in Nat
    /\ curated \in Seq(Seq(Nat))
    /\ stats \in [kept : Nat, dropped : Nat, shipping : Nat, ignored : Nat]
    /\ spent \in Nat

\* However the patches are cut, all snippets together are over the budget by
\* the mark of one cut patch at the most, and by nothing before a patch is cut.
SpentWithinBudget ==
    /\ spent + remaining <= MaxPatch + Suffix
    /\ remaining > 0 => spent + remaining = MaxPatch

\* All files of the commits up to the one being curated, in order.
ShippedBefore ==
    UNION {{<<c, f>> : f \in {g \in DOMAIN commits[c] :
                commits[c][g].sort = "shipping" /\ (c < at \/ g < file)}} :
           c \in {d \in DOMAIN commits : d <= at}}

\* Every shipping file is named, whether or not budget is left for its patch,
\* and the statistics count every commit and every shipping file once.
NothingIsLost ==
    /\ stats.kept + stats.dropped = at - 1
    /\ stats.kept = Len(curated)
    /\ \A i \in DOMAIN curated : curated[i] # << >>
    /\ stats.kept = Cardinality({p[1] : p \in {q \in ShippedBefore : q[1] < at}})
    /\ stats.shipping + Len(snippets) = Cardinality(ShippedBefore)
=============================================================================
