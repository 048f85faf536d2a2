----------------------------- MODULE ReleaseBody -----------------------------
(* The highlights of the release notes: Codex's bullets, validated by        *)
(* release.yml, or else build_highlights of render_release_body.py over the  *)
(* changelog.  A line is its kind; a bullet is what it was made from.        *)
EXTENDS Naturals, Sequences, FiniteSets, Positions

CONSTANTS
    Limit,      \* bullets of the changelog that are looked at, 100 in the code
    BodyInputs  \* what a run of the job meets

\* Lines of the changelog: no bullet, a bullet of which cleaning leaves nothing,
\* or the title of a change.  "named" and "plain" are the dependency updates
\* that summarize_dependencies has words for, and those it has not.
Titles == {"renovate", "named", "plain", "release", "other"}
ChangeLines == Titles \union {"text", "cleaned"}

\* Lines of Codex's answer: a bullet, a dash with only blanks behind it, a dash
\* and a tab, anything else.
CodexLines == {"bullet", "blank", "tab", "text"}

InputType == [changelog : Seq(ChangeLines), key : BOOLEAN,
              succeeds : BOOLEAN, codex : Seq(CodexLines)]

ASSUME BodyAssumption ==
    /\ Limit \in Nat \ {0}
    /\ BodyInputs \subseteq InputType

\* What classify_title answers.
Keys == {"renovate", "dependencies", "release", "other"}

VARIABLES
    input,
    stage,      \* "prompt", "validate", "render", "group", "summarize",
                \* "done" or "failed"
    usable,     \* use_codex_highlights
    titles,     \* positions of the titles not grouped yet
    grouped,    \* keys with their titles, in order of first appearance
    highlights  \* bullets: where from, and the lines they tell of

bodyVars == <<input, stage, usable, titles, grouped, highlights>>

Bullet(from, lines) == [from |-> from, lines |-> lines]

BodyInit ==
    /\ input \in BodyInputs
    /\ stage = "prompt"
    /\ usable = FALSE
    /\ titles = << >> /\ grouped = << >> /\ highlights = << >>

\* The positions of the lines of s whose kinds are in kinds, in order.
Where(s, kinds) == InOrder({i \in DOMAIN s : s[i] \in kinds})

-----------------------------------------------------------------------------
(* release.yml *)

\* Without a key Codex is not asked.  A failing prompt script fails the job, a
\* failing Codex does not.
Prompt ==
    /\ stage = "prompt"
    /\ \/ ~input.key /\ stage' = "render"
       \/ input.key /\ stage' \in {"validate", "failed"}
    /\ UNCHANGED <<input, usable, titles, grouped, highlights>>

\* awk keeps every dash with a blank behind it; grep counts those with a space.
Kept == Picked(input.codex, {i \in DOMAIN input.codex : input.codex[i] # "text"})
Counted == Cardinality({i \in DOMAIN Kept : Kept[i] \in {"bullet", "blank"}})

Validate ==
    /\ stage = "validate"
    /\ usable' = (input.succeeds /\ Counted \in 3 .. 6)
    /\ stage' = "render"
    /\ UNCHANGED <<input, titles, grouped, highlights>>

-----------------------------------------------------------------------------
(* render_release_body.py *)

\* load_highlights_file: a dash, a space and something more.
Override ==
    LET bullets == Where(Kept, {"bullet"})
    IN  IF usable THEN [k \in DOMAIN bullets |-> Bullet("codex", {bullets[k]})]
        ELSE << >>

\* Mutant of Overrides: a file counts though nothing is in it.
OverridesAnyhow == usable

Overrides == Override # << >>

\* extract_pr_titles: of the first Limit bullets those that cleaning leaves.
PrTitles ==
    LET bullets == Where(input.changelog, Titles \union {"cleaned"})
        looked == SubSeq(bullets, 1, IF Len(bullets) < Limit THEN Len(bullets) ELSE Limit)
    IN  Picked(looked, {k \in DOMAIN looked : input.changelog[looked[k]] \in Titles})

Start ==
    /\ stage = "render"
    /\ \/ /\ Overrides
          /\ highlights' = Override
          /\ stage' = "done"
          /\ UNCHANGED titles
       \/ /\ ~Overrides /\ PrTitles = << >>
          /\ highlights' = <<Bullet("general", {})>>
          /\ stage' = "done"
          /\ UNCHANGED titles
       \/ /\ ~Overrides /\ PrTitles # << >>
          /\ titles' = PrTitles
          /\ stage' = "group"
          /\ UNCHANGED highlights
    /\ UNCHANGED <<input, usable, grouped>>

\* Mutant of Class: dependency updates are recognised by their words only.
ClassByWords(i) == input.changelog[i]

\* classify_title
Class(i) == IF input.changelog[i] \in {"named", "plain"} THEN "dependencies"
            ELSE input.changelog[i]

\* Mutant of Slot: only a run of titles of one class is a group.
SlotLast(key) == {g \in DOMAIN grouped : g = Len(grouped) /\ grouped[g].key = key}

\* Where grouped has the key already.
Slot(key) == {g \in DOMAIN grouped : grouped[g].key = key}

Group ==
    /\ stage = "group"
    /\ IF titles = << >>
       THEN stage' = "summarize" /\ UNCHANGED <<titles, grouped>>
       ELSE LET key == Class(Head(titles))
            IN  /\ titles' = Tail(titles)
                /\ grouped' =
                     IF Slot(key) = {}
                     THEN Append(grouped, [key |-> key, titles |-> <<Head(titles)>>])
                     ELSE [g \in DOMAIN grouped |->
                             IF g \in Slot(key)
                             THEN [grouped[g] EXCEPT !.titles = Append(@, Head(titles))]
                             ELSE grouped[g]]
                /\ UNCHANGED stage
    /\ UNCHANGED <<input, usable, highlights>>

\* Dependency updates there are words for stand for all of them.
Summary(key, group) ==
    LET named == {i \in group : input.changelog[i] = "named"}
    IN  CASE key = "dependencies" -> IF named # {} THEN named ELSE group
          [] key = "release" -> {CHOOSE i \in group : \A j \in group : i <= j}
          [] OTHER -> group

Bullets(g) ==
    IF g.key = "other"
    THEN [k \in DOMAIN g.titles |-> Bullet("other", {g.titles[k]})]
    ELSE <<Bullet(g.key, Summary(g.key, {g.titles[k] : k \in DOMAIN g.titles}))>>

\* Mutant of FirstFour: the last four are shown.
FirstFourLast(s) == IF Len(s) > 4 THEN SubSeq(s, Len(s) - 3, Len(s)) ELSE s

FirstFour(s) == IF Len(s) > 4 THEN SubSeq(s, 1, 4) ELSE s

Summarize ==
    /\ stage = "summarize"
    /\ IF grouped = << >>
       THEN /\ highlights' = FirstFour(highlights)
            /\ stage' = "done"
            /\ UNCHANGED grouped
       ELSE /\ highlights' = highlights \o Bullets(Head(grouped))
            /\ grouped' = Tail(grouped)
            /\ UNCHANGED stage
    /\ UNCHANGED <<input, usable, titles>>

BodyNext == Prompt \/ Validate \/ Start \/ Group \/ Summarize

BodySpec == BodyInit /\ [][BodyNext]_bodyVars

-----------------------------------------------------------------------------
(* Properties *)

BodyTypeOK ==
    /\ input \in InputType
    /\ stage \in {"prompt", "validate", "render", "group", "summarize", "done", "failed"}
    /\ usable \in BOOLEAN
    /\ titles \in Seq(Nat)
    /\ grouped \in Seq([key : Keys, titles : Seq(Nat)])
    /\ highlights \in Seq([from : Keys \union {"codex", "general"}, lines : SUBSET Nat])

\* Whatever Codex answers, and whether or not it does, the notes have one to
\* six highlights, and those of Codex are not mixed with those of the changelog.
HasHighlights ==
    stage = "done" =>
        /\ Len(highlights) \in 1 .. 6
        /\ \/ \A k \in DOMAIN highlights : highlights[k].from = "codex"
           \/ \A k \in DOMAIN highlights : highlights[k].from # "codex"

\* Wherever they stand in the changelog, changes of a class that is summarised
\* share a single bullet, and no change is told twice.
ToldOnce ==
    \A j, k \in DOMAIN highlights : j # k =>
        /\ highlights[j].lines \intersect highlights[k].lines = {}
        /\ highlights[j].from = highlights[k].from =>
              highlights[j].from \in {"codex", "other"}

Deterministic ==
    stage = "done" /\ \A k \in DOMAIN highlights : highlights[k].from # "codex"

\* Where the class of line i is met first among the titles.
FirstOf(i) ==
    LET same == {j \in {PrTitles[k] : k \in DOMAIN PrTitles} : Class(j) = Class(i)}
    IN  CHOOSE j \in same : \A l \in same : j <= l

\* A change that the highlights leave out is a later chart bump, a dependency
\* update among others there are words for, or comes behind four bullets whose
\* classes are all met no later than its own.
LeftOutForCause ==
    Deterministic => \A k \in DOMAIN PrTitles :
        LET i == PrTitles[k]
        IN  \/ \E b \in DOMAIN highlights : i \in highlights[b].lines
            \/ input.changelog[i] = "release" /\ FirstOf(i) # i
            \/ /\ input.changelog[i] = "plain"
               /\ \E l \in DOMAIN PrTitles : input.changelog[PrTitles[l]] = "named"
            \/ /\ Len(highlights) = 4
               /\ \A b \in DOMAIN highlights : \A j \in highlights[b].lines :
                     FirstOf(j) <= FirstOf(i) /\ (Class(j) = Class(i) => j < i)
=============================================================================
