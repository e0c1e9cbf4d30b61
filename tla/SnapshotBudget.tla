----------------------------- MODULE SnapshotBudget -----------------------------
(***************************************************************************)
(* How a snapshot of a repository is put together (snapshot.go:            *)
(* buildRepoSnapshot): which tracked files become candidates, how many of  *)
(* their chunks fit into the budget, and what the summary says of the      *)
(* rest. Sizes are in units of some bytes; what the chunks are is in       *)
(* SnapshotChunks.                                                         *)
(***************************************************************************)
EXTENDS Naturals, Sequences, FiniteSets, SequencesExt, FiniteSetsExt

CONSTANTS
  Budgets,      \* --snapshot-max-total-bytes, 0 for no cap
  FileCaps,     \* --snapshot-max-files, 0 for no cap
  Sizes,        \* sizes of chunks and of the file tree that begins the text
  Overhead,     \* header and fences of a chunk
  Least,        \* the least content that a cut chunk must have (20 bytes)
  Delimiter,    \* the line between chunks
  Summary,      \* the section with the limits at the end
  MaxTracked, MaxChunks   \* bounds: tracked files, chunks of a file
SizesAssumption ==
  {Overhead, Least, Delimiter, Summary} \cup Budgets \cup FileCaps \cup Sizes \subseteq Nat

VARIABLES
  phase,      \* "walk", "select", "write" or "done"
  caps,       \* the options of this snapshot
  left,       \* candidates that have not been reached
  todo,       \* sizes of the chunks of the current file that are not written
  added,      \* whether the current file has a chunk in the text
  remaining,  \* what is left of the budget, as the loop knows it
  used,       \* length of the text
  stats       \* snapshotStats
snapshotVars == <<phase, caps, left, todo, added, remaining, used, stats>>

NoStats == [total |-> 0, ignored |-> 0, tooLarge |-> 0, nonText |-> 0,
            included |-> 0, omitted |-> 0]
Counted(fields) == [f \in DOMAIN stats |-> IF f \in fields THEN stats[f] + 1 ELSE stats[f]]

Capped == caps.total > 0

\* remainingSnapshotBudget, which is below zero when the text is too long
\* already; nothing is made of how far.
Remaining(length) == IF Capped /\ length < caps.total THEN caps.total - length ELSE 0

-----------------------------------------------------------------------------
(* The walk over the tracked files.                                        *)

\* Mutant of Skipped: the file is passed over without a count.
SkippedQuietly(why) == Counted({"total"})

\* A file that is too large to read or no text.
Skipped(why) == Counted({"total", why})

\* A file that globs leave out, or that is gone, is not counted at all, and one
\* of .compairignore not as a file.
Walk ==
  /\ phase = "walk" /\ stats.total + stats.ignored < MaxTracked
  /\ \/ stats' = Counted({"ignored"}) /\ UNCHANGED left
     \/ \E why \in {"tooLarge", "nonText"} : stats' = Skipped(why) /\ UNCHANGED left
     \/ stats' = Counted({"total"}) /\ left' = left + 1
  /\ UNCHANGED <<phase, caps, todo, added, remaining, used>>

\* The head of the text is written: remote, branch, commit and the file tree. If
\* that fills the budget the text ends there, without a summary.
WriteTree ==
  /\ phase = "walk"
  /\ \E tree \in Sizes :
       /\ used' = tree /\ remaining' = Remaining(tree)
       /\ phase' = IF Capped /\ Remaining(tree) = 0 THEN "done" ELSE "select"
  /\ UNCHANGED <<caps, left, todo, added, stats>>

-----------------------------------------------------------------------------
(* The loop over the candidates.                                           *)

\* The candidate cannot be read any more, or is no text now, or is blank.
Omit ==
  /\ phase = "select" /\ left > 0
  /\ ~(caps.files > 0 /\ stats.included >= caps.files) /\ ~(Capped /\ remaining = 0)
  /\ left' = left - 1
  /\ stats' \in {Counted({"omitted"}), Counted({"omitted", "nonText"})}
  /\ UNCHANGED <<phase, caps, todo, added, remaining, used>>

Select ==
  /\ phase = "select" /\ left > 0
  /\ ~(caps.files > 0 /\ stats.included >= caps.files) /\ ~(Capped /\ remaining = 0)
  /\ left' = left - 1 /\ added' = FALSE /\ phase' = "write"
  /\ todo' \in UNION {[1..n -> Sizes] : n \in 1..MaxChunks}
  /\ UNCHANGED <<caps, remaining, used, stats>>

\* fitChunk: the lengths that a payload may have. Content that is too long is cut to
\* what remains, or shorter, for trimContext limits its lines as well.
Fitted(size) ==
  IF Capped /\ size + Overhead > remaining
  THEN (Overhead + 1)..remaining
  ELSE {size + Overhead}

TooLittle == Capped /\ remaining <= Overhead + Least

WriteChunk ==
  /\ phase = "write" /\ todo # <<>> /\ ~(Capped /\ remaining = 0)
  /\ IF TooLittle
     THEN remaining' = 0 /\ todo' = <<>> /\ UNCHANGED <<used, added>>
     ELSE /\ \E length \in Fitted(Head(todo)) : used' = used + Delimiter + length
          /\ remaining' = Remaining(used')
          /\ todo' = Tail(todo) /\ added' = TRUE
  /\ UNCHANGED <<phase, caps, left, stats>>

FileCounts == IF added THEN Counted({"included"}) ELSE Counted({"omitted"})

FileDone ==
  /\ phase = "write" /\ (todo = <<>> \/ (Capped /\ remaining = 0))
  /\ stats' = FileCounts
  /\ phase' = "select" /\ todo' = <<>>
  /\ UNCHANGED <<caps, left, added, remaining, used>>

\* The section with the limits; after chunks, a line between them comes first.
WriteSummary ==
  /\ phase = "select"
  /\ \/ left = 0
     \/ caps.files > 0 /\ stats.included >= caps.files
     \/ Capped /\ remaining = 0
  /\ used' = used + Summary + (IF stats.included > 0 THEN Delimiter ELSE 0)
  /\ phase' = "done"
  /\ UNCHANGED <<caps, left, todo, added, remaining, stats>>

SnapshotInit ==
  /\ phase = "walk" /\ caps \in [total : Budgets, files : FileCaps]
  /\ left = 0 /\ todo = <<>> /\ added = FALSE /\ remaining = 0 /\ used = 0
  /\ stats = NoStats

SnapshotNext ==
  Walk \/ WriteTree \/ Omit \/ Select \/ WriteChunk \/ FileDone \/ WriteSummary

-----------------------------------------------------------------------------
(* Properties.                                                             *)

Exhausted == Capped /\ remaining = 0

\* The text is longer than its budget only by the summary and two delimiters, the
\* one before the last chunk and the one after it, or because the file tree alone
\* is. The summary accounts for every tracked file that is not ignored: files go
\* unmentioned only when as many as allowed are in the text, or when what is left
\* of the budget would not hold another chunk.
SnapshotIsAccounted ==
  /\ phase = "select" /\ Exhausted => caps.total <= used + Overhead + Least
  /\ phase = "done" =>
       /\ Capped => \/ used <= caps.total + Delimiter + Delimiter + Summary
                    \/ used \in Sizes /\ stats.included = 0
       /\ LET told == stats.included + stats.omitted + stats.tooLarge + stats.nonText
          IN stats.total <= told + left
       /\ left > 0 => Exhausted \/ (caps.files > 0 /\ stats.included = caps.files)
-----------------------------------------------------------------------------
(* The inductive invariant.                                                *)

TypeOK ==
  /\ phase \in {"walk", "select", "write", "done"}
  /\ caps \in [total : Budgets, files : FileCaps]
  /\ left \in Nat /\ todo \in Seq(Sizes) /\ added \in BOOLEAN
  /\ remaining \in Nat /\ used \in Nat
  /\ stats \in [DOMAIN NoStats -> Nat]

\* The loop never thinks that more is left of the budget than is, and it writes
\* nothing without something left; it stops only when next to nothing is.
BudgetFits ==
  Capped /\ phase \in {"select", "write"} =>
    /\ used <= caps.total + Delimiter
    /\ remaining > 0 => used + remaining = caps.total
    /\ remaining = 0 => caps.total <= used + Overhead + Least

\* The files that the statistics account for, one at work on included.
Accounted ==
  stats.included + stats.omitted + stats.tooLarge + stats.nonText + left
    + IF phase = "write" THEN 1 ELSE 0

SnapshotInv ==
  /\ BudgetFits
  /\ phase = "walk" => stats.included = 0 /\ used = 0
  /\ stats.total <= Accounted
  /\ caps.files > 0 => stats.included <= caps.files - IF phase = "write" THEN 1 ELSE 0
  /\ SnapshotIsAccounted
=============================================================================
