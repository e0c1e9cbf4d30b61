----------------------------- MODULE FeedbackReport -----------------------------
(***************************************************************************)
(* The second half of `compair sync`: the feedback of the tracked          *)
(* documents is fetched and compared with a cache of what was seen before, *)
(* near-duplicates are collapsed, and the rest is written to a report.     *)
(*                                                                         *)
(* Syncs of one working directory share the cache; the server generates    *)
(* feedback while they run.                                                *)
(***************************************************************************)
EXTENDS Naturals, Sequences, Functions

CONSTANTS
  Processes,    \* concurrent syncs in one directory
  Docs,         \* tracked documents
  Order,        \* all feedback of the model, as sortFeedbackRenderItems orders it
  Alike,        \* set of pairs of feedback that the collapsing takes for duplicates
  Weight,       \* Weight[f]: feedbackItemScore
  Torn,         \* content of a cache file that is no JSON
  MaxRuns, MaxFaults   \* bounds: syncs, failures and deaths
FeedbackAssumption ==
  /\ Order \in Seq(Range(Order)) /\ Alike \subseteq SUBSET Range(Order)
  /\ Weight \in [Range(Order) -> Nat]

VARIABLES
  feedback,   \* feedback[f]: the document it is about, or NoDoc
  cache,      \* .compair/feedback_cache.json: a set of feedback, or Torn
  reported,   \* history: feedback that the reports show
  lost,       \* history: feedback of reports that a failure or a death prevented
  me,         \* me[p]: the memory of sync p
  runs, faults   \* counters for the bounds
reportVars == <<feedback, cache, reported, lost, me, runs, faults>>

Feedback == Range(Order)
NoDoc == "none"

Idle == [pc |-> "idle", seen |-> {}, todo |-> {}, lines |-> {}]
At(p, pc) == me[p].pc = pc

\* The server has generated something.
Generate ==
  /\ \E f \in Feedback, d \in Docs :
       feedback[f] = NoDoc /\ feedback' = [feedback EXCEPT ![f] = d]
  /\ UNCHANGED <<cache, reported, lost, me, runs, faults>>

\* A sync that fetches; loadFeedbackCache: a missing file is empty, and so is one
\* that cannot be read.
LoadCache(p) ==
  /\ At(p, "idle") /\ runs < MaxRuns /\ runs' = runs + 1
  /\ me' = [me EXCEPT ![p] = [pc |-> "list", seen |-> IF cache = Torn THEN {} ELSE cache,
                              todo |-> Docs, lines |-> {}]]
  /\ UNCHANGED <<feedback, cache, reported, lost, faults>>

AreAlike(f, g) == {f, g} \in Alike

\* An item that resembles one that is kept is dropped, or takes the place of the
\* first such one when it weighs more.
WithItem(kept, f) ==
  LET alike == {i \in DOMAIN kept : AreAlike(kept[i], f)}
      first == CHOOSE i \in alike : \A j \in alike : i <= j
  IN IF alike = {} THEN Append(kept, f)
     ELSE IF Weight[f] > Weight[kept[first]] THEN [kept EXCEPT ![first] = f] ELSE kept

\* collapseDuplicateFeedbackItems: what is kept of a set of feedback, taken in order.
Collapsed(items) ==
  LET kept[n \in 0..Len(Order)] ==
        IF n = 0 THEN <<>>
        ELSE IF Order[n] \in items THEN WithItem(kept[n - 1], Order[n]) ELSE kept[n - 1]
  IN Range(kept[Len(Order)])

\* Mutant of NowSeen: the duplicates count as seen as well.
AllSeen(fresh, kept) == fresh

\* What goes into the cache of the fresh feedback, of which some is kept.
NowSeen(fresh, kept) == kept

\* The memory m of a sync when document d is done.
Listed(m, d, seen, lines) ==
  [pc |-> "list", seen |-> m.seen \cup seen, todo |-> m.todo \ {d},
   lines |-> m.lines \cup lines]

\* One document: ListFeedback fails, and the document is left out, or its
\* feedback that the cache does not have goes into the report.
List(p) == \E d \in me[p].todo :
  /\ At(p, "list")
  /\ \/ /\ faults < MaxFaults /\ faults' = faults + 1
        /\ me' = [me EXCEPT ![p] = Listed(me[p], d, {}, {})]
     \/ LET fresh == {f \in Feedback : feedback[f] = d} \ me[p].seen
            kept == Collapsed(fresh)
        IN /\ me' = [me EXCEPT ![p] = Listed(me[p], d, NowSeen(fresh, kept), kept)]
           /\ UNCHANGED faults
  /\ UNCHANGED <<feedback, cache, reported, lost, runs>>

\* saveFeedbackCache: os.WriteFile replaces the file in place; a failure is only
\* a warning, and leaves the file as it is or cut off.
SaveCache(p) ==
  /\ At(p, "list") /\ me[p].todo = {}
  /\ me' = IF me[p].lines = {} THEN [me EXCEPT ![p] = Idle]
                               ELSE [me EXCEPT ![p].pc = "write"]
  /\ \/ cache' = me[p].seen /\ UNCHANGED faults
     \/ faults < MaxFaults /\ faults' = faults + 1 /\ cache' \in {cache, Torn}
  /\ UNCHANGED <<feedback, reported, lost, runs>>

\* printer.WriteMarkdownReport; its error is the command's. The gate comes next.
WriteReport(p) ==
  /\ At(p, "write") /\ me' = [me EXCEPT ![p] = Idle]
  /\ \/ reported' = reported \cup me[p].lines /\ UNCHANGED <<lost, faults>>
     \/ /\ faults < MaxFaults /\ faults' = faults + 1
        /\ lost' = lost \cup me[p].lines /\ UNCHANGED reported
  /\ UNCHANGED <<feedback, cache, runs>>

\* The process dies, in the middle of saving the cache perhaps.
Die(p) ==
  /\ ~At(p, "idle") /\ faults < MaxFaults /\ faults' = faults + 1
  /\ lost' = IF At(p, "write") THEN lost \cup me[p].lines ELSE lost
  /\ cache' \in IF At(p, "list") /\ me[p].todo = {} THEN {cache, Torn} ELSE {cache}
  /\ me' = [me EXCEPT ![p] = Idle]
  /\ UNCHANGED <<feedback, reported, runs>>

ReportInit ==
  /\ feedback = [f \in Feedback |-> NoDoc]
  /\ cache = {} /\ reported = {} /\ lost = {}
  /\ me = [p \in Processes |-> Idle]
  /\ runs = 0 /\ faults = 0

ReportNext ==
  \/ Generate
  \/ \E p \in Processes :
       LoadCache(p) \/ List(p) \/ SaveCache(p) \/ WriteReport(p) \/ Die(p)

-----------------------------------------------------------------------------
(* Properties.                                                             *)

\* Feedback is hidden from later syncs only when a report showed it, or a report
\* that failed after the cache was saved should have: neither the collapsing of
\* duplicates nor another sync with the same cache swallows any.
NothingSwallowed ==
  cache # Torn =>
    cache \subseteq reported \cup lost
                      \cup UNION {me[p].lines : p \in {q \in Processes : At(q, "write")}}
-----------------------------------------------------------------------------
(* The inductive invariant.                                                *)

Memory == [pc : {"idle", "list", "write"}, seen : SUBSET Feedback, todo : SUBSET Docs,
           lines : SUBSET Feedback]

TypeOK ==
  /\ feedback \in [Feedback -> Docs \cup {NoDoc}]
  /\ cache \in (SUBSET Feedback) \cup {Torn}
  /\ reported \subseteq Feedback /\ lost \subseteq Feedback
  /\ me \in [Processes -> Memory]
  /\ runs \in Nat /\ faults \in Nat

\* What a user was told, should have been told, or is about to be.
Told ==
  reported \cup lost \cup UNION {me[p].lines : p \in {q \in Processes : At(q, "write")}}

\* What a sync will put into the cache was told, or is in its own report.
ReportInv ==
  /\ cache # Torn => cache \subseteq Told
  /\ \A p \in Processes :
       /\ At(p, "idle") => me[p].lines = {}
       /\ At(p, "list") => me[p].seen \subseteq Told \cup me[p].lines
=============================================================================
