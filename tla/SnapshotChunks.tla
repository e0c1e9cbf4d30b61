----------------------------- MODULE SnapshotChunks -----------------------------
(***************************************************************************)
(* How a snapshot cuts a file into chunks (snapshot.go: chunkText and what *)
(* it calls), for every profile but signal-stress, which samples on        *)
(* purpose. A text is a sequence of kinds of lines; a chunk is a sequence  *)
(* of numbers of lines, where 0 is a blank line that the cutting inserts.  *)
(***************************************************************************)
EXTENDS Naturals, Sequences, FiniteSets, SequencesExt, FiniteSetsExt

CONSTANTS
  MaxLines, MinLines,   \* the rule of a file type (chunkRuleForFile)
  MaxText               \* bound: lines of a text
RuleAssumption == MinLines \in Nat \ {0} /\ MaxLines \in Nat /\ MinLines < MaxLines

VARIABLES
  lang,      \* "code", "markdown" or "structured"
  text,      \* the lines of the file
  profile,   \* the profile they were cut with, or NoProfile
  chunks     \* what came of it
chunkVars == <<lang, text, profile, chunks>>

Kinds ==
  [code |-> {"symbol", "nested", "comment", "text", "blank"},
   markdown |-> {"h1", "h2", "h3", "fence", "text", "blank"},
   structured |-> {"section", "text", "blank"}]
Headings == {"h1", "h2", "h3"}
LevelOf == [h1 |-> 1, h2 |-> 2, h3 |-> 3]

\* The lines that the prefixes of the rule are found on, wherever they stand.
SplitPrefixes == {"symbol", "nested", "h1", "section"}

Profiles == {"default", "semantic-lite", "semantic-context",
             "markdown-strict", "markdown-h2", "markdown-h2-window"}
NoProfile == "none"

Kind(i) == IF i = 0 THEN "blank" ELSE text[i]
Lines == [i \in DOMAIN text |-> i]

-----------------------------------------------------------------------------
(* Segments.                                                               *)

\* trimBlankEdges
Trimmed(lines) ==
  LET solid == {k \in DOMAIN lines : Kind(lines[k]) # "blank"}
  IN IF solid = {} THEN <<>> ELSE SubSeq(lines, Min(solid), Max(solid))

\* joinNonEmptySegments
NonEmpty(segments) ==
  SelectSeq([k \in DOMAIN segments |-> Trimmed(segments[k])], LAMBDA s : s # <<>>)

\* Mutant of NextStart: the line that is cut at is skipped.
StartAfter(i) == i + 1

\* The chunk after a cut begins with the line that is cut at.
NextStart(i) == i

\* Line i is looked at: a cut is due after MaxLines, and allowed at a prefix after
\* MinLines.
CutAt(lines, i, acc) ==
  IF \/ i - acc.start >= MaxLines
     \/ i - acc.start >= MinLines /\ Kind(lines[i]) \in SplitPrefixes
  THEN [start |-> NextStart(i), out |-> Append(acc.out, SubSeq(lines, acc.start, i - 1))]
  ELSE acc

\* chunkTextDefault
Default(lines) ==
  LET cut[i \in 0..Len(lines)] ==
        IF i = 0 THEN [start |-> 1, out |-> <<>>] ELSE CutAt(lines, i, cut[i - 1])
      all == cut[Len(lines)]
  IN IF Len(lines) <= MaxLines THEN <<lines>>
     ELSE IF all.start > Len(lines) THEN all.out
     ELSE Append(all.out, SubSeq(lines, all.start, Len(lines)))

\* splitOversizedSegments(Soft)
Split(segments, multiplier) ==
  FlattenSeq([k \in DOMAIN segments |->
    IF Len(segments[k]) > MaxLines * multiplier THEN Default(segments[k])
    ELSE <<segments[k]>>])

\* mergeSmallSegments
Merged(segments) ==
  LET merge(out, s) ==
        IF Len(s) < MinLines /\ out # <<>> /\ Len(Last(out)) + Len(s) <= MaxLines
        THEN [out EXCEPT ![Len(out)] = @ \o s]
        ELSE Append(out, s)
  IN IF Len(segments) < 2 THEN segments ELSE FoldLeft(merge, <<>>, segments)

\* a and b with a blank line between them, when both have lines.
Spaced(a, b) == IF a = <<>> \/ b = <<>> THEN a \o b ELSE a \o <<0>> \o b

\* The text from each start to the next.
From(starts) ==
  [k \in DOMAIN starts |->
     Trimmed(SubSeq(Lines, starts[k],
                    IF k < Len(starts) THEN starts[k + 1] - 1 ELSE Len(text)))]

-----------------------------------------------------------------------------
(* Code and structured texts.                                              *)

\* symbolStartIndices: a symbol begins with the comments and the blank lines
\* above it (expandSymbolStart). Decorators are comments here.
SymbolStarts ==
  LET expanded(i) == Min({j \in 1..i : \A k \in j..(i - 1) : Kind(k) \in {"blank", "comment"}})
  IN SetToSortSeq({expanded(i) : i \in {k \in DOMAIN text : text[k] = "symbol"}}, <)

Preamble(starts) == Trimmed(SubSeq(Lines, 1, starts[1] - 1))

\* preambleContextLines
Context(preamble) == SubSeq(preamble, 1, Min({24, MaxLines, Len(preamble)}))

\* chunkCodeSymbols; with context every symbol gets the head of the preamble.
CodeSymbols(context) ==
  LET preamble == Preamble(SymbolStarts)
      segments == From(SymbolStarts)
  IN IF Len(text) <= MaxLines \/ SymbolStarts = <<>> THEN <<>>
     ELSE Merged(Split(NonEmpty(
       IF context THEN [k \in DOMAIN segments |-> Spaced(Context(preamble), segments[k])]
       ELSE <<preamble>> \o segments), 2))

\* chunkStructuredSections
StructuredSections ==
  LET starts == SetToSortSeq({i \in DOMAIN text : text[i] = "section"}, <)
  IN IF Len(text) <= MaxLines \/ starts = <<>> THEN <<>>
     ELSE Merged(Split(NonEmpty(<<Preamble(starts)>> \o From(starts)), 1))

-----------------------------------------------------------------------------
(* Markdown.                                                               *)

\* The sections of the text (collectMarkdownSections): a heading outside of
\* fences opens one, under the headings above it that are of a lower level, and
\* a level that is left out is not counted.
Sections ==
  LET open(acc, i) ==
        LET fenced == IF text[i] = "fence" THEN ~acc.fenced ELSE acc.fenced
            level == Min({LevelOf[text[i]], Len(acc.stack) + 1})
            stack == Append(SubSeq(acc.stack, 1, level - 1), i)
        IN IF text[i] \in Headings /\ ~fenced
           THEN [fenced |-> fenced, stack |-> stack,
                 out |-> Append(acc.out, [level |-> level, headings |-> stack, body |-> <<>>])]
           ELSE [fenced |-> fenced, stack |-> acc.stack,
                 out |-> [acc.out EXCEPT ![Len(acc.out)].body = Append(@, i)]]
      all == FoldLeft(open,
               [fenced |-> FALSE, stack |-> <<>>,
                out |-> <<[level |-> 0, headings |-> <<>>, body |-> <<>>]>>], Lines).out
      trimmed == [k \in DOMAIN all |-> [all[k] EXCEPT !.body = Trimmed(@)]]
  IN SelectSeq(trimmed, LAMBDA s : s.level > 0 \/ s.body # <<>>)

\* renderMarkdownSection
Rendered(headings, body) == Spaced(headings, Trimmed(body))

\* chunkMarkdownSections: a section without a body is left out, and its headings
\* with it unless they are above another section. The preamble goes to the first.
MarkdownSections ==
  LET bodies == SelectSeq(Sections, LAMBDA s : s.level > 0 /\ s.body # <<>>)
      preamble == IF Sections # <<>> /\ Head(Sections).level = 0
                  THEN Head(Sections).body ELSE <<>>
      segments == [k \in DOMAIN bodies |->
        Spaced(IF k = 1 THEN preamble ELSE <<>>, Rendered(bodies[k].headings, bodies[k].body))]
  IN IF Len(text) <= MaxLines THEN <<>>
     ELSE IF bodies = <<>> THEN IF preamble = <<>> THEN <<>> ELSE Default(preamble)
     ELSE Merged(Split(NonEmpty(segments), 2))

\* chunkMarkdownStrictSections
StrictSections ==
  Split(NonEmpty([k \in DOMAIN Sections |->
                    Rendered(Sections[k].headings, Sections[k].body)]), 2)

\* The section at k and the deeper ones after it, up to the next that is not.
Children(k) ==
  LET ends == {j \in (k + 1)..Len(Sections) : Sections[j].level <= 2}
  IN SubSeq(Sections, k + 1, IF ends = {} THEN Len(Sections) ELSE Min(ends) - 1)

\* renderMarkdownGroup: a group that is too long is cut at its children, and its
\* introduction goes into a chunk of its own or, with a window, into all of them.
Group(k, window) ==
  LET root == Sections[k]
      depth == Len(root.headings)
      below(child) == SubSeq(child.headings, depth + 1, Len(child.headings))
      combine(body, child) == Spaced(body, Rendered(below(child), child.body))
      combined == Rendered(root.headings, FoldLeft(combine, root.body, Children(k)))
      cut(child) ==
        Rendered(child.headings, IF window THEN Spaced(root.body, child.body) ELSE child.body)
  IN IF Len(combined) <= MaxLines \/ Children(k) = <<>> THEN <<combined>>
     ELSE (IF root.body # <<>> /\ ~window THEN <<Rendered(root.headings, root.body)>> ELSE <<>>)
          \o [j \in DOMAIN Children(k) |-> cut(Children(k)[j])]

\* chunkMarkdownH2Sections: first what is above the groups, then the groups.
H2Sections(window) ==
  LET ofLevel(levels) == SelectSeq([k \in DOMAIN Sections |-> k],
                                   LAMBDA k : Sections[k].level \in levels)
      top == SelectSeq(ofLevel({0, 1}), LAMBDA k : Sections[k].body # <<>>)
      groups == ofLevel({2})
  IN Split(NonEmpty(
       [j \in DOMAIN top |-> Rendered(Sections[top[j]].headings, Sections[top[j]].body)]
       \o FlattenSeq([j \in DOMAIN groups |-> Group(groups[j], window)])), 2)

-----------------------------------------------------------------------------
(* The choice between them (chunkText, chunkTextSemantic).                 *)

Special(by) ==
  CASE lang = "markdown" /\ by = "markdown-strict" -> StrictSections
    [] lang = "markdown" /\ by \in {"markdown-h2", "markdown-h2-window"} ->
         H2Sections(by = "markdown-h2-window")
    [] lang = "markdown" /\ by \in {"semantic-lite", "semantic-context"} -> MarkdownSections
    [] lang = "structured" /\ by \in {"semantic-lite", "semantic-context"} -> StructuredSections
    [] lang = "code" /\ by \in {"semantic-lite", "semantic-context"} ->
         CodeSymbols(by = "semantic-context")
    [] OTHER -> <<>>

ChunkText(by) == IF Special(by) # <<>> THEN Special(by) ELSE Default(Lines)

\* One more line is in the file.
ReadLine ==
  /\ profile = NoProfile /\ Len(text) < MaxText
  /\ \E kind \in Kinds[lang] : text' = Append(text, kind)
  /\ UNCHANGED <<lang, profile, chunks>>

\* buildRepoSnapshot passes a text with some line that is not blank.
Chunk ==
  /\ profile = NoProfile /\ Trimmed(Lines) # <<>>
  /\ \E by \in Profiles : profile' = by /\ chunks' = ChunkText(by)
  /\ UNCHANGED <<lang, text>>

ChunksInit ==
  /\ lang \in DOMAIN Kinds
  /\ text = <<>> /\ profile = NoProfile /\ chunks = <<>>

ChunksNext == ReadLine \/ Chunk

-----------------------------------------------------------------------------
(* Properties.                                                             *)

\* What semantic-context leaves of a preamble, it leaves out of the chunks.
CutPreamble ==
  IF lang = "code" /\ profile = "semantic-context" /\ CodeSymbols(TRUE) # <<>>
  THEN LET preamble == Preamble(SymbolStarts)
       IN Range(preamble) \ Range(Context(preamble))
  ELSE {}

\* However a file is cut, its text goes to the server: every line that is neither
\* blank nor a heading is in a chunk, except for the rest of a preamble that is too
\* long to repeat. It is there once, in the order of the file, unless the profile
\* repeats or reorders; and no chunk is longer than twice what the rule allows.
NoLineIsLost ==
  profile # NoProfile =>
    LET content(lines) == SelectSeq(lines, LAMBDA i : Kind(i) \notin Headings \cup {"blank"})
        once == profile \in {"default", "semantic-lite", "markdown-strict"}
    IN
    /\ Range(content(Lines)) \ CutPreamble \subseteq Range(FlattenSeq(chunks))
    /\ once => content(FlattenSeq(chunks)) = content(Lines)
    /\ \A k \in DOMAIN chunks : chunks[k] # <<>> /\ Len(chunks[k]) <= 2 * MaxLines
-----------------------------------------------------------------------------
(* The cut at lines, which is the last resort of every profile.            *)

\* The pieces begin where the one before ends, from the first line to the last, and
\* each has a line, and no more than the rule allows.
Tiled(pieces, lines) ==
  \E from \in [1..(Len(pieces) + 1) -> 1..(Len(lines) + 1)] :
    /\ from[1] = 1 /\ from[Len(pieces) + 1] = Len(lines) + 1
    /\ \A k \in DOMAIN pieces :
         /\ from[k] < from[k + 1] /\ from[k + 1] - from[k] <= MaxLines
         /\ pieces[k] = SubSeq(lines, from[k], from[k + 1] - 1)

\* A file is cut once, and when it has no sections or symbols to cut it at, into such
\* pieces.
DefaultTiles ==
  profile' # profile \/ chunks' # chunks =>
    /\ profile = NoProfile
    /\ Special(profile') = <<>> => Tiled(chunks', Lines)

TypeOK ==
  /\ lang \in DOMAIN Kinds /\ profile \in Profiles \cup {NoProfile}
  /\ text \in Seq(UNION {Kinds[l] : l \in DOMAIN Kinds})
=============================================================================
