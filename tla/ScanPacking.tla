------------------------------ MODULE ScanPacking ------------------------------
(***************************************************************************)
(* What `baseline scan` makes of the Git trees of the siblings             *)
(* (scanner.go): every entry becomes a record with a state, the records    *)
(* with content are packed into upload parts, and a report counts both.    *)
(* The trees are immutable commits; hashes and encodings are left out.     *)
(***************************************************************************)
EXTENDS Naturals, Sequences, FiniteSets, SequencesExt

CONSTANTS
  Sizes,           \* sizes of files
  MaxEntries,      \* bound: entries of all trees
  MaxFileRecords, MaxFileBytes, MaxSupportedBytes,   \* frozen limits of a snapshot
  MaxPartItems, MaxPartBytes, MaxContentParts        \* frozen limits of its parts

\* Nothing that may be packed is larger than a part.
LimitsAssumption ==
  /\ {MaxEntries, MaxFileRecords, MaxSupportedBytes} \subseteq Nat
  /\ Sizes \subseteq Nat
  /\ MaxPartItems \in Nat \ {0} /\ MaxPartBytes \in Nat /\ MaxContentParts \in Nat
  /\ MaxFileBytes \in 0..MaxPartBytes

VARIABLES
  records,   \* the records made so far, one for every entry of the trees
  parts,     \* the parts packed so far
  packed,    \* how many records have been through the packing
  verdict    \* "scanning", "packing", or how the scan ended
scanVars == <<records, parts, packed, verdict>>

\* Regular files with text or other bytes, files below .git, build and the like,
\* symlinks, submodules, and modes that the contract does not know.
Kinds == {"text", "bytes", "excluded", "symlink", "submodule", "unknown"}
Entry == [kind : Kinds, size : Sizes]
States == {"supported", "oversized", "unsupported_utf8", "excluded_directory",
           "unsupported_file_type", "symlink_rejected"}

-----------------------------------------------------------------------------
(* Classification (classifyTreeEntry).                                     *)

\* A directory of the excluded ones comes before size, and size before text.
State(entry) ==
  CASE entry.kind = "symlink" -> "symlink_rejected"
    [] entry.kind = "submodule" -> "unsupported_file_type"
    [] entry.kind = "excluded" -> "excluded_directory"
    [] entry.kind \in {"text", "bytes"} /\ entry.size > MaxFileBytes -> "oversized"
    [] entry.kind = "bytes" /\ entry.size <= MaxFileBytes -> "unsupported_utf8"
    [] OTHER -> "supported"

Record(entry) ==
  [state |-> State(entry), size |-> IF State(entry) = "supported" THEN entry.size ELSE 0]

\* The next entry of the trees, sibling after sibling.
Classify ==
  /\ verdict = "scanning" /\ Len(records) < MaxEntries
  /\ \E entry \in Entry :
       IF entry.kind = "unknown" \/ Len(records) = MaxFileRecords
       THEN verdict' = "refused" /\ UNCHANGED records
       ELSE records' = Append(records, Record(entry)) /\ UNCHANGED verdict
  /\ UNCHANGED <<parts, packed>>

Supported(i) == records[i].state = "supported"
InState(s) == {i \in DOMAIN records : records[i].state = s}

\* size[1] + ... + size[n]
SumOf(size, n) ==
  LET sum[k \in 0..n] == IF k = 0 THEN 0 ELSE sum[k - 1] + size[k] IN sum[n]

Bytes(items) ==
  SumOf([i \in DOMAIN records |-> IF i \in items THEN records[i].size ELSE 0], Len(records))

\* There are no more entries (validateSnapshotAggregate).
Aggregate ==
  /\ verdict = "scanning"
  /\ verdict' = IF Bytes(InState("supported")) > MaxSupportedBytes THEN "refused" ELSE "packing"
  /\ UNCHANGED <<records, parts, packed>>

-----------------------------------------------------------------------------
(* Packing (buildContentParts).                                            *)

\* Mutant of Full: a part is never filled to the last byte.
FullBytesEarly(part, i) ==
  Len(part.items) >= MaxPartItems \/ part.bytes + records[i].size >= MaxPartBytes

\* Record i no longer fits into the part.
Full(part, i) ==
  Len(part.items) >= MaxPartItems \/ part.bytes + records[i].size > MaxPartBytes

Pack ==
  LET i == packed + 1
      new == [items |-> <<i>>, bytes |-> records[i].size]
      more(part) == [items |-> Append(part.items, i), bytes |-> part.bytes + records[i].size]
  IN
  /\ verdict = "packing" /\ packed < Len(records)
  /\ packed' = i
  /\ parts' =
       IF ~Supported(i) THEN parts
       ELSE IF parts = <<>> \/ Full(Last(parts), i) THEN Append(parts, new)
       ELSE [parts EXCEPT ![Len(parts)] = more(Last(parts))]
  /\ UNCHANGED <<records, verdict>>

-----------------------------------------------------------------------------
(* The report (buildDryRunReport).                                         *)

\* What countSkips counts, of each reason.
Skips ==
  [oversized |-> Cardinality(InState("oversized")),
   nonUTF8 |-> Cardinality(InState("unsupported_utf8")),
   excludedDirectory |-> Cardinality(InState("excluded_directory")),
   unsupportedFileType |-> Cardinality(InState("unsupported_file_type")),
   symlink |-> Cardinality(InState("symlink_rejected"))]

Report ==
  [files |-> Len(records), supported |-> Cardinality(InState("supported")), skips |-> Skips,
   bytes |-> Bytes(InState("supported")),
   partFiles |-> [k \in DOMAIN parts |-> Len(parts[k].items)],
   partBytes |-> [k \in DOMAIN parts |-> parts[k].bytes]]

\* ValidateDryRunReportContract
Consistent(report) ==
  /\ report.supported <= report.files
  /\ report.skips.oversized + report.skips.nonUTF8 + report.skips.excludedDirectory
       + report.skips.unsupportedFileType + report.skips.symlink
     = report.files - report.supported
  /\ \A k \in DOMAIN report.partFiles :
       report.partFiles[k] \in 1..MaxPartItems /\ report.partBytes[k] <= MaxPartBytes
  /\ SumOf(report.partFiles, Len(report.partFiles)) = report.supported
  /\ SumOf(report.partBytes, Len(report.partBytes)) = report.bytes

\* The parts are counted, the report is validated, and the commits are looked
\* up once more: they may be gone by now.
Finish ==
  /\ verdict = "packing" /\ packed = Len(records)
  /\ IF Len(parts) > MaxContentParts THEN verdict' = "too_many_parts"
     ELSE IF ~Consistent(Report) THEN verdict' = "invalid_report"
     ELSE verdict' \in {"ok", "drifted"}
  /\ UNCHANGED <<records, parts, packed>>

ScanInit ==
  /\ records = <<>> /\ parts = <<>> /\ packed = 0
  /\ verdict = "scanning"

ScanNext == Classify \/ Aggregate \/ Pack \/ Finish

-----------------------------------------------------------------------------
(* Properties.                                                             *)

Items(k) == Range(parts[k].items)

\* The order of the parts is that of the manifest, and nothing is in them twice.
Ordered ==
  /\ \A k \in DOMAIN parts, a, b \in 1..MaxPartItems :
       a < b /\ b <= Len(parts[k].items) => parts[k].items[a] < parts[k].items[b]
  /\ \A k, l \in DOMAIN parts : k < l => \A i \in Items(k), j \in Items(l) : i < j

\* Some records fit into one part.
Fits(items) == Cardinality(items) <= MaxPartItems /\ Bytes(items) <= MaxPartBytes

\* The content of the records after a, up to b.
Content(a, b) == {i \in (a + 1)..b : Supported(i)}

\* The ways to cut n parts within the limits off the records, where part k ends with
\* record ends[k].
Cuts(n) ==
  {ends \in [0..n -> 0..Len(records)] :
     ends[0] = 0 /\ \A k \in 1..n : Fits(Content(ends[k - 1], ends[k]))}

CanBeCut(n) == \E ends \in Cuts(n) : ends[n] = Len(records)

\* The parts are the supported files, each once, in the order of the manifest,
\* within the limits of a part, and there is no way to cut them into fewer parts
\* within the limits. Moreover the scanner never builds a report that its own
\* contract refuses, for any mixture of files that are packed and files that are
\* skipped.
PackingIsExact ==
  /\ verdict \in {"ok", "drifted", "too_many_parts"} =>
       /\ \A i \in DOMAIN records : Supported(i) <=> \E k \in DOMAIN parts : i \in Items(k)
       /\ Ordered
       /\ \A k \in DOMAIN parts : Items(k) # {} /\ Fits(Items(k))
       /\ parts # <<>> => ~CanBeCut(Len(parts) - 1)
  /\ verdict # "invalid_report"
-----------------------------------------------------------------------------
(* The inductive invariant.                                                *)

TypeOK ==
  /\ records \in Seq([state : States, size : 0..MaxFileBytes])
  /\ parts \in Seq([items : Seq(Nat), bytes : Nat])
  /\ packed \in 0..Len(records)
  /\ verdict \in {"scanning", "packing", "refused", "invalid_report", "too_many_parts",
                  "ok", "drifted"}

\* The parts have what has been packed, and say how much it is.
Exact ==
  /\ \A i \in DOMAIN records :
       (Supported(i) /\ i <= packed) <=> \E k \in DOMAIN parts : i \in Items(k)
  /\ \A k \in DOMAIN parts : Items(k) \subseteq DOMAIN records
  /\ Ordered
  /\ \A k \in DOMAIN parts :
       /\ Len(parts[k].items) \in 1..MaxPartItems /\ parts[k].bytes <= MaxPartBytes
       /\ Cardinality(Items(k)) = Len(parts[k].items) /\ Bytes(Items(k)) = parts[k].bytes

\* No way to cut k - 1 parts off the records gets to where part k begins.
Ahead == \A k \in DOMAIN parts : \A ends \in Cuts(k - 1), i \in Items(k) : ends[k - 1] < i

\* The two sums that the report is checked for.
Adds ==
  /\ SumOf(Report.partFiles, Len(parts)) = Cardinality(Content(0, packed))
  /\ SumOf(Report.partBytes, Len(parts)) = Bytes(Content(0, packed))

ScanInv ==
  /\ Exact /\ Ahead /\ Adds
  /\ verdict \in {"scanning", "refused"} => parts = <<>> /\ packed = 0
  /\ verdict \in {"ok", "drifted", "too_many_parts"} => packed = Len(records)
  /\ verdict # "invalid_report"
=============================================================================
