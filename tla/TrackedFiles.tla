------------------------------ MODULE TrackedFiles ------------------------------
(***************************************************************************)
(* The workspace database of one group (db/store.go): the files and        *)
(* repositories that `compair add` and `compair track` put into it, the    *)
(* documents that stand for them on the server, and the commands that keep *)
(* the two together: the pass of `sync`, `push` and `pull` over tracked    *)
(* files, publish, reconcile and rm.                                       *)
(*                                                                         *)
(* Every statement of a command is a transaction of its own: a command     *)
(* reads rows, talks to the server, and then replaces rows by what it knew.*)
(***************************************************************************)
EXTENDS Naturals, FiniteSets

CONSTANTS
  Processes,     \* concurrent commands
  Files,         \* tracked files
  InGit,         \* those of them that are in a Git working copy
  Repos,         \* repositories
  Name,          \* Name[i]: the base name of i's path
  MaxDocs,       \* bound: documents created
  MaxCommands,   \* bound: commands started
  MaxEdits,      \* bound: changes of a file
  MaxFaults      \* bound: failed or lost requests, deaths
ASSUME ItemsAssumption ==
  InGit \subseteq Files /\ Files \cap Repos = {} /\ "none" \notin Files \cup Repos
ASSUME BoundsAssumption ==
  MaxDocs \in Nat /\ MaxCommands \in Nat /\ MaxEdits \in Nat /\ MaxFaults \in Nat

VARIABLES
  rows,      \* tracked_items: rows[i], or NoRow
  project,   \* project[r]: the document in r's .compair/config.yaml, or 0
  docs,      \* the server's documents: docs[d], or NoDoc
  content,   \* content[f]: the version of file f that is on disk
  me,        \* me[p]: the memory of process p
  causes,    \* history: causes[i] is what happened to item i
  commands, edits, faults   \* counters for the bounds

counters == <<commands, edits, faults>>
vars == <<rows, project, docs, content, me, causes, commands, edits, faults>>

Items == Files \cup Repos
Docs == 1..MaxDocs
None == 0
Versions == 1..2
Given == [file : Files, version : Versions]

Flags == {"private", "published"}

\* steady is history, which no command reads: the command that stored the hash
\* had sent the very text that it hashed.
Row ==
  [doc : Docs \cup {None}, hash : Versions \cup {None}, published : Flags,
   steady : BOOLEAN]
NoRow == [doc |-> None, hash |-> None, published |-> "no row", steady |-> FALSE]

\* A document: what it was created for and the texts it was given so far.
Document == [for : Items, published : Flags, given : SUBSET Given]
NoDoc == [for |-> "nothing"]
Deleted == [for |-> "deleted"]
Exists(d) == docs[d] \notin {NoDoc, Deleted}

\* The title of a document: a file's name, or owner and name of a repository,
\* which is the base name of no path.
Title(d) == IF docs[d].for \in Files THEN Name[docs[d].for] ELSE "owner/name"

PC == {"idle", "create", "insert", "track", "bind", "choose", "read", "new",
       "process", "wait", "store", "flag", "note", "list", "match"}
Memory ==
  [pc : PC, op : {"none", "add", "sync", "fetch", "publish", "reconcile"},
   waits : BOOLEAN, item : Items \cup {"none"}, row : Row \cup {NoRow},
   hash : Versions \cup {None}, version : Versions \cup {None},
   doc : Docs \cup {None}, todo : [Items -> Row \cup {NoRow}],
   listed : [Docs -> Flags \cup {"absent"}],
   alone : BOOLEAN]

\* Ways in which a document may end up without a row.
Causes == {"again", "lost", "unprocessed", "removed", "overlap"}

-----------------------------------------------------------------------------
(* Commands.                                                               *)

NoRows == [i \in Items |-> NoRow]
Idle ==
  [pc |-> "idle", op |-> "none", waits |-> FALSE, item |-> "none", row |-> NoRow,
   hash |-> None, version |-> None, doc |-> None, todo |-> NoRows,
   listed |-> [d \in Docs |-> "absent"], alone |-> FALSE]

Set(p, memory) == me' = [me EXCEPT ![p] = memory]
Goto(p, place) == Set(p, [me[p] EXCEPT !.pc = place])
Ends(p) == Set(p, Idle)

\* A step of p that others in the middle of a reconcile do not expect.
Disturbs(p, memory) ==
  me' = [q \in Processes |-> IF q = p THEN memory ELSE [me[q] EXCEPT !.alone = FALSE]]

Happens(i, what) == causes' = [causes EXCEPT ![i] = @ \cup what]

\* Some command other than p's works on item i, or will.
Contended(p, i) ==
  \E q \in Processes \ {p} :
    me[q].pc # "idle" /\ (me[q].item = i \/ me[q].todo[i] # NoRow \/ me[q].pc = "list")

MayBegin(p) ==
  /\ me[p].pc = "idle"
  /\ commands < MaxCommands
  /\ commands' = commands + 1

Begin(p, memory) == MayBegin(p) /\ Set(p, memory)

\* The text that was sent is the one that was hashed.
Steady(m) == m.hash # None /\ m.version = m.hash

\* UpsertItem: COALESCE keeps a column only where the new value is NULL, and
\* what Go binds is an empty string, so document and hash are overwritten too.
Upserted(i, row) == row

\* A row replaced by what a command knew of it before.
Upsert(p, i, row) ==
  /\ rows' = [rows EXCEPT ![i] = Upserted(i, row)]
  /\ Happens(i, IF Contended(p, i) THEN {"overlap"} ELSE {})

-----------------------------------------------------------------------------
(* The server.                                                             *)

Unused == {d \in Docs : docs[d] = NoDoc}

\* create_doc: document d is new.
Created(d, i, given, published) ==
  /\ d \in Unused /\ \A other \in Unused : d <= other
  /\ docs' = [docs EXCEPT ![d] =
       [for |-> i, published |-> published, given |-> given]]

\* process_doc: the text is replaced; a task will work on it.
Submitted(d, given) == docs' = [docs EXCEPT ![d].given = @ \cup {given}]

\* Somebody publishes, withdraws or deletes a document elsewhere.
ChangedElsewhere(d) ==
  /\ Exists(d) /\ faults < MaxFaults
  /\ faults' = faults + 1
  /\ \/ \E flag \in Flags \ {docs[d].published} : docs' = [docs EXCEPT ![d].published = flag]
     \/ docs' = [docs EXCEPT ![d] = Deleted]
  /\ me' = [q \in Processes |-> [me[q] EXCEPT !.alone = FALSE]]
  /\ Happens(docs[d].for, {"removed"})
  /\ UNCHANGED <<rows, project, content, commands, edits>>

\* A file is edited: its other version is now on disk.
Edit(f) ==
  /\ edits < MaxEdits
  /\ edits' = edits + 1
  /\ content' = [content EXCEPT ![f] = 3 - @]
  /\ UNCHANGED <<rows, project, docs, me, causes, commands, faults>>

Fault == faults < MaxFaults /\ faults' = faults + 1
NoFault == UNCHANGED faults

-----------------------------------------------------------------------------
(* add, track, rm.                                                         *)

\* A file outside Git is hashed before it is read and sent; anything else is
\* only put into the database.
Add(p, i) ==
  LET outside == i \in Files \ InGit IN
  /\ Begin(p, [Idle EXCEPT !.op = "add", !.item = i,
                !.hash = IF outside THEN content[i] ELSE None,
                !.pc = IF outside THEN "create" ELSE "insert"])
  /\ Happens(i, IF rows[i] # NoRow THEN {"again"} ELSE {})
  /\ UNCHANGED <<rows, project, docs, content, edits, faults>>

\* CreateDoc: whatever goes wrong, the file is put into the database.
AddCreate(p) ==
  LET f == me[p].item
      given == {[file |-> f, version |-> content[f]]}
      with(doc, version) ==
        Disturbs(p, [me[p] EXCEPT !.pc = "insert", !.doc = doc, !.version = version])
  IN
  /\ me[p].pc = "create"
  /\ \/ \E d \in Docs :
          Created(d, f, given, "private") /\ with(d, content[f])
          /\ NoFault /\ UNCHANGED causes
     \/ UNCHANGED docs /\ with(None, None) /\ Fault /\ UNCHANGED causes
     \/ \E d \in Docs :
          Created(d, f, given, "private") /\ with(None, None)
          /\ Fault /\ Happens(f, {"lost"})
  /\ UNCHANGED <<rows, project, content, commands, edits>>

\* The hash is stored with or without a document.
AddInsert(p) ==
  /\ me[p].pc = "insert"
  /\ Upsert(p, me[p].item, [doc |-> me[p].doc, hash |-> me[p].hash,
                            published |-> "private", steady |-> Steady(me[p])])
  /\ Disturbs(p, Idle)
  /\ UNCHANGED <<project, docs, content, counters>>

\* track and group add-repo: always a new document, and no longer the old one.
Track(p, r) ==
  /\ MayBegin(p)
  /\ \E d \in Docs, published \in Flags :
       /\ Created(d, r, {}, published)
       /\ \/ /\ Disturbs(p, [Idle EXCEPT !.pc = "track", !.item = r, !.doc = d])
             /\ NoFault /\ Happens(r, IF project[r] # None THEN {"again"} ELSE {})
          \/ Disturbs(p, Idle) /\ Fault /\ Happens(r, {"lost"})
  /\ UNCHANGED <<rows, project, content, edits>>

TrackWrites(p) ==
  /\ me[p].pc = "track"
  /\ project' = [project EXCEPT ![me[p].item] = me[p].doc]
  /\ Goto(p, "bind")
  /\ Happens(me[p].item, IF Contended(p, me[p].item) THEN {"overlap"} ELSE {})
  /\ UNCHANGED <<rows, docs, content, counters>>

\* The end of a sync of the repository: finalizeRepoSync.
Finalize(p, r) ==
  /\ project[r] # None
  /\ Begin(p, [Idle EXCEPT !.pc = "bind", !.item = r, !.doc = project[r]])
  /\ UNCHANGED <<rows, project, docs, content, causes, edits, faults>>

\* upsertRepoWorkspaceBinding.
Bind(p) ==
  /\ me[p].pc = "bind"
  /\ \E published \in Flags :
       Upsert(p, me[p].item, [doc |-> me[p].doc, hash |-> None,
                              published |-> published, steady |-> FALSE])
  /\ Disturbs(p, Idle)
  /\ UNCHANGED <<project, docs, content, counters>>

Rm(i) ==
  /\ rows[i] # NoRow /\ commands < MaxCommands
  /\ commands' = commands + 1
  /\ rows' = [rows EXCEPT ![i] = NoRow]
  /\ me' = [q \in Processes |-> [me[q] EXCEPT !.alone = FALSE]]
  /\ Happens(i, {"removed"})
  /\ UNCHANGED <<project, docs, content, edits, faults>>

-----------------------------------------------------------------------------
(* The pass over tracked files of `sync`, `push` and `pull` ("sync"), and  *)
(* of `sync --fetch-only` ("fetch"). It asks for the flag --fetch-only,    *)
(* which `pull` does not set.                                              *)

\* Rows are read at once. With --detach or --push-only nothing is waited for.
Sync(p) ==
  /\ \E op \in {"sync", "fetch"}, waits \in BOOLEAN :
       Begin(p, [Idle EXCEPT !.pc = "choose", !.op = op, !.waits = waits,
                  !.todo = [i \in Items |-> IF i \in Files THEN rows[i] ELSE NoRow]])
  /\ UNCHANGED <<rows, project, docs, content, causes, edits, faults>>

\* p goes on with the next row.
Skipped(p) ==
  [Idle EXCEPT !.pc = "choose", !.op = me[p].op, !.waits = me[p].waits,
               !.todo = [me[p].todo EXCEPT ![me[p].item] = NoRow]]
Skips(p) == Set(p, Skipped(p))

\* The next row. A file whose hash is the row's is passed over.
Choose(p) ==
  LET todo == {i \in Items : me[p].todo[i] # NoRow} IN
  /\ me[p].pc = "choose"
  /\ \/ todo = {} /\ Ends(p)
     \/ \E f \in todo :
          LET row == me[p].todo[f]
              work == [me[p] EXCEPT !.item = f, !.row = row, !.doc = row.doc,
                                    !.hash = content[f]]
          IN
          IF me[p].op = "sync" /\ row.hash = content[f]
          THEN Set(p, [me[p] EXCEPT !.todo[f] = NoRow])
          ELSE Set(p, [work EXCEPT !.pc = "read"])
  /\ UNCHANGED <<rows, project, docs, content, causes, counters>>

\* The text of the file, which may be gone, empty, or of a type that the server
\* or its OCR does not accept. With --fetch-only a file that has a document is
\* left as it is.
Read(p) ==
  LET f == me[p].item IN
  /\ me[p].pc = "read"
  /\ \/ Skips(p)
     \/ ~(me[p].op = "fetch" /\ me[p].doc # None) /\
        Set(p, [me[p] EXCEPT !.version = content[f],
                 !.pc = IF me[p].doc = None THEN "new" ELSE "process"])
  /\ UNCHANGED <<rows, project, docs, content, causes, counters>>

Text(p) == [file |-> me[p].item, version |-> me[p].version]

SyncCreate(p) ==
  LET f == me[p].item IN
  /\ me[p].pc = "new"
  /\ \/ \E d \in Docs :
          /\ Created(d, f, {Text(p)}, "private")
          /\ Disturbs(p, [me[p] EXCEPT !.doc = d,
               !.pc = IF me[p].op = "fetch" THEN "store" ELSE "process"])
          /\ NoFault /\ UNCHANGED causes
     \/ Skips(p) /\ Fault /\ UNCHANGED <<docs, causes>>
     \/ \E d \in Docs :
          /\ Created(d, f, {Text(p)}, "private")
          /\ Disturbs(p, Skipped(p)) /\ Fault /\ Happens(f, {"lost"})
  /\ UNCHANGED <<rows, project, content, commands, edits>>

\* ProcessDoc: when it fails, a document that was just created is forgotten.
Process(p) ==
  LET d == me[p].doc IN
  /\ me[p].pc = "process"
  /\ \/ /\ Exists(d) /\ Submitted(d, Text(p))
        /\ Goto(p, IF me[p].waits THEN "wait" ELSE "store")
        /\ NoFault /\ UNCHANGED causes
     \/ /\ Skips(p)
        /\ \/ ~Exists(d) /\ NoFault /\ UNCHANGED docs
           \/ Exists(d) /\ Fault /\ UNCHANGED docs
           \/ Exists(d) /\ Fault /\ Submitted(d, Text(p))
        /\ Happens(me[p].item, IF me[p].row.doc = None THEN {"unprocessed"} ELSE {})
  /\ UNCHANGED <<rows, project, content, commands, edits>>

\* Only success is waited for: a task that failed is waited for until the
\* deadline, and after the deadline the file counts as processed. A chunk that
\* failed, or that is still unknown when its own wait ends, is an error.
Wait(p) ==
  /\ me[p].pc = "wait"
  /\ \/ Skips(p)
        /\ Happens(me[p].item, IF me[p].row.doc = None THEN {"unprocessed"} ELSE {})
     \/ Goto(p, "store") /\ UNCHANGED causes
  /\ UNCHANGED <<rows, project, docs, content, counters>>

\* Mutant of Known: the hash of the file as it is now.
KnownNow(p) ==
  [doc |-> me[p].doc, hash |-> content[me[p].item],
   published |-> me[p].row.published, steady |-> Steady(me[p])]

\* Mutant of Known: the document of the row is kept.
KnownDocument(p) ==
  [doc |-> me[p].row.doc, hash |-> me[p].hash,
   published |-> me[p].row.published, steady |-> Steady(me[p])]

\* The row that sync stores: the hash is older than the text.
Known(p) ==
  [doc |-> me[p].doc, hash |-> me[p].hash,
   published |-> me[p].row.published, steady |-> Steady(me[p])]

Store(p) ==
  /\ me[p].pc = "store"
  /\ Upsert(p, me[p].item, Known(p))
  /\ Disturbs(p, Skipped(p))
  /\ UNCHANGED <<project, docs, content, counters>>

-----------------------------------------------------------------------------
(* publish, reconcile.                                                     *)

\* publish reads the row; without a document there is nothing to publish.
Publish(p, i) ==
  /\ rows[i] # NoRow /\ rows[i].doc # None
  /\ \E published \in Flags :
       Begin(p, [Idle EXCEPT !.pc = "flag", !.op = "publish", !.item = i,
                  !.row = [rows[i] EXCEPT !.published = published]])
  /\ UNCHANGED <<rows, project, docs, content, causes, edits, faults>>

Flag(p) ==
  LET d == me[p].row.doc
      sets == docs' = [docs EXCEPT ![d].published = me[p].row.published]
  IN
  /\ me[p].pc = "flag"
  /\ \/ /\ Exists(d) /\ sets /\ NoFault
        /\ Disturbs(p, [me[p] EXCEPT !.pc = "note"])
     \/ ~Exists(d) /\ UNCHANGED docs /\ NoFault /\ Ends(p)
     \/ Exists(d) /\ (sets \/ UNCHANGED docs) /\ Fault /\ Disturbs(p, Idle)
  /\ UNCHANGED <<rows, project, content, causes, commands, edits>>

Note(p) ==
  /\ me[p].pc = "note"
  /\ Upsert(p, me[p].item, me[p].row)
  /\ Disturbs(p, Idle)
  /\ UNCHANGED <<project, docs, content, counters>>

\* reconcile lists the documents first, then the rows.
Reconcile(p) ==
  /\ Begin(p, [Idle EXCEPT !.pc = "list", !.op = "reconcile", !.alone = TRUE,
                !.listed = [d \in Docs |-> IF Exists(d) THEN docs[d].published
                                               ELSE "absent"]])
  /\ UNCHANGED <<rows, project, docs, content, causes, edits, faults>>

List(p) ==
  /\ me[p].pc = "list"
  /\ Set(p, [me[p] EXCEPT !.pc = "match", !.todo = rows])
  /\ UNCHANGED <<rows, project, docs, content, causes, counters>>

Listed(p, d) == me[p].listed[d] # "absent"

\* The documents that bear the name of item i.
Namesakes(p, i) == {d \in Docs : Listed(p, d) /\ Exists(d) /\ Title(d) = Name[i]}

\* Mutant of Reconciled: a link is made without the flag.
LinkedOnly(p, i, row) ==
  IF row.doc = None /\ Cardinality(Namesakes(p, i)) = 1
  THEN [row EXCEPT !.doc = CHOOSE d \in Namesakes(p, i) : TRUE]
  ELSE row

\* What reconcile makes of a row: the flag of its document, or a link to the
\* only document that bears its name, whoever else is linked to that.
Reconciled(p, i, row) ==
  LET flag(d) == me[p].listed[d] IN
  IF row.doc # None
  THEN IF Listed(p, row.doc) THEN [row EXCEPT !.published = flag(row.doc)] ELSE row
  ELSE IF Cardinality(Namesakes(p, i)) = 1
       THEN LET d == CHOOSE d \in Namesakes(p, i) : TRUE IN
            [row EXCEPT !.doc = d, !.published = flag(d)]
       ELSE row

\* One row; it is written only when it changes.
Match(p) ==
  /\ me[p].pc = "match"
  /\ \/ \E i \in Items :
          LET row == me[p].todo[i] IN
          /\ row # NoRow
          /\ IF Reconciled(p, i, row) # row
             THEN Upsert(p, i, Reconciled(p, i, row))
             ELSE UNCHANGED <<rows, causes>>
          /\ Disturbs(p, [me[p] EXCEPT !.todo[i] = NoRow])
     \/ /\ me[p].todo = NoRows
        /\ Ends(p) /\ UNCHANGED <<rows, causes>>
  /\ UNCHANGED <<project, docs, content, counters>>

\* A command dies; a document it has just created has no row.
Crash(p) ==
  /\ me[p].pc # "idle" /\ Fault
  /\ IF me[p].item # "none" THEN Happens(me[p].item, {"lost"}) ELSE UNCHANGED causes
  /\ Ends(p)
  /\ UNCHANGED <<rows, project, docs, content, commands, edits>>

-----------------------------------------------------------------------------

Init ==
  /\ rows = [i \in Items |-> NoRow]
  /\ project = [r \in Repos |-> None]
  /\ docs = [d \in Docs |-> NoDoc]
  /\ content = [f \in Files |-> 1]
  /\ me = [p \in Processes |-> Idle]
  /\ causes = [i \in Items |-> {}]
  /\ commands = 0 /\ edits = 0 /\ faults = 0

Begins(p) ==
  \/ \E i \in Items : Add(p, i) \/ Publish(p, i)
  \/ \E r \in Repos : Track(p, r) \/ Finalize(p, r)
  \/ Sync(p) \/ Reconcile(p)

Proceeds(p) ==
  \/ AddCreate(p) \/ AddInsert(p) \/ TrackWrites(p) \/ Bind(p)
  \/ Choose(p) \/ Read(p) \/ SyncCreate(p) \/ Process(p) \/ Wait(p) \/ Store(p)
  \/ Flag(p) \/ Note(p) \/ List(p) \/ Match(p)

Next ==
  \/ \E p \in Processes : Begins(p) \/ Proceeds(p) \/ Crash(p)
  \/ \E i \in Items : Rm(i)
  \/ \E f \in Files : Edit(f)
  \/ \E d \in Docs : ChangedElsewhere(d)

Spec == Init /\ [][Next]_vars

-----------------------------------------------------------------------------
(* Properties.                                                             *)

\* A file that sync passes over as unchanged was at some time given, as it is, to
\* the document of its row: through failed requests, deaths, stale rows, links and
\* commands on top of each other, a hash that was sent when it was stored never
\* comes to stand beside another document. The code itself stores hashes that were
\* not sent: `add` does when it could not create the document, and any command
\* when the file is edited between its hash and its text. Such a row is left out
\* until a command stores the file's hash anew.
FilesAreGiven ==
  \A f \in Files :
    rows[f].steady /\ rows[f].hash = content[f] =>
      /\ rows[f].doc # None
      /\ \/ docs[rows[f].doc] = Deleted
         \/ [file |-> f, version |-> content[f]] \in docs[rows[f].doc].given

\* Every document that was created for an item is named by a row, or in the hands
\* of a command that will name it. A document is left behind, and a second one
\* created by the next sync, only when a request was lost or a command died, a
\* new document could not be processed, the item was added again or removed, or
\* two commands worked on it at once.
NoStrayDocument ==
  \A d \in Docs :
    Exists(d) =>
      \/ \E i \in Items : rows[i].doc = d
      \/ \E p \in Processes : me[p].doc = d
      \/ causes[docs[d].for] # {}

\* Row i has the flag of its document, or it is not linked and no document, or
\* more than one, bears its name.
Agreed(i) ==
  rows[i] # NoRow =>
    LET named == {d \in Docs : Exists(d) /\ Title(d) = Name[i]} IN
    IF rows[i].doc = None THEN Cardinality(named) # 1
    ELSE Exists(rows[i].doc) => rows[i].published = docs[rows[i].doc].published

\* What a reconcile leaves, when nothing else changed meanwhile: every linked row
\* has the flag of its document, and no row remains unlinked to the only document
\* that bears its name.
ReconcileAgrees ==
  \A p \in Processes :
    me[p].pc = "match" /\ me[p].todo = NoRows /\ me[p].alone =>
      \A i \in Items : Agreed(i)
-----------------------------------------------------------------------------
(* The inductive invariant of the three.                                   *)

TypeOK ==
  /\ rows \in [Items -> Row \cup {NoRow}]
  /\ project \in [Repos -> Docs \cup {None}]
  /\ docs \in [Docs -> Document \cup {NoDoc, Deleted}]
  /\ content \in [Files -> Versions]
  /\ me \in [Processes -> Memory]
  /\ causes \in [Items -> SUBSET Causes]
  /\ commands \in Nat /\ edits \in Nat /\ faults \in Nat

\* The places of the pass over tracked files at work on one of them.
Passing == {"read", "new", "process", "wait", "store"}

\* What a place in a command implies of its item, its row and its document.
PlaceFits(m) ==
  /\ m.pc = "idle" => m.todo = NoRows
  /\ m.pc \in Passing \cup {"create"} => m.item \in Files
  /\ m.pc \in {"insert", "flag", "note"} => m.item \in Items
  /\ m.pc = "insert" /\ m.item \in Repos => m.hash = None /\ m.doc = None
  /\ m.pc \in {"track", "bind"} => m.item \in Repos /\ m.doc # None
  /\ m.pc \in Passing \cup {"choose"} => \A r \in Repos : m.todo[r] = NoRow
  /\ m.pc \in Passing \cup {"flag", "note"} => m.row \in Row
  /\ m.pc \in {"process", "wait", "store"} => m.doc # None
  /\ m.pc \in {"read", "new"} => m.doc = m.row.doc
  /\ m.pc = "new" => m.doc = None
  /\ m.pc \in {"new", "process"} => m.version \in Versions
  /\ m.pc \in Passing /\ m.row.doc # None => m.doc = m.row.doc
  /\ m.pc \in {"flag", "note"} => m.row.doc # None

\* Documents are named once they were created.
Real(d) == d # None => docs[d] # NoDoc
NamesReal(m) == Real(m.doc) /\ Real(m.row.doc) /\ \A i \in Items : Real(m.todo[i].doc)

\* FilesAreGiven, for every copy of a row: its document was given the text of
\* its hash.
Has(d, text) == d # None /\ docs[d] # NoDoc /\ (docs[d] = Deleted \/ text \in docs[d].given)
Backed(i, row) == row.steady => Has(row.doc, [file |-> i, version |-> row.hash])

TextFits(m) ==
  /\ \A i \in Items : Backed(i, m.todo[i])
  /\ m.pc \in Passing \cup {"flag", "note"} => Backed(m.item, m.row)
  /\ m.pc \in {"insert", "wait", "store"} /\ Steady(m) =>
       Has(m.doc, [file |-> m.item, version |-> m.hash])

\* NoStrayDocument: what a command knew of a row still names the row's document,
\* unless the item is to blame.
Blamed(i) == causes[i] # {}
Fresh(i, d) == d = rows[i].doc \/ Blamed(i)

RowFits(m) ==
  /\ \A i \in Items : m.todo[i] # NoRow => Fresh(i, m.todo[i].doc)
  /\ m.pc \in Passing \cup {"flag", "note"} => Fresh(m.item, m.row.doc)
  /\ m.pc \in {"create", "insert"} => Fresh(m.item, None)
  /\ m.pc = "track" => project[m.item] = None \/ Blamed(m.item)
  /\ m.pc = "bind" => m.doc = project[m.item] \/ Blamed(m.item)

\* A command that will put document d into the row of item i.
Brings(m, i, d) ==
  m.item = i /\ m.doc = d /\ m.pc \in {"insert", "process", "wait", "store", "track", "bind"}

Kept(d) ==
  Exists(d) =>
    \/ rows[docs[d].for].doc = d
    \/ Blamed(docs[d].for)
    \/ \E p \in Processes : Brings(me[p], docs[d].for, d)

\* A repository's own document in its row is the one in its configuration.
Bound(r) ==
  LET d == rows[r].doc IN
  d # None /\ docs[d] # Deleted /\ docs[d].for = r => d = project[r] \/ Blamed(r)

\* ReconcileAgrees: a reconcile that was left alone knows every row and document.
AloneFits(m) ==
  m.alone =>
    /\ m.pc \in {"list", "match"}
    /\ \A d \in Docs : m.listed[d] = IF Exists(d) THEN docs[d].published ELSE "absent"
    /\ m.pc = "match" => \A i \in Items : IF m.todo[i] = NoRow THEN Agreed(i)
                                                         ELSE m.todo[i] = rows[i]

Fits(m) == PlaceFits(m) /\ NamesReal(m) /\ TextFits(m) /\ RowFits(m) /\ AloneFits(m)

FilesInv ==
  /\ \A p \in Processes : Fits(me[p])
  /\ \A i \in Items : Real(rows[i].doc) /\ Backed(i, rows[i])
  /\ \A r \in Repos : Real(project[r]) /\ Bound(r)
  /\ \A d \in Docs : Kept(d)
=============================================================================
