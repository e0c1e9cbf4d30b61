--------------------------- MODULE WorkstationProofs ---------------------------
(***************************************************************************)
(* The two sides of a workstation never leave their inductive invariants.  *)
(* On the files' side FilesInv says of every copy of a row that a command  *)
(* keeps in its memory what the row itself has to say: its document was    *)
(* given the text of a steady hash, and is still the row's unless the item *)
(* is to blame.  On the Core's side CoreInv says what each place in a command *)
(* has already done to the container, the profile and the cache.           *)
(*                                                                         *)
(* First the lemmas of the files, one for each action, then those of the   *)
(* managed Core, then the theorems of both.                                *)
(***************************************************************************)
EXTENDS MCWorkstation, FiniteSetTheorems, TLAPS

\* Two states of a memory that differ in nothing, or in a disturbance.
Like(y, x) ==
  /\ y.pc = x.pc /\ y.op = x.op /\ y.waits = x.waits /\ y.item = x.item /\ y.row = x.row
  /\ y.hash = x.hash /\ y.version = x.version /\ y.doc = x.doc /\ y.todo = x.todo
  /\ y.listed = x.listed /\ (y.alone => x.alone)

\* Documents are created, given texts and deleted; what happened to an item stays.
Grows ==
  /\ \A i \in Items : causes[i] \subseteq causes'[i]
  /\ \A d \in Docs :
       /\ docs[d] = Deleted => docs'[d] = Deleted
       /\ docs[d] # NoDoc => docs'[d] # NoDoc
       /\ docs[d] \notin {NoDoc, Deleted} /\ docs'[d] # Deleted =>
            docs'[d].for = docs[d].for /\ docs[d].given \subseteq docs'[d].given

\* What a reconcile has listed of a document is still so.
SameFace(d) ==
  /\ Exists(d)' <=> Exists(d)
  /\ Exists(d) => docs'[d].for = docs[d].for /\ docs'[d].published = docs[d].published

\* No record of a document is one of its two other states.
LEMMA NotADocument == NoDoc \notin Document /\ Deleted \notin Document /\ NoDoc # Deleted
BY DEF NoDoc, Deleted, Document

LEMMA NotARow == NoRow \notin Row
BY DEF NoRow, Row, Flags

LEMMA BlankRow == NoRow.doc = None /\ ~NoRow.steady
BY DEF NoRow

LEMMA RowDocument == \A row \in Row \cup {NoRow} : row.doc \in Docs \cup {None}
<1>1. \A row \in Row : row.doc \in Docs \cup {None}
  BY DEF Row
<1>2. NoRow.doc = None
  BY DEF NoRow
<1>3. QED
  BY <1>1, <1>2

LEMMA TextLater ==
  ASSUME Grows
  PROVE  /\ \A i \in Items : Blamed(i) => Blamed(i)'
         /\ \A d \in Docs \cup {None} : Real(d) => Real(d)'
         /\ \A d \in Docs \cup {None} : \A text : Has(d, text) => Has(d, text)'
         /\ \A i \in Items : \A row \in Row \cup {NoRow} :
              Backed(i, row) => Backed(i, row)'
<1>2. \A i \in Items : Blamed(i) => Blamed(i)'
  BY DEF Grows, Blamed
<1>3. \A d \in Docs \cup {None} : Real(d) => Real(d)'
  BY DEF Grows, Real
<1>4. \A d \in Docs \cup {None} : \A text : Has(d, text) => Has(d, text)'
  BY DEF Grows, Has
<1>5. \A i \in Items : \A row \in Row \cup {NoRow} : Backed(i, row) => Backed(i, row)'
  BY <1>4, RowDocument DEF Backed
<1>6. QED
  BY <1>2, <1>3, <1>4, <1>5

LEMMA AgreedLater ==
  ASSUME TypeOK, UNCHANGED rows, \A d \in Docs : SameFace(d), NEW i \in Items, Agreed(i)
  PROVE  Agreed(i)'
<1> SUFFICES ASSUME rows[i] # NoRow
             PROVE  IF rows[i].doc = None
                    THEN Cardinality({d \in Docs : Exists(d)' /\ Title(d)' = Name[i]}) # 1
                    ELSE Exists(rows[i].doc)' => rows[i].published = docs'[rows[i].doc].published
  BY DEF Agreed
<1>1. \A d \in Docs : (Exists(d)' /\ Title(d)' = Name[i]) <=> (Exists(d) /\ Title(d) = Name[i])
  BY DEF SameFace, Title
<1>2. {d \in Docs : Exists(d)' /\ Title(d)' = Name[i]}
        = {d \in Docs : Exists(d) /\ Title(d) = Name[i]}
  BY <1>1
<1>3. CASE rows[i].doc = None
  BY <1>2, <1>3 DEF Agreed
<1>4. CASE rows[i].doc # None
  <2>1. rows[i].doc \in Docs
    BY <1>4 DEF TypeOK, Row, NoRow
  <2>2. QED
    BY <1>4, <2>1 DEF Agreed, SameFace
<1>5. QED
  BY <1>3, <1>4

LEMMA RowParts ==
  ASSUME TypeOK
  PROVE  /\ \A i \in Items : /\ rows[i] \in Row \cup {NoRow}
                            /\ rows[i].doc \in Docs \cup {None}
         /\ \A r \in Repos : r \in Items /\ project[r] \in Docs \cup {None}
         /\ \A f \in Files : f \in Items /\ content[f] \in Versions
         /\ \A i \in Items : i # "none"
BY RowDocument, ItemsAssumption DEF TypeOK, Items

\* The parts of a memory's item and documents that the definitions look up.
LEMMA MemoryParts ==
  ASSUME NEW x \in Memory
  PROVE  /\ x.pc \in PC
         /\ x.item \in Items \cup {"none"}
         /\ x.doc \in Docs \cup {None}
         /\ x.row \in Row \cup {NoRow} /\ x.row.doc \in Docs \cup {None}
         /\ \A i \in Items : x.todo[i] \in Row \cup {NoRow} /\ x.todo[i].doc \in Docs \cup {None}
         /\ x.alone \in BOOLEAN
<1>2. /\ x.pc \in PC
      /\ x.item \in Items \cup {"none"}
      /\ x.doc \in Docs \cup {None}
      /\ x.row \in Row \cup {NoRow}
      /\ \A i \in Items : x.todo[i] \in Row \cup {NoRow}
  BY DEF Memory
<1>3. x.alone \in BOOLEAN
  BY Zenon DEF Memory
<1>4. QED
  BY <1>2, <1>3, RowDocument

LEMMA OtherFits ==
  ASSUME TypeOK, Grows, NEW x \in Memory, NEW y, Fits(x), Like(y, x),
         \A i \in Items : x.pc # "idle" /\ (x.item = i \/ x.todo[i] # NoRow) =>
           rows'[i].doc = rows[i].doc \/ Blamed(i)',
         x.pc \in {"track", "bind"} =>
           project'[x.item] = project[x.item] \/ Blamed(x.item)',
         y.alone => UNCHANGED rows /\ \A d \in Docs : SameFace(d)
  PROVE  Fits(y)'
<1>1. PlaceFits(y)'
  BY DEF Fits, PlaceFits, Like
<1>2. NamesReal(y)'
  BY MemoryParts, TextLater DEF Fits, NamesReal, Like
<1>3. x.pc # "idle" => \/ x.pc \in {"choose", "list", "match"}
                       \/ x.item \in Items
  BY MemoryParts DEF Fits, PlaceFits, Items, PC, Passing
<1>4. TextFits(y)'
  <2>1. \A i \in Items : Backed(i, y.todo[i])'
    BY MemoryParts, TextLater DEF Fits, TextFits, Like
  <2>2. y.pc \in Passing \cup {"flag", "note"} => Backed(y.item, y.row)'
    BY <1>3, MemoryParts, TextLater DEF Fits, TextFits, Like, Passing
  <2>3. ASSUME y.pc \in {"insert", "wait", "store"}, Steady(y)
        PROVE  Has(y.doc, [file |-> y.item, version |-> y.hash])'
    <3>1. PICK d, text : d = x.doc /\ text = [file |-> x.item, version |-> x.hash]
      OBVIOUS
    <3>2. d \in Docs \cup {None} /\ Has(d, text)
      BY <2>3, <3>1, MemoryParts DEF Fits, TextFits, Like, Steady
    <3>3. QED
      BY <3>1, <3>2, TextLater DEF Like
  <2>4. QED
    BY <2>1, <2>2, <2>3 DEF TextFits, Steady
<1>5. RowFits(y)'
  <2>1. \A i \in Items : \A d : Fresh(i, d) /\ (rows'[i].doc = rows[i].doc \/ Blamed(i)')
          => Fresh(i, d)'
    BY TextLater DEF Fresh
  <2>2. \A i \in Items : y.todo[i] # NoRow => Fresh(i, y.todo[i].doc)'
    BY <2>1 DEF Fits, RowFits, PlaceFits, Like, NoRows
  <2>3. y.pc \in Passing \cup {"flag", "note"} => Fresh(y.item, y.row.doc)'
    BY <1>3, <2>1 DEF Fits, RowFits, Like, Passing
  <2>4. y.pc \in {"create", "insert"} => Fresh(y.item, None)'
    BY <1>3, <2>1 DEF Fits, RowFits, Like
  <2>5. /\ y.pc = "track" => project'[y.item] = None \/ Blamed(y.item)'
        /\ y.pc = "bind" => y.doc = project'[y.item] \/ Blamed(y.item)'
    BY <1>3, TextLater DEF Fits, RowFits, Like
  <2>6. QED
    BY <2>2, <2>3, <2>4, <2>5 DEF RowFits
<1>6. AloneFits(y)'
  <2> SUFFICES ASSUME y.alone PROVE AloneFits(y)'
    BY DEF AloneFits
  <2>1. AloneFits(x) /\ x.alone
    BY DEF Fits, Like
  <2>2. \A d \in Docs : y.listed[d] = IF Exists(d)' THEN docs'[d].published ELSE "absent"
    BY <2>1 DEF AloneFits, SameFace, Like
  <2>3. y.pc = "match" => \A i \in Items : IF y.todo[i] = NoRow THEN Agreed(i)'
                                                           ELSE y.todo[i] = rows'[i]
    BY <2>1, AgreedLater DEF AloneFits, Like
  <2>4. QED
    BY <2>1, <2>2, <2>3 DEF AloneFits, Like
<1>7. QED
  BY <1>1, <1>2, <1>4, <1>5, <1>6 DEF Fits

\* A process that moves lets go of no document that no row names.
Lets(m, x) ==
  \A i \in Items, d \in Docs :
    Brings(x, i, d) => Brings(m, i, d) \/ rows'[i].doc = d \/ Blamed(i)'
Moved(q) == \E m : m = me'[q] /\ Fits(m)' /\ Lets(m, me[q])

LEMMA AllFit ==
  ASSUME \A q \in Processes : \E m : m = me'[q] /\ Fits(m)'
  PROVE  (\A q \in Processes : Fits(me[q]))'
<1> SUFFICES ASSUME NEW q \in Processes PROVE Fits(me[q])'
  OBVIOUS
<1>1. PICK m : m = me'[q] /\ Fits(m)'
  OBVIOUS
<1>2. QED
  BY <1>1 DEF Fits, PlaceFits, NamesReal, TextFits, RowFits, AloneFits, Real, Backed, Has,
     Steady, Blamed, Fresh

\* The item that a document was created for.
LEMMA DocumentParts ==
  ASSUME TypeOK, NEW d \in Docs, Exists(d)
  PROVE  /\ docs[d] \in Document /\ docs[d] # NoDoc /\ docs[d] # Deleted
         /\ docs[d].for \in Items /\ docs[d].published \in Flags
         /\ docs[d].given \subseteq Given
<1>1. docs[d] \in Document /\ docs[d] # NoDoc /\ docs[d] # Deleted
  BY DEF TypeOK, Exists
<1>2. QED
  BY <1>1 DEF Document

\* A document is kept: row i names it, or item i is to blame, or it is being brought.
KeptFor(i, d) ==
  \/ rows[i].doc = d
  \/ Blamed(i)
  \/ \E p \in Processes : \E x : x = me[p] /\ Brings(x, i, d)

LEMMA KeptNext ==
  ASSUME NEW d \in Docs, Exists(d)' => \E i : i = docs'[d].for /\ KeptFor(i, d)'
  PROVE  Kept(d)'
BY DEF Kept, KeptFor, Brings, Blamed, Exists

LEMMA KeptNow ==
  ASSUME TypeOK, NEW d \in Docs, Exists(d), Kept(d)
  PROVE  KeptFor(docs[d].for, d)
BY DEF Kept, KeptFor

LEMMA KeptLater ==
  ASSUME TypeOK, Grows, NEW d \in Docs, Kept(d), docs[d] # NoDoc,
         \A q \in Processes : Like(me'[q], me[q]) \/ Moved(q),
         \A i \in Items : rows[i].doc = d /\ Exists(d) /\ docs[d].for = i =>
                            rows'[i].doc = d \/ Blamed(i)'
  PROVE  Kept(d)'
<1> SUFFICES ASSUME Exists(d)'
             PROVE  \E i : i = docs'[d].for /\ KeptFor(i, d)'
  BY KeptNext
<1>1. Exists(d) /\ docs'[d].for = docs[d].for
  BY DEF Grows, Exists
<1>2. PICK i \in Items : i = docs[d].for /\ KeptFor(i, d)
  BY <1>1, DocumentParts, KeptNow
<1>3. CASE rows[i].doc = d
  <2>1. rows'[i].doc = d \/ Blamed(i)'
    BY <1>1, <1>2, <1>3
  <2>2. KeptFor(i, d)'
    BY <2>1 DEF KeptFor
  <2>3. QED
    BY <1>1, <1>2, <2>2
<1>4. CASE Blamed(i)
  <2>1. KeptFor(i, d)'
    BY <1>4, TextLater DEF KeptFor
  <2>2. QED
    BY <1>1, <1>2, <2>1
<1>5. CASE \E p \in Processes : \E x : x = me[p] /\ Brings(x, i, d)
  <2>1. PICK p \in Processes : \E x : x = me[p] /\ Brings(x, i, d)
    BY <1>5
  <2>2. PICK x, y : x = me[p] /\ y = me'[p] /\ Brings(x, i, d)
    BY <2>1
  <2>3. Brings(y, i, d) \/ rows'[i].doc = d \/ Blamed(i)'
    <3>1. CASE Like(me'[p], me[p])
      BY <2>1, <2>2, <3>1 DEF Like, Brings
    <3>2. CASE Moved(p)
      BY <2>1, <2>2, <3>2 DEF Moved, Lets
    <3>3. QED
      BY <3>1, <3>2
  <2>4. KeptFor(i, d)'
    BY <2>2, <2>3 DEF KeptFor
  <2>5. QED
    BY <1>1, <1>2, <2>4
<1>6. QED
  BY <1>2, <1>3, <1>4, <1>5 DEF KeptFor

LEMMA BoundLater ==
  ASSUME TypeOK, Grows, NEW r \in Repos, Bound(r), Real(rows[r].doc),
         rows'[r].doc = rows[r].doc,
         project'[r] = project[r] \/ project[r] = None \/ Blamed(r)'
  PROVE  Bound(r)'
<1>1. r \in Items /\ rows[r].doc \in Docs \cup {None}
  BY RowParts
<1>2. Blamed(r) => Blamed(r)'
  BY <1>1, TextLater
<1>3. QED
  BY <1>1, <1>2 DEF Bound, Grows, Real

\* A step that leaves rows and files alone.
LEMMA WorldKeeps ==
  ASSUME TypeOK, FilesInv, UNCHANGED <<rows, project, content>>, Grows,
         \A q \in Processes : Like(me'[q], me[q]) \/ Moved(q),
         \A q \in Processes : Like(me'[q], me[q]) /\ me'[q].alone =>
                                \A d \in Docs : SameFace(d),
         \A d \in Docs : docs[d] = NoDoc /\ docs'[d] # NoDoc => Kept(d)'
  PROVE  FilesInv'
<1>1. ASSUME NEW q \in Processes PROVE \E m : m = me'[q] /\ Fits(m)'
  <2>1. CASE Moved(q)
    BY <2>1 DEF Moved
  <2>2. CASE Like(me'[q], me[q])
    <3>1. PICK x, y : x = me[q] /\ y = me'[q]
      OBVIOUS
    <3>2. x \in Memory /\ Fits(x) /\ Like(y, x)
      BY <2>2, <3>1 DEF TypeOK, FilesInv
    <3>3. Fits(y)'
      BY <2>2, <3>1, <3>2, OtherFits
    <3>4. QED
      BY <3>1, <3>3
  <2>3. QED
    BY <2>1, <2>2
<1>2. \A q \in Processes : Fits(me[q])'
  BY <1>1, AllFit
<1>3. ASSUME NEW i \in Items PROVE Real(rows[i].doc)' /\ Backed(i, rows[i])'
  <2>1. PICK row, d : row = rows[i] /\ d = row.doc
    OBVIOUS
  <2>2. /\ row \in Row \cup {NoRow} /\ d \in Docs \cup {None}
        /\ Real(d) /\ Backed(i, row)
    BY <2>1, RowParts DEF FilesInv
  <2>3. Real(d)' /\ Backed(i, row)'
    BY <2>2, TextLater
  <2>4. QED
    BY <2>1, <2>3 DEF Real, Backed, Has
<1>4. ASSUME NEW r \in Repos PROVE Real(project[r])' /\ Bound(r)'
  <2>1. r \in Items /\ project[r] \in Docs \cup {None} /\ Real(project[r])
    BY RowParts DEF FilesInv
  <2>2. Real(project[r])'
    BY <2>1 DEF Real, Grows
  <2>3. Bound(r)'
    BY <2>1, BoundLater DEF FilesInv
  <2>4. QED
    BY <2>2, <2>3
<1>5. ASSUME NEW d \in Docs PROVE Kept(d)'
  <2>1. CASE docs[d] # NoDoc
    BY <2>1, KeptLater DEF FilesInv
  <2>2. CASE docs[d] = NoDoc /\ docs'[d] # NoDoc
    BY <2>2
  <2>3. CASE docs'[d] = NoDoc
    BY <2>3 DEF Kept, Exists
  <2>4. QED
    BY <2>1, <2>2, <2>3
<1>6. QED
  BY <1>2, <1>3, <1>4, <1>5 DEF FilesInv

LEMMA HappensNext ==
  ASSUME TypeOK, NEW i \in Items, NEW what \in SUBSET Causes, Happens(i, what)
  PROVE  /\ causes' \in [Items -> SUBSET Causes]
         /\ causes'[i] = causes[i] \cup what
         /\ \A l \in Items : causes[l] \subseteq causes'[l]
         /\ \A l \in Items \ {i} : causes'[l] = causes[l]
         /\ what # {} => Blamed(i)'
<1>1. /\ causes' \in [Items -> SUBSET Causes]
      /\ causes'[i] = causes[i] \cup what
      /\ \A l \in Items \ {i} : causes'[l] = causes[l]
  BY DEF Happens, TypeOK
<1>2. QED
  BY <1>1 DEF Blamed

\* A row is replaced by what a command knew of it.
LEMMA UpsertKeeps ==
  ASSUME TypeOK, FilesInv, NEW p \in Processes, NEW i \in Items, NEW row \in Row,
         Upsert(p, i, row), UNCHANGED <<project, docs, content>>,
         \A q \in Processes \ {p} : Like(me'[q], me[q]) /\ ~me'[q].alone,
         Moved(p), Real(row.doc), Backed(i, row),
         \A d \in Docs : rows[i].doc = d /\ Exists(d) /\ docs[d].for = i =>
                           row.doc = d \/ Blamed(i),
         i \in Repos /\ row.doc # None /\ docs[row.doc] # Deleted /\ docs[row.doc].for = i =>
           row.doc = project[i] \/ Blamed(i)'
  PROVE  FilesInv'
<1>1. rows' = [rows EXCEPT ![i] = row]
      /\ causes' = [causes EXCEPT ![i] = @ \cup (IF Contended(p, i) THEN {"overlap"} ELSE {})]
  BY DEF Upsert, Upserted, Happens
<1>2. Grows
  BY <1>1 DEF Grows, TypeOK
<1>3. rows'[i] = row /\ \A l \in Items \ {i} : rows'[l] = rows[l]
  BY <1>1 DEF TypeOK
<1>4. Contended(p, i) => Blamed(i)'
  BY HappensNext DEF Upsert, Causes
<1>5. ASSUME NEW q \in Processes PROVE \E m : m = me'[q] /\ Fits(m)'
  <2>1. CASE q = p
    BY <2>1 DEF Moved
  <2>2. CASE q # p
    <3>1. PICK x, y : x = me[q] /\ y = me'[q]
      OBVIOUS
    <3>2. x \in Memory /\ Fits(x) /\ Like(y, x) /\ ~y.alone
      BY <2>2, <3>1 DEF TypeOK, FilesInv
    <3>3. \A l \in Items : x.pc # "idle" /\ (x.item = l \/ x.todo[l] # NoRow) =>
            rows'[l].doc = rows[l].doc \/ Blamed(l)'
      BY <1>3, <1>4, <2>2, <3>1 DEF Contended
    <3>4. Fits(y)'
      BY <1>2, <3>2, <3>3, OtherFits
    <3>5. QED
      BY <3>1, <3>4
  <2>3. QED
    BY <2>1, <2>2
<1>6. \A q \in Processes : Fits(me[q])'
  BY <1>5, AllFit
<1>7. ASSUME NEW l \in Items PROVE Real(rows[l].doc)' /\ Backed(l, rows[l])'
  <2>1. PICK new, d : new = rows'[l] /\ d = new.doc
    OBVIOUS
  <2>2. /\ new \in Row \cup {NoRow} /\ d \in Docs \cup {None}
        /\ Real(d) /\ Backed(l, new)
    <3>1. CASE l = i
      BY <1>3, <2>1, <3>1, RowDocument
    <3>2. CASE l # i
      BY <1>3, <2>1, <3>2, RowParts DEF FilesInv
    <3>3. QED
      BY <3>1, <3>2
  <2>3. Real(d)' /\ Backed(l, new)'
    BY <1>2, <2>2, TextLater
  <2>4. QED
    BY <2>1, <2>3 DEF Real, Backed, Has
<1>8. ASSUME NEW r \in Repos PROVE Real(project[r])' /\ Bound(r)'
  <2>1. r \in Items /\ Real(project[r]) /\ Bound(r) /\ Real(rows[r].doc)
    BY RowParts DEF FilesInv
  <2>2. Real(project[r])'
    BY <2>1 DEF Real
  <2>3. CASE r = i
    <3>1. Bound(r)'
      BY <1>3, <2>3 DEF Bound, Blamed
    <3>2. QED
      BY <2>2, <3>1
  <2>4. CASE r # i
    <3>1. rows'[r].doc = rows[r].doc
      BY <1>3, <2>1, <2>4
    <3>2. QED
      BY <1>2, <2>1, <2>2, <3>1, BoundLater
  <2>5. QED
    BY <2>2, <2>3, <2>4
<1>9. ASSUME NEW d \in Docs PROVE Kept(d)'
  <2>1. CASE docs[d] # NoDoc
    <3>1. \A l \in Items : rows[l].doc = d /\ Exists(d) /\ docs[d].for = l =>
                             rows'[l].doc = d \/ Blamed(l)'
      BY <1>2, <1>3, TextLater
    <3>2. QED
      BY <1>2, <2>1, <3>1, KeptLater DEF FilesInv
  <2>2. CASE docs[d] = NoDoc
    BY <2>2 DEF Kept, Exists
  <2>3. QED
    BY <2>1, <2>2
<1>10. QED
  BY <1>6, <1>7, <1>8, <1>9 DEF FilesInv

-----------------------------------------------------------------------------
(* Memories.                                                               *)

LEMMA IdleIsBlank ==
  /\ Idle \in Memory
  /\ Idle.pc = "idle" /\ Idle.op = "none" /\ Idle.item = "none" /\ Idle.row = NoRow
  /\ Idle.hash = None /\ Idle.version = None /\ Idle.doc = None /\ Idle.todo = NoRows
  /\ Idle.alone = FALSE
BY DEF Idle, Memory, PC, NoRows

\* The process p now has memory y, and the others have theirs.
Works(p, y) ==
  /\ me' \in [Processes -> Memory]
  /\ me'[p] = y
  /\ \A q \in Processes \ {p} : Like(me'[q], me[q])

LEMMA OneMoves ==
  ASSUME TypeOK, NEW p \in Processes, NEW y \in Memory, Set(p, y)
  PROVE  Works(p, y) /\ \A q \in Processes \ {p} : me'[q] = me[q]
BY DEF Set, TypeOK, Works, Like

LEMMA Undisturbed ==
  ASSUME NEW x \in Memory
  PROVE  /\ [x EXCEPT !.alone = FALSE] \in Memory
         /\ Like([x EXCEPT !.alone = FALSE], x)
         /\ [x EXCEPT !.alone = FALSE].alone = FALSE
<1>1. PICK y : y = [x EXCEPT !.alone = FALSE]
  OBVIOUS
<1>2. /\ y.pc = x.pc /\ y.op = x.op /\ y.waits = x.waits /\ y.item = x.item /\ y.row = x.row
      /\ y.hash = x.hash /\ y.version = x.version /\ y.doc = x.doc /\ y.todo = x.todo
      /\ y.listed = x.listed /\ y.alone = FALSE /\ y \in Memory
  BY <1>1 DEF Memory
<1>3. QED
  BY <1>1, <1>2 DEF Like

LEMMA OneDisturbs ==
  ASSUME TypeOK, NEW p \in Processes, NEW y \in Memory, Disturbs(p, y)
  PROVE  Works(p, y) /\ \A q \in Processes \ {p} : ~me'[q].alone
<1>1. \A q \in Processes : me[q] \in Memory
  BY DEF TypeOK
<1>2. \A q \in Processes : /\ [me[q] EXCEPT !.alone = FALSE] \in Memory
                           /\ Like([me[q] EXCEPT !.alone = FALSE], me[q])
                           /\ [me[q] EXCEPT !.alone = FALSE].alone = FALSE
  BY <1>1, Undisturbed
<1>3. \A q \in Processes : me'[q] = IF q = p THEN y ELSE [me[q] EXCEPT !.alone = FALSE]
  BY DEF Disturbs
<1>4. me' \in [Processes -> Memory]
  BY <1>2 DEF Disturbs
<1>5. QED
  BY <1>2, <1>3, <1>4 DEF Works

LEMMA AllDisturbed ==
  ASSUME TypeOK, me' = [q \in Processes |-> [me[q] EXCEPT !.alone = FALSE]]
  PROVE  /\ me' \in [Processes -> Memory]
         /\ \A q \in Processes : Like(me'[q], me[q]) /\ ~me'[q].alone
<1>1. \A q \in Processes : me[q] \in Memory
  BY DEF TypeOK
<1>2. \A q \in Processes : /\ [me[q] EXCEPT !.alone = FALSE] \in Memory
                           /\ Like([me[q] EXCEPT !.alone = FALSE], me[q])
                           /\ [me[q] EXCEPT !.alone = FALSE].alone = FALSE
  BY <1>1, Undisturbed
<1>3. QED
  BY <1>2

LEMMA IdleFits == Fits(Idle)
<1>1. \A i \in Items : Idle.todo[i] = NoRow /\ NoRow.doc = None /\ ~NoRow.steady
  BY IdleIsBlank DEF NoRows, NoRow
<1>2. NoRow.doc = None
  BY DEF NoRow
<1>3. PlaceFits(Idle)
  BY IdleIsBlank DEF PlaceFits, Passing
<1>4. NamesReal(Idle)
  BY <1>1, <1>2, IdleIsBlank DEF NamesReal, Real
<1>5. TextFits(Idle)
  BY <1>1, IdleIsBlank DEF TextFits, Backed, Passing
<1>6. RowFits(Idle)
  BY <1>1, IdleIsBlank DEF RowFits, Passing
<1>7. AloneFits(Idle)
  BY IdleIsBlank DEF AloneFits
<1>8. QED
  BY <1>3, <1>4, <1>5, <1>6, <1>7 DEF Fits

\* A memory that fits still does when rows and files stay.
LEMMA StillFits ==
  ASSUME TypeOK, Grows, UNCHANGED <<rows, project, content>>,
         NEW y \in Memory, Fits(y), y.alone => UNCHANGED docs
  PROVE  Fits(y)'
<1>1. Like(y, y)
  BY DEF Like
<1>2. y.alone => \A d \in Docs : SameFace(d)
  BY DEF SameFace, Exists
<1>3. QED
  BY <1>1, <1>2, OtherFits
 
\* The memory of a command that goes on with the next row.
LEMMA SkippedFits ==
  ASSUME TypeOK, NEW p \in Processes, Fits(me[p]), me[p].pc \in Passing
  PROVE  Skipped(p) \in Memory /\ Fits(Skipped(p)) /\ ~Skipped(p).alone
<1>1. PICK x : x = me[p]
  OBVIOUS
<1>2. x \in Memory /\ Fits(x) /\ x.pc \in Passing /\ x.item \in Files /\ x.item \in Items
  BY <1>1 DEF TypeOK, Fits, PlaceFits, Items
<1>3. PICK todo : todo = [x.todo EXCEPT ![x.item] = NoRow]
  OBVIOUS
<1>4. /\ todo \in [Items -> Row \cup {NoRow}]
      /\ \A i \in Items : todo[i] = IF i = x.item THEN NoRow ELSE x.todo[i]
  BY <1>2, <1>3 DEF Memory
<1>5. PICK y : y = Skipped(p)
  OBVIOUS
<1>6. y = [Idle EXCEPT !.pc = "choose", !.op = x.op, !.waits = x.waits, !.todo = todo]
  BY <1>1, <1>3, <1>5 DEF Skipped
<1>7. /\ y.pc = "choose" /\ y.item = "none" /\ y.row = NoRow /\ y.hash = None
      /\ y.version = None /\ y.doc = None /\ y.todo = todo /\ y.alone = FALSE
  BY <1>6, IdleIsBlank DEF Memory
<1>8. y \in Memory
  BY <1>2, <1>4, <1>6, IdleIsBlank DEF Memory, PC
<1>9. NoRow.doc = None /\ ~NoRow.steady
  BY DEF NoRow
<1>10. PlaceFits(y)
  BY <1>2, <1>4, <1>7, RowParts DEF Fits, PlaceFits, Passing
<1>11. NamesReal(y)
  BY <1>2, <1>4, <1>7, <1>9 DEF Fits, NamesReal, Real
<1>12. TextFits(y)
  <2>1. \A i \in Items : Backed(i, y.todo[i])
    BY <1>2, <1>4, <1>7, <1>9 DEF Fits, TextFits, Backed
  <2>2. QED
    BY <1>7, <2>1 DEF TextFits, Passing
<1>13. RowFits(y)
  BY <1>2, <1>4, <1>7 DEF Fits, RowFits, Passing
<1>14. AloneFits(y)
  BY <1>7 DEF AloneFits
<1>15. QED
  BY <1>5, <1>7, <1>8, <1>10, <1>11, <1>12, <1>13, <1>14 DEF Fits

\* A step of one process that changes its memory and the causes only.
LEMMA MemoryKeeps ==
  ASSUME TypeOK, FilesInv, NEW p \in Processes, Moved(p),
         UNCHANGED <<rows, project, docs, content>>,
         \A i \in Items : causes[i] \subseteq causes'[i],
         \A q \in Processes \ {p} : Like(me'[q], me[q])
  PROVE  FilesInv'
<1>1. Grows
  BY DEF Grows
<1>2. \A d \in Docs : SameFace(d)
  BY DEF SameFace, Exists
<1>3. QED
  BY <1>1, <1>2, WorldKeeps

-----------------------------------------------------------------------------
(* Commands begin.                                                         *)

LEMMA OneBegins ==
  ASSUME TypeOK, NEW p \in Processes, NEW y \in Memory, Begin(p, y)
  PROVE  /\ commands' \in Nat /\ Works(p, y)
         /\ \A q \in Processes \ {p} : me'[q] = me[q]
         /\ Lets(y, me[p])
<1>1. Lets(y, me[p])
  BY DEF Begin, MayBegin, Lets, Brings
<1>2. commands' \in Nat
  BY DEF Begin, MayBegin, TypeOK
<1>3. QED
  BY <1>1, <1>2, OneMoves DEF Begin

LEMMA AddKeeps ==
  ASSUME TypeOK, FilesInv, NEW p \in Processes, NEW i \in Items, Add(p, i)
  PROVE  TypeOK' /\ FilesInv'
<1> DEFINE outside == i \in Files \ InGit
<1>2. PICK y : y = [Idle EXCEPT !.op = "add", !.item = i,
                      !.hash = IF outside THEN content[i] ELSE None,
                      !.pc = IF outside THEN "create" ELSE "insert"]
  OBVIOUS
<1>3. outside => content[i] \in Versions
  BY RowParts
<1>4. /\ y.pc = IF outside THEN "create" ELSE "insert"
      /\ y.item = i /\ y.row = NoRow /\ y.todo = NoRows /\ y.alone = FALSE /\ y.doc = None
      /\ y.hash = IF outside THEN content[i] ELSE None
      /\ y.version = None
  BY <1>2, IdleIsBlank DEF Memory
<1>5. y \in Memory
  BY <1>2, <1>3, IdleIsBlank DEF Memory, PC
<1>6. Begin(p, y) /\ Happens(i, IF rows[i] # NoRow THEN {"again"} ELSE {})
  BY <1>2 DEF Add
<1>7. Works(p, y) /\ Lets(y, me[p]) /\ commands' \in Nat
  BY <1>5, <1>6, OneBegins
<1>8. /\ causes' \in [Items -> SUBSET Causes]
      /\ \A l \in Items : causes[l] \subseteq causes'[l]
      /\ rows[i] # NoRow => Blamed(i)'
  BY <1>6, HappensNext DEF Causes
<1>9. \A l \in Items : y.todo[l] = NoRow /\ NoRow.doc = None /\ ~NoRow.steady
  BY <1>4 DEF NoRows, NoRow
<1>10. Fits(y)'
  <2>1. PlaceFits(y)'
    BY <1>4, <1>9 DEF PlaceFits, Passing
  <2>2. NamesReal(y)'
    BY <1>4, <1>9, BlankRow DEF NamesReal, Real
  <2>3. TextFits(y)'
    BY <1>4, <1>9 DEF TextFits, Backed, Passing, Steady
  <2>4. RowFits(y)'
    BY <1>4, <1>8, <1>9 DEF RowFits, Fresh, Passing, Add
  <2>5. AloneFits(y)'
    BY <1>4 DEF AloneFits
  <2>6. QED
    BY <2>1, <2>2, <2>3, <2>4, <2>5 DEF Fits
<1>11. TypeOK'
  BY <1>7, <1>8 DEF TypeOK, Works, Add
<1>12. Moved(p)
  BY <1>7, <1>10 DEF Moved, Works
<1>13. QED
  BY <1>7, <1>8, <1>11, <1>12, MemoryKeeps DEF Add, Works

\* A command that begins with a memory that fits.
LEMMA BeginKeeps ==
  ASSUME TypeOK, FilesInv, NEW p \in Processes, NEW y \in Memory, Begin(p, y), Fits(y),
         UNCHANGED <<rows, project, docs, content, causes, edits, faults>>
  PROVE  TypeOK' /\ FilesInv'
<1>1. Works(p, y) /\ Lets(y, me[p]) /\ commands' \in Nat
  BY OneBegins
<1>2. TypeOK'
  BY <1>1 DEF TypeOK, Works
<1>3. Grows
  BY DEF Grows
<1>4. Fits(y)'
  BY <1>3, StillFits
<1>5. Moved(p)
  BY <1>1, <1>4 DEF Moved, Works
<1>6. QED
  BY <1>1, <1>2, <1>5, MemoryKeeps DEF Works

LEMMA PublishKeeps ==
  ASSUME TypeOK, FilesInv, NEW p \in Processes, NEW i \in Items, Publish(p, i)
  PROVE  TypeOK' /\ FilesInv'
<1>1. PICK published \in Flags :
        Begin(p, [Idle EXCEPT !.pc = "flag", !.op = "publish", !.item = i,
                    !.row = [rows[i] EXCEPT !.published = published]])
  BY DEF Publish
<1>2. rows[i] \in Row /\ rows[i].doc # None
  BY DEF TypeOK, Publish
<1>3. PICK row : row = [rows[i] EXCEPT !.published = published]
  OBVIOUS
<1>4. /\ row \in Row /\ row.doc = rows[i].doc /\ row.hash = rows[i].hash
      /\ row.steady = rows[i].steady
  BY <1>2, <1>3 DEF Row
<1>5. PICK y : y = [Idle EXCEPT !.pc = "flag", !.op = "publish", !.item = i, !.row = row]
  OBVIOUS
<1>6. /\ y.pc = "flag" /\ y.item = i /\ y.row = row /\ y.doc = None /\ y.hash = None
      /\ y.version = None /\ y.todo = NoRows /\ y.alone = FALSE
  BY <1>5, IdleIsBlank DEF Memory
<1>7. y \in Memory
  BY <1>4, <1>5, IdleIsBlank DEF Memory, PC
<1>8. \A l \in Items : y.todo[l] = NoRow /\ NoRow.doc = None /\ ~NoRow.steady
  BY <1>6 DEF NoRows, NoRow
<1>9. Fits(y)
  <2>1. PlaceFits(y)
    BY <1>2, <1>4, <1>6, <1>8 DEF PlaceFits, Passing
  <2>2. NamesReal(y)
    BY <1>4, <1>6, <1>8 DEF NamesReal, Real, FilesInv
  <2>3. TextFits(y)
    BY <1>4, <1>6, <1>8 DEF TextFits, Backed, FilesInv
  <2>4. RowFits(y)
    BY <1>4, <1>6, <1>8 DEF RowFits, Fresh
  <2>5. AloneFits(y)
    BY <1>6 DEF AloneFits
  <2>6. QED
    BY <2>1, <2>2, <2>3, <2>4, <2>5 DEF Fits
<1>10. Begin(p, y)
  BY <1>1, <1>3, <1>5
<1>11. QED
  BY <1>7, <1>9, <1>10, BeginKeeps DEF Publish

LEMMA FinalizeKeeps ==
  ASSUME TypeOK, FilesInv, NEW p \in Processes, NEW r \in Repos, Finalize(p, r)
  PROVE  TypeOK' /\ FilesInv'
<1>1. PICK y : y = [Idle EXCEPT !.pc = "bind", !.item = r, !.doc = project[r]]
  OBVIOUS
<1>2. /\ y.pc = "bind" /\ y.item = r /\ y.doc = project[r] /\ y.row = NoRow
      /\ y.todo = NoRows /\ y.alone = FALSE /\ y.hash = None
  BY <1>1, IdleIsBlank DEF Memory
<1>3. r \in Items /\ project[r] \in Docs \cup {None}
  BY RowParts
<1>4. y \in Memory
  BY <1>1, <1>3, IdleIsBlank DEF Memory, PC
<1>5. \A l \in Items : y.todo[l] = NoRow /\ NoRow.doc = None /\ ~NoRow.steady
  BY <1>2 DEF NoRows, NoRow
<1>6. Fits(y)
  <2>1. PlaceFits(y)
    BY <1>2, <1>5 DEF PlaceFits, Passing, Finalize
  <2>2. NamesReal(y)
    BY <1>2, <1>5, BlankRow DEF NamesReal, Real, FilesInv
  <2>3. TextFits(y)
    BY <1>2, <1>5 DEF TextFits, Backed, Passing
  <2>4. RowFits(y)
    BY <1>2, <1>5 DEF RowFits, Passing
  <2>5. AloneFits(y)
    BY <1>2 DEF AloneFits
  <2>6. QED
    BY <2>1, <2>2, <2>3, <2>4, <2>5 DEF Fits
<1>7. QED
  BY <1>1, <1>4, <1>6, BeginKeeps DEF Finalize

LEMMA SyncKeeps ==
  ASSUME TypeOK, FilesInv, NEW p \in Processes, Sync(p)
  PROVE  TypeOK' /\ FilesInv'
<1>1. PICK op \in {"sync", "fetch"}, waits \in BOOLEAN :
        Begin(p, [Idle EXCEPT !.pc = "choose", !.op = op, !.waits = waits,
                    !.todo = [i \in Items |-> IF i \in Files THEN rows[i] ELSE NoRow]])
  BY DEF Sync
<1>2. PICK todo : todo = [i \in Items |-> IF i \in Files THEN rows[i] ELSE NoRow]
  OBVIOUS
<1>3. todo \in [Items -> Row \cup {NoRow}]
  BY <1>2 DEF TypeOK
<1>4. PICK y : y = [Idle EXCEPT !.pc = "choose", !.op = op, !.waits = waits, !.todo = todo]
  OBVIOUS
<1>5. /\ y.pc = "choose" /\ y.todo = todo /\ y.doc = None /\ y.row = NoRow
      /\ y.alone = FALSE
  BY <1>4, IdleIsBlank DEF Memory
<1>6. y \in Memory
  BY <1>3, <1>4, IdleIsBlank DEF Memory, PC
<1>7. \A i \in Items : y.todo[i] = IF i \in Files THEN rows[i] ELSE NoRow
  BY <1>2, <1>5
<1>8. NoRow.doc = None /\ ~NoRow.steady
  BY DEF NoRow
<1>9. Fits(y)
  <2>1. PlaceFits(y)
    BY <1>5, <1>7, RowParts, ItemsAssumption DEF PlaceFits, Passing
  <2>2. NamesReal(y)
    BY <1>5, <1>7, <1>8 DEF NamesReal, Real, FilesInv
  <2>3. TextFits(y)
    BY <1>5, <1>7, <1>8 DEF TextFits, Backed, Passing, FilesInv
  <2>4. RowFits(y)
    BY <1>5, <1>7 DEF RowFits, Fresh, Passing
  <2>5. AloneFits(y)
    BY <1>5 DEF AloneFits
  <2>6. QED
    BY <2>1, <2>2, <2>3, <2>4, <2>5 DEF Fits
<1>10. QED
  BY <1>1, <1>2, <1>4, <1>6, <1>9, BeginKeeps DEF Sync

LEMMA ReconcileKeeps ==
  ASSUME TypeOK, FilesInv, NEW p \in Processes, Reconcile(p)
  PROVE  TypeOK' /\ FilesInv'
<1>1. PICK listed : listed = [d \in Docs |-> IF Exists(d) THEN docs[d].published ELSE "absent"]
  OBVIOUS
<1>2. listed \in [Docs -> Flags \cup {"absent"}]
  BY <1>1, DocumentParts
<1>3. PICK y : y = [Idle EXCEPT !.pc = "list", !.op = "reconcile", !.alone = TRUE,
                      !.listed = listed]
  OBVIOUS
<1>4. /\ y.pc = "list" /\ y.listed = listed /\ y.doc = None /\ y.row = NoRow
      /\ y.todo = NoRows
  BY <1>3, IdleIsBlank DEF Memory
<1>5. y \in Memory
  BY <1>2, <1>3, IdleIsBlank DEF Memory, PC
<1>6. \A l \in Items : y.todo[l] = NoRow /\ NoRow.doc = None /\ ~NoRow.steady
  BY <1>4 DEF NoRows, NoRow
<1>7. Fits(y)
  <2>1. PlaceFits(y)
    BY <1>4, <1>6 DEF PlaceFits, Passing
  <2>2. NamesReal(y)
    BY <1>4, <1>6, BlankRow DEF NamesReal, Real
  <2>3. TextFits(y)
    BY <1>4, <1>6 DEF TextFits, Backed, Passing
  <2>4. RowFits(y)
    BY <1>4, <1>6 DEF RowFits, Passing
  <2>5. AloneFits(y)
    BY <1>1, <1>4 DEF AloneFits
  <2>6. QED
    BY <2>1, <2>2, <2>3, <2>4, <2>5 DEF Fits
<1>8. QED
  BY <1>1, <1>3, <1>5, <1>7, BeginKeeps DEF Reconcile

-----------------------------------------------------------------------------
(* Commands proceed, in their memories.                                    *)

\* What the invariant says of the memory of p.
LEMMA MemoryFits ==
  ASSUME TypeOK, FilesInv, NEW p \in Processes
  PROVE  /\ me[p] \in Memory /\ Fits(me[p])
         /\ me[p].pc \in PC
         /\ me[p].alone => me[p].pc \in {"list", "match"}
         /\ me[p].pc \in Passing \cup {"create", "insert", "track", "bind", "flag", "note"} =>
              me[p].item \in Items
<1>1. me[p] \in Memory /\ Fits(me[p])
  BY DEF TypeOK, FilesInv
<1>2. me[p].pc \in PC
  BY <1>1 DEF Memory
<1>3. me[p].pc \in Passing \cup {"create", "insert", "track", "bind", "flag", "note"} =>
        me[p].item \in Items
  BY <1>1 DEF Fits, PlaceFits, Items
<1>4. QED
  BY <1>1, <1>2, <1>3 DEF Fits, AloneFits

LEMMA ProceedKeeps ==
  ASSUME TypeOK, FilesInv, NEW p \in Processes, NEW y \in Memory, Set(p, y),
         Fits(y), Lets(y, me[p]),
         UNCHANGED <<rows, project, docs, content>>,
         causes' \in [Items -> SUBSET Causes],
         \A i \in Items : causes[i] \subseteq causes'[i],
         commands' \in Nat, edits' \in Nat, faults' \in Nat
  PROVE  TypeOK' /\ FilesInv'
<1>1. Works(p, y)
  BY OneMoves
<1>2. TypeOK'
  BY <1>1 DEF TypeOK, Works
<1>3. Grows
  BY DEF Grows
<1>4. Fits(y)'
  BY <1>3, StillFits
<1>5. Moved(p)
  BY <1>1, <1>4 DEF Moved, Works
<1>6. QED
  BY <1>1, <1>2, <1>5, MemoryKeeps DEF Works

LEMMA ChooseKeeps ==
  ASSUME TypeOK, FilesInv, NEW p \in Processes, Choose(p)
  PROVE  TypeOK' /\ FilesInv'
<1>1. PICK x : x = me[p]
  OBVIOUS
<1>2. x \in Memory /\ Fits(x) /\ x.pc = "choose" /\ ~x.alone
  BY <1>1, MemoryFits DEF Choose
<1>3. \A y : Lets(y, x)
  BY <1>2 DEF Lets, Brings
<1>4. UNCHANGED <<rows, project, docs, content, causes, commands, edits, faults>>
  BY DEF Choose, counters
<1>5. ASSUME NEW y \in Memory, Set(p, y), Fits(y)
      PROVE  TypeOK' /\ FilesInv'
  <2>1. Lets(y, me[p])
    BY <1>1, <1>3
  <2>2. QED
    BY <1>4, <1>5, <2>1, ProceedKeeps DEF TypeOK
<1>6. CASE Ends(p)
  BY <1>5, <1>6, IdleFits, IdleIsBlank DEF Ends
<1>7. ASSUME NEW f \in Items, x.todo[f] # NoRow, Set(p, [x EXCEPT !.todo[f] = NoRow])
      PROVE  TypeOK' /\ FilesInv'
  <2>1. PICK todo : todo = [x.todo EXCEPT ![f] = NoRow]
    OBVIOUS
  <2>2. /\ todo \in [Items -> Row \cup {NoRow}]
        /\ \A i \in Items : todo[i] = IF i = f THEN NoRow ELSE x.todo[i]
    BY <1>2, <2>1 DEF Memory
  <2>3. PICK y : y = [x EXCEPT !.todo = todo]
    OBVIOUS
  <2>4. /\ y.pc = x.pc /\ y.item = x.item /\ y.row = x.row /\ y.hash = x.hash
        /\ y.version = x.version /\ y.doc = x.doc /\ y.todo = todo
        /\ y.alone = x.alone /\ y \in Memory
    BY <1>2, <2>2, <2>3 DEF Memory
  <2>5. y = [x EXCEPT !.todo[f] = NoRow]
    BY <2>1, <2>3
  <2>6. Fits(y)
    <3>1. PlaceFits(y)
      BY <1>2, <2>2, <2>4, RowParts DEF Fits, PlaceFits, Passing
    <3>2. NamesReal(y)
      BY <1>2, <2>2, <2>4, BlankRow DEF Fits, NamesReal, Real
    <3>3. TextFits(y)
      BY <1>2, <2>2, <2>4, BlankRow DEF Fits, TextFits, Backed, Passing
    <3>4. RowFits(y)
      BY <1>2, <2>2, <2>4 DEF Fits, RowFits, Passing
    <3>5. AloneFits(y)
      BY <1>2, <2>4 DEF AloneFits
    <3>6. QED
      BY <3>1, <3>2, <3>3, <3>4, <3>5 DEF Fits
  <2>7. QED
    BY <1>5, <1>7, <2>4, <2>5, <2>6
<1>8. ASSUME NEW f \in Items, NEW row, row = x.todo[f], row # NoRow,
             NEW y, y = [x EXCEPT !.item = f, !.row = row, !.doc = row.doc,
                                  !.hash = content[f], !.pc = "read"],
             Set(p, y)
      PROVE  TypeOK' /\ FilesInv'
  <2>1. f \in Files /\ content[f] \in Versions
    BY <1>2, <1>8, RowParts DEF Fits, PlaceFits, Items
  <2>2. row \in Row /\ row.doc \in Docs \cup {None}
    BY <1>2, <1>8, MemoryParts
  <2>3. /\ y.pc = "read" /\ y.item = f /\ y.row = row /\ y.hash = content[f]
        /\ y.doc = row.doc /\ y.todo = x.todo /\ y.alone = x.alone
    BY <1>2, <1>8 DEF Memory
  <2>4. y \in Memory
    BY <1>2, <1>8, <2>1, <2>2 DEF Memory, PC
  <2>5. Fits(y)
    <3>1. PlaceFits(y)
      BY <1>2, <2>1, <2>2, <2>3 DEF Fits, PlaceFits, Passing
    <3>2. NamesReal(y)
      BY <1>2, <1>8, <2>3 DEF Fits, NamesReal
    <3>3. TextFits(y)
      BY <1>2, <1>8, <2>3 DEF Fits, TextFits, Passing
    <3>4. RowFits(y)
      BY <1>2, <1>8, <2>3 DEF Fits, RowFits, Passing
    <3>5. AloneFits(y)
      BY <1>2, <2>3 DEF AloneFits
    <3>6. QED
      BY <3>1, <3>2, <3>3, <3>4, <3>5 DEF Fits
  <2>6. QED
    BY <1>5, <1>8, <2>4, <2>5
<1>9. CASE \E f \in Items :
             /\ x.todo[f] # NoRow
             /\ \/ Set(p, [x EXCEPT !.todo[f] = NoRow])
                \/ Set(p, [[x EXCEPT !.item = f, !.row = x.todo[f], !.doc = x.todo[f].doc,
                                     !.hash = content[f]] EXCEPT !.pc = "read"])
  <2>1. PICK f \in Items :
             /\ x.todo[f] # NoRow
             /\ \/ Set(p, [x EXCEPT !.todo[f] = NoRow])
                \/ Set(p, [[x EXCEPT !.item = f, !.row = x.todo[f], !.doc = x.todo[f].doc,
                                     !.hash = content[f]] EXCEPT !.pc = "read"])
    BY <1>9
  <2>2. PICK row, y : row = x.todo[f] /\
          y = [x EXCEPT !.item = f, !.row = row, !.doc = row.doc,
                        !.hash = content[f], !.pc = "read"]
    OBVIOUS
  <2>3. y = [[x EXCEPT !.item = f, !.row = x.todo[f], !.doc = x.todo[f].doc,
                       !.hash = content[f]] EXCEPT !.pc = "read"]
    BY <1>2, <2>2 DEF Memory
  <2>4. QED
    BY <1>7, <1>8, <2>1, <2>2, <2>3
<1>10. QED
  BY <1>1, <1>6, <1>9 DEF Choose

\* A command that goes on with the next row lets go of a document only when it
\* was not the row's, which is told.
LEMMA SkipLets ==
  ASSUME TypeOK, Grows, UNCHANGED rows, NEW x \in Memory, Fits(x),
         x.pc \in {"read", "new", "process", "wait"},
         x.pc \in {"process", "wait"} /\ x.row.doc = None => Blamed(x.item)',
         NEW y
  PROVE  Lets(y, x)
<1> SUFFICES ASSUME NEW i \in Items, NEW d \in Docs, Brings(x, i, d)
             PROVE  rows'[i].doc = d \/ Blamed(i)'
  BY DEF Lets
<1>1. x.pc \in {"process", "wait"} /\ x.item = i /\ x.doc = d
  BY DEF Brings
<1>2. CASE x.row.doc = None
  BY <1>1, <1>2
<1>3. CASE x.row.doc # None
  <2>1. Fresh(i, d)
    BY <1>1, <1>3 DEF Fits, PlaceFits, RowFits, Passing
  <2>2. QED
    BY <2>1, TextLater DEF Fresh
<1>4. QED
  BY <1>2, <1>3

LEMMA ReadKeeps ==
  ASSUME TypeOK, FilesInv, NEW p \in Processes, Read(p)
  PROVE  TypeOK' /\ FilesInv'
<1>1. PICK x : x = me[p]
  OBVIOUS
<1>2. x \in Memory /\ Fits(x) /\ x.pc = "read" /\ ~x.alone /\ x.item \in Items
  BY <1>1, MemoryFits DEF Read, Passing
<1>3. \A y : Lets(y, x)
  BY <1>2 DEF Lets, Brings
<1>4. UNCHANGED <<rows, project, docs, content, causes, commands, edits, faults>>
  BY DEF Read, counters
<1>5. ASSUME NEW y \in Memory, Set(p, y), Fits(y)
      PROVE  TypeOK' /\ FilesInv'
  <2>1. Lets(y, me[p])
    BY <1>1, <1>3
  <2>2. QED
    BY <1>4, <1>5, <2>1, ProceedKeeps DEF TypeOK
<1>6. CASE Skips(p)
  BY <1>1, <1>2, <1>5, <1>6, SkippedFits DEF Skips, Passing
<1>7. CASE Set(p, [x EXCEPT !.version = content[x.item],
                            !.pc = IF x.doc = None THEN "new" ELSE "process"])
  <2>1. PICK y : y = [x EXCEPT !.version = content[x.item],
                               !.pc = IF x.doc = None THEN "new" ELSE "process"]
    OBVIOUS
  <2>2. x.item \in Files /\ content[x.item] \in Versions
    BY <1>2, RowParts DEF Fits, PlaceFits, Passing
  <2>3. /\ y.pc = IF x.doc = None THEN "new" ELSE "process"
        /\ y.item = x.item /\ y.row = x.row /\ y.hash = x.hash /\ y.version = content[x.item]
        /\ y.doc = x.doc /\ y.todo = x.todo /\ y.alone = x.alone
    BY <1>2, <2>1 DEF Memory
  <2>4. y \in Memory
    BY <1>2, <2>1, <2>2 DEF Memory, PC
  <2>5. Fits(y)
    <3>1. PlaceFits(y)
      BY <1>2, <2>2, <2>3 DEF Fits, PlaceFits, Passing
    <3>2. NamesReal(y)
      BY <1>2, <2>3 DEF Fits, NamesReal
    <3>3. TextFits(y)
      BY <1>2, <2>3 DEF Fits, TextFits, Passing
    <3>4. RowFits(y)
      BY <1>2, <2>3 DEF Fits, RowFits, Passing
    <3>5. AloneFits(y)
      BY <1>2, <2>3 DEF AloneFits
    <3>6. QED
      BY <3>1, <3>2, <3>3, <3>4, <3>5 DEF Fits
  <2>6. QED
    BY <1>5, <1>7, <2>1, <2>4, <2>5
<1>8. QED
  BY <1>1, <1>6, <1>7 DEF Read

LEMMA WaitKeeps ==
  ASSUME TypeOK, FilesInv, NEW p \in Processes, Wait(p)
  PROVE  TypeOK' /\ FilesInv'
<1>1. PICK x : x = me[p]
  OBVIOUS
<1>2. x \in Memory /\ Fits(x) /\ x.pc = "wait" /\ ~x.alone /\ x.item \in Items
  BY <1>1, MemoryFits DEF Wait, Passing
<1>3. UNCHANGED <<rows, project, docs, content, commands, edits, faults>>
  BY DEF Wait, counters
<1>4. CASE Skips(p) /\ Happens(x.item, IF x.row.doc = None THEN {"unprocessed"} ELSE {})
  <2>1. /\ causes' \in [Items -> SUBSET Causes]
        /\ \A i \in Items : causes[i] \subseteq causes'[i]
        /\ x.row.doc = None => Blamed(x.item)'
    BY <1>2, <1>4, HappensNext DEF Causes
  <2>2. Grows
    BY <1>3, <2>1 DEF Grows
  <2>3. Skipped(p) \in Memory /\ Fits(Skipped(p))
    BY <1>1, <1>2, SkippedFits DEF Passing
  <2>4. Lets(Skipped(p), me[p])
    BY <1>1, <1>2, <1>3, <2>1, <2>2, SkipLets
  <2>5. QED
    BY <1>3, <1>4, <2>1, <2>3, <2>4, ProceedKeeps DEF TypeOK, Skips
<1>5. CASE Goto(p, "store") /\ UNCHANGED causes
  <2>1. PICK y : y = [x EXCEPT !.pc = "store"]
    OBVIOUS
  <2>2. /\ y.pc = "store" /\ y.item = x.item /\ y.row = x.row /\ y.hash = x.hash
        /\ y.version = x.version /\ y.doc = x.doc /\ y.todo = x.todo /\ y.alone = x.alone
        /\ y \in Memory
    BY <1>2, <2>1 DEF Memory, PC
  <2>3. Fits(y)
    <3>1. PlaceFits(y)
      BY <1>2, <2>2 DEF Fits, PlaceFits, Passing
    <3>2. NamesReal(y)
      BY <1>2, <2>2 DEF Fits, NamesReal
    <3>3. TextFits(y)
      BY <1>2, <2>2 DEF Fits, TextFits, Passing, Steady
    <3>4. RowFits(y)
      BY <1>2, <2>2 DEF Fits, RowFits, Passing
    <3>5. AloneFits(y)
      BY <1>2, <2>2 DEF AloneFits
    <3>6. QED
      BY <3>1, <3>2, <3>3, <3>4, <3>5 DEF Fits
  <2>4. Lets(y, x)
    BY <1>2, <2>2 DEF Lets, Brings
  <2>5. Set(p, y) /\ Lets(y, me[p])
    BY <1>1, <1>5, <2>1, <2>4 DEF Goto
  <2>6. QED
    BY <1>3, <1>5, <2>2, <2>3, <2>5, ProceedKeeps DEF TypeOK
<1>6. QED
  BY <1>1, <1>4, <1>5 DEF Wait

LEMMA ListKeeps ==
  ASSUME TypeOK, FilesInv, NEW p \in Processes, List(p)
  PROVE  TypeOK' /\ FilesInv'
<1>1. PICK x : x = me[p]
  OBVIOUS
<1>2. x \in Memory /\ Fits(x) /\ x.pc = "list"
  BY <1>1, MemoryFits DEF List
<1>3. PICK y : y = [x EXCEPT !.pc = "match", !.todo = rows]
  OBVIOUS
<1>4. /\ y.pc = "match" /\ y.row = x.row /\ y.doc = x.doc /\ y.todo = rows
      /\ y.listed = x.listed /\ y.alone = x.alone
  BY <1>2, <1>3 DEF Memory
<1>5. y \in Memory
  BY <1>2, <1>3 DEF Memory, PC, TypeOK
<1>6. Fits(y)
  <2>1. PlaceFits(y)
    BY <1>4 DEF PlaceFits, Passing
  <2>2. NamesReal(y)
    BY <1>2, <1>4 DEF Fits, NamesReal, FilesInv
  <2>3. TextFits(y)
    BY <1>4 DEF TextFits, FilesInv, Passing
  <2>4. RowFits(y)
    BY <1>4 DEF RowFits, Fresh, Passing
  <2>5. AloneFits(y)
    BY <1>2, <1>4 DEF Fits, AloneFits, Agreed
  <2>6. QED
    BY <2>1, <2>2, <2>3, <2>4, <2>5 DEF Fits
<1>7. Lets(y, x)
  BY <1>2 DEF Lets, Brings
<1>8. Set(p, y) /\ Lets(y, me[p])
  BY <1>1, <1>3, <1>7 DEF List
<1>9. QED
  BY <1>5, <1>6, <1>8, ProceedKeeps DEF List, TypeOK, counters

LEMMA CrashKeeps ==
  ASSUME TypeOK, FilesInv, NEW p \in Processes, Crash(p)
  PROVE  TypeOK' /\ FilesInv'
<1>1. PICK x : x = me[p]
  OBVIOUS
<1>2. x \in Memory /\ x.item \in Items \cup {"none"}
  BY <1>1, MemoryFits, MemoryParts
<1>3. UNCHANGED <<rows, project, docs, content, commands, edits>> /\ faults' \in Nat
  BY DEF Crash, Fault, TypeOK
<1>4. /\ causes' \in [Items -> SUBSET Causes]
      /\ \A i \in Items : causes[i] \subseteq causes'[i]
      /\ x.item \in Items => Blamed(x.item)'
  <2>1. CASE x.item # "none"
    <3>1. x.item \in Items /\ Happens(x.item, {"lost"})
      BY <1>1, <1>2, <2>1 DEF Crash
    <3>2. QED
      BY <3>1, HappensNext DEF Causes
  <2>2. CASE x.item = "none"
    BY <1>1, <2>2, RowParts DEF Crash, TypeOK
  <2>3. QED
    BY <2>1, <2>2
<1>5. Lets(Idle, me[p])
  BY <1>1, <1>4 DEF Lets, Brings
<1>6. QED
  BY <1>3, <1>4, <1>5, IdleFits, IdleIsBlank, ProceedKeeps DEF Crash, Ends, TypeOK

-----------------------------------------------------------------------------
(* The server.                                                             *)

LEMMA CreatedNext ==
  ASSUME TypeOK, NEW d \in Docs, NEW i \in Items, NEW given \in SUBSET Given,
         NEW published \in Flags, Created(d, i, given, published)
  PROVE  /\ docs' \in [Docs -> Document \cup {NoDoc, Deleted}]
         /\ docs[d] = NoDoc /\ Exists(d)' /\ docs'[d] # NoDoc
         /\ docs'[d].for = i /\ docs'[d].given = given
         /\ \A e \in Docs \ {d} : docs'[e] = docs[e]
         /\ (\A l \in Items : causes[l] \subseteq causes'[l]) => Grows
<1>1. PICK new : new = [for |-> i, published |-> published, given |-> given]
  OBVIOUS
<1>2. new \in Document /\ new.for = i /\ new.given = given
  BY <1>1 DEF Document
<1>3. docs' = [docs EXCEPT ![d] = new] /\ docs[d] = NoDoc
  BY <1>1 DEF Created, Unused
<1>4. docs'[d] = new /\ \A e \in Docs \ {d} : docs'[e] = docs[e]
  BY <1>3 DEF TypeOK
<1>5. new # NoDoc /\ new # Deleted /\ NoDoc # Deleted
  BY <1>2, NotADocument
<1>6. docs' \in [Docs -> Document \cup {NoDoc, Deleted}]
  BY <1>2, <1>3 DEF TypeOK
<1>7. Exists(d)'
  BY <1>4, <1>5 DEF Exists
<1>8. (\A l \in Items : causes[l] \subseteq causes'[l]) => Grows
  BY <1>3, <1>4, <1>5 DEF Grows
<1>9. QED
  BY <1>2, <1>3, <1>4, <1>5, <1>6, <1>7, <1>8

\* A step that gives document d a text.
LEMMA SubmittedNext ==
  ASSUME TypeOK, NEW d \in Docs, Exists(d), NEW text \in Given, Submitted(d, text),
         \A l \in Items : causes[l] \subseteq causes'[l]
  PROVE  /\ docs' \in [Docs -> Document \cup {NoDoc, Deleted}]
         /\ Grows /\ \A e \in Docs : SameFace(e)
         /\ text \in docs'[d].given /\ docs'[d] # NoDoc
         /\ \A e \in Docs : docs[e] = NoDoc => docs'[e] = NoDoc
<1>1. PICK x : x = docs[d]
  OBVIOUS
<1>2. x \in Document /\ x.given \subseteq Given
  BY <1>1, DocumentParts
<1>3. PICK y : y = [x EXCEPT !.given = @ \cup {text}]
  OBVIOUS
<1>4. docs' = [docs EXCEPT ![d] = y]
  BY <1>1, <1>3 DEF Submitted, TypeOK
<1>5. y \in Document
  BY <1>2, <1>3 DEF Document
<1>6. y.for = x.for /\ y.published = x.published /\ y.given = x.given \cup {text}
  BY <1>2, <1>3 DEF Document
<1>7. docs'[d] = y /\ \A e \in Docs \ {d} : docs'[e] = docs[e]
  BY <1>4 DEF TypeOK
<1>8. y # NoDoc /\ y # Deleted /\ x # NoDoc /\ x # Deleted
  BY <1>2, <1>5, NotADocument
<1>9. docs' \in [Docs -> Document \cup {NoDoc, Deleted}]
  BY <1>4, <1>5 DEF TypeOK
<1>10. \A e \in Docs : SameFace(e)
  BY <1>1, <1>6, <1>7, <1>8 DEF SameFace, Exists
<1>11. Grows
  BY <1>1, <1>6, <1>7, <1>8 DEF Grows
<1>12. QED
  BY <1>1, <1>6, <1>7, <1>8, <1>9, <1>10, <1>11

\* A step of one process that changes documents.
LEMMA DocsKeeps ==
  ASSUME TypeOK, FilesInv, NEW p \in Processes, NEW y \in Memory, Works(p, y),
         Fits(y)', Lets(y, me[p]), ~y.alone,
         UNCHANGED <<rows, project, content>>, Grows,
         (\A q \in Processes \ {p} : ~me'[q].alone) \/ (\A d \in Docs : SameFace(d)),
         \A d \in Docs : docs[d] = NoDoc /\ docs'[d] # NoDoc => Kept(d)',
         docs' \in [Docs -> Document \cup {NoDoc, Deleted}],
         causes' \in [Items -> SUBSET Causes],
         commands' \in Nat, edits' \in Nat, faults' \in Nat
  PROVE  TypeOK' /\ FilesInv'
<1>1. TypeOK'
  BY DEF TypeOK, Works
<1>2. Moved(p)
  BY DEF Moved, Works
<1>3. \A q \in Processes : Like(me'[q], me[q]) \/ Moved(q)
  BY <1>2 DEF Works
<1>4. \A q \in Processes : Like(me'[q], me[q]) /\ me'[q].alone =>
                             \A d \in Docs : SameFace(d)
  BY DEF Works
<1>5. QED
  BY <1>1, <1>3, <1>4, WorldKeeps

\* The document that was just created is kept by the process that brings it.
LEMMA NewKept ==
  ASSUME NEW d \in Docs, NEW i \in Items, docs'[d].for = i,
         \/ Blamed(i)'
         \/ \E p \in Processes : \E y : y = me'[p] /\ Brings(y, i, d)
  PROVE  Kept(d)'
<1>1. KeptFor(i, d)'
  BY DEF KeptFor
<1>2. QED
  BY <1>1, KeptNext

LEMMA AddCreateKeeps ==
  ASSUME TypeOK, FilesInv, NEW p \in Processes, AddCreate(p)
  PROVE  TypeOK' /\ FilesInv'
<1>1. PICK x, f : x = me[p] /\ f = x.item
  OBVIOUS
<1>2. x \in Memory /\ Fits(x) /\ x.pc = "create" /\ ~x.alone /\ f \in Items
  BY <1>1, MemoryFits DEF AddCreate
<1>3. f \in Files /\ content[f] \in Versions
  BY <1>1, <1>2, RowParts DEF Fits, PlaceFits
<1>4. PICK given : given = {[file |-> f, version |-> content[f]]}
  OBVIOUS
<1>5. given \in SUBSET Given /\ [file |-> f, version |-> content[f]] \in given
  BY <1>3, <1>4 DEF Given
<1>6. UNCHANGED <<rows, project, content>> /\ commands' \in Nat /\ edits' \in Nat
  BY DEF AddCreate, TypeOK
<1>7. ASSUME NEW doc \in Docs \cup {None}, NEW version \in Versions \cup {None},
             Disturbs(p, [x EXCEPT !.pc = "insert", !.doc = doc, !.version = version]),
             Grows, Real(doc)',
             version # None => Has(doc, [file |-> f, version |-> version])',
             causes' \in [Items -> SUBSET Causes], faults' \in Nat,
             docs' \in [Docs -> Document \cup {NoDoc, Deleted}],
             \A d \in Docs : docs[d] = NoDoc /\ docs'[d] # NoDoc =>
                               docs'[d].for = f /\ (Blamed(f)' \/ doc = d)
      PROVE  TypeOK' /\ FilesInv'
  <2>1. PICK y : y = [x EXCEPT !.pc = "insert", !.doc = doc, !.version = version]
    OBVIOUS
  <2>2. /\ y.pc = "insert" /\ y.item = f /\ y.row = x.row /\ y.hash = x.hash
        /\ y.version = version /\ y.doc = doc /\ y.todo = x.todo /\ y.alone = x.alone
        /\ y \in Memory
    BY <1>1, <1>2, <2>1 DEF Memory, PC
  <2>3. Fits(x)'
    BY <1>2, <1>6, <1>7, StillFits
  <2>4. Fits(y)'
    <3>1. PlaceFits(y)'
      BY <1>2, <1>3, <2>2, ItemsAssumption DEF PlaceFits, Passing
    <3>2. NamesReal(y)'
      BY <1>7, <2>2, <2>3 DEF Fits, NamesReal
    <3>3. TextFits(y)'
      <4>1. \A i \in Items : Backed(i, y.todo[i])'
        BY <2>2, <2>3 DEF Fits, TextFits
      <4>2. Steady(y) => Has(y.doc, [file |-> y.item, version |-> y.hash])'
        BY <1>7, <2>2 DEF Steady
      <4>3. QED
        BY <2>2, <4>1, <4>2 DEF TextFits, Passing, Steady
    <3>4. RowFits(y)'
      BY <1>1, <1>2, <2>2, <2>3 DEF Fits, RowFits, Passing
    <3>5. AloneFits(y)'
      BY <1>2, <2>2 DEF AloneFits
    <3>6. QED
      BY <3>1, <3>2, <3>3, <3>4, <3>5 DEF Fits
  <2>5. Works(p, y) /\ \A q \in Processes \ {p} : ~me'[q].alone
    BY <1>7, <2>1, <2>2, OneDisturbs
  <2>6. Lets(y, me[p])
    BY <1>1, <1>2 DEF Lets, Brings
  <2>7. ASSUME NEW d \in Docs, docs[d] = NoDoc, docs'[d] # NoDoc
        PROVE  Kept(d)'
    <3>1. Blamed(f)' \/ Brings(y, f, d)
      BY <1>7, <2>2, <2>7 DEF Brings
    <3>2. QED
      BY <1>2, <1>7, <2>5, <2>7, <3>1, NewKept DEF Works
  <2>8. QED
    BY <1>2, <1>6, <1>7, <2>2, <2>4, <2>5, <2>6, <2>7, DocsKeeps
<1>8. ASSUME NEW d \in Docs, Created(d, f, given, "private"), UNCHANGED <<causes, faults>>,
             Disturbs(p, [x EXCEPT !.pc = "insert", !.doc = d, !.version = content[f]])
      PROVE  TypeOK' /\ FilesInv'
  <2>1. /\ docs' \in [Docs -> Document \cup {NoDoc, Deleted}]
        /\ docs'[d] # NoDoc /\ docs'[d].for = f /\ docs'[d].given = given
        /\ \A e \in Docs \ {d} : docs'[e] = docs[e]
        /\ Grows
    BY <1>2, <1>5, <1>8, CreatedNext DEF Flags
  <2>2. PICK version \in Versions : version = content[f]
    BY <1>3
  <2>3. Has(d, [file |-> f, version |-> version])'
    BY <1>5, <2>1, <2>2 DEF Has, Docs, None
  <2>4. Real(d)'
    BY <2>1 DEF Real
  <2>5. Disturbs(p, [x EXCEPT !.pc = "insert", !.doc = d, !.version = version])
    BY <1>8, <2>2
  <2>6. QED
    BY <1>7, <1>8, <2>1, <2>3, <2>4, <2>5 DEF TypeOK
<1>9. ASSUME UNCHANGED <<docs, causes>>, faults' \in Nat,
             Disturbs(p, [x EXCEPT !.pc = "insert", !.doc = None, !.version = None])
      PROVE  TypeOK' /\ FilesInv'
  <2>1. Grows
    BY <1>9 DEF Grows
  <2>2. Real(None)'
    BY DEF Real
  <2>3. QED
    BY <1>7, <1>9, <2>1, <2>2 DEF TypeOK
<1>10. ASSUME NEW d \in Docs, Created(d, f, given, "private"), faults' \in Nat,
              Disturbs(p, [x EXCEPT !.pc = "insert", !.doc = None, !.version = None]),
              Happens(f, {"lost"})
       PROVE  TypeOK' /\ FilesInv'
  <2>1. /\ causes' \in [Items -> SUBSET Causes]
        /\ Blamed(f)'
        /\ \A l \in Items : causes[l] \subseteq causes'[l]
    BY <1>2, <1>10, HappensNext DEF Causes
  <2>2. /\ docs' \in [Docs -> Document \cup {NoDoc, Deleted}]
        /\ docs'[d].for = f
        /\ \A e \in Docs \ {d} : docs'[e] = docs[e]
        /\ Grows
    BY <1>2, <1>5, <1>10, <2>1, CreatedNext DEF Flags
  <2>3. Real(None)'
    BY DEF Real
  <2>4. QED
    BY <1>7, <1>10, <2>1, <2>2, <2>3
<1>11. QED
  <2>1. NoFault => UNCHANGED faults
    BY DEF NoFault
  <2>2. Fault => faults' \in Nat
    BY DEF Fault, TypeOK
  <2>3. QED
    BY <1>1, <1>4, <1>8, <1>9, <1>10, <2>1, <2>2 DEF AddCreate

LEMMA TrackKeeps ==
  ASSUME TypeOK, FilesInv, NEW p \in Processes, NEW r \in Repos, Track(p, r)
  PROVE  TypeOK' /\ FilesInv'
<1>1. PICK d \in Docs, published \in Flags :
        /\ Created(d, r, {}, published)
        /\ \/ /\ Disturbs(p, [Idle EXCEPT !.pc = "track", !.item = r, !.doc = d])
              /\ NoFault /\ Happens(r, IF project[r] # None THEN {"again"} ELSE {})
           \/ Disturbs(p, Idle) /\ Fault /\ Happens(r, {"lost"})
  BY DEF Track
<1>2. r \in Items
  BY DEF Items
<1>3. /\ UNCHANGED <<rows, project, content>> /\ edits' \in Nat
      /\ me[p].pc = "idle" /\ commands' \in Nat
  BY DEF Track, MayBegin, TypeOK
<1>4. NoFault \/ Fault => faults' \in Nat
  BY DEF NoFault, Fault, TypeOK
<1>5. \A y : Lets(y, me[p])
  BY <1>3 DEF Lets, Brings
<1>6. ASSUME NEW what \in SUBSET Causes, Happens(r, what)
      PROVE  /\ causes' \in [Items -> SUBSET Causes]
             /\ what # {} => Blamed(r)'
             /\ docs' \in [Docs -> Document \cup {NoDoc, Deleted}]
             /\ docs'[d].for = r /\ docs'[d] # NoDoc
             /\ \A e \in Docs \ {d} : docs'[e] = docs[e]
             /\ Grows
  <2>1. {} \in SUBSET Given
    OBVIOUS
  <2>2. QED
    BY <1>1, <1>2, <1>6, <2>1, HappensNext, CreatedNext
<1>7. ASSUME Disturbs(p, [Idle EXCEPT !.pc = "track", !.item = r, !.doc = d]),
             NoFault, Happens(r, IF project[r] # None THEN {"again"} ELSE {})
      PROVE  TypeOK' /\ FilesInv'
  <2>1. /\ causes' \in [Items -> SUBSET Causes]
        /\ project[r] # None => Blamed(r)'
        /\ docs' \in [Docs -> Document \cup {NoDoc, Deleted}]
        /\ docs'[d].for = r /\ docs'[d] # NoDoc
        /\ \A e \in Docs \ {d} : docs'[e] = docs[e]
        /\ Grows
    BY <1>6, <1>7 DEF Causes
  <2>2. PICK y : y = [Idle EXCEPT !.pc = "track", !.item = r, !.doc = d]
    OBVIOUS
  <2>3. /\ y.pc = "track" /\ y.item = r /\ y.doc = d /\ y.row = NoRow
        /\ y.todo = NoRows /\ y.alone = FALSE
    BY <2>2, IdleIsBlank DEF Memory
  <2>4. y \in Memory
    BY <1>2, <2>2, IdleIsBlank DEF Memory, PC
  <2>5. \A l \in Items : y.todo[l] = NoRow
    BY <2>3 DEF NoRows
  <2>6. Fits(y)'
    <3>1. PlaceFits(y)'
      BY <2>3, <2>5 DEF PlaceFits, Passing, Docs, None
    <3>2. NamesReal(y)'
      BY <2>1, <2>3, <2>5, BlankRow DEF NamesReal, Real
    <3>3. TextFits(y)'
      BY <2>3, <2>5, BlankRow DEF TextFits, Backed, Passing
    <3>4. RowFits(y)'
      BY <1>3, <2>1, <2>3, <2>5 DEF RowFits, Passing
    <3>5. AloneFits(y)'
      BY <2>3 DEF AloneFits
    <3>6. QED
      BY <3>1, <3>2, <3>3, <3>4, <3>5 DEF Fits
  <2>7. Works(p, y) /\ \A q \in Processes \ {p} : ~me'[q].alone
    BY <1>7, <2>2, <2>4, OneDisturbs
  <2>8. ASSUME NEW e \in Docs, docs[e] = NoDoc, docs'[e] # NoDoc
        PROVE  Kept(e)'
    <3>1. e = d /\ Brings(y, r, d)
      BY <2>1, <2>3, <2>8 DEF Brings
    <3>2. QED
      BY <1>2, <2>1, <2>7, <3>1, NewKept DEF Works
  <2>9. QED
    BY <1>3, <1>4, <1>5, <1>7, <2>1, <2>3, <2>4, <2>6, <2>7, <2>8, DocsKeeps
<1>8. ASSUME Disturbs(p, Idle), Fault, Happens(r, {"lost"})
      PROVE  TypeOK' /\ FilesInv'
  <2>1. /\ causes' \in [Items -> SUBSET Causes]
        /\ Blamed(r)'
        /\ docs' \in [Docs -> Document \cup {NoDoc, Deleted}]
        /\ docs'[d].for = r /\ docs'[d] # NoDoc
        /\ \A e \in Docs \ {d} : docs'[e] = docs[e]
        /\ Grows
    BY <1>6, <1>8 DEF Causes
  <2>2. PICK y : y = Idle
    OBVIOUS
  <2>3. y \in Memory /\ Fits(y) /\ ~y.alone
    BY <2>2, IdleIsBlank, IdleFits
  <2>4. Fits(y)'
    BY <1>3, <2>1, <2>3, StillFits
  <2>5. Works(p, y) /\ \A q \in Processes \ {p} : ~me'[q].alone
    BY <1>8, <2>2, <2>3, OneDisturbs
  <2>6. ASSUME NEW e \in Docs, docs[e] = NoDoc, docs'[e] # NoDoc
        PROVE  Kept(e)'
    BY <1>2, <2>1, <2>6, NewKept
  <2>7. QED
    BY <1>3, <1>4, <1>5, <1>8, <2>1, <2>3, <2>4, <2>5, <2>6, DocsKeeps
<1>9. QED
  BY <1>1, <1>7, <1>8

LEMMA SyncCreateKeeps ==
  ASSUME TypeOK, FilesInv, NEW p \in Processes, SyncCreate(p)
  PROVE  TypeOK' /\ FilesInv'
<1>1. PICK x, f : x = me[p] /\ f = x.item
  OBVIOUS
<1>2. x \in Memory /\ Fits(x) /\ x.pc = "new" /\ ~x.alone /\ f \in Items
  BY <1>1, MemoryFits DEF SyncCreate, Passing
<1>3. f \in Files /\ x.version \in Versions /\ x.doc = None /\ x.row.doc = None
  BY <1>1, <1>2 DEF Fits, PlaceFits, Passing
<1>4. PICK text : text = [file |-> f, version |-> x.version]
  OBVIOUS
<1>5. text \in Given /\ {text} \in SUBSET Given /\ text = Text(p)
  BY <1>1, <1>3, <1>4 DEF Given, Text
<1>6. /\ UNCHANGED <<rows, project, content>> /\ commands' \in Nat /\ edits' \in Nat
      /\ (NoFault \/ Fault => faults' \in Nat)
  <2>1. UNCHANGED <<rows, project, content, commands, edits>>
    BY DEF SyncCreate
  <2>2. NoFault \/ Fault => faults' \in Nat
    BY DEF TypeOK, NoFault, Fault
  <2>3. QED
    BY <2>1, <2>2 DEF TypeOK
<1>7. \A y : Lets(y, me[p])
  BY <1>1, <1>2 DEF Lets, Brings
<1>8. PICK z : z = Skipped(p)
  OBVIOUS
<1>9. z \in Memory /\ Fits(z) /\ ~z.alone
  BY <1>1, <1>2, <1>8, SkippedFits DEF Passing
<1>10. ASSUME NEW d \in Docs, Created(d, f, {text}, "private"),
              causes' \in [Items -> SUBSET Causes],
              \A l \in Items : causes[l] \subseteq causes'[l]
       PROVE  /\ docs' \in [Docs -> Document \cup {NoDoc, Deleted}]
              /\ docs'[d] # NoDoc /\ docs'[d].for = f /\ text \in docs'[d].given
              /\ \A e \in Docs \ {d} : docs'[e] = docs[e]
              /\ Grows
  <2>1. /\ docs' \in [Docs -> Document \cup {NoDoc, Deleted}]
        /\ docs'[d] # NoDoc /\ docs'[d].for = f /\ docs'[d].given = {text}
        /\ \A e \in Docs \ {d} : docs'[e] = docs[e]
        /\ Grows
    BY <1>2, <1>5, <1>10, CreatedNext DEF Flags
  <2>2. QED
    BY <2>1
<1>11. ASSUME NEW d \in Docs, Created(d, f, {text}, "private"), NoFault, UNCHANGED causes,
              Disturbs(p, [x EXCEPT !.doc = d,
                            !.pc = IF x.op = "fetch" THEN "store" ELSE "process"])
       PROVE  TypeOK' /\ FilesInv'
  <2>1. /\ causes' \in [Items -> SUBSET Causes]
        /\ docs' \in [Docs -> Document \cup {NoDoc, Deleted}]
        /\ docs'[d] # NoDoc /\ docs'[d].for = f /\ text \in docs'[d].given
        /\ \A e \in Docs \ {d} : docs'[e] = docs[e]
        /\ Grows
    BY <1>10, <1>11 DEF TypeOK
  <2>2. PICK y : y = [x EXCEPT !.doc = d, !.pc = IF x.op = "fetch" THEN "store" ELSE "process"]
    OBVIOUS
  <2>3. /\ y.pc \in {"store", "process"} /\ y.item = f /\ y.row = x.row /\ y.hash = x.hash
        /\ y.version = x.version /\ y.doc = d /\ y.todo = x.todo /\ y.alone = x.alone
    BY <1>1, <1>2, <2>2 DEF Memory
  <2>4. y \in Memory
    BY <1>2, <2>2 DEF Memory, PC
  <2>5. Fits(x)'
    BY <1>2, <1>6, <2>1, StillFits
  <2>6. Has(d, [file |-> f, version |-> x.version])'
    BY <1>3, <1>4, <2>1 DEF Has, Docs, None
  <2>7. Fits(y)'
    <3>1. PlaceFits(y)'
      BY <1>1, <1>2, <1>3, <2>3, <2>5 DEF Fits, PlaceFits, Passing, Docs, None
    <3>2. NamesReal(y)'
      BY <2>1, <2>3, <2>5 DEF Fits, NamesReal, Real
    <3>3. TextFits(y)'
      BY <1>1, <1>2, <2>3, <2>5, <2>6 DEF Fits, TextFits, Passing, Steady
    <3>4. RowFits(y)'
      BY <1>1, <1>2, <2>3, <2>5 DEF Fits, RowFits, Passing
    <3>5. AloneFits(y)'
      BY <1>2, <2>3 DEF AloneFits
    <3>6. QED
      BY <3>1, <3>2, <3>3, <3>4, <3>5 DEF Fits
  <2>8. Works(p, y) /\ \A q \in Processes \ {p} : ~me'[q].alone
    BY <1>11, <2>2, <2>4, OneDisturbs
  <2>9. ASSUME NEW e \in Docs, docs[e] = NoDoc, docs'[e] # NoDoc
        PROVE  Kept(e)'
    <3>1. e = d /\ Brings(y, f, d)
      BY <2>1, <2>3, <2>9 DEF Brings
    <3>2. QED
      BY <1>2, <2>1, <2>8, <3>1, NewKept DEF Works
  <2>10. QED
    BY <1>2, <1>6, <1>7, <1>11, <2>1, <2>3, <2>4, <2>7, <2>8, <2>9, DocsKeeps
<1>12. ASSUME Skips(p), Fault, UNCHANGED <<docs, causes>>
       PROVE  TypeOK' /\ FilesInv'
  BY <1>6, <1>7, <1>8, <1>9, <1>12, ProceedKeeps DEF Skips, TypeOK
<1>13. ASSUME NEW d \in Docs, Created(d, f, {text}, "private"), Fault, Happens(f, {"lost"}),
              Disturbs(p, z)
       PROVE  TypeOK' /\ FilesInv'
  <2>1. /\ causes' \in [Items -> SUBSET Causes]
        /\ \A l \in Items : causes[l] \subseteq causes'[l]
        /\ Blamed(f)'
    BY <1>2, <1>13, HappensNext DEF Causes
  <2>2. /\ docs' \in [Docs -> Document \cup {NoDoc, Deleted}]
        /\ docs'[d].for = f
        /\ \A e \in Docs \ {d} : docs'[e] = docs[e]
        /\ Grows
    BY <1>10, <1>13, <2>1
  <2>3. Fits(z)'
    BY <1>6, <1>9, <2>2, StillFits
  <2>4. Works(p, z) /\ \A q \in Processes \ {p} : ~me'[q].alone
    BY <1>9, <1>13, OneDisturbs
  <2>5. ASSUME NEW e \in Docs, docs[e] = NoDoc, docs'[e] # NoDoc
        PROVE  Kept(e)'
    BY <1>2, <2>1, <2>2, <2>5, NewKept
  <2>6. QED
    BY <1>6, <1>7, <1>9, <1>13, <2>1, <2>2, <2>3, <2>4, <2>5, DocsKeeps
<1>14. QED
  BY <1>1, <1>5, <1>8, <1>11, <1>12, <1>13 DEF SyncCreate

LEMMA ProcessKeeps ==
  ASSUME TypeOK, FilesInv, NEW p \in Processes, Process(p)
  PROVE  TypeOK' /\ FilesInv'
<1>1. PICK x, f, d : x = me[p] /\ f = x.item /\ d = x.doc
  OBVIOUS
<1>2. x \in Memory /\ Fits(x) /\ x.pc = "process" /\ ~x.alone /\ f \in Items
  BY <1>1, MemoryFits DEF Process, Passing
<1>3. f \in Files /\ x.version \in Versions /\ d \in Docs
  BY <1>1, <1>2, MemoryParts DEF Fits, PlaceFits, Passing, None
<1>4. PICK text : text = [file |-> f, version |-> x.version]
  OBVIOUS
<1>5. text \in Given /\ text = Text(p)
  BY <1>1, <1>3, <1>4 DEF Given, Text
<1>6. /\ UNCHANGED <<rows, project, content, commands, edits>>
      /\ commands' \in Nat /\ edits' \in Nat
  <2>1. UNCHANGED <<rows, project, content, commands, edits>>
    BY DEF Process
  <2>2. QED
    BY <2>1 DEF TypeOK
<1>7. (NoFault => faults' \in Nat) /\ (Fault => faults' \in Nat)
  BY DEF TypeOK, NoFault, Fault
<1>8. PICK z : z = Skipped(p)
  OBVIOUS
<1>9. z \in Memory /\ Fits(z) /\ ~z.alone
  BY <1>1, <1>2, <1>8, SkippedFits DEF Passing
<1>10. ASSUME Exists(d), Submitted(d, text), UNCHANGED causes, NoFault,
              Goto(p, IF x.waits THEN "wait" ELSE "store")
       PROVE  TypeOK' /\ FilesInv'
  <2>1. /\ docs' \in [Docs -> Document \cup {NoDoc, Deleted}]
        /\ Grows /\ \A e \in Docs : SameFace(e)
        /\ text \in docs'[d].given /\ docs'[d] # NoDoc
        /\ \A e \in Docs : docs[e] = NoDoc => docs'[e] = NoDoc
    BY <1>3, <1>5, <1>10, SubmittedNext
  <2>2. PICK y : y = [x EXCEPT !.pc = IF x.waits THEN "wait" ELSE "store"]
    OBVIOUS
  <2>3. /\ y.pc \in {"wait", "store"} /\ y.item = f /\ y.row = x.row /\ y.hash = x.hash
        /\ y.version = x.version /\ y.doc = d /\ y.todo = x.todo /\ y.alone = x.alone
    BY <1>1, <1>2, <2>2 DEF Memory
  <2>4. y \in Memory
    BY <1>2, <2>2 DEF Memory, PC
  <2>5. Fits(x)'
    BY <1>2, <1>6, <2>1, StillFits
  <2>6. Has(d, [file |-> f, version |-> x.version])'
    BY <1>3, <1>4, <2>1 DEF Has, Docs, None
  <2>7. Fits(y)'
    <3>1. PlaceFits(y)'
      BY <1>1, <1>2, <1>3, <2>3, <2>5 DEF Fits, PlaceFits, Passing, Docs, None
    <3>2. NamesReal(y)'
      BY <2>1, <2>3, <2>5 DEF Fits, NamesReal, Real
    <3>3. TextFits(y)'
      BY <1>1, <1>2, <2>3, <2>5, <2>6 DEF Fits, TextFits, Passing, Steady
    <3>4. RowFits(y)'
      BY <1>1, <1>2, <2>3, <2>5 DEF Fits, RowFits, Passing
    <3>5. AloneFits(y)'
      BY <1>2, <2>3 DEF AloneFits
    <3>6. QED
      BY <3>1, <3>2, <3>3, <3>4, <3>5 DEF Fits
  <2>8. Set(p, y)
    BY <1>1, <1>10, <2>2 DEF Goto
  <2>9. Works(p, y)
    BY <2>4, <2>8, OneMoves
  <2>10. Lets(y, me[p])
    BY <1>1, <1>2, <2>3 DEF Lets, Brings
  <2>11. QED
    BY <1>2, <1>6, <1>7, <1>10, <2>1, <2>3, <2>4, <2>7, <2>9, <2>10, DocsKeeps DEF TypeOK
<1>11. ASSUME Skips(p), Happens(f, IF x.row.doc = None THEN {"unprocessed"} ELSE {}),
              faults' \in Nat,
              UNCHANGED docs \/ (Exists(d) /\ Submitted(d, text))
       PROVE  TypeOK' /\ FilesInv'
  <2>1. /\ causes' \in [Items -> SUBSET Causes]
        /\ \A l \in Items : causes[l] \subseteq causes'[l]
        /\ x.row.doc = None => Blamed(f)'
    BY <1>2, <1>11, HappensNext DEF Causes
  <2>2. /\ docs' \in [Docs -> Document \cup {NoDoc, Deleted}]
        /\ Grows /\ \A e \in Docs : SameFace(e)
        /\ \A e \in Docs : docs[e] = NoDoc => docs'[e] = NoDoc
    <3>1. CASE UNCHANGED docs
      BY <2>1, <3>1 DEF TypeOK, Grows, SameFace, Exists
    <3>2. CASE Exists(d) /\ Submitted(d, text)
      BY <1>3, <1>5, <2>1, <3>2, SubmittedNext
    <3>3. QED
      BY <1>11, <3>1, <3>2
  <2>3. Fits(z)'
    BY <1>6, <1>9, <2>2, StillFits
  <2>4. Works(p, z)
    BY <1>8, <1>9, <1>11, OneMoves DEF Skips
  <2>5. Lets(z, me[p])
    BY <1>1, <1>2, <1>6, <2>1, <2>2, SkipLets
  <2>6. QED
    BY <1>6, <1>9, <1>11, <2>1, <2>2, <2>3, <2>4, <2>5, DocsKeeps
<1>12. CASE /\ Exists(d) /\ Submitted(d, text)
            /\ Goto(p, IF x.waits THEN "wait" ELSE "store")
            /\ NoFault /\ UNCHANGED causes
  BY <1>10, <1>12
<1>13. CASE /\ Skips(p)
            /\ \/ ~Exists(d) /\ NoFault /\ UNCHANGED docs
               \/ Exists(d) /\ Fault /\ UNCHANGED docs
               \/ Exists(d) /\ Fault /\ Submitted(d, text)
            /\ Happens(f, IF x.row.doc = None THEN {"unprocessed"} ELSE {})
  <2>1. faults' \in Nat /\ (UNCHANGED docs \/ (Exists(d) /\ Submitted(d, text)))
    BY <1>7, <1>13
  <2>2. QED
    BY <1>11, <1>13, <2>1
<1>14. QED
  BY <1>1, <1>5, <1>12, <1>13 DEF Process

\* A step that sets the flag of document d.
LEMMA PublishedNext ==
  ASSUME TypeOK, NEW d \in Docs, Exists(d), NEW flag \in Flags,
         docs' = [docs EXCEPT ![d].published = flag],
         \A l \in Items : causes[l] \subseteq causes'[l]
  PROVE  /\ docs' \in [Docs -> Document \cup {NoDoc, Deleted}]
         /\ Grows
         /\ \A e \in Docs : docs[e] = NoDoc => docs'[e] = NoDoc
<1>1. PICK x : x = docs[d]
  OBVIOUS
<1>2. x \in Document
  BY <1>1, DocumentParts
<1>3. PICK y : y = [x EXCEPT !.published = flag]
  OBVIOUS
<1>4. docs' = [docs EXCEPT ![d] = y]
  BY <1>1, <1>3 DEF TypeOK
<1>5. y \in Document /\ y.for = x.for /\ y.given = x.given
  BY <1>2, <1>3 DEF Document
<1>6. docs'[d] = y /\ \A e \in Docs \ {d} : docs'[e] = docs[e]
  BY <1>4 DEF TypeOK
<1>7. y # NoDoc /\ y # Deleted /\ x # NoDoc /\ x # Deleted
  BY <1>2, <1>5, NotADocument
<1>8. docs' \in [Docs -> Document \cup {NoDoc, Deleted}]
  BY <1>4, <1>5 DEF TypeOK
<1>9. Grows
  BY <1>1, <1>5, <1>6, <1>7 DEF Grows
<1>10. QED
  BY <1>1, <1>6, <1>7, <1>8, <1>9

LEMMA FlagKeeps ==
  ASSUME TypeOK, FilesInv, NEW p \in Processes, Flag(p)
  PROVE  TypeOK' /\ FilesInv'
<1>1. PICK x, d : x = me[p] /\ d = x.row.doc
  OBVIOUS
<1>2. x \in Memory /\ Fits(x) /\ x.pc = "flag" /\ ~x.alone /\ x.item \in Items
  BY <1>1, MemoryFits DEF Flag
<1>3. x.row \in Row /\ d \in Docs /\ x.row.published \in Flags
  BY <1>1, <1>2 DEF Fits, PlaceFits, Row
<1>4. /\ UNCHANGED <<rows, project, content, causes, commands, edits>>
      /\ commands' \in Nat /\ edits' \in Nat /\ causes' \in [Items -> SUBSET Causes]
  <2>1. UNCHANGED <<rows, project, content, causes, commands, edits>>
    BY DEF Flag
  <2>2. QED
    BY <2>1 DEF TypeOK
<1>5. (NoFault => faults' \in Nat) /\ (Fault => faults' \in Nat)
  BY DEF TypeOK, NoFault, Fault
<1>6. \A y : Lets(y, me[p])
  BY <1>1, <1>2 DEF Lets, Brings
<1>7. ASSUME \/ Exists(d) /\ docs' = [docs EXCEPT ![d].published = x.row.published]
             \/ UNCHANGED docs
      PROVE  /\ docs' \in [Docs -> Document \cup {NoDoc, Deleted}]
             /\ Grows
             /\ \A e \in Docs : docs[e] = NoDoc => docs'[e] = NoDoc
  <2>1. CASE UNCHANGED docs
    BY <1>4, <2>1 DEF TypeOK, Grows
  <2>2. CASE Exists(d) /\ docs' = [docs EXCEPT ![d].published = x.row.published]
    BY <1>3, <1>4, <2>2, PublishedNext
  <2>3. QED
    BY <1>7, <2>1, <2>2
<1>8. ASSUME Exists(d), docs' = [docs EXCEPT ![d].published = x.row.published], NoFault,
             Disturbs(p, [x EXCEPT !.pc = "note"])
      PROVE  TypeOK' /\ FilesInv'
  <2>1. PICK y : y = [x EXCEPT !.pc = "note"]
    OBVIOUS
  <2>2. /\ y.pc = "note" /\ y.item = x.item /\ y.row = x.row /\ y.hash = x.hash
        /\ y.version = x.version /\ y.doc = x.doc /\ y.todo = x.todo /\ y.alone = x.alone
        /\ y \in Memory
    BY <1>2, <2>1 DEF Memory, PC
  <2>3. /\ docs' \in [Docs -> Document \cup {NoDoc, Deleted}]
        /\ Grows
        /\ \A e \in Docs : docs[e] = NoDoc => docs'[e] = NoDoc
    BY <1>7, <1>8
  <2>4. Fits(x)'
    BY <1>2, <1>4, <2>3, StillFits
  <2>5. Fits(y)'
    <3>1. PlaceFits(y)'
      BY <1>2, <2>2, <2>4 DEF Fits, PlaceFits, Passing
    <3>2. NamesReal(y)'
      BY <2>2, <2>4 DEF Fits, NamesReal
    <3>3. TextFits(y)'
      BY <1>2, <2>2, <2>4 DEF Fits, TextFits, Passing
    <3>4. RowFits(y)'
      BY <1>2, <2>2, <2>4 DEF Fits, RowFits, Passing
    <3>5. AloneFits(y)'
      BY <1>2, <2>2 DEF AloneFits
    <3>6. QED
      BY <3>1, <3>2, <3>3, <3>4, <3>5 DEF Fits
  <2>6. Works(p, y) /\ \A q \in Processes \ {p} : ~me'[q].alone
    BY <1>8, <2>1, <2>2, OneDisturbs
  <2>7. QED
    BY <1>2, <1>4, <1>5, <1>6, <1>8, <2>2, <2>3, <2>5, <2>6, DocsKeeps
<1>9. ASSUME UNCHANGED docs, NoFault, Ends(p)
      PROVE  TypeOK' /\ FilesInv'
  BY <1>4, <1>5, <1>6, <1>9, IdleFits, IdleIsBlank, ProceedKeeps DEF Ends
<1>10. ASSUME \/ Exists(d) /\ docs' = [docs EXCEPT ![d].published = x.row.published]
              \/ UNCHANGED docs,
              Fault, Disturbs(p, Idle)
       PROVE  TypeOK' /\ FilesInv'
  <2>1. PICK y : y = Idle
    OBVIOUS
  <2>2. y \in Memory /\ Fits(y) /\ ~y.alone
    BY <2>1, IdleIsBlank, IdleFits
  <2>3. /\ docs' \in [Docs -> Document \cup {NoDoc, Deleted}]
        /\ Grows
        /\ \A e \in Docs : docs[e] = NoDoc => docs'[e] = NoDoc
    BY <1>7, <1>10
  <2>4. Fits(y)'
    BY <1>4, <2>2, <2>3, StillFits
  <2>5. Works(p, y) /\ \A q \in Processes \ {p} : ~me'[q].alone
    BY <1>10, <2>1, <2>2, OneDisturbs
  <2>6. QED
    BY <1>4, <1>5, <1>6, <1>10, <2>2, <2>3, <2>4, <2>5, DocsKeeps
<1>11. QED
  BY <1>1, <1>8, <1>9, <1>10 DEF Flag

LEMMA ChangedElsewhereKeeps ==
  ASSUME TypeOK, FilesInv, NEW d \in Docs, ChangedElsewhere(d)
  PROVE  TypeOK' /\ FilesInv'
<1>1. Exists(d) /\ docs[d].for \in Items /\ docs[d] # NoDoc
  BY DocumentParts DEF ChangedElsewhere
<1>2. UNCHANGED <<rows, project, content, commands, edits>> /\ faults' \in Nat
  BY DEF ChangedElsewhere, TypeOK
<1>3. /\ causes' \in [Items -> SUBSET Causes]
      /\ \A l \in Items : causes[l] \subseteq causes'[l]
  BY <1>1, HappensNext DEF ChangedElsewhere, Causes
<1>4. /\ me' \in [Processes -> Memory]
      /\ \A q \in Processes : Like(me'[q], me[q]) /\ ~me'[q].alone
  BY AllDisturbed DEF ChangedElsewhere
<1>5. /\ docs' \in [Docs -> Document \cup {NoDoc, Deleted}]
      /\ Grows
      /\ \A e \in Docs : docs[e] = NoDoc => docs'[e] = NoDoc
  <2>1. CASE \E flag \in Flags : docs' = [docs EXCEPT ![d].published = flag]
    BY <1>1, <1>3, <2>1, PublishedNext
  <2>2. CASE docs' = [docs EXCEPT ![d] = Deleted]
    <3>1. docs'[d] = Deleted /\ \A e \in Docs \ {d} : docs'[e] = docs[e]
      BY <2>2 DEF TypeOK
    <3>2. docs' \in [Docs -> Document \cup {NoDoc, Deleted}]
      BY <2>2 DEF TypeOK
    <3>3. Grows
      BY <1>3, <3>1, NotADocument DEF Grows
    <3>4. QED
      BY <1>1, <3>1, <3>2, <3>3
  <2>3. QED
    BY <2>1, <2>2 DEF ChangedElsewhere
<1>6. TypeOK'
  BY <1>2, <1>3, <1>4, <1>5 DEF TypeOK
<1>7. QED
  BY <1>2, <1>4, <1>5, <1>6, WorldKeeps

-----------------------------------------------------------------------------
(* Rows are written.                                                       *)

\* What Upsert does to rows and causes.
LEMMA UpsertNext ==
  ASSUME TypeOK, NEW p \in Processes, NEW i \in Items, NEW row \in Row, Upsert(p, i, row),
         UNCHANGED docs
  PROVE  /\ rows' \in [Items -> Row \cup {NoRow}]
         /\ rows'[i] = row /\ \A l \in Items \ {i} : rows'[l] = rows[l]
         /\ causes' \in [Items -> SUBSET Causes]
         /\ Contended(p, i) => Blamed(i)'
         /\ Grows
<1>1. rows' = [rows EXCEPT ![i] = row]
      /\ Happens(i, IF Contended(p, i) THEN {"overlap"} ELSE {})
  BY DEF Upsert, Upserted
<1>2. rows' \in [Items -> Row \cup {NoRow}]
      /\ rows'[i] = row /\ \A l \in Items \ {i} : rows'[l] = rows[l]
  BY <1>1 DEF TypeOK
<1>3. /\ causes' \in [Items -> SUBSET Causes]
      /\ Contended(p, i) => Blamed(i)'
      /\ \A l \in Items : causes[l] \subseteq causes'[l]
  BY <1>1, HappensNext DEF Causes
<1>4. Grows
  BY <1>3 DEF Grows
<1>5. QED
  BY <1>2, <1>3, <1>4

\* A command writes the row of its item, and goes on to the next one or ends.
LEMMA WriteKeeps ==
  ASSUME TypeOK, FilesInv, NEW p \in Processes, NEW i \in Items, NEW row \in Row,
         Upsert(p, i, row), UNCHANGED <<project, docs, content, counters>>,
         NEW z \in Memory, Disturbs(p, z), Fits(z), ~z.alone,
         z.item = "none", z.todo[i] = NoRow,
         \A l \in Items, d \in Docs : Brings(me[p], l, d) => l = i /\ d = row.doc,
         Real(row.doc), Backed(i, row),
         \A d \in Docs : rows[i].doc = d /\ Exists(d) /\ docs[d].for = i =>
                           row.doc = d \/ Blamed(i),
         i \in Repos /\ row.doc # None /\ docs[row.doc] # Deleted /\ docs[row.doc].for = i =>
           row.doc = project[i] \/ Blamed(i)
  PROVE  TypeOK' /\ FilesInv'
<1>1. /\ rows' \in [Items -> Row \cup {NoRow}]
      /\ rows'[i] = row /\ \A l \in Items \ {i} : rows'[l] = rows[l]
      /\ causes' \in [Items -> SUBSET Causes]
      /\ Grows
  BY UpsertNext
<1>2. Works(p, z) /\ \A q \in Processes \ {p} : ~me'[q].alone
  BY OneDisturbs
<1>3. TypeOK'
  BY <1>1, <1>2 DEF TypeOK, Works, counters
<1>4. Like(z, z)
  BY DEF Like
<1>5. \A l \in Items : z.item = l \/ z.todo[l] # NoRow => l # i
  BY RowParts
<1>6. Fits(z)'
  BY <1>1, <1>4, <1>5, OtherFits
<1>7. Lets(z, me[p])
  BY <1>1 DEF Lets
<1>8. Moved(p)
  BY <1>2, <1>6, <1>7 DEF Moved, Works
<1>9. Blamed(i) => Blamed(i)'
  BY <1>1, TextLater
<1>10. QED
  BY <1>2, <1>3, <1>8, <1>9, UpsertKeeps DEF Works

\* The row that a command stores with the hash and the document in its memory.
LEMMA SteadyRow ==
  ASSUME NEW x \in Memory, NEW flag \in Flags,
         NEW row, row = [doc |-> x.doc, hash |-> x.hash,
                         published |-> flag, steady |-> Steady(x)]
  PROVE  /\ row \in Row /\ row.doc = x.doc /\ row.hash = x.hash
         /\ row.steady <=> Steady(x)
<1>1. Steady(x) \in BOOLEAN
  BY DEF Steady
<1>2. x.doc \in Docs \cup {None} /\ x.hash \in Versions \cup {None}
  BY DEF Memory
<1>3. QED
  BY <1>1, <1>2 DEF Row

LEMMA AddInsertKeeps ==
  ASSUME TypeOK, FilesInv, NEW p \in Processes, AddInsert(p)
  PROVE  TypeOK' /\ FilesInv'
<1>1. PICK x, i : x = me[p] /\ i = x.item
  OBVIOUS
<1>2. x \in Memory /\ Fits(x) /\ x.pc = "insert" /\ ~x.alone /\ i \in Items
  BY <1>1, MemoryFits DEF AddInsert
<1>3. PICK row : row = [doc |-> x.doc, hash |-> x.hash,
                        published |-> "private", steady |-> Steady(x)]
  OBVIOUS
<1>4. row \in Row /\ row.doc = x.doc /\ row.hash = x.hash /\ (row.steady <=> Steady(x))
  BY <1>2, <1>3, SteadyRow DEF Memory, Flags
<1>5. Upsert(p, i, row) /\ Disturbs(p, Idle) /\ UNCHANGED <<project, docs, content, counters>>
  BY <1>1, <1>3 DEF AddInsert
<1>6. \A l \in Items, d \in Docs : Brings(me[p], l, d) => l = i /\ d = row.doc
  BY <1>1, <1>4 DEF Brings
<1>7. Real(row.doc) /\ Backed(i, row)
  BY <1>1, <1>2, <1>4 DEF Fits, NamesReal, TextFits, Backed
<1>8. rows[i].doc = None \/ Blamed(i)
  BY <1>1, <1>2 DEF Fits, RowFits, Fresh
<1>9. i \in Repos => row.doc = None
  BY <1>1, <1>2, <1>4 DEF Fits, PlaceFits
<1>10. \A d \in Docs : d # None
  BY DEF Docs, None
<1>11. Idle.todo[i] = NoRow
  BY <1>2, IdleIsBlank DEF NoRows
<1>12. QED
  BY <1>2, <1>4, <1>5, <1>6, <1>7, <1>8, <1>9, <1>10, <1>11, IdleIsBlank, IdleFits, WriteKeeps

LEMMA BindKeeps ==
  ASSUME TypeOK, FilesInv, NEW p \in Processes, Bind(p)
  PROVE  TypeOK' /\ FilesInv'
<1>1. PICK x, i : x = me[p] /\ i = x.item
  OBVIOUS
<1>2. x \in Memory /\ Fits(x) /\ x.pc = "bind" /\ ~x.alone /\ i \in Items
  BY <1>1, MemoryFits DEF Bind
<1>3. PICK published \in Flags :
        Upsert(p, i, [doc |-> x.doc, hash |-> None,
                      published |-> published, steady |-> FALSE])
  BY <1>1 DEF Bind
<1>4. PICK row : row = [doc |-> x.doc, hash |-> None,
                        published |-> published, steady |-> FALSE]
  OBVIOUS
<1>5. row \in Row /\ row.doc = x.doc /\ ~row.steady
  BY <1>2, <1>4 DEF Memory, Row
<1>6. Upsert(p, i, row) /\ Disturbs(p, Idle) /\ UNCHANGED <<project, docs, content, counters>>
  BY <1>3, <1>4 DEF Bind
<1>7. \A l \in Items, d \in Docs : Brings(me[p], l, d) => l = i /\ d = row.doc
  BY <1>1, <1>5 DEF Brings
<1>8. Real(row.doc) /\ Backed(i, row)
  BY <1>2, <1>5 DEF Fits, NamesReal, Backed
<1>9. i \in Repos /\ (row.doc = project[i] \/ Blamed(i))
  BY <1>1, <1>2, <1>5 DEF Fits, PlaceFits, RowFits
<1>10. \A d \in Docs : rows[i].doc = d /\ Exists(d) /\ docs[d].for = i =>
                         row.doc = d \/ Blamed(i)
  BY <1>9 DEF FilesInv, Bound, Exists, Docs, None
<1>11. Idle.todo[i] = NoRow
  BY <1>2, IdleIsBlank DEF NoRows
<1>12. QED
  BY <1>2, <1>5, <1>6, <1>7, <1>8, <1>9, <1>10, <1>11, IdleIsBlank, IdleFits, WriteKeeps

LEMMA StoreKeeps ==
  ASSUME TypeOK, FilesInv, NEW p \in Processes, Store(p)
  PROVE  TypeOK' /\ FilesInv'
<1>1. PICK x, i : x = me[p] /\ i = x.item
  OBVIOUS
<1>2. x \in Memory /\ Fits(x) /\ x.pc = "store" /\ ~x.alone /\ i \in Items
  BY <1>1, MemoryFits DEF Store, Passing
<1>3. x.row \in Row /\ x.row.published \in Flags
  BY <1>2 DEF Fits, PlaceFits, Row, Passing
<1>4. PICK row : row = [doc |-> x.doc, hash |-> x.hash,
                        published |-> x.row.published, steady |-> Steady(x)]
  OBVIOUS
<1>5. row \in Row /\ row.doc = x.doc /\ row.hash = x.hash /\ (row.steady <=> Steady(x))
  BY <1>2, <1>3, <1>4, SteadyRow DEF Memory
<1>6. PICK z : z = Skipped(p)
  OBVIOUS
<1>7. z \in Memory /\ Fits(z) /\ ~z.alone
  BY <1>1, <1>2, <1>6, SkippedFits DEF Passing
<1>8. Upsert(p, i, row) /\ Disturbs(p, z) /\ UNCHANGED <<project, docs, content, counters>>
  BY <1>1, <1>4, <1>6 DEF Store, Known
<1>9. \A l \in Items, d \in Docs : Brings(me[p], l, d) => l = i /\ d = row.doc
  BY <1>1, <1>5 DEF Brings
<1>10. Real(row.doc) /\ Backed(i, row)
  BY <1>1, <1>2, <1>5 DEF Fits, NamesReal, TextFits, Backed
<1>11. i \in Files /\ i \notin Repos
  BY <1>1, <1>2, ItemsAssumption DEF Fits, PlaceFits, Passing
<1>12. \A d \in Docs : rows[i].doc = d => row.doc = d \/ Blamed(i)
  <2>1. x.row.doc = rows[i].doc \/ Blamed(i)
    BY <1>1, <1>2 DEF Fits, RowFits, Fresh, Passing
  <2>2. x.row.doc # None => x.doc = x.row.doc
    BY <1>2 DEF Fits, PlaceFits, Passing
  <2>3. QED
    BY <1>5, <2>1, <2>2 DEF Docs, None
<1>13. z.item = "none" /\ z.todo[i] = NoRow
  <2>1. PICK todo : todo = [x.todo EXCEPT ![i] = NoRow]
    OBVIOUS
  <2>2. todo[i] = NoRow
    BY <1>2, <2>1 DEF Memory
  <2>3. z = [Idle EXCEPT !.pc = "choose", !.op = x.op, !.waits = x.waits, !.todo = todo]
    BY <1>1, <1>6, <2>1 DEF Skipped
  <2>4. z.item = "none" /\ z.todo = todo
    BY <2>3, IdleIsBlank DEF Memory
  <2>5. QED
    BY <2>2, <2>4
<1>14. QED
  BY <1>2, <1>5, <1>7, <1>8, <1>9, <1>10, <1>11, <1>12, <1>13, WriteKeeps

LEMMA NoteKeeps ==
  ASSUME TypeOK, FilesInv, NEW p \in Processes, Note(p)
  PROVE  TypeOK' /\ FilesInv'
<1>1. PICK x, i, row : x = me[p] /\ i = x.item /\ row = x.row
  OBVIOUS
<1>2. x \in Memory /\ Fits(x) /\ x.pc = "note" /\ ~x.alone /\ i \in Items
  BY <1>1, MemoryFits DEF Note
<1>3. row \in Row
  BY <1>1, <1>2 DEF Fits, PlaceFits
<1>4. Upsert(p, i, row) /\ Disturbs(p, Idle) /\ UNCHANGED <<project, docs, content, counters>>
  BY <1>1 DEF Note
<1>5. \A l \in Items, d \in Docs : Brings(me[p], l, d) => l = i /\ d = row.doc
  BY <1>1, <1>2 DEF Brings
<1>6. Real(row.doc) /\ Backed(i, row)
  BY <1>1, <1>2 DEF Fits, NamesReal, TextFits
<1>7. row.doc = rows[i].doc \/ Blamed(i)
  BY <1>1, <1>2 DEF Fits, RowFits, Fresh
<1>8. \A r \in Repos : Bound(r)
  BY DEF FilesInv
<1>9. i \in Repos /\ row.doc # None /\ docs[row.doc] # Deleted /\ docs[row.doc].for = i =>
        row.doc = project[i] \/ Blamed(i)
  BY <1>7, <1>8 DEF Bound
<1>10. Idle.todo[i] = NoRow
  BY <1>2, IdleIsBlank DEF NoRows
<1>11. QED
  BY <1>2, <1>3, <1>4, <1>5, <1>6, <1>7, <1>9, <1>10, IdleIsBlank, IdleFits, WriteKeeps

-----------------------------------------------------------------------------
(* Rows are reconciled.                                                    *)

\* What reconcile makes of a row.
LEMMA ReconciledParts ==
  ASSUME TypeOK, NEW p \in Processes, NEW i \in Items, NEW row \in Row
  PROVE  /\ Reconciled(p, i, row) \in Row /\ Reconciled(p, i, row).hash = row.hash
         /\ Reconciled(p, i, row).steady = row.steady
         /\ row.doc # None =>
              /\ Reconciled(p, i, row).doc = row.doc
              /\ Listed(p, row.doc) =>
                   Reconciled(p, i, row).published = me[p].listed[row.doc]
         /\ row.doc = None /\ Cardinality(Namesakes(p, i)) # 1 => Reconciled(p, i, row) = row
         /\ row.doc = None /\ Cardinality(Namesakes(p, i)) = 1 =>
              /\ Reconciled(p, i, row).doc \in Namesakes(p, i)
              /\ Reconciled(p, i, row).published = me[p].listed[Reconciled(p, i, row).doc]
<1>1. PICK x : x = me[p]
  OBVIOUS
<1>2. x.listed \in [Docs -> Flags \cup {"absent"}]
  BY <1>1 DEF TypeOK, Memory
<1>3. row.doc \in Docs \cup {None}
  BY DEF Row
<1>4. \A flag \in Flags : /\ [row EXCEPT !.published = flag] \in Row
                          /\ [row EXCEPT !.published = flag].doc = row.doc
                          /\ [row EXCEPT !.published = flag].hash = row.hash
                          /\ [row EXCEPT !.published = flag].steady = row.steady
                          /\ [row EXCEPT !.published = flag].published = flag
  BY DEF Row
<1>5. CASE row.doc # None
  <2>1. Listed(p, row.doc) => x.listed[row.doc] \in Flags
    BY <1>1, <1>2, <1>3, <1>5 DEF Listed
  <2>2. Reconciled(p, i, row) = IF Listed(p, row.doc)
                                THEN [row EXCEPT !.published = x.listed[row.doc]]
                                ELSE row
    BY <1>1, <1>5 DEF Reconciled
  <2>3. QED
    BY <1>1, <1>4, <1>5, <2>1, <2>2
<1>6. CASE row.doc = None /\ Cardinality(Namesakes(p, i)) # 1
  BY <1>6 DEF Reconciled
<1>7. CASE row.doc = None /\ Cardinality(Namesakes(p, i)) = 1
  <2>1. PICK d : d = CHOOSE e \in Namesakes(p, i) : TRUE
    OBVIOUS
  <2>2. Namesakes(p, i) # {}
    BY <1>7, FS_EmptySet
  <2>3. d \in Namesakes(p, i)
    BY <2>1, <2>2
  <2>4. d \in Docs /\ x.listed[d] \in Flags
    BY <1>1, <1>2, <2>3 DEF Namesakes, Listed
  <2>5. Reconciled(p, i, row) = [row EXCEPT !.doc = d, !.published = x.listed[d]]
    BY <1>1, <1>7, <2>1 DEF Reconciled
  <2>6. PICK flag, new : flag = x.listed[d] /\ new = [row EXCEPT !.doc = d, !.published = flag]
    OBVIOUS
  <2>7. /\ new \in Row /\ new.doc = d /\ new.hash = row.hash /\ new.steady = row.steady
        /\ new.published = x.listed[d]
    BY <2>4, <2>6 DEF Row
  <2>8. Reconciled(p, i, row) = new
    BY <2>5, <2>6
  <2>9. QED
    BY <1>1, <1>7, <2>3, <2>7, <2>8
<1>8. QED
  BY <1>5, <1>6, <1>7

LEMMA AgreedNext ==
  ASSUME NEW i \in Items, NEW row, rows'[i] = row, UNCHANGED docs,
         row.doc = None => Cardinality({d \in Docs : Exists(d) /\ Title(d) = Name[i]}) # 1,
         row.doc # None /\ Exists(row.doc) => row.published = docs[row.doc].published
  PROVE  Agreed(i)'
<1>1. {d \in Docs : Exists(d)' /\ Title(d)' = Name[i]}
        = {d \in Docs : Exists(d) /\ Title(d) = Name[i]}
  BY DEF Exists, Title
<1>2. CASE row.doc = None
  BY <1>1, <1>2 DEF Agreed
<1>3. CASE row.doc # None
  BY <1>3 DEF Agreed, Exists
<1>4. QED
  BY <1>2, <1>3

LEMMA MatchKeeps ==
  ASSUME TypeOK, FilesInv, NEW p \in Processes, Match(p)
  PROVE  TypeOK' /\ FilesInv'
<1>1. PICK x : x = me[p]
  OBVIOUS
<1>2. x \in Memory /\ Fits(x) /\ x.pc = "match"
  BY <1>1, MemoryFits DEF Match
<1>3. \A y : Lets(y, me[p])
  BY <1>1, <1>2 DEF Lets, Brings
<1>4. UNCHANGED <<project, docs, content, commands, edits, faults>>
  BY DEF Match, counters
<1>5. CASE Ends(p) /\ UNCHANGED <<rows, causes>>
  BY <1>3, <1>4, <1>5, IdleFits, IdleIsBlank, ProceedKeeps DEF Ends, TypeOK
<1>6. ASSUME NEW i \in Items, x.todo[i] # NoRow,
             Disturbs(p, [x EXCEPT !.todo[i] = NoRow]),
             IF Reconciled(p, i, x.todo[i]) # x.todo[i]
             THEN Upsert(p, i, Reconciled(p, i, x.todo[i]))
             ELSE UNCHANGED <<rows, causes>>
      PROVE  TypeOK' /\ FilesInv'
  <2>1. PICK row, new : row = x.todo[i] /\ new = Reconciled(p, i, row)
    OBVIOUS
  <2>2. row \in Row
    BY <1>2, <1>6, <2>1, MemoryParts
  <2>3. /\ new \in Row /\ new.hash = row.hash /\ new.steady = row.steady
        /\ row.doc # None =>
             new.doc = row.doc /\ (Listed(p, row.doc) => new.published = x.listed[row.doc])
        /\ row.doc = None /\ Cardinality(Namesakes(p, i)) # 1 => new = row
        /\ row.doc = None /\ Cardinality(Namesakes(p, i)) = 1 =>
             new.doc \in Namesakes(p, i) /\ new.published = x.listed[new.doc]
    BY <1>1, <2>1, <2>2, ReconciledParts
  <2>4. new.doc # None /\ row.doc = None =>
          /\ new.doc \in Docs /\ Exists(new.doc)
          /\ Cardinality(Namesakes(p, i)) = 1
    BY <2>3 DEF Namesakes
  <2>5. PICK todo : todo = [x.todo EXCEPT ![i] = NoRow]
    OBVIOUS
  <2>6. /\ todo \in [Items -> Row \cup {NoRow}]
        /\ \A l \in Items : todo[l] = IF l = i THEN NoRow ELSE x.todo[l]
    BY <1>2, <2>5 DEF Memory
  <2>7. PICK y : y = [x EXCEPT !.todo = todo]
    OBVIOUS
  <2>8. /\ y.pc = "match" /\ y.item = x.item /\ y.row = x.row /\ y.hash = x.hash
        /\ y.version = x.version /\ y.doc = x.doc /\ y.todo = todo
        /\ y.listed = x.listed /\ y.alone = x.alone /\ y \in Memory
    BY <1>2, <2>6, <2>7 DEF Memory
  <2>9. Works(p, y) /\ \A q \in Processes \ {p} : ~me'[q].alone
    BY <1>6, <2>5, <2>7, <2>8, OneDisturbs
  <2>10. /\ IF new # row THEN Upsert(p, i, new) ELSE UNCHANGED <<rows, causes>>
         /\ \A l \in Items \ {i} : rows'[l] = rows[l]
         /\ new # row => rows'[i] = new
         /\ rows' \in [Items -> Row \cup {NoRow}]
         /\ causes' \in [Items -> SUBSET Causes]
         /\ Grows
         /\ new # row => (Contended(p, i) => Blamed(i)')
    <3>1. IF new # row THEN Upsert(p, i, new) ELSE UNCHANGED <<rows, causes>>
      BY <1>6, <2>1
    <3>2. CASE new # row
      BY <1>4, <2>3, <3>1, <3>2, UpsertNext
    <3>3. CASE new = row
      BY <1>4, <3>1, <3>3 DEF TypeOK, Grows
    <3>4. QED
      BY <3>1, <3>2, <3>3
  <2>11. TypeOK'
    BY <1>4, <2>9, <2>10 DEF TypeOK, Works
  <2>12. Fresh(i, row.doc)
    BY <1>2, <1>6, <2>1 DEF Fits, RowFits
  <2>13. ASSUME x.alone PROVE Agreed(i)'
    <3>1. /\ rows[i] = row
          /\ \A d \in Docs : x.listed[d] = IF Exists(d) THEN docs[d].published ELSE "absent"
      BY <1>2, <1>6, <2>1, <2>13 DEF Fits, AloneFits
    <3>2. rows'[i] = new
      BY <2>10, <3>1
    <3>3. \A d \in Docs : Exists(d) => docs[d].published # "absent"
      BY DocumentParts DEF Flags
    <3>4. \A d \in Docs : /\ Listed(p, d) <=> Exists(d)
                          /\ Exists(d) => x.listed[d] = docs[d].published
      BY <1>1, <3>1, <3>3 DEF Listed
    <3>5. Namesakes(p, i) = {d \in Docs : Exists(d) /\ Title(d) = Name[i]}
      BY <3>4 DEF Namesakes
    <3>6. new.doc = None => Cardinality({d \in Docs : Exists(d) /\ Title(d) = Name[i]}) # 1
      BY <2>3, <3>5 DEF Namesakes, Docs, None
    <3>7. new.doc # None /\ Exists(new.doc) => new.published = docs[new.doc].published
      <4>1. CASE row.doc = None
        BY <2>3, <2>4, <3>4, <4>1
      <4>2. CASE row.doc # None
        <5>1. row.doc \in Docs
          BY <2>2, <4>2 DEF Row
        <5>2. QED
          BY <2>3, <3>4, <4>2, <5>1
      <4>3. QED
        BY <4>1, <4>2
    <3>8. QED
      BY <1>4, <3>2, <3>6, <3>7, AgreedNext
  <2>14. Fits(y)'
    <3>1. PlaceFits(y)'
      BY <2>8 DEF PlaceFits, Passing
    <3>2. NamesReal(y)'
      BY <1>2, <1>4, <2>6, <2>8, BlankRow DEF Fits, NamesReal, Real
    <3>3. TextFits(y)'
      <4>1. \A l \in Items : x.todo[l] \in Row \cup {NoRow} /\ Backed(l, x.todo[l])
        BY <1>2, MemoryParts DEF Fits, TextFits
      <4>2. \A l \in Items : Backed(l, x.todo[l])'
        BY <2>10, <4>1, TextLater
      <4>3. \A l \in Items : Backed(l, y.todo[l])'
        BY <2>6, <2>8, <4>2, BlankRow DEF Backed
      <4>4. QED
        BY <2>8, <4>3 DEF TextFits, Passing
    <3>4. RowFits(y)'
      <4>1. \A l \in Items \ {i} : x.todo[l] # NoRow => Fresh(l, x.todo[l].doc)'
        BY <1>2, <2>10, TextLater DEF Fits, RowFits, Fresh
      <4>2. QED
        BY <2>6, <2>8, <4>1 DEF RowFits, Passing
    <3>5. AloneFits(y)'
      <4> SUFFICES ASSUME x.alone PROVE AloneFits(y)'
        BY <2>8 DEF AloneFits
      <4>1. /\ \A d \in Docs : x.listed[d] = IF Exists(d) THEN docs[d].published ELSE "absent"
            /\ \A l \in Items : IF x.todo[l] = NoRow THEN Agreed(l) ELSE x.todo[l] = rows[l]
        BY <1>2 DEF Fits, AloneFits
      <4>2. \A d \in Docs : y.listed[d] = IF Exists(d)' THEN docs'[d].published ELSE "absent"
        BY <1>4, <2>8, <4>1 DEF Exists
      <4>3. \A l \in Items \ {i} : Agreed(l) => Agreed(l)'
        BY <1>4, <2>10 DEF Agreed, Exists, Title
      <4>4. \A l \in Items : IF y.todo[l] = NoRow THEN Agreed(l)' ELSE y.todo[l] = rows'[l]
        BY <2>6, <2>8, <2>10, <2>13, <4>1, <4>3
      <4>5. QED
        BY <2>8, <4>2, <4>4 DEF AloneFits
    <3>6. QED
      BY <3>1, <3>2, <3>3, <3>4, <3>5 DEF Fits
  <2>15. Moved(p)
    BY <1>3, <2>9, <2>14 DEF Moved, Works
  <2>16. CASE new = row
    <3>1. UNCHANGED <<rows, causes>>
      BY <2>10, <2>16
    <3>2. QED
      BY <1>4, <2>9, <2>11, <2>15, <3>1, MemoryKeeps DEF Works
  <2>17. CASE new # row
    <3>1. Real(row.doc) /\ Backed(i, row)
      BY <1>2, <2>1 DEF Fits, NamesReal, TextFits
    <3>2. Real(new.doc)
      BY <2>3, <2>4, <3>1 DEF Real, Exists
    <3>3. Backed(i, new)
      <4>1. CASE row.doc = None
        BY <2>3, <3>1, <4>1 DEF Backed, Has
      <4>2. CASE row.doc # None
        BY <2>3, <3>1, <4>2 DEF Backed
      <4>3. QED
        BY <4>1, <4>2
    <3>4. \A d \in Docs : rows[i].doc = d => new.doc = d \/ Blamed(i)
      BY <2>3, <2>12 DEF Fresh, Docs, None
    <3>5. ASSUME i \in Repos, new.doc # None, docs[new.doc] # Deleted, docs[new.doc].for = i
          PROVE  new.doc = project[i] \/ Blamed(i)'
      <4>1. Blamed(i) => Blamed(i)'
        BY <2>10, TextLater
      <4>2. CASE row.doc # None
        <5>1. new.doc = row.doc /\ Bound(i)
          BY <2>3, <3>5, <4>2 DEF FilesInv
        <5>2. QED
          BY <2>12, <3>5, <4>1, <5>1 DEF Fresh, Bound
      <4>3. CASE row.doc = None
        <5>1. PICK d : d = new.doc
          OBVIOUS
        <5>2. d \in Docs /\ Exists(d) /\ Kept(d) /\ docs[d].for = i
          BY <2>4, <3>5, <4>3, <5>1 DEF FilesInv
        <5>3. rows[i].doc = d \/ Blamed(i) \/ \E q \in Processes : Brings(me[q], i, d)
          BY <5>2 DEF Kept
        <5>4. rows[i].doc = d => Blamed(i)
          BY <2>12, <4>3, <5>2 DEF Fresh, Docs, None
        <5>5. ASSUME NEW q \in Processes, Brings(me[q], i, d) PROVE Blamed(i)'
          <6>1. q # p /\ me[q].pc # "idle" /\ me[q].item = i
            BY <1>1, <1>2, <5>5 DEF Brings
          <6>2. Contended(p, i)
            BY <6>1 DEF Contended
          <6>3. QED
            BY <2>10, <2>17, <6>2
        <5>6. QED
          BY <4>1, <5>3, <5>4, <5>5
      <4>4. QED
        BY <4>2, <4>3
    <3>6. \A q \in Processes \ {p} : Like(me'[q], me[q]) /\ ~me'[q].alone
      BY <2>9 DEF Works
    <3>7. Upsert(p, i, new)
      BY <2>10, <2>17
    <3>8. QED
      BY <1>4, <2>3, <2>11, <2>15, <3>2, <3>3, <3>4, <3>5, <3>6, <3>7, UpsertKeeps
  <2>18. QED
    BY <2>16, <2>17
<1>7. QED
  BY <1>1, <1>5, <1>6 DEF Match

-----------------------------------------------------------------------------
(* A configuration is written, a row removed, a file edited.               *)

\* What the invariant says of the rows.
LEMMA RowsLater ==
  ASSUME TypeOK, FilesInv, Grows, NEW i \in Items, rows'[i] = rows[i] \/ rows'[i] = NoRow
  PROVE  Real(rows[i].doc)' /\ Backed(i, rows[i])'
<1>1. PICK row, d : row = rows'[i] /\ d = row.doc
  OBVIOUS
<1>2. /\ row \in Row \cup {NoRow} /\ d \in Docs \cup {None}
      /\ Real(d) /\ Backed(i, row)
  BY <1>1, RowParts, BlankRow DEF FilesInv, Real, Backed
<1>3. Real(d)' /\ Backed(i, row)'
  BY <1>2, TextLater
<1>4. QED
  BY <1>1, <1>3 DEF Real, Backed, Has

LEMMA TrackWritesKeeps ==
  ASSUME TypeOK, FilesInv, NEW p \in Processes, TrackWrites(p)
  PROVE  TypeOK' /\ FilesInv'
<1>1. PICK x, i : x = me[p] /\ i = x.item
  OBVIOUS
<1>2. x \in Memory /\ Fits(x) /\ x.pc = "track" /\ ~x.alone /\ i \in Items
  BY <1>1, MemoryFits DEF TrackWrites
<1>3. i \in Repos /\ x.doc \in Docs /\ Real(x.doc) /\ (project[i] = None \/ Blamed(i))
  BY <1>1, <1>2, MemoryParts DEF Fits, PlaceFits, NamesReal, RowFits
<1>4. project' = [project EXCEPT ![i] = x.doc]
      /\ UNCHANGED <<rows, docs, content, commands, edits, faults>>
  BY <1>1 DEF TrackWrites, counters
<1>5. project'[i] = x.doc /\ \A r \in Repos \ {i} : project'[r] = project[r]
  BY <1>3, <1>4 DEF TypeOK
<1>6. /\ causes' \in [Items -> SUBSET Causes]
      /\ \A l \in Items : causes[l] \subseteq causes'[l]
      /\ Contended(p, i) => Blamed(i)'
  BY <1>1, <1>2, HappensNext DEF TrackWrites, Causes
<1>7. Grows
  BY <1>4, <1>6 DEF Grows
<1>8. PICK y : y = [x EXCEPT !.pc = "bind"]
  OBVIOUS
<1>9. /\ y.pc = "bind" /\ y.item = i /\ y.row = x.row /\ y.hash = x.hash
      /\ y.version = x.version /\ y.doc = x.doc /\ y.todo = x.todo /\ y.alone = x.alone
      /\ y \in Memory
  BY <1>1, <1>2, <1>8 DEF Memory, PC
<1>10. Works(p, y) /\ \A q \in Processes \ {p} : me'[q] = me[q]
  BY <1>1, <1>8, <1>9, OneMoves DEF TrackWrites, Goto
<1>11. TypeOK'
  BY <1>3, <1>4, <1>6, <1>10 DEF TypeOK, Works
<1>12. \A d \in Docs : SameFace(d)
  BY <1>4 DEF SameFace, Exists
<1>13. Fits(y)'
  <2>1. PlaceFits(y)'
    BY <1>2, <1>3, <1>9 DEF PlaceFits, Passing, Docs, None
  <2>2. NamesReal(y)'
    BY <1>2, <1>4, <1>9 DEF Fits, NamesReal, Real
  <2>3. TextFits(y)'
    <3>1. \A l \in Items : x.todo[l] \in Row \cup {NoRow} /\ Backed(l, x.todo[l])
      BY <1>2, MemoryParts DEF Fits, TextFits
    <3>2. \A l \in Items : Backed(l, x.todo[l])'
      BY <1>7, <3>1, TextLater
    <3>3. QED
      BY <1>9, <3>2 DEF TextFits, Passing
  <2>4. RowFits(y)'
    <3>1. \A l \in Items : x.todo[l] # NoRow => Fresh(l, x.todo[l].doc)'
      BY <1>2, <1>4, <1>7, TextLater DEF Fits, RowFits, Fresh
    <3>2. QED
      BY <1>5, <1>9, <3>1 DEF RowFits, Passing
  <2>5. AloneFits(y)'
    BY <1>2, <1>9 DEF AloneFits
  <2>6. QED
    BY <2>1, <2>2, <2>3, <2>4, <2>5 DEF Fits
<1>14. Lets(y, x)
  BY <1>1, <1>2, <1>9 DEF Lets, Brings
<1>15. Moved(p)
  BY <1>1, <1>10, <1>13, <1>14 DEF Moved, Works
<1>16. ASSUME NEW q \in Processes PROVE \E m : m = me'[q] /\ Fits(m)'
  <2>1. CASE q = p
    BY <1>15, <2>1 DEF Moved
  <2>2. CASE q # p
    <3>1. PICK z : z = me[q]
      OBVIOUS
    <3>2. z \in Memory /\ Fits(z) /\ Like(z, z) /\ z = me'[q]
      BY <1>10, <2>2, <3>1 DEF TypeOK, FilesInv, Like
    <3>3. z.pc \in {"track", "bind"} =>
            project'[z.item] = project[z.item] \/ Blamed(z.item)'
      <4> SUFFICES ASSUME z.pc \in {"track", "bind"}
                   PROVE  project'[z.item] = project[z.item] \/ Blamed(z.item)'
        OBVIOUS
      <4>1. z.item \in Repos
        BY <3>2 DEF Fits, PlaceFits
      <4>2. z.item = i => Contended(p, i)
        BY <2>2, <3>1 DEF Contended
      <4>3. QED
        BY <1>5, <1>6, <4>1, <4>2
    <3>4. Fits(z)'
      BY <1>4, <1>7, <1>12, <3>2, <3>3, OtherFits
    <3>5. QED
      BY <3>2, <3>4
  <2>3. QED
    BY <2>1, <2>2
<1>17. \A q \in Processes : Fits(me[q])'
  BY <1>16, AllFit
<1>18. \A l \in Items : Real(rows[l].doc)' /\ Backed(l, rows[l])'
  BY <1>4, <1>7, RowsLater
<1>19. ASSUME NEW r \in Repos PROVE Real(project[r])' /\ Bound(r)'
  <2>1. r \in Items /\ Real(project[r]) /\ Bound(r) /\ Real(rows[r].doc)
    BY RowParts DEF FilesInv
  <2>2. Real(project[r])'
    BY <1>3, <1>4, <1>5, <2>1 DEF Real
  <2>3. Blamed(r) => Blamed(r)'
    BY <1>7, <2>1, TextLater
  <2>4. project'[r] = project[r] \/ project[r] = None \/ Blamed(r)'
    BY <1>3, <1>5, <2>3
  <2>5. QED
    BY <1>4, <1>7, <2>1, <2>2, <2>4, BoundLater
<1>20. ASSUME NEW d \in Docs PROVE Kept(d)'
  <2>1. CASE docs[d] # NoDoc
    <3>1. \A q \in Processes : Like(me'[q], me[q]) \/ Moved(q)
      BY <1>10, <1>15 DEF Works
    <3>2. QED
      BY <1>4, <1>7, <2>1, <3>1, KeptLater DEF FilesInv
  <2>2. CASE docs[d] = NoDoc
    BY <1>4, <2>2 DEF Kept, Exists
  <2>3. QED
    BY <2>1, <2>2
<1>21. QED
  BY <1>11, <1>17, <1>18, <1>19, <1>20 DEF FilesInv

LEMMA RmKeeps ==
  ASSUME TypeOK, FilesInv, NEW i \in Items, Rm(i)
  PROVE  TypeOK' /\ FilesInv'
<1>1. rows' = [rows EXCEPT ![i] = NoRow] /\ commands' \in Nat
      /\ UNCHANGED <<project, docs, content, edits, faults>>
  BY DEF Rm, TypeOK
<1>2. rows'[i] = NoRow /\ \A l \in Items \ {i} : rows'[l] = rows[l]
  BY <1>1 DEF TypeOK
<1>3. /\ causes' \in [Items -> SUBSET Causes]
      /\ \A l \in Items : causes[l] \subseteq causes'[l]
      /\ Blamed(i)'
  BY HappensNext DEF Rm, Causes
<1>4. Grows
  BY <1>1, <1>3 DEF Grows
<1>5. /\ me' \in [Processes -> Memory]
      /\ \A q \in Processes : Like(me'[q], me[q]) /\ ~me'[q].alone
  BY AllDisturbed DEF Rm
<1>6. TypeOK'
  BY <1>1, <1>3, <1>5 DEF TypeOK
<1>7. ASSUME NEW q \in Processes PROVE \E m : m = me'[q] /\ Fits(m)'
  <2>1. PICK x, y : x = me[q] /\ y = me'[q]
    OBVIOUS
  <2>2. x \in Memory /\ Fits(x) /\ Like(y, x) /\ ~y.alone
    BY <1>5, <2>1 DEF TypeOK, FilesInv
  <2>3. Fits(y)'
    BY <1>1, <1>2, <1>3, <1>4, <2>2, OtherFits
  <2>4. QED
    BY <2>1, <2>3
<1>8. \A q \in Processes : Fits(me[q])'
  BY <1>7, AllFit
<1>9. \A l \in Items : Real(rows[l].doc)' /\ Backed(l, rows[l])'
  BY <1>2, <1>4, RowsLater
<1>10. ASSUME NEW r \in Repos PROVE Real(project[r])' /\ Bound(r)'
  <2>1. r \in Items /\ Real(project[r]) /\ Bound(r) /\ Real(rows[r].doc)
    BY RowParts DEF FilesInv
  <2>2. Real(project[r])'
    BY <1>1, <2>1 DEF Real
  <2>3. CASE r = i
    BY <1>2, <2>2, <2>3, BlankRow DEF Bound
  <2>4. CASE r # i
    BY <1>1, <1>2, <1>4, <2>1, <2>2, <2>4, BoundLater
  <2>5. QED
    BY <2>3, <2>4
<1>11. ASSUME NEW d \in Docs PROVE Kept(d)'
  <2>1. CASE docs[d] # NoDoc
    BY <1>2, <1>3, <1>4, <1>5, <2>1, KeptLater DEF FilesInv
  <2>2. CASE docs[d] = NoDoc
    BY <1>1, <2>2 DEF Kept, Exists
  <2>3. QED
    BY <2>1, <2>2
<1>12. QED
  BY <1>6, <1>8, <1>9, <1>10, <1>11 DEF FilesInv

LEMMA EditKeeps ==
  ASSUME TypeOK, FilesInv, NEW f \in Files, Edit(f)
  PROVE  TypeOK' /\ FilesInv'
<1>1. content' = [content EXCEPT ![f] = 3 - @] /\ edits' \in Nat
      /\ UNCHANGED <<rows, project, docs, me, causes, commands, faults>>
  BY DEF Edit, TypeOK
<1>2. f \in Items /\ content[f] \in Versions
  BY RowParts
<1>3. 3 - content[f] \in Versions
  BY <1>2 DEF Versions
<1>6. Grows
  BY <1>1 DEF Grows
<1>7. TypeOK'
  BY <1>1, <1>3 DEF TypeOK
<1>8. \A d \in Docs : SameFace(d)
  BY <1>1 DEF SameFace, Exists
<1>9. ASSUME NEW q \in Processes PROVE \E m : m = me'[q] /\ Fits(m)'
  <2>1. PICK x : x = me[q]
    OBVIOUS
  <2>2. x \in Memory /\ Fits(x) /\ Like(x, x) /\ x = me'[q]
    BY <1>1, <2>1 DEF TypeOK, FilesInv, Like
  <2>3. Fits(x)'
    BY <1>1, <1>6, <1>8, <2>2, OtherFits
  <2>4. QED
    BY <2>2, <2>3
<1>10. \A q \in Processes : Fits(me[q])'
  BY <1>9, AllFit
<1>11. \A l \in Items : Real(rows[l].doc)' /\ Backed(l, rows[l])'
  BY <1>1, <1>6, RowsLater
<1>12. ASSUME NEW r \in Repos PROVE Real(project[r])' /\ Bound(r)'
  <2>1. r \in Items /\ Real(project[r]) /\ Bound(r) /\ Real(rows[r].doc)
    BY RowParts DEF FilesInv
  <2>2. Real(project[r])'
    BY <1>1, <2>1 DEF Real
  <2>3. QED
    BY <1>1, <1>6, <2>1, <2>2, BoundLater
<1>13. ASSUME NEW d \in Docs PROVE Kept(d)'
  <2>1. CASE docs[d] # NoDoc
    <3>1. \A q \in Processes : Like(me'[q], me[q])
      BY <1>1 DEF Like
    <3>2. QED
      BY <1>1, <1>6, <2>1, <3>1, KeptLater DEF FilesInv
  <2>2. CASE docs[d] = NoDoc
    BY <1>1, <2>2 DEF Kept, Exists
  <2>3. QED
    BY <2>1, <2>2
<1>14. QED
  BY <1>7, <1>10, <1>11, <1>12, <1>13 DEF FilesInv

-----------------------------------------------------------------------------
(* The files' side as a whole.                                             *)

LEMMA FilesRest ==
  ASSUME TypeOK, FilesInv, UNCHANGED vars
  PROVE  TypeOK' /\ FilesInv'
<1>1. UNCHANGED <<rows, project, docs, content, me, causes, commands, edits, faults>>
  BY DEF vars
<1>2. TypeOK'
  BY <1>1 DEF TypeOK
<1>3. Grows /\ \A d \in Docs : SameFace(d)
  BY <1>1 DEF Grows, SameFace, Exists
<1>4. \A q \in Processes : Like(me'[q], me[q])
  BY <1>1 DEF Like
<1>5. \A d \in Docs : docs'[d] = docs[d]
  BY <1>1
<1>6. QED
  BY <1>1, <1>2, <1>3, <1>4, <1>5, WorldKeeps

LEMMA FilesInitially == Init => TypeOK /\ FilesInv
<1> SUFFICES ASSUME Init PROVE TypeOK /\ FilesInv
  OBVIOUS
<1>1. TypeOK
  BY IdleIsBlank DEF Init, TypeOK, Versions
<1>2. \A p \in Processes : Fits(me[p])
  BY IdleFits DEF Init
<1>3. \A i \in Items : rows[i] = NoRow
  BY DEF Init
<1>4. \A i \in Items : Real(rows[i].doc) /\ Backed(i, rows[i])
  BY <1>3, BlankRow DEF Real, Backed
<1>5. \A r \in Repos : Real(project[r]) /\ Bound(r)
  <2>1. \A r \in Repos : project[r] = None /\ rows[r].doc = None
    BY <1>3, RowParts, <1>1, BlankRow DEF Init
  <2>2. QED
    BY <2>1 DEF Real, Bound
<1>6. \A d \in Docs : Kept(d)
  BY DEF Init, Kept, Exists
<1>7. QED
  BY <1>1, <1>2, <1>4, <1>5, <1>6 DEF FilesInv

LEMMA FilesNextKeeps ==
  ASSUME TypeOK, FilesInv, Next
  PROVE  TypeOK' /\ FilesInv'
<1>1. ASSUME NEW p \in Processes, Begins(p) PROVE TypeOK' /\ FilesInv'
  BY <1>1, AddKeeps, PublishKeeps, TrackKeeps, FinalizeKeeps, SyncKeeps, ReconcileKeeps
     DEF Begins
<1>2. ASSUME NEW p \in Processes, Proceeds(p) PROVE TypeOK' /\ FilesInv'
  BY <1>2, AddCreateKeeps, AddInsertKeeps, TrackWritesKeeps, BindKeeps, ChooseKeeps,
     ReadKeeps, SyncCreateKeeps, ProcessKeeps, WaitKeeps, StoreKeeps, FlagKeeps, NoteKeeps,
     ListKeeps, MatchKeeps DEF Proceeds
<1>3. QED
  BY <1>1, <1>2, CrashKeeps, RmKeeps, EditKeeps, ChangedElsewhereKeeps
     DEF Next

LEMMA GivenHolds ==
  ASSUME TypeOK, FilesInv
  PROVE  FilesAreGiven
<1> SUFFICES ASSUME NEW f \in Files, rows[f].steady, rows[f].hash = content[f]
             PROVE  /\ rows[f].doc # None
                    /\ \/ docs[rows[f].doc] = Deleted
                       \/ [file |-> f, version |-> content[f]] \in docs[rows[f].doc].given
  BY DEF FilesAreGiven
<1>1. f \in Items
  BY RowParts
<1>2. Backed(f, rows[f])
  BY <1>1 DEF FilesInv
<1>3. QED
  BY <1>1, <1>2 DEF Backed, Has

LEMMA NoStrayHolds ==
  ASSUME TypeOK, FilesInv
  PROVE  NoStrayDocument
<1> SUFFICES ASSUME NEW d \in Docs, Exists(d)
             PROVE  \/ \E i \in Items : rows[i].doc = d
                    \/ \E p \in Processes : me[p].doc = d
                    \/ causes[docs[d].for] # {}
  BY DEF NoStrayDocument
<1>1. docs[d].for \in Items
  BY DocumentParts
<1>2. Kept(d)
  BY DEF FilesInv
<1>3. QED
  BY <1>1, <1>2 DEF Kept, Brings, Blamed

LEMMA AgreesHolds ==
  ASSUME TypeOK, FilesInv
  PROVE  ReconcileAgrees
<1> SUFFICES ASSUME NEW p \in Processes, me[p].pc = "match", me[p].todo = NoRows, me[p].alone,
                    NEW i \in Items
             PROVE  Agreed(i)
  BY DEF ReconcileAgrees
<1>1. me[p].todo[i] = NoRow
  BY DEF NoRows
<1>2. AloneFits(me[p])
  BY DEF FilesInv, Fits
<1>3. QED
  BY <1>1, <1>2 DEF AloneFits

-----------------------------------------------------------------------------
(* The managed Core.                                                       *)

LEMMA CoreIdleIsBlank ==
  /\ Core!Idle \in Core!Memory
  /\ Core!Idle.pc = "idle" /\ ~Core!Idle.alone
BY DEF Core!Idle, Core!Memory, Core!PC, Core!NoConfig, Core!NoProfiles, Core!Bases,
       Core!Modes

\* One process moves, and no other notices.
LEMMA CoreOneMoves ==
  ASSUME Core!TypeOK, NEW p \in Processes, NEW m \in Core!Memory, Core!Set(p, m)
  PROVE  /\ me' \in [Processes -> Core!Memory]
         /\ me'[p] = m
         /\ \A q \in Processes \ {p} : me'[q] = me[q]
BY DEF Core!Set, Core!TypeOK

\* What a moving process leaves of another one that it disturbs.
Shaken(m, x) ==
  /\ m.pc = x.pc /\ m.config = x.config /\ m.profiles = x.profiles
  /\ m.base = x.base /\ m.caps = x.caps /\ ~m.alone

LEMMA Shakes ==
  ASSUME NEW x \in Core!Memory
  PROVE  [x EXCEPT !.alone = FALSE] \in Core!Memory /\ Shaken([x EXCEPT !.alone = FALSE], x)
<1>1. PICK m : m = [x EXCEPT !.alone = FALSE]
  OBVIOUS
<1>2. m.pc = x.pc /\ m.config = x.config /\ m.profiles = x.profiles
      /\ m.base = x.base /\ m.caps = x.caps /\ m.alone = FALSE /\ m \in Core!Memory
  BY <1>1 DEF Core!Memory
<1>3. QED
  BY <1>1, <1>2 DEF Shaken

LEMMA CoreOneDisturbs ==
  ASSUME Core!TypeOK, NEW p \in Processes, NEW m \in Core!Memory, Core!Disturbs(p, m)
  PROVE  /\ me' \in [Processes -> Core!Memory]
         /\ me'[p] = m
         /\ \A q \in Processes \ {p} : Shaken(me'[q], me[q])
<1>1. \A q \in Processes : me[q] \in Core!Memory
  BY DEF Core!TypeOK
<1>2. \A q \in Processes : [me[q] EXCEPT !.alone = FALSE] \in Core!Memory
                           /\ Shaken([me[q] EXCEPT !.alone = FALSE], me[q])
  BY <1>1, Shakes
<1>3. \A q \in Processes : me'[q] = IF q = p THEN m ELSE [me[q] EXCEPT !.alone = FALSE]
  BY DEF Core!Disturbs
<1>4. me' \in [Processes -> Core!Memory]
  BY <1>2 DEF Core!Disturbs
<1>5. QED
  BY <1>2, <1>3, <1>4

LEMMA CoreOneBegins ==
  ASSUME Core!TypeOK, NEW p \in Processes, NEW m \in Core!Memory, Core!Begin(p, m)
  PROVE  /\ me[p].pc = "idle" /\ commands' \in Nat
         /\ me' \in [Processes -> Core!Memory]
         /\ \A q \in Processes \ {p} : me'[q] = me[q]
         /\ me'[p].pc = m.pc /\ me'[p].config = m.config /\ me'[p].profiles = m.profiles
         /\ me'[p].caps = m.caps /\ me'[p].alone = m.alone
<1>1. Core!Resolved \in Core!Bases
  BY DEF Core!Resolved, Core!TypeOK, Core!Profiles, Core!Bases
<1>2. PICK x : x = [m EXCEPT !.base = Core!Resolved]
  OBVIOUS
<1>3. x \in Core!Memory /\ x.pc = m.pc /\ x.config = m.config /\ x.profiles = m.profiles
      /\ x.caps = m.caps /\ x.alone = m.alone
  BY <1>1, <1>2 DEF Core!Memory
<1>4. Core!Set(p, x)
  BY <1>2 DEF Core!Begin
<1>5. me[p].pc = "idle" /\ commands' \in Nat
  BY DEF Core!Begin, Core!TypeOK
<1>6. QED
  BY <1>3, <1>4, <1>5, CoreOneMoves

-----------------------------------------------------------------------------
(* What a step leaves as it was.                                           *)

\* No container is started: whoever serves a base served it before.
Narrower == \A base \in Core!Bases : Core!Served(base)' \subseteq Core!Served(base)

\* Every process fits if the one that moves does, and the others.
LEMMA CoreAllFit ==
  ASSUME \A q \in Processes : \E m : m = me'[q] /\ Core!Fits(m)'
  PROVE  (\A q \in Processes : Core!Fits(me[q]))'
<1> SUFFICES ASSUME NEW q \in Processes PROVE Core!Fits(me[q])'
  OBVIOUS
<1>1. PICK m : m = me'[q] /\ Core!Fits(m)'
  OBVIOUS
<1>2. QED
  BY <1>1
     DEF Core!Fits, Core!UpFits, Core!ToldFits, Core!Made, Core!Served, Core!Running,
         Core!Sound, Core!Holding

\* A process that does not move fits while what it relies on stays.
LEMMA RestFits ==
  ASSUME NEW x \in Core!Memory, Core!Fits(x), UNCHANGED <<saved, profiles>>,
         \A n \in Names : Core!Running(n) => containers'[n] = containers[n],
         saved.name \in Names,
         causes' = {} => causes = {} /\ (x.pc = "store" => Narrower)
  PROVE  Core!Fits(x)'
<1>1. x.base \in Core!Bases
  BY DEF Core!Memory
<1>2. Core!UpFits(x)'
  BY DEF Core!Fits, Core!UpFits, Core!Made, Core!Running
<1>3. Core!ToldFits(x)'
  BY <1>1 DEF Core!Fits, Core!ToldFits, Narrower
<1>4. QED
  BY <1>2, <1>3 DEF Core!Fits, Core!Sound, Core!Holding

\* One that is disturbed does not count on anything but what it was told.
LEMMA ShakenFits ==
  ASSUME NEW x \in Core!Memory, NEW m, Shaken(m, x), Core!Fits(x),
         causes' = {} => causes = {} /\ (x.pc = "store" => Narrower)
  PROVE  Core!Fits(m)'
<1>1. x.base \in Core!Bases
  BY DEF Core!Memory
<1>2. QED
  BY <1>1
     DEF Shaken, Core!Fits, Core!UpFits, Core!ToldFits, Narrower, Core!Sound, Core!Holding

Busy == \E p \in Processes : me[p].pc \in Core!Updating

LEMMA CacheKept ==
  ASSUME Core!TypeOK, Core!CacheAgrees, cache' = cache \/ cache' = Core!NoCache,
         causes' = {} => causes = {},
         causes' = {} /\ cache' # Core!NoCache /\ ~Busy' => ~Busy /\ Narrower
  PROVE  Core!CacheAgrees'
<1> SUFFICES ASSUME cache' # Core!NoCache, causes' = {}, ~Busy'
             PROVE  Core!Served(cache.base)' \subseteq {cache'.auth}
  BY DEF Core!CacheAgrees, Busy
<1>1. cache \in [base : Core!Bases, auth : Core!Modes]
  BY DEF Core!TypeOK
<1>2. PICK base : base = cache.base
  OBVIOUS
<1>3. base \in Core!Bases /\ base = cache'.base
  BY <1>1, <1>2
<1>4. Core!Served(base) \subseteq {cache.auth}
  BY <1>2 DEF Core!CacheAgrees, Busy
<1>5. Core!Served(base)' \subseteq {cache.auth}
  BY <1>3, <1>4 DEF Narrower
<1>6. QED
  BY <1>3, <1>5 DEF Core!Served, Core!Running

\* While every container that runs was running before, as it is, no base is
\* served by another one.
LEMMA Shrinks ==
  ASSUME Core!OnePerPort, \A n \in Names : Core!Running(n)' => containers'[n] = containers[n]
  PROVE  Narrower /\ Core!OnePerPort'
BY DEF Narrower, Core!OnePerPort, Core!Running, Core!Served

\* A step that changes nothing but the memory of one process, or clears the cache.
LEMMA Quiet ==
  ASSUME Core!TypeOK, Core!CoreInv, NEW p \in Processes, NEW m, me'[p] = m, Core!Fits(m),
         \A q \in Processes \ {p} : me'[q] = me[q],
         UNCHANGED <<saved, containers, profiles, causes>>,
         cache' = cache \/ cache' = Core!NoCache,
         me[p].pc \in Core!Updating => m.pc \in Core!Updating \/ cache' = Core!NoCache
  PROVE  Core!CoreInv'
<1>1. Narrower /\ Core!OnePerPort'
  BY Shrinks DEF Core!CoreInv
<1>2. Core!Sound(saved)'
  BY DEF Core!CoreInv, Core!Sound
<1>3. ASSUME NEW q \in Processes PROVE \E x : x = me'[q] /\ Core!Fits(x)'
  <2>1. PICK x : x = me'[q]
    OBVIOUS
  <2>2. Core!Fits(x)
    BY <2>1 DEF Core!CoreInv
  <2>3. Core!Fits(x)'
    BY <2>2
       DEF Core!Fits, Core!UpFits, Core!ToldFits, Core!Made, Core!Served, Core!Running,
           Core!Sound, Core!Holding
  <2>4. QED
    BY <2>1, <2>3
<1>4. Core!CacheAgrees'
  BY <1>1, CacheKept DEF Busy, Core!CoreInv
<1>5. QED
  BY <1>1, <1>2, <1>3, <1>4, CoreAllFit DEF Core!CoreInv

-----------------------------------------------------------------------------
(* The actions that change the memory of one process only.                 *)

LEMMA NormalSound ==
  ASSUME NEW config \in Core!Config, NEW k \in Core!Keys, NEW v \in 0..2
  PROVE  /\ Core!Normal([config.own EXCEPT ![k] = v]) \in Core!Settings
         /\ \A l \in Core!Always : Core!Normal([config.own EXCEPT ![k] = v])[l] # 0
<1>1. PICK own : own = [config.own EXCEPT ![k] = v]
  OBVIOUS
<1>2. own \in Core!Settings
  BY <1>1 DEF Core!Config, Core!Settings
<1>3. Core!Always \subseteq Core!Keys
  BY DEF Core!Always, Core!Keys
<1>4. QED
  BY <1>1, <1>2, <1>3 DEF Core!Normal, Core!Default, Core!Settings

LEMMA OverridesSound ==
  ASSUME Core!TypeOK, Core!CoreInv, NEW config \in Core!Overrides(saved)
  PROVE  config \in Core!Config /\ Core!Sound(config)
<1>1. saved \in Core!Config /\ Core!Sound(saved)
  BY DEF Core!TypeOK, Core!CoreInv
<1>2. ASSUME NEW k \in Core!Keys, NEW v \in 0..2, config = Core!WithOwn(saved, k, v)
      PROVE  config \in Core!Config /\ Core!Sound(config)
  <2> DEFINE own == Core!Normal([saved.own EXCEPT ![k] = v])
  <2>1. own \in Core!Settings /\ \A l \in Core!Always : own[l] # 0
    BY <1>1, NormalSound
  <2>2. config = [saved EXCEPT !.own = own]
    BY <1>2 DEF Core!WithOwn
  <2> HIDE DEF own
  <2>3. QED
    BY <1>1, <2>1, <2>2 DEF Core!Config, Core!Sound
<1>3. ASSUME NEW k \in Core!Keys, NEW v \in 0..2, config = Core!WithExtra(saved, k, v)
      PROVE  config \in Core!Config /\ Core!Sound(config)
  <2> DEFINE extra == [saved.extra EXCEPT ![k] = v]
  <2>1. extra \in Core!Settings
    BY <1>1 DEF Core!Config, Core!Settings
  <2>2. config = [saved EXCEPT !.extra = extra]
    BY <1>3 DEF Core!WithExtra
  <2> HIDE DEF extra
  <2>3. QED
    BY <1>1, <2>1, <2>2 DEF Core!Config, Core!Sound
<1>4. Core!Own \subseteq Core!Keys /\ Core!Always \subseteq Core!Keys /\ "switch" \in Core!Keys
  BY DEF Core!Own, Core!Always, Core!Keys
<1>5. CASE \E port \in Ports : config = [saved EXCEPT !.port = port]
  BY <1>1, <1>5 DEF Core!Config, Core!Sound
<1>6. CASE \E n \in Names : config = [saved EXCEPT !.name = n]
  BY <1>1, <1>6 DEF Core!Config, Core!Sound
<1>7. CASE \E k \in Core!Keys, v \in 0..2 :
             config = Core!WithOwn(saved, k, v) \/ config = Core!WithExtra(saved, k, v)
  BY <1>2, <1>3, <1>7
<1>8. QED
  <2>1. \/ \E k \in Core!Keys, v \in 0..2 :
             config = Core!WithOwn(saved, k, v) \/ config = Core!WithExtra(saved, k, v)
        \/ \E port \in Ports : config = [saved EXCEPT !.port = port]
        \/ \E n \in Names : config = [saved EXCEPT !.name = n]
    BY <1>4 DEF Core!Overrides
  <2>2. QED
    BY <1>5, <1>6, <1>7, <2>1

\* A command begins with a fitting memory, and nothing else changes.
LEMMA BeginFits ==
  ASSUME Core!TypeOK, Core!CoreInv, NEW p \in Processes, NEW memory \in Core!Memory,
         Core!Begin(p, memory), Core!Fits(memory), memory.pc \notin {"store"},
         UNCHANGED <<Core!files, containers, causes, faults>>, sets' \in Nat
  PROVE  Core!TypeOK' /\ Core!CoreInv'
<1>1. /\ me[p].pc = "idle" /\ commands' \in Nat
      /\ me' \in [Processes -> Core!Memory]
      /\ \A q \in Processes \ {p} : me'[q] = me[q]
      /\ me'[p].pc = memory.pc /\ me'[p].config = memory.config
      /\ me'[p].profiles = memory.profiles
      /\ me'[p].caps = memory.caps /\ me'[p].alone = memory.alone
  BY CoreOneBegins
<1>2. PICK m : m = me'[p]
  OBVIOUS
<1>3. Core!Fits(m)
  BY <1>1, <1>2 DEF Core!Fits, Core!UpFits, Core!ToldFits
<1>4. Core!TypeOK'
  BY <1>1 DEF Core!TypeOK, Core!files
<1>5. Core!CoreInv'
  BY <1>1, <1>2, <1>3, Quiet DEF Core!files, Core!Updating
<1>6. QED
  BY <1>4, <1>5

LEMMA BeginsKeep ==
  ASSUME Core!TypeOK, Core!CoreInv, NEW p \in Processes, Core!Begins(p)
  PROVE  Core!TypeOK' /\ Core!CoreInv'
<1>0. PICK idle : idle = Core!Idle
  OBVIOUS
<1>1. /\ idle \in Core!Memory /\ idle.pc = "idle" /\ ~idle.alone
      /\ saved \in Core!Config /\ Core!Sound(saved) /\ profiles \in Core!Profiles
  BY <1>0, CoreIdleIsBlank DEF Core!TypeOK, Core!CoreInv
<1>2. CASE Core!ConfigSet(p)
  <2>1. PICK config \in Core!Overrides(saved) \ {saved} :
             Core!Begin(p, [idle EXCEPT !.pc = "set", !.config = config])
    BY <1>0, <1>2 DEF Core!ConfigSet
  <2>2. config \in Core!Config /\ Core!Sound(config)
    BY <2>1, OverridesSound
  <2>3. PICK m : m = [idle EXCEPT !.pc = "set", !.config = config]
    OBVIOUS
  <2>4. m \in Core!Memory /\ m.pc = "set" /\ m.config = config /\ ~m.alone
    BY <1>1, <2>2, <2>3 DEF Core!Memory, Core!PC
  <2>5. Core!Fits(m)
    BY <2>2, <2>4 DEF Core!Fits, Core!UpFits, Core!ToldFits
  <2>6. UNCHANGED <<Core!files, containers, causes, faults>> /\ sets' \in Nat
    BY <1>2 DEF Core!ConfigSet, Core!TypeOK
  <2>7. QED
    BY <2>1, <2>3, <2>4, <2>5, <2>6, BeginFits
<1>3. CASE Core!Up(p) \/ Core!Demo(p)
  <2>1. PICK m : /\ Core!Begin(p, m)
                 /\ \/ m = [idle EXCEPT !.pc = "remove", !.config = saved, !.alone = TRUE]
                    \/ m = [idle EXCEPT !.pc = "clear", !.config = saved, !.alone = FALSE]
    <3>1. CASE Core!Up(p)
      BY <1>0, <3>1 DEF Core!Up
    <3>2. CASE Core!Demo(p) /\ Core!Running(saved.name)
      <4>1. [Core!Idle EXCEPT !.config = saved, !.alone = ~Core!Running(saved.name),
                !.pc = IF Core!Running(saved.name) THEN "clear" ELSE "remove"]
            = [idle EXCEPT !.pc = "clear", !.config = saved, !.alone = FALSE]
        BY <1>0, <1>1, <3>2 DEF Core!Memory
      <4>2. QED
        BY <3>2, <4>1 DEF Core!Demo
    <3>3. CASE Core!Demo(p) /\ ~Core!Running(saved.name)
      <4>1. [Core!Idle EXCEPT !.config = saved, !.alone = ~Core!Running(saved.name),
                !.pc = IF Core!Running(saved.name) THEN "clear" ELSE "remove"]
            = [idle EXCEPT !.pc = "remove", !.config = saved, !.alone = TRUE]
        BY <1>0, <1>1, <3>3 DEF Core!Memory
      <4>2. QED
        BY <3>3, <4>1 DEF Core!Demo
    <3>4. QED
      BY <1>3, <3>1, <3>2, <3>3
  <2>2. m \in Core!Memory /\ m.pc \in {"remove", "clear"} /\ m.config = saved
        /\ (m.alone => m.pc = "remove")
    BY <1>1, <2>1 DEF Core!Memory, Core!PC
  <2>3. Core!Fits(m)
    BY <1>1, <2>2 DEF Core!Fits, Core!UpFits, Core!ToldFits
  <2>4. UNCHANGED <<Core!files, containers, causes, faults>> /\ sets' \in Nat
    BY <1>3 DEF Core!Up, Core!Demo, Core!TypeOK
  <2>5. QED
    BY <2>1, <2>2, <2>3, <2>4, BeginFits
<1>4. CASE Core!Down(p)
  <2>1. PICK m : m = [idle EXCEPT !.pc = "down", !.config = saved] /\ Core!Begin(p, m)
    BY <1>0, <1>4 DEF Core!Down
  <2>2. m \in Core!Memory /\ m.pc = "down" /\ m.config = saved /\ ~m.alone
    BY <1>1, <2>1 DEF Core!Memory, Core!PC
  <2>3. Core!Fits(m)
    BY <1>1, <2>2 DEF Core!Fits, Core!UpFits, Core!ToldFits
  <2>4. UNCHANGED <<Core!files, containers, causes, faults>> /\ sets' \in Nat
    BY <1>4 DEF Core!Down, Core!TypeOK
  <2>5. QED
    BY <2>1, <2>2, <2>3, <2>4, BeginFits
<1>5. CASE Core!ProfileChange(p)
  <2>1. PICK changed, m : /\ changed \in Core!Profiles /\ Core!Begin(p, m)
                          /\ m = [idle EXCEPT !.pc = "use", !.profiles = changed]
    BY <1>0, <1>5 DEF Core!ProfileChange
  <2>2. m \in Core!Memory /\ m.pc = "use" /\ m.profiles = changed /\ ~m.alone
    BY <1>1, <2>1 DEF Core!Memory, Core!PC
  <2>3. Core!Fits(m)
    BY <2>1, <2>2 DEF Core!Fits, Core!UpFits, Core!ToldFits, Core!Holding
  <2>4. UNCHANGED <<Core!files, containers, causes, faults>> /\ sets' \in Nat
    BY <1>5 DEF Core!ProfileChange, Core!TypeOK
  <2>5. QED
    BY <2>1, <2>2, <2>3, <2>4, BeginFits
<1>6. CASE Core!Ask(p)
  <2>1. PICK m : /\ Core!Begin(p, m)
                 /\ \/ /\ Core!Hit(Core!Resolved)
                       /\ m = [idle EXCEPT !.pc = "login", !.caps = cache.auth]
                    \/ m = [idle EXCEPT !.pc = "fetch"]
    BY <1>0, <1>6 DEF Core!Ask
  <2>2. Core!Hit(Core!Resolved) => cache.auth \in Core!Modes
    <3>1. Core!Resolved \in Core!Bases
      BY <1>1 DEF Core!Resolved, Core!Profiles, Core!Bases
    <3>2. QED
      BY <3>1, CoreAssumptions
         DEF Core!Hit, Core!TypeOK, Core!NoCache, Core!Bases, Core!PortsAssumption
  <2>3. m \in Core!Memory /\ m.pc \in {"login", "fetch"} /\ ~m.alone
    BY <1>1, <2>1, <2>2 DEF Core!Memory, Core!PC
  <2>4. Core!Fits(m)
    BY <2>3 DEF Core!Fits, Core!UpFits, Core!ToldFits, Core!Holding
  <2>5. UNCHANGED <<Core!files, containers, causes, faults>> /\ sets' \in Nat
    BY <1>6 DEF Core!Ask, Core!TypeOK
  <2>6. QED
    BY <2>1, <2>3, <2>4, <2>5, BeginFits
<1>7. QED
  BY <1>2, <1>3, <1>4, <1>5, <1>6 DEF Core!Begins

\* A process that has ended fits.
LEMMA CoreIdleFits == Core!Fits(Core!Idle)
BY CoreIdleIsBlank DEF Core!Fits, Core!UpFits, Core!ToldFits, Core!Holding

\* A base is served in one mode.
LEMMA OneServes ==
  ASSUME Core!TypeOK, Core!CoreInv, NEW base \in Core!Bases,
         NEW a \in Core!Served(base), NEW b \in Core!Served(base)
  PROVE  a = b /\ a \in Core!Modes
<1>1. CASE base = "cloud"
  BY <1>1 DEF Core!Served, Core!Modes
<1>2. CASE base # "cloud"
  <2>1. PICK m \in Names : Core!Running(m) /\ containers[m].port = base
                                /\ a = Core!Mode(containers[m].env["auth"])
    BY <1>2 DEF Core!Served
  <2>2. PICK n \in Names : Core!Running(n) /\ containers[n].port = base
                                /\ b = Core!Mode(containers[n].env["auth"])
    BY <1>2 DEF Core!Served
  <2>3. m = n
    BY <2>1, <2>2 DEF Core!CoreInv, Core!OnePerPort
  <2>4. QED
    BY <2>1, <2>2, <2>3 DEF Core!Mode, Core!Modes
<1>3. QED
  BY <1>1, <1>2

\* A step that ends a command, or goes on to another place, and at most clears
\* the cache.
LEMMA QuietKeeps ==
  ASSUME Core!TypeOK, Core!CoreInv, NEW p \in Processes, NEW m \in Core!Memory,
         Core!Set(p, m), Core!Fits(m),
         UNCHANGED <<saved, containers, profiles, causes>>,
         cache' = cache \/ cache' = Core!NoCache, login' \in Core!Modes \cup {"none"},
         me[p].pc \in Core!Updating => m.pc \in Core!Updating \/ cache' = Core!NoCache,
         commands' \in Nat, sets' \in Nat, faults' \in Nat
  PROVE  Core!TypeOK' /\ Core!CoreInv'
<1>1. /\ me' \in [Processes -> Core!Memory] /\ me'[p] = m
      /\ \A q \in Processes \ {p} : me'[q] = me[q]
  BY CoreOneMoves
<1>2. Core!TypeOK'
  BY <1>1 DEF Core!TypeOK
<1>3. Core!CoreInv'
  BY <1>1, Quiet
<1>4. QED
  BY <1>2, <1>3

LEMMA QuietStepsKeep ==
  ASSUME Core!TypeOK, Core!CoreInv, NEW p \in Processes,
         \/ Core!DockerFails(p) \/ Core!Clear(p) \/ Core!Wait(p)
         \/ Core!Started(p) \/ Core!Fetch(p) \/ Core!Login(p)
  PROVE  Core!TypeOK' /\ Core!CoreInv'
<1>1. PICK x : x = me[p]
  OBVIOUS
<1>2. /\ x \in Core!Memory /\ Core!Fits(x)
      /\ Core!Idle \in Core!Memory /\ Core!Fits(Core!Idle) /\ Core!Idle.pc = "idle"
  BY <1>1, CoreIdleFits, CoreIdleIsBlank DEF Core!TypeOK, Core!CoreInv
<1>3. \A place \in Core!PC : [x EXCEPT !.pc = place] \in Core!Memory
  BY <1>2 DEF Core!Memory
<1>4. CASE Core!DockerFails(p)
  BY <1>1, <1>2, <1>4, QuietKeeps
     DEF Core!DockerFails, Core!Ends, Core!files, Core!Updating, Core!TypeOK
<1>5. CASE Core!Clear(p)
  <2>1. PICK m : m = [x EXCEPT !.pc = "wait"]
    OBVIOUS
  <2>2. m \in Core!Memory /\ m.pc = "wait" /\ m.config = x.config /\ m.alone = x.alone
    BY <1>2, <2>1 DEF Core!Memory, Core!PC
  <2>3. x.pc = "clear"
    BY <1>1, <1>5 DEF Core!Clear
  <2>4. Core!Fits(m)
    BY <1>2, <2>2, <2>3 DEF Core!Fits, Core!UpFits, Core!ToldFits, Core!Holding
  <2>5. QED
    BY <1>1, <1>5, <2>1, <2>2, <2>4, QuietKeeps
       DEF Core!Clear, Core!Goto, Core!Cleared, Core!counters, Core!TypeOK
<1>6. CASE Core!Wait(p)
  <2>1. PICK m : m = [x EXCEPT !.pc = "started"]
    OBVIOUS
  <2>2. m \in Core!Memory /\ m.pc = "started" /\ m.config = x.config /\ m.alone = x.alone
    BY <1>2, <2>1 DEF Core!Memory, Core!PC
  <2>3. x.pc = "wait"
    BY <1>1, <1>6 DEF Core!Wait
  <2>4. Core!Fits(m)
    BY <1>2, <2>2, <2>3 DEF Core!Fits, Core!UpFits, Core!ToldFits, Core!Holding
  <2>5. Core!Set(p, m) \/ Core!Set(p, Core!Idle)
    BY <1>1, <1>6, <2>1 DEF Core!Wait, Core!Goto, Core!Ends
  <2>6. QED
    BY <1>1, <1>2, <1>6, <2>2, <2>3, <2>4, <2>5, QuietKeeps
       DEF Core!Wait, Core!files, Core!counters, Core!TypeOK, Core!Updating
<1>7. CASE Core!Started(p)
  BY <1>1, <1>2, <1>7, QuietKeeps
     DEF Core!Started, Core!Ends, Core!files, Core!counters, Core!Updating, Core!TypeOK
<1>8. CASE Core!Fetch(p)
  <2>1. PICK m : /\ Core!Set(p, m)
                 /\ \/ m = [x EXCEPT !.pc = "login", !.caps = "accounts"]
                    \/ \E mode \in Core!Served(x.base) :
                         m = [x EXCEPT !.pc = "store", !.caps = mode]
    BY <1>1, <1>8 DEF Core!Fetch
  <2>2. x.pc = "fetch" /\ x.base \in Core!Bases /\ ~x.alone
    <3>1. x.pc = "fetch"
      BY <1>1, <1>8 DEF Core!Fetch
    <3>2. QED
      BY <1>2, <3>1 DEF Core!Fits, Core!UpFits, Core!Memory
  <2>3. m \in Core!Memory /\ m.pc \in {"login", "store"} /\ ~m.alone /\ m.base = x.base
        /\ (m.pc = "store" => m.caps \in Core!Served(x.base))
    <3>1. CASE m = [x EXCEPT !.pc = "login", !.caps = "accounts"]
      BY <1>2, <2>2, <3>1 DEF Core!Memory, Core!PC, Core!Modes
    <3>2. ASSUME NEW mode \in Core!Served(x.base), m = [x EXCEPT !.pc = "store", !.caps = mode]
          PROVE  m \in Core!Memory /\ m.pc = "store" /\ ~m.alone /\ m.base = x.base /\ m.caps = mode
      <4>1. mode \in Core!Modes
        BY <2>2, OneServes
      <4>2. QED
        BY <1>2, <2>2, <3>2, <4>1 DEF Core!Memory, Core!PC
    <3>3. QED
      BY <2>1, <3>1, <3>2
  <2>4. m.pc = "store" => Core!Served(m.base) \subseteq {m.caps}
    BY <2>2, <2>3, OneServes
  <2>5. Core!Fits(m)
    BY <2>3, <2>4 DEF Core!Fits, Core!UpFits, Core!ToldFits, Core!Holding
  <2>6. QED
    BY <1>1, <1>8, <2>1, <2>2, <2>3, <2>5, QuietKeeps
       DEF Core!Fetch, Core!files, Core!counters, Core!Updating, Core!TypeOK
<1>9. CASE Core!Login(p)
  <2>1. x.caps \in Core!Modes
    BY <1>2 DEF Core!Memory
  <2>2. QED
    BY <1>1, <1>2, <1>9, <2>1, QuietKeeps
       DEF Core!Login, Core!Ends, Core!Cleared, Core!counters, Core!Updating, Core!TypeOK
<1>10. QED
  BY <1>4, <1>5, <1>6, <1>7, <1>8, <1>9

-----------------------------------------------------------------------------
(* The actions that change what others rely on.                            *)

\* A step that disturbs whoever is in the middle of a `core up`.
LEMMA DisturbingKeeps ==
  ASSUME Core!TypeOK, Core!CoreInv, NEW p \in Processes, NEW m \in Core!Memory,
         Core!Disturbs(p, m), Core!Fits(m)',
         saved' \in Core!Config, containers' \in [Names -> Core!Container \cup {Core!Absent}],
         profiles' \in Core!Profiles, cache' = cache \/ cache' = Core!NoCache, login' = login,
         commands' \in Nat, sets' \in Nat, faults' \in Nat,
         causes' \subseteq {"overtaken", "cut"},
         Core!Sound(saved)', Core!OnePerPort',
         causes' = {} => causes = {} /\ (Narrower \/ ~Core!Overtaken),
         causes' = {} => Narrower \/ m.pc \in Core!Updating,
         me[p].pc \in Core!Updating => m.pc \in Core!Updating \/ cache' = Core!NoCache
  PROVE  Core!TypeOK' /\ Core!CoreInv'
<1>1. /\ me' \in [Processes -> Core!Memory] /\ me'[p] = m
      /\ \A q \in Processes \ {p} : Shaken(me'[q], me[q])
  BY CoreOneDisturbs
<1>2. Core!TypeOK'
  BY <1>1 DEF Core!TypeOK
<1>3. ASSUME NEW q \in Processes PROVE \E x : x = me'[q] /\ Core!Fits(x)'
  <2>1. CASE q = p
    BY <1>1, <2>1
  <2>2. CASE q # p
    <3>1. PICK x, y : x = me[q] /\ y = me'[q]
      OBVIOUS
    <3>2. x \in Core!Memory /\ Core!Fits(x) /\ Shaken(y, x)
      BY <1>1, <2>2, <3>1 DEF Core!TypeOK, Core!CoreInv
    <3>3. causes' = {} => causes = {} /\ (x.pc = "store" => Narrower)
      BY <3>1 DEF Core!Overtaken
    <3>4. QED
      BY <3>1, <3>2, <3>3, ShakenFits
  <2>3. QED
    BY <2>1, <2>2
<1>4. Core!CacheAgrees'
  <2>1. Core!CacheAgrees
    BY DEF Core!CoreInv
  <2>2. m.pc \in Core!Updating => Busy'
    BY <1>1 DEF Busy
  <2>3. Busy => Busy' \/ cache' = Core!NoCache
    BY <1>1, <2>2 DEF Busy, Shaken
  <2>4. QED
    BY <2>1, <2>2, <2>3, CacheKept
<1>5. QED
  BY <1>2, <1>3, <1>4, CoreAllFit DEF Core!CoreInv

\* One that nobody in the middle of a `core up` has to notice.
LEMMA SettingKeeps ==
  ASSUME Core!TypeOK, Core!CoreInv, NEW p \in Processes, NEW m \in Core!Memory,
         Core!Set(p, m), Core!Fits(m)',
         UNCHANGED <<saved, profiles, login>>,
         \A n \in Names : Core!Running(n) \/ Core!Running(n)' => containers'[n] = containers[n],
         containers' \in [Names -> Core!Container \cup {Core!Absent}],
         cache' \in [base : Core!Bases, auth : Core!Modes] \cup {Core!NoCache},
         commands' \in Nat, sets' \in Nat, faults' \in Nat,
         causes' \subseteq {"overtaken", "cut"}, causes' = {} => causes = {},
         Core!CacheAgrees'
  PROVE  Core!TypeOK' /\ Core!CoreInv'
<1>1. /\ me' \in [Processes -> Core!Memory] /\ me'[p] = m
      /\ \A q \in Processes \ {p} : me'[q] = me[q]
  BY CoreOneMoves
<1>2. Core!TypeOK'
  BY <1>1 DEF Core!TypeOK
<1>3. Narrower /\ Core!OnePerPort'
  BY Shrinks DEF Core!CoreInv
<1>4. Core!Sound(saved)' /\ saved.name \in Names
  BY DEF Core!CoreInv, Core!Sound, Core!TypeOK, Core!Config
<1>5. ASSUME NEW q \in Processes PROVE \E x : x = me'[q] /\ Core!Fits(x)'
  <2>1. CASE q = p
    BY <1>1, <2>1
  <2>2. CASE q # p
    <3>1. PICK x : x = me[q]
      OBVIOUS
    <3>2. x \in Core!Memory /\ Core!Fits(x)
      BY <3>1 DEF Core!TypeOK, Core!CoreInv
    <3>3. Core!Fits(x)'
      BY <1>3, <1>4, <3>2, RestFits
    <3>4. QED
      BY <1>1, <2>2, <3>1, <3>3
  <2>3. QED
    BY <2>1, <2>2
<1>6. QED
  BY <1>2, <1>3, <1>4, <1>5, CoreAllFit DEF Core!CoreInv

\* Whatever else happens, an idle process fits.
LEMMA IdleFitsAlways == Core!Fits(Core!Idle)'
<1>1. PICK idle : idle = Core!Idle
  OBVIOUS
<1>2. idle.pc = "idle" /\ ~idle.alone
  BY <1>1, CoreIdleIsBlank
<1>3. Core!Fits(idle)'
  BY <1>2 DEF Core!Fits, Core!UpFits, Core!ToldFits, Core!Holding
<1>4. QED
  BY <1>1, <1>3 DEF Core!Idle

\* What is removed answers no more.
LEMMA RemovedNarrows ==
  ASSUME Core!TypeOK, Core!CoreInv, NEW n, containers' = [containers EXCEPT ![n] = Core!Absent]
  PROVE  /\ containers' \in [Names -> Core!Container \cup {Core!Absent}]
         /\ Narrower /\ Core!OnePerPort'
<1>1. containers' \in [Names -> Core!Container \cup {Core!Absent}]
  BY DEF Core!TypeOK
<1>2. \A l \in Names : Core!Running(l)' => containers'[l] = containers[l]
  BY DEF Core!Running, Core!TypeOK, Core!Absent
<1>3. QED
  BY <1>1, <1>2, Shrinks DEF Core!CoreInv

LEMMA SaveKeeps ==
  ASSUME Core!TypeOK, Core!CoreInv, NEW p \in Processes, Core!Save(p)
  PROVE  Core!TypeOK' /\ Core!CoreInv'
<1>1. me[p].config \in Core!Config /\ Core!Sound(me[p].config) /\ me[p].pc = "set"
  BY DEF Core!Save, Core!CoreInv, Core!Fits, Core!Holding
<1>2. saved' \in Core!Config /\ Core!Sound(saved)'
  BY <1>1 DEF Core!Save, Core!Sound
<1>3. Narrower /\ Core!OnePerPort'
  BY Shrinks DEF Core!Save, Core!CoreInv
<1>4. QED
  BY <1>1, <1>2, <1>3, CoreIdleIsBlank, IdleFitsAlways, DisturbingKeeps
     DEF Core!Save, Core!counters, Core!Updating, Core!TypeOK

LEMMA RemoveKeeps ==
  ASSUME Core!TypeOK, Core!CoreInv, NEW p \in Processes, Core!Remove(p)
  PROVE  Core!TypeOK' /\ Core!CoreInv'
<1>1. PICK x, m : x = me[p] /\ m = [x EXCEPT !.pc = "run"]
  OBVIOUS
<1>2. x \in Core!Memory /\ Core!Fits(x) /\ x.pc = "remove"
  BY <1>1 DEF Core!TypeOK, Core!CoreInv, Core!Remove
<1>3. m \in Core!Memory /\ m.pc = "run" /\ m.config = x.config /\ m.alone = x.alone
  BY <1>1, <1>2 DEF Core!Memory, Core!PC
<1>4. saved' = saved
  BY DEF Core!Remove, Core!files
<1>5. Core!Fits(m)'
  BY <1>2, <1>3, <1>4 DEF Core!Fits, Core!UpFits, Core!ToldFits, Core!Holding
<1>6. /\ containers' \in [Names -> Core!Container \cup {Core!Absent}]
      /\ Narrower /\ Core!OnePerPort'
  BY RemovedNarrows DEF Core!Remove
<1>7. Core!Sound(saved)'
  BY <1>4 DEF Core!CoreInv, Core!Sound
<1>8. QED
  BY <1>1, <1>2, <1>3, <1>5, <1>6, <1>7, DisturbingKeeps
     DEF Core!Remove, Core!files, Core!counters, Core!Updating, Core!TypeOK

LEMMA RemovedKeeps ==
  ASSUME Core!TypeOK, Core!CoreInv, NEW p \in Processes, Core!Removed(p)
  PROVE  Core!TypeOK' /\ Core!CoreInv'
<1>1. /\ containers' \in [Names -> Core!Container \cup {Core!Absent}]
      /\ Narrower /\ Core!OnePerPort'
  BY RemovedNarrows DEF Core!Removed
<1>2. Core!Sound(saved)'
  BY DEF Core!Removed, Core!files, Core!CoreInv, Core!Sound
<1>3. QED
  BY <1>1, <1>2, CoreIdleIsBlank, IdleFitsAlways, DisturbingKeeps
     DEF Core!Removed, Core!files, Core!counters, Core!Updating, Core!TypeOK

LEMMA ProfilesKeep ==
  ASSUME Core!TypeOK, Core!CoreInv, NEW p \in Processes, Core!SyncProfile(p) \/ Core!ProfileSaved(p)
  PROVE  Core!TypeOK' /\ Core!CoreInv'
<1>1. PICK x : x = me[p]
  OBVIOUS
<1>2. x \in Core!Memory /\ Core!Fits(x)
  BY <1>1 DEF Core!TypeOK, Core!CoreInv
<1>3. Narrower /\ Core!OnePerPort' /\ Core!Sound(saved)' /\ saved' = saved /\ containers' = containers
  BY Shrinks DEF Core!SyncProfile, Core!ProfileSaved, Core!CoreInv, Core!Sound
<1>4. CASE Core!SyncProfile(p)
  <2>1. PICK m : m = [x EXCEPT !.pc = "clear"]
    OBVIOUS
  <2>2. m \in Core!Memory /\ m.pc = "clear" /\ m.config = x.config /\ m.alone = x.alone
        /\ x.pc = "profile"
    BY <1>1, <1>2, <1>4, <2>1 DEF Core!Memory, Core!PC, Core!SyncProfile
  <2>3. x.config.port \in Ports
    BY <1>2, <2>2 DEF Core!Fits, Core!Holding, Core!Config
  <2>4. profiles' \in Core!Profiles /\ profiles'.local = x.config.port
    BY <1>1, <1>4, <2>3 DEF Core!SyncProfile, Core!Profiles, Core!TypeOK
  <2>5. Core!Fits(m)'
    BY <1>2, <1>3, <2>2, <2>4
       DEF Core!Fits, Core!UpFits, Core!ToldFits, Core!Holding, Core!Made, Core!Running
  <2>6. QED
    BY <1>1, <1>3, <1>4, <2>1, <2>2, <2>4, <2>5, DisturbingKeeps
       DEF Core!SyncProfile, Core!counters, Core!Updating, Core!TypeOK
<1>5. CASE Core!ProfileSaved(p)
  <2>1. profiles' \in Core!Profiles
    BY <1>1, <1>2, <1>5 DEF Core!ProfileSaved, Core!Fits
  <2>2. QED
    BY <1>3, <1>5, <2>1, CoreIdleIsBlank, IdleFitsAlways, DisturbingKeeps
       DEF Core!ProfileSaved, Core!Cleared, Core!counters, Core!Updating, Core!TypeOK
<1>6. QED
  BY <1>4, <1>5

\* docker run: the container is as the config says, and alone on its port.
LEMMA RunKeeps ==
  ASSUME Core!TypeOK, Core!CoreInv, NEW p \in Processes, Core!Run(p)
  PROVE  Core!TypeOK' /\ Core!CoreInv'
<1>1. PICK x : x = me[p]
  OBVIOUS
<1>2. x \in Core!Memory /\ Core!Fits(x) /\ x.pc = "run"
  BY <1>1 DEF Core!TypeOK, Core!CoreInv, Core!Run
<1>3. PICK config : config = x.config
  OBVIOUS
<1>4. config \in Core!Config
  BY <1>2, <1>3 DEF Core!Fits, Core!Holding
<1>5. Core!Idle \in Core!Memory /\ Core!Idle.pc = "idle" /\ Core!Fits(Core!Idle) /\ Core!Fits(Core!Idle)'
  BY CoreIdleIsBlank, CoreIdleFits, IdleFitsAlways
<1>6. /\ UNCHANGED <<saved, profiles, cache, login>>
      /\ commands' \in Nat /\ sets' \in Nat /\ faults' \in Nat
  BY DEF Core!Run, Core!files, Core!counters, Core!TypeOK
<1>8. ASSUME NEW state \in {"running", "stopped"}, NEW available \in BOOLEAN
      PROVE  [state |-> state, port |-> config.port, env |-> Core!Env(config, available)]
               \in Core!Container
  <2>1. Core!Env(config, available) \in Core!Settings
    BY <1>4 DEF Core!Env, Core!Config, Core!Settings
  <2>2. QED
    BY <1>4, <2>1 DEF Core!Container, Core!Config
<1>9. CASE Core!Ends(p) /\ UNCHANGED <<containers, causes>>
  BY <1>1, <1>2, <1>5, <1>6, <1>9, QuietKeeps DEF Core!Ends, Core!Updating, Core!TypeOK
<1>10. ASSUME NEW failed \in Core!Container, failed.state = "stopped",
              containers[config.name] = Core!Absent, Core!Ends(p), UNCHANGED causes,
              containers' = [containers EXCEPT ![config.name] = failed]
       PROVE  Core!TypeOK' /\ Core!CoreInv'
  <2>1. containers' \in [Names -> Core!Container \cup {Core!Absent}]
    BY <1>4, <1>10 DEF Core!TypeOK
  <2>2. \A n \in Names : Core!Running(n) \/ Core!Running(n)' => containers'[n] = containers[n]
    BY <1>4, <1>10 DEF Core!TypeOK, Core!Running, Core!Absent, Core!Config
  <2>3. Narrower
    BY <2>2, Shrinks DEF Core!CoreInv
  <2>4. Busy => Busy'
    BY <1>1, <1>2, <1>10 DEF Busy, Core!Ends, Core!Set, Core!Updating, Core!TypeOK
  <2>5. Core!CacheAgrees'
    BY <1>6, <1>10, <2>3, <2>4, CacheKept DEF Core!CoreInv
  <2>6. QED
    BY <1>5, <1>6, <1>10, <2>1, <2>2, <2>5, SettingKeeps DEF Core!Ends, Core!TypeOK
<1>11. ASSUME NEW up \in Core!Container, up.state = "running", up.port = config.port,
              \E available \in BOOLEAN : up.env = Core!Env(config, available),
              containers[config.name] = Core!Absent, Core!Served(config.port) = {},
              containers' = [containers EXCEPT ![config.name] = up],
              causes' = causes \cup (IF Core!Overtaken THEN {"overtaken"} ELSE {}),
              Core!Disturbs(p, [x EXCEPT !.pc = "profile"])
       PROVE  Core!TypeOK' /\ Core!CoreInv'
  <2>1. PICK m : m = [x EXCEPT !.pc = "profile"]
    OBVIOUS
  <2>2. m \in Core!Memory /\ m.pc = "profile" /\ m.config = config /\ m.alone = x.alone
    BY <1>2, <1>3, <2>1 DEF Core!Memory, Core!PC
  <2>3. containers' \in [Names -> Core!Container \cup {Core!Absent}]
    BY <1>4, <1>11 DEF Core!TypeOK
  <2>4. containers'[config.name] = up /\ config.name \in Names /\ config.port \in Ports
    BY <1>4, <1>11 DEF Core!TypeOK, Core!Config
  <2>5. \A n \in Names \ {config.name} : containers'[n] = containers[n]
    BY <1>11 DEF Core!TypeOK
  <2>6. \A n \in Names : ~(Core!Running(n) /\ containers[n].port = config.port)
    BY <1>11, <2>4, CoreAssumptions DEF Core!Served, Core!PortsAssumption
  <2>7. Core!OnePerPort'
    BY <1>11, <2>4, <2>5, <2>6 DEF Core!OnePerPort, Core!Running, Core!CoreInv
  <2>8. Core!Fits(m)'
    BY <1>2, <1>3, <1>4, <1>6, <1>11, <2>2, <2>4
       DEF Core!Fits, Core!UpFits, Core!ToldFits, Core!Holding, Core!Made, Core!Running, Core!Absent, Core!Env
  <2>9. Core!Sound(saved)'
    BY <1>6 DEF Core!CoreInv, Core!Sound
  <2>10. causes' = {} => causes = {} /\ ~Core!Overtaken
    BY <1>11
  <2>11. causes' \subseteq {"overtaken", "cut"}
    BY <1>11 DEF Core!TypeOK
  <2>12. QED
    BY <1>1, <1>2, <1>6, <1>11, <2>1, <2>2, <2>3, <2>7, <2>8, <2>9, <2>10, <2>11,
       DisturbingKeeps DEF Core!Updating, Core!TypeOK
<1>12. QED
  <2>1. CASE \E available \in BOOLEAN :
                /\ containers[config.name] = Core!Absent /\ Core!Ends(p) /\ UNCHANGED causes
                /\ containers' = [containers EXCEPT ![config.name] =
                     [state |-> "stopped", port |-> config.port,
                      env |-> Core!Env(config, available)]]
    BY <1>8, <1>10, <2>1
  <2>2. CASE /\ containers[config.name] = Core!Absent /\ Core!Served(config.port) = {}
             /\ \E available \in BOOLEAN :
                  containers' = [containers EXCEPT ![config.name] =
                    [state |-> "running", port |-> config.port,
                     env |-> Core!Env(config, available)]]
             /\ causes' = causes \cup (IF Core!Overtaken THEN {"overtaken"} ELSE {})
             /\ Core!Disturbs(p, [x EXCEPT !.pc = "profile"])
    <3>1. PICK available \in BOOLEAN :
                 containers' = [containers EXCEPT ![config.name] =
                   [state |-> "running", port |-> config.port,
                    env |-> Core!Env(config, available)]]
      BY <2>2
    <3>2. PICK up : up = [state |-> "running", port |-> config.port,
                          env |-> Core!Env(config, available)]
      OBVIOUS
    <3>3. up \in Core!Container /\ up.state = "running" /\ up.port = config.port
          /\ up.env = Core!Env(config, available)
      BY <1>8, <3>2
    <3>4. QED
      BY <1>11, <2>2, <3>1, <3>2, <3>3
  <2>3. QED
    BY <1>1, <1>3, <1>9, <2>1, <2>2 DEF Core!Run

\* What was asked of a server is stored, unless another one has come up since.
LEMMA CoreStoreKeeps ==
  ASSUME Core!TypeOK, Core!CoreInv, NEW p \in Processes, Core!Store(p)
  PROVE  Core!TypeOK' /\ Core!CoreInv'
<1>1. PICK x, m : x = me[p] /\ m = [x EXCEPT !.pc = "login"]
  OBVIOUS
<1>2. x \in Core!Memory /\ Core!Fits(x) /\ x.pc = "store"
  BY <1>1 DEF Core!TypeOK, Core!CoreInv, Core!Store
<1>3. m \in Core!Memory /\ m.pc = "login" /\ ~m.alone
  BY <1>1, <1>2 DEF Core!Memory, Core!PC, Core!Fits, Core!UpFits
<1>4. Core!Fits(m)'
  BY <1>3 DEF Core!Fits, Core!UpFits, Core!ToldFits, Core!Holding
<1>5. cache' = [base |-> x.base, auth |-> x.caps]
      /\ UNCHANGED <<saved, containers, profiles, login, causes>>
  BY <1>1 DEF Core!Store, Core!Entry
<1>6. cache' \in [base : Core!Bases, auth : Core!Modes]
  BY <1>2, <1>5 DEF Core!Memory
<1>7. causes' = {} => Core!Served(x.base) \subseteq {x.caps}
  BY <1>2, <1>5 DEF Core!Fits, Core!ToldFits
<1>8. Core!CacheAgrees'
  BY <1>5, <1>7 DEF Core!CacheAgrees, Core!Served, Core!Running
<1>9. QED
  BY <1>1, <1>3, <1>4, <1>5, <1>6, <1>8, SettingKeeps
     DEF Core!Store, Core!Goto, Core!counters, Core!TypeOK, Core!Running

LEMMA CoreCrashKeeps ==
  ASSUME Core!TypeOK, Core!CoreInv, NEW p \in Processes, Core!Crash(p)
  PROVE  Core!TypeOK' /\ Core!CoreInv'
<1>1. Core!Idle \in Core!Memory /\ Core!Idle.pc = "idle" /\ Core!Fits(Core!Idle)'
  BY CoreIdleIsBlank, IdleFitsAlways
<1>2. Core!Set(p, Core!Idle) /\ UNCHANGED <<saved, containers, profiles, cache, login>>
      /\ commands' \in Nat /\ sets' \in Nat /\ faults' \in Nat
  BY DEF Core!Crash, Core!Ends, Core!files, Core!TypeOK
<1>3. causes' \subseteq {"overtaken", "cut"} /\ (causes' = {} => causes = {})
      /\ (causes' = {} => me[p].pc \notin Core!Updating)
  BY DEF Core!Crash, Core!TypeOK, Core!Updating
<1>4. \A q \in Processes \ {p} : me'[q] = me[q]
  BY <1>1, <1>2, CoreOneMoves
<1>5. causes' = {} /\ ~Busy' => ~Busy
  BY <1>3, <1>4 DEF Busy
<1>6. Narrower
  BY <1>2, Shrinks DEF Core!CoreInv
<1>7. Core!CacheAgrees'
  BY <1>2, <1>3, <1>5, <1>6, CacheKept DEF Core!CoreInv
<1>8. QED
  BY <1>1, <1>2, <1>3, <1>7, SettingKeeps DEF Core!TypeOK, Core!Running

LEMMA StopsKeeps ==
  ASSUME Core!TypeOK, Core!CoreInv, NEW n \in Names, Core!Stops(n)
  PROVE  Core!TypeOK' /\ Core!CoreInv'
<1>1. PICK c, d : c = containers[n] /\ d = [c EXCEPT !.state = "stopped"]
  OBVIOUS
<1>2. c \in Core!Container /\ d \in Core!Container /\ d.state = "stopped"
  BY <1>1 DEF Core!Stops, Core!Running, Core!TypeOK, Core!Absent, Core!Container
<1>3. containers' = [containers EXCEPT ![n] = d]
  BY <1>1 DEF Core!Stops
<1>4. containers' \in [Names -> Core!Container \cup {Core!Absent}]
  BY <1>2, <1>3 DEF Core!TypeOK
<1>5. \A l \in Names : Core!Running(l)' => containers'[l] = containers[l]
  BY <1>2, <1>3 DEF Core!Running, Core!TypeOK
<1>6. Narrower /\ Core!OnePerPort'
  BY <1>5, Shrinks DEF Core!CoreInv
<1>7. UNCHANGED <<saved, profiles, cache, login, causes>>
  BY DEF Core!Stops, Core!files
<1>8. \A q \in Processes : me'[q] \in Core!Memory /\ Shaken(me'[q], me[q])
  <2>1. \A q \in Processes : me[q] \in Core!Memory
    BY DEF Core!TypeOK
  <2>2. \A q \in Processes : [me[q] EXCEPT !.alone = FALSE] \in Core!Memory
                             /\ Shaken([me[q] EXCEPT !.alone = FALSE], me[q])
    BY <2>1, Shakes
  <2>3. QED
    BY <2>2 DEF Core!Stops
<1>9. Core!TypeOK'
  <2>1. me' \in [Processes -> Core!Memory]
    BY <1>8 DEF Core!Stops
  <2>2. QED
    BY <1>4, <1>7, <2>1 DEF Core!Stops, Core!TypeOK
<1>10. ASSUME NEW q \in Processes PROVE \E x : x = me'[q] /\ Core!Fits(x)'
  <2>1. PICK x, y : x = me[q] /\ y = me'[q]
    OBVIOUS
  <2>2. x \in Core!Memory /\ Core!Fits(x) /\ Shaken(y, x)
    BY <1>8, <2>1 DEF Core!TypeOK, Core!CoreInv
  <2>3. QED
    BY <1>6, <1>7, <2>1, <2>2, ShakenFits
<1>11. Busy => Busy'
  BY <1>8 DEF Busy, Shaken
<1>12. Core!CacheAgrees'
  BY <1>6, <1>7, <1>11, CacheKept DEF Core!CoreInv
<1>13. Core!Sound(saved)'
  BY <1>7 DEF Core!CoreInv, Core!Sound
<1>14. QED
  BY <1>6, <1>9, <1>10, <1>12, <1>13, CoreAllFit DEF Core!CoreInv

\* A step that changes none of all this.
LEMMA StillKeeps ==
  ASSUME Core!TypeOK, Core!CoreInv, UNCHANGED <<saved, containers, profiles, cache, me, causes>>
  PROVE  Core!CoreInv'
BY DEF Core!CoreInv, Core!Sound, Core!OnePerPort, Core!Running, Core!Fits, Core!UpFits,
       Core!ToldFits, Core!Made, Core!Served, Core!Holding,
   Core!CacheAgrees

LEMMA CoreNextKeeps ==
  ASSUME Core!TypeOK, Core!CoreInv, [Core!Next]_Core!vars
  PROVE  Core!TypeOK' /\ Core!CoreInv'
<1>1. CASE UNCHANGED Core!vars
  BY <1>1, StillKeeps DEF Core!vars, Core!TypeOK
<1>2. CASE Core!Logout
  BY <1>2, StillKeeps DEF Core!Logout, Core!TypeOK
<1>3. ASSUME NEW n \in Names, Core!Stops(n)
      PROVE  Core!TypeOK' /\ Core!CoreInv'
  BY <1>3, StopsKeeps
<1>4. ASSUME NEW p \in Processes,
             Core!Begins(p) \/ Core!Proceeds(p) \/ Core!DockerFails(p) \/ Core!Crash(p)
      PROVE  Core!TypeOK' /\ Core!CoreInv'
  BY <1>4, BeginsKeep, QuietStepsKeep, SaveKeeps, RemoveKeeps, RunKeeps, ProfilesKeep,
     RemovedKeeps, CoreStoreKeeps, CoreCrashKeeps DEF Core!Proceeds
<1>5. QED
  BY <1>1, <1>2, <1>3, <1>4 DEF Core!Next

LEMMA CoreInitially ==
  ASSUME Core!Init
  PROVE  Core!TypeOK /\ Core!CoreInv
<1>1. PICK n \in Names, port \in Ports, default \in {"cloud", "local"} :
           saved = Core!InitialConfig(n, port) /\ profiles = [default |-> default, local |-> port]
  BY DEF Core!Init
<1>2. saved \in Core!Config /\ Core!Sound(saved)
  BY <1>1
     DEF Core!InitialConfig, Core!Config, Core!Sound, Core!Normal, Core!Default,
         Core!Settings, Core!Always, Core!Keys
<1>3. Core!TypeOK
  <2>1. me \in [Processes -> Core!Memory]
    BY CoreIdleIsBlank DEF Core!Init
  <2>2. QED
    BY <1>1, <1>2, <2>1 DEF Core!Init, Core!TypeOK, Core!Profiles
<1>4. \A p \in Processes : Core!Fits(me[p])
  BY CoreIdleFits DEF Core!Init
<1>5. Core!OnePerPort
  BY DEF Core!Init, Core!OnePerPort, Core!Running, Core!Absent
<1>6. QED
  BY <1>2, <1>3, <1>4, <1>5 DEF Core!Init, Core!CoreInv, Core!CacheAgrees

-----------------------------------------------------------------------------

\* The environment of an undisturbed `core up`, setting by setting.
LEMMA MadeSettings ==
  ASSUME Core!TypeOK, Core!Made(saved), NEW k \in Core!Keys
  PROVE  LET env == containers[saved.name].env IN
         /\ saved.own[k] \in 0..2 /\ saved.extra[k] \in 0..2
         /\ saved.extra[k] > 0 => env[k] = saved.extra[k]
         /\ saved.extra[k] = 0 => env[k] = saved.own[k] \/ (k = "path" /\ env[k] = 0)
<1>1. saved.own \in Core!Settings /\ saved.extra \in Core!Settings
  BY DEF Core!TypeOK, Core!Config
<1>2. PICK available \in BOOLEAN : containers[saved.name].env = Core!Env(saved, available)
  BY DEF Core!Made
<1>3. saved.own[k] \in 0..2 /\ saved.extra[k] \in 0..2
  BY <1>1 DEF Core!Settings
<1>4. containers[saved.name].env[k] =
        IF saved.extra[k] > 0 THEN saved.extra[k]
        ELSE IF k = "path" /\ ~available THEN 0 ELSE saved.own[k]
  BY <1>2 DEF Core!Env
<1>5. saved.extra[k] = 0 => ~(saved.extra[k] > 0)
  BY <1>3
<1>6. QED
  BY <1>3, <1>4, <1>5

LEMMA CoreRestartsHeal ==
  ASSUME Core!TypeOK, Core!CoreInv
  PROVE  Core!RestartHeals
<1> SUFFICES ASSUME NEW p \in Processes, me[p].pc = "started", me[p].alone
             PROVE  /\ Core!StatusFinds = {k \in Core!Overridden(saved) : Core!Compared(saved, k)}
                         \cup Core!Missing(saved, containers[saved.name].env)
                    /\ Core!DoctorFinds = Core!Overridden(saved) \cap {"auth"}
  BY DEF Core!RestartHeals
<1>1. Core!Made(saved) /\ profiles.local = saved.port /\ Core!Sound(saved) /\ saved \in Core!Config
  BY DEF Core!CoreInv, Core!Fits, Core!UpFits, Core!TypeOK
<1>2. PICK env : env = containers[saved.name].env
  OBVIOUS
<1>3. \A k \in Core!Keys :
        /\ saved.own[k] \in 0..2 /\ saved.extra[k] \in 0..2
        /\ saved.extra[k] > 0 => env[k] = saved.extra[k]
        /\ saved.extra[k] = 0 => env[k] = saved.own[k] \/ (k = "path" /\ env[k] = 0)
  BY <1>1, <1>2, MadeSettings
<1>4. Core!Served(saved.port) = {Core!Mode(env["auth"])}
  <2>1. saved.port # "cloud" /\ saved.port \in Core!Bases /\ saved.name \in Names
    BY <1>1, CoreAssumptions DEF Core!PortsAssumption, Core!Config, Core!Bases
  <2>2. Core!Mode(env["auth"]) \in Core!Served(saved.port)
    BY <1>1, <1>2, <2>1 DEF Core!Made, Core!Served
  <2>3. QED
    BY <2>1, <2>2, OneServes
<1>5. "auth" \in Core!Overridden(saved) <=> Core!Mode(env["auth"]) # Core!Mode(saved.own["auth"])
  <2>1. "auth" \in Core!Keys /\ "auth" \in Core!Own /\ "auth" \in Core!Always
    BY DEF Core!Keys, Core!Own, Core!Always
  <2>2. saved.own["auth"] # 0
    BY <1>1, <2>1 DEF Core!Sound
  <2>3. QED
    BY <1>3, <2>1, <2>2 DEF Core!Overridden, Core!Differs, Core!Mode, Core!Accounts
<1>6. Core!DoctorFinds = Core!Overridden(saved) \cap {"auth"}
  <2>1. Core!DoctorFinds
          = IF Core!Mode(env["auth"]) # Core!Mode(saved.own["auth"]) THEN {"auth"} ELSE {}
    BY <1>1, <1>4 DEF Core!DoctorFinds, Core!Made, Core!Running
  <2>2. QED
    BY <1>5, <2>1
<1>7. ASSUME NEW k \in Core!Keys, Core!Compared(saved, k)
      PROVE  Core!Differs(k, saved.own[k], env[k]) <=>
               k \in Core!Overridden(saved) \/ k \in Core!Missing(saved, env)
  <2>1. k \in Core!Own
    BY <1>7 DEF Core!Compared, Core!Own, Core!Keys
  <2>2. k \in Core!Missing(saved, env) <=> k = "path" /\ env[k] = 0
    BY <1>7 DEF Core!Missing
  <2>3. k = "path" => saved.own[k] > 0
    BY <1>7 DEF Core!Compared
  <2>4. CASE saved.extra[k] > 0
    BY <1>3, <2>1, <2>2, <2>4 DEF Core!Overridden
  <2>5. CASE saved.extra[k] = 0
    BY <1>3, <2>2, <2>3, <2>5 DEF Core!Overridden, Core!Differs
  <2>6. QED
    BY <1>3, <2>4, <2>5
<1>8. Core!Mismatches(saved, env) = {k \in Core!Overridden(saved) : Core!Compared(saved, k)}
                                      \cup Core!Missing(saved, env)
  <2>1. Core!Mismatches(saved, env)
          = {k \in Core!Keys : Core!Compared(saved, k) /\ Core!Differs(k, saved.own[k], env[k])}
    BY <1>3 DEF Core!Mismatches
  <2>2. Core!Overridden(saved) \subseteq Core!Keys
    BY DEF Core!Overridden, Core!Own
  <2>3. \A k \in Core!Missing(saved, env) : k \in Core!Keys /\ Core!Compared(saved, k)
    BY DEF Core!Missing, Core!Keys
  <2>4. QED
    BY <1>7, <2>1, <2>2, <2>3
<1>9. QED
  BY <1>1, <1>2, <1>6, <1>8 DEF Core!StatusFinds, Core!Made

-----------------------------------------------------------------------------
(* Both sides.                                                             *)

SideInv ==
  \/ side = "files" /\ TypeOK /\ FilesInv
  \/ side = "core" /\ Core!TypeOK /\ Core!CoreInv

LEMMA SideInitially == SideInit => SideInv
<1>1. CASE side = "core" /\ Core!Init
  BY <1>1, CoreInitially DEF SideInv
<1>2. CASE side = "files" /\ Init
  BY <1>2, FilesInitially DEF SideInv
<1>3. QED
  BY <1>1, <1>2 DEF SideInit

LEMMA SideKeeps == SideInv /\ [SideNext]_<<vars, side, coreFiles>> => SideInv'
<1> SUFFICES ASSUME SideInv, [SideNext]_<<vars, side, coreFiles>>
             PROVE  SideInv'
  OBVIOUS
<1>1. side' = side
  BY DEF SideNext
<1>2. CASE side = "files" /\ TypeOK /\ FilesInv
  <2>1. Next \/ UNCHANGED vars
    BY <1>2 DEF SideNext
  <2>2. TypeOK' /\ FilesInv'
    BY <1>2, <2>1, FilesNextKeeps, FilesRest
  <2>3. QED
    BY <1>1, <1>2, <2>2 DEF SideInv
<1>3. CASE side = "core" /\ Core!TypeOK /\ Core!CoreInv
  <2>1. [Core!Next]_Core!vars
    BY <1>3 DEF SideNext, vars, coreFiles, Core!vars
  <2>2. Core!TypeOK' /\ Core!CoreInv'
    BY <1>3, <2>1, CoreNextKeeps
  <2>3. QED
    BY <1>1, <1>3, <2>2 DEF SideInv
<1>4. QED
  BY <1>2, <1>3 DEF SideInv

\* Neither side ever leaves its inductive invariant, however many commands run on
\* the workstation at once, fail, or die.
THEOREM SideInvariance == SideSpec => []SideInv
<1>1. SideInit => SideInv
  BY SideInitially
<1>2. SideInv /\ [SideNext]_<<vars, side, coreFiles>> => SideInv'
  BY SideKeeps
<1>3. QED
  BY <1>1, <1>2, PTL DEF SideSpec

\* An undisturbed `core up` leaves a container that `core doctor` finds nothing
\* against and that `core status` does not want restarted, but for settings that an
\* extra assignment overrides and a reranker's model that is not to be found, for
\* any number of containers, ports and commands (runCoreUp, runtimeConfigMismatches).
THEOREM RestartsHeal == SideSpec => []RestartHeals
<1>1. SideInv => RestartHeals
  BY CoreRestartsHeal DEF SideInv, RestartHeals
<1>2. QED
  BY <1>1, SideInvariance, PTL

\* The cached capabilities tell the mode of the server at their base, unless a
\* `core up` was cut short or overtook a fetch (ClearCapabilitiesCache).
THEOREM CacheAgreement == SideSpec => []CacheAgrees
<1>1. SideInv => CacheAgrees
  BY DEF SideInv, CacheAgrees, Core!CoreInv
<1>2. QED
  BY <1>1, SideInvariance, PTL

\* A hash that was sent when it was stored never comes to stand beside a document
\* that was not given its text: no copy of a row, however stale, no link and no
\* command on top of another one parts the two (UpsertItem writes both). A file
\* that sync passes over with such a row was at some time given as it is.
THEOREM SkippedAreGiven == SideSpec => []SkippedFilesAreGiven
<1>1. SideInv => SkippedFilesAreGiven
  BY GivenHolds DEF SideInv, SkippedFilesAreGiven
<1>2. QED
  BY <1>1, SideInvariance, PTL

\* A document is named by a row, or in the hands of a command, unless its item
\* was added again, removed, worked on twice, or a request or command was lost.
THEOREM NothingLeftBehind == SideSpec => []NoDocumentIsLeftBehind
<1>1. SideInv => NoDocumentIsLeftBehind
  BY NoStrayHolds DEF SideInv, NoDocumentIsLeftBehind
<1>2. QED
  BY <1>1, SideInvariance, PTL

\* An undisturbed reconcile of any number of rows leaves every linked row with
\* the flag of its document, and links every row that has one namesake only.
THEOREM ReconcileAgreement == SideSpec => []ReconcileLeavesAgreement
<1>1. SideInv => ReconcileLeavesAgreement
  BY AgreesHolds DEF SideInv, ReconcileLeavesAgreement
<1>2. QED
  BY <1>1, SideInvariance, PTL
=============================================================================
