------------------------ MODULE BaselineUploadProofs ------------------------
(***************************************************************************)
(* Proofs about BaselineUpload, for every set of processes, every number   *)
(* of parts and every bound on runs, faults, timeouts and crashes.         *)
(*                                                                         *)
(* Core only grows (CoreGrows): every step keeps what it accepted, what it *)
(* sealed and what it closed.  What a process, a response or a delayed     *)
(* request knows of Core is a statement that growth preserves, so a step   *)
(* of one process cannot invalidate the knowledge of another.              *)
(***************************************************************************)
EXTENDS BaselineUpload, FiniteSetTheorems, TLAPS

\* What no step of Core takes back.
CoreGrows ==
  /\ received \subseteq received'
  /\ Settled => Settled'
  /\ staging = "sealed" => staging' = "sealed"
  /\ staging # "none" => staging' # "none"
  /\ cont = "succeeded" => cont' = "succeeded"

CoreTypes ==
  /\ keys \in SUBSET Nat
  /\ staging \in Staging /\ job \in JobState /\ cont \in ContState
  /\ received \in SUBSET (1..N)

\* A prefix of the ordinals is as large as its last ordinal.
LEMMA PrefixSize ==
  ASSUME NEW k \in 0..N
  PROVE  Cardinality(1..k) = k
<1>1. k \in Int /\ 1 \in Int /\ (1 > k <=> k = 0)
  BY NAssumption
<1>2. Cardinality(1..k) = IF 1 > k THEN 0 ELSE k - 1 + 1
  BY <1>1, FS_Interval
<1>3. QED
  BY <1>1, <1>2, NAssumption

\* Handling a request that fits preserves Core's invariant, and Core grows.
LEMMA CoreStep ==
  ASSUME CoreTypes, CoreFits, NEW r \in Request, RequestFits(r), CoreHandles(r)
  PROVE  CoreTypes' /\ CoreFits' /\ CoreGrows
<1> USE NAssumption DEF CoreTypes, CoreFits, RequestFits, AcceptedInOrder,
          PartsComplete, CoreGrows, Settled, coreVars
<1>1. CASE r.op = "begin"
  <2>1. CASE r.key \in keys
    BY <1>1, <2>1 DEF CoreHandles, CoreBegin
  <2>2. CASE r.key \notin keys
    <3>1. staging = "none" /\ r.key = DerivedKey
      BY <1>1, <2>2
    <3>2. /\ keys' = keys \cup {r.key} /\ staging' = "open" /\ job' = "queued"
          /\ received' = {} /\ cont' = "none"
      BY <1>1, <2>2 DEF CoreHandles, CoreBegin
    <3>3. keys' = {DerivedKey}
      BY <3>1, <3>2
    <3>5. received' = 1..0 /\ 0 \in 0..N
      BY <3>2
    <3>4. QED
      BY <3>1, <3>2, <3>3, <3>5 DEF Staging, JobState, ContState, DerivedKey
  <2>3. QED
    BY <2>1, <2>2
<1>2. CASE r.op = "part"
  <2>1. CorePart(r)
    BY <1>2 DEF CoreHandles
  <2>2. CASE CodeFor(r) = "ok"
    <3>1. Accepting
      BY <1>2, <2>2 DEF CodeFor, ClosedCode
    <3>2. received' = received \cup {r.part} /\ UNCHANGED <<keys, staging, job, cont>>
      BY <2>1, <2>2 DEF CorePart
    <3>3. PICK k \in 0..N : received = 1..k
      OBVIOUS
    <3>4. r.part \in 1..N /\ r.part <= k + 1
      BY <1>2, <3>3 DEF Request
    <3>5. received' = 1..k \/ (k + 1 \in 0..N /\ received' = 1..(k + 1))
      BY <3>2, <3>3, <3>4
    <3>6. QED
      BY <3>1, <3>2, <3>4, <3>5 DEF Accepting
  <2>3. CASE CodeFor(r) # "ok"
    BY <2>1, <2>3 DEF CorePart
  <2>4. QED
    BY <2>2, <2>3
<1>3. CASE r.op = "commit"
  <2>1. CoreCommit(r)
    BY <1>3 DEF CoreHandles
  <2>2. QED
    BY <2>1 DEF CoreCommit, Accepting, Staging, JobState, ContState
<1>4. CASE r.op \in {"status", "poll"}
  BY <1>4 DEF CoreHandles
<1>5. QED
  BY <1>1, <1>2, <1>3, <1>4 DEF Request

-----------------------------------------------------------------------------
(* Growth of Core preserves what the others know.                          *)

LEMMA RequestFrame ==
  ASSUME NEW r, RequestFits(r), CoreGrows
  PROVE  RequestFits(r)'
BY DEF RequestFits, CoreGrows

LEMMA ClientFrame ==
  ASSUME NEW c \in Clients, ClientFits(c), CoreGrows,
         pc'[c] = pc[c], mem'[c] = mem[c], reply'[c] = reply[c],
         verdict'[c] = verdict[c]
  PROVE  ClientFits(c)'
<1> USE DEF CoreGrows
<1>1. PlaceFits(c)'
  BY DEF ClientFits, PlaceFits, StateFits
<1>2. ASSUME reply'[c] # NoReply PROVE ReplyFits(c, reply[c])'
  BY <1>2 DEF ClientFits, ReplyFits, NextPart
<1>3. VerdictFits(c)'
  BY DEF ClientFits, VerdictFits
<1>4. QED
  BY <1>1, <1>2, <1>3 DEF ClientFits

LEMMA NothingGrows ==
  ASSUME UNCHANGED coreVars
  PROVE  CoreGrows
BY DEF coreVars, CoreGrows, Settled

LEMMA SameCoreFits ==
  ASSUME CoreFits, UNCHANGED coreVars
  PROVE  CoreFits'
BY DEF CoreFits, AcceptedInOrder, PartsComplete, coreVars

\* A step of process c: what it has to show is about c, the record on disk
\* and the requests it left behind.
LEMMA Assemble ==
  ASSUME IInv, NEW c \in Clients, CoreGrows, CoreFits',
         \A d \in Clients \ {c} : /\ pc'[d] = pc[d] /\ mem'[d] = mem[d]
                                  /\ reply'[d] = reply[d]
                                  /\ verdict'[d] = verdict[d],
         ClientFits(c)', RecordFits',
         \A r \in strays' \ strays : RequestFits(r)',
         AnnouncedFits'
  PROVE  IInv'
<1>1. \A d \in Clients : ClientFits(d)'
  <2>1. ASSUME NEW d \in Clients \ {c} PROVE ClientFits(d)'
    BY <2>1, ClientFrame DEF IInv
  <2>2. QED
    BY <2>1
<1>2. \A r \in strays' : RequestFits(r)'
  BY RequestFrame DEF IInv
<1>3. QED
  BY <1>1, <1>2 DEF IInv

LEMMA AnnouncedFrame ==
  ASSUME AnnouncedFits, CoreGrows, announced' = announced
  PROVE  AnnouncedFits'
BY DEF AnnouncedFits, CoreGrows

\* A step that leaves the record on disk alone and neither opens the staging
\* record nor sends a begin out of nothing.
LEMMA RecordFrame ==
  ASSUME RecordFits, CoreGrows, disk' = disk,
         staging' # "none" \/ BeginPending' => staging # "none" \/ BeginPending
  PROVE  RecordFits'
BY DEF RecordFits, StateFits, CoreGrows

-----------------------------------------------------------------------------
(* Requests and responses.                                                 *)

\* What a process sends next fits.
LEMMA OwnRequestFits ==
  ASSUME TypeOK, IInv, NEW c \in Clients, pc[c] \in Posting
  PROVE  RequestOf(c) \in Request /\ RequestFits(RequestOf(c))
<1> DEFINE r == RequestOf(c)
<1>1. /\ mem[c] \in StateRecord /\ StateFits(mem[c])
      /\ pc[c] # "begin" => mem[c].job = DerivedKey /\ staging # "none"
      /\ pc[c] = "part" => mem[c].completed < N
  BY DEF TypeOK, IInv, ClientFits, PlaceFits
<1>2. /\ r.op = WireOp(pc[c])
      /\ r.part = IF pc[c] = "part" THEN mem[c].completed + 1 ELSE 0
      /\ r.key = IF pc[c] = "begin" THEN DerivedKey ELSE mem[c].job
  BY DEF RequestOf, NextPart, BeginKey
<1>3. /\ r.op \in {"begin", "status", "part", "commit", "poll"}
      /\ r.op = "begin" <=> pc[c] = "begin"
      /\ r.op = "part" <=> pc[c] = "part"
  BY <1>2 DEF WireOp, Posting
<1>4. r.part \in 0..N
  BY <1>1, <1>2, NAssumption DEF StateRecord
<1>5. r.key \in Nat
  BY <1>1, <1>2 DEF StateRecord, DerivedKey
<1>6. r \in Request
  BY <1>3, <1>4, <1>5 DEF Request, RequestOf
<1>7. r.op = "part" => r.part \in 1..N /\ 1..(r.part - 1) \subseteq received
  <2>1. SUFFICES ASSUME pc[c] = "part" PROVE r.part \in 1..N /\ 1..(r.part - 1) \subseteq received
    BY <1>3
  <2>2. mem[c].completed \in 0..N /\ mem[c].completed < N /\ r.part = mem[c].completed + 1
    BY <1>1, <1>2, <2>1 DEF StateRecord
  <2>3. r.part - 1 = mem[c].completed /\ r.part \in 1..N
    BY <2>2, NAssumption
  <2>4. QED
    BY <1>1, <2>3 DEF StateFits
<1>8. QED
  BY <1>1, <1>2, <1>3, <1>6, <1>7 DEF RequestFits

\* What Core answers is true of it, for the process that reads it later.
LEMMA AnswerFits ==
  ASSUME TypeOK, IInv, NEW c \in Clients, pc[c] \in Posting,
         NEW s, s = AnswerTo(RequestOf(c)),
         CoreHandles(RequestOf(c)), CoreTypes', CoreFits', CoreGrows,
         UNCHANGED <<pc, mem>>
  PROVE  s \in Response /\ ReplyFits(c, s)'
<1> DEFINE r == RequestOf(c)
<1>1. r \in Request /\ RequestFits(r)
  BY OwnRequestFits
<1>2. /\ r.op = WireOp(pc[c]) /\ r.key = IF pc[c] = "begin" THEN DerivedKey ELSE mem[c].job
      /\ r.part = IF pc[c] = "part" THEN mem[c].completed + 1 ELSE 0
  BY DEF RequestOf, NextPart, BeginKey
<1>3. PICK k \in 0..N : received' = 1..k
  BY DEF CoreFits, AcceptedInOrder
<1>4. /\ s.code = CodeFor(r) /\ s.key = r.key /\ s.staging = staging'
      /\ s.job = job' /\ s.count = k /\ s.cont = cont'
      /\ s.replayed = (r.key \in keys)
  BY <1>3, PrefixSize DEF AnswerTo
<1>5. /\ mem[c] \in StateRecord /\ PlaceFits(c)
  BY DEF TypeOK, IInv, ClientFits
<1>6. CodeFor(r) \in ErrorCode \cup {"ok"}
  BY DEF CodeFor, ClosedCode, ErrorCode
<1>7. s \in Response
  <2>1. s = [code |-> CodeFor(r), key |-> r.key, replayed |-> r.key \in keys,
             staging |-> staging', job |-> job', count |-> k, cont |-> cont']
    BY <1>3, PrefixSize DEF AnswerTo
  <2>2. r.key \in Nat /\ (r.key \in keys) \in BOOLEAN
    BY <1>1 DEF Request
  <2>3. QED
    BY <1>6, <2>1, <2>2 DEF Response, CoreTypes
<1>8. staging' # "none"
  <2>1. CASE pc[c] = "begin"
    <3>1. r.op = "begin" /\ r.key = DerivedKey
      BY <1>2, <2>1 DEF WireOp
    <3>2. CASE r.key \in keys
      BY <3>2 DEF CoreGrows, IInv, CoreFits
    <3>3. CASE r.key \notin keys
      BY <3>1, <3>3 DEF CoreHandles, CoreBegin
    <3>4. QED
      BY <3>2, <3>3
  <2>2. CASE pc[c] # "begin"
    BY <2>2, <1>5 DEF PlaceFits, CoreGrows
  <2>3. QED
    BY <2>1, <2>2
<1>9. s.key = DerivedKey
  BY <1>2, <1>4, <1>5 DEF PlaceFits
<1>10. 1..s.count \subseteq received' /\ mem[c].completed <= s.count
  <2>1. 1..mem[c].completed \subseteq 1..k
    BY <1>3, <1>5 DEF PlaceFits, StateFits, CoreGrows
  <2>2. mem[c].completed \in Nat /\ k \in Nat
    BY <1>5, NAssumption DEF StateRecord
  <2>3. mem[c].completed <= k
    BY <2>1, <2>2
  <2>4. QED
    BY <1>3, <1>4, <2>3
<1>11. s.staging = "sealed" => s.count = N /\ s.job = "succeeded" /\ s.cont # "none"
  <2>1. SUFFICES ASSUME staging' = "sealed"
                 PROVE  k = N /\ job' = "succeeded" /\ cont' # "none"
    BY <1>4
  <2>2. 1..k = 1..N /\ job' = "succeeded" /\ cont' # "none"
    BY <1>3, <2>1 DEF CoreFits, PartsComplete
  <2>3. QED
    BY <2>2, NAssumption
<1>12. CASE r.op = "part"
  <2>1. pc[c] = "part"
    BY <1>12, <1>2, OwnRequestFits DEF WireOp, Posting
  <2>2. CorePart(r)
    BY <1>12 DEF CoreHandles
  <2>3. s.code = "ok" => NextPart(c) <= s.count
    <3>1. SUFFICES ASSUME CodeFor(r) = "ok" PROVE mem[c].completed + 1 <= k
      BY <1>4 DEF NextPart
    <3>2. r.part \in 1..k
      BY <1>3, <2>2, <3>1 DEF CorePart
    <3>3. QED
      BY <1>2, <2>1, <3>2
  <2>4. s.code # "incomplete_staging"
    BY <1>4, <1>12 DEF CodeFor, ClosedCode
  <2>5. s.code # "ok" => Settled
    BY <1>4, <1>12, <2>1, <1>5 DEF CodeFor, Accepting, Settled, PlaceFits, Posting, IInv,
       TypeOK, Staging
  <2>6. QED
    BY <1>4, <1>7, <1>8, <1>9, <1>10, <1>11, <2>1, <2>3, <2>4, <2>5
       DEF ReplyFits, Settled, CoreGrows, NextPart
<1>13. CASE r.op = "commit"
  <2>1. pc[c] \in {"commit", "recommit"} /\ mem[c].completed = N
    BY <1>13, <1>2, <1>5 DEF WireOp, Posting, PlaceFits
  <2>2. PartsComplete /\ staging # "none"
    BY <2>1, <1>5 DEF PlaceFits, StateFits, PartsComplete, Posting, TypeOK
  <2>3. CoreCommit(r)
    BY <1>13 DEF CoreHandles
  <2>4. /\ s.code = "ok" => staging' = "sealed"
        /\ s.code # "incomplete_staging"
        /\ s.code # "ok" => Settled
    BY <1>4, <1>13, <2>2, <2>3 DEF CodeFor, ClosedCode, CoreCommit, Accepting, Settled,
       coreVars, TypeOK, Staging
  <2>5. QED
    BY <1>4, <1>7, <1>8, <1>9, <1>10, <1>11, <2>1, <2>4
       DEF ReplyFits, Settled, CoreGrows, NextPart
<1>14. CASE r.op \in {"begin", "status", "poll"}
  <2>1. s.code = "ok"
    BY <1>4, <1>14 DEF CodeFor
  <2>2. pc[c] \notin {"part", "commit", "recommit"}
    BY <1>14, <1>2 DEF WireOp
  <2>3. pc[c] \in {"poll", "recover"} => staging' = "sealed"
    BY <1>5 DEF PlaceFits, CoreGrows
  <2>4. QED
    BY <1>4, <1>7, <1>8, <1>9, <1>10, <1>11, <2>1, <2>2, <2>3
       DEF ReplyFits, Settled, CoreGrows, NextPart
<1>15. QED
  BY <1>1, <1>12, <1>13, <1>14 DEF Request

-----------------------------------------------------------------------------
(* One lemma per action.  Core first.                                      *)

\* A step of Core that leaves the processes and the network alone.
LEMMA CoreAloneStep ==
  ASSUME TypeOK, IInv, CoreTypes', CoreFits', CoreGrows,
         staging' # "none" => staging # "none",
         UNCHANGED <<strays, reply, pc, mem, replayed, attempts, verdict, disk,
                     announced, budgetVars>>
  PROVE  TypeOK' /\ IInv'
<1>1. TypeOK'
  BY DEF TypeOK, CoreTypes, budgetVars
<1>2. RecordFits'
  BY RecordFrame DEF IInv, BeginPending
<1>3. \A d \in Clients : ClientFits(d)'
  BY ClientFrame DEF IInv
<1>4. \A r \in strays' : RequestFits(r)'
  BY RequestFrame DEF IInv
<1>5. QED
  BY <1>1, <1>2, <1>3, <1>4, AnnouncedFrame DEF IInv

LEMMA EnvironmentStep ==
  ASSUME TypeOK, IInv, Environment
  PROVE  TypeOK' /\ IInv'
<1> USE DEF CoreTypes, CoreFits, CoreGrows, Settled, AcceptedInOrder, PartsComplete,
          Staging, JobState, ContState
<1>1. CASE Expire
  BY <1>1, CoreAloneStep DEF Expire, TypeOK, IInv
<1>2. CASE StagingJobChanges
  BY <1>2, CoreAloneStep DEF StagingJobChanges, TypeOK, IInv
<1>3. CASE ContinuationStep
  BY <1>3, CoreAloneStep DEF ContinuationStep, TypeOK, IInv
<1>4. CASE StrayArrives
  <2>1. PICK r \in strays :
          /\ strays' = strays \ {r}
          /\ CoreHandles(r)
          /\ UNCHANGED <<reply, pc, mem, replayed, attempts, verdict, disk,
                         announced, budgetVars>>
    BY <1>4 DEF StrayArrives
  <2>2. r \in Request /\ RequestFits(r)
    BY DEF TypeOK, IInv
  <2>3. CoreTypes' /\ CoreFits' /\ CoreGrows
    BY <2>1, <2>2, CoreStep DEF TypeOK, IInv
  <2>4. TypeOK'
    BY <2>1, <2>3 DEF TypeOK, budgetVars
  <2>5. RecordFits'
    <3>1. BeginPending' => BeginPending
      BY <2>1 DEF BeginPending
    <3>2. staging' # "none" => staging # "none" \/ BeginPending
      BY <2>1, <2>2 DEF RequestFits, BeginPending
    <3>3. QED
      BY <2>1, <2>3, <3>1, <3>2, RecordFrame DEF IInv
  <2>6. \A d \in Clients : ClientFits(d)'
    BY <2>1, <2>3, ClientFrame DEF IInv
  <2>7. \A q \in strays' : RequestFits(q)'
    BY <2>1, <2>3, RequestFrame DEF IInv
  <2>8. AnnouncedFits'
    BY <2>1, <2>3, AnnouncedFrame DEF IInv
  <2>9. QED
    BY <2>3, <2>4, <2>5, <2>6, <2>7, <2>8 DEF IInv
<1>5. QED
  BY <1>1, <1>2, <1>3, <1>4 DEF Environment

-----------------------------------------------------------------------------
(* The beginning and the end of an invocation.                             *)

LEMMA StartStep ==
  ASSUME TypeOK, IInv, NEW c \in Clients,
         PreflightFails(c) \/ StartFresh(c) \/ StartRefused(c)
  PROVE  TypeOK' /\ IInv'
<1> USE DEF PreflightFails, StartFresh, StartRefused, Conclude, Goto
<1>1. UNCHANGED coreVars /\ UNCHANGED <<strays, disk, reply, announced>>
  OBVIOUS
<1>2. CoreGrows /\ CoreFits'
  BY <1>1, NothingGrows, SameCoreFits DEF IInv
<1>3. TypeOK'
  <2>1. FreshState \in StateRecord
    BY NAssumption DEF FreshState, StateRecord, NoJob
  <2>2. {"transport_retry_exhausted", "resume_required", "resume_state_not_found"}
          \subseteq Verdict
    BY DEF Verdict, Retryable, Refusal
  <2>3. {"create", "output"} \subseteq PC
    BY DEF PC
  <2>4. CASE PreflightFails(c)
    BY <2>2, <2>3, <2>4 DEF TypeOK, coreVars
  <2>5. CASE StartFresh(c)
    BY <2>1, <2>3, <2>5 DEF TypeOK, coreVars
  <2>6. CASE StartRefused(c)
    BY <2>2, <2>3, <2>6 DEF TypeOK, coreVars, budgetVars
  <2>7. QED
    BY <2>4, <2>5, <2>6
<1>4. pc'[c] \in {"output", "create"} /\ pc[c] = "idle"
  BY DEF TypeOK
<1>5. ClientFits(c)'
  <2>1. PlaceFits(c)'
    <3>1. StateFits(mem[c])'
      BY <1>1 DEF TypeOK, IInv, ClientFits, PlaceFits, StateFits, FreshState, NoJob, coreVars
    <3>2. QED
      BY <1>4, <3>1 DEF PlaceFits, Posting
  <2>2. reply'[c] = NoReply
    BY <1>1, <1>4 DEF IInv, ClientFits, ReplyFits, Posting
  <2>3. VerdictFits(c)'
    BY <1>1 DEF TypeOK, IInv, ClientFits, VerdictFits, Contract, Success, Discards, Terminal,
       Settled, coreVars
  <2>4. QED
    BY <2>1, <2>2, <2>3 DEF ClientFits
<1>6. RecordFits'
  <2>1. BeginPending' => BeginPending
    BY <1>1, <1>4 DEF BeginPending, TypeOK
  <2>2. QED
    BY <1>1, <1>2, <2>1, RecordFrame DEF IInv, coreVars
<1>7. \A d \in Clients \ {c} : /\ pc'[d] = pc[d] /\ mem'[d] = mem[d]
                               /\ reply'[d] = reply[d] /\ verdict'[d] = verdict[d]
  BY DEF TypeOK
<1>8. QED
  BY <1>1, <1>2, <1>3, <1>5, <1>6, <1>7, Assemble, AnnouncedFrame DEF IInv

LEMMA ResumeStep ==
  ASSUME TypeOK, IInv, NEW c \in Clients, StartResume(c)
  PROVE  TypeOK' /\ IInv'
<1> USE DEF StartResume, Goto
<1>1. UNCHANGED coreVars /\ UNCHANGED <<strays, disk, reply, announced, verdict>>
  OBVIOUS
<1>2. CoreGrows /\ CoreFits'
  BY <1>1, NothingGrows, SameCoreFits DEF IInv
<1>3. disk # NoState /\ disk \in StateRecord /\ StateFits(disk)
  BY DEF TypeOK, IInv, RecordFits
<1>4. TypeOK'
  BY <1>1, <1>3 DEF TypeOK, coreVars, budgetVars, PC, Posting
<1>5. ClientFits(c)'
  <2>1. pc'[c] = "begin" /\ mem'[c] = disk /\ pc[c] = "idle"
    BY DEF TypeOK
  <2>2. PlaceFits(c)'
    BY <1>1, <1>3, <2>1 DEF PlaceFits, StateFits, coreVars
  <2>3. reply'[c] = NoReply
    BY <1>1, <2>1 DEF IInv, ClientFits, ReplyFits, Posting
  <2>4. VerdictFits(c)'
    BY <1>1 DEF IInv, ClientFits, VerdictFits, Settled, coreVars
  <2>5. QED
    BY <2>2, <2>3, <2>4 DEF ClientFits
<1>6. RecordFits'
  BY <1>1, <1>3 DEF RecordFits, StateFits, coreVars
<1>7. \A d \in Clients \ {c} : /\ pc'[d] = pc[d] /\ mem'[d] = mem[d]
                               /\ reply'[d] = reply[d] /\ verdict'[d] = verdict[d]
  BY DEF TypeOK
<1>8. QED
  BY <1>1, <1>2, <1>4, <1>5, <1>6, <1>7, Assemble, AnnouncedFrame DEF IInv

LEMMA CreateStep ==
  ASSUME TypeOK, IInv, NEW c \in Clients, CreateState(c)
  PROVE  TypeOK' /\ IInv'
<1> USE DEF CreateState, Save, Goto
<1>1. UNCHANGED coreVars /\ UNCHANGED <<strays, reply, announced, verdict>>
  OBVIOUS
<1>2. CoreGrows /\ CoreFits'
  BY <1>1, NothingGrows, SameCoreFits DEF IInv
<1>3. FreshState \in StateRecord /\ StateFits(FreshState)' /\ FreshState # NoState
  BY NAssumption, NoStateAssumption DEF FreshState, StateRecord, StateFits, NoJob
<1>4. TypeOK'
  BY <1>1, <1>3 DEF TypeOK, coreVars, budgetVars, PC, Posting
<1>5. ClientFits(c)'
  <2>1. pc'[c] = "begin" /\ mem'[c] = FreshState /\ pc[c] = "create"
    BY DEF TypeOK
  <2>2. PlaceFits(c)'
    BY <1>1, <1>3, <2>1 DEF PlaceFits, StateFits, coreVars
  <2>3. reply'[c] = NoReply
    BY <1>1, <2>1 DEF IInv, ClientFits, ReplyFits, Posting
  <2>4. VerdictFits(c)'
    BY <1>1 DEF IInv, ClientFits, VerdictFits, Settled, coreVars
  <2>5. QED
    BY <2>2, <2>3, <2>4 DEF ClientFits
<1>6. RecordFits'
  BY <1>3 DEF RecordFits, StateFits
<1>7. \A d \in Clients \ {c} : /\ pc'[d] = pc[d] /\ mem'[d] = mem[d]
                               /\ reply'[d] = reply[d] /\ verdict'[d] = verdict[d]
  BY DEF TypeOK
<1>8. QED
  BY <1>1, <1>2, <1>4, <1>5, <1>6, <1>7, Assemble, AnnouncedFrame DEF IInv

LEMMA OutputStep ==
  ASSUME TypeOK, IInv, NEW c \in Clients, Output(c)
  PROVE  TypeOK' /\ IInv'
<1> USE DEF Output, Goto
<1>1. UNCHANGED coreVars /\ UNCHANGED <<strays, reply, mem, verdict, disk>>
  OBVIOUS
<1>2. CoreGrows /\ CoreFits'
  BY <1>1, NothingGrows, SameCoreFits DEF IInv
<1>3. TypeOK'
  BY <1>1 DEF TypeOK, coreVars, budgetVars, PC, Posting
<1>4. pc'[c] = "finalize" /\ pc[c] = "output"
  BY DEF TypeOK
<1>5. ClientFits(c)'
  <2>1. PlaceFits(c)'
    BY <1>1, <1>4 DEF IInv, ClientFits, PlaceFits, StateFits, coreVars, Posting
  <2>2. reply'[c] = NoReply
    BY <1>1, <1>4 DEF IInv, ClientFits, ReplyFits, Posting
  <2>3. VerdictFits(c)'
    BY <1>1 DEF IInv, ClientFits, VerdictFits, Settled, coreVars
  <2>4. QED
    BY <2>1, <2>2, <2>3 DEF ClientFits
<1>6. RecordFits'
  <2>1. BeginPending' => BeginPending
    BY <1>1, <1>4 DEF BeginPending, TypeOK
  <2>2. QED
    BY <1>1, <1>2, <2>1, RecordFrame DEF IInv, coreVars
<1>7. AnnouncedFits'
  BY <1>1 DEF IInv, AnnouncedFits, ClientFits, VerdictFits, coreVars
<1>8. \A d \in Clients \ {c} : /\ pc'[d] = pc[d] /\ mem'[d] = mem[d]
                               /\ reply'[d] = reply[d] /\ verdict'[d] = verdict[d]
  BY DEF TypeOK
<1>9. QED
  BY <1>1, <1>2, <1>3, <1>5, <1>6, <1>7, <1>8, Assemble

\* A process that stops running keeps nothing that could be wrong.
LEMMA ForgetFits ==
  ASSUME TypeOK, NEW c \in Clients, Forget(c)
  PROVE  /\ ClientFits(c)'
         /\ pc' \in [Clients -> PC] /\ mem' \in [Clients -> StateRecord]
         /\ replayed' \in [Clients -> BOOLEAN] /\ attempts' \in [Clients -> Nat]
         /\ reply' \in [Clients -> Response \cup {NoReply}]
         /\ verdict' \in [Clients -> Verdict \cup {"none"}]
         /\ pc'[c] = "idle"
         /\ \A d \in Clients \ {c} : /\ pc'[d] = pc[d] /\ mem'[d] = mem[d]
                                     /\ reply'[d] = reply[d] /\ verdict'[d] = verdict[d]
<1> USE DEF Forget, TypeOK
<1>1. FreshState \in StateRecord /\ "idle" \in PC
  BY NAssumption DEF FreshState, StateRecord, NoJob, PC
<1>2. /\ pc'[c] = "idle" /\ mem'[c] = FreshState /\ reply'[c] = NoReply
      /\ verdict'[c] = "none"
  OBVIOUS
<1>3. StateFits(FreshState)'
  BY DEF StateFits, FreshState, NoJob
<1>4. PlaceFits(c)'
  BY <1>2, <1>3 DEF PlaceFits, StateFits, Posting
<1>5. VerdictFits(c)'
  BY <1>2 DEF VerdictFits, Contract, Success, Discards, Terminal
<1>6. QED
  BY <1>1, <1>2, <1>4, <1>5 DEF ClientFits

LEMMA FinalizeStep ==
  ASSUME TypeOK, IInv, NEW c \in Clients, Finalize(c)
  PROVE  TypeOK' /\ IInv'
<1> USE DEF Finalize
<1>1. UNCHANGED coreVars /\ UNCHANGED <<strays, announced>>
  OBVIOUS
<1>2. CoreGrows /\ CoreFits'
  BY <1>1, NothingGrows, SameCoreFits DEF IInv
<1>3. TypeOK'
  BY <1>1, ForgetFits DEF TypeOK, coreVars, budgetVars
<1>4. RecordFits'
  <2>1. CASE RemovesState(c)
    <3>1. Settled
      BY <2>1 DEF RemovesState, IInv, ClientFits, VerdictFits, Settled
    <3>2. QED
      BY <2>1, <3>1, <1>2 DEF RecordFits, CoreGrows
  <2>2. CASE ~RemovesState(c)
    <3>1. BeginPending' => BeginPending
      BY <1>1, ForgetFits DEF BeginPending
    <3>2. QED
      BY <1>1, <1>2, <2>2, <3>1, RecordFrame DEF IInv, coreVars
  <2>3. QED
    BY <2>1, <2>2
<1>5. QED
  BY <1>1, <1>2, <1>3, <1>4, ForgetFits, Assemble, AnnouncedFrame DEF IInv

-----------------------------------------------------------------------------
(* Requests that are answered, and requests that are not.                  *)

LEMMA DeliverStep ==
  ASSUME TypeOK, IInv, NEW c \in Clients, Deliver(c)
  PROVE  TypeOK' /\ IInv'
<1> USE DEF Deliver
<1>1. /\ pc[c] \in Posting /\ reply[c] = NoReply
      /\ CoreHandles(RequestOf(c))
      /\ reply' = [reply EXCEPT ![c] = AnswerTo(RequestOf(c))]
      /\ UNCHANGED <<strays, pc, mem, replayed, attempts, verdict, disk, announced>>
      /\ UNCHANGED budgetVars
  OBVIOUS
<1>2. CoreTypes' /\ CoreFits' /\ CoreGrows
  BY <1>1, OwnRequestFits, CoreStep DEF TypeOK, IInv, CoreTypes
<1>3. PICK s : s = AnswerTo(RequestOf(c))
  OBVIOUS
<1>4. s \in Response /\ ReplyFits(c, s)'
  BY <1>1, <1>2, <1>3, AnswerFits
<1>5. reply'[c] = s
  BY <1>1, <1>3 DEF TypeOK
<1>6. TypeOK'
  BY <1>1, <1>2, <1>3, <1>4 DEF TypeOK, CoreTypes, budgetVars
<1>7. ClientFits(c)'
  <2>1. PlaceFits(c)'
    BY <1>1, <1>2 DEF IInv, ClientFits, PlaceFits, StateFits, CoreGrows
  <2>2. ReplyFits(c, reply[c])'
    BY <1>4, <1>5 DEF ReplyFits, NextPart
  <2>3. VerdictFits(c)'
    BY <1>1, <1>2 DEF IInv, ClientFits, VerdictFits, CoreGrows
  <2>4. QED
    BY <2>1, <2>2, <2>3 DEF ClientFits
<1>8. RecordFits'
  <2>1. BeginPending' => BeginPending
    BY <1>1 DEF BeginPending
  <2>2. staging' # "none" => staging # "none" \/ BeginPending
    BY <1>1 DEF IInv, ClientFits, PlaceFits, BeginPending, Posting
  <2>3. QED
    BY <1>1, <1>2, <2>1, <2>2, RecordFrame DEF IInv
<1>9. \A d \in Clients \ {c} : /\ pc'[d] = pc[d] /\ mem'[d] = mem[d]
                               /\ reply'[d] = reply[d] /\ verdict'[d] = verdict[d]
  BY <1>1 DEF TypeOK
<1>10. QED
  BY <1>1, <1>2, <1>6, <1>7, <1>8, <1>9, Assemble, AnnouncedFrame DEF IInv

\* A request that gets no answer may have been handled or may be handled
\* later; either way Core's invariant holds.
LEMMA UnansweredFits ==
  ASSUME TypeOK, IInv, NEW c \in Clients, pc[c] \in Posting, Unanswered(RequestOf(c))
  PROVE  /\ CoreTypes' /\ CoreFits' /\ CoreGrows
         /\ strays' \in SUBSET Request
         /\ \A r \in strays' \ strays : RequestFits(r)'
         /\ staging' # "none" => staging # "none" \/ BeginPending
         /\ (\E r \in strays' : r.op = "begin") => BeginPending
<1>0. PICK q : q = RequestOf(c)
  OBVIOUS
<1>1. q \in Request /\ RequestFits(q)
  BY <1>0, OwnRequestFits
<1>2. q.op = "begin" => pc[c] = "begin"
  BY <1>0 DEF RequestOf, WireOp, Posting
<1>3. staging # "none" \/ pc[c] = "begin"
  BY DEF IInv, ClientFits, PlaceFits, Posting
<1>4. CASE CoreHandles(q) /\ UNCHANGED strays
  BY <1>1, <1>3, <1>4, CoreStep DEF TypeOK, IInv, CoreTypes, BeginPending
<1>5. CASE UNCHANGED coreVars /\ strays' \in {strays, strays \cup {q}}
  <2>1. CoreGrows /\ CoreFits' /\ CoreTypes'
    BY <1>5, NothingGrows, SameCoreFits DEF IInv, TypeOK, CoreTypes, coreVars
  <2>2. RequestFits(q)'
    BY <1>1, <2>1, RequestFrame
  <2>3. strays' \in SUBSET Request /\ (\A r \in strays' \ strays : RequestFits(r)')
    BY <1>1, <1>5, <2>2 DEF TypeOK
  <2>4. (\E r \in strays' : r.op = "begin") => BeginPending
    BY <1>2, <1>5 DEF BeginPending
  <2>5. QED
    BY <1>5, <2>1, <2>3, <2>4 DEF coreVars
<1>6. QED
  BY <1>0, <1>4, <1>5 DEF Unanswered, coreVars

\* What GiveUp concludes is no lie about Core.
LEMMA GiveUpFits ==
  ASSUME TypeOK, IInv, NEW c \in Clients, pc[c] \in Posting, GiveUp(c), CoreGrows,
         mem' = mem, reply'[c] = NoReply
  PROVE  /\ ClientFits(c)'
         /\ pc' \in [Clients -> PC] /\ verdict' \in [Clients -> Verdict \cup {"none"}]
         /\ pc'[c] = "output"
         /\ \A d \in Clients \ {c} : pc'[d] = pc[d] /\ verdict'[d] = verdict[d]
<1> USE DEF GiveUp, Conclude
<1>1. PICK v : v = IF pc[c] = "refresh" THEN "staging_not_open"
                                        ELSE "transport_retry_exhausted"
  OBVIOUS
<1>2. v \in Verdict /\ "output" \in PC
  BY <1>1 DEF Verdict, Terminal, Retryable, PC
<1>3. pc'[c] = "output" /\ verdict'[c] = v
  BY <1>1 DEF TypeOK
<1>4. PlaceFits(c)'
  BY <1>3 DEF IInv, ClientFits, PlaceFits, StateFits, CoreGrows, Posting
<1>5. VerdictFits(c)'
  <2>1. v = "staging_not_open" => Settled'
    BY <1>1 DEF IInv, ClientFits, PlaceFits, CoreGrows
  <2>2. QED
    BY <1>1, <1>3, <2>1 DEF VerdictFits, Contract, Success, Discards, Terminal
<1>6. QED
  BY <1>1, <1>2, <1>3, <1>4, <1>5 DEF ClientFits, TypeOK

LEMMA AttemptFailsStep ==
  ASSUME TypeOK, IInv, NEW c \in Clients, AttemptFails(c)
  PROVE  TypeOK' /\ IInv'
<1> USE DEF AttemptFails
<1>1. /\ CoreTypes' /\ CoreFits' /\ CoreGrows
      /\ strays' \in SUBSET Request
      /\ \A r \in strays' \ strays : RequestFits(r)'
      /\ staging' # "none" => staging # "none" \/ BeginPending
      /\ (\E r \in strays' : r.op = "begin") => BeginPending
  BY UnansweredFits
<1>2. pc[c] \in Posting /\ reply[c] = NoReply
      /\ UNCHANGED <<reply, mem, replayed, disk, announced, runs, timeouts, crashes>>
  OBVIOUS
<1>3. /\ ClientFits(c)'
      /\ pc' \in [Clients -> PC] /\ verdict' \in [Clients -> Verdict \cup {"none"}]
      /\ pc'[c] \in {pc[c], "output"}
      /\ \A d \in Clients \ {c} : pc'[d] = pc[d] /\ verdict'[d] = verdict[d]
  <2>1. CASE UNCHANGED <<pc, verdict>>
    BY <1>1, <1>2, <2>1, ClientFrame DEF TypeOK, IInv
  <2>2. CASE GiveUp(c)
    BY <1>1, <1>2, <2>2, GiveUpFits
  <2>3. QED
    BY <2>1, <2>2
<1>4. attempts' \in [Clients -> Nat] /\ faults' \in Nat
  BY DEF TypeOK
<1>5. TypeOK'
  BY <1>1, <1>2, <1>3, <1>4 DEF TypeOK, CoreTypes
<1>6. RecordFits'
  <2>1. BeginPending' => BeginPending
    BY <1>1, <1>3 DEF BeginPending
  <2>2. QED
    BY <1>1, <1>2, <2>1, RecordFrame DEF IInv
<1>7. QED
  BY <1>1, <1>2, <1>3, <1>5, <1>6, Assemble, AnnouncedFrame DEF IInv

LEMMA DeadlineStep ==
  ASSUME TypeOK, IInv, NEW c \in Clients, DeadlinePasses(c)
  PROVE  TypeOK' /\ IInv'
<1> USE DEF DeadlinePasses, UnderDeadline
<1>1. /\ CoreTypes' /\ CoreFits' /\ CoreGrows
      /\ strays' \in SUBSET Request
      /\ \A r \in strays' \ strays : RequestFits(r)'
      /\ staging' # "none" => staging # "none" \/ BeginPending
      /\ (\E r \in strays' : r.op = "begin") => BeginPending
  <2>1. CASE reply[c] = NoReply
    BY <2>1, UnansweredFits
  <2>2. CASE reply[c] # NoReply
    BY <2>2, NothingGrows, SameCoreFits DEF IInv, TypeOK, CoreTypes, coreVars, BeginPending
  <2>3. QED
    BY <2>1, <2>2
<1>2. /\ pc[c] \in Posting /\ reply'[c] = NoReply
      /\ reply' \in [Clients -> Response \cup {NoReply}]
      /\ \A d \in Clients \ {c} : reply'[d] = reply[d]
      /\ UNCHANGED <<mem, replayed, attempts, disk, announced, runs, faults, crashes>>
  BY DEF TypeOK
<1>3. /\ ClientFits(c)'
      /\ pc' \in [Clients -> PC] /\ verdict' \in [Clients -> Verdict \cup {"none"}]
      /\ pc'[c] = "output"
      /\ \A d \in Clients \ {c} : pc'[d] = pc[d] /\ verdict'[d] = verdict[d]
  BY <1>1, <1>2, GiveUpFits
<1>4. timeouts' \in Nat
  BY DEF TypeOK
<1>5. TypeOK'
  BY <1>1, <1>2, <1>3, <1>4 DEF TypeOK, CoreTypes
<1>6. RecordFits'
  <2>1. BeginPending' => BeginPending
    BY <1>1, <1>3 DEF BeginPending
  <2>2. QED
    BY <1>1, <1>2, <2>1, RecordFrame DEF IInv
<1>7. QED
  BY <1>1, <1>2, <1>3, <1>5, <1>6, Assemble, AnnouncedFrame DEF IInv

LEMMA CrashStep ==
  ASSUME TypeOK, IInv, NEW c \in Clients, Crash(c)
  PROVE  TypeOK' /\ IInv'
<1> USE DEF Crash
<1>1. /\ CoreTypes' /\ CoreFits' /\ CoreGrows
      /\ strays' \in SUBSET Request
      /\ \A r \in strays' \ strays : RequestFits(r)'
      /\ staging' # "none" => staging # "none" \/ BeginPending
      /\ (\E r \in strays' : r.op = "begin") => BeginPending
  <2>1. CASE pc[c] \in Posting /\ reply[c] = NoReply
    BY <2>1, UnansweredFits
  <2>2. CASE ~(pc[c] \in Posting /\ reply[c] = NoReply)
    BY <2>2, NothingGrows, SameCoreFits DEF IInv, TypeOK, CoreTypes, coreVars, BeginPending
  <2>3. QED
    BY <2>1, <2>2
<1>2. TypeOK'
  BY <1>1, ForgetFits DEF TypeOK, CoreTypes
<1>3. RecordFits'
  <2>1. BeginPending' => BeginPending
    BY <1>1, ForgetFits DEF BeginPending
  <2>2. QED
    BY <1>1, <2>1, RecordFrame DEF IInv
<1>4. QED
  BY <1>1, <1>2, <1>3, ForgetFits, Assemble, AnnouncedFrame DEF IInv

-----------------------------------------------------------------------------
(* Handlers of responses.                                                  *)

\* What is left to show of a handler: the state it moves to, the place it
\* goes to and the verdict it gives fit Core.
LEMMA AfterReading ==
  ASSUME TypeOK, IInv, NEW c \in Clients, pc[c] \in Posting,
         NEW st \in StateRecord, NEW place \in PC, NEW v \in Verdict \cup {"none"},
         UNCHANGED <<coreVars, strays, announced, budgetVars>>,
         reply' = [reply EXCEPT ![c] = NoReply],
         attempts' = [attempts EXCEPT ![c] = 0],
         replayed' \in [Clients -> BOOLEAN],
         mem' = [mem EXCEPT ![c] = st],
         disk' \in {disk, st},
         pc' = [pc EXCEPT ![c] = place],
         verdict' = [verdict EXCEPT ![c] = v],
         StateFits(st), place # "begin", staging # "none",
         place \in Posting => st.job = DerivedKey,
         place = "part" => st.completed < N,
         place \in {"commit", "recommit"} => st.completed = N,
         place \in {"poll", "recover"} => staging = "sealed",
         place = "refresh" => Settled,
         v \notin Contract,
         v \in Success => staging = "sealed",
         v = "succeeded" => cont = "succeeded",
         v \in Discards => Settled
  PROVE  TypeOK' /\ IInv'
<1>1. CoreGrows /\ CoreFits'
  BY NothingGrows, SameCoreFits DEF IInv
<1>2. TypeOK'
  BY DEF TypeOK, coreVars, budgetVars
<1>3. pc'[c] = place /\ mem'[c] = st /\ reply'[c] = NoReply /\ verdict'[c] = v
  BY DEF TypeOK
<1>4. ClientFits(c)'
  <2>1. PlaceFits(c)'
    BY <1>3 DEF PlaceFits, StateFits, coreVars, Settled
  <2>2. VerdictFits(c)'
    BY <1>3 DEF VerdictFits, coreVars, Settled
  <2>3. QED
    BY <1>3, <2>1, <2>2 DEF ClientFits
<1>5. RecordFits'
  BY NoStateAssumption DEF IInv, RecordFits, StateFits, coreVars, Settled
<1>6. \A d \in Clients \ {c} : /\ pc'[d] = pc[d] /\ mem'[d] = mem[d]
                               /\ reply'[d] = reply[d] /\ verdict'[d] = verdict[d]
  BY DEF TypeOK
<1>7. QED
  BY <1>1, <1>2, <1>4, <1>5, <1>6, Assemble, AnnouncedFrame DEF IInv

\* What a process that reads a response knows.
LEMMA Reading ==
  ASSUME TypeOK, IInv, NEW c \in Clients, NEW places \in SUBSET Posting, Reads(c, places)
  PROVE  /\ pc[c] \in places /\ reply[c] \in Response /\ ReplyFits(c, reply[c])
         /\ mem[c] \in StateRecord /\ PlaceFits(c) /\ VerdictFits(c)
         /\ verdict[c] \in Verdict \cup {"none"}
         /\ mem = [mem EXCEPT ![c] = mem[c]]
         /\ pc = [pc EXCEPT ![c] = pc[c]]
         /\ verdict = [verdict EXCEPT ![c] = verdict[c]]
         /\ replayed \in [Clients -> BOOLEAN]
         /\ UNCHANGED <<coreVars, strays, announced, budgetVars>>
         /\ reply' = [reply EXCEPT ![c] = NoReply]
         /\ attempts' = [attempts EXCEPT ![c] = 0]
BY DEF Reads, TypeOK, IInv, ClientFits

LEMMA OnBeginStep ==
  ASSUME TypeOK, IInv, NEW c \in Clients, OnBegin(c)
  PROVE  TypeOK' /\ IInv'
<1>1. PICK s : s = reply[c]
  OBVIOUS
<1>2. Reads(c, {"begin"}) /\ {"begin"} \in SUBSET Posting
  BY DEF OnBegin, Posting
<1>3. /\ pc[c] = "begin" /\ s \in Response /\ ReplyFits(c, s)
      /\ mem[c] \in StateRecord /\ PlaceFits(c) /\ VerdictFits(c)
  BY <1>1, <1>2, Reading
<1>4. PICK st : st = [mem[c] EXCEPT !.job = s.key]
  OBVIOUS
<1>5. /\ st \in StateRecord /\ st.job = DerivedKey /\ st.completed = mem[c].completed
      /\ StateFits(st)
  BY <1>3, <1>4 DEF StateRecord, ReplyFits, StateFits, PlaceFits, DerivedKey
<1>6. mem[c].job \in {NoJob, s.key}
  BY <1>3 DEF PlaceFits, StateFits, ReplyFits
<1>7. PICK place : place = IF s.replayed THEN "status" ELSE Transfer(st)
  OBVIOUS
<1>8. /\ mem' = [mem EXCEPT ![c] = st] /\ disk' = st
      /\ pc' = [pc EXCEPT ![c] = place]
      /\ replayed' = [replayed EXCEPT ![c] = s.replayed]
      /\ verdict' = verdict
  BY <1>1, <1>4, <1>6, <1>7 DEF OnBegin, Save, Goto
<1>9. /\ place \in {"status", "part", "commit"}
      /\ place = "part" => st.completed < N
      /\ place = "commit" => st.completed = N
  BY <1>5, <1>7, NAssumption DEF Transfer, StateRecord
<1>10. replayed' \in [Clients -> BOOLEAN]
  BY <1>3, <1>8 DEF TypeOK, Response
<1>11. staging # "none"
  BY <1>3 DEF ReplyFits
<1>12. QED
  <2>1. place \in PC /\ pc[c] \in Posting
    BY <1>3, <1>9 DEF PC, Posting
  <2>2. /\ verdict[c] \in Verdict \cup {"none"}
        /\ verdict' = [verdict EXCEPT ![c] = verdict[c]]
        /\ UNCHANGED <<coreVars, strays, announced, budgetVars>>
        /\ reply' = [reply EXCEPT ![c] = NoReply]
        /\ attempts' = [attempts EXCEPT ![c] = 0]
    BY <1>2, <1>8, Reading
  <2>3. PICK v : v = verdict[c]
    OBVIOUS
  <2>4. /\ v \notin Contract /\ (v \in Success => staging = "sealed")
        /\ (v = "succeeded" => cont = "succeeded") /\ (v \in Discards => Settled)
    BY <1>3, <2>3 DEF VerdictFits
  <2>5. QED
    BY <1>5, <1>8, <1>9, <1>10, <1>11, <2>1, <2>2, <2>3, <2>4, AfterReading

\* Reconciliation with a status that fits never meets a contract violation,
\* reports an end only of a record that is closed, and adopts what fits.
LEMMA ReconcileFits ==
  ASSUME TypeOK, IInv, NEW c \in Clients, NEW s \in Response, ReplyFits(c, s),
         mem[c] \in StateRecord, PlaceFits(c)
  PROVE  /\ StatusError(c, s) \in {"ok", "staging_expired", "terminal_failed", "retryable_failed"}
         /\ StatusError(c, s) \in {"staging_expired", "terminal_failed"} => Settled
         /\ Adopted(c, s) \in StateRecord /\ StateFits(Adopted(c, s))
         /\ Adopted(c, s).job = mem[c].job /\ Adopted(c, s).completed = s.count
         /\ s.staging = "sealed" => Settled /\ s.count = N
<1>1. mem[c].completed \in 0..N /\ s.count \in 0..N /\ mem[c].completed <= s.count
  BY DEF StateRecord, Response, ReplyFits
<1>2. s.staging \in Staging \ {"none"}
  BY DEF Response, ReplyFits
<1>3. /\ Adopted(c, s) = [mem[c] EXCEPT !.completed = s.count]
      /\ Adopted(c, s) \in StateRecord /\ Adopted(c, s).job = mem[c].job
      /\ Adopted(c, s).completed = s.count
  BY <1>1 DEF Adopted, StateRecord
<1>4. StateFits(Adopted(c, s))
  BY <1>3 DEF StateFits, ReplyFits, PlaceFits
<1>5. ~(mem[c].completed > s.count)
  BY <1>1, NAssumption
<1>6. s.staging = "sealed" => s.count = N /\ s.job = "succeeded" /\ Settled
  BY DEF ReplyFits
<1>7. StatusError(c, s) \in {"ok", "staging_expired", "terminal_failed", "retryable_failed"}
  BY <1>2, <1>5, <1>6 DEF StatusError, Staging
<1>8. StatusError(c, s) \in {"staging_expired", "terminal_failed"} => Settled
  BY <1>2, <1>5, <1>6 DEF StatusError, Staging, ReplyFits
<1>9. QED
  BY <1>3, <1>4, <1>6, <1>7, <1>8

LEMMA OnStatusStep ==
  ASSUME TypeOK, IInv, NEW c \in Clients, OnStatus(c)
  PROVE  TypeOK' /\ IInv'
<1>1. PICK s : s = reply[c]
  OBVIOUS
<1>2. Reads(c, {"status"}) /\ {"status"} \in SUBSET Posting
  BY DEF OnStatus, Posting
<1>3. /\ pc[c] = "status" /\ s \in Response /\ ReplyFits(c, s)
      /\ mem[c] \in StateRecord /\ PlaceFits(c) /\ VerdictFits(c)
      /\ verdict[c] \in Verdict \cup {"none"}
      /\ UNCHANGED <<coreVars, strays, announced, budgetVars>>
      /\ reply' = [reply EXCEPT ![c] = NoReply]
      /\ attempts' = [attempts EXCEPT ![c] = 0]
  BY <1>1, <1>2, Reading
<1>4. pc[c] \in Posting /\ staging # "none" /\ mem[c].job = DerivedKey
      /\ replayed' \in [Clients -> BOOLEAN] /\ StateFits(mem[c])
  BY <1>3 DEF PlaceFits, Posting, OnStatus, TypeOK
<1>5. PICK e : e = StatusError(c, s)
  OBVIOUS
<1>6. CASE e # "ok"
  <2>1. /\ mem' = [mem EXCEPT ![c] = mem[c]] /\ disk' = disk
        /\ pc' = [pc EXCEPT ![c] = "output"]
        /\ verdict' = [verdict EXCEPT ![c] = e]
    BY <1>1, <1>2, <1>5, <1>6, Reading DEF OnStatus, Conclude
  <2>2. /\ e \in Verdict /\ e \notin Contract /\ e \notin Success
        /\ e \in Discards => Settled
    BY <1>3, <1>5, <1>6, ReconcileFits DEF Verdict, Contract, Success, Discards, Terminal, Retryable
  <2>3. "output" \in PC /\ "output" \notin Posting /\ e # "succeeded"
    BY <2>2 DEF PC, Posting, Success
  <2>4. QED
    BY <1>3, <1>4, <2>1, <2>2, <2>3, AfterReading
<1>7. CASE e = "ok"
  <2>1. PICK st : st = Adopted(c, s)
    OBVIOUS
  <2>2. PICK place : place = IF s.staging = "sealed" THEN "recommit" ELSE Transfer(st)
    OBVIOUS
  <2>3. /\ mem' = [mem EXCEPT ![c] = st] /\ disk' = st
        /\ pc' = [pc EXCEPT ![c] = place]
        /\ verdict' = [verdict EXCEPT ![c] = verdict[c]]
    BY <1>1, <1>2, <1>5, <1>7, <2>1, <2>2, Reading DEF OnStatus, Save, Goto
  <2>4. /\ st \in StateRecord /\ StateFits(st) /\ st.job = DerivedKey
        /\ s.staging = "sealed" => st.completed = N
    BY <1>3, <1>4, <2>1, ReconcileFits
  <2>5. /\ place \in {"recommit", "part", "commit"}
        /\ place = "part" => st.completed < N
        /\ place \in {"commit", "recommit"} => st.completed = N
    BY <2>2, <2>4, NAssumption DEF Transfer, StateRecord
  <2>6. place \in PC
    BY <2>5 DEF PC, Posting
  <2>7. PICK v : v = verdict[c]
    OBVIOUS
  <2>8. /\ v \notin Contract /\ (v \in Success => staging = "sealed")
        /\ (v = "succeeded" => cont = "succeeded") /\ (v \in Discards => Settled)
    BY <1>3, <2>7 DEF VerdictFits
  <2>9. QED
    BY <1>3, <1>4, <2>3, <2>4, <2>5, <2>6, <2>7, <2>8, AfterReading
<1>8. QED
  BY <1>6, <1>7

LEMMA OnRefreshStep ==
  ASSUME TypeOK, IInv, NEW c \in Clients, OnRefresh(c)
  PROVE  TypeOK' /\ IInv'
<1>1. PICK s : s = reply[c]
  OBVIOUS
<1>2. Reads(c, {"refresh"}) /\ {"refresh"} \in SUBSET Posting
  BY DEF OnRefresh, Posting
<1>3. /\ pc[c] = "refresh" /\ s \in Response /\ ReplyFits(c, s)
      /\ mem[c] \in StateRecord /\ PlaceFits(c) /\ VerdictFits(c)
      /\ verdict[c] \in Verdict \cup {"none"}
      /\ UNCHANGED <<coreVars, strays, announced, budgetVars>>
      /\ reply' = [reply EXCEPT ![c] = NoReply]
      /\ attempts' = [attempts EXCEPT ![c] = 0]
  BY <1>1, <1>2, Reading
<1>4. /\ pc[c] \in Posting /\ staging # "none" /\ mem[c].job = DerivedKey /\ Settled
      /\ replayed' \in [Clients -> BOOLEAN] /\ StateFits(mem[c])
  BY <1>3 DEF PlaceFits, Posting, OnRefresh, TypeOK
<1>5. PICK st : st = IF StatusError(c, s) = "ok" THEN Adopted(c, s) ELSE mem[c]
  OBVIOUS
<1>6. mem' = [mem EXCEPT ![c] = st] /\ disk' \in {disk, st}
  BY <1>1, <1>2, <1>5, Reading DEF OnRefresh, Save
<1>7. st \in StateRecord /\ StateFits(st) /\ st.job = DerivedKey
  BY <1>3, <1>4, <1>5, ReconcileFits
<1>8. CASE StatusError(c, s) = "ok" /\ s.staging = "sealed"
  <2>1. /\ pc' = [pc EXCEPT ![c] = "recommit"] /\ "recommit" \in PC
        /\ verdict' = [verdict EXCEPT ![c] = verdict[c]]
    BY <1>1, <1>2, <1>8, Reading DEF OnRefresh, Goto, PC, Posting
  <2>2. st.completed = N
    BY <1>3, <1>5, <1>8, ReconcileFits
  <2>3. PICK v : v = verdict[c]
    OBVIOUS
  <2>4. /\ v \notin Contract /\ (v \in Success => staging = "sealed")
        /\ (v = "succeeded" => cont = "succeeded") /\ (v \in Discards => Settled)
    BY <1>3, <2>3 DEF VerdictFits
  <2>5. QED
    BY <1>3, <1>4, <1>6, <1>7, <2>1, <2>2, <2>3, <2>4, AfterReading
<1>9. CASE ~(StatusError(c, s) = "ok" /\ s.staging = "sealed")
  <2>1. /\ pc' = [pc EXCEPT ![c] = "output"]
        /\ verdict' = [verdict EXCEPT ![c] = "staging_not_open"]
    BY <1>1, <1>9 DEF OnRefresh, Conclude
  <2>2. /\ "output" \in PC /\ "output" \notin Posting
        /\ "staging_not_open" \in Verdict \ (Contract \cup Success)
    BY DEF PC, Posting, Verdict, Terminal, Contract, Success
  <2>3. QED
    BY <1>3, <1>4, <1>6, <1>7, <2>1, <2>2, AfterReading
<1>10. QED
  BY <1>8, <1>9

\* A verdict that a handler leaves alone still fits.
LEMMA OldVerdict ==
  ASSUME NEW c \in Clients, VerdictFits(c)
  PROVE  /\ verdict[c] \notin Contract
         /\ verdict[c] \in Success => staging = "sealed"
         /\ verdict[c] = "succeeded" => cont = "succeeded"
         /\ verdict[c] \in Discards => Settled
BY DEF VerdictFits

LEMMA OnPartStep ==
  ASSUME TypeOK, IInv, NEW c \in Clients, OnPart(c)
  PROVE  TypeOK' /\ IInv'
<1>1. PICK s : s = reply[c]
  OBVIOUS
<1>2. Reads(c, {"part"}) /\ {"part"} \in SUBSET Posting
  BY DEF OnPart, Posting
<1>3. /\ pc[c] = "part" /\ s \in Response /\ ReplyFits(c, s)
      /\ mem[c] \in StateRecord /\ PlaceFits(c) /\ VerdictFits(c)
      /\ verdict[c] \in Verdict \cup {"none"}
      /\ UNCHANGED <<coreVars, strays, announced, budgetVars>>
      /\ reply' = [reply EXCEPT ![c] = NoReply]
      /\ attempts' = [attempts EXCEPT ![c] = 0]
  BY <1>1, <1>2, Reading
<1>4. /\ pc[c] \in Posting /\ staging # "none" /\ mem[c].job = DerivedKey
      /\ mem[c].completed < N
      /\ replayed' \in [Clients -> BOOLEAN] /\ StateFits(mem[c])
  BY <1>3 DEF PlaceFits, Posting, OnPart, TypeOK
<1>5. /\ s.code \in ErrorCode \cup {"ok"} /\ s.code # "incomplete_staging"
      /\ s.code # "ok" => Settled
      /\ s.code = "ok" => mem[c].completed + 1 <= s.count
      /\ 1..s.count \subseteq received /\ s.count \in 0..N
  BY <1>3 DEF ReplyFits, NextPart, Response
<1>6. "output" \in PC /\ "output" \notin Posting /\ "refresh" \in PC
  BY DEF PC, Posting
<1>7. CASE s.code = "ok"
  <2>1. PICK st : st = [mem[c] EXCEPT !.completed = @ + 1]
    OBVIOUS
  <2>2. PICK place : place = Transfer(st)
    OBVIOUS
  <2>3. s.count >= NextPart(c)
    BY <1>3, <1>5, <1>7, NAssumption DEF NextPart, StateRecord
  <2>4. s.code = "ok" /\ ~(s.count < NextPart(c)) /\ ~RaceSuspected(c, s)
    BY <1>3, <1>5, <1>7, NAssumption DEF NextPart, StateRecord, RaceSuspected
  <2>5. /\ mem' = [mem EXCEPT ![c] = st] /\ disk' = st
        /\ pc' = [pc EXCEPT ![c] = place]
        /\ verdict' = [verdict EXCEPT ![c] = verdict[c]]
    BY <1>1, <1>2, <2>1, <2>2, <2>4, Reading DEF OnPart, Save, Goto
  <2>6. /\ st = [job |-> mem[c].job, completed |-> mem[c].completed + 1]
        /\ mem[c].completed + 1 \in 0..N
    BY <1>3, <1>4, <2>1, NAssumption DEF StateRecord
  <2>7. st \in StateRecord /\ st.job = DerivedKey
    BY <1>3, <1>4, <2>6 DEF StateRecord
  <2>8. 1..(mem[c].completed + 1) \subseteq 1..s.count
    BY <1>3, <1>5, <1>7, <2>6, NAssumption
  <2>9. StateFits(st)
    BY <1>4, <1>5, <2>6, <2>8 DEF StateFits
  <2>10. /\ place \in {"part", "commit"}
         /\ place = "part" => st.completed < N
         /\ place = "commit" => st.completed = N
    BY <2>2, <2>7, NAssumption DEF Transfer, StateRecord
  <2>11. place \in PC
    BY <2>10 DEF PC, Posting
  <2>12. PICK v : v = verdict[c]
    OBVIOUS
  <2>13. QED
    BY <1>3, <1>4, <2>5, <2>7, <2>9, <2>10, <2>11, <2>12, OldVerdict, AfterReading
<1>8. CASE s.code # "ok" /\ RaceSuspected(c, s)
  <2>1. PICK v : v = verdict[c]
    OBVIOUS
  <2>2. /\ mem' = [mem EXCEPT ![c] = mem[c]] /\ disk' = disk
        /\ pc' = [pc EXCEPT ![c] = "refresh"]
        /\ verdict' = [verdict EXCEPT ![c] = v]
    BY <1>1, <1>2, <1>8, <2>1, Reading DEF OnPart, Goto
  <2>3. QED
    BY <1>3, <1>4, <1>5, <1>6, <1>8, <2>1, <2>2, OldVerdict, AfterReading
<1>9. CASE s.code # "ok" /\ ~RaceSuspected(c, s)
  <2>1. PICK v : v = s.code
    OBVIOUS
  <2>2. /\ mem' = [mem EXCEPT ![c] = mem[c]] /\ disk' = disk
        /\ pc' = [pc EXCEPT ![c] = "output"]
        /\ verdict' = [verdict EXCEPT ![c] = v]
    BY <1>1, <1>2, <1>9, <2>1, Reading DEF OnPart, Conclude
  <2>3. v \in Verdict \ (Contract \cup Success) /\ v # "succeeded"
    BY <1>5, <1>9, <2>1 DEF ErrorCode, Verdict, Terminal, Contract, Success
  <2>4. QED
    BY <1>3, <1>4, <1>5, <1>6, <1>9, <2>2, <2>3, AfterReading
<1>10. QED
  BY <1>7, <1>8, <1>9

LEMMA OnCommitStep ==
  ASSUME TypeOK, IInv, NEW c \in Clients, OnCommit(c)
  PROVE  TypeOK' /\ IInv'
<1>1. PICK s : s = reply[c]
  OBVIOUS
<1>2. Reads(c, {"commit", "recommit"}) /\ {"commit", "recommit"} \in SUBSET Posting
  BY DEF OnCommit, Posting
<1>3. /\ pc[c] \in {"commit", "recommit"} /\ s \in Response /\ ReplyFits(c, s)
      /\ mem[c] \in StateRecord /\ PlaceFits(c) /\ VerdictFits(c)
      /\ verdict[c] \in Verdict \cup {"none"}
      /\ UNCHANGED <<coreVars, strays, announced, budgetVars>>
      /\ reply' = [reply EXCEPT ![c] = NoReply]
      /\ attempts' = [attempts EXCEPT ![c] = 0]
  BY <1>1, <1>2, Reading
<1>4. /\ pc[c] \in Posting /\ staging # "none" /\ mem[c].job = DerivedKey
      /\ mem[c].completed = N
      /\ replayed' \in [Clients -> BOOLEAN] /\ StateFits(mem[c])
  BY <1>3 DEF PlaceFits, Posting, OnCommit, TypeOK
<1>5. /\ s.code \in ErrorCode \cup {"ok"} /\ s.code # "incomplete_staging"
      /\ s.code # "ok" => Settled
      /\ s.code = "ok" => CommitProved(s) /\ staging = "sealed"
  BY <1>3 DEF ReplyFits, CommitProved, Response
<1>6. {"output", "poll", "recover"} \subseteq PC /\ "output" \notin Posting
  BY DEF PC, Posting
<1>7. CASE s.code = "ok"
  <2>1. PICK st : st = [mem[c] EXCEPT !.completed = N]
    OBVIOUS
  <2>2. st = mem[c]
    BY <1>3, <1>4, <2>1 DEF StateRecord
  <2>3. mem' = [mem EXCEPT ![c] = st] /\ disk' = st
    BY <1>1, <1>5, <1>7, <2>1 DEF OnCommit, Save
  <2>4. CASE \E place \in {"poll", "recover"} : Goto(c, place) /\ verdict' = verdict
    <3>1. PICK place \in {"poll", "recover"} : Goto(c, place) /\ verdict' = verdict
      BY <2>4
    <3>2. PICK v : v = verdict[c]
      OBVIOUS
    <3>3. /\ pc' = [pc EXCEPT ![c] = place]
          /\ verdict' = [verdict EXCEPT ![c] = v]
      BY <1>2, <3>1, <3>2, Reading DEF Goto
    <3>4. QED
      BY <1>3, <1>4, <1>5, <1>6, <1>7, <2>2, <2>3, <3>2, <3>3, OldVerdict, AfterReading
  <2>5. CASE Conclude(c, "snapshot_committed")
    <3>1. /\ pc' = [pc EXCEPT ![c] = "output"]
          /\ verdict' = [verdict EXCEPT ![c] = "snapshot_committed"]
      BY <2>5 DEF Conclude
    <3>2. "snapshot_committed" \in Verdict \ (Contract \cup Discards)
      BY DEF Verdict, Success, Contract, Discards, Terminal
    <3>3. QED
      BY <1>3, <1>4, <1>5, <1>6, <1>7, <2>2, <2>3, <3>1, <3>2, AfterReading
  <2>6. QED
    BY <1>1, <1>5, <1>7, <2>4, <2>5 DEF OnCommit
<1>8. CASE s.code # "ok"
  <2>1. PICK v : v = s.code
    OBVIOUS
  <2>2. /\ mem' = [mem EXCEPT ![c] = mem[c]] /\ disk' = disk
        /\ pc' = [pc EXCEPT ![c] = "output"]
        /\ verdict' = [verdict EXCEPT ![c] = v]
    BY <1>1, <1>2, <1>8, <2>1, Reading DEF OnCommit, Conclude, CommitProved
  <2>3. v \in Verdict \ (Contract \cup Success) /\ v # "succeeded"
    BY <1>5, <1>8, <2>1 DEF ErrorCode, Verdict, Terminal, Contract, Success
  <2>4. QED
    BY <1>3, <1>4, <1>5, <1>6, <1>8, <2>2, <2>3, AfterReading
<1>9. QED
  BY <1>7, <1>8

LEMMA OnContinuationStep ==
  ASSUME TypeOK, IInv, NEW c \in Clients, OnContinuation(c)
  PROVE  TypeOK' /\ IInv'
<1>1. PICK s : s = reply[c]
  OBVIOUS
<1>2. Reads(c, {"poll", "recover"}) /\ {"poll", "recover"} \in SUBSET Posting
  BY DEF OnContinuation, Posting
<1>3. /\ pc[c] \in {"poll", "recover"} /\ s \in Response /\ ReplyFits(c, s)
      /\ mem[c] \in StateRecord /\ PlaceFits(c) /\ VerdictFits(c)
      /\ verdict[c] \in Verdict \cup {"none"}
      /\ UNCHANGED <<coreVars, strays, announced, budgetVars>>
      /\ reply' = [reply EXCEPT ![c] = NoReply]
      /\ attempts' = [attempts EXCEPT ![c] = 0]
  BY <1>1, <1>2, Reading
<1>4. /\ pc[c] \in Posting /\ staging = "sealed" /\ mem[c].job = DerivedKey
      /\ replayed' \in [Clients -> BOOLEAN] /\ StateFits(mem[c])
      /\ s.staging = "sealed" /\ s.cont # "none"
      /\ s.cont = "succeeded" => cont = "succeeded"
      /\ Settled
  BY <1>3 DEF PlaceFits, Posting, OnContinuation, TypeOK, ReplyFits, Settled
<1>5. mem' = [mem EXCEPT ![c] = mem[c]] /\ disk' = mem[c]
  BY <1>1, <1>4 DEF OnContinuation, Save
<1>6. "output" \in PC /\ "output" \notin Posting
  BY DEF PC, Posting
<1>7. CASE \E v \in {"succeeded", "terminal_failed", "snapshot_committed"} :
             Conclude(c, v) /\ (v = "succeeded" => s.cont = "succeeded")
  <2>1. PICK v \in {"succeeded", "terminal_failed", "snapshot_committed"} :
             Conclude(c, v) /\ (v = "succeeded" => s.cont = "succeeded")
    BY <1>7
  <2>2. /\ pc' = [pc EXCEPT ![c] = "output"]
        /\ verdict' = [verdict EXCEPT ![c] = v]
    BY <2>1 DEF Conclude
  <2>3. v \in Verdict \ Contract
    BY <2>1 DEF Verdict, Success, Terminal, Contract
  <2>4. QED
    BY <1>3, <1>4, <1>5, <1>6, <2>1, <2>2, <2>3, AfterReading
<1>8. CASE UNCHANGED <<pc, verdict>>
  <2>1. PICK v, place : v = verdict[c] /\ place = pc[c]
    OBVIOUS
  <2>2. /\ pc' = [pc EXCEPT ![c] = place]
        /\ verdict' = [verdict EXCEPT ![c] = v]
        /\ place \in PC /\ place \in {"poll", "recover"}
    BY <1>2, <1>3, <1>8, <2>1, Reading DEF PC, Posting
  <2>3. QED
    BY <1>3, <1>4, <1>5, <2>1, <2>2, OldVerdict, AfterReading
<1>9. QED
  BY <1>1, <1>4, <1>7, <1>8 DEF OnContinuation

-----------------------------------------------------------------------------
(* The inductive invariant and what follows from it.                       *)

LEMMA InitFits ==
  ASSUME Init
  PROVE  TypeOK /\ IInv
<1> USE NAssumption, NoStateAssumption DEF Init
<1>1. FreshState \in StateRecord
  BY DEF FreshState, StateRecord, NoJob
<1>2. TypeOK
  BY <1>1 DEF TypeOK, Staging, JobState, ContState, PC
<1>3. CoreFits
  <2>1. received = 1..0 /\ 0 \in 0..N
    OBVIOUS
  <2>2. AcceptedInOrder
    BY <2>1 DEF AcceptedInOrder
  <2>3. QED
    BY <2>2 DEF CoreFits
<1>4. RecordFits
  BY DEF RecordFits, BeginPending
<1>5. ASSUME NEW c \in Clients PROVE ClientFits(c)
  BY DEF ClientFits, PlaceFits, StateFits, FreshState, NoJob, VerdictFits, Contract,
     Success, Discards, Terminal, Posting
<1>6. AnnouncedFits
  BY DEF AnnouncedFits
<1>7. QED
  BY <1>2, <1>3, <1>4, <1>5, <1>6 DEF IInv

LEMMA NextFits ==
  ASSUME TypeOK, IInv, [Next]_vars
  PROVE  TypeOK' /\ IInv'
<1>1. CASE Environment
  BY <1>1, EnvironmentStep
<1>2. ASSUME NEW c \in Clients,
             \/ PreflightFails(c) \/ Rerun(c) \/ StartRefused(c)
             \/ Proceed(c) \/ AttemptFails(c) \/ DeadlinePasses(c) \/ Crash(c)
      PROVE  TypeOK' /\ IInv'
  <2>1. CASE PreflightFails(c) \/ StartFresh(c) \/ StartRefused(c)
    BY <2>1, StartStep
  <2>2. CASE StartResume(c)
    BY <2>2, ResumeStep
  <2>3. CASE CreateState(c)
    BY <2>3, CreateStep
  <2>4. CASE Deliver(c)
    BY <2>4, DeliverStep
  <2>5. CASE Handle(c)
    BY <2>5, OnBeginStep, OnStatusStep, OnRefreshStep, OnPartStep, OnCommitStep,
       OnContinuationStep DEF Handle
  <2>6. CASE Output(c)
    BY <2>6, OutputStep
  <2>7. CASE Finalize(c)
    BY <2>7, FinalizeStep
  <2>8. CASE AttemptFails(c)
    BY <2>8, AttemptFailsStep
  <2>9. CASE DeadlinePasses(c)
    BY <2>9, DeadlineStep
  <2>10. CASE Crash(c)
    BY <2>10, CrashStep
  <2>11. QED
    BY <1>2, <2>1, <2>2, <2>3, <2>4, <2>5, <2>6, <2>7, <2>8, <2>9, <2>10 DEF Rerun, Proceed
<1>3. CASE UNCHANGED vars
  <2> USE <1>3 DEF vars, coreVars, budgetVars
  <2>1. TypeOK'
    BY DEF TypeOK
  <2>2. CoreGrows /\ CoreFits'
    BY NothingGrows, SameCoreFits DEF IInv
  <2>3. RecordFits'
    BY DEF IInv, RecordFits, BeginPending, StateFits, Settled
  <2>4. \A d \in Clients : ClientFits(d)'
    BY <2>2, ClientFrame DEF IInv
  <2>5. \A r \in strays' : RequestFits(r)'
    BY <2>2, RequestFrame DEF IInv
  <2>6. QED
    BY <2>1, <2>2, <2>3, <2>4, <2>5, AnnouncedFrame DEF IInv
<1>4. QED
  BY <1>1, <1>2, <1>3 DEF Next

\* The types and the inductive invariant hold for any number of processes and
\* parts, whatever the network and the crashes do (RunUpload as a whole).
THEOREM InvariantHolds == Spec => [](TypeOK /\ IInv)
<1>1. Init => TypeOK /\ IInv
  BY InitFits
<1>2. TypeOK /\ IInv /\ [Next]_vars => TypeOK' /\ IInv'
  BY NextFits
<1>3. QED
  BY <1>1, <1>2, PTL DEF Spec

\* Every variable always has its type.
THEOREM TypeCorrect == Spec => []TypeOK
BY InvariantHolds, PTL

\* The parts Core holds are always a prefix (why RunUpload may resume by count).
THEOREM PartsAcceptedInOrder == Spec => []AcceptedInOrder
<1>1. IInv => AcceptedInOrder
  BY DEF IInv, CoreFits
<1>2. QED
  BY <1>1, InvariantHolds, PTL

\* No interleaving, loss, duplicate or crash makes a process report a contract
\* violation of a Core that has committed none (reconcileStagingStatus, parts,
\* commit and continuationStatus).
THEOREM NoContractFailure == Spec => []NoSpuriousContractFailure
<1>1. IInv => NoSpuriousContractFailure
  BY DEF IInv, ClientFits, VerdictFits, NoSpuriousContractFailure
<1>2. QED
  BY <1>1, InvariantHolds, PTL

\* What the command printed as a success is true of Core, for ever.
THEOREM SuccessBacked == Spec => []SuccessIsBacked
<1>1. IInv => SuccessIsBacked
  BY DEF IInv, CoreFits, AnnouncedFits, SuccessIsBacked
<1>2. QED
  BY <1>1, InvariantHolds, PTL

\* A staging record that can still make progress has its resume record on
\* disk, across crashes and across the processes that share the record
\* (uploadStateStore and Finalize).
THEOREM OpenStagingResumable == Spec => []OpenStagingIsResumable
<1>1. TypeOK /\ IInv => OpenStagingIsResumable
  BY DEF IInv, RecordFits, OpenStagingIsResumable, Settled, TypeOK, Staging
<1>2. QED
  BY <1>1, InvariantHolds, PTL

-----------------------------------------------------------------------------
(* One process by itself.                                                  *)

\* What no step of Core takes back of an end.
EndsStay ==
  /\ Closed => Closed'
  /\ cont = "terminal_failed" => cont' = "terminal_failed"
  /\ PartsComplete /\ staging # "none" => PartsComplete'

\* A request that Core handles reopens nothing, and only a commit seals.
LEMMA EndStep ==
  ASSUME CoreTypes, CoreFits, NEW r \in Request, RequestFits(r), CoreHandles(r)
  PROVE  EndsStay /\ (staging' = "sealed" => staging = "sealed" \/ r.op = "commit")
<1>1. CoreTypes' /\ CoreFits' /\ CoreGrows
  BY CoreStep
<1>2. PartsComplete /\ staging # "none" => PartsComplete'
  BY <1>1 DEF CoreGrows, PartsComplete, CoreTypes
<1>3. CASE UNCHANGED coreVars
  BY <1>2, <1>3 DEF coreVars, EndsStay, Closed, Settled
<1>4. CASE r.op = "begin" /\ r.key \notin keys
  <2>1. staging = "none" /\ cont = "none"
    BY <1>4 DEF CoreFits, RequestFits
  <2>2. staging' = "open"
    BY <1>4 DEF CoreHandles, CoreBegin
  <2>3. ~Closed
    BY <2>1 DEF Closed, Settled, CoreFits
  <2>4. QED
    BY <1>2, <2>1, <2>2, <2>3 DEF EndsStay
<1>5. CASE r.op = "part"
  BY <1>2, <1>5 DEF CoreHandles, CorePart, EndsStay, Closed, Settled
<1>6. CASE r.op = "commit" /\ Accepting
  BY <1>2, <1>6 DEF CoreHandles, CoreCommit, EndsStay, Closed, Settled, Accepting, CoreFits, coreVars
<1>7. QED
  BY <1>3, <1>4, <1>5, <1>6 DEF CoreHandles, CoreBegin, CoreCommit, Request

\* What is abroad stays true of c when it does not move itself.
LEMMA AloneStays ==
  ASSUME TypeOK, IInv, NEW c \in Clients, AloneFits(c), EndsStay,
         CommitSent' => CommitSent,
         pc'[c] = pc[c], verdict'[c] = verdict[c], reply'[c] = reply[c]
  PROVE  AloneFits(c)'
<1>1. CommitSent => PartsComplete'
  BY DEF AloneFits, EndsStay, CommitSent, IInv, RequestFits
<1>2. QED
  BY <1>1 DEF AloneFits, EndsStay

\* Core, and what reaches it late.
LEMMA EnvironmentAlone ==
  ASSUME TypeOK, IInv, NEW c \in Clients, AloneFits(c), Environment
  PROVE  AloneFits(c)'
<1>1. UNCHANGED <<pc, verdict, reply>>
  BY DEF Environment, Expire, StagingJobChanges, ContinuationStep, StrayArrives
<1>2. CASE Expire \/ StagingJobChanges \/ ContinuationStep
  <2>1. EndsStay
    BY <1>2 DEF Expire, StagingJobChanges, ContinuationStep, EndsStay, Closed, Settled,
       PartsComplete, IInv, CoreFits
  <2>2. CommitSent' => CommitSent
    BY <1>2 DEF Expire, StagingJobChanges, ContinuationStep, CommitSent
  <2>3. QED
    BY <1>1, <2>1, <2>2, AloneStays
<1>3. CASE StrayArrives
  <2>1. PICK r \in strays : strays' = strays \ {r} /\ CoreHandles(r)
    BY <1>3 DEF StrayArrives
  <2>2. r \in Request /\ RequestFits(r) /\ CoreTypes /\ CoreFits
    BY DEF TypeOK, IInv, CoreTypes
  <2>3. EndsStay /\ (staging' = "sealed" => staging = "sealed" \/ r.op = "commit")
    BY <2>1, <2>2, EndStep
  <2>4. CommitSent' => CommitSent
    BY <2>1, <2>3 DEF CommitSent
  <2>5. QED
    BY <1>1, <2>3, <2>4, AloneStays
<1>4. QED
  BY <1>2, <1>3 DEF Environment

\* Where no response waits, and no part is being sent, c relies on nothing but
\* the truth of the verdict it gives.
LEMMA NothingPending ==
  ASSUME TypeOK, IInv, NEW c \in Clients, AloneFits(c), EndsStay,
         CommitSent' => CommitSent \/ PartsComplete',
         pc'[c] \notin {"part", "refresh"} \/ ~CommitSent',
         reply'[c] = NoReply,
         verdict'[c] \in Terminal =>
           \/ verdict'[c] = verdict[c]
           \/ Closed' \/ cont' = "terminal_failed"
  PROVE  AloneFits(c)'
<1>1. CommitSent => PartsComplete'
  BY DEF AloneFits, EndsStay, CommitSent, IInv, RequestFits
<1>2. QED
  BY <1>1 DEF AloneFits, EndsStay

\* Core as it was.
LEMMA SameEnds ==
  ASSUME UNCHANGED coreVars
  PROVE  EndsStay /\ (strays' = strays => (CommitSent' <=> CommitSent))
BY DEF coreVars, EndsStay, Closed, Settled, PartsComplete, CommitSent

\* The steps around an invocation.
LEMMA AroundAlone ==
  ASSUME TypeOK, IInv, NEW c \in Clients, AloneFits(c),
         PreflightFails(c) \/ Rerun(c) \/ StartRefused(c) \/ CreateState(c)
           \/ Output(c) \/ Finalize(c)
  PROVE  AloneFits(c)'
<1>1. UNCHANGED <<coreVars, strays>>
  BY DEF PreflightFails, Rerun, StartFresh, StartResume, StartRefused, CreateState, Output,
         Finalize
<1>2. EndsStay /\ (CommitSent' <=> CommitSent)
  BY <1>1, SameEnds
<1>3. reply[c] = NoReply
  BY DEF IInv, ClientFits, ReplyFits, Posting, PreflightFails, Rerun, StartFresh,
         StartResume, StartRefused, CreateState, Output, Finalize
<1>4. reply'[c] = NoReply
  BY <1>3 DEF PreflightFails, Rerun, StartFresh, StartResume, StartRefused, CreateState,
         Output, Finalize, Forget, TypeOK
<1>5. pc'[c] \in {"output", "create", "begin", "finalize", "idle"}
  BY DEF PreflightFails, Rerun, StartFresh, StartResume, StartRefused, CreateState,
         Output, Finalize, Forget, TypeOK, Conclude, Goto
<1>6. verdict'[c] \in Terminal => verdict'[c] = verdict[c]
  <2>1. PreflightFails(c) \/ StartRefused(c) \/ Finalize(c) => verdict'[c] \notin Terminal
    BY DEF PreflightFails, StartRefused, Finalize, Forget, TypeOK, Conclude, Terminal
  <2>2. QED
    BY <2>1 DEF Rerun, StartFresh, StartResume, CreateState, Output
<1>7. QED
  BY <1>2, <1>4, <1>5, <1>6, NothingPending

\* c has sent a request, or has given it up: what may be abroad of it.
LEMMA UnansweredAlone ==
  ASSUME TypeOK, IInv, NEW c \in Clients, AloneFits(c),
         pc[c] \in Posting, Unanswered(RequestOf(c))
  PROVE  /\ EndsStay
         /\ CommitSent' => CommitSent \/ PartsComplete'
         /\ pc[c] \notin {"commit", "recommit"} => (CommitSent' => CommitSent)
<1>1. PICK r : r = RequestOf(c)
  OBVIOUS
<1>2. r \in Request /\ RequestFits(r) /\ CoreTypes /\ CoreFits
  BY <1>1, OwnRequestFits DEF TypeOK, IInv, CoreTypes
<1>3. r.op = "commit" => pc[c] \in {"commit", "recommit"} /\ PartsComplete /\ staging # "none"
  <2>1. r.op = "commit" => pc[c] \in {"commit", "recommit"}
    BY <1>1 DEF RequestOf, WireOp, Posting
  <2>2. pc[c] \in {"commit", "recommit"} => 1..N \subseteq received /\ staging # "none"
    BY DEF IInv, ClientFits, PlaceFits, StateFits, Posting
  <2>3. QED
    BY <2>1, <2>2 DEF PartsComplete, TypeOK
<1>4. EndsStay /\ (staging' = "sealed" => staging = "sealed" \/ r.op = "commit")
  <2>1. CASE CoreHandles(r)
    BY <1>2, <2>1, EndStep
  <2>2. CASE UNCHANGED coreVars
    BY <2>2, SameEnds DEF coreVars
  <2>3. QED
    BY <1>1, <2>1, <2>2 DEF Unanswered, coreVars
<1>5. strays' \subseteq strays \cup {r}
  BY <1>1 DEF Unanswered
<1>6. QED
  BY <1>3, <1>4, <1>5 DEF CommitSent, EndsStay

\* An attempt that fails, a deadline and a crash.
LEMMA TroubleAlone ==
  ASSUME TypeOK, IInv, NEW c \in Clients, AloneFits(c),
         AttemptFails(c) \/ DeadlinePasses(c) \/ Crash(c)
  PROVE  AloneFits(c)'
<1>1. /\ EndsStay
      /\ CommitSent' => CommitSent \/ PartsComplete'
      /\ pc[c] \notin {"commit", "recommit"} => (CommitSent' => CommitSent)
  <2>1. CASE pc[c] \in Posting /\ Unanswered(RequestOf(c))
    BY <2>1, UnansweredAlone
  <2>2. CASE UNCHANGED <<coreVars, strays>>
    BY <2>2, SameEnds
  <2>3. QED
    BY <2>1, <2>2 DEF AttemptFails, DeadlinePasses, UnderDeadline, Crash
<1>2. reply'[c] = NoReply
  BY DEF AttemptFails, DeadlinePasses, Crash, Forget, TypeOK
<1>3. pc'[c] \in {pc[c], "output", "idle"}
  BY DEF AttemptFails, DeadlinePasses, Crash, Forget, TypeOK, GiveUp, Conclude
<1>4. pc'[c] \notin {"part", "refresh"} \/ ~CommitSent'
  BY <1>1, <1>3 DEF AloneFits
<1>5. ASSUME verdict'[c] \in Terminal, verdict'[c] # verdict[c]
      PROVE  Closed'
  <2>1. pc[c] = "refresh" /\ pc'[c] = "output"
    BY <1>5 DEF AttemptFails, DeadlinePasses, Crash, Forget, TypeOK, GiveUp, Conclude,
       Terminal
  <2>2. Settled /\ ~CommitSent
    BY <2>1 DEF AloneFits, IInv, ClientFits, PlaceFits
  <2>3. QED
    BY <1>1, <2>2 DEF Closed, CommitSent, EndsStay
<1>6. QED
  BY <1>1, <1>2, <1>4, <1>5, NothingPending

\* A response is on its way back.
LEMMA DeliverAlone ==
  ASSUME TypeOK, IInv, NEW c \in Clients, AloneFits(c), Deliver(c)
  PROVE  AloneFits(c)'
<1>1. PICK r : r = RequestOf(c)
  OBVIOUS
<1>2. r \in Request /\ RequestFits(r) /\ CoreTypes /\ CoreFits /\ CoreHandles(r)
      /\ pc[c] \in Posting
  BY <1>1, OwnRequestFits DEF TypeOK, IInv, CoreTypes, Deliver
<1>3. /\ EndsStay
      /\ CommitSent' => CommitSent \/ PartsComplete'
      /\ pc[c] \notin {"commit", "recommit"} => (CommitSent' => CommitSent)
  BY <1>1, <1>2, UnansweredAlone DEF Deliver, Unanswered
<1>4. CoreTypes' /\ CoreFits' /\ CoreGrows
  BY <1>2, CoreStep
<1>5. PICK s : s = AnswerTo(r)
  OBVIOUS
<1>6. UNCHANGED <<pc, verdict>> /\ reply'[c] = s
  BY <1>1, <1>5 DEF Deliver, TypeOK
<1>7. /\ s.code = CodeFor(r) /\ s.replayed = (r.key \in keys)
      /\ s.staging = staging' /\ s.job = job' /\ s.cont = cont'
      /\ s.count = Cardinality(received')
  BY <1>5 DEF AnswerTo
<1>8. CommitSent' => PartsComplete'
  BY <1>3 DEF AloneFits, EndsStay, CommitSent, IInv, RequestFits
<1>9. ASSUME CommitSent', pc[c] = "begin"
      PROVE  s.replayed
  <2>1. staging # "none"
    BY <1>3, <1>9 DEF CommitSent, IInv, RequestFits
  <2>2. r.op = "begin"
    BY <1>1, <1>9 DEF RequestOf, WireOp
  <2>3. QED
    BY <1>2, <1>7, <2>1, <2>2 DEF CoreFits, RequestFits
<1>10. CommitSent' => s.count = N
  BY <1>7, <1>8, PrefixSize, NAssumption DEF PartsComplete
<1>11. ASSUME s.staging \in {"expired", "failed"} \/ s.job = "terminal_failed"
       PROVE  Closed'
  BY <1>4, <1>7, <1>11 DEF Closed, Settled, CoreFits
<1>12. ASSUME pc[c] \in {"commit", "recommit"}, s.code # "ok"
       PROVE  Closed'
  <2>1. r.op = "commit"
    BY <1>1, <1>12 DEF RequestOf, WireOp
  <2>2. PartsComplete /\ staging # "none"
    BY <1>12 DEF IInv, ClientFits, PlaceFits, StateFits, Posting, PartsComplete, TypeOK
  <2>3. ~Accepting /\ staging # "sealed"
    BY <1>7, <1>12, <2>1, <2>2 DEF CodeFor
  <2>4. Closed
    BY <2>2, <2>3 DEF Closed, Settled, Accepting, TypeOK, Staging
  <2>5. QED
    BY <1>3, <2>4 DEF EndsStay
<1>13. pc'[c] \notin {"part", "refresh"} \/ ~CommitSent'
  BY <1>3, <1>6 DEF AloneFits
<1>14. QED
  BY <1>3, <1>6, <1>7, <1>8, <1>9, <1>10, <1>11, <1>12, <1>13 DEF AloneFits, EndsStay

\* Core's part in the reading of a response.
LEMMA ReadingAlone ==
  ASSUME TypeOK, NEW c \in Clients, NEW places, Reads(c, places)
  PROVE  /\ EndsStay /\ (CommitSent' <=> CommitSent)
         /\ reply'[c] = NoReply /\ reply[c] # NoReply /\ pc[c] \in places
<1>1. UNCHANGED <<coreVars, strays>>
  BY DEF Reads
<1>2. QED
  BY <1>1, SameEnds DEF Reads, TypeOK

\* The handlers of responses.
LEMMA HandleAlone ==
  ASSUME TypeOK, IInv, NEW c \in Clients, AloneFits(c), Handle(c)
  PROVE  AloneFits(c)'
<1>1. /\ EndsStay /\ (CommitSent' <=> CommitSent)
      /\ reply'[c] = NoReply /\ reply[c] # NoReply
  BY ReadingAlone DEF Handle, OnBegin, OnStatus, OnRefresh, OnPart, OnCommit, OnContinuation
<1>2. PICK s : s = reply[c]
  OBVIOUS
<1>3. mem[c] \in StateRecord /\ s \in Response /\ ReplyFits(c, s)
  BY <1>1, <1>2 DEF TypeOK, IInv, ClientFits
<1>4. /\ CommitSent /\ pc[c] = "begin" => s.replayed
      /\ CommitSent /\ pc[c] = "status" => s.count = N
      /\ s.staging \in {"expired", "failed"} \/ s.job = "terminal_failed"
           \/ (pc[c] \in {"commit", "recommit"} /\ s.code # "ok") => Closed
      /\ s.cont = "terminal_failed" => cont = "terminal_failed"
      /\ pc[c] \in {"part", "refresh"} => ~CommitSent
  BY <1>1, <1>2 DEF AloneFits
<1>5. ASSUME pc'[c] \notin {"part", "refresh"} \/ ~CommitSent,
             \/ verdict'[c] = verdict[c]
             \/ verdict'[c] \notin Terminal
             \/ Closed \/ cont = "terminal_failed"
      PROVE  AloneFits(c)'
  BY <1>1, <1>5, NothingPending DEF EndsStay
<1>6. \A st : Transfer(st) \in {"part", "commit"}
  BY DEF Transfer
<1>7. CASE OnBegin(c)
  <2>1. CASE Conclude(c, "begin_replay_identity_mismatch")
    BY <1>5, <2>1 DEF Conclude, TypeOK, Terminal
  <2>2. CASE /\ Goto(c, IF s.replayed THEN "status"
                        ELSE Transfer([mem[c] EXCEPT !.job = s.key]))
             /\ UNCHANGED verdict
    <3>1. pc[c] = "begin"
      BY <1>7 DEF OnBegin, Reads
    <3>2. pc'[c] \notin {"part", "refresh"} \/ ~s.replayed
      BY <2>2 DEF Goto, TypeOK
    <3>3. QED
      BY <1>4, <1>5, <2>2, <3>1, <3>2
  <2>3. QED
    BY <1>2, <1>7, <2>1, <2>2 DEF OnBegin
<1>8. CASE OnStatus(c)
  <2>1. pc[c] = "status"
    BY <1>8 DEF OnStatus, Reads
  <2>2. CASE StatusError(c, s) # "ok" /\ Conclude(c, StatusError(c, s))
    <3>1. PICK v : v = StatusError(c, s)
      OBVIOUS
    <3>2. v \in Terminal => s.staging \in {"expired", "failed"} \/ s.job = "terminal_failed"
      BY <3>1 DEF StatusError, Terminal
    <3>3. pc'[c] = "output" /\ verdict'[c] = v
      BY <2>2, <3>1 DEF Conclude, TypeOK
    <3>4. QED
      BY <1>4, <1>5, <3>2, <3>3
  <2>3. CASE /\ Goto(c, IF s.staging = "sealed" THEN "recommit"
                                                 ELSE Transfer(Adopted(c, s)))
             /\ UNCHANGED verdict
    <3>1. CommitSent => Adopted(c, s).completed = N
      BY <1>3, <1>4, <2>1 DEF Adopted, StateRecord
    <3>2. CommitSent => Transfer(Adopted(c, s)) = "commit"
      BY <3>1, NAssumption DEF Transfer
    <3>3. QED
      BY <1>5, <2>3, <3>2 DEF Goto, TypeOK
  <2>4. QED
    BY <1>2, <1>8, <2>2, <2>3 DEF OnStatus
<1>9. CASE OnRefresh(c)
  <2>1. pc[c] = "refresh" /\ Settled /\ ~CommitSent
    BY <1>4, <1>9 DEF OnRefresh, Reads, IInv, ClientFits, PlaceFits
  <2>2. Closed
    BY <2>1 DEF Closed, CommitSent
  <2>3. QED
    BY <1>5, <2>1, <2>2
<1>10. CASE OnPart(c)
  <2>1. pc[c] = "part" /\ ~CommitSent
    BY <1>4, <1>10 DEF OnPart, Reads
  <2>2. CASE s.code = "ok"
    <3>1. verdict'[c] = verdict[c] \/ verdict'[c] \notin Terminal
      BY <1>2, <1>10, <2>2 DEF OnPart, Conclude, TypeOK, Terminal, RaceSuspected
    <3>2. QED
      BY <1>5, <2>1, <3>1
  <2>3. CASE s.code # "ok"
    <3>1. Closed
      BY <1>3, <2>1, <2>3 DEF ReplyFits, Closed, CommitSent
    <3>2. QED
      BY <1>5, <2>1, <3>1
  <2>4. QED
    BY <2>2, <2>3
<1>11. CASE OnCommit(c)
  <2>1. pc[c] \in {"commit", "recommit"}
    BY <1>11 DEF OnCommit, Reads
  <2>2. pc'[c] \in {"poll", "recover", "output"}
    BY <1>11 DEF OnCommit, Conclude, Goto, TypeOK
  <2>3. verdict'[c] = verdict[c] \/ verdict'[c] \notin Terminal \/ s.code # "ok"
    BY <1>2, <1>11 DEF OnCommit, Conclude, TypeOK, Terminal
  <2>4. QED
    BY <1>4, <1>5, <2>1, <2>2, <2>3
<1>12. CASE OnContinuation(c)
  <2>1. pc'[c] \in {"poll", "recover", "output"}
    BY <1>12 DEF OnContinuation, Reads, Conclude, TypeOK
  <2>2. verdict'[c] = verdict[c] \/ verdict'[c] \notin Terminal \/ s.cont = "terminal_failed"
    BY <1>2, <1>12 DEF OnContinuation, Conclude, TypeOK, Terminal
  <2>3. QED
    BY <1>4, <1>5, <2>1, <2>2
<1>13. QED
  BY <1>7, <1>8, <1>9, <1>10, <1>11, <1>12 DEF Handle

\* One process by itself keeps what it relies on.
LEMMA AloneKeeps ==
  ASSUME TypeOK, IInv, NEW c \in Clients, Clients = {c}, AloneFits(c), [Next]_vars
  PROVE  AloneFits(c)'
<1>1. CASE Environment
  BY <1>1, EnvironmentAlone
<1>2. CASE PreflightFails(c) \/ Rerun(c) \/ StartRefused(c) \/ Proceed(c)
             \/ AttemptFails(c) \/ DeadlinePasses(c) \/ Crash(c)
  BY <1>2, AroundAlone, DeliverAlone, HandleAlone, TroubleAlone DEF Proceed
<1>3. CASE UNCHANGED vars
  <2>1. UNCHANGED <<coreVars, strays, pc, reply, verdict>>
    BY <1>3 DEF vars
  <2>2. QED
    BY <2>1, SameEnds, AloneStays
<1>4. QED
  BY <1>1, <1>2, <1>3 DEF Next

\* A process that has the installation for itself reports a terminal failure
\* only when Core's staging or continuation is over without a snapshot: none of
\* its own late requests seals the record behind it (postWithRetry, parts,
\* refreshSealedRace). With a second process this is not so.
THEOREM TerminalIsTrue ==
  ASSUME NEW c, Clients = {c}
  PROVE  Spec => []TerminalIsCoreTerminal
<1>1. Init => AloneFits(c)
  BY DEF Init, AloneFits, CommitSent, Terminal
<1>2. TypeOK /\ IInv /\ AloneFits(c) /\ [Next]_vars => AloneFits(c)'
  BY AloneKeeps
<1>3. AloneFits(c) => TerminalIsCoreTerminal
  BY DEF AloneFits, TerminalIsCoreTerminal, Closed
<1>4. QED
  BY <1>1, <1>2, <1>3, InvariantHolds, PTL DEF Spec

-----------------------------------------------------------------------------
(* Steps as steps of SnapshotPromise.                                      *)

\* What a request that Core handles is in SnapshotPromise: the opening, one
\* part, the seal, or nothing.
LEMMA HandledRefines ==
  ASSUME TypeOK, IInv, NEW r \in Request, RequestFits(r), CoreHandles(r),
         announced' = announced
  PROVE  CoreGrows /\ [Promise!Next]_(Promise!vars)
<1> USE DEF Promise!vars, coreVars
<1>0. CoreGrows
  BY CoreStep DEF TypeOK, IInv, CoreTypes
<1>1. CASE UNCHANGED coreVars
  BY <1>0, <1>1 DEF AbstractRecord
<1>2. CASE r.op = "begin" /\ ~UNCHANGED coreVars
  <2>1. /\ r.key = DerivedKey /\ r.key \notin keys
        /\ staging' = "open" /\ received' = {} /\ cont' = "none"
    BY <1>2 DEF CoreHandles, CoreBegin, RequestFits
  <2>2. staging = "none" /\ received = {} /\ cont = "none"
    BY <2>1 DEF IInv, CoreFits
  <2>3. Promise!Open
    BY <2>1, <2>2 DEF Promise!Open, AbstractRecord
  <2>4. QED
    BY <1>0, <2>3 DEF Promise!Next
<1>3. CASE r.op = "part" /\ ~UNCHANGED coreVars
  <2>1. CorePart(r)
    BY <1>3 DEF CoreHandles
  <2>2. CodeFor(r) = "ok"
    BY <1>3, <2>1 DEF CorePart
  <2>3. staging = "open" /\ staging' = "open" /\ cont' = cont
        /\ received' = received \cup {r.part} /\ received' # received
    BY <1>3, <2>1, <2>2 DEF CorePart, CodeFor, ClosedCode, Accepting
  <2>4. PICK k \in 0..N : received = 1..k
    BY DEF IInv, CoreFits, AcceptedInOrder
  <2>5. r.part \in 1..N /\ 1..(r.part - 1) \subseteq 1..k /\ r.part \notin 1..k
    BY <1>3, <2>3, <2>4 DEF RequestFits
  <2>6. r.part = k + 1 /\ received = 1..(r.part - 1)
    <3>1. r.part >= k + 1
      BY <2>5, NAssumption
    <3>2. r.part - 1 \in 1..k \/ r.part = 1
      BY <2>5, NAssumption
    <3>3. r.part = k + 1
      BY <2>5, <3>1, <3>2, NAssumption
    <3>4. r.part - 1 = k
      BY <3>3, NAssumption
    <3>5. QED
      BY <2>4, <3>3, <3>4
  <2>7. Promise!Accept(r.part)
    BY <2>3, <2>6 DEF Promise!Accept, AbstractRecord
  <2>8. QED
    BY <1>0, <2>5, <2>7 DEF Promise!Next
<1>4. CASE r.op = "commit" /\ ~UNCHANGED coreVars
  <2>1. CoreCommit(r)
    BY <1>4 DEF CoreHandles
  <2>2. /\ staging = "open" /\ staging' = "sealed" /\ received = 1..N
        /\ received' = received /\ cont' = "queued"
    BY <1>4, <2>1 DEF CoreCommit, Accepting, PartsComplete
  <2>3. cont = "none"
    BY <2>2 DEF IInv, CoreFits
  <2>4. Promise!Seal
    BY <2>2, <2>3 DEF Promise!Seal, AbstractRecord
  <2>5. QED
    BY <1>0, <2>4 DEF Promise!Next
<1>5. CASE r.op \in {"status", "poll"}
  BY <1>1, <1>5 DEF CoreHandles
<1>6. QED
  BY <1>1, <1>2, <1>3, <1>4, <1>5 DEF Request

LEMMA UnansweredRefines ==
  ASSUME TypeOK, IInv, NEW c \in Clients, pc[c] \in Posting,
         Unanswered(RequestOf(c)), announced' = announced
  PROVE  CoreGrows /\ [Promise!Next]_(Promise!vars)
<1>1. CASE UNCHANGED coreVars
  BY <1>1, NothingGrows DEF Promise!vars, coreVars, AbstractRecord
<1>2. CASE CoreHandles(RequestOf(c))
  BY <1>2, OwnRequestFits, HandledRefines
<1>3. QED
  BY <1>1, <1>2 DEF Unanswered

LEMMA NextRefines ==
  ASSUME TypeOK, IInv, [Next]_vars
  PROVE  CoreGrows /\ [Promise!Next]_(Promise!vars)
<1> USE DEF Promise!vars
<1>1. CASE UNCHANGED <<coreVars, announced>>
  BY <1>1, NothingGrows DEF coreVars, AbstractRecord
<1>2. CASE Environment
  <2>1. CASE Expire
    <3>1. Promise!Close
      BY <2>1 DEF Expire, Promise!Close, AbstractRecord
    <3>2. QED
      BY <2>1, <3>1 DEF Expire, Promise!Next, CoreGrows, Settled
  <2>2. CASE StagingJobChanges
    <3>1. CoreGrows
      BY <2>2 DEF StagingJobChanges, CoreGrows, Settled
    <3>2. CASE staging' = staging
      BY <2>2, <3>1, <3>2 DEF StagingJobChanges, AbstractRecord
    <3>3. CASE staging' # staging
      BY <2>2, <3>1, <3>3 DEF StagingJobChanges, AbstractRecord, Promise!Close, Promise!Next
    <3>4. QED
      BY <3>2, <3>3
  <2>3. CASE ContinuationStep
    <3>1. staging = "sealed" /\ CoreGrows
      BY <2>3 DEF ContinuationStep, IInv, CoreFits, CoreGrows, Settled
    <3>2. CASE cont' = "succeeded"
      BY <2>3, <3>1, <3>2 DEF ContinuationStep, AbstractRecord, Promise!Ingest, Promise!Next
    <3>3. CASE cont' # "succeeded"
      BY <2>3, <3>1, <3>3 DEF ContinuationStep, AbstractRecord
    <3>4. QED
      BY <3>2, <3>3
  <2>4. CASE StrayArrives
    <3>1. PICK r \in strays : CoreHandles(r) /\ announced' = announced
      BY <2>4 DEF StrayArrives
    <3>2. r \in Request /\ RequestFits(r)
      BY DEF TypeOK, IInv
    <3>3. QED
      BY <3>1, <3>2, HandledRefines
  <2>5. QED
    BY <1>2, <2>1, <2>2, <2>3, <2>4 DEF Environment
<1>3. ASSUME NEW c \in Clients,
             Deliver(c) \/ AttemptFails(c) \/ DeadlinePasses(c) \/ Crash(c)
      PROVE  CoreGrows /\ [Promise!Next]_(Promise!vars)
  <2>1. CASE Deliver(c)
    BY <2>1, OwnRequestFits, HandledRefines DEF Deliver
  <2>2. CASE AttemptFails(c)
    BY <2>2, UnansweredRefines DEF AttemptFails
  <2>3. CASE DeadlinePasses(c)
    BY <1>1, <2>3, UnansweredRefines DEF DeadlinePasses, UnderDeadline
  <2>4. CASE Crash(c)
    BY <1>1, <2>4, UnansweredRefines DEF Crash
  <2>5. QED
    BY <1>3, <2>1, <2>2, <2>3, <2>4
<1>4. ASSUME NEW c \in Clients, Output(c)
      PROVE  CoreGrows /\ [Promise!Next]_(Promise!vars)
  <2>1. UNCHANGED coreVars /\ CoreGrows
    BY <1>4, NothingGrows DEF Output
  <2>2. CASE verdict[c] \in Success
    <3>1. staging = "sealed" /\ (verdict[c] = "succeeded" => cont = "succeeded")
      BY <2>2 DEF IInv, ClientFits, VerdictFits
    <3>2. announced' = announced \cup {<<c, verdict[c]>>}
      BY <1>4, <2>2 DEF Output
    <3>3. Promise!Tell(c, verdict[c])
      BY <2>1, <3>1, <3>2 DEF Promise!Tell, AbstractRecord, coreVars
    <3>4. QED
      BY <2>1, <2>2, <3>3 DEF Promise!Next, Success
  <2>3. CASE verdict[c] \notin Success
    <3>1. announced' = announced
      BY <1>4, <2>3 DEF Output
    <3>2. QED
      BY <1>1, <2>1, <3>1
  <2>4. QED
    BY <2>2, <2>3
<1>5. ASSUME NEW c \in Clients,
             PreflightFails(c) \/ Rerun(c) \/ StartRefused(c) \/ CreateState(c)
             \/ Handle(c) \/ Finalize(c)
      PROVE  CoreGrows /\ [Promise!Next]_(Promise!vars)
  BY <1>1, <1>5 DEF PreflightFails, Rerun, StartFresh, StartResume, StartRefused, CreateState,
     Handle, OnBegin, OnStatus, OnRefresh, OnPart, OnCommit, OnContinuation, Reads, Finalize
<1>6. CASE UNCHANGED vars
  BY <1>1, <1>6 DEF vars
<1>7. QED
  BY <1>2, <1>3, <1>4, <1>5, <1>6 DEF Next, Proceed

\* No step takes back a part that Core accepted or reopens a sealed record:
\* every invocation begins with the same key, so a replay finds the record.
THEOREM WorkIsKept == Spec => AcceptedWorkKept
<1>1. TypeOK /\ IInv /\ [Next]_vars
      => [received \subseteq received' /\ (staging = "sealed" => staging' = "sealed")]_vars
  BY NextRefines DEF CoreGrows
<1>2. QED
  BY <1>1, InvariantHolds, PTL DEF Spec, AcceptedWorkKept

\* The processes, their shared record and Core implement SnapshotPromise.
THEOREM PromiseKept == Spec => KeepsPromise
<1>1. Init => Promise!Init
  BY DEF Init, Promise!Init, AbstractRecord
<1>2. TypeOK /\ IInv /\ [Next]_vars => [Promise!Next]_(Promise!vars)
  BY NextRefines
<1>3. QED
  BY <1>1, <1>2, InvariantHolds, PTL DEF Spec, KeepsPromise, Promise!Spec
=============================================================================
