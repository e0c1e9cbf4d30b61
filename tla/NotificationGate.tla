---------------------------- MODULE NotificationGate ----------------------------
(***************************************************************************)
(* The gate at the end of `compair sync`, which CI runs for its exit code: *)
(* it reads the notification events that the server scores while the       *)
(* command waits, and fails when one passes its filters. When there are no *)
(* events to be had, the number of new feedback decides.                   *)
(* (sync_notification_gate.go, sync_gate_presets.go, the end of            *)
(* runSyncCommand.)                                                        *)
(***************************************************************************)
EXTENDS Naturals, Sequences, FiniteSets, SequencesExt

CONSTANTS
  Mine, Other,  \* documents tracked here, documents of other members of the group
  PageSize,     \* events on the page that the gate reads
  MaxTime, MaxEvents, MaxGateRuns, MaxErrors   \* bounds: half minutes, events, ...
GateAssumption == Mine \cap Other = {} /\ PageSize \in Nat

VARIABLES
  events,   \* the server's notification events, newest first
  serves,   \* whether the server has notification events at all
  clock,    \* half minutes
  gate,     \* the memory of the command
  gateRuns, errors   \* counters for the bounds
gateVars == <<events, serves, clock, gate, gateRuns, errors>>
server == <<events, serves, clock>>

\* Labels of events: accepted by the filters of the gate or not, or to be dropped.
Severities == {"high", "low"}
Intents == {"potential_conflict", "relevant_update"}
Actions == {"push", "drop"}

\* What an event says. The events to be dropped are those that the filters like
\* best.
Labels ==
  {l \in [doc : Mine \cup Other, severity : Severities, intent : Intents, action : Actions] :
     l.action = "drop" => l.severity = "high" /\ l.intent = "potential_conflict"}

Modes == {"both", "fetch", "push"}   \* sync, sync --fetch-only, sync --push-only

\* The filters and the threshold of a command: empty filters accept everything,
\* and a threshold of 0 nothing.
Filters == [severities : {{}, {"high"}}, intents : {{}, {"potential_conflict"}},
            threshold : 0..1]

Fresh == [pc |-> "idle", mode |-> "both",
          filters |-> [severities |-> {}, intents |-> {}, threshold |-> 0],
          waits |-> FALSE, started |-> 0, resp |-> <<>>, last |-> 0, stable |-> 0]
In(pc) == gate.pc = pc

-----------------------------------------------------------------------------
(* The server.                                                             *)

\* An event is scored: `at` is the true time, `stamp` the time of the server, whose
\* clock may be half a minute behind.
Score ==
  /\ serves /\ Len(events) < MaxEvents
  /\ \E l \in Labels, skew \in 0..1 :
       /\ skew <= clock
       /\ events' = <<[at |-> clock, stamp |-> clock - skew, doc |-> l.doc,
                      severity |-> l.severity, intent |-> l.intent,
                      action |-> l.action]>> \o events
  /\ UNCHANGED <<serves, clock, gate, gateRuns, errors>>

Tick ==
  /\ clock < MaxTime /\ clock' = clock + 1
  /\ UNCHANGED <<events, serves, gate, gateRuns, errors>>

-----------------------------------------------------------------------------
(* The command.                                                            *)

\* The presets, all but their names, as far as the labels of this model go.
Preset == [severities |-> {"high"}, intents |-> {"potential_conflict"}, threshold |-> 1]

\* applySyncGatePreset: what the flags leave open comes from the preset.
Applied(flags) ==
  [severities |-> IF flags.severities = {} THEN Preset.severities ELSE flags.severities,
   intents |-> IF flags.intents = {} THEN Preset.intents ELSE flags.intents,
   threshold |-> IF flags.threshold = 0 THEN Preset.threshold ELSE flags.threshold]

\* detailedNotificationGateEnabled
Detailed(filters) == filters.severities # {} \/ filters.intents # {}

\* The time of the start is taken, and updates are submitted and processed or not.
Begin ==
  /\ In("idle") /\ gateRuns < MaxGateRuns /\ gateRuns' = gateRuns + 1
  /\ \E flags \in Filters, preset \in BOOLEAN, mode \in Modes, updated \in BOOLEAN :
       LET filters == IF preset THEN Applied(flags) ELSE flags IN
       gate' = [gate EXCEPT !.pc = "running", !.mode = mode, !.filters = filters,
                  !.started = clock,
                  !.waits = updated /\ mode = "both" /\ Detailed(filters)]
  /\ UNCHANGED <<server, errors>>

\* notificationEventsAvailable and the request of the gate: the capabilities say
\* no and a probe agrees, or they say nothing, and the request is refused; or a
\* request fails.
Unavailable ==
  /\ In("running")
  /\ \/ ~serves /\ UNCHANGED errors
     \/ serves /\ errors < MaxErrors /\ errors' = errors + 1
  /\ gate' = [gate EXCEPT !.pc = "count"]
  /\ UNCHANGED <<server, gateRuns>>

NotGated ==
  /\ In("running") /\ serves /\ ~Detailed(gate.filters)
  /\ gate' = [gate EXCEPT !.pc = "count"]
  /\ UNCHANGED <<server, gateRuns, errors>>

\* Mutant of Since: no tolerance for the server's clock.
SinceStart == gate.started

\* Half a minute before the start.
Since == IF gate.started = 0 THEN 0 ELSE gate.started - 1

\* collectNotificationGateResult; --push-only has not gathered any documents, and
\* so takes those of all members.
Considered(e) ==
  /\ e.action # "drop" /\ e.stamp >= Since
  /\ gate.mode = "push" \/ e.doc \in Mine

\* notificationMatchesFilters
Matches(e) ==
  /\ gate.filters.severities = {} \/ e.severity \in gate.filters.severities
  /\ gate.filters.intents = {} \/ e.intent \in gate.filters.intents

\* A page is read. With a budget the loop goes on until three readings considered
\* the same number of events, at least one, or the deadline is over.
Poll ==
  LET resp == IF Len(events) <= PageSize THEN events ELSE SubSeq(events, 1, PageSize)
      considered == Cardinality({k \in DOMAIN resp : Considered(resp[k])})
      stable == IF gate.last = considered + 1 THEN gate.stable + 1 ELSE 0
  IN
  /\ In("running") /\ serves /\ Detailed(gate.filters)
  /\ \E over \in BOOLEAN :
       gate' = IF ~gate.waits \/ over \/ (considered > 0 /\ stable >= 2)
               THEN [gate EXCEPT !.pc = "judge", !.resp = resp, !.last = 0, !.stable = 0]
               ELSE [gate EXCEPT !.last = considered + 1,    \* lastConsidered starts at -1
                                 !.stable = IF stable < 2 THEN stable ELSE 2]
  /\ UNCHANGED <<server, gateRuns, errors>>

Judge ==
  LET matched == {e \in Range(gate.resp) : Considered(e) /\ Matches(e)} IN
  /\ In("judge") /\ gate' = [gate EXCEPT !.pc = IF matched # {} THEN "blocked" ELSE "passed"]
  /\ UNCHANGED <<server, gateRuns, errors>>

\* Without the gate, or when it is unavailable, the number of new feedback
\* decides: the command fails when it reaches the threshold.
Count ==
  /\ In("count")
  /\ \E new \in 0..1 :
       gate' = [gate EXCEPT !.pc =
                  IF gate.filters.threshold > 0 /\ new >= gate.filters.threshold
                  THEN "too many" ELSE "enough"]
  /\ UNCHANGED <<server, gateRuns, errors>>

Exit ==
  /\ gate.pc \in {"blocked", "passed", "too many", "enough"} /\ gate' = Fresh
  /\ UNCHANGED <<server, gateRuns, errors>>

GateInit ==
  /\ events = <<>> /\ serves \in BOOLEAN /\ clock = 0
  /\ gate = Fresh /\ gateRuns = 0 /\ errors = 0

GateNext ==
  Score \/ Tick \/ Begin \/ Unavailable \/ NotGated \/ Poll \/ Judge \/ Count \/ Exit

-----------------------------------------------------------------------------
(* Properties.                                                             *)

\* A gate that passes had been shown no event that its filters accept about a
\* tracked document, and that the server made after the command started; a gate
\* that blocks had been shown one that is at most half a minute older than the
\* command. Neither the documents of others nor a difference of the clocks change
\* the verdict.
VerdictIsInformed ==
  LET asked == {e \in Range(gate.resp) :
                  /\ e.action = "push" /\ Matches(e)
                  /\ e.doc \in IF gate.mode = "push" THEN Mine \cup Other ELSE Mine}
  IN /\ In("passed") => ~\E e \in asked : e.at >= gate.started
     /\ In("blocked") => \E e \in asked : e.at + 1 >= gate.started
-----------------------------------------------------------------------------
(* The inductive invariant.                                                *)

Event == [at : Nat, stamp : Nat, doc : Mine \cup Other, severity : Severities,
          intent : Intents, action : Actions]
PC == {"idle", "running", "judge", "count", "blocked", "passed", "too many", "enough"}

TypeOK ==
  /\ events \in Seq(Event) /\ serves \in BOOLEAN /\ clock \in Nat
  /\ gate \in [pc : PC, mode : Modes, filters : Filters, waits : BOOLEAN, started : Nat,
               resp : Seq(Event), last : Nat, stable : 0..2]
  /\ gateRuns \in Nat /\ errors \in Nat

\* The server's clock is right or half a minute behind.
Stamped(e) == e.stamp <= e.at /\ e.at <= e.stamp + 1

\* The verdict is about the page in memory, whatever was scored since.
GateInv ==
  /\ \A e \in Range(events) \cup Range(gate.resp) : Stamped(e)
  /\ In("passed") => ~\E e \in Range(gate.resp) : Considered(e) /\ Matches(e)
  /\ In("blocked") => \E e \in Range(gate.resp) : Considered(e) /\ Matches(e)
=============================================================================
