----------------------------- MODULE MCWorkstation -----------------------------
(***************************************************************************)
(* What the command line keeps on a workstation: the managed Core          *)
(* container with its configuration, profiles and cached capabilities      *)
(* ("core"), and the database of tracked files ("files").  The two share   *)
(* no state; `side` says which one a behaviour is about.                   *)
(***************************************************************************)
EXTENDS TrackedFiles, TLC

CONSTANTS Names, Ports, MaxSets, MaxCoreCommands, MaxCoreFaults   \* of LocalCore

\* The variables me, causes, commands and faults are those of either side.
VARIABLES side, saved, containers, profiles, cache, login, sets
coreFiles == <<saved, containers, profiles, cache, login, sets>>
database == <<rows, project, docs, content, edits>>

Core == INSTANCE LocalCore WITH MaxCommands <- MaxCoreCommands, MaxFaults <- MaxCoreFaults

ASSUME CoreAssumptions == Core!PortsAssumption /\ Core!BoundsAssumption

\* All files bear one name, repositories another one.
OneName == [i \in Items |-> IF i \in Files THEN "readme" ELSE "app"]

SideInit ==
  \/ /\ side = "core" /\ Core!Init
     /\ rows = <<>> /\ project = <<>> /\ docs = <<>> /\ content = <<>> /\ edits = 0
  \/ /\ side = "files" /\ Init
     /\ saved = <<>> /\ containers = <<>> /\ profiles = <<>>
     /\ cache = <<>> /\ login = "none" /\ sets = 0

SideNext ==
  /\ UNCHANGED side
  /\ \/ side = "core" /\ Core!Next /\ UNCHANGED database
     \/ side = "files" /\ Next /\ UNCHANGED coreFiles

SideSpec == SideInit /\ [][SideNext]_<<vars, side, coreFiles>>

\* The processes, the names of containers and the ports are interchangeable.
Interchangeable == Permutations(Processes) \cup Permutations(Names) \cup Permutations(Ports)

-----------------------------------------------------------------------------
(* The properties of the two sides.                                        *)

\* What `core up` leaves is what `core status` and `core doctor` ask for: runCoreUp,
\* runtimeConfigMismatches and the doctor agree on every setting, except where an
\* extra assignment overrides one and where the reranker's model is not found.
RestartHeals == side = "core" => Core!RestartHeals

\* The cached capabilities tell the mode of the server that runs at their base,
\* unless `core up` was cut short or overtook a fetch (ClearCapabilitiesCache).
CacheAgrees == side = "core" => Core!CacheAgrees

\* A file that sync passes over as unchanged was at some time given to its document
\* as it is, if its hash was sent when it was stored: through failed requests,
\* deaths, stale rows and commands on top of each other.
SkippedFilesAreGiven == side = "files" => FilesAreGiven

\* A document is left without a row only when a request was lost, a command died, it
\* could not be processed, or its item was added again, removed or worked on twice.
NoDocumentIsLeftBehind == side = "files" => NoStrayDocument

\* A reconcile that nothing disturbs leaves every linked row with the flag of its
\* document, and no row unlinked to the only document of its name.
ReconcileLeavesAgreement == side = "files" => ReconcileAgrees
=============================================================================
