------------------------------- MODULE LocalCore -------------------------------
(***************************************************************************)
(* The managed local Core (core.go, core_runtime.go), as it meets the      *)
(* profiles (profile.go, profiles.go), the cached capabilities of the      *)
(* server (capabilities.go), `compair login` and `compair demo`.           *)
(*                                                                         *)
(* A saved config describes a Docker container. `core config set` changes  *)
(* the config only, `core up` recreates the container from it, writes its  *)
(* address into the profile "local" and clears the cached capabilities.    *)
(* All of them are files that every command reads and writes without a     *)
(* lock.                                                                   *)
(***************************************************************************)
EXTENDS Naturals, FiniteSets

CONSTANTS
  Processes,     \* concurrent invocations
  Names,         \* container names
  Ports,         \* host ports
  MaxCommands,   \* bound: commands started
  MaxSets,       \* bound: changes of the saved config
  MaxFaults      \* bound: failures of Docker, containers that stop, crashes

\* A port is a number.
PortsAssumption == Ports \cap {"cloud", "none"} = {}
BoundsAssumption == MaxCommands \in Nat /\ MaxSets \in Nat /\ MaxFaults \in Nat

VARIABLES
  saved,       \* core_runtime.yaml: own and extra settings, port and name
  containers,  \* Docker: containers[n] is the container of name n: its state,
               \* "running", "stopped" or "absent", and its port and env
  profiles,    \* profiles.yaml: the default profile, and the port of "local"
  cache,       \* cache/capabilities.json: the base it is of, and its auth mode
  login,       \* credentials.json: the mode of the server that issued them
  me,          \* me[p]: the memory of process p
  causes,      \* history: what may have left stale capabilities in the cache
  commands, sets, faults   \* counters for the bounds

counters == <<commands, sets, faults>>
files == <<saved, profiles, cache, login>>
vars == <<saved, containers, profiles, cache, login, me, causes, commands, sets, faults>>

Modes == {"single", "accounts"}

\* What the container is told, one of each kind of handling: whether accounts are
\* required, the two providers, the models, the notification model, the scoring
\* limits, the switches of the reference pipeline, the limits and the path of a
\* model (a file or a directory) that go with a switch, and a variable that only
\* an extra assignment names. 0 is unset, off or not passed; an extra assignment
\* may name any of them, and 2 is then a value of a switch that is not "on".
Keys == {"auth", "provider", "model", "notif", "timeout", "switch", "limit", "path", "tuning"}
Own == Keys \ {"tuning"}
On == 1
OpenAI == 2
Accounts == 2
Always == {"auth", "provider", "model"}
Settings == [Keys -> 0..2]
Mode(setting) == IF setting = Accounts THEN "accounts" ELSE "single"

Absent == [state |-> "absent"]
Profiles == [default : {"cloud", "local"}, local : Ports]
NoConfig == [name |-> "none"]
NoProfiles == [default |-> "none"]

-----------------------------------------------------------------------------
(* The config and the container's environment.                             *)

\* defaultCoreRuntime: the values that are never unset.
Default(k) == IF k \in Always THEN 1 ELSE 0

\* normalizeCoreRuntime.
Normal(settings) == [k \in Keys |-> IF settings[k] = 0 THEN Default(k) ELSE settings[k]]

UsesOpenAI(config) == config.own["provider"] = OpenAI

\* Mutant of Env: a setting is saved and compared, but not passed.
TimeoutForgotten(config, available) ==
  [k \in Keys |-> IF config.extra[k] > 0 THEN config.extra[k]
                 ELSE IF k = "timeout" \/ (k = "path" /\ ~available) THEN 0 ELSE config.own[k]]

\* The variables that `core up` passes: the last assignment of a variable wins. A
\* model that is not found at its path is not passed; there is but a warning.
Env(config, available) ==
  [k \in Keys |-> IF config.extra[k] > 0 THEN config.extra[k]
                 ELSE IF k = "path" /\ ~available THEN 0 ELSE config.own[k]]

\* The settings that `core status` compares; what it expects of a path does not
\* depend on there being a model.
Compared(config, k) ==
  \/ k \in {"provider", "switch"}
  \/ k = "model" /\ UsesOpenAI(config)
  \/ k = "notif" /\ UsesOpenAI(config) /\ config.own[k] > 0
  \/ k = "timeout" /\ config.own[k] > 0
  \/ k \in {"limit", "path"} /\ config.own["switch"] = On /\ config.own[k] > 0

\* Of a switch only matters whether it is on.
Differs(k, wanted, got) ==
  IF k = "switch" THEN (wanted = On) # (got = On) ELSE wanted # got

\* runtimeConfigMismatches.
Mismatches(config, env) ==
  {k \in Keys : Compared(config, k) /\ Differs(k, config.own[k], env[k])}
  \cup {k \in Keys : config.extra[k] > 0 /\ env[k] # config.extra[k]}

Running(n) == containers[n].state = "running"

\* What `core status` advises a restart for; `core config set` does so in any case.
StatusFinds ==
  IF Running(saved.name) THEN Mismatches(saved, containers[saved.name].env) ELSE {}

\* The mode in which a base is served, if it is.
Served(base) ==
  IF base = "cloud" THEN {"accounts"}
  ELSE {Mode(containers[n].env["auth"]) : n \in {m \in Names : Running(m) /\ containers[m].port = base}}

\* The problems that `core doctor` finds, except for missing credentials.
DoctorFinds ==
  LET c == containers[saved.name] IN
  (IF profiles.local # saved.port THEN {"profile"} ELSE {})
  \cup (IF c.state # "running" THEN {"container"}
        ELSE IF Served(saved.port) = {} THEN {"health"}
        ELSE IF Served(saved.port) # {Mode(saved.own["auth"])} THEN {"auth"} ELSE {})

-----------------------------------------------------------------------------
(* Invocations.                                                            *)

Idle ==
  [pc |-> "idle", config |-> NoConfig, profiles |-> NoProfiles, base |-> "cloud",
   caps |-> "single", alone |-> FALSE]

Set(p, memory) == me' = [me EXCEPT ![p] = memory]
Goto(p, place) == Set(p, [me[p] EXCEPT !.pc = place])

\* Process p ends, and forgets.
Ends(p) == Set(p, Idle)

\* A step of p that others in the middle of `core up` do not expect.
Disturbs(p, memory) ==
  me' = [q \in Processes |-> IF q = p THEN memory ELSE [me[q] EXCEPT !.alone = FALSE]]

\* The base of a command: the default profile's, resolved before it runs.
Resolved == IF profiles.default = "cloud" THEN "cloud" ELSE profiles.local

Begin(p, memory) ==
  /\ me[p].pc = "idle"
  /\ commands < MaxCommands
  /\ commands' = commands + 1
  /\ Set(p, [memory EXCEPT !.base = Resolved])

\* `core config set`: applyCoreRuntimeOverrides on the config that is loaded;
\* a key is asked for or given where one is needed. Of a setting that may be unset
\* one value is enough, and another one for an extra assignment.
WithOwn(config, k, v) == [config EXCEPT !.own = Normal([@ EXCEPT ![k] = v])]
WithExtra(config, k, v) == [config EXCEPT !.extra[k] = v]
Overrides(config) ==
  {WithOwn(config, k, v) : k \in Always, v \in 0..2}
  \cup {WithOwn(config, k, v) : k \in Own \ Always, v \in 0..1}
  \cup {WithExtra(config, k, v) : k \in Always \cup {"switch"}, v \in 0..2}
  \cup {WithExtra(config, k, v) : k \in Keys, v \in {0, 2}}
  \cup {[config EXCEPT !.port = port] : port \in Ports}
  \cup {[config EXCEPT !.name = n] : n \in Names}

ConfigSet(p) ==
  /\ sets < MaxSets
  /\ sets' = sets + 1
  /\ \E config \in Overrides(saved) \ {saved} :
       Begin(p, [Idle EXCEPT !.pc = "set", !.config = config])
  /\ UNCHANGED <<files, containers, causes, faults>>

\* What is saved is what was loaded, with the overrides: a change by another
\* process in between is lost.
Save(p) ==
  /\ me[p].pc = "set"
  /\ saved' = me[p].config
  /\ Disturbs(p, Idle)
  /\ UNCHANGED <<containers, profiles, cache, login, causes, counters>>

\* `core up` and `core restart`; `demo --mode local` does it unless the container runs.
Up(p) ==
  /\ Begin(p, [Idle EXCEPT !.pc = "remove", !.config = saved, !.alone = TRUE])
  /\ UNCHANGED <<files, containers, causes, sets, faults>>

Demo(p) ==
  /\ Begin(p, [Idle EXCEPT !.config = saved, !.alone = ~Running(saved.name),
                !.pc = IF Running(saved.name) THEN "clear" ELSE "remove"])
  /\ UNCHANGED <<files, containers, causes, sets, faults>>

DockerFails(p) ==
  /\ me[p].pc \in {"remove", "run", "down"} /\ faults < MaxFaults
  /\ faults' = faults + 1
  /\ Ends(p)
  /\ UNCHANGED <<files, containers, causes, commands, sets>>

Remove(p) ==
  /\ me[p].pc = "remove"
  /\ containers' = [containers EXCEPT ![me[p].config.name] = Absent]
  /\ Disturbs(p, [me[p] EXCEPT !.pc = "run"])
  /\ UNCHANGED <<files, causes, counters>>

\* A fetch that an up overtakes may store what the old container said.
Overtaken == \E q \in Processes : me[q].pc = "store"

\* docker run: the name must be free; when the port is not, the container
\* stays behind without running.
Run(p) ==
  LET config == me[p].config
      created(state) ==
        \E available \in BOOLEAN :
          containers' = [containers EXCEPT ![config.name] =
            [state |-> state, port |-> config.port, env |-> Env(config, available)]]
  IN
  /\ me[p].pc = "run"
  /\ \/ /\ containers[config.name] # Absent
        /\ Ends(p) /\ UNCHANGED <<containers, causes>>
     \/ /\ containers[config.name] = Absent /\ Served(config.port) # {}
        /\ created("stopped") /\ Ends(p) /\ UNCHANGED causes
     \/ /\ containers[config.name] = Absent /\ Served(config.port) = {}
        /\ created("running")
        /\ causes' = causes \cup (IF Overtaken THEN {"overtaken"} ELSE {})
        /\ Disturbs(p, [me[p] EXCEPT !.pc = "profile"])
  /\ UNCHANGED <<files, counters>>

\* syncLocalProfile.
SyncProfile(p) ==
  /\ me[p].pc = "profile"
  /\ profiles' = [profiles EXCEPT !.local = me[p].config.port]
  /\ Disturbs(p, [me[p] EXCEPT !.pc = "clear"])
  /\ UNCHANGED <<saved, containers, cache, login, causes, counters>>

NoCache == [base |-> "none"]

Cleared == NoCache

Clear(p) ==
  /\ me[p].pc = "clear"
  /\ cache' = Cleared
  /\ Goto(p, "wait")
  /\ UNCHANGED <<saved, containers, profiles, login, causes, counters>>

\* waitForLocalCoreReady: the container answers, or the time is up.
Wait(p) ==
  /\ me[p].pc = "wait"
  /\ IF Served(me[p].config.port) # {} THEN Goto(p, "started") ELSE Ends(p)
  /\ UNCHANGED <<files, containers, causes, counters>>

Started(p) ==
  /\ me[p].pc = "started"
  /\ Ends(p)
  /\ UNCHANGED <<files, containers, causes, counters>>

\* `core down`: a container that is not there is no error.
Down(p) ==
  /\ Begin(p, [Idle EXCEPT !.pc = "down", !.config = saved])
  /\ UNCHANGED <<files, containers, causes, sets, faults>>

Removed(p) ==
  /\ me[p].pc = "down"
  /\ containers' = [containers EXCEPT ![me[p].config.name] = Absent]
  /\ Disturbs(p, Idle)
  /\ UNCHANGED <<files, causes, counters>>

\* `profile use` and `profile set local`: the whole file is loaded, changed and saved.
ProfileChange(p) ==
  /\ \E changed \in Profiles :
       /\ changed.default = profiles.default \/ changed.local = profiles.local
       /\ Begin(p, [Idle EXCEPT !.pc = "use", !.profiles = changed])
  /\ UNCHANGED <<files, containers, causes, sets, faults>>

ProfileSaved(p) ==
  /\ me[p].pc = "use"
  /\ profiles' = me[p].profiles
  /\ cache' = Cleared
  /\ Disturbs(p, Idle)
  /\ UNCHANGED <<saved, containers, login, causes, counters>>

\* The entry may have expired.
Hit(base) == cache.base = base

\* Capabilities(ttl), at the start of `login` and of commands alike.
Ask(p) ==
  /\ me[p].pc = "idle"
  /\ \/ Hit(Resolved) /\ Begin(p, [Idle EXCEPT !.pc = "login", !.caps = cache.auth])
     \/ Begin(p, [Idle EXCEPT !.pc = "fetch"])
  /\ UNCHANGED <<files, containers, causes, sets, faults>>

\* A server that does not answer is assumed to require accounts; that is not kept.
Fetch(p) ==
  LET base == me[p].base IN
  /\ me[p].pc = "fetch"
  /\ \/ Served(base) = {} /\ Set(p, [me[p] EXCEPT !.pc = "login", !.caps = "accounts"])
     \/ \E mode \in Served(base) : Set(p, [me[p] EXCEPT !.pc = "store", !.caps = mode])
  /\ UNCHANGED <<files, containers, causes, counters>>

\* Mutant of Entry: the base is looked up again for the file.
EntryOfProfile(p) == [base |-> Resolved, auth |-> me[p].caps]

\* Capabilities are kept with the base that they were asked of.
Entry(p) == [base |-> me[p].base, auth |-> me[p].caps]

Store(p) ==
  /\ me[p].pc = "store"
  /\ cache' = Entry(p)
  /\ Goto(p, "login")
  /\ UNCHANGED <<saved, containers, profiles, login, causes, counters>>

\* A session of a single-user server, or the answer to a password or a browser
\* sign-in; where the server is of the other mode it fails, and nothing is
\* written. A command that only asked ends here too.
Login(p) ==
  /\ me[p].pc = "login"
  /\ \/ me[p].caps \in Served(me[p].base) /\ login' = me[p].caps /\ cache' = Cleared
     \/ UNCHANGED <<login, cache>>
  /\ Ends(p)
  /\ UNCHANGED <<saved, containers, profiles, causes, counters>>

Logout ==
  /\ login # "none" /\ commands < MaxCommands
  /\ commands' = commands + 1
  /\ login' = "none"
  /\ UNCHANGED <<saved, containers, profiles, cache, me, causes, sets, faults>>

-----------------------------------------------------------------------------
(* Trouble.                                                                *)

\* A container stops by itself.
Stops(n) ==
  /\ Running(n) /\ faults < MaxFaults
  /\ faults' = faults + 1
  /\ containers' = [containers EXCEPT ![n].state = "stopped"]
  /\ me' = [q \in Processes |-> [me[q] EXCEPT !.alone = FALSE]]
  /\ UNCHANGED <<files, causes, commands, sets>>

\* A process is killed; an up that dies before it clears the cache leaves it.
Crash(p) ==
  /\ me[p].pc # "idle" /\ faults < MaxFaults
  /\ faults' = faults + 1
  /\ causes' = causes \cup (IF me[p].pc \in {"profile", "clear"} THEN {"cut"} ELSE {})
  /\ Ends(p)
  /\ UNCHANGED <<files, containers, commands, sets>>

-----------------------------------------------------------------------------

InitialConfig(n, port) ==
  [own |-> Normal([k \in Keys |-> 0]), extra |-> [k \in Keys |-> 0],
   port |-> port, name |-> n]

\* The files are as their defaults, but the user may have chosen the profile
\* "local" before; no container runs.
Init ==
  /\ \E n \in Names, port \in Ports, default \in {"cloud", "local"} :
       saved = InitialConfig(n, port) /\ profiles = [default |-> default, local |-> port]
  /\ containers = [n \in Names |-> Absent]
  /\ cache = NoCache /\ login = "none"
  /\ me = [p \in Processes |-> Idle]
  /\ causes = {}
  /\ commands = 0 /\ sets = 0 /\ faults = 0

Begins(p) ==
  ConfigSet(p) \/ Up(p) \/ Demo(p) \/ Down(p) \/ ProfileChange(p) \/ Ask(p)

Proceeds(p) ==
  \/ Save(p) \/ Remove(p) \/ Run(p) \/ SyncProfile(p) \/ Clear(p) \/ Wait(p) \/ Started(p)
  \/ Removed(p) \/ ProfileSaved(p) \/ Fetch(p) \/ Store(p) \/ Login(p)

Next ==
  \/ \E p \in Processes : Begins(p) \/ Proceeds(p) \/ DockerFails(p) \/ Crash(p)
  \/ \E n \in Names : Stops(n)
  \/ Logout

Spec == Init /\ [][Next]_vars

-----------------------------------------------------------------------------
(* Properties.                                                             *)

\* The settings of the config that an extra assignment overrides.
Overridden(config) ==
  {k \in Own : config.extra[k] > 0 /\ Differs(k, config.own[k], config.extra[k])}

\* A model that was not found by `core up`, of a reranker that is on.
Missing(config, env) == IF Compared(config, "path") /\ env["path"] = 0 THEN {"path"} ELSE {}

\* What `core up` leaves is what `core status` and `core doctor` ask for: the
\* tip to restart is of use. Three pieces of code must agree on every setting:
\* runCoreUp, runtimeConfigMismatches and the doctor. They do but for two cases,
\* in which status or doctor ask again after every restart: an extra assignment
\* overrides a setting of the config itself (also a switch that is off, and
\* authentication), or the reranker's model is not to be found.
RestartHeals ==
  \A p \in Processes :
    me[p].pc = "started" /\ me[p].alone =>
      /\ StatusFinds = {k \in Overridden(saved) : Compared(saved, k)}
                         \cup Missing(saved, containers[saved.name].env)
      /\ DoctorFinds = Overridden(saved) \cap {"auth"}

\* A `core up` that runs its container, and has not cleared the cache yet.
Updating == {"profile", "clear"}

\* The cached capabilities tell the mode of the server that runs at their base,
\* unless `core up` was cut short or overtook a fetch: then `login` goes by the
\* old mode until the entry expires.
CacheAgrees ==
  LET busy == \E p \in Processes : me[p].pc \in Updating IN
  cache # NoCache /\ causes = {} /\ ~busy =>
    Served(cache.base) \subseteq {cache.auth}
-----------------------------------------------------------------------------
(* The inductive invariant of both.                                        *)

Bases == {"cloud"} \cup Ports
Config ==
  [own : Settings, extra : Settings, port : Ports, name : Names]
Container ==
  [state : {"running", "stopped"}, port : Ports, env : Settings]
PC == {"idle", "set", "remove", "run", "profile", "clear", "wait", "started",
       "down", "use", "fetch", "store", "login"}
Memory ==
  [pc : PC, config : Config \cup {NoConfig}, profiles : Profiles \cup {NoProfiles},
   base : Bases, caps : Modes, alone : BOOLEAN]

TypeOK ==
  /\ saved \in Config
  /\ containers \in [Names -> Container \cup {Absent}]
  /\ profiles \in Profiles
  /\ cache \in [base : Bases, auth : Modes] \cup {NoCache}
  /\ login \in Modes \cup {"none"}
  /\ me \in [Processes -> Memory]
  /\ causes \subseteq {"overtaken", "cut"}
  /\ commands \in Nat /\ sets \in Nat /\ faults \in Nat

\* A config that loadCoreRuntimeConfig and applyCoreRuntimeOverrides make: some
\* settings are never unset.
Sound(config) == \A k \in Always : config.own[k] # 0

\* A port answers for one container at most.
OnePerPort ==
  \A m, n \in Names :
    Running(m) /\ Running(n) /\ containers[m].port = containers[n].port => m = n

\* The container is the one that `core up` made of the config.
Made(config) ==
  /\ containers[config.name] # Absent /\ Running(config.name)
  /\ containers[config.name].port = config.port
  /\ \E available \in BOOLEAN : containers[config.name].env = Env(config, available)

\* The places in which a process has a config in its memory.
Holding == {"set", "remove", "run", "profile", "clear", "wait", "started", "down"}

\* Where an undisturbed `core up` is in its work tells what it has done so far.
UpFits(m) ==
  m.alone =>
    /\ m.pc \in {"remove", "run", "profile", "clear", "wait", "started"}
    /\ m.config = saved
    /\ m.pc \notin {"remove", "run"} => Made(saved)
    /\ m.pc \in {"clear", "wait", "started"} => profiles.local = saved.port

\* What a process was told by the server agrees with whoever serves the base.
ToldFits(m) == m.pc = "store" /\ causes = {} => Served(m.base) \subseteq {m.caps}

Fits(m) ==
  /\ m.pc \in Holding => m.config \in Config
  /\ m.pc = "set" => Sound(m.config)
  /\ m.pc = "use" => m.profiles \in Profiles
  /\ UpFits(m) /\ ToldFits(m)

CoreInv ==
  /\ Sound(saved) /\ OnePerPort
  /\ \A p \in Processes : Fits(me[p])
  /\ CacheAgrees
=============================================================================
