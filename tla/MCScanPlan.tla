------------------------------- MODULE MCScanPlan -------------------------------
EXTENDS ScanPlan, TLC

\* Planners and paths are interchangeable.
PlanSymmetries == Permutations(Planners) \cup Permutations(Paths)

\* All planners are to begin, or one of them; the other ones have ended.
AllPlanners == planner = [p \in Planners |-> NotBegun]
OnePlanner ==
  \E q \in Planners : planner =
    [p \in Planners |-> IF p = q THEN NotBegun ELSE [NotBegun EXCEPT !.pc = "done"]]

\* Nothing is registered yet.
NothingBound == bindings = {} /\ registered = {} /\ ids = 0 /\ uids = 0

\* Earlier commands registered every working copy.
AllBound ==
  /\ ids = Cardinality(Paths) /\ uids = ids
  /\ \E source \in [Paths -> Sources], turn \in [Paths -> 1..ids] :
       /\ \A a, b \in Paths : turn[a] = turn[b] => a = b
       /\ bindings = {[id |-> turn[a], path |-> a, uid |-> turn[a],
                       source |-> source[a], clone |-> 0] : a \in Paths}
       /\ registered = {[uid |-> turn[a], source |-> source[a]] : a \in Paths}

\* A planner beside the first commands; a planner beside one that registers or
\* binds again what it has copied the bindings of; planners beside each other, the
\* commands having ended. Planners meet in the output file only, so the states of
\* commands and several planners at once are saved. The rest is as in PlanInit.
PartedInit ==
  /\ \/ OnePlanner /\ NothingBound /\ runs = [p \in Processes |-> 0]
     \/ OnePlanner /\ AllBound /\ runs = [p \in Processes |-> MaxRuns - 1]
     \/ AllPlanners /\ AllBound /\ runs = [p \in Processes |-> MaxRuns]
  /\ lock = "free" /\ disabled = {}
  /\ clone = [path \in Paths |-> 0]
  /\ pc = [p \in Processes |-> "idle"]
  /\ arg = [p \in Processes |-> NoArgument]
  /\ found = [p \in Processes |-> 0]
  /\ expired = [p \in Processes |-> FALSE]
  /\ result = [p \in Processes |-> "none"]
  /\ faults = 0 /\ crashes = 0 /\ ages = 0 /\ reclones = 0
  /\ output = NoPlan
  /\ moved = [p \in Planners |-> {}]

PartedSpec == PartedInit /\ [][PlanNext]_allVars
=============================================================================
