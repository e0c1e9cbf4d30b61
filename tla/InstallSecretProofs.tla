------------------------- MODULE InstallSecretProofs -------------------------
(***************************************************************************)
(* Proofs about InstallSecret, for every set of processes and every bound. *)
(* The exclusive create lets one process write at a time, and a full file  *)
(* is never opened for writing again.                                      *)
(***************************************************************************)
EXTENDS InstallSecret, TLAPS

\* The places of the process that draws, waits or returns.
LEMMA RoundFits ==
  ASSUME TypeOK, NEW p \in Processes, pc[p] \in {"stat", "read", "create"},
         tries[p] < Attempts, NextRound(p)
  PROVE  /\ tries' \in [Processes -> 0..Attempts]
         /\ pc' \in [Processes -> PC]
         /\ pc'[p] \in {"stat", "failed"}
         /\ pc'[p] = "stat" => tries'[p] < Attempts
         /\ \A q \in Processes \ {p} : pc'[q] = pc[q] /\ tries'[q] = tries[q]
BY AttemptsAssumption DEF TypeOK, NextRound, PC

\* The rounds left to a process in the loop (the for statement's bound).
RoundsLeft == \A p \in Processes : pc[p] \notin {"idle", "failed"} => tries[p] < Attempts

LEMMA NextFits ==
  ASSUME TypeOK, RoundsLeft, IInv, [Next]_vars
  PROVE  /\ TypeOK' /\ RoundsLeft' /\ IInv'
         /\ size = "full" => size' = "full" /\ content' = content
<1> USE AttemptsAssumption DEF IInv, OneSecret, RoundsLeft, TypeOK, PC
<1>1. CASE UNCHANGED vars
  BY <1>1 DEF vars
<1>2. ASSUME NEW p \in Processes, Start(p)
      PROVE  /\ TypeOK' /\ RoundsLeft' /\ IInv'
             /\ size = "full" => size' = "full" /\ content' = content
  BY <1>2 DEF Start
<1>3. ASSUME NEW p \in Processes, Stat(p)
      PROVE  /\ TypeOK' /\ RoundsLeft' /\ IInv'
             /\ size = "full" => size' = "full" /\ content' = content
  <2>1. CASE Complete /\ pc' = [pc EXCEPT ![p] = "read"] /\ UNCHANGED tries
    BY <1>3, <2>1 DEF Stat, Complete
  <2>2. CASE NextRound(p)
    BY <1>3, <2>2, RoundFits DEF Stat
  <2>3. CASE pc' = [pc EXCEPT ![p] = "create"] /\ UNCHANGED tries
    BY <1>3, <2>3 DEF Stat
  <2>4. QED
    BY <1>3, <2>1, <2>2, <2>3 DEF Stat
<1>4. ASSUME NEW p \in Processes, Read(p)
      PROVE  /\ TypeOK' /\ RoundsLeft' /\ IInv'
             /\ size = "full" => size' = "full" /\ content' = content
  <2>1. CASE Complete
    <3>1. /\ pc' = [pc EXCEPT ![p] = "idle"]
          /\ value' = [value EXCEPT ![p] = content]
          /\ returned' = returned \cup {content}
          /\ size = "full"
          /\ UNCHANGED <<tries, size, content, draws, runs, faults, crashes>>
      BY <1>4, <2>1 DEF Read, Return, Complete
    <3>2. TypeOK'
      BY <3>1
    <3>3. RoundsLeft' /\ IInv'
      BY <3>1
    <3>4. QED
      BY <3>1, <3>2, <3>3
  <2>2. CASE ~Complete
    BY <1>4, <2>2, RoundFits DEF Read, Complete
  <2>3. QED
    BY <2>1, <2>2
<1>5. ASSUME NEW p \in Processes, Create(p)
      PROVE  /\ TypeOK' /\ RoundsLeft' /\ IInv'
             /\ size = "full" => size' = "full" /\ content' = content
  <2>1. CASE MayCreate
    BY <1>5, <2>1 DEF Create, MayCreate
  <2>2. CASE ~MayCreate
    BY <1>5, <2>2, RoundFits DEF Create
  <2>3. QED
    BY <2>1, <2>2
<1>6. ASSUME NEW p \in Processes, Write(p)
      PROVE  /\ TypeOK' /\ RoundsLeft' /\ IInv'
             /\ size = "full" => size' = "full" /\ content' = content
  BY <1>6 DEF Write, Return
<1>7. ASSUME NEW p \in Processes, WriteFails(p) \/ Crash(p)
      PROVE  /\ TypeOK' /\ RoundsLeft' /\ IInv'
             /\ size = "full" => size' = "full" /\ content' = content
  <2>1. CASE WriteFails(p)
    BY <2>1 DEF WriteFails
  <2>2. CASE Crash(p)
    BY <2>2 DEF Crash
  <2>3. QED
    BY <1>7, <2>1, <2>2
<1>8. QED
  BY <1>1, <1>2, <1>3, <1>4, <1>5, <1>6, <1>7 DEF Next, Proceed

\* The inductive invariant of the exclusive create.
THEOREM InvariantHolds == Spec => [](TypeOK /\ RoundsLeft /\ IInv)
<1>1. Init => TypeOK /\ RoundsLeft /\ IInv
  BY AttemptsAssumption DEF Init, TypeOK, RoundsLeft, IInv, OneSecret, PC
<1>2. TypeOK /\ RoundsLeft /\ IInv /\ [Next]_vars => TypeOK' /\ RoundsLeft' /\ IInv'
  BY NextFits
<1>3. QED
  BY <1>1, <1>2, PTL DEF Spec

\* Every process that gets a secret gets the one in the file
\* (loadOrCreateInstallSecret).
THEOREM SecretAgreement == Spec => []OneSecret
<1>1. IInv => OneSecret
  BY DEF IInv
<1>2. QED
  BY <1>1, InvariantHolds, PTL

\* A complete secret is final.
THEOREM SecretIsFinal == Spec => SecretKept
<1>1. TypeOK /\ RoundsLeft /\ IInv /\ [Next]_vars
      => [size = "full" => size' = "full" /\ content' = content]_vars
  BY NextFits
<1>2. QED
  BY <1>1, InvariantHolds, PTL DEF Spec, SecretKept
=============================================================================
