-------------------------- MODULE Producer_proofs --------------------------
(***************************************************************************)
(* What Producer guarantees for every set of contents, every snapshot      *)
(* interval and every number of versions.                                  *)
(***************************************************************************)
EXTENDS Producer, SequenceTheorems, TLAPS

(* Typing, with what the phase of a cycle says of its local data. *)
TypeInv ==
  /\ TypeOK
  /\ pc # "idle" => currentState \in Contents
  /\ pc \in {"validating", "stored", "committed"} => newVersion \in Versions

LEMMA TypeInit == Init => TypeInv
BY ContentsAssumption, BoundsAssumption
   DEF Init, TypeInv, TypeOK, Versions, FromVersions, States, Phases

LEMMA TypeStep == TypeInv /\ [Next]_vars => TypeInv'
<1> SUFFICES ASSUME TypeInv, [Next]_vars PROVE TypeInv'
  OBVIOUS
<1> USE ContentsAssumption, BoundsAssumption
    DEF TypeInv, TypeOK, Versions, FromVersions, States, Phases, Hashes,
        versionVars, engineVars, storeVars, Return, PrepareForCycle
<1>1. ASSUME NEW c \in Contents, Populate(c) PROVE TypeInv'
  BY <1>1 DEF Populate
<1>2. CASE DisabledCycle
  BY <1>2 DEF DisabledCycle
<1>3. CASE EmptyCycle
  BY <1>3 DEF EmptyCycle
<1>4. CASE IdenticalCycle
  BY <1>4 DEF IdenticalCycle
<1>5. CASE AllocateVersion
  BY <1>5 DEF AllocateVersion
<1>6. CASE ValidationFails
  BY <1>6 DEF ValidationFails
<1>7. CASE StoreSnapshot
  BY <1>7 DEF StoreSnapshot
<1>8. CASE StoreDelta
  <2>1. [to |-> newVersion, base |-> previousState, target |-> currentState]
          \in DeltaBlob
    BY <1>8 DEF StoreDelta, DeltaBlob
  <2>2. QED BY <1>8, <2>1 DEF StoreDelta
<1>9. CASE StoreFails
  <2>1. /\ lastSnapshotVersion' \in 0..MaxVersion
        /\ failedSnapshots' \subseteq 1..MaxVersion
    BY <1>9 DEF StoreFails
  <2>2. QED BY <1>9, <2>1 DEF StoreFails
<1>10. CASE Commit
  BY <1>10 DEF Commit
<1>11. CASE Announce
  BY <1>11 DEF Announce
<1>12. CASE AnnounceFails
  BY <1>12 DEF AnnounceFails
<1>13. CASE SwitchEnforcer
  BY <1>13 DEF SwitchEnforcer
<1>14. CASE Restart
  BY <1>14 DEF Restart
<1>15. ASSUME NEW v \in Versions, Restore(v) PROVE TypeInv'
  BY <1>15 DEF Restore
<1>16. CASE UNCHANGED vars
  BY <1>16 DEF vars
<1>17. QED
  BY <1>1, <1>2, <1>3, <1>4, <1>5, <1>6, <1>7, <1>8, <1>9, <1>10, <1>11,
     <1>12, <1>13, <1>14, <1>15, <1>16
     DEF Next, Surroundings, CycleStep, UnannouncedStep

LEMMA TypeInvariant == Spec => []TypeInv
BY TypeInit, TypeStep, PTL DEF Spec

(***************************************************************************)
(* Type correctness: every variable keeps its type, whatever happens       *)
(* around the producer, Restore racing a cycle included.                   *)
(***************************************************************************)
THEOREM TypeCorrect == Spec => []TypeOK
<1>1. TypeInv => TypeOK
  BY DEF TypeInv
<1>2. QED BY <1>1, TypeInvariant, PTL

-----------------------------------------------------------------------------
(***************************************************************************)
(* The delta chain.  NoGaps alone is not inductive: what keeps it is that  *)
(* the version being produced is the successor of one that is stored.      *)
(* Restore in the middle of a cycle breaks exactly that, so it is excluded *)
(* here; failed, empty and rejected cycles, crashes and Restore between    *)
(* cycles are not.                                                         *)
(***************************************************************************)
ChainInv ==
  /\ TypeInv
  /\ NoGaps
  /\ VisibleVersionsAreStored
  /\ pc \in {"validating", "stored"} => newVersion = currentVersion + 1
  /\ pc \in {"stored", "committed"} => Stored(newVersion)

LEMMA ChainInit == Init => ChainInv
<1> SUFFICES ASSUME Init PROVE ChainInv
  OBVIOUS
<1>1. TypeInv
  BY TypeInit
<1>2. \A v \in Versions : ~Stored(v)
  BY BoundsAssumption DEF Init, Stored, Versions, FromVersions
<1>3. NoGaps
  BY <1>2 DEF NoGaps, Init
<1>4. VisibleVersionsAreStored
  BY DEF VisibleVersionsAreStored, Init
<1>5. QED
  BY <1>1, <1>3, <1>4 DEF ChainInv, Init

(* Storing a version next to the current one extends the chain. *)
LEMMA StoreExtendsChain ==
  ASSUME ChainInv, pc = "validating",
         \A v \in Versions : Stored(v)' <=> (Stored(v) \/ v = newVersion)
  PROVE  \A v \in Versions : Stored(v)' => \A u \in 1..v : Stored(u)'
<1> SUFFICES ASSUME NEW v \in Versions, Stored(v)', NEW u \in 1..v
             PROVE  Stored(u)'
  OBVIOUS
<1>1. /\ u \in Versions
      /\ currentVersion \in 0..MaxVersion
      /\ newVersion = currentVersion + 1
      /\ currentVersion # 0 => Stored(currentVersion)
  BY BoundsAssumption
     DEF ChainInv, TypeInv, TypeOK, Versions, VisibleVersionsAreStored
<1>2. CASE Stored(v)
  BY <1>1, <1>2 DEF ChainInv, NoGaps, Versions
<1>3. CASE v = newVersion
  <2>1. CASE u = newVersion
    BY <1>1, <2>1
  <2>2. CASE u # newVersion
    <3>1. /\ currentVersion \in Versions
          /\ u \in 1..currentVersion
      BY <1>1, <1>3, <2>2, BoundsAssumption DEF Versions
    <3>2. Stored(u)
      BY <1>1, <3>1 DEF ChainInv, NoGaps, Versions
    <3>3. QED BY <1>1, <3>2
  <2>3. QED BY <2>1, <2>2
<1>4. QED BY <1>2, <1>3

LEMMA ChainStep ==
  ASSUME "restoreRace" \notin Events
  PROVE  ChainInv /\ [Next]_vars => ChainInv'
<1> SUFFICES ASSUME ChainInv, [Next]_vars PROVE ChainInv'
  OBVIOUS
<1>0. TypeInv'
  BY TypeStep DEF ChainInv
<1>t. /\ TypeInv /\ TypeOK
      /\ NoGaps /\ VisibleVersionsAreStored
      /\ pc \in {"validating", "stored"} => newVersion = currentVersion + 1
      /\ pc \in {"stored", "committed"} => Stored(newVersion)
  BY DEF ChainInv, TypeInv
(* Actions that leave the store alone keep every stored version stored. *)
<1>s. ASSUME UNCHANGED storeVars
      PROVE  /\ NoGaps'
             /\ \A v \in Versions : Stored(v)' <=> Stored(v)
  BY <1>t, <1>s DEF storeVars, NoGaps, Stored
<1>p. /\ currentVersion \in 0..MaxVersion
      /\ newVersion \in 0..MaxVersion
      /\ announced \in 0..MaxVersion
      /\ returned \in 0..MaxVersion
      /\ (pc \in {"validating", "stored", "committed"} => newVersion \in Versions)
  BY <1>t DEF TypeOK, TypeInv
<1>1. ASSUME UNCHANGED storeVars,
             pc' \in {"validating", "stored"} => newVersion' = currentVersion' + 1,
             pc' \in {"stored", "committed"} => Stored(newVersion'),
             \A v \in {announced', returned', currentVersion'} \ {0} :
                v \in Versions /\ Stored(v)
      PROVE  ChainInv'
  <2>1. VisibleVersionsAreStored'
    BY <1>1, <1>s DEF VisibleVersionsAreStored
  <2>2. pc' \in {"stored", "committed"} => Stored(newVersion)'
    BY <1>1, <1>s, <1>0 DEF TypeInv, storeVars, Stored
  <2>3. QED BY <1>0, <1>1, <1>s, <2>1, <2>2 DEF ChainInv
<1>v. \A v \in {announced, returned, currentVersion} \ {0} :
        v \in Versions /\ Stored(v)
  BY <1>t, <1>p DEF VisibleVersionsAreStored, Versions
<1> USE DEF versionVars, engineVars, Return, PrepareForCycle
<1>2. ASSUME NEW c \in Contents, Populate(c) PROVE ChainInv'
  BY <1>1, <1>2, <1>v DEF Populate
<1>3. CASE DisabledCycle
  BY <1>1, <1>3, <1>v DEF DisabledCycle
<1>4. CASE EmptyCycle
  BY <1>1, <1>4, <1>v DEF EmptyCycle
<1>5. CASE IdenticalCycle
  BY <1>1, <1>5, <1>v DEF IdenticalCycle
<1>6. CASE AllocateVersion
  BY <1>1, <1>6, <1>v DEF AllocateVersion
<1>7. CASE ValidationFails
  BY <1>1, <1>7, <1>v DEF ValidationFails
<1>8. CASE StoreSnapshot
  <2>1. /\ pc = "validating" /\ pc' = "stored"
        /\ newVersion \in Versions
        /\ \A v \in Versions :
             snapshots'[v] = IF v = newVersion THEN currentState ELSE snapshots[v]
        /\ currentState \in Contents
        /\ UNCHANGED <<currentVersion, newVersion, deltas, announced, returned>>
    BY <1>8, <1>t, <1>p DEF StoreSnapshot, TypeOK, TypeInv
  <2>2. \A v \in Versions : Stored(v)' <=> (Stored(v) \/ v = newVersion)
    BY <2>1, ContentsAssumption DEF Stored
  <2>3. NoGaps'
    BY <2>1, <2>2, <1>t, StoreExtendsChain DEF NoGaps
  <2>4. VisibleVersionsAreStored'
    BY <2>1, <2>2, <1>v DEF VisibleVersionsAreStored
  <2>5. QED BY <1>0, <1>t, <2>1, <2>2, <2>3, <2>4 DEF ChainInv
<1>9. CASE StoreDelta
  <2>1. /\ pc = "validating" /\ pc' = "stored"
        /\ newVersion \in Versions
        /\ newVersion = currentVersion + 1
        /\ currentVersion \in FromVersions
        /\ UNCHANGED <<currentVersion, newVersion, snapshots, announced, returned>>
    BY <1>9, <1>t, <1>p DEF StoreDelta
  <2> DEFINE d == [to |-> newVersion, base |-> previousState, target |-> currentState]
  <2>2. /\ \A f \in FromVersions :
             deltas'[f] = IF f = currentVersion THEN d ELSE deltas[f]
        /\ d \in DeltaBlob
        /\ d.to = newVersion
    BY <1>9, <1>t, <2>1 DEF StoreDelta, TypeOK, TypeInv, DeltaBlob
  <2>3. d # NoBlob
    <3>1. d \in [to : Nat, base : Contents \cup {NoContent}, target : Contents]
      BY <1>9, <1>t, <2>1 DEF StoreDelta, TypeOK, TypeInv, States, Versions
    <3>2. QED BY <3>1, BlobsAssumption
  <2>4. \A v \in Versions : v - 1 \in FromVersions /\ (v - 1 = currentVersion <=> v = newVersion)
    BY <2>1, <1>p, BoundsAssumption DEF Versions, FromVersions
  <2>5. \A v \in Versions : Stored(v)' <=> (Stored(v) \/ v = newVersion)
    BY <2>1, <2>2, <2>3, <2>4 DEF Stored
  <2>6. NoGaps'
    BY <2>1, <2>2, <2>5, <1>t, StoreExtendsChain DEF NoGaps
  <2>7. VisibleVersionsAreStored'
    BY <2>1, <2>5, <1>v DEF VisibleVersionsAreStored
  <2>8. QED BY <1>0, <1>t, <2>1, <2>5, <2>6, <2>7 DEF ChainInv
<1>10. CASE StoreFails
  BY <1>1, <1>10, <1>v DEF StoreFails
<1>11. CASE Commit
  <2>1. \A v \in {announced, returned, newVersion} \ {0} : v \in Versions /\ Stored(v)
    BY <1>11, <1>v, <1>t, <1>p DEF Commit
  <2>2. QED BY <1>1, <1>11, <1>t, <2>1 DEF Commit
<1>12. CASE Announce
  <2>1. newVersion \in Versions /\ Stored(newVersion)
    BY <1>12, <1>t, <1>p DEF Announce
  <2>2. QED BY <1>1, <1>12, <1>v, <2>1 DEF Announce
<1>13. CASE AnnounceFails
  <2>1. newVersion \in Versions /\ Stored(newVersion)
    BY <1>13, <1>t, <1>p DEF AnnounceFails
  <2>2. QED BY <1>1, <1>13, <1>v, <2>1 DEF AnnounceFails
<1>14. CASE SwitchEnforcer
  BY <1>1, <1>14, <1>v, <1>t DEF SwitchEnforcer
<1>15. CASE Restart
  BY <1>1, <1>15, <1>v DEF Restart
<1>16. ASSUME NEW v \in Versions, Restore(v) PROVE ChainInv'
  <2>1. pc = "idle" /\ pc' = "idle"
    BY <1>16, "restoreRace" \notin Events DEF Restore
  <2>2. Stored(v)
    BY <1>16 DEF Restore, Stored
  <2>3. QED BY <1>1, <1>16, <1>v, <2>1, <2>2 DEF Restore
<1>17. CASE UNCHANGED vars
  BY <1>1, <1>17, <1>v, <1>t DEF vars
<1>18. QED
  BY <1>2, <1>3, <1>4, <1>5, <1>6, <1>7, <1>8, <1>9, <1>10, <1>11, <1>12,
     <1>13, <1>14, <1>15, <1>16, <1>17
     DEF Next, Surroundings, CycleStep, UnannouncedStep

LEMMA ChainInvariant ==
  ASSUME "restoreRace" \notin Events
  PROVE  Spec => []ChainInv
BY ChainInit, ChainStep, PTL DEF Spec

(***************************************************************************)
(* A consumer walking back from any stored version finds a blob for every  *)
(* version it passes, whatever cycles fail and whenever the process stops. *)
(***************************************************************************)
THEOREM ChainHasNoGaps ==
  ASSUME "restoreRace" \notin Events
  PROVE  Spec => []NoGaps
<1>1. ChainInv => NoGaps
  BY DEF ChainInv
<1>2. QED BY <1>1, ChainInvariant, PTL

(***************************************************************************)
(* Announced, returned and current versions can be fetched.                *)
(***************************************************************************)
THEOREM VisibleIsStored ==
  ASSUME "restoreRace" \notin Events
  PROVE  Spec => []VisibleVersionsAreStored
<1>1. ChainInv => VisibleVersionsAreStored
  BY DEF ChainInv
<1>2. QED BY <1>1, ChainInvariant, PTL

-----------------------------------------------------------------------------
(***************************************************************************)
(* The spacing of snapshots.  shouldCreateSnapshot measures the distance   *)
(* to lastSnapshotVersion, which is set before Store is called: that       *)
(* version has a snapshot, or failed to get one.  It follows a stored      *)
(* version, so if it lies ahead of the version produced, as after Restore, *)
(* that version is not new: the chain has no gap.                          *)
(***************************************************************************)
Covered(s) == s \in Versions /\ (snapshots[s] # NoBlob \/ s \in failedSnapshots)
LastIsCovered ==
  lastSnapshotVersion # 0 =>
    /\ Covered(lastSnapshotVersion)
    /\ lastSnapshotVersion = 1 \/ Stored(lastSnapshotVersion - 1)

SpacingInv ==
  /\ ChainInv
  /\ SnapshotSpacing
  /\ LastIsCovered

LEMMA SpacingInit == Init => SpacingInv
<1> SUFFICES ASSUME Init PROVE SpacingInv
  OBVIOUS
<1>1. \A v \in Versions : ~Stored(v)
  BY BoundsAssumption DEF Init, Stored, Versions, FromVersions
<1>2. QED
  BY <1>1, ChainInit DEF SpacingInv, SnapshotSpacing, LastIsCovered, Init

(* The version a cycle produces follows a stored one. *)
LEMMA NewVersionFollows ==
  ASSUME ChainInv, pc = "validating"
  PROVE  /\ newVersion \in Versions
         /\ newVersion = 1 \/ Stored(newVersion - 1)
<1>1. /\ newVersion \in Versions
      /\ newVersion = currentVersion + 1
      /\ currentVersion \in 0..MaxVersion
      /\ VisibleVersionsAreStored
  BY DEF ChainInv, TypeInv, TypeOK
<1>2. CASE currentVersion = 0
  BY <1>1, <1>2
<1>3. CASE currentVersion # 0
  <2>1. Stored(currentVersion)
    BY <1>1, <1>3 DEF VisibleVersionsAreStored
  <2>2. newVersion - 1 = currentVersion
    BY <1>1, BoundsAssumption
  <2>3. QED BY <1>1, <2>1, <2>2
<1>4. QED BY <1>2, <1>3

(* A delta is only stored near a snapshot, or over a version that was there. *)
LEMMA DeltaKeepsSpacing ==
  ASSUME SpacingInv, StoreDelta
  PROVE  Stored(newVersion) \/ Covered(newVersion)
           \/ /\ Covered(lastSnapshotVersion)
              /\ lastSnapshotVersion \in 1..newVersion
              /\ newVersion - lastSnapshotVersion < NumStatesBetweenSnapshots
<1>1. /\ lastSnapshotVersion # 0
      /\ ~(newVersion - lastSnapshotVersion >= NumStatesBetweenSnapshots)
      /\ Covered(lastSnapshotVersion)
      /\ lastSnapshotVersion = 1 \/ Stored(lastSnapshotVersion - 1)
  BY DEF StoreDelta, ShouldCreateSnapshot, SpacingInv, LastIsCovered
<1>2. newVersion \in Versions /\ newVersion \in Nat /\ lastSnapshotVersion \in Nat
  BY <1>1, BoundsAssumption DEF StoreDelta, SpacingInv, ChainInv, TypeInv, Versions, Covered
<1>3. CASE lastSnapshotVersion <= newVersion
  BY <1>1, <1>2, <1>3, BoundsAssumption DEF Versions
<1>4. CASE newVersion < lastSnapshotVersion
  <2>1. Stored(lastSnapshotVersion - 1) /\ lastSnapshotVersion - 1 \in Versions
    BY <1>1, <1>2, <1>4, BoundsAssumption DEF Covered, Versions
  <2>2. newVersion \in 1..(lastSnapshotVersion - 1)
    BY <1>2, <1>4 DEF Versions
  <2>3. QED BY <2>1, <2>2 DEF SpacingInv, ChainInv, NoGaps
<1>5. QED BY <1>2, <1>3, <1>4

(* Storing a delta takes nothing out of the store. *)
LEMMA DeltaRemovesNothing ==
  ASSUME TypeInv, StoreDelta
  PROVE  \A v \in Versions : Stored(v) => Stored(v)'
<1> DEFINE d == [to |-> newVersion, base |-> previousState, target |-> currentState]
<1>1. /\ snapshots' = snapshots
      /\ \A f \in FromVersions :
           deltas'[f] = IF f = currentVersion THEN d ELSE deltas[f]
  BY DEF StoreDelta, TypeInv, TypeOK
<1>2. d \in [to : Nat, base : Contents \cup {NoContent}, target : Contents]
  BY DEF StoreDelta, TypeInv, TypeOK, States, Versions
<1>3. d # NoBlob
  BY <1>2, BlobsAssumption
<1>4. \A v \in Versions : v - 1 \in FromVersions
  BY BoundsAssumption DEF Versions, FromVersions
<1>5. QED BY <1>1, <1>3, <1>4 DEF Stored

LEMMA SpacingStep ==
  ASSUME "restoreRace" \notin Events
  PROVE  SpacingInv /\ [Next]_vars => SpacingInv'
<1> SUFFICES ASSUME SpacingInv, [Next]_vars PROVE SpacingInv'
  OBVIOUS
<1>0. ChainInv'
  BY ChainStep DEF SpacingInv
<1>t. /\ ChainInv /\ TypeOK /\ SnapshotSpacing /\ LastIsCovered
      /\ (pc # "idle" => currentState \in Contents)
  BY DEF SpacingInv, ChainInv, TypeInv
<1>1. ASSUME UNCHANGED storeVars, failedSnapshots \subseteq failedSnapshots'
      PROVE  SnapshotSpacing'
  BY <1>1, <1>t DEF SnapshotSpacing, Stored, storeVars
<1>2. ASSUME UNCHANGED <<storeVars, failedSnapshots>>,
             lastSnapshotVersion' \in {0, lastSnapshotVersion}
      PROVE  SpacingInv'
  <2>1. LastIsCovered'
    BY <1>2, <1>t DEF LastIsCovered, Covered, Stored, storeVars
  <2>2. QED BY <1>0, <1>1, <1>2, <2>1 DEF SpacingInv
<1> USE DEF versionVars, engineVars
<1>3. CASE StoreSnapshot
  <2>1. /\ newVersion \in Versions
        /\ newVersion = 1 \/ Stored(newVersion - 1)
        /\ \A v \in Versions :
             snapshots'[v] = IF v = newVersion THEN currentState ELSE snapshots[v]
        /\ currentState # NoBlob
        /\ deltas' = deltas /\ failedSnapshots' = failedSnapshots
        /\ lastSnapshotVersion' = newVersion
    BY <1>3, <1>t, NewVersionFollows, ContentsAssumption DEF StoreSnapshot, TypeOK
  <2>2. \A v \in Versions : snapshots[v] # NoBlob => snapshots'[v] # NoBlob
    BY <2>1
  <2>3. ASSUME NEW v \in Versions, Stored(v)'
        PROVE  \E s \in 1..v : /\ snapshots'[s] # NoBlob \/ s \in failedSnapshots'
                               /\ v - s < NumStatesBetweenSnapshots
    <3>1. CASE v = newVersion
      <4>1. v \in 1..v /\ v - v < NumStatesBetweenSnapshots
        BY BoundsAssumption DEF Versions
      <4>2. QED BY <2>1, <3>1, <4>1
    <3>2. CASE v # newVersion
      <4>1. Stored(v)
        BY <2>1, <2>3, <3>2 DEF Stored
      <4>2. PICK s \in 1..v : /\ snapshots[s] # NoBlob \/ s \in failedSnapshots
                              /\ v - s < NumStatesBetweenSnapshots
        BY <4>1, <1>t DEF SnapshotSpacing
      <4>3. s \in Versions
        BY BoundsAssumption DEF Versions
      <4>4. QED BY <2>1, <2>2, <4>2, <4>3
    <3>3. QED BY <3>1, <3>2
  <2>4. SnapshotSpacing'
    BY <2>3 DEF SnapshotSpacing
  <2>5. newVersion' = newVersion
    BY <1>3 DEF StoreSnapshot
  <2>6. newVersion = 1 \/ Stored(newVersion - 1)'
    <3>1. newVersion # 1 => newVersion - 1 \in Versions
      BY <2>1, BoundsAssumption DEF Versions
    <3>2. QED BY <2>1, <2>2, <2>5, <3>1 DEF Stored
  <2>7. LastIsCovered'
    BY <2>1, <2>5, <2>6 DEF LastIsCovered, Covered
  <2>8. QED BY <1>0, <2>4, <2>7 DEF SpacingInv
<1>4. CASE StoreDelta
  <2>1. /\ newVersion \in Versions
        /\ newVersion = currentVersion + 1
        /\ currentVersion \in FromVersions
        /\ snapshots' = snapshots /\ failedSnapshots' = failedSnapshots
        /\ lastSnapshotVersion' = lastSnapshotVersion
        /\ \A f \in FromVersions : f # currentVersion => deltas'[f] = deltas[f]
    BY <1>4, <1>t, NewVersionFollows DEF StoreDelta, TypeOK, ChainInv
  <2>2. ASSUME NEW v \in Versions, Stored(v)'
        PROVE  \E s \in 1..v : /\ snapshots'[s] # NoBlob \/ s \in failedSnapshots'
                               /\ v - s < NumStatesBetweenSnapshots
    <3>1. CASE Stored(v)
      BY <2>1, <3>1, <1>t DEF SnapshotSpacing
    <3>2. CASE ~Stored(v)
      <4>1. v - 1 \in FromVersions /\ (v - 1 = currentVersion => v = newVersion)
        BY <2>1, BoundsAssumption DEF Versions, FromVersions
      <4>2. v = newVersion
        BY <2>1, <2>2, <3>2, <4>1 DEF Stored
      <4>3. CASE Covered(newVersion)
        <5>1. v \in 1..v /\ v - v < NumStatesBetweenSnapshots
          BY BoundsAssumption DEF Versions
        <5>2. QED BY <2>1, <4>2, <4>3, <5>1 DEF Covered
      <4>4. CASE ~Covered(newVersion)
        <5>1. /\ Covered(lastSnapshotVersion)
              /\ lastSnapshotVersion \in 1..v
              /\ v - lastSnapshotVersion < NumStatesBetweenSnapshots
          BY <1>4, <3>2, <4>2, <4>4, DeltaKeepsSpacing
        <5>2. QED BY <2>1, <5>1 DEF Covered
      <4>5. QED BY <4>3, <4>4
    <3>3. QED BY <3>1, <3>2
  <2>3. SnapshotSpacing'
    BY <2>2 DEF SnapshotSpacing
  <2>4. LastIsCovered'
    <3>1. CASE lastSnapshotVersion = 0 \/ lastSnapshotVersion = 1
      BY <2>1, <3>1, <1>t DEF LastIsCovered, Covered
    <3>2. CASE lastSnapshotVersion # 0 /\ lastSnapshotVersion # 1
      <4>1. Stored(lastSnapshotVersion - 1) /\ lastSnapshotVersion - 1 \in Versions
        BY <3>2, <1>t, BoundsAssumption DEF LastIsCovered, Covered, Versions
      <4>2. \A v \in Versions : Stored(v) => Stored(v)'
        BY <1>4, <1>t, DeltaRemovesNothing DEF ChainInv
      <4>3. Stored(lastSnapshotVersion - 1)'
        BY <2>1, <4>1, <4>2 DEF Stored
      <4>4. QED BY <2>1, <3>2, <4>3, <1>t DEF LastIsCovered, Covered
    <3>3. QED BY <3>1, <3>2
  <2>5. QED BY <1>0, <2>3, <2>4 DEF SpacingInv
<1>5. CASE StoreFails
  <2>1. /\ newVersion \in Versions
        /\ newVersion = 1 \/ Stored(newVersion - 1)
        /\ UNCHANGED storeVars /\ newVersion' = newVersion
        /\ \/ /\ lastSnapshotVersion' = newVersion
              /\ failedSnapshots' = failedSnapshots \cup {newVersion}
           \/ UNCHANGED <<lastSnapshotVersion, failedSnapshots>>
    BY <1>5, <1>t, NewVersionFollows DEF StoreFails
  <2>2. LastIsCovered'
    BY <2>1, <1>t DEF LastIsCovered, Covered, Stored, storeVars
  <2>3. QED BY <1>0, <1>1, <2>1, <2>2 DEF SpacingInv
<1>6. CASE Restart
  BY <1>2, <1>6 DEF Restart
<1>7. CASE \/ \E c \in Contents : Populate(c)
           \/ DisabledCycle \/ EmptyCycle \/ SwitchEnforcer
           \/ \E v \in Versions : Restore(v)
  BY <1>2, <1>7 DEF Populate, DisabledCycle, EmptyCycle, SwitchEnforcer, Restore
<1>8. CASE \/ IdenticalCycle \/ AllocateVersion \/ ValidationFails
           \/ Commit \/ Announce \/ AnnounceFails
  BY <1>2, <1>8
     DEF IdenticalCycle, AllocateVersion, ValidationFails, Commit, Announce, AnnounceFails
<1>9. CASE UNCHANGED vars
  BY <1>2, <1>9 DEF vars
<1>10. QED
  BY <1>3, <1>4, <1>5, <1>6, <1>7, <1>8, <1>9
     DEF Next, Surroundings, CycleStep, UnannouncedStep

LEMMA SpacingInvariant ==
  ASSUME "restoreRace" \notin Events
  PROVE  Spec => []SpacingInv
BY SpacingInit, SpacingStep, PTL DEF Spec

(***************************************************************************)
(* A consumer that starts from nothing finds a snapshot, or one that the   *)
(* store failed to take, less than numStatesBetweenSnapshots versions      *)
(* back, across rejected, empty and failed cycles, crashes and restores.   *)
(***************************************************************************)
THEOREM SnapshotsAreSpaced ==
  ASSUME "restoreRace" \notin Events
  PROVE  Spec => []SnapshotSpacing
<1>1. SpacingInv => SnapshotSpacing
  BY DEF SpacingInv
<1>2. QED BY <1>1, SpacingInvariant, PTL

(* If no store fails, no snapshot is missing. *)
NoneFailed == failedSnapshots = {}

LEMMA NoFailedSnapshots ==
  ASSUME "storeFail" \notin Events
  PROVE  Spec => []NoneFailed
<1>1. Init => NoneFailed
  BY DEF Init, NoneFailed
<1>2. NoneFailed /\ [Next]_vars => NoneFailed'
  BY "storeFail" \notin Events
     DEF NoneFailed, Next, Surroundings, CycleStep, UnannouncedStep, vars, versionVars,
         Populate, DisabledCycle, EmptyCycle, SwitchEnforcer, Restart, Restore,
         IdenticalCycle, AllocateVersion, ValidationFails, StoreSnapshot, StoreDelta,
         StoreFails, Commit, Announce, AnnounceFails
<1>3. QED BY <1>1, <1>2, PTL DEF Spec

(***************************************************************************)
(* "First version is always a snapshot".                                   *)
(***************************************************************************)
THEOREM FirstIsSnapshot ==
  ASSUME "restoreRace" \notin Events, "storeFail" \notin Events
  PROVE  Spec => []FirstVersionIsSnapshot
<1>1. SpacingInv /\ NoneFailed => FirstVersionIsSnapshot
  <2> SUFFICES ASSUME SpacingInv, NoneFailed, Stored(1)
               PROVE  snapshots[1] # NoBlob
    BY DEF FirstVersionIsSnapshot
  <2>1. 1 \in Versions
    BY BoundsAssumption DEF Versions
  <2>2. PICK s \in 1..1 : snapshots[s] # NoBlob
    BY <2>1 DEF SpacingInv, SnapshotSpacing, NoneFailed
  <2>3. s = 1
    OBVIOUS
  <2>4. QED BY <2>2, <2>3
<1>2. QED BY <1>1, SpacingInvariant, NoFailedSnapshots, PTL

-----------------------------------------------------------------------------
(***************************************************************************)
(* What a producer guarantees that is neither restarted nor restored, also *)
(* if its cycles fail: no change is lost, published versions never change, *)
(* and the producer implements VersionLog.                                 *)
(***************************************************************************)

(* Cycles may be empty, rejected or fail, announcements may fail and the   *)
(* enforcer may be switched; data that differs has another hash.           *)
LastingEnvironment ==
  /\ Events \subseteq {"disable", "empty", "reject", "storeFail", "announceFail"}
  /\ \A c, d \in Contents : Hash[c] = Hash[d] => c = d

(* What a cycle stores is what it populated, and is new.                   *)
CycleInv ==
  /\ pc \in {"stored", "committed"} => currentState = ContentOf(LogLength)
  /\ pc = "validating" =>
       currentVersion = 0 \/ currentState # ContentOf(currentVersion)

(* Nothing is stored past the log, and the hash is that of its end. *)
EndInv ==
  /\ \A v \in Versions : Stored(v) => v <= LogLength
  /\ currentVersion # 0 => lastDataHash = Hash[ContentOf(currentVersion)]
  /\ announced <= currentVersion
  /\ pc = "committed" => newVersion = currentVersion /\ announced < newVersion

PublishedInv ==
  /\ ChainInv
  /\ CycleInv
  /\ EndInv

LEMMA PublishedInit == Init => PublishedInv
<1> SUFFICES ASSUME Init PROVE PublishedInv
  OBVIOUS
<1>1. \A v \in Versions : ~Stored(v)
  BY BoundsAssumption DEF Init, Stored, Versions, FromVersions
<1>2. CycleInv
  BY DEF Init, CycleInv
<1>3. EndInv
  BY <1>1 DEF Init, EndInv
<1>4. QED BY <1>2, <1>3, ChainInit DEF PublishedInv

(* What the inductive step uses of the invariant, at the place of a cycle. *)
LEMMA LogFacts ==
  ASSUME PublishedInv
  PROVE  /\ TypeInv /\ NoGaps /\ VisibleVersionsAreStored
         /\ currentVersion \in 0..MaxVersion
         /\ LogLength \in 0..MaxVersion
         /\ (LogLength # 0 => LogLength \in Versions /\ Stored(LogLength))
         /\ (currentVersion # 0 => currentVersion \in Versions /\ Stored(currentVersion))
         /\ \A v \in Versions : Stored(v) <=> v <= LogLength
         /\ (pc = "stored" => newVersion = currentVersion + 1 /\ LogLength = newVersion)
         /\ (pc # "stored" => LogLength = currentVersion)
<1>1. /\ TypeInv /\ TypeOK /\ NoGaps /\ VisibleVersionsAreStored
      /\ (pc \in {"validating", "stored"} => newVersion = currentVersion + 1)
      /\ (pc \in {"stored", "committed"} => Stored(newVersion))
      /\ (pc \in {"stored", "committed"} => newVersion \in Versions)
      /\ currentVersion \in 0..MaxVersion
      /\ newVersion \in 0..MaxVersion
  BY DEF PublishedInv, ChainInv, TypeInv, TypeOK
<1>2. currentVersion # 0 => currentVersion \in Versions /\ Stored(currentVersion)
  BY <1>1 DEF VisibleVersionsAreStored, Versions
<1>3. LogLength # 0 => LogLength \in Versions /\ Stored(LogLength)
  BY <1>1, <1>2 DEF LogLength
<1>4. LogLength \in 0..MaxVersion
  BY <1>1 DEF LogLength
<1>5. ASSUME NEW v \in Versions, v <= LogLength PROVE Stored(v)
  <2>1. v \in 1..LogLength /\ LogLength # 0
    BY <1>4, <1>5 DEF Versions
  <2>2. QED BY <2>1, <1>1, <1>3 DEF NoGaps
<1>6. \A v \in Versions : Stored(v) => v <= LogLength
  BY DEF PublishedInv, EndInv
<1>7. QED BY <1>1, <1>2, <1>3, <1>4, <1>5, <1>6 DEF LogLength

(* A store adds newVersion, and nothing below it changes. *)
LEMMA StoreAppends ==
  ASSUME PublishedInv, StoreSnapshot \/ StoreDelta
  PROVE  /\ newVersion = currentVersion + 1 /\ newVersion \in Versions
         /\ LogLength = currentVersion /\ LogLength' = newVersion
         /\ currentState \in Contents /\ currentState' = currentState
         /\ \A v \in Versions : Stored(v)' <=> v <= newVersion
         /\ \A v \in 0..currentVersion : ContentOf(v)' = ContentOf(v)
         /\ ContentOf(newVersion)' = currentState
<1>1. /\ pc = "validating" /\ pc' = "stored"
      /\ newVersion = currentVersion + 1 /\ newVersion \in Versions
      /\ LogLength = currentVersion
      /\ newVersion' = newVersion /\ currentVersion' = currentVersion
      /\ currentState \in Contents /\ currentState' = currentState
      /\ snapshots \in [Versions -> Contents \cup {NoBlob}]
      /\ deltas \in [FromVersions -> DeltaBlob \cup {NoBlob}]
      /\ currentVersion \in 0..MaxVersion
      /\ currentState # NoBlob
  BY LogFacts, ContentsAssumption
     DEF PublishedInv, ChainInv, TypeInv, TypeOK, StoreSnapshot, StoreDelta, versionVars,
         engineVars, LogLength
<1>2. LogLength' = newVersion
  BY <1>1 DEF LogLength
<1>3. /\ \A v \in Versions : Stored(v) <=> v <= currentVersion
      /\ ~Stored(newVersion)
  BY <1>1, LogFacts DEF Versions
<1>4. \A v \in Versions :
        /\ v \in Nat
        /\ v - 1 \in FromVersions
        /\ (v - 1 = currentVersion <=> v = newVersion)
        /\ (v <= newVersion <=> (v <= currentVersion \/ v = newVersion))
  BY <1>1, BoundsAssumption DEF Versions, FromVersions
<1>b. \A v \in 0..currentVersion : v = 0 \/ (v \in Versions /\ v # newVersion)
  BY <1>1, BoundsAssumption DEF Versions
<1>5. CASE StoreSnapshot
  <2>1. /\ \A v \in Versions :
             snapshots'[v] = IF v = newVersion THEN currentState ELSE snapshots[v]
        /\ deltas' = deltas
    BY <1>1, <1>5 DEF StoreSnapshot
  <2>2. \A v \in Versions : Stored(v)' <=> v <= newVersion
    BY <1>1, <1>3, <1>4, <2>1 DEF Stored
  <2>3. ContentOf(newVersion)' = currentState
    BY <1>1, <2>1 DEF ContentOf, Versions
  <2>4. \A v \in 0..currentVersion : ContentOf(v)' = ContentOf(v)
    BY <1>b, <2>1 DEF ContentOf
  <2>5. QED BY <1>1, <1>2, <2>2, <2>3, <2>4
<1>6. CASE StoreDelta
  <2> DEFINE d == [to |-> newVersion, base |-> previousState, target |-> currentState]
  <2>1. /\ \A f \in FromVersions :
             deltas'[f] = IF f = currentVersion THEN d ELSE deltas[f]
        /\ snapshots' = snapshots
    BY <1>1, <1>6 DEF StoreDelta
  <2>2. d # NoBlob
    <3>1. d \in [to : Nat, base : Contents \cup {NoContent}, target : Contents]
      BY <1>1, <1>4, LogFacts DEF TypeInv, TypeOK, States
    <3>2. QED BY <3>1, BlobsAssumption
  <2>3. \A v \in Versions : Stored(v)' <=> v <= newVersion
    BY <1>3, <1>4, <2>1, <2>2 DEF Stored
  <2>4. ContentOf(newVersion)' = currentState
    <3>1. snapshots'[newVersion] = NoBlob /\ newVersion' # 0
      BY <1>1, <1>3, <2>1 DEF Stored, Versions
    <3>2. deltas'[newVersion - 1].target = currentState
      BY <1>1, <1>4, <2>1
    <3>3. QED BY <1>1, <3>1, <3>2 DEF ContentOf
  <2>5. \A v \in 0..currentVersion : ContentOf(v)' = ContentOf(v)
    BY <1>b, <1>4, <2>1 DEF ContentOf
  <2>6. QED BY <1>1, <1>2, <2>3, <2>4, <2>5
<1>7. QED BY <1>5, <1>6

(* Every other step leaves what is published as it is. *)
LEMMA StoreUnchanged ==
  ASSUME UNCHANGED storeVars
  PROVE  /\ \A v : Stored(v)' <=> Stored(v)
         /\ \A v : ContentOf(v)' = ContentOf(v)
         /\ DeltaBaseSound => DeltaBaseSound'
<1>1. \A v : (Stored(v)' <=> Stored(v)) /\ ContentOf(v)' = ContentOf(v)
  BY DEF storeVars, Stored, ContentOf
<1>2. deltas' = deltas
  BY DEF storeVars
<1>3. QED BY <1>1, <1>2 DEF DeltaBaseSound

LEMMA PublishedIsContent ==
  ASSUME PublishedInv, NEW v \in Versions, Stored(v)
  PROVE  ContentOf(v) \in Contents
<1>1. /\ v # 0 /\ v - 1 \in FromVersions
      /\ snapshots[v] \in Contents \cup {NoBlob}
      /\ deltas[v - 1] \in DeltaBlob \cup {NoBlob}
  BY LogFacts, BoundsAssumption DEF TypeInv, TypeOK, Versions, FromVersions
<1>2. CASE snapshots[v] # NoBlob
  BY <1>1, <1>2 DEF ContentOf
<1>3. CASE snapshots[v] = NoBlob
  BY <1>1, <1>3 DEF ContentOf, Stored, DeltaBlob
<1>4. QED BY <1>2, <1>3

(* An identical cycle populated what is published already. *)
LEMMA IdenticalIsPublished ==
  ASSUME PublishedInv, LastingEnvironment, pc = "populated"
  PROVE  Identical <=> (currentVersion # 0 /\ currentState = ContentOf(currentVersion))
<1>1. /\ currentVersion \in 0..MaxVersion
      /\ currentState \in Contents
      /\ (currentVersion # 0 => lastDataHash = Hash[ContentOf(currentVersion)])
  BY LogFacts DEF PublishedInv, EndInv, TypeInv
<1>2. currentVersion # 0 => ContentOf(currentVersion) \in Contents
  BY LogFacts, PublishedIsContent
<1>3. QED
  BY <1>1, <1>2, ContentsAssumption DEF Identical, LastingEnvironment

LEMMA StoreKeepsPublishedInv ==
  ASSUME PublishedInv, ChainInv', StoreSnapshot \/ StoreDelta
  PROVE  PublishedInv'
<1>1. /\ LogLength' = newVersion
      /\ currentState' = currentState
      /\ \A v \in Versions : Stored(v)' <=> v <= newVersion
      /\ \A v \in 0..currentVersion : ContentOf(v)' = ContentOf(v)
      /\ ContentOf(newVersion)' = currentState
      /\ currentVersion \in 0..MaxVersion
  BY StoreAppends, LogFacts
<1>2. /\ pc' = "stored"
      /\ UNCHANGED <<currentVersion, lastDataHash, newVersion, announced>>
  BY DEF StoreSnapshot, StoreDelta, versionVars
<1>3. CycleInv'
  <2>1. ContentOf(LogLength)' = currentState'
    BY <1>1, <1>2 DEF ContentOf
  <2>2. QED BY <1>2, <2>1 DEF CycleInv
<1>4. EndInv'
  <2>1. \A v \in Versions : Stored(v)' => v <= LogLength'
    BY <1>1
  <2>2. ContentOf(currentVersion)' = ContentOf(currentVersion)
    BY <1>1, <1>2 DEF ContentOf
  <2>3. QED BY <1>1, <1>2, <2>1, <2>2 DEF PublishedInv, EndInv
<1>5. QED BY <1>3, <1>4 DEF PublishedInv

LEMMA PublishedStep ==
  ASSUME LastingEnvironment
  PROVE  PublishedInv /\ [Next]_vars => PublishedInv'
<1> SUFFICES ASSUME PublishedInv, [Next]_vars PROVE PublishedInv'
  OBVIOUS
<1>e. "restoreRace" \notin Events /\ "restore" \notin Events /\ "crash" \notin Events
  BY DEF LastingEnvironment
<1>0. ChainInv'
  BY <1>e, ChainStep DEF PublishedInv
<1>t. /\ CycleInv /\ EndInv
      /\ currentVersion \in 0..MaxVersion
      /\ announced \in 0..MaxVersion
      /\ (pc = "stored" => newVersion = currentVersion + 1)
  BY LogFacts DEF PublishedInv, TypeInv, TypeOK
<1>s. ASSUME UNCHANGED storeVars
      PROVE  /\ \A v : Stored(v)' <=> Stored(v)
             /\ \A v : ContentOf(v)' = ContentOf(v)
  BY <1>s, StoreUnchanged
(* A step within the producer, given what its phase asks for. *)
<1>1. ASSUME UNCHANGED storeVars, LogLength' = LogLength,
             pc' \in {"stored", "committed"} => currentState' = ContentOf(LogLength),
             pc' = "validating" =>
               currentVersion' = 0 \/ currentState' # ContentOf(currentVersion'),
             currentVersion' # 0 => lastDataHash' = Hash[ContentOf(currentVersion')],
             announced' <= currentVersion',
             pc' = "committed" => newVersion' = currentVersion' /\ announced' < newVersion'
      PROVE  PublishedInv'
  <2>1. /\ ContentOf(LogLength)' = ContentOf(LogLength)
        /\ ContentOf(currentVersion)' = ContentOf(currentVersion')
    BY <1>1 DEF ContentOf, storeVars
  <2>2. CycleInv'
    BY <1>1, <2>1 DEF CycleInv
  <2>3. EndInv'
    BY <1>1, <1>s, <1>t, <2>1 DEF EndInv
  <2>4. QED BY <1>0, <2>2, <2>3 DEF PublishedInv
<1> USE DEF versionVars, engineVars, Return, PrepareForCycle
<1>2. ASSUME NEW c \in Contents, Populate(c) PROVE PublishedInv'
  BY <1>1, <1>2, <1>t DEF Populate, EndInv, LogLength
<1>3. CASE DisabledCycle \/ EmptyCycle
  BY <1>1, <1>3, <1>t DEF DisabledCycle, EmptyCycle, EndInv, LogLength
<1>4. CASE IdenticalCycle
  BY <1>1, <1>4, <1>t DEF IdenticalCycle, EndInv, LogLength
<1>5. CASE AllocateVersion
  <2>1. currentVersion = 0 \/ currentState # ContentOf(currentVersion)
    BY <1>5, IdenticalIsPublished DEF AllocateVersion
  <2>2. QED BY <1>1, <1>5, <1>t, <2>1 DEF AllocateVersion, EndInv, LogLength
<1>6. CASE StoreSnapshot \/ StoreDelta
  BY <1>0, <1>6, StoreKeepsPublishedInv
<1>7. CASE Commit
  <2>1. currentState = ContentOf(newVersion)
    BY <1>7, <1>t DEF Commit, CycleInv, LogLength
  <2>2. announced < newVersion
    BY <1>7, <1>t DEF Commit, EndInv
  <2>3. QED BY <1>1, <1>7, <1>t, <2>1, <2>2 DEF Commit, EndInv, LogLength
<1>8. CASE Announce
  BY <1>1, <1>8, <1>t DEF Announce, EndInv, LogLength
<1>9. CASE AnnounceFails
  BY <1>1, <1>9, <1>t DEF AnnounceFails, EndInv, LogLength
<1>10. CASE ValidationFails \/ StoreFails
  BY <1>1, <1>10, <1>t DEF ValidationFails, StoreFails, EndInv, LogLength
<1>11. CASE SwitchEnforcer \/ UNCHANGED vars
  BY <1>1, <1>11, <1>t DEF SwitchEnforcer, vars, CycleInv, EndInv, LogLength
<1>12. CASE Restart \/ \E v \in Versions : Restore(v)
  BY <1>12, <1>e DEF Restart, Restore
<1>13. QED
  BY <1>2, <1>3, <1>4, <1>5, <1>6, <1>7, <1>8, <1>9, <1>10, <1>11, <1>12
     DEF Next, Surroundings, CycleStep, UnannouncedStep

LEMMA PublishedInvariant ==
  ASSUME LastingEnvironment
  PROVE  Spec => []PublishedInv
BY PublishedInit, PublishedStep, PTL DEF Spec

(***************************************************************************)
(* A cycle reported as identical populated what its version stands for.    *)
(***************************************************************************)
THEOREM NoChangeIsLost ==
  ASSUME LastingEnvironment
  PROVE  Spec => NoLostChange
<1>1. PublishedInv /\ [Next]_vars => [IdenticalCycle => currentState = ContentOf(currentVersion)]_vars
  BY IdenticalIsPublished DEF IdenticalCycle
<1>2. QED BY <1>1, PublishedInvariant, PTL DEF Spec, NoLostChange

-----------------------------------------------------------------------------
(* Whatever cycles fail, only the two store steps touch the store, and    *)
(* only they and Announce move what VersionLog speaks of.                  *)
LEMMA LastingStep ==
  ASSUME LastingEnvironment, PublishedInv, [Next]_vars
  PROVE  \/ StoreSnapshot \/ StoreDelta
         \/ Announce
         \/ UNCHANGED <<storeVars, announced>> /\ LogLength' = LogLength
<1>e. "restoreRace" \notin Events /\ "restore" \notin Events /\ "crash" \notin Events
  BY DEF LastingEnvironment
<1> USE DEF versionVars, LogLength, Return
<1>1. CASE \/ \E c \in Contents : Populate(c)
           \/ DisabledCycle \/ SwitchEnforcer \/ IdenticalCycle \/ AllocateVersion
           \/ EmptyCycle \/ ValidationFails \/ StoreFails
           \/ Commit \/ AnnounceFails
  BY <1>1 DEF Populate, DisabledCycle, SwitchEnforcer, IdenticalCycle, AllocateVersion,
              EmptyCycle, ValidationFails, StoreFails, Commit, AnnounceFails
<1>2. CASE Restart \/ \E v \in Versions : Restore(v)
  BY <1>2, <1>e DEF Restart, Restore
<1>3. CASE UNCHANGED vars
  BY <1>3 DEF vars
<1>4. QED
  BY <1>1, <1>2, <1>3 DEF Next, Surroundings, CycleStep, UnannouncedStep

LEMMA PublishedStays ==
  ASSUME LastingEnvironment, PublishedInv, [Next]_vars, NEW v \in Versions, Stored(v)
  PROVE  Stored(v)' /\ ContentOf(v)' = ContentOf(v)
<1>1. CASE StoreSnapshot \/ StoreDelta
  <2>1. v <= currentVersion /\ v \in 0..currentVersion /\ v <= newVersion
    BY <1>1, LogFacts, StoreAppends, BoundsAssumption DEF Versions
  <2>2. QED BY <1>1, <2>1, StoreAppends
<1>2. CASE UNCHANGED storeVars
  BY <1>2, StoreUnchanged
<1>3. QED BY <1>1, <1>2, LastingStep DEF Announce

(***************************************************************************)
(* What a stored version stands for never changes.                         *)
(***************************************************************************)
THEOREM PublishedNeverChanges ==
  ASSUME LastingEnvironment
  PROVE  Spec => PublishedIsImmutable
<1>1. PublishedInv /\ [Next]_vars =>
        \A v \in Versions : Stored(v) => Stored(v)' /\ ContentOf(v)' = ContentOf(v)
  BY PublishedStays
<1>2. QED BY <1>1, PublishedInvariant, PTL DEF Spec, PublishedIsImmutable

-----------------------------------------------------------------------------
(* The log a producer stands for. *)
TheLog == [v \in 1..LogLength |-> ContentOf(v)]

LogShape ==
  /\ TheLog \in Seq(Contents) /\ Len(TheLog) = LogLength
  /\ \A v \in 1..LogLength : TheLog[v] = ContentOf(v)

LEMMA TheLogIsSequence == PublishedInv => LogShape
<1> SUFFICES ASSUME PublishedInv PROVE LogShape
  OBVIOUS
<1>1. LogLength \in Nat
  BY LogFacts
<1>2. \A v \in 1..LogLength : ContentOf(v) \in Contents
  <2> SUFFICES ASSUME NEW v \in 1..LogLength PROVE ContentOf(v) \in Contents
    OBVIOUS
  <2>1. v \in Versions /\ Stored(v)
    BY LogFacts, BoundsAssumption DEF Versions
  <2>2. QED BY <2>1, PublishedIsContent
<1>3. TheLog \in [1..LogLength -> Contents]
  BY <1>2 DEF TheLog
<1>4. QED BY <1>1, <1>3 DEF TheLog, LogShape

(* Storing a version publishes what the cycle populated. *)
LEMMA StorePublishes ==
  ASSUME PublishedInv, PublishedInv', StoreSnapshot \/ StoreDelta
  PROVE  /\ currentState \in Contents
         /\ TheLog = <<>> \/ TheLog[Len(TheLog)] # currentState
         /\ TheLog' = Append(TheLog, currentState)
         /\ announced' = announced
<1>1. /\ newVersion = currentVersion + 1 /\ currentVersion \in Nat
      /\ LogLength = currentVersion /\ LogLength' = newVersion
      /\ currentState \in Contents
      /\ \A v \in 0..currentVersion : ContentOf(v)' = ContentOf(v)
      /\ ContentOf(newVersion)' = currentState
      /\ newVersion' = newVersion
      /\ announced' = announced
      /\ currentVersion = 0 \/ currentState # ContentOf(currentVersion)
  BY StoreAppends, LogFacts DEF StoreSnapshot, StoreDelta, PublishedInv, CycleInv
<1>2. /\ TheLog \in Seq(Contents) /\ Len(TheLog) = currentVersion
      /\ \A v \in 1..currentVersion : TheLog[v] = ContentOf(v)
  BY <1>1, TheLogIsSequence DEF LogShape
<1>3. TheLog = <<>> \/ TheLog[Len(TheLog)] # currentState
  <2>1. CASE currentVersion = 0
    BY <1>2, <2>1, EmptySeq
  <2>2. CASE currentVersion # 0
    BY <1>1, <1>2, <2>2
  <2>3. QED BY <2>1, <2>2
<1>4. TheLog' = Append(TheLog, currentState)
  <2>1. /\ TheLog' \in Seq(Contents) /\ Len(TheLog') = newVersion
        /\ \A v \in 1..newVersion : TheLog'[v] = ContentOf(v)'
    <3>1. LogShape'
      BY TheLogIsSequence, PTL
    <3>2. QED BY <1>1, <3>1 DEF LogShape
  <2>2. \A v \in 1..newVersion :
          ContentOf(v)' = IF v = newVersion THEN currentState ELSE TheLog[v]
    <3> SUFFICES ASSUME NEW v \in 1..newVersion
                 PROVE  ContentOf(v)' = IF v = newVersion THEN currentState ELSE TheLog[v]
      OBVIOUS
    <3>1. CASE v = newVersion
      BY <1>1, <3>1 DEF ContentOf
    <3>2. CASE v # newVersion
      BY <1>1, <1>2, <3>2
    <3>3. QED BY <3>1, <3>2
  <2>3. /\ Append(TheLog, currentState) \in Seq(Contents)
        /\ Len(Append(TheLog, currentState)) = newVersion
        /\ \A v \in 1..newVersion : Append(TheLog, currentState)[v] =
               IF v = newVersion THEN currentState ELSE TheLog[v]
    BY <1>1, <1>2, AppendProperties
  <2>4. QED BY <2>1, <2>2, <2>3, SeqEqual
<1>5. QED BY <1>1, <1>3, <1>4

(* What a step does to the log and to what is announced of it. *)
LEMMA LogMoves ==
  ASSUME LastingEnvironment, PublishedInv, PublishedInv', [Next]_vars
  PROVE  \/ \E c \in Contents : /\ TheLog = <<>> \/ TheLog[Len(TheLog)] # c
                                /\ TheLog' = Append(TheLog, c)
                                /\ announced' = announced
         \/ /\ announced < Len(TheLog)
            /\ announced' = Len(TheLog)
            /\ TheLog' = TheLog
         \/ TheLog' = TheLog /\ announced' = announced
<1>1. CASE StoreSnapshot \/ StoreDelta
  BY <1>1, StorePublishes
<1>2. CASE Announce
  <2>1. /\ LogLength' = LogLength /\ LogLength = newVersion /\ announced < newVersion
        /\ UNCHANGED storeVars /\ announced' = newVersion
    BY <1>2 DEF Announce, LogLength, PublishedInv, EndInv, Return, versionVars
  <2>2. TheLog' = TheLog
    BY <2>1, StoreUnchanged DEF TheLog
  <2>3. QED BY <2>1, <2>2, TheLogIsSequence DEF LogShape
<1>3. CASE UNCHANGED <<storeVars, announced>> /\ LogLength' = LogLength
  BY <1>3, StoreUnchanged DEF TheLog
<1>4. QED BY <1>1, <1>2, <1>3, LastingStep

LEMMA LogStarts == Init => TheLog = <<>> /\ announced = 0
<1> SUFFICES ASSUME Init PROVE TheLog = <<>> /\ announced = 0
  OBVIOUS
<1>1. LogLength = 0
  BY DEF Init, LogLength
<1>2. TheLog \in Seq(Contents) /\ Len(TheLog) = 0
  BY <1>1, PublishedInit, TheLogIsSequence DEF LogShape
<1>3. QED BY <1>2, EmptySeq DEF Init

(***************************************************************************)
(* The producer implements VersionLog: what its store offers is a log that *)
(* only grows, no two neighbours of which are equal, and what it announces *)
(* is the end of that log.                                                 *)
(***************************************************************************)
THEOREM ProducerImplementsVersionLog ==
  ASSUME LastingEnvironment
  PROVE  Spec => ImplementsVersionLog
<1>1. Init => Log!Init
  BY LogStarts DEF TheLog, Log!Init
<1>2. PublishedInv /\ PublishedInv' /\ [Next]_vars => [Log!Next]_(Log!vars)
  BY LogMoves DEF TheLog, Log!vars, Log!Next, Log!Publish, Log!Announce
<1>3. QED BY <1>1, <1>2, PublishedInvariant, PTL DEF Spec, ImplementsVersionLog, Log!Spec

-----------------------------------------------------------------------------
(***************************************************************************)
(* The base of a delta, for a producer that stays enabled.  PrepareForCycle*)
(* takes the state of the last cycle for the published one.  It is, if the *)
(* last cycle returned the current version: then that cycle published or   *)
(* found identical what it populated.                                      *)
(***************************************************************************)
EnabledEnvironment == LastingEnvironment /\ "disable" \notin Events

ReturnInv ==
  /\ PublishedInv
  /\ enabled
  /\ currentVersion # 0 /\ returned = currentVersion =>
       /\ pc = "idle" => currentState = ContentOf(currentVersion)
       /\ pc \in {"populated", "validating"} => previousState = ContentOf(currentVersion)

LEMMA ReturnInit == Init => ReturnInv
BY PublishedInit DEF Init, ReturnInv

LEMMA ReturnStep ==
  ASSUME EnabledEnvironment
  PROVE  ReturnInv /\ [Next]_vars => ReturnInv'
<1> SUFFICES ASSUME ReturnInv, [Next]_vars PROVE ReturnInv'
  OBVIOUS
<1>e. /\ LastingEnvironment /\ "disable" \notin Events
      /\ "restoreRace" \notin Events /\ "restore" \notin Events /\ "crash" \notin Events
  BY DEF EnabledEnvironment, LastingEnvironment
<1>0. PublishedInv /\ PublishedInv'
  BY <1>e, PublishedStep DEF ReturnInv
<1>1. UNCHANGED storeVars => \A v : ContentOf(v)' = ContentOf(v)
  BY StoreUnchanged
<1>2. ContentOf(currentVersion)' = ContentOf(currentVersion') \/ ~UNCHANGED storeVars
  BY DEF ContentOf, storeVars
<1> USE DEF versionVars, engineVars, Return, PrepareForCycle, ReturnInv
<1>3. CASE \E c \in Contents : Populate(c)
  BY <1>0, <1>2, <1>3 DEF Populate
<1>4. CASE DisabledCycle
  BY <1>4 DEF DisabledCycle
<1>5. CASE EmptyCycle \/ ValidationFails \/ StoreFails
  BY <1>0, <1>5 DEF EmptyCycle, ValidationFails, StoreFails
<1>6. CASE IdenticalCycle
  <2>1. currentState = ContentOf(currentVersion)
    BY <1>0, <1>6, <1>e, IdenticalIsPublished DEF IdenticalCycle
  <2>2. QED BY <1>0, <1>2, <1>6, <2>1 DEF IdenticalCycle
<1>7. CASE AllocateVersion
  BY <1>0, <1>2, <1>7 DEF AllocateVersion
<1>8. CASE StoreSnapshot \/ StoreDelta \/ Commit
  BY <1>0, <1>8 DEF StoreSnapshot, StoreDelta, Commit
<1>9. CASE Announce \/ AnnounceFails
  <2>1. currentState = ContentOf(currentVersion) /\ UNCHANGED <<storeVars, currentVersion, currentState>>
    BY <1>0, <1>9 DEF Announce, AnnounceFails, PublishedInv, CycleInv, LogLength
  <2>2. pc' = "idle" /\ enabled' = enabled
    BY <1>9 DEF Announce, AnnounceFails
  <2>3. QED BY <1>0, <1>2, <2>1, <2>2
<1>10. CASE SwitchEnforcer \/ Restart \/ \E v \in Versions : Restore(v)
  BY <1>10, <1>e DEF SwitchEnforcer, Restart, Restore
<1>11. CASE UNCHANGED vars
  BY <1>0, <1>2, <1>11 DEF vars
<1>12. QED
  BY <1>3, <1>4, <1>5, <1>6, <1>7, <1>8, <1>9, <1>10, <1>11
     DEF Next, Surroundings, CycleStep, UnannouncedStep

LEMMA ReturnInvariant ==
  ASSUME EnabledEnvironment
  PROVE  Spec => []ReturnInv
BY ReturnInit, ReturnStep, PTL DEF Spec

(***************************************************************************)
(* After a cycle that returned its version, the next delta starts from     *)
(* what that version stands for, whatever cycles failed or were empty      *)
(* before it: one failure spoils one delta, not the ones that follow.      *)
(***************************************************************************)
THEOREM ReturnedVersionIsBase ==
  ASSUME EnabledEnvironment
  PROVE  Spec => ReturnedIsBase
<1>1. ASSUME ReturnInv, StoreDelta, currentVersion # 0, returned = currentVersion
      PROVE  deltas'[currentVersion].base = ContentOf(currentVersion)
  <2>1. previousState = ContentOf(currentVersion)
    BY <1>1 DEF ReturnInv, StoreDelta
  <2>2. deltas \in [FromVersions -> DeltaBlob \cup {NoBlob}]
    BY <1>1 DEF ReturnInv, PublishedInv, ChainInv, TypeInv, TypeOK
  <2>3. QED BY <1>1, <2>1, <2>2 DEF StoreDelta
<1>2. QED BY <1>1, ReturnInvariant, PTL DEF Spec, ReturnedIsBase

-----------------------------------------------------------------------------
(***************************************************************************)
(* If cycles do not fail either, every delta starts from the state its     *)
(* FromVersion stands for: the state of the last cycle is always the       *)
(* published one.                                                          *)
(***************************************************************************)
QuietEnvironment ==
  /\ Events \subseteq {"disable", "announceFail"}
  /\ \A c, d \in Contents : Hash[c] = Hash[d] => c = d

EngineInv ==
  /\ pc = "idle" => currentState = ContentOf(currentVersion)
  /\ pc \in {"populated", "validating"} => previousState = ContentOf(currentVersion)

LogInv ==
  /\ PublishedInv
  /\ DeltaBaseSound
  /\ EngineInv

LEMMA QuietIsLasting == QuietEnvironment => LastingEnvironment
BY DEF QuietEnvironment, LastingEnvironment

LEMMA LogInit == Init => LogInv
<1> SUFFICES ASSUME Init PROVE LogInv
  OBVIOUS
<1>1. DeltaBaseSound
  BY DEF Init, DeltaBaseSound
<1>2. EngineInv
  BY DEF Init, EngineInv, ContentOf
<1>3. QED BY <1>1, <1>2, PublishedInit DEF LogInv

(* The delta that is stored starts at the version before it. *)
LEMMA StoreKeepsBases ==
  ASSUME LogInv, StoreSnapshot \/ StoreDelta
  PROVE  DeltaBaseSound'
<1>1. /\ newVersion = currentVersion + 1
      /\ \A v \in 0..currentVersion : ContentOf(v)' = ContentOf(v)
      /\ currentVersion \in 0..MaxVersion
      /\ pc = "validating" /\ previousState = ContentOf(currentVersion)
      /\ deltas \in [FromVersions -> DeltaBlob \cup {NoBlob}]
  BY StoreAppends, LogFacts
     DEF LogInv, EngineInv, StoreSnapshot, StoreDelta, TypeInv, TypeOK
<1>2. ASSUME NEW f \in FromVersions, deltas[f] # NoBlob PROVE f \in 0..currentVersion
  <2>1. f + 1 \in Versions /\ (f + 1) - 1 = f
    BY BoundsAssumption DEF FromVersions, Versions
  <2>2. Stored(f + 1)
    BY <1>2, <2>1 DEF Stored
  <2>3. f + 1 <= currentVersion
    BY <1>1, <2>1, <2>2, LogFacts DEF LogInv
  <2>4. QED BY <1>1, <2>3 DEF FromVersions
<1>3. ASSUME NEW f \in FromVersions, deltas'[f] # NoBlob
      PROVE  deltas'[f].base = ContentOf(f)'
  <2>1. CASE deltas'[f] = deltas[f]
    BY <1>1, <1>2, <1>3, <2>1 DEF LogInv, DeltaBaseSound
  <2>2. CASE deltas'[f] # deltas[f]
    <3>1. StoreDelta
      BY <2>2 DEF StoreSnapshot
    <3>2. f = currentVersion /\ deltas'[f].base = previousState
      BY <1>1, <2>2, <3>1 DEF StoreDelta
    <3>3. currentVersion \in 0..currentVersion
      BY <1>1
    <3>4. QED BY <1>1, <3>2, <3>3
  <2>3. QED BY <2>1, <2>2
<1>4. QED BY <1>3 DEF DeltaBaseSound

LEMMA LogStep ==
  ASSUME QuietEnvironment
  PROVE  LogInv /\ [Next]_vars => LogInv'
<1> SUFFICES ASSUME LogInv, [Next]_vars PROVE LogInv'
  OBVIOUS
<1>e. /\ LastingEnvironment
      /\ "restoreRace" \notin Events /\ "restore" \notin Events /\ "crash" \notin Events
      /\ "empty" \notin Events /\ "reject" \notin Events /\ "storeFail" \notin Events
  BY QuietIsLasting DEF QuietEnvironment
<1>0. PublishedInv /\ PublishedInv' /\ EngineInv
  BY <1>e, PublishedStep DEF LogInv
<1>1. ASSUME UNCHANGED storeVars
      PROVE  DeltaBaseSound' /\ ContentOf(currentVersion)' = ContentOf(currentVersion')
  BY <1>1, StoreUnchanged DEF LogInv, ContentOf, storeVars
<1> USE DEF versionVars, engineVars, Return, PrepareForCycle, LogInv, EngineInv
<1>2. CASE \E c \in Contents : Populate(c)
  BY <1>0, <1>1, <1>2 DEF Populate
<1>3. CASE DisabledCycle
  BY <1>0, <1>1, <1>3 DEF DisabledCycle
<1>4. CASE IdenticalCycle
  <2>1. currentState = ContentOf(currentVersion)
    BY <1>0, <1>4, <1>e, IdenticalIsPublished DEF IdenticalCycle
  <2>2. QED BY <1>0, <1>1, <1>4, <2>1 DEF IdenticalCycle
<1>5. CASE AllocateVersion
  BY <1>0, <1>1, <1>5 DEF AllocateVersion
<1>6. CASE StoreSnapshot \/ StoreDelta
  <2>1. DeltaBaseSound' /\ pc' = "stored"
    BY <1>6, StoreKeepsBases DEF StoreSnapshot, StoreDelta
  <2>2. QED BY <1>0, <2>1
<1>7. CASE Commit
  BY <1>0, <1>1, <1>7 DEF Commit
<1>8. CASE Announce \/ AnnounceFails
  <2>1. /\ currentState = ContentOf(currentVersion)
        /\ UNCHANGED <<storeVars, currentVersion, currentState>> /\ pc' = "idle"
    BY <1>0, <1>8 DEF Announce, AnnounceFails, PublishedInv, CycleInv, LogLength
  <2>2. QED BY <1>0, <1>1, <2>1
<1>9. CASE SwitchEnforcer \/ UNCHANGED vars
  BY <1>0, <1>1, <1>9 DEF SwitchEnforcer, vars
<1>10. CASE \/ EmptyCycle \/ ValidationFails \/ StoreFails \/ Restart
            \/ \E v \in Versions : Restore(v)
  BY <1>10, <1>e DEF EmptyCycle, ValidationFails, StoreFails, Restart, Restore
<1>11. QED
  BY <1>2, <1>3, <1>4, <1>5, <1>6, <1>7, <1>8, <1>9, <1>10
     DEF Next, Surroundings, CycleStep, UnannouncedStep

LEMMA LogInvariant ==
  ASSUME QuietEnvironment
  PROVE  Spec => []LogInv
BY LogInit, LogStep, PTL DEF Spec

(***************************************************************************)
(* Every delta was computed from the state its FromVersion stands for.     *)
(***************************************************************************)
THEOREM DeltasAreSound ==
  ASSUME QuietEnvironment
  PROVE  Spec => []DeltaBaseSound
<1>1. LogInv => DeltaBaseSound
  BY DEF LogInv
<1>2. QED BY <1>1, LogInvariant, PTL
=============================================================================
