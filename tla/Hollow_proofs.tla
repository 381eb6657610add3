--------------------------- MODULE Hollow_proofs ---------------------------
(***************************************************************************)
(* What a consumer may rely on however its refreshes and the producer      *)
(* interleave, for every set of contents, every number of versions, every  *)
(* choice of serializers and refreshers, and failures, empty cycles,       *)
(* rejections, crashes and Restore between cycles: the versions it stands  *)
(* at and is about to go to are stored.                                    *)
(***************************************************************************)
EXTENDS Session, Producer_proofs, DeltaSet_proofs

(* The well-foundedness of < on Nat, said without a relation: induction    *)
(* over numbers is the search for a smallest counterexample.               *)
LEMMA SmallestExists ==
  ASSUME NEW T, T \subseteq Nat, T # {}
  PROVE  \E x \in T : \A y \in T : x <= y
<1> DEFINE R == OpToRel(<, Nat)
<1>1. IsWellFoundedOn(R, Nat)
  BY NatLessThanWellFounded
<1>2. \A x, y \in Nat : y < x => <<y, x>> \in R
  BY DEF OpToRel
<1> HIDE DEF R
<1>3. PICK x \in T : \A y \in T : <<y, x>> \notin R
  BY <1>1, WFMin
<1>4. ASSUME NEW y \in T PROVE x <= y
  <2>1. x \in Nat /\ y \in Nat
    OBVIOUS
  <2>2. ~(y < x)
    BY <1>2, <1>3, <2>1
  <2> QED BY <2>1, <2>2
<1> QED BY <1>4

LEMMA LargestExists ==
  ASSUME NEW N \in Nat, NEW T, T \subseteq 0..N, T # {}
  PROVE  \E x \in T : \A y \in T : y <= x
<1> DEFINE below == {N - y : y \in T}
<1>1. \A y \in T : y \in Nat /\ N - y \in Nat
  OBVIOUS
<1>2. below \subseteq Nat /\ below # {}
  BY <1>1
<1>3. \E z \in below : \A y \in below : z <= y
  <2> HIDE DEF below
  <2> QED BY <1>2, SmallestExists
<1>4. PICK x \in T : \A y \in T : N - x <= N - y
  BY <1>3
<1>5. ASSUME NEW y \in T PROVE y <= x
  BY <1>1, <1>4
<1> QED BY <1>5

(***************************************************************************)
(* Steps                                                                   *)
(***************************************************************************)

(* Somebody starts a refresh by the caller, to any version. *)
StartRefresh ==
  \E v \in 0..MaxVersion :
    /\ refresher["manual"].pc = "idle"
    /\ Goto("manual", [Idle EXCEPT !.pc = "begin", !.target = v])
    /\ UNCHANGED <<vars, feedVars, readVars, panicked, setup>>

(* The feed changes, but not what is in the subscription. *)
FeedStep ==
  /\ pinnedVersion' \in 0..MaxVersion
  /\ subscribed' \in BOOLEAN
  /\ UNCHANGED <<vars, latestVersion, inbox, consumerVars>>

(* All that can happen to a consumer and its surroundings, with or without *)
(* views around it.                                                        *)
WideNext ==
  \/ ProducerStep
  \/ FeedStep
  \/ Receive
  \/ StartRefresh
  \/ \E p \in Refreshers : RefreshStep(p)

LEMMA NewestIsVersion == NewestSnapshot \in 0..MaxVersion
<1> DEFINE listed == {v \in Versions : snapshots[v] # NoBlob}
<1>1. CASE listed = {}
  BY <1>1, BoundsAssumption DEF NewestSnapshot
<1>2. CASE listed # {}
  <2>1. NewestSnapshot = CHOOSE v \in listed : \A u \in listed : u <= v
    BY <1>2 DEF NewestSnapshot
  <2>2. listed \subseteq 0..MaxVersion /\ MaxVersion \in Nat
    BY BoundsAssumption DEF Versions
  <2>3. \E v \in listed : \A u \in listed : u <= v
    BY <1>2, <2>2, LargestExists
  <2> HIDE DEF listed
  <2> QED BY <2>1, <2>2, <2>3
<1> QED BY <1>1, <1>2

FeedTypes ==
  /\ latestVersion \in 0..MaxVersion
  /\ pinnedVersion \in 0..MaxVersion
  /\ subscribed \in BOOLEAN

LEMMA HollowIsWide == FeedTypes /\ HollowNext => WideNext
<1> SUFFICES ASSUME FeedTypes, HollowNext PROVE WideNext
  OBVIOUS
<1> USE BoundsAssumption DEF WideNext
<1>1. ASSUME NEW v \in Versions, Pin(v) PROVE WideNext
  BY <1>1 DEF Pin, FeedStep, FeedTypes, Versions
<1>2. ASSUME NEW v \in Versions, RequestVersion(v) PROVE WideNext
  <2>1. v \in 0..MaxVersion
    BY DEF Versions
  <2> QED BY <1>2, <2>1 DEF RequestVersion, StartRefresh
<1>3. CASE Unpin
  BY <1>3 DEF Unpin, FeedStep, FeedTypes
<1>4. CASE Subscribe
  BY <1>4 DEF Subscribe, FeedStep, FeedTypes
<1>5. CASE TriggerRefresh
  <2>1. (IF Latest = 0 THEN NewestSnapshot ELSE Latest) \in 0..MaxVersion
    BY NewestIsVersion DEF FeedTypes, Latest
  <2> QED BY <1>5, <2>1 DEF TriggerRefresh, StartRefresh
<1> QED BY <1>1, <1>2, <1>3, <1>4, <1>5 DEF HollowNext

(***************************************************************************)
(* The local variables of a refresh                                        *)
(***************************************************************************)
Phase == {"idle", "begin", "plan", "apply", "loaded", "valid", "copied"}
Applying == {"apply", "loaded", "valid", "copied"}

Bytes ==
  {Serialize(s, c) : s \in Serializers, c \in Contents}
    \cup {SerializeDelta(s, DeltaOfPlain(b, c)) : s \in Serializers, b \in States, c \in Contents}

Blob == [kind : {"snapshot", "delta"}, to : Versions, data : Bytes]

IsLocal(r) ==
  /\ r = [pc |-> r.pc, target |-> r.target, from |-> r.from, cur |-> r.cur,
          chain |-> r.chain, held |-> r.held, fresh |-> r.fresh, base |-> r.base]
  /\ r.pc \in Phase
  /\ r.target \in 0..MaxVersion /\ r.from \in 0..MaxVersion /\ r.cur \in 0..MaxVersion
  /\ r.chain \in Seq(Blob)

Available == {v \in Versions : Stored(v)}

(* What refresher p may count on when these versions are available: the    *)
(* version it started from, those it has planned and, once it has got past *)
(* it, its target are among them.                                          *)
Sound(p, r, there) ==
  /\ IsLocal(r)
  /\ r.from > 0 => r.from \in there
  /\ \A i \in DOMAIN r.chain : r.chain[i].to \in there
  /\ p = "auto" /\ r.target > 0 => r.target \in there
  /\ r.pc = "plan" => r.cur <= r.target /\ (r.cur < r.target => r.target \in there)
  /\ r.pc \in Applying /\ r.target > 0 => r.target \in there
  /\ r.pc \in {"loaded", "valid", "copied"} => r.chain # <<>>

InboxInv ==
  /\ inbox \in Seq(Versions) /\ Len(inbox) <= BufferSize
  /\ \A i \in DOMAIN inbox : inbox[i] \in Available

HollowInv ==
  /\ ChainInv
  /\ FeedTypes
  /\ InboxInv
  /\ setup \in Setups /\ panicked \in BOOLEAN
  /\ readVersion \in 0..MaxVersion
  /\ readVersion > 0 => readVersion \in Available
  /\ refresher = [p \in Refreshers |-> refresher[p]]
  /\ \A p \in Refreshers : Sound(p, refresher[p], Available)

LEMMA IdleIsSound == ASSUME NEW p, NEW there PROVE Sound(p, Idle, there)
  BY BoundsAssumption DEF Sound, IsLocal, Idle, Phase, Applying

LEMMA HollowInvInit == HollowInit => HollowInv
<1> SUFFICES ASSUME HollowInit PROVE HollowInv
  OBVIOUS
<1>1. ChainInv
  BY ChainInit DEF HollowInit
<1>2. FeedTypes /\ readVersion \in 0..MaxVersion /\ readVersion = 0
  BY BoundsAssumption DEF HollowInit, FeedTypes
<1>3. InboxInv
  BY HollowAssumption DEF HollowInit, InboxInv
<1>4. \A p \in Refreshers : refresher[p] = Idle
  BY DEF HollowInit
<1>5. \A p \in Refreshers : Sound(p, refresher[p], Available)
  BY <1>4, IdleIsSound
<1>6. refresher = [p \in Refreshers |-> refresher[p]]
  BY DEF HollowInit
<1>7. setup \in Setups /\ panicked \in BOOLEAN
  BY DEF HollowInit
<1> QED BY <1>1, <1>2, <1>3, <1>5, <1>6, <1>7 DEF HollowInv

(* Nothing that is stored is ever removed. *)
LEMMA StoredStays ==
  ASSUME TypeInv, [Next]_vars, NEW v \in Versions, Stored(v)
  PROVE  Stored(v)'
<1>1. /\ v - 1 \in FromVersions
      /\ snapshots \in [Versions -> Contents \cup {NoBlob}]
      /\ deltas \in [FromVersions -> DeltaBlob \cup {NoBlob}]
  BY BoundsAssumption DEF TypeInv, TypeOK, Versions, FromVersions
<1>2. CASE UNCHANGED storeVars
  BY <1>2 DEF storeVars, Stored
<1>3. CASE StoreSnapshot
  <2>1. currentState # NoBlob /\ newVersion \in Versions
    BY <1>3, ContentsAssumption DEF StoreSnapshot, TypeInv
  <2> QED BY <1>1, <1>3, <2>1 DEF StoreSnapshot, Stored
<1>4. CASE StoreDelta
  <2> DEFINE d == [to |-> newVersion, base |-> previousState, target |-> currentState]
  <2>1. d # NoBlob
    <3>1. d \in [to : Nat, base : Contents \cup {NoContent}, target : Contents]
      BY <1>4, BoundsAssumption DEF StoreDelta, TypeInv, TypeOK, States, Versions
    <3> QED BY <3>1, BlobsAssumption
  <2>2. \A f \in FromVersions : deltas[f] # NoBlob => deltas'[f] # NoBlob
    BY <1>1, <1>4, <2>1 DEF StoreDelta
  <2>3. snapshots' = snapshots
    BY <1>4 DEF StoreDelta
  <2> QED BY <1>1, <2>2, <2>3 DEF Stored
<1> QED
  BY <1>2, <1>3, <1>4
     DEF Next, Surroundings, CycleStep, UnannouncedStep, vars, Populate, DisabledCycle,
         EmptyCycle, IdenticalCycle, AllocateVersion, ValidationFails, StoreFails, Commit,
         Announce, AnnounceFails, SwitchEnforcer, Restart, Restore, storeVars

(* What a refresher finds in the store. *)
LEMMA StoredBlobs ==
  ASSUME HollowInv, NEW v \in Versions
  PROVE  /\ v - 1 \in FromVersions
         /\ snapshots[v] # NoBlob => SnapshotBytes(v) \in Bytes /\ Stored(v)
         /\ deltas[v - 1] # NoBlob =>
              DeltaBytes(v - 1) \in Bytes /\ deltas[v - 1].to = v /\ Stored(v)
<1>1. /\ v - 1 \in FromVersions
      /\ snapshots[v] # NoBlob => snapshots[v] \in Contents
      /\ deltas[v - 1] # NoBlob => deltas[v - 1] \in DeltaBlob
      /\ deltas[v - 1] # NoBlob => deltas[v - 1].to = v
  BY BoundsAssumption
     DEF HollowInv, ChainInv, TypeInv, TypeOK, NoGaps, Versions, FromVersions
<1>2. setup.writer \in Serializers
  BY HollowAssumption DEF HollowInv
<1>3. snapshots[v] # NoBlob => SnapshotBytes(v) \in Bytes
  BY <1>1, <1>2 DEF SnapshotBytes, Bytes
<1>4. deltas[v - 1] # NoBlob => DeltaBytes(v - 1) \in Bytes
  BY <1>1, <1>2 DEF DeltaBytes, Bytes, DeltaBlob
<1> QED BY <1>1, <1>3, <1>4 DEF Stored

(* A step changes the local variables of one refresher.                    *)
LEMMA GotoOnly ==
  ASSUME refresher = [q \in Refreshers |-> refresher[q]], NEW p \in Refreshers,
         NEW local, Goto(p, local)
  PROVE  /\ refresher'[p] = local
         /\ \A q \in Refreshers : q # p => refresher'[q] = refresher[q]
         /\ refresher' = [q \in Refreshers |-> refresher'[q]]
  BY DEF Goto

LEMMA SetStateOnly ==
  ASSUME NEW p \in Refreshers, NEW v, NEW content, SetCurrentState(p, v, content)
  PROVE  /\ refresher'[p] = [refresher[p] EXCEPT !.pc = "apply", !.chain = Tail(@),
                               !.held = NoContent, !.fresh = TRUE, !.base = NoContent]
         /\ \A q \in Refreshers : q # p =>
              refresher'[q] \in {refresher[q], [refresher[q] EXCEPT !.fresh = FALSE]}
         /\ refresher' = [q \in Refreshers |-> refresher'[q]]
         /\ readVersion' = v /\ readContent' = content
  BY DEF SetCurrentState

LEMMA TailOfChain ==
  ASSUME NEW S, NEW s \in Seq(S), s # <<>>
  PROVE  /\ Tail(s) \in Seq(S) /\ Head(s) \in S /\ Head(s) = s[1] /\ 1 \in DOMAIN s
         /\ Len(s) \in Nat /\ Len(s) >= 1 /\ Len(Tail(s)) = Len(s) - 1
         /\ \A i \in DOMAIN Tail(s) : i + 1 \in DOMAIN s /\ Tail(s)[i] = s[i + 1]
  OBVIOUS

LEMMA ConsChain ==
  ASSUME NEW S, NEW s \in Seq(S), NEW e \in S
  PROVE  /\ <<e>> \o s \in Seq(S)
         /\ Len(<<e>> \o s) = Len(s) + 1
         /\ (<<e>> \o s)[1] = e
         /\ \A i \in DOMAIN (<<e>> \o s) :
              (<<e>> \o s)[i] = e \/ (i - 1 \in DOMAIN s /\ (<<e>> \o s)[i] = s[i - 1])
  OBVIOUS

(* What a step of a refresh does, in terms of its own local variables.     *)
RefreshEffect(p) ==
  LET now == refresher[p]  next == refresher'[p]
      first == Head(now.chain)
  IN \/ next = Idle /\ UNCHANGED readVars
     \/ /\ now.pc = "begin" /\ UNCHANGED readVars
        /\ next = [now EXCEPT !.pc = "plan", !.from = readVersion, !.cur = now.target]
     \/ /\ now.pc = "plan" /\ now.cur > now.from /\ UNCHANGED readVars
        /\ snapshots[now.cur] # NoBlob
        /\ \E b \in Blob : /\ b.to = now.cur /\ b.to \in Available
                          /\ b.kind = "snapshot" /\ b.data = SnapshotBytes(now.cur)
                          /\ next = [now EXCEPT !.pc = "apply", !.chain = <<b>> \o @]
     \/ /\ now.pc = "plan" /\ now.cur > now.from /\ UNCHANGED readVars
        /\ snapshots[now.cur] = NoBlob /\ deltas[now.cur - 1] # NoBlob
        /\ \E b \in Blob : /\ b.to = now.cur /\ b.to \in Available
                          /\ b.kind = "delta" /\ b.data = DeltaBytes(now.cur - 1)
                          /\ next = [now EXCEPT !.cur = now.cur - 1, !.chain = <<b>> \o @]
     \/ /\ now.pc = "plan" /\ now.cur <= now.from /\ UNCHANGED readVars
        /\ next = [now EXCEPT !.pc = "apply"]
     \/ /\ now.pc = "apply" /\ now.chain # <<>> /\ UNCHANGED readVars
        /\ first.kind = "delta" /\ CanDeserializeDelta(setup.reader, first.data)
        /\ next = [now EXCEPT !.pc = "loaded", !.held = readContent]
     \/ /\ now.pc = "loaded" /\ UNCHANGED readVars
        /\ next = [now EXCEPT !.pc = "valid"]
     \/ /\ now.pc \in {"loaded", "valid"} /\ UNCHANGED readVars
        /\ \E base : /\ base = now.held \/ (~now.fresh /\ base = NoContent)
                     /\ next = [now EXCEPT !.pc = "copied", !.base = base]
     \/ next = now /\ UNCHANGED readVars /\ ~now.fresh
     \/ /\ now.pc \in {"apply", "copied"} /\ now.chain # <<>>
        /\ readVersion' = first.to
        /\ \/ /\ now.pc = "apply" /\ first.kind = "snapshot"
              /\ CanDeserialize(setup.reader, first.data)
              /\ readContent' = Deserialize(setup.reader, first.data)
           \/ /\ now.pc = "copied"
              /\ readContent' = ApplyDelta(now.base, DeserializeDelta(setup.reader, first.data))
        /\ next = [now EXCEPT !.pc = "apply", !.chain = Tail(@),
                              !.held = NoContent, !.fresh = TRUE, !.base = NoContent]

LEMMA RefreshHasEffect ==
  ASSUME HollowInv, NEW p \in Refreshers, RefreshStep(p)
  PROVE  /\ UNCHANGED <<vars, feedVars, setup>>
         /\ RefreshEffect(p)
         /\ panicked' \in BOOLEAN
         /\ refresher' = [q \in Refreshers |-> refresher'[q]]
         /\ \A q \in Refreshers : q # p =>
              refresher'[q] \in {refresher[q], [refresher[q] EXCEPT !.fresh = FALSE]}
<1> DEFINE now == refresher[p]
           Others == /\ refresher' = [q \in Refreshers |-> refresher'[q]]
                     /\ \A q \in Refreshers : q # p =>
                          refresher'[q] \in {refresher[q], [refresher[q] EXCEPT !.fresh = FALSE]}
<1>1. /\ refresher = [q \in Refreshers |-> refresher[q]]
      /\ IsLocal(now) /\ panicked \in BOOLEAN
      /\ now.pc \in {"loaded", "valid", "copied"} => now.chain # <<>>
  BY DEF HollowInv, Sound
<1>2. ASSUME NEW local, Goto(p, local) PROVE refresher'[p] = local /\ Others
  BY <1>1, <1>2, GotoOnly
<1>3. ASSUME NEW v, NEW content, SetCurrentState(p, v, content)
      PROVE  /\ refresher'[p] = [now EXCEPT !.pc = "apply", !.chain = Tail(@),
                                     !.held = NoContent, !.fresh = TRUE, !.base = NoContent]
             /\ readVersion' = v /\ readContent' = content /\ Others
  BY <1>3, SetStateOnly
<1>a. SUFFICES /\ UNCHANGED <<vars, feedVars, setup>>
               /\ RefreshEffect(p)
               /\ panicked' = panicked \/ panicked' = TRUE
               /\ Others
  <2>1. panicked' = panicked \/ panicked' = TRUE => panicked' \in BOOLEAN
    BY <1>1
  <2> QED BY <2>1
<1> HIDE DEF Others
<1> USE DEF RefreshEffect
<1>4. ASSUME now.pc = "plan", now.cur > now.from PROVE now.cur \in Versions
  BY <1>1, <1>4 DEF IsLocal, Versions
<1>5. CASE SkipRefresh(p) \/ PlanGap(p) \/ DecodeFails(p) \/ FinishRefresh(p)
  BY <1>1, <1>2, <1>5 DEF SkipRefresh, PlanGap, DecodeFails, FinishRefresh
<1>6. CASE BeginRefresh(p)
  BY <1>1, <1>2, <1>6 DEF BeginRefresh
<1>7. CASE PlanSnapshot(p)
  <2> DEFINE b == [kind |-> "snapshot", to |-> now.cur, data |-> SnapshotBytes(now.cur)]
  <2>1. now.cur \in Versions
    BY <1>4, <1>7 DEF PlanSnapshot
  <2>2. /\ b \in Blob /\ b.to = now.cur /\ b.to \in Available
        /\ b.kind = "snapshot" /\ b.data = SnapshotBytes(now.cur)
    BY <1>7, <2>1, StoredBlobs DEF PlanSnapshot, Blob, Available
  <2>3. Goto(p, [now EXCEPT !.pc = "apply", !.chain = <<b>> \o @])
    BY <1>7 DEF PlanSnapshot
  <2>4. refresher'[p] = [now EXCEPT !.pc = "apply", !.chain = <<b>> \o @] /\ Others
    BY <1>2, <2>3
  <2> HIDE DEF b
  <2> QED BY <1>1, <1>7, <2>2, <2>4 DEF PlanSnapshot
<1>8. CASE PlanDelta(p)
  <2> DEFINE b == [kind |-> "delta", to |-> deltas[now.cur - 1].to, data |-> DeltaBytes(now.cur - 1)]
  <2>1. now.cur \in Versions
    BY <1>4, <1>8 DEF PlanDelta
  <2>2. /\ b \in Blob /\ b.to = now.cur /\ b.to \in Available
        /\ b.kind = "delta" /\ b.data = DeltaBytes(now.cur - 1)
    BY <1>8, <2>1, StoredBlobs DEF PlanDelta, Blob, Available
  <2>3. Goto(p, [now EXCEPT !.cur = now.cur - 1, !.chain = <<b>> \o @])
    BY <1>8 DEF PlanDelta
  <2>4. refresher'[p] = [now EXCEPT !.cur = now.cur - 1, !.chain = <<b>> \o @] /\ Others
    BY <1>2, <2>3
  <2> HIDE DEF b
  <2> QED BY <1>1, <1>8, <2>2, <2>4 DEF PlanDelta
<1>9. CASE PlanReached(p)
  BY <1>1, <1>2, <1>9 DEF PlanReached
<1>10. CASE LoadSnapshot(p)
  BY <1>1, <1>3, <1>10 DEF LoadSnapshot, NextBlobIs
<1>11. CASE LoadDelta(p)
  BY <1>1, <1>2, <1>11 DEF LoadDelta, NextBlobIs
<1>12. CASE SeesValid(p)
  BY <1>1, <1>2, <1>12 DEF SeesValid
<1>13. CASE SeesInvalidated(p) \/ CopyState(p)
  <2>1. PICK base : /\ Goto(p, [now EXCEPT !.pc = "copied", !.base = base])
                    /\ base = now.held \/ (~now.fresh /\ base = NoContent)
    BY <1>13 DEF SeesInvalidated, CopyState
  <2>2. refresher'[p] = [now EXCEPT !.pc = "copied", !.base = base] /\ Others
    BY <1>2, <2>1
  <2>3. /\ now.pc \in {"loaded", "valid"} /\ UNCHANGED <<vars, feedVars, readVars, panicked, setup>>
    BY <1>13 DEF SeesInvalidated, CopyState
  <2> QED BY <2>1, <2>2, <2>3
<1>14. CASE CopyPanics(p)
  <2>1. refresher' = refresher
    BY <1>14 DEF CopyPanics
  <2>2. Others
    BY <1>1, <2>1 DEF Others
  <2> QED BY <1>14, <2>1, <2>2 DEF CopyPanics
<1>15. CASE FinishDelta(p)
  BY <1>1, <1>3, <1>15 DEF FinishDelta
<1> QED
  BY <1>5, <1>6, <1>7, <1>8, <1>9, <1>10, <1>11, <1>12, <1>13, <1>14, <1>15
     DEF RefreshStep

LEMMA SoundNext ==
  ASSUME HollowInv, NEW p \in Refreshers, RefreshEffect(p)
  PROVE  /\ Sound(p, refresher'[p], Available)
         /\ readVersion' \in 0..MaxVersion
         /\ readVersion' > 0 => readVersion' \in Available
<1> DEFINE now == refresher[p]
           next == refresher'[p]
<1>1. /\ Sound(p, now, Available) /\ IsLocal(now)
      /\ readVersion \in 0..MaxVersion
      /\ readVersion > 0 => readVersion \in Available
      /\ MaxVersion \in Nat
  BY BoundsAssumption DEF HollowInv, Sound
<1>2. \A v \in Versions : v \in Available => \A u \in 1..v : u \in Available
  <2>1. \A v \in Versions : Stored(v) => \A u \in 1..v : Stored(u)
    BY DEF HollowInv, ChainInv, NoGaps
  <2>2. \A v \in Versions : \A u \in 1..v : u \in Versions
    BY BoundsAssumption DEF Versions
  <2> QED BY <2>1, <2>2 DEF Available
<1>3. ASSUME UNCHANGED readVars PROVE readVersion' = readVersion
  BY <1>3 DEF readVars
<1>4. CASE next = Idle /\ UNCHANGED readVars
  BY <1>1, <1>3, <1>4, IdleIsSound
<1>5. CASE /\ now.pc = "begin" /\ UNCHANGED readVars
           /\ next = [now EXCEPT !.pc = "plan", !.from = readVersion, !.cur = now.target]
  <2>1. IsLocal(next)
    BY <1>1, <1>5 DEF IsLocal, Phase
  <2>2. /\ next.from = readVersion /\ next.cur = now.target /\ next.target = now.target
        /\ next.chain = now.chain /\ next.pc = "plan"
    BY <1>1, <1>5 DEF IsLocal
  <2>3. Sound(p, next, Available)
    BY <1>1, <2>1, <2>2 DEF Sound, IsLocal, Applying
  <2> QED BY <1>1, <1>3, <1>5, <2>3
<1>6. ASSUME now.pc = "plan", now.cur > now.from, UNCHANGED readVars,
             NEW b \in Blob, b.to = now.cur, b.to \in Available,
             \/ next = [now EXCEPT !.pc = "apply", !.chain = <<b>> \o @]
             \/ next = [now EXCEPT !.cur = now.cur - 1, !.chain = <<b>> \o @]
      PROVE  Sound(p, next, Available)
  <2> DEFINE longer == <<b>> \o now.chain
  <2>1. now.chain \in Seq(Blob) /\ \A i \in DOMAIN now.chain : now.chain[i].to \in Available
    BY <1>1 DEF Sound, IsLocal
  <2>2. longer \in Seq(Blob) /\ \A i \in DOMAIN longer : longer[i].to \in Available
    BY <1>6, <2>1, ConsChain
  <2>3. /\ next.chain = longer /\ next.target = now.target /\ next.from = now.from
        /\ next.pc \in {"plan", "apply"}
        /\ next.cur \in 0..MaxVersion /\ next.cur <= now.target
        /\ now.target > 0 => now.target \in Available
    <3>1. now.cur \in 0..MaxVersion /\ now.from \in 0..MaxVersion /\ now.target \in 0..MaxVersion
      BY <1>1 DEF IsLocal
    <3>2. now.cur <= now.target /\ (now.cur < now.target => now.target \in Available)
      BY <1>1, <1>6 DEF Sound
    <3>3. now.target > 0 => now.target \in Available
      BY <1>6, <3>1, <3>2
    <3>4. /\ next.chain = longer /\ next.target = now.target /\ next.from = now.from
          /\ next.pc \in {"plan", "apply"} /\ next.cur \in {now.cur, now.cur - 1}
      BY <1>1, <1>6 DEF IsLocal
    <3> QED BY <1>1, <1>6, <3>1, <3>2, <3>3, <3>4
  <2>4. IsLocal(next)
    <3>1. next = [pc |-> next.pc, target |-> next.target, from |-> next.from, cur |-> next.cur,
                  chain |-> next.chain, held |-> next.held, fresh |-> next.fresh, base |-> next.base]
      BY <1>1, <1>6 DEF IsLocal
    <3> HIDE DEF next, longer
    <3> QED BY <1>1, <2>2, <2>3, <3>1 DEF IsLocal, Phase
  <2>5. /\ now.from > 0 => now.from \in Available
        /\ now.target \in 0..MaxVersion
    BY <1>1 DEF Sound, IsLocal
  <2> HIDE DEF next, longer
  <2> QED BY <1>1, <2>2, <2>3, <2>4, <2>5 DEF Sound
<1>7. CASE /\ now.pc = "plan" /\ now.cur <= now.from /\ UNCHANGED readVars
           /\ next = [now EXCEPT !.pc = "apply"]
  <2>1. now.cur \in 0..MaxVersion /\ now.from \in 0..MaxVersion /\ now.target \in 0..MaxVersion
    BY <1>1 DEF IsLocal
  <2>2. /\ now.cur <= now.target /\ (now.cur < now.target => now.target \in Available)
        /\ now.from > 0 => now.from \in Available
    BY <1>1, <1>7 DEF Sound
  <2>3. now.target > 0 => now.target \in Available
    <3>1. ASSUME now.target > 0, now.cur = now.target PROVE now.target \in Available
      <4>1. now.from \in Versions /\ now.target \in 1..now.from
        BY <1>1, <1>7, <2>1, <3>1 DEF Versions
      <4> QED BY <1>2, <2>1, <2>2, <4>1
    <3> QED BY <2>1, <2>2, <3>1
  <2>4. IsLocal(next) /\ next.chain = now.chain /\ next.target = now.target
        /\ next.from = now.from /\ next.pc = "apply"
    BY <1>1, <1>7 DEF IsLocal, Phase
  <2>5. Sound(p, next, Available)
    BY <1>1, <2>3, <2>4 DEF Sound
  <2> QED BY <1>1, <1>3, <1>7, <2>5
<1>8. ASSUME now.pc \in Applying, UNCHANGED readVars,
             IsLocal(next), next.chain = now.chain, next.target = now.target, next.from = now.from,
             next.pc \in {"loaded", "valid", "copied"}, now.chain # <<>>
      PROVE  Sound(p, next, Available)
  BY <1>1, <1>8 DEF Sound
<1>9. CASE /\ now.pc = "apply" /\ now.chain # <<>> /\ UNCHANGED readVars
           /\ next = [now EXCEPT !.pc = "loaded", !.held = readContent]
  <2>1. /\ IsLocal(next) /\ next.chain = now.chain /\ next.target = now.target
        /\ next.from = now.from /\ next.pc = "loaded"
    BY <1>1, <1>9 DEF IsLocal, Phase
  <2> QED BY <1>1, <1>3, <1>8, <1>9, <2>1 DEF Applying
<1>10. CASE now.pc = "loaded" /\ UNCHANGED readVars /\ next = [now EXCEPT !.pc = "valid"]
  <2>1. /\ IsLocal(next) /\ next.chain = now.chain /\ next.target = now.target
        /\ next.from = now.from /\ next.pc = "valid" /\ now.chain # <<>>
    BY <1>1, <1>10 DEF IsLocal, Phase, Sound
  <2> QED BY <1>1, <1>3, <1>8, <1>10, <2>1 DEF Applying
<1>11. CASE /\ now.pc \in {"loaded", "valid"} /\ UNCHANGED readVars
            /\ \E base : next = [now EXCEPT !.pc = "copied", !.base = base]
  <2>0. PICK base : next = [now EXCEPT !.pc = "copied", !.base = base]
    BY <1>11
  <2>1. /\ IsLocal(next) /\ next.chain = now.chain /\ next.target = now.target
        /\ next.from = now.from /\ next.pc = "copied" /\ now.chain # <<>>
    BY <1>1, <1>11, <2>0 DEF IsLocal, Phase, Sound
  <2> QED BY <1>1, <1>3, <1>8, <1>11, <2>1 DEF Applying
<1>12. CASE next = now /\ UNCHANGED readVars
  BY <1>1, <1>3, <1>12
<1>13. CASE /\ now.pc \in {"apply", "copied"} /\ now.chain # <<>>
            /\ readVersion' = Head(now.chain).to
            /\ next = [now EXCEPT !.pc = "apply", !.chain = Tail(@),
                         !.held = NoContent, !.fresh = TRUE, !.base = NoContent]
  <2>1. now.chain \in Seq(Blob) /\ \A i \in DOMAIN now.chain : now.chain[i].to \in Available
    BY <1>1 DEF Sound, IsLocal
  <2>2. /\ Tail(now.chain) \in Seq(Blob)
        /\ \A i \in DOMAIN Tail(now.chain) : Tail(now.chain)[i].to \in Available
        /\ Head(now.chain).to \in Versions /\ Head(now.chain).to \in Available
    <3>1. /\ Tail(now.chain) \in Seq(Blob) /\ Head(now.chain) \in Blob
          /\ Head(now.chain) = now.chain[1] /\ 1 \in DOMAIN now.chain
          /\ \A i \in DOMAIN Tail(now.chain) :
               i + 1 \in DOMAIN now.chain /\ Tail(now.chain)[i] = now.chain[i + 1]
      BY <1>13, <2>1, TailOfChain
    <3>2. Head(now.chain).to \in Versions
      BY <3>1 DEF Blob
    <3> QED BY <2>1, <3>1, <3>2
  <2>3. IsLocal(next) /\ next.chain = Tail(now.chain) /\ next.target = now.target
        /\ next.from = now.from /\ next.pc = "apply"
    BY <1>1, <1>13, <2>2 DEF IsLocal, Phase
  <2>4. Sound(p, next, Available)
    BY <1>1, <1>13, <2>2, <2>3 DEF Sound, Applying
  <2> QED BY <1>1, <1>13, <2>2, <2>4 DEF Versions
<1> HIDE DEF next
<1> QED
  BY <1>1, <1>3, <1>4, <1>5, <1>6, <1>7, <1>9, <1>10, <1>11, <1>12, <1>13 DEF RefreshEffect, next

(***************************************************************************)
(* The invariant                                                           *)
(***************************************************************************)

(* More versions may become available, which disturbs nobody. *)
LEMMA SoundGrows ==
  ASSUME NEW p, NEW r, NEW S, NEW T, S \subseteq T, Sound(p, r, S)
  PROVE  Sound(p, r, T)
  BY DEF Sound

(* Nor does it if another refresher has replaced the state it holds. *)
LEMMA SoundUnfresh ==
  ASSUME NEW p, NEW r, NEW S, Sound(p, r, S)
  PROVE  Sound(p, [r EXCEPT !.fresh = FALSE], S)
<1>1. SUFFICES ASSUME NEW next, next = [r EXCEPT !.fresh = FALSE]
               PROVE  Sound(p, next, S)
  OBVIOUS
<1>2. IsLocal(r)
  BY DEF Sound
<1>3. /\ next.pc = r.pc /\ next.target = r.target /\ next.from = r.from /\ next.cur = r.cur
      /\ next.chain = r.chain
  BY <1>1, <1>2 DEF IsLocal
<1>4. IsLocal(next)
  BY <1>1, <1>2 DEF IsLocal
<1> QED BY <1>3, <1>4 DEF Sound

(* A producer step leaves the consumer as it is, and everything that was   *)
(* stored; what it announces is stored.                                    *)
LEMMA ProducerKeepsHollowInv ==
  ASSUME "restoreRace" \notin Events, HollowInv, ProducerStep
  PROVE  HollowInv'
<1>1. [Next]_vars
  BY DEF ProducerStep, Next, CycleStep
<1>2. ChainInv /\ TypeInv
  BY DEF HollowInv, ChainInv
<1>3. ChainInv'
  BY <1>1, <1>2, ChainStep
<1>4. Available \subseteq Available'
  <2>1. ASSUME NEW v \in Versions, Stored(v) PROVE Stored(v)'
    BY <1>1, <1>2, <2>1, StoredStays
  <2> QED BY <2>1 DEF Available
<1>5. UNCHANGED <<readVersion, refresher, panicked, setup>>
  BY DEF ProducerStep, consumerVars, readVars
<1>6. /\ FeedTypes'
      /\ \/ inbox' = inbox
         \/ /\ Len(inbox) < BufferSize /\ inbox' = Append(inbox, newVersion)
            /\ newVersion \in Available
  <2>1. CASE UNCHANGED feedVars
    BY <2>1 DEF feedVars, HollowInv, FeedTypes
  <2>2. CASE Announce /\ FeedAnnounce(newVersion)
    <3>1. newVersion \in Versions /\ Stored(newVersion) /\ newVersion \in 0..MaxVersion
      BY <1>2, <2>2 DEF Announce, ChainInv, TypeInv, TypeOK
    <3> QED
      BY <2>1, <2>2, <3>1 DEF FeedAnnounce, HollowInv, FeedTypes, Available
  <2> QED BY <2>1, <2>2 DEF ProducerStep
<1>7. InboxInv'
  <2>1. inbox \in Seq(Versions) /\ Len(inbox) <= BufferSize
        /\ \A i \in DOMAIN inbox : inbox[i] \in Available
    BY DEF HollowInv, InboxInv
  <2>2. CASE inbox' = inbox
    BY <1>4, <2>1, <2>2 DEF InboxInv
  <2>3. CASE /\ Len(inbox) < BufferSize /\ inbox' = Append(inbox, newVersion)
             /\ newVersion \in Available
    <3>1. newVersion \in Versions
      BY <2>3 DEF Available
    <3>2. /\ inbox' \in Seq(Versions) /\ Len(inbox') <= BufferSize
          /\ \A i \in DOMAIN inbox' : inbox'[i] \in Available
      BY <2>1, <2>3, <3>1, HollowAssumption
    <3> QED BY <1>4, <3>2 DEF InboxInv
  <2> QED BY <1>6, <2>2, <2>3
<1>8. ASSUME NEW p \in Refreshers PROVE Sound(p, refresher'[p], Available')
  BY <1>4, <1>5, SoundGrows DEF HollowInv
<1>9. readVersion' \in 0..MaxVersion /\ (readVersion' > 0 => readVersion' \in Available')
  BY <1>4, <1>5 DEF HollowInv
<1>10. /\ setup' \in Setups /\ panicked' \in BOOLEAN
       /\ refresher' = [p \in Refreshers |-> refresher'[p]]
  BY <1>5 DEF HollowInv
<1> QED BY <1>3, <1>6, <1>7, <1>8, <1>9, <1>10 DEF HollowInv

(* Every other step leaves the producer and its store as they are. *)
LEMMA StoreStays ==
  ASSUME UNCHANGED vars
  PROVE  /\ Available' = Available
         /\ ChainInv => ChainInv'
<1>1. \A v : Stored(v)' <=> Stored(v)
  BY DEF vars, storeVars, Stored
<1>2. TypeInv => TypeInv'
  BY TypeStep
<1>3. Available' = Available
  BY <1>1 DEF Available
<1> QED BY <1>1, <1>2, <1>3
    DEF ChainInv, NoGaps, VisibleVersionsAreStored, vars, storeVars, versionVars

LEMMA WideKeepsHollowInv ==
  ASSUME "restoreRace" \notin Events
  PROVE  HollowInv /\ [WideNext]_hollowVars => HollowInv'
<1> SUFFICES ASSUME HollowInv, [WideNext]_hollowVars PROVE HollowInv'
  OBVIOUS
<1>1. CASE ProducerStep
  BY <1>1, ProducerKeepsHollowInv
(* Where the producer rests, the consumer's part is left to check. *)
<1>2. ASSUME UNCHANGED <<vars, setup>>, FeedTypes', InboxInv', panicked' \in BOOLEAN,
             refresher' = [p \in Refreshers |-> refresher'[p]],
             \A p \in Refreshers : Sound(p, refresher'[p], Available),
             readVersion' \in 0..MaxVersion, readVersion' > 0 => readVersion' \in Available
      PROVE  HollowInv'
  BY <1>2, StoreStays DEF HollowInv
<1>3. UNCHANGED <<vars, inbox>> => InboxInv'
  BY StoreStays DEF HollowInv, InboxInv
<1>4. UNCHANGED <<latestVersion, pinnedVersion, subscribed>> => FeedTypes'
  BY DEF HollowInv, FeedTypes
<1>5. CASE FeedStep
  <2>1. FeedTypes'
    BY <1>5 DEF FeedStep, HollowInv, FeedTypes
  <2> QED BY <1>2, <1>3, <1>5, <2>1 DEF FeedStep, consumerVars, readVars, HollowInv
<1>6. CASE UNCHANGED hollowVars
  BY <1>2, <1>3, <1>4, <1>6 DEF hollowVars, feedVars, consumerVars, readVars, HollowInv
(* A refresh that begins has a target and nothing else. *)
<1>7. ASSUME NEW p \in Refreshers, NEW v \in 0..MaxVersion,
             p = "auto" => v \in Available,
             Goto(p, [Idle EXCEPT !.pc = "begin", !.target = v])
      PROVE  /\ refresher' = [q \in Refreshers |-> refresher'[q]]
             /\ \A q \in Refreshers : Sound(q, refresher'[q], Available)
  <2> DEFINE next == refresher'[p]
  <2>0. next = [Idle EXCEPT !.pc = "begin", !.target = v]
    BY <1>7, GotoOnly DEF HollowInv
  <2>1. Sound(p, next, Available)
    <3> HIDE DEF next
    <3>0. IsLocal(Idle)
      BY IdleIsSound DEF Sound
    <3>1. IsLocal(next)
      BY <2>0, <3>0 DEF IsLocal, Phase
    <3>2. /\ next.pc = "begin" /\ next.target = v /\ next.from = 0 /\ next.chain = <<>>
      BY <2>0 DEF Idle
    <3> QED BY <1>7, <3>1, <3>2 DEF Sound, Applying
  <2>2. /\ refresher = [q \in Refreshers |-> refresher[q]]
        /\ \A q \in Refreshers : Sound(q, refresher[q], Available)
    BY DEF HollowInv
  <2> QED BY <1>7, <2>1, <2>2, GotoOnly
<1>8. CASE StartRefresh
  <2>1. PICK v \in 0..MaxVersion :
          /\ Goto("manual", [Idle EXCEPT !.pc = "begin", !.target = v])
          /\ UNCHANGED <<vars, feedVars, readVars, panicked, setup>>
    BY <1>8 DEF StartRefresh
  <2>2. /\ refresher' = [q \in Refreshers |-> refresher'[q]]
        /\ \A q \in Refreshers : Sound(q, refresher'[q], Available)
    BY <1>7, <2>1 DEF Refreshers
  <2>3. FeedTypes' /\ InboxInv'
    BY <1>3, <1>4, <2>1 DEF feedVars
  <2> QED BY <1>2, <2>1, <2>2, <2>3 DEF readVars, HollowInv
<1>9. CASE Receive
  <2>1. /\ inbox \in Seq(Versions) /\ inbox # <<>> /\ Len(inbox) <= BufferSize
        /\ \A i \in DOMAIN inbox : inbox[i] \in Available
    BY <1>9 DEF Receive, HollowInv, InboxInv
  <2>2. /\ Tail(inbox) \in Seq(Versions) /\ Len(Tail(inbox)) = Len(inbox) - 1 /\ Len(inbox) \in Nat
        /\ \A i \in DOMAIN Tail(inbox) : Tail(inbox)[i] \in Available
        /\ Head(inbox) \in Available /\ Head(inbox) \in 0..MaxVersion
    <3>1. Head(inbox) \in Versions /\ Head(inbox) \in Available
      BY <2>1, TailOfChain
    <3> QED BY <2>1, <3>1, TailOfChain DEF Versions
  <2>3. InboxInv'
    BY <1>9, <2>1, <2>2, StoreStays, HollowAssumption DEF Receive, InboxInv
  <2>4. /\ refresher' = [q \in Refreshers |-> refresher'[q]]
        /\ \A q \in Refreshers : Sound(q, refresher'[q], Available)
    BY <1>7, <1>9, <2>2 DEF Receive, Refreshers
  <2>5. FeedTypes'
    BY <1>4, <1>9 DEF Receive
  <2> QED BY <1>2, <1>9, <2>3, <2>4, <2>5 DEF Receive, readVars, HollowInv
<1>10. ASSUME NEW p \in Refreshers, RefreshStep(p) PROVE HollowInv'
  <2>1. /\ UNCHANGED <<vars, feedVars, setup>>
        /\ RefreshEffect(p) /\ panicked' \in BOOLEAN
        /\ refresher' = [q \in Refreshers |-> refresher'[q]]
        /\ \A q \in Refreshers : q # p =>
             refresher'[q] \in {refresher[q], [refresher[q] EXCEPT !.fresh = FALSE]}
    BY <1>10, RefreshHasEffect
  <2>2. /\ Sound(p, refresher'[p], Available)
        /\ readVersion' \in 0..MaxVersion
        /\ readVersion' > 0 => readVersion' \in Available
    BY <2>1, SoundNext
  <2>3. ASSUME NEW q \in Refreshers, q # p PROVE Sound(q, refresher'[q], Available)
    <3>1. Sound(q, refresher[q], Available)
      BY DEF HollowInv
    <3> QED BY <2>1, <2>3, <3>1, SoundUnfresh
  <2>4. FeedTypes' /\ InboxInv'
    BY <1>3, <1>4, <2>1 DEF feedVars
  <2> QED BY <1>2, <2>1, <2>2, <2>3, <2>4
<1> QED BY <1>1, <1>5, <1>6, <1>8, <1>9, <1>10 DEF WideNext

LEMMA HollowInvariant ==
  ASSUME "restoreRace" \notin Events
  PROVE  HollowSpec => []HollowInv
<1>1. HollowInv /\ [HollowNext]_hollowVars => HollowInv'
  BY HollowIsWide, WideKeepsHollowInv DEF HollowInv
<1> QED BY <1>1, HollowInvInit, PTL DEF HollowSpec

(* The zero-copy consumer wraps the same refreshes. *)
LEMMA ZeroCopyIsWide ==
  ASSUME FeedTypes, [ZeroCopyNext]_zeroCopyVars
  PROVE  [WideNext]_hollowVars
<1> USE DEF WideNext
<1>1. CASE UNCHANGED zeroCopyVars
  BY <1>1 DEF zeroCopyVars
<1>2. CASE Elsewhere
  <2>1. ASSUME NEW v \in Versions, Pin(v) PROVE WideNext
    BY <2>1, HollowIsWide DEF HollowNext
  <2>2. CASE Unpin \/ Subscribe
    BY <2>2, HollowIsWide DEF HollowNext
  <2> QED BY <1>2, <2>1, <2>2 DEF Elsewhere, AutoRefresh, Refreshers
<1>3. CASE TriggerRefresh
  BY <1>3, HollowIsWide DEF HollowNext
<1>4. ASSUME NEW v \in 0..MaxVersion, TriggerRefreshToWithZeroCopy(v) PROVE WideNext
  BY <1>4 DEF TriggerRefreshToWithZeroCopy, StartRefresh
<1>5. CASE RegularRefresh
  BY <1>5 DEF RegularRefresh, Refreshers
<1>6. CASE CreateView
  BY <1>6 DEF CreateView, ViewFromSnapshot, ViewHasNoSnapshot, ViewFromDelta,
              ViewHasEmptyDelta, ViewHasNoBlob, ViewFromEarlierSnapshot
<1> QED BY <1>1, <1>2, <1>3, <1>4, <1>5, <1>6 DEF ZeroCopyNext

LEMMA ZeroCopyInvariant ==
  ASSUME "restoreRace" \notin Events
  PROVE  ZeroCopySpec => []HollowInv
<1>1. HollowInv /\ [ZeroCopyNext]_zeroCopyVars => HollowInv'
  BY ZeroCopyIsWide, WideKeepsHollowInv DEF HollowInv
<1>2. ZeroCopyInit => HollowInv
  BY HollowInvInit DEF ZeroCopyInit
<1> QED BY <1>1, <1>2, PTL DEF ZeroCopySpec

-----------------------------------------------------------------------------
LEMMA FormatsOfBytes == \A d \in Bytes : d.format \in Formats
  BY DEF Bytes, Serialize, SerializeDelta, Formats

LEMMA HollowInvIsStored == HollowInv => ReadsAreStored
<1> SUFFICES ASSUME HollowInv PROVE ReadsAreStored
  OBVIOUS
<1>1. ASSUME NEW p \in Refreshers, NEW b \in ToSet(refresher[p].chain)
      PROVE  b \in Blob /\ b.to \in Available
  <2>1. Sound(p, refresher[p], Available)
    BY DEF HollowInv
  <2>2. /\ refresher[p].chain \in Seq(Blob)
        /\ \A i \in DOMAIN refresher[p].chain : refresher[p].chain[i].to \in Available
    BY <2>1 DEF Sound, IsLocal
  <2> HIDE DEF Blob
  <2> QED BY <1>1, <2>2 DEF ToSet
<1>2. inbox \in BoundedSeq(Versions, BufferSize)
  <2>1. inbox \in Seq(Versions) /\ Len(inbox) <= BufferSize
    BY DEF HollowInv, InboxInv
  <2>2. inbox \in [1..Len(inbox) -> Versions] /\ Len(inbox) \in 0..BufferSize
    BY <2>1, HollowAssumption
  <2> QED BY <2>2 DEF BoundedSeq, SeqOf
<1>3. HollowTypeOK
  <2>1. ASSUME NEW p \in Refreshers
        PROVE  /\ refresher[p].pc \in Phase
               /\ {refresher[p].target, refresher[p].from, refresher[p].cur} \subseteq 0..MaxVersion
    BY DEF HollowInv, Sound, IsLocal
  <2>2. ASSUME NEW p \in Refreshers, NEW b \in ToSet(refresher[p].chain)
        PROVE  b.kind \in {"snapshot", "delta"} /\ b.to \in Versions /\ b.data.format \in Formats
    BY <1>1, FormatsOfBytes DEF Blob
  <2> QED BY <1>2, <2>1, <2>2 DEF HollowTypeOK, HollowInv, FeedTypes, Phase
<1>4. readVersion > 0 => Stored(readVersion)
  BY DEF HollowInv, Available
<1>5. ASSUME NEW b \in UNION {ToSet(refresher[p].chain) : p \in Refreshers} PROVE Stored(b.to)
  BY <1>1 DEF Available
<1> QED BY <1>3, <1>4, <1>5 DEF ReadsAreStored

LEMMA HollowInvHasNoGap == HollowInv => PlansHaveNoGap
<1> SUFFICES ASSUME HollowInv, NEW p \in Refreshers,
                    refresher[p].pc = "plan", refresher[p].cur > refresher[p].from,
                    p = "auto" \/ Stored(refresher[p].target)
             PROVE  Stored(refresher[p].cur)
  BY DEF PlansHaveNoGap
<1>1. Sound(p, refresher[p], Available)
  BY DEF HollowInv
<1>2. /\ refresher[p].cur \in 0..MaxVersion /\ refresher[p].from \in 0..MaxVersion
      /\ refresher[p].target \in 0..MaxVersion /\ MaxVersion \in Nat
      /\ refresher[p].cur <= refresher[p].target
      /\ p = "auto" /\ refresher[p].target > 0 => refresher[p].target \in Available
  BY <1>1, BoundsAssumption DEF Sound, IsLocal
<1>3. refresher[p].target \in Versions /\ refresher[p].cur \in 1..refresher[p].target
  BY <1>2 DEF Versions
<1>4. Stored(refresher[p].target)
  BY <1>2, <1>3 DEF Available
<1> QED BY <1>3, <1>4 DEF HollowInv, ChainInv, NoGaps

(***************************************************************************)
(* Whatever refreshes race each other and wherever cycles fail, stop or    *)
(* are restored: every version the consumer stands at or has planned to go *)
(* to can be fetched from the store, and its variables keep their types,   *)
(* with the zero-copy consumer's views made meanwhile or without.          *)
(***************************************************************************)
THEOREM ReadsStayStored ==
  ASSUME "restoreRace" \notin Events
  PROVE  /\ HollowSpec => []ReadsAreStored
         /\ ZeroCopySpec => []ReadsAreStored
<1>1. HollowSpec => []ReadsAreStored
  BY HollowInvariant, HollowInvIsStored, PTL
<1>2. ZeroCopySpec => []ReadsAreStored
  BY ZeroCopyInvariant, HollowInvIsStored, PTL
<1> QED BY <1>1, <1>2

(***************************************************************************)
(* planBlobs never runs into "gap at version" below a version that was     *)
(* announced to the loop or that the caller found stored.                  *)
(***************************************************************************)
THEOREM PlansAreWithoutGaps ==
  ASSUME "restoreRace" \notin Events
  PROVE  /\ HollowSpec => []PlansHaveNoGap
         /\ ZeroCopySpec => []PlansHaveNoGap
<1>1. HollowSpec => []PlansHaveNoGap
  BY HollowInvariant, HollowInvHasNoGap, PTL
<1>2. ZeroCopySpec => []PlansHaveNoGap
  BY ZeroCopyInvariant, HollowInvHasNoGap, PTL
<1> QED BY <1>1, <1>2

-----------------------------------------------------------------------------
(***************************************************************************)
(* One refresher at a time.  A consumer that only its loop, or only a      *)
(* caller, refreshes walks from the version it stands at to its target,    *)
(* one version after the other or from a snapshot on, whatever the         *)
(* producer does meanwhile.                                                *)
(***************************************************************************)
OneRefresher == \A s \in Setups : s.refreshers # Refreshers

Delta(b) == b.kind = "delta"

(* The chain leads to the target without a gap. *)
Chained(chain, target) ==
  /\ \A i \in DOMAIN chain \ {1} : Delta(chain[i]) /\ chain[i].to = chain[i - 1].to + 1
  /\ chain # <<>> => chain[Len(chain)].to = target

(* How far a refresh has got, from the version and data read.              *)
Walk(r, version, content) ==
  /\ r.fresh = TRUE
  /\ Chained(r.chain, r.target)
  /\ r.chain # <<>> => r.pc = "plan" \/ r.pc \in Applying
  /\ r.pc = "plan" =>
       /\ r.from = version
       /\ r.chain = <<>> => r.cur = r.target
       /\ r.chain # <<>> => Delta(r.chain[1]) /\ r.chain[1].to = r.cur + 1 /\ r.cur >= r.from
  /\ r.pc \in Applying =>
       /\ r.chain = <<>> /\ r.target > r.from => version = r.target
       /\ r.chain # <<>> =>
            /\ r.chain[1].to > version
            /\ Delta(r.chain[1]) => r.chain[1].to = version + 1
  /\ r.pc \in {"loaded", "valid", "copied"} => Delta(r.chain[1]) /\ r.held = content
  /\ r.pc = "copied" => r.base = content

LoneInv ==
  /\ HollowInv
  /\ \A p \in Refreshers :
       /\ p \notin setup.refreshers => refresher[p] = Idle
       /\ Walk(refresher[p], readVersion, readContent)

LEMMA IdleWalks == ASSUME NEW v, NEW c PROVE Walk(Idle, v, c)
  BY DEF Walk, Idle, Chained, Applying

LEMMA LoneInit == HollowInit => LoneInv
<1> SUFFICES ASSUME HollowInit PROVE LoneInv
  OBVIOUS
<1>1. \A p \in Refreshers : refresher[p] = Idle
  BY DEF HollowInit
<1> QED BY <1>1, IdleWalks, HollowInvInit DEF LoneInv

(* A blob in front of a chain that starts with the delta into the version  *)
(* after it.                                                               *)
LEMMA ConsIsChained ==
  ASSUME NEW chain \in Seq(Blob), NEW b \in Blob, NEW target,
         Chained(chain, target),
         chain = <<>> => b.to = target,
         chain # <<>> => Delta(chain[1]) /\ chain[1].to = b.to + 1
  PROVE  Chained(<<b>> \o chain, target)
<1> DEFINE longer == <<b>> \o chain
<1>1. /\ longer \in Seq(Blob) /\ Len(longer) = Len(chain) + 1 /\ Len(chain) \in Nat
      /\ longer[1] = b /\ DOMAIN longer = 1..(Len(chain) + 1) /\ DOMAIN chain = 1..Len(chain)
      /\ \A i \in 2..(Len(chain) + 1) : longer[i] = chain[i - 1]
  OBVIOUS
<1> HIDE DEF longer
<1>2. ASSUME NEW i \in DOMAIN longer \ {1}
      PROVE  Delta(longer[i]) /\ longer[i].to = longer[i - 1].to + 1
  <2>1. i \in 2..(Len(chain) + 1) /\ longer[i] = chain[i - 1] /\ chain # <<>>
    BY <1>1
  <2>2. CASE i = 2
    BY <1>1, <2>1, <2>2
  <2>3. CASE i # 2
    <3>1. i - 1 \in DOMAIN chain \ {1} /\ longer[i - 1] = chain[(i - 1) - 1]
      BY <1>1, <2>1, <2>3
    <3> QED BY <2>1, <3>1 DEF Chained
  <2> QED BY <2>2, <2>3
<1>3. longer[Len(longer)].to = target
  <2>1. CASE chain = <<>>
    BY <1>1, <2>1
  <2>2. CASE chain # <<>>
    <3>1. Len(chain) # 0
      BY <2>2
    <3>2. longer[Len(longer)] = chain[Len(chain)]
      BY <1>1, <3>1
    <3> QED BY <2>2, <3>2 DEF Chained
  <2> QED BY <2>1, <2>2
<1> QED BY <1>2, <1>3 DEF longer, Chained

LEMMA TailIsChained ==
  ASSUME NEW chain \in Seq(Blob), chain # <<>>, NEW target, Chained(chain, target)
  PROVE  /\ Chained(Tail(chain), target)
         /\ Head(chain) = chain[1]
         /\ Tail(chain) = <<>> => chain[1].to = target
         /\ Tail(chain) # <<>> => Delta(Tail(chain)[1]) /\ Tail(chain)[1].to = chain[1].to + 1
<1> DEFINE tail == Tail(chain)
<1>1. /\ Len(chain) \in Nat /\ Len(chain) >= 1 /\ Len(tail) = Len(chain) - 1
      /\ DOMAIN tail = 1..(Len(chain) - 1) /\ DOMAIN chain = 1..Len(chain)
      /\ \A i \in DOMAIN tail : tail[i] = chain[i + 1]
      /\ Head(chain) = chain[1] /\ tail \in Seq(Blob)
  OBVIOUS
<1>2. tail = <<>> <=> Len(chain) = 1
  BY <1>1
<1> HIDE DEF tail
<1>3. ASSUME NEW i \in DOMAIN tail \ {1}
      PROVE  Delta(tail[i]) /\ tail[i].to = tail[i - 1].to + 1
  <2>1. i + 1 \in DOMAIN chain \ {1} /\ i - 1 \in DOMAIN tail /\ (i + 1) - 1 = (i - 1) + 1
        /\ i \in DOMAIN tail
    BY <1>1
  <2>2. tail[i] = chain[i + 1] /\ tail[i - 1] = chain[(i + 1) - 1]
    BY <1>1, <2>1
  <2> QED BY <2>1, <2>2 DEF Chained
<1>4. ASSUME tail # <<>>
      PROVE  tail[Len(tail)].to = target /\ Delta(tail[1]) /\ tail[1].to = chain[1].to + 1
  <2>1. /\ Len(tail) \in DOMAIN tail /\ tail[Len(tail)] = chain[Len(chain)]
        /\ tail[1] = chain[2] /\ 2 \in DOMAIN chain \ {1}
    BY <1>1, <1>2, <1>4
  <2> QED BY <2>1 DEF Chained
<1>5. tail = <<>> => chain[1].to = target
  BY <1>2 DEF Chained
<1> QED BY <1>1, <1>3, <1>4, <1>5 DEF tail, Chained

LEMMA WalkNext ==
  ASSUME HollowInv, NEW p \in Refreshers, RefreshEffect(p),
         Walk(refresher[p], readVersion, readContent)
  PROVE  Walk(refresher'[p], readVersion', readContent')
<1> DEFINE now == refresher[p]
           next == refresher'[p]
<1>1. /\ IsLocal(now)
      /\ now.chain \in Seq(Blob) /\ now.pc \in Phase
      /\ now.cur \in 0..MaxVersion /\ now.from \in 0..MaxVersion /\ now.target \in 0..MaxVersion
      /\ readVersion \in 0..MaxVersion
  BY DEF HollowInv, Sound, IsLocal
<1>2. now.fresh = TRUE /\ Chained(now.chain, now.target)
  BY DEF Walk
<1>3. ASSUME UNCHANGED readVars PROVE readVersion' = readVersion /\ readContent' = readContent
  BY <1>3 DEF readVars
<1>4. CASE next = Idle /\ UNCHANGED readVars
  BY <1>3, <1>4, IdleWalks
<1>5. CASE /\ now.pc = "begin" /\ UNCHANGED readVars
           /\ next = [now EXCEPT !.pc = "plan", !.from = readVersion, !.cur = now.target]
  <2>1. /\ next.pc = "plan" /\ next.from = readVersion /\ next.cur = next.target
        /\ next.target = now.target /\ next.chain = now.chain /\ next.fresh = TRUE
    BY <1>1, <1>2, <1>5 DEF IsLocal
  <2>2. now.chain = <<>>
    BY <1>5 DEF Walk, Applying
  <2> QED BY <1>2, <1>3, <1>5, <2>1, <2>2 DEF Walk, Applying
<1>6. ASSUME now.pc = "plan", now.cur > now.from, UNCHANGED readVars,
             NEW b \in Blob, b.to = now.cur, b.kind = "snapshot",
             next = [now EXCEPT !.pc = "apply", !.chain = <<b>> \o @]
      PROVE  Walk(next, readVersion', readContent')
  <2>1. /\ next.pc = "apply" /\ next.from = now.from /\ next.target = now.target
        /\ next.chain = <<b>> \o now.chain /\ next.fresh = TRUE
    BY <1>1, <1>2, <1>6 DEF IsLocal
  <2>2. /\ now.from = readVersion
        /\ now.chain = <<>> => b.to = now.target
        /\ now.chain # <<>> => Delta(now.chain[1]) /\ now.chain[1].to = b.to + 1
    BY <1>6 DEF Walk
  <2>3. /\ Chained(next.chain, next.target)
        /\ next.chain # <<>> /\ next.chain[1] = b
    <3>1. now.chain \in Seq(Blob)
      BY <1>1
    <3>2. Chained(<<b>> \o now.chain, now.target)
      BY <1>2, <2>2, <3>1, ConsIsChained
    <3>3. <<b>> \o now.chain # <<>> /\ (<<b>> \o now.chain)[1] = b
      BY <3>1
    <3> QED BY <2>1, <3>2, <3>3
  <2>4. next.chain[1].to > readVersion /\ ~Delta(next.chain[1])
    BY <1>6, <2>2, <2>3 DEF Delta
  <2> QED BY <1>3, <1>6, <2>1, <2>3, <2>4 DEF Walk, Applying
<1>7. ASSUME now.pc = "plan", now.cur > now.from, UNCHANGED readVars,
             NEW b \in Blob, b.to = now.cur, b.kind = "delta",
             next = [now EXCEPT !.cur = now.cur - 1, !.chain = <<b>> \o @]
      PROVE  Walk(next, readVersion', readContent')
  <2>1. /\ next.pc = "plan" /\ next.from = now.from /\ next.target = now.target
        /\ next.chain = <<b>> \o now.chain /\ next.fresh = TRUE /\ next.cur = now.cur - 1
    BY <1>1, <1>2, <1>7 DEF IsLocal
  <2>2. /\ now.from = readVersion
        /\ now.chain = <<>> => b.to = now.target
        /\ now.chain # <<>> => Delta(now.chain[1]) /\ now.chain[1].to = b.to + 1
    BY <1>7 DEF Walk
  <2>3. /\ Chained(next.chain, next.target)
        /\ next.chain # <<>> /\ next.chain[1] = b
    <3>1. now.chain \in Seq(Blob)
      BY <1>1
    <3>2. Chained(<<b>> \o now.chain, now.target)
      BY <1>2, <2>2, <3>1, ConsIsChained
    <3>3. <<b>> \o now.chain # <<>> /\ (<<b>> \o now.chain)[1] = b
      BY <3>1
    <3> QED BY <2>1, <3>2, <3>3
  <2>4. next.cur \in Int /\ next.chain[1].to = next.cur + 1 /\ Delta(next.chain[1]) /\ next.cur >= next.from
    BY <1>1, <1>7, <2>1, <2>3 DEF Delta
  <2> QED BY <1>3, <1>7, <2>1, <2>2, <2>3, <2>4 DEF Walk, Applying
<1>8. CASE /\ now.pc = "plan" /\ now.cur <= now.from /\ UNCHANGED readVars
           /\ next = [now EXCEPT !.pc = "apply"]
  <2>1. /\ next.pc = "apply" /\ next.from = now.from /\ next.target = now.target
        /\ next.chain = now.chain /\ next.fresh = TRUE
    BY <1>1, <1>2, <1>8 DEF IsLocal
  <2>2. /\ now.from = readVersion
        /\ now.chain = <<>> => now.cur = now.target
        /\ now.chain # <<>> => /\ Delta(now.chain[1]) /\ now.chain[1].to = now.cur + 1
                               /\ now.cur >= now.from
    BY <1>8 DEF Walk
  <2>3. /\ now.chain = <<>> => ~(now.target > now.from)
        /\ now.chain # <<>> => now.chain[1].to = readVersion + 1 /\ now.chain[1].to > readVersion
    BY <1>1, <1>8, <2>2
  <2> QED BY <1>2, <1>3, <1>8, <2>1, <2>3 DEF Walk, Applying
<1>9. CASE /\ now.pc = "apply" /\ now.chain # <<>> /\ UNCHANGED readVars
           /\ Head(now.chain).kind = "delta"
           /\ next = [now EXCEPT !.pc = "loaded", !.held = readContent]
  <2>1. /\ next.pc = "loaded" /\ next.from = now.from /\ next.target = now.target
        /\ next.chain = now.chain /\ next.fresh = TRUE /\ next.held = readContent
    BY <1>1, <1>2, <1>9 DEF IsLocal
  <2>2. Delta(now.chain[1])
    BY <1>1, <1>9, TailOfChain DEF Delta
  <2> QED BY <1>2, <1>3, <1>9, <2>1, <2>2 DEF Walk, Applying
<1>10. CASE now.pc = "loaded" /\ UNCHANGED readVars /\ next = [now EXCEPT !.pc = "valid"]
  <2>1. /\ next.pc = "valid" /\ next.from = now.from /\ next.target = now.target
        /\ next.chain = now.chain /\ next.fresh = TRUE /\ next.held = now.held
    BY <1>1, <1>2, <1>10 DEF IsLocal
  <2> QED BY <1>2, <1>3, <1>10, <2>1 DEF Walk, Applying
<1>11. ASSUME now.pc \in {"loaded", "valid"}, UNCHANGED readVars,
              NEW base, ~now.fresh \/ base = now.held,
              next = [now EXCEPT !.pc = "copied", !.base = base]
       PROVE  Walk(next, readVersion', readContent')
  <2>1. /\ next.pc = "copied" /\ next.from = now.from /\ next.target = now.target
        /\ next.chain = now.chain /\ next.fresh = TRUE /\ next.held = now.held
        /\ next.base = now.held
    BY <1>1, <1>2, <1>11 DEF IsLocal
  <2> QED BY <1>2, <1>3, <1>11, <2>1 DEF Walk, Applying
<1>12. ASSUME ~now.fresh PROVE FALSE
  BY <1>2, <1>12
<1>13. CASE /\ now.pc \in {"apply", "copied"} /\ now.chain # <<>>
            /\ readVersion' = Head(now.chain).to
            /\ next = [now EXCEPT !.pc = "apply", !.chain = Tail(@),
                         !.held = NoContent, !.fresh = TRUE, !.base = NoContent]
  <2>1. /\ next.pc = "apply" /\ next.from = now.from /\ next.target = now.target
        /\ next.chain = Tail(now.chain) /\ next.fresh = TRUE
    BY <1>1, <1>13 DEF IsLocal
  <2>2. /\ Chained(Tail(now.chain), now.target) /\ Head(now.chain) = now.chain[1]
        /\ Tail(now.chain) = <<>> => now.chain[1].to = now.target
        /\ Tail(now.chain) # <<>> =>
             Delta(Tail(now.chain)[1]) /\ Tail(now.chain)[1].to = now.chain[1].to + 1
    BY <1>1, <1>2, <1>13, TailIsChained
  <2>3. Head(now.chain).to \in Nat
    <3>1. Head(now.chain) \in Blob
      BY <1>1, <1>13, TailOfChain
    <3> QED BY <3>1 DEF Blob, Versions
  <2>4. /\ next.chain = <<>> => readVersion' = next.target
        /\ next.chain # <<>> => /\ next.chain[1].to = readVersion' + 1
                                /\ next.chain[1].to > readVersion'
    BY <1>13, <2>1, <2>2, <2>3
  <2> QED BY <2>1, <2>2, <2>4 DEF Walk, Applying
<1> HIDE DEF next
<1> QED
  BY <1>4, <1>5, <1>6, <1>7, <1>8, <1>9, <1>10, <1>11, <1>12, <1>13 DEF RefreshEffect, next

LEMMA LoneStep ==
  ASSUME "restoreRace" \notin Events, OneRefresher
  PROVE  LoneInv /\ [HollowNext]_hollowVars => LoneInv'
<1> SUFFICES ASSUME LoneInv, [HollowNext]_hollowVars PROVE LoneInv'
  OBVIOUS
<1>1. HollowInv /\ HollowInv'
  BY HollowIsWide, WideKeepsHollowInv DEF HollowInv, LoneInv
<1>2. /\ refresher = [q \in Refreshers |-> refresher[q]]
      /\ setup.refreshers # Refreshers /\ setup.refreshers \subseteq Refreshers
  BY <1>1, HollowAssumption DEF HollowInv, OneRefresher
<1>3. ASSUME UNCHANGED <<refresher, readVars, setup>> PROVE LoneInv'
  BY <1>1, <1>3 DEF LoneInv, readVars
<1>4. ASSUME NEW p \in setup.refreshers, setup' = setup,
             \A q \in Refreshers : q # p /\ refresher[q] = Idle => refresher'[q] = Idle,
             Walk(refresher'[p], readVersion', readContent')
      PROVE  LoneInv'
  <2>1. p \in Refreshers /\ \A q \in Refreshers : q # p => q \notin setup.refreshers
    BY <1>2 DEF Refreshers
  <2>2. \A q \in Refreshers : q # p => refresher'[q] = Idle
    BY <1>4, <2>1 DEF LoneInv
  <2>3. \A q \in Refreshers : q \notin setup.refreshers' => refresher'[q] = Idle
    BY <1>4, <2>1, <2>2
  <2>4. \A q \in Refreshers : Walk(refresher'[q], readVersion', readContent')
    BY <1>4, <2>2, IdleWalks
  <2> QED BY <1>1, <2>3, <2>4 DEF LoneInv
(* A refresh begins. *)
<1>5. ASSUME NEW p \in setup.refreshers, NEW v,
             Goto(p, [Idle EXCEPT !.pc = "begin", !.target = v]), UNCHANGED <<readVars, setup>>
      PROVE  LoneInv'
  <2>1. p \in Refreshers
    BY <1>2
  <2>2. /\ refresher'[p] = [Idle EXCEPT !.pc = "begin", !.target = v]
        /\ \A q \in Refreshers : q # p => refresher'[q] = refresher[q]
    BY <1>2, <1>5, <2>1, GotoOnly
  <2>3. /\ refresher'[p].pc = "begin" /\ refresher'[p].fresh = TRUE
        /\ refresher'[p].chain = <<>> /\ refresher'[p].target = v
    BY <2>2 DEF Idle
  <2>4. Walk(refresher'[p], readVersion', readContent')
    BY <2>3 DEF Walk, Chained, Applying
  <2> QED BY <1>4, <1>5, <2>2, <2>4
<1>6. ASSUME NEW p \in Refreshers, RefreshStep(p) PROVE LoneInv'
  <2>1. /\ UNCHANGED <<vars, feedVars, setup>>
        /\ RefreshEffect(p)
        /\ \A q \in Refreshers : q # p =>
             refresher'[q] \in {refresher[q], [refresher[q] EXCEPT !.fresh = FALSE]}
    BY <1>1, <1>6, RefreshHasEffect
  <2>2. refresher[p] # Idle
    <3>1. refresher[p].pc # "idle"
      BY <1>6 DEF RefreshStep, SkipRefresh, BeginRefresh, PlanSnapshot, PlanDelta, PlanGap,
                  PlanReached, LoadSnapshot, LoadDelta, DecodeFails, SeesValid,
                  SeesInvalidated, CopyState, CopyPanics, FinishDelta, FinishRefresh, NextBlobIs
    <3> QED BY <3>1 DEF Idle
  <2>3. p \in setup.refreshers
    BY <2>2 DEF LoneInv
  <2>4. Walk(refresher'[p], readVersion', readContent')
    BY <1>1, <2>1, WalkNext DEF LoneInv
  <2>5. ASSUME NEW q \in Refreshers, q # p, refresher[q] = Idle PROVE refresher'[q] = Idle
    <3>1. ASSUME NEW local, Goto(p, local) PROVE refresher'[q] = Idle
      BY <1>2, <2>5, <3>1, GotoOnly
    <3>2. ASSUME NEW v, NEW content, SetCurrentState(p, v, content) PROVE refresher'[q] = Idle
      <4>1. ~Holds(q)
        BY <2>5 DEF Holds, Idle
      <4> QED BY <2>5, <3>2, <4>1 DEF SetCurrentState
    <3>3. CASE CopyPanics(p)
      BY <2>5, <3>3 DEF CopyPanics
    <3> QED
      BY <1>6, <3>1, <3>2, <3>3
         DEF RefreshStep, SkipRefresh, BeginRefresh, PlanSnapshot, PlanDelta, PlanGap,
             PlanReached, LoadSnapshot, LoadDelta, DecodeFails, SeesValid, SeesInvalidated,
             CopyState, FinishDelta, FinishRefresh
  <2> QED BY <1>4, <2>1, <2>3, <2>4, <2>5
<1>7. CASE UNCHANGED hollowVars
  BY <1>3, <1>7 DEF hollowVars, consumerVars
<1>8. CASE ProducerStep \/ Unpin \/ Subscribe
  BY <1>3, <1>8 DEF ProducerStep, Unpin, Subscribe, consumerVars
<1>9. ASSUME NEW v \in Versions, Pin(v) PROVE LoneInv'
  BY <1>3, <1>9 DEF Pin, consumerVars
<1>10. ASSUME NEW v \in Versions, RequestVersion(v) PROVE LoneInv'
  BY <1>5, <1>10 DEF RequestVersion
<1>11. CASE TriggerRefresh
  BY <1>5, <1>11 DEF TriggerRefresh
<1>12. CASE Receive
  BY <1>5, <1>12 DEF Receive
<1> QED BY <1>6, <1>7, <1>8, <1>9, <1>10, <1>11, <1>12 DEF HollowNext

LEMMA LoneInvariant ==
  ASSUME "restoreRace" \notin Events, OneRefresher
  PROVE  HollowSpec => []LoneInv
  BY LoneInit, LoneStep, PTL DEF HollowSpec

(***************************************************************************)
(* TriggerRefreshTo returns nil for a newer version only when the consumer *)
(* stands at it: for a consumer with one refresher, whatever the producer  *)
(* publishes, fails to publish or restores in the meantime.                *)
(***************************************************************************)
THEOREM RefreshReaches ==
  ASSUME "restoreRace" \notin Events, OneRefresher
  PROVE  HollowSpec => RefreshReachesTarget
<1>1. LoneInv /\ [HollowNext]_hollowVars =>
        [\A p \in Refreshers :
           FinishRefresh(p) /\ refresher[p].target > refresher[p].from
             => readVersion = refresher[p].target]_hollowVars
  BY DEF LoneInv, Walk, FinishRefresh, Applying
<1> QED BY <1>1, LoneInvariant, PTL DEF HollowSpec, RefreshReachesTarget

(* A refresh never takes such a consumer back, nor does it crash it. *)
LEMMA RefreshAdvances ==
  ASSUME LoneInv, NEW p \in Refreshers, RefreshStep(p)
  PROVE  readVersion' >= readVersion /\ panicked' = panicked
<1>1. /\ HollowInv /\ Walk(refresher[p], readVersion, readContent)
      /\ IsLocal(refresher[p]) /\ readVersion \in Nat
  BY BoundsAssumption DEF LoneInv, HollowInv, Sound
<1>2. ASSUME NEW v, NEW content, SetCurrentState(p, v, content),
             refresher[p].pc \in {"apply", "copied"}, refresher[p].chain # <<>>,
             v = Head(refresher[p].chain).to
      PROVE  readVersion' >= readVersion
  <2>1. refresher[p].chain \in Seq(Blob)
    BY <1>1 DEF IsLocal
  <2>2. Head(refresher[p].chain) = refresher[p].chain[1] /\ v \in Nat
    <3>1. Head(refresher[p].chain) \in Blob /\ Head(refresher[p].chain) = refresher[p].chain[1]
      BY <1>2, <2>1, TailOfChain
    <3> QED BY <1>2, <3>1 DEF Blob, Versions
  <2>3. v > readVersion
    BY <1>1, <1>2, <2>2 DEF Walk, Applying
  <2> QED BY <1>1, <1>2, <2>2, <2>3 DEF SetCurrentState
<1>3. CASE LoadSnapshot(p)
  BY <1>2, <1>3 DEF LoadSnapshot, NextBlobIs
<1>4. CASE FinishDelta(p)
  <2>1. refresher[p].chain # <<>>
    BY <1>4 DEF FinishDelta, LoneInv, HollowInv, Sound
  <2> QED BY <1>2, <1>4, <2>1 DEF FinishDelta
<1>5. CASE CopyPanics(p)
  BY <1>1, <1>5 DEF CopyPanics, Walk
<1> QED
  BY <1>1, <1>3, <1>4, <1>5
     DEF RefreshStep, SkipRefresh, BeginRefresh, PlanSnapshot, PlanDelta, PlanGap,
         PlanReached, LoadDelta, DecodeFails, SeesValid, SeesInvalidated, CopyState,
         FinishRefresh, readVars

LEMMA LoneAdvances ==
  ASSUME LoneInv, [HollowNext]_hollowVars
  PROVE  readVersion' >= readVersion /\ panicked' = panicked
<1>1. readVersion \in Nat
  BY BoundsAssumption DEF LoneInv, HollowInv
<1>2. ASSUME readVersion' = readVersion PROVE readVersion' >= readVersion
  BY <1>1, <1>2
<1>3. CASE \E p \in Refreshers : RefreshStep(p)
  BY <1>3, RefreshAdvances
<1>4. CASE ProducerStep \/ (\E v \in Versions : Pin(v)) \/ Unpin \/ Subscribe \/ UNCHANGED hollowVars
  BY <1>2, <1>4 DEF ProducerStep, Pin, Unpin, Subscribe, hollowVars, consumerVars, readVars
<1>5. CASE (\E v \in Versions : RequestVersion(v)) \/ TriggerRefresh \/ Receive
  BY <1>2, <1>5 DEF RequestVersion, TriggerRefresh, Receive, readVars
<1> QED BY <1>3, <1>4, <1>5 DEF HollowNext

(***************************************************************************)
(* SetCurrentState never takes the consumer back to an older version where *)
(* only one refresh at a time plans from the version it stands at.         *)
(***************************************************************************)
THEOREM LoneNeverRegresses ==
  ASSUME "restoreRace" \notin Events, OneRefresher
  PROVE  HollowSpec => NeverRegresses
<1>1. LoneInv /\ [HollowNext]_hollowVars => [readVersion' >= readVersion]_hollowVars
  BY LoneAdvances
<1> QED BY <1>1, LoneInvariant, PTL DEF HollowSpec, NeverRegresses

(***************************************************************************)
(* GetAllData only panics where two refreshes race.                        *)
(***************************************************************************)
THEOREM LoneNeverPanics ==
  ASSUME "restoreRace" \notin Events, OneRefresher
  PROVE  HollowSpec => []NoPanic
<1>1. HollowInit => NoPanic
  BY DEF HollowInit, NoPanic
<1>2. LoneInv /\ NoPanic /\ [HollowNext]_hollowVars => NoPanic'
  BY LoneAdvances DEF NoPanic
<1> QED BY <1>1, <1>2, LoneInvariant, PTL DEF HollowSpec

-----------------------------------------------------------------------------
(***************************************************************************)
(* What the versions read stand for.  A consumer that reads with the       *)
(* zero-copy serializer either understands a blob or reports an error;     *)
(* the other serializers read some deltas as empty ones.                   *)
(***************************************************************************)
ZeroCopyReaders == \A s \in Setups : s.reader = "zerocopy"

Entries == [v \in 0..MaxVersion |-> ContentOf(v)]

(* The bytes a blob of the chain holds, given what every version is.       *)
BlobIsTrue(b, writer, entries) ==
  b.data = IF Delta(b)
           THEN SerializeDelta(writer, DeltaOfPlain(entries[b.to - 1], entries[b.to]))
           ELSE Serialize(writer, entries[b.to])

TrueLocal(r, writer, entries) ==
  /\ \A i \in DOMAIN r.chain : BlobIsTrue(r.chain[i], writer, entries)
  /\ r.pc \in {"loaded", "valid", "copied"} => CanDeserializeDelta("zerocopy", r.chain[1].data)

ReplicaInv ==
  /\ LoneInv
  /\ LogInv
  /\ readContent = Entries[readVersion]
  /\ \A p \in Refreshers : TrueLocal(refresher[p], setup.writer, Entries)

LEMMA SnapshotReads ==
  ASSUME NEW writer, NEW c, CanDeserialize("zerocopy", Serialize(writer, c))
  PROVE  Deserialize("zerocopy", Serialize(writer, c)) = c
  BY DEF CanDeserialize, Deserialize, Serialize, ReadMode, Hybrids

LEMMA DeltaReads ==
  ASSUME NEW writer, NEW d, CanDeserializeDelta("zerocopy", SerializeDelta(writer, d))
  PROVE  DeserializeDelta("zerocopy", SerializeDelta(writer, d)) = d
  BY DEF CanDeserializeDelta, DeserializeDelta, SerializeDelta, ReadMode, Hybrids

LEMMA EntriesAreContents ==
  ASSUME LogInv
  PROVE  /\ Entries[0] = NoContent
         /\ \A v \in Available : Entries[v] \in Contents /\ Entries[v] = ContentOf(v)
         /\ \A v \in Available : v - 1 = 0 \/ v - 1 \in Available
         /\ \A v \in Available : v \in 0..MaxVersion /\ v - 1 \in 0..MaxVersion /\ v \in 1..LogLength
         /\ LogLength \in 0..MaxVersion
<1>1. \A v \in Available : /\ v \in Versions /\ v \in 0..MaxVersion /\ v - 1 \in 0..MaxVersion
                           /\ v \in Nat /\ v > 0
  BY BoundsAssumption DEF Available, Versions
<1>2. \A v \in Available : Entries[v] = ContentOf(v) /\ ContentOf(v) \in Contents
  BY <1>1, PublishedIsContent DEF Available, Entries, LogInv
<1>3. Entries[0] = NoContent
  BY BoundsAssumption DEF Entries, ContentOf
<1>4. LogLength \in 0..MaxVersion
  BY LogFacts DEF LogInv
<1>5. \A v \in Available : v \in 1..LogLength
  BY <1>1, <1>4 DEF LogInv, PublishedInv, EndInv, Available
<1>6. ASSUME NEW v \in Available PROVE v - 1 = 0 \/ v - 1 \in Available
  <2>1. v - 1 = 0 \/ v - 1 \in 1..v
    BY <1>1
  <2>2. \A u \in 1..v : Stored(u)
    BY LogFacts DEF LogInv, Available, NoGaps
  <2>3. v - 1 = 0 \/ v - 1 \in Versions
    BY <1>1 DEF Versions
  <2> QED BY <2>1, <2>2, <2>3 DEF Available
<1> QED BY <1>1, <1>2, <1>3, <1>4, <1>5, <1>6

(* What planning finds in the store. *)
LEMMA StoredIsTrue ==
  ASSUME ReplicaInv, NEW b \in Blob, b.to \in Available,
         \/ /\ b.kind = "snapshot" /\ b.data = SnapshotBytes(b.to) /\ snapshots[b.to] # NoBlob
         \/ /\ b.kind = "delta" /\ b.data = DeltaBytes(b.to - 1)
            /\ snapshots[b.to] = NoBlob /\ deltas[b.to - 1] # NoBlob
  PROVE  BlobIsTrue(b, setup.writer, Entries)
<1>1. /\ Entries[b.to] = ContentOf(b.to) /\ b.to # 0 /\ b.to \in Versions
      /\ b.to - 1 \in FromVersions /\ Entries[b.to - 1] = ContentOf(b.to - 1)
  <2>1. b.to \in 1..MaxVersion /\ b.to - 1 \in 0..(MaxVersion - 1) /\ b.to - 1 \in 0..MaxVersion
    BY BoundsAssumption DEF Available, Versions
  <2> QED BY <2>1 DEF Entries, Versions, FromVersions
<1>2. CASE b.kind = "snapshot" /\ b.data = SnapshotBytes(b.to) /\ snapshots[b.to] # NoBlob
  BY <1>1, <1>2 DEF BlobIsTrue, Delta, SnapshotBytes, ContentOf
<1>3. CASE /\ b.kind = "delta" /\ b.data = DeltaBytes(b.to - 1)
           /\ snapshots[b.to] = NoBlob /\ deltas[b.to - 1] # NoBlob
  <2>1. deltas[b.to - 1].base = ContentOf(b.to - 1)
    BY <1>1, <1>3 DEF ReplicaInv, LogInv, DeltaBaseSound
  <2>2. deltas[b.to - 1].target = ContentOf(b.to)
    BY <1>1, <1>3 DEF ContentOf
  <2> QED BY <1>1, <1>3, <2>1, <2>2 DEF BlobIsTrue, Delta, DeltaBytes
<1> QED BY <1>2, <1>3

LEMMA RefreshKeepsReplica ==
  ASSUME ReplicaInv, ZeroCopyReaders, DeltasApply, NEW p \in Refreshers, RefreshEffect(p)
  PROVE  /\ readContent' = Entries[readVersion']
         /\ TrueLocal(refresher'[p], setup.writer, Entries)
<1> DEFINE now == refresher[p]
           next == refresher'[p]
           w == setup.writer
<1>1. /\ IsLocal(now) /\ Sound(p, now, Available) /\ Walk(now, readVersion, readContent)
      /\ now.chain \in Seq(Blob)
      /\ TrueLocal(now, w, Entries)
      /\ \A i \in DOMAIN now.chain : BlobIsTrue(now.chain[i], w, Entries)
      /\ readContent = Entries[readVersion]
      /\ setup.reader = "zerocopy"
      /\ now.fresh = TRUE
  BY DEF ReplicaInv, LoneInv, HollowInv, Sound, IsLocal, TrueLocal, Walk, ZeroCopyReaders
<1>2. ASSUME UNCHANGED readVars PROVE readContent' = Entries[readVersion']
  BY <1>1, <1>2 DEF readVars
<1>3. ASSUME next.chain = now.chain,
             next.pc \in {"loaded", "valid", "copied"} =>
               CanDeserializeDelta("zerocopy", now.chain[1].data)
      PROVE  TrueLocal(next, w, Entries)
  BY <1>1, <1>3 DEF TrueLocal
<1>4. CASE next = Idle /\ UNCHANGED readVars
  BY <1>2, <1>4 DEF TrueLocal, Idle
<1>5. CASE /\ UNCHANGED readVars
           /\ \/ next = [now EXCEPT !.pc = "plan", !.from = readVersion, !.cur = now.target]
              \/ next = [now EXCEPT !.pc = "apply"]
  <2>1. next.chain = now.chain /\ next.pc \in {"plan", "apply"}
    BY <1>1, <1>5 DEF IsLocal
  <2> QED BY <1>2, <1>3, <1>5, <2>1
<1>6. ASSUME UNCHANGED readVars, NEW b \in Blob, now.pc = "plan", BlobIsTrue(b, w, Entries),
             \/ next = [now EXCEPT !.pc = "apply", !.chain = <<b>> \o @]
             \/ next = [now EXCEPT !.cur = now.cur - 1, !.chain = <<b>> \o @]
      PROVE  TrueLocal(next, w, Entries)
  <2>1. next.chain = <<b>> \o now.chain /\ next.pc \in {"plan", "apply"}
    BY <1>1, <1>6 DEF IsLocal
  <2> DEFINE longer == <<b>> \o now.chain
  <2>2. \A i \in DOMAIN longer :
          longer[i] = b \/ (i - 1 \in DOMAIN now.chain /\ longer[i] = now.chain[i - 1])
    BY <1>1, ConsChain
  <2>3. \A i \in DOMAIN longer : BlobIsTrue(longer[i], w, Entries)
    <3> HIDE DEF longer, w
    <3> QED BY <1>1, <1>6, <2>2
  <2> QED BY <2>1, <2>3 DEF TrueLocal
<1>7. CASE /\ UNCHANGED readVars /\ now.chain # <<>>
           /\ CanDeserializeDelta(setup.reader, Head(now.chain).data)
           /\ next = [now EXCEPT !.pc = "loaded", !.held = readContent]
  <2>1. next.chain = now.chain /\ Head(now.chain) = now.chain[1]
    BY <1>1, <1>7 DEF IsLocal
  <2> QED BY <1>1, <1>2, <1>3, <1>7, <2>1
<1>8. CASE /\ now.pc \in {"loaded", "valid"} /\ UNCHANGED readVars
           /\ \/ next = [now EXCEPT !.pc = "valid"]
              \/ \E base : next = [now EXCEPT !.pc = "copied", !.base = base]
  <2>1. next.chain = now.chain
    BY <1>1, <1>8 DEF IsLocal
  <2>2. CanDeserializeDelta("zerocopy", now.chain[1].data)
    BY <1>1, <1>8 DEF TrueLocal
  <2> QED BY <1>2, <1>3, <1>8, <2>1, <2>2
<1>9. CASE /\ now.pc \in {"apply", "copied"} /\ now.chain # <<>>
           /\ readVersion' = Head(now.chain).to
           /\ \/ /\ now.pc = "apply" /\ Head(now.chain).kind = "snapshot"
                 /\ CanDeserialize(setup.reader, Head(now.chain).data)
                 /\ readContent' = Deserialize(setup.reader, Head(now.chain).data)
              \/ /\ now.pc = "copied"
                 /\ readContent' =
                      ApplyDelta(now.base, DeserializeDelta(setup.reader, Head(now.chain).data))
           /\ next = [now EXCEPT !.pc = "apply", !.chain = Tail(@),
                        !.held = NoContent, !.fresh = TRUE, !.base = NoContent]
  <2> DEFINE b == Head(now.chain)
  <2>1. /\ b \in Blob /\ b = now.chain[1] /\ 1 \in DOMAIN now.chain
        /\ \A i \in DOMAIN Tail(now.chain) :
             i + 1 \in DOMAIN now.chain /\ Tail(now.chain)[i] = now.chain[i + 1]
    BY <1>1, <1>9, TailOfChain
  <2>2. BlobIsTrue(b, w, Entries) /\ b.to \in Available
    <3>1. \A i \in DOMAIN now.chain : now.chain[i].to \in Available
      BY <1>1 DEF Sound
    <3> HIDE DEF b
    <3> QED BY <1>1, <2>1, <3>1
  <2>3. next.chain = Tail(now.chain) /\ next.pc = "apply"
    BY <1>1, <1>9 DEF IsLocal
  <2>4. TrueLocal(next, w, Entries)
    <3>1. \A i \in DOMAIN Tail(now.chain) : BlobIsTrue(Tail(now.chain)[i], w, Entries)
      BY <1>1, <2>1
    <3> QED BY <2>3, <3>1 DEF TrueLocal
  <2>5. CASE /\ b.kind = "snapshot" /\ CanDeserialize("zerocopy", b.data)
             /\ readContent' = Deserialize("zerocopy", b.data)
    <3>1. b.data = Serialize(w, Entries[b.to])
      BY <2>2, <2>5 DEF BlobIsTrue, Delta
    <3> QED BY <1>9, <2>4, <2>5, <3>1, SnapshotReads
  <2>6. CASE /\ now.pc = "copied"
             /\ readContent' = ApplyDelta(now.base, DeserializeDelta("zerocopy", b.data))
    <3>1. /\ Delta(b) /\ CanDeserializeDelta("zerocopy", b.data)
          /\ now.base = readContent /\ b.to = readVersion + 1
      BY <1>1, <1>9, <2>1, <2>6 DEF Walk, Applying, TrueLocal
    <3>2. b.to - 1 = readVersion
      BY <3>1 DEF ReplicaInv, LoneInv, HollowInv
    <3>3. b.data = SerializeDelta(w, DeltaOfPlain(readContent, Entries[b.to]))
      BY <1>1, <2>2, <3>1, <3>2 DEF BlobIsTrue
    <3>4. readContent' = ApplyDelta(readContent, DeltaOfPlain(readContent, Entries[b.to]))
      BY <2>6, <3>1, <3>3, DeltaReads
    <3>5. readContent \in States /\ Entries[b.to] \in Contents
      BY <1>1, <2>2, <3>2, EntriesAreContents DEF ReplicaInv, States
    <3> QED BY <1>9, <2>4, <3>4, <3>5 DEF DeltasApply
  <2> QED BY <1>1, <1>9, <2>5, <2>6
<1>10. ASSUME now.pc = "plan", now.cur > now.from, UNCHANGED readVars,
              NEW b \in Blob, b.to = now.cur, b.to \in Available,
              \/ /\ snapshots[now.cur] # NoBlob /\ b.kind = "snapshot"
                 /\ b.data = SnapshotBytes(now.cur)
              \/ /\ snapshots[now.cur] = NoBlob /\ deltas[now.cur - 1] # NoBlob
                 /\ b.kind = "delta" /\ b.data = DeltaBytes(now.cur - 1)
       PROVE  BlobIsTrue(b, w, Entries)
  BY <1>10, StoredIsTrue
<1>11. ASSUME ~now.fresh PROVE FALSE
  BY <1>1, <1>11
<1> HIDE DEF next, w
<1> QED
  BY <1>2, <1>4, <1>5, <1>6, <1>7, <1>8, <1>9, <1>10, <1>11 DEF RefreshEffect, next, w

(* A step the consumer's refreshes do not take part in. *)
LEMMA ReadsRest ==
  ASSUME ReplicaInv, QuietEnvironment, [Next]_vars,
         UNCHANGED <<readVars, refresher, setup>>
  PROVE  /\ readContent' = Entries'[readVersion']
         /\ \A p \in Refreshers : TrueLocal(refresher'[p], setup'.writer, Entries')
<1>1. /\ LogInv /\ HollowInv
      /\ readVersion \in 0..MaxVersion /\ (readVersion > 0 => readVersion \in Available)
      /\ readContent = Entries[readVersion]
  BY DEF ReplicaInv, LoneInv, HollowInv
<1>2. ASSUME NEW v \in Available PROVE Entries'[v] = Entries[v]
  <2>1. v \in Versions /\ Stored(v) /\ v \in 0..MaxVersion
    BY <1>1, EntriesAreContents DEF Available
  <2>2. ContentOf(v)' = ContentOf(v)
    BY <1>1, <2>1, PublishedStays, QuietIsLasting DEF LogInv
  <2> QED BY <2>1, <2>2 DEF Entries
<1>3. Entries'[0] = Entries[0]
  BY BoundsAssumption DEF Entries, ContentOf
<1>4. readContent' = Entries'[readVersion']
  BY <1>1, <1>2, <1>3 DEF readVars
<1>5. ASSUME NEW p \in Refreshers PROVE TrueLocal(refresher[p], setup.writer, Entries')
  <2>1. /\ \A i \in DOMAIN refresher[p].chain : refresher[p].chain[i].to \in Available
        /\ TrueLocal(refresher[p], setup.writer, Entries)
    BY <1>1 DEF HollowInv, Sound, ReplicaInv
  <2>2. ASSUME NEW i \in DOMAIN refresher[p].chain
        PROVE  BlobIsTrue(refresher[p].chain[i], setup.writer, Entries')
    <3> DEFINE v == refresher[p].chain[i].to
    <3>1. v \in Available /\ BlobIsTrue(refresher[p].chain[i], setup.writer, Entries)
      BY <2>1 DEF TrueLocal
    <3>2. v - 1 = 0 \/ v - 1 \in Available
      BY <1>1, <3>1, EntriesAreContents
    <3>3. Entries'[v] = Entries[v] /\ Entries'[v - 1] = Entries[v - 1]
      BY <1>2, <1>3, <3>1, <3>2
    <3> QED BY <3>1, <3>3 DEF BlobIsTrue
  <2> QED BY <2>1, <2>2 DEF TrueLocal
<1> QED BY <1>4, <1>5

LEMMA ReplicaStep ==
  ASSUME QuietEnvironment, OneRefresher, ZeroCopyReaders, DeltasApply
  PROVE  ReplicaInv /\ [HollowNext]_hollowVars => ReplicaInv'
<1> SUFFICES ASSUME ReplicaInv, [HollowNext]_hollowVars PROVE ReplicaInv'
  OBVIOUS
<1>1. "restoreRace" \notin Events
  BY DEF QuietEnvironment
<1>2. LoneInv /\ LoneInv' /\ HollowInv
  BY <1>1, LoneStep DEF ReplicaInv, LoneInv
<1>3. [Next]_vars
  BY DEF HollowNext, ProducerStep, Next, CycleStep, Pin, RequestVersion, Unpin, Subscribe,
         TriggerRefresh, Receive, RefreshStep, SkipRefresh, BeginRefresh, PlanSnapshot,
         PlanDelta, PlanGap, PlanReached, LoadSnapshot, LoadDelta, DecodeFails, SeesValid,
         SeesInvalidated, CopyState, CopyPanics, FinishDelta, FinishRefresh, hollowVars
<1>4. LogInv'
  BY <1>3, LogStep DEF ReplicaInv
<1>5. ASSUME readContent' = Entries'[readVersion'],
             \A p \in Refreshers : TrueLocal(refresher'[p], setup'.writer, Entries')
      PROVE  ReplicaInv'
  BY <1>2, <1>4, <1>5 DEF ReplicaInv
<1>6. CASE UNCHANGED hollowVars \/ ProducerStep \/ Unpin \/ Subscribe
  BY <1>3, <1>5, <1>6, ReadsRest DEF hollowVars, consumerVars, ProducerStep, Unpin, Subscribe
<1>7. ASSUME NEW v \in Versions, Pin(v) PROVE ReplicaInv'
  BY <1>3, <1>5, <1>7, ReadsRest DEF Pin, consumerVars
<1>8. UNCHANGED vars => Entries' = Entries
  BY DEF vars, storeVars, Entries, ContentOf
<1>9. ASSUME NEW p \in Refreshers, NEW v, UNCHANGED <<vars, readVars, setup>>,
             Goto(p, [Idle EXCEPT !.pc = "begin", !.target = v])
      PROVE  ReplicaInv'
  <2>1. /\ refresher'[p] = [Idle EXCEPT !.pc = "begin", !.target = v]
        /\ \A q \in Refreshers : q # p => refresher'[q] = refresher[q]
    BY <1>2, <1>9, GotoOnly DEF HollowInv
  <2>2. TrueLocal(refresher'[p], setup.writer, Entries)
    <3>1. refresher'[p].chain = <<>> /\ refresher'[p].pc = "begin"
      BY <2>1 DEF Idle
    <3> QED BY <3>1 DEF TrueLocal
  <2>3. \A q \in Refreshers : TrueLocal(refresher'[q], setup.writer, Entries)
    BY <2>1, <2>2 DEF ReplicaInv
  <2> QED BY <1>5, <1>8, <1>9, <2>3 DEF ReplicaInv, readVars
<1>10. CASE (\E v \in Versions : RequestVersion(v)) \/ TriggerRefresh
  BY <1>9, <1>10 DEF RequestVersion, TriggerRefresh, Refreshers
<1>11. CASE Receive
  BY <1>9, <1>11 DEF Receive, Refreshers
<1>12. ASSUME NEW p \in Refreshers, RefreshStep(p) PROVE ReplicaInv'
  <2>1. /\ UNCHANGED <<vars, feedVars, setup>>
        /\ RefreshEffect(p)
        /\ \A q \in Refreshers : q # p =>
             refresher'[q] \in {refresher[q], [refresher[q] EXCEPT !.fresh = FALSE]}
    BY <1>2, <1>12, RefreshHasEffect
  <2>2. /\ readContent' = Entries[readVersion']
        /\ TrueLocal(refresher'[p], setup.writer, Entries)
    BY <2>1, RefreshKeepsReplica
  <2>3. ASSUME NEW q \in Refreshers, q # p
        PROVE  TrueLocal(refresher'[q], setup.writer, Entries)
    <3>1. IsLocal(refresher[q]) /\ TrueLocal(refresher[q], setup.writer, Entries)
      BY <1>2 DEF HollowInv, Sound, ReplicaInv
    <3>2. refresher'[q].chain = refresher[q].chain /\ refresher'[q].pc = refresher[q].pc
      BY <2>1, <2>3, <3>1 DEF IsLocal
    <3> QED BY <3>1, <3>2 DEF TrueLocal
  <2> QED BY <1>5, <1>8, <2>1, <2>2, <2>3
<1> QED BY <1>6, <1>7, <1>10, <1>11, <1>12 DEF HollowNext

LEMMA ReplicaStarts == HollowInit => ReplicaInv
<1> SUFFICES ASSUME HollowInit PROVE ReplicaInv
  OBVIOUS
<1>1. LoneInv /\ LogInv
  BY LoneInit, LogInit DEF HollowInit
<1>2. readContent = Entries[readVersion]
  BY <1>1, EntriesAreContents DEF HollowInit
<1>3. \A p \in Refreshers : refresher[p] = Idle
  BY DEF HollowInit
<1>4. \A p \in Refreshers : TrueLocal(refresher[p], setup.writer, Entries)
  BY <1>3 DEF TrueLocal, Idle
<1> QED BY <1>1, <1>2, <1>4 DEF ReplicaInv

LEMMA ReplicaInvariant ==
  ASSUME QuietEnvironment, OneRefresher, ZeroCopyReaders, DeltasApply
  PROVE  HollowSpec => []ReplicaInv
  BY ReplicaStarts, ReplicaStep, PTL DEF HollowSpec

(***************************************************************************)
(* A consumer that only its loop or only a caller refreshes shows, as the  *)
(* data of the version it stands at, exactly what was published as that    *)
(* version: whatever the producer publishes while blobs are planned and    *)
(* applied, whatever format it writes, and wherever versions are pinned.   *)
(***************************************************************************)
THEOREM LoneReadsArePublished ==
  ASSUME QuietEnvironment, OneRefresher, ZeroCopyReaders, DeltasApply
  PROVE  HollowSpec => []ReadsArePublished
<1>1. ReplicaInv => ReadsArePublished
  BY DEF ReplicaInv, LoneInv, HollowInv, ReadsArePublished, Entries
<1> QED BY <1>1, ReplicaInvariant, PTL

(***************************************************************************)
(* Producer, store, feed and consumer implement ReplicatedLog, in which a  *)
(* reader jumps forward along a log that only grows: RunCycle's store      *)
(* steps append to it, Announce announces its end, SetCurrentState is the  *)
(* jump and everything else of planBlobs, applyBlob and the feed a stutter.*)
(***************************************************************************)
THEOREM HollowImplementsReplicatedLog ==
  ASSUME QuietEnvironment, OneRefresher, ZeroCopyReaders, DeltasApply
  PROVE  HollowSpec => ImplementsReplicatedLog
<1>1. HollowInit => Replica!ReplicaInit
  <2> SUFFICES ASSUME HollowInit PROVE Replica!ReplicaInit
    OBVIOUS
  <2>1. TheLog = <<>> /\ announced = 0
    BY LogStarts DEF HollowInit
  <2> QED BY <2>1 DEF HollowInit, TheLog, Replica!ReplicaInit, Replica!Init
<1>2. ReplicaInv /\ ReplicaInv' /\ [HollowNext]_hollowVars
        => [Replica!ReplicaNext]_<<Replica!vars, readVersion, readContent>>
  <2> SUFFICES ASSUME ReplicaInv, ReplicaInv', [HollowNext]_hollowVars
               PROVE  \/ Replica!ReplicaNext
                      \/ /\ TheLog' = TheLog /\ announced' = announced
                         /\ readVersion' = readVersion /\ readContent' = readContent
    BY DEF TheLog, Replica!vars
  <2>1. CASE ProducerStep
    <3>1. PublishedInv /\ PublishedInv' /\ LastingEnvironment /\ [Next]_vars
      BY <2>1, QuietIsLasting DEF ReplicaInv, LogInv, ProducerStep, Next, CycleStep
    <3>2. readVersion' = readVersion /\ readContent' = readContent
      BY <2>1 DEF ProducerStep, consumerVars, readVars
    <3>3. \/ Replica!Next
          \/ TheLog' = TheLog /\ announced' = announced
      BY <3>1, LogMoves DEF TheLog, Replica!Next, Replica!Publish, Replica!Announce
    <3> QED BY <3>2, <3>3 DEF Replica!ReplicaNext
(* Everything else leaves the log alone. *)
  <2>2. ASSUME UNCHANGED vars PROVE TheLog' = TheLog /\ announced' = announced
    <3>1. UNCHANGED storeVars /\ LogLength' = LogLength /\ announced' = announced
      BY <2>2 DEF vars, LogLength, versionVars
    <3> QED BY <3>1, StoreUnchanged DEF TheLog
  <2>3. ASSUME NEW p \in Refreshers, RefreshStep(p)
        PROVE  \/ Replica!ReplicaNext
               \/ /\ TheLog' = TheLog /\ announced' = announced
                  /\ readVersion' = readVersion /\ readContent' = readContent
    <3>1. UNCHANGED vars /\ readVersion' >= readVersion
      BY <2>3, RefreshHasEffect, RefreshAdvances DEF ReplicaInv, LoneInv
    <3>2. /\ readVersion' \in 0..MaxVersion /\ readVersion \in 0..MaxVersion
          /\ (readVersion' > 0 => readVersion' \in Available')
          /\ readContent' = Entries'[readVersion'] /\ readContent = Entries[readVersion]
          /\ LogInv /\ LogInv' /\ MaxVersion \in Nat
      BY BoundsAssumption DEF ReplicaInv, LoneInv, HollowInv
    <3>3. Available' = Available /\ Entries' = Entries
      BY <3>1, StoreStays DEF vars, storeVars, Entries, ContentOf
    <3>4. CASE readVersion' = readVersion
      BY <2>2, <3>1, <3>2, <3>3, <3>4
    <3>5. CASE readVersion' > readVersion
      <4>1. readVersion' \in Available
        BY <3>2, <3>3, <3>5
      <4>2. /\ readVersion' \in 1..LogLength
            /\ Entries[readVersion'] = ContentOf(readVersion')
        <5>1. \A v \in Available : v \in 1..LogLength /\ Entries[v] = ContentOf(v)
          BY <3>2, EntriesAreContents
        <5> QED BY <4>1, <5>1
      <4>3. /\ TheLog \in Seq(Contents) /\ Len(TheLog) = LogLength /\ LogLength \in Nat
            /\ \A v \in 1..LogLength : TheLog[v] = ContentOf(v)
        BY <3>2, TheLogIsSequence, LogFacts DEF LogInv, LogShape
      <4>4. readVersion' \in (readVersion + 1)..Len(TheLog) /\ readContent' = TheLog[readVersion']
        BY <3>2, <3>3, <3>5, <4>2, <4>3
      <4>5. Replica!Advance
        BY <2>2, <3>1, <4>4 DEF TheLog, Replica!Advance, Replica!vars
      <4> QED BY <4>5 DEF Replica!ReplicaNext
    <3> QED BY <3>1, <3>2, <3>4, <3>5
  <2>4. CASE \/ UNCHANGED hollowVars \/ Unpin \/ Subscribe \/ TriggerRefresh \/ Receive
             \/ \E v \in Versions : Pin(v) \/ RequestVersion(v)
    <3>1. UNCHANGED <<vars, readVersion, readContent>>
      BY <2>4 DEF hollowVars, Unpin, Subscribe, TriggerRefresh, Receive, Pin, RequestVersion,
                  consumerVars, readVars
    <3> QED BY <2>2, <3>1
  <2> QED BY <2>1, <2>3, <2>4 DEF HollowNext
<1> QED
  BY <1>1, <1>2, ReplicaInvariant, PTL DEF HollowSpec, ImplementsReplicatedLog, Replica!ReplicaSpec

-----------------------------------------------------------------------------
(***************************************************************************)
(* Views.  As long as a producer keeps counting, that is unless it is      *)
(* restarted or restored, it writes every version once: nothing is stored  *)
(* beyond the version it is at, so what a store offers for a version stays *)
(* the same from its first blob on.                                        *)
(***************************************************************************)
KeepsCounting == Events \cap {"crash", "restore", "restoreRace"} = {}

AppendInv ==
  /\ ChainInv
  /\ \A v \in Versions : Stored(v) => v <= LogLength

LEMMA AppendInit == Init => AppendInv
<1> SUFFICES ASSUME Init PROVE AppendInv
  OBVIOUS
<1>1. \A v \in Versions : ~Stored(v)
  BY BoundsAssumption DEF Init, Stored, Versions, FromVersions
<1> QED BY <1>1, ChainInit DEF AppendInv

(* The blobs of a version: its snapshot and the delta into it. *)
BlobsOf(v) == <<snapshots[v], deltas[v - 1]>>

LEMMA AppendStep ==
  ASSUME KeepsCounting, AppendInv, [Next]_vars
  PROVE  /\ AppendInv'
         /\ \A v \in Versions : Stored(v) => BlobsOf(v)' = BlobsOf(v)
<1>e. "restoreRace" \notin Events /\ "restore" \notin Events /\ "crash" \notin Events
  BY DEF KeepsCounting
<1>1. ChainInv /\ ChainInv' /\ TypeOK
  BY <1>e, ChainStep DEF AppendInv, ChainInv, TypeInv
<1>2. /\ currentVersion \in Nat /\ LogLength \in Nat
      /\ pc \in {"validating", "stored"} => newVersion = currentVersion + 1
      /\ \A v \in Versions : v \in Nat /\ v - 1 \in FromVersions /\ v # 0
      /\ snapshots \in [Versions -> Contents \cup {NoBlob}]
      /\ deltas \in [FromVersions -> DeltaBlob \cup {NoBlob}]
  BY <1>1, BoundsAssumption DEF TypeOK, ChainInv, LogLength, Versions, FromVersions
<1>3. ASSUME UNCHANGED storeVars, LogLength' >= LogLength, LogLength' \in Nat
      PROVE  /\ AppendInv'
             /\ \A v \in Versions : Stored(v) => BlobsOf(v)' = BlobsOf(v)
  <2>1. \A v : Stored(v)' <=> Stored(v)
    BY <1>3 DEF storeVars, Stored
  <2>2. \A v \in Versions : Stored(v)' => v <= LogLength'
    BY <1>2, <1>3, <2>1 DEF AppendInv
  <2> QED BY <1>1, <1>3, <2>2 DEF AppendInv, storeVars, BlobsOf
(* A store step writes one version past the end. *)
<1>4. ASSUME StoreSnapshot \/ StoreDelta
      PROVE  /\ AppendInv'
             /\ \A v \in Versions : Stored(v) => BlobsOf(v)' = BlobsOf(v)
  <2>1. /\ newVersion = currentVersion + 1 /\ LogLength = currentVersion
        /\ LogLength' = newVersion
    BY <1>2, <1>4 DEF StoreSnapshot, StoreDelta, LogLength, versionVars
  <2>2. ASSUME NEW v \in Versions, v # newVersion
        PROVE  snapshots'[v] = snapshots[v] /\ deltas'[v - 1] = deltas[v - 1]
    BY <1>2, <1>4, <2>1, <2>2 DEF StoreSnapshot, StoreDelta
  <2>3. ASSUME NEW v \in Versions, Stored(v) PROVE BlobsOf(v)' = BlobsOf(v)
    <3>1. v # newVersion
      BY <1>2, <2>1, <2>3 DEF AppendInv
    <3> QED BY <2>2, <3>1 DEF BlobsOf
  <2>4. ASSUME NEW v \in Versions, Stored(v)' PROVE v <= LogLength'
    <3>1. CASE v = newVersion
      BY <1>2, <2>1, <3>1
    <3>2. CASE v # newVersion
      <4>1. Stored(v)
        BY <2>2, <2>4, <3>2 DEF Stored
      <4> QED BY <1>2, <2>1, <4>1 DEF AppendInv
    <3> QED BY <3>1, <3>2
  <2> QED BY <1>1, <2>3, <2>4 DEF AppendInv
<1>5. CASE \/ \E c \in Contents : Populate(c)
           \/ DisabledCycle \/ EmptyCycle \/ SwitchEnforcer \/ IdenticalCycle
           \/ AllocateVersion \/ ValidationFails \/ StoreFails \/ Commit
           \/ Announce \/ AnnounceFails
  <2>1. UNCHANGED storeVars /\ LogLength' = LogLength
    BY <1>2, <1>5
       DEF Populate, DisabledCycle, EmptyCycle, SwitchEnforcer, IdenticalCycle,
           AllocateVersion, ValidationFails, StoreFails, Commit, Announce, AnnounceFails,
           LogLength, Return, versionVars
  <2> QED BY <1>2, <1>3, <2>1
<1>6. CASE Restart \/ \E v \in Versions : Restore(v)
  BY <1>6, <1>e DEF Restart, Restore
<1>7. CASE UNCHANGED vars
  <2>1. UNCHANGED storeVars /\ LogLength' = LogLength
    BY <1>7 DEF vars, LogLength, versionVars
  <2> QED BY <1>2, <1>3, <2>1
<1> QED
  BY <1>4, <1>5, <1>6, <1>7 DEF Next, Surroundings, CycleStep, UnannouncedStep

(* What the view of a version may show. *)
Nearest(v, bytes) ==
  \/ ~SnapshotExists(v) /\ bytes = DeltaBytes(v - 1)
  \/ \E u \in 1..v :
       /\ SnapshotExists(u) /\ bytes = SnapshotBytes(u)
       /\ \A w \in (u + 1)..v : ~SnapshotExists(w)
       /\ u < v => DeltaBytes(v - 1).format = "empty"

(* What a call c has found out so far. *)
Found(c) ==
  /\ c.pc \in {"snapshot", "delta", "list"} /\ c.version > 0 => c.version \in Available
  /\ c.pc \in {"delta", "list"} => ~SnapshotExists(c.version)
  /\ c.pc = "list" => c.version > 0 /\ DeltaBytes(c.version - 1).format = "empty"

CallInv ==
  /\ call = [pc |-> call.pc, version |-> call.version]
  /\ call.version \in 0..MaxVersion
  /\ call.pc = "refresh" => refresher["manual"].target = call.version
  /\ Found(call)

ViewsInv ==
  /\ zeroCopyViews = [v \in 0..MaxVersion |-> zeroCopyViews[v]]
  /\ \A v \in Versions :
       zeroCopyViews[v] # NoView => v \in Available /\ Nearest(v, zeroCopyViews[v])

ViewInv ==
  /\ HollowInv
  /\ AppendInv
  /\ CallInv
  /\ ViewsInv

LEMMA ViewInit == ZeroCopyInit => ViewInv
<1> SUFFICES ASSUME ZeroCopyInit PROVE ViewInv
  OBVIOUS
<1>1. HollowInv /\ AppendInv
  BY HollowInvInit, AppendInit DEF ZeroCopyInit, HollowInit
<1>2. CallInv
  BY BoundsAssumption DEF ZeroCopyInit, CallInv, Found, NoCall
<1>3. zeroCopyViews = [v \in 0..MaxVersion |-> NoView]
  BY DEF ZeroCopyInit
<1>4. \A v \in Versions : zeroCopyViews[v] = NoView
  BY <1>3, BoundsAssumption DEF Versions
<1> QED BY <1>1, <1>2, <1>3, <1>4 DEF ViewInv, ViewsInv

(* Below a version that is stored, nothing changes any more. *)
LEMMA SettledBlobs ==
  ASSUME KeepsCounting, AppendInv, [Next]_vars, setup' = setup, NEW v \in Available
  PROVE  /\ v \in Available'
         /\ \A u \in 1..v : /\ SnapshotExists(u)' <=> SnapshotExists(u)
                            /\ SnapshotBytes(u)' = SnapshotBytes(u)
         /\ DeltaBytes(v - 1)' = DeltaBytes(v - 1)
         /\ \A bytes : Nearest(v, bytes) => Nearest(v, bytes)'
<1>1. v \in Versions /\ v \in 1..v /\ v \in Nat /\ \A u \in 1..v : u \in Versions /\ Stored(u)
  BY BoundsAssumption DEF Available, AppendInv, ChainInv, NoGaps, Versions
<1>2. \A u \in 1..v : snapshots'[u] = snapshots[u] /\ deltas'[u - 1] = deltas[u - 1]
  BY <1>1, AppendStep DEF BlobsOf
<1>3. v \in Available'
  BY <1>1, <1>2 DEF Available, Stored
<1>4. ASSUME NEW u \in 1..v
      PROVE  /\ SnapshotExists(u)' <=> SnapshotExists(u)
             /\ SnapshotBytes(u)' = SnapshotBytes(u)
  BY <1>2 DEF SnapshotExists, SnapshotBytes
<1>5. DeltaBytes(v - 1)' = DeltaBytes(v - 1)
  BY <1>1, <1>2 DEF DeltaBytes
<1>6. ASSUME NEW bytes, Nearest(v, bytes) PROVE Nearest(v, bytes)'
  <2>1. CASE ~SnapshotExists(v) /\ bytes = DeltaBytes(v - 1)
    BY <1>1, <1>4, <1>5, <2>1 DEF Nearest
  <2>2. ASSUME NEW u \in 1..v, SnapshotExists(u), bytes = SnapshotBytes(u),
               \A w \in (u + 1)..v : ~SnapshotExists(w),
               u < v => DeltaBytes(v - 1).format = "empty"
        PROVE  Nearest(v, bytes)'
    <3>1. SnapshotExists(u)' /\ bytes = SnapshotBytes(u)'
      BY <1>4, <2>2
    <3>2. \A w \in (u + 1)..v : ~SnapshotExists(w)'
      BY <1>1, <1>4, <2>2
    <3>3. u < v => (DeltaBytes(v - 1)').format = "empty"
      BY <1>5, <2>2
    <3> QED BY <2>2, <3>1, <3>2, <3>3 DEF Nearest
  <2> QED BY <1>6, <2>1, <2>2 DEF Nearest
<1> QED BY <1>3, <1>4, <1>5, <1>6

(* What a call has found out stays true while others take steps. *)
LEMMA FoundStays ==
  ASSUME KeepsCounting, AppendInv, [Next]_vars, setup' = setup,
         NEW c, c.version \in Nat, Found(c)
  PROVE  Found(c)'
<1>1. CASE c.version = 0
  BY <1>1 DEF Found, SnapshotExists
<1>2. CASE c.version > 0 /\ c.pc \in {"snapshot", "delta", "list"}
  <2>1. c.version \in Available /\ c.version \in 1..c.version
    BY <1>2 DEF Found
  <2>2. /\ c.version \in Available'
        /\ SnapshotExists(c.version)' <=> SnapshotExists(c.version)
        /\ DeltaBytes(c.version - 1)' = DeltaBytes(c.version - 1)
    BY <2>1, SettledBlobs
  <2> QED BY <2>2 DEF Found
<1>3. CASE c.pc \notin {"snapshot", "delta", "list"}
  BY <1>3 DEF Found
<1> QED BY <1>1, <1>2, <1>3

LEMMA ViewsStay ==
  ASSUME KeepsCounting, AppendInv, ViewsInv, [Next]_vars, setup' = setup, UNCHANGED zeroCopyViews
  PROVE  ViewsInv'
<1>1. ASSUME NEW v \in Versions, NEW bytes, v \in Available, Nearest(v, bytes)
      PROVE  v \in Available' /\ Nearest(v, bytes)'
  BY <1>1, SettledBlobs
<1>2. ASSUME NEW v \in Versions
      PROVE  (zeroCopyViews[v] # NoView => v \in Available /\ Nearest(v, zeroCopyViews[v]))'
  <2>1. PICK bytes : bytes = zeroCopyViews[v]
    OBVIOUS
  <2>2. bytes # NoView => v \in Available' /\ Nearest(v, bytes)'
    BY <1>1, <2>1 DEF ViewsInv
  <2>3. zeroCopyViews'[v] = bytes
    BY <2>1
  <2>4. Nearest(v, bytes)' => Nearest(v, zeroCopyViews[v])'
    BY <2>3 DEF Nearest
  <2> QED BY <2>2, <2>3, <2>4
<1> QED BY <1>2 DEF ViewsInv

(* Steps that leave the call as it is. *)
LEMMA OthersKeepViewInv ==
  ASSUME KeepsCounting, ViewInv, HollowInv', [Next]_vars, setup' = setup, UNCHANGED viewVars,
         call.pc = "refresh" => refresher'["manual"].target = refresher["manual"].target
  PROVE  ViewInv'
<1>1. AppendInv'
  BY AppendStep DEF ViewInv
<1>2. call' = call /\ UNCHANGED zeroCopyViews
  BY DEF viewVars
<1>3. CallInv'
  <2>1. PICK c : c = call
    OBVIOUS
  <2>2. Found(c)'
    BY <2>1, FoundStays, BoundsAssumption DEF ViewInv, CallInv
  <2>3. Found(call)'
    BY <1>2, <2>1, <2>2 DEF Found
  <2> QED BY <1>2, <2>3 DEF ViewInv, CallInv
<1> QED BY <1>1, <1>2, <1>3, ViewsStay DEF ViewInv

(* The steps of creating a view read the store and write views and call.   *)
LEMMA CallMoves ==
  ASSUME ViewInv, UNCHANGED <<hollowVars, zeroCopyViews>>,
         NEW c, c = [pc |-> c.pc, version |-> c.version], c.version \in 0..MaxVersion,
         c.pc # "refresh", Found(c), call' = c
  PROVE  ViewInv'
<1>1. HollowInv' /\ AppendInv'
  BY DEF ViewInv, HollowInv, AppendInv, ChainInv, TypeInv, TypeOK, NoGaps, VisibleVersionsAreStored,
         Stored, LogLength, FeedTypes, InboxInv, Available, Sound, IsLocal, hollowVars, vars,
         storeVars, versionVars, engineVars, feedVars, consumerVars, readVars
<1>2. CallInv'
  <2>1. Found(c)'
    BY DEF Found, Available, Stored, SnapshotExists, DeltaBytes, hollowVars, vars,
           storeVars, consumerVars
  <2>2. Found(call)'
    BY <2>1 DEF Found
  <2> QED BY <2>2 DEF CallInv
<1>3. ViewsInv'
  BY DEF ViewInv, ViewsInv, Nearest, Available, Stored, SnapshotExists, SnapshotBytes, DeltaBytes,
         hollowVars, vars, storeVars, consumerVars
<1> QED BY <1>1, <1>2, <1>3 DEF ViewInv

LEMMA StoreViewKeeps ==
  ASSUME ViewInv, UNCHANGED hollowVars, NEW bytes, StoreView(bytes),
         call.version \in Available, Nearest(call.version, bytes)
  PROVE  ViewInv'
<1>1. HollowInv' /\ AppendInv'
  BY DEF ViewInv, HollowInv, AppendInv, ChainInv, TypeInv, TypeOK, NoGaps, VisibleVersionsAreStored,
         Stored, LogLength, FeedTypes, InboxInv, Available, Sound, IsLocal, hollowVars, vars,
         storeVars, versionVars, engineVars, feedVars, consumerVars, readVars
<1>2. CallInv'
  BY BoundsAssumption DEF StoreView, NoCall, CallInv, Found
<1>3. ViewsInv'
  <2>1. /\ zeroCopyViews = [v \in 0..MaxVersion |-> zeroCopyViews[v]]
        /\ \A v \in Versions :
             zeroCopyViews[v] # NoView => v \in Available /\ Nearest(v, zeroCopyViews[v])
    BY DEF ViewInv, ViewsInv
  <2>2. /\ zeroCopyViews' = [v \in 0..MaxVersion |-> zeroCopyViews'[v]]
        /\ \A v \in Versions :
             zeroCopyViews'[v] = zeroCopyViews[v] \/ (v = call.version /\ zeroCopyViews'[v] = bytes)
    <3>1. \/ zeroCopyViews' = zeroCopyViews
          \/ zeroCopyViews' = [zeroCopyViews EXCEPT ![call.version] = bytes]
      BY DEF StoreView
    <3>2. \A v \in Versions : v \in 0..MaxVersion
      BY DEF Versions
    <3>3. CASE zeroCopyViews' = [zeroCopyViews EXCEPT ![call.version] = bytes]
      <4>1. \A v \in 0..MaxVersion : zeroCopyViews'[v] = IF v = call.version THEN bytes ELSE zeroCopyViews[v]
        BY <2>1, <3>3
      <4>2. zeroCopyViews' = [v \in 0..MaxVersion |-> zeroCopyViews'[v]]
        BY <2>1, <3>3
      <4> QED BY <3>2, <4>1, <4>2
    <3> QED BY <2>1, <3>1, <3>3
  <2>3. /\ Available' = Available
        /\ \A v \in Versions : \A b : Nearest(v, b)' <=> Nearest(v, b)
    BY DEF Nearest, Available, Stored, SnapshotExists, SnapshotBytes, DeltaBytes,
           hollowVars, vars, storeVars, consumerVars
  <2>4. ASSUME NEW v \in Versions
        PROVE  (zeroCopyViews[v] # NoView => v \in Available /\ Nearest(v, zeroCopyViews[v]))'
    <3>1. PICK b : b = zeroCopyViews'[v]
      OBVIOUS
    <3>2. b # NoView => v \in Available' /\ Nearest(v, b)'
      BY <2>1, <2>2, <2>3, <3>1
    <3>3. Nearest(v, b)' => Nearest(v, zeroCopyViews[v])'
      BY <3>1 DEF Nearest
    <3> QED BY <3>1, <3>2, <3>3
  <2> QED BY <2>2, <2>4 DEF ViewsInv
<1> QED BY <1>1, <1>2, <1>3 DEF ViewInv

LEMMA CreateViewKeeps ==
  ASSUME ViewInv, CreateView
  PROVE  ViewInv'
<1>1. /\ call = [pc |-> call.pc, version |-> call.version]
      /\ call.version \in 0..MaxVersion /\ MaxVersion \in Nat /\ Found(call) /\ NoGaps
  BY BoundsAssumption DEF ViewInv, CallInv, AppendInv, ChainInv
<1>2. UNCHANGED hollowVars
  BY DEF CreateView, ViewFromSnapshot, ViewHasNoSnapshot, ViewFromDelta, ViewHasEmptyDelta,
         ViewHasNoBlob, ViewFromEarlierSnapshot
<1>3. Found(NoCall) /\ NoCall = [pc |-> NoCall.pc, version |-> NoCall.version]
      /\ NoCall.version \in 0..MaxVersion /\ NoCall.pc # "refresh"
  BY BoundsAssumption DEF Found, NoCall
<1>4. ASSUME call' = NoCall, UNCHANGED zeroCopyViews PROVE ViewInv'
  <2>1. PICK c : c = NoCall
    OBVIOUS
  <2>2. Found(c) /\ c = [pc |-> c.pc, version |-> c.version]
        /\ c.version \in 0..MaxVersion /\ c.pc # "refresh"
    BY <1>3, <2>1
  <2> QED BY <1>2, <1>4, <2>1, <2>2, CallMoves
<1>5. CASE ViewFromSnapshot
  <2>1. /\ StoreView(SnapshotBytes(call.version)) /\ call.version \in Available
        /\ SnapshotExists(call.version)
    BY <1>1, <1>5 DEF ViewFromSnapshot, Found, SnapshotExists
  <2>2. PICK bytes : bytes = SnapshotBytes(call.version)
    OBVIOUS
  <2>3. Nearest(call.version, bytes)
    BY <1>1, <2>1, <2>2 DEF Nearest, SnapshotExists
  <2> QED BY <1>2, <2>1, <2>2, <2>3, StoreViewKeeps
<1>6. CASE ViewFromDelta
  <2>1. /\ call.pc = "delta" /\ StoreView(DeltaBytes(call.version - 1))
        /\ call.version - 1 >= 0
    BY <1>6 DEF ViewFromDelta, DeltaExists
  <2>2. ~SnapshotExists(call.version) /\ call.version \in Available
    BY <1>1, <2>1 DEF Found
  <2>3. PICK bytes : bytes = DeltaBytes(call.version - 1)
    OBVIOUS
  <2>4. Nearest(call.version, bytes)
    BY <2>2, <2>3 DEF Nearest
  <2> QED BY <1>2, <2>1, <2>2, <2>3, <2>4, StoreViewKeeps
<1>7. CASE ViewFromEarlierSnapshot
  <2>1. /\ call.pc = "list" /\ call.version > 0 /\ call.version \in Available
        /\ ~SnapshotExists(call.version)
        /\ DeltaBytes(call.version - 1).format = "empty"
    BY <1>1, <1>7 DEF ViewFromEarlierSnapshot, Found
  <2>2. CASE Earlier(call.version) = {}
    BY <1>4, <1>7, <2>2 DEF ViewFromEarlierSnapshot
  <2>3. CASE Earlier(call.version) # {}
    <3> DEFINE u == Max(Earlier(call.version))
    <3>1. Earlier(call.version) \subseteq 0..MaxVersion
      BY <1>1 DEF Earlier
    <3>2. u \in Earlier(call.version) /\ \A w \in Earlier(call.version) : w <= u
      <4>1. \E x \in Earlier(call.version) : \A y \in Earlier(call.version) : y <= x
        BY <1>1, <2>3, <3>1, LargestExists
      <4>2. \E x \in Earlier(call.version) : \A y \in Earlier(call.version) : x >= y
        BY <3>1, <4>1
      <4>3. u \in Earlier(call.version) /\ \A y \in Earlier(call.version) : u >= y
        BY <4>2 DEF Max
      <4> HIDE DEF u
      <4> QED BY <3>1, <4>3
    <3>3. StoreView(SnapshotBytes(u))
      BY <1>7, <2>3 DEF ViewFromEarlierSnapshot
    <3> HIDE DEF u
    <3>4. PICK bytes : bytes = SnapshotBytes(u)
      OBVIOUS
    <3>5. u \in 1..call.version /\ SnapshotExists(u)
          /\ \A w \in (u + 1)..call.version : ~SnapshotExists(w)
      BY <1>1, <3>2 DEF Earlier
    <3>6. Nearest(call.version, bytes)
      BY <2>1, <3>4, <3>5 DEF Nearest
    <3> QED BY <1>2, <2>1, <3>3, <3>4, <3>6, StoreViewKeeps
  <2> QED BY <2>2, <2>3
<1>8. CASE ViewHasNoSnapshot
  <2>1. /\ call' = [call EXCEPT !.pc = "delta"] /\ UNCHANGED zeroCopyViews
        /\ call.pc = "snapshot" /\ ~SnapshotExists(call.version)
    BY <1>8 DEF ViewHasNoSnapshot
  <2>2. PICK c : c = [pc |-> "delta", version |-> call.version]
    OBVIOUS
  <2>3. call' = c
    BY <1>1, <2>1, <2>2
  <2>4. Found(c)
    BY <1>1, <2>1, <2>2 DEF Found
  <2> QED BY <1>1, <1>2, <2>1, <2>2, <2>3, <2>4, CallMoves
<1>9. CASE ViewHasEmptyDelta
  <2>1. /\ call' = [call EXCEPT !.pc = "list"] /\ UNCHANGED zeroCopyViews
        /\ call.pc = "delta" /\ call.version - 1 >= 0
        /\ DeltaBytes(call.version - 1).format = "empty"
    BY <1>9 DEF ViewHasEmptyDelta, DeltaExists
  <2>2. PICK c : c = [pc |-> "list", version |-> call.version]
    OBVIOUS
  <2>3. call' = c
    BY <1>1, <2>1, <2>2
  <2>4. Found(c)
    BY <1>1, <2>1, <2>2 DEF Found
  <2> QED BY <1>1, <1>2, <2>1, <2>2, <2>3, <2>4, CallMoves
<1>10. CASE ViewHasNoBlob
  BY <1>4, <1>10 DEF ViewHasNoBlob
<1> QED BY <1>5, <1>6, <1>7, <1>8, <1>9, <1>10 DEF CreateView

(* A refresh by the caller that ends without an error has found its target *)
(* stored.                                                                 *)
LEMMA RegularRefreshFinds ==
  ASSUME HollowInv, RefreshStep("manual"), refresher'["manual"].pc = "idle",
         ~PlanGap("manual"), ~DecodeFails("manual"), refresher["manual"].target > 0
  PROVE  refresher["manual"].target \in Available
<1> DEFINE p == "manual"
           now == refresher[p]
<1>1. /\ p \in Refreshers /\ Sound(p, now, Available) /\ IsLocal(now)
      /\ refresher = [q \in Refreshers |-> refresher[q]]
      /\ readVersion > 0 => readVersion \in Available
  BY DEF HollowInv, Sound, Refreshers
<1>2. ASSUME NEW local, Goto(p, local) PROVE refresher'[p] = local
  BY <1>1, <1>2, GotoOnly
<1>3. ASSUME NEW v, NEW content, SetCurrentState(p, v, content) PROVE FALSE
  <2>1. refresher'[p].pc = "apply"
    <3>1. refresher'[p] = [now EXCEPT !.pc = "apply", !.chain = Tail(@),
                             !.held = NoContent, !.fresh = TRUE, !.base = NoContent]
      BY <1>1, <1>3, SetStateOnly
    <3> QED BY <1>1, <3>1 DEF IsLocal
  <2> QED BY <2>1
<1>4. CASE SkipRefresh(p)
  BY <1>1, <1>4 DEF SkipRefresh, Skips
<1>5. CASE FinishRefresh(p)
  BY <1>1, <1>5 DEF FinishRefresh, Sound, Applying
<1>6. CASE \/ BeginRefresh(p) \/ PlanSnapshot(p) \/ PlanDelta(p) \/ PlanReached(p)
           \/ LoadDelta(p) \/ SeesValid(p) \/ SeesInvalidated(p) \/ CopyState(p)
  <2>1. CASE BeginRefresh(p)
    <3>1. PICK from, cur : refresher'[p] = [now EXCEPT !.pc = "plan", !.from = from, !.cur = cur]
      BY <1>2, <2>1 DEF BeginRefresh
    <3> QED BY <1>1, <3>1 DEF IsLocal
  <2>2. CASE PlanSnapshot(p)
    <3>1. PICK chain : refresher'[p] = [now EXCEPT !.pc = "apply", !.chain = chain]
      BY <1>2, <2>2 DEF PlanSnapshot
    <3> QED BY <1>1, <3>1 DEF IsLocal
  <2>3. CASE PlanDelta(p)
    <3>1. PICK cur, chain : refresher'[p] = [now EXCEPT !.cur = cur, !.chain = chain]
      BY <1>2, <2>3 DEF PlanDelta
    <3> QED BY <1>1, <2>3, <3>1 DEF IsLocal, PlanDelta
  <2>4. CASE PlanReached(p)
    BY <1>1, <1>2, <2>4 DEF PlanReached, IsLocal
  <2>5. CASE LoadDelta(p)
    <3>1. PICK held : refresher'[p] = [now EXCEPT !.pc = "loaded", !.held = held]
      BY <1>2, <2>5 DEF LoadDelta
    <3> QED BY <1>1, <3>1 DEF IsLocal
  <2>6. CASE SeesValid(p)
    BY <1>1, <1>2, <2>6 DEF SeesValid, IsLocal
  <2>7. CASE SeesInvalidated(p) \/ CopyState(p)
    <3>1. PICK base : refresher'[p] = [now EXCEPT !.pc = "copied", !.base = base]
      BY <1>2, <2>7 DEF SeesInvalidated, CopyState
    <3> QED BY <1>1, <3>1 DEF IsLocal
  <2> QED BY <1>6, <2>1, <2>2, <2>3, <2>4, <2>5, <2>6, <2>7
<1>7. CASE CopyPanics(p)
  BY <1>7 DEF CopyPanics
<1>8. CASE LoadSnapshot(p) \/ FinishDelta(p)
  BY <1>3, <1>8 DEF LoadSnapshot, FinishDelta
<1> QED BY <1>4, <1>5, <1>6, <1>7, <1>8 DEF RefreshStep

LEMMA RegularRefreshKeeps ==
  ASSUME KeepsCounting, ViewInv, HollowInv', RegularRefresh
  PROVE  ViewInv'
<1> DEFINE now == refresher["manual"]
           next == refresher'["manual"]
<1>1. /\ HollowInv /\ RefreshStep("manual") /\ "manual" \in Refreshers
      /\ CallInv /\ UNCHANGED zeroCopyViews
  BY DEF ViewInv, RegularRefresh, Refreshers
<1>2. /\ UNCHANGED <<vars, feedVars, setup>> /\ RefreshEffect("manual") /\ IsLocal(now)
  BY <1>1, RefreshHasEffect DEF HollowInv, Sound
<1>3. next = Idle \/ next.target = now.target
  BY <1>2 DEF RefreshEffect, IsLocal
<1>4. AppendInv' /\ Available' = Available
  <2>1. [Next]_vars
    BY <1>2
  <2> QED BY <1>2, <2>1, AppendStep, StoreStays DEF ViewInv
<1>5. ViewsInv'
  BY <1>1, <1>2, ViewsStay DEF ViewInv
<1>6. ASSUME NEW c, Found(c) PROVE Found(c)'
  BY <1>2, <1>4, <1>6 DEF Found, SnapshotExists, DeltaBytes, vars, storeVars
<1>7. ASSUME NEW c, c = [pc |-> c.pc, version |-> c.version], c.version \in 0..MaxVersion,
             Found(c), call' = c, c.pc = "refresh" => next.target = c.version
      PROVE  CallInv'
  <2>1. Found(call)'
    BY <1>6, <1>7 DEF Found
  <2> QED BY <1>7, <2>1 DEF CallInv
<1>8. CASE call.pc # "refresh" \/ next.pc # "idle"
  <2>1. call' = call
    BY <1>8 DEF RegularRefresh
  <2>2. call.pc = "refresh" => next.target = call.version
    BY <1>1, <1>3, <1>8 DEF Idle, CallInv
  <2>3. PICK c : c = call
    OBVIOUS
  <2> HIDE DEF next
  <2>4. CallInv'
    BY <1>1, <1>7, <2>1, <2>2, <2>3 DEF CallInv
  <2> QED BY <1>4, <1>5, <2>4 DEF ViewInv
<1>9. CASE call.pc = "refresh" /\ next.pc = "idle"
  <2>1. CASE PlanGap("manual") \/ DecodeFails("manual")
    <3>1. call' = NoCall
      BY <1>9, <2>1 DEF RegularRefresh
    <3>2. CallInv'
      BY <3>1, BoundsAssumption DEF CallInv, Found, NoCall
    <3> QED BY <1>4, <1>5, <3>2 DEF ViewInv
  <2>2. CASE ~PlanGap("manual") /\ ~DecodeFails("manual")
    <3>1. PICK c : c = [pc |-> "snapshot", version |-> call.version]
      OBVIOUS
    <3>2. call' = c
      BY <1>1, <1>9, <2>2, <3>1 DEF RegularRefresh, CallInv
    <3>3. Found(c)
      BY <1>1, <1>9, <2>2, <3>1, RegularRefreshFinds DEF Found, CallInv
    <3>4. CallInv'
      BY <1>1, <1>7, <3>1, <3>2, <3>3 DEF CallInv
    <3> QED BY <1>4, <1>5, <3>4 DEF ViewInv
  <2> QED BY <2>1, <2>2
<1> QED BY <1>8, <1>9

LEMMA ViewStep ==
  ASSUME KeepsCounting
  PROVE  ViewInv /\ [ZeroCopyNext]_zeroCopyVars => ViewInv'
<1> SUFFICES ASSUME ViewInv, [ZeroCopyNext]_zeroCopyVars PROVE ViewInv'
  OBVIOUS
<1>1. "restoreRace" \notin Events /\ HollowInv /\ FeedTypes
  BY DEF KeepsCounting, ViewInv, HollowInv
<1>2. HollowInv'
  BY <1>1, ZeroCopyIsWide, WideKeepsHollowInv
<1>3. /\ refresher = [q \in Refreshers |-> refresher[q]]
      /\ \A q \in Refreshers : IsLocal(refresher[q])
      /\ "manual" \in Refreshers /\ "auto" \in Refreshers
  BY <1>1 DEF HollowInv, Sound, Refreshers
<1>4. ASSUME UNCHANGED <<vars, setup, viewVars>>,
             call.pc = "refresh" => refresher'["manual"].target = refresher["manual"].target
      PROVE  ViewInv'
  BY <1>2, <1>4, OthersKeepViewInv
<1>5. CASE UNCHANGED zeroCopyVars
  BY <1>4, <1>5 DEF zeroCopyVars, hollowVars, consumerVars
<1>6. CASE Elsewhere /\ UNCHANGED viewVars
  <2>1. CASE ProducerStep
    <3>1. [Next]_vars /\ UNCHANGED <<refresher, setup>>
      BY <2>1 DEF ProducerStep, Next, CycleStep, consumerVars
    <3> QED BY <1>2, <1>6, <3>1, OthersKeepViewInv
  <2>2. ASSUME NEW v \in Versions, Pin(v) PROVE ViewInv'
    BY <1>4, <1>6, <2>2 DEF Pin, consumerVars
  <2>3. CASE Unpin \/ Subscribe
    BY <1>4, <1>6, <2>3 DEF Unpin, Subscribe, consumerVars
  <2>4. CASE Receive
    <3>1. refresher'["manual"] = refresher["manual"]
      BY <1>3, <2>4, GotoOnly DEF Receive
    <3> QED BY <1>4, <1>6, <2>4, <3>1 DEF Receive
  <2>5. CASE RefreshStep("auto")
    <3>1. /\ UNCHANGED <<vars, feedVars, setup>>
          /\ refresher'["manual"] \in
               {refresher["manual"], [refresher["manual"] EXCEPT !.fresh = FALSE]}
      BY <1>1, <1>3, <2>5, RefreshHasEffect
    <3>2. refresher'["manual"].target = refresher["manual"].target
      BY <1>3, <3>1 DEF IsLocal
    <3> QED BY <1>4, <1>6, <3>1, <3>2
  <2> QED BY <1>6, <2>1, <2>2, <2>3, <2>4, <2>5 DEF Elsewhere, AutoRefresh
<1>7. CASE call.pc = "none" /\ TriggerRefresh /\ UNCHANGED viewVars
  BY <1>4, <1>7 DEF TriggerRefresh
<1>8. ASSUME NEW v \in 0..MaxVersion, TriggerRefreshToWithZeroCopy(v) PROVE ViewInv'
  <2>1. /\ UNCHANGED <<vars, setup, zeroCopyViews>>
        /\ refresher'["manual"] = [Idle EXCEPT !.pc = "begin", !.target = v]
        /\ call' = [pc |-> "refresh", version |-> v]
    BY <1>3, <1>8, GotoOnly DEF TriggerRefreshToWithZeroCopy
  <2>2. CallInv'
    BY <2>1 DEF CallInv, Found, Idle
  <2>3. ViewsInv' /\ AppendInv'
    BY <2>1, ViewsStay, AppendStep DEF ViewInv
  <2> QED BY <1>2, <2>2, <2>3 DEF ViewInv
<1>9. CASE RegularRefresh
  BY <1>2, <1>9, RegularRefreshKeeps
<1>10. CASE CreateView
  BY <1>10, CreateViewKeeps
<1> QED BY <1>5, <1>6, <1>7, <1>8, <1>9, <1>10 DEF ZeroCopyNext

LEMMA ViewInvariant ==
  ASSUME KeepsCounting
  PROVE  ZeroCopySpec => []ViewInv
  BY ViewInit, ViewStep, PTL DEF ZeroCopySpec

(***************************************************************************)
(* createZeroCopyViewForVersion, which retrieves the snapshot, the delta   *)
(* and the list of snapshots one after the other while the producer        *)
(* publishes and the refresh loop moves the consumer on, mixes nothing up: *)
(* whichever serializers the three parts have and whichever cycles fail.   *)
(***************************************************************************)
THEOREM ViewsStayNearest ==
  ASSUME KeepsCounting
  PROVE  ZeroCopySpec => []ViewsAreNearest
<1>1. ViewInv => ViewsAreNearest
  <2> SUFFICES ASSUME ViewInv PROVE ViewsAreNearest
    OBVIOUS
  <2>1. call.pc \in {"snapshot", "delta", "list"} /\ call.version > 0 => Stored(call.version)
    BY DEF ViewInv, CallInv, Found, Available
  <2>2. \A v \in Versions : zeroCopyViews[v] # NoView => Nearest(v, zeroCopyViews[v])
    BY DEF ViewInv, ViewsInv
  <2> QED BY <2>1, <2>2 DEF ViewsAreNearest, Nearest
<1> QED BY <1>1, ViewInvariant, PTL

(***************************************************************************)
(* What the prompt of the command line may rely on while the refresh loop  *)
(* of its consumer runs, for any records, counts and numbers of versions.  *)
(***************************************************************************)

(* The commands of a session make write states out of write states, its    *)
(* programs have the serializers of the command line, and its producer is  *)
(* not restarted.                                                          *)
SessionSetting ==
  /\ Setups \subseteq {Interactive}
  /\ KeepsCounting
  /\ Base \in Contents
  /\ \A existing \in States, version \in 0..MaxVersion :
       Evolutions(existing, version) \subseteq States

(* The positions of a list. *)
LEMMA FirstNumbers ==
  ASSUME NEW n \in Nat
  PROVE  IsFiniteSet(1..n) /\ Cardinality(1..n) = n
BY FS_Interval

(***************************************************************************)
(* Lists of records are such write states.                                 *)
(***************************************************************************)
LEMMA MixingIsList ==
  ASSUME NEW R, \A r \in R : Updated(r) \in R, NEW version,
         \A n \in Nat : Record("mixed", version, n) \in R,
         NEW existing \in Seq(R)
  PROVE  Mixing(existing, version) \in Seq(R)
<1> DEFINE left == (1..Len(existing)) \ {5}
           evolved(i) == IF i \in {1, 4} THEN Updated(existing[i]) ELSE existing[i]
           kept == [k \in 1..Cardinality(left) |-> evolved(IF k < 5 THEN k ELSE k + 1)]
<1>1. Len(existing) \in Nat /\ \A i \in 1..Len(existing) : existing[i] \in R
  OBVIOUS
<1>2. /\ IsFiniteSet(1..Len(existing)) /\ Cardinality(1..Len(existing)) = Len(existing)
  BY <1>1, FirstNumbers
<1>3. Cardinality(left) = IF 5 <= Len(existing) THEN Len(existing) - 1 ELSE Len(existing)
  <2>1. 5 \in 1..Len(existing) <=> 5 <= Len(existing)
    BY <1>1
  <2>2. Cardinality(left) = IF 5 \in 1..Len(existing) THEN Cardinality(1..Len(existing)) - 1
                            ELSE Cardinality(1..Len(existing))
    BY <1>2, FS_RemoveElement, Zenon
  <2> QED BY <1>2, <2>1, <2>2
<1>4. Cardinality(left) \in Nat
  BY <1>1, <1>3
<1>5. ASSUME NEW i \in 1..Len(existing) PROVE evolved(i) \in R
  BY <1>1
<1>6. ASSUME NEW k \in 1..Cardinality(left)
      PROVE  (IF k < 5 THEN k ELSE k + 1) \in 1..Len(existing)
  <2> HIDE DEF left
  <2> QED BY <1>1, <1>3
<1>7. kept \in Seq(R)
  <2> HIDE DEF left, evolved
  <2>1. \A k \in 1..Cardinality(left) : evolved(IF k < 5 THEN k ELSE k + 1) \in R
    BY <1>5, <1>6
  <2> QED BY <1>4, <2>1
<1>8. New("mixed", version, 2) \in Seq(R)
  BY DEF New
<1>9. Mixing(existing, version) = kept \o New("mixed", version, 2)
  BY DEF Mixing
<1> HIDE DEF kept
<1> QED BY <1>7, <1>8, <1>9

LEMMA ListsEvolve ==
  ASSUME NEW R, \A r \in R : Updated(r) \in R,
         \A v \in 0..MaxVersion, n \in Nat : Record("mixed", v, n) \in R /\ Record("new", v, n) \in R,
         Contents = Seq(R) \ {<<>>}, Counts \subseteq Nat,
         NEW existing \in States, NEW version \in 0..MaxVersion
  PROVE  Evolutions(existing, version) \subseteq States
<1>1. States = Seq(R)
  <2>1. NoContent = <<>>
    BY HollowAssumption
  <2>2. <<>> \in Seq(R)
    OBVIOUS
  <2> QED BY <2>1, <2>2, Zenon DEF States
<1>2. existing \in Seq(R) /\ Len(existing) \in Nat /\ \A i \in 1..Len(existing) : existing[i] \in R
  BY <1>1
<1>3. Mixing(existing, version) \in Seq(R)
  BY <1>2, MixingIsList
<1>4. ASSUME NEW n \in Counts PROVE Adding(existing, version, n) \in Seq(R)
  <2>1. n \in Nat /\ New("new", version, n) \in Seq(R)
    BY DEF New
  <2> QED BY <1>2, <2>1 DEF Adding
<1>5. ASSUME NEW n \in Counts PROVE Updating(existing, n) \in Seq(R)
  <2>1. \A i \in 1..Len(existing) : (IF i <= n THEN Updated(existing[i]) ELSE existing[i]) \in R
    BY <1>2
  <2>2. DOMAIN existing = 1..Len(existing)
    BY <1>2
  <2> QED BY <1>2, <2>1, <2>2 DEF Updating
<1>6. ASSUME NEW n \in Counts PROVE Deleting(existing, n) \in Seq(R)
  <2>1. n \in Nat
    OBVIOUS
  <2>2. \A i \in 1..(Len(existing) - n) : existing[i + n] \in R
    BY <1>2, <2>1
  <2>3. CASE Len(existing) - n \in Nat
    <3>1. \A m \in Nat : \A f \in [1..m -> R] : f \in Seq(R)
      OBVIOUS
    <3>2. Deleting(existing, n) \in [1..(Len(existing) - n) -> R]
      BY <2>2, Zenon DEF Deleting
    <3> QED BY <2>3, <3>1, <3>2
  <2>4. CASE Len(existing) < n
    <3>1. 1..(Len(existing) - n) = 1..0
      BY <1>2, <2>1, <2>4
    <3>2. Deleting(existing, n) \in [1..0 -> R]
      <4>1. \A i \in 1..0 : existing[i + n] \in R
        OBVIOUS
      <4>2. Deleting(existing, n) = [i \in 1..0 |-> existing[i + n]]
        BY <3>1, Zenon DEF Deleting
      <4> QED BY <4>1, <4>2, Zenon
    <3> QED BY <3>2
  <2> QED BY <1>2, <2>1, <2>3, <2>4
<1> QED BY <1>1, <1>3, <1>4, <1>5, <1>6 DEF Evolutions

(***************************************************************************)
(* The traditional serializer                                              *)
(***************************************************************************)
LEMMA SnapshotsAreDecoded ==
  \A c : Deserialize("traditional", Serialize("traditional", c)) = c
  BY DEF Deserialize, Serialize, DetermineMode, ReadMode, Hybrids

(* It turns every delta into one without changes. *)
LEMMA DeltasAreIgnored ==
  ASSUME NEW base, NEW bytes
  PROVE  ApplyDelta(base, DeserializeDelta("traditional", bytes)) = base
<1>1. DeserializeDelta("traditional", bytes) = <<>>
  BY DEF DeserializeDelta, ReadMode, Hybrids
<1>2. ApplyDelta(base, <<>>) = base
  BY NothingApplies
<1> QED BY <1>1, <1>2

(***************************************************************************)
(* The invariant: whatever anybody holds is nothing or one of the          *)
(* snapshots, which never change; the prompt stands at the producer's      *)
(* version; and the first version is a snapshot.                           *)
(***************************************************************************)
Shows == {<<>>} \cup {snapshots[u] : u \in {v \in Versions : SnapshotExists(v)}}

(* What the local variables of a refresh may hold. *)
HoldsOnly(r, shows) ==
  /\ r.held \in shows /\ r.base \in shows
  /\ \A i \in DOMAIN r.chain :
       r.chain[i].kind = "snapshot" =>
         \E c \in shows : r.chain[i].data = Serialize("traditional", c)

ReadsShow(shows) ==
  /\ readContent \in shows
  /\ \A p \in Refreshers : HoldsOnly(refresher[p], shows)

FirstInv ==
  \/ lastSnapshotVersion = 0 /\ currentVersion = 0 /\ pc \in {"idle", "populated", "validating"}
  \/ SnapshotExists(1)

PromptInv ==
  /\ session = [at |-> session.at, version |-> session.version, held |-> session.held,
                fresh |-> session.fresh, existing |-> session.existing]
  /\ session.at \in {"start", "prompt", "refresh", "read", "evolve", "cycle"}
  /\ session.version \in 0..MaxVersion
  /\ session.at # "cycle" => pc = "idle" /\ session.version \in {0, currentVersion}
  /\ session.at \in {"refresh", "read"} => session.version > 0
  /\ session.at = "evolve" /\ session.version = 0 => session.existing = <<>>

DataInv ==
  /\ session.held \in Shows /\ session.existing \in Shows
  /\ ReadsShow(Shows)

SessionInv ==
  /\ HollowInv /\ AppendInv /\ FirstInv
  /\ setup = Interactive
  /\ pc = "committed" => newVersion = currentVersion
  /\ PromptInv
  /\ DataInv

LEMMA SessionInvInit ==
  ASSUME SessionSetting
  PROVE  SessionInit => SessionInv
<1> SUFFICES ASSUME SessionInit PROVE SessionInv
  OBVIOUS
<1>1. HollowInv /\ AppendInv
  BY HollowInvInit, AppendInit DEF SessionInit, ZeroCopyInit, HollowInit
<1>2. /\ setup \in Setups /\ pc = "idle" /\ lastSnapshotVersion = 0 /\ currentVersion = 0
      /\ readContent = NoContent /\ refresher = [p \in Refreshers |-> Idle]
  BY DEF SessionInit, ZeroCopyInit, HollowInit, Init
<1>3. setup = Interactive
  BY <1>2 DEF SessionSetting
<1>4. <<>> \in Shows /\ NoContent = <<>>
  BY HollowAssumption DEF Shows
<1>5. session = [at |-> "start", version |-> 0, held |-> <<>>, fresh |-> TRUE, existing |-> <<>>]
  BY DEF SessionInit
<1>6. PromptInv
  BY <1>2, <1>5, BoundsAssumption DEF PromptInv
<1>7. Idle.held = <<>> /\ Idle.base = <<>> /\ Idle.chain = <<>>
  BY <1>4 DEF Idle
<1>8. ReadsShow(Shows)
  BY <1>2, <1>4, <1>7 DEF ReadsShow, HoldsOnly
<1>9. DataInv
  BY <1>4, <1>5, <1>8 DEF DataInv
<1> QED BY <1>1, <1>2, <1>3, <1>6, <1>9 DEF SessionInv, FirstInv

(* Snapshots stay as they are, so that what is held is still theirs. *)
LEMMA ShowsGrow ==
  ASSUME KeepsCounting, AppendInv, [Next]_vars
  PROVE  Shows \subseteq Shows' /\ (SnapshotExists(1) => SnapshotExists(1)')
<1>1. ASSUME NEW v \in Versions, SnapshotExists(v)
      PROVE  snapshots'[v] = snapshots[v] /\ SnapshotExists(v)'
  <2>1. Stored(v)
    BY <1>1 DEF SnapshotExists, Stored
  <2>2. snapshots'[v] = snapshots[v]
    BY <2>1, AppendStep DEF BlobsOf
  <2> QED BY <1>1, <2>2 DEF SnapshotExists
<1>2. 1 \in Versions
  BY BoundsAssumption DEF Versions
<1>3. ASSUME NEW c \in Shows PROVE c \in Shows'
  <2>1. CASE c = <<>>
    BY <2>1 DEF Shows
  <2>2. CASE c # <<>>
    <3>1. PICK v \in Versions : SnapshotExists(v) /\ c = snapshots[v]
      BY <2>2 DEF Shows
    <3>2. c = snapshots'[v] /\ SnapshotExists(v)'
      BY <1>1, <3>1
    <3> QED BY <3>2 DEF Shows
  <2> QED BY <2>1, <2>2
<1> QED BY <1>1, <1>2, <1>3

LEMMA ReadsStillShow ==
  ASSUME NEW S, NEW T, S \subseteq T, ReadsShow(S), UNCHANGED <<readContent, refresher>>
  PROVE  ReadsShow(T)'
  BY DEF ReadsShow, HoldsOnly

(* A refresh of a consumer that reads with the traditional serializer      *)
(* shows nothing but snapshots, whoever gets in between.                   *)
LEMMA RefreshShows ==
  ASSUME HollowInv, setup = Interactive, ReadsShow(Shows),
         NEW p \in Refreshers, RefreshStep(p)
  PROVE  ReadsShow(Shows)'
<1> DEFINE now == refresher[p]
           next == refresher'[p]
<1>1. /\ UNCHANGED <<vars, setup>> /\ RefreshEffect(p)
      /\ refresher' = [q \in Refreshers |-> refresher'[q]]
      /\ \A q \in Refreshers : q # p =>
           refresher'[q] \in {refresher[q], [refresher[q] EXCEPT !.fresh = FALSE]}
  BY RefreshHasEffect
<1>2. Shows' = Shows
  BY <1>1 DEF vars, storeVars, Shows, SnapshotExists
<1>3. /\ \A q \in Refreshers : IsLocal(refresher[q]) /\ HoldsOnly(refresher[q], Shows)
      /\ now.pc \in {"loaded", "valid", "copied"} => now.chain # <<>>
      /\ readContent \in Shows
      /\ setup.reader = "traditional" /\ setup.writer = "traditional"
      /\ <<>> \in Shows /\ NoContent = <<>>
  BY HollowAssumption DEF HollowInv, Sound, ReadsShow, Interactive, Shows
<1>4. ASSUME NEW q \in Refreshers, q # p PROVE HoldsOnly(refresher'[q], Shows)
  <2>1. \/ refresher'[q] = refresher[q]
        \/ refresher'[q] = [refresher[q] EXCEPT !.fresh = FALSE]
    BY <1>1, <1>4
  <2>2. /\ refresher'[q].held = refresher[q].held /\ refresher'[q].base = refresher[q].base
        /\ refresher'[q].chain = refresher[q].chain
    BY <1>3, <2>1 DEF IsLocal
  <2> QED BY <1>3, <2>2 DEF HoldsOnly
<1> SUFFICES HoldsOnly(next, Shows) /\ readContent' \in Shows
  <2>1. \A q \in Refreshers : HoldsOnly(refresher'[q], Shows)
    BY <1>4
  <2> HIDE DEF next
  <2> QED BY <1>2, <2>1 DEF ReadsShow, HoldsOnly
<1>5. IsLocal(now) /\ HoldsOnly(now, Shows)
  BY <1>3
<1>6. ASSUME UNCHANGED readVars PROVE readContent' \in Shows
  BY <1>3, <1>6 DEF readVars
(* Where what is held, copied and planned stays, or comes from the reads. *)
<1>7. ASSUME next.chain = now.chain, next.held \in Shows, next.base \in Shows
      PROVE  HoldsOnly(next, Shows)
  BY <1>5, <1>7 DEF HoldsOnly
<1>8. CASE next = Idle /\ UNCHANGED readVars
  <2>1. Idle.held = <<>> /\ Idle.base = <<>> /\ Idle.chain = <<>>
    BY <1>3 DEF Idle
  <2> QED BY <1>3, <1>6, <1>8, <2>1 DEF HoldsOnly
<1>9. CASE /\ now.pc = "begin" /\ UNCHANGED readVars
           /\ next = [now EXCEPT !.pc = "plan", !.from = readVersion, !.cur = now.target]
  <2>1. next.chain = now.chain /\ next.held = now.held /\ next.base = now.base
    BY <1>5, <1>9 DEF IsLocal
  <2> QED BY <1>5, <1>6, <1>7, <1>9, <2>1 DEF HoldsOnly
<1>10. ASSUME UNCHANGED readVars, NEW b \in Blob, NEW next1, next1 = next,
              next1.chain = <<b>> \o now.chain, next1.held = now.held, next1.base = now.base,
              b.kind = "snapshot" => \E c \in Shows : b.data = Serialize("traditional", c)
       PROVE  HoldsOnly(next, Shows)
  <2>1. now.chain \in Seq(Blob)
    BY <1>5 DEF IsLocal
  <2>2. \A i \in DOMAIN next1.chain :
          next1.chain[i] = b \/ (i - 1 \in DOMAIN now.chain /\ next1.chain[i] = now.chain[i - 1])
    BY <1>10, <2>1, ConsChain
  <2> HIDE DEF next, now
  <2>3. HoldsOnly(next1, Shows)
    BY <1>5, <1>10, <2>2 DEF HoldsOnly
  <2> QED BY <1>10, <2>3
<1>11. CASE /\ now.pc = "plan" /\ now.cur > now.from /\ UNCHANGED readVars
            /\ snapshots[now.cur] # NoBlob
            /\ \E b \in Blob : /\ b.to = now.cur /\ b.to \in Available
                               /\ b.kind = "snapshot" /\ b.data = SnapshotBytes(now.cur)
                               /\ next = [now EXCEPT !.pc = "apply", !.chain = <<b>> \o @]
  <2>1. PICK b \in Blob : /\ b.to = now.cur /\ b.to \in Available
                          /\ b.kind = "snapshot" /\ b.data = SnapshotBytes(now.cur)
                          /\ next = [now EXCEPT !.pc = "apply", !.chain = <<b>> \o @]
    BY <1>11
  <2>2. next.chain = <<b>> \o now.chain /\ next.held = now.held /\ next.base = now.base
    BY <1>5, <2>1 DEF IsLocal
  <2>3. SnapshotExists(now.cur) /\ now.cur \in Versions
    BY <1>11, <2>1, BoundsAssumption DEF SnapshotExists, Available, Versions
  <2>4. \E c \in Shows : b.data = Serialize("traditional", c)
    BY <1>3, <2>1, <2>3 DEF SnapshotBytes, Shows
  <2> HIDE DEF next
  <2> QED BY <1>6, <1>10, <1>11, <2>2, <2>4
<1>12. CASE /\ now.pc = "plan" /\ now.cur > now.from /\ UNCHANGED readVars
            /\ \E b \in Blob : /\ b.kind = "delta"
                               /\ next = [now EXCEPT !.cur = now.cur - 1, !.chain = <<b>> \o @]
  <2>1. PICK b \in Blob : /\ b.kind = "delta"
                          /\ next = [now EXCEPT !.cur = now.cur - 1, !.chain = <<b>> \o @]
    BY <1>12
  <2>2. next.chain = <<b>> \o now.chain /\ next.held = now.held /\ next.base = now.base
    BY <1>5, <2>1 DEF IsLocal
  <2> HIDE DEF next
  <2> QED BY <1>6, <1>10, <1>12, <2>1, <2>2
<1>13. CASE /\ now.pc = "plan" /\ UNCHANGED readVars /\ next = [now EXCEPT !.pc = "apply"]
  <2>1. next.chain = now.chain /\ next.held = now.held /\ next.base = now.base
    BY <1>5, <1>13 DEF IsLocal
  <2> QED BY <1>5, <1>6, <1>7, <1>13, <2>1 DEF HoldsOnly
<1>14. CASE /\ now.pc = "apply" /\ UNCHANGED readVars
            /\ next = [now EXCEPT !.pc = "loaded", !.held = readContent]
  <2>1. next.chain = now.chain /\ next.held = readContent /\ next.base = now.base
    BY <1>5, <1>14 DEF IsLocal
  <2> QED BY <1>3, <1>5, <1>6, <1>7, <1>14, <2>1 DEF HoldsOnly
<1>15. CASE now.pc = "loaded" /\ UNCHANGED readVars /\ next = [now EXCEPT !.pc = "valid"]
  <2>1. next.chain = now.chain /\ next.held = now.held /\ next.base = now.base
    BY <1>5, <1>15 DEF IsLocal
  <2> QED BY <1>5, <1>6, <1>7, <1>15, <2>1 DEF HoldsOnly
<1>16. CASE /\ UNCHANGED readVars
            /\ \E base : /\ base = now.held \/ base = NoContent
                         /\ next = [now EXCEPT !.pc = "copied", !.base = base]
  <2>1. PICK base : /\ base = now.held \/ base = NoContent
                    /\ next = [now EXCEPT !.pc = "copied", !.base = base]
    BY <1>16
  <2>2. next.chain = now.chain /\ next.held = now.held /\ next.base = base
    BY <1>5, <2>1 DEF IsLocal
  <2>3. base \in Shows
    BY <1>3, <1>5, <2>1 DEF HoldsOnly
  <2> QED BY <1>5, <1>6, <1>7, <1>16, <2>2, <2>3 DEF HoldsOnly
<1>17. CASE next = now /\ UNCHANGED readVars
  BY <1>5, <1>6, <1>17
(* Applying a blob shows the snapshot it holds, or what was there before. *)
<1>18. CASE /\ now.pc \in {"apply", "copied"} /\ now.chain # <<>>
            /\ \/ /\ Head(now.chain).kind = "snapshot"
                  /\ readContent' = Deserialize(setup.reader, Head(now.chain).data)
               \/ readContent' = ApplyDelta(now.base, DeserializeDelta(setup.reader, Head(now.chain).data))
            /\ next = [now EXCEPT !.pc = "apply", !.chain = Tail(@),
                                  !.held = NoContent, !.fresh = TRUE, !.base = NoContent]
  <2>1. /\ next.chain = Tail(now.chain) /\ next.held = NoContent /\ next.base = NoContent
        /\ now.chain \in Seq(Blob)
    BY <1>5, <1>18 DEF IsLocal
  <2>2. /\ Head(now.chain) = now.chain[1] /\ 1 \in DOMAIN now.chain
        /\ \A i \in DOMAIN Tail(now.chain) :
             i + 1 \in DOMAIN now.chain /\ Tail(now.chain)[i] = now.chain[i + 1]
    BY <1>18, <2>1, TailOfChain
  <2>3. HoldsOnly(next, Shows)
    <3> HIDE DEF next, now
    <3> QED BY <1>3, <1>5, <2>1, <2>2 DEF HoldsOnly
  <2>4. readContent' \in Shows
    <3>1. CASE /\ Head(now.chain).kind = "snapshot"
               /\ readContent' = Deserialize(setup.reader, Head(now.chain).data)
      <4>1. PICK c \in Shows : Head(now.chain).data = Serialize("traditional", c)
        BY <1>5, <2>2, <3>1 DEF HoldsOnly
      <4> QED BY <1>3, <3>1, <4>1, SnapshotsAreDecoded
    <3>2. CASE readContent' = ApplyDelta(now.base, DeserializeDelta(setup.reader, Head(now.chain).data))
      BY <1>3, <1>5, <3>2, DeltasAreIgnored DEF HoldsOnly
    <3> QED BY <1>18, <3>1, <3>2
  <2> QED BY <2>3, <2>4
<1> HIDE DEF next
<1> QED
  BY <1>1, <1>8, <1>9, <1>11, <1>12, <1>13, <1>14, <1>15, <1>16, <1>17, <1>18
     DEF RefreshEffect, next

(***************************************************************************)
(* The steps of a session                                                  *)
(***************************************************************************)

(* What the producer does in a session. *)
CycleActions ==
  \/ \E c \in Contents : Populate(c)
  \/ EmptyCycle \/ IdenticalCycle \/ AllocateVersion
  \/ StoreSnapshot \/ StoreDelta \/ Commit \/ Announce

LEMMA ProducerKeeps ==
  ASSUME SessionSetting, SessionInv, CycleActions, ProducerStep,
         UNCHANGED <<session.held, session.existing>>
  PROVE  /\ HollowInv' /\ AppendInv' /\ FirstInv' /\ DataInv'
         /\ setup' = Interactive
         /\ pc' = "committed" => newVersion' = currentVersion'
<1>1. KeepsCounting /\ [Next]_vars /\ "restoreRace" \notin Events
  BY DEF SessionSetting, KeepsCounting, ProducerStep, Next, CycleStep
<1>2. HollowInv' /\ AppendInv'
  BY <1>1, ProducerKeepsHollowInv, AppendStep DEF SessionInv
<1>3. Shows \subseteq Shows' /\ (SnapshotExists(1) => SnapshotExists(1)')
  BY <1>1, ShowsGrow DEF SessionInv
<1>4. UNCHANGED <<readContent, refresher, setup>>
  BY DEF ProducerStep, consumerVars, readVars
<1>5. ReadsShow(Shows)'
  BY <1>3, <1>4, ReadsStillShow DEF SessionInv, DataInv
<1>6. DataInv'
  BY <1>3, <1>5 DEF SessionInv, DataInv
<1>7. pc' = "committed" => newVersion' = currentVersion'
  BY DEF CycleActions, Populate, EmptyCycle, IdenticalCycle, AllocateVersion, StoreSnapshot,
         StoreDelta, Commit, Announce, Return, SessionInv, versionVars
<1>8. FirstInv'
  <2>1. CASE SnapshotExists(1)
    BY <1>3, <2>1 DEF FirstInv
  <2>2. CASE /\ lastSnapshotVersion = 0 /\ currentVersion = 0
             /\ pc \in {"idle", "populated", "validating"}
    <3>1. CASE \/ \E c \in Contents : Populate(c)
               \/ EmptyCycle \/ AllocateVersion \/ IdenticalCycle
      BY <2>2, <3>1 DEF Populate, EmptyCycle, AllocateVersion, IdenticalCycle, Return, FirstInv,
                        versionVars
    <3>2. CASE StoreSnapshot
      <4>1. newVersion = 1 /\ snapshots' = [snapshots EXCEPT ![1] = currentState]
        BY <2>2, <3>2 DEF StoreSnapshot, SessionInv, AppendInv, ChainInv
      <4>2. /\ snapshots \in [Versions -> Contents \cup {NoBlob}] /\ 1 \in Versions
            /\ currentState \in Contents
        BY <3>2, BoundsAssumption
           DEF StoreSnapshot, SessionInv, AppendInv, ChainInv, TypeInv, TypeOK, Versions
      <4>3. snapshots'[1] # NoBlob
        BY <4>1, <4>2, ContentsAssumption
      <4> QED BY <4>3 DEF FirstInv, SnapshotExists
    <3>3. CASE StoreDelta \/ Commit \/ Announce
      BY <2>2, <3>3 DEF StoreDelta, Commit, Announce, ShouldCreateSnapshot
    <3> QED BY <3>1, <3>2, <3>3 DEF CycleActions
  <2> QED BY <2>1, <2>2 DEF SessionInv, FirstInv
<1> QED BY <1>2, <1>4, <1>6, <1>7, <1>8 DEF SessionInv

(* Where the producer rests, so does the prompt's version. *)
LEMMA ConsumerKeeps ==
  ASSUME SessionInv, HollowInv', UNCHANGED <<vars, setup>>, PromptInv',
         ReadsShow(Shows)', session'.held \in Shows, session'.existing \in Shows
  PROVE  SessionInv'
<1>1. Shows' = Shows /\ (SnapshotExists(1)' <=> SnapshotExists(1))
  BY DEF vars, storeVars, Shows, SnapshotExists
<1>2. AppendInv'
  <2>1. Available' = Available /\ ChainInv'
    BY StoreStays DEF SessionInv, AppendInv
  <2>2. LogLength' = LogLength
    BY DEF vars, versionVars, LogLength
  <2>3. \A v \in Versions : Stored(v)' <=> Stored(v)
    BY DEF vars, storeVars, Stored
  <2> QED BY <2>1, <2>2, <2>3 DEF SessionInv, AppendInv
<1>3. FirstInv'
  BY <1>1 DEF SessionInv, FirstInv, vars, versionVars
<1>4. DataInv'
  BY <1>1 DEF DataInv
<1> QED BY <1>2, <1>3, <1>4 DEF SessionInv, vars, versionVars

LEMMA SessionStep ==
  ASSUME SessionSetting
  PROVE  SessionInv /\ [SessionNext]_sessionVars => SessionInv'
<1> SUFFICES ASSUME SessionInv, [SessionNext]_sessionVars PROVE SessionInv'
  OBVIOUS
<1>1. /\ HollowInv /\ PromptInv /\ DataInv /\ setup = Interactive
      /\ "restoreRace" \notin Events /\ currentVersion \in 0..MaxVersion
      /\ MaxVersion \in Nat
  BY BoundsAssumption
     DEF SessionInv, SessionSetting, KeepsCounting, AppendInv, ChainInv, TypeInv, TypeOK
<1>2. /\ session = [at |-> session.at, version |-> session.version, held |-> session.held,
                    fresh |-> session.fresh, existing |-> session.existing]
      /\ session.at \in {"start", "prompt", "refresh", "read", "evolve", "cycle"}
      /\ session.version \in 0..MaxVersion
      /\ session.at # "cycle" => pc = "idle" /\ session.version \in {0, currentVersion}
      /\ session.at \in {"refresh", "read"} => session.version > 0
      /\ session.at = "evolve" /\ session.version = 0 => session.existing = <<>>
  BY <1>1 DEF PromptInv
<1>3. /\ session.held \in Shows /\ session.existing \in Shows /\ ReadsShow(Shows)
      /\ readContent \in Shows /\ <<>> \in Shows
  BY <1>1 DEF DataInv, ReadsShow, Shows
<1>4. ASSUME [WideNext]_hollowVars PROVE HollowInv'
  BY <1>1, <1>4, WideKeepsHollowInv
<1>5. ASSUME UNCHANGED <<vars, readContent, refresher>> PROVE ReadsShow(Shows)'
  <2>1. Shows' = Shows
    BY <1>5 DEF vars, storeVars, Shows, SnapshotExists
  <2> QED BY <1>3, <1>5, <2>1, ReadsStillShow
(* Steps of the consumer, and of the prompt around it. *)
<1>6. ASSUME UNCHANGED <<vars, setup, session>>, HollowInv', ReadsShow(Shows)' PROVE SessionInv'
  <2>1. PromptInv'
    BY <1>1, <1>6 DEF PromptInv, vars, versionVars
  <2> QED BY <1>3, <1>6, <2>1, ConsumerKeeps
<1>7. CASE UNCHANGED sessionVars
  <2>1. UNCHANGED <<hollowVars, session>>
    BY <1>7 DEF sessionVars, zeroCopyVars
  <2>2. UNCHANGED <<vars, setup, session, readContent, refresher>>
    BY <2>1 DEF hollowVars, consumerVars, readVars
  <2> QED BY <1>4, <1>5, <1>6, <2>1, <2>2
<1>8. ASSUME NEW s,
             session' = s,
             s = [at |-> s.at, version |-> s.version, held |-> s.held,
                  fresh |-> s.fresh, existing |-> s.existing],
             s.at \in {"prompt", "refresh", "read", "evolve"},
             s.version = session.version, session.at # "cycle",
             s.at \in {"refresh", "read"} => s.version > 0,
             s.at = "evolve" /\ s.version = 0 => s.existing = <<>>,
             s.held \in Shows, s.existing \in Shows,
             UNCHANGED <<vars, setup>>, HollowInv', ReadsShow(Shows)'
      PROVE  SessionInv'
  <2>1. pc' = pc /\ currentVersion' = currentVersion
    BY <1>8 DEF vars, versionVars
  <2>2. PromptInv'
    BY <1>2, <1>8, <2>1 DEF PromptInv
  <2> QED BY <1>8, <2>2, ConsumerKeeps
<1>9. UNCHANGED zeroCopyVars => /\ UNCHANGED <<vars, setup, readContent, refresher>>
                                /\ HollowInv' /\ ReadsShow(Shows)'
  <2> SUFFICES ASSUME UNCHANGED zeroCopyVars
               PROVE  /\ UNCHANGED <<vars, setup, readContent, refresher>>
                      /\ HollowInv' /\ ReadsShow(Shows)'
    OBVIOUS
  <2>1. UNCHANGED hollowVars /\ UNCHANGED <<vars, setup, readContent, refresher>>
    BY DEF zeroCopyVars, hollowVars, consumerVars, readVars
  <2> QED BY <1>4, <1>5, <2>1
<1>10. CASE ReadNothing
  <2>1. PICK s : s = [session EXCEPT !.at = "evolve", !.existing = <<>>]
    OBVIOUS
  <2>2. session' = s /\ session.at = "prompt" /\ session.version = 0
    BY <1>10, <2>1 DEF ReadNothing
  <2>3. s = [at |-> s.at, version |-> s.version, held |-> s.held, fresh |-> s.fresh, existing |-> s.existing]
    BY <1>2, <2>1
  <2>4. s.at = "evolve" /\ s.version = session.version /\ s.held = session.held /\ s.existing = <<>>
    BY <1>2, <2>1
  <2> QED BY <1>2, <1>3, <1>8, <1>9, <1>10, <2>2, <2>3, <2>4 DEF ReadNothing
<1>11. CASE ReadExistingData
  <2>1. PICK s : s = [at |-> "refresh", version |-> session.version, held |-> session.held,
                      fresh |-> session.fresh, existing |-> session.existing]
    OBVIOUS
  <2>2. /\ session' = s /\ session.at = "prompt" /\ session.version > 0
        /\ TriggerRefreshToWithZeroCopy(session.version)
    BY <1>2, <1>11, <2>1 DEF ReadExistingData
  <2>3. /\ UNCHANGED <<vars, setup, readContent>>
        /\ Goto("manual", [Idle EXCEPT !.pc = "begin", !.target = session.version])
        /\ StartRefresh
    BY <1>2, <2>2 DEF TriggerRefreshToWithZeroCopy, StartRefresh, readVars
  <2>4. HollowInv'
    BY <1>4, <2>3 DEF WideNext
  <2>5. ReadsShow(Shows)'
    <3>1. Shows' = Shows
      BY <2>3 DEF vars, storeVars, Shows, SnapshotExists
    <3>2. PICK r : r = [Idle EXCEPT !.pc = "begin", !.target = session.version]
      OBVIOUS
    <3>3. HoldsOnly(r, Shows)
      BY <1>3, <3>2, HollowAssumption DEF Idle, HoldsOnly
    <3>4. /\ refresher'["manual"] = r
          /\ \A q \in Refreshers : q # "manual" => refresher'[q] = refresher[q]
      BY <1>1, <2>3, <3>2, GotoOnly DEF HollowInv, Refreshers
    <3>5. \A q \in Refreshers : HoldsOnly(refresher[q], Shows)
      BY <1>3 DEF ReadsShow
    <3>6. \A q \in Refreshers : HoldsOnly(refresher'[q], Shows)
      BY <3>3, <3>4, <3>5
    <3> QED BY <1>3, <2>3, <3>1, <3>6 DEF ReadsShow, HoldsOnly
  <2> QED BY <1>3, <1>8, <2>1, <2>2, <2>3, <2>4, <2>5
<1>12. CASE GetCurrentState
  <2>1. PICK s : s = [session EXCEPT !.at = "read", !.held = readContent, !.fresh = TRUE]
    OBVIOUS
  <2>2. session' = s /\ session.at = "refresh"
    BY <1>12, <2>1 DEF GetCurrentState
  <2>3. s = [at |-> s.at, version |-> s.version, held |-> s.held, fresh |-> s.fresh, existing |-> s.existing]
    BY <1>2, <2>1
  <2>4. s.at = "read" /\ s.version = session.version /\ s.held = readContent /\ s.existing = session.existing
    BY <1>2, <2>1
  <2> QED BY <1>2, <1>3, <1>8, <1>9, <1>12, <2>2, <2>3, <2>4 DEF GetCurrentState
<1>13. CASE GetAllData
  <2>1. PICK s : s = [session EXCEPT !.at = "evolve", !.existing = session.held, !.held = <<>>, !.fresh = TRUE]
    OBVIOUS
  <2>2. session' = s /\ session.at = "read"
    BY <1>13, <2>1 DEF GetAllData
  <2>3. s = [at |-> s.at, version |-> s.version, held |-> s.held, fresh |-> s.fresh, existing |-> s.existing]
    BY <1>2, <2>1
  <2>4. s.at = "evolve" /\ s.version = session.version /\ s.held = <<>> /\ s.existing = session.held
    BY <1>2, <2>1
  <2> QED BY <1>2, <1>3, <1>8, <1>9, <1>13, <2>2, <2>3, <2>4 DEF GetAllData
<1>14. CASE GetAllDataPanics
  <2>1. /\ UNCHANGED <<vars, setup, session, readContent, refresher, feedVars, readVersion>>
        /\ panicked' = TRUE
    BY <1>14 DEF GetAllDataPanics, readVars
  <2>2. Available' = Available /\ ChainInv'
    BY <1>1, <2>1, StoreStays DEF HollowInv
  <2>3. HollowInv'
    BY <1>1, <2>1, <2>2 DEF HollowInv, FeedTypes, InboxInv, feedVars
  <2> QED BY <1>5, <1>6, <2>1, <2>3
<1>15. ASSUME NEW p \in Refreshers, RefreshStep(p)
       PROVE  UNCHANGED <<vars, setup>> /\ HollowInv' /\ ReadsShow(Shows)'
  <2>1. HollowInv'
    BY <1>4, <1>15 DEF WideNext
  <2>2. UNCHANGED <<vars, setup>>
    BY <1>1, <1>15, RefreshHasEffect
  <2> QED BY <1>1, <1>3, <1>15, <2>1, <2>2, RefreshShows
<1>16. CASE RegularRefresh /\ UNCHANGED session
  BY <1>6, <1>15, <1>16 DEF RegularRefresh, Refreshers
<1>17. CASE CreateView /\ UNCHANGED session
  <2>1. UNCHANGED hollowVars
    BY <1>17 DEF CreateView, ViewFromSnapshot, ViewHasNoSnapshot, ViewFromDelta,
                 ViewHasEmptyDelta, ViewHasNoBlob, ViewFromEarlierSnapshot
  <2>2. UNCHANGED <<vars, setup, readContent, refresher>>
    BY <2>1 DEF hollowVars, consumerVars, readVars
  <2> QED BY <1>4, <1>5, <1>6, <1>17, <2>1, <2>2
<1>18. CASE FollowAnnouncements
  <2>1. UNCHANGED <<vars, setup>> /\ HollowInv' /\ ReadsShow(Shows)'
    <3>1. CASE Subscribe
      <4>1. FeedStep
        BY <1>1, <3>1 DEF Subscribe, FeedStep, HollowInv, FeedTypes
      <4>2. UNCHANGED <<vars, setup, readContent, refresher>>
        BY <3>1 DEF Subscribe, consumerVars, readVars
      <4> QED BY <1>4, <1>5, <4>1, <4>2 DEF WideNext
    <3>2. CASE Receive
      <4>1. HollowInv' /\ UNCHANGED <<vars, setup, readContent>>
        BY <1>4, <3>2 DEF WideNext, Receive, readVars
      <4>2. Shows' = Shows
        BY <4>1 DEF vars, storeVars, Shows, SnapshotExists
      <4>3. PICK r : r = [Idle EXCEPT !.pc = "begin", !.target = Head(inbox)]
        OBVIOUS
      <4>4. HoldsOnly(r, Shows)
        BY <1>3, <4>3, HollowAssumption DEF Idle, HoldsOnly
      <4>5. /\ refresher'["auto"] = r
            /\ \A q \in Refreshers : q # "auto" => refresher'[q] = refresher[q]
        BY <1>1, <3>2, <4>3, GotoOnly DEF HollowInv, Refreshers, Receive
      <4>6. \A q \in Refreshers : HoldsOnly(refresher[q], Shows)
        BY <1>3 DEF ReadsShow
      <4>7. \A q \in Refreshers : HoldsOnly(refresher'[q], Shows)
        BY <4>4, <4>5, <4>6
      <4> QED BY <1>3, <4>1, <4>2, <4>7 DEF ReadsShow, HoldsOnly
    <3>3. CASE RefreshStep("auto")
      BY <1>15, <3>3 DEF Refreshers
    <3> QED BY <1>18, <3>1, <3>2, <3>3 DEF FollowAnnouncements, AutoRefresh
  <2>2. \/ session' = session
        \/ session' = [session EXCEPT !.fresh = @ /\ session.at # "read"]
    BY <1>18 DEF FollowAnnouncements
  <2>3. /\ session' = [at |-> session'.at, version |-> session'.version, held |-> session'.held,
                       fresh |-> session'.fresh, existing |-> session'.existing]
        /\ session'.at = session.at /\ session'.version = session.version
        /\ session'.held = session.held /\ session'.existing = session.existing
    BY <1>2, <2>2
  <2>4. pc' = pc /\ currentVersion' = currentVersion
    BY <2>1 DEF vars, versionVars
  <2>5. PromptInv'
    BY <1>2, <2>3, <2>4 DEF PromptInv
  <2> QED BY <1>3, <2>1, <2>3, <2>5, ConsumerKeeps
(* Steps of the producer. *)
<1>19. ASSUME CycleActions, ProducerStep, PromptInv',
              session'.held = session.held, session'.existing = session.existing
       PROVE  SessionInv'
  BY <1>19, ProducerKeeps DEF SessionInv
<1>20. ASSUME NEW s, session' = s,
              s = [at |-> s.at, version |-> s.version, held |-> session.held,
                   fresh |-> session.fresh, existing |-> session.existing],
              \/ s.at = "cycle" /\ s.version = session.version
              \/ s.at = "prompt" /\ pc' = "idle" /\ s.version \in {0, currentVersion'}
                   /\ currentVersion' = currentVersion,
              CycleActions, ProducerStep
       PROVE  SessionInv'
  <2>1. PromptInv'
    BY <1>1, <1>2, <1>20 DEF PromptInv
  <2>2. session'.held = session.held /\ session'.existing = session.existing
    BY <1>20
  <2> QED BY <1>19, <1>20, <2>1, <2>2
<1>21. CASE RunProducer
  <2>1. PICK s : s = [at |-> "cycle", version |-> session.version, held |-> session.held,
                      fresh |-> session.fresh, existing |-> session.existing]
    OBVIOUS
  <2>2. session' = s
    BY <1>2, <1>21, <2>1 DEF RunProducer
  <2>3. CycleActions /\ ProducerStep
    BY <1>21 DEF RunProducer, CycleActions, ProducerStep, Surroundings, SessionSetting
  <2> QED BY <1>20, <2>1, <2>2, <2>3
<1>22. CASE Evolve
  <2>1. PICK c \in Evolutions(session.existing, session.version) :
          IF c = <<>>
          THEN EmptyCycle /\ session' = [session EXCEPT !.at = "prompt", !.version = 0]
          ELSE Populate(c) /\ session' = [session EXCEPT !.at = "cycle"]
    BY <1>22 DEF Evolve
  <2>2. UNCHANGED <<feedVars, consumerVars, viewVars>> /\ session.at = "evolve"
    BY <1>22 DEF Evolve
  <2>3. c \in States /\ NoContent = <<>>
    <3>1. session.existing \in States
      <4>1. \A v \in Versions : snapshots[v] # NoBlob => snapshots[v] \in Contents
        BY <1>1 DEF HollowInv, ChainInv, TypeInv, TypeOK
      <4>2. NoContent = <<>>
        BY HollowAssumption
      <4> QED BY <1>3, <4>1, <4>2 DEF Shows, SnapshotExists, States
    <3> QED BY <1>2, <3>1, HollowAssumption DEF SessionSetting
  <2>4. CASE c = <<>>
    <3>1. PICK s : s = [at |-> "prompt", version |-> 0, held |-> session.held,
                        fresh |-> session.fresh, existing |-> session.existing]
      OBVIOUS
    <3>2. session' = s /\ EmptyCycle
      BY <1>2, <2>1, <2>4, <3>1
    <3>3. CycleActions /\ ProducerStep
      BY <2>2, <3>2 DEF CycleActions, ProducerStep, Surroundings
    <3>4. pc' = "idle" /\ currentVersion' = currentVersion
      BY <3>2 DEF EmptyCycle, Return, versionVars
    <3> QED BY <1>20, <3>1, <3>2, <3>3, <3>4
  <2>5. CASE c # <<>>
    <3>1. PICK s : s = [at |-> "cycle", version |-> session.version, held |-> session.held,
                        fresh |-> session.fresh, existing |-> session.existing]
      OBVIOUS
    <3>2. session' = s /\ Populate(c) /\ c \in Contents
      BY <1>2, <2>1, <2>3, <2>5, <3>1 DEF States
    <3>3. CycleActions /\ ProducerStep
      BY <2>2, <3>2 DEF CycleActions, ProducerStep, Surroundings
    <3> QED BY <1>20, <3>1, <3>2, <3>3
  <2> QED BY <2>4, <2>5
<1>23. CASE RunCycle /\ ReturnToPrompt
  <2>1. CycleActions /\ ProducerStep /\ session.at = "cycle"
    BY <1>23 DEF RunCycle, CycleActions, ProducerStep, UnannouncedStep
  <2>2. CASE pc' = "idle"
    <3>1. PICK s : s = [session EXCEPT !.at = "prompt", !.version = returned']
      OBVIOUS
    <3>2. session' = s
      BY <1>23, <2>2, <3>1, Zenon DEF ReturnToPrompt
    <3>3. /\ s = [at |-> s.at, version |-> s.version, held |-> session.held,
                  fresh |-> session.fresh, existing |-> session.existing]
          /\ s.at = "prompt" /\ s.version = returned'
      BY <1>2, <3>1
    <3>4. returned' \in {0, currentVersion'} /\ currentVersion' = currentVersion
      BY <1>23, <2>2
         DEF RunCycle, IdenticalCycle, AllocateVersion, StoreSnapshot, StoreDelta, Commit,
             Announce, Return, versionVars, SessionInv
    <3> QED BY <1>20, <2>1, <2>2, <3>2, <3>3, <3>4
  <2>3. CASE pc' # "idle"
    <3>1. PICK s : s = session
      OBVIOUS
    <3>2. session' = s
      BY <1>23, <2>3, <3>1, Zenon DEF ReturnToPrompt
    <3> QED BY <1>2, <1>20, <2>1, <3>1, <3>2
  <2> QED BY <2>2, <2>3
<1> QED
  BY <1>7, <1>10, <1>11, <1>12, <1>13, <1>14, <1>16, <1>17, <1>18, <1>21, <1>22, <1>23
     DEF SessionNext

(***************************************************************************)
(* The commands                                                            *)
(***************************************************************************)

(* A consumer that starts from nothing reaches every stored version: from  *)
(* its nearest snapshot on, deltas lead there.                             *)
LEMMA StoredIsPlanned ==
  ASSUME HollowInv, SnapshotExists(1), NEW v \in Versions, Stored(v)
  PROVE  RunConsumerInMemory(v) = v
<1> DEFINE deltaFrom == {f \in FromVersions : DeltaFrom(f)}
           before == {u \in ListVersions : u <= v}
<1>1. v \in Nat /\ v > 0 /\ MaxVersion \in Nat /\ v <= MaxVersion
  BY BoundsAssumption DEF Versions
<1>2. ListVersions \subseteq 1..MaxVersion /\ 1 \in ListVersions
  BY BoundsAssumption DEF ListVersions
<1>3. before \subseteq 0..MaxVersion /\ 1 \in before
  <2>1. 1..MaxVersion \subseteq 0..MaxVersion /\ 1 <= v
    BY <1>1
  <2>2. before \subseteq ListVersions
    OBVIOUS
  <2> QED BY <1>2, <2>1, <2>2
<1>4. PICK u \in before : \A w \in before : w <= u
  <2> HIDE DEF before
  <2> QED BY <1>1, <1>3, LargestExists
<1>5. u \in ListVersions /\ u <= v /\ u \in Nat
  BY <1>2, <1>4
<1>6. ASSUME NEW f \in u..(v - 1) PROVE f \in deltaFrom
  <2>1. f \in FromVersions /\ f \in Nat /\ f + 1 \in Versions /\ f + 1 \in 1..v /\ f + 1 > u
    BY <1>1, <1>5 DEF FromVersions, Versions
  <2>2. Stored(f + 1)
    BY <2>1 DEF HollowInv, ChainInv, NoGaps
  <2>3. f + 1 \notin ListVersions
    BY <1>1, <1>4, <1>5, <2>1
  <2>4. snapshots[f + 1] = NoBlob
    BY <2>1, <2>3 DEF ListVersions, SnapshotExists, Versions
  <2>5. (f + 1) - 1 = f
    BY <2>1
  <2>6. deltas[f] # NoBlob
    BY <2>2, <2>4, <2>5 DEF Stored
  <2> QED BY <2>1, <2>6 DEF DeltaFrom, DeltaExists
<1>7. \E w \in ListVersions \cup {0} : w <= v /\ w..(v - 1) \subseteq deltaFrom
  <2> HIDE DEF deltaFrom
  <2> QED BY <1>5, <1>6
<1> HIDE DEF deltaFrom
<1> QED BY <1>1, <1>7 DEF RunConsumerInMemory, Shown, deltaFrom

(***************************************************************************)
(* readExistingData of the command line, although the refresh loop         *)
(* replaces the consumer's state meanwhile, hands a command one snapshot   *)
(* to evolve, or nothing; and the version the prompt shows is the          *)
(* producer's, can be inspected, and is reached by a new consumer.         *)
(***************************************************************************)
THEOREM SessionReadsStay ==
  ASSUME SessionSetting
  PROVE  SessionSpec => []SessionReadsASnapshot
<1>1. SessionInv => SessionReadsASnapshot
  <2> SUFFICES ASSUME SessionInv PROVE SessionReadsASnapshot
    OBVIOUS
  <2>1. /\ HollowInv /\ AppendInv /\ FirstInv /\ PromptInv
        /\ session.existing \in Shows
        /\ currentVersion \in 0..MaxVersion /\ MaxVersion \in Nat
    BY BoundsAssumption DEF SessionInv, DataInv, AppendInv, ChainInv, TypeInv, TypeOK
  <2>2. session.at # "cycle" => session.version \in {0, currentVersion}
    BY <2>1 DEF PromptInv
  <2>3. session.at = "evolve" =>
          \/ session.existing = <<>>
          \/ \E u \in 1..session.version : session.existing = snapshots[u]
    <3> SUFFICES ASSUME session.at = "evolve", session.existing # <<>>
                 PROVE  \E u \in 1..session.version : session.existing = snapshots[u]
      OBVIOUS
    <3>1. PICK u \in Versions : SnapshotExists(u) /\ session.existing = snapshots[u]
      BY <2>1 DEF Shows
    <3>2. pc = "idle" /\ session.version = currentVersion
      BY <2>1 DEF PromptInv
    <3>3. u <= currentVersion
      BY <2>1, <3>1, <3>2 DEF AppendInv, LogLength, Stored, SnapshotExists
    <3> QED BY <2>1, <3>1, <3>2, <3>3 DEF Versions
  <2>4. ASSUME session.at = "prompt", session.version > 0
        PROVE  /\ TRUE \in {ShowBlobSummary(session.version)[k] : k \in {"snapshot", "delta"}}
               /\ \/ RunInspectInMemory(session.version).snapshot
                  \/ RunInspectInMemory(session.version).incoming
               /\ RunConsumerInMemory(session.version) = session.version
    <3>1. PICK v : v = session.version
      OBVIOUS
    <3>2. v = currentVersion /\ v \in Versions /\ Stored(v) /\ pc = "idle"
      BY <2>1, <2>4, <3>1
         DEF PromptInv, Versions, HollowInv, ChainInv, VisibleVersionsAreStored
    <3>3. SnapshotExists(1)
      <4>1. currentVersion # 0
        BY <3>2 DEF Versions
      <4> QED BY <2>1, <4>1 DEF FirstInv
    <3>4. RunConsumerInMemory(v) = v
      BY <2>1, <3>2, <3>3, StoredIsPlanned
    <3>5. SnapshotExists(v) \/ (v > 1 /\ DeltaFrom(v - 1) /\ deltas[v - 1].to = v)
      <4>1. CASE snapshots[v] # NoBlob
        BY <3>2, <4>1 DEF SnapshotExists, Versions
      <4>2. CASE snapshots[v] = NoBlob
        <5>1. v # 1
          BY <3>3, <4>2 DEF SnapshotExists
        <5>2. v - 1 \in FromVersions /\ deltas[v - 1] # NoBlob /\ v > 1 /\ v - 1 >= 0
          BY <3>2, <4>2, <5>1, <2>1 DEF Stored, Versions, FromVersions
        <5>3. deltas[v - 1].to = v
          BY <2>1, <3>2, <5>2, StoredBlobs
        <5> QED BY <5>2, <5>3 DEF DeltaFrom, DeltaExists
      <4> QED BY <4>1, <4>2
    <3>6. TRUE \in {ShowBlobSummary(v)[k] : k \in {"snapshot", "delta"}}
      BY <3>5 DEF ShowBlobSummary
    <3>7. RunInspectInMemory(v).snapshot \/ RunInspectInMemory(v).incoming
      BY <3>5 DEF RunInspectInMemory
    <3> QED BY <3>1, <3>4, <3>6, <3>7
  <2> QED BY <2>2, <2>3, <2>4 DEF SessionReadsASnapshot
<1> QED BY <1>1, SessionInvInit, SessionStep, PTL DEF SessionSpec

(* What the theorems ask of the changes of records in DeltasApply holds of *)
(* every set of lists of which no two are more than one record apart in    *)
(* length: generateDeltasForNonPKTypes and applyDelta agree on each.       *)
THEOREM ShortListsApply ==
  ASSUME NEW V, Contents \subseteq Seq(V),
         \A b, c \in Contents : Len(b) <= Len(c) + 1
  PROVE  DeltasApply
<1>1. SUFFICES ASSUME NEW b \in States, NEW c \in Contents
               PROVE  ApplyDelta(b, DeltaOfPlain(b, c)) = c
  BY DEF DeltasApply
<1>2. NoContent = <<>> /\ c # NoContent /\ NoContent \in Seq(V)
  BY HollowAssumption, ContentsAssumption
<1>3. b \in Seq(V) /\ c \in Seq(V) /\ c # <<>>
  BY <1>2 DEF States
<1>4. Len(b) <= Len(c) + 1
  <2>1. CASE b \in Contents
    BY <2>1
  <2>2. CASE b = <<>>
    <3>1. Len(b) = 0 /\ Len(c) \in Nat
      BY <1>3, <2>2
    <3> QED BY <3>1
  <2> QED BY <1>2, <2>1, <2>2 DEF States
<1> QED BY <1>3, <1>4, ListsApply

=============================================================================
