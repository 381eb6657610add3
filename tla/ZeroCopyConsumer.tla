-------------------------- MODULE ZeroCopyConsumer --------------------------
(***************************************************************************)
(* consumer/zero_copy_consumer.go: a consumer that keeps, beside its read  *)
(* state, the bytes of blobs as zero-copy views.  It wraps the consumer of *)
(* Hollow.tla: TriggerRefreshToWithZeroCopy is a refresh by the caller     *)
(* ("manual") followed by retrievals of its own, between which the         *)
(* producer publishes and the refresh loop ("auto") moves the read state   *)
(* on; the loop makes no views.                                            *)
(*                                                                         *)
(* The serializers of the producer, of the embedded consumer and of the    *)
(* views are options of their own (Setups in Hollow.tla).                  *)
(***************************************************************************)
EXTENDS Hollow

CONSTANT NoView

ASSUME ZeroCopyAssumption ==
  NoView \notin {[format |-> f, payload |-> p] :
                   f \in {"json", "capnp", "text", "packed", "empty"}, p \in States}

VARIABLES
  zeroCopyViews,   \* version -> the bytes of its view
  call             \* the running TriggerRefreshToWithZeroCopy

viewVars == <<zeroCopyViews, call>>
zeroCopyVars == <<hollowVars, viewVars>>

NoCall == [pc |-> "none", version |-> 0]

ZeroCopyInit ==
  /\ HollowInit
  /\ zeroCopyViews = [v \in 0..MaxVersion |-> NoView]
  /\ call = NoCall

-----------------------------------------------------------------------------
(* The regular refresh is to a version the caller names, 0 included, which *)
(* is where a consumer starts.                                             *)
TriggerRefreshToWithZeroCopy(version) ==
  /\ call.pc = "none"
  /\ refresher["manual"].pc = "idle"
  /\ ~panicked
  /\ Goto("manual", [Idle EXCEPT !.pc = "begin", !.target = version])
  /\ call' = [pc |-> "refresh", version |-> version]
  /\ UNCHANGED <<vars, feedVars, readVars, panicked, setup, zeroCopyViews>>

(* An error of the regular refresh is the call's; without one the view     *)
(* comes next.                                                             *)
RegularRefresh ==
  /\ RefreshStep("manual")
  /\ call' = IF call.pc # "refresh" \/ refresher'["manual"].pc # "idle" THEN call
             ELSE IF PlanGap("manual") \/ DecodeFails("manual") THEN NoCall
             ELSE [call EXCEPT !.pc = "snapshot"]
  /\ UNCHANGED zeroCopyViews

-----------------------------------------------------------------------------
(* blobSupportsZeroCopy reads the writer's mode in the blob's metadata. *)
BlobSupportsZeroCopy == setup.writer # "traditional"

(* The last part of createZeroCopyViewForVersion; whatever fails in it is  *)
(* only reported.                                                          *)
StoreView(bytes) ==
  /\ zeroCopyViews' =
       IF BlobSupportsZeroCopy /\ HasZeroCopyView(setup.viewer, bytes)
       THEN [zeroCopyViews EXCEPT ![call.version] = bytes] ELSE zeroCopyViews
  /\ call' = NoCall

SnapshotExists(version) == version > 0 /\ snapshots[version] # NoBlob
DeltaExists(from) == from >= 0 /\ deltas[from] # NoBlob

ViewFromSnapshot ==
  /\ call.pc = "snapshot"
  /\ SnapshotExists(call.version)
  /\ StoreView(SnapshotBytes(call.version))
  /\ UNCHANGED hollowVars

ViewHasNoSnapshot ==
  /\ call.pc = "snapshot"
  /\ ~SnapshotExists(call.version)
  /\ call' = [call EXCEPT !.pc = "delta"]
  /\ UNCHANGED <<hollowVars, zeroCopyViews>>

ViewFromDelta ==
  /\ call.pc = "delta"
  /\ DeltaExists(call.version - 1)
  /\ DeltaBytes(call.version - 1).format # "empty"
  /\ StoreView(DeltaBytes(call.version - 1))
  /\ UNCHANGED hollowVars

(* An empty delta has no bytes to look at; the newest listed snapshot up   *)
(* to the version is taken instead.                                        *)
ViewHasEmptyDelta ==
  /\ call.pc = "delta"
  /\ DeltaExists(call.version - 1)
  /\ DeltaBytes(call.version - 1).format = "empty"
  /\ call' = [call EXCEPT !.pc = "list"]
  /\ UNCHANGED <<hollowVars, zeroCopyViews>>

(* "no blob found for version": reported only. *)
ViewHasNoBlob ==
  /\ call.pc = "delta"
  /\ ~DeltaExists(call.version - 1)
  /\ call' = NoCall
  /\ UNCHANGED <<hollowVars, zeroCopyViews>>

Earlier(version) == {v \in 1..version : SnapshotExists(v)}

(* Slip: snapshots after the version count as well (ViewsAreNearest). *)
ViewFromNewestSnapshot ==
  /\ call.pc = "list"
  /\ IF NewestSnapshot = 0 THEN call' = NoCall /\ UNCHANGED zeroCopyViews
     ELSE StoreView(SnapshotBytes(NewestSnapshot))
  /\ UNCHANGED hollowVars

ViewFromEarlierSnapshot ==
  /\ call.pc = "list"
  /\ IF Earlier(call.version) = {} THEN call' = NoCall /\ UNCHANGED zeroCopyViews
     ELSE StoreView(SnapshotBytes(Max(Earlier(call.version))))
  /\ UNCHANGED hollowVars

CreateView ==
  ~panicked /\ ( \/ ViewFromSnapshot \/ ViewHasNoSnapshot
                 \/ ViewFromDelta \/ ViewHasEmptyDelta \/ ViewHasNoBlob
                 \/ ViewFromEarlierSnapshot )

-----------------------------------------------------------------------------
Elsewhere ==
  \/ ProducerStep
  \/ \E v \in Versions : Pin(v)
  \/ Unpin \/ Subscribe \/ AutoRefresh

ZeroCopyNext ==
  \/ Elsewhere /\ UNCHANGED viewVars
  \/ call.pc = "none" /\ TriggerRefresh /\ UNCHANGED viewVars
  \/ \E v \in 0..MaxVersion : TriggerRefreshToWithZeroCopy(v)
  \/ RegularRefresh
  \/ CreateView

ZeroCopySpec == ZeroCopyInit /\ [][ZeroCopyNext]_zeroCopyVars

-----------------------------------------------------------------------------
(***************************************************************************)
(* A view of a version shows the delta into it or the last snapshot before *)
(* it that is followed by deltas only, and the latter only if it is the    *)
(* version itself or the delta into it has no changes: retrieving          *)
(* snapshot, delta and list one after the other, while the producer        *)
(* publishes, mixes nothing up.  They start only where the regular refresh *)
(* has found the version stored, wherever the refresh loop has taken the   *)
(* consumer in the meantime.                                               *)
(***************************************************************************)
ViewsAreNearest ==
  /\ call.pc \in {"snapshot", "delta", "list"} /\ call.version > 0 => Stored(call.version)
  /\ \A v \in Versions :
      zeroCopyViews[v] # NoView =>
        \/ ~SnapshotExists(v) /\ zeroCopyViews[v] = DeltaBytes(v - 1)
        \/ \E u \in 1..v :
             /\ SnapshotExists(u) /\ zeroCopyViews[v] = SnapshotBytes(u)
             /\ \A w \in (u + 1)..v : ~SnapshotExists(w)
             /\ u < v => DeltaBytes(v - 1).format = "empty"

(***************************************************************************)
(* What GetZeroCopyView returns for the current version is the data of     *)
(* that version.                                                           *)
(***************************************************************************)
CurrentViewIsCurrentData ==
  readVersion > 0 /\ zeroCopyViews[readVersion] # NoView
    => zeroCopyViews[readVersion].payload = ContentOf(readVersion)
=============================================================================
