---------------------- MODULE GoroutineAnnouncer_proofs ----------------------
(***************************************************************************)
(* What a client of the goroutine announcer may rely on, for every number  *)
(* of subscribers, waiters and versions, every capacity of the channels    *)
(* and of the queue, and whatever else happens: pins, time-outs, a close,  *)
(* announcements that come late.                                           *)
(***************************************************************************)
EXTENDS GoroutineAnnouncer, FiniteSetTheorems, TLAPS

(***************************************************************************)
(* The list of subscribers                                                 *)
(***************************************************************************)

(* What is left of a list is in it, at the rank it has among what stays.   *)
LEMMA WithoutKeeps ==
  ASSUME NEW S, NEW list \in Seq(S), NEW indices
  PROVE  /\ Without(list, indices) \in Seq(S)
         /\ ToSet(Without(list, indices)) = {list[k] : k \in DOMAIN list \ indices}
         /\ IsInjective(list) => IsInjective(Without(list, indices))
<1> DEFINE kept == DOMAIN list \ indices
           upTo(k) == kept \cap 1..k
           rank == [k \in kept |-> Cardinality(upTo(k))]
           n == Cardinality(kept)
           at(i) == CHOOSE k \in kept : Cardinality(upTo(k)) = i
           new == [i \in 1..n |-> list[at(i)]]
<1>1. /\ Len(list) \in Nat /\ DOMAIN list = 1..Len(list)
      /\ \A k \in DOMAIN list : list[k] \in S
  OBVIOUS
<1>2. IsFiniteSet(1..Len(list)) /\ IsFiniteSet(kept) /\ n \in Nat
  <2>1. IsFiniteSet(1..Len(list))
    BY <1>1, FS_Interval
  <2>2. kept \in SUBSET (1..Len(list))
    BY <1>1
  <2> QED BY <2>1, <2>2, FS_Subset, FS_CardinalityType
<1>3. ASSUME NEW k \in kept
      PROVE  IsFiniteSet(upTo(k)) /\ Cardinality(upTo(k)) \in 1..n
  <2>1. upTo(k) \in SUBSET kept /\ upTo(k) # {}
    BY <1>1
  <2>2. /\ IsFiniteSet(upTo(k)) /\ Cardinality(upTo(k)) <= n
    BY <1>2, <2>1, FS_Subset
  <2>3. Cardinality(upTo(k)) \in Nat /\ Cardinality(upTo(k)) # 0
    BY <2>1, <2>2, FS_CardinalityType, FS_EmptySet
  <2> HIDE DEF n, upTo
  <2> QED BY <1>2, <2>2, <2>3
<1>4. ASSUME NEW j \in kept, NEW k \in kept, j < k
      PROVE  Cardinality(upTo(j)) # Cardinality(upTo(k))
  <2>1. upTo(j) \in SUBSET upTo(k) /\ k \in upTo(k) /\ k \notin upTo(j)
    BY <1>1, <1>4
  <2>2. upTo(j) # upTo(k)
    BY <2>1
  <2> HIDE DEF upTo, kept
  <2> QED BY <1>3, <2>1, <2>2, FS_Subset
<1>5. rank \in Injection(kept, 1..n)
  <2>1. rank \in [kept -> 1..n]
    BY <1>3
  <2>2. ASSUME NEW j \in kept, NEW k \in kept, rank[j] = rank[k] PROVE j = k
    <3>1. j \in Nat /\ k \in Nat
      BY <1>1
    <3>2. Cardinality(upTo(j)) = Cardinality(upTo(k))
      BY <2>2
    <3> HIDE DEF upTo
    <3> QED BY <1>4, <3>1, <3>2
  <2> HIDE DEF upTo, n
  <2>3. DOMAIN rank = kept
    OBVIOUS
  <2> HIDE DEF rank, kept
  <2> QED BY <2>1, <2>2, <2>3 DEF Injection, IsInjective
<1>6. IsFiniteSet(1..n) /\ Cardinality(1..n) = n
  BY <1>2, FS_Interval
<1>7. rank \in Surjection(kept, 1..n)
  <2> HIDE DEF rank, kept
  <2> QED BY <1>5, <1>6, FS_Injection
<1>8. ASSUME NEW i \in 1..n
      PROVE  at(i) \in kept /\ Cardinality(upTo(at(i))) = i
  <2>1. \E k \in kept : rank[k] = i
    <3> HIDE DEF rank, kept, n
    <3> QED BY <1>7 DEF Surjection
  <2>2. \E k \in kept : Cardinality(upTo(k)) = i
    <3> HIDE DEF upTo, kept
    <3> QED BY <2>1
  <2> HIDE DEF upTo, kept
  <2> QED BY <2>2
<1>9. Without(list, indices) = new
  BY DEF Without
<1>10. new \in Seq(S)
  <2> HIDE DEF at, n
  <2>1. \A i \in 1..n : list[at(i)] \in S
    BY <1>1, <1>8
  <2> QED BY <1>2, <2>1
<1>11. ToSet(new) = {list[k] : k \in kept}
  <2>1. ToSet(new) \subseteq {list[k] : k \in kept}
    <3> HIDE DEF kept, at, n
    <3> QED BY <1>8 DEF ToSet
  <2>2. ASSUME NEW k \in kept PROVE list[k] \in ToSet(new)
    <3>1. PICK i \in 1..n : i = Cardinality(upTo(k))
      BY <1>3
    <3>2. at(i) \in kept /\ rank[at(i)] = rank[k]
      BY <1>8, <3>1
    <3>3. at(i) = k
      <4>1. DOMAIN rank = kept
        OBVIOUS
      <4> HIDE DEF rank, kept, n, at
      <4> QED BY <1>5, <3>2, <4>1 DEF Injection, IsInjective
    <3>4. i \in DOMAIN new /\ new[i] = list[at(i)]
      BY <3>1
    <3> HIDE DEF new
    <3> QED BY <3>3, <3>4 DEF ToSet
  <2> QED BY <2>1, <2>2
<1>12. ASSUME IsInjective(list) PROVE IsInjective(new)
  <2>1. ASSUME NEW i \in 1..n, NEW j \in 1..n, new[i] = new[j] PROVE i = j
    <3>1. at(i) \in kept /\ at(j) \in kept /\ list[at(i)] = list[at(j)]
      <4> HIDE DEF at, kept, n
      <4> QED BY <1>8, <2>1
    <3>2. at(i) = at(j)
      <4> HIDE DEF at, n
      <4> QED BY <1>12, <3>1 DEF IsInjective
    <3> HIDE DEF at, upTo
    <3> QED BY <1>8, <3>2
  <2>2. DOMAIN new = 1..n
    OBVIOUS
  <2> HIDE DEF new
  <2> QED BY <2>1, <2>2 DEF IsInjective
<1> QED BY <1>9, <1>10, <1>11, <1>12

(***************************************************************************)
(* The inductive invariant.  Nothing in a queue or a channel is newer than *)
(* the latest version; what the worker has not yet sent of it is on its    *)
(* way; and who is on the list is in its loop or waits.                    *)
(***************************************************************************)
CursorInv ==
  /\ latestVersion \in 0..MaxVersion
  /\ pinnedVersion \in 0..latestVersion
  /\ announcing \in {0, latestVersion}
  /\ refused \in 0..latestVersion

QueueInv ==
  /\ queue \in Seq(1..latestVersion) /\ Len(queue) <= QueueSize
  /\ worker \in [pc : {"select", "process", "stopped"}, version : 0..latestVersion]

CloseInv ==
  /\ ctxDone \in BOOLEAN /\ queueClosed \in BOOLEAN /\ panicked \in BOOLEAN
  /\ closedChannels \subseteq Clients
  /\ closedChannels # {} => queueClosed

ChannelInv ==
  /\ channel \in [Clients -> Seq(0..latestVersion)]
  /\ \A c \in Clients : Len(channel[c]) <= Capacity[c]
  /\ sent \in [Clients -> 0..latestVersion]

SubscriberStates == {"out", "in", "gone", "ended"}
WaiterStates == {"out", "checked", "waiting", "done", "timedout", "cancelled"}

ClientInv ==
  /\ client \in [Clients -> [pc : SubscriberStates \cup WaiterStates, target : 0..MaxVersion]]
  /\ \A s \in Subscribers : client[s].pc \in SubscriberStates
  /\ \A w \in Waiters : client[w].pc \in WaiterStates
  /\ WaitIsSound

ListInv ==
  /\ subscribers \in Seq(Clients)
  /\ IsInjective(subscribers)
  /\ \A c \in ToSet(subscribers) : client[c].pc \notin {"out", "checked"}

Underway ==
  \/ announcing # 0
  \/ latestVersion \in ToSet(queue)
  \/ worker = [pc |-> "process", version |-> latestVersion]

LatestInv ==
  (pinnedVersion = 0 /\ refused # latestVersion /\ ~ctxDone)
    => Underway \/ \A c \in ToSet(subscribers) : sent[c] = latestVersion

ServedInv ==
  CursorInv /\ QueueInv /\ CloseInv /\ ChannelInv /\ ClientInv /\ ListInv /\ LatestInv

LEMMA SeqGrows ==
  ASSUME NEW S, NEW T, S \subseteq T
  PROVE  Seq(S) \subseteq Seq(T)
<1> SUFFICES ASSUME NEW q \in Seq(S) PROVE q \in Seq(T)
  OBVIOUS
<1>1. Len(q) \in Nat /\ q \in [1..Len(q) -> S]
  OBVIOUS
<1>2. q \in [1..Len(q) -> T]
  BY <1>1
<1> QED BY <1>1, <1>2

LEMMA TailIs ==
  ASSUME NEW S, NEW q \in Seq(S), q # <<>>
  PROVE  Tail(q) \in Seq(S) /\ Len(Tail(q)) <= Len(q)
  OBVIOUS

LEMMA ServedInit == Init => ServedInv
<1> SUFFICES ASSUME Init PROVE ServedInv
  OBVIOUS
<1>1. MaxVersion \in Nat /\ QueueSize \in Nat
  BY AnnouncerAssumption
<1>2. CursorInv /\ QueueInv /\ CloseInv
  <2>1. CursorInv
    BY <1>1 DEF Init, CursorInv
  <2>2. QueueInv
    BY <1>1 DEF Init, QueueInv
  <2>3. CloseInv
    BY DEF Init, CloseInv
  <2> QED BY <2>1, <2>2, <2>3
<1>3. ChannelInv
  BY <1>1, AnnouncerAssumption DEF Init, ChannelInv
<1>4. ClientInv
  BY <1>1, AnnouncerAssumption
     DEF Init, ClientInv, SubscriberStates, WaiterStates, WaitIsSound, Clients
<1>5. ListInv /\ LatestInv
  BY DEF Init, ListInv, LatestInv, IsInjective, ToSet
<1> QED BY <1>2, <1>3, <1>4, <1>5 DEF ServedInv

-----------------------------------------------------------------------------
(* Steps of Announce, of the worker up to a notification, and of Close up  *)
(* to its cancelling the context leave the clients alone.                  *)
LEMMA ClientsRest ==
  ASSUME ServedInv, UNCHANGED <<clientVars, closedChannels, queueClosed>>,
         panicked' \in BOOLEAN, CursorInv', QueueInv', LatestInv',
         latestVersion' >= latestVersion, ctxDone' \in BOOLEAN
  PROVE  ServedInv'
<1>1. latestVersion \in Nat /\ latestVersion' \in Nat /\ 0..latestVersion \subseteq 0..latestVersion'
  BY AnnouncerAssumption DEF ServedInv, CursorInv
<1>2. CloseInv'
  BY DEF ServedInv, CloseInv, clientVars
<1>3. ChannelInv'
  <2>1. Seq(0..latestVersion) \subseteq Seq(0..latestVersion')
    BY <1>1, SeqGrows
  <2> QED BY <1>1, <2>1 DEF ServedInv, ChannelInv, clientVars
<1>4. ClientInv'
  <2>1. WaitIsSound'
    <3> SUFFICES ASSUME NEW w \in Waiters, client[w].pc = "done"
                 PROVE  latestVersion' >= client[w].target
      BY DEF WaitIsSound, clientVars
    <3>1. client[w].target \in Nat /\ latestVersion >= client[w].target
      BY AnnouncerAssumption DEF ServedInv, ClientInv, WaitIsSound, Clients
    <3> QED BY <1>1, <3>1
  <2> QED BY <2>1 DEF ServedInv, ClientInv, clientVars
<1>5. ListInv'
  BY DEF ServedInv, ListInv, clientVars
<1> QED BY <1>2, <1>3, <1>4, <1>5 DEF ServedInv

LEMMA AnnounceKeeps ==
  ASSUME ServedInv, Announce \/ FinishAnnounce \/ CancelContext
  PROVE  ServedInv'
<1>1. /\ MaxVersion \in Nat /\ QueueSize \in Nat
      /\ CursorInv /\ QueueInv /\ LatestInv /\ CloseInv
  BY AnnouncerAssumption DEF ServedInv
<1>2. CASE Announce
  <2>1. /\ latestVersion' = latestVersion + 1 /\ announcing' = latestVersion'
        /\ latestVersion' \in 1..MaxVersion
        /\ UNCHANGED <<pinnedVersion, queue, refused, worker, closeVars, clientVars, panicked>>
    BY <1>1, <1>2 DEF Announce, CursorInv
  <2>2. CursorInv'
    BY <1>1, <2>1 DEF CursorInv
  <2>3. QueueInv'
    <3>1. 1..latestVersion \subseteq 1..latestVersion' /\ 0..latestVersion \subseteq 0..latestVersion'
      BY <1>1, <2>1 DEF CursorInv
    <3> HIDE <2>1
    <3>2. Seq(1..latestVersion) \subseteq Seq(1..latestVersion')
      BY <3>1, SeqGrows
    <3>3. queue' = queue /\ worker' = worker
      BY <2>1
    <3> QED BY <1>1, <3>1, <3>2, <3>3 DEF QueueInv
  <2>4. LatestInv'
    BY <1>1, <2>1 DEF LatestInv, Underway
  <2>5. latestVersion' >= latestVersion
    BY <1>1, <2>1 DEF CursorInv
  <2> QED BY <1>1, <2>1, <2>2, <2>3, <2>4, <2>5, ClientsRest DEF closeVars, CloseInv
<1>3. CASE Enqueue
  <2>1. /\ announcing # 0 /\ Len(queue) < QueueSize /\ queue' = Append(queue, announcing)
        /\ announcing' = 0
        /\ UNCHANGED <<cursorVars, refused, worker, closeVars, clientVars, panicked>>
    BY <1>3 DEF Enqueue
  <2>2. CursorInv'
    BY <1>1, <2>1 DEF CursorInv, cursorVars
  <2>3. announcing = latestVersion /\ announcing \in 1..latestVersion
    BY <1>1, <2>1 DEF CursorInv
  <2>4. QueueInv'
    BY <1>1, <2>1, <2>3 DEF QueueInv, cursorVars
  <2>5. latestVersion \in ToSet(queue')
    <3>1. Len(queue) + 1 \in DOMAIN queue' /\ queue'[Len(queue) + 1] = announcing
      BY <1>1, <2>1, <2>3 DEF QueueInv
    <3> QED BY <2>3, <3>1 DEF ToSet
  <2>6. LatestInv'
    BY <2>1, <2>5 DEF LatestInv, Underway, cursorVars
  <2>7. latestVersion' >= latestVersion
    BY <1>1, <2>1 DEF CursorInv, cursorVars
  <2> QED BY <1>1, <2>1, <2>2, <2>4, <2>6, <2>7, ClientsRest DEF closeVars, CloseInv
<1>4. CASE AnnounceCancelled \/ AnnounceTimesOut
  <2>1. /\ announcing # 0 /\ announcing' = 0 /\ refused' = announcing
        /\ UNCHANGED <<cursorVars, queue, worker, closeVars, clientVars, panicked>>
    BY <1>4 DEF AnnounceCancelled, AnnounceTimesOut
  <2>2. CursorInv' /\ LatestInv' /\ latestVersion' >= latestVersion
    BY <1>1, <2>1 DEF CursorInv, cursorVars, LatestInv
  <2>3. QueueInv'
    BY <1>1, <2>1 DEF QueueInv, cursorVars
  <2> QED BY <1>1, <2>1, <2>2, <2>3, ClientsRest DEF closeVars, CloseInv
<1>5. CASE AnnouncePanics \/ CancelContext
  <2>1. /\ UNCHANGED <<cursorVars, announceVars, queueClosed, closedChannels, clientVars>>
        /\ panicked' \in BOOLEAN
        /\ ctxDone' \in BOOLEAN
        /\ ctxDone => ctxDone'
    BY <1>1, <1>5 DEF AnnouncePanics, CancelContext, CloseInv, closeVars
  <2>2. CursorInv' /\ QueueInv' /\ latestVersion' >= latestVersion
    BY <1>1, <2>1 DEF CursorInv, QueueInv, cursorVars, announceVars
  <2>3. (Underway <=> Underway') /\ UNCHANGED <<pinnedVersion, refused, latestVersion, subscribers, sent>>
    BY <2>1 DEF Underway, cursorVars, announceVars, clientVars
  <2>4. LatestInv'
    BY <1>1, <2>1, <2>3 DEF LatestInv
  <2> QED BY <2>1, <2>2, <2>4, ClientsRest
<1> QED BY <1>2, <1>3, <1>4, <1>5 DEF FinishAnnounce

LEMMA WorkerKeeps ==
  ASSUME ServedInv, WorkerReceives \/ WorkerReceivesNothing \/ WorkerStops
  PROVE  ServedInv'
<1>1. CursorInv /\ QueueInv /\ LatestInv /\ CloseInv /\ latestVersion \in Nat
  BY AnnouncerAssumption DEF ServedInv, CursorInv
<1>2. /\ UNCHANGED <<cursorVars, announcing, refused, closeVars, clientVars, panicked>>
      /\ worker.pc = "select"
  BY DEF WorkerReceives, WorkerReceivesNothing, WorkerStops
<1>3. CursorInv' /\ latestVersion' >= latestVersion
  BY <1>1, <1>2 DEF CursorInv, cursorVars
<1>4. CASE WorkerReceives
  <2>1. /\ queue # <<>> /\ queue' = Tail(queue)
        /\ worker' = [pc |-> "process", version |-> Head(queue)]
    BY <1>4 DEF WorkerReceives
  <2>2. Head(queue) \in 1..latestVersion /\ Tail(queue) \in Seq(1..latestVersion)
        /\ Len(Tail(queue)) <= QueueSize
    BY <1>1, <2>1, AnnouncerAssumption DEF QueueInv
  <2>3. QueueInv'
    BY <1>1, <1>2, <2>1, <2>2 DEF QueueInv, cursorVars
  <2>4. ASSUME latestVersion \in ToSet(queue), latestVersion # Head(queue)
        PROVE  latestVersion \in ToSet(Tail(queue))
    <3>1. PICK i \in DOMAIN queue : queue[i] = latestVersion
      BY <2>4 DEF ToSet
    <3>2. i # 1 /\ i \in 1..Len(queue) /\ Len(queue) \in Nat
      BY <1>1, <2>4, <3>1 DEF QueueInv
    <3>3. i - 1 \in DOMAIN Tail(queue) /\ Tail(queue)[i - 1] = queue[i]
      BY <1>1, <2>1, <3>2 DEF QueueInv
    <3> QED BY <3>1, <3>3 DEF ToSet
  <2>5. Underway => Underway'
    BY <1>2, <2>1, <2>4 DEF Underway, cursorVars
  <2>6. LatestInv'
    BY <1>1, <1>2, <2>5 DEF LatestInv, cursorVars, closeVars, clientVars
  <2> QED BY <1>1, <1>2, <1>3, <2>3, <2>6, ClientsRest DEF closeVars, CloseInv
<1>5. CASE WorkerReceivesNothing \/ WorkerStops
  <2>1. /\ queue' = queue
        /\ worker' \in [pc : {"select", "process", "stopped"}, version : {0}]
    BY <1>5 DEF WorkerReceivesNothing, WorkerStops
  <2>2. QueueInv'
    BY <1>1, <1>2, <2>1 DEF QueueInv, cursorVars
  <2>3. Underway => Underway'
    BY <1>2, <2>1 DEF Underway, cursorVars
  <2>4. LatestInv'
    BY <1>1, <1>2, <2>3 DEF LatestInv, cursorVars, closeVars, clientVars
  <2> QED BY <1>1, <1>2, <1>3, <2>2, <2>4, ClientsRest DEF closeVars, CloseInv
<1> QED BY <1>4, <1>5

-----------------------------------------------------------------------------
(* Sending a version that is not newer than the latest: who stays on the   *)
(* list has got it, and who does not had a full or a closed channel.       *)
LEMMA NotifyEffect ==
  ASSUME ServedInv, NEW v \in 0..latestVersion, Notify(v)
  PROVE  /\ subscribers' \in Seq(Clients) /\ IsInjective(subscribers')
         /\ ToSet(subscribers') \subseteq ToSet(subscribers)
         /\ channel' \in [Clients -> Seq(0..latestVersion)]
         /\ \A c \in Clients : Len(channel'[c]) <= Capacity[c]
         /\ sent' \in [Clients -> 0..latestVersion]
         /\ \A c \in Clients : sent'[c] \in {sent[c], v}
         /\ \A c \in ToSet(subscribers') : sent'[c] = v
         /\ \A c \in ToSet(subscribers) \ ToSet(subscribers') :
              Len(channel[c]) >= Capacity[c] \/ c \in closedChannels
<1> DEFINE dead == Dead(subscribers)
           reached == {subscribers[i] : i \in DOMAIN subscribers \ dead}
<1>1. /\ channel' = [c \in Clients |->
           IF c \in reached THEN Append(channel[c], v) ELSE channel[c]]
      /\ sent' = [c \in Clients |-> IF c \in reached THEN v ELSE sent[c]]
      /\ subscribers' = Without(subscribers, dead)
  BY DEF Notify
<1>2. ListInv /\ ChannelInv
  BY DEF ServedInv
<1>3. /\ subscribers' \in Seq(Clients) /\ IsInjective(subscribers')
      /\ ToSet(subscribers') = reached
  BY <1>1, <1>2, WithoutKeeps DEF ListInv
<1>4. reached \subseteq Clients /\ reached \subseteq ToSet(subscribers)
  BY <1>2 DEF ListInv, ToSet
<1>5. ASSUME NEW c \in reached PROVE Len(channel[c]) < Capacity[c]
  <2>1. PICK i \in DOMAIN subscribers \ dead : c = subscribers[i]
    BY <1>5
  <2>2. ~(Len(channel[c]) >= Capacity[c])
    BY <2>1 DEF Dead
  <2>3. Len(channel[c]) \in Nat /\ Capacity[c] \in Nat
    BY <1>2, <1>4, <1>5, AnnouncerAssumption DEF ChannelInv
  <2> QED BY <2>2, <2>3
<1>6. ASSUME NEW c \in ToSet(subscribers) \ reached
      PROVE  Len(channel[c]) >= Capacity[c] \/ c \in closedChannels
  BY <1>6 DEF ToSet, Dead
<1> HIDE DEF reached
<1>7. channel' \in [Clients -> Seq(0..latestVersion)]
  <2>1. ASSUME NEW c \in Clients
        PROVE  /\ channel[c] \in Seq(0..latestVersion)
               /\ Append(channel[c], v) \in Seq(0..latestVersion)
    BY <1>2 DEF ChannelInv
  <2> QED BY <1>1, <2>1
<1>8. \A c \in Clients : Len(channel'[c]) <= Capacity[c]
  <2> SUFFICES ASSUME NEW c \in Clients PROVE Len(channel'[c]) <= Capacity[c]
    OBVIOUS
  <2>1. /\ channel[c] \in Seq(0..latestVersion) /\ Len(channel[c]) \in Nat
        /\ Len(channel[c]) <= Capacity[c] /\ Capacity[c] \in Nat
    BY <1>2, AnnouncerAssumption DEF ChannelInv
  <2>2. Len(Append(channel[c], v)) = Len(channel[c]) + 1
    BY <2>1
  <2> QED BY <1>1, <1>5, <2>1, <2>2
<1>9. /\ sent' \in [Clients -> 0..latestVersion]
      /\ \A c \in Clients : sent'[c] \in {sent[c], v}
      /\ \A c \in reached : sent'[c] = v
  BY <1>1, <1>2, <1>4 DEF ChannelInv
<1> QED BY <1>3, <1>4, <1>6, <1>7, <1>8, <1>9

LEMMA NotifyKeeps ==
  ASSUME ServedInv, NEW v \in 0..latestVersion, Notify(v),
         UNCHANGED <<latestVersion, closeVars, client, panicked>>,
         CursorInv', QueueInv', v = latestVersion \/ pinnedVersion' # 0
  PROVE  ServedInv'
<1>1. CloseInv'
  BY DEF ServedInv, CloseInv, closeVars
<1>2. ChannelInv'
  BY NotifyEffect DEF ChannelInv
<1>3. ClientInv'
  BY DEF ServedInv, ClientInv, WaitIsSound
<1>4. ListInv'
  BY NotifyEffect DEF ServedInv, ListInv
<1>5. LatestInv'
  BY NotifyEffect DEF LatestInv
<1> QED BY <1>1, <1>2, <1>3, <1>4, <1>5 DEF ServedInv

LEMMA SendsKeep ==
  ASSUME ServedInv, ProcessAnnouncement \/ Unpin \/ \E v \in Versions : Pin(v)
  PROVE  ServedInv'
<1>1. /\ CursorInv /\ QueueInv /\ LatestInv /\ CloseInv
      /\ latestVersion \in Nat /\ latestVersion \in 0..latestVersion /\ MaxVersion \in Nat
  BY AnnouncerAssumption DEF ServedInv, CursorInv
<1>2. CASE ProcessAnnouncement
  <2>1. /\ UNCHANGED <<pinnedVersion, queue, announcing, refused, closeVars, client, panicked>>
        /\ worker' = [pc |-> "select", version |-> 0]
        /\ worker.pc = "process" /\ worker.version \in 0..latestVersion
        /\ worker = [pc |-> worker.pc, version |-> worker.version]
    BY <1>1, <1>2 DEF ProcessAnnouncement, QueueInv
  <2>2. latestVersion' = latestVersion
    BY <1>1, <1>2, <2>1 DEF ProcessAnnouncement
  <2>3. CursorInv' /\ QueueInv'
    BY <1>1, <2>1, <2>2 DEF CursorInv, QueueInv
  <2>4. CASE worker.version >= latestVersion
    <3>1. worker.version = latestVersion
      BY <1>1, <2>1, <2>4
    <3>2. Notify(latestVersion)
      BY <1>2, <2>1, <2>4, <3>1 DEF ProcessAnnouncement
    <3> QED BY <1>1, <2>1, <2>2, <2>3, <3>2, NotifyKeeps
  <2>5. CASE worker.version < latestVersion
    <3>1. UNCHANGED <<subscribers, channel, sent>>
      BY <1>1, <1>2, <2>1, <2>5 DEF ProcessAnnouncement
    <3>2. worker # [pc |-> "process", version |-> latestVersion]
      BY <1>1, <2>1, <2>5
    <3>3. Underway => Underway'
      BY <2>1, <2>2, <3>2 DEF Underway
    <3>4. LatestInv'
      BY <1>1, <2>1, <2>2, <3>1, <3>3 DEF LatestInv, closeVars
    <3> QED BY <1>1, <2>1, <2>2, <2>3, <3>1, <3>4, ClientsRest DEF closeVars, clientVars, CloseInv
  <2> QED BY <1>1, <2>1, <2>4, <2>5
<1>3. CASE Unpin
  <2>1. /\ UNCHANGED <<latestVersion, announceVars, closeVars, client, panicked>>
        /\ pinnedVersion' = 0 /\ Notify(latestVersion)
    BY <1>3 DEF Unpin
  <2>2. CursorInv' /\ QueueInv'
    BY <1>1, <2>1 DEF CursorInv, QueueInv, announceVars
  <2> QED BY <1>1, <2>1, <2>2, NotifyKeeps
<1>4. CASE \E v \in Versions : Pin(v)
  <2>1. PICK v \in Versions : Pin(v)
    BY <1>4
  <2>2. /\ UNCHANGED <<latestVersion, announceVars, closeVars, client, panicked>>
        /\ pinnedVersion' = v /\ Notify(v) /\ v \in 1..latestVersion
    BY <1>1, <2>1 DEF Pin, Versions
  <2>3. CursorInv'
    BY <1>1, <2>2 DEF CursorInv, announceVars
  <2>4. QueueInv'
    BY <1>1, <2>2 DEF QueueInv, announceVars
  <2>5. v \in 0..latestVersion /\ pinnedVersion' # 0
    BY <1>1, <2>2
  <2> QED BY <2>2, <2>3, <2>4, <2>5, NotifyKeeps
<1> QED BY <1>2, <1>3, <1>4

-----------------------------------------------------------------------------
(* Steps of clients: each enters or leaves the list, or takes something    *)
(* from its own channel.                                                   *)
LEMMA ClientsKeep ==
  ASSUME ServedInv, UNCHANGED <<cursorVars, announceVars, closeVars, panicked>>,
         ListInv', ClientInv',
         channel' \in [Clients -> Seq(0..latestVersion)],
         \A c \in Clients : Len(channel'[c]) <= Len(channel[c]),
         sent' \in [Clients -> 0..latestVersion],
         \A c \in ToSet(subscribers') :
           sent'[c] = latestVersion \/ (c \in ToSet(subscribers) /\ sent'[c] = sent[c])
  PROVE  ServedInv'
<1>1. CursorInv' /\ QueueInv' /\ CloseInv'
  <2>1. CursorInv'
    BY DEF ServedInv, CursorInv, cursorVars, announceVars
  <2>2. QueueInv'
    BY DEF ServedInv, QueueInv, cursorVars, announceVars
  <2>3. CloseInv'
    BY DEF ServedInv, CloseInv, closeVars
  <2> QED BY <2>1, <2>2, <2>3
<1>2. ChannelInv'
  <2>1. latestVersion' = latestVersion
    BY DEF cursorVars
  <2>2. ASSUME NEW c \in Clients PROVE Len(channel'[c]) <= Capacity[c]
    <3>1. /\ channel[c] \in Seq(0..latestVersion) /\ channel'[c] \in Seq(0..latestVersion)
          /\ Len(channel[c]) <= Capacity[c]
          /\ Capacity[c] \in Nat
      BY AnnouncerAssumption DEF ServedInv, ChannelInv
    <3>2. Len(channel[c]) \in Nat /\ Len(channel'[c]) \in Nat
      BY <3>1
    <3> QED BY <3>1, <3>2
  <2> QED BY <2>1, <2>2 DEF ChannelInv
<1>3. LatestInv'
  <2>1. Underway' <=> Underway
    BY DEF Underway, cursorVars, announceVars
  <2> QED BY <2>1 DEF ServedInv, LatestInv, cursorVars, announceVars, closeVars
<1> QED BY <1>1, <1>2, <1>3 DEF ServedInv

(* A client's own place, given what it may be. *)
LEMMA EnterKeeps ==
  ASSUME ServedInv, NEW c \in Clients, NEW place,
         place \in [pc : SubscriberStates \cup WaiterStates, target : 0..MaxVersion],
         client' = [client EXCEPT ![c] = place], latestVersion' = latestVersion,
         c \in Subscribers => place.pc \in SubscriberStates,
         c \in Waiters => place.pc \in WaiterStates,
         place.pc = "done" => latestVersion >= place.target
  PROVE  ClientInv' /\ \A d \in Clients \ {c} : client'[d] = client[d]
<1>1. ClientInv
  BY DEF ServedInv
<1>2. client'[c] = place /\ \A d \in Clients \ {c} : client'[d] = client[d]
  BY <1>1 DEF ClientInv
<1>3. client' \in [Clients -> [pc : SubscriberStates \cup WaiterStates, target : 0..MaxVersion]]
  BY <1>1 DEF ClientInv
<1>4. \A s \in Subscribers : client'[s].pc \in SubscriberStates
  BY <1>1, <1>2 DEF ClientInv, Clients
<1>5. \A w \in Waiters : client'[w].pc \in WaiterStates
  BY <1>1, <1>2 DEF ClientInv, Clients
<1>6. \A w \in Waiters : client'[w].pc = "done" => latestVersion' >= client'[w].target
  BY <1>1, <1>2 DEF ClientInv, Clients, WaitIsSound
<1> QED BY <1>2, <1>3, <1>4, <1>5, <1>6 DEF ClientInv, WaitIsSound

LEMMA EnlistEffect ==
  ASSUME ServedInv, NEW c \in Clients, Enlist(c), client[c].pc \in {"out", "checked"},
         client'[c].pc \notin {"out", "checked"},
         \A d \in Clients \ {c} : client'[d] = client[d]
  PROVE  /\ ListInv'
         /\ sent' \in [Clients -> 0..latestVersion]
         /\ \A d \in Clients : sent'[d] >= sent[d]
         /\ ToSet(subscribers) \subseteq ToSet(subscribers')
         /\ \A d \in ToSet(subscribers') :
              sent'[d] = latestVersion \/ (d \in ToSet(subscribers) /\ sent'[d] = sent[d])
<1>1. /\ subscribers' = Append(subscribers, c) /\ sent' = [sent EXCEPT ![c] = latestVersion]
      /\ ListInv /\ ChannelInv /\ latestVersion \in Nat
  BY AnnouncerAssumption DEF ServedInv, Enlist, CursorInv
<1>2. /\ subscribers \in Seq(Clients) /\ Len(subscribers) \in Nat
      /\ DOMAIN subscribers = 1..Len(subscribers)
      /\ DOMAIN subscribers' = 1..(Len(subscribers) + 1)
      /\ \A i \in DOMAIN subscribers : subscribers'[i] = subscribers[i]
      /\ subscribers'[Len(subscribers) + 1] = c
  BY <1>1 DEF ListInv
<1>3. ToSet(subscribers') = ToSet(subscribers) \cup {c}
  BY <1>2 DEF ToSet
<1>4. c \notin ToSet(subscribers)
  BY <1>1 DEF ListInv
<1>5. IsInjective(subscribers')
  <2> SUFFICES ASSUME NEW i \in DOMAIN subscribers', NEW j \in DOMAIN subscribers',
                      subscribers'[i] = subscribers'[j]
               PROVE  i = j
    BY DEF IsInjective
  <2>1. \A k \in DOMAIN subscribers : subscribers'[k] # c
    BY <1>2, <1>4 DEF ToSet
  <2>2. CASE i \in DOMAIN subscribers /\ j \in DOMAIN subscribers
    BY <1>1, <1>2, <2>2 DEF ListInv, IsInjective
  <2> QED BY <1>2, <2>1, <2>2
<1>6. ListInv'
  <2>1. subscribers' \in Seq(Clients)
    BY <1>1 DEF ListInv
  <2>2. \A d \in ToSet(subscribers') : client'[d].pc \notin {"out", "checked"}
    <3>1. ToSet(subscribers) \subseteq Clients
      BY <1>2 DEF ToSet
    <3> QED BY <1>1, <1>3, <1>4, <3>1 DEF ListInv
  <2> QED BY <1>5, <2>1, <2>2 DEF ListInv
<1>7. /\ sent' \in [Clients -> 0..latestVersion]
      /\ sent'[c] = latestVersion /\ \A d \in Clients \ {c} : sent'[d] = sent[d]
      /\ \A d \in Clients : sent[d] \in 0..latestVersion
  BY <1>1 DEF ChannelInv
<1>8. \A d \in Clients : sent'[d] >= sent[d]
  BY <1>1, <1>7
<1>9. ToSet(subscribers) \subseteq Clients
  BY <1>2 DEF ToSet
<1> QED BY <1>3, <1>6, <1>7, <1>8, <1>9

LEMMA DelistEffect ==
  ASSUME ServedInv, NEW c \in Clients, Delist(c),
         \A d \in Clients \ {c} : client'[d] = client[d]
  PROVE  ListInv' /\ ToSet(subscribers') = ToSet(subscribers) \ {c}
<1> DEFINE gone == {i \in DOMAIN subscribers : subscribers[i] = c}
<1>1. subscribers' = Without(subscribers, gone) /\ ListInv
  BY DEF Delist, ServedInv
<1>2. /\ subscribers' \in Seq(Clients) /\ IsInjective(subscribers')
      /\ ToSet(subscribers') = {subscribers[k] : k \in DOMAIN subscribers \ gone}
  BY <1>1, WithoutKeeps DEF ListInv
<1>3. ToSet(subscribers') = ToSet(subscribers) \ {c}
  BY <1>2 DEF ToSet
<1>4. ToSet(subscribers) \subseteq Clients
  BY <1>1 DEF ListInv, ToSet
<1> QED BY <1>1, <1>2, <1>3, <1>4 DEF ListInv

LEMMA PlacesOfClients ==
  ASSUME ServedInv, NEW c \in Clients, NEW pc \in SubscriberStates \cup WaiterStates
  PROVE  /\ [client[c] EXCEPT !.pc = pc] \in [pc : SubscriberStates \cup WaiterStates, target : 0..MaxVersion]
         /\ [client[c] EXCEPT !.pc = pc].pc = pc
         /\ [client[c] EXCEPT !.pc = pc].target = client[c].target
         /\ client[c] \in [pc : SubscriberStates \cup WaiterStates, target : 0..MaxVersion]
<1>1. client[c] \in [pc : SubscriberStates \cup WaiterStates, target : 0..MaxVersion]
  BY DEF ServedInv, ClientInv
<1> QED BY <1>1

(* Enlisting, leaving, and taking the first version from the channel. *)
LEMMA EnlistingKeeps ==
  ASSUME ServedInv, NEW c \in Clients, NEW pc \in {"in", "waiting"},
         client[c].pc \in {"out", "checked"}, Enlist(c), Enter(c, pc),
         pc = IF c \in Subscribers THEN "in" ELSE "waiting",
         UNCHANGED <<cursorVars, announceVars, closeVars, channel, panicked>>
  PROVE  ServedInv'
<1> DEFINE place == [client[c] EXCEPT !.pc = pc]
<1>1. /\ place \in [pc : SubscriberStates \cup WaiterStates, target : 0..MaxVersion]
      /\ place.pc = pc
  <2>1. pc \in SubscriberStates \cup WaiterStates
    BY DEF SubscriberStates, WaiterStates
  <2> QED BY <2>1, PlacesOfClients
<1>2. client' = [client EXCEPT ![c] = place]
  BY DEF Enter
<1>3. c \in Waiters => c \notin Subscribers
  BY AnnouncerAssumption
<1> HIDE DEF place
<1>4. ClientInv' /\ \A d \in Clients \ {c} : client'[d] = client[d]
  BY <1>1, <1>2, <1>3, EnterKeeps DEF SubscriberStates, WaiterStates, cursorVars
<1>5. client'[c].pc = pc
  BY <1>1, <1>2 DEF ServedInv, ClientInv
<1>6. /\ ListInv' /\ sent' \in [Clients -> 0..latestVersion]
      /\ \A d \in ToSet(subscribers') :
           sent'[d] = latestVersion \/ (d \in ToSet(subscribers) /\ sent'[d] = sent[d])
  BY <1>4, <1>5, EnlistEffect
<1>7. channel' \in [Clients -> Seq(0..latestVersion)] /\ \A d \in Clients : Len(channel'[d]) <= Len(channel[d])
  <2>1. \A d \in Clients : Len(channel[d]) \in Nat
    BY DEF ServedInv, ChannelInv
  <2> QED BY <2>1 DEF ServedInv, ChannelInv
<1> QED BY <1>4, <1>6, <1>7, ClientsKeep

LEMMA LeavingKeeps ==
  ASSUME ServedInv, NEW c \in Clients, NEW pc \in {"gone", "done", "timedout", "cancelled"},
         Delist(c), Enter(c, pc), channel' = [channel EXCEPT ![c] = <<>>],
         c \in Subscribers <=> pc = "gone",
         pc = "done" => latestVersion >= client[c].target,
         UNCHANGED <<cursorVars, announceVars, closeVars, sent, panicked>>
  PROVE  ServedInv'
<1> DEFINE place == [client[c] EXCEPT !.pc = pc]
<1>1. /\ place \in [pc : SubscriberStates \cup WaiterStates, target : 0..MaxVersion]
      /\ place.pc = pc /\ place.target = client[c].target
  BY PlacesOfClients DEF SubscriberStates, WaiterStates
<1>2. client' = [client EXCEPT ![c] = place]
  BY DEF Enter
<1>3. c \in Waiters => c \notin Subscribers
  BY AnnouncerAssumption
<1> HIDE DEF place
<1>4. ClientInv' /\ \A d \in Clients \ {c} : client'[d] = client[d]
  BY <1>1, <1>2, <1>3, EnterKeeps DEF SubscriberStates, WaiterStates, cursorVars
<1>5. ListInv' /\ ToSet(subscribers') = ToSet(subscribers) \ {c}
  BY <1>4, DelistEffect
<1>6. channel' \in [Clients -> Seq(0..latestVersion)] /\ \A d \in Clients : Len(channel'[d]) <= Len(channel[d])
  <2>1. ChannelInv /\ \A d \in Clients : Len(channel[d]) \in Nat
    BY DEF ServedInv, ChannelInv
  <2>2. channel' \in [Clients -> Seq(0..latestVersion)]
    BY <2>1 DEF ChannelInv
  <2>3. ASSUME NEW d \in Clients PROVE Len(channel'[d]) <= Len(channel[d])
    <3>1. channel'[d] = IF d = c THEN <<>> ELSE channel[d]
      BY <2>1 DEF ChannelInv
    <3> QED BY <2>1, <3>1
  <2> QED BY <2>2, <2>3
<1>7. sent' \in [Clients -> 0..latestVersion]
  BY DEF ServedInv, ChannelInv
<1> QED BY <1>4, <1>5, <1>6, <1>7, ClientsKeep

LEMMA TakingKeeps ==
  ASSUME ServedInv, NEW c \in Clients, channel[c] # <<>>,
         channel' = [channel EXCEPT ![c] = Tail(@)],
         UNCHANGED <<cursorVars, announceVars, closeVars, subscribers, client, sent, panicked>>
  PROVE  ServedInv'
<1>1. ChannelInv /\ \A d \in Clients : channel[d] \in Seq(0..latestVersion)
  BY DEF ServedInv, ChannelInv
<1>2. Tail(channel[c]) \in Seq(0..latestVersion) /\ Len(Tail(channel[c])) <= Len(channel[c])
  BY <1>1, TailIs
<1>3. channel' \in [Clients -> Seq(0..latestVersion)]
  BY <1>1, <1>2 DEF ChannelInv
<1>4. ASSUME NEW d \in Clients PROVE Len(channel'[d]) <= Len(channel[d])
  <2>1. channel'[d] = IF d = c THEN Tail(channel[c]) ELSE channel[d]
    BY <1>1 DEF ChannelInv
  <2> QED BY <1>1, <1>2, <2>1
<1>5. ListInv' /\ ClientInv'
  BY DEF ServedInv, ListInv, ClientInv, WaitIsSound, cursorVars
<1>6. sent' \in [Clients -> 0..latestVersion]
  BY <1>1 DEF ChannelInv
<1> QED BY <1>3, <1>4, <1>5, <1>6, ClientsKeep

(* Whoever is not on the list, or has entered it, moves on. *)
LEMMA MovingKeeps ==
  ASSUME ServedInv, NEW c \in Clients, NEW place,
         place \in [pc : SubscriberStates \cup WaiterStates, target : 0..MaxVersion],
         client' = [client EXCEPT ![c] = place],
         c \in Subscribers => place.pc \in SubscriberStates,
         c \in Waiters => place.pc \in WaiterStates,
         place.pc = "done" => latestVersion >= place.target,
         client[c].pc = "out" \/ place.pc \notin {"out", "checked"},
         UNCHANGED <<cursorVars, announceVars, closeVars, subscribers, channel, sent, panicked>>
  PROVE  ServedInv'
<1>1. ClientInv' /\ \A d \in Clients \ {c} : client'[d] = client[d]
  BY EnterKeeps DEF cursorVars
<1>2. ListInv /\ ToSet(subscribers) \subseteq Clients /\ client'[c] = place
  BY DEF ServedInv, ListInv, ClientInv, ToSet
<1>3. ListInv'
  BY <1>1, <1>2 DEF ListInv
<1>4. /\ channel' \in [Clients -> Seq(0..latestVersion)] /\ sent' \in [Clients -> 0..latestVersion]
      /\ \A d \in Clients : Len(channel'[d]) <= Len(channel[d])
  <2>1. \A d \in Clients : Len(channel[d]) \in Nat
    BY DEF ServedInv, ChannelInv
  <2> QED BY <2>1 DEF ServedInv, ChannelInv
<1> QED BY <1>1, <1>3, <1>4, ClientsKeep

LEMMA SubscriberKeeps ==
  ASSUME ServedInv, NEW s \in Subscribers, Subscribe(s) \/ Unsubscribe(s) \/ SubscriberStep(s)
  PROVE  ServedInv'
<1>1. s \in Clients /\ s \notin Waiters
  BY AnnouncerAssumption DEF Clients
<1>2. CASE Subscribe(s)
  BY <1>1, <1>2, EnlistingKeeps DEF Subscribe
<1>3. CASE Unsubscribe(s)
  BY <1>1, <1>3, LeavingKeeps DEF Unsubscribe
<1>4. CASE Receive(s)
  BY <1>1, <1>4, TakingKeeps DEF Receive
<1>5. CASE LoopEnds(s)
  <2> DEFINE place == [client[s] EXCEPT !.pc = "ended"]
  <2>1. /\ place \in [pc : SubscriberStates \cup WaiterStates, target : 0..MaxVersion]
        /\ place.pc = "ended"
    BY <1>1, PlacesOfClients DEF SubscriberStates, WaiterStates
  <2>2. /\ client' = [client EXCEPT ![s] = place]
        /\ UNCHANGED <<cursorVars, announceVars, closeVars, subscribers, channel, sent, panicked>>
    BY <1>5 DEF LoopEnds, Enter
  <2> HIDE DEF place
  <2> QED BY <1>1, <2>1, <2>2, MovingKeeps DEF SubscriberStates, WaiterStates
<1> QED BY <1>2, <1>3, <1>4, <1>5 DEF SubscriberStep

LEMMA WaiterKeeps ==
  ASSUME ServedInv, NEW w \in Waiters, WaiterStep(w) \/ \E v \in Versions : WaitForVersion(w, v)
  PROVE  ServedInv'
<1>1. w \in Clients /\ w \notin Subscribers
  BY AnnouncerAssumption DEF Clients
<1>2. CASE WaiterSubscribes(w)
  BY <1>1, <1>2, EnlistingKeeps DEF WaiterSubscribes
<1>3. CASE WaiterReceives(w)
  <2>1. CASE Head(channel[w]) >= client[w].target /\ WaiterReturns(w, "done")
    <3>1. /\ channel[w] # <<>> /\ channel[w] \in Seq(0..latestVersion) /\ latestVersion \in Nat
          /\ client[w].target \in Nat
      BY <1>1, <1>3, AnnouncerAssumption
         DEF WaiterReceives, ServedInv, ChannelInv, CursorInv, ClientInv
    <3>2. Head(channel[w]) \in 0..latestVersion
      BY <3>1
    <3>3. latestVersion >= client[w].target
      BY <2>1, <3>1, <3>2
    <3> QED BY <1>1, <2>1, <3>3, LeavingKeeps DEF WaiterReturns
  <2>2. CASE ~(Head(channel[w]) >= client[w].target /\ WaiterReturns(w, "done"))
    BY <1>1, <1>3, <2>2, TakingKeeps DEF WaiterReceives
  <2> QED BY <2>1, <2>2
<1>4. CASE WaiterTimesOut(w)
  BY <1>1, <1>4, LeavingKeeps DEF WaiterTimesOut, WaiterReturns
<1>5. CASE WaiterCancelled(w)
  BY <1>1, <1>5, LeavingKeeps DEF WaiterCancelled, WaiterReturns
<1>6. ASSUME NEW v \in Versions, WaitForVersion(w, v) PROVE ServedInv'
  <2>1. PICK place : place = [pc |-> IF Latest >= v THEN "done" ELSE "checked", target |-> v]
    OBVIOUS
  <2>2. /\ client' = [client EXCEPT ![w] = place] /\ client[w].pc = "out"
        /\ UNCHANGED <<cursorVars, announceVars, closeVars, subscribers, channel, sent, panicked>>
    BY <1>6, <2>1 DEF WaitForVersion
  <2>3. v \in 0..MaxVersion /\ v \in Nat
    BY AnnouncerAssumption DEF Versions
  <2>4. place.pc \in {"done", "checked"} /\ place.target = v
        /\ (place.pc = "done" => Latest >= v)
    BY <2>1
  <2>5. place \in [pc : SubscriberStates \cup WaiterStates, target : 0..MaxVersion]
    BY <2>1, <2>3 DEF WaiterStates
  <2>6. Latest \in 0..latestVersion /\ latestVersion \in Nat
    BY AnnouncerAssumption DEF Latest, ServedInv, CursorInv
  <2>7. place.pc = "done" => latestVersion >= place.target
    BY <2>3, <2>4, <2>6
  <2> QED BY <1>1, <2>2, <2>4, <2>5, <2>7, MovingKeeps DEF WaiterStates
<1> QED BY <1>2, <1>3, <1>4, <1>5, <1>6 DEF WaiterStep

LEMMA CloseKeeps == ASSUME ServedInv, CloseChannels PROVE ServedInv'
<1>1. /\ UNCHANGED <<cursorVars, announceVars, ctxDone, channel, client, sent, panicked>>
      /\ queueClosed' = TRUE /\ subscribers' = <<>>
      /\ closedChannels' = closedChannels \cup ToSet(subscribers)
  BY DEF CloseChannels
<1>2. CursorInv' /\ QueueInv'
  <2>1. CursorInv'
    BY <1>1 DEF ServedInv, CursorInv, cursorVars, announceVars
  <2>2. QueueInv'
    BY <1>1 DEF ServedInv, QueueInv, cursorVars, announceVars
  <2> QED BY <2>1, <2>2
<1>3. CloseInv'
  BY <1>1 DEF ServedInv, CloseInv, ListInv, ToSet
<1>4. ChannelInv' /\ ClientInv'
  BY <1>1 DEF ServedInv, ChannelInv, ClientInv, WaitIsSound, cursorVars
<1>5. ListInv' /\ LatestInv'
  BY <1>1 DEF ListInv, LatestInv, IsInjective, ToSet
<1> QED BY <1>2, <1>3, <1>4, <1>5 DEF ServedInv

LEMMA ServedStep == ServedInv /\ [Next]_vars => ServedInv'
<1> SUFFICES ASSUME ServedInv, [Next]_vars PROVE ServedInv'
  OBVIOUS
<1>1. CASE UNCHANGED vars
  <2>1. UNCHANGED <<cursorVars, announceVars, closeVars, clientVars, panicked>>
    BY <1>1 DEF vars
  <2>2. CursorInv' /\ QueueInv'
    BY <2>1 DEF ServedInv, CursorInv, QueueInv, cursorVars, announceVars
  <2>3. LatestInv'
    BY <2>1 DEF ServedInv, LatestInv, Underway, cursorVars, announceVars, closeVars, clientVars
  <2>4. latestVersion' >= latestVersion
    BY <2>1, AnnouncerAssumption DEF ServedInv, CursorInv, cursorVars
  <2> QED BY <2>1, <2>2, <2>3, <2>4, ClientsRest DEF ServedInv, CloseInv, closeVars
<1>2. CASE Announce \/ FinishAnnounce \/ CancelContext
  BY <1>2, AnnounceKeeps
<1>3. CASE WorkerStep
  BY <1>3, WorkerKeeps, SendsKeep DEF WorkerStep
<1>4. CASE Unpin \/ \E v \in Versions : Pin(v)
  BY <1>4, SendsKeep
<1>5. CASE CloseChannels
  BY <1>5, CloseKeeps
<1>6. CASE \E s \in Subscribers : Subscribe(s) \/ Unsubscribe(s) \/ SubscriberStep(s)
  BY <1>6, SubscriberKeeps
<1>7. CASE \E w \in Waiters : WaiterStep(w) \/ \E v \in Versions : WaitForVersion(w, v)
  BY <1>7, WaiterKeeps
<1> QED BY <1>1, <1>2, <1>3, <1>4, <1>5, <1>6, <1>7 DEF Next

LEMMA ServedInvariant == Spec => []ServedInv
  BY ServedInit, ServedStep, PTL DEF Spec

(***************************************************************************)
(* Whenever the announcer is quiet, every listed client was last sent the  *)
(* latest version, although processAnnouncement skips versions that were   *)
(* overtaken and Pin sends old ones; WaitForVersion returns nil only for a *)
(* version that was announced; no channel ever holds more than it can.     *)
(***************************************************************************)
THEOREM ClientsStayServed == Spec => []ClientsAreServed
<1>1. ServedInv => ClientsAreServed
  <2> SUFFICES ASSUME ServedInv PROVE ClientsAreServed
    OBVIOUS
  <2>1. NobodyIsBehind
    BY DEF ServedInv, LatestInv, Underway, NobodyIsBehind, Quiet, ToSet
  <2>2. WaitIsSound
    BY DEF ServedInv, ClientInv
  <2>3. /\ latestVersion \in Nat /\ MaxVersion \in Nat
        /\ 0..latestVersion \subseteq 0..MaxVersion /\ 1..latestVersion \subseteq Versions
    BY AnnouncerAssumption DEF ServedInv, CursorInv, Versions
  <2>4. {latestVersion, pinnedVersion, announcing, refused} \subseteq 0..MaxVersion
    BY <2>3 DEF ServedInv, CursorInv
  <2>5. ToSet(subscribers) \subseteq Clients /\ IsInjective(subscribers)
    BY DEF ServedInv, ListInv, ToSet
  <2>6. queue \in BoundedSeq(Versions, QueueSize)
    <3>1. queue \in Seq(Versions) /\ Len(queue) <= QueueSize
      BY <2>3, SeqGrows DEF ServedInv, QueueInv
    <3>2. queue \in [1..Len(queue) -> Versions] /\ Len(queue) \in 0..QueueSize
      BY <3>1, AnnouncerAssumption
    <3> QED BY <3>2 DEF BoundedSeq, SeqOf
  <2>7. worker \in [pc : {"select", "process", "stopped"}, version : 0..MaxVersion]
    BY <2>3 DEF ServedInv, QueueInv
  <2>8. {ctxDone, queueClosed, panicked} \subseteq BOOLEAN /\ closedChannels \subseteq Clients
    BY DEF ServedInv, CloseInv
  <2>9. ASSUME NEW c \in Clients
        PROVE  /\ channel[c] \in BoundedSeq(0..MaxVersion, Capacity[c])
               /\ sent[c] \in 0..MaxVersion
               /\ client[c].target \in 0..MaxVersion
    <3>1. channel[c] \in Seq(0..latestVersion) /\ Len(channel[c]) <= Capacity[c]
      BY DEF ServedInv, ChannelInv
    <3>2. channel[c] \in Seq(0..MaxVersion)
      BY <2>3, <3>1, SeqGrows
    <3>3. channel[c] \in [1..Len(channel[c]) -> 0..MaxVersion] /\ Len(channel[c]) \in 0..Capacity[c]
      BY <3>1, <3>2, AnnouncerAssumption
    <3>4. channel[c] \in BoundedSeq(0..MaxVersion, Capacity[c])
      BY <3>3 DEF BoundedSeq, SeqOf
    <3> QED BY <2>3, <3>4 DEF ServedInv, ChannelInv, ClientInv
  <2>10. /\ \A s \in Subscribers : client[s].pc \in {"out", "in", "gone", "ended"}
         /\ \A w \in Waiters :
              client[w].pc \in {"out", "checked", "waiting", "done", "timedout", "cancelled"}
    BY DEF ServedInv, ClientInv, SubscriberStates, WaiterStates
  <2>11. TypeOK
    BY <2>4, <2>5, <2>6, <2>7, <2>8, <2>9, <2>10 DEF TypeOK
  <2> QED BY <2>1, <2>2, <2>11 DEF ClientsAreServed
<1> QED BY <1>1, ServedInvariant, PTL

-----------------------------------------------------------------------------
(* One step may send to many clients; it may take back the version of one  *)
(* only to the pinned one, and it delists only whom it names.              *)
StepIsOrderly ==
  /\ \A c \in Clients :
       sent'[c] < sent[c] => (pinnedVersion' # 0 /\ sent'[c] = pinnedVersion')
  /\ \A c \in ToSet(subscribers) \ ToSet(subscribers') :
       \/ Len(channel[c]) >= Capacity[c]
       \/ client'[c].pc # client[c].pc
       \/ queueClosed'

LEMMA SendsStepIsOrderly ==
  ASSUME ServedInv, NEW v \in 0..latestVersion, Notify(v),
         queueClosed' = queueClosed, v = latestVersion \/ (v # 0 /\ pinnedVersion' = v)
  PROVE  StepIsOrderly
<1>1. /\ latestVersion \in Nat /\ sent \in [Clients -> 0..latestVersion]
      /\ closedChannels # {} => queueClosed
  BY AnnouncerAssumption DEF ServedInv, CursorInv, ChannelInv, CloseInv
<1>2. ASSUME NEW c \in Clients, sent'[c] < sent[c]
      PROVE  pinnedVersion' # 0 /\ sent'[c] = pinnedVersion'
  <2>1. sent'[c] = v /\ v # latestVersion
    BY <1>1, <1>2, NotifyEffect
  <2> QED BY <2>1
<1>3. ASSUME NEW c \in ToSet(subscribers) \ ToSet(subscribers')
      PROVE  Len(channel[c]) >= Capacity[c] \/ queueClosed'
  BY <1>1, <1>3, NotifyEffect
<1> QED BY <1>2, <1>3 DEF StepIsOrderly

(* Steps that leave the list and what was sent alone, or that only clients *)
(* take for themselves.                                                    *)
LEMMA OthersAreOrderly ==
  ASSUME ServedInv, \A c \in Clients : sent'[c] = sent[c] \/ sent'[c] = latestVersion,
         \A c \in ToSet(subscribers) \ ToSet(subscribers') :
           client'[c].pc # client[c].pc \/ queueClosed'
  PROVE  StepIsOrderly
<1>1. latestVersion \in Nat /\ sent \in [Clients -> 0..latestVersion]
  BY AnnouncerAssumption DEF ServedInv, CursorInv, ChannelInv
<1>2. ASSUME NEW c \in Clients PROVE ~(sent'[c] < sent[c])
  <2>1. sent[c] \in 0..latestVersion
    BY <1>1
  <2> QED BY <1>1, <2>1
<1> QED BY <1>2 DEF StepIsOrderly

LEMMA EnlistIsOrderly ==
  ASSUME ServedInv, NEW c \in Clients, Enlist(c)
  PROVE  StepIsOrderly
<1>1. /\ subscribers' = Append(subscribers, c) /\ sent' = [sent EXCEPT ![c] = latestVersion]
      /\ subscribers \in Seq(Clients) /\ sent \in [Clients -> 0..latestVersion]
  BY DEF Enlist, ServedInv, ListInv, ChannelInv
<1>2. ToSet(subscribers) \subseteq ToSet(subscribers')
  <2>1. \A i \in DOMAIN subscribers : i \in DOMAIN subscribers' /\ subscribers'[i] = subscribers[i]
    BY <1>1
  <2> QED BY <2>1 DEF ToSet
<1>3. \A d \in Clients : sent'[d] = sent[d] \/ sent'[d] = latestVersion
  BY <1>1
<1> QED BY <1>2, <1>3, OthersAreOrderly

LEMMA LeavingIsOrderly ==
  ASSUME ServedInv, NEW c \in Clients, NEW pc, Delist(c), Enter(c, pc), client[c].pc # pc,
         UNCHANGED sent
  PROVE  StepIsOrderly
<1> DEFINE gone == {i \in DOMAIN subscribers : subscribers[i] = c}
<1>1. /\ subscribers' = Without(subscribers, gone) /\ subscribers \in Seq(Clients)
      /\ client' = [client EXCEPT ![c] = [client[c] EXCEPT !.pc = pc]]
      /\ client \in [Clients -> [pc : SubscriberStates \cup WaiterStates, target : 0..MaxVersion]]
  BY DEF Delist, Enter, ServedInv, ListInv, ClientInv
<1>2. ToSet(subscribers') = {subscribers[k] : k \in DOMAIN subscribers \ gone}
  BY <1>1, WithoutKeeps
<1>3. ToSet(subscribers) \ ToSet(subscribers') \subseteq {c}
  BY <1>2 DEF ToSet
<1>4. client'[c].pc = pc
  BY <1>1
<1> QED BY <1>3, <1>4, OthersAreOrderly

LEMMA OrderlyStep == ServedInv /\ [Next]_vars => StepIsOrderly
<1> SUFFICES ASSUME ServedInv, [Next]_vars PROVE StepIsOrderly
  OBVIOUS
<1>1. /\ latestVersion \in Nat /\ latestVersion \in 0..latestVersion
      /\ worker.version \in 0..latestVersion
  BY AnnouncerAssumption DEF ServedInv, CursorInv, QueueInv
<1>2. CASE UNCHANGED <<subscribers, sent>>
  BY <1>2, OthersAreOrderly
<1>3. CASE Announce \/ FinishAnnounce \/ CancelContext \/ UNCHANGED vars
           \/ WorkerReceives \/ WorkerReceivesNothing \/ WorkerStops
  BY <1>2, <1>3
     DEF Announce, FinishAnnounce, Enqueue, AnnounceCancelled, AnnounceTimesOut, AnnouncePanics,
         CancelContext, WorkerReceives, WorkerReceivesNothing, WorkerStops, vars, clientVars
<1>4. CASE ProcessAnnouncement
  <2>1. CASE worker.version >= latestVersion
    <3>1. worker.version = latestVersion
      BY <1>1, <2>1
    <3>2. Notify(latestVersion) /\ queueClosed' = queueClosed
      BY <1>1, <1>4, <2>1, <3>1 DEF ProcessAnnouncement, closeVars
    <3> QED BY <1>1, <3>2, SendsStepIsOrderly
  <2>2. CASE ~(worker.version >= latestVersion)
    BY <1>2, <1>4, <2>2 DEF ProcessAnnouncement
  <2> QED BY <2>1, <2>2
<1>5. CASE Unpin
  BY <1>1, <1>5, SendsStepIsOrderly DEF Unpin, closeVars
<1>6. ASSUME NEW v \in Versions, Pin(v) PROVE StepIsOrderly
  <2>1. /\ v \in 0..latestVersion /\ v # 0 /\ pinnedVersion' = v
        /\ Notify(v) /\ queueClosed' = queueClosed
    BY <1>1, <1>6, AnnouncerAssumption DEF Pin, Versions, closeVars
  <2> QED BY <2>1, SendsStepIsOrderly
<1>7. CASE CloseChannels
  BY <1>7, OthersAreOrderly DEF CloseChannels
<1>8. ASSUME NEW s \in Subscribers, Subscribe(s) \/ Unsubscribe(s) \/ SubscriberStep(s)
      PROVE  StepIsOrderly
  <2>1. s \in Clients
    BY DEF Clients
  <2>2. CASE Subscribe(s)
    BY <2>1, <2>2, EnlistIsOrderly DEF Subscribe
  <2>3. CASE Unsubscribe(s)
    BY <2>1, <2>3, LeavingIsOrderly DEF Unsubscribe
  <2>4. CASE SubscriberStep(s)
    BY <1>2, <2>4 DEF SubscriberStep, Receive, LoopEnds
  <2> QED BY <1>8, <2>2, <2>3, <2>4
<1>9. ASSUME NEW w \in Waiters, WaiterStep(w) \/ \E v \in Versions : WaitForVersion(w, v)
      PROVE  StepIsOrderly
  <2>1. w \in Clients
    BY DEF Clients
  <2>2. CASE WaiterSubscribes(w)
    BY <2>1, <2>2, EnlistIsOrderly DEF WaiterSubscribes
  <2>3. ASSUME NEW pc \in {"done", "timedout", "cancelled"}, WaiterReturns(w, pc), client[w].pc = "waiting"
        PROVE  StepIsOrderly
    BY <2>1, <2>3, LeavingIsOrderly DEF WaiterReturns
  <2>4. CASE WaiterReceives(w) \/ WaiterTimesOut(w) \/ WaiterCancelled(w)
    BY <1>2, <2>3, <2>4 DEF WaiterReceives, WaiterTimesOut, WaiterCancelled
  <2>5. CASE \E v \in Versions : WaitForVersion(w, v)
    BY <1>2, <2>5 DEF WaitForVersion
  <2> QED BY <1>9, <2>2, <2>4, <2>5 DEF WaiterStep
<1> QED BY <1>3, <1>4, <1>5, <1>6, <1>7, <1>8, <1>9 DEF Next, WorkerStep

(***************************************************************************)
(* Although Announce's worker, Pin and Unpin all send, no client is sent   *)
(* an older version than before unless it is the pinned one; and where     *)
(* announceVersionLocked removes the dead by their indices, it removes     *)
(* nobody whose channel was not full.                                      *)
(***************************************************************************)
THEOREM SendsStayOrderly == Spec => SendsAreOrderly
<1>1. ServedInv /\ [Next]_vars =>
        [\A c \in Clients :
           sent[c]' < sent[c] => (pinnedVersion' # 0 /\ sent[c]' = pinnedVersion')]_vars
  BY OrderlyStep DEF StepIsOrderly
<1>2. ServedInv /\ [Next]_vars =>
        [\A c \in ToSet(subscribers) \ ToSet(subscribers') :
           \/ Len(channel[c]) >= Capacity[c]
           \/ client[c]'.pc # client[c].pc
           \/ queueClosed']_vars
  BY OrderlyStep DEF StepIsOrderly
<1>3. Spec => OnlyPinsGoBack
  BY <1>1, ServedInvariant, PTL DEF Spec, OnlyPinsGoBack
<1>4. Spec => OnlyFullAreRemoved
  BY <1>2, ServedInvariant, PTL DEF Spec, OnlyFullAreRemoved
<1> QED BY <1>3, <1>4 DEF SendsAreOrderly

(***************************************************************************)
(* Close is safe where Announce is not called concurrently with it, nor    *)
(* after it: no Announce then sends on the closed queue and panics.        *)
(***************************************************************************)
THEOREM OrderlyCloseNeverPanics ==
  ASSUME "lateAnnounce" \notin Events
  PROVE  Spec => []NoPanic
<1> DEFINE Inv == ~panicked /\ (queueClosed => ctxDone) /\ (ctxDone => announcing = 0)
<1>1. Init => Inv
  BY DEF Init
<1>2. Inv /\ [Next]_vars => Inv'
  <2> SUFFICES ASSUME Inv, [Next]_vars PROVE Inv'
    OBVIOUS
  <2>1. CASE UNCHANGED <<announcing, closeVars, panicked>>
    BY <2>1 DEF closeVars
  <2>2. CASE Announce
    BY <2>2 DEF Announce, closeVars
  <2>3. CASE FinishAnnounce
    BY <2>3 DEF FinishAnnounce, Enqueue, AnnounceCancelled, AnnounceTimesOut, AnnouncePanics, closeVars
  <2>4. CASE CancelContext
    BY <2>4 DEF CancelContext, announceVars
  <2>5. CASE CloseChannels
    BY <2>5 DEF CloseChannels, announceVars
  <2>6. CASE WorkerStep \/ Unpin \/ (\E v \in Versions : Pin(v)) \/ UNCHANGED vars
    BY <2>1, <2>6
       DEF WorkerStep, WorkerReceives, WorkerReceivesNothing, WorkerStops, ProcessAnnouncement,
           Unpin, Pin, announceVars, vars
  <2>7. CASE \E s \in Subscribers : Subscribe(s) \/ Unsubscribe(s) \/ SubscriberStep(s)
    BY <2>1, <2>7 DEF Subscribe, Unsubscribe, SubscriberStep, Receive, LoopEnds, announceVars
  <2>8. CASE \E w \in Waiters : WaiterStep(w) \/ \E v \in Versions : WaitForVersion(w, v)
    BY <2>1, <2>8
       DEF WaiterStep, WaiterSubscribes, WaiterReceives, WaiterTimesOut, WaiterCancelled,
           WaiterReturns, WaitForVersion, announceVars
  <2> QED BY <2>2, <2>3, <2>4, <2>5, <2>6, <2>7, <2>8 DEF Next
<1>3. Inv => NoPanic
  BY DEF NoPanic
<1> QED BY <1>1, <1>2, <1>3, PTL DEF Spec

=============================================================================
