------------------------- MODULE GoroutineAnnouncer -------------------------
(***************************************************************************)
(* blob/goroutine_announcer.go: versions are announced to a bounded queue, *)
(* a worker goroutine takes them off and sends them to the subscribers'    *)
(* bounded channels, somebody pins and unpins versions, callers of         *)
(* WaitForVersion wait with a channel of their own, and Close stops it     *)
(* all.  Each step below is what happens under one lock, or one case of a  *)
(* select; the goroutines run between any two of them.                     *)
(*                                                                         *)
(* Clients are subscribers, whose loop ranges over the channel, and        *)
(* waiters, each inside one call of WaitForVersion.  The ticker's          *)
(* cleanupDeadSubscribers drops nil channels only, of which there are      *)
(* none, and is left out.                                                  *)
(***************************************************************************)
EXTENDS Integers, SequencesExt, FiniteSets

CONSTANTS
  Subscribers, Waiters,
  Capacity,     \* of each client's channel
  QueueSize,    \* of announceQueue (100 in the code)
  MaxVersion,   \* bound on the versions announced
  Events        \* see EventNames

EventNames ==
  { "pin",            \* an announced version is pinned, or unpinned
    "unsubscribe",    \* a subscription is closed
    "queueTimeout",   \* Announce gives up on a full queue
    "waitTimeout",    \* WaitForVersion gives up
    "close",          \* the announcer is closed once no Announce is running
    "lateAnnounce" }  \* Announce is also called while, or after, it is closed

Clients == Subscribers \cup Waiters

ASSUME AnnouncerAssumption ==
  /\ Subscribers \cap Waiters = {}
  /\ Capacity \in [Clients -> Nat \ {0}]
  /\ QueueSize \in Nat \ {0}
  /\ MaxVersion \in Nat
  /\ Events \subseteq EventNames

VARIABLES
  latestVersion, pinnedVersion,   \* pinnedVersion = 0: not pinned
  subscribers,      \* the list of channels, named by their clients
  queue,            \* announceQueue
  ctxDone, queueClosed,           \* the two halves of Close
  announcing,       \* the version an Announce call holds, 0 if there is none
  refused,          \* the version for which Announce last returned an error
  worker,           \* where the worker stands, and the version it took
  channel,          \* what is in each client's channel
  closedChannels,
  client,           \* where each client stands, and a waiter's target
  sent,             \* the version sent last to a client, or what Latest was
                    \* when it subscribed
  panicked

announceVars == <<queue, announcing, refused, worker>>
closeVars == <<ctxDone, queueClosed, closedChannels>>
cursorVars == <<latestVersion, pinnedVersion>>
clientVars == <<subscribers, channel, client, sent>>
vars == <<cursorVars, announceVars, closeVars, clientVars, panicked>>

(* Definitions whose comment starts with "Slip:" are wrong versions of the *)
(* definition after them and no part of the specification.                 *)

Versions == 1..MaxVersion

Init ==
  /\ latestVersion = 0 /\ pinnedVersion = 0
  /\ subscribers = <<>>
  /\ queue = <<>>
  /\ ctxDone = FALSE /\ queueClosed = FALSE /\ closedChannels = {}
  /\ announcing = 0 /\ refused = 0
  /\ worker = [pc |-> "select", version |-> 0]
  /\ channel = [c \in Clients |-> <<>>]
  /\ client = [c \in Clients |-> [pc |-> "out", target |-> 0]]
  /\ sent = [c \in Clients |-> 0]
  /\ panicked = FALSE

-----------------------------------------------------------------------------
(* Slip: a full channel is written to as well (ClientsAreServed). *)
DeadIfClosed(list) == {i \in DOMAIN list : list[i] \in closedChannels}

(* safeChannelSend fails on a full channel and on a closed one. *)
Dead(list) ==
  {i \in DOMAIN list : \/ Len(channel[list[i]]) >= Capacity[list[i]]
                       \/ list[i] \in closedChannels}

(* Slip: indices are removed in ascending order (SendsAreOrderly). *)
WithoutAscending(list, indices) ==
  FoldLeft(RemoveAt, list, SetToSortSeq(indices, <))

(* The last index first, so that the others keep their meaning: the i-th   *)
(* entry that is left had i of those that stay up to and including itself. *)
Without(list, indices) ==
  LET kept == DOMAIN list \ indices
  IN [i \in 1..Cardinality(kept) |->
        list[CHOOSE k \in kept : Cardinality(kept \cap 1..k) = i]]

Notify(version) ==
  LET reached == {subscribers[i] : i \in DOMAIN subscribers \ Dead(subscribers)} IN
  /\ channel' = [c \in Clients |->
       IF c \in reached THEN Append(channel[c], version) ELSE channel[c]]
  /\ sent' = [c \in Clients |-> IF c \in reached THEN version ELSE sent[c]]
  /\ subscribers' = Without(subscribers, Dead(subscribers))

(* Nobody's channel is listed twice (TypeOK). *)
Delist(c) ==
  subscribers' = Without(subscribers, {i \in DOMAIN subscribers : subscribers[i] = c})
Enlist(c) ==
  /\ subscribers' = Append(subscribers, c)
  /\ sent' = [sent EXCEPT ![c] = latestVersion]
Enter(c, pc) == client' = [client EXCEPT ![c].pc = pc]

-----------------------------------------------------------------------------
(* Announce, called by one producer with increasing versions: the latest   *)
(* version is set at once, the queue is entered in a select of its own.    *)
Announce ==
  /\ announcing = 0
  /\ latestVersion < MaxVersion
  /\ ctxDone => "lateAnnounce" \in Events
  /\ latestVersion' = latestVersion + 1
  /\ announcing' = latestVersion + 1
  /\ UNCHANGED <<pinnedVersion, queue, refused, worker, closeVars, clientVars, panicked>>

Enqueue ==
  /\ announcing # 0
  /\ ~queueClosed
  /\ Len(queue) < QueueSize
  /\ queue' = Append(queue, announcing)
  /\ announcing' = 0
  /\ UNCHANGED <<cursorVars, refused, worker, closeVars, clientVars, panicked>>

AnnounceCancelled ==
  /\ announcing # 0
  /\ ctxDone
  /\ announcing' = 0 /\ refused' = announcing
  /\ UNCHANGED <<cursorVars, queue, worker, closeVars, clientVars, panicked>>

AnnounceTimesOut ==
  /\ "queueTimeout" \in Events
  /\ announcing # 0
  /\ ~queueClosed
  /\ Len(queue) = QueueSize
  /\ announcing' = 0 /\ refused' = announcing
  /\ UNCHANGED <<cursorVars, queue, worker, closeVars, clientVars, panicked>>

(* select may choose to send on the closed queue. *)
AnnouncePanics ==
  /\ announcing # 0
  /\ queueClosed
  /\ panicked' = TRUE
  /\ UNCHANGED <<cursorVars, announceVars, closeVars, clientVars>>

-----------------------------------------------------------------------------
WorkerReceives ==
  /\ worker.pc = "select"
  /\ queue # <<>>
  /\ queue' = Tail(queue)
  /\ worker' = [pc |-> "process", version |-> Head(queue)]
  /\ UNCHANGED <<cursorVars, announcing, refused, closeVars, clientVars, panicked>>

(* A closed and empty queue yields version 0, as often as it is asked. *)
WorkerReceivesNothing ==
  /\ worker.pc = "select"
  /\ queueClosed /\ queue = <<>>
  /\ worker' = [pc |-> "process", version |-> 0]
  /\ UNCHANGED <<cursorVars, queue, announcing, refused, closeVars, clientVars, panicked>>

WorkerStops ==
  /\ worker.pc = "select"
  /\ ctxDone
  /\ worker' = [pc |-> "stopped", version |-> 0]
  /\ UNCHANGED <<cursorVars, queue, announcing, refused, closeVars, clientVars, panicked>>

(* Slip: an old version is sent on as well (SendsAreOrderly). *)
ProcessAnnouncementAlways ==
  /\ worker.pc = "process"
  /\ latestVersion' = worker.version
  /\ Notify(worker.version)
  /\ worker' = [pc |-> "select", version |-> 0]
  /\ UNCHANGED <<pinnedVersion, queue, announcing, refused, closeVars, client, panicked>>

(* Slip: only a version newer than the latest, which Announce has already  *)
(* set, is sent on (NobodyIsBehind, EarlyWaiterIsAnswered).                *)
ProcessAnnouncementNewer ==
  /\ worker.pc = "process"
  /\ \/ /\ worker.version > latestVersion
        /\ latestVersion' = worker.version
        /\ Notify(worker.version)
     \/ /\ worker.version <= latestVersion
        /\ UNCHANGED <<latestVersion, subscribers, channel, sent>>
  /\ worker' = [pc |-> "select", version |-> 0]
  /\ UNCHANGED <<pinnedVersion, queue, announcing, refused, closeVars, client, panicked>>

ProcessAnnouncement ==
  /\ worker.pc = "process"
  /\ \/ /\ worker.version >= latestVersion
        /\ latestVersion' = worker.version
        /\ Notify(worker.version)
     \/ /\ worker.version < latestVersion
        /\ UNCHANGED <<latestVersion, subscribers, channel, sent>>
  /\ worker' = [pc |-> "select", version |-> 0]
  /\ UNCHANGED <<pinnedVersion, queue, announcing, refused, closeVars, client, panicked>>

-----------------------------------------------------------------------------
Latest == IF pinnedVersion # 0 THEN pinnedVersion ELSE latestVersion

Pin(version) ==
  /\ "pin" \in Events
  /\ version <= latestVersion
  /\ pinnedVersion' = version
  /\ Notify(version)
  /\ UNCHANGED <<latestVersion, announceVars, closeVars, client, panicked>>

(* Slip: subscribers are not told (ClientsAreServed). *)
UnpinSilently ==
  /\ pinnedVersion # 0
  /\ pinnedVersion' = 0
  /\ UNCHANGED <<latestVersion, announceVars, closeVars, clientVars, panicked>>

Unpin ==
  /\ pinnedVersion # 0
  /\ pinnedVersion' = 0
  /\ Notify(latestVersion)
  /\ UNCHANGED <<latestVersion, announceVars, closeVars, client, panicked>>

-----------------------------------------------------------------------------
Subscribe(s) ==
  /\ client[s].pc = "out"
  /\ Enlist(s)
  /\ Enter(s, "in")
  /\ UNCHANGED <<cursorVars, announceVars, closeVars, channel, panicked>>

(* Close of a subscription; its channel stays open. *)
Unsubscribe(s) ==
  /\ "unsubscribe" \in Events
  /\ client[s].pc = "in"
  /\ Delist(s)
  /\ Enter(s, "gone")
  /\ channel' = [channel EXCEPT ![s] = <<>>]
  /\ UNCHANGED <<cursorVars, announceVars, closeVars, sent, panicked>>

Receive(s) ==
  /\ client[s].pc = "in"
  /\ channel[s] # <<>>
  /\ channel' = [channel EXCEPT ![s] = Tail(@)]
  /\ UNCHANGED <<cursorVars, announceVars, closeVars, subscribers, client, sent, panicked>>

(* The range over a closed channel ends when it is empty. *)
LoopEnds(s) ==
  /\ client[s].pc = "in"
  /\ channel[s] = <<>>
  /\ s \in closedChannels
  /\ Enter(s, "ended")
  /\ UNCHANGED <<cursorVars, announceVars, closeVars, subscribers, channel, sent, panicked>>

-----------------------------------------------------------------------------
(* WaitForVersion: look at the latest version, then subscribe, then wait.  *)
WaitForVersion(w, target) ==
  /\ client[w].pc = "out"
  /\ client' = [client EXCEPT ![w] =
       [pc |-> IF Latest >= target THEN "done" ELSE "checked", target |-> target]]
  /\ UNCHANGED <<cursorVars, announceVars, closeVars, subscribers, channel, sent, panicked>>

WaiterSubscribes(w) ==
  /\ client[w].pc = "checked"
  /\ Enlist(w)
  /\ Enter(w, "waiting")
  /\ UNCHANGED <<cursorVars, announceVars, closeVars, channel, panicked>>

(* Returning unsubscribes; what is left in the channel is garbage. *)
WaiterReturns(w, pc) ==
  /\ Delist(w)
  /\ Enter(w, pc)
  /\ channel' = [channel EXCEPT ![w] = <<>>]
  /\ UNCHANGED <<cursorVars, announceVars, closeVars, sent, panicked>>

(* Slip: the first version is taken for the one waited for (ClientsAreServed). *)
WaiterReceivesAny(w) ==
  /\ client[w].pc = "waiting"
  /\ channel[w] # <<>>
  /\ WaiterReturns(w, "done")

(* The zeros a closed channel yields are below every target. *)
WaiterReceives(w) ==
  /\ client[w].pc = "waiting"
  /\ channel[w] # <<>>
  /\ \/ /\ Head(channel[w]) >= client[w].target
        /\ WaiterReturns(w, "done")
     \/ /\ Head(channel[w]) < client[w].target
        /\ channel' = [channel EXCEPT ![w] = Tail(@)]
        /\ UNCHANGED <<cursorVars, announceVars, closeVars, subscribers, client, sent, panicked>>

WaiterTimesOut(w) ==
  /\ "waitTimeout" \in Events
  /\ client[w].pc = "waiting"
  /\ WaiterReturns(w, "timedout")

WaiterCancelled(w) ==
  /\ client[w].pc = "waiting"
  /\ ctxDone
  /\ WaiterReturns(w, "cancelled")

-----------------------------------------------------------------------------
(* Close cancels the context, then closes channels and queue under the     *)
(* lock.                                                                   *)
CancelContext ==
  /\ "close" \in Events
  /\ ~ctxDone
  /\ announcing # 0 => "lateAnnounce" \in Events
  /\ ctxDone' = TRUE
  /\ UNCHANGED <<cursorVars, announceVars, queueClosed, closedChannels, clientVars, panicked>>

(* Slip: the subscribers are forgotten without a word (CloseEndsEverybody). *)
CloseQueueOnly ==
  /\ ctxDone /\ ~queueClosed
  /\ queueClosed' = TRUE
  /\ subscribers' = <<>>
  /\ UNCHANGED <<cursorVars, announceVars, ctxDone, closedChannels, channel, client, sent, panicked>>

CloseChannels ==
  /\ ctxDone /\ ~queueClosed
  /\ queueClosed' = TRUE
  /\ closedChannels' = closedChannels \cup ToSet(subscribers)
  /\ subscribers' = <<>>
  /\ UNCHANGED <<cursorVars, announceVars, ctxDone, channel, client, sent, panicked>>

-----------------------------------------------------------------------------
FinishAnnounce == Enqueue \/ AnnounceCancelled \/ AnnounceTimesOut \/ AnnouncePanics
WorkerStep ==
  WorkerReceives \/ WorkerReceivesNothing \/ WorkerStops \/ ProcessAnnouncement
SubscriberStep(s) == Receive(s) \/ LoopEnds(s)
WaiterStep(w) ==
  WaiterSubscribes(w) \/ WaiterReceives(w) \/ WaiterTimesOut(w) \/ WaiterCancelled(w)

Next ==
  /\ ~panicked
  /\ \/ Announce \/ FinishAnnounce \/ WorkerStep
     \/ Unpin \/ \E v \in Versions : Pin(v)
     \/ CancelContext \/ CloseChannels
     \/ \E s \in Subscribers : Subscribe(s) \/ Unsubscribe(s) \/ SubscriberStep(s)
     \/ \E w \in Waiters : WaiterStep(w) \/ \E v \in Versions : WaitForVersion(w, v)

Spec == Init /\ [][Next]_vars

(* Goroutines keep running, and a select that is asked again and again     *)
(* takes each of its ready cases some time, since Go chooses at random.    *)
FairSpec ==
  /\ Spec
  /\ WF_vars(FinishAnnounce) /\ WF_vars(CloseChannels)
  /\ WF_vars(WorkerStep) /\ SF_vars(WorkerStops)
  /\ \A s \in Subscribers : WF_vars(SubscriberStep(s))
  /\ \A w \in Waiters : WF_vars(WaiterStep(w))

-----------------------------------------------------------------------------
TypeOK ==
  /\ {latestVersion, pinnedVersion, announcing, refused} \subseteq 0..MaxVersion
  /\ ToSet(subscribers) \subseteq Clients /\ IsInjective(subscribers)
  /\ queue \in BoundedSeq(Versions, QueueSize)
  /\ {ctxDone, queueClosed, panicked} \subseteq BOOLEAN
  /\ worker \in [pc : {"select", "process", "stopped"}, version : 0..MaxVersion]
  /\ \A c \in Clients :
       /\ channel[c] \in BoundedSeq(0..MaxVersion, Capacity[c])
       /\ sent[c] \in 0..MaxVersion
       /\ client[c].target \in 0..MaxVersion
  /\ \A s \in Subscribers : client[s].pc \in {"out", "in", "gone", "ended"}
  /\ \A w \in Waiters :
       client[w].pc \in {"out", "checked", "waiting", "done", "timedout", "cancelled"}
  /\ closedChannels \subseteq Clients

(***************************************************************************)
(* Whenever everything is quiet, nothing is pinned and Announce did not    *)
(* refuse the latest version, every listed client was last sent that       *)
(* version: also after pins, and although the worker skips the versions    *)
(* that were overtaken in the queue.                                       *)
(***************************************************************************)
Quiet ==
  /\ announcing = 0 /\ queue = <<>> /\ worker.pc = "select"
  /\ pinnedVersion = 0 /\ ~ctxDone
NobodyIsBehind ==
  (Quiet /\ refused # latestVersion)
    => \A c \in ToSet(subscribers) : sent[c] = latestVersion

(***************************************************************************)
(* A client is never sent an older version than before, unless by Pin,     *)
(* although two goroutines send to it.                                     *)
(***************************************************************************)
OnlyPinsGoBack ==
  [][\A c \in Clients :
       sent[c]' < sent[c] => (pinnedVersion' # 0 /\ sent[c]' = pinnedVersion')]_vars

(***************************************************************************)
(* Who is taken off the list by somebody else had a full channel, or the   *)
(* announcer was closed.                                                   *)
(***************************************************************************)
OnlyFullAreRemoved ==
  [][\A c \in ToSet(subscribers) \ ToSet(subscribers') :
       \/ Len(channel[c]) >= Capacity[c]
       \/ client[c]'.pc # client[c].pc
       \/ queueClosed']_vars

(***************************************************************************)
(* WaitForVersion returns nil only once its version was announced.         *)
(***************************************************************************)
WaitIsSound ==
  \A w \in Waiters : client[w].pc = "done" => latestVersion >= client[w].target

(***************************************************************************)
(* Both, with channels that never hold more than they can: what a client   *)
(* of the announcer may rely on at any time.                               *)
(***************************************************************************)
ClientsAreServed == TypeOK /\ NobodyIsBehind /\ WaitIsSound

(***************************************************************************)
(* What it may rely on from one send to the next: versions go back only by *)
(* a pin, and nobody else's full channel takes it off the list.            *)
(***************************************************************************)
SendsAreOrderly == OnlyPinsGoBack /\ OnlyFullAreRemoved

(***************************************************************************)
(* Who was waiting before its version was announced (and so was not yet    *)
(* sent one as high) is answered once it is announced, although versions   *)
(* overtake one another in the queue and the worker then skips them.       *)
(***************************************************************************)
Answered(w) == client[w].pc \in {"done", "cancelled"}
Announced(w) == client[w].pc = "waiting" /\ latestVersion >= client[w].target
EarlyWaiterIsAnswered ==
  \A w \in Waiters : (Announced(w) /\ sent[w] < client[w].target) ~> Answered(w)

(***************************************************************************)
(* Who waits for a version that is announced is answered, whether it       *)
(* subscribed before or after the worker sent it.                          *)
(***************************************************************************)
WaiterIsAnswered ==
  \A w \in Waiters : Announced(w) ~> Answered(w)

(***************************************************************************)
(* Close stops the worker and ends the loop of everybody who subscribed    *)
(* before it and did not leave.                                            *)
(***************************************************************************)
CloseEndsEverybody ==
  /\ ctxDone ~> (worker.pc = "stopped")
  /\ \A s \in Subscribers :
       (ctxDone /\ ~queueClosed /\ client[s].pc = "in") ~> (client[s].pc # "in")

(***************************************************************************)
(* While a version is pinned, nothing else is sent.                        *)
(***************************************************************************)
PinHoldsBack ==
  [][\A c \in Clients :
       (pinnedVersion # 0 /\ pinnedVersion' = pinnedVersion /\ Len(channel[c]') > Len(channel[c]))
         => Last(channel[c]') = pinnedVersion]_vars

(***************************************************************************)
(* No Announce brings the process down.                                    *)
(***************************************************************************)
NoPanic == ~panicked
=============================================================================
