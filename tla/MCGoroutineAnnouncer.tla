------------------------ MODULE MCGoroutineAnnouncer ------------------------
(***************************************************************************)
(* Instances of GoroutineAnnouncer for TLC.                                *)
(***************************************************************************)
EXTENDS GoroutineAnnouncer

CONSTANTS s1, s2, w1

TwoSubscribers == {s1, s2}
OneSubscriber == {s1}
OneWaiter == {w1}
Nobody == {}

(* A subscriber that falls behind at once, and channels nobody fills. *)
SmallAndLarge == (s1 :> 1) @@ (s2 :> 2) @@ (w1 :> 1)
Large == [c \in {s1, w1} |-> 4]
NoCapacity == [c \in {} |-> 1]
OneSmall == [c \in {s1} |-> 1]
OneLarge == [c \in {s1} |-> 4]
WaiterLarge == [c \in {w1} |-> 4]

AlmostEverything == EventNames \ {"unsubscribe"}
Orderly == {"unsubscribe", "close"}
PinOnly == {"pin"}
CloseOnly == {"close"}
None == {}
LateAnnounce == {"close", "lateAnnounce"}
=============================================================================
