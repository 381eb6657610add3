------------------------------ MODULE MCHollow ------------------------------
(***************************************************************************)
(* Instances of Hollow for TLC.                                            *)
(***************************************************************************)
EXTENDS Hollow

(* Lists that grow and shrink by one record and change in place. *)
Lists == {<<1>>, <<2>>, <<1, 2>>}
TwoLists == {<<1>>, <<1, 2>>}
ListsHash == [c \in Lists |-> <<"md5", c>>]
TwoListsHash == [c \in TwoLists |-> <<"md5", c>>]
EmptyList == <<>>

(* The hypothesis of the theorems about what is read holds of these lists. *)
ASSUME ListsCanBeUpdated == DeltasApply

Program(mode, who, what) ==
  [writer |-> mode, reader |-> mode, viewer |-> mode, refreshers |-> who, disturbances |-> what]

(* The refresh loop alone, subscribed in time or late; a caller alone, who *)
(* may name versions, while others pin and unpin.                          *)
LoneSetups ==
  {Program("zerocopy", {"auto"}, {}), Program("zerocopy", {"auto"}, {"lateSubscribe"}),
   Program("zerocopy", {"manual"}, {"pin", "explicit"})}

(* The loop and a caller refresh one consumer. *)
RaceSetups == {Program("zerocopy", {"auto", "manual"}, {})}

-----------------------------------------------------------------------------
(* What goes wrong otherwise (README, known divergences). *)
LoopSetups == {Program("zerocopy", {"auto"}, {})}                \* AnnouncedIsRead, BufferSize = 1
LateSetups == {Program("zerocopy", {"auto"}, {"lateSubscribe"})} \* LateSubscriberCatchesUp
PinSetups == {Program("zerocopy", {"manual"}, {"pin"})}          \* PinIsHonoured
TraditionalSetups == {Program("traditional", {"manual"}, {})}    \* ReadsArePublished
(* RaceSetups: NoPanic. *)

None == {}
DisableOnly == {"disable"}
=============================================================================
