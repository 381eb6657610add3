------------------------- MODULE MCZeroCopyConsumer -------------------------
(***************************************************************************)
(* Instances of ZeroCopyConsumer, and of the command line that uses it,    *)
(* for TLC: the setup says which of them a behaviour is about.             *)
(***************************************************************************)
EXTENDS Session

FiveRecords == New("test", 0, 5)
TwoLists == {New("test", 0, 1), New("test", 0, 2)}
EmptyList == <<>>

(* What one command can make of the first snapshot or of nothing. *)
AllLists ==
  TwoLists \cup {FiveRecords} \cup
    (UNION {Evolutions(e, v) : e \in {EmptyList, FiveRecords}, v \in 0..(MaxVersion - 1)} \ {EmptyList})
AllListsHash == [c \in AllLists |-> <<"md5", c>>]

OneOrTwo == {1, 2}
FailuresAndEmpty == {"storeFail", "empty"}

Program(w, r, v, who, what) ==
  [writer |-> w, reader |-> r, viewer |-> v, refreshers |-> who, disturbances |-> what]

(* A program that leaves the consumer's serializer alone, with the refresh *)
(* loop running; a hybrid producer with readers of Cap'n Proto; the        *)
(* command line.                                                           *)
MixedSetups ==
  { Program("zerocopy", "traditional", "hybrid", {"auto", "manual"}, {}),
    Program("hybridTraditional", "zerocopy", "zerocopy", {"manual"}, {}),
    Interactive }

CommandLine == {Interactive}

(* Whoever makes views beside the refresh loop refreshes by that call only *)
(* and to versions, until there is a view: views do not depend on those    *)
(* made before.  The first cycle is always the same.                       *)
RaceIsSmall ==
  /\ refresher["manual"].pc = "idle" /\ refresher'["manual"].pc # "idle" =>
       call'.version > 0 /\ \A v \in Versions : zeroCopyViews[v] = NoView
  /\ currentState = EmptyList => currentState' \in {EmptyList, New("test", 0, 1)}

ViewsNext ==
  /\ setup # Interactive
  /\ ZeroCopyNext
  /\ "auto" \in setup.refreshers => RaceIsSmall
  /\ currentState' # currentState => currentState' \in TwoLists
  /\ UNCHANGED session

ConsumerNext == ViewsNext \/ (setup = Interactive /\ SessionNext)

ConsumerSpec == SessionInit /\ [][ConsumerNext]_sessionVars
=============================================================================
