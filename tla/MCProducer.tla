----------------------------- MODULE MCProducer -----------------------------
(***************************************************************************)
(* Instances of Producer for TLC.                                          *)
(***************************************************************************)
EXTENDS Producer, SequencesExt

(* Three states to publish, or two where failures multiply the behaviours; *)
(* their hashes differ.                                                    *)
DistinctContents == {"A", "B", "C"}
DistinctHash == [c \in DistinctContents |-> <<"md5", c>>]
CONSTANTS A, B
TwoContents == {A, B}
TwoHash == [c \in TwoContents |-> <<"md5", c>>]
Symmetry == Permutations(TwoContents)

(* Everything but a Restore in the middle of a cycle.                      *)
FaultEvents ==
  {"disable", "announceFail", "empty", "reject", "storeFail", "crash", "restore"}

(* calculateDataHash writes the number of records of a type and then every *)
(* record's text, with nothing between two records.  A record is the       *)
(* sequence of its characters here.                                        *)
TextContents == { << <<"a", "b">>, <<"c">> >>,
                  << <<"a">>, <<"b", "c">> >>,
                  << <<"a">> >> }
calculateDataHash(c) == <<Len(c), FlattenSeq(c)>>
TextHash == [c \in TextContents |-> calculateDataHash(c)]
=============================================================================
