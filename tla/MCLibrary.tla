------------------------------ MODULE MCLibrary ------------------------------
(***************************************************************************)
(* The parts of the library that share no state with the others, one after *)
(* the other: a behaviour is about one of them.                            *)
(***************************************************************************)
EXTENDS SchemaCompiler, CapnpStore, Indexes, Collections, MovieViews, ProducerPool, PollingReaders

CONSTANT Parts   \* which of them to consider

VARIABLE part

(* PollingReaders: the demo, the stress test and production readers, who   *)
(* may have been given another announcer.                                  *)
Running(name, strategies, announcer) ==
  [program |-> name, strategies |-> strategies, announcer |-> announcer,
   frequency |-> IF name = "stress" THEN 1 ELSE 2]
Idle == Running("demo", <<"demo">>, "goroutine")

exampleVars == <<storeVars, poolOwnVars, readerOwnVars>>
libraryVars == <<compilerVars, capVars, indexVars, collectionVars, movieVars, exampleVars>>

LibraryInit ==
  /\ part \in Parts
  /\ CompilerInit /\ CapInit /\ IndexInit /\ CollectionInit /\ MovieInit
  /\ ReadersInit /\ PoolInit(setting.frequency)
  /\ part # "schemas" => language = "c"
  /\ part # "indexes" => views = <<1>>
  /\ part # "collections" => one.ordinal = 1 /\ other.ordinal = 1
  /\ part # "pool" => program = "simple"
  /\ part # "readers" => setting = Idle

Only(name) == part = name /\ UNCHANGED part

LibraryNext ==
  \/ /\ Only("schemas") /\ CompilerNext
     /\ UNCHANGED <<capVars, indexVars, collectionVars, movieVars, exampleVars>>
  \/ /\ Only("capnp") /\ CapNext
     /\ UNCHANGED <<compilerVars, indexVars, collectionVars, movieVars, exampleVars>>
  \/ /\ Only("indexes") /\ IndexNext
     /\ UNCHANGED <<compilerVars, capVars, collectionVars, movieVars, exampleVars>>
  \/ /\ Only("collections") /\ CollectionNext
     /\ UNCHANGED <<compilerVars, capVars, indexVars, movieVars, exampleVars>>
  \/ /\ Only("movies") /\ MovieNext
     /\ UNCHANGED <<compilerVars, capVars, indexVars, collectionVars, exampleVars>>
  \/ /\ Only("pool") /\ PoolNext
     /\ UNCHANGED <<compilerVars, capVars, indexVars, collectionVars, movieVars, readerOwnVars>>
  \/ /\ Only("readers") /\ ReadersNext
     /\ UNCHANGED <<compilerVars, capVars, indexVars, collectionVars, movieVars, poolOwnVars>>

LibrarySpec == LibraryInit /\ [][LibraryNext]_<<part, libraryVars>>

(***************************************************************************)
(* The three ways to ask for data give what the records say: a lookup in   *)
(* an index of zero-copy views, a collection, and a list of movies that is *)
(* searched, filtered and walked in batches.                               *)
(***************************************************************************)
QueriesAgree == LookupsAreExact /\ CollectionsAgree /\ BatchesAddUp

(***************************************************************************)
(* Documents hold what was written.  A compiled schema file has what its   *)
(* sections say whatever comes before or after them, and a type is         *)
(* compared by all that makes it the same.  A reader of the Cap'n Proto    *)
(* store is shown what is committed when it retrieves or what is being     *)
(* staged then, and plain documents come back as they were encoded.        *)
(***************************************************************************)
DocumentsAreRead ==
  /\ SectionsAreIndependent /\ EqualsIsSameness
  /\ ReadIsNotOlder /\ PlainDocumentsRoundTrip

-----------------------------------------------------------------------------
(* Schemas *)
Texts == {"A", "B", "Int", "IntRange", "Int32Range", "int", "List(B)"}

Taken(integers) == [text \in Texts |-> IF text \in integers THEN "Int" ELSE "no"]

(* "IntRange" is a type of somebody's that begins like "Int" of the YAML   *)
(* style, "Int32Range" one that begins like "Int32" of Cap'n Proto, too.   *)
TextsTakenFor ==
  [yaml |-> Taken({"Int", "IntRange", "Int32Range"}), c |-> Taken({"int"}),
   capnp |-> Taken({"Int32Range"})]

OneList == [text \in {"List(B)"} |-> "B"]
IntegerTexts == {"Int", "int"}

(* Two bytes of one name may be those of two others. *)
ShortNames ==
  [name \in Texts \cup {"x", "y", "value", "M", "ElementType", "KeyType", "ValueType", ""} |->
     CASE name = "A" -> <<1>> [] name = "B" -> <<1, 2>> [] name = "x" -> <<2>>
       [] name = "y" -> <<3>> [] name = "" -> <<>> [] OTHER -> <<7>>]

Line(is, name, text, value) == [is |-> is, name |-> name, text |-> text, value |-> value]

YAMLLines ==
  {Line("TypeName", n, "", "") : n \in {"A", "B"}}
    \cup {Line("Type", "", t, "") : t \in {"Object", "Set", "Map"}}
    \cup {Line("Fields", "", "", ""), Line("Field", "x", "B", ""), Line("Field", "y", "IntRange", "")}
    \cup {Line("KeyType", "", "B", ""), Line("ValueType", "", "B", ""), Line("ElementType", "", "A", "")}

CLines ==
  {Line("Open", n, "", "") : n \in {"A", "B"}}
    \cup {Line("Close", "", "", ""), Line("Member", "x", "A", ""),
          Line("Member", "x", "int", ""), Line("Map", "M", "A", "A"), Line("Comment", "", "", "")}

CapnProtoLines ==
  {Line("Id", "", "", ""), Line("struct", "A", "", ""), Line("struct", "B", "", ""),
   Line("enum", "B", "", ""), Line("Close", "", "", ""),
   Line("Numbered", "x", "B", ""), Line("Numbered", "y", "List(B)", ""),
   Line("Numbered", "x", "Int32Range", "")}

UpTo == [yaml |-> 5, c |-> 6, capnp |-> 5]

LinesOf == [yaml |-> YAMLLines, c |-> CLines, capnp |-> CapnProtoLines]

-----------------------------------------------------------------------------
(* CapnpStore: records that share keys, a record that is no map, texts and *)
(* lists, and values that change on their way.                             *)
Text(text) == [text |-> text]
Entries(entries) == [map |-> entries]

DocumentsOfAllKinds ==
  { Entries([r |-> Entries([x |-> Text("a")]), s |-> Entries([x |-> Text("b"), y |-> Text("a")])]),
    Entries([r |-> Text("a"), s |-> Entries([x |-> [number |-> 1]])]),
    Entries([r |-> [list |-> <<Text("a"), [null |-> 0]>>], s |-> [null |-> 0]]),
    Entries([r |-> [list |-> <<Text(""), [bool |-> TRUE]>>]]) }

(* A float whose bits end in a zero byte, and one whose bits do not. *)
BitsOf == 0 :> 0 @@ 1 :> 1023

(* Indexes: two types whose indexes have one name. *)
CollidingNames == "a" :> <<"id", "b_c">> @@ "a_b" :> <<"c">>
Lengths == {1, 4, 5}

(* MovieViews *)
Movie(id, year, runtime, genres) ==
  [id |-> id, year |-> year, runtime |-> runtime, genres |-> genres]
ThreeMovies == {Movie(1, 1, 90, <<"g">>), Movie(2, 1, 100, <<"g", "h">>), Movie(1, 2, 80, <<>>)}
OneToThree == 1..3

(* ProducerPool *)
TwoWriters == 1..2
FourRecords == <<"a", "b", "c", "d">>

AllPrograms ==
  { Idle,
    Running("stress", <<"zeroCopy">>, "goroutine"),
    Running("stress", <<"fallback", "adaptive">>, "goroutine"),
    Running("production", <<"production">>, "goroutine"),
    Running("production", <<"production">>, "other") }
=============================================================================
