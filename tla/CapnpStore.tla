----------------------------- MODULE CapnpStore -----------------------------
(***************************************************************************)
(* legacy/capnp_store.go between a producer and a consumer of the earlier  *)
(* API (LegacyHollow.tla has them with the other store).  The store        *)
(* encodes what is staged as Cap'n Proto, but retrieves from one field,    *)
(* original, that every Stage overwrites.                                  *)
(*                                                                         *)
(* A JSON value is a record with one field that names its kind: map (a     *)
(* function), list (a sequence), text, number, bool or null.               *)
(***************************************************************************)
EXTENDS SequencesExt, Integers

CONSTANTS
  Documents,      \* the maps a producer serializes, one entry per record
  Float64bits,    \* number -> the number its bits are read as
  MaxCycles       \* bound on cycles

VARIABLES
  capSnapshots,    \* version -> the root of its message
  capDocuments,    \* history: version -> the document staged
  original, capLatest,
  capCycle,        \* the version being staged, 0 between cycles
  capVersion,      \* of the producer
  reader,          \* the consumer: its version, its data and where it is
  capCrashed

capVars ==
  <<capSnapshots, capDocuments, original, capLatest, capCycle, capVersion, reader, capCrashed>>

Is(kind, v) == kind \in DOMAIN v
NoEntries == [map |-> <<>>]
NewReader ==
  [at |-> "idle", version |-> 0, asked |-> 0, data |-> NoEntries, refreshed |-> FALSE,
   seen |-> 0]   \* history: the latest version when the data was retrieved

CapInit ==
  /\ capSnapshots = <<>> /\ capDocuments = <<>>
  /\ original = NoEntries /\ capLatest = 0
  /\ capCycle = 0 /\ capVersion = 0
  /\ reader = NewReader
  /\ capCrashed = FALSE

-----------------------------------------------------------------------------
(* The maps that may be the last to be made below v, v included.  Each is  *)
(* made as the root of the message, so that the last one stays it.         *)
RECURSIVE LastMaps(_)
LastMaps(v) ==
  IF Is("map", v)
  THEN LET below == UNION {LastMaps(v.map[k]) : k \in DOMAIN v.map}
       IN IF below = {} THEN {v} ELSE below
  ELSE IF Is("list", v)
  THEN LET at == {i \in DOMAIN v.list : LastMaps(v.list[i]) # {}}
       IN IF at = {} THEN {} ELSE LastMaps(v.list[Max(at)])
  ELSE {}

JsonToCapnp(document) == LastMaps(document)

(* getCapnpValue finds no text in an empty one. *)
RECURSIVE CanDecode(_)
CanDecode(v) ==
  /\ v # [text |-> ""]
  /\ Is("map", v) => \A k \in DOMAIN v.map : CanDecode(v.map[k])
  /\ Is("list", v) => \A i \in DOMAIN v.list : CanDecode(v.list[i])

(* Slip: entries that are null are left out (PlainDocumentsRoundTrip). *)
GetCapnpValueWithoutNulls(v) ==
  LET kept == {k \in DOMAIN v.map : ~Is("null", v.map[k])}
  IN [map |-> [k \in kept |-> v.map[k]]]

(* Booleans and numbers are read as the float of their bits, or as null if *)
(* the lowest byte is zero.                                                *)
RECURSIVE GetCapnpValue(_)
GetCapnpValue(v) ==
  LET scalar(bits) == IF bits % 256 = 0 THEN [null |-> 0] ELSE [number |-> bits]
  IN IF Is("map", v) THEN [map |-> [k \in DOMAIN v.map |-> GetCapnpValue(v.map[k])]]
     ELSE IF Is("list", v) THEN [list |-> [i \in DOMAIN v.list |-> GetCapnpValue(v.list[i])]]
     ELSE IF Is("bool", v) THEN scalar(IF v.bool THEN 1 ELSE 0)
     ELSE IF Is("number", v) THEN scalar(Float64bits[v.number])
     ELSE v

-----------------------------------------------------------------------------
With(f, x, y) == [z \in DOMAIN f \cup {x} |-> IF z = x THEN y ELSE f[z]]

(* Slip: the first document stays the original (ReadIsNotOlder). *)
StageOnce ==
  /\ ~capCrashed /\ capCycle = 0 /\ capVersion < MaxCycles
  /\ \E document \in Documents :
       /\ original' = IF capVersion = 0 THEN document ELSE original
       /\ \E root \in JsonToCapnp(document) : capSnapshots' = With(capSnapshots, capVersion + 1, root)
       /\ capDocuments' = With(capDocuments, capVersion + 1, document)
  /\ capVersion' = capVersion + 1
  /\ capCycle' = capVersion + 1
  /\ UNCHANGED <<capLatest, reader, capCrashed>>

(* RunCycle takes a version and stages its data. *)
Stage ==
  /\ ~capCrashed /\ capCycle = 0 /\ capVersion < MaxCycles
  /\ \E document \in Documents :
       /\ original' = document
       /\ \E root \in JsonToCapnp(document) : capSnapshots' = With(capSnapshots, capVersion + 1, root)
       /\ capDocuments' = With(capDocuments, capVersion + 1, document)
  /\ capVersion' = capVersion + 1
  /\ capCycle' = capVersion + 1
  /\ UNCHANGED <<capLatest, reader, capCrashed>>

Commit ==
  /\ ~capCrashed /\ capCycle # 0
  /\ capLatest' = IF capCycle \in DOMAIN capSnapshots /\ capCycle > capLatest
                  THEN capCycle ELSE capLatest
  /\ capCycle' = 0
  /\ UNCHANGED <<capSnapshots, capDocuments, original, capVersion, reader, capCrashed>>

(* diffToCapnp makes a struct of two bytes, which Cap'n Proto rounds up to *)
(* a word, and writes a second word into it.                               *)
Padded(bytes) == ((bytes + 7) \div 8) * 8
(* Slip: room for both versions (ReadIsNotOlder). *)
DiffDataSizeOfBoth == 16
DiffDataSize == 2

(* A delta that can be encoded becomes the latest version; nobody recovers *)
(* the panic of one that cannot.                                           *)
WriteDelta ==
  /\ ~capCrashed
  /\ IF Padded(DiffDataSize) < 16
     THEN capCrashed' = TRUE /\ UNCHANGED capLatest
     ELSE capLatest < MaxCycles /\ capLatest' = capLatest + 1 /\ UNCHANGED capCrashed
  /\ UNCHANGED <<capSnapshots, capDocuments, original, capCycle, capVersion, reader>>

-----------------------------------------------------------------------------
(* NewDeltaConsumerWithOptions starts a consumer without data at the       *)
(* latest version, and fails when there is none.                           *)
NewDeltaConsumer ==
  /\ ~capCrashed /\ reader.at = "idle" /\ capLatest # 0
  /\ reader' = [NewReader EXCEPT !.version = capLatest]
  /\ UNCHANGED <<capSnapshots, capDocuments, original, capLatest, capCycle, capVersion, capCrashed>>

(* Refresh asks for a version ... *)
AskLatest ==
  /\ ~capCrashed /\ reader.at = "idle" /\ capLatest # 0
  /\ reader' = [reader EXCEPT !.at = "retrieve", !.asked = capLatest]
  /\ UNCHANGED <<capSnapshots, capDocuments, original, capLatest, capCycle, capVersion, capCrashed>>

(* The records that are maps are merged, those later in Go's order of the  *)
(* document over those before; the others are lost.                        *)
Merged(document) ==
  LET records == {k \in DOMAIN document.map : Is("map", document.map[k])}
      over(m, k) == document.map[k].map @@ m
  IN {[map |-> FoldLeft(over, <<>>, order)] : order \in SetToSeqs(records)}

(* ... and retrieves and stores what the store has by then. *)
Retrieve ==
  /\ ~capCrashed /\ reader.at = "retrieve"
  /\ reader.asked \in DOMAIN capSnapshots
  /\ \E data \in Merged(original) :
       reader' = [NewReader EXCEPT !.version = reader.asked, !.data = data, !.refreshed = TRUE,
                                   !.seen = capLatest]
  /\ UNCHANGED <<capSnapshots, capDocuments, original, capLatest, capCycle, capVersion, capCrashed>>

CapNext == Stage \/ Commit \/ WriteDelta \/ NewDeltaConsumer \/ AskLatest \/ Retrieve

CapSpec == CapInit /\ [][CapNext]_capVars

-----------------------------------------------------------------------------
(***************************************************************************)
(* Whatever cycles come between the question for the latest version and    *)
(* the retrieval, what a consumer is given is of the version that is the   *)
(* latest when it retrieves, or of the one that is being staged then, and  *)
(* never of one before the version it asked for, though Retrieve looks at  *)
(* the last document only.  And whoever was told a latest version can      *)
(* retrieve it, which holds only because no delta can be written:          *)
(* WriteDelta makes a version the latest that has no snapshot.             *)
(***************************************************************************)
ReadIsNotOlder ==
  /\ {capLatest, reader.asked} \ {0} \subseteq DOMAIN capSnapshots
  /\ reader.refreshed =>
       /\ reader.version <= reader.seen
       /\ \E v \in (reader.seen..(reader.seen + 1)) \cap DOMAIN capDocuments :
            reader.data \in Merged(capDocuments[v])

(***************************************************************************)
(* It is of its version: the consumer reads what is not committed yet.     *)
(***************************************************************************)
ReadIsCommitted ==
  reader.refreshed => reader.data \in Merged(capDocuments[reader.version])

(* Numbers are not among them: no float has its own bits. *)
RECURSIVE Plain(_)
Plain(v) ==
  \/ Is("null", v)
  \/ Is("text", v) /\ v.text # ""
  \/ Is("list", v) /\ \A i \in DOMAIN v.list : Plain(v.list[i])

(***************************************************************************)
(* A document comes back from the message it was encoded as (jsonToCapnp,  *)
(* capnpToJSON) if and only if its entries are texts, nulls and lists of   *)
(* them.                                                                   *)
(***************************************************************************)
PlainDocumentsRoundTrip ==
  \A v \in DOMAIN capSnapshots :
    (CanDecode(capSnapshots[v]) /\ GetCapnpValue(capSnapshots[v]) = capDocuments[v])
      <=> \A k \in DOMAIN capDocuments[v].map : Plain(capDocuments[v].map[k])
=============================================================================
