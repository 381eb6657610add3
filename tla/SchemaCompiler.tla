--------------------------- MODULE SchemaCompiler ---------------------------
(***************************************************************************)
(* A document is read line by line, parsed (Schemas.tla) and its schemas   *)
(* are put in an order in which every type comes after those it refers to: *)
(* TopologicalSort of schema/parser.go.  The code walks its maps in any    *)
(* order, so that the types whose turn has come are queued in any order.   *)
(***************************************************************************)
EXTENDS Schemas

CONSTANTS
  Languages,     \* of documents for ParseSchemaCollection ("yaml", "c") and
                 \* for ParseCapnProtoSchemas ("capnp")
  Lines,         \* language -> the lines its documents are made of
  MaxLines       \* bound: language -> lines of a document

VARIABLES
  language, lines,         \* the document
  stage,                   \* what is done with it
  schemas,                 \* what the parser made of it
  inDegree, queue,         \* of TopologicalSort
  result                   \* the sorted schemas

compilerVars == <<language, lines, stage, schemas, inDegree, queue, result>>

CompilerInit ==
  /\ language \in Languages
  /\ lines = <<>>
  /\ stage = "reading"
  /\ schemas = <<>>
  /\ inDegree = <<>>
  /\ queue = <<>>
  /\ result = <<>>

ReadLine ==
  /\ stage = "reading"
  /\ Len(lines) < MaxLines[language]
  /\ \E line \in Lines[language] : lines' = Append(lines, line)
  /\ UNCHANGED <<language, stage, schemas, inDegree, queue, result>>

ParseDocument ==
  LET parsed == Parse(language, lines) IN
  /\ stage = "reading"
  /\ schemas' = IF parsed.panicked THEN <<>> ELSE parsed.schemas
  /\ stage' = IF parsed.panicked THEN "panicked" ELSE IF parsed.schemas = <<>> THEN "error" ELSE "parsed"
  /\ UNCHANGED <<language, lines, inDegree, queue, result>>

-----------------------------------------------------------------------------
(* Of schemas with the same name the last one is in the maps. *)
Names == {schemas[i].name : i \in DOMAIN schemas}
Named(name) == LastField(schemas, name)

IsReference(text) == text # NoText /\ text \notin Primitives

(* What a schema refers to, known or not, and where. *)
Dependencies(s) ==
  CASE s.kind = "Object" ->
         LET refs == {i \in DOMAIN s.fields : /\ s.fields[i].type = "Reference"
                                              /\ s.fields[i].ref # NoText /\ ~s.fields[i].list}
         IN {[at |-> i, on |-> s.fields[i].ref] : i \in refs}
    [] s.kind \in {"Set", "List"} ->
         {d \in {[at |-> 1, on |-> s.elementType]} : IsReference(d.on)}
    [] s.kind = "Map" ->
         {d \in {[at |-> 1, on |-> s.keyType], [at |-> 2, on |-> s.valueType]} : IsReference(d.on)}

References(name, dep) == Cardinality({d \in Dependencies(Named(name)) : d.on = dep})

(* Slip: a type that is referred to twice is counted once (SortIsCorrect). *)
InDegreeOnce ==
  [name \in Names |-> Cardinality({d.on : d \in Dependencies(Named(name))} \cap Names)]

InDegree ==
  [name \in Names |-> Cardinality({d \in Dependencies(Named(name)) : d.on \in Names})]

Queued(ready) == {q \in [1..Cardinality(ready) -> ready] : IsInjective(q)}

StartSort ==
  /\ stage = "parsed"
  /\ inDegree' = InDegree
  /\ queue' \in Queued({name \in Names : InDegree[name] = 0})
  /\ stage' = "sorting"
  /\ UNCHANGED <<language, lines, schemas, result>>

(* The types that refer to the first of the queue have fewer to wait for.  *)
Dequeue ==
  LET current == Head(queue)
      dependents == {name \in Names : References(name, current) > 0}
  IN /\ stage = "sorting"
     /\ queue # <<>>
     /\ result' = Append(result, Named(current))
     /\ inDegree' = [name \in Names |-> inDegree[name] - References(name, current)]
     /\ \E q \in Queued({name \in dependents : inDegree'[name] = 0}) : queue' = Tail(queue) \o q
     /\ UNCHANGED <<language, lines, stage, schemas>>

(* "circular dependency detected" *)
FinishSort ==
  /\ stage = "sorting"
  /\ queue = <<>>
  /\ stage' = IF Len(result) = Len(schemas) THEN "sorted" ELSE "circular"
  /\ UNCHANGED <<language, lines, schemas, inDegree, queue, result>>

CompilerNext == ReadLine \/ ParseDocument \/ StartSort \/ Dequeue \/ FinishSort

CompilerSpec == CompilerInit /\ [][CompilerNext]_compilerVars

-----------------------------------------------------------------------------
(* A document is in parts when its second part starts a type of its own.   *)
Cut(i) ==
  /\ i \in 1..(Len(lines) - 1)
  /\ IF language = "capnp" \/ IsCStyle(lines) THEN lines[i].is = "Close"
     ELSE lines[i + 1].is = "TypeName"

Part(first, last) ==
  LET part == SubSeq(lines, first, last)
  IN IF language = "capnp" THEN ParseCapnProto(part)
     ELSE IF IsCStyle(lines) THEN ParseCStyle(part) ELSE ParseYAMLStyle(part).schemas

(***************************************************************************)
(* What a parser makes of a type does not depend on what is written before *)
(* or after it.  (Cap'n Proto structs come before enums.)                  *)
(***************************************************************************)
SectionsAreIndependent ==
  stage = "parsed" =>
    \A i \in DOMAIN lines :
      Cut(i) => LET parts == Part(1, i) \o Part(i + 1, Len(lines))
                IN IF language = "capnp" THEN ToSet(schemas) = ToSet(parts) ELSE schemas = parts

RefersTo(a, b) == References(a, b) > 0

(***************************************************************************)
(* TopologicalSort, whatever order Go walks its maps in, returns every     *)
(* schema once, after all it refers to, and reports a circular dependency  *)
(* only where there is one or two schemas have one name.                   *)
(***************************************************************************)
SortIsCorrect ==
  /\ stage = "sorted" =>
       /\ HasIdenticalSchemas(schemas, result) /\ HasIdenticalSchemas(result, schemas)
       /\ \A i, j \in DOMAIN result : RefersTo(result[i].name, result[j].name) => j < i
  /\ stage = "circular" =>
       \/ Cardinality(Names) < Len(schemas)
       \/ \E S \in SUBSET Names : S # {} /\ \A a \in S : \E b \in S : RefersTo(a, b)

(***************************************************************************)
(* For schemas whose fields have different names, Equals tells exactly     *)
(* those apart that differ in more than the order of their fields, and     *)
(* equal schemas have equal hash codes.                                    *)
(***************************************************************************)
SameFields(a, b) == a.kind = "Object" /\ b.kind = "Object" /\ ToSet(a.fields) = ToSet(b.fields)
Distinct(s) == s.kind = "Object" => \A i, j \in DOMAIN s.fields : i # j => s.fields[i].name # s.fields[j].name

EqualsIsSameness ==
  stage = "parsed" =>
    \A a, b \in {s \in ToSet(schemas) : Distinct(s)} :
      /\ Equals(a, b) <=> a.name = b.name /\ (a = b \/ SameFields(a, b))
      /\ Equals(a, b) => HashCode(a) = HashCode(b)
=============================================================================
