------------------------------- MODULE Schemas -------------------------------
(***************************************************************************)
(* The schemas of schema/schema.go and the three parsers of                *)
(* schema/parser.go, which read a document line by line.  A line is        *)
(* modelled by what the parsers tell apart: how it begins (is), the name   *)
(* and the texts it holds.  The texts of types are values of their own;    *)
(* two parsers look at how they begin ("IntRange" is an integer), one at   *)
(* all of them.                                                            *)
(***************************************************************************)
EXTENDS SequencesExt, Integers

CONSTANTS
  PrimitiveOf,   \* parser -> text of a type -> the primitive type it is taken for, or "no"
  ListOf,        \* texts of the form List(...) -> the text inside
  Primitives,    \* the texts isPrimitiveType knows, whatever the case of their letters
  Bytes,         \* name or text -> its bytes
  HashModulus    \* 2^64 in the code

ASSUME SchemasAssumption ==
  /\ DOMAIN PrimitiveOf = {"yaml", "c", "capnp"}
  /\ \A parser \in DOMAIN PrimitiveOf : \A text \in DOMAIN PrimitiveOf[parser] :
       PrimitiveOf[parser][text] \in {"Int", "String", "Float", "Bool", "Bytes", "no"}
  /\ HashModulus \in Nat \ {0}

NoText == ""

(* Of an object nothing sets the primary key, Equals does not look at it   *)
(* and neither does HashCode, so that it is left out.                      *)
ObjectSchema(name, fields) == [kind |-> "Object", name |-> name, fields |-> fields]
SetSchema(name, element) == [kind |-> "Set", name |-> name, elementType |-> element]
ListSchema(name, element) == [kind |-> "List", name |-> name, elementType |-> element]
MapSchema(name, key, value) ==
  [kind |-> "Map", name |-> name, keyType |-> key, valueType |-> value]

(* ObjectField: a reference names the other type, a list of them by a name *)
(* no schema has ("List<...>").                                            *)
Field(name, type, ref, list) == [name |-> name, type |-> type, ref |-> ref, list |-> list]

-----------------------------------------------------------------------------
(* Fields are compared through a map from names, so that of two fields of  *)
(* one name the last one counts.                                           *)
LastField(fields, name) == fields[Max({i \in DOMAIN fields : fields[i].name = name})]

(* Slip: the types of the fields are forgotten (EqualsIsSameness). *)
EqualsByName(a, b) ==
  /\ a.kind = b.kind
  /\ a.name = b.name
  /\ IF a.kind # "Object" THEN a = b
     ELSE {f.name : f \in ToSet(a.fields)} = {f.name : f \in ToSet(b.fields)}

Equals(a, b) ==
  /\ a.kind = b.kind
  /\ a.name = b.name
  /\ IF a.kind # "Object" THEN a = b
     ELSE /\ Len(a.fields) = Len(b.fields)
          /\ \A name \in {f.name : f \in ToSet(a.fields)} :
               /\ \E f \in ToSet(b.fields) : f.name = name
               /\ LastField(a.fields, name) = LastField(b.fields, name)

(* The same for the schemas of a Dataset. *)
HasIdenticalSchemas(a, b) ==
  /\ Len(a) = Len(b)
  /\ \A name \in {s.name : s \in ToSet(a)} :
       /\ \E s \in ToSet(b) : s.name = name
       /\ Equals(LastField(a, name), LastField(b, name))

(* The names of the fields are sorted by their bytes. *)
Before(s, t) ==
  LET a == Bytes[s]  b == Bytes[t] IN
  \/ IsStrictPrefix(a, b)
  \/ \E i \in DOMAIN a \cap DOMAIN b :
       a[i] < b[i] /\ \A j \in 1..(i - 1) : a[j] = b[j]

Hash(names) ==
  FoldLeft(LAMBDA h, byte : (h * 31 + byte) % HashModulus, 0,
           FlattenSeq([i \in DOMAIN names |-> Bytes[names[i]]]))

HashCode(s) ==
  Hash(<<s.name>> \o
       CASE s.kind = "Object" ->
              SortSeq([i \in DOMAIN s.fields |-> s.fields[i].name], Before)
         [] s.kind \in {"Set", "List"} -> <<s.elementType>>
         [] s.kind = "Map" -> <<s.keyType, s.valueType>>)

-----------------------------------------------------------------------------
(* The type of a field is primitive, a list (in Cap'n Proto only), or else *)
(* a reference.                                                            *)
FieldOf(parser, name, text) ==
  IF PrimitiveOf[parser][text] # "no" THEN Field(name, PrimitiveOf[parser][text], NoText, FALSE)
  ELSE IF parser = "capnp" /\ text \in DOMAIN ListOf
  THEN Field(name, "Reference", ListOf[text], TRUE)
  ELSE Field(name, "Reference", text, FALSE)

(* ParseSchemaCollection, lines of the form "word: ...".                   *)

NoSchema == [kind |-> "none"]

Unread == [schemas |-> <<>>, current |-> NoSchema, schemaType |-> NoText, inFields |-> FALSE,
           panicked |-> FALSE]

Finished(p) == IF p.current = NoSchema THEN p.schemas ELSE Append(p.schemas, p.current)

(* Slip: the fields section of one type goes on in the next                *)
(* (SectionsAreIndependent).                                               *)
NewTypeKeepingFields(p, name) ==
  [p EXCEPT !.schemas = Finished(p), !.current = ObjectSchema(name, <<>>),
            !.schemaType = "Object"]

NewType(p, name) ==
  [p EXCEPT !.schemas = Finished(p), !.current = ObjectSchema(name, <<>>),
            !.schemaType = "Object", !.inFields = FALSE]

(* A type that is named before there is one to give it to is a nil         *)
(* dereference.                                                            *)
SetType(p, type) ==
  [p EXCEPT !.schemaType = type,
            !.panicked = type \in {"Set", "List", "Map"} /\ p.current = NoSchema,
            !.current = IF @ = NoSchema THEN @
                        ELSE CASE type = "Set" -> SetSchema(@.name, NoText)
                               [] type = "List" -> ListSchema(@.name, NoText)
                               [] type = "Map" -> MapSchema(@.name, NoText, NoText)
                               [] OTHER -> @]

(* The schema was an object when schemaType was set, or this panics. *)
AddField(p, name, text) ==
  IF ~p.inFields \/ p.schemaType # "Object" THEN p
  ELSE IF p.current.kind # "Object" THEN [p EXCEPT !.panicked = TRUE]
  ELSE [p EXCEPT !.current.fields = Append(@, FieldOf("yaml", name, text))]

SetPart(p, part, text) ==
  CASE part = "ElementType" /\ p.current.kind \in {"Set", "List"} ->
         [p EXCEPT !.current.elementType = text]
    [] part = "KeyType" /\ p.current.kind = "Map" -> [p EXCEPT !.current.keyType = text]
    [] part = "ValueType" /\ p.current.kind = "Map" -> [p EXCEPT !.current.valueType = text]
    [] OTHER -> p

ParseLine(p, line) ==
  IF p.panicked THEN p
  ELSE CASE line.is = "TypeName" -> NewType(p, line.name)
         [] line.is = "Type" -> SetType(p, line.text)
         [] line.is = "Fields" -> [p EXCEPT !.inFields = TRUE]
         [] line.is = "Field" -> AddField(p, line.name, line.text)
         [] line.is \in {"ElementType", "KeyType", "ValueType"} ->
              SetPart(AddField(p, line.is, line.text), line.is, line.text)
         [] OTHER -> p

-----------------------------------------------------------------------------
(* parseCStyleDSL *)
ParseCLine(p, line) ==
  CASE line.is = "Map" ->
         [p EXCEPT !.schemas = Append(@, MapSchema(line.name, line.text, line.value))]
    [] line.is = "Open" -> [p EXCEPT !.current = ObjectSchema(line.name, <<>>)]
    [] line.is = "Close" -> [p EXCEPT !.schemas = Finished(p), !.current = NoSchema]
    [] line.is = "Member" /\ p.current # NoSchema ->
         [p EXCEPT !.current.fields = Append(@, FieldOf("c", line.name, line.text))]
    [] OTHER -> p

-----------------------------------------------------------------------------
(* A match of the expression for structs, or for enums, goes from a struct *)
(* or enum outside of any other match to the first closing brace; what is  *)
(* opened in between is not looked at, its fields are the match's.         *)
MatchLine(p, line, keyword) ==
  CASE line.is = keyword /\ p.current = NoSchema ->
         [p EXCEPT !.current = ObjectSchema(line.name, <<>>)]
    [] line.is = "Close" -> [p EXCEPT !.schemas = Finished(p), !.current = NoSchema]
    [] line.is = "Numbered" /\ p.current # NoSchema ->
         [p EXCEPT !.current.fields = Append(@, FieldOf("capnp", line.name, line.text))]
    [] OTHER -> p

-----------------------------------------------------------------------------
(* A document is read from its first line to its last.                     *)
NextLine(parser, p, line) ==
  CASE parser = "yaml" -> ParseLine(p, line)
    [] parser = "c" -> ParseCLine(p, line)
    [] OTHER -> MatchLine(p, line, parser)

ReadLines(parser, lines) ==
  LET read[n \in 0..Len(lines)] ==
        IF n = 0 THEN Unread ELSE NextLine(parser, read[n - 1], lines[n])
  IN read[Len(lines)]

ParseYAMLStyle(lines) ==
  LET p == ReadLines("yaml", lines)
  IN [schemas |-> Finished(p), panicked |-> p.panicked]

(* What is not closed is dropped. *)
ParseCStyle(lines) == ReadLines("c", lines).schemas

IsCStyle(lines) ==
  {"Open", "Close"} \subseteq {lines[i].is : i \in DOMAIN lines}

EnumSchema(s) == ObjectSchema(s.name, <<Field("value", "Int", NoText, FALSE)>>)

(* The structs, then the enums. *)
ParseCapnProto(lines) ==
  LET enums == ReadLines("enum", lines).schemas
  IN ReadLines("struct", lines).schemas \o [i \in DOMAIN enums |-> EnumSchema(enums[i])]

-----------------------------------------------------------------------------
(* A document without any schema is an error; so is one in Cap'n Proto     *)
(* without an identifier (the language says which parser is called).       *)
Parse(language, lines) ==
  IF language = "capnp"
  THEN [schemas |-> IF \E i \in DOMAIN lines : lines[i].is = "Id"
                    THEN ParseCapnProto(lines) ELSE <<>>,
        panicked |-> FALSE]
  ELSE IF IsCStyle(lines) THEN [schemas |-> ParseCStyle(lines), panicked |-> FALSE]
  ELSE ParseYAMLStyle(lines)
=============================================================================
