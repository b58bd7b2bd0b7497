------------------------------ MODULE ProtoWire ------------------------------
(***************************************************************************)
(* What the classes that protoc generated for this repository do with a    *)
(* message: Clear, _InternalSerialize, ByteSizeLong, _InternalParse,       *)
(* MergeFrom and the accessors.  The generated code of every class is the  *)
(* same algorithm over the list of its fields, so it is written once, over *)
(* a type; the types are in RpcMessages.                                   *)
(*                                                                         *)
(* A type is the sequence of its fields in the order of their numbers, and *)
(* the number of a field is its place (as in all .proto files here).  A    *)
(* message is a record with one member per field.  A bytes value is a      *)
(* sequence of units, of which it has no or one unless its length matters; *)
(* a message member is a sequence of no (nullptr) or one message.          *)
(*                                                                         *)
(* A text is a sequence of units.  A tag with its varint, and a tag with   *)
(* its length, is one unit each: texts are cut between units only.         *)
(***************************************************************************)
EXTENDS Naturals, Sequences, SequencesExt

Field(name, kind) == [name |-> name, kind |-> kind]
Member(name, type) == [name |-> name, kind |-> "message", type |-> type]

\* A unit of the content of a bytes field.
Byte(value) == [wire |-> "byte", value |-> value]
\* A tag of wire type 0 with its value, and one of wire type 2 with its length.
Varint(number, value) == [wire |-> "varint", field |-> number, value |-> value]
LenTag(number, size) == [wire |-> "len", field |-> number, size |-> size]

Default(kind) ==
  CASE kind = "uint" -> 0
    [] kind = "bool" -> FALSE
    [] OTHER         -> <<>>

\* The message that a constructor or Clear() leaves.
Clear(type) ==
  [n \in {type[i].name : i \in DOMAIN type} |->
     Default((CHOOSE f \in ToSet(type) : f.name = n).kind)]

-----------------------------------------------------------------------------
(* The accessors the callers and the services use.                         *)

Set(m, name, value) == [m EXCEPT ![name] = value]

\* add_friends().
Add(m, name, value) == [m EXCEPT ![name] = Append(@, value)]

\* mutable_result(): the member message, made when there is none.
Mutable(m, name, type) ==
  IF m[name] = <<>> THEN [m EXCEPT ![name] = <<Clear(type)>>] ELSE m

\* result(): the member, or the default instance when there is none.
Get(m, name, type) == IF m[name] = <<>> THEN Clear(type) ELSE m[name][1]

-----------------------------------------------------------------------------
(* Serialisation: the fields in the order of their numbers, without those  *)
(* that have their default value; every element of a repeated field, even  *)
(* an empty one; a member message that is there, even when it is empty.    *)

RECURSIVE Serialize(_, _)

Delimited(number, text) == <<LenTag(number, Len(text))>> \o text

FieldText(field, number, value) ==
  CASE field.kind = "repeated" ->
         FlattenSeq([i \in DOMAIN value |-> Delimited(number, value[i])])
    [] value = Default(field.kind) -> <<>>
    [] field.kind = "bytes"   -> Delimited(number, value)
    [] field.kind = "message" -> Delimited(number, Serialize(field.type, value[1]))
    [] field.kind = "bool"    -> <<Varint(number, 1)>>
    [] OTHER                  -> <<Varint(number, value)>>

Serialize(type, m) ==
  FlattenSeq([i \in DOMAIN type |-> FieldText(type[i], i, m[type[i].name])])

-----------------------------------------------------------------------------
(* Parsing.  MergeText reads a text into a message: a field read again     *)
(* replaces the value, except that a repeated field grows and a member     *)
(* message is merged into; a tag of an unknown number, or of another wire  *)
(* type than its field has, is skipped.  The result is a sequence of one   *)
(* message, or of none when a unit is not a tag or the text ends within a  *)
(* field.                                                                  *)

RECURSIVE MergeText(_, _, _)

\* The message after one tag with its payload.
MergeField(type, m, tag, payload) ==
  IF tag.field \notin DOMAIN type THEN <<m>>
  ELSE LET f == type[tag.field] IN
    CASE tag.wire = "varint" /\ f.kind = "uint" -> <<Set(m, f.name, tag.value)>>
      [] tag.wire = "varint" /\ f.kind = "bool" -> <<Set(m, f.name, tag.value # 0)>>
      [] tag.wire = "len" /\ f.kind = "bytes"    -> <<Set(m, f.name, payload)>>
      [] tag.wire = "len" /\ f.kind = "repeated" -> <<Add(m, f.name, payload)>>
      [] tag.wire = "len" /\ f.kind = "message"  ->
           LET sub == MergeText(f.type, Get(m, f.name, f.type), payload)
           IN IF sub = <<>> THEN <<>> ELSE <<Set(m, f.name, sub)>>
      [] OTHER -> <<m>>

MergeText(type, m, text) ==
  IF text = <<>> THEN <<m>>
  ELSE LET tag  == Head(text)
           size == IF tag.wire = "len" THEN tag.size ELSE 0
       IN IF tag.wire \notin {"varint", "len"} \/ Len(text) <= size THEN <<>>
          ELSE LET next == MergeField(type, m, tag, SubSeq(text, 2, size + 1))
               IN IF next = <<>> THEN <<>>
                  ELSE MergeText(type, next[1], SubSeq(text, size + 2, Len(text)))

\* ParseFromString and ParseFromArray clear the message first.
Parse(type, text) == MergeText(type, Clear(type), text)

-----------------------------------------------------------------------------
(* MergeFrom: the fields of from that are not default replace those of to. *)

RECURSIVE Merge(_, _, _)

Merge(type, to, from) ==
  [n \in DOMAIN to |->
     LET f == CHOOSE g \in ToSet(type) : g.name = n IN
     CASE f.kind = "repeated" -> to[n] \o from[n]
       [] from[n] = Default(f.kind) -> to[n]
       [] f.kind = "message" ->
            <<Merge(f.type, Get(to, n, f.type), from[n][1])>>
       [] OTHER -> from[n]]

CopyFrom(type, from) == Merge(type, Clear(type), from)

=============================================================================
