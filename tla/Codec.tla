--------------------------------- MODULE Codec ---------------------------------
(***************************************************************************)
(* What the methods of the generated protobuf classes do with the tables   *)
(* of Messages: Clear, the setters, SerializeToString, ParseFromString,    *)
(* MergeFrom and CopyFrom.                                                 *)
(*                                                                         *)
(* A message is a record of its fields; a submessage, which may be absent, *)
(* is a sequence of at most one.  The wire is a sequence of items, each a  *)
(* tag with a number, a byte string, or the items of a submessage, and     *)
(* counts as one byte where lengths matter.  Submessages have none of      *)
(* their own in any .proto file of the repository.                         *)
(***************************************************************************)
EXTENDS Messages, Sequences

Zero(kind) == CASE kind.is = "int" -> 0
                [] kind.is = "bool" -> FALSE
                [] kind.is = "bytes" -> ""
                [] kind.is \in {"message", "messages", "strings"} -> <<>>

(* The message with no field set; `unknown' is its _internal_metadata_. *)
Clear(name) == [f \in {"unknown"} \cup DOMAIN Fields[name] |->
                  IF f = "unknown" THEN <<>> ELSE Zero(Fields[name][f])]

(* A message some of whose fields have been set. *)
New(name, values) == [f \in DOMAIN Clear(name) |->
                        IF f \in DOMAIN values THEN values[f] ELSE Clear(name)[f]]

(* mutable_x() of an absent submessage creates it. *)
Sub(name, values) == <<New(name, values)>>

-----------------------------------------------------------------------------
(* SerializeToString *)

(* Fields are numbered from 1 to 7. *)
FieldsNumbered(name, n) == {f \in DOMAIN Tags[name] : Tags[name][f] \div 8 = n}

(* A field with its zero value is not written. *)
FlatItems(kind, tag, v) ==
  CASE kind.is = "int" -> IF v = 0 THEN <<>> ELSE <<[tag |-> tag, int |-> v]>>
    [] kind.is = "bool" -> IF v THEN <<[tag |-> tag, int |-> 1]>> ELSE <<>>
    [] kind.is = "bytes" -> IF v = "" THEN <<>> ELSE <<[tag |-> tag, bytes |-> v]>>

SerializeWith(Items(_, _, _), name, m) ==
  LET Written(n) ==
        LET own == FieldsNumbered(name, n)
            f == CHOOSE g \in own : TRUE
        IN IF own = {} THEN <<>> ELSE Items(Fields[name][f], Tags[name][f], m[f])
  IN Written(1) \o Written(2) \o Written(3) \o Written(4) \o Written(5) \o Written(6)
       \o Written(7) \o m.unknown

SerializeFlat(name, m) == SerializeWith(FlatItems, name, m)

ItemsOf(kind, tag, v) ==
  CASE kind.is \in {"message", "messages"} ->
         [i \in DOMAIN v |-> [tag |-> tag, items |-> SerializeFlat(kind.of, v[i])]]
    [] kind.is = "strings" -> [i \in DOMAIN v |-> [tag |-> tag, bytes |-> v[i]]]
    [] OTHER -> FlatItems(kind, tag, v)

Serialize(name, m) == SerializeWith(ItemsOf, name, m)

-----------------------------------------------------------------------------
(* ParseFromString: an item sets its field, extends it when it is repeated,
   and goes to the unknown fields when the message has no field of its tag. *)

FieldsTagged(name, tag) == {f \in DOMAIN Tags[name] : Tags[name][f] = tag}

ParseWith(Parsed(_, _, _), name, m, items) ==
  LET Takes(msg, item) ==
        LET own == FieldsTagged(name, item.tag)
            f == CHOOSE g \in own : TRUE
        IN IF own = {} THEN [msg EXCEPT !.unknown = Append(@, item)]
           ELSE [msg EXCEPT ![f] = Parsed(Fields[name][f], @, item)]
      Read[n \in 0..Len(items)] == IF n = 0 THEN m ELSE Takes(Read[n - 1], items[n])
  IN Read[Len(items)]

FlatParsed(kind, old, item) ==
  CASE kind.is = "int" -> item.int
    [] kind.is = "bool" -> item.int # 0
    [] kind.is = "bytes" -> item.bytes
ParseFlat(name, m, items) == ParseWith(FlatParsed, name, m, items)

Parsed(kind, old, item) ==
  CASE kind.is = "message" ->
         <<ParseFlat(kind.of, IF old = <<>> THEN Clear(kind.of) ELSE old[1], item.items)>>
    [] kind.is = "messages" -> Append(old, ParseFlat(kind.of, Clear(kind.of), item.items))
    [] kind.is = "strings" -> Append(old, item.bytes)
    [] OTHER -> FlatParsed(kind, old, item)
Parse(name, items) == ParseWith(Parsed, name, Clear(name), items)

-----------------------------------------------------------------------------
(* MergeFrom and CopyFrom, of messages without submessages. *)

Merged(kind, old, new) ==
  CASE kind.is \in {"int", "bool", "bytes"} -> IF new = Zero(kind) THEN old ELSE new
    [] kind.is \in {"messages", "strings"} -> old \o new

MergeFrom(name, to, from) ==
  [f \in {"unknown"} \cup DOMAIN Fields[name] |->
     IF f = "unknown" THEN to.unknown \o from.unknown
     ELSE Merged(Fields[name][f], to[f], from[f])]

CopyFrom(name, from) == MergeFrom(name, Clear(name), from)

=============================================================================
