------------------------------ MODULE CodecProofs ------------------------------
(***************************************************************************)
(* What the generated code writes and reads, for every message and every   *)
(* length of it: a message that has been written is read back, a piece of  *)
(* one gives some of its fields, a frame tells where its body ends, and a  *)
(* request that has been cut is one of the same method with less in it.    *)
(***************************************************************************)
EXTENDS Services, Frames, WellFoundedInduction, FiniteSetTheorems, TLAPS

(* Induction up to a bound, on a set. *)
LEMMA UpToBound ==
  ASSUME NEW L \in Nat, NEW S, 0 \in S, \A n \in 0..L : n \in S /\ n < L => n + 1 \in S
  PROVE  \A n \in 0..L : n \in S
<1> DEFINE T == {n \in Nat : n \in 0..L /\ n \notin S}
<1>1. SUFFICES ASSUME T # {} PROVE FALSE
  OBVIOUS
<1>2. IsWellFoundedOn(OpToRel(<, Nat), Nat)
  BY NatLessThanWellFounded
<1>3. PICK x \in T : \A y \in T : ~ (<<y, x>> \in OpToRel(<, Nat))
  <2>1. T \subseteq Nat
    OBVIOUS
  <2> HIDE DEF T
  <2>2. QED
    BY <1>1, <1>2, <2>1, WFMin
<1>4. \A y \in T : ~ (y < x)
  BY <1>3 DEF OpToRel
<1>5. x # 0 /\ x - 1 \in 0..L /\ x - 1 < L
  OBVIOUS
<1>6. x - 1 \in S
  BY <1>4, <1>5
<1>7. x - 1 + 1 = x
  OBVIOUS
<1>8. QED
  BY <1>5, <1>6, <1>7

(* One round of the loop of _InternalParse. *)
Takes(name, msg, item) ==
  LET own == FieldsTagged(name, item.tag)
      f == CHOOSE g \in own : TRUE
  IN IF own = {} THEN [msg EXCEPT !.unknown = Append(@, item)]
     ELSE [msg EXCEPT ![f] = Parsed(Fields[name][f], @, item)]

(* What a parser has made of the first items, as a function. *)
Reads(name, items, k, g) ==
  g = [n \in 0..k |-> IF n = 0 THEN Clear(name) ELSE Takes(name, g[n - 1], items[n])]

(* There is one of all the items. *)
LEMMA ReadsExist ==
  ASSUME NEW name, NEW items, NEW L \in Nat
  PROVE  \E g : Reads(name, items, L, g)
<1> DEFINE S == {k \in 0..L : \E g : Reads(name, items, k, g)}
<1>1. 0 \in S
  <2> DEFINE h == [n \in 0..0 |-> Clear(name)]
  <2>1. \A n \in 0..0 : h[n] = IF n = 0 THEN Clear(name) ELSE Takes(name, h[n - 1], items[n])
    OBVIOUS
  <2>2. h = [n \in 0..0 |-> h[n]]
    OBVIOUS
  <2> HIDE DEF h
  <2>3. Reads(name, items, 0, h)
    BY <2>1, <2>2 DEF Reads
  <2>4. QED
    BY <2>3
<1>2. ASSUME NEW k \in 0..L, k \in S, k < L PROVE k + 1 \in S
  <2>1. PICK g : Reads(name, items, k, g)
    BY <1>2
  <2> DEFINE h == [n \in 0..(k + 1) |-> IF n = k + 1 THEN Takes(name, g[k], items[k + 1]) ELSE g[n]]
  <2>2. \A n \in 0..k : h[n] = g[n]
    OBVIOUS
  <2>3. ASSUME NEW n \in 0..(k + 1)
        PROVE  h[n] = IF n = 0 THEN Clear(name) ELSE Takes(name, h[n - 1], items[n])
    <3>1. CASE n = k + 1
      BY <3>1, <2>2
    <3>2. CASE n # k + 1
      <4>1. n \in 0..k /\ (n # 0 => n - 1 \in 0..k)
        BY <3>2
      <4>2. g[n] = IF n = 0 THEN Clear(name) ELSE Takes(name, g[n - 1], items[n])
        BY <2>1, <4>1 DEF Reads
      <4>3. QED
        BY <4>1, <4>2, <2>2
    <3>3. QED
      BY <3>1, <3>2
  <2>4. h = [n \in 0..(k + 1) |-> h[n]]
    OBVIOUS
  <2> HIDE DEF h
  <2>5. Reads(name, items, k + 1, h)
    BY <2>3, <2>4 DEF Reads
  <2>6. k + 1 \in 0..L
    BY <1>2
  <2>7. QED
    BY <2>5, <2>6
<1>3. \A n \in 0..L : n \in S /\ n < L => n + 1 \in S
  BY <1>2
<1> HIDE DEF S
<1>4. L \in S
  BY <1>1, <1>3, UpToBound
<1>5. QED
  BY <1>4 DEF S

(* ParseFromString reads the items one after the other. *)
LEMMA ParseReads ==
  ASSUME NEW name, NEW items, Len(items) \in Nat
  PROVE  \E g : /\ g[0] = Clear(name)
                /\ \A n \in 1..Len(items) : g[n] = Takes(name, g[n - 1], items[n])
                /\ Parse(name, items) = g[Len(items)]
<1> DEFINE L == Len(items)
           R == CHOOSE g : Reads(name, items, L, g)
<1>1. Reads(name, items, L, R)
  BY ReadsExist
<1>2. Parse(name, items) = R[L]
  BY DEF Parse, ParseWith, Reads, Takes
<1> HIDE DEF R
<1>3. R[0] = Clear(name) /\ \A n \in 1..L : R[n] = Takes(name, R[n - 1], items[n])
  BY <1>1 DEF Reads
<1>4. QED
  BY <1>2, <1>3

-----------------------------------------------------------------------------
(* The tables of a message are in order: the fields have tags of their own. *)
InOrder(name) ==
  /\ DOMAIN Tags[name] = DOMAIN Fields[name]
  /\ "unknown" \notin DOMAIN Fields[name]
  /\ \A f, g \in DOMAIN Fields[name] : Tags[name][f] = Tags[name][g] => f = g

HasFields(name, msg) == msg = [f \in {"unknown"} \cup DOMAIN Fields[name] |-> msg[f]]

(* A round changes the field of the item's tag, or else the unknown ones. *)
LEMMA TakesFacts ==
  ASSUME NEW name, InOrder(name), NEW msg, HasFields(name, msg), NEW item
  PROVE  /\ HasFields(name, Takes(name, msg, item))
         /\ \A f \in DOMAIN Fields[name] :
               Takes(name, msg, item)[f] = IF item.tag = Tags[name][f]
                                           THEN Parsed(Fields[name][f], msg[f], item) ELSE msg[f]
         /\ (\E f \in DOMAIN Fields[name] : item.tag = Tags[name][f])
               => Takes(name, msg, item)["unknown"] = msg["unknown"]
<1> DEFINE own == FieldsTagged(name, item.tag)
           f == CHOOSE g \in own : TRUE
           r == Takes(name, msg, item)
           D == DOMAIN Fields[name]
<1>1. own = {g \in D : Tags[name][g] = item.tag}
  BY DEF FieldsTagged, InOrder
<1>2. r = IF own = {} THEN [msg EXCEPT !.unknown = Append(@, item)]
          ELSE [msg EXCEPT ![f] = Parsed(Fields[name][f], @, item)]
  BY DEF Takes
<1>3. own # {} => f \in own
  OBVIOUS
<1>4. CASE own = {}
  <2>1. r = [msg EXCEPT !["unknown"] = Append(msg["unknown"], item)]
    BY <1>2, <1>4
  <2> HIDE DEF r, own, f
  <2>2. \A g \in D : item.tag # Tags[name][g] /\ g # "unknown"
    BY <1>1, <1>4 DEF InOrder
  <2>3. QED
    BY <2>1, <2>2 DEF HasFields, r
<1>5. CASE own # {}
  <2>1. r = [msg EXCEPT ![f] = Parsed(Fields[name][f], msg[f], item)]
    BY <1>2, <1>5
  <2>2. f \in D /\ f # "unknown" /\ \A g \in D : item.tag = Tags[name][g] <=> g = f
    BY <1>1, <1>3, <1>5 DEF InOrder
  <2> HIDE DEF r, own, f
  <2>3. QED
    BY <2>1, <2>2 DEF HasFields, r
<1>6. QED
  BY <1>4, <1>5

(* What Clear leaves. *)
LEMMA ClearFacts ==
  ASSUME NEW name, InOrder(name)
  PROVE  /\ HasFields(name, Clear(name))
         /\ Clear(name)["unknown"] = <<>>
         /\ \A f \in DOMAIN Fields[name] : Clear(name)[f] = Zero(Fields[name][f])
BY DEF Clear, HasFields, InOrder

(* The fields of a parsed message, and what it does not know. *)
LEMMA ParseShape ==
  ASSUME NEW name, InOrder(name), NEW items, Len(items) \in Nat
  PROVE  /\ HasFields(name, Parse(name, items))
         /\ (\A i \in 1..Len(items) : \E f \in DOMAIN Fields[name] : items[i].tag = Tags[name][f])
              => Parse(name, items)["unknown"] = <<>>
<1>1. PICK g : /\ g[0] = Clear(name)
               /\ \A n \in 1..Len(items) : g[n] = Takes(name, g[n - 1], items[n])
               /\ Parse(name, items) = g[Len(items)]
  BY ParseReads
<1> DEFINE K == \A i \in 1..Len(items) : \E f \in DOMAIN Fields[name] : items[i].tag = Tags[name][f]
           S == {n \in 0..Len(items) : HasFields(name, g[n]) /\ (K => g[n]["unknown"] = <<>>)}
<1>2. 0 \in S
  BY <1>1, ClearFacts
<1>3. ASSUME NEW n \in 0..Len(items), n \in S, n < Len(items) PROVE n + 1 \in S
  <2>1. n + 1 \in 1..Len(items) /\ n + 1 - 1 = n
    BY <1>3
  <2>2. g[n + 1] = Takes(name, g[n], items[n + 1])
    BY <1>1, <2>1
  <2>3. HasFields(name, g[n])
    BY <1>3
  <2>4. /\ HasFields(name, g[n + 1])
        /\ (\E f \in DOMAIN Fields[name] : items[n + 1].tag = Tags[name][f])
             => g[n + 1]["unknown"] = g[n]["unknown"]
    <3> HIDE DEF S, K
    <3>1. /\ HasFields(name, Takes(name, g[n], items[n + 1]))
          /\ (\E f \in DOMAIN Fields[name] : items[n + 1].tag = Tags[name][f])
               => Takes(name, g[n], items[n + 1])["unknown"] = g[n]["unknown"]
      <4> DEFINE x == items[n + 1]
                 y == g[n]
      <4>1. HasFields(name, y)
        BY <2>3
      <4> HIDE DEF x, y
      <4>2. /\ HasFields(name, Takes(name, y, x))
            /\ (\E f \in DOMAIN Fields[name] : x.tag = Tags[name][f])
               => Takes(name, y, x)["unknown"] = y["unknown"]
        BY <4>1, TakesFacts
      <4>3. QED
        BY <4>2 DEF x, y
    <3>2. QED
      BY <2>2, <3>1
  <2>5. QED
    BY <1>3, <2>1, <2>4
<1>4. \A n \in 0..Len(items) : n \in S /\ n < Len(items) => n + 1 \in S
  BY <1>3
<1> HIDE DEF S
<1>5. \A n \in 0..Len(items) : n \in S
  BY <1>2, <1>4, UpToBound
<1>6. Len(items) \in S
  BY <1>5
<1>7. QED
  BY <1>1, <1>6 DEF S

(* Every item of a field's tag holds v. *)
Tells(name, items, f, v) ==
  \A i \in 1..Len(items) : items[i].tag = Tags[name][f] =>
     v = IF Fields[name][f] = Number THEN items[i].int ELSE items[i].bytes

(* A number, or a byte string, is what the last item of its tag holds, and zero
   without one. *)
LEMMA ParseField ==
  ASSUME NEW name, InOrder(name), NEW items, Len(items) \in Nat,
         NEW f \in DOMAIN Fields[name], Fields[name][f] \in {Number, Bytes},
         NEW v, Tells(name, items, f, v)
  PROVE  Parse(name, items)[f] = IF \E i \in 1..Len(items) : items[i].tag = Tags[name][f]
                                 THEN v ELSE Zero(Fields[name][f])
<1>1. PICK g : /\ g[0] = Clear(name)
               /\ \A n \in 1..Len(items) : g[n] = Takes(name, g[n - 1], items[n])
               /\ Parse(name, items) = g[Len(items)]
  BY ParseReads
<1> DEFINE Value(n) == IF \E i \in 1..n : items[i].tag = Tags[name][f] THEN v
                       ELSE Zero(Fields[name][f])
           S == {n \in 0..Len(items) : HasFields(name, g[n]) /\ g[n][f] = Value(n)}
<1>2. 0 \in S
  BY <1>1, ClearFacts
<1>3. ASSUME NEW n \in 0..Len(items), n \in S, n < Len(items) PROVE n + 1 \in S
  <2>1. n + 1 \in 1..Len(items) /\ n + 1 - 1 = n
    BY <1>3
  <2>2. g[n + 1] = Takes(name, g[n], items[n + 1])
    BY <1>1, <2>1
  <2>3. HasFields(name, g[n]) /\ g[n][f] = Value(n)
    BY <1>3
  <2>4. /\ HasFields(name, g[n + 1])
        /\ g[n + 1][f] = IF items[n + 1].tag = Tags[name][f]
                         THEN Parsed(Fields[name][f], g[n][f], items[n + 1]) ELSE g[n][f]
    <3> HIDE DEF S, Value
    <3>1. /\ HasFields(name, Takes(name, g[n], items[n + 1]))
          /\ Takes(name, g[n], items[n + 1])[f] =
               IF items[n + 1].tag = Tags[name][f]
               THEN Parsed(Fields[name][f], g[n][f], items[n + 1]) ELSE g[n][f]
      <4> DEFINE x == items[n + 1]
                 y == g[n]
      <4>1. HasFields(name, y)
        BY <2>3
      <4> HIDE DEF x, y
      <4>2. /\ HasFields(name, Takes(name, y, x))
            /\ Takes(name, y, x)[f] = IF x.tag = Tags[name][f]
                                      THEN Parsed(Fields[name][f], y[f], x) ELSE y[f]
        <5>1. \A h \in DOMAIN Fields[name] :
                 Takes(name, y, x)[h] = IF x.tag = Tags[name][h]
                                        THEN Parsed(Fields[name][h], y[h], x) ELSE y[h]
          BY <4>1, TakesFacts
        <5>2. HasFields(name, Takes(name, y, x))
          BY <4>1, TakesFacts
        <5>3. QED
          BY <5>1, <5>2
      <4>3. QED
        BY <4>2 DEF x, y
    <3>2. QED
      BY <2>2, <3>1
  <2>5. ASSUME items[n + 1].tag = Tags[name][f]
        PROVE  Parsed(Fields[name][f], g[n][f], items[n + 1]) = v
    BY <2>1, <2>5 DEF Tells, Parsed, FlatParsed, Number, Bytes
  <2>6. Value(n + 1) = IF items[n + 1].tag = Tags[name][f] THEN v ELSE Value(n)
    BY <2>1
  <2>7. g[n + 1][f] = Value(n + 1)
    BY <2>3, <2>4, <2>5, <2>6
  <2> HIDE DEF Value
  <2>8. QED
    BY <2>1, <2>4, <2>7
<1>4. \A n \in 0..Len(items) : n \in S /\ n < Len(items) => n + 1 \in S
  BY <1>3
<1> HIDE DEF S
<1>5. \A n \in 0..Len(items) : n \in S
  BY <1>2, <1>4, UpToBound
<1>6. Len(items) \in S
  BY <1>5
<1>7. QED
  BY <1>1, <1>6 DEF S

-----------------------------------------------------------------------------
(* Two sequences, one after the other. *)
LEMMA ConcatFacts ==
  ASSUME NEW S, NEW s \in Seq(S), NEW t \in Seq(S)
  PROVE  /\ s \o t \in Seq(S)
         /\ Len(s \o t) = Len(s) + Len(t)
         /\ Range(s) \subseteq Range(s \o t)
         /\ Range(t) \subseteq Range(s \o t)
<1>1. /\ s \o t \in Seq(S)
      /\ Len(s \o t) = Len(s) + Len(t)
      /\ \A i \in 1..Len(s) : i \in DOMAIN (s \o t) /\ (s \o t)[i] = s[i]
      /\ \A i \in 1..Len(t) : Len(s) + i \in DOMAIN (s \o t) /\ (s \o t)[Len(s) + i] = t[i]
  OBVIOUS
<1>2. DOMAIN s = 1..Len(s) /\ DOMAIN t = 1..Len(t)
  OBVIOUS
<1> DEFINE w == s \o t
<1> HIDE DEF w
<1>3. Range(s) \subseteq Range(w)
  BY <1>1, <1>2 DEF Range, w
<1>4. Range(t) \subseteq Range(w)
  BY <1>1, <1>2 DEF Range, w
<1>5. QED
  BY <1>1, <1>3, <1>4 DEF w

(* Short sequences one after the other. *)
LEMMA ConcatShort ==
  ASSUME NEW S,
         NEW a \in Seq(S), NEW b \in Seq(S), NEW c \in Seq(S), NEW d \in Seq(S),
         NEW e \in Seq(S), NEW f \in Seq(S), NEW g \in Seq(S)
  PROVE  LET w == a \o b \o c \o d \o e \o f \o g \o <<>>
         IN /\ w \in Seq(S)
            /\ Len(w) = Len(a) + Len(b) + Len(c) + Len(d) + Len(e) + Len(f) + Len(g)
            /\ \A r \in {a, b, c, d, e, f, g} : Range(r) \subseteq Range(w)
<1> DEFINE w2 == a \o b
           w3 == w2 \o c
           w4 == w3 \o d
           w5 == w4 \o e
           w6 == w5 \o f
           w7 == w6 \o g
           w8 == w7 \o <<>>
<1>2. w2 \in Seq(S) /\ Len(w2) = Len(a) + Len(b) /\ Range(a) \subseteq Range(w2) /\ Range(b) \subseteq Range(w2)
  BY ConcatFacts
<1> HIDE DEF w2
<1>3. w3 \in Seq(S) /\ Len(w3) = Len(w2) + Len(c) /\ Range(w2) \subseteq Range(w3) /\ Range(c) \subseteq Range(w3)
  BY <1>2, ConcatFacts
<1> HIDE DEF w3
<1>4. w4 \in Seq(S) /\ Len(w4) = Len(w3) + Len(d) /\ Range(w3) \subseteq Range(w4) /\ Range(d) \subseteq Range(w4)
  BY <1>3, ConcatFacts
<1> HIDE DEF w4
<1>5. w5 \in Seq(S) /\ Len(w5) = Len(w4) + Len(e) /\ Range(w4) \subseteq Range(w5) /\ Range(e) \subseteq Range(w5)
  BY <1>4, ConcatFacts
<1> HIDE DEF w5
<1>6. w6 \in Seq(S) /\ Len(w6) = Len(w5) + Len(f) /\ Range(w5) \subseteq Range(w6) /\ Range(f) \subseteq Range(w6)
  BY <1>5, ConcatFacts
<1> HIDE DEF w6
<1>7. w7 \in Seq(S) /\ Len(w7) = Len(w6) + Len(g) /\ Range(w6) \subseteq Range(w7) /\ Range(g) \subseteq Range(w7)
  BY <1>6, ConcatFacts
<1> HIDE DEF w7
<1>8. w8 = w7
  BY <1>7
<1>9. /\ Len(w7) = Len(a) + Len(b) + Len(c) + Len(d) + Len(e) + Len(f) + Len(g)
      /\ \A r \in {a, b, c, d, e, f, g} : Range(r) \subseteq Range(w7)
  <2>1. /\ Len(a) \in Nat /\ Len(b) \in Nat /\ Len(c) \in Nat /\ Len(d) \in Nat
        /\ Len(e) \in Nat /\ Len(f) \in Nat /\ Len(g) \in Nat
    OBVIOUS
  <2>2. Len(w7) = Len(a) + Len(b) + Len(c) + Len(d) + Len(e) + Len(f) + Len(g)
    BY <1>2, <1>3, <1>4, <1>5, <1>6, <1>7, <2>1
  <2>3. /\ Range(a) \subseteq Range(w7) /\ Range(b) \subseteq Range(w7) /\ Range(c) \subseteq Range(w7)
        /\ Range(d) \subseteq Range(w7) /\ Range(e) \subseteq Range(w7) /\ Range(f) \subseteq Range(w7)
        /\ Range(g) \subseteq Range(w7)
    BY <1>2, <1>3, <1>4, <1>5, <1>6, <1>7
  <2>4. QED
    BY <2>2, <2>3
<1>10. QED
  BY <1>7, <1>8, <1>9 DEF w2, w3, w4, w5, w6, w7

-----------------------------------------------------------------------------
(* A message without submessages, whose fields have numbers of their own. *)
Flat(name) ==
  /\ InOrder(name)
  /\ \A f \in DOMAIN Fields[name] :
        /\ Fields[name][f] \in {Number, Bytes}
        /\ Tags[name][f] \div 8 \in 1..7
        /\ \A g \in DOMAIN Fields[name] : Tags[name][f] \div 8 = Tags[name][g] \div 8 => f = g

Item(name, m, f) == IF Fields[name][f] = Number THEN [tag |-> Tags[name][f], int |-> m[f]]
                                                ELSE [tag |-> Tags[name][f], bytes |-> m[f]]
ItemsIn(name, m) == {Item(name, m, f) : f \in DOMAIN Fields[name]}

Written(name, m, n) ==
  LET own == FieldsNumbered(name, n)
      f == CHOOSE g \in own : TRUE
  IN IF own = {} THEN <<>> ELSE FlatItems(Fields[name][f], Tags[name][f], m[f])
WrittenDeep(name, m, n) ==
  LET own == FieldsNumbered(name, n)
      f == CHOOSE g \in own : TRUE
  IN IF own = {} THEN <<>> ELSE ItemsOf(Fields[name][f], Tags[name][f], m[f])

(* The kinds of fields differ. *)
LEMMA Kinds == /\ Number.is = "int" /\ Bytes.is = "bytes" /\ Number # Bytes
               /\ Zero(Number) = 0 /\ Zero(Bytes) = ""
BY DEF Number, Bytes, Zero

(* The fields of a flat message are numbers and strings. *)
LEMMA FlatKinds ==
  ASSUME NEW kind \in {Number, Bytes}, NEW tag, NEW v, NEW old, NEW item
  PROVE  /\ ItemsOf(kind, tag, v) = FlatItems(kind, tag, v)
         /\ Parsed(kind, old, item) = FlatParsed(kind, old, item)
         /\ FlatItems(kind, tag, v) =
              IF v = Zero(kind) THEN <<>>
              ELSE <<IF kind = Number THEN [tag |-> tag, int |-> v] ELSE [tag |-> tag, bytes |-> v]>>
BY Kinds DEF ItemsOf, FlatItems, Parsed, FlatParsed

(* What SerializeWithCachedSizes has written after some of its fields. *)
LEMMA WrittenFacts ==
  ASSUME NEW name, Flat(name), NEW m, NEW n \in 1..7
  PROVE  /\ WrittenDeep(name, m, n) = Written(name, m, n)
         /\ Written(name, m, n) \in Seq(ItemsIn(name, m))
         /\ Len(Written(name, m, n)) <= 1
         /\ \A f \in DOMAIN Fields[name] :
               Tags[name][f] \div 8 = n /\ m[f] # Zero(Fields[name][f])
                 => Item(name, m, f) \in Range(Written(name, m, n))
<1> DEFINE own == FieldsNumbered(name, n)
           f == CHOOSE g \in own : TRUE
<1>1. own = {g \in DOMAIN Fields[name] : Tags[name][g] \div 8 = n}
  BY DEF FieldsNumbered, Flat, InOrder
<1>2. /\ Written(name, m, n) = IF own = {} THEN <<>> ELSE FlatItems(Fields[name][f], Tags[name][f], m[f])
      /\ WrittenDeep(name, m, n) = IF own = {} THEN <<>> ELSE ItemsOf(Fields[name][f], Tags[name][f], m[f])
  BY DEF Written, WrittenDeep
<1>3. own # {} => f \in own
  OBVIOUS
<1> HIDE DEF own, f
<1>4. CASE own = {}
  BY <1>1, <1>2, <1>4
<1>5. CASE own # {}
  <2>1. f \in DOMAIN Fields[name] /\ Fields[name][f] \in {Number, Bytes} /\ Tags[name][f] \div 8 = n
    BY <1>1, <1>3, <1>5 DEF Flat
  <2>2. \A g \in DOMAIN Fields[name] : Tags[name][g] \div 8 = n => g = f
    BY <2>1 DEF Flat
  <2>3. /\ WrittenDeep(name, m, n) = Written(name, m, n)
        /\ Written(name, m, n) = IF m[f] = Zero(Fields[name][f]) THEN <<>> ELSE <<Item(name, m, f)>>
    BY <1>2, <1>5, <2>1, FlatKinds DEF Item
  <2>4. Item(name, m, f) \in ItemsIn(name, m)
    BY <2>1 DEF ItemsIn
  <2>5. Range(<<Item(name, m, f)>>) = {Item(name, m, f)}
    BY DEF Range
  <2>6. QED
    BY <2>2, <2>3, <2>4, <2>5
<1>6. QED
  BY <1>4, <1>5

(* What SerializeToString writes of such a message: an item for each of its
   fields that are not zero. *)
LEMMA FlatSerialize ==
  ASSUME NEW name, Flat(name), NEW m, m["unknown"] = <<>>
  PROVE  /\ Serialize(name, m) = SerializeFlat(name, m)
         /\ Serialize(name, m) \in Seq(ItemsIn(name, m))
         /\ Len(Serialize(name, m)) <= 7
         /\ \A f \in DOMAIN Fields[name] :
               m[f] # Zero(Fields[name][f]) => Item(name, m, f) \in Range(Serialize(name, m))
<1> DEFINE W(n) == Written(name, m, n)
           D(n) == WrittenDeep(name, m, n)
<1>1. SerializeFlat(name, m) = W(1) \o W(2) \o W(3) \o W(4) \o W(5) \o W(6) \o W(7) \o <<>>
  <2>1. SerializeFlat(name, m)
          = W(1) \o W(2) \o W(3) \o W(4) \o W(5) \o W(6) \o W(7) \o m["unknown"]
    BY DEF SerializeFlat, SerializeWith, Written
  <2> HIDE DEF W
  <2>2. QED
    BY <2>1
<1>2. Serialize(name, m) = D(1) \o D(2) \o D(3) \o D(4) \o D(5) \o D(6) \o D(7) \o <<>>
  <2>1. Serialize(name, m)
          = D(1) \o D(2) \o D(3) \o D(4) \o D(5) \o D(6) \o D(7) \o m["unknown"]
    BY DEF Serialize, SerializeWith, WrittenDeep
  <2> HIDE DEF D
  <2>2. QED
    BY <2>1
<1>3. \A n \in 1..7 : /\ D(n) = W(n) /\ W(n) \in Seq(ItemsIn(name, m))
                      /\ Len(W(n)) <= 1
                      /\ \A f \in DOMAIN Fields[name] :
                           Tags[name][f] \div 8 = n /\ m[f] # Zero(Fields[name][f])
                             => Item(name, m, f) \in Range(W(n))
  BY WrittenFacts
<1> HIDE DEF W, D
<1>4. Serialize(name, m) = SerializeFlat(name, m)
  <2>1. /\ D(1) = W(1) /\ D(2) = W(2) /\ D(3) = W(3) /\ D(4) = W(4)
        /\ D(5) = W(5) /\ D(6) = W(6) /\ D(7) = W(7)
    BY <1>3
  <2>2. QED
    BY <1>1, <1>2, <2>1
<1>5. /\ Serialize(name, m) \in Seq(ItemsIn(name, m))
      /\ Len(Serialize(name, m)) = Len(W(1)) + Len(W(2)) + Len(W(3)) + Len(W(4)) + Len(W(5)) + Len(W(6)) + Len(W(7))
      /\ \A n \in 1..7 : Range(W(n)) \subseteq Range(Serialize(name, m))
  <2>1. /\ W(1) \in Seq(ItemsIn(name, m)) /\ W(2) \in Seq(ItemsIn(name, m)) /\ W(3) \in Seq(ItemsIn(name, m))
        /\ W(4) \in Seq(ItemsIn(name, m)) /\ W(5) \in Seq(ItemsIn(name, m)) /\ W(6) \in Seq(ItemsIn(name, m))
        /\ W(7) \in Seq(ItemsIn(name, m))
    BY <1>3
  <2> DEFINE w == W(1) \o W(2) \o W(3) \o W(4) \o W(5) \o W(6) \o W(7) \o <<>>
  <2>2. /\ w \in Seq(ItemsIn(name, m))
        /\ Len(w) = Len(W(1)) + Len(W(2)) + Len(W(3)) + Len(W(4)) + Len(W(5)) + Len(W(6)) + Len(W(7))
        /\ \A r \in {W(1), W(2), W(3), W(4), W(5), W(6), W(7)} : Range(r) \subseteq Range(w)
    BY <2>1, ConcatShort
  <2>3. Serialize(name, m) = w
    BY <1>1, <1>4
  <2> HIDE DEF w
  <2>4. \A n \in 1..7 : W(n) \in {W(1), W(2), W(3), W(4), W(5), W(6), W(7)}
    <3>1. \A n \in 1..7 : n = 1 \/ n = 2 \/ n = 3 \/ n = 4 \/ n = 5 \/ n = 6 \/ n = 7
      OBVIOUS
    <3>2. QED
      BY <3>1
  <2>5. QED
    BY <2>2, <2>3, <2>4
<1>6. Len(Serialize(name, m)) <= 7
  <2>1. /\ Len(W(1)) \in Nat /\ Len(W(2)) \in Nat /\ Len(W(3)) \in Nat /\ Len(W(4)) \in Nat
        /\ Len(W(5)) \in Nat /\ Len(W(6)) \in Nat /\ Len(W(7)) \in Nat
    BY <1>3
  <2>2. /\ Len(W(1)) <= 1 /\ Len(W(2)) <= 1 /\ Len(W(3)) <= 1 /\ Len(W(4)) <= 1
        /\ Len(W(5)) <= 1 /\ Len(W(6)) <= 1 /\ Len(W(7)) <= 1
    BY <1>3
  <2>3. QED
    BY <1>5, <2>1, <2>2
<1>7. \A f \in DOMAIN Fields[name] :
        m[f] # Zero(Fields[name][f]) => Item(name, m, f) \in Range(Serialize(name, m))
  BY <1>3, <1>5 DEF Flat
<1>8. QED
  BY <1>4, <1>5, <1>6, <1>7

(* What ParseFromString makes of such items. *)
LEMMA FlatParse ==
  ASSUME NEW name, Flat(name), NEW m, NEW items \in Seq(ItemsIn(name, m))
  PROVE  /\ HasFields(name, Parse(name, items))
         /\ Parse(name, items)["unknown"] = <<>>
         /\ \A f \in DOMAIN Fields[name] :
               Parse(name, items)[f] = IF Item(name, m, f) \in Range(items) THEN m[f]
                                       ELSE Zero(Fields[name][f])
<1>1. Len(items) \in Nat /\ DOMAIN items = 1..Len(items) /\ InOrder(name)
  BY DEF Flat
<1>2. \A i \in 1..Len(items) : \E f \in DOMAIN Fields[name] : items[i] = Item(name, m, f)
  BY DEF ItemsIn
<1>3. \A f \in DOMAIN Fields[name] : Item(name, m, f).tag = Tags[name][f]
  BY DEF Item
<1>4. HasFields(name, Parse(name, items)) /\ Parse(name, items)["unknown"] = <<>>
  BY <1>1, <1>2, <1>3, ParseShape
<1>5. ASSUME NEW f \in DOMAIN Fields[name]
      PROVE  Parse(name, items)[f] = IF Item(name, m, f) \in Range(items) THEN m[f]
                                     ELSE Zero(Fields[name][f])
  <2>1. \A i \in 1..Len(items) : items[i].tag = Tags[name][f] <=> items[i] = Item(name, m, f)
    BY <1>2, <1>3 DEF Flat, InOrder
  <2>2. Fields[name][f] \in {Number, Bytes}
    BY DEF Flat
  <2>3. m[f] = IF Fields[name][f] = Number THEN Item(name, m, f).int ELSE Item(name, m, f).bytes
    BY <2>2 DEF Item
  <2>4. Tells(name, items, f, m[f])
    BY <2>1, <2>3 DEF Tells
  <2>5. Parse(name, items)[f] = IF \E i \in 1..Len(items) : items[i].tag = Tags[name][f]
                                THEN m[f] ELSE Zero(Fields[name][f])
    BY <1>1, <2>2, <2>4, ParseField
  <2>6. (\E i \in 1..Len(items) : items[i].tag = Tags[name][f]) <=> Item(name, m, f) \in Range(items)
    BY <1>1, <2>1 DEF Range
  <2>7. QED
    BY <2>5, <2>6
<1>6. QED
  BY <1>4, <1>5

(* A message with its fields, and nothing it does not know. *)
Whole(name, m) == HasFields(name, m) /\ m["unknown"] = <<>>

(* What SerializeToString writes of a message of numbers and strings,
   ParseFromString reads back, all fields of it and nothing else, whichever are
   set: group.pb.cc:743-810 and its like in every flat class. *)
THEOREM FlatRoundTrip ==
  ASSUME NEW name, Flat(name), NEW m, Whole(name, m)
  PROVE  Parse(name, Serialize(name, m)) = m
<1> DEFINE w == Serialize(name, m)
           r == Parse(name, w)
<1>1. /\ w \in Seq(ItemsIn(name, m))
      /\ \A f \in DOMAIN Fields[name] : m[f] # Zero(Fields[name][f]) => Item(name, m, f) \in Range(w)
  BY FlatSerialize DEF Whole
<1> HIDE DEF w
<1>2. /\ HasFields(name, r) /\ r["unknown"] = <<>>
      /\ \A f \in DOMAIN Fields[name] :
            r[f] = IF Item(name, m, f) \in Range(w) THEN m[f] ELSE Zero(Fields[name][f])
  BY <1>1, FlatParse
<1> HIDE DEF r
<1>3. \A f \in {"unknown"} \cup DOMAIN Fields[name] : r[f] = m[f]
  BY <1>1, <1>2 DEF Whole
<1>4. r = m
  BY <1>2, <1>3 DEF Whole, HasFields
<1>5. QED
  BY <1>4 DEF r, w

(* Where the stream is cut, the first piece still parses, and each field is as it
   was written or as if it had not been set (group.pb.cc:743-784). *)
THEOREM FlatPiece ==
  ASSUME NEW name, Flat(name), NEW m, m["unknown"] = <<>>,
         NEW n \in 0..Len(Serialize(name, m)), NEW f \in DOMAIN Fields[name]
  PROVE  Parse(name, SubSeq(Serialize(name, m), 1, n))[f] \in {m[f], Zero(Fields[name][f])}
<1> DEFINE w == Serialize(name, m)
           s == SubSeq(w, 1, n)
<1>1. w \in Seq(ItemsIn(name, m))
  BY FlatSerialize
<1>2. n \in 0..Len(w)
  OBVIOUS
<1> HIDE DEF w
<1>3. s \in Seq(ItemsIn(name, m))
  BY <1>1, <1>2
<1> HIDE DEF s
<1>4. Parse(name, s)[f] \in {m[f], Zero(Fields[name][f])}
  BY <1>3, FlatParse
<1>5. QED
  BY <1>4 DEF s, w

-----------------------------------------------------------------------------
(* A submessage is parsed as a message of its own. *)
FlatTakes(name, msg, item) ==
  LET own == FieldsTagged(name, item.tag)
      f == CHOOSE g \in own : TRUE
  IN IF own = {} THEN [msg EXCEPT !.unknown = Append(@, item)]
     ELSE [msg EXCEPT ![f] = FlatParsed(Fields[name][f], @, item)]

(* A flat message is read as the general parser reads it. *)
LEMMA FlatTakesIsTakes ==
  ASSUME NEW name, Flat(name), NEW msg, NEW item
  PROVE  FlatTakes(name, msg, item) = Takes(name, msg, item)
<1> DEFINE own == FieldsTagged(name, item.tag)
           f == CHOOSE g \in own : TRUE
<1>1. /\ FlatTakes(name, msg, item) = IF own = {} THEN [msg EXCEPT !.unknown = Append(@, item)]
                                ELSE [msg EXCEPT ![f] = FlatParsed(Fields[name][f], @, item)]
      /\ Takes(name, msg, item) = IF own = {} THEN [msg EXCEPT !.unknown = Append(@, item)]
                                ELSE [msg EXCEPT ![f] = Parsed(Fields[name][f], @, item)]
  BY DEF FlatTakes, Takes
<1>2. own # {} => f \in DOMAIN Fields[name]
  <2>1. own # {} => f \in own
    OBVIOUS
  <2>2. QED
    BY <2>1 DEF FieldsTagged, Flat, InOrder
<1> HIDE DEF own, f
<1>3. own # {} => Parsed(Fields[name][f], msg[f], item) = FlatParsed(Fields[name][f], msg[f], item)
  BY <1>2, FlatKinds DEF Flat
<1>4. QED
  BY <1>1, <1>3

(* And so is the whole of it. *)
LEMMA FlatParseIsParse ==
  ASSUME NEW name, Flat(name), NEW items, Len(items) \in Nat
  PROVE  ParseFlat(name, Clear(name), items) = Parse(name, items)
<1> DEFINE L == Len(items)
           FlatReads(g) == g = [n \in 0..L |-> IF n = 0 THEN Clear(name)
                                               ELSE FlatTakes(name, g[n - 1], items[n])]
           R == CHOOSE g : Reads(name, items, L, g)
           F == CHOOSE g : FlatReads(g)
<1>1. Reads(name, items, L, R)
  BY ReadsExist
<1>2. \A g : FlatReads(g) <=> Reads(name, items, L, g)
  <2> SUFFICES ASSUME NEW g PROVE FlatReads(g) <=> Reads(name, items, L, g)
    OBVIOUS
  <2>1. \A n \in 0..L : FlatTakes(name, g[n - 1], items[n]) = Takes(name, g[n - 1], items[n])
    BY FlatTakesIsTakes
  <2>2. [n \in 0..L |-> IF n = 0 THEN Clear(name) ELSE FlatTakes(name, g[n - 1], items[n])]
          = [n \in 0..L |-> IF n = 0 THEN Clear(name) ELSE Takes(name, g[n - 1], items[n])]
    BY <2>1
  <2>3. QED
    BY <2>2 DEF Reads
<1>3. Parse(name, items) = R[L]
  BY DEF Parse, ParseWith, Reads, Takes
<1>4. ParseFlat(name, Clear(name), items) = F[L]
  BY DEF ParseFlat, ParseWith, FlatTakes
<1>5. Reads(name, items, L, F)
  <2>1. \E g : FlatReads(g)
    BY <1>1, <1>2
  <2> HIDE DEF FlatReads
  <2>2. FlatReads(F)
    BY <2>1
  <2>3. QED
    BY <1>2, <2>2
<1> HIDE DEF R, F
<1> DEFINE S == {n \in 0..L : R[n] = F[n]}
<1>6. 0 \in S
  BY <1>1, <1>5 DEF Reads
<1>7. ASSUME NEW n \in 0..L, n \in S, n < L PROVE n + 1 \in S
  <2>1. n + 1 \in 0..L /\ n + 1 # 0 /\ n + 1 - 1 = n
    BY <1>7
  <2>2. R[n + 1] = Takes(name, R[n], items[n + 1]) /\ F[n + 1] = Takes(name, F[n], items[n + 1])
    BY <1>1, <1>5, <2>1 DEF Reads
  <2>3. QED
    BY <1>7, <2>1, <2>2
<1>8. \A n \in 0..L : n \in S /\ n < L => n + 1 \in S
  BY <1>7
<1> HIDE DEF S
<1>9. \A n \in 0..L : n \in S
  BY <1>6, <1>8, UpToBound
<1>10. L \in S
  BY <1>9
<1>11. QED
  BY <1>3, <1>4, <1>10 DEF S

(* The fields of RpcHeader and their tags. *)
LEMMA RpcHeaderTable ==
  /\ Flat("RpcHeader")
  /\ DOMAIN Fields["RpcHeader"] = {"service_name", "method_name", "args_size"}
  /\ Fields["RpcHeader"]["service_name"] = Bytes /\ Tags["RpcHeader"]["service_name"] = 10
  /\ Fields["RpcHeader"]["method_name"] = Bytes /\ Tags["RpcHeader"]["method_name"] = 18
  /\ Fields["RpcHeader"]["args_size"] = Number /\ Tags["RpcHeader"]["args_size"] = 24
<1>1. Fields["RpcHeader"] = RpcHeaderFields
  BY DEF Fields
<1>2. Tags["RpcHeader"] = RpcHeaderTags
  BY DEF Tags
<1>3. DOMAIN RpcHeaderFields = {"service_name", "method_name", "args_size"}
  BY DEF RpcHeaderFields
<1>4. DOMAIN RpcHeaderTags = {"service_name", "method_name", "args_size"}
  BY DEF RpcHeaderTags
<1>5. RpcHeaderFields["service_name"] = Bytes /\ RpcHeaderTags["service_name"] = 10
  BY DEF RpcHeaderFields, RpcHeaderTags
<1>6. RpcHeaderFields["method_name"] = Bytes /\ RpcHeaderTags["method_name"] = 18
  BY DEF RpcHeaderFields, RpcHeaderTags
<1>7. RpcHeaderFields["args_size"] = Number /\ RpcHeaderTags["args_size"] = 24
  BY DEF RpcHeaderFields, RpcHeaderTags
<1>8. InOrder("RpcHeader")
  BY <1>1, <1>2, <1>3, <1>4, <1>5, <1>6, <1>7 DEF InOrder
<1>9. Flat("RpcHeader")
  BY <1>8, <1>1, <1>2, <1>3, <1>4, <1>5, <1>6, <1>7 DEF Flat
<1>10. QED
  BY <1>9, <1>1, <1>2, <1>3, <1>4, <1>5, <1>6, <1>7

(* The fields of ChatMessage and their tags. *)
LEMMA ChatMessageTable ==
  /\ Flat("ChatMessage")
  /\ DOMAIN Fields["ChatMessage"] = {"method", "userid", "friendid", "friendname", "msg", "send_time"}
  /\ Fields["ChatMessage"]["method"] = Number /\ Tags["ChatMessage"]["method"] = 8
  /\ Fields["ChatMessage"]["userid"] = Number /\ Tags["ChatMessage"]["userid"] = 16
  /\ Fields["ChatMessage"]["friendid"] = Number /\ Tags["ChatMessage"]["friendid"] = 24
  /\ Fields["ChatMessage"]["friendname"] = Bytes /\ Tags["ChatMessage"]["friendname"] = 34
  /\ Fields["ChatMessage"]["msg"] = Bytes /\ Tags["ChatMessage"]["msg"] = 42
  /\ Fields["ChatMessage"]["send_time"] = Number /\ Tags["ChatMessage"]["send_time"] = 48
<1>1. Fields["ChatMessage"] = ChatMessageFields
  BY DEF Fields
<1>2. Tags["ChatMessage"] = ChatMessageTags
  BY DEF Tags
<1>3. DOMAIN ChatMessageFields = {"method", "userid", "friendid", "friendname", "msg", "send_time"}
  BY DEF ChatMessageFields
<1>4. DOMAIN ChatMessageTags = {"method", "userid", "friendid", "friendname", "msg", "send_time"}
  BY DEF ChatMessageTags
<1>5. ChatMessageFields["method"] = Number /\ ChatMessageTags["method"] = 8
  BY DEF ChatMessageFields, ChatMessageTags
<1>6. ChatMessageFields["userid"] = Number /\ ChatMessageTags["userid"] = 16
  BY DEF ChatMessageFields, ChatMessageTags
<1>7. ChatMessageFields["friendid"] = Number /\ ChatMessageTags["friendid"] = 24
  BY DEF ChatMessageFields, ChatMessageTags
<1>8. ChatMessageFields["friendname"] = Bytes /\ ChatMessageTags["friendname"] = 34
  BY DEF ChatMessageFields, ChatMessageTags
<1>9. ChatMessageFields["msg"] = Bytes /\ ChatMessageTags["msg"] = 42
  BY DEF ChatMessageFields, ChatMessageTags
<1>10. ChatMessageFields["send_time"] = Number /\ ChatMessageTags["send_time"] = 48
  BY DEF ChatMessageFields, ChatMessageTags
<1>11. InOrder("ChatMessage")
  BY <1>1, <1>2, <1>3, <1>4, <1>5, <1>6, <1>7, <1>8, <1>9, <1>10 DEF InOrder
<1>12. Flat("ChatMessage")
  BY <1>11, <1>1, <1>2, <1>3, <1>4, <1>5, <1>6, <1>7, <1>8, <1>9, <1>10 DEF Flat
<1>13. QED
  BY <1>12, <1>1, <1>2, <1>3, <1>4, <1>5, <1>6, <1>7, <1>8, <1>9, <1>10

(* The fields of GroupMessage and their tags. *)
LEMMA GroupMessageTable ==
  /\ Flat("GroupMessage")
  /\ DOMAIN Fields["GroupMessage"] = {"method", "userid", "groupid", "memberid", "membername", "msg", "send_time"}
  /\ Fields["GroupMessage"]["method"] = Number /\ Tags["GroupMessage"]["method"] = 8
  /\ Fields["GroupMessage"]["userid"] = Number /\ Tags["GroupMessage"]["userid"] = 16
  /\ Fields["GroupMessage"]["groupid"] = Number /\ Tags["GroupMessage"]["groupid"] = 24
  /\ Fields["GroupMessage"]["memberid"] = Number /\ Tags["GroupMessage"]["memberid"] = 32
  /\ Fields["GroupMessage"]["membername"] = Bytes /\ Tags["GroupMessage"]["membername"] = 42
  /\ Fields["GroupMessage"]["msg"] = Bytes /\ Tags["GroupMessage"]["msg"] = 50
  /\ Fields["GroupMessage"]["send_time"] = Number /\ Tags["GroupMessage"]["send_time"] = 56
<1>1. Fields["GroupMessage"] = GroupMessageFields
  BY DEF Fields
<1>2. Tags["GroupMessage"] = GroupMessageTags
  BY DEF Tags
<1>3. DOMAIN GroupMessageFields = {"method", "userid", "groupid", "memberid", "membername", "msg", "send_time"}
  BY DEF GroupMessageFields
<1>4. DOMAIN GroupMessageTags = {"method", "userid", "groupid", "memberid", "membername", "msg", "send_time"}
  BY DEF GroupMessageTags
<1>5. GroupMessageFields["method"] = Number /\ GroupMessageTags["method"] = 8
  BY DEF GroupMessageFields, GroupMessageTags
<1>6. GroupMessageFields["userid"] = Number /\ GroupMessageTags["userid"] = 16
  BY DEF GroupMessageFields, GroupMessageTags
<1>7. GroupMessageFields["groupid"] = Number /\ GroupMessageTags["groupid"] = 24
  BY DEF GroupMessageFields, GroupMessageTags
<1>8. GroupMessageFields["memberid"] = Number /\ GroupMessageTags["memberid"] = 32
  BY DEF GroupMessageFields, GroupMessageTags
<1>9. GroupMessageFields["membername"] = Bytes /\ GroupMessageTags["membername"] = 42
  BY DEF GroupMessageFields, GroupMessageTags
<1>10. GroupMessageFields["msg"] = Bytes /\ GroupMessageTags["msg"] = 50
  BY DEF GroupMessageFields, GroupMessageTags
<1>11. GroupMessageFields["send_time"] = Number /\ GroupMessageTags["send_time"] = 56
  BY DEF GroupMessageFields, GroupMessageTags
<1>12. InOrder("GroupMessage")
  BY <1>1, <1>2, <1>3, <1>4, <1>5, <1>6, <1>7, <1>8, <1>9, <1>10, <1>11 DEF InOrder
<1>13. Flat("GroupMessage")
  BY <1>12, <1>1, <1>2, <1>3, <1>4, <1>5, <1>6, <1>7, <1>8, <1>9, <1>10, <1>11 DEF Flat
<1>14. QED
  BY <1>13, <1>1, <1>2, <1>3, <1>4, <1>5, <1>6, <1>7, <1>8, <1>9, <1>10, <1>11

(* The fields of GetFriendsListRequest and their tags. *)
LEMMA GetFriendsListRequestTable ==
  /\ Flat("GetFriendsListRequest")
  /\ DOMAIN Fields["GetFriendsListRequest"] = {"userid"}
  /\ Fields["GetFriendsListRequest"]["userid"] = Number /\ Tags["GetFriendsListRequest"]["userid"] = 8
<1>1. Fields["GetFriendsListRequest"] = GetFriendsListRequestFields
  BY DEF Fields
<1>2. Tags["GetFriendsListRequest"] = GetFriendsListRequestTags
  BY DEF Tags
<1>3. DOMAIN GetFriendsListRequestFields = {"userid"}
  BY DEF GetFriendsListRequestFields
<1>4. DOMAIN GetFriendsListRequestTags = {"userid"}
  BY DEF GetFriendsListRequestTags
<1>5. GetFriendsListRequestFields["userid"] = Number /\ GetFriendsListRequestTags["userid"] = 8
  BY DEF GetFriendsListRequestFields, GetFriendsListRequestTags
<1>6. InOrder("GetFriendsListRequest")
  BY <1>1, <1>2, <1>3, <1>4, <1>5 DEF InOrder
<1>7. Flat("GetFriendsListRequest")
  BY <1>6, <1>1, <1>2, <1>3, <1>4, <1>5 DEF Flat
<1>8. QED
  BY <1>7, <1>1, <1>2, <1>3, <1>4, <1>5

(* The fields of Friends and their tags. *)
LEMMA FriendsTable ==
  /\ Flat("Friends")
  /\ DOMAIN Fields["Friends"] = {"userid", "friendname", "online"}
  /\ Fields["Friends"]["userid"] = Number /\ Tags["Friends"]["userid"] = 8
  /\ Fields["Friends"]["friendname"] = Bytes /\ Tags["Friends"]["friendname"] = 18
  /\ Fields["Friends"]["online"] = Bytes /\ Tags["Friends"]["online"] = 26
<1>1. Fields["Friends"] = FriendsFields
  BY DEF Fields
<1>2. Tags["Friends"] = FriendsTags
  BY DEF Tags
<1>3. DOMAIN FriendsFields = {"userid", "friendname", "online"}
  BY DEF FriendsFields
<1>4. DOMAIN FriendsTags = {"userid", "friendname", "online"}
  BY DEF FriendsTags
<1>5. FriendsFields["userid"] = Number /\ FriendsTags["userid"] = 8
  BY DEF FriendsFields, FriendsTags
<1>6. FriendsFields["friendname"] = Bytes /\ FriendsTags["friendname"] = 18
  BY DEF FriendsFields, FriendsTags
<1>7. FriendsFields["online"] = Bytes /\ FriendsTags["online"] = 26
  BY DEF FriendsFields, FriendsTags
<1>8. InOrder("Friends")
  BY <1>1, <1>2, <1>3, <1>4, <1>5, <1>6, <1>7 DEF InOrder
<1>9. Flat("Friends")
  BY <1>8, <1>1, <1>2, <1>3, <1>4, <1>5, <1>6, <1>7 DEF Flat
<1>10. QED
  BY <1>9, <1>1, <1>2, <1>3, <1>4, <1>5, <1>6, <1>7

(* The fields of createGroupRequest and their tags. *)
LEMMA createGroupRequestTable ==
  /\ Flat("createGroupRequest")
  /\ DOMAIN Fields["createGroupRequest"] = {"userid", "createTime"}
  /\ Fields["createGroupRequest"]["userid"] = Number /\ Tags["createGroupRequest"]["userid"] = 8
  /\ Fields["createGroupRequest"]["createTime"] = Number /\ Tags["createGroupRequest"]["createTime"] = 16
<1>1. Fields["createGroupRequest"] = createGroupRequestFields
  BY DEF Fields
<1>2. Tags["createGroupRequest"] = createGroupRequestTags
  BY DEF Tags
<1>3. DOMAIN createGroupRequestFields = {"userid", "createTime"}
  BY DEF createGroupRequestFields
<1>4. DOMAIN createGroupRequestTags = {"userid", "createTime"}
  BY DEF createGroupRequestTags
<1>5. createGroupRequestFields["userid"] = Number /\ createGroupRequestTags["userid"] = 8
  BY DEF createGroupRequestFields, createGroupRequestTags
<1>6. createGroupRequestFields["createTime"] = Number /\ createGroupRequestTags["createTime"] = 16
  BY DEF createGroupRequestFields, createGroupRequestTags
<1>7. InOrder("createGroupRequest")
  BY <1>1, <1>2, <1>3, <1>4, <1>5, <1>6 DEF InOrder
<1>8. Flat("createGroupRequest")
  BY <1>7, <1>1, <1>2, <1>3, <1>4, <1>5, <1>6 DEF Flat
<1>9. QED
  BY <1>8, <1>1, <1>2, <1>3, <1>4, <1>5, <1>6

(* The fields of AddGroupRequest and their tags. *)
LEMMA AddGroupRequestTable ==
  /\ Flat("AddGroupRequest")
  /\ DOMAIN Fields["AddGroupRequest"] = {"userid", "groupid"}
  /\ Fields["AddGroupRequest"]["userid"] = Number /\ Tags["AddGroupRequest"]["userid"] = 8
  /\ Fields["AddGroupRequest"]["groupid"] = Number /\ Tags["AddGroupRequest"]["groupid"] = 16
<1>1. Fields["AddGroupRequest"] = AddGroupRequestFields
  BY DEF Fields
<1>2. Tags["AddGroupRequest"] = AddGroupRequestTags
  BY DEF Tags
<1>3. DOMAIN AddGroupRequestFields = {"userid", "groupid"}
  BY DEF AddGroupRequestFields
<1>4. DOMAIN AddGroupRequestTags = {"userid", "groupid"}
  BY DEF AddGroupRequestTags
<1>5. AddGroupRequestFields["userid"] = Number /\ AddGroupRequestTags["userid"] = 8
  BY DEF AddGroupRequestFields, AddGroupRequestTags
<1>6. AddGroupRequestFields["groupid"] = Number /\ AddGroupRequestTags["groupid"] = 16
  BY DEF AddGroupRequestFields, AddGroupRequestTags
<1>7. InOrder("AddGroupRequest")
  BY <1>1, <1>2, <1>3, <1>4, <1>5, <1>6 DEF InOrder
<1>8. Flat("AddGroupRequest")
  BY <1>7, <1>1, <1>2, <1>3, <1>4, <1>5, <1>6 DEF Flat
<1>9. QED
  BY <1>8, <1>1, <1>2, <1>3, <1>4, <1>5, <1>6

(* The fields of groupInfo and their tags. *)
LEMMA groupInfoTable ==
  /\ Flat("groupInfo")
  /\ DOMAIN Fields["groupInfo"] = {"groupid", "adminid", "createTime", "usersnum"}
  /\ Fields["groupInfo"]["groupid"] = Number /\ Tags["groupInfo"]["groupid"] = 8
  /\ Fields["groupInfo"]["adminid"] = Number /\ Tags["groupInfo"]["adminid"] = 16
  /\ Fields["groupInfo"]["createTime"] = Number /\ Tags["groupInfo"]["createTime"] = 24
  /\ Fields["groupInfo"]["usersnum"] = Number /\ Tags["groupInfo"]["usersnum"] = 32
<1>1. Fields["groupInfo"] = groupInfoFields
  BY DEF Fields
<1>2. Tags["groupInfo"] = groupInfoTags
  BY DEF Tags
<1>3. DOMAIN groupInfoFields = {"groupid", "adminid", "createTime", "usersnum"}
  BY DEF groupInfoFields
<1>4. DOMAIN groupInfoTags = {"groupid", "adminid", "createTime", "usersnum"}
  BY DEF groupInfoTags
<1>5. groupInfoFields["groupid"] = Number /\ groupInfoTags["groupid"] = 8
  BY DEF groupInfoFields, groupInfoTags
<1>6. groupInfoFields["adminid"] = Number /\ groupInfoTags["adminid"] = 16
  BY DEF groupInfoFields, groupInfoTags
<1>7. groupInfoFields["createTime"] = Number /\ groupInfoTags["createTime"] = 24
  BY DEF groupInfoFields, groupInfoTags
<1>8. groupInfoFields["usersnum"] = Number /\ groupInfoTags["usersnum"] = 32
  BY DEF groupInfoFields, groupInfoTags
<1>9. InOrder("groupInfo")
  BY <1>1, <1>2, <1>3, <1>4, <1>5, <1>6, <1>7, <1>8 DEF InOrder
<1>10. Flat("groupInfo")
  BY <1>9, <1>1, <1>2, <1>3, <1>4, <1>5, <1>6, <1>7, <1>8 DEF Flat
<1>11. QED
  BY <1>10, <1>1, <1>2, <1>3, <1>4, <1>5, <1>6, <1>7, <1>8

(* The fields of getGroupRequest and their tags. *)
LEMMA getGroupRequestTable ==
  /\ Flat("getGroupRequest")
  /\ DOMAIN Fields["getGroupRequest"] = {"userid"}
  /\ Fields["getGroupRequest"]["userid"] = Number /\ Tags["getGroupRequest"]["userid"] = 8
<1>1. Fields["getGroupRequest"] = getGroupRequestFields
  BY DEF Fields
<1>2. Tags["getGroupRequest"] = getGroupRequestTags
  BY DEF Tags
<1>3. DOMAIN getGroupRequestFields = {"userid"}
  BY DEF getGroupRequestFields
<1>4. DOMAIN getGroupRequestTags = {"userid"}
  BY DEF getGroupRequestTags
<1>5. getGroupRequestFields["userid"] = Number /\ getGroupRequestTags["userid"] = 8
  BY DEF getGroupRequestFields, getGroupRequestTags
<1>6. InOrder("getGroupRequest")
  BY <1>1, <1>2, <1>3, <1>4, <1>5 DEF InOrder
<1>7. Flat("getGroupRequest")
  BY <1>6, <1>1, <1>2, <1>3, <1>4, <1>5 DEF Flat
<1>8. QED
  BY <1>7, <1>1, <1>2, <1>3, <1>4, <1>5

(* The fields of offlineMsgRequest and their tags. *)
LEMMA offlineMsgRequestTable ==
  /\ Flat("offlineMsgRequest")
  /\ DOMAIN Fields["offlineMsgRequest"] = {"userid"}
  /\ Fields["offlineMsgRequest"]["userid"] = Number /\ Tags["offlineMsgRequest"]["userid"] = 8
<1>1. Fields["offlineMsgRequest"] = offlineMsgRequestFields
  BY DEF Fields
<1>2. Tags["offlineMsgRequest"] = offlineMsgRequestTags
  BY DEF Tags
<1>3. DOMAIN offlineMsgRequestFields = {"userid"}
  BY DEF offlineMsgRequestFields
<1>4. DOMAIN offlineMsgRequestTags = {"userid"}
  BY DEF offlineMsgRequestTags
<1>5. offlineMsgRequestFields["userid"] = Number /\ offlineMsgRequestTags["userid"] = 8
  BY DEF offlineMsgRequestFields, offlineMsgRequestTags
<1>6. InOrder("offlineMsgRequest")
  BY <1>1, <1>2, <1>3, <1>4, <1>5 DEF InOrder
<1>7. Flat("offlineMsgRequest")
  BY <1>6, <1>1, <1>2, <1>3, <1>4, <1>5 DEF Flat
<1>8. QED
  BY <1>7, <1>1, <1>2, <1>3, <1>4, <1>5

(* The fields of GetFriendsListResponse and their tags. *)
LEMMA GetFriendsListResponseTable ==
  /\ InOrder("GetFriendsListResponse")
  /\ DOMAIN Fields["GetFriendsListResponse"] = {"result", "friends"}
  /\ Fields["GetFriendsListResponse"]["result"] = One("ResultCode") /\ Tags["GetFriendsListResponse"]["result"] = 10
  /\ Fields["GetFriendsListResponse"]["friends"] = Many("Friends") /\ Tags["GetFriendsListResponse"]["friends"] = 18
<1>1. Fields["GetFriendsListResponse"] = GetFriendsListResponseFields
  BY DEF Fields
<1>2. Tags["GetFriendsListResponse"] = GetFriendsListResponseTags
  BY DEF Tags
<1>3. DOMAIN GetFriendsListResponseFields = {"result", "friends"}
  BY DEF GetFriendsListResponseFields
<1>4. DOMAIN GetFriendsListResponseTags = {"result", "friends"}
  BY DEF GetFriendsListResponseTags
<1>5. GetFriendsListResponseFields["result"] = One("ResultCode") /\ GetFriendsListResponseTags["result"] = 10
  BY DEF GetFriendsListResponseFields, GetFriendsListResponseTags
<1>6. GetFriendsListResponseFields["friends"] = Many("Friends") /\ GetFriendsListResponseTags["friends"] = 18
  BY DEF GetFriendsListResponseFields, GetFriendsListResponseTags
<1>7. InOrder("GetFriendsListResponse")
  BY <1>1, <1>2, <1>3, <1>4, <1>5, <1>6 DEF InOrder
<1>9. QED
  BY <1>7, <1>1, <1>2, <1>3, <1>4, <1>5, <1>6

(* The fields of getGroupResponse and their tags. *)
LEMMA getGroupResponseTable ==
  /\ InOrder("getGroupResponse")
  /\ DOMAIN Fields["getGroupResponse"] = {"group"}
  /\ Fields["getGroupResponse"]["group"] = Many("groupInfo") /\ Tags["getGroupResponse"]["group"] = 10
<1>1. Fields["getGroupResponse"] = getGroupResponseFields
  BY DEF Fields
<1>2. Tags["getGroupResponse"] = getGroupResponseTags
  BY DEF Tags
<1>3. DOMAIN getGroupResponseFields = {"group"}
  BY DEF getGroupResponseFields
<1>4. DOMAIN getGroupResponseTags = {"group"}
  BY DEF getGroupResponseTags
<1>5. getGroupResponseFields["group"] = Many("groupInfo") /\ getGroupResponseTags["group"] = 10
  BY DEF getGroupResponseFields, getGroupResponseTags
<1>6. InOrder("getGroupResponse")
  BY <1>1, <1>2, <1>3, <1>4, <1>5 DEF InOrder
<1>8. QED
  BY <1>6, <1>1, <1>2, <1>3, <1>4, <1>5

(* The fields of offlineMsgResponse and their tags. *)
LEMMA offlineMsgResponseTable ==
  /\ InOrder("offlineMsgResponse")
  /\ DOMAIN Fields["offlineMsgResponse"] = {"msg"}
  /\ Fields["offlineMsgResponse"]["msg"] = ManyBytes /\ Tags["offlineMsgResponse"]["msg"] = 10
<1>1. Fields["offlineMsgResponse"] = offlineMsgResponseFields
  BY DEF Fields
<1>2. Tags["offlineMsgResponse"] = offlineMsgResponseTags
  BY DEF Tags
<1>3. DOMAIN offlineMsgResponseFields = {"msg"}
  BY DEF offlineMsgResponseFields
<1>4. DOMAIN offlineMsgResponseTags = {"msg"}
  BY DEF offlineMsgResponseTags
<1>5. offlineMsgResponseFields["msg"] = ManyBytes /\ offlineMsgResponseTags["msg"] = 10
  BY DEF offlineMsgResponseFields, offlineMsgResponseTags
<1>6. InOrder("offlineMsgResponse")
  BY <1>1, <1>2, <1>3, <1>4, <1>5 DEF InOrder
<1>8. QED
  BY <1>6, <1>1, <1>2, <1>3, <1>4, <1>5

(* A message some of whose fields have been set. *)
LEMMA NewFacts ==
  ASSUME NEW name, InOrder(name), NEW values, "unknown" \notin DOMAIN values
  PROVE  /\ Whole(name, New(name, values))
         /\ \A f \in DOMAIN Fields[name] :
               New(name, values)[f] = IF f \in DOMAIN values THEN values[f] ELSE Zero(Fields[name][f])
<1> DEFINE D == {"unknown"} \cup DOMAIN Fields[name]
<1>1. /\ Clear(name) = [f \in D |-> Clear(name)[f]] /\ Clear(name)["unknown"] = <<>>
      /\ \A f \in DOMAIN Fields[name] : Clear(name)[f] = Zero(Fields[name][f])
  BY ClearFacts DEF HasFields
<1>2. New(name, values) = [f \in D |-> IF f \in DOMAIN values THEN values[f] ELSE Clear(name)[f]]
  BY <1>1 DEF New
<1>3. QED
  BY <1>1, <1>2 DEF Whole, HasFields

-----------------------------------------------------------------------------
(* SetToSeq lists the elements of a finite set, each once. *)
LEMMA SetToSeqFacts ==
  ASSUME NEW S, IsFiniteSet(S)
  PROVE  /\ SetToSeq(S) \in Seq(S)
         /\ IsInjective(SetToSeq(S))
         /\ Range(SetToSeq(S)) = S
<1> DEFINE n == Cardinality(S)
           q == SetToSeq(S)
<1>1. n \in Nat /\ ExistsBijection(1..n, S)
  BY FS_CardinalityType
<1>2. \E f \in [1..n -> S] : IsInjective(f)
  BY <1>1 DEF ExistsBijection, Bijection, Injection
<1>3. q \in [1..n -> S] /\ IsInjective(q)
  BY <1>2 DEF SetToSeq
<1>4. q \in Injection(1..n, S)
  BY <1>3 DEF Injection
<1>5. IsFiniteSet(1..n) /\ Cardinality(1..n) = n
  BY <1>1, FS_Interval
<1> HIDE DEF q
<1>6. q \in Surjection(1..n, S)
  BY <1>4, <1>5, FS_Injection
<1>7. Range(q) = S
  BY <1>3, <1>6 DEF Surjection, Range
<1>8. q \in Seq(S)
  BY <1>1, <1>3
<1>9. QED
  BY <1>3, <1>7, <1>8 DEF q

-----------------------------------------------------------------------------
(* What an item adds to a repeated field. *)
Element(kind, item) == IF kind.is = "messages" THEN ParseFlat(kind.of, Clear(kind.of), item.items)
                                               ELSE item.bytes

(* The items of a repeated field. *)
LEMMA Repeated ==
  ASSUME NEW kind, kind.is \in {"messages", "strings"}, NEW old, NEW item
  PROVE  Parsed(kind, old, item) = Append(old, Element(kind, item)) /\ Zero(kind) = <<>>
BY DEF Parsed, Zero, Element

(* The elements of a repeated field come from items of its tag. *)
LEMMA ParseRepeated ==
  ASSUME NEW name, InOrder(name), NEW items, Len(items) \in Nat,
         NEW f \in DOMAIN Fields[name], Fields[name][f].is \in {"messages", "strings"},
         NEW E, \A i \in 1..Len(items) : items[i].tag = Tags[name][f] =>
                   Element(Fields[name][f], items[i]) \in E
  PROVE  Parse(name, items)[f] \in Seq(E)
<1>1. PICK g : /\ g[0] = Clear(name)
               /\ \A n \in 1..Len(items) : g[n] = Takes(name, g[n - 1], items[n])
               /\ Parse(name, items) = g[Len(items)]
  BY ParseReads
<1> DEFINE S == {n \in 0..Len(items) : HasFields(name, g[n]) /\ g[n][f] \in Seq(E)}
<1>2. 0 \in S
  <2>1. Zero(Fields[name][f]) = <<>>
    BY Repeated
  <2>2. g[0][f] = <<>> /\ HasFields(name, g[0])
    BY <1>1, <2>1, ClearFacts
  <2>3. <<>> \in Seq(E) /\ 0 \in 0..Len(items)
    OBVIOUS
  <2>4. g[0][f] \in Seq(E)
    BY <2>2, <2>3
  <2>5. QED
    BY <2>2, <2>3, <2>4
<1>3. ASSUME NEW n \in 0..Len(items), n \in S, n < Len(items) PROVE n + 1 \in S
  <2>1. n + 1 \in 1..Len(items) /\ n + 1 - 1 = n
    BY <1>3
  <2>2. g[n + 1] = Takes(name, g[n], items[n + 1])
    BY <1>1, <2>1
  <2> DEFINE x == items[n + 1]
             y == g[n]
             e == Element(Fields[name][f], x)
  <2>3. HasFields(name, y) /\ y[f] \in Seq(E)
    BY <1>3
  <2>4. x.tag = Tags[name][f] => e \in E
    BY <2>1
  <2>5. Parsed(Fields[name][f], y[f], x) = Append(y[f], e)
    BY Repeated
  <2> HIDE DEF x, y, S, e
  <2>6. /\ HasFields(name, Takes(name, y, x))
        /\ Takes(name, y, x)[f] = IF x.tag = Tags[name][f]
                                  THEN Parsed(Fields[name][f], y[f], x) ELSE y[f]
    <3>1. \A h \in DOMAIN Fields[name] :
             Takes(name, y, x)[h] = IF x.tag = Tags[name][h]
                                    THEN Parsed(Fields[name][h], y[h], x) ELSE y[h]
      BY <2>3, TakesFacts
    <3>2. HasFields(name, Takes(name, y, x))
      BY <2>3, TakesFacts
    <3>3. QED
      BY <3>1, <3>2
  <2>7. e \in E => Append(y[f], e) \in Seq(E)
    BY <2>3
  <2>8. Takes(name, y, x)[f] \in Seq(E)
    BY <2>3, <2>4, <2>5, <2>6, <2>7
  <2>9. QED
    BY <2>1, <2>2, <2>6, <2>8 DEF x, y, S
<1>4. \A n \in 0..Len(items) : n \in S /\ n < Len(items) => n + 1 \in S
  BY <1>3
<1> HIDE DEF S
<1>5. \A n \in 0..Len(items) : n \in S
  BY <1>2, <1>4, UpToBound
<1>6. Len(items) \in S
  BY <1>5
<1>7. QED
  BY <1>1, <1>6 DEF S

(* All the items are of one field. *)
OnlyOf(name, items, f) ==
  Len(items) \in Nat /\ \A i \in 1..Len(items) : items[i].tag = Tags[name][f]

(* A message with one field, which is repeated: an element for each item. *)
LEMMA ParseOnlyRepeated ==
  ASSUME NEW name, InOrder(name), NEW items,
         NEW f \in DOMAIN Fields[name], Fields[name][f].is \in {"messages", "strings"},
         OnlyOf(name, items, f)
  PROVE  Parse(name, items)[f] =
           [i \in 1..Len(items) |-> Element(Fields[name][f], items[i])]
<1>0. Len(items) \in Nat /\ \A i \in 1..Len(items) : items[i].tag = Tags[name][f]
  BY DEF OnlyOf
<1>1. PICK g : /\ g[0] = Clear(name)
               /\ \A n \in 1..Len(items) : g[n] = Takes(name, g[n - 1], items[n])
               /\ Parse(name, items) = g[Len(items)]
  BY <1>0, ParseReads
<1> DEFINE e(i) == Element(Fields[name][f], items[i])
           S == {n \in 0..Len(items) : HasFields(name, g[n]) /\ g[n][f] = [i \in 1..n |-> e(i)]}
<1>2. 0 \in S
  <2>1. Zero(Fields[name][f]) = <<>>
    BY Repeated
  <2>2. [i \in 1..0 |-> e(i)] = <<>>
    OBVIOUS
  <2>3. HasFields(name, g[0]) /\ g[0][f] = <<>>
    BY <1>1, <2>1, ClearFacts
  <2> HIDE DEF e
  <2>4. QED
    BY <2>2, <2>3
<1>3. ASSUME NEW n \in 0..Len(items), n \in S, n < Len(items) PROVE n + 1 \in S
  <2>1. n + 1 \in 1..Len(items) /\ n + 1 - 1 = n
    BY <1>3
  <2>2. g[n + 1] = Takes(name, g[n], items[n + 1])
    BY <1>1, <2>1
  <2> DEFINE x == items[n + 1]
             y == g[n]
  <2>3. HasFields(name, y) /\ y[f] = [i \in 1..n |-> e(i)]
    BY <1>3
  <2>4. x.tag = Tags[name][f]
    BY <1>0, <2>1
  <2>5. Parsed(Fields[name][f], y[f], x) = Append(y[f], e(n + 1))
    BY Repeated
  <2> HIDE DEF x, y, S
  <2>6. HasFields(name, Takes(name, y, x)) /\ Takes(name, y, x)[f] = Parsed(Fields[name][f], y[f], x)
    <3>1. \A h \in DOMAIN Fields[name] :
             Takes(name, y, x)[h] = IF x.tag = Tags[name][h]
                                    THEN Parsed(Fields[name][h], y[h], x) ELSE y[h]
      BY <2>3, TakesFacts
    <3>2. HasFields(name, Takes(name, y, x))
      BY <2>3, TakesFacts
    <3>3. QED
      BY <2>4, <3>1, <3>2
  <2> HIDE DEF e
  <2>7. Append([i \in 1..n |-> e(i)], e(n + 1)) = [i \in 1..(n + 1) |-> e(i)]
    OBVIOUS
  <2>8. Takes(name, y, x)[f] = [i \in 1..(n + 1) |-> e(i)]
    BY <2>3, <2>5, <2>6, <2>7
  <2>9. QED
    BY <2>1, <2>2, <2>6, <2>8 DEF x, y, S
<1>4. \A n \in 0..Len(items) : n \in S /\ n < Len(items) => n + 1 \in S
  BY <1>3
<1> HIDE DEF S
<1>5. \A n \in 0..Len(items) : n \in S
  BY <1>0, <1>2, <1>4, UpToBound
<1>6. Len(items) \in S
  BY <1>0, <1>5
<1>7. QED
  BY <1>1, <1>6 DEF S

-----------------------------------------------------------------------------
(* The frame of a call, cut after the header or in the arguments, names the
   service and the method and carries a first piece of the arguments. *)
LEMMA RequestFound ==
  ASSUME NEW service, NEW method, NEW A, NEW args \in Seq(A), NEW k \in 0..Len(args)
  PROVE  LET header == Serialize("RpcHeader", New("RpcHeader",
                          [service_name |-> service, method_name |-> method,
                           args_size |-> Len(args)]))
         IN /\ \E I : header \in Seq(I)
            /\ Request([header_size |-> Len(header), rest |-> header \o SubSeq(args, 1, k)])
                 = [service |-> service, method |-> method, args |-> SubSeq(args, 1, k)]
<1> DEFINE m == New("RpcHeader", [service_name |-> service, method_name |-> method,
                                  args_size |-> Len(args)])
           h == Serialize("RpcHeader", m)
           a == SubSeq(args, 1, k)
           frame == [header_size |-> Len(h), rest |-> h \o a]
<1>1. Flat("RpcHeader") /\ DOMAIN Fields["RpcHeader"] = {"service_name", "method_name", "args_size"}
  BY RpcHeaderTable
<1>2. /\ Whole("RpcHeader", m)
      /\ m["service_name"] = service /\ m["method_name"] = method /\ m["args_size"] = Len(args)
  <2> DEFINE v == [service_name |-> service, method_name |-> method, args_size |-> Len(args)]
  <2>1. /\ "unknown" \notin DOMAIN v /\ DOMAIN v = {"service_name", "method_name", "args_size"}
        /\ v["service_name"] = service /\ v["method_name"] = method /\ v["args_size"] = Len(args)
    OBVIOUS
  <2> HIDE DEF v
  <2>2. /\ Whole("RpcHeader", New("RpcHeader", v))
        /\ \A f \in DOMAIN Fields["RpcHeader"] :
              New("RpcHeader", v)[f] = IF f \in DOMAIN v THEN v[f] ELSE Zero(Fields["RpcHeader"][f])
    BY <1>1, <2>1, NewFacts DEF Flat
  <2>3. QED
    BY <1>1, <2>1, <2>2 DEF v
<1> HIDE DEF m
<1>3. h \in Seq(ItemsIn("RpcHeader", m))
  BY <1>1, <1>2, FlatSerialize DEF Whole
<1>4. Parse("RpcHeader", h) = m
  BY <1>1, <1>2, FlatRoundTrip
<1> HIDE DEF h
<1> DEFINE B == A \cup ItemsIn("RpcHeader", m)
<1>5. h \in Seq(B) /\ a \in Seq(B) /\ Len(a) = k /\ Len(args) \in Nat /\ k \in Nat /\ k <= Len(args)
  BY <1>3
<1> HIDE DEF B
<1>6. Len(h \o a) = Len(h) + k /\ Len(h) \in Nat
  BY <1>5
<1>7. Substr(h \o a, 0, Len(h)) = h
  <2>1. Substr(h \o a, 0, Len(h)) = SubSeq(h \o a, 1, Len(h))
    BY <1>5, <1>6 DEF Substr
  <2> HIDE DEF a
  <2>2. SubSeq(h \o a, 1, Len(h)) = h
    BY <1>5
  <2>3. QED
    BY <2>1, <2>2
<1>8. Substr(h \o a, Len(h), Len(args)) = a
  <2>1. Substr(h \o a, Len(h), Len(args)) = SubSeq(h \o a, Len(h) + 1, Len(h) + k)
    BY <1>5, <1>6 DEF Substr
  <2> HIDE DEF a
  <2>2. SubSeq(h \o a, Len(h) + 1, Len(h) + k) = a
    BY <1>5
  <2>3. QED
    BY <2>1, <2>2
<1>9. frame.rest = h \o a /\ frame.header_size = Len(h)
  OBVIOUS
<1> HIDE DEF frame, a
<1>10. Request(frame) = [service |-> service, method |-> method, args |-> a]
  BY <1>2, <1>4, <1>7, <1>8, <1>9 DEF Request, RequestIn
<1>11. QED
  BY <1>3, <1>10 DEF h, m, frame, a

(* SerializeToString writes the fields by their numbers. *)
LEMMA SerializeIs ==
  ASSUME NEW name, NEW m, m["unknown"] = <<>>
  PROVE  Serialize(name, m) =
           WrittenDeep(name, m, 1) \o WrittenDeep(name, m, 2) \o WrittenDeep(name, m, 3)
             \o WrittenDeep(name, m, 4) \o WrittenDeep(name, m, 5) \o WrittenDeep(name, m, 6)
             \o WrittenDeep(name, m, 7) \o <<>>
<1> DEFINE D(n) == WrittenDeep(name, m, n)
<1>1. Serialize(name, m)
        = D(1) \o D(2) \o D(3) \o D(4) \o D(5) \o D(6) \o D(7) \o m["unknown"]
  BY DEF Serialize, SerializeWith, WrittenDeep
<1> HIDE DEF D
<1>2. Serialize(name, m)
        = D(1) \o D(2) \o D(3) \o D(4) \o D(5) \o D(6) \o D(7) \o <<>>
  BY <1>1
<1>3. QED
  BY <1>2 DEF D

(* One more field written. *)
LEMMA WrittenField ==
  ASSUME NEW name, NEW m, NEW n \in 1..7
  PROVE  /\ FieldsNumbered(name, n) = {} => WrittenDeep(name, m, n) = <<>>
         /\ \A f : FieldsNumbered(name, n) = {f} =>
               WrittenDeep(name, m, n) = ItemsOf(Fields[name][f], Tags[name][f], m[f])
<1> DEFINE own == FieldsNumbered(name, n)
<1>1. ASSUME NEW f, own = {f}
      PROVE  WrittenDeep(name, m, n) = ItemsOf(Fields[name][f], Tags[name][f], m[f])
  <2>1. (CHOOSE g \in own : TRUE) = f /\ own # {}
    BY <1>1
  <2>2. QED
    BY <2>1 DEF WrittenDeep
<1>2. QED
  BY <1>1 DEF WrittenDeep

(* A submessage is read back. *)
LEMMA ElementRoundTrip ==
  ASSUME NEW of, Flat(of), NEW x, Whole(of, x), NEW tag
  PROVE  Element(Many(of), [tag |-> tag, items |-> SerializeFlat(of, x)]) = x
<1>1. /\ Serialize(of, x) = SerializeFlat(of, x) /\ Serialize(of, x) \in Seq(ItemsIn(of, x))
      /\ Parse(of, Serialize(of, x)) = x
  BY FlatSerialize, FlatRoundTrip DEF Whole
<1> DEFINE w == SerializeFlat(of, x)
<1>2. w \in Seq(ItemsIn(of, x)) /\ Parse(of, w) = x
  BY <1>1
<1> HIDE DEF w
<1>3. Len(w) \in Nat
  BY <1>2
<1>4. ParseFlat(of, Clear(of), w) = x
  BY <1>2, <1>3, FlatParseIsParse
<1>5. QED
  BY <1>4 DEF Element, Many, w

(* The wire of GetGroup's response: an item for each group. *)
LEMMA GroupsWire ==
  ASSUME NEW E, NEW v \in Seq(E)
  PROVE  Serialize("getGroupResponse", New("getGroupResponse", [group |-> v]))
           = [i \in 1..Len(v) |-> [tag |-> 10, items |-> SerializeFlat("groupInfo", v[i])]]
<1> DEFINE m == New("getGroupResponse", [group |-> v])
           w == Serialize("getGroupResponse", m)
           x(i) == [tag |-> 10, items |-> SerializeFlat("groupInfo", v[i])]
<1>1. /\ InOrder("getGroupResponse") /\ DOMAIN Fields["getGroupResponse"] = {"group"}
      /\ Fields["getGroupResponse"]["group"] = Many("groupInfo")
      /\ Tags["getGroupResponse"]["group"] = 10 /\ Flat("groupInfo")
  BY getGroupResponseTable, groupInfoTable
<1>2. Whole("getGroupResponse", m) /\ m["group"] = v
  <2> DEFINE u == [group |-> v]
  <2>1. DOMAIN u = {"group"} /\ "unknown" \notin DOMAIN u /\ u["group"] = v
    OBVIOUS
  <2> HIDE DEF u
  <2>2. /\ Whole("getGroupResponse", New("getGroupResponse", u))
        /\ New("getGroupResponse", u)["group"] = u["group"]
    BY <1>1, <2>1, NewFacts
  <2>3. QED
    BY <2>1, <2>2 DEF u
<1> HIDE DEF m
<1>3. /\ FieldsNumbered("getGroupResponse", 1) = {"group"}
      /\ \A k \in 2..7 : FieldsNumbered("getGroupResponse", k) = {}
  <2>1. DOMAIN Tags["getGroupResponse"] = {"group"}
    BY <1>1 DEF InOrder
  <2>2. QED
    BY <1>1, <2>1 DEF FieldsNumbered
<1>4. w = [i \in 1..Len(v) |-> x(i)]
  <2> DEFINE D(k) == WrittenDeep("getGroupResponse", m, k)
  <2>1. w = D(1) \o D(2) \o D(3) \o D(4) \o D(5) \o D(6) \o D(7) \o <<>>
    BY <1>2, SerializeIs DEF Whole
  <2>2. D(1) = ItemsOf(Many("groupInfo"), 10, v)
    BY <1>1, <1>2, <1>3, WrittenField
  <2>3. ItemsOf(Many("groupInfo"), 10, v) = [i \in DOMAIN v |-> x(i)]
    BY DEF ItemsOf, Many
  <2>4. DOMAIN v = 1..Len(v) /\ Len(v) \in Nat
    OBVIOUS
  <2>5. \A k \in 2..7 : D(k) = <<>>
    BY <1>3, WrittenField
  <2>6. D(2) = <<>> /\ D(3) = <<>> /\ D(4) = <<>> /\ D(5) = <<>> /\ D(6) = <<>> /\ D(7) = <<>>
    BY <2>5
  <2>7. D(1) = [i \in 1..Len(v) |-> x(i)]
    BY <2>2, <2>3, <2>4
  <2> HIDE DEF D, x, w
  <2>8. [i \in 1..Len(v) |-> x(i)] \in Seq({x(i) : i \in 1..Len(v)})
    BY <2>4
  <2>9. D(1) \in Seq({x(i) : i \in 1..Len(v)})
    BY <2>7, <2>8
  <2>10. w = D(1)
    BY <2>1, <2>6, <2>9
  <2>11. QED
    BY <2>7, <2>10
<1>5. QED
  BY <1>4 DEF w, x, m

(* The response of GetGroup, whole or cut, reads as the groups the service has
   added to it, or as the first of them: never as another group or as a part of
   one (mprpcchannel.cc:134-148). *)
THEOREM GroupsRead ==
  ASSUME NEW E, \A x \in E : Whole("groupInfo", x), NEW v \in Seq(E), NEW n \in 0..Len(v)
  PROVE  /\ Len(Serialize("getGroupResponse", New("getGroupResponse", [group |-> v]))) = Len(v)
         /\ Parse("getGroupResponse",
                  SubSeq(Serialize("getGroupResponse", New("getGroupResponse", [group |-> v])), 1, n)).group
              = SubSeq(v, 1, n)
         /\ \E X : Serialize("getGroupResponse", New("getGroupResponse", [group |-> v])) \in Seq(X)
<1> DEFINE m == New("getGroupResponse", [group |-> v])
           w == Serialize("getGroupResponse", m)
           x(i) == [tag |-> 10, items |-> SerializeFlat("groupInfo", v[i])]
           s == SubSeq(w, 1, n)
<1>1. /\ InOrder("getGroupResponse") /\ DOMAIN Fields["getGroupResponse"] = {"group"}
      /\ Fields["getGroupResponse"]["group"] = Many("groupInfo")
      /\ Tags["getGroupResponse"]["group"] = 10 /\ Flat("groupInfo")
  BY getGroupResponseTable, groupInfoTable
<1>4. w = [i \in 1..Len(v) |-> x(i)]
  BY GroupsWire
<1> HIDE DEF m
<1>6. \A i \in 1..Len(v) : x(i).tag = 10 /\ Element(Many("groupInfo"), x(i)) = v[i]
  <2>1. ASSUME NEW i \in 1..Len(v) PROVE x(i).tag = 10 /\ Element(Many("groupInfo"), x(i)) = v[i]
    <3>1. Whole("groupInfo", v[i])
      OBVIOUS
    <3>2. QED
      BY <1>1, <3>1, ElementRoundTrip
  <2>2. QED
    BY <2>1
<1> HIDE DEF w, x
<1>7. Len(w) = Len(v)
  BY <1>4
<1>8. Len(s) = n /\ n \in Nat /\ \A i \in 1..n : s[i] = x(i) /\ i \in 1..Len(v)
  BY <1>4, <1>7
<1> HIDE DEF s
<1>9. Parse("getGroupResponse", s)["group"]
        = [i \in 1..n |-> Element(Fields["getGroupResponse"]["group"], s[i])]
  <2>1. Fields["getGroupResponse"]["group"].is \in {"messages", "strings"}
    BY <1>1 DEF Many
  <2>2. \A i \in 1..Len(s) : s[i].tag = Tags["getGroupResponse"]["group"]
    BY <1>1, <1>6, <1>8
  <2>3. "group" \in DOMAIN Fields["getGroupResponse"]
    BY <1>1
  <2>4. InOrder("getGroupResponse") /\ OnlyOf("getGroupResponse", s, "group")
    BY <1>1, <1>8, <2>2 DEF OnlyOf
  <2>5. Parse("getGroupResponse", s)["group"]
          = [i \in 1..Len(s) |-> Element(Fields["getGroupResponse"]["group"], s[i])]
    BY <2>1, <2>3, <2>4, ParseOnlyRepeated
  <2>6. QED
    BY <1>8, <2>5
<1>10. \A i \in 1..n : Element(Fields["getGroupResponse"]["group"], s[i]) = v[i]
  BY <1>1, <1>6, <1>8
<1>11. [i \in 1..n |-> Element(Fields["getGroupResponse"]["group"], s[i])] = [i \in 1..n |-> v[i]]
  BY <1>10
<1>12. SubSeq(v, 1, n) = [i \in 1..n |-> v[i]]
  BY <1>7
<1>13. Parse("getGroupResponse", s)["group"] = SubSeq(v, 1, n)
  BY <1>9, <1>11, <1>12
<1>14. w \in Seq({x(i) : i \in 1..Len(v)})
  BY <1>4
<1>15. QED
  BY <1>7, <1>13, <1>14 DEF s, w, m

(* The wire of Getoffline's response: an item for each row. *)
LEMMA OfflineWire ==
  ASSUME NEW E, NEW v \in Seq(E)
  PROVE  Serialize("offlineMsgResponse", New("offlineMsgResponse", [msg |-> v]))
           = [i \in 1..Len(v) |-> [tag |-> 10, bytes |-> v[i]]]
<1> DEFINE m == New("offlineMsgResponse", [msg |-> v])
           w == Serialize("offlineMsgResponse", m)
           x(i) == [tag |-> 10, bytes |-> v[i]]
<1>1. /\ InOrder("offlineMsgResponse") /\ DOMAIN Fields["offlineMsgResponse"] = {"msg"}
      /\ Fields["offlineMsgResponse"]["msg"] = ManyBytes
      /\ Tags["offlineMsgResponse"]["msg"] = 10
  BY offlineMsgResponseTable
<1>2. Whole("offlineMsgResponse", m) /\ m["msg"] = v
  <2> DEFINE u == [msg |-> v]
  <2>1. DOMAIN u = {"msg"} /\ "unknown" \notin DOMAIN u /\ u["msg"] = v
    OBVIOUS
  <2> HIDE DEF u
  <2>2. /\ Whole("offlineMsgResponse", New("offlineMsgResponse", u))
        /\ New("offlineMsgResponse", u)["msg"] = u["msg"]
    BY <1>1, <2>1, NewFacts
  <2>3. QED
    BY <2>1, <2>2 DEF u
<1> HIDE DEF m
<1>3. /\ FieldsNumbered("offlineMsgResponse", 1) = {"msg"}
      /\ \A k \in 2..7 : FieldsNumbered("offlineMsgResponse", k) = {}
  <2>1. DOMAIN Tags["offlineMsgResponse"] = {"msg"}
    BY <1>1 DEF InOrder
  <2>2. QED
    BY <1>1, <2>1 DEF FieldsNumbered
<1>4. w = [i \in 1..Len(v) |-> x(i)]
  <2> DEFINE D(k) == WrittenDeep("offlineMsgResponse", m, k)
  <2>1. w = D(1) \o D(2) \o D(3) \o D(4) \o D(5) \o D(6) \o D(7) \o <<>>
    BY <1>2, SerializeIs DEF Whole
  <2>2. D(1) = ItemsOf(ManyBytes, 10, v)
    BY <1>1, <1>2, <1>3, WrittenField
  <2>3. ItemsOf(ManyBytes, 10, v) = [i \in DOMAIN v |-> x(i)]
    BY DEF ItemsOf, ManyBytes
  <2>4. DOMAIN v = 1..Len(v) /\ Len(v) \in Nat
    OBVIOUS
  <2>5. \A k \in 2..7 : D(k) = <<>>
    BY <1>3, WrittenField
  <2>6. D(2) = <<>> /\ D(3) = <<>> /\ D(4) = <<>> /\ D(5) = <<>> /\ D(6) = <<>> /\ D(7) = <<>>
    BY <2>5
  <2>7. D(1) = [i \in 1..Len(v) |-> x(i)]
    BY <2>2, <2>3, <2>4
  <2> HIDE DEF D, x, w
  <2>8. [i \in 1..Len(v) |-> x(i)] \in Seq({x(i) : i \in 1..Len(v)})
    BY <2>4
  <2>9. D(1) \in Seq({x(i) : i \in 1..Len(v)})
    BY <2>7, <2>8
  <2>10. w = D(1)
    BY <2>1, <2>6, <2>9
  <2>11. QED
    BY <2>7, <2>10
<1>5. QED
  BY <1>4 DEF w, x, m

(* The response of Getoffline, whole or cut: rows it has been made of. *)
LEMMA OfflineRead ==
  ASSUME NEW E, NEW v \in Seq(E), NEW n \in 0..Len(v)
  PROVE  /\ Parse("offlineMsgResponse",
                  SubSeq(Serialize("offlineMsgResponse", New("offlineMsgResponse", [msg |-> v])), 1, n)).msg
              \in Seq(E)
         /\ Len(Serialize("offlineMsgResponse", New("offlineMsgResponse", [msg |-> v]))) = Len(v)
         /\ \E X : Serialize("offlineMsgResponse", New("offlineMsgResponse", [msg |-> v])) \in Seq(X)
<1> DEFINE m == New("offlineMsgResponse", [msg |-> v])
           w == Serialize("offlineMsgResponse", m)
           x(i) == [tag |-> 10, bytes |-> v[i]]
           s == SubSeq(w, 1, n)
<1>1. /\ InOrder("offlineMsgResponse") /\ DOMAIN Fields["offlineMsgResponse"] = {"msg"}
      /\ Fields["offlineMsgResponse"]["msg"] = ManyBytes
      /\ Tags["offlineMsgResponse"]["msg"] = 10
  BY offlineMsgResponseTable
<1>4. w = [i \in 1..Len(v) |-> x(i)]
  BY OfflineWire
<1> HIDE DEF m
<1>6. \A i \in 1..Len(v) : Element(ManyBytes, x(i)) \in E
  BY DEF Element, ManyBytes
<1> HIDE DEF w, x
<1>7. Len(w) = Len(v)
  BY <1>4
<1>8. Len(s) = n /\ n \in Nat /\ \A i \in 1..n : s[i] = x(i) /\ i \in 1..Len(v)
  BY <1>4, <1>7
<1> HIDE DEF s
<1>9. Parse("offlineMsgResponse", s)["msg"] \in Seq(E)
  <2>1. Fields["offlineMsgResponse"]["msg"].is \in {"messages", "strings"}
    BY <1>1 DEF ManyBytes
  <2>2. \A i \in 1..Len(s) : Element(Fields["offlineMsgResponse"]["msg"], s[i]) \in E
    BY <1>1, <1>6, <1>8
  <2>3. "msg" \in DOMAIN Fields["offlineMsgResponse"]
    BY <1>1
  <2>4. QED
    BY <1>1, <1>8, <2>1, <2>2, <2>3, ParseRepeated
<1>10. w \in Seq({x(i) : i \in 1..Len(v)})
  BY <1>4
<1>11. QED
  BY <1>7, <1>9, <1>10 DEF s, w, m

(* The wire of GetFriendsList's response: an item for the result and one for
   each friend. *)
LEMMA FriendsWire ==
  ASSUME NEW E, NEW v \in Seq(E), NEW r
  PROVE  Serialize("GetFriendsListResponse",
                   New("GetFriendsListResponse", [result |-> <<r>>, friends |-> v]))
           \in Seq({[tag |-> 10, items |-> SerializeFlat("ResultCode", r)]}
                    \cup {[tag |-> 18, items |-> SerializeFlat("Friends", v[i])] : i \in 1..Len(v)})
<1> DEFINE m == New("GetFriendsListResponse", [result |-> <<r>>, friends |-> v])
           w == Serialize("GetFriendsListResponse", m)
           x(i) == [tag |-> 18, items |-> SerializeFlat("Friends", v[i])]
           y == [tag |-> 10, items |-> SerializeFlat("ResultCode", r)]
           X == {y} \cup {x(i) : i \in 1..Len(v)}
<1>1. /\ InOrder("GetFriendsListResponse")
      /\ DOMAIN Fields["GetFriendsListResponse"] = {"result", "friends"}
      /\ Fields["GetFriendsListResponse"]["result"] = One("ResultCode")
      /\ Fields["GetFriendsListResponse"]["friends"] = Many("Friends")
      /\ Tags["GetFriendsListResponse"]["result"] = 10
      /\ Tags["GetFriendsListResponse"]["friends"] = 18 /\ Flat("Friends")
  BY GetFriendsListResponseTable, FriendsTable
<1>2. Whole("GetFriendsListResponse", m) /\ m["result"] = <<r>> /\ m["friends"] = v
  <2> DEFINE u == [result |-> <<r>>, friends |-> v]
  <2>1. /\ DOMAIN u = {"result", "friends"} /\ "unknown" \notin DOMAIN u
        /\ u["result"] = <<r>> /\ u["friends"] = v
    OBVIOUS
  <2> HIDE DEF u
  <2>2. /\ Whole("GetFriendsListResponse", New("GetFriendsListResponse", u))
        /\ New("GetFriendsListResponse", u)["result"] = u["result"]
        /\ New("GetFriendsListResponse", u)["friends"] = u["friends"]
    BY <1>1, <2>1, NewFacts
  <2>3. QED
    BY <2>1, <2>2 DEF u
<1> HIDE DEF m
<1>3. /\ FieldsNumbered("GetFriendsListResponse", 1) = {"result"}
      /\ FieldsNumbered("GetFriendsListResponse", 2) = {"friends"}
      /\ \A k \in 3..7 : FieldsNumbered("GetFriendsListResponse", k) = {}
  <2>1. DOMAIN Tags["GetFriendsListResponse"] = {"result", "friends"}
    BY <1>1 DEF InOrder
  <2>2. QED
    BY <1>1, <2>1 DEF FieldsNumbered
<1>4. w \in Seq(X)
  <2> DEFINE D(k) == WrittenDeep("GetFriendsListResponse", m, k)
  <2>1. w = D(1) \o D(2) \o D(3) \o D(4) \o D(5) \o D(6) \o D(7) \o <<>>
    BY <1>2, SerializeIs DEF Whole
  <2>2. D(1) = ItemsOf(One("ResultCode"), 10, <<r>>)
    <3>1. D(1) = ItemsOf(Fields["GetFriendsListResponse"]["result"],
                         Tags["GetFriendsListResponse"]["result"], m["result"])
      BY <1>3, WrittenField
    <3>2. QED
      BY <1>1, <1>2, <3>1
  <2>3. ItemsOf(One("ResultCode"), 10, <<r>>) = <<y>>
    <3>1. ItemsOf(One("ResultCode"), 10, <<r>>)
            = [i \in DOMAIN <<r>> |-> [tag |-> 10, items |-> SerializeFlat("ResultCode", <<r>>[i])]]
      BY DEF ItemsOf, One
    <3>2. DOMAIN <<r>> = 1..1 /\ \A i \in 1..1 : <<r>>[i] = r
      OBVIOUS
    <3>3. [i \in DOMAIN <<r>> |-> [tag |-> 10, items |-> SerializeFlat("ResultCode", <<r>>[i])]]
            = [i \in 1..1 |-> y]
      BY <3>2
    <3> HIDE DEF y
    <3>4. [i \in 1..1 |-> y] = <<y>>
      OBVIOUS
    <3>5. QED
      BY <3>1, <3>3, <3>4
  <2>4. DOMAIN v = 1..Len(v) /\ Len(v) \in Nat
    OBVIOUS
  <2>5. D(2) = ItemsOf(Many("Friends"), 18, v)
    BY <1>1, <1>2, <1>3, WrittenField
  <2>6. ItemsOf(Many("Friends"), 18, v) = [i \in DOMAIN v |-> x(i)]
    BY DEF ItemsOf, Many
  <2>7. \A k \in 3..7 : D(k) = <<>>
    BY <1>3, WrittenField
  <2>8. D(3) = <<>> /\ D(4) = <<>> /\ D(5) = <<>> /\ D(6) = <<>> /\ D(7) = <<>>
    BY <2>7
  <2>9. D(2) = [i \in 1..Len(v) |-> x(i)] /\ D(1) = <<y>>
    BY <2>2, <2>3, <2>4, <2>5, <2>6
  <2> HIDE DEF D, x, w, y
  <2>10. [i \in 1..Len(v) |-> x(i)] \in Seq(X) /\ <<y>> \in Seq(X)
    BY <2>4
  <2> HIDE DEF X
  <2>11. D(1) \in Seq(X) /\ D(2) \in Seq(X)
    BY <2>9, <2>10
  <2>12. w = D(1) \o D(2)
    <3>1. w = D(1) \o D(2) \o <<>> \o <<>> \o <<>> \o <<>> \o <<>> \o <<>>
      BY <2>1, <2>8
    <3>2. QED
      BY <2>11, <3>1
  <2>13. QED
    BY <2>11, <2>12
<1>5. QED
  BY <1>4 DEF w, X, x, y, m

(* The response of GetFriendsList, whole or cut: rows it has been made of. *)
LEMMA FriendsRead ==
  ASSUME NEW E, \A x \in E : Whole("Friends", x), NEW v \in Seq(E), NEW r,
         NEW n \in 0..Len(Serialize("GetFriendsListResponse",
                       New("GetFriendsListResponse", [result |-> <<r>>, friends |-> v])))
  PROVE  Parse("GetFriendsListResponse",
                  SubSeq(Serialize("GetFriendsListResponse",
                      New("GetFriendsListResponse", [result |-> <<r>>, friends |-> v])), 1, n)).friends
              \in Seq(E)
<1> DEFINE m == New("GetFriendsListResponse", [result |-> <<r>>, friends |-> v])
           w == Serialize("GetFriendsListResponse", m)
           x(i) == [tag |-> 18, items |-> SerializeFlat("Friends", v[i])]
           y == [tag |-> 10, items |-> SerializeFlat("ResultCode", r)]
           X == {y} \cup {x(i) : i \in 1..Len(v)}
           s == SubSeq(w, 1, n)
<1>1. /\ InOrder("GetFriendsListResponse")
      /\ DOMAIN Fields["GetFriendsListResponse"] = {"result", "friends"}
      /\ Fields["GetFriendsListResponse"]["result"] = One("ResultCode")
      /\ Fields["GetFriendsListResponse"]["friends"] = Many("Friends")
      /\ Tags["GetFriendsListResponse"]["result"] = 10
      /\ Tags["GetFriendsListResponse"]["friends"] = 18 /\ Flat("Friends")
  BY GetFriendsListResponseTable, FriendsTable
<1>4. w \in Seq(X)
  BY FriendsWire
<1> HIDE DEF m
<1>5. n \in 0..Len(w)
  BY DEF m
<1>6. \A i \in 1..Len(v) : x(i).tag = 18 /\ Element(Many("Friends"), x(i)) \in E
  <2>1. ASSUME NEW i \in 1..Len(v) PROVE x(i).tag = 18 /\ Element(Many("Friends"), x(i)) \in E
    <3>1. Whole("Friends", v[i]) /\ v[i] \in E
      OBVIOUS
    <3>2. Element(Many("Friends"), x(i)) = v[i]
      BY <1>1, <3>1, ElementRoundTrip
    <3>3. QED
      BY <3>1, <3>2
  <2>2. QED
    BY <2>1
<1>7. y.tag = 10
  OBVIOUS
<1> HIDE DEF w, x, y
<1>8. \A z \in X : z.tag = 18 => Element(Many("Friends"), z) \in E
  BY <1>6, <1>7
<1> HIDE DEF X
<1>9. Len(s) = n /\ n \in Nat /\ \A i \in 1..n : s[i] \in X
  BY <1>4, <1>5
<1> HIDE DEF s
<1>10. Parse("GetFriendsListResponse", s)["friends"] \in Seq(E)
  <2>1. Fields["GetFriendsListResponse"]["friends"].is \in {"messages", "strings"}
    BY <1>1 DEF Many
  <2>2. \A i \in 1..Len(s) : s[i].tag = Tags["GetFriendsListResponse"]["friends"] =>
           Element(Fields["GetFriendsListResponse"]["friends"], s[i]) \in E
    BY <1>1, <1>8, <1>9
  <2>3. "friends" \in DOMAIN Fields["GetFriendsListResponse"]
    BY <1>1
  <2>4. QED
    BY <1>1, <1>9, <2>1, <2>2, <2>3, ParseRepeated
<1>11. QED
  BY <1>10 DEF s, w, m

-----------------------------------------------------------------------------
(* Quotient and remainder. *)
LEMMA DivUnique ==
  ASSUME NEW n \in Nat, NEW d \in Nat \ {0}, NEW q \in Nat, NEW r \in 0..(d - 1), n = d * q + r
  PROVE  n \div d = q /\ n % d = r
OBVIOUS

(* Division with a remainder. *)
LEMMA DivRem ==
  ASSUME NEW n \in Nat, NEW d \in Nat \ {0}
  PROVE  /\ n \div d \in Nat /\ n % d \in 0..(d - 1)
         /\ n = d * (n \div d) + (n % d)
OBVIOUS

(* The digits of a length are bytes, the first of them 0 for a short one. *)
LEMMA Digits ==
  ASSUME NEW B \in Nat \ {0, 1}, NEW n \in Nat, n <= 7
  PROVE  /\ n \div (B * B * B) = 0
         /\ (n % B) + B * (((n \div B) % B) + B * ((n \div (B * B)) % B)) = n
<1> DEFINE q == n \div B
           r == n % B
           p == q \div B
           s == q % B
           C == B * B
           D == B * B * B
<1>1. q \in Nat /\ r \in 0..(B - 1) /\ n = B * q + r
  BY DivRem
<1> HIDE DEF q, r
<1>2. p \in Nat /\ s \in 0..(B - 1) /\ q = B * p + s
  BY <1>1, DivRem
<1> HIDE DEF p, s
<1>3. C \in Nat \ {0} /\ C >= 4
  <2>1. B \in Nat /\ B >= 2
    OBVIOUS
  <2>2. B * B >= 2 * B
    BY <2>1
  <2>3. QED
    BY <2>1, <2>2
<1>4. D = C * B /\ D \in Nat /\ D >= 8
  <2>1. B \in Nat /\ B >= 2
    OBVIOUS
  <2> HIDE DEF C
  <2>2. C * B >= 4 * B /\ C * B \in Nat
    BY <1>3, <2>1
  <2>3. D = C * B
    BY DEF C
  <2>4. QED
    BY <2>1, <2>2, <2>3
<1>5. n = C * p + (B * s + r) /\ B * s + r \in 0..(C - 1)
  <2>1. n = B * (B * p + s) + r
    BY <1>1, <1>2
  <2>2. B * (B * p + s) = C * p + B * s
    BY <1>2
  <2>3. B * s <= B * (B - 1) /\ B * s \in Nat
    BY <1>2
  <2>4. B * (B - 1) = C - B
    OBVIOUS
  <2> HIDE DEF C
  <2>5. B * s + r \in 0..(C - 1)
    BY <1>1, <1>3, <2>3, <2>4
  <2>6. C * p \in Nat
    BY <1>2, <1>3
  <2>7. QED
    BY <1>1, <1>3, <2>1, <2>2, <2>3, <2>5, <2>6
<1> HIDE DEF C, D
<1>6. n \div C = p
  BY <1>2, <1>3, <1>5, DivUnique
<1>7. n \div D = 0
  BY <1>4
<1>8. p < B
  <2>1. C * p <= n /\ C * p \in Nat
    <3>1. C * p \in Nat
      BY <1>2, <1>3
    <3> DEFINE x == C * p
               y == B * s + r
    <3>2. n = x + y /\ y \in Nat /\ x \in Nat
      BY <1>3, <1>5, <3>1
    <3> HIDE DEF x, y
    <3>3. x <= n
      BY <3>2
    <3>4. QED
      BY <3>1, <3>3 DEF x
  <2>2. C * p < C * B
    BY <1>4, <2>1
  <2>3. p >= B => C * p >= C * B
    BY <1>2, <1>3
  <2>4. C * B \in Nat
    BY <1>4
  <2>5. QED
    BY <1>2, <2>1, <2>2, <2>3, <2>4
<1>9. p % B = p
  BY <1>2, <1>8
<1>10. r + B * (s + B * p) = n
  <2>1. B * (s + B * p) = B * q
    BY <1>2
  <2>2. B * q \in Nat
    BY <1>1
  <2>3. QED
    BY <1>1, <2>1, <2>2
<1>11. QED
  BY <1>6, <1>7, <1>9, <1>10 DEF q, r, p, s, C, D

(* A length is read back from its digits. *)
LEMMA LengthRead ==
  ASSUME NEW n \in Nat, n <= 7
  PROVE  LengthIn(LengthBytes(n)) = n /\ LengthBytes(n)[4] = ZeroByte /\ Len(LengthBytes(n)) = 4
<1>1. Base \in Nat \ {0, 1}
  BY BaseAssumption
<1>2. /\ n \div (Base * Base * Base) = 0
      /\ (n % Base) + Base * (((n \div Base) % Base) + Base * ((n \div (Base * Base)) % Base)) = n
  BY <1>1, Digits
<1> DEFINE L == LengthBytes(n)
           d1 == n % Base
           d2 == (n \div Base) % Base
           d3 == (n \div (Base * Base)) % Base
<1>3. (n \div (Base * Base * Base)) % Base = 0
  BY <1>1, <1>2
<1>4. L = <<[digit |-> d1], [digit |-> d2], [digit |-> d3], [digit |-> 0]>>
  BY <1>3 DEF LengthBytes, Digit
<1>5. d1 \in Nat /\ d2 \in Nat /\ d3 \in Nat
  <2>1. n \div Base \in Nat /\ Base * Base \in Nat \ {0}
    BY <1>1
  <2>2. n \div (Base * Base) \in Nat
    BY <2>1
  <2>3. QED
    BY <1>1, <2>1, <2>2
<1> HIDE DEF L, d1, d2, d3
<1>6. L[1].digit = d1 /\ L[2].digit = d2 /\ L[3].digit = d3 /\ L[4].digit = 0 /\ Len(L) = 4
  BY <1>4
<1>7. LengthIn(L) = d1 + Base * (d2 + Base * (d3 + Base * 0))
  BY <1>6 DEF LengthIn
<1>8. LengthIn(L) = n
  <2>1. Base * 0 = 0 /\ d3 + 0 = d3
    BY <1>1, <1>5
  <2>2. d1 + Base * (d2 + Base * d3) = n
    BY <1>2 DEF d1, d2, d3
  <2>3. QED
    BY <1>7, <2>1, <2>2
<1>9. L[4] = ZeroByte
  BY <1>4 DEF ZeroByte
<1>10. QED
  BY <1>6, <1>8, <1>9 DEF L
-----------------------------------------------------------------------------
(* The places of two sequences, one after the other. *)
LEMMA ConcatAt ==
  ASSUME NEW S, NEW s \in Seq(S), NEW t \in Seq(S)
  PROVE  /\ s \o t \in Seq(S) /\ Len(s \o t) = Len(s) + Len(t)
         /\ \A i \in 1..Len(s) : (s \o t)[i] = s[i]
         /\ \A i \in 1..Len(t) : (s \o t)[Len(s) + i] = t[i]
OBVIOUS

(* A frame: its length, its body, and the zero byte at its fourth place. *)
LEMMA FrameFacts ==
  ASSUME NEW X, NEW body \in Seq(X), Len(body) <= 7
  PROVE  /\ Frame(body) \in Seq(X \cup [digit : Nat])
         /\ Len(Frame(body)) = 4 + Len(body)
         /\ LengthIn(Frame(body)) = Len(body)
         /\ Frame(body)[4] = ZeroByte
         /\ \A i \in 1..Len(body) : Frame(body)[4 + i] = body[i]
<1> DEFINE Y == X \cup [digit : Nat]
           L == LengthBytes(Len(body))
<1>1. Len(body) \in Nat
  OBVIOUS
<1>2. LengthIn(L) = Len(body) /\ L[4] = ZeroByte /\ Len(L) = 4
  BY <1>1, LengthRead
<1>3. L \in Seq(Y)
  <2>1. Base \in Nat \ {0, 1}
    BY BaseAssumption
  <2>2. \A n \in Nat : Digit(n) \in [digit : Nat]
    BY <2>1 DEF Digit
  <2>3. Base * Base \in Nat \ {0}
    BY <2>1
  <2>4. Base * Base * Base \in Nat \ {0}
    BY <2>1, <2>3
  <2>5. /\ Len(body) \div Base \in Nat /\ Len(body) \div (Base * Base) \in Nat
        /\ Len(body) \div (Base * Base * Base) \in Nat
    BY <1>1, <2>1, <2>3, <2>4
  <2>6. QED
    BY <1>1, <2>2, <2>5 DEF LengthBytes
<1>4. body \in Seq(Y)
  OBVIOUS
<1> HIDE DEF L, Y
<1>5. /\ L \o body \in Seq(Y) /\ Len(L \o body) = 4 + Len(body)
      /\ \A i \in 1..4 : (L \o body)[i] = L[i]
      /\ \A i \in 1..Len(body) : (L \o body)[4 + i] = body[i]
  <2>1. /\ L \o body \in Seq(Y) /\ Len(L \o body) = Len(L) + Len(body)
        /\ \A i \in 1..Len(L) : (L \o body)[i] = L[i]
        /\ \A i \in 1..Len(body) : (L \o body)[Len(L) + i] = body[i]
    BY <1>3, <1>4, ConcatAt
  <2>2. QED
    BY <1>2, <2>1
<1>6. LengthIn(L \o body) = LengthIn(L)
  BY <1>5 DEF LengthIn
<1>7. (L \o body)[4] = L[4]
  BY <1>5
<1>8. QED
  BY <1>2, <1>5, <1>6, <1>7 DEF Frame, L, Y

(* What follows n elements of two equal concatenations is equal. *)
LEMMA SameAfter ==
  ASSUME NEW Z, NEW buffer \in Seq(Z), NEW stream \in Seq(Z), NEW F \in Seq(Z),
         NEW rest \in Seq(Z), buffer \o stream = F \o rest, Len(buffer) >= Len(F)
  PROVE  /\ \A i \in 1..Len(F) : buffer[i] = F[i]
         /\ SubSeq(buffer, Len(F) + 1, Len(buffer)) \in Seq(Z)
         /\ SubSeq(buffer, Len(F) + 1, Len(buffer)) \o stream = rest
<1> DEFINE n == Len(F)
           after == SubSeq(buffer, n + 1, Len(buffer))
<1>1. n \in Nat /\ Len(buffer) \in Nat /\ Len(stream) \in Nat /\ Len(rest) \in Nat
  OBVIOUS
<1>2. \A i \in 1..n : buffer[i] = F[i]
  <2> SUFFICES ASSUME NEW i \in 1..n PROVE buffer[i] = F[i]
    OBVIOUS
  <2>1. (buffer \o stream)[i] = buffer[i]
    OBVIOUS
  <2>2. (F \o rest)[i] = F[i]
    OBVIOUS
  <2>3. QED
    BY <2>1, <2>2
<1>3. after \in Seq(Z) /\ Len(after) = Len(buffer) - n
      /\ \A i \in 1..Len(after) : after[i] = buffer[n + i]
  OBVIOUS
<1>4. Len(buffer) + Len(stream) = n + Len(rest)
  <2>1. Len(buffer \o stream) = Len(buffer) + Len(stream)
    OBVIOUS
  <2>2. Len(F \o rest) = n + Len(rest)
    OBVIOUS
  <2>3. QED
    BY <2>1, <2>2
<1> HIDE DEF after
<1>5. after \o stream \in Seq(Z) /\ Len(after \o stream) = Len(rest)
  <2>1. after \o stream \in Seq(Z) /\ Len(after \o stream) = Len(after) + Len(stream)
    BY <1>3
  <2>2. QED
    BY <1>1, <1>3, <1>4, <2>1
<1>6. ASSUME NEW i \in 1..Len(rest) PROVE (after \o stream)[i] = rest[i]
  <2>1. (F \o rest)[n + i] = rest[i]
    BY <1>1
  <2>2. CASE i <= Len(after)
    <3>1. (after \o stream)[i] = after[i] /\ after[i] = buffer[n + i]
      BY <1>1, <1>3, <2>2
    <3>2. (buffer \o stream)[n + i] = buffer[n + i]
      BY <1>1, <1>3, <2>2
    <3>3. QED
      BY <2>1, <3>1, <3>2
  <2>3. CASE i > Len(after)
    <3>1. i - Len(after) \in 1..Len(stream) /\ n + i - Len(buffer) = i - Len(after)
      BY <1>1, <1>3, <1>4, <2>3
    <3>2. (after \o stream)[i] = stream[i - Len(after)]
      BY <1>3, <2>3, <3>1
    <3>3. (buffer \o stream)[n + i] = stream[n + i - Len(buffer)]
      BY <1>1, <1>3, <2>3, <3>1
    <3>4. QED
      BY <2>1, <3>1, <3>2, <3>3
  <2>4. Len(after) \in Nat
    BY <1>3
  <2>5. i <= Len(after) \/ i > Len(after)
    BY <2>4
  <2>6. QED
    BY <2>2, <2>3, <2>5
<1> DEFINE w == after \o stream
<1>7. w \in Seq(Z) /\ Len(w) = Len(rest) /\ \A i \in 1..Len(rest) : w[i] = rest[i]
  BY <1>5, <1>6
<1> HIDE DEF w
<1>8. w = rest
  BY <1>7
<1>9. QED
  BY <1>2, <1>3, <1>8 DEF w, after

(* F is the frame of the n elements of a body. *)
Carries(F, n, body) ==
  /\ body = [i \in 1..n |-> body[i]]
  /\ Len(F) = 4 + n /\ LengthIn(F) = n
  /\ \A i \in 1..n : F[4 + i] = body[i]

(* The buffer and what still comes begin with such a frame. *)
FrameAhead(Z, buffer, stream, n, body, rest) ==
  /\ n \in Nat /\ buffer \in Seq(Z) /\ stream \in Seq(Z) /\ rest \in Seq(Z)
  /\ \E F \in Seq(Z) : Carries(F, n, body) /\ buffer \o stream = F \o rest

(* Wherever TCP cuts the stream: a buffer OnMessage finds ready begins with the
   next frame, whose body it reads to the byte and whose successors it leaves
   (rpcclient.cpp:64-97). *)
THEOREM FrameRead ==
  ASSUME NEW Z, NEW buffer, NEW stream, NEW n, NEW body, NEW rest,
         FrameAhead(Z, buffer, stream, n, body, rest), FrameReady(buffer)
  PROVE  /\ BodyIn(buffer) = body
         /\ AfterFrame(buffer) \in Seq(Z)
         /\ AfterFrame(buffer) \o stream = rest
<1>1. PICK F \in Seq(Z) : Carries(F, n, body) /\ buffer \o stream = F \o rest
  BY DEF FrameAhead
<1>2. /\ n \in Nat /\ buffer \in Seq(Z) /\ stream \in Seq(Z) /\ rest \in Seq(Z)
      /\ body = [i \in 1..n |-> body[i]]
  BY <1>1 DEF FrameAhead, Carries
<1>3. /\ Len(F) = 4 + n /\ LengthIn(F) = n
      /\ \A i \in 1..n : F[4 + i] = body[i]
  BY <1>1 DEF Carries
<1>4. /\ Len(buffer) \in Nat /\ Len(buffer) >= 4 /\ Len(buffer) >= 4 + LengthIn(buffer)
  BY <1>2 DEF FrameReady
<1>5. \A i \in 1..4 : buffer[i] = F[i]
  <2> SUFFICES ASSUME NEW i \in 1..4 PROVE buffer[i] = F[i]
    OBVIOUS
  <2>1. i \in 1..Len(buffer) /\ i \in 1..Len(F)
    BY <1>2, <1>3, <1>4
  <2>2. (buffer \o stream)[i] = buffer[i]
    BY <1>2, <2>1, ConcatAt
  <2>3. (F \o rest)[i] = F[i]
    BY <1>2, <2>1, ConcatAt
  <2>4. QED
    BY <1>1, <2>2, <2>3
<1>6. LengthIn(buffer) = n
  BY <1>3, <1>5 DEF LengthIn
<1>7. Len(buffer) >= Len(F)
  BY <1>2, <1>3, <1>4, <1>6
<1>8. /\ \A i \in 1..Len(F) : buffer[i] = F[i]
      /\ SubSeq(buffer, Len(F) + 1, Len(buffer)) \in Seq(Z)
      /\ SubSeq(buffer, Len(F) + 1, Len(buffer)) \o stream = rest
  BY <1>1, <1>2, <1>7, SameAfter
<1>9. AfterFrame(buffer) = SubSeq(buffer, Len(F) + 1, Len(buffer))
  <2>1. Len(F) + 1 = 5 + n
    BY <1>2, <1>3
  <2>2. QED
    BY <1>6, <2>1 DEF AfterFrame
<1>10. BodyIn(buffer) = body
  <2>1. (IF 4 + n < Len(buffer) THEN 4 + n ELSE Len(buffer)) = 4 + n
    BY <1>2, <1>3, <1>4, <1>7
  <2>2. BodyIn(buffer) = SubSeq(buffer, 5, 4 + n)
    BY <1>6, <2>1 DEF BodyIn
  <2>3. ASSUME NEW i \in 1..n PROVE buffer[4 + i] = body[i]
    <3>1. 4 + i \in 1..Len(F)
      BY <1>2, <1>3
    <3>2. buffer[4 + i] = F[4 + i]
      BY <1>8, <3>1
    <3>3. QED
      BY <1>3, <3>2
  <2>4. SubSeq(buffer, 5, 4 + n) = [i \in 1..n |-> buffer[4 + i]]
    BY <1>2, <1>3, <1>4, <1>7
  <2>5. [i \in 1..n |-> buffer[4 + i]] = [i \in 1..n |-> body[i]]
    BY <2>3
  <2>6. QED
    BY <1>2, <2>2, <2>4, <2>5
<1>11. QED
  BY <1>8, <1>9, <1>10

(* Two bodies with one frame are one: the four bytes of memcpy hold the length
   (rpcclient.cpp:50-55, 217-222). *)
THEOREM FrameTells ==
  ASSUME NEW X, NEW b \in Seq(X), Len(b) <= 7, NEW c \in Seq(X), Len(c) <= 7,
         Frame(b) = Frame(c)
  PROVE  b = c
<1>1. /\ Len(Frame(b)) = 4 + Len(b) /\ \A i \in 1..Len(b) : Frame(b)[4 + i] = b[i]
      /\ Len(Frame(c)) = 4 + Len(c) /\ \A i \in 1..Len(c) : Frame(c)[4 + i] = c[i]
  BY FrameFacts
<1>2. Len(b) = Len(c)
  BY <1>1
<1>3. \A i \in 1..Len(b) : b[i] = c[i]
  BY <1>1, <1>2
<1>4. QED
  BY <1>2, <1>3

(* What "%s" prints of a frame ends in the length. *)
LEMMA FrameCut ==
  ASSUME NEW X, NEW body \in Seq(X), Len(body) <= 7
  PROVE  CString(Frame(body)) \in Seq(X \cup [digit : Nat]) /\ Len(CString(Frame(body))) <= 3
<1> DEFINE Y == X \cup [digit : Nat]
           s == Frame(body)
           zeros == {i \in DOMAIN s : s[i] = ZeroByte}
           first == CHOOSE i \in zeros : \A j \in zeros : i <= j
<1>1. s \in Seq(Y) /\ Len(s) = 4 + Len(body) /\ s[4] = ZeroByte /\ Len(body) \in Nat
  <2>1. s \in Seq(Y) /\ Len(s) = 4 + Len(body) /\ s[4] = ZeroByte
    BY FrameFacts
  <2>2. QED
    BY <2>1
<1> HIDE DEF s
<1>2. DOMAIN s = 1..Len(s) /\ 4 \in 1..Len(s)
  BY <1>1
<1>3. 4 \in zeros /\ zeros \subseteq 1..Len(s)
  BY <1>1, <1>2
<1>4. \E i \in zeros : \A j \in zeros : i <= j
  <2>1. 1 \in zeros \/ 2 \in zeros \/ 3 \in zeros \/ (1 \notin zeros /\ 2 \notin zeros /\ 3 \notin zeros)
    OBVIOUS
  <2> HIDE DEF zeros
  <2>2. \A j \in zeros : j \in Nat /\ j >= 1
    BY <1>1, <1>3
  <2>3. CASE 1 \in zeros
    BY <2>2, <2>3
  <2>4. CASE 1 \notin zeros /\ 2 \in zeros
    <3>1. \A j \in zeros : 2 <= j
      BY <2>2, <2>4
    <3>2. QED
      BY <2>4, <3>1
  <2>5. CASE 1 \notin zeros /\ 2 \notin zeros /\ 3 \in zeros
    <3>1. \A j \in zeros : 3 <= j
      BY <2>2, <2>5
    <3>2. QED
      BY <2>5, <3>1
  <2>6. CASE 1 \notin zeros /\ 2 \notin zeros /\ 3 \notin zeros
    <3>1. \A j \in zeros : 4 <= j
      BY <2>2, <2>6
    <3>2. QED
      BY <1>3, <3>1
  <2>7. QED
    BY <2>1, <2>3, <2>4, <2>5, <2>6
<1>5. first \in zeros /\ \A j \in zeros : first <= j
  BY <1>4
<1>6. CString(s) = SubSeq(s, 1, first - 1)
  BY <1>3 DEF CString
<1> HIDE DEF first, zeros
<1>7. first \in 1..Len(s) /\ first <= 4
  BY <1>3, <1>5
<1>8. SubSeq(s, 1, first - 1) \in Seq(Y) /\ Len(SubSeq(s, 1, first - 1)) = first - 1
  BY <1>1, <1>7
<1>9. QED
  BY <1>1, <1>6, <1>7, <1>8 DEF s

-----------------------------------------------------------------------------
(* Empty sequences, one after the other. *)
LEMMA FlattenEmpty ==
  ASSUME NEW L \in Nat, NEW s, s = [i \in 1..L |-> <<>>]
  PROVE  FlattenSeq(s) = <<>>
<1>1. Len(s) = L /\ s \in Seq({<<>>})
  OBVIOUS
<1>2. CASE L = 0
  <2>1. s = <<>>
    BY <1>2
  <2>2. QED
    BY <1>1, <1>2, <2>1 DEF FlattenSeq
<1>3. CASE L # 0
  <2> DEFINE Flattens(g) == g = [i \in 1..L |-> IF i = 1 THEN s[i] ELSE g[i - 1] \o s[i]]
             F == CHOOSE g : Flattens(g)
             h == [i \in 1..L |-> <<>>]
  <2>1. FlattenSeq(s) = F[L]
    BY <1>1, <1>3 DEF FlattenSeq
  <2>2. Flattens(h)
    <3>1. ASSUME NEW i \in 1..L PROVE h[i] = IF i = 1 THEN s[i] ELSE h[i - 1] \o s[i]
      <4>1. CASE i = 1
        BY <4>1
      <4>2. CASE i # 1
        <5>1. i - 1 \in 1..L /\ h[i - 1] = <<>> /\ s[i] = <<>> /\ h[i] = <<>>
          BY <4>2
        <5>2. <<>> \o <<>> = <<>>
          OBVIOUS
        <5> HIDE DEF h
        <5>3. QED
          BY <4>2, <5>1, <5>2
      <4>3. QED
        BY <4>1, <4>2
    <3>2. h = [i \in 1..L |-> h[i]]
      OBVIOUS
    <3> HIDE DEF h
    <3>3. QED
      BY <3>1, <3>2
  <2>3. \E g : Flattens(g)
    BY <2>2
  <2>4. Flattens(F)
    <3> HIDE DEF Flattens
    <3>1. QED
      BY <2>3
  <2> HIDE DEF F, h
  <2> DEFINE S == {n \in 0..L : n = 0 \/ F[n] = <<>>}
  <2>5. 0 \in S
    OBVIOUS
  <2>6. \A n \in 0..L : n \in S /\ n < L => n + 1 \in S
    <3> SUFFICES ASSUME NEW n \in 0..L, n \in S, n < L PROVE n + 1 \in S
      OBVIOUS
    <3>1. n + 1 \in 1..L /\ n + 1 - 1 = n
      OBVIOUS
    <3>2. F[n + 1] = IF n + 1 = 1 THEN s[n + 1] ELSE F[n] \o s[n + 1]
      BY <2>4, <3>1
    <3>3. s[n + 1] = <<>> /\ <<>> \o <<>> = <<>>
      BY <3>1
    <3>4. F[n + 1] = <<>>
      BY <3>2, <3>3
    <3>5. QED
      BY <3>1, <3>4
  <2> HIDE DEF S
  <2>7. \A n \in 0..L : n \in S
    BY <2>5, <2>6, UpToBound
  <2>8. L \in S
    BY <2>7
  <2>9. QED
    BY <1>3, <2>1, <2>8 DEF S
<1>4. QED
  BY <1>2, <1>3

(* The fields of LoginRequest and their tags. *)
LEMMA LoginRequestTable ==
  /\ Flat("LoginRequest")
  /\ DOMAIN Fields["LoginRequest"] = {"username", "pwd"}
  /\ Fields["LoginRequest"]["username"] = Number /\ Tags["LoginRequest"]["username"] = 8
  /\ Fields["LoginRequest"]["pwd"] = Bytes /\ Tags["LoginRequest"]["pwd"] = 18
<1>1. Fields["LoginRequest"] = LoginRequestFields
  BY DEF Fields
<1>2. Tags["LoginRequest"] = LoginRequestTags
  BY DEF Tags
<1>3. DOMAIN LoginRequestFields = {"username", "pwd"}
  BY DEF LoginRequestFields
<1>4. DOMAIN LoginRequestTags = {"username", "pwd"}
  BY DEF LoginRequestTags
<1>5. LoginRequestFields["username"] = Number /\ LoginRequestTags["username"] = 8
  BY DEF LoginRequestFields, LoginRequestTags
<1>6. LoginRequestFields["pwd"] = Bytes /\ LoginRequestTags["pwd"] = 18
  BY DEF LoginRequestFields, LoginRequestTags
<1>7. InOrder("LoginRequest")
  BY <1>1, <1>2, <1>3, <1>4, <1>5, <1>6 DEF InOrder
<1>8. Flat("LoginRequest")
  BY <1>7, <1>1, <1>2, <1>3, <1>4, <1>5, <1>6 DEF Flat
<1>9. QED
  BY <1>8, <1>1, <1>2, <1>3, <1>4, <1>5, <1>6

(* The fields of ResultCode and their tags. *)
LEMMA ResultCodeTable ==
  /\ Flat("ResultCode")
  /\ DOMAIN Fields["ResultCode"] = {"errcode", "errmsg"}
  /\ Fields["ResultCode"]["errcode"] = Number /\ Tags["ResultCode"]["errcode"] = 8
  /\ Fields["ResultCode"]["errmsg"] = Bytes /\ Tags["ResultCode"]["errmsg"] = 18
<1>1. Fields["ResultCode"] = ResultCodeFields
  BY DEF Fields
<1>2. Tags["ResultCode"] = ResultCodeTags
  BY DEF Tags
<1>3. DOMAIN ResultCodeFields = {"errcode", "errmsg"}
  BY DEF ResultCodeFields
<1>4. DOMAIN ResultCodeTags = {"errcode", "errmsg"}
  BY DEF ResultCodeTags
<1>5. ResultCodeFields["errcode"] = Number /\ ResultCodeTags["errcode"] = 8
  BY DEF ResultCodeFields, ResultCodeTags
<1>6. ResultCodeFields["errmsg"] = Bytes /\ ResultCodeTags["errmsg"] = 18
  BY DEF ResultCodeFields, ResultCodeTags
<1>7. InOrder("ResultCode")
  BY <1>1, <1>2, <1>3, <1>4, <1>5, <1>6 DEF InOrder
<1>8. Flat("ResultCode")
  BY <1>7, <1>1, <1>2, <1>3, <1>4, <1>5, <1>6 DEF Flat
<1>9. QED
  BY <1>8, <1>1, <1>2, <1>3, <1>4, <1>5, <1>6

(* The fields of SendMessageRequest and their tags. *)
LEMMA SendMessageRequestTable ==
  /\ InOrder("SendMessageRequest")
  /\ DOMAIN Fields["SendMessageRequest"] = {"userid", "msg"}
  /\ Fields["SendMessageRequest"]["userid"] = Number /\ Tags["SendMessageRequest"]["userid"] = 8
  /\ Fields["SendMessageRequest"]["msg"] = One("GroupMessage") /\ Tags["SendMessageRequest"]["msg"] = 26
<1>1. Fields["SendMessageRequest"] = SendMessageRequestFields
  BY DEF Fields
<1>2. Tags["SendMessageRequest"] = SendMessageRequestTags
  BY DEF Tags
<1>3. DOMAIN SendMessageRequestFields = {"userid", "msg"}
  BY DEF SendMessageRequestFields
<1>4. DOMAIN SendMessageRequestTags = {"userid", "msg"}
  BY DEF SendMessageRequestTags
<1>5. SendMessageRequestFields["userid"] = Number /\ SendMessageRequestTags["userid"] = 8
  BY DEF SendMessageRequestFields, SendMessageRequestTags
<1>6. SendMessageRequestFields["msg"] = One("GroupMessage") /\ SendMessageRequestTags["msg"] = 26
  BY DEF SendMessageRequestFields, SendMessageRequestTags
<1>7. InOrder("SendMessageRequest")
  BY <1>1, <1>2, <1>3, <1>4, <1>5, <1>6 DEF InOrder
<1>9. QED
  BY <1>7, <1>1, <1>2, <1>3, <1>4, <1>5, <1>6

(* The wire of a request with one submessage is a sequence of items. *)
LEMMA SendMessageWire ==
  ASSUME NEW x
  PROVE  \E A : Serialize("SendMessageRequest", New("SendMessageRequest", [msg |-> <<x>>])) \in Seq(A)
<1> DEFINE m == New("SendMessageRequest", [msg |-> <<x>>])
           w == Serialize("SendMessageRequest", m)
           y == [tag |-> 26, items |-> SerializeFlat("GroupMessage", x)]
           D(k) == WrittenDeep("SendMessageRequest", m, k)
<1>1. /\ InOrder("SendMessageRequest")
      /\ DOMAIN Fields["SendMessageRequest"] = {"userid", "msg"}
      /\ Fields["SendMessageRequest"]["userid"] = Number
      /\ Fields["SendMessageRequest"]["msg"] = One("GroupMessage")
      /\ Tags["SendMessageRequest"]["userid"] = 8
      /\ Tags["SendMessageRequest"]["msg"] = 26
  BY SendMessageRequestTable
<1>2. Whole("SendMessageRequest", m) /\ m["userid"] = 0 /\ m["msg"] = <<x>>
  <2> DEFINE u == [msg |-> <<x>>]
  <2>1. DOMAIN u = {"msg"} /\ "unknown" \notin DOMAIN u /\ u["msg"] = <<x>>
    OBVIOUS
  <2> HIDE DEF u
  <2>2. /\ Whole("SendMessageRequest", New("SendMessageRequest", u))
        /\ New("SendMessageRequest", u)["msg"] = u["msg"]
        /\ New("SendMessageRequest", u)["userid"] = Zero(Number)
    BY <1>1, <2>1, NewFacts
  <2>3. QED
    BY <2>1, <2>2, Kinds DEF u
<1> HIDE DEF m
<1>3. /\ FieldsNumbered("SendMessageRequest", 1) = {"userid"}
      /\ FieldsNumbered("SendMessageRequest", 3) = {"msg"}
      /\ \A k \in {2, 4, 5, 6, 7} : FieldsNumbered("SendMessageRequest", k) = {}
  <2>1. DOMAIN Tags["SendMessageRequest"] = {"userid", "msg"}
    BY <1>1 DEF InOrder
  <2>2. QED
    BY <1>1, <2>1 DEF FieldsNumbered
<1>4. w = D(1) \o D(2) \o D(3) \o D(4) \o D(5) \o D(6) \o D(7) \o <<>>
  BY <1>2, SerializeIs DEF Whole
<1>5. D(1) = <<>>
  <2>1. D(1) = ItemsOf(Number, 8, 0)
    BY <1>1, <1>2, <1>3, WrittenField
  <2>2. QED
    BY <2>1, Kinds, FlatKinds
<1>6. D(3) = ItemsOf(One("GroupMessage"), 26, <<x>>)
  BY <1>1, <1>2, <1>3, WrittenField
<1>7. ItemsOf(One("GroupMessage"), 26, <<x>>) = <<y>>
  <2>1. ItemsOf(One("GroupMessage"), 26, <<x>>)
          = [i \in DOMAIN <<x>> |-> [tag |-> 26, items |-> SerializeFlat("GroupMessage", <<x>>[i])]]
    BY DEF ItemsOf, One
  <2>2. DOMAIN <<x>> = 1..1 /\ \A i \in 1..1 : <<x>>[i] = x
    OBVIOUS
  <2>3. [i \in DOMAIN <<x>> |-> [tag |-> 26, items |-> SerializeFlat("GroupMessage", <<x>>[i])]]
          = [i \in 1..1 |-> y]
    BY <2>2
  <2> HIDE DEF y
  <2>4. [i \in 1..1 |-> y] = <<y>>
    OBVIOUS
  <2>5. QED
    BY <2>1, <2>3, <2>4
<1>8. \A k \in {2, 4, 5, 6, 7} : D(k) = <<>>
  BY <1>3, WrittenField
<1>9. D(2) = <<>> /\ D(4) = <<>> /\ D(5) = <<>> /\ D(6) = <<>> /\ D(7) = <<>> /\ D(3) = <<y>>
  BY <1>6, <1>7, <1>8
<1> HIDE DEF D, y, w
<1>10. w = <<y>>
  <2>1. <<y>> \in Seq({y})
    OBVIOUS
  <2>2. w = D(3)
    <3>1. D(3) \in Seq({y})
      BY <1>9, <2>1
    <3>2. QED
      BY <1>4, <1>5, <1>9, <3>1
  <2>3. QED
    BY <1>9, <2>2
<1>11. w \in Seq({y})
  BY <1>10
<1>12. QED
  BY <1>11 DEF w, m

=============================================================================
