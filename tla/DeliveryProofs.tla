----------------------------- MODULE DeliveryProofs -----------------------------
(***************************************************************************)
(* What the promise of Delivery entails: a chat message ends up in one     *)
(* place at most, and only with its addressee.                             *)
(***************************************************************************)
EXTENDS Delivery, TLAPS

(* AtMostOnce is inductive with the types and this. *)
DIInv == DTypeOK /\ pending \subseteq sent /\ AtMostOnce

LEMMA DInitIInv == DInit => DIInv
  BY DEF DInit, DIInv, DTypeOK, AtMostOnce, Rows

LEMMA SendStep ==
  ASSUME DIInv, NEW n \in Msgs, Send(n)  PROVE  DIInv'
<1> USE DEF DIInv
<1>1. DTypeOK' /\ (pending \subseteq sent)'
  BY DEF Send, DTypeOK
<1>2. AtMostOnce'
  BY DEF Send, AtMostOnce, Rows
<1>3. QED
  BY <1>1, <1>2

LEMMA LoseStep ==
  ASSUME DIInv, NEW S \in SUBSET pending, Lose(S)  PROVE  DIInv'
<1> USE DEF DIInv
<1>1. DTypeOK' /\ (pending \subseteq sent)'
  BY DEF Lose, DTypeOK
<1>2. AtMostOnce'
  BY DEF Lose, AtMostOnce, Rows
<1>3. QED
  BY <1>1, <1>2

(* A new row holds a message that was nowhere. *)
LEMMA StoreStep ==
  ASSUME DIInv, NEW n \in Msgs, Store(n)  PROVE  DIInv'
<1> USE DEF DIInv
<1>1. DTypeOK' /\ (pending \subseteq sent)'
  BY DEF Store, DTypeOK
<1>2. /\ DOMAIN offline = 1..Len(offline) /\ Len(offline) \in Nat
      /\ DOMAIN offline' = 1..(Len(offline) + 1)
      /\ offline'[Len(offline) + 1] = n
      /\ \A i \in DOMAIN offline : offline'[i] = offline[i]
  BY DEF Store, DTypeOK
<1>3. Rows(n) = {} /\ \A c \in Conns : \A i \in DOMAIN received[c] : received[c][i] # n
  BY DEF Store, AtMostOnce
<1>4. Rows(n)' = {Len(offline) + 1}
  BY <1>2, <1>3 DEF Rows
<1>5. \A m \in Msgs \ {n} : Rows(m)' = Rows(m)
  BY <1>2 DEF Rows
<1>6. n \in sent
  BY DEF Store
<1>7. AtMostOnce'
  <2> SUFFICES ASSUME NEW m \in Msgs
               PROVE
     /\ \A c, d \in Conns : \A i \in DOMAIN received[c], j \in DOMAIN received[d] :
           received[c][i] = m /\ received[d][j] = m => c = d /\ i = j
     /\ \A i, j \in Rows(m)' : i = j
     /\ \A c \in Conns : \A i \in DOMAIN received[c] :
           received[c][i] = m => Rows(m)' = {} /\ m \notin pending' /\ m \in sent
     /\ Rows(m)' # {} => m \notin pending' /\ m \in sent
    BY DEF AtMostOnce, Store
  <2>1. CASE m = n
    BY <1>3, <1>4, <1>6, <2>1 DEF AtMostOnce, Store
  <2>2. CASE m # n
    BY <1>5, <2>2 DEF AtMostOnce, Store
  <2>3. QED
    BY <2>1, <2>2
<1>8. QED
  BY <1>1, <1>7

(* A message that is handed over was nowhere. *)
LEMMA DeliverStep ==
  ASSUME DIInv, NEW n \in Msgs, NEW r \in Conns, Deliver(n, r)  PROVE  DIInv'
<1> USE DEF DIInv
<1>1. DTypeOK' /\ (pending \subseteq sent)'
  BY DEF Deliver, DTypeOK
<1>2. /\ DOMAIN received[r] = 1..Len(received[r]) /\ Len(received[r]) \in Nat
      /\ DOMAIN received'[r] = 1..(Len(received[r]) + 1)
      /\ received'[r][Len(received[r]) + 1] = n
      /\ \A i \in DOMAIN received[r] : received'[r][i] = received[r][i]
      /\ \A c \in Conns \ {r} : received'[c] = received[c]
  BY DEF Deliver, DTypeOK
<1>3. Rows(n) = {} /\ \A c \in Conns : \A i \in DOMAIN received[c] : received[c][i] # n
  BY DEF Deliver, AtMostOnce
<1>4. \A m \in Msgs : Rows(m)' = Rows(m)
  BY DEF Deliver, Rows
<1>5. \A c \in Conns : \A i \in DOMAIN received'[c] :
         \/ received'[c][i] = n /\ c = r /\ i = Len(received[r]) + 1
         \/ i \in DOMAIN received[c] /\ received'[c][i] = received[c][i]
                                     /\ received'[c][i] # n
  BY <1>2, <1>3
<1>6. n \in sent
  BY DEF Deliver
<1>7. AtMostOnce'
  <2> SUFFICES ASSUME NEW m \in Msgs
               PROVE
     /\ \A c, d \in Conns : \A i \in DOMAIN received'[c], j \in DOMAIN received'[d] :
           received'[c][i] = m /\ received'[d][j] = m => c = d /\ i = j
     /\ \A i, j \in Rows(m) : i = j
     /\ \A c \in Conns : \A i \in DOMAIN received'[c] :
           received'[c][i] = m => Rows(m) = {} /\ m \notin pending' /\ m \in sent
     /\ Rows(m) # {} => m \notin pending' /\ m \in sent
    BY <1>4 DEF AtMostOnce, Deliver
  <2>1. CASE m = n
    BY <1>3, <1>5, <1>6, <2>1 DEF Deliver
  <2>2. CASE m # n
    BY <1>5, <2>2 DEF AtMostOnce, Deliver
  <2>3. QED
    BY <2>1, <2>2
<1>8. QED
  BY <1>1, <1>7

LEMMA DNextIInv == DIInv /\ [DNext]_dvars => DIInv'
<1>1. CASE UNCHANGED dvars
  BY <1>1 DEF dvars, DIInv, DTypeOK, AtMostOnce, Rows
<1>2. CASE DNext
  BY <1>2, SendStep, LoseStep, StoreStep, DeliverStep DEF DNext
<1>3. QED
  BY <1>1, <1>2

(* No message is handed over twice, stored twice, or both handed over and
   stored (chatserver.cc:21-43, 52-63), in any system that keeps the promise. *)
THEOREM OncePromised == DSafety => []AtMostOnce
<1>1. DIInv => AtMostOnce
  BY DEF DIInv
<1>2. QED
  BY <1>1, DInitIInv, DNextIInv, PTL DEF DSafety

(* Nobody is handed a message for somebody else (chatserver.cc:52-63). *)
THEOREM RightlyPromised == DSafety => []RightRecipient
<1> DEFINE Inv == DTypeOK /\ RightRecipient
<1>1. DInit => Inv
  BY DEF DInit, DTypeOK, RightRecipient
<1>2. Inv /\ [DNext]_dvars => Inv'
  <2> SUFFICES ASSUME Inv, [DNext]_dvars PROVE Inv'
    OBVIOUS
  <2>1. ASSUME UNCHANGED <<sent, received>>,
               pending' \subseteq pending, offline' \in Seq(Msgs)
        PROVE  Inv'
    BY <2>1 DEF DTypeOK, RightRecipient
  <2>2. ASSUME NEW m \in Msgs, Send(m) PROVE Inv'
    BY <2>2 DEF Send, DTypeOK, RightRecipient
  <2>3. ASSUME NEW m \in Msgs, NEW r \in Conns, Deliver(m, r) PROVE Inv'
    <3>1. /\ received' \in [Conns -> Seq(Msgs)] /\ UserOf[r] = Addressee[m]
          /\ DOMAIN received[r] = 1..Len(received[r]) /\ Len(received[r]) \in Nat
          /\ DOMAIN received'[r] = 1..(Len(received[r]) + 1)
          /\ received'[r][Len(received[r]) + 1] = m
          /\ \A i \in DOMAIN received[r] : received'[r][i] = received[r][i]
          /\ \A c \in Conns \ {r} : received'[c] = received[c]
      BY <2>3 DEF Deliver, DTypeOK
    <3>2. \A i \in DOMAIN received'[r] : i \in DOMAIN received[r] \/ i = Len(received[r]) + 1
      BY <3>1
    <3>3. \A i \in DOMAIN received'[r] : Addressee[received'[r][i]] = UserOf[r]
      BY <3>1, <3>2 DEF RightRecipient
    <3>4. RightRecipient'
      BY <3>1, <3>3 DEF RightRecipient
    <3>5. QED
      BY <2>3, <3>1, <3>4 DEF Deliver, DTypeOK
  <2>4. ASSUME NEW m \in Msgs, Store(m) PROVE Inv'
    BY <2>4, <2>1 DEF Store, DTypeOK
  <2>5. ASSUME NEW S \in SUBSET pending, Lose(S) PROVE Inv'
    BY <2>5, <2>1 DEF Lose, DTypeOK
  <2>6. CASE UNCHANGED dvars
    BY <2>6, <2>1 DEF dvars, DTypeOK
  <2>7. QED
    BY <2>2, <2>3, <2>4, <2>5, <2>6 DEF DNext
<1>3. Inv => RightRecipient
  OBVIOUS
<1>4. QED
  BY <1>1, <1>2, <1>3, PTL DEF DSafety

=============================================================================
