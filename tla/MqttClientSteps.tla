--------------------------- MODULE MqttClientSteps ---------------------------
(***************************************************************************)
(* What the operators on the outbox return for every outbox, and from that *)
(* the types of MqttClient for any sets of identifiers and callers and any *)
(* bounds.  The facts about a walk over the list are by induction on its   *)
(* length, which rests on the well-foundedness of < on the naturals.       *)
(* Then the steps of MqttClient by what they do to the set of items in the *)
(* outbox, of packets on their way to the broker and of its answers: the   *)
(* invariants of MqttClientProofs speak of these sets, and what the        *)
(* operators do to positions is dealt with here, once.                     *)
(***************************************************************************)
EXTENDS MqttClient, FiniteSetTheorems, SequenceTheorems, WellFoundedInduction, TLAPS

-----------------------------------------------------------------------------
(***************************************************************************)
(* Induction, in the first-order form the provers can use.                 *)
(***************************************************************************)

\* A set of naturals that is not empty has a least element.
LEMMA LeastNatural ==
    ASSUME NEW S \in SUBSET Nat, S # {}
    PROVE  \E n \in S : \A m \in S : n <= m
<1>1. IsWellFoundedOn(OpToRel(<, Nat), Nat)
  BY NatLessThanWellFounded, Zenon
<1>2. PICK n \in S : \A m \in S : ~(<<m, n>> \in OpToRel(<, Nat))
  BY <1>1, WFMin, Zenon
<1>3. \A m \in S : ~(m < n)
  BY <1>2 DEF OpToRel
<1>4. QED  BY <1>3

\* A set that holds 0 and the successor of each of its naturals holds them all.
LEMMA SetInduction ==
    ASSUME NEW S, 0 \in S, \A n \in Nat : n \in S => n + 1 \in S
    PROVE  Nat \subseteq S
<1> SUFFICES ASSUME Nat \ S # {} PROVE FALSE
  OBVIOUS
<1>1. PICK n \in Nat \ S : \A m \in Nat \ S : n <= m
  BY LeastNatural
<1>2. n # 0 /\ n - 1 \in Nat /\ n - 1 \in S
  BY <1>1
<1>3. QED  BY <1>1, <1>2

-----------------------------------------------------------------------------
(***************************************************************************)
(* Positions: what SelectInSeq finds.                                      *)
(***************************************************************************)

\* The least element of a set of positions
LEMMA MinProperty ==
    ASSUME NEW S \in SUBSET Nat, S # {}
    PROVE  Min(S) \in S /\ \A m \in S : Min(S) <= m
BY LeastNatural DEF Min

\* outbox_dequeue returns 0, and then no item is in the state, or the position
\* of an item that is.
LEMMA DequeueProperty ==
    ASSUME NEW pending, outbox \in Seq(Item)
    PROVE  \/ Dequeue(pending) = 0 /\ \A k \in DOMAIN outbox : outbox[k].pending # pending
           \/ Dequeue(pending) \in DOMAIN outbox /\ outbox[Dequeue(pending)].pending = pending
<1> DEFINE S == {i \in 1 .. Len(outbox) : outbox[i].pending = pending}
<1>1. Dequeue(pending) = IF S # {} THEN Min(S) ELSE 0
  BY DEF Dequeue, SelectInSeq
<1>2. S \in SUBSET Nat /\ DOMAIN outbox = 1 .. Len(outbox)
  OBVIOUS
<1>3. CASE S = {}
  BY <1>1, <1>2, <1>3
<1>4. CASE S # {}
  <2>1. Min(S) \in S
    BY <1>2, <1>4, MinProperty
  <2> HIDE DEF S
  <2>2. Dequeue(pending) \in S
    BY <1>1, <1>4, <2>1
  <2>3. QED  BY <2>2, <1>2 DEF S
<1>5. QED  BY <1>3, <1>4

\* outbox_get likewise
LEMMA GetProperty ==
    ASSUME NEW box \in Seq(Item), NEW id
    PROVE  \/ Get(box, id) = 0 /\ \A k \in DOMAIN box : box[k].id # id
           \/ Get(box, id) \in DOMAIN box /\ box[Get(box, id)].id = id
<1> DEFINE S == {i \in 1 .. Len(box) : box[i].id = id}
<1>1. Get(box, id) = IF S # {} THEN Min(S) ELSE 0
  BY DEF Get, SelectInSeq
<1>2. S \in SUBSET Nat /\ DOMAIN box = 1 .. Len(box)
  OBVIOUS
<1>3. CASE S = {}
  BY <1>1, <1>2, <1>3
<1>4. CASE S # {}
  <2>1. Min(S) \in S
    BY <1>2, <1>4, MinProperty
  <2> HIDE DEF S
  <2>2. Get(box, id) \in S
    BY <1>1, <1>4, <2>1
  <2>3. QED  BY <2>2, <1>2 DEF S
<1>5. QED  BY <1>3, <1>4

-----------------------------------------------------------------------------
(***************************************************************************)
(* What an operator leaves of an outbox.                                   *)
(***************************************************************************)

\* new is what is left of old: some of its items, each once, in any positions
Kept(new, old) ==
    /\ new \in Seq(Item) /\ Len(new) <= Len(old)
    /\ \E f \in [DOMAIN new -> DOMAIN old] :
          /\ \A j, k \in DOMAIN new : f[j] = f[k] => j = k
          /\ \A k \in DOMAIN new : new[k] = old[f[k]]

\* The item at k is gone, and the others are there.
LEMMA RemoveAtProperty ==
    ASSUME NEW box \in Seq(Item), NEW k \in DOMAIN box
    PROVE  /\ Kept(RemoveAt(box, k), box)
           /\ Len(RemoveAt(box, k)) = Len(box) - 1
           /\ \A j \in DOMAIN box : j # k => \E i \in DOMAIN RemoveAt(box, k) :
                                                RemoveAt(box, k)[i] = box[j]
           /\ \A i \in DOMAIN RemoveAt(box, k) : \E j \in DOMAIN box :
                                                j # k /\ RemoveAt(box, k)[i] = box[j]
<1> DEFINE left == SubSeq(box, 1, k - 1)
           right == SubSeq(box, k + 1, Len(box))
           new == RemoveAt(box, k)
<1>1. Len(box) \in Nat /\ k \in 1 .. Len(box) /\ DOMAIN box = 1 .. Len(box)
  OBVIOUS
<1>2. /\ left \in Seq(Item) /\ Len(left) = k - 1
      /\ \A i \in 1 .. k - 1 : left[i] = box[i]
  BY <1>1, SubSeqProperties
<1>3. /\ right \in Seq(Item) /\ Len(right) = Len(box) - k
      /\ \A i \in 1 .. Len(box) - k : right[i] = box[k + i]
  <2>1. k + 1 \in 1 .. Len(box) + 1 /\ Len(box) \in k + 1 - 1 .. Len(box)
    BY <1>1
  <2>2. QED  BY <1>1, <2>1, SubSeqProperties, SMTT(40)
<1> HIDE DEF left, right
<1>4. new = left \o right
  BY DEF RemoveAt, left, right
<1>5. /\ new \in Seq(Item) /\ Len(new) = Len(box) - 1
      /\ \A i \in 1 .. Len(box) - 1 : new[i] = IF i < k THEN box[i] ELSE box[i + 1]
  <2>1. /\ new \in Seq(Item) /\ Len(new) = Len(left) + Len(right)
        /\ \A i \in 1 .. Len(left) + Len(right) :
              new[i] = IF i <= Len(left) THEN left[i] ELSE right[i - Len(left)]
    BY <1>2, <1>3, <1>4, ConcatProperties, SMTT(40)
  <2> HIDE DEF new
  <2>2. Len(new) = Len(box) - 1
    BY <1>1, <1>2, <1>3, <2>1
  <2>3. ASSUME NEW i \in 1 .. Len(box) - 1
        PROVE  new[i] = IF i < k THEN box[i] ELSE box[i + 1]
    <3>1. new[i] = IF i <= k - 1 THEN left[i] ELSE right[i - (k - 1)]
      BY <1>1, <1>2, <1>3, <2>1, SMTT(40)
    <3>2. CASE i < k
      BY <1>1, <1>2, <3>1, <3>2
    <3>3. CASE i >= k
      <4>1. i - (k - 1) \in 1 .. Len(box) - k /\ k + (i - (k - 1)) = i + 1
        BY <1>1, <3>3
      <4> DEFINE m == i - (k - 1)
      <4>2. right[m] = box[k + m]
        BY <1>3, <4>1
      <4>3. right[m] = box[i + 1] /\ ~(i <= k - 1) /\ ~(i < k)
        BY <1>1, <3>3, <4>1, <4>2
      <4>4. QED  BY <3>1, <4>3
    <3>4. QED  BY <1>1, <3>2, <3>3
  <2>4. QED  BY <2>1, <2>2, <2>3
<1> HIDE DEF new
<1>6. DOMAIN new = 1 .. Len(box) - 1
  BY <1>5
<1> DEFINE f == [i \in DOMAIN new |-> IF i < k THEN i ELSE i + 1]
<1>7. f \in [DOMAIN new -> DOMAIN box]
  BY <1>1, <1>6
<1>8. \A i \in DOMAIN new : new[i] = box[f[i]] /\ f[i] # k
  BY <1>1, <1>5, <1>6
<1>9. \A i, j \in DOMAIN new : f[i] = f[j] => i = j
  BY <1>1, <1>6
<1> HIDE DEF f
<1>10. Kept(new, box)
  BY <1>1, <1>5, <1>7, <1>8, <1>9 DEF Kept
<1>11. ASSUME NEW j \in DOMAIN box, j # k
       PROVE  \E i \in DOMAIN new : new[i] = box[j]
  <2>1. CASE j < k
    <3>1. j \in DOMAIN new /\ new[j] = box[j]
      BY <1>1, <1>5, <1>6, <2>1
    <3>2. QED  BY <3>1
  <2>2. CASE j > k
    <3>1. j - 1 \in DOMAIN new /\ new[j - 1] = box[j]
      BY <1>1, <1>5, <1>6, <2>2
    <3>2. QED  BY <3>1
  <2>3. QED  BY <1>1, <1>11, <2>1, <2>2
<1>12. \A i \in DOMAIN new : \E j \in DOMAIN box : j # k /\ new[i] = box[j]
  BY <1>7, <1>8
<1>13. QED  BY <1>5, <1>10, <1>11, <1>12 DEF new

\* outbox_delete takes at most the one item it is asked for, if no other has
\* its id.
LEMMA DeleteProperty ==
    ASSUME outbox \in Seq(Item), NEW id, NEW type
    PROVE  \/ /\ Delete(id, type) = outbox
              /\ \A k \in DOMAIN outbox : ~(outbox[k].id = id /\ outbox[k].type = type)
           \/ \E k \in DOMAIN outbox : /\ outbox[k].id = id /\ outbox[k].type = type
                                       /\ Delete(id, type) = RemoveAt(outbox, k)
<1> DEFINE S == {i \in 1 .. Len(outbox) : outbox[i].id = id /\ outbox[i].type = type}
<1>1. Delete(id, type) = IF \E i \in 1 .. Len(outbox) : outbox[i].id = id /\ outbox[i].type = type
                         THEN RemoveAt(outbox, IF S # {} THEN Min(S) ELSE 0) ELSE outbox
  BY DEF Delete, RemoveFirstMatch, SelectInSeq
<1>2. S \in SUBSET Nat /\ DOMAIN outbox = 1 .. Len(outbox)
  OBVIOUS
<1>3. CASE S = {}
  BY <1>1, <1>2, <1>3
<1>4. CASE S # {}
  <2>1. Min(S) \in S
    BY <1>2, <1>4, MinProperty
  <2>2. Delete(id, type) = RemoveAt(outbox, Min(S))
    BY <1>1, <1>4
  <2>3. QED  BY <1>2, <2>1, <2>2
<1>5. QED  BY <1>3, <1>4

\* The walk of outbox_delete_message_type is well defined.
LEMMA WalkExists ==
    ASSUME NEW box \in Seq(Item), NEW types
    PROVE  \E f \in [0 .. Len(box) -> Seq(Item)] :
              f = [n \in 0 .. Len(box) |->
                      IF n = 0 THEN << >>
                      ELSE IF box[n].type \in types THEN f[n - 1] ELSE Append(f[n - 1], box[n])]
<1> DEFINE Step(f, n) == IF n = 0 THEN << >>
                         ELSE IF box[n].type \in types THEN f[n - 1] ELSE Append(f[n - 1], box[n])
           Walk(f, m) == \A n \in 0 .. m : f[n] = Step(f, n)
           S == {m \in Nat : m <= Len(box) => \E f \in [0 .. m -> Seq(Item)] : Walk(f, m)}
<1> HIDE DEF Step, Walk
<1>1. Len(box) \in Nat /\ \A n \in 1 .. Len(box) : box[n] \in Item
  OBVIOUS
<1>2. 0 \in S
  <2> DEFINE f == [n \in 0 .. 0 |-> << >>]
  <2>1. f \in [0 .. 0 -> Seq(Item)] /\ Walk(f, 0)
    BY DEF Step, Walk
  <2> HIDE DEF f
  <2>2. QED  BY <2>1
<1>3. ASSUME NEW m \in Nat, m \in S PROVE m + 1 \in S
  <2> SUFFICES ASSUME m + 1 <= Len(box)
               PROVE  \E f \in [0 .. m + 1 -> Seq(Item)] : Walk(f, m + 1)
    OBVIOUS
  <2>1. PICK f \in [0 .. m -> Seq(Item)] : Walk(f, m)
    BY <1>1, <1>3
  <2>2. box[m + 1] \in Item /\ f[m] \in Seq(Item)
    BY <1>1, <2>1
  <2> DEFINE next == IF box[m + 1].type \in types THEN f[m] ELSE Append(f[m], box[m + 1])
             g == [n \in 0 .. m + 1 |-> IF n <= m THEN f[n] ELSE next]
  <2>3. next \in Seq(Item)
    BY <2>2
  <2> HIDE DEF next
  <2>4. g \in [0 .. m + 1 -> Seq(Item)]
    BY <2>1, <2>3
  <2>5. ASSUME NEW n \in 0 .. m + 1 PROVE g[n] = Step(g, n)
    <3>1. CASE n <= m
      <4>1. g[n] = f[n] /\ (n # 0 => g[n - 1] = f[n - 1])
        BY <3>1
      <4>2. f[n] = Step(f, n)
        BY <2>1, <3>1 DEF Walk
      <4> HIDE DEF g
      <4>3. QED  BY <4>1, <4>2 DEF Step
    <3>2. CASE n = m + 1
      <4>1. g[n] = next /\ g[n - 1] = f[m] /\ n # 0 /\ n - 1 = m
        BY <3>2
      <4> HIDE DEF g
      <4>2. QED  BY <4>1, <3>2 DEF next, Step
    <3>3. QED  BY <3>1, <3>2
  <2> HIDE DEF g
  <2>6. Walk(g, m + 1)
    BY <2>5 DEF Walk
  <2>7. QED  BY <2>4, <2>6
<1>4. Nat \subseteq S
  <2> HIDE DEF S
  <2>1. QED  BY <1>2, <1>3, SetInduction
<1>5. PICK f \in [0 .. Len(box) -> Seq(Item)] : Walk(f, Len(box))
  BY <1>1, <1>4
<1>6. f = [n \in 0 .. Len(box) |-> Step(f, n)]
  BY <1>5 DEF Walk
<1>7. QED  BY <1>6 DEF Step

\* and its result is what is left of the last item.
LEMMA WalkResult ==
    ASSUME NEW box \in Seq(Item), NEW types
    PROVE  \E f \in [0 .. Len(box) -> Seq(Item)] :
              /\ f[0] = << >>
              /\ \A n \in 1 .. Len(box) :
                    f[n] = IF box[n].type \in types THEN f[n - 1] ELSE Append(f[n - 1], box[n])
              /\ DeleteTypes(box, types) = f[Len(box)]
<1> DEFINE Of(f) == [n \in 0 .. Len(box) |->
                        IF n = 0 THEN << >>
                        ELSE IF box[n].type \in types THEN f[n - 1] ELSE Append(f[n - 1], box[n])]
           kept == CHOOSE f : f = Of(f)
<1>1. DeleteTypes(box, types) = kept[Len(box)]
  BY DEF DeleteTypes
<1>2. PICK f \in [0 .. Len(box) -> Seq(Item)] : f = Of(f)
  BY WalkExists
<1> HIDE DEF Of
<1>3. kept = Of(kept)
  BY <1>2
<1> HIDE DEF kept
<1> DEFINE Body(n) == IF n = 0 THEN << >>
                      ELSE IF box[n].type \in types THEN kept[n - 1] ELSE Append(kept[n - 1], box[n])
<1>3b. /\ \A n \in 0 .. Len(box) : kept[n] = Body(n)
       /\ kept = [n \in 0 .. Len(box) |-> kept[n]]
  <2>1. kept = [n \in 0 .. Len(box) |-> Body(n)]
    BY <1>3 DEF Of
  <2> HIDE DEF Body
  <2>2. \A n \in 0 .. Len(box) : kept[n] = Body(n)
    BY <2>1, Zenon
  <2>3. kept = [n \in 0 .. Len(box) |-> kept[n]]
    BY <2>1, <2>2, Zenon
  <2>4. QED  BY <2>2, <2>3, Zenon
<1>4. /\ kept[0] = << >>
      /\ \A n \in 1 .. Len(box) :
            kept[n] = IF box[n].type \in types THEN kept[n - 1] ELSE Append(kept[n - 1], box[n])
  <2> HIDE DEF Body
  <2>1. kept[0] = << >>
    BY <1>3b DEF Body
  <2>2. ASSUME NEW n \in 1 .. Len(box)
        PROVE  kept[n] = IF box[n].type \in types THEN kept[n - 1] ELSE Append(kept[n - 1], box[n])
    <3>1. n \in 0 .. Len(box) /\ n # 0
      OBVIOUS
    <3>2. QED  BY <1>3b, <3>1, Zenon DEF Body
  <2>3. QED  BY <2>1, <2>2, Zenon
<1> HIDE DEF Body
<1> DEFINE S == {n \in Nat : n <= Len(box) => kept[n] \in Seq(Item)}
<1>5. 0 \in S
  <2>1. kept[0] \in Seq(Item)
    BY <1>4
  <2>2. QED  BY <2>1
<1>6. ASSUME NEW n \in Nat, n \in S PROVE n + 1 \in S
  <2> SUFFICES ASSUME n + 1 <= Len(box) PROVE kept[n + 1] \in Seq(Item)
    OBVIOUS
  <2>1. kept[n] \in Seq(Item) /\ n + 1 \in 1 .. Len(box) /\ n + 1 - 1 = n /\ box[n + 1] \in Item
    BY <1>6
  <2>2. kept[n + 1] = kept[n] \/ kept[n + 1] = Append(kept[n], box[n + 1])
    <3>1. n + 1 \in 0 .. Len(box)
      BY <2>1
    <3>2. kept[n + 1] = Body(n + 1)
      BY <1>3b, <3>1, Zenon
    <3>3. Body(n + 1) = kept[n] \/ Body(n + 1) = Append(kept[n], box[n + 1])
      BY <2>1 DEF Body
    <3>4. QED  BY <3>2, <3>3, Zenon
  <2>3. CASE kept[n + 1] = kept[n]
    BY <2>1, <2>3, Zenon
  <2>4. CASE kept[n + 1] = Append(kept[n], box[n + 1])
    <3>1. Append(kept[n], box[n + 1]) \in Seq(Item)
      BY <2>1
    <3>2. QED  BY <2>4, <3>1, Zenon
  <2>5. QED  BY <2>2, <2>3, <2>4
<1>7. Nat \subseteq S
  <2> HIDE DEF S
  <2>1. QED  BY <1>5, <1>6, SetInduction
<1>8. \A n \in 0 .. Len(box) : kept[n] \in Seq(Item)
  BY <1>7
<1>9. kept \in [0 .. Len(box) -> Seq(Item)]
  BY <1>3b, <1>8
<1>10. QED  BY <1>1, <1>4, <1>9

\* outbox_delete_message_type keeps exactly the items of the other types.
LEMMA DeleteTypesProperty ==
    ASSUME NEW box \in Seq(Item), NEW types
    PROVE  LET new == DeleteTypes(box, types)
           IN  /\ Kept(new, box)
               /\ \A k \in DOMAIN new : new[k].type \notin types
               /\ \A j \in DOMAIN box : box[j].type \notin types =>
                                           \E k \in DOMAIN new : new[k] = box[j]
<1> DEFINE new == DeleteTypes(box, types)
<1>1. PICK f \in [0 .. Len(box) -> Seq(Item)] :
              /\ f[0] = << >>
              /\ \A n \in 1 .. Len(box) :
                    f[n] = IF box[n].type \in types THEN f[n - 1] ELSE Append(f[n - 1], box[n])
              /\ new = f[Len(box)]
  BY WalkResult
<1> DEFINE Maps(g, n) == /\ g \in [DOMAIN f[n] -> 1 .. n]
                         /\ \A j, k \in DOMAIN f[n] : g[j] = g[k] => j = k
                         /\ \A k \in DOMAIN f[n] : f[n][k] = box[g[k]] /\ box[g[k]].type \notin types
           Full(n) == \A j \in 1 .. n : box[j].type \notin types =>
                                           \E k \in DOMAIN f[n] : f[n][k] = box[j]
           S == {n \in Nat : n <= Len(box) => Len(f[n]) <= n /\ (\E g : Maps(g, n)) /\ Full(n)}
<1>2. Len(box) \in Nat /\ (\A n \in 1 .. Len(box) : box[n] \in Item) /\ DOMAIN box = 1 .. Len(box)
  OBVIOUS
<1> HIDE DEF new, Maps, Full
<1>3. 0 \in S
  <2>1. f[0] = << >> /\ DOMAIN f[0] = {} /\ Len(f[0]) = 0
    BY <1>1
  <2>2. Maps([k \in {} |-> 0], 0) /\ Full(0)
    BY <2>1 DEF Maps, Full
  <2>3. QED  BY <2>1, <2>2
<1>4. ASSUME NEW n \in Nat, n \in S PROVE n + 1 \in S
  <2> SUFFICES ASSUME n + 1 <= Len(box)
               PROVE  Len(f[n + 1]) <= n + 1 /\ (\E g : Maps(g, n + 1)) /\ Full(n + 1)
    OBVIOUS
  <2>1. /\ n + 1 \in 1 .. Len(box) /\ n + 1 - 1 = n
        /\ f[n] \in Seq(Item) /\ box[n + 1] \in Item
        /\ f[n + 1] = IF box[n + 1].type \in types THEN f[n] ELSE Append(f[n], box[n + 1])
    BY <1>1, <1>2
  <2>2. Len(f[n]) <= n /\ (\E g : Maps(g, n)) /\ Full(n)
    BY <1>2, <1>4
  <2>3. PICK g : Maps(g, n)
    BY <2>2
  <2>4. CASE box[n + 1].type \in types
    <3>1. f[n + 1] = f[n] /\ Len(f[n]) \in Nat
      BY <2>1, <2>4
    <3>2. Maps(g, n + 1)
      BY <2>3, <3>1 DEF Maps
    <3>3. Full(n + 1)
      <4> SUFFICES ASSUME NEW j \in 1 .. n + 1, box[j].type \notin types
                   PROVE  \E k \in DOMAIN f[n + 1] : f[n + 1][k] = box[j]
        BY DEF Full
      <4>1. j \in 1 .. n
        BY <2>4
      <4>2. QED  BY <2>2, <3>1, <4>1 DEF Full
    <3>4. QED  BY <2>2, <3>1, <3>2, <3>3
  <2>5. CASE box[n + 1].type \notin types
    <3> DEFINE len == Len(f[n])
               h == [k \in 1 .. len + 1 |-> IF k <= len THEN g[k] ELSE n + 1]
    <3>1. /\ len \in Nat /\ DOMAIN f[n] = 1 .. len /\ DOMAIN f[n + 1] = 1 .. len + 1
          /\ Len(f[n + 1]) = len + 1
          /\ \A k \in 1 .. len : f[n + 1][k] = f[n][k]
          /\ f[n + 1][len + 1] = box[n + 1]
      BY <2>1, <2>5
    <3> HIDE DEF len
    <3>2. /\ \A k \in 1 .. len : g[k] \in 1 .. n
          /\ \A j, k \in 1 .. len : g[j] = g[k] => j = k
          /\ \A k \in 1 .. len : f[n][k] = box[g[k]] /\ box[g[k]].type \notin types
      BY <2>3, <3>1 DEF Maps
    <3>3. h \in [1 .. len + 1 -> 1 .. n + 1]
      BY <3>1, <3>2
    <3>4. \A j, k \in 1 .. len + 1 : h[j] = h[k] => j = k
      BY <3>1, <3>2
    <3>5. ASSUME NEW k \in 1 .. len + 1
          PROVE  f[n + 1][k] = box[h[k]] /\ box[h[k]].type \notin types
      <4>1. CASE k \in 1 .. len
        <5>1. h[k] = g[k]
          BY <3>1, <4>1
        <5>2. QED  BY <3>1, <3>2, <4>1, <5>1
      <4>2. CASE k = len + 1
        <5>1. h[k] = n + 1
          BY <3>1, <4>2
        <5>2. QED  BY <2>5, <3>1, <4>2, <5>1
      <4>3. QED  BY <3>1, <4>1, <4>2
    <3> HIDE DEF h
    <3>6. Maps(h, n + 1)
      BY <3>1, <3>3, <3>4, <3>5 DEF Maps
    <3>7. Full(n + 1)
      <4> SUFFICES ASSUME NEW j \in 1 .. n + 1, box[j].type \notin types
                   PROVE  \E k \in DOMAIN f[n + 1] : f[n + 1][k] = box[j]
        BY DEF Full
      <4>1. CASE j \in 1 .. n
        <5>1. PICK k \in 1 .. len : f[n][k] = box[j]
          BY <2>2, <3>1, <4>1 DEF Full
        <5>2. QED  BY <3>1, <5>1, SMTT(40)
      <4>2. CASE j = n + 1
        <5>1. len + 1 \in DOMAIN f[n + 1] /\ f[n + 1][len + 1] = box[j]
          BY <3>1, <4>2
        <5>2. QED  BY <5>1
      <4>3. QED  BY <4>1, <4>2
    <3>8. QED  BY <2>2, <3>1, <3>6, <3>7 DEF len
  <2>6. QED  BY <2>4, <2>5
<1>5. Nat \subseteq S
  <2> HIDE DEF S
  <2>1. QED  BY <1>3, <1>4, SetInduction
<1>6. Len(new) <= Len(box) /\ (\E g : Maps(g, Len(box))) /\ Full(Len(box)) /\ new \in Seq(Item)
  BY <1>1, <1>2, <1>5
<1>7. PICK g : Maps(g, Len(box))
  BY <1>6
<1>8. Kept(new, box) /\ \A k \in DOMAIN new : new[k].type \notin types
  BY <1>1, <1>2, <1>6, <1>7, ZenonT(60) DEF Maps, Kept
<1>9. QED  BY <1>1, <1>2, <1>6, <1>8 DEF Full, new

\* What esp_mqtt_abort_connection leaves: every publish, and in a session that
\* persists every request too.
LEMMA DeleteRequestsProperty ==
    ASSUME NEW box \in Seq(Item)
    PROVE  /\ Kept(DeleteRequests(box), box)
           /\ \A j \in DOMAIN box : box[j].type = "PUBLISH" =>
                 \E k \in DOMAIN DeleteRequests(box) : DeleteRequests(box)[k] = box[j]
<1>1. CASE CleanSession
  <2>1. DeleteRequests(box) = DeleteTypes(box, Requests)
    BY <1>1 DEF DeleteRequests
  <2>2. "PUBLISH" \notin Requests
    BY DEF Requests
  <2>3. QED  BY <2>1, <2>2, DeleteTypesProperty
<1>2. CASE ~CleanSession
  <2>1. DeleteRequests(box) = box
    BY <1>2 DEF DeleteRequests
  <2> DEFINE f == [k \in DOMAIN box |-> k]
  <2>2. f \in [DOMAIN box -> DOMAIN box] /\ \A k \in DOMAIN box : f[k] = k
    OBVIOUS
  <2> HIDE DEF f
  <2>3. Kept(box, box)
    BY <2>2 DEF Kept
  <2>4. QED  BY <2>1, <2>3
<1>3. QED  BY <1>1, <1>2

\* outbox_set_pending changes the state of one item with the id, if there is one.
LEMMA SetPendingProperty ==
    ASSUME NEW box \in Seq(Item), NEW id, NEW pending \in PendingStates
    PROVE  LET new == SetPending(box, id, pending)
           IN  /\ new \in Seq(Item) /\ Len(new) = Len(box) /\ DOMAIN new = DOMAIN box
               /\ \A k \in DOMAIN box :
                     \/ new[k] = box[k]
                     \/ box[k].id = id /\ new[k] = [box[k] EXCEPT !.pending = pending]
               /\ (\E k \in DOMAIN box : box[k].id = id) =>
                     \E k \in DOMAIN box : /\ box[k].id = id
                                           /\ new[k] = [box[k] EXCEPT !.pending = pending]
<1> DEFINE k0 == Get(box, id)
           new == SetPending(box, id, pending)
<1>1. CASE k0 = 0
  <2>1. new = box
    BY <1>1 DEF SetPending
  <2>2. QED  BY <1>1, <2>1, GetProperty
<1>2. CASE k0 # 0
  <2>1. k0 \in DOMAIN box /\ box[k0].id = id
    BY <1>2, GetProperty
  <2>2. new = [box EXCEPT ![k0] = [box[k0] EXCEPT !.pending = pending]]
    BY <1>2 DEF SetPending
  <2> HIDE DEF k0, new
  <2>3. box[k0] \in Item
    BY <2>1
  <2>4. [box[k0] EXCEPT !.pending = pending] \in Item
    BY <2>3 DEF Item
  <2>5. new \in Seq(Item) /\ Len(new) = Len(box) /\ DOMAIN new = DOMAIN box
    BY <2>1, <2>2, <2>4, ExceptSeq
  <2>6. /\ new[k0] = [box[k0] EXCEPT !.pending = pending]
        /\ \A k \in DOMAIN box : k # k0 => new[k] = box[k]
    BY <2>1, <2>2
  <2>7. QED  BY <2>1, <2>5, <2>6 DEF new
<1>3. QED  BY <1>1, <1>2

-----------------------------------------------------------------------------
(***************************************************************************)
(* The data of the client, and the steps by what they do to it.            *)
(***************************************************************************)

\* Identifier 0 belongs to queued QoS 0 publishes, and a publish with another
\* identifier has that message's QoS.
SoundItem(i) ==
    /\ i.id = NoId => i.type = "PUBLISH" /\ i.qos = 0 /\ i.pending = "QUEUED"
    /\ i.type = "PUBLISH" /\ i.id # NoId => i.qos = QosOf[i.id]

SoundBox(box) ==
    /\ box \in Seq(Item) /\ Len(box) <= OutboxMax
    /\ \A k \in DOMAIN box : SoundItem(box[k])

SoundPacket(p) ==
    /\ p.type = "PUBLISH" /\ p.qos > 0 => p.id \in Ids /\ p.qos = QosOf[p.id]
    /\ p.type = "PUBREL" => p.id \in Ids

SoundUp(packets) ==
    /\ packets \in Seq(Packet) /\ Len(packets) <= ChannelMax
    /\ \A k \in DOMAIN packets : SoundPacket(packets[k])

SoundDown(answers) ==
    /\ answers \in Seq(Answer) /\ Len(answers) <= ChannelMax
    /\ \A k \in DOMAIN answers :
          answers[k].type \in {"PUBACK", "PUBREC", "PUBCOMP"} => answers[k].id \in Ids

DataInv ==
    /\ SoundBox(outbox) /\ SoundUp(up) /\ SoundDown(down)
    /\ sent \in 0 .. ReceiveMaximum
    /\ link \in {"closed", "open", "broken"}
    /\ held \subseteq Ids /\ written \subseteq Ids /\ inflight \subseteq Ids /\ carried \subseteq Ids
    /\ promise \in [Ids -> Fates] /\ delivered \in [Ids -> 0 .. 2]

\* The other half of TypeOK
ControlTypes ==
    /\ state \in ClientStates /\ run \in BOOLEAN
    /\ bits \subseteq {"STOPPED", "RECONNECT", "DISCONNECT"}
    /\ task \in BOOLEAN /\ stopping \in BOOLEAN
    /\ pingWait \in BOOLEAN /\ idle \in 0 .. 2
    /\ lock \in {"free", "worker"} \cup Callers
    /\ pc \in {"none", "turn", "lock", "locked", "resend", "pubrel", "keepalive", "refresh",
               "poll", "polling", "purge", "exit"}
    /\ caller \in [Callers -> {"idle", "publish", "reconnect", "join"} \cup Requests]
    /\ faults \in 0 .. MaxFaults

LEMMA TypesAreTypeOK == DataInv /\ ControlTypes => TypeOK
BY DEF DataInv, ControlTypes, TypeOK, SoundBox, SoundUp, SoundDown

data == <<outbox, sent, link, up, down, held, promise, delivered, written, inflight, carried>>

\* Nothing is counted, promised, delivered or carried over.
Quiet == UNCHANGED <<sent, held, promise, delivered, inflight, carried>>

\* The connection ends with this outbox (esp_mqtt_abort_connection).
CutWith(box) == link' = "closed" /\ down' = << >> /\ outbox' = DeleteRequests(box)

Cut == CutWith(outbox) /\ UNCHANGED <<up, written>> /\ Quiet

\* A packet without an identifier is written, and the connection may end with it.
Plain == {p \in Packet : p.id = NoId /\ p.type \in {"PUBLISH", "PINGREQ", "DISCONNECT"} /\ p.qos = 0}
PlainWrite ==
    /\ \E p \in Plain : Wrote(p)
    /\ UNCHANGED <<link, down, outbox>> \/ CutWith(outbox)
    /\ Quiet

\* A message is stored and not written.
StoredUnsent ==
    /\ Len(outbox) < OutboxMax
    /\ \E id \in FreshIds :
          LET box == Append(outbox, NewItem(id, "PUBLISH", QosOf[id]))
          IN  /\ promise' = [promise EXCEPT ![id] = "accepted"]
              /\ (outbox' = box /\ UNCHANGED <<link, down>>) \/ CutWith(box)
    /\ UNCHANGED <<sent, up, held, delivered, written, inflight, carried>>

\* A message is stored and written.
StoredSent ==
    /\ Len(outbox) < OutboxMax /\ ~QuotaUsed
    /\ \E id \in FreshIds :
          LET item == NewItem(id, "PUBLISH", QosOf[id])
          IN  /\ promise' = [promise EXCEPT ![id] = "accepted"]
              /\ Wrote(PacketOf(item, FALSE)) /\ Counted(item)
              /\ outbox' = Append(outbox, [item EXCEPT !.pending = "TRANSMITTED"])
    /\ UNCHANGED <<link, down, held, delivered, carried>>

StoredQos0 ==
    /\ Len(outbox) < OutboxMax
    /\ outbox' = Append(outbox, NewItem(NoId, "PUBLISH", 0))
    /\ UNCHANGED <<sent, link, up, down, held, promise, delivered, written, inflight, carried>>

StoredRequest ==
    /\ Len(outbox) < OutboxMax
    /\ \E id \in FreshIds, type \in Requests :
          LET item == [NewItem(id, type, 0) EXCEPT !.pending = "TRANSMITTED"]
          IN  outbox' = Append(outbox, item) /\ WroteOrNot(PacketOf(item, FALSE))
    /\ UNCHANGED <<sent, link, down, held, promise, delivered, inflight, carried>>

\* The first queued item is written for the first time on this connection.
ResentQueued ==
    /\ Sendable # 0
    /\ LET item == outbox[Sendable]
       IN  /\ Wrote(PacketOf(item, item.dup)) /\ Counted(item)
           /\ outbox' = IF item.id = NoId THEN RemoveAt(outbox, Sendable)
                        ELSE SetPending(outbox, item.id, "TRANSMITTED")
    /\ UNCHANGED <<link, down, held, promise, delivered, carried>>

\* The first transmitted item is written again, or marked and the connection ends.
Retransmitted ==
    /\ Dequeue("TRANSMITTED") # 0
    /\ LET k   == Dequeue("TRANSMITTED")
           box == [outbox EXCEPT ![k] = Retried(@)]
       IN  \/ /\ Wrote(PacketOf(box[k], box[k].dup)) /\ outbox' = box
              /\ UNCHANGED <<link, down>>
           \/ CutWith(box) /\ UNCHANGED <<up, written>>
    /\ Quiet

PubrelSent ==
    /\ Dequeue("ACKNOWLEDGED") # 0
    /\ Wrote(Control("PUBREL", outbox[Dequeue("ACKNOWLEDGED")].id))
    /\ UNCHANGED <<outbox, link, down>> /\ Quiet

\* An answer is taken off, and nothing else follows; or it finishes a message,
\* acknowledges it, or grants a request.
TakesOff == down # << >> /\ down' = Tail(down) /\ UNCHANGED <<link, held, delivered, carried>>

TakenOff == TakesOff /\ UNCHANGED <<outbox, sent, up, promise, written, inflight>>

Finished ==
    /\ TakesOff /\ Head(down).type \in {"PUBACK", "PUBCOMP"}
    /\ Completed(Head(down).id)
    /\ inflight' = inflight \ {Head(down).id} /\ UNCHANGED <<up, written>>

Acknowledged ==
    /\ TakesOff /\ Head(down).type = "PUBREC"
    /\ Released(Head(down).id) /\ WroteOrNot(Control("PUBREL", Head(down).id))
    /\ UNCHANGED <<sent, promise, inflight>>

Granted ==
    /\ TakesOff
    /\ \E type \in Requests : outbox' = Delete(Head(down).id, type)
    /\ UNCHANGED <<sent, up, promise, written, inflight>>

Lost == /\ link = "open" /\ link' = "broken" /\ down' = << >>
        /\ UNCHANGED <<outbox, sent, up, held, promise, delivered, written, inflight, carried>>

Kinds ==
    \/ UNCHANGED data \/ Cut \/ PlainWrite \/ StoredUnsent \/ StoredSent \/ StoredQos0
    \/ StoredRequest \/ ResentQueued \/ Retransmitted \/ PubrelSent \/ TakenOff \/ Finished
    \/ Acknowledged \/ Granted \/ Lost
    \/ DeleteExpired \/ ConnectAccepted \/ Purge \/ Broker

\* Each step of an application's task is one of these kinds.
LEMMA CallKinds ==
    ASSUME NEW c \in Callers, Application(c) \/ Called(c), promise \in [Ids -> Fates]
    PROVE  Kinds
<1>1. CASE Start(c) \/ Join(c) \/ Disconnect(c) \/ Reconnect(c) \/ AskReconnect(c) \/ Publish(c)
           \/ PublishRefused(c) \/ Request(c) \/ RequestRefused(c)
  <2>1. UNCHANGED data
    BY <1>1 DEF Start, Join, Disconnect, Reconnect, AskReconnect, Publish, PublishRefused, Request,
                RequestRefused, network, history, data
  <2>2. QED  BY <2>1 DEF Kinds
<1>2. CASE Stop(c)
  <2>1. CASE Wrote(Control("DISCONNECT", NoId))
    <3>1. Control("DISCONNECT", NoId) \in Plain
      BY DEF Control, Plain, Packet
    <3>2. PlainWrite
      BY <1>2, <2>1, <3>1 DEF Stop, PlainWrite, Quiet
    <3>3. QED  BY <3>2 DEF Kinds
  <2>2. CASE UNCHANGED <<up, written>>
    <3>1. UNCHANGED data
      BY <1>2, <2>2 DEF Stop, data
    <3>2. QED  BY <3>1 DEF Kinds
  <2>3. QED  BY <1>2, <2>1, <2>2 DEF Stop, WroteOrNot, WriteFails
<1>3. CASE PublishQos0(c)
  <2> DEFINE p == PacketOf(NewItem(NoId, "PUBLISH", 0), FALSE)
  <2>1. CASE Wrote(p) /\ LinkKept /\ UNCHANGED outbox
    <3>1. p \in Plain
      BY DEF PacketOf, NewItem, Plain, Packet
    <3>2. PlainWrite
      BY <1>3, <2>1, <3>1 DEF PublishQos0, PlainWrite, Quiet, LinkKept
    <3>3. QED  BY <3>2 DEF Kinds
  <2>2. CASE WriteFails /\ Abort
    <3>1. Cut
      BY <1>3, <2>2 DEF PublishQos0, WriteFails, Abort, AbortWith, Cut, CutWith, Quiet
    <3>2. QED  BY <3>1 DEF Kinds
  <2>3. QED  BY <1>3, <2>1, <2>2 DEF PublishQos0
<1>4. CASE PublishStored(c)
  <2>1. StoredUnsent \/ StoredSent
    BY <1>4 DEF PublishStored, StoredUnsent, StoredSent, NotCounted, LinkKept, WriteFails,
                AbortWith, CutWith
  <2>2. QED  BY <2>1 DEF Kinds
<1>5. CASE Enqueue(c)
  <2>1. PICK id \in FreshIds \cup IF SendsQos0 THEN {NoId} ELSE {} :
           /\ outbox' = Append(outbox, NewItem(id, "PUBLISH", IF id = NoId THEN 0 ELSE QosOf[id]))
           /\ promise' = [i \in Ids |-> IF i = id THEN "accepted" ELSE promise[i]]
    BY <1>5 DEF Enqueue
  <2>2. FreshIds \subseteq Ids /\ NoId \notin Ids
    BY IdsAssumption DEF FreshIds
  <2>3. CASE id = NoId
    <3>1. promise' = promise
      BY <2>1, <2>2, <2>3
    <3>2. StoredQos0
      BY <1>5, <2>1, <2>3, <3>1 DEF Enqueue, StoredQos0, network
    <3>3. QED  BY <3>2 DEF Kinds
  <2>4. CASE id # NoId
    <3>1. id \in FreshIds /\ promise' = [promise EXCEPT ![id] = "accepted"]
      BY <2>1, <2>2, <2>4
    <3>2. outbox' = Append(outbox, NewItem(id, "PUBLISH", QosOf[id]))
      BY <2>1, <2>4
    <3>3. StoredUnsent
      BY <1>5, <3>1, <3>2 DEF Enqueue, StoredUnsent, network
    <3>4. QED  BY <3>3 DEF Kinds
  <2>5. QED  BY <2>3, <2>4
<1>6. CASE RequestStored(c)
  <2>1. StoredRequest
    BY <1>6 DEF RequestStored, StoredRequest
  <2>2. QED  BY <2>1 DEF Kinds
<1>7. QED
  BY <1>1, <1>2, <1>3, <1>4, <1>5, <1>6 DEF Application, Called

\* Each step of the worker is one of these kinds.
LEMMA WorkerKinds ==
    ASSUME TakeLock \/ Worker \/ PollFails
    PROVE  Kinds
<1>1. CASE TakeLock \/ LoopTest \/ TurnDisconnected \/ NoTransport \/ ReceiveNothing \/ NotYet
           \/ NothingOld \/ NoPubrelOld \/ KeepaliveFine \/ TurnEnds \/ Poll \/ PollEnds
           \/ ReconnectAsked \/ ReconnectDue \/ KeepWaiting \/ Exit
  <2>1. UNCHANGED data
    BY <1>1 DEF TakeLock, LoopTest, TurnDisconnected, NoTransport, ReceiveNothing, NotYet,
                NothingOld, NoPubrelOld, KeepaliveFine, TurnEnds, Poll, PollEnds, ReconnectAsked,
                ReconnectDue, KeepWaiting, Exit, network, history, data
  <2>2. QED  BY <2>1 DEF Kinds
<1>2. CASE ConnectFails \/ ReceiveFails \/ PingTimedOut \/ Refresh \/ PollFails
  <2>1. Cut
    BY <1>2 DEF ConnectFails, ReceiveFails, PingTimedOut, Refresh, PollFails, Abort, AbortWith,
                Cut, CutWith, Quiet, history
  <2>2. QED  BY <2>1 DEF Kinds
<1>3. CASE DisconnectAsked
  <2>1. CutWith(outbox) /\ Quiet
    BY <1>3 DEF DisconnectAsked, Abort, AbortWith, CutWith, Quiet
  <2>2. CASE Wrote(Control("DISCONNECT", NoId))
    <3>1. Control("DISCONNECT", NoId) \in Plain
      BY DEF Control, Plain, Packet
    <3>2. PlainWrite
      BY <2>1, <2>2, <3>1 DEF PlainWrite
    <3>3. QED  BY <3>2 DEF Kinds
  <2>3. CASE WriteFails
    <3>1. Cut
      BY <2>1, <2>3 DEF Cut, WriteFails
    <3>2. QED  BY <3>1 DEF Kinds
  <2>4. QED  BY <1>3, <2>2, <2>3 DEF DisconnectAsked, WroteOrNot
<1>4. CASE ReceiveCompletion
  <2>1. Finished
    BY <1>4 DEF ReceiveCompletion, Received, Finished, TakesOff
  <2>2. QED  BY <2>1 DEF Kinds
<1>5. CASE ReceivePubrec
  <2>1. Acknowledged
    BY <1>5 DEF ReceivePubrec, Received, Acknowledged, TakesOff
  <2>2. QED  BY <2>1 DEF Kinds
<1>6. CASE ReceiveSuback
  <2>1. Granted
    BY <1>6 DEF ReceiveSuback, Received, Granted, TakesOff, Requests
  <2>2. QED  BY <2>1 DEF Kinds
<1>7. CASE ReceivePingresp
  <2>1. TakenOff
    BY <1>7 DEF ReceivePingresp, Received, TakenOff, TakesOff
  <2>2. QED  BY <2>1 DEF Kinds
<1>8. CASE ResendQueued
  <2>1. ResentQueued \/ Cut
    BY <1>8 DEF ResendQueued, ResentQueued, LinkKept, WriteFails, Abort, AbortWith, NotCounted, Cut,
                CutWith, Quiet
  <2>2. QED  BY <2>1 DEF Kinds
<1>9. CASE Retransmit
  <2>1. Retransmitted
    BY <1>9 DEF Retransmit, Retransmitted, LinkKept, WriteFails, AbortWith, CutWith, Quiet
  <2>2. QED  BY <2>1 DEF Kinds
<1>10. CASE RetransmitPubrel
  <2>1. PubrelSent \/ Cut
    BY <1>10 DEF RetransmitPubrel, PubrelSent, LinkKept, WriteFails, Abort, AbortWith, Cut, CutWith,
                 Quiet
  <2>2. QED  BY <2>1 DEF Kinds
<1>11. CASE Ping
  <2>1. Control("PINGREQ", NoId) \in Plain
    BY DEF Control, Plain, Packet
  <2>2. PlainWrite \/ Cut
    BY <1>11, <2>1 DEF Ping, PlainWrite, LinkKept, WriteFails, Abort, AbortWith, Cut, CutWith, Quiet
  <2>3. QED  BY <2>2 DEF Kinds
<1>12. QED
  BY <1>1, <1>2, <1>3, <1>4, <1>5, <1>6, <1>7, <1>8, <1>9, <1>10, <1>11
     DEF Worker, ReceiveData, Kinds

\* What a step does to the data is one of these kinds.
LEMMA StepKinds ==
    ASSUME [Next]_vars, promise \in [Ids -> Fates]
    PROVE  Kinds
<1>1. CASE \E c \in Callers : Application(c) \/ Called(c)
  BY <1>1, CallKinds
<1>2. CASE TakeLock \/ Worker \/ PollFails
  BY <1>2, WorkerKinds
<1>3. CASE Break
  <2>1. Lost
    BY <1>3 DEF Break, Lost, history
  <2>2. QED  BY <2>1 DEF Kinds
<1>4. CASE Tick \/ UNCHANGED vars
  <2>1. UNCHANGED data
    BY <1>4 DEF Tick, vars, network, history, data
  <2>2. QED  BY <2>1 DEF Kinds
<1>5. QED  BY <1>1, <1>2, <1>3, <1>4 DEF Next, Kinds

-----------------------------------------------------------------------------
(***************************************************************************)
(* Types of the data.                                                      *)
(***************************************************************************)

\* What is left of a sound outbox is sound.
LEMMA SoundKept ==
    ASSUME NEW old, SoundBox(old), NEW new, Kept(new, old)
    PROVE  SoundBox(new)
<1>1. PICK f \in [DOMAIN new -> DOMAIN old] : \A k \in DOMAIN new : new[k] = old[f[k]]
  BY DEF Kept
<1>2. \A k \in DOMAIN new : SoundItem(new[k])
  BY <1>1 DEF SoundBox
<1>3. Len(new) \in Nat /\ Len(old) \in Nat /\ OutboxMax \in Nat
  BY BoundAssumption DEF SoundBox, Kept
<1>4. QED  BY <1>2, <1>3 DEF SoundBox, Kept

\* So is what an aborted connection leaves.
LEMMA SoundCut ==
    ASSUME NEW box, SoundBox(box), CutWith(box)
    PROVE  SoundBox(outbox)' /\ SoundDown(down)' /\ link' \in {"closed", "open", "broken"}
<1>1. Kept(DeleteRequests(box), box)
  BY DeleteRequestsProperty DEF SoundBox
<1>2. SoundBox(DeleteRequests(box))
  BY <1>1, SoundKept
<1>3. << >> \in Seq(Answer) /\ Len(<< >>) <= ChannelMax /\ DOMAIN << >> = {}
  BY BoundAssumption
<1>4. SoundDown(<< >>)
  BY <1>3 DEF SoundDown
<1>5. QED  BY <1>2, <1>4 DEF CutWith

\* An item is stored.
LEMMA SoundAppend ==
    ASSUME NEW box, SoundBox(box), Len(box) < OutboxMax, NEW item \in Item, SoundItem(item)
    PROVE  SoundBox(Append(box, item))
<1>1. box \in Seq(Item) /\ Len(box) \in Nat /\ OutboxMax \in Nat
  BY BoundAssumption DEF SoundBox
<1>2. /\ Append(box, item) \in Seq(Item) /\ Len(Append(box, item)) = Len(box) + 1
      /\ \A k \in DOMAIN Append(box, item) :
            Append(box, item)[k] = IF k <= Len(box) THEN box[k] ELSE item
      /\ \A k \in DOMAIN Append(box, item) : k <= Len(box) => k \in DOMAIN box
  BY <1>1
<1>3. QED  BY <1>1, <1>2 DEF SoundBox

\* A new item is one.
LEMMA NewItemType ==
    ASSUME NEW id \in Ids \cup {NoId}, NEW type \in Requests \cup {"PUBLISH"}, NEW qos \in {0, 1, 2}
    PROVE  /\ NewItem(id, type, qos) \in Item
           /\ [NewItem(id, type, qos) EXCEPT !.pending = "TRANSMITTED"] \in Item
BY DEF NewItem, Item, PendingStates

\* A change of an item's state leaves a sound outbox sound.
LEMMA SoundSetPending ==
    ASSUME NEW box, SoundBox(box), NEW id, id # NoId, NEW pending \in PendingStates
    PROVE  SoundBox(SetPending(box, id, pending))
<1> DEFINE new == SetPending(box, id, pending)
<1>1. box \in Seq(Item)
  BY DEF SoundBox
<1>2. /\ new \in Seq(Item) /\ Len(new) = Len(box) /\ DOMAIN new = DOMAIN box
      /\ \A k \in DOMAIN box : \/ new[k] = box[k]
                               \/ box[k].id = id /\ new[k] = [box[k] EXCEPT !.pending = pending]
  BY <1>1, SetPendingProperty
<1> HIDE DEF new
<1>3. ASSUME NEW k \in DOMAIN box PROVE SoundItem(new[k])
  <2>1. SoundItem(box[k]) /\ box[k] \in Item
    BY <1>1 DEF SoundBox
  <2>2. CASE new[k] = box[k]
    BY <2>1, <2>2
  <2>3. CASE box[k].id = id /\ new[k] = [box[k] EXCEPT !.pending = pending]
    <3>1. new[k].id = box[k].id /\ new[k].type = box[k].type /\ new[k].qos = box[k].qos
      BY <2>1, <2>3 DEF Item
    <3>2. QED  BY <2>1, <2>3, <3>1 DEF SoundItem
  <2>4. QED  BY <1>2, <2>2, <2>3
<1>4. QED  BY <1>2, <1>3 DEF SoundBox, new

\* esp_mqtt_write appends the packet or loses it.
LEMMA WroteProperty ==
    ASSUME DataInv, NEW p \in Packet, Wrote(p)
    PROVE  /\ up' = up \/ (up' = Append(up, p) /\ Len(up) < ChannelMax)
           /\ written' = written \cup ({p.id} \ {NoId})
           /\ link # "closed"
           /\ SoundPacket(p) => SoundUp(up)'
           /\ written' \subseteq Ids
<1>1. /\ up' = up \/ (up' = Append(up, p) /\ Len(up) < ChannelMax)
      /\ written' = written \cup ({p.id} \ {NoId})
      /\ link # "closed"
  BY DEF Wrote
<1>2. written' \subseteq Ids
  BY <1>1 DEF DataInv, Packet
<1>3. up \in Seq(Packet) /\ Len(up) \in Nat /\ ChannelMax \in Nat
  BY BoundAssumption DEF DataInv, SoundUp
<1>4. CASE up' = Append(up, p) /\ Len(up) < ChannelMax
  <2>1. /\ Append(up, p) \in Seq(Packet) /\ Len(Append(up, p)) = Len(up) + 1
        /\ \A k \in DOMAIN Append(up, p) : Append(up, p)[k] = IF k <= Len(up) THEN up[k] ELSE p
        /\ \A k \in DOMAIN Append(up, p) : k <= Len(up) => k \in DOMAIN up
    BY <1>3
  <2>2. SoundPacket(p) => SoundUp(Append(up, p))
    BY <1>3, <1>4, <2>1 DEF DataInv, SoundUp
  <2>3. QED  BY <1>1, <1>2, <1>4, <2>2
<1>5. CASE up' = up
  BY <1>1, <1>2, <1>5 DEF DataInv
<1>6. QED  BY <1>1, <1>4, <1>5

\* The packet of an item is sound.
LEMMA PacketOfType ==
    ASSUME NEW item \in Item, SoundItem(item), NEW dup \in BOOLEAN
    PROVE  PacketOf(item, dup) \in Packet /\ SoundPacket(PacketOf(item, dup))
<1>1. PacketOf(item, dup) \in Packet
  <2>1. (item.id \in written) \in BOOLEAN
    OBVIOUS
  <2>2. QED  BY <2>1 DEF PacketOf, Packet, Item
<1>2. SoundPacket(PacketOf(item, dup))
  BY DEF PacketOf, SoundPacket, SoundItem, Item, Requests
<1>3. QED  BY <1>1, <1>2

LEMMA PubrelType ==
    ASSUME NEW id \in Ids
    PROVE  Control("PUBREL", id) \in Packet /\ SoundPacket(Control("PUBREL", id))
BY DEF Control, Packet, SoundPacket

\* The answer that is taken off, and those that stay.
LEMMA DownTail ==
    ASSUME SoundDown(down), down # << >>
    PROVE  /\ Head(down) = down[1] /\ 1 \in DOMAIN down /\ Head(down) \in Answer
           /\ \A k \in DOMAIN Tail(down) : k + 1 \in DOMAIN down /\ Tail(down)[k] = down[k + 1]
           /\ SoundDown(Tail(down))
<1>1. down \in Seq(Answer) /\ Len(down) \in Nat /\ ChannelMax \in Nat
  BY BoundAssumption DEF SoundDown
<1>2. /\ Head(down) = down[1] /\ 1 \in DOMAIN down /\ Head(down) \in Answer
      /\ \A k \in DOMAIN Tail(down) : k + 1 \in DOMAIN down /\ Tail(down)[k] = down[k + 1]
      /\ Tail(down) \in Seq(Answer) /\ Len(Tail(down)) = Len(down) - 1
  BY <1>1
<1>3. QED  BY <1>1, <1>2 DEF SoundDown

LEMMA UpTail ==
    ASSUME SoundUp(up), up # << >>
    PROVE  /\ Head(up) = up[1] /\ 1 \in DOMAIN up /\ Head(up) \in Packet /\ SoundPacket(Head(up))
           /\ \A k \in DOMAIN Tail(up) : k + 1 \in DOMAIN up /\ Tail(up)[k] = up[k + 1]
           /\ SoundUp(Tail(up))
<1>1. up \in Seq(Packet) /\ Len(up) \in Nat /\ ChannelMax \in Nat
  BY BoundAssumption DEF SoundUp
<1>2. /\ Head(up) = up[1] /\ 1 \in DOMAIN up /\ Head(up) \in Packet
      /\ \A k \in DOMAIN Tail(up) : k + 1 \in DOMAIN up /\ Tail(up)[k] = up[k + 1]
      /\ Tail(up) \in Seq(Packet) /\ Len(Tail(up)) = Len(up) - 1
  BY <1>1
<1>3. QED  BY <1>1, <1>2 DEF SoundUp

\* The queued item that is sent is in the outbox; if the quota is used it is not
\* one that counts.
LEMMA SendableProperty ==
    ASSUME DataInv, Sendable # 0
    PROVE  /\ Sendable \in DOMAIN outbox
           /\ outbox[Sendable] \in Item /\ SoundItem(outbox[Sendable])
           /\ outbox[Sendable].pending = "QUEUED"
           /\ QuotaUsed => ~(outbox[Sendable].type = "PUBLISH" /\ outbox[Sendable].qos > 0)
<1>1. outbox \in Seq(Item)
  BY DEF DataInv, SoundBox
<1> DEFINE first == Dequeue("QUEUED")
<1>2. \/ first = 0
      \/ first \in DOMAIN outbox /\ outbox[first].pending = "QUEUED"
  BY <1>1, DequeueProperty
<1>3. \/ Get(outbox, NoId) = 0
      \/ Get(outbox, NoId) \in DOMAIN outbox /\ outbox[Get(outbox, NoId)].id = NoId
  BY <1>1, GetProperty
<1> HIDE DEF first
<1>4. Sendable = IF first # 0 /\ QuotaUsed /\ outbox[first].type = "PUBLISH" /\ outbox[first].qos > 0
                 THEN Get(outbox, NoId) ELSE first
  BY DEF Sendable, first
<1>5. Sendable \in DOMAIN outbox
  BY <1>2, <1>3, <1>4
<1>6. outbox[Sendable] \in Item /\ SoundItem(outbox[Sendable])
  BY <1>1, <1>5 DEF DataInv, SoundBox
<1>7. CASE outbox[Sendable].id = NoId
  BY <1>5, <1>6, <1>7 DEF SoundItem
<1>8. CASE outbox[Sendable].id # NoId
  BY <1>2, <1>3, <1>4, <1>5, <1>6, <1>8
<1>9. QED  BY <1>7, <1>8

\* A counted publish keeps within the counter's range if the quota is not used.
LEMMA CountedType ==
    ASSUME DataInv, NEW item \in Item, SoundItem(item), Counted(item),
           QuotaUsed => ~(item.type = "PUBLISH" /\ item.qos > 0)
    PROVE  sent' \in 0 .. ReceiveMaximum /\ inflight' \subseteq Ids
<1>1. sent \in 0 .. ReceiveMaximum /\ ReceiveMaximum \in Nat /\ inflight \subseteq Ids
  BY BoundAssumption DEF DataInv
<1>2. CASE item.type = "PUBLISH" /\ item.qos > 0
  <2>1. item.id \in Ids
    BY <1>2 DEF SoundItem, Item
  <2>2. Version5 => sent < ReceiveMaximum
    BY <1>1, <1>2 DEF QuotaUsed
  <2>3. QED  BY <1>1, <1>2, <2>1, <2>2 DEF Counted
<1>3. CASE ~(item.type = "PUBLISH" /\ item.qos > 0)
  BY <1>1, <1>3 DEF Counted
<1>4. QED  BY <1>2, <1>3

LEMMA FreshIdsType == FreshIds \subseteq Ids /\ NoId \notin FreshIds
BY IdsAssumption DEF FreshIds

\* A message that is stored is a sound item.
LEMMA StoredItem ==
    ASSUME NEW id \in Ids
    PROVE  LET item == NewItem(id, "PUBLISH", QosOf[id])
           IN  /\ item \in Item /\ SoundItem(item)
               /\ [item EXCEPT !.pending = "TRANSMITTED"] \in Item
               /\ SoundItem([item EXCEPT !.pending = "TRANSMITTED"])
<1>1. QosOf[id] \in {0, 1, 2} /\ id # NoId
  BY QosAssumption, IdsAssumption
<1>2. QED  BY <1>1, NewItemType DEF NewItem, SoundItem

\* A request that is stored is a sound item.
LEMMA RequestItem ==
    ASSUME NEW id \in Ids, NEW type \in Requests
    PROVE  LET item == [NewItem(id, type, 0) EXCEPT !.pending = "TRANSMITTED"]
           IN  item \in Item /\ SoundItem(item) /\ item.id = id /\ item.type = type
<1>1. id # NoId /\ type # "PUBLISH"
  BY IdsAssumption DEF Requests
<1>2. QED  BY <1>1, NewItemType DEF NewItem, SoundItem

\* Steps that store something keep the types of the data.
LEMMA StoreTypes ==
    ASSUME DataInv, StoredUnsent \/ StoredSent \/ StoredQos0 \/ StoredRequest
    PROVE  DataInv'
<1>1. SoundBox(outbox) /\ SoundUp(up) /\ SoundDown(down)
  BY DEF DataInv
<1>2. CASE StoredUnsent
  <2>1. PICK id \in FreshIds :
           LET box == Append(outbox, NewItem(id, "PUBLISH", QosOf[id]))
           IN  /\ promise' = [promise EXCEPT ![id] = "accepted"]
               /\ (outbox' = box /\ UNCHANGED <<link, down>>) \/ CutWith(box)
    BY <1>2 DEF StoredUnsent
  <2> DEFINE box == Append(outbox, NewItem(id, "PUBLISH", QosOf[id]))
  <2>2. id \in Ids /\ promise' \in [Ids -> Fates]
    BY <2>1, FreshIdsType DEF DataInv, Fates
  <2>3. SoundBox(box)
    BY <1>1, <1>2, <2>2, StoredItem, SoundAppend DEF StoredUnsent
  <2> HIDE DEF box
  <2>4. SoundBox(outbox)' /\ SoundDown(down)' /\ link' \in {"closed", "open", "broken"}
    <3>1. CASE outbox' = box /\ UNCHANGED <<link, down>>
      BY <1>1, <2>3, <3>1 DEF DataInv
    <3>2. CASE CutWith(box)
      BY <2>3, <3>2, SoundCut
    <3>3. QED  BY <2>1, <3>1, <3>2 DEF box
  <2>5. QED  BY <1>2, <2>2, <2>4 DEF StoredUnsent, DataInv
<1>3. CASE StoredSent
  <2>1. PICK id \in FreshIds :
           LET item == NewItem(id, "PUBLISH", QosOf[id])
           IN  /\ promise' = [promise EXCEPT ![id] = "accepted"]
               /\ Wrote(PacketOf(item, FALSE)) /\ Counted(item)
               /\ outbox' = Append(outbox, [item EXCEPT !.pending = "TRANSMITTED"])
    BY <1>3 DEF StoredSent
  <2> DEFINE item == NewItem(id, "PUBLISH", QosOf[id])
             after == [item EXCEPT !.pending = "TRANSMITTED"]
  <2>2. id \in Ids /\ promise' \in [Ids -> Fates]
    BY <2>1, FreshIdsType DEF DataInv, Fates
  <2>3. item \in Item /\ SoundItem(item) /\ after \in Item /\ SoundItem(after)
    BY <2>2, StoredItem
  <2>4. Wrote(PacketOf(item, FALSE)) /\ Counted(item) /\ outbox' = Append(outbox, after)
    BY <2>1
  <2> HIDE DEF item, after
  <2>5. SoundBox(outbox)'
    BY <1>1, <1>3, <2>3, <2>4, SoundAppend DEF StoredSent
  <2>6. SoundUp(up)' /\ written' \subseteq Ids
    BY <2>3, <2>4, PacketOfType, WroteProperty
  <2>7. sent' \in 0 .. ReceiveMaximum /\ inflight' \subseteq Ids
    BY <1>3, <2>3, <2>4, CountedType DEF StoredSent
  <2>8. QED  BY <1>3, <2>2, <2>5, <2>6, <2>7 DEF StoredSent, DataInv
<1>4. CASE StoredQos0
  <2>1. NewItem(NoId, "PUBLISH", 0) \in Item /\ SoundItem(NewItem(NoId, "PUBLISH", 0))
    BY NewItemType DEF NewItem, SoundItem
  <2>2. SoundBox(outbox)'
    BY <1>1, <1>4, <2>1, SoundAppend DEF StoredQos0
  <2>3. QED  BY <1>4, <2>2 DEF StoredQos0, DataInv
<1>5. CASE StoredRequest
  <2>1. PICK id \in FreshIds, type \in Requests :
           LET item == [NewItem(id, type, 0) EXCEPT !.pending = "TRANSMITTED"]
           IN  outbox' = Append(outbox, item) /\ WroteOrNot(PacketOf(item, FALSE))
    BY <1>5 DEF StoredRequest
  <2> DEFINE item == [NewItem(id, type, 0) EXCEPT !.pending = "TRANSMITTED"]
  <2>2. item \in Item /\ SoundItem(item)
    BY FreshIdsType, RequestItem
  <2>3. outbox' = Append(outbox, item) /\ WroteOrNot(PacketOf(item, FALSE))
    BY <2>1
  <2> HIDE DEF item
  <2>4. SoundBox(outbox)'
    BY <1>1, <1>5, <2>2, <2>3, SoundAppend DEF StoredRequest
  <2>5. SoundUp(up)' /\ written' \subseteq Ids
    <3>1. CASE Wrote(PacketOf(item, FALSE))
      BY <2>2, <3>1, PacketOfType, WroteProperty
    <3>2. CASE WriteFails
      BY <1>1, <3>2 DEF WriteFails, DataInv
    <3>3. QED  BY <2>3, <3>1, <3>2 DEF WroteOrNot
  <2>6. QED  BY <1>5, <2>4, <2>5 DEF StoredRequest, DataInv
<1>6. QED  BY <1>2, <1>3, <1>4, <1>5

\* Steps that write or write again keep them.
LEMMA WriteTypes ==
    ASSUME DataInv, PlainWrite \/ ResentQueued \/ Retransmitted \/ PubrelSent
    PROVE  DataInv'
<1>1. SoundBox(outbox) /\ SoundUp(up) /\ SoundDown(down) /\ outbox \in Seq(Item)
  BY DEF DataInv, SoundBox
<1>2. CASE PlainWrite
  <2>1. PICK p \in Plain : Wrote(p)
    BY <1>2 DEF PlainWrite
  <2>2. p \in Packet /\ SoundPacket(p)
    BY DEF Plain, SoundPacket
  <2>3. SoundUp(up)' /\ written' \subseteq Ids
    BY <2>1, <2>2, WroteProperty
  <2>4. SoundBox(outbox)' /\ SoundDown(down)' /\ link' \in {"closed", "open", "broken"}
    <3>1. CASE UNCHANGED <<link, down, outbox>>
      BY <1>1, <3>1 DEF DataInv
    <3>2. CASE CutWith(outbox)
      BY <1>1, <3>2, SoundCut
    <3>3. QED  BY <1>2, <3>1, <3>2 DEF PlainWrite
  <2>5. QED  BY <1>2, <2>3, <2>4 DEF PlainWrite, Quiet, DataInv
<1>3. CASE ResentQueued
  <2> DEFINE item == outbox[Sendable]
  <2>1. /\ Sendable \in DOMAIN outbox /\ item \in Item /\ SoundItem(item)
        /\ QuotaUsed => ~(item.type = "PUBLISH" /\ item.qos > 0)
    BY <1>3, SendableProperty DEF ResentQueued
  <2>2. /\ Wrote(PacketOf(item, item.dup)) /\ Counted(item)
        /\ outbox' = IF item.id = NoId THEN RemoveAt(outbox, Sendable)
                     ELSE SetPending(outbox, item.id, "TRANSMITTED")
    BY <1>3 DEF ResentQueued
  <2> HIDE DEF item
  <2>3. item.dup \in BOOLEAN /\ "TRANSMITTED" \in PendingStates
    BY <2>1 DEF Item, PendingStates
  <2>4. SoundUp(up)' /\ written' \subseteq Ids
    BY <2>1, <2>2, <2>3, PacketOfType, WroteProperty
  <2>5. sent' \in 0 .. ReceiveMaximum /\ inflight' \subseteq Ids
    BY <2>1, <2>2, CountedType
  <2>6. SoundBox(outbox)'
    <3>1. CASE item.id = NoId
      <4>1. Kept(RemoveAt(outbox, Sendable), outbox)
        BY <1>1, <2>1, RemoveAtProperty
      <4>2. SoundBox(RemoveAt(outbox, Sendable))
        BY <1>1, <4>1, SoundKept
      <4>3. QED  BY <2>2, <3>1, <4>2
    <3>2. CASE item.id # NoId
      BY <1>1, <2>2, <2>3, <3>2, SoundSetPending
    <3>3. QED  BY <3>1, <3>2
  <2>7. QED  BY <1>3, <2>4, <2>5, <2>6 DEF ResentQueued, DataInv
<1>4. CASE Retransmitted
  <2> DEFINE k == Dequeue("TRANSMITTED")
             box == [outbox EXCEPT ![k] = Retried(@)]
  <2>1. k \in DOMAIN outbox /\ outbox[k].pending = "TRANSMITTED"
    BY <1>1, <1>4, DequeueProperty DEF Retransmitted
  <2>2. \/ /\ Wrote(PacketOf(box[k], box[k].dup)) /\ outbox' = box
           /\ UNCHANGED <<link, down>>
        \/ CutWith(box) /\ UNCHANGED <<up, written>>
    BY <1>4 DEF Retransmitted
  <2>3. Quiet
    BY <1>4 DEF Retransmitted
  <2>4. box = [outbox EXCEPT ![k] = Retried(outbox[k])]
    OBVIOUS
  <2> HIDE DEF k, box
  <2>5. outbox[k] \in Item /\ SoundItem(outbox[k])
    BY <1>1, <2>1 DEF SoundBox
  <2>6. Retried(outbox[k]) \in Item /\ SoundItem(Retried(outbox[k]))
    BY <2>5 DEF Retried, Item, SoundItem
  <2>7. /\ box \in Seq(Item) /\ Len(box) = Len(outbox) /\ DOMAIN box = DOMAIN outbox
        /\ box[k] = Retried(outbox[k]) /\ \A j \in DOMAIN outbox : j # k => box[j] = outbox[j]
    BY <1>1, <2>1, <2>4, <2>6, ExceptSeq
  <2>8. SoundBox(box) /\ box[k] \in Item /\ SoundItem(box[k]) /\ box[k].dup \in BOOLEAN
    BY <1>1, <2>1, <2>6, <2>7 DEF SoundBox, Item
  <2>9. CASE /\ Wrote(PacketOf(box[k], box[k].dup)) /\ outbox' = box
             /\ UNCHANGED <<link, down>>
    <3>1. SoundUp(up)' /\ written' \subseteq Ids
      BY <2>8, <2>9, PacketOfType, WroteProperty
    <3>2. QED  BY <2>3, <2>8, <2>9, <3>1 DEF Quiet, DataInv
  <2>10. CASE CutWith(box) /\ UNCHANGED <<up, written>>
    <3>1. SoundBox(outbox)' /\ SoundDown(down)' /\ link' \in {"closed", "open", "broken"}
      BY <2>8, <2>10, SoundCut
    <3>2. QED  BY <2>3, <2>10, <3>1 DEF Quiet, DataInv
  <2>11. QED  BY <2>2, <2>9, <2>10
<1>5. CASE PubrelSent
  <2> DEFINE k == Dequeue("ACKNOWLEDGED")
  <2>1. k \in DOMAIN outbox /\ outbox[k].pending = "ACKNOWLEDGED"
    BY <1>1, <1>5, DequeueProperty DEF PubrelSent
  <2>2. Wrote(Control("PUBREL", outbox[k].id))
    BY <1>5 DEF PubrelSent
  <2> HIDE DEF k
  <2>3. outbox[k].id \in Ids
    <3>1. outbox[k] \in Item /\ SoundItem(outbox[k])
      BY <1>1, <2>1 DEF SoundBox
    <3>2. QED  BY <2>1, <3>1 DEF SoundItem, Item
  <2>4. SoundUp(up)' /\ written' \subseteq Ids
    BY <2>2, <2>3, PubrelType, WroteProperty
  <2>5. QED  BY <1>5, <2>4 DEF PubrelSent, Quiet, DataInv
<1>6. QED  BY <1>2, <1>3, <1>4, <1>5

\* What outbox_delete leaves of a sound outbox
LEMMA DeleteKept ==
    ASSUME outbox \in Seq(Item), NEW id, NEW type
    PROVE  Delete(id, type) = outbox \/ Kept(Delete(id, type), outbox)
BY DeleteProperty, RemoveAtProperty

\* Steps that take an answer keep the types.
LEMMA AnswerTypes ==
    ASSUME DataInv, TakenOff \/ Finished \/ Acknowledged \/ Granted
    PROVE  DataInv'
<1>1. SoundBox(outbox) /\ SoundUp(up) /\ SoundDown(down) /\ outbox \in Seq(Item)
  BY DEF DataInv, SoundBox
<1>2. down # << >> /\ down' = Tail(down) /\ UNCHANGED <<link, held, delivered, carried>>
  BY DEF TakenOff, Finished, Acknowledged, Granted, TakesOff
<1>3. SoundDown(down)' /\ Head(down) = down[1] /\ 1 \in DOMAIN down
  BY <1>1, <1>2, DownTail
<1>4. CASE TakenOff
  BY <1>2, <1>3, <1>4 DEF TakenOff, DataInv
<1>5. CASE Finished
  <2> DEFINE id == Head(down).id
  <2>1. inflight' = inflight \ {id} /\ UNCHANGED <<up, written>> /\ Completed(id)
    BY <1>5 DEF Finished
  <2> HIDE DEF id
  <2>2. CASE id \in OutboxIds("PUBLISH")
    <3>1. outbox' = Delete(id, "PUBLISH") /\ Uncounted /\ Reported({id}, "published")
      BY <2>1, <2>2 DEF Completed
    <3>2. SoundBox(outbox)'
      BY <1>1, <3>1, DeleteKept, SoundKept
    <3>3. sent' \in 0 .. ReceiveMaximum
      BY <3>1, BoundAssumption DEF Uncounted, DataInv
    <3>4. promise' \in [Ids -> Fates]
      BY <3>1 DEF Reported, DataInv, Fates
    <3>5. QED  BY <1>2, <1>3, <2>1, <3>2, <3>3, <3>4 DEF DataInv
  <2>3. CASE id \notin OutboxIds("PUBLISH")
    BY <1>2, <1>3, <2>1, <2>3 DEF Completed, DataInv
  <2>4. QED  BY <2>2, <2>3
<1>6. CASE Acknowledged
  <2> DEFINE id == Head(down).id
  <2>1. /\ outbox' = SetPending(outbox, id, "ACKNOWLEDGED")
        /\ WroteOrNot(Control("PUBREL", id))
        /\ UNCHANGED <<sent, promise, inflight>> /\ Head(down).type = "PUBREC"
    BY <1>6 DEF Acknowledged, Released
  <2>2. id \in Ids /\ id # NoId /\ "ACKNOWLEDGED" \in PendingStates
    BY <1>1, <1>3, <2>1, IdsAssumption DEF SoundDown, PendingStates
  <2> HIDE DEF id
  <2>3. SoundBox(outbox)'
    BY <1>1, <2>1, <2>2, SoundSetPending
  <2>4. SoundUp(up)' /\ written' \subseteq Ids
    <3>1. CASE Wrote(Control("PUBREL", id))
      BY <2>2, <3>1, PubrelType, WroteProperty
    <3>2. CASE WriteFails
      BY <1>1, <3>2 DEF WriteFails, DataInv
    <3>3. QED  BY <2>1, <3>1, <3>2 DEF WroteOrNot
  <2>5. QED  BY <1>2, <1>3, <2>1, <2>3, <2>4 DEF DataInv
<1>7. CASE Granted
  <2>1. PICK type \in Requests : outbox' = Delete(Head(down).id, type)
    BY <1>7 DEF Granted
  <2>2. SoundBox(outbox)'
    BY <1>1, <2>1, DeleteKept, SoundKept
  <2>3. QED  BY <1>2, <1>3, <1>7, <2>2 DEF Granted, DataInv
<1>8. QED  BY <1>4, <1>5, <1>6, <1>7

\* What reconnecting makes of an item: it is queued again if it was under way.
LEMMA RequeuedType ==
    ASSUME NEW item \in Item, SoundItem(item)
    PROVE  LET new == [Requeued(item) EXCEPT !.old = TRUE]
           IN  /\ new \in Item /\ SoundItem(new)
               /\ new.id = item.id /\ new.type = item.type /\ new.qos = item.qos
               /\ \/ new.pending = item.pending /\ new.dup = item.dup
                     /\ (Version5 => item.pending # "TRANSMITTED")
                  \/ /\ item.pending = "TRANSMITTED" /\ new.pending = "QUEUED"
                     /\ new.dup = (item.dup \/ item.type = "PUBLISH")
BY DEF Requeued, Item, SoundItem, PendingStates

\* What is in the outbox after CONNECT was accepted
LEMMA ConnectedBox ==
    ASSUME DataInv, ConnectAccepted
    PROVE  /\ SoundBox(outbox)' /\ Len(outbox') = Len(outbox) /\ DOMAIN outbox' = DOMAIN outbox
           /\ \A k \in DOMAIN outbox :
                 /\ outbox[k] \in Item /\ SoundItem(outbox[k])
                 /\ outbox'[k] = [Requeued(outbox[k]) EXCEPT !.old = TRUE]
<1>1. SoundBox(outbox) /\ outbox \in Seq(Item) /\ Len(outbox) \in Nat
  BY DEF DataInv, SoundBox
<1>2. \A k \in DOMAIN outbox : outbox[k] \in Item /\ SoundItem(outbox[k])
  BY <1>1 DEF SoundBox
<1> DEFINE New(k) == [Requeued(outbox[k]) EXCEPT !.old = TRUE]
<1>3. outbox' = [k \in DOMAIN outbox |-> New(k)]
  BY DEF ConnectAccepted
<1>4. \A k \in DOMAIN outbox : New(k) \in Item /\ SoundItem(New(k))
  BY <1>2, RequeuedType
<1> HIDE DEF New
<1>5. DOMAIN outbox = 1 .. Len(outbox) /\ outbox' = [k \in 1 .. Len(outbox) |-> New(k)]
  BY <1>1, <1>3
<1>6. outbox' \in Seq(Item) /\ Len(outbox') = Len(outbox)
  BY <1>1, <1>4, <1>5, IsASeq
<1>7. \A k \in DOMAIN outbox : outbox'[k] = New(k)
  BY <1>3
<1>8. SoundBox(outbox)'
  BY <1>1, <1>4, <1>5, <1>6, <1>7 DEF SoundBox
<1>9. QED  BY <1>2, <1>5, <1>6, <1>7, <1>8 DEF New

\* The steps that end a connection, begin one, or empty the outbox
LEMMA LinkTypes ==
    ASSUME DataInv, Cut \/ Lost \/ DeleteExpired \/ ConnectAccepted \/ Purge
    PROVE  DataInv'
<1>1. SoundBox(outbox) /\ SoundUp(up) /\ SoundDown(down) /\ outbox \in Seq(Item)
  BY DEF DataInv, SoundBox
<1>2. SoundDown(<< >>) /\ SoundUp(<< >>) /\ SoundBox(<< >>)
  BY BoundAssumption DEF SoundDown, SoundUp, SoundBox
<1>3. CASE Cut
  <2>1. SoundBox(outbox)' /\ SoundDown(down)' /\ link' \in {"closed", "open", "broken"}
    BY <1>1, <1>3, SoundCut DEF Cut
  <2>2. QED  BY <1>3, <2>1 DEF Cut, Quiet, DataInv
<1>4. CASE Lost
  BY <1>2, <1>4 DEF Lost, DataInv
<1>5. CASE DeleteExpired
  <2>1. PICK k \in DOMAIN outbox :
           /\ outbox' = RemoveAt(outbox, k)
           /\ Reported(IF outbox[k].type = "PUBLISH" THEN {outbox[k].id} ELSE {}, "deleted")
    BY <1>5 DEF DeleteExpired
  <2>2. SoundBox(outbox)'
    BY <1>1, <2>1, RemoveAtProperty, SoundKept
  <2>3. promise' \in [Ids -> Fates]
    BY <2>1 DEF Reported, DataInv, Fates
  <2>4. QED  BY <1>5, <2>2, <2>3 DEF DeleteExpired, DataInv, network
<1>6. CASE ConnectAccepted
  <2>1. SoundBox(outbox)'
    BY <1>6, ConnectedBox
  <2>2. carried' \subseteq Ids
    <3>1. ASSUME NEW k \in DOMAIN outbox, outbox[k].pending = "ACKNOWLEDGED"
          PROVE  outbox[k].id \in Ids
      <4>1. outbox[k] \in Item /\ SoundItem(outbox[k])
        BY <1>1 DEF SoundBox
      <4>2. QED  BY <3>1, <4>1 DEF SoundItem, Item
    <3>2. QED  BY <1>6, <3>1 DEF ConnectAccepted
  <2>3. sent' \in 0 .. ReceiveMaximum
    BY <1>6, BoundAssumption DEF ConnectAccepted, CounterReset, DataInv
  <2>4. SoundUp(up)' /\ SoundDown(down)' /\ link' \in {"closed", "open", "broken"}
    BY <1>2, <1>6 DEF ConnectAccepted
  <2>5. held' \subseteq Ids /\ inflight' \subseteq Ids
    BY <1>6 DEF ConnectAccepted, DataInv
  <2>6. QED  BY <1>6, <2>1, <2>2, <2>3, <2>4, <2>5 DEF ConnectAccepted, DataInv
<1>7. CASE Purge
  <2>1. promise' \in [Ids -> Fates]
    BY <1>7 DEF Purge, Reported, DataInv, Fates
  <2>2. QED  BY <1>2, <1>7, <2>1 DEF Purge, DataInv
<1>8. QED  BY <1>3, <1>4, <1>5, <1>6, <1>7

\* What the broker answers a packet with
LEMMA AnswersProperty ==
    ASSUME NEW p \in Packet, NEW type \in Answers(p)
    PROVE  /\ type \in {"PUBACK", "PUBREC", "PUBCOMP", "SUBACK", "UNSUBACK", "PINGRESP"}
           /\ type = "PUBACK" => p.type = "PUBLISH" /\ p.qos = 1
           /\ type = "PUBREC" => p.type = "PUBLISH" /\ p.qos = 2
           /\ type = "PUBCOMP" => p.type = "PUBREL"
BY DEF Answers, Packet, Requests

\* The broker's answer joins those under way.
LEMMA BrokerDown ==
    ASSUME DataInv, Broker
    PROVE  /\ up # << >> /\ up' = Tail(up) /\ Head(up) \in Packet /\ SoundPacket(Head(up))
           /\ SoundUp(up)' /\ SoundDown(down)'
           /\ \/ down' = down
              \/ /\ link = "open"
                 /\ \E type \in Answers(Head(up)) :
                       /\ down' = Append(down, [type |-> type, id |-> Head(up).id])
                       /\ [type |-> type, id |-> Head(up).id] \in Answer
                       /\ type \in {"PUBACK", "PUBREC", "PUBCOMP"} => Head(up).id \in Ids
<1>1. SoundUp(up) /\ SoundDown(down) /\ up # << >> /\ up' = Tail(up)
  BY DEF DataInv, Broker
<1>2. Head(up) \in Packet /\ SoundPacket(Head(up)) /\ SoundUp(up)'
  BY <1>1, UpTail
<1> DEFINE p == Head(up)
<1>3. IF link = "open" /\ Answers(p) # {}
      THEN /\ Len(down) < ChannelMax
           /\ \E type \in Answers(p) : down' = Append(down, [type |-> type, id |-> p.id])
      ELSE UNCHANGED down
  BY DEF Broker
<1> HIDE DEF p
<1>4. CASE ~(link = "open" /\ Answers(p) # {})
  BY <1>1, <1>2, <1>3, <1>4 DEF p
<1>5. CASE link = "open" /\ Answers(p) # {}
  <2>1. PICK type \in Answers(p) : down' = Append(down, [type |-> type, id |-> p.id])
    BY <1>3, <1>5
  <2> DEFINE a == [type |-> type, id |-> p.id]
  <2>2. a \in Answer /\ (type \in {"PUBACK", "PUBREC", "PUBCOMP"} => p.id \in Ids)
    <3>1. p \in Packet /\ SoundPacket(p)
      BY <1>2 DEF p
    <3>2. QED  BY <3>1, AnswersProperty DEF Answer, Packet, SoundPacket
  <2>3. a.type = type /\ a.id = p.id /\ down' = Append(down, a)
    BY <2>1
  <2> HIDE DEF a
  <2>4. down \in Seq(Answer) /\ Len(down) \in Nat /\ ChannelMax \in Nat /\ Len(down) < ChannelMax
    BY <1>1, <1>3, <1>5, BoundAssumption DEF SoundDown
  <2>5. /\ Append(down, a) \in Seq(Answer) /\ Len(Append(down, a)) = Len(down) + 1
        /\ \A k \in DOMAIN Append(down, a) : Append(down, a)[k] = IF k <= Len(down) THEN down[k] ELSE a
        /\ \A k \in DOMAIN Append(down, a) : k <= Len(down) => k \in DOMAIN down
    BY <2>2, <2>4
  <2>6. SoundDown(Append(down, a))
    BY <1>1, <2>2, <2>3, <2>4, <2>5 DEF SoundDown
  <2>7. QED  BY <1>1, <1>2, <1>5, <2>1, <2>2, <2>3, <2>6 DEF p, a
<1>6. QED  BY <1>4, <1>5

LEMMA BrokerTypes ==
    ASSUME DataInv, Broker
    PROVE  DataInv'
<1>1. SoundUp(up)' /\ SoundDown(down)' /\ Head(up) \in Packet /\ SoundPacket(Head(up))
  BY BrokerDown
<1> DEFINE p == Head(up)
<1>2. /\ held' = IF p.type = "PUBREL" THEN held \ {p.id}
                 ELSE IF p.type = "PUBLISH" /\ p.qos = 2 THEN held \cup {p.id} ELSE held
      /\ delivered' = IF p.type # "PUBLISH" \/ p.qos = 0 \/ (p.qos = 2 /\ p.id \in held)
                      THEN delivered
                      ELSE [delivered EXCEPT ![p.id] = IF @ < 2 THEN @ + 1 ELSE @]
      /\ link' = IF p.type = "DISCONNECT" /\ link = "open" THEN "broken" ELSE link
  BY DEF Broker
<1> HIDE DEF p
<1>3. held' \subseteq Ids /\ link' \in {"closed", "open", "broken"}
  BY <1>1, <1>2 DEF p, SoundPacket, DataInv
<1>4. delivered' \in [Ids -> 0 .. 2]
  <2> DEFINE more == IF delivered[p.id] < 2 THEN delivered[p.id] + 1 ELSE delivered[p.id]
  <2>1. delivered' = delivered \/ delivered' = [delivered EXCEPT ![p.id] = more]
    BY <1>2
  <2>2. p.id \in Ids => more \in 0 .. 2
    BY DEF DataInv
  <2> HIDE DEF more
  <2>3. QED  BY <2>1, <2>2 DEF DataInv
<1>5. QED  BY <1>1, <1>3, <1>4 DEF Broker, DataInv

\* Every step keeps the types of the data.
LEMMA DataStep ==
    ASSUME DataInv, [Next]_vars
    PROVE  DataInv' /\ Kinds
<1>1. Kinds
  BY StepKinds DEF DataInv
<1>2. CASE UNCHANGED data
  BY <1>1, <1>2 DEF data, DataInv
<1>3. QED
  BY <1>1, <1>2, StoreTypes, WriteTypes, AnswerTypes, LinkTypes, BrokerTypes DEF Kinds

-----------------------------------------------------------------------------
(***************************************************************************)
(* Control: who holds the lock, and who may run.                           *)
(***************************************************************************)

\* The labels of a turn that has the lock
Locked == {"locked", "resend", "pubrel", "keepalive", "refresh"}

\* The lock is held by the worker inside a turn or by the one caller that
\* publishes; STOPPED_BIT is set only when the worker has left.
ControlInv ==
    /\ ControlTypes
    /\ pc \in Locked <=> lock = "worker"
    /\ \A c \in Callers : lock = c <=> caller[c] = "publish"
    /\ "STOPPED" \in bits => pc = "none"
    /\ OneWorker

LEMMA ControlCalls ==
    ASSUME ControlInv, NEW c \in Callers, Application(c) \/ Called(c)
    PROVE  ControlInv'
<1> USE CallerAssumption
<1>1. caller[c] \in {"idle", "publish", "reconnect", "join"} \cup Requests
  BY DEF ControlInv, ControlTypes
<1>2. CASE Start(c)
  BY <1>2 DEF Start, Calling, ControlInv, ControlTypes, OneWorker, ClientStates, Locked,
     network, timers
<1>3. CASE Stop(c)
  BY <1>3 DEF Stop, Calling, ControlInv, ControlTypes, OneWorker, ClientStates, Locked, timers,
     Requests
<1>4. CASE Join(c)
  BY <1>4 DEF Join, ControlInv, ControlTypes, OneWorker, Locked, network, timers, Requests
<1>5. CASE Disconnect(c)
  BY <1>1, <1>5 DEF Disconnect, Calling, ControlInv, ControlTypes, OneWorker, ClientStates,
     Locked, worker, clientVars, network, timers, Requests
<1>6. CASE Reconnect(c)
  BY <1>1, <1>6 DEF Reconnect, Calling, ControlInv, ControlTypes, OneWorker, ClientStates,
     Locked, worker, clientVars, network, timers, Requests
<1>7. CASE AskReconnect(c)
  BY <1>1, <1>7 DEF AskReconnect, Calling, ControlInv, ControlTypes, OneWorker, ClientStates,
     Locked, worker, clientVars, network, timers, Requests
<1>8. CASE Publish(c)
  BY <1>1, <1>8 DEF Publish, Return, Calling, ControlInv, ControlTypes, OneWorker, ClientStates,
     Locked, clientVars, network, timers, Requests
<1>9. CASE PublishRefused(c)
  BY <1>1, <1>9 DEF PublishRefused, Return, Calling, ControlInv, ControlTypes, OneWorker,
     ClientStates, Locked, clientVars, network, timers, Requests
<1>10. CASE PublishQos0(c)
  BY <1>1, <1>10 DEF PublishQos0, Return, Abort, AbortWith, LinkKept, ControlInv, ControlTypes,
     OneWorker, ClientStates, Locked, Requests
<1>11. CASE PublishStored(c)
  BY <1>1, <1>11 DEF PublishStored, Return, AbortWith, LinkKept, ControlInv, ControlTypes,
     OneWorker, ClientStates, Locked, Requests
<1>12. CASE Enqueue(c)
  BY <1>12 DEF Enqueue, ControlInv, ControlTypes, OneWorker, ClientStates, Locked, clientVars,
     worker, network, timers
<1>13. CASE Request(c)
  BY <1>1, <1>13 DEF Request, ControlInv, ControlTypes, OneWorker, ClientStates, Locked,
     clientVars, network, timers, Requests
<1>14. CASE RequestRefused(c)
  BY <1>1, <1>14 DEF RequestRefused, ControlInv, ControlTypes, OneWorker, ClientStates, Locked,
     clientVars, network, timers, Requests
<1>15. CASE RequestStored(c)
  BY <1>1, <1>15 DEF RequestStored, ControlInv, ControlTypes, OneWorker, ClientStates, Locked,
     clientVars, network, timers, Requests
<1>16. QED
  BY <1>2, <1>3, <1>4, <1>5, <1>6, <1>7, <1>8, <1>9, <1>10, <1>11, <1>12, <1>13, <1>14, <1>15
     DEF Application, Called

LEMMA ControlWorker ==
    ASSUME ControlInv, TakeLock \/ Worker \/ PollFails
    PROVE  ControlInv'
<1> USE CallerAssumption
<1>1. CASE TakeLock
  BY <1>1 DEF TakeLock, Goto, ControlInv, ControlTypes, OneWorker, ClientStates, Locked,
     clientVars, network, timers
<1>2. CASE LoopTest
  BY <1>2 DEF LoopTest, Goto, ControlInv, ControlTypes, OneWorker, ClientStates, Locked,
     clientVars, network, timers
<1>3. CASE DeleteExpired
  BY <1>3 DEF DeleteExpired, ControlInv, ControlTypes, OneWorker, ClientStates, Locked,
     clientVars, worker, network, timers
<1>4. CASE TurnDisconnected
  BY <1>4 DEF TurnDisconnected, In, Unlock, ControlInv, ControlTypes, OneWorker, ClientStates,
     Locked, clientVars, network, timers
<1>5. CASE NoTransport
  BY <1>5 DEF NoTransport, In, Unlock, ControlInv, ControlTypes, OneWorker, ClientStates,
     Locked, clientVars, network, timers
<1>6. CASE ConnectFails
  BY <1>6 DEF ConnectFails, Abort, AbortWith, In, Unlock, ControlInv, ControlTypes, OneWorker,
     ClientStates, Locked
<1>7. CASE ConnectAccepted
  <2>1. /\ pc = "locked" /\ pc' = "poll" /\ lock' = "free"
        /\ state' = "CONNECTED" /\ bits' \subseteq bits /\ pingWait' = FALSE /\ idle' = 0
        /\ UNCHANGED <<caller, run, task, stopping, faults>>
    BY <1>7 DEF ConnectAccepted, In, Unlock
  <2>2. pingWait' \in BOOLEAN
    BY <2>1, Zenon
  <2>3. idle' \in 0 .. 2
    BY <2>1
  <2>4. QED  BY <2>1, <2>2, <2>3 DEF ControlInv, ControlTypes, OneWorker, ClientStates, Locked
<1>8. CASE DisconnectAsked
  BY <1>8 DEF DisconnectAsked, Abort, AbortWith, In, Unlock, ControlInv, ControlTypes,
     OneWorker, ClientStates, Locked
<1>9. CASE ReceiveNothing
  BY <1>9 DEF ReceiveNothing, Receiving, In, Goto, ControlInv, ControlTypes, OneWorker,
     ClientStates, Locked, clientVars, network, timers
<1>10. CASE NotYet
  BY <1>10 DEF NotYet, Receiving, In, Goto, ControlInv, ControlTypes, OneWorker, ClientStates,
     Locked, clientVars, network, timers
<1>11. CASE NothingOld
  BY <1>11 DEF NothingOld, Receiving, In, Goto, ControlInv, ControlTypes, OneWorker,
     ClientStates, Locked, clientVars, network, timers
<1>12. CASE NoPubrelOld
  BY <1>12 DEF NoPubrelOld, Receiving, In, Goto, ControlInv, ControlTypes, OneWorker,
     ClientStates, Locked, clientVars, network, timers
<1>13. CASE KeepaliveFine
  BY <1>13 DEF KeepaliveFine, Receiving, In, Goto, ControlInv, ControlTypes, OneWorker,
     ClientStates, Locked, clientVars, network, timers
<1>14. CASE ReceiveFails
  BY <1>14 DEF ReceiveFails, Receiving, Abort, AbortWith, In, Unlock, ControlInv, ControlTypes,
     OneWorker, ClientStates, Locked
<1>15. CASE PingTimedOut
  BY <1>15 DEF PingTimedOut, Receiving, Abort, AbortWith, In, Unlock, ControlInv, ControlTypes,
     OneWorker, ClientStates, Locked
<1>16. CASE ReceiveCompletion
  BY <1>16 DEF ReceiveCompletion, Received, Receiving, In, Goto, ControlInv, ControlTypes,
     OneWorker, ClientStates, Locked, clientVars, timers
<1>17. CASE ReceivePubrec
  BY <1>17 DEF ReceivePubrec, Received, Receiving, In, Goto, ControlInv, ControlTypes,
     OneWorker, ClientStates, Locked, clientVars, timers
<1>18. CASE ReceiveSuback
  BY <1>18 DEF ReceiveSuback, Received, Receiving, In, Goto, ControlInv, ControlTypes,
     OneWorker, ClientStates, Locked, clientVars, timers
<1>19. CASE ReceivePingresp
  <2>1. /\ pc = "locked" /\ pc' = "resend" /\ pingWait' = FALSE /\ idle' = 0
        /\ UNCHANGED <<lock, caller, state, run, bits, task, stopping, faults>>
    BY <1>19 DEF ReceivePingresp, Received, Receiving, In, Goto, clientVars
  <2>2. pingWait' \in BOOLEAN
    BY <2>1, Zenon
  <2>3. idle' \in 0 .. 2
    BY <2>1
  <2>4. QED  BY <2>1, <2>2, <2>3 DEF ControlInv, ControlTypes, OneWorker, ClientStates, Locked
<1>20. CASE ResendQueued
  BY <1>20 DEF ResendQueued, Abort, AbortWith, LinkKept, Goto, ControlInv, ControlTypes,
     OneWorker, ClientStates, Locked
<1>21. CASE Retransmit
  BY <1>21 DEF Retransmit, AbortWith, LinkKept, Goto, ControlInv, ControlTypes, OneWorker,
     ClientStates, Locked
<1>22. CASE RetransmitPubrel
  BY <1>22 DEF RetransmitPubrel, Abort, AbortWith, LinkKept, Goto, ControlInv, ControlTypes,
     OneWorker, ClientStates, Locked
<1>23. CASE Ping
  BY <1>23 DEF Ping, Abort, AbortWith, Goto, Unlock, ControlInv, ControlTypes, OneWorker,
     ClientStates, Locked
<1>24. CASE Refresh
  BY <1>24 DEF Refresh, Unlock, ControlInv, ControlTypes, OneWorker, ClientStates, Locked,
     clientVars, network, timers
<1>25. CASE TurnEnds
  BY <1>25 DEF TurnEnds, Unlock, ControlInv, ControlTypes, OneWorker, ClientStates, Locked,
     clientVars, network, timers
<1>26. CASE Poll
  BY <1>26 DEF Poll, Goto, ControlInv, ControlTypes, OneWorker, ClientStates, Locked,
     clientVars, network, timers
<1>27. CASE PollEnds
  BY <1>27 DEF PollEnds, Goto, ControlInv, ControlTypes, OneWorker, ClientStates, Locked,
     clientVars, network, timers
<1>28. CASE PollFails
  BY <1>28 DEF PollFails, Abort, AbortWith, Goto, ControlInv, ControlTypes, OneWorker,
     ClientStates, Locked
<1>29. CASE ReconnectAsked
  BY <1>29 DEF ReconnectAsked, In, Unlock, ControlInv, ControlTypes, OneWorker, ClientStates,
     Locked, clientVars, network, timers
<1>30. CASE ReconnectDue
  BY <1>30 DEF ReconnectDue, In, Unlock, ControlInv, ControlTypes, OneWorker, ClientStates,
     Locked, clientVars, network, timers
<1>31. CASE KeepWaiting
  BY <1>31 DEF KeepWaiting, In, Unlock, ControlInv, ControlTypes, OneWorker, ClientStates,
     Locked, clientVars, network, timers
<1>32. CASE Purge
  BY <1>32 DEF Purge, Goto, ControlInv, ControlTypes, OneWorker, ClientStates, Locked,
     clientVars, timers
<1>33. CASE Exit
  BY <1>33 DEF Exit, Goto, ControlInv, ControlTypes, OneWorker, ClientStates, Locked, network,
     timers
<1>34. QED
  BY <1>1, <1>2, <1>3, <1>4, <1>5, <1>6, <1>7, <1>8, <1>9, <1>10, <1>11, <1>12, <1>13, <1>14,
     <1>15, <1>16, <1>17, <1>18, <1>19, <1>20, <1>21, <1>22, <1>23, <1>24, <1>25, <1>26, <1>27,
     <1>28, <1>29, <1>30, <1>31, <1>32, <1>33 DEF Worker, ReceiveData

\* Every step keeps ControlInv.
LEMMA ControlStep ==
    ASSUME ControlInv, [Next]_vars
    PROVE  ControlInv'
<1>1. CASE Broker
  BY <1>1 DEF Broker, ControlInv, ControlTypes, OneWorker, ClientStates, Locked, clientVars, worker,
     timers
<1>2. CASE Break
  BY <1>2, BoundAssumption DEF Break, ControlInv, ControlTypes, OneWorker, ClientStates, Locked,
     clientVars, worker, timers
<1>3. CASE Tick
  BY <1>3 DEF Tick, ControlInv, ControlTypes, OneWorker, ClientStates, Locked, clientVars, worker,
     network
<1>4. CASE UNCHANGED vars
  BY <1>4 DEF vars, ControlInv, ControlTypes, OneWorker, ClientStates, Locked, clientVars, worker,
     timers, network
<1>5. QED
  BY <1>1, <1>2, <1>3, <1>4, ControlCalls, ControlWorker DEF Next

-----------------------------------------------------------------------------
LEMMA InitialTypes == Init => DataInv /\ ControlInv
<1> SUFFICES ASSUME Init PROVE DataInv /\ ControlInv
  OBVIOUS
<1>1. SoundBox(<< >>) /\ SoundUp(<< >>) /\ SoundDown(<< >>)
  BY BoundAssumption DEF SoundBox, SoundUp, SoundDown
<1>2. DataInv
  BY <1>1, BoundAssumption DEF Init, DataInv, Fates
<1>3. ControlTypes
  <2>1. run \in BOOLEAN /\ task \in BOOLEAN /\ stopping \in BOOLEAN /\ pingWait \in BOOLEAN
    BY Zenon DEF Init
  <2>2. idle \in 0 .. 2 /\ faults \in 0 .. MaxFaults
    BY BoundAssumption DEF Init
  <2>3. QED  BY <2>1, <2>2 DEF Init, ControlTypes, ClientStates
<1>4. \A c \in Callers : caller[c] = "idle" /\ lock # c
  BY CallerAssumption DEF Init
<1>5. ControlInv
  BY <1>3, <1>4 DEF Init, ControlInv, OneWorker, Locked
<1>6. QED  BY <1>2, <1>5

\* The types of the client, and that identifiers and QoS belong together in
\* everything it stores, sends and reads
THEOREM DataSound == Spec => []DataInv
<1>1. Init => DataInv
  BY InitialTypes
<1>2. DataInv /\ [Next]_vars => DataInv'
  BY DataStep
<1>3. QED  BY <1>1, <1>2, PTL DEF Spec

\* The lock, the callers and the worker agree.
THEOREM ControlSound == Spec => []ControlInv
<1>1. Init => ControlInv
  BY InitialTypes
<1>2. ControlInv /\ [Next]_vars => ControlInv'
  BY ControlStep
<1>3. QED  BY <1>1, <1>2, PTL DEF Spec

\* Every variable of the client keeps its type: in particular the outbox and the
\* quota counter their bounds, whatever the calls, the answers and the failures
\* (mqtt_client.c:2122-2156, mqtt5_client.c:25-37).
THEOREM TypeCorrect == Spec => []TypeOK
<1>1. DataInv /\ ControlInv => TypeOK
  BY TypesAreTypeOK DEF ControlInv
<1>2. QED  BY <1>1, DataSound, ControlSound, PTL

\* However start, stop and the worker interleave, there is one worker at a time,
\* one caller that joins it, and only that caller clears the handle
\* (mqtt_client.c:2243-2254, 2358-2382).
THEOREM OneWorkerAlways == Spec => []OneWorker
<1>1. ControlInv => OneWorker
  BY DEF ControlInv
<1>2. QED  BY <1>1, ControlSound, PTL

-----------------------------------------------------------------------------
(***************************************************************************)
(* The steps by their effect on sets.                                      *)
(***************************************************************************)
Items   == Range(outbox)
Packets == Range(up)
Replies == Range(down)

\* An identifier names one item: outbox_delete and outbox_set_pending, which stop
\* at the first match, act on the message they mean.
Distinct(box) == \A j, k \in DOMAIN box : box[j].id = box[k].id /\ box[j].id # NoId => j = k

\* One of these items is the publish of this message.
Stored(S, id) == \E i \in S : i.type = "PUBLISH" /\ i.id = id

\* The publishes in the outbox are the messages that are accepted and not
\* reported yet.
IdInv ==
    /\ Distinct(outbox)
    /\ \A id \in Ids : promise[id] = "accepted" <=> Stored(Items, id)

-----------------------------------------------------------------------------
(***************************************************************************)
(* The operators on the outbox as operations on a set of items.            *)
(***************************************************************************)
LEMMA KeptRange ==
    ASSUME NEW old, NEW new, Kept(new, old), Distinct(old)
    PROVE  Range(new) \subseteq Range(old) /\ Distinct(new)
<1>1. PICK f \in [DOMAIN new -> DOMAIN old] :
          /\ \A j, k \in DOMAIN new : f[j] = f[k] => j = k
          /\ \A k \in DOMAIN new : new[k] = old[f[k]]
  BY DEF Kept
<1>2. Range(new) \subseteq Range(old)
  BY <1>1 DEF Range
<1>3. Distinct(new)
  <2> SUFFICES ASSUME NEW j \in DOMAIN new, NEW k \in DOMAIN new,
                      new[j].id = new[k].id, new[j].id # NoId
               PROVE  j = k
    BY DEF Distinct
  <2>1. f[j] = f[k]
    BY <1>1 DEF Distinct
  <2>2. QED  BY <1>1, <2>1
<1>4. QED  BY <1>2, <1>3

\* Under distinct identifiers, items with the same identifier are the same.
LEMMA SameItem ==
    ASSUME NEW box, Distinct(box), NEW i \in Range(box), NEW j \in Range(box), i.id = j.id,
           i.id # NoId
    PROVE  i = j
<1>1. PICK k \in DOMAIN box : i = box[k]
  BY DEF Range
<1>2. PICK l \in DOMAIN box : j = box[l]
  BY DEF Range
<1>3. QED  BY <1>1, <1>2 DEF Distinct

LEMMA AppendRange ==
    ASSUME NEW S, NEW box \in Seq(S), NEW item \in S
    PROVE  /\ Range(Append(box, item)) = Range(box) \cup {item}
           /\ Distinct(box) /\ (item.id = NoId \/ \A i \in Range(box) : i.id # item.id)
                 => Distinct(Append(box, item))
<1> DEFINE new == Append(box, item)
<1>1. /\ Len(box) \in Nat /\ DOMAIN box = 1 .. Len(box) /\ DOMAIN new = 1 .. Len(box) + 1
      /\ \A k \in DOMAIN box : new[k] = box[k]
      /\ new[Len(box) + 1] = item
  OBVIOUS
<1>2. \A k \in DOMAIN new : k \in DOMAIN box \/ k = Len(box) + 1
  BY <1>1
<1>3. DOMAIN box \subseteq DOMAIN new /\ Len(box) + 1 \in DOMAIN new
  BY <1>1
<1> HIDE DEF new
<1>4. Range(new) = Range(box) \cup {item}
  BY <1>1, <1>2, <1>3 DEF Range
<1>5. ASSUME Distinct(box), item.id = NoId \/ \A i \in Range(box) : i.id # item.id
      PROVE  Distinct(new)
  <2> SUFFICES ASSUME NEW j \in DOMAIN new, NEW k \in DOMAIN new,
                      new[j].id = new[k].id, new[j].id # NoId
               PROVE  j = k
    BY DEF Distinct
  <2>1. CASE j \in DOMAIN box /\ k \in DOMAIN box
    BY <1>1, <1>5, <2>1 DEF Distinct
  <2>2. CASE j \in DOMAIN box /\ k = Len(box) + 1
    BY <1>1, <1>5, <2>2 DEF Range
  <2>3. CASE k \in DOMAIN box /\ j = Len(box) + 1
    BY <1>1, <1>5, <2>3 DEF Range
  <2>4. QED  BY <1>2, <2>1, <2>2, <2>3
<1>6. QED  BY <1>4, <1>5 DEF new

\* A clean session's outbox loses requests only.
LEMMA RequestsRange ==
    ASSUME NEW box \in Seq(Item), Distinct(box)
    PROVE  /\ Range(DeleteRequests(box)) \subseteq Range(box) /\ Distinct(DeleteRequests(box))
           /\ \A i \in Range(box) : i.type = "PUBLISH" => i \in Range(DeleteRequests(box))
<1>1. Range(DeleteRequests(box)) \subseteq Range(box) /\ Distinct(DeleteRequests(box))
  BY DeleteRequestsProperty, KeptRange
<1>2. \A j \in DOMAIN box : box[j].type = "PUBLISH" =>
         \E k \in DOMAIN DeleteRequests(box) : DeleteRequests(box)[k] = box[j]
  BY DeleteRequestsProperty
<1>3. QED  BY <1>1, <1>2 DEF Range

LEMMA RemoveRange ==
    ASSUME NEW box \in Seq(Item), Distinct(box), NEW k \in DOMAIN box
    PROVE  LET new == RemoveAt(box, k)
           IN  /\ Distinct(new) /\ Range(new) \subseteq Range(box)
               /\ \A i \in Range(box) : i # box[k] => i \in Range(new)
               /\ box[k].id # NoId => box[k] \notin Range(new)
<1> DEFINE new == RemoveAt(box, k)
<1>1. /\ Kept(new, box)
      /\ \A j \in DOMAIN box : j # k => \E i \in DOMAIN new : new[i] = box[j]
      /\ \A i \in DOMAIN new : \E j \in DOMAIN box : j # k /\ new[i] = box[j]
  BY RemoveAtProperty
<1> HIDE DEF new
<1>2. Distinct(new) /\ Range(new) \subseteq Range(box)
  BY <1>1, KeptRange
<1>3. \A i \in Range(box) : i # box[k] => i \in Range(new)
  BY <1>1 DEF Range
<1>4. box[k].id # NoId => box[k] \notin Range(new)
  BY <1>1 DEF Range, Distinct
<1>5. QED  BY <1>2, <1>3, <1>4 DEF new

\* outbox_delete removes the item it means, and nothing else.
LEMMA DeleteRange ==
    ASSUME outbox \in Seq(Item), Distinct(outbox), NEW id, NEW type, id # NoId
    PROVE  /\ Distinct(Delete(id, type))
           /\ Range(Delete(id, type)) = {i \in Items : ~(i.id = id /\ i.type = type)}
<1>1. CASE /\ Delete(id, type) = outbox
           /\ \A k \in DOMAIN outbox : ~(outbox[k].id = id /\ outbox[k].type = type)
  BY <1>1 DEF Items, Range
<1>2. ASSUME NEW k \in DOMAIN outbox, outbox[k].id = id, outbox[k].type = type,
             Delete(id, type) = RemoveAt(outbox, k)
      PROVE  /\ Distinct(Delete(id, type))
             /\ Range(Delete(id, type)) = {i \in Items : ~(i.id = id /\ i.type = type)}
  <2>1. /\ Distinct(Delete(id, type)) /\ Range(Delete(id, type)) \subseteq Items
        /\ \A i \in Items : i # outbox[k] => i \in Range(Delete(id, type))
        /\ outbox[k] \notin Range(Delete(id, type))
    BY <1>2, RemoveRange DEF Items
  <2>2. \A i \in Items : i.id = id => i = outbox[k]
    BY <1>2, SameItem DEF Items, Range
  <2>3. QED  BY <1>2, <2>1, <2>2
<1>3. QED  BY <1>1, <1>2, DeleteProperty

\* One item is replaced by another with the same identifier.
LEMMA ReplaceRange ==
    ASSUME NEW box \in Seq(Item), Distinct(box), NEW k \in DOMAIN box, NEW item \in Item,
           item.id = box[k].id, box[k].id # NoId,
           NEW new, DOMAIN new = DOMAIN box, new[k] = item,
           \A j \in DOMAIN box : j # k => new[j] = box[j]
    PROVE  Distinct(new) /\ Range(new) = (Range(box) \ {box[k]}) \cup {item}
<1>1. \A j \in DOMAIN box : new[j].id = box[j].id
  OBVIOUS
<1>2. Distinct(new)
  BY <1>1 DEF Distinct
<1>3. \A j \in DOMAIN box : j # k => box[j] # box[k]
  BY DEF Distinct
<1>4. Range(new) = (Range(box) \ {box[k]}) \cup {item}
  BY <1>3 DEF Range
<1>5. QED  BY <1>2, <1>4

\* outbox_set_pending as an operation on a set of items
Marked(S, id, pending) ==
    {i \in S : i.id # id} \cup {[i EXCEPT !.pending = pending] : i \in {j \in S : j.id = id}}

\* outbox_set_pending marks the item it means, and nothing else.
LEMMA MarkedRange ==
    ASSUME NEW box \in Seq(Item), Distinct(box), NEW id, id # NoId, NEW pending \in PendingStates
    PROVE  LET new == SetPending(box, id, pending)
           IN  Distinct(new) /\ Range(new) = Marked(Range(box), id, pending)
<1> DEFINE new == SetPending(box, id, pending)
           Mark(i) == [i EXCEPT !.pending = pending]
           k0 == Get(box, id)
<1>1. \/ k0 = 0 /\ \A k \in DOMAIN box : box[k].id # id
      \/ k0 \in DOMAIN box /\ box[k0].id = id
  BY GetProperty
<1>2. \A k \in DOMAIN box : box[k].id = Mark(box[k]).id
  BY DEF Item
<1>3. new = IF k0 = 0 THEN box ELSE [box EXCEPT ![k0] = Mark(box[k0])]
  BY DEF SetPending
<1> HIDE DEF new, Mark, k0
<1>4. /\ DOMAIN new = DOMAIN box
      /\ \A k \in DOMAIN box : box[k].id # id => new[k] = box[k]
      /\ \A k \in DOMAIN box : box[k].id = id => new[k] = Mark(box[k])
  <2>1. CASE k0 = 0 /\ \A k \in DOMAIN box : box[k].id # id
    BY <1>3, <2>1
  <2>2. CASE k0 \in DOMAIN box /\ k0 # 0 /\ box[k0].id = id
    <3>1. \A k \in DOMAIN box : box[k].id = id => k = k0
      BY <2>2 DEF Distinct
    <3>2. QED  BY <1>3, <2>2, <3>1
  <2>3. QED  BY <1>1, <2>1, <2>2
<1>5. \A k \in DOMAIN box : new[k].id = box[k].id
  BY <1>2, <1>4
<1>6. Distinct(new)
  BY <1>4, <1>5 DEF Distinct
<1>7. Range(new) = {i \in Range(box) : i.id # id} \cup {Mark(i) : i \in {j \in Range(box) : j.id = id}}
  BY <1>4 DEF Range
<1>8. QED  BY <1>6, <1>7 DEF new, Marked, Mark

-----------------------------------------------------------------------------
(***************************************************************************)
(* The steps on these sets.                                                *)
(***************************************************************************)

\* The items are those of S, but for requests and QoS 0 publishes.
Keeps(S) ==
    /\ Items' \subseteq S
    /\ \A i \in S : i.type = "PUBLISH" /\ i.id # NoId => i \in Items'

\* p is written, and on its way or lost.
Sends(p) ==
    /\ p \in Packet /\ SoundPacket(p)
    /\ \/ up' = up /\ Packets' = Packets
       \/ up' = Append(up, p) /\ Packets' = Packets \cup {p}
    /\ written' = written \cup ({p.id} \ {NoId})
    /\ link # "closed"

Silent == UNCHANGED <<up, written, Packets>>

Ends  == Replies' = {} /\ link' = "closed"
Stays == UNCHANGED <<down, link, Replies>>

Takes(a) ==
    /\ a \in Replies /\ a \in Answer /\ Replies' \subseteq Replies
    /\ UNCHANGED <<link, held, delivered, carried>>

CutStep   == Keeps(Items) /\ Silent /\ Ends /\ Quiet
PlainStep == Keeps(Items) /\ (\E p \in Plain : Sends(p)) /\ (Ends \/ Stays) /\ Quiet

UnsentStep(id) ==
    /\ Keeps(Items \cup {NewItem(id, "PUBLISH", QosOf[id])}) /\ Silent /\ (Ends \/ Stays)
    /\ promise' = [promise EXCEPT ![id] = "accepted"]
    /\ UNCHANGED <<sent, held, delivered, inflight, carried>>

SentStep(id) ==
    LET item == NewItem(id, "PUBLISH", QosOf[id])
    IN  /\ Keeps(Items \cup {[item EXCEPT !.pending = "TRANSMITTED"]})
        /\ Sends(PacketOf(item, FALSE)) /\ Counted(item) /\ Stays /\ ~QuotaUsed
        /\ promise' = [promise EXCEPT ![id] = "accepted"]
        /\ UNCHANGED <<held, delivered, carried>>

Qos0Step == Keeps(Items \cup {NewItem(NoId, "PUBLISH", 0)}) /\ Silent /\ Stays /\ Quiet

RequestStep(id, type) ==
    LET item == [NewItem(id, type, 0) EXCEPT !.pending = "TRANSMITTED"]
    IN  /\ Keeps(Items \cup {item}) /\ Stays /\ Quiet
        /\ Sends(PacketOf(item, FALSE)) \/ Silent

ResentStep(i) ==
    /\ i.pending = "QUEUED" /\ (QuotaUsed => ~(i.type = "PUBLISH" /\ i.qos > 0))
    /\ Sends(PacketOf(i, i.dup)) /\ Counted(i) /\ Stays
    /\ Keeps(IF i.id = NoId THEN Items ELSE Marked(Items, i.id, "TRANSMITTED"))
    /\ UNCHANGED <<held, promise, delivered, carried>>

RetransmitStep(i) ==
    /\ i.pending = "TRANSMITTED" /\ i.id # NoId
    /\ Keeps((Items \ {i}) \cup {Retried(i)})
    /\ (Sends(PacketOf(Retried(i), Retried(i).dup)) /\ Stays) \/ (Silent /\ Ends)
    /\ Quiet

PubrelStep(i) ==
    /\ i.pending = "ACKNOWLEDGED" /\ i.id # NoId
    /\ Sends(Control("PUBREL", i.id)) /\ Keeps(Items) /\ Stays /\ Quiet

TakenStep(a) == Takes(a) /\ Keeps(Items) /\ Silent /\ UNCHANGED <<sent, promise, inflight>>

FinishedStep(a) ==
    /\ Takes(a) /\ a.type \in {"PUBACK", "PUBCOMP"} /\ a.id \in Ids /\ Silent
    /\ Keeps({i \in Items : ~(i.id = a.id /\ i.type = "PUBLISH")})
    /\ IF \E i \in Items : i.id = a.id /\ i.type = "PUBLISH"
       THEN Uncounted /\ Reported({a.id}, "published")
       ELSE UNCHANGED <<sent, promise>>
    /\ inflight' = inflight \ {a.id}

AckedStep(a) ==
    /\ Takes(a) /\ a.type = "PUBREC" /\ a.id \in Ids
    /\ Keeps(Marked(Items, a.id, "ACKNOWLEDGED"))
    /\ Sends(Control("PUBREL", a.id)) \/ Silent
    /\ UNCHANGED <<sent, promise, inflight>>

LostStep ==
    /\ Keeps(Items) /\ Silent /\ Replies' = {} /\ link = "open" /\ link' = "broken"
    /\ Quiet

ExpiredStep(i) ==
    /\ Expires
    /\ Keeps(IF i.id = NoId THEN Items ELSE Items \ {i}) /\ Silent /\ Stays
    /\ Reported(IF i.type = "PUBLISH" THEN {i.id} ELSE {}, "deleted")
    /\ UNCHANGED <<sent, held, delivered, inflight, carried>>

ConnectedStep ==
    /\ Keeps({[Requeued(i) EXCEPT !.old = TRUE] : i \in Items})
    /\ up' = << >> /\ Packets' = {} /\ Replies' = {} /\ link' = "open"
    /\ held' = (IF CleanSession THEN {} ELSE held)
    /\ CounterReset /\ inflight' = {}
    /\ carried' = {i.id : i \in {j \in Items : j.pending = "ACKNOWLEDGED"}}
    /\ UNCHANGED <<promise, delivered, written>>

PurgeStep ==
    /\ Items' = {} /\ Silent /\ Ends
    /\ promise' = [id \in Ids |-> IF \E i \in Items : i.type = "PUBLISH" /\ i.id = id
                                  THEN IF promise[id] = "accepted" THEN "dropped" ELSE "twice"
                                  ELSE promise[id]]
    /\ UNCHANGED <<sent, held, delivered, inflight, carried>>

BrokerStep(p) ==
    /\ p \in Packet /\ SoundPacket(p) /\ p = up[1] /\ Packets' \subseteq Packets
    /\ \A k \in DOMAIN up' : k + 1 \in DOMAIN up /\ up'[k] = up[k + 1]
    /\ \/ UNCHANGED <<down, Replies>>
       \/ /\ link = "open"
          /\ \E type \in Answers(p) :
                /\ [type |-> type, id |-> p.id] \in Answer
                /\ Replies' = Replies \cup {[type |-> type, id |-> p.id]}
    /\ held' = IF p.type = "PUBREL" THEN held \ {p.id}
               ELSE IF p.type = "PUBLISH" /\ p.qos = 2 THEN held \cup {p.id} ELSE held
    /\ delivered' = IF p.type # "PUBLISH" \/ p.qos = 0 \/ (p.qos = 2 /\ p.id \in held)
                    THEN delivered
                    ELSE [delivered EXCEPT ![p.id] = IF @ < 2 THEN @ + 1 ELSE @]
    /\ link' = link \/ (link = "open" /\ link' = "broken")
    /\ Keeps(Items) /\ UNCHANGED <<sent, promise, written, inflight, carried>>

Steps ==
    \/ UNCHANGED data \/ CutStep \/ PlainStep \/ Qos0Step \/ LostStep \/ ConnectedStep \/ PurgeStep
    \/ \E id \in FreshIds : UnsentStep(id) \/ SentStep(id) \/ \E type \in Requests : RequestStep(id, type)
    \/ \E i \in Items : i \in Item /\ SoundItem(i)
                        /\ (ResentStep(i) \/ RetransmitStep(i) \/ PubrelStep(i) \/ ExpiredStep(i))
    \/ \E a \in Replies : TakenStep(a) \/ FinishedStep(a) \/ AckedStep(a)
    \/ \E p \in Packets : BrokerStep(p)

-----------------------------------------------------------------------------
(***************************************************************************)
(* Each step is one of these.                                              *)
(***************************************************************************)
LEMMA WroteSends ==
    ASSUME DataInv, NEW p \in Packet, SoundPacket(p), Wrote(p)
    PROVE  Sends(p)
<1>1. up \in Seq(Packet)
  BY DEF DataInv, SoundUp
<1>2. up' = up \/ up' = Append(up, p)
  BY DEF Wrote
<1>3. Range(Append(up, p)) = Range(up) \cup {p}
  BY <1>1, AppendRange
<1>4. QED  BY <1>2, <1>3 DEF Wrote, Sends, Packets

\* What the end of the connection leaves of this outbox
LEMMA CutKeeps ==
    ASSUME NEW box \in Seq(Item), Distinct(box), CutWith(box)
    PROVE  Distinct(outbox') /\ Keeps(Range(box)) /\ Ends
<1>1. /\ Range(DeleteRequests(box)) \subseteq Range(box) /\ Distinct(DeleteRequests(box))
      /\ \A i \in Range(box) : i.type = "PUBLISH" => i \in Range(DeleteRequests(box))
  BY RequestsRange
<1>2. Range(<< >>) = {}
  BY DEF Range
<1>3. QED  BY <1>1, <1>2 DEF CutWith, Keeps, Items, Ends, Replies

LEMMA ItemsSound ==
    ASSUME DataInv
    PROVE  \A i \in Items : i \in Item /\ SoundItem(i)
<1>1. outbox \in Seq(Item) /\ \A k \in DOMAIN outbox : SoundItem(outbox[k])
  BY DEF DataInv, SoundBox
<1>2. \A k \in DOMAIN outbox : outbox[k] \in Item
  BY <1>1
<1>3. QED  BY <1>1, <1>2 DEF Items, Range

\* No item has the identifier of a new message or request.
LEMMA FreshItem ==
    ASSUME DataInv, IdInv, NEW id \in FreshIds
    PROVE  id \in Ids /\ id # NoId /\ \A i \in Items : i.id # id
<1>1. id \in Ids /\ id # NoId /\ promise[id] = "none"
  BY IdsAssumption DEF FreshIds
<1>2. \A k \in DOMAIN outbox : outbox[k].type \in Requests => outbox[k].id # id
  BY DEF FreshIds, OutboxIds, Requests
<1>3. \A i \in Items : i.type = "PUBLISH" => i.id # id
  BY <1>1 DEF IdInv, Stored
<1>4. \A i \in Items : i.type \in Requests \cup {"PUBLISH"}
  BY ItemsSound DEF Item
<1>5. QED  BY <1>1, <1>2, <1>3, <1>4 DEF Items, Range

LEMMA StoreSteps ==
    ASSUME DataInv, IdInv, StoredUnsent \/ StoredSent \/ StoredQos0 \/ StoredRequest
    PROVE  Distinct(outbox') /\ Steps
<1>1. outbox \in Seq(Item) /\ Distinct(outbox)
  BY DEF DataInv, SoundBox, IdInv
<1>2. CASE StoredUnsent
  <2>1. PICK id \in FreshIds :
           LET box == Append(outbox, NewItem(id, "PUBLISH", QosOf[id]))
           IN  /\ promise' = [promise EXCEPT ![id] = "accepted"]
               /\ (outbox' = box /\ UNCHANGED <<link, down>>) \/ CutWith(box)
    BY <1>2 DEF StoredUnsent
  <2> DEFINE item == NewItem(id, "PUBLISH", QosOf[id])
             box  == Append(outbox, item)
  <2>2. id \in Ids /\ id # NoId /\ \A i \in Items : i.id # id
    BY FreshItem
  <2>3. item \in Item /\ item.id = id
    BY <2>2, StoredItem DEF NewItem
  <2> HIDE DEF item
  <2>4. Range(box) = Items \cup {item} /\ Distinct(box) /\ box \in Seq(Item)
    BY <1>1, <2>2, <2>3, AppendRange DEF Items
  <2>5. (outbox' = box /\ UNCHANGED <<link, down>>) \/ CutWith(box)
    BY <2>1 DEF item
  <2> HIDE DEF box
  <2>6. Distinct(outbox') /\ Keeps(Items \cup {item}) /\ (Ends \/ Stays)
    <3>1. CASE outbox' = box /\ UNCHANGED <<link, down>>
      BY <2>4, <3>1 DEF Keeps, Items, Stays, Replies
    <3>2. CASE CutWith(box)
      BY <2>4, <3>2, CutKeeps
    <3>3. QED  BY <2>5, <3>1, <3>2
  <2>7. Silent
    BY <1>2 DEF StoredUnsent, Silent, Packets
  <2>8. UnsentStep(id)
    BY <1>2, <2>1, <2>6, <2>7 DEF StoredUnsent, UnsentStep, item
  <2>9. QED  BY <2>6, <2>8 DEF Steps
<1>3. CASE StoredSent
  <2>1. PICK id \in FreshIds :
           LET item == NewItem(id, "PUBLISH", QosOf[id])
           IN  /\ promise' = [promise EXCEPT ![id] = "accepted"]
               /\ Wrote(PacketOf(item, FALSE)) /\ Counted(item)
               /\ outbox' = Append(outbox, [item EXCEPT !.pending = "TRANSMITTED"])
    BY <1>3 DEF StoredSent
  <2> DEFINE item == NewItem(id, "PUBLISH", QosOf[id])
             new  == [item EXCEPT !.pending = "TRANSMITTED"]
  <2>2. id \in Ids /\ id # NoId /\ \A i \in Items : i.id # id
    BY FreshItem
  <2>3. item \in Item /\ SoundItem(item) /\ new \in Item
    BY <2>2, StoredItem
  <2>4. new.id = id
    BY DEF NewItem
  <2>5. /\ promise' = [promise EXCEPT ![id] = "accepted"]
        /\ Wrote(PacketOf(item, FALSE)) /\ Counted(item)
        /\ outbox' = Append(outbox, new)
    BY <2>1
  <2> HIDE DEF item, new
  <2>6. Range(outbox') = Items \cup {new} /\ Distinct(outbox')
    BY <1>1, <2>2, <2>3, <2>4, <2>5, AppendRange DEF Items
  <2>7. Sends(PacketOf(item, FALSE))
    BY <2>3, <2>5, PacketOfType, WroteSends
  <2>8. Keeps(Items \cup {new}) /\ Stays
    BY <1>3, <2>6 DEF StoredSent, Keeps, Items, Stays, Replies
  <2>9. SentStep(id)
    BY <1>3, <2>5, <2>7, <2>8 DEF StoredSent, SentStep, item, new
  <2>10. QED  BY <2>6, <2>9 DEF Steps
<1>4. CASE StoredQos0
  <2> DEFINE item == NewItem(NoId, "PUBLISH", 0)
  <2>1. item \in Item /\ item.id = NoId
    BY NewItemType DEF NewItem
  <2>2. outbox' = Append(outbox, item)
    BY <1>4 DEF StoredQos0
  <2> HIDE DEF item
  <2>3. Range(outbox') = Items \cup {item} /\ Distinct(outbox')
    BY <1>1, <2>1, <2>2, AppendRange DEF Items
  <2>4. Qos0Step
    BY <1>4, <2>3 DEF StoredQos0, Qos0Step, Keeps, Items, Silent, Stays, Quiet, Packets, Replies, item
  <2>5. QED  BY <2>3, <2>4 DEF Steps
<1>5. CASE StoredRequest
  <2>1. PICK id \in FreshIds, type \in Requests :
           LET item == [NewItem(id, type, 0) EXCEPT !.pending = "TRANSMITTED"]
           IN  outbox' = Append(outbox, item) /\ WroteOrNot(PacketOf(item, FALSE))
    BY <1>5 DEF StoredRequest
  <2> DEFINE item == [NewItem(id, type, 0) EXCEPT !.pending = "TRANSMITTED"]
  <2>2. id \in Ids /\ id # NoId /\ \A i \in Items : i.id # id
    BY FreshItem
  <2>3. item \in Item /\ SoundItem(item) /\ item.id = id
    BY <2>2, RequestItem
  <2>4. outbox' = Append(outbox, item) /\ WroteOrNot(PacketOf(item, FALSE))
    BY <2>1
  <2> HIDE DEF item
  <2>5. Range(outbox') = Items \cup {item} /\ Distinct(outbox')
    BY <1>1, <2>2, <2>3, <2>4, AppendRange DEF Items
  <2>6. Sends(PacketOf(item, FALSE)) \/ Silent
    <3>1. CASE Wrote(PacketOf(item, FALSE))
      BY <2>3, <3>1, PacketOfType, WroteSends
    <3>2. CASE WriteFails
      BY <3>2 DEF WriteFails, Silent, Packets
    <3>3. QED  BY <2>4, <3>1, <3>2 DEF WroteOrNot
  <2>7. Keeps(Items \cup {item}) /\ Stays /\ Quiet
    BY <1>5, <2>5 DEF StoredRequest, Keeps, Items, Stays, Replies, Quiet
  <2>8. RequestStep(id, type)
    BY <2>6, <2>7 DEF RequestStep, item
  <2>9. QED  BY <2>5, <2>8 DEF Steps
<1>6. QED  BY <1>2, <1>3, <1>4, <1>5

LEMMA WriteSteps ==
    ASSUME DataInv, IdInv, PlainWrite \/ ResentQueued \/ Retransmitted \/ PubrelSent
    PROVE  Distinct(outbox') /\ Steps
<1>1. outbox \in Seq(Item) /\ Distinct(outbox)
  BY DEF DataInv, SoundBox, IdInv
<1>2. \A k \in DOMAIN outbox : outbox[k] \in Items /\ outbox[k] \in Item /\ SoundItem(outbox[k])
  BY ItemsSound DEF Items, Range
<1>3. CASE PlainWrite
  <2>1. PICK p \in Plain : Wrote(p)
    BY <1>3 DEF PlainWrite
  <2>2. p \in Packet /\ SoundPacket(p)
    BY DEF Plain, SoundPacket
  <2>3. Sends(p)
    BY <2>1, <2>2, WroteSends
  <2>4. Distinct(outbox') /\ Keeps(Items) /\ (Ends \/ Stays)
    <3>1. CASE UNCHANGED <<link, down, outbox>>
      BY <1>1, <3>1 DEF Keeps, Items, Stays, Replies
    <3>2. CASE CutWith(outbox)
      BY <1>1, <3>2, CutKeeps DEF Items
    <3>3. QED  BY <1>3, <3>1, <3>2 DEF PlainWrite
  <2>5. PlainStep
    BY <1>3, <2>3, <2>4 DEF PlainWrite, PlainStep
  <2>6. QED  BY <2>4, <2>5 DEF Steps
<1>4. CASE ResentQueued
  <2> DEFINE i == outbox[Sendable]
  <2>1. /\ Sendable \in DOMAIN outbox /\ i.pending = "QUEUED"
        /\ QuotaUsed => ~(i.type = "PUBLISH" /\ i.qos > 0)
    BY <1>4, SendableProperty DEF ResentQueued
  <2>2. i \in Items /\ i \in Item /\ SoundItem(i)
    BY <1>2, <2>1
  <2>3. /\ Wrote(PacketOf(i, i.dup)) /\ Counted(i)
        /\ outbox' = IF i.id = NoId THEN RemoveAt(outbox, Sendable)
                     ELSE SetPending(outbox, i.id, "TRANSMITTED")
        /\ UNCHANGED <<link, down, held, promise, delivered, carried>>
    BY <1>4 DEF ResentQueued
  <2>4. ASSUME i.id = NoId PROVE Distinct(outbox') /\ Keeps(Items)
    <3>1. /\ Distinct(outbox') /\ Items' \subseteq Items
          /\ \A j \in Items : j # i => j \in Items'
      BY <1>1, <2>1, <2>3, <2>4, RemoveRange DEF Items
    <3>2. QED  BY <2>4, <3>1 DEF Keeps
  <2> HIDE DEF i
  <2>5. ASSUME i.id # NoId
        PROVE  Distinct(outbox') /\ Keeps(Marked(Items, i.id, "TRANSMITTED"))
    <3>1. "TRANSMITTED" \in PendingStates
      BY DEF PendingStates
    <3>2. Distinct(outbox') /\ Items' = Marked(Items, i.id, "TRANSMITTED")
      BY <1>1, <2>3, <2>5, <3>1, MarkedRange DEF Items
    <3>3. QED  BY <3>2 DEF Keeps
  <2>6. Sends(PacketOf(i, i.dup))
    <3>1. i.dup \in BOOLEAN
      BY <2>2 DEF Item
    <3>2. QED  BY <2>2, <2>3, <3>1, PacketOfType, WroteSends
  <2>7. Keeps(IF i.id = NoId THEN Items ELSE Marked(Items, i.id, "TRANSMITTED"))
    BY <2>4, <2>5
  <2>8. ResentStep(i)
    BY <2>1, <2>3, <2>6, <2>7 DEF ResentStep, Stays, Replies
  <2>9. QED  BY <2>2, <2>4, <2>5, <2>8 DEF Steps
<1>5. CASE Retransmitted
  <2> DEFINE k == Dequeue("TRANSMITTED")
             i == outbox[k]
             box == [outbox EXCEPT ![k] = Retried(@)]
  <2>1. k \in DOMAIN outbox /\ i.pending = "TRANSMITTED"
    BY <1>1, <1>5, DequeueProperty DEF Retransmitted
  <2>2. /\ \/ /\ Wrote(PacketOf(box[k], box[k].dup)) /\ outbox' = box
              /\ UNCHANGED <<link, down>>
           \/ CutWith(box) /\ UNCHANGED <<up, written>>
        /\ Quiet
    BY <1>5 DEF Retransmitted
  <2>3. i \in Items /\ i \in Item /\ SoundItem(i)
    BY <1>2, <2>1
  <2>4. i.id # NoId
    BY <2>1, <2>3 DEF SoundItem
  <2>5. Retried(i) \in Item /\ SoundItem(Retried(i)) /\ Retried(i).id = i.id
    BY <2>3 DEF Retried, Item, SoundItem
  <2>6. box = [outbox EXCEPT ![k] = Retried(i)]
    OBVIOUS
  <2> HIDE DEF k, box
  <2>7. /\ box \in Seq(Item) /\ DOMAIN box = DOMAIN outbox
        /\ box[k] = Retried(i) /\ \A j \in DOMAIN outbox : j # k => box[j] = outbox[j]
    BY <1>1, <2>1, <2>5, <2>6, ExceptSeq
  <2>8. Distinct(box) /\ Range(box) = (Items \ {i}) \cup {Retried(i)}
    BY <1>1, <2>1, <2>4, <2>5, <2>7, ReplaceRange DEF Items
  <2> HIDE DEF i
  <2>9. CASE /\ Wrote(PacketOf(box[k], box[k].dup)) /\ outbox' = box
             /\ UNCHANGED <<link, down>>
    <3>1. Retried(i).dup \in BOOLEAN
      BY <2>5 DEF Item
    <3>2. Sends(PacketOf(Retried(i), Retried(i).dup))
      BY <2>5, <2>7, <2>9, <3>1, PacketOfType, WroteSends
    <3>3. Distinct(outbox') /\ Keeps((Items \ {i}) \cup {Retried(i)}) /\ Stays
      BY <2>8, <2>9 DEF Keeps, Items, Stays, Replies
    <3>4. RetransmitStep(i)
      BY <2>1, <2>2, <2>4, <3>2, <3>3 DEF RetransmitStep
    <3>5. QED  BY <2>3, <3>3, <3>4 DEF Steps
  <2>10. CASE CutWith(box) /\ UNCHANGED <<up, written>>
    <3>1. Distinct(outbox') /\ Keeps((Items \ {i}) \cup {Retried(i)}) /\ Ends
      BY <2>7, <2>8, <2>10, CutKeeps
    <3>2. RetransmitStep(i)
      BY <2>1, <2>2, <2>4, <2>10, <3>1 DEF RetransmitStep, Silent, Packets
    <3>3. QED  BY <2>3, <3>1, <3>2 DEF Steps
  <2>11. QED  BY <2>2, <2>9, <2>10
<1>6. CASE PubrelSent
  <2> DEFINE k == Dequeue("ACKNOWLEDGED")
             i == outbox[k]
  <2>1. k \in DOMAIN outbox /\ i.pending = "ACKNOWLEDGED"
    BY <1>1, <1>6, DequeueProperty DEF PubrelSent
  <2>2. Wrote(Control("PUBREL", i.id)) /\ UNCHANGED <<outbox, link, down>> /\ Quiet
    BY <1>6 DEF PubrelSent
  <2>3. i \in Items /\ i \in Item /\ SoundItem(i)
    BY <1>2, <2>1
  <2> HIDE DEF i
  <2>4. i.id # NoId /\ i.id \in Ids
    BY <2>1, <2>3 DEF SoundItem, Item
  <2>5. Sends(Control("PUBREL", i.id))
    BY <2>2, <2>4, PubrelType, WroteSends
  <2>6. Keeps(Items) /\ Stays /\ Distinct(outbox')
    BY <1>1, <2>2 DEF Keeps, Items, Stays, Replies
  <2>7. PubrelStep(i)
    BY <2>1, <2>2, <2>4, <2>5, <2>6 DEF PubrelStep
  <2>8. QED  BY <2>3, <2>6, <2>7 DEF Steps
<1>7. QED  BY <1>3, <1>4, <1>5, <1>6

LEMMA AnswerSteps ==
    ASSUME DataInv, IdInv, TakenOff \/ Finished \/ Acknowledged \/ Granted
    PROVE  Distinct(outbox') /\ Steps
<1>1. outbox \in Seq(Item) /\ Distinct(outbox) /\ SoundDown(down)
  BY DEF DataInv, SoundBox, IdInv
<1> DEFINE a == Head(down)
<1>2. /\ down # << >> /\ down' = Tail(down)
      /\ UNCHANGED <<link, held, delivered, carried>>
  BY DEF TakenOff, Finished, Acknowledged, Granted, TakesOff
<1>3. /\ a = down[1] /\ 1 \in DOMAIN down /\ a \in Answer
      /\ \A k \in DOMAIN Tail(down) : k + 1 \in DOMAIN down /\ Tail(down)[k] = down[k + 1]
  BY <1>1, <1>2, DownTail
<1>4. a.type \in {"PUBACK", "PUBREC", "PUBCOMP"} => a.id \in Ids
  BY <1>1, <1>3 DEF SoundDown
<1> HIDE DEF a
<1>5. Takes(a) /\ a \in Replies
  BY <1>2, <1>3 DEF Takes, Replies, Range
<1>6. CASE TakenOff
  <2>1. Keeps(Items) /\ Distinct(outbox') /\ Silent
    BY <1>1, <1>6 DEF TakenOff, Keeps, Items, Silent, Packets
  <2>2. TakenStep(a)
    BY <1>5, <1>6, <2>1 DEF TakenOff, TakenStep
  <2>3. QED  BY <1>5, <2>1, <2>2 DEF Steps
<1>7. CASE Finished
  <2>1. /\ a.type \in {"PUBACK", "PUBCOMP"} /\ Completed(a.id)
        /\ inflight' = inflight \ {a.id} /\ UNCHANGED <<up, written>>
    BY <1>7 DEF Finished, a
  <2>2. a.id \in Ids /\ a.id # NoId
    BY <1>4, <2>1, IdsAssumption
  <2>3. a.id \in OutboxIds("PUBLISH") <=> \E i \in Items : i.id = a.id /\ i.type = "PUBLISH"
    BY DEF OutboxIds, Items, Range
  <2> DEFINE rest == {i \in Items : ~(i.id = a.id /\ i.type = "PUBLISH")}
  <2>4. /\ Distinct(outbox') /\ Items' = rest
        /\ IF \E i \in Items : i.id = a.id /\ i.type = "PUBLISH"
           THEN Uncounted /\ Reported({a.id}, "published")
           ELSE UNCHANGED <<sent, promise>>
    <3>1. CASE a.id \in OutboxIds("PUBLISH")
      <4>1. outbox' = Delete(a.id, "PUBLISH") /\ Uncounted /\ Reported({a.id}, "published")
        BY <2>1, <3>1 DEF Completed
      <4>2. Distinct(outbox') /\ Items' = rest
        BY <1>1, <2>2, <4>1, DeleteRange DEF Items
      <4>3. QED  BY <2>3, <3>1, <4>1, <4>2
    <3>2. CASE a.id \notin OutboxIds("PUBLISH")
      BY <1>1, <2>1, <2>3, <3>2 DEF Completed, Items
    <3>3. QED  BY <3>1, <3>2
  <2>5. Keeps(rest) /\ Silent
    BY <2>1, <2>4 DEF Keeps, Silent, Packets
  <2>6. FinishedStep(a)
    BY <1>5, <2>1, <2>2, <2>4, <2>5 DEF FinishedStep
  <2>7. QED  BY <1>5, <2>4, <2>6 DEF Steps
<1>8. CASE Acknowledged
  <2>1. /\ a.type = "PUBREC" /\ outbox' = SetPending(outbox, a.id, "ACKNOWLEDGED")
        /\ WroteOrNot(Control("PUBREL", a.id))
        /\ UNCHANGED <<sent, promise, inflight>>
    BY <1>8 DEF Acknowledged, Released, a
  <2>2. a.id \in Ids /\ a.id # NoId /\ "ACKNOWLEDGED" \in PendingStates
    BY <1>4, <2>1, IdsAssumption DEF PendingStates
  <2>3. Distinct(outbox') /\ Items' = Marked(Items, a.id, "ACKNOWLEDGED")
    BY <1>1, <2>1, <2>2, MarkedRange DEF Items
  <2>4. Sends(Control("PUBREL", a.id)) \/ Silent
    <3>1. CASE Wrote(Control("PUBREL", a.id))
      BY <2>2, <3>1, PubrelType, WroteSends
    <3>2. CASE WriteFails
      BY <3>2 DEF WriteFails, Silent, Packets
    <3>3. QED  BY <2>1, <3>1, <3>2 DEF WroteOrNot
  <2>5. AckedStep(a)
    BY <1>5, <2>1, <2>2, <2>3, <2>4 DEF AckedStep, Keeps
  <2>6. QED  BY <1>5, <2>3, <2>5 DEF Steps
<1>9. CASE Granted
  <2>1. PICK type \in Requests : outbox' = Delete(a.id, type)
    BY <1>9 DEF Granted, a
  <2>2. Distinct(outbox') /\ Keeps(Items)
    <3>1. CASE a.id # NoId
      <4>1. Distinct(outbox') /\ Items' = {i \in Items : ~(i.id = a.id /\ i.type = type)}
        BY <1>1, <2>1, <3>1, DeleteRange DEF Items
      <4>2. type # "PUBLISH"
        BY DEF Requests
      <4>3. QED  BY <4>1, <4>2 DEF Keeps
    <3>2. CASE a.id = NoId
      <4>1. \A k \in DOMAIN outbox : ~(outbox[k].id = NoId /\ outbox[k].type = type)
        BY ItemsSound DEF Items, Range, SoundItem, Requests
      <4>2. outbox' = outbox
        BY <1>1, <2>1, <3>2, <4>1, DeleteProperty
      <4>3. QED  BY <1>1, <4>2 DEF Keeps, Items
    <3>3. QED  BY <3>1, <3>2
  <2>3. TakenStep(a)
    BY <1>5, <1>9, <2>2 DEF Granted, TakenStep, Silent, Packets
  <2>4. QED  BY <1>5, <2>2, <2>3 DEF Steps
<1>10. QED  BY <1>6, <1>7, <1>8, <1>9

LEMMA LinkSteps ==
    ASSUME DataInv, IdInv, Cut \/ Lost \/ DeleteExpired \/ ConnectAccepted \/ Purge
    PROVE  Distinct(outbox') /\ Steps
<1>1. outbox \in Seq(Item) /\ Distinct(outbox)
  BY DEF DataInv, SoundBox, IdInv
<1>2. \A k \in DOMAIN outbox : outbox[k] \in Items /\ outbox[k] \in Item /\ SoundItem(outbox[k])
  BY ItemsSound DEF Items, Range
<1>3. Range(<< >>) = {}
  BY DEF Range
<1>4. CASE Cut
  <2>1. Distinct(outbox') /\ Keeps(Items) /\ Ends
    BY <1>1, <1>4, CutKeeps DEF Cut, Items
  <2>2. CutStep
    BY <1>4, <2>1 DEF Cut, CutStep, Silent, Packets
  <2>3. QED  BY <2>1, <2>2 DEF Steps
<1>5. CASE Lost
  <2>1. Distinct(outbox') /\ LostStep
    BY <1>1, <1>3, <1>5 DEF Lost, LostStep, Keeps, Items, Silent, Packets, Replies, Quiet
  <2>2. QED  BY <2>1 DEF Steps
<1>6. CASE DeleteExpired
  <2>1. PICK k \in DOMAIN outbox :
           /\ outbox' = RemoveAt(outbox, k)
           /\ Reported(IF outbox[k].type = "PUBLISH" THEN {outbox[k].id} ELSE {}, "deleted")
    BY <1>6 DEF DeleteExpired
  <2> DEFINE i == outbox[k]
  <2>2. i \in Items /\ i \in Item /\ SoundItem(i)
    BY <1>2
  <2>3. /\ Distinct(outbox') /\ Items' \subseteq Items
        /\ \A j \in Items : j # i => j \in Items'
        /\ i.id # NoId => i \notin Items'
    BY <1>1, <2>1, RemoveRange DEF Items
  <2>4. Reported(IF i.type = "PUBLISH" THEN {i.id} ELSE {}, "deleted")
    BY <2>1
  <2> HIDE DEF i
  <2>5. Keeps(IF i.id = NoId THEN Items ELSE Items \ {i})
    BY <2>3 DEF Keeps
  <2>6. ExpiredStep(i)
    BY <1>6, <2>4, <2>5 DEF DeleteExpired, ExpiredStep, Silent, Stays, network, Packets, Replies
  <2>7. QED  BY <2>2, <2>3, <2>6 DEF Steps
<1>7. CASE ConnectAccepted
  <2> DEFINE New(i) == [Requeued(i) EXCEPT !.old = TRUE]
  <2>1. /\ DOMAIN outbox' = DOMAIN outbox
        /\ \A k \in DOMAIN outbox : outbox'[k] = New(outbox[k])
    BY <1>7, ConnectedBox
  <2>2. \A k \in DOMAIN outbox : New(outbox[k]).id = outbox[k].id
    BY <1>2, RequeuedType
  <2> HIDE DEF New
  <2>3. Distinct(outbox')
    BY <1>1, <2>1, <2>2 DEF Distinct
  <2>4. Items' = {New(i) : i \in Items}
    BY <2>1 DEF Items, Range
  <2>5. Keeps({New(i) : i \in Items})
    BY <2>4 DEF Keeps
  <2>6. carried' = {i.id : i \in {j \in Items : j.pending = "ACKNOWLEDGED"}}
    BY <1>7 DEF ConnectAccepted, Items, Range
  <2>7. Packets' = {} /\ Replies' = {}
    BY <1>3, <1>7 DEF ConnectAccepted, Packets, Replies
  <2>8. ConnectedStep
    BY <1>7, <2>5, <2>6, <2>7 DEF ConnectAccepted, ConnectedStep, New
  <2>9. QED  BY <2>3, <2>8 DEF Steps
<1>8. CASE Purge
  <2>1. outbox' = << >> /\ link' = "closed" /\ down' = << >> /\ Reported(OutboxIds("PUBLISH"), "dropped")
    BY <1>8 DEF Purge
  <2>2. Distinct(outbox') /\ Items' = {} /\ Ends
    BY <1>3, <2>1 DEF Items, Ends, Replies, Distinct
  <2>3. \A id \in Ids : id \in OutboxIds("PUBLISH")
                           <=> \E i \in Items : i.type = "PUBLISH" /\ i.id = id
    BY DEF OutboxIds, Items, Range
  <2>4. promise' = [id \in Ids |-> IF \E i \in Items : i.type = "PUBLISH" /\ i.id = id
                                   THEN IF promise[id] = "accepted" THEN "dropped" ELSE "twice"
                                   ELSE promise[id]]
    BY <2>1, <2>3 DEF Reported
  <2>5. PurgeStep
    BY <1>8, <2>2, <2>4 DEF Purge, PurgeStep, Silent, Packets
  <2>6. QED  BY <2>2, <2>5 DEF Steps
<1>9. QED  BY <1>4, <1>5, <1>6, <1>7, <1>8

LEMMA BrokerSteps ==
    ASSUME DataInv, IdInv, Broker
    PROVE  Distinct(outbox') /\ Steps
<1> DEFINE p == Head(up)
<1>1. SoundUp(up) /\ down \in Seq(Answer)
  BY DEF DataInv, SoundDown
<1>2. /\ up # << >> /\ up' = Tail(up)
      /\ \/ down' = down
         \/ /\ link = "open"
            /\ \E type \in Answers(p) :
                  /\ down' = Append(down, [type |-> type, id |-> p.id])
                  /\ [type |-> type, id |-> p.id] \in Answer
  BY BrokerDown
<1>3. /\ p = up[1] /\ 1 \in DOMAIN up /\ p \in Packet /\ SoundPacket(p)
      /\ \A k \in DOMAIN up' : k + 1 \in DOMAIN up /\ up'[k] = up[k + 1]
  BY <1>1, <1>2, UpTail
<1>4. /\ held' = IF p.type = "PUBREL" THEN held \ {p.id}
                 ELSE IF p.type = "PUBLISH" /\ p.qos = 2 THEN held \cup {p.id} ELSE held
      /\ delivered' = IF p.type # "PUBLISH" \/ p.qos = 0 \/ (p.qos = 2 /\ p.id \in held)
                      THEN delivered
                      ELSE [delivered EXCEPT ![p.id] = IF @ < 2 THEN @ + 1 ELSE @]
      /\ link' = link \/ (link = "open" /\ link' = "broken")
      /\ UNCHANGED <<outbox, sent, promise, written, inflight, carried>>
  BY DEF Broker
<1> HIDE DEF p
<1>5. p \in Packets /\ Packets' \subseteq Packets
  BY <1>3 DEF Packets, Range
<1>6. \/ UNCHANGED <<down, Replies>>
      \/ /\ link = "open"
         /\ \E type \in Answers(p) :
               /\ [type |-> type, id |-> p.id] \in Answer
               /\ Replies' = Replies \cup {[type |-> type, id |-> p.id]}
  <2>1. CASE down' = down
    BY <2>1 DEF Replies
  <2>2. ASSUME link = "open", NEW type \in Answers(p), NEW a \in Answer,
               a = [type |-> type, id |-> p.id], down' = Append(down, a)
        PROVE  Replies' = Replies \cup {a}
    BY <1>1, <2>2, AppendRange DEF Replies
  <2>3. QED  BY <1>2, <2>1, <2>2
<1>7. Keeps(Items) /\ Distinct(outbox')
  BY <1>4 DEF Keeps, Items, IdInv
<1>8. BrokerStep(p)
  BY <1>3, <1>4, <1>5, <1>6, <1>7 DEF BrokerStep
<1>9. QED  BY <1>5, <1>7, <1>8 DEF Steps

\* What a step does to the sets is one of these.
LEMMA StepsComplete ==
    ASSUME DataInv, IdInv, [Next]_vars
    PROVE  DataInv' /\ Distinct(outbox') /\ Steps
<1>1. DataInv' /\ Kinds
  BY DataStep
<1>2. CASE UNCHANGED data
  <2>1. outbox' = outbox
    BY <1>2 DEF data
  <2>2. QED  BY <1>1, <1>2, <2>1 DEF Steps, IdInv
<1>3. QED
  BY <1>1, <1>2, StoreSteps, WriteSteps, AnswerSteps, LinkSteps, BrokerSteps DEF Kinds
=============================================================================
