------------------------- MODULE MqttComposeProofs --------------------------
(***************************************************************************)
(* Every packet of MqttCompose is whole, for any sizes of topics,          *)
(* properties, payloads and buffer and after any calls, as long as what is *)
(* enqueued, held for quota or finds no memory fits the buffer; and the    *)
(* length it announces is read back.                                       *)
(***************************************************************************)
EXTENDS MqttCompose, SequenceTheorems, WellFoundedInduction, TLAPS

-----------------------------------------------------------------------------
(***************************************************************************)
(* The length bytes of a packet: the recursion is well defined, and four   *)
(* bytes are enough for what MQTT allows.                                  *)
(***************************************************************************)

\* A set of naturals that is not empty has a least element.
LEMMA LeastLength ==
    ASSUME NEW S \in SUBSET Nat, S # {}
    PROVE  \E n \in S : \A m \in S : n <= m
<1>1. IsWellFoundedOn(OpToRel(<, Nat), Nat)
  BY NatLessThanWellFounded, Zenon
<1>2. PICK n \in S : \A m \in S : ~(<<m, n>> \in OpToRel(<, Nat))
  BY <1>1, WFMin, Zenon
<1>3. \A m \in S : ~(m < n)
  BY <1>2 DEF OpToRel
<1>4. QED  BY <1>3

\* The length bytes of n, given those of smaller numbers
StepBytes(f, n) == IF n < 128 THEN <<n>> ELSE <<128 + (n % 128)>> \o f[n \div 128]

\* f gives the length bytes up to m.
BytesUpTo(f, m) == f \in [0 .. m -> Seq(Nat)] /\ \A n \in 0 .. m : f[n] = StepBytes(f, n)

LEMMA Quotient ==
    ASSUME NEW n \in Nat, n >= 128
    PROVE  n \div 128 \in Nat /\ n \div 128 < n /\ n % 128 \in Nat
OBVIOUS

LEMMA StepBytesType ==
    ASSUME NEW f, NEW n \in Nat, n >= 128 => f[n \div 128] \in Seq(Nat)
    PROVE  StepBytes(f, n) \in Seq(Nat)
<1>1. CASE n < 128
  BY <1>1 DEF StepBytes
<1>2. CASE n >= 128
  <2>1. <<128 + (n % 128)>> \in Seq(Nat)
    BY <1>2, Quotient
  <2>2. QED  BY <1>2, <2>1, ConcatProperties DEF StepBytes
<1>3. QED  BY <1>1, <1>2

\* Two such functions agree where both are defined.
LEMMA BytesUnique ==
    ASSUME NEW f, NEW g, NEW m \in Nat, NEW k \in Nat, BytesUpTo(f, m), BytesUpTo(g, k),
           NEW n \in Nat, n <= m, n <= k
    PROVE  f[n] = g[n]
<1> DEFINE S == {i \in Nat : i <= m /\ i <= k /\ f[i] # g[i]}
<1> SUFFICES ASSUME S # {} PROVE FALSE
  OBVIOUS
<1>1. PICK i \in S : \A j \in S : i <= j
  <2>1. S \in SUBSET Nat
    OBVIOUS
  <2> HIDE DEF S
  <2>2. QED  BY <2>1, LeastLength
<1>2. f[i] = StepBytes(f, i) /\ g[i] = StepBytes(g, i) /\ i \in Nat
  BY <1>1 DEF BytesUpTo
<1>3. CASE i < 128
  BY <1>1, <1>2, <1>3 DEF StepBytes
<1>4. CASE i >= 128
  <2>1. i \div 128 \in Nat /\ i \div 128 < i
    BY <1>2, <1>4, Quotient
  <2>2. f[i \div 128] = g[i \div 128]
    BY <1>1, <2>1
  <2>3. QED  BY <1>1, <1>2, <1>4, <2>2 DEF StepBytes
<1>5. QED  BY <1>2, <1>3, <1>4

\* There is one up to every number.
LEMMA BytesExist ==
    ASSUME NEW m \in Nat
    PROVE  \E f : BytesUpTo(f, m)
<1> DEFINE S == {i \in Nat : ~ \E f : BytesUpTo(f, i)}
<1> SUFFICES ASSUME S # {} PROVE FALSE
  OBVIOUS
<1>1. PICK i \in S : \A j \in S : i <= j
  <2>1. S \in SUBSET Nat
    OBVIOUS
  <2> HIDE DEF S
  <2>2. QED  BY <2>1, LeastLength
<1>2. PICK f \in [0 .. i - 1 -> Seq(Nat)] : \A n \in 0 .. i - 1 : f[n] = StepBytes(f, n)
  <2>1. CASE i = 0
    <3>1. [n \in 0 .. i - 1 |-> << >>] \in [0 .. i - 1 -> Seq(Nat)] /\ 0 .. i - 1 = {}
      BY <2>1
    <3>2. QED  BY <3>1
  <2>2. CASE i > 0
    <3>1. i - 1 \in Nat /\ i - 1 \notin S
      BY <1>1, <2>2
    <3>2. QED  BY <3>1 DEF BytesUpTo
  <2>3. QED  BY <1>1, <2>1, <2>2
<1> DEFINE g == [n \in 0 .. i |-> IF n < i THEN f[n] ELSE StepBytes(f, i)]
<1>3. i \in Nat
  BY <1>1
<1>4. StepBytes(f, i) \in Seq(Nat)
  <2>1. ASSUME i >= 128 PROVE f[i \div 128] \in Seq(Nat)
    <3>1. i \div 128 \in 0 .. i - 1
      BY <1>3, <2>1, Quotient
    <3>2. QED  BY <1>2, <3>1
  <2>2. QED  BY <1>3, <2>1, StepBytesType
<1>5. g \in [0 .. i -> Seq(Nat)]
  BY <1>2, <1>3, <1>4
<1>6. ASSUME NEW n \in 0 .. i PROVE g[n] = StepBytes(g, n)
  <2>1. g[n] = StepBytes(f, n)
    BY <1>2, <1>3
  <2>2. n >= 128 => g[n \div 128] = f[n \div 128]
    <3>1. ASSUME n >= 128 PROVE n \div 128 \in 0 .. i /\ n \div 128 < i
      BY <1>3, <3>1, Quotient
    <3>2. QED  BY <3>1
  <2> HIDE DEF g
  <2>3. n < 128 \/ n >= 128
    BY <1>3
  <2>4. QED  BY <2>1, <2>2, <2>3 DEF StepBytes
<1> HIDE DEF g
<1>7. BytesUpTo(g, i)
  BY <1>5, <1>6 DEF BytesUpTo
<1>8. QED  BY <1>1, <1>7

\* The recursion of fini_message, as an equation
LEMMA LengthBytesEquation ==
    ASSUME NEW n \in Nat
    PROVE  LengthBytes[n] = StepBytes(LengthBytes, n)
<1> DEFINE Of(f) == [length \in Nat |-> IF length < 128 THEN <<length>>
                                        ELSE <<128 + (length % 128)>> \o f[length \div 128]]
           upto(k) == CHOOSE f : BytesUpTo(f, k)
           F == [k \in Nat |-> upto(k)[k]]
<1>1. LengthBytes = CHOOSE f : f = Of(f)
  BY DEF LengthBytes
<1>2. \A k \in Nat : BytesUpTo(upto(k), k)
  BY BytesExist
<1> HIDE DEF upto
<1>3. ASSUME NEW k \in Nat PROVE F[k] = StepBytes(F, k)
  <2>1. F[k] = StepBytes(upto(k), k)
    BY <1>2 DEF BytesUpTo
  <2>2. ASSUME k >= 128 PROVE F[k \div 128] = upto(k)[k \div 128]
    <3>1. k \div 128 \in Nat /\ k \div 128 <= k
      BY <2>2, Quotient
    <3>2. upto(k \div 128)[k \div 128] = upto(k)[k \div 128]
      BY <1>2, <3>1, BytesUnique
    <3>3. QED  BY <3>1, <3>2
  <2> HIDE DEF F
  <2>3. k < 128 \/ k >= 128
    OBVIOUS
  <2>4. QED  BY <2>1, <2>2, <2>3 DEF StepBytes
<1>4. F = [k \in Nat |-> StepBytes(F, k)]
  <2>1. F = [k \in Nat |-> F[k]]
    OBVIOUS
  <2> HIDE DEF F
  <2>2. QED  BY <1>3, <2>1, Zenon
<1> HIDE DEF F
<1>5. F = Of(F)
  BY <1>4 DEF StepBytes
<1> HIDE DEF Of
<1>6. LengthBytes = Of(LengthBytes)
  BY <1>1, <1>5
<1>7. QED
  <2> DEFINE L == LengthBytes
  <2> HIDE DEF L
  <2>1. L = [length \in Nat |-> IF length < 128 THEN <<length>>
                                ELSE <<128 + (length % 128)>> \o L[length \div 128]]
    BY <1>6 DEF Of, L
  <2>2. L[n] = StepBytes(L, n)
    BY <2>1 DEF StepBytes
  <2>3. QED  BY <2>2 DEF L

LEMMA LengthBytesType == \A n \in Nat : LengthBytes[n] \in Seq(Nat)
<1> DEFINE S == {n \in Nat : LengthBytes[n] \notin Seq(Nat)}
<1> SUFFICES ASSUME S # {} PROVE FALSE
  OBVIOUS
<1>1. PICK n \in S : \A j \in S : n <= j
  <2>1. S \in SUBSET Nat
    OBVIOUS
  <2> HIDE DEF S
  <2>2. QED  BY <2>1, LeastLength
<1>2. n \in Nat /\ LengthBytes[n] \notin Seq(Nat)
  BY <1>1
<1>3. ASSUME n >= 128 PROVE LengthBytes[n \div 128] \in Seq(Nat)
  <2>1. n \div 128 \in Nat /\ n \div 128 < n
    BY <1>2, <1>3, Quotient
  <2>2. QED  BY <1>1, <1>2, <2>1
<1>4. QED  BY <1>2, <1>3, LengthBytesEquation, StepBytesType

\* A byte more for every seven bits
LEMMA LengthBytesCount ==
    ASSUME NEW n \in Nat
    PROVE  /\ Len(LengthBytes[n]) \in Nat
           /\ n < 128 => Len(LengthBytes[n]) = 1
           /\ n >= 128 => Len(LengthBytes[n]) = 1 + Len(LengthBytes[n \div 128])
<1>1. LengthBytes[n] = StepBytes(LengthBytes, n) /\ LengthBytes[n] \in Seq(Nat)
  BY LengthBytesEquation, LengthBytesType
<1>2. Len(LengthBytes[n]) \in Nat
  BY <1>1, LenProperties
<1>3. ASSUME n >= 128 PROVE Len(LengthBytes[n]) = 1 + Len(LengthBytes[n \div 128])
  <2> DEFINE rest == LengthBytes[n \div 128]
  <2>1. n \div 128 \in Nat /\ n % 128 \in Nat
    BY <1>3, Quotient
  <2>2. rest \in Seq(Nat) /\ <<128 + (n % 128)>> \in Seq(Nat)
    BY <2>1, LengthBytesType
  <2> HIDE DEF rest
  <2>3. Len(<<128 + (n % 128)>> \o rest) = 1 + Len(rest)
    BY <2>2, ConcatProperties
  <2>4. QED  BY <1>1, <1>3, <2>3 DEF StepBytes, rest
<1>4. n < 128 => Len(LengthBytes[n]) = 1
  BY <1>1 DEF StepBytes
<1>5. QED  BY <1>2, <1>3, <1>4

\* The fixed header of what MQTT can announce has two to five bytes.
LEMMA HeaderBound ==
    ASSUME NEW n \in Nat, n < 128 ^ 4
    PROVE  HeaderSize(n) \in 2 .. MAX_FIXED_HEADER_SIZE
<1> DEFINE a == n \div 128
           b == a \div 128
           c == b \div 128
           bytes(m) == Len(LengthBytes[m])
<1>1. a \in Nat /\ b \in Nat /\ c \in Nat /\ a < 128 * 128 * 128 /\ b < 128 * 128 /\ c < 128
  BY SMTT(30)
<1>2. \A m \in Nat : /\ bytes(m) \in Nat
                     /\ m < 128 => bytes(m) = 1
                     /\ m >= 128 => bytes(m) = 1 + bytes(m \div 128)
  BY LengthBytesCount
<1> HIDE DEF bytes
<1>3. bytes(c) = 1 /\ (b < 128 => bytes(b) = 1) /\ (b >= 128 => bytes(b) = 1 + bytes(c))
  BY <1>1, <1>2
<1>4. (a < 128 => bytes(a) = 1) /\ (a >= 128 => bytes(a) = 1 + bytes(b))
  BY <1>1, <1>2
<1>5. (n < 128 => bytes(n) = 1) /\ (n >= 128 => bytes(n) = 1 + bytes(a))
  BY <1>2
<1> HIDE DEF a, b, c
<1>6. bytes(n) \in 1 .. 4
  BY <1>1, <1>3, <1>4, <1>5
<1>7. HeaderSize(n) = 1 + bytes(n) /\ MAX_FIXED_HEADER_SIZE = 5
  BY DEF HeaderSize, bytes, MAX_FIXED_HEADER_SIZE
<1>8. QED  BY <1>6, <1>7

-----------------------------------------------------------------------------
(***************************************************************************)
(* Sizes.                                                                  *)
(***************************************************************************)

\* What follows a fixed header is no more than MQTT can announce.
LEMMA BodyBound ==
    ASSUME v5 \in BOOLEAN, NEW topic \in Topics \cup {0}, NEW block \in BlockSizes \cup {0},
           NEW size \in Payloads \cup Enqueued \cup {0}
    PROVE  /\ topic \in Nat /\ block \in Nat /\ size \in Nat
           /\ topic + block + size + 28 < 128 ^ 4
<1>1. topic \in Nat /\ size \in Nat
  BY SizesAssumption
<1>2. CASE block = 0
  <2>1. topic + 0 + size + 32 < 128 ^ 4
    BY LengthAssumption
  <2>2. QED  BY <1>1, <1>2, <2>1
<1>3. CASE block # 0
  <2>1. PICK b \in Blocks : block = Len(LengthBytes[b]) + b
    BY <1>3 DEF BlockSizes
  <2>2. b \in Nat /\ topic + b + size + 32 < 128 ^ 4
    BY SizesAssumption, LengthAssumption, <2>1
  <2>3. b < 128 ^ 4
    BY <1>1, <2>2
  <2>4. Len(LengthBytes[b]) \in Nat
    BY <2>2, LengthBytesCount
  <2>5. 1 + Len(LengthBytes[b]) \in 2 .. 5
    BY <2>2, <2>3, HeaderBound DEF HeaderSize, MAX_FIXED_HEADER_SIZE
  <2>6. QED  BY <1>1, <2>1, <2>2, <2>4, <2>5
<1>4. QED  BY <1>2, <1>3

\* What comes before the payload of a PUBLISH, and the body of the whole
LEMMA PublishSizes ==
    ASSUME v5 \in BOOLEAN, NEW topic \in Topics, NEW qos \in {0, 1}, NEW block \in BlockSizes,
           NEW size \in Payloads \cup Enqueued
    PROVE  /\ BeforeData(topic, qos, block) \in Nat /\ size \in Nat
           /\ BeforeData(topic, qos, block) > 5
           /\ HeaderSize(BeforeData(topic, qos, block) + size - 5) \in 2 .. 5
           /\ Meant(topic, qos, block, size)
                 = HeaderSize(BeforeData(topic, qos, block) + size - 5)
                   + BeforeData(topic, qos, block) + size - 5
<1> DEFINE start == BeforeData(topic, qos, block)
<1>1. /\ topic \in Nat /\ block \in Nat /\ size \in Nat
      /\ topic + block + size + 28 < 128 ^ 4
  BY BodyBound
<1>2. start \in Nat /\ start > 5 /\ start <= topic + block + 9
  BY <1>1 DEF BeforeData, MAX_FIXED_HEADER_SIZE
<1>3. Meant(topic, qos, block, size) = HeaderSize(start + size - 5) + (start + size - 5)
  BY DEF Meant, PacketSize, MAX_FIXED_HEADER_SIZE
<1> HIDE DEF start
<1>4. start + size - 5 \in Nat /\ start + size - 5 < 128 ^ 4
  BY <1>1, <1>2
<1>5. HeaderSize(start + size - 5) \in 2 .. MAX_FIXED_HEADER_SIZE
  BY <1>4, HeaderBound
<1>6. HeaderSize(start + size - 5) \in 2 .. 5
  BY <1>5 DEF MAX_FIXED_HEADER_SIZE
<1>7. HeaderSize(start + size - 5) + (start + size - 5) = HeaderSize(start + size - 5) + start + size - 5
  BY <1>1, <1>2, <1>6
<1>8. QED  BY <1>1, <1>2, <1>3, <1>6, <1>7 DEF start

\* A PUBLISH composed while no total length is left: its header announces the
\* whole; in a fragmented one the offset is where the payload starts.
LEMMA PublishComposed ==
    ASSUME v5 \in BOOLEAN, total = 0, offset \in Int,
           NEW topic \in Topics, NEW qos \in {0, 1}, NEW block \in BlockSizes,
           NEW size \in Payloads \cup Enqueued, BeforeData(topic, qos, block) <= BufferLength
    PROVE  LET m == PublishMessage(topic, qos, block, size)
               start == BeforeData(topic, qos, block)
               header == HeaderSize(start + size - 5)
           IN  /\ m.announced = Meant(topic, qos, block, size)
               /\ start + size > BufferLength =>
                     /\ m.total = start + size /\ m.offset = start - 5 + header
                     /\ m.length = BufferLength - 5 + header
               /\ start + size <= BufferLength =>
                     /\ m.total = 0 /\ m.offset = offset - 5 + header
                     /\ m.length = start + size - 5 + header
<1> DEFINE m == PublishMessage(topic, qos, block, size)
           start == BeforeData(topic, qos, block)
           header == HeaderSize(start + size - 5)
<1>1. /\ start \in Nat /\ size \in Nat /\ start > 5 /\ header \in 2 .. 5
      /\ Meant(topic, qos, block, size) = header + start + size - 5
      /\ BufferLength \in Nat
  BY PublishSizes, SizesAssumption
<1>2. m = IF size = 0 /\ ~v5 THEN Fini(start, 0, offset)
          ELSE IF start + size > BufferLength THEN Fini(BufferLength, start + size, start)
          ELSE Fini(start + size, 0, offset)
  BY DEF PublishMessage, Fragmented
<1>3. size = 0 => start + size = start
  BY <1>1
<1>4. m = IF start + size > BufferLength THEN Fini(BufferLength, start + size, start)
          ELSE Fini(start + size, 0, offset)
  BY <1>1, <1>2, <1>3
<1> HIDE DEF m, start
<1>5. CASE start + size > BufferLength
  <2>1. Remaining(BufferLength, start + size) = start + size - 5
    BY <1>1 DEF Remaining, MAX_FIXED_HEADER_SIZE
  <2>2. m = [length    |-> BufferLength - 5 + header,
             total     |-> start + size,
             offset    |-> start - (5 - header),
             announced |-> header + (start + size - 5)]
    BY <1>4, <1>5, <2>1 DEF Fini, MAX_FIXED_HEADER_SIZE
  <2> HIDE DEF header
  <2>3. m.offset = start - 5 + header /\ m.announced = header + start + size - 5
    BY <1>1, <2>2
  <2>4. QED  BY <1>1, <1>5, <2>2, <2>3 DEF m, start, header
<1>6. CASE start + size <= BufferLength
  <2>1. Remaining(start + size, 0) = start + size - 5
    BY <1>1 DEF Remaining, MAX_FIXED_HEADER_SIZE
  <2>2. m = [length    |-> start + size - 5 + header,
             total     |-> 0,
             offset    |-> offset - (5 - header),
             announced |-> header + (start + size - 5)]
    BY <1>1, <1>4, <1>6, <2>1 DEF Fini, MAX_FIXED_HEADER_SIZE
  <2> HIDE DEF header
  <2>3. m.offset = offset - 5 + header /\ m.announced = header + start + size - 5
    BY <1>1, <2>2
  <2>4. QED  BY <1>1, <1>6, <2>2, <2>3 DEF m, start, header
<1>7. QED  BY <1>1, <1>5, <1>6

\* What is copied to the outbox is the whole message, and so is what the loop
\* writes if no payload offset of an earlier one is left.
LEMMA PublishWhole ==
    ASSUME TypeOK, total = 0,
           NEW topic \in Topics, NEW qos \in {0, 1}, NEW block \in BlockSizes,
           NEW size \in Payloads \cup Enqueued, BeforeData(topic, qos, block) <= BufferLength
    PROVE  LET m == PublishMessage(topic, qos, block, size)
           IN  /\ Meant(topic, qos, block, size) \in Nat
               /\ m.announced = Meant(topic, qos, block, size)
               /\ Stored(m, size) = Meant(topic, qos, block, size)
               /\ offset <= 0 => Written(m, size) = Meant(topic, qos, block, size)
               /\ m.offset \in Int /\ m.offset <= BufferLength
               /\ ~Fragmented(topic, qos, block, size) => m.total = 0 /\ m.offset <= offset
<1> DEFINE m == PublishMessage(topic, qos, block, size)
           start == BeforeData(topic, qos, block)
           header == HeaderSize(start + size - 5)
<1>1. /\ start \in Nat /\ size \in Nat /\ start > 5 /\ header \in 2 .. 5
      /\ Meant(topic, qos, block, size) = header + start + size - 5
      /\ BufferLength \in Nat /\ offset \in Int /\ offset <= BufferLength
  BY PublishSizes, SizesAssumption DEF TypeOK
<1>2. /\ m.announced = Meant(topic, qos, block, size)
      /\ start + size > BufferLength =>
            /\ m.total = start + size /\ m.offset = start - 5 + header
            /\ m.length = BufferLength - 5 + header
      /\ start + size <= BufferLength =>
            /\ m.total = 0 /\ m.offset = offset - 5 + header
            /\ m.length = start + size - 5 + header
  BY PublishComposed DEF TypeOK
<1>3. Fragmented(topic, qos, block, size) <=> start + size > BufferLength
  BY DEF Fragmented
<1>4. /\ Stored(m, size) = IF m.total = 0 THEN m.length ELSE m.length + size - (m.length - m.offset)
      /\ Written(m, size) = m.length + (IF size - (m.length - m.offset) > 0
                                        THEN size - (m.length - m.offset) ELSE 0)
  BY DEF Stored, Written
<1>5. start <= BufferLength
  OBVIOUS
<1> HIDE DEF m, start, header
<1>6. CASE start + size > BufferLength
  <2>1. /\ m.total # 0 /\ m.offset \in Int /\ m.offset <= BufferLength
        /\ size - (m.length - m.offset) = start + size - BufferLength
    BY <1>1, <1>2, <1>5, <1>6
  <2>2. /\ Stored(m, size) = header + start + size - 5
        /\ Written(m, size) = header + start + size - 5
    BY <1>1, <1>2, <1>4, <1>6, <2>1
  <2>3. QED  BY <1>1, <1>2, <1>3, <1>6, <2>1, <2>2 DEF m
<1>7. CASE start + size <= BufferLength
  <2>1. /\ m.total = 0 /\ m.offset \in Int /\ m.offset <= offset
        /\ size - (m.length - m.offset) = offset - start
    BY <1>1, <1>2, <1>7
  <2>2. /\ Stored(m, size) = header + start + size - 5
        /\ offset <= 0 => Written(m, size) = header + start + size - 5
    BY <1>1, <1>2, <1>4, <1>7, <2>1
  <2>3. QED  BY <1>1, <1>2, <1>3, <1>7, <2>1, <2>2 DEF m
<1>8. QED  BY <1>1, <1>6, <1>7

\* Any other packet, composed while no total length is left
LEMMA ComposedWhole ==
    ASSUME NEW body \in Nat, body < 128 ^ 4, NEW o \in Int, Composed(body, 0, o)
    PROVE  /\ out' \in [bytes : Nat, announced : Nat, meant : Nat]
           /\ PacketWhole' /\ total' = 0 /\ offset' \in Int /\ offset' <= o
<1> DEFINE header == HeaderSize(body)
<1>1. header \in 2 .. 5
  BY HeaderBound DEF MAX_FIXED_HEADER_SIZE
<1>2. Remaining(5 + body, 0) = body
  BY DEF Remaining, MAX_FIXED_HEADER_SIZE
<1>3. /\ out' = [bytes |-> (5 + body) - 5 + header, announced |-> header + body,
                 meant |-> header + body]
      /\ offset' = o - (5 - header) /\ total' = 0
  BY <1>2 DEF Composed, Out, Fini, PacketSize, MAX_FIXED_HEADER_SIZE
<1> HIDE DEF header
<1>4. (5 + body) - 5 + header = header + body /\ header + body \in Nat
  BY <1>1
<1>5. QED  BY <1>1, <1>3, <1>4 DEF PacketWhole

-----------------------------------------------------------------------------
(***************************************************************************)
(* The invariant.                                                          *)
(***************************************************************************)

\* What is enqueued, held for quota or finds no memory fits the buffer, if its
\* topic and properties do.
EnqueuedFit ==
    \A topic \in Topics, qos \in {0, 1}, size \in Enqueued,
       block \in {0} \cup {Len(LengthBytes[b]) + b : b \in Blocks} :
           BeforeData(topic, qos, block) <= BufferLength => ~Fragmented(topic, qos, block, size)

\* No total length outlives its message, and on a connection no payload offset.
FieldsInv ==
    /\ TypeOK /\ PacketWhole
    /\ total = 0
    /\ connected => offset <= 0

LEMMA EnqueuedWhole ==
    ASSUME EnqueuedFit, NEW topic \in Topics, NEW qos \in {0, 1}, NEW block \in BlockSizes,
           NEW size \in Enqueued, BeforeData(topic, qos, block) <= BufferLength
    PROVE  ~Fragmented(topic, qos, block, size)
BY DEF EnqueuedFit, BlockSizes

LEMMA FieldsStep ==
    ASSUME EnqueuedFit, FieldsInv, [Next]_vars
    PROVE  FieldsInv'
<1>1. /\ TypeOK /\ total = 0 /\ offset \in Int /\ v5 \in BOOLEAN /\ connected \in BOOLEAN
      /\ offset <= BufferLength /\ calls \in 0 .. MaxCalls /\ MaxCalls \in Nat /\ BufferLength \in Nat
      /\ (connected => offset <= 0) /\ PacketWhole
  BY SizesAssumption DEF FieldsInv, TypeOK
<1>2. ASSUME NEW name, Called(name) PROVE calls' \in 0 .. MaxCalls /\ v5' = v5
  BY <1>1, <1>2 DEF Called
<1>3. ASSUME NEW body \in Nat, body < 128 ^ 4, NEW o \in Int, o <= 0, Composed(body, 0, o),
             connected' \in BOOLEAN, NEW name, Called(name)
      PROVE  FieldsInv'
  <2>1. /\ out' \in [bytes : Nat, announced : Nat, meant : Nat]
        /\ PacketWhole' /\ total' = 0 /\ offset' \in Int /\ offset' <= o
    BY <1>3, ComposedWhole
  <2>2. QED  BY <1>1, <1>2, <1>3, <2>1 DEF FieldsInv, TypeOK
<1>4. ASSUME NEW topic \in Topics, NEW block \in BlockSizes,
             Connect(topic, block) \/ Subscribe(topic, block)
      PROVE  FieldsInv'
  <2>1. topic \in Nat /\ block \in Nat /\ topic + block + 28 < 128 ^ 4
    <3>1. topic \in Nat /\ block \in Nat /\ topic + block + 0 + 28 < 128 ^ 4
      BY <1>1, BodyBound
    <3>2. QED  BY <3>1
  <2>2. PICK body \in {10 + block + 2 + topic, 2 + block + 2 + topic + 0, 2 + block + 2 + topic + 1} :
           Composed(body, 0, 0)
    BY <1>4 DEF Connect, Subscribe, Fresh
  <2>3. body \in Nat /\ body < 128 ^ 4
    BY <2>1, <2>2
  <2>4. connected' \in BOOLEAN /\ (Called("connect") \/ Called("subscribe"))
    BY <1>1, <1>4 DEF Connect, Subscribe
  <2>5. QED  BY <1>3, <2>2, <2>3, <2>4
<1>5. ASSUME NEW block \in BlockSizes, Control(block) PROVE FieldsInv'
  <2>1. block \in Nat /\ block + 28 < 128 ^ 4
    <3>1. block \in Nat /\ 0 + block + 0 + 28 < 128 ^ 4
      BY <1>1, BodyBound
    <3>2. QED  BY <3>1
  <2>2. PICK body \in {0, 1 + block, 4, 2} : Composed(body, 0, offset)
    BY <1>1, <1>5 DEF Control
  <2>3. body \in Nat /\ body < 128 ^ 4
    BY <2>1, <2>2
  <2>4. connected' = connected /\ connected /\ Called("control")
    BY <1>5 DEF Control
  <2>5. QED  BY <1>1, <1>3, <2>2, <2>3, <2>4
<1>6. ASSUME NEW meant \in Nat, NEW name, Called(name), total' = 0,
             offset' \in Int, offset' <= BufferLength, connected' \in BOOLEAN,
             connected' => offset' <= 0, Out(meant, meant, meant) \/ UNCHANGED out
      PROVE  FieldsInv'
  <2>1. out' \in [bytes : Nat, announced : Nat, meant : Nat] /\ PacketWhole'
    BY <1>1, <1>6 DEF Out, PacketWhole, TypeOK
  <2>2. QED  BY <1>1, <1>2, <1>6, <2>1 DEF FieldsInv, TypeOK
<1>7. ASSUME NEW topic \in Topics, NEW qos \in {0, 1}, NEW block \in BlockSizes,
             NEW size \in Payloads,
             PublishConnected(topic, qos, block, size) \/ PublishOffline(topic, qos, block, size)
      PROVE  FieldsInv'
  <2> DEFINE m == PublishMessage(topic, qos, block, size)
             meant == Meant(topic, qos, block, size)
  <2>1. BeforeData(topic, qos, block) <= BufferLength /\ Called("publish")
    BY <1>7 DEF PublishConnected, PublishOffline
  <2>2. /\ meant \in Nat /\ m.announced = meant /\ Stored(m, size) = meant
        /\ offset <= 0 => Written(m, size) = meant
        /\ m.offset \in Int /\ m.offset <= BufferLength
    BY <1>1, <2>1, PublishWhole
  <2>3. CASE PublishConnected(topic, qos, block, size)
    <3>1. connected
      BY <2>3 DEF PublishConnected
    <3>2. \/ (\E bytes \in {Written(m, size)} \cup {Stored(m, size)} :
                 Out(bytes, m.announced, meant)) /\ total' = 0 /\ offset' = 0 /\ connected' = connected
          \/ total' = 0 /\ offset' \in {m.offset, 0} /\ connected' = FALSE /\ UNCHANGED out
      BY <2>3 DEF PublishConnected, Cleared
    <3> HIDE DEF m, meant
    <3>3. CASE connected' = connected /\ offset' = 0 /\ total' = 0 /\ Out(meant, meant, meant)
      BY <1>1, <1>6, <2>1, <2>2, <3>1, <3>3
    <3>4. CASE total' = 0 /\ offset' \in {m.offset, 0} /\ connected' = FALSE /\ UNCHANGED out
      <4>1. offset' \in Int /\ offset' <= BufferLength
        BY <1>1, <2>2, <3>4
      <4>2. connected' \in BOOLEAN /\ ~connected'
        BY <3>4
      <4>3. QED  BY <1>6, <2>1, <2>2, <3>4, <4>1, <4>2
    <3>5. QED  BY <1>1, <2>2, <3>1, <3>2, <3>3, <3>4
  <2>4. CASE PublishOffline(topic, qos, block, size)
    <3>1. /\ ~connected /\ connected' = connected /\ total' = 0 /\ offset' = m.offset
          /\ Out(Stored(m, size), m.announced, meant) \/ UNCHANGED out
      BY <2>4 DEF PublishOffline
    <3> HIDE DEF m, meant
    <3>2. QED  BY <1>1, <1>6, <2>1, <2>2, <3>1
  <2>5. QED  BY <1>7, <2>3, <2>4
<1>8. ASSUME NEW topic \in Topics, NEW qos \in {0, 1}, NEW block \in BlockSizes,
             NEW size \in Enqueued,
             \/ PublishHeld(topic, qos, block, size) \/ Enqueue(topic, qos, block, size)
             \/ StoreFails(topic, qos, block, size)
      PROVE  FieldsInv'
  <2> DEFINE m == PublishMessage(topic, qos, block, size)
             meant == Meant(topic, qos, block, size)
  <2>1. BeforeData(topic, qos, block) <= BufferLength
    BY <1>8 DEF PublishHeld, Enqueue, StoreFails
  <2>2. ~Fragmented(topic, qos, block, size)
    BY <2>1, EnqueuedWhole
  <2>3. /\ meant \in Nat /\ m.announced = meant /\ Stored(m, size) = meant
        /\ m.offset \in Int /\ m.offset <= BufferLength /\ m.total = 0 /\ m.offset <= offset
    BY <1>1, <2>1, <2>2, PublishWhole
  <2>4. /\ connected' = connected /\ offset' = m.offset /\ total' \in {0, m.total}
        /\ Out(Stored(m, size), m.announced, meant) \/ UNCHANGED out
        /\ \E name : Called(name)
    BY <1>8 DEF PublishHeld, Enqueue, StoreFails
  <2> HIDE DEF m, meant
  <2>5. connected' => offset' <= 0
    BY <1>1, <2>3, <2>4
  <2>6. QED  BY <1>1, <1>6, <2>3, <2>4, <2>5
<1>9. CASE Disconnect \/ UNCHANGED vars
  <2>1. /\ UNCHANGED <<v5, total, offset, out, calls>>
        /\ connected' = FALSE \/ connected' = connected
    BY <1>9 DEF Disconnect, vars
  <2>2. connected' \in BOOLEAN /\ (connected' => connected)
    <3>1. CASE connected' = FALSE
      BY <3>1
    <3>2. CASE connected' = connected
      BY <1>1, <3>2
    <3>3. QED  BY <2>1, <3>1, <3>2
  <2>3. TypeOK' /\ PacketWhole'
    BY <1>1, <2>1, <2>2 DEF TypeOK, PacketWhole
  <2>4. QED  BY <1>1, <2>1, <2>2, <2>3 DEF FieldsInv
<1>10. QED  BY <1>4, <1>5, <1>7, <1>8, <1>9 DEF Next

-----------------------------------------------------------------------------
(***************************************************************************)
(* Theorems.                                                               *)
(***************************************************************************)
LEMMA FieldsInit == Init => FieldsInv
<1> SUFFICES ASSUME Init PROVE FieldsInv
  OBVIOUS
<1>1. v5 \in BOOLEAN /\ connected \in BOOLEAN /\ ~connected
  BY SizesAssumption, Zenon DEF Init
<1>2. PacketWhole
  BY DEF Init, PacketWhole
<1>3. TypeOK
  BY <1>1, SizesAssumption DEF Init, TypeOK
<1>4. QED  BY <1>1, <1>2, <1>3 DEF Init, FieldsInv

\* While what is enqueued fits the buffer, the two fields of a fragmented message
\* never outlive it on a connection (mqtt_client.c:2598-2617, 2701-2745).
THEOREM FieldsSound == EnqueuedFit /\ Spec => []FieldsInv
<1>1. EnqueuedFit /\ FieldsInv /\ [Next]_vars => FieldsInv'
  BY FieldsStep
<1>2. EnqueuedFit => EnqueuedFit'
  BY DEF EnqueuedFit, BeforeData, Fragmented
<1>3. QED  BY FieldsInit, <1>1, <1>2, PTL DEF Spec

\* and they have their types (lib/mqtt_msg.c:462-469, 108).
THEOREM TypeCorrect == EnqueuedFit /\ Spec => []TypeOK
<1>1. FieldsInv => TypeOK
  BY DEF FieldsInv
<1>2. QED  BY <1>1, FieldsSound, PTL

\* Whatever is composed, stored, refused, broken off and reconnected before it,
\* each packet has the bytes its header announces, and those it should have
\* (mqtt_client.c:2598-2617, 2701-2745, lib/include/mqtt_msg.h:42-43).
THEOREM PacketsWhole == EnqueuedFit /\ Spec => []PacketWhole
<1>1. FieldsInv => PacketWhole
  BY DEF FieldsInv
<1>2. QED  BY <1>1, FieldsSound, PTL

-----------------------------------------------------------------------------
(***************************************************************************)
(* The length bytes read back.                                             *)
(***************************************************************************)

\* Four bytes are enough just for what MQTT can announce.
LEMMA FourBytes ==
    ASSUME NEW n \in Nat
    PROVE  Encodable(n) <=> n < 128 * 128 * 128 * 128
<1> DEFINE a == n \div 128
           b == a \div 128
           c == b \div 128
           e == c \div 128
           bytes(m) == Len(LengthBytes[m])
<1>1. /\ a \in Nat /\ b \in Nat /\ c \in Nat /\ e \in Nat
      /\ n < 128 * 128 * 128 * 128 <=> a < 128 * 128 * 128
      /\ a < 128 * 128 * 128 <=> b < 128 * 128
      /\ b < 128 * 128 <=> c < 128
      /\ a >= 128 => n >= 128
      /\ b >= 128 => a >= 128
      /\ c >= 128 => b >= 128
  BY SMTT(30)
<1>2. \A m \in Nat : /\ bytes(m) \in Nat
                     /\ m < 128 => bytes(m) = 1
                     /\ m >= 128 => bytes(m) = 1 + bytes(m \div 128)
  BY LengthBytesCount
<1> HIDE DEF bytes
<1>3. \A m \in Nat : bytes(m) >= 1
  <2> TAKE m \in Nat
  <2>1. m \div 128 \in Nat
    OBVIOUS
  <2>2. bytes(m) \in Nat /\ bytes(m \div 128) \in Nat
    BY <1>2, <2>1
  <2>3. (m < 128 => bytes(m) = 1) /\ (m >= 128 => bytes(m) = 1 + bytes(m \div 128))
    BY <1>2
  <2> DEFINE x == bytes(m)
             y == bytes(m \div 128)
  <2>4. x \in Nat /\ y \in Nat /\ (m < 128 => x = 1) /\ (m >= 128 => x = 1 + y)
    BY <2>2, <2>3
  <2> HIDE DEF x, y
  <2>5. x >= 1
    BY <2>4
  <2>6. QED  BY <2>5 DEF x
<1>4. /\ (n < 128 => bytes(n) = 1) /\ (n >= 128 => bytes(n) = 1 + bytes(a))
      /\ (a < 128 => bytes(a) = 1) /\ (a >= 128 => bytes(a) = 1 + bytes(b))
      /\ (b < 128 => bytes(b) = 1) /\ (b >= 128 => bytes(b) = 1 + bytes(c))
      /\ (c < 128 => bytes(c) = 1) /\ (c >= 128 => bytes(c) = 1 + bytes(e))
  BY <1>1, <1>2
<1>5. bytes(n) \in Nat /\ bytes(a) \in Nat /\ bytes(b) \in Nat /\ bytes(c) \in Nat /\ bytes(e) \in Nat
      /\ bytes(e) >= 1
  BY <1>1, <1>2, <1>3
<1>6. Encodable(n) <=> bytes(n) + 1 <= 5
  BY DEF Encodable, MAX_FIXED_HEADER_SIZE, bytes
<1> DEFINE bn == bytes(n)
           ba == bytes(a)
           bb == bytes(b)
           bc == bytes(c)
           be == bytes(e)
           small == n < 128 * 128 * 128 * 128
<1>7. /\ (n < 128 => bn = 1) /\ (n >= 128 => bn = 1 + ba)
      /\ (a < 128 => ba = 1) /\ (a >= 128 => ba = 1 + bb)
      /\ (b < 128 => bb = 1) /\ (b >= 128 => bb = 1 + bc)
      /\ (c < 128 => bc = 1) /\ (c >= 128 => bc = 1 + be)
      /\ bn \in Nat /\ ba \in Nat /\ bb \in Nat /\ bc \in Nat /\ be \in Nat /\ be >= 1
  BY <1>4, <1>5
<1>8. small <=> c < 128
  BY <1>1
<1>9. a \in Nat /\ b \in Nat /\ c \in Nat /\ (a >= 128 => n >= 128) /\ (b >= 128 => a >= 128) /\ (c >= 128 => b >= 128)
  BY <1>1
<1> HIDE DEF a, b, c, e, bn, ba, bb, bc, be, small
<1>10. bn + 1 <= 5 <=> c < 128
  <2>1. CASE c >= 128
    BY <1>7, <1>9, <2>1
  <2>2. CASE c < 128
    BY <1>7, <1>9, <2>2
  <2>3. QED  BY <1>9, <2>1, <2>2
<1>11. QED  BY <1>6, <1>8, <1>10 DEF bn, small

\* What a fixed header is known by: its last byte, the first one that tells of no other
LEMMA HeaderEnds ==
    ASSUME NEW S, NEW p \in Seq(S), NEW e \in 2 .. 5, e <= Len(p), ~Continued(p[e]),
           \A k \in 2 .. e - 1 : Continued(p[k])
    PROVE  FixedLength(p) = e
<1> DEFINE most == Min({5, Len(p)})
           ends == {k \in 2 .. most : ~Continued(p[k])}
<1>1. most \in Nat /\ e <= most
  <2>1. Len(p) \in Nat
    BY LenProperties
  <2> DEFINE T == {5, Len(p)}
  <2>2. T \in SUBSET Nat /\ T # {} /\ \A t \in T : e <= t
    BY <2>1
  <2>3. PICK t \in T : \A m \in T : t <= m
    BY <2>2, LeastLength
  <2>4. Min(T) \in T
    BY <2>3 DEF Min
  <2>5. QED  BY <2>2, <2>4
<1> HIDE DEF most
<1>2. e \in ends /\ \A k \in ends : e <= k /\ k \in Nat
  BY <1>1
<1>3. Min(ends) = e
  <2>1. \A x \in ends : (\A y \in ends : x <= y) => x = e
    BY <1>2
  <2> HIDE DEF ends
  <2>2. QED  BY <1>2, <2>1 DEF Min
<1>4. FixedLength(p) = IF ends = {} THEN most ELSE Min(ends)
  BY DEF FixedLength, most
<1>5. QED  BY <1>2, <1>3, <1>4

\* As far as four bytes, t follows the first one of s.
Shifted(s, t) == /\ Len(t) >= 1 => s[2] = t[1]
                 /\ Len(t) >= 2 => s[3] = t[2]
                 /\ Len(t) >= 3 => s[4] = t[3]

\* The first byte, and the others
LEMMA LengthBytesStep ==
    ASSUME NEW n \in Nat
    PROVE  /\ n < 128 => Len(LengthBytes[n]) = 1 /\ LengthBytes[n][1] = n
           /\ n >= 128 => /\ Len(LengthBytes[n]) = 1 + Len(LengthBytes[n \div 128])
                          /\ LengthBytes[n][1] = 128 + (n % 128)
                          /\ Shifted(LengthBytes[n], LengthBytes[n \div 128])
<1>1. LengthBytes[n] = StepBytes(LengthBytes, n)
  BY LengthBytesEquation
<1>2. CASE n < 128
  BY <1>1, <1>2 DEF StepBytes
<1>3. CASE n >= 128
  <2> DEFINE rest == LengthBytes[n \div 128]
             byte == 128 + (n % 128)
  <2>1. byte \in Nat /\ rest \in Seq(Nat)
    BY <1>3, Quotient, LengthBytesType
  <2>2. LengthBytes[n] = <<byte>> \o rest
    BY <1>1, <1>3 DEF StepBytes
  <2> HIDE DEF rest, byte
  <2>3. ASSUME NEW s, s = <<byte>> \o rest
        PROVE  Len(s) = 1 + Len(rest) /\ s[1] = byte /\ Shifted(s, rest)
    BY <2>1, <2>3 DEF Shifted
  <2>4. /\ Len(LengthBytes[n]) = 1 + Len(rest) /\ LengthBytes[n][1] = byte
        /\ Shifted(LengthBytes[n], rest)
    BY <2>2, <2>3, Zenon
  <2>5. QED  BY <1>3, <2>4 DEF rest, byte
<1>4. QED  BY <1>2, <1>3

\* t is x, y, z and c as far as l tells, all but the last with the top bit set.
Digits(t, l, x, y, z, c) ==
    /\ l \in 1 .. 4 /\ Len(t) = l
    /\ x \in 0 .. 127 /\ y \in 0 .. 127 /\ z \in 0 .. 127 /\ c \in 0 .. 127
    /\ l = 1 => t[1] = x /\ y = 0 /\ z = 0 /\ c = 0
    /\ l = 2 => t[1] = 128 + x /\ t[2] = y /\ z = 0 /\ c = 0
    /\ l = 3 => t[1] = 128 + x /\ t[2] = 128 + y /\ t[3] = z /\ c = 0
    /\ l = 4 => t[1] = 128 + x /\ t[2] = 128 + y /\ t[3] = 128 + z /\ t[4] = c

Value(x, y, z, c) == x + 128 * (y + 128 * (z + 128 * c))

\* A length has up to four digits to the base 128, and the bytes that fini_message
\* writes are these.
LEMMA LengthBytesDigits ==
    ASSUME NEW n \in Nat, n < 128 * 128 * 128 * 128
    PROVE  \E l, x, y, z, c : n = Value(x, y, z, c) /\ Digits(LengthBytes[n], l, x, y, z, c)
<1> DEFINE a == n \div 128
           b == a \div 128
           c == b \div 128
           x == n % 128
           y == a % 128
           z == b % 128
<1>1. /\ a \in Nat /\ b \in Nat /\ c \in Nat /\ c < 128
      /\ (a >= 128 => n >= 128) /\ (b >= 128 => a >= 128)
  BY SMTT(30)
<1>2. /\ x \in 0 .. 127 /\ y \in 0 .. 127 /\ z \in 0 .. 127 /\ c \in 0 .. 127
      /\ n = x + 128 * a /\ a = y + 128 * b /\ b = z + 128 * c
  BY <1>1
<1> DEFINE N == LengthBytes[n]
           A == LengthBytes[a]
           B == LengthBytes[b]
           C == LengthBytes[c]
<1>3. /\ n < 128 => Len(N) = 1 /\ N[1] = n
      /\ n >= 128 => Len(N) = 1 + Len(A) /\ N[1] = 128 + x /\ Shifted(N, A)
  BY <1>1, LengthBytesStep
<1>4. /\ a < 128 => Len(A) = 1 /\ A[1] = a
      /\ a >= 128 => Len(A) = 1 + Len(B) /\ A[1] = 128 + y /\ Shifted(A, B)
  BY <1>1, LengthBytesStep
<1>5. /\ b < 128 => Len(B) = 1 /\ B[1] = b
      /\ b >= 128 => Len(B) = 1 + Len(C) /\ B[1] = 128 + z /\ Shifted(B, C)
  BY <1>1, LengthBytesStep
<1>6. Len(C) = 1 /\ C[1] = c
  BY <1>1, LengthBytesStep
<1> HIDE DEF a, b, c, x, y, z, N, A, B, C
<1>7. n = Value(x, y, z, c)
  <2>1. a = y + 128 * (z + 128 * c)
    BY <1>2
  <2>2. QED  BY <1>2, <2>1 DEF Value
<1>8. \E l \in 1 .. 4 : Digits(N, l, x, y, z, c)
  <2>1. CASE n < 128
    <3>1. x = n /\ y = 0 /\ z = 0 /\ c = 0
      BY <1>1, <1>2, <2>1
    <3>2. Digits(N, 1, x, y, z, c)
      BY <1>2, <1>3, <2>1, <3>1 DEF Digits
    <3>3. QED  BY <3>2
  <2>2. CASE n >= 128 /\ a < 128
    <3>1. y = a /\ z = 0 /\ c = 0
      BY <1>1, <1>2, <2>2
    <3>2. Len(N) = 2 /\ N[1] = 128 + x /\ N[2] = a
      <4>1. Len(A) = 1 /\ A[1] = a
        BY <1>1, <1>4, <2>2
      <4>2. Len(N) = 1 + Len(A) /\ N[1] = 128 + x /\ Shifted(N, A)
        BY <1>3, <2>2
      <4>3. QED  BY <4>1, <4>2 DEF Shifted
    <3>3. Digits(N, 2, x, y, z, c)
      BY <1>2, <3>1, <3>2 DEF Digits
    <3>4. QED  BY <3>3
  <2>3. CASE a >= 128 /\ b < 128
    <3>1. z = b /\ c = 0
      BY <1>1, <1>2, <2>3
    <3>2. Len(A) = 2 /\ A[1] = 128 + y /\ A[2] = b
      <4>1. Len(B) = 1 /\ B[1] = b
        BY <1>1, <1>5, <2>3
      <4>2. Len(A) = 1 + Len(B) /\ A[1] = 128 + y /\ Shifted(A, B)
        BY <1>4, <2>3
      <4>3. QED  BY <4>1, <4>2 DEF Shifted
    <3>3. Len(N) = 3 /\ N[1] = 128 + x /\ N[2] = 128 + y /\ N[3] = b
      BY <1>1, <1>3, <2>3, <3>2 DEF Shifted
    <3>4. Digits(N, 3, x, y, z, c)
      BY <1>2, <3>1, <3>3 DEF Digits
    <3>5. QED  BY <3>4
  <2>4. CASE b >= 128
    <3>1. Len(B) = 2 /\ B[1] = 128 + z /\ B[2] = c
      BY <1>5, <1>6, <2>4 DEF Shifted
    <3>2. Len(A) = 3 /\ A[1] = 128 + y /\ A[2] = 128 + z /\ A[3] = c
      BY <1>1, <1>4, <2>4, <3>1 DEF Shifted
    <3>3. Len(N) = 4 /\ N[1] = 128 + x /\ N[2] = 128 + y /\ N[3] = 128 + z /\ N[4] = c
      BY <1>1, <1>3, <2>4, <3>2 DEF Shifted
    <3>4. Digits(N, 4, x, y, z, c)
      BY <1>2, <3>3 DEF Digits
    <3>5. QED  BY <3>4
  <2>5. QED  BY <1>1, <2>1, <2>2, <2>3, <2>4
<1>9. QED  BY <1>7, <1>8, Zenon DEF N

LEMMA SevenBits ==
    ASSUME NEW d \in 0 .. 127, NEW m, m = d \/ m = 128 + d
    PROVE  m % 128 = d
<1>1. d % 128 = d /\ (128 + d) % 128 = d
  OBVIOUS
<1>2. QED  BY <1>1, Zenon

\* p has the bytes t after its first one.
Within(p, t) == Len(p) >= 1 + Len(t) /\ \A k \in 1 .. Len(t) : p[k + 1] = t[k]

\* A header with these length bytes is read to its end and no further.
LEMMA DigitsRead ==
    ASSUME NEW p, NEW t, p \in Seq(Nat) /\ Within(p, t),
           NEW l, NEW x, NEW y, NEW z, NEW c, Digits(t, l, x, y, z, c)
    PROVE  /\ FixedLength(p) = 1 + l
           /\ TotalLength(p) = Value(x, y, z, c) + FixedLength(p)
<1> DEFINE digit(k) == IF k <= FixedLength(p) THEN p[k] % 128 ELSE 0
<1> l \in 1 .. 4 /\ x \in 0 .. 127 /\ y \in 0 .. 127 /\ z \in 0 .. 127 /\ c \in 0 .. 127
  BY DEF Digits
<1>0. Len(t) = l /\ Len(p) >= 1 + l /\ \A k \in 1 .. l : p[k + 1] = t[k]
  BY DEF Digits, Within
<1>1. /\ p[2] = t[1] /\ (l >= 2 => p[3] = t[2]) /\ (l >= 3 => p[4] = t[3])
      /\ (l = 4 => p[5] = t[4])
  <2>1. 1 \in 1 .. l /\ (l >= 2 => 2 \in 1 .. l) /\ (l >= 3 => 3 \in 1 .. l) /\ (l = 4 => 4 \in 1 .. l)
    OBVIOUS
  <2>2. 1 + 1 = 2 /\ 2 + 1 = 3 /\ 3 + 1 = 4 /\ 4 + 1 = 5
    OBVIOUS
  <2>3. QED  BY <1>0, <2>1, <2>2
<1>2. l \in {1, 2, 3, 4}
  OBVIOUS
<1>3. Len(p) \in Nat
  BY LenProperties
<1>4. \A m \in 0 .. 127 : ~Continued(m) /\ Continued(128 + m)
  BY DEF Continued
<1>5. TotalLength(p) = digit(2) + 128 * (digit(3) + 128 * (digit(4) + 128 * digit(5))) + FixedLength(p)
  BY DEF TotalLength
<1>6. ASSUME NEW e \in {2, 3, 4, 5}, e = 1 + l PROVE FixedLength(p) = e
  <2>1. ~Continued(p[e]) /\ \A k \in 2 .. e - 1 : Continued(p[k])
    <3>1. CASE l = 1
      <4>1. p[2] = x /\ e = 2
        BY <1>1, <1>6, <3>1 DEF Digits
      <4>2. \A k \in 2 .. e - 1 : FALSE
        BY <4>1
      <4>3. QED  BY <1>4, <4>1, <4>2, Zenon
    <3>2. CASE l = 2
      <4>1. p[2] = 128 + x /\ p[3] = y /\ e = 3
        BY <1>1, <1>6, <3>2 DEF Digits
      <4>2. \A k \in 2 .. e - 1 : k = 2
        BY <4>1
      <4>3. ~Continued(p[3]) /\ Continued(p[2])
        BY <1>4, <4>1
      <4>4. QED  BY <4>1, <4>2, <4>3
    <3>3. CASE l = 3
      <4>1. p[2] = 128 + x /\ p[3] = 128 + y /\ p[4] = z /\ e = 4
        BY <1>1, <1>6, <3>3 DEF Digits
      <4>2. \A k \in 2 .. e - 1 : k = 2 \/ k = 3
        BY <4>1
      <4>3. ~Continued(p[4]) /\ Continued(p[2]) /\ Continued(p[3])
        BY <1>4, <4>1, ZenonT(60)
      <4>4. QED  BY <4>1, <4>2, <4>3
    <3>4. CASE l = 4
      <4>1. p[2] = 128 + x /\ p[3] = 128 + y /\ p[4] = 128 + z /\ p[5] = c /\ e = 5
        BY <1>1, <1>6, <3>4, SMTT(40) DEF Digits
      <4>2. \A k \in 2 .. e - 1 : k = 2 \/ k = 3 \/ k = 4
        BY <4>1
      <4>3. ~Continued(p[5]) /\ Continued(p[2]) /\ Continued(p[3]) /\ Continued(p[4])
        <5>1. ~Continued(p[5]) /\ Continued(p[2])
          BY <1>4, <4>1, ZenonT(60)
        <5>2. Continued(p[3]) /\ Continued(p[4])
          BY <1>4, <4>1, ZenonT(60)
        <5>3. QED  BY <5>1, <5>2
      <4>4. QED  BY <4>1, <4>2, <4>3
    <3>5. QED  BY <1>2, <3>1, <3>2, <3>3, <3>4
  <2>2. e \in 2 .. 5 /\ e <= Len(p)
    BY <1>0, <1>6
  <2>3. QED  BY <2>1, <2>2, HeaderEnds
<1>7. FixedLength(p) = 1 + l
  BY <1>2, <1>6
<1>8. /\ p[2] % 128 = x /\ (l >= 2 => p[3] % 128 = y)
      /\ (l >= 3 => p[4] % 128 = z) /\ (l = 4 => p[5] % 128 = c)
  <2>1. /\ p[2] = x \/ p[2] = 128 + x
        /\ l >= 2 => p[3] = y \/ p[3] = 128 + y
        /\ l >= 3 => p[4] = z \/ p[4] = 128 + z
        /\ l = 4 => p[5] = c
    BY <1>1, <1>2 DEF Digits
  <2>2. p[2] % 128 = x
    BY <2>1, SevenBits, Zenon
  <2>3. ASSUME l >= 2 PROVE p[3] % 128 = y
    <3>1. p[3] = y \/ p[3] = 128 + y
      BY <2>1, <2>3
    <3>2. QED  BY <3>1, SevenBits, Zenon
  <2>4. ASSUME l >= 3 PROVE p[4] % 128 = z
    <3>1. p[4] = z \/ p[4] = 128 + z
      BY <2>1, <2>4
    <3>2. QED  BY <3>1, SevenBits, Zenon
  <2>5. l = 4 => p[5] % 128 = c
    BY <2>1, SevenBits, ZenonT(60)
  <2>6. QED  BY <2>2, <2>3, <2>4, <2>5
<1>9. (l < 2 => y = 0) /\ (l < 3 => z = 0) /\ (l < 4 => c = 0)
  BY <1>2 DEF Digits
<1>10. digit(2) = x /\ digit(3) = y /\ digit(4) = z /\ digit(5) = c
  <2>1. digit(2) = x
    BY <1>7, <1>8
  <2>2. digit(3) = y
    BY <1>7, <1>8, <1>9
  <2>3. digit(4) = z
    BY <1>7, <1>8, <1>9
  <2>4. digit(5) = c
    BY <1>7, <1>8, <1>9
  <2>5. QED  BY <2>1, <2>2, <2>3, <2>4
<1> HIDE DEF digit
<1>11. TotalLength(p) = Value(x, y, z, c) + FixedLength(p)
  BY <1>5, <1>10 DEF Value
<1>12. QED  BY <1>7, <1>11

\* Where t is in a packet
LEMMA Between ==
    ASSUME NEW first \in Nat, NEW t \in Seq(Nat), NEW rest \in Seq(Nat)
    PROVE  LET p == (<<first>> \o t) \o rest
           IN  p \in Seq(Nat) /\ Within(p, t)
<1> DEFINE q == <<first>> \o t
           p == q \o rest
<1>1. <<first>> \in Seq(Nat) /\ Len(<<first>>) = 1 /\ Len(t) \in Nat /\ Len(rest) \in Nat
  OBVIOUS
<1>2. /\ q \in Seq(Nat) /\ Len(q) = 1 + Len(t)
      /\ \A i \in 1 .. 1 + Len(t) : q[i] = IF i <= 1 THEN <<first>>[i] ELSE t[i - 1]
  BY <1>1, ConcatProperties
<1> HIDE DEF q
<1>3. /\ p \in Seq(Nat) /\ Len(p) = Len(q) + Len(rest)
      /\ \A i \in 1 .. Len(q) + Len(rest) : p[i] = IF i <= Len(q) THEN q[i] ELSE rest[i - Len(q)]
  BY <1>2, ConcatProperties
<1> HIDE DEF p
<1>4. ASSUME NEW k \in 1 .. Len(t) PROVE p[k + 1] = t[k]
  <2>1. k + 1 \in 1 .. Len(q) + Len(rest) /\ k + 1 <= Len(q) /\ k + 1 \in 1 .. 1 + Len(t)
        /\ ~(k + 1 <= 1) /\ k + 1 - 1 = k
    BY <1>1, <1>2
  <2>2. p[k + 1] = q[k + 1]
    BY <1>3, <2>1
  <2>3. q[k + 1] = t[k + 1 - 1]
    BY <1>2, <2>1, SMTT(40)
  <2>4. QED  BY <2>1, <2>2, <2>3
<1>5. p \in Seq(Nat) /\ Len(p) >= 1 + Len(t)
  BY <1>1, <1>2, <1>3
<1>6. p \in Seq(Nat) /\ Within(p, t)
  BY <1>4, <1>5 DEF Within
<1>7. QED  BY <1>6, Zenon DEF p, q

\* What fini_message writes, mqtt_get_total_length reads back, whatever follows the
\* fixed header; and fini_message refuses just what takes more than four bytes
\* (lib/mqtt_msg.c:84-102, 120-141).
THEOREM LengthsReadBack ==
    ASSUME NEW n \in Nat, NEW first \in Nat, NEW rest \in Seq(Nat)
    PROVE  LET p == (<<first>> \o LengthBytes[n]) \o rest
           IN  /\ Encodable(n) <=> n < 128 * 128 * 128 * 128
               /\ Encodable(n) => /\ FixedLength(p) = HeaderSize(n)
                                  /\ TotalLength(p) = HeaderSize(n) + n
<1> DEFINE t == LengthBytes[n]
           p == (<<first>> \o t) \o rest
<1>1. Encodable(n) <=> n < 128 * 128 * 128 * 128
  BY FourBytes
<1>2. t \in Seq(Nat)
  BY LengthBytesType
<1> HIDE DEF t
<1>3. p \in Seq(Nat) /\ Within(p, t)
  BY <1>2, Between, Zenon
<1> HIDE DEF p
<1>4. ASSUME n < 128 * 128 * 128 * 128
      PROVE  FixedLength(p) = HeaderSize(n) /\ TotalLength(p) = HeaderSize(n) + n
  <2>1. PICK l, x, y, z, c : n = Value(x, y, z, c) /\ Digits(t, l, x, y, z, c)
    BY <1>4, LengthBytesDigits, Zenon DEF t
  <2>2. Len(t) = l /\ l \in Nat
    BY <2>1 DEF Digits
  <2>3. HeaderSize(n) = 1 + l
    BY <2>2 DEF HeaderSize, t
  <2>4. FixedLength(p) = 1 + l /\ TotalLength(p) = Value(x, y, z, c) + FixedLength(p)
    BY <1>3, <2>1, DigitsRead, Zenon
  <2>5. TotalLength(p) = n + FixedLength(p)
    BY <2>1, <2>4, Zenon
  <2>6. QED  BY <2>2, <2>3, <2>4, <2>5
<1>5. QED  BY <1>1, <1>4, Zenon DEF p, t
=============================================================================
