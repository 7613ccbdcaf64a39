------------------------- MODULE MqttReceiveProofs --------------------------
(***************************************************************************)
(* What mqtt_message_receive makes of a byte stream, for any packets, any  *)
(* buffer and any way to cut the stream: the buffer is not overrun, the    *)
(* packets come out as they were sent, and a connection whose bytes keep   *)
(* coming is not given up.                                                 *)
(***************************************************************************)
EXTENDS MqttReceive, SequenceTheorems, WellFoundedInduction, TLAPS

-----------------------------------------------------------------------------
(***************************************************************************)
(* Numbers and sequences.                                                  *)
(***************************************************************************)

\* A set of naturals that is not empty has a least element, and Min is it.
LEMMA MinNatural ==
    ASSUME NEW S \in SUBSET Nat, S # {}
    PROVE  Min(S) \in S /\ \A m \in S : Min(S) <= m
<1>1. IsWellFoundedOn(OpToRel(<, Nat), Nat)
  BY NatLessThanWellFounded, Zenon
<1>2. PICK n \in S : \A m \in S : ~(<<m, n>> \in OpToRel(<, Nat))
  BY <1>1, WFMin, Zenon
<1>3. \A m \in S : n <= m
  <2>1. \A m \in S : ~(m < n)
    BY <1>2 DEF OpToRel
  <2>2. QED  BY <2>1
<1>4. QED  BY <1>3 DEF Min

LEMMA MinOfTwo ==
    ASSUME NEW m \in Nat, NEW n \in Nat
    PROVE  (m <= n => Min({m, n}) = m) /\ (n <= m => Min({m, n}) = n)
<1>1. Min({m, n}) \in {m, n} /\ Min({m, n}) <= m /\ Min({m, n}) <= n
  BY MinNatural
<1>2. QED  BY <1>1

LEMMA MinOfThree ==
    ASSUME NEW l \in Nat, NEW m \in Nat, NEW n \in Nat
    PROVE  /\ Min({l, m, n}) \in {l, m, n}
           /\ Min({l, m, n}) <= l /\ Min({l, m, n}) <= m /\ Min({l, m, n}) <= n
BY MinNatural

\* A part of a sequence, also where its end lies before its start
LEMMA SubSeqPart ==
    ASSUME NEW S, NEW s \in Seq(S), NEW m \in Nat \ {0}, NEW n \in Int, n <= Len(s)
    PROVE  /\ SubSeq(s, m, n) \in Seq(S)
           /\ Len(SubSeq(s, m, n)) = IF m <= n THEN n - m + 1 ELSE 0
           /\ \A i \in 1 .. n - m + 1 : SubSeq(s, m, n)[i] = s[m + i - 1]
<1>1. CASE m <= n
  <2>1. m \in 1 .. Len(s) + 1 /\ n \in m - 1 .. Len(s)
    BY <1>1
  <2>2. QED  BY <1>1, <2>1, SubSeqProperties, SMTT(40)
<1>2. CASE m > n
  <2>1. SubSeq(s, m, n) = << >>
    BY <1>2
  <2>2. QED  BY <1>2, <2>1
<1>3. QED  BY <1>1, <1>2

\* A sequence cut in two
LEMMA SubSeqCut ==
    ASSUME NEW S, NEW s \in Seq(S), NEW k \in Nat, k <= Len(s)
    PROVE  /\ SubSeq(s, 1, k) \in Seq(S) /\ Len(SubSeq(s, 1, k)) = k
           /\ \A i \in 1 .. k : SubSeq(s, 1, k)[i] = s[i]
           /\ SubSeq(s, k + 1, Len(s)) \in Seq(S) /\ Len(SubSeq(s, k + 1, Len(s))) = Len(s) - k
           /\ \A i \in 1 .. Len(s) - k : SubSeq(s, k + 1, Len(s))[i] = s[k + i]
<1>1. Len(s) \in Nat
  BY LenProperties
<1> DEFINE h == SubSeq(s, 1, k)
           t == SubSeq(s, k + 1, Len(s))
<1>2. h \in Seq(S) /\ Len(h) = k /\ \A i \in 1 .. k : h[i] = s[i]
  <2>1. 1 \in Nat \ {0} /\ k \in Int
    OBVIOUS
  <2>2. /\ h \in Seq(S) /\ Len(h) = IF 1 <= k THEN k - 1 + 1 ELSE 0
        /\ \A i \in 1 .. k - 1 + 1 : h[i] = s[1 + i - 1]
    BY <2>1, SubSeqPart
  <2> HIDE DEF h
  <2>3. Len(h) = k
    BY <2>2
  <2>4. \A i \in 1 .. k : i \in 1 .. k - 1 + 1 /\ 1 + i - 1 = i
    OBVIOUS
  <2>5. QED  BY <2>2, <2>3, <2>4
<1>3. t \in Seq(S) /\ Len(t) = Len(s) - k /\ \A i \in 1 .. Len(s) - k : t[i] = s[k + i]
  <2>1. k + 1 \in Nat \ {0} /\ Len(s) \in Int /\ Len(s) <= Len(s)
    BY <1>1
  <2>2. /\ t \in Seq(S) /\ Len(t) = IF k + 1 <= Len(s) THEN Len(s) - (k + 1) + 1 ELSE 0
        /\ \A i \in 1 .. Len(s) - (k + 1) + 1 : t[i] = s[k + 1 + i - 1]
    BY <2>1, SubSeqPart
  <2> HIDE DEF t
  <2>3. Len(t) = Len(s) - k
    BY <1>1, <2>2
  <2>4. \A i \in 1 .. Len(s) - k : i \in 1 .. Len(s) - (k + 1) + 1 /\ k + 1 + i - 1 = k + i
    BY <1>1
  <2>5. QED  BY <2>2, <2>3, <2>4
<1>4. QED  BY <1>2, <1>3

-----------------------------------------------------------------------------
(***************************************************************************)
(* The fixed header.                                                       *)
(***************************************************************************)

\* It ends with the first length byte that does not tell of another, with its
\* fifth byte, or with what is there.
LEMMA FixedLengthProperty ==
    ASSUME NEW b \in Seq(Bytes), Len(b) >= 1
    PROVE  /\ FixedLength(b) \in 1 .. 5 /\ FixedLength(b) <= Len(b)
           /\ \A k \in 2 .. FixedLength(b) - 1 : Continued(b[k])
           /\ \/ FixedLength(b) >= 2 /\ ~Continued(b[FixedLength(b)])
              \/ /\ FixedLength(b) = 5 \/ FixedLength(b) = Len(b)
                 /\ \A k \in 2 .. FixedLength(b) : Continued(b[k])
<1> DEFINE most == Min({5, Len(b)})
           ends == {k \in 2 .. most : ~Continued(b[k])}
<1>1. Len(b) \in Nat /\ most \in 1 .. 5 /\ most <= Len(b) /\ (most = 5 \/ most = Len(b))
  <2>1. Len(b) \in Nat
    BY LenProperties
  <2>2. (5 <= Len(b) => most = 5) /\ (Len(b) <= 5 => most = Len(b))
    BY <2>1, MinOfTwo
  <2> HIDE DEF most
  <2>3. QED  BY <2>1, <2>2
<1> HIDE DEF most
<1>2. FixedLength(b) = IF ends = {} THEN most ELSE Min(ends)
  BY DEF FixedLength, most
<1>3. CASE ends = {}
  <2>1. FixedLength(b) = most /\ most \in 1 .. 5 /\ most <= Len(b) /\ (most = 5 \/ most = Len(b))
    <3>1. FixedLength(b) = most
      BY <1>2, <1>3
    <3>2. QED  BY <1>1, <3>1
  <2>2. \A k \in 2 .. most : Continued(b[k])
    BY <1>3
  <2>3. QED  BY <2>1, <2>2
<1>4. CASE ends # {}
  <2>1. ends \in SUBSET Nat
    BY <1>1
  <2>2. Min(ends) \in ends /\ \A m \in ends : Min(ends) <= m
    BY <1>4, <2>1, MinNatural
  <2>3. FixedLength(b) \in ends /\ \A m \in ends : FixedLength(b) <= m
    BY <1>2, <1>4, <2>2
  <2>4. FixedLength(b) \in 2 .. most /\ ~Continued(b[FixedLength(b)])
    BY <2>3
  <2>5. \A k \in 2 .. FixedLength(b) - 1 : Continued(b[k])
    BY <1>1, <2>3, <2>4
  <2>6. QED  BY <1>1, <2>4, <2>5
<1>5. QED  BY <1>3, <1>4

LEMMA TotalLengthType ==
    ASSUME NEW b \in Seq(Bytes), Len(b) >= 1
    PROVE  TotalLength(b) \in Nat /\ TotalLength(b) >= FixedLength(b)
<1> DEFINE digit(k) == IF k <= FixedLength(b) THEN b[k] % 128 ELSE 0
<1>1. FixedLength(b) \in 1 .. 5 /\ FixedLength(b) <= Len(b) /\ Len(b) \in Nat
  BY FixedLengthProperty
<1>2. ASSUME NEW k \in {2, 3, 4, 5} PROVE digit(k) \in Nat
  <2>1. CASE k <= FixedLength(b)
    <3>1. k \in 1 .. Len(b)
      BY <1>1, <2>1
    <3>2. b[k] \in Bytes
      BY <3>1, ElementOfSeq
    <3>3. ASSUME NEW n \in Bytes PROVE n % 128 \in Nat
      BY DEF Bytes
    <3>4. digit(k) = b[k] % 128
      BY <2>1
    <3>5. QED  BY <3>2, <3>3, <3>4
  <2>2. CASE ~(k <= FixedLength(b))
    BY <2>2
  <2>3. QED  BY <2>1, <2>2
<1>3. TotalLength(b) = digit(2) + 128 * (digit(3) + 128 * (digit(4) + 128 * digit(5))) + FixedLength(b)
  BY DEF TotalLength
<1> HIDE DEF digit
<1>4. digit(2) \in Nat /\ digit(3) \in Nat /\ digit(4) \in Nat /\ digit(5) \in Nat
  BY <1>2
<1> DEFINE high == digit(3) + 128 * (digit(4) + 128 * digit(5))
<1>5. high \in Nat
  BY <1>4
<1> HIDE DEF high
<1>6. TotalLength(b) = digit(2) + 128 * high + FixedLength(b)
  BY <1>3 DEF high
<1>7. QED  BY <1>1, <1>4, <1>5, <1>6

\* b is how p begins.
Begins(b, p) == Len(b) <= Len(p) /\ \A i \in 1 .. Len(b) : b[i] = p[i]

\* Once all of the fixed header is there, the beginning of a packet tells its
\* length; before, its last byte tells that the length goes on.
LEMMA HeaderOfPrefix ==
    ASSUME NEW p \in Seq(Bytes), NEW b \in Seq(Bytes), Len(b) >= 1, Begins(b, p),
           \E k \in 2 .. 5 : k <= Len(p) /\ ~Continued(p[k])
    PROVE  /\ FixedLength(p) \in 2 .. 5 /\ FixedLength(p) <= Len(p)
           /\ ~Continued(p[FixedLength(p)])
           /\ Len(b) >= FixedLength(p) => /\ FixedLength(b) = FixedLength(p)
                                          /\ TotalLength(b) = TotalLength(p)
           /\ Len(b) \in 2 .. FixedLength(p) - 1 => Continued(b[Len(b)])
           /\ Type(b) = Type(p) /\ Qos(b) = Qos(p) /\ (ValidHeader(b) <=> ValidHeader(p))
<1> DEFINE F == FixedLength(p)
           G == FixedLength(b)
<1>1. Len(p) >= 1 /\ Len(p) \in Nat /\ Len(b) \in Nat /\ Len(b) <= Len(p)
  BY DEF Begins
<1>2. /\ F \in 1 .. 5 /\ F <= Len(p)
      /\ \A k \in 2 .. F - 1 : Continued(p[k])
      /\ \/ F >= 2 /\ ~Continued(p[F])
         \/ (F = 5 \/ F = Len(p)) /\ \A k \in 2 .. F : Continued(p[k])
  BY <1>1, FixedLengthProperty
<1>3. /\ G \in 1 .. 5 /\ G <= Len(b)
      /\ \A k \in 2 .. G - 1 : Continued(b[k])
      /\ \/ G >= 2 /\ ~Continued(b[G])
         \/ (G = 5 \/ G = Len(b)) /\ \A k \in 2 .. G : Continued(b[k])
  BY <1>1, FixedLengthProperty
<1> HIDE DEF F, G
<1>4. F >= 2 /\ ~Continued(p[F])
  <2>1. PICK k \in 2 .. 5 : k <= Len(p) /\ ~Continued(p[k])
    OBVIOUS
  <2>2. QED  BY <1>1, <1>2, <2>1
<1>5. \A i \in 1 .. Len(b) : b[i] = p[i]
  BY DEF Begins
<1>6. ASSUME Len(b) >= F PROVE G = F /\ TotalLength(b) = TotalLength(p)
  <2>1. G = F
    <3>1. ~(G < F)
      <4> SUFFICES ASSUME G < F PROVE FALSE
        OBVIOUS
      <4>1. G >= 2 => Continued(b[G])
        BY <1>2, <1>3, <1>5, <1>1
      <4>2. QED  BY <1>1, <1>2, <1>3, <1>6, <4>1
    <3>2. ~(G > F)
      <4> SUFFICES ASSUME G > F PROVE FALSE
        OBVIOUS
      <4>1. Continued(b[F]) /\ b[F] = p[F]
        BY <1>1, <1>2, <1>3, <1>4, <1>5, <1>6
      <4>2. QED  BY <1>4, <4>1
    <3>3. QED  BY <1>2, <1>3, <3>1, <3>2
  <2>2. \A k \in 2 .. 5 : k <= F => b[k] = p[k]
    BY <1>1, <1>2, <1>5, <1>6
  <2>3. \A k \in {2, 3, 4, 5} :
           (IF k <= G THEN b[k] % 128 ELSE 0) = (IF k <= F THEN p[k] % 128 ELSE 0)
    BY <2>1, <2>2
  <2>4. TotalLength(b) = TotalLength(p)
    BY <2>1, <2>3 DEF TotalLength, F, G
  <2>5. QED  BY <2>1, <2>4
<1>7. Len(b) \in 2 .. F - 1 => Continued(b[Len(b)])
  BY <1>1, <1>2, <1>5
<1>8. b[1] = p[1]
  BY <1>1, <1>5
<1>9. Type(b) = Type(p) /\ Qos(b) = Qos(p) /\ (ValidHeader(b) <=> ValidHeader(p))
  BY <1>8 DEF Type, Qos, ValidHeader, Dup
<1>10. QED  BY <1>2, <1>4, <1>6, <1>7, <1>9 DEF F, G

\* All of the fixed header is there.
HeaderRead(b) == Len(b) >= 5 \/ \E k \in 2 .. 5 : k <= Len(b) /\ ~Continued(b[k])

\* What follows the fixed header does not change what it tells.
LEMMA HeaderKept ==
    ASSUME NEW p \in Seq(Bytes), NEW b \in Seq(Bytes), Len(b) >= 1, Begins(b, p), HeaderRead(b)
    PROVE  /\ HeaderRead(p)
           /\ FixedLength(b) = FixedLength(p) /\ TotalLength(b) = TotalLength(p)
           /\ Type(b) = Type(p) /\ Qos(b) = Qos(p)
<1>1. Len(p) >= 1 /\ Len(p) \in Nat /\ Len(b) \in Nat /\ Len(b) <= Len(p)
  BY DEF Begins
<1>2. \A i \in 1 .. Len(b) : b[i] = p[i]
  BY DEF Begins
<1>3. CASE \E k \in 2 .. 5 : k <= Len(b) /\ ~Continued(b[k])
  <2>1. PICK k \in 2 .. 5 : k <= Len(b) /\ ~Continued(b[k])
    BY <1>3
  <2>2. k <= Len(p) /\ ~Continued(p[k])
    BY <1>1, <1>2, <2>1
  <2>3. FixedLength(p) \in 1 .. 5 /\ \A j \in 2 .. FixedLength(p) - 1 : Continued(p[j])
    BY <1>1, FixedLengthProperty
  <2>4. FixedLength(p) <= k
    BY <2>2, <2>3
  <2>5. Len(b) >= FixedLength(p)
    BY <1>1, <2>1, <2>3, <2>4
  <2>6. QED  BY <2>2, <2>5, HeaderOfPrefix DEF HeaderRead
<1>4. CASE Len(b) >= 5 /\ \A k \in 2 .. 5 : Continued(b[k])
  <2>1. \A k \in 2 .. 5 : b[k] = p[k] /\ Continued(p[k])
    BY <1>1, <1>2, <1>4
  <2>2. FixedLength(p) = 5
    BY <1>1, <1>4, <2>1, FixedLengthProperty
  <2>3. FixedLength(b) = 5
    BY <1>1, <1>4, FixedLengthProperty
  <2>4. TotalLength(b) = TotalLength(p)
    <3>1. b[2] = p[2] /\ b[3] = p[3] /\ b[4] = p[4] /\ b[5] = p[5]
      BY <2>1
    <3>2. QED  BY <2>2, <2>3, <3>1 DEF TotalLength
  <2>5. b[1] = p[1]
    BY <1>1, <1>2
  <2>6. QED  BY <1>1, <1>4, <2>2, <2>3, <2>4, <2>5 DEF HeaderRead, Type, Qos
<1>5. QED  BY <1>1, <1>3, <1>4 DEF HeaderRead

-----------------------------------------------------------------------------
(***************************************************************************)
(* Types, for whatever bytes come: also those of a payload that has        *)
(* stalled, which are read as packets.                                     *)
(***************************************************************************)
Stages == {"idle", "first", "length", "topic", "rest", "done", "payload", "answer"}

FrameRecords == [type : Int, topic : Seq(Bytes), data : Seq(Bytes)]

\* What is in the buffer where the worker stands.
Landing(s, b) ==
    /\ s \in Stages \cup {"error"}
    /\ s \notin {"idle", "first", "error"} => Len(b) >= 1
    /\ s = "first"  => b = << >>
    /\ s = "length" => Len(b) <= 5
    /\ s \in {"topic", "rest"} => HeaderRead(b)
    /\ s = "topic"  => Len(b) < FixedLength(b) + 2
    /\ s = "rest"   => Len(b) < Target(b) /\ (Type(b) # PUBLISH => ~Oversized(b))
    /\ s = "done"   => Len(b) >= Target(b) /\ (Type(b) # PUBLISH => ~Oversized(b))

ReceiveInv ==
    /\ TypeOK /\ frames \in Seq(FrameRecords)
    /\ Landing(stage, buffer)
    /\ closed => stage = "idle"
    /\ stage = "payload" => read < TotalLength(buffer)
    /\ stage \in {"first", "length", "topic", "rest"} => before <= Len(buffer)

LEMMA TargetType ==
    ASSUME NEW b \in Seq(Bytes), Len(b) >= 1
    PROVE  Target(b) \in Nat /\ Target(b) <= BufferLength /\ Target(b) <= TotalLength(b)
<1>1. TotalLength(b) \in Nat /\ BufferLength \in Nat
  BY TotalLengthType, BufferAssumption
<1>2. CASE BufferLength < TotalLength(b)
  <2>1. Target(b) = BufferLength
    BY <1>2 DEF Target, Oversized
  <2>2. QED  BY <1>1, <1>2, <2>1
<1>3. CASE ~(BufferLength < TotalLength(b))
  <2>1. Target(b) = TotalLength(b)
    BY <1>3 DEF Target, Oversized
  <2>2. QED  BY <1>1, <1>3, <2>1
<1>4. QED  BY <1>2, <1>3

LEMMA AfterHeaderProperty ==
    ASSUME NEW b
    PROVE  /\ AfterHeader(b) \in {"topic", "error", "rest", "done"}
           /\ AfterHeader(b) = "topic" <=> /\ Oversized(b) /\ Type(b) = PUBLISH
                                           /\ Len(b) < FixedLength(b) + 2
           /\ AfterHeader(b) = "error" => TooBig(b)
           /\ AfterHeader(b) = "rest" => ~TooBig(b) /\ Len(b) < Target(b)
           /\ AfterHeader(b) = "done" => ~TooBig(b) /\ ~(Len(b) < Target(b))
BY DEF AfterHeader

LEMMA AfterHeaderLanding ==
    ASSUME NEW b \in Seq(Bytes), Len(b) >= 1, HeaderRead(b)
    PROVE  Landing(AfterHeader(b), b)
<1>1. Len(b) \in Nat /\ Target(b) \in Nat
  BY TargetType, LenProperties
<1>2. ~TooBig(b) /\ Type(b) # PUBLISH => ~Oversized(b)
  BY DEF TooBig
<1>3. QED  BY <1>1, <1>2, AfterHeaderProperty DEF Landing, Stages

LEMMA ResumedLanding ==
    ASSUME NEW b \in Seq(Bytes)
    PROVE  Landing(Resumed(b), b)
<1>1. Len(b) \in Nat
  BY LenProperties
<1>2. CASE Len(b) = 0
  <2>1. b = << >> /\ Resumed(b) = "first"
    BY <1>2, EmptySeq DEF Resumed
  <2>2. QED  BY <2>1 DEF Landing, Stages
<1>3. CASE Len(b) # 0 /\ (Len(b) = 1 \/ (Len(b) < 6 /\ Continued(b[Len(b)])))
  <2>1. Resumed(b) = "length" /\ Len(b) >= 1 /\ Len(b) <= 5
    BY <1>1, <1>3 DEF Resumed
  <2>2. QED  BY <2>1 DEF Landing, Stages
<1>4. CASE Len(b) # 0 /\ ~(Len(b) = 1 \/ (Len(b) < 6 /\ Continued(b[Len(b)])))
  <2>1. Resumed(b) = AfterHeader(b) /\ Len(b) >= 1
    BY <1>1, <1>4 DEF Resumed
  <2>2. HeaderRead(b)
    <3>1. CASE Len(b) < 6
      <4>1. Len(b) \in 2 .. 5
        <5>1. Len(b) # 1
          BY <1>4, Zenon
        <5>2. \A n \in Nat : n >= 1 /\ n < 6 /\ n # 1 => n \in 2 .. 5
          OBVIOUS
        <5>3. QED  BY <1>1, <2>1, <3>1, <5>1, <5>2, Zenon
      <4>2. ~Continued(b[Len(b)])
        BY <1>4, <3>1, Zenon
      <4>3. QED  BY <1>1, <4>1, <4>2, SMTT(40) DEF HeaderRead
    <3>2. CASE ~(Len(b) < 6)
      BY <1>1, <3>2 DEF HeaderRead
    <3>3. QED  BY <3>1, <3>2
  <2>3. QED  BY <2>1, <2>2, AfterHeaderLanding
<1>5. QED  BY <1>2, <1>3, <1>4

LEMMA EnterLanding ==
    ASSUME NEW s, Enter(s), Landing(s, buffer')
    PROVE  /\ closed' \in BOOLEAN /\ stage' \in Stages /\ Landing(stage', buffer')
           /\ closed' => stage' = "idle"
           /\ closed' <=> s = "error"
           /\ ~closed' => stage' = s
<1>1. CASE s = "error"
  <2>1. closed' = TRUE /\ stage' = "idle"
    BY <1>1 DEF Enter
  <2>2. QED  BY <1>1, <2>1 DEF Landing, Stages
<1>2. CASE s # "error"
  <2>1. closed' = FALSE /\ stage' = s
    BY <1>2 DEF Enter
  <2>2. s \in Stages
    BY <1>2 DEF Landing
  <2>3. QED  BY <1>2, <2>1, <2>2
<1>3. QED  BY <1>1, <1>2

\* What a read of the transport takes: at least a byte, and no more than the
\* buffer has room for.
Taken == Min({Wanted, Len(arrived)})

LEMMA ReadTakes ==
    ASSUME ReceiveInv, stage \in {"first", "length", "topic", "rest"}, arrived # << >>
    PROVE  LET b == buffer \o SubSeq(arrived, 1, Taken)
           IN  /\ Wanted \in Nat /\ Taken \in Nat /\ Taken >= 1 /\ Taken <= Wanted /\ Taken <= Len(arrived)
               /\ SubSeq(arrived, 1, Taken) \in Seq(Bytes) /\ Len(SubSeq(arrived, 1, Taken)) = Taken
               /\ b \in Seq(Bytes) /\ Len(b) = Len(buffer) + Taken
               /\ Len(b) <= BufferLength
               /\ SubSeq(arrived, Taken + 1, Len(arrived)) \in Seq(Bytes)
<1>1. /\ arrived \in Seq(Bytes) /\ buffer \in Seq(Bytes) /\ Len(arrived) \in Nat \ {0}
      /\ Len(buffer) \in Nat /\ Len(buffer) <= BufferLength
  BY LenProperties, EmptySeq DEF ReceiveInv, TypeOK
<1>2. BufferLength \in Nat /\ BufferLength >= 9
  BY BufferAssumption
<1>3. Wanted \in Nat /\ Wanted >= 1 /\ Len(buffer) + Wanted <= BufferLength
  <2>1. CASE stage = "first"
    <3>1. Wanted = 1 /\ Len(buffer) = 0
      BY <2>1 DEF Wanted, ReceiveInv, Landing
    <3>2. QED  BY <1>2, <3>1
  <2>2. CASE stage = "length"
    <3>1. Wanted = 1 /\ Len(buffer) <= 5
      BY <2>2 DEF Wanted, ReceiveInv, Landing
    <3>2. QED  BY <1>1, <1>2, <3>1
  <2>3. CASE stage = "topic"
    <3>1. Wanted = Len(buffer) - FixedLength(buffer) + 2 /\ Len(buffer) >= 1
      BY <2>3 DEF Wanted, ReceiveInv, Landing
    <3>2. /\ FixedLength(buffer) \in 1 .. 5 /\ FixedLength(buffer) <= Len(buffer)
          /\ Len(buffer) < FixedLength(buffer) + 2
      BY <1>1, <2>3, <3>1, FixedLengthProperty DEF ReceiveInv, Landing
    <3>3. QED  BY <1>1, <1>2, <3>1, <3>2, SMTT(40)
  <2>4. CASE stage = "rest"
    <3>1. Wanted = Target(buffer) - Len(buffer) /\ Len(buffer) >= 1 /\ Len(buffer) < Target(buffer)
      BY <2>4 DEF Wanted, ReceiveInv, Landing
    <3>2. Target(buffer) \in Nat /\ Target(buffer) <= BufferLength
      BY <1>1, <3>1, TargetType
    <3>3. QED  BY <1>1, <1>2, <3>1, <3>2
  <2>5. QED  BY <2>1, <2>2, <2>3, <2>4
<1>4. Taken \in Nat /\ Taken >= 1 /\ Taken <= Wanted /\ Taken <= Len(arrived)
  BY <1>1, <1>3, MinOfTwo DEF Taken
<1>5. /\ SubSeq(arrived, 1, Taken) \in Seq(Bytes) /\ Len(SubSeq(arrived, 1, Taken)) = Taken
      /\ SubSeq(arrived, Taken + 1, Len(arrived)) \in Seq(Bytes)
  <2>1. SubSeq(arrived, 1, Taken) \in Seq(Bytes) /\ Len(SubSeq(arrived, 1, Taken)) = Taken
    <3>1. 1 \in Nat \ {0} /\ Taken \in Int /\ Taken <= Len(arrived) /\ 1 <= Taken /\ Taken - 1 + 1 = Taken
      BY <1>4
    <3>2. QED  BY <1>1, <3>1, SubSeqPart
  <2>2. SubSeq(arrived, Taken + 1, Len(arrived)) \in Seq(Bytes)
    <3>1. Taken + 1 \in Nat \ {0} /\ Len(arrived) \in Int
      BY <1>1, <1>4
    <3>2. QED  BY <1>1, <3>1, SubSeqPart
  <2>3. QED  BY <2>1, <2>2
<1>6. LET b == buffer \o SubSeq(arrived, 1, Taken)
      IN  b \in Seq(Bytes) /\ Len(b) = Len(buffer) + Taken
  BY <1>1, <1>5, ConcatProperties
<1>7. Len(buffer) + Taken <= BufferLength
  BY <1>1, <1>2, <1>3, <1>4
<1>8. QED  BY <1>3, <1>4, <1>5, <1>6, <1>7

\* What the read of each stage leads to
Entered(b) == CASE stage = "first"  -> IF ValidHeader(b) THEN "length" ELSE "error"
                [] stage = "length" -> Resumed(b)
                [] stage = "topic"  -> IF Len(b) < FixedLength(b) + 2 THEN "idle" ELSE AfterHeader(b)
                [] stage = "rest"   -> IF Len(b) < Target(b) THEN "idle" ELSE "done"

LEMMA EnteredCases ==
    ASSUME NEW b
    PROVE  /\ stage = "first" /\ ValidHeader(b) => Entered(b) = "length"
           /\ stage = "first" /\ ~ValidHeader(b) => Entered(b) = "error"
           /\ stage = "length" => Entered(b) = Resumed(b)
           /\ stage = "topic" /\ Len(b) < FixedLength(b) + 2 => Entered(b) = "idle"
           /\ stage = "topic" /\ ~(Len(b) < FixedLength(b) + 2) => Entered(b) = AfterHeader(b)
           /\ stage = "rest" /\ Len(b) < Target(b) => Entered(b) = "idle"
           /\ stage = "rest" /\ ~(Len(b) < Target(b)) => Entered(b) = "done"
BY DEF Entered

\* A longer sequence begins with the shorter one.
LEMMA ConcatBegins ==
    ASSUME NEW S, NEW s \in Seq(S), NEW t \in Seq(S)
    PROVE  /\ Begins(s, s \o t) /\ s \o t \in Seq(S) /\ Len(s \o t) = Len(s) + Len(t)
           /\ \A i \in 1 .. Len(t) : (s \o t)[Len(s) + i] = t[i]
<1>1. Len(s) \in Nat /\ Len(t) \in Nat
  BY LenProperties
<1>2. /\ s \o t \in Seq(S) /\ Len(s \o t) = Len(s) + Len(t)
      /\ \A i \in 1 .. Len(s) + Len(t) : (s \o t)[i] = IF i <= Len(s) THEN s[i] ELSE t[i - Len(s)]
  BY ConcatProperties
<1>3. QED  BY <1>1, <1>2 DEF Begins

\* The read of each stage lands where the buffer allows.
LEMMA ReadLanding ==
    ASSUME ReceiveInv, Read
    PROVE  /\ Landing(Entered(buffer'), buffer') /\ Enter(Entered(buffer'))
           /\ buffer' \in Seq(Bytes) /\ Len(buffer') = Len(buffer) + Taken
           /\ Taken \in Nat /\ Taken >= 1 /\ Taken <= Len(arrived)
           /\ Len(buffer') <= BufferLength /\ arrived' \in Seq(Bytes)
           /\ Begins(buffer, buffer')
<1>1. /\ stage \in {"first", "length", "topic", "rest"} /\ arrived # << >>
      /\ buffer' = buffer \o SubSeq(arrived, 1, Taken)
      /\ arrived' = SubSeq(arrived, Taken + 1, Len(arrived))
      /\ Enter(Entered(buffer'))
  BY DEF Read, Taken, Entered
<1>2. /\ Taken \in Nat /\ Taken >= 1 /\ Taken <= Wanted /\ Taken <= Len(arrived)
      /\ SubSeq(arrived, 1, Taken) \in Seq(Bytes)
      /\ buffer' \in Seq(Bytes) /\ Len(buffer') = Len(buffer) + Taken
      /\ Len(buffer') <= BufferLength /\ arrived' \in Seq(Bytes)
  BY <1>1, ReadTakes
<1>3. buffer \in Seq(Bytes) /\ Len(buffer) \in Nat
  BY LenProperties DEF ReceiveInv, TypeOK
<1>4. Begins(buffer, buffer')
  BY <1>1, <1>2, <1>3, ConcatBegins
<1>5. Len(buffer') >= 1 /\ Len(buffer') \in Nat
  BY <1>2, <1>3
<1>6. Landing(Entered(buffer'), buffer')
  <2>1. CASE stage = "first"
    <3>1. Len(buffer) = 0 /\ Wanted = 1
      BY <2>1 DEF ReceiveInv, Landing, Wanted
    <3>2. Len(buffer') = 1
      BY <1>2, <3>1
    <3>3. QED  BY <2>1, <3>2, EnteredCases DEF Landing, Stages
  <2>2. CASE stage = "length"
    BY <1>2, <2>2, ResumedLanding, EnteredCases
  <2>3. CASE stage = "topic"
    <3>1. HeaderRead(buffer) /\ Len(buffer) >= 1
      BY <2>3 DEF ReceiveInv, Landing
    <3>2. HeaderRead(buffer')
      BY <1>2, <1>3, <1>4, <3>1, HeaderKept
    <3>3. CASE Len(buffer') < FixedLength(buffer') + 2
      BY <2>3, <3>3, EnteredCases DEF Landing, Stages
    <3>4. CASE ~(Len(buffer') < FixedLength(buffer') + 2)
      BY <1>2, <1>5, <2>3, <3>2, <3>4, EnteredCases, AfterHeaderLanding
    <3>5. QED  BY <3>3, <3>4
  <2>4. CASE stage = "rest"
    <3>1. HeaderRead(buffer) /\ Len(buffer) >= 1 /\ (Type(buffer) # PUBLISH => ~Oversized(buffer))
      BY <2>4 DEF ReceiveInv, Landing
    <3>2. Type(buffer') # PUBLISH => ~Oversized(buffer')
      BY <1>2, <1>3, <1>4, <3>1, HeaderKept DEF Oversized
    <3>3. CASE Len(buffer') < Target(buffer')
      BY <2>4, <3>3, EnteredCases DEF Landing, Stages
    <3>4. CASE ~(Len(buffer') < Target(buffer'))
      <4>1. Target(buffer') \in Nat
        BY <1>2, <1>5, TargetType
      <4>2. Len(buffer') >= Target(buffer')
        BY <1>5, <3>4, <4>1
      <4>3. QED  BY <1>5, <2>4, <3>2, <3>4, <4>2, EnteredCases DEF Landing, Stages
    <3>5. QED  BY <3>3, <3>4
  <2>5. QED  BY <1>1, <2>1, <2>2, <2>3, <2>4
<1>7. QED  BY <1>1, <1>2, <1>4, <1>6

\* Where the topic and the payload of a PUBLISH lie
LEMMA PublishPositions ==
    ASSUME NEW b \in Seq(Bytes), Len(b) >= 1, FixedLength(b) + 2 <= Len(b)
    PROVE  /\ TopicLength(b) \in Nat
           /\ TopicEnd(b) \in Nat /\ TopicEnd(b) >= FixedLength(b) + 2
           /\ DataStart(b) \in Nat /\ DataStart(b) >= TopicEnd(b) + 1
           /\ HeaderEstimate(b) \in Nat /\ DataStart(b) = HeaderEstimate(b) + 3
<1>1. FixedLength(b) \in 1 .. 5 /\ Len(b) \in Nat
  BY FixedLengthProperty
<1>2. b[FixedLength(b) + 1] \in Bytes /\ b[FixedLength(b) + 2] \in Bytes
  <2>1. FixedLength(b) + 1 \in 1 .. Len(b) /\ FixedLength(b) + 2 \in 1 .. Len(b)
    BY <1>1
  <2>2. QED  BY <2>1, ElementOfSeq
<1>3. TopicLength(b) \in Nat
  <2>1. \A m, n \in Bytes : m * 256 + n \in Nat
    BY DEF Bytes
  <2>2. QED  BY <1>2, <2>1 DEF TopicLength
<1>4. TopicEnd(b) = FixedLength(b) + 2 + TopicLength(b)
  BY DEF TopicEnd
<1>5. PICK n \in {0, 2} : n = IF Qos(b) > 0 THEN 2 ELSE 0
  OBVIOUS
<1>6. DataStart(b) = TopicEnd(b) + n + 1 /\ HeaderEstimate(b) = FixedLength(b) + TopicLength(b) + n
  BY <1>5 DEF DataStart, HeaderEstimate
<1>7. QED  BY <1>1, <1>3, <1>4, <1>6, SMTT(40)

LEMMA PublishParts ==
    ASSUME NEW b \in Seq(Bytes), Len(b) >= 1, ~NoTopic(b)
    PROVE  /\ FixedLength(b) + 2 < Len(b) /\ TopicEnd(b) <= Len(b)
           /\ Topic(b) \in Seq(Bytes) /\ Data(b) \in Seq(Bytes)
<1>1. FixedLength(b) \in 1 .. 5 /\ Len(b) \in Nat /\ TotalLength(b) \in Nat
  BY FixedLengthProperty, TotalLengthType
<1>2. FixedLength(b) + 2 < Len(b)
  BY <1>1 DEF NoTopic
<1>3. TopicEnd(b) \in Nat /\ DataStart(b) \in Nat \ {0}
  BY <1>1, <1>2, PublishPositions
<1>4. TopicEnd(b) <= Len(b)
  BY <1>1, <1>3 DEF NoTopic
<1>5. Topic(b) \in Seq(Bytes)
  <2>1. FixedLength(b) + 3 \in Nat \ {0}
    BY <1>1
  <2>2. QED  BY <1>3, <1>4, <2>1, SubSeqPart DEF Topic
<1>6. Data(b) \in Seq(Bytes)
  <2>1. CASE DataStart(b) > Len(b)
    <3>1. Data(b) = << >>
      BY <2>1 DEF Data
    <3>2. QED  BY <3>1
  <2>2. CASE ~(DataStart(b) > Len(b))
    <3> DEFINE n == Min({TotalLength(b), Len(b)})
    <3>1. n \in Int /\ n <= Len(b)
      BY <1>1, MinOfTwo
    <3>2. Data(b) = SubSeq(b, DataStart(b), n)
      BY <2>2 DEF Data
    <3> HIDE DEF n
    <3>3. QED  BY <1>3, <3>1, <3>2, SubSeqPart
  <2>3. QED  BY <2>1, <2>2
<1>7. QED  BY <1>2, <1>4, <1>5, <1>6

\* The next piece of a payload
MoreTaken == Min({BufferLength, TotalLength(buffer) - read, Len(arrived)})

LEMMA MoreTakes ==
    ASSUME ReceiveInv, stage = "payload", arrived # << >>
    PROVE  /\ TotalLength(buffer) \in Nat /\ read \in Nat /\ Len(arrived) \in Nat
           /\ MoreTaken \in Nat /\ MoreTaken >= 1
           /\ MoreTaken <= Len(arrived) /\ read + MoreTaken <= TotalLength(buffer)
           /\ SubSeq(arrived, 1, MoreTaken) \in Seq(Bytes) /\ Len(SubSeq(arrived, 1, MoreTaken)) = MoreTaken
           /\ SubSeq(arrived, MoreTaken + 1, Len(arrived)) \in Seq(Bytes)
<1>1. /\ arrived \in Seq(Bytes) /\ Len(arrived) \in Nat \ {0} /\ read \in Nat
      /\ buffer \in Seq(Bytes) /\ Len(buffer) >= 1 /\ read < TotalLength(buffer)
  BY LenProperties, EmptySeq DEF ReceiveInv, TypeOK, Landing
<1>2. TotalLength(buffer) \in Nat /\ BufferLength \in Nat /\ BufferLength >= 9
  BY <1>1, TotalLengthType, BufferAssumption
<1> DEFINE left == TotalLength(buffer) - read
<1>3. left \in Nat /\ left >= 1
  BY <1>1, <1>2
<1>4. MoreTaken \in {BufferLength, left, Len(arrived)} /\ MoreTaken <= left /\ MoreTaken <= Len(arrived)
  BY <1>1, <1>2, <1>3, MinOfThree DEF MoreTaken
<1>5. MoreTaken \in Nat /\ MoreTaken >= 1 /\ MoreTaken <= Len(arrived) /\ MoreTaken <= left
  BY <1>1, <1>2, <1>3, <1>4
<1>6. read + MoreTaken <= TotalLength(buffer)
  BY <1>1, <1>2, <1>5
<1>7. SubSeq(arrived, 1, MoreTaken) \in Seq(Bytes) /\ Len(SubSeq(arrived, 1, MoreTaken)) = MoreTaken
  <2>1. 1 \in Nat \ {0} /\ MoreTaken \in Int /\ 1 <= MoreTaken /\ MoreTaken - 1 + 1 = MoreTaken
    BY <1>5
  <2>2. QED  BY <1>1, <1>5, <2>1, SubSeqPart
<1>8. SubSeq(arrived, MoreTaken + 1, Len(arrived)) \in Seq(Bytes)
  <2>1. MoreTaken + 1 \in Nat \ {0} /\ Len(arrived) \in Int
    BY <1>1, <1>5
  <2>2. QED  BY <1>1, <2>1, SubSeqPart
<1>9. QED  BY <1>1, <1>2, <1>5, <1>6, <1>7, <1>8

LEMMA InitReceive ==
    Init => ReceiveInv
<1> SUFFICES ASSUME Init PROVE ReceiveInv
  OBVIOUS
<1>1. wire = << >> /\ arrived = << >> /\ buffer = << >> /\ topic = << >> /\ data = << >>
  BY DEF Init
<1>2. << >> \in Seq(Bytes) /\ Len(<< >>) = 0 /\ << >> \in Seq(Packets) /\ << >> \in Seq(FrameRecords)
  OBVIOUS
<1>3. 0 <= BufferLength /\ 0 \in 0 .. BufferLength /\ 0 <= MaxPackets /\ 0 \in 0 .. 0
  BY BufferAssumption, NetworkAssumption
<1>4. TypeOK
  <2>1. buffer \in Seq(Bytes) /\ Len(buffer) <= BufferLength /\ before \in 0 .. BufferLength
    BY <1>1, <1>2, <1>3 DEF Init
  <2>2. sent \in Seq(Packets) /\ Len(sent) <= MaxPackets /\ answers \in 0 .. Len(frames)
    BY <1>2, <1>3 DEF Init
  <2>3. QED  BY <1>1, <1>2, <2>1, <2>2 DEF Init, TypeOK
<1>5. Landing(stage, buffer)
  BY DEF Init, Landing, Stages
<1>6. QED  BY <1>2, <1>4, <1>5 DEF Init, ReceiveInv

LEMMA TurnType ==
    ASSUME ReceiveInv, Turn
    PROVE  ReceiveInv'
<1>1. /\ before' = Len(buffer) /\ Enter(Resumed(buffer)) /\ buffer' = buffer
      /\ UNCHANGED <<wire, arrived, topic, data, read, sent, frames, answers, stalled>>
  BY DEF Turn, stream, piece
<1>2. buffer \in Seq(Bytes) /\ Len(buffer) \in Nat /\ Len(buffer) <= BufferLength /\ BufferLength \in Nat
  BY LenProperties, BufferAssumption DEF ReceiveInv, TypeOK
<1>3. Landing(Resumed(buffer), buffer')
  BY <1>1, <1>2, ResumedLanding
<1>4. /\ closed' \in BOOLEAN /\ stage' \in Stages /\ Landing(stage', buffer')
      /\ closed' => stage' = "idle"
      /\ closed' <=> Resumed(buffer) = "error"
      /\ ~closed' => stage' = Resumed(buffer)
  BY <1>1, <1>3, EnterLanding
<1>5. stage' # "payload"
  BY <1>4, AfterHeaderProperty DEF Resumed
<1>6. before' \in 0 .. BufferLength /\ before' <= Len(buffer')
  BY <1>1, <1>2
<1>7. TypeOK'
  BY <1>1, <1>2, <1>4, <1>6 DEF ReceiveInv, TypeOK, Stages
<1>8. QED  BY <1>1, <1>4, <1>5, <1>6, <1>7 DEF ReceiveInv

LEMMA ReadType ==
    ASSUME ReceiveInv, Read
    PROVE  ReceiveInv'
<1>1. /\ stage \in {"first", "length", "topic", "rest"}
      /\ UNCHANGED <<wire, before, topic, data, read, sent, frames, answers, stalled>>
  BY DEF Read, piece
<1>2. /\ Landing(Entered(buffer'), buffer') /\ Enter(Entered(buffer'))
      /\ buffer' \in Seq(Bytes) /\ Len(buffer') = Len(buffer) + Taken
      /\ Taken \in Nat /\ Taken >= 1
      /\ Len(buffer') <= BufferLength /\ arrived' \in Seq(Bytes)
  BY ReadLanding
<1>3. /\ closed' \in BOOLEAN /\ stage' \in Stages /\ Landing(stage', buffer')
      /\ closed' => stage' = "idle"
      /\ ~closed' => stage' = Entered(buffer')
  BY <1>2, EnterLanding
<1>4. stage' # "payload"
  BY <1>1, <1>3, EnteredCases, AfterHeaderProperty DEF Resumed
<1>5. before' <= Len(buffer')
  <2>1. before \in Nat /\ before <= Len(buffer) /\ Len(buffer) \in Nat
    BY <1>1, LenProperties DEF ReceiveInv, TypeOK
  <2>2. QED  BY <1>1, <1>2, <2>1
<1>6. TypeOK'
  BY <1>1, <1>2, <1>3 DEF ReceiveInv, TypeOK, Stages
<1>7. QED  BY <1>1, <1>3, <1>4, <1>5, <1>6 DEF ReceiveInv

LEMMA NothingToReadType ==
    ASSUME ReceiveInv, NothingToRead
    PROVE  ReceiveInv'
<1>1. /\ UNCHANGED <<wire, arrived, buffer, before, topic, data, read, sent, frames, answers, stalled>>
      /\ closed' \in BOOLEAN /\ stage' = "idle"
  BY DEF NothingToRead, Enter, stream, piece
<1>2. TypeOK'
  BY <1>1 DEF ReceiveInv, TypeOK
<1>3. Landing(stage', buffer')
  BY <1>1 DEF Landing, Stages
<1>4. QED  BY <1>1, <1>2, <1>3 DEF ReceiveInv

\* A packet is consumed.
LEMMA ConsumedType ==
    ASSUME ReceiveInv, NEW f \in FrameRecords, Consumed(f), stage' = "idle", closed' \in BOOLEAN,
           answers' \in {answers, answers + 1},
           UNCHANGED <<wire, arrived, before, sent, stalled>>
    PROVE  ReceiveInv'
<1>1. /\ frames' = Append(frames, f)
      /\ buffer' = << >> /\ topic' = << >> /\ data' = << >> /\ read' = 0
  BY DEF Consumed
<1>2. frames \in Seq(FrameRecords) /\ Len(frames) \in Nat /\ answers \in 0 .. Len(frames)
  BY LenProperties DEF ReceiveInv, TypeOK
<1>3. frames' \in Seq(FrameRecords) /\ Len(frames') = Len(frames) + 1
  BY <1>1, <1>2, AppendProperties
<1>4. answers' \in 0 .. Len(frames')
  BY <1>2, <1>3
<1>5. << >> \in Seq(Bytes) /\ Len(<< >>) = 0 /\ BufferLength \in Nat
  BY BufferAssumption
<1>6. TypeOK'
  BY <1>1, <1>4, <1>5 DEF ReceiveInv, TypeOK
<1>7. Landing(stage', buffer')
  BY DEF Landing, Stages
<1>8. QED  BY <1>3, <1>6, <1>7 DEF ReceiveInv

LEMMA ProcessPacketType ==
    ASSUME ReceiveInv, ProcessPacket
    PROVE  ReceiveInv'
<1> DEFINE d == SubSeq(buffer, FixedLength(buffer) + 1, TotalLength(buffer))
           f == Frame(Type(buffer), << >>, d)
<1>1. /\ stage = "done" /\ Type(buffer) # PUBLISH /\ stage' = "idle" /\ Consumed(f)
      /\ UNCHANGED <<wire, arrived, before, closed, sent, answers, stalled>>
  BY DEF ProcessPacket, stream
<1>2. buffer \in Seq(Bytes) /\ Len(buffer) >= 1 /\ Len(buffer) >= Target(buffer) /\ ~Oversized(buffer)
  BY <1>1 DEF ReceiveInv, TypeOK, Landing
<1>3. /\ FixedLength(buffer) \in 1 .. 5 /\ TotalLength(buffer) \in Nat
      /\ TotalLength(buffer) <= Len(buffer)
  <2>1. Target(buffer) = TotalLength(buffer)
    BY <1>2 DEF Target
  <2>2. QED  BY <1>2, <2>1, FixedLengthProperty, TotalLengthType
<1>4. d \in Seq(Bytes)
  <2>1. FixedLength(buffer) + 1 \in Nat \ {0} /\ TotalLength(buffer) \in Int
    BY <1>3
  <2>2. QED  BY <1>2, <1>3, <2>1, SubSeqPart
<1>5. Type(buffer) \in Int
  <2>1. buffer[1] \in Bytes
    BY <1>2, ElementOfSeq, LenProperties
  <2>2. \A n \in Bytes : n \div 16 \in Int
    BY DEF Bytes
  <2>3. QED  BY <2>1, <2>2 DEF Type
<1>6. f \in FrameRecords
  <2> HIDE DEF d
  <2>1. << >> \in Seq(Bytes)
    OBVIOUS
  <2>2. QED  BY <1>4, <1>5, <2>1 DEF Frame, FrameRecords
<1> HIDE DEF f
<1>7. closed' \in BOOLEAN /\ answers' \in {answers, answers + 1}
  BY <1>1 DEF ReceiveInv, TypeOK
<1>8. QED  BY <1>1, <1>6, <1>7, ConsumedType

LEMMA DeliverPublishType ==
    ASSUME ReceiveInv, DeliverPublish
    PROVE  ReceiveInv'
<1>1. /\ stage = "done"
      /\ UNCHANGED <<wire, arrived, buffer, before, sent, frames, answers, stalled>>
  BY DEF DeliverPublish, stream
<1>2. buffer \in Seq(Bytes) /\ Len(buffer) >= 1 /\ Len(buffer) \in Nat
  BY <1>1, LenProperties DEF ReceiveInv, TypeOK, Landing
<1>3. CASE NoTopic(buffer)
  <2>1. Enter("error") /\ UNCHANGED <<topic, data, read>>
    BY <1>3 DEF DeliverPublish, piece
  <2>2. closed' = TRUE /\ stage' = "idle"
    BY <2>1 DEF Enter
  <2>3. TypeOK'
    BY <1>1, <2>1, <2>2 DEF ReceiveInv, TypeOK
  <2>4. Landing(stage', buffer')
    BY <2>2 DEF Landing, Stages
  <2>5. QED  BY <1>1, <2>2, <2>3, <2>4 DEF ReceiveInv
<1>4. CASE ~NoTopic(buffer)
  <2>1. /\ topic' = Topic(buffer) /\ data' = Data(buffer) /\ read' = Len(buffer)
        /\ Enter(IF Len(buffer) < TotalLength(buffer) THEN "payload" ELSE "answer")
    BY <1>4 DEF DeliverPublish
  <2>2. /\ closed' = FALSE /\ stage' \in {"payload", "answer"}
        /\ stage' = "payload" => Len(buffer) < TotalLength(buffer)
    BY <2>1 DEF Enter
  <2>3. topic' \in Seq(Bytes) /\ data' \in Seq(Bytes) /\ read' \in Nat
    BY <1>2, <1>4, <2>1, PublishParts
  <2>4. TypeOK'
    BY <1>1, <2>2, <2>3 DEF ReceiveInv, TypeOK
  <2>5. Landing(stage', buffer')
    BY <1>1, <1>2, <2>2 DEF Landing, Stages
  <2>6. stage' = "payload" => read' < TotalLength(buffer')
    BY <1>1, <2>1, <2>2
  <2>7. QED  BY <1>1, <2>2, <2>4, <2>5, <2>6 DEF ReceiveInv
<1>5. QED  BY <1>3, <1>4

LEMMA DeliverMoreType ==
    ASSUME ReceiveInv, DeliverMore
    PROVE  ReceiveInv'
<1>1. /\ stage = "payload" /\ arrived # << >>
      /\ data' = data \o SubSeq(arrived, 1, MoreTaken)
      /\ arrived' = SubSeq(arrived, MoreTaken + 1, Len(arrived))
      /\ read' = read + MoreTaken
      /\ stage' = IF read + MoreTaken < TotalLength(buffer) THEN "payload" ELSE "answer"
      /\ UNCHANGED <<wire, buffer, before, topic, closed, sent, frames, answers, stalled>>
  BY DEF DeliverMore, MoreTaken
<1>2. /\ TotalLength(buffer) \in Nat /\ read \in Nat /\ MoreTaken \in Nat
      /\ SubSeq(arrived, 1, MoreTaken) \in Seq(Bytes) /\ arrived' \in Seq(Bytes)
  BY <1>1, MoreTakes
<1>3. data' \in Seq(Bytes)
  BY <1>1, <1>2, ConcatProperties DEF ReceiveInv, TypeOK
<1>4. /\ read' \in Nat /\ stage' \in {"payload", "answer"}
      /\ stage' = "payload" => read' < TotalLength(buffer')
  BY <1>1, <1>2
<1>5. ~closed
  BY <1>1 DEF ReceiveInv
<1>6. TypeOK'
  BY <1>1, <1>2, <1>3, <1>4 DEF ReceiveInv, TypeOK
<1>7. Landing(stage', buffer')
  BY <1>1, <1>4 DEF ReceiveInv, Landing, Stages
<1>8. QED  BY <1>1, <1>4, <1>5, <1>6, <1>7 DEF ReceiveInv

LEMMA DeliverStallsType ==
    ASSUME ReceiveInv, DeliverStalls
    PROVE  ReceiveInv'
<1>1. /\ stage = "payload" /\ stage' = "answer" /\ stalled' = TRUE
      /\ UNCHANGED <<wire, arrived, buffer, before, topic, data, read, closed, sent, frames, answers>>
  BY DEF DeliverStalls, stream, piece
<1>2. TypeOK'
  BY <1>1 DEF ReceiveInv, TypeOK
<1>3. Landing(stage', buffer') /\ ~closed'
  BY <1>1 DEF ReceiveInv, Landing, Stages
<1>4. QED  BY <1>1, <1>2, <1>3 DEF ReceiveInv

LEMMA AnswerType ==
    ASSUME ReceiveInv, Answer
    PROVE  ReceiveInv'
<1>1. stage = "answer" /\ UNCHANGED <<wire, arrived, before, sent, stalled>>
  BY DEF Answer, stream
<1>2. CASE Consumed(Frame(PUBLISH, topic, data)) /\ Enter("idle")
           /\ answers' = IF Qos(buffer) > 0 THEN answers + 1 ELSE answers
  <2>1. closed' = FALSE /\ stage' = "idle"
    BY <1>2 DEF Enter
  <2>2. Frame(PUBLISH, topic, data) \in FrameRecords
    BY DEF ReceiveInv, TypeOK, Frame, FrameRecords, PUBLISH
  <2>3. answers' \in {answers, answers + 1}
    BY <1>2
  <2>4. QED  BY <1>1, <1>2, <2>1, <2>2, <2>3, ConsumedType
<1>3. CASE Enter("error") /\ UNCHANGED <<buffer, topic, data, read, frames, answers>>
  <2>1. closed' = TRUE /\ stage' = "idle"
    BY <1>3 DEF Enter
  <2>2. TypeOK'
    BY <1>1, <1>3, <2>1 DEF ReceiveInv, TypeOK
  <2>3. Landing(stage', buffer')
    BY <2>1 DEF Landing, Stages
  <2>4. QED  BY <1>3, <2>1, <2>2, <2>3 DEF ReceiveInv
<1>4. QED  BY <1>2, <1>3 DEF Answer, piece

LEMMA NetworkType ==
    ASSUME ReceiveInv, Send \/ Arrive
    PROVE  ReceiveInv'
<1>1. UNCHANGED <<buffer, before, stage, topic, data, read, closed, frames, answers, stalled>>
  BY DEF Send, Arrive, piece
<1>2. wire \in Seq(Bytes) /\ arrived \in Seq(Bytes) /\ sent \in Seq(Packets)
  BY DEF ReceiveInv, TypeOK
<1>3. CASE Send
  <2>1. PICK p \in Packets : sent' = Append(sent, p) /\ wire' = wire \o p
    BY <1>3 DEF Send
  <2>2. p \in Seq(Bytes)
    BY PacketsAssumption
  <2>3. wire' \in Seq(Bytes)
    BY <1>2, <2>1, <2>2, ConcatProperties
  <2>4. sent' \in Seq(Packets) /\ Len(sent') = Len(sent) + 1
    BY <1>2, <2>1, AppendProperties
  <2>5. Len(sent') <= MaxPackets
    BY <1>2, <1>3, <2>4, NetworkAssumption, LenProperties DEF Send
  <2>6. arrived' = arrived
    BY <1>3 DEF Send
  <2>7. TypeOK'
    BY <1>1, <1>2, <2>3, <2>4, <2>5, <2>6 DEF ReceiveInv, TypeOK
  <2>8. QED  BY <1>1, <2>7 DEF ReceiveInv
<1>4. CASE Arrive
  <2>1. PICK k \in DOMAIN wire : /\ arrived' = arrived \o SubSeq(wire, 1, k)
                                 /\ wire' = SubSeq(wire, k + 1, Len(wire))
    BY <1>4 DEF Arrive
  <2>2. Len(wire) \in Nat /\ k \in 1 .. Len(wire)
    BY <1>2, <2>1, LenProperties
  <2>3. SubSeq(wire, 1, k) \in Seq(Bytes) /\ SubSeq(wire, k + 1, Len(wire)) \in Seq(Bytes)
    BY <1>2, <2>2, SubSeqPart
  <2>4. arrived' \in Seq(Bytes) /\ wire' \in Seq(Bytes)
    BY <1>2, <2>1, <2>3, ConcatProperties
  <2>5. sent' = sent
    BY <1>4 DEF Arrive
  <2>6. TypeOK'
    BY <1>1, <2>4, <2>5 DEF ReceiveInv, TypeOK
  <2>7. QED  BY <1>1, <2>6 DEF ReceiveInv
<1>5. QED  BY <1>3, <1>4

LEMMA NextType ==
    ASSUME ReceiveInv, [Next]_vars
    PROVE  ReceiveInv'
<1>1. CASE Turn           BY <1>1, TurnType
<1>2. CASE Read           BY <1>2, ReadType
<1>3. CASE NothingToRead  BY <1>3, NothingToReadType
<1>4. CASE ProcessPacket  BY <1>4, ProcessPacketType
<1>5. CASE DeliverPublish BY <1>5, DeliverPublishType
<1>6. CASE DeliverMore    BY <1>6, DeliverMoreType
<1>7. CASE DeliverStalls  BY <1>7, DeliverStallsType
<1>8. CASE Answer         BY <1>8, AnswerType
<1>9. CASE Send \/ Arrive BY <1>9, NetworkType
<1>10. CASE UNCHANGED vars
  <2>1. UNCHANGED <<wire, arrived, buffer, before, stage, topic, data, read, closed, sent, frames,
                    answers, stalled>>
    BY <1>10 DEF vars, stream, piece
  <2>2. TypeOK'
    BY <2>1 DEF ReceiveInv, TypeOK
  <2>3. QED  BY <2>1, <2>2 DEF ReceiveInv
<1>11. QED  BY <1>1, <1>2, <1>3, <1>4, <1>5, <1>6, <1>7, <1>8, <1>9, <1>10 DEF Next, Receiver

\* Whatever bytes come and however they are cut, in_buffer is never overrun and
\* what is read out of it has its type (mqtt_client.c:1509-1642).
THEOREM TypeCorrect == Spec => []TypeOK
<1>1. Spec => []ReceiveInv
  BY InitReceive, NextType, PTL DEF Spec
<1>2. ReceiveInv => TypeOK
  BY DEF ReceiveInv
<1>3. QED  BY <1>1, <1>2, PTL

-----------------------------------------------------------------------------
(***************************************************************************)
(* The byte stream: the packets sent one behind the other, of which a part *)
(* is consumed, a part has arrived and a part is under way.  A stream is   *)
(* described by its bytes and by where each packet ends in them.           *)
(***************************************************************************)
Layout(s, bytes, end) ==
    /\ bytes \in Seq(Bytes) /\ end \in [0 .. Len(s) -> Nat]
    /\ end[0] = 0 /\ end[Len(s)] = Len(bytes)
    /\ \A k \in 1 .. Len(s) : /\ end[k] = end[k - 1] + Len(s[k]) /\ end[k] <= Len(bytes)
                              /\ \A i \in 1 .. Len(s[k]) : bytes[end[k - 1] + i] = s[k][i]

\* After the first pos bytes, a has arrived and w is under way.
Remains(bytes, pos, a, w) ==
    /\ Len(bytes) = pos + Len(a) + Len(w)
    /\ \A i \in 1 .. Len(a) : a[i] = bytes[pos + i]
    /\ \A i \in 1 .. Len(w) : w[i] = bytes[pos + Len(a) + i]

\* The first n packets of s and so many bytes of the next one are consumed.
Flow(s, n, used, a, w) ==
    \E bytes, end : Layout(s, bytes, end) /\ Remains(bytes, end[n] + used, a, w)

\* The packets sent are sequences of bytes.
LEMMA PacketBytes ==
    ASSUME NEW s \in Seq(Packets)
    PROVE  Len(s) \in Nat /\ \A k \in 1 .. Len(s) : s[k] \in Seq(Bytes) /\ Len(s[k]) \in Nat
<1>1. Len(s) \in Nat /\ \A k \in 1 .. Len(s) : s[k] \in Packets
  BY LenProperties, ElementOfSeq
<1>2. \A p \in Packets : p \in Seq(Bytes) /\ Len(p) \in Nat
  BY PacketsAssumption, LenProperties
<1>3. QED  BY <1>1, <1>2

LEMMA FlowStarts ==
    Flow(<< >>, 0, 0, << >>, << >>)
<1> DEFINE end == [k \in 0 .. 0 |-> 0]
<1>1. << >> \in Seq(Bytes) /\ Len(<< >>) = 0 /\ end \in [0 .. 0 -> Nat] /\ end[0] = 0
  OBVIOUS
<1> HIDE DEF end
<1>2. Layout(<< >>, << >>, end)
  BY <1>1 DEF Layout
<1>3. Remains(<< >>, end[0] + 0, << >>, << >>)
  BY <1>1 DEF Remains
<1>4. QED  BY <1>2, <1>3 DEF Flow

\* The broker sends one more packet.
LEMMA FlowSends ==
    ASSUME NEW s \in Seq(Packets), NEW n \in 0 .. Len(s), NEW used \in Nat,
           NEW a \in Seq(Bytes), NEW w \in Seq(Bytes), NEW p \in Packets, Flow(s, n, used, a, w)
    PROVE  Flow(Append(s, p), n, used, a, w \o p)
<1>1. PICK bytes, end : Layout(s, bytes, end) /\ Remains(bytes, end[n] + used, a, w)
  BY DEF Flow
<1>2. p \in Seq(Bytes) /\ Len(p) \in Nat /\ Len(a) \in Nat /\ Len(w) \in Nat
  BY PacketsAssumption, LenProperties
<1>3. Len(s) \in Nat /\ \A k \in 1 .. Len(s) : s[k] \in Seq(Bytes) /\ Len(s[k]) \in Nat
  BY PacketBytes
<1>4. /\ bytes \in Seq(Bytes) /\ Len(bytes) \in Nat /\ end \in [0 .. Len(s) -> Nat]
      /\ end[0] = 0 /\ end[Len(s)] = Len(bytes)
  BY <1>1, LenProperties DEF Layout
<1>11. ASSUME NEW k \in 1 .. Len(s)
       PROVE  /\ k \in 0 .. Len(s) /\ k - 1 \in 0 .. Len(s) /\ end[k] \in Nat /\ end[k - 1] \in Nat
              /\ end[k] = end[k - 1] + Len(s[k]) /\ end[k] <= Len(bytes) /\ Len(s[k]) \in Nat
              /\ \A i \in 1 .. Len(s[k]) : bytes[end[k - 1] + i] = s[k][i]
  <2>1. k \in 0 .. Len(s) /\ k - 1 \in 0 .. Len(s)
    BY <1>3
  <2>2. end[k] \in Nat /\ end[k - 1] \in Nat /\ Len(s[k]) \in Nat
    BY <1>3, <1>4, <2>1
  <2>3. QED  BY <1>1, <2>1, <2>2 DEF Layout
<1> DEFINE t == Append(s, p)
           all == bytes \o p
           last == [k \in 0 .. Len(s) + 1 |-> IF k <= Len(s) THEN end[k] ELSE Len(bytes) + Len(p)]
<1>5. Len(t) = Len(s) + 1 /\ t[Len(s) + 1] = p /\ \A k \in 1 .. Len(s) : t[k] = s[k]
  BY <1>2, AppendProperties
<1>6. /\ all \in Seq(Bytes) /\ Len(all) = Len(bytes) + Len(p)
      /\ \A i \in 1 .. Len(bytes) : all[i] = bytes[i]
      /\ \A i \in 1 .. Len(p) : all[Len(bytes) + i] = p[i]
  BY <1>2, <1>4, ConcatBegins DEF Begins
<1>7. /\ last \in [0 .. Len(s) + 1 -> Nat]
      /\ \A k \in 0 .. Len(s) : last[k] = end[k]
      /\ last[Len(s) + 1] = Len(bytes) + Len(p)
  BY <1>2, <1>3, <1>4
<1> HIDE DEF t, all, last
<1>8. Layout(t, all, last)
  <2>1. all \in Seq(Bytes) /\ last \in [0 .. Len(t) -> Nat] /\ last[0] = 0 /\ last[Len(t)] = Len(all)
    BY <1>3, <1>4, <1>5, <1>6, <1>7
  <2>2. ASSUME NEW k \in 1 .. Len(s)
        PROVE  /\ last[k] = last[k - 1] + Len(t[k]) /\ last[k] <= Len(all)
               /\ \A i \in 1 .. Len(t[k]) : all[last[k - 1] + i] = t[k][i]
    <3>1. /\ k \in 0 .. Len(s) /\ k - 1 \in 0 .. Len(s) /\ end[k] \in Nat /\ end[k - 1] \in Nat
          /\ end[k] = end[k - 1] + Len(s[k]) /\ end[k] <= Len(bytes) /\ Len(s[k]) \in Nat
      BY <1>11
    <3>2. \A i \in 1 .. Len(s[k]) : bytes[end[k - 1] + i] = s[k][i]
      BY <1>11
    <3>3. t[k] = s[k] /\ last[k] = end[k] /\ last[k - 1] = end[k - 1]
      BY <1>5, <1>7, <3>1
    <3>4. \A i \in 1 .. Len(s[k]) : end[k - 1] + i \in 1 .. Len(bytes)
      BY <1>4, <3>1, SMTT(40)
    <3>5. \A i \in 1 .. Len(s[k]) : all[end[k - 1] + i] = s[k][i]
      BY <1>6, <3>2, <3>4
    <3>6. end[k] <= Len(all)
      BY <1>2, <1>4, <1>6, <3>1
    <3>7. QED  BY <3>1, <3>3, <3>5, <3>6
  <2>3. /\ last[Len(s) + 1] = last[Len(s)] + Len(p) /\ last[Len(s) + 1] <= Len(all)
        /\ \A i \in 1 .. Len(p) : all[last[Len(s)] + i] = p[i]
    <3>1. last[Len(s)] = Len(bytes)
      BY <1>3, <1>4, <1>7, SMTT(40)
    <3>2. QED  BY <1>2, <1>4, <1>6, <1>7, <3>1
  <2>4. \A k \in 1 .. Len(t) : k \in 1 .. Len(s) \/ (k = Len(s) + 1 /\ k - 1 = Len(s) /\ t[k] = p)
    BY <1>3, <1>5
  <2>5. \A k \in 1 .. Len(t) : /\ last[k] = last[k - 1] + Len(t[k]) /\ last[k] <= Len(all)
                               /\ \A i \in 1 .. Len(t[k]) : all[last[k - 1] + i] = t[k][i]
    BY <2>2, <2>3, <2>4
  <2>6. QED  BY <2>1, <2>5 DEF Layout
<1>9. Remains(all, last[n] + used, a, w \o p)
  <2>1. last[n] = end[n] /\ end[n] \in Nat
    BY <1>4, <1>7
  <2> DEFINE pos == end[n] + used
  <2>2. /\ Len(bytes) = pos + Len(a) + Len(w) /\ pos \in Nat
        /\ \A i \in 1 .. Len(a) : a[i] = bytes[pos + i]
        /\ \A i \in 1 .. Len(w) : w[i] = bytes[pos + Len(a) + i]
    BY <1>1, <2>1 DEF Remains
  <2> HIDE DEF pos
  <2>3. /\ Len(w \o p) = Len(w) + Len(p)
        /\ \A i \in 1 .. Len(w) : (w \o p)[i] = w[i]
        /\ \A i \in 1 .. Len(p) : (w \o p)[Len(w) + i] = p[i]
    BY <1>2, ConcatBegins, SMTT(40) DEF Begins
  <2>4. Len(all) = pos + Len(a) + Len(w \o p)
    BY <1>2, <1>4, <1>6, <2>2, <2>3
  <2>5. ASSUME NEW i \in 1 .. Len(a) PROVE a[i] = all[pos + i]
    <3>1. pos + i \in 1 .. Len(bytes)
      BY <1>2, <1>4, <2>2
    <3>2. QED  BY <1>6, <2>2, <3>1
  <2>6. ASSUME NEW i \in 1 .. Len(w \o p) PROVE (w \o p)[i] = all[pos + Len(a) + i]
    <3>1. CASE i \in 1 .. Len(w)
      <4>1. pos + Len(a) + i \in 1 .. Len(bytes)
        BY <1>2, <1>4, <2>2, <3>1
      <4>2. QED  BY <1>6, <2>2, <2>3, <3>1, <4>1
    <3>2. CASE ~(i \in 1 .. Len(w))
      <4>1. i - Len(w) \in 1 .. Len(p) /\ Len(w) + (i - Len(w)) = i
            /\ pos + Len(a) + i = Len(bytes) + (i - Len(w))
        BY <1>2, <1>4, <2>2, <2>3, <3>2
      <4>2. QED  BY <1>6, <2>3, <4>1
    <3>3. QED  BY <3>1, <3>2
  <2>7. Remains(all, pos, a, w \o p)
    BY <2>4, <2>5, <2>6 DEF Remains
  <2>8. QED  BY <2>1, <2>7 DEF pos
<1>10. QED  BY <1>8, <1>9 DEF Flow, t

\* Bytes arrive.
LEMMA FlowArrives ==
    ASSUME NEW s \in Seq(Packets), NEW n \in 0 .. Len(s), NEW used \in Nat,
           NEW a \in Seq(Bytes), NEW w \in Seq(Bytes), NEW k \in 1 .. Len(w), Flow(s, n, used, a, w)
    PROVE  Flow(s, n, used, a \o SubSeq(w, 1, k), SubSeq(w, k + 1, Len(w)))
<1>1. PICK bytes, end : Layout(s, bytes, end) /\ Remains(bytes, end[n] + used, a, w)
  BY DEF Flow
<1>2. Len(a) \in Nat /\ Len(w) \in Nat /\ Len(s) \in Nat
  BY LenProperties
<1>3. end[n] \in Nat
  BY <1>1, <1>2 DEF Layout
<1> DEFINE pos == end[n] + used
           come == SubSeq(w, 1, k)
           left == SubSeq(w, k + 1, Len(w))
           have == a \o come
<1>4. /\ Len(bytes) = pos + Len(a) + Len(w) /\ pos \in Nat
      /\ \A i \in 1 .. Len(a) : a[i] = bytes[pos + i]
      /\ \A i \in 1 .. Len(w) : w[i] = bytes[pos + Len(a) + i]
  BY <1>1, <1>3, SMTT(40) DEF Remains
<1>5. come \in Seq(Bytes) /\ Len(come) = k /\ \A i \in 1 .. k : come[i] = w[i]
  BY <1>2, SubSeqCut
<1>6. Len(left) = Len(w) - k /\ \A i \in 1 .. Len(w) - k : left[i] = w[k + i]
  BY <1>2, SubSeqCut
<1> HIDE DEF pos, come, left
<1>7. /\ Len(have) = Len(a) + k
      /\ \A i \in 1 .. Len(a) : have[i] = a[i]
      /\ \A i \in 1 .. k : have[Len(a) + i] = come[i]
  <2>1. /\ Begins(a, have) /\ Len(have) = Len(a) + Len(come)
        /\ \A i \in 1 .. Len(come) : have[Len(a) + i] = come[i]
    BY <1>5, ConcatBegins, ZenonT(60)
  <2>2. QED  BY <1>5, <2>1 DEF Begins
<1> HIDE DEF have
<1>8. Len(bytes) = pos + Len(have) + Len(left)
  BY <1>2, <1>4, <1>6, <1>7
<1>9. ASSUME NEW i \in 1 .. Len(have) PROVE have[i] = bytes[pos + i]
  <2>1. CASE i \in 1 .. Len(a)
    BY <1>4, <1>7, <2>1
  <2>2. CASE ~(i \in 1 .. Len(a))
    <3>1. /\ i - Len(a) \in 1 .. k /\ i - Len(a) \in 1 .. Len(w) /\ Len(a) + (i - Len(a)) = i
          /\ pos + Len(a) + (i - Len(a)) = pos + i
      BY <1>2, <1>4, <1>7, <2>2
    <3>2. have[i] = come[i - Len(a)] /\ come[i - Len(a)] = w[i - Len(a)]
      BY <1>5, <1>7, <3>1
    <3>3. w[i - Len(a)] = bytes[pos + i]
      BY <1>4, <3>1
    <3>4. QED  BY <3>2, <3>3
  <2>3. QED  BY <2>1, <2>2
<1>10. ASSUME NEW i \in 1 .. Len(left) PROVE left[i] = bytes[pos + Len(have) + i]
  <2>1. /\ i \in 1 .. Len(w) - k /\ k + i \in 1 .. Len(w)
        /\ pos + Len(a) + (k + i) = pos + Len(have) + i
    BY <1>2, <1>4, <1>6, <1>7
  <2>2. QED  BY <1>4, <1>6, <2>1
<1>11. Remains(bytes, pos, have, left)
  BY <1>8, <1>9, <1>10 DEF Remains
<1>12. QED  BY <1>1, <1>11 DEF Flow, pos, have, come, left

\* Bytes that have arrived are read.
LEMMA FlowTakes ==
    ASSUME NEW s \in Seq(Packets), NEW n \in 0 .. Len(s), NEW used \in Nat,
           NEW a \in Seq(Bytes), NEW w \in Seq(Bytes), NEW k \in 1 .. Len(a), Flow(s, n, used, a, w)
    PROVE  Flow(s, n, used + k, SubSeq(a, k + 1, Len(a)), w)
<1>1. PICK bytes, end : Layout(s, bytes, end) /\ Remains(bytes, end[n] + used, a, w)
  BY DEF Flow
<1>2. Len(a) \in Nat /\ Len(w) \in Nat /\ Len(s) \in Nat
  BY LenProperties
<1>3. end[n] \in Nat
  BY <1>1, <1>2 DEF Layout
<1> DEFINE pos == end[n] + used
           left == SubSeq(a, k + 1, Len(a))
<1>4. /\ Len(bytes) = pos + Len(a) + Len(w) /\ pos \in Nat
      /\ \A i \in 1 .. Len(a) : a[i] = bytes[pos + i]
      /\ \A i \in 1 .. Len(w) : w[i] = bytes[pos + Len(a) + i]
  BY <1>1, <1>3, SMTT(40) DEF Remains
<1>5. Len(left) = Len(a) - k /\ \A i \in 1 .. Len(a) - k : left[i] = a[k + i]
  BY <1>2, SubSeqCut, SMTT(40)
<1>6. end[n] + (used + k) = pos + k
  BY <1>3
<1> HIDE DEF pos, left
<1>7. Len(bytes) = (pos + k) + Len(left) + Len(w)
  BY <1>2, <1>4, <1>5
<1>8. ASSUME NEW i \in 1 .. Len(left) PROVE left[i] = bytes[(pos + k) + i]
  <2>1. i \in 1 .. Len(a) - k /\ k + i \in 1 .. Len(a) /\ pos + (k + i) = (pos + k) + i
    BY <1>2, <1>4, <1>5, SMTT(40)
  <2>2. QED  BY <1>4, <1>5, <2>1
<1>9. ASSUME NEW i \in 1 .. Len(w) PROVE w[i] = bytes[(pos + k) + Len(left) + i]
  <2>1. (pos + k) + Len(left) + i = pos + Len(a) + i
    BY <1>2, <1>4, <1>5
  <2>2. QED  BY <1>4, <2>1
<1>10. Remains(bytes, pos + k, left, w)
  BY <1>7, <1>8, <1>9 DEF Remains
<1>11. QED  BY <1>1, <1>6, <1>10 DEF Flow, left

\* All of a packet is read.
LEMMA FlowGoesOn ==
    ASSUME NEW s \in Seq(Packets), NEW n \in 0 .. Len(s), n < Len(s), NEW a, NEW w,
           Flow(s, n, Len(s[n + 1]), a, w)
    PROVE  n + 1 \in 0 .. Len(s) /\ Flow(s, n + 1, 0, a, w)
<1>1. PICK bytes, end : Layout(s, bytes, end) /\ Remains(bytes, end[n] + Len(s[n + 1]), a, w)
  BY DEF Flow
<1>2. Len(s) \in Nat
  BY LenProperties
<1>3. n + 1 \in 1 .. Len(s) /\ n + 1 \in 0 .. Len(s) /\ (n + 1) - 1 = n
  BY <1>2
<1>4. end[n + 1] \in Nat /\ end[n + 1] = end[n] + Len(s[n + 1])
  BY <1>1, <1>3 DEF Layout
<1>5. end[n + 1] + 0 = end[n + 1]
  BY <1>4
<1>6. Remains(bytes, end[n + 1] + 0, a, w)
  BY <1>1, <1>4, <1>5
<1>7. QED  BY <1>1, <1>3, <1>6 DEF Flow

\* What arrives in a packet is its next bytes, and those that have not arrived
\* are under way.
LEMMA FlowTells ==
    ASSUME NEW s \in Seq(Packets), NEW n \in 0 .. Len(s), n < Len(s), NEW used \in Nat,
           NEW a \in Seq(Bytes), NEW w \in Seq(Bytes), Flow(s, n, used, a, w)
    PROVE  /\ \A i \in 1 .. Len(a) : used + i <= Len(s[n + 1]) => a[i] = s[n + 1][used + i]
           /\ used + Len(a) + Len(w) >= Len(s[n + 1])
<1>1. PICK bytes, end : Layout(s, bytes, end) /\ Remains(bytes, end[n] + used, a, w)
  BY DEF Flow
<1>2. Len(a) \in Nat /\ Len(w) \in Nat /\ Len(s) \in Nat
  BY LenProperties
<1> DEFINE p == s[n + 1]
<1>3. n + 1 \in 1 .. Len(s) /\ n + 1 \in 0 .. Len(s) /\ (n + 1) - 1 = n
  BY <1>2
<1>4. Len(p) \in Nat /\ end[n] \in Nat
  BY <1>1, <1>2, <1>3, PacketBytes DEF Layout
<1>5. /\ end[n + 1] = end[n] + Len(p) /\ end[n + 1] <= Len(bytes)
      /\ \A i \in 1 .. Len(p) : bytes[end[n] + i] = p[i]
  BY <1>1, <1>3 DEF Layout
<1>6. /\ Len(bytes) = end[n] + used + Len(a) + Len(w)
      /\ \A i \in 1 .. Len(a) : a[i] = bytes[end[n] + used + i]
  BY <1>1 DEF Remains
<1> HIDE DEF p
<1>7. used + Len(a) + Len(w) >= Len(p)
  BY <1>2, <1>4, <1>5, <1>6, SMTT(40)
<1>8. ASSUME NEW i \in 1 .. Len(a), used + i <= Len(p) PROVE a[i] = p[used + i]
  <2>1. used + i \in 1 .. Len(p) /\ end[n] + (used + i) = end[n] + used + i
    BY <1>2, <1>4, <1>8
  <2>2. bytes[end[n] + (used + i)] = p[used + i]
    BY <1>5, <2>1
  <2>3. QED  BY <1>6, <2>1, <2>2
<1>9. QED  BY <1>7, <1>8 DEF p

\* Bytes arrive between packets only of a packet that was sent.
LEMMA FlowEnds ==
    ASSUME NEW s \in Seq(Packets), NEW n \in 0 .. Len(s),
           NEW a \in Seq(Bytes), NEW w \in Seq(Bytes), Flow(s, n, 0, a, w), a # << >>
    PROVE  n < Len(s)
<1>1. PICK bytes, end : Layout(s, bytes, end) /\ Remains(bytes, end[n] + 0, a, w)
  BY DEF Flow
<1>2. Len(a) \in Nat \ {0} /\ Len(w) \in Nat /\ Len(s) \in Nat
  BY LenProperties, EmptySeq
<1>3. end[n] \in Nat /\ end[Len(s)] = Len(bytes) /\ Len(bytes) = end[n] + 0 + Len(a) + Len(w)
  BY <1>1, <1>2 DEF Layout, Remains
<1>4. end[n] # Len(bytes)
  BY <1>2, <1>3
<1>5. n # Len(s)
  BY <1>3, <1>4
<1>6. QED  BY <1>2, <1>5

-----------------------------------------------------------------------------
(***************************************************************************)
(* What the beginning of a packet tells.                                   *)
(***************************************************************************)
LEMMA PacketHeader ==
    ASSUME NEW p \in Packets
    PROVE  /\ p \in Seq(Bytes) /\ Len(p) \in Nat /\ Len(p) >= 2
           /\ FixedLength(p) \in 2 .. 5 /\ FixedLength(p) <= Len(p) /\ ~Continued(p[FixedLength(p)])
           /\ TotalLength(p) = Len(p) /\ ValidHeader(p)
           /\ \E k \in 2 .. 5 : k <= Len(p) /\ ~Continued(p[k])
<1>1. /\ p \in Seq(Bytes) /\ ValidHeader(p) /\ Len(p) = TotalLength(p)
      /\ \E k \in 2 .. 5 : k <= Len(p) /\ ~Continued(p[k])
  BY PacketsAssumption
<1>2. Len(p) \in Nat /\ Len(p) >= 2
  BY <1>1, LenProperties
<1>3. Begins(p, p)
  BY <1>2 DEF Begins
<1>4. QED  BY <1>1, <1>2, <1>3, HeaderOfPrefix

LEMMA PrefixHeader ==
    ASSUME NEW p \in Packets, NEW b \in Seq(Bytes), Begins(b, p), Len(b) >= FixedLength(p)
    PROVE  /\ Len(b) \in Nat /\ Len(b) <= Len(p) /\ Len(b) >= 2
           /\ FixedLength(b) = FixedLength(p) /\ TotalLength(b) = Len(p)
           /\ Type(b) = Type(p) /\ Qos(b) = Qos(p)
           /\ (Oversized(b) <=> Oversized(p)) /\ Target(b) = Target(p)
           /\ Len(b) >= FixedLength(p) + 2 =>
                /\ TopicEnd(b) = TopicEnd(p) /\ DataStart(b) = DataStart(p)
                /\ HeaderEstimate(b) = HeaderEstimate(p)
<1>1. /\ p \in Seq(Bytes) /\ Len(p) \in Nat /\ Len(p) >= 2 /\ FixedLength(p) \in 2 .. 5
      /\ TotalLength(p) = Len(p) /\ \E k \in 2 .. 5 : k <= Len(p) /\ ~Continued(p[k])
  BY PacketHeader
<1>2. Len(b) \in Nat /\ Len(b) <= Len(p) /\ Len(b) >= 2
  BY <1>1, LenProperties DEF Begins
<1>3. /\ FixedLength(b) = FixedLength(p) /\ TotalLength(b) = TotalLength(p)
      /\ Type(b) = Type(p) /\ Qos(b) = Qos(p)
  BY <1>1, <1>2, HeaderOfPrefix
<1>4. (Oversized(b) <=> Oversized(p)) /\ Target(b) = Target(p)
  BY <1>3 DEF Oversized, Target
<1>5. ASSUME Len(b) >= FixedLength(p) + 2
      PROVE  /\ TopicEnd(b) = TopicEnd(p) /\ DataStart(b) = DataStart(p)
             /\ HeaderEstimate(b) = HeaderEstimate(p)
  <2>1. FixedLength(p) + 1 \in 1 .. Len(b) /\ FixedLength(p) + 2 \in 1 .. Len(b)
    BY <1>1, <1>2, <1>5
  <2>2. b[FixedLength(p) + 1] = p[FixedLength(p) + 1] /\ b[FixedLength(p) + 2] = p[FixedLength(p) + 2]
    BY <2>1 DEF Begins
  <2>3. TopicLength(b) = TopicLength(p)
    BY <1>3, <2>2 DEF TopicLength
  <2>4. QED  BY <1>3, <2>3 DEF TopicEnd, DataStart, HeaderEstimate
<1>6. QED  BY <1>1, <1>2, <1>3, <1>4, <1>5

\* Where the worker stands in the packet p of which it has read b.
Located(s, b, p) ==
    /\ Begins(b, p)
    /\ s = "idle" => Len(b) < Len(p)
    /\ s = "length" => Len(b) < FixedLength(p)
    /\ s \in {"topic", "rest", "done", "payload", "answer"} => Len(b) >= FixedLength(p)
    /\ s = "topic" => Oversized(p)
    /\ s \in {"rest", "done", "payload", "answer"} =>
         ~TooBig(p) /\ (Oversized(p) => Len(b) >= FixedLength(p) + 2)
    /\ s \in {"done", "payload", "answer"} => Len(b) = Target(p)

\* The limits of what is read before a packet is processed
LEMMA PacketTarget ==
    ASSUME NEW p \in Packets
    PROVE  /\ BufferLength \in Nat /\ BufferLength >= 9
           /\ Target(p) \in Nat /\ Target(p) <= Len(p) /\ Target(p) <= BufferLength
           /\ Oversized(p) <=> BufferLength < Len(p)
           /\ Oversized(p) => Target(p) = BufferLength
           /\ ~Oversized(p) => Target(p) = Len(p)
<1>1. p \in Seq(Bytes) /\ Len(p) \in Nat /\ Len(p) >= 2 /\ TotalLength(p) = Len(p)
  BY PacketHeader
<1>2. Target(p) \in Nat /\ Target(p) <= BufferLength /\ Target(p) <= TotalLength(p)
  BY <1>1, TargetType
<1>3. QED  BY <1>1, <1>2, BufferAssumption DEF Target, Oversized

\* A packet goes on behind its fixed header.
LEMMA AfterHeaderLocated ==
    ASSUME NEW p \in Packets, NEW b \in Seq(Bytes), Begins(b, p), Len(b) >= FixedLength(p),
           Len(b) <= BufferLength
    PROVE  /\ AfterHeader(b) = "error" => TooBig(p)
           /\ Located(AfterHeader(b), b, p)
<1>1. /\ Len(b) \in Nat /\ Len(b) <= Len(p) /\ Len(b) >= 2 /\ Len(p) \in Nat
      /\ FixedLength(p) \in 2 .. 5
  BY PacketHeader, PrefixHeader
<1>2. /\ FixedLength(b) = FixedLength(p) /\ Type(b) = Type(p)
      /\ (Oversized(b) <=> Oversized(p)) /\ Target(b) = Target(p)
      /\ Len(b) >= FixedLength(p) + 2 => HeaderEstimate(b) = HeaderEstimate(p)
  BY PrefixHeader
<1>3. /\ BufferLength \in Nat /\ Target(p) \in Nat
      /\ Oversized(p) => Target(p) = BufferLength
      /\ ~Oversized(p) => Target(p) = Len(p)
  BY PacketTarget
<1>4. Len(b) <= Target(p)
  BY <1>1, <1>3
<1>5. CASE Oversized(p) /\ Type(p) = PUBLISH /\ Len(b) < FixedLength(p) + 2
  <2>1. AfterHeader(b) = "topic"
    BY <1>2, <1>5 DEF AfterHeader
  <2>2. QED  BY <1>5, <2>1 DEF Located
<1>6. CASE ~(Oversized(p) /\ Type(p) = PUBLISH /\ Len(b) < FixedLength(p) + 2)
  <2>1. TooBig(b) <=> TooBig(p)
    <3>1. CASE Len(b) < FixedLength(p) + 2
      BY <1>2, <1>6, <3>1 DEF TooBig
    <3>2. CASE ~(Len(b) < FixedLength(p) + 2)
      <4>1. HeaderEstimate(b) = HeaderEstimate(p)
        BY <1>1, <1>2, <3>2
      <4>2. QED  BY <1>2, <4>1 DEF TooBig
    <3>3. QED  BY <3>1, <3>2
  <2>2. AfterHeader(b) \in {"error", "rest", "done"}
    BY <1>2, <1>6, AfterHeaderProperty
  <2>3. CASE AfterHeader(b) = "error"
    BY <2>1, <2>3, AfterHeaderProperty DEF Located
  <2>4. CASE AfterHeader(b) \in {"rest", "done"}
    <3>1. ~TooBig(p)
      BY <2>1, <2>4, AfterHeaderProperty
    <3>2. Oversized(p) => Len(b) >= FixedLength(p) + 2
      BY <1>1, <1>6, <3>1 DEF TooBig
    <3>3. AfterHeader(b) = "done" => Len(b) = Target(p)
      BY <1>1, <1>2, <1>3, <1>4, AfterHeaderProperty
    <3>4. QED  BY <2>4, <3>1, <3>2, <3>3 DEF Located
  <2>5. QED  BY <2>2, <2>3, <2>4
<1>7. QED  BY <1>5, <1>6

\* A new call, or the next length byte, goes on where the packet goes on.
LEMMA ResumedLocated ==
    ASSUME NEW p \in Packets, NEW b \in Seq(Bytes), Begins(b, p), Len(b) >= 1,
           Len(b) <= BufferLength, Readable(p), Len(b) < Len(p) \/ Len(b) <= FixedLength(p)
    PROVE  /\ Resumed(b) # "first" /\ Resumed(b) = "error" => TooBig(p)
           /\ Located(Resumed(b), b, p)
<1>1. /\ p \in Seq(Bytes) /\ Len(p) \in Nat /\ FixedLength(p) \in 2 .. 5 /\ FixedLength(p) <= Len(p)
      /\ ~Continued(p[FixedLength(p)])
      /\ \E k \in 2 .. 5 : k <= Len(p) /\ ~Continued(p[k])
  BY PacketHeader
<1>2. Len(b) \in Nat
  BY LenProperties
<1>3. CASE Len(b) < FixedLength(p)
  <2>1. Len(b) \in 2 .. FixedLength(p) - 1 => Continued(b[Len(b)])
    BY <1>1, HeaderOfPrefix
  <2>2. Len(b) = 1 \/ (Len(b) < 6 /\ Continued(b[Len(b)]))
    <3>1. CASE Len(b) = 1
      BY <3>1
    <3>2. CASE Len(b) # 1
      <4>1. Len(b) >= 2 /\ Len(b) < 6 /\ Len(b) \in 2 .. FixedLength(p) - 1
        <5>1. \A m, n \in Nat : m >= 1 /\ m # 1 /\ m < n /\ n <= 5 => m >= 2 /\ m < 6 /\ m \in 2 .. n - 1
          OBVIOUS
        <5>2. FixedLength(p) \in Nat /\ FixedLength(p) <= 5
          BY <1>1
        <5>3. QED  BY <1>2, <1>3, <3>2, <5>1, <5>2, Zenon
      <4>2. QED  BY <2>1, <4>1
    <3>3. QED  BY <3>1, <3>2
  <2>3. Len(b) # 0
    BY <1>2
  <2>4. Resumed(b) = "length"
    BY <2>2, <2>3, Zenon DEF Resumed
  <2>5. QED  BY <1>3, <2>4 DEF Located
<1>4. CASE ~(Len(b) < FixedLength(p))
  <2>1. Len(b) >= FixedLength(p) /\ Len(b) >= 2
    BY <1>1, <1>2, <1>4
  <2>2. Len(b) < 6 => ~Continued(b[Len(b)])
    <3>1. Len(b) \in 1 .. Len(b) /\ b[Len(b)] = p[Len(b)]
      BY <1>2 DEF Begins
    <3>2. CASE Len(b) = FixedLength(p)
      BY <1>1, <3>1, <3>2
    <3>3. CASE Len(b) > FixedLength(p)
      <4>1. Len(b) < 6 => Len(b) \in FixedLength(p) + 1 .. 5 /\ Len(b) < Len(p)
        BY <1>1, <1>2, <3>3
      <4>2. QED  BY <3>1, <4>1 DEF Readable
    <3>4. QED  BY <1>1, <1>2, <2>1, <3>2, <3>3
  <2>3. Len(b) # 0 /\ Len(b) # 1
    <3>1. \A n \in Nat : n >= 2 => n # 0 /\ n # 1
      OBVIOUS
    <3>2. QED  BY <1>2, <2>1, <3>1, Zenon
  <2>4. Resumed(b) = AfterHeader(b)
    BY <2>2, <2>3, Zenon DEF Resumed
  <2>5. AfterHeader(b) # "first"
    BY AfterHeaderProperty
  <2>6. QED  BY <2>1, <2>4, <2>5, AfterHeaderLocated
<1>5. QED  BY <1>3, <1>4

-----------------------------------------------------------------------------
(***************************************************************************)
(* The packets come out as they were sent.                                 *)
(***************************************************************************)

\* How much of the current packet has been read, and the packet
Used == IF stage \in {"payload", "answer"} THEN read ELSE Len(buffer)
Cur  == sent[Len(frames) + 1]

\* What came out is what was sent.
Kept == Len(frames) <= Len(sent) /\ \A k \in 1 .. Len(frames) : frames[k] = Meant(sent[k])

\* deliver_publish has handed out the topic and the payload as far as it was read.
Handed ==
    /\ Type(Cur) = PUBLISH /\ topic = Topic(Cur)
    /\ DataStart(Cur) \in Nat \ {0} /\ data = SubSeq(Cur, DataStart(Cur), read)
    /\ read <= Len(Cur)
    /\ stage = "payload" => DataStart(Cur) <= read + 1
    /\ stage = "answer" => read = Len(Cur)

InStep ==
    /\ Flow(sent, Len(frames), Used, arrived, wire)
    /\ Len(buffer) >= 1 => Len(frames) < Len(sent) /\ Located(stage, buffer, Cur)
    /\ stage \in {"payload", "answer"} => Handed

Tracked == ~stalled => Kept /\ (~closed => InStep)

LEMMA TrackedTypes ==
    ASSUME ReceiveInv, Kept
    PROVE  /\ Len(frames) \in 0 .. Len(sent) /\ Len(frames) \in Nat /\ Len(sent) \in Nat
           /\ sent \in Seq(Packets) /\ frames \in Seq(FrameRecords)
           /\ buffer \in Seq(Bytes) /\ Len(buffer) \in Nat /\ Len(buffer) <= BufferLength
           /\ arrived \in Seq(Bytes) /\ wire \in Seq(Bytes)
           /\ Used \in Nat
           /\ Len(frames) < Len(sent) => /\ Cur \in Packets /\ Cur \in Seq(Bytes) /\ Len(Cur) \in Nat
                                         /\ FixedLength(Cur) \in 2 .. 5
<1>1. /\ sent \in Seq(Packets) /\ frames \in Seq(FrameRecords) /\ buffer \in Seq(Bytes)
      /\ Len(buffer) <= BufferLength /\ arrived \in Seq(Bytes) /\ wire \in Seq(Bytes) /\ read \in Nat
  BY DEF ReceiveInv, TypeOK
<1>2. Len(sent) \in Nat /\ Len(frames) \in Nat /\ Len(buffer) \in Nat
  BY <1>1, LenProperties
<1>3. Len(frames) \in 0 .. Len(sent)
  BY <1>2 DEF Kept
<1>4. Used \in Nat
  BY <1>1, <1>2 DEF Used
<1>5. ASSUME Len(frames) < Len(sent)
      PROVE  Cur \in Packets /\ Cur \in Seq(Bytes) /\ Len(Cur) \in Nat /\ FixedLength(Cur) \in 2 .. 5
  <2>1. Len(frames) + 1 \in 1 .. Len(sent)
    BY <1>2, <1>5
  <2>2. Cur \in Packets
    BY <1>1, <2>1, ElementOfSeq DEF Cur
  <2>3. QED  BY <2>2, PacketHeader
<1>6. QED  BY <1>1, <1>2, <1>3, <1>4, <1>5

LEMMA InitTracked ==
    Init => Tracked
<1> SUFFICES ASSUME Init PROVE Tracked
  OBVIOUS
<1>1. /\ wire = << >> /\ arrived = << >> /\ buffer = << >> /\ sent = << >> /\ frames = << >>
      /\ stage = "idle"
  BY DEF Init
<1>2. Len(<< >>) = 0
  OBVIOUS
<1>3. Kept
  BY <1>1, <1>2 DEF Kept
<1>4. Used = 0
  BY <1>1, <1>2 DEF Used
<1>5. Flow(sent, Len(frames), Used, arrived, wire)
  BY <1>1, <1>2, <1>4, FlowStarts
<1>6. InStep
  BY <1>1, <1>2, <1>5 DEF InStep
<1>7. QED  BY <1>3, <1>6 DEF Tracked

LEMMA SendTracked ==
    ASSUME ReceiveInv, Tracked, Send
    PROVE  Tracked'
<1>1. PICK p \in Packets : sent' = Append(sent, p) /\ wire' = wire \o p
  BY DEF Send
<1>2. UNCHANGED <<arrived, buffer, before, stage, topic, data, read, closed, frames, answers, stalled>>
  BY DEF Send, piece
<1> SUFFICES ASSUME ~stalled PROVE Kept' /\ (~closed => InStep')
  BY <1>2 DEF Tracked
<1>3. Kept
  BY DEF Tracked
<1>4. /\ Len(frames) \in 0 .. Len(sent) /\ Len(frames) \in Nat /\ Len(sent) \in Nat
      /\ sent \in Seq(Packets) /\ arrived \in Seq(Bytes) /\ wire \in Seq(Bytes) /\ Used \in Nat
  BY <1>3, TrackedTypes
<1>5. Len(sent') = Len(sent) + 1 /\ \A k \in 1 .. Len(sent) : sent'[k] = sent[k]
  BY <1>1, <1>4, AppendProperties
<1>6. Kept'
  <2>1. Len(frames') <= Len(sent')
    BY <1>2, <1>4, <1>5
  <2>2. \A k \in 1 .. Len(frames) : k \in 1 .. Len(sent)
    BY <1>4
  <2>3. \A k \in 1 .. Len(frames') : frames'[k] = Meant(sent'[k])
    BY <1>2, <1>3, <1>5, <2>2 DEF Kept
  <2>4. QED  BY <2>1, <2>3 DEF Kept
<1>7. ASSUME ~closed PROVE InStep'
  <2>1. InStep
    BY <1>7 DEF Tracked
  <2>2. Used' = Used
    BY <1>2 DEF Used
  <2>3. Flow(sent, Len(frames), Used, arrived, wire)
    BY <2>1 DEF InStep
  <2>4. Flow(sent', Len(frames), Used, arrived, wire')
    BY <1>1, <1>4, <2>3, FlowSends
  <2>5. Flow(sent', Len(frames'), Used', arrived', wire')
    BY <1>2, <2>2, <2>4
  <2>6. Len(frames) < Len(sent) => Cur' = Cur
    <3>1. Len(frames) < Len(sent) => Len(frames) + 1 \in 1 .. Len(sent)
      BY <1>4
    <3>2. QED  BY <1>2, <1>5, <3>1 DEF Cur
  <2>7. Len(frames) < Len(sent) => Len(frames') < Len(sent')
    BY <1>2, <1>4, <1>5
  <2>8. Len(buffer') >= 1 => Len(frames') < Len(sent') /\ Located(stage', buffer', Cur')
    BY <1>2, <2>1, <2>6, <2>7 DEF InStep
  <2>9. stage' \in {"payload", "answer"} => Handed'
    <3>1. stage' \in {"payload", "answer"} => Len(buffer) >= 1
      BY <1>2 DEF ReceiveInv, Landing
    <3>2. stage' \in {"payload", "answer"} => Cur' = Cur /\ Handed
      BY <1>2, <2>1, <2>6, <3>1 DEF InStep
    <3>3. QED  BY <1>2, <3>2 DEF Handed
  <2>10. QED  BY <2>5, <2>8, <2>9 DEF InStep
<1>8. QED  BY <1>6, <1>7

\* The packet and what came out stay as they are when neither is touched.
LEMMA SameFrames ==
    ASSUME UNCHANGED <<sent, frames>>
    PROVE  Cur' = Cur /\ (Kept' <=> Kept)
BY DEF Cur, Kept

LEMMA ArriveTracked ==
    ASSUME ReceiveInv, Tracked, Arrive
    PROVE  Tracked'
<1>1. PICK k \in DOMAIN wire : /\ arrived' = arrived \o SubSeq(wire, 1, k)
                               /\ wire' = SubSeq(wire, k + 1, Len(wire))
  BY DEF Arrive
<1>2. UNCHANGED <<buffer, before, stage, topic, data, read, closed, sent, frames, answers, stalled>>
  BY DEF Arrive, piece
<1>3. Cur' = Cur /\ (Kept' <=> Kept)
  BY <1>2, SameFrames
<1> SUFFICES ASSUME ~stalled, ~closed, Kept, InStep PROVE InStep'
  BY <1>2, <1>3 DEF Tracked
<1>4. /\ Len(frames) \in 0 .. Len(sent) /\ sent \in Seq(Packets) /\ arrived \in Seq(Bytes)
      /\ wire \in Seq(Bytes) /\ Used \in Nat
  BY TrackedTypes
<1>5. k \in 1 .. Len(wire)
  BY <1>4, LenProperties
<1>6. Flow(sent, Len(frames), Used, arrived', wire')
  <2>1. Flow(sent, Len(frames), Used, arrived, wire)
    BY DEF InStep
  <2>2. QED  BY <1>1, <1>4, <1>5, <2>1, FlowArrives
<1>7. Used' = Used
  BY <1>2 DEF Used
<1>8. Handed => Handed'
  BY <1>2, <1>3 DEF Handed
<1>9. QED  BY <1>2, <1>3, <1>6, <1>7, <1>8 DEF InStep

LEMMA TurnTracked ==
    ASSUME ReceiveInv, Tracked, \A p \in Packets : Readable(p), Turn
    PROVE  Tracked'
<1>1. /\ stage = "idle" /\ ~closed /\ Enter(Resumed(buffer))
      /\ UNCHANGED <<wire, arrived, buffer, topic, data, read, sent, frames, answers, stalled>>
  BY DEF Turn, stream, piece
<1>2. Cur' = Cur /\ (Kept' <=> Kept)
  BY <1>1, SameFrames
<1> SUFFICES ASSUME ~stalled, ~closed', Kept, InStep PROVE InStep'
  BY <1>1, <1>2 DEF Tracked
<1>3. /\ buffer \in Seq(Bytes) /\ Len(buffer) \in Nat /\ Len(buffer) <= BufferLength
      /\ Len(frames) < Len(sent) => Cur \in Packets
  BY TrackedTypes
<1>4. stage' = Resumed(buffer)
  <2>1. Landing(Resumed(buffer), buffer')
    BY <1>1, <1>3, ResumedLanding
  <2>2. QED  BY <1>1, <2>1, EnterLanding
<1>5. stage' \notin {"payload", "answer"}
  BY <1>4, AfterHeaderProperty DEF Resumed
<1>6. Used' = Used
  BY <1>1, <1>5 DEF Used
<1>7. ASSUME Len(buffer) >= 1 PROVE Len(frames) < Len(sent) /\ Located(stage', buffer, Cur)
  <2>1. Len(frames) < Len(sent) /\ Begins(buffer, Cur) /\ Len(buffer) < Len(Cur)
    BY <1>1, <1>7 DEF InStep, Located
  <2>2. Cur \in Packets
    BY <1>3, <2>1
  <2>3. QED  BY <1>3, <1>4, <1>7, <2>1, <2>2, ResumedLocated
<1>8. QED  BY <1>1, <1>2, <1>5, <1>6, <1>7 DEF InStep

\* What is read goes on with the packet, or starts the next one.
LEMMA ReadBegins ==
    ASSUME ReceiveInv, Kept, InStep, Read
    PROVE  /\ Len(frames) < Len(sent) /\ Begins(buffer', Cur)
           /\ Flow(sent, Len(frames), Len(buffer'), arrived', wire')
<1>1. /\ stage \in {"first", "length", "topic", "rest"} /\ arrived # << >>
      /\ buffer' = buffer \o SubSeq(arrived, 1, Taken)
      /\ arrived' = SubSeq(arrived, Taken + 1, Len(arrived)) /\ wire' = wire
  BY DEF Read, Taken
<1>2. /\ Len(frames) \in 0 .. Len(sent) /\ sent \in Seq(Packets)
      /\ buffer \in Seq(Bytes) /\ Len(buffer) \in Nat /\ Len(buffer) <= BufferLength
      /\ arrived \in Seq(Bytes) /\ wire \in Seq(Bytes)
      /\ Len(frames) < Len(sent) => Cur \in Packets
  BY TrackedTypes
<1>3. /\ Wanted \in Nat /\ Taken \in Nat /\ Taken >= 1 /\ Taken <= Wanted /\ Taken <= Len(arrived)
      /\ Len(buffer') = Len(buffer) + Taken /\ Len(buffer') <= BufferLength
  BY <1>1, ReadTakes
<1>4. Flow(sent, Len(frames), Len(buffer), arrived, wire)
  <2>1. Used = Len(buffer)
    BY <1>1 DEF Used
  <2>2. QED  BY <2>1 DEF InStep
<1>5. Len(frames) < Len(sent)
  <2>1. CASE stage = "first"
    <3>1. Len(buffer) = 0
      BY <2>1 DEF ReceiveInv, Landing
    <3>2. QED  BY <1>1, <1>2, <1>4, <3>1, FlowEnds
  <2>2. CASE stage # "first"
    BY <1>1, <2>2 DEF InStep, ReceiveInv, Landing
  <2>3. QED  BY <2>1, <2>2
<1>6. Cur \in Packets /\ Len(Cur) \in Nat /\ Len(Cur) >= 2 /\ FixedLength(Cur) \in 2 .. 5 /\ FixedLength(Cur) <= Len(Cur)
  BY <1>2, <1>5, PacketHeader
<1>7. Len(buffer) + Taken <= Len(Cur) /\ Begins(buffer, Cur)
  <2>1. CASE stage = "first"
    <3>1. Len(buffer) = 0 /\ Wanted = 1
      BY <2>1 DEF ReceiveInv, Landing, Wanted
    <3>2. QED  BY <1>3, <1>6, <3>1 DEF Begins
  <2>2. CASE stage # "first"
    <3>1. Located(stage, buffer, Cur) /\ Len(buffer) >= 1
      BY <1>1, <2>2 DEF InStep, ReceiveInv, Landing
    <3>2. CASE stage = "length"
      <4>1. Wanted = 1 /\ Len(buffer) < FixedLength(Cur)
        BY <3>1, <3>2 DEF Wanted, Located
      <4>2. QED  BY <1>2, <1>3, <1>6, <3>1, <4>1 DEF Located
    <3>3. CASE stage = "topic"
      <4>1. BufferLength < Len(Cur) /\ BufferLength \in Nat
        BY <1>6, <3>1, <3>3, PacketTarget DEF Located
      <4>2. QED  BY <1>2, <1>3, <1>6, <3>1, <4>1 DEF Located
    <3>4. CASE stage = "rest"
      <4>1. Wanted = Target(buffer) - Len(buffer) /\ Len(buffer) >= FixedLength(Cur) /\ Begins(buffer, Cur)
        BY <3>1, <3>4 DEF Wanted, Located
      <4>2. Target(buffer) = Target(Cur) /\ Target(Cur) \in Nat /\ Target(Cur) <= Len(Cur)
        BY <1>2, <1>6, <4>1, PrefixHeader, PacketTarget
      <4>3. QED  BY <1>2, <1>3, <1>6, <4>1, <4>2
    <3>5. QED  BY <1>1, <2>2, <3>2, <3>3, <3>4
  <2>3. QED  BY <2>1, <2>2
<1>8. \A i \in 1 .. Len(arrived) : Len(buffer) + i <= Len(Cur) => arrived[i] = Cur[Len(buffer) + i]
  BY <1>2, <1>4, <1>5, FlowTells DEF Cur
<1>9. Begins(buffer', Cur)
  <2> DEFINE come == SubSeq(arrived, 1, Taken)
  <2>1. come \in Seq(Bytes) /\ Len(come) = Taken /\ \A i \in 1 .. Taken : come[i] = arrived[i]
    BY <1>2, <1>3, SubSeqCut
  <2>2. /\ Begins(buffer, buffer')
        /\ \A i \in 1 .. Len(come) : buffer'[Len(buffer) + i] = come[i]
    BY <1>1, <1>2, <2>1, ConcatBegins, ZenonT(60)
  <2> HIDE DEF come
  <2>3. ASSUME NEW i \in 1 .. Len(buffer') PROVE buffer'[i] = Cur[i]
    <3>1. CASE i \in 1 .. Len(buffer)
      BY <1>7, <2>2, <3>1 DEF Begins
    <3>2. CASE ~(i \in 1 .. Len(buffer))
      <4>1. /\ i - Len(buffer) \in 1 .. Taken /\ i - Len(buffer) \in 1 .. Len(arrived)
            /\ Len(buffer) + (i - Len(buffer)) = i /\ i <= Len(Cur)
        BY <1>2, <1>3, <1>6, <1>7, <3>2
      <4>2. buffer'[i] = arrived[i - Len(buffer)]
        BY <2>1, <2>2, <4>1
      <4>3. QED  BY <1>8, <4>1, <4>2
    <3>3. QED  BY <3>1, <3>2
  <2>4. QED  BY <1>3, <1>7, <2>3 DEF Begins
<1>10. Flow(sent, Len(frames), Len(buffer'), arrived', wire')
  <2>1. Taken \in 1 .. Len(arrived)
    BY <1>2, <1>3
  <2>2. Flow(sent, Len(frames), Len(buffer) + Taken, arrived', wire)
    BY <1>1, <1>2, <1>4, <2>1, FlowTakes
  <2>3. QED  BY <1>1, <1>3, <2>2
<1>11. QED  BY <1>5, <1>9, <1>10

\* The read of each stage leads to the next stage of the packet; it is refused only
\* if it is too big.
LEMMA ReadEnters ==
    ASSUME ReceiveInv, Kept, InStep, \A p \in Packets : Readable(p), Read
    PROVE  /\ Entered(buffer') = "error" => TooBig(Cur)
           /\ Located(Entered(buffer'), buffer', Cur)
           /\ Entered(buffer') \notin {"payload", "answer"}
<1>1. stage \in {"first", "length", "topic", "rest"} /\ arrived # << >>
  BY DEF Read
<1>2. Len(frames) < Len(sent) /\ Begins(buffer', Cur)
  BY ReadBegins
<1>3. /\ buffer \in Seq(Bytes) /\ Len(buffer) \in Nat /\ Cur \in Packets
  BY <1>2, TrackedTypes
<1>4. /\ Wanted \in Nat /\ Taken \in Nat /\ Taken >= 1 /\ Taken <= Wanted
      /\ buffer' \in Seq(Bytes) /\ Len(buffer') \in Nat
      /\ Len(buffer') = Len(buffer) + Taken /\ Len(buffer') <= BufferLength
  BY <1>1, ReadTakes, ReadLanding, LenProperties
<1>5. /\ Cur \in Seq(Bytes) /\ Len(Cur) \in Nat /\ Len(Cur) >= 2
      /\ FixedLength(Cur) \in 2 .. 5 /\ FixedLength(Cur) <= Len(Cur) /\ ValidHeader(Cur)
      /\ \E k \in 2 .. 5 : k <= Len(Cur) /\ ~Continued(Cur[k])
  BY <1>3, PacketHeader
<1>6. Len(buffer') >= 1
  BY <1>3, <1>4
<1>7. CASE stage = "first"
  <2>1. Len(buffer) = 0 /\ Wanted = 1
    BY <1>7 DEF ReceiveInv, Landing, Wanted
  <2>2. Len(buffer') < FixedLength(Cur)
    BY <1>4, <1>5, <2>1
  <2>3. ValidHeader(buffer')
    BY <1>2, <1>4, <1>5, <1>6, HeaderOfPrefix
  <2>4. Entered(buffer') = "length"
    BY <1>7, <2>3, EnteredCases
  <2>5. QED  BY <1>2, <2>2, <2>4 DEF Located
<1>8. CASE stage = "length"
  <2>1. Located(stage, buffer, Cur) /\ Wanted = 1
    BY <1>8 DEF InStep, ReceiveInv, Landing, Wanted
  <2>2. Len(buffer') <= FixedLength(Cur)
    BY <1>3, <1>4, <1>5, <1>8, <2>1 DEF Located
  <2>3. Entered(buffer') = Resumed(buffer')
    BY <1>8, EnteredCases
  <2>4. Resumed(buffer') \notin {"payload", "answer"}
    BY AfterHeaderProperty DEF Resumed
  <2>5. QED  BY <1>2, <1>3, <1>4, <1>6, <2>2, <2>3, <2>4, ResumedLocated
<1>9. CASE stage \in {"topic", "rest"}
  <2>1. Located(stage, buffer, Cur) /\ Len(buffer) >= FixedLength(Cur)
    BY <1>9 DEF InStep, ReceiveInv, Landing, Located
  <2>2. Len(buffer') >= FixedLength(Cur)
    BY <1>3, <1>4, <1>5, <2>1
  <2>3. FixedLength(buffer') = FixedLength(Cur) /\ Target(buffer') = Target(Cur) /\ Len(buffer') <= Len(Cur)
    BY <1>2, <1>3, <1>4, <2>2, PrefixHeader
  <2>4. /\ BufferLength \in Nat /\ Target(Cur) \in Nat /\ Target(Cur) <= Len(Cur)
        /\ Oversized(Cur) <=> BufferLength < Len(Cur)
        /\ Oversized(Cur) => Target(Cur) = BufferLength
        /\ ~Oversized(Cur) => Target(Cur) = Len(Cur)
    BY <1>3, PacketTarget
  <2>5. Len(buffer') <= Target(Cur)
    BY <1>4, <2>3, <2>4
  <2>6. CASE stage = "topic" /\ Len(buffer') < FixedLength(buffer') + 2
    <3>1. Entered(buffer') = "idle"
      BY <2>6, EnteredCases
    <3>2. Len(buffer') < Len(Cur)
      BY <1>4, <1>5, <2>1, <2>4, <2>6 DEF Located
    <3>3. QED  BY <1>2, <3>1, <3>2 DEF Located
  <2>7. CASE stage = "topic" /\ ~(Len(buffer') < FixedLength(buffer') + 2)
    <3>1. Entered(buffer') = AfterHeader(buffer') /\ AfterHeader(buffer') \notin {"payload", "answer"}
      BY <2>7, EnteredCases, AfterHeaderProperty
    <3>2. QED  BY <1>2, <1>3, <1>4, <2>2, <3>1, AfterHeaderLocated
  <2>8. CASE stage = "rest" /\ Len(buffer') < Target(buffer')
    <3>1. Entered(buffer') = "idle"
      BY <2>8, EnteredCases
    <3>2. Len(buffer') < Len(Cur)
      BY <1>4, <1>5, <2>3, <2>4, <2>8
    <3>3. QED  BY <1>2, <3>1, <3>2 DEF Located
  <2>9. CASE stage = "rest" /\ ~(Len(buffer') < Target(buffer'))
    <3>1. Entered(buffer') = "done"
      BY <2>9, EnteredCases
    <3>2. Len(buffer') = Target(Cur)
      BY <1>4, <2>3, <2>4, <2>5, <2>9
    <3>3. ~TooBig(Cur) /\ (Oversized(Cur) => Len(buffer) >= FixedLength(Cur) + 2)
      BY <2>1, <2>9 DEF Located
    <3>4. Oversized(Cur) => Len(buffer') >= FixedLength(Cur) + 2
      BY <1>3, <1>4, <1>5, <3>3
    <3>5. QED  BY <1>2, <2>2, <3>1, <3>2, <3>3, <3>4 DEF Located
  <2>10. QED  BY <1>9, <2>6, <2>7, <2>8, <2>9
<1>10. QED  BY <1>1, <1>7, <1>8, <1>9

LEMMA ReadTracked ==
    ASSUME ReceiveInv, Tracked, \A p \in Packets : Readable(p), Read
    PROVE  Tracked'
<1>1. /\ stage \in {"first", "length", "topic", "rest"} /\ arrived # << >>
      /\ UNCHANGED <<wire, before, topic, data, read, sent, frames, answers, stalled>>
  BY DEF Read, piece
<1>2. Cur' = Cur /\ (Kept' <=> Kept)
  BY <1>1, SameFrames
<1>3. ~closed
  BY <1>1 DEF ReceiveInv
<1> SUFFICES ASSUME ~stalled, ~closed', Kept, InStep PROVE InStep'
  BY <1>1, <1>2, <1>3 DEF Tracked
<1>4. /\ Len(frames) < Len(sent) /\ Flow(sent, Len(frames), Len(buffer'), arrived', wire')
  BY ReadBegins
<1>5. Located(Entered(buffer'), buffer', Cur) /\ Entered(buffer') \notin {"payload", "answer"}
  BY ReadEnters
<1>6. stage' = Entered(buffer')
  BY ReadLanding, EnterLanding
<1>7. Used' = Len(buffer')
  BY <1>5, <1>6 DEF Used
<1>8. QED  BY <1>1, <1>2, <1>4, <1>5, <1>6, <1>7 DEF InStep

LEMMA NothingToReadTracked ==
    ASSUME ReceiveInv, Tracked, NothingToRead
    PROVE  Tracked'
<1>1. /\ stage \in {"first", "length", "topic", "rest"} /\ stage' = "idle"
      /\ UNCHANGED <<wire, arrived, buffer, before, topic, data, read, sent, frames, answers, stalled>>
  BY DEF NothingToRead, Enter, stream, piece
<1>2. Cur' = Cur /\ (Kept' <=> Kept)
  BY <1>1, SameFrames
<1>3. ~closed
  BY <1>1 DEF ReceiveInv
<1> SUFFICES ASSUME ~stalled, Kept, InStep PROVE InStep'
  BY <1>1, <1>2, <1>3 DEF Tracked
<1>4. Used' = Used
  BY <1>1 DEF Used
<1>5. ASSUME Len(buffer) >= 1 PROVE Len(frames) < Len(sent) /\ Located("idle", buffer, Cur)
  <2>1. Len(frames) < Len(sent) /\ Located(stage, buffer, Cur)
    BY <1>5 DEF InStep
  <2>2. /\ buffer \in Seq(Bytes) /\ Len(buffer) \in Nat /\ Len(buffer) <= BufferLength /\ Cur \in Packets
    BY <2>1, TrackedTypes
  <2>3. /\ Len(Cur) \in Nat /\ FixedLength(Cur) \in 2 .. 5 /\ FixedLength(Cur) <= Len(Cur)
        /\ BufferLength \in Nat /\ Target(Cur) \in Nat /\ Target(Cur) <= Len(Cur)
        /\ Oversized(Cur) <=> BufferLength < Len(Cur)
    BY <2>2, PacketHeader, PacketTarget
  <2>4. stage # "first"
    BY <1>5 DEF ReceiveInv, Landing
  <2>5. CASE stage \in {"length", "topic"}
    BY <2>1, <2>2, <2>3, <2>5 DEF Located
  <2>6. CASE stage = "rest"
    <3>1. Len(buffer) < Target(buffer)
      BY <2>6 DEF ReceiveInv, Landing
    <3>2. Target(buffer) = Target(Cur)
      BY <2>1, <2>2, <2>6, PrefixHeader DEF Located
    <3>3. QED  BY <2>1, <2>2, <2>3, <3>1, <3>2 DEF Located
  <2>7. QED  BY <1>1, <2>4, <2>5, <2>6
<1>6. QED  BY <1>1, <1>2, <1>4, <1>5 DEF InStep

\* A part of what has been read is that part of the packet.
LEMMA SubSeqBegins ==
    ASSUME NEW p \in Seq(Bytes), NEW b \in Seq(Bytes), Begins(b, p),
           NEW m \in Nat \ {0}, NEW n \in Int, n <= Len(b)
    PROVE  SubSeq(b, m, n) = SubSeq(p, m, n)
<1>1. Len(b) \in Nat /\ Len(p) \in Nat /\ n <= Len(p) /\ \A i \in 1 .. Len(b) : b[i] = p[i]
  BY LenProperties DEF Begins
<1> DEFINE u == SubSeq(b, m, n)
           v == SubSeq(p, m, n)
<1>2. /\ u \in Seq(Bytes) /\ Len(u) = IF m <= n THEN n - m + 1 ELSE 0
      /\ \A i \in 1 .. n - m + 1 : u[i] = b[m + i - 1]
  BY SubSeqPart, SMTT(40)
<1>3. /\ v \in Seq(Bytes) /\ Len(v) = IF m <= n THEN n - m + 1 ELSE 0
      /\ \A i \in 1 .. n - m + 1 : v[i] = p[m + i - 1]
  BY <1>1, SubSeqPart
<1> HIDE DEF u, v
<1>4. Len(u) = Len(v)
  BY <1>2, <1>3
<1>5. \A i \in 1 .. Len(u) : i \in 1 .. n - m + 1 /\ m + i - 1 \in 1 .. Len(b)
  BY <1>1, <1>2
<1>6. \A i \in 1 .. Len(u) : u[i] = v[i]
  BY <1>1, <1>2, <1>3, <1>5
<1>7. u = v
  BY <1>2, <1>3, <1>4, <1>6, SeqEqual
<1>8. QED  BY <1>7 DEF u, v

\* The packet that is consumed comes out as it was meant, and the next one starts.
LEMMA ConsumedTracked ==
    ASSUME ReceiveInv, Kept, Len(frames) < Len(sent), Consumed(Meant(Cur)), stage' = "idle",
           Flow(sent, Len(frames), Len(Cur), arrived, wire), UNCHANGED <<wire, arrived, sent>>
    PROVE  Kept' /\ InStep'
<1>1. frames' = Append(frames, Meant(Cur)) /\ buffer' = << >>
  BY DEF Consumed
<1>2. /\ Len(frames) \in 0 .. Len(sent) /\ Len(frames) \in Nat /\ Len(sent) \in Nat
      /\ sent \in Seq(Packets) /\ frames \in Seq(FrameRecords)
  BY TrackedTypes
<1>3. /\ Len(frames') = Len(frames) + 1 /\ frames'[Len(frames) + 1] = Meant(Cur)
      /\ \A k \in 1 .. Len(frames) : frames'[k] = frames[k]
  <2>1. frames \in Seq(FrameRecords \cup {Meant(Cur)})
    BY <1>2
  <2>2. QED  BY <1>1, <2>1, AppendProperties
<1>4. Kept'
  <2>1. Len(frames') <= Len(sent')
    BY <1>2, <1>3
  <2>2. \A k \in 1 .. Len(frames') : k \in 1 .. Len(frames) \/ k = Len(frames) + 1
    BY <1>2, <1>3
  <2>3. \A k \in 1 .. Len(frames) : frames'[k] = Meant(sent'[k])
    BY <1>3 DEF Kept
  <2>4. frames'[Len(frames) + 1] = Meant(sent'[Len(frames) + 1])
    BY <1>3 DEF Cur
  <2>5. QED  BY <2>1, <2>2, <2>3, <2>4 DEF Kept
<1>5. Flow(sent, Len(frames) + 1, 0, arrived, wire)
  BY <1>2, FlowGoesOn DEF Cur
<1>6. Used' = 0 /\ Len(buffer') = 0
  BY <1>1 DEF Used
<1>7. QED  BY <1>3, <1>4, <1>5, <1>6 DEF InStep

LEMMA ProcessPacketTracked ==
    ASSUME ReceiveInv, Tracked, ProcessPacket
    PROVE  Tracked'
<1>1. /\ stage = "done" /\ Type(buffer) # PUBLISH /\ stage' = "idle"
      /\ Consumed(Frame(Type(buffer), << >>,
                        SubSeq(buffer, FixedLength(buffer) + 1, TotalLength(buffer))))
      /\ UNCHANGED <<wire, arrived, before, closed, sent, answers, stalled>>
  BY DEF ProcessPacket, stream
<1>2. ~closed /\ Len(buffer) >= 1 /\ ~Oversized(buffer)
  BY <1>1 DEF ReceiveInv, Landing
<1> SUFFICES ASSUME ~stalled, Kept, InStep PROVE Kept' /\ InStep'
  BY <1>1, <1>2 DEF Tracked
<1>3. Len(frames) < Len(sent) /\ Located("done", buffer, Cur)
  BY <1>1, <1>2 DEF InStep
<1>4. buffer \in Seq(Bytes) /\ Cur \in Packets /\ Cur \in Seq(Bytes) /\ Len(Cur) \in Nat
      /\ FixedLength(Cur) \in 2 .. 5
  BY <1>3, TrackedTypes
<1>5. Begins(buffer, Cur) /\ Len(buffer) >= FixedLength(Cur) /\ Len(buffer) = Target(Cur)
  BY <1>3 DEF Located
<1>6. /\ FixedLength(buffer) = FixedLength(Cur) /\ TotalLength(buffer) = Len(Cur)
      /\ Type(buffer) = Type(Cur) /\ ~Oversized(Cur)
  BY <1>2, <1>4, <1>5, PrefixHeader
<1>7. Len(buffer) = Len(Cur)
  BY <1>4, <1>5, <1>6, PacketTarget
<1>8. SubSeq(buffer, FixedLength(buffer) + 1, TotalLength(buffer))
        = SubSeq(Cur, FixedLength(Cur) + 1, Len(Cur))
  <2>1. FixedLength(Cur) + 1 \in Nat \ {0} /\ Len(Cur) \in Int /\ Len(Cur) <= Len(buffer)
    BY <1>4, <1>7
  <2>2. \A m \in Nat \ {0}, n \in Int :
            n <= Len(buffer) => SubSeq(buffer, m, n) = SubSeq(Cur, m, n)
    BY <1>4, <1>5, SubSeqBegins, ZenonT(60)
  <2>3. SubSeq(buffer, FixedLength(Cur) + 1, Len(Cur)) = SubSeq(Cur, FixedLength(Cur) + 1, Len(Cur))
    BY <2>1, <2>2, ZenonT(60)
  <2>4. QED  BY <1>6, <2>3
<1>9. Consumed(Meant(Cur))
  BY <1>1, <1>6, <1>8 DEF Meant
<1>10. Flow(sent, Len(frames), Len(Cur), arrived, wire)
  BY <1>1, <1>7 DEF InStep, Used
<1>11. QED  BY <1>1, <1>3, <1>9, <1>10, ConsumedTracked

LEMMA AnswerTracked ==
    ASSUME ReceiveInv, Tracked, Answer
    PROVE  Tracked'
<1>1. stage = "answer" /\ UNCHANGED <<wire, arrived, before, sent, stalled>>
  BY DEF Answer, stream
<1>2. ~closed /\ Len(buffer) >= 1
  BY <1>1 DEF ReceiveInv, Landing
<1> SUFFICES ASSUME ~stalled, Kept, InStep PROVE Kept' /\ (~closed' => InStep')
  BY <1>1, <1>2 DEF Tracked
<1>3. CASE Consumed(Frame(PUBLISH, topic, data)) /\ Enter("idle")
  <2>1. stage' = "idle"
    BY <1>3 DEF Enter
  <2>2. Len(frames) < Len(sent) /\ Handed
    BY <1>1, <1>2 DEF InStep
  <2>3. read = Len(Cur)
    BY <1>1, <2>2 DEF Handed
  <2>4. Frame(PUBLISH, topic, data) = Meant(Cur)
    BY <2>2, <2>3 DEF Handed, Meant
  <2>5. Flow(sent, Len(frames), Len(Cur), arrived, wire)
    BY <1>1, <2>3 DEF InStep, Used
  <2>6. QED  BY <1>1, <1>3, <2>1, <2>2, <2>4, <2>5, ConsumedTracked
<1>4. CASE Enter("error") /\ UNCHANGED frames
  <2>1. closed' = TRUE
    BY <1>4 DEF Enter
  <2>2. Kept'
    BY <1>1, <1>4, SameFrames
  <2>3. QED  BY <2>1, <2>2
<1>5. QED  BY <1>3, <1>4 DEF Answer

LEMMA DeliverStallsTracked ==
    ASSUME DeliverStalls
    PROVE  Tracked'
BY DEF DeliverStalls, Tracked

\* A PUBLISH whose header is in the buffer: topic and payload are those of the packet.
LEMMA PublishHanded ==
    ASSUME NEW p \in Packets, NEW b \in Seq(Bytes), Readable(p), Located("done", b, p),
           Type(p) = PUBLISH, ~NoTopic(b)
    PROVE  /\ Topic(b) = Topic(p) /\ DataStart(p) \in Nat \ {0}
           /\ Data(b) = SubSeq(p, DataStart(p), Len(b))
           /\ Len(b) <= Len(p) /\ TotalLength(b) = Len(p)
           /\ Len(b) < Len(p) => DataStart(p) <= Len(b) + 1
<1>1. /\ p \in Seq(Bytes) /\ Len(p) \in Nat /\ FixedLength(p) \in 2 .. 5
      /\ BufferLength \in Nat /\ Target(p) \in Nat
      /\ Oversized(p) => Target(p) = BufferLength
      /\ ~Oversized(p) => Target(p) = Len(p)
  BY PacketHeader, PacketTarget
<1>2. Begins(b, p) /\ Len(b) >= FixedLength(p) /\ ~TooBig(p) /\ Len(b) = Target(p)
  BY DEF Located
<1>3. /\ Len(b) \in Nat /\ Len(b) <= Len(p) /\ Len(b) >= 2
      /\ FixedLength(b) = FixedLength(p) /\ TotalLength(b) = Len(p)
  BY <1>2, PrefixHeader
<1>4. FixedLength(b) + 2 < Len(b) /\ TopicEnd(b) <= Len(b)
  BY <1>3, PublishParts
<1>5. TopicEnd(b) = TopicEnd(p) /\ DataStart(b) = DataStart(p)
  <2>1. Len(b) >= FixedLength(p) + 2
    BY <1>1, <1>3, <1>4
  <2>2. QED  BY <1>2, <2>1, PrefixHeader
<1>6. TopicEnd(b) \in Nat /\ DataStart(b) \in Nat \ {0}
  BY <1>1, <1>3, <1>4, PublishPositions, SMTT(40)
<1>7. Topic(b) = Topic(p)
  <2>1. FixedLength(p) + 3 \in Nat \ {0} /\ TopicEnd(b) \in Int
    BY <1>1, <1>6
  <2>2. SubSeq(b, FixedLength(p) + 3, TopicEnd(b)) = SubSeq(p, FixedLength(p) + 3, TopicEnd(b))
    BY <1>1, <1>2, <1>4, <2>1, SubSeqBegins, Zenon
  <2>3. QED  BY <1>3, <1>5, <2>2 DEF Topic
<1>8. Data(b) = SubSeq(p, DataStart(p), Len(b))
  <2>1. SubSeq(b, DataStart(b), Len(b)) = SubSeq(p, DataStart(b), Len(b))
    <3>1. Len(b) \in Int /\ Len(b) <= Len(b)
      BY <1>3
    <3>2. QED  BY <1>1, <1>2, <1>6, <3>1, SubSeqBegins, Zenon
  <2>2. CASE DataStart(b) > Len(b)
    <3>1. Data(b) = << >>
      BY <2>2 DEF Data
    <3>2. SubSeq(p, DataStart(b), Len(b)) = << >>
      BY <1>3, <1>6, <2>2
    <3>3. QED  BY <1>5, <3>1, <3>2
  <2>3. CASE ~(DataStart(b) > Len(b))
    <3>1. Min({TotalLength(b), Len(b)}) = Len(b)
      BY <1>1, <1>3, MinOfTwo
    <3>2. Data(b) = SubSeq(b, DataStart(b), Len(b))
      BY <2>3, <3>1 DEF Data
    <3>3. QED  BY <1>5, <2>1, <3>2
  <2>4. QED  BY <2>2, <2>3
<1>9. ASSUME Len(b) < Len(p) PROVE DataStart(p) <= Len(b) + 1
  <2>1. Oversized(p) /\ Len(b) = BufferLength
    BY <1>1, <1>2, <1>3, <1>9
  <2>2. DataStart(p) <= BufferLength + 1
    BY <1>2, <2>1 DEF Readable
  <2>3. QED  BY <2>1, <2>2
<1>10. QED  BY <1>3, <1>5, <1>6, <1>7, <1>8, <1>9

LEMMA DeliverPublishTracked ==
    ASSUME ReceiveInv, Tracked, \A p \in Packets : Readable(p), DeliverPublish
    PROVE  Tracked'
<1>1. /\ stage = "done" /\ Type(buffer) = PUBLISH
      /\ UNCHANGED <<wire, arrived, buffer, before, sent, frames, answers, stalled>>
  BY DEF DeliverPublish, stream
<1>2. ~closed /\ Len(buffer) >= 1
  BY <1>1 DEF ReceiveInv, Landing
<1>3. Cur' = Cur /\ (Kept' <=> Kept)
  BY <1>1, SameFrames
<1> SUFFICES ASSUME ~stalled, ~closed', Kept, InStep PROVE InStep'
  BY <1>1, <1>2, <1>3 DEF Tracked
<1>4. Len(frames) < Len(sent) /\ Located("done", buffer, Cur)
  BY <1>1, <1>2 DEF InStep
<1>5. buffer \in Seq(Bytes) /\ Cur \in Packets /\ Len(Cur) \in Nat /\ Len(buffer) \in Nat
  BY <1>4, TrackedTypes
<1>6. Type(Cur) = PUBLISH
  BY <1>1, <1>4, <1>5, PrefixHeader DEF Located
<1>7. ~NoTopic(buffer)
  <2>1. NoTopic(buffer) => closed' = TRUE
    BY DEF DeliverPublish, Enter
  <2>2. QED  BY <2>1
<1>8. /\ topic' = Topic(buffer) /\ data' = Data(buffer) /\ read' = Len(buffer)
      /\ Enter(IF Len(buffer) < TotalLength(buffer) THEN "payload" ELSE "answer")
  BY <1>7 DEF DeliverPublish
<1>9. /\ Topic(buffer) = Topic(Cur) /\ DataStart(Cur) \in Nat \ {0}
      /\ Data(buffer) = SubSeq(Cur, DataStart(Cur), Len(buffer))
      /\ Len(buffer) <= Len(Cur) /\ TotalLength(buffer) = Len(Cur)
      /\ Len(buffer) < Len(Cur) => DataStart(Cur) <= Len(buffer) + 1
  BY <1>4, <1>5, <1>6, <1>7, PublishHanded
<1>10. /\ stage' \in {"payload", "answer"}
       /\ stage' = "payload" => Len(buffer) < Len(Cur)
       /\ stage' = "answer" => ~(Len(buffer) < Len(Cur))
  BY <1>8, <1>9 DEF Enter
<1>11. stage' = "answer" => read' = Len(Cur)
  BY <1>5, <1>8, <1>9, <1>10
<1>12. Handed'
  BY <1>3, <1>6, <1>8, <1>9, <1>10, <1>11 DEF Handed
<1>13. Located(stage', buffer, Cur)
  BY <1>4, <1>10 DEF Located
<1>14. Used' = Len(buffer) /\ Used = Len(buffer)
  BY <1>1, <1>8, <1>10 DEF Used
<1>15. QED  BY <1>1, <1>3, <1>4, <1>12, <1>13, <1>14 DEF InStep

\* The first k bytes of a follow the first r of p.
Follows(a, k, p, r) == \A i \in 1 .. k : a[i] = p[r + i]

\* The payload grows by the bytes that follow.
LEMMA SubSeqGrows ==
    ASSUME NEW p \in Seq(Bytes), NEW a \in Seq(Bytes), NEW m \in Nat \ {0}, NEW r \in Nat, NEW k \in Nat,
           m <= r + 1, r + k <= Len(p), k <= Len(a), Follows(a, k, p, r)
    PROVE  SubSeq(p, m, r) \o SubSeq(a, 1, k) = SubSeq(p, m, r + k)
<1>1. Len(p) \in Nat /\ Len(a) \in Nat
  BY LenProperties
<1> DEFINE u == SubSeq(p, m, r)
           c == SubSeq(a, 1, k)
           v == SubSeq(p, m, r + k)
           d == u \o c
<1>2. /\ u \in Seq(Bytes) /\ Len(u) = IF m <= r THEN r - m + 1 ELSE 0
      /\ \A i \in 1 .. r - m + 1 : u[i] = p[m + i - 1]
  <2>1. r \in Int /\ r <= Len(p)
    BY <1>1
  <2>2. QED  BY <2>1, SubSeqPart, SMTT(40)
<1>3. c \in Seq(Bytes) /\ Len(c) = k /\ \A i \in 1 .. k : c[i] = a[i]
  BY SubSeqCut
<1>4. /\ v \in Seq(Bytes) /\ Len(v) = IF m <= r + k THEN r + k - m + 1 ELSE 0
      /\ \A i \in 1 .. r + k - m + 1 : v[i] = p[m + i - 1]
  <2>1. r + k \in Int
    OBVIOUS
  <2>2. QED  BY <2>1, SubSeqPart
<1> HIDE DEF u, c, v
<1>5. Len(u) = r - m + 1 /\ Len(v) = r + k - m + 1
  BY <1>2, <1>4
<1>6. /\ d \in Seq(Bytes) /\ Len(d) = Len(u) + Len(c)
      /\ \A i \in 1 .. Len(u) : d[i] = u[i]
      /\ \A i \in 1 .. Len(c) : d[Len(u) + i] = c[i]
  <2>1. /\ Begins(u, d) /\ d \in Seq(Bytes) /\ Len(d) = Len(u) + Len(c)
        /\ \A i \in 1 .. Len(c) : d[Len(u) + i] = c[i]
    <3>1. u \in Seq(Bytes) /\ c \in Seq(Bytes)
      BY <1>2, <1>3
    <3>2. QED  BY <3>1, ConcatBegins
  <2>2. QED  BY <2>1 DEF Begins
<1> HIDE DEF d
<1>7. Len(d) = Len(v)
  BY <1>3, <1>5, <1>6
<1>8. ASSUME NEW i \in 1 .. Len(d) PROVE d[i] = v[i]
  <2>1. i \in 1 .. r + k - m + 1
    BY <1>5, <1>7
  <2>2. CASE i <= r - m + 1
    <3>1. i \in 1 .. Len(u) /\ i \in 1 .. r - m + 1
      BY <1>5, <2>1, <2>2
    <3>2. QED  BY <1>2, <1>4, <1>6, <2>1, <3>1
  <2>3. CASE ~(i <= r - m + 1)
    <3> DEFINE j == i - (r - m + 1)
    <3>1. j \in 1 .. k /\ Len(u) + j = i /\ r + j = m + i - 1
      BY <1>5, <2>1, <2>3
    <3> HIDE DEF j
    <3>2. d[i] = c[j] /\ c[j] = a[j] /\ a[j] = p[r + j]
      BY <1>3, <1>6, <3>1 DEF Follows
    <3>3. QED  BY <1>4, <2>1, <3>1, <3>2
  <2>4. QED  BY <2>2, <2>3
<1>9. d = v
  BY <1>4, <1>6, <1>7, <1>8, SeqEqual
<1>10. QED  BY <1>9 DEF d, u, c, v

LEMMA DeliverMoreTracked ==
    ASSUME ReceiveInv, Tracked, DeliverMore
    PROVE  Tracked'
<1>1. /\ stage = "payload" /\ arrived # << >>
      /\ data' = data \o SubSeq(arrived, 1, MoreTaken)
      /\ arrived' = SubSeq(arrived, MoreTaken + 1, Len(arrived))
      /\ read' = read + MoreTaken
      /\ stage' = IF read + MoreTaken < TotalLength(buffer) THEN "payload" ELSE "answer"
      /\ UNCHANGED <<wire, buffer, before, topic, closed, sent, frames, answers, stalled>>
  BY DEF DeliverMore, MoreTaken
<1>2. ~closed /\ Len(buffer) >= 1
  BY <1>1 DEF ReceiveInv, Landing
<1>3. Cur' = Cur /\ (Kept' <=> Kept)
  BY <1>1, SameFrames
<1> SUFFICES ASSUME ~stalled, Kept, InStep PROVE InStep'
  BY <1>1, <1>2, <1>3 DEF Tracked
<1>4. Len(frames) < Len(sent) /\ Located("payload", buffer, Cur) /\ Handed
  BY <1>1, <1>2 DEF InStep
<1>5. /\ Len(frames) \in 0 .. Len(sent) /\ sent \in Seq(Packets) /\ arrived \in Seq(Bytes)
      /\ wire \in Seq(Bytes) /\ buffer \in Seq(Bytes)
      /\ Cur \in Packets /\ Cur \in Seq(Bytes) /\ Len(Cur) \in Nat
  BY <1>4, TrackedTypes
<1>6. TotalLength(buffer) = Len(Cur)
  BY <1>4, <1>5, PrefixHeader DEF Located
<1>7. /\ read \in Nat /\ Len(arrived) \in Nat /\ MoreTaken \in Nat /\ MoreTaken >= 1
      /\ MoreTaken <= Len(arrived) /\ read + MoreTaken <= Len(Cur)
  BY <1>1, <1>6, MoreTakes
<1>8. Flow(sent, Len(frames), read, arrived, wire)
  BY <1>1 DEF InStep, Used
<1>9. Flow(sent, Len(frames), read + MoreTaken, arrived', wire)
  <2>1. MoreTaken \in 1 .. Len(arrived)
    BY <1>7
  <2>2. QED  BY <1>1, <1>5, <1>7, <1>8, <2>1, FlowTakes
<1>10. \A i \in 1 .. MoreTaken : arrived[i] = Cur[read + i]
  <2>1. \A i \in 1 .. Len(arrived) : read + i <= Len(Cur) => arrived[i] = Cur[read + i]
    BY <1>4, <1>5, <1>7, <1>8, FlowTells, ZenonT(60) DEF Cur
  <2>2. \A i \in 1 .. MoreTaken : i \in 1 .. Len(arrived) /\ read + i <= Len(Cur)
    BY <1>5, <1>7
  <2>3. QED  BY <2>1, <2>2
<1>11. /\ DataStart(Cur) \in Nat \ {0} /\ DataStart(Cur) <= read + 1
       /\ data = SubSeq(Cur, DataStart(Cur), read)
  BY <1>1, <1>4 DEF Handed
<1>12. data' = SubSeq(Cur, DataStart(Cur), read')
  <2>1. SubSeq(Cur, DataStart(Cur), read) \o SubSeq(arrived, 1, MoreTaken)
          = SubSeq(Cur, DataStart(Cur), read + MoreTaken)
    <3>1. Follows(arrived, MoreTaken, Cur, read)
      BY <1>10 DEF Follows
    <3>2. /\ Cur \in Seq(Bytes) /\ arrived \in Seq(Bytes) /\ DataStart(Cur) \in Nat \ {0}
          /\ read \in Nat /\ MoreTaken \in Nat /\ DataStart(Cur) <= read + 1
          /\ read + MoreTaken <= Len(Cur) /\ MoreTaken <= Len(arrived)
      BY <1>5, <1>7, <1>11
    <3>3. QED  BY <3>1, <3>2, SubSeqGrows, ZenonT(60)
  <2>2. QED  BY <1>1, <1>11, <2>1
<1>13. /\ stage' \in {"payload", "answer"} /\ read' <= Len(Cur) /\ DataStart(Cur) <= read' + 1
       /\ stage' = "answer" => read' = Len(Cur)
  BY <1>1, <1>5, <1>6, <1>7, <1>11
<1>14. Handed'
  BY <1>1, <1>3, <1>4, <1>12, <1>13 DEF Handed
<1>15. Located(stage', buffer, Cur)
  BY <1>4, <1>13 DEF Located
<1>16. Used' = read + MoreTaken
  BY <1>1, <1>13 DEF Used
<1>17. QED  BY <1>1, <1>3, <1>4, <1>9, <1>14, <1>15, <1>16 DEF InStep

LEMMA NextTracked ==
    ASSUME ReceiveInv, Tracked, \A p \in Packets : Readable(p), [Next]_vars
    PROVE  Tracked'
<1>1. CASE Turn           BY <1>1, TurnTracked
<1>2. CASE Read           BY <1>2, ReadTracked
<1>3. CASE NothingToRead  BY <1>3, NothingToReadTracked
<1>4. CASE ProcessPacket  BY <1>4, ProcessPacketTracked
<1>5. CASE DeliverPublish BY <1>5, DeliverPublishTracked
<1>6. CASE DeliverMore    BY <1>6, DeliverMoreTracked
<1>7. CASE DeliverStalls  BY <1>7, DeliverStallsTracked
<1>8. CASE Answer         BY <1>8, AnswerTracked
<1>9. CASE Send           BY <1>9, SendTracked
<1>10. CASE Arrive        BY <1>10, ArriveTracked
<1>11. CASE UNCHANGED vars
  <2>1. UNCHANGED <<wire, arrived, buffer, before, stage, topic, data, read, closed, sent, frames,
                    answers, stalled>>
    BY <1>11 DEF vars, stream, piece
  <2>2. Cur' = Cur /\ (Kept' <=> Kept)
    BY <2>1, SameFrames
  <2>3. Used' = Used /\ (Handed' <=> Handed)
    BY <2>1, <2>2 DEF Used, Handed
  <2>4. InStep' <=> InStep
    BY <2>1, <2>2, <2>3 DEF InStep
  <2>5. QED  BY <2>1, <2>2, <2>4 DEF Tracked
<1>12. QED  BY <1>1, <1>2, <1>3, <1>4, <1>5, <1>6, <1>7, <1>8, <1>9, <1>10, <1>11 DEF Next, Receiver

\* What came out begins what was sent.
LEMMA KeptPrefix ==
    ASSUME ReceiveInv, Kept
    PROVE  IsPrefix(frames, [k \in DOMAIN sent |-> Meant(sent[k])])
<1> DEFINE S == FrameRecords \cup {Meant(p) : p \in Packets}
           t == [k \in DOMAIN sent |-> Meant(sent[k])]
           n == Len(frames)
           u == SubSeq(frames, 1, n)
           v == SubSeq(t, 1, n)
<1>1. /\ n \in 0 .. Len(sent) /\ n \in Nat /\ Len(sent) \in Nat
      /\ sent \in Seq(Packets) /\ frames \in Seq(FrameRecords)
  BY TrackedTypes
<1>2. \A k \in 1 .. Len(sent) : Meant(sent[k]) \in S
  BY <1>1, ElementOfSeq
<1>3. t = [k \in 1 .. Len(sent) |-> Meant(sent[k])]
  BY <1>1, LenProperties
<1>4. t \in Seq(S) /\ Len(t) = Len(sent) /\ \A k \in 1 .. Len(sent) : t[k] = Meant(sent[k])
  <2> HIDE DEF S
  <2>1. QED  BY <1>1, <1>2, <1>3
<1>5. frames \in Seq(S)
  BY <1>1
<1> HIDE DEF S, t
<1>6. u \in Seq(S) /\ Len(u) = n /\ \A k \in 1 .. n : u[k] = frames[k]
  BY <1>1, <1>5, SubSeqCut
<1>7. v \in Seq(S) /\ Len(v) = n /\ \A k \in 1 .. n : v[k] = t[k]
  BY <1>1, <1>4, SubSeqCut
<1>8. \A k \in 1 .. n : k \in 1 .. Len(sent) /\ frames[k] = Meant(sent[k])
  BY <1>1 DEF Kept
<1> HIDE DEF u, v
<1>9. u = v
  BY <1>4, <1>6, <1>7, <1>8, SeqEqual
<1>10. Len(frames) <= Len(t)
  BY <1>1, <1>4
<1>11. IsPrefix(frames, t)
  BY <1>9, <1>10 DEF IsPrefix, u, v
<1>12. QED  BY <1>11 DEF t

\* However the bytes are cut, the packets that come out are the packets that were
\* sent, whole and in order, until a payload stalls (mqtt_client.c:1509-1642,
\* 1392-1418): for any buffer and any packets that can be read in it.
THEOREM FramesKeptAlways ==
    ASSUME \A p \in Packets : Readable(p)
    PROVE  Spec => []FramesKept
<1>1. Init => ReceiveInv /\ Tracked
  BY InitReceive, InitTracked
<1>2. ReceiveInv /\ Tracked /\ [Next]_vars => ReceiveInv' /\ Tracked'
  BY NextType, NextTracked
<1>3. ReceiveInv /\ Tracked => FramesKept
  BY KeptPrefix DEF Tracked, FramesKept
<1>4. QED  BY <1>1, <1>2, <1>3, PTL DEF Spec

-----------------------------------------------------------------------------
(***************************************************************************)
(* A connection whose bytes keep coming is not given up.                   *)
(***************************************************************************)

\* This turn has read something, or there is something to read.
Prompted ==
    Prompt /\ ~stalled /\ ~closed /\ stage \in {"length", "topic", "rest"} =>
        before < Len(buffer) \/ arrived # << >>

LEMMA TurnPrompted ==
    ASSUME ReceiveInv, Tracked, Turn
    PROVE  Prompted'
<1>1. /\ stage = "idle" /\ ~closed /\ before' = Len(buffer) /\ Enter(Resumed(buffer))
      /\ arrived # << >> \/ (Prompt => wire = << >>)
      /\ UNCHANGED <<wire, arrived, buffer, sent, frames, stalled>>
  BY DEF Turn, stream
<1> SUFFICES ASSUME Prompt, ~stalled, ~closed', stage' \in {"length", "topic", "rest"}
             PROVE  arrived # << >>
  BY <1>1 DEF Prompted
<1>2. Kept /\ InStep
  BY <1>1 DEF Tracked
<1>3. /\ Len(frames) \in 0 .. Len(sent) /\ sent \in Seq(Packets) /\ Len(sent) \in Nat
      /\ buffer \in Seq(Bytes) /\ Len(buffer) \in Nat
      /\ arrived \in Seq(Bytes) /\ wire \in Seq(Bytes) /\ Used \in Nat
      /\ Len(frames) < Len(sent) => Len(Cur) \in Nat
  BY <1>2, TrackedTypes
<1>4. Len(buffer) >= 1
  <2>1. Landing(Resumed(buffer), buffer')
    BY <1>1, <1>3, ResumedLanding
  <2>2. Landing(stage', buffer')
    BY <1>1, <2>1, EnterLanding
  <2>3. QED  BY <1>1, <2>2 DEF Landing
<1>5. Len(frames) < Len(sent) /\ Len(buffer) < Len(Cur)
  BY <1>1, <1>2, <1>4 DEF InStep, Located
<1>6. Len(buffer) + Len(arrived) + Len(wire) >= Len(Cur)
  <2>1. Flow(sent, Len(frames), Len(buffer), arrived, wire)
    BY <1>1, <1>2 DEF InStep, Used
  <2>2. QED  BY <1>3, <1>5, <2>1, FlowTells DEF Cur
<1>7. ASSUME arrived = << >> PROVE FALSE
  <2>1. wire = << >>
    BY <1>1, <1>7
  <2>2. Len(arrived) = 0 /\ Len(wire) = 0
    BY <1>7, <2>1
  <2>3. QED  BY <1>3, <1>5, <1>6, <2>2
<1>8. QED  BY <1>7

LEMMA ReadPrompted ==
    ASSUME ReceiveInv, Read
    PROVE  Prompted'
<1>1. stage \in {"first", "length", "topic", "rest"} /\ before' = before
  BY DEF Read
<1>2. Len(buffer') = Len(buffer) + Taken /\ Taken \in Nat /\ Taken >= 1
  BY ReadLanding
<1>3. before \in Nat /\ before <= Len(buffer) /\ Len(buffer) \in Nat
  BY <1>1, LenProperties DEF ReceiveInv, TypeOK
<1>4. before' < Len(buffer')
  BY <1>1, <1>2, <1>3
<1>5. QED  BY <1>4 DEF Prompted

LEMMA ArrivePrompted ==
    ASSUME ReceiveInv, Prompted, Arrive
    PROVE  Prompted'
<1>1. PICK k \in DOMAIN wire : arrived' = arrived \o SubSeq(wire, 1, k)
  BY DEF Arrive
<1>2. UNCHANGED <<before, buffer, stage, closed, stalled>>
  BY DEF Arrive
<1>3. wire \in Seq(Bytes) /\ arrived \in Seq(Bytes) /\ Len(wire) \in Nat /\ Len(arrived) \in Nat
  BY LenProperties DEF ReceiveInv, TypeOK
<1>4. k \in 1 .. Len(wire) /\ k \in Nat /\ k <= Len(wire) /\ k >= 1
  BY <1>3, LenProperties
<1>5. SubSeq(wire, 1, k) \in Seq(Bytes) /\ Len(SubSeq(wire, 1, k)) = k
  BY <1>3, <1>4, SubSeqCut
<1>6. Len(arrived') = Len(arrived) + k
  BY <1>1, <1>3, <1>5, ConcatProperties
<1>7. arrived' # << >>
  <2>1. Len(arrived') # Len(<< >>)
    BY <1>3, <1>4, <1>6
  <2>2. QED  BY <2>1
<1>8. QED  BY <1>2, <1>7 DEF Prompted

LEMMA NextPrompted ==
    ASSUME ReceiveInv, Tracked, Prompted, [Next]_vars
    PROVE  Prompted'
<1>1. CASE Turn           BY <1>1, TurnPrompted
<1>2. CASE Read           BY <1>2, ReadPrompted
<1>3. CASE NothingToRead \/ ProcessPacket \/ DeliverPublish \/ DeliverMore \/ DeliverStalls \/ Answer
  <2>1. stage' \notin {"length", "topic", "rest"}
    BY <1>3 DEF NothingToRead, ProcessPacket, DeliverPublish, DeliverMore, DeliverStalls, Answer, Enter
  <2>2. QED  BY <2>1 DEF Prompted
<1>4. CASE Send           BY <1>4 DEF Send, Prompted
<1>5. CASE Arrive         BY <1>5, ArrivePrompted
<1>6. CASE UNCHANGED vars BY <1>6 DEF vars, stream, Prompted
<1>7. QED  BY <1>1, <1>2, <1>3, <1>4, <1>5, <1>6 DEF Next, Receiver

\* A PUBLISH with a topic has one in the buffer.
LEMMA PublishTopic ==
    ASSUME NEW p \in Packets, NEW b \in Seq(Bytes), Readable(p), Acceptable(p), Located("done", b, p),
           Type(p) = PUBLISH
    PROVE  ~NoTopic(b)
<1>1. /\ p \in Seq(Bytes) /\ Len(p) \in Nat /\ Len(p) >= 2 /\ FixedLength(p) \in 2 .. 5
      /\ BufferLength \in Nat /\ BufferLength >= 9 /\ Target(p) \in Nat
      /\ Oversized(p) => Target(p) = BufferLength
      /\ ~Oversized(p) => Target(p) = Len(p)
  BY PacketHeader, PacketTarget
<1>2. Begins(b, p) /\ Len(b) >= FixedLength(p) /\ Len(b) = Target(p)
  BY DEF Located
<1>3. Len(b) \in Nat /\ FixedLength(b) = FixedLength(p)
  BY <1>2, PrefixHeader
<1>4. ~NoTopic(p)
  BY DEF Acceptable
<1>5. FixedLength(p) + 2 < Len(p) /\ TopicEnd(p) <= Len(p)
  BY <1>1, <1>4, PublishParts
<1>6. TopicEnd(p) \in Nat /\ DataStart(p) \in Nat /\ DataStart(p) >= TopicEnd(p) + 1
  BY <1>1, <1>5, PublishPositions
<1>7. FixedLength(p) + 2 < Len(b) /\ TopicEnd(p) <= Len(b)
  <2>1. CASE Oversized(p)
    <3>1. DataStart(p) <= BufferLength + 1
      BY <2>1 DEF Readable, Acceptable
    <3>2. QED  BY <1>1, <1>2, <1>6, <2>1, <3>1
  <2>2. CASE ~Oversized(p)
    BY <1>1, <1>2, <1>5, <2>2
  <2>3. QED  BY <2>1, <2>2
<1>8. TopicEnd(b) = TopicEnd(p)
  <2>1. Len(b) >= FixedLength(p) + 2
    BY <1>1, <1>3, <1>7
  <2>2. QED  BY <1>2, <2>1, PrefixHeader
<1>9. QED  BY <1>1, <1>3, <1>6, <1>7, <1>8 DEF NoTopic

\* A step that closes the connection writes an answer.
LEMMA ClosedByAnswer ==
    ASSUME ReceiveInv, Tracked, Prompted, \A p \in Packets : Readable(p) /\ Acceptable(p), [Next]_vars,
           Prompt, ~stalled, ~closed, closed'
    PROVE  stage = "answer"
<1>1. Kept /\ InStep
  BY DEF Tracked
<1>2. /\ buffer \in Seq(Bytes) /\ Len(buffer) \in Nat /\ Len(buffer) <= BufferLength
      /\ Len(frames) < Len(sent) => Cur \in Packets
  BY <1>1, TrackedTypes
<1>3. \A p \in Packets : Readable(p) /\ ~TooBig(p)
  BY DEF Acceptable
<1>4. CASE Turn
  <2>1. stage = "idle" /\ Enter(Resumed(buffer)) /\ buffer' = buffer
    BY <1>4 DEF Turn
  <2>2. Resumed(buffer) = "error"
    BY <2>1 DEF Enter
  <2>3. Len(buffer) >= 1
    <3>1. Len(buffer) # 0
      BY <2>2 DEF Resumed
    <3>2. \A n \in Nat : n # 0 => n >= 1
      OBVIOUS
    <3>3. QED  BY <1>2, <3>1, <3>2, Zenon
  <2>4. Cur \in Packets /\ Begins(buffer, Cur) /\ Len(buffer) < Len(Cur)
    BY <1>1, <1>2, <2>1, <2>3 DEF InStep, Located
  <2>5. TooBig(Cur)
    BY <1>2, <1>3, <2>2, <2>3, <2>4, ResumedLocated
  <2>6. QED  BY <1>3, <2>4, <2>5
<1>5. CASE Read
  <2>1. Entered(buffer') = "error"
    BY <1>5, ReadLanding, EnterLanding
  <2>2. TooBig(Cur)
    BY <1>1, <1>3, <1>5, <2>1, ReadEnters
  <2>3. Cur \in Packets
    BY <1>1, <1>2, <1>5, ReadBegins
  <2>4. QED  BY <1>3, <2>2, <2>3
<1>6. CASE NothingToRead
  <2>1. /\ stage \in {"first", "length", "topic", "rest"} /\ arrived = << >>
        /\ Enter(IF stage # "first" /\ before = Len(buffer) THEN "error" ELSE "idle")
    BY <1>6 DEF NothingToRead
  <2>2. stage \in {"length", "topic", "rest"} /\ before = Len(buffer)
    BY <2>1 DEF Enter
  <2>3. before < Len(buffer)
    BY <2>1, <2>2 DEF Prompted
  <2>4. QED  BY <1>2, <2>2, <2>3
<1>7. CASE DeliverPublish
  <2>1. /\ stage = "done" /\ Type(buffer) = PUBLISH /\ Len(buffer) >= 1
    BY <1>7 DEF DeliverPublish, ReceiveInv, Landing
  <2>2. NoTopic(buffer)
    BY <1>7 DEF DeliverPublish, Enter
  <2>3. Cur \in Packets /\ Located("done", buffer, Cur)
    BY <1>1, <1>2, <2>1 DEF InStep
  <2>4. Type(Cur) = PUBLISH
    BY <1>2, <2>1, <2>3, PrefixHeader DEF Located
  <2>5. QED  BY <1>2, <2>2, <2>3, <2>4, PublishTopic
<1>8. CASE Answer
  BY <1>8 DEF Answer
<1>9. CASE ProcessPacket \/ DeliverMore \/ DeliverStalls \/ Send \/ Arrive \/ UNCHANGED vars
  <2>1. closed' = closed
    BY <1>9 DEF ProcessPacket, DeliverMore, DeliverStalls, Send, Arrive, vars
  <2>2. QED  BY <2>1
<1>10. QED  BY <1>4, <1>5, <1>6, <1>7, <1>8, <1>9 DEF Next, Receiver

\* A connection whose bytes keep coming is given up only where an answer cannot be
\* written (mqtt_client.c:1656-1664): for any packets that can be read in the buffer
\* and are not too big for it, however they are cut.
THEOREM KeepsReading ==
    ASSUME \A p \in Packets : Readable(p) /\ Acceptable(p)
    PROVE  Spec => NotGivenUp
<1> DEFINE Inv == ReceiveInv /\ Tracked /\ Prompted
<1>1. Init => Inv
  <2>1. Init => Prompted
    BY DEF Init, Prompted
  <2>2. QED  BY <2>1, InitReceive, InitTracked
<1>2. Inv /\ [Next]_vars => Inv'
  <2>1. \A p \in Packets : Readable(p)
    OBVIOUS
  <2>2. QED  BY <2>1, NextType, NextTracked, NextPrompted
<1>3. Inv /\ [Next]_vars => [Prompt /\ ~stalled /\ ~closed /\ closed' => stage = "answer"]_vars
  BY ClosedByAnswer
<1>4. QED  BY <1>1, <1>2, <1>3, PTL DEF Spec, NotGivenUp

-----------------------------------------------------------------------------
(***************************************************************************)
(* A PUBLISH is answered before all of it was received only because a      *)
(* payload may stall.                                                      *)
(***************************************************************************)

\* Where no payload stalls, a PUBLISH is answered when all of it was received
\* (mqtt_client.c:1392-1418): the timeout that deliver_publish takes for the end of
\* the message is the only way to an early answer.
THEOREM AnsweredWholeWithoutStall ==
    ASSUME ~Stalls, \A p \in Packets : Readable(p)
    PROVE  Spec => []AnsweredWhole
<1> DEFINE Inv == ReceiveInv /\ Tracked /\ ~stalled
<1>1. Init => Inv
  BY InitReceive, InitTracked DEF Init
<1>2. Inv /\ [Next]_vars => Inv'
  <2> SUFFICES ASSUME Inv, [Next]_vars PROVE ~stalled'
    BY NextType, NextTracked
  <2>1. ~DeliverStalls
    BY DEF DeliverStalls
  <2>2. stalled' = stalled
    BY <2>1 DEF Next, Receiver, Turn, Read, NothingToRead, ProcessPacket, DeliverPublish, DeliverMore,
                Answer, Send, Arrive, vars
  <2>3. QED  BY <2>2
<1>3. Inv => AnsweredWhole
  <2> SUFFICES ASSUME Inv, stage = "answer" PROVE read = TotalLength(buffer)
    BY DEF AnsweredWhole
  <2>1. ~closed /\ Len(buffer) >= 1
    BY DEF ReceiveInv, Landing
  <2>2. Kept /\ InStep
    BY <2>1 DEF Tracked
  <2>3. Len(frames) < Len(sent) /\ Located("answer", buffer, Cur) /\ read = Len(Cur)
    BY <2>1, <2>2 DEF InStep, Handed
  <2>4. buffer \in Seq(Bytes) /\ Cur \in Packets
    BY <2>2, <2>3, TrackedTypes
  <2>5. QED  BY <2>3, <2>4, PrefixHeader DEF Located
<1>4. QED  BY <1>1, <1>2, <1>3, PTL DEF Spec
=============================================================================
