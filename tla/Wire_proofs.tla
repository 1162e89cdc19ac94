----------------------------- MODULE Wire_proofs -----------------------------
(***************************************************************************)
(* What is decoded is what was encoded, for every number of 32 bits, every *)
(* status and every text; a message that is cut is known to be.            *)
(***************************************************************************)
EXTENDS Wire, SequenceTheorems, WellFoundedInduction, TLAPS

-----------------------------------------------------------------------------
(***************************************************************************)
(* Where bytes stand among others.                                         *)
(***************************************************************************)

\* s stands in bytes, after the first p of them.
At(bytes, p, s) == \A i \in 1 .. Len(s) : bytes[p + i] = s[i]

LEMMA ByteSeq ==
  ASSUME NEW s \in Seq(Byte), NEW t \in Seq(Byte)
  PROVE  s \o t \in Seq(Byte) /\ Len(s \o t) = Len(s) + Len(t) /\ Len(s) \in Nat
  BY ConcatProperties, LenProperties

LEMMA AtConcat ==
  ASSUME NEW bytes, NEW p \in Nat, NEW s \in Seq(Byte), NEW t \in Seq(Byte)
  PROVE  At(bytes, p, s \o t) <=> At(bytes, p, s) /\ At(bytes, p + Len(s), t)
  <1>1. Len(s) \in Nat /\ Len(t) \in Nat /\ Len(s \o t) = Len(s) + Len(t)
    BY ByteSeq
  <1>2. \A i \in 1 .. Len(s) : i \in 1 .. Len(s \o t) /\ (s \o t)[i] = s[i]
    BY <1>1, ConcatProperties
  <1>3. \A i \in 1 .. Len(t) :
          /\ Len(s) + i \in 1 .. Len(s \o t) /\ (s \o t)[Len(s) + i] = t[i]
          /\ p + (Len(s) + i) = (p + Len(s)) + i
    BY <1>1, ConcatProperties
  <1>4. \A i \in 1 .. Len(s \o t) : i \in 1 .. Len(s) \/ \E j \in 1 .. Len(t) : i = Len(s) + j
    <2>1. ASSUME NEW i \in 1 .. Len(s \o t), i \notin 1 .. Len(s)
          PROVE  i - Len(s) \in 1 .. Len(t) /\ i = Len(s) + (i - Len(s))
      BY <1>1, <2>1
    <2> QED BY <2>1
  <1>5. ASSUME At(bytes, p, s \o t) PROVE At(bytes, p, s) /\ At(bytes, p + Len(s), t)
    <2>1. At(bytes, p, s)
      BY <1>2, <1>5, Zenon DEF At
    <2>2. ASSUME NEW i \in 1 .. Len(t) PROVE bytes[(p + Len(s)) + i] = t[i]
      <3>1. bytes[p + (Len(s) + i)] = (s \o t)[Len(s) + i]
        BY <1>3, <1>5, Zenon DEF At
      <3> QED BY <1>3, <3>1, Zenon
    <2> QED BY <2>1, <2>2, Zenon DEF At
  <1>6. ASSUME At(bytes, p, s), At(bytes, p + Len(s), t) PROVE At(bytes, p, s \o t)
    <2> SUFFICES ASSUME NEW i \in 1 .. Len(s \o t) PROVE bytes[p + i] = (s \o t)[i]
      BY Zenon DEF At
    <2>1. CASE i \in 1 .. Len(s)
      BY <1>2, <1>6, <2>1, Zenon DEF At
    <2>2. ASSUME NEW j \in 1 .. Len(t), i = Len(s) + j PROVE bytes[p + i] = (s \o t)[i]
      BY <1>3, <1>6, <2>2, Zenon DEF At
    <2> QED BY <1>4, <2>1, <2>2, Zenon
  <1> QED BY <1>5, <1>6

LEMMA AtSelf ==
  ASSUME NEW s \in Seq(Byte), NEW t \in Seq(Byte)
  PROVE  At(s, 0, s) /\ At(s \o t, 0, s) /\ At(s \o t, Len(s), t)
  <1>1. Len(s) \in Nat /\ s \o t \in Seq(Byte) /\ Len(s \o t) \in Nat
    BY ByteSeq, LenProperties
  <1>2. \A u \in Seq(Byte) : At(u, 0, u)
    <2>1. \A u \in Seq(Byte) : \A i \in 1 .. Len(u) : 0 + i = i
      BY LenProperties
    <2> QED BY <2>1, Zenon DEF At
  <1>3. At(s \o t, 0, s) /\ At(s \o t, 0 + Len(s), t)
    BY <1>1, <1>2, AtConcat
  <1> QED BY <1>1, <1>2, <1>3

\* What stands somewhere can be cut out.
LEMMA CutAt ==
  ASSUME NEW bytes, NEW p \in Nat, NEW s \in Seq(Byte), At(bytes, p, s)
  PROVE  SubSeq(bytes, p + 1, p + Len(s)) = s
  <1> DEFINE n == Len(s)
             u == SubSeq(bytes, p + 1, p + n)
  <1>1. n \in Nat /\ p + 1 \in Int /\ p + n \in Int
    BY LenProperties
  <1>2. \A i \in p + 1 .. p + n : bytes[i] \in Byte
    <2>1. ASSUME NEW i \in p + 1 .. p + n PROVE bytes[i] \in Byte
      <3>1. i - p \in 1 .. n /\ p + (i - p) = i
        BY <1>1
      <3>2. bytes[p + (i - p)] = s[i - p] /\ s[i - p] \in Byte
        BY <3>1, ElementOfSeq DEF At
      <3> QED BY <3>1, <3>2
    <2> QED BY <2>1
  <1>3. /\ u \in Seq(Byte)
        /\ Len(u) = IF p + 1 <= p + n THEN (p + n) - (p + 1) + 1 ELSE 0
        /\ \A i \in 1 .. (p + n) - (p + 1) + 1 : u[i] = bytes[(p + 1) + i - 1]
    <2> HIDE DEF n
    <2> QED BY <1>1, <1>2, SubSeqProperties
  <1> HIDE DEF u
  <1>4. Len(u) = n
    BY <1>1, <1>3
  <1>5. \A i \in 1 .. n : u[i] = s[i]
    <2>1. ASSUME NEW i \in 1 .. n PROVE u[i] = s[i]
      <3>1. i \in 1 .. (p + n) - (p + 1) + 1 /\ (p + 1) + i - 1 = p + i
        BY <1>1
      <3> QED BY <1>3, <3>1 DEF At
    <2> QED BY <2>1
  <1>6. u = s
    BY <1>3, <1>4, <1>5, SeqEqual
  <1> QED BY <1>6 DEF u

-----------------------------------------------------------------------------
(***************************************************************************)
(* Numbers.                                                                *)
(***************************************************************************)
Low(n) == n % 256

Over(n) == n \div 256

LEMMA LowOver ==
  ASSUME NEW n \in Nat
  PROVE  Low(n) \in Byte /\ Over(n) \in Nat /\ n = Low(n) + 256 * Over(n)
  BY DEF Byte, Low, Over

LEMMA OverTwice ==
  ASSUME NEW n \in Nat
  PROVE  n \div 65536 = Over(Over(n)) /\ n \div 16777216 = Over(Over(Over(n)))
  <1>1. n \div 65536 = (n \div 256) \div 256
    BY SMT
  <1>2. n \div 16777216 = (n \div 65536) \div 256
    BY SMT
  <1> QED BY <1>1, <1>2, SMT DEF Over

LEMMA U32BytesDigits ==
  ASSUME NEW n \in Nat
  PROVE  U32Bytes(n) = <<Low(n), Low(Over(n)), Low(Over(Over(n))), Low(Over(Over(Over(n))))>>
  BY OverTwice, SMT DEF U32Bytes, Low, Over

LEMMA U32BytesType ==
  ASSUME NEW n \in Nat
  PROVE  U32Bytes(n) \in Seq(Byte) /\ Len(U32Bytes(n)) = 4
  <1>1. /\ Low(n) \in Byte /\ Low(Over(n)) \in Byte /\ Low(Over(Over(n))) \in Byte
        /\ Low(Over(Over(Over(n)))) \in Byte
    BY LowOver, Zenon
  <1>2. \A a, b, c, d \in Byte : <<a, b, c, d>> \in Seq(Byte) /\ Len(<<a, b, c, d>>) = 4
    OBVIOUS
  <1> QED BY <1>1, <1>2, U32BytesDigits, Zenon

\* The number that the four bytes before are the low bytes of.
High(n) == Over(Over(Over(Over(n))))

LEMMA HighType ==
  ASSUME NEW n \in Nat
  PROVE  High(n) \in Nat
  BY LowOver, Zenon DEF High

LEMMA HighIs ==
  ASSUME NEW n \in Nat
  PROVE  High(n) = (n \div 16777216) \div 256
  <1>2. Over(n \div 16777216) = (n \div 16777216) \div 256
    BY SMT DEF Over
  <1>3. Over(Over(Over(Over(n)))) = Over(n \div 16777216)
    BY OverTwice, SMT
  <1> QED BY <1>2, <1>3, SMT DEF High

LEMMA HighOfU32 ==
  ASSUME NEW n \in Nat
  PROVE  n \in U32 <=> High(n) = 0
  <1>1. PICK m \in Nat : m = n \div 16777216
    BY SMT
  <1>2. n \in U32 <=> m < 256
    BY <1>1, SMT DEF U32
  <1>3. m < 256 <=> m \div 256 = 0
    BY SMT
  <1> QED BY <1>1, <1>2, <1>3, HighIs, SMT

LEMMA HighOfDataLength ==
  ASSUME NEW n \in Nat, n \in DataLength
  PROVE  Over(Over(Over(High(n)))) = 0 /\ High(n) \in U32
  <1>1. PICK h \in Nat : h = High(n)
    BY HighType, Zenon
  <1>2. h < 16777216
    BY <1>1, HighIs, SMT DEF DataLength
  <1>3. h \div 16777216 = 0
    BY <1>2, SMT
  <1>4. h \in U32
    BY <1>3, SMT DEF U32
  <1> QED BY <1>1, <1>3, <1>4, OverTwice, SMT

LEMMA Low4At ==
  ASSUME NEW n \in Nat, NEW bytes, NEW p \in Nat, At(bytes, p, U32Bytes(n))
  PROVE  Low4(bytes, p, High(n)) = n
  <1>1. /\ bytes[p + 1] = Low(n) /\ bytes[p + 2] = Low(Over(n))
        /\ bytes[p + 3] = Low(Over(Over(n))) /\ bytes[p + 4] = Low(Over(Over(Over(n))))
    <2>1. 1 \in 1 .. 4 /\ 2 \in 1 .. 4 /\ 3 \in 1 .. 4 /\ 4 \in 1 .. 4
      OBVIOUS
    <2>2. /\ bytes[p + 1] = U32Bytes(n)[1] /\ bytes[p + 2] = U32Bytes(n)[2]
          /\ bytes[p + 3] = U32Bytes(n)[3] /\ bytes[p + 4] = U32Bytes(n)[4]
      BY <2>1, U32BytesType, Zenon DEF At
    <2>3. /\ U32Bytes(n)[1] = Low(n) /\ U32Bytes(n)[2] = Low(Over(n))
          /\ U32Bytes(n)[3] = Low(Over(Over(n))) /\ U32Bytes(n)[4] = Low(Over(Over(Over(n))))
      BY U32BytesDigits
    <2> QED BY <2>2, <2>3, Zenon
  <1>2. PICK a \in Nat : a = Over(n)
    BY LowOver, Zenon
  <1>3. PICK b \in Nat : b = Over(a)
    BY LowOver, Zenon
  <1>4. PICK c \in Nat : c = Over(b)
    BY LowOver, Zenon
  <1>5. PICK d \in Nat : d = Over(c) /\ d = High(n)
    BY <1>2, <1>3, <1>4, LowOver, Zenon DEF High
  <1>6. /\ Low(n) \in Nat /\ Low(a) \in Nat /\ Low(b) \in Nat /\ Low(c) \in Nat
        /\ n = Low(n) + 256 * a /\ a = Low(a) + 256 * b
        /\ b = Low(b) + 256 * c /\ c = Low(c) + 256 * d
    <2>1. \A m \in Nat : Low(m) \in Nat /\ m = Low(m) + 256 * Over(m)
      <3>1. Byte \subseteq Nat
        BY DEF Byte
      <3> QED BY <3>1, LowOver, Zenon
    <2>2. Low(n) \in Nat /\ n = Low(n) + 256 * a
      BY <1>2, <2>1, SMT
    <2>3. Low(a) \in Nat /\ a = Low(a) + 256 * b
      BY <1>3, <2>1, SMT
    <2>4. Low(b) \in Nat /\ b = Low(b) + 256 * c
      BY <1>4, <2>1, SMT
    <2>5. Low(c) \in Nat /\ c = Low(c) + 256 * d
      BY <1>5, <2>1, Zenon
    <2> QED BY <2>2, <2>3, <2>4, <2>5, Zenon
  <1>7. n = Low(n) + 256 * (Low(a) + 256 * (Low(b) + 256 * (Low(c) + 256 * d)))
    BY <1>6
  <1>8. Low4(bytes, p, High(n))
          = Low(n) + 256 * (Low(a) + 256 * (Low(b) + 256 * (Low(c) + 256 * d)))
    BY <1>1, <1>2, <1>3, <1>4, <1>5, SMT DEF Low4
  <1> QED BY <1>7, <1>8, Zenon

LEMMA Parse4At ==
  ASSUME NEW n \in U32, NEW bytes, NEW p \in Nat, At(bytes, p, U32Bytes(n))
  PROVE  Parse4Bytes(bytes, p) = n
  <1>1. n \in Nat
    BY DEF U32
  <1>2. High(n) = 0
    BY <1>1, HighOfU32, Zenon
  <1> QED BY <1>1, <1>2, Low4At, Zenon DEF Parse4Bytes

\* The last byte, which is not written, is zero.
LEMMA DataLenBytes ==
  ASSUME NEW n \in DataLength
  PROVE  n \in Nat /\ High(n) \in U32 /\ DataLen(n) = U32Bytes(n) \o U32Bytes(High(n))
  <1>1. n \in Nat
    BY SMT DEF DataLength
  <1>2. PICK h \in Nat : h = High(n)
    BY <1>1, HighType, Zenon
  <1> DEFINE v == U32Bytes(h)
             w == [v EXCEPT ![4] = 0]
  <1>3. v[4] = 0
    <2>1. v[4] = Low(Over(Over(Over(h))))
      BY U32BytesDigits
    <2>2. Low(0) = 0
      BY DEF Low
    <2> QED BY <1>1, <1>2, <2>1, <2>2, HighOfDataLength, Zenon
  <1>4. v \in Seq(Byte) /\ Len(v) = 4
    BY U32BytesType, Zenon
  <1> HIDE DEF v
  <1>5. w = v
    <2>1. v \in [1 .. 4 -> Byte]
      BY <1>4, LenProperties, Zenon
    <2> QED BY <1>3, <2>1
  <1>6. DataLen(n) = U32Bytes(n) \o w
    <2>1. h = (n \div 16777216) \div 256
      BY <1>1, <1>2, HighIs, SMT
    <2> HIDE DEF w
    <2>2. DataLen(n) = U32Bytes(n) \o [U32Bytes(h) EXCEPT ![4] = 0]
      BY <2>1, SMT DEF DataLen
    <2> QED BY <2>2, Zenon DEF w, v
  <1> QED BY <1>1, <1>2, <1>5, <1>6, HighOfDataLength, Zenon DEF v

LEMMA DataLenType ==
  ASSUME NEW n \in DataLength
  PROVE  DataLen(n) \in Seq(Byte) /\ Len(DataLen(n)) = 8
  <1>1. PICK u \in Seq(Byte), v \in Seq(Byte) : DataLen(n) = u \o v /\ Len(u) = 4 /\ Len(v) = 4
    <2>1. n \in Nat /\ High(n) \in Nat
      BY DataLenBytes, HighType, Zenon
    <2> QED BY <2>1, DataLenBytes, U32BytesType, Zenon
  <1>2. DataLen(n) \in Seq(Byte) /\ Len(DataLen(n)) = 4 + 4
    BY <1>1, ByteSeq, Zenon
  <1> QED BY <1>2

LEMMA Parse8At ==
  ASSUME NEW n \in DataLength, NEW bytes, NEW p \in Nat, At(bytes, p, DataLen(n))
  PROVE  Parse8Bytes(bytes, p) = n
  <1>1. PICK h \in U32 : h = High(n)
    BY DataLenBytes, Zenon
  <1>2. n \in Nat /\ h \in Nat /\ p + 4 \in Nat
    BY DataLenBytes, SMT DEF U32
  <1>3. /\ U32Bytes(n) \in Seq(Byte) /\ Len(U32Bytes(n)) = 4
        /\ U32Bytes(h) \in Seq(Byte)
    BY <1>2, U32BytesType, Zenon
  <1>4. At(bytes, p, U32Bytes(n) \o U32Bytes(h))
    BY <1>1, DataLenBytes, Zenon
  <1>5. At(bytes, p, U32Bytes(n)) /\ At(bytes, p + 4, U32Bytes(h))
    BY <1>3, <1>4, AtConcat, Zenon
  <1>6. Parse4Bytes(bytes, p + 4) = h
    BY <1>2, <1>5, Parse4At, Zenon
  <1>7. Low4(bytes, p, h) = n
    BY <1>1, <1>2, <1>5, Low4At, Zenon
  <1> QED BY <1>6, <1>7, Zenon DEF Parse8Bytes

-----------------------------------------------------------------------------
(***************************************************************************)
(* Requests.                                                               *)
(***************************************************************************)
LEMMA BitIsSet ==
  ASSUME NEW k \in 1 .. 8, NEW j \in 1 .. 8
  PROVE  Bit[k] \in Byte /\ (IsSet(Bit[k], j) <=> j = k)
  <1>1. /\ Bit[1] = 1 /\ Bit[2] = 2 /\ Bit[3] = 4 /\ Bit[4] = 8
        /\ Bit[5] = 16 /\ Bit[6] = 32 /\ Bit[7] = 64 /\ Bit[8] = 128
    BY DEF Bit
  <1>2. /\ k = 1 \/ k = 2 \/ k = 3 \/ k = 4 \/ k = 5 \/ k = 6 \/ k = 7 \/ k = 8
        /\ j = 1 \/ j = 2 \/ j = 3 \/ j = 4 \/ j = 5 \/ j = 6 \/ j = 7 \/ j = 8
    OBVIOUS
  <1>3. Bit[k] \in Byte
    BY <1>1, <1>2 DEF Byte
  <1>4. PICK n \in Nat : n = Bit[k]
    BY <1>3 DEF Byte
  <1>5. /\ (n = 1 <=> k = 1) /\ (n = 2 <=> k = 2) /\ (n = 4 <=> k = 3) /\ (n = 8 <=> k = 4)
        /\ (n = 16 <=> k = 5) /\ (n = 32 <=> k = 6) /\ (n = 64 <=> k = 7) /\ (n = 128 <=> k = 8)
    BY <1>1, <1>2, <1>4
  <1>6. /\ ((n \div 1) % 2 = 1 <=> n = 1) /\ ((n \div 2) % 2 = 1 <=> n = 2)
        /\ ((n \div 4) % 2 = 1 <=> n = 4) /\ ((n \div 8) % 2 = 1 <=> n = 8)
        /\ ((n \div 16) % 2 = 1 <=> n = 16) /\ ((n \div 32) % 2 = 1 <=> n = 32)
        /\ ((n \div 64) % 2 = 1 <=> n = 64) /\ ((n \div 128) % 2 = 1 <=> n = 128)
    BY <1>2, <1>5, SMT
  <1>7. (n \div Bit[j]) % 2 = 1 <=> k = j
    <2>1. CASE j = 1
      BY <1>1, <1>5, <1>6, <2>1, Zenon
    <2>2. CASE j = 2
      BY <1>1, <1>5, <1>6, <2>2, Zenon
    <2>3. CASE j = 3
      BY <1>1, <1>5, <1>6, <2>3, Zenon
    <2>4. CASE j = 4
      BY <1>1, <1>5, <1>6, <2>4, Zenon
    <2>5. CASE j = 5
      BY <1>1, <1>5, <1>6, <2>5, Zenon
    <2>6. CASE j = 6
      BY <1>1, <1>5, <1>6, <2>6, Zenon
    <2>7. CASE j = 7
      BY <1>1, <1>5, <1>6, <2>7, Zenon
    <2>8. CASE j = 8
      BY <1>1, <1>5, <1>6, <2>8, Zenon
    <2> QED BY <1>2, <2>1, <2>2, <2>3, <2>4, <2>5, <2>6, <2>7, <2>8, Zenon
  <1> QED BY <1>3, <1>4, <1>7, Zenon DEF IsSet

LEMMA OpsOfBit ==
  ASSUME NEW k \in 1 .. 8
  PROVE  OpsOf(Bit[k]) = {Ops[k]}
  <1>1. {j \in 1 .. 8 : IsSet(Bit[k], j) /\ \A i \in 1 .. j - 1 : ~IsSet(Bit[k], i)} = {k}
    <2>1. \A i \in 1 .. k - 1 : i \in 1 .. 8 /\ i # k
      OBVIOUS
    <2> QED BY <2>1, BitIsSet, Zenon
  <1> QED BY <1>1, Zenon DEF OpsOf

LEMMA RequestTagType ==
  ASSUME NEW k \in 1 .. 8, NEW a \in U32, NEW b \in U32, NEW c \in U32
  PROVE  RequestTag(k, a, b, c) \in Seq(Byte) /\ Len(RequestTag(k, a, b, c)) = 13
  <1>1. Bit[k] \in Byte
    BY BitIsSet
  <1>2. <<Bit[k]>> \in Seq(Byte) /\ Len(<<Bit[k]>>) = 1
    BY <1>1
  <1>3. \A n \in U32 : U32Bytes(n) \in Seq(Byte) /\ Len(U32Bytes(n)) = 4
    BY U32BytesType, SMT DEF U32
  <1>4. /\ <<Bit[k]>> \o U32Bytes(a) \in Seq(Byte)
        /\ Len(<<Bit[k]>> \o U32Bytes(a)) = 1 + 4
    BY <1>2, <1>3, ByteSeq, Zenon
  <1>5. /\ <<Bit[k]>> \o U32Bytes(a) \o U32Bytes(b) \in Seq(Byte)
        /\ Len(<<Bit[k]>> \o U32Bytes(a) \o U32Bytes(b)) = 1 + 4 + 4
    BY <1>3, <1>4, ByteSeq, Zenon
  <1>6. /\ RequestTag(k, a, b, c) \in Seq(Byte)
        /\ Len(RequestTag(k, a, b, c)) = 1 + 4 + 4 + 4
    BY <1>3, <1>5, ByteSeq, Zenon DEF RequestTag
  <1> QED BY <1>6

\* The bit and the fields that are read of a tag.
Parsed(bytes, k, a, b, c) ==
  /\ OpsOf(bytes[1]) = {Ops[k]}
  /\ Parse4Bytes(bytes, 1) = a /\ Parse4Bytes(bytes, 5) = b /\ Parse4Bytes(bytes, 9) = c
  /\ bytes[6] = Low(b) /\ bytes[10] = Low(c)

\* They are what the tag was made of, wherever the bytes go on.
LEMMA RequestTagParsed ==
  ASSUME NEW k \in 1 .. 8, NEW a \in U32, NEW b \in U32, NEW c \in U32, NEW bytes,
         At(bytes, 0, RequestTag(k, a, b, c))
  PROVE  Parsed(bytes, k, a, b, c)
  <1> DEFINE first == <<Bit[k]>>
             A == U32Bytes(a)
             B == U32Bytes(b)
             C == U32Bytes(c)
  <1>1. first \in Seq(Byte) /\ Len(first) = 1 /\ first[1] = Bit[k]
    BY BitIsSet
  <1>2. \A n \in U32 : n \in Nat /\ U32Bytes(n) \in Seq(Byte) /\ Len(U32Bytes(n)) = 4
    BY U32BytesType, SMT DEF U32
  <1>3. \A n \in U32 : U32Bytes(n)[1] = Low(n)
    BY <1>2, U32BytesDigits
  <1>4. A \in Seq(Byte) /\ B \in Seq(Byte) /\ C \in Seq(Byte) /\ Len(A) = 4 /\ Len(B) = 4 /\ Len(C) = 4
    BY <1>2
  <1>5. At(bytes, 0, ((first \o A) \o B) \o C)
    BY Zenon DEF RequestTag
  <1> HIDE DEF first, A, B, C
  <1>6. /\ At(bytes, 0, first) /\ At(bytes, 1, A)
        /\ At(bytes, 5, B) /\ At(bytes, 9, C)
    <2>0. 1 + 4 = 5 /\ 5 + 4 = 9
      OBVIOUS
    <2>1. first \o A \in Seq(Byte) /\ Len(first \o A) = 5
      BY <1>1, <1>4, <2>0, ByteSeq, Zenon
    <2>2. (first \o A) \o B \in Seq(Byte) /\ Len((first \o A) \o B) = 9
      BY <1>4, <2>0, <2>1, ByteSeq, Zenon
    <2>3. At(bytes, 0, (first \o A) \o B) /\ At(bytes, 0 + 9, C)
      BY <1>4, <1>5, <2>2, AtConcat
    <2>4. At(bytes, 0, first \o A) /\ At(bytes, 0 + 5, B)
      BY <1>4, <2>1, <2>3, AtConcat
    <2>5. At(bytes, 0, first) /\ At(bytes, 0 + 1, A)
      BY <1>1, <1>4, <2>4, AtConcat
    <2> QED BY <2>3, <2>4, <2>5
  <1>7. bytes[1] = Bit[k]
    <2>1. bytes[0 + 1] = first[1]
      BY <1>1, <1>6 DEF At
    <2> QED BY <1>1, <2>1
  <1>8. bytes[6] = Low(b) /\ bytes[10] = Low(c)
    <2>1. bytes[5 + 1] = B[1] /\ bytes[9 + 1] = C[1]
      BY <1>4, <1>6 DEF At
    <2> QED BY <1>3, <2>1 DEF B, C
  <1>9. /\ Parse4Bytes(bytes, 1) = a /\ Parse4Bytes(bytes, 5) = b
        /\ Parse4Bytes(bytes, 9) = c
    <2>1. 1 \in Nat /\ 5 \in Nat /\ 9 \in Nat
      OBVIOUS
    <2> QED BY <1>6, <2>1, Parse4At, Zenon DEF A, B, C
  <1> QED BY <1>7, <1>8, <1>9, OpsOfBit DEF Parsed

LEMMA StatusByteDecodes ==
  ASSUME NEW st \in Status
  PROVE  /\ StatusByte[st] \in U32 /\ StatusByte[st] \in Byte
         /\ Low(StatusByte[st]) = StatusByte[st]
         /\ StatusTryFrom(StatusByte[st]) = {st}
  <1>1. /\ \/ st = "Open"
           \/ st = "InProgress"
           \/ st = "Resolved"
           \/ st = "Closed"
        /\ StatusByte["Open"] = 0 /\ StatusByte["InProgress"] = 1
        /\ StatusByte["Resolved"] = 2 /\ StatusByte["Closed"] = 3
    BY DEF Status, StatusByte
  <1>2. \A n \in 0 .. 3 : n \in U32 /\ n \in Byte /\ n % 256 = n
    BY SMT DEF U32, Byte
  <1>3. StatusByte[st] \in 0 .. 3
    BY <1>1
  <1>4. StatusTryFrom(StatusByte[st]) = {st}
    BY <1>1 DEF StatusTryFrom, Status, StatusByte
  <1> QED BY <1>2, <1>3, <1>4, Zenon DEF Low

LEMMA NoText ==
  /\ <<>> \in Text /\ Len(<<>>) = 0 /\ 0 \in U32
  /\ \A bytes : SubSeq(bytes, 14, 13) = <<>>
  <1>1. <<>> \in Seq(Byte) /\ Len(<<>>) = 0
    BY EmptySeq
  <1>2. 0 \in U32
    BY SMT DEF U32
  <1>3. FromUtf8(<<>>)
    BY DEF FromUtf8
  <1>4. \A bytes : SubSeq(bytes, 14, 13) = <<>>
    BY SubSeqEmpty
  <1> QED BY <1>1, <1>2, <1>3, <1>4, Zenon DEF Text

LEMMA OpsAre ==
  /\ Ops[1] = "AddEpic" /\ Ops[2] = "DeleteEpic" /\ Ops[3] = "GetEpic"
  /\ Ops[4] = "UpdateEpicStatus" /\ Ops[5] = "GetStory" /\ Ops[6] = "AddStory"
  /\ Ops[7] = "DeleteStory" /\ Ops[8] = "UpdateStoryStatus"
  BY DEF Ops

\* What try_create makes of a tag with one bit and of two texts.
Made(op, tag, name, description) ==
  LET epic  == Parse4Bytes(tag, 1)
      story == Parse4Bytes(tag, 5)
  IN  CASE op = "AddEpic" -> {[op |-> op, name |-> name, description |-> description]}
        [] op \in {"DeleteEpic", "GetEpic"} -> {[op |-> op, epic |-> epic]}
        [] op = "UpdateEpicStatus" ->
             {[op |-> op, epic |-> epic, status |-> st] : st \in StatusTryFrom(tag[6])}
        [] op \in {"GetStory", "DeleteStory"} -> {[op |-> op, epic |-> epic, story |-> story]}
        [] op = "AddStory" ->
             {[op |-> op, epic |-> epic, name |-> name, description |-> description]}
        [] op = "UpdateStoryStatus" ->
             {[op |-> op, epic |-> epic, story |-> story, status |-> st] :
                st \in StatusTryFrom(tag[10])}

LEMMA TryCreateOf ==
  ASSUME NEW op, NEW tag, OpsOf(tag[1]) = {op}, NEW name \in Text, NEW description \in Text
  PROVE  TryCreate(tag, name, description) = Made(op, tag, name, description)
  <1>1. FromUtf8(name) /\ FromUtf8(description)
    BY DEF Text
  <1>2. TryCreate(tag, name, description)
          = UNION {Made(o, tag, name, description) : o \in {op}}
    BY <1>1, Zenon DEF TryCreate, Made
  <1> QED BY <1>2, Zenon

\* The lengths of the texts are in the tag.
LEMMA SameTagSameLengths ==
  ASSUME NEW x, NEW y, \A i \in 1 .. 13 : x[i] = y[i]
  PROVE  TextLengths(x) = TextLengths(y) /\ RequestSize(x) = RequestSize(y)
  <1>1. x[1] = y[1]
    OBVIOUS
  <1>2. \A p \in {1, 5, 9} : Parse4Bytes(x, p) = Parse4Bytes(y, p)
    <2>1. \A p \in {1, 5, 9} : x[p + 1] = y[p + 1] /\ x[p + 2] = y[p + 2]
                               /\ x[p + 3] = y[p + 3] /\ x[p + 4] = y[p + 4]
      OBVIOUS
    <2>2. \A p : x[p + 1] = y[p + 1] /\ x[p + 2] = y[p + 2]
                 /\ x[p + 3] = y[p + 3] /\ x[p + 4] = y[p + 4]
                 => Parse4Bytes(x, p) = Parse4Bytes(y, p)
      BY Zenon DEF Parse4Bytes, Low4
    <2> QED BY <2>1, <2>2, Zenon
  <1>3. TextLengths(x) = TextLengths(y)
    BY <1>1, <1>2, Zenon DEF TextLengths
  <1> QED BY <1>3, Zenon DEF RequestSize

\* All that bytes hold is a tag and the texts that it tells of.
Holds(bytes, k, a, b, c, name, description) ==
  /\ bytes \in Seq(Byte) /\ Len(bytes) >= 13
  /\ RequestSize(bytes) = Len(bytes)
  /\ RequestEvents(bytes) = TryCreate(bytes, name, description)
  /\ Parsed(bytes, k, a, b, c)

\* A tag without texts.
LEMMA TagAlone ==
  ASSUME NEW k \in 1 .. 8, k # 1, k # 6, NEW a \in U32, NEW b \in U32, NEW c \in U32,
         NEW bytes, bytes = RequestTag(k, a, b, c)
  PROVE  Holds(bytes, k, a, b, c, <<>>, <<>>)
  <1>1. bytes \in Seq(Byte) /\ Len(bytes) = 13
    BY RequestTagType, Zenon
  <1>8. Parsed(bytes, k, a, b, c)
    <2>1. At(bytes, 0, RequestTag(k, a, b, c))
      BY <1>1, AtSelf, Zenon
    <2> QED BY <2>1, RequestTagParsed, Zenon
  <1>2. OpsOf(bytes[1]) = {Ops[k]}
    BY <1>8, Zenon DEF Parsed
  <1>3. Ops[k] # "AddEpic" /\ Ops[k] # "AddStory"
    BY OpsAre
  <1>4. TextLengths(bytes) = <<0, 0>>
    BY <1>2, <1>3, Zenon DEF TextLengths
  <1>5. TextLengths(bytes)[1] = 0 /\ TextLengths(bytes)[2] = 0 /\ 13 + 0 = 13 /\ 13 + 1 = 14
    BY <1>4
  <1>6. RequestSize(bytes) = 13
    BY <1>5, Zenon DEF RequestSize
  <1>7. RequestEvents(bytes) = TryCreate(bytes, <<>>, <<>>)
    BY <1>5, <1>6, NoText, Zenon DEF RequestEvents
  <1>9. 13 >= 13
    OBVIOUS
  <1> QED BY <1>1, <1>6, <1>7, <1>8, <1>9, Zenon DEF Holds

\* A tag with the lengths of the texts after it.
LEMMA TagAndTexts ==
  ASSUME NEW k \in 1 .. 8, k = 1 \/ k = 6, NEW a \in U32, NEW b \in U32, NEW c \in U32,
         NEW name \in Text, NEW description \in Text,
         k = 1 => a = Len(name) /\ b = Len(description),
         k = 6 => b = Len(name) /\ c = Len(description),
         NEW bytes, bytes = RequestTag(k, a, b, c) \o name \o description
  PROVE  Holds(bytes, k, a, b, c, name, description)
  <1> DEFINE tag == RequestTag(k, a, b, c)
             front == tag \o name
  <1>2. tag \in Seq(Byte) /\ Len(tag) = 13 /\ name \in Seq(Byte) /\ description \in Seq(Byte)
    BY RequestTagType, Zenon DEF Text
  <1> HIDE DEF tag
  <1>3. front \in Seq(Byte) /\ Len(front) = 13 + Len(name) /\ Len(name) \in Nat
    BY <1>2, ByteSeq, Zenon
  <1> HIDE DEF front
  <1>4. /\ bytes = front \o description /\ bytes \in Seq(Byte)
        /\ Len(bytes) = Len(front) + Len(description) /\ Len(description) \in Nat
    BY <1>2, <1>3, ByteSeq, Zenon DEF front, tag
  <1>5. At(bytes, 0, front) /\ At(bytes, Len(front), description)
    BY <1>2, <1>3, <1>4, AtSelf, Zenon
  <1>6. At(bytes, 0, tag) /\ At(bytes, 0 + Len(tag), name)
    <2>1. 0 \in Nat
      OBVIOUS
    <2> QED BY <1>2, <1>5, <2>1, AtConcat, Zenon DEF front
  <1>14. Parsed(bytes, k, a, b, c)
    <2>1. At(bytes, 0, RequestTag(k, a, b, c))
      BY <1>6, Zenon DEF tag
    <2> QED BY <2>1, RequestTagParsed, Zenon
  <1>7. TextLengths(bytes) = <<Len(name), Len(description)>>
    <2>1. /\ OpsOf(bytes[1]) = {Ops[k]}
          /\ Parse4Bytes(bytes, 1) = a /\ Parse4Bytes(bytes, 5) = b /\ Parse4Bytes(bytes, 9) = c
      BY <1>14, Zenon DEF Parsed
    <2>2. CASE k = 1
      BY <2>1, <2>2, OpsAre, Zenon DEF TextLengths
    <2>3. CASE k = 6
      <3>1. {Ops[k]} # {"AddEpic"} /\ {Ops[k]} = {"AddStory"} /\ k # 1
        BY <2>3, OpsAre
      <3> QED BY <2>1, <3>1, Zenon DEF TextLengths
    <2> QED BY <2>2, <2>3
  <1>8. TextLengths(bytes)[1] = Len(name) /\ TextLengths(bytes)[2] = Len(description)
    BY <1>7
  <1>9. RequestSize(bytes) = Len(bytes)
    BY <1>3, <1>4, <1>8, Zenon DEF RequestSize
  <1>10. SubSeq(bytes, 14, 13 + Len(name)) = name
    <2>1. 13 \in Nat /\ 13 + 1 = 14 /\ 0 + 13 = 13
      OBVIOUS
    <2>2. SubSeq(bytes, 13 + 1, 13 + Len(name)) = name
      BY <1>2, <1>6, <2>1, CutAt, Zenon
    <2> QED BY <2>1, <2>2, Zenon
  <1>11. SubSeq(bytes, 13 + Len(name) + 1, Len(bytes)) = description
    <2>1. Len(front) \in Nat
      BY <1>3
    <2>2. SubSeq(bytes, Len(front) + 1, Len(front) + Len(description)) = description
      BY <1>2, <1>5, <2>1, CutAt, Zenon
    <2> QED BY <1>3, <1>4, <2>2, Zenon
  <1>12. RequestEvents(bytes) = TryCreate(bytes, name, description)
    BY <1>8, <1>9, <1>10, <1>11, Zenon DEF RequestEvents
  <1>13. Len(bytes) >= 13
    BY <1>3, <1>4
  <1> QED BY <1>4, <1>9, <1>12, <1>13, <1>14, Zenon DEF Holds

\* Whatever a client asks, exactly its bytes are read, and exactly it is made of
\* them: requests are neither confused nor run into the next one.
THEOREM RequestsRoundTrip ==
  ASSUME NEW r \in Parseable, NEW bytes, bytes = RequestBytes(r)
  PROVE  /\ bytes \in Seq(Byte) /\ Len(bytes) >= 13
         /\ RequestSize(bytes) = Len(bytes)
         /\ RequestEvents(bytes) = {r}
  <1>1. CASE r \in [op : {"AddEpic"}, name : Text, description : Text]
    <2>1. /\ r.op = "AddEpic" /\ r.name \in Text /\ r.description \in Text
          /\ r = [op |-> r.op, name |-> r.name, description |-> r.description]
      BY <1>1
    <2>2. /\ Len(r.name) \in U32 /\ Len(r.description) \in U32 /\ 0 \in U32
      BY <2>1, NoText, Zenon DEF Text
    <2>3. bytes = RequestTag(1, Len(r.name), Len(r.description), 0) \o r.name \o r.description
      BY <2>1, Zenon DEF RequestBytes, AddEpicTag
    <2>4. 1 \in 1 .. 8 /\ 1 # 6
      OBVIOUS
    <2>5. Holds(bytes, 1, Len(r.name), Len(r.description), 0, r.name, r.description)
      BY <2>1, <2>2, <2>3, <2>4, TagAndTexts, Zenon
    <2>6. OpsOf(bytes[1]) = {r.op}
      BY <2>1, <2>5, OpsAre, Zenon DEF Holds, Parsed
    <2>7. TryCreate(bytes, r.name, r.description) = Made(r.op, bytes, r.name, r.description)
      BY <2>1, <2>6, TryCreateOf, Zenon
    <2>8. Made(r.op, bytes, r.name, r.description) = {r}
      BY <2>1, Zenon DEF Made
    <2> QED BY <2>5, <2>7, <2>8, Zenon DEF Holds
  <1>2. CASE r \in [op : {"DeleteEpic", "GetEpic"}, epic : U32]
    <2>1. /\ r.op = "DeleteEpic" \/ r.op = "GetEpic"
          /\ r.epic \in U32 /\ 0 \in U32
          /\ r = [op |-> r.op, epic |-> r.epic]
      BY <1>2, NoText
    <2>2. PICK k \in 1 .. 8 :
            k # 1 /\ k # 6 /\ Ops[k] = r.op /\ bytes = RequestTag(k, r.epic, 0, 0)
      <3>1. \A k \in {2, 3} : k \in 1 .. 8 /\ k # 1 /\ k # 6
        OBVIOUS
      <3>2. CASE r.op = "DeleteEpic"
        BY <3>1, <3>2, OpsAre, Zenon DEF RequestBytes, DeleteEpicTag
      <3>3. CASE r.op = "GetEpic"
        BY <3>1, <3>3, OpsAre, Zenon DEF RequestBytes, GetEpicTag
      <3> QED BY <2>1, <3>2, <3>3, Zenon
    <2>5. Holds(bytes, k, r.epic, 0, 0, <<>>, <<>>)
      BY <2>1, <2>2, TagAlone, Zenon
    <2>6. OpsOf(bytes[1]) = {r.op}
      BY <2>2, <2>5, Zenon DEF Holds, Parsed
    <2>7. TryCreate(bytes, <<>>, <<>>) = Made(r.op, bytes, <<>>, <<>>)
      BY <2>6, TryCreateOf, NoText, Zenon
    <2>8. Made(r.op, bytes, <<>>, <<>>) = {r}
      BY <2>1, <2>5, Zenon DEF Made, Holds, Parsed
    <2> QED BY <2>5, <2>7, <2>8, Zenon DEF Holds
  <1>3. CASE r \in [op : {"UpdateEpicStatus"}, epic : U32, status : Status]
    <2>1. /\ r.op = "UpdateEpicStatus" /\ r.epic \in U32 /\ 0 \in U32
          /\ r.status \in Status
          /\ r = [op |-> r.op, epic |-> r.epic, status |-> r.status]
      BY <1>3, NoText
    <2>2. bytes = RequestTag(4, r.epic, StatusByte[r.status], 0)
      BY <2>1, Zenon DEF RequestBytes, UpdateEpicStatusTag
    <2>3. 4 \in 1 .. 8 /\ 4 # 1 /\ 4 # 6
      OBVIOUS
    <2>5. Holds(bytes, 4, r.epic, StatusByte[r.status], 0, <<>>, <<>>)
      BY <2>1, <2>2, <2>3, StatusByteDecodes, TagAlone, Zenon
    <2>6. OpsOf(bytes[1]) = {r.op}
      BY <2>1, <2>5, OpsAre, Zenon DEF Holds, Parsed
    <2>7. TryCreate(bytes, <<>>, <<>>) = Made(r.op, bytes, <<>>, <<>>)
      BY <2>6, TryCreateOf, NoText, Zenon
    <2>8. StatusTryFrom(bytes[6]) = {r.status}
      BY <2>1, <2>5, StatusByteDecodes, Zenon DEF Holds, Parsed
    <2>9. Made(r.op, bytes, <<>>, <<>>) = {r}
      BY <2>1, <2>5, <2>8, Zenon DEF Made, Holds, Parsed
    <2> QED BY <2>5, <2>7, <2>9, Zenon DEF Holds
  <1>4. CASE r \in [op : {"GetStory", "DeleteStory"}, epic : U32, story : U32]
    <2>1. /\ r.op = "GetStory" \/ r.op = "DeleteStory"
          /\ r.epic \in U32 /\ r.story \in U32 /\ 0 \in U32
          /\ r = [op |-> r.op, epic |-> r.epic, story |-> r.story]
      BY <1>4, NoText
    <2>2. PICK k \in 1 .. 8 :
            k # 1 /\ k # 6 /\ Ops[k] = r.op /\ bytes = RequestTag(k, r.epic, r.story, 0)
      <3>1. \A k \in {5, 7} : k \in 1 .. 8 /\ k # 1 /\ k # 6
        OBVIOUS
      <3>2. CASE r.op = "GetStory"
        BY <3>1, <3>2, OpsAre, Zenon DEF RequestBytes, GetStoryTag
      <3>3. CASE r.op = "DeleteStory"
        BY <3>1, <3>3, OpsAre, Zenon DEF RequestBytes, DeleteStoryTag
      <3> QED BY <2>1, <3>2, <3>3, Zenon
    <2>5. Holds(bytes, k, r.epic, r.story, 0, <<>>, <<>>)
      BY <2>1, <2>2, TagAlone, Zenon
    <2>6. OpsOf(bytes[1]) = {r.op}
      BY <2>2, <2>5, Zenon DEF Holds, Parsed
    <2>7. TryCreate(bytes, <<>>, <<>>) = Made(r.op, bytes, <<>>, <<>>)
      BY <2>6, TryCreateOf, NoText, Zenon
    <2>8. Made(r.op, bytes, <<>>, <<>>) = {r}
      BY <2>1, <2>5, Zenon DEF Made, Holds, Parsed
    <2> QED BY <2>5, <2>7, <2>8, Zenon DEF Holds
  <1>5. CASE r \in [op : {"AddStory"}, epic : U32, name : Text, description : Text]
    <2>1. /\ r.op = "AddStory" /\ r.epic \in U32 /\ r.name \in Text /\ r.description \in Text
          /\ r = [op |-> r.op, epic |-> r.epic, name |-> r.name, description |-> r.description]
      BY <1>5
    <2>2. /\ Len(r.name) \in U32 /\ Len(r.description) \in U32
      BY <2>1, Zenon DEF Text
    <2>3. bytes = RequestTag(6, r.epic, Len(r.name), Len(r.description)) \o r.name \o r.description
      BY <2>1, Zenon DEF RequestBytes, AddStoryTag
    <2>4. 6 \in 1 .. 8 /\ 6 # 1
      OBVIOUS
    <2>5. Holds(bytes, 6, r.epic, Len(r.name), Len(r.description), r.name, r.description)
      BY <2>1, <2>2, <2>3, <2>4, TagAndTexts, Zenon
    <2>6. OpsOf(bytes[1]) = {r.op}
      BY <2>1, <2>5, OpsAre, Zenon DEF Holds, Parsed
    <2>7. TryCreate(bytes, r.name, r.description) = Made(r.op, bytes, r.name, r.description)
      BY <2>1, <2>6, TryCreateOf, Zenon
    <2>8. Made(r.op, bytes, r.name, r.description) = {r}
      BY <2>1, <2>5, Zenon DEF Made, Holds, Parsed
    <2> QED BY <2>5, <2>7, <2>8, Zenon DEF Holds
  <1>6. CASE r \in [op : {"UpdateStoryStatus"}, epic : U32, story : U32, status : Status]
    <2>1. /\ r.op = "UpdateStoryStatus" /\ r.epic \in U32 /\ r.story \in U32 /\ 0 \in U32
          /\ r.status \in Status
          /\ r = [op |-> r.op, epic |-> r.epic, story |-> r.story, status |-> r.status]
      BY <1>6, NoText
    <2>2. bytes = RequestTag(8, r.epic, r.story, StatusByte[r.status])
      BY <2>1, Zenon DEF RequestBytes, UpdateStoryStatusTag
    <2>3. 8 \in 1 .. 8 /\ 8 # 1 /\ 8 # 6
      OBVIOUS
    <2>5. Holds(bytes, 8, r.epic, r.story, StatusByte[r.status], <<>>, <<>>)
      BY <2>1, <2>2, <2>3, StatusByteDecodes, TagAlone, Zenon
    <2>6. OpsOf(bytes[1]) = {r.op}
      BY <2>1, <2>5, OpsAre, Zenon DEF Holds, Parsed
    <2>7. TryCreate(bytes, <<>>, <<>>) = Made(r.op, bytes, <<>>, <<>>)
      BY <2>6, TryCreateOf, NoText, Zenon
    <2>8. StatusTryFrom(bytes[10]) = {r.status}
      BY <2>1, <2>5, StatusByteDecodes, Zenon DEF Holds, Parsed
    <2>9. Made(r.op, bytes, <<>>, <<>>) = {r}
      BY <2>1, <2>5, <2>8, Zenon DEF Made, Holds, Parsed
    <2> QED BY <2>5, <2>7, <2>9, Zenon DEF Holds
  <1> QED BY <1>1, <1>2, <1>3, <1>4, <1>5, <1>6, Zenon DEF Parseable

-----------------------------------------------------------------------------
(***************************************************************************)
(* Responses.                                                              *)
(***************************************************************************)
LEMMA BitsAre ==
  /\ Bit[1] = 1 /\ Bit[2] = 2 /\ Bit[3] = 4 /\ Bit[4] = 8
  /\ Bit[5] = 16 /\ Bit[6] = 32 /\ Bit[7] = 64 /\ Bit[8] = 128
  BY DEF Bit

LEMMA NoneIsSet ==
  ASSUME NEW j \in 1 .. 8
  PROVE  ~IsSet(0, j)
  <1>1. \/ Bit[j] = 1 \/ Bit[j] = 2 \/ Bit[j] = 4 \/ Bit[j] = 8
        \/ Bit[j] = 16 \/ Bit[j] = 32 \/ Bit[j] = 64 \/ Bit[j] = 128
    BY BitsAre
  <1>2. \A d \in 1 .. 128 : (0 \div d) % 2 = 0
    OBVIOUS
  <1>3. Bit[j] \in 1 .. 128
    BY <1>1
  <1> QED BY <1>2, <1>3 DEF IsSet

\* The bit of the data beside that of a kind.
LEMMA DataIsSet ==
  ASSUME NEW i \in 1 .. 7, NEW j \in 1 .. 8
  PROVE  128 + Bit[i] \in Byte /\ (IsSet(128 + Bit[i], j) <=> j = i \/ j = 8)
  <1>1. PICK n \in Nat : n = Bit[i] /\ n < 128
    BY BitsAre
  <1>2. 128 + n \in Byte
    BY <1>1 DEF Byte
  <1>3. /\ ((128 + n) \div 1) % 2 = (n \div 1) % 2 /\ ((128 + n) \div 2) % 2 = (n \div 2) % 2
        /\ ((128 + n) \div 4) % 2 = (n \div 4) % 2 /\ ((128 + n) \div 8) % 2 = (n \div 8) % 2
        /\ ((128 + n) \div 16) % 2 = (n \div 16) % 2 /\ ((128 + n) \div 32) % 2 = (n \div 32) % 2
        /\ ((128 + n) \div 64) % 2 = (n \div 64) % 2 /\ ((128 + n) \div 128) % 2 = 1
    BY <1>1, SMT
  <1>4. j \in 1 .. 7 \/ j = 8
    OBVIOUS
  <1>5. CASE j \in 1 .. 7
    <2>1. \/ Bit[j] = 1 \/ Bit[j] = 2 \/ Bit[j] = 4 \/ Bit[j] = 8
          \/ Bit[j] = 16 \/ Bit[j] = 32 \/ Bit[j] = 64
      BY <1>5, BitsAre
    <2>2. ((128 + n) \div Bit[j]) % 2 = (n \div Bit[j]) % 2
      BY <1>3, <2>1, Zenon
    <2>3. IsSet(128 + n, j) <=> IsSet(n, j)
      BY <2>2, Zenon DEF IsSet
    <2>4. IsSet(n, j) <=> j = i
      <3>1. i \in 1 .. 8
        OBVIOUS
      <3> QED BY <1>1, <3>1, BitIsSet, Zenon
    <2>5. j # 8
      BY <1>5
    <2> QED BY <1>1, <1>2, <2>3, <2>4, <2>5, Zenon
  <1>6. CASE j = 8
    BY <1>1, <1>2, <1>3, <1>6, BitsAre, Zenon DEF IsSet
  <1> QED BY <1>4, <1>5, <1>6

\* The two bytes of the type of a response.
FlagByte(k) == If(128, k \in HasData) + If(KindBit(k), k > 8)

LowByte(k) == If(KindBit(k), k <= 8)

\* The bits that are set in them.
TypeBits(k) ==
  /\ FlagByte(k) \in Byte /\ LowByte(k) \in Byte
  /\ IsSet(FlagByte(k), 8) <=> k \in HasData
  /\ \A j \in 1 .. 5 : IsSet(FlagByte(k), j) <=> k = 8 + j
  /\ \A j \in 1 .. 8 : IsSet(LowByte(k), j) <=> k = j

LEMMA TypeBytes ==
  ASSUME NEW k \in 1 .. 13
  PROVE  TypeBits(k)
  <1>1. 0 \in Byte /\ 128 \in Byte /\ Byte \subseteq Nat
    BY DEF Byte
  <1>2. \A j \in 1 .. 5 : j \in 1 .. 8 /\ j \in 1 .. 7 /\ j # 8
    OBVIOUS
  <1>3. 8 \in 1 .. 8
    OBVIOUS
  <1>7. PICK h \in Byte : h = 128
    BY <1>1
  <1>4. \A j \in 1 .. 8 : ~IsSet(0, j) /\ (IsSet(h, j) <=> j = 8)
    <2>1. h = Bit[8]
      BY <1>7, BitsAre
    <2> QED BY <1>3, <2>1, BitIsSet, NoneIsSet, Zenon
  <1>5. CASE k <= 8
    <2>1. k \in 1 .. 8 /\ ~(k > 8) /\ ((k - 1) % 8) + 1 = k
      BY <1>5, SMT
    <2>2. LowByte(k) = Bit[k]
      BY <1>5, <2>1, Zenon DEF LowByte, KindBit, If
    <2>3. \A j \in 1 .. 5 : k # 8 + j
      BY <1>5
    <2>4. LowByte(k) \in Byte /\ \A j \in 1 .. 8 : IsSet(LowByte(k), j) <=> k = j
      BY <2>1, <2>2, BitIsSet, Zenon
    <2>5. CASE k \in HasData
      <3>1. FlagByte(k) = h
        <4>1. FlagByte(k) = 128 + 0
          BY <2>1, <2>5, Zenon DEF FlagByte, If
        <4> QED BY <1>7, <4>1
      <3>2. /\ IsSet(FlagByte(k), 8) <=> k \in HasData
            /\ \A j \in 1 .. 5 : IsSet(FlagByte(k), j) <=> k = 8 + j
        <4>1. IsSet(FlagByte(k), 8)
          BY <1>3, <1>4, <3>1, Zenon
        <4>2. \A j \in 1 .. 5 : ~IsSet(FlagByte(k), j)
          BY <1>2, <1>4, <3>1, Zenon
        <4> QED BY <2>3, <2>5, <4>1, <4>2, Zenon
      <3> QED BY <1>1, <2>4, <3>1, <3>2, Zenon DEF TypeBits
    <2>6. CASE k \notin HasData
      <3>1. FlagByte(k) = 0
        <4>1. FlagByte(k) = 0 + 0
          BY <2>1, <2>6, Zenon DEF FlagByte, If
        <4> QED BY <4>1
      <3>2. /\ IsSet(FlagByte(k), 8) <=> k \in HasData
            /\ \A j \in 1 .. 5 : IsSet(FlagByte(k), j) <=> k = 8 + j
        BY <1>2, <1>3, <1>4, <2>3, <2>6, <3>1, Zenon
      <3> QED BY <1>1, <2>4, <3>1, <3>2, Zenon DEF TypeBits
    <2> QED BY <2>5, <2>6
  <1>6. ASSUME ~(k <= 8) PROVE TypeBits(k)
    <2>1. PICK i \in 1 .. 5 : k = 8 + i /\ k > 8 /\ ((k - 1) % 8) + 1 = i
      <3>1. k - 8 \in 1 .. 5 /\ k = 8 + (k - 8) /\ k > 8 /\ ((k - 1) % 8) + 1 = k - 8
        BY <1>6, SMT
      <3> QED BY <3>1
    <2>2. LowByte(k) = 0
      BY <1>6, Zenon DEF LowByte, If
    <2>3. \A j \in 1 .. 8 : k # j
      BY <1>6
    <2>4. \A j \in 1 .. 5 : k = 8 + j <=> j = i
      BY <2>1
    <2>5. Bit[i] \in Nat /\ Bit[i] \in Byte
      BY <1>1, <1>2, BitIsSet, Zenon
    <2>6. LowByte(k) \in Byte /\ \A j \in 1 .. 8 : IsSet(LowByte(k), j) <=> k = j
      BY <1>1, <1>4, <2>2, <2>3, Zenon
    <2>7. CASE k \in HasData
      <3>1. FlagByte(k) = 128 + Bit[i]
        BY <2>1, <2>7, Zenon DEF FlagByte, KindBit, If
      <3>2. /\ 128 + Bit[i] \in Byte
            /\ \A j \in 1 .. 8 : IsSet(128 + Bit[i], j) <=> j = i \/ j = 8
        BY <1>2, DataIsSet, Zenon
      <3>3. /\ IsSet(FlagByte(k), 8) <=> k \in HasData
            /\ \A j \in 1 .. 5 : IsSet(FlagByte(k), j) <=> k = 8 + j
        BY <1>2, <1>3, <2>4, <2>7, <3>1, <3>2, Zenon
      <3> QED BY <2>6, <3>1, <3>2, <3>3, Zenon DEF TypeBits
    <2>8. CASE k \notin HasData
      <3>1. FlagByte(k) = Bit[i]
        <4>1. FlagByte(k) = 0 + Bit[i]
          BY <2>1, <2>8, Zenon DEF FlagByte, KindBit, If
        <4> QED BY <2>5, <4>1
      <3>2. \A j \in 1 .. 8 : IsSet(Bit[i], j) <=> j = i
        BY <1>2, BitIsSet, Zenon
      <3>3. /\ IsSet(FlagByte(k), 8) <=> k \in HasData
            /\ \A j \in 1 .. 5 : IsSet(FlagByte(k), j) <=> k = 8 + j
        BY <1>2, <1>3, <2>4, <2>8, <3>1, <3>2, Zenon
      <3> QED BY <2>5, <2>6, <3>1, <3>3, Zenon DEF TypeBits
    <2> QED BY <2>7, <2>8
  <1> QED BY <1>5, <1>6

LEMMA ResponseTagIs ==
  ASSUME NEW k \in 1 .. 13, NEW e \in U32, NEW s \in U32, NEW n \in DataLength
  PROVE  \E f \in Seq(Byte), E \in U32, S \in U32, N \in DataLength :
           /\ f = <<FlagByte(k), LowByte(k)>>
           /\ E = If(e, k \in NamesEpic) /\ S = If(s, k \in NamesStory) /\ N = If(n, k \in HasData)
           /\ ResponseTag(k, e, s, n) = ((f \o U32Bytes(E)) \o U32Bytes(S)) \o DataLen(N)
  <1>1. 0 \in U32 /\ 0 \in DataLength
    BY SMT DEF U32, DataLength
  <1>2. /\ If(e, k \in NamesEpic) \in U32 /\ If(s, k \in NamesStory) \in U32
        /\ If(n, k \in HasData) \in DataLength
    BY <1>1, Zenon DEF If
  <1>3. <<FlagByte(k), LowByte(k)>> \in Seq(Byte)
    <2>1. FlagByte(k) \in Byte /\ LowByte(k) \in Byte
      BY TypeBytes, Zenon DEF TypeBits
    <2> QED BY <2>1
  <1> QED BY <1>2, <1>3, Zenon DEF ResponseTag, FlagByte, LowByte

LEMMA ResponseTagType ==
  ASSUME NEW k \in 1 .. 13, NEW e \in U32, NEW s \in U32, NEW n \in DataLength
  PROVE  ResponseTag(k, e, s, n) \in Seq(Byte) /\ Len(ResponseTag(k, e, s, n)) = 18
  <1>1. PICK f \in Seq(Byte), E \in U32, S \in U32, N \in DataLength :
          /\ f = <<FlagByte(k), LowByte(k)>>
          /\ E = If(e, k \in NamesEpic) /\ S = If(s, k \in NamesStory) /\ N = If(n, k \in HasData)
          /\ ResponseTag(k, e, s, n) = ((f \o U32Bytes(E)) \o U32Bytes(S)) \o DataLen(N)
    BY ResponseTagIs, Zenon
  <1>2. Len(f) = 2
    BY <1>1
  <1>3. \A m \in U32 : U32Bytes(m) \in Seq(Byte) /\ Len(U32Bytes(m)) = 4
    BY U32BytesType, SMT DEF U32
  <1>4. 2 + 4 = 6 /\ 6 + 4 = 10 /\ 10 + 8 = 18
    OBVIOUS
  <1>5. f \o U32Bytes(E) \in Seq(Byte) /\ Len(f \o U32Bytes(E)) = 6
    BY <1>2, <1>3, <1>4, ByteSeq, Zenon
  <1>6. /\ (f \o U32Bytes(E)) \o U32Bytes(S) \in Seq(Byte)
        /\ Len((f \o U32Bytes(E)) \o U32Bytes(S)) = 10
    BY <1>3, <1>4, <1>5, ByteSeq, Zenon
  <1>7. DataLen(N) \in Seq(Byte) /\ Len(DataLen(N)) = 8
    BY DataLenType, Zenon
  <1>8. /\ ((f \o U32Bytes(E)) \o U32Bytes(S)) \o DataLen(N) \in Seq(Byte)
        /\ Len(((f \o U32Bytes(E)) \o U32Bytes(S)) \o DataLen(N)) = 18
    BY <1>4, <1>6, <1>7, ByteSeq, Zenon
  <1> QED BY <1>1, <1>8, Zenon

\* What is decoded of a response's tag is what it was made of.
LEMMA ResponseTagDecodes ==
  ASSUME NEW k \in 1 .. 13, NEW e \in U32, NEW s \in U32, NEW n \in DataLength, NEW bytes,
         At(bytes, 0, ResponseTag(k, e, s, n))
  PROVE  ResponseDecode(bytes)
           = [kind |-> {k}, epic |-> If(e, k \in NamesEpic), story |-> If(s, k \in NamesStory),
              data |-> If(n, k \in HasData)]
  <1>1. PICK f \in Seq(Byte), E \in U32, S \in U32, N \in DataLength :
          /\ f = <<FlagByte(k), LowByte(k)>>
          /\ E = If(e, k \in NamesEpic) /\ S = If(s, k \in NamesStory) /\ N = If(n, k \in HasData)
          /\ ResponseTag(k, e, s, n) = ((f \o U32Bytes(E)) \o U32Bytes(S)) \o DataLen(N)
    BY ResponseTagIs, Zenon
  <1>2. Len(f) = 2 /\ f[1] = FlagByte(k) /\ f[2] = LowByte(k)
    BY <1>1
  <1> DEFINE A == U32Bytes(E)
             B == U32Bytes(S)
             C == DataLen(N)
  <1>3. A \in Seq(Byte) /\ Len(A) = 4 /\ B \in Seq(Byte) /\ Len(B) = 4 /\ C \in Seq(Byte)
    <2>1. E \in Nat /\ S \in Nat
      BY SMT DEF U32
    <2> QED BY <2>1, U32BytesType, DataLenType, Zenon
  <1>4. At(bytes, 0, ((f \o A) \o B) \o C)
    BY <1>1, Zenon
  <1> HIDE DEF A, B, C
  <1>5. 2 + 4 = 6 /\ 6 + 4 = 10
    OBVIOUS
  <1>6. f \o A \in Seq(Byte) /\ Len(f \o A) = 6
    BY <1>2, <1>3, <1>5, ByteSeq, Zenon
  <1>7. (f \o A) \o B \in Seq(Byte) /\ Len((f \o A) \o B) = 10
    BY <1>3, <1>5, <1>6, ByteSeq, Zenon
  <1>8. At(bytes, 0, (f \o A) \o B) /\ At(bytes, 0 + 10, C)
    BY <1>3, <1>4, <1>7, AtConcat
  <1>9. At(bytes, 0, f \o A) /\ At(bytes, 0 + 6, B)
    BY <1>3, <1>6, <1>8, AtConcat
  <1>15. At(bytes, 0, f) /\ At(bytes, 0 + 2, A)
    BY <1>2, <1>3, <1>9, AtConcat
  <1>10. bytes[1] = FlagByte(k) /\ bytes[2] = LowByte(k)
    <2>1. bytes[0 + 1] = f[1] /\ bytes[0 + 2] = f[2]
      BY <1>2, <1>15 DEF At
    <2> QED BY <1>2, <2>1
  <1>11. /\ Parse4Bytes(bytes, 2) = E /\ Parse4Bytes(bytes, 6) = S
         /\ Parse8Bytes(bytes, 10) = N
    <2>1. /\ 0 + 2 = 2 /\ 0 + 6 = 6 /\ 0 + 10 = 10
          /\ 2 \in Nat /\ 6 \in Nat /\ 10 \in Nat
      OBVIOUS
    <2>2. At(bytes, 2, U32Bytes(E)) /\ At(bytes, 6, U32Bytes(S)) /\ At(bytes, 10, DataLen(N))
      BY <1>8, <1>9, <1>15, <2>1, Zenon DEF A, B, C
    <2> QED BY <2>1, <2>2, Parse4At, Parse8At, Zenon
  <1>12. KindsSet(bytes) = {k}
    <2>1. DOMAIN Kinds = 1 .. 13
      BY DEF Kinds
    <2>3. TypeBits(k)
      BY TypeBytes, Zenon
    <2>4. /\ \A j \in 1 .. 5 : IsSet(bytes[1], j) <=> k = 8 + j
          /\ \A j \in 1 .. 8 : IsSet(bytes[2], j) <=> k = j
      BY <1>10, <2>3 DEF TypeBits
    <2>2. ASSUME NEW j \in 1 .. 13
          PROVE  (IF j <= 8 THEN IsSet(bytes[2], j) ELSE IsSet(bytes[1], j - 8)) <=> j = k
      <3>1. CASE j <= 8
        <4>1. j \in 1 .. 8
          BY <3>1
        <4>2. IsSet(bytes[2], j) <=> k = j
          BY <2>4, <4>1, Zenon
        <4> QED BY <3>1, <4>2, Zenon
      <3>2. ASSUME ~(j <= 8) PROVE IsSet(bytes[1], j - 8) <=> j = k
        <4>1. j - 8 \in 1 .. 5 /\ 8 + (j - 8) = j
          BY <3>2
        <4>2. IsSet(bytes[1], j - 8) <=> k = 8 + (j - 8)
          BY <2>4, <4>1, Zenon
        <4> QED BY <4>1, <4>2, Zenon
      <3> QED BY <3>1, <3>2, Zenon
    <2> QED BY <2>1, <2>2, Zenon DEF KindsSet
  <1>13. {i \in {k} : \A j \in {k} : i <= j} = {k}
    OBVIOUS
  <1>14. /\ If(E, {k} \cap NamesEpic # {}) = If(e, k \in NamesEpic)
         /\ If(S, {k} \cap NamesStory # {}) = If(s, k \in NamesStory)
         /\ If(N, IsSet(bytes[1], 8)) = If(n, k \in HasData)
    <2>1. {k} \cap NamesEpic # {} <=> k \in NamesEpic
      OBVIOUS
    <2>2. {k} \cap NamesStory # {} <=> k \in NamesStory
      OBVIOUS
    <2>3. IsSet(bytes[1], 8) <=> k \in HasData
      BY <1>10, TypeBytes, Zenon DEF TypeBits
    <2> QED BY <1>1, <2>1, <2>2, <2>3, Zenon DEF If
  <1> QED BY <1>11, <1>12, <1>13, <1>14, Zenon DEF ResponseDecode

\* Where bytes are cut, what stood before the cut still does.
LEMMA AtPrefix ==
  ASSUME NEW bytes \in Seq(Byte), NEW p \in Nat, NEW s \in Seq(Byte), At(bytes, p, s),
         NEW l \in 0 .. Len(bytes)
  PROVE  /\ SubSeq(bytes, 1, l) \in Seq(Byte) /\ Len(SubSeq(bytes, 1, l)) = l
         /\ \A i \in 1 .. l : SubSeq(bytes, 1, l)[i] = bytes[i]
         /\ p + Len(s) <= l => At(SubSeq(bytes, 1, l), p, s)
  <1> DEFINE cut == SubSeq(bytes, 1, l)
  <1>1. Len(bytes) \in Nat /\ Len(s) \in Nat
    BY LenProperties
  <1>2. \A i \in 1 .. l : bytes[i] \in Byte
    <2>1. \A i \in 1 .. l : i \in 1 .. Len(bytes)
      BY <1>1
    <2> QED BY <2>1, ElementOfSeq
  <1>3. cut \in Seq(Byte) /\ Len(cut) = l /\ \A i \in 1 .. l : cut[i] = bytes[i]
    <2>1. 1 \in Int /\ l \in Int
      BY <1>1
    <2>2. /\ cut \in Seq(Byte) /\ Len(cut) = IF 1 <= l THEN l - 1 + 1 ELSE 0
          /\ \A i \in 1 .. l - 1 + 1 : cut[i] = bytes[1 + i - 1]
      BY <1>2, <2>1, SubSeqProperties
    <2> HIDE DEF cut
    <2> QED BY <1>1, <2>2
  <1> HIDE DEF cut
  <1>4. ASSUME p + Len(s) <= l PROVE At(cut, p, s)
    <2>1. \A i \in 1 .. Len(s) : p + i \in 1 .. l
      BY <1>1, <1>4
    <2> QED BY <1>3, <2>1 DEF At
  <1> QED BY <1>3, <1>4 DEF cut

\* Whatever the server answers, exactly its bytes are read and decoded, of its
\* data too; and of bytes that are cut a reader knows that they are.
THEOREM ResponsesRoundTrip ==
  ASSUME NEW k \in 1 .. 13, NEW e \in U32, NEW s \in U32,
         NEW data \in Seq(Byte), Len(data) \in DataLength,
         NEW bytes, bytes = ResponseBytes(k, e, s, data)
  PROVE  /\ bytes \in Seq(Byte)
         /\ ResponseDecode(bytes)
              = [kind |-> {k}, epic |-> If(e, k \in NamesEpic), story |-> If(s, k \in NamesStory),
                 data |-> If(Len(data), k \in HasData)]
         /\ Len(bytes) = 18 + ResponseDecode(bytes).data /\ Len(bytes) >= 18
         /\ k \in HasData => SubSeq(bytes, 19, Len(bytes)) = data
         /\ \A l \in 0 .. Len(bytes) :
              LET cut == SubSeq(bytes, 1, l)
              IN  cut # bytes =>
                    ~(Len(cut) >= 18 /\ Len(cut) >= 18 + ResponseDecode(cut).data)
  <1> DEFINE tag == ResponseTag(k, e, s, Len(data))
             rest == IF k \in HasData THEN data ELSE <<>>
             decoded == [kind |-> {k}, epic |-> If(e, k \in NamesEpic),
                         story |-> If(s, k \in NamesStory), data |-> If(Len(data), k \in HasData)]
  <1>1. tag \in Seq(Byte) /\ Len(tag) = 18
    BY ResponseTagType, Zenon
  <1>2. rest \in Seq(Byte) /\ Len(rest) = decoded.data /\ Len(rest) \in Nat
    <2>1. <<>> \in Seq(Byte) /\ Len(<<>>) = 0
      BY EmptySeq
    <2>2. decoded.data = If(Len(data), k \in HasData)
      OBVIOUS
    <2> HIDE DEF decoded
    <2>3. rest \in Seq(Byte) /\ Len(rest) = decoded.data
      BY <2>1, <2>2, Zenon DEF If
    <2> QED BY <2>3, LenProperties
  <1>3. \A x : At(x, 0, tag) => ResponseDecode(x) = decoded
    BY ResponseTagDecodes, Zenon
  <1>4. bytes = tag \o rest
    BY Zenon DEF ResponseBytes
  <1> HIDE DEF tag, rest, decoded
  <1>5. bytes \in Seq(Byte) /\ Len(bytes) = 18 + Len(rest)
    BY <1>1, <1>2, <1>4, ByteSeq, Zenon
  <1>6. At(bytes, 0, tag) /\ At(bytes, 18, rest)
    BY <1>1, <1>2, <1>4, AtSelf, Zenon
  <1>7. ResponseDecode(bytes) = decoded
    BY <1>3, <1>6
  <1>8. Len(bytes) = 18 + ResponseDecode(bytes).data /\ Len(bytes) >= 18
    BY <1>2, <1>5, <1>7
  <1>9. ASSUME k \in HasData PROVE SubSeq(bytes, 19, Len(bytes)) = data
    <2>1. 18 \in Nat /\ 18 + 1 = 19
      OBVIOUS
    <2>2. SubSeq(bytes, 18 + 1, 18 + Len(rest)) = rest
      BY <1>2, <1>6, <2>1, CutAt, Zenon
    <2>3. rest = data
      BY <1>9, Zenon DEF rest
    <2> QED BY <1>5, <2>1, <2>2, <2>3, Zenon
  <1>10. ASSUME NEW l \in 0 .. Len(bytes), NEW cut, cut = SubSeq(bytes, 1, l), cut # bytes
         PROVE  ~(Len(cut) >= 18 /\ Len(cut) >= 18 + ResponseDecode(cut).data)
    <2>1. 0 \in Nat /\ 0 + 18 = 18
      OBVIOUS
    <2>2. Len(cut) = l /\ (18 <= l => At(cut, 0, tag))
      <3>1. /\ Len(SubSeq(bytes, 1, l)) = l
            /\ 0 + Len(tag) <= l => At(SubSeq(bytes, 1, l), 0, tag)
        BY <1>1, <1>5, <1>6, <2>1, AtPrefix, Zenon
      <3> QED BY <1>1, <1>10, <2>1, <3>1, Zenon
    <2>3. l # Len(bytes)
      BY <1>5, <1>10, SubSeqFull, Zenon
    <2>4. l \in Nat /\ l < Len(bytes)
      BY <1>2, <1>5, <2>3
    <2>5. CASE 18 <= l
      <3>1. ResponseDecode(cut) = decoded
        BY <1>3, <2>2, <2>5, Zenon
      <3> QED BY <1>2, <1>5, <2>2, <2>4, <3>1
    <2>6. CASE ~(18 <= l)
      BY <2>2, <2>4, <2>6
    <2> QED BY <2>5, <2>6
  <1> QED BY <1>5, <1>7, <1>8, <1>9, <1>10, Zenon DEF decoded

\* Of a request that is cut the server knows that it is.
LEMMA RequestCut ==
  ASSUME NEW bytes \in Seq(Byte), Len(bytes) >= 13, RequestSize(bytes) = Len(bytes),
         NEW l \in 0 .. Len(bytes), NEW cut, cut = SubSeq(bytes, 1, l), cut # bytes
  PROVE  cut \in Seq(Byte) /\ ~(Len(cut) >= 13 /\ Len(cut) >= RequestSize(cut))
  <1>1. bytes # <<>> /\ 0 \in Nat /\ Len(bytes) \in Nat
    BY LenProperties, EmptySeq
  <1>2. cut \in Seq(Byte) /\ Len(cut) = l /\ \A i \in 1 .. l : cut[i] = bytes[i]
    <2>1. At(bytes, 0, bytes)
      BY AtSelf, Zenon
    <2>2. /\ SubSeq(bytes, 1, l) \in Seq(Byte) /\ Len(SubSeq(bytes, 1, l)) = l
          /\ \A i \in 1 .. l : SubSeq(bytes, 1, l)[i] = bytes[i]
      BY <1>1, <2>1, AtPrefix, Zenon
    <2> QED BY <2>2, Zenon
  <1>3. l \in Nat /\ l < Len(bytes)
    <2>1. l # Len(bytes)
      BY SubSeqFull, Zenon
    <2> QED BY <1>1, <2>1
  <1>4. ASSUME 13 <= l PROVE RequestSize(cut) = Len(bytes)
    <2>1. \A i \in 1 .. 13 : cut[i] = bytes[i]
      BY <1>2, <1>3, <1>4
    <2> QED BY <2>1, SameTagSameLengths, Zenon
  <1>5. l < 13 \/ 13 <= l
    BY <1>3
  <1> QED BY <1>2, <1>3, <1>4, <1>5
=============================================================================
