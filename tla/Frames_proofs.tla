---------------------------- MODULE Frames_proofs ----------------------------
(***************************************************************************)
(* Epics and stories: the loops that read frames find those that were      *)
(* written, and of data that is cut a part of them; sorted by their ids    *)
(* they come in one order only.                                            *)
(***************************************************************************)
EXTENDS Wire_proofs, FiniteSetTheorems

-----------------------------------------------------------------------------
(***************************************************************************)
(* One frame.                                                              *)
(***************************************************************************)

\* By the size of their tags.
FrameSet(n) == IF n = 13 THEN EpicFrame ELSE StoryFrame

FrameBytes(n, x) == IF n = 13 THEN EpicBytes(x) ELSE StoryBytes(x)

FrameTag(n, x) == IF n = 13 THEN EpicTag(x) ELSE StoryTag(x)

\* s begins after p bytes of the data, which may end within it.
Begins(data, p, s) == \A i \in 1 .. Len(s) : p + i <= Len(data) => data[p + i] = s[i]

LEMMA FrameParts ==
  ASSUME NEW n \in {13, 17}, NEW x \in FrameSet(n)
  PROVE  /\ x.id \in U32 /\ x.name \in Text /\ x.description \in Text /\ x.status \in Status
         /\ x.name \in Seq(Byte) /\ x.description \in Seq(Byte)
         /\ Len(x.name) \in U32 /\ Len(x.description) \in U32
         /\ Len(x.name) \in Nat /\ Len(x.description) \in Nat
         /\ n = 13 => x = [id |-> x.id, name |-> x.name, description |-> x.description,
                           status |-> x.status]
         /\ n = 17 => x.epic \in U32 /\ x = [id |-> x.id, epic |-> x.epic, name |-> x.name,
                                             description |-> x.description, status |-> x.status]
  <1>1. CASE n = 13
    <2>1. x \in EpicFrame
      BY <1>1 DEF FrameSet
    <2>2. /\ x.id \in U32 /\ x.name \in Text /\ x.description \in Text /\ x.status \in Status
          /\ x = [id |-> x.id, name |-> x.name, description |-> x.description,
                  status |-> x.status]
      BY <2>1 DEF EpicFrame
    <2>3. n # 17
      BY <1>1
    <2> QED BY <1>1, <2>2, <2>3, LenProperties, Zenon DEF Text
  <1>2. CASE n = 17
    <2>1. x \in StoryFrame
      BY <1>2 DEF FrameSet
    <2>2. /\ x.id \in U32 /\ x.name \in Text /\ x.description \in Text /\ x.status \in Status
          /\ x.epic \in U32
          /\ x = [id |-> x.id, epic |-> x.epic, name |-> x.name,
                  description |-> x.description, status |-> x.status]
      BY <2>1 DEF StoryFrame
    <2>3. n # 13
      BY <1>2
    <2> QED BY <1>2, <2>2, <2>3, LenProperties, Zenon DEF Text
  <1> QED BY <1>1, <1>2

\* The fields of a tag.
LEMMA EpicTagAt ==
  ASSUME NEW x \in EpicFrame
  PROVE  /\ EpicTag(x) \in Seq(Byte) /\ Len(EpicTag(x)) = 13
         /\ \A data : \A p \in Nat : At(data, p, EpicTag(x)) =>
              /\ Parse4Bytes(data, p) = x.id
              /\ Parse4Bytes(data, p + 4) = Len(x.name)
              /\ Parse4Bytes(data, p + 8) = Len(x.description)
              /\ data[p + 13] = StatusByte[x.status]
  <1> DEFINE A == U32Bytes(x.id)
             B == U32Bytes(Len(x.name))
             C == U32Bytes(Len(x.description))
             d == <<StatusByte[x.status]>>
  <1>1. /\ x.id \in U32 /\ Len(x.name) \in U32 /\ Len(x.description) \in U32
        /\ StatusByte[x.status] \in Byte
    <2>1. 13 \in {13, 17} /\ x \in FrameSet(13)
      BY DEF FrameSet
    <2> QED BY <2>1, FrameParts, StatusByteDecodes, Zenon
  <1>2. \A m \in U32 : U32Bytes(m) \in Seq(Byte) /\ Len(U32Bytes(m)) = 4
    BY U32BytesType, SMT DEF U32
  <1>3. /\ A \in Seq(Byte) /\ Len(A) = 4 /\ B \in Seq(Byte) /\ Len(B) = 4
        /\ C \in Seq(Byte) /\ Len(C) = 4
    BY <1>1, <1>2, Zenon
  <1>4. d \in Seq(Byte) /\ Len(d) = 1 /\ d[1] = StatusByte[x.status]
    BY <1>1
  <1>5. EpicTag(x) = ((A \o B) \o C) \o d
    BY Zenon DEF EpicTag
  <1> HIDE DEF A, B, C, d
  <1>6. 4 + 4 = 8 /\ 8 + 4 = 12 /\ 12 + 1 = 13
    OBVIOUS
  <1>7. A \o B \in Seq(Byte) /\ Len(A \o B) = 8
    BY <1>3, <1>6, ByteSeq, Zenon
  <1>8. (A \o B) \o C \in Seq(Byte) /\ Len((A \o B) \o C) = 12
    BY <1>3, <1>6, <1>7, ByteSeq, Zenon
  <1>9. EpicTag(x) \in Seq(Byte) /\ Len(EpicTag(x)) = 13
    BY <1>4, <1>5, <1>6, <1>8, ByteSeq, Zenon
  <1>10. ASSUME NEW data, NEW p \in Nat, At(data, p, EpicTag(x))
         PROVE  /\ Parse4Bytes(data, p) = x.id
                /\ Parse4Bytes(data, p + 4) = Len(x.name)
                /\ Parse4Bytes(data, p + 8) = Len(x.description)
                /\ data[p + 13] = StatusByte[x.status]
    <2>1. At(data, p, ((A \o B) \o C) \o d)
      BY <1>5, <1>10, Zenon
    <2>2. At(data, p, (A \o B) \o C) /\ At(data, p + 12, d)
      BY <1>4, <1>8, <2>1, AtConcat
    <2>3. At(data, p, A \o B) /\ At(data, p + 8, C)
      BY <1>3, <1>7, <2>2, AtConcat
    <2>4. At(data, p, A) /\ At(data, p + 4, B)
      BY <1>3, <2>3, AtConcat
    <2>5. p + 4 \in Nat /\ p + 8 \in Nat /\ (p + 12) + 1 = p + 13
      OBVIOUS
    <2>6. data[(p + 12) + 1] = d[1]
      BY <1>4, <2>2 DEF At
    <2>7. data[p + 13] = StatusByte[x.status]
      BY <1>4, <2>5, <2>6, Zenon
    <2> QED BY <1>1, <2>3, <2>4, <2>5, <2>7, Parse4At, Zenon DEF A, B, C
  <1> QED BY <1>9, <1>10

LEMMA StoryTagAt ==
  ASSUME NEW x \in StoryFrame
  PROVE  /\ StoryTag(x) \in Seq(Byte) /\ Len(StoryTag(x)) = 17
         /\ \A data : \A p \in Nat : At(data, p, StoryTag(x)) =>
              /\ Parse4Bytes(data, p) = x.id
              /\ Parse4Bytes(data, p + 4) = x.epic
              /\ Parse4Bytes(data, p + 8) = Len(x.name)
              /\ Parse4Bytes(data, p + 12) = Len(x.description)
              /\ data[p + 17] = StatusByte[x.status]
  <1> DEFINE A == U32Bytes(x.id)
             E == U32Bytes(x.epic)
             B == U32Bytes(Len(x.name))
             C == U32Bytes(Len(x.description))
             d == <<StatusByte[x.status]>>
  <1>1. /\ x.id \in U32 /\ x.epic \in U32 /\ Len(x.name) \in U32 /\ Len(x.description) \in U32
        /\ StatusByte[x.status] \in Byte
    <2>1. 17 \in {13, 17} /\ x \in FrameSet(17)
      BY DEF FrameSet
    <2> QED BY <2>1, FrameParts, StatusByteDecodes, Zenon
  <1>2. \A m \in U32 : U32Bytes(m) \in Seq(Byte) /\ Len(U32Bytes(m)) = 4
    BY U32BytesType, SMT DEF U32
  <1>3. /\ A \in Seq(Byte) /\ Len(A) = 4 /\ B \in Seq(Byte) /\ Len(B) = 4
        /\ C \in Seq(Byte) /\ Len(C) = 4 /\ E \in Seq(Byte) /\ Len(E) = 4
    BY <1>1, <1>2, Zenon
  <1>4. d \in Seq(Byte) /\ Len(d) = 1 /\ d[1] = StatusByte[x.status]
    BY <1>1
  <1>5. StoryTag(x) = (((A \o E) \o B) \o C) \o d
    BY Zenon DEF StoryTag
  <1> HIDE DEF A, B, C, E, d
  <1>6. 4 + 4 = 8 /\ 8 + 4 = 12 /\ 12 + 4 = 16 /\ 16 + 1 = 17
    OBVIOUS
  <1>7. A \o E \in Seq(Byte) /\ Len(A \o E) = 8
    BY <1>3, <1>6, ByteSeq, Zenon
  <1>8. (A \o E) \o B \in Seq(Byte) /\ Len((A \o E) \o B) = 12
    BY <1>3, <1>6, <1>7, ByteSeq, Zenon
  <1>9. ((A \o E) \o B) \o C \in Seq(Byte) /\ Len(((A \o E) \o B) \o C) = 16
    BY <1>3, <1>6, <1>8, ByteSeq, Zenon
  <1>10. StoryTag(x) \in Seq(Byte) /\ Len(StoryTag(x)) = 17
    BY <1>4, <1>5, <1>6, <1>9, ByteSeq, Zenon
  <1>11. ASSUME NEW data, NEW p \in Nat, At(data, p, StoryTag(x))
         PROVE  /\ Parse4Bytes(data, p) = x.id
                /\ Parse4Bytes(data, p + 4) = x.epic
                /\ Parse4Bytes(data, p + 8) = Len(x.name)
                /\ Parse4Bytes(data, p + 12) = Len(x.description)
                /\ data[p + 17] = StatusByte[x.status]
    <2>1. At(data, p, (((A \o E) \o B) \o C) \o d)
      BY <1>5, <1>11, Zenon
    <2>2. At(data, p, ((A \o E) \o B) \o C) /\ At(data, p + 16, d)
      BY <1>4, <1>9, <2>1, AtConcat
    <2>3. At(data, p, (A \o E) \o B) /\ At(data, p + 12, C)
      BY <1>3, <1>8, <2>2, AtConcat
    <2>4. At(data, p, A \o E) /\ At(data, p + 8, B)
      BY <1>3, <1>7, <2>3, AtConcat
    <2>5. At(data, p, A) /\ At(data, p + 4, E)
      BY <1>3, <2>4, AtConcat
    <2>6. p + 4 \in Nat /\ p + 8 \in Nat /\ p + 12 \in Nat /\ (p + 16) + 1 = p + 17
      OBVIOUS
    <2>7. data[(p + 16) + 1] = d[1]
      BY <1>4, <2>2 DEF At
    <2>8. data[p + 17] = StatusByte[x.status]
      BY <1>4, <2>6, <2>7, Zenon
    <2> QED BY <1>1, <2>3, <2>4, <2>5, <2>6, <2>8, Parse4At, Zenon DEF A, B, C, E
  <1> QED BY <1>10, <1>11

\* What a tag and the texts after it are read as.
LEMMA EpicAtIs ==
  ASSUME NEW data, NEW p
  PROVE  \A y : y \in EpicAt(data, p) <=>
           \E t \in Texts(data, p, 13), st \in StatusTryFrom(data[p + 13]) :
             y = [id |-> Parse4Bytes(data, p), name |-> t[1], description |-> t[2],
                  status |-> st]
  BY SMT DEF EpicAt

LEMMA StoryAtIs ==
  ASSUME NEW data, NEW p
  PROVE  \A y : y \in StoryAt(data, p) <=>
           \E t \in Texts(data, p, 17), st \in StatusTryFrom(data[p + 17]) :
             y = [id |-> Parse4Bytes(data, p), epic |-> Parse4Bytes(data, p + 4),
                  name |-> t[1], description |-> t[2], status |-> st]
  BY SMT DEF StoryAt

LEMMA FrameBytesType ==
  ASSUME NEW n \in {13, 17}, NEW x \in FrameSet(n)
  PROVE  /\ FrameBytes(n, x) = (FrameTag(n, x) \o x.name) \o x.description
         /\ FrameTag(n, x) \in Seq(Byte) /\ Len(FrameTag(n, x)) = n
         /\ FrameTag(n, x) \o x.name \in Seq(Byte)
         /\ Len(FrameTag(n, x) \o x.name) = n + Len(x.name)
         /\ FrameBytes(n, x) \in Seq(Byte) /\ Len(FrameBytes(n, x)) = Size(n, x)
         /\ Size(n, x) \in Nat /\ Size(n, x) >= n
  <1>1. /\ x.name \in Seq(Byte) /\ x.description \in Seq(Byte)
        /\ Len(x.name) \in Nat /\ Len(x.description) \in Nat
    BY FrameParts, Zenon
  <1>2. FrameTag(n, x) \in Seq(Byte) /\ Len(FrameTag(n, x)) = n
    <2>1. CASE n = 13
      BY <2>1, EpicTagAt, Zenon DEF FrameSet, FrameTag
    <2>2. CASE n = 17
      <3>1. n # 13
        BY <2>2
      <3> QED BY <2>2, <3>1, StoryTagAt, Zenon DEF FrameSet, FrameTag
    <2> QED BY <2>1, <2>2
  <1>3. FrameBytes(n, x) = (FrameTag(n, x) \o x.name) \o x.description
    BY Zenon DEF FrameBytes, FrameTag, EpicBytes, StoryBytes
  <1>4. /\ FrameTag(n, x) \o x.name \in Seq(Byte)
        /\ Len(FrameTag(n, x) \o x.name) = n + Len(x.name)
    BY <1>1, <1>2, ByteSeq, Zenon
  <1>5. /\ FrameBytes(n, x) \in Seq(Byte)
        /\ Len(FrameBytes(n, x)) = (n + Len(x.name)) + Len(x.description)
    BY <1>1, <1>3, <1>4, ByteSeq, Zenon
  <1>6. Size(n, x) = (n + Len(x.name)) + Len(x.description)
    BY DEF Size
  <1>7. Size(n, x) \in Nat /\ Size(n, x) >= n
    <2>1. n \in Nat
      OBVIOUS
    <2>2. \A a, b, c \in Nat : (a + b) + c \in Nat /\ (a + b) + c >= a
      OBVIOUS
    <2> QED BY <1>1, <1>6, <2>1, <2>2, Zenon
  <1> QED BY <1>2, <1>3, <1>4, <1>5, <1>6, <1>7, Zenon

\* Where the tag of a frame is whole, the frame is read, or, when its texts are
\* not whole, nothing is.
LEMMA FrameAtBegins ==
  ASSUME NEW n \in {13, 17}, NEW x \in FrameSet(n), NEW data \in Seq(Byte), NEW p \in Nat,
         p + n <= Len(data), Begins(data, p, FrameBytes(n, x))
  PROVE  /\ p + Size(n, x) <= Len(data) => FrameAt(data, p, n) = {x}
         /\ ~(p + Size(n, x) <= Len(data)) => FrameAt(data, p, n) = {}
  <1> DEFINE tag == FrameTag(n, x)
             name == x.name
             description == x.description
             N == Len(data)
  <1>1. /\ x.name \in Seq(Byte) /\ x.description \in Seq(Byte)
        /\ Len(x.name) \in Nat /\ Len(x.description) \in Nat
        /\ FromUtf8(x.name) /\ FromUtf8(x.description)
    BY FrameParts, Zenon DEF Text
  <1>2. /\ FrameBytes(n, x) = (tag \o name) \o description
        /\ tag \in Seq(Byte) /\ Len(tag) = n
        /\ tag \o name \in Seq(Byte) /\ Len(tag \o name) = n + Len(name)
        /\ Len(FrameBytes(n, x)) = Size(n, x) /\ Size(n, x) \in Nat
    BY FrameBytesType, Zenon
  <1>3. Size(n, x) = n + Len(name) + Len(description)
    BY Zenon DEF Size
  <1>4. N \in Nat /\ n \in Nat
    BY LenProperties
  <1>5. At(data, p, tag)
    <2>1. At(FrameBytes(n, x), 0, tag)
      <3>1. 0 \in Nat
        OBVIOUS
      <3>2. At((tag \o name) \o description, 0, tag \o name)
        BY <1>1, <1>2, AtSelf, Zenon
      <3>3. At((tag \o name) \o description, 0, tag)
        BY <1>1, <1>2, <3>1, <3>2, AtConcat, Zenon
      <3> QED BY <1>2, <3>3, Zenon
    <2> HIDE DEF tag, name, description
    <2>2. ASSUME NEW i \in 1 .. Len(tag) PROVE data[p + i] = tag[i]
      <3>1. i \in 1 .. Len(FrameBytes(n, x)) /\ p + i <= N /\ 0 + i = i
        <4>1. p + n <= N
          BY Zenon DEF N
        <4> HIDE DEF N
        <4>2. /\ i \in 1 .. n /\ Len(name) \in Nat /\ Len(description) \in Nat
              /\ Size(n, x) = (n + Len(name)) + Len(description)
          BY <1>1, <1>2, <1>3, Zenon DEF name, description
        <4>3. Len(FrameBytes(n, x)) = (n + Len(name)) + Len(description)
          BY <1>2, <4>2, Zenon
        <4>4. i \in 1 .. (n + Len(name)) + Len(description) /\ p + i <= N /\ 0 + i = i
          BY <1>4, <4>1, <4>2, SMT
        <4> QED BY <4>3, <4>4, Zenon
      <3>2. data[p + i] = FrameBytes(n, x)[i]
        BY <3>1, Zenon DEF Begins
      <3>3. FrameBytes(n, x)[0 + i] = tag[i]
        BY <2>1, Zenon DEF At
      <3> QED BY <3>1, <3>2, <3>3, Zenon
    <2> QED BY <2>2 DEF At
  <1>6. ASSUME p + Size(n, x) <= N
        PROVE  /\ SubSeq(data, p + n + 0 + 1, p + n + 0 + Len(name)) = name
               /\ SubSeq(data, p + n + Len(name) + 1, p + n + Len(name) + Len(description))
                    = description
    <2>1. At(data, p, FrameBytes(n, x))
      <3>1. \A i \in 1 .. Len(FrameBytes(n, x)) : p + i <= N
        BY <1>2, <1>4, <1>6
      <3> QED BY <3>1, Zenon DEF Begins, At
    <2>2. At(data, p, tag \o name) /\ At(data, p + Len(tag \o name), description)
      BY <1>1, <1>2, <2>1, AtConcat, Zenon
    <2>3. At(data, p + Len(tag), name)
      BY <1>1, <1>2, <2>2, AtConcat, Zenon
    <2> HIDE DEF name, description, tag
    <2>4. /\ p + n \in Nat /\ p + (n + Len(name)) \in Nat
          /\ p + n + 0 + 1 = (p + n) + 1 /\ p + n + 0 + Len(name) = (p + n) + Len(name)
          /\ p + n + Len(name) + 1 = (p + (n + Len(name))) + 1
          /\ p + n + Len(name) + Len(description) = (p + (n + Len(name))) + Len(description)
      <3>1. Len(name) \in Nat /\ Len(description) \in Nat
        BY <1>1, Zenon DEF name, description
      <3> QED BY <1>4, <3>1, SMT
    <2>5. SubSeq(data, (p + n) + 1, (p + n) + Len(name)) = name
      <3>1. At(data, p + n, name) /\ name \in Seq(Byte)
        BY <1>1, <1>2, <2>3, Zenon DEF name
      <3> QED BY <2>4, <3>1, CutAt, Zenon
    <2>6. SubSeq(data, (p + (n + Len(name))) + 1, (p + (n + Len(name))) + Len(description))
            = description
      <3>1. At(data, p + (n + Len(name)), description) /\ description \in Seq(Byte)
        BY <1>1, <1>2, <2>2, Zenon DEF description
      <3> QED BY <2>4, <3>1, CutAt, Zenon
    <2> QED BY <2>4, <2>5, <2>6, Zenon
  <1>7. /\ Parse4Bytes(data, p + n - 9) = Len(name)
        /\ Parse4Bytes(data, p + n - 5) = Len(description)
        /\ Parse4Bytes(data, p) = x.id
        /\ n = 17 => Parse4Bytes(data, p + 4) = x.epic
        /\ data[p + n] = StatusByte[x.status]
    <2>1. CASE n = 13
      <3>1. p + 13 - 9 = p + 4 /\ p + 13 - 5 = p + 8 /\ n # 17
        BY <2>1
      <3>2. At(data, p, EpicTag(x)) /\ x \in EpicFrame
        BY <1>5, <2>1, Zenon DEF FrameTag, FrameSet
      <3>3. /\ Parse4Bytes(data, p) = x.id
            /\ Parse4Bytes(data, p + 4) = Len(x.name)
            /\ Parse4Bytes(data, p + 8) = Len(x.description)
            /\ data[p + 13] = StatusByte[x.status]
        BY <3>2, EpicTagAt, Zenon
      <3> QED BY <2>1, <3>1, <3>3, Zenon
    <2>2. CASE n = 17
      <3>1. p + 17 - 9 = p + 8 /\ p + 17 - 5 = p + 12 /\ n # 13
        BY <2>2
      <3>2. At(data, p, StoryTag(x)) /\ x \in StoryFrame
        BY <1>5, <2>2, <3>1, Zenon DEF FrameTag, FrameSet
      <3>3. /\ Parse4Bytes(data, p) = x.id
            /\ Parse4Bytes(data, p + 4) = x.epic
            /\ Parse4Bytes(data, p + 8) = Len(x.name)
            /\ Parse4Bytes(data, p + 12) = Len(x.description)
            /\ data[p + 17] = StatusByte[x.status]
        BY <3>2, StoryTagAt, Zenon
      <3> QED BY <2>2, <3>1, <3>3, Zenon
    <2> QED BY <2>1, <2>2
  <1> HIDE DEF tag
  <1>8. p + n + Len(name) + Len(description) = p + Size(n, x)
    BY <1>1, <1>3, <1>4
  <1>9. /\ p + Size(n, x) <= N => Texts(data, p, n) = {<<name, description>>}
        /\ ~(p + Size(n, x) <= N) => Texts(data, p, n) = {}
    <2> HIDE DEF name, description
    <2>1. CASE p + Size(n, x) <= N
      <3>1. <<name, description>>[1] = name /\ <<name, description>>[2] = description
        OBVIOUS
      <3>2. Texts(data, p, n)
              = {t \in {<<name, description>>} : FromUtf8(t[1]) /\ FromUtf8(t[2])}
        BY <1>6, <1>7, <1>8, <2>1, Zenon DEF Texts
      <3>3. {t \in {<<name, description>>} : FromUtf8(t[1]) /\ FromUtf8(t[2])}
              = {<<name, description>>}
        BY <1>1, <3>1, Zenon DEF name, description
      <3> QED BY <2>1, <3>2, <3>3, Zenon
    <2>2. CASE ~(p + Size(n, x) <= N)
      <3>1. Texts(data, p, n) = {t \in {} : FromUtf8(t[1]) /\ FromUtf8(t[2])}
        BY <1>7, <1>8, <2>2, Zenon DEF Texts
      <3> QED BY <2>2, <3>1, Zenon
    <2> QED BY <2>1, <2>2, Zenon
  <1>10. StatusTryFrom(data[p + n]) = {x.status}
    BY <1>7, FrameParts, StatusByteDecodes, Zenon
  <1>11. <<name, description>>[1] = x.name /\ <<name, description>>[2] = x.description
    OBVIOUS
  <1>12. \A t \in Texts(data, p, n) : t[1] = x.name /\ t[2] = x.description
    <2> HIDE DEF name, description
    <2> QED BY <1>9, <1>11, Zenon
  <1>13. p + Size(n, x) <= N <=> \E t \in Texts(data, p, n) : TRUE
    <2> HIDE DEF name, description
    <2> QED BY <1>9, Zenon
  <1> HIDE DEF name, description, N
  <1>14. ASSUME NEW y
         PROVE  y \in FrameAt(data, p, n) <=> (p + Size(n, x) <= N /\ y = x)
    <2>1. CASE n = 13
      <3>1. y \in FrameAt(data, p, n) <=>
              \E t \in Texts(data, p, n), st \in StatusTryFrom(data[p + n]) :
                y = [id |-> Parse4Bytes(data, p), name |-> t[1], description |-> t[2],
                     status |-> st]
        <4>1. FrameAt(data, p, n) = EpicAt(data, p)
          BY <2>1, Zenon DEF FrameAt
        <4>2. y \in EpicAt(data, p) <=>
                \E t \in Texts(data, p, 13), st \in StatusTryFrom(data[p + 13]) :
                  y = [id |-> Parse4Bytes(data, p), name |-> t[1], description |-> t[2],
                       status |-> st]
          BY EpicAtIs
        <4> QED BY <2>1, <4>1, <4>2, Zenon
      <3>2. x = [id |-> x.id, name |-> x.name, description |-> x.description,
                 status |-> x.status]
        BY <2>1, FrameParts, Zenon
      <3> QED BY <1>7, <1>10, <1>12, <1>13, <3>1, <3>2, Zenon
    <2>2. CASE n = 17
      <3>1. n # 13
        BY <2>2
      <3>2. y \in FrameAt(data, p, n) <=>
              \E t \in Texts(data, p, n), st \in StatusTryFrom(data[p + n]) :
                y = [id |-> Parse4Bytes(data, p), epic |-> Parse4Bytes(data, p + 4),
                     name |-> t[1], description |-> t[2], status |-> st]
        <4>1. FrameAt(data, p, n) = StoryAt(data, p)
          BY <3>1, Zenon DEF FrameAt
        <4>2. y \in StoryAt(data, p) <=>
                \E t \in Texts(data, p, 17), st \in StatusTryFrom(data[p + 17]) :
                  y = [id |-> Parse4Bytes(data, p), epic |-> Parse4Bytes(data, p + 4),
                       name |-> t[1], description |-> t[2],
                       status |-> st]
          BY StoryAtIs
        <4> QED BY <2>2, <4>1, <4>2, Zenon
      <3>3. x = [id |-> x.id, epic |-> x.epic, name |-> x.name,
                 description |-> x.description, status |-> x.status]
        BY <2>2, FrameParts, Zenon
      <3> QED BY <1>7, <1>10, <1>12, <1>13, <2>2, <3>2, <3>3, Zenon
    <2> QED BY <2>1, <2>2
  <1>15. /\ p + Size(n, x) <= N => FrameAt(data, p, n) = {x}
         /\ ~(p + Size(n, x) <= N) => FrameAt(data, p, n) = {}
    BY <1>14, Zenon
  <1> QED BY <1>15, Zenon DEF N

-----------------------------------------------------------------------------
(***************************************************************************)
(* The loop that reads frames.                                             *)
(***************************************************************************)

LEMMA Parse4Type ==
  ASSUME NEW data \in Seq(Byte), NEW p \in Nat, p + 4 <= Len(data)
  PROVE  Parse4Bytes(data, p) \in Nat
  <1>1. Len(data) \in Nat
    BY LenProperties
  <1>2. /\ p + 1 \in 1 .. Len(data) /\ p + 2 \in 1 .. Len(data)
        /\ p + 3 \in 1 .. Len(data) /\ p + 4 \in 1 .. Len(data)
    BY <1>1
  <1>3. /\ data[p + 1] \in Byte /\ data[p + 2] \in Byte
        /\ data[p + 3] \in Byte /\ data[p + 4] \in Byte
    BY <1>2, ElementOfSeq, Zenon
  <1>4. \A b \in Byte : b \in Nat
    BY DEF Byte
  <1>5. PICK a \in Nat, b \in Nat, c \in Nat, d \in Nat :
          /\ data[p + 1] = a /\ data[p + 2] = b /\ data[p + 3] = c /\ data[p + 4] = d
    BY <1>3, <1>4, Zenon
  <1>6. Parse4Bytes(data, p) = a + 256 * (b + 256 * (c + 256 * (d + 256 * 0)))
    BY <1>5, Zenon DEF Parse4Bytes, Low4
  <1> QED BY <1>6, SMT

LEMMA CutLength ==
  ASSUME NEW data, NEW q \in Nat, NEW k \in Nat
  PROVE  Len(SubSeq(data, q + 1, q + k)) = k
  <1>1. PICK S : \A i \in q + 1 .. q + k : data[i] \in S
    <2>1. \A i \in q + 1 .. q + k : data[i] \in {data[j] : j \in q + 1 .. q + k}
      OBVIOUS
    <2> QED BY <2>1
  <1>2. q + 1 \in Int /\ q + k \in Int
    OBVIOUS
  <1>3. Len(SubSeq(data, q + 1, q + k)) = IF q + 1 <= q + k THEN q + k - (q + 1) + 1 ELSE 0
    BY <1>1, <1>2, SubSeqProperties
  <1> QED BY <1>3

\* A frame is read of the bytes that are there.
LEMMA FrameAtSize ==
  ASSUME NEW n \in {13, 17}, NEW data \in Seq(Byte), NEW p \in Nat, p + n <= Len(data),
         NEW x \in FrameAt(data, p, n)
  PROVE  Size(n, x) \in Nat /\ p + Size(n, x) \in p + 1 .. Len(data)
  <1> DEFINE a == Parse4Bytes(data, p + n - 9)
             b == Parse4Bytes(data, p + n - 5)
  <1>1. Len(data) \in Nat /\ n \in Nat
    BY LenProperties
  <1>2. a \in Nat /\ b \in Nat
    <2>1. /\ p + n - 9 \in Nat /\ p + n - 9 + 4 <= Len(data)
          /\ p + n - 5 \in Nat /\ p + n - 5 + 4 <= Len(data)
      BY <1>1
    <2> QED BY <2>1, Parse4Type, Zenon
  <1>3. PICK t \in Texts(data, p, n) : x.name = t[1] /\ x.description = t[2]
    <2>1. CASE n = 13
      <3>1. x \in EpicAt(data, p)
        BY <2>1, Zenon DEF FrameAt
      <3>2. PICK t \in Texts(data, p, 13), st \in StatusTryFrom(data[p + 13]) :
              x = [id |-> Parse4Bytes(data, p), name |-> t[1], description |-> t[2],
                   status |-> st]
        BY <3>1, EpicAtIs
      <3> QED BY <2>1, <3>2, Zenon
    <2>2. CASE n = 17
      <3>1. n # 13
        BY <2>2
      <3>2. x \in StoryAt(data, p)
        BY <3>1, Zenon DEF FrameAt
      <3>3. PICK t \in Texts(data, p, 17), st \in StatusTryFrom(data[p + 17]) :
              x = [id |-> Parse4Bytes(data, p), epic |-> Parse4Bytes(data, p + 4),
                   name |-> t[1], description |-> t[2], status |-> st]
        BY <3>2, StoryAtIs
      <3> QED BY <2>2, <3>3, Zenon
    <2> QED BY <2>1, <2>2
  <1> DEFINE u == SubSeq(data, p + n + 0 + 1, p + n + 0 + a)
             v == SubSeq(data, p + n + a + 1, p + n + a + b)
  <1>4. p + n + a + b <= Len(data) /\ t = <<u, v>>
    BY <1>3, Zenon DEF Texts
  <1> HIDE DEF a, b
  <1>5. Len(u) = a /\ Len(v) = b
    <2>1. \A q, k \in Nat : Len(SubSeq(data, q + 1, q + k)) = k
      BY CutLength
    <2>2. p + n + 0 \in Nat /\ p + n + a \in Nat
      BY <1>1, <1>2
    <2> QED BY <1>2, <2>1, <2>2, Zenon
  <1>6. x.name = u /\ x.description = v
    BY <1>3, <1>4
  <1> HIDE DEF u, v
  <1>7. Size(n, x) = n + a + b
    BY <1>5, <1>6, Zenon DEF Size
  <1> QED BY <1>1, <1>2, <1>4, <1>7, SMT

LEMMA LeastNatural ==
  ASSUME NEW T \in SUBSET Nat, T # {}
  PROVE  \E m \in T : \A k \in T : m <= k
  <1> DEFINE R == {ss \in Nat \X Nat : ss[1] < ss[2]}
  <1>1. IsWellFoundedOn(R, Nat)
    BY NatLessThanWellFounded DEF OpToRel
  <1>2. \A a, b \in Nat : a < b => <<a, b>> \in R
    OBVIOUS
  <1> HIDE DEF R
  <1>3. PICK m \in T : \A k \in T : ~ (<<k, m>> \in R)
    BY <1>1, WFMin
  <1>4. \A k \in T : ~(k < m)
    BY <1>2, <1>3
  <1> QED BY <1>4

\* One turn of the loop, at p, where g has what the loop makes of the data after it.
Turn(g, data, n, atEnd, p) ==
  IF p = Len(data) THEN {<<>>}
  ELSE IF p + n > Len(data) THEN atEnd
  ELSE UNION {{<<x>> \o rest : rest \in g[p + Size(n, x)]} : x \in FrameAt(data, p, n)}

\* The loop from p on.
Loops(g, data, n, atEnd, p) ==
  g = [q \in p .. Len(data) |-> Turn(g, data, n, atEnd, q)]

\* A turn depends on later ones.
LEMMA TurnsAgree ==
  ASSUME NEW n \in {13, 17}, NEW data \in Seq(Byte), NEW p \in Nat, NEW atEnd, NEW f, NEW g,
         \A q \in p + 1 .. Len(data) : f[q] = g[q]
  PROVE  Turn(f, data, n, atEnd, p) = Turn(g, data, n, atEnd, p)
  <1>1. Len(data) \in Nat /\ n \in Nat
    BY LenProperties
  <1>2. ASSUME ~(p + n > Len(data))
        PROVE  {{<<x>> \o rest : rest \in f[p + Size(n, x)]} : x \in FrameAt(data, p, n)}
                 = {{<<x>> \o rest : rest \in g[p + Size(n, x)]} : x \in FrameAt(data, p, n)}
    <2>1. p + n <= Len(data)
      BY <1>1, <1>2
    <2>2. \A x \in FrameAt(data, p, n) : f[p + Size(n, x)] = g[p + Size(n, x)]
      BY <2>1, FrameAtSize, Zenon
    <2> QED BY <2>2, Zenon
  <1> QED BY <1>2, Zenon DEF Turn

LEMMA LoopExists ==
  ASSUME NEW n \in {13, 17}, NEW data \in Seq(Byte), NEW p \in 0 .. Len(data), NEW atEnd
  PROVE  \E g : Loops(g, data, n, atEnd, p)
  <1> DEFINE N == Len(data)
             Bad == {m \in 0 .. N : ~ \E g : Loops(g, data, n, atEnd, N - m)}
  <1>1. N \in Nat
    BY LenProperties
  <1>2. Bad = {}
    <2> SUFFICES ASSUME Bad # {} PROVE FALSE
      OBVIOUS
    <2>1. PICK m \in Bad : \A k \in Bad : m <= k
      <3>1. Bad \in SUBSET Nat
        OBVIOUS
      <3> QED BY <3>1, LeastNatural
    <2>2. m \in 0 .. N /\ ~ \E g : Loops(g, data, n, atEnd, N - m)
      OBVIOUS
    <2>3. m # 0
      <3> SUFFICES ASSUME m = 0 PROVE FALSE
        OBVIOUS
      <3>1. N - m = N /\ N .. N = {N}
        BY <1>1
      <3> DEFINE g == [q \in N .. N |-> {<<>>}]
      <3>2. \A q \in N .. N : Turn(g, data, n, atEnd, q) = {<<>>}
        BY <3>1, Zenon DEF Turn
      <3>3. g = [q \in N .. N |-> Turn(g, data, n, atEnd, q)]
        BY <3>2, Zenon
      <3>4. Loops(g, data, n, atEnd, N)
        BY <3>3, Zenon DEF Loops
      <3> QED BY <2>2, <3>1, <3>4, Zenon
    <2>4. /\ m - 1 \in 0 .. N /\ ~(m <= m - 1) /\ N - m \in Nat
          /\ N - (m - 1) = (N - m) + 1
      BY <1>1, <2>2, <2>3
    <2>5. PICK g : Loops(g, data, n, atEnd, (N - m) + 1)
      BY <2>1, <2>4
    <2> DEFINE first == N - m
               rest == first + 1
               h == [q \in first .. N |-> IF q = first THEN Turn(g, data, n, atEnd, first)
                                          ELSE g[q]]
    <2>6. \A q \in rest .. N : q \in first .. N /\ q # first /\ q \in Nat
      BY <2>4
    <2>7. \A q \in first .. N : q = first \/ q \in rest .. N
      BY <2>4
    <2>8. \A q \in rest .. N : h[q] = g[q]
      BY <2>6
    <2>9. \A q \in first .. N : Turn(h, data, n, atEnd, q) = Turn(g, data, n, atEnd, q)
      <3>1. ASSUME NEW q \in first .. N
            PROVE  Turn(h, data, n, atEnd, q) = Turn(g, data, n, atEnd, q)
        <4> HIDE DEF h
        <4>1. q \in Nat /\ \A i \in q + 1 .. N : i \in rest .. N
          BY <1>1, <2>4
        <4>2. \A i \in q + 1 .. N : h[i] = g[i]
          BY <2>8, <4>1
        <4> QED BY <4>1, <4>2, TurnsAgree
      <3> QED BY <3>1, Zenon
    <2>10. \A q \in rest .. N : g[q] = Turn(g, data, n, atEnd, q)
      BY <2>5, Zenon DEF Loops
    <2>11. \A q \in first .. N : h[q] = Turn(h, data, n, atEnd, q)
      <3>1. \A q \in first .. N : h[q] = Turn(g, data, n, atEnd, q)
        BY <2>7, <2>10
      <3> QED BY <2>9, <3>1, Zenon
    <2>12. h = [q \in first .. N |-> Turn(h, data, n, atEnd, q)]
      BY <2>11, Zenon
    <2> HIDE DEF h
    <2>13. Loops(h, data, n, atEnd, first)
      BY <2>12, Zenon DEF Loops
    <2> QED BY <2>2, <2>13
  <1>3. N - p \in 0 .. N /\ N - (N - p) = p
    BY <1>1
  <1> QED BY <1>2, <1>3

LEMMA FramesLoop ==
  ASSUME NEW n \in {13, 17}, NEW data \in Seq(Byte), NEW start \in 0 .. Len(data), NEW atEnd
  PROVE  \E g : /\ Frames(data, start, n, atEnd) = g[start]
                /\ \A p \in start .. Len(data) : g[p] = Turn(g, data, n, atEnd, p)
  <1> DEFINE g == CHOOSE g : g = [p \in start .. Len(data) |-> Turn(g, data, n, atEnd, p)]
  <1>1. g = [p \in start .. Len(data) |-> Turn(g, data, n, atEnd, p)]
    <2>1. PICK f : Loops(f, data, n, atEnd, start)
      BY LoopExists
    <2>2. f = [p \in start .. Len(data) |-> Turn(f, data, n, atEnd, p)]
      BY <2>1, Zenon DEF Loops
    <2> QED BY <2>2
  <1>2. Frames(data, start, n, atEnd) = g[start]
    BY DEF Frames, Turn
  <1> HIDE DEF g
  <1>3. \A p \in start .. Len(data) : g[p] = Turn(g, data, n, atEnd, p)
    BY <1>1, Zenon
  <1> QED BY <1>2, <1>3

-----------------------------------------------------------------------------
(***************************************************************************)
(* Frames one after the other: the i-th ends after off[i] bytes.  The data *)
(* may end anywhere within them.                                           *)
(***************************************************************************)
Laid(data, n, frames, off) ==
  /\ frames \in Seq(FrameSet(n))
  /\ off \in [0 .. Len(frames) -> Nat]
  /\ \A i \in 1 .. Len(frames) :
       /\ off[i] = off[i - 1] + Size(n, frames[i])
       /\ Begins(data, off[i - 1], FrameBytes(n, frames[i]))
  /\ off[0] <= Len(data) /\ Len(data) <= off[Len(frames)]

\* Sequences of some of the frames.
OfFrames(n, frames) ==
  {f \in Seq(FrameSet(n)) : \A j \in 1 .. Len(f) : \E k \in 1 .. Len(frames) : f[j] = frames[k]}

\* One of the frames, and the place of the next.
LEMMA LaidStep ==
  ASSUME NEW n \in {13, 17}, NEW data \in Seq(Byte), NEW frames, NEW off,
         Laid(data, n, frames, off), NEW i \in 1 .. Len(frames)
  PROVE  /\ i - 1 \in 0 .. Len(frames) /\ i \in 0 .. Len(frames)
         /\ off[i - 1] \in Nat /\ off[i] \in Nat /\ frames[i] \in FrameSet(n)
         /\ Size(n, frames[i]) \in Nat /\ Size(n, frames[i]) >= n
         /\ off[i] = off[i - 1] + Size(n, frames[i])
         /\ off[i - 1] + n <= off[i]
         /\ Begins(data, off[i - 1], FrameBytes(n, frames[i]))
  <1>1. Len(frames) \in Nat /\ n \in Nat
    BY LenProperties DEF Laid
  <1>2. i - 1 \in 0 .. Len(frames) /\ i \in 0 .. Len(frames)
    BY <1>1
  <1>3. frames[i] \in FrameSet(n)
    BY ElementOfSeq DEF Laid
  <1>4. off[i - 1] \in Nat /\ off[i] \in Nat
    BY <1>2 DEF Laid
  <1>5. Size(n, frames[i]) \in Nat /\ Size(n, frames[i]) >= n
    BY <1>3, FrameBytesType, Zenon
  <1>6. /\ off[i] = off[i - 1] + Size(n, frames[i])
        /\ Begins(data, off[i - 1], FrameBytes(n, frames[i]))
    BY Zenon DEF Laid
  <1>7. off[i - 1] + n <= off[i]
    BY <1>1, <1>4, <1>5, <1>6
  <1> QED BY <1>2, <1>3, <1>4, <1>5, <1>6, <1>7, Zenon

LEMMA LaidFrom ==
  ASSUME NEW n \in {13, 17}, NEW data \in Seq(Byte), NEW frames, NEW off,
         Laid(data, n, frames, off)
  PROVE  \A i \in 0 .. Len(frames) : off[i] \in Nat /\ off[0] <= off[i]
  <1> DEFINE m == Len(frames)
             Bad == {i \in 0 .. m : ~(off[0] <= off[i])}
  <1>1. m \in Nat /\ n \in Nat /\ off[0] \in Nat
    <2>1. m \in Nat
      BY LenProperties DEF Laid
    <2>2. 0 \in 0 .. m /\ n \in Nat
      BY <2>1
    <2> QED BY <2>1, <2>2 DEF Laid
  <1>2. Bad = {}
    <2> SUFFICES ASSUME Bad # {} PROVE FALSE
      OBVIOUS
    <2>1. PICK i \in Bad : \A k \in Bad : i <= k
      <3>1. Bad \in SUBSET Nat
        OBVIOUS
      <3> QED BY <3>1, LeastNatural
    <2>2. i # 0
      BY <1>1
    <2>3. i \in 1 .. m /\ i - 1 \in 0 .. m /\ ~(i <= i - 1)
      BY <1>1, <2>2
    <2>4. off[0] <= off[i - 1]
      BY <2>1, <2>3
    <2>5. off[i - 1] + n <= off[i] /\ off[i - 1] \in Nat /\ off[i] \in Nat
      BY <2>3, LaidStep, Zenon
    <2> QED BY <1>1, <2>4, <2>5
  <1>3. \A i \in 0 .. m : off[i] \in Nat
    BY DEF Laid
  <1> QED BY <1>2, <1>3

\* Of data that ends anywhere, what is read is some of the frames.
LEMMA FramesOfPart ==
  ASSUME NEW n \in {13, 17}, NEW data \in Seq(Byte), NEW frames, NEW off,
         Laid(data, n, frames, off), NEW atEnd, atEnd \subseteq {<<>>}
  PROVE  Frames(data, off[0], n, atEnd) \subseteq OfFrames(n, frames)
  <1> DEFINE N == Len(data)
             m == Len(frames)
             F == OfFrames(n, frames)
  <1>1. N \in Nat /\ m \in Nat /\ n \in Nat /\ 0 \in 0 .. m /\ m \in 0 .. m
    BY LenProperties DEF Laid
  <1>2. off[0] \in 0 .. N /\ off[0] \in Nat
    BY <1>1 DEF Laid
  <1>3. PICK g : /\ Frames(data, off[0], n, atEnd) = g[off[0]]
                 /\ \A p \in off[0] .. N : g[p] = Turn(g, data, n, atEnd, p)
    BY <1>2, FramesLoop
  <1>4. \A i \in 0 .. m : off[i] \in Nat /\ off[0] <= off[i]
    BY LaidFrom, Zenon
  <1>5. <<>> \in F
    <2>1. <<>> \in Seq(FrameSet(n)) /\ Len(<<>>) = 0
      BY EmptySeq
    <2>2. 1 .. 0 = {}
      OBVIOUS
    <2> QED BY <2>1, <2>2, Zenon DEF OfFrames
  <1>6. ASSUME NEW i \in 1 .. m, NEW f \in F
        PROVE  <<frames[i]>> \o f \in F
    <2> DEFINE s == <<frames[i]>> \o f
    <2>1. frames[i] \in FrameSet(n) /\ f \in Seq(FrameSet(n))
      BY <1>6, LaidStep, Zenon DEF OfFrames
    <2>2. <<frames[i]>> \in Seq(FrameSet(n)) /\ Len(<<frames[i]>>) = 1 /\ Len(f) \in Nat
      BY <2>1, LenProperties
    <2>3. s \in Seq(FrameSet(n)) /\ Len(s) = 1 + Len(f)
      BY <2>1, <2>2, ConcatProperties
    <2>4. ASSUME NEW j \in 1 .. Len(s) PROVE \E k \in 1 .. m : s[j] = frames[k]
      <3>1. CASE j = 1
        <4>1. s[j] = frames[i]
          BY <2>1, <2>2, <3>1, ConcatProperties
        <4> QED BY <4>1
      <3>2. CASE j # 1
        <4>1. j \in 1 + 1 .. 1 + Len(f) /\ j - 1 \in 1 .. Len(f)
          BY <2>2, <2>3, <3>2
        <4>2. s[j] = f[j - 1]
          BY <2>1, <2>2, <4>1, ConcatProperties
        <4> QED BY <4>1, <4>2, Zenon DEF OfFrames
      <3> QED BY <3>1, <3>2
    <2> QED BY <2>3, <2>4, Zenon DEF OfFrames
  <1> DEFINE Bad == {k \in 0 .. m : off[m - k] <= N /\ ~(g[off[m - k]] \subseteq F)}
  <1>7. Bad = {}
    <2> SUFFICES ASSUME Bad # {} PROVE FALSE
      OBVIOUS
    <2>1. PICK k \in Bad : \A l \in Bad : k <= l
      <3>1. Bad \in SUBSET Nat
        OBVIOUS
      <3> QED BY <3>1, LeastNatural
    <2> DEFINE i == m - k
               p == off[i]
    <2>2. i \in 0 .. m /\ p <= N /\ ~(g[p] \subseteq F)
      BY <1>1
    <2>3. p \in Nat /\ p \in off[0] .. N
      BY <1>1, <1>2, <1>4, <2>2
    <2>4. g[p] = Turn(g, data, n, atEnd, p)
      BY <1>3, <2>3, Zenon
    <2>5. p # N /\ ~(p + n > N)
      <3> HIDE DEF p
      <3>1. p = N => Turn(g, data, n, atEnd, p) = {<<>>}
        BY Zenon DEF Turn
      <3>2. p # N /\ p + n > N => Turn(g, data, n, atEnd, p) = atEnd
        BY Zenon DEF Turn
      <3> QED BY <1>5, <2>2, <2>4, <3>1, <3>2, Zenon
    <2>6. i # m
      BY <1>1, <2>2, <2>3, <2>5 DEF Laid
    <2>7. /\ i + 1 \in 1 .. m /\ (i + 1) - 1 = i /\ m - (k - 1) = i + 1
          /\ k - 1 \in 0 .. m /\ ~(k <= k - 1) /\ p + n <= N
      <3>1. i # m /\ i \in 0 .. m /\ k \in 0 .. m
        BY <2>2, <2>6
      <3>2. /\ i + 1 \in 1 .. m /\ (i + 1) - 1 = i /\ m - (k - 1) = i + 1
            /\ k - 1 \in 0 .. m /\ ~(k <= k - 1)
        BY <1>1, <3>1
      <3>3. p + n <= N
        <4> HIDE DEF p, N
        <4> QED BY <1>1, <2>3, <2>5
      <3> QED BY <3>2, <3>3, Zenon
    <2> DEFINE x == frames[i + 1]
    <2>8. /\ x \in FrameSet(n) /\ off[i + 1] = p + Size(n, x)
          /\ Begins(data, p, FrameBytes(n, x))
      <3>1. ASSUME NEW j \in 1 .. m
            PROVE  /\ frames[j] \in FrameSet(n)
                   /\ off[j] = off[j - 1] + Size(n, frames[j])
                   /\ Begins(data, off[j - 1], FrameBytes(n, frames[j]))
        BY LaidStep
      <3> HIDE DEF i
      <3> QED BY <2>7, <3>1, Zenon
    <2>9. \/ FrameAt(data, p, n) = {x} /\ off[i + 1] <= N
          \/ FrameAt(data, p, n) = {}
      <3> HIDE DEF p, x, i
      <3>1. p + n <= Len(data) /\ p \in Nat /\ x \in FrameSet(n)
        BY <2>3, <2>7, <2>8, Zenon
      <3>2. /\ p + Size(n, x) <= Len(data) => FrameAt(data, p, n) = {x}
            /\ ~(p + Size(n, x) <= Len(data)) => FrameAt(data, p, n) = {}
        BY <2>8, <3>1, FrameAtBegins, Zenon
      <3> QED BY <2>8, <3>2, Zenon
    <2>10. off[i + 1] <= N => g[p + Size(n, x)] \subseteq F
      BY <2>1, <2>7, <2>8
    <2> HIDE DEF p, x, N, F
    <2>11. g[p] = UNION {{<<y>> \o rest : rest \in g[p + Size(n, y)]} : y \in FrameAt(data, p, n)}
      BY <2>4, <2>5, Zenon DEF Turn, N
    <2>12. \A rest \in F : <<x>> \o rest \in F
      BY <1>6, <2>7, Zenon DEF x
    <2>13. ASSUME NEW f \in g[p] PROVE f \in F
      <3>1. PICK y \in FrameAt(data, p, n) : \E rest \in g[p + Size(n, y)] : f = <<y>> \o rest
        BY <2>11, <2>13, Zenon
      <3>2. y = x /\ off[i + 1] <= N
        BY <2>9, <3>1, Zenon
      <3> QED BY <2>10, <2>12, <3>1, <3>2, Zenon
    <2> QED BY <2>2, <2>13, Zenon
  <1>8. m - 0 \in 0 .. m /\ m \in 0 .. m /\ m - m = 0 /\ off[0] <= N
    BY <1>1, <1>2
  <1> QED BY <1>3, <1>7, <1>8

\* Data that is whole.
LaidOut(data, n, frames, off) ==
  Laid(data, n, frames, off) /\ Len(data) = off[Len(frames)]

\* Of it, what is read are the frames.
ReadWhole(data, start, n, atEnd, frames) == Frames(data, start, n, atEnd) = {frames}

LEMMA FramesOfWhole ==
  ASSUME NEW n \in {13, 17}, NEW data \in Seq(Byte), NEW frames, NEW off, NEW atEnd,
         LaidOut(data, n, frames, off)
  PROVE  ReadWhole(data, off[0], n, atEnd, frames)
  <1> SUFFICES ASSUME Laid(data, n, frames, off), Len(data) = off[Len(frames)]
               PROVE  Frames(data, off[0], n, atEnd) = {frames}
    BY Zenon DEF LaidOut, ReadWhole
  <1> DEFINE N == Len(data)
             m == Len(frames)
             after(i) == SubSeq(frames, i + 1, m)
  <1>1. N \in Nat /\ m \in Nat /\ n \in Nat /\ n > 0 /\ 0 \in 0 .. m /\ m \in 0 .. m
    BY LenProperties DEF Laid
  <1>2. off[0] \in 0 .. N /\ off[0] \in Nat
    BY <1>1 DEF Laid
  <1>3. PICK g : /\ Frames(data, off[0], n, atEnd) = g[off[0]]
                 /\ \A p \in off[0] .. N : g[p] = Turn(g, data, n, atEnd, p)
    BY <1>2, FramesLoop
  <1>4. \A i \in 0 .. m : off[i] \in Nat /\ off[0] <= off[i]
    BY LaidFrom, Zenon
  <1> DEFINE Good(i) == off[i] <= N /\ g[off[i]] = {after(i)}
             Bad == {k \in 0 .. m : ~Good(m - k)}
  <1>5. Bad = {}
    <2> SUFFICES ASSUME Bad # {} PROVE FALSE
      OBVIOUS
    <2>1. PICK k \in Bad : \A l \in Bad : k <= l
      <3>1. Bad \in SUBSET Nat
        OBVIOUS
      <3> QED BY <3>1, LeastNatural
    <2> DEFINE i == m - k
               p == off[i]
    <2>2. i \in 0 .. m /\ ~Good(i) /\ k \in 0 .. m
      <3>1. k \in 0 .. m /\ ~Good(m - k)
        OBVIOUS
      <3> QED BY <1>1, <3>1
    <2>3. i # m
      <3> SUFFICES ASSUME i = m PROVE FALSE
        OBVIOUS
      <3>1. off[m] = N /\ N \in off[0] .. N
        BY <1>1, <1>2
      <3>2. g[off[m]] = Turn(g, data, n, atEnd, N)
        BY <1>3, <3>1, Zenon
      <3>3. Turn(g, data, n, atEnd, N) = {<<>>}
        BY Zenon DEF Turn
      <3>4. after(m) = <<>>
        <4>1. m + 1 \in Int /\ m \in Int /\ m < m + 1
          BY <1>1
        <4> QED BY <4>1, SubSeqEmpty
      <3>5. off[m] <= N
        BY <1>1, <3>1
      <3>6. Good(m)
        BY <3>2, <3>3, <3>4, <3>5, Zenon
      <3> HIDE DEF Good
      <3> QED BY <2>2, <3>6
    <2>4. /\ i + 1 \in 1 .. m /\ (i + 1) - 1 = i /\ m - (k - 1) = i + 1
          /\ k - 1 \in 0 .. m /\ ~(k <= k - 1)
      <3> HIDE DEF Good
      <3> QED BY <1>1, <2>2, <2>3
    <2> DEFINE x == frames[i + 1]
    <2>5. /\ x \in FrameSet(n) /\ off[i + 1] = p + Size(n, x)
          /\ Begins(data, p, FrameBytes(n, x))
          /\ p + n <= off[i + 1] /\ p \in Nat /\ off[i + 1] \in Nat
      <3>1. ASSUME NEW j \in 1 .. m
            PROVE  /\ frames[j] \in FrameSet(n)
                   /\ off[j] = off[j - 1] + Size(n, frames[j])
                   /\ Begins(data, off[j - 1], FrameBytes(n, frames[j]))
                   /\ off[j - 1] + n <= off[j] /\ off[j - 1] \in Nat /\ off[j] \in Nat
        BY LaidStep
      <3> HIDE DEF i
      <3> QED BY <2>4, <3>1, Zenon
    <2>6. off[i + 1] <= N /\ g[off[i + 1]] = {after(i + 1)}
      <3>1. Good(m - (k - 1))
        <4> HIDE DEF Good
        <4> QED BY <2>1, <2>4
      <3> HIDE DEF i
      <3> QED BY <2>4, <3>1, Zenon
    <2>7. off[0] <= p
      BY <1>4, <2>2
    <2>8. p \in off[0] .. N /\ p # N /\ ~(p + n > N) /\ p + n <= N
      <3> HIDE DEF p
      <3> QED BY <1>1, <1>2, <2>5, <2>6, <2>7
    <2> HIDE DEF p, x, Good
    <2>9. FrameAt(data, p, n) = {x}
      <3>1. p + Size(n, x) <= Len(data)
        BY <2>5, <2>6, Zenon
      <3>2. p + n <= Len(data)
        BY <2>8, Zenon
      <3>3. p + Size(n, x) <= Len(data) => FrameAt(data, p, n) = {x}
        BY <2>5, <3>2, FrameAtBegins
      <3> QED BY <3>1, <3>3, Zenon
    <2>10. g[p] = UNION {{<<y>> \o rest : rest \in g[p + Size(n, y)]} : y \in FrameAt(data, p, n)}
      BY <1>3, <2>8, Zenon DEF Turn
    <2>11. <<x>> \o after(i + 1) = after(i)
      <3>1. i + 1 \in 1 .. Len(frames) /\ m \in i + 1 .. Len(frames) /\ frames \in Seq(FrameSet(n))
        BY <1>1, <2>4 DEF Laid
      <3> HIDE DEF i
      <3> QED BY <3>1, SubSeqRecursiveFirst, Zenon DEF x
    <2> HIDE DEF after
    <2>12. g[p] = {after(i)}
      <3>1. g[p + Size(n, x)] = {after(i + 1)}
        BY <2>5, <2>6, Zenon
      <3>2. g[p] = UNION {{<<y>> \o rest : rest \in g[p + Size(n, y)]} : y \in {x}}
        BY <2>9, <2>10, Zenon
      <3>3. g[p] = {<<x>> \o rest : rest \in g[p + Size(n, x)]}
        BY <3>2, Zenon
      <3>4. g[p] = {<<x>> \o after(i + 1)}
        BY <3>1, <3>3, Zenon
      <3> QED BY <2>11, <3>4, Zenon
    <2>13. p <= N
      BY <1>1, <2>8
    <2> HIDE DEF i
    <2> QED BY <2>2, <2>12, <2>13, Zenon DEF Good, p
  <1>6. m - m = 0 /\ m \in 0 .. m
    BY <1>1
  <1>7. Good(0)
    <2> HIDE DEF Good
    <2> QED BY <1>5, <1>6
  <1>8. after(0) = frames
    <2>1. 0 + 1 = 1
      OBVIOUS
    <2> QED BY <2>1, SubSeqFull, Zenon DEF Laid
  <1> QED BY <1>3, <1>7, <1>8, Zenon

-----------------------------------------------------------------------------
(***************************************************************************)
(* Sequences of bytes one after the other: flat[i] are the first i.        *)
(***************************************************************************)
Flat(flat, seqs, m) ==
  /\ flat \in [0 .. m -> Seq(Byte)]
  /\ flat[0] = <<>>
  /\ \A i \in 1 .. m : flat[i] = flat[i - 1] \o seqs[i]

LEMMA FlatExists ==
  ASSUME NEW seqs \in Seq(Seq(Byte))
  PROVE  \E flat : Flat(flat, seqs, Len(seqs))
  <1> DEFINE N == Len(seqs)
             Bad == {m \in 0 .. N : ~ \E flat : Flat(flat, seqs, m)}
  <1>1. N \in Nat
    BY LenProperties
  <1>2. Bad = {}
    <2> SUFFICES ASSUME Bad # {} PROVE FALSE
      OBVIOUS
    <2>1. PICK m \in Bad : \A k \in Bad : m <= k
      <3>1. Bad \in SUBSET Nat
        OBVIOUS
      <3> QED BY <3>1, LeastNatural
    <2>2. m # 0
      <3> DEFINE f == [i \in 0 .. 0 |-> <<>>]
      <3>1. <<>> \in Seq(Byte)
        BY EmptySeq
      <3>2. f \in [0 .. 0 -> Seq(Byte)] /\ f[0] = <<>> /\ 1 .. 0 = {}
        BY <3>1
      <3> HIDE DEF f
      <3>3. Flat(f, seqs, 0)
        BY <3>2, Zenon DEF Flat
      <3> QED BY <3>3
    <2>3. m \in 1 .. N /\ m - 1 \in 0 .. N /\ ~(m <= m - 1)
      BY <1>1, <2>2
    <2>4. PICK f : Flat(f, seqs, m - 1)
      BY <2>1, <2>3
    <2> DEFINE last == f[m - 1] \o seqs[m]
               g == [i \in 0 .. m |-> IF i = m THEN last ELSE f[i]]
    <2>5. last \in Seq(Byte)
      <3>1. f[m - 1] \in Seq(Byte)
        <4>1. m - 1 \in 0 .. m - 1
          BY <1>1, <2>3
        <4> QED BY <2>4, <4>1, Zenon DEF Flat
      <3>2. seqs[m] \in Seq(Byte)
        BY <2>3, ElementOfSeq
      <3> QED BY <3>1, <3>2, ByteSeq, Zenon
    <2>6. \A i \in 0 .. m : i # m => i \in 0 .. m - 1
      BY <1>1, <2>3
    <2>7. \A i \in 0 .. m : g[i] \in Seq(Byte)
      <3> HIDE DEF last
      <3> QED BY <2>4, <2>5, <2>6, Zenon DEF Flat
    <2>8. g[0] = <<>>
      <3>1. 0 \in 0 .. m /\ 0 # m
        BY <2>3
      <3> QED BY <2>4, <3>1, Zenon DEF Flat
    <2>9. ASSUME NEW i \in 1 .. m PROVE g[i] = g[i - 1] \o seqs[i]
      <3>1. i \in 0 .. m /\ i - 1 \in 0 .. m /\ i - 1 # m
        BY <2>3
      <3>2. g[i - 1] = f[i - 1]
        BY <3>1, Zenon
      <3>3. CASE i = m
        BY <3>1, <3>2, <3>3, Zenon
      <3>4. CASE i # m
        <4>1. i \in 1 .. m - 1
          BY <2>3, <3>4
        <4>2. g[i] = f[i]
          BY <3>1, <3>4, Zenon
        <4> QED BY <2>4, <3>2, <4>1, <4>2, Zenon DEF Flat
      <3> QED BY <3>3, <3>4
    <2>10. g \in [0 .. m -> Seq(Byte)]
      BY <2>7, Zenon
    <2> HIDE DEF g
    <2>11. Flat(g, seqs, m)
      BY <2>8, <2>9, <2>10, Zenon DEF Flat
    <2> QED BY <2>11
  <1>3. N \in 0 .. N
    BY <1>1
  <1> QED BY <1>2, <1>3

LEMMA FlattenIs ==
  ASSUME NEW seqs \in Seq(Seq(Byte)), NEW flat, Flat(flat, seqs, Len(seqs))
  PROVE  FlattenSeq(seqs) = flat[Len(seqs)]
  <1> DEFINE N == Len(seqs)
             Body(f) == [i \in 1 .. N |-> IF i = 1 THEN seqs[i] ELSE f[i - 1] \o seqs[i]]
             up == CHOOSE f : f = Body(f)
             h == [i \in 1 .. N |-> flat[i]]
  <1>1. N \in Nat
    BY LenProperties
  <1>2. CASE N = 0
    <2>1. seqs = <<>>
      BY <1>2, EmptySeq
    <2>2. FlattenSeq(seqs) = seqs
      BY <1>2 DEF FlattenSeq
    <2> QED BY <1>2, <2>1, <2>2, Zenon DEF Flat
  <1>3. CASE N # 0
    <2>1. \A i \in 1 .. N : h[i] = IF i = 1 THEN seqs[i] ELSE h[i - 1] \o seqs[i]
      <3>1. ASSUME NEW i \in 1 .. N
            PROVE  h[i] = IF i = 1 THEN seqs[i] ELSE h[i - 1] \o seqs[i]
        <4>1. h[i] = flat[i - 1] \o seqs[i]
          BY Zenon DEF Flat
        <4>2. CASE i = 1
          <5>1. flat[i - 1] = <<>>
            <6>1. i - 1 = 0
              BY <4>2
            <6> QED BY <6>1, Zenon DEF Flat
          <5>2. seqs[i] \in Seq(Byte)
            BY ElementOfSeq
          <5>3. <<>> \o seqs[i] = seqs[i]
            BY <5>2, ConcatEmptySeq
          <5> QED BY <4>1, <4>2, <5>1, <5>3, Zenon
        <4>3. CASE i # 1
          <5>1. i - 1 \in 1 .. N
            BY <1>1, <4>3
          <5> QED BY <4>1, <4>3, <5>1, Zenon
        <4> QED BY <4>2, <4>3
      <3> QED BY <3>1, Zenon
    <2>2. h = Body(h)
      BY <2>1, Zenon
    <2> HIDE DEF h
    <2>3. up = Body(up)
      BY <2>2, Zenon
    <2>4. FlattenSeq(seqs) = up[N]
      BY <1>3 DEF FlattenSeq
    <2> HIDE DEF up
    <2>5. \A i \in 1 .. N : up[i] = IF i = 1 THEN seqs[i] ELSE up[i - 1] \o seqs[i]
      BY <2>3, Zenon
    <2> DEFINE Bad == {i \in 1 .. N : up[i] # h[i]}
    <2>6. Bad = {}
      <3> SUFFICES ASSUME Bad # {} PROVE FALSE
        OBVIOUS
      <3>1. PICK i \in Bad : \A k \in Bad : i <= k
        <4>1. Bad \in SUBSET Nat
          OBVIOUS
        <4> QED BY <4>1, LeastNatural
      <3>2. i # 1
        <4>1. i \in 1 .. N /\ up[i] # h[i]
          OBVIOUS
        <4> QED BY <2>1, <2>5, <4>1, Zenon
      <3>3. i \in 1 .. N /\ i - 1 \in 1 .. N /\ ~(i <= i - 1)
        BY <1>1, <3>2
      <3>4. up[i - 1] = h[i - 1]
        BY <3>1, <3>3
      <3>5. up[i] = h[i]
        BY <2>1, <2>5, <3>2, <3>3, <3>4, Zenon
      <3> QED BY <3>5
    <2>7. N \in 1 .. N
      BY <1>1, <1>3
    <2>8. up[N] = h[N]
      BY <2>6, <2>7
    <2> QED BY <2>4, <2>7, <2>8, Zenon DEF h
  <1> QED BY <1>2, <1>3

\* The first k hold the first i.
LEMMA FlatGrows ==
  ASSUME NEW seqs \in Seq(Seq(Byte)), NEW flat, Flat(flat, seqs, Len(seqs)),
         NEW i \in 0 .. Len(seqs), NEW k \in i .. Len(seqs)
  PROVE  /\ flat[i] \in Seq(Byte) /\ flat[k] \in Seq(Byte)
         /\ Len(flat[i]) \in Nat /\ Len(flat[k]) \in Nat /\ Len(flat[i]) <= Len(flat[k])
  <1> DEFINE N == Len(seqs)
             Bad == {j \in i .. N : ~(Len(flat[i]) <= Len(flat[j]))}
  <1>1. N \in Nat
    BY LenProperties
  <1>2. \A j \in 0 .. N : flat[j] \in Seq(Byte) /\ Len(flat[j]) \in Nat
    BY LenProperties DEF Flat
  <1>3. \A j \in 1 .. N : seqs[j] \in Seq(Byte) /\ Len(seqs[j]) \in Nat
    BY ElementOfSeq, LenProperties
  <1>4. Bad = {}
    <2> SUFFICES ASSUME Bad # {} PROVE FALSE
      OBVIOUS
    <2>1. PICK j \in Bad : \A l \in Bad : j <= l
      <3>1. Bad \in SUBSET Nat
        OBVIOUS
      <3> QED BY <3>1, LeastNatural
    <2>2. j \in i .. N /\ ~(Len(flat[i]) <= Len(flat[j]))
      OBVIOUS
    <2>3. j # i
      BY <1>2, <2>2
    <2>4. j \in 1 .. N /\ j - 1 \in i .. N /\ j - 1 \in 0 .. N /\ ~(j <= j - 1) /\ j \in 0 .. N
      BY <1>1, <2>2, <2>3
    <2>5. Len(flat[i]) <= Len(flat[j - 1])
      BY <2>1, <2>4
    <2>6. flat[j] = flat[j - 1] \o seqs[j]
      BY <2>4, Zenon DEF Flat
    <2>7. Len(flat[j]) = Len(flat[j - 1]) + Len(seqs[j])
      BY <1>2, <1>3, <2>4, <2>6, ByteSeq
    <2>8. /\ Len(flat[j - 1]) \in Nat /\ Len(seqs[j]) \in Nat
          /\ Len(flat[i]) \in Nat /\ Len(flat[j]) \in Nat
      BY <1>2, <1>3, <2>4
    <2>9. \A a, b, c \in Nat : a <= b => a <= b + c
      OBVIOUS
    <2>10. Len(flat[i]) <= Len(flat[j - 1]) + Len(seqs[j])
      BY <2>5, <2>8, <2>9, Zenon
    <2> QED BY <2>2, <2>7, <2>10, Zenon
  <1>5. k \in 0 .. N
    BY <1>1
  <1> QED BY <1>2, <1>4, <1>5

\* Each sequence is at its place among the first k of them.
LEMMA FlatAt ==
  ASSUME NEW seqs \in Seq(Seq(Byte)), NEW flat, Flat(flat, seqs, Len(seqs)),
         NEW i \in 1 .. Len(seqs), NEW k \in i .. Len(seqs)
  PROVE  At(flat[k], Len(flat[i - 1]), seqs[i])
  <1> DEFINE N == Len(seqs)
             p == Len(flat[i - 1])
             Bad == {j \in i .. N : ~At(flat[j], p, seqs[i])}
  <1>1. N \in Nat
    BY LenProperties
  <1>2. \A j \in 0 .. N : flat[j] \in Seq(Byte)
    BY Zenon DEF Flat
  <1>3. \A j \in 1 .. N : flat[j] = flat[j - 1] \o seqs[j] /\ seqs[j] \in Seq(Byte)
    BY ElementOfSeq, Zenon DEF Flat
  <1>4. i - 1 \in 0 .. N /\ i \in Nat
    BY <1>1
  <1>5. p \in Nat
    BY <1>2, <1>4, LenProperties
  <1>6. Bad = {}
    <2> SUFFICES ASSUME Bad # {} PROVE FALSE
      OBVIOUS
    <2>1. PICK j \in Bad : \A l \in Bad : j <= l
      <3>1. Bad \in SUBSET Nat
        BY <1>4
      <3> QED BY <3>1, LeastNatural
    <2>2. j \in i .. N /\ ~At(flat[j], p, seqs[i])
      OBVIOUS
    <2>3. j \in 1 .. N /\ j - 1 \in 0 .. N /\ ~(j <= j - 1)
      BY <1>1, <1>4, <2>2
    <2>4. flat[j] = flat[j - 1] \o seqs[j]
      BY <1>3, <2>3, Zenon
    <2>5. j # i
      <3> SUFFICES ASSUME j = i PROVE FALSE
        OBVIOUS
      <3>1. flat[i - 1] \in Seq(Byte) /\ seqs[i] \in Seq(Byte)
        BY <1>2, <1>3, <1>4
      <3>2. At(flat[i - 1] \o seqs[i], p, seqs[i])
        BY <3>1, AtSelf
      <3> QED BY <2>2, <2>4, <3>2, Zenon
    <2>6. j - 1 \in i .. N
      BY <1>1, <1>4, <2>2, <2>5
    <2>7. At(flat[j - 1], p, seqs[i])
      BY <2>1, <2>3, <2>6
    <2>8. /\ flat[j - 1] \in Seq(Byte) /\ seqs[j] \in Seq(Byte) /\ seqs[i] \in Seq(Byte)
          /\ flat[i] \in Seq(Byte) /\ flat[i - 1] \in Seq(Byte)
          /\ flat[i] = flat[i - 1] \o seqs[i]
      <3>1. i \in 0 .. N
        BY <1>4
      <3> QED BY <1>2, <1>3, <1>4, <2>3, <3>1, Zenon
    <2>9. p + Len(seqs[i]) <= Len(flat[j - 1])
      <3>1. Len(flat[i]) = p + Len(seqs[i])
        BY <2>8, ByteSeq, Zenon
      <3>2. i \in 0 .. N
        BY <1>4
      <3>3. Len(flat[i]) <= Len(flat[j - 1])
        BY <2>6, <3>2, FlatGrows, Zenon
      <3> QED BY <3>1, <3>3, Zenon
    <2>10. ASSUME NEW q \in 1 .. Len(seqs[i])
           PROVE  flat[j][p + q] = seqs[i][q]
      <3> DEFINE s == flat[j - 1]
                 u == seqs[j]
      <3>1. s \in Seq(Byte) /\ u \in Seq(Byte) /\ Len(s) \in Nat /\ Len(seqs[i]) \in Nat
        BY <2>8, LenProperties
      <3>2. p + q \in 1 .. Len(s)
        <4> HIDE DEF s, p
        <4>1. p + Len(seqs[i]) <= Len(s)
          BY <2>9 DEF s
        <4> QED BY <1>5, <3>1, <4>1
      <3>3. (s \o u)[p + q] = s[p + q]
        <4> HIDE DEF s, u, p
        <4> QED BY <3>1, <3>2, ConcatProperties
      <3> QED BY <2>4, <2>7, <3>3, Zenon DEF At
    <2> QED BY <2>2, <2>10, Zenon DEF At
  <1> QED BY <1>6

-----------------------------------------------------------------------------
(***************************************************************************)
(* Some bytes and then frames, cut anywhere after the bytes.               *)
(***************************************************************************)
AfterHead(head, n, frames) ==
  head \o FlattenSeq([i \in DOMAIN frames |-> FrameBytes(n, frames[i])])

LEMMA LaidPrefix ==
  ASSUME NEW n \in {13, 17}, NEW frames \in Seq(FrameSet(n)), NEW head \in Seq(Byte)
  PROVE  /\ AfterHead(head, n, frames) \in Seq(Byte)
         /\ FlattenSeq([i \in DOMAIN frames |-> FrameBytes(n, frames[i])]) \in Seq(Byte)
         /\ At(AfterHead(head, n, frames), 0, head)
         /\ Len(head) \in 0 .. Len(AfterHead(head, n, frames))
         /\ \A l \in Len(head) .. Len(AfterHead(head, n, frames)) :
              \E off : /\ Laid(SubSeq(AfterHead(head, n, frames), 1, l), n, frames, off)
                       /\ off[0] = Len(head)
                       /\ off[Len(frames)] = Len(AfterHead(head, n, frames))
  <1> DEFINE m == Len(frames)
             seqs == [i \in DOMAIN frames |-> FrameBytes(n, frames[i])]
             whole == AfterHead(head, n, frames)
             N == Len(whole)
  <1>1. m \in Nat /\ DOMAIN frames = 1 .. m /\ Len(head) \in Nat
    BY LenProperties
  <1>2. \A i \in 1 .. m : /\ frames[i] \in FrameSet(n)
                          /\ FrameBytes(n, frames[i]) \in Seq(Byte)
                          /\ Len(FrameBytes(n, frames[i])) = Size(n, frames[i])
                          /\ Size(n, frames[i]) \in Nat
    <2>1. ASSUME NEW i \in 1 .. m PROVE frames[i] \in FrameSet(n)
      BY ElementOfSeq
    <2> QED BY <2>1, FrameBytesType
  <1>3. /\ seqs \in Seq(Seq(Byte)) /\ Len(seqs) = m
        /\ \A i \in 1 .. m : seqs[i] = FrameBytes(n, frames[i])
    <2>1. seqs \in [1 .. m -> Seq(Byte)]
      BY <1>1, <1>2
    <2> HIDE DEF m
    <2>2. seqs \in Seq(Seq(Byte)) /\ Len(seqs) = m
      <3> HIDE DEF seqs
      <3> QED BY <1>1, <2>1
    <2> QED BY <1>1, <2>2
  <1> HIDE DEF seqs, m
  <1>4. PICK flat : Flat(flat, seqs, m)
    BY <1>3, FlatExists
  <1>5. FlattenSeq(seqs) = flat[m] /\ whole = head \o flat[m]
    BY <1>3, <1>4, FlattenIs, Zenon DEF AfterHead, seqs
  <1> HIDE DEF whole
  <1>6. \A i \in 0 .. m : flat[i] \in Seq(Byte) /\ Len(flat[i]) \in Nat
    BY <1>4, LenProperties DEF Flat
  <1>7. flat[0] = <<>> /\ Len(flat[0]) = 0 /\ 0 \in 0 .. m /\ m \in 0 .. m
    BY <1>1, <1>4 DEF Flat
  <1>8. whole \in Seq(Byte) /\ N = Len(head) + Len(flat[m]) /\ N \in Nat
    BY <1>5, <1>6, <1>7, ByteSeq, LenProperties
  <1>9. At(whole, 0, head) /\ At(whole, Len(head), flat[m])
    BY <1>5, <1>6, <1>7, AtSelf
  <1>10. Len(head) \in 0 .. N
    BY <1>1, <1>6, <1>7, <1>8
  <1> DEFINE off == [i \in 0 .. m |-> Len(head) + Len(flat[i])]
  <1>11. off \in [0 .. m -> Nat]
    BY <1>1, <1>6
  <1>12. off[0] = Len(head) /\ off[m] = N
    <2>1. off[0] = Len(head) + 0
      BY <1>7, Zenon
    <2>2. off[m] = N
      BY <1>7, <1>8, Zenon
    <2> QED BY <1>1, <2>1, <2>2
  <1>13. ASSUME NEW i \in 1 .. m
         PROVE  /\ off[i] = off[i - 1] + Size(n, frames[i])
                /\ \A j \in 1 .. Len(seqs[i]) : whole[off[i - 1] + j] = seqs[i][j]
    <2>1. i \in 0 .. m /\ i - 1 \in 0 .. m /\ m \in i .. m
      BY <1>1
    <2>2. flat[i] = flat[i - 1] \o seqs[i] /\ seqs[i] \in Seq(Byte)
      BY <1>2, <1>3, <1>4, Zenon DEF Flat
    <2>3. Len(flat[i]) = Len(flat[i - 1]) + Size(n, frames[i])
      <3>1. flat[i - 1] \in Seq(Byte) /\ Len(seqs[i]) = Size(n, frames[i])
        BY <1>2, <1>3, <1>6, <2>1, Zenon
      <3>2. Len(flat[i - 1] \o seqs[i]) = Len(flat[i - 1]) + Len(seqs[i])
        BY <2>2, <3>1, ByteSeq, Zenon
      <3> QED BY <2>2, <3>1, <3>2, Zenon
    <2>4. off[i] = Len(head) + Len(flat[i]) /\ off[i - 1] = Len(head) + Len(flat[i - 1])
      BY <2>1
    <2>5. /\ Len(flat[i - 1]) \in Nat /\ Len(flat[m]) \in Nat
          /\ Size(n, frames[i]) \in Nat /\ Len(seqs[i]) \in Nat
      BY <1>2, <1>6, <1>7, <2>1, <2>2, LenProperties
    <2> HIDE DEF off
    <2>6. off[i] = off[i - 1] + Size(n, frames[i])
      BY <1>1, <2>3, <2>4, <2>5
    <2>7. At(flat[m], Len(flat[i - 1]), seqs[i])
      BY <1>3, <1>4, <2>1, FlatAt, Zenon
    <2>8. Len(flat[i]) <= Len(flat[m])
      BY <1>3, <1>4, <2>1, FlatGrows, Zenon
    <2>9. ASSUME NEW j \in 1 .. Len(seqs[i]) PROVE whole[off[i - 1] + j] = seqs[i][j]
      <3>1. flat[m][Len(flat[i - 1]) + j] = seqs[i][j]
        BY <2>7, Zenon DEF At
      <3>2. Len(seqs[i]) = Size(n, frames[i])
        BY <1>2, <1>3, Zenon
      <3>3. /\ Len(flat[i - 1]) + j \in 1 .. Len(flat[m])
            /\ off[i - 1] + j = Len(head) + (Len(flat[i - 1]) + j)
        BY <1>1, <2>3, <2>4, <2>5, <2>8, <3>2
      <3>4. whole[Len(head) + (Len(flat[i - 1]) + j)] = flat[m][Len(flat[i - 1]) + j]
        BY <1>9, <3>3, Zenon DEF At
      <3> QED BY <3>1, <3>3, <3>4, Zenon
    <2> QED BY <2>6, <2>9, Zenon
  <1> HIDE DEF off, N
  <1>14. ASSUME NEW l \in Len(head) .. N
         PROVE  Laid(SubSeq(whole, 1, l), n, frames, off)
    <2> DEFINE data == SubSeq(whole, 1, l)
    <2>1. l \in 0 .. N /\ l \in Nat /\ Len(head) <= l /\ l <= N
      BY <1>1, <1>8
    <2>2. Len(data) = l /\ \A j \in 1 .. l : data[j] = whole[j]
      <3>1. At(whole, 0, whole)
        BY <1>8, AtSelf, Zenon
      <3> QED BY <1>8, <2>1, <3>1, AtPrefix, Zenon DEF N
    <2> HIDE DEF data
    <2>3. ASSUME NEW i \in 1 .. m
          PROVE  Begins(data, off[i - 1], FrameBytes(n, frames[i]))
      <3>1. seqs[i] = FrameBytes(n, frames[i]) /\ Len(seqs[i]) \in Nat
        BY <1>2, <1>3, LenProperties
      <3>2. off[i - 1] \in Nat
        <4>1. i - 1 \in 0 .. m
          BY <1>1
        <4> QED BY <1>11, <4>1, Zenon
      <3>3. ASSUME NEW j \in 1 .. Len(seqs[i]), off[i - 1] + j <= Len(data)
            PROVE  data[off[i - 1] + j] = seqs[i][j]
        <4>1. off[i - 1] + j \in 1 .. l
          BY <2>1, <2>2, <3>1, <3>2, <3>3
        <4> QED BY <1>13, <2>2, <4>1, Zenon
      <3> QED BY <3>1, <3>3, Zenon DEF Begins
    <2>4. off[0] <= Len(data) /\ Len(data) <= off[m]
      BY <1>12, <2>1, <2>2, Zenon
    <2> QED BY <1>11, <1>13, <2>3, <2>4, Zenon DEF Laid, m, data
  <1>15. FlattenSeq(seqs) \in Seq(Byte)
    BY <1>5, <1>6, <1>7, Zenon
  <1> QED BY <1>8, <1>9, <1>10, <1>12, <1>14, <1>15, Zenon DEF N, whole, m, seqs

-----------------------------------------------------------------------------
(***************************************************************************)
(* An epic with its stories, as bytes and in its file.                     *)
(***************************************************************************)
LEMMA EpicWithStoriesIs ==
  ASSUME NEW e \in EpicFrame, NEW stories \in Seq(StoryFrame)
  PROVE  /\ e \in FrameSet(13) /\ stories \in Seq(FrameSet(17))
         /\ FrameBytes(13, e) = EpicBytes(e) /\ EpicBytes(e) \in Seq(Byte)
         /\ Len(EpicBytes(e)) = Size(13, e) /\ Size(13, e) \in Nat /\ Size(13, e) >= 13
         /\ EpicWithStories(e, stories) = AfterHead(EpicBytes(e), 17, stories)
  <1>1. 13 \in {13, 17} /\ 17 # 13
    OBVIOUS
  <1>2. e \in FrameSet(13) /\ FrameBytes(13, e) = EpicBytes(e)
    BY Zenon DEF FrameSet, FrameBytes
  <1>3. FrameSet(17) = StoryFrame /\ \A s : FrameBytes(17, s) = StoryBytes(s)
    BY <1>1, Zenon DEF FrameSet, FrameBytes
  <1>4. [i \in DOMAIN stories |-> StoryBytes(stories[i])]
          = [i \in DOMAIN stories |-> FrameBytes(17, stories[i])]
    BY <1>3, Zenon
  <1>5. EpicWithStories(e, stories) = AfterHead(EpicBytes(e), 17, stories)
    BY <1>4, Zenon DEF EpicWithStories, AfterHead
  <1>6. /\ EpicBytes(e) \in Seq(Byte) /\ Len(EpicBytes(e)) = Size(13, e)
        /\ Size(13, e) \in Nat /\ Size(13, e) >= 13
    BY <1>1, <1>2, FrameBytesType, Zenon
  <1> QED BY <1>2, <1>3, <1>5, <1>6, Zenon

\* Of what is cut, the epic is read if it is there, and some of the stories.
LEMMA ReadsWhatIsLeft ==
  ASSUME NEW e \in EpicFrame, NEW stories \in Seq(StoryFrame),
         NEW l \in 0 .. Len(EpicWithStories(e, stories))
  PROVE  LET data == SubSeq(EpicWithStories(e, stories), 1, l) IN
         /\ data \in Seq(Byte)
         /\ \A atEnd : atEnd \subseteq {<<>>} =>
              WithStories(data, atEnd)
                \subseteq {[epic |-> e, stories |-> f] : f \in OfFrames(17, stories)}
         /\ l = Len(EpicWithStories(e, stories)) =>
              \A atEnd : WithStories(data, atEnd) = {[epic |-> e, stories |-> stories]}
  <1> DEFINE whole == EpicWithStories(e, stories)
             head == EpicBytes(e)
             n == Size(13, e)
             N == Len(whole)
             data == SubSeq(whole, 1, l)
             W(atEnd) == {[epic |-> e, stories |-> f] : f \in Frames(data, n, 17, atEnd)}
  <1>1. 13 \in {13, 17} /\ 17 \in {13, 17}
    OBVIOUS
  <1>2. /\ e \in FrameSet(13) /\ stories \in Seq(FrameSet(17)) /\ FrameBytes(13, e) = head
        /\ head \in Seq(Byte) /\ Len(head) = n /\ n \in Nat /\ n >= 13
        /\ whole = AfterHead(head, 17, stories)
    BY EpicWithStoriesIs
  <1> HIDE DEF whole, head, n
  <1>3. /\ whole \in Seq(Byte) /\ n \in 0 .. N /\ N \in Nat
        /\ \A k \in n .. N :
             \E off : /\ Laid(SubSeq(whole, 1, k), 17, stories, off)
                      /\ off[0] = n /\ off[Len(stories)] = N
    <2>1. /\ AfterHead(head, 17, stories) \in Seq(Byte)
          /\ Len(head) \in 0 .. Len(AfterHead(head, 17, stories))
          /\ \A k \in Len(head) .. Len(AfterHead(head, 17, stories)) :
               \E off : /\ Laid(SubSeq(AfterHead(head, 17, stories), 1, k), 17, stories, off)
                        /\ off[0] = Len(head)
                        /\ off[Len(stories)] = Len(AfterHead(head, 17, stories))
      BY <1>1, <1>2, LaidPrefix, Zenon
    <2> QED BY <1>2, <2>1, LenProperties, Zenon
  <1>4. l \in 0 .. N
    BY Zenon DEF whole
  <1>5. At(whole, 0, head)
    BY <1>1, <1>2, LaidPrefix, Zenon
  <1>6. /\ data \in Seq(Byte) /\ Len(data) = l
        /\ \A i \in 1 .. l : data[i] = whole[i]
    <2>1. 0 \in Nat /\ l \in 0 .. Len(whole)
      BY <1>4
    <2>2. /\ SubSeq(whole, 1, l) \in Seq(Byte) /\ Len(SubSeq(whole, 1, l)) = l
          /\ \A i \in 1 .. l : SubSeq(whole, 1, l)[i] = whole[i]
      BY <1>2, <1>3, <1>5, <2>1, AtPrefix
    <2> QED BY <1>4, <2>2, Zenon
  <1> HIDE DEF N, data
  <1>7. Begins(data, 0, head)
    <2>1. ASSUME NEW i \in 1 .. Len(head), 0 + i <= Len(data) PROVE data[0 + i] = head[i]
      <3>1. 0 + i = i /\ i \in 1 .. l
        BY <1>2, <1>3, <1>4, <1>6, <2>1
      <3>2. whole[0 + i] = head[i]
        BY <1>5, Zenon DEF At
      <3> QED BY <1>6, <3>1, <3>2, Zenon
    <2> QED BY <2>1, Zenon DEF Begins
  <1>8. ASSUME ~(Len(data) < 13)
        PROVE  /\ n <= l => EpicAt(data, 0) = {e}
               /\ ~(n <= l) => EpicAt(data, 0) = {}
    <2>1. 0 + 13 <= Len(data) /\ 0 \in Nat /\ 0 + n = n
      BY <1>2, <1>3, <1>4, <1>6, <1>8
    <2>2. /\ 0 + Size(13, e) <= Len(data) => FrameAt(data, 0, 13) = {e}
          /\ ~(0 + Size(13, e) <= Len(data)) => FrameAt(data, 0, 13) = {}
      BY <1>1, <1>2, <1>6, <1>7, <2>1, FrameAtBegins
    <2>3. FrameAt(data, 0, 13) = EpicAt(data, 0)
      BY Zenon DEF FrameAt
    <2> QED BY <1>6, <2>1, <2>2, <2>3, Zenon DEF n
  <1>9. n <= l => ~(Len(data) < 13)
    BY <1>2, <1>3, <1>4, <1>6
  <1>10. ASSUME NEW atEnd
         PROVE  /\ n <= l => WithStories(data, atEnd) = W(atEnd)
                /\ ~(n <= l) => WithStories(data, atEnd) = {}
    <2>1. CASE n <= l
      <3>1. EpicAt(data, 0) = {e}
        BY <1>8, <1>9, <2>1
      <3>2. WithStories(data, atEnd)
              = UNION {{[epic |-> x, stories |-> f] : f \in Frames(data, Size(13, x), 17, atEnd)} :
                         x \in {e}}
        BY <1>9, <2>1, <3>1, Zenon DEF WithStories
      <3>3. WithStories(data, atEnd)
              = {[epic |-> e, stories |-> f] : f \in Frames(data, Size(13, e), 17, atEnd)}
        BY <3>2, Zenon
      <3> QED BY <2>1, <3>3, Zenon DEF n
    <2>2. CASE ~(n <= l)
      <3>1. CASE Len(data) < 13
        BY <2>2, <3>1, Zenon DEF WithStories
      <3>2. CASE ~(Len(data) < 13)
        <4>1. EpicAt(data, 0) = {}
          BY <1>8, <2>2, <3>2
        <4> QED BY <2>2, <3>2, <4>1, Zenon DEF WithStories
      <3> QED BY <3>1, <3>2
    <2> QED BY <2>1, <2>2, Zenon
  <1>11. ASSUME n <= l
         PROVE  \E off : /\ Laid(data, 17, stories, off)
                         /\ off[0] = n /\ off[Len(stories)] = N
    <2>1. l \in n .. N
      BY <1>2, <1>3, <1>4, <1>11
    <2> QED BY <1>3, <2>1, Zenon DEF data
  <1>12. ASSUME NEW atEnd, atEnd \subseteq {<<>>}
         PROVE  WithStories(data, atEnd)
                  \subseteq {[epic |-> e, stories |-> f] : f \in OfFrames(17, stories)}
    <2>1. CASE n <= l
      <3>1. PICK off : Laid(data, 17, stories, off) /\ off[0] = n
        BY <1>11, <2>1
      <3>2. Frames(data, off[0], 17, atEnd) \subseteq OfFrames(17, stories)
        BY <1>1, <1>6, <1>12, <3>1, FramesOfPart
      <3>3. Frames(data, n, 17, atEnd) \subseteq OfFrames(17, stories)
        BY <3>1, <3>2, Zenon
      <3>4. WithStories(data, atEnd) = W(atEnd)
        BY <1>10, <2>1
      <3> QED BY <3>3, <3>4, Zenon
    <2>2. CASE ~(n <= l)
      BY <1>10, <2>2, Zenon
    <2> QED BY <2>1, <2>2
  <1>13. \A off, atEnd : LaidOut(data, 17, stories, off) => ReadWhole(data, off[0], 17, atEnd, stories)
    BY <1>1, <1>6, FramesOfWhole, Zenon
  <1>14. ASSUME l = N, NEW atEnd
         PROVE  WithStories(data, atEnd) = {[epic |-> e, stories |-> stories]}
    <2>1. n <= l
      BY <1>2, <1>3, <1>14
    <2>2. PICK off : Laid(data, 17, stories, off) /\ off[0] = n /\ off[Len(stories)] = N
      BY <1>11, <2>1
    <2>3. LaidOut(data, 17, stories, off)
      BY <1>6, <1>14, <2>2, Zenon DEF LaidOut
    <2>4. Frames(data, off[0], 17, atEnd) = {stories}
      BY <1>13, <2>3, Zenon DEF ReadWhole
    <2>5. WithStories(data, atEnd) = W(atEnd)
      BY <1>10, <2>1
    <2>6. Frames(data, n, 17, atEnd) = {stories}
      BY <2>2, <2>4
    <2> QED BY <2>5, <2>6
  <1> QED BY <1>6, <1>12, <1>14, Zenon DEF N, whole, data

\* The orders of a finite set.
LEMMA OrderOf ==
  ASSUME NEW S, IsFiniteSet(S), NEW f \in SetToSeqs(S)
  PROVE  /\ f \in Seq(S) /\ Len(f) = Cardinality(S)
         /\ \A x \in S : \E i \in 1 .. Len(f) : f[i] = x
  <1> DEFINE n == Cardinality(S)
  <1>1. n \in Nat
    BY FS_CardinalityType
  <1>2. f \in [1 .. n -> S] /\ \A i, j \in 1 .. n : i # j => f[i] # f[j]
    BY DEF SetToSeqs
  <1> HIDE DEF n
  <1>3. f \in Seq(S) /\ Len(f) = n
    BY <1>1, <1>2
  <1>4. f \in Injection(1 .. n, S)
    BY <1>2, Zenon DEF Injection, IsInjective
  <1>5. Cardinality(1 .. n) = n
    <2>1. 1 \in Int /\ n \in Int
      BY <1>1
    <2>2. Cardinality(1 .. n) = IF 1 > n THEN 0 ELSE n - 1 + 1
      BY <2>1, FS_Interval
    <2> QED BY <1>1, <2>2
  <1>6. f \in Surjection(1 .. n, S)
    BY <1>4, <1>5, FS_Injection DEF n
  <1> QED BY <1>3, <1>6, Zenon DEF Surjection, n

LEMMA OrderExists ==
  ASSUME NEW S, IsFiniteSet(S)
  PROVE  \E f : f \in SetToSeqs(S)
  <1>1. PICK f : f \in Bijection(1 .. Cardinality(S), S)
    BY FS_CardinalityType, Zenon DEF ExistsBijection
  <1>2. f \in SetToSeqs(S)
    BY <1>1, Zenon DEF Bijection, Injection, IsInjective, SetToSeqs
  <1> QED BY <1>2

\* A file that is whole loads as the epic that was written to it.  Of one that
\* is cut anywhere, Epic::load makes the epic with some of its stories, or fails.
THEOREM LoadOfFile ==
  ASSUME NEW x \in [epic : EpicFrame, stories : SUBSET StoryFrame], IsFiniteSet(x.stories),
         \A s \in x.stories : s.epic = x.epic.id,
         NEW stories \in SetToSeqs(x.stories),
         NEW data \in Prefixes(EpicWithStories(x.epic, stories))
  PROVE  /\ data \in Seq(Byte)
         /\ \A y \in Load(data) : y.epic = x.epic /\ y.stories \subseteq x.stories
         /\ data = EpicWithStories(x.epic, stories) => Load(data) = {x}
  <1> DEFINE e == x.epic
             whole == EpicWithStories(e, stories)
             Own(w) == [epic |-> w.epic,
                        stories |-> {[s EXCEPT !.epic = w.epic.id] : s \in Range(w.stories)}]
  <1>1. e \in EpicFrame /\ x.stories \in SUBSET StoryFrame /\ x = [epic |-> e, stories |-> x.stories]
    OBVIOUS
  <1>2. stories \in Seq(x.stories) /\ \A s \in x.stories : \E i \in 1 .. Len(stories) : stories[i] = s
    BY OrderOf
  <1>3. stories \in Seq(StoryFrame)
    BY <1>1, <1>2, SeqMonotonic
  <1>4. PICK l \in 0 .. Len(whole) : data = SubSeq(whole, 1, l)
    BY DEF Prefixes
  <1>5. data \in Seq(Byte)
    BY <1>1, <1>3, <1>4, ReadsWhatIsLeft
  <1>6. Load(data) = {Own(w) : w \in WithStories(data, {<<>>})}
    BY Zenon DEF Load
  <1>7. \A s \in x.stories : [s EXCEPT !.epic = e.id] = s
    BY <1>1 DEF StoryFrame
  <1>8. ASSUME NEW f \in OfFrames(17, stories)
        PROVE  Range(f) \subseteq x.stories
    <2>1. \A i \in 1 .. Len(stories) : stories[i] \in x.stories
      BY <1>2, ElementOfSeq
    <2>2. DOMAIN f = 1 .. Len(f)
      BY <1>8, LenProperties DEF OfFrames
    <2>3. \A i \in 1 .. Len(f) : f[i] \in x.stories
      BY <1>8, <2>1, Zenon DEF OfFrames
    <2> QED BY <2>2, <2>3, Zenon DEF Range
  <1>9. ASSUME NEW y \in Load(data)
        PROVE  y.epic = e /\ y.stories \subseteq x.stories
    <2>1. PICK w \in WithStories(data, {<<>>}) : y = Own(w)
      BY <1>6, <1>9, Zenon
    <2>2. WithStories(data, {<<>>})
            \subseteq {[epic |-> e, stories |-> f] : f \in OfFrames(17, stories)}
      BY <1>1, <1>3, <1>4, ReadsWhatIsLeft
    <2>3. PICK f \in OfFrames(17, stories) : w = [epic |-> e, stories |-> f]
      BY <2>1, <2>2, Zenon
    <2>4. y.epic = e /\ y.stories = {[s EXCEPT !.epic = e.id] : s \in Range(f)}
      BY <2>1, <2>3
    <2> QED BY <1>7, <1>8, <2>3, <2>4, Zenon
  <1>10. ASSUME data = whole
         PROVE  Load(data) = {x}
    <2>1. l = Len(whole)
      <3>1. whole \in Seq(Byte)
        BY <1>5, <1>10
      <3> QED BY <1>4, <1>10, <3>1
    <2>2. WithStories(data, {<<>>}) = {[epic |-> e, stories |-> stories]}
      BY <1>1, <1>3, <1>4, <2>1, ReadsWhatIsLeft
    <2>3. Range(stories) = x.stories
      BY <1>2 DEF Range
    <2>4. Own([epic |-> e, stories |-> stories]) = x
      <3>1. {[s EXCEPT !.epic = e.id] : s \in Range(stories)} = x.stories
        <4> DEFINE mine(s) == [s EXCEPT !.epic = e.id]
        <4>1. \A s \in x.stories : mine(s) = s
          BY <1>7
        <4> HIDE DEF mine
        <4>2. {mine(s) : s \in x.stories} = x.stories
          BY <4>1, Zenon
        <4>3. {mine(s) : s \in Range(stories)} = x.stories
          BY <2>3, <4>2, Zenon
        <4> QED BY <4>3, Zenon DEF mine
      <3> QED BY <1>1, <3>1, Zenon
    <2>5. Load(data) = {Own(w) : w \in {[epic |-> e, stories |-> stories]}}
      BY <1>6, <2>2, Zenon
    <2> HIDE DEF Own
    <2>6. Load(data) = {Own([epic |-> e, stories |-> stories])}
      BY <2>5, Zenon
    <2> QED BY <2>4, <2>6, Zenon
  <1> QED BY <1>5, <1>9, <1>10, Zenon

-----------------------------------------------------------------------------
(***************************************************************************)
(* The pages that clients make of what the server sends.                   *)
(***************************************************************************)
LEMMA FramesAfterHead ==
  ASSUME NEW n \in {13, 17}, NEW frames \in Seq(FrameSet(n)), NEW head \in Seq(Byte), NEW atEnd
  PROVE  ReadWhole(AfterHead(head, n, frames), Len(head), n, atEnd, frames)
  <1> DEFINE whole == AfterHead(head, n, frames)
             N == Len(whole)
  <1>1. /\ whole \in Seq(Byte) /\ Len(head) \in 0 .. N
        /\ \A l \in Len(head) .. N :
             \E off : /\ Laid(SubSeq(whole, 1, l), n, frames, off)
                      /\ off[0] = Len(head) /\ off[Len(frames)] = N
    BY LaidPrefix, Zenon
  <1> HIDE DEF whole
  <1>2. N \in Nat /\ Len(head) \in Nat
    BY <1>1, LenProperties
  <1>3. N \in Len(head) .. N
    BY <1>1, <1>2
  <1>4. SubSeq(whole, 1, N) = whole
    BY <1>1, SubSeqFull
  <1>5. PICK off : Laid(whole, n, frames, off) /\ off[0] = Len(head) /\ off[Len(frames)] = N
    BY <1>1, <1>3, <1>4, Zenon
  <1>6. LaidOut(whole, n, frames, off)
    BY <1>5, Zenon DEF LaidOut
  <1>7. ReadWhole(whole, off[0], n, atEnd, frames)
    BY <1>1, <1>6, FramesOfWhole, Zenon
  <1> QED BY <1>5, <1>7, Zenon DEF whole

LEMMA HomePageOf ==
  ASSUME NEW epics \in Seq(EpicFrame)
  PROVE  /\ DbBytes(epics) \in Seq(Byte)
         /\ HomePage(DbBytes(epics)) = {[is |-> "home", epics |-> ById(epics)]}
  <1>1. 13 \in {13, 17} /\ FrameSet(13) = EpicFrame /\ \A x : FrameBytes(13, x) = EpicBytes(x)
    BY Zenon DEF FrameSet, FrameBytes
  <1>2. <<>> \in Seq(Byte) /\ Len(<<>>) = 0
    BY EmptySeq
  <1>3. AfterHead(<<>>, 13, epics) = <<>> \o DbBytes(epics)
    <2>1. [i \in DOMAIN epics |-> EpicBytes(epics[i])] = [i \in DOMAIN epics |-> FrameBytes(13, epics[i])]
      BY <1>1, Zenon
    <2> QED BY <2>1, Zenon DEF AfterHead, DbBytes
  <1>4. AfterHead(<<>>, 13, epics) \in Seq(Byte)
    BY <1>1, <1>2, LaidPrefix, Zenon
  <1>5. DbBytes(epics) \in Seq(Byte)
    <2>1. DbBytes(epics) = FlattenSeq([i \in DOMAIN epics |-> FrameBytes(13, epics[i])])
      <3>1. [i \in DOMAIN epics |-> EpicBytes(epics[i])]
              = [i \in DOMAIN epics |-> FrameBytes(13, epics[i])]
        BY <1>1, Zenon
      <3> QED BY <3>1, Zenon DEF DbBytes
    <2> QED BY <1>1, <1>2, <2>1, LaidPrefix, Zenon
  <1>6. AfterHead(<<>>, 13, epics) = DbBytes(epics)
    BY <1>3, <1>5, ConcatEmptySeq
  <1>7. ReadWhole(AfterHead(<<>>, 13, epics), Len(<<>>), 13, {}, epics)
    BY <1>1, <1>2, FramesAfterHead, Zenon
  <1>8. Frames(DbBytes(epics), 0, 13, {}) = {epics}
    BY <1>2, <1>6, <1>7, Zenon DEF ReadWhole
  <1>9. HomePage(DbBytes(epics)) = {[is |-> "home", epics |-> ById(f)] : f \in {epics}}
    BY <1>8, Zenon DEF HomePage
  <1>10. HomePage(DbBytes(epics)) = {[is |-> "home", epics |-> ById(epics)]}
    BY <1>9, Zenon
  <1> QED BY <1>5, <1>10

LEMMA EpicDetailPageOf ==
  ASSUME NEW e \in EpicFrame, NEW stories \in Seq(StoryFrame)
  PROVE  /\ EpicWithStories(e, stories) \in Seq(Byte)
         /\ EpicDetailPage(EpicWithStories(e, stories))
              = {[is |-> "epic", epic |-> e, stories |-> ById(stories)]}
  <1> DEFINE whole == EpicWithStories(e, stories)
  <1>1. whole \in Seq(Byte)
    BY EpicWithStoriesIs, LaidPrefix
  <1>2. Len(whole) \in 0 .. Len(whole) /\ SubSeq(whole, 1, Len(whole)) = whole
    <2> HIDE DEF whole
    <2> QED BY <1>1, SubSeqFull, LenProperties
  <1>3. WithStories(whole, {}) = {[epic |-> e, stories |-> stories]}
    BY <1>2, ReadsWhatIsLeft
  <1> HIDE DEF whole
  <1>4. EpicDetailPage(whole)
          = {[is |-> "epic", epic |-> x.epic, stories |-> ById(x.stories)] :
               x \in {[epic |-> e, stories |-> stories]}}
    BY <1>3, Zenon DEF EpicDetailPage
  <1>5. EpicDetailPage(whole) = {[is |-> "epic", epic |-> e, stories |-> ById(stories)]}
    BY <1>4, Zenon
  <1> QED BY <1>1, <1>5 DEF whole

LEMMA StoryDetailPageOf ==
  ASSUME NEW s \in StoryFrame
  PROVE  /\ StoryBytes(s) \in Seq(Byte)
         /\ StoryDetailPage(StoryBytes(s)) = {[is |-> "story", story |-> s]}
  <1> DEFINE data == StoryBytes(s)
             N == Len(data)
  <1>1. 17 \in {13, 17} /\ 17 # 13
    OBVIOUS
  <1>2. s \in FrameSet(17) /\ FrameBytes(17, s) = data
    BY <1>1, Zenon DEF FrameSet, FrameBytes
  <1> HIDE DEF data
  <1>3. data \in Seq(Byte) /\ N = Size(17, s) /\ Size(17, s) \in Nat /\ Size(17, s) >= 17
    BY <1>1, <1>2, FrameBytesType, Zenon
  <1>4. Begins(data, 0, FrameBytes(17, s))
    <2>1. \A i \in 1 .. N : 0 + i = i
      OBVIOUS
    <2> QED BY <1>2, <2>1, Zenon DEF Begins
  <1>5. ~(N < 17) /\ 0 + 17 <= N /\ 0 + Size(17, s) <= N /\ 0 \in Nat
    BY <1>3
  <1>6. 0 + Size(17, s) <= Len(data) => FrameAt(data, 0, 17) = {s}
    BY <1>1, <1>2, <1>3, <1>4, <1>5, FrameAtBegins
  <1>7. StoryAt(data, 0) = {s}
    BY <1>1, <1>5, <1>6, Zenon DEF FrameAt
  <1>8. StoryDetailPage(data)
          = {[is |-> "story", story |-> t] : t \in {t \in {s} : Size(17, t) = N}}
    BY <1>5, <1>7, Zenon DEF StoryDetailPage
  <1>9. {t \in {s} : Size(17, t) = N} = {s}
    BY <1>3, Zenon
  <1>10. StoryDetailPage(data) = {[is |-> "story", story |-> s]}
    BY <1>8, <1>9, Zenon
  <1> QED BY <1>3, <1>10 DEF data

-----------------------------------------------------------------------------
(***************************************************************************)
(* Sorting.  The place of a frame in the order of the ids is how many ids  *)
(* are not above its own.                                                  *)
(***************************************************************************)
LEMMA OrderByRank ==
  ASSUME NEW n \in Nat, NEW id \in [1 .. n -> Nat],
         \A i, j \in 1 .. n : id[i] = id[j] => i = j
  PROVE  \E p \in SetToSeqs(1 .. n) : \A i, j \in 1 .. n : i < j => id[p[i]] <= id[p[j]]
  <1> DEFINE below(i) == {j \in 1 .. n : id[j] <= id[i]}
             rank == [i \in 1 .. n |-> Cardinality(below(i))]
  <1>1. IsFiniteSet(1 .. n) /\ Cardinality(1 .. n) = n
    <2>1. 1 \in Int /\ n \in Int
      OBVIOUS
    <2>2. IsFiniteSet(1 .. n) /\ Cardinality(1 .. n) = IF 1 > n THEN 0 ELSE n - 1 + 1
      BY <2>1, FS_Interval
    <2> QED BY <2>2
  <1>2. \A i \in 1 .. n : id[i] \in Nat
    OBVIOUS
  <1>3. ASSUME NEW i \in 1 .. n
        PROVE  /\ IsFiniteSet(below(i)) /\ Cardinality(below(i)) \in 1 .. n /\ i \in below(i)
    <2>1. below(i) \in SUBSET (1 .. n) /\ i \in below(i)
      BY <1>2
    <2> HIDE DEF below
    <2>2. IsFiniteSet(below(i)) /\ Cardinality(below(i)) <= n
      BY <1>1, <2>1, FS_Subset
    <2>3. Cardinality(below(i)) \in Nat /\ Cardinality(below(i)) # 0
      BY <2>1, <2>2, FS_CardinalityType, FS_EmptySet
    <2> QED BY <2>1, <2>2, <2>3
  <1>4. ASSUME NEW i \in 1 .. n, NEW j \in 1 .. n, id[i] < id[j]
        PROVE  rank[i] < rank[j]
    <2>1. below(i) \in SUBSET below(j) /\ ~(j \in below(i))
      BY <1>2, <1>4
    <2>2. rank[i] = Cardinality(below(i)) /\ rank[j] = Cardinality(below(j))
      OBVIOUS
    <2> HIDE DEF below, rank
    <2>3. Cardinality(below(i)) <= Cardinality(below(j))
      BY <1>3, <2>1, FS_Subset
    <2>4. Cardinality(below(i)) # Cardinality(below(j))
      BY <1>3, <2>1, FS_Subset
    <2>5. Cardinality(below(i)) \in Nat /\ Cardinality(below(j)) \in Nat
      BY <1>3
    <2> QED BY <2>2, <2>3, <2>4, <2>5
  <1>5. rank \in [1 .. n -> 1 .. n]
    <2> HIDE DEF below
    <2> QED BY <1>3
  <1> HIDE DEF rank
  <1>6. ASSUME NEW i \in 1 .. n, NEW j \in 1 .. n, rank[i] <= rank[j]
        PROVE  id[i] <= id[j]
    <2>1. rank[i] \in Nat /\ rank[j] \in Nat /\ id[i] \in Nat /\ id[j] \in Nat
      <3>1. rank[i] \in 1 .. n /\ rank[j] \in 1 .. n
        BY <1>5
      <3>2. \A k \in 1 .. n : k \in Nat
        OBVIOUS
      <3> QED BY <1>2, <3>1, <3>2, Zenon
    <2>2. ~(id[j] < id[i])
      BY <1>4, <1>6, <2>1
    <2> QED BY <2>1, <2>2
  <1>7. rank \in Injection(1 .. n, 1 .. n)
    <2>1. ASSUME NEW i \in 1 .. n, NEW j \in 1 .. n, rank[i] = rank[j]
          PROVE  i = j
      <3>1. rank[i] \in 1 .. n /\ rank[j] \in 1 .. n
        BY <1>5
      <3>2. id[i] <= id[j] /\ id[j] <= id[i]
        BY <1>6, <2>1, <3>1
      <3>3. id[i] = id[j]
        BY <1>2, <3>2
      <3> QED BY <3>3
    <2>2. DOMAIN rank = 1 .. n
      BY <1>5
    <2> QED BY <1>5, <2>1, <2>2, Zenon DEF Injection, IsInjective
  <1>8. rank \in Surjection(1 .. n, 1 .. n)
    BY <1>1, <1>7, FS_Injection
  <1> DEFINE p == [k \in 1 .. n |-> CHOOSE i \in 1 .. n : rank[i] = k]
  <1>9. \A k \in 1 .. n : p[k] \in 1 .. n /\ rank[p[k]] = k
    BY <1>8, Zenon DEF Surjection
  <1>10. p \in [1 .. n -> 1 .. n]
    BY <1>9, Zenon
  <1> HIDE DEF p
  <1>11. p \in SetToSeqs(1 .. n)
    BY <1>1, <1>9, <1>10, Zenon DEF SetToSeqs
  <1>12. \A i, j \in 1 .. n : i < j => id[p[i]] <= id[p[j]]
    <2>1. ASSUME NEW i \in 1 .. n, NEW j \in 1 .. n, i < j
          PROVE  id[p[i]] <= id[p[j]]
      <3>1. i <= j
        BY <2>1
      <3>2. rank[p[i]] <= rank[p[j]]
        BY <1>9, <3>1, Zenon
      <3> QED BY <1>6, <1>9, <3>2
    <2> QED BY <2>1
  <1> QED BY <1>11, <1>12

\* A sequence of frames in the order of their ids.
InOrder(f) == \A i, j \in DOMAIN f : i < j => f[i].id < f[j].id

LEMMA ByIdIs ==
  ASSUME NEW S, IsFiniteSet(S), \A x \in S : x.id \in Nat,
         \A x, y \in S : x.id = y.id => x = y, NEW f \in SetToSeqs(S)
  PROVE  ById(f) \in SetToSeqs(S) /\ InOrder(ById(f))
  <1> DEFINE n == Cardinality(S)
             id == [i \in 1 .. n |-> f[i].id]
             Good(p) == p \in SetToSeqs(DOMAIN f) /\ \A i, j \in DOMAIN f : i < j => f[p[i]].id <= f[p[j]].id
             order == CHOOSE p \in SetToSeqs(DOMAIN f) :
                        \A i, j \in DOMAIN f : i < j => f[p[i]].id <= f[p[j]].id
             g == [i \in DOMAIN f |-> f[order[i]]]
  <1>1. n \in Nat
    BY FS_CardinalityType
  <1>2. f \in [1 .. n -> S] /\ \A i, j \in 1 .. n : i # j => f[i] # f[j]
    BY Zenon DEF SetToSeqs
  <1> HIDE DEF n
  <1>3. DOMAIN f = 1 .. n /\ \A i \in 1 .. n : f[i] \in S /\ f[i].id \in Nat
    BY <1>2
  <1>4. id \in [1 .. n -> Nat] /\ \A i \in 1 .. n : id[i] = f[i].id
    BY <1>3
  <1> HIDE DEF id
  <1>5. ASSUME NEW i \in 1 .. n, NEW j \in 1 .. n, id[i] = id[j]
        PROVE  i = j
    <2>1. f[i] \in S /\ f[j] \in S /\ f[i].id = f[j].id
      BY <1>3, <1>4, <1>5, Zenon
    <2>2. f[i] = f[j]
      BY <2>1, Zenon
    <2> QED BY <1>2, <2>2, Zenon
  <1>6. PICK p \in SetToSeqs(1 .. n) : \A i, j \in 1 .. n : i < j => id[p[i]] <= id[p[j]]
    BY <1>1, <1>4, <1>5, OrderByRank
  <1>7. Cardinality(1 .. n) = n
    <2>1. 1 \in Int /\ n \in Int
      BY <1>1
    <2>2. Cardinality(1 .. n) = IF 1 > n THEN 0 ELSE n - 1 + 1
      BY <2>1, FS_Interval
    <2> QED BY <1>1, <2>2
  <1>8. \A q \in SetToSeqs(1 .. n) : /\ q \in [1 .. n -> 1 .. n]
                                     /\ \A i, j \in 1 .. n : i # j => q[i] # q[j]
    BY <1>7, Zenon DEF SetToSeqs
  <1>9. Good(p)
    <2>1. \A i \in 1 .. n : p[i] \in 1 .. n
      BY <1>6, <1>8
    <2>2. ASSUME NEW i \in 1 .. n, NEW j \in 1 .. n, i < j
          PROVE  f[p[i]].id <= f[p[j]].id
      <3>1. id[p[i]] <= id[p[j]]
        BY <1>6, <2>2, Zenon
      <3>2. id[p[i]] = f[p[i]].id /\ id[p[j]] = f[p[j]].id
        BY <1>4, <2>1, Zenon
      <3> QED BY <3>1, <3>2, Zenon
    <2> QED BY <1>3, <1>6, <2>2, Zenon
  <1>10. Good(order)
    BY <1>9, Zenon
  <1> HIDE DEF order
  <1>11. ById(f) = g
    BY Zenon DEF ById, order
  <1>12. \A i \in 1 .. n : order[i] \in 1 .. n /\ g[i] = f[order[i]] /\ g[i] \in S /\ g[i].id \in Nat
    BY <1>3, <1>8, <1>10, Zenon
  <1>13. DOMAIN g = 1 .. n /\ g \in [1 .. n -> S]
    BY <1>3, <1>12, Zenon
  <1>14. ASSUME NEW i \in 1 .. n, NEW j \in 1 .. n, i # j
         PROVE  g[i] # g[j]
    <2>1. order \in SetToSeqs(1 .. n)
      BY <1>3, <1>10, Zenon
    <2>2. order[i] # order[j]
      BY <1>8, <1>14, <2>1, Zenon
    <2> QED BY <1>2, <1>12, <2>2, Zenon
  <1>15. \A i, j \in 1 .. n : i < j => g[i].id <= g[j].id
    BY <1>3, <1>10, <1>12, Zenon
  <1> HIDE DEF g
  <1>16. g \in SetToSeqs(S)
    BY <1>13, <1>14, Zenon DEF SetToSeqs, n
  <1>17. InOrder(g)
    <2>1. ASSUME NEW i \in 1 .. n, NEW j \in 1 .. n, i < j PROVE g[i].id < g[j].id
      <3>1. i # j
        BY <2>1
      <3>2. g[i].id # g[j].id
        BY <1>12, <1>14, <3>1, Zenon
      <3>3. g[i].id <= g[j].id
        BY <1>15, <2>1
      <3>4. g[i].id \in Nat /\ g[j].id \in Nat
        BY <1>12
      <3> QED BY <3>2, <3>3, <3>4
    <2> QED BY <1>13, <2>1 DEF InOrder
  <1> QED BY <1>11, <1>16, <1>17

LEMMA OneOrder ==
  ASSUME NEW S, IsFiniteSet(S), \A x \in S : x.id \in Nat,
         NEW f \in SetToSeqs(S), NEW g \in SetToSeqs(S), InOrder(f), InOrder(g)
  PROVE  f = g
  <1> DEFINE n == Cardinality(S)
             Bad == {k \in 1 .. n : f[k] # g[k]}
  <1>1. n \in Nat
    BY FS_CardinalityType
  <1>2. f \in [1 .. n -> S] /\ g \in [1 .. n -> S]
    BY Zenon DEF SetToSeqs
  <1>3. Len(f) = n /\ Len(g) = n
    BY OrderOf, Zenon
  <1>4. \A x \in S : (\E i \in 1 .. n : f[i] = x) /\ (\E i \in 1 .. n : g[i] = x)
    <2> SUFFICES ASSUME NEW x \in S
                 PROVE  (\E i \in 1 .. n : f[i] = x) /\ (\E i \in 1 .. n : g[i] = x)
      OBVIOUS
    <2>1. \A y \in S : \E i \in 1 .. Len(f) : f[i] = y
      BY OrderOf
    <2>2. \A y \in S : \E i \in 1 .. Len(g) : g[i] = y
      BY OrderOf
    <2> QED BY <1>3, <2>1, <2>2, Zenon
  <1> HIDE DEF n
  <1>5. \A i, j \in 1 .. n : (i < j => f[i].id < f[j].id) /\ (i < j => g[i].id < g[j].id)
    BY <1>2 DEF InOrder
  <1>6. \A i \in 1 .. n : f[i] \in S /\ g[i] \in S /\ f[i].id \in Nat /\ g[i].id \in Nat
    BY <1>2
  <1>7. Bad = {}
    <2> SUFFICES ASSUME Bad # {} PROVE FALSE
      OBVIOUS
    <2>1. PICK k \in Bad : \A l \in Bad : k <= l
      <3>1. Bad \in SUBSET Nat
        OBVIOUS
      <3> QED BY <3>1, LeastNatural
    <2>2. k \in 1 .. n /\ f[k] # g[k]
      OBVIOUS
    <2>3. \A l \in 1 .. n : l < k => f[l] = g[l]
      BY <2>1, <2>2
    <2>4. PICK i \in 1 .. n : f[i] = g[k]
      BY <1>4, <1>6, <2>2
    <2>5. PICK j \in 1 .. n : g[j] = f[k]
      BY <1>4, <1>6, <2>2
    <2>6. ~(i < k) /\ ~(j < k)
      <3>1. ASSUME i < k PROVE FALSE
        <4>1. g[i] = g[k]
          BY <2>3, <2>4, <3>1
        <4>2. g[i].id < g[k].id
          BY <1>5, <2>2, <3>1
        <4> QED BY <1>6, <2>2, <4>1, <4>2
      <3>2. ASSUME j < k PROVE FALSE
        <4>1. f[j] = f[k]
          BY <2>3, <2>5, <3>2
        <4>2. f[j].id < f[k].id
          BY <1>5, <2>2, <3>2
        <4> QED BY <1>6, <2>2, <4>1, <4>2
      <3> QED BY <3>1, <3>2
    <2>7. i # k /\ j # k
      BY <2>2, <2>4, <2>5
    <2>8. k < i /\ k < j
      BY <2>2, <2>6, <2>7
    <2>9. f[k].id < f[i].id /\ g[k].id < g[j].id
      BY <1>5, <2>2, <2>8
    <2> QED BY <1>6, <2>2, <2>4, <2>5, <2>9
  <1>8. \A k \in 1 .. n : f[k] = g[k]
    BY <1>7
  <1>9. f = [k \in 1 .. n |-> f[k]] /\ g = [k \in 1 .. n |-> g[k]]
    BY <1>2, Zenon
  <1>10. [k \in 1 .. n |-> f[k]] = [k \in 1 .. n |-> g[k]]
    BY <1>8, Zenon
  <1> QED BY <1>9, <1>10, Zenon
=============================================================================
