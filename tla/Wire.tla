-------------------------------- MODULE Wire --------------------------------
(***************************************************************************)
(* The bytes that clients and the server exchange, and that epics are kept *)
(* in on disk (src/events, src/response, src/utils; BytesEncode and AsBytes *)
(* in src/models; frame.rs and try_create in src/bin/interface).  Requests, *)
(* responses, epics and stories each begin with a tag of a fixed size that *)
(* holds ids, a status, and the lengths of the texts or data that follow.  *)
(* There is no state here: Link has the streams.                           *)
(*                                                                         *)
(* What fails to decode is the empty set, what is decoded the set of it.   *)
(***************************************************************************)
EXTENDS Integers, SequencesExt

Byte == 0 .. 255

\* A number of 24 bits below another byte (TLC's own numbers are narrower).
U32 == {n \in Nat : n \div 16777216 < 256}

Drop(bytes, n) == SubSeq(bytes, n + 1, Len(bytes))

(***************************************************************************)
(* Integers, the low byte first.                                           *)
(***************************************************************************)
U32Bytes(n) ==
  <<n % 256, (n \div 256) % 256, (n \div 65536) % 256, (n \div 16777216) % 256>>

\* A u64, whose last byte encode_data_len never writes.
DataLen(n) == U32Bytes(n) \o [U32Bytes((n \div 16777216) \div 256) EXCEPT ![4] = 0]

\* What the seven bytes that are written can hold.
DataLength == {n \in Nat : (n \div 16777216) \div 256 < 16777216}

\* The four bytes after the first p, below what they are the low bytes of.
Low4(bytes, p, high) ==
  bytes[p+1] + 256 * (bytes[p+2] + 256 * (bytes[p+3] + 256 * (bytes[p+4] + 256 * high)))

\* Faulty: the loop over the bytes ends one early.
Parse4BytesShort(bytes, p) == bytes[p+1] + 256 * (bytes[p+2] + 256 * bytes[p+3])

Parse4Bytes(bytes, p) == Low4(bytes, p, 0)

Parse8Bytes(bytes, p) == Low4(bytes, p, Parse4Bytes(bytes, p + 4))

(***************************************************************************)
(* Texts are the bytes of a String.  Of UTF-8, characters of one and of    *)
(* two bytes are modelled: a leading byte of 2 is followed by one byte     *)
(* that continues it, and none else is.                                    *)
(***************************************************************************)
Leads(b) == b \in 194 .. 223

Continues(b) == b \in 128 .. 191

FromUtf8(bytes) ==
  \A i \in DOMAIN bytes :
    /\ bytes[i] < 128 \/ Leads(bytes[i]) \/ Continues(bytes[i])
    /\ Leads(bytes[i]) => i < Len(bytes) /\ Continues(bytes[i+1])
    /\ Continues(bytes[i]) => i > 1 /\ Leads(bytes[i-1])

Text == {t \in Seq(Byte) : FromUtf8(t) /\ Len(t) \in U32}

Status == {"Open", "InProgress", "Resolved", "Closed"}

StatusByte == [Open |-> 0, InProgress |-> 1, Resolved |-> 2, Closed |-> 3]

StatusTryFrom(byte) == {st \in Status : StatusByte[st] = byte}

-----------------------------------------------------------------------------
(***************************************************************************)
(* Requests.  The bit of the first byte is the request's place in Ops; of  *)
(* several the lowest counts.  A request is a record with the fields of    *)
(* its Event, or some bytes that no Event comes of.                        *)
(***************************************************************************)
Ops == <<"AddEpic", "DeleteEpic", "GetEpic", "UpdateEpicStatus", "GetStory",
         "AddStory", "DeleteStory", "UpdateStoryStatus">>

Bit == <<1, 2, 4, 8, 16, 32, 64, 128>>

IsSet(byte, k) == (byte \div Bit[k]) % 2 = 1

OpsOf(byte) ==
  {Ops[k] : k \in {k \in 1 .. 8 : IsSet(byte, k) /\ \A j \in 1 .. k - 1 : ~IsSet(byte, j)}}

RequestTag(k, a, b, c) == <<Bit[k]>> \o U32Bytes(a) \o U32Bytes(b) \o U32Bytes(c)

\* Faulty: lengths in characters, not in bytes.
AddEpicTagInChars(name, description) ==
  RequestTag(1, Len(SelectSeq(name, LAMBDA b : ~Continues(b))), Len(description), 0)

AddEpicTag(name, description) == RequestTag(1, Len(name), Len(description), 0)

DeleteEpicTag(epic) == RequestTag(2, epic, 0, 0)

GetEpicTag(epic) == RequestTag(3, epic, 0, 0)

UpdateEpicStatusTag(epic, st) == RequestTag(4, epic, StatusByte[st], 0)

GetStoryTag(epic, story) == RequestTag(5, epic, story, 0)

\* Faulty: the id of the epic comes last.
AddStoryTagEpicLast(epic, name, description) ==
  RequestTag(6, Len(name), Len(description), epic)

AddStoryTag(epic, name, description) == RequestTag(6, epic, Len(name), Len(description))

DeleteStoryTag(epic, story) == RequestTag(7, epic, story, 0)

UpdateStoryStatusTag(epic, story, st) == RequestTag(8, epic, story, StatusByte[st])

RequestBytes(r) ==
  CASE r.op = "AddEpic"     -> AddEpicTag(r.name, r.description) \o r.name \o r.description
    [] r.op = "DeleteEpic"  -> DeleteEpicTag(r.epic)
    [] r.op = "GetEpic"     -> GetEpicTag(r.epic)
    [] r.op = "UpdateEpicStatus" -> UpdateEpicStatusTag(r.epic, r.status)
    [] r.op = "GetStory"    -> GetStoryTag(r.epic, r.story)
    [] r.op = "AddStory"    ->
         AddStoryTag(r.epic, r.name, r.description) \o r.name \o r.description
    [] r.op = "DeleteStory" -> DeleteStoryTag(r.epic, r.story)
    [] r.op = "UpdateStoryStatus" -> UpdateStoryStatusTag(r.epic, r.story, r.status)
    [] r.op = "Unparseable" -> r.bytes

\* Faulty: the texts of a story are left in the stream.
TextLengthsOfEpics(tag) ==
  IF OpsOf(tag[1]) = {"AddEpic"} THEN <<Parse4Bytes(tag, 1), Parse4Bytes(tag, 5)>>
  ELSE <<0, 0>>

\* The lengths of the name and the description that try_create reads after a
\* tag, before it looks at anything else.
TextLengths(tag) ==
  CASE OpsOf(tag[1]) = {"AddEpic"}  -> <<Parse4Bytes(tag, 1), Parse4Bytes(tag, 5)>>
    [] OpsOf(tag[1]) = {"AddStory"} -> <<Parse4Bytes(tag, 5), Parse4Bytes(tag, 9)>>
    [] OTHER -> <<0, 0>>

\* The Events that try_create makes of a tag and the texts it has read: one or,
\* when a status or a text does not decode, none.
TryCreate(tag, name, description) ==
  LET epic  == Parse4Bytes(tag, 1)
      story == Parse4Bytes(tag, 5)
      Event(op) ==
        CASE op = "AddEpic" -> {[op |-> op, name |-> name, description |-> description]}
          [] op \in {"DeleteEpic", "GetEpic"} -> {[op |-> op, epic |-> epic]}
          [] op = "UpdateEpicStatus" ->
               {[op |-> op, epic |-> epic, status |-> st] : st \in StatusTryFrom(tag[6])}
          [] op \in {"GetStory", "DeleteStory"} -> {[op |-> op, epic |-> epic, story |-> story]}
          [] op = "AddStory" ->
               {[op |-> op, epic |-> epic, name |-> name, description |-> description]}
          [] op = "UpdateStoryStatus" ->
               {[op |-> op, epic |-> epic, story |-> story, status |-> st] :
                  st \in StatusTryFrom(tag[10])}
  IN  IF FromUtf8(name) /\ FromUtf8(description)
      THEN UNION {Event(op) : op \in OpsOf(tag[1])} ELSE {}

\* The tag and the texts that bytes begin with.
RequestSize(bytes) == 13 + TextLengths(bytes)[1] + TextLengths(bytes)[2]

RequestEvents(bytes) ==
  LET name == 13 + TextLengths(bytes)[1]
  IN  TryCreate(bytes, SubSeq(bytes, 14, name), SubSeq(bytes, name + 1, RequestSize(bytes)))

\* What a client may ask.
Parseable ==
       [op : {"AddEpic"}, name : Text, description : Text]
  \cup [op : {"DeleteEpic", "GetEpic"}, epic : U32]
  \cup [op : {"UpdateEpicStatus"}, epic : U32, status : Status]
  \cup [op : {"GetStory", "DeleteStory"}, epic : U32, story : U32]
  \cup [op : {"AddStory"}, epic : U32, name : Text, description : Text]
  \cup [op : {"UpdateStoryStatus"}, epic : U32, story : U32, status : Status]

\* A tag and the texts that it tells of, which no Event comes of.
NotParseable ==
  {r \in [op : {"Unparseable"}, bytes : Seq(Byte)] :
     Len(r.bytes) >= 13 /\ RequestSize(r.bytes) = Len(r.bytes) /\ RequestEvents(r.bytes) = {}}

-----------------------------------------------------------------------------
(***************************************************************************)
(* Epics and stories.  An epic or a story without its stories is a frame;  *)
(* a story's frame also has the id of its epic.                            *)
(***************************************************************************)
EpicFrame == [id : U32, name : Text, description : Text, status : Status]

StoryFrame == [id : U32, epic : U32, name : Text, description : Text, status : Status]

EpicTag(e) ==
  U32Bytes(e.id) \o U32Bytes(Len(e.name)) \o U32Bytes(Len(e.description))
    \o <<StatusByte[e.status]>>

StoryTag(s) ==
  U32Bytes(s.id) \o U32Bytes(s.epic) \o U32Bytes(Len(s.name))
    \o U32Bytes(Len(s.description)) \o <<StatusByte[s.status]>>

EpicBytes(e) == EpicTag(e) \o e.name \o e.description

StoryBytes(s) == StoryTag(s) \o s.name \o s.description

\* As bytes, and in its file: an epic with its stories in the order of the map.
EpicWithStories(e, stories) == EpicBytes(e) \o FlattenSeq([i \in DOMAIN stories |-> StoryBytes(stories[i])])

\* DbState as bytes: every epic, in the order of the map, without its stories.
DbBytes(epics) == FlattenSeq([i \in DOMAIN epics |-> EpicBytes(epics[i])])

\* The name and the description after a tag of n bytes that begins after p bytes:
\* the two fields before the tag's status byte hold their lengths.
Texts(data, p, n) ==
  LET name == Parse4Bytes(data, p + n - 9)
      description == Parse4Bytes(data, p + n - 5)
      text(from, length) == SubSeq(data, p + n + from + 1, p + n + from + length)
      whole == p + n + name + description <= Len(data)
  IN  {t \in IF whole THEN {<<text(0, name), text(name, description)>>} ELSE {} :
         FromUtf8(t[1]) /\ FromUtf8(t[2])}

\* EpicFrame::try_from_reader and its like in Epic::load.
EpicAt(data, p) ==
  {[id |-> Parse4Bytes(data, p), name |-> t[1], description |-> t[2], status |-> st] :
     t \in Texts(data, p, 13), st \in StatusTryFrom(data[p + 13])}

\* StoryFrame::try_from_reader and its like in Epic::load.
StoryAt(data, p) ==
  {[id |-> Parse4Bytes(data, p), epic |-> Parse4Bytes(data, p + 4),
    name |-> t[1], description |-> t[2], status |-> st] :
     t \in Texts(data, p, 17), st \in StatusTryFrom(data[p + 17])}

\* Faulty: without the description.
SizeOfName(n, frame) == n + Len(frame.name)

Size(n, frame) == n + Len(frame.name) + Len(frame.description)

\* By the size of their tags.
FrameAt(data, p, n) == IF n = 13 THEN EpicAt(data, p) ELSE StoryAt(data, p)

\* The loop that reads frames, of epics or of stories, to the end of the data;
\* whether a last tag that is not whole ends it or fails it, is for atEnd.
Frames(data, start, n, atEnd) ==
  LET from[p \in start .. Len(data)] ==
        IF p = Len(data) THEN {<<>>}
        ELSE IF p + n > Len(data) THEN atEnd
        ELSE UNION {{<<x>> \o rest : rest \in from[p + Size(n, x)]} : x \in FrameAt(data, p, n)}
  IN  from[start]

\* A vector of frames, sorted by their ids.
ById(frames) ==
  LET order == CHOOSE p \in SetToSeqs(DOMAIN frames) :
                 \A i, j \in DOMAIN frames : i < j => frames[p[i]].id <= frames[p[j]].id
  IN  [i \in DOMAIN frames |-> frames[order[i]]]

HomePage(data) ==
  {[is |-> "home", epics |-> ById(f)] : f \in Frames(data, 0, 13, {})}

\* An epic and the stories after it.
WithStories(data, atEnd) ==
  IF Len(data) < 13 THEN {}
  ELSE UNION {{[epic |-> e, stories |-> f] : f \in Frames(data, Size(13, e), 17, atEnd)} :
                e \in EpicAt(data, 0)}

EpicDetailPage(data) ==
  {[is |-> "epic", epic |-> x.epic, stories |-> ById(x.stories)] : x \in WithStories(data, {})}

StoryDetailPage(data) ==
  {[is |-> "story", story |-> s] :
     s \in {s \in IF Len(data) < 17 THEN {} ELSE StoryAt(data, 0) : Size(17, s) = Len(data)}}

\* Epic::load: a file that ends within the tag of a story is read up to there.
Load(data) ==
  {[epic |-> x.epic, stories |-> {[s EXCEPT !.epic = x.epic.id] : s \in Range(x.stories)}] :
     x \in WithStories(data, {<<>>})}

-----------------------------------------------------------------------------
(***************************************************************************)
(* Responses.  The bit of the type is the response's place in Kinds, in    *)
(* two bytes, the high one first, whose top bit says that data follows.    *)
(***************************************************************************)
Kinds == <<"ClientAddedOk", "ClientAlreadyExists", "AddedEpicOk", "DeletedEpicOk",
           "GetEpicOk", "EpicStatusUpdateOk", "EpicDoesNotExist", "GetStoryOk",
           "StoryDoesNotExist", "AddedStoryOk", "DeletedStoryOk",
           "StoryStatusUpdateOk", "RequestNotParsed">>

NamesEpic == {3, 4, 5, 6, 7, 9, 10, 11, 12}

NamesStory == {8, 9, 10, 11, 12}

HasData == 1 .. 12 \ {2}

If(n, holds) == IF holds THEN n ELSE 0

KindBit(k) == Bit[((k - 1) % 8) + 1]

\* What Response::encode makes of the k-th kind with n bytes of data.
ResponseTag(k, epic, story, n) ==
  <<If(128, k \in HasData) + If(KindBit(k), k > 8), If(KindBit(k), k <= 8)>>
    \o U32Bytes(If(epic, k \in NamesEpic)) \o U32Bytes(If(story, k \in NamesStory))
    \o DataLen(If(n, k \in HasData))

ResponseBytes(k, epic, story, data) ==
  ResponseTag(k, epic, story, Len(data)) \o (IF k \in HasData THEN data ELSE <<>>)

KindsSet(tag) ==
  {k \in DOMAIN Kinds : IF k <= 8 THEN IsSet(tag[2], k) ELSE IsSet(tag[1], k - 8)}

\* Response::decode, with the kind that the client tests for first.
ResponseDecode(tag) ==
  LET set == KindsSet(tag)
  IN  [kind  |-> {k \in set : \A j \in set : k <= j},
       epic  |-> If(Parse4Bytes(tag, 2), set \cap NamesEpic # {}),
       story |-> If(Parse4Bytes(tag, 6), set \cap NamesStory # {}),
       data  |-> If(Parse8Bytes(tag, 10), IsSet(tag[1], 8))]

\* Faulty: a story's status update is taken to bring its epic.
PageOfWithEpic(k, data) ==
  CASE k \in {1, 3, 4, 7}          -> HomePage(data)
    [] k \in {5, 6, 9, 10, 11, 12} -> EpicDetailPage(data)
    [] k = 8                       -> StoryDetailPage(data)
    [] k = 13                      -> {[is |-> "same"]}
    [] OTHER                       -> {}

\* The page that the client makes of the data of the k-th kind of response, or
\* the same page again.
PageOf(k, data) ==
  CASE k \in {1, 3, 4, 7}      -> HomePage(data)
    [] k \in {5, 6, 9, 10, 11} -> EpicDetailPage(data)
    [] k \in {8, 12}           -> StoryDetailPage(data)
    [] k = 13                  -> {[is |-> "same"]}
    [] OTHER                   -> {}
=============================================================================
