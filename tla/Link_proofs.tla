----------------------------- MODULE Link_proofs -----------------------------
(***************************************************************************)
(* Link's properties, for all requests, epics and ids: what arrives is     *)
(* what was sent, wherever either end is killed.                           *)
(***************************************************************************)
EXTENDS Link, Frames_proofs

-----------------------------------------------------------------------------
(***************************************************************************)
(* The inductive invariant.                                                *)
(***************************************************************************)
One(S) == \A x, y \in S : x = y

\* As RequestIsWhole, ResponseIsWhole and Understood have it of the streams.
WholeRequest(bytes) == Len(bytes) >= 13 /\ Len(bytes) >= RequestSize(bytes)

WholeResponse(bytes) == Len(bytes) >= 18 /\ Len(bytes) >= 18 + ResponseDecode(bytes).data

UnderstoodOf(bytes) ==
  LET tag  == ResponseDecode(bytes)
      data == SubSeq(bytes, 19, 18 + tag.data)
  IN  UNION {{[kind |-> k, epic |-> tag.epic, story |-> tag.story, page |-> p] :
                p \in PageOf(k, data)} : k \in tag.kind}

\* What the server makes of the bytes of a request.
HeardOf(bytes) == IF RequestEvents(bytes) = {} THEN {Unparseable} ELSE RequestEvents(bytes)

\* bytes are one request, of the one event.
Asks(bytes, events) ==
  /\ bytes \in Seq(Byte)
  /\ Len(bytes) >= 13 /\ RequestSize(bytes) = Len(bytes)
  /\ HeardOf(bytes) = events

\* bytes are one response, understood as the one answer.
Tells(bytes, answers) ==
  /\ bytes \in Seq(Byte)
  /\ Len(bytes) >= 18 /\ Len(bytes) = 18 + ResponseDecode(bytes).data
  /\ UnderstoodOf(bytes) = answers
  /\ answers # {} /\ One(answers)
  /\ \A cut \in Prefixes(bytes) : cut # bytes => ~WholeResponse(cut)

Typed ==
  /\ saved \in SavedEpics
  /\ file \in Seq(Byte) /\ toServer \in Seq(Byte) /\ toClient \in Seq(Byte)
  /\ server \in {"down", "refused", "up", "dead"}
  /\ reading \in BOOLEAN
  /\ asked \subseteq Events /\ heard \subseteq Events
  /\ One(asked) /\ One(heard) /\ One(answered) /\ One(shown)

\* The server's epics are the others, and what is left of the saved one.
Loaded ==
  /\ OtherEpics \subseteq db
  /\ \A x \in db \ OtherEpics : x.epic = saved.epic /\ x.stories \subseteq saved.stories

BeforeBoot ==
  server = "down" =>
    /\ db = OtherEpics
    /\ \E stories \in Orders(saved.stories) : file \in Prefixes(EpicWithStories(saved.epic, stories))

Out ==
  /\ client = "out"
  /\ toServer = <<>> /\ toClient = <<>>
  /\ asked = {} /\ heard = {} /\ answered = {} /\ shown = {}

\* A request is on its way, is heard, or has its answer on its way.
Requested == heard = {} /\ answered = {} /\ toClient = <<>> /\ Asks(toServer, asked)

Served == heard # {} /\ heard = asked /\ answered = {} /\ toClient = <<>> /\ toServer = <<>>

Answered == asked = {} /\ heard = {} /\ toServer = <<>> /\ Tells(toClient, answered)

\* The server is gone, and what it left of an answer is the whole of it or none.
Left ==
  /\ heard = {}
  /\ \/ toClient = <<>>
     \/ asked = {} /\ toServer = <<>> /\ (WholeResponse(toClient) => Tells(toClient, answered))

Awaiting ==
  /\ client = "await"
  /\ \/ server = "up" /\ (Requested \/ Served \/ Answered)
     \/ server = "dead" /\ Left

Prompted ==
  /\ client = "prompt" /\ server \in {"up", "dead"}
  /\ toServer = <<>> /\ toClient = <<>>
  /\ asked = {} /\ heard = {} /\ shown = answered

\* What the server may still hear of a client that is gone.
Remains ==
  \/ Asks(toServer, asked) /\ heard = {}
  \/ ~WholeRequest(toServer) /\ asked = {} /\ heard = {}
  \/ toServer = <<>> /\ heard = asked
  \/ toServer = <<>> /\ asked = {} /\ heard = {Unparseable}

Gone ==
  /\ client = "over"
  /\ \/ server = "up" /\ Remains
     \/ server = "dead" /\ heard = {}

LinkInv ==
  /\ Typed
  /\ Loaded
  /\ BeforeBoot
  /\ Out \/ Awaiting \/ Prompted \/ Gone

-----------------------------------------------------------------------------
(***************************************************************************)
(* The streams.                                                            *)
(***************************************************************************)
LEMMA OneOf ==
  ASSUME NEW S
  PROVE  /\ One(S) => AtMostOne(S)
         /\ One({})
         /\ \A x : One({x})
  <1>1. ASSUME One(S) PROVE AtMostOne(S)
    <2>1. S = {} \/ \E x : S = {x}
      <3>1. ASSUME NEW x \in S PROVE S = {x}
        BY <1>1 DEF One
      <3> QED BY <3>1
    <2>2. Cardinality({}) = 0 /\ \A x : Cardinality({x}) = 1
      BY FS_EmptySet, FS_Singleton
    <2>3. Cardinality(S) = 0 \/ Cardinality(S) = 1
      BY <2>1, <2>2, Zenon
    <2> QED BY <2>3 DEF AtMostOne
  <1>2. One({}) /\ \A x : One({x})
    BY Zenon DEF One
  <1> QED BY <1>1, <1>2

LEMMA NothingIsCut ==
  /\ <<>> \in Seq(Byte)
  /\ ~WholeRequest(<<>>) /\ ~WholeResponse(<<>>)
  /\ Len(<<>>) < 13
  <1>1. <<>> \in Seq(Byte) /\ Len(<<>>) = 0
    BY EmptySeq
  <1>2. ~(Len(<<>>) >= 13) /\ ~(Len(<<>>) >= 18) /\ Len(<<>>) < 13
    BY <1>1
  <1> QED BY <1>1, <1>2, Zenon DEF WholeRequest, WholeResponse

LEMMA DropWhole ==
  ASSUME NEW bytes \in Seq(Byte)
  PROVE  Drop(bytes, Len(bytes)) = <<>>
  <1>1. Len(bytes) \in Nat
    BY LenProperties
  <1> QED BY <1>1 DEF Drop

LEMMA PrefixIs ==
  ASSUME NEW bytes \in Seq(Byte), NEW cut \in Prefixes(bytes)
  PROVE  /\ cut \in Seq(Byte)
         /\ \E l \in 0 .. Len(bytes) : cut = SubSeq(bytes, 1, l)
         /\ bytes = <<>> => cut = <<>>
  <1>1. Len(bytes) \in Nat
    BY LenProperties
  <1>2. PICK l \in 0 .. Len(bytes) : cut = SubSeq(bytes, 1, l)
    BY Zenon DEF Prefixes
  <1>3. At(bytes, 0, bytes) /\ 0 \in Nat
    BY AtSelf
  <1>4. cut \in Seq(Byte) /\ Len(cut) = l
    BY <1>2, <1>3, AtPrefix, Zenon
  <1>5. ASSUME bytes = <<>> PROVE cut = <<>>
    <2>1. Len(bytes) = 0
      BY <1>5, EmptySeq
    <2>2. Len(cut) = 0
      BY <1>4, <2>1
    <2> QED BY <1>4, <2>2, EmptySeq
  <1> QED BY <1>2, <1>4, <1>5

LEMMA RequestAsks ==
  ASSUME NEW r \in Requests
  PROVE  Asks(RequestBytes(r), {Event(r)})
  <1>1. CASE r \in Parseable
    <2> DEFINE bytes == RequestBytes(r)
    <2>1. r.op # "Unparseable"
      BY <1>1 DEF Parseable
    <2>2. Event(r) = r
      BY <2>1, Zenon DEF Event
    <2>3. /\ bytes \in Seq(Byte) /\ Len(bytes) >= 13
          /\ RequestSize(bytes) = Len(bytes)
          /\ RequestEvents(bytes) = {r}
      BY <1>1, RequestsRoundTrip, Zenon
    <2> HIDE DEF bytes
    <2>4. HeardOf(bytes) = {r}
      BY <2>3, Zenon DEF HeardOf
    <2> QED BY <2>2, <2>3, <2>4, Zenon DEF Asks, bytes
  <1>2. CASE r \in NotParseable
    <2>1. /\ r.op = "Unparseable" /\ r.bytes \in Seq(Byte) /\ Len(r.bytes) >= 13
          /\ RequestSize(r.bytes) = Len(r.bytes) /\ RequestEvents(r.bytes) = {}
      BY <1>2 DEF NotParseable
    <2>2. RequestBytes(r) = r.bytes
      BY <2>1 DEF RequestBytes
    <2>3. Event(r) = Unparseable /\ HeardOf(r.bytes) = {Unparseable}
      BY <2>1, Zenon DEF Event, HeardOf
    <2> QED BY <2>1, <2>2, <2>3, Zenon DEF Asks
  <1> QED BY <1>1, <1>2, RequestsAssumption, Zenon

LEMMA AsksCut ==
  ASSUME NEW bytes, NEW events, Asks(bytes, events), NEW cut \in Prefixes(bytes)
  PROVE  cut \in Seq(Byte) /\ (cut # bytes => ~WholeRequest(cut))
  <1>1. /\ bytes \in Seq(Byte) /\ Len(bytes) >= 13 /\ RequestSize(bytes) = Len(bytes)
    BY Zenon DEF Asks
  <1>2. PICK l \in 0 .. Len(bytes) : cut = SubSeq(bytes, 1, l)
    BY <1>1, PrefixIs, Zenon
  <1>3. cut # bytes => ~(Len(cut) >= 13 /\ Len(cut) >= RequestSize(cut))
    BY <1>1, <1>2, RequestCut, Zenon
  <1> QED BY <1>1, <1>3, PrefixIs, Zenon DEF WholeRequest

LEMMA AsksIsWhole ==
  ASSUME NEW bytes, NEW events, Asks(bytes, events)
  PROVE  WholeRequest(bytes) /\ Drop(bytes, RequestSize(bytes)) = <<>> /\ HeardOf(bytes) = events
  <1>1. /\ bytes \in Seq(Byte) /\ Len(bytes) >= 13 /\ RequestSize(bytes) = Len(bytes)
        /\ HeardOf(bytes) = events
    BY Zenon DEF Asks
  <1>2. Len(bytes) \in Nat
    BY <1>1, LenProperties
  <1>3. Len(bytes) >= RequestSize(bytes)
    BY <1>1, <1>2
  <1>4. Drop(bytes, Len(bytes)) = <<>>
    BY <1>1, DropWhole
  <1> QED BY <1>1, <1>3, <1>4, Zenon DEF WholeRequest

LEMMA TellsIsWhole ==
  ASSUME NEW bytes, NEW answers, Tells(bytes, answers)
  PROVE  /\ WholeResponse(bytes) /\ UnderstoodOf(bytes) = answers /\ answers # {} /\ One(answers)
         /\ Drop(bytes, 18 + ResponseDecode(bytes).data) = <<>>
  <1>1. /\ bytes \in Seq(Byte) /\ Len(bytes) >= 18 /\ Len(bytes) = 18 + ResponseDecode(bytes).data
        /\ UnderstoodOf(bytes) = answers /\ answers # {} /\ One(answers)
    BY Zenon DEF Tells
  <1>2. Len(bytes) \in Nat
    BY <1>1, LenProperties
  <1>3. Len(bytes) >= Len(bytes)
    BY <1>2
  <1>4. Drop(bytes, Len(bytes)) = <<>>
    BY <1>1, DropWhole
  <1> QED BY <1>1, <1>3, <1>4, Zenon DEF WholeResponse

-----------------------------------------------------------------------------
(***************************************************************************)
(* The responses.                                                          *)
(***************************************************************************)
LEMMA SendTells ==
  ASSUME NEW k \in 1 .. 13, NEW e \in U32, NEW s \in U32, NEW data \in Seq(Byte),
         Len(data) \in DataLength, NEW page,
         k \in HasData => PageOf(k, data) = {page},
         k \notin HasData => \A d : PageOf(k, d) = {page}
  PROVE  Tells(ResponseBytes(k, e, s, data),
               {[kind |-> k, epic |-> If(e, k \in NamesEpic), story |-> If(s, k \in NamesStory),
                 page |-> page]})
  <1> DEFINE bytes == ResponseBytes(k, e, s, data)
             tag == ResponseDecode(bytes)
             E == If(e, k \in NamesEpic)
             S == If(s, k \in NamesStory)
             answer == [kind |-> k, epic |-> E, story |-> S, page |-> page]
             rest == SubSeq(bytes, 19, 18 + tag.data)
             Pages(kinds, epic, story) ==
               UNION {{[kind |-> j, epic |-> epic, story |-> story, page |-> p] :
                         p \in PageOf(j, rest)} : j \in kinds}
  <1>1. /\ bytes \in Seq(Byte)
        /\ tag = [kind |-> {k}, epic |-> E, story |-> S, data |-> If(Len(data), k \in HasData)]
        /\ Len(bytes) = 18 + tag.data /\ Len(bytes) >= 18
        /\ k \in HasData => SubSeq(bytes, 19, Len(bytes)) = data
        /\ \A l \in 0 .. Len(bytes) :
             SubSeq(bytes, 1, l) # bytes => ~WholeResponse(SubSeq(bytes, 1, l))
    BY ResponsesRoundTrip, Zenon DEF WholeResponse
  <1> HIDE DEF bytes, E, S
  <1>2. tag.kind = {k} /\ tag.epic = E /\ tag.story = S
    <2> HIDE DEF tag
    <2>1. tag = [kind |-> {k}, epic |-> E, story |-> S, data |-> If(Len(data), k \in HasData)]
      BY <1>1
    <2> QED BY <2>1
  <1>3. PageOf(k, rest) = {page}
    BY <1>1, Zenon
  <1>4. UnderstoodOf(bytes) = Pages(tag.kind, tag.epic, tag.story)
    BY Zenon DEF UnderstoodOf
  <1> HIDE DEF tag, rest, Pages
  <1>5. UnderstoodOf(bytes) = Pages({k}, E, S)
    BY <1>2, <1>4, Zenon
  <1>6. UnderstoodOf(bytes) = {[kind |-> k, epic |-> E, story |-> S, page |-> p] :
                                      p \in PageOf(k, rest)}
    BY <1>5, Zenon DEF Pages
  <1>7. UnderstoodOf(bytes) = {[kind |-> k, epic |-> E, story |-> S, page |-> p] : p \in {page}}
    BY <1>3, <1>6, Zenon
  <1>8. UnderstoodOf(bytes) = {answer}
    BY <1>7, Zenon
  <1> HIDE DEF answer
  <1>9. ASSUME NEW cut \in Prefixes(bytes), cut # bytes PROVE ~WholeResponse(cut)
    <2>1. PICK l \in 0 .. Len(bytes) : cut = SubSeq(bytes, 1, l)
      BY Zenon DEF Prefixes
    <2> QED BY <1>1, <1>9, <2>1, Zenon
  <1>10. {answer} # {} /\ One({answer})
    BY OneOf, Zenon
  <1>11. Tells(bytes, {answer})
    BY <1>1, <1>8, <1>9, <1>10, Zenon DEF Tells, tag
  <1> QED BY <1>11 DEF bytes, answer, E, S

LEMMA RangeIs ==
  ASSUME NEW S, IsFiniteSet(S), NEW f \in SetToSeqs(S)
  PROVE  Range(f) = S
  <1>1. f \in Seq(S) /\ \A x \in S : \E i \in 1 .. Len(f) : f[i] = x
    BY OrderOf, Zenon
  <1>2. DOMAIN f = 1 .. Len(f) /\ \A i \in 1 .. Len(f) : f[i] \in S
    BY <1>1
  <1> QED BY <1>1, <1>2, Zenon DEF Range

\* The reader of a list of frames sorts it as Sorted has it.
SortsTo(frames, S) == ById(frames) = Sorted(S)

LEMMA SortsSame ==
  ASSUME NEW S, IsFiniteSet(S), \A x \in S : x.id \in Nat,
         \A x, y \in S : x.id = y.id => x = y, NEW frames \in SetToSeqs(S)
  PROVE  SortsTo(frames, S)
  <1>1. ById(frames) \in SetToSeqs(S) /\ InOrder(ById(frames))
    BY ByIdIs, Zenon
  <1>2. Sorted(S) = CHOOSE f \in SetToSeqs(S) : InOrder(f)
    BY Zenon DEF Sorted, Orders, InOrder
  <1>3. Sorted(S) \in SetToSeqs(S) /\ InOrder(Sorted(S))
    BY <1>1, <1>2, Zenon
  <1> QED BY <1>1, <1>3, OneOrder, Zenon DEF SortsTo

\* The epics that the server may have, as those it writes.
LEMMA EpicsOfDb ==
  ASSUME saved \in SavedEpics, Loaded
  PROVE  /\ IsFiniteSet({x.epic : x \in db})
         /\ \A f \in {x.epic : x \in db} : f \in EpicFrame
         /\ \A f, g \in {x.epic : x \in db} : f.id = g.id => f = g
         /\ \A x \in db :
              /\ x.epic \in EpicFrame
              /\ IsFiniteSet(x.stories)
              /\ x.stories \subseteq StoryFrame
              /\ \A s \in x.stories : s.epic = x.epic.id
              /\ \A s, t \in x.stories : s.id = t.id => s = t
  <1> DEFINE Right(x) == /\ x.epic \in EpicFrame
                         /\ IsFiniteSet(x.stories)
                         /\ x.stories \subseteq StoryFrame
                         /\ \A s \in x.stories : s.epic = x.epic.id
                         /\ \A s, t \in x.stories : s.id = t.id => s = t
  <1>1. \A x \in SavedEpics \cup OtherEpics : Right(x)
    <2>1. \A x \in [epic : EpicFrame, stories : SUBSET StoryFrame] :
            x.epic \in EpicFrame /\ x.stories \subseteq StoryFrame
      OBVIOUS
    <2> QED BY <2>1, EpicsAssumption, Zenon
  <1>2. ASSUME NEW x \in db, x \notin OtherEpics
        PROVE  Right(x) /\ x.epic = saved.epic
    <2>1. x.epic = saved.epic /\ x.stories \subseteq saved.stories
      BY <1>2, Zenon DEF Loaded
    <2>2. Right(saved)
      BY <1>1, Zenon
    <2>3. IsFiniteSet(x.stories)
      BY <2>1, <2>2, FS_Subset
    <2>4. x.stories \subseteq StoryFrame
      BY <2>1, <2>2, Zenon
    <2>5. \A s \in x.stories : s.epic = x.epic.id
      BY <2>1, <2>2, Zenon
    <2>6. \A s, t \in x.stories : s.id = t.id => s = t
      BY <2>1, <2>2, Zenon
    <2>7. x.epic \in EpicFrame
      BY <2>1, <2>2, Zenon
    <2> QED BY <2>1, <2>3, <2>4, <2>5, <2>6, <2>7, Zenon
  <1>3. \A x \in db : Right(x)
    BY <1>1, <1>2, Zenon
  <1>4. IsFiniteSet({x.epic : x \in db})
    <2>1. IsFiniteSet({x.epic : x \in OtherEpics})
      <3> DEFINE S == {x.epic : x \in OtherEpics}
                 f == [x \in OtherEpics |-> x.epic]
      <3>1. f \in Surjection(OtherEpics, S)
        BY DEF Surjection
      <3> HIDE DEF S, f
      <3>2. IsFiniteSet(S)
        BY <3>1, EpicsAssumption, FS_Surjection
      <3> QED BY <3>2 DEF S
    <2>2. IsFiniteSet({x.epic : x \in OtherEpics} \cup {saved.epic})
      BY <2>1, FS_AddElement
    <2>3. {x.epic : x \in db} \subseteq {x.epic : x \in OtherEpics} \cup {saved.epic}
      BY <1>2, Zenon
    <2> QED BY <2>2, <2>3, FS_Subset
  <1>5. ASSUME NEW x \in db, NEW y \in db, x.epic.id = y.epic.id
        PROVE  x.epic = y.epic
    <2>1. CASE x \in OtherEpics /\ y \in OtherEpics
      BY <1>5, <2>1, EpicsAssumption, Zenon
    <2>2. CASE x \in OtherEpics /\ y \notin OtherEpics
      <3>1. y.epic = saved.epic
        BY <1>2, <2>2, Zenon
      <3>2. x.epic.id # saved.epic.id
        BY <2>2, EpicsAssumption, Zenon
      <3> QED BY <1>5, <3>1, <3>2, Zenon
    <2>3. CASE x \notin OtherEpics /\ y \in OtherEpics
      <3>1. x.epic = saved.epic
        BY <1>2, <2>3, Zenon
      <3>2. y.epic.id # saved.epic.id
        BY <2>3, EpicsAssumption, Zenon
      <3> QED BY <1>5, <3>1, <3>2, Zenon
    <2>4. CASE x \notin OtherEpics /\ y \notin OtherEpics
      BY <1>2, <2>4, Zenon
    <2> QED BY <2>1, <2>2, <2>3, <2>4, Zenon
  <1>6. \A f, g \in {x.epic : x \in db} : f.id = g.id => f = g
    BY <1>5, Zenon
  <1>7. \A f \in {x.epic : x \in db} : f \in EpicFrame
    BY <1>3, Zenon
  <1> QED BY <1>3, <1>4, <1>6, <1>7, Zenon

\* One response, with the data and the page that Send gives it.
Sends(k, e, s, data, page) ==
  Tells(ResponseBytes(k, e, s, data),
        {[kind |-> k, epic |-> If(e, k \in NamesEpic), story |-> If(s, k \in NamesStory),
          page |-> page]})

LEMMA NatIds ==
  /\ \A x \in EpicFrame : x.id \in U32 /\ x.id \in Nat
  /\ \A x \in StoryFrame : x.id \in U32 /\ x.id \in Nat /\ x.epic \in U32
  /\ 0 \in U32
  <1>1. U32 \subseteq Nat
    BY SMT DEF U32
  <1>2. \A x \in EpicFrame : x.id \in U32
    BY DEF EpicFrame
  <1>3. \A x \in StoryFrame : x.id \in U32 /\ x.epic \in U32
    BY DEF StoryFrame
  <1> QED BY <1>1, <1>2, <1>3, NoText, Zenon

LEMMA SeqsOf ==
  ASSUME NEW S, NEW T, IsFiniteSet(S), S \subseteq T, NEW f \in SetToSeqs(S)
  PROVE  f \in Seq(T)
  <1>1. f \in Seq(S)
    BY OrderOf, Zenon
  <1> QED BY <1>1

LEMMA HomeTells ==
  ASSUME saved \in SavedEpics, Loaded, NEW k \in {1, 3, 4, 7}, NEW e \in Ids,
         NEW epics \in Orders({x.epic : x \in db}), Len(DbBytes(epics)) \in DataLength
  PROVE  Sends(k, e, 0, DbBytes(epics), [is |-> "home", epics |-> Sorted(Range(epics))])
  <1> DEFINE S == {x.epic : x \in db}
             data == DbBytes(epics)
             page == [is |-> "home", epics |-> Sorted(Range(epics))]
  <1>1. IsFiniteSet(S) /\ S \subseteq EpicFrame /\ \A f, g \in S : f.id = g.id => f = g
    BY EpicsOfDb, Zenon
  <1>2. epics \in SetToSeqs(S)
    BY Zenon DEF Orders
  <1> HIDE DEF S
  <1>3. \A f \in S : f.id \in Nat
    BY <1>1, NatIds, Zenon
  <1>4. Range(epics) = S
    BY <1>1, <1>2, RangeIs
  <1>5. SortsTo(epics, S)
    BY <1>1, <1>2, <1>3, SortsSame, Zenon
  <1>6. epics \in Seq(EpicFrame)
    BY <1>1, <1>2, SeqsOf, Zenon
  <1>7. data \in Seq(Byte) /\ HomePage(data) = {page}
    <2>1. page = [is |-> "home", epics |-> ById(epics)]
      BY <1>4, <1>5, Zenon DEF SortsTo
    <2> HIDE DEF page
    <2> QED BY <1>6, <2>1, HomePageOf, Zenon
  <1> HIDE DEF page, data
  <1>8. k \in 1 .. 13 /\ k \in HasData
    BY DEF HasData
  <1>9. PageOf(k, data) = {page}
    <2>1. PageOf(k, data) = HomePage(data)
      BY DEF PageOf
    <2> QED BY <1>7, <2>1, Zenon
  <1>10. e \in U32 /\ 0 \in U32 /\ Len(data) \in DataLength
    BY IdsAssumption, NatIds, Zenon DEF data
  <1>11. Sends(k, e, 0, data, page)
    BY <1>7, <1>8, <1>9, <1>10, SendTells, Zenon DEF Sends
  <1> QED BY <1>11, Zenon DEF data, page

LEMMA EpicTells ==
  ASSUME saved \in SavedEpics, Loaded, NEW x \in db, NEW k \in {5, 6, 9, 10, 11}, NEW s \in Ids,
         NEW stories \in Orders(x.stories),
         Len(EpicWithStories(x.epic, stories)) \in DataLength
  PROVE  Sends(k, x.epic.id, s, EpicWithStories(x.epic, stories),
               [is |-> "epic", epic |-> x.epic, stories |-> Sorted(x.stories)])
  <1> DEFINE S == x.stories
             data == EpicWithStories(x.epic, stories)
             page == [is |-> "epic", epic |-> x.epic, stories |-> Sorted(S)]
  <1>1. /\ x.epic \in EpicFrame /\ IsFiniteSet(S) /\ S \subseteq StoryFrame
        /\ \A f, g \in S : f.id = g.id => f = g
    BY EpicsOfDb, Zenon
  <1>2. stories \in SetToSeqs(S)
    BY Zenon DEF Orders
  <1> HIDE DEF S
  <1>3. \A f \in S : f.id \in Nat
    BY <1>1, NatIds, Zenon
  <1>4. SortsTo(stories, S)
    BY <1>1, <1>2, <1>3, SortsSame, Zenon
  <1>5. stories \in Seq(StoryFrame)
    BY <1>1, <1>2, SeqsOf, Zenon
  <1>6. data \in Seq(Byte) /\ EpicDetailPage(data) = {page}
    <2>1. page = [is |-> "epic", epic |-> x.epic, stories |-> ById(stories)]
      BY <1>4, Zenon DEF SortsTo
    <2> HIDE DEF page
    <2> QED BY <1>1, <1>5, <2>1, EpicDetailPageOf, Zenon
  <1> HIDE DEF page, data
  <1>7. k \in 1 .. 13 /\ k \in HasData
    BY DEF HasData
  <1>8. PageOf(k, data) = {page}
    <2>1. PageOf(k, data) = EpicDetailPage(data)
      BY DEF PageOf
    <2> QED BY <1>6, <2>1, Zenon
  <1>9. x.epic.id \in U32 /\ s \in U32 /\ Len(data) \in DataLength
    BY <1>1, IdsAssumption, NatIds, Zenon DEF data
  <1>10. Sends(k, x.epic.id, s, data, page)
    BY <1>6, <1>7, <1>8, <1>9, SendTells, Zenon DEF Sends
  <1> QED BY <1>10, Zenon DEF data, page, S

LEMMA StoryTells ==
  ASSUME saved \in SavedEpics, Loaded, NEW x \in db, NEW k \in {8, 12}, NEW s \in x.stories,
         Len(StoryBytes(s)) \in DataLength
  PROVE  Sends(k, s.epic, s.id, StoryBytes(s), [is |-> "story", story |-> s])
  <1> DEFINE data == StoryBytes(s)
             page == [is |-> "story", story |-> s]
  <1>1. s \in StoryFrame
    BY EpicsOfDb, Zenon
  <1>2. data \in Seq(Byte) /\ StoryDetailPage(data) = {page}
    BY <1>1, StoryDetailPageOf, Zenon
  <1> HIDE DEF page, data
  <1>3. k \in 1 .. 13 /\ k \in HasData
    BY DEF HasData
  <1>4. PageOf(k, data) = {page}
    <2>1. PageOf(k, data) = StoryDetailPage(data)
      BY DEF PageOf
    <2> QED BY <1>2, <2>1, Zenon
  <1>5. s.epic \in U32 /\ s.id \in U32 /\ Len(data) \in DataLength
    BY <1>1, NatIds, Zenon DEF data
  <1>6. Sends(k, s.epic, s.id, data, page)
    BY <1>2, <1>3, <1>4, <1>5, SendTells, Zenon DEF Sends
  <1> QED BY <1>6, Zenon DEF data, page

LEMMA NotParsedTells ==
  ASSUME Len(<<>>) \in DataLength
  PROVE  Sends(13, 0, 0, <<>>, [is |-> "same"])
  <1>1. 13 \in 1 .. 13 /\ 13 \notin HasData /\ 0 \in U32 /\ <<>> \in Seq(Byte)
    BY NatIds, EmptySeq DEF HasData
  <1>2. \A d : PageOf(13, d) = {[is |-> "same"]}
    BY DEF PageOf
  <1> QED BY <1>1, <1>2, SendTells, Zenon DEF Sends

-----------------------------------------------------------------------------
(***************************************************************************)
(* The initial states, and one lemma for every action.                     *)
(***************************************************************************)

\* LoadOfFile, of the epic that was being written.
LEMMA LoadOfSaved ==
  ASSUME saved \in SavedEpics, NEW stories \in Orders(saved.stories),
         NEW data \in Prefixes(EpicWithStories(saved.epic, stories))
  PROVE  /\ data \in Seq(Byte)
         /\ \A y \in Load(data) : y.epic = saved.epic /\ y.stories \subseteq saved.stories
         /\ data = EpicWithStories(saved.epic, stories) => Load(data) = {saved}
  <1>1. /\ saved \in [epic : EpicFrame, stories : SUBSET StoryFrame]
        /\ IsFiniteSet(saved.stories)
        /\ \A s \in saved.stories : s.epic = saved.epic.id
    BY EpicsAssumption, Zenon
  <1>2. stories \in SetToSeqs(saved.stories)
    BY Zenon DEF Orders
  <1> QED BY <1>1, <1>2, LoadOfFile, Zenon

LEMMA LinkInit == Init => LinkInv
  <1> SUFFICES ASSUME Init PROVE LinkInv
    OBVIOUS
  <1>1. PICK stories \in Orders(saved.stories) :
          file \in Prefixes(EpicWithStories(saved.epic, stories))
    BY Zenon DEF Init
  <1>2. saved \in SavedEpics
    BY Zenon DEF Init
  <1>3. file \in Seq(Byte)
    BY <1>1, <1>2, LoadOfSaved, Zenon
  <1>4. Typed
    BY <1>2, <1>3, OneOf, NothingIsCut DEF Init, Typed
  <1>5. Loaded
    BY Zenon DEF Init, Loaded
  <1>6. BeforeBoot
    BY <1>1, Zenon DEF Init, BeforeBoot
  <1>7. Out
    BY Zenon DEF Init, Out
  <1> QED BY <1>4, <1>5, <1>6, <1>7, Zenon DEF LinkInv

LEMMA BootLoads ==
  ASSUME LinkInv, Boot
  PROVE  /\ \A x \in Load(file) : x.epic = saved.epic /\ x.stories \subseteq saved.stories
         /\ file \in {EpicWithStories(saved.epic, stories) : stories \in Orders(saved.stories)}
              => Load(file) = {saved}
         /\ db = OtherEpics /\ db' = db \cup Load(file)
         /\ server' = IF Load(file) = {} THEN "refused" ELSE "up"
         /\ Out
  <1>1. server = "down" /\ saved \in SavedEpics
    BY Zenon DEF Boot, LinkInv, Typed
  <1>2. PICK stories \in Orders(saved.stories) :
          file \in Prefixes(EpicWithStories(saved.epic, stories))
    BY <1>1, Zenon DEF LinkInv, BeforeBoot
  <1>3. ASSUME NEW order \in Orders(saved.stories), file = EpicWithStories(saved.epic, order)
        PROVE  Load(file) = {saved}
    <2>1. file \in Seq(Byte)
      BY Zenon DEF LinkInv, Typed
    <2>2. Len(file) \in 0 .. Len(file) /\ SubSeq(file, 1, Len(file)) = file
      BY <2>1, SubSeqFull, LenProperties
    <2>3. file \in Prefixes(file)
      BY <2>2, Zenon DEF Prefixes
    <2> QED BY <1>1, <1>3, <2>3, LoadOfSaved, Zenon
  <1>4. Out
    BY <1>1 DEF LinkInv, Awaiting, Prompted, Gone
  <1> QED BY <1>1, <1>2, <1>3, <1>4, LoadOfSaved, Zenon DEF Boot, LinkInv, BeforeBoot

LEMMA BootKeeps == LinkInv /\ Boot => LinkInv'
  <1> SUFFICES ASSUME LinkInv, Boot PROVE LinkInv'
    OBVIOUS
  <1>1. \A x \in Load(file) : x.epic = saved.epic /\ x.stories \subseteq saved.stories
    BY BootLoads, Zenon
  <1>2. db = OtherEpics /\ db' = db \cup Load(file) /\ server' \in {"refused", "up"} /\ Out
    BY BootLoads, Zenon
  <1>3. file' = <<>> /\ UNCHANGED <<saved, client, toServer, reading, asked, heard,
                                    toClient, answered, shown>>
    BY Zenon DEF Boot
  <1>4. Typed'
    BY <1>2, <1>3, NothingIsCut DEF LinkInv, Typed, One
  <1>5. Loaded'
    BY <1>1, <1>2, <1>3, Zenon DEF Loaded
  <1>6. BeforeBoot'
    BY <1>2 DEF BeforeBoot
  <1>7. Out'
    BY <1>2, <1>3, Zenon DEF Out
  <1> QED BY <1>4, <1>5, <1>6, <1>7, Zenon DEF LinkInv

\* What every other step keeps.
LEMMA AfterBoot ==
  ASSUME LinkInv, server # "down", server' # "down", UNCHANGED <<saved, db>>
  PROVE  Loaded' /\ BeforeBoot'
  BY DEF LinkInv, Loaded, BeforeBoot

LEMMA ConnectKeeps == LinkInv /\ Connect => LinkInv'
  <1> SUFFICES ASSUME LinkInv, Connect PROVE LinkInv'
    OBVIOUS
  <1>1. Loaded' /\ BeforeBoot'
    BY AfterBoot DEF Connect
  <1>2. NewClient \in Events
    BY Zenon DEF Events
  <1>3. Typed'
    BY <1>2, OneOf DEF LinkInv, Typed, Connect, One
  <1>4. Out
    BY DEF LinkInv, Awaiting, Prompted, Gone, Connect
  <1>5. Awaiting'
    BY <1>4 DEF Out, Connect, Awaiting, Served
  <1> QED BY <1>1, <1>3, <1>5, Zenon DEF LinkInv

LEMMA WriteKeeps ==
  ASSUME LinkInv, NEW r \in Requests, Write(r)
  PROVE  LinkInv'
  <1>1. Prompted
    BY DEF LinkInv, Out, Awaiting, Gone, Write
  <1>2. Asks(RequestBytes(r), {Event(r)})
    BY RequestAsks, Zenon
  <1>3. RequestBytes(r) \in Seq(Byte)
    BY <1>2, Zenon DEF Asks
  <1>4. toServer' = RequestBytes(r)
    <2>1. toServer = <<>> /\ toServer' = toServer \o RequestBytes(r)
      BY <1>1, Zenon DEF Prompted, Write
    <2>2. \A s \in Seq(Byte) : <<>> \o s = s
      OBVIOUS
    <2> QED BY <1>3, <2>1, <2>2, Zenon
  <1>5. Event(r) \in Events
    BY Zenon DEF Events
  <1>6. Loaded' /\ BeforeBoot'
    BY <1>1, AfterBoot DEF Prompted, Write
  <1>7. Typed'
    BY <1>3, <1>4, <1>5, OneOf DEF LinkInv, Typed, Write, One
  <1>8. Asks(toServer', asked')
    BY <1>2, <1>4, Zenon DEF Write
  <1>9. Awaiting'
    BY <1>1, <1>8 DEF Prompted, Write, Awaiting, Requested, Left
  <1> QED BY <1>6, <1>7, <1>9, Zenon DEF LinkInv

LEMMA ClientKilledKeeps == LinkInv /\ ClientKilled => LinkInv'
  <1> SUFFICES ASSUME LinkInv, ClientKilled PROVE LinkInv'
    OBVIOUS
  <1>1. server \in {"up", "dead"} /\ (Awaiting \/ Prompted)
    BY DEF LinkInv, Out, Awaiting, Prompted, Gone, ClientKilled
  <1>2. Loaded' /\ BeforeBoot'
    BY <1>1, AfterBoot DEF ClientKilled
  <1>3. toServer \in Seq(Byte) /\ toServer' \in Prefixes(toServer)
    BY Zenon DEF LinkInv, Typed, ClientKilled
  <1>4. toServer' \in Seq(Byte) /\ (toServer = <<>> => toServer' = <<>>)
    BY <1>3, PrefixIs, Zenon
  <1>5. Typed'
    BY <1>4, OneOf DEF LinkInv, Typed, ClientKilled, One
  <1>6. asked' = IF toServer' = toServer THEN asked ELSE {}
    BY Zenon DEF ClientKilled
  <1>7. UNCHANGED <<server, heard>> /\ client' = "over"
    BY Zenon DEF ClientKilled
  <1>8. CASE server = "dead"
    <2>1. heard = {}
      BY <1>1, <1>8 DEF Awaiting, Left, Prompted
    <2> QED BY <1>2, <1>5, <1>7, <1>8, <2>1, Zenon DEF LinkInv, Gone
  <1>9. CASE server = "up"
    <2>1. Requested \/ Served \/ Answered \/ Prompted
      BY <1>1, <1>9 DEF Awaiting
    <2>2. ASSUME Requested PROVE Remains'
      <3>1. Asks(toServer, asked) /\ heard = {}
        BY <2>2, Zenon DEF Requested
      <3>2. CASE toServer' = toServer
        BY <1>6, <1>7, <3>1, <3>2, Zenon DEF Remains
      <3>3. CASE toServer' # toServer
        <4>1. ~WholeRequest(toServer')
          BY <1>3, <3>1, <3>3, AsksCut, Zenon
        <4> QED BY <1>6, <1>7, <3>1, <3>3, <4>1, Zenon DEF Remains
      <3> QED BY <3>2, <3>3, Zenon
    <2>3. ASSUME Served PROVE Remains'
      BY <1>4, <1>6, <1>7, <2>3, Zenon DEF Served, Remains
    <2>4. ASSUME Answered PROVE Remains'
      BY <1>4, <1>6, <1>7, <2>4, NothingIsCut, Zenon DEF Answered, Remains
    <2>5. ASSUME Prompted PROVE Remains'
      BY <1>4, <1>6, <1>7, <2>5, NothingIsCut, Zenon DEF Prompted, Remains
    <2>6. Remains'
      BY <2>1, <2>2, <2>3, <2>4, <2>5, Zenon
    <2> QED BY <1>2, <1>5, <1>7, <1>9, <2>6, Zenon DEF LinkInv, Gone
  <1> QED BY <1>1, <1>8, <1>9, Zenon

LEMMA ReadKeeps == LinkInv /\ Read => LinkInv'
  <1> SUFFICES ASSUME LinkInv, Read PROVE LinkInv'
    OBVIOUS
  <1>1. Awaiting
    BY DEF LinkInv, Out, Prompted, Gone, Read
  <1>2. WholeResponse(toClient)
    BY Zenon DEF Read, ResponseIsWhole, WholeResponse
  <1>3. toClient # <<>>
    BY <1>2, NothingIsCut, Zenon
  <1>4. /\ server \in {"up", "dead"} /\ asked = {} /\ heard = {} /\ toServer = <<>>
        /\ Tells(toClient, answered)
    BY <1>1, <1>2, <1>3, Zenon DEF Awaiting, Requested, Served, Answered, Left
  <1>5. /\ UnderstoodOf(toClient) = answered /\ answered # {} /\ One(answered)
        /\ Drop(toClient, 18 + ResponseDecode(toClient).data) = <<>>
    BY <1>4, TellsIsWhole, Zenon
  <1>6. Understood = answered
    BY <1>5, Zenon DEF Understood, UnderstoodOf
  <1>7. PICK r \in answered : client' = "prompt" /\ shown' = {r}
    BY <1>5, <1>6, Zenon DEF Read
  <1>8. shown' = answered
    BY <1>5, <1>7 DEF One
  <1>9. toClient' = <<>> /\ UNCHANGED <<file, saved, db, server, toServer, reading, asked,
                                        heard, answered>>
    BY <1>5, Zenon DEF Read
  <1>10. Loaded' /\ BeforeBoot'
    BY <1>4, <1>9, AfterBoot
  <1>11. Typed'
    BY <1>5, <1>8, <1>9, NothingIsCut DEF LinkInv, Typed, One
  <1>12. Prompted'
    BY <1>4, <1>7, <1>8, <1>9, Zenon DEF Prompted
  <1> QED BY <1>10, <1>11, <1>12, Zenon DEF LinkInv

LEMMA ReadFailsKeeps == LinkInv /\ ReadFails => LinkInv'
  <1> SUFFICES ASSUME LinkInv, ReadFails PROVE LinkInv'
    OBVIOUS
  <1>1. server = "dead" /\ heard = {}
    BY DEF LinkInv, Out, Awaiting, Left, Prompted, Gone, ReadFails
  <1>2. Loaded' /\ BeforeBoot'
    BY <1>1, AfterBoot DEF ReadFails
  <1>3. Typed'
    BY NothingIsCut DEF LinkInv, Typed, ReadFails, One
  <1>4. Gone'
    BY <1>1 DEF ReadFails, Gone
  <1> QED BY <1>2, <1>3, <1>4, Zenon DEF LinkInv

LEMMA HearKeeps == LinkInv /\ Hear => LinkInv'
  <1> SUFFICES ASSUME LinkInv, Hear PROVE LinkInv'
    OBVIOUS
  <1>1. WholeRequest(toServer) /\ server = "up"
    BY Zenon DEF Hear, RequestIsWhole, WholeRequest
  <1>2. toServer # <<>>
    BY <1>1, NothingIsCut, Zenon
  <1>3. \/ client = "await" /\ Requested
        \/ client = "over" /\ Asks(toServer, asked) /\ heard = {}
    BY <1>1, <1>2 DEF LinkInv, Out, Awaiting, Served, Answered, Prompted, Gone, Remains
  <1>4. Asks(toServer, asked)
    BY <1>3, Zenon DEF Requested
  <1>5. Drop(toServer, RequestSize(toServer)) = <<>> /\ HeardOf(toServer) = asked
    BY <1>4, AsksIsWhole, Zenon
  <1>6. toServer' = <<>> /\ heard' = asked
    BY <1>5, Zenon DEF Hear, HeardOf
  <1>7. UNCHANGED <<file, saved, db, server, client, reading, asked, toClient, answered, shown>>
    BY Zenon DEF Hear
  <1>8. asked # {}
    BY <1>5, Zenon DEF HeardOf
  <1>9. Loaded' /\ BeforeBoot'
    BY <1>1, <1>7, AfterBoot
  <1>10. Typed'
    BY <1>6, <1>7, NothingIsCut DEF LinkInv, Typed, One
  <1>11. CASE client = "await" /\ Requested
    <2>1. Awaiting'
      BY <1>1, <1>6, <1>7, <1>8, <1>11, Zenon DEF Requested, Awaiting, Served
    <2> QED BY <1>9, <1>10, <2>1, Zenon DEF LinkInv
  <1>12. CASE client = "over"
    <2>1. Gone'
      BY <1>1, <1>6, <1>7, <1>12, Zenon DEF Gone, Remains
    <2> QED BY <1>9, <1>10, <2>1, Zenon DEF LinkInv
  <1> QED BY <1>3, <1>11, <1>12, Zenon

LEMMA HearEndKeeps == LinkInv /\ HearEnd => LinkInv'
  <1> SUFFICES ASSUME LinkInv, HearEnd PROVE LinkInv'
    OBVIOUS
  <1>1. server = "up" /\ client \in {"misread", "over"} /\ ~WholeRequest(toServer)
    BY Zenon DEF HearEnd, RequestIsWhole, WholeRequest
  <1>2. Gone /\ Remains
    BY <1>1 DEF LinkInv, Out, Awaiting, Prompted, Gone
  <1>3. heard' = (IF Len(toServer) < 13 THEN heard ELSE {Unparseable}) /\ toServer' = <<>>
    BY Zenon DEF HearEnd
  <1>4. UNCHANGED <<file, saved, db, server, client, asked, toClient, answered, shown>>
    BY Zenon DEF HearEnd
  <1>5. ~Asks(toServer, asked)
    BY <1>1, AsksIsWhole, Zenon
  <1>6. Remains'
    <2>1. CASE ~WholeRequest(toServer) /\ asked = {} /\ heard = {}
      BY <1>3, <1>4, <2>1, NothingIsCut, Zenon DEF Remains
    <2>2. CASE toServer = <<>> /\ (heard = asked \/ (asked = {} /\ heard = {Unparseable}))
      <3>1. heard' = heard
        BY <1>3, <2>2, NothingIsCut, Zenon
      <3> QED BY <1>3, <1>4, <2>2, <3>1, Zenon DEF Remains
    <2> QED BY <1>2, <1>5, <2>1, <2>2, Zenon DEF Remains
  <1>7. Loaded' /\ BeforeBoot'
    BY <1>1, <1>4, AfterBoot
  <1>8. Typed'
    <2>1. Unparseable \in Events
      BY Zenon DEF Events
    <2>2. heard' = heard \/ heard' = {Unparseable}
      BY <1>3, Zenon
    <2>3. heard' \subseteq Events /\ One(heard')
      BY <2>1, <2>2, OneOf DEF LinkInv, Typed
    <2>4. reading' \in BOOLEAN
      BY DEF HearEnd
    <2> QED BY <1>3, <1>4, <2>3, <2>4, NothingIsCut DEF LinkInv, Typed, One
  <1>9. Gone'
    BY <1>1, <1>2, <1>4, <1>6, Zenon DEF Gone
  <1> QED BY <1>7, <1>8, <1>9, Zenon DEF LinkInv

LEMMA ReplyTells ==
  ASSUME LinkInv, Reply
  PROVE  \E bytes, answer : /\ Tells(bytes, {answer})
                            /\ toClient' = toClient \o bytes /\ answered' = {answer}
  <1>1. saved \in SavedEpics /\ Loaded
    BY Zenon DEF LinkInv, Typed
  <1>2. ASSUME NEW k, NEW e, NEW s, NEW data, NEW page, Send(k, e, s, data, page),
               Len(data) \in DataLength => Sends(k, e, s, data, page)
        PROVE  \E bytes, answer : /\ Tells(bytes, {answer})
                                  /\ toClient' = toClient \o bytes /\ answered' = {answer}
    BY <1>2, Zenon DEF Send, Sends
  <1>3. CASE SendHome
    <2>1. PICK k \in {1, 3, 4, 7}, e \in Ids, epics \in Orders({x.epic : x \in db}) :
            Send(k, e, 0, DbBytes(epics), [is |-> "home", epics |-> Sorted(Range(epics))])
      BY <1>3, Zenon DEF SendHome
    <2>2. Len(DbBytes(epics)) \in DataLength =>
            Sends(k, e, 0, DbBytes(epics), [is |-> "home", epics |-> Sorted(Range(epics))])
      BY <1>1, HomeTells
    <2> QED BY <1>2, <2>1, <2>2, Zenon
  <1>4. CASE SendEpic
    <2>1. PICK x \in db : \E k \in {5, 6, 9, 10, 11}, s \in Ids, stories \in Orders(x.stories) :
            Send(k, x.epic.id, s, EpicWithStories(x.epic, stories),
                 [is |-> "epic", epic |-> x.epic, stories |-> Sorted(x.stories)])
      BY <1>4, Zenon DEF SendEpic
    <2>2. PICK k \in {5, 6, 9, 10, 11}, s \in Ids, stories \in Orders(x.stories) :
            Send(k, x.epic.id, s, EpicWithStories(x.epic, stories),
                 [is |-> "epic", epic |-> x.epic, stories |-> Sorted(x.stories)])
      BY <2>1, Zenon
    <2>3. Len(EpicWithStories(x.epic, stories)) \in DataLength =>
            Sends(k, x.epic.id, s, EpicWithStories(x.epic, stories),
                  [is |-> "epic", epic |-> x.epic, stories |-> Sorted(x.stories)])
      BY <1>1, EpicTells
    <2> QED BY <1>2, <2>2, <2>3, Zenon
  <1>5. CASE SendStory
    <2>1. PICK x \in db : \E k \in {8, 12}, s \in x.stories :
            Send(k, s.epic, s.id, StoryBytes(s), [is |-> "story", story |-> s])
      BY <1>5, Zenon DEF SendStory
    <2>2. PICK k \in {8, 12}, s \in x.stories :
            Send(k, s.epic, s.id, StoryBytes(s), [is |-> "story", story |-> s])
      BY <2>1, Zenon
    <2>3. Len(StoryBytes(s)) \in DataLength =>
            Sends(k, s.epic, s.id, StoryBytes(s), [is |-> "story", story |-> s])
      BY <1>1, StoryTells
    <2> QED BY <1>2, <2>2, <2>3, Zenon
  <1>6. CASE SendNotParsed
    BY <1>2, <1>6, NotParsedTells, Zenon DEF SendNotParsed
  <1> QED BY <1>3, <1>4, <1>5, <1>6, Zenon DEF Reply

LEMMA ReplyKeeps == LinkInv /\ Reply => LinkInv'
  <1> SUFFICES ASSUME LinkInv, Reply PROVE LinkInv'
    OBVIOUS
  <1>1. server = "up" /\ client = "await" /\ heard # {}
    BY Zenon DEF Reply
  <1>2. Served
    BY <1>1 DEF LinkInv, Out, Awaiting, Requested, Answered, Prompted, Gone
  <1>3. PICK bytes, answer : /\ Tells(bytes, {answer})
                             /\ toClient' = toClient \o bytes /\ answered' = {answer}
    BY ReplyTells, Zenon
  <1>4. bytes \in Seq(Byte)
    BY <1>3, Zenon DEF Tells
  <1>5. toClient' = bytes
    <2>1. \A s \in Seq(Byte) : <<>> \o s = s
      OBVIOUS
    <2> QED BY <1>2, <1>3, <1>4, <2>1, Zenon DEF Served
  <1>6. asked' = {} /\ heard' = {} /\ UNCHANGED <<file, saved, db, server, client, toServer,
                                                   reading, shown>>
    BY Zenon DEF Reply
  <1>7. Loaded' /\ BeforeBoot'
    BY <1>1, <1>6, AfterBoot
  <1>8. Typed'
    BY <1>3, <1>4, <1>5, <1>6, OneOf DEF LinkInv, Typed, One
  <1>9. Tells(toClient', answered')
    BY <1>3, <1>5, Zenon
  <1>10. Awaiting'
    BY <1>1, <1>2, <1>6, <1>9, Zenon DEF Served, Answered, Awaiting
  <1> QED BY <1>7, <1>8, <1>10, Zenon DEF LinkInv

LEMMA ServerKilledKeeps == LinkInv /\ ServerKilled => LinkInv'
  <1> SUFFICES ASSUME LinkInv, ServerKilled PROVE LinkInv'
    OBVIOUS
  <1>1. server = "up" /\ server' = "dead" /\ toClient' \in Prefixes(toClient)
        /\ asked' = {} /\ heard' = {}
        /\ UNCHANGED <<file, saved, db, client, toServer, reading, answered, shown>>
    BY Zenon DEF ServerKilled
  <1>2. Loaded' /\ BeforeBoot'
    BY <1>1, AfterBoot
  <1>3. toClient' \in Seq(Byte) /\ (toClient = <<>> => toClient' = <<>>)
    BY <1>1, PrefixIs, Zenon DEF LinkInv, Typed
  <1>4. Typed'
    BY <1>1, <1>3, OneOf DEF LinkInv, Typed, One
  <1>5. CASE Out
    <2>1. Out'
      BY <1>1, <1>3, <1>5, Zenon DEF Out
    <2> QED BY <1>2, <1>4, <2>1, Zenon DEF LinkInv
  <1>6. CASE Awaiting
    <2>1. Requested \/ Served \/ Answered
      BY <1>1, <1>6 DEF Awaiting
    <2>2. ASSUME toClient = <<>> PROVE Left'
      BY <1>1, <1>3, <2>2, Zenon DEF Left
    <2>3. ASSUME Answered PROVE Left'
      <3>1. toServer = <<>> /\ Tells(toClient, answered)
        BY <2>3, Zenon DEF Answered
      <3>2. toClient' # toClient => ~WholeResponse(toClient')
        BY <1>1, <3>1, Zenon DEF Tells
      <3> QED BY <1>1, <3>1, <3>2, Zenon DEF Left
    <2>4. Left'
      BY <2>1, <2>2, <2>3, Zenon DEF Requested, Served
    <2>5. Awaiting'
      BY <1>1, <1>6, <2>4, Zenon DEF Awaiting
    <2> QED BY <1>2, <1>4, <2>5, Zenon DEF LinkInv
  <1>7. CASE Prompted
    <2>1. Prompted'
      BY <1>1, <1>3, <1>7 DEF Prompted
    <2> QED BY <1>2, <1>4, <2>1, Zenon DEF LinkInv
  <1>8. CASE Gone
    <2>1. Gone'
      BY <1>1, <1>8, Zenon DEF Gone
    <2> QED BY <1>2, <1>4, <2>1, Zenon DEF LinkInv
  <1> QED BY <1>5, <1>6, <1>7, <1>8, Zenon DEF LinkInv

-----------------------------------------------------------------------------
(***************************************************************************)
(* The theorems.                                                           *)
(***************************************************************************)
LEMMA LinkStep == LinkInv /\ [Next]_vars => LinkInv'
  <1> SUFFICES ASSUME LinkInv, [Next]_vars PROVE LinkInv'
    OBVIOUS
  <1>1. CASE Boot
    BY <1>1, BootKeeps
  <1>2. CASE Connect
    BY <1>2, ConnectKeeps
  <1>3. CASE Read
    BY <1>3, ReadKeeps
  <1>4. CASE ReadFails
    BY <1>4, ReadFailsKeeps
  <1>5. CASE ClientKilled
    BY <1>5, ClientKilledKeeps
  <1>6. CASE Hear
    BY <1>6, HearKeeps
  <1>7. CASE HearEnd
    BY <1>7, HearEndKeeps
  <1>8. CASE Reply
    BY <1>8, ReplyKeeps
  <1>9. CASE ServerKilled
    BY <1>9, ServerKilledKeeps
  <1>10. ASSUME NEW r \in Requests, Write(r) PROVE LinkInv'
    BY <1>10, WriteKeeps
  <1>11. CASE UNCHANGED vars
    BY <1>11 DEF vars, LinkInv, Typed, Loaded, BeforeBoot, Out, Awaiting, Requested, Served,
                 Answered, Left, Prompted, Gone, Remains
  <1> QED
    BY <1>1, <1>2, <1>3, <1>4, <1>5, <1>6, <1>7, <1>8, <1>9, <1>10, <1>11, Zenon DEF Next

\* The streams, the events and the histories are what they are declared to be.
THEOREM LinkIsTyped == Spec => []TypeOK
  <1>1. LinkInv => TypeOK
    <2> SUFFICES ASSUME LinkInv PROVE TypeOK
      OBVIOUS
    <2>1. AtMostOne(asked) /\ AtMostOne(heard) /\ AtMostOne(answered) /\ AtMostOne(shown)
      BY OneOf, Zenon DEF LinkInv, Typed
    <2>2. client \in {"out", "await", "prompt", "misread", "over"}
      BY DEF LinkInv, Out, Awaiting, Prompted, Gone
    <2> QED BY <2>1, <2>2 DEF LinkInv, Typed, Loaded, TypeOK
  <1> QED BY <1>1, LinkInit, LinkStep, PTL DEF Spec

\* Whatever a client asks and wherever it is killed, the server executes the
\* event that was asked, with its ids, status and texts, or none.
THEOREM LinkHears == Spec => []HeardIsAsked
  <1>1. LinkInv => HeardIsAsked
    <2> SUFFICES ASSUME LinkInv, heard # {}
                 PROVE  heard = IF asked = {} THEN {Unparseable} ELSE asked
      BY Zenon DEF HeardIsAsked
    <2>1. heard = asked \/ (asked = {} /\ heard = {Unparseable})
      BY Zenon DEF LinkInv, Out, Awaiting, Requested, Served, Answered, Left, Prompted,
                   Gone, Remains
    <2> QED BY <2>1, Zenon
  <1> QED BY <1>1, LinkInit, LinkStep, PTL DEF Spec

\* A client that may write its next request finds nothing of the last one, nor
\* of its response, in the streams.
THEOREM LinkKeepsInSync == Spec => []InSync
  <1>1. LinkInv => InSync
    BY DEF LinkInv, Out, Awaiting, Gone, Prompted, InSync
  <1> QED BY <1>1, LinkInit, LinkStep, PTL DEF Spec

\* Every response is understood, and the page that it brings shows what the
\* server sent, in the order of the ids.
THEOREM LinkShows == Spec => []ShownIsAnswered
  <1>1. LinkInv => ShownIsAnswered
    BY DEF LinkInv, Out, Awaiting, Gone, Prompted, ShownIsAnswered
  <1> QED BY <1>1, LinkInit, LinkStep, PTL DEF Spec

\* The step that boots the server loads the file as it was written, or of a file
\* that is cut the epic with some of its stories, or refuses to start.
THEOREM LinkLoads == Spec => LoadsWhatIsLeft
  <1> DEFINE Step == server = "down" /\ server' # "down" =>
       LET whole == {EpicWithStories(saved.epic, stories) : stories \in Orders(saved.stories)}
       IN  IF file \in whole THEN server' = "up" /\ db' = OtherEpics \cup {saved}
           ELSE \A x \in db' \ OtherEpics :
                  x.epic = saved.epic /\ x.stories \subseteq saved.stories
  <1>1. ASSUME LinkInv, [Next]_vars PROVE [Step]_vars
    <2> SUFFICES ASSUME server = "down", server' # "down" PROVE Step
      OBVIOUS
    <2>1. Boot
      BY <1>1 DEF Next, vars, Connect, Write, ClientKilled, Read, ReadFails, Hear, HearEnd,
                  Reply, ServerKilled
    <2>2. /\ \A x \in Load(file) : x.epic = saved.epic /\ x.stories \subseteq saved.stories
          /\ file \in {EpicWithStories(saved.epic, stories) : stories \in Orders(saved.stories)}
               => Load(file) = {saved}
          /\ db = OtherEpics /\ db' = db \cup Load(file)
          /\ server' = IF Load(file) = {} THEN "refused" ELSE "up"
      BY <1>1, <2>1, BootLoads, Zenon
    <2>3. CASE file \in {EpicWithStories(saved.epic, stories) : stories \in Orders(saved.stories)}
      <3>1. Load(file) = {saved}
        BY <2>2, <2>3, Zenon
      <3>2. server' = "up" /\ db' = OtherEpics \cup {saved}
        BY <2>2, <3>1, Zenon
      <3> QED BY <2>3, <3>2, Zenon
    <2>4. CASE file \notin {EpicWithStories(saved.epic, stories) : stories \in Orders(saved.stories)}
      <3>1. \A x \in db' \ OtherEpics :
              x.epic = saved.epic /\ x.stories \subseteq saved.stories
        BY <2>2, Zenon
      <3> QED BY <2>4, <3>1, Zenon
    <2> QED BY <2>3, <2>4
  <1> QED BY <1>1, LinkInit, LinkStep, PTL DEF Spec, LoadsWhatIsLeft
=============================================================================
