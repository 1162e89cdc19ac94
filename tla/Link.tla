-------------------------------- MODULE Link --------------------------------
(***************************************************************************)
(* The bytes of Wire on their way: a server starts from the file of an     *)
(* epic that a crash may have cut short anywhere, and talks to one client  *)
(* over a connection.  The client writes a request, the connection's       *)
(* reader (connection_loop) reads it, the server writes a response, the    *)
(* client reads that.  Either may be killed while it writes, so that the   *)
(* other reads a part of what was meant.                                   *)
(*                                                                         *)
(* read_exact waits until it has all bytes it was called for or the other  *)
(* end is gone; nothing sees the reader between the tag and the texts, so  *)
(* that both are read in one step.  Which response a request gets is the   *)
(* matter of Database: here the server may choose any.                     *)
(***************************************************************************)
EXTENDS Wire

CONSTANTS
  Requests,     \* what the client may ask, or another peer may send
  SavedEpics,   \* what the epic's file may hold when it is whole
  OtherEpics,   \* the epics whose files are whole
  Ids           \* ids that responses may name

ASSUME RequestsAssumption == Requests \subseteq Parseable \cup NotParseable

\* Epics as the server writes them: with their own stories, a finite number, and
\* no two of one id, as they are the values of maps by id.
ASSUME EpicsAssumption ==
  /\ SavedEpics \cup OtherEpics \subseteq [epic : EpicFrame, stories : SUBSET StoryFrame]
  /\ IsFiniteSet(OtherEpics)
  /\ \A x, y \in OtherEpics : x.epic.id = y.epic.id => x = y
  /\ \A x \in OtherEpics, y \in SavedEpics : x.epic.id # y.epic.id
  /\ \A x \in SavedEpics \cup OtherEpics :
       /\ IsFiniteSet(x.stories)
       /\ \A s \in x.stories : s.epic = x.epic.id
       /\ \A s, t \in x.stories : s.id = t.id => s = t

ASSUME IdsAssumption == Ids \subseteq U32

VARIABLES
  file,         \* the epic's file
  saved,        \* history: the epic that was being written to it
  db,           \* the epics that the server has loaded
  server,       \* whether the server runs
  client,       \* what the client does
  toServer,     \* the bytes on their way to the server
  reading,      \* whether the connection's reader runs
  asked,        \* history: the request that was written, as the event it should be
  heard,        \* the event that was made of it, which no answer has yet
  toClient,     \* the bytes on their way to the client
  answered,     \* history: the response to it, with the page it should bring
  shown         \* the response that was read, with the page it brought

vars == <<file, saved, db, server, client, toServer, reading, asked, heard,
          toClient, answered, shown>>

Unparseable == [op |-> "Unparseable"]

NewClient == [op |-> "NewClient"]

Event(r) == IF r.op = "Unparseable" THEN Unparseable ELSE r

Events == {Event(r) : r \in Requests} \cup {NewClient, Unparseable}

AtMostOne(S) == Cardinality(S) <= 1

\* The type invariant.
TypeOK ==
  /\ saved \in SavedEpics
  /\ {file, toServer, toClient} \subseteq Seq(Byte)
  /\ OtherEpics \subseteq db
  /\ server \in {"down", "refused", "up", "dead"}
  /\ client \in {"out", "await", "prompt", "misread", "over"}
  /\ reading \in BOOLEAN
  /\ asked \subseteq Events /\ AtMostOne(asked)
  /\ heard \subseteq Events /\ AtMostOne(heard)
  /\ AtMostOne(answered)
  /\ AtMostOne(shown)

\* The orders in which a HashMap may give its values.
Orders(S) == SetToSeqs(S)

Init ==
  /\ saved \in SavedEpics
  /\ \E stories \in Orders(saved.stories) :
       file \in Prefixes(EpicWithStories(saved.epic, stories))
  /\ db = OtherEpics
  /\ server = "down"
  /\ client = "out"
  /\ reading = FALSE
  /\ toServer = <<>> /\ toClient = <<>>
  /\ asked = {} /\ heard = {} /\ answered = {} /\ shown = {}

-----------------------------------------------------------------------------
(***************************************************************************)
(* The server starts and the client connects, which is its first request.  *)
(***************************************************************************)
Boot ==
  /\ server = "down"
  /\ LET loaded == Load(file)
     IN  /\ server' = IF loaded = {} THEN "refused" ELSE "up"
         /\ db' = db \cup loaded
  /\ file' = <<>>
  /\ UNCHANGED <<saved, client, toServer, reading, asked, heard, toClient, answered, shown>>

Connect ==
  /\ server = "up"
  /\ client = "out"
  /\ client' = "await"
  /\ reading' = TRUE
  /\ asked' = {NewClient} /\ heard' = {NewClient}
  /\ UNCHANGED <<file, saved, db, server, toServer, toClient, answered, shown>>

(***************************************************************************)
(* The client.                                                             *)
(***************************************************************************)
Write(r) ==
  /\ client = "prompt"
  /\ client' = "await"
  /\ toServer' = toServer \o RequestBytes(r)
  /\ asked' = {Event(r)} /\ heard' = {} /\ answered' = {} /\ shown' = {}
  /\ UNCHANGED <<file, saved, db, server, reading, toClient>>

\* The client is killed, perhaps within its write.
ClientKilled ==
  /\ client \in {"await", "prompt"}
  /\ client' = "over"
  /\ toServer' \in Prefixes(toServer)
  /\ asked' = IF toServer' = toServer THEN asked ELSE {}
  /\ UNCHANGED <<file, saved, db, server, reading, heard, toClient, answered, shown>>

ResponseIsWhole ==
  Len(toClient) >= 18 /\ Len(toClient) >= 18 + ResponseDecode(toClient).data

\* What the client makes of a response, by the handler of its kind.
Understood ==
  LET tag  == ResponseDecode(toClient)
      data == SubSeq(toClient, 19, 18 + tag.data)
  IN  UNION {{[kind |-> k, epic |-> tag.epic, story |-> tag.story, page |-> p] :
                p \in PageOf(k, data)} : k \in tag.kind}

\* read_exact of a tag and of the data.
Read ==
  /\ client = "await"
  /\ ResponseIsWhole
  /\ \/ \E r \in Understood : client' = "prompt" /\ shown' = {r}
     \/ Understood = {} /\ client' = "misread" /\ shown' = {}
  /\ toClient' = Drop(toClient, 18 + ResponseDecode(toClient).data)
  /\ UNCHANGED <<file, saved, db, server, toServer, reading, asked, heard, answered>>

ReadFails ==
  /\ client = "await"
  /\ server = "dead" /\ ~ResponseIsWhole
  /\ client' = "over"
  /\ toClient' = <<>>
  /\ UNCHANGED <<file, saved, db, server, toServer, reading, asked, heard, answered, shown>>

(***************************************************************************)
(* The server.                                                             *)
(***************************************************************************)
RequestIsWhole == Len(toServer) >= 13 /\ Len(toServer) >= RequestSize(toServer)

Hear ==
  /\ server = "up" /\ reading
  /\ RequestIsWhole
  /\ LET events == RequestEvents(toServer)
     IN  heard' = IF events = {} THEN {Unparseable} ELSE events
  /\ toServer' = Drop(toServer, RequestSize(toServer))
  /\ UNCHANGED <<file, saved, db, server, client, reading, asked, toClient, answered, shown>>

\* The client is gone: the tag is not there, or a text after it is cut.
HearEnd ==
  /\ server = "up" /\ reading
  /\ client \in {"misread", "over"}
  /\ ~RequestIsWhole
  /\ heard' = IF Len(toServer) < 13 THEN heard ELSE {Unparseable}
  /\ toServer' = <<>>
  /\ reading' = FALSE
  /\ UNCHANGED <<file, saved, db, server, client, asked, toClient, answered, shown>>

\* Sends the k-th kind of response: its data, as a HashMap gives it, and the
\* page that the client should make of the data, which no memory holds 2^56 bytes of.
Send(k, e, s, data, page) ==
  /\ Len(data) \in DataLength
  /\ toClient' = toClient \o ResponseBytes(k, e, s, data)
  /\ answered' = {[kind |-> k, epic |-> If(e, k \in NamesEpic),
                   story |-> If(s, k \in NamesStory), page |-> page]}

Sorted(frames) ==
  CHOOSE f \in Orders(frames) : \A i, j \in DOMAIN f : i < j => f[i].id < f[j].id

SendHome ==
  \E k \in {1, 3, 4, 7}, e \in Ids, epics \in Orders({x.epic : x \in db}) :
    Send(k, e, 0, DbBytes(epics), [is |-> "home", epics |-> Sorted(Range(epics))])

SendEpic ==
  \E x \in db : \E k \in {5, 6, 9, 10, 11}, s \in Ids, stories \in Orders(x.stories) :
    Send(k, x.epic.id, s, EpicWithStories(x.epic, stories),
         [is |-> "epic", epic |-> x.epic, stories |-> Sorted(x.stories)])

SendStory ==
  \E x \in db : \E k \in {8, 12}, s \in x.stories :
    Send(k, s.epic, s.id, StoryBytes(s), [is |-> "story", story |-> s])

SendNotParsed == Send(13, 0, 0, <<>>, [is |-> "same"])

Reply ==
  /\ server = "up" /\ client = "await"
  /\ heard # {} /\ answered = {}
  /\ SendHome \/ SendEpic \/ SendStory \/ SendNotParsed
  /\ asked' = {} /\ heard' = {}
  /\ UNCHANGED <<file, saved, db, server, client, toServer, reading, shown>>

\* The server is killed, perhaps within its write of a response.
ServerKilled ==
  /\ server = "up"
  /\ server' = "dead"
  /\ toClient' \in Prefixes(toClient)
  /\ asked' = {} /\ heard' = {}
  /\ UNCHANGED <<file, saved, db, client, toServer, reading, answered, shown>>

Next ==
  \/ Boot \/ Connect \/ Read \/ ReadFails \/ ClientKilled
  \/ Hear \/ HearEnd \/ Reply \/ ServerKilled
  \/ \E r \in Requests : Write(r)

Spec == Init /\ [][Next]_vars

(***************************************************************************)
(* Tasks of the server are run, and a client that waits for a response     *)
(* reads it.                                                               *)
(***************************************************************************)
FairSpec ==
  Spec /\ WF_vars(Hear) /\ WF_vars(Reply) /\ WF_vars(Read) /\ WF_vars(ReadFails)

-----------------------------------------------------------------------------
(***************************************************************************)
(* What the encodings keep.                                                *)
(***************************************************************************)

\* An event is the request that was written, with its ids, status and texts; of
\* a request that its client did not finish nothing is executed.
HeardIsAsked ==
  heard # {} => heard = IF asked = {} THEN {Unparseable} ELSE asked

\* When a request has its answer, whatever became of it, the next one is read
\* from its first byte, and so is the next response.
InSync == client = "prompt" => toServer = <<>> /\ toClient = <<>>

\* Every response is understood, and its page shows what the server sent, sorted
\* by id, however the server's maps order it; nothing is shown of a response
\* that was cut.
ShownIsAnswered ==
  /\ client # "misread"
  /\ client = "prompt" => shown = answered

\* A restart finds an epic's file as it was written.  Of a file that is cut it
\* finds the epic with fewer stories, each as it was, or refuses to start.
LoadsWhatIsLeft ==
  [][server = "down" /\ server' # "down" =>
       LET whole == {EpicWithStories(saved.epic, stories) : stories \in Orders(saved.stories)}
       IN  IF file \in whole THEN server' = "up" /\ db' = OtherEpics \cup {saved}
           ELSE \A x \in db' \ OtherEpics :
                  x.epic = saved.epic /\ x.stories \subseteq saved.stories]_vars

\* No length sends a reader waiting for bytes that never come.
IsAnswered == client = "await" ~> client # "await"
=============================================================================
