--------------------------- MODULE Server_proofs ----------------------------
(***************************************************************************)
(* Safety of the server, for any number of connections, any buffer and     *)
(* window, whatever clients ask and whether or not the disk fails.         *)
(***************************************************************************)
EXTENDS Server, Database_proofs, SequenceTheorems

USE DEF Dead

LEMMA NoSuchOp == \A r \in Request : r # NewClient
  BY DEF Request, NewClient

LEMMA SeqFacts ==
  ASSUME NEW S, NEW s \in Seq(S)
  PROVE  /\ \A x \in S : Append(s, x) \in Seq(S) /\ <<x>> \in Seq(S)
         /\ \A t \in Seq(S) : s \o t \in Seq(S)
         /\ s # <<>> => Head(s) \in S /\ Tail(s) \in Seq(S)
         /\ <<>> \in Seq(S)
  OBVIOUS

LEMMA EventFacts ==
  ASSUME TypeOK
  PROVE  \A i \in DOMAIN events : /\ events[i] \in Event
                                  /\ events[i].peer \in Client
                                  /\ events[i].req \in Request \cup {NewClient}
  <1>1. \A i \in DOMAIN events : events[i] \in Event
    <2>1. events \in Seq(Event)
      BY DEF TypeOK
    <2> QED BY <2>1
  <1> QED BY <1>1 DEF Event

LEMMA AppendFacts ==
  ASSUME NEW S, NEW s \in Seq(S), NEW x \in S
  PROVE  LET t == Append(s, x)
         IN  /\ DOMAIN t = DOMAIN s \cup {Len(s) + 1}
             /\ Len(s) + 1 \notin DOMAIN s
             /\ t[Len(s) + 1] = x
             /\ \A i \in DOMAIN s : t[i] = s[i]
  OBVIOUS

LEMMA TailFacts ==
  ASSUME NEW S, NEW s \in Seq(S), s # <<>>
  PROVE  LET t == Tail(s)
         IN  /\ 1 \in DOMAIN s /\ Head(s) = s[1]
             /\ \A i \in DOMAIN t : i + 1 \in DOMAIN s /\ i + 1 # 1 /\ t[i] = s[i + 1]
             /\ \A j \in DOMAIN s : j # 1 => j - 1 \in DOMAIN t /\ t[j - 1] = s[j]
  OBVIOUS

LEMMA RangeAppend ==
  ASSUME NEW S, NEW s \in Seq(S), NEW x \in S
  PROVE  /\ Range(Append(s, x)) = Range(s) \cup {x}
         /\ IsInjective(s) /\ x \notin Range(s) => IsInjective(Append(s, x))
  <1> DEFINE t == Append(s, x)
  <1>1. /\ DOMAIN t = DOMAIN s \cup {Len(s) + 1}
        /\ t[Len(s) + 1] = x
        /\ \A i \in DOMAIN s : t[i] = s[i]
    BY AppendFacts
  <1> HIDE DEF t
  <1>2. Range(t) = Range(s) \cup {x}
    BY <1>1 DEF Range
  <1>3. IsInjective(s) /\ x \notin Range(s) => IsInjective(t)
    BY <1>1 DEF Range, IsInjective
  <1> QED BY <1>2, <1>3 DEF t

LEMMA RangeTail ==
  ASSUME NEW S, NEW s \in Seq(S), s # <<>>
  PROVE  /\ Range(s) = Range(Tail(s)) \cup {Head(s)}
         /\ IsInjective(s) => IsInjective(Tail(s)) /\ Head(s) \notin Range(Tail(s))
  <1> DEFINE t == Tail(s)
             h == Head(s)
  <1>1. /\ 1 \in DOMAIN s /\ h = s[1]
        /\ \A i \in DOMAIN t : i + 1 \in DOMAIN s /\ i + 1 # 1 /\ t[i] = s[i + 1]
        /\ \A j \in DOMAIN s : j # 1 => j - 1 \in DOMAIN t /\ t[j - 1] = s[j]
        /\ DOMAIN t \subseteq Nat
    BY TailFacts
  <1> HIDE DEF t, h
  <1>2. Range(s) = Range(t) \cup {h}
    <2>1. ASSUME NEW i \in DOMAIN s PROVE s[i] \in Range(t) \cup {h}
      BY <1>1 DEF Range
    <2>2. ASSUME NEW i \in DOMAIN t PROVE t[i] \in Range(s)
      BY <1>1 DEF Range
    <2>3. h \in Range(s)
      BY <1>1 DEF Range
    <2> QED BY <2>1, <2>2, <2>3 DEF Range
  <1>3. IsInjective(s) => h \notin Range(t)
    BY <1>1 DEF Range, IsInjective
  <1>4. IsInjective(s) => IsInjective(t)
    BY <1>1 DEF IsInjective
  <1> QED BY <1>2, <1>3, <1>4 DEF t, h

LEMMA IdleType ==
  ASSUME NEW how \in {"load", "select"} \cup Dead
  PROVE  [Idle EXCEPT !.at = how] \in BrokerState
  BY DEF Idle, BrokerState

LEMMA FlushFacts ==
  ASSUME TypeOK, broker.at = "flush"
  PROVE  LET next == [broker EXCEPT !.at = "write"]
         IN  next \in BrokerState /\ next.at = "write" /\ next.peer = broker.peer
  <1>1. broker \in [at : {"flush", "write"}, peer : Client, reply : {NoReply},
                    write : {"none", "after"}]
    BY DEF TypeOK, BrokerState
  <1> QED BY <1>1 DEF BrokerState

-----------------------------------------------------------------------------
(***************************************************************************)
(* Type correctness, one lemma per group of actions.                       *)
(***************************************************************************)
LEMMA InitType == Init => TypeOK
  <1> SUFFICES ASSUME Init PROVE TypeOK
    OBVIOUS
  <1>1. db \in Db
    BY InitialDbsAssumption DEF Init
  <1>2. adds \in 0 .. MaxAdds
    BY MaxAddsAssumption DEF Init
  <1>3. broker \in BrokerState
    BY IdleType DEF Init, Loading
  <1> QED BY <1>1, <1>2, <1>3 DEF Init, TypeOK

LEMMA ClientType ==
  ASSUME TypeOK, NEW c \in Client, ClientNext(c)
  PROVE  TypeOK'
  <1> USE DEF TypeOK, readerVars, brokerVars, writerVars
  <1>1. CASE Connect(c)
    BY <1>1 DEF Connect
  <1>2. ASSUME NEW r \in Requests, Ask(c, r)
        PROVE  TypeOK'
    <2>1. adds' \in 0 .. MaxAdds
      BY <1>2, MaxAddsAssumption DEF Ask, Adds
    <2>2. c2s' \in [Client -> Seq(Request)]
      BY <1>2, RequestsAssumption, SeqFacts DEF Ask
    <2>3. owed' \in [Client -> Int]
      BY <1>2 DEF Ask
    <2> QED BY <1>2, <2>1, <2>2, <2>3 DEF Ask
  <1>3. CASE Receive(c)
    BY <1>3 DEF Receive
  <1>4. CASE Leave(c)
    BY <1>4 DEF Leave
  <1> QED BY <1>1, <1>2, <1>3, <1>4 DEF ClientNext

LEMMA SendEventType ==
  ASSUME TypeOK, NEW c \in Client, NEW r \in Request \cup {NewClient}, SendEvent(c, r)
  PROVE  /\ events' \in Seq(Event)
         /\ parked' \in Seq(Client)
         /\ reader' \in [Client -> {"none", "hello", "read", "parked", "ended"}]
  <1>1. [peer |-> c, req |-> r] \in Event
    BY DEF Event
  <1>2. events \in Seq(Event) /\ parked \in Seq(Client)
    BY DEF TypeOK
  <1>3. Append(events, [peer |-> c, req |-> r]) \in Seq(Event)
    BY <1>1, <1>2, SeqFacts
  <1>4. Append(parked, c) \in Seq(Client)
    BY <1>2, SeqFacts
  <1>5. events' \in Seq(Event) /\ parked' \in Seq(Client)
    BY <1>2, <1>3, <1>4, Zenon DEF SendEvent
  <1>6. reader' \in [Client -> {"none", "hello", "read", "parked", "ended"}]
    BY DEF TypeOK, SendEvent
  <1> QED BY <1>5, <1>6

LEMMA ReaderType ==
  ASSUME TypeOK, NEW c \in Client, ReaderNext(c)
  PROVE  TypeOK'
  <1>1. CASE ReaderGreets(c)
    BY <1>1, SendEventType DEF ReaderGreets, TypeOK, peerVars, brokerVars, writerVars
  <1>2. CASE ReaderForwards(c)
    <2>1. Head(c2s[c]) \in Request /\ Tail(c2s[c]) \in Seq(Request)
      BY <1>2 DEF ReaderForwards, TypeOK
    <2> QED BY <1>2, <2>1, SendEventType
            DEF ReaderForwards, TypeOK, peerVars, brokerVars, writerVars
  <1>3. CASE ReaderEnds(c)
    BY <1>3 DEF ReaderEnds, TypeOK, peerVars, brokerVars, writerVars
  <1> QED BY <1>1, <1>2, <1>3 DEF ReaderNext

LEMMA DisconnectType ==
  ASSUME TypeOK, NEW c \in Client, Disconnect(c)
  PROVE  /\ writer' \in [Client -> {"none", "run", "done"}]
         /\ disconnects' \in Seq(Client)
         /\ chan' \in [Client -> Seq(Reply)]
  <1>1. disconnects' \in Seq(Client)
    BY SeqFacts DEF TypeOK, Disconnect
  <1>2. chan' \in [Client -> Seq(Reply)]
    BY SeqFacts DEF TypeOK, Disconnect
  <1> QED BY <1>1, <1>2 DEF TypeOK, Disconnect

LEMMA WriterType ==
  ASSUME TypeOK, NEW c \in Client, WriterNext(c)
  PROVE  TypeOK'
  <1> USE DEF TypeOK, peerVars, readerVars, brokerVars, writerVars
  <1>1. CASE WriterTakes(c)
    <2>1. /\ chan[c] \in Seq(Reply)
          /\ <<Head(chan[c])>> \in Seq(Reply)
          /\ Tail(chan[c]) \in Seq(Reply)
      BY <1>1, SeqFacts DEF WriterTakes
    <2> QED BY <1>1, <2>1 DEF WriterTakes
  <1>2. CASE WriterWrites(c)
    <2>1. s2c[c] \o held[c] \in Seq(Reply) /\ <<>> \in Seq(Reply)
      BY SeqFacts
    <2> QED BY <1>2, <2>1 DEF WriterWrites
  <1>3. CASE WriterFails(c)
    BY <1>3, DisconnectType, SeqFacts DEF WriterFails
  <1>4. CASE WriterStops(c)
    BY <1>4, DisconnectType DEF WriterStops
  <1> QED BY <1>1, <1>2, <1>3, <1>4 DEF WriterNext

LEMMA PopEventType ==
  ASSUME TypeOK, events # <<>>, PopEvent
  PROVE  /\ events' \in Seq(Event)
         /\ parked' \in Seq(Client)
         /\ reader' \in [Client -> {"none", "hello", "read", "parked", "ended"}]
  <1>1. events' \in Seq(Event)
    BY SeqFacts DEF TypeOK, PopEvent
  <1>2. parked # <<>> => Head(parked) \in Client /\ Tail(parked) \in Seq(Client)
    BY SeqFacts DEF TypeOK
  <1>3. parked' \in Seq(Client)
    BY <1>2 DEF TypeOK, PopEvent
  <1>4. reader' \in [Client -> {"none", "hello", "read", "parked", "ended"}]
    BY <1>2 DEF TypeOK, PopEvent
  <1> QED BY <1>1, <1>3, <1>4

LEMMA HeadEventType ==
  ASSUME TypeOK, events # <<>>
  PROVE  /\ Head(events) \in Event
         /\ Head(events).peer \in Client
         /\ Head(events).req \in Request \cup {NewClient}
  <1>1. Head(events) \in Event
    BY SeqFacts DEF TypeOK
  <1> QED BY <1>1 DEF Event

LEMMA BrokerDiesType ==
  ASSUME TypeOK, NEW how \in Dead, BrokerDies(how)
  PROVE  TypeOK'
  <1>1. EmptyDb \in Db
    BY MaxIdNat DEF EmptyDb, Db, Map, NoEntries
  <1>2. /\ events' \in Seq(Event)
        /\ parked' \in Seq(Client)
        /\ disconnects' \in Seq(Client)
        /\ chan' \in [Client -> Seq(Reply)]
        /\ reader' \in [Client -> {"none", "hello", "read", "parked", "ended"}]
    BY DEF TypeOK, BrokerDies
  <1>3. /\ broker' \in BrokerState
        /\ db' \in Db /\ clients' \subseteq Client
    BY <1>1, IdleType DEF BrokerDies
  <1> QED BY <1>2, <1>3 DEF TypeOK, BrokerDies, peerVars, writerVars

LEMMA SendReplyType ==
  ASSUME TypeOK, NEW c \in Client, NEW r \in Reply, NEW w \in {"none", "after"},
         SendReply(c, r, w)
  PROVE  /\ chan' \in [Client -> Seq(Reply)]
         /\ broker' \in BrokerState
  <1>1. chan' \in [Client -> Seq(Reply)]
    BY SeqFacts DEF TypeOK, SendReply
  <1> QED BY <1>1 DEF SendReply, BrokerState

LEMMA AroundIsAddStory ==
  ASSUME NEW d \in Db, NEW r \in Request \cup {NewClient}, Handle(d, r).write = "around"
  PROVE  Handle(d, r).reply.kind = "AddedStoryOk"
  <1> USE DEF Handle, Unchanged, Changed
  <1>1. CASE r = NewClient \/ r.op \in {"AddEpic", "Unparseable"}
    BY <1>1 DEF NewClient, NewClientHandler, AddEpicHandler, UnparseableHandler
  <1>2. CASE r \in [op : {"GetEpic", "DeleteEpic", "AddStory"}, epic : Id]
    BY <1>2 DEF GetEpicHandler, DeleteEpicHandler, AddStoryHandler
  <1>3. CASE r \in [op : {"UpdateEpicStatus"}, epic : Id, status : Status]
    BY <1>3 DEF UpdateEpicStatusHandler
  <1>4. CASE r \in [op : {"GetStory", "DeleteStory"}, epic : Id, story : Id]
    BY <1>4 DEF GetStoryHandler, DeleteStoryHandler
  <1>5. CASE r \in [op : {"UpdateStoryStatus"}, epic : Id, story : Id, status : Status]
    BY <1>5 DEF UpdateStoryStatusHandler
  <1> QED BY <1>1, <1>2, <1>3, <1>4, <1>5 DEF Request

LEMMA BrokerTakesType ==
  ASSUME TypeOK, BrokerTakes
  PROVE  TypeOK'
  <1> USE DEF peerVars, readerVars, brokerVars, writerVars
  <1>1. events # <<>> /\ (BrokerPanics \/ PopEvent)
    BY DEF BrokerTakes, BrokerGreets, BrokerAnswers, BrokerAddsStory, BrokerPanics,
           TakesEvent
  <1>2. CASE BrokerPanics
    BY <1>2, BrokerDiesType DEF BrokerPanics
  <1> DEFINE e   == Head(events)
             c   == e.peer
             out == Handle(db, e.req)
  <1>3. c \in Client /\ e.req \in Request \cup {NewClient} /\ db \in Db
    BY <1>1, HeadEventType DEF TypeOK
  <1>4. out \in Outcome /\ NewClientHandler(db) \in Outcome
    BY <1>3, HandleType, NewClientHandlerType
  <1>5. CASE BrokerGreets
    <2>1. NewClientHandler(db).reply \in Reply
      BY <1>4 DEF Outcome
    <2>2. SendReply(c, NewClientHandler(db).reply, "none")
      BY <1>5 DEF BrokerGreets
    <2>3. PopEvent
      BY <1>5 DEF BrokerGreets
    <2> QED BY <1>1, <1>3, <1>5, <2>1, <2>2, <2>3, SendReplyType, PopEventType
            DEF BrokerGreets, TypeOK
  <1>6. CASE BrokerAnswers
    <2>1. out.reply \in Reply /\ out.db \in Db /\ out.write \in {"none", "after"}
      BY <1>4, <1>6 DEF Outcome, Writes, BrokerAnswers
    <2>2. SendReply(c, out.reply, out.write)
      BY <1>6 DEF BrokerAnswers
    <2>3. PopEvent /\ db' = out.db
      BY <1>6 DEF BrokerAnswers
    <2>4. UNCHANGED <<peerVars, c2s, s2c, clients, writerVars, disconnects>>
      BY <1>6 DEF BrokerAnswers
    <2> HIDE DEF out, c
    <2>5. /\ events' \in Seq(Event)
          /\ parked' \in Seq(Client)
          /\ reader' \in [Client -> {"none", "hello", "read", "parked", "ended"}]
      BY <1>1, <1>6, <2>3, PopEventType
    <2>6. /\ chan' \in [Client -> Seq(Reply)]
          /\ broker' \in BrokerState
      BY <1>3, <2>1, <2>2, SendReplyType
    <2> QED BY <2>1, <2>3, <2>4, <2>5, <2>6 DEF TypeOK
  <1>7. CASE BrokerAddsStory
    <2>1. out.reply \in Reply /\ out.db \in Db /\ out.reply.kind = "AddedStoryOk"
      BY <1>3, <1>4, <1>7, AroundIsAddStory DEF Outcome, BrokerAddsStory
    <2>2. /\ PopEvent /\ db' = out.db
          /\ broker' = [at |-> "story", peer |-> c, reply |-> out.reply, write |-> "after"]
      BY <1>7 DEF BrokerAddsStory
    <2>3. UNCHANGED <<peerVars, c2s, s2c, clients, chan, writerVars, disconnects>>
      BY <1>7 DEF BrokerAddsStory
    <2> HIDE DEF out, c
    <2>4. /\ events' \in Seq(Event)
          /\ parked' \in Seq(Client)
          /\ reader' \in [Client -> {"none", "hello", "read", "parked", "ended"}]
      BY <1>1, <2>2, PopEventType
    <2>5. broker' \in BrokerState
      BY <1>3, <2>1, <2>2 DEF BrokerState
    <2> QED BY <2>1, <2>2, <2>3, <2>4, <2>5 DEF TypeOK
  <1> QED BY <1>2, <1>5, <1>6, <1>7 DEF BrokerTakes

LEMMA BrokerAwaitsType ==
  ASSUME TypeOK, BrokerAwaits
  PROVE  TypeOK'
  <1> USE DEF peerVars, readerVars, brokerVars, writerVars
  <1>1. broker.at = "story" =>
          /\ broker.peer \in Client
          /\ broker.reply \in Reply /\ broker.reply.epic \in Id
          /\ broker.write = "after"
    BY DEF TypeOK, BrokerState, Reply
  <1>2. CASE StoryWritten
    <2>1. chan' \in [Client -> Seq(Reply)] /\ broker' \in BrokerState
      BY <1>1, <1>2, SendReplyType DEF StoryWritten
    <2> QED BY <1>2, <2>1 DEF StoryWritten, TypeOK
  <1>3. CASE StoryWriteFails
    <2>1. EpicDoesNotExist(db, broker.reply.epic) \in Reply
      BY <1>1, <1>3, MissingReplyType DEF TypeOK, StoryWriteFails
    <2>2. chan' \in [Client -> Seq(Reply)] /\ broker' \in BrokerState
      BY <1>1, <1>3, <2>1, SendReplyType DEF StoryWriteFails
    <2> QED BY <1>3, <2>2 DEF StoryWriteFails, TypeOK
  <1>4. CASE ReplySent
    <2>1. CASE ReceiverDropped(broker.peer)
      BY <1>4, <2>1, BrokerDiesType DEF ReplySent
    <2>2. CASE ~ReceiverDropped(broker.peer)
      <3>1. /\ broker.at = "flush"
            /\ broker' = Idle \/ broker' = [broker EXCEPT !.at = "write"]
        BY <1>4, <2>2 DEF ReplySent
      <3>2. broker' \in BrokerState
        BY <3>1, FlushFacts, IdleType DEF Idle
      <3> QED BY <1>4, <2>2, <3>2 DEF ReplySent, TypeOK
    <2> QED BY <2>1, <2>2
  <1>5. CASE Written \/ Loaded
    <2>1. broker' \in BrokerState
      BY <1>5 DEF Written, Loaded, BrokerState, Idle
    <2> QED BY <1>5, <2>1 DEF Written, Loaded, TypeOK
  <1>6. CASE WriteFails \/ LoadFails
    BY <1>6, BrokerDiesType DEF WriteFails, LoadFails
  <1> QED BY <1>2, <1>3, <1>4, <1>5, <1>6 DEF BrokerAwaits

LEMMA BrokerReapsType ==
  ASSUME TypeOK, BrokerReaps
  PROVE  TypeOK'
  <1> USE DEF peerVars, readerVars, brokerVars, writerVars
  <1>1. Head(disconnects) \in Client /\ Tail(disconnects) \in Seq(Client)
    BY SeqFacts DEF BrokerReaps, TypeOK
  <1>2. CASE Head(disconnects) \in clients
    <2>1. /\ chan' = [chan EXCEPT ![Head(disconnects)] = <<>>]
          /\ clients' = clients \ {Head(disconnects)}
          /\ disconnects' = Tail(disconnects)
          /\ UNCHANGED <<peerVars, c2s, s2c, readerVars, broker, db, writerVars>>
      BY <1>2 DEF BrokerReaps
    <2>2. chan' \in [Client -> Seq(Reply)]
      <3>1. chan \in [Client -> Seq(Reply)] /\ <<>> \in Seq(Reply)
        BY DEF TypeOK
      <3> QED BY <2>1, <3>1
    <2>3. clients' \subseteq Client
      BY <2>1 DEF TypeOK
    <2> QED BY <1>1, <2>1, <2>2, <2>3 DEF TypeOK
  <1>3. CASE Head(disconnects) \notin clients
    BY <1>3, BrokerDiesType DEF BrokerReaps
  <1> QED BY <1>2, <1>3

LEMMA TypeStep == TypeOK /\ [Next]_vars => TypeOK'
  <1> SUFFICES ASSUME TypeOK, [Next]_vars PROVE TypeOK'
    OBVIOUS
  <1>1. CASE BrokerNext
    BY <1>1, BrokerTakesType, BrokerAwaitsType, BrokerReapsType DEF BrokerNext
  <1>2. CASE \E c \in Client : ClientNext(c) \/ ReaderNext(c) \/ WriterNext(c)
    BY <1>2, ClientType, ReaderType, WriterType
  <1>3. CASE UNCHANGED vars
    BY <1>3 DEF TypeOK, vars, peerVars, readerVars, brokerVars, writerVars
  <1> QED BY <1>1, <1>2, <1>3 DEF Next

\* Type correctness of the server.
THEOREM TypeCorrect == Spec => []TypeOK
  <1> QED BY InitType, TypeStep, PTL DEF Spec

-----------------------------------------------------------------------------
(***************************************************************************)
(* The map of clients and the tasks.  ClientsMatchWriters is not inductive *)
(* by itself: that a NewClient event never finds its client in the map     *)
(* needs that it is the only one and that its writer was never started,    *)
(* and that a writer is reaped once needs that a writer in disconnects has *)
(* ended.  Served says of the client the broker is busy with that it is in *)
(* the map, hence that its receiver is alive: no send of a reply fails.    *)
(***************************************************************************)
Links ==
  /\ ClientsMatchWriters
  /\ FailsOnlyForDisk
  /\ \A i \in DOMAIN disconnects : writer[disconnects[i]] = "done"
  /\ \A c \in Client : held[c] # <<>> => writer[c] = "run"
  /\ \A c \in Client : peer[c] = "out" <=> reader[c] = "none"
  /\ \A c \in Client : reader[c] \in {"none", "hello"} => writer[c] = "none"
  /\ \A i \in DOMAIN events : events[i].req = NewClient =>
       /\ writer[events[i].peer] = "none"
       /\ reader[events[i].peer] \notin {"none", "hello"}
  /\ \A i, j \in DOMAIN events :
       /\ events[i].req = NewClient /\ events[j].req = NewClient
       /\ events[i].peer = events[j].peer
       => i = j
  /\ ~Alive => events = <<>> /\ clients = {} /\ disconnects = <<>> /\ parked = <<>>

Served == broker.at \in {"story", "flush", "write"} => broker.peer \in clients

LEMMA InitLinks == Init => Links /\ Served
  BY DEF Init, Links, ClientsMatchWriters, FailsOnlyForDisk, Loading, Idle, Alive,
         IsInjective, Range, Served

LEMMA HasReceiver ==
  ASSUME TypeOK, Links, Served, broker.at = "flush"
  PROVE  ~ReceiverDropped(broker.peer)
  BY DEF TypeOK, BrokerState, Links, ClientsMatchWriters, Alive, Served, ReceiverDropped

\* Steps that neither start nor end a task, and send or take nothing.
LEMMA LinksKept ==
  ASSUME TypeOK, Links, Alive' <=> Alive, broker'.at = "failed" <=> broker.at = "failed",
         UNCHANGED <<reader, events, parked, clients, writer, disconnects>>,
         \A c \in Client : held'[c] # <<>> => writer[c] = "run",
         \A c \in Client : peer'[c] = "out" <=> peer[c] = "out"
  PROVE  Links'
  BY DEF Links, ClientsMatchWriters, FailsOnlyForDisk

LEMMA ClientLinks ==
  ASSUME TypeOK, Links, NEW c \in Client, ClientNext(c)
  PROVE  Links'
  <1>1. CASE Connect(c)
    <2>1. /\ reader[c] = "none"
          /\ reader' = [reader EXCEPT ![c] = "hello"]
          /\ peer' = [peer EXCEPT ![c] = "up"]
          /\ UNCHANGED <<events, parked, broker, clients, writer, held, disconnects>>
      BY <1>1 DEF Connect, Links, brokerVars, writerVars
    <2>2. writer[c] = "none" /\ \A i \in DOMAIN events :
            events[i].req = NewClient => events[i].peer # c
      BY <2>1 DEF Links
    <2> QED BY <2>1, <2>2 DEF TypeOK, Links, ClientsMatchWriters, FailsOnlyForDisk, Alive
  <1>2. CASE ~Connect(c)
    <2>1. /\ UNCHANGED <<reader, events, parked, broker, clients, writer, held, disconnects>>
          /\ \A d \in Client : peer'[d] = "out" <=> peer[d] = "out"
      BY <1>2 DEF ClientNext, Ask, Receive, Leave, readerVars, brokerVars, writerVars, TypeOK
    <2> QED BY <2>1, LinksKept DEF Links, Alive
  <1> QED BY <1>1, <1>2

LEMMA SendEventLinks ==
  ASSUME TypeOK, Links, NEW c \in Client, NEW r \in Request \cup {NewClient},
         reader[c] \in {"hello", "read"}, r = NewClient <=> reader[c] = "hello",
         SendEvent(c, r),
         UNCHANGED <<peer, broker, clients, writer, held, disconnects>>
  PROVE  Links'
  <1> DEFINE e == [peer |-> c, req |-> r]
             n == Len(events) + 1
  <1>1. reader' \in [Client -> {"none", "hello", "read", "parked", "ended"}]
    BY SendEventType
  <1>2. /\ reader'[c] \notin {"none", "hello"}
        /\ \A d \in Client : d # c => reader'[d] = reader[d]
    BY DEF SendEvent, TypeOK
  <1>3. ClientsMatchWriters' /\ FailsOnlyForDisk'
    BY DEF Links, ClientsMatchWriters, FailsOnlyForDisk, Alive
  <1>4. CASE ~Alive
    <2>1. UNCHANGED <<events, parked>>
      BY <1>4 DEF SendEvent
    <2> QED BY <1>2, <1>3, <1>4, <2>1 DEF Links, Alive
  <1>5. CASE Alive
    <2>1. events' = Append(events, e) /\ e \in Event /\ events \in Seq(Event)
      BY <1>5 DEF SendEvent, TypeOK, Event
    <2>2. /\ DOMAIN events' = DOMAIN events \cup {n}
          /\ n \notin DOMAIN events
          /\ events'[n] = e
          /\ \A i \in DOMAIN events : events'[i] = events[i] /\ events[i].peer \in Client
      BY <2>1, AppendFacts, EventFacts
    <2>3. r = NewClient => writer[c] = "none" /\ \A i \in DOMAIN events :
            events[i].req = NewClient => events[i].peer # c
      BY DEF Links
    <2> HIDE DEF n
    <2>4. \A i \in DOMAIN events' : events'[i].req = NewClient =>
            /\ writer'[events'[i].peer] = "none"
            /\ reader'[events'[i].peer] \notin {"none", "hello"}
      BY <1>2, <2>2, <2>3 DEF Links
    <2>5. \A i, j \in DOMAIN events' :
            /\ events'[i].req = NewClient /\ events'[j].req = NewClient
            /\ events'[i].peer = events'[j].peer
            => i = j
      BY <2>2, <2>3 DEF Links
    <2> QED BY <1>2, <1>3, <1>5, <2>4, <2>5 DEF Links, Alive
  <1> QED BY <1>4, <1>5

LEMMA ReaderLinks ==
  ASSUME TypeOK, Links, NEW c \in Client, ReaderNext(c)
  PROVE  Links'
  <1> USE DEF peerVars, brokerVars, writerVars
  <1>1. CASE ReaderGreets(c)
    BY <1>1, SendEventLinks DEF ReaderGreets
  <1>2. CASE ReaderForwards(c)
    <2>1. Head(c2s[c]) \in Request
      BY <1>2, SeqFacts DEF ReaderForwards, TypeOK
    <2> QED BY <1>2, <2>1, NoSuchOp, SendEventLinks DEF ReaderForwards
  <1>3. CASE ReaderEnds(c)
    <2>1. /\ reader[c] = "read" /\ reader' = [reader EXCEPT ![c] = "ended"]
          /\ UNCHANGED <<peer, events, parked, broker, clients, writer, held, disconnects>>
      BY <1>3 DEF ReaderEnds
    <2>2. \A d \in Client : /\ reader'[d] = "none" <=> reader[d] = "none"
                            /\ reader'[d] = "hello" <=> reader[d] = "hello"
      BY <2>1 DEF TypeOK
    <2>3. \A i \in DOMAIN events : events[i].peer \in Client
      BY EventFacts
    <2> QED BY <2>1, <2>2, <2>3 DEF Links, ClientsMatchWriters, FailsOnlyForDisk, Alive
  <1> QED BY <1>1, <1>2, <1>3 DEF ReaderNext

LEMMA DisconnectLinks ==
  ASSUME TypeOK, Links, NEW c \in Client, writer[c] = "run", Disconnect(c),
         held' = [held EXCEPT ![c] = <<>>],
         UNCHANGED <<peer, reader, events, parked, broker, clients>>
  PROVE  Links'
  <1>1. /\ writer' = [writer EXCEPT ![c] = "done"]
        /\ \A d \in Client : writer'[d] = "none" <=> writer[d] = "none"
        /\ disconnects' = IF Alive THEN Append(disconnects, c) ELSE disconnects
    BY DEF Disconnect, TypeOK
  <1>2. disconnects \in Seq(Client) /\ c \notin Range(disconnects)
    BY DEF TypeOK, Links, Range
  <1>3. Alive => /\ Range(disconnects') = Range(disconnects) \cup {c}
                 /\ IsInjective(disconnects) => IsInjective(disconnects')
    BY <1>1, <1>2, RangeAppend
  <1>4. ClientsMatchWriters'
    BY <1>1, <1>3 DEF TypeOK, Links, ClientsMatchWriters, Alive
  <1>5. \A i \in DOMAIN disconnects' : writer'[disconnects'[i]] = "done"
    <2>1. \A d \in Range(disconnects) : writer[d] = "done" /\ d \in Client
      BY <1>2 DEF Links, Range
    <2>2. Range(disconnects') \subseteq Range(disconnects) \cup {c}
      BY <1>1, <1>3
    <2>3. \A d \in Range(disconnects') : writer'[d] = "done"
      BY <1>1, <2>1, <2>2 DEF TypeOK
    <2> QED BY <2>3 DEF Range
  <1>6. \A d \in Client : held'[d] # <<>> => writer'[d] = "run"
    BY <1>1 DEF TypeOK, Links
  <1>7. \A i \in DOMAIN events : events[i].peer \in Client
    BY EventFacts
  <1>8. ~Alive => disconnects' = <<>>
    BY <1>1 DEF Links
  <1> QED BY <1>1, <1>4, <1>5, <1>6, <1>7, <1>8 DEF Links, FailsOnlyForDisk, Alive

LEMMA WriterLinks ==
  ASSUME TypeOK, Links, NEW c \in Client, WriterNext(c)
  PROVE  Links'
  <1> USE DEF peerVars, readerVars, brokerVars
  <1>1. CASE WriterTakes(c)
    <2>1. \A d \in Client : held'[d] # <<>> => writer[d] = "run"
      BY <1>1 DEF WriterTakes, TypeOK, Links
    <2> QED BY <1>1, <2>1, LinksKept DEF WriterTakes, Alive
  <1>2. CASE WriterWrites(c)
    <2>1. \A d \in Client : held'[d] # <<>> => writer[d] = "run"
      BY <1>2 DEF WriterWrites, TypeOK, Links
    <2> QED BY <1>2, <2>1, LinksKept DEF WriterWrites, Alive
  <1>3. CASE WriterFails(c)
    <2>1. writer[c] = "run"
      BY <1>3 DEF WriterFails, Links
    <2> QED BY <1>3, <2>1, DisconnectLinks DEF WriterFails
  <1>4. CASE WriterStops(c)
    <2>1. held' = [held EXCEPT ![c] = <<>>]
      BY <1>4 DEF WriterStops, TypeOK
    <2> QED BY <1>4, <2>1, DisconnectLinks DEF WriterStops
  <1> QED BY <1>1, <1>2, <1>3, <1>4 DEF WriterNext

LEMMA BrokerDiesLinks ==
  ASSUME TypeOK, Links, NEW how \in Dead, how = "failed" => DiskFails, BrokerDies(how)
  PROVE  Links'
  <1>1. broker'.at = how /\ ~Alive'
    BY DEF BrokerDies, Idle, Alive
  <1>2. /\ events' = <<>> /\ clients' = {} /\ disconnects' = <<>> /\ parked' = <<>>
        /\ UNCHANGED <<peer, writer, held>>
    BY DEF BrokerDies, peerVars, writerVars
  <1>3. \A c \in Client : /\ reader'[c] = "none" <=> reader[c] = "none"
                          /\ reader'[c] = "hello" <=> reader[c] = "hello"
    BY DEF BrokerDies, TypeOK
  <1> QED BY <1>1, <1>2, <1>3 DEF Links, ClientsMatchWriters, FailsOnlyForDisk

LEMMA PopFacts ==
  ASSUME TypeOK, BacklogBounded, events # <<>>, PopEvent
  PROVE  /\ \A c \in Client : \/ reader'[c] = reader[c]
                              \/ reader[c] = "parked" /\ reader'[c] = "read"
         /\ 1 \in DOMAIN events /\ Head(events) = events[1]
         /\ DOMAIN events' \subseteq Nat
         /\ \A i \in DOMAIN events' :
              i + 1 \in DOMAIN events /\ i + 1 # 1 /\ events'[i] = events[i + 1]
         /\ \A j \in DOMAIN events :
              j # 1 => j - 1 \in DOMAIN events' /\ events'[j - 1] = events[j]
  <1>1. events \in Seq(Event) /\ events' = Tail(events)
    BY DEF TypeOK, PopEvent
  <1>2. DOMAIN events' \subseteq Nat
    BY <1>1
  <1>3. parked # <<>> => Head(parked) \in Range(parked) /\ Head(parked) \in Client
    BY RangeTail, SeqFacts DEF TypeOK
  <1>4. \A c \in Client : \/ reader'[c] = reader[c]
                          \/ reader[c] = "parked" /\ reader'[c] = "read"
    BY <1>3 DEF PopEvent, TypeOK, BacklogBounded
  <1> QED BY <1>1, <1>2, <1>4, TailFacts

\* Taking an event that starts no task.
LEMMA PopLinks ==
  ASSUME TypeOK, Links, BacklogBounded, events # <<>>, PopEvent, Alive, Alive',
         UNCHANGED <<peer, clients, writer, held, disconnects>>
  PROVE  Links'
  <1>1. \A c \in Client : /\ reader'[c] = "none" <=> reader[c] = "none"
                          /\ reader'[c] = "hello" <=> reader[c] = "hello"
    BY PopFacts
  <1>2. \A i \in DOMAIN events' : i + 1 \in DOMAIN events /\ events'[i] = events[i + 1]
    BY PopFacts
  <1>3. \A i \in DOMAIN events' : i \in Nat /\ events'[i].peer \in Client
    BY <1>2, EventFacts, PopFacts
  <1>4. \A i, j \in DOMAIN events' :
          /\ events'[i].req = NewClient /\ events'[j].req = NewClient
          /\ events'[i].peer = events'[j].peer
          => i = j
    <2> SUFFICES ASSUME NEW i \in DOMAIN events', NEW j \in DOMAIN events',
                        events'[i].req = NewClient, events'[j].req = NewClient,
                        events'[i].peer = events'[j].peer
                 PROVE  i = j
      OBVIOUS
    <2>1. i + 1 = j + 1
      BY <1>2 DEF Links
    <2> QED BY <2>1, <1>3
  <1>5. \A i \in DOMAIN events' : events'[i].req = NewClient =>
          /\ writer'[events'[i].peer] = "none"
          /\ reader'[events'[i].peer] \notin {"none", "hello"}
    BY <1>1, <1>2, <1>3 DEF Links
  <1>6. ClientsMatchWriters' /\ FailsOnlyForDisk'
    BY DEF Links, ClientsMatchWriters, FailsOnlyForDisk, Alive
  <1> QED BY <1>1, <1>4, <1>5, <1>6 DEF Links

LEMMA BrokerTakesLinks ==
  ASSUME TypeOK, Links, BacklogBounded, BrokerTakes
  PROVE  Links'
  <1> USE DEF peerVars, writerVars
  <1>1. events # <<>> /\ Alive
    BY DEF BrokerTakes, BrokerGreets, BrokerAnswers, BrokerAddsStory, BrokerPanics,
           TakesEvent, Alive
  <1>2. CASE BrokerGreets
    <2> DEFINE c == Head(events).peer
    <2>1. /\ PopEvent /\ Alive'
          /\ Head(events).req = NewClient
          /\ clients' = clients \cup {c}
          /\ writer' = [writer EXCEPT ![c] = "run"]
          /\ UNCHANGED <<peer, held, disconnects>>
      BY <1>2 DEF BrokerGreets, TakesEvent, SendReply, Alive
    <2>2. c \in Client /\ 1 \in DOMAIN events /\ Head(events) = events[1]
      BY <1>1, <2>1, HeadEventType, PopFacts
    <2>3. /\ writer[c] = "none" /\ reader[c] \notin {"none", "hello"}
          /\ \A i \in DOMAIN events : i # 1 /\ events[i].req = NewClient => events[i].peer # c
      BY <2>1, <2>2 DEF Links
    <2> HIDE DEF c
    <2>4. /\ writer'[c] = "run"
          /\ \A d \in Client : d # c => writer'[d] = writer[d]
      BY <2>1, <2>2 DEF TypeOK
    <2>5. \A d \in Client : /\ reader'[d] = "none" <=> reader[d] = "none"
                            /\ reader'[d] = "hello" <=> reader[d] = "hello"
      BY <1>1, <2>1, PopFacts
    <2>6. \A i \in DOMAIN events' : /\ i + 1 \in DOMAIN events /\ i + 1 # 1
                                    /\ events'[i] = events[i + 1]
                                    /\ i \in Nat /\ events'[i].peer \in Client
      BY <1>1, <2>1, PopFacts, EventFacts
    <2>7. \A i \in DOMAIN events' : events'[i].req = NewClient =>
            /\ writer'[events'[i].peer] = "none"
            /\ reader'[events'[i].peer] \notin {"none", "hello"}
      BY <2>3, <2>4, <2>5, <2>6 DEF Links
    <2>8. \A i, j \in DOMAIN events' :
            /\ events'[i].req = NewClient /\ events'[j].req = NewClient
            /\ events'[i].peer = events'[j].peer
            => i = j
      <3> SUFFICES ASSUME NEW i \in DOMAIN events', NEW j \in DOMAIN events',
                          events'[i].req = NewClient, events'[j].req = NewClient,
                          events'[i].peer = events'[j].peer
                   PROVE  i = j
        OBVIOUS
      <3>1. i + 1 = j + 1
        BY <2>6 DEF Links
      <3> QED BY <3>1, <2>6
    <2>9. \A i \in DOMAIN disconnects : disconnects[i] \in Client
      BY DEF TypeOK
    <2>10. ClientsMatchWriters'
      <3>1. c \notin Range(disconnects)
        BY <2>3 DEF Links, Range
      <3> QED BY <1>1, <2>1, <2>2, <2>4, <3>1 DEF Links, ClientsMatchWriters
    <2>11. FailsOnlyForDisk'
      BY <2>1 DEF FailsOnlyForDisk, Alive
    <2>12. \A i \in DOMAIN disconnects' : writer'[disconnects'[i]] = "done"
      BY <2>1, <2>3, <2>4, <2>9 DEF Links
    <2>13. \A d \in Client : /\ held'[d] # <<>> => writer'[d] = "run"
                             /\ peer'[d] = "out" <=> reader'[d] = "none"
                             /\ reader'[d] \in {"none", "hello"} => writer'[d] = "none"
      BY <2>1, <2>3, <2>4, <2>5 DEF Links
    <2> QED BY <2>1, <2>7, <2>8, <2>10, <2>11, <2>12, <2>13 DEF Links
  <1>3. CASE BrokerAnswers
    BY <1>1, <1>3, PopLinks DEF BrokerAnswers, SendReply, Alive
  <1>4. CASE BrokerAddsStory
    BY <1>1, <1>4, PopLinks DEF BrokerAddsStory, Alive
  <1>5. CASE BrokerPanics
    BY <1>5, BrokerDiesLinks DEF BrokerPanics
  <1> QED BY <1>2, <1>3, <1>4, <1>5 DEF BrokerTakes

LEMMA BrokerAwaitsLinks ==
  ASSUME TypeOK, Links, Served, BrokerAwaits
  PROVE  Links'
  <1>1. CASE WriteFails \/ LoadFails
    BY <1>1, BrokerDiesLinks DEF WriteFails, LoadFails
  <1>2. CASE ~WriteFails /\ ~LoadFails
    <2>1. /\ Alive /\ Alive'
          /\ UNCHANGED <<peer, reader, events, parked, clients, writer, held, disconnects>>
      BY <1>2, HasReceiver
         DEF BrokerAwaits, Loaded, StoryWritten, StoryWriteFails, ReplySent, Written,
             SendReply, Idle, Alive, peerVars, readerVars, writerVars, TypeOK, BrokerState
    <2> QED BY <2>1, LinksKept DEF Links, Alive
  <1> QED BY <1>1, <1>2

LEMMA BrokerReapsLinks ==
  ASSUME TypeOK, Links, BrokerReaps
  PROVE  Links'
  <1> DEFINE c == Head(disconnects)
  <1>1. /\ Alive /\ disconnects # <<>> /\ disconnects \in Seq(Client)
    BY DEF BrokerReaps, Alive, TypeOK
  <1>2. /\ Range(disconnects) = Range(Tail(disconnects)) \cup {c}
        /\ IsInjective(disconnects)
        /\ IsInjective(Tail(disconnects)) /\ c \notin Range(Tail(disconnects))
    BY <1>1, RangeTail DEF Links, ClientsMatchWriters
  <1>3. c \in Client /\ c \in clients
    BY <1>1, <1>2, SeqFacts DEF Links, ClientsMatchWriters
  <1>4. /\ clients' = clients \ {c}
        /\ disconnects' = Tail(disconnects)
        /\ UNCHANGED <<peer, reader, events, parked, broker, writer, held>>
    BY <1>3 DEF BrokerReaps, peerVars, readerVars, writerVars
  <1>5. \A d \in Range(disconnects) : writer[d] = "done" /\ d \in Client
    BY <1>1 DEF Links, Range
  <1> HIDE DEF c
  <1>6. ClientsMatchWriters'
    BY <1>1, <1>2, <1>4, <1>5 DEF Links, ClientsMatchWriters, Alive
  <1>7. \A i \in DOMAIN disconnects' : writer'[disconnects'[i]] = "done"
    <2>1. Range(disconnects') \subseteq Range(disconnects)
      BY <1>2, <1>4
    <2> QED BY <2>1, <1>4, <1>5 DEF Range
  <1> QED BY <1>1, <1>4, <1>6, <1>7 DEF Links, FailsOnlyForDisk, Alive

\* While the broker is busy with a client it removes none from the map.
LEMMA ServedStep ==
  ASSUME TypeOK, Links, Served, [Next]_vars
  PROVE  Served'
  <1> USE DEF Served
  <1>1. CASE BrokerGreets
    BY <1>1 DEF BrokerGreets, SendReply
  <1>2. CASE BrokerAnswers \/ BrokerAddsStory
    BY <1>2 DEF BrokerAnswers, BrokerAddsStory, TakesEvent, SendReply
  <1>3. CASE BrokerPanics \/ LoadFails \/ WriteFails
    BY <1>3 DEF BrokerPanics, LoadFails, WriteFails, BrokerDies, Idle
  <1>4. CASE Loaded \/ Written
    BY <1>4 DEF Loaded, Written, Idle
  <1>5. CASE StoryWritten \/ StoryWriteFails
    BY <1>5 DEF StoryWritten, StoryWriteFails, SendReply
  <1>6. CASE ReplySent
    <2>1. /\ broker.at = "flush" /\ UNCHANGED clients
          /\ broker' = Idle \/ broker' = [broker EXCEPT !.at = "write"]
      BY <1>6, HasReceiver DEF ReplySent
    <2>2. CASE broker' = Idle
      BY <2>2 DEF Idle
    <2>3. CASE broker' = [broker EXCEPT !.at = "write"]
      <3>1. broker'.peer = broker.peer
        BY <2>1, <2>3, FlushFacts
      <3> QED BY <2>1, <3>1
    <2> QED BY <2>1, <2>2, <2>3
  <1>7. CASE BrokerReaps
    BY <1>7 DEF BrokerReaps, BrokerDies, Idle
  <1>8. CASE UNCHANGED vars
    BY <1>8 DEF vars, brokerVars
  <1>9. ASSUME NEW c \in Client, ClientNext(c) \/ ReaderNext(c) \/ WriterNext(c)
        PROVE  Served'
    <2>1. UNCHANGED brokerVars
      <3>1. CASE ClientNext(c)
        BY <3>1, Zenon DEF ClientNext, Connect, Ask, Receive, Leave
      <3>2. CASE ReaderNext(c)
        BY <3>2, Zenon DEF ReaderNext, ReaderGreets, ReaderForwards, ReaderEnds
      <3>3. CASE WriterNext(c)
        BY <3>3, Zenon DEF WriterNext, WriterTakes, WriterWrites, WriterFails, WriterStops
      <3> QED BY <1>9, <3>1, <3>2, <3>3
    <2> QED BY <2>1 DEF brokerVars
  <1> QED BY <1>1, <1>2, <1>3, <1>4, <1>5, <1>6, <1>7, <1>8, <1>9
          DEF Next, BrokerNext, BrokerTakes, BrokerAwaits

-----------------------------------------------------------------------------
(***************************************************************************)
(* The backlog of the broker.  Beyond the buffer the queue grows with the  *)
(* readers parked on it, and shrinks by one with each of them it wakes.    *)
(***************************************************************************)
LEMMA InitBacklog == Init => BacklogBounded
  <1> SUFFICES ASSUME Init PROVE BacklogBounded
    OBVIOUS
  <1>1. Len(events) = 0 /\ Len(parked) = 0
    BY DEF Init
  <1> QED BY <1>1, ChanBufAssumption DEF Init, BacklogBounded, IsInjective, Range

LEMMA BacklogKept ==
  ASSUME BacklogBounded, UNCHANGED <<events, parked>>,
         \A c \in Client : reader'[c] = "parked" <=> reader[c] = "parked"
  PROVE  BacklogBounded'
  BY DEF BacklogBounded

LEMMA SendEventBacklog ==
  ASSUME TypeOK, BacklogBounded, NEW c \in Client, NEW r \in Request \cup {NewClient},
         reader[c] \in {"hello", "read"}, SendEvent(c, r)
  PROVE  BacklogBounded'
  <1> DEFINE e == [peer |-> c, req |-> r]
  <1>1. events \in Seq(Event) /\ parked \in Seq(Client) /\ e \in Event
    BY DEF TypeOK, Event
  <1>2. c \notin Range(parked)
    BY DEF BacklogBounded
  <1>3. CASE ~Alive
    BY <1>2, <1>3 DEF SendEvent, TypeOK, BacklogBounded
  <1>4. CASE Alive /\ Len(events) + 1 > ChanBuf
    <2>1. /\ events' = Append(events, e) /\ parked' = Append(parked, c)
          /\ reader' = [reader EXCEPT ![c] = "parked"]
      BY <1>4 DEF SendEvent
    <2> HIDE DEF e
    <2>2. Len(events') = Len(events) + 1 /\ Len(parked') = Len(parked) + 1
      BY <1>1, <2>1
    <2>3. Range(parked') = Range(parked) \cup {c} /\ IsInjective(parked')
      BY <1>1, <1>2, <2>1, RangeAppend DEF BacklogBounded
    <2>4. Len(events') <= ChanBuf + Len(parked')
      BY <1>1, <2>2, ChanBufAssumption DEF BacklogBounded
    <2> QED BY <2>1, <2>3, <2>4 DEF TypeOK, BacklogBounded
  <1>5. CASE Alive /\ ~(Len(events) + 1 > ChanBuf)
    <2>1. /\ events' = Append(events, e) /\ parked' = parked
          /\ reader' = [reader EXCEPT ![c] = "read"]
      BY <1>5 DEF SendEvent
    <2> HIDE DEF e
    <2>2. Len(events') <= ChanBuf + Len(parked')
      BY <1>1, <1>5, <2>1, ChanBufAssumption
    <2> QED BY <1>2, <2>1, <2>2 DEF TypeOK, BacklogBounded
  <1> QED BY <1>3, <1>4, <1>5

LEMMA PopEventBacklog ==
  ASSUME TypeOK, BacklogBounded, events # <<>>, PopEvent
  PROVE  BacklogBounded'
  <1>1. events \in Seq(Event) /\ parked \in Seq(Client)
    BY DEF TypeOK
  <1>2. Len(events') = Len(events) - 1
    BY <1>1 DEF PopEvent
  <1>3. CASE parked = <<>>
    <2>1. UNCHANGED <<parked, reader>>
      BY <1>3 DEF PopEvent
    <2>2. Len(events') <= ChanBuf + Len(parked')
      BY <1>1, <1>2, <2>1, ChanBufAssumption DEF BacklogBounded
    <2> QED BY <2>1, <2>2 DEF BacklogBounded
  <1>4. CASE parked # <<>>
    <2> DEFINE c == Head(parked)
    <2>1. parked' = Tail(parked) /\ reader' = [reader EXCEPT ![c] = "read"]
      BY <1>4 DEF PopEvent
    <2>2. /\ Range(parked) = Range(parked') \cup {c}
          /\ IsInjective(parked') /\ c \notin Range(parked')
      BY <1>1, <1>4, <2>1, RangeTail DEF BacklogBounded
    <2>3. Len(parked') = Len(parked) - 1
      BY <1>1, <1>4, <2>1
    <2>4. Len(events') <= ChanBuf + Len(parked')
      BY <1>1, <1>2, <2>3, ChanBufAssumption DEF BacklogBounded
    <2> HIDE DEF c
    <2> QED BY <2>1, <2>2, <2>4 DEF TypeOK, BacklogBounded
  <1> QED BY <1>3, <1>4

LEMMA BrokerDiesBacklog ==
  ASSUME TypeOK, NEW how, BrokerDies(how)
  PROVE  BacklogBounded'
  <1>1. events' = <<>> /\ parked' = <<>> /\ Range(parked') = {} /\ IsInjective(parked')
    BY DEF BrokerDies, Range, IsInjective
  <1>2. \A c \in Client : reader'[c] # "parked"
    BY DEF BrokerDies
  <1>3. Len(events') <= ChanBuf + Len(parked')
    BY <1>1, ChanBufAssumption
  <1> QED BY <1>1, <1>2, <1>3 DEF BacklogBounded

LEMMA ClientBacklog ==
  ASSUME TypeOK, Links, BacklogBounded, NEW c \in Client, ClientNext(c)
  PROVE  BacklogBounded'
  <1>1. UNCHANGED <<events, parked>>
    BY DEF ClientNext, Connect, Ask, Receive, Leave, readerVars
  <1>2. \A d \in Client : reader'[d] = "parked" <=> reader[d] = "parked"
    BY DEF ClientNext, Connect, Ask, Receive, Leave, readerVars, TypeOK, Links
  <1> QED BY <1>1, <1>2, BacklogKept

LEMMA ReaderBacklog ==
  ASSUME TypeOK, BacklogBounded, NEW c \in Client, ReaderNext(c)
  PROVE  BacklogBounded'
  <1>1. CASE ReaderGreets(c)
    BY <1>1, SendEventBacklog DEF ReaderGreets
  <1>2. CASE ReaderForwards(c)
    <2>1. Head(c2s[c]) \in Request
      BY <1>2, SeqFacts DEF ReaderForwards, TypeOK
    <2> QED BY <1>2, <2>1, SendEventBacklog DEF ReaderForwards
  <1>3. CASE ReaderEnds(c)
    BY <1>3, BacklogKept DEF ReaderEnds, TypeOK
  <1> QED BY <1>1, <1>2, <1>3 DEF ReaderNext

LEMMA WriterBacklog ==
  ASSUME BacklogBounded, NEW c \in Client, WriterNext(c)
  PROVE  BacklogBounded'
  BY BacklogKept DEF WriterNext, WriterTakes, WriterWrites, WriterFails, WriterStops, readerVars

LEMMA BrokerBacklog ==
  ASSUME TypeOK, BacklogBounded, BrokerNext
  PROVE  BacklogBounded'
  <1>1. CASE BrokerGreets \/ BrokerAnswers \/ BrokerAddsStory
    BY <1>1, PopEventBacklog DEF BrokerGreets, BrokerAnswers, BrokerAddsStory, TakesEvent
  <1>2. CASE BrokerPanics \/ WriteFails \/ LoadFails
    BY <1>2, BrokerDiesBacklog DEF BrokerPanics, WriteFails, LoadFails
  <1>3. CASE Loaded \/ StoryWritten \/ StoryWriteFails \/ ReplySent \/ Written
    BY <1>3, BacklogKept, BrokerDiesBacklog
       DEF Loaded, StoryWritten, StoryWriteFails, ReplySent, Written, readerVars
  <1>4. CASE BrokerReaps
    BY <1>4, BacklogKept, BrokerDiesBacklog DEF BrokerReaps, readerVars
  <1> QED BY <1>1, <1>2, <1>3, <1>4 DEF BrokerNext, BrokerTakes, BrokerAwaits

-----------------------------------------------------------------------------
(***************************************************************************)
(* Who an event of an unknown client can be from.  The event was sent by a *)
(* reader after its NewClient event, so what has to be kept is, of every   *)
(* reader that has sent it, that the broker knows its client, or still has *)
(* that event in its queue, or that the client has left.                   *)
(***************************************************************************)
Known ==
  /\ UnknownClientHasLeft
  /\ Alive => \A c \in Client :
       /\ reader[c] \in {"read", "parked"} =>
            \/ c \in clients \/ peer[c] = "gone"
            \/ \E i \in DOMAIN events : events[i] = [peer |-> c, req |-> NewClient]
       /\ reader[c] = "ended" \/ writer[c] = "done" => peer[c] = "gone"

LEMMA InitKnown == Init => Known
  BY DEF Init, Known, UnknownClientHasLeft

\* Steps that send and take nothing.
LEMMA KnownKept ==
  ASSUME TypeOK, Known, Alive' => Alive, UNCHANGED events,
         \A c \in Client :
           /\ peer[c] = "gone" => peer'[c] = "gone"
           /\ c \in clients => c \in clients' \/ peer'[c] = "gone"
           /\ reader'[c] \in {"read", "parked"} => reader[c] \in {"read", "parked"}
           /\ reader'[c] = "ended" => reader[c] = "ended" \/ peer'[c] = "gone"
           /\ writer'[c] = "done" => writer[c] = "done" \/ peer'[c] = "gone" \/ ~Alive
  PROVE  Known'
  <1>1. \A i \in DOMAIN events : events[i].peer \in Client
    BY EventFacts
  <1>2. UnknownClientHasLeft'
    BY <1>1 DEF Known, UnknownClientHasLeft
  <1> QED BY <1>2 DEF Known

LEMMA SendEventKnown ==
  ASSUME TypeOK, Links, Known, NEW c \in Client, NEW r \in Request \cup {NewClient},
         reader[c] \in {"hello", "read"}, r = NewClient <=> reader[c] = "hello",
         SendEvent(c, r),
         UNCHANGED <<peer, broker, clients, writer>>
  PROVE  Known'
  <1> DEFINE e == [peer |-> c, req |-> r]
             n == Len(events) + 1
             hello == [peer |-> c, req |-> NewClient]
  <1>1. CASE ~Alive
    BY <1>1 DEF SendEvent, Links, Known, UnknownClientHasLeft, Alive
  <1>2. CASE Alive
    <2>1. events' = Append(events, e) /\ e \in Event /\ events \in Seq(Event) /\ n \in Nat
      BY <1>2 DEF SendEvent, TypeOK, Event
    <2>2. /\ DOMAIN events' = DOMAIN events \cup {n}
          /\ events'[n] = e
          /\ \A i \in DOMAIN events : /\ events'[i] = events[i] /\ i \in 1 .. n
                                      /\ events[i].peer \in Client
      BY <2>1, AppendFacts, EventFacts
    <2>3. /\ \A d \in Client : d # c => reader'[d] = reader[d]
          /\ reader'[c] # "ended"
      BY <1>2 DEF SendEvent, TypeOK
    <2>4. \/ c \in clients \/ peer[c] = "gone"
          \/ \E i \in DOMAIN events' : events'[i] = hello
      <3>1. CASE r = NewClient
        BY <2>2, <3>1
      <3>2. CASE r # NewClient
        BY <1>2, <2>2, <3>2 DEF Known
      <3> QED BY <3>1, <3>2
    <2> HIDE DEF n
    <2>5. UnknownClientHasLeft'
      <3> SUFFICES ASSUME NEW i \in DOMAIN events'
                   PROVE  \/ events'[i].peer \in clients
                          \/ peer[events'[i].peer] = "gone"
                          \/ \E j \in 1 .. i : events'[j] =
                                 [peer |-> events'[i].peer, req |-> NewClient]
        BY DEF UnknownClientHasLeft
      <3>1. CASE i = n
        <4>1. events'[i].peer = c /\ 1 .. i = 1 .. n /\ n \in 1 .. n
          BY <2>1, <2>2, <3>1 DEF n
        <4>2. DOMAIN events' \subseteq 1 .. n
          BY <2>2, <4>1
        <4> QED BY <2>4, <4>1, <4>2
      <3>2. CASE i # n
        <4>1. i \in DOMAIN events /\ events'[i] = events[i]
          BY <2>2, <3>2
        <4>2. 1 .. i \subseteq DOMAIN events
          BY <2>1, <4>1
        <4> QED BY <2>2, <4>1, <4>2 DEF Known, UnknownClientHasLeft
      <3> QED BY <3>1, <3>2
    <2>6. ASSUME NEW d \in Client
          PROVE  /\ reader'[d] \in {"read", "parked"} =>
                      \/ d \in clients \/ peer[d] = "gone"
                      \/ \E i \in DOMAIN events' :
                           events'[i] = [peer |-> d, req |-> NewClient]
                 /\ reader'[d] = "ended" \/ writer[d] = "done" => peer[d] = "gone"
      <3>1. CASE d = c
        BY <1>2, <2>3, <2>4, <3>1 DEF Known
      <3>2. CASE d # c
        BY <1>2, <2>2, <2>3, <3>2 DEF Known
      <3> QED BY <3>1, <3>2
    <2> QED BY <2>5, <2>6 DEF Known
  <1> QED BY <1>1, <1>2

LEMMA ClientKnown ==
  ASSUME TypeOK, Known, NEW c \in Client, ClientNext(c)
  PROVE  Known'
  <1>1. UNCHANGED <<events, broker, clients, writer>>
    BY DEF ClientNext, Connect, Ask, Receive, Leave, readerVars, brokerVars, writerVars
  <1>2. \A d \in Client : /\ peer[d] = "gone" => peer'[d] = "gone"
                          /\ reader'[d] = reader[d] \/ reader'[d] = "hello"
    BY DEF ClientNext, Connect, Ask, Receive, Leave, readerVars, TypeOK
  <1> QED BY <1>1, <1>2, KnownKept DEF Alive

LEMMA ReaderKnown ==
  ASSUME TypeOK, Links, Known, NEW c \in Client, ReaderNext(c)
  PROVE  Known'
  <1> USE DEF peerVars, brokerVars, writerVars
  <1>1. CASE ReaderGreets(c)
    BY <1>1, SendEventKnown DEF ReaderGreets
  <1>2. CASE ReaderForwards(c)
    <2>1. Head(c2s[c]) \in Request
      BY <1>2, SeqFacts DEF ReaderForwards, TypeOK
    <2> QED BY <1>2, <2>1, NoSuchOp, SendEventKnown DEF ReaderForwards
  <1>3. CASE ReaderEnds(c)
    BY <1>3, KnownKept DEF ReaderEnds, TypeOK, Alive
  <1> QED BY <1>1, <1>2, <1>3 DEF ReaderNext

LEMMA WriterKnown ==
  ASSUME TypeOK, Links, Known, NEW c \in Client, WriterNext(c)
  PROVE  Known'
  <1>1. UNCHANGED <<peer, reader, events, broker, clients>>
    BY DEF WriterNext, WriterTakes, WriterWrites, WriterFails, WriterStops,
           peerVars, readerVars, brokerVars
  <1>2. CASE WriterTakes(c) \/ WriterWrites(c)
    BY <1>1, <1>2, KnownKept DEF WriterTakes, WriterWrites, Alive
  <1>3. CASE WriterFails(c) \/ WriterStops(c)
    <2>1. Alive => peer[c] = "gone"
      BY <1>3 DEF WriterFails, WriterStops, Known, Links, ClientsMatchWriters
    <2>2. writer' = [writer EXCEPT ![c] = "done"]
      BY <1>3 DEF WriterFails, WriterStops, Disconnect
    <2> QED BY <1>1, <2>1, <2>2, KnownKept DEF TypeOK, Alive
  <1> QED BY <1>2, <1>3 DEF WriterNext

LEMMA BrokerDiesKnown ==
  ASSUME NEW how \in Dead, BrokerDies(how)
  PROVE  Known'
  BY DEF BrokerDies, Idle, Alive, Known, UnknownClientHasLeft

\* Taking an event: a NewClient event makes its client known.
LEMMA PopKnown ==
  ASSUME TypeOK, BacklogBounded, Known, Alive, events # <<>>, PopEvent, UNCHANGED peer,
         Head(events).req = NewClient => Head(events).peer \in clients',
         clients \subseteq clients',
         \A c \in Client : writer'[c] = "done" => writer[c] = "done"
  PROVE  Known'
  <1>1. /\ 1 \in DOMAIN events /\ Head(events) = events[1]
        /\ DOMAIN events' \subseteq Nat
        /\ \A i \in DOMAIN events' :
             i + 1 \in DOMAIN events /\ i + 1 # 1 /\ events'[i] = events[i + 1]
        /\ \A j \in DOMAIN events :
             j # 1 => j - 1 \in DOMAIN events' /\ events'[j - 1] = events[j]
    BY PopFacts
  <1>2. \A c \in Client : \/ reader'[c] = reader[c]
                          \/ reader[c] = "parked" /\ reader'[c] = "read"
    BY PopFacts
  <1>3. \A j \in DOMAIN events : 1 .. j \subseteq DOMAIN events /\ j \in Nat
    BY DEF TypeOK
  <1>4. UnknownClientHasLeft'
    <2> SUFFICES ASSUME NEW i \in DOMAIN events', events'[i].peer \notin clients',
                        peer[events'[i].peer] # "gone"
                 PROVE  \E j \in 1 .. i : events'[j] =
                          [peer |-> events'[i].peer, req |-> NewClient]
      BY DEF UnknownClientHasLeft
    <2>1. /\ i \in Nat /\ i + 1 \in DOMAIN events /\ events'[i] = events[i + 1]
      BY <1>1
    <2>2. PICK j \in 1 .. (i + 1) : events[j] =
            [peer |-> events'[i].peer, req |-> NewClient]
      BY <2>1 DEF Known, UnknownClientHasLeft
    <2>3. j # 1
      BY <1>1, <2>2
    <2>4. j \in DOMAIN events /\ events'[j - 1] = events[j]
      BY <1>1, <1>3, <2>1, <2>2, <2>3
    <2>5. j - 1 \in 1 .. i
      BY <2>1, <2>2, <2>3
    <2> QED BY <2>2, <2>4, <2>5
  <1>5. ASSUME NEW c \in Client
        PROVE  /\ reader'[c] \in {"read", "parked"} =>
                    \/ c \in clients' \/ peer[c] = "gone"
                    \/ \E i \in DOMAIN events' :
                         events'[i] = [peer |-> c, req |-> NewClient]
               /\ reader'[c] = "ended" \/ writer'[c] = "done" => peer[c] = "gone"
    <2>1. reader'[c] = reader[c] \/ (reader[c] = "parked" /\ reader'[c] = "read")
      BY <1>2
    <2>2. reader'[c] = "ended" \/ writer'[c] = "done" => peer[c] = "gone"
      BY <2>1 DEF Known
    <2>3. ASSUME NEW j \in DOMAIN events, events[j] = [peer |-> c, req |-> NewClient],
                 c \notin clients'
          PROVE  \E i \in DOMAIN events' : events'[i] = [peer |-> c, req |-> NewClient]
      <3>1. j # 1
        BY <1>1, <2>3
      <3> QED BY <1>1, <2>3, <3>1
    <2> QED BY <2>1, <2>2, <2>3 DEF Known
  <1> QED BY <1>4, <1>5 DEF Known

LEMMA BrokerKnown ==
  ASSUME TypeOK, Links, Served, BacklogBounded, Known, BrokerNext
  PROVE  Known'
  <1>1. CASE BrokerGreets
    <2>1. /\ Alive /\ events # <<>> /\ PopEvent /\ UNCHANGED peer
          /\ clients' = clients \cup {Head(events).peer}
          /\ writer' = [writer EXCEPT ![Head(events).peer] = "run"]
      BY <1>1 DEF BrokerGreets, TakesEvent, Alive, peerVars
    <2>2. \A c \in Client : writer'[c] = "done" => writer[c] = "done"
      BY <2>1 DEF TypeOK
    <2> QED BY <2>1, <2>2, PopKnown
  <1>2. CASE BrokerAnswers \/ BrokerAddsStory
    <2>1. /\ Alive /\ events # <<>> /\ PopEvent
          /\ Head(events).req # NewClient
          /\ UNCHANGED <<peer, clients, writer>>
      BY <1>2 DEF BrokerAnswers, BrokerAddsStory, TakesEvent, Alive, peerVars, writerVars
    <2> QED BY <2>1, PopKnown
  <1>3. CASE BrokerPanics \/ WriteFails \/ LoadFails
    BY <1>3, BrokerDiesKnown DEF BrokerPanics, WriteFails, LoadFails
  <1>4. CASE Loaded \/ StoryWritten \/ StoryWriteFails \/ ReplySent \/ Written
    <2>1. UNCHANGED <<peer, reader, events, clients, writer>> /\ Alive
      BY <1>4, HasReceiver
         DEF Loaded, StoryWritten, StoryWriteFails, ReplySent, Written, Alive,
             peerVars, readerVars, writerVars
    <2> QED BY <2>1, KnownKept
  <1>5. CASE BrokerReaps
    <2> DEFINE c == Head(disconnects)
    <2>1. Alive /\ disconnects # <<>> /\ disconnects \in Seq(Client)
      BY <1>5 DEF BrokerReaps, Alive, TypeOK
    <2>2. 1 \in DOMAIN disconnects /\ c = disconnects[1] /\ c \in Client
      BY <2>1
    <2>3. peer[c] = "gone" /\ c \in clients
      BY <2>1, <2>2 DEF Links, Known, ClientsMatchWriters, Range
    <2>4. clients' = clients \ {c} /\ UNCHANGED <<peer, reader, events, broker, writer>>
      BY <1>5, <2>3 DEF BrokerReaps, peerVars, readerVars, writerVars
    <2> QED BY <2>3, <2>4, KnownKept DEF Alive
  <1> QED BY <1>1, <1>2, <1>3, <1>4, <1>5 DEF BrokerNext, BrokerTakes, BrokerAwaits

-----------------------------------------------------------------------------
(***************************************************************************)
(* The inductive invariant, and the theorems.                              *)
(***************************************************************************)
Inv == TypeOK /\ Links /\ Served /\ BacklogBounded /\ Known

LEMMA InvInit == Init => Inv
  BY InitType, InitLinks, InitBacklog, InitKnown DEF Inv

LEMMA InvStep == Inv /\ [Next]_vars => Inv'
  <1> SUFFICES ASSUME TypeOK, Links, Served, BacklogBounded, Known, [Next]_vars
               PROVE  Links' /\ BacklogBounded' /\ Known'
    BY TypeStep, ServedStep DEF Inv
  <1>1. ASSUME NEW c \in Client, ClientNext(c)
        PROVE  Links' /\ BacklogBounded' /\ Known'
    BY <1>1, ClientLinks, ClientBacklog, ClientKnown
  <1>2. ASSUME NEW c \in Client, ReaderNext(c)
        PROVE  Links' /\ BacklogBounded' /\ Known'
    BY <1>2, ReaderLinks, ReaderBacklog, ReaderKnown
  <1>3. ASSUME NEW c \in Client, WriterNext(c)
        PROVE  Links' /\ BacklogBounded' /\ Known'
    BY <1>3, WriterLinks, WriterBacklog, WriterKnown
  <1>4. CASE BrokerNext
    <2>1. Links'
      BY <1>4, BrokerTakesLinks, BrokerAwaitsLinks, BrokerReapsLinks DEF BrokerNext
    <2> QED BY <1>4, <2>1, BrokerBacklog, BrokerKnown
  <1>5. CASE UNCHANGED vars
    BY <1>5 DEF vars, peerVars, readerVars, brokerVars, writerVars, Alive,
                Links, ClientsMatchWriters, FailsOnlyForDisk, BacklogBounded, Known,
                UnknownClientHasLeft
  <1> QED BY <1>1, <1>2, <1>3, <1>4, <1>5 DEF Next

LEMMA InvHolds == Spec => []Inv
  BY InvInit, InvStep, PTL DEF Spec

\* The broker's map holds exactly the clients whose writer runs or waits to be
\* reaped, and a writer is reaped at most once.
THEOREM ClientsAlwaysMatchWriters == Spec => []ClientsMatchWriters
  <1>1. Inv => ClientsMatchWriters
    BY DEF Inv, Links
  <1> QED BY <1>1, InvHolds, PTL

\* The broker ends with an error only when a write to the disk failed.
THEOREM BrokerFailsOnlyForDisk == Spec => []FailsOnlyForDisk
  <1>1. Inv => FailsOnlyForDisk
    BY DEF Inv, Links
  <1> QED BY <1>1, InvHolds, PTL

\* An event that can panic the broker is of a client that has left.
THEOREM UnknownClientsHaveLeft == Spec => []UnknownClientHasLeft
  <1>1. Inv => UnknownClientHasLeft
    BY DEF Inv, Known
  <1> QED BY <1>1, InvHolds, PTL

\* The broker's queue never exceeds the buffer by more than one event of each
\* reader, and a reader that filled it waits.
THEOREM BacklogAlwaysBounded == Spec => []BacklogBounded
  <1>1. Inv => BacklogBounded
    BY DEF Inv
  <1> QED BY <1>1, InvHolds, PTL

\* Whatever a request does to a database, and whoever makes it, ids that were
\* unique stay unique and a new item's id was not given before, as long as ids
\* last.
THEOREM IdsAlwaysStayUnique == Spec => IdsStayUnique
  <1>1. Inv /\ [Next]_vars => [KeepsIdsUnique]_vars
    <2> SUFFICES ASSUME TypeOK, [Next]_vars, Alive', UniqueIds(db), db.last < MaxId
                 PROVE  UniqueIds(db') /\ NewIdsAreFresh(db, db')
      BY DEF Inv, KeepsIdsUnique
    <2>1. db \in Db /\ NewIdsAreFresh(db, db)
      BY MaxIdNat DEF TypeOK, Db, Id, NewIdsAreFresh
    <2>2. CASE UNCHANGED db
      BY <2>1, <2>2
    <2>3. CASE BrokerAnswers \/ BrokerAddsStory
      <3>1. events # <<>> /\ db' = Handle(db, Head(events).req).db
        BY <2>3 DEF BrokerAnswers, BrokerAddsStory, TakesEvent
      <3> QED BY <2>1, <3>1, HeadEventType, HandleKeepsIdsUnique
    <2>4. ~BrokerDies("panicked") /\ ~BrokerDies("failed")
      BY DEF BrokerDies, Idle, Alive
    <2>5. ASSUME NEW c \in Client, ClientNext(c) \/ ReaderNext(c) \/ WriterNext(c)
          PROVE  UNCHANGED db
      <3>1. CASE ClientNext(c)
        BY <3>1 DEF ClientNext, Connect, Ask, Receive, Leave, brokerVars
      <3>2. CASE ReaderNext(c)
        BY <3>2 DEF ReaderNext, ReaderGreets, ReaderForwards, ReaderEnds, brokerVars
      <3>3. CASE WriterNext(c)
        BY <3>3 DEF WriterNext, WriterTakes, WriterWrites, WriterFails, WriterStops, brokerVars
      <3> QED BY <2>5, <3>1, <3>2, <3>3
    <2>6. CASE BrokerNext /\ ~BrokerAnswers /\ ~BrokerAddsStory
      <3>1. UNCHANGED db
        BY <2>4, <2>6 DEF BrokerNext, BrokerTakes, BrokerAwaits, BrokerGreets, BrokerPanics,
                          Loaded, LoadFails, StoryWritten, StoryWriteFails, ReplySent,
                          Written, WriteFails, BrokerReaps
      <3> QED BY <2>2, <3>1
    <2> QED BY <2>2, <2>3, <2>5, <2>6 DEF Next, vars, brokerVars
  <1> QED BY <1>1, InvHolds, PTL DEF Spec, IdsStayUnique
=============================================================================
