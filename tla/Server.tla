------------------------------- MODULE Server -------------------------------
(***************************************************************************)
(* The server (src/bin/server.rs): for every connection a task that reads  *)
(* the requests of a client (connection_loop) and a task that writes its   *)
(* replies (connection_write_loop), and one broker task that owns the      *)
(* database and executes the requests of all clients.  They share nothing  *)
(* but channels:                                                           *)
(*                                                                         *)
(*   c2s[c] --reader c--> events --broker--> chan[c] --writer c--> s2c[c]  *)
(*                           ^                            |                *)
(*                    (bounded, parked)              disconnects           *)
(*                                                        |                *)
(*                        broker <------------------------+                *)
(*                                                                         *)
(* The readers are started by accept_loop.  An error of its listener ends  *)
(* accept_loop, hence main and the process with all its tasks; no action   *)
(* here stands for that: what such an end leaves is Crash in Store (files) *)
(* and ServerKilled in Link (sockets).                                     *)
(*                                                                         *)
(* A client is one connection: its uuid is fresh and it never comes back.  *)
(* The channels are those of futures::channel::mpsc.  A send to a bounded  *)
(* channel always enqueues its message; when the queue is then longer than *)
(* the buffer, the sender is parked and its send().await does not return   *)
(* until as many messages have been received as were sent by the senders   *)
(* parked before it, and its own (senders are woken in the order in which  *)
(* they were parked, one per message received).                            *)
(***************************************************************************)
EXTENDS Database, SequencesExt

CONSTANTS
  Client,       \* the connections the server ever accepts
  NoClient,     \* the broker is not handling an event
  Requests,     \* what clients may ask
  InitialDbs,   \* what DbState::load may return
  ChanBuf,      \* channel_buf_size, the option -c
  Window,       \* how many replies a client may be waiting for
  MaxAdds,      \* bound: how many Add requests are ever sent
  DiskFails     \* whether a read or a write of the disk may fail

ASSUME NoClientAssumption == NoClient \notin Client
ASSUME RequestsAssumption == Requests \subseteq Request
ASSUME InitialDbsAssumption == InitialDbs \subseteq Db /\ InitialDbs # {}
ASSUME ChanBufAssumption == ChanBuf \in Nat
ASSUME WindowAssumption == Window \in Nat \ {0}
ASSUME MaxAddsAssumption == MaxAdds \in Nat
ASSUME DiskFailsAssumption == DiskFails \in BOOLEAN

VARIABLES
  peer,         \* peer[c]: the client program: "out", "up" or "gone"
  owed,         \* owed[c]: the replies the client program waits for
  adds,         \* the Add requests sent so far
  c2s,          \* c2s[c]: requests in the socket
  s2c,          \* s2c[c]: replies in the socket
  reader,       \* reader[c]: connection_loop
  events,       \* the channel to the broker
  parked,       \* the readers parked on it, in the order of parking
  broker,       \* where the broker is
  db,           \* db_handle
  clients,      \* the keys of the broker's map clients
  chan,         \* chan[c]: the channel from the broker to the writer of c
  writer,       \* writer[c]: the task handle_new_client spawns
  held,         \* held[c]: the reply the writer is in write_all with
  disconnects   \* the channel from the writers to the broker

peerVars   == <<peer, owed, adds>>
readerVars == <<reader, events, parked>>
brokerVars == <<broker, db, clients>>
writerVars == <<writer, held>>
vars == <<peerVars, c2s, s2c, readerVars, brokerVars, chan, writerVars, disconnects>>

NoReply == [kind |-> "none"]

Idle == [at |-> "select", peer |-> NoClient, reply |-> NoReply, write |-> "none"]

Loading == [Idle EXCEPT !.at = "load"]

Dead == {"panicked", "failed"}

Event == [peer : Client, req : Request \cup {NewClient}]

(***************************************************************************)
(* Where the broker is: broker.at is                                       *)
(*   "load"      in DbState::load, before the loop,                        *)
(*   "select"    in the select! of the broker loop,                        *)
(*   "story"     in the write_async of add_story_async,                    *)
(*   "flush"     in the send().await of a reply to broker.peer,            *)
(*   "write"     in the write_async that ends a handler,                   *)
(*   "panicked"  unwound by an expect,                                     *)
(*   "failed"    returned with an Err.                                     *)
(***************************************************************************)
BrokerState ==
       [at : {"load", "select"} \cup Dead, peer : {NoClient}, reply : {NoReply}, write : {"none"}]
  \cup [at : {"story"}, peer : Client, reply : {r \in Reply : r.kind = "AddedStoryOk"},
        write : {"after"}]
  \cup [at : {"flush", "write"}, peer : Client, reply : {NoReply},
        write : {"none", "after"}]

\* The type invariant.
TypeOK ==
  /\ peer \in [Client -> {"out", "up", "gone"}]
  /\ owed \in [Client -> Int]
  /\ adds \in 0 .. MaxAdds
  /\ c2s \in [Client -> Seq(Request)]
  /\ s2c \in [Client -> Seq(Reply)]
  /\ reader \in [Client -> {"none", "hello", "read", "parked", "ended"}]
  /\ events \in Seq(Event)
  /\ parked \in Seq(Client)
  /\ broker \in BrokerState
  /\ db \in Db
  /\ clients \subseteq Client
  /\ chan \in [Client -> Seq(Reply)]
  /\ writer \in [Client -> {"none", "run", "done"}]
  /\ held \in [Client -> Seq(Reply)]
  /\ disconnects \in Seq(Client)

Init ==
  /\ peer = [c \in Client |-> "out"]
  /\ owed = [c \in Client |-> 0]
  /\ adds = 0
  /\ c2s = [c \in Client |-> <<>>]
  /\ s2c = [c \in Client |-> <<>>]
  /\ reader = [c \in Client |-> "none"]
  /\ events = <<>>
  /\ parked = <<>>
  /\ broker = Loading
  /\ db \in InitialDbs      \* what load will return, read by no step before
  /\ clients = {}
  /\ chan = [c \in Client |-> <<>>]
  /\ writer = [c \in Client |-> "none"]
  /\ held = [c \in Client |-> <<>>]
  /\ disconnects = <<>>

Alive == broker.at \notin Dead

-----------------------------------------------------------------------------
(***************************************************************************)
(* The client programs, as far as the server can tell.  A client reads the *)
(* welcome before its first request, and waits for the reply to a request  *)
(* before it makes another (Window = 1; a larger Window is a program other *)
(* than src/bin/client.rs).  At any moment it may leave: end, or close or  *)
(* reset its connection, which the server's end of the socket is told.  A  *)
(* client whose host vanishes and tells nobody has not left: its reader    *)
(* waits in read_exact for as long as the operating system keeps the       *)
(* socket, as for a client that is up and asks nothing.                    *)
(***************************************************************************)
Connect(c) ==
  /\ peer[c] = "out"
  /\ peer' = [peer EXCEPT ![c] = "up"]
  /\ owed' = [owed EXCEPT ![c] = 1]
  /\ reader' = [reader EXCEPT ![c] = "hello"]
  /\ UNCHANGED <<adds, c2s, s2c, events, parked, brokerVars, chan, writerVars,
                 disconnects>>

Adds(r) == IF r.op \in {"AddEpic", "AddStory"} THEN 1 ELSE 0

Ask(c, r) ==
  /\ peer[c] = "up"
  /\ owed[c] < Window
  /\ adds + Adds(r) <= MaxAdds
  /\ adds' = adds + Adds(r)
  /\ owed' = [owed EXCEPT ![c] = @ + 1]
  /\ c2s' = [c2s EXCEPT ![c] = Append(@, r)]
  /\ UNCHANGED <<peer, s2c, readerVars, brokerVars, chan, writerVars, disconnects>>

Receive(c) ==
  /\ s2c[c] # <<>>
  /\ s2c' = [s2c EXCEPT ![c] = Tail(@)]
  /\ owed' = [owed EXCEPT ![c] = @ - 1]
  /\ UNCHANGED <<peer, adds, c2s, readerVars, brokerVars, chan, writerVars,
                 disconnects>>

Leave(c) ==
  /\ peer[c] = "up"
  /\ peer' = [peer EXCEPT ![c] = "gone"]
  /\ owed' = [owed EXCEPT ![c] = 0]
  /\ s2c' = [s2c EXCEPT ![c] = <<>>]
  /\ UNCHANGED <<adds, c2s, readerVars, brokerVars, chan, writerVars, disconnects>>

-----------------------------------------------------------------------------
(***************************************************************************)
(* connection_loop.  Sending an event enqueues it, and parks the reader if *)
(* the queue is then longer than the buffer; when the broker is dead the   *)
(* send returns an error and the reader ends.                              *)
(***************************************************************************)
\* Faulty: an event that finds the channel full is dropped.
SendEventUnlessFull(c, r) ==
  /\ reader' = [reader EXCEPT ![c] = "read"]
  /\ events' = IF Len(events) + 1 > ChanBuf THEN events
               ELSE Append(events, [peer |-> c, req |-> r])
  /\ UNCHANGED parked

\* Faulty: the reader does not await its send.
SendEventNoWait(c, r) ==
  /\ reader' = [reader EXCEPT ![c] = "read"]
  /\ events' = Append(events, [peer |-> c, req |-> r])
  /\ UNCHANGED parked

\* broker_sender.send(event).await
SendEvent(c, r) ==
  IF Alive
  THEN /\ events' = Append(events, [peer |-> c, req |-> r])
       /\ IF Len(events) + 1 > ChanBuf
          THEN /\ reader' = [reader EXCEPT ![c] = "parked"]
               /\ parked' = Append(parked, c)
          ELSE /\ reader' = [reader EXCEPT ![c] = "read"]
               /\ UNCHANGED parked
  ELSE /\ reader' = [reader EXCEPT ![c] = "ended"]
       /\ UNCHANGED <<events, parked>>

ReaderGreets(c) ==
  /\ reader[c] = "hello"
  /\ SendEvent(c, NewClient)
  /\ UNCHANGED <<peerVars, c2s, s2c, brokerVars, chan, writerVars, disconnects>>

\* Faulty: the reader takes the newest request of the socket.
ReaderForwardsNewest(c) ==
  /\ reader[c] = "read"
  /\ c2s[c] # <<>>
  /\ SendEvent(c, Last(c2s[c]))
  /\ c2s' = [c2s EXCEPT ![c] = Front(@)]
  /\ UNCHANGED <<peerVars, s2c, brokerVars, chan, writerVars, disconnects>>

\* A request is read and decoded; one that cannot be becomes Unparseable.
ReaderForwards(c) ==
  /\ reader[c] = "read"
  /\ c2s[c] # <<>>
  /\ SendEvent(c, Head(c2s[c]))
  /\ c2s' = [c2s EXCEPT ![c] = Tail(@)]
  /\ UNCHANGED <<peerVars, s2c, brokerVars, chan, writerVars, disconnects>>

\* End of file or a reset, the socket's news that the client has left; a reset
\* discards what was not yet read.
ReaderEnds(c) ==
  /\ reader[c] = "read"
  /\ peer[c] = "gone"
  /\ reader' = [reader EXCEPT ![c] = "ended"]
  /\ c2s' = [c2s EXCEPT ![c] = <<>>]
  /\ UNCHANGED <<peerVars, s2c, events, parked, brokerVars, chan, writerVars,
                 disconnects>>

-----------------------------------------------------------------------------
(***************************************************************************)
(* The task handle_new_client spawns: connection_write_loop, and when that *)
(* returns, the send of the client's id and its receiver to the broker.    *)
(* The loop ends when the reader has ended (it dropped the shutdown        *)
(* sender), whatever chan[c] holds, or when the broker's sender is dropped *)
(* and chan[c] is drained, or when a write to the socket fails.            *)
(***************************************************************************)
WriterTakes(c) ==
  /\ writer[c] = "run"
  /\ held[c] = <<>>
  /\ chan[c] # <<>>
  /\ held' = [held EXCEPT ![c] = <<Head(chan[c])>>]
  /\ chan' = [chan EXCEPT ![c] = Tail(@)]
  /\ UNCHANGED <<peerVars, c2s, s2c, readerVars, brokerVars, writer, disconnects>>

\* Faulty: a reply is written twice.
WriterWritesTwice(c) ==
  /\ held[c] # <<>>
  /\ s2c' = IF peer[c] = "up" THEN [s2c EXCEPT ![c] = @ \o held[c] \o held[c]] ELSE s2c
  /\ held' = [held EXCEPT ![c] = <<>>]
  /\ UNCHANGED <<peerVars, c2s, readerVars, brokerVars, chan, writer, disconnects>>

\* write_all succeeds; bytes for a client that is gone are lost.
WriterWrites(c) ==
  /\ held[c] # <<>>
  /\ s2c' = IF peer[c] = "up" THEN [s2c EXCEPT ![c] = @ \o held[c]] ELSE s2c
  /\ held' = [held EXCEPT ![c] = <<>>]
  /\ UNCHANGED <<peerVars, c2s, readerVars, brokerVars, chan, writer, disconnects>>

\* Faulty: the writer ends without telling the broker.
DisconnectSilently(c) ==
  /\ writer' = [writer EXCEPT ![c] = "done"]
  /\ UNCHANGED <<disconnects, chan>>

\* disconnect_sender.send((peer_id, client_receiver)).await
Disconnect(c) ==
  /\ writer' = [writer EXCEPT ![c] = "done"]
  /\ disconnects' = IF Alive THEN Append(disconnects, c) ELSE disconnects
  /\ chan' = IF Alive THEN chan ELSE [chan EXCEPT ![c] = <<>>]

\* Faulty: a writer reports a failed write and goes on.
WriterFailsAndGoesOn(c) ==
  /\ held[c] # <<>>
  /\ peer[c] = "gone"
  /\ held' = [held EXCEPT ![c] = <<>>]
  /\ disconnects' = IF Alive THEN Append(disconnects, c) ELSE disconnects
  /\ UNCHANGED <<peerVars, c2s, s2c, readerVars, brokerVars, chan, writer>>

\* write_all fails: the connection is gone.
WriterFails(c) ==
  /\ held[c] # <<>>
  /\ peer[c] = "gone"
  /\ held' = [held EXCEPT ![c] = <<>>]
  /\ Disconnect(c)
  /\ UNCHANGED <<peerVars, c2s, s2c, readerVars, brokerVars>>

\* Faulty: a writer ends when it has nothing to write.
WriterStopsWhenEmpty(c) ==
  /\ writer[c] = "run"
  /\ held[c] = <<>>
  /\ reader[c] = "ended" \/ chan[c] = <<>>
  /\ Disconnect(c)
  /\ UNCHANGED <<peerVars, c2s, s2c, readerVars, brokerVars, held>>

\* Faulty: the writer does not see that the reader has ended.
WriterStopsIgnoringShutdown(c) ==
  /\ writer[c] = "run"
  /\ held[c] = <<>>
  /\ c \notin clients /\ chan[c] = <<>>
  /\ Disconnect(c)
  /\ UNCHANGED <<peerVars, c2s, s2c, readerVars, brokerVars, held>>

WriterStops(c) ==
  /\ writer[c] = "run"
  /\ held[c] = <<>>
  /\ \/ reader[c] = "ended"
     \/ c \notin clients /\ chan[c] = <<>>
  /\ Disconnect(c)
  /\ UNCHANGED <<peerVars, c2s, s2c, readerVars, brokerVars, held>>

-----------------------------------------------------------------------------
(***************************************************************************)
(* The broker loop.  Its select! takes an event or a disconnect when both  *)
(* are ready, with no preference.                                          *)
(***************************************************************************)
\* Faulty: no parked reader is woken.
PopEventWakingNone ==
  /\ events' = Tail(events)
  /\ UNCHANGED <<parked, reader>>

\* Faulty: all parked readers are woken at once.
PopEventWakingAll ==
  /\ events' = Tail(events)
  /\ parked' = <<>>
  /\ reader' = [c \in Client |-> IF reader[c] = "parked" THEN "read" ELSE reader[c]]

\* The next event is received, which wakes the reader parked first.
PopEvent ==
  /\ events' = Tail(events)
  /\ IF parked = <<>>
     THEN UNCHANGED <<parked, reader>>
     ELSE /\ parked' = Tail(parked)
          /\ reader' = [reader EXCEPT ![Head(parked)] = "read"]

\* The broker task is over: what it owned is dropped.
BrokerDies(how) ==
  /\ broker' = [Idle EXCEPT !.at = how]
  /\ db' = EmptyDb
  /\ clients' = {}
  /\ events' = <<>>
  /\ parked' = <<>>
  /\ reader' = [c \in Client |-> IF reader[c] = "parked" THEN "read" ELSE reader[c]]
  /\ disconnects' = <<>>
  /\ chan' = [c \in Client |-> IF writer[c] = "done" THEN <<>> ELSE chan[c]]
  /\ UNCHANGED <<peerVars, c2s, s2c, writerVars>>

\* Faulty: a reply is sent twice.
SendReplyTwice(c, reply, write) ==
  /\ chan' = [chan EXCEPT ![c] = Append(Append(@, reply), reply)]
  /\ broker' = [at |-> "flush", peer |-> c, reply |-> NoReply, write |-> write]

\* The broker enqueues a reply to c and awaits the send.
SendReply(c, reply, write) ==
  /\ chan' = [chan EXCEPT ![c] = Append(@, reply)]
  /\ broker' = [at |-> "flush", peer |-> c, reply |-> NoReply, write |-> write]

\* DbState::load returns db.
Loaded ==
  /\ broker.at = "load"
  /\ broker' = Idle
  /\ UNCHANGED <<peerVars, c2s, s2c, readerVars, db, clients, chan, writerVars,
                 disconnects>>

\* load returns an error, and the broker with it; connections go on being
\* accepted.
LoadFails ==
  /\ DiskFails
  /\ broker.at = "load"
  /\ BrokerDies("failed")

\* The broker takes the next event, a request the predicate P holds of.
TakesEvent(P(_)) ==
  /\ broker.at = "select"
  /\ events # <<>>
  /\ P(Head(events))

BrokerGreets ==
  /\ TakesEvent(LAMBDA e : e.req = NewClient)
  /\ PopEvent
  /\ LET c == Head(events).peer
     IN  /\ clients' = clients \cup {c}
         /\ writer' = [writer EXCEPT ![c] = "run"]
         /\ SendReply(c, NewClientHandler(db).reply, "none")
  /\ UNCHANGED <<peerVars, c2s, s2c, db, held, disconnects>>

\* Faulty: the handler changes a copy of the database.
BrokerAnswersFromCopy ==
  /\ TakesEvent(LAMBDA e : e.req # NewClient /\ e.peer \in clients)
  /\ LET c == Head(events).peer
         out == Handle(db, Head(events).req)
     IN  /\ out.write # "around"
         /\ SendReply(c, out.reply, out.write)
  /\ PopEvent
  /\ UNCHANGED <<peerVars, c2s, s2c, db, clients, writerVars, disconnects>>

\* Every handler but add_story's, when it finds the story to add.
BrokerAnswers ==
  /\ TakesEvent(LAMBDA e : e.req # NewClient /\ e.peer \in clients)
  /\ LET c == Head(events).peer
         out == Handle(db, Head(events).req)
     IN  /\ out.write # "around"
         /\ db' = out.db
         /\ SendReply(c, out.reply, out.write)
  /\ PopEvent
  /\ UNCHANGED <<peerVars, c2s, s2c, clients, writerVars, disconnects>>

\* add_story_async has changed the database and starts to write the epic.
BrokerAddsStory ==
  /\ TakesEvent(LAMBDA e : e.req # NewClient /\ e.peer \in clients)
  /\ LET c == Head(events).peer
         out == Handle(db, Head(events).req)
     IN  /\ out.write = "around"
         /\ db' = out.db
         /\ broker' = [at |-> "story", peer |-> c, reply |-> out.reply,
                       write |-> "after"]
  /\ PopEvent
  /\ UNCHANGED <<peerVars, c2s, s2c, clients, chan, writerVars, disconnects>>

\* clients.get_mut(&peer_id).expect("client should exist")
BrokerPanics ==
  /\ TakesEvent(LAMBDA e : e.req # NewClient /\ e.peer \notin clients)
  /\ BrokerDies("panicked")

StoryWritten ==
  /\ broker.at = "story"
  /\ SendReply(broker.peer, broker.reply, broker.write)
  /\ UNCHANGED <<peerVars, c2s, s2c, readerVars, db, clients, writerVars, disconnects>>

\* Faulty: an error of add_story_async is not answered.
StoryWriteFailsSilently ==
  /\ DiskFails
  /\ broker.at = "story"
  /\ broker' = Idle
  /\ UNCHANGED <<peerVars, c2s, s2c, readerVars, db, clients, chan, writerVars,
                 disconnects>>

\* Any error of add_story_async is answered as if there were no such epic.
StoryWriteFails ==
  /\ DiskFails
  /\ broker.at = "story"
  /\ SendReply(broker.peer, EpicDoesNotExist(db, broker.reply.epic), "none")
  /\ UNCHANGED <<peerVars, c2s, s2c, readerVars, db, clients, writerVars, disconnects>>

\* The receiver of c's channel is gone: the writer has ended and the broker has
\* dropped what it sent.
ReceiverDropped(c) == writer[c] = "done" /\ c \notin Range(disconnects)

\* The send of the reply is done once the channel has room; without a receiver
\* it returns an error, which ends the broker.
ReplySent ==
  /\ broker.at = "flush"
  /\ IF ReceiverDropped(broker.peer)
     THEN BrokerDies("failed")
     ELSE /\ Len(chan[broker.peer]) <= ChanBuf
          /\ broker' = IF broker.write = "none" THEN Idle
                       ELSE [broker EXCEPT !.at = "write"]
          /\ UNCHANGED <<peerVars, c2s, s2c, readerVars, db, clients, chan,
                         writerVars, disconnects>>

Written ==
  /\ broker.at = "write"
  /\ broker' = Idle
  /\ UNCHANGED <<peerVars, c2s, s2c, readerVars, db, clients, chan, writerVars,
                 disconnects>>

WriteFails ==
  /\ DiskFails
  /\ broker.at = "write"
  /\ BrokerDies("failed")

\* A finished writer's client is removed, and with it the receiver of its
\* channel; a client that is not in the map ends the broker with an error.
BrokerReaps ==
  /\ broker.at = "select"
  /\ disconnects # <<>>
  /\ LET c == Head(disconnects)
     IN  IF c \in clients
         THEN /\ clients' = clients \ {c}
              /\ chan' = [chan EXCEPT ![c] = <<>>]
              /\ disconnects' = Tail(disconnects)
              /\ UNCHANGED <<peerVars, c2s, s2c, readerVars, broker, db, writerVars>>
         ELSE BrokerDies("failed")

BrokerTakes == BrokerGreets \/ BrokerAnswers \/ BrokerAddsStory \/ BrokerPanics

BrokerAwaits ==
  \/ Loaded \/ LoadFails
  \/ StoryWritten \/ StoryWriteFails
  \/ ReplySent
  \/ Written \/ WriteFails

-----------------------------------------------------------------------------
ClientNext(c) ==
  \/ Connect(c)
  \/ \E r \in Requests : Ask(c, r)
  \/ Receive(c)
  \/ Leave(c)

ReaderNext(c) == ReaderGreets(c) \/ ReaderForwards(c) \/ ReaderEnds(c)

WriterNext(c) == WriterTakes(c) \/ WriterWrites(c) \/ WriterFails(c) \/ WriterStops(c)

BrokerNext == BrokerTakes \/ BrokerAwaits \/ BrokerReaps

Next ==
  \/ \E c \in Client : ClientNext(c) \/ ReaderNext(c) \/ WriterNext(c)
  \/ BrokerNext

Spec == Init /\ [][Next]_vars

(***************************************************************************)
(* The executor runs every task that can run, so each task is weakly fair, *)
(* and a write to disk or to a socket returns.  select! picks pseudo-      *)
(* randomly among its ready branches, so a branch that is ready again and  *)
(* again is taken: the branches of the two select! are strongly fair.      *)
(* Nothing is assumed of the client programs.                              *)
(***************************************************************************)
Fairness ==
  /\ \A c \in Client : /\ WF_vars(ReaderNext(c))
                       /\ WF_vars(WriterNext(c))
                       /\ SF_vars(WriterStops(c))
  /\ WF_vars(BrokerAwaits)
  /\ SF_vars(BrokerTakes)
  /\ SF_vars(BrokerReaps)

FairSpec == Spec /\ Fairness

-----------------------------------------------------------------------------
(***************************************************************************)
(* Safety.                                                                 *)
(***************************************************************************)

\* While the broker runs, its map holds exactly the clients whose writer is
\* running or waits to be reaped, and each of the latter waits once.  So the
\* clients.remove of the broker loop always finds its client, and the receiver
\* of every sender in the map is alive.
ClientsMatchWriters ==
  Alive =>
    /\ IsInjective(disconnects)
    /\ \A c \in Client :
         c \in clients <=> \/ writer[c] = "run"
                          \/ c \in Range(disconnects)

\* The broker returns with an error only for the disk: no clients.remove and no
\* send of a reply ever fails it.
FailsOnlyForDisk == broker.at = "failed" => DiskFails

\* An event that would panic the broker, of a client it does not know and
\* whose NewClient event is not ahead in the queue, is of a client whose
\* connection has ended: a connected client never stops the server.
UnknownClientHasLeft ==
  \A i \in DOMAIN events :
    \/ events[i].peer \in clients
    \/ peer[events[i].peer] = "gone"
    \/ \E j \in 1 .. i : events[j] = [peer |-> events[i].peer, req |-> NewClient]

\* What client c asks by the events of a queue, oldest first.
RequestsOf(c, queue) ==
  LET upTo[i \in 0 .. Len(queue)] ==
        IF i = 0 THEN <<>>
        ELSE IF queue[i].peer = c THEN Append(upTo[i - 1], queue[i].req)
        ELSE upTo[i - 1]
  IN  upTo[Len(queue)]

\* The requests of c on their way to the broker, oldest first, connecting being
\* the first.
Todo(c) ==
  RequestsOf(c, events)
  \o (IF reader[c] = "hello" THEN <<NewClient>> ELSE <<>>)
  \o c2s[c]

\* The replies on their way to c, oldest first; the last may still be in the
\* broker's hands.
Done(c) ==
  s2c[c] \o held[c] \o chan[c]
  \o (IF broker.at = "story" /\ broker.peer = c THEN <<broker.reply>> ELSE <<>>)

InFlight(c) == Len(Todo(c)) + Len(Done(c))

\* No reply is lost, duplicated or made up: as long as the connection and the
\* broker live, what a client waits for is exactly what is on its way to it,
\* as a request, as an event, in the broker's hands or as a reply.
OneReplyPerRequest ==
  Alive => \A c \in Client : peer[c] = "up" => owed[c] = InFlight(c)

\* If the channels have room for all the replies a client may wait for, the
\* broker never waits in the send of a reply: a client that does not read
\* cannot hold up the others.
NeverHeldUp ==
  Window <= ChanBuf /\ broker.at = "flush" => Len(chan[broker.peer]) <= ChanBuf

\* The buffer limits the broker's backlog: beyond it there is at most one event
\* per reader, each of which is parked, reads nothing more, and is woken once.
BacklogBounded ==
  /\ Len(events) <= ChanBuf + Len(parked)
  /\ IsInjective(parked)
  /\ \A c \in Client : reader[c] = "parked" <=> c \in Range(parked)

\* As long as the ids last, an id given to an epic or a story is in no other use,
\* and this server, since it loaded its database, has not given it before: not
\* even to an item that has been deleted.
KeepsIdsUnique ==
  UniqueIds(db) /\ db.last < MaxId /\ Alive' => UniqueIds(db') /\ NewIdsAreFresh(db, db')

IdsStayUnique == [][KeepsIdsUnique]_vars

\* "client should exist" (the expect of every handler).
ClientShouldExist == broker.at # "panicked"

\* "limits the number of clients that can connect at once" (README, option -c).
ClientLimit == Cardinality(clients) <= ChanBuf

\* "The method can fail if there is no Epic contained in self with epic_id"
\* (add_story_async): the reply that an epic does not exist comes with a list
\* of epics that does not hold it.
MissingEpicIsMissing ==
  \A c \in Client : \A i \in DOMAIN chan[c] :
    LET r == chan[c][i]
    IN  r.kind = "EpicDoesNotExist" => r.home[r.epic] = Absent

-----------------------------------------------------------------------------
(***************************************************************************)
(* Liveness, of FairSpec.                                                  *)
(***************************************************************************)

\* "... so that when the client process is finished, the broker may be
\* alerted" (the comment on NewClient in the broker loop).
FinishedClientReaped == \A c \in Client : writer[c] = "done" ~> c \notin clients

\* A request is answered, unless its client leaves or the broker dies.
EveryRequestAnswered ==
  \A c \in Client :
    owed[c] > 0 ~> s2c[c] # <<>> \/ peer[c] = "gone" \/ ~Alive

\* When a client has gone both its tasks end and the broker forgets it,
\* whatever state the three were in, and even if the broker has died.
NoTaskLeaks ==
  \A c \in Client :
    peer[c] = "gone" ~> reader[c] = "ended" /\ writer[c] # "run" /\ c \notin clients

-----------------------------------------------------------------------------
(***************************************************************************)
(* The server implements JiraService: a request is to do while it is in    *)
(* the socket or in the broker's channel, and takes effect in the step in  *)
(* which the broker takes its event; its reply is done from then on.       *)
(***************************************************************************)
Conn(c) == CASE peer[c] = "out" -> "out" [] peer[c] = "up" -> "in" [] OTHER -> "left"

Service == INSTANCE JiraService WITH
  up   <- Alive,
  conn <- [c \in Client |-> Conn(c)],
  todo <- [c \in Client |-> IF Alive THEN Todo(c) ELSE <<>>],
  done <- [c \in Client |-> IF peer[c] = "up" THEN Done(c) ELSE <<>>]

\* Clients cannot tell the server from JiraService.
ImplementsService == Service!Spec
=============================================================================
