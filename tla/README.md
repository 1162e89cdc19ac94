# Verification of async_jira_cli

The repository is a small issue tracker: a TCP server that keeps epics and their
stories in memory and in text files, and a terminal client. This directory
holds TLA+ models of it, TLC configurations that check them on small instances,
and TLAPS proofs of what holds for every instance.

Paths of the source are relative to the repository; `server.rs` is
`src/bin/server.rs`, `models` is `src/models/mod.rs`, and so on.

## 1. The system

| part | source | state | operations |
| --- | --- | --- | --- |
| database | `models`: `DbState`, `Epic`, `Story`, `Status` | the map of epics, in each the map of its stories; `last_unique_id` | `add_epic`, `delete_epic`, `get_epic(_mut)`, `add_story_async`, `Epic::add_story`, `delete_story`, `update_status`, `update_story_status`, `get_story` |
| handlers | `server.rs`, `mod handlers` | none of their own: they borrow the database and the map of clients | one per event; each looks up, changes, sends its reply and then writes the change |
| broker | `server.rs`, `broker` | the database, the map `clients` from uuid to reply channel, both receivers | `select!` between the next event and the next finished writer |
| reader, one per client | `server.rs`, `connection_loop` | the socket, a clone of the events sender, the shutdown sender | greet, then forward requests until the socket ends |
| writer, one per client | `server.rs`, `connection_write_loop` and the task `handle_new_client` spawns | the reply receiver, the shutdown receiver | write replies until told to stop, then report itself to the broker |
| persistence | `models`: `load`, `write_async`, `Epic::load`, `Epic::write_async` | an index file and a file per epic | load all, rewrite all, rewrite an epic |
| wire protocol | `src/events/mod.rs`, `src/response/mod.rs`, `encode`/`decode`/`as_bytes` in `models` | none | 13-byte request tags, 18-byte response tags, payloads |
| client | `src/bin/client.rs`, `src/bin/interface/` | the stack of pages | ask from the page on top; replace, push or pop pages on a reply |

How they interact. `accept_loop` spawns a reader for every connection. A reader
sends `NewClient` and then the client's requests on one bounded channel to the
broker, and waits when that channel is full. The broker takes one event at a time
and finishes its handler before the next: for `NewClient` it enters the client in
its map and spawns its writer; for a request it changes the database, sends the
reply on the client's bounded channel (waiting if that is full), and writes the
change to disk. When a reader ends, it drops the client's shutdown sender, which
its writer sees; the writer then ends and sends the client's id and its own
receiver on the disconnect channel, and the broker removes the client.

What is hard about it:

* the broker has two inputs and takes either when both are ready, so a client's
  disconnect may overtake its last requests;
* the broker waits inside handlers: for room in a client's channel and for the
  disk; an error there ends the broker, and with it the service;
* a reader, a writer and the broker learn of a client's end at different times,
  each from another;
* a full channel parks its senders, who must be woken once each, in order;
* clients act on what they were shown, which other clients may have changed;
* ids are `u32`, shared by epics and stories, and never reset;
* files are truncated and rewritten in place, the reply having been sent before;
* the stream has no marks between messages: a length that is off by one makes
  garbage of every later message, and one that is too large makes its reader wait for bytes
  that never come;
* a reply takes a client to a page that depends on the page it asked from, and its
  handler asserts how many pages there are.

What makes each part correct:

* database: ids are unique across epics and stories, and while a server runs none is given twice
  (after a restart, those of items that are no longer there may be);
* handlers: every request is answered from the database as its own execution
  leaves it;
* tasks and channels: requests of a client are executed in order, once, and each
  gets one reply, in order; the map of clients and the writer tasks agree; the
  broker ends only when the disk fails, at its start or later (or on the panic of section 5);
  nobody waits for ever, and a client that has left leaves nothing behind;
* persistence: between writes the files hold the database; a restart finds nothing that
  was not there; after a crash in the write of one epic it finds all others complete, if it can load at
  all and but for those whose last write had failed; it is refused for nothing but a file or a line that was
  cut; and ids stay unique after it;
* wire protocol: what is decoded is what was encoded, whatever the ids and lengths;
  after a message, good or bad, the reader is at the first byte of the next; nothing
  comes of a message that was cut;
* client: the page stack has the depth each reply expects, its pages nest, a new page shows
  the database, and a user who waits is asked again.

## 2. The modules

**`Database`** (no state) has a database as a value, the operations of `DbState`
and `Epic` on it, and `Handle(db, r)`, the dispatch of the broker: for a request
its `Outcome`, the new database, the reply and what is written (`"none"`,
`"after"` the reply, or, for `add_story`, `"around"` it: `add_story_async` writes
before the reply and the handler once more after it). Names and descriptions are
left out: no step reads them. A `HashMap<u32, T>` is a function from all ids that
is `Absent` where there is no key. Ids wrap at `MaxId`, as the release build does
(the debug build panics on the overflow). A reply carries what the code encodes:
the list of epics, an epic with its stories, or a story.

**`Server`** has the tasks and channels, one action per step between two awaits:

| variable | in the code |
| --- | --- |
| `reader[c]` | where `connection_loop` is: `hello` before it has sent `NewClient`, `read` in `read_exact`, `parked` in `send().await` on a full channel, `ended` |
| `events`, `parked` | the queue of the events channel and the senders parked on it, in order |
| `broker` | where the broker is: in `DbState::load`, in `select!`, in the write of `add_story_async`, in the `send().await` of a reply, in the write that ends a handler, or dead |
| `db`, `clients` | `db_handle`, and the keys of `clients` |
| `chan[c]` | the queue of the reply channel |
| `writer[c]`, `held[c]` | the writer task, and the reply it is in `write_all` with |
| `disconnects` | the queue of the disconnect channel |
| `c2s`, `s2c` | the two directions of the socket |
| `peer`, `owed`, `adds` | the client program: connected or not, how many replies it waits for; how many additions were asked for in all |

| action | in the code |
| --- | --- |
| `Connect`, `Ask`, `Receive`, `Leave` | what a client program does; `Leave` also stands for a connection that is closed or reset, of which the socket tells the server |
| `ReaderGreets`, `ReaderForwards`, `ReaderEnds` | `connection_loop`; with the broker dead, its send fails and it ends |
| `WriterTakes`, `WriterWrites`, `WriterFails`, `WriterStops` | `connection_write_loop` and the report to the broker after it |
| `Loaded`, `LoadFails` | `DbState::load` at the broker's start returns; its error ends the broker, while `accept_loop` goes on accepting |
| `BrokerGreets` | `handle_new_client` up to its await |
| `BrokerAnswers`, `BrokerAddsStory` | any other handler up to its first await |
| `StoryWritten`, `StoryWriteFails` | the write in `add_story_async` returns |
| `ReplySent`, `Written`, `WriteFails` | the later awaits of a handler return; a send whose receiver is dropped (`ReceiverDropped`) returns an error, which ends the broker |
| `BrokerReaps` | the disconnect branch of the `select!` |
| `BrokerPanics` | the `expect` of a handler whose client has been removed |

The channels are those of `futures::channel::mpsc`, which is not in the
repository: a send always enqueues, and parks its sender when the queue is then
longer than the buffer; each message received wakes the sender parked first. So a
queue can hold, beyond the buffer, one message of every sender. Dropping a
receiver drops its queue and makes sends fail. A receiver that sits in another
channel's queue is not dropped: a writer sends its receiver along with its report,
so its reply channel stays open until the broker reaps it. Hence no reply is ever sent to a dropped
receiver: the branch is in `ReplySent`, and `FailsOnlyForDisk`, `ClientsMatchWriters` and the proofs show that it is never taken.

Two ends of the server and of a client have no action in `Server`. An error of the listener makes `accept_loop`
return, and with it `main` and the process: what that leaves is what a kill leaves, `Crash` in `Store` and
`ServerKilled` in `Link`. A client whose host or network vanishes without a word has not left: its
`read_exact` waits for as long as the operating system keeps the socket, like that of a client that asks
nothing, so that `NoTaskLeaks` says nothing of it until the system gives the connection up.

**`JiraService`** is the abstract specification, what a client may rely on: one
database, requests of all clients executed one at a time, each wholly; each
client's requests in its order and each answered once by the reply of its own
execution; the service does not stop while no client has left it.
`Server!ImplementsService` is the refinement: a request is *to do* while it is in
the socket or the events channel, takes effect when the broker takes its event,
and its reply is *done* from then on, wherever it is.

**`Store`** has the files, and the handlers as far as the files see them: the
change (taken from `Database!Handle`), the reply, and the write, step by step.

| action | in the code |
| --- | --- |
| `Change(r)`, `ReplySent` | a handler up to its first await, and its send of the reply |
| `TruncateIndex`, `FlushIndex` | `DbState::write_async`: the open, the last flush |
| `BufferLine(e)` | the line of an epic goes into the buffer, which is written first if it is full |
| `OpenFile` | `Epic::write_async` opens, and so truncates, the epic's file |
| `StoryWritten`, `EpicWritten` | the flush at the end of `Epic::write_async`, called by `add_story_async` or otherwise |
| `StoryWriteFails` | `add_story_async` returns the error; memory keeps the story |
| `Crash` | the process is killed: a file that is open is left empty, cut in a text, or with some of its stories; the index with some of the lines that were in the buffer, the last perhaps cut |
| `Restart`, `RestartRefused` | `DbState::load` at the start of the broker |

`mem`, `at`, `whole`, `todo`, `cur` and `open` are the server's (the database, where the handler
is, whether it writes the index, the epics still to write, the epic in its turn, with
`open` once its file is truncated);
`index` and `files` are the disk's; `prior`, `told` and `unwritten` are history, for
the properties. A file is `Absent`, `Torn` (what `Epic::load` rejects) or an epic; that
`load` takes an end of file inside the tag of a story for the end of the stories makes
`SomeStories` one of the outcomes of a cut. Any failed write other than the first
of `add_story_async` ends the broker, which for the files is a `Crash`. `Store` is apart
from `Server` because the broker is alone with the files: clients reach them only
through the handlers, which do not overlap.

**`Interface`** composes the client programs with `JiraService`, of which `Server` is an
implementation: the service is the environment, one step per request, and no channel
has to be modelled again. `at[c]` is where the program is, `pageStack[c]` its
`page_stack`, a page being what is on it (the list of epics, an epic with its stories, a
story); `asked` and `current` are history.

| action | in the code |
| --- | --- |
| `Connect` | `TcpStream::connect`, which the server takes as the first request |
| `Show` | `parse_response`: reads a response, and `ParseResponse` applies the method for its kind (`ParseAddEpic`, ...) to the stack; a failed `assert!` panics |
| `Choose(c, r)` | `parse_request` of the page on top gives `RequestParsed` and the bytes are written |
| `Previous`, `Quit` | `PreviousPage`, `Quit` |
| `ConnectionLost` | a read or write fails, `run` returns the error |
| `Killed` | the process is interrupted, or unwinds from a panic |
| `Serves`, `Loses`, `Stops` | the service's steps: a request takes effect, requests or replies are lost with their client or the service, the service dies |

The ids that a user types (to go to an epic or a story) need not be on the page; the
other options are about the item of the page. Refresh, input that is refused and the lines of a
dialog change nothing and are part of choosing.

**`Wire`** (no state) has the bytes: the tags of requests, responses, epics and stories,
written and read field by field, the texts and data that follow them, and the loops that
read a sequence of frames: the client's pages and `Epic::load`. A decoder returns the empty set
when the code returns an error, and the set of its result otherwise. Ids and lengths are cut into bytes and put
together as the shifts do. A text is the bytes of a `String`; of UTF-8, characters of
one and of two bytes are modelled, which is what it takes for lengths in bytes and in
characters to differ and for a text to be cut within a character. Its length is a `u32`: the code's
`as u32` would cut the length of a text of 4 GiB or more, which no line of input holds. The data of
a response is shorter than 2^56 bytes (`DataLength`), what the seven bytes that
`encode_data_len` writes can tell. `ById`, `sort_by_key`, chooses the sorted order: the provers see
nothing of the sort of the standard modules.

**`Link`** has the two streams between one client and the server, and a file: a server
starts from an epic's file that a crash may have cut anywhere, a client connects, writes
requests and reads responses, and either may be killed within a write.

| action | in the code |
| --- | --- |
| `Boot` | `Epic::load` of the file, and of the rest, which is whole |
| `Connect`, `Write(r)`, `Read`, `ReadFails` | the client: its request, and `parse_response` up to the page that is made of the data |
| `Hear`, `HearEnd` | `connection_loop`: a tag and its texts, or the end of the stream |
| `Reply` | a handler's response, of any kind and any item (which kind a request gets is `Database`'s matter) |
| `ClientKilled`, `ServerKilled` | the stream then holds a prefix of what was written |

The epics and stories in a response, and in a file, come in any order, as a `HashMap` has them.
The assumptions on `Link`'s constants: a request is one that a client of the repository can write, or a tag
and the texts it tells of that no event comes of (`RequestsAssumption`); an epic is a value of a
map by id, with finitely many stories, each of that epic and of an id of its own
(`EpicsAssumption`); ids are of 32 bits (`IdsAssumption`).

**`MCServer`**, **`MCStore`**, **`MCInterface`** and **`MCLink`** have the sets the configurations use. Definitions marked
*Faulty* are used by no specification: each is a plausible slip
in one operation, with which a property below fails, and shows that the property
notices.

**`Database_proofs`**, **`Server_proofs`**, **`Service_proofs`**, **`Interface_proofs`**,
**`Store_proofs`**, **`Wire_proofs`**, **`Frames_proofs`** and **`Link_proofs`** hold the theorems: of the
handlers; of the tasks and channels; of the server as its clients see it, with the refinement of
`JiraService`; of the client programs; of the files; of the tags and texts; of sequences of frames, files
and pages; of the streams.

## 3. What the runs check

Every property is stated, with a comment, in `Server`, `Store`, `Interface` or `Link`.

| run | question | bounds | properties |
| --- | --- | --- | --- |
| `safety` | the tasks and channels, and does the server implement the service, for all operations on items either client may delete | 2 clients, buffer 1, 1 request at a time, any number of requests, an epic with a story, 1 addition, ids 0 to 3 of which 3 was the last, so that the next wraps (1.1 million states) | `TypeOK`, `ClientsMatchWriters`, `FailsOnlyForDisk`, `UnknownClientHasLeft`, `OneReplyPerRequest`, `NeverHeldUp`, `BacklogBounded`, `ImplementsService` |
| `refinement` | the same for clients that do not wait, with a database that grows and shrinks; is every new id above all those given before | 2 clients, up to 2 requests outstanding, buffer 1, 2 additions, from an empty database | `OneReplyPerRequest`, `ImplementsService`, `IdsStayUnique` |
| `three` | more than one reader parked, more than one writer finished, writes that fail | 3 clients, buffer 1, 1 addition | `ClientsMatchWriters`, `BacklogBounded`, `OneReplyPerRequest`, `NeverHeldUp` |
| `liveness` | does everything that must happen happen, with a broker that is dead from the start or not | 2 clients, any number of reads, a load that may fail | `FinishedClientReaped`, `EveryRequestAnswered`, `NoTaskLeaks` |
| `store` | what the files hold, what a restart can find, and what it can be refused for | ids to 3, so at most three items; any number of changes, failed first writes, crashes and restarts | `TypeOK`, `SettledFilesAreWhole`, `IdsUnique`, `RefusedOnlyForCut`, `RestartFindsOnlyKnown`, `RestartKeepsOthers` |
| `interface` | does every reply meet the page stack its handler expects, and what do the pages show | 2 users, every option of every page, an epic with a story, 1 addition; any number of other requests, deaths of clients and of the service (217,000 states) | `TypeOK`, `NoAssertionFails`, `PagesNest`, `ShowsTheTruth`, `LandsOnWay`, `UserIsAsked` |
| `wire` | is what is read what was written, and do the streams stay in step | every kind of request, four that do not parse and every kind of response but `ClientAlreadyExists` (two equal uuids), any number of them; ids with four different bytes; texts of 0, 1, 2 and 258 bytes; files of up to 312 bytes cut after any byte (37,000 states) | `TypeOK`, `HeardIsAsked`, `InSync`, `ShownIsAnswered`, `LoadsWhatIsLeft`, `IsAnswered` |

Why the bounds are enough. Two clients interleave in every way two connections
can; a client meets another only through the broker, so a third adds only that two
can be parked or finished at the same time, which `three` has. A buffer of one is
the smallest the server works with (section 5); a channel is then full, and
senders park, with two events. Requests are few because handlers differ only
in the function of `Database` they apply; `safety` has all of them. `MaxAdds` bounds the additions
because they make the database grow; where a run has none, the number of requests
is unbounded.
In `store` three ids make three epics, two epics of which one has a story, or one
epic with two: a crash then meets an index with lines written, being written and to be
written, and a file with none, some or all of its stories. Ids are given again after a
restart that lost the largest, so that files left over from earlier runs are met too.
In `interface` one epic and one story are enough for either user to delete what the
other shows, at any depth: a stack is of one epic and one of its stories at most, and an id
that was deleted is to the server like one that never was. In `wire` one connection is enough
because streams share nothing; `Far`, an id whose bytes are 1, 2, 255 and 4, shows which byte
is in which place and fits TLC's integers; the text of 258 bytes makes lengths, of texts and of
the data of a response, take a second byte.

`CHECK_DEADLOCK FALSE` is in every configuration because the system may stop: all
clients may have left, the broker may be dead with no client left to notice, or (in `Store`) its
files may have been refused.

Fairness. For `liveness` (`Server!Fairness`): every reader and every writer is
weakly fair, since the executor runs a task that can run; each branch of a
`select!` is strongly fair, since `futures::select!` picks pseudo-randomly among
ready branches, so that one that is ready again and again is taken; disk and
socket writes return. A client program is not assumed to do anything, neither to
read its replies nor to leave. That a socket write returns although a client
does not read is an assumption on the kernel's buffers: with one reply outstanding
of a moderate size it holds, and a client that never reads while its replies fill the
buffers is outside the model.
For `interface` (`FairInterfaceSpec`): the service serves each client (which is what `liveness`
shows of the server, and why `UserIsAsked` excepts a service that has died), and a client
that has asked reads its reply (`run` does nothing else until then). For `wire`
(`FairSpec`): the reader and the broker run, and the client reads. Nobody is assumed to
choose, to leave or to be killed.

The client of this repository has one request outstanding (`Window = 1`); the two of
`refinement` stand for other clients of the protocol.

## 4. What is proved

For every value of the constants, from the assumptions named in the modules (sets
of requests and initial databases of the right type, a buffer size in `Nat`, ...):

* `HandleType`: the dispatch has a handler for every request, and what it returns
  is a database, a reply of the protocol and a kind of write.
* `HandleKeepsIdsUnique`: while `last < MaxId`, no request makes two items share an id, and one that adds
  an item gives it an id above `last` (`NewIdsAreFresh`), so not that of an item that was deleted. Every handler changes the items in one of three
  ways (none new, one new epic, one new story), and each keeps them unique.
* `TypeCorrect`: `Spec => []TypeOK`.
* `ClientsAlwaysMatchWriters`, `BrokerFailsOnlyForDisk`, `UnknownClientsHaveLeft`,
  `BacklogAlwaysBounded`: the four invariants, from the inductive invariant
  `Inv == TypeOK /\ Links /\ BacklogBounded /\ Known /\ Served`.
* `IdsAlwaysStayUnique`: `Spec => IdsStayUnique`, from `HandleKeepsIdsUnique` and
  the fact that only the broker's two request steps change the database.
* `AlwaysOneReplyPerRequest`, `BrokerNeverHeldUp`: `OneReplyPerRequest` and `NeverHeldUp`, from
  `Inv /\ Counted`.
* `ServerImplementsService`: `DiskFails = FALSE` proves `Spec => ImplementsService`, for any number of
  clients, buffer, window and requests. The assumption is needed: a failed write in
  `add_story_async` is answered otherwise than it was executed (`story_write`, section 5).
* Of `Interface`, for any number of users, ids and requests: `EveryReplyBringsItsPage` about one reply,
  and from it `TypeCorrect`, `NoClientPanics`, `PagesAlwaysNest`, `PagesShowTheTruth` and the action
  property `RepliesLandOnWay`.
* `StoreTypeCorrect`, `SettledFilesAreAlwaysWhole`, `IdsAlwaysUnique`, `RefusalsOnlyForCut`, and the action properties
  `RestartsFindOnlyKnown` and `RestartsKeepOthers`: of `Store`, for any number of ids and any
  requests, from `Absent` and `Torn` being no epics (`AbsentAssumption`, `FileAssumption`).

* `RequestsRoundTrip` and `ResponsesRoundTrip`: what is decoded is what was encoded, for every number of 32
  bits (TLC cannot hold the upper half of them), every status, all texts and all data; a
  reader reads exactly the bytes of the message, and of one that is cut anywhere it still waits.
* `LoadOfFile`: a whole file loads as the epic that was written to it, in any order of its stories; of
  a file cut after any byte, `Epic::load` makes the epic with some of its stories, or fails.
* `LinkIsTyped`, `LinkHears`, `LinkKeepsInSync`, `LinkShows` and the action property `LinkLoads`: all the
  safety properties of `Link`, for any requests, epics, stories and ids.

Why `Server`'s `Inv` has the parts it has. `ClientsMatchWriters` is not inductive. When the
broker takes a `NewClient` event, the client must not be in the map yet: `Links`
adds that there is at most one such event of a client, that its writer was not
started, and that the reader that sent it is past its greeting. When a writer is
reaped its client must still be in the map, and not twice in the queue: `Links` adds
that whoever is in `disconnects` has ended. `UnknownClientHasLeft` is about events,
but a reader may send one more at any time, so `Known` states the same of readers:
a reader past its greeting is of a client the broker knows, or whose greeting is still
queued, or that has left; and tasks end only after their client has (while
the broker lives). `BrokerFailsOnlyForDisk` needs that the client whose reply is being sent is in
the map (`Served`), so that by `Links` its receiver is not dropped. `BacklogBounded` is inductive with the types.

`OneReplyPerRequest` says nothing of a client that has gone, and then cannot tell what its requests
become. `Counted` adds that a client that has not connected has nothing in flight and that nobody
ever has more than `Window` requests and replies in flight, gone or not, so that a channel never has
more than `Window` replies: `NeverHeldUp`.

The refinement maps `conn`, `todo` and `done` to functions of the server's state (`Conn`, `Todo`,
`Done`). A step of a client is the service's step of the same name; what a reader or a writer
moves stays in the same sequence, so they stutter, but for those of a dead service or of a client that
has gone, whose losses are `Forget` and `Lose`; the broker serves when it takes an
event, and the later awaits of the handler stutter; its panic is `Stop`. `RequestsOf` is a recursive function, and
the lemmas about it (`RequestsOfAppend`, `RequestsOfTail`) are shown by the shortest queue for which they would
fail.

`Interface`'s `Inv == TypeOK /\ ClientsInv` says of each client that it is outside, or at a prompt with
nothing on its way and a stack that nests, or waits with one request on its way, which the page on top offers
(`Waits`), or with one reply (`AnsweredAt`). Of a reply it says what will come of it: that the
stack after it nests, that the page on top is about what was asked, and that it shows the database if
no other request was served since. This is what makes the assertions safe although any other
client may have deleted the item meanwhile: the reply is made for a request of that stack, and no step but
the client's own changes the stack before it comes back. `EveryReplyBringsItsPage` is the case analysis behind
it: each of the nine options on each page, with each outcome of its handler on any database.

`Store`'s `Inv == TypeOK /\ Control /\ FilesRight` says, for each place a handler can be
in, what the files hold: the database before the change, the epics whose turn has been,
or all but the epic being written. `IdsUnique` needs more, since `load` puts together
files that different runs wrote: `IdsInv` says that everything in the files the index
names, and everything in `mem` and in `prior`, is in one database with unique ids, which
is the larger of `mem` and `prior`; a cut file or index has less of it, and so has what is
loaded. `FailedInv` is about the epics whose last write failed: that write was an addition's, so their file
is torn or has some of the stories that are in memory now, and stays so through changes of other epics. `LeftInv` is for
what a restart finds: while the whole database is written the index names no epic before its file is
written (`LinesWritten`), a handler that writes it has changed the set of epics (`EpicsMoved`, for which
additions must not take an id in use: `IdsUnique`), and while the server is down every file in the index is
of an epic in `mem` or `prior`, with some of its stories, or torn for a write that failed or was cut (`Left`). That the largest id exists (`LargestExists`) is the least number principle,
taken from the well-foundedness of `<`.

The bytes are proved from below. A number is its low byte and 256 times the rest (`Low`, `Over`), so
`Parse4Bytes` inverts `U32Bytes` by four uses of one fact; `At(bytes, p, s)` says that `s` stands in `bytes` after the first
`p`, and splits over concatenation, so that each field of a tag is found in its place. The
loop that reads frames is a recursive function on positions: `LoopExists` shows that there is one (by the
last position for which there would be none), and `FramesOfPart` that it
reads, of frames laid one after the other and then cut, some of the frames from the first
on or nothing, and `FramesOfWhole` that it reads all of them if nothing is cut. Two lists of the same frames with different
ids, both sorted by id, are equal (`OneOrder`, by the first place where they would differ), and `ByIdIs` shows
that `ById` sorts: so a page does not depend on the order of the server's maps.

`Link`'s `LinkInv` says where a request is: in the stream, whole, as the event that was asked
(`Requested`); heard, with both streams empty (`Served`); or answered, with one whole response in the stream that
is understood as what was sent (`Answered`). With the client gone (`Gone`) the server may
find the whole request, a cut one, or nothing, and with the server killed (`Left`) the client a whole
response or a cut one, which it knows to be cut. `Loaded` says that the server has the other epics and
what is left of the saved one, so that what it sends are lists of frames with distinct ids.

Only model-checked: the liveness properties
(`FinishedClientReaped`, `EveryRequestAnswered`, `NoTaskLeaks`, `UserIsAsked`, `IsAnswered`), which are
beyond the proof system, as is everything about fairness and `ENABLED`. The properties of section 5 are
refuted by TLC.

## 5. What the code does not keep

Each of these is a run that TLC finds violated; `PROJECT.json` quotes the text.

* `panic`: a client sends a request and leaves; the broker reaps it before it takes
  the request, whose handler then panics on `expect("client should exist")`. The
  service is over for everybody: the task of the broker ends and the other tasks go on
(where the panic ends the whole process, nothing is left to model). By `UnknownClientHasLeft` this is the only way.
* `no_buffer`: with `-c 0` the broker waits for ever in the send to a client whose
  writer has ended. `NeverHeldUp` shows that a buffer of at least the number of
  outstanding replies excludes it.
* `client_limit`: `-c` does not limit the number of clients.
* `story_write`: a failed write in `add_story_async` is answered with "the epic does
  not exist", and the story stays in memory.
* `told`: the reply is sent before the change is written, and a server killed in
  between comes back without it. More than that may be lost: an addition or a deletion
  truncates the index, and a crash before its flush loses epics written long before.

No run is about these, which contradict no test or assertion:

* after `PreviousPage` the page shows what it showed before, however old
  (`ShowsTheTruth` is about pages that no later request and no `PreviousPage` made old);
  the next reply puts that right, and no assertion fails over it;
* a client whose standard input has ended asks for an option for ever, since `read_line`
  returns `Ok(0)`;
* when the broker has died, `accept_loop` still accepts, and a connected client that
  waits for a response waits until its connection is closed (hence `\/ ~up` in `UserIsAsked`);
* the comment on `Response::StoryStatusUpdateOk` says it encodes the epic; server and
  client both have the story there, and `ShownIsAnswered` shows that they agree.

## 6. Plan

Done: `Database`, `JiraService`, `Server`, `Store`, `Interface`, `Wire`, `Link` with their
runs; the proofs of section 4.

Every safety property that a passing run checks is a theorem, but that of `ServerImplementsService` excludes failed
writes. What is left to prove:

1. the refinement with writes that fail, of a service whose `add_story` may answer that the epic does not exist (which
   is what the code does, section 5), so that the assumption on the disk goes;
2. that `Store`'s outcomes of a cut file (`Torn`, or some of the stories) are those that `LoadOfFile` gives of
   `Wire`'s bytes, as a refinement of the one by the other.

Not modelled, and not planned: the layout of pages on the terminal (`print_page`,
`justify_text`), command line parsing and logging, which no state depends on; what only tests
call (`write_sync`, `DbState::add_story` and `delete_story`); and
`Response::try_create`, a `todo!()` that nothing calls. The branch
for a uuid that is already in the map and the broker's drain after its events channel
has closed are not in `Server`: the first needs two equal v4 uuids; the second never
happens while the process lives, because `accept_loop` keeps a sender until it returns, `Incoming` does not
end, and an error of the listener ends the process (section 2).
