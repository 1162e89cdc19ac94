-------------------------------- MODULE Store --------------------------------
(***************************************************************************)
(* What the server keeps on disk, and what a restart finds there           *)
(* (src/models/mod.rs: DbState::write_async, Epic::write_async,            *)
(* DbState::load, Epic::load; src/bin/server.rs: where the handlers write).*)
(*                                                                         *)
(* An index file has a line for each epic, and each epic has a file with   *)
(* its header and its stories.  Both are truncated and written in place    *)
(* through a buffer.  An addition or a deletion of an epic writes the      *)
(* index and, between its lines, every epic's file; any other change       *)
(* writes the file of its epic.  The server stops only by being killed,    *)
(* between any two steps here.  What was written before stays (a machine   *)
(* that loses its page cache is not modelled: nothing is ever synced).     *)
(***************************************************************************)
EXTENDS Database, FiniteSetsExt

CONSTANTS
  Requests,     \* the requests that clients make
  Torn,         \* a file that Epic::load rejects: empty, or cut in a text
  DiskFails     \* whether the first write of add_story_async may fail

ASSUME RequestsAssumption == Requests \subseteq Request

ASSUME FileAssumption == Torn \notin Epic \cup {Absent}

ASSUME DiskFailsAssumption == DiskFails \in BOOLEAN

VARIABLES
  mem,          \* db_handle; while the server is down, what it was
  prior,        \* mem before its last change
  told,         \* whether the reply to the last change has been sent
  unwritten,    \* the epics whose last write has failed
  server,       \* "up", "down", or "refused" when load has failed
  at,           \* where the handler is, see Steps
  whole,        \* whether it writes the index, or only an epic
  todo,         \* the epics that have yet to get their line and be written
  cur,          \* the epic that is to be written or is being written, or Absent
  open,         \* whether the file of cur is open, and so truncated
  index,        \* the lines of the index, and whether one is cut
  files         \* the epics' files

vars == <<mem, prior, told, unwritten, server, at, whole, todo, cur, open, index, files>>

\* "first" is the write in add_story_async, "reply" the send of the reply,
\* "truncate" the opening of the index, "write" the files and the last flush.
Steps == {"idle", "first", "reply", "truncate", "write"}

Index == [lines : SUBSET Id, torn : BOOLEAN]

NoLines == [lines |-> {}, torn |-> FALSE]

Epics(db) == {e \in Id : HasEpic(db, e)}

TypeOK ==
  /\ mem \in Db /\ prior \in Db
  /\ told \in BOOLEAN /\ whole \in BOOLEAN /\ open \in BOOLEAN
  /\ unwritten \subseteq Id /\ todo \subseteq Id
  /\ server \in {"up", "down", "refused"}
  /\ at \in Steps
  /\ cur \in Id \cup {Absent}
  /\ index \in Index
  /\ files \in [Id -> Epic \cup {Absent, Torn}]

Init ==
  /\ mem = EmptyDb /\ prior = EmptyDb
  /\ told = TRUE /\ whole = FALSE /\ open = FALSE
  /\ unwritten = {} /\ todo = {} /\ cur = Absent
  /\ server = "up" /\ at = "idle"
  /\ index = NoLines
  /\ files = NoEntries

-----------------------------------------------------------------------------
(***************************************************************************)
(* A write.                                                                *)
(***************************************************************************)
\* Faulty: the deletion of an epic writes that epic only.
WholeToAdd(r) == r.op = "AddEpic"

\* Faulty: every change writes everything.
WholeAlways(r) == TRUE

Whole(r) == r.op \in {"AddEpic", "DeleteEpic"}

\* A handler has changed the database; ids do not wrap here.
Change(r) ==
  LET o == Handle(mem, r)
  IN  /\ server = "up" /\ at = "idle"
      /\ o.write # "none"
      /\ r.op \in {"AddEpic", "AddStory"} => mem.last < MaxId
      /\ mem' = o.db /\ prior' = mem
      /\ told' = FALSE
      /\ whole' = Whole(r)
      /\ cur' = IF Whole(r) THEN Absent ELSE r.epic
      /\ at' = IF o.write = "around" THEN "first" ELSE "reply"
      /\ UNCHANGED <<unwritten, server, todo, open, index, files>>

ReplySent ==
  /\ server = "up" /\ at = "reply"
  /\ told' = TRUE
  /\ at' = IF whole THEN "truncate" ELSE "write"
  /\ UNCHANGED <<mem, prior, unwritten, server, whole, todo, cur, open, index, files>>

TruncateIndex ==
  /\ server = "up" /\ at = "truncate"
  /\ index' = NoLines
  /\ todo' = Epics(mem)
  /\ at' = "write"
  /\ UNCHANGED <<mem, prior, told, unwritten, server, whole, cur, open, files>>

\* The epics whose lines are in the buffer or in the file.
Lined == Epics(mem) \ todo

\* Faulty: the next line may reach the file with the buffer.
SpillWithNext(e) == index' \in {index, [index EXCEPT !.lines = Lined \cup {e}]}

\* When the line of e does not fit into the buffer, the buffer goes first.
Spill(e) == index' \in {index, [index EXCEPT !.lines = Lined]}

\* The map of epics has no order.
BufferLine(e) ==
  /\ server = "up" /\ at = "write" /\ whole /\ cur = Absent
  /\ e \in todo
  /\ Spill(e)
  /\ todo' = todo \ {e}
  /\ cur' = e
  /\ UNCHANGED <<mem, prior, told, unwritten, server, at, whole, open, files>>

OpenFile ==
  /\ server = "up" /\ at \in {"first", "write"} /\ cur # Absent /\ ~open
  /\ open' = TRUE
  /\ files' = [files EXCEPT ![cur] = Torn]
  /\ UNCHANGED <<mem, prior, told, unwritten, server, at, whole, todo, cur, index>>

FlushFile ==
  /\ server = "up" /\ open
  /\ files' = [files EXCEPT ![cur] = mem.epics[cur]]
  /\ unwritten' = unwritten \ {cur}
  /\ open' = FALSE
  /\ UNCHANGED <<mem, prior, told, server, whole, todo, index>>

\* The first write of add_story_handler returns, and it sends its reply.
StoryWritten ==
  /\ at = "first" /\ FlushFile
  /\ at' = "reply"
  /\ UNCHANGED cur

EpicWritten ==
  /\ at = "write" /\ FlushFile
  /\ at' = IF whole THEN "write" ELSE "idle"
  /\ cur' = Absent

FlushIndex ==
  /\ server = "up" /\ at = "write" /\ whole /\ cur = Absent /\ todo = {}
  /\ index' = [lines |-> Epics(mem), torn |-> FALSE]
  /\ at' = "idle"
  /\ UNCHANGED <<mem, prior, told, unwritten, server, whole, todo, cur, open, files>>

(***************************************************************************)
(* What a write that stops half-way may leave.  Epic::load takes the end   *)
(* of the file in a story's tag for the end of the stories.                *)
(***************************************************************************)
SomeStories(epic) ==
  {[epic EXCEPT !.stories = [s \in Id |-> IF s \in kept THEN epic.stories[s] ELSE Absent]] :
     kept \in SUBSET {s \in Id : epic.stories[s] # Absent}}

CutFile == {Torn} \cup SomeStories(mem.epics[cur])

FilesCut ==
  IF open THEN \E f \in CutFile : files' = [files EXCEPT ![cur] = f]
  ELSE UNCHANGED files

CutIndex ==
  {i \in Index : /\ index.lines \subseteq i.lines /\ i.lines \subseteq Lined
                 /\ i.torn => i.lines # Lined}

IndexCut ==
  IF at = "write" /\ whole /\ cur = Absent THEN index' \in CutIndex ELSE UNCHANGED index

\* add_story_async fails, the client hears that the epic does not exist, and
\* the server goes on.  Any other failed write ends the broker, which for the
\* files is the server being killed.
StoryWriteFails ==
  /\ server = "up" /\ at = "first" /\ DiskFails
  /\ FilesCut
  /\ unwritten' = unwritten \cup {cur}
  /\ at' = "idle" /\ cur' = Absent /\ open' = FALSE
  /\ UNCHANGED <<mem, prior, told, server, whole, todo, index>>

Crash ==
  /\ server = "up"
  /\ server' = "down"
  /\ FilesCut
  /\ IndexCut
  /\ UNCHANGED <<mem, prior, told, unwritten, at, whole, todo, cur, open>>

-----------------------------------------------------------------------------
(***************************************************************************)
(* Loading.  A line that is cut, a file that is missing, or one that is    *)
(* torn makes all of it fail; last_unique_id is the largest id read.       *)
(***************************************************************************)
Readable == ~index.torn /\ \A e \in index.lines : files[e] \notin {Absent, Torn}

OnDisk == [e \in Id |-> IF e \in index.lines THEN files[e] ELSE Absent]

EpicIds(epics) == {e \in Id : epics[e] # Absent}

StoryIds(epics) == UNION {{s \in Id : epics[e].stories[s] # Absent} : e \in EpicIds(epics)}

\* Faulty: takes last_unique_id for the next id.
LargestPlusOne(epics) == Max({0} \cup EpicIds(epics) \cup StoryIds(epics)) + 1

\* Faulty: forgets that stories share the ids.
LargestEpicId(epics) == Max({0} \cup EpicIds(epics))

LargestId(epics) == Max({0} \cup EpicIds(epics) \cup StoryIds(epics))

Loaded == [epics |-> OnDisk, last |-> LargestId(OnDisk)]

Restart ==
  /\ server = "down" /\ Readable
  /\ server' = "up"
  /\ mem' = Loaded /\ prior' = Loaded
  /\ told' = TRUE /\ whole' = FALSE /\ open' = FALSE
  /\ unwritten' = {} /\ todo' = {} /\ cur' = Absent
  /\ at' = "idle"
  /\ UNCHANGED <<index, files>>

\* The broker returns load's error before it takes any event.
RestartRefused ==
  /\ server = "down" /\ ~Readable
  /\ server' = "refused"
  /\ UNCHANGED <<mem, prior, told, unwritten, at, whole, todo, cur, open, index, files>>

Next ==
  \/ \E r \in Requests : Change(r)
  \/ ReplySent
  \/ TruncateIndex
  \/ \E e \in Id : BufferLine(e)
  \/ OpenFile
  \/ StoryWritten
  \/ EpicWritten
  \/ FlushIndex
  \/ StoryWriteFails
  \/ Crash
  \/ Restart
  \/ RestartRefused

Spec == Init /\ [][Next]_vars

-----------------------------------------------------------------------------
(***************************************************************************)
(* Properties.                                                             *)
(***************************************************************************)
\* Nothing is truncated: no write_async is between its open and its flush.
Settled == ~open /\ ~(at = "write" /\ whole)

\* Except for epics whose last write failed, the files are the database db.
FilesHold(db) ==
  /\ index = [lines |-> Epics(db), torn |-> FALSE]
  /\ \A e \in Epics(db) \ unwritten : files[e] = db.epics[e]

\* Outside of a write the files hold a whole database, the one before the
\* last change or, once its write has returned, the one after it, whatever
\* sequence of additions, deletions, failed writes and restarts came before.
SettledFilesAreWhole ==
  server = "up" /\ Settled =>
    FilesHold(mem) \/ (at # "idle" /\ FilesHold(prior))

\* After any restart the ids of epics and stories are unique and none is above
\* last_unique_id, although load only sees the items that are left.
IdsUnique == UniqueIds(mem)

\* What the restart finds of an epic, one whose last write had failed included,
\* is that epic as the server had it, before or after its last change, perhaps
\* without some stories: nothing is made up, and no deleted epic comes back from
\* a file that delete_epic left behind.
FindsOnlyKnown ==
  \A e \in Epics(mem') :
    \E db \in {mem, prior} :
      HasEpic(db, e) /\ mem'.epics[e] \in SomeStories(db.epics[e])

RestartFindsOnlyKnown == [][Restart => FindsOnlyKnown]_vars

\* When load succeeds after a crash that came after a change of a story or of a
\* status, in its write or not, every other epic is found complete, except those
\* whose last write had failed, of which FindsOnlyKnown bounds what is lost.  (A
\* file torn in that write makes load refuse all epics: RefusedOnlyForCut.)
KeepsOthers ==
  \A e \in Epics(mem) \ (unwritten \cup {cur}) : mem'.epics[e] = mem.epics[e]

RestartKeepsOthers == [][Restart /\ Epics(mem) = Epics(prior) => KeepsOthers]_vars

\* All that load can reject after a crash is a line cut in the write of the
\* index, the one file that was open in a write of one epic, or a file whose last
\* write had failed: the index names no missing file, and a write of the whole
\* database cut between its files leaves none torn that the index names.
RefusedOnlyForCut ==
  server # "up" =>
    /\ index.torn => at = "write" /\ whole
    /\ \A e \in index.lines :
         /\ files[e] # Absent
         /\ files[e] = Torn => e \in unwritten \/ (e = cur /\ open /\ ~whole)

\* "Ensure changes persist in database", the handlers say before they write:
\* a change whose reply was sent is there after a restart.
ToldIsKept == [][Restart /\ told => mem'.epics = mem.epics]_vars
=============================================================================
