------------------------------ MODULE Database ------------------------------
(***************************************************************************)
(* The in-memory database of the server (src/models/mod.rs, struct DbState *)
(* and struct Epic) and the answer each request of a client gets from it   *)
(* (src/bin/server.rs, module handlers).  There is no state here: a        *)
(* database is a value, and a handler is a function from a database and a  *)
(* request to an Outcome, the new database, the reply, and what the        *)
(* handler writes to disk.                                                 *)
(*                                                                         *)
(* Names and descriptions are payload that no step reads, so an epic is    *)
(* its status and its stories, and a story is its status.  A HashMap keyed *)
(* by ids is a function from all ids, which is Absent where no key is.     *)
(***************************************************************************)
EXTENDS Naturals

CONSTANTS
  MaxId,        \* u32::MAX, the largest id
  Absent        \* what a map holds where it has no entry

ASSUME MaxIdAssumption == MaxId \in Nat \ {0}

Id == 0 .. MaxId

Status == {"Open", "InProgress", "Resolved", "Closed"}

Map(T) == [Id -> T \cup {Absent}]

NoEntries == [i \in Id |-> Absent]

(***************************************************************************)
(* The types of DbState and Epic.  last is last_unique_id, which epics and *)
(* stories share.                                                          *)
(***************************************************************************)
Epic == [status : Status, stories : Map(Status)]

Db == [epics : Map(Epic), last : Id]

\* No entry of a map looks like no entry.
ASSUME AbsentAssumption == Absent \notin Id \cup Epic \cup Status

EmptyDb == [epics |-> NoEntries, last |-> 0]

HasEpic(db, e) == db.epics[e] # Absent

HasStory(db, e, s) == HasEpic(db, e) /\ db.epics[e].stories[s] # Absent

\* Every epic and every story has an id of its own, none above last.
UniqueIds(db) ==
  /\ \A i \in Id : HasEpic(db, i) =>
       i <= db.last /\ \A e \in Id : ~HasStory(db, e, i)
  /\ \A e, i \in Id : HasStory(db, e, i) =>
       i <= db.last /\ \A f \in Id \ {e} : ~HasStory(db, f, i)

\* An item that new has and db has not got an id above all those given so far,
\* the ids of items that are gone among them, and last never goes back.
NewIdsAreFresh(db, new) ==
  /\ new.last >= db.last
  /\ \A i \in Id : HasEpic(new, i) /\ ~HasEpic(db, i) => i > db.last
  /\ \A e, i \in Id : HasStory(new, e, i) /\ ~HasStory(db, e, i) => i > db.last

(***************************************************************************)
(* Requests, the decoded events of a client, and replies.  A reply carries *)
(* the bytes of the whole database (home: each epic without its stories),  *)
(* of one epic with its stories (page), or of one story (status; it names  *)
(* its epic, which the tag of GetStoryOk does not).                        *)
(***************************************************************************)
NewClient == [op |-> "NewClient"]

Request ==
       [op : {"AddEpic", "Unparseable"}]
  \cup [op : {"GetEpic", "DeleteEpic", "AddStory"}, epic : Id]
  \cup [op : {"UpdateEpicStatus"}, epic : Id, status : Status]
  \cup [op : {"GetStory", "DeleteStory"}, epic : Id, story : Id]
  \cup [op : {"UpdateStoryStatus"}, epic : Id, story : Id, status : Status]

Home == Map(Status)

Reply ==
       [kind : {"RequestNotParsed"}]
  \cup [kind : {"ClientAddedOk"}, home : Home]
  \cup [kind : {"AddedEpicOk", "DeletedEpicOk", "EpicDoesNotExist"},
        epic : Id, home : Home]
  \cup [kind : {"GetEpicOk", "EpicStatusUpdateOk"}, epic : Id, page : Epic]
  \cup [kind : {"AddedStoryOk", "DeletedStoryOk", "StoryDoesNotExist"},
        epic : Id, story : Id, page : Epic]
  \cup [kind : {"GetStoryOk", "StoryStatusUpdateOk"}, epic : Id, story : Id,
        status : Status]

HomeView(db) ==
  [e \in Id |-> IF HasEpic(db, e) THEN db.epics[e].status ELSE Absent]

(***************************************************************************)
(* What a handler writes to disk: nothing, its change after it has sent    *)
(* the reply, or its change both before and after it sends the reply.      *)
(***************************************************************************)
Writes == {"none", "after", "around"}

Outcome == [db : Db, reply : Reply, write : Writes]

Unchanged(db, reply) == [db |-> db, reply |-> reply, write |-> "none"]

Changed(db, reply) == [db |-> db, reply |-> reply, write |-> "after"]

EpicDoesNotExist(db, e) ==
  [kind |-> "EpicDoesNotExist", epic |-> e, home |-> HomeView(db)]

StoryDoesNotExist(db, e, s) ==
  [kind |-> "StoryDoesNotExist", epic |-> e, story |-> s, page |-> db.epics[e]]

(***************************************************************************)
(* The methods of DbState and Epic that change the database.  Ids are u32: *)
(* the release build wraps at the top.  The definitions marked Faulty are  *)
(* used by no specification: they are plausible slips, kept to show that    *)
(* the properties notice them.                                             *)
(***************************************************************************)
\* Faulty: an id wider than u32.
NextIdUnbounded(db) == db.last + 1

\* Faulty: the first id that no item has, so that a freed one is given again.
FirstFreeId(db) ==
  LET Used == {i \in Id : HasEpic(db, i) \/ \E e \in Id : HasStory(db, e, i)}
  IN  CHOOSE n \in 1 .. MaxId + 1 : n \notin Used /\ 1 .. n - 1 \subseteq Used

NextId(db) == (db.last + 1) % (MaxId + 1)

AddEpic(db) ==
  [db EXCEPT !.epics[NextId(db)] = [status |-> "Open", stories |-> NoEntries],
             !.last = NextId(db)]

DeleteEpic(db, e) == [db EXCEPT !.epics[e] = Absent]

SetEpicStatus(db, e, st) == [db EXCEPT !.epics[e].status = st]

TakeId(db) == [db EXCEPT !.last = NextId(db)]

AddStory(db, e) == [TakeId(db) EXCEPT !.epics[e].stories[NextId(db)] = "Open"]

DeleteStory(db, e, s) == [db EXCEPT !.epics[e].stories[s] = Absent]

SetStoryStatus(db, e, s, st) == [db EXCEPT !.epics[e].stories[s] = st]

(***************************************************************************)
(* The handlers, one per event, each as the code of module handlers orders *)
(* it: the lookups, the change, the reply.                                 *)
(***************************************************************************)
NewClientHandler(db) ==
  Unchanged(db, [kind |-> "ClientAddedOk", home |-> HomeView(db)])

UnparseableHandler(db) == Unchanged(db, [kind |-> "RequestNotParsed"])

AddEpicHandler(db) ==
  LET new == AddEpic(db)
  IN  Changed(new, [kind |-> "AddedEpicOk", epic |-> new.last, home |-> HomeView(new)])

DeleteEpicHandler(db, e) ==
  IF HasEpic(db, e)
  THEN LET new == DeleteEpic(db, e)
       IN  Changed(new, [kind |-> "DeletedEpicOk", epic |-> e, home |-> HomeView(new)])
  ELSE Unchanged(db, EpicDoesNotExist(db, e))

GetEpicHandler(db, e) ==
  Unchanged(db, IF HasEpic(db, e)
                THEN [kind |-> "GetEpicOk", epic |-> e, page |-> db.epics[e]]
                ELSE EpicDoesNotExist(db, e))

UpdateEpicStatusHandler(db, e, st) ==
  IF HasEpic(db, e)
  THEN LET new == SetEpicStatus(db, e, st)
       IN  Changed(new, [kind |-> "EpicStatusUpdateOk", epic |-> e, page |-> new.epics[e]])
  ELSE Unchanged(db, EpicDoesNotExist(db, e))

GetStoryHandler(db, e, s) ==
  Unchanged(db, IF HasStory(db, e, s)
                THEN [kind |-> "GetStoryOk", epic |-> e, story |-> s,
                      status |-> db.epics[e].stories[s]]
                ELSE IF HasEpic(db, e) THEN StoryDoesNotExist(db, e, s)
                ELSE EpicDoesNotExist(db, e))

AddStoryHandler(db, e) ==
  IF ~HasEpic(db, e) THEN Unchanged(db, EpicDoesNotExist(db, e))
  ELSE IF HasStory(db, e, NextId(db))             \* IdConflict, after wrapping
  THEN Unchanged(TakeId(db), EpicDoesNotExist(db, e))
  ELSE LET new == AddStory(db, e)
       IN  [db    |-> new,
            reply |-> [kind |-> "AddedStoryOk", epic |-> e, story |-> new.last,
                       page |-> new.epics[e]],
            write |-> "around"]

DeleteStoryHandler(db, e, s) ==
  IF HasStory(db, e, s)
  THEN LET new == DeleteStory(db, e, s)
       IN  Changed(new, [kind |-> "DeletedStoryOk", epic |-> e, story |-> s,
                         page |-> new.epics[e]])
  ELSE Unchanged(db, IF HasEpic(db, e) THEN StoryDoesNotExist(db, e, s)
                                       ELSE EpicDoesNotExist(db, e))

UpdateStoryStatusHandler(db, e, s, st) ==
  IF HasStory(db, e, s)
  THEN Changed(SetStoryStatus(db, e, s, st),
               [kind |-> "StoryStatusUpdateOk", epic |-> e, story |-> s, status |-> st])
  ELSE Unchanged(db, IF HasEpic(db, e) THEN StoryDoesNotExist(db, e, s)
                                       ELSE EpicDoesNotExist(db, e))

(***************************************************************************)
(* The dispatch of the broker.                                             *)
(***************************************************************************)
Handle(db, r) ==
  CASE r.op = "NewClient"         -> NewClientHandler(db)
    [] r.op = "AddEpic"           -> AddEpicHandler(db)
    [] r.op = "DeleteEpic"        -> DeleteEpicHandler(db, r.epic)
    [] r.op = "GetEpic"           -> GetEpicHandler(db, r.epic)
    [] r.op = "UpdateEpicStatus"  -> UpdateEpicStatusHandler(db, r.epic, r.status)
    [] r.op = "GetStory"          -> GetStoryHandler(db, r.epic, r.story)
    [] r.op = "AddStory"          -> AddStoryHandler(db, r.epic)
    [] r.op = "DeleteStory"       -> DeleteStoryHandler(db, r.epic, r.story)
    [] r.op = "UpdateStoryStatus" ->
         UpdateStoryStatusHandler(db, r.epic, r.story, r.status)
    [] r.op = "Unparseable"       -> UnparseableHandler(db)
=============================================================================
