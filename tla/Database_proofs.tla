-------------------------- MODULE Database_proofs ---------------------------
(***************************************************************************)
(* Every handler returns a database, a reply and a kind of write; and ids  *)
(* stay unique as long as they last.                                       *)
(***************************************************************************)
EXTENDS Database, TLAPS

LEMMA MaxIdNat == MaxId \in Nat /\ 0 \in Id
  BY MaxIdAssumption DEF Id

LEMMA NextIdType == \A d \in Db : NextId(d) \in Id
  BY MaxIdAssumption DEF NextId, Db, Id

LEMMA HomeViewType == \A d \in Db : HomeView(d) \in Home
  <1> SUFFICES ASSUME NEW d \in Db, NEW i \in Id, HasEpic(d, i)
               PROVE  d.epics[i].status \in Status
    BY DEF HomeView, Home, Map
  <1> QED BY DEF Db, Map, Epic, HasEpic

\* The epics and stories found in a database are well typed.
LEMMA LookupType ==
  ASSUME NEW d \in Db, NEW e \in Id, HasEpic(d, e)
  PROVE  /\ d.epics[e] \in Epic
         /\ \A s \in Id : HasStory(d, e, s) => d.epics[e].stories[s] \in Status
  BY DEF Db, Map, Epic, HasEpic, HasStory

LEMMA NewEpicType == [status |-> "Open", stories |-> NoEntries] \in Epic
  BY DEF Epic, Status, Map, NoEntries

LEMMA AddEpicType == \A d \in Db : AddEpic(d) \in Db
  BY NextIdType, NewEpicType DEF AddEpic, Db, Map

LEMMA TakeIdType == \A d \in Db : TakeId(d) \in Db
  BY NextIdType DEF TakeId, Db

LEMMA DeleteEpicType == \A d \in Db, e \in Id : DeleteEpic(d, e) \in Db
  BY DEF DeleteEpic, Db, Map

LEMMA SetEpicStatusType ==
  ASSUME NEW d \in Db, NEW e \in Id, NEW st \in Status, HasEpic(d, e)
  PROVE  SetEpicStatus(d, e, st) \in Db /\ SetEpicStatus(d, e, st).epics[e] \in Epic
  <1>1. [d.epics[e] EXCEPT !.status = st] \in Epic
    BY LookupType DEF Epic
  <1> QED BY <1>1 DEF SetEpicStatus, Db, Map

\* Writing v, a status or Absent, at story s of an epic.
LEMMA SetStoryType ==
  ASSUME NEW d \in Db, NEW e \in Id, NEW s \in Id, NEW v \in Status \cup {Absent},
         HasEpic(d, e)
  PROVE  LET new == [d EXCEPT !.epics[e].stories[s] = v]
         IN  new \in Db /\ new.epics[e] \in Epic
  <1>1. [d.epics[e] EXCEPT !.stories[s] = v] \in Epic
    BY LookupType DEF Epic, Map
  <1> QED BY <1>1 DEF Db, Map

LEMMA AddStoryType ==
  ASSUME NEW d \in Db, NEW e \in Id, HasEpic(d, e)
  PROVE  AddStory(d, e) \in Db /\ AddStory(d, e).epics[e] \in Epic
  <1>1. TakeId(d) \in Db /\ HasEpic(TakeId(d), e)
    BY TakeIdType DEF TakeId, HasEpic, Db
  <1>2. "Open" \in Status \cup {Absent}
    BY DEF Status
  <1> QED BY <1>1, <1>2, SetStoryType, NextIdType DEF AddStory

-----------------------------------------------------------------------------
(***************************************************************************)
(* The type of what each handler returns.                                  *)
(***************************************************************************)
LEMMA UnchangedType ==
  ASSUME NEW d \in Db, NEW r \in Reply
  PROVE  Unchanged(d, r) \in Outcome /\ Changed(d, r) \in Outcome
  BY DEF Unchanged, Changed, Outcome, Writes

LEMMA MissingReplyType ==
  ASSUME NEW d \in Db, NEW e \in Id, NEW s \in Id
  PROVE  /\ EpicDoesNotExist(d, e) \in Reply
         /\ HasEpic(d, e) => StoryDoesNotExist(d, e, s) \in Reply
  BY HomeViewType, LookupType DEF EpicDoesNotExist, StoryDoesNotExist, Reply

LEMMA NewClientHandlerType == \A d \in Db : NewClientHandler(d) \in Outcome
  BY HomeViewType, UnchangedType DEF NewClientHandler, Reply

LEMMA UnparseableHandlerType == \A d \in Db : UnparseableHandler(d) \in Outcome
  BY UnchangedType DEF UnparseableHandler, Reply

LEMMA AddEpicHandlerType == \A d \in Db : AddEpicHandler(d) \in Outcome
  <1> SUFFICES ASSUME NEW d \in Db PROVE AddEpicHandler(d) \in Outcome
    OBVIOUS
  <1> DEFINE new == AddEpic(d)
             r   == [kind |-> "AddedEpicOk", epic |-> new.last, home |-> HomeView(new)]
  <1>1. new \in Db /\ new.last \in Id
    BY AddEpicType DEF Db
  <1>2. r \in Reply
    <2> HIDE DEF new
    <2> QED BY <1>1, HomeViewType DEF Reply
  <1> QED BY <1>1, <1>2, UnchangedType DEF AddEpicHandler

LEMMA DeleteEpicHandlerType ==
  \A d \in Db, e \in Id : DeleteEpicHandler(d, e) \in Outcome
  <1> SUFFICES ASSUME NEW d \in Db, NEW e \in Id
               PROVE  DeleteEpicHandler(d, e) \in Outcome
    OBVIOUS
  <1> DEFINE new == DeleteEpic(d, e)
             r   == [kind |-> "DeletedEpicOk", epic |-> e, home |-> HomeView(new)]
  <1>1. new \in Db
    BY DeleteEpicType
  <1>2. r \in Reply
    <2> HIDE DEF new
    <2> QED BY <1>1, HomeViewType DEF Reply
  <1> QED BY <1>1, <1>2, UnchangedType, MissingReplyType DEF DeleteEpicHandler

LEMMA GetEpicHandlerType ==
  \A d \in Db, e \in Id : GetEpicHandler(d, e) \in Outcome
  <1> SUFFICES ASSUME NEW d \in Db, NEW e \in Id
               PROVE  GetEpicHandler(d, e) \in Outcome
    OBVIOUS
  <1>1. HasEpic(d, e) =>
          [kind |-> "GetEpicOk", epic |-> e, page |-> d.epics[e]] \in Reply
    BY LookupType DEF Reply
  <1> QED BY <1>1, UnchangedType, MissingReplyType DEF GetEpicHandler

LEMMA UpdateEpicStatusHandlerType ==
  \A d \in Db, e \in Id, st \in Status : UpdateEpicStatusHandler(d, e, st) \in Outcome
  <1> SUFFICES ASSUME NEW d \in Db, NEW e \in Id, NEW st \in Status
               PROVE  UpdateEpicStatusHandler(d, e, st) \in Outcome
    OBVIOUS
  <1> DEFINE new == SetEpicStatus(d, e, st)
             r   == [kind |-> "EpicStatusUpdateOk", epic |-> e, page |-> new.epics[e]]
  <1>1. HasEpic(d, e) => new \in Db /\ new.epics[e] \in Epic
    BY SetEpicStatusType
  <1>2. HasEpic(d, e) => r \in Reply
    <2> HIDE DEF new
    <2> QED BY <1>1 DEF Reply
  <1> QED BY <1>1, <1>2, UnchangedType, MissingReplyType DEF UpdateEpicStatusHandler

LEMMA GetStoryHandlerType ==
  \A d \in Db, e, s \in Id : GetStoryHandler(d, e, s) \in Outcome
  <1> SUFFICES ASSUME NEW d \in Db, NEW e \in Id, NEW s \in Id
               PROVE  GetStoryHandler(d, e, s) \in Outcome
    OBVIOUS
  <1>1. HasStory(d, e, s) =>
          [kind |-> "GetStoryOk", epic |-> e, story |-> s, status |-> d.epics[e].stories[s]] \in Reply
    BY LookupType DEF Reply, HasStory
  <1> QED BY <1>1, UnchangedType, MissingReplyType DEF GetStoryHandler

LEMMA AddStoryHandlerType ==
  \A d \in Db, e \in Id : AddStoryHandler(d, e) \in Outcome
  <1> SUFFICES ASSUME NEW d \in Db, NEW e \in Id
               PROVE  AddStoryHandler(d, e) \in Outcome
    OBVIOUS
  <1> DEFINE new == AddStory(d, e)
             r   == [kind |-> "AddedStoryOk", epic |-> e, story |-> new.last,
                     page |-> new.epics[e]]
  <1>1. HasEpic(d, e) => new \in Db /\ new.epics[e] \in Epic /\ new.last \in Id
    BY AddStoryType DEF Db
  <1>2. HasEpic(d, e) => r \in Reply
    <2> HIDE DEF new
    <2> QED BY <1>1 DEF Reply
  <1>3. HasEpic(d, e) => [db |-> new, reply |-> r, write |-> "around"] \in Outcome
    <2> HIDE DEF new, r
    <2> QED BY <1>1, <1>2 DEF Outcome, Writes
  <1> QED BY <1>3, UnchangedType, MissingReplyType, TakeIdType DEF AddStoryHandler

LEMMA DeleteStoryHandlerType ==
  \A d \in Db, e, s \in Id : DeleteStoryHandler(d, e, s) \in Outcome
  <1> SUFFICES ASSUME NEW d \in Db, NEW e \in Id, NEW s \in Id
               PROVE  DeleteStoryHandler(d, e, s) \in Outcome
    OBVIOUS
  <1> DEFINE new == DeleteStory(d, e, s)
             r   == [kind |-> "DeletedStoryOk", epic |-> e, story |-> s,
                     page |-> new.epics[e]]
  <1>1. HasStory(d, e, s) => new \in Db /\ new.epics[e] \in Epic
    BY SetStoryType DEF DeleteStory, HasStory
  <1>2. HasStory(d, e, s) => r \in Reply
    <2> HIDE DEF new
    <2> QED BY <1>1 DEF Reply
  <1> QED BY <1>1, <1>2, UnchangedType, MissingReplyType DEF DeleteStoryHandler

LEMMA UpdateStoryStatusHandlerType ==
  \A d \in Db, e, s \in Id, st \in Status :
    UpdateStoryStatusHandler(d, e, s, st) \in Outcome
  <1> SUFFICES ASSUME NEW d \in Db, NEW e \in Id, NEW s \in Id, NEW st \in Status
               PROVE  UpdateStoryStatusHandler(d, e, s, st) \in Outcome
    OBVIOUS
  <1>1. HasStory(d, e, s) => SetStoryStatus(d, e, s, st) \in Db
    BY SetStoryType DEF SetStoryStatus, HasStory
  <1>2. [kind |-> "StoryStatusUpdateOk", epic |-> e, story |-> s, status |-> st] \in Reply
    BY DEF Reply
  <1> QED BY <1>1, <1>2, UnchangedType, MissingReplyType DEF UpdateStoryStatusHandler

\* Every request is answered: the dispatch always finds a handler, and what it
\* returns is a database, a reply of the protocol and a kind of write.
THEOREM HandleType == \A d \in Db, r \in Request \cup {NewClient} : Handle(d, r) \in Outcome
  <1> SUFFICES ASSUME NEW d \in Db, NEW r \in Request \cup {NewClient}
               PROVE  Handle(d, r) \in Outcome
    OBVIOUS
  <1>1. CASE r = NewClient
    BY <1>1, NewClientHandlerType DEF Handle, NewClient
  <1>2. CASE r.op = "AddEpic" \/ r.op = "Unparseable"
    BY <1>2, AddEpicHandlerType, UnparseableHandlerType DEF Handle
  <1>3. CASE r \in [op : {"GetEpic", "DeleteEpic", "AddStory"}, epic : Id]
    BY <1>3, GetEpicHandlerType, DeleteEpicHandlerType, AddStoryHandlerType DEF Handle
  <1>4. CASE r \in [op : {"UpdateEpicStatus"}, epic : Id, status : Status]
    BY <1>4, UpdateEpicStatusHandlerType DEF Handle
  <1>5. CASE r \in [op : {"GetStory", "DeleteStory"}, epic : Id, story : Id]
    BY <1>5, GetStoryHandlerType, DeleteStoryHandlerType DEF Handle
  <1>6. CASE r \in [op : {"UpdateStoryStatus"}, epic : Id, story : Id, status : Status]
    BY <1>6, UpdateStoryStatusHandlerType DEF Handle
  <1> QED BY <1>1, <1>2, <1>3, <1>4, <1>5, <1>6 DEF Request

-----------------------------------------------------------------------------
(***************************************************************************)
(* Ids stay unique.  Every change either keeps last and adds no item, or   *)
(* takes last + 1 as last and adds one item, with that id.                 *)
(***************************************************************************)
NoNewItem(d, new) ==
  /\ new.last = d.last
  /\ \A i \in Id : HasEpic(new, i) => HasEpic(d, i)
  /\ \A e, i \in Id : HasStory(new, e, i) => HasStory(d, e, i)

NewEpicOnly(d, new) ==
  /\ new.last = d.last + 1
  /\ \A i \in Id : HasEpic(new, i) => HasEpic(d, i) \/ i = new.last
  /\ \A e, i \in Id : HasStory(new, e, i) => HasStory(d, e, i)

NewStoryOnly(d, new, e) ==
  /\ new.last = d.last + 1
  /\ \A i \in Id : HasEpic(new, i) => HasEpic(d, i)
  /\ \A f, i \in Id : HasStory(new, f, i) =>
       HasStory(d, f, i) \/ (f = e /\ i = new.last)

LEMMA UniqueIdsKept ==
  ASSUME NEW d \in Db, NEW new \in Db, NEW e \in Id, UniqueIds(d),
         NoNewItem(d, new) \/ NewEpicOnly(d, new) \/ NewStoryOnly(d, new, e)
  PROVE  UniqueIds(new) /\ NewIdsAreFresh(d, new)
  <1>1. d.last \in Nat /\ new.last \in Nat /\ \A i \in Id : i \in Nat
    BY MaxIdAssumption DEF Db, Id
  <1>2. CASE NoNewItem(d, new)
    BY <1>1, <1>2 DEF NoNewItem, UniqueIds, NewIdsAreFresh
  <1>3. CASE NewEpicOnly(d, new)
    BY <1>1, <1>3 DEF NewEpicOnly, UniqueIds, NewIdsAreFresh
  <1>4. CASE NewStoryOnly(d, new, e)
    BY <1>1, <1>4 DEF NewStoryOnly, UniqueIds, NewIdsAreFresh
  <1> QED BY <1>2, <1>3, <1>4

LEMMA NextIdIsNext ==
  ASSUME NEW d \in Db, d.last < MaxId
  PROVE  NextId(d) = d.last + 1
  BY MaxIdAssumption DEF NextId, Db, Id

LEMMA AddEpicItems ==
  ASSUME NEW d \in Db, UniqueIds(d), d.last < MaxId
  PROVE  NewEpicOnly(d, AddEpic(d))
  <1> DEFINE n == NextId(d)
  <1>1. n = d.last + 1 /\ n \in Id /\ d.last \in Nat
    BY NextIdIsNext, NextIdType, MaxIdAssumption DEF Db, Id
  <1>2. AddEpic(d).last = n
    BY DEF AddEpic, Db
  <1>3. \A i \in Id : i # n => AddEpic(d).epics[i] = d.epics[i]
    BY DEF AddEpic, Db, Map
  <1>4. AddEpic(d).epics[n] = [status |-> "Open", stories |-> NoEntries]
    BY <1>1 DEF AddEpic, Db, Map
  <1>5. \A i \in Id : ~HasStory(AddEpic(d), n, i)
    BY <1>4 DEF HasStory, NoEntries
  <1>6. \A e, i \in Id : HasStory(AddEpic(d), e, i) => HasStory(d, e, i)
    BY <1>3, <1>5 DEF HasStory, HasEpic
  <1> HIDE DEF n
  <1> QED BY <1>1, <1>2, <1>3, <1>6 DEF NewEpicOnly, HasEpic

LEMMA AddStoryItems ==
  ASSUME NEW d \in Db, NEW e \in Id, HasEpic(d, e), d.last < MaxId
  PROVE  NewStoryOnly(d, AddStory(d, e), e)
  <1> DEFINE n == NextId(d)
  <1>1. n = d.last + 1 /\ n \in Id
    BY NextIdIsNext, NextIdType
  <1>2. AddStory(d, e).last = n
    BY DEF AddStory, TakeId, Db
  <1>3. \A i \in Id : i # e => AddStory(d, e).epics[i] = d.epics[i]
    BY DEF AddStory, TakeId, Db, Map
  <1>4. AddStory(d, e).epics[e] = [d.epics[e] EXCEPT !.stories[n] = "Open"]
    BY DEF AddStory, TakeId, Db, Map
  <1>5. \A i \in Id : i # n => AddStory(d, e).epics[e].stories[i] = d.epics[e].stories[i]
    BY <1>4, LookupType DEF Epic, Map
  <1> HIDE DEF n
  <1> QED BY <1>1, <1>2, <1>3, <1>5 DEF NewStoryOnly, HasStory, HasEpic

LEMMA DeleteEpicItems ==
  ASSUME NEW d \in Db, NEW e \in Id
  PROVE  NoNewItem(d, DeleteEpic(d, e))
  <1>1. /\ DeleteEpic(d, e).last = d.last
        /\ DeleteEpic(d, e).epics[e] = Absent
        /\ \A i \in Id : i # e => DeleteEpic(d, e).epics[i] = d.epics[i]
    BY DEF DeleteEpic, Db, Map
  <1> QED BY <1>1 DEF NoNewItem, HasStory, HasEpic

LEMMA SetEpicStatusItems ==
  ASSUME NEW d \in Db, NEW e \in Id, NEW st \in Status, HasEpic(d, e)
  PROVE  NoNewItem(d, SetEpicStatus(d, e, st))
  <1> DEFINE new == SetEpicStatus(d, e, st)
  <1>1. /\ new.last = d.last
        /\ new.epics[e] = [d.epics[e] EXCEPT !.status = st]
        /\ \A i \in Id : i # e => new.epics[i] = d.epics[i]
    BY DEF SetEpicStatus, Db, Map
  <1>2. new.epics[e].stories = d.epics[e].stories
    BY <1>1, LookupType DEF Epic
  <1>3. NoNewItem(d, new)
    <2> HIDE DEF new
    <2> QED BY <1>1, <1>2 DEF NoNewItem, HasStory, HasEpic
  <1> QED BY <1>3

LEMMA SetStoryItems ==
  ASSUME NEW d \in Db, NEW e \in Id, NEW s \in Id, NEW v, HasStory(d, e, s)
  PROVE  NoNewItem(d, [d EXCEPT !.epics[e].stories[s] = v])
  <1> DEFINE new == [d EXCEPT !.epics[e].stories[s] = v]
  <1>1. /\ new.last = d.last
        /\ new.epics[e] = [d.epics[e] EXCEPT !.stories[s] = v]
        /\ \A i \in Id : i # e => new.epics[i] = d.epics[i]
    BY DEF Db, Map
  <1>2. \A i \in Id : i # s => new.epics[e].stories[i] = d.epics[e].stories[i]
    BY <1>1, LookupType DEF Epic, Map, HasStory
  <1> HIDE DEF new
  <1> QED BY <1>1, <1>2 DEF NoNewItem, HasStory, HasEpic

IsAddition(r) == r.op \in {"AddEpic", "AddStory"}

\* Whatever does not add does not add.
LEMMA OthersAddNothing ==
  ASSUME NEW d \in Db, NEW r \in Request \cup {NewClient}, ~IsAddition(r)
  PROVE  NoNewItem(d, Handle(d, r).db)
  <1> DEFINE new == Handle(d, r).db
  <1>1. NoNewItem(d, d)
    BY DEF NoNewItem
  <1>2. CASE r = NewClient \/ r.op = "Unparseable"
    BY <1>1, <1>2 DEF Handle, NewClient, NewClientHandler, UnparseableHandler, Unchanged
  <1>3. CASE r \in [op : {"GetEpic", "DeleteEpic"}, epic : Id]
    BY <1>1, <1>3, DeleteEpicItems
       DEF Handle, GetEpicHandler, DeleteEpicHandler, Changed, Unchanged
  <1>4. CASE r \in [op : {"UpdateEpicStatus"}, epic : Id, status : Status]
    <2>1. new = UpdateEpicStatusHandler(d, r.epic, r.status).db
      BY <1>4 DEF Handle
    <2>2. new = d \/ (HasEpic(d, r.epic) /\ new = SetEpicStatus(d, r.epic, r.status))
      BY <2>1 DEF UpdateEpicStatusHandler, Changed, Unchanged
    <2> QED BY <1>1, <1>4, <2>2, SetEpicStatusItems
  <1>5. CASE r \in [op : {"GetStory", "DeleteStory"}, epic : Id, story : Id]
    <2>1. new = d \/ (HasStory(d, r.epic, r.story) /\ new = DeleteStory(d, r.epic, r.story))
      BY <1>5 DEF Handle, GetStoryHandler, DeleteStoryHandler, Changed, Unchanged
    <2> QED BY <1>1, <1>5, <2>1, SetStoryItems DEF DeleteStory
  <1>6. CASE r \in [op : {"UpdateStoryStatus"}, epic : Id, story : Id, status : Status]
    <2>1. \/ new = d
          \/ /\ HasStory(d, r.epic, r.story)
             /\ new = SetStoryStatus(d, r.epic, r.story, r.status)
      BY <1>6 DEF Handle, UpdateStoryStatusHandler, Changed, Unchanged
    <2> QED BY <1>1, <1>6, <2>1, SetStoryItems DEF SetStoryStatus
  <1> QED BY <1>2, <1>3, <1>4, <1>5, <1>6 DEF Request, IsAddition

\* What an addition that is answered with success does.
LEMMA AdditionFacts ==
  ASSUME NEW d \in Db, NEW r \in Request, IsAddition(r), UniqueIds(d), d.last < MaxId
  PROVE  LET new == Handle(d, r).db
         IN  \/ r.op = "AddEpic" /\ new = AddEpic(d)
             \/ r.epic \in Id /\ ~HasEpic(d, r.epic) /\ new = d
             \/ r.epic \in Id /\ HasEpic(d, r.epic) /\ new = AddStory(d, r.epic)
  <1>1. CASE r.op = "AddEpic"
    BY <1>1 DEF Handle, AddEpicHandler, Changed
  <1>2. CASE r \in [op : {"AddStory"}, epic : Id]
    <2>1. Handle(d, r) = AddStoryHandler(d, r.epic) /\ r.epic \in Id
      BY <1>2 DEF Handle
    <2>2. ~HasStory(d, r.epic, NextId(d))
      <3>1. d.last \in Nat
        BY MaxIdAssumption DEF Db, Id
      <3> QED BY <2>1, <3>1, NextIdIsNext, NextIdType DEF UniqueIds
    <2> QED BY <1>2, <2>1, <2>2 DEF AddStoryHandler, Unchanged
  <1> QED BY <1>1, <1>2 DEF Request, IsAddition

\* A request that adds nothing keeps ids unique even when they have run out.
LEMMA OthersKeepIdsUnique ==
  ASSUME NEW d \in Db, NEW r \in Request \cup {NewClient}, UniqueIds(d), ~IsAddition(r)
  PROVE  UniqueIds(Handle(d, r).db)
  BY OthersAddNothing, UniqueIdsKept, MaxIdNat, HandleType DEF Outcome

\* As long as last_unique_id has not reached u32::MAX, no request makes two items
\* share an id, and one that adds an item gives it an id above all those given so
\* far, so that the id of a deleted item is not given again.
THEOREM HandleKeepsIdsUnique ==
  ASSUME NEW d \in Db, NEW r \in Request \cup {NewClient}, UniqueIds(d), d.last < MaxId
  PROVE  UniqueIds(Handle(d, r).db) /\ NewIdsAreFresh(d, Handle(d, r).db)
  <1> DEFINE new == Handle(d, r).db
  <1>1. new \in Db /\ 0 \in Id
    BY HandleType, MaxIdNat DEF Outcome
  <1> DEFINE Goal == NoNewItem(d, new) \/ NewEpicOnly(d, new)
                     \/ \E e \in Id : NewStoryOnly(d, new, e)
  <1>2. Goal
    <2>1. CASE ~IsAddition(r)
      BY <2>1, OthersAddNothing
    <2>2. CASE IsAddition(r)
      <3>1. r \in Request
        BY <2>2 DEF IsAddition, NewClient
      <3>2. NoNewItem(d, d)
        BY DEF NoNewItem
      <3> QED BY <2>2, <3>1, <3>2, AdditionFacts, AddEpicItems, AddStoryItems
    <2> QED BY <2>1, <2>2
  <1>3. UniqueIds(new) /\ NewIdsAreFresh(d, new)
    <2> HIDE DEF new
    <2> QED BY <1>1, <1>2, UniqueIdsKept
  <1> QED BY <1>3
=============================================================================
