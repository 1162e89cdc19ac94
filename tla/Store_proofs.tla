---------------------------- MODULE Store_proofs ----------------------------
(***************************************************************************)
(* What the files hold, for any number of ids, any requests, crashes,      *)
(* failed writes and restarts.                                             *)
(***************************************************************************)
EXTENDS Store, Database_proofs, WellFoundedInduction

\* A set of naturals has a least element.
LEMMA LeastExists ==
  ASSUME NEW T \in SUBSET Nat, T # {}
  PROVE  \E x \in T : \A y \in T : x <= y
  <1> DEFINE R == {ss \in Nat \X Nat : ss[1] < ss[2]}
  <1>1. IsWellFoundedOn(R, Nat)
    BY NatLessThanWellFounded DEF OpToRel
  <1>2. \A a, b \in Nat : a < b => <<a, b>> \in R
    OBVIOUS
  <1> HIDE DEF R
  <1>3. PICK x \in T : \A y \in T : ~ (<<y, x>> \in R)
    BY <1>1, WFMin
  <1>4. \A y \in T : ~(y < x)
    BY <1>2, <1>3
  <1> QED BY <1>4

\* A set of ids has a largest one.
LEMMA LargestExists ==
  ASSUME NEW S \in SUBSET Id, S # {}
  PROVE  Max(S) \in S /\ \A y \in S : Max(S) >= y
  <1> DEFINE T == {n \in Nat : \E s \in S : n = MaxId - s}
  <1>1. \A s \in S : s \in Nat /\ MaxId - s \in T /\ s = MaxId - (MaxId - s)
    BY MaxIdAssumption DEF Id
  <1>2. PICK x \in T : \A y \in T : x <= y
    BY <1>1, LeastExists
  <1>3. PICK m \in S : x = MaxId - m
    BY <1>2
  <1>4. \A y \in S : m >= y
    BY <1>1, <1>2, <1>3, MaxIdAssumption
  <1> QED BY <1>3, <1>4 DEF Max

-----------------------------------------------------------------------------
\* What a request that writes does to the database.  An addition or a deletion
\* of an epic writes everything; any other request changes one epic, which was
\* there and stays, and writes that.
LEMMA ChangeFacts ==
  ASSUME NEW d \in Db, NEW r \in Request, Handle(d, r).write # "none"
  PROVE  LET o == Handle(d, r)
         IN  /\ o.db \in Db
             /\ Whole(r) => o.write = "after"
             /\ o.write = "around" => r.op = "AddStory"
             /\ ~Whole(r) => /\ r.epic \in Epics(d)
                             /\ r.epic \in Epics(o.db)
                             /\ \A e \in Id \ {r.epic} : o.db.epics[e] = d.epics[e]
  <1> DEFINE o == Handle(d, r)
  <1>1. o.db \in Db
    BY HandleType DEF Outcome
  <1> DEFINE Goal ==
        /\ Whole(r) => o.write = "after"
        /\ o.write = "around" => r.op = "AddStory"
        /\ ~Whole(r) => /\ r.epic \in Id /\ HasEpic(d, r.epic) /\ HasEpic(o.db, r.epic)
                        /\ \A e \in Id \ {r.epic} : o.db.epics[e] = d.epics[e]
  <1>2. Goal
    <2>1. CASE r.op = "Unparseable"
      BY <2>1 DEF Handle, UnparseableHandler, Unchanged
    <2>2. CASE r.op = "AddEpic"
      BY <2>2 DEF Handle, AddEpicHandler, Changed, Whole
    <2>3. CASE r \in [op : {"DeleteEpic"}, epic : Id]
      BY <2>3 DEF Handle, DeleteEpicHandler, Changed, Unchanged, Whole
    <2>4. CASE r \in [op : {"GetEpic"}, epic : Id]
      BY <2>4 DEF Handle, GetEpicHandler, Unchanged
    <2>5. CASE r \in [op : {"GetStory"}, epic : Id, story : Id]
      BY <2>5 DEF Handle, GetStoryHandler, Unchanged
    <2>6. CASE r \in [op : {"AddStory"}, epic : Id]
      <3>1. o = AddStoryHandler(d, r.epic) /\ r.epic \in Id
        BY <2>6 DEF Handle
      <3>2. HasEpic(d, r.epic) /\ o.db = AddStory(d, r.epic)
        BY <3>1 DEF AddStoryHandler, Unchanged
      <3>3. AddStory(d, r.epic).epics[r.epic] \in Epic
        BY <3>1, <3>2, AddStoryType
      <3>4. \A e \in Id : e # r.epic => AddStory(d, r.epic).epics[e] = d.epics[e]
        BY DEF AddStory, TakeId, Db, Map
      <3> QED BY <2>6, <3>1, <3>2, <3>3, <3>4, AbsentAssumption DEF HasEpic, Whole
    <2>7. CASE r \in [op : {"UpdateEpicStatus"}, epic : Id, status : Status]
      <3>1. o = UpdateEpicStatusHandler(d, r.epic, r.status) /\ r.epic \in Id
        BY <2>7 DEF Handle
      <3>2. HasEpic(d, r.epic) /\ o.db = SetEpicStatus(d, r.epic, r.status) /\ o.write = "after"
        BY <3>1 DEF UpdateEpicStatusHandler, Unchanged, Changed
      <3>3. /\ SetEpicStatus(d, r.epic, r.status).epics[r.epic] \in Epic
            /\ \A e \in Id \ {r.epic} :
                 SetEpicStatus(d, r.epic, r.status).epics[e] = d.epics[e]
        BY <2>7, <3>2, SetEpicStatusType DEF SetEpicStatus, Db, Map
      <3> QED BY <2>7, <3>1, <3>2, <3>3, AbsentAssumption DEF HasEpic, Whole
    <2> DEFINE SetStory(v) == [d EXCEPT !.epics[r.epic].stories[r.story] = v]
    <2>8. ASSUME NEW v \in Status \cup {Absent}, r.epic \in Id, r.story \in Id,
                 HasEpic(d, r.epic), o.db = SetStory(v), ~Whole(r), o.write = "after"
          PROVE  Goal
      <3>1. SetStory(v).epics[r.epic] \in Epic
        BY <2>8, SetStoryType
      <3>2. \A e \in Id \ {r.epic} : SetStory(v).epics[e] = d.epics[e]
        BY <2>8 DEF Db, Map
      <3> QED BY <2>8, <3>1, <3>2, AbsentAssumption DEF HasEpic
    <2>9. CASE r \in [op : {"DeleteStory"}, epic : Id, story : Id]
      <3>1. o = DeleteStoryHandler(d, r.epic, r.story)
        BY <2>9 DEF Handle
      <3>2. HasStory(d, r.epic, r.story) /\ o.db = SetStory(Absent) /\ o.write = "after"
        BY <3>1 DEF DeleteStoryHandler, Unchanged, Changed, DeleteStory
      <3> QED BY <2>8, <2>9, <3>2 DEF HasStory, Whole
    <2>10. CASE r \in [op : {"UpdateStoryStatus"}, epic : Id, story : Id, status : Status]
      <3>1. o = UpdateStoryStatusHandler(d, r.epic, r.story, r.status)
        BY <2>10 DEF Handle
      <3>2. HasStory(d, r.epic, r.story) /\ o.db = SetStory(r.status) /\ o.write = "after"
        BY <3>1 DEF UpdateStoryStatusHandler, Unchanged, Changed, SetStoryStatus
      <3> QED BY <2>8, <2>10, <3>2 DEF HasStory, Whole
    <2> QED BY <2>1, <2>2, <2>3, <2>4, <2>5, <2>6, <2>7, <2>9, <2>10 DEF Request
  <1> QED BY <1>1, <1>2 DEF Epics

-----------------------------------------------------------------------------
(***************************************************************************)
(* The inductive invariant: types, where a handler can be (Control), and   *)
(* what the files hold at each step of it while the server is up           *)
(* (FilesRight).                                                           *)
(***************************************************************************)
Control ==
  /\ cur # Absent => cur \in Epics(mem) \ todo
  /\ todo \subseteq Epics(mem)
  /\ open => at \in {"first", "write"} /\ cur # Absent
  /\ at = "idle" => cur = Absent
  /\ at # "write" => todo = {}
  /\ at = "first" => ~whole
  /\ at = "truncate" => whole
  /\ whole /\ at # "write" => cur = Absent
  /\ ~whole => todo = {} /\ (at # "idle" => cur # Absent)

\* In the write of the whole database: the epics whose turn has been are there.
WrittenAreThere == \A e \in Lined \ {cur} : files[e] = mem.epics[e]

\* In a handler that writes one epic: the others are there, and this one is as
\* it was or as it will be.
OthersAreThere ==
  /\ index = [lines |-> Epics(mem), torn |-> FALSE]
  /\ Epics(prior) = Epics(mem)
  /\ \A e \in Epics(mem) \ {cur} : mem.epics[e] = prior.epics[e]
  /\ \A e \in Epics(mem) \ (unwritten \cup {cur}) : files[e] = mem.epics[e]
  /\ ~open /\ cur \notin unwritten => files[cur] \in {mem.epics[cur], prior.epics[cur]}

FilesRight ==
  server = "up" =>
    /\ at = "idle" => FilesHold(mem)
    /\ whole /\ at \in {"reply", "truncate"} => FilesHold(prior)
    /\ whole /\ at = "write" => WrittenAreThere
    /\ ~whole /\ at # "idle" => OthersAreThere

Inv == TypeOK /\ Control /\ FilesRight

LEMMA SomeStoriesType == \A e \in Epic : SomeStories(e) \subseteq Epic
  BY DEF SomeStories, Epic, Map

\* A write that stops half-way leaves files of the right type, and changes no
\* file but the one that is open.
LEMMA FilesCutFacts ==
  ASSUME TypeOK, Control, FilesCut
  PROVE  /\ files' \in [Id -> Epic \cup {Absent, Torn}]
         /\ \A e \in Id : e # cur \/ ~open => files'[e] = files[e]
  <1>1. CASE ~open
    BY <1>1 DEF FilesCut, TypeOK
  <1>2. CASE open
    <2>1. cur \in Id /\ mem.epics[cur] \in Epic
      BY <1>2, LookupType DEF Control, Epics, TypeOK
    <2>2. PICK f \in CutFile : files' = [files EXCEPT ![cur] = f]
      BY <1>2 DEF FilesCut
    <2>3. f \in Epic \cup {Torn}
      BY <2>1, SomeStoriesType DEF CutFile
    <2>4. files' \in [Id -> Epic \cup {Absent, Torn}]
      BY <2>2, <2>3 DEF TypeOK
    <2>5. \A e \in Id : e # cur => files'[e] = files[e]
      BY <2>2 DEF TypeOK
    <2> QED BY <1>2, <2>4, <2>5
  <1> QED BY <1>1, <1>2

LEMMA LargestIsLast ==
  /\ LargestId(OnDisk) \in Id
  /\ \A i \in EpicIds(OnDisk) \cup StoryIds(OnDisk) : i <= LargestId(OnDisk)
  <1>1. {0} \cup EpicIds(OnDisk) \cup StoryIds(OnDisk) \subseteq Id
    BY MaxIdNat DEF EpicIds, StoryIds
  <1>2. \A i \in Id : i \in Nat
    BY MaxIdAssumption DEF Id
  <1> QED BY <1>1, <1>2, LargestExists DEF LargestId

\* What a restart loads is a database.
LEMMA LoadedType ==
  ASSUME TypeOK, Readable
  PROVE  Loaded \in Db
  <1>1. OnDisk \in Map(Epic)
    BY DEF OnDisk, Readable, TypeOK, Index, Map
  <1> QED BY <1>1, LargestIsLast DEF Loaded, Db

LEMMA InitInv == Init => Inv
  <1> SUFFICES ASSUME Init PROVE Inv
    OBVIOUS
  <1>1. EmptyDb \in Db /\ Epics(EmptyDb) = {}
    BY MaxIdNat DEF EmptyDb, Db, Map, NoEntries, Epics, HasEpic
  <1>2. TypeOK
    BY <1>1 DEF Init, TypeOK, Steps, Index, NoLines, NoEntries
  <1>3. Control /\ FilesRight
    BY <1>1 DEF Init, Control, FilesRight, FilesHold, NoLines
  <1> QED BY <1>2, <1>3 DEF Inv

LEMMA StutterInv ==
  ASSUME Inv, UNCHANGED vars
  PROVE  Inv'
  BY DEF Inv, vars, TypeOK, Control, FilesRight, FilesHold, WrittenAreThere, OthersAreThere,
         Lined, Epics, HasEpic

LEMMA ChangeInv ==
  ASSUME Inv, NEW r \in Requests, Change(r)
  PROVE  Inv'
  <1> DEFINE o == Handle(mem, r)
  <1>1. /\ server = "up" /\ at = "idle" /\ o.write # "none"
        /\ mem' = o.db /\ prior' = mem /\ told' = FALSE /\ whole' = Whole(r)
        /\ cur' = (IF Whole(r) THEN Absent ELSE r.epic)
        /\ at' = (IF o.write = "around" THEN "first" ELSE "reply")
        /\ UNCHANGED <<unwritten, server, todo, open, index, files>>
    BY DEF Change
  <1>2. r \in Request /\ mem \in Db
    BY RequestsAssumption DEF Inv, TypeOK
  <1>3. /\ o.db \in Db
        /\ Whole(r) => o.write = "after"
        /\ ~Whole(r) => /\ r.epic \in Epics(mem)
                        /\ r.epic \in Epics(o.db)
                        /\ \A e \in Id \ {r.epic} : o.db.epics[e] = mem.epics[e]
    BY <1>1, <1>2, ChangeFacts
  <1> HIDE DEF o
  <1>4. Whole(r) \in BOOLEAN /\ (~Whole(r) => r.epic \in Id)
    BY <1>3 DEF Whole, Epics
  <1>5. TypeOK'
    BY <1>1, <1>3, <1>4 DEF Inv, TypeOK, Steps
  <1>6. todo = {} /\ ~open
    BY <1>1 DEF Inv, Control
  <1>7. Absent \notin Epics(mem)
    BY AbsentAssumption DEF Epics
  <1>8. Control'
    BY <1>1, <1>3, <1>6, <1>7 DEF Control, Epics, HasEpic
  <1>9. FilesHold(mem)
    BY <1>1 DEF Inv, FilesRight
  <1>10. CASE Whole(r)
    <2>1. FilesHold(prior)'
      BY <1>1, <1>9 DEF FilesHold, Epics, HasEpic
    <2> QED BY <1>1, <1>3, <1>5, <1>8, <1>10, <2>1 DEF Inv, FilesRight
  <1>11. CASE ~Whole(r)
    <2>1. Epics(o.db) = Epics(mem)
      BY <1>3, <1>11 DEF Epics, HasEpic
    <2>2. OthersAreThere'
      BY <1>1, <1>3, <1>6, <1>9, <1>11, <2>1
         DEF OthersAreThere, FilesHold, Epics, HasEpic
    <2> QED BY <1>1, <1>5, <1>8, <1>11, <2>2 DEF Inv, FilesRight
  <1> QED BY <1>10, <1>11

LEMMA ReplySentInv ==
  ASSUME Inv, ReplySent
  PROVE  Inv'
  <1>1. TypeOK' /\ Control'
    BY DEF Inv, ReplySent, TypeOK, Steps, Control, Epics, HasEpic
  <1>2. FilesRight'
    BY DEF Inv, ReplySent, FilesRight, FilesHold, OthersAreThere, Control, Epics, HasEpic
  <1> QED BY <1>1, <1>2 DEF Inv

LEMMA TruncateIndexInv ==
  ASSUME Inv, TruncateIndex
  PROVE  Inv'
  <1>1. TypeOK' /\ Control'
    BY DEF Inv, TruncateIndex, TypeOK, Steps, Index, NoLines, Control, Epics, HasEpic
  <1>2. FilesRight'
    BY DEF Inv, TruncateIndex, FilesRight, WrittenAreThere, Lined, Control, Epics, HasEpic
  <1> QED BY <1>1, <1>2 DEF Inv

LEMMA BufferLineInv ==
  ASSUME Inv, NEW e \in Id, BufferLine(e)
  PROVE  Inv'
  <1>1. index' \in Index
    BY DEF Inv, BufferLine, Spill, Lined, Epics, TypeOK, Index
  <1>2. TypeOK' /\ Control'
    BY <1>1 DEF Inv, BufferLine, TypeOK, Control, Epics, HasEpic
  <1>3. FilesRight'
    BY AbsentAssumption DEF Inv, BufferLine, FilesRight, WrittenAreThere, Lined, Epics, HasEpic
  <1> QED BY <1>2, <1>3 DEF Inv

LEMMA OpenFileInv ==
  ASSUME Inv, OpenFile
  PROVE  Inv'
  <1>1. cur \in Id /\ \A e \in Id : e # cur => files'[e] = files[e]
    BY DEF Inv, OpenFile, Control, Epics, TypeOK
  <1>2. TypeOK' /\ Control'
    BY DEF Inv, OpenFile, TypeOK, Control, Epics, HasEpic
  <1>3. whole /\ at = "write" => WrittenAreThere'
    BY <1>1 DEF Inv, OpenFile, FilesRight, WrittenAreThere, Lined, Epics, HasEpic
  <1>4. ~whole => OthersAreThere'
    BY <1>1 DEF Inv, OpenFile, FilesRight, OthersAreThere, Epics, HasEpic
  <1>5. FilesRight'
    BY <1>3, <1>4 DEF OpenFile, FilesRight
  <1> QED BY <1>2, <1>5 DEF Inv

\* The flush of an epic's file.
LEMMA FlushFileFacts ==
  ASSUME Inv, FlushFile
  PROVE  /\ cur \in Epics(mem) \ todo
         /\ files' \in [Id -> Epic \cup {Absent, Torn}]
         /\ files'[cur] = mem.epics[cur]
         /\ \A e \in Id : e # cur => files'[e] = files[e]
  <1>1. cur \in Epics(mem) \ todo
    BY DEF Inv, FlushFile, Control
  <1>2. mem.epics[cur] \in Epic /\ cur \in Id
    BY <1>1, LookupType DEF Inv, TypeOK, Epics
  <1> QED BY <1>1, <1>2 DEF Inv, FlushFile, TypeOK

LEMMA StoryWrittenInv ==
  ASSUME Inv, StoryWritten
  PROVE  Inv'
  <1>1. FlushFile
    BY DEF StoryWritten
  <1>2. TypeOK' /\ Control'
    <2>1. TypeOK'
      BY <1>1, FlushFileFacts DEF Inv, StoryWritten, FlushFile, TypeOK, Steps
    <2>2. Control'
      BY <1>1 DEF Inv, StoryWritten, FlushFile, Control, Epics, HasEpic
    <2> QED BY <2>1, <2>2
  <1>3. ~whole /\ OthersAreThere
    BY DEF Inv, StoryWritten, FlushFile, Control, FilesRight
  <1>4. OthersAreThere'
    BY <1>1, <1>3, FlushFileFacts DEF StoryWritten, FlushFile, OthersAreThere, Epics, HasEpic
  <1>5. FilesRight'
    BY <1>3, <1>4 DEF StoryWritten, FlushFile, FilesRight
  <1> QED BY <1>2, <1>5 DEF Inv

LEMMA EpicWrittenInv ==
  ASSUME Inv, EpicWritten
  PROVE  Inv'
  <1>1. FlushFile
    BY DEF EpicWritten
  <1>2. TypeOK' /\ Control'
    <2>1. TypeOK'
      BY <1>1, FlushFileFacts DEF Inv, EpicWritten, FlushFile, TypeOK, Steps
    <2>2. Control'
      BY <1>1 DEF Inv, EpicWritten, FlushFile, Control, Epics, HasEpic
    <2> QED BY <2>1, <2>2
  <1>3. CASE whole
    <2>1. WrittenAreThere'
      BY <1>1, <1>3, FlushFileFacts
         DEF Inv, EpicWritten, FlushFile, FilesRight, WrittenAreThere, Lined, Epics, HasEpic
    <2>2. FilesRight'
      BY <1>3, <2>1 DEF EpicWritten, FlushFile, FilesRight
    <2> QED BY <1>2, <2>2 DEF Inv
  <1>4. CASE ~whole
    <2>1. OthersAreThere
      BY <1>4 DEF Inv, EpicWritten, FlushFile, FilesRight
    <2>2. FilesHold(mem)'
      BY <1>1, <2>1, FlushFileFacts
         DEF EpicWritten, FlushFile, OthersAreThere, FilesHold, Epics, HasEpic
    <2>3. FilesRight'
      BY <1>4, <2>2 DEF EpicWritten, FlushFile, FilesRight
    <2> QED BY <1>2, <2>3 DEF Inv
  <1> QED BY <1>3, <1>4

LEMMA FlushIndexInv ==
  ASSUME Inv, FlushIndex
  PROVE  Inv'
  <1>1. TypeOK'
    BY DEF Inv, FlushIndex, TypeOK, Steps, Index, Epics
  <1>2. Control'
    BY DEF Inv, FlushIndex, Control, Epics, HasEpic
  <1>3. FilesHold(mem)'
    BY AbsentAssumption
       DEF Inv, FlushIndex, FilesRight, WrittenAreThere, Lined, FilesHold, Epics, HasEpic
  <1>4. FilesRight'
    BY <1>3 DEF FlushIndex, FilesRight
  <1> QED BY <1>1, <1>2, <1>4 DEF Inv

LEMMA StoryWriteFailsInv ==
  ASSUME Inv, StoryWriteFails
  PROVE  Inv'
  <1>1. ~whole /\ OthersAreThere /\ cur \in Epics(mem)
    BY DEF Inv, StoryWriteFails, Control, FilesRight
  <1>2. /\ files' \in [Id -> Epic \cup {Absent, Torn}]
        /\ \A e \in Id : e # cur => files'[e] = files[e]
    BY FilesCutFacts DEF Inv, StoryWriteFails
  <1>3. TypeOK'
    BY <1>1, <1>2 DEF Inv, StoryWriteFails, TypeOK, Steps, Epics
  <1>4. Control'
    BY <1>1 DEF Inv, StoryWriteFails, Control, Epics, HasEpic
  <1>5. FilesHold(mem)'
    BY <1>1, <1>2 DEF StoryWriteFails, OthersAreThere, FilesHold, Epics, HasEpic
  <1>6. FilesRight'
    BY <1>5 DEF StoryWriteFails, FilesRight
  <1> QED BY <1>3, <1>4, <1>6 DEF Inv

LEMMA CrashInv ==
  ASSUME Inv, Crash
  PROVE  Inv'
  <1>1. index' \in Index
    BY DEF Inv, Crash, IndexCut, CutIndex, TypeOK
  <1>2. TypeOK'
    BY <1>1, FilesCutFacts DEF Inv, Crash, TypeOK
  <1>3. Control' /\ FilesRight'
    BY DEF Inv, Crash, Control, FilesRight, Epics, HasEpic
  <1> QED BY <1>2, <1>3 DEF Inv

LEMMA RestartInv ==
  ASSUME Inv, Restart
  PROVE  Inv'
  <1>1. Loaded \in Db
    BY LoadedType DEF Inv, Restart
  <1>2. TypeOK' /\ Control'
    BY <1>1 DEF Inv, Restart, TypeOK, Steps, Control
  <1>3. Epics(Loaded) = index.lines /\ \A e \in index.lines : Loaded.epics[e] = files[e]
    BY DEF Inv, Restart, Readable, TypeOK, Index, Loaded, OnDisk, Epics, HasEpic
  <1>4. index = [lines |-> Epics(Loaded), torn |-> FALSE]
    BY <1>3 DEF Inv, Restart, Readable, TypeOK, Index
  <1>5. FilesHold(mem)'
    BY <1>3, <1>4 DEF Restart, FilesHold, Epics, HasEpic
  <1>6. FilesRight'
    BY <1>5 DEF Restart, FilesRight
  <1> QED BY <1>2, <1>6 DEF Inv

LEMMA RestartRefusedInv ==
  ASSUME Inv, RestartRefused
  PROVE  Inv'
  BY DEF Inv, RestartRefused, TypeOK, Control, FilesRight, Epics, HasEpic

LEMMA InvHolds == Spec => []Inv
  <1>1. Inv /\ [Next]_vars => Inv'
    BY StutterInv, ChangeInv, ReplySentInv, TruncateIndexInv, BufferLineInv, OpenFileInv,
       StoryWrittenInv, EpicWrittenInv, FlushIndexInv, StoryWriteFailsInv, CrashInv,
       RestartInv, RestartRefusedInv
       DEF Next
  <1> QED BY <1>1, InitInv, PTL DEF Spec

-----------------------------------------------------------------------------
\* Every variable keeps its type; in particular what load makes of the files
\* is a database, with a last id in the range of ids.
THEOREM StoreTypeCorrect == Spec => []TypeOK
  <1>1. Inv => TypeOK
    BY DEF Inv
  <1> QED BY <1>1, InvHolds, PTL

\* Between writes the index and the files are a whole database, that of the
\* server or that before its last change, whatever came before.
THEOREM SettledFilesAreAlwaysWhole == Spec => []SettledFilesAreWhole
  <1>1. Inv => SettledFilesAreWhole
    <2> SUFFICES ASSUME Inv, server = "up", Settled
                 PROVE  FilesHold(mem) \/ (at # "idle" /\ FilesHold(prior))
      BY DEF SettledFilesAreWhole
    <2>1. CASE at = "idle"
      BY <2>1 DEF Inv, FilesRight
    <2>2. CASE whole /\ at # "idle"
      BY <2>2 DEF Inv, FilesRight, Control, Settled, TypeOK, Steps
    <2>3. CASE ~whole /\ at # "idle"
      BY <2>3 DEF Inv, FilesRight, OthersAreThere, FilesHold, Settled
    <2> QED BY <2>1, <2>2, <2>3
  <1> QED BY <1>1, InvHolds, PTL

-----------------------------------------------------------------------------
(***************************************************************************)
(* Ids after restarts.  What load finds is read from files that several    *)
(* runs of the server wrote at different times.  It is unique because all  *)
(* items in the files that the index names, and all in mem and in prior,   *)
(* are at any time among those of one database with unique ids, the larger *)
(* of mem and prior.                                                       *)
(***************************************************************************)
FileWithin(f, e, db) ==
  f \notin {Absent, Torn} =>
    HasEpic(db, e) /\ \A s \in Id : f.stories[s] # Absent => HasStory(db, e, s)

EpicsWithin(d, db) == \A e \in Id : FileWithin(d.epics[e], e, db)

DiskWithin(db) == \A e \in index.lines : FileWithin(files[e], e, db)

HoldsAll(db) ==
  UniqueIds(db) /\ EpicsWithin(mem, db) /\ EpicsWithin(prior, db) /\ DiskWithin(db)

IdsInv ==
  /\ UniqueIds(mem)
  /\ \E db \in {mem, prior} : HoldsAll(db)
  /\ server = "up" =>
       /\ at \in {"idle", "first"} => DiskWithin(mem)
       /\ ~whole => \A e \in index.lines \ {cur} : FileWithin(files[e], e, mem)

LEMMA WithinItself ==
  ASSUME NEW d \in Db, NEW e \in Id
  PROVE  FileWithin(d.epics[e], e, d)
  BY DEF FileWithin, HasEpic, HasStory

\* All items of d are items of db.
Contains(db, d) ==
  /\ \A e \in Id : HasEpic(d, e) => HasEpic(db, e)
  /\ \A e, s \in Id : HasStory(d, e, s) => HasStory(db, e, s)

LEMMA WithinMore ==
  ASSUME NEW db, NEW d, Contains(db, d), NEW f, NEW e \in Id, FileWithin(f, e, d)
  PROVE  FileWithin(f, e, db)
  BY DEF Contains, FileWithin

LEMMA EpicsWithinMore ==
  ASSUME NEW db, NEW d \in Db, Contains(db, d)
  PROVE  EpicsWithin(d, db)
  BY WithinItself, WithinMore DEF EpicsWithin

\* A file that was cut half-way has no item that the epic has not.
LEMMA CutWithin ==
  ASSUME NEW d \in Db, NEW db, EpicsWithin(d, db), NEW e \in Epics(d),
         NEW f \in SomeStories(d.epics[e])
  PROVE  FileWithin(f, e, db)
  <1>1. e \in Id /\ d.epics[e] \in Epic
    BY LookupType DEF Epics
  <1>2. FileWithin(d.epics[e], e, db) /\ d.epics[e] \notin {Absent, Torn}
    BY <1>1, AbsentAssumption, FileAssumption DEF EpicsWithin
  <1>3. \A s \in Id : f.stories[s] # Absent => d.epics[e].stories[s] # Absent
    BY <1>1 DEF SomeStories, Epic, Map
  <1> QED BY <1>2, <1>3 DEF FileWithin

\* An addition loses nothing.
LEMMA AdditionContains ==
  ASSUME NEW d \in Db, NEW r \in Request, IsAddition(r), UniqueIds(d), d.last < MaxId
  PROVE  Contains(Handle(d, r).db, d)
  <1> DEFINE n == NextId(d)
  <1>1. n \in Id /\ ~HasEpic(d, n) /\ \A e \in Id : ~HasStory(d, e, n)
    <2>1. d.last \in Nat /\ n = d.last + 1 /\ n \in Id
      BY NextIdIsNext, NextIdType, MaxIdAssumption DEF Db, Id
    <2> QED BY <2>1 DEF UniqueIds
  <1>2. CASE Handle(d, r).db = AddEpic(d)
    <2>1. \A e \in Id : e # n => AddEpic(d).epics[e] = d.epics[e]
      BY DEF AddEpic, Db, Map
    <2> HIDE DEF n
    <2> QED BY <1>1, <1>2, <2>1 DEF Contains, HasEpic, HasStory
  <1>3. CASE r.epic \in Id /\ HasEpic(d, r.epic) /\ Handle(d, r).db = AddStory(d, r.epic)
    <2> DEFINE a == AddStory(d, r.epic)
    <2>1. \A e \in Id : e # r.epic => a.epics[e] = d.epics[e]
      BY DEF AddStory, TakeId, Db, Map
    <2>2. a.epics[r.epic] = [d.epics[r.epic] EXCEPT !.stories[n] = "Open"]
      BY <1>3 DEF AddStory, TakeId, Db, Map
    <2>3. \A s \in Id : s # n => a.epics[r.epic].stories[s] = d.epics[r.epic].stories[s]
      BY <1>3, <2>2, LookupType DEF Epic, Map
    <2>4. HasEpic(a, r.epic)
      BY <1>3, AddStoryType, AbsentAssumption DEF HasEpic
    <2> HIDE DEF n, a
    <2> QED BY <1>1, <1>3, <2>1, <2>3, <2>4 DEF a, Contains, HasEpic, HasStory
  <1>4. CASE Handle(d, r).db = d
    BY <1>4 DEF Contains
  <1> QED BY <1>2, <1>3, <1>4, AdditionFacts

\* The step of a write keeps what holds all if the files it leaves are within.
LEMMA IdsKept ==
  ASSUME Inv, NEW db \in {mem, prior}, HoldsAll(db), UNCHANGED <<mem, prior>>,
         \A e \in index'.lines : FileWithin(files'[e], e, db)
  PROVE  \E d \in {mem', prior'} : HoldsAll(d)'
  BY DEF HoldsAll, EpicsWithin, DiskWithin

LEMMA InitIds == Init => IdsInv
  <1> SUFFICES ASSUME Init PROVE IdsInv
    OBVIOUS
  <1>1. \A e, s \in Id : ~HasEpic(EmptyDb, e) /\ ~HasStory(EmptyDb, e, s)
    BY DEF EmptyDb, NoEntries, HasEpic, HasStory
  <1>2. UniqueIds(EmptyDb)
    BY <1>1 DEF UniqueIds
  <1>3. EpicsWithin(EmptyDb, EmptyDb)
    BY DEF EpicsWithin, FileWithin, EmptyDb, NoEntries
  <1> QED BY <1>2, <1>3 DEF Init, IdsInv, HoldsAll, DiskWithin, NoLines

LEMMA ChangeIds ==
  ASSUME Inv, IdsInv, NEW r \in Requests, Change(r)
  PROVE  IdsInv'
  <1> DEFINE o == Handle(mem, r)
  <1>1. /\ server = "up" /\ at = "idle" /\ o.write # "none"
        /\ mem' = o.db /\ prior' = mem /\ whole' = Whole(r)
        /\ cur' = (IF Whole(r) THEN Absent ELSE r.epic)
        /\ at' = (IF o.write = "around" THEN "first" ELSE "reply")
        /\ r.op \in {"AddEpic", "AddStory"} => mem.last < MaxId
        /\ UNCHANGED <<index, files>>
    BY DEF Change
  <1>2. r \in Request /\ mem \in Db /\ UniqueIds(mem)
    BY RequestsAssumption DEF Inv, TypeOK, IdsInv
  <1>3. /\ o.db \in Db
        /\ o.write = "around" => IsAddition(r)
        /\ ~Whole(r) => \A e \in Id \ {r.epic} : o.db.epics[e] = mem.epics[e]
    BY <1>1, <1>2, ChangeFacts DEF IsAddition
  <1>4. DiskWithin(mem)
    BY <1>1 DEF IdsInv
  <1>5. index.lines \subseteq Id
    BY DEF Inv, TypeOK, Index
  <1>6. UniqueIds(o.db)
    <2>1. CASE IsAddition(r)
      BY <1>1, <1>2, <2>1, HandleKeepsIdsUnique DEF IsAddition
    <2>2. CASE ~IsAddition(r)
      BY <1>2, <2>2, OthersKeepIdsUnique
    <2> QED BY <2>1, <2>2
  <1>7. IsAddition(r) => Contains(o.db, mem)
    BY <1>1, <1>2, AdditionContains DEF IsAddition
  <1>8. ~IsAddition(r) => Contains(mem, o.db)
    BY <1>2, OthersAddNothing DEF NoNewItem, Contains
  <1> HIDE DEF o
  <1>9. IsAddition(r) => DiskWithin(o.db)
    BY <1>4, <1>5, <1>7, WithinMore DEF DiskWithin
  <1>10. Contains(o.db, o.db) /\ Contains(mem, mem)
    BY DEF Contains
  <1>11. EpicsWithin(o.db, o.db) /\ EpicsWithin(mem, mem)
    BY <1>2, <1>3, <1>10, EpicsWithinMore
  <1>12. \E db \in {o.db, mem} : /\ UniqueIds(db) /\ EpicsWithin(o.db, db)
                                 /\ EpicsWithin(mem, db) /\ DiskWithin(db)
    <2>1. CASE IsAddition(r)
      BY <1>2, <1>6, <1>7, <1>9, <1>11, <2>1, EpicsWithinMore
    <2>2. CASE ~IsAddition(r)
      BY <1>2, <1>3, <1>4, <1>8, <1>11, <2>2, EpicsWithinMore
    <2> QED BY <2>1, <2>2
  <1>13. (\E db \in {mem, prior} : HoldsAll(db))'
    BY <1>1, <1>12 DEF HoldsAll, EpicsWithin, DiskWithin
  <1>14. at' = "first" => DiskWithin(mem)'
    BY <1>1, <1>3, <1>9 DEF DiskWithin
  <1>15. ~whole' => \A e \in index.lines \ {cur'} : FileWithin(files[e], e, o.db)
    <2> SUFFICES ASSUME ~Whole(r), NEW e \in index.lines, e # r.epic
                 PROVE  FileWithin(files[e], e, o.db)
      BY <1>1
    <2>1. FileWithin(files[e], e, mem) /\ e \in Id /\ o.db.epics[e] = mem.epics[e]
      BY <1>3, <1>4, <1>5 DEF DiskWithin
    <2> QED BY <2>1 DEF FileWithin, HasEpic, HasStory
  <1> QED BY <1>1, <1>6, <1>13, <1>14, <1>15 DEF IdsInv

LEMMA ReplySentIds ==
  ASSUME Inv, IdsInv, ReplySent
  PROVE  IdsInv'
  <1>1. (\E db \in {mem, prior} : HoldsAll(db))'
    BY DEF ReplySent, IdsInv, HoldsAll, EpicsWithin, DiskWithin
  <1>2. UniqueIds(mem)'
    BY DEF ReplySent, IdsInv
  <1> QED BY <1>1, <1>2 DEF ReplySent, IdsInv, DiskWithin

LEMMA TruncateIndexIds ==
  ASSUME Inv, IdsInv, TruncateIndex
  PROVE  IdsInv'
  <1>1. index'.lines = {} /\ UNCHANGED <<mem, prior>>
    BY DEF TruncateIndex, NoLines
  <1>2. PICK db \in {mem, prior} : HoldsAll(db)
    BY DEF IdsInv
  <1>3. (\E d \in {mem, prior} : HoldsAll(d))'
    BY <1>1, <1>2, IdsKept
  <1>4. UniqueIds(mem)'
    BY <1>1 DEF IdsInv
  <1> QED BY <1>1, <1>3, <1>4 DEF IdsInv, DiskWithin

LEMMA BufferLineIds ==
  ASSUME Inv, IdsInv, NEW e \in Id, BufferLine(e)
  PROVE  IdsInv'
  <1>1. UNCHANGED <<mem, prior, files, whole, at>> /\ whole /\ at = "write" /\ cur = Absent
    BY DEF BufferLine
  <1>2. PICK db \in {mem, prior} : HoldsAll(db)
    BY DEF IdsInv
  <1>3. \A i \in Lined : FileWithin(files[i], i, db)
    <2>1. \A i \in Lined : i \in Id /\ files[i] = mem.epics[i]
      BY <1>1, AbsentAssumption DEF Inv, BufferLine, FilesRight, WrittenAreThere, Lined, Epics
    <2> QED BY <1>2, <2>1 DEF HoldsAll, EpicsWithin
  <1>4. index'.lines = index.lines \/ index'.lines = Lined
    BY DEF BufferLine, Spill, Inv, TypeOK, Index
  <1>5. \A i \in index'.lines : FileWithin(files'[i], i, db)
    BY <1>1, <1>2, <1>3, <1>4 DEF HoldsAll, DiskWithin
  <1>6. (\E d \in {mem, prior} : HoldsAll(d))'
    BY <1>1, <1>2, <1>5, IdsKept
  <1>7. UniqueIds(mem)'
    BY <1>1 DEF IdsInv
  <1> QED BY <1>1, <1>6, <1>7 DEF IdsInv

LEMMA OpenFileIds ==
  ASSUME Inv, IdsInv, OpenFile
  PROVE  IdsInv'
  <1>1. /\ UNCHANGED <<mem, prior, whole, at, index, cur, server>>
        /\ cur \in Id /\ files'[cur] = Torn
        /\ \A e \in Id : e # cur => files'[e] = files[e]
    BY DEF Inv, OpenFile, Control, Epics, TypeOK
  <1>2. index.lines \subseteq Id
    BY DEF Inv, TypeOK, Index
  <1>3. \A db : \A e \in index.lines :
        FileWithin(files[e], e, db) => FileWithin(files'[e], e, db)
    BY <1>1, <1>2 DEF FileWithin
  <1>4. PICK db \in {mem, prior} : HoldsAll(db)
    BY DEF IdsInv
  <1>5. (\E d \in {mem, prior} : HoldsAll(d))'
    BY <1>1, <1>3, <1>4, IdsKept DEF HoldsAll, DiskWithin
  <1>6. UniqueIds(mem)'
    BY <1>1 DEF IdsInv
  <1>7. (at \in {"idle", "first"} => DiskWithin(mem))'
    BY <1>1, <1>3 DEF OpenFile, IdsInv, DiskWithin
  <1>8. (~whole => \A e \in index.lines \ {cur} : FileWithin(files[e], e, mem))'
    BY <1>1, <1>3 DEF OpenFile, IdsInv
  <1> QED BY <1>5, <1>6, <1>7, <1>8 DEF IdsInv

\* The flush of an epic's file, whatever handler it is in.
LEMMA FlushFileIds ==
  ASSUME Inv, IdsInv, FlushFile
  PROVE  /\ UniqueIds(mem)'
         /\ (\E db \in {mem, prior} : HoldsAll(db))'
         /\ ~whole => DiskWithin(mem)'
  <1>1. UNCHANGED <<mem, prior, whole, index>> /\ server = "up"
    BY DEF FlushFile
  <1>2. cur \in Id /\ files'[cur] = mem.epics[cur] /\ \A e \in Id : e # cur => files'[e] = files[e]
    BY FlushFileFacts DEF Epics
  <1>3. index.lines \subseteq Id /\ mem \in Db
    BY DEF Inv, TypeOK, Index
  <1>4. PICK db \in {mem, prior} : HoldsAll(db)
    BY DEF IdsInv
  <1>5. \A e \in index'.lines : FileWithin(files'[e], e, db)
    BY <1>1, <1>2, <1>3, <1>4 DEF HoldsAll, DiskWithin, EpicsWithin
  <1>6. (\E d \in {mem, prior} : HoldsAll(d))'
    BY <1>1, <1>4, <1>5, IdsKept
  <1>7. ASSUME ~whole, NEW e \in index.lines
        PROVE  FileWithin(files'[e], e, mem)
    <2>1. CASE e = cur
      BY <1>2, <1>3, <2>1, WithinItself
    <2>2. CASE e # cur
      BY <1>1, <1>2, <1>3, <1>7, <2>2 DEF IdsInv
    <2> QED BY <2>1, <2>2
  <1>8. ~whole => DiskWithin(mem)'
    BY <1>1, <1>7 DEF DiskWithin
  <1>9. UniqueIds(mem)'
    BY <1>1 DEF IdsInv
  <1> QED BY <1>6, <1>8, <1>9

LEMMA StoryWrittenIds ==
  ASSUME Inv, IdsInv, StoryWritten
  PROVE  IdsInv'
  BY FlushFileIds DEF StoryWritten, FlushFile, IdsInv, DiskWithin

LEMMA EpicWrittenIds ==
  ASSUME Inv, IdsInv, EpicWritten
  PROVE  IdsInv'
  BY FlushFileIds DEF EpicWritten, FlushFile, IdsInv, DiskWithin

LEMMA FlushIndexIds ==
  ASSUME Inv, IdsInv, FlushIndex
  PROVE  IdsInv'
  <1>1. /\ UNCHANGED <<mem, prior, files, whole, server>> /\ whole
        /\ index'.lines = Epics(mem) /\ cur = Absent /\ todo = {} /\ server = "up" /\ at = "write"
    BY DEF FlushIndex
  <1>2. \A e \in Epics(mem) : e \in Id /\ files[e] = mem.epics[e]
    BY <1>1, AbsentAssumption DEF Inv, FilesRight, WrittenAreThere, Lined, Epics
  <1>3. PICK db \in {mem, prior} : HoldsAll(db)
    BY DEF IdsInv
  <1>4. \A e \in index'.lines : FileWithin(files'[e], e, db)
    BY <1>1, <1>2, <1>3 DEF HoldsAll, EpicsWithin
  <1>5. (\E d \in {mem, prior} : HoldsAll(d))'
    BY <1>1, <1>3, <1>4, IdsKept
  <1>6. DiskWithin(mem)'
    BY <1>1, <1>2, WithinItself DEF DiskWithin, Inv, TypeOK
  <1>7. UniqueIds(mem)'
    BY <1>1 DEF IdsInv
  <1> QED BY <1>1, <1>5, <1>6, <1>7 DEF IdsInv

\* A write of an epic's file that stops half-way leaves it within whatever the
\* epic is within.
LEMMA FilesCutWithin ==
  ASSUME Inv, FilesCut, NEW db, EpicsWithin(mem, db),
         NEW e \in Id, FileWithin(files[e], e, db)
  PROVE  FileWithin(files'[e], e, db)
  <1>1. CASE e # cur \/ ~open
    BY <1>1, FilesCutFacts DEF Inv
  <1>2. CASE e = cur /\ open
    <2>1. cur \in Epics(mem) /\ mem \in Db
      BY <1>2 DEF Inv, Control, TypeOK
    <2>2. PICK f \in CutFile : files' = [files EXCEPT ![cur] = f]
      BY <1>2 DEF FilesCut
    <2>3. files'[e] = f
      BY <1>2, <2>2 DEF Inv, TypeOK
    <2>4. CASE f = Torn
      BY <2>3, <2>4 DEF FileWithin
    <2>5. CASE f \in SomeStories(mem.epics[cur])
      BY <1>2, <2>1, <2>3, <2>5, CutWithin
    <2> QED BY <2>4, <2>5 DEF CutFile
  <1> QED BY <1>1, <1>2

LEMMA StoryWriteFailsIds ==
  ASSUME Inv, IdsInv, StoryWriteFails
  PROVE  IdsInv'
  <1>1. /\ UNCHANGED <<mem, prior, whole, index, server>> /\ server = "up" /\ at = "first"
        /\ at' = "idle" /\ FilesCut
    BY DEF StoryWriteFails
  <1>2. index.lines \subseteq Id /\ mem \in Db
    BY DEF Inv, TypeOK, Index
  <1>3. PICK db \in {mem, prior} : HoldsAll(db)
    BY DEF IdsInv
  <1>4. (\E d \in {mem, prior} : HoldsAll(d))'
    BY <1>1, <1>2, <1>3, FilesCutWithin, IdsKept DEF HoldsAll, DiskWithin
  <1>5. EpicsWithin(mem, mem)
    BY <1>2, WithinItself DEF EpicsWithin
  <1>6. DiskWithin(mem)
    BY <1>1 DEF IdsInv
  <1>7. \A e \in index.lines : FileWithin(files'[e], e, mem)
    BY <1>1, <1>2, <1>5, <1>6, FilesCutWithin DEF DiskWithin
  <1>8. UniqueIds(mem)'
    BY <1>1 DEF IdsInv
  <1> QED BY <1>1, <1>4, <1>7, <1>8 DEF IdsInv, DiskWithin

LEMMA CrashIds ==
  ASSUME Inv, IdsInv, Crash
  PROVE  IdsInv'
  <1>1. UNCHANGED <<mem, prior>> /\ FilesCut /\ IndexCut /\ server = "up" /\ server' = "down"
    BY DEF Crash
  <1>2. PICK db \in {mem, prior} : HoldsAll(db)
    BY DEF IdsInv
  <1>3. index'.lines \subseteq Id /\ index.lines \subseteq Id
    BY <1>1 DEF Inv, TypeOK, Index, IndexCut, CutIndex
  <1>4. ASSUME NEW e \in index'.lines
        PROVE  FileWithin(files[e], e, db)
    <2>1. CASE e \in index.lines
      BY <1>2, <2>1 DEF HoldsAll, DiskWithin
    <2>2. CASE e \notin index.lines
      <3>1. at = "write" /\ whole /\ cur = Absent /\ e \in Lined
        BY <1>1, <2>2 DEF IndexCut, CutIndex
      <3>2. e \in Id /\ files[e] = mem.epics[e]
        BY <1>1, <3>1, AbsentAssumption DEF Inv, FilesRight, WrittenAreThere, Lined, Epics
      <3> QED BY <1>2, <3>2 DEF HoldsAll, EpicsWithin
    <2> QED BY <2>1, <2>2
  <1>5. \A e \in index'.lines : FileWithin(files'[e], e, db)
    BY <1>1, <1>2, <1>3, <1>4, FilesCutWithin DEF HoldsAll
  <1>6. (\E d \in {mem, prior} : HoldsAll(d))'
    BY <1>1, <1>2, <1>5, IdsKept
  <1>7. UniqueIds(mem)'
    BY <1>1 DEF IdsInv
  <1> QED BY <1>1, <1>6, <1>7 DEF IdsInv

LEMMA RestartIds ==
  ASSUME Inv, IdsInv, Restart
  PROVE  IdsInv'
  <1>1. mem' = Loaded /\ prior' = Loaded /\ UNCHANGED <<index, files>> /\ Readable
    BY DEF Restart
  <1>2. Loaded \in Db
    BY <1>1, LoadedType DEF Inv
  <1>3. /\ Epics(Loaded) = index.lines
        /\ \A e \in index.lines : e \in Id /\ Loaded.epics[e] = files[e]
    BY <1>1 DEF Inv, Readable, TypeOK, Index, Loaded, OnDisk, Epics, HasEpic
  <1>4. PICK db \in {mem, prior} : HoldsAll(db)
    BY DEF IdsInv
  <1>5. Contains(db, Loaded)
    <2>1. \A e \in index.lines : FileWithin(files[e], e, db) /\ files[e] \notin {Absent, Torn}
      BY <1>1, <1>4 DEF HoldsAll, DiskWithin, Readable
    <2>2. \A e \in index.lines : /\ HasEpic(db, e)
                                 /\ \A s \in Id : Loaded.epics[e].stories[s] # Absent
                                                   => HasStory(db, e, s)
      BY <1>3, <2>1 DEF FileWithin
    <2>3. \A e \in Id : HasEpic(Loaded, e) => e \in index.lines
      BY <1>3 DEF Epics
    <2> QED BY <2>2, <2>3 DEF Contains, HasStory
  <1>6. \A i \in Id : HasEpic(Loaded, i) => i <= Loaded.last
    <2>1. \A i \in Id : HasEpic(Loaded, i) => i \in EpicIds(OnDisk)
      BY DEF Loaded, HasEpic, EpicIds
    <2> QED BY <2>1, LargestIsLast DEF Loaded
  <1>7. \A e, i \in Id : HasStory(Loaded, e, i) => i <= Loaded.last
    <2>1. \A e, i \in Id : HasStory(Loaded, e, i) => i \in StoryIds(OnDisk)
      BY DEF Loaded, HasStory, HasEpic, StoryIds, EpicIds
    <2> QED BY <2>1, LargestIsLast DEF Loaded
  <1>8. UniqueIds(Loaded)
    BY <1>4, <1>5, <1>6, <1>7 DEF HoldsAll, UniqueIds, Contains
  <1>9. EpicsWithin(Loaded, Loaded)
    BY <1>2, WithinItself DEF EpicsWithin
  <1>10. \A e \in index.lines : FileWithin(files[e], e, Loaded)
    BY <1>3, <1>9 DEF EpicsWithin
  <1> QED BY <1>1, <1>8, <1>9, <1>10 DEF Restart, IdsInv, HoldsAll, DiskWithin, EpicsWithin

LEMMA RestartRefusedIds ==
  ASSUME Inv, IdsInv, RestartRefused
  PROVE  IdsInv'
  BY DEF RestartRefused, IdsInv, HoldsAll, EpicsWithin, DiskWithin

LEMMA StutterIds ==
  ASSUME IdsInv, UNCHANGED vars
  PROVE  IdsInv'
  BY DEF vars, IdsInv, HoldsAll, EpicsWithin, DiskWithin

\* After any number of crashes in the middle of writes, failed writes and
\* restarts, no two epics or stories have the same id and none is above
\* last_unique_id.
THEOREM IdsAlwaysUnique == Spec => []IdsUnique
  <1>1. Inv /\ IdsInv /\ [Next]_vars => IdsInv'
    BY StutterIds, ChangeIds, ReplySentIds, TruncateIndexIds, BufferLineIds, OpenFileIds,
       StoryWrittenIds, EpicWrittenIds, FlushIndexIds, StoryWriteFailsIds, CrashIds,
       RestartIds, RestartRefusedIds
       DEF Next
  <1>2. IdsInv => IdsUnique
    BY DEF IdsInv, IdsUnique
  <1> QED BY <1>1, <1>2, InitIds, InvHolds, PTL DEF Spec

-----------------------------------------------------------------------------
(***************************************************************************)
(* The epics whose last write failed.  That write was an addition's, so    *)
(* what it left, the old file or the new one cut, is torn or holds some of *)
(* the stories that are now in memory.                                     *)
(***************************************************************************)
CutOf(epic) == {Torn} \cup SomeStories(epic)

FailedAreCut(fs, db, failed) ==
  \A e \in Epics(db) \cap failed : fs[e] \in CutOf(db.epics[e])

FailedInv ==
  server = "up" =>
    /\ at = "idle" => FailedAreCut(files, mem, unwritten)
    /\ whole /\ at \in {"reply", "truncate"} => FailedAreCut(files, prior, unwritten)
    /\ ~whole /\ at # "idle" =>
         /\ FailedAreCut(files, mem, unwritten \ {cur})
         /\ cur \in unwritten /\ ~open => files[cur] \in CutOf(prior.epics[cur])
    /\ at = "first" => SomeStories(prior.epics[cur]) \subseteq SomeStories(mem.epics[cur])

LEMMA AllStoriesAreSome ==
  ASSUME NEW epic \in Epic
  PROVE  epic \in SomeStories(epic)
  <1> DEFINE kept == {s \in Id : epic.stories[s] # Absent}
             same == [s \in Id |-> IF s \in kept THEN epic.stories[s] ELSE Absent]
  <1>1. epic.stories \in [Id -> Status \cup {Absent}]
    BY DEF Epic, Map
  <1>2. same = epic.stories
    BY <1>1
  <1>3. [epic EXCEPT !.stories = same] = epic
    BY <1>2 DEF Epic
  <1>4. kept \in SUBSET {s \in Id : epic.stories[s] # Absent}
    OBVIOUS
  <1> QED BY <1>3, <1>4 DEF SomeStories

\* Some of an epic's stories are some of those it has when one is added.
LEMMA AdditionHasSomeStories ==
  ASSUME NEW d \in Db, NEW e \in Id, HasEpic(d, e), UniqueIds(d), d.last < MaxId
  PROVE  SomeStories(d.epics[e]) \subseteq SomeStories(AddStory(d, e).epics[e])
  <1> DEFINE n   == NextId(d)
             old == d.epics[e]
             new == AddStory(d, e).epics[e]
  <1>1. n \in Id /\ ~HasStory(d, e, n)
    <2>1. d.last \in Nat /\ n = d.last + 1 /\ n \in Id
      BY NextIdIsNext, NextIdType, MaxIdAssumption DEF Db, Id
    <2> QED BY <2>1 DEF UniqueIds
  <1>2. old \in Epic
    BY LookupType
  <1>3. new = [old EXCEPT !.stories[n] = "Open"]
    BY DEF AddStory, TakeId, Db, Map
  <1>4. old.stories[n] = Absent
    BY <1>1 DEF HasStory
  <1> HIDE DEF n, old, new
  <1>5. /\ new.stories = [old.stories EXCEPT ![n] = "Open"]
        /\ \A v : [new EXCEPT !.stories = v] = [old EXCEPT !.stories = v]
    BY <1>2, <1>3 DEF Epic
  <1>6. \A s \in Id : s # n => new.stories[s] = old.stories[s]
    BY <1>2, <1>5 DEF Epic, Map
  <1>7. ASSUME NEW kept \in SUBSET {s \in Id : old.stories[s] # Absent}
        PROVE  [old EXCEPT !.stories = [s \in Id |-> IF s \in kept THEN old.stories[s] ELSE Absent]]
                 \in SomeStories(new)
    <2>1. n \notin kept
      BY <1>4
    <2>2. kept \in SUBSET {s \in Id : new.stories[s] # Absent}
      BY <1>6, <2>1
    <2>3. [s \in Id |-> IF s \in kept THEN old.stories[s] ELSE Absent]
            = [s \in Id |-> IF s \in kept THEN new.stories[s] ELSE Absent]
      BY <1>6, <2>1
    <2>4. [old EXCEPT !.stories = [s \in Id |-> IF s \in kept THEN old.stories[s] ELSE Absent]]
            = [new EXCEPT !.stories = [s \in Id |-> IF s \in kept THEN new.stories[s] ELSE Absent]]
      BY <1>5, <2>3
    <2> QED BY <2>2, <2>4 DEF SomeStories
  <1> QED BY <1>7 DEF SomeStories, old, new

LEMMA InitFailed == Init => FailedInv
  BY DEF Init, FailedInv, FailedAreCut

LEMMA ChangeFailed ==
  ASSUME Inv, IdsUnique, FailedInv, NEW r \in Requests, Change(r)
  PROVE  FailedInv'
  <1> DEFINE o == Handle(mem, r)
  <1>1. /\ server = "up" /\ at = "idle" /\ o.write # "none"
        /\ mem' = o.db /\ prior' = mem /\ whole' = Whole(r)
        /\ cur' = (IF Whole(r) THEN Absent ELSE r.epic)
        /\ at' = (IF o.write = "around" THEN "first" ELSE "reply")
        /\ r.op \in {"AddEpic", "AddStory"} => mem.last < MaxId
        /\ UNCHANGED <<unwritten, server, open, files>>
    BY DEF Change
  <1>2. r \in Request /\ mem \in Db /\ UniqueIds(mem)
    BY RequestsAssumption DEF Inv, TypeOK, IdsUnique
  <1>3. /\ Whole(r) => o.write = "after"
        /\ o.write = "around" => r.op = "AddStory"
        /\ ~Whole(r) => /\ r.epic \in Epics(mem)
                        /\ r.epic \in Epics(o.db)
                        /\ \A e \in Id \ {r.epic} : o.db.epics[e] = mem.epics[e]
    BY <1>1, <1>2, ChangeFacts
  <1>4. o.write = "around" =>
          SomeStories(mem.epics[r.epic]) \subseteq SomeStories(o.db.epics[r.epic])
    <2> SUFFICES ASSUME o.write = "around"
                 PROVE  SomeStories(mem.epics[r.epic]) \subseteq SomeStories(o.db.epics[r.epic])
      OBVIOUS
    <2>1. r.op = "AddStory" /\ mem.last < MaxId /\ o = AddStoryHandler(mem, r.epic)
      BY <1>1, <1>3 DEF Handle
    <2>2. r.epic \in Id /\ HasEpic(mem, r.epic) /\ o.db = AddStory(mem, r.epic)
      BY <1>3, <2>1 DEF AddStoryHandler, Unchanged, Whole, Epics
    <2> HIDE DEF o
    <2> QED BY <1>2, <2>1, <2>2, AdditionHasSomeStories
  <1>5. FailedAreCut(files, mem, unwritten)
    BY <1>1 DEF FailedInv
  <1> HIDE DEF o
  <1>6. CASE Whole(r)
    <2>1. FailedAreCut(files', prior', unwritten')
      BY <1>1, <1>5 DEF FailedAreCut, Epics, HasEpic
    <2> QED BY <1>1, <1>3, <1>6, <2>1 DEF FailedInv
  <1>7. CASE ~Whole(r)
    <2>1. FailedAreCut(files', mem', unwritten' \ {cur'})
      BY <1>1, <1>3, <1>5, <1>7 DEF FailedAreCut, Epics, HasEpic
    <2>2. (cur \in unwritten => files[cur] \in CutOf(prior.epics[cur]))'
      BY <1>1, <1>3, <1>5, <1>7 DEF FailedAreCut
    <2>3. (at = "first" => SomeStories(prior.epics[cur]) \subseteq SomeStories(mem.epics[cur]))'
      BY <1>1, <1>4, <1>7 DEF SomeStories
    <2> QED BY <1>1, <1>7, <2>1, <2>2, <2>3 DEF FailedInv
  <1> QED BY <1>6, <1>7

LEMMA OpenFileFailed ==
  ASSUME Inv, FailedInv, OpenFile
  PROVE  FailedInv'
  <1>1. cur \in Id /\ \A e \in Id : e # cur => files'[e] = files[e]
    BY DEF Inv, OpenFile, Control, Epics, TypeOK
  <1>2. /\ UNCHANGED <<mem, prior, unwritten, server, at, whole, cur>>
        /\ server = "up" /\ at \in {"first", "write"} /\ open'
    BY DEF OpenFile
  <1>3. ~whole => FailedAreCut(files', mem', unwritten' \ {cur'})
    BY <1>1, <1>2 DEF FailedInv, FailedAreCut, Epics, HasEpic
  <1>4. (at = "first" => SomeStories(prior.epics[cur]) \subseteq SomeStories(mem.epics[cur]))'
    BY <1>2 DEF FailedInv, SomeStories
  <1> QED BY <1>2, <1>3, <1>4 DEF FailedInv

LEMMA FlushFileFailed ==
  ASSUME Inv, FailedInv, FlushFile, ~whole, at # "idle"
  PROVE  FailedAreCut(files', mem', unwritten') /\ cur \notin unwritten'
  <1>1. FailedAreCut(files, mem, unwritten \ {cur}) /\ unwritten' = unwritten \ {cur} /\ mem' = mem
    BY DEF FailedInv, FlushFile
  <1>2. \A e \in Id : e # cur => files'[e] = files[e]
    BY FlushFileFacts
  <1> QED BY <1>1, <1>2 DEF FailedAreCut, Epics, HasEpic

LEMMA StoryWrittenFailed ==
  ASSUME Inv, FailedInv, StoryWritten
  PROVE  FailedInv'
  <1>1. /\ FlushFile /\ ~whole /\ at = "first" /\ at' = "reply"
        /\ UNCHANGED <<whole, cur, server>>
    BY DEF StoryWritten, FlushFile, Inv, Control
  <1>2. FailedAreCut(files', mem', unwritten') /\ cur' \notin unwritten'
    BY <1>1, FlushFileFailed
  <1>3. FailedAreCut(files', mem', unwritten' \ {cur'})
    BY <1>2 DEF FailedAreCut
  <1> QED BY <1>1, <1>2, <1>3 DEF FailedInv

LEMMA EpicWrittenFailed ==
  ASSUME Inv, FailedInv, EpicWritten
  PROVE  FailedInv'
  <1>1. FlushFile /\ at = "write" /\ whole' = whole /\ at' = (IF whole THEN "write" ELSE "idle")
    BY DEF EpicWritten, FlushFile
  <1>2. ~whole => FailedAreCut(files', mem', unwritten')
    BY <1>1, FlushFileFailed
  <1> QED BY <1>1, <1>2 DEF FailedInv

\* The write of the whole database has written every epic.
LEMMA FlushIndexFailed ==
  ASSUME Inv, FlushIndex
  PROVE  FailedInv'
  <1>1. \A e \in Epics(mem) : files[e] = mem.epics[e] /\ mem.epics[e] \in Epic
    BY LookupType, AbsentAssumption
       DEF Inv, FlushIndex, FilesRight, WrittenAreThere, Lined, Epics, TypeOK
  <1>2. \A e \in Epics(mem) : files[e] \in CutOf(mem.epics[e])
    BY <1>1, AllStoriesAreSome DEF CutOf
  <1>3. FailedAreCut(files', mem', unwritten')
    BY <1>2 DEF FlushIndex, FailedAreCut, Epics, HasEpic
  <1> QED BY <1>3 DEF FlushIndex, FailedInv

LEMMA StoryWriteFailsFailed ==
  ASSUME Inv, FailedInv, StoryWriteFails
  PROVE  FailedInv'
  <1>1. /\ server = "up" /\ at = "first" /\ at' = "idle" /\ ~whole /\ FilesCut
        /\ cur \in Epics(mem) /\ OthersAreThere /\ TypeOK /\ Control
        /\ mem' = mem /\ unwritten' = unwritten \cup {cur}
    BY DEF StoryWriteFails, Inv, Control, FilesRight
  <1>2. /\ FailedAreCut(files, mem, unwritten \ {cur})
        /\ SomeStories(prior.epics[cur]) \subseteq SomeStories(mem.epics[cur])
    BY <1>1 DEF FailedInv
  <1>3. \A e \in Id : e # cur \/ ~open => files'[e] = files[e]
    BY <1>1, FilesCutFacts
  <1>4. files'[cur] \in CutOf(mem.epics[cur])
    <2>1. CASE open
      <3>1. PICK f \in CutFile : files' = [files EXCEPT ![cur] = f]
        BY <1>1, <2>1 DEF FilesCut
      <3>2. files'[cur] = f
        BY <1>1, <3>1 DEF TypeOK, Epics
      <3> QED BY <3>2 DEF CutFile, CutOf
    <2>2. CASE ~open /\ cur \in unwritten
      <3>1. files[cur] \in CutOf(prior.epics[cur])
        BY <1>1, <2>2 DEF FailedInv
      <3> QED BY <1>1, <1>2, <1>3, <2>2, <3>1 DEF CutOf, Epics
    <2>3. CASE ~open /\ cur \notin unwritten
      <3>1. files'[cur] \in {mem.epics[cur], prior.epics[cur]}
        BY <1>1, <1>3, <2>3 DEF OthersAreThere, Epics
      <3>2. cur \in Id /\ mem.epics[cur] \in Epic /\ prior.epics[cur] \in Epic
        BY <1>1, LookupType DEF OthersAreThere, Epics, TypeOK
      <3> QED BY <1>2, <3>1, <3>2, AllStoriesAreSome DEF CutOf
    <2> QED BY <2>1, <2>2, <2>3
  <1>5. FailedAreCut(files', mem', unwritten')
    BY <1>1, <1>2, <1>3, <1>4 DEF FailedAreCut, Epics, HasEpic
  <1> QED BY <1>1, <1>5 DEF FailedInv

LEMMA OthersFailed ==
  ASSUME Inv, FailedInv,
         \/ ReplySent \/ TruncateIndex \/ Crash \/ Restart \/ RestartRefused \/ UNCHANGED vars
         \/ \E e \in Id : BufferLine(e)
  PROVE  FailedInv'
  <1>1. CASE ReplySent \/ UNCHANGED vars
    BY <1>1 DEF ReplySent, vars, Inv, Control, FailedInv, FailedAreCut, Epics, HasEpic
  <1>2. CASE TruncateIndex \/ \E e \in Id : BufferLine(e)
    BY <1>2 DEF TruncateIndex, BufferLine, Inv, Control, FailedInv
  <1>3. CASE Crash \/ Restart \/ RestartRefused
    BY <1>3 DEF Crash, Restart, RestartRefused, FailedInv, FailedAreCut
  <1> QED BY <1>1, <1>2, <1>3

LEMMA FailedHolds == Spec => []FailedInv
  <1>1. Inv /\ IdsUnique /\ FailedInv /\ [Next]_vars => FailedInv'
    BY ChangeFailed, OpenFileFailed, StoryWrittenFailed, EpicWrittenFailed, FlushIndexFailed,
       StoryWriteFailsFailed, OthersFailed
       DEF Next
  <1> QED BY <1>1, InitFailed, InvHolds, IdsAlwaysUnique, PTL DEF Spec

-----------------------------------------------------------------------------
(***************************************************************************)
(* What a crash costs.  While the server is down, the files are what it    *)
(* had in memory, now or before the last change, but for what the write    *)
(* that was cut has not written; the index never names an epic before its  *)
(* file is written, and another set of epics means that the index is new.  *)
(***************************************************************************)
LinesWritten == server = "up" /\ at = "write" /\ whole => index.lines \subseteq Lined \ {cur}

EpicsMoved == whole /\ at # "idle" => Epics(mem) # Epics(prior)

\* Load can reject the file of e for a write that failed or that was cut.
MayBeTorn(e) == e \in unwritten \/ (e = cur /\ open /\ ~whole)

KnownFile(e) ==
  \/ files[e] = Torn /\ MayBeTorn(e)
  \/ \E db \in {mem, prior} : HasEpic(db, e) /\ files[e] \in SomeStories(db.epics[e])

KeptFile(e) == e \in index.lines /\ files[e] = mem.epics[e]

Left ==
  server # "up" =>
    /\ index.torn => at = "write" /\ whole
    /\ \A e \in index.lines : KnownFile(e)
    /\ Epics(mem) = Epics(prior) => \A e \in Epics(mem) \ (unwritten \cup {cur}) : KeptFile(e)

LeftInv == LinesWritten /\ EpicsMoved /\ Left

LEMMA InitLeft == Init => LeftInv
  BY DEF Init, LeftInv, LinesWritten, EpicsMoved, Left

\* An epic is added under an id that no epic has, and one is deleted that is
\* there.
LEMMA ChangeLeft ==
  ASSUME Inv, IdsUnique, LeftInv, NEW r \in Requests, Change(r)
  PROVE  LeftInv'
  <1>1. /\ server' = "up" /\ at' \in {"first", "reply"} /\ whole' = Whole(r)
        /\ mem' = Handle(mem, r).db /\ prior' = mem /\ Handle(mem, r).write # "none"
    BY DEF Change
  <1>2. r \in Request /\ mem \in Db
    BY RequestsAssumption DEF Inv, TypeOK
  <1>3. CASE r.op = "AddEpic"
    <2> DEFINE n == NextId(mem)
    <2>1. mem' = AddEpic(mem) /\ mem.last < MaxId
      BY <1>1, <1>3 DEF Change, Handle, AddEpicHandler, Changed
    <2>2. n \in Id /\ n = mem.last + 1 /\ mem.last \in Nat
      BY <1>2, <2>1, NextIdIsNext, NextIdType, MaxIdAssumption DEF Db, Id
    <2>3. AddEpic(mem).epics[n] = [status |-> "Open", stories |-> NoEntries]
      BY <1>2, <2>2 DEF AddEpic, Db, Map
    <2>4. n \in Epics(mem')
      BY <2>1, <2>2, <2>3, NewEpicType, AbsentAssumption DEF Epics, HasEpic
    <2>5. n \notin Epics(mem)
      <3>1. ~(n <= mem.last)
        BY <2>2
      <3> QED BY <2>2, <3>1 DEF IdsUnique, UniqueIds, Epics
    <2> HIDE DEF n
    <2>6. Epics(mem') # Epics(prior')
      BY <1>1, <2>4, <2>5
    <2> QED BY <1>1, <2>6 DEF LeftInv, LinesWritten, EpicsMoved, Left, Epics, HasEpic
  <1>4. CASE r.op = "DeleteEpic"
    <2>1. r.epic \in Id
      BY <1>2, <1>4 DEF Request
    <2>2. HasEpic(mem, r.epic) /\ mem' = DeleteEpic(mem, r.epic)
      BY <1>1, <1>4 DEF Handle, DeleteEpicHandler, Changed, Unchanged
    <2>3. ~HasEpic(mem', r.epic)
      BY <1>2, <2>1, <2>2 DEF HasEpic, DeleteEpic, Db, Map
    <2>4. Epics(mem') # Epics(prior')
      BY <1>1, <2>1, <2>2, <2>3 DEF Epics
    <2> QED BY <1>1, <2>4 DEF LeftInv, LinesWritten, EpicsMoved, Left, Epics, HasEpic
  <1>5. CASE ~Whole(r)
    BY <1>1, <1>5 DEF LeftInv, LinesWritten, EpicsMoved, Left
  <1> QED BY <1>3, <1>4, <1>5 DEF Whole

\* A file that holds its epic whole, after a step.
LEMMA WholeFileKnownLater ==
  ASSUME TypeOK', NEW db \in {mem', prior'}, NEW e \in Epics(db), files'[e] = db.epics[e]
  PROVE  KnownFile(e)'
  <1>1. e \in Id /\ HasEpic(db, e) /\ db \in Db
    BY DEF Epics, TypeOK
  <1>2. db.epics[e] \in SomeStories(db.epics[e])
    BY <1>1, LookupType, AllStoriesAreSome
  <1>3. \E d \in {mem', prior'} : HasEpic(d, e) /\ files'[e] \in SomeStories(d.epics[e])
    BY <1>1, <1>2
  <1> QED BY <1>3 DEF KnownFile

\* A file that a write has cut, after a step.
LEMMA CutFileKnownLater ==
  ASSUME NEW db \in {mem', prior'}, NEW e \in Epics(db), files'[e] \in CutOf(db.epics[e]),
         e \in unwritten' \/ (e = cur' /\ open' /\ ~whole')
  PROVE  KnownFile(e)'
  <1>1. HasEpic(db, e)
    BY DEF Epics
  <1>2. CASE files'[e] = Torn
    BY <1>2 DEF KnownFile, MayBeTorn
  <1>3. CASE files'[e] \in SomeStories(db.epics[e])
    <2>1. \E d \in {mem', prior'} : HasEpic(d, e) /\ files'[e] \in SomeStories(d.epics[e])
      BY <1>1, <1>3
    <2> QED BY <2>1 DEF KnownFile
  <1> QED BY <1>2, <1>3 DEF CutOf

LEMMA WriteLeft ==
  ASSUME Inv, LeftInv,
         ReplySent \/ TruncateIndex \/ OpenFile \/ StoryWritten \/ FlushIndex \/ StoryWriteFails
  PROVE  LeftInv'
  BY DEF ReplySent, TruncateIndex, OpenFile, StoryWritten, FlushFile, FlushIndex,
         StoryWriteFails, Inv, Control, NoLines, LeftInv, LinesWritten, EpicsMoved, Left,
         Lined, Epics, HasEpic

LEMMA BufferLineLeft ==
  ASSUME Inv, LeftInv, NEW e \in Id, BufferLine(e)
  PROVE  LeftInv'
  <1>1. index'.lines \subseteq Lined
    BY DEF BufferLine, Spill, LeftInv, LinesWritten, Inv, TypeOK, Index
  <1>2. Lined \subseteq Lined' \ {e} /\ cur' = e
    BY DEF BufferLine, Lined, Epics, HasEpic
  <1> QED BY <1>1, <1>2 DEF BufferLine, LeftInv, LinesWritten, EpicsMoved, Left, Epics, HasEpic

LEMMA EpicWrittenLeft ==
  ASSUME Inv, LeftInv, EpicWritten
  PROVE  LeftInv'
  <1>1. index.lines \subseteq Id /\ Absent \notin Id
    BY AbsentAssumption DEF Inv, TypeOK, Index
  <1>2. Lined' = Lined
    BY DEF EpicWritten, FlushFile, Lined, Epics, HasEpic
  <1>3. LinesWritten'
    BY <1>1, <1>2 DEF EpicWritten, FlushFile, LeftInv, LinesWritten
  <1>4. EpicsMoved' /\ Left'
    BY DEF EpicWritten, FlushFile, LeftInv, EpicsMoved, Left, Epics, HasEpic
  <1> QED BY <1>3, <1>4 DEF LeftInv

\* A crash: every handler leaves what it has not yet written of its change.
LEMMA CrashLeft ==
  ASSUME Inv, FailedInv, LeftInv, Crash
  PROVE  LeftInv'
  <1>1. /\ server = "up" /\ server' = "down" /\ FilesCut /\ IndexCut
        /\ UNCHANGED <<mem, prior, told, unwritten, at, whole, todo, cur, open>>
    BY DEF Crash
  <1>2. TypeOK /\ Control /\ FilesRight /\ FailedInv /\ LinesWritten /\ EpicsMoved
    BY DEF Inv, LeftInv
  <1>3. TypeOK'
    BY CrashInv DEF Inv
  <1>4. \A e \in Id : e # cur \/ ~open => files'[e] = files[e]
    BY <1>1, <1>2, FilesCutFacts
  <1>5. mem' = mem /\ prior' = prior /\ Epics(mem)' = Epics(mem) /\ Epics(prior)' = Epics(prior)
    BY <1>1 DEF Epics, HasEpic
  <1> DEFINE Other == \A e \in Epics(mem) \ (unwritten \cup {cur}) : KeptFile(e)'
             Known == \A e \in index'.lines : KnownFile(e)'
  <1>6. CASE at = "write" /\ whole
    <2>1. index'.lines \subseteq Lined \ {cur}
      <3>1. Absent \notin Lined
        BY AbsentAssumption DEF Lined, Epics
      <3>2. CASE cur = Absent
        BY <1>1, <1>6, <3>1, <3>2 DEF IndexCut, CutIndex
      <3>3. CASE cur # Absent
        BY <1>1, <1>2, <1>6, <3>3 DEF IndexCut, LinesWritten
      <3> QED BY <3>2, <3>3
    <2>2. ASSUME NEW e \in index'.lines PROVE KnownFile(e)'
      <3>1. e \in Epics(mem) /\ e # cur /\ e \in Id
        BY <2>1 DEF Lined, Epics
      <3>2. files'[e] = mem.epics[e]
        BY <1>1, <1>2, <1>4, <1>6, <2>1, <3>1 DEF FilesRight, WrittenAreThere
      <3> QED BY <1>3, <1>5, <3>1, <3>2, WholeFileKnownLater
    <2>3. Epics(mem)' # Epics(prior)'
      BY <1>1, <1>2, <1>5, <1>6 DEF EpicsMoved
    <2> QED BY <1>1, <1>6, <2>2, <2>3 DEF LeftInv, LinesWritten, EpicsMoved, Left
  <1>7. CASE ~(at = "write" /\ whole)
    <2>1. index' = index
      BY <1>1, <1>7 DEF IndexCut
    <2>2. EpicsMoved' /\ LinesWritten' /\ ~index'.torn
      BY <1>1, <1>2, <1>5, <1>7, <2>1
         DEF EpicsMoved, LinesWritten, FilesRight, FilesHold, OthersAreThere, TypeOK, Steps, Control
    <2>3. CASE ~whole /\ at # "idle"
      <3>1. OthersAreThere
        BY <1>1, <1>2, <2>3 DEF FilesRight
      <3>2. ASSUME NEW e \in Epics(mem) \ (unwritten \cup {cur}) PROVE KeptFile(e)'
        <4>1. files'[e] = files[e] /\ files[e] = mem.epics[e] /\ e \in index.lines
          BY <1>4, <3>1 DEF OthersAreThere, Epics
        <4> QED BY <1>5, <2>1, <4>1 DEF KeptFile
      <3>3. ASSUME NEW e \in index'.lines PROVE KnownFile(e)'
        <4>1. e \in Epics(mem) /\ e \in Epics(prior) /\ e \in Id
          BY <2>1, <3>1 DEF OthersAreThere, Epics
        <4>2. CASE e # cur /\ e \in unwritten
          <5>1. files'[e] \in CutOf(mem.epics[e])
            BY <1>1, <1>2, <1>4, <2>3, <4>1, <4>2 DEF FailedInv, FailedAreCut
          <5> QED BY <1>1, <1>5, <4>1, <4>2, <5>1, CutFileKnownLater
        <4>3. CASE e # cur /\ e \notin unwritten
          BY <1>3, <1>5, <3>2, <4>1, <4>3, WholeFileKnownLater DEF KeptFile
        <4>4. CASE e = cur /\ ~open /\ e \in unwritten
          <5>1. files'[e] \in CutOf(prior.epics[e])
            BY <1>1, <1>2, <1>4, <2>3, <4>1, <4>4 DEF FailedInv
          <5> QED BY <1>1, <1>5, <4>1, <4>4, <5>1, CutFileKnownLater
        <4>5. CASE e = cur /\ ~open /\ e \notin unwritten
          <5>1. files'[e] \in {mem.epics[e], prior.epics[e]}
            BY <1>4, <3>1, <4>1, <4>5 DEF OthersAreThere
          <5> QED BY <1>3, <1>5, <4>1, <5>1, WholeFileKnownLater
        <4>6. CASE e = cur /\ open
          <5>1. PICK f \in CutFile : files' = [files EXCEPT ![cur] = f]
            BY <1>1, <4>6 DEF FilesCut
          <5>2. files'[e] = f
            BY <1>2, <4>1, <4>6, <5>1 DEF TypeOK
          <5>3. files'[e] \in CutOf(mem.epics[e])
            BY <4>6, <5>2 DEF CutFile, CutOf
          <5>4. ~whole
            BY <2>3
          <5> QED BY <1>1, <1>5, <4>1, <4>6, <5>3, <5>4, CutFileKnownLater
        <4> QED BY <4>2, <4>3, <4>4, <4>5, <4>6
      <3> QED BY <1>1, <1>5, <2>2, <3>2, <3>3 DEF LeftInv, Left
    <2>4. CASE whole \/ at = "idle"
      <3>1. PICK db \in {mem, prior} : /\ FilesHold(db)
                                       /\ FailedAreCut(files, db, unwritten)
                                       /\ Epics(mem) = Epics(prior) => db = mem
        BY <1>1, <1>2, <1>7, <2>4
           DEF FilesRight, FailedInv, EpicsMoved, Control, TypeOK, Steps
      <3>2. ~open
        BY <1>2, <1>7, <2>4 DEF Control
      <3>3. \A e \in Epics(db) \ unwritten : files'[e] = db.epics[e] /\ e \in index'.lines
        BY <1>4, <2>1, <3>1, <3>2 DEF FilesHold, Epics
      <3>4. ASSUME NEW e \in index'.lines PROVE KnownFile(e)'
        <4>1. e \in Epics(db) /\ e \in Id
          BY <2>1, <3>1 DEF FilesHold, Epics
        <4>2. CASE e \in unwritten
          <5>1. files'[e] \in CutOf(db.epics[e])
            BY <1>4, <3>1, <3>2, <4>1, <4>2 DEF FailedAreCut
          <5> QED BY <1>1, <1>5, <4>1, <4>2, <5>1, CutFileKnownLater
        <4>3. CASE e \notin unwritten
          BY <1>3, <1>5, <3>3, <4>1, <4>3, WholeFileKnownLater
        <4> QED BY <4>2, <4>3
      <3>5. Epics(mem) = Epics(prior) =>
              \A e \in Epics(mem) \ (unwritten \cup {cur}) : KeptFile(e)'
        BY <1>5, <3>1, <3>3 DEF KeptFile
      <3> QED BY <1>1, <1>5, <2>2, <3>4, <3>5 DEF LeftInv, Left
    <2> QED BY <2>3, <2>4
  <1> QED BY <1>6, <1>7

LEMMA RestartLeft ==
  ASSUME Restart
  PROVE  LeftInv'
  BY DEF Restart, LeftInv, LinesWritten, EpicsMoved, Left, Epics, HasEpic

LEMMA RefusedLeft ==
  ASSUME LeftInv, RestartRefused
  PROVE  LeftInv'
  <1>1. server = "down" /\ server' = "refused"
    BY DEF RestartRefused
  <1>2. UNCHANGED <<mem, prior, unwritten, at, whole, cur, open, index, files>>
    BY DEF RestartRefused
  <1>3. Left'
    BY <1>1, <1>2 DEF LeftInv, Left, KnownFile, MayBeTorn, KeptFile, Epics, HasEpic, SomeStories
  <1> QED BY <1>1, <1>2, <1>3 DEF LeftInv, LinesWritten, EpicsMoved, Epics, HasEpic

LEMMA StutterLeft ==
  ASSUME LeftInv, UNCHANGED vars
  PROVE  LeftInv'
  BY DEF vars, LeftInv, LinesWritten, EpicsMoved, Left, KnownFile, MayBeTorn, KeptFile, Lined,
         Epics, HasEpic, SomeStories

LEMMA LeftHolds == Spec => []LeftInv
  <1>1. Inv /\ IdsUnique /\ FailedInv /\ LeftInv /\ [Next]_vars => LeftInv'
    BY StutterLeft, ChangeLeft, WriteLeft, BufferLineLeft, EpicWrittenLeft, CrashLeft,
       RestartLeft, RefusedLeft
       DEF Next
  <1> QED BY <1>1, InitLeft, InvHolds, IdsAlwaysUnique, FailedHolds, PTL DEF Spec

LEMMA RestartFinds ==
  ASSUME Inv, Restart
  PROVE  /\ Epics(mem') = index.lines /\ Readable /\ index.lines \subseteq Id
         /\ \A e \in index.lines : mem'.epics[e] = files[e]
  <1>1. mem' = Loaded /\ Readable
    BY DEF Restart
  <1>2. index.lines \subseteq Id
    BY DEF Inv, TypeOK, Index
  <1>3. \A e \in Id : HasEpic(Loaded, e) <=> e \in index.lines
    BY <1>1 DEF Readable, Loaded, OnDisk, HasEpic
  <1>4. \A e \in index.lines : Loaded.epics[e] = files[e]
    BY <1>2 DEF Loaded, OnDisk
  <1> QED BY <1>1, <1>2, <1>3, <1>4 DEF Epics

\* A restart makes nothing up, and brings no deleted epic back: each epic it
\* finds is one the server had, with none but its own stories, and this of an
\* epic whose last write had failed too.
THEOREM RestartsFindOnlyKnown == Spec => RestartFindsOnlyKnown
  <1>1. Inv /\ LeftInv => (Restart => FindsOnlyKnown)
    <2> SUFFICES ASSUME Inv, LeftInv, Restart PROVE FindsOnlyKnown
      OBVIOUS
    <2>1. \A e \in index.lines : KnownFile(e)
      BY DEF LeftInv, Left, Restart
    <2>2. ASSUME NEW e \in Epics(mem')
          PROVE  \E db \in {mem, prior} :
                   HasEpic(db, e) /\ mem'.epics[e] \in SomeStories(db.epics[e])
      <3>1. e \in index.lines /\ mem'.epics[e] = files[e] /\ files[e] # Torn
        BY RestartFinds DEF Readable
      <3> QED BY <2>1, <3>1 DEF KnownFile
    <2> QED BY <2>2 DEF FindsOnlyKnown
  <1> QED BY <1>1, InvHolds, LeftHolds, PTL DEF Spec, RestartFindsOnlyKnown

\* A restart that succeeds after a crash that came after a change of a story or
\* of a status finds every other epic complete, but those whose last write had
\* failed.
THEOREM RestartsKeepOthers == Spec => RestartKeepsOthers
  <1>1. Inv /\ LeftInv => (Restart /\ Epics(mem) = Epics(prior) => KeepsOthers)
    BY RestartFinds DEF LeftInv, Left, KeptFile, KeepsOthers, Restart
  <1> QED BY <1>1, InvHolds, LeftHolds, PTL DEF Spec, RestartKeepsOthers

\* Load fails after a crash for nothing but a line that the write of the index
\* has cut, the file that the write of one epic had open, or one whose last
\* write had failed.
THEOREM RefusalsOnlyForCut == Spec => []RefusedOnlyForCut
  <1>1. Inv /\ LeftInv => RefusedOnlyForCut
    <2> SUFFICES ASSUME Inv, LeftInv, server # "up" PROVE RefusedOnlyForCut
      BY DEF RefusedOnlyForCut
    <2>1. ASSUME NEW e \in index.lines
          PROVE  files[e] # Absent /\ (files[e] = Torn => MayBeTorn(e))
      <3>1. e \in Id /\ KnownFile(e)
        BY DEF LeftInv, Left, Inv, TypeOK, Index
      <3>2. CASE files[e] = Torn /\ MayBeTorn(e)
        BY <3>2, FileAssumption
      <3>3. CASE \E db \in {mem, prior} :
                   HasEpic(db, e) /\ files[e] \in SomeStories(db.epics[e])
        <4>1. files[e] \in Epic
          BY <3>1, <3>3, LookupType, SomeStoriesType DEF Inv, TypeOK
        <4> QED BY <4>1, AbsentAssumption, FileAssumption
      <3> QED BY <3>1, <3>2, <3>3 DEF KnownFile
    <2> QED BY <2>1 DEF LeftInv, Left, RefusedOnlyForCut, MayBeTorn
  <1> QED BY <1>1, InvHolds, LeftHolds, PTL DEF Spec
=============================================================================
