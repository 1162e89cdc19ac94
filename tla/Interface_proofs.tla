-------------------------- MODULE Interface_proofs --------------------------
(***************************************************************************)
(* The client programs, for any number of users, whatever they choose and  *)
(* whatever the others do to the database meanwhile.                       *)
(***************************************************************************)
EXTENDS Interface, Database_proofs, SequenceTheorems

-----------------------------------------------------------------------------
(***************************************************************************)
(* Stacks of pages.                                                        *)
(***************************************************************************)
Lands(stack, page) ==
  /\ stack \in Seq(Page) /\ stack # <<>> /\ Nested(stack)
  /\ Last(stack) = page

LEMMA LandsHome ==
  ASSUME NEW p \in Page, p.is = "home"
  PROVE  Lands(<<p>>, p)
  <1>1. <<p>> \in Seq(Page) /\ Last(<<p>>) = p /\ <<p>> # <<>>
    BY DEF Last
  <1>2. Nested(<<p>>)
    BY DEF Nested
  <1> QED BY <1>1, <1>2 DEF Lands

\* The page on top tells how deep the stack is.
LEMMA Depth ==
  ASSUME NEW stack \in Seq(Page), Nested(stack)
  PROVE  /\ Last(stack) \in Page
         /\ Last(stack).is = "home" => Len(stack) = 1
         /\ Last(stack).is = "epic" => Len(stack) = 2
         /\ Last(stack).is = "story" => Len(stack) = 3 /\ Last(stack).epic = stack[2].epic
         /\ Head(stack) = stack[1] /\ stack[1] \in Page /\ stack[1].is = "home"
  <1>1. /\ Len(stack) \in 1 .. 3 /\ stack[1] \in Page /\ Head(stack) = stack[1]
        /\ Last(stack) = stack[Len(stack)] /\ Last(stack) \in Page
    BY DEF Nested, Last
  <1>2. Len(stack) = 1 \/ Len(stack) = 2 \/ Len(stack) = 3
    BY <1>1
  <1> QED BY <1>1, <1>2 DEF Nested

LEMMA LandsOver ==
  ASSUME NEW h \in Page, h.is = "home", NEW p \in Page, p.is = "epic"
  PROVE  Lands(<<h, p>>, p)
  <1>1. <<h, p>> \in Seq(Page) /\ Last(<<h, p>>) = p /\ <<h, p>> # <<>>
    BY DEF Last
  <1>2. Nested(<<h, p>>)
    BY DEF Nested
  <1> QED BY <1>1, <1>2 DEF Lands

\* A page put on the stack, or in place of the page on top.
LEMMA LandsOnTop ==
  ASSUME NEW stack \in Seq(Page), Nested(stack), NEW p \in Page,
         \/ Len(stack) = 1 /\ p.is = "epic"
         \/ Len(stack) = 2 /\ p.is = "story" /\ p.epic = stack[2].epic
  PROVE  Lands(Append(stack, p), p)
  <1> DEFINE t == Append(stack, p)
             n == Len(stack)
  <1>1. /\ t \in Seq(Page) /\ n \in Nat /\ Len(t) = n + 1 /\ t[n + 1] = p
        /\ \A i \in 1 .. n : t[i] = stack[i]
    OBVIOUS
  <1>2. /\ stack[1].is = "home" /\ n \in {1, 2}
        /\ n = 1 => p.is = "epic"
        /\ n = 2 => stack[2].is = "epic" /\ p.is = "story" /\ p.epic = stack[2].epic
    BY DEF Nested
  <1> HIDE DEF t, n
  <1>3. t[1] = stack[1] /\ (n = 2 => t[2] = stack[2])
    BY <1>1, <1>2
  <1>4. Nested(t) /\ Last(t) = p /\ t # <<>>
    BY <1>1, <1>2, <1>3 DEF Nested, Last
  <1> QED BY <1>1, <1>4 DEF Lands, t

LEMMA FrontFacts ==
  ASSUME NEW stack \in Seq(Page), Len(stack) > 0
  PROVE  /\ Front(stack) \in Seq(Page) /\ Len(Front(stack)) = Len(stack) - 1
         /\ \A i \in 1 .. Len(stack) - 1 : Front(stack)[i] = stack[i]
  BY DEF Front

LEMMA LandsInstead ==
  ASSUME NEW stack \in Seq(Page), Nested(stack), NEW p \in Page,
         \/ Len(stack) = 2 /\ p.is = "epic"
         \/ Len(stack) = 3 /\ p.is = "story" /\ p.epic = stack[2].epic
  PROVE  Lands(ReplaceTop(stack, p), p)
  <1> DEFINE t == Front(stack)
             n == Len(stack)
  <1>1. n \in {2, 3}
    OBVIOUS
  <1>2. /\ t \in Seq(Page) /\ Len(t) = n - 1
        /\ \A i \in 1 .. n - 1 : t[i] = stack[i]
    BY <1>1, FrontFacts
  <1>3. /\ stack[1].is = "home"
        /\ n = 2 => p.is = "epic"
        /\ n = 3 => stack[2].is = "epic" /\ p.is = "story" /\ p.epic = stack[2].epic
    BY <1>1 DEF Nested
  <1> HIDE DEF t, n
  <1>4. t[1] = stack[1] /\ (n = 3 => t[2] = stack[2])
    BY <1>1, <1>2
  <1> DEFINE u == Append(t, p)
  <1>5. /\ u \in Seq(Page) /\ Len(u) = n /\ u[n] = p
        /\ \A i \in 1 .. n - 1 : u[i] = t[i]
    BY <1>1, <1>2
  <1> HIDE DEF u
  <1>6. u[1] = stack[1] /\ (n = 3 => u[2] = stack[2])
    BY <1>1, <1>4, <1>5
  <1>7. Nested(u) /\ Last(u) = p /\ u # <<>>
    BY <1>1, <1>3, <1>5, <1>6 DEF Nested, Last
  <1> QED BY <1>5, <1>7 DEF Lands, u, t, ReplaceTop

\* Going back.
LEMMA LandsBack ==
  ASSUME NEW stack \in Seq(Page), Nested(stack), Len(stack) > 1
  PROVE  Front(stack) \in Seq(Page) /\ Front(stack) # <<>> /\ Nested(Front(stack))
  <1>1. /\ Front(stack) \in Seq(Page) /\ Len(Front(stack)) = Len(stack) - 1
        /\ \A i \in 1 .. Len(stack) - 1 : Front(stack)[i] = stack[i]
    BY FrontFacts
  <1>2. Len(stack) = 2 \/ Len(stack) = 3
    BY DEF Nested
  <1> QED BY <1>1, <1>2 DEF Nested

-----------------------------------------------------------------------------
(***************************************************************************)
(* What the reply to a request brings.                                     *)
(***************************************************************************)
LEMMA PathPrefixes ==
  ASSUME NEW e \in Id, NEW s \in Id
  PROVE  /\ IsPrefix(<<>>, <<>>) /\ IsPrefix(<<>>, <<e>>) /\ IsPrefix(<<>>, <<e, s>>)
         /\ IsPrefix(<<e>>, <<e>>) /\ IsPrefix(<<e>>, <<e, s>>)
         /\ IsPrefix(<<e, s>>, <<e, s>>)
  <1>1. \A t \in Seq(Id) : IsPrefix(<<>>, t) /\ IsPrefix(t, t)
    BY DEF IsPrefix
  <1>2. IsPrefix(<<e>>, <<e, s>>)
    <2>1. ASSUME NEW t \in Seq(Id), NEW u \in Seq(Id), Len(t) = 1, Len(u) = 2, t[1] = u[1]
          PROVE  IsPrefix(t, u)
      <3>1. SubSeq(t, 1, 1) = SubSeq(u, 1, 1)
        BY <2>1
      <3> QED BY <2>1, <3>1 DEF IsPrefix
    <2>2. /\ <<e>> \in Seq(Id) /\ Len(<<e>>) = 1 /\ <<e>>[1] = e
          /\ <<e, s>> \in Seq(Id) /\ Len(<<e, s>>) = 2 /\ <<e, s>>[1] = e
      OBVIOUS
    <2> QED BY <2>1, <2>2
  <1>3. <<>> \in Seq(Id) /\ <<e>> \in Seq(Id) /\ <<e, s>> \in Seq(Id)
    OBVIOUS
  <1> QED BY <1>1, <1>2, <1>3, Zenon

\* The stack after the reply of an outcome, to a client that asked for way.
Brings(out, stack, way) ==
  LET new == ParseResponse(stack, out.reply)
  IN  /\ Lands(new, Last(new))
      /\ Shows(out.db, Last(new))
      /\ IsPrefix(Path(Last(new)), way)

LEMMA BringsHome ==
  ASSUME NEW out, out.db \in Db, NEW stack, NEW p, NEW e \in Id, NEW s \in Id,
         p = [is |-> "home", list |-> HomeView(out.db)],
         ParseResponse(stack, out.reply) = <<p>>
  PROVE  /\ Brings(out, stack, <<>>) /\ Brings(out, stack, <<e>>)
         /\ Brings(out, stack, <<e, s>>)
  <1>1. p \in Page /\ p.is = "home" /\ p.list = HomeView(out.db)
    BY HomeViewType DEF Page
  <1>2. Lands(<<p>>, p) /\ Last(<<p>>) = p
    BY <1>1, LandsHome DEF Lands
  <1>3. Shows(out.db, p) /\ Path(p) = <<>>
    BY <1>1 DEF Shows, Path
  <1> QED BY <1>2, <1>3, PathPrefixes, Zenon DEF Brings

LEMMA BringsEpic ==
  ASSUME NEW out, out.db \in Db, NEW stack, NEW p, NEW e \in Id, NEW s \in Id,
         HasEpic(out.db, e), p = [is |-> "epic", epic |-> e, page |-> out.db.epics[e]],
         NEW new, ParseResponse(stack, out.reply) = new, p \in Page => Lands(new, p)
  PROVE  Brings(out, stack, <<e>>) /\ Brings(out, stack, <<e, s>>)
  <1>1. p \in Page /\ p.is = "epic" /\ p.epic = e /\ p.page = out.db.epics[e]
    <2>1. out.db.epics[e] \in Epic
      BY DEF Db, Map, HasEpic
    <2> QED BY <2>1 DEF Page
  <1>2. Lands(new, p) /\ Last(new) = p
    BY <1>1 DEF Lands
  <1>3. Shows(out.db, p) /\ Path(p) = <<e>>
    BY <1>1 DEF Shows, Path
  <1> QED BY <1>2, <1>3, PathPrefixes, Zenon DEF Brings

LEMMA BringsStory ==
  ASSUME NEW out, out.db \in Db, NEW stack, NEW p, NEW e \in Id, NEW s \in Id,
         HasStory(out.db, e, s),
         p = [is |-> "story", epic |-> e, story |-> s, status |-> out.db.epics[e].stories[s]],
         NEW new, ParseResponse(stack, out.reply) = new, p \in Page => Lands(new, p)
  PROVE  Brings(out, stack, <<e, s>>)
  <1>1. /\ p \in Page /\ p.is = "story" /\ p.epic = e /\ p.story = s
        /\ p.status = out.db.epics[e].stories[s]
    <2>1. out.db.epics[e] \in Epic
      BY DEF Db, Map, HasEpic, HasStory
    <2>2. out.db.epics[e].stories[s] \in Status
      BY <2>1 DEF Epic, Map, HasStory
    <2> QED BY <2>2 DEF Page
  <1>2. Lands(new, p) /\ Last(new) = p
    BY <1>1 DEF Lands
  <1>3. Shows(out.db, p) /\ Path(p) = <<e, s>>
    BY <1>1 DEF Shows, Path
  <1> QED BY <1>2, <1>3, PathPrefixes, Zenon DEF Brings

LEMMA BringsMissingEpic ==
  ASSUME NEW d \in Db, NEW out, out.db \in Db, HomeView(out.db) = HomeView(d),
         NEW stack \in Seq(Page), Nested(stack), NEW e \in Id, NEW s \in Id,
         out.reply = EpicDoesNotExist(d, e)
  PROVE  /\ Brings(out, stack, <<>>) /\ Brings(out, stack, <<e>>)
         /\ Brings(out, stack, <<e, s>>)
  <1> DEFINE p == [is |-> "home", list |-> HomeView(out.db)]
  <1>1. Len(stack) > 0
    BY DEF Nested
  <1>2. ParseResponse(stack, out.reply) = <<p>>
    BY <1>1 DEF ParseResponse, ParseEpicDoesNotExist, EpicDoesNotExist, HomePage, Asserting
  <1> HIDE DEF p
  <1> QED BY <1>2, BringsHome DEF p

LEMMA BringsMissingStory ==
  ASSUME NEW d \in Db, NEW stack \in Seq(Page), Nested(stack), Len(stack) > 1,
         NEW e \in Id, NEW s \in Id, HasEpic(d, e),
         NEW out, out = Unchanged(d, StoryDoesNotExist(d, e, s))
  PROVE  Brings(out, stack, <<e>>) /\ Brings(out, stack, <<e, s>>)
  <1> DEFINE p == [is |-> "epic", epic |-> e, page |-> d.epics[e]]
             new == <<Head(stack), p>>
  <1>1. ParseResponse(stack, out.reply) = new
    BY DEF ParseResponse, ParseStoryDoesNotExist, StoryDoesNotExist, EpicDetailPage,
           Asserting, Unchanged
  <1>2. p \in Page => Lands(new, p)
    <2>1. p.is = "epic"
      OBVIOUS
    <2> HIDE DEF p
    <2> QED BY <2>1, Depth, LandsOver
  <1>3. out.db = d
    BY DEF Unchanged
  <1> HIDE DEF new
  <1> QED BY <1>1, <1>2, <1>3, BringsEpic

LEMMA NewClientBrings == \A d \in Db : Brings(NewClientHandler(d), <<>>, <<>>)
  <1> SUFFICES ASSUME NEW d \in Db PROVE Brings(NewClientHandler(d), <<>>, <<>>)
    OBVIOUS
  <1> DEFINE out == NewClientHandler(d)
             p == [is |-> "home", list |-> HomeView(out.db)]
  <1>1. out.db = d /\ 0 \in Id
    BY MaxIdNat DEF NewClientHandler, Unchanged
  <1>2. ParseResponse(<<>>, out.reply) = <<p>>
    BY DEF ParseResponse, ParseSuccessfulConnection, NewClientHandler, HomePage, Unchanged
  <1> HIDE DEF p, out
  <1> QED BY <1>1, <1>2, BringsHome DEF p, out

LEMMA AddEpicBrings ==
  ASSUME NEW d \in Db, NEW stack
  PROVE  Brings(AddEpicHandler(d), stack, <<>>)
  <1> DEFINE out == AddEpicHandler(d)
             p == [is |-> "home", list |-> HomeView(out.db)]
  <1>1. out.db \in Db /\ 0 \in Id
    BY AddEpicType, MaxIdNat DEF AddEpicHandler, Changed
  <1>2. ParseResponse(stack, out.reply) = <<p>>
    BY DEF ParseResponse, ParseAddEpic, AddEpicHandler, HomePage, Changed
  <1> HIDE DEF p, out
  <1> QED BY <1>1, <1>2, BringsHome DEF p, out

LEMMA DeleteEpicBrings ==
  ASSUME NEW d \in Db, NEW stack \in Seq(Page), Nested(stack), NEW e \in Id
  PROVE  Brings(DeleteEpicHandler(d, e), stack, <<>>)
  <1> DEFINE out == DeleteEpicHandler(d, e)
             p == [is |-> "home", list |-> HomeView(out.db)]
  <1>1. CASE HasEpic(d, e)
    <2>1. out.db \in Db
      BY <1>1, DeleteEpicType DEF DeleteEpicHandler, Changed
    <2>2. ParseResponse(stack, out.reply) = <<p>>
      BY <1>1 DEF ParseResponse, ParseDeleteEpic, DeleteEpicHandler, HomePage, Changed
    <2> HIDE DEF p, out
    <2> QED BY <2>1, <2>2, BringsHome DEF p, out
  <1>2. CASE ~HasEpic(d, e)
    <2>1. out.db = d /\ out.reply = EpicDoesNotExist(d, e)
      BY <1>2 DEF DeleteEpicHandler, Unchanged
    <2> HIDE DEF out
    <2> QED BY <2>1, BringsMissingEpic DEF out
  <1> QED BY <1>1, <1>2

LEMMA GetEpicBrings ==
  ASSUME NEW d \in Db, NEW stack \in Seq(Page), Nested(stack), Len(stack) = 1, NEW e \in Id
  PROVE  Brings(GetEpicHandler(d, e), stack, <<e>>)
  <1> DEFINE out == GetEpicHandler(d, e)
             p == [is |-> "epic", epic |-> e, page |-> d.epics[e]]
             new == Append(stack, p)
  <1>1. out.db = d
    BY DEF GetEpicHandler, Unchanged
  <1>2. CASE HasEpic(d, e)
    <2>1. ParseResponse(stack, out.reply) = new
      BY <1>2 DEF ParseResponse, ParseGetEpic, GetEpicHandler, EpicDetailPage, Unchanged
    <2>2. p \in Page => Lands(new, p)
      <3>1. p.is = "epic"
        OBVIOUS
      <3> HIDE DEF p
      <3> QED BY <3>1, LandsOnTop
    <2> HIDE DEF out, new
    <2> QED BY <1>1, <1>2, <2>1, <2>2, BringsEpic DEF out
  <1>3. CASE ~HasEpic(d, e)
    <2>1. out.reply = EpicDoesNotExist(d, e)
      BY <1>3 DEF GetEpicHandler, Unchanged
    <2> HIDE DEF out
    <2> QED BY <1>1, <2>1, BringsMissingEpic DEF out
  <1> QED BY <1>2, <1>3

\* An outcome whose reply is the page of epic e, put in place of the page on top.
LEMMA BringsEpicInstead ==
  ASSUME NEW out, out.db \in Db, NEW stack \in Seq(Page), Nested(stack), Len(stack) = 2,
         NEW e \in Id, out.db.epics[e] \in Epic,
         ParseResponse(stack, out.reply) =
           ReplaceTop(stack, [is |-> "epic", epic |-> e, page |-> out.db.epics[e]])
  PROVE  Brings(out, stack, <<e>>)
  <1> DEFINE p == [is |-> "epic", epic |-> e, page |-> out.db.epics[e]]
             new == ReplaceTop(stack, p)
  <1>1. HasEpic(out.db, e)
    BY AbsentAssumption DEF HasEpic
  <1>2. p \in Page => Lands(new, p)
    <2>1. p.is = "epic"
      OBVIOUS
    <2> HIDE DEF p
    <2> QED BY <2>1, LandsInstead
  <1>3. ParseResponse(stack, out.reply) = new
    OBVIOUS
  <1> HIDE DEF new
  <1> QED BY <1>1, <1>2, <1>3, BringsEpic

LEMMA UpdateEpicStatusBrings ==
  ASSUME NEW d \in Db, NEW stack \in Seq(Page), Nested(stack), Len(stack) = 2, NEW e \in Id,
         NEW st \in Status
  PROVE  Brings(UpdateEpicStatusHandler(d, e, st), stack, <<e>>)
  <1> DEFINE out == UpdateEpicStatusHandler(d, e, st)
  <1>1. CASE HasEpic(d, e)
    <2>1. out.db = SetEpicStatus(d, e, st)
      BY <1>1 DEF UpdateEpicStatusHandler, Changed
    <2>2. out.db \in Db /\ out.db.epics[e] \in Epic
      BY <1>1, <2>1, SetEpicStatusType
    <2>3. ParseResponse(stack, out.reply) =
            ReplaceTop(stack, [is |-> "epic", epic |-> e, page |-> out.db.epics[e]])
      BY <1>1, <2>1 DEF ParseResponse, ParseUpdateEpicStatus, UpdateEpicStatusHandler,
                        EpicDetailPage, Asserting, Changed
    <2> HIDE DEF out
    <2> QED BY <2>2, <2>3, BringsEpicInstead DEF out
  <1>2. CASE ~HasEpic(d, e)
    <2>1. out.db = d /\ out.reply = EpicDoesNotExist(d, e)
      BY <1>2 DEF UpdateEpicStatusHandler, Unchanged
    <2> HIDE DEF out
    <2> QED BY <2>1, BringsMissingEpic DEF out
  <1> QED BY <1>1, <1>2

LEMMA AddStoryBrings ==
  ASSUME NEW d \in Db, NEW stack \in Seq(Page), Nested(stack), Len(stack) = 2, NEW e \in Id
  PROVE  Brings(AddStoryHandler(d, e), stack, <<e>>)
  <1> DEFINE out == AddStoryHandler(d, e)
  <1>1. CASE ~HasEpic(d, e)
    <2>1. out.db = d /\ out.reply = EpicDoesNotExist(d, e)
      BY <1>1 DEF AddStoryHandler, Unchanged
    <2> HIDE DEF out
    <2> QED BY <2>1, BringsMissingEpic DEF out
  <1>2. CASE HasEpic(d, e) /\ HasStory(d, e, NextId(d))
    <2>1. out.db = TakeId(d) /\ out.reply = EpicDoesNotExist(d, e)
      BY <1>2 DEF AddStoryHandler, Unchanged
    <2>2. TakeId(d) \in Db /\ HomeView(TakeId(d)) = HomeView(d)
      BY TakeIdType DEF TakeId, Db, HomeView, HasEpic
    <2> HIDE DEF out
    <2> QED BY <2>1, <2>2, BringsMissingEpic DEF out
  <1>3. CASE HasEpic(d, e) /\ ~HasStory(d, e, NextId(d))
    <2>1. out.db = AddStory(d, e)
      BY <1>3 DEF AddStoryHandler
    <2>2. out.db \in Db /\ out.db.epics[e] \in Epic
      BY <1>3, <2>1, AddStoryType
    <2>3. ParseResponse(stack, out.reply) =
            ReplaceTop(stack, [is |-> "epic", epic |-> e, page |-> out.db.epics[e]])
      BY <1>3, <2>1 DEF ParseResponse, ParseAddStory, AddStoryHandler, EpicDetailPage,
                        Asserting
    <2> HIDE DEF out
    <2> QED BY <2>2, <2>3, BringsEpicInstead DEF out
  <1> QED BY <1>1, <1>2, <1>3

LEMMA DeleteStoryBrings ==
  ASSUME NEW d \in Db, NEW stack \in Seq(Page), Nested(stack), Len(stack) > 1, NEW e \in Id,
         NEW s \in Id
  PROVE  Brings(DeleteStoryHandler(d, e, s), stack, <<e>>)
  <1> DEFINE out == DeleteStoryHandler(d, e, s)
             p == [is |-> "epic", epic |-> e, page |-> out.db.epics[e]]
             new == <<Head(stack), p>>
  <1>1. CASE HasStory(d, e, s)
    <2>1. out.db = DeleteStory(d, e, s)
      BY <1>1 DEF DeleteStoryHandler, Changed
    <2>2. out.db \in Db /\ out.db.epics[e] \in Epic
      BY <1>1, <2>1, SetStoryType DEF DeleteStory, HasStory
    <2>3. HasEpic(out.db, e)
      BY <2>2, AbsentAssumption DEF HasEpic
    <2>4. ParseResponse(stack, out.reply) = new
      <3>1. stack # <<>>
        OBVIOUS
      <3> QED BY <1>1, <2>1, <3>1 DEF ParseResponse, ParseDeleteStory, DeleteStoryHandler,
                                      EpicDetailPage, Asserting, Changed
    <2>5. p \in Page => Lands(new, p)
      <3>1. p.is = "epic"
        OBVIOUS
      <3> HIDE DEF p
      <3> QED BY <3>1, Depth, LandsOver
    <2> HIDE DEF out, new
    <2> QED BY <2>2, <2>3, <2>4, <2>5, BringsEpic DEF out
  <1>2. CASE ~HasEpic(d, e)
    <2>1. out.db = d /\ out.reply = EpicDoesNotExist(d, e)
      BY <1>2 DEF DeleteStoryHandler, HasStory, Unchanged
    <2> HIDE DEF out
    <2> QED BY <2>1, BringsMissingEpic DEF out
  <1>3. CASE HasEpic(d, e) /\ ~HasStory(d, e, s)
    <2>1. out = Unchanged(d, StoryDoesNotExist(d, e, s))
      BY <1>3 DEF DeleteStoryHandler
    <2> HIDE DEF out
    <2> QED BY <1>3, <2>1, BringsMissingStory DEF out
  <1> QED BY <1>1, <1>2, <1>3 DEF HasStory

\* The page of a story is asked for on the page of its epic.
LEMMA GetStoryBrings ==
  ASSUME NEW d \in Db, NEW stack \in Seq(Page), Nested(stack), Len(stack) = 2, NEW s \in Id,
         NEW e \in Id, stack[2].epic = e
  PROVE  Brings(GetStoryHandler(d, e, s), stack, <<e, s>>)
  <1> DEFINE out == GetStoryHandler(d, e, s)
             p == [is |-> "story", epic |-> e, story |-> s,
                   status |-> d.epics[e].stories[s]]
             new == Append(stack, p)
  <1>1. out.db = d
    BY DEF GetStoryHandler, Unchanged
  <1>2. CASE HasStory(d, e, s)
    <2>1. ParseResponse(stack, out.reply) = new
      BY <1>2 DEF ParseResponse, ParseGetStory, GetStoryHandler, StoryDetailPage, Unchanged
    <2>2. p \in Page => Lands(new, p)
      <3>1. p.is = "story" /\ p.epic = e
        OBVIOUS
      <3> HIDE DEF p
      <3> QED BY <3>1, LandsOnTop
    <2> HIDE DEF out, new
    <2> QED BY <1>1, <1>2, <2>1, <2>2, BringsStory DEF out
  <1>3. CASE ~HasEpic(d, e)
    <2>1. out.reply = EpicDoesNotExist(d, e)
      BY <1>3 DEF GetStoryHandler, HasStory, Unchanged
    <2> HIDE DEF out
    <2> QED BY <1>1, <2>1, BringsMissingEpic DEF out
  <1>4. CASE HasEpic(d, e) /\ ~HasStory(d, e, s)
    <2>1. out = Unchanged(d, StoryDoesNotExist(d, e, s)) /\ Len(stack) > 1
      BY <1>4 DEF GetStoryHandler
    <2> HIDE DEF out
    <2> QED BY <1>4, <2>1, BringsMissingStory DEF out
  <1> QED BY <1>2, <1>3, <1>4 DEF HasStory

LEMMA UpdateStoryStatusBrings ==
  ASSUME NEW d \in Db, NEW stack \in Seq(Page), Nested(stack), Len(stack) = 3, NEW s \in Id,
         NEW e \in Id, stack[2].epic = e, NEW st \in Status
  PROVE  Brings(UpdateStoryStatusHandler(d, e, s, st), stack, <<e, s>>)
  <1> DEFINE out == UpdateStoryStatusHandler(d, e, s, st)
             p == [is |-> "story", epic |-> e, story |-> s, status |-> st]
             new == ReplaceTop(stack, p)
  <1>1. CASE HasStory(d, e, s)
    <2>1. out.db = SetStoryStatus(d, e, s, st)
      BY <1>1 DEF UpdateStoryStatusHandler, Changed
    <2>2. out.db \in Db /\ out.db.epics[e] \in Epic
      <3>1. st \in Status \cup {Absent} /\ HasEpic(d, e)
        BY <1>1 DEF HasStory
      <3> QED BY <2>1, <3>1, SetStoryType DEF SetStoryStatus
    <2>3. out.db.epics[e].stories[s] = st
      <3>1. d.epics[e] \in Epic
        BY <1>1, LookupType DEF HasStory
      <3>2. out.db.epics[e] = [d.epics[e] EXCEPT !.stories[s] = st]
        BY <2>1 DEF SetStoryStatus, Db, Map
      <3> HIDE DEF out
      <3> QED BY <3>1, <3>2 DEF Epic, Map
    <2>4. HasStory(out.db, e, s)
      BY <2>2, <2>3, AbsentAssumption DEF HasStory, HasEpic
    <2>5. ParseResponse(stack, out.reply) = new
      BY <1>1 DEF ParseResponse, ParseUpdateStoryStatus, UpdateStoryStatusHandler,
                  StoryDetailPage, Asserting, Changed
    <2>6. p \in Page => Lands(new, p)
      <3>1. p.is = "story" /\ p.epic = e
        OBVIOUS
      <3> HIDE DEF p
      <3> QED BY <3>1, LandsInstead
    <2>7. p = [is |-> "story", epic |-> e, story |-> s,
               status |-> out.db.epics[e].stories[s]]
      BY <2>3, Zenon
    <2> HIDE DEF out, new, p
    <2> QED BY <2>2, <2>4, <2>5, <2>6, <2>7, BringsStory DEF out
  <1>2. CASE ~HasEpic(d, e)
    <2>1. out.db = d /\ out.reply = EpicDoesNotExist(d, e)
      BY <1>2 DEF UpdateStoryStatusHandler, HasStory, Unchanged
    <2> HIDE DEF out
    <2> QED BY <2>1, BringsMissingEpic DEF out
  <1>3. CASE HasEpic(d, e) /\ ~HasStory(d, e, s)
    <2>1. out = Unchanged(d, StoryDoesNotExist(d, e, s)) /\ Len(stack) > 1
      BY <1>3 DEF UpdateStoryStatusHandler
    <2> HIDE DEF out
    <2> QED BY <1>3, <2>1, BringsMissingStory DEF out
  <1> QED BY <1>1, <1>2, <1>3 DEF HasStory

-----------------------------------------------------------------------------
(***************************************************************************)
(* Every request that a page offers is answered with a page on its way.    *)
(***************************************************************************)
LEMMA OptionsType == \A p \in Page : Options(p) \subseteq Request
  BY DEF Options, HomeOptions, EpicOptions, StoryOptions, Page, Request

\* What a client with this stack may be waiting for the reply to.
Waits(stack, r) ==
  \/ stack = <<>> /\ r = NewClient
  \/ stack # <<>> /\ Nested(stack) /\ r \in Options(Last(stack))

LEMMA HomeAnswer ==
  ASSUME NEW d \in Db, NEW stack \in Seq(Page), Nested(stack), Len(stack) = 1,
         NEW r \in HomeOptions
  PROVE  Brings(Handle(d, r), stack, Way(r))
  <1>1. CASE r.op = "AddEpic"
    <2>1. Handle(d, r) = AddEpicHandler(d) /\ Way(r) = <<>>
      BY <1>1 DEF Handle, Way
    <2> QED BY <2>1, AddEpicBrings
  <1>2. CASE r.op = "GetEpic"
    <2>1. Handle(d, r) = GetEpicHandler(d, r.epic) /\ Way(r) = <<r.epic>> /\ r.epic \in Id
      BY <1>2 DEF Handle, Way, HomeOptions
    <2> QED BY <2>1, GetEpicBrings
  <1> QED BY <1>1, <1>2 DEF HomeOptions

LEMMA EpicAnswer ==
  ASSUME NEW d \in Db, NEW stack \in Seq(Page), Nested(stack), Len(stack) = 2,
         NEW p \in Page, p.is = "epic", p.epic = stack[2].epic, NEW r \in EpicOptions(p)
  PROVE  Brings(Handle(d, r), stack, Way(r))
  <1>1. r.epic = p.epic /\ r.epic \in Id /\ stack[2].epic = r.epic /\ Len(stack) > 1
    BY DEF EpicOptions, Page
  <1>2. CASE r.op = "UpdateEpicStatus"
    <2>1. /\ Handle(d, r) = UpdateEpicStatusHandler(d, r.epic, r.status)
          /\ Way(r) = <<r.epic>> /\ r.status \in Status
      BY <1>2 DEF Handle, Way, EpicOptions
    <2> QED BY <1>1, <2>1, UpdateEpicStatusBrings
  <1>3. CASE r.op = "DeleteEpic"
    <2>1. Handle(d, r) = DeleteEpicHandler(d, r.epic) /\ Way(r) = <<>>
      BY <1>3 DEF Handle, Way
    <2> QED BY <1>1, <2>1, DeleteEpicBrings
  <1>4. CASE r.op = "AddStory"
    <2>1. Handle(d, r) = AddStoryHandler(d, r.epic) /\ Way(r) = <<r.epic>>
      BY <1>4 DEF Handle, Way
    <2> QED BY <1>1, <2>1, AddStoryBrings
  <1>5. CASE r.op = "GetStory"
    <2>1. /\ Handle(d, r) = GetStoryHandler(d, r.epic, r.story)
          /\ Way(r) = <<r.epic, r.story>> /\ r.story \in Id
      BY <1>5 DEF Handle, Way, EpicOptions
    <2> QED BY <1>1, <2>1, GetStoryBrings
  <1> QED BY <1>2, <1>3, <1>4, <1>5 DEF EpicOptions

LEMMA StoryAnswer ==
  ASSUME NEW d \in Db, NEW stack \in Seq(Page), Nested(stack), Len(stack) = 3,
         NEW p \in Page, p.is = "story", p.epic = stack[2].epic, NEW r \in StoryOptions(p)
  PROVE  Brings(Handle(d, r), stack, Way(r))
  <1>1. /\ r.epic = p.epic /\ r.epic \in Id /\ r.story \in Id
        /\ stack[2].epic = r.epic /\ Len(stack) > 1
    BY DEF StoryOptions, Page
  <1>2. CASE r.op = "UpdateStoryStatus"
    <2>1. /\ Handle(d, r) = UpdateStoryStatusHandler(d, r.epic, r.story, r.status)
          /\ Way(r) = <<r.epic, r.story>> /\ r.status \in Status
      BY <1>2 DEF Handle, Way, StoryOptions
    <2> QED BY <1>1, <2>1, UpdateStoryStatusBrings
  <1>3. CASE r.op = "DeleteStory"
    <2>1. Handle(d, r) = DeleteStoryHandler(d, r.epic, r.story) /\ Way(r) = <<r.epic>>
      BY <1>3 DEF Handle, Way
    <2> QED BY <1>1, <2>1, DeleteStoryBrings
  <1> QED BY <1>2, <1>3 DEF StoryOptions

\* Whatever has become of the database since a page was filled, and whatever its
\* user chooses, no assertion about the page stack fails on the reply, the page
\* it brings shows the database that the request has left, and it is a page of
\* the item that was asked for or of one that holds it.
THEOREM EveryReplyBringsItsPage ==
  ASSUME NEW d \in Db, NEW stack \in Seq(Page), NEW r, Waits(stack, r)
  PROVE  Brings(Handle(d, r), stack, Way(r))
  <1>1. CASE stack = <<>> /\ r = NewClient
    <2>1. Handle(d, r) = NewClientHandler(d) /\ Way(r) = <<>>
      BY <1>1 DEF Handle, Way, NewClient
    <2> QED BY <1>1, <2>1, NewClientBrings
  <1>2. CASE stack # <<>> /\ Nested(stack) /\ r \in Options(Last(stack))
    <2> DEFINE p == Last(stack)
    <2>1. /\ p \in Page
          /\ p.is = "home" => Len(stack) = 1
          /\ p.is = "epic" => Len(stack) = 2 /\ p = stack[2]
          /\ p.is = "story" => Len(stack) = 3 /\ p.epic = stack[2].epic
      BY <1>2, Depth DEF Last
    <2>2. r \in Options(p)
      BY <1>2
    <2> HIDE DEF p
    <2>3. CASE p.is = "home"
      BY <1>2, <2>1, <2>2, <2>3, HomeAnswer DEF Options
    <2>4. CASE p.is = "epic"
      <3>1. r \in EpicOptions(p) /\ p.epic = stack[2].epic
        BY <2>1, <2>2, <2>4 DEF Options
      <3> QED BY <1>2, <2>1, <2>4, <3>1, EpicAnswer
    <2>5. CASE p.is = "story"
      <3>1. r \in StoryOptions(p)
        BY <2>2, <2>5 DEF Options
      <3> QED BY <1>2, <2>1, <2>5, <3>1, StoryAnswer
    <2> QED BY <2>1, <2>3, <2>4, <2>5 DEF Page
  <1> QED BY <1>1, <1>2 DEF Waits

-----------------------------------------------------------------------------
(***************************************************************************)
(* The inductive invariant.  Of the requests of a client at most one is on *)
(* its way, the one its page has offered, or its reply is, which has been  *)
(* made for the stack that it comes back to.                               *)
(***************************************************************************)
Brought(c) == ParseResponse(pageStack[c], Head(done[c]))

AnsweredAt(c) ==
  /\ todo[c] = <<>> /\ Len(done[c]) = 1
  /\ Lands(Brought(c), Last(Brought(c)))
  /\ IsPrefix(Path(Last(Brought(c))), Way(asked[c]))
  /\ current[c] => Shows(db, Last(Brought(c)))

OutsideAt(c) ==
  /\ \/ at[c] = "out" /\ conn[c] = "out" /\ todo[c] = <<>>
     \/ at[c] = "over" /\ conn[c] = "left"
  /\ done[c] = <<>> /\ pageStack[c] = <<>> /\ asked[c] = NewClient

AwaitAt(c) ==
  /\ at[c] = "await" /\ conn[c] = "in"
  /\ Waits(pageStack[c], asked[c])
  /\ \/ todo[c] \in {<<asked[c]>>, <<>>} /\ done[c] = <<>>
     \/ AnsweredAt(c)

PromptAt(c) ==
  /\ at[c] = "prompt" /\ conn[c] = "in"
  /\ todo[c] = <<>> /\ done[c] = <<>>
  /\ pageStack[c] # <<>> /\ Nested(pageStack[c]) /\ asked[c] = NewClient
  /\ current[c] => Shows(db, Top(c))

ClientAt(c) == OutsideAt(c) \/ AwaitAt(c) \/ PromptAt(c)

ClientsInv == \A c \in Client : ClientAt(c)

Inv == TypeOK /\ ClientsInv

InPlace(c) ==
  /\ at'[c] = at[c] /\ conn'[c] = conn[c] /\ asked'[c] = asked[c]
  /\ todo'[c] = todo[c] /\ done'[c] = done[c] /\ pageStack'[c] = pageStack[c]
  /\ current'[c] => current[c] /\ db' = db

\* What another client does.
LEMMA InPlaceKeeps ==
  ASSUME NEW c \in Client, ClientAt(c), InPlace(c)
  PROVE  ClientAt(c)'
  <1>1. CASE OutsideAt(c)
    <2>1. OutsideAt(c)'
      BY <1>1 DEF OutsideAt, InPlace
    <2> QED BY <2>1 DEF ClientAt
  <1>2. CASE AwaitAt(c)
    <2>1. Brought(c)' = Brought(c)
      BY DEF Brought, InPlace
    <2>2. AnsweredAt(c) => AnsweredAt(c)'
      BY <2>1, Zenon DEF AnsweredAt, InPlace
    <2>3. AwaitAt(c)'
      BY <1>2, <2>2 DEF AwaitAt, InPlace
    <2> QED BY <2>3 DEF ClientAt
  <1>3. CASE PromptAt(c)
    <2>1. Top(c)' = Top(c)
      BY DEF Top, InPlace
    <2>2. PromptAt(c)'
      BY <1>3, <2>1, Zenon DEF PromptAt, InPlace
    <2> QED BY <2>2 DEF ClientAt
  <1> QED BY <1>1, <1>2, <1>3 DEF ClientAt

LEMMA InterfaceInitHolds == InterfaceInit => Inv
  <1> SUFFICES ASSUME InterfaceInit PROVE Inv
    OBVIOUS
  <1>1. <<>> \in Seq(Page) /\ <<>> \in Seq(Reply) /\ <<>> \in Seq(Request \cup {NewClient})
    OBVIOUS
  <1>2. TypeOK
    BY <1>1, InitialDbsAssumption, MaxAddsAssumption DEF InterfaceInit, Init, TypeOK, Where
  <1>3. ASSUME NEW c \in Client PROVE OutsideAt(c)
    BY <1>3 DEF InterfaceInit, Init, OutsideAt
  <1> QED BY <1>2, <1>3 DEF Inv, ClientsInv, ClientAt

\* A step of one client.
LEMMA OneMoves ==
  ASSUME NEW c \in Client, ClientsInv, ClientAt(c)',
         \A x \in Client \ {c} : InPlace(x)
  PROVE  ClientsInv'
  <1>1. ASSUME NEW x \in Client PROVE ClientAt(x)'
    <2>1. CASE x = c
      BY <2>1
    <2>2. CASE x # c
      BY <2>2, InPlaceKeeps DEF ClientsInv
    <2> QED BY <2>1, <2>2
  <1> QED BY <1>1 DEF ClientsInv

LEMMA ConnectKeeps ==
  ASSUME Inv, NEW c \in Client, Connect(c)
  PROVE  Inv'
  <1>1. TypeOK'
    <2>1. <<NewClient>> \in Seq(Request \cup {NewClient})
      OBVIOUS
    <2> QED BY <2>1 DEF Inv, TypeOK, Connect, Join, Where
  <1>2. OutsideAt(c) /\ at[c] = "out"
    BY DEF Inv, ClientsInv, ClientAt, OutsideAt, AwaitAt, PromptAt, Connect, Join
  <1>3. AwaitAt(c)'
    <2>1. at'[c] = "await" /\ conn'[c] = "in" /\ asked'[c] = NewClient /\ pageStack'[c] = <<>>
      BY <1>2 DEF Inv, TypeOK, Connect, Join, OutsideAt
    <2>2. todo'[c] \in {<<NewClient>>, <<>>} /\ done'[c] = <<>>
      BY <1>2 DEF Inv, TypeOK, Connect, Join, OutsideAt
    <2> QED BY <2>1, <2>2 DEF AwaitAt, Waits
  <1>4. \A x \in Client \ {c} : InPlace(x)
    BY DEF Inv, TypeOK, Connect, Join, InPlace
  <1> QED BY <1>1, <1>3, <1>4, OneMoves DEF Inv, ClientAt

\* Who has a reply waits for it, and it is the only one.
LEMMA OneReply ==
  ASSUME ClientsInv, NEW c \in Client, done[c] # <<>>
  PROVE  AwaitAt(c) /\ AnsweredAt(c)
  BY DEF ClientsInv, ClientAt, OutsideAt, AwaitAt, PromptAt

LEMMA TailOfOne ==
  ASSUME NEW S, NEW s \in Seq(S), Len(s) = 1
  PROVE  Tail(s) = <<>> /\ Tail(s) \in Seq(S)
  <1>1. Tail(s) \in Seq(S) /\ Len(Tail(s)) = 0
    OBVIOUS
  <1> QED BY <1>1, EmptySeq

LEMMA ShowKeeps ==
  ASSUME Inv, NEW c \in Client, Show(c)
  PROVE  Inv' /\ at'[c] = "prompt" /\ pageStack'[c] = Brought(c)
  <1>1. AwaitAt(c) /\ AnsweredAt(c)
    BY OneReply DEF Inv, Show, Deliver
  <1>2. Brought(c) \in Seq(Page) /\ Brought(c) # <<>> /\ Nested(Brought(c))
    BY <1>1 DEF AnsweredAt, Lands
  <1>3. pageStack' = [pageStack EXCEPT ![c] = Brought(c)]
    BY DEF Show, Brought
  <1>4. at' = [at EXCEPT ![c] = "prompt"]
    BY <1>2 DEF Show, Brought, AssertionFailed
  <1>5. Tail(done[c]) = <<>> /\ Tail(done[c]) \in Seq(Reply)
    BY <1>1, TailOfOne DEF Inv, TypeOK, AnsweredAt
  <1>6. TypeOK'
    BY <1>2, <1>3, <1>4, <1>5 DEF Inv, TypeOK, Show, Deliver, Where
  <1>7. /\ at'[c] = "prompt" /\ conn'[c] = "in" /\ todo'[c] = <<>> /\ done'[c] = <<>>
        /\ pageStack'[c] = Brought(c) /\ asked'[c] = NewClient
        /\ current' = current /\ db' = db
    BY <1>1, <1>3, <1>4, <1>5 DEF Inv, TypeOK, Show, Deliver, AwaitAt, AnsweredAt
  <1>8. PromptAt(c)'
    <2>1. Top(c)' = Last(Brought(c))
      BY <1>7, Zenon DEF Top
    <2>2. current[c] => Shows(db, Last(Brought(c)))
      BY <1>1 DEF AnsweredAt
    <2> QED BY <1>2, <1>7, <2>1, <2>2, Zenon DEF PromptAt
  <1>9. \A x \in Client \ {c} : InPlace(x)
    BY <1>3, <1>4 DEF Inv, TypeOK, Show, Deliver, InPlace
  <1> QED BY <1>6, <1>7, <1>8, <1>9, OneMoves DEF Inv, ClientAt

LEMMA ChooseKeeps ==
  ASSUME Inv, NEW c \in Client, NEW r, Choose(c, r)
  PROVE  Inv'
  <1>1. PromptAt(c)
    BY DEF Inv, ClientsInv, ClientAt, OutsideAt, AwaitAt, Choose
  <1>2. r \in Request /\ r \in Options(Last(pageStack[c]))
    <2>1. Last(pageStack[c]) \in Page
      BY <1>1, Depth DEF Inv, TypeOK, PromptAt
    <2> QED BY <2>1, OptionsType DEF Choose, Top
  <1>3. Append(todo[c], r) = <<r>> /\ <<r>> \in Seq(Request \cup {NewClient})
    BY <1>1, <1>2 DEF PromptAt
  <1>4. adds' \in 0 .. MaxAdds
    BY MaxAddsAssumption DEF Inv, TypeOK, Choose, Adds
  <1>5. TypeOK'
    BY <1>2, <1>3, <1>4 DEF Inv, TypeOK, Choose, Ask, Where
  <1>6. /\ at'[c] = "await" /\ conn'[c] = "in" /\ asked'[c] = r
        /\ pageStack'[c] = pageStack[c] /\ todo'[c] = <<r>> /\ done'[c] = <<>>
    BY <1>1, <1>3 DEF Inv, TypeOK, Choose, Ask, PromptAt
  <1>7. AwaitAt(c)'
    BY <1>1, <1>2, <1>6 DEF AwaitAt, Waits, PromptAt
  <1>8. \A x \in Client \ {c} : InPlace(x)
    BY DEF Inv, TypeOK, Choose, Ask, InPlace
  <1> QED BY <1>5, <1>7, <1>8, OneMoves DEF Inv, ClientAt

LEMMA PreviousKeeps ==
  ASSUME Inv, NEW c \in Client, Previous(c)
  PROVE  Inv'
  <1>1. PromptAt(c)
    BY DEF Inv, ClientsInv, ClientAt, OutsideAt, AwaitAt, Previous
  <1>2. Len(pageStack[c]) > 1
    <2>1. pageStack[c] \in Seq(Page) /\ Nested(pageStack[c]) /\ Last(pageStack[c]).is # "home"
      BY <1>1 DEF Inv, TypeOK, PromptAt, Previous, Top
    <2>2. Last(pageStack[c]).is \in {"epic", "story"}
      BY <2>1, Depth DEF Page
    <2> QED BY <2>1, <2>2, Depth
  <1> DEFINE new == Front(pageStack[c])
  <1>3. new \in Seq(Page) /\ new # <<>> /\ Nested(new)
    BY <1>1, <1>2, LandsBack DEF Inv, TypeOK, PromptAt
  <1>4. pageStack' = [pageStack EXCEPT ![c] = new] /\ at' = at
    <2>1. Asserting(Len(pageStack[c]) > 1, Front(pageStack[c])) = new
      BY <1>2 DEF Asserting
    <2> HIDE DEF new
    <2>2. pageStack' = [pageStack EXCEPT ![c] = new] /\ at' = [at EXCEPT ![c] = at[c]]
      BY <1>3, <2>1 DEF Previous, AssertionFailed
    <2> QED BY <2>2 DEF Inv, TypeOK
  <1> HIDE DEF new
  <1>5. /\ db' = db /\ up' = up /\ conn' = conn /\ todo' = todo /\ done' = done
        /\ adds' = adds /\ asked' = asked /\ current' = [current EXCEPT ![c] = FALSE]
    BY DEF Previous, vars
  <1>6. TypeOK'
    BY <1>3, <1>4, <1>5 DEF Inv, TypeOK
  <1>7. PromptAt(c)'
    <2>1. pageStack'[c] = new /\ ~current'[c]
      BY <1>4, <1>5 DEF Inv, TypeOK
    <2> QED BY <1>1, <1>3, <1>4, <1>5, <2>1, Zenon DEF PromptAt
  <1>8. \A x \in Client \ {c} : InPlace(x)
    BY <1>4, <1>5 DEF Inv, TypeOK, InPlace
  <1> QED BY <1>6, <1>7, <1>8, OneMoves DEF Inv, ClientAt

LEMMA EndsKeeps ==
  ASSUME Inv, NEW c \in Client, Ends(c)
  PROVE  Inv' /\ at'[c] = "over"
  <1>1. <<>> \in Seq(Reply) /\ <<>> \in Seq(Page)
    OBVIOUS
  <1>2. TypeOK'
    BY <1>1 DEF Inv, TypeOK, Ends, Leave, Where
  <1>3. /\ at'[c] = "over" /\ conn'[c] = "left" /\ done'[c] = <<>> /\ pageStack'[c] = <<>>
        /\ asked'[c] = NewClient
    BY DEF Inv, TypeOK, Ends, Leave
  <1>4. OutsideAt(c)'
    BY <1>3 DEF OutsideAt
  <1>5. \A x \in Client \ {c} : InPlace(x)
    BY DEF Inv, TypeOK, Ends, Leave, InPlace
  <1> QED BY <1>2, <1>3, <1>4, <1>5, OneMoves DEF Inv, ClientAt

LEMMA PartOfOne ==
  ASSUME NEW S, NEW s \in Seq(S), Len(s) = 1, NEW n \in 0 .. 1, s # SubSeq(s, 1, n)
  PROVE  SubSeq(s, 1, n) = <<>>
  <1>1. SubSeq(s, 1, 1) = s
    OBVIOUS
  <1>2. n = 0
    BY <1>1
  <1>3. SubSeq(s, 1, 0) \in Seq(S) /\ Len(SubSeq(s, 1, 0)) = 0
    OBVIOUS
  <1> QED BY <1>2, <1>3, EmptySeq

Unserved(c) ==
  /\ at'[c] = at[c] /\ conn'[c] = conn[c] /\ asked'[c] = asked[c]
  /\ done'[c] = done[c] /\ pageStack'[c] = pageStack[c] /\ ~current'[c]

\* The others, when the database has changed: what they show is old now.
LEMMA UnservedKeeps ==
  ASSUME NEW c \in Client, ClientAt(c), Unserved(c), todo'[c] = todo[c] \/ todo'[c] = <<>>
  PROVE  ClientAt(c)'
  <1>1. CASE OutsideAt(c)
    BY <1>1 DEF OutsideAt, ClientAt, Unserved
  <1>2. CASE AwaitAt(c)
    <2>1. Brought(c)' = Brought(c)
      BY DEF Brought, Unserved
    <2>2. AnsweredAt(c) => AnsweredAt(c)'
      BY <2>1, Zenon DEF AnsweredAt, Unserved
    <2>3. AwaitAt(c)'
      BY <1>2, <2>2 DEF AwaitAt, Unserved
    <2> QED BY <2>3 DEF ClientAt
  <1>3. CASE PromptAt(c)
    <2>1. PromptAt(c)'
      BY <1>3, Zenon DEF PromptAt, Unserved
    <2> QED BY <2>1 DEF ClientAt
  <1> QED BY <1>1, <1>2, <1>3 DEF ClientAt

\* The request of a client is served: in the order of the clients' requests its
\* reply is the last that has been made.
LEMMA ServesKeeps ==
  ASSUME Inv, NEW c \in Client, Serves(c)
  PROVE  Inv'
  <1> DEFINE r == Head(todo[c])
             out == Handle(db, r)
  <1>1. r \in Request \cup {NewClient} /\ Tail(todo[c]) \in Seq(Request \cup {NewClient})
    BY DEF Inv, TypeOK, Serves, Serve
  <1>2. out \in Outcome
    BY <1>1, HandleType DEF Inv, TypeOK
  <1>3. out.db \in Db /\ out.reply \in Reply
    BY <1>2 DEF Outcome
  <1>4. /\ db' = out.db
        /\ done' = [done EXCEPT ![c] = IF conn[c] = "in" THEN Append(@, out.reply) ELSE <<>>]
        /\ todo' = [todo EXCEPT ![c] = Tail(@)] /\ todo[c] # <<>>
        /\ up' = up /\ conn' = conn /\ at' = at /\ adds' = adds /\ pageStack' = pageStack
        /\ asked' = asked /\ current' = [d \in Client |-> d = c]
    BY DEF Serves, Serve, clientVars
  <1> HIDE DEF out, r
  <1>5. Append(done[c], out.reply) \in Seq(Reply) /\ <<>> \in Seq(Reply)
    BY <1>3 DEF Inv, TypeOK
  <1>6. TypeOK'
    BY <1>1, <1>3, <1>4, <1>5 DEF Inv, TypeOK
  <1>7. ASSUME NEW x \in Client, x # c PROVE ClientAt(x)'
    <2>1. ~current'[x]
      BY <1>4, <1>7
    <2>2. /\ done'[x] = done[x] /\ todo'[x] = todo[x] /\ conn'[x] = conn[x]
          /\ at'[x] = at[x] /\ pageStack'[x] = pageStack[x] /\ asked'[x] = asked[x]
      BY <1>4, <1>7 DEF Inv, TypeOK
    <2> QED BY <2>1, <2>2, UnservedKeeps DEF Inv, ClientsInv, Unserved
  <1>8. ClientAt(c)'
    <2>1. CASE OutsideAt(c)
      <3>1. conn[c] = "left" /\ at[c] = "over"
        BY <1>4, <2>1 DEF OutsideAt
      <3>2. done'[c] = <<>>
        BY <1>4, <3>1 DEF Inv, TypeOK
      <3>3. OutsideAt(c)'
        BY <1>4, <2>1, <3>1, <3>2 DEF OutsideAt
      <3> QED BY <3>3 DEF ClientAt
    <2>2. CASE AwaitAt(c)
      <3>1. todo[c] = <<asked[c]>> /\ done[c] = <<>> /\ conn[c] = "in"
        BY <1>4, <2>2 DEF AwaitAt, AnsweredAt
      <3>2. r = asked[c] /\ todo'[c] = <<>> /\ done'[c] = <<out.reply>>
        BY <1>4, <3>1 DEF Inv, TypeOK, r
      <3>3. Brings(out, pageStack[c], Way(asked[c]))
        BY <2>2, <3>2, EveryReplyBringsItsPage DEF Inv, TypeOK, AwaitAt, out
      <3>4. Brought(c)' = ParseResponse(pageStack[c], out.reply)
        BY <1>4, <3>2 DEF Brought
      <3>5. AnsweredAt(c)'
        <4>1. Len(done'[c]) = 1
          BY <3>2
        <4> QED BY <1>4, <3>2, <3>3, <3>4, <4>1, Zenon DEF AnsweredAt, Brings
      <3>6. AwaitAt(c)'
        BY <1>4, <2>2, <3>5, Zenon DEF AwaitAt
      <3> QED BY <3>6 DEF ClientAt
    <2>3. ~PromptAt(c)
      BY <1>4 DEF PromptAt
    <2> QED BY <2>1, <2>2, <2>3 DEF Inv, ClientsInv, ClientAt
  <1>9. ClientsInv'
    <2>1. ASSUME NEW x \in Client PROVE ClientAt(x)'
      BY <1>7, <1>8
    <2> QED BY <2>1 DEF ClientsInv
  <1> QED BY <1>6, <1>9 DEF Inv

LEMMA LosesKeeps ==
  ASSUME Inv, NEW c \in Client, Loses(c)
  PROVE  Inv'
  <1>1. /\ db' = db /\ up' = up /\ conn' = conn /\ at' = at /\ adds' = adds
        /\ pageStack' = pageStack /\ asked' = asked /\ current' = current
    BY DEF Loses, Forget, Lose, clientVars
  <1>2. CASE Forget(c)
    <2>1. PICK n \in 0 .. Len(todo[c]) : todo' = [todo EXCEPT ![c] = SubSeq(todo[c], 1, n)]
      BY <1>2 DEF Forget
    <2>2. SubSeq(todo[c], 1, n) \in Seq(Request \cup {NewClient})
      BY <2>1 DEF Inv, TypeOK
    <2>3. done' = done /\ conn[c] = "left"
      BY <1>2 DEF Forget
    <2>4. TypeOK'
      BY <1>1, <2>1, <2>2, <2>3 DEF Inv, TypeOK
    <2>5. OutsideAt(c) /\ at[c] = "over"
      BY <2>3 DEF Inv, ClientsInv, ClientAt, OutsideAt, AwaitAt, PromptAt
    <2>6. OutsideAt(c)'
      BY <1>1, <2>3, <2>5 DEF OutsideAt
    <2>7. \A x \in Client \ {c} : InPlace(x)
      BY <1>1, <2>1, <2>3 DEF Inv, TypeOK, InPlace
    <2> QED BY <2>4, <2>6, <2>7, OneMoves DEF Inv, ClientAt
  <1>3. CASE Lose(c)
    <2>1. PICK n \in 0 .. Len(done[c]) : done' = [done EXCEPT ![c] = SubSeq(done[c], 1, n)]
      BY <1>3 DEF Lose
    <2>2. SubSeq(done[c], 1, n) \in Seq(Reply) /\ done[c] \in Seq(Reply)
      BY <2>1 DEF Inv, TypeOK
    <2>3. todo' = todo
      BY <1>3 DEF Lose
    <2>4. TypeOK'
      BY <1>1, <2>1, <2>2, <2>3 DEF Inv, TypeOK
    <2>5. \A x \in Client \ {c} : InPlace(x)
      BY <1>1, <2>1, <2>3 DEF Inv, TypeOK, InPlace
    <2>6. done'[c] = SubSeq(done[c], 1, n)
      BY <2>1 DEF Inv, TypeOK
    <2>7. CASE done[c] = SubSeq(done[c], 1, n)
      <3>1. InPlace(c)
        BY <1>1, <2>3, <2>6, <2>7 DEF InPlace
      <3>2. ClientAt(c)'
        BY <3>1, InPlaceKeeps DEF Inv, ClientsInv
      <3> QED BY <2>4, <2>5, <3>2, OneMoves DEF Inv
    <2>8. CASE done[c] # SubSeq(done[c], 1, n)
      <3>1. done[c] # <<>>
        BY <2>1, <2>2, <2>8, EmptySeq
      <3>2. AwaitAt(c) /\ AnsweredAt(c)
        BY <3>1, OneReply DEF Inv
      <3>3. done'[c] = <<>>
        BY <2>1, <2>2, <2>6, <2>8, <3>2, PartOfOne DEF AnsweredAt
      <3>4. AwaitAt(c)'
        BY <1>1, <2>3, <3>2, <3>3 DEF AwaitAt, AnsweredAt
      <3> QED BY <2>4, <2>5, <3>4, OneMoves DEF Inv, ClientAt
    <2> QED BY <2>7, <2>8
  <1> QED BY <1>2, <1>3 DEF Loses

LEMMA StopsKeeps ==
  ASSUME Inv, Stops
  PROVE  Inv'
  <1>1. /\ db' = EmptyDb /\ up' = FALSE /\ todo' = [c \in Client |-> <<>>]
        /\ conn' = conn /\ done' = done /\ at' = at /\ adds' = adds
        /\ pageStack' = pageStack /\ asked' = asked /\ current' = [c \in Client |-> FALSE]
    BY DEF Stops, Stop, clientVars
  <1>2. EmptyDb \in Db /\ <<>> \in Seq(Request \cup {NewClient})
    BY MaxIdNat DEF EmptyDb, Db, Map, NoEntries
  <1>3. TypeOK'
    BY <1>1, <1>2 DEF Inv, TypeOK
  <1>4. ASSUME NEW c \in Client PROVE ClientAt(c)'
    BY <1>1, <1>4, UnservedKeeps DEF Inv, ClientsInv, Unserved
  <1>5. ClientsInv'
    BY <1>4 DEF ClientsInv
  <1> QED BY <1>3, <1>5 DEF Inv

-----------------------------------------------------------------------------
(***************************************************************************)
(* The theorems.                                                           *)
(***************************************************************************)
LEMMA InvStep == Inv /\ [InterfaceNext]_allVars => Inv'
  <1> SUFFICES ASSUME Inv, [InterfaceNext]_allVars PROVE Inv'
    OBVIOUS
  <1>1. CASE Stops
    BY <1>1, StopsKeeps
  <1>2. ASSUME NEW c \in Client, Connect(c) PROVE Inv'
    BY <1>2, ConnectKeeps
  <1>3. ASSUME NEW c \in Client, Show(c) PROVE Inv'
    BY <1>3, ShowKeeps
  <1>4. ASSUME NEW c \in Client, Previous(c) PROVE Inv'
    BY <1>4, PreviousKeeps
  <1>5. ASSUME NEW c \in Client, Quit(c) \/ ConnectionLost(c) \/ Killed(c) PROVE Inv'
    BY <1>5, EndsKeeps DEF Quit, ConnectionLost, Killed
  <1>6. ASSUME NEW c \in Client, Serves(c) PROVE Inv'
    BY <1>6, ServesKeeps
  <1>7. ASSUME NEW c \in Client, Loses(c) PROVE Inv'
    BY <1>7, LosesKeeps
  <1>8. ASSUME NEW c \in Client, NEW r \in Requests, Choose(c, r) PROVE Inv'
    BY <1>8, ChooseKeeps
  <1>9. CASE UNCHANGED allVars
    <2>1. ASSUME NEW c \in Client PROVE ClientAt(c)'
      <3>1. InPlace(c)
        BY <1>9 DEF allVars, vars, clientVars, InPlace
      <3> QED BY <3>1, InPlaceKeeps DEF Inv, ClientsInv
    <2>2. TypeOK'
      BY <1>9 DEF Inv, TypeOK, allVars, vars, clientVars
    <2> QED BY <2>1, <2>2 DEF Inv, ClientsInv
  <1> QED BY <1>1, <1>2, <1>3, <1>4, <1>5, <1>6, <1>7, <1>8, <1>9 DEF InterfaceNext

THEOREM AlwaysInv == InterfaceSpec => []Inv
  BY InterfaceInitHolds, InvStep, PTL DEF InterfaceSpec

\* Every variable of the composition stays in its type.
THEOREM TypeCorrect == InterfaceSpec => []TypeOK
  <1>1. Inv => TypeOK
    BY DEF Inv
  <1> QED BY <1>1, AlwaysInv, PTL

\* No assertion of the interface on the depth of its page stack ever fails.
THEOREM NoClientPanics == InterfaceSpec => []NoAssertionFails
  <1>1. Inv => NoAssertionFails
    BY DEF Inv, ClientsInv, ClientAt, OutsideAt, AwaitAt, PromptAt, NoAssertionFails
  <1> QED BY <1>1, AlwaysInv, PTL

\* The pages of a client always nest as their items do.
THEOREM PagesAlwaysNest == InterfaceSpec => []PagesNest
  <1>1. Inv => PagesNest
    BY DEF Inv, ClientsInv, ClientAt, OutsideAt, AwaitAt, PromptAt, PagesNest
  <1> QED BY <1>1, AlwaysInv, PTL

\* A page brought by the request that was served last shows the database.
THEOREM PagesShowTheTruth == InterfaceSpec => []ShowsTheTruth
  <1>1. Inv => ShowsTheTruth
    BY DEF Inv, ClientsInv, ClientAt, OutsideAt, AwaitAt, PromptAt, ShowsTheTruth
  <1> QED BY <1>1, AlwaysInv, PTL

\* Only a reply ends the wait of a client with a prompt.
LEMMA OnlyShowPrompts ==
  ASSUME Inv, [InterfaceNext]_allVars, NEW c \in Client, at[c] = "await", at'[c] = "prompt"
  PROVE  Show(c)
  <1>1. ASSUME NEW d \in Client, Connect(d) PROVE at'[c] # "prompt"
    BY <1>1 DEF Inv, TypeOK, Connect
  <1>2. ASSUME NEW d \in Client, d # c, Show(d) PROVE at'[c] = at[c]
    BY <1>2 DEF Inv, TypeOK, Show
  <1>3. ASSUME NEW d \in Client, Previous(d) PROVE at'[c] # "prompt"
    <2>1. at[d] = "prompt" /\ c # d
      BY <1>3 DEF Previous
    <2> QED BY <1>3, <2>1 DEF Inv, TypeOK, Previous
  <1>4. ASSUME NEW d \in Client, Ends(d) PROVE at'[c] # "prompt"
    BY <1>4 DEF Inv, TypeOK, Ends
  <1>5. ASSUME NEW d \in Client, Quit(d) \/ ConnectionLost(d) \/ Killed(d)
        PROVE  at'[c] # "prompt"
    BY <1>4, <1>5 DEF Quit, ConnectionLost, Killed
  <1>6. ASSUME NEW d \in Client, Serves(d) \/ Loses(d) PROVE at' = at
    BY <1>6 DEF Serves, Loses, clientVars
  <1>7. ASSUME NEW d \in Client, NEW r \in Requests, Choose(d, r) PROVE at'[c] # "prompt"
    BY <1>7 DEF Inv, TypeOK, Choose
  <1>8. Stops => at' = at
    BY DEF Stops, clientVars
  <1>9. UNCHANGED allVars => at' = at
    BY DEF allVars, clientVars
  <1> QED BY <1>1, <1>2, <1>3, <1>5, <1>6, <1>7, <1>8, <1>9 DEF InterfaceNext

\* A reply leads to a page of the item that was asked for, or of one that it is
\* in, never to another.
THEOREM RepliesLandOnWay == InterfaceSpec => LandsOnWay
  <1> DEFINE Lead(c) == at[c] = "await" /\ at'[c] = "prompt" =>
                          IsPrefix(Path(Last(pageStack'[c])), Way(asked[c]))
  <1>1. ASSUME Inv, [InterfaceNext]_allVars, NEW c \in Client PROVE Lead(c)
    <2> SUFFICES ASSUME at[c] = "await", at'[c] = "prompt"
                 PROVE  IsPrefix(Path(Last(pageStack'[c])), Way(asked[c]))
      OBVIOUS
    <2>1. Show(c)
      BY <1>1, OnlyShowPrompts
    <2>2. pageStack'[c] = Brought(c)
      BY <1>1, <2>1, ShowKeeps
    <2>3. AnsweredAt(c)
      BY <1>1, <2>1, OneReply DEF Inv, Show, Deliver
    <2> QED BY <2>2, <2>3 DEF AnsweredAt
  <1>2. Inv /\ [InterfaceNext]_allVars => [\A c \in Client : Lead(c)]_allVars
    BY <1>1
  <1> QED BY <1>2, AlwaysInv, PTL DEF InterfaceSpec, LandsOnWay
=============================================================================
