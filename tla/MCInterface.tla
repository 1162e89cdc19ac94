----------------------------- MODULE MCInterface -----------------------------
(***************************************************************************)
(* Instances of Interface for TLC.                                         *)
(***************************************************************************)
EXTENDS Interface

\* An epic, 1, with a story, 2.
MCOneStory == {AddStory(AddEpic(EmptyDb), 1)}

\* Every option of every page, with one status to choose, on the first epic and
\* its story: each may be typed before and after either client deletes it.
MCOptions ==
  {r \in Request :
     /\ r.op # "Unparseable"
     /\ "status" \in DOMAIN r => r.status = "Closed"
     /\ "epic" \in DOMAIN r => r.epic = 1
     /\ "story" \in DOMAIN r => r.story = 2}
=============================================================================
