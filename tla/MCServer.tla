------------------------------ MODULE MCServer ------------------------------
(***************************************************************************)
(* Instances of Server for TLC.                                            *)
(***************************************************************************)
EXTENDS Server

OneStory == AddStory(AddEpic(EmptyDb), 1)

MCEmpty == {EmptyDb}

MCOneStory == {OneStory}

\* The same after an epic, since deleted, that took the last id.
MCLastId == {[OneStory EXCEPT !.last = MaxId]}

\* Reads only: the number of requests is unbounded.
MCReads == {[op |-> "GetEpic", epic |-> 1]}

\* Two requests whose order matters.
MCOrdered == {[op |-> "DeleteEpic", epic |-> 1], [op |-> "AddStory", epic |-> 1]}

\* Those, and an addition that always takes effect.
MCGrowing == MCOrdered \cup {[op |-> "AddEpic"]}

\* Every operation, on items that exist at first.
MCOperations ==
  {[op |-> "AddEpic"], [op |-> "AddStory", epic |-> 1],
   [op |-> "Unparseable"], [op |-> "GetEpic", epic |-> 1],
   [op |-> "DeleteEpic", epic |-> 1],
   [op |-> "UpdateEpicStatus", epic |-> 1, status |-> "Closed"],
   [op |-> "GetStory", epic |-> 1, story |-> 2],
   [op |-> "DeleteStory", epic |-> 1, story |-> 2],
   [op |-> "UpdateStoryStatus", epic |-> 1, story |-> 2, status |-> "Closed"]}

Symmetry == Permutations(Client)
=============================================================================
