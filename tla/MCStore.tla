------------------------------ MODULE MCStore ------------------------------
(***************************************************************************)
(* Instances of Store for TLC.                                             *)
(***************************************************************************)
EXTENDS Store

\* Every request that writes, with one status to change to.
MCWrites ==
       [op : {"AddEpic"}]
  \cup [op : {"DeleteEpic", "AddStory"}, epic : Id]
  \cup [op : {"UpdateEpicStatus"}, epic : Id, status : {"Closed"}]
  \cup [op : {"DeleteStory"}, epic : Id, story : Id]
  \cup [op : {"UpdateStoryStatus"}, epic : Id, story : Id, status : {"Closed"}]
=============================================================================
