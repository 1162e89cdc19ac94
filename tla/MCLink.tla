------------------------------- MODULE MCLink -------------------------------
(***************************************************************************)
(* An instance of Link for TLC.  Ids and lengths differ in every byte that *)
(* fits TLC's integers; texts are empty, of one byte, of one character of  *)
(* two bytes, or long.                                                     *)
(***************************************************************************)
EXTENDS Link

A == <<65>>

Eacute == <<195, 169>>

\* Its length takes two bytes.
Long == [i \in 1 .. 258 |-> 66]

Far == 1 + 256 * (2 + 256 * (255 + 256 * 4))

MCIds == {Far}

MCStory(id, name) ==
  [id |-> id, epic |-> 300, name |-> name, description |-> A, status |-> "Resolved"]

MCEpic(id, name, description, status, stories) ==
  [epic |-> [id |-> id, name |-> name, description |-> description, status |-> status],
   stories |-> stories]

MCSavedEpics ==
  {MCEpic(300, Eacute, <<>>, "Closed", {}),
   MCEpic(300, A, Eacute, "Open", {MCStory(Far, Eacute), MCStory(7, Long)})}

MCOtherEpics == {MCEpic(255, <<>>, A, "InProgress", {})}

Texted == {<<Eacute, A>>, <<Long, <<>> >>}

MCRequests ==
       {[op |-> "AddEpic", name |-> t[1], description |-> t[2]] : t \in Texted}
  \cup {[op |-> "AddStory", epic |-> Far, name |-> t[1], description |-> t[2]] : t \in Texted}
  \cup [op : {"DeleteEpic", "GetEpic"}, epic : {0, Far}]
  \cup [op : {"UpdateEpicStatus"}, epic : {0, Far}, status : {"Open", "Closed"}]
  \cup [op : {"GetStory", "DeleteStory"}, epic : {0, Far}, story : {7}]
  \cup [op : {"UpdateStoryStatus"}, epic : {7}, story : {0, Far}, status : {"InProgress"}]
  \* No bit of an operation, a status that is none, a name that is no text.
  \cup [op : {"Unparseable"},
        bytes : {[i \in 1 .. 13 |-> 0], RequestTag(4, 7, 4, 0), RequestTag(8, 7, 7, 4),
                 RequestTag(1, 1, 1, 0) \o <<195, 65>>}]
=============================================================================
