------------------------------ MODULE Interface ------------------------------
(***************************************************************************)
(* The client programs (src/bin/client.rs, src/bin/interface), composed    *)
(* with the service they talk to.  A client keeps a stack of pages, each   *)
(* filled from the reply that brought it: the home page with the list of   *)
(* epics, on it perhaps the page of an epic, and on that perhaps the page  *)
(* of one of its stories.  Its user chooses what the page on top offers;   *)
(* a request waits for its reply, and the reply replaces, pushes or pops   *)
(* pages, with assertions about the depth of the stack.  Other clients     *)
(* change the database between any two steps, so a page may show, and ask  *)
(* about, what is no longer there.                                         *)
(*                                                                         *)
(* The service is JiraService, which the server implements.  Printing,     *)
(* and input that is refused and asked for again, change no state and are  *)
(* left out; the dialogs of an option are part of choosing it.             *)
(***************************************************************************)
EXTENDS JiraService

CONSTANTS
  InitialDbs,   \* what DbState::load may return
  MaxAdds       \* bound: how many Add requests are ever sent

ASSUME InitialDbsAssumption == InitialDbs \subseteq Db
ASSUME MaxAddsAssumption == MaxAdds \in Nat

VARIABLES
  at,           \* at[c]: where the client program c is
  adds,         \* the Add requests sent so far
  pageStack,    \* pageStack[c]: page_stack, empty when there is no program
  asked,        \* history: the request whose reply c awaits
  current       \* history: whether the page c shows is what the request that
                \* was served last, of all clients, has brought

clientVars == <<at, adds, pageStack, asked>>
allVars == <<vars, clientVars, current>>

(***************************************************************************)
(* "await" in the read_exact of a response, "prompt" in the read_line of   *)
(* an option, "panicked" by an assertion, "over" when the process ended.   *)
(***************************************************************************)
Where == {"out", "await", "prompt", "panicked", "over"}

Page ==
       [is : {"home"}, list : Home]
  \cup [is : {"epic"}, epic : Id, page : Epic]
  \cup [is : {"story"}, epic : Id, story : Id, status : Status]

\* The type invariant.
TypeOK ==
  /\ db \in Db
  /\ up \in BOOLEAN
  /\ conn \in [Client -> {"out", "in", "left"}]
  /\ todo \in [Client -> Seq(Request \cup {NewClient})]
  /\ done \in [Client -> Seq(Reply)]
  /\ at \in [Client -> Where]
  /\ adds \in 0 .. MaxAdds
  /\ pageStack \in [Client -> Seq(Page)]
  /\ asked \in [Client -> Request \cup {NewClient}]
  /\ current \in [Client -> BOOLEAN]

InterfaceInit ==
  /\ db \in InitialDbs
  /\ Init
  /\ at = [c \in Client |-> "out"]
  /\ adds = 0
  /\ pageStack = [c \in Client |-> <<>>]
  /\ asked = [c \in Client |-> NewClient]
  /\ current = [c \in Client |-> FALSE]

-----------------------------------------------------------------------------
(***************************************************************************)
(* What the pages let a user ask (Page::parse_request).  The id of an epic *)
(* or of a story to go to is typed in: it need not be on the page.         *)
(***************************************************************************)
HomeOptions == [op : {"AddEpic"}] \cup [op : {"GetEpic"}, epic : Id]

EpicOptions(p) ==
       [op : {"UpdateEpicStatus"}, epic : {p.epic}, status : Status]
  \cup [op : {"DeleteEpic", "AddStory"}, epic : {p.epic}]
  \cup [op : {"GetStory"}, epic : {p.epic}, story : Id]

StoryOptions(p) ==
       [op : {"UpdateStoryStatus"}, epic : {p.epic}, story : {p.story}, status : Status]
  \cup [op : {"DeleteStory"}, epic : {p.epic}, story : {p.story}]

Options(p) ==
  CASE p.is = "home"  -> HomeOptions
    [] p.is = "epic"  -> EpicOptions(p)
    [] p.is = "story" -> StoryOptions(p)

(***************************************************************************)
(* Pages made from the payload of a reply.                                 *)
(***************************************************************************)
HomePage(reply) == [is |-> "home", list |-> reply.home]

EpicDetailPage(reply) == [is |-> "epic", epic |-> reply.epic, page |-> reply.page]

StoryDetailPage(reply) ==
  [is |-> "story", epic |-> reply.epic, story |-> reply.story, status |-> reply.status]

(***************************************************************************)
(* The page stack after a reply, one operator per method that handles one. *)
(* No method leaves the stack empty: the empty stack stands for an         *)
(* assertion that failed.                                                  *)
(***************************************************************************)
AssertionFailed == <<>>

Asserting(holds, stack) == IF holds THEN stack ELSE AssertionFailed

ReplaceTop(stack, page) == Append(Front(stack), page)

ParseSuccessfulConnection(stack, reply) == Append(stack, HomePage(reply))

ParseAddEpic(stack, reply) == <<HomePage(reply)>>

ParseDeleteEpic(stack, reply) == <<HomePage(reply)>>

ParseGetEpic(stack, reply) == Append(stack, EpicDetailPage(reply))

ParseUpdateEpicStatus(stack, reply) ==
  Asserting(Len(stack) = 2, ReplaceTop(stack, EpicDetailPage(reply)))

\* Faulty: the home page is put on the pages that asked for what is not there.
ParseEpicDoesNotExistOnTop(stack, reply) == Append(stack, HomePage(reply))

ParseEpicDoesNotExist(stack, reply) ==
  Asserting(Len(stack) > 0, <<HomePage(reply)>>)

ParseGetStory(stack, reply) == Append(stack, StoryDetailPage(reply))

\* Faulty: the pages above the home page stay.
ParseStoryDoesNotExistOnTop(stack, reply) ==
  Asserting(Len(stack) > 1, Append(stack, EpicDetailPage(reply)))

ParseStoryDoesNotExist(stack, reply) ==
  Asserting(Len(stack) > 1, <<Head(stack), EpicDetailPage(reply)>>)

ParseAddStory(stack, reply) ==
  Asserting(Len(stack) = 2, ReplaceTop(stack, EpicDetailPage(reply)))

\* Faulty: the page of the story that was deleted stays.
ParseDeleteStoryStays(stack, reply) == Asserting(stack # <<>>, stack)

ParseDeleteStory(stack, reply) ==
  Asserting(stack # <<>>, <<Head(stack), EpicDetailPage(reply)>>)

\* Faulty: the page is not replaced.
ParseUpdateStoryStatusStays(stack, reply) == Asserting(Len(stack) = 3, stack)

ParseUpdateStoryStatus(stack, reply) ==
  Asserting(Len(stack) = 3, ReplaceTop(stack, StoryDetailPage(reply)))

ParseNotParsed(stack) == Asserting(stack # <<>>, stack)

ParseResponse(stack, reply) ==
  CASE reply.kind = "ClientAddedOk"       -> ParseSuccessfulConnection(stack, reply)
    [] reply.kind = "AddedEpicOk"         -> ParseAddEpic(stack, reply)
    [] reply.kind = "DeletedEpicOk"       -> ParseDeleteEpic(stack, reply)
    [] reply.kind = "GetEpicOk"           -> ParseGetEpic(stack, reply)
    [] reply.kind = "EpicStatusUpdateOk"  -> ParseUpdateEpicStatus(stack, reply)
    [] reply.kind = "EpicDoesNotExist"    -> ParseEpicDoesNotExist(stack, reply)
    [] reply.kind = "GetStoryOk"          -> ParseGetStory(stack, reply)
    [] reply.kind = "StoryDoesNotExist"   -> ParseStoryDoesNotExist(stack, reply)
    [] reply.kind = "AddedStoryOk"        -> ParseAddStory(stack, reply)
    [] reply.kind = "DeletedStoryOk"      -> ParseDeleteStory(stack, reply)
    [] reply.kind = "StoryStatusUpdateOk" -> ParseUpdateStoryStatus(stack, reply)
    [] reply.kind = "RequestNotParsed"    -> ParseNotParsed(stack)

-----------------------------------------------------------------------------
(***************************************************************************)
(* The steps of a client program.                                          *)
(***************************************************************************)
Top(c) == Last(pageStack[c])

Connect(c) ==
  /\ Join(c)
  /\ at' = [at EXCEPT ![c] = "await"]
  /\ UNCHANGED <<adds, pageStack, asked, current>>

\* Faulty: after a reply that something does not exist, the next is awaited.
ShowWithoutPrompt(c) ==
  /\ at[c] = "await"
  /\ Deliver(c)
  /\ LET reply == Head(done[c])
         stack == ParseResponse(pageStack[c], reply)
     IN  /\ pageStack' = [pageStack EXCEPT ![c] = stack]
         /\ at' = [at EXCEPT ![c] = IF reply.kind = "EpicDoesNotExist" THEN "await"
                                    ELSE "prompt"]
  /\ asked' = [asked EXCEPT ![c] = NewClient]
  /\ UNCHANGED <<adds, current>>

\* The next response is read, and the page it brings is shown.
Show(c) ==
  /\ at[c] = "await"
  /\ Deliver(c)
  /\ LET stack == ParseResponse(pageStack[c], Head(done[c]))
     IN  /\ pageStack' = [pageStack EXCEPT ![c] = stack]
         /\ at' = [at EXCEPT ![c] = IF stack = AssertionFailed THEN "panicked"
                                    ELSE "prompt"]
  /\ asked' = [asked EXCEPT ![c] = NewClient]
  /\ UNCHANGED <<adds, current>>

Adds(r) == IF r.op \in {"AddEpic", "AddStory"} THEN 1 ELSE 0

\* Action::RequestParsed: the request is written, and its reply awaited.
Choose(c, r) ==
  /\ at[c] = "prompt"
  /\ r \in Options(Top(c))
  /\ adds + Adds(r) <= MaxAdds
  /\ Ask(c, r)
  /\ at' = [at EXCEPT ![c] = "await"]
  /\ asked' = [asked EXCEPT ![c] = r]
  /\ adds' = adds + Adds(r)
  /\ UNCHANGED <<pageStack, current>>

\* Action::PreviousPage, which the pages of epics and of stories offer.
Previous(c) ==
  /\ at[c] = "prompt"
  /\ Top(c).is # "home"
  /\ LET stack == Asserting(Len(pageStack[c]) > 1, Front(pageStack[c]))
     IN  /\ pageStack' = [pageStack EXCEPT ![c] = stack]
         /\ at' = [at EXCEPT ![c] = IF stack = AssertionFailed THEN "panicked" ELSE @]
  /\ current' = [current EXCEPT ![c] = FALSE]
  /\ UNCHANGED <<vars, adds, asked>>

Ends(c) ==
  /\ Leave(c)
  /\ at' = [at EXCEPT ![c] = "over"]
  /\ pageStack' = [pageStack EXCEPT ![c] = <<>>]
  /\ asked' = [asked EXCEPT ![c] = NewClient]
  /\ current' = [current EXCEPT ![c] = FALSE]
  /\ UNCHANGED adds

\* Action::Quit, which the home page offers.
Quit(c) ==
  /\ at[c] = "prompt"
  /\ Top(c).is = "home"
  /\ Ends(c)

\* The connection to a service that is down fails: the program ends.  It may
\* also stay open, and the client waits (the reader of the server's side does).
ConnectionLost(c) ==
  /\ at[c] \in {"await", "prompt"}
  /\ ~up
  /\ done[c] = <<>>
  /\ Ends(c)

\* The program is interrupted, or unwound by its assertion.
Killed(c) ==
  /\ at[c] \in {"await", "prompt", "panicked"}
  /\ Ends(c)

(***************************************************************************)
(* The steps of the service.                                               *)
(***************************************************************************)
Serves(c) ==
  /\ Serve(c)
  /\ current' = [d \in Client |-> d = c]
  /\ UNCHANGED clientVars

\* Requests of a client that has left are lost, or replies of a dead service.
Loses(c) ==
  /\ Forget(c) \/ Lose(c)
  /\ UNCHANGED <<clientVars, current>>

Stops ==
  /\ Stop
  /\ current' = [c \in Client |-> FALSE]
  /\ UNCHANGED clientVars

InterfaceNext ==
  \/ \E c \in Client :
       \/ Connect(c) \/ Show(c) \/ Previous(c) \/ Quit(c)
       \/ ConnectionLost(c) \/ Killed(c) \/ Serves(c) \/ Loses(c)
       \/ \E r \in Requests : Choose(c, r)
  \/ Stops

InterfaceSpec == InterfaceInit /\ [][InterfaceNext]_allVars

(***************************************************************************)
(* The service answers (EveryRequestAnswered of Server), and a client that *)
(* waits for a response reads it.  A user need not do anything.            *)
(***************************************************************************)
FairInterfaceSpec ==
  InterfaceSpec /\ \A c \in Client : WF_allVars(Serves(c)) /\ WF_allVars(Show(c))

-----------------------------------------------------------------------------
(***************************************************************************)
(* What the interface keeps, whatever other clients do.                    *)
(***************************************************************************)

\* No reply comes to a page stack of another depth than its handler asserts,
\* and there is always a page to go back to.
NoAssertionFails == \A c \in Client : at[c] # "panicked"

\* Pages nest as their items do: the home page is at the bottom, on it there is
\* at most an epic's, and on that at most the page of a story of that epic.
Nested(stack) ==
  /\ Len(stack) \in 1 .. 3
  /\ stack[1].is = "home"
  /\ Len(stack) >= 2 => stack[2].is = "epic"
  /\ Len(stack) = 3  => stack[3].is = "story" /\ stack[3].epic = stack[2].epic

PagesNest == \A c \in Client : at[c] = "prompt" => Nested(pageStack[c])

\* A page is filled with what the database holds: as long as no other request
\* has been served since its own, and its user has not gone back to an older
\* page, the page on top shows the database as it is.
Shows(d, p) ==
  CASE p.is = "home"  -> p.list = HomeView(d)
    [] p.is = "epic"  -> HasEpic(d, p.epic) /\ p.page = d.epics[p.epic]
    [] p.is = "story" -> /\ HasStory(d, p.epic, p.story)
                         /\ p.status = d.epics[p.epic].stories[p.story]

ShowsTheTruth ==
  \A c \in Client : at[c] = "prompt" /\ current[c] => Shows(db, Top(c))

\* A reply leads to the item its request was about or to one of those it is in,
\* never to another; and after a deletion not to what has been deleted.
Path(page) ==
  CASE page.is = "home"  -> <<>>
    [] page.is = "epic"  -> <<page.epic>>
    [] page.is = "story" -> <<page.epic, page.story>>

Way(r) ==
  CASE r.op \in {"NewClient", "AddEpic", "DeleteEpic"}              -> <<>>
    [] r.op \in {"GetEpic", "UpdateEpicStatus", "AddStory", "DeleteStory"} -> <<r.epic>>
    [] r.op \in {"GetStory", "UpdateStoryStatus"}                   -> <<r.epic, r.story>>

LandsOnWay ==
  [][\A c \in Client :
       at[c] = "await" /\ at'[c] = "prompt" =>
         IsPrefix(Path(Last(pageStack'[c])), Way(asked[c]))]_allVars

\* A user who waits is asked again, unless the service has died.
UserIsAsked == \A c \in Client : at[c] = "await" ~> at[c] # "await" \/ ~up
=============================================================================
