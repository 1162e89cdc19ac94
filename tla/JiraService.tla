---------------------------- MODULE JiraService -----------------------------
(***************************************************************************)
(* What the server promises its clients, without its tasks and channels:   *)
(* one database, on which the requests of all clients take effect one at a *)
(* time, each completely; every client's requests are served in the order  *)
(* it made them and every request gets one reply, the one its own          *)
(* execution produced, in that order.  Nothing a connected client is owed  *)
(* is lost while the service is up, and the service does not stop unless   *)
(* some client has left it.                                                *)
(***************************************************************************)
EXTENDS Database, SequencesExt

CONSTANTS Client, Requests

VARIABLES
  db,      \* the database
  up,      \* whether the service is running
  conn,    \* conn[c]: "out", "in" or "left"
  todo,    \* todo[c]: the requests of c not yet served, oldest first
  done     \* done[c]: the replies of c not yet delivered, oldest first

vars == <<db, up, conn, todo, done>>

Init ==
  /\ db \in Db
  /\ up = TRUE
  /\ conn = [c \in Client |-> "out"]
  /\ todo = [c \in Client |-> <<>>]
  /\ done = [c \in Client |-> <<>>]

\* Connecting asks for the list of epics.
Join(c) ==
  /\ conn[c] = "out"
  /\ conn' = [conn EXCEPT ![c] = "in"]
  /\ todo' = IF up THEN [todo EXCEPT ![c] = <<NewClient>>] ELSE todo
  /\ UNCHANGED <<db, up, done>>

Ask(c, r) ==
  /\ conn[c] = "in"
  /\ up
  /\ todo' = [todo EXCEPT ![c] = Append(@, r)]
  /\ UNCHANGED <<db, up, conn, done>>

\* A request of a client that has left may still take effect.
Serve(c) ==
  /\ up
  /\ todo[c] # <<>>
  /\ LET out == Handle(db, Head(todo[c]))
     IN  /\ db' = out.db
         /\ done' = [done EXCEPT ![c] = IF conn[c] = "in"
                                        THEN Append(@, out.reply) ELSE <<>>]
  /\ todo' = [todo EXCEPT ![c] = Tail(@)]
  /\ UNCHANGED <<up, conn>>

Deliver(c) ==
  /\ done[c] # <<>>
  /\ done' = [done EXCEPT ![c] = Tail(@)]
  /\ UNCHANGED <<db, up, conn, todo>>

Leave(c) ==
  /\ conn[c] = "in"
  /\ conn' = [conn EXCEPT ![c] = "left"]
  /\ done' = [done EXCEPT ![c] = <<>>]
  /\ UNCHANGED <<db, up, todo>>

\* The newest requests of a client that has left never arrive.
Forget(c) ==
  /\ conn[c] = "left"
  /\ \E n \in 0 .. Len(todo[c]) : todo' = [todo EXCEPT ![c] = SubSeq(@, 1, n)]
  /\ UNCHANGED <<db, up, conn, done>>

\* The service stops: its memory and the requests it holds are gone.
Stop ==
  /\ up
  /\ \E c \in Client : conn[c] = "left"
  /\ up' = FALSE
  /\ db' = EmptyDb
  /\ todo' = [c \in Client |-> <<>>]
  /\ UNCHANGED <<conn, done>>

\* Replies on their way when the service stopped may be lost.
Lose(c) ==
  /\ ~up
  /\ \E n \in 0 .. Len(done[c]) : done' = [done EXCEPT ![c] = SubSeq(@, 1, n)]
  /\ UNCHANGED <<db, up, conn, todo>>

Next ==
  \/ \E c \in Client :
       \/ Join(c) \/ Serve(c) \/ Deliver(c) \/ Leave(c) \/ Forget(c) \/ Lose(c)
       \/ \E r \in Requests : Ask(c, r)
  \/ Stop

Spec == Init /\ [][Next]_vars
=============================================================================
