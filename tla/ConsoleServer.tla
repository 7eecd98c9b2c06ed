--------------------------- MODULE ConsoleServer ---------------------------
(***************************************************************************)
(* The listener of the back end (connection.cpp: listen, closeListener,    *)
(* acceptConnection, close and the static destroyer) under the program     *)
(* that uses all of it, the console server (console/main.cpp): a process   *)
(* that accepts, forks a child for every connection and closes its own     *)
(* copy.  Open sockets are shared between processes, so what a process     *)
(* holds is state of its own.  A process can open a socket only once, so   *)
(* a descriptor is the pair of process and socket.                         *)
(***************************************************************************)
EXTENDS Naturals, Sequences, FiniteSets

CONSTANTS Server, Children, Clients,
          None,
          MaxFiles,   \* descriptors a process may hold (RLIMIT_NOFILE)
          Backlog     \* BACKLOG, the queue of connections not yet accepted

ASSUME ServerAssumption ==
    /\ Server \notin Children
    /\ {None, "listener", "unbound"} \intersect Clients = {}
    /\ MaxFiles \in Nat /\ Backlog \in Nat

Processes == {Server} \cup Children
Sockets == {"listener", "unbound"} \cup Clients

VARIABLES
    pc,         \* where each process is in main
    listening,  \* Connection::listening, a static, copied by fork
    files,      \* the sockets each process has open
    conn,       \* the client of the Connection object of each process
    backlog,    \* connections established and not yet accepted
    left        \* the clients that have closed their end

serverVars == <<pc, listening, files, conn, backlog, left>>

ServerTypeOK ==
    /\ pc \in [Processes -> {"unborn", "accept", "fork", "close", "service",
                             "deleted", "exit", "gone"}]
    /\ listening \in [Processes -> BOOLEAN]
    /\ files \in [Processes -> SUBSET Sockets]
    /\ conn \in [Processes -> Clients \cup {None}]
    /\ backlog \in Seq(Clients) /\ Len(backlog) <= Backlog
    /\ left \in SUBSET Clients

ServerInit ==
    /\ pc = [p \in Processes |-> IF p = Server THEN "accept" ELSE "unborn"]
    /\ listening = [p \in Processes |-> FALSE]
    /\ files = [p \in Processes |-> {}]
    /\ conn = [p \in Processes |-> None]
    /\ backlog = <<>>
    /\ left = {}

Goto(p, l) == pc' = [pc EXCEPT ![p] = l]
CanOpen(p) == Cardinality(files[p]) < MaxFiles

(* socket, bind and listen succeed.  Only the server gets here, and only   *)
(* once: closeListener is not called before the process ends.              *)
listen ==
    /\ pc[Server] = "accept" /\ ~listening[Server] /\ CanOpen(Server)
    /\ files' = [files EXCEPT ![Server] = @ \cup {"listener"}]
    /\ listening' = [listening EXCEPT ![Server] = TRUE]
    /\ UNCHANGED <<pc, conn, backlog, left>>

ListenFailsRetried ==
    /\ pc[Server] = "accept" /\ ~listening[Server] /\ CanOpen(Server)
    /\ files' = [files EXCEPT ![Server] = @ \cup {"unbound"}]
    /\ UNCHANGED <<pc, listening, conn, backlog, left>>

(* socket fails, or one of bind and listen does and the socket stays open  *)
(* with listening FALSE; the exception ends main.                          *)
listenFails ==
    /\ pc[Server] = "accept" /\ ~listening[Server]
    /\ \/ UNCHANGED files
       \/ CanOpen(Server) /\ files' = [files EXCEPT ![Server] = @ \cup {"unbound"}]
    /\ Goto(Server, "exit")
    /\ UNCHANGED <<listening, conn, backlog, left>>

acceptConnection ==
    /\ pc[Server] = "accept" /\ listening[Server] /\ backlog # <<>>
    /\ CanOpen(Server)
    /\ files' = [files EXCEPT ![Server] = @ \cup {Head(backlog)}]
    /\ conn' = [conn EXCEPT ![Server] = Head(backlog)]
    /\ backlog' = Tail(backlog)
    /\ Goto(Server, "fork")
    /\ UNCHANGED <<listening, left>>

(* accept fails, for want of a descriptor or of the connection.            *)
acceptFails ==
    /\ pc[Server] = "accept" /\ listening[Server] /\ backlog # <<>>
    /\ Goto(Server, "exit")
    /\ UNCHANGED <<listening, files, conn, backlog, left>>

ForkServesInParent(k) ==
    /\ pc[Server] = "fork" /\ pc[k] = "unborn"
    /\ pc' = [pc EXCEPT ![Server] = "service", ![k] = "close"]
    /\ files' = [files EXCEPT ![k] = files[Server]]
    /\ listening' = [listening EXCEPT ![k] = listening[Server]]
    /\ conn' = [conn EXCEPT ![k] = conn[Server]]
    /\ UNCHANGED <<backlog, left>>

(* The child has copies of everything its parent has.                      *)
fork(k) ==
    /\ pc[Server] = "fork" /\ pc[k] = "unborn"
    /\ pc' = [pc EXCEPT ![Server] = "close", ![k] = "service"]
    /\ files' = [files EXCEPT ![k] = files[Server]]
    /\ listening' = [listening EXCEPT ![k] = listening[Server]]
    /\ conn' = [conn EXCEPT ![k] = conn[Server]]
    /\ UNCHANGED <<backlog, left>>

(* fork returns -1, which is not 0: the server drops the connection.       *)
forkFails ==
    /\ pc[Server] = "fork"
    /\ Goto(Server, "close")
    /\ UNCHANGED <<listening, files, conn, backlog, left>>

DropWithoutClose(p) ==
    /\ pc[p] = "close"
    /\ conn' = [conn EXCEPT ![p] = None]
    /\ Goto(p, "accept")
    /\ UNCHANGED <<files, listening, backlog, left>>

(* conn->close(); delete conn; and back to acceptConnection.               *)
closeAndDelete(p) ==
    /\ pc[p] = "close"
    /\ files' = [files EXCEPT ![p] = @ \ {conn[p]}]
    /\ conn' = [conn EXCEPT ![p] = None]
    /\ Goto(p, "accept")
    /\ UNCHANGED <<listening, backlog, left>>

(* service returns: readMessage threw because the client has left or the   *)
(* connection broke, which closed the descriptor, and the destructor of    *)
(* the MessageConnection deleted the Connection.                           *)
service(p) ==
    /\ pc[p] = "service"
    /\ files' = [files EXCEPT ![p] = @ \ {conn[p]}]
    /\ Goto(p, "deleted")
    /\ UNCHANGED <<listening, conn, backlog, left>>

(* The end of a process: the static destroyer closes the listener if       *)
(* listening, the kernel whatever else is open.  When nobody has the       *)
(* listener any more, connections not accepted are reset.                  *)
Ends(p) ==
    /\ files' = [files EXCEPT ![p] = {}]
    /\ listening' = [listening EXCEPT ![p] = FALSE]
    /\ conn' = [conn EXCEPT ![p] = None]
    /\ backlog' = IF \E q \in Processes : "listener" \in files'[q]
                  THEN backlog ELSE <<>>
    /\ Goto(p, "gone")

(* The child calls close and delete on the Connection that is already      *)
(* deleted.  close finds the open flag the destructor left FALSE, which    *)
(* free does not overwrite; the virtual destructor is called through       *)
(* memory the allocator may have reused: the child dies of a signal, or    *)
(* comes back and leaves the loop.                                         *)
deleteAgain(p) ==
    /\ pc[p] = "deleted"
    /\ \/ Ends(p) /\ UNCHANGED left
       \/ /\ conn' = [conn EXCEPT ![p] = None]
          /\ Goto(p, "exit")
          /\ UNCHANGED <<files, listening, backlog, left>>

exit(p) == pc[p] = "exit" /\ Ends(p) /\ UNCHANGED left

(* A client connects: the kernel of the listening host completes the       *)
(* connection while a process has the listener open.                       *)
Reached(c) == c \in left \/ \E p \in Processes : c \in files[p] \cup {conn[p]}
Connect(c) ==
    /\ \E p \in Processes : "listener" \in files[p]
    /\ Len(backlog) < Backlog
    /\ ~Reached(c) /\ \A i \in DOMAIN backlog : backlog[i] # c
    /\ backlog' = Append(backlog, c)
    /\ UNCHANGED <<pc, listening, files, conn, left>>

(* A client closes its end, accepted or not.                               *)
Leave(c) ==
    /\ c \notin left
    /\ left' = left \cup {c}
    /\ UNCHANGED <<pc, listening, files, conn, backlog>>

Serve(p) == closeAndDelete(p) \/ deleteAgain(p) \/ exit(p)

ServerNext ==
    \/ listen \/ listenFails \/ acceptConnection \/ acceptFails \/ forkFails
    \/ \E k \in Children : fork(k)
    \/ \E p \in Processes : Serve(p) \/ service(p)
    \/ \E c \in Clients : Connect(c) \/ Leave(c)

ServerSpec == ServerInit /\ [][ServerNext]_serverVars

(* Every process runs while it is not blocked: in acceptConnection, until  *)
(* somebody connects, and in service, until its client has left.           *)
ServerFairSpec ==
    /\ ServerSpec
    /\ WF_serverVars(listen \/ listenFails)
    /\ WF_serverVars(acceptConnection \/ acceptFails)
    /\ WF_serverVars(forkFails \/ \E k \in Children : fork(k))
    /\ \A p \in Processes :
          /\ WF_serverVars(Serve(p))
          /\ WF_serverVars(conn[p] \in left /\ service(p))

-----------------------------------------------------------------------------
(* A process that goes on has exactly the sockets its Connection class and *)
(* object still refer to, so that something will close them: neither       *)
(* serving one connection after another nor a failing call uses up its     *)
(* descriptors, and a child does not keep the connection of another client *)
(* open.  (A socket that listen left behind is only in a process about to  *)
(* exit.)  No two processes serve the same connection, although fork gives *)
(* both a descriptor of it, and only the server accepts.                   *)
FilesAccounted ==
    /\ \A p \in Processes : pc[p] \in {"accept", "fork", "close", "service"} =>
          files[p] = (IF listening[p] THEN {"listener"} ELSE {})
                     \cup ({conn[p]} \ {None})
    /\ \A p, q \in Processes :
          /\ p # q /\ pc[p] = "service" /\ pc[q] = "service" => conn[p] # conn[q]
          /\ pc[p] = "accept" => p = Server

(* A client that is done makes both its child and every descriptor of its  *)
(* connection go away, whatever the second delete does.  The port, whose   *)
(* listener children inherit, is free again once the server and the        *)
(* clients it served are gone.                                             *)
SocketsReleased ==
    /\ \A c \in Clients : c \in left ~>
          \A p \in Processes : conn[p] # c /\ c \notin files[p]
    /\ (pc[Server] = "gone" /\ left = Clients) ~>
          \A p \in Processes : "listener" \notin files[p]

Queued(c) == \E i \in DOMAIN backlog : backlog[i] = c

(* The server is gone and a child that inherited the listener, and never   *)
(* accepts, serves a client that stays: the queue is kept.                 *)
QueueKept ==
    /\ pc[Server] = "gone"
    /\ \E k \in Children :
          pc[k] = "service" /\ "listener" \in files[k] /\ conn[k] \notin left

(* A client in the queue is accepted, even while others are served, or it  *)
(* is reset when the server has failed: at once, or as soon as the clients *)
(* of those children have left that keep the listener of a server that is  *)
(* gone.  Also a client that connects after that waits no longer.          *)
NoClientWaits == \A c \in Clients : Queued(c) ~> (~Queued(c) \/ QueueKept)

=============================================================================
