----------------------------- MODULE CtlServer -----------------------------
(***************************************************************************)
(* The mawimctl server of src/mawimctl_server.c in the main loop of        *)
(* src/mawim.c, and the mawimctl processes that connect to it.             *)
(*                                                                         *)
(* One thread does everything: it handles X events, accepts connections,   *)
(* reads a command from each, queues it, and then handles the queue.  The  *)
(* listening socket does not block, the accepted ones do.  The sockets     *)
(* (SOCK_SEQPACKET) are modelled by what accept, read, write and close do  *)
(* with them; a command and a response are a packet each.                  *)
(***************************************************************************)
EXTENDS CtlProtocol, Sequences, FiniteSets

CONSTANTS Clients,  \* mawimctl processes, each of which sends one command
          Backlog,  \* MAWIMCTL_SERVER_CONNECTION_BACKLOG_SIZE
          FdLimit   \* the accepted sockets that the process may have open

ASSUME CtlServerAssumption ==
  /\ None \notin Clients /\ None \notin Requests
  /\ Backlog \in Nat /\ FdLimit \in Nat /\ WorkspaceCount \in Nat \ {0}

VARIABLES client,            \* where a mawimctl process is
          request,           \* the command it wrote
          response,          \* the response that the server wrote to it
          backlog,           \* connections that accept has not returned yet
          fd,                \* the server's end of a connection
          pending_cmds,      \* mawimctl_server_t.pending_cmds, by sender
          loop,              \* where main() is
          reading,           \* the connection that the server reads from
          active_workspace,  \* mawim_t.active_workspace
          frozen             \* a button press has frozen the pointer (XGrabButton)

vars == <<client, request, response, backlog, fd, pending_cmds, loop, reading,
          active_workspace, frozen>>

clientVars == <<client, request>>
serverVars == <<response, backlog, fd, pending_cmds, loop, reading, active_workspace>>

TypeOK ==
  /\ client \in [Clients -> {"new", "connected", "waiting", "done", "gone"}]
  /\ request \in [Clients -> Requests \cup {None}]
  /\ response \in [Clients -> Response \cup {None}]
  /\ backlog \in Seq(Clients) /\ Len(backlog) <= Backlog + 1
  /\ fd \in [Clients -> {"none", "open", "closed"}]
  /\ pending_cmds \in Seq(Clients)
  /\ loop \in {"x11", "accept", "read", "handle"}
  /\ reading \in Clients \cup {None}
  /\ active_workspace \in 0 .. WorkspaceCount
  /\ frozen \in BOOLEAN
-----------------------------------------------------------------------------
\* A mawimctl process (mawimctl/src).

\* mawimctl_client_connect waits while the backlog is full.
Connect(c) ==
  /\ client[c] = "new"
  /\ Len(backlog) <= Backlog
  /\ client' = [client EXCEPT ![c] = "connected"]
  /\ backlog' = Append(backlog, c)
  /\ UNCHANGED <<request, response, fd, pending_cmds, loop, reading, active_workspace, frozen>>

\* mawimctl_client_send_command
SendCommand(c, r) ==
  /\ client[c] = "connected"
  /\ client' = [client EXCEPT ![c] = "waiting"]
  /\ request' = [request EXCEPT ![c] = r]
  /\ UNCHANGED <<serverVars, frozen>>

\* mawimctl_read_response waits for a packet, or for the end of the connection.
ReadResponse(c) ==
  /\ client[c] = "waiting"
  /\ response[c] # None \/ fd[c] = "closed"
  /\ client' = [client EXCEPT ![c] = IF response[c] # None THEN "done" ELSE "gone"]
  /\ UNCHANGED <<request, serverVars, frozen>>

\* The process is killed, or (a client that sets the flag NO_RESPONSE) just ends.
Exit(c) ==
  /\ client[c] \in {"connected", "waiting"}
  /\ client' = [client EXCEPT ![c] = "gone"]
  /\ UNCHANGED <<request, serverVars, frozen>>

Client(c) == \/ Connect(c) \/ ReadResponse(c) \/ Exit(c)
             \/ \E r \in Requests : SendCommand(c, r)
-----------------------------------------------------------------------------
\* The main loop.

\* The X server freezes the pointer until handle_button_press allows events.
PressButton ==
  /\ ~ frozen
  /\ frozen' = TRUE
  /\ UNCHANGED <<clientVars, serverVars>>

HandleButtonPress ==
  /\ loop = "x11" /\ frozen
  /\ frozen' = FALSE
  /\ UNCHANGED <<clientVars, serverVars>>

EventsDone ==
  /\ loop = "x11" /\ ~ frozen
  /\ loop' = "accept"
  /\ UNCHANGED <<clientVars, response, backlog, fd, pending_cmds, reading, active_workspace, frozen>>

OpenFds == Cardinality({c \in Clients : fd[c] = "open"})

\* mawimctl_server_update: accept gives a connection
Accept ==
  /\ loop = "accept"
  /\ backlog # <<>> /\ OpenFds < FdLimit
  /\ fd' = [fd EXCEPT ![Head(backlog)] = "open"]
  /\ reading' = Head(backlog)
  /\ backlog' = Tail(backlog)
  /\ loop' = "read"
  /\ UNCHANGED <<clientVars, response, pending_cmds, active_workspace, frozen>>

\* mawimctl_server_update: accept fails with EAGAIN or with EMFILE
AcceptFails ==
  /\ loop = "accept"
  /\ backlog = <<>> \/ OpenFds >= FdLimit
  /\ loop' = "handle"
  /\ UNCHANGED <<clientVars, response, backlog, fd, pending_cmds, reading, active_workspace, frozen>>

\* mawimctl_server_respond: nobody reads what is written to a client that is
\* gone (EPIPE).
Written(c, r) == IF client[c] = "gone" THEN response ELSE [response EXCEPT ![c] = r]

\* Faulty: the end of a connection without a command is not noticed.
RefuseCommandOnly(c) ==
  /\ loop = "read" /\ reading = c
  /\ request[c] # None /\ request[c].command \in Refused
  /\ \E r \in Answers(request[c], active_workspace) : response' = Written(c, r)
  /\ fd' = [fd EXCEPT ![c] = "closed"]
  /\ reading' = None
  /\ loop' = "accept"
  /\ UNCHANGED <<clientVars, backlog, pending_cmds, active_workspace, frozen>>

\* _handle_incoming_command for a packet that is not a command, or for none:
\* read returns 0 when the client closed its end.
RefuseCommand(c) ==
  /\ loop = "read" /\ reading = c
  /\ IF request[c] = None THEN client[c] = "gone" /\ UNCHANGED response
     ELSE /\ request[c].command \in Refused
          /\ \E r \in Answers(request[c], active_workspace) : response' = Written(c, r)
  /\ fd' = [fd EXCEPT ![c] = "closed"]
  /\ reading' = None
  /\ loop' = "accept"
  /\ UNCHANGED <<clientVars, backlog, pending_cmds, active_workspace, frozen>>

\* Faulty: the connection is closed as soon as the command is read.
QueueAndClose(c) ==
  /\ loop = "read" /\ reading = c
  /\ request[c] # None /\ request[c].command \notin Refused
  /\ pending_cmds' = Append(pending_cmds, c)
  /\ fd' = [fd EXCEPT ![c] = "closed"]
  /\ reading' = None
  /\ loop' = "accept"
  /\ UNCHANGED <<clientVars, response, backlog, active_workspace, frozen>>

\* _handle_incoming_command and _queue_command
QueueCommand(c) ==
  /\ loop = "read" /\ reading = c
  /\ request[c] # None /\ request[c].command \notin Refused
  /\ pending_cmds' = Append(pending_cmds, c)
  /\ reading' = None
  /\ loop' = "accept"
  /\ UNCHANGED <<clientVars, response, backlog, fd, active_workspace, frozen>>

\* Faulty: the command stays in the queue.
NextCommandStays(c) ==
  /\ pending_cmds # <<>> /\ c = Head(pending_cmds)
  /\ UNCHANGED pending_cmds

\* mawimctl_server_next_command
NextCommand(c) ==
  /\ pending_cmds # <<>> /\ c = Head(pending_cmds)
  /\ pending_cmds' = Tail(pending_cmds)

\* mawim_handle_ctl_command, which leaves the connection open
HandleCommand(c) ==
  /\ loop = "handle"
  /\ NextCommand(c)
  /\ active_workspace' = ActiveAfter(request[c], active_workspace)
  /\ IF request[c].no_response THEN UNCHANGED response
     ELSE \E r \in Answers(request[c], active_workspace) : response' = Written(c, r)
  /\ UNCHANGED <<clientVars, backlog, fd, loop, reading, frozen>>

\* The queue is empty; nanosleep.
CommandsDone ==
  /\ loop = "handle" /\ pending_cmds = <<>>
  /\ loop' = "x11"
  /\ UNCHANGED <<clientVars, response, backlog, fd, pending_cmds, reading, active_workspace, frozen>>

Server ==
  \/ HandleButtonPress \/ EventsDone \/ Accept \/ AcceptFails \/ CommandsDone
  \/ \E c \in Clients : RefuseCommand(c) \/ QueueCommand(c) \/ HandleCommand(c)
-----------------------------------------------------------------------------
Init ==
  /\ client = [c \in Clients |-> "new"]
  /\ request = [c \in Clients |-> None]
  /\ response = [c \in Clients |-> None]
  /\ backlog = <<>>
  /\ fd = [c \in Clients |-> "none"]
  /\ pending_cmds = <<>>
  /\ loop = "x11"
  /\ reading = None
  /\ active_workspace = 1
  /\ frozen = FALSE

Next == Server \/ PressButton \/ \E c \in Clients : Client(c)

\* The server's thread runs whenever a system call lets it.  A mawimctl
\* process writes its command right after it has connected, and reads.  Events
\* take less time to handle than users need to cause them: now and then the loop
\* over X events finds none (SF of EventsDone).
Fairness ==
  /\ WF_vars(Server) /\ SF_vars(EventsDone)
  /\ \A c \in Clients :
       WF_vars((\E r \in Requests : SendCommand(c, r)) \/ ReadResponse(c) \/ Connect(c))

Spec == Init /\ [][Next]_vars /\ Fairness
-----------------------------------------------------------------------------
(***************************************************************************)
(* Whatever the interleaving of clients, the backlog, the read of each     *)
(* command, the queue and its handling, a command has its effect once, at  *)
(* one instant, and its own client gets the response that fits the state   *)
(* at that instant (CtlService).  It has had it when the server has the    *)
(* connection, is not reading from it, and does not have it in its queue.  *)
(***************************************************************************)
Gone == {c \in Clients : client[c] = "gone"}

Served == {c \in Clients : /\ request[c] # None /\ fd[c] # "none" /\ reading # c
                           /\ \A k \in DOMAIN pending_cmds : pending_cmds[k] # c}

Service == INSTANCE CtlService WITH gone <- Gone, served <- Served

ImplementsService == Service!ServiceSpec

(***************************************************************************)
(* A socket that is read or written is open, and belongs to one command:   *)
(* the sockets in the backlog, the one being read, those of the queued     *)
(* commands and the closed ones are all different.  pending_cmds keeps a   *)
(* descriptor number long after accept, with nothing that ties it to the   *)
(* connection.                                                             *)
(***************************************************************************)
DescriptorsValid ==
  /\ \A k \in DOMAIN pending_cmds : fd[pending_cmds[k]] = "open" /\ pending_cmds[k] # reading
  /\ \A j, k \in DOMAIN pending_cmds : pending_cmds[j] = pending_cmds[k] => j = k
  /\ reading # None => fd[reading] = "open"
  /\ \A k \in DOMAIN backlog : fd[backlog[k]] = "none"

(***************************************************************************)
(* The pointer does not stay frozen: the thread that has to thaw it is     *)
(* never held up for good by a client, although it waits in read for a     *)
(* command from whoever has connected.                                     *)
(***************************************************************************)
PointerThaws == frozen ~> ~ frozen

(***************************************************************************)
(* "Communication follows the scheme of mawimctl command -> MaWiM          *)
(* Response" (doc/mawimctl.md): a client that waits for a response gets    *)
(* one, unless it disabled responses.                                      *)
(***************************************************************************)
CommandAnswered ==
  \A c \in Clients :
    (client[c] = "waiting" /\ ~ request[c].no_response) ~> client[c] \in {"done", "gone"}
=============================================================================
