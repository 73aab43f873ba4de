---------------------------- MODULE ServerStart ----------------------------
(***************************************************************************)
(* Instances of MaWiM that start, run and end around one socket file, and  *)
(* mawimctl processes that connect to it: mawimctl_server_start and        *)
(* _try_remove_old_sock of src/mawimctl_server.c, call by call.            *)
(*                                                                         *)
(* Nothing removes the file when an instance ends, since the loop of       *)
(* main() has no end and mawimctl_server_stop does not do it either: every *)
(* later start takes a stale file over.  It tells a stale file from one in *)
(* use by connecting to it, and that connection stays open.                *)
(***************************************************************************)
EXTENDS Naturals, Sequences

CONSTANTS Instances,      \* processes of MaWiM
          Clients,        \* processes of mawimctl, each of which runs once
          Backlog,        \* MAWIMCTL_SERVER_CONNECTION_BACKLOG_SIZE
          Where,          \* the name of the file in MAWIMCTL_SOCK
          SockName,       \* the name in sun_path: Where, or the start of it if it is too long
          StartsOverlap,  \* whether an instance starts while another does
          None

Stale == "stale"    \* a socket whose process has ended
Closed == "closed"  \* the other end of a connection is closed

ASSUME ServerStartAssumption ==
  /\ Backlog \in Nat /\ StartsOverlap \in BOOLEAN
  /\ {None, Stale} \cap Instances = {}
  /\ {None, Closed} \cap (Instances \cup Clients) = {}

VARIABLES stage,     \* where main() of an instance is
          file,      \* the socket that a name in the file system refers to
          answered,  \* the instances that hold the connection of an answered probe
          backlog,   \* the connections that accept has not returned yet
          reading,   \* the connection that an instance reads from
          pending,   \* the clients whose command an instance has queued
          client,    \* where a mawimctl process is
          server     \* the instance that it is connected to, None after a reset

startVars == <<stage, file, answered>>
serverVars == <<backlog, reading, pending>>
clientVars == <<client, server>>
vars == <<stage, file, answered, backlog, reading, pending, client, server>>

Starting == {"access", "probe", "remove", "bind", "listen"}
Serving == {"accept", "read", "handle"}
Ended == {"down", "failed"}

TypeOK ==
  /\ stage \in [Instances -> Starting \cup Serving \cup Ended]
  /\ file \in [{Where, SockName} -> Instances \cup {Stale, None}]
  /\ answered \subseteq Instances
  /\ backlog \in [Instances -> Seq(Instances \cup Clients \cup {Closed})]
  /\ \A i \in Instances : Len(backlog[i]) <= Backlog + 1
  /\ reading \in [Instances -> Instances \cup Clients \cup {Closed, None}]
  /\ pending \in [Instances -> SUBSET Clients]
  /\ client \in [Clients -> {"new", "connected", "waiting", "answered", "failed"}]
  /\ server \in [Clients -> Instances \cup {None}]

IsStarting(i) == stage[i] \in Starting
Listens(i) == stage[i] \in Serving
-----------------------------------------------------------------------------
\* The start of an instance.

Step(i, from, to) == stage[i] = from /\ stage' = [stage EXCEPT ![i] = to]

Start(i) ==
  /\ stage[i] \in Ended
  /\ StartsOverlap \/ \A j \in Instances : ~ IsStarting(j)
  /\ stage' = [stage EXCEPT ![i] = "access"]
  /\ UNCHANGED <<file, answered, serverVars, clientVars>>

\* Faulty: a socket file that is there is removed without a probe.
AccessRemoves(i) ==
  /\ Step(i, "access", IF file[Where] = None THEN "bind" ELSE "remove")
  /\ UNCHANGED <<file, answered, serverVars, clientVars>>

\* _try_remove_old_sock: access
Access(i) ==
  /\ Step(i, "access", IF file[Where] = None THEN "bind" ELSE "probe")
  /\ UNCHANGED <<file, answered, serverVars, clientVars>>

Refuses(n) == \A j \in Instances : file[n] = j => ~ Listens(j)

\* Faulty: the number of waiting connections has no limit.
ConnectUnlimited(p, j) ==
  /\ Listens(j)
  /\ backlog' = [backlog EXCEPT ![j] = Append(@, p)]

\* A connection of p with the instance j, for which p waits while j's backlog
\* is full.
ConnectTo(p, j) ==
  /\ Listens(j) /\ Len(backlog[j]) <= Backlog
  /\ backlog' = [backlog EXCEPT ![j] = Append(@, p)]

\* Faulty: a socket file that nobody listens on is left.
RefusedLeaves(i) ==
  /\ Step(i, "probe", "bind")
  /\ Refuses(SockName)
  /\ UNCHANGED <<file, answered, serverVars, clientVars>>

\* _try_remove_old_sock: connect fails
ProbeRefused(i) ==
  /\ Step(i, "probe", "remove")
  /\ Refuses(SockName)
  /\ UNCHANGED <<file, answered, serverVars, clientVars>>

\* _try_remove_old_sock: connect succeeds; nothing closes sock_fd
ProbeAnswered(i) ==
  /\ Step(i, "probe", "bind")
  /\ \E j \in Instances : file[SockName] = j /\ ConnectTo(i, j)
  /\ answered' = answered \cup {i}
  /\ UNCHANGED <<file, reading, pending, clientVars>>

\* _try_remove_old_sock: remove, whatever the name refers to by now
Remove(i) ==
  /\ Step(i, "remove", "bind")
  /\ file' = [file EXCEPT ![Where] = None]
  /\ UNCHANGED <<answered, serverVars, clientVars>>

\* mawimctl_server_start: bind
Bind(i) ==
  /\ Step(i, "bind", "listen")
  /\ file[SockName] = None
  /\ file' = [file EXCEPT ![SockName] = i]
  /\ UNCHANGED <<answered, serverVars, clientVars>>

\* mawimctl_server_start: listen, after which main() enters its loop
Listen(i) ==
  /\ Step(i, "listen", "accept")
  /\ UNCHANGED <<file, answered, serverVars, clientVars>>
-----------------------------------------------------------------------------
\* The end of a process, at which its sockets are closed.

CloseEnds(p, reset) ==
  /\ backlog' = [j \in Instances |->
       IF j \in reset THEN <<>>
       ELSE [k \in DOMAIN backlog[j] |-> IF backlog[j][k] = p THEN Closed ELSE backlog[j][k]]]
  /\ reading' = [j \in Instances |->
       IF j \in reset THEN None ELSE IF reading[j] = p THEN Closed ELSE reading[j]]

End(i) ==
  /\ file' = [n \in DOMAIN file |-> IF file[n] = i THEN Stale ELSE file[n]]
  /\ answered' = answered \ {i}
  /\ CloseEnds(i, {i})
  /\ pending' = [pending EXCEPT ![i] = {}]
  /\ server' = [c \in Clients |-> IF server[c] = i THEN None ELSE server[c]]
  /\ UNCHANGED client

\* Faulty: the program waits until the name is free.
BindRetries(i) ==
  /\ stage[i] = "bind" /\ file[SockName] # None
  /\ UNCHANGED vars

\* Faulty: main() goes on without a server (mawimctl_server_update of a null
\* pointer does nothing).
BindGoesOn(i) ==
  /\ Step(i, "bind", "failed")
  /\ file[SockName] # None
  /\ UNCHANGED <<file, answered, serverVars, clientVars>>

\* mawimctl_server_start: bind fails; mawim_panic
BindFails(i) ==
  /\ Step(i, "bind", "failed")
  /\ file[SockName] # None
  /\ End(i)

\* The instance crashes, is killed, or ends with the X server.
Crash(i) ==
  /\ stage[i] \notin Ended
  /\ stage' = [stage EXCEPT ![i] = "down"]
  /\ End(i)
-----------------------------------------------------------------------------
\* The main loop; what it does for X clients is left out.

\* mawimctl_server_update: accept gives a connection
Accept(i) ==
  /\ Step(i, "accept", "read")
  /\ backlog[i] # <<>>
  /\ reading' = [reading EXCEPT ![i] = Head(backlog[i])]
  /\ backlog' = [backlog EXCEPT ![i] = Tail(@)]
  /\ UNCHANGED <<file, answered, pending, clientVars>>

\* mawimctl_server_update: accept fails with EAGAIN
AcceptFails(i) ==
  /\ Step(i, "accept", "handle")
  /\ backlog[i] = <<>>
  /\ UNCHANGED <<file, answered, serverVars, clientVars>>

\* Faulty: the end of a connection without a command is not noticed.
ReadCommandOnly(i) ==
  /\ Step(i, "read", "accept")
  /\ \E c \in Clients : /\ reading[i] = c /\ client[c] # "connected"
                        /\ pending' = [pending EXCEPT ![i] = @ \cup {c}]
  /\ reading' = [reading EXCEPT ![i] = None]
  /\ UNCHANGED <<file, answered, backlog, clientVars>>

\* _handle_incoming_command: read returns when the other end has written a
\* command, which is queued although the client may be gone by now, or has
\* closed the connection before it wrote.
Read(i) ==
  /\ Step(i, "read", "accept")
  /\ \/ reading[i] = Closed /\ UNCHANGED pending
     \/ \E c \in Clients : /\ reading[i] = c /\ client[c] # "connected"
                           /\ pending' = [pending EXCEPT ![i] = @ \cup {c}]
  /\ reading' = [reading EXCEPT ![i] = None]
  /\ UNCHANGED <<file, answered, backlog, clientVars>>

\* main: a queued command is handled; a client that is gone gets no response.
Handle(i, c) ==
  /\ stage[i] = "handle" /\ c \in pending[i]
  /\ pending' = [pending EXCEPT ![i] = @ \ {c}]
  /\ client' = [client EXCEPT ![c] = IF @ = "waiting" THEN "answered" ELSE @]
  /\ UNCHANGED <<startVars, backlog, reading, server>>

CommandsDone(i) ==
  /\ Step(i, "handle", "accept")
  /\ pending[i] = {}
  /\ UNCHANGED <<file, answered, serverVars, clientVars>>
-----------------------------------------------------------------------------
\* A mawimctl process.

\* mawimctl_client_connect
Connect(c) ==
  /\ client[c] = "new"
  /\ \E j \in Instances : /\ file[SockName] = j /\ ConnectTo(c, j)
                          /\ server' = [server EXCEPT ![c] = j]
  /\ client' = [client EXCEPT ![c] = "connected"]
  /\ UNCHANGED <<startVars, reading, pending>>

\* mawimctl_client_connect fails and the process panics.
ConnectFails(c) ==
  /\ client[c] = "new" /\ Refuses(SockName)
  /\ client' = [client EXCEPT ![c] = "failed"]
  /\ UNCHANGED <<startVars, serverVars, server>>

\* mawimctl_client_send_command
SendCommand(c) ==
  /\ client[c] = "connected" /\ server[c] # None
  /\ client' = [client EXCEPT ![c] = "waiting"]
  /\ UNCHANGED <<startVars, serverVars, server>>

\* write or read fails since the instance has ended.
Reset(c) ==
  /\ client[c] \in {"connected", "waiting"} /\ server[c] = None
  /\ client' = [client EXCEPT ![c] = "failed"]
  /\ UNCHANGED <<startVars, serverVars, server>>

\* A client is killed.  What it has written stays in the connection and is read.
Kill(c) ==
  /\ \/ client[c] = "connected" /\ CloseEnds(c, {})
     \/ client[c] = "waiting" /\ UNCHANGED <<backlog, reading>>
  /\ client' = [client EXCEPT ![c] = "failed"]
  /\ UNCHANGED <<startVars, pending, server>>
-----------------------------------------------------------------------------
Init ==
  /\ stage = [i \in Instances |-> "down"]
  /\ file = [n \in {Where, SockName} |-> None]
  /\ answered = {}
  /\ backlog = [i \in Instances |-> <<>>]
  /\ reading = [i \in Instances |-> None]
  /\ pending = [i \in Instances |-> {}]
  /\ client = [c \in Clients |-> "new"]
  /\ server = [c \in Clients |-> None]

StartSteps(i) == \/ Access(i) \/ ProbeRefused(i) \/ Remove(i) \/ Bind(i)
                 \/ BindFails(i) \/ Listen(i)

LoopSteps(i) == \/ Accept(i) \/ AcceptFails(i) \/ Read(i) \/ CommandsDone(i)
                \/ \E c \in Clients : Handle(i, c)

Next ==
  \/ \E i \in Instances : Start(i) \/ StartSteps(i) \/ ProbeAnswered(i) \/ LoopSteps(i) \/ Crash(i)
  \/ \E c \in Clients : Connect(c) \/ ConnectFails(c) \/ SendCommand(c) \/ Reset(c) \/ Kill(c)

\* A process runs whenever a system call lets it, and one that waits for a
\* full backlog is woken when there is room.  Nobody has to start an instance,
\* and none has to crash.
Fairness ==
  /\ \A i \in Instances : WF_vars(StartSteps(i)) /\ SF_vars(ProbeAnswered(i))
                          /\ WF_vars(LoopSteps(i))
  /\ \A c \in Clients : WF_vars(ConnectFails(c) \/ SendCommand(c) \/ Reset(c))
                        /\ SF_vars(Connect(c))

Spec == Init /\ [][Next]_vars /\ Fairness
-----------------------------------------------------------------------------
(***************************************************************************)
(* "All communication between mawimctl and MaWiM occur over a UNIX Domain  *)
(* Socket located at" one place (doc/mawimctl.md): the file leads to an    *)
(* instance for as long as that instance serves.  Hence at most one does.  *)
(* Between the probe of a start and its remove and bind anything may       *)
(* happen; this holds if no other start does (not StartsOverlap).          *)
(***************************************************************************)
ServesAtFile == \A i \in Instances : Listens(i) => file[Where] = i

(***************************************************************************)
(* A start fails only if another instance has answered its probe: whatever *)
(* file earlier instances have left behind, at whatever point they         *)
(* crashed, is taken over.                                                 *)
(***************************************************************************)
FailsOnlyIfAnswered ==
  [][\A i \in Instances : stage[i] = "bind" /\ stage'[i] = "failed" => i \in answered]_vars

(***************************************************************************)
(* An instance that reads from the connection of a probe, on which nothing *)
(* is ever written, or from a client that crashes, gets on with its loop.  *)
(***************************************************************************)
ReadEnds == \A i \in Instances : reading[i] # None ~> reading[i] = None

(***************************************************************************)
(* A start comes to its end, although its probe may wait for an instance   *)
(* that is itself waiting.                                                 *)
(***************************************************************************)
StartEnds == \A i \in Instances : IsStarting(i) ~> ~ IsStarting(i)

(***************************************************************************)
(* A client that has sent its command gets the response or the end of the  *)
(* connection, whichever instances crash and start meanwhile.  They must   *)
(* not be started for ever: commands are handled once accept finds no more *)
(* connections, and each start makes one.                                  *)
(***************************************************************************)
StartsCease == <>[][\A i \in Instances : ~ Start(i)]_vars

ClientEnds ==
  StartsCease => \A c \in Clients : client[c] = "waiting" ~> client[c] \in {"answered", "failed"}
=============================================================================
