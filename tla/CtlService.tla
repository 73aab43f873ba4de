----------------------------- MODULE CtlService -----------------------------
(***************************************************************************)
(* What the mawimctl protocol promises its clients, whatever becomes of    *)
(* sockets and queues: a command takes effect once and at one instant      *)
(* after the client sent it, and the response to it is the one that the    *)
(* state at that instant gives.                                            *)
(***************************************************************************)
EXTENDS CtlProtocol

CONSTANT Clients  \* mawimctl processes, each of which sends one command

VARIABLES request,          \* the command of a client, None before it is sent
          gone,             \* the clients that do not wait for a response
          served,           \* the clients whose command has had its effect
          response,         \* what a client can read, None if there is nothing
          active_workspace  \* mawim_t.active_workspace

serviceVars == <<request, gone, served, response, active_workspace>>

-----------------------------------------------------------------------------
ServiceInit ==
  /\ request = [c \in Clients |-> None]
  /\ gone = {}
  /\ served = {}
  /\ response = [c \in Clients |-> None]
  /\ active_workspace = 1

Call(c, r) ==
  /\ request[c] = None /\ c \notin gone
  /\ request' = [request EXCEPT ![c] = r]
  /\ UNCHANGED <<gone, served, response, active_workspace>>

Hangup(c) ==
  /\ gone' = gone \cup {c}
  /\ UNCHANGED <<request, served, response, active_workspace>>

Serve(c) ==
  /\ request[c] # None /\ c \notin served
  /\ served' = served \cup {c}
  /\ active_workspace' = ActiveAfter(request[c], active_workspace)
  /\ IF c \in gone \/ Silent(request[c]) THEN UNCHANGED response
     ELSE \E a \in Answers(request[c], active_workspace) :
            response' = [response EXCEPT ![c] = a]
  /\ UNCHANGED <<request, gone>>

ServiceNext ==
  \E c \in Clients : Serve(c) \/ Hangup(c) \/ \E r \in Requests : Call(c, r)

ServiceSpec == ServiceInit /\ [][ServiceNext]_serviceVars
=============================================================================
