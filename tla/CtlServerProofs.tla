-------------------------- MODULE CtlServerProofs --------------------------
(***************************************************************************)
(* The mawimctl server, for any number of clients, any requests, any       *)
(* backlog and any number of descriptors: its types, the validity of the   *)
(* descriptors that it reads and writes, and that it implements            *)
(* CtlService.                                                             *)
(***************************************************************************)
EXTENDS CtlServer, TLAPS

\* No element occurs twice.
Distinct(s) == \A j, k \in DOMAIN s : s[j] = s[k] => j = k

\* A process that has not written: its command is unknown, and its connection
\* is at most read from.
UnwrittenOK ==
  \A c \in Clients : client[c] \in {"new", "connected"} =>
    /\ request[c] = None
    /\ fd[c] = "none" \/ reading = c
    /\ client[c] = "new" => fd[c] = "none"

\* What accept will return: processes that have connected, each once.
BacklogOK ==
  /\ Distinct(backlog)
  /\ \A k \in DOMAIN backlog : fd[backlog[k]] = "none" /\ client[backlog[k]] # "new"

ReadingOK ==
  /\ reading # None <=> loop = "read"
  /\ reading # None => fd[reading] = "open" /\ client[reading] # "new"

\* The queued commands: each was read from a socket that is still open.
PendingOK ==
  /\ Distinct(pending_cmds)
  /\ \A k \in DOMAIN pending_cmds :
       LET c == pending_cmds[k]
       IN  /\ fd[c] = "open" /\ c # reading /\ client[c] # "new"
           /\ request[c] # None /\ request[c].command \notin Refused

\* The inductive invariant.
IInv == TypeOK /\ UnwrittenOK /\ BacklogOK /\ ReadingOK /\ PendingOK
-----------------------------------------------------------------------------
\* Queues.

LEMMA AppendDistinct ==
  ASSUME NEW S, NEW s \in Seq(S), NEW e \in S,
         Distinct(s), \A k \in DOMAIN s : s[k] # e
  PROVE  Distinct(Append(s, e))
  BY DEF Distinct

LEMMA TailDistinct ==
  ASSUME NEW S, NEW s \in Seq(S), s # <<>>, Distinct(s)
  PROVE  /\ Tail(s) \in Seq(S) /\ Len(Tail(s)) = Len(s) - 1
         /\ Distinct(Tail(s))
         /\ Head(s) \in S
         /\ \E k \in DOMAIN s : s[k] = Head(s)
         /\ \A k \in DOMAIN Tail(s) : /\ Tail(s)[k] # Head(s)
                                      /\ \E j \in DOMAIN s : Tail(s)[k] = s[j]
         /\ \A j \in DOMAIN s : s[j] # Head(s) => \E k \in DOMAIN Tail(s) : Tail(s)[k] = s[j]
<1>1. Len(s) \in Nat \ {0} /\ DOMAIN s = 1 .. Len(s) /\ Head(s) = s[1]
  OBVIOUS
<1>2. Tail(s) \in Seq(S) /\ Len(Tail(s)) = Len(s) - 1 /\ DOMAIN Tail(s) = 1 .. Len(s) - 1
  BY <1>1
<1>3. \A k \in DOMAIN Tail(s) : Tail(s)[k] = s[k + 1] /\ k + 1 \in DOMAIN s
  BY <1>1, <1>2
<1>4. Distinct(Tail(s))
  BY <1>1, <1>2, <1>3 DEF Distinct
<1>5. \A k \in DOMAIN Tail(s) : Tail(s)[k] # Head(s) /\ \E j \in DOMAIN s : Tail(s)[k] = s[j]
  BY <1>1, <1>2, <1>3 DEF Distinct
<1>6. ASSUME NEW j \in DOMAIN s, s[j] # Head(s)
      PROVE  \E k \in DOMAIN Tail(s) : Tail(s)[k] = s[j]
  <2>1. j - 1 \in DOMAIN Tail(s) /\ Tail(s)[j - 1] = s[j]
    BY <1>1, <1>2, <1>3, <1>6
  <2> QED BY <2>1
<1> QED BY <1>1, <1>2, <1>4, <1>5, <1>6
-----------------------------------------------------------------------------
\* Commands.

LEMMA AnswersType ==
  ASSUME NEW r \in Requests, NEW a \in 0 .. WorkspaceCount
  PROVE  /\ Answers(r, a) \subseteq Response
         /\ ActiveAfter(r, a) \in 0 .. WorkspaceCount
<1>1. /\ r.command \in CommandIds /\ r.data \in Nat \cup {None}
      /\ r.command = "move_focused_to_workspace" => r.data # None
  BY RequestsAssumption
<1>2. \A s \in Statuses : Status(s) \in Response
  BY DEF Status, Response
<1>3. [status |-> "OK", data |-> a] \in Response
  BY DEF Response, Statuses
<1>4. Answers(r, a) \subseteq Response
  BY <1>1, <1>2, <1>3 DEF Answers, CommandIds, Statuses
<1>5. ASSUME r.command = "set_workspace", Answers(r, a) = {Status("OK")}
      PROVE  r.data \in 0 .. WorkspaceCount
  <2>1. /\ Status("INVALID_DATA_FORMAT") # Status("OK")
        /\ Status("INTERNAL_ERROR") # Status("OK")
        /\ Status("NO_SUCH_WORKSPACE") # Status("OK")
    BY DEF Status
  <2>2. r.data # None /\ ~ (r.data > WorkspaceCount)
    BY <1>5, <2>1 DEF Answers
  <2> QED BY <1>1, <2>2, CtlServerAssumption
<1> QED BY <1>4, <1>5 DEF ActiveAfter

LEMMA WrittenType ==
  ASSUME TypeOK, NEW c \in Clients, NEW r \in Response
  PROVE  Written(c, r) \in [Clients -> Response \cup {None}]
  BY DEF TypeOK, Written
-----------------------------------------------------------------------------
\* The inductive invariant.

LEMMA InitOK == Init => IInv
<1> SUFFICES ASSUME Init PROVE IInv
  OBVIOUS
<1>1. <<>> \in Seq(Clients) /\ Len(<<>>) = 0 /\ DOMAIN <<>> = {}
  OBVIOUS
<1>2. Backlog \in Nat /\ 1 \in 0 .. WorkspaceCount
  BY CtlServerAssumption
<1>3. TypeOK
  <2>1. backlog \in Seq(Clients) /\ Len(backlog) <= Backlog + 1 /\ pending_cmds \in Seq(Clients)
    BY <1>1, <1>2 DEF Init
  <2>2. /\ client \in [Clients -> {"new", "connected", "waiting", "done", "gone"}]
        /\ request \in [Clients -> Requests \cup {None}]
        /\ response \in [Clients -> Response \cup {None}]
        /\ fd \in [Clients -> {"none", "open", "closed"}]
    BY DEF Init
  <2>3. /\ loop \in {"x11", "accept", "read", "handle"} /\ reading \in Clients \cup {None}
        /\ active_workspace \in 0 .. WorkspaceCount /\ frozen \in BOOLEAN
    BY <1>2 DEF Init
  <2> QED BY <2>1, <2>2, <2>3 DEF TypeOK
<1>4. UnwrittenOK /\ ReadingOK
  BY DEF Init, UnwrittenOK, ReadingOK
<1>5. BacklogOK /\ PendingOK
  BY <1>1 DEF Init, BacklogOK, PendingOK, Distinct
<1> QED BY <1>3, <1>4, <1>5 DEF IInv

LEMMA ConnectOK == ASSUME IInv, NEW c \in Clients, Connect(c) PROVE IInv'
<1> USE DEF IInv
<1>1. TypeOK'
  BY CtlServerAssumption DEF Connect, TypeOK
<1>2. /\ backlog \in Seq(Clients) /\ c \in Clients /\ Distinct(backlog)
      /\ \A k \in DOMAIN backlog : backlog[k] # c
  BY DEF Connect, TypeOK, BacklogOK
<1>3. Distinct(backlog')
  BY <1>2, AppendDistinct DEF Connect
<1>4. \A k \in DOMAIN backlog' : fd'[backlog'[k]] = "none" /\ client'[backlog'[k]] # "new"
  BY <1>2 DEF Connect, TypeOK, BacklogOK, UnwrittenOK
<1>5. UnwrittenOK'
  BY DEF Connect, UnwrittenOK, TypeOK
<1>6. ReadingOK'
  BY DEF Connect, ReadingOK, TypeOK
<1>7. PendingOK'
  BY DEF Connect, PendingOK, TypeOK, Distinct
<1> QED BY <1>1, <1>3, <1>4, <1>5, <1>6, <1>7 DEF BacklogOK

\* A step of a process that has connected, or of the pointer, is not seen by
\* the server.
LEMMA WrittenLaterOK ==
  ASSUME IInv, NEW c \in Clients,
         ReadResponse(c) \/ Exit(c) \/ \E r \in Requests : SendCommand(c, r)
  PROVE  IInv'
<1> USE DEF IInv
<1>1. /\ UNCHANGED <<serverVars, frozen>>
      /\ client[c] \in {"connected", "waiting"}
      /\ \E x \in {"waiting", "done", "gone"} : client' = [client EXCEPT ![c] = x]
      /\ \/ request' = request
         \/ client[c] = "connected" /\ \E r \in Requests : request' = [request EXCEPT ![c] = r]
  BY DEF ReadResponse, Exit, SendCommand
<1>2. TypeOK'
  BY <1>1 DEF TypeOK, serverVars
<1>3. UnwrittenOK'
  BY <1>1 DEF UnwrittenOK, TypeOK, serverVars
<1>4. BacklogOK'
  BY <1>1 DEF BacklogOK, Distinct, TypeOK, serverVars
<1>5. ReadingOK'
  BY <1>1 DEF ReadingOK, TypeOK, serverVars
<1>6. \A k \in DOMAIN pending_cmds : pending_cmds[k] \in Clients
  BY DEF TypeOK
<1>7. ASSUME client[c] = "connected"
      PROVE  \A k \in DOMAIN pending_cmds : pending_cmds[k] # c
  BY <1>6, <1>7 DEF PendingOK, UnwrittenOK
<1>8. PendingOK'
  BY <1>1, <1>6, <1>7 DEF PendingOK, Distinct, TypeOK, serverVars
<1> QED BY <1>2, <1>3, <1>4, <1>5, <1>8

LEMMA AcceptOK == ASSUME IInv, Accept PROVE IInv'
<1> USE DEF IInv
<1> DEFINE c == Head(backlog)
<1>1. /\ backlog \in Seq(Clients) /\ backlog # <<>> /\ Distinct(backlog)
  BY DEF Accept, TypeOK, BacklogOK
<1>2. /\ Tail(backlog) \in Seq(Clients) /\ Len(Tail(backlog)) = Len(backlog) - 1
      /\ Distinct(Tail(backlog)) /\ c \in Clients
      /\ \E k \in DOMAIN backlog : backlog[k] = c
      /\ \A k \in DOMAIN Tail(backlog) : /\ Tail(backlog)[k] # c
                                         /\ \E j \in DOMAIN backlog : Tail(backlog)[k] = backlog[j]
  BY <1>1, TailDistinct
<1>3. fd[c] = "none" /\ client[c] # "new" /\ reading = None /\ c # None
  BY <1>2, CtlServerAssumption DEF BacklogOK, ReadingOK, Accept
<1>4. TypeOK'
  <2>1. Len(backlog) \in Nat
    BY <1>1
  <2> QED BY <1>2, <2>1, CtlServerAssumption DEF Accept, TypeOK, clientVars
<1>5. UnwrittenOK'
  <2> SUFFICES ASSUME NEW d \in Clients, client[d] \in {"new", "connected"}
               PROVE  /\ request[d] = None
                      /\ fd'[d] = "none" \/ reading' = d
                      /\ client[d] = "new" => fd'[d] = "none"
    BY DEF UnwrittenOK, Accept, clientVars
  <2>1. request[d] = None /\ fd[d] = "none"
    BY <1>3, CtlServerAssumption DEF UnwrittenOK
  <2>2. reading' = c /\ fd' = [fd EXCEPT ![c] = "open"]
    BY DEF Accept
  <2>3. CASE d = c
    BY <1>3, <2>1, <2>2, <2>3
  <2>4. CASE d # c
    BY <1>2, <2>1, <2>2, <2>4 DEF TypeOK
  <2> QED BY <2>3, <2>4
<1>6. BacklogOK'
  BY <1>2, <1>3 DEF BacklogOK, Accept, TypeOK, clientVars
<1>7. ReadingOK'
  BY <1>2, <1>3 DEF ReadingOK, Accept, TypeOK, clientVars
<1>8. \A k \in DOMAIN pending_cmds : pending_cmds[k] \in Clients /\ pending_cmds[k] # c
  BY <1>3 DEF TypeOK, PendingOK
<1>9. PendingOK'
  BY <1>2, <1>3, <1>8 DEF PendingOK, Distinct, Accept, TypeOK, clientVars
<1> QED BY <1>4, <1>5, <1>6, <1>7, <1>9

LEMMA RefuseOK == ASSUME IInv, NEW c \in Clients, RefuseCommand(c) PROVE IInv'
<1> USE DEF IInv
<1>1. c \in Clients /\ reading = c /\ c # None /\ fd[c] = "open" /\ client[c] \notin {"new", "connected"}
  <2>1. reading = c /\ c # None /\ fd[c] = "open" /\ client[c] # "new"
    BY CtlServerAssumption DEF RefuseCommand, ReadingOK
  <2>2. client[c] # "connected"
    BY <2>1 DEF RefuseCommand, UnwrittenOK, TypeOK
  <2> QED BY <2>1, <2>2
<1>2. response' \in [Clients -> Response \cup {None}]
  <2>1. CASE request[c] = None
    BY <2>1 DEF RefuseCommand, TypeOK
  <2>2. CASE request[c] # None
    <3>1. request[c] \in Requests /\ active_workspace \in 0 .. WorkspaceCount
      BY <2>2 DEF TypeOK
    <3>2. PICK r \in Answers(request[c], active_workspace) : response' = Written(c, r)
      BY <2>2 DEF RefuseCommand
    <3>3. r \in Response
      BY <3>1, AnswersType
    <3> QED BY <3>2, <3>3, WrittenType
  <2> QED BY <2>1, <2>2
<1>3. TypeOK'
  BY <1>2 DEF RefuseCommand, TypeOK, clientVars
<1>4. UnwrittenOK'
  BY <1>1 DEF RefuseCommand, UnwrittenOK, TypeOK, clientVars
<1>5. \A k \in DOMAIN backlog : backlog[k] \in Clients /\ backlog[k] # c
  BY <1>1 DEF BacklogOK, TypeOK
<1>6. BacklogOK'
  BY <1>5 DEF RefuseCommand, BacklogOK, Distinct, TypeOK, clientVars
<1>7. ReadingOK'
  BY DEF RefuseCommand, ReadingOK, TypeOK, clientVars
<1>8. \A k \in DOMAIN pending_cmds : pending_cmds[k] \in Clients /\ pending_cmds[k] # c
  BY <1>1 DEF PendingOK, TypeOK
<1>9. \A k \in DOMAIN pending_cmds : pending_cmds[k] # None
  BY <1>8, CtlServerAssumption
<1>10. PendingOK'
  BY <1>8, <1>9 DEF RefuseCommand, PendingOK, Distinct, TypeOK, clientVars
<1> QED BY <1>3, <1>4, <1>6, <1>7, <1>10

LEMMA QueueOK == ASSUME IInv, NEW c \in Clients, QueueCommand(c) PROVE IInv'
<1> USE DEF IInv
<1>1. /\ reading = c /\ c # None /\ fd[c] = "open" /\ client[c] \notin {"new", "connected"}
      /\ request[c] # None /\ request[c].command \notin Refused
  <2>1. reading = c /\ c # None /\ fd[c] = "open" /\ client[c] # "new"
    BY CtlServerAssumption DEF QueueCommand, ReadingOK
  <2>2. client[c] # "connected"
    BY <2>1 DEF QueueCommand, UnwrittenOK, TypeOK
  <2> QED BY <2>1, <2>2 DEF QueueCommand
<1>2. TypeOK'
  BY DEF QueueCommand, TypeOK, clientVars
<1>3. UnwrittenOK'
  BY <1>1 DEF QueueCommand, UnwrittenOK, TypeOK, clientVars
<1>4. BacklogOK'
  BY DEF QueueCommand, BacklogOK, Distinct, TypeOK, clientVars
<1>5. ReadingOK'
  BY DEF QueueCommand, ReadingOK, TypeOK, clientVars
<1>6. /\ pending_cmds \in Seq(Clients) /\ Distinct(pending_cmds)
      /\ \A k \in DOMAIN pending_cmds : pending_cmds[k] \in Clients /\ pending_cmds[k] # c
  BY <1>1 DEF PendingOK, TypeOK
<1>7. Distinct(pending_cmds')
  BY <1>6, AppendDistinct DEF QueueCommand
<1>8. \A k \in DOMAIN pending_cmds' :
        \/ pending_cmds'[k] = c
        \/ k \in DOMAIN pending_cmds /\ pending_cmds'[k] = pending_cmds[k]
  BY <1>6 DEF QueueCommand
<1>9. PendingOK'
  BY <1>1, <1>6, <1>7, <1>8, CtlServerAssumption DEF QueueCommand, PendingOK, TypeOK, clientVars
<1> QED BY <1>2, <1>3, <1>4, <1>5, <1>9

LEMMA HandleOK == ASSUME IInv, NEW c \in Clients, HandleCommand(c) PROVE IInv'
<1> USE DEF IInv
<1>1. /\ pending_cmds \in Seq(Clients) /\ pending_cmds # <<>> /\ Distinct(pending_cmds)
      /\ c = Head(pending_cmds) /\ pending_cmds' = Tail(pending_cmds)
  BY DEF HandleCommand, NextCommand, TypeOK, PendingOK
<1>2. /\ pending_cmds' \in Seq(Clients) /\ Distinct(pending_cmds')
      /\ \E k \in DOMAIN pending_cmds : pending_cmds[k] = c
      /\ \A k \in DOMAIN pending_cmds' : \E j \in DOMAIN pending_cmds : pending_cmds'[k] = pending_cmds[j]
  BY <1>1, TailDistinct
<1>3. request[c] \in Requests /\ active_workspace \in 0 .. WorkspaceCount
  BY <1>2 DEF PendingOK, TypeOK
<1>4. active_workspace' \in 0 .. WorkspaceCount
  BY <1>3, AnswersType DEF HandleCommand
<1>5. response' \in [Clients -> Response \cup {None}]
  <2>1. CASE request[c].no_response
    BY <2>1 DEF HandleCommand, TypeOK
  <2>2. CASE ~ request[c].no_response
    <3>1. PICK r \in Answers(request[c], active_workspace) : response' = Written(c, r)
      BY <2>2 DEF HandleCommand
    <3>2. r \in Response
      BY <1>3, AnswersType
    <3> QED BY <3>1, <3>2, WrittenType
  <2> QED BY <2>1, <2>2
<1>6. TypeOK'
  BY <1>2, <1>4, <1>5 DEF HandleCommand, TypeOK, clientVars
<1>7. UnwrittenOK' /\ ReadingOK'
  BY DEF HandleCommand, UnwrittenOK, ReadingOK, TypeOK, clientVars
<1>8. BacklogOK'
  BY DEF HandleCommand, BacklogOK, Distinct, TypeOK, clientVars
<1>9. PendingOK'
  BY <1>2 DEF HandleCommand, PendingOK, TypeOK, clientVars
<1> QED BY <1>6, <1>7, <1>8, <1>9

\* Steps that change where main() is, or whether the pointer is frozen.
LEMMA LoopOK ==
  ASSUME IInv,
         PressButton \/ HandleButtonPress \/ EventsDone \/ AcceptFails \/ CommandsDone
         \/ UNCHANGED vars
  PROVE  IInv'
<1> USE DEF IInv
<1>1. /\ UNCHANGED <<clientVars, response, backlog, fd, pending_cmds, reading, active_workspace>>
      /\ frozen' \in BOOLEAN
      /\ \/ loop' = loop
         \/ loop # "read" /\ loop' \in {"x11", "accept", "handle"}
  BY DEF PressButton, HandleButtonPress, EventsDone, AcceptFails, CommandsDone, vars,
         clientVars, serverVars, TypeOK
<1>2. TypeOK'
  BY <1>1 DEF TypeOK, clientVars
<1>3. UnwrittenOK' /\ BacklogOK' /\ PendingOK'
  BY <1>1 DEF UnwrittenOK, BacklogOK, PendingOK, Distinct, clientVars
<1>4. ReadingOK'
  BY <1>1 DEF ReadingOK, clientVars
<1> QED BY <1>2, <1>3, <1>4

LEMMA StepOK == IInv /\ [Next]_vars => IInv'
<1> SUFFICES ASSUME IInv, [Next]_vars PROVE IInv'
  OBVIOUS
<1>1. CASE \E c \in Clients : Connect(c)
  BY <1>1, ConnectOK
<1>2. CASE \E c \in Clients : ReadResponse(c) \/ Exit(c) \/ \E r \in Requests : SendCommand(c, r)
  BY <1>2, WrittenLaterOK
<1>3. CASE Accept
  BY <1>3, AcceptOK
<1>4. CASE \E c \in Clients : RefuseCommand(c)
  BY <1>4, RefuseOK
<1>5. CASE \E c \in Clients : QueueCommand(c)
  BY <1>5, QueueOK
<1>6. CASE \E c \in Clients : HandleCommand(c)
  BY <1>6, HandleOK
<1>7. CASE PressButton \/ HandleButtonPress \/ EventsDone \/ AcceptFails \/ CommandsDone
           \/ UNCHANGED vars
  BY <1>7, LoopOK
<1> QED
  BY <1>1, <1>2, <1>3, <1>4, <1>5, <1>6, <1>7 DEF Next, Server, Client

(***************************************************************************)
(* The inductive invariant holds in every reachable state.                 *)
(***************************************************************************)
THEOREM Invariance == Spec => []IInv
  BY InitOK, StepOK, PTL DEF Spec

(***************************************************************************)
(* The server's state is well-typed.                                       *)
(***************************************************************************)
THEOREM TypeCorrect == Spec => []TypeOK
<1>1. IInv => TypeOK
  BY DEF IInv
<1> QED BY <1>1, Invariance, PTL

(***************************************************************************)
(* Every descriptor that the server will read or write is open, and stands *)
(* for one command.                                                        *)
(***************************************************************************)
THEOREM DescriptorsAlwaysValid == Spec => []DescriptorsValid
<1>1. IInv => DescriptorsValid
  BY DEF IInv, PendingOK, BacklogOK, ReadingOK, DescriptorsValid, Distinct
<1> QED BY <1>1, Invariance, PTL
-----------------------------------------------------------------------------
\* Refinement: each step of the server or of a client is a step of CtlService,
\* or none.

LEMMA SameProtocol ==
  \A r, a : /\ Service!Answers(r, a) = Answers(r, a)
            /\ Service!ActiveAfter(r, a) = ActiveAfter(r, a)
            /\ Service!Silent(r) = Silent(r)
<1>1. \A s : Service!Status(s) = Status(s)
  BY DEF Status, Service!Status
<1>2. \A r, a : Service!Answers(r, a) = Answers(r, a)
  BY <1>1, Zenon DEF Answers, Service!Answers, Status, Service!Status
<1>3. \A r, a : Service!ActiveAfter(r, a) = ActiveAfter(r, a)
  BY <1>1, <1>2, Zenon DEF ActiveAfter, Service!ActiveAfter
<1>4. \A r : Service!Silent(r) = Silent(r)
  BY Zenon DEF Silent, Service!Silent, Refused, Service!Refused
<1> QED BY <1>2, <1>3, <1>4

LEMMA ClientRefines ==
  ASSUME IInv, NEW c \in Clients, Client(c)
  PROVE  Service!ServiceNext \/ UNCHANGED Service!serviceVars
<1> USE DEF IInv
<1>1. CASE Connect(c)
  <2>1. Gone' = Gone /\ Served' = Served
    BY <1>1 DEF Connect, Gone, Served, TypeOK
  <2> QED BY <1>1, <2>1 DEF Connect, Service!serviceVars
<1>2. ASSUME NEW r \in Requests, SendCommand(c, r)
      PROVE  Service!Call(c, r)
  <2>1. request[c] = None /\ client[c] = "connected" /\ (fd[c] = "none" \/ reading = c)
    BY <1>2 DEF SendCommand, UnwrittenOK
  <2>2. Gone' = Gone /\ c \notin Gone
    BY <1>2, <2>1 DEF SendCommand, Gone, TypeOK
  <2>3. Served' = Served
    BY <1>2, <2>1 DEF SendCommand, Served, serverVars, TypeOK
  <2> QED BY <1>2, <2>1, <2>2, <2>3 DEF SendCommand, serverVars, Service!Call
<1>3. ASSUME UNCHANGED <<request, serverVars>>, client' = [client EXCEPT ![c] = "gone"]
      PROVE  Service!Hangup(c)
  <2>1. Gone' = Gone \cup {c}
    BY <1>3 DEF Gone, TypeOK
  <2>2. Served' = Served
    BY <1>3 DEF Served, serverVars
  <2> QED BY <1>3, <2>1, <2>2 DEF serverVars, Service!Hangup
<1>4. CASE Exit(c)
  <2>1. Service!Hangup(c)
    BY <1>3, <1>4 DEF Exit
  <2> QED BY <2>1 DEF Service!ServiceNext
<1>5. CASE ReadResponse(c)
  <2>1. CASE response[c] = None
    <3>1. Service!Hangup(c)
      BY <1>3, <1>5, <2>1 DEF ReadResponse
    <3> QED BY <3>1 DEF Service!ServiceNext
  <2>2. CASE response[c] # None
    <3>1. client[c] = "waiting" /\ client' = [client EXCEPT ![c] = "done"]
      BY <1>5, <2>2 DEF ReadResponse
    <3>2. Gone' = Gone
      BY <3>1 DEF Gone, TypeOK
    <3>3. Served' = Served
      BY <1>5 DEF ReadResponse, Served, serverVars
    <3> QED BY <1>5, <3>2, <3>3 DEF ReadResponse, serverVars, Service!serviceVars
  <2> QED BY <2>1, <2>2
<1> QED BY <1>1, <1>2, <1>4, <1>5 DEF Client, Service!ServiceNext

\* What the service sees of the loop: nothing, but for a command it refuses or
\* handles.
LEMMA LoopRefines ==
  ASSUME IInv,
         \/ PressButton \/ HandleButtonPress \/ EventsDone \/ AcceptFails \/ CommandsDone
         \/ Accept \/ UNCHANGED vars
  PROVE  UNCHANGED Service!serviceVars
<1> USE DEF IInv
<1>1. UNCHANGED <<clientVars, response, pending_cmds, active_workspace>>
  BY DEF PressButton, HandleButtonPress, EventsDone, AcceptFails, CommandsDone, Accept, vars,
         clientVars, serverVars
<1>2. Gone' = Gone
  BY <1>1 DEF Gone, clientVars
<1>3. Served' = Served
  <2>1. CASE UNCHANGED <<fd, reading>>
    BY <1>1, <2>1 DEF Served, clientVars
  <2>2. CASE Accept
    <3> DEFINE c == Head(backlog)
    <3>1. c \in Clients /\ \E k \in DOMAIN backlog : backlog[k] = c
      BY <2>2, TailDistinct DEF Accept, TypeOK, BacklogOK
    <3>2. fd[c] = "none" /\ reading = None /\ reading' = c /\ fd' = [fd EXCEPT ![c] = "open"]
      BY <2>2, <3>1 DEF Accept, BacklogOK, ReadingOK
    <3>3. \A d \in Clients : d # None
      BY CtlServerAssumption
    <3>4. \A d \in Clients : (fd'[d] # "none" /\ reading' # d) <=> (fd[d] # "none" /\ reading # d)
      BY <3>1, <3>2, <3>3 DEF TypeOK
    <3> QED BY <1>1, <3>4 DEF Served, clientVars
  <2> QED BY <2>1, <2>2 DEF PressButton, HandleButtonPress, EventsDone, AcceptFails,
                            CommandsDone, vars, serverVars
<1> QED BY <1>1, <1>2, <1>3 DEF clientVars, Service!serviceVars

LEMMA QueueRefines ==
  ASSUME IInv, NEW c \in Clients, QueueCommand(c)
  PROVE  UNCHANGED Service!serviceVars
<1> USE DEF IInv
<1>1. /\ reading = c /\ reading' = None /\ pending_cmds \in Seq(Clients)
      /\ pending_cmds' = Append(pending_cmds, c)
      /\ UNCHANGED <<client, request, fd, response, active_workspace>>
  BY DEF QueueCommand, TypeOK, clientVars
<1>2. ASSUME NEW d \in Clients
      PROVE  /\ (reading' # d /\ \A k \in DOMAIN pending_cmds' : pending_cmds'[k] # d)
                <=> (reading # d /\ \A k \in DOMAIN pending_cmds : pending_cmds[k] # d)
  <2>1. DOMAIN pending_cmds' = DOMAIN pending_cmds \cup {Len(pending_cmds) + 1}
    BY <1>1
  <2>2. /\ pending_cmds'[Len(pending_cmds) + 1] = c
        /\ \A k \in DOMAIN pending_cmds : pending_cmds'[k] = pending_cmds[k]
    BY <1>1
  <2> QED BY <1>1, <2>1, <2>2, CtlServerAssumption
<1>3. Served' = Served /\ Gone' = Gone
  BY <1>1, <1>2 DEF Served, Gone
<1> QED BY <1>1, <1>3 DEF Service!serviceVars

LEMMA RefuseRefines ==
  ASSUME IInv, NEW c \in Clients, RefuseCommand(c)
  PROVE  Service!Serve(c) \/ UNCHANGED Service!serviceVars
<1> USE DEF IInv
<1>1. /\ reading = c /\ reading' = None /\ c # None /\ fd[c] = "open"
      /\ fd' = [fd EXCEPT ![c] = "closed"]
      /\ UNCHANGED <<client, request, pending_cmds, active_workspace>>
  BY CtlServerAssumption DEF RefuseCommand, ReadingOK, clientVars
<1>2. Gone' = Gone
  BY <1>1 DEF Gone
<1>3. ASSUME NEW d \in Clients, d # c
      PROVE  d \in Served' <=> d \in Served
  BY <1>1, <1>3, CtlServerAssumption DEF Served, TypeOK
<1>4. CASE request[c] = None
  <2>1. Served' = Served
    BY <1>1, <1>3, <1>4 DEF Served
  <2> QED BY <1>1, <1>2, <1>4, <2>1 DEF RefuseCommand, Service!serviceVars
<1>5. CASE request[c] # None
  <2>1. request[c].command \in Refused
    BY <1>5 DEF RefuseCommand
  <2>2. c \notin Served /\ c \in Served'
    <3>1. fd'[c] = "closed"
      BY <1>1 DEF TypeOK
    <3>2. \A k \in DOMAIN pending_cmds : pending_cmds[k] # c
      BY <1>1 DEF PendingOK
    <3> QED BY <1>1, <1>5, <3>1, <3>2 DEF Served
  <2>3. Served' = Served \cup {c}
    <3>1. Served \subseteq Clients /\ Served' \subseteq Clients
      BY DEF Served
    <3> QED BY <1>3, <2>2, <3>1
  <2>4. active_workspace' = Service!ActiveAfter(request[c], active_workspace)
    BY <1>1, <2>1, SameProtocol DEF ActiveAfter, Refused
  <2>5. ~ Silent(request[c])
    BY <2>1 DEF Silent
  <2>6. PICK a \in Answers(request[c], active_workspace) : response' = Written(c, a)
    BY <1>5 DEF RefuseCommand
  <2>7. IF c \in Gone \/ Service!Silent(request[c]) THEN UNCHANGED response
        ELSE \E b \in Service!Answers(request[c], active_workspace) :
               response' = [response EXCEPT ![c] = b]
    BY <2>5, <2>6, SameProtocol DEF Written, Gone
  <2> QED BY <1>1, <1>2, <1>5, <2>2, <2>3, <2>4, <2>7 DEF Service!Serve
<1> QED BY <1>4, <1>5

LEMMA HandleRefines ==
  ASSUME IInv, NEW c \in Clients, HandleCommand(c)
  PROVE  Service!Serve(c)
<1> USE DEF IInv
<1>1. /\ pending_cmds \in Seq(Clients) /\ pending_cmds # <<>> /\ Distinct(pending_cmds)
      /\ c = Head(pending_cmds) /\ pending_cmds' = Tail(pending_cmds)
      /\ UNCHANGED <<client, request, fd, reading>>
  BY DEF HandleCommand, NextCommand, TypeOK, PendingOK, clientVars
<1>2. /\ \E k \in DOMAIN pending_cmds : pending_cmds[k] = c
      /\ \A k \in DOMAIN pending_cmds' : /\ pending_cmds'[k] # c
                                         /\ \E j \in DOMAIN pending_cmds : pending_cmds'[k] = pending_cmds[j]
      /\ \A j \in DOMAIN pending_cmds : pending_cmds[j] # c =>
           \E k \in DOMAIN pending_cmds' : pending_cmds'[k] = pending_cmds[j]
  BY <1>1, TailDistinct
<1>3. /\ fd[c] = "open" /\ reading # c
      /\ request[c] # None /\ request[c].command \notin Refused
  BY <1>2 DEF PendingOK
<1>4. Gone' = Gone
  BY <1>1 DEF Gone
<1>5. c \notin Served /\ c \in Served'
  BY <1>1, <1>2, <1>3 DEF Served
<1>6. ASSUME NEW d \in Clients, d # c
      PROVE  (\A k \in DOMAIN pending_cmds' : pending_cmds'[k] # d)
             <=> (\A k \in DOMAIN pending_cmds : pending_cmds[k] # d)
  BY <1>2, <1>6
<1>7. Served' = Served \cup {c}
  BY <1>1, <1>5, <1>6 DEF Served
<1>8. active_workspace' = Service!ActiveAfter(request[c], active_workspace)
  BY SameProtocol DEF HandleCommand
<1>9. Service!Silent(request[c]) <=> request[c].no_response
  BY <1>3, SameProtocol DEF Silent
<1>10. IF c \in Gone \/ Service!Silent(request[c]) THEN UNCHANGED response
       ELSE \E b \in Service!Answers(request[c], active_workspace) :
              response' = [response EXCEPT ![c] = b]
  <2>1. CASE request[c].no_response
    BY <1>9, <2>1 DEF HandleCommand
  <2>2. CASE ~ request[c].no_response
    <3>1. PICK a \in Answers(request[c], active_workspace) : response' = Written(c, a)
      BY <2>2 DEF HandleCommand
    <3> QED BY <1>9, <2>2, <3>1, SameProtocol DEF Written, Gone
  <2> QED BY <2>1, <2>2
<1> QED BY <1>1, <1>3, <1>4, <1>5, <1>7, <1>8, <1>10 DEF Service!Serve

LEMMA StepRefines ==
  IInv /\ [Next]_vars => [Service!ServiceNext]_(Service!serviceVars)
<1> SUFFICES ASSUME IInv, [Next]_vars
             PROVE  Service!ServiceNext \/ UNCHANGED Service!serviceVars
  OBVIOUS
<1>1. ASSUME NEW c \in Clients, Client(c)
      PROVE  Service!ServiceNext \/ UNCHANGED Service!serviceVars
  BY <1>1, ClientRefines
<1>2. CASE \/ PressButton \/ HandleButtonPress \/ EventsDone \/ AcceptFails \/ CommandsDone
           \/ Accept \/ UNCHANGED vars
  BY <1>2, LoopRefines
<1>3. ASSUME NEW c \in Clients, RefuseCommand(c) \/ QueueCommand(c) \/ HandleCommand(c)
      PROVE  Service!ServiceNext \/ UNCHANGED Service!serviceVars
  BY <1>3, RefuseRefines, QueueRefines, HandleRefines DEF Service!ServiceNext
<1> QED BY <1>1, <1>2, <1>3 DEF Next, Server

(***************************************************************************)
(* However clients, accept, the reads and the queue interleave, and with   *)
(* any number of clients, a command takes effect once and its own client   *)
(* gets the response that fits the state at that instant: the server       *)
(* implements CtlService.                                                  *)
(***************************************************************************)
THEOREM ServiceImplemented == Spec => ImplementsService
<1>1. Init => Service!ServiceInit
  <2>1. ASSUME Init PROVE Gone = {} /\ Served = {}
    BY <2>1 DEF Init, Gone, Served
  <2> QED BY <2>1 DEF Init, Service!ServiceInit
<1>2. IInv /\ [Next]_vars => [Service!ServiceNext]_(Service!serviceVars)
  BY StepRefines
<1> QED BY <1>1, <1>2, Invariance, PTL DEF Spec, ImplementsService, Service!ServiceSpec
=============================================================================
