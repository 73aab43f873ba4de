------------------------- MODULE ServerStartProofs -------------------------
(***************************************************************************)
(* Proofs about ServerStart, for any number of instances and clients.      *)
(*                                                                         *)
(* The inductive invariant says what a start knows at each of its calls.   *)
(* It knows it only as long as no other start runs: an instance that       *)
(* listens came to do so in a start of its own, which would have to end    *)
(* between the calls of this one.                                          *)
(***************************************************************************)
EXTENDS ServerStart, TLAPS

Stages == Starting \cup Serving \cup Ended

Peers == Instances \cup Clients \cup {Closed}

LEMMA StagesDiffer ==
  /\ Starting \cap Serving = {} /\ Starting \cap Ended = {} /\ Serving \cap Ended = {}
  BY DEF Starting, Serving, Ended

\* The end of a process leaves the variables well-typed.
LEMMA CloseEndsType ==
  ASSUME TypeOK, NEW p \in Instances \cup Clients, NEW reset \in SUBSET Instances,
         CloseEnds(p, reset)
  PROVE  /\ backlog' \in [Instances -> Seq(Peers)]
         /\ \A i \in Instances : Len(backlog'[i]) <= Backlog + 1
         /\ reading' \in [Instances -> Peers \cup {None}]
<1>1. ASSUME NEW i \in Instances
      PROVE  backlog'[i] \in Seq(Peers) /\ Len(backlog'[i]) <= Backlog + 1
  <2>1. CASE i \in reset
    <3>1. backlog'[i] = <<>>
      BY <2>1 DEF CloseEnds
    <3> QED BY <3>1, ServerStartAssumption
  <2>2. CASE i \notin reset
    <3> DEFINE b == backlog[i]
               d == [k \in DOMAIN b |-> IF b[k] = p THEN Closed ELSE b[k]]
    <3>1. b \in Seq(Peers) /\ Len(b) <= Backlog + 1
      BY DEF TypeOK, Peers
    <3>2. backlog'[i] = d
      BY <2>2 DEF CloseEnds
    <3> HIDE DEF b
    <3>3. DOMAIN b = 1 .. Len(b) /\ Len(b) \in Nat /\ \A k \in 1 .. Len(b) : b[k] \in Peers
      BY <3>1
    <3>4. d \in [1 .. Len(b) -> Peers]
      BY <3>3 DEF Peers
    <3>5. d \in Seq(Peers) /\ Len(d) = Len(b)
      BY <3>3, <3>4
    <3> QED BY <3>1, <3>2, <3>5
  <2> QED BY <2>1, <2>2
<1>2. backlog' = [i \in Instances |-> backlog'[i]]
  BY DEF CloseEnds
<1>3. reading' \in [Instances -> Peers \cup {None}]
  BY DEF CloseEnds, TypeOK, Peers
<1> QED BY <1>1, <1>2, <1>3

LEMMA EndType ==
  ASSUME TypeOK, NEW i \in Instances, NEW s \in Stages, stage' = [stage EXCEPT ![i] = s], End(i)
  PROVE  TypeOK'
<1>1. /\ backlog' \in [Instances -> Seq(Peers)]
      /\ \A j \in Instances : Len(backlog'[j]) <= Backlog + 1
      /\ reading' \in [Instances -> Peers \cup {None}]
  BY CloseEndsType DEF End
<1>2. stage' \in [Instances -> Stages] /\ file' \in [{Where, SockName} -> Instances \cup {Stale, None}]
  BY DEF TypeOK, End, Stages
<1>3. answered' \subseteq Instances /\ pending' \in [Instances -> SUBSET Clients]
  BY DEF TypeOK, End
<1>4. client' = client /\ server' \in [Clients -> Instances \cup {None}]
  BY DEF TypeOK, End
<1> QED BY <1>1, <1>2, <1>3, <1>4 DEF TypeOK, Stages, Peers

\* A connection that ConnectTo makes.
LEMMA ConnectType ==
  ASSUME TypeOK, NEW p \in Instances \cup Clients, NEW j \in Instances, ConnectTo(p, j)
  PROVE  /\ backlog' \in [Instances -> Seq(Peers)]
         /\ \A i \in Instances : Len(backlog'[i]) <= Backlog + 1
<1>1. backlog[j] \in Seq(Peers) /\ Len(backlog[j]) <= Backlog /\ p \in Peers
  BY DEF TypeOK, ConnectTo, Peers
<1>2. /\ Append(backlog[j], p) \in Seq(Peers)
      /\ Len(Append(backlog[j], p)) = Len(backlog[j]) + 1
      /\ Len(backlog[j]) \in Nat
  BY <1>1
<1>3. Len(Append(backlog[j], p)) <= Backlog + 1
  BY <1>1, <1>2, ServerStartAssumption
<1>4. backlog \in [Instances -> Seq(Peers)] /\ \A i \in Instances : Len(backlog[i]) <= Backlog + 1
  BY DEF TypeOK, Peers
<1>5. backlog' = [backlog EXCEPT ![j] = Append(backlog[j], p)]
  BY DEF ConnectTo
<1> QED BY <1>2, <1>3, <1>4, <1>5

LEMMA TypeStep ==
  ASSUME TypeOK, [Next]_vars
  PROVE  TypeOK'
<1> USE DEF TypeOK
<1>1. CASE UNCHANGED vars
  BY <1>1 DEF vars
<1>2. ASSUME NEW i \in Instances, Start(i)
      PROVE  TypeOK'
  BY <1>2 DEF Start, serverVars, clientVars, Starting
<1>3. ASSUME NEW i \in Instances, StartSteps(i)
      PROVE  TypeOK'
  <2>1. CASE Access(i)
    BY <2>1 DEF Access, Step, serverVars, clientVars, Starting
  <2>2. CASE ProbeRefused(i)
    BY <2>2 DEF ProbeRefused, Step, serverVars, clientVars, Starting
  <2>3. CASE Remove(i)
    BY <2>3 DEF Remove, Step, serverVars, clientVars, Starting
  <2>4. CASE Bind(i)
    BY <2>4 DEF Bind, Step, serverVars, clientVars, Starting
  <2>5. CASE BindFails(i)
    BY <2>5, EndType DEF BindFails, Step, Stages, Ended
  <2>6. CASE Listen(i)
    BY <2>6 DEF Listen, Step, serverVars, clientVars, Serving
  <2> QED BY <1>3, <2>1, <2>2, <2>3, <2>4, <2>5, <2>6 DEF StartSteps
<1>4. ASSUME NEW i \in Instances, ProbeAnswered(i)
      PROVE  TypeOK'
  <2>1. stage' \in [Instances -> Starting \cup Serving \cup Ended]
    BY <1>4 DEF ProbeAnswered, Step, Starting
  <2>2. /\ backlog' \in [Instances -> Seq(Peers)]
        /\ \A j \in Instances : Len(backlog'[j]) <= Backlog + 1
    BY <1>4, ConnectType DEF ProbeAnswered
  <2> QED BY <1>4, <2>1, <2>2 DEF ProbeAnswered, clientVars, Peers
<1>5. ASSUME NEW i \in Instances, LoopSteps(i)
      PROVE  TypeOK'
  <2>1. CASE Accept(i)
    <3>1. Head(backlog[i]) \in Peers /\ Tail(backlog[i]) \in Seq(Peers)
          /\ Len(Tail(backlog[i])) <= Backlog + 1
      <4>1. backlog[i] \in Seq(Peers) /\ backlog[i] # <<>> /\ Len(backlog[i]) <= Backlog + 1
        BY <2>1 DEF Accept, Peers
      <4>2. Len(Tail(backlog[i])) = Len(backlog[i]) - 1
        BY <4>1
      <4> QED BY <4>1, <4>2, ServerStartAssumption
    <3> QED BY <2>1, <3>1 DEF Accept, Step, Serving, clientVars, Peers
  <2>2. CASE AcceptFails(i)
    BY <2>2 DEF AcceptFails, Step, serverVars, clientVars, Serving
  <2>3. CASE Read(i)
    <3>1. pending' \in [Instances -> SUBSET Clients]
      <4>1. CASE UNCHANGED pending
        BY <4>1
      <4>2. ASSUME NEW c \in Clients, pending' = [pending EXCEPT ![i] = @ \cup {c}]
            PROVE  pending' \in [Instances -> SUBSET Clients]
        BY <4>2
      <4> QED BY <2>3, <4>1, <4>2 DEF Read
    <3>2. stage' \in [Instances -> Starting \cup Serving \cup Ended]
      BY <2>3 DEF Read, Step, Serving
    <3>3. reading' \in [Instances -> Peers \cup {None}]
      BY <2>3 DEF Read, Peers
    <3> QED BY <2>3, <3>1, <3>2, <3>3 DEF Read, clientVars, Peers
  <2>4. CASE CommandsDone(i)
    BY <2>4 DEF CommandsDone, Step, serverVars, clientVars, Serving
  <2>5. ASSUME NEW c \in Clients, Handle(i, c)
        PROVE  TypeOK'
    BY <2>5 DEF Handle, startVars
  <2> QED BY <1>5, <2>1, <2>2, <2>3, <2>4, <2>5 DEF LoopSteps
<1>6. ASSUME NEW i \in Instances, Crash(i)
      PROVE  TypeOK'
  BY <1>6, EndType DEF Crash, Stages, Ended
<1>7. ASSUME NEW c \in Clients, Connect(c)
      PROVE  TypeOK'
  <2>1. PICK j \in Instances : ConnectTo(c, j) /\ server' = [server EXCEPT ![c] = j]
    BY <1>7 DEF Connect
  <2>2. /\ backlog' \in [Instances -> Seq(Peers)]
        /\ \A i \in Instances : Len(backlog'[i]) <= Backlog + 1
    BY <2>1, ConnectType
  <2> QED BY <1>7, <2>1, <2>2 DEF Connect, startVars, Peers
<1>8. ASSUME NEW c \in Clients, Kill(c)
      PROVE  TypeOK'
  <2>1. /\ backlog' \in [Instances -> Seq(Peers)]
        /\ \A i \in Instances : Len(backlog'[i]) <= Backlog + 1
        /\ reading' \in [Instances -> Peers \cup {None}]
    BY <1>8, CloseEndsType DEF Kill, Peers
  <2> QED BY <1>8, <2>1 DEF Kill, startVars, Peers
<1>9. ASSUME NEW c \in Clients, ConnectFails(c) \/ SendCommand(c) \/ Reset(c)
      PROVE  TypeOK'
  BY <1>9 DEF ConnectFails, SendCommand, Reset, startVars, serverVars
<1> QED BY <1>1, <1>2, <1>3, <1>4, <1>5, <1>6, <1>7, <1>8, <1>9 DEF Next

LEMMA InitialType == Init => TypeOK
  BY ServerStartAssumption DEF Init, TypeOK, Ended

(***************************************************************************)
(* The variables are well-typed; in particular no backlog is longer than   *)
(* listen allows (_try_remove_old_sock, mawimctl_client_connect).          *)
(***************************************************************************)
THEOREM TypeCorrect == Spec => []TypeOK
<1>1. TypeOK /\ [Next]_vars => TypeOK'
  BY TypeStep
<1> QED BY InitialType, <1>1, PTL DEF Spec
-----------------------------------------------------------------------------
(***************************************************************************)
(* What an instance knows at each call of its start, in a world of one     *)
(* name and no second start.                                               *)
(***************************************************************************)
OneStart == \A i, j \in Instances : IsStarting(i) /\ IsStarting(j) => i = j

ListenerOwns == \A i \in Instances : stage[i] = "listen" => file[Where] = i

RemovesUnused == \A i, j \in Instances : stage[i] = "remove" => ~ Listens(j)

BindsFree == \A i \in Instances : stage[i] = "bind" /\ i \notin answered => file[Where] = None

IInv == TypeOK /\ OneStart /\ ServesAtFile /\ ListenerOwns /\ RemovesUnused /\ BindsFree

\* A step that leaves file and answered alone, and takes nobody to a stage
\* about which IInv has something to say.
LEMMA QuietStep ==
  ASSUME IInv, TypeOK', UNCHANGED <<file, answered>>,
         \A i \in Instances : \/ stage'[i] = stage[i]
                              \/ stage[i] \in Serving /\ stage'[i] \in Serving
  PROVE  IInv'
<1>1. \A i \in Instances : /\ IsStarting(i)' <=> IsStarting(i)
                           /\ Listens(i)' <=> Listens(i)
                           /\ \A s \in Starting : stage'[i] = s <=> stage[i] = s
  BY StagesDiffer DEF IsStarting, Listens
<1> QED BY <1>1 DEF IInv, OneStart, ServesAtFile, ListenerOwns, RemovesUnused, BindsFree, Starting

LEMMA InvariantStep ==
  ASSUME ~ StartsOverlap, Where = SockName, IInv, [Next]_vars
  PROVE  IInv'
<1>1. TypeOK /\ TypeOK'
  BY TypeStep DEF IInv
<1>2. /\ stage \in [Instances -> Stages] /\ stage' \in [Instances -> Stages]
      /\ file \in [{Where} -> Instances \cup {Stale, None}]
  BY <1>1 DEF TypeOK, Stages
<1> USE DEF OneStart, ServesAtFile, ListenerOwns, RemovesUnused, BindsFree, Step
<1>3. ASSUME NEW i \in Instances, Start(i)
      PROVE  IInv'
  BY <1>1, <1>2, <1>3, StagesDiffer DEF IInv, Start, IsStarting, Listens, Starting, Serving
<1>4. ASSUME NEW i \in Instances, Access(i)
      PROVE  IInv'
  BY <1>1, <1>2, <1>4 DEF IInv, Access, IsStarting, Listens, Starting, Serving
<1>5. ASSUME NEW i \in Instances, ProbeRefused(i)
      PROVE  IInv'
  BY <1>1, <1>2, <1>5 DEF IInv, ProbeRefused, Refuses, IsStarting, Listens, Starting, Serving
<1>6. ASSUME NEW i \in Instances, ProbeAnswered(i)
      PROVE  IInv'
  BY <1>1, <1>2, <1>6 DEF IInv, ProbeAnswered, IsStarting, Listens, Starting, Serving
<1>7. ASSUME NEW i \in Instances, Remove(i)
      PROVE  IInv'
  BY <1>1, <1>2, <1>7 DEF IInv, Remove, IsStarting, Listens, Starting, Serving
<1>8. ASSUME NEW i \in Instances, Bind(i)
      PROVE  IInv'
  BY <1>1, <1>2, <1>8, ServerStartAssumption DEF IInv, Bind, IsStarting, Listens, Starting, Serving
<1>9. ASSUME NEW i \in Instances, Listen(i)
      PROVE  IInv'
  BY <1>1, <1>2, <1>9 DEF IInv, Listen, IsStarting, Listens, Starting, Serving
<1>10. ASSUME NEW i \in Instances, NEW s \in Ended, stage' = [stage EXCEPT ![i] = s], End(i)
       PROVE  IInv'
  <2>1. /\ answered' = answered \ {i}
        /\ file'[Where] = IF file[Where] = i THEN Stale ELSE file[Where]
    BY <1>2, <1>10 DEF End
  <2>2. /\ stage'[i] = s /\ s \notin Starting /\ s \notin Serving
        /\ \A j \in Instances \ {i} : stage'[j] = stage[j]
    BY <1>2, <1>10, StagesDiffer
  <2> QED BY <1>1, <2>1, <2>2, ServerStartAssumption DEF IInv, IsStarting, Listens, Starting
<1>11. ASSUME NEW i \in Instances, LoopSteps(i)
       PROVE  IInv'
  <2>1. UNCHANGED <<file, answered>>
    BY <1>11 DEF LoopSteps, Accept, AcceptFails, Read, CommandsDone, Handle, startVars
  <2>2. \A j \in Instances : \/ stage'[j] = stage[j]
                             \/ stage[j] \in Serving /\ stage'[j] \in Serving
    BY <1>2, <1>11
       DEF LoopSteps, Accept, AcceptFails, Read, CommandsDone, Handle, startVars, Serving
  <2> QED BY <1>1, <2>1, <2>2, QuietStep
<1>12. CASE UNCHANGED startVars
  BY <1>1, <1>12, QuietStep DEF startVars
<1>13. ASSUME NEW i \in Instances, BindFails(i) \/ Crash(i)
       PROVE  IInv'
  BY <1>10, <1>13 DEF BindFails, Crash, Ended
<1>14. ASSUME NEW c \in Clients,
              Connect(c) \/ ConnectFails(c) \/ SendCommand(c) \/ Reset(c) \/ Kill(c)
       PROVE  UNCHANGED startVars
  BY <1>14 DEF Connect, ConnectFails, SendCommand, Reset, Kill
<1>15. UNCHANGED vars => UNCHANGED startVars
  BY DEF vars, startVars
<1> HIDE DEF OneStart, ServesAtFile, ListenerOwns, RemovesUnused, BindsFree, Step
<1> QED
  BY <1>3, <1>4, <1>5, <1>6, <1>7, <1>8, <1>9, <1>11, <1>12, <1>13, <1>14, <1>15
  DEF Next, StartSteps

LEMMA InitialInvariant == Init => IInv
  BY InitialType
  DEF Init, IInv, OneStart, ServesAtFile, ListenerOwns, RemovesUnused, BindsFree,
      IsStarting, Listens, Starting, Serving

(***************************************************************************)
(* If starts do not overlap and the name fits into sun_path, every         *)
(* instance that serves is the one the file leads to.                      *)
(***************************************************************************)
THEOREM AlwaysServesAtFile ==
  ASSUME ~ StartsOverlap, Where = SockName
  PROVE  Spec => []ServesAtFile
<1>1. IInv => ServesAtFile
  BY DEF IInv
<1>2. IInv /\ [Next]_vars => IInv'
  BY InvariantStep
<1> QED BY <1>1, <1>2, InitialInvariant, PTL DEF Spec

(***************************************************************************)
(* Under the same conditions a start fails only if another instance has    *)
(* answered its probe, whatever earlier crashes have left behind.          *)
(***************************************************************************)
THEOREM AlwaysTakesOver ==
  ASSUME ~ StartsOverlap, Where = SockName
  PROVE  Spec => FailsOnlyIfAnswered
<1> DEFINE Fails == \A i \in Instances : stage[i] = "bind" /\ stage'[i] = "failed" => i \in answered
<1>1. ASSUME IInv, [Next]_vars
      PROVE  [Fails]_vars
  <2>1. SUFFICES ASSUME NEW i \in Instances, stage[i] = "bind", stage'[i] = "failed"
                 PROVE  i \in answered
    OBVIOUS
  <2>2. BindFails(i)
    BY <1>1, <2>1
    DEF Next, StartSteps, LoopSteps, Start, Access, ProbeRefused, ProbeAnswered, Remove, Bind,
        BindFails, Listen, Crash, Accept, AcceptFails, Read, CommandsDone, Handle, Connect,
        ConnectFails, SendCommand, Reset, Kill, Step, startVars, vars, Ended, IInv, TypeOK
  <2> QED BY <1>1, <2>1, <2>2 DEF BindFails, IInv, BindsFree
<1>2. IInv /\ [Next]_vars => IInv'
  BY InvariantStep
<1> QED BY <1>1, <1>2, InitialInvariant, PTL DEF Spec, FailsOnlyIfAnswered

(***************************************************************************)
(* No two instances serve at a time.                                       *)
(***************************************************************************)
THEOREM OneServes ==
  ASSUME ~ StartsOverlap, Where = SockName
  PROVE  Spec => [](\A i, j \in Instances : Listens(i) /\ Listens(j) => i = j)
<1>1. ServesAtFile => \A i, j \in Instances : Listens(i) /\ Listens(j) => i = j
  BY DEF ServesAtFile
<1> QED BY <1>1, AlwaysServesAtFile, PTL
=============================================================================
