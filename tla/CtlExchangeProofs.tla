------------------------- MODULE CtlExchangeProofs -------------------------
(***************************************************************************)
(* Proofs about CtlExchange, for any clients, commands and version.        *)
(***************************************************************************)
EXTENDS CtlExchange, CtlPacketProofs

\* Everything that a client can send is a command whose length is right.
LEMMA StructIsCommand ==
  ASSUME NEW id \in Byte, NEW d \in Data
  PROVE  Struct(id, d) \in Command
<1>1. LengthOf(d) \in Uint16
  <2>1. CASE d = None
    BY <2>1 DEF LengthOf, Uint16
  <2>2. CASE d # None
    BY <2>2 DEF LengthOf, Data
  <2> QED BY <2>1, <2>2
<1> QED BY <1>1 DEF Struct, Command, Byte

LEMMA OneByte ==
  ASSUME NEW b \in Byte
  PROVE  <<b>> \in Data
<1>1. <<b>> \in Seq(Byte) /\ Len(<<b>>) = 1
  OBVIOUS
<1>2. 1 \in Uint16
  BY DEF Uint16
<1> QED BY <1>1, <1>2 DEF Data

\* The commands of the tool.
LEMMA PlainIsCommand ==
  ASSUME NEW id \in {GET_VERSION, GET_WORKSPACE, RELOAD, CLOSE_FOCUSED}
  PROVE  Struct(id, None) \in Command
<1>1. id \in Byte
  BY DEF GET_VERSION, GET_WORKSPACE, RELOAD, CLOSE_FOCUSED, Byte
<1>2. None \in Data
  BY DEF Data
<1> QED BY <1>1, <1>2, StructIsCommand

LEMMA WithWorkspaceIsCommand ==
  ASSUME NEW id \in {SET_WORKSPACE, MOVE_FOCUSED_TO_WORKSPACE}, NEW w \in 1 .. 9
  PROVE  Struct(id, <<w>>) \in Command
<1>1. id \in Byte /\ w \in Byte
  BY DEF SET_WORKSPACE, MOVE_FOCUSED_TO_WORKSPACE, Byte
<1> QED BY <1>1, OneByte, StructIsCommand

\* The stages of an exchange: a packet that waits is the client's command in
\* bytes, and a reply is there only when it has been read.
Stages ==
  /\ stage \in [Clients -> {"new", "waiting", "ended"}]
  /\ command \in [Clients -> Command \cup {None}]
  /\ DOMAIN inbox = Clients /\ DOMAIN reply = Clients /\ DOMAIN exit = Clients

Waits(c) == inbox[c] # None => command[c] \in Command /\ inbox[c] = EncodeCommand(command[c])

Replied(c) == reply[c] # None => inbox[c] = None

Fresh(c) == stage[c] = "new" => inbox[c] = None /\ reply[c] = None /\ exit[c] = None

IInv == Stages /\ \A c \in Clients : Waits(c) /\ Replied(c) /\ Fresh(c)

LEMMA SendStep ==
  ASSUME IInv, NEW c \in Clients, NEW k \in Command, Send(c, k)
  PROVE  IInv'
  BY DEF IInv, Stages, Waits, Replied, Fresh, Send

LEMMA InvariantStep ==
  ASSUME IInv, [Next]_vars
  PROVE  IInv'
<1>1. CASE UNCHANGED vars
  BY <1>1 DEF IInv, Stages, Waits, Replied, Fresh, vars
<1>2. CASE ServerEnds
  BY <1>2 DEF IInv, Stages, Waits, Replied, Fresh, ServerEnds
<1>3. ASSUME NEW c \in Clients, Serve(c)
      PROVE  IInv'
  <2>1. PICK r : reply' = reply \/ (reply' = [reply EXCEPT ![c] = EncodeResponse(r)])
    BY <1>3 DEF Serve
  <2> QED BY <1>3, <2>1 DEF IInv, Stages, Waits, Replied, Fresh, Serve
<1>4. ASSUME NEW c \in Clients, RunPlain(c)
      PROVE  IInv'
  BY <1>4, PlainIsCommand, SendStep DEF RunPlain
<1>5. ASSUME NEW c \in Clients, NEW arg \in Arguments, RunWithWorkspace(c, arg)
      PROVE  IInv'
  BY <1>5, WithWorkspaceIsCommand, SendStep DEF RunWithWorkspace
<1>6. ASSUME NEW c \in Clients, NEW k \in Calls, Send(c, k)
      PROVE  IInv'
  BY <1>6, SendStep, ExchangeAssumption
<1>7. ASSUME NEW c \in Clients, NEW arg \in Arguments, RefuseArgument(c, arg)
      PROVE  IInv'
  BY <1>7 DEF IInv, Stages, Waits, Replied, Fresh, RefuseArgument, Ends
<1>8. ASSUME NEW c \in Clients, NoConnection(c)
      PROVE  IInv'
  BY <1>8 DEF IInv, Stages, Waits, Replied, Fresh, NoConnection, Ends
<1>9. ASSUME NEW c \in Clients, ReadResponse(c)
      PROVE  IInv'
  BY <1>9 DEF IInv, Stages, Waits, Replied, Fresh, ReadResponse, Report, Ends
<1>10. ASSUME NEW c \in Clients, ReadEnd(c)
       PROVE  IInv'
  BY <1>10 DEF IInv, Stages, Waits, Replied, Fresh, ReadEnd, Report, Ends
<1>11. ASSUME NEW c \in Clients, Leave(c)
       PROVE  IInv'
  BY <1>11 DEF IInv, Stages, Waits, Replied, Fresh, Leave
<1>12. ASSUME NEW c \in Clients, NoSuchCommand(c)
       PROVE  IInv'
  BY <1>12 DEF IInv, Stages, Waits, Replied, Fresh, NoSuchCommand, Ends
<1> QED
  BY <1>1, <1>2, <1>3, <1>4, <1>5, <1>6, <1>7, <1>8, <1>9, <1>10, <1>11, <1>12
     DEF Next, Client

LEMMA InitialInvariant == Init => IInv
  BY DEF Init, IInv, Stages, Waits, Replied, Fresh

(***************************************************************************)
(* What MaWiM parses is what the client filled in.                         *)
(***************************************************************************)
THEOREM CommandsAlwaysArrive == Spec => []CommandArrives
<1>1. IInv => CommandArrives
  BY CommandRoundTrip DEF IInv, Waits, CommandArrives
<1>2. IInv /\ [Next]_vars => IInv'
  BY InvariantStep
<1> QED BY <1>1, <1>2, InitialInvariant, PTL DEF Spec
-----------------------------------------------------------------------------
LEMMA NumberOK == Number("OK") = 0
<1>1. StatusNames[0 + 1] = "OK" /\ \A s \in 0 .. 7 : StatusNames[s + 1] = "OK" => s = 0
  BY DEF StatusNames
<1> QED BY <1>1 DEF Number

LEMMA StatusOfPacket ==
  ASSUME NEW p, ParseResponse(p).status = 0
  PROVE  p[1] = 0 /\ p # <<>>
<1>1. ~ (Len(p) < ResponseBase)
  BY DEF ParseResponse, STATUS_INVALID
<1> QED BY <1>1 DEF ParseResponse, ResponseBase

ReportsOK(c) ==
  exit[c] = 0 => stage[c] = "ended" /\ inbox[c] = None /\ reply[c] # None /\ reply[c][1] = 0

(***************************************************************************)
(* A tool that exits with 0 has been answered OK by MaWiM, which has read  *)
(* its command.                                                            *)
(***************************************************************************)
THEOREM ExitAlwaysTruthful == Spec => []ExitTruthful
<1> DEFINE Truth == \A c \in Clients : ReportsOK(c)
<1>1. Init => Truth
  BY ExchangeAssumption DEF Init, ReportsOK, Byte
<1>2. ASSUME IInv, Truth, [Next]_vars
      PROVE  Truth'
  <2>1. ASSUME NEW c \in Clients, ReadResponse(c)
        PROVE  Truth'
    BY <1>2, <2>1, StatusOfPacket DEF IInv, Stages, Replied, ReportsOK, ReadResponse, Report, Ends
  <2>2. ASSUME NEW c \in Clients, ReadEnd(c)
        PROVE  Truth'
    BY <1>2, <2>2, StatusOfPacket DEF IInv, Stages, ReportsOK, ReadEnd, Report, Ends
  <2>3. ASSUME NEW c \in Clients, Serve(c)
        PROVE  Truth'
    BY <1>2, <2>3 DEF IInv, Stages, ReportsOK, Serve
  <2>4. ASSUME NEW c \in Clients, NEW k, Send(c, k)
        PROVE  Truth'
    BY <1>2, <2>4 DEF IInv, Stages, Fresh, ReportsOK, Send
  <2>5. ASSUME NEW c \in Clients, NEW arg \in Arguments, RefuseArgument(c, arg)
        PROVE  Truth'
    BY <1>2, <2>5 DEF IInv, Stages, ReportsOK, RefuseArgument, Ends
  <2>6. ASSUME NEW c \in Clients, NoConnection(c)
        PROVE  Truth'
    BY <1>2, <2>6 DEF IInv, Stages, ReportsOK, NoConnection, Ends
  <2>7. ASSUME NEW c \in Clients, Leave(c)
        PROVE  Truth'
    BY <1>2, <2>7 DEF IInv, Stages, ReportsOK, Leave
  <2>8. CASE ServerEnds \/ UNCHANGED vars
    BY <1>2, <2>8 DEF ReportsOK, ServerEnds, vars
  <2>9. ASSUME NEW c \in Clients, NoSuchCommand(c)
        PROVE  Truth'
    BY <1>2, <2>9 DEF IInv, Stages, ReportsOK, NoSuchCommand, Ends
  <2> HIDE DEF Truth
  <2> QED BY <1>2, <2>1, <2>2, <2>3, <2>4, <2>5, <2>6, <2>7, <2>8, <2>9
          DEF Next, Client, RunPlain, RunWithWorkspace
<1>3. Truth => ExitTruthful
  BY NumberOK DEF ExitTruthful, ReportsOK
<1>4. IInv /\ [Next]_vars => IInv'
  BY InvariantStep
<1> HIDE DEF Truth
<1> QED BY <1>1, <1>2, <1>3, <1>4, InitialInvariant, PTL DEF Spec
-----------------------------------------------------------------------------
\* The response with the version, and its characters up to the first 0.
LEMMA VersionBytes ==
  ASSUME NEW b \in Stray
  PROVE  LET d == VersionData(b)
             n == Len(Version)
         IN  /\ d \in Seq(Byte) /\ Len(d) = n + 2 /\ n \in 0 .. 99
             /\ \A j \in 1 .. n : d[j] = Version[j] /\ Version[j] # 0
             /\ d[n + 1] = 0
<1> DEFINE n == Len(Version)
<1>1. Version \in Seq(1 .. 255) /\ n \in 0 .. 99 /\ b \in Byte
  <2>1. Version \in Seq(1 .. 255) /\ n < 100 /\ b \in Byte
    BY ExchangeAssumption
  <2>2. n \in Nat
    BY <2>1
  <2> HIDE DEF n
  <2> QED BY <2>1, <2>2
<1>2. Version \in Seq(Byte) /\ \A j \in 1 .. n : Version[j] # 0
  <2>1. \A j \in 1 .. n : Version[j] \in 1 .. 255
    BY <1>1, ElementOfSeq
  <2>2. \A x \in 1 .. 255 : x \in Byte /\ x # 0
    BY DEF Byte
  <2>3. Version = [j \in 1 .. n |-> Version[j]] /\ n \in Nat
    BY <1>1
  <2>4. \A j \in 1 .. n : Version[j] \in Byte
    BY <2>1, <2>2
  <2>5. [j \in 1 .. n |-> Version[j]] \in Seq(Byte)
    <3> HIDE DEF n
    <3> QED BY <2>3, <2>4
  <2> QED BY <2>1, <2>2, <2>3, <2>5
<1>3. <<0, b>> \in Seq(Byte) /\ Len(<<0, b>>) = 2 /\ <<0, b>>[1] = 0
  BY <1>1 DEF Byte
<1> DEFINE t == <<0, b>>
<1> HIDE DEF t
<1>4. /\ Version \o t \in Seq(Byte) /\ Len(Version \o t) = n + Len(t)
      /\ \A k \in 1 .. n : (Version \o t)[k] = Version[k]
      /\ \A k \in 1 .. Len(t) : (Version \o t)[k + n] = t[k]
  BY <1>2, <1>3, After DEF t
<1>5. Len(t) = 2 /\ t[1] = 0 /\ VersionData(b) = Version \o t
  BY <1>3 DEF t, VersionData
<1>6. (Version \o t)[n + 1] = 0
  BY <1>1, <1>4, <1>5
<1> QED BY <1>1, <1>2, <1>4, <1>5, <1>6

LEMMA VersionString ==
  ASSUME NEW b \in Stray
  PROVE  CString(VersionData(b)) = Version
<1> DEFINE d == VersionData(b)
           n == Len(Version)
           Ends0(m) == (m = Len(d) \/ d[m + 1] = 0) /\ \A j \in 1 .. m : d[j] # 0
<1>1. /\ d \in Seq(Byte) /\ Len(d) = n + 2 /\ n \in 0 .. 99
      /\ \A j \in 1 .. n : d[j] = Version[j] /\ Version[j] # 0
      /\ d[n + 1] = 0
  BY VersionBytes
<1> HIDE DEF d, n
<1>2. n \in 0 .. Len(d) /\ Ends0(n)
  BY <1>1
<1>3. ASSUME NEW m \in 0 .. Len(d), Ends0(m)
      PROVE  m = n
  <2>1. ~ (m > n)
    <3>1. m > n => n + 1 \in 1 .. m
      BY <1>1
    <3> QED BY <1>1, <1>3, <3>1
  <2>2. ~ (m < n)
    <3>1. m < n => m + 1 \in 1 .. n /\ m # Len(d)
      BY <1>1
    <3> QED BY <1>1, <1>3, <3>1
  <2> QED BY <1>1, <2>1, <2>2
<1>4. (CHOOSE m \in 0 .. Len(d) : Ends0(m)) = n
  BY <1>2, <1>3
<1>5. CString(d) = SubSeq(d, 1, n)
  BY <1>4 DEF CString
<1>6. SubSeq(d, 1, n) = Version
  <2>1. Version \in Seq(1 .. 255) /\ n = Len(Version)
    BY ExchangeAssumption DEF n
  <2>2. SubSeq(d, 1, n) = [j \in 1 .. n |-> d[j]]
    BY <1>1
  <2>3. Version = [j \in 1 .. n |-> Version[j]]
    BY <2>1
  <2> QED BY <1>1, <2>2, <2>3
<1> QED BY <1>5, <1>6 DEF d

\* The length of a version fits into the two bytes of a packet.
LEMMA SmallLengths == \A n \in 0 .. 99 : n + 2 \in Uint16 /\ n + 2 # 0
<1>1. \A n \in 0 .. 99 : n + 2 \in Uint16
  BY DEF Uint16
<1>2. \A n \in 0 .. 99 : n + 2 # 0
  OBVIOUS
<1> QED BY <1>1, <1>2

\* The client finds it as it was written.
LEMMA VersionArrives ==
  ASSUME NEW b \in Stray
  PROVE  LET r == ParseResponse(EncodeResponse(With(VersionData(b))))
         IN  r.status = 0 /\ r.data # None /\ CString(r.data) = Version
<1> DEFINE d == VersionData(b)
           r == With(d)
<1>1. d \in Seq(Byte) /\ Len(d) \in 2 .. 101
  <2>1. d \in Seq(Byte) /\ Len(d) = Len(Version) + 2 /\ Len(Version) \in 0 .. 99
    BY VersionBytes
  <2> DEFINE n == Len(Version)
             m == Len(d)
  <2> HIDE DEF n, m
  <2>2. m = n + 2 /\ n \in 0 .. 99
    BY <2>1 DEF n, m
  <2>3. m \in 2 .. 101
    BY <2>2
  <2> QED BY <2>1, <2>3 DEF m
<1>2. d # None
  BY <1>1, ExchangeAssumption
<1>3. d # <<>> /\ Len(d) \in Uint16
  <2> DEFINE m == Len(d)
  <2>1. PICK n \in 0 .. 99 : m = n + 2
    <3> HIDE DEF m
    <3>1. m \in 2 .. 101
      BY <1>1 DEF m
    <3>2. m - 2 \in 0 .. 99 /\ m = (m - 2) + 2
      BY <3>1
    <3> QED BY <3>2
  <2>2. m \in Uint16 /\ m # 0
    BY <2>1, SmallLengths
  <2> QED BY <2>2
<1>4. LengthOf(d) = Len(d)
  BY <1>2 DEF LengthOf
<1>5. r = [status |-> 0, data_length |-> Len(d), data |-> d]
  BY <1>4, NumberOK DEF With
<1>6. d \in Data /\ 0 \in Byte
  BY <1>1, <1>3 DEF Data, Byte
<1>7. r \in Response
  BY <1>3, <1>4, <1>5, <1>6 DEF Response
<1>8. Arrived(r) = r
  BY <1>3, <1>5 DEF Arrived
<1>9. ParseResponse(EncodeResponse(r)) = r
  BY <1>7, <1>8, ResponseRoundTrip
<1> QED BY <1>2, <1>5, <1>9, VersionString

VersionReply(c) ==
  reply[c] # None /\ command[c].command_identifier = GET_VERSION =>
    \E b \in Stray : reply[c] = EncodeResponse(With(VersionData(b)))

VersionShown(c) ==
  exit[c] = 0 /\ command[c].command_identifier = GET_VERSION => printed[c] = Version

VInv == /\ DOMAIN printed = Clients
        /\ \A c \in Clients : VersionReply(c) /\ VersionShown(c)

LEMMA NoneIsNoStatus == None # 0
  BY ExchangeAssumption DEF Byte

\* A step that changes what belongs to one client.
LEMMA OneClient ==
  ASSUME VInv, NEW c \in Clients, DOMAIN printed' = Clients,
         \A d \in Clients \ {c} : /\ command'[d] = command[d] /\ reply'[d] = reply[d]
                                 /\ exit'[d] = exit[d] /\ printed'[d] = printed[d],
         VersionReply(c)', VersionShown(c)'
  PROVE  VInv'
  BY DEF VInv, VersionReply, VersionShown

(***************************************************************************)
(* What mawimctl get_version prints is the version, whatever lies behind   *)
(* the array from which MaWiM copies one byte too many.                    *)
(***************************************************************************)
THEOREM VersionAlwaysPrinted == Spec => []PrintsVersion
<1>1. Init => VInv
  BY NoneIsNoStatus DEF Init, VInv, VersionReply, VersionShown
<1>2. ASSUME IInv, VInv, [Next]_vars
      PROVE  VInv'
  <2>1. ASSUME NEW c \in Clients, ReadResponse(c)
        PROVE  VInv'
    <3>1. command[c].command_identifier = GET_VERSION =>
            LET r == ParseResponse(reply[c])
            IN  r.status = 0 /\ r.data # None /\ CString(r.data) = Version
      BY <1>2, <2>1, VersionArrives DEF VInv, VersionReply, ReadResponse
    <3>2. command[c].command_identifier = GET_VERSION => printed'[c] = Version
      BY <1>2, <2>1, <3>1 DEF VInv, ReadResponse, Report
    <3>3. VersionReply(c)' /\ VersionShown(c)'
      BY <1>2, <2>1, <3>2 DEF VInv, VersionReply, VersionShown, ReadResponse
    <3> QED BY <1>2, <2>1, <3>3, OneClient DEF VInv, ReadResponse, Report, Ends
  <2>2. ASSUME NEW c \in Clients, ReadEnd(c)
        PROVE  VInv'
    <3>1. exit'[c] # 0
      BY <1>2, <2>2, StatusOfPacket DEF IInv, Stages, ReadEnd, Report, Ends
    <3>2. VersionReply(c)' /\ VersionShown(c)'
      BY <1>2, <2>2, <3>1 DEF VInv, VersionReply, VersionShown, ReadEnd
    <3>3. /\ DOMAIN printed' = Clients
          /\ \A d \in Clients \ {c} : printed'[d] = printed[d] /\ exit'[d] = exit[d]
      <4>1. CASE Report(c, ParseResponse(<<>>))
        BY <1>2, <4>1 DEF IInv, Stages, VInv, Report, Ends
      <4>2. CASE Ends(c, 2) /\ UNCHANGED printed
        BY <1>2, <4>2 DEF IInv, Stages, VInv, Ends
      <4> QED BY <2>2, <4>1, <4>2 DEF ReadEnd
    <3> QED BY <1>2, <2>2, <3>2, <3>3, OneClient DEF ReadEnd
  <2>3. ASSUME NEW c \in Clients, Serve(c)
        PROVE  VInv'
    <3> DEFINE k == ParseCommand(inbox[c])
    <3>1. k.command_identifier = command[c].command_identifier
      <4>1. k = Arrived(command[c]) /\ command[c] \in Command
        BY <1>2, <2>3, CommandRoundTrip DEF IInv, Waits, Serve
      <4> QED BY <4>1 DEF Arrived, Command
    <3>2. \/ reply' = reply
          \/ \E r \in Responses(k) : reply' = [reply EXCEPT ![c] = EncodeResponse(r)]
      BY <2>3 DEF Serve
    <3>3. k.command_identifier = GET_VERSION => Responses(k) = {With(VersionData(b)) : b \in Stray}
      BY DEF Responses, GET_VERSION, GET_WORKSPACE, SET_WORKSPACE, RELOAD, CLOSE_FOCUSED,
             MOVE_FOCUSED_TO_WORKSPACE
    <3>4. UNCHANGED <<command, exit, printed>>
      BY <2>3 DEF Serve
    <3> HIDE DEF k
    <3>5. DOMAIN reply = Clients /\ \A d \in Clients \ {c} : reply'[d] = reply[d]
      BY <1>2, <3>2 DEF IInv, Stages
    <3>6. VersionReply(c)'
      BY <1>2, <3>1, <3>2, <3>3, <3>4, <3>5 DEF VInv, VersionReply
    <3>7. VersionShown(c)'
      BY <1>2, <3>4 DEF VInv, VersionShown
    <3> QED BY <1>2, <3>4, <3>5, <3>6, <3>7, OneClient DEF VInv
  <2>4. ASSUME NEW c \in Clients, NEW k, Send(c, k)
        PROVE  VInv'
    <3>1. reply'[c] = None /\ exit'[c] = None
      BY <1>2, <2>4 DEF IInv, Fresh, Send
    <3>2. VersionReply(c)' /\ VersionShown(c)'
      BY <3>1, NoneIsNoStatus DEF VersionReply, VersionShown
    <3> QED BY <1>2, <2>4, <3>2, OneClient DEF IInv, Stages, VInv, Send
  <2>5. ASSUME NEW c \in Clients, Ends(c, 1) \/ Ends(c, 255),
               UNCHANGED <<command, reply, printed>>
        PROVE  VInv'
    BY <1>2, <2>5 DEF IInv, Stages, VInv, VersionReply, VersionShown, Ends
  <2>6. CASE UNCHANGED <<command, reply, exit, printed>>
    BY <1>2, <2>6 DEF VInv, VersionReply, VersionShown
  <2>7. ASSUME NEW c \in Clients, NEW arg \in Arguments, RefuseArgument(c, arg)
        PROVE  VInv'
    BY <2>5, <2>7 DEF RefuseArgument
  <2>8. ASSUME NEW c \in Clients, NoConnection(c)
        PROVE  VInv'
    BY <2>5, <2>8 DEF NoConnection
  <2>9. ASSUME NEW c \in Clients, Leave(c)
        PROVE  VInv'
    BY <2>6, <2>9 DEF Leave
  <2>10. CASE ServerEnds \/ UNCHANGED vars
    BY <2>6, <2>10 DEF ServerEnds, vars
  <2>11. ASSUME NEW c \in Clients, NoSuchCommand(c)
         PROVE  VInv'
    BY <2>5, <2>11 DEF NoSuchCommand
  <2> QED BY <1>2, <2>1, <2>2, <2>3, <2>4, <2>7, <2>8, <2>9, <2>10, <2>11
          DEF Next, Client, RunPlain, RunWithWorkspace
<1>3. VInv => PrintsVersion
  BY DEF VInv, VersionShown, PrintsVersion
<1>4. IInv /\ [Next]_vars => IInv'
  BY InvariantStep
<1> QED BY <1>1, <1>2, <1>3, <1>4, InitialInvariant, PTL DEF Spec
-----------------------------------------------------------------------------
\* Types, and what MaWiM answers.

Sent == ToolCommands \cup Calls

TInv ==
  /\ IInv
  /\ \A c \in Clients : /\ command[c] = None \/ command[c] \in Sent
                        /\ stage[c] = "new" => command[c] = None
                        /\ inbox[c] = None \/ inbox[c] \in Seq(Byte)
                        /\ reply[c] = None \/ reply[c] \in Seq(Byte)
                        /\ exit[c] = None \/ exit[c] \in {0, 1, 2, 3, 255}
  /\ active_workspace \in 0 .. WorkspaceCount
  /\ up \in BOOLEAN

\* The packet of a command, and of a response, is a sequence of bytes.
LEMMA CommandPacket ==
  ASSUME NEW k \in Command
  PROVE  EncodeCommand(k) \in Seq(Byte) /\ EncodeCommand(k) # None
<1> DEFINE h == <<k.command_identifier, k.flags>>
           b == Body(k)
<1>0. /\ k.command_identifier \in Byte /\ k.flags \in Byte /\ k.data \in Data
      /\ k.data_length = LengthOf(k.data)
  BY DEF Command
<1>1. h \in Seq(Byte) /\ b \in Seq(Byte)
  BY <1>0, TwoBytes, BodyBytes
<1>5. <<0>> \in Seq(Byte)
  BY DEF Byte
<1>2. EncodeCommand(k) = (h \o b) \o <<0>>
  BY DEF EncodeCommand
<1> HIDE DEF h, b
<1>3. h \o b \in Seq(Byte)
  BY <1>1, After
<1>4. (h \o b) \o <<0>> \in Seq(Byte)
  BY <1>3, <1>5, After
<1> QED BY <1>2, <1>4, ExchangeAssumption

LEMMA ResponsePacket ==
  ASSUME NEW r \in Response
  PROVE  EncodeResponse(r) \in Seq(Byte) /\ EncodeResponse(r) # None
<1> DEFINE h == <<r.status>>
           b == Body(r)
<1>1. h \in Seq(Byte) /\ b \in Seq(Byte)
  BY BodyBytes DEF Response
<1>2. EncodeResponse(r) = h \o b
  BY DEF EncodeResponse
<1> HIDE DEF h, b
<1>3. h \o b \in Seq(Byte)
  BY <1>1, After
<1> QED BY <1>2, <1>3, ExchangeAssumption

\* The tool and the other programs send commands whose length is right, and
\* MOVE with data.
LEMMA SentIsCommand ==
  ASSUME NEW k \in Sent
  PROVE  /\ k \in Command /\ k # None
         /\ k.command_identifier = MOVE_FOCUSED_TO_WORKSPACE => LengthOf(k.data) > 0
<1>1. CASE k \in Calls
  BY <1>1, ExchangeAssumption DEF MOVE_FOCUSED_TO_WORKSPACE
<1>2. ASSUME NEW id \in {GET_VERSION, GET_WORKSPACE, RELOAD, CLOSE_FOCUSED}, k = Struct(id, None)
      PROVE  k \in Command /\ k.command_identifier # MOVE_FOCUSED_TO_WORKSPACE
  BY <1>2, PlainIsCommand DEF Struct, GET_VERSION, GET_WORKSPACE, RELOAD, CLOSE_FOCUSED,
                              MOVE_FOCUSED_TO_WORKSPACE
<1>3. ASSUME NEW id \in {SET_WORKSPACE, MOVE_FOCUSED_TO_WORKSPACE}, NEW w \in 1 .. 9,
             k = Struct(id, <<w>>)
      PROVE  k \in Command /\ LengthOf(k.data) > 0
  <2>1. k.data = <<w>> /\ Len(<<w>>) = 1
    BY <1>3 DEF Struct
  <2>2. LengthOf(k.data) > 0
    <3>1. w \in Byte
      BY DEF Byte
    <3>2. <<w>> \in Seq(Byte)
      BY <3>1
    <3>3. <<w>> # None
      BY <3>2, ExchangeAssumption
    <3> QED BY <2>1, <3>3 DEF LengthOf
  <2> QED BY <1>3, <2>2, WithWorkspaceIsCommand
<1> QED BY <1>1, <1>2, <1>3, ExchangeAssumption DEF Sent, ToolCommands

\* The data of a command, as MaWiM and as the service see it.
LEMMA DataOf ==
  ASSUME NEW k \in Command
  PROVE  LET a == Arrived(k)
         IN  /\ a.command_identifier = k.command_identifier /\ a.flags = k.flags
             /\ a.data_length = k.data_length
             /\ k.command_identifier \in Nat /\ k.flags \in Nat /\ k.data_length \in Nat
             /\ k.data_length = 0 <=> a.data = None
             /\ k.data_length # 0 => a.data[1] = k.data[1] /\ k.data[1] \in Byte
<1>1. /\ k.command_identifier \in Byte /\ k.flags \in Byte /\ k.data \in Data
      /\ k.data_length = LengthOf(k.data) /\ k.data_length \in Uint16
      /\ DOMAIN k = {"command_identifier", "flags", "data_length", "data"}
  BY DEF Command
<1>2. k.command_identifier \in Nat /\ k.flags \in Nat /\ k.data_length \in Nat
  <2>1. \A b \in Byte : b \in Nat
    BY DEF Byte
  <2> QED BY <1>1, <2>1, ShortIsNat
<1>3. /\ Arrived(k).command_identifier = k.command_identifier /\ Arrived(k).flags = k.flags
      /\ Arrived(k).data_length = k.data_length
      /\ Arrived(k).data = IF k.data = <<>> THEN None ELSE k.data
  BY <1>1 DEF Arrived
<1>4. CASE k.data = None
  BY <1>1, <1>2, <1>3, <1>4 DEF LengthOf
<1>5. CASE k.data # None
  <2>1. k.data \in Seq(Byte) /\ k.data_length = Len(k.data)
    BY <1>1, <1>5 DEF Data, LengthOf
  <2>2. k.data_length = 0 <=> k.data = <<>>
    BY <2>1
  <2>3. k.data_length # 0 => k.data[1] \in Byte
    BY <2>1
  <2> QED BY <1>2, <1>3, <1>5, <2>2, <2>3
<1> QED BY <1>4, <1>5

LEMMA NumberOf ==
  ASSUME NEW n \in 1 .. 8
  PROVE  Number(StatusNames[n]) = n - 1
<1>1. \A s \in 0 .. 7 : StatusNames[s + 1] = StatusNames[n] => s = n - 1
  BY DEF StatusNames
<1>2. n - 1 \in 0 .. 7 /\ StatusNames[(n - 1) + 1] = StatusNames[n]
  OBVIOUS
<1> HIDE DEF StatusNames
<1> QED BY <1>1, <1>2 DEF Number

\* Every status that MaWiM answers with.
LEMMA Numbers ==
  /\ Number("OK") = 0 /\ Number("INVALID_COMMAND") = 1 /\ Number("INVALID_DATA_FORMAT") = 2
  /\ Number("NO_SUCH_WORKSPACE") = 3 /\ Number("NO_WINDOW_FOCUSED") = 6
  /\ Number("INTERNAL_ERROR") = 7
<1>1. /\ StatusNames[1] = "OK" /\ StatusNames[2] = "INVALID_COMMAND"
      /\ StatusNames[3] = "INVALID_DATA_FORMAT" /\ StatusNames[4] = "NO_SUCH_WORKSPACE"
      /\ StatusNames[7] = "NO_WINDOW_FOCUSED" /\ StatusNames[8] = "INTERNAL_ERROR"
  BY DEF StatusNames
<1>2. /\ Number(StatusNames[1]) = 0 /\ Number(StatusNames[2]) = 1 /\ Number(StatusNames[3]) = 2
      /\ Number(StatusNames[4]) = 3 /\ Number(StatusNames[7]) = 6 /\ Number(StatusNames[8]) = 7
  BY NumberOf
<1> QED BY <1>1, <1>2

\* Responses without data and with it.
LEMMA SimplyIsResponse ==
  ASSUME NEW name, Number(name) \in 0 .. 7
  PROVE  Simply(name) \in Response
<1>1. 0 \in Uint16 /\ None \in Data /\ \A n \in 0 .. 7 : n \in Byte
  <2>1. 0 \in Uint16 /\ \A n \in 0 .. 7 : n \in Byte
    BY DEF Byte, Uint16
  <2>2. None \in Data
    BY DEF Data
  <2> QED BY <2>1, <2>2
<1>2. LengthOf(None) = 0
  BY DEF LengthOf
<1> QED BY <1>1, <1>2 DEF Simply, Response

LEMMA WithIsResponse ==
  ASSUME NEW data \in Data
  PROVE  With(data) \in Response
<1>1. LengthOf(data) \in Uint16
  <2>1. CASE data = None
    BY <2>1 DEF LengthOf, Uint16
  <2>2. CASE data # None
    BY <2>2 DEF LengthOf, Data
  <2> QED BY <2>1, <2>2
<1>2. Number("OK") \in Byte
  BY Numbers DEF Byte
<1> QED BY <1>1, <1>2 DEF With, Response

\* What MaWiM answers to the command that a client filled in.
LEMMA ResponsesOf ==
  ASSUME TInv, NEW k \in Sent, NEW r \in Responses(Arrived(k))
  PROVE  /\ r \in Response
         /\ k.command_identifier = GET_WORKSPACE => r = With(<<active_workspace>>)
         /\ k.command_identifier = GET_VERSION => r.status = 0
         /\ k.command_identifier = RELOAD => r = Simply("OK")
         /\ k.command_identifier = CLOSE_FOCUSED => r \in {Simply("OK"), Simply("NO_WINDOW_FOCUSED")}
         /\ k.command_identifier = SET_WORKSPACE => r = SetResponse(Arrived(k))
         /\ k.command_identifier = MOVE_FOCUSED_TO_WORKSPACE =>
              IF k.data[1] > WorkspaceCount THEN r = Simply("NO_SUCH_WORKSPACE")
              ELSE r \in {Simply("OK"), Simply("NO_WINDOW_FOCUSED")}
         /\ k.command_identifier > 5 => r = Simply("INVALID_COMMAND")
<1> DEFINE a == Arrived(k)
           id == k.command_identifier
<1>1. /\ k \in Command /\ a.command_identifier = id /\ id \in Nat
      /\ id = MOVE_FOCUSED_TO_WORKSPACE => a.data[1] = k.data[1]
  <2>1. k \in Command /\ (id = MOVE_FOCUSED_TO_WORKSPACE => k.data_length # 0)
    BY SentIsCommand DEF Command
  <2> QED BY <2>1, DataOf
<1> HIDE DEF a
<1>2. id \in 0 .. 5 \/ id > 5
  BY <1>1
<1> USE DEF GET_VERSION, GET_WORKSPACE, SET_WORKSPACE, RELOAD, CLOSE_FOCUSED,
            MOVE_FOCUSED_TO_WORKSPACE
<1>3. CASE id = 0
  <2>1. PICK b \in Stray : r = With(VersionData(b))
    BY <1>1, <1>3 DEF Responses, a
  <2>2. VersionData(b) \in Data
    <3> DEFINE n == Len(Version)
    <3>1. VersionData(b) \in Seq(Byte) /\ Len(VersionData(b)) = n + 2 /\ n \in 0 .. 99
      BY VersionBytes
    <3> HIDE DEF n
    <3>2. n + 2 \in Uint16
      BY <3>1, SmallLengths
    <3> QED BY <3>1, <3>2 DEF Data
  <2>3. r \in Response /\ r.status = 0
    BY <2>1, <2>2, WithIsResponse, Numbers DEF With
  <2> QED BY <1>3, <2>3
<1>4. CASE id = 1
  <2>1. r = With(<<active_workspace>>)
    BY <1>1, <1>4 DEF Responses, a
  <2>2. active_workspace \in Byte
    <3>1. WorkspaceCount \in 1 .. 254 /\ active_workspace \in 0 .. WorkspaceCount
      BY ExchangeAssumption DEF TInv
    <3> QED BY <3>1 DEF Byte
  <2> QED BY <1>4, <2>1, <2>2, OneByte, WithIsResponse
<1>5. CASE id = 2
  <2>1. r = SetResponse(Arrived(k))
    BY <1>1, <1>5 DEF Responses, a
  <2>2. r \in Response
    BY <2>1, SimplyIsResponse, Numbers DEF SetResponse
  <2> QED BY <1>5, <2>1, <2>2
<1>6. CASE id = 3
  <2>1. r = Simply("OK")
    BY <1>1, <1>6 DEF Responses, a
  <2> QED BY <1>6, <2>1, SimplyIsResponse, Numbers
<1>7. CASE id = 4
  <2>1. r \in {Simply("OK"), Simply("NO_WINDOW_FOCUSED")}
    BY <1>1, <1>7 DEF Responses, a
  <2> QED BY <1>7, <2>1, SimplyIsResponse, Numbers
<1>8. CASE id = 5
  <2>1. IF k.data[1] > WorkspaceCount THEN r = Simply("NO_SUCH_WORKSPACE")
        ELSE r \in {Simply("OK"), Simply("NO_WINDOW_FOCUSED")}
    BY <1>1, <1>8 DEF Responses, a
  <2> QED BY <1>8, <2>1, SimplyIsResponse, Numbers
<1>9. CASE id > 5
  <2>1. r = Simply("INVALID_COMMAND")
    BY <1>1, <1>9 DEF Responses, a
  <2> QED BY <1>9, <2>1, SimplyIsResponse, Numbers
<1> QED BY <1>2, <1>3, <1>4, <1>5, <1>6, <1>7, <1>8, <1>9

\* The workspace that a command names, if it sets one.
LEMMA ActiveOf ==
  ASSUME TInv, NEW k \in Sent, NEW r \in Responses(Arrived(k)),
         k.command_identifier = SET_WORKSPACE, r = Simply("OK")
  PROVE  Arrived(k).data[1] \in 0 .. WorkspaceCount
<1> DEFINE a == Arrived(k)
<1>1. r = SetResponse(a) /\ k \in Command
  BY ResponsesOf, SentIsCommand
<1>2. Simply("OK").status = 0
  BY Numbers DEF Simply
<1>3. a.data_length = 1 /\ ~ (a.data[1] > WorkspaceCount)
  BY <1>1, <1>2, Numbers DEF SetResponse, Simply
<1>4. a.data[1] \in Byte
  BY <1>1, <1>3, DataOf
<1> HIDE DEF a
<1>5. WorkspaceCount \in Nat
  BY ExchangeAssumption
<1>6. a.data[1] \in 0 .. WorkspaceCount
  BY <1>3, <1>4, <1>5 DEF Byte
<1> QED BY <1>6 DEF a

\* The step of a client that fills in k.
LEMMA SendTypes ==
  ASSUME TInv, NEW c \in Clients, NEW k \in Sent, Send(c, k)
  PROVE  TInv'
<1>1. k \in Command /\ EncodeCommand(k) \in Seq(Byte)
  BY SentIsCommand, CommandPacket
<1>2. IInv'
  BY <1>1, SendStep DEF TInv
<1> QED BY <1>1, <1>2 DEF TInv, IInv, Stages, Send

LEMMA ServeTypes ==
  ASSUME TInv, NEW c \in Clients, Serve(c)
  PROVE  TInv'
<1>1. IInv'
  BY InvariantStep DEF TInv, Next
<1>2. command[c] \in Sent /\ ParseCommand(inbox[c]) = Arrived(command[c])
  BY CommandRoundTrip, ExchangeAssumption DEF TInv, IInv, Waits, Serve
<1> DEFINE a == Arrived(command[c])
<1>3. a.command_identifier = command[c].command_identifier
  BY <1>2, SentIsCommand, DataOf
<1>4. PICK r \in Responses(a) :
        /\ reply' = reply \/ reply' = [reply EXCEPT ![c] = EncodeResponse(r)]
        /\ active_workspace' = IF a.command_identifier = SET_WORKSPACE /\ r = Simply("OK")
                               THEN a.data[1] ELSE active_workspace
  BY <1>2 DEF Serve
<1>5. EncodeResponse(r) \in Seq(Byte)
  BY <1>2, <1>4, ResponsesOf, ResponsePacket
<1>6. active_workspace' \in 0 .. WorkspaceCount
  BY <1>2, <1>3, <1>4, ActiveOf DEF TInv
<1> HIDE DEF a
<1>7. \A d \in Clients : reply'[d] = None \/ reply'[d] \in Seq(Byte)
  BY <1>4, <1>5 DEF TInv, IInv, Stages
<1> QED BY <1>1, <1>6, <1>7 DEF TInv, IInv, Stages, Serve

LEMMA TypesStep ==
  ASSUME TInv, [Next]_vars
  PROVE  TInv'
<1>1. IInv'
  BY InvariantStep DEF TInv
<1>2. CASE ServerEnds \/ UNCHANGED vars
  <2>1. UNCHANGED <<stage, command, inbox, reply, exit, active_workspace>> /\ up' \in BOOLEAN
    BY <1>2 DEF TInv, ServerEnds, vars
  <2> QED BY <1>1, <2>1 DEF TInv
<1>3. ASSUME NEW c \in Clients, NEW k \in Sent, Send(c, k)
      PROVE  TInv'
  BY <1>3, SendTypes
<1>4. ASSUME NEW c \in Clients, RunPlain(c) \/ \E arg \in Arguments : RunWithWorkspace(c, arg)
      PROVE  TInv'
  <2>1. \A id \in {GET_VERSION, GET_WORKSPACE, RELOAD, CLOSE_FOCUSED} : Struct(id, None) \in Sent
    BY DEF Sent, ToolCommands
  <2>2. \A id \in {SET_WORKSPACE, MOVE_FOCUSED_TO_WORKSPACE}, w \in 1 .. 9 :
          Struct(id, <<w>>) \in Sent
    BY DEF Sent, ToolCommands
  <2> QED BY <1>3, <1>4, <2>1, <2>2 DEF RunPlain, RunWithWorkspace
<1>5. ASSUME NEW c \in Clients, NEW s \in {0, 1, 2, 3, 255}, Ends(c, s),
             UNCHANGED <<command, inbox, reply, active_workspace, up>>
      PROVE  TInv'
  BY <1>1, <1>5 DEF TInv, IInv, Stages, Ends
<1>6. ASSUME NEW c \in Clients, NEW arg \in Arguments, RefuseArgument(c, arg)
      PROVE  TInv'
  BY <1>5, <1>6 DEF RefuseArgument
<1>7. ASSUME NEW c \in Clients, NoConnection(c) \/ NoSuchCommand(c)
      PROVE  TInv'
  BY <1>5, <1>7 DEF NoConnection, NoSuchCommand
<1>8. ASSUME NEW c \in Clients, ReadResponse(c) \/ ReadEnd(c)
      PROVE  TInv'
  BY <1>5, <1>8 DEF ReadResponse, ReadEnd, Report
<1>9. ASSUME NEW c \in Clients, Leave(c)
      PROVE  TInv'
  BY <1>1, <1>9 DEF TInv, IInv, Stages, Leave
<1>10. ASSUME NEW c \in Clients, Serve(c)
       PROVE  TInv'
  BY <1>10, ServeTypes
<1> QED
  BY <1>2, <1>3, <1>4, <1>6, <1>7, <1>8, <1>9, <1>10 DEF Next, Client, Sent

LEMMA InitialTypes == Init => TInv
<1>1. WorkspaceCount \in Nat /\ 1 \in 0 .. WorkspaceCount
  BY ExchangeAssumption
<1> QED BY <1>1, InitialInvariant DEF Init, TInv

(***************************************************************************)
(* Each client has sent nothing or a command of the protocol, what is on   *)
(* its way are bytes, it ends with a status that the tool has, and the     *)
(* active workspace exists or is 0, which handle_set_workspace lets pass.  *)
(***************************************************************************)
THEOREM TypesCorrect == Spec => []TypeOK
<1>1. TInv => TypeOK
  BY SentIsCommand DEF TInv, IInv, Stages, TypeOK
<1>2. TInv /\ [Next]_vars => TInv'
  BY TypesStep
<1> QED BY <1>1, <1>2, InitialTypes, PTL DEF Spec
-----------------------------------------------------------------------------
\* The exchange implements CtlService.

\* A command in the words of the service.
LEMMA MeaningOf ==
  ASSUME NEW k \in Sent
  PROVE  LET m == Meaning(k)
             id == k.command_identifier
         IN  /\ m # None
             /\ m.no_response <=> k.flags >= 128
             /\ m.data_length = k.data_length
             /\ m.data = IF k.data_length = 0 THEN None ELSE k.data[1]
             /\ id = GET_VERSION => m.command = "get_version"
             /\ id = GET_WORKSPACE => m.command = "get_workspace"
             /\ id = SET_WORKSPACE => m.command = "set_workspace"
             /\ id = RELOAD => m.command = "reload"
             /\ id = CLOSE_FOCUSED => m.command = "close_focused"
             /\ id = MOVE_FOCUSED_TO_WORKSPACE => m.command = "move_focused_to_workspace"
             /\ id > 5 => m.command = "invalid"
<1> DEFINE m == Meaning(k)
           id == k.command_identifier
<1>1. k.command_identifier \in Nat
  BY SentIsCommand, DataOf
<1>2. m # None
  BY NoRequest DEF Sent
<1>3. /\ m.command = IF id < 6 THEN CommandNames[id + 1] ELSE "invalid"
      /\ m.no_response <=> k.flags >= 128
      /\ m.data_length = k.data_length
      /\ m.data = IF k.data_length = 0 THEN None ELSE k.data[1]
  BY DEF Meaning, CMD_INVALID
<1>4. /\ CommandNames[1] = "get_version" /\ CommandNames[2] = "get_workspace"
      /\ CommandNames[3] = "set_workspace" /\ CommandNames[4] = "reload"
      /\ CommandNames[5] = "close_focused" /\ CommandNames[6] = "move_focused_to_workspace"
  BY DEF CommandNames
<1> HIDE DEF m
<1> QED BY <1>1, <1>2, <1>3, <1>4
     DEF GET_VERSION, GET_WORKSPACE, SET_WORKSPACE, RELOAD, CLOSE_FOCUSED,
         MOVE_FOCUSED_TO_WORKSPACE, m

\* A response in the words of the service, to the client of command k.
Words(k, r) ==
  LET a == Arrived(r)
  IN  [status |-> StatusNames[a.status + 1],
       data |-> IF k.command_identifier = GET_WORKSPACE THEN a.data[1] ELSE None]

LEMMA WordsWithoutData ==
  ASSUME NEW k \in Sent, NEW r \in Response, k.command_identifier # GET_WORKSPACE
  PROVE  Words(k, r) = Service!Status(StatusNames[r.status + 1])
<1>1. Arrived(r).status = r.status
  BY DEF Response, Arrived
<1> QED BY <1>1 DEF Words, Service!Status

\* The answers of the service, and the active workspace after them, for each
\* command; those of the numbers that are no command.
LEMMA AnswersOf ==
  ASSUME NEW m, NEW a
  PROVE  /\ m.command \in {"get_version", "reload"} =>
              Service!Answers(m, a) = {Service!Status("OK")}
         /\ m.command = "get_workspace" => Service!Answers(m, a) = {[status |-> "OK", data |-> a]}
         /\ m.command = "close_focused" =>
              Service!Answers(m, a) = {Service!Status("OK"), Service!Status("NO_WINDOW_FOCUSED")}
         /\ m.command = "set_workspace" =>
              Service!Answers(m, a) =
                IF m.data_length # 1 THEN {Service!Status("INVALID_DATA_FORMAT")}
                ELSE IF m.data = None THEN {Service!Status("INTERNAL_ERROR")}
                ELSE IF m.data > WorkspaceCount THEN {Service!Status("NO_SUCH_WORKSPACE")}
                ELSE {Service!Status("OK")}
         /\ m.command = "move_focused_to_workspace" =>
              Service!Answers(m, a) =
                IF m.data > WorkspaceCount THEN {Service!Status("NO_SUCH_WORKSPACE")}
                ELSE {Service!Status("OK"), Service!Status("NO_WINDOW_FOCUSED")}
         /\ m.command = "invalid" => Service!Answers(m, a) = {Service!Status("INVALID_COMMAND")}
  BY DEF Service!Answers

LEMMA WordsOf ==
  ASSUME TInv, NEW k \in Sent, NEW r \in Responses(Arrived(k))
  PROVE  Words(k, r) \in Service!Answers(Meaning(k), active_workspace)
<1> DEFINE m == Meaning(k)
           id == k.command_identifier
           A == Service!Answers(m, active_workspace)
           S(s) == Service!Status(s)
<1>1. /\ k \in Command /\ id \in Nat /\ r \in Response
  BY SentIsCommand, DataOf, ResponsesOf
<1>2. /\ StatusNames[1] = "OK" /\ StatusNames[2] = "INVALID_COMMAND"
      /\ StatusNames[3] = "INVALID_DATA_FORMAT" /\ StatusNames[4] = "NO_SUCH_WORKSPACE"
      /\ StatusNames[7] = "NO_WINDOW_FOCUSED" /\ StatusNames[8] = "INTERNAL_ERROR"
  BY DEF StatusNames
<1>3. ASSUME NEW n \in Nat, r.status = n, id # GET_WORKSPACE
      PROVE  Words(k, r) = S(StatusNames[n + 1])
  BY <1>1, <1>3, WordsWithoutData
<1>4. /\ Simply("OK").status = 0 /\ Simply("INVALID_COMMAND").status = 1
      /\ Simply("INVALID_DATA_FORMAT").status = 2 /\ Simply("NO_SUCH_WORKSPACE").status = 3
      /\ Simply("NO_WINDOW_FOCUSED").status = 6 /\ Simply("INTERNAL_ERROR").status = 7
  BY Numbers DEF Simply
<1>5. id # GET_WORKSPACE =>
        /\ r.status = 0 => Words(k, r) = S("OK")
        /\ r.status = 1 => Words(k, r) = S("INVALID_COMMAND")
        /\ r.status = 2 => Words(k, r) = S("INVALID_DATA_FORMAT")
        /\ r.status = 3 => Words(k, r) = S("NO_SUCH_WORKSPACE")
        /\ r.status = 6 => Words(k, r) = S("NO_WINDOW_FOCUSED")
        /\ r.status = 7 => Words(k, r) = S("INTERNAL_ERROR")
  BY <1>2, <1>3
<1>6. \/ id \in {GET_VERSION, GET_WORKSPACE, SET_WORKSPACE, RELOAD, CLOSE_FOCUSED,
               MOVE_FOCUSED_TO_WORKSPACE}
      \/ id > 5
  BY <1>1 DEF GET_VERSION, GET_WORKSPACE, SET_WORKSPACE, RELOAD, CLOSE_FOCUSED,
             MOVE_FOCUSED_TO_WORKSPACE
<1>7. \A n \in {GET_VERSION, SET_WORKSPACE, RELOAD, CLOSE_FOCUSED, MOVE_FOCUSED_TO_WORKSPACE} :
        n # GET_WORKSPACE
  BY DEF GET_VERSION, GET_WORKSPACE, SET_WORKSPACE, RELOAD, CLOSE_FOCUSED,
         MOVE_FOCUSED_TO_WORKSPACE
<1> HIDE DEF m, S
<1>10. CASE id = GET_VERSION \/ id = RELOAD
  <2>1. r.status = 0 /\ m.command \in {"get_version", "reload"}
    BY <1>4, <1>10, ResponsesOf, MeaningOf DEF m
  <2>2. Words(k, r) = S("OK")
    BY <1>5, <1>7, <1>10, <2>1
  <2> QED BY <2>1, <2>2, AnswersOf DEF S, m
<1>11. CASE id = GET_WORKSPACE
  <2>1. r = With(<<active_workspace>>) /\ m.command = "get_workspace"
    BY <1>11, ResponsesOf, MeaningOf DEF m
  <2>2. r.status = 0 /\ r.data = <<active_workspace>> /\ r.data # <<>> /\ r.data[1] = active_workspace
    BY <2>1, Numbers DEF With
  <2>3. Arrived(r) = r
    BY <2>2 DEF Arrived
  <2>4. Words(k, r) = [status |-> "OK", data |-> active_workspace]
    BY <1>2, <1>11, <2>2, <2>3 DEF Words
  <2> QED BY <2>1, <2>4, AnswersOf DEF m
<1>12. CASE id = CLOSE_FOCUSED
  <2>1. r.status \in {0, 6} /\ m.command = "close_focused"
    BY <1>4, <1>12, ResponsesOf, MeaningOf DEF m
  <2>2. Words(k, r) \in {S("OK"), S("NO_WINDOW_FOCUSED")}
    BY <1>5, <1>7, <1>12, <2>1
  <2> QED BY <2>1, <2>2, AnswersOf DEF S, m
<1>13. CASE id = SET_WORKSPACE
  <2>1. r = SetResponse(Arrived(k)) /\ m.command = "set_workspace"
    BY <1>13, ResponsesOf, MeaningOf DEF m
  <2>2. m.data_length = k.data_length /\ m.data = IF k.data_length = 0 THEN None ELSE k.data[1]
    BY MeaningOf DEF m
  <2>3. CASE k.data_length # 1
    <3>1. r = Simply("INVALID_DATA_FORMAT")
      BY <1>1, <2>1, <2>3, DataOf DEF SetResponse
    <3>2. Words(k, r) = S("INVALID_DATA_FORMAT")
      BY <1>4, <1>5, <1>7, <1>13, <3>1
    <3>3. A = {S("INVALID_DATA_FORMAT")}
      BY <2>1, <2>2, <2>3, AnswersOf DEF S, m
    <3> QED BY <3>2, <3>3 DEF m
  <2>4. CASE k.data_length = 1
    <3>1. /\ Arrived(k).data_length = 1 /\ Arrived(k).data # None
          /\ Arrived(k).data[1] = k.data[1] /\ k.data[1] \in Byte
      BY <1>1, <2>4, DataOf
    <3>2. m.data_length = 1 /\ m.data = k.data[1] /\ m.data # None
      BY <2>2, <2>4, <3>1, ExchangeAssumption
    <3>3. r = IF k.data[1] > WorkspaceCount THEN Simply("NO_SUCH_WORKSPACE") ELSE Simply("OK")
      BY <2>1, <3>1 DEF SetResponse
    <3>4. A = IF k.data[1] > WorkspaceCount THEN {S("NO_SUCH_WORKSPACE")} ELSE {S("OK")}
      BY <2>1, <3>2, AnswersOf DEF S, m
    <3> QED BY <1>4, <1>5, <1>7, <1>13, <3>3, <3>4 DEF m
  <2> QED BY <2>3, <2>4
<1>14. CASE id = MOVE_FOCUSED_TO_WORKSPACE
  <2>1. /\ IF k.data[1] > WorkspaceCount THEN r = Simply("NO_SUCH_WORKSPACE")
           ELSE r \in {Simply("OK"), Simply("NO_WINDOW_FOCUSED")}
        /\ m.command = "move_focused_to_workspace"
    BY <1>14, ResponsesOf, MeaningOf DEF m
  <2>2. k.data_length # 0
    BY <1>1, <1>14, SentIsCommand DEF Command
  <2>3. m.data = k.data[1]
    BY <2>2, MeaningOf DEF m
  <2>4. A = IF k.data[1] > WorkspaceCount THEN {S("NO_SUCH_WORKSPACE")}
            ELSE {S("OK"), S("NO_WINDOW_FOCUSED")}
    BY <2>1, <2>3, AnswersOf DEF S, m
  <2> QED BY <1>4, <1>5, <1>7, <1>14, <2>1, <2>4 DEF m
<1>15. CASE id > 5
  <2>1. r = Simply("INVALID_COMMAND") /\ m.command = "invalid"
    BY <1>15, ResponsesOf, MeaningOf DEF m
  <2>2. id # GET_WORKSPACE
    BY <1>1, <1>15 DEF GET_WORKSPACE
  <2>3. Words(k, r) = S("INVALID_COMMAND")
    BY <1>4, <1>5, <2>1, <2>2
  <2> QED BY <2>1, <2>3, AnswersOf DEF S, m
<1> QED BY <1>6, <1>10, <1>11, <1>12, <1>13, <1>14, <1>15 DEF m

\* What the client understands of the packet that MaWiM wrote.
LEMMA Understands ==
  ASSUME TInv, NEW k \in Sent, NEW r \in Responses(Arrived(k))
  PROVE  ParseResponse(EncodeResponse(r)) = Arrived(r)
  BY ResponsesOf, ResponseRoundTrip

\* The workspace that the command makes the active one.
LEMMA ActiveAfterOf ==
  ASSUME TInv, NEW k \in Sent, NEW r \in Responses(Arrived(k))
  PROVE  Service!ActiveAfter(Meaning(k), active_workspace) =
           IF k.command_identifier = SET_WORKSPACE /\ r = Simply("OK") THEN Arrived(k).data[1]
           ELSE active_workspace
<1> DEFINE m == Meaning(k)
           id == k.command_identifier
<1>1. m.command = "set_workspace" <=> id = SET_WORKSPACE
  <2>1. id \in Nat
    BY SentIsCommand, DataOf
  <2>2. \/ id \in {GET_VERSION, GET_WORKSPACE, SET_WORKSPACE, RELOAD, CLOSE_FOCUSED,
                  MOVE_FOCUSED_TO_WORKSPACE}
        \/ id > 5
    BY <2>1 DEF GET_VERSION, GET_WORKSPACE, SET_WORKSPACE, RELOAD, CLOSE_FOCUSED,
               MOVE_FOCUSED_TO_WORKSPACE
  <2> HIDE DEF m
  <2> QED BY <2>1, <2>2, MeaningOf
          DEF m, GET_VERSION, GET_WORKSPACE, SET_WORKSPACE, RELOAD, CLOSE_FOCUSED,
              MOVE_FOCUSED_TO_WORKSPACE
<1>2. CASE id # SET_WORKSPACE
  BY <1>1, <1>2 DEF Service!ActiveAfter
<1>3. CASE id = SET_WORKSPACE
  <2>1. r = SetResponse(Arrived(k)) /\ k \in Command
    BY <1>3, ResponsesOf, SentIsCommand
  <2>2. Simply("OK").status = 0 /\ Simply("INVALID_DATA_FORMAT").status = 2
        /\ Simply("NO_SUCH_WORKSPACE").status = 3 /\ Simply("INTERNAL_ERROR").status = 7
    BY Numbers DEF Simply
  <2>3. m.data_length = k.data_length /\ m.data = IF k.data_length = 0 THEN None ELSE k.data[1]
    BY MeaningOf
  <2>4. Service!Status("INVALID_DATA_FORMAT") # Service!Status("OK")
        /\ Service!Status("NO_SUCH_WORKSPACE") # Service!Status("OK")
    BY DEF Service!Status
  <2> DEFINE S(s) == Service!Status(s)
             A == Service!Answers(m, active_workspace)
  <2>5. Service!ActiveAfter(m, active_workspace) =
          IF A = {S("OK")} THEN m.data ELSE active_workspace
    BY <1>1, <1>3 DEF Service!ActiveAfter
  <2>6. m.command = "set_workspace"
    BY <1>1, <1>3
  <2>7. A = IF m.data_length # 1 THEN {S("INVALID_DATA_FORMAT")}
            ELSE IF m.data = None THEN {S("INTERNAL_ERROR")}
            ELSE IF m.data > WorkspaceCount THEN {S("NO_SUCH_WORKSPACE")}
            ELSE {S("OK")}
    BY <2>6, AnswersOf
  <2>8. S("INVALID_DATA_FORMAT") # S("OK") /\ S("NO_SUCH_WORKSPACE") # S("OK")
    BY <2>4
  <2> HIDE DEF m, S, A
  <2>9. CASE k.data_length # 1
    <3>1. r # Simply("OK")
      BY <2>1, <2>2, <2>9, DataOf DEF SetResponse
    <3>2. A # {S("OK")}
      BY <2>3, <2>7, <2>8, <2>9
    <3> QED BY <2>5, <3>1, <3>2 DEF m
  <2>10. CASE k.data_length = 1
    <3>1. /\ Arrived(k).data_length = 1 /\ Arrived(k).data # None
          /\ Arrived(k).data[1] = k.data[1] /\ k.data[1] \in Byte
      BY <2>1, <2>10, DataOf
    <3>2. m.data_length = 1 /\ m.data = k.data[1] /\ m.data # None
      BY <2>3, <2>10, <3>1, ExchangeAssumption
    <3>3. r = IF k.data[1] > WorkspaceCount THEN Simply("NO_SUCH_WORKSPACE") ELSE Simply("OK")
      BY <2>1, <3>1 DEF SetResponse
    <3>4. r = Simply("OK") <=> A = {S("OK")}
      BY <2>2, <2>7, <2>8, <3>2, <3>3
    <3> QED BY <1>3, <2>5, <3>1, <3>2, <3>4 DEF m
  <2> QED BY <2>9, <2>10
<1> QED BY <1>2, <1>3

\* No response is owed.
LEMMA SilentOf ==
  ASSUME NEW k \in Sent
  PROVE  Service!Silent(Meaning(k)) <=> k.flags >= 128 /\ k.command_identifier < CMD_INVALID
<1> DEFINE m == Meaning(k)
           id == k.command_identifier
<1>1. id \in Nat /\ (m.no_response <=> k.flags >= 128)
  BY SentIsCommand, DataOf, MeaningOf
<1>2. m.command \in {"invalid", "short"} <=> ~ (id < 6)
  <2>1. m.command = IF id < 6 THEN CommandNames[id + 1] ELSE "invalid"
    BY DEF Meaning, CMD_INVALID
  <2>2. \A n \in 0 .. 5 : CommandNames[n + 1] \notin {"invalid", "short"}
    BY DEF CommandNames
  <2>3. id < 6 => id \in 0 .. 5
    BY <1>1
  <2> HIDE DEF m
  <2> QED BY <2>1, <2>2, <2>3
<1>3. Service!Silent(m) <=> m.no_response /\ m.command \notin {"invalid", "short"}
  BY DEF Service!Silent, Service!Refused
<1> HIDE DEF m
<1> QED BY <1>1, <1>2, <1>3 DEF m, CMD_INVALID

\* Sending a command is the call of the service.
LEMMA SendRefines ==
  ASSUME TInv, NEW c \in Clients, NEW k \in Sent, Send(c, k)
  PROVE  Service!Call(c, Meaning(k))
<1>1. /\ k # None /\ EncodeCommand(k) # None
      /\ command[c] = None /\ inbox[c] = None /\ reply[c] = None
      /\ stage[c] = "new" /\ stage' = [stage EXCEPT ![c] = "waiting"]
      /\ command' = [command EXCEPT ![c] = k] /\ inbox' = [inbox EXCEPT ![c] = EncodeCommand(k)]
      /\ UNCHANGED <<reply, active_workspace>>
  BY SentIsCommand, CommandPacket DEF TInv, IInv, Fresh, Send
<1>2. /\ DOMAIN stage = Clients /\ DOMAIN command = Clients /\ DOMAIN inbox = Clients
  BY DEF TInv, IInv, Stages
<1>3. Requested[c] = None /\ Requested' = [Requested EXCEPT ![c] = Meaning(k)]
  BY <1>1, <1>2 DEF Requested
<1>4. c \notin Gone /\ Gone' = Gone
  BY <1>1, <1>2 DEF Gone
<1>5. Served' = Served
  BY <1>1, <1>2 DEF Served
<1>6. Answered' = Answered
  <2>1. \A d \in Clients : reply[d] # None => Understood(d)' = Understood(d)
    BY <1>1, <1>2 DEF Understood
  <2> QED BY <1>1, <2>1 DEF Answered
<1> QED BY <1>1, <1>3, <1>4, <1>5, <1>6 DEF Service!Call

\* A client that ends without a response hangs up.
LEMMA EndRefines ==
  ASSUME TInv, NEW c \in Clients, stage' = [stage EXCEPT ![c] = "ended"],
         UNCHANGED <<command, inbox, reply, active_workspace>>
  PROVE  Service!Hangup(c) \/ UNCHANGED Service!serviceVars
<1>1. Requested' = Requested /\ Served' = Served
  BY DEF Requested, Served
<1>2. Answered' = Answered
  BY DEF Answered, Understood
<1>3. DOMAIN stage = Clients
  BY DEF TInv, IInv, Stages
<1>4. CASE reply[c] = None
  <2>1. Gone' = Gone \cup {c}
    BY <1>3, <1>4 DEF Gone
  <2> QED BY <1>1, <1>2, <2>1 DEF Service!Hangup
<1>5. CASE reply[c] # None
  <2>1. Gone' = Gone
    BY <1>3, <1>5 DEF Gone
  <2> QED BY <1>1, <1>2, <2>1 DEF Service!serviceVars
<1> QED BY <1>4, <1>5

\* The handler of the command is the service's one step.
LEMMA ServeRefines ==
  ASSUME TInv, NEW c \in Clients, Serve(c)
  PROVE  Service!Serve(c)
<1> DEFINE k == command[c]
           a == Arrived(k)
           silent == a.flags >= 128 /\ a.command_identifier < CMD_INVALID
<1>1. k \in Sent /\ k \in Command /\ ParseCommand(inbox[c]) = a
  BY CommandRoundTrip, SentIsCommand, ExchangeAssumption DEF TInv, IInv, Waits, Serve
<1>2. a.command_identifier = k.command_identifier /\ a.flags = k.flags
  BY <1>1, DataOf
<1>3. PICK r \in Responses(a) :
        /\ reply' = IF silent \/ stage[c] = "ended" THEN reply
                    ELSE [reply EXCEPT ![c] = EncodeResponse(r)]
        /\ active_workspace' = IF a.command_identifier = SET_WORKSPACE /\ r = Simply("OK")
                               THEN a.data[1] ELSE active_workspace
  BY <1>1 DEF Serve
<1>4. /\ inbox[c] # None /\ inbox' = [inbox EXCEPT ![c] = None]
      /\ UNCHANGED <<stage, command>>
      /\ reply[c] = None /\ k # None
      /\ DOMAIN inbox = Clients /\ DOMAIN reply = Clients
  BY <1>1, SentIsCommand DEF TInv, IInv, Stages, Replied, Serve
<1>5. EncodeResponse(r) # None /\ ParseResponse(EncodeResponse(r)) = Arrived(r)
  BY <1>1, <1>3, ResponsesOf, ResponsePacket, Understands
<1>6. Requested[c] = Meaning(k) /\ Meaning(k) # None /\ Requested' = Requested
  BY <1>1, <1>4, MeaningOf DEF Requested
<1>7. silent <=> Service!Silent(Meaning(k))
  BY <1>1, <1>2, SilentOf
<1>8. active_workspace' = Service!ActiveAfter(Meaning(k), active_workspace)
  BY <1>1, <1>2, <1>3, ActiveAfterOf
<1>9. Words(k, r) \in Service!Answers(Meaning(k), active_workspace)
  BY <1>1, <1>3, WordsOf
<1> HIDE DEF k, a, silent
<1>10. c \notin Served /\ Served' = Served \cup {c}
  BY <1>4 DEF Served, k
<1>11. c \in Gone <=> stage[c] = "ended"
  BY <1>4 DEF Gone
<1>12. CASE silent \/ stage[c] = "ended"
  <2>1. UNCHANGED reply
    BY <1>3, <1>12
  <2>2. Gone' = Gone
    BY <1>4, <2>1 DEF Gone
  <2>3. Answered' = Answered
    BY <1>4, <2>1 DEF Answered, Understood
  <2> QED BY <1>6, <1>7, <1>8, <1>10, <1>11, <1>12, <2>2, <2>3 DEF Service!Serve
<1>13. CASE ~ (silent \/ stage[c] = "ended")
  <2>1. reply' = [reply EXCEPT ![c] = EncodeResponse(r)]
    BY <1>3, <1>13
  <2>2. Gone' = Gone
    BY <1>4, <1>5, <1>13, <2>1 DEF Gone
  <2>3. Understood(c)' = Words(k, r)
    BY <1>4, <1>5, <2>1 DEF Understood, Words, k
  <2>4. \A d \in Clients \ {c} : reply'[d] = reply[d] /\ Understood(d)' = Understood(d)
    BY <1>4, <2>1 DEF Understood
  <2>5. Answered' = [Answered EXCEPT ![c] = Words(k, r)]
    <3>1. reply'[c] # None
      BY <1>4, <1>5, <2>1
    <3> QED BY <2>3, <2>4, <3>1 DEF Answered
  <2> QED BY <1>6, <1>7, <1>8, <1>9, <1>10, <1>11, <1>13, <2>2, <2>5 DEF Service!Serve
<1> QED BY <1>12, <1>13

LEMMA StepRefines ==
  TInv /\ [Next]_vars => [Service!ServiceNext]_(Service!serviceVars)
<1> SUFFICES ASSUME TInv, [Next]_vars
             PROVE  Service!ServiceNext \/ UNCHANGED Service!serviceVars
  OBVIOUS
<1>1. ASSUME NEW c \in Clients, NEW k \in Sent, Send(c, k)
      PROVE  Service!ServiceNext
  BY <1>1, SendRefines DEF Service!ServiceNext, Sent
<1>2. ASSUME NEW c \in Clients, RunPlain(c) \/ \E arg \in Arguments : RunWithWorkspace(c, arg)
      PROVE  Service!ServiceNext
  <2>1. \A id \in {GET_VERSION, GET_WORKSPACE, RELOAD, CLOSE_FOCUSED} : Struct(id, None) \in Sent
    BY DEF Sent, ToolCommands
  <2>2. \A id \in {SET_WORKSPACE, MOVE_FOCUSED_TO_WORKSPACE}, w \in 1 .. 9 :
          Struct(id, <<w>>) \in Sent
    BY DEF Sent, ToolCommands
  <2> QED BY <1>1, <1>2, <2>1, <2>2 DEF RunPlain, RunWithWorkspace
<1>3. ASSUME NEW c \in Clients, stage' = [stage EXCEPT ![c] = "ended"],
             UNCHANGED <<command, inbox, reply, active_workspace>>
      PROVE  Service!ServiceNext \/ UNCHANGED Service!serviceVars
  BY <1>3, EndRefines DEF Service!ServiceNext
<1>4. ASSUME NEW c \in Clients,
             \/ ReadResponse(c) \/ ReadEnd(c) \/ Leave(c) \/ NoConnection(c) \/ NoSuchCommand(c)
             \/ \E arg \in Arguments : RefuseArgument(c, arg)
      PROVE  Service!ServiceNext \/ UNCHANGED Service!serviceVars
  BY <1>3, <1>4 DEF ReadResponse, ReadEnd, Leave, NoConnection, NoSuchCommand, RefuseArgument,
                    Report, Ends
<1>5. ASSUME NEW c \in Clients, Serve(c)
      PROVE  Service!ServiceNext
  BY <1>5, ServeRefines DEF Service!ServiceNext
<1>6. CASE ServerEnds \/ UNCHANGED vars
  <2>1. UNCHANGED <<stage, command, inbox, reply, active_workspace>>
    BY <1>6 DEF ServerEnds, vars
  <2> QED BY <2>1 DEF Service!serviceVars, Requested, Gone, Served, Answered, Understood
<1> QED BY <1>1, <1>2, <1>4, <1>5, <1>6 DEF Next, Client, Sent

(***************************************************************************)
(* Byte for byte, with any number of clients, whatever they send, and      *)
(* whenever MaWiM or a client ends, the exchange is the service: what the  *)
(* client's struct says takes effect once, and the packet that the client  *)
(* parses says what the state at that instant gives.                       *)
(***************************************************************************)
THEOREM ExchangeServes == Spec => ImplementsService
<1>1. Init => Service!ServiceInit
  <2>1. ASSUME Init
        PROVE  /\ Requested = [c \in Clients |-> None] /\ Answered = [c \in Clients |-> None]
               /\ Gone = {} /\ Served = {}
    BY <2>1 DEF Init, Requested, Answered, Gone, Served
  <2> QED BY <2>1 DEF Init, Service!ServiceInit
<1>2. TInv /\ [Next]_vars => TInv'
  BY TypesStep
<1> QED BY <1>1, <1>2, InitialTypes, StepRefines, PTL
        DEF Spec, ImplementsService, Service!ServiceSpec
=============================================================================
