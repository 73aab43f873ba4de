---------------------------- MODULE CtlExchange ----------------------------
(***************************************************************************)
(* Whole exchanges between mawimctl processes and MaWiM in the bytes of    *)
(* CtlPacket: the tool mawimctl (mawimctl/src/main.c) from its arguments   *)
(* to its exit status, other programs that use mawimctl_client.h, and the  *)
(* handlers of src/commands.c on what arrives.  CtlServer has the sockets  *)
(* and the queue in between; here a command is served in one step.         *)
(***************************************************************************)
EXTENDS CtlPacket

CONSTANTS Clients,         \* processes that send one command each
          Arguments,       \* the numbers that users give the tool
          Calls,           \* the commands that other programs send
          WorkspaceCount,  \* mawim_t.workspace_count
          Version,         \* the characters of MAWIM_VERSION
          Stray            \* what may follow that array in memory

\* MOVE without data is left out: MaWiM would read through a null pointer.
ASSUME ExchangeAssumption ==
  /\ None \notin Byte /\ None \notin Seq(Byte) /\ None \notin Command
  /\ Calls \subseteq Command
  /\ \A k \in Calls : k.command_identifier = 5 => LengthOf(k.data) > 0
  /\ Arguments \subseteq Int
  /\ WorkspaceCount \in 1 .. 254
  /\ Version \in Seq(1 .. 255) /\ Len(Version) < 100 /\ Stray \subseteq Byte

VARIABLES stage,            \* where a client is
          command,          \* the command that it has filled in
          inbox,            \* the packet that MaWiM has not read yet
          reply,            \* the packet that MaWiM wrote
          exit,             \* the exit status of a client
          printed,          \* what it prints: the response's data
          active_workspace,
          up                \* MaWiM is there

vars == <<stage, command, inbox, reply, exit, printed, active_workspace, up>>

\* enum mawimctl_cmd_id
GET_VERSION == 0
GET_WORKSPACE == 1
SET_WORKSPACE == 2
RELOAD == 3
CLOSE_FOCUSED == 4
MOVE_FOCUSED_TO_WORKSPACE == 5
CMD_INVALID == 6

\* enum mawimctl_status
StatusNames == <<"OK", "INVALID_COMMAND", "INVALID_DATA_FORMAT", "NO_SUCH_WORKSPACE",
                 "CONFIG_MISSING", "CONFIG_MALFORMED", "NO_WINDOW_FOCUSED", "INTERNAL_ERROR">>

Number(name) == CHOOSE s \in 0 .. 7 : StatusNames[s + 1] = name

TypeOK ==
  /\ stage \in [Clients -> {"new", "waiting", "ended"}]
  /\ \A c \in Clients : /\ command[c] = None \/ command[c] \in Command
                        /\ inbox[c] = None \/ inbox[c] \in Seq(Byte)
                        /\ reply[c] = None \/ reply[c] \in Seq(Byte)
                        /\ exit[c] = None \/ exit[c] \in {0, 1, 2, 3, 255}
  /\ active_workspace \in 0 .. WorkspaceCount
  /\ up \in BOOLEAN
-----------------------------------------------------------------------------
\* The clients.

Struct(id, data) ==
  [command_identifier |-> id, flags |-> 0, data_length |-> LengthOf(data), data |-> data]

Ends(c, status) ==
  /\ stage' = [stage EXCEPT ![c] = "ended"]
  /\ exit' = [exit EXCEPT ![c] = status]

\* mawimctl_client_send_command
Send(c, k) ==
  /\ stage[c] = "new" /\ up
  /\ stage' = [stage EXCEPT ![c] = "waiting"]
  /\ command' = [command EXCEPT ![c] = k]
  /\ inbox' = [inbox EXCEPT ![c] = EncodeCommand(k)]
  /\ UNCHANGED <<reply, exit, printed, active_workspace, up>>

\* mawimctl_workspaceid_t has 8 bits.
Wanted(arg) == arg % 256

\* do_generic_cmd, get_version, get_workspace
RunPlain(c) ==
  \E id \in {GET_VERSION, GET_WORKSPACE, RELOAD, CLOSE_FOCUSED} : Send(c, Struct(id, None))

\* set_workspace, do_move_focused_to_workspace
RunWithWorkspace(c, arg) ==
  /\ Wanted(arg) \in 1 .. 9
  /\ \E id \in {SET_WORKSPACE, MOVE_FOCUSED_TO_WORKSPACE} : Send(c, Struct(id, <<Wanted(arg)>>))

\* The same for an argument that is refused, or missing.
RefuseArgument(c, arg) ==
  /\ stage[c] = "new" /\ up
  /\ Wanted(arg) \notin 1 .. 9
  /\ Ends(c, 1)
  /\ UNCHANGED <<command, inbox, reply, printed, active_workspace, up>>

\* main: mawimctl_client_connect or the write fails
NoConnection(c) ==
  /\ stage[c] = "new" /\ ~ up
  /\ Ends(c, 1)
  /\ UNCHANGED <<command, inbox, reply, printed, active_workspace, up>>

\* main: a name that is not in cmd_handlers
NoSuchCommand(c) ==
  /\ stage[c] = "new"
  /\ Ends(c, 255)
  /\ UNCHANGED <<command, inbox, reply, printed, active_workspace, up>>

\* The characters before the first 0: printf("%s").  It must be there.
CString(d) ==
  LET n == CHOOSE n \in 0 .. Len(d) : /\ n = Len(d) \/ d[n + 1] = 0
                                      /\ \A j \in 1 .. n : d[j] # 0
  IN  SubSeq(d, 1, n)

\* do_cmd after the read, and what the handlers print
Report(c, r) ==
  /\ Ends(c, IF r.status # 0 THEN 3
             ELSE IF command[c].command_identifier = GET_WORKSPACE /\ r.data = None THEN 1 ELSE 0)
  /\ printed' = [printed EXCEPT ![c] =
       IF r.status # 0 \/ r.data = None THEN None
       ELSE IF command[c].command_identifier = GET_VERSION THEN CString(r.data) ELSE r.data]

\* mawimctl_read_response: a packet
ReadResponse(c) ==
  /\ stage[c] = "waiting" /\ reply[c] # None
  /\ Report(c, ParseResponse(reply[c]))
  /\ UNCHANGED <<command, inbox, reply, active_workspace, up>>

\* mawimctl_read_response when MaWiM has ended: no bytes, or an error if MaWiM
\* had not read the command.
ReadEnd(c) ==
  /\ stage[c] = "waiting" /\ reply[c] = None /\ ~ up
  /\ \/ Report(c, ParseResponse(<<>>))
     \/ inbox[c] # None /\ Ends(c, 2) /\ UNCHANGED printed
  /\ UNCHANGED <<command, inbox, reply, active_workspace, up>>

\* A program that does not wait for a response.
Leave(c) ==
  /\ stage[c] = "waiting" /\ command[c] \in Calls
  /\ stage' = [stage EXCEPT ![c] = "ended"]
  /\ UNCHANGED <<command, inbox, reply, exit, printed, active_workspace, up>>
-----------------------------------------------------------------------------
\* MaWiM.

Simply(name) == [status |-> Number(name), data_length |-> 0, data |-> None]

With(data) == [status |-> Number("OK"), data_length |-> LengthOf(data), data |-> data]

\* Faulty: one byte less than MAWIM_VERSION has.
VersionUnended(b) == Version \o <<b>>

\* The array with its final 0, and one byte more.
VersionData(b) == Version \o <<0, b>>

\* Faulty: the number is not compared with workspace_count.
SetUnchecked(k) ==
  IF k.data_length # 1 THEN Simply("INVALID_DATA_FORMAT")
  ELSE IF k.data = None THEN Simply("INTERNAL_ERROR")
  ELSE Simply("OK")

\* handle_set_workspace
SetResponse(k) ==
  IF k.data_length # 1 THEN Simply("INVALID_DATA_FORMAT")
  ELSE IF k.data = None THEN Simply("INTERNAL_ERROR")
  ELSE IF k.data[1] > WorkspaceCount THEN Simply("NO_SUCH_WORKSPACE")
  ELSE Simply("OK")

\* mawim_handle_ctl_command, and _handle_incoming_command for an identifier
\* that is out of range
Responses(k) ==
  CASE k.command_identifier = GET_VERSION -> {With(VersionData(b)) : b \in Stray}
    [] k.command_identifier = GET_WORKSPACE -> {With(<<active_workspace>>)}
    [] k.command_identifier = SET_WORKSPACE -> {SetResponse(k)}
    [] k.command_identifier = RELOAD -> {Simply("OK")}
    [] k.command_identifier = CLOSE_FOCUSED -> {Simply("OK"), Simply("NO_WINDOW_FOCUSED")}
    [] k.command_identifier = MOVE_FOCUSED_TO_WORKSPACE ->
         IF k.data[1] > WorkspaceCount THEN {Simply("NO_SUCH_WORKSPACE")}
         ELSE {Simply("OK"), Simply("NO_WINDOW_FOCUSED")}
    [] OTHER -> {Simply("INVALID_COMMAND")}

Serve(c) ==
  /\ up /\ inbox[c] # None
  /\ inbox' = [inbox EXCEPT ![c] = None]
  /\ LET k == ParseCommand(inbox[c])
         silent == k.flags >= 128 /\ k.command_identifier < CMD_INVALID
     IN  \E r \in Responses(k) :
           /\ reply' = IF silent \/ stage[c] = "ended" THEN reply
                       ELSE [reply EXCEPT ![c] = EncodeResponse(r)]
           /\ active_workspace' = IF k.command_identifier = SET_WORKSPACE /\ r = Simply("OK")
                                  THEN k.data[1] ELSE active_workspace
  /\ UNCHANGED <<stage, command, exit, printed, up>>

\* MaWiM crashes, is killed, or ends with the X server.
ServerEnds ==
  /\ up
  /\ up' = FALSE
  /\ UNCHANGED <<stage, command, inbox, reply, exit, printed, active_workspace>>
-----------------------------------------------------------------------------
Init ==
  /\ stage = [c \in Clients |-> "new"]
  /\ command = [c \in Clients |-> None]
  /\ inbox = [c \in Clients |-> None]
  /\ reply = [c \in Clients |-> None]
  /\ exit = [c \in Clients |-> None]
  /\ printed = [c \in Clients |-> None]
  /\ active_workspace = 1
  /\ up = TRUE

Client(c) ==
  \/ RunPlain(c) \/ NoSuchCommand(c) \/ NoConnection(c) \/ ReadResponse(c) \/ ReadEnd(c)
  \/ Leave(c)
  \/ \E arg \in Arguments : RunWithWorkspace(c, arg) \/ RefuseArgument(c, arg)
  \/ \E k \in Calls : Send(c, k)

Next == ServerEnds \/ \E c \in Clients : Client(c) \/ Serve(c)

Spec == Init /\ [][Next]_vars
-----------------------------------------------------------------------------
(***************************************************************************)
(* MaWiM finds in a packet the command that the client filled in, although *)
(* the packet is one byte longer than its contents, the number of bytes    *)
(* to copy comes from its size and the command's length from the client.   *)
(***************************************************************************)
CommandArrives ==
  \A c \in Clients : inbox[c] # None => ParseCommand(inbox[c]) = Arrived(command[c])

(***************************************************************************)
(* The exit status 0 says that MaWiM has read the command and answered OK, *)
(* also when MaWiM ends at any moment of the exchange.                     *)
(***************************************************************************)
ExitTruthful ==
  \A c \in Clients : exit[c] = 0 =>
    inbox[c] = None /\ reply[c] # None /\ reply[c][1] = Number("OK")

(***************************************************************************)
(* mawimctl get_version prints the version and nothing more, although the  *)
(* response holds a byte from behind the array.                            *)
(***************************************************************************)
PrintsVersion ==
  \A c \in Clients :
    exit[c] = 0 /\ command[c].command_identifier = GET_VERSION => printed[c] = Version

(***************************************************************************)
(* The exchange in bytes is the service that CtlService describes with     *)
(* commands and statuses: what the client's struct says is what is done,   *)
(* and the response that the client parses is one that it admits.          *)
(***************************************************************************)
CommandNames == <<"get_version", "get_workspace", "set_workspace", "reload", "close_focused",
                  "move_focused_to_workspace">>

Meaning(k) ==
  [command |-> IF k.command_identifier < CMD_INVALID
               THEN CommandNames[k.command_identifier + 1] ELSE "invalid",
   data_length |-> k.data_length,
   data |-> IF k.data_length = 0 THEN None ELSE k.data[1],
   no_response |-> k.flags >= 128]

\* GET_WORKSPACE is the one command whose data the service speaks of.
Understood(c) ==
  LET r == ParseResponse(reply[c])
  IN  [status |-> StatusNames[r.status + 1],
       data |-> IF command[c].command_identifier = GET_WORKSPACE THEN r.data[1] ELSE None]

ToolCommands == {Struct(id, None) : id \in {GET_VERSION, GET_WORKSPACE, RELOAD, CLOSE_FOCUSED}}
                  \cup {Struct(id, <<w>>) : id \in {SET_WORKSPACE, MOVE_FOCUSED_TO_WORKSPACE},
                                            w \in 1 .. 9}

\* A null pointer is no request of the service.
ASSUME NoRequest == \A k \in ToolCommands \cup Calls : Meaning(k) # None

Requested == [c \in Clients |-> IF command[c] = None THEN None ELSE Meaning(command[c])]

Gone == {c \in Clients : stage[c] = "ended" /\ reply[c] = None}

Served == {c \in Clients : command[c] # None /\ inbox[c] = None}

Answered == [c \in Clients |-> IF reply[c] = None THEN None ELSE Understood(c)]

Service ==
  INSTANCE CtlService
  WITH Requests <- {Meaning(k) : k \in ToolCommands \cup Calls},
       request <- Requested, gone <- Gone, served <- Served, response <- Answered

ImplementsService == Service!ServiceSpec
=============================================================================
