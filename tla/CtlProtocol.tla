---------------------------- MODULE CtlProtocol ----------------------------
(***************************************************************************)
(* The commands of the mawimctl protocol (mawimctl/mawimctl.h) and the     *)
(* responses that src/commands.c and src/mawimctl_server.c give them.      *)
(***************************************************************************)
EXTENDS Naturals

CONSTANTS Requests,        \* the commands that mawimctl processes send
          None,
          WorkspaceCount   \* mawim_t.workspace_count

\* A request: the command identifier ("invalid" for one out of range, "short"
\* for a packet that is no command), data_length, the first byte of the data
\* (None if there is none) and MAWIMCTL_FLAG_NO_RESPONSE.
CommandIds == {"get_version", "get_workspace", "set_workspace", "reload", "close_focused",
               "move_focused_to_workspace", "invalid", "short"}

\* A client never asks for a move without naming the workspace: the program
\* would read through a null pointer.
ASSUME RequestsAssumption ==
  \A r \in Requests :
    /\ DOMAIN r = {"command", "data_length", "data", "no_response"}
    /\ r.command \in CommandIds /\ r.data_length \in Nat /\ r.data \in Nat \cup {None}
    /\ r.no_response \in BOOLEAN
    /\ r.command = "move_focused_to_workspace" => r.data # None

Statuses == {"OK", "INVALID_COMMAND", "INVALID_DATA_FORMAT", "NO_SUCH_WORKSPACE",
             "CONFIG_MISSING", "CONFIG_MALFORMED", "NO_WINDOW_FOCUSED", "INTERNAL_ERROR"}

Response == [status : Statuses, data : 0 .. WorkspaceCount \cup {None}]

Status(s) == [status |-> s, data |-> None]

\* mawim_handle_ctl_command and its helpers: the responses a command may get
\* in workspace a.  Whether a window has the focus is not a matter of the
\* protocol.
Answers(r, a) ==
  CASE r.command = "get_workspace" -> {[status |-> "OK", data |-> a]}
    [] r.command = "set_workspace" ->
         IF r.data_length # 1 THEN {Status("INVALID_DATA_FORMAT")}
         ELSE IF r.data = None THEN {Status("INTERNAL_ERROR")}
         ELSE IF r.data > WorkspaceCount THEN {Status("NO_SUCH_WORKSPACE")}
         ELSE {Status("OK")}
    [] r.command = "move_focused_to_workspace" ->
         IF r.data > WorkspaceCount THEN {Status("NO_SUCH_WORKSPACE")}
         ELSE {Status("OK"), Status("NO_WINDOW_FOCUSED")}
    [] r.command = "close_focused" -> {Status("OK"), Status("NO_WINDOW_FOCUSED")}
    [] r.command \in {"get_version", "reload"} -> {Status("OK")}
    [] r.command = "invalid" -> {Status("INVALID_COMMAND")}
    [] r.command = "short" -> {Status("INVALID_DATA_FORMAT")}

\* Faulty: the workspace is set before it is looked up.
ActiveAfterAny(r, a) == IF r.command = "set_workspace" THEN r.data ELSE a

\* The workspace that is active after the command.
ActiveAfter(r, a) ==
  IF r.command = "set_workspace" /\ Answers(r, a) = {Status("OK")} THEN r.data ELSE a

\* What _handle_incoming_command refuses it answers whatever the flags.
Refused == {"invalid", "short"}

Silent(r) == r.no_response /\ r.command \notin Refused
=============================================================================
