---------------------------- MODULE MCCtlServer ----------------------------
(* CtlServer with a request for each of the paths: one that reads the      *)
(* active workspace, one that sets it, with and without the flag, one that *)
(* its handler refuses, and one that the server refuses.                   *)
EXTENDS CtlServer

Request(command, length, byte, flag) ==
  [command |-> command, data_length |-> length, data |-> byte, no_response |-> flag]

MCRequests ==
  { Request("get_workspace", 0, None, FALSE),
    Request("set_workspace", 1, 2, FALSE), Request("set_workspace", 1, 2, TRUE),
    Request("set_workspace", 1, 3, FALSE),
    Request("invalid", 0, None, TRUE) }
=============================================================================
