--------------------------- MODULE MCCtlExchange ---------------------------
(* CtlExchange with arguments on both sides of the tool's bounds and of 8  *)
(* bits, and with commands that the tool never sends: with NO_RESPONSE, an *)
(* unknown identifier, no data, an empty array, two bytes, and 256 bytes,  *)
(* the length whose two bytes are those of 1 in the other order.           *)
EXTENDS CtlExchange

Call(id, flags, bytes) ==
  [command_identifier |-> id, flags |-> flags, data_length |-> LengthOf(bytes), data |-> bytes]

MCCalls ==
  { Call(SET_WORKSPACE, 128, <<2>>), Call(CMD_INVALID, 128, None), Call(255, 0, <<1>>),
    Call(SET_WORKSPACE, 0, None), Call(SET_WORKSPACE, 0, <<>>), Call(SET_WORKSPACE, 0, <<2, 1>>),
    Call(SET_WORKSPACE, 0, <<0>>),
    Call(SET_WORKSPACE, 127, [k \in 1 .. 256 |-> 2]), Call(MOVE_FOCUSED_TO_WORKSPACE, 0, <<2, 9>>) }

MCArguments == {-255, 0, 2, 9, 10, 258}

MCVersion == <<48, 49>>

MCStray == {0, 49}
=============================================================================
