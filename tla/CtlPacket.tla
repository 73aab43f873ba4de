----------------------------- MODULE CtlPacket -----------------------------
(***************************************************************************)
(* The packets of the mawimctl protocol, byte for byte: how                *)
(* mawimctl/src/mawimctl_client.c writes a command and reads a response,   *)
(* and how src/mawimctl_server.c reads a command and writes a response.    *)
(* Numbers of two bytes have the byte order of the machine, which is that  *)
(* of the other end of a UNIX socket; little endian here.                  *)
(***************************************************************************)
EXTENDS Integers, Sequences

CONSTANT None  \* a null pointer

Byte == 0 .. 255
Uint16 == 0 .. 65535

\* MAWIMCTL_COMMAND_BASESIZE has one byte more than the header that the code
\* writes and reads.
CommandBase == 5
ResponseBase == 3

STATUS_INVALID == 8

\* mawimctl_command_t and mawimctl_response_t as a sender fills them in.
LengthOf(data) == IF data = None THEN 0 ELSE Len(data)

Data == {None} \cup {d \in Seq(Byte) : Len(d) \in Uint16}

Command == {c \in [command_identifier : Byte, flags : Byte, data_length : Uint16, data : Data] :
              c.data_length = LengthOf(c.data)}

Response == {r \in [status : Byte, data_length : Uint16, data : Data] :
               r.data_length = LengthOf(r.data)}

Bytes16(n) == <<n % 256, n \div 256>>

\* Faulty: the other byte order.
Swapped16(p, k) == 256 * p[k] + p[k + 1]

Uint16At(p, k) == p[k] + 256 * p[k + 1]

\* The n bytes of p from position k; a null pointer if there are none.
Copy(p, k, n) == IF n > 0 THEN [j \in 1 .. n |-> p[k + j - 1]] ELSE None

\* Length and data of a buffer that was all 0.
Body(s) == IF s.data = None THEN <<0, 0>> ELSE Bytes16(s.data_length) \o s.data

\* mawimctl_client_send_command; the last byte stays 0.
EncodeCommand(c) == <<c.command_identifier, c.flags>> \o Body(c) \o <<0>>

\* Faulty: the data is taken from where MAWIMCTL_COMMAND_BASESIZE ends.
ParseCommandAtBase(p) ==
  [command_identifier |-> p[1], flags |-> p[2], data_length |-> Uint16At(p, 3),
   data |-> Copy(p, CommandBase + 1, Len(p) - CommandBase)]

\* _parse_command: data_length is what the sender says, the data what it sent.
ParseCommand(p) ==
  [command_identifier |-> p[1], flags |-> p[2], data_length |-> Uint16At(p, 3),
   data |-> Copy(p, 5, Len(p) - CommandBase)]

\* mawimctl_server_respond
EncodeResponse(r) == <<r.status>> \o Body(r)

\* Faulty: the status of a packet that is too short is OK.
ParseResponseOK(p) ==
  IF Len(p) < ResponseBase THEN [status |-> 0, data_length |-> 0, data |-> None]
  ELSE LET length == Uint16At(p, 2)
           rest == Len(p) - ResponseBase
       IN  [status |-> p[1], data_length |-> length,
            data |-> Copy(p, 4, IF length > rest THEN rest ELSE length)]

\* _parse_response
ParseResponse(p) ==
  IF Len(p) < ResponseBase THEN [status |-> STATUS_INVALID, data_length |-> 0, data |-> None]
  ELSE LET length == Uint16At(p, 2)
           rest == Len(p) - ResponseBase
       IN  [status |-> p[1], data_length |-> length,
            data |-> Copy(p, 4, IF length > rest THEN rest ELSE length)]

\* What arrives of a command or a response: an empty array becomes a null
\* pointer.
Arrived(s) == IF s.data = <<>> THEN [s EXCEPT !.data = None] ELSE s
=============================================================================
