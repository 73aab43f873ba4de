-------------------------- MODULE CtlPacketProofs --------------------------
(***************************************************************************)
(* What is written is what is read, for every command and every response.  *)
(***************************************************************************)
EXTENDS CtlPacket, SequenceTheorems, TLAPS

LEMMA Length16 ==
  ASSUME NEW n \in Uint16
  PROVE  /\ n % 256 \in Byte /\ n \div 256 \in Byte
         /\ (n % 256) + 256 * (n \div 256) = n
  BY DEF Uint16, Byte

LEMMA TwoBytes ==
  ASSUME NEW lo \in Byte, NEW hi \in Byte
  PROVE  /\ <<lo, hi>> \in Seq(Byte) /\ Len(<<lo, hi>>) = 2
         /\ <<lo, hi>>[1] = lo /\ <<lo, hi>>[2] = hi
  OBVIOUS

LEMMA LengthBytes ==
  ASSUME NEW n \in Uint16
  PROVE  /\ Bytes16(n) \in Seq(Byte) /\ Len(Bytes16(n)) = 2
         /\ Bytes16(n)[1] + 256 * Bytes16(n)[2] = n
  BY Length16, TwoBytes DEF Bytes16

\* A sequence d that follows b.
LEMMA After ==
  ASSUME NEW b \in Seq(Byte), NEW d \in Seq(Byte)
  PROVE  /\ b \o d \in Seq(Byte) /\ Len(b \o d) = Len(b) + Len(d)
         /\ \A k \in 1 .. Len(b) : (b \o d)[k] = b[k]
         /\ \A k \in 1 .. Len(d) : (b \o d)[k + Len(b)] = d[k]
<1>1. /\ b \o d \in Seq(Byte) /\ Len(b \o d) = Len(b) + Len(d)
      /\ \A k \in 1 .. Len(b) + Len(d) :
           (b \o d)[k] = IF k <= Len(b) THEN b[k] ELSE d[k - Len(b)]
  BY ConcatProperties
<1>2. Len(b) \in Nat /\ Len(d) \in Nat
  OBVIOUS
<1>3. \A k \in 1 .. Len(d) : /\ k + Len(b) \in 1 .. Len(b) + Len(d)
                             /\ ~ (k + Len(b) <= Len(b)) /\ (k + Len(b)) - Len(b) = k
  BY <1>2
<1>4. \A k \in 1 .. Len(b) : k \in 1 .. Len(b) + Len(d) /\ k <= Len(b)
  BY <1>2
<1> QED BY <1>1, <1>3, <1>4

LEMMA AfterTwo ==
  ASSUME NEW b \in Seq(Byte), Len(b) = 2, NEW d \in Seq(Byte)
  PROVE  /\ b \o d \in Seq(Byte) /\ Len(b \o d) = 2 + Len(d)
         /\ (b \o d)[1] = b[1] /\ (b \o d)[2] = b[2]
         /\ \A k \in 1 .. Len(d) : (b \o d)[k + 2] = d[k]
<1>1. /\ b \o d \in Seq(Byte) /\ Len(b \o d) = Len(b) + Len(d)
      /\ \A k \in 1 .. Len(b) : (b \o d)[k] = b[k]
      /\ \A k \in 1 .. Len(d) : (b \o d)[k + Len(b)] = d[k]
  BY After
<1> QED BY <1>1

\* Length and data, as the receiver finds them.
LEMMA BodyBytes ==
  ASSUME NEW s, s.data \in Data, s.data_length = LengthOf(s.data)
  PROVE  /\ s.data_length \in Uint16
         /\ Body(s) \in Seq(Byte) /\ Len(Body(s)) = 2 + s.data_length
         /\ Body(s)[1] + 256 * Body(s)[2] = s.data_length
         /\ s.data # None => /\ s.data \in Seq(Byte) /\ Len(s.data) = s.data_length
                             /\ \A k \in 1 .. s.data_length : Body(s)[k + 2] = s.data[k]
<1>1. CASE s.data = None
  BY <1>1 DEF Body, LengthOf, Uint16, Byte
<1>2. CASE s.data # None
  <2>1. /\ s.data \in Seq(Byte) /\ s.data_length = Len(s.data) /\ s.data_length \in Uint16
    BY <1>2 DEF Data, LengthOf
  <2>2. Body(s) = Bytes16(s.data_length) \o s.data
    BY <1>2 DEF Body
  <2> DEFINE b == Bytes16(s.data_length)
  <2>3. b \in Seq(Byte) /\ Len(b) = 2 /\ b[1] + 256 * b[2] = s.data_length
    BY <2>1, LengthBytes
  <2> HIDE DEF b
  <2>4. /\ b \o s.data \in Seq(Byte) /\ Len(b \o s.data) = 2 + Len(s.data)
        /\ (b \o s.data)[1] = b[1] /\ (b \o s.data)[2] = b[2]
        /\ \A k \in 1 .. Len(s.data) : (b \o s.data)[k + 2] = s.data[k]
    BY <2>1, <2>3, AfterTwo
  <2>5. Body(s) = b \o s.data
    BY <2>2 DEF b
  <2> QED BY <1>2, <2>1, <2>3, <2>4, <2>5
<1> QED BY <1>1, <1>2

LEMMA ShortIsNat == \A n \in Uint16 : n \in Nat
  BY DEF Uint16

\* n bytes from position i on, where those of d stand.
LEMMA CopyOf ==
  ASSUME NEW p, NEW d \in Seq(Byte), NEW i \in Nat,
         \A k \in 1 .. Len(d) : p[k + i - 1] = d[k]
  PROVE  Copy(p, i, Len(d)) = IF d = <<>> THEN None ELSE d
<1>1. CASE Len(d) = 0
  BY <1>1, EmptySeq DEF Copy
<1>2. CASE Len(d) # 0
  <2>1. Len(d) > 0 /\ d # <<>> /\ d = [k \in 1 .. Len(d) |-> d[k]]
    BY <1>2
  <2>2. [k \in 1 .. Len(d) |-> p[k + i - 1]] = [k \in 1 .. Len(d) |-> d[k]]
    OBVIOUS
  <2> QED BY <2>1, <2>2 DEF Copy
<1> QED BY <1>1, <1>2

\* Where the bytes of a command are in its packet.
LEMMA CommandBytes ==
  ASSUME NEW c \in Command
  PROVE  LET p == EncodeCommand(c)
         IN  /\ Len(p) = CommandBase + c.data_length
             /\ p[1] = c.command_identifier /\ p[2] = c.flags
             /\ \A k \in 1 .. 2 + c.data_length : p[k + 2] = Body(c)[k]
<1> DEFINE h == <<c.command_identifier, c.flags>>
           b == Body(c)
           n == c.data_length
<1>1. /\ c.command_identifier \in Byte /\ c.flags \in Byte /\ c.data \in Data
      /\ c.data_length = LengthOf(c.data)
  BY DEF Command
<1>2. h \in Seq(Byte) /\ Len(h) = 2 /\ h[1] = c.command_identifier /\ h[2] = c.flags
  BY <1>1, TwoBytes
<1>3. b \in Seq(Byte) /\ Len(b) = 2 + n /\ n \in Nat
  <2>1. b \in Seq(Byte) /\ Len(b) = 2 + n /\ n \in Uint16
    BY <1>1, BodyBytes
  <2> QED BY <2>1, ShortIsNat
<1>4. <<0>> \in Seq(Byte) /\ Len(<<0>>) = 1
  BY DEF Byte
<1>5. EncodeCommand(c) = (h \o b) \o <<0>>
  BY DEF EncodeCommand
<1> HIDE DEF h, b
<1>6. /\ h \o b \in Seq(Byte) /\ Len(h \o b) = 4 + n
      /\ (h \o b)[1] = h[1] /\ (h \o b)[2] = h[2]
      /\ \A k \in 1 .. 2 + n : (h \o b)[k + 2] = b[k]
  BY <1>2, <1>3, AfterTwo
<1> DEFINE p == (h \o b) \o <<0>>
<1>7. Len(p) = 5 + n /\ \A k \in 1 .. 4 + n : p[k] = (h \o b)[k]
  <2>1. /\ Len(p) = Len(h \o b) + Len(<<0>>)
        /\ \A k \in 1 .. Len(h \o b) + Len(<<0>>) :
             p[k] = IF k <= Len(h \o b) THEN (h \o b)[k] ELSE <<0>>[k - Len(h \o b)]
    BY <1>4, <1>6, ConcatProperties
  <2> HIDE DEF p, n
  <2>2. Len(h \o b) + Len(<<0>>) = 5 + n
    BY <1>3, <1>4, <1>6
  <2>3. \A k \in 1 .. 4 + n : k \in 1 .. 5 + n /\ k <= 4 + n
    BY <1>3
  <2> QED BY <1>6, <2>1, <2>2, <2>3
<1> HIDE DEF p
<1>8. /\ 1 \in 1 .. 4 + n /\ 2 \in 1 .. 4 + n /\ \A k \in 1 .. 2 + n : k + 2 \in 1 .. 4 + n
  BY <1>3
<1>9. Len(p) = CommandBase + n
  BY <1>7 DEF CommandBase
<1>10. p[1] = h[1] /\ p[2] = h[2] /\ \A k \in 1 .. 2 + n : p[k + 2] = b[k]
  BY <1>6, <1>7, <1>8
<1>11. EncodeCommand(c) = p
  BY <1>5 DEF p
<1> QED BY <1>2, <1>9, <1>10, <1>11 DEF b

(***************************************************************************)
(* _parse_command gives the command that mawimctl_client_send_command      *)
(* sent, whatever its identifier, flags and data, of up to 65535 bytes;    *)
(* only an empty array arrives as a null pointer.                          *)
(***************************************************************************)
THEOREM CommandRoundTrip ==
  ASSUME NEW c \in Command
  PROVE  ParseCommand(EncodeCommand(c)) = Arrived(c)
<1> DEFINE p == EncodeCommand(c)
           n == c.data_length
           b == Body(c)
<1>1. /\ c = [command_identifier |-> c.command_identifier, flags |-> c.flags,
              data_length |-> n, data |-> c.data]
      /\ c.data \in Data /\ n = LengthOf(c.data)
  BY DEF Command
<1>2. /\ n \in Uint16 /\ b[1] + 256 * b[2] = n
      /\ c.data # None => /\ c.data \in Seq(Byte) /\ Len(c.data) = n
                          /\ \A k \in 1 .. n : b[k + 2] = c.data[k]
  BY <1>1, BodyBytes
<1>3. /\ Len(p) = CommandBase + n /\ p[1] = c.command_identifier /\ p[2] = c.flags
      /\ \A k \in 1 .. 2 + n : p[k + 2] = b[k]
  BY CommandBytes
<1> HIDE DEF p, b
<1>4. n \in Nat /\ 1 \in 1 .. 2 + n /\ 2 \in 1 .. 2 + n /\ Len(p) - CommandBase = n
  <2>1. n \in Nat /\ Len(p) = 5 + n
    BY <1>2, <1>3, ShortIsNat DEF CommandBase
  <2> HIDE DEF n
  <2> QED BY <2>1 DEF CommandBase
<1>5. Uint16At(p, 3) = n
  BY <1>2, <1>3, <1>4 DEF Uint16At
<1>6. Copy(p, 5, n) = Arrived(c).data
  <2>1. CASE c.data = None
    <3>1. n = 0
      BY <1>1, <2>1 DEF LengthOf
    <3>2. Arrived(c).data = None
      BY <1>1, <2>1 DEF Arrived
    <3> QED BY <3>1, <3>2 DEF Copy
  <2>2. CASE c.data # None
    <3>1. \A k \in 1 .. n : p[k + 5 - 1] = c.data[k]
      <4>1. \A k \in 1 .. n : k + 2 \in 1 .. 2 + n /\ (k + 2) + 2 = k + 5 - 1
        BY <1>4
      <4> QED BY <1>2, <1>3, <2>2, <4>1
    <3>2. Copy(p, 5, Len(c.data)) = IF c.data = <<>> THEN None ELSE c.data
      <4> DEFINE d == c.data
      <4>1. d \in Seq(Byte) /\ Len(d) = n /\ 5 \in Nat
        BY <1>2, <2>2
      <4>2. \A k \in 1 .. Len(d) : p[k + 5 - 1] = d[k]
        BY <3>1, <4>1
      <4> HIDE DEF d
      <4>3. Copy(p, 5, Len(d)) = IF d = <<>> THEN None ELSE d
        BY <4>1, <4>2, CopyOf
      <4> QED BY <4>3 DEF d
    <3> QED BY <1>1, <1>2, <2>2, <3>2 DEF Arrived
  <2> QED BY <2>1, <2>2
<1>7. ParseCommand(p) = [command_identifier |-> c.command_identifier, flags |-> c.flags,
                         data_length |-> n, data |-> Arrived(c).data]
  BY <1>3, <1>4, <1>5, <1>6 DEF ParseCommand
<1>8. Arrived(c) = [command_identifier |-> c.command_identifier, flags |-> c.flags,
                    data_length |-> n, data |-> Arrived(c).data]
  BY <1>1 DEF Arrived
<1> QED BY <1>7, <1>8 DEF p

(***************************************************************************)
(* _parse_response gives the response that mawimctl_server_respond wrote.  *)
(***************************************************************************)
THEOREM ResponseRoundTrip ==
  ASSUME NEW r \in Response
  PROVE  ParseResponse(EncodeResponse(r)) = Arrived(r)
<1> DEFINE h == <<r.status>>
           b == Body(r)
           n == r.data_length
           p == h \o b
<1>1. /\ r = [status |-> r.status, data_length |-> n, data |-> r.data]
      /\ r.status \in Byte /\ r.data \in Data /\ n = LengthOf(r.data)
  BY DEF Response
<1>2. /\ n \in Uint16 /\ b \in Seq(Byte) /\ Len(b) = 2 + n /\ b[1] + 256 * b[2] = n
      /\ r.data # None => /\ r.data \in Seq(Byte) /\ Len(r.data) = n
                          /\ \A k \in 1 .. n : b[k + 2] = r.data[k]
  BY <1>1, BodyBytes
<1>3. n \in Nat
  BY <1>2, ShortIsNat
<1>4. h \in Seq(Byte) /\ Len(h) = 1 /\ h[1] = r.status
  BY <1>1
<1>5. EncodeResponse(r) = p
  BY DEF EncodeResponse
<1> HIDE DEF b, h
<1>6. /\ Len(p) = 3 + n /\ p[1] = r.status
      /\ \A k \in 1 .. 2 + n : p[k + 1] = b[k]
  <2>1. /\ Len(p) = Len(h) + Len(b) /\ \A k \in 1 .. Len(h) : p[k] = h[k]
        /\ \A k \in 1 .. Len(b) : p[k + Len(h)] = b[k]
    BY <1>2, <1>4, After
  <2> HIDE DEF p, n
  <2> QED BY <1>2, <1>3, <1>4, <2>1
<1> HIDE DEF p
<1>7. 1 \in 1 .. 2 + n /\ 2 \in 1 .. 2 + n /\ Len(p) - ResponseBase = n /\ ~ (Len(p) < ResponseBase)
  <2> HIDE DEF n
  <2> QED BY <1>3, <1>6 DEF ResponseBase
<1>8. Uint16At(p, 2) = n
  BY <1>2, <1>6, <1>7 DEF Uint16At
<1>9. Copy(p, 4, n) = Arrived(r).data
  <2>1. CASE r.data = None
    <3>1. n = 0
      BY <1>1, <2>1 DEF LengthOf
    <3>2. Arrived(r).data = None
      BY <1>1, <2>1 DEF Arrived
    <3> QED BY <3>1, <3>2 DEF Copy
  <2>2. CASE r.data # None
    <3>1. \A k \in 1 .. n : p[k + 4 - 1] = r.data[k]
      <4>1. \A k \in 1 .. n : k + 2 \in 1 .. 2 + n /\ (k + 2) + 1 = k + 4 - 1
        BY <1>3
      <4> QED BY <1>2, <1>6, <2>2, <4>1
    <3>2. Copy(p, 4, Len(r.data)) = IF r.data = <<>> THEN None ELSE r.data
      <4>1. r.data \in Seq(Byte) /\ \A k \in 1 .. Len(r.data) : p[k + 4 - 1] = r.data[k]
        BY <1>2, <2>2, <3>1
      <4> QED BY <4>1, CopyOf
    <3> QED BY <1>1, <1>2, <2>2, <3>2 DEF Arrived
  <2> QED BY <2>1, <2>2
<1>10. ParseResponse(p) = [status |-> r.status, data_length |-> n, data |-> Arrived(r).data]
  <2>1. ParseResponse(p) = [status |-> p[1], data_length |-> n, data |-> Copy(p, 4, n)]
    <3>1. (IF n > n THEN n ELSE n) = n
      OBVIOUS
    <3> HIDE DEF n
    <3> QED BY <1>7, <1>8, <3>1 DEF ParseResponse
  <2> QED BY <1>6, <1>9, <2>1
<1>11. Arrived(r) = [status |-> r.status, data_length |-> n, data |-> Arrived(r).data]
  BY <1>1 DEF Arrived
<1> QED BY <1>5, <1>10, <1>11
=============================================================================
