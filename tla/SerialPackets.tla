--------------------------- MODULE SerialPackets ---------------------------
(***************************************************************************)
(* Listening for packets (ORSSerialPort.m:450-480, 583-609,                *)
(* ORSSerialPacketDescriptor.m, ORSSerialBuffer.m): a buffer per           *)
(* descriptor, fed byte by byte, in which the shortest valid packet at the *)
(* end is looked for after each byte.                                      *)
(*                                                                         *)
(* A step is a block of requestHandlingQueue, or what a caller does before *)
(* it waits for one.  A read of several bytes is as many steps: that other *)
(* blocks may come between them only adds behaviours.                      *)
(***************************************************************************)
EXTENDS Naturals, SequencesExt

CONSTANTS
  Bytes,        \* bytes the device sends
  Nil,          \* nil, and the buffer of a descriptor nobody listens for
  Descriptors,  \* ORSSerialPacketDescriptor objects
  Formats,      \* what they may describe
  Clients,      \* threads that start and stop listening
  MaxBytes      \* bound of the model

Affix == Seq(Bytes) \cup {Nil}

(* A format by the initializer that makes it: from packet data, from a     *)
(* prefix and a suffix, or from a block or regular expression, which       *)
(* accepts the data of a set.                                              *)
IsFormat(f) ==
  \/ f.kind = "data" /\ f.data \in Seq(Bytes)
  \/ f.kind = "affix" /\ f.prefix \in Affix /\ f.suffix \in Affix /\ f.max \in Nat
  \/ f.kind = "accepts" /\ f.data \subseteq Seq(Bytes) /\ f.max \in Nat

ASSUME PacketsAssumption ==
  /\ Nil \notin Seq(Bytes)
  /\ IsFiniteSet(Descriptors)
  /\ \A f \in Formats : IsFormat(f)
  /\ MaxBytes \in Nat

VARIABLES
  format,    \* format[d]: what descriptor d describes
  buffers,   \* packetDescriptorsAndBuffers
  starting,  \* starting[c]: the descriptor c is about to start, or Nil
  packets,   \* didReceivePacket: callbacks dispatched, in order
  stream,    \* ghost: every byte handled so far
  from       \* ghost: from[d], where in stream d's buffer was last empty

vars == <<format, buffers, starting, packets, stream, from>>

Init ==
  /\ format \in [Descriptors -> Formats]
  /\ buffers = [d \in Descriptors |-> Nil]
  /\ starting = [c \in Clients |-> Nil]
  /\ packets = <<>> /\ stream = <<>>
  /\ from = [d \in Descriptors |-> 0]

-----------------------------------------------------------------------------
maximumPacketLength(f) == IF f.kind = "data" THEN Len(f.data) ELSE f.max

dataIsValidPacket(f, data) ==
  CASE f.kind = "data"    -> data = f.data
    [] f.kind = "accepts" -> data \in f.data
    [] f.kind = "affix"   ->
         /\ f.prefix # Nil \/ f.suffix # Nil
         /\ f.prefix # Nil => IsPrefix(f.prefix, data)
         /\ f.suffix # Nil => IsSuffix(f.suffix, data)

LastBytes(s, n) == SubSeq(s, Len(s) - n + 1, Len(s))

(* Mutants: the buffer is not trimmed, or a full one takes no more bytes.  *)
AppendUntrimmed(buffer, byte, max) == Append(buffer, byte)
AppendKeepingOldest(buffer, byte, max) ==
  LET longer == Append(buffer, byte)
  IN  IF Len(longer) > max THEN SubSeq(longer, 1, max) ELSE longer

(* -[ORSSerialBuffer appendData:]                                          *)
appendData(buffer, byte, max) ==
  LET longer == Append(buffer, byte)
  IN  IF Len(longer) > max THEN LastBytes(longer, max) ELSE longer

(* The lengths of the windows at the end of the buffer that are valid.     *)
ValidWindows(f, buffer) ==
  {n \in 1..Len(buffer) : dataIsValidPacket(f, LastBytes(buffer, n))}

(* Mutant: the longest window is tried first.                              *)
LongestMatch(f, buffer) ==
  LET valid == ValidWindows(f, buffer)
  IN  IF valid = {} THEN Nil
      ELSE LastBytes(buffer, CHOOSE n \in valid : \A k \in valid : k <= n)

packetMatchingDescriptor(f, buffer) ==
  LET valid == ValidWindows(f, buffer)
  IN  IF valid = {} THEN Nil
      ELSE LastBytes(buffer, CHOOSE n \in valid : \A k \in valid : n <= k)

Listening == {d \in Descriptors : buffers[d] # Nil}

(* Mutant: the buffer is not cleared after a packet.                       *)
BufferStays(d, buffer) == buffer

(* What is left in the buffer of d once it ended in a byte.                *)
AfterByte(d, buffer) ==
  IF packetMatchingDescriptor(format[d], buffer) = Nil THEN buffer ELSE <<>>

-----------------------------------------------------------------------------
(* startListening... looks the descriptor up on the caller's thread and    *)
(* then waits for a block that installs a new buffer.                      *)
StartListening(c, d) ==
  /\ starting[c] = Nil /\ d \notin Listening
  /\ starting' = [starting EXCEPT ![c] = d]
  /\ UNCHANGED <<format, buffers, packets, stream, from>>

InstallBuffer(c) ==
  /\ starting[c] # Nil
  /\ buffers' = [buffers EXCEPT ![starting[c]] = <<>>]
  /\ from' = [from EXCEPT ![starting[c]] = Len(stream)]
  /\ starting' = [starting EXCEPT ![c] = Nil]
  /\ UNCHANGED <<format, packets, stream>>

StopListening(c, d) ==
  /\ starting[c] = Nil /\ d \in Listening
  /\ buffers' = [buffers EXCEPT ![d] = Nil]
  /\ UNCHANGED <<format, starting, packets, stream, from>>

(* A byte goes to the descriptors one after the other, in the order of the *)
(* map table.                                                              *)
ReceiveByte(byte) ==
  /\ Len(stream) < MaxBytes
  /\ stream' = Append(stream, byte)
  /\ LET appended(d) == appendData(buffers[d], byte, maximumPacketLength(format[d]))
         packet(d)   == packetMatchingDescriptor(format[d], appended(d))
         complete    == {d \in Listening : packet(d) # Nil}
     IN  /\ buffers' = [d \in Descriptors |->
              IF d \in Listening THEN AfterByte(d, appended(d)) ELSE Nil]
         /\ from' = [d \in Descriptors |->
              IF d \in complete THEN Len(stream') ELSE from[d]]
         /\ \E order \in SetToSeqs(complete) :
              packets' = packets \o [i \in DOMAIN order |->
                [descriptor |-> order[i], data |-> packet(order[i]),
                 end |-> Len(stream')]]
  /\ UNCHANGED <<format, starting>>

Next ==
  \/ \E c \in Clients :
       \/ InstallBuffer(c)
       \/ \E d \in Descriptors : StartListening(c, d) \/ StopListening(c, d)
  \/ \E byte \in Bytes : ReceiveByte(byte)

Spec == Init /\ [][Next]_vars

-----------------------------------------------------------------------------
(* Every variable holds a value of its kind, and a buffer never exceeds    *)
(* the maximum packet length.                                              *)
TypeOK ==
  /\ format \in [Descriptors -> Formats]
  /\ buffers \in [Descriptors -> Affix]
  /\ \A d \in Listening : Len(buffers[d]) <= maximumPacketLength(format[d])
  /\ starting \in [Clients -> Descriptors \cup {Nil}]
  /\ packets \in Seq([descriptor : Descriptors, data : Seq(Bytes), end : Nat])
  /\ stream \in Seq(Bytes)
  /\ from \in [Descriptors -> 0..Len(stream)]

(* The bytes a packet of d may still begin with: those handled since the   *)
(* buffer was last empty, as far back as a packet may reach.               *)
Recent(d) ==
  LET since == Len(stream) - from[d]
      max   == maximumPacketLength(format[d])
  IN  LastBytes(stream, IF since < max THEN since ELSE max)

(* "the port will call the -serialPort:didReceivePacket:matchingDescriptor:*)
(* method on its delegate when a complete packet is received"              *)
(* (ORSSerialPacketDescriptor.h:54-55): no valid packet of at most the     *)
(* maximum length sits at the end of what was received, unreported; in     *)
(* particular trimming the buffer never cut one off.                       *)
NoPacketMissed ==
  \A d \in Listening : ValidWindows(format[d], Recent(d)) = {}

(* A byte belongs to at most one packet of a descriptor.                   *)
PacketsDisjoint ==
  \A i, j \in DOMAIN packets :
    i < j /\ packets[i].descriptor = packets[j].descriptor
      => packets[i].end + Len(packets[j].data) <= packets[j].end

(* What is reported was received: it is valid and ends with the byte after *)
(* which it was reported, and no shorter packet ended there.               *)
PacketsAsReceived ==
  \A i \in DOMAIN packets :
    LET p == packets[i]
        f == format[p.descriptor]
    IN  /\ p.data = LastBytes(SubSeq(stream, 1, p.end), Len(p.data))
        /\ dataIsValidPacket(f, p.data)
        /\ \A n \in 1..(Len(p.data) - 1) :
             ~dataIsValidPacket(f, LastBytes(p.data, n))

(* A descriptor with a nil prefix or suffix finds packets that consist     *)
(* solely of the other one (ORSSerialPacketDescriptor.h:107-109).  The     *)
(* evaluator accepts much more; it is the search after each byte that      *)
(* makes it so.                                                            *)
OneSidedPackets ==
  \A i \in DOMAIN packets :
    LET f == format[packets[i].descriptor]
    IN  f.kind = "affix" =>
          /\ f.suffix = Nil /\ f.prefix # <<>> => packets[i].data = f.prefix
          /\ f.prefix = Nil /\ f.suffix # <<>> => packets[i].data = f.suffix
=============================================================================
