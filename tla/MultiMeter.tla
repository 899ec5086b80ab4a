------------------------------ MODULE MultiMeter ------------------------------
(***************************************************************************)
(* MM2200087 (ORSSerial/MM2200087.m:1-204): the driver of a multimeter     *)
(* cuts the data of its serial port into packets and decodes what the      *)
(* display of the meter shows.  The reference it is checked against is the *)
(* decoder kept in the header (MM2200087.h:46-490 of the JSMultiMeter      *)
(* example), which names the segments of a digit instead of looking them   *)
(* up by their bits.                                                       *)
(*                                                                         *)
(* A packet has 14 bytes.  Byte i has i in its high nibble and four        *)
(* segments or flags in the low one.                                       *)
(***************************************************************************)
EXTENDS Naturals, FiniteSets, SequencesExt

CONSTANTS
  Scripts,     \* sequences of packets that the meter may send
  Cuts,        \* how many bytes of the first packet may be missing
  ReadSizes    \* how many bytes the port may read at once

IsPacket(p) ==
  /\ p \in Seq(Nat) /\ Len(p) = 14
  /\ \A i \in 1..14 : p[i] \in (16 * i)..(16 * i + 15)

ASSUME MeterAssumption ==
  /\ \A s \in Scripts : /\ s \in Seq(Seq(Nat)) /\ Len(s) > 0
                         /\ \A i \in DOMAIN s : IsPacket(s[i])
  /\ Cuts \subseteq 0..13 /\ ReadSizes \subseteq Nat \ {0}

VARIABLES
  script,              \* the packets the meter sends, the first one cut; never changes
  line,                \* bytes sent and not read yet
  incomingDataBuffer,
  lastPacket,          \* the bits of the last packet, or <<>>
  history,             \* earlier packets
  thrown,              \* a packet was too short for its flags
  together             \* a read gave the last byte of a packet with other bytes

vars == <<script, line, incomingDataBuffer, lastPacket, history, thrown, together>>

Init ==
  /\ \E s \in Scripts, cut \in Cuts : script = <<SubSeq(s[1], cut + 1, 14)>> \o Tail(s)
  /\ line = FlattenSeq(script)
  /\ incomingDataBuffer = <<>> /\ lastPacket = <<>> /\ history = <<>>
  /\ thrown = FALSE /\ together = FALSE

-----------------------------------------------------------------------------
(* A packet, decoded.  Bytes and bits are counted from 0 as in the code.   *)

Bit(packet, byte, bit) == (packet[byte + 1] \div 2^bit) % 2

(* What a digit shows, by its segments A to G.                             *)
segmentD ==
  { <<<<0,0,0,1,1,1,0>>, "L">>, <<<<0,0,1,0,1,0,1>>, "N">>, <<<<0,1,1,0,0,0,0>>, "1">>,
    <<<<0,1,1,0,0,1,1>>, "4">>, <<<<1,0,0,0,1,1,1>>, "F">>, <<<<1,0,0,1,1,1,0>>, "C">>,
    <<<<1,0,0,1,1,1,1>>, "E">>, <<<<1,0,1,1,0,1,1>>, "5">>, <<<<1,0,1,1,1,1,1>>, "6">>,
    <<<<1,1,0,0,1,1,1>>, "P">>, <<<<1,1,0,1,1,0,1>>, "2">>, <<<<1,1,1,0,0,0,0>>, "7">>,
    <<<<1,1,1,1,0,0,1>>, "3">>, <<<<1,1,1,1,0,1,1>>, "9">>, <<<<1,1,1,1,1,1,0>>, "0">>,
    <<<<1,1,1,1,1,1,1>>, "8">> }

(* Mutant: the two upper segments of a digit on the left are swapped.      *)
SwappedSegments(packet, dig) ==
  LET uno == 10 - 2 * dig
  IN  << Bit(packet, uno, 0), Bit(packet, uno + 1, 0), Bit(packet, uno + 1, 2),
         Bit(packet, uno + 1, 3), Bit(packet, uno, 1), Bit(packet, uno, 2),
         Bit(packet, uno + 1, 1) >>

segments(packet, dig) ==
  LET uno == 10 - 2 * dig
  IN  << Bit(packet, uno, 0), Bit(packet, uno + 1, 0), Bit(packet, uno + 1, 2),
         Bit(packet, uno + 1, 3), Bit(packet, uno, 2), Bit(packet, uno, 1),
         Bit(packet, uno + 1, 1) >>

(* What a table of pairs gives for a key, ? if nothing.                    *)
LookUp(shown) == IF shown = {} THEN "?" ELSE CHOOSE c \in shown : TRUE

processDigit(packet, dig) ==
  LookUp({ e[2] : e \in { d \in segmentD : d[1] = segments(packet, dig) } })

(* The digits are processed from 4 to 1, each may set it: the last one     *)
(* wins.  0 is also the place of the flag MAX, on digit 4.                 *)
decimalPlace(packet) ==
  LET points == { dig \in 1..4 : Bit(packet, 10 - 2 * dig, 3) = 1 }
  IN  IF points = {} THEN 0 ELSE 4 - (CHOOSE d \in points : \A e \in points : d <= e)

(* Each flag has a bit of a byte.                                          *)
flagsD ==
  { <<"AUTO", 0, 0>>, <<"AC", 0, 2>>, <<"NEGATIVE", 0, 3>>,
    <<"HOLD", 1, 0>>, <<"LOW BATTERY", 1, 1>>, <<"DIODE", 1, 2>>,
    <<"CONTINUITY", 1, 3>>, <<"MIN", 10, 0>>, <<"REL DELTA", 10, 1>>,
    <<"HFE", 10, 2>>, <<"Percent", 10, 3>>, <<"SECONDS", 11, 0>>,
    <<"dBm", 11, 1>>, <<"n (1e-9)", 11, 2>>, <<"u (1e-6)", 11, 3>>,
    <<"m (1e-3)", 12, 0>>, <<"VOLTS", 12, 1>>, <<"AMPS", 12, 2>>,
    <<"FARADS", 12, 3>>, <<"M (1e6)", 13, 0>>, <<"K (1e3)", 13, 1>>,
    <<"OHMS", 13, 2>>, <<"Hz", 13, 3>> }

flags(packet) == { f[1] : f \in { d \in flagsD : Bit(packet, d[2], d[3]) = 1 } }

display(packet) ==
  LET digits == [i \in 1..4 |-> processDigit(packet, 5 - i)]
      place  == decimalPlace(packet)
      point  == IF place = 0 THEN digits ELSE InsertAt(digits, place + 1, ".")
  IN  IF "NEGATIVE" \in flags(packet) THEN <<"-">> \o point ELSE point

-----------------------------------------------------------------------------
(* The reference: a digit by its lit segments, which come in another order *)
(* in the bytes, and a point before each digit that has one.               *)

LitFor ==
  { <<{"A","F","G","D","E"}, "E">>, <<{"G","C","E"}, "N">>,
    <<{"F","D","E"}, "L">>, <<{"A","F","G","B","E"}, "P">>,
    <<{"A","F","G","E"}, "F">>, <<{"A","F","D","E"}, "C">>,
    <<{"A","F","G","B","C","D"}, "9">>, <<{"A","F","G","B","C","D","E"}, "8">>,
    <<{"A","B","C"}, "7">>, <<{"A","F","G","C","D","E"}, "6">>,
    <<{"A","F","G","C","D"}, "5">>, <<{"F","G","B","C"}, "4">>,
    <<{"A","G","B","C","D"}, "3">>, <<{"A","G","B","D","E"}, "2">>,
    <<{"B","C"}, "1">>, <<{"A","F","B","C","D","E"}, "0">> }

digitDict(packet, digitNumber) ==
  LET first == 10 - 2 * digitNumber
      Lit(byte, names) == { names[i] : i \in { n \in DOMAIN names : Bit(packet, byte, n - 1) = 1 } }
  IN  Lit(first, <<"A", "F", "E">>) \cup Lit(first + 1, <<"B", "G", "C", "D">>)

strToDigits(packet) ==
  LET Char(n)  == LookUp({ e[2] : e \in { d \in LitFor : d[1] = digitDict(packet, n) } })
      Point(n) == n # 4 /\ Bit(packet, 10 - 2 * n, 3) = 1
      Shown(n) == IF Point(n) THEN <<".", Char(n)>> ELSE <<Char(n)>>
  IN  (IF Bit(packet, 0, 3) = 1 THEN <<"-">> ELSE <<>>)
        \o Shown(4) \o Shown(3) \o Shown(2) \o Shown(1)

strToFlags(packet) ==
  LET Named(byte, names) == { names[i] : i \in { n \in DOMAIN names : Bit(packet, byte, n - 1) = 1 } }
  IN  (Named(0, <<"AUTO", "SEND", "AC">>) \ {"SEND"})
        \cup Named(1, <<"HOLD", "LOW BATTERY", "DIODE", "CONTINUITY">>)
        \cup Named(10, <<"MIN", "REL DELTA", "HFE", "Percent">>)
        \cup Named(11, <<"SECONDS", "dBm", "n (1e-9)", "u (1e-6)">>)
        \cup Named(12, <<"m (1e-3)", "VOLTS", "AMPS", "FARADS">>)
        \cup Named(13, <<"M (1e6)", "K (1e3)", "OHMS", "Hz">>)

-----------------------------------------------------------------------------
(* A packet ends when a read gives exactly the byte e0.                    *)
PacketEnd == <<224>>

bits(data) == [i \in DOMAIN data |-> data[i] % 128]

IsNil(allBits) == Len(allBits) \notin {13, 14}

(* Mutant: the new packet goes to the history, not the one before it.      *)
RecordNew(data) ==
  LET buffer == incomingDataBuffer \o data
      new    == bits(buffer)
  IN  IF data # PacketEnd \/ Len(new) = 13
      THEN incomingDataBuffer' = buffer /\ UNCHANGED <<lastPacket, history, thrown>>
      ELSE /\ incomingDataBuffer' = <<>> /\ UNCHANGED thrown
           /\ lastPacket' = IF IsNil(new) THEN <<>> ELSE new
           /\ history' = IF lastPacket \in {<<>>, new} THEN history ELSE Append(history, new)

(* Mutant: the bytes of a packet stay in the buffer.                       *)
KeepBuffer(data) ==
  LET buffer == incomingDataBuffer \o data
      new    == bits(buffer)
  IN  /\ incomingDataBuffer' = buffer
      /\ IF data # PacketEnd \/ Len(new) = 13
         THEN UNCHANGED <<lastPacket, history, thrown>>
         ELSE /\ UNCHANGED thrown
              /\ lastPacket' = IF IsNil(new) THEN <<>> ELSE new
              /\ history' = IF lastPacket \in {<<>>, new} THEN history ELSE Append(history, lastPacket)

(* A packet of 13 bytes is let through (55) and has no byte for the last   *)
(* flags (48): the exception leaves the buffer and lastPacket as they are. *)
didReceiveData(data) ==
  LET buffer == incomingDataBuffer \o data
      new    == bits(buffer)
      throws == ~IsNil(new) /\ Len(new) < 14
  IN  \/ /\ data # PacketEnd
         /\ incomingDataBuffer' = buffer
         /\ UNCHANGED <<lastPacket, history, thrown>>
      \/ /\ data = PacketEnd /\ new = lastPacket
         /\ incomingDataBuffer' = <<>>
         /\ UNCHANGED <<lastPacket, history, thrown>>
      \/ /\ data = PacketEnd /\ new # lastPacket
         /\ history' = IF lastPacket = <<>> THEN history ELSE Append(history, lastPacket)
         /\ thrown' = throws
         /\ incomingDataBuffer' = IF throws THEN buffer ELSE <<>>
         /\ lastPacket' = CASE throws -> lastPacket [] IsNil(new) -> <<>> [] OTHER -> new

PortReads(n) ==
  LET data == SubSeq(line, 1, n)
  IN  /\ n <= Len(line) /\ ~thrown
      /\ line' = SubSeq(line, n + 1, Len(line))
      /\ together' = (together \/ (n > 1 /\ \E i \in 1..n : data[i] >= 224))
      /\ didReceiveData(data)
      /\ UNCHANGED script

Next == \E n \in ReadSizes : PortReads(n)

Spec == Init /\ [][Next]_vars

-----------------------------------------------------------------------------
(* Properties.                                                             *)

readings == IF lastPacket = <<>> THEN history ELSE Append(history, lastPacket)

(* What is shown and which flags are set of a packet is what the decoder   *)
(* kept in the header makes of it (MM2200087.h:64-396 of the example),     *)
(* which lists no minus as a flag.  With points at two of the digits 1 to  *)
(* 3, which no sample shows, the driver keeps one place, the header both.  *)
DecodesAsReference ==
  LET Points == { dig \in 1..3 : Bit(lastPacket, 10 - 2 * dig, 3) = 1 }
  IN  lastPacket # <<>>
        => /\ flags(lastPacket) \ {"NEGATIVE"} = strToFlags(lastPacket)
           /\ (\A d, e \in Points : d = e) => display(lastPacket) = strToDigits(lastPacket)

(* However the bytes are split into reads, the packets reported were sent  *)
(* as they are and in that order: none is made up of parts of two packets, *)
(* none is reported twice or after a later one (186-204).                  *)
ReadingsInOrder ==
  \E at \in [DOMAIN readings -> DOMAIN script] :
    \A i \in DOMAIN readings : /\ readings[i] = bits(script[at[i]]) /\ Len(readings[i]) = 14
                               /\ \A j \in 1..i-1 : at[j] < at[i]

(* Readings r are the packets T of those sent, each once and in order.     *)
Lists(r, q, T) ==
  \E at \in [DOMAIN r -> T] :
    /\ \A n \in T : \E i \in DOMAIN r : at[i] = n
    /\ \A i \in DOMAIN r : r[i] = bits(q[at[i]]) /\ \A j \in 1..i-1 : at[j] < at[i]

(* As long as the last byte of every packet is e0 and comes in a read of   *)
(* its own, every whole packet read so far was reported, one that equals   *)
(* the packet before it left out, whatever was lost before the first.      *)
PacketsReported ==
  LET Consumed == Len(FlattenSeq(script)) - Len(line)
      IsRead(n) == Len(FlattenSeq(SubSeq(script, 1, n))) <= Consumed
      due == { n \in DOMAIN script : IsRead(n) /\ Len(script[n]) = 14
                                      /\ (n > 1 => script[n] # script[n-1]) }
  IN  ~together /\ ~thrown /\ (\A n \in DOMAIN script : Last(script[n]) = 224)
        => Lists(readings, script, due)
=============================================================================
