-------------------------- MODULE MCSerialPackets --------------------------
(***************************************************************************)
(* Small instances of SerialPackets over two bytes: every way of making a  *)
(* descriptor, among them prefixes and suffixes that overlap in a packet,  *)
(* that are the same, or that are longer than a packet may be.             *)
(***************************************************************************)
EXTENDS SerialPackets

Affixes(prefix, suffix, max) ==
  [kind |-> "affix", prefix |-> prefix, suffix |-> suffix, max |-> max]

SomeFormats ==
  {[kind |-> "data", data |-> <<"a", "b", "a">>],
   [kind |-> "data", data |-> <<>>],
   Affixes(<<"a">>, <<"b">>, 3),
   Affixes(<<"a", "b">>, <<"b", "a">>, 4),
   Affixes(<<"a">>, <<"a">>, 2),
   Affixes(<<"a", "b">>, Nil, 3),
   Affixes(Nil, <<"b", "b">>, 3),
   Affixes(<<"a", "b">>, Nil, 1),
   Affixes(Nil, Nil, 2),
   [kind |-> "accepts", data |-> {<<"a", "a">>, <<"b", "b", "a">>}, max |-> 3]}
=============================================================================
