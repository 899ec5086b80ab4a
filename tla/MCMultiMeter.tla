----------------------------- MODULE MCMultiMeter -----------------------------
(***************************************************************************)
(* Scripts of three packets for MultiMeter.  Between them the sample       *)
(* packets show each of the 128 patterns of segments and set each flag but *)
(* those of the last byte, which is e0; the point is at none or one of the *)
(* digits 1 to 3.  A packet of an ohmmeter ends in e4.                     *)
(***************************************************************************)
EXTENDS MultiMeter

Segments(j, dig) == 4 * j + dig - 1

Sample(j, last) ==
  LET Low(i) == CASE i = 1  -> j % 16
                  [] i = 2  -> (j \div 2) % 16
                  [] i = 11 -> (3 * j) % 16
                  [] i = 12 -> (5 * j) % 16
                  [] i = 13 -> 15 - (j % 16)
                  [] i = 14 -> last
                  [] i \in {3, 5, 7, 9} ->
                       LET dig == (11 - i) \div 2
                       IN  (Segments(j, dig) % 8) + (IF j % 5 = dig THEN 8 ELSE 0)
                  [] OTHER -> Segments(j, (12 - i) \div 2) \div 8
  IN  [i \in 1..14 |-> 16 * i + Low(i)]

MCScripts ==
  UNION { LET s == Sample(j, 0)
              t == Sample((j + 1) % 32, 0)
              u == Sample(j, 4)
          IN  { <<s, s, t>>, <<s, t, s>>, <<s, u, t>> } : j \in 0..31 }

MCCuts == {0, 1, 5}
MCReadSizes == {1, 2, 13}
=============================================================================
