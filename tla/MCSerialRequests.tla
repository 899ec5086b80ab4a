-------------------------- MODULE MCSerialRequests --------------------------
(***************************************************************************)
(* Small instances of SerialRequests.  Request "q" (query) expects the     *)
(* byte "x"; "c" (command) expects no response.                            *)
(***************************************************************************)
EXTENDS SerialRequests

OneAnswer  == "q" :> {"x"}
ShortReads == {<<"x">>}
Pairs      == {<<"x", "x">>}
=============================================================================
