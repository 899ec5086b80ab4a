------------------------------ MODULE MCFavIcons ------------------------------
(***************************************************************************)
(* FavIcons with two pages of one site: their icons share a key.           *)
(***************************************************************************)
EXTENDS FavIcons

OneHost(u) == "site"

(* Three requests for one page, or two for it and one for the other.       *)
ThreeCalls == { <<"page", "page", u>> : u \in URLs }
=============================================================================
