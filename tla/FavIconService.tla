---------------------------- MODULE FavIconService ----------------------------
(***************************************************************************)
(* What AZFavIconManager.h promises the callers of iconForURL: the icon at *)
(* once if there already is one, or else a placeholder and "a handler to   *)
(* be called when and only if an icon is downloaded", which is called once *)
(* at most.  A request is discarded only if one for the same URL was made  *)
(* before it, and none is answered before an icon of its host was found.   *)
(***************************************************************************)
CONSTANTS Requests, URLs, Host(_)

VARIABLES
  found,   \* hosts of which an icon was found, now or by an earlier process
  url,     \* url[r]: what request r asks for
  status   \* "new", "returned", "discarded", "waiting" or "handled"

vars == <<found, url, status>>

Init ==
  /\ found \in SUBSET { Host(u) : u \in URLs }
  /\ url \in [Requests -> URLs]
  /\ status = [r \in Requests |-> "new"]

Moves(r, from, to) ==
  /\ status[r] = from
  /\ status' = [status EXCEPT ![r] = to]
  /\ UNCHANGED found

Finds(r) ==
  /\ status[r] = "waiting"
  /\ found' = found \cup {Host(url[r])}
  /\ UNCHANGED status

Next ==
  /\ UNCHANGED url
  /\ \E r \in Requests :
       \/ Finds(r)
       \/ Host(url[r]) \in found /\ Moves(r, "new", "returned")
       \/ Moves(r, "new", "waiting")
       \/ /\ \E q \in Requests \ {r} : url[q] = url[r] /\ status[q] \in {"waiting", "handled"}
          /\ Moves(r, "new", "discarded")
       \/ Host(url[r]) \in found /\ Moves(r, "waiting", "handled")

Spec == Init /\ [][Next]_vars
=============================================================================
