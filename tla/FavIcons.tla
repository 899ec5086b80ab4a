------------------------------- MODULE FavIcons -------------------------------
(***************************************************************************)
(* AZFavIconManager, its operations and its cache                          *)
(* (AZFavIconManager.m:20-358): requests for icons made on the main        *)
(* thread, an operation on a thread of its own for each that is not        *)
(* answered from the cache, the memory and disk cache, and cancellation.   *)
(*                                                                         *)
(* How an icon is looked for (208-279) is abstracted to whether it is      *)
(* found.  opsPerURL is changed by several threads without a lock: each    *)
(* call on it is one step here.                                            *)
(***************************************************************************)
EXTENDS Naturals, FiniteSets, SequencesExt

CONSTANTS
  Requests,   \* calls of iconForURL:downloadHandler:, by requestNumber
  URLs,       \* what they may ask for
  Calls,      \* which requests ask for which URL
  Host(_),    \* keyForURL:, the key of the cache
  None        \* no operation

ASSUME IconsAssumption ==
  /\ Requests \subseteq Nat /\ None \notin Requests
  /\ Calls \subseteq [Requests -> URLs]

VARIABLES
  discards,   \* discardRequestsForIconsWithPendingOperation; set once
  answers,    \* imageForKey: gets past its first line (323); never changes
  url,        \* url[r]: what r asks for; never changes
  opsPerURL,  \* opsPerURL[u]: the request whose operation is noted for u
  op,         \* op[r]: where request r, or the thread of its operation, is
  cancelled,  \* operations with isCancelled set
  icon,       \* requests whose operation found an icon
  memory,     \* keys of the NSCache
  disk,       \* keys with a file in cacheDirectory
  saves,      \* requests whose icon is still to be written
  mainQueue,  \* handlers dispatched to the main queue
  main,       \* what the main thread is in
  handled,    \* ghost: handled[r]: how often r's handler was called
  found,      \* ghost: hosts an icon was found of
  robbed      \* ghost: URLs whose note a cancelled operation removed

settings  == <<discards, answers, url>>
cacheVars == <<memory, disk, saves>>
ghostVars == <<handled, found, robbed>>
vars == <<settings, opsPerURL, op, cancelled, icon, cacheVars, mainQueue, main, ghostVars>>

keyForURL(r) == Host(url[r])
Keys == { Host(u) : u \in URLs }

At(r, step) == op[r] = step
Goto(r, step) == op' = [op EXCEPT ![r] = step]
InQueue == { r \in Requests : op[r] \notin {"new", "returned", "discarded", "done"} }

Init ==
  /\ discards \in BOOLEAN /\ answers \in BOOLEAN /\ url \in Calls
  /\ opsPerURL = [u \in URLs |-> None]
  /\ op = [r \in Requests |-> "new"] /\ cancelled = {} /\ icon = {}
  /\ memory = {} /\ disk \in SUBSET Keys /\ saves = {}
  /\ mainQueue = <<>> /\ main = "idle"
  /\ handled = [r \in Requests |-> 0] /\ found = disk /\ robbed = {}

-----------------------------------------------------------------------------
(* The cache: memory, then disk; what is found on disk goes to memory.     *)

IsCached(k) == answers /\ k \in memory \cup disk

imageForKey(k) == memory' = IF IsCached(k) THEN memory \cup {k} ELSE memory

(* Writing the file may fail.                                              *)
SaveImage(r) ==
  /\ r \in saves
  /\ saves' = saves \ {r}
  /\ disk' \in {disk, disk \cup {keyForURL(r)}}
  /\ UNCHANGED <<settings, opsPerURL, op, cancelled, icon, memory, mainQueue, main, ghostVars>>

(* An NSCache drops what it likes.                                         *)
Evict(k) ==
  /\ k \in memory
  /\ memory' = memory \ {k}
  /\ UNCHANGED <<settings, opsPerURL, op, cancelled, icon, disk, saves, mainQueue, main, ghostVars>>

-----------------------------------------------------------------------------
(* iconForURL:downloadHandler:, on the main thread.                        *)

Comes(r) == At(r, "new") /\ \A q \in Requests : q < r => ~At(q, "new")

(* Mutant: a new operation is not noted.                                   *)
IconForURLUnnoted(r) ==
  /\ main = "idle" /\ Comes(r)
  /\ imageForKey(keyForURL(r))
  /\ Goto(r, IF IsCached(keyForURL(r)) THEN "returned" ELSE "queued")
  /\ UNCHANGED <<settings, opsPerURL, cancelled, icon, disk, saves, mainQueue, main, ghostVars>>

IconForURL(r) ==
  /\ main = "idle" /\ Comes(r)
  /\ imageForKey(keyForURL(r))
  /\ \/ /\ IsCached(keyForURL(r))
        /\ Goto(r, "returned")
        /\ UNCHANGED opsPerURL
     \/ /\ ~IsCached(keyForURL(r))
        /\ discards /\ opsPerURL[url[r]] # None
        /\ Goto(r, "discarded")
        /\ UNCHANGED opsPerURL
     \/ /\ ~IsCached(keyForURL(r))
        /\ ~(discards /\ opsPerURL[url[r]] # None)
        /\ Goto(r, "queued")
        /\ opsPerURL' = [opsPerURL EXCEPT ![url[r]] = r]
  /\ UNCHANGED <<settings, cancelled, icon, disk, saves, mainQueue, main, ghostVars>>

-----------------------------------------------------------------------------
(* main of an AZFavIconOperation and its blocks, on a download thread.     *)

DispatchHandler(r) == mainQueue' = Append(mainQueue, r)

Start(r) ==
  /\ At(r, "queued")
  /\ Goto(r, IF r \in cancelled THEN "done" ELSE "preflight")
  /\ UNCHANGED <<settings, opsPerURL, cancelled, icon, cacheVars, mainQueue, main, ghostVars>>

(* Mutant: the handler is called and the operation goes on.                *)
PreflightGoesOn(r) ==
  /\ At(r, "preflight")
  /\ imageForKey(keyForURL(r))
  /\ IF IsCached(keyForURL(r)) THEN DispatchHandler(r) ELSE UNCHANGED mainQueue
  /\ Goto(r, "searching")
  /\ UNCHANGED <<settings, opsPerURL, cancelled, icon, disk, saves, main, ghostVars>>

Preflight(r) ==
  /\ At(r, "preflight")
  /\ imageForKey(keyForURL(r))
  /\ IF IsCached(keyForURL(r))
     THEN DispatchHandler(r) /\ Goto(r, "done")
     ELSE Goto(r, "searching") /\ UNCHANGED mainQueue
  /\ UNCHANGED <<settings, opsPerURL, cancelled, icon, disk, saves, main, ghostVars>>

(* A search that finds isCancelled set stops with what it has so far.      *)
Search(r) ==
  /\ At(r, "searching")
  /\ Goto(r, "found")
  /\ \/ /\ icon' = icon \cup {r}
        /\ found' = found \cup {keyForURL(r)}
     \/ UNCHANGED <<icon, found>>
  /\ UNCHANGED <<settings, opsPerURL, cancelled, cacheVars, mainQueue, main, handled, robbed>>

(* Mutant: without an icon the note stays (the version in 107-137).        *)
RemoveNoteOfIcon(r) ==
  /\ At(r, "found")
  /\ opsPerURL' = IF r \in icon THEN [opsPerURL EXCEPT ![url[r]] = None] ELSE opsPerURL
  /\ robbed' = IF r \in cancelled /\ opsPerURL[url[r]] \notin {None, r}
               THEN robbed \cup {url[r]} ELSE robbed
  /\ Goto(r, IF r \in icon THEN "caching" ELSE "done")
  /\ UNCHANGED <<settings, cancelled, icon, cacheVars, mainQueue, main, handled, found>>

(* The completion block, which is called for a cancelled operation too,    *)
(* removes the note of its URL, caches the icon and dispatches the handler.*)
RemoveNote(r) ==
  /\ At(r, "found")
  /\ opsPerURL' = [opsPerURL EXCEPT ![url[r]] = None]
  /\ robbed' = IF r \in cancelled /\ opsPerURL[url[r]] \notin {None, r}
               THEN robbed \cup {url[r]} ELSE robbed
  /\ Goto(r, IF r \in icon THEN "caching" ELSE "done")
  /\ UNCHANGED <<settings, cancelled, icon, cacheVars, mainQueue, main, handled, found>>

setImage(r) == memory' = memory \cup {keyForURL(r)} /\ saves' = saves \cup {r}

(* Mutant: the handler of a cancelled operation is forgotten.              *)
CompleteUncancelled(r) ==
  /\ At(r, "caching")
  /\ setImage(r)
  /\ IF r \in cancelled THEN UNCHANGED mainQueue ELSE DispatchHandler(r)
  /\ Goto(r, "done")
  /\ UNCHANGED <<settings, opsPerURL, cancelled, icon, disk, main, ghostVars>>

Complete(r) ==
  /\ At(r, "caching")
  /\ setImage(r)
  /\ DispatchHandler(r)
  /\ Goto(r, "done")
  /\ UNCHANGED <<settings, opsPerURL, cancelled, icon, disk, main, ghostVars>>

MainCallsHandler ==
  /\ main = "idle" /\ mainQueue # <<>>
  /\ mainQueue' = Tail(mainQueue)
  /\ handled' = [handled EXCEPT ![Head(mainQueue)] = @ + 1]
  /\ UNCHANGED <<settings, opsPerURL, op, cancelled, icon, cacheVars, main, found, robbed>>

-----------------------------------------------------------------------------
(* cancelRequests and clearCache, on the main thread.                      *)

CancelAllOperations ==
  /\ main = "idle"
  /\ cancelled' = cancelled \cup InQueue
  /\ main' \in {"emptying", "emptyingToClear"}
  /\ UNCHANGED <<settings, opsPerURL, op, icon, cacheVars, mainQueue, ghostVars>>

EmptyOpsPerURL ==
  /\ main \in {"emptying", "emptyingToClear"}
  /\ opsPerURL' = [u \in URLs |-> None]
  /\ main' = IF main = "emptying" THEN "idle" ELSE "clearing"
  /\ UNCHANGED <<settings, op, cancelled, icon, cacheVars, mainQueue, ghostVars>>

RemoveAllObjects ==
  /\ main = "clearing"
  /\ disk' = {} /\ memory' = {}
  /\ main' = "idle"
  /\ UNCHANGED <<settings, opsPerURL, op, cancelled, icon, saves, mainQueue, ghostVars>>

-----------------------------------------------------------------------------
OnThread(r) ==
  \/ Start(r) \/ Preflight(r) \/ Search(r) \/ RemoveNote(r) \/ Complete(r)

Next ==
  \/ MainCallsHandler
  \/ CancelAllOperations \/ EmptyOpsPerURL \/ RemoveAllObjects
  \/ \E r \in Requests : IconForURL(r) \/ OnThread(r) \/ SaveImage(r)
  \/ \E k \in Keys : Evict(k)

Spec == Init /\ [][Next]_vars

-----------------------------------------------------------------------------
(* Every variable has its type.                                            *)
TypeOK ==
  /\ discards \in BOOLEAN /\ answers \in BOOLEAN /\ url \in [Requests -> URLs]
  /\ opsPerURL \in [URLs -> Requests \cup {None}]
  /\ op \in [Requests -> {"new", "returned", "discarded", "queued", "preflight",
                          "searching", "found", "caching", "done"}]
  /\ cancelled \subseteq Requests /\ icon \subseteq Requests
  /\ memory \subseteq Keys /\ disk \subseteq Keys /\ saves \subseteq icon
  /\ mainQueue \in Seq(Requests) /\ IsInjective(mainQueue)
  /\ main \in {"idle", "emptying", "emptyingToClear", "clearing"}
  /\ handled \in [Requests -> Nat] /\ found \subseteq Keys /\ robbed \subseteq URLs

(* A note in opsPerURL that outlives its operation, for which requests are *)
(* discarded although nobody looks for the icon, is one of an operation    *)
(* that its preflight ended with the icon in the cache (81-88, 189): every *)
(* other end of an operation, cancelled or not, takes its note away.       *)
NotesAreLive ==
  main = "idle" =>
    \A u \in URLs :
      LET r == opsPerURL[u]
      IN  r # None /\ At(r, "done") =>
            r \notin icon /\ (handled[r] > 0 \/ Contains(mainQueue, r))

(* "Are requests for icons with URLs already in queue discarded? (useful   *)
(* in tables)" (AZFavIconManager.h:31): if they are, no two operations     *)
(* that nobody cancelled are under way for a URL, unless a cancelled one,  *)
(* still running, took away the note of the one after it (68).             *)
OneOperationPerURL ==
  discards =>
    \A r, q \in (InQueue \ cancelled) :
      url[r] = url[q] /\ url[r] \notin robbed /\ "caching" \notin {op[r], op[q]} => r = q

(* What the caller of a request sees of it.                                *)
Status(r) ==
  IF op[r] \in {"new", "returned", "discarded"} THEN op[r]
  ELSE IF handled[r] = 0 THEN "waiting"
  ELSE IF handled[r] = 1 THEN "handled" ELSE "handled again"

Service == INSTANCE FavIconService WITH status <- [r \in Requests |-> Status(r)]

(* The manager implements FavIconService: the handler is called once at    *)
(* most, whether the icon came from the network or from another operation  *)
(* through the cache, and only if there is an icon.                        *)
ImplementsService == Service!Spec

(* "A handler to be called when and only if an icon is downloaded"         *)
(* (AZFavIconManager.h:42): once nothing is under way, every operation     *)
(* that found an icon has had its handler called, also if it was cancelled *)
(* or the cache cleared meanwhile, and one that found none has not, unless *)
(* its preflight found the icon of another.                                *)
FoundIsHandled ==
  InQueue = {} /\ mainQueue = <<>> =>
    \A r \in Requests :
      /\ r \in icon => handled[r] = 1
      /\ handled[r] > 0 => answers \/ r \in icon
=============================================================================
