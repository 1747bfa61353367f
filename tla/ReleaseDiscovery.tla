-------------------------- MODULE ReleaseDiscovery --------------------------
(***************************************************************************)
(* The search for the newest release of the Pico: the page by page scan of *)
(* select_signed_release (release_discovery.py), and the admission of each *)
(* candidate by discover_release (release_client.py) and verify_candidate  *)
(* (candidate_manifest.py).  A page arrives in one step here, as does the  *)
(* signed metadata of a candidate; NetworkClients gives the requests behind *)
(* them.                                                                   *)
(*                                                                         *)
(* The repository changes while it is listed, and the listing has no order *)
(* one could rely on: two pages may overlap, and together they may miss a  *)
(* release.                                                                *)
(***************************************************************************)
EXTENDS Integers, FiniteSets

CONSTANTS
  Releases,     \* ids of all releases there may ever be, in this list or not
  Candidates,   \* those with a pico tag, neither draft nor prerelease
  Authentic,    \* those whose signed manifest names this board and runtime
  Floor,        \* the greater of applied_id and failed_high_water
  PageItems,    \* MAX_PAGE_ITEMS
  MaxPages,     \* max_pages
  NoScan        \* no scan in progress

Scans == [page : 1..MaxPages, at : {"fetch", "items", "done"}, todo : SUBSET Releases,
          seen : SUBSET Releases, last : BOOLEAN, winner : Nat]

\* What the clients assume of the constants.
DiscoveryAssumption ==
  /\ Releases \subseteq Nat \ {0}
  /\ IsFiniteSet(Releases)
  /\ Candidates \subseteq Releases
  /\ Floor \in Nat
  /\ PageItems \in Nat \ {0} /\ MaxPages \in Nat \ {0}
  /\ NoScan \notin Scans

NoRelease == 0   \* None, as a winner

VARIABLES
  repo,     \* releases listed now
  scan,     \* locals of _select_signed_release
  deleted,  \* history: whether a release disappeared during the scan
  listed    \* history: the list as it was when the last page was taken

vars == <<repo, scan, deleted, listed>>

Scanning == scan # NoScan
At(place) == Scanning /\ scan.at = place

Init ==
  /\ repo \in SUBSET Releases
  /\ scan = NoScan
  /\ deleted = FALSE
  /\ listed = {}

Begin ==
  /\ ~Scanning
  /\ scan' = [page |-> 1, at |-> "fetch", todo |-> {}, seen |-> {}, last |-> FALSE,
              winner |-> NoRelease]
  /\ UNCHANGED <<repo, deleted, listed>>

\* How many releases GitHub puts on a page of the list.
PageSize(page) ==
  LET left == Cardinality(repo) - PageItems * (page - 1)
  IN IF left < 0 THEN 0 ELSE IF left < PageItems THEN left ELSE PageItems

Pages(page) == {p \in SUBSET repo : Cardinality(p) = PageSize(page)}

\* What a release needs before its signed metadata is fetched.
Considered(p) == {r \in p \cap Candidates : r > Floor}

\* A faulty scan that skips what it has seen instead of giving up.
RepeatsAnything(p) == TRUE

RepeatsNothing(p) == p \cap scan.seen = {}

\* A page arrives and repeats nothing that was seen.
TakePage ==
  /\ At("fetch")
  /\ \E p \in Pages(scan.page) :
       /\ RepeatsNothing(p)
       /\ scan' = [scan EXCEPT !.at = "items", !.todo = Considered(p), !.seen = @ \cup p,
                               !.last = Cardinality(p) < PageItems]
  /\ listed' = repo
  /\ UNCHANGED <<repo, deleted>>

\* The id is the one of the tag, above both high-waters, and the greatest.
Better(r) == IF r > scan.winner THEN r ELSE scan.winner

\* Manifest and signature of a candidate arrive: an authentic one competes,
\* any other is skipped.
Admit(r) ==
  /\ At("items")
  /\ r \in scan.todo
  /\ r \in repo
  /\ scan' = [scan EXCEPT !.todo = @ \ {r},
                          !.winner = IF r \in Authentic THEN Better(r) ELSE @]
  /\ UNCHANGED <<repo, deleted, listed>>

PageEnds ==
  /\ At("items")
  /\ scan.todo = {}
  /\ \/ scan.last /\ scan' = [scan EXCEPT !.at = "done"]
     \/ /\ ~scan.last
        /\ scan.page < MaxPages
        /\ scan' = [scan EXCEPT !.at = "fetch", !.page = @ + 1]
  /\ UNCHANGED <<repo, deleted, listed>>

\* DiscoveryIncomplete: a repetition, malformed metadata, a full last page,
\* a transport failure, the deadline or the service; or the winner goes back
\* to the caller.
Leave ==
  /\ Scanning
  /\ scan' = NoScan
  /\ deleted' = FALSE
  /\ listed' = {}
  /\ UNCHANGED repo

Published(r) ==
  /\ repo' = repo \cup {r}
  /\ UNCHANGED <<scan, deleted, listed>>

Deleted(r) ==
  /\ r \in repo
  /\ repo' = repo \ {r}
  /\ deleted' = Scanning
  /\ UNCHANGED <<scan, listed>>

Next ==
  \/ Begin
  \/ TakePage
  \/ At("items") /\ \E r \in scan.todo : Admit(r)
  \/ PageEnds
  \/ Leave
  \/ \E r \in Releases : Published(r) \/ Deleted(r)

Spec == Init /\ [][Next]_vars

-----------------------------------------------------------------------------
Eligible(p) == Considered(p) \cap Authentic

(***************************************************************************)
(* "Return authenticated winner bytes/tag, or None after a complete scan": *)
(* as long as nothing is deleted from the list during the scan, a result is*)
(* the greatest eligible release of the list as it was at the last page,   *)
(* although the pages came in any order and the list grew in between.      *)
(***************************************************************************)
CompleteScan ==
  At("done") /\ ~deleted =>
    /\ scan.winner \in Eligible(listed) \cup {NoRelease}
    /\ \A r \in Eligible(listed) : r <= scan.winner
=============================================================================
