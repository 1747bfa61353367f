------------------------ MODULE NetworkClientsProofs ------------------------
(***************************************************************************)
(* With the requests, the failures and the power cuts between its steps,   *)
(* the search for a release is still the one of ReleaseDiscovery, and so   *)
(* its scans are complete; and no call leaves a socket or a file behind,   *)
(* for any number of files, names and chunks.  What a request brings is    *)
(* whole, of the right host and in time, for any zone of names.            *)
(***************************************************************************)
EXTENDS NetworkClients, FiniteSetTheorems, WellFoundedInduction, NaturalsInduction, TLAPS

ScanStep == [Discovery!Next]_(Discovery!vars)

LEMMA StepScans == ASSUME [Next]_vars PROVE ScanStep
<1>1. CASE UNCHANGED discovery
  BY <1>1 DEF discovery, ScanStep, Discovery!vars
<1>2. CASE Discover \/ PageArrives \/ PageEnds \/ DiscoveryLeaves
  BY <1>2 DEF Discover, PageArrives, PageEnds, DiscoveryLeaves, ScanStep, Discovery!Next
<1>3. CASE Admit
  BY <1>3 DEF Admit, ScanStep, Discovery!Next, Discovery!Admit
<1>4. CASE RepoChanges
  BY <1>4 DEF RepoChanges, ScanStep, Discovery!Next
<1>5. CASE PowerCut
  BY <1>1, <1>5 DEF PowerCut, ScanStep, Discovery!Next
<1>6. CASE UNCHANGED vars
  BY <1>1, <1>6 DEF vars
<1>7. CASE RequestPage \/ RequestManifest \/ RequestSignature \/ UseGist \/ GistUsed
  BY <1>1, <1>7 DEF RequestPage, RequestManifest, RequestSignature, UseGist, GistUsed
<1>8. CASE FetchFleet \/ ReadBody \/ WriteFails \/ FleetSteps
  BY <1>1, <1>8 DEF FetchFleet, ReadBody, WriteFails, FleetSteps, FleetReturns, FleetFails,
                    Staged
<1>9. CASE Exchange \/ Expires \/ ClockAdvances
  BY <1>1, <1>9 DEF Exchange, Expires, ClockAdvances
<1>10. QED
  BY <1>2, <1>3, <1>4, <1>5, <1>6, <1>7, <1>8, <1>9 DEF Next, DiscoverySteps

\* The search of the clients implements the search by itself.
THEOREM SearchRefinement == Spec => Discovery!Spec
<1>1. Init => Discovery!Init
  BY DEF Init
<1>2. [Next]_vars => [Discovery!Next]_(Discovery!vars)
  BY StepScans DEF ScanStep
<1>3. QED
  BY <1>1, <1>2, PTL DEF Spec, Discovery!Spec

-----------------------------------------------------------------------------
\* A scan that ends is complete, for any number of releases, any page size
\* and any order in which the pages come.  The argument is a count: a page
\* that repeats nothing and is not full brings the releases seen up to the
\* length of the list, and so to all of it.
ScanType ==
  /\ repo \subseteq Releases
  /\ listed \subseteq Releases
  /\ scan \in Discovery!Scans \cup {NoScan}

\* Before a page is taken, every page so far was full.
FullPages == Discovery!At("fetch") => Cardinality(scan.seen) = PageItems * (scan.page - 1)

\* Unless releases disappear, what was seen is still in the list.
SeenListed ==
  Discovery!Scanning /\ ~deleted =>
    /\ scan.seen \subseteq repo
    /\ ~Discovery!At("fetch") =>
         scan.seen \subseteq listed /\ (scan.last => scan.seen = listed)

FullPage ==
  Discovery!At("items") /\ ~scan.last => Cardinality(scan.seen) = PageItems * scan.page

OnlyLastEnds == Discovery!At("done") => scan.last

\* The winner is the greatest of what was seen and is not to be done yet.
WinnerInv ==
  Discovery!Scanning =>
    /\ scan.winner \in Discovery!Eligible(scan.seen) \cup {Discovery!NoRelease}
    /\ \A r \in Discovery!Eligible(scan.seen) :
         r <= scan.winner \/ (Discovery!At("items") /\ r \in scan.todo)
    /\ scan.todo \subseteq Discovery!Considered(scan.seen)

ScanInv ==
  /\ ScanType
  /\ FullPages
  /\ FullPage
  /\ OnlyLastEnds
  /\ SeenListed
  /\ WinnerInv

-----------------------------------------------------------------------------
LEMMA SameCount ==
  /\ \A S : Discovery!IsFiniteSet(S) <=> IsFiniteSet(S)
  /\ \A S : Discovery!Cardinality(S) = Cardinality(S)
<1>1. \A S : Discovery!IsFiniteSet(S) <=> IsFiniteSet(S)
  BY DEF Discovery!IsFiniteSet, IsFiniteSet
<1>2. \A S : Discovery!Cardinality(S) = Cardinality(S)
  BY <1>1 DEF Discovery!Cardinality, Cardinality
<1>3. QED
  BY <1>1, <1>2

LEMMA FiniteLists ==
  ASSUME Discovery!DiscoveryAssumption, NEW S \in SUBSET Releases
  PROVE  IsFiniteSet(S) /\ Cardinality(S) \in Nat
BY SameCount, FS_Subset, FS_CardinalityType DEF Discovery!DiscoveryAssumption

LEMMA ScanInit == ASSUME Discovery!DiscoveryAssumption, Discovery!Init PROVE ScanInv
BY DEF Discovery!Init, ScanInv, ScanType, FullPages, FullPage, OnlyLastEnds, SeenListed,
       WinnerInv, Discovery!At, Discovery!Scanning

LEMMA BeginStep ==
  ASSUME Discovery!DiscoveryAssumption, ScanInv, Discovery!Begin
  PROVE  ScanInv'
<1>1. /\ scan' = [page |-> 1, at |-> "fetch", todo |-> {}, seen |-> {}, last |-> FALSE,
                  winner |-> Discovery!NoRelease]
      /\ UNCHANGED <<repo, listed>>
  BY DEF Discovery!Begin
<1>2. scan' \in Discovery!Scans
  BY <1>1 DEF Discovery!Scans, Discovery!DiscoveryAssumption, Discovery!NoRelease
<1>3. ScanType'
  BY <1>1, <1>2 DEF ScanInv, ScanType
<1>4. FullPages'
  BY <1>1, FS_EmptySet
     DEF FullPages, Discovery!At, Discovery!Scanning, Discovery!DiscoveryAssumption
<1>5. QED
  BY <1>1, <1>3, <1>4
     DEF ScanInv, FullPage, OnlyLastEnds, SeenListed, WinnerInv, Discovery!At,
         Discovery!Scanning, Discovery!Eligible, Discovery!Considered

\* The count that makes a short page the last one.
LEMMA PageCount ==
  ASSUME Discovery!DiscoveryAssumption, ScanInv, Discovery!At("fetch"),
         NEW p \in Discovery!Pages(scan.page), Discovery!RepeatsNothing(p)
  PROVE  /\ p \subseteq repo
         /\ Cardinality(scan.seen \cup p) = PageItems * (scan.page - 1) + Cardinality(p)
         /\ Cardinality(p) \in 0..PageItems
         /\ Cardinality(p) < PageItems /\ ~deleted => scan.seen \cup p = repo
<1>1. /\ p \subseteq repo /\ repo \subseteq Releases
      /\ Cardinality(p) = Discovery!PageSize(scan.page)
      /\ scan.seen \cap p = {} /\ scan \in Discovery!Scans /\ scan.seen \subseteq Releases
      /\ scan.page \in Nat \ {0} /\ PageItems \in Nat \ {0}
  BY SameCount
     DEF Discovery!Pages, Discovery!RepeatsNothing, ScanInv, ScanType, Discovery!At,
         Discovery!Scanning, Discovery!Scans, Discovery!DiscoveryAssumption
<1>2. /\ IsFiniteSet(p) /\ IsFiniteSet(scan.seen) /\ IsFiniteSet(repo)
      /\ Cardinality(p) \in Nat /\ Cardinality(scan.seen) \in Nat /\ Cardinality(repo) \in Nat
  BY <1>1, FiniteLists
<1>3. Cardinality(scan.seen) = PageItems * (scan.page - 1)
  BY DEF ScanInv, FullPages
<1>4. Cardinality(scan.seen \cup p) = Cardinality(scan.seen) + Cardinality(p)
  <2>1. Cardinality(scan.seen \cap p) = 0
    BY <1>1, FS_EmptySet
  <2>2. Cardinality(scan.seen \cup p)
          = Cardinality(scan.seen) + Cardinality(p) - Cardinality(scan.seen \cap p)
    BY <1>2, FS_Union
  <2>3. QED
    BY <1>2, <2>1, <2>2
<1>5. Cardinality(p) \in 0..PageItems
  BY <1>1, <1>2, <1>3, SameCount DEF Discovery!PageSize
<1>6. ASSUME Cardinality(p) < PageItems, ~deleted
      PROVE  scan.seen \cup p = repo
  <2>1. scan.seen \cup p \subseteq repo
    BY <1>1, <1>6 DEF ScanInv, SeenListed, Discovery!At
  <2>2. Cardinality(scan.seen \cup p) <= Cardinality(repo)
    BY <1>2, <2>1, FS_Subset
  <2>3. Cardinality(repo) <= Cardinality(scan.seen \cup p)
    BY <1>1, <1>2, <1>3, <1>4, <1>6, <2>2, SameCount DEF Discovery!PageSize
  <2>4. Cardinality(repo) = Cardinality(scan.seen \cup p)
    BY <1>2, <1>4, <2>2, <2>3
  <2>5. QED
    BY <1>2, <2>1, <2>4, FS_Subset
<1>7. QED
  BY <1>1, <1>3, <1>4, <1>5, <1>6

LEMMA TakePageStep ==
  ASSUME Discovery!DiscoveryAssumption, ScanInv, Discovery!TakePage
  PROVE  ScanInv'
<1>0. /\ scan \in Discovery!Scans /\ Discovery!At("fetch") /\ listed' = repo
      /\ UNCHANGED <<repo, deleted>> /\ repo \subseteq Releases
  BY DEF ScanInv, ScanType, Discovery!TakePage, Discovery!At, Discovery!Scanning
<1>1. PICK p \in Discovery!Pages(scan.page) :
        /\ Discovery!RepeatsNothing(p)
        /\ scan' = [scan EXCEPT !.at = "items", !.todo = Discovery!Considered(p),
                                !.seen = @ \cup p, !.last = Cardinality(p) < PageItems]
  BY SameCount DEF Discovery!TakePage
<1>2. /\ p \subseteq repo
      /\ Cardinality(scan.seen \cup p) = PageItems * (scan.page - 1) + Cardinality(p)
      /\ Cardinality(p) \in 0..PageItems
      /\ Cardinality(p) < PageItems /\ ~deleted => scan.seen \cup p = repo
  BY <1>0, <1>1, PageCount
<1>3. /\ scan'.at = "items" /\ scan'.todo = Discovery!Considered(p)
      /\ scan'.seen = scan.seen \cup p
      /\ (scan'.last <=> Cardinality(p) < PageItems) /\ scan'.page = scan.page
      /\ scan'.winner = scan.winner
  BY <1>0, <1>1 DEF Discovery!Scans
<1>4. Discovery!Considered(p) \subseteq Releases
  BY DEF Discovery!Considered, Discovery!DiscoveryAssumption
<1>5. scan' \in Discovery!Scans
  <2>1. \A b \in BOOLEAN, t, s \in SUBSET Releases :
          [scan EXCEPT !.at = "items", !.todo = t, !.seen = s, !.last = b] \in Discovery!Scans
    BY <1>0 DEF Discovery!Scans
  <2>2. scan.seen \cup p \in SUBSET Releases
    BY <1>0, <1>2 DEF Discovery!Scans
  <2>3. CASE Cardinality(p) < PageItems
    <3>1. (Cardinality(p) < PageItems) = TRUE
      BY <2>3
    <3>2. QED
      BY <1>1, <1>4, <2>1, <2>2, <3>1
  <2>4. CASE ~(Cardinality(p) < PageItems)
    <3>1. (Cardinality(p) < PageItems) = FALSE
      BY <2>4
    <3>2. QED
      BY <1>1, <1>4, <2>1, <2>2, <3>1
  <2>5. QED
    BY <2>3, <2>4
<1>6. ScanType' /\ Discovery!Scanning'
  BY <1>0, <1>5 DEF ScanType, Discovery!Scanning, Discovery!DiscoveryAssumption
<1>7. FullPage'
  <2>1. SUFFICES ASSUME ~scan'.last PROVE Cardinality(scan'.seen) = PageItems * scan'.page
    BY <1>3 DEF FullPage
  <2>2. Cardinality(p) = PageItems
    BY <1>2, <1>3, <2>1 DEF Discovery!DiscoveryAssumption
  <2>3. scan.page \in Nat /\ PageItems \in Nat
    BY <1>0 DEF Discovery!Scans, Discovery!DiscoveryAssumption
  <2>4. PageItems * (scan.page - 1) + PageItems = PageItems * scan.page
    BY <2>3
  <2>5. QED
    BY <1>2, <1>3, <2>2, <2>4
<1>8. FullPages' /\ OnlyLastEnds'
  BY <1>3 DEF FullPages, OnlyLastEnds, Discovery!At
<1>9. SeenListed'
  BY <1>0, <1>2, <1>3 DEF ScanInv, SeenListed, Discovery!At
<1>10. WinnerInv'
  <2>1. /\ scan.winner \in Discovery!Eligible(scan.seen) \cup {Discovery!NoRelease}
        /\ \A r \in Discovery!Eligible(scan.seen) : r <= scan.winner
    BY <1>0 DEF ScanInv, WinnerInv, Discovery!At
  <2>2. QED
    BY <1>3, <1>6, <2>1
       DEF WinnerInv, Discovery!Eligible, Discovery!Considered, Discovery!At
<1>11. QED
  BY <1>6, <1>7, <1>8, <1>9, <1>10 DEF ScanInv

LEMMA AdmitStep ==
  ASSUME Discovery!DiscoveryAssumption, ScanInv, NEW r, Discovery!Admit(r)
  PROVE  ScanInv'
<1>0. /\ scan \in Discovery!Scans /\ Discovery!At("items") /\ r \in scan.todo
      /\ r \in Discovery!Considered(scan.seen)
      /\ UNCHANGED <<repo, deleted, listed>> /\ r \in Nat /\ scan.winner \in Nat
  BY DEF ScanInv, ScanType, WinnerInv, Discovery!Admit, Discovery!At, Discovery!Scanning,
         Discovery!DiscoveryAssumption, Discovery!Scans, Discovery!Considered
<1>1. scan' = [scan EXCEPT !.todo = @ \ {r},
                           !.winner = IF r \in Authentic THEN Discovery!Better(r) ELSE @]
  BY DEF Discovery!Admit
<1>2. /\ scan'.at = "items" /\ scan'.todo = scan.todo \ {r} /\ scan'.seen = scan.seen
      /\ scan'.last = scan.last /\ scan'.page = scan.page
      /\ scan'.winner = IF r \in Authentic THEN Discovery!Better(r) ELSE scan.winner
  BY <1>0, <1>1 DEF Discovery!Scans, Discovery!At
<1>3. /\ Discovery!Better(r) \in {r, scan.winner}
      /\ Discovery!Better(r) >= r /\ Discovery!Better(r) >= scan.winner
      /\ Discovery!Better(r) \in Nat
  BY <1>0 DEF Discovery!Better
<1>4. scan' \in Discovery!Scans
  BY <1>0, <1>1, <1>3 DEF Discovery!Scans
<1>5. ScanType' /\ Discovery!Scanning'
  BY <1>0, <1>4 DEF ScanInv, ScanType, Discovery!Scanning, Discovery!DiscoveryAssumption
<1>6. WinnerInv'
  <2>1. scan'.winner \in Discovery!Eligible(scan'.seen) \cup {Discovery!NoRelease}
    BY <1>0, <1>2, <1>3 DEF ScanInv, WinnerInv, Discovery!Eligible, Discovery!At
  <2>2. ASSUME NEW s \in Discovery!Eligible(scan'.seen)
        PROVE  s <= scan'.winner \/ s \in scan'.todo
    <3>1. s \in Discovery!Eligible(scan.seen) /\ s \in Authentic /\ s \in Nat
      BY <1>2 DEF Discovery!Eligible, Discovery!Considered, Discovery!DiscoveryAssumption
    <3>2. s <= scan.winner \/ s \in scan.todo
      BY <1>0, <3>1 DEF ScanInv, WinnerInv, Discovery!At
    <3>3. QED
      BY <1>0, <1>2, <1>3, <3>1, <3>2
  <2>3. QED
    BY <1>0, <1>2, <1>5, <2>1, <2>2 DEF ScanInv, WinnerInv, Discovery!At
<1>7. FullPages' /\ FullPage' /\ OnlyLastEnds'
  BY <1>0, <1>2, <1>5 DEF ScanInv, FullPages, FullPage, OnlyLastEnds, Discovery!At
<1>8. SeenListed'
  BY <1>0, <1>2, <1>5 DEF ScanInv, SeenListed, Discovery!At
<1>9. QED
  BY <1>5, <1>6, <1>7, <1>8 DEF ScanInv

LEMMA PageEndsStep ==
  ASSUME Discovery!DiscoveryAssumption, ScanInv, Discovery!PageEnds
  PROVE  ScanInv'
<1>0. /\ scan \in Discovery!Scans /\ Discovery!At("items") /\ scan.todo = {}
      /\ UNCHANGED <<repo, deleted, listed>>
      /\ NoScan \notin Discovery!Scans
  BY DEF ScanInv, ScanType, Discovery!PageEnds, Discovery!At, Discovery!Scanning,
         Discovery!DiscoveryAssumption
<1>1. CASE scan.last /\ scan' = [scan EXCEPT !.at = "done"]
  <2>1. /\ scan' \in Discovery!Scans /\ scan'.at = "done" /\ scan'.seen = scan.seen /\ scan'.last
        /\ scan'.winner = scan.winner /\ scan'.todo = {}
    BY <1>0, <1>1 DEF Discovery!Scans
  <2>2. QED
    BY <1>0, <1>1, <2>1
       DEF ScanInv, ScanType, FullPages, FullPage, OnlyLastEnds, SeenListed, WinnerInv,
           Discovery!At, Discovery!Scanning
<1>2. CASE /\ ~scan.last /\ scan.page < MaxPages
            /\ scan' = [scan EXCEPT !.at = "fetch", !.page = @ + 1]
  <2>0. scan.page \in Nat /\ scan.page + 1 \in 1..MaxPages
    BY <1>0, <1>2 DEF Discovery!Scans, Discovery!DiscoveryAssumption
  <2>1. /\ scan' \in Discovery!Scans /\ scan'.at = "fetch" /\ scan'.seen = scan.seen
        /\ scan'.page = scan.page + 1
        /\ scan'.winner = scan.winner /\ scan'.todo = {}
    BY <1>0, <1>2, <2>0 DEF Discovery!Scans
  <2>2. FullPages'
    BY <1>0, <1>2, <2>0, <2>1 DEF ScanInv, FullPage, FullPages
  <2>3. QED
    BY <1>0, <1>2, <2>1, <2>2
       DEF ScanInv, ScanType, FullPage, OnlyLastEnds, SeenListed, WinnerInv, Discovery!At,
           Discovery!Scanning
<1>3. QED
  BY <1>1, <1>2 DEF Discovery!PageEnds

LEMMA LeaveStep ==
  ASSUME ScanInv, Discovery!Leave
  PROVE  ScanInv'
BY DEF Discovery!Leave, ScanInv, ScanType, FullPages, FullPage, OnlyLastEnds, SeenListed,
       WinnerInv, Discovery!At, Discovery!Scanning

LEMMA RepoStep ==
  ASSUME ScanInv, NEW r \in Releases, Discovery!Published(r) \/ Discovery!Deleted(r)
  PROVE  ScanInv'
<1>1. ScanType' /\ SeenListed'
  BY DEF Discovery!Published, Discovery!Deleted, ScanInv, ScanType, SeenListed,
         Discovery!At, Discovery!Scanning
<1>2. QED
  BY <1>1
     DEF Discovery!Published, Discovery!Deleted, ScanInv, FullPages, FullPage,
         OnlyLastEnds, WinnerInv, Discovery!At, Discovery!Scanning

LEMMA ScanStepKeeps == ASSUME ScanInv, ScanStep PROVE ScanInv'
<1>1. Discovery!DiscoveryAssumption
  BY NetworkAssumption DEF NetworkAssumption
<1>2. CASE UNCHANGED Discovery!vars
  BY <1>2
     DEF Discovery!vars, ScanInv, ScanType, FullPages, FullPage, OnlyLastEnds, SeenListed,
         WinnerInv, Discovery!At, Discovery!Scanning
<1>3. QED
  BY <1>1, <1>2, BeginStep, TakePageStep, AdmitStep, PageEndsStep, LeaveStep, RepoStep
     DEF ScanStep, Discovery!Next

\* A search by itself that ends has found the greatest eligible release of
\* the list, whatever the pages held and however the list grew meanwhile.
THEOREM ScanIsComplete == Discovery!Spec => []Discovery!CompleteScan
<1>1. Discovery!Init => ScanInv
  BY ScanInit, NetworkAssumption DEF NetworkAssumption
<1>2. ScanInv /\ [Discovery!Next]_(Discovery!vars) => ScanInv'
  BY ScanStepKeeps DEF ScanStep
<1>3. ScanInv => Discovery!CompleteScan
  BY DEF ScanInv, OnlyLastEnds, SeenListed, WinnerInv, Discovery!CompleteScan, Discovery!At
<1>4. QED
  BY <1>1, <1>2, <1>3, PTL DEF Discovery!Spec

\* The same of the clients' search, although any of its requests may fail,
\* time out or be cut off.
THEOREM ClientsScanCompletely == Spec => []CompleteScan
BY ScanIsComplete, SearchRefinement, PTL DEF CompleteScan

-----------------------------------------------------------------------------
\* The inductive invariant behind NothingLeft: who may be waiting for a
\* request, whose file it is that is being written, and how much is in it.
Hosts == {"api.github.com", "github.com", AssetHost}
Ats == {"resolve", "connect", "send", "header", "body", "done", "failed"}
Calls == [kind : Kinds, host : Hosts, at : Ats, got : Nat, age : Nat]

Resting == client \in {"none", "staging"} => ~Calling

OwnFile ==
  /\ content \in [Files -> Nat \cup {Absent}]
  /\ writing # Absent => writing \in Files \ Theirs /\ content[writing] # Absent
  /\ client \notin {"fleet", "staging"} => writing = Absent
  /\ \A f \in Files : content[f] # Absent => f \in Theirs \cup orphans \cup {writing}
  /\ \A f \in Theirs : content[f] = Length

Held == IF writing = Absent THEN 0 ELSE content[writing]

Whole ==
  /\ client = "fleet" =>
       /\ call \in Calls /\ call.kind = "fleet"
       /\ call.at # "failed" => Held = call.got
       /\ call.at = "done" => call.got = Length
  /\ client = "staging" => writing # Absent /\ content[writing] = Length

FileInv == Resting /\ OwnFile /\ Whole

LEMMA FileInit == Init => FileInv
  BY NetworkAssumption
     DEF NetworkAssumption, Init, ExchangeInit, FileInv, Resting, OwnFile, Whole, Calling

\* A new candidate has a name of its own, and none of Theirs.
LEMMA NewFile ==
  ASSUME OwnFile, writing = Absent, NEW f \in Files, Free(f), NEW n \in Nat,
         writing' = f, content' = [content EXCEPT ![f] = n], UNCHANGED orphans,
         client' = "fleet"
  PROVE  OwnFile' /\ content'[writing'] = n
  BY NetworkAssumption DEF NetworkAssumption, OwnFile, Free

\* Once the caller has removed it, or failed to, the file is accounted for.
LEMMA Removed ==
  ASSUME OwnFile, Remove PROVE OwnFile'
  BY NetworkAssumption DEF NetworkAssumption, OwnFile, Remove

\* A step that leaves the files alone and does not give them away.
LEMMA OtherClients ==
  ASSUME FileInv, UNCHANGED fleet, client # "fleet",
         client' \in {"none", "discovery", "gist"}, client # "staging",
         client' = "none" => ~Calling'
  PROVE  FileInv'
  BY DEF FileInv, fleet, Resting, OwnFile, Whole, Held

LEMMA RequestCalls ==
  ASSUME NEW kind \in Kinds, Request(kind)
  PROVE  /\ call' \in Calls /\ call'.kind = kind
         /\ call'.at = "resolve" /\ call'.got = 0
  BY DEF Request, Calls, HostOf, Hosts, Ats

\* What the exchange does by itself neither fetches nor finishes a file.
LEMMA ExchangeKeeps ==
  ASSUME Whole, client = "fleet", Exchange \/ Expires \/ ClockAdvances
  PROVE  Whole'
<1>0. Length # 0 /\ Wanted("fleet") = Length /\ UNCHANGED <<client, content, writing>>
  BY NetworkAssumption DEF NetworkAssumption, Wanted, Exchange, Expires, ClockAdvances, fleet
<1>1. CASE Break
  BY <1>0, <1>1 DEF Whole, Held, Break, Calls, Ats
<1>2. CASE ResolveAgain
  BY <1>0, <1>2 DEF Whole, Held, ResolveAgain
<1>3. CASE Resolved \/ Connect \/ Send
  BY <1>0, <1>3 DEF Whole, Held, Resolved, Connect, Send, Calls, Ats, Doing
<1>4. CASE Header
  BY <1>0, <1>4 DEF Whole, Held, Header, Calls, Ats, Doing
<1>5. CASE Redirect
  BY <1>0, <1>5 DEF Whole, Redirect
<1>6. CASE Waits
  BY <1>0, <1>6 DEF Whole, Held, Waits, Calls
<1>7. QED
  BY <1>1, <1>2, <1>3, <1>4, <1>5, <1>6 DEF Exchange, Expires, ClockAdvances, Step, TimedOut

\* A chunk that comes goes into the one file of this call.
LEMMA ReadKeeps == ASSUME FileInv, ReadBody PROVE FileInv'
<1>1. CASE client # "fleet"
  <2>1. UNCHANGED <<client, fleet>> /\ Calling
    BY <1>1 DEF ReadBody, Read, Doing, fleet
  <2>2. QED
    BY <1>1, <2>1 DEF FileInv, Resting, OwnFile, Whole, Held, fleet
<1>2. CASE client = "fleet"
  <2>1. /\ call \in Calls /\ call.kind = "fleet" /\ Held = call.got
        /\ Wanted(call.kind) = Length /\ client' = "fleet" /\ UNCHANGED orphans
        /\ Write /\ OwnFile
    BY <1>2 DEF FileInv, Whole, ReadBody, Read, Doing, Wanted
  <2>2. /\ call' \in Calls /\ call'.kind = "fleet" /\ call'.got = call.got + 1
        /\ call'.at = "done" => call'.got = Length
        /\ call'.at # "failed"
    <3> DEFINE read == [call EXCEPT !.got = call.got + 1]
               next == IF call.got + 1 = Length THEN "done" ELSE "body"
    <3>1. read \in Calls /\ read.kind = "fleet" /\ read.got = call.got + 1
      BY <2>1 DEF Calls
    <3>2. call.at = "body"
      BY <2>1 DEF ReadBody, Read, Doing
    <3>3. call' = [read EXCEPT !.at = next]
      BY <2>1, <3>2, Zenon DEF ReadBody, Read
    <3>4. next \in {"done", "body"} /\ (next = "done" => read.got = Length)
      BY <3>1
    <3> HIDE DEF read, next
    <3>5. QED
      BY <3>1, <3>3, <3>4 DEF Calls, Ats
  <2>3. OwnFile' /\ Held' = call.got + 1
    <3>1. CASE writing = Absent
      <4>1. PICK f \in Files : Free(f) /\ writing' = f /\ content' = [content EXCEPT ![f] = 1]
        BY <2>1, <3>1 DEF Write
      <4>2. OwnFile' /\ content'[writing'] = 1
        BY <2>1, <3>1, <4>1, NewFile
      <4>3. QED
        BY <2>1, <3>1, <4>1, <4>2, NetworkAssumption DEF Held, NetworkAssumption
    <3>2. CASE writing # Absent
      <4>1. content' = [content EXCEPT ![writing] = @ + 1] /\ writing' = writing
        BY <2>1, <3>2 DEF Write
      <4>2. writing \in Files \ Theirs /\ content[writing] \in Nat /\ content[writing] = call.got
        BY <2>1, <3>2 DEF OwnFile, Held
      <4>3. QED
        BY <1>2, <2>1, <3>2, <4>1, <4>2, NetworkAssumption DEF OwnFile, Held, NetworkAssumption
    <3>3. QED
      BY <3>1, <3>2
  <2>4. QED
    BY <2>1, <2>2, <2>3 DEF FileInv, Resting, Whole
<1>3. QED
  BY <1>1, <1>2

LEMMA FileStep == ASSUME FileInv, [Next]_vars PROVE FileInv'
<1>1. CASE UNCHANGED vars
  BY <1>1 DEF FileInv, Resting, OwnFile, Whole, Held, vars, exchange, fleet, Calling
<1>2. CASE Discover \/ UseGist
  <2>1. client = "none" /\ client' \in {"discovery", "gist"} /\ UNCHANGED fleet
    BY <1>2 DEF Discover, UseGist
  <2>2. QED
    BY <2>1, OtherClients
<1>3. CASE DiscoverySteps \/ GistUsed
  <2>1. /\ client \in {"discovery", "gist"} /\ UNCHANGED fleet
        /\ client' \in {"none", "discovery"}
        /\ client' = "none" => Forget
    BY <1>3 DEF DiscoverySteps, GistUsed, RequestPage, PageArrives, RequestManifest,
                RequestSignature, Admit, PageEnds, DiscoveryLeaves, Searching
  <2>2. QED
    BY <2>1, OtherClients DEF Forget, Cleared, Calling
<1>4. CASE FetchFleet
  BY <1>4, RequestCalls
     DEF FetchFleet, fleet, FileInv, Resting, OwnFile, Whole, Held, Kinds
<1>5. CASE ReadBody
  BY <1>5, ReadKeeps
<1>6. CASE WriteFails
  <2>1. PICK f \in Files : Free(f) /\ writing' = f /\ content' = [content EXCEPT ![f] = 0]
    BY <1>6 DEF WriteFails
  <2>2. /\ writing = Absent /\ client = "fleet" /\ client' = "fleet" /\ UNCHANGED orphans
        /\ call' \in Calls /\ call'.kind = "fleet" /\ call'.at = "failed"
    BY <1>6 DEF WriteFails, Break, FileInv, Whole, Calls, Ats
  <2>3. OwnFile'
    BY <2>1, <2>2, NewFile DEF FileInv
  <2>4. QED
    BY <2>2, <2>3 DEF FileInv, Resting, Whole
<1>7. CASE FleetReturns
  BY <1>7, NetworkAssumption
     DEF FleetReturns, Forget, Cleared, Calling, Doing, fleet, FileInv, Resting, OwnFile, Whole, Held,
         NetworkAssumption
<1>8. CASE FleetFails \/ Staged
  <2>1. Remove /\ client' = "none" /\ ~Calling'
    BY <1>8 DEF FleetFails, Staged, Forget, Cleared, Calling, exchange, FileInv, Resting
  <2>2. QED
    BY <2>1, Removed DEF FileInv, Resting, Whole
<1>9. CASE Exchange \/ Expires \/ ClockAdvances
  <2>1. UNCHANGED <<client, fleet>>
    BY <1>9 DEF Exchange, Expires, ClockAdvances
  <2>2. CASE client = "fleet"
    BY <1>9, <2>1, <2>2, ExchangeKeeps DEF FileInv, Resting, OwnFile, fleet
  <2>3. CASE client \in {"none", "staging"}
    <3>1. UNCHANGED call
      BY <1>9, <2>3
         DEF Exchange, Expires, ClockAdvances, FileInv, Resting, Step, Break, TimedOut, Waits,
             ResolveAgain, Resolved, Connect, Send, Header, Redirect, Doing, Underway, Calling,
             Searching
    <3>2. QED
      BY <2>1, <2>3, <3>1 DEF FileInv, Resting, OwnFile, Whole, Held, fleet, Calling
  <2>4. CASE client \notin {"fleet", "none", "staging"}
    BY <2>1, <2>4 DEF FileInv, Resting, OwnFile, Whole, fleet
  <2>5. QED
    BY <2>2, <2>3, <2>4
<1>10. CASE RepoChanges
  BY <1>10 DEF RepoChanges, FileInv, Resting, OwnFile, Whole, Held, exchange, fleet, Calling
<1>11. CASE PowerCut
  <2>1. /\ client' = "none" /\ ~Calling' /\ UNCHANGED content
        /\ writing' = Absent /\ orphans' = orphans \cup ({writing} \ {Absent})
    BY <1>11 DEF PowerCut, Cleared, Calling
  <2>2. \A f \in Files : f # Absent
    BY NetworkAssumption DEF NetworkAssumption
  <2>3. OwnFile'
    BY <2>1, <2>2 DEF FileInv, OwnFile
  <2>4. QED
    BY <2>1, <2>3 DEF FileInv, Resting, Whole
<1>12. QED
  BY <1>1, <1>2, <1>3, <1>4, <1>5, <1>6, <1>7, <1>8, <1>9, <1>10, <1>11
     DEF Next, FleetSteps

-----------------------------------------------------------------------------
\* A set of numbers has a least one, which is what the inductions need.
LEMMA Least ==
  ASSUME NEW T \in SUBSET Nat, T # {}
  PROVE  \E m \in T : \A n \in T : m <= n
<1> DEFINE R == OpToRel(<, Nat)
<1>1. IsWellFoundedOn(R, Nat)
  BY NatLessThanWellFounded
<1>2. \A x, y \in Nat : <<y, x>> \in R <=> y < x
  BY DEF OpToRel
<1> HIDE DEF R
<1>3. PICK m \in T : \A y \in T : ~(<<y, m>> \in R)
  BY <1>1, WFMin
<1>4. ASSUME NEW n \in T PROVE m <= n
  <2>1. ~(n < m)
    BY <1>2, <1>3
  <2>2. QED
    BY <2>1
<1>5. QED
  BY <1>4

\* What no number is the first not to have, all have.
LEMMA NoFirst ==
  ASSUME NEW S \in SUBSET Nat, 0 \in S,
         NEW m \in Nat, \A k \in 1..m : k - 1 \in S => k \in S
  PROVE  0..m \subseteq S
<1> DEFINE T == {k \in 0..m : k \notin S}
<1>1. SUFFICES ASSUME T # {} PROVE FALSE
  OBVIOUS
<1>2. T \in SUBSET Nat
  OBVIOUS
<1>3. PICK k \in T : \A n \in T : k <= n
  BY <1>1, <1>2, Least
<1>4. k \in 1..m /\ k \notin S /\ k - 1 \notin T
  BY <1>3
<1>5. QED
  BY <1>4

-----------------------------------------------------------------------------
\* k hops along the chain of aliases.
LEMMA Paths ==
  ASSUME NEW name \in Names, NEW m \in Nat
  PROVE  \E p \in [0..m -> Names] :
           p[0] = name /\ \A j \in 1..m : p[j] = Hop(p[j - 1])
<1> DEFINE Path(k, p) == p[0] = name /\ \A j \in 1..k : p[j] = Hop(p[j - 1])
           S == {k \in Nat : \E p \in [0..k -> Names] : Path(k, p)}
<1>1. 0 \in S
  <2>1. [j \in 0..0 |-> name] \in [0..0 -> Names] /\ Path(0, [j \in 0..0 |-> name])
    OBVIOUS
  <2>2. QED
    BY <2>1
<1>2. ASSUME NEW k \in 1..m, k - 1 \in S PROVE k \in S
  <2>1. PICK p \in [0..(k - 1) -> Names] : Path(k - 1, p)
    BY <1>2
  <2> DEFINE q == [j \in 0..k |-> IF j = k THEN Hop(p[k - 1]) ELSE p[j]]
  <2>2. p[k - 1] \in Names /\ Hop(p[k - 1]) \in Names
    BY DEF Hop
  <2>3. q \in [0..k -> Names]
    BY <2>2
  <2>4. ASSUME NEW j \in 1..k PROVE q[j] = Hop(q[j - 1])
    <3>1. CASE j = k
      BY <3>1
    <3>2. CASE j # k
      <4>1. j \in 1..(k - 1) /\ q[j] = p[j] /\ q[j - 1] = p[j - 1]
        BY <3>2
      <4>2. QED
        BY <2>1, <4>1
    <3>3. QED
      BY <3>1, <3>2
  <2>5. q[0] = name
    BY <2>1
  <2>6. Path(k, q)
    BY <2>4, <2>5
  <2> HIDE DEF q
  <2>7. QED
    BY <2>3, <2>6
<1>3. 0..m \subseteq S
  <2> HIDE DEF S
  <2>1. S \in SUBSET Nat
    BY DEF S
  <2>2. QED
    BY <1>1, <1>2, <2>1, NoFirst
<1>4. QED
  BY <1>3

\* The recursion of After has a solution, so that After is one.
LEMMA AfterHops ==
  ASSUME NEW name \in Names
  PROVE  /\ After[0][name] = name
         /\ \A k \in 1..MaxHops : After[k][name] = Hop(After[k - 1][name])
<1>0. MaxHops \in Nat
  BY NetworkAssumption DEF NetworkAssumption
<1> DEFINE Path(n, p) == p[0] = n /\ \A j \in 1..MaxHops : p[j] = Hop(p[j - 1])
           P == [n \in Names |-> CHOOSE p \in [0..MaxHops -> Names] : Path(n, p)]
           F == [k \in 0..MaxHops |-> [n \in Names |-> P[n][k]]]
           Rec(f) == [k \in 0..MaxHops |->
                        [n \in Names |-> IF k = 0 THEN n ELSE Hop(f[k - 1][n])]]
<1>1. \A n \in Names : P[n] \in [0..MaxHops -> Names] /\ Path(n, P[n])
  BY <1>0, Paths
<1> HIDE DEF P
<1>2. F = Rec(F)
  <2>1. ASSUME NEW k \in 0..MaxHops, NEW n \in Names
        PROVE  P[n][k] = IF k = 0 THEN n ELSE Hop(F[k - 1][n])
    <3>1. CASE k = 0
      BY <1>1, <3>1
    <3>2. CASE k # 0
      <4>1. k \in 1..MaxHops /\ k - 1 \in 0..MaxHops
        BY <1>0, <3>2
      <4>2. P[n][k] = Hop(P[n][k - 1])
        BY <1>1, <4>1
      <4>3. F[k - 1][n] = P[n][k - 1]
        BY <4>1
      <4>4. QED
        BY <3>2, <4>2, <4>3
    <3>3. QED
      BY <3>1, <3>2
  <2> HIDE DEF F
  <2>2. \A k \in 0..MaxHops :
          [n \in Names |-> P[n][k]] = [n \in Names |-> IF k = 0 THEN n ELSE Hop(F[k - 1][n])]
    BY <2>1
  <2>3. QED
    BY <2>2 DEF F
<1>3. After = Rec(After)
  <2> HIDE DEF F
  <2>1. \E f : f = Rec(f)
    BY <1>2
  <2>2. QED
    BY <2>1 DEF After
<1>4. ASSUME NEW k \in 0..MaxHops
      PROVE  After[k][name] = IF k = 0 THEN name ELSE Hop(After[k - 1][name])
  <2>1. \A f : Rec(f)[k][name] = IF k = 0 THEN name ELSE Hop(f[k - 1][name])
    OBVIOUS
  <2> HIDE DEF Rec
  <2>2. QED
    BY <1>3, <2>1
<1>5. QED
  BY <1>0, <1>4

LEMMA AfterType == ASSUME NEW name \in Names, NEW m \in 0..MaxHops PROVE After[m][name] \in Names
<1> DEFINE S == {k \in 0..MaxHops : After[k][name] \in Names}
<1>0. MaxHops \in Nat
  BY NetworkAssumption DEF NetworkAssumption
<1>1. 0 \in S
  BY <1>0, AfterHops
<1>2. ASSUME NEW k \in 1..MaxHops, k - 1 \in S PROVE k \in S
  BY <1>0, <1>2, AfterHops DEF Hop
<1>3. S \in SUBSET Nat
  BY <1>0
<1> HIDE DEF S
<1>4. 0..MaxHops \subseteq S
  BY <1>0, <1>1, <1>2, <1>3, NoFirst
<1>5. QED
  BY <1>4 DEF S

\* The hops of two answers add up.
LEMMA AfterAdds ==
  ASSUME NEW name \in Names, NEW h \in 0..MaxHops, NEW m \in 0..(MaxHops - h)
  PROVE  After[m][After[h][name]] = After[h + m][name]
<1> DEFINE far == After[h][name]
           S == {k \in 0..(MaxHops - h) : After[k][far] = After[h + k][name]}
<1>0. MaxHops \in Nat /\ far \in Names
  BY AfterType, NetworkAssumption DEF NetworkAssumption
<1> HIDE DEF far
<1>1. 0 \in S
  <2>1. After[0][far] = far /\ far = After[h + 0][name]
    BY <1>0, AfterHops DEF far
  <2>2. QED
    BY <1>0, <2>1
<1>2. ASSUME NEW k \in 1..(MaxHops - h), k - 1 \in S PROVE k \in S
  <2>1. k \in 1..MaxHops /\ h + k \in 1..MaxHops /\ h + (k - 1) = (h + k) - 1
    BY <1>0
  <2>2. After[k][far] = Hop(After[k - 1][far])
    BY <1>0, <2>1, AfterHops
  <2>3. After[h + k][name] = Hop(After[(h + k) - 1][name])
    BY <2>1, AfterHops
  <2>4. After[k - 1][far] = After[h + (k - 1)][name]
    BY <1>2
  <2>5. QED
    BY <2>1, <2>2, <2>3, <2>4
<1>3. S \in SUBSET Nat /\ MaxHops - h \in Nat
  BY <1>0
<1> HIDE DEF S
<1>4. 0..(MaxHops - h) \subseteq S
  BY <1>1, <1>2, <1>3, NoFirst
<1>5. QED
  BY <1>4 DEF S, far

\* A name that is not an alias is where the chain stays.
LEMMA AfterStays ==
  ASSUME NEW name \in Names, NEW h \in 0..MaxHops, Final(After[h][name]),
         NEW m \in 0..(MaxHops - h)
  PROVE  After[h + m][name] = After[h][name]
<1> DEFINE S == {k \in 0..(MaxHops - h) : After[h + k][name] = After[h][name]}
<1>0. MaxHops \in Nat
  BY NetworkAssumption DEF NetworkAssumption
<1>1. 0 \in S
  BY <1>0
<1>2. ASSUME NEW k \in 1..(MaxHops - h), k - 1 \in S PROVE k \in S
  <2>1. h + k \in 1..MaxHops /\ h + (k - 1) = (h + k) - 1
    BY <1>0
  <2>2. After[h + k][name] = Hop(After[(h + k) - 1][name])
    BY <2>1, AfterHops
  <2>3. After[(h + k) - 1][name] = After[h][name]
    BY <1>2, <2>1
  <2>4. After[h + k][name] = After[h][name]
    BY <2>2, <2>3 DEF Hop, Final
  <2>5. QED
    BY <2>4
<1>3. S \in SUBSET Nat /\ MaxHops - h \in Nat
  BY <1>0
<1> HIDE DEF S
<1>4. 0..(MaxHops - h) \subseteq S
  BY <1>1, <1>2, <1>3, NoFirst
<1>5. QED
  BY <1>4 DEF S

\* So the address of a name is the one at the end of its chain.
LEMMA AddressAtEnd ==
  ASSUME NEW name \in Names, NEW h \in 0..MaxHops, Final(After[h][name])
  PROVE  AddressOf(name) = Zone[After[h][name]]
<1> DEFINE end == After[h][name]
           Ends(a) == \E k \in 0..MaxHops : Zone[After[k][name]] = a
<1>0. MaxHops \in Nat
  BY NetworkAssumption DEF NetworkAssumption
<1>1. Zone[end] \in {Zone[n] : n \in Names} \ Names /\ Ends(Zone[end])
  BY AfterType DEF Final
<1>2. ASSUME NEW k \in 0..MaxHops, Zone[After[k][name]] \notin Names
      PROVE  Zone[After[k][name]] = Zone[end]
  <2>1. CASE k >= h
    <3>1. k - h \in 0..(MaxHops - h) /\ h + (k - h) = k
      BY <1>0, <2>1
    <3>2. After[h + (k - h)][name] = After[h][name]
      BY <3>1, AfterStays
    <3>3. QED
      BY <3>1, <3>2
  <2>2. CASE k < h
    <3>1. h - k \in 0..(MaxHops - k) /\ k + (h - k) = h
      BY <1>0, <2>2
    <3>2. Final(After[k][name])
      BY <1>2 DEF Final
    <3>3. After[k + (h - k)][name] = After[k][name]
      BY <3>1, <3>2, AfterStays
    <3>4. QED
      BY <3>1, <3>3
  <2>3. QED
    BY <1>0, <2>1, <2>2
<1>3. \A a \in {Zone[n] : n \in Names} \ Names : Ends(a) => a = Zone[end]
  BY <1>2
<1> HIDE DEF end
<1>4. QED
  BY <1>1, <1>3 DEF AddressOf, end

-----------------------------------------------------------------------------
\* The inductive invariant behind WholeAndInTime: the question at hand is
\* about a name to which the host's chain leads; the peer is the host's; and
\* until its deadline a request is as old as the time spent on it.
Asked ==
  Doing("resolve") /\ query # NoQuery =>
    query.hops \in 0..MaxHops /\ query.target = After[query.hops][call.host]

RightPeer ==
  Calling /\ call.at \in {"connect", "send", "header", "body", "done"} =>
    peer = AddressOf(call.host)

Unread == Calling /\ call.at \in {"resolve", "connect", "send", "header"} => call.got = 0

OneDeadline == Underway /\ Remaining => spent = call.age

CallInv ==
  /\ call \in Calls \cup {NoCall} /\ spent \in Nat
  /\ Asked /\ RightPeer /\ Unread /\ OneDeadline

LEMMA HostNames == Hosts \subseteq Names /\ MaxHops \in Nat /\ RequestMs \in Nat
<1>1. HostOf("asset") = "github.com" /\ HostOf("page") = "api.github.com"
  BY DEF HostOf
<1>2. {HostOf("asset"), HostOf("page"), AssetHost} \subseteq Names
  BY NetworkAssumption DEF NetworkAssumption, Kinds
<1>3. QED
  BY <1>1, <1>2, NetworkAssumption DEF NetworkAssumption, Hosts

\* A resolution for a host starts its chain.
LEMMA ResolveAsks ==
  ASSUME NEW host \in Hosts, Resolve(host)
  PROVE  query'.hops \in 0..MaxHops /\ query'.target = After[query'.hops][host]
BY HostNames, AfterHops DEF Resolve

LEMMA CallInit == Init => CallInv
BY DEF Init, ExchangeInit, CallInv, Asked, RightPeer, Unread, OneDeadline, Doing, Underway,
       Calling

LEMMA RequestInv == ASSUME NEW kind \in Kinds, Request(kind) PROVE CallInv'
<1>1. /\ call' \in Calls /\ call'.at = "resolve" /\ call'.got = 0 /\ call'.age = 0
      /\ call'.host = HostOf(kind) /\ spent' = 0
  BY RequestCalls DEF Request
<1>2. HostOf(kind) \in Hosts /\ Resolve(HostOf(kind))
  BY DEF Request, HostOf, Hosts
<1>3. Asked'
  BY <1>1, <1>2, ResolveAsks DEF Asked
<1>4. QED
  BY <1>1, <1>3 DEF CallInv, RightPeer, Unread, OneDeadline

LEMMA ClearedInv == ASSUME Cleared PROVE CallInv'
BY DEF Cleared, CallInv, Asked, RightPeer, Unread, OneDeadline, Doing, Underway, Calling

LEMMA AskInv == ASSUME CallInv, ResolveAgain PROVE CallInv'
<1>1. /\ Calling /\ call \in Calls /\ call.at = "resolve" /\ query # NoQuery
      /\ UNCHANGED <<call, peer, spent>>
  BY DEF CallInv, ResolveAgain, Doing, Calling, AskAgain
<1>2. query.hops \in 0..MaxHops /\ query.target = After[query.hops][call.host]
  BY <1>1 DEF CallInv, Asked, Doing
<1>3. call.host \in Names /\ MaxHops \in Nat
  BY <1>1, HostNames DEF Calls
<1>4. PICK k \in 1..MaxHops :
        /\ query.hops + k <= MaxHops
        /\ query'.target = After[k][query.target] /\ query'.hops = query.hops + k
  BY DEF ResolveAgain, AskAgain, Allowed
<1>5. k \in 0..(MaxHops - query.hops) /\ query'.hops \in 0..MaxHops
  BY <1>2, <1>3, <1>4
<1>6. After[k][query.target] = After[query.hops + k][call.host]
  BY <1>2, <1>3, <1>5, AfterAdds
<1>7. Asked'
  BY <1>1, <1>4, <1>5, <1>6 DEF Asked
<1>8. QED
  BY <1>1, <1>7 DEF CallInv, RightPeer, Unread, OneDeadline, Underway, Remaining, Calling

\* The answer that is taken ends the host's own chain.
LEMMA ResolvedInv == ASSUME CallInv, Resolved PROVE CallInv'
<1>1. /\ Calling /\ call \in Calls /\ call.at = "resolve" /\ Remaining
      /\ call' = [call EXCEPT !.at = "connect"] /\ UNCHANGED spent
  BY DEF CallInv, Resolved, Doing, Calling
<1>2. PICK address \in {Zone[n] : n \in Names} \ Names :
        Answered(address) /\ peer' = address
  BY DEF Resolved
<1>3. PICK k \in 0..MaxHops :
        /\ query # NoQuery /\ query.hops + k <= MaxHops
        /\ Final(After[k][query.target]) /\ address = Zone[After[k][query.target]]
  BY <1>2 DEF Answered, Answers, Allowed
<1>4. query.hops \in 0..MaxHops /\ query.target = After[query.hops][call.host]
  BY <1>1, <1>3 DEF CallInv, Asked, Doing
<1>5. call.host \in Names /\ MaxHops \in Nat
  BY <1>1, HostNames DEF Calls
<1>6. k \in 0..(MaxHops - query.hops) /\ query.hops + k \in 0..MaxHops
  BY <1>3, <1>4, <1>5
<1>7. After[k][query.target] = After[query.hops + k][call.host]
  BY <1>4, <1>5, <1>6, AfterAdds
<1>8. peer' = AddressOf(call.host)
  BY <1>2, <1>3, <1>5, <1>6, <1>7, AddressAtEnd
<1>9. /\ call' \in Calls /\ call'.at = "connect" /\ call'.host = call.host
      /\ call'.got = call.got /\ call'.age = call.age
  BY <1>1 DEF Calls, Ats
<1>10. call.got = 0 /\ spent = call.age /\ spent \in Nat
  BY <1>1 DEF CallInv, Unread, OneDeadline, Underway
<1>11. Asked' /\ RightPeer' /\ Unread' /\ OneDeadline'
  BY <1>1, <1>8, <1>9, <1>10 DEF Asked, RightPeer, Unread, OneDeadline, Doing
<1>12. QED
  BY <1>1, <1>9, <1>10, <1>11 DEF CallInv

\* The steps that only go on with the answer of the peer.
LEMMA GoesOnInv ==
  ASSUME CallInv, Calling, Remaining, call.at \in {"connect", "send", "header", "body"},
         call' \in Calls, call'.host = call.host, call'.age = call.age,
         call'.at \in {"send", "header", "body", "done"},
         call'.at \in {"send", "header"} => call'.got = call.got /\ call.at # "body",
         UNCHANGED <<peer, spent>>
  PROVE  CallInv'
<1>1. peer = AddressOf(call.host) /\ spent = call.age /\ spent \in Nat
      /\ (call.at # "body" => call.got = 0)
  BY DEF CallInv, RightPeer, Unread, OneDeadline, Underway
<1>2. Asked' /\ RightPeer' /\ Unread' /\ OneDeadline'
  BY <1>1 DEF Asked, RightPeer, Unread, OneDeadline, Doing
<1>3. QED
  BY <1>1, <1>2 DEF CallInv

LEMMA ConnectInv == ASSUME CallInv, Connect \/ Send PROVE CallInv'
<1>1. /\ Calling /\ call \in Calls /\ Remaining /\ call.at \in {"connect", "send"}
      /\ call' = [call EXCEPT !.at = IF call.at = "connect" THEN "send" ELSE "header"]
      /\ UNCHANGED <<peer, spent>>
  BY DEF CallInv, Connect, Send, Doing, Calling
<1>2. /\ call' \in Calls /\ call'.host = call.host /\ call'.age = call.age
      /\ call'.got = call.got /\ call'.at \in {"send", "header"}
  BY <1>1 DEF Calls, Ats
<1>3. QED
  BY <1>1, <1>2, GoesOnInv

LEMMA HeaderInv == ASSUME CallInv, Header PROVE CallInv'
<1> DEFINE next == IF Wanted(call.kind) = 0 THEN "done" ELSE "body"
<1>1. /\ Calling /\ call \in Calls /\ Remaining /\ call.at = "header"
      /\ call' = [call EXCEPT !.at = next] /\ UNCHANGED <<peer, spent>>
  BY DEF CallInv, Header, Doing, Calling
<1>2. next \in {"done", "body"}
  OBVIOUS
<1> HIDE DEF next
<1>3. /\ call' \in Calls /\ call'.host = call.host /\ call'.age = call.age
      /\ call'.at \in {"body", "done"}
  BY <1>1, <1>2 DEF Calls, Ats
<1>4. QED
  BY <1>1, <1>3, GoesOnInv

LEMMA ReadInv == ASSUME CallInv, Read PROVE CallInv'
<1> DEFINE read == [call EXCEPT !.got = call.got + 1]
           next == IF call.got + 1 = Wanted(call.kind) THEN "done" ELSE "body"
<1>1. /\ Calling /\ call \in Calls /\ Remaining /\ call.at = "body"
      /\ UNCHANGED <<peer, spent>>
  BY DEF CallInv, Read, Doing, Calling
<1>2. read \in Calls /\ read.host = call.host /\ read.age = call.age
  BY <1>1 DEF Calls
<1>3. call' = [read EXCEPT !.at = next]
  BY <1>1, Zenon DEF Read
<1>4. next \in {"done", "body"}
  OBVIOUS
<1> HIDE DEF read, next
<1>5. /\ call' \in Calls /\ call'.host = call.host /\ call'.age = call.age
      /\ call'.at \in {"body", "done"}
  BY <1>2, <1>3, <1>4 DEF Calls, Ats
<1>6. QED
  BY <1>1, <1>5, GoesOnInv

LEMMA RedirectInv == ASSUME CallInv, Redirect PROVE CallInv'
<1>1. /\ Calling /\ call \in Calls /\ Remaining /\ call.at = "header"
      /\ call' = [call EXCEPT !.host = AssetHost, !.at = "resolve"]
      /\ Resolve(AssetHost) /\ UNCHANGED <<peer, spent>>
  BY DEF CallInv, Redirect, Doing, Calling
<1>2. call.got = 0 /\ spent = call.age /\ spent \in Nat
  BY <1>1 DEF CallInv, Unread, OneDeadline, Underway
<1>3. /\ call' \in Calls /\ call'.host = AssetHost /\ call'.at = "resolve"
      /\ call'.got = call.got /\ call'.age = call.age
  BY <1>1 DEF Calls, Ats, Hosts
<1>4. Asked'
  BY <1>1, <1>3, ResolveAsks DEF Asked, Hosts
<1>5. RightPeer' /\ Unread' /\ OneDeadline'
  BY <1>1, <1>2, <1>3 DEF RightPeer, Unread, OneDeadline
<1>6. QED
  BY <1>1, <1>2, <1>3, <1>4, <1>5 DEF CallInv

LEMMA BreakInv == ASSUME CallInv, Break PROVE CallInv'
<1>1. call \in Calls /\ call' = [call EXCEPT !.at = "failed"] /\ UNCHANGED spent
  BY DEF CallInv, Break, Underway, Calling
<1>2. call' \in Calls /\ call'.at = "failed" /\ spent' \in Nat
  BY <1>1 DEF Calls, Ats, CallInv
<1>3. QED
  BY <1>2 DEF CallInv, Asked, RightPeer, Unread, OneDeadline, Doing, Underway

LEMMA WaitsInv == ASSUME CallInv, Waits PROVE CallInv'
<1>1. UNCHANGED <<query, peer>> /\ spent \in Nat /\ RequestMs \in Nat
  BY HostNames DEF Waits, CallInv
<1>2. CASE ~(Underway /\ Remaining)
  <2>1. call' = call /\ spent' \in Nat
    BY <1>1, <1>2 DEF Waits
  <2>2. QED
    BY <1>1, <1>2, <2>1
       DEF CallInv, Asked, RightPeer, Unread, OneDeadline, Doing, Underway, Calling, Remaining
<1>3. CASE Underway /\ Remaining
  <2>1. call \in Calls /\ Calling /\ spent = call.age
    BY <1>3 DEF CallInv, OneDeadline, Underway, Calling
  <2>2. call' = [call EXCEPT !.age = @ + 1] /\ spent' = spent + 1
    BY <1>1, <1>3, <2>1 DEF Waits, Remaining, Calls
  <2>3. /\ call' \in Calls /\ call'.age = call.age + 1 /\ call'.at = call.at
        /\ call'.host = call.host /\ call'.got = call.got
    BY <2>1, <2>2 DEF Calls
  <2>4. Asked' /\ RightPeer' /\ Unread' /\ OneDeadline'
    BY <1>1, <2>1, <2>2, <2>3
       DEF CallInv, Asked, RightPeer, Unread, OneDeadline, Doing, Calling
  <2>5. QED
    BY <1>1, <2>2, <2>3, <2>4 DEF CallInv
<1>4. QED
  BY <1>2, <1>3

\* What the clients do to a request is one of these.
LEMMA Exchanges ==
  ASSUME [Next]_vars
  PROVE  \/ UNCHANGED exchange
         \/ \E kind \in Kinds : Request(kind)
         \/ Cleared /\ ((~Underway /\ UNCHANGED sockets) \/ sockets' = {})
         \/ Step \/ Break \/ Read \/ Waits
<1>1. CASE DiscoverySteps
  BY <1>1 DEF DiscoverySteps, RequestPage, PageArrives, RequestManifest, RequestSignature, Admit,
              PageEnds, DiscoveryLeaves, Kinds, Forget, Doing, Underway
<1>2. CASE FetchFleet \/ ReadBody \/ WriteFails \/ FleetSteps
  BY <1>2 DEF FetchFleet, ReadBody, WriteFails, FleetSteps, FleetReturns, FleetFails, Staged, Kinds,
              Forget, Doing, Underway
<1>3. CASE Discover \/ UseGist \/ GistUsed
  BY <1>3 DEF Discover, UseGist, GistUsed, Kinds, Forget
<1>4. CASE Exchange \/ Expires \/ ClockAdvances
  BY <1>4 DEF Exchange, Expires, ClockAdvances, TimedOut
<1>5. CASE RepoChanges \/ PowerCut \/ UNCHANGED vars
  BY <1>5 DEF RepoChanges, PowerCut, vars
<1>6. QED
  BY <1>1, <1>2, <1>3, <1>4, <1>5 DEF Next

LEMMA CallStep == ASSUME CallInv, [Next]_vars PROVE CallInv'
<1>1. CASE UNCHANGED exchange
  BY <1>1 DEF exchange, CallInv, Asked, RightPeer, Unread, OneDeadline, Doing, Underway, Calling,
              Remaining
<1>2. QED
  BY <1>1, Exchanges, RequestInv, ClearedInv, AskInv, ResolvedInv, ConnectInv, HeaderInv, ReadInv,
     RedirectInv, BreakInv, WaitsInv DEF Step

LEMMA CallIsSome == \A c \in Calls : c # NoCall
<1>1. Hosts \subseteq Names
  BY NetworkAssumption DEF NetworkAssumption, Hosts, HostOf, Kinds
<1>2. ASSUME NEW c \in Calls
      PROVE  c \in [kind : Kinds, host : Names, got : Nat, age : Nat, at : Ats]
  BY <1>1 DEF Calls
<1>3. QED
  BY <1>2, NetworkAssumption DEF NetworkAssumption, Ats

\* A request that is over has closed its sockets, also before it is forgotten.
Closed == ~Underway => sockets = {}

LEMMA ClosedStep == ASSUME CallInv, Closed, [Next]_vars PROVE Closed'
<1>1. call \in Calls \/ call = NoCall
  BY DEF CallInv
<1>2. CASE \/ UNCHANGED exchange
           \/ Cleared /\ ((~Underway /\ UNCHANGED sockets) \/ sockets' = {})
  BY <1>2 DEF exchange, Cleared, Closed, Underway, Calling
<1>3. ASSUME NEW kind \in Kinds, Request(kind) PROVE Closed'
  BY <1>3, RequestCalls, CallIsSome DEF Closed, Underway, Calling
<1>4. CASE Break \/ ResolveAgain \/ Resolved
  BY <1>4 DEF Break, ResolveAgain, Resolved, Closed, Underway, Calling
<1>5. CASE Connect \/ Send
  <2>1. PICK at \in {"send", "header"} : call' = [call EXCEPT !.at = at]
    BY <1>5 DEF Connect, Send
  <2>2. call \in Calls
    BY <1>1, <1>5 DEF Connect, Send, Doing, Calling
  <2>3. call' \in Calls /\ call'.at \in {"send", "header"}
    BY <2>1, <2>2 DEF Calls, Ats
  <2>4. QED
    BY <2>3, CallIsSome DEF Closed, Underway, Calling
<1>6. CASE Header
  <2>1. CASE Wanted(call.kind) = 0
    BY <1>6, <2>1 DEF Header, Closed
  <2>2. CASE Wanted(call.kind) # 0
    <3>1. call \in Calls /\ call' = [call EXCEPT !.at = "body"]
      BY <1>1, <1>6, <2>2 DEF Header, Doing, Calling
    <3>2. call' \in Calls /\ call'.at = "body"
      BY <3>1 DEF Calls, Ats
    <3>3. QED
      BY <3>2, CallIsSome DEF Closed, Underway, Calling
  <2>3. QED
    BY <2>1, <2>2
<1>7. CASE Redirect
  <2>1. call \in Calls /\ call' = [call EXCEPT !.host = AssetHost, !.at = "resolve"]
    BY <1>1, <1>7 DEF Redirect, Doing, Calling
  <2>2. call' \in Calls /\ call'.at = "resolve"
    BY <2>1 DEF Calls, Ats, Hosts
  <2>3. QED
    BY <2>2, CallIsSome DEF Closed, Underway, Calling
<1>8. CASE Read
  <2>1. CASE call.got + 1 = Wanted(call.kind)
    BY <1>8, <2>1 DEF Read, Closed
  <2>2. CASE call.got + 1 # Wanted(call.kind)
    <3>1. call \in Calls /\ call.at = "body" /\ call' = [call EXCEPT !.got = call.got + 1]
      <4>1. call \in Calls /\ call.at = "body"
        BY <1>1, <1>8 DEF Read, Doing, Calling
      <4>2. call' = [call EXCEPT !.got = call.got + 1, !.at = call.at]
        BY <1>8, <2>2 DEF Read
      <4>3. QED
        BY <4>1, <4>2 DEF Calls
    <3>2. call' \in Calls /\ call'.at = "body"
      BY <3>1 DEF Calls
    <3>3. QED
      BY <3>2, CallIsSome DEF Closed, Underway, Calling
  <2>3. QED
    BY <2>1, <2>2
<1>9. CASE Waits
  <2>1. sockets' = sockets
    BY <1>9 DEF Waits
  <2>2. CASE Underway /\ Remaining
    <3>1. call \in Calls /\ call' = [call EXCEPT !.age = call.age + 1]
      BY <1>1, <1>9, <2>2 DEF Waits, Underway, Calling
    <3>2. call' \in Calls /\ call'.at = call.at
      BY <3>1 DEF Calls
    <3>3. QED
      BY <2>2, <3>2, CallIsSome DEF Closed, Underway, Calling
  <2>3. CASE ~(Underway /\ Remaining)
    BY <1>9, <2>1, <2>3 DEF Waits, Closed, Underway, Calling
  <2>4. QED
    BY <2>2, <2>3
<1>10. QED
  BY <1>2, <1>3, <1>4, <1>5, <1>6, <1>7, <1>8, <1>9, Exchanges DEF Step

\* For any number of files and any length of a body, no call leaves a socket
\* or an unaccounted file behind, and no other file is ever touched.
THEOREM NothingIsLeft == Spec => []NothingLeft
<1>1. FileInv /\ Closed => NothingLeft
  BY NetworkAssumption
     DEF NetworkAssumption, FileInv, Resting, OwnFile, Whole, Closed, Underway, NothingLeft
<1>2. Init => FileInv /\ CallInv /\ Closed
  BY FileInit, CallInit DEF Init, ExchangeInit, Closed
<1>3. FileInv /\ CallInv /\ Closed /\ [Next]_vars => FileInv' /\ CallInv' /\ Closed'
  BY FileStep, CallStep, ClosedStep
<1>4. QED
  BY <1>1, <1>2, <1>3, PTL DEF Spec

\* Only the header of a PATCH and the last chunk of a body make a request done.
LEMMA DoneInTime ==
  ASSUME CallInv, [Next]_vars, Doing("done")', ~Doing("done")
  PROVE  peer = AddressOf(call.host) /\ call'.got = Wanted(call.kind) /\ spent < RequestMs
<1>1. Calling' /\ call'.at = "done"
  BY DEF Doing
<1>2. call # call'
  BY <1>1 DEF Doing, Calling
<1>3. call \in Calls \/ call = NoCall
  BY DEF CallInv
<1>4. Header \/ Read
  <2>1. ~UNCHANGED exchange
    BY <1>2 DEF exchange
  <2>2. \A kind \in Kinds : ~Request(kind)
    BY <1>1, RequestCalls
  <2>3. ~Cleared
    BY <1>1 DEF Cleared, Calling
  <2>4. ~(ResolveAgain \/ Resolved \/ Connect \/ Send \/ Redirect \/ Break)
    BY <1>1, <1>2, <1>3
       DEF ResolveAgain, Resolved, Connect, Send, Redirect, Break, Doing, Underway, Calling, Calls
  <2>5. ~Waits
    BY <1>1, <1>2, <1>3 DEF Waits, Underway, Calling, Calls
  <2>6. QED
    BY <2>1, <2>2, <2>3, <2>4, <2>5, Exchanges DEF Step
<1>5. /\ Calling /\ call \in Calls /\ Remaining /\ call.at \in {"header", "body"}
  BY <1>3, <1>4 DEF Header, Read, Doing, Calling
<1>6. peer = AddressOf(call.host) /\ spent < RequestMs
  BY <1>5 DEF CallInv, RightPeer, OneDeadline, Underway, Remaining
<1>7. call'.got = Wanted(call.kind)
  <2>1. CASE Header
    <3>1. call.got = 0 /\ call'.got = call.got
      BY <1>5, <2>1 DEF CallInv, Unread, Header, Doing, Calls
    <3>2. Wanted(call.kind) = 0
      BY <1>1, <1>5, <2>1 DEF Header, Calls
    <3>3. QED
      BY <3>1, <3>2
  <2>2. CASE Read
    <3>1. call.at = "body"
      BY <2>2 DEF Read, Doing
    <3>2. call.got + 1 = Wanted(call.kind)
      BY <1>1, <1>5, <2>2, <3>1 DEF Read, Calls
    <3>3. call'.got = call.got + 1
      BY <1>5, <2>2 DEF Read, Calls
    <3>4. QED
      BY <3>2, <3>3
  <2>3. QED
    BY <1>4, <2>1, <2>2
<1>8. QED
  BY <1>6, <1>7

\* Whatever the server and the resolver's datagrams do, a request succeeds
\* only with the whole body, of the host it was meant for, inside the one
\* deadline of NativeHttpsTransport and PublicReleaseTransport; for any zone
\* of names, any number of hops and chunks, and any deadline.
THEOREM AnswersAreWhole == Spec => WholeAndInTime
<1>1. CallInv /\ [Next]_vars =>
        [Doing("done")' /\ ~Doing("done") =>
           /\ peer = AddressOf(call.host)
           /\ call'.got = Wanted(call.kind)
           /\ spent < RequestMs]_<<call>>
  BY DoneInTime
<1>2. QED
  BY <1>1, CallInit, CallStep, PTL DEF Spec, WholeAndInTime
=============================================================================
