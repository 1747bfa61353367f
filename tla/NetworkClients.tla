--------------------------- MODULE NetworkClients ---------------------------
(***************************************************************************)
(* The clients of the device's HTTPS requests, one at a time: the search   *)
(* for a release (release_client.py over ReleaseDiscovery), the download of*)
(* the fleet file into a candidate file (private_fleet_client.py), and the *)
(* Gist publisher and readback, whose requests have models of their own.   *)
(* The server may answer, stall, or break off at any place of any request, *)
(* and the repository changes meanwhile.                                   *)
(***************************************************************************)
EXTENDS HttpsExchange

CONSTANTS
  Releases, Candidates, Authentic, Floor, PageItems, MaxPages, NoScan,
  DiscoveryMs,  \* MAX_DISCOVERY_MS, in ticks of the model
  Files,        \* names that the random bytes of a candidate may give
  Theirs,       \* those of files that were in the directory before
  Absent        \* no such file, nothing fetched

VARIABLES
  repo, scan, deleted, listed,  \* as in ReleaseDiscovery
  client,    \* whose request it is
  elapsed,   \* ticks since the discovery began
  asset,     \* the candidate whose metadata is fetched, and which part
  content,   \* chunks in each candidate file, or Absent
  writing,   \* the candidate file of this call, or Absent
  orphans    \* history: files that nothing will remove any more

discovery == <<repo, scan, deleted, listed>>
fleet == <<content, writing, orphans>>
vars == <<exchange, discovery, client, elapsed, asset, fleet>>

Discovery == INSTANCE ReleaseDiscovery

ASSUME NetworkAssumption ==
  /\ Discovery!DiscoveryAssumption
  /\ DiscoveryMs \in Nat
  /\ Length \in Nat \ {0} /\ RequestMs \in Nat
  /\ MaxHops \in Nat /\ {HostOf(kind) : kind \in Kinds} \cup {AssetHost} \subseteq Names
  /\ Theirs \subseteq Files
  /\ Absent \notin Files \cup Nat
  /\ NoCall \notin [kind : Kinds, host : Names, got : Nat, age : Nat,
                     at : {"resolve", "connect", "send", "header", "body", "done",
                           "failed"}]

Init ==
  /\ ExchangeInit
  /\ Discovery!Init
  /\ client = "none" /\ elapsed = 0 /\ asset = Absent
  /\ content = [f \in Files |-> IF f \in Theirs THEN Length ELSE Absent]
  /\ writing = Absent /\ orphans = {}

-----------------------------------------------------------------------------
\* discover_release and its checkpoint.
Checkpoint == elapsed < DiscoveryMs
Searching == client = "discovery"

Discover ==
  /\ client = "none"
  /\ Discovery!Begin
  /\ client' = "discovery"
  /\ UNCHANGED <<exchange, elapsed, asset, fleet>>

RequestPage ==
  /\ Searching /\ Checkpoint
  /\ Discovery!At("fetch") /\ ~Calling
  /\ Request("page")
  /\ UNCHANGED <<discovery, client, elapsed, asset, fleet>>

PageArrives ==
  /\ Searching /\ Checkpoint
  /\ Doing("done") /\ call.kind = "page"
  /\ Discovery!TakePage
  /\ Forget
  /\ UNCHANGED <<client, elapsed, asset, fleet>>

\* admit: the manifest, then the signature.
RequestManifest ==
  /\ Searching /\ Checkpoint
  /\ Discovery!At("items") /\ ~Calling
  /\ \E r \in scan.todo : asset' = <<r, "manifest">>
  /\ Request("asset")
  /\ UNCHANGED <<discovery, client, elapsed, fleet>>

RequestSignature ==
  /\ Searching /\ Checkpoint
  /\ Doing("done") /\ asset # Absent /\ asset[2] = "manifest"
  /\ asset' = <<asset[1], "signature">>
  /\ Request("asset")
  /\ UNCHANGED <<discovery, client, elapsed, fleet>>

Admit ==
  /\ Searching /\ Checkpoint
  /\ Doing("done") /\ asset # Absent /\ asset[2] = "signature"
  /\ Discovery!Admit(asset[1])
  /\ asset' = Absent
  /\ Forget
  /\ UNCHANGED <<client, elapsed, fleet>>

PageEnds ==
  /\ Searching /\ Checkpoint
  /\ ~Calling
  /\ Discovery!PageEnds
  /\ UNCHANGED <<exchange, client, elapsed, asset, fleet>>

\* The winner, or DiscoveryIncomplete.
DiscoveryLeaves ==
  /\ Searching
  /\ ~Underway
  /\ Discovery!Leave
  /\ Forget
  /\ client' = "none" /\ asset' = Absent /\ elapsed' = 0
  /\ UNCHANGED fleet

-----------------------------------------------------------------------------
\* fetch_to_stage
FetchFleet ==
  /\ client = "none"
  /\ client' = "fleet"
  /\ Request("fleet")
  /\ UNCHANGED <<discovery, elapsed, asset, fleet>>

\* A faulty _open_candidate that truncates a file it meets.
FreeTruncating(f) == TRUE

\* Exclusive creation fails on a name that is taken, and is tried again.
Free(f) == content[f] = Absent

\* write_chunk: the first chunk creates the candidate file.
Write ==
  \/ /\ writing = Absent
     /\ \E f \in Files :
          /\ Free(f)
          /\ writing' = f
          /\ content' = [content EXCEPT ![f] = 1]
  \/ /\ writing # Absent
     /\ content' = [content EXCEPT ![writing] = @ + 1]
     /\ UNCHANGED writing

ReadBody ==
  /\ Read
  /\ IF client = "fleet" THEN Write ELSE UNCHANGED <<content, writing>>
  /\ UNCHANGED <<discovery, client, elapsed, asset, orphans>>

\* The file is created and the chunk does not get into it.
WriteFails ==
  /\ client = "fleet"
  /\ Doing("body") /\ writing = Absent
  /\ Break
  /\ \E f \in Files :
       /\ Free(f)
       /\ writing' = f
       /\ content' = [content EXCEPT ![f] = 0]
  /\ UNCHANGED <<discovery, client, elapsed, asset, orphans>>

\* The file is whole: _verify_file and the parser of the caller read it.
FleetReturns ==
  /\ client = "fleet"
  /\ Doing("done")
  /\ client' = "staging"
  /\ Forget
  /\ UNCHANGED <<discovery, elapsed, asset, fleet>>

\* os.remove, whose failure leaves the file to nobody.
Remove ==
  /\ \/ /\ writing # Absent
        /\ content' = [content EXCEPT ![writing] = Absent]
        /\ UNCHANGED orphans
     \/ /\ writing # Absent
        /\ orphans' = orphans \cup {writing}
        /\ UNCHANGED content
     \/ writing = Absent /\ UNCHANGED <<content, orphans>>
  /\ writing' = Absent

\* The request, the flush or the close failed: a file that was created goes.
FleetFails ==
  /\ client = "fleet"
  /\ Doing("failed") \/ Doing("done")
  /\ Remove
  /\ client' = "none"
  /\ Forget
  /\ UNCHANGED <<discovery, elapsed, asset>>

\* The caller removes what it was given, whether it could use it or not.
Staged ==
  /\ client = "staging"
  /\ Remove
  /\ client' = "none"
  /\ UNCHANGED <<exchange, discovery, elapsed, asset>>

-----------------------------------------------------------------------------
\* patch_gist and get_gist_json, and what is made of their outcome.
UseGist ==
  /\ client = "none"
  /\ client' = "gist"
  /\ \E kind \in {"patch", "gist"} : Request(kind)
  /\ UNCHANGED <<discovery, elapsed, asset, fleet>>

GistUsed ==
  /\ client = "gist"
  /\ ~Underway
  /\ client' = "none"
  /\ Forget
  /\ UNCHANGED <<discovery, elapsed, asset, fleet>>

-----------------------------------------------------------------------------
Exchange ==
  /\ Step \/ Break
  /\ UNCHANGED <<discovery, client, elapsed, asset, fleet>>

\* The service callback of a request is the checkpoint of the discovery.
Expires ==
  /\ \/ TimedOut
     \/ Searching /\ ~Checkpoint /\ Break
  /\ UNCHANGED <<discovery, client, elapsed, asset, fleet>>

\* The list changes between two requests, which is all that a scan sees.
RepoChanges ==
  /\ ~Underway
  /\ \E r \in Releases : Discovery!Published(r) \/ Discovery!Deleted(r)
  /\ UNCHANGED <<exchange, client, elapsed, asset, fleet>>

ClockAdvances ==
  /\ client # "none"
  /\ Waits
  /\ elapsed' = IF Searching /\ Checkpoint THEN elapsed + 1 ELSE elapsed
  /\ UNCHANGED <<discovery, client, asset, fleet>>

\* What was in RAM is gone, and no start of the device looks for candidates.
PowerCut ==
  /\ client # "none"
  /\ Cleared /\ sockets' = {}
  /\ client' = "none" /\ asset' = Absent /\ elapsed' = 0
  /\ IF Discovery!Scanning THEN Discovery!Leave ELSE UNCHANGED discovery
  /\ writing' = Absent
  /\ orphans' = orphans \cup ({writing} \ {Absent})
  /\ UNCHANGED content

DiscoverySteps ==
  \/ RequestPage \/ PageArrives \/ RequestManifest \/ RequestSignature
  \/ Admit \/ PageEnds \/ DiscoveryLeaves

FleetSteps == FleetReturns \/ FleetFails \/ Staged

Next ==
  \/ Discover \/ DiscoverySteps
  \/ UseGist \/ GistUsed
  \/ FetchFleet \/ ReadBody \/ WriteFails \/ FleetSteps
  \/ Exchange \/ Expires
  \/ RepoChanges \/ ClockAdvances \/ PowerCut

Spec == Init /\ [][Next]_vars

\* The clock runs, every wait ends after 250 ms at the latest, and the code
\* between two waits goes on.  Nothing is assumed of the server.
Fairness ==
  /\ WF_vars(ClockAdvances)
  /\ WF_vars(Expires)
  /\ WF_vars(DiscoverySteps)
  /\ WF_vars(FleetSteps)
  /\ WF_vars(GistUsed)

FairSpec == Spec /\ Fairness

-----------------------------------------------------------------------------
\* As in ReleaseDiscovery, with the requests, failures and deadlines between
\* the steps of the scan.
CompleteScan == Discovery!CompleteScan

(***************************************************************************)
(* A request that succeeds was answered by the host it was meant for, also *)
(* after a redirect and with doubled or late DNS replies; its whole body   *)
(* came, and it came inside the one deadline that spans both names, both   *)
(* connections and the body.                                               *)
(***************************************************************************)
WholeAndInTime ==
  [][Doing("done")' /\ ~Doing("done") =>
       /\ peer = AddressOf(call.host)
       /\ call'.got = Wanted(call.kind)
       /\ spent < RequestMs]_<<call>>

(***************************************************************************)
(* Between calls no socket is open and no download is left, unless the file*)
(* system refused to remove it or the power went; what is handed over is   *)
(* whole; and a file that was there before is never touched, although names*)
(* are random.                                                             *)
(***************************************************************************)
NothingLeft ==
  /\ client = "none" =>
       /\ ~Calling /\ sockets = {}
       /\ \A f \in Files : content[f] # Absent => f \in Theirs \cup orphans
  /\ client = "staging" => content[writing] = Length
  /\ \A f \in Theirs : content[f] = Length

(***************************************************************************)
(* Every call of a client comes to an end, whatever the server does.       *)
(***************************************************************************)
CallsEnd == client # "none" ~> client = "none"
=============================================================================
