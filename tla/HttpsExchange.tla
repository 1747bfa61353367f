---------------------------- MODULE HttpsExchange ----------------------------
(***************************************************************************)
(* One HTTPS request of the device: NativeHttpsTransport (native_https.py),*)
(* which writes and reads Gists and reads the fleet file, and              *)
(* PublicReleaseTransport (public_release_transport.py), which lists       *)
(* releases and fetches their assets, following GitHub's one redirect.  The*)
(* name is resolved under the deadline of the request.                     *)
(*                                                                         *)
(* A body is a number of chunks; the headers that fix its length and type  *)
(* are well formed, or the request fails.  A chunk goes to the caller's    *)
(* writer when it comes.                                                   *)
(***************************************************************************)
EXTENDS Resolver

CONSTANTS
  RequestMs,  \* REQUEST_TIMEOUT_MS, in ticks of the model
  Length,     \* chunks of a body
  NoCall      \* no request in progress

VARIABLES
  call,     \* the request: its kind, host, place, chunks read and age
  peer,     \* the address the request is connected to
  sockets,  \* open sockets
  spent     \* history: ticks since the caller asked for the request

exchange == <<query, call, peer, sockets, spent>>

Kinds == {"page", "asset", "fleet", "gist", "patch"}
HostOf(kind) == IF kind = "asset" THEN "github.com" ELSE "api.github.com"
AssetHost == "release-assets.githubusercontent.com"

Calling == call # NoCall
Doing(place) == Calling /\ call.at = place
Underway == Calling /\ call.at \notin {"done", "failed"}

\* Each wait, read and write checks what remains of the deadline.
Remaining == call.age < RequestMs

ExchangeInit ==
  /\ query = NoQuery /\ call = NoCall
  /\ peer = NoQuery /\ sockets = {} /\ spent = 0

\* _request, fetch_asset and fetch_page, up to the resolver's socket.
Request(kind) ==
  /\ call' = [kind |-> kind, host |-> HostOf(kind), at |-> "resolve", got |-> 0, age |-> 0]
  /\ Resolve(HostOf(kind))
  /\ peer' = NoQuery /\ sockets' = {"udp"} /\ spent' = 0

ResolveAgain ==
  /\ Doing("resolve") /\ Remaining
  /\ AskAgain
  /\ UNCHANGED <<call, peer, sockets, spent>>

Resolved ==
  /\ Doing("resolve") /\ Remaining
  /\ \E address \in {Zone[n] : n \in Names} \ Names :
       Answered(address) /\ peer' = address
  /\ call' = [call EXCEPT !.at = "connect"]
  /\ sockets' = {}
  /\ UNCHANGED spent

\* connect, one wait whose outcome is not looked at, and the TLS socket.
Connect ==
  /\ Doing("connect") /\ Remaining
  /\ call' = [call EXCEPT !.at = "send"]
  /\ sockets' = {"raw", "tls"}
  /\ UNCHANGED <<query, peer, spent>>

Send ==
  /\ Doing("send") /\ Remaining
  /\ call' = [call EXCEPT !.at = "header"]
  /\ UNCHANGED <<query, peer, sockets, spent>>

\* The answer to a PATCH is its status: the body stays unread.
Wanted(kind) == IF kind = "patch" THEN 0 ELSE Length

\* A complete header with status 200 and an acceptable length.
Header ==
  /\ Doing("header") /\ Remaining
  /\ call' = [call EXCEPT !.at = IF Wanted(call.kind) = 0 THEN "done" ELSE "body"]
  /\ sockets' = IF Wanted(call.kind) = 0 THEN {} ELSE sockets
  /\ UNCHANGED <<query, peer, spent>>

\* A faulty second hop that starts a deadline of its own.
RedirectRestarting ==
  /\ Doing("header") /\ Remaining
  /\ call.kind = "asset" /\ call.host # AssetHost
  /\ call' = [call EXCEPT !.host = AssetHost, !.at = "resolve", !.age = 0]
  /\ Resolve(AssetHost)
  /\ sockets' = {"udp"}
  /\ UNCHANGED <<peer, spent>>

\* The one redirect of an asset: the hop's sockets are closed, its body is
\* ignored, and the second hop shares the deadline of the first.
Redirect ==
  /\ Doing("header") /\ Remaining
  /\ call.kind = "asset" /\ call.host # AssetHost
  /\ call' = [call EXCEPT !.host = AssetHost, !.at = "resolve"]
  /\ Resolve(AssetHost)
  /\ sockets' = {"udp"}
  /\ UNCHANGED <<peer, spent>>

\* A chunk of the body; with the last one the request is done.
Read ==
  /\ Doing("body") /\ Remaining
  /\ call' = [call EXCEPT !.got = @ + 1,
                          !.at = IF call.got + 1 = Wanted(call.kind) THEN "done" ELSE @]
  /\ sockets' = IF call.got + 1 = Wanted(call.kind) THEN {} ELSE sockets
  /\ UNCHANGED <<query, peer, spent>>

\* A failure of any kind; every way out closes what is open.
Break ==
  /\ Underway
  /\ call' = [call EXCEPT !.at = "failed"]
  /\ query' = NoQuery /\ sockets' = {}
  /\ UNCHANGED <<peer, spent>>

\* A faulty deadline that only the reading of the body heeds.
TimedOutReading == Doing("body") /\ ~Remaining /\ Break

\* The deadline has passed: the next check fails.
TimedOut == Underway /\ ~Remaining /\ Break

\* The request's locals go with it; its sockets it has closed by itself.
Cleared == call' = NoCall /\ query' = NoQuery /\ peer' = NoQuery /\ spent' = 0
Forget == Cleared /\ UNCHANGED sockets

Waits ==
  /\ call' = IF Underway /\ Remaining THEN [call EXCEPT !.age = @ + 1] ELSE call
  /\ spent' = IF Underway /\ spent <= RequestMs THEN spent + 1 ELSE spent
  /\ UNCHANGED <<query, peer, sockets>>

Step == ResolveAgain \/ Resolved \/ Connect \/ Send \/ Header \/ Redirect
=============================================================================
