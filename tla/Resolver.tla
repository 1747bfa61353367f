------------------------------ MODULE Resolver ------------------------------
(***************************************************************************)
(* resolve_ipv4 (bounded_dns.py): at most two questions to a DNS server    *)
(* over UDP, the second one for the alias at which the first reply ends.   *)
(*                                                                         *)
(* A datagram may be lost, late or doubled: at any time the server's answer*)
(* to any question of this call may arrive.  It holds as much as the server*)
(* likes of the chain of aliases and the address at its end.  A datagram   *)
(* of another source or transaction is dropped without a trace.  A         *)
(* malformed one, a loop, a socket error and an address that is not public *)
(* (_is_public_ipv4) end the call: that is the Break of HttpsExchange,     *)
(* which may come at any time, so that addresses are not told apart here.  *)
(***************************************************************************)
EXTENDS Integers, FiniteSets

CONSTANTS
  Zone,        \* for every name, what it is an alias of, or its address
  MaxHops,     \* MAX_CNAME_HOPS
  MaxQueries,  \* MAX_QUERIES
  NoQuery      \* no resolution in progress

Names == DOMAIN Zone

VARIABLE query  \* the name asked for, the questions so far, the hops taken

\* An alias leads to another name; the last name's address ends the chain.
Hop(name) == IF Zone[name] \in Names THEN Zone[name] ELSE name

\* Where k aliases lead from a name.
After[k \in 0..MaxHops] ==
  [name \in Names |-> IF k = 0 THEN name ELSE Hop(After[k - 1][name])]

\* Names at which the answer to a question may end, by the hops it takes.
Reach(name, k) == \A j \in 1..k : After[j][name] # After[j - 1][name]
Final(name) == Zone[name] \notin Names

\* The address at the end of a name's chain of aliases.
AddressOf(name) ==
  CHOOSE a \in {Zone[n] : n \in Names} \ Names :
    \E k \in 0..MaxHops : Zone[After[k][name]] = a

Resolve(host) ==
  query' = [target |-> host, asked |-> {host}, hops |-> 0]

Allowed(k) == query.hops + k <= MaxHops

\* The reply to the question at hand has the address its chain leads to.
Answers(question, k, address) ==
  /\ question \in query.asked
  /\ question = query.target
  /\ Reach(question, k) /\ Allowed(k)
  /\ LET end == After[k][question] IN Final(end) /\ address = Zone[end]

Answered(address) ==
  /\ query # NoQuery
  /\ \E question \in query.asked, k \in 0..MaxHops : Answers(question, k, address)
  /\ query' = NoQuery

\* The chain ends at an alias that has not been asked for yet.
AskAgain ==
  /\ query # NoQuery
  /\ \E k \in 1..MaxHops :
       /\ Reach(query.target, k) /\ Allowed(k)
       /\ LET end == After[k][query.target] IN
            query' = [target |-> end, asked |-> query.asked \cup {end},
                      hops |-> query.hops + k]
  /\ Cardinality(query.asked) < MaxQueries
=============================================================================
