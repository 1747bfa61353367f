--------------------------- MODULE MCNetworkClients ---------------------------
EXTENDS NetworkClients

\* The asset host is reached over two aliases, so an answer that stops at the
\* first of them needs the second question, and one that stops twice is too
\* short.
MCZone ==
  [n \in {"api.github.com", "github.com", AssetHost, "cdn", "edge"} |->
     CASE n = "api.github.com" -> "a"
       [] n = "github.com" -> "g"
       [] n = AssetHost -> "cdn"
       [] n = "cdn" -> "edge"
       [] n = "edge" -> "e"]

MCReleases == 1..3
MCCandidates == {2, 3}
MCAuthentic == {2}
=============================================================================
