------------------------------ MODULE LinkPlan ------------------------------
(***************************************************************************)
(* The links a run looks at: the ones the manifest lists, overlaid with    *)
(* the ones of the endpoints just resolved (mergeEndpointLinks), each key  *)
(* once (TCScanner.Scan).  A link is <<netns inode, ifindex, identity>>,   *)
(* where the identity is its name and MAC address; inode 0 is the host.    *)
(***************************************************************************)
EXTENDS Integers, Sequences
Seqs == INSTANCE SequencesExt

Key(link) == <<link[1], link[2]>>

\* positions: the first link with a key.
Position(links, key) == Seqs!SelectInSeq(links, LAMBDA l : Key(l) = key)

\* Mutant: a link of the manifest is kept although an endpoint has its key.
PutIfAbsent(links, link) ==
    IF Position(links, Key(link)) = 0 THEN Append(links, link) ELSE links

\* result[index] = link, or append.
Put(links, link) ==
    LET i == Position(links, Key(link))
    IN  IF i = 0 THEN Append(links, link) ELSE [links EXCEPT ![i] = link]

\* The peer link and the host link of a resolved endpoint, or nothing.
PutEndpoint(links, pair) == IF pair = <<>> THEN links ELSE Put(Put(links, pair[1]), pair[2])

\* endpointLinks[uid] is the pair of links of a pod, or the empty sequence; the
\* UIDs, which are numbers here, are taken in their order: merged[n] has those
\* below n.
mergeEndpointLinks(base, endpointLinks) ==
    LET merged[n \in Nat] ==
            IF n = 0 THEN base
            ELSE IF n - 1 \in DOMAIN endpointLinks THEN PutEndpoint(merged[n - 1], endpointLinks[n - 1])
            ELSE merged[n - 1]
    IN  merged[Seqs!Max(DOMAIN endpointLinks) + 1]

\* The links TCScanner.Scan lists filters on: the first of every key.
Visited(links) ==
    {links[i] : i \in {i \in DOMAIN links : i = Position(links, Key(links[i]))}}
=============================================================================
