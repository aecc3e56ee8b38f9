------------------------- MODULE MCEndpointResolver -------------------------
(***************************************************************************)
(* Instances of EndpointResolver for TLC.  s2, of the second pod, reuses   *)
(* PID, inode and ifindex of s1; s3 is another sandbox of the first pod,   *)
(* with nothing in common with s1, so that both can be ready at once; s4,  *)
(* also of the first pod, reuses the PID and the ifindex of s1 only.       *)
(***************************************************************************)
EXTENDS EndpointResolver

MCInodeOf ==
    [n \in Namespaces |-> CASE n = "host" -> 1 [] n = "s3" -> 12 [] n = "s4" -> 13 [] OTHER -> 11]
MCPodOf == [s \in Sandboxes |-> IF s = "s2" THEN 2 ELSE 1]
MCPidOf == [s \in Sandboxes |-> IF s = "s3" THEN 102 ELSE 101]
MCHostIdxOf == [s \in Sandboxes |-> IF s = "s3" THEN 8 ELSE 7]

Shot(p, k, v) == [uid |-> p, kind |-> k, version |-> v]
MCManifests ==
    {<<Shot(1, "running", 1), Shot(2, "running", 1), Shot(1, "running", 1)>>,
     <<Shot(2, "running", 1), Shot(1, "deleting", 1), Shot(2, "running", 2)>>,
     <<Shot(1, "pending", 1), Shot(2, "incomplete", 1)>>}

\* The underlay, and links of sandboxes that may be gone by now.
MCTCLinks ==
    {<<<<0, NodeIdx, <<"eth0", "host">>>>>>,
     <<<<0, 7, <<"veth", "s1">>>>, <<11, EthIdx, <<"eth0", "s1">>>>, <<0, 7, <<"veth", "s2">>>>>>,
     <<<<0, 8, <<"veth", "s2">>>>, <<11, EthIdx, <<"eth0", "s2">>>>, <<12, EthIdx, <<"eth0", "s1">>>>>>}
=============================================================================
