----------------------------- MODULE MCFastPath -----------------------------
(* Small instances of FastPath: one local pod, flows to one or two remotes. *)
EXTENDS FastPath, TLC

MCLocalOf == [f \in Flows |-> "l1"]

\* Flow i leads to remote i on host i; which one is the i-th does not matter.
Paired(S, T) == CHOOSE g \in [S -> T] : \A x, y \in S : x # y => g[x] # g[y]
SymRemoteOf == Paired(Flows, Remotes)
SymHomeOf == Paired(Remotes, Hosts)

MCRemoteOf == [f \in Flows |-> IF f = "f2" /\ "r2" \in Remotes THEN "r2" ELSE "r1"]
MCHomeOf == [r \in Remotes |-> IF r = "r2" /\ "h2" \in Hosts THEN "h2" ELSE "h1"]

\* Packets are interchangeable where every one may carry anything,
PacketSymmetry == Permutations(Packets)

\* and so are flows together with their remotes and the hosts of these (Idle
\* names a flow, but nothing looks at the flow of an idle packet).
PathSymmetry ==
    PacketSymmetry \cup
    {q @@ s : q \in PacketSymmetry,
              s \in {t \in Permutations(Flows \cup Remotes \cup Hosts) :
                       /\ \A f \in Flows : t[f] \in Flows /\ RemoteOf[t[f]] = t[RemoteOf[f]]
                       /\ \A r \in Remotes : t[r] \in Remotes /\ HomeOf[t[r]] = t[HomeOf[r]]}}

AnyPacket == Packets \X Flows \X Dirs

\* One packet slot per direction of f1.
OnePerDirection == {<<"p1", "f1", "egress">>, <<"p2", "f1", "ingress">>}

Unmarked == {{}}
MissMarked == {{"miss"}}
=============================================================================
