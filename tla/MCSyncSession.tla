--------------------------- MODULE MCSyncSession ----------------------------
(* Instances of SyncSession for TLC.                                       *)
EXTENDS SyncSession, TLC

CONSTANTS c1, c2, c3, h1, h2, h3, t1, t2

\* The target directly, behind one jump host, behind two.
MCRoutes == {<<h3>>, <<h2, h3>>, <<h1, h2, h3>>}

\* The clients are alike, and so are the tunnels.
Alike == Permutations(Client) \cup Permutations(Tunnel)
=============================================================================
