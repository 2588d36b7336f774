------------------------------ MODULE MCDiskV2 ------------------------------
(* DiskV2 with three images of two or three layers of two chunks: I2 has    *)
(* the layers of I1 in the other order, and I3 shares one with each at the  *)
(* same place.                                                              *)
EXTENDS DiskV2

A == <<1, 0>>
B == <<2, 1>>
C == <<0, 2>>

MCManifest == <<<<A, B>>, <<B, A>>, <<A, C, A>>>>

(* Without a kill, and with kills of pulls of a tag that stays.             *)
MCHistories == {{"push", "dedup", "arrive", "evict"}, {"kill", "tmpgc", "arrive", "evict"}}

MCPushAndKill == {{"push", "kill"}}
=============================================================================
