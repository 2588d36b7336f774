----------------------------- MODULE MCOCICache -----------------------------
(* OCICache with one registry host: pulls of two tags and of a digest, one  *)
(* of which is killed, or has to reclaim space, or finds its tag moved; and *)
(* deletes, prunes and collections by two.                                   *)
EXTENDS OCICache, TLC

CONSTANTS p1, p2, t1, t2, d1, d2, r1

MCHostOf == [n \in Refs |-> r1]

J(op, n) == [op |-> op, name |-> n]
Mix(a, b) == p1 :> a @@ p2 :> b

MCMixes == {
    Mix(J("pull", t1), J("pull_kill", t1)),
    Mix(J("pull", t1), J("pull", d1)),
    Mix(J("pull_reclaim", t1), J("pull", t2)),
    Mix(J("pull_reclaim", t1), J("prune", t1)),
    Mix(J("pull", d1), J("prune", t1)),
    Mix(J("delete", t1), J("delete", t2)),
    Mix(J("delete", t1), J("gc", t1)),
    Mix(J("delete", d1), J("prune", t1))}

(* The first tag is of the first image, and only a pull of it was killed.   *)
MCInit == Init /\ tag[t1] = d1 /\ \A n \in Refs \ {t1} : n \notin dirs

MCSpec == MCInit /\ [][Next]_cvars /\ Fairness
=============================================================================
