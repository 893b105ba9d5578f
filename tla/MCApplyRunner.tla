---------------------------- MODULE MCApplyRunner ----------------------------
(* Two tables, two metadata hashes: A builds t1, B changes t2 and is reached   *)
(* from A by a promotion.                                                     *)
EXTENDS ApplyRunner, TLC

CONSTANTS c1, c2, p1, p2, A, B, t1, t2

MCCalls == {c1, c2}
MCPlanners == {p1, p2}
MCHashes == {A, B}
MCTables == {t1, t2}
OneTable == {t2}
OnePlanner == {p1}
MCVersions == {0, 1}
ThreeVersions == {0, 1, 2}
MCDesired == [h \in MCHashes |-> [t \in Tables |->
                IF t = t1 THEN 1 ELSE IF h = B THEN 1 ELSE 0]]
NoPromotion == {}
MCPromotions == {<<A, B>>}
NoCopy == {}
AnyCopy == SUBSET Tables
FromApplied == {A}
FromEither == {None, A}
MCSymmetry == Permutations(MCCalls) \cup Permutations(MCPlanners)
=============================================================================
