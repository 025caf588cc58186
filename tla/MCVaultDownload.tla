--------------------------- MODULE MCVaultDownload ---------------------------
(***************************************************************************)
(* Small instances of VaultDownload: downloads of one artifact that share  *)
(* its directory, and downloads of different artifacts.                    *)
(***************************************************************************)
EXTENDS VaultDownload, TLC

CONSTANTS d1, d2, art1, art2

Two == {d1, d2}

\* both downloads ask for one artifact, of one segment
Shared == [d \in Two |-> art1]
OneSegment == [d \in Two |-> 1]
SharedSymmetry == Permutations(Two)

\* every download asks for an artifact of its own, one of two segments
Apart == [d \in Two |-> IF d = d1 THEN art1 ELSE art2]
TwoSegments == [d \in Two |-> IF d = d1 THEN 2 ELSE 1]

\* Bound: one of the two links is followed.
OneReader == Cardinality({d \in Downloads : reader[d] # "none"}) <= 1
=============================================================================
