--------------------------- MODULE MCSyncMembers ---------------------------
(***************************************************************************)
(* SyncMembers for TLC.                                                    *)
(***************************************************************************)
EXTENDS SyncMembers, TLC

CONSTANTS w1, w2

(* Of three members, the one in the middle plays on another region.        *)
MCCN == Ids \ {2}

Symmetry == Permutations({w1, w2})
=============================================================================
