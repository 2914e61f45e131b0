----------------------------- MODULE MCKeyPool -----------------------------
(***************************************************************************)
(* KeyPool for TLC.  Points are in units of ten of FFLogs' points, times   *)
(* in twenty minutes; replies carry half units.                            *)
(***************************************************************************)
EXTENDS KeyPoolRefinement, TLC

CONSTANTS k1, k2, w1, w2

(* A full reply, and the odd one FFLogs gives for a fresh client: no limit *)
(* and no reset.                                                           *)
MCReplies == { [limit |-> 20, spent |-> 3, resetIn |-> 1],
               [limit |-> 0,  spent |-> 8, resetIn |-> 0] }

MCFailures == { {}, {"429"}, {"401"}, {"invalid_client"} }

MCFewFailures == { {}, {"429"} }

Symmetry == Permutations({w1, w2})
=============================================================================
