----------------------------- MODULE MCKeyWaiters -----------------------------
(* KeyWaiters for TLC. Points as in MCKeyPool, times in half hours; a member's
   minute and the retry after ten seconds are rounded up to one of them. *)
EXTENDS KeyWaiters, TLC

CONSTANTS k1, k2, w1, w2

MCReplies == { [limit |-> 14, spent |-> 0, resetIn |-> 1],
               [limit |-> 14, spent |-> 7, resetIn |-> 2] }

MCFailures == { {"429"}, {"401"} }

Symmetry == Permutations({w1, w2}) \cup Permutations({k1, k2})
================================================================================
