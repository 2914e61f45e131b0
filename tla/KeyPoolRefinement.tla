-------------------------- MODULE KeyPoolRefinement --------------------------
(***************************************************************************)
(* KeyPool implements LeasePool: the mapping of its state.                 *)
(***************************************************************************)
EXTENDS KeyPool

Service  == IF phase = "running" THEN Active ELSE {}
Recorded == [k \in KeyIds |-> IF k \in Keys THEN dbUse[k] ELSE 0]

LP == INSTANCE LeasePool WITH
        Keys <- KeyIds, Overcount <- LostAcks,
        open <- phase = "running", serving <- Service,
        leases <- lease, uses <- granted, recorded <- Recorded

(* Load and AddEnvKey, Acquire, Release, MarkError, FlushStats and a crash *)
(* look from outside like a pool that opens, grants, ends, records and     *)
(* forgets: nothing that runs between the holds of the mutex, in whatever  *)
(* order, puts a key back in service, grants a lease of one that is out of *)
(* it, or records a use that was never granted.                            *)
ImplementsLeasePool == LP!Spec
=============================================================================
