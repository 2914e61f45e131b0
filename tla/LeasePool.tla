------------------------------ MODULE LeasePool ------------------------------
(***************************************************************************)
(* What the key pool promises those who use it, whatever it does with      *)
(* quotas, windows, refreshes and batches: it opens once with some keys in *)
(* service, grants leases of keys that are in service, takes a key that    *)
(* has failed out of service for good, and records every use in time, or   *)
(* forgets it in a crash.                                                  *)
(***************************************************************************)
EXTENDS Naturals

CONSTANTS
  Keys,      (* the keys a lease may be of                                 *)
  Workers,   (* who may hold one                                           *)
  None,      (* no lease                                                   *)
  Overcount  (* a use may be recorded more than once                       *)

VARIABLES
  open,      (* leases are to be had                                       *)
  serving,   (* the keys in service                                        *)
  leases,    (* the key each worker has a lease of                         *)
  uses,      (* per key, the leases granted on it                          *)
  recorded   (* per key, those that are recorded durably                   *)

vars == <<open, serving, leases, uses, recorded>>

Init ==
  /\ open = FALSE /\ serving = {}
  /\ leases = [w \in Workers |-> None]
  /\ uses = [k \in Keys |-> 0] /\ recorded = [k \in Keys |-> 0]

Open ==
  /\ ~open /\ open' = TRUE
  /\ serving' \in SUBSET Keys /\ serving' # {}
  /\ UNCHANGED <<leases, uses, recorded>>

Grant(w, k) ==
  /\ k \in serving /\ leases[w] = None
  /\ leases' = [leases EXCEPT ![w] = k]
  /\ uses' = [uses EXCEPT ![k] = @ + 1]
  /\ UNCHANGED <<open, serving, recorded>>

(* The lease ends; if its key has failed for good, so does its service.    *)
End(w) ==
  /\ leases[w] # None
  /\ leases' = [leases EXCEPT ![w] = None]
  /\ serving' \in {serving, serving \ {leases[w]}}
  /\ UNCHANGED <<open, uses, recorded>>

Record(k) ==
  /\ recorded' = [recorded EXCEPT ![k] = recorded'[k]]
  /\ recorded'[k] > recorded[k]
  /\ recorded'[k] <= uses[k] \/ Overcount
  /\ UNCHANGED <<open, serving, leases, uses>>

(* What was not recorded is forgotten.                                     *)
Crash ==
  /\ open' = FALSE /\ serving' = {}
  /\ leases' = [w \in Workers |-> None]
  /\ uses' = recorded
  /\ UNCHANGED recorded

Next ==
  \/ Open
  \/ \E w \in Workers, k \in Keys : Grant(w, k)
  \/ \E w \in Workers : End(w)
  \/ \E k \in Keys : Record(k)
  \/ Crash

Spec == Init /\ [][Next]_vars
=============================================================================
