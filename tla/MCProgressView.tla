--------------------------- MODULE MCProgressView ---------------------------
(***************************************************************************)
(* ProgressView for TLC.                                                   *)
(***************************************************************************)
EXTENDS ProgressView, TLC

CONSTANTS w1, w2

Symmetry == Permutations(Workers)

(* What a first scan leaves, of one member that had a fight to post: the   *)
(* run begins with it, so that the counters of one scan are there for the  *)
(* next one to clear.                                                      *)
MCInit ==
  /\ table = {1} /\ recent = {1}
  /\ scan = "asleep" /\ toReset = <<>> /\ scanNo = 1
  /\ store = [state |-> "idle", startedAt |-> 1]
  /\ c = [k \in Counters |-> IF k \in {"walked", "expected", "queued", "withData", "uploaded"}
                             THEN 1 ELSE 0]
  /\ lastScan = [of |-> 1, c |-> c]
  /\ atMember = None /\ prod = "off" /\ lastID = 1 /\ queue = {}
  /\ member = [w \in Workers |-> None]
  /\ left = [w \in Workers |-> 0] /\ posted = [w \in Workers |-> FALSE]
  /\ toRead = <<>> /\ resp = NoResponse

MCSpec == MCInit /\ [][Next]_vars
=============================================================================
