----------------------------- MODULE StreamCell -----------------------------
(***************************************************************************)
(* What the rest of the agent may rely on about the s.stream fields: the   *)
(* contract between the connection managers, which write them              *)
(* (ConnManagers), and the workers, which read them without a lock         *)
(* (WorkerPool).                                                           *)
(*                                                                         *)
(* A field is "nil", or points to a stream that is "live" or "dead".  A    *)
(* manager sets a nil field to a new stream or clears it; streams die      *)
(* under the managers.  The senders in Reopeners (the metric sender) may   *)
(* replace a dead stream without clearing the field first, and never clear *)
(* a field whose stream still works.                                       *)
(***************************************************************************)
CONSTANTS
  Senders,
  Reopeners  \* senders that reopen in place and drop no working stream

VARIABLE cell  \* cell[s]: what s.stream holds

CellTypeOK == cell \in [Senders -> {"nil", "live", "dead"}]

CellInit == cell = [s \in Senders |-> "nil"]

Open(s) ==
  /\ cell[s] = "nil" \/ (cell[s] = "dead" /\ s \in Reopeners)
  /\ cell' = [cell EXCEPT ![s] = "live"]

Clear(s) ==
  /\ s \in Reopeners => cell[s] # "live"
  /\ cell' = [cell EXCEPT ![s] = "nil"]

(* One event (a lost transport, Close on the shared ClientConn) may end the *)
(* streams of several senders.                                              *)
Die(S) ==
  /\ \A s \in S : cell[s] = "live"
  /\ cell' = [s \in Senders |-> IF s \in S THEN "dead" ELSE cell[s]]

CellNext ==
  \/ \E s \in Senders : Open(s)
  \/ \E s \in Senders : Clear(s)
  \/ \E S \in SUBSET Senders : Die(S)

CellSpec == CellInit /\ [][CellNext]_cell
=============================================================================
