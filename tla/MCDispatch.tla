----------------------------- MODULE MCDispatch -----------------------------
(* Bounded instance of Dispatch: at most MaxQueue blocks wait for the      *)
(* dispatch worker, the rest is bounded by the constants of Dispatch.      *)
EXTENDS Dispatch

CONSTANT MaxQueue

MCNext ==
  \/ Len(for_dispatch) < MaxQueue /\ Senders
  \/ DispatchStep
  \/ \E w \in Workers : WorkerStep(w)

MCSpec == Init /\ [][MCNext]_vars
MCFairSpec == MCSpec /\ Fairness

(* Two transfers of a sender and one of the sender that takes its place,   *)
(* with the client id of the first one.                                    *)
MCTransfers ==
  << [client |-> 0, run |-> 1, last |-> 2, ends |-> "end"],
     [client |-> 1, run |-> 1, last |-> 1, ends |-> "abort"],
     [client |-> 0, run |-> 2, last |-> 2, ends |-> "end"] >>

=============================================================================
