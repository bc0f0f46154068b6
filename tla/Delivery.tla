------------------------------ MODULE Delivery ------------------------------
(***************************************************************************)
(* What diode-receive promises to the clients behind it, whatever it loses *)
(* on the way: a client gets blocks of its own transfer, in their order    *)
(* and each at most once; then it is told once how the transfer ended, and *)
(* gets nothing more.  It is told of a success along with the End block.   *)
(***************************************************************************)
EXTENDS Integers, Sequences

CONSTANTS
  Ids,     \* the transfers
  Blocks,  \* the blocks that are sent, with a type, a transfer and a pos
  None     \* a transfer that has not ended

VARIABLES
  delivered,  \* what each client got
  outcome     \* what each client was told

Init ==
  /\ delivered = [t \in Ids |-> <<>>]
  /\ outcome = [t \in Ids |-> None]

IsNext(t, block) ==
  /\ block.transfer = t
  /\ \A i \in DOMAIN delivered[t] : delivered[t][i].pos < block.pos

Deliver(t, block) ==
  /\ outcome[t] = None
  /\ IsNext(t, block)
  /\ delivered' = [delivered EXCEPT ![t] = Append(@, block)]
  /\ outcome' = IF block.type = "end"
                THEN [outcome EXCEPT ![t] = "finished"] ELSE outcome

GiveUp(t, how) ==
  /\ outcome[t] = None
  /\ outcome' = [outcome EXCEPT ![t] = how]
  /\ UNCHANGED delivered

Next ==
  \E t \in Ids :
    \/ \E block \in Blocks : Deliver(t, block)
    \/ \E how \in {"aborted", "failed"} : GiveUp(t, how)

Spec == Init /\ [][Next]_<<delivered, outcome>>
=============================================================================
