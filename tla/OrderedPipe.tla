---------------------------- MODULE OrderedPipe ----------------------------
(***************************************************************************)
(* What a stage of lidi made of parallel workers promises to its two       *)
(* neighbours: the workers may overlap as they like, but the items leave   *)
(* the stage in the order in which they entered it, each of them at most   *)
(* once.  Nothing is said about how many workers there are, nor about the  *)
(* 8-bit block numbers the program uses to put the items back in order.    *)
(***************************************************************************)
EXTENDS Naturals, Sequences

CONSTANT Item

VARIABLES
  accepted,   \* the items that entered the stage, in order
  delivered   \* the items that left it, in order

pipeVars == <<accepted, delivered>>

PipeInit ==
  /\ accepted = <<>>
  /\ delivered = <<>>

(* Any item may enter; it is named through accepted' because Item may be   *)
(* infinite.                                                               *)
Accept ==
  /\ accepted' # <<>>
  /\ LET i == accepted'[Len(accepted')]
     IN i \in Item /\ accepted' = Append(accepted, i)
  /\ UNCHANGED delivered

Deliver ==
  /\ Len(delivered) < Len(accepted)
  /\ delivered' = Append(delivered, accepted[Len(delivered) + 1])
  /\ UNCHANGED accepted

PipeNext == Accept \/ Deliver

PipeSpec == PipeInit /\ [][PipeNext]_pipeVars
=============================================================================
