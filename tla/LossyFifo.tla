----------------------------- MODULE LossyFifo ------------------------------
(***************************************************************************)
(* What the emitter promises about the events it accepts: each reaches the *)
(* sink at most once, none the emitter was not given, and those that do    *)
(* arrive in the order in which they were accepted.  Any of them may be    *)
(* lost: to overflow, to a sink that fails, to a stop that times out.      *)
(***************************************************************************)
EXTENDS Naturals, Sequences

CONSTANT Events

VARIABLES
  accepted,    \* events on their way, in the order of acceptance
  delivered    \* events the sink was given, in the order in which it was

Init == accepted = <<>> /\ delivered = <<>>

Accept(e) ==
  /\ \A i \in DOMAIN accepted : accepted[i] # e
  /\ \A i \in DOMAIN delivered : delivered[i] # e
  /\ accepted' = Append(accepted, e)
  /\ UNCHANGED delivered

Deliver ==
  /\ accepted # <<>>
  /\ delivered' = Append(delivered, Head(accepted))
  /\ accepted' = Tail(accepted)

Lose(i) ==
  /\ accepted' = SubSeq(accepted, 1, i - 1) \o SubSeq(accepted, i + 1, Len(accepted))
  /\ UNCHANGED delivered

Next ==
  \/ \E e \in Events : Accept(e)
  \/ Deliver
  \/ \E i \in DOMAIN accepted : Lose(i)

\* A step of its own, or one that it does not see.
Step == [Next]_<<accepted, delivered>>

Spec == Init /\ [][Next]_<<accepted, delivered>>
=============================================================================
