--------------------------- MODULE AtLeastOnceLog ---------------------------
(***************************************************************************)
(* What the output path promises: the items sent are delivered in the      *)
(* order they were sent, each at least once. A position is delivered for   *)
(* the first time only when all earlier ones have been; redeliveries of    *)
(* earlier positions may come at any moment.                               *)
(***************************************************************************)
EXTENDS Naturals, Sequences

CONSTANT Item

VARIABLES
  sent,   \* the items sent, in order
  got     \* the positions delivered, in order of delivery

vars == <<sent, got>>

Delivered == {got[k] : k \in DOMAIN got}

Init == sent = <<>> /\ got = <<>>

Emit(i) ==
  /\ sent' = Append(sent, i)
  /\ UNCHANGED got

\* Deliver the first position not delivered yet.
DeliverNext(n) ==
  /\ n \in DOMAIN sent \ Delivered
  /\ 1..(n - 1) \subseteq Delivered
  /\ got' = Append(got, n)
  /\ UNCHANGED sent

Redeliver(n) ==
  /\ n \in Delivered
  /\ got' = Append(got, n)
  /\ UNCHANGED sent

Next ==
  \/ \E i \in Item : Emit(i)
  \/ \E n \in DOMAIN sent : DeliverNext(n) \/ Redeliver(n)

Spec == Init /\ [][Next]_vars

\* Delivery goes on as long as something sent is missing.
DeliversOn == WF_vars(\E n \in DOMAIN sent : DeliverNext(n))

FairSpec == Spec /\ DeliversOn
=============================================================================
