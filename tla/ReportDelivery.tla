--------------------------- MODULE ReportDelivery ---------------------------
(***************************************************************************)
(* What the path from an agent to the store promises for the reports of    *)
(* one host: a report is ingested at most once (the batch_id is its        *)
(* idempotency key) unless the table of the keys failed for it, only after *)
(* it was collected, and a report that is lost stays lost.  AgentStream    *)
(* implements it.                                                          *)
(***************************************************************************)
EXTENDS Naturals, Sequences

CONSTANT MaxReports   \* bound: reports are numbered 1..MaxReports

VARIABLES collected,  \* reports collected so far
          pending,    \* collected reports that may still be ingested
          log,        \* the reports ingested, in that order
          unmarked    \* reports whose key could not be recorded

deliveryVars == <<collected, pending, log, unmarked>>

DeliveryInit == collected = 0 /\ pending = {} /\ log = <<>> /\ unmarked = {}

CollectReport ==
  /\ collected < MaxReports
  /\ collected' = collected + 1
  /\ pending' = pending \cup {collected + 1}
  /\ UNCHANGED <<log, unmarked>>

Deliver(n) ==
  /\ n \in pending
  /\ pending' = pending \ {n}
  /\ log' = Append(log, n)
  /\ UNCHANGED <<collected, unmarked>>

Lose(lost) ==
  /\ pending' = pending \ lost
  /\ UNCHANGED <<collected, log, unmarked>>

\* The table of the keys fails: this report may be ingested again.
Unmark(n) ==
  /\ n \in 1..collected
  /\ unmarked' = unmarked \cup {n}
  /\ UNCHANGED <<collected, pending, log>>

Repeat(n) ==
  /\ n \in unmarked
  /\ log' = Append(log, n)
  /\ UNCHANGED <<collected, pending, unmarked>>

DeliveryNext ==
  \/ CollectReport
  \/ \E n \in pending : Deliver(n)
  \/ \E n \in 1..collected : Unmark(n) \/ Repeat(n)
  \/ \E lost \in SUBSET pending : Lose(lost)

DeliverySpec == DeliveryInit /\ [][DeliveryNext]_deliveryVars
=============================================================================
