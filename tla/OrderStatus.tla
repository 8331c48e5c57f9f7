---- MODULE OrderStatus ----
(***************************************************************************)
(* The order statuses every component shares (backend/brokers/models.py)   *)
(* and the transition table of the order state machine                     *)
(* (backend/execution/order_machine.py).                                   *)
(***************************************************************************)

Negative == {"canceled", "rejected", "expired"}
Terminal == {"filled"} \cup Negative
OpenStatus == {"pending", "submitted", "partial_filled", "unknown"}
Status == OpenStatus \cup Terminal

\* What a status lookup of a live KIS order can answer with.
BrokerStatus == {"submitted", "partial_filled"} \cup Terminal

\* Which statuses the state machine lets an order move to (VALID_TRANSITIONS).
ValidTransitions ==
    [s \in Status |->
        CASE s = "pending"        -> {"submitted", "rejected", "canceled"}
          [] s = "submitted"      -> {"partial_filled", "unknown"} \cup Terminal
          [] s = "partial_filled" -> {"filled", "canceled", "expired", "unknown"}
          [] s = "unknown"        -> {"submitted", "partial_filled"} \cup Terminal
          [] s \in Terminal       -> {}]

====
