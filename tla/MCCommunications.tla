-------------------------- MODULE MCCommunications --------------------------
(* Two tasks of one customer, the second about the entity "inv".           *)
EXTENDS Communications

OneCustomer == [t \in Tasks |-> "beta"]
OneLinked == [t \in Tasks |-> IF t = 2 THEN "inv" ELSE None]
=============================================================================
