SPECIFICATION Spec
CONSTANTS
  Tasks = {1, 2}
  Customers = {"ahmed", "beta"}
  Entities = {"inv", "quo"}
  CustomerOf <- OneCustomer
  EntityOf <- OneLinked
  Senders = {s1, s2}
  MaxRows = 2
  None = None
INVARIANTS
  EvidenceIsOwn
  SentHasTime
\* Every task may be settled and the log full of settled rows.
CHECK_DEADLOCK FALSE
