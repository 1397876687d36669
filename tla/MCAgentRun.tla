----------------------------- MODULE MCAgentRun -----------------------------
(* One request in the workflows that differ: the quote tools with their    *)
(* proposal, the refund review, the stock tools with their "not found".    *)
EXTENDS AgentRun

Reviewed == {"create_quote", "issue_resolution", "customer_management", "inventory_check"}
Quoting == {"create_quote"}
Stocking == {"inventory_check"}
Named == {"apply_discount_to_quote", "update_inventory"}
Stock == {"update_inventory"}
Texts == {"empty", "refund", "plain"}
Plain == {"plain"}
=============================================================================
