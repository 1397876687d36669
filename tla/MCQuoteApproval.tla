--------------------------- MODULE MCQuoteApproval --------------------------
(* Small instances of QuoteApproval for TLC.                               *)
EXTENDS QuoteApproval, TLC

\* Every customer is a regular one.
RegularLimit == [q \in Quotes |-> 10]

\* Calls, requests and conversations are interchangeable; so are quotes, as
\* their limits are equal.
Interchangeable == Permutations(Workers) \cup Permutations(Requests)
                   \cup Permutations(Threads) \cup Permutations(Quotes)
=============================================================================
