----------------------------- MODULE MCInvoices -----------------------------
(* Small instances of Invoices for TLC.                                    *)
EXTENDS Invoices, TLC

CONSTANTS i1, i2

\* The largest payment settles the small invoice at once and the large one
\* with one more.
TwoBills == i1 :> 2 @@ i2 :> 3

Interchangeable == Permutations(Workers)
=============================================================================
