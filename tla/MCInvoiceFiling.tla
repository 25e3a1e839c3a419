--------------------------- MODULE MCInvoiceFiling ---------------------------
(* Two requests on the copies of one invoice.                            *)
EXTENDS InvoiceFiling, TLC

CONSTANTS p1, p2

MCSymmetry == Permutations(Request)
=============================================================================
