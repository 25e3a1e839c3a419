--------------------------- MODULE MCBillingLines ---------------------------
(* The lines of invoices: minting, line edits, approval, void and delete    *)
(* racing the edits of the time entry and the expense they bill.  They are  *)
(* on two matters, so that two mints compete for one invoice number.        *)
EXTENDS Billing, TLC

CONSTANTS p1, p2, m1, m2, i1, i2, e1, x1

MCMatterOfEntry   == [e \in {e1} |-> m1]
MCMatterOfExpense == [x \in {x1} |-> m2]
MCOps == {"createTimeEntry", "updateTimeEntry", "setTimeEntryStatus", "deleteTimeEntry",
          "createExpense", "updateExpense", "deleteExpense",
          "generateInvoiceFromWip", "bundleAsInternalRecord", "updateInvoiceLineItem",
          "approveInvoice", "setInvoiceStatus", "deleteInvoice"}
MCSymmetry == Permutations({p1, p2}) \cup Permutations({i1, i2})
=============================================================================
