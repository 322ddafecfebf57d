--------------------------- MODULE JournalBuilder ---------------------------
(***************************************************************************)
(* The payment journal: build_journal derives net and tax from whatever    *)
(* the invoice prints, is_balanced decides whether the node may send the   *)
(* entry, and the ERP checks it again.  Printed amounts are integers in    *)
(* tenths of a cent, so that quantize() has something to round; a journal  *)
(* is in cents.                                                            *)
(***************************************************************************)
EXTENDS Integers

CONSTANTS
  Printed,     \* the amounts an invoice may print, in tenths of a cent
  Missing,     \* a field the extraction left empty
  NoEntry

ASSUME PrintedAssumption ==
  /\ Printed \subseteq Int
  /\ Missing \notin Int

Field == Printed \cup {Missing}

VARIABLES
  subtotal, tax_amount, total_amount,   \* the extracted invoice
  entry,     \* the journal entry: what it debits and credits, in cents
  outcome    \* what became of it

vars == <<subtotal, tax_amount, total_amount, entry, outcome>>

(* quantize(0.01, ROUND_HALF_UP): halves are rounded away from zero.       *)
Q(tenths) == IF tenths >= 0 THEN (tenths + 5) \div 10 ELSE -((5 - tenths) \div 10)

QOr(field, default) == IF field = Missing THEN default ELSE Q(field)

(* Net and tax, once each may have been derived from the other.            *)
Gross == QOr(total_amount, 0)
NetOfPrinted ==
  IF subtotal # Missing THEN Q(subtotal)
  ELSE Gross - QOr(tax_amount, 0)

(* Mutant: the printed tax is ignored.                                     *)
TaxFromNet == Gross - NetOfPrinted

Tax == IF tax_amount # Missing THEN Q(tax_amount) ELSE Gross - NetOfPrinted

Net == IF NetOfPrinted + Tax # Gross THEN Gross - Tax ELSE NetOfPrinted

Entry == [expense : Int, vat : Int, payable : Int]

(* Mutant: the VAT line is written whatever its sign.                      *)
VatOfAnySign == Tax

(* A tax line is written only for a positive tax.                          *)
VatDebit == IF Tax > 0 THEN Tax ELSE 0

Debits(e) == e.expense + e.vat
Credits(e) == e.payable

(* is_balanced()                                                           *)
IsBalanced(e) == Debits(e) = Credits(e) /\ Debits(e) > 0

(* The ERP's own validation: lines there are always, so the sums decide.   *)
ErpTakes(e) == Debits(e) = Credits(e)

Init ==
  /\ subtotal \in Field
  /\ tax_amount \in Field
  /\ total_amount \in Field
  /\ entry = NoEntry
  /\ outcome = "none"

BuildJournal ==
  /\ entry = NoEntry
  /\ entry' = [expense |-> Net, vat |-> VatDebit, payable |-> Gross]
  /\ UNCHANGED <<subtotal, tax_amount, total_amount, outcome>>

RefuseUnbalanced ==
  /\ entry # NoEntry /\ outcome = "none"
  /\ ~IsBalanced(entry)
  /\ outcome' = "refused"
  /\ UNCHANGED <<subtotal, tax_amount, total_amount, entry>>

Send ==
  /\ entry # NoEntry /\ outcome = "none"
  /\ IsBalanced(entry)
  /\ outcome' = IF ErpTakes(entry) THEN "posted" ELSE "rejected_by_erp"
  /\ UNCHANGED <<subtotal, tax_amount, total_amount, entry>>

Next == BuildJournal \/ RefuseUnbalanced \/ Send

Spec == Init /\ [][Next]_vars
-----------------------------------------------------------------------------
TypeOK ==
  /\ {subtotal, tax_amount, total_amount} \subseteq Field
  /\ entry \in Entry \cup {NoEntry}
  /\ outcome \in {"none", "refused", "posted", "rejected_by_erp"}

(* Which invoices can be posted at all: whatever is printed or missing,    *)
(* the entry balances exactly when the total is positive and the tax,      *)
(* printed or derived, is not negative.                                    *)
BalancedUnlessTaxNegative ==
  entry # NoEntry => (IsBalanced(entry) <=> Gross > 0 /\ Tax >= 0)

(* The node's own check is as strict as the ERP's: an entry that is sent   *)
(* is never bounced as unbalanced.                                         *)
NeverRejectedByErp == outcome # "rejected_by_erp"

(* What is booked is what the invoice prints: the payable is the total,    *)
(* the VAT a printed tax, and the expense a printed net unless the three   *)
(* figures contradict one another; then the net gives way.                 *)
PrintedFiguresAreBooked ==
  outcome = "posted" =>
    /\ total_amount # Missing /\ entry.payable = Q(total_amount)
    /\ tax_amount # Missing => entry.vat = Q(tax_amount)
    /\ subtotal # Missing =>
         \/ entry.expense = Q(subtotal)
         \/ tax_amount # Missing /\ Q(subtotal) + Q(tax_amount) # Q(total_amount)
-----------------------------------------------------------------------------
(* The inductive strengthening: the entry is the one build_journal makes   *)
(* of the invoice, and nothing that failed the node's check was sent.      *)
Built == [expense |-> Net, vat |-> VatDebit, payable |-> Gross]

IInv ==
  /\ TypeOK
  /\ entry # NoEntry => entry = Built
  /\ outcome # "none" => entry # NoEntry
  /\ outcome \in {"posted", "rejected_by_erp"} => IsBalanced(entry)
  /\ NeverRejectedByErp
=============================================================================
