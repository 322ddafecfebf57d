-------------------------- MODULE DocumentReading --------------------------
(***************************************************************************)
(* From a document to figures that can be booked: the parser, the loop     *)
(* that asks the model until its answer fits the schema, the coercions of  *)
(* the schema, the confidence the gate reads, the vendor, and then the     *)
(* journal of JournalBuilder.  What the model answers is any member of     *)
(* Answers, before the schema has touched it; amounts are in tenths of a   *)
(* cent, scores in ten-thousandths, the model's own confidence in          *)
(* hundredths.                                                             *)
(***************************************************************************)
EXTENDS JournalBuilder, VendorResolution

CONSTANTS
  Answers,     \* the answers that fit the schema
  Retries,     \* cfg.max_extraction_retries
  Gate,        \* cfg.min_extraction_confidence
  Strip, Fold, \* str.strip() and strip().lower(), on the texts of the answers
  NoAnswer

Text == STRING \cup {Missing}
Figure == [form : {"number", "decimal_comma", "point_comma", "unreadable"}, value : Int]
Item == [quantity : Int, unit_price : Figure, line_total : Figure]
Answer ==
  [invoice_number : Text, invoice_date : Text, purchase_order_number : Text,
   vendor_name : Text, vendor_tax_id : Text, vendor_iban : Text, currency : Text,
   subtotal : Figure, tax_amount : Figure, total_amount : Figure, decimals : Nat,
   line_items : Seq(Item), confidence : Int]

(* `or ""`                                                                 *)
OrEmpty(text) == IF text = Missing THEN "" ELSE text

ASSUME LimitsAssumption == Retries \in Nat /\ Gate \in 0 .. 10000

(* Blanks at the ends do not tell two texts apart once they are folded.    *)
ASSUME ReadingAssumption ==
  /\ Answers \subseteq Answer /\ NoAnswer \notin Answers /\ Missing \notin STRING
  /\ \A text \in DOMAIN Strip : Strip[text] \in STRING /\ Fold[Strip[text]] = Fold[text]
  /\ \A a \in Answers :
       /\ {a.invoice_number, a.purchase_order_number} \subseteq DOMAIN Strip \cup {Missing}
       /\ OrEmpty(a.vendor_name) # "" => a.vendor_name \in DOMAIN Similarity \cap DOMAIN Hits

VARIABLES
  pc,          \* where the run is
  parser,      \* who read the document
  markdown,    \* whether it found text
  attempt,     \* the loop of extract_structured
  answer,      \* the answer that was taken
  score,       \* invoice.confidence
  resolution   \* the vendor and how it was found

figures == <<subtotal, tax_amount, total_amount>>
journal == <<entry, outcome>>
reading == <<pc, parser, markdown, attempt, answer, score, resolution>>
docVars == <<vars, reading>>

Points == {"parse", "extract", "score", "resolve", "post", "failed", "raised"}
Layouts == {"docling", "pymupdf-fallback", "html-fallback"}
Unresolved == [vendor |-> Nobody, method |-> "none"]
-----------------------------------------------------------------------------
(* The schema.  A comma is taken out wherever it stands, so 119,00 is read *)
(* as 11900 and 1.190,00 as 1.19; what is no number is None in the header  *)
(* and 0 in a line.                                                        *)
Amount(f) ==
  CASE f.form = "number" -> f.value
    [] f.form = "decimal_comma" -> 100 * f.value
    [] f.form = "point_comma" -> f.value \div 1000
    [] OTHER -> Missing

LineAmount(f) == IF Amount(f) = Missing THEN 0 ELSE Amount(f)

Identifier(text) == IF text = Missing \/ Strip[text] = "" THEN Missing ELSE Strip[text]

(* What the schema makes of the figures is what can be printed.            *)
ASSUME FiguresArePrinted ==
  \A a \in Answers : {Amount(a.subtotal), Amount(a.tax_amount), Amount(a.total_amount)} \subseteq Field

(* quantize(0.01) with the context's rounding, halves to even.             *)
HalfEven(tenths) ==
  LET q == tenths \div 10
      r == tenths % 10
  IN IF r > 5 \/ (r = 5 /\ q % 2 = 1) THEN q + 1 ELSE q

(* Deviations up to 0.05 are let through.                                  *)
Close(a, b) == a - b \in -50 .. 50
-----------------------------------------------------------------------------
(* score_extraction: the weighted signals, of an answer and its figures.   *)
One(given) == IF given THEN 1 ELSE 0

Present(a) ==
  One(Identifier(a.invoice_number) # Missing) + One(a.invoice_date # Missing)
  + One(a.vendor_name # Missing) + One(OrEmpty(a.currency) # "") + One(total_amount # Missing)

ComputedSubtotal(a) ==
  10 * HalfEven(SumFunction([i \in DOMAIN a.line_items |-> LineAmount(a.line_items[i].line_total)]))

Priced(a) == {i \in DOMAIN a.line_items : LineAmount(a.line_items[i].line_total) # 0}

LineAddsUp(item) ==
  Close(10 * HalfEven(item.quantity * LineAmount(item.unit_price)), LineAmount(item.line_total))

(* Mutant: what is missing is derived, as the journal does.                *)
TotalsOfDerived(a) == IF total_amount # Missing /\ Net + Tax = Gross THEN 2000 ELSE 0

TotalsReconcile(a) ==
  IF Missing \in {subtotal, tax_amount, total_amount} THEN 1000
  ELSE IF Close(subtotal + tax_amount, total_amount) THEN 2000 ELSE 0

LinesSumToSubtotal(a) ==
  IF subtotal = Missing \/ a.line_items = <<>> THEN 750
  ELSE IF Close(ComputedSubtotal(a), subtotal) THEN 1500 ELSE 0

Correct(a) == {i \in Priced(a) : LineAddsUp(a.line_items[i])}

(* Every other signal is a whole number of ten-thousandths, so rounding    *)
(* the score to four decimals rounds this one; a tie, which takes eight    *)
(* lines, goes up here and either way in floating point.                   *)
LineArithmetic(a) ==
  IF Priced(a) = {} THEN 750
  ELSE (3000 * Cardinality(Correct(a)) + Cardinality(Priced(a))) \div (2 * Cardinality(Priced(a)))

(* Mutant: a self-report beyond 0..1 is taken as it is.                    *)
SelfReportUnclipped(a) == 15 * a.confidence

SelfReport(a) ==
  15 * (IF a.confidence < 0 THEN 0 ELSE IF a.confidence > 100 THEN 100 ELSE a.confidence)

Score(a) ==
  500 * Present(a) + TotalsReconcile(a) + LinesSumToSubtotal(a) + LineArithmetic(a)
  + (IF a.line_items # <<>> THEN 500 ELSE 0)
  + (IF Identifier(a.purchase_order_number) # Missing THEN 500 ELSE 0)
  + SelfReport(a)

(* ExtractedInvoice.fingerprint(): str() keeps the decimals the total was  *)
(* written with, but every zero is Decimal("0").                           *)
WrittenTotal(a) ==
  LET total == Amount(a.total_amount)
  IN IF total \in {Missing, 0} THEN <<0, 0>> ELSE <<total, a.decimals>>

(* Mutant: the print date is part of the key.                              *)
FingerprintOfPrint(a) ==
  <<Fold[OrEmpty(a.vendor_name)], Fold[OrEmpty(Identifier(a.invoice_number))], WrittenTotal(a),
    a.invoice_date>>

Fingerprint(a) ==
  <<Fold[OrEmpty(a.vendor_name)], Fold[OrEmpty(Identifier(a.invoice_number))], WrittenTotal(a)>>

(* The reference under which the ERP would know the posting, for an        *)
(* invoice with a number.                                                  *)
Reference(a) ==
  <<IF OrEmpty(a.vendor_name) = "" THEN "VENDOR" ELSE a.vendor_name, Identifier(a.invoice_number)>>
-----------------------------------------------------------------------------
DocInit ==
  /\ subtotal = Missing /\ tax_amount = Missing /\ total_amount = Missing
  /\ entry = NoEntry /\ outcome = "none"
  /\ pc = "parse" /\ parser = "none" /\ markdown = "none"
  /\ attempt = 0 /\ answer = NoAnswer /\ score = 0
  /\ resolution = Unresolved

(* Text files are read as they are, also when there is nothing in them.    *)
ReadText ==
  /\ pc = "parse"
  /\ parser' = "plaintext"
  /\ markdown' \in {"blank", "text"}
  /\ pc' = "extract"
  /\ UNCHANGED <<vars, attempt, answer, score, resolution>>

(* Docling, or for a PDF or a page of markup the layer below it.           *)
ReadLayout ==
  /\ pc = "parse"
  /\ parser' \in Layouts
  /\ markdown' = "text"
  /\ pc' = "extract"
  /\ UNCHANGED <<vars, attempt, answer, score, resolution>>

(* There is no file, its type is not supported, no parser could read it,   *)
(* or they found nothing.                                                  *)
Unreadable ==
  /\ pc = "parse"
  /\ pc' = "failed"
  /\ UNCHANGED <<vars, parser, markdown, attempt, answer, score, resolution>>

(* Mutant: the answer to the last attempt is asked for once more.          *)
UnusableOnceMore ==
  /\ pc = "extract"
  /\ attempt' = attempt + 1
  /\ pc' = IF attempt > Retries THEN "failed" ELSE "extract"
  /\ UNCHANGED <<vars, parser, markdown, answer, score, resolution>>

(* No object, bad JSON, or an object that does not fit the schema: the     *)
(* model is asked again with the error, until the attempts are used up.    *)
AnswerUnusable ==
  /\ pc = "extract"
  /\ attempt' = attempt + 1
  /\ pc' = IF attempt = Retries THEN "failed" ELSE "extract"
  /\ UNCHANGED <<vars, parser, markdown, answer, score, resolution>>

(* ainvoke() raises: nobody catches it, the run stays as it is.            *)
ModelRaises ==
  /\ pc = "extract"
  /\ pc' = "raised"
  /\ UNCHANGED <<vars, parser, markdown, attempt, answer, score, resolution>>

AnswerUsable ==
  /\ pc = "extract"
  /\ \E a \in Answers :
       /\ answer' = a
       /\ subtotal' = Amount(a.subtotal)
       /\ tax_amount' = Amount(a.tax_amount)
       /\ total_amount' = Amount(a.total_amount)
  /\ attempt' = 0
  /\ pc' = "score"
  /\ UNCHANGED <<journal, parser, markdown, score, resolution>>

ScoreExtraction ==
  /\ pc = "score"
  /\ score' = Score(answer)
  /\ pc' = "resolve"
  /\ UNCHANGED <<vars, parser, markdown, attempt, answer, resolution>>

ResolveVendor ==
  /\ pc = "resolve"
  /\ \/ resolution' = [vendor |-> Nobody, method |-> "erp_unavailable"]
     \/ \E indexed \in BOOLEAN :
          resolution' = Resolve(OrEmpty(answer.vendor_name), OrEmpty(answer.vendor_tax_id),
                                OrEmpty(answer.vendor_iban), indexed)
  /\ pc' = "post"
  /\ UNCHANGED <<vars, parser, markdown, attempt, answer, score>>

(* The journal, once the invoice was matched or a human approved it.       *)
Post == pc = "post" /\ Next /\ UNCHANGED reading

DocNext ==
  \/ ReadText \/ ReadLayout \/ Unreadable
  \/ AnswerUnusable \/ ModelRaises \/ AnswerUsable
  \/ ScoreExtraction \/ ResolveVendor
  \/ Post

DocSpec == DocInit /\ [][DocNext]_docVars
-----------------------------------------------------------------------------
DocTypeOK ==
  /\ TypeOK
  /\ pc \in Points
  /\ parser \in Layouts \cup {"none", "plaintext"}
  /\ markdown \in {"none", "blank", "text"}
  /\ attempt \in 0 .. (Retries + 1)
  /\ answer = NoAnswer => pc \in {"parse", "extract", "failed", "raised"}
  /\ score \in 0 .. 10000
  /\ resolution.vendor \in 0 .. Len(Vendors)

Scored == pc \in {"resolve", "post"}
Cleared == Scored /\ score >= Gate

Checks(a) ==
  [totals_reconcile |-> TotalsReconcile(a), lines_sum_to_subtotal |-> LinesSumToSubtotal(a),
   line_arithmetic |-> LineArithmetic(a)]
FailedChecks(a) == {check \in DOMAIN Checks(a) : Checks(a)[check] = 0}

(* score_extraction against its own purpose: an invoice passes the gate    *)
(* with at most one of the three arithmetic checks failed outright, with   *)
(* none if no line was extracted, and never by what the model says of      *)
(* itself beyond its 0.15.                                                 *)
ClearedOnEvidence ==
  Cleared =>
    /\ Cardinality(FailedChecks(answer)) <= 1
    /\ answer.line_items = <<>> => TotalsReconcile(answer) > 0
    /\ Score([answer EXCEPT !.confidence = 0]) >= Gate - 1500

(* Between the score and the journal: when the signal says that the totals *)
(* reconcile, build_journal, which lets the net give way in silence, books *)
(* a net within six cents of the one that was printed.                     *)
ReconciledIsBooked ==
  (pc = "post" /\ outcome = "posted" /\ TotalsReconcile(answer) = 2000) =>
    entry.expense - Q(subtotal) \in -6 .. 6

(* resolve_vendor: no similarity beats an identifier.  A vendor found by   *)
(* its name or by the index is one that no other vendor's tax id or IBAN   *)
(* contradicts, and a printed name of the master is found unless one does. *)
IdentifierOutranksName ==
  (pc = "post" /\ resolution.method # "erp_unavailable") =>
    LET vendor == resolution.vendor
        tax_id == OrEmpty(answer.vendor_tax_id)
        iban == OrEmpty(answer.vendor_iban)
    IN /\ tax_id # "" /\ (\E i \in DOMAIN Vendors : Vendors[i].tax_id = Needle(tax_id)) =>
            vendor # Nobody /\ Vendors[vendor].tax_id = Needle(tax_id)
       /\ resolution.method \in {"fuzzy_name", "semantic"} =>
            \A i \in DOMAIN Vendors : /\ tax_id # "" => Vendors[i].tax_id # tax_id
                                      /\ iban # "" => Vendors[i].iban # iban
       /\ vendor = Nobody => ~ \E i \in DOMAIN Vendors : answer.vendor_name \in Range(Vendors[i].names)

PrintedNames == {a.vendor_name : a \in Answers}
PrintedNumbers == {a.invoice_number : a \in Answers}
PrintedDates == {a.invoice_date : a \in Answers}

(* The invoice as it might be read from another print of it: another date  *)
(* and other decimals, and another spelling of its vendor and number.      *)
Reprint(a, v, n, d, k) ==
  [a EXCEPT !.vendor_name = v, !.invoice_number = n, !.invoice_date = d, !.decimals = k]
Reissues(a) ==
  {Reprint(a, v, n, d, k) :
     v \in {w \in PrintedNames : Fold[OrEmpty(w)] = Fold[OrEmpty(a.vendor_name)]},
     n \in {w \in PrintedNumbers : Fold[OrEmpty(w)] = Fold[OrEmpty(a.invoice_number)]},
     d \in PrintedDates, k \in 1 .. 2}

(* Two gates stand between a re-issued invoice and a second payment: the   *)
(* fingerprint, blind to case, and the ERP's reference, blind to the       *)
(* decimals of the total.  A re-issue with another date passes both only   *)
(* when it differs in both.                                                *)
ReissueMeetsAGate ==
  (pc = "post" /\ entry = NoEntry /\ Identifier(answer.invoice_number) # Missing) =>
    \A other \in Reissues(answer) :
      \/ Fingerprint(other) = Fingerprint(answer)
      \/ Reference(other) = Reference(answer)
      \/ /\ other.decimals # answer.decimals
         /\ <<other.vendor_name, other.invoice_number>> # <<answer.vendor_name, answer.invoice_number>>
-----------------------------------------------------------------------------
(* The inductive strengthening: what was scored and resolved is the answer *)
(* that was taken, and nothing is booked before.                           *)
Read == pc \in {"score", "resolve", "post"}

Resolutions(a) ==
  {Resolve(OrEmpty(a.vendor_name), OrEmpty(a.vendor_tax_id), OrEmpty(a.vendor_iban), indexed) :
     indexed \in BOOLEAN}

DocInv ==
  /\ IInv
  /\ pc \in Points
  /\ parser \in Layouts \cup {"none", "plaintext"}
  /\ markdown \in {"none", "blank", "text"}
  /\ attempt \in 0 .. (Retries + 1)
  /\ pc # "failed" => attempt <= Retries
  /\ Read => answer \in Answers
  /\ score = IF Scored THEN Score(answer) ELSE 0
  /\ IF pc = "post"
     THEN \/ resolution = [vendor |-> Nobody, method |-> "erp_unavailable"]
          \/ resolution \in Resolutions(answer)
     ELSE resolution = Unresolved
  /\ pc # "post" => entry = NoEntry /\ outcome = "none"
=============================================================================
