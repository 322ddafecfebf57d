-------------------------- MODULE VendorResolution --------------------------
(***************************************************************************)
(* resolve_vendor: whom an invoice is from.  Identifiers are compared      *)
(* first, then the name with every name and alias of the vendor master,    *)
(* then the vector index.  A vendor is its position in the master; ""      *)
(* stands for a text that Python takes for false, " " for one of blanks.   *)
(***************************************************************************)
EXTENDS Integers, Sequences, FiniteSetsExt

CONSTANTS
  Vendors,         \* the master: [id, tax_id, iban, names], as the ERP lists it
  Similarity,      \* Similarity[text][name]: token_sort_ratio, 0..100
  Hits,            \* Hits[text]: what the index finds, [id, score], best first
  NameThreshold    \* cfg.vendor_match_threshold

VendorRecord == [id : STRING, tax_id : STRING, iban : STRING, names : Seq(STRING)]
Hit == [id : STRING, score : Nat]

(* Identifiers are compared without their blanks; equal texts have ratio   *)
(* 100.                                                                    *)
ASSUME VendorAssumption ==
  /\ Vendors \in Seq(VendorRecord)
  /\ \A i \in DOMAIN Vendors :
       /\ Vendors[i].names # <<>> /\ " " \notin {Vendors[i].tax_id, Vendors[i].iban}
       /\ Vendors[i].id \notin {Vendors[j].id : j \in 1 .. (i - 1)}
       /\ \A name \in Range(Vendors[i].names), text \in DOMAIN Similarity :
            /\ Similarity[text][name] \in 0 .. 100
            /\ name = text => Similarity[text][name] = 100
  /\ \A text \in DOMAIN Hits : Hits[text] \in Seq(Hit)
  /\ NameThreshold \in 0 .. 100

Nobody == 0

(* The first of the vendors at these positions, if there is one.           *)
Foremost(positions) == IF positions = {} THEN Nobody ELSE Min(positions)

(* replace(" ", "").upper(): the identifiers of the model are compact.     *)
Needle(text) == IF text = " " THEN "" ELSE text

ByTaxId(tax_id) ==
  Foremost({i \in DOMAIN Vendors : tax_id # "" /\ Vendors[i].tax_id = Needle(tax_id)})

ByIban(iban) ==
  Foremost({i \in DOMAIN Vendors : iban # "" /\ Vendors[i].iban = Needle(iban)})

(* The names of the lookup, in the order in which they were put there; one *)
(* that two vendors claim belongs to the last of them.                     *)
Keys == UNION {{<<i, n>> : n \in DOMAIN Vendors[i].names} : i \in DOMAIN Vendors}
Name(key) == Vendors[key[1]].names[key[2]]
Before(key, other) == key[1] < other[1] \/ (key[1] = other[1] /\ key[2] < other[2])
Owner(name) == Max({i \in DOMAIN Vendors : name \in Range(Vendors[i].names)})

(* extractOne(): the first of the keys with the highest ratio.             *)
IsBest(key, text) ==
  \A other \in Keys \ {key} :
    \/ Similarity[text][Name(other)] < Similarity[text][Name(key)]
    \/ Similarity[text][Name(other)] = Similarity[text][Name(key)] /\ Before(key, other)
BestName(text) == Name(CHOOSE key \in Keys : IsBest(key, text))

ByName(text) ==
  IF Vendors # <<>> /\ Similarity[text][BestName(text)] >= NameThreshold
  THEN Owner(BestName(text)) ELSE Nobody

(* KnowledgeBase.search_vendors(): one that could not be filled, or whose   *)
(* search raises, finds nothing; indexed is FALSE then.                    *)
Search(text, indexed) == IF indexed THEN Hits[text] ELSE <<>>

(* Hits below 0.75, and those of vendors the master no longer has, do not  *)
(* count.                                                                  *)
BySemantics(name, indexed) ==
  LET hits == Search(name, indexed)
      known == {h \in DOMAIN hits :
                  hits[h].score >= 75 /\ \E i \in DOMAIN Vendors : Vendors[i].id = hits[h].id}
  IN IF known = {} THEN Nobody
     ELSE CHOOSE i \in DOMAIN Vendors : Vendors[i].id = hits[Min(known)].id

(* Mutant: the name is asked before the identifiers.                       *)
ResolveByNameFirst(name, tax_id, iban, indexed) ==
  CASE name # "" /\ ByName(name) # Nobody -> [vendor |-> ByName(name), method |-> "fuzzy_name"]
    [] ByTaxId(tax_id) # Nobody -> [vendor |-> ByTaxId(tax_id), method |-> "tax_id"]
    [] OTHER -> [vendor |-> Nobody, method |-> "unresolved"]

Resolve(name, tax_id, iban, indexed) ==
  IF ByTaxId(tax_id) # Nobody THEN [vendor |-> ByTaxId(tax_id), method |-> "tax_id"]
  ELSE IF ByIban(iban) # Nobody THEN [vendor |-> ByIban(iban), method |-> "iban"]
  ELSE IF name = "" THEN [vendor |-> Nobody, method |-> "none"]
  ELSE IF ByName(name) # Nobody THEN [vendor |-> ByName(name), method |-> "fuzzy_name"]
  ELSE IF BySemantics(name, indexed) # Nobody
       THEN [vendor |-> BySemantics(name, indexed), method |-> "semantic"]
  ELSE [vendor |-> Nobody, method |-> "unresolved"]
=============================================================================
