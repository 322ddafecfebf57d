----------------------- MODULE DocumentReadingProofs -----------------------
(***************************************************************************)
(* Proofs about DocumentReading and the modules it is made of: the journal *)
(* of JournalBuilder, the vendor of VendorResolution, and the reading that *)
(* leads to them.  All properties are read off IInv, for the journal, or   *)
(* DocInv, for the whole: what was scored and resolved is the answer that  *)
(* was taken.  The rest is about the pure functions: what Q, Score and     *)
(* Resolve are for any arguments.                                          *)
(***************************************************************************)
EXTENDS DocumentReading, FiniteSetTheorems, WellFoundedInduction, TLAPS

(* The journal.                                                            *)

(* Rounding to cents gives a whole number of cents.                        *)
LEMMA QType == ASSUME NEW x \in Int PROVE Q(x) \in Int
  BY DEF Q

(* A printed amount is a whole number of cents, or missing.                *)
LEMMA FieldType ==
  ASSUME NEW f \in Field, NEW default \in Int
  PROVE  QOr(f, default) \in Int /\ (f # Missing => Q(f) \in Int)
  BY QType, PrintedAssumption DEF Field, QOr

(* The figures of the journal are integers, and net and tax add up to the  *)
(* gross whatever was printed.                                             *)
LEMMA Figures ==
  ASSUME subtotal \in Field, tax_amount \in Field, total_amount \in Field
  PROVE  /\ Gross \in Int /\ Tax \in Int /\ Net \in Int /\ VatDebit \in Int
         /\ Net + Tax = Gross
  <1>1. Gross \in Int
    BY FieldType DEF Gross
  <1>2. QOr(tax_amount, 0) \in Int /\ (subtotal # Missing => Q(subtotal) \in Int)
        /\ (tax_amount # Missing => Q(tax_amount) \in Int)
    BY FieldType
  <1>3. NetOfPrinted \in Int
    BY <1>1, <1>2 DEF NetOfPrinted
  <1>4. Tax \in Int
    BY <1>1, <1>2, <1>3 DEF Tax
  <1>5. Net \in Int /\ Net + Tax = Gross
    BY <1>1, <1>3, <1>4 DEF Net
  <1>6. VatDebit \in Int
    BY <1>4 DEF VatDebit
  <1> QED BY <1>1, <1>4, <1>5, <1>6

(* The entry build_journal makes balances exactly for a positive gross and *)
(* a tax that is not negative.                                             *)
LEMMA BuiltBalanced ==
  ASSUME subtotal \in Field, tax_amount \in Field, total_amount \in Field
  PROVE  /\ Built \in Entry
         /\ IsBalanced(Built) <=> Gross > 0 /\ Tax >= 0
  <1>1. Gross \in Int /\ Tax \in Int /\ Net \in Int /\ VatDebit \in Int /\ Net + Tax = Gross
    BY Figures
  <1>2. Built \in Entry
    BY <1>1 DEF Built, Entry
  <1>3. IsBalanced(Built) <=> Net + VatDebit = Gross /\ Net + VatDebit > 0
    BY DEF IsBalanced, Debits, Credits, Built
  <1>4. VatDebit = IF Tax > 0 THEN Tax ELSE 0
    BY DEF VatDebit
  <1> HIDE DEF Gross, Tax, Net, VatDebit
  <1> QED BY <1>1, <1>2, <1>3, <1>4

(* The journal of an invoice that was not booked yet.                      *)
LEMMA InitInv == Init => IInv
  BY DEF Init, IInv, TypeOK, NeverRejectedByErp

(* build_journal, the check of the node and the ERP keep the invariant.    *)
LEMMA StepInv == IInv /\ [Next]_vars => IInv'
  <1> SUFFICES ASSUME IInv, [Next]_vars PROVE IInv'
    OBVIOUS
  <1>0. subtotal \in Field /\ tax_amount \in Field /\ total_amount \in Field
    BY DEF IInv, TypeOK
  <1>1. CASE BuildJournal
    <2>1. entry' = Built /\ UNCHANGED <<subtotal, tax_amount, total_amount, outcome>>
      BY <1>1 DEF BuildJournal, Built
    <2>2. Built' = Built
      BY <2>1 DEF Built, Net, VatDebit, Tax, NetOfPrinted, Gross, QOr
    <2>3. Built \in Entry
      BY <1>0, BuiltBalanced
    <2>4. outcome = "none"
      BY <1>1 DEF BuildJournal, IInv
    <2> QED BY <2>1, <2>2, <2>3, <2>4 DEF IInv, TypeOK, NeverRejectedByErp
  <1>2. ASSUME UNCHANGED <<subtotal, tax_amount, total_amount, entry>> PROVE Built' = Built
    BY <1>2 DEF Built, Net, VatDebit, Tax, NetOfPrinted, Gross, QOr
  <1>3. CASE RefuseUnbalanced
    BY <1>2, <1>3 DEF RefuseUnbalanced, IInv, TypeOK, NeverRejectedByErp
  <1>4. CASE Send
    <2>1. entry # NoEntry /\ IsBalanced(entry) /\ UNCHANGED <<subtotal, tax_amount, total_amount, entry>>
      BY <1>4 DEF Send
    <2>2. ErpTakes(entry) /\ outcome' = "posted"
      BY <1>4, <2>1 DEF Send, ErpTakes, IsBalanced
    <2>3. IsBalanced(entry')
      BY <2>1
    <2>4. Built' = Built
      BY <1>2, <2>1
    <2> HIDE DEF IsBalanced, Built
    <2> QED BY <2>1, <2>2, <2>3, <2>4 DEF IInv, TypeOK, NeverRejectedByErp
  <1>5. CASE UNCHANGED vars
    <2>1. UNCHANGED <<subtotal, tax_amount, total_amount, entry, outcome>>
      BY <1>5 DEF vars
    <2>2. Built' = Built
      BY <1>2, <2>1
    <2> QED BY <2>1, <2>2 DEF IInv, TypeOK, NeverRejectedByErp, IsBalanced, Debits, Credits
  <1> QED BY <1>1, <1>3, <1>4, <1>5 DEF Next

(* Rounding to cents moves an amount by half a cent at most.               *)
LEMMA QIsClose ==
  ASSUME NEW x \in Int
  PROVE  Q(x) \in Int /\ 10 * Q(x) - x \in -5 .. 5
  <1>1. CASE x >= 0
    BY <1>1 DEF Q
  <1>2. CASE x < 0
    BY <1>2 DEF Q
  <1> QED BY <1>1, <1>2

-----------------------------------------------------------------------------
(* Who the vendor is.                                                      *)

(* A set of natural numbers has a least member, and Min finds it.          *)
LEMMA LeastIsMember ==
  ASSUME NEW S, S \subseteq Nat, S # {}
  PROVE  Min(S) \in S /\ \A y \in S : Min(S) <= y
  <1>1. PICK top \in S : TRUE
    OBVIOUS
  <1> DEFINE Below == {T \in SUBSET (0 .. top) : \E x \in S : T = 0 .. x}
  <1>2. IsWellFoundedOn(StrictSubsetOrdering(0 .. top), SUBSET (0 .. top))
    <2>1. IsFiniteSet(0 .. top)
      BY <1>1, FS_Interval
    <2> QED BY <2>1, FS_StrictSubsetOrderingWellFounded, FS_FiniteSubsetsOfFinite
  <1>3. PICK T \in Below : \A U \in Below : ~(<<U, T>> \in StrictSubsetOrdering(0 .. top))
    <2>1. Below \subseteq SUBSET (0 .. top) /\ 0 .. top \in Below
      BY <1>1
    <2> HIDE DEF Below
    <2> QED BY <1>2, <2>1, WFMin
  <1>4. PICK x \in S : T = 0 .. x /\ x <= top
    <2>1. PICK x \in S : T = 0 .. x /\ T \subseteq 0 .. top
      OBVIOUS
    <2>2. x \in 0 .. x /\ x \in Nat /\ top \in Nat
      BY <1>1
    <2> QED BY <2>1, <2>2
  <1>5. ASSUME NEW y \in S PROVE x <= y
    <2>1. x \in Nat /\ y \in Nat /\ top \in Nat
      BY <1>1
    <2> SUFFICES ASSUME y < x PROVE FALSE
      BY <2>1
    <2>2. 0 .. y \subseteq 0 .. x /\ x \in 0 .. x /\ x \notin 0 .. y /\ 0 .. y \subseteq 0 .. top
      BY <1>4, <2>1
    <2>3. 0 .. y \in Below
      BY <2>2
    <2>4. <<0 .. y, 0 .. x>> \in StrictSubsetOrdering(0 .. top)
      BY <1>4, <2>2 DEF StrictSubsetOrdering
    <2> QED BY <1>3, <1>4, <2>3, <2>4
  <1>6. \E z \in S : \A y \in S : z <= y
    BY <1>5
  <1> QED BY <1>6 DEF Min

(* A bounded one has a greatest member, and Max finds it.                  *)
LEMMA GreatestIsMember ==
  ASSUME NEW m \in Nat, NEW S, S \subseteq 0 .. m, S # {}
  PROVE  Max(S) \in S /\ \A y \in S : y <= Max(S)
  <1> DEFINE T == {k \in 0 .. m : m - k \in S}
  <1>0. \A x \in S : m - x \in T
    <2> SUFFICES ASSUME NEW x \in S PROVE m - x \in T
      OBVIOUS
    <2>1. x \in 0 .. m
      OBVIOUS
    <2>2. m - x \in 0 .. m /\ m - (m - x) = x
      BY <2>1
    <2> QED BY <2>2
  <1>1. T \subseteq Nat /\ T # {}
    <2>1. \E x \in S : m - x \in T
      BY <1>0
    <2>2. T \subseteq 0 .. m
      OBVIOUS
    <2>3. 0 .. m \subseteq Nat
      OBVIOUS
    <2> HIDE DEF T
    <2> QED BY <2>1, <2>2, <2>3
  <1>2. Min(T) \in T /\ \A y \in T : Min(T) <= y
    <2> HIDE DEF T
    <2> QED BY <1>1, LeastIsMember
  <1>3. PICK t \in 0 .. m : m - t \in S /\ \A y \in T : t <= y
    BY <1>2
  <1>4. \A y \in S : m - t >= y
    <2> SUFFICES ASSUME NEW y \in S PROVE m - t >= y
      OBVIOUS
    <2>1. t <= m - y
      BY <1>0, <1>3
    <2>2. y \in 0 .. m
      OBVIOUS
    <2> QED BY <2>1, <2>2
  <1>5. \E z \in S : \A y \in S : z >= y
    BY <1>3, <1>4
  <1>6. Max(S) \in S /\ \A y \in S : Max(S) >= y
    BY <1>5 DEF Max
  <1>7. Max(S) \in 0 .. m /\ \A y \in S : y \in 0 .. m
    BY <1>6
  <1> QED BY <1>6, <1>7

(* What the keys of the lookup are.                                        *)
LEMMA KeysFit ==
  ASSUME NEW text \in DOMAIN Similarity
  PROVE  /\ DOMAIN Vendors = 1 .. Len(Vendors) /\ Len(Vendors) \in Nat
         /\ \A key \in Keys :
              /\ key[1] \in DOMAIN Vendors /\ key[2] \in Nat /\ key = <<key[1], key[2]>>
              /\ Name(key) \in Range(Vendors[key[1]].names)
              /\ Similarity[text][Name(key)] \in 0 .. 100
         /\ \A i \in DOMAIN Vendors : \A name \in Range(Vendors[i].names) :
              \E key \in Keys : Name(key) = name
         /\ Vendors # <<>> => Keys # {}
  <1>v. Vendors \in Seq(VendorRecord)
    BY VendorAssumption
  <1>1. DOMAIN Vendors = 1 .. Len(Vendors) /\ Len(Vendors) \in Nat
    BY <1>v
  <1>2. ASSUME NEW i \in DOMAIN Vendors
        PROVE  Vendors[i].names \in Seq(STRING) /\ Vendors[i].names # <<>>
    <2>1. Vendors[i] \in VendorRecord
      BY <1>v, <1>1
    <2>2. Vendors[i].names # <<>>
      BY VendorAssumption
    <2> QED BY <2>1, <2>2 DEF VendorRecord
  <1>3. ASSUME NEW key \in Keys
        PROVE  /\ key[1] \in DOMAIN Vendors /\ key[2] \in Nat /\ key = <<key[1], key[2]>>
               /\ Name(key) \in Range(Vendors[key[1]].names)
    <2>1. PICK i \in DOMAIN Vendors : \E n \in DOMAIN Vendors[i].names : key = <<i, n>>
      BY DEF Keys
    <2>2. PICK n \in DOMAIN Vendors[i].names : key = <<i, n>>
      BY <2>1
    <2>3. n \in Nat
      BY <1>2, <2>2
    <2> QED BY <2>2, <2>3 DEF Name, Range
  <1>4. ASSUME NEW key \in Keys PROVE Similarity[text][Name(key)] \in 0 .. 100
    <2>1. PICK i \in DOMAIN Vendors : Name(key) \in Range(Vendors[i].names)
      BY <1>3
    <2>2. \A name \in Range(Vendors[i].names) : Similarity[text][name] \in 0 .. 100
      BY VendorAssumption, ZenonT(60)
    <2> QED BY <2>1, <2>2
  <1>5. ASSUME NEW i \in DOMAIN Vendors, NEW name \in Range(Vendors[i].names)
        PROVE  \E key \in Keys : Name(key) = name
    <2>1. PICK n \in DOMAIN Vendors[i].names : Vendors[i].names[n] = name
      BY DEF Range
    <2>2. <<i, n>> \in Keys /\ Name(<<i, n>>) = name
      BY <2>1 DEF Keys, Name
    <2> QED BY <2>2
  <1>6. ASSUME Vendors # <<>> PROVE Keys # {}
    <2>1. 1 \in DOMAIN Vendors
      BY <1>v, <1>1, <1>6
    <2>2. 1 \in DOMAIN Vendors[1].names
      BY <1>2, <2>1
    <2>3. <<1, 1>> \in Keys
      BY <2>1, <2>2 DEF Keys
    <2> QED BY <2>3
  <1> QED BY <1>1, <1>3, <1>4, <1>5, <1>6

(* Of the pairs of numbers with the greatest ratio one comes first.        *)
LEMMA FirstOfBest ==
  ASSUME NEW K, NEW ratio, K # {},
         \A k \in K : /\ k[1] \in Nat /\ k[2] \in Nat /\ k = <<k[1], k[2]>>
                     /\ ratio[k] \in 0 .. 100
  PROVE  \E key \in K : \A other \in K \ {key} :
           \/ ratio[other] < ratio[key]
           \/ ratio[other] = ratio[key] /\ Before(key, other)
  <1> DEFINE R == {ratio[k] : k \in K}
  <1>1. PICK top \in R : \A y \in R : y <= top
    <2>1. R \subseteq 0 .. 100 /\ R # {}
      OBVIOUS
    <2> HIDE DEF R
    <2> QED BY <2>1, GreatestIsMember
  <1> DEFINE T == {k \in K : ratio[k] = top}
             I == {k[1] : k \in T}
  <1>2. PICK i \in I : \A y \in I : i <= y
    <2>1. T # {} /\ \A k \in T : k[1] \in Nat
      OBVIOUS
    <2>2. I \subseteq Nat /\ I # {}
      BY <2>1
    <2> HIDE DEF I
    <2> QED BY <2>2, LeastIsMember
  <1> DEFINE N == {k[2] : k \in {l \in T : l[1] = i}}
  <1>3. PICK n \in N : \A y \in N : n <= y
    <2>1. N # {}
      BY <1>2
    <2>2. N \subseteq Nat
      OBVIOUS
    <2> HIDE DEF N
    <2> QED BY <2>1, <2>2, LeastIsMember
  <1>4. PICK key \in T : key[1] = i /\ key[2] = n
    BY <1>3
  <1>5. ASSUME NEW other \in K, other # key, ratio[other] = ratio[key] PROVE Before(key, other)
    <2>1. other \in T /\ other[1] \in I
      BY <1>4, <1>5
    <2>2. i <= other[1]
      BY <1>2, <2>1
    <2>3. ASSUME other[1] = i PROVE n <= other[2]
      <3>1. other[2] \in N
        BY <2>1, <2>3
      <3> QED BY <1>3, <3>1
    <2>4. other[1] # i \/ other[2] # n
      BY <1>4, <1>5
    <2>5. i \in Nat /\ n \in Nat /\ other[1] \in Nat /\ other[2] \in Nat
      BY <1>4
    <2> HIDE DEF T, I, N
    <2> QED BY <1>4, <2>2, <2>3, <2>4, <2>5 DEF Before
  <1>6. ASSUME NEW other \in K PROVE ratio[other] <= ratio[key]
    <2>1. ratio[other] \in R /\ ratio[key] = top
      BY <1>4
    <2> QED BY <1>1, <2>1
  <1>7. ASSUME NEW other \in K PROVE ratio[other] \in Int
    OBVIOUS
  <1>8. ASSUME NEW other \in K \ {key}
        PROVE  \/ ratio[other] < ratio[key]
               \/ ratio[other] = ratio[key] /\ Before(key, other)
    <2>1. ratio[other] \in Int /\ ratio[key] \in Int /\ ratio[other] <= ratio[key]
      BY <1>4, <1>6, <1>7
    <2>2. ratio[other] < ratio[key] \/ ratio[other] = ratio[key]
      BY <2>1
    <2> QED BY <1>5, <2>2
  <1>9. key \in K
    BY <1>4
  <1> HIDE DEF T, R, I, N
  <1> QED BY <1>8, <1>9

(* extractOne() finds a best key.                                          *)
LEMMA BestExists ==
  ASSUME NEW text \in DOMAIN Similarity, Vendors # <<>>
  PROVE  \E key \in Keys : IsBest(key, text)
  <1> DEFINE ratio == [k \in Keys |-> Similarity[text][Name(k)]]
  <1>1. Keys # {}
    BY KeysFit
  <1>2. \A k \in Keys : ratio[k] = Similarity[text][Name(k)]
    OBVIOUS
  <1>3. \A k \in Keys : k[1] \in Nat /\ k[2] \in Nat /\ k = <<k[1], k[2]>>
    BY KeysFit
  <1>4. \A k \in Keys : ratio[k] \in 0 .. 100
    BY <1>2, KeysFit
  <1> HIDE DEF ratio
  <1>5. PICK key \in Keys : \A other \in Keys \ {key} :
           \/ ratio[other] < ratio[key]
           \/ ratio[other] = ratio[key] /\ Before(key, other)
    BY <1>1, <1>3, <1>4, FirstOfBest
  <1> QED BY <1>2, <1>5 DEF IsBest

(* What is assumed of the master, piece by piece.                          *)
LEMMA MasterFits ==
  /\ DOMAIN Vendors = 1 .. Len(Vendors) /\ Len(Vendors) \in Nat
  /\ Nobody \in 0 .. Len(Vendors)
  /\ \A i \in DOMAIN Vendors : Vendors[i].tax_id # " " /\ Vendors[i].iban # " "
  <1>1. Vendors \in Seq(VendorRecord)
    BY VendorAssumption
  <1>2. DOMAIN Vendors = 1 .. Len(Vendors) /\ Len(Vendors) \in Nat
    BY <1>1
  <1>3. ASSUME NEW i \in DOMAIN Vendors PROVE " " \notin {Vendors[i].tax_id, Vendors[i].iban}
    BY VendorAssumption
  <1>4. Nobody \in 0 .. Len(Vendors)
    BY <1>2 DEF Nobody
  <1> QED BY <1>2, <1>3, <1>4

(* A name of the master is as close as can be to itself.                   *)
LEMMA SameTextMatches ==
  ASSUME NEW i \in DOMAIN Vendors, NEW text \in DOMAIN Similarity, text \in Range(Vendors[i].names)
  PROVE  Similarity[text][text] = 100
  <1>1. \A name \in Range(Vendors[i].names), t \in DOMAIN Similarity :
           /\ Similarity[t][name] \in 0 .. 100
           /\ name = t => Similarity[t][name] = 100
    BY VendorAssumption, Zenon
  <1> QED BY <1>1

(* The first of some positions of the master.                              *)
LEMMA ForemostFits ==
  ASSUME NEW positions, positions \subseteq DOMAIN Vendors
  PROVE  /\ Foremost(positions) \in 0 .. Len(Vendors)
         /\ positions = {} => Foremost(positions) = Nobody
         /\ positions # {} => Foremost(positions) \in positions /\ Foremost(positions) # Nobody
  <1>1. DOMAIN Vendors = 1 .. Len(Vendors) /\ Len(Vendors) \in Nat
    BY MasterFits
  <1>2. CASE positions = {}
    BY <1>1, <1>2 DEF Foremost, Nobody
  <1>3. CASE positions # {}
    <2>1. Min(positions) \in positions
      BY <1>1, <1>3, LeastIsMember
    <2> QED BY <1>1, <1>3, <2>1 DEF Foremost, Nobody
  <1> QED BY <1>2, <1>3

(* The name search answers with a vendor of the master, and a name that is *)
(* in the master is found.                                                 *)
LEMMA ByNameFits ==
  ASSUME NEW text \in DOMAIN Similarity
  PROVE  /\ ByName(text) \in 0 .. Len(Vendors)
         /\ (\E i \in DOMAIN Vendors : text \in Range(Vendors[i].names)) => ByName(text) # Nobody
  <1>1. DOMAIN Vendors = 1 .. Len(Vendors) /\ Len(Vendors) \in Nat
    BY KeysFit
  <1>2. CASE Vendors = <<>>
    <2>1. Len(Vendors) = 0
      BY <1>2
    <2> QED BY <1>1, <1>2, <2>1 DEF ByName, Nobody
  <1>3. CASE Vendors # <<>>
    <2> DEFINE key == CHOOSE k \in Keys : IsBest(k, text)
               positions == {i \in DOMAIN Vendors : Name(key) \in Range(Vendors[i].names)}
    <2>1. key \in Keys /\ IsBest(key, text)
      BY <1>3, BestExists
    <2>2. BestName(text) = Name(key)
      BY DEF BestName
    <2> HIDE DEF key
    <2>3. key[1] \in positions /\ positions \subseteq 0 .. Len(Vendors)
      BY <1>1, <2>1, KeysFit
    <2>4. Max(positions) \in positions
      <3> HIDE DEF positions
      <3> QED BY <1>1, <2>3, GreatestIsMember
    <2>5. Owner(Name(key)) \in 1 .. Len(Vendors)
      BY <1>1, <2>4 DEF Owner
    <2>6. ASSUME NEW i \in DOMAIN Vendors, text \in Range(Vendors[i].names)
          PROVE  Similarity[text][Name(key)] >= NameThreshold
      <3>1. PICK other \in Keys : Name(other) = text
        BY <2>6, KeysFit
      <3>2. Similarity[text][Name(other)] = 100
        <4>1. Similarity[text][text] = 100
          BY <2>6, SameTextMatches
        <4> QED BY <3>1, <4>1
      <3>3. Similarity[text][Name(key)] >= 100
        <4>1. CASE other = key
          BY <3>2, <4>1
        <4>2. CASE other # key
          <5>1. \/ Similarity[text][Name(other)] < Similarity[text][Name(key)]
                \/ Similarity[text][Name(other)] = Similarity[text][Name(key)]
            BY <2>1, <3>1, <4>2 DEF IsBest
          <5>2. Similarity[text][Name(key)] \in 0 .. 100
            BY <2>1, KeysFit
          <5> QED BY <3>2, <5>1, <5>2
        <4> QED BY <4>1, <4>2
      <3>4. NameThreshold \in 0 .. 100
        BY VendorAssumption
      <3>5. Similarity[text][Name(key)] \in 0 .. 100
        BY <2>1, KeysFit
      <3> QED BY <3>3, <3>4, <3>5
    <2>7. ByName(text) = IF Similarity[text][Name(key)] >= NameThreshold THEN Owner(Name(key)) ELSE Nobody
      BY <1>3, <2>2 DEF ByName
    <2> QED BY <1>1, <2>5, <2>6, <2>7 DEF Nobody
  <1> QED BY <1>2, <1>3

(* The index answers with a vendor of the master.                          *)
LEMMA BySemanticsFits ==
  ASSUME NEW name \in DOMAIN Hits, NEW indexed \in BOOLEAN
  PROVE  BySemantics(name, indexed) \in 0 .. Len(Vendors)
  <1> DEFINE hits == Search(name, indexed)
             known == {h \in DOMAIN hits :
                  hits[h].score >= 75 /\ \E i \in DOMAIN Vendors : Vendors[i].id = hits[h].id}
  <1>1. DOMAIN Vendors = 1 .. Len(Vendors) /\ Len(Vendors) \in Nat
    BY MasterFits
  <1>2. hits \in Seq(Hit)
    <2>1. Hits[name] \in Seq(Hit)
      BY VendorAssumption
    <2>2. <<>> \in Seq(Hit)
      OBVIOUS
    <2> QED BY <2>1, <2>2 DEF Search
  <1>3. known \subseteq Nat
    <2> HIDE DEF hits
    <2> QED BY <1>2
  <1>4. BySemantics(name, indexed) =
          IF known = {} THEN Nobody
          ELSE CHOOSE i \in DOMAIN Vendors : Vendors[i].id = hits[Min(known)].id
    BY DEF BySemantics
  <1>5. CASE known = {}
    BY <1>1, <1>4, <1>5 DEF Nobody
  <1>6. CASE known # {}
    <2>1. Min(known) \in known
      <3> HIDE DEF known
      <3> QED BY <1>3, <1>6, LeastIsMember
    <2>2. \E i \in DOMAIN Vendors : Vendors[i].id = hits[Min(known)].id
      BY <2>1
    <2> HIDE DEF known, hits
    <2>3. BySemantics(name, indexed) \in DOMAIN Vendors
      BY <1>4, <1>6, <2>2
    <2> QED BY <1>1, <2>3
  <1> QED BY <1>5, <1>6

(* A tax id of the master is found.                                        *)
LEMMA ByTaxIdFits ==
  ASSUME NEW tax_id
  PROVE  /\ ByTaxId(tax_id) \in 0 .. Len(Vendors)
         /\ ByTaxId(tax_id) # Nobody => Vendors[ByTaxId(tax_id)].tax_id = Needle(tax_id)
         /\ ByTaxId(tax_id) = Nobody =>
              \A i \in DOMAIN Vendors : tax_id # "" => Vendors[i].tax_id \notin {tax_id, Needle(tax_id)}
  <1> DEFINE taxed == {i \in DOMAIN Vendors : tax_id # "" /\ Vendors[i].tax_id = Needle(tax_id)}
  <1>1. ByTaxId(tax_id) = Foremost(taxed) /\ taxed \subseteq DOMAIN Vendors
    BY DEF ByTaxId
  <1>2. /\ ByTaxId(tax_id) \in 0 .. Len(Vendors)
        /\ taxed = {} => ByTaxId(tax_id) = Nobody
        /\ taxed # {} => ByTaxId(tax_id) \in taxed /\ ByTaxId(tax_id) # Nobody
    <2> HIDE DEF taxed
    <2> QED BY <1>1, ForemostFits
  <1>3. ASSUME taxed = {}, NEW i \in DOMAIN Vendors, tax_id # ""
        PROVE  Vendors[i].tax_id \notin {tax_id, Needle(tax_id)}
    <2>1. Vendors[i].tax_id # Needle(tax_id) /\ Vendors[i].tax_id # " "
      BY <1>3, MasterFits
    <2> QED BY <2>1 DEF Needle
  <1>4. ASSUME NEW i \in taxed PROVE Vendors[i].tax_id = Needle(tax_id)
    OBVIOUS
  <1> HIDE DEF taxed
  <1> QED BY <1>2, <1>3, <1>4

(* An IBAN of the master is found.                                         *)
LEMMA ByIbanFits ==
  ASSUME NEW iban
  PROVE  /\ ByIban(iban) \in 0 .. Len(Vendors)
         /\ ByIban(iban) = Nobody => \A i \in DOMAIN Vendors : iban # "" => Vendors[i].iban # iban
  <1> DEFINE banked == {i \in DOMAIN Vendors : iban # "" /\ Vendors[i].iban = Needle(iban)}
  <1>1. ByIban(iban) = Foremost(banked) /\ banked \subseteq DOMAIN Vendors
    BY DEF ByIban
  <1>2. /\ ByIban(iban) \in 0 .. Len(Vendors)
        /\ banked # {} => ByIban(iban) # Nobody
    <2> HIDE DEF banked
    <2> QED BY <1>1, ForemostFits
  <1>3. ASSUME banked = {}, NEW i \in DOMAIN Vendors, iban # "" PROVE Vendors[i].iban # iban
    <2>1. Vendors[i].iban # Needle(iban) /\ Vendors[i].iban # " "
      BY <1>3, MasterFits
    <2> QED BY <2>1 DEF Needle
  <1> HIDE DEF banked
  <1> QED BY <1>2, <1>3

(* The names of the master are texts.                                      *)
LEMMA NamesAreTexts ==
  ASSUME NEW i \in DOMAIN Vendors
  PROVE  Missing \notin Range(Vendors[i].names)
  <1>1. Vendors \in Seq(VendorRecord)
    BY VendorAssumption
  <1>2. Vendors[i].names \in Seq(STRING)
    <2>1. Vendors[i] \in VendorRecord
      BY <1>1
    <2> QED BY <2>1 DEF VendorRecord
  <1>3. Range(Vendors[i].names) \subseteq STRING
    BY <1>2 DEF Range
  <1>4. Missing \notin STRING
    BY ReadingAssumption
  <1> QED BY <1>3, <1>4

(* A number is folded to the same whether its blanks are taken off first.  *)
LEMMA NumbersFold ==
  ASSUME NEW a \in Answers
  PROVE  Fold[OrEmpty(Identifier(a.invoice_number))] = Fold[OrEmpty(a.invoice_number)]
  <1>1. CASE a.invoice_number = Missing
    BY <1>1 DEF Identifier
  <1>2. CASE a.invoice_number # Missing
    <2>1. a.invoice_number \in DOMAIN Strip
      BY <1>2, ReadingAssumption
    <2>2. Strip[a.invoice_number] \in STRING /\ Missing \notin STRING
          /\ Fold[Strip[a.invoice_number]] = Fold[a.invoice_number]
      BY <2>1, ReadingAssumption
    <2>3. OrEmpty(Identifier(a.invoice_number)) = Strip[a.invoice_number]
      BY <1>2, <2>2 DEF Identifier, OrEmpty
    <2> QED BY <1>2, <2>2, <2>3 DEF OrEmpty
  <1> QED BY <1>1, <1>2

(* What resolve_vendor answers, of an answer of the model.                 *)
LEMMA ResolutionFits ==
  ASSUME NEW a \in Answers, NEW found \in Resolutions(a),
         NEW name, name = OrEmpty(a.vendor_name),
         NEW tax_id, tax_id = OrEmpty(a.vendor_tax_id),
         NEW iban, iban = OrEmpty(a.vendor_iban)
  PROVE  /\ found.method # "erp_unavailable" /\ found.vendor \in 0 .. Len(Vendors)
         /\ tax_id # "" /\ (\E i \in DOMAIN Vendors : Vendors[i].tax_id = Needle(tax_id)) =>
              found.vendor # Nobody /\ Vendors[found.vendor].tax_id = Needle(tax_id)
         /\ found.method \in {"fuzzy_name", "semantic"} =>
              \A i \in DOMAIN Vendors : /\ tax_id # "" => Vendors[i].tax_id # tax_id
                                        /\ iban # "" => Vendors[i].iban # iban
         /\ found.vendor = Nobody /\ name # "" =>
              ~ \E i \in DOMAIN Vendors : name \in Range(Vendors[i].names)
  <1>0. Nobody \in 0 .. Len(Vendors)
    BY MasterFits
  <1>n. name # "" => name \in DOMAIN Similarity \cap DOMAIN Hits
    <2>1. name # "" => a.vendor_name \in DOMAIN Similarity \cap DOMAIN Hits
      BY ReadingAssumption
    <2> QED BY <2>1 DEF OrEmpty
  <1>r. PICK indexed \in BOOLEAN : found = Resolve(name, tax_id, iban, indexed)
    BY DEF Resolutions
  <1>1. /\ ByTaxId(tax_id) \in 0 .. Len(Vendors)
        /\ ByTaxId(tax_id) # Nobody => Vendors[ByTaxId(tax_id)].tax_id = Needle(tax_id)
        /\ ByTaxId(tax_id) = Nobody =>
             \A i \in DOMAIN Vendors : tax_id # "" => Vendors[i].tax_id \notin {tax_id, Needle(tax_id)}
    BY ByTaxIdFits
  <1>i. /\ ByIban(iban) \in 0 .. Len(Vendors)
        /\ ByIban(iban) = Nobody => \A i \in DOMAIN Vendors : iban # "" => Vendors[i].iban # iban
    BY ByIbanFits
  <1>2. CASE ByTaxId(tax_id) # Nobody
    <2>1. found.vendor = ByTaxId(tax_id) /\ found.method = "tax_id"
      BY <1>r, <1>2 DEF Resolve
    <2> QED BY <1>2, <2>1, <1>1
  <1>3. CASE ByTaxId(tax_id) = Nobody /\ ByIban(iban) # Nobody
    <2>1. found.vendor = ByIban(iban) /\ found.method = "iban"
      BY <1>r, <1>3 DEF Resolve
    <2> QED BY <1>3, <2>1, <1>1, <1>i
  <1>4. CASE ByTaxId(tax_id) = Nobody /\ ByIban(iban) = Nobody
    <2>1. CASE name = ""
      <3>1. found.vendor = Nobody /\ found.method = "none"
        BY <1>r, <1>4, <2>1 DEF Resolve
      <3> QED BY <1>0, <1>1, <1>4, <2>1, <3>1
    <2>2. CASE name # "" /\ ByName(name) # Nobody
      <3>1. found.vendor = ByName(name) /\ found.method = "fuzzy_name"
        BY <1>r, <1>4, <2>2 DEF Resolve
      <3>2. ByName(name) \in 0 .. Len(Vendors)
        BY <1>n, <2>2, ByNameFits
      <3> QED BY <1>4, <2>2, <3>1, <3>2, <1>1, <1>i
    <2>3. CASE name # "" /\ ByName(name) = Nobody
      <3>1. \/ found.vendor = BySemantics(name, indexed) /\ found.method = "semantic"
            \/ found.vendor = Nobody /\ found.method = "unresolved"
        BY <1>r, <1>4, <2>3 DEF Resolve
      <3>2. BySemantics(name, indexed) \in 0 .. Len(Vendors)
        BY <1>n, <2>3, BySemanticsFits
      <3>3. ~ \E i \in DOMAIN Vendors : name \in Range(Vendors[i].names)
        BY <1>n, <2>3, ByNameFits
      <3> QED BY <1>0, <1>1, <1>4, <3>1, <3>2, <3>3, <1>1, <1>i
    <2> QED BY <2>1, <2>2, <2>3
  <1> QED BY <1>2, <1>3, <1>4

-----------------------------------------------------------------------------
(* The score.                                                              *)

(* A share of a whole.                                                     *)
LEMMA ShareFits ==
  ASSUME NEW n \in Nat, n > 0, NEW c \in 0 .. n
  PROVE  (3000 * c + n) \div (2 * n) \in Nat /\ (3000 * c + n) \div (2 * n) <= 1500
  <1> DEFINE x == 3000 * c + n
             d == 2 * n
  <1>1. x \in Nat /\ d \in Nat /\ d > 0 /\ x <= 1500 * d + n /\ n < d
    OBVIOUS
  <1> HIDE DEF x, d
  <1> DEFINE q == x \div d
  <1>2. q \in Int /\ d * q <= x /\ x < d * q + d
    BY <1>1
  <1> HIDE DEF q
  <1>3. q <= 1500
    <2> SUFFICES ASSUME q >= 1501 PROVE FALSE
      BY <1>2
    <2>1. d * q >= d * 1501
      BY <1>1, <1>2
    <2> QED BY <1>1, <1>2, <2>1
  <1>4. q >= 0
    <2> SUFFICES ASSUME q <= -1 PROVE FALSE
      BY <1>2
    <2>1. d * q <= d * (-1)
      BY <1>1, <1>2
    <2> QED BY <1>1, <1>2, <2>1
  <1> QED BY <1>2, <1>3, <1>4 DEF q, x, d

(* A set whose members are all the same has at most one.                   *)
LEMMA OneAtMost ==
  ASSUME NEW S, \A x \in S, y \in S : x = y
  PROVE  Cardinality(S) <= 1
  <1>1. CASE S = {}
    BY <1>1, FS_EmptySet
  <1>2. CASE S # {}
    <2>1. PICK x \in S : S = {x}
      BY <1>2
    <2> QED BY <2>1, FS_Singleton
  <1> QED BY <1>1, <1>2

(* An answer has the fields of the schema.                                 *)
LEMMA AnswersFit == Answers \subseteq Answer /\ NoAnswer \notin Answers
  BY ReadingAssumption

(* What each signal is worth, and what an invoice without lines gets.      *)
LEMMA SignalsFit ==
  ASSUME NEW a \in Answers
  PROVE  /\ Present(a) \in 0 .. 5
         /\ TotalsReconcile(a) \in {0, 1000, 2000}
         /\ LinesSumToSubtotal(a) \in {0, 750, 1500}
         /\ LineArithmetic(a) \in Nat /\ LineArithmetic(a) <= 1500
         /\ SelfReport(a) \in Nat /\ SelfReport(a) <= 1500
         /\ a.line_items = <<>> => LinesSumToSubtotal(a) = 750 /\ LineArithmetic(a) = 750
  <1>0. a \in Answer
    BY AnswersFit
  <1>1. Present(a) \in 0 .. 5
    <2> DEFINE n == One(Identifier(a.invoice_number) # Missing)
               d == One(a.invoice_date # Missing)
               v == One(a.vendor_name # Missing)
               c == One(OrEmpty(a.currency) # "")
               g == One(total_amount # Missing)
    <2>1. n \in {0, 1} /\ d \in {0, 1} /\ v \in {0, 1} /\ c \in {0, 1} /\ g \in {0, 1}
      BY DEF One
    <2>2. Present(a) = n + d + v + c + g
      BY DEF Present
    <2> HIDE DEF n, d, v, c, g
    <2> QED BY <2>1, <2>2
  <1>2. TotalsReconcile(a) \in {0, 1000, 2000}
    BY DEF TotalsReconcile
  <1>3. LinesSumToSubtotal(a) \in {0, 750, 1500}
    BY DEF LinesSumToSubtotal
  <1>4. LineArithmetic(a) \in Nat /\ LineArithmetic(a) <= 1500
    <2>1. CASE Priced(a) = {}
      BY <2>1 DEF LineArithmetic
    <2>2. CASE Priced(a) # {}
      <3> DEFINE fits == Correct(a)
      <3>1. IsFiniteSet(Priced(a))
        <4>1. a.line_items \in Seq(Item)
          BY <1>0 DEF Answer
        <4>2. Len(a.line_items) \in Nat /\ DOMAIN a.line_items = 1 .. Len(a.line_items)
          BY <4>1
        <4>3. IsFiniteSet(1 .. Len(a.line_items))
          BY <4>2, FS_Interval
        <4>4. Priced(a) \subseteq 1 .. Len(a.line_items)
          BY <4>2 DEF Priced
        <4> QED BY <4>3, <4>4, FS_Subset
      <3>2. fits \subseteq Priced(a)
        BY DEF Correct
      <3> HIDE DEF fits
      <3>3. /\ Cardinality(Priced(a)) \in Nat /\ Cardinality(fits) \in Nat
            /\ Cardinality(fits) <= Cardinality(Priced(a))
        BY <3>1, <3>2, FS_Subset, FS_CardinalityType
      <3>4. Cardinality(Priced(a)) # 0
        BY <2>2, <3>1, FS_EmptySet
      <3> DEFINE n == Cardinality(Priced(a))
                 c == Cardinality(fits)
      <3>5. n \in Nat /\ n > 0 /\ c \in 0 .. n
        BY <3>3, <3>4
      <3>6. LineArithmetic(a) = (3000 * c + n) \div (2 * n)
        BY <2>2 DEF LineArithmetic, fits
      <3> HIDE DEF n, c
      <3>7. (3000 * c + n) \div (2 * n) \in Nat /\ (3000 * c + n) \div (2 * n) <= 1500
        BY <3>5, ShareFits
      <3> QED BY <3>6, <3>7
    <2> QED BY <2>1, <2>2
  <1>5. SelfReport(a) \in Nat /\ SelfReport(a) <= 1500
    <2>1. a.confidence \in Int
      BY <1>0 DEF Answer
    <2> QED BY <2>1 DEF SelfReport
  <1>6. ASSUME a.line_items = <<>> PROVE LinesSumToSubtotal(a) = 750 /\ LineArithmetic(a) = 750
    <2>1. Priced(a) = {}
      BY <1>6 DEF Priced
    <2> QED BY <1>6, <2>1 DEF LinesSumToSubtotal, LineArithmetic
  <1> QED BY <1>1, <1>2, <1>3, <1>4, <1>5, <1>6

(* A score is a share of ten thousand, and the sum of its signals.         *)
LEMMA ScoreFits ==
  ASSUME NEW a \in Answers
  PROVE  /\ Score(a) \in Nat /\ Score(a) <= 10000
         /\ Score(a) <= 5000 + TotalsReconcile(a) + LinesSumToSubtotal(a) + LineArithmetic(a)
         /\ a.line_items = <<>> => Score(a) <= 6000 + TotalsReconcile(a)
  <1>1. /\ Present(a) \in 0 .. 5
        /\ TotalsReconcile(a) \in {0, 1000, 2000}
        /\ LinesSumToSubtotal(a) \in {0, 750, 1500}
        /\ LineArithmetic(a) \in Nat /\ LineArithmetic(a) <= 1500
        /\ SelfReport(a) \in Nat /\ SelfReport(a) <= 1500
        /\ a.line_items = <<>> => LinesSumToSubtotal(a) = 750 /\ LineArithmetic(a) = 750
    BY SignalsFit
  <1>2. PICK l \in {0, 500}, o \in {0, 500} :
           /\ Score(a) = 500 * Present(a) + TotalsReconcile(a) + LinesSumToSubtotal(a)
                         + LineArithmetic(a) + l + o + SelfReport(a)
           /\ a.line_items = <<>> => l = 0
    BY DEF Score
  <1> DEFINE p == Present(a)
             t == TotalsReconcile(a)
             s == LinesSumToSubtotal(a)
             r == LineArithmetic(a)
             m == SelfReport(a)
  <1>3. /\ p \in 0 .. 5 /\ t \in {0, 1000, 2000} /\ s \in {0, 750, 1500}
        /\ r \in Nat /\ r <= 1500 /\ m \in Nat /\ m <= 1500
        /\ a.line_items = <<>> => s = 750 /\ r = 750
    BY <1>1
  <1>4. Score(a) = 500 * p + t + s + r + l + o + m
    BY <1>2
  <1> HIDE DEF p, t, s, r, m
  <1>5. Score(a) \in Nat /\ Score(a) <= 10000 /\ Score(a) <= 5000 + t + s + r
    <2>1. /\ t \in Nat /\ t <= 2000 /\ s \in Nat /\ s <= 1500
          /\ l \in Nat /\ l <= 500 /\ o \in Nat /\ o <= 500
      BY <1>3
    <2>2. p \in Nat /\ p <= 5
      BY <1>3
    <2> QED BY <1>3, <1>4, <2>1, <2>2
  <1>6. ASSUME a.line_items = <<>> PROVE Score(a) <= 6000 + t
    <2>1. l = 0 /\ s = 750 /\ r = 750
      BY <1>2, <1>3, <1>6
    <2> QED BY <1>3, <1>4, <2>1
  <1> QED BY <1>5, <1>6 DEF t, s, r

(* Without what the model says of itself a score is at most 0.15 lower.    *)
LEMMA ScoreWithoutReport ==
  ASSUME NEW a \in Answers
  PROVE  /\ Score([a EXCEPT !.confidence = 0]) \in Int
         /\ Score([a EXCEPT !.confidence = 0]) >= Score(a) - 1500
  <1> DEFINE b == [a EXCEPT !.confidence = 0]
  <1>0. a \in Answer
    BY AnswersFit
  <1>1. /\ b.invoice_number = a.invoice_number /\ b.purchase_order_number = a.purchase_order_number
        /\ b.line_items = a.line_items /\ b.confidence = 0
        /\ b.invoice_date = a.invoice_date /\ b.vendor_name = a.vendor_name /\ b.currency = a.currency
    BY <1>0 DEF Answer
  <1> HIDE DEF b
  <1>8. /\ Present(a) \in 0 .. 5
        /\ TotalsReconcile(a) \in {0, 1000, 2000}
        /\ LinesSumToSubtotal(a) \in {0, 750, 1500}
        /\ LineArithmetic(a) \in Nat /\ LineArithmetic(a) <= 1500
        /\ SelfReport(a) \in Nat /\ SelfReport(a) <= 1500
        /\ a.line_items = <<>> => LinesSumToSubtotal(a) = 750 /\ LineArithmetic(a) = 750
    BY SignalsFit
  <1>2. Present(b) = Present(a)
    BY <1>1 DEF Present
  <1>3. TotalsReconcile(b) = TotalsReconcile(a)
    BY DEF TotalsReconcile
  <1>4. LinesSumToSubtotal(b) = LinesSumToSubtotal(a)
    <2>1. ComputedSubtotal(b) = ComputedSubtotal(a)
      BY <1>1 DEF ComputedSubtotal
    <2> QED BY <1>1, <2>1 DEF LinesSumToSubtotal
  <1>5. LineArithmetic(b) = LineArithmetic(a)
    <2>1. Priced(b) = Priced(a)
      BY <1>1 DEF Priced
    <2>2. Correct(b) = Correct(a)
      BY <1>1, <2>1 DEF Correct
    <2> QED BY <2>1, <2>2 DEF LineArithmetic
  <1>6. SelfReport(b) = 0
    BY <1>1 DEF SelfReport
  <1> DEFINE p == Present(a)
             t == TotalsReconcile(a)
             s == LinesSumToSubtotal(a)
             r == LineArithmetic(a)
             m == SelfReport(a)
  <1>7. /\ p \in 0 .. 5 /\ t \in {0, 1000, 2000} /\ s \in {0, 750, 1500}
        /\ r \in Nat /\ r <= 1500 /\ m \in Nat /\ m <= 1500
    BY <1>8
  <1>9. PICK l \in {0, 500}, o \in {0, 500} :
           /\ Score(a) = 500 * p + t + s + r + l + o + m
           /\ Score(b) = 500 * p + t + s + r + l + o + SelfReport(b)
    <2>1. Score(b) = 500 * p + t + s + r + (IF b.line_items # <<>> THEN 500 ELSE 0)
                     + (IF Identifier(b.purchase_order_number) # Missing THEN 500 ELSE 0) + SelfReport(b)
      BY <1>2, <1>3, <1>4, <1>5 DEF Score
    <2>2. Score(a) = 500 * p + t + s + r + (IF a.line_items # <<>> THEN 500 ELSE 0)
                     + (IF Identifier(a.purchase_order_number) # Missing THEN 500 ELSE 0) + m
      BY DEF Score
    <2> HIDE DEF p, t, s, r, m
    <2> QED BY <1>1, <2>1, <2>2
  <1> HIDE DEF p, t, s, r, m
  <1>10. Score(b) \in Int /\ Score(b) >= Score(a) - 1500
    BY <1>6, <1>7, <1>9
  <1> QED BY <1>10 DEF b

-----------------------------------------------------------------------------
(* The reading.                                                            *)

(* The invariant holds before the document was read.                       *)
LEMMA DocInitInv == DocInit => DocInv
  <1> SUFFICES ASSUME DocInit PROVE DocInv
    OBVIOUS
  <1>1. IInv
    BY DEF DocInit, IInv, TypeOK, Field, NeverRejectedByErp
  <1>2. Retries \in Nat
    BY LimitsAssumption
  <1> QED BY <1>1, <1>2 DEF DocInit, DocInv, Points, Read, Scored

(* A step that leaves the figures and the answer leaves what is made of    *)
(* them.                                                                   *)
LEMMA ReadingStays ==
  ASSUME UNCHANGED vars, answer' = answer
  PROVE  /\ IInv => IInv'
         /\ Score(answer)' = Score(answer)
         /\ Resolutions(answer)' = Resolutions(answer)
         /\ entry' = entry /\ outcome' = outcome
  <1>1. UNCHANGED <<subtotal, tax_amount, total_amount, entry, outcome>>
    BY DEF vars
  <1>2. ASSUME IInv PROVE IInv'
    BY <1>2, StepInv
  <1>3. Score(answer)' = Score(answer)
    BY <1>1 DEF Score, Present, TotalsReconcile, LinesSumToSubtotal
  <1>4. Resolutions(answer)' = Resolutions(answer)
    BY DEF Resolutions
  <1> QED BY <1>1, <1>2, <1>3, <1>4

(* Every step keeps the invariant.                                         *)
LEMMA DocStepInv == DocInv /\ [DocNext]_docVars => DocInv'
  <1> SUFFICES ASSUME DocInv, [DocNext]_docVars PROVE DocInv'
    OBVIOUS
  <1>0. Retries \in Nat /\ attempt \in Nat
    BY LimitsAssumption DEF DocInv
  <1>1. ASSUME UNCHANGED <<vars, score, resolution>>, ~Scored, pc' \in Points, ~Scored',
               Read' => Read /\ answer' = answer,
               parser' \in Layouts \cup {"none", "plaintext"},
               markdown' \in {"none", "blank", "text"},
               attempt' \in 0 .. (Retries + 1), pc' # "failed" => attempt' <= Retries
        PROVE  DocInv'
    <2>1. IInv' /\ entry' = entry /\ outcome' = outcome
      <3>1. UNCHANGED <<subtotal, tax_amount, total_amount, entry, outcome>>
        BY <1>1 DEF vars
      <3>2. IInv'
        BY <1>1, StepInv DEF DocInv
      <3> QED BY <3>1, <3>2
    <2>2. pc # "post" /\ pc' # "post"
      BY <1>1 DEF Scored
    <2>3. score' = 0 /\ resolution' = Unresolved
      BY <1>1, <2>2 DEF DocInv, Unresolved
    <2>4. Read' => answer' \in Answers
      BY <1>1 DEF DocInv
    <2>5. entry' = NoEntry /\ outcome' = "none"
      BY <2>1, <2>2 DEF DocInv
    <2> QED BY <1>1, <2>1, <2>2, <2>3, <2>4, <2>5 DEF DocInv
  <1>2. CASE ReadText \/ ReadLayout \/ Unreadable
    BY <1>0, <1>1, <1>2 DEF ReadText, ReadLayout, Unreadable, DocInv, Scored, Read, Points, Layouts, vars
  <1>3. CASE AnswerUnusable \/ ModelRaises
    <2>1. attempt <= Retries /\ attempt + 1 \in 0 .. (Retries + 1)
      BY <1>0, <1>3 DEF AnswerUnusable, ModelRaises, DocInv
    <2>2. attempt # Retries => attempt + 1 <= Retries
      BY <1>0, <2>1
    <2>3. UNCHANGED <<vars, score, resolution, parser, markdown>> /\ pc = "extract"
          /\ pc' \in {"extract", "failed", "raised"}
          /\ attempt' \in 0 .. (Retries + 1) /\ (pc' # "failed" => attempt' <= Retries)
      BY <1>0, <1>3, <2>1, <2>2 DEF AnswerUnusable, ModelRaises, DocInv, vars
    <2>4. pc' \in Points /\ ~Read' /\ ~Scored /\ ~Scored'
      BY <2>3 DEF Scored, Read, Points
    <2>5. parser' \in Layouts \cup {"none", "plaintext"} /\ markdown' \in {"none", "blank", "text"}
      BY <2>3 DEF DocInv
    <2>6. UNCHANGED <<vars, score, resolution>>
      BY <2>3
    <2>7. attempt' \in 0 .. (Retries + 1) /\ (pc' # "failed" => attempt' <= Retries)
      BY <2>3
    <2>8. Read' => Read /\ answer' = answer
      BY <2>4
    <2> QED BY <1>1, <2>4, <2>5, <2>6, <2>7, <2>8
  <1>4. CASE AnswerUsable
    <2>1. PICK a \in Answers :
            /\ answer' = a /\ subtotal' = Amount(a.subtotal) /\ tax_amount' = Amount(a.tax_amount)
            /\ total_amount' = Amount(a.total_amount)
      BY <1>4 DEF AnswerUsable
    <2>2. subtotal' \in Field /\ tax_amount' \in Field /\ total_amount' \in Field
      BY <2>1, FiguresArePrinted
    <2>3. /\ pc = "extract" /\ pc' = "score" /\ attempt' = 0
          /\ UNCHANGED <<entry, outcome, parser, markdown, score, resolution>>
      BY <1>4 DEF AnswerUsable, journal
    <2>4. entry = NoEntry /\ outcome = "none" /\ score = 0 /\ resolution = Unresolved
      BY <2>3 DEF DocInv, Scored
    <2>5. IInv'
      BY <2>2, <2>3, <2>4 DEF IInv, TypeOK, NeverRejectedByErp, DocInv, Field
    <2> QED BY <1>0, <2>1, <2>3, <2>4, <2>5 DEF DocInv, Read, Scored, Points
  <1>5. CASE ScoreExtraction
    <2>1. /\ pc = "score" /\ pc' = "resolve" /\ score' = Score(answer)
          /\ UNCHANGED <<vars, parser, markdown, attempt, answer, resolution>>
      BY <1>5 DEF ScoreExtraction
    <2>2. IInv' /\ Score(answer)' = Score(answer) /\ entry' = entry /\ outcome' = outcome
      BY <2>1, ReadingStays DEF DocInv
    <2>3. score' = Score(answer)'
      BY <2>1, <2>2
    <2> QED BY <2>1, <2>2, <2>3 DEF DocInv, Read, Scored, Points
  <1>6. CASE ResolveVendor
    <2>1. /\ pc = "resolve" /\ pc' = "post"
          /\ UNCHANGED <<vars, parser, markdown, attempt, answer, score>>
          /\ \/ resolution' = [vendor |-> Nobody, method |-> "erp_unavailable"]
             \/ resolution' \in Resolutions(answer)
      BY <1>6 DEF ResolveVendor, Resolutions
    <2>2. /\ IInv' /\ Score(answer)' = Score(answer) /\ Resolutions(answer)' = Resolutions(answer)
          /\ entry' = entry /\ outcome' = outcome
      BY <2>1, ReadingStays DEF DocInv
    <2>3. score' = Score(answer)'
      BY <2>1, <2>2 DEF DocInv, Scored
    <2>4. \/ resolution' = [vendor |-> Nobody, method |-> "erp_unavailable"]
          \/ resolution' \in Resolutions(answer)'
      BY <2>1, <2>2
    <2> QED BY <2>1, <2>2, <2>3, <2>4 DEF DocInv, Read, Scored, Points
  <1>7. CASE Post
    <2>1. pc = "post" /\ Next /\ UNCHANGED <<pc, parser, markdown, attempt, answer, score, resolution>>
      BY <1>7 DEF Post, reading
    <2>2. IInv'
      BY <2>1, StepInv DEF DocInv
    <2>3. UNCHANGED <<subtotal, tax_amount, total_amount>>
      BY <2>1 DEF Next, BuildJournal, RefuseUnbalanced, Send
    <2>4. Score(answer)' = Score(answer)
      BY <2>1, <2>3 DEF Score, Present, TotalsReconcile, LinesSumToSubtotal
    <2>5. Resolutions(answer)' = Resolutions(answer)
      BY <2>1 DEF Resolutions
    <2>6. score' = Score(answer)' /\ (\/ resolution' = [vendor |-> Nobody, method |-> "erp_unavailable"]
                                      \/ resolution' \in Resolutions(answer)')
      BY <2>1, <2>4, <2>5 DEF DocInv, Scored
    <2> QED BY <2>1, <2>2, <2>6 DEF DocInv, Read, Scored, Points
  <1>8. CASE UNCHANGED docVars
    <2>1. UNCHANGED <<vars, pc, parser, markdown, attempt, answer, score, resolution>>
      BY <1>8 DEF docVars, reading
    <2>2. /\ IInv' /\ Score(answer)' = Score(answer) /\ Resolutions(answer)' = Resolutions(answer)
          /\ entry' = entry /\ outcome' = outcome
      BY <2>1, ReadingStays DEF DocInv
    <2>3. score' = IF Scored THEN Score(answer)' ELSE 0
      BY <2>1, <2>2 DEF DocInv
    <2>4. IF pc = "post"
          THEN \/ resolution' = [vendor |-> Nobody, method |-> "erp_unavailable"]
               \/ resolution' \in Resolutions(answer)'
          ELSE resolution' = Unresolved
      BY <2>1, <2>2 DEF DocInv
    <2>5. Scored' = Scored /\ Read' = Read
      BY <2>1 DEF Scored, Read
    <2> QED BY <2>1, <2>2, <2>3, <2>4, <2>5 DEF DocInv
  <1> QED BY <1>2, <1>3, <1>4, <1>5, <1>6, <1>7, <1>8 DEF DocNext

(* What was scored and resolved is the answer that was taken, and nothing  *)
(* is booked before a vendor was looked for.                               *)
THEOREM ReadingInvariant == DocSpec => []DocInv
  BY DocInitInv, DocStepInv, PTL DEF DocSpec

(* DocTypeOK: the attempts stay within the retries, a score within one,    *)
(* and the vendor of an invoice is one of the master.                      *)
THEOREM ReadingTypes == DocSpec => []DocTypeOK
  <1>1. DocInv => DocTypeOK
    <2> SUFFICES ASSUME DocInv PROVE DocTypeOK
      OBVIOUS
    <2>1. score \in Nat /\ score <= 10000
      <3>1. CASE Scored
        <4>1. answer \in Answers /\ score = Score(answer)
          BY <3>1 DEF DocInv, Scored, Read
        <4>2. PICK a \in Answers : a = answer
          BY <4>1
        <4>3. Score(a) \in Nat /\ Score(a) <= 10000
          BY ScoreFits
        <4> QED BY <4>1, <4>2, <4>3
      <3>2. CASE ~Scored
        BY <3>2 DEF DocInv
      <3> QED BY <3>1, <3>2
    <2>2. resolution.vendor \in 0 .. Len(Vendors)
      <3>0. Nobody \in 0 .. Len(Vendors)
        BY MasterFits
      <3>1. CASE pc = "post" /\ resolution \in Resolutions(answer)
        <4>1. answer \in Answers
          BY <3>1 DEF DocInv, Read
        <4> QED BY <3>1, <4>1, ResolutionFits
      <3>2. CASE pc = "post" /\ resolution \notin Resolutions(answer)
        BY <3>0, <3>2 DEF DocInv
      <3>3. CASE pc # "post"
        BY <3>0, <3>3 DEF DocInv, Unresolved
      <3> QED BY <3>1, <3>2, <3>3
    <2>3. answer = NoAnswer => pc \in {"parse", "extract", "failed", "raised"}
      BY AnswersFit DEF DocInv, Read, Points
    <2>4. TypeOK
      BY DEF DocInv, IInv
    <2>5. /\ pc \in Points /\ attempt \in 0 .. (Retries + 1)
          /\ parser \in Layouts \cup {"none", "plaintext"}
          /\ markdown \in {"none", "blank", "text"}
      BY DEF DocInv
    <2> QED BY <2>1, <2>2, <2>3, <2>4, <2>5 DEF DocTypeOK
  <1> QED BY <1>1, ReadingInvariant, PTL

(* For a gate above 0.70 (the code's is 0.75): an invoice is cleared with  *)
(* at most one arithmetic check failed, with none if it has no lines, and  *)
(* would miss the gate by 0.15 at most if the model kept its opinion of    *)
(* itself back.                                                            *)
THEOREM ClearedInvoicesAddUp ==
  ASSUME Gate > 7000
  PROVE  DocSpec => []ClearedOnEvidence
  <1>1. DocInv => ClearedOnEvidence
    <2> SUFFICES ASSUME DocInv, Cleared PROVE ClearedOnEvidence
      BY DEF ClearedOnEvidence
    <2>1. answer \in Answers /\ score = Score(answer) /\ score >= Gate
      BY DEF DocInv, Cleared, Scored, Read
    <2>2. PICK a \in Answers : a = answer
      BY <2>1
    <2> DEFINE t == TotalsReconcile(a)
               s == LinesSumToSubtotal(a)
               r == LineArithmetic(a)
               whole == Score(a)
               bare == Score([a EXCEPT !.confidence = 0])
    <2>3. /\ whole \in Nat /\ whole <= 10000 /\ whole <= 5000 + t + s + r
          /\ a.line_items = <<>> => whole <= 6000 + t
          /\ t \in {0, 1000, 2000} /\ s \in {0, 750, 1500} /\ r \in Nat /\ r <= 1500
      <3>1. /\ whole \in Nat /\ whole <= 10000 /\ whole <= 5000 + t + s + r
            /\ a.line_items = <<>> => whole <= 6000 + t
        BY ScoreFits
      <3>2. t \in {0, 1000, 2000} /\ s \in {0, 750, 1500} /\ r \in Nat /\ r <= 1500
        BY SignalsFit
      <3> QED BY <3>1, <3>2
    <2>4. Gate \in Nat /\ Gate <= whole
      BY <2>1, <2>2, LimitsAssumption
    <2>5. bare \in Int /\ bare >= whole - 1500
      BY ScoreWithoutReport
    <2> HIDE DEF t, s, r, bare, whole
    <2>6. ~(t = 0 /\ s = 0) /\ ~(t = 0 /\ r = 0) /\ ~(s = 0 /\ r = 0)
      BY <2>3, <2>4
    <2>7. a.line_items = <<>> => t > 0
      BY <2>3, <2>4
    <2>8. bare >= Gate - 1500
      BY <2>3, <2>4, <2>5
    <2>9. Cardinality(FailedChecks(a)) <= 1
      <3>1. FailedChecks(a) \subseteq {"totals_reconcile", "lines_sum_to_subtotal", "line_arithmetic"}
        BY DEF FailedChecks, Checks
      <3>2. /\ "totals_reconcile" \in FailedChecks(a) => t = 0
            /\ "lines_sum_to_subtotal" \in FailedChecks(a) => s = 0
            /\ "line_arithmetic" \in FailedChecks(a) => r = 0
        BY DEF FailedChecks, Checks, t, s, r
      <3>3. \A x \in FailedChecks(a), y \in FailedChecks(a) : x = y
        BY <2>6, <3>1, <3>2
      <3> QED BY <3>3, OneAtMost
    <2> QED BY <2>2, <2>7, <2>8, <2>9 DEF ClearedOnEvidence, t, s, r, bare
  <1> QED BY <1>1, ReadingInvariant, PTL

(* build_journal may let the net give way, but not by more than six cents  *)
(* when the signal said that the totals reconcile.                         *)
THEOREM ReconciledNetsAreBooked == DocSpec => []ReconciledIsBooked
  <1>1. DocInv => ReconciledIsBooked
    <2> SUFFICES ASSUME DocInv, outcome = "posted", TotalsReconcile(answer) = 2000
                 PROVE  entry.expense - Q(subtotal) \in -6 .. 6
      BY DEF ReconciledIsBooked
    <2>0. Missing \notin {subtotal, tax_amount, total_amount}
      BY DEF TotalsReconcile
    <2>2. subtotal \in Int /\ tax_amount \in Int /\ total_amount \in Int
      <3>1. Printed \subseteq Int
        BY PrintedAssumption
      <3>2. {subtotal, tax_amount, total_amount} \subseteq Printed \cup {Missing}
        BY DEF DocInv, IInv, TypeOK, Field
      <3>3. ASSUME NEW x \in {subtotal, tax_amount, total_amount} PROVE x \in Int
        <4>1. x # Missing
          BY <2>0
        <4>2. x \in Printed \cup {Missing}
          BY <3>2
        <4>3. x \in Printed
          BY <4>1, <4>2
        <4> QED BY <3>1, <4>3
      <3> QED BY <3>3
    <2>1. /\ subtotal # Missing /\ tax_amount # Missing /\ total_amount # Missing
          /\ subtotal + tax_amount - total_amount \in -50 .. 50
      <3>1. TotalsReconcile(answer) = IF Close(subtotal + tax_amount, total_amount) THEN 2000 ELSE 0
        BY <2>0 DEF TotalsReconcile
      <3>2. Close(subtotal + tax_amount, total_amount)
        BY <3>1
      <3>3. subtotal + tax_amount - total_amount \in -50 .. 50
        BY <2>2, <3>2 DEF Close
      <3>4. subtotal # Missing /\ tax_amount # Missing /\ total_amount # Missing
        BY <2>0
      <3> QED BY <3>3, <3>4
    <2>3. entry = Built
      BY DEF DocInv, IInv
    <2>4. Gross = Q(total_amount) /\ Tax = Q(tax_amount) /\ NetOfPrinted = Q(subtotal)
      BY <2>1 DEF Gross, QOr, Tax, NetOfPrinted
    <2>5. entry.expense = Q(subtotal) \/ entry.expense = Q(total_amount) - Q(tax_amount)
      BY <2>3, <2>4 DEF Built, Net
    <2> DEFINE n == Q(subtotal)
               x == Q(tax_amount)
               g == Q(total_amount)
    <2>6. /\ n \in Int /\ 10 * n - subtotal \in -5 .. 5
          /\ x \in Int /\ 10 * x - tax_amount \in -5 .. 5
          /\ g \in Int /\ 10 * g - total_amount \in -5 .. 5
      BY <2>2, QIsClose
    <2>7. entry.expense = n \/ entry.expense = g - x
      BY <2>5
    <2> HIDE DEF n, x, g
    <2>8. g - x - n \in -6 .. 6
      BY <2>1, <2>2, <2>6
    <2>9. entry.expense - n \in -6 .. 6
      BY <2>6, <2>7, <2>8
    <2> QED BY <2>9 DEF n
  <1> QED BY <1>1, ReadingInvariant, PTL

(* If no vendor of the master has an empty name: no similarity outranks an *)
(* identifier, and a printed name of the master is found.                  *)
THEOREM IdentifiersComeFirst ==
  ASSUME \A i \in DOMAIN Vendors : "" \notin Range(Vendors[i].names)
  PROVE  DocSpec => []IdentifierOutranksName
  <1>1. DocInv => IdentifierOutranksName
    <2> SUFFICES ASSUME DocInv, pc = "post", resolution.method # "erp_unavailable"
                 PROVE  IdentifierOutranksName
      BY DEF IdentifierOutranksName
    <2>0. answer \in Answers
      BY DEF DocInv, Read
    <2>1. resolution \in Resolutions(answer)
      <3>1. \/ resolution = [vendor |-> Nobody, method |-> "erp_unavailable"]
            \/ resolution \in Resolutions(answer)
        BY DEF DocInv
      <3>2. ASSUME resolution = [vendor |-> Nobody, method |-> "erp_unavailable"]
            PROVE  resolution.method = "erp_unavailable"
        BY <3>2
      <3> QED BY <3>1, <3>2
    <2>2. PICK a \in Answers, found \in Resolutions(answer) : a = answer /\ found = resolution
      BY <2>0, <2>1
    <2>n. PICK name, tax_id, iban : /\ name = OrEmpty(a.vendor_name)
                                    /\ tax_id = OrEmpty(a.vendor_tax_id) /\ iban = OrEmpty(a.vendor_iban)
      OBVIOUS
    <2>f. found \in Resolutions(a)
      BY <2>2
    <2>3. /\ found.method # "erp_unavailable" /\ found.vendor \in 0 .. Len(Vendors)
          /\ tax_id # "" /\ (\E i \in DOMAIN Vendors : Vendors[i].tax_id = Needle(tax_id)) =>
               found.vendor # Nobody /\ Vendors[found.vendor].tax_id = Needle(tax_id)
          /\ found.method \in {"fuzzy_name", "semantic"} =>
               \A i \in DOMAIN Vendors : /\ tax_id # "" => Vendors[i].tax_id # tax_id
                                         /\ iban # "" => Vendors[i].iban # iban
          /\ found.vendor = Nobody /\ name # "" =>
               ~ \E i \in DOMAIN Vendors : name \in Range(Vendors[i].names)
      BY <2>f, <2>n, ResolutionFits, ZenonT(180)
    <2>4. ASSUME NEW i \in DOMAIN Vendors, a.vendor_name \in Range(Vendors[i].names)
          PROVE  OrEmpty(a.vendor_name) = a.vendor_name /\ a.vendor_name # ""
      BY <2>4, NamesAreTexts DEF OrEmpty
    <2>5. found.vendor = Nobody => ~ \E i \in DOMAIN Vendors : a.vendor_name \in Range(Vendors[i].names)
      BY <2>3, <2>4, <2>n
    <2> QED BY <2>2, <2>3, <2>5, <2>n DEF IdentifierOutranksName
  <1> QED BY <1>1, ReadingInvariant, PTL

(* A re-issued invoice that passes the fingerprint and the ERP's reference *)
(* differs in both from the one that was paid.                             *)
THEOREM ReissuesMeetAGate == DocSpec => []ReissueMeetsAGate
  <1>1. DocInv => ReissueMeetsAGate
    <2> SUFFICES ASSUME DocInv, pc = "post", NEW other \in Reissues(answer)
                 PROVE  \/ Fingerprint(other) = Fingerprint(answer)
                        \/ Reference(other) = Reference(answer)
                        \/ /\ other.decimals # answer.decimals
                           /\ <<other.vendor_name, other.invoice_number>>
                                # <<answer.vendor_name, answer.invoice_number>>
      BY DEF ReissueMeetsAGate
    <2>1. PICK a \in Answers : a = answer
      BY DEF DocInv, Read
    <2>2. PICK v \in PrintedNames, n \in PrintedNumbers, d \in PrintedDates, k \in 1 .. 2 :
            /\ Fold[OrEmpty(v)] = Fold[OrEmpty(a.vendor_name)]
            /\ Fold[OrEmpty(n)] = Fold[OrEmpty(a.invoice_number)]
            /\ other = [a EXCEPT !.vendor_name = v, !.invoice_number = n, !.invoice_date = d, !.decimals = k]
      <3>1. other \in Reissues(a)
        BY <2>1
      <3>2. PICK v \in {w \in PrintedNames : Fold[OrEmpty(w)] = Fold[OrEmpty(a.vendor_name)]},
                 n \in {w \in PrintedNumbers : Fold[OrEmpty(w)] = Fold[OrEmpty(a.invoice_number)]},
                 d \in PrintedDates, k \in 1 .. 2 :
              other = Reprint(a, v, n, d, k)
        BY <3>1 DEF Reissues
      <3> QED BY <3>2 DEF Reprint
    <2>3. /\ other.vendor_name = v /\ other.invoice_number = n /\ other.decimals = k
          /\ other.total_amount = a.total_amount
      BY <2>2, AnswersFit DEF Answer
    <2>4. PICK b \in Answers : n = b.invoice_number
      BY <2>2 DEF PrintedNumbers
    <2>5. Fold[OrEmpty(Identifier(n))] = Fold[OrEmpty(Identifier(a.invoice_number))]
      BY <2>2, <2>4, NumbersFold
    <2>6. CASE k = a.decimals
      <3>1. WrittenTotal(other) = WrittenTotal(a)
        BY <2>3, <2>6 DEF WrittenTotal
      <3> QED BY <2>1, <2>2, <2>3, <2>5, <3>1 DEF Fingerprint
    <2>7. CASE v = a.vendor_name /\ n = a.invoice_number
      BY <2>1, <2>3, <2>7 DEF Reference
    <2>8. CASE k # a.decimals /\ ~(v = a.vendor_name /\ n = a.invoice_number)
      BY <2>1, <2>3, <2>8
    <2> QED BY <2>6, <2>7, <2>8
  <1> QED BY <1>1, ReadingInvariant, PTL

-----------------------------------------------------------------------------
(* In every reachable state the entry is the one build_journal derives and *)
(* an entry that was sent had passed the node's check.                     *)
THEOREM JournalInvariant == Spec => []IInv
  BY InitInv, StepInv, PTL DEF Spec

(* The journal of an invoice that was read is one of build_journal.        *)
LEMMA ReadJournals == DocSpec => []IInv
  <1>1. DocInv => IInv
    BY DEF DocInv
  <1> QED BY <1>1, ReadingInvariant, PTL

(* For any printed amounts and any fields missing, the node posts exactly  *)
(* the invoices with a positive total and a tax that is not negative.      *)
THEOREM BalancedExactly ==
  (Spec => []BalancedUnlessTaxNegative) /\ (DocSpec => []BalancedUnlessTaxNegative)
  <1>1. IInv => BalancedUnlessTaxNegative
    <2> SUFFICES ASSUME IInv, entry # NoEntry
                 PROVE  IsBalanced(entry) <=> Gross > 0 /\ Tax >= 0
      BY DEF BalancedUnlessTaxNegative
    <2>1. entry = Built
      BY DEF IInv
    <2>2. IsBalanced(Built) <=> Gross > 0 /\ Tax >= 0
      BY BuiltBalanced DEF IInv, TypeOK
    <2> HIDE DEF IsBalanced, Built, Gross, Tax
    <2> QED BY <2>1, <2>2
  <1> QED BY <1>1, JournalInvariant, ReadJournals, PTL

(* No entry the node sends is rejected as unbalanced.                      *)
THEOREM ErpNeverRejects ==
  (Spec => []NeverRejectedByErp) /\ (DocSpec => []NeverRejectedByErp)
  <1>1. IInv => NeverRejectedByErp
    BY DEF IInv
  <1> QED BY <1>1, JournalInvariant, ReadJournals, PTL

(* What is posted is what is printed, and a contradiction between the      *)
(* printed figures is resolved against the net.                            *)
THEOREM PrintedIsBooked ==
  (Spec => []PrintedFiguresAreBooked) /\ (DocSpec => []PrintedFiguresAreBooked)
  <1>1. IInv => PrintedFiguresAreBooked
    <2> SUFFICES ASSUME IInv, outcome = "posted"
                 PROVE  /\ total_amount # Missing /\ entry.payable = Q(total_amount)
                        /\ tax_amount # Missing => entry.vat = Q(tax_amount)
                        /\ subtotal # Missing =>
                             \/ entry.expense = Q(subtotal)
                             \/ /\ tax_amount # Missing
                                /\ Q(subtotal) + Q(tax_amount) # Q(total_amount)
      BY DEF PrintedFiguresAreBooked
    <2>0. subtotal \in Field /\ tax_amount \in Field /\ total_amount \in Field
      BY DEF IInv, TypeOK
    <2>1. entry = Built /\ IsBalanced(entry)
      BY DEF IInv
    <2>2. Gross > 0 /\ Tax >= 0
      BY <2>0, <2>1, BuiltBalanced
    <2>3. Gross \in Int /\ Tax \in Int /\ Net \in Int
      BY <2>0, Figures
    <2>4. total_amount # Missing
      BY <2>2 DEF Gross, QOr
    <2>5. Gross = Q(total_amount)
      BY <2>4 DEF Gross, QOr
    <2>6. VatDebit = Tax
      BY <2>2, <2>3 DEF VatDebit
    <2>7. tax_amount # Missing => Tax = Q(tax_amount)
      BY DEF Tax
    <2>8. subtotal # Missing => NetOfPrinted = Q(subtotal) /\ Q(subtotal) \in Int
      BY <2>0, FieldType, PrintedAssumption DEF NetOfPrinted
    <2>9. subtotal # Missing /\ tax_amount = Missing => NetOfPrinted + Tax = Gross
      BY <2>3, <2>8 DEF Tax
    <2>10. subtotal # Missing /\ Net # Q(subtotal) => tax_amount # Missing /\ NetOfPrinted + Tax # Gross
      BY <2>8, <2>9 DEF Net
    <2>11. entry.payable = Gross /\ entry.vat = VatDebit /\ entry.expense = Net
      BY <2>1 DEF Built
    <2> HIDE DEF Gross, Tax, Net, NetOfPrinted, VatDebit, Q
    <2> QED BY <2>4, <2>5, <2>6, <2>7, <2>8, <2>10, <2>11
  <1> QED BY <1>1, JournalInvariant, ReadJournals, PTL
=============================================================================
