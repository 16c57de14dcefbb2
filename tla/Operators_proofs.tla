---------------------------- MODULE Operators_proofs ---------------------------
(***************************************************************************)
(* What the operators of MCComputations do of any input, the first part:   *)
(* sums, reconciliation, tax lots and wash chains, advice, messages and    *)
(* the register of the gate.  Computations_proofs goes on from here.       *)
(***************************************************************************)
EXTENDS MCComputations, FiniteSetTheorems, SequenceTheorems, NaturalsInduction,
        WellFoundedInduction, TLAPS

-----------------------------------------------------------------------------
(* Reconciliation, of files and books of any size.                         *)

(* In a file that names no position twice, the row of a position is the    *)
(* one CustodianQty picks.                                                 *)
LEMMA RowOfKey ==
    ASSUME NEW rows, NoDuplicates(rows), NEW i \in DOMAIN rows
    PROVE  CustodianQty(rows, Key(rows[i])) = rows[i].qty
<1>1. Key(rows[i]) \in Reported(rows)
    BY DEF Reported
<1> DEFINE j == CHOOSE j \in DOMAIN rows : Key(rows[j]) = Key(rows[i])
<1>2. j \in DOMAIN rows /\ Key(rows[j]) = Key(rows[i])
    OBVIOUS
<1>3. j = i
    BY <1>2 DEF NoDuplicates
<1>4. QED BY <1>1, <1>3 DEF CustodianQty

(* The types of the breaks keep the two quantity kinds apart from the rest *)
LEMMA QuantityKinds ==
    ASSUME NEW rows, NEW books, NEW b \in Breaks(rows, books),
           b.type \in {"quantity_mismatch", "ledger_only"}
    PROVE  b \in QuantityBreaks(rows, books) \cup LedgerOnlyBreaks(rows, books)
<1>1. \A c \in AsOfBreaks(rows, books) : c.type \in {"mixed_as_of", "stale_as_of"}
    BY DEF AsOfBreaks, Break
<1>2. \A c \in SymbologyBreaks(rows, books) : c.type = "symbology_mismatch"
    BY DEF SymbologyBreaks, Break
<1>3. QED BY <1>1, <1>2 DEF Breaks

(* File and books name positions by an account and a security.             *)
NamesPositions(rows, books, Owners, Names) ==
    /\ \A i \in DOMAIN rows : rows[i].account \in Owners /\ rows[i].security \in Names
    /\ DOMAIN books.lots \subseteq Owners \X Names

(* A file that names no position twice opens quantity breaks about exactly *)
(* the positions it is answerable for and that differ from the books: no   *)
(* difference is missed and none is invented, however large file and books *)
(* are (the two loops of reconcile_ingest).                                *)
THEOREM QuantityBreaksAreExact ==
    ASSUME NEW Owners, NEW Names, NEW rows, NEW books,
           NamesPositions(rows, books, Owners, Names), NoDuplicates(rows)
    PROVE  Named(Breaks(rows, books)) = Differing(rows, books)
<1>1. ASSUME NEW key \in Named(Breaks(rows, books))
      PROVE  key \in Differing(rows, books)
    <2>1. PICK b \in Breaks(rows, books) :
              /\ b.type \in {"quantity_mismatch", "ledger_only"}
              /\ key = <<b.account, b.about>>
        BY <1>1 DEF Named
    <2>2. CASE b \in QuantityBreaks(rows, books)
        <3>1. PICK i \in DOMAIN rows :
                  /\ LedgerQty(books, Key(rows[i])) # rows[i].qty
                  /\ b = Break("quantity_mismatch", rows[i].account, rows[i].security, i)
            BY <2>2 DEF QuantityBreaks
        <3>2. key = Key(rows[i])
            BY <2>1, <3>1 DEF Break, Key
        <3>3. CustodianQty(rows, key) # LedgerQty(books, key)
            BY <3>1, <3>2, RowOfKey
        <3>4. key \in Answerable(rows, books)
            BY <3>2 DEF Answerable, Reported
        <3>5. QED BY <3>3, <3>4 DEF Differing
    <2>3. CASE b \in LedgerOnlyBreaks(rows, books)
        <3>1. PICK k \in Unreported(rows, books) : b = Break("ledger_only", k[1], k[2], 0)
            BY <2>3 DEF LedgerOnlyBreaks
        <3>2. key = k
            <4>1. k \in Owners \X Names
                BY DEF Unreported, NamesPositions
            <4>2. key = <<k[1], k[2]>>
                BY <2>1, <3>1 DEF Break
            <4>3. QED BY <4>1, <4>2
        <3>3. /\ key \in DOMAIN books.lots /\ key[1] \in books.custodied
              /\ key \notin Reported(rows) /\ books.lots[key] # 0
            BY <3>2 DEF Unreported
        <3>4. CustodianQty(rows, key) = 0 /\ LedgerQty(books, key) # 0
            BY <3>3 DEF CustodianQty, LedgerQty
        <3>5. key \in Answerable(rows, books)
            BY <3>3 DEF Answerable
        <3>6. QED BY <3>4, <3>5 DEF Differing
    <2>4. QED BY <2>1, <2>2, <2>3, QuantityKinds
<1>2. ASSUME NEW key \in Differing(rows, books)
      PROVE  key \in Named(Breaks(rows, books))
    <2>0. key \in Answerable(rows, books) /\ CustodianQty(rows, key) # LedgerQty(books, key)
        BY DEF Differing
    <2>1. CASE key \in Reported(rows)
        <3>1. PICK i \in DOMAIN rows : key = Key(rows[i])
            BY <2>1 DEF Reported
        <3> DEFINE b == Break("quantity_mismatch", rows[i].account, rows[i].security, i)
        <3>2. LedgerQty(books, Key(rows[i])) # rows[i].qty
            BY <2>0, <3>1, RowOfKey
        <3>3. b \in Breaks(rows, books)
            BY <3>2 DEF Breaks, QuantityBreaks
        <3>4. b.type = "quantity_mismatch" /\ key = <<b.account, b.about>>
            BY <3>1 DEF Break, Key
        <3>5. QED BY <3>3, <3>4 DEF Named
    <2>2. CASE key \notin Reported(rows)
        <3> DEFINE b == Break("ledger_only", key[1], key[2], 0)
        <3>1. key \in DOMAIN books.lots /\ key[1] \in books.custodied
            BY <2>0, <2>2 DEF Answerable
        <3>2. books.lots[key] # 0
            BY <2>0, <2>2, <3>1 DEF CustodianQty, LedgerQty
        <3>3. b \in Breaks(rows, books)
            BY <2>2, <3>1, <3>2 DEF Breaks, LedgerOnlyBreaks, Unreported
        <3>4. b.type = "ledger_only" /\ b.account = key[1] /\ b.about = key[2]
            BY DEF Break
        <3>5. key = <<key[1], key[2]>>
            BY <3>1 DEF NamesPositions
        <3>6. key = <<b.account, b.about>>
            BY <3>4, <3>5
        <3>7. QED BY <3>3, <3>4, <3>6 DEF Named
    <2>3. QED BY <2>1, <2>2
<1>3. QED BY <1>1, <1>2

-----------------------------------------------------------------------------
(* Induction, over the numbers and over the subsets of a finite set. What  *)
(* is to be shown is given as the set of those it holds of.                *)

LEMMA LessThan ==
    \E less : IsWellFoundedOn(less, Nat) /\ \A x, y \in Nat : <<x, y>> \in less <=> x < y
<1>1. \A x, y \in Nat : <<x, y>> \in OpToRel(<, Nat) <=> x < y
    BY Zenon DEF OpToRel
<1>2. QED BY <1>1, NatLessThanWellFounded, Zenon

LEMMA LeastNat ==
    ASSUME NEW N \in SUBSET Nat, N # {}
    PROVE  \E n \in N : \A m \in N : n <= m
<1>1. N \subseteq Nat
    OBVIOUS
<1>2. PICK less : IsWellFoundedOn(less, Nat) /\ \A x, y \in Nat : <<x, y>> \in less <=> x < y
    BY LessThan, Zenon
<1>3. IsWellFoundedOn(less, Nat)
    BY <1>2
<1>4. \E n \in N : \A m \in N : ~ (<<m, n>> \in less)
    BY <1>1, <1>3, WFMin, Zenon
<1>5. PICK n \in N : \A m \in N : ~ (<<m, n>> \in less)
    BY <1>4
<1>6. n \in Nat /\ \A m \in N : m \in Nat /\ ~(m < n)
    BY <1>1, <1>2, <1>5
<1>7. QED BY <1>6

LEMMA EveryNumber ==
    ASSUME NEW Holding, 0 \in Holding, \A n \in Nat : n \in Holding => n + 1 \in Holding
    PROVE  \A n \in Nat : n \in Holding
<1> DEFINE Failing == Nat \ Holding
<1>1. ASSUME Failing # {} PROVE FALSE
    <2>1. PICK n \in Failing : \A m \in Failing : n <= m
        <3>1. Failing \in SUBSET Nat
            OBVIOUS
        <3> HIDE DEF Failing
        <3>2. QED BY <1>1, <3>1, LeastNat
    <2>2. n \in Nat /\ n # 0
        OBVIOUS
    <2>3. n - 1 \in Nat /\ n - 1 \notin Failing
        BY <2>1, <2>2
    <2>4. n - 1 \in Holding
        BY <2>3
    <2>5. (n - 1) + 1 \in Holding
        BY <2>3, <2>4
    <2>6. QED BY <2>2, <2>5
<1>2. QED BY <1>1

LEMMA BySmaller ==
    ASSUME NEW D, IsFiniteSet(D), NEW Holding,
           \A s \in SUBSET D : (\A x \in s : s \ {x} \in Holding) => s \in Holding
    PROVE  \A s \in SUBSET D : s \in Holding
<1> DEFINE Sized(n) == {s \in SUBSET D : Cardinality(s) = n}
           Sizes == {n \in Nat : Sized(n) \subseteq Holding}
<1>0. \A s \in SUBSET D : IsFiniteSet(s) /\ Cardinality(s) \in Nat
    BY FS_Subset, FS_CardinalityType
<1>1. 0 \in Sizes
    <2>1. ASSUME NEW s \in SUBSET D, Cardinality(s) = 0 PROVE s \in Holding
        <3>1. s = {}
            BY <1>0, <2>1, FS_EmptySet
        <3>2. QED BY <3>1
    <2>2. QED BY <2>1
<1>2. ASSUME NEW n \in Nat, n \in Sizes PROVE n + 1 \in Sizes
    <2>1. ASSUME NEW s \in SUBSET D, Cardinality(s) = n + 1 PROVE s \in Holding
        <3>1. ASSUME NEW x \in s PROVE s \ {x} \in Holding
            <4>1. Cardinality(s \ {x}) = Cardinality(s) - 1
                BY <1>0, FS_RemoveElement
            <4>2. Cardinality(s \ {x}) = n
                BY <2>1, <4>1
            <4>3. QED BY <1>2, <4>2
        <3>2. QED BY <3>1
    <2>2. QED BY <2>1
<1>3. \A n \in Nat : n \in Sizes
    <2> HIDE DEF Sizes
    <2>1. QED BY <1>1, <1>2, EveryNumber
<1>4. ASSUME NEW s \in SUBSET D PROVE s \in Holding
    BY <1>0, <1>3
<1>5. QED BY <1>4

LEMMA EverySubset ==
    ASSUME NEW D, IsFiniteSet(D), NEW Holding, {} \in Holding,
           \A s \in SUBSET D, x \in D : s \in Holding /\ x \notin s => s \cup {x} \in Holding
    PROVE  \A s \in SUBSET D : s \in Holding
<1>1. ASSUME NEW s \in SUBSET D, \A x \in s : s \ {x} \in Holding PROVE s \in Holding
    <2>1. CASE s = {}
        BY <2>1
    <2>2. CASE s # {}
        <3>1. PICK x \in s : TRUE
            BY <2>2
        <3>2. (s \ {x}) \cup {x} \in Holding
            BY <1>1, <3>1
        <3>3. (s \ {x}) \cup {x} = s
            OBVIOUS
        <3>4. QED BY <3>2, <3>3
    <2>3. QED BY <2>1, <2>2
<1>2. QED BY <1>1, BySmaller

LEMMA ImageIsFinite ==
    ASSUME NEW D, IsFiniteSet(D), NEW f
    PROVE  IsFiniteSet({f[x] : x \in D})
<1> DEFINE I == {f[x] : x \in D}
           g == [x \in D |-> f[x]]
<1>1. g \in Surjection(D, I)
    BY DEF Surjection
<1> HIDE DEF I, g
<1>2. IsFiniteSet(I)
    BY <1>1, FS_Surjection
<1>3. QED BY <1>2 DEF I

LEMMA MaxIsGreatest ==
    ASSUME NEW D \in SUBSET Int, IsFiniteSet(D), D # {}
    PROVE  Max(D) \in D /\ \A y \in D : Max(D) >= y
<1> DEFINE Holding == {s \in SUBSET D : s # {} => \E x \in s : \A y \in s : x >= y}
<1>1. ASSUME NEW s \in SUBSET D, NEW x \in D, s \in Holding PROVE s \cup {x} \in Holding
    <2>1. CASE s = {}
        BY <2>1
    <2>2. CASE s # {}
        <3>1. PICK m \in s : \A y \in s : m >= y
            BY <1>1, <2>2
        <3>2. CASE m >= x
            BY <3>1, <3>2
        <3>3. CASE ~ (m >= x)
            <4>1. \A y \in s \cup {x} : x >= y
                BY <3>1, <3>3
            <4>2. QED BY <4>1
        <3>4. QED BY <3>2, <3>3
    <2>3. QED BY <2>1, <2>2
<1>2. {} \in Holding
    OBVIOUS
<1>3. D \in Holding
    <2> HIDE DEF Holding
    <2>1. \A s \in SUBSET D, x \in D : s \in Holding /\ x \notin s => s \cup {x} \in Holding
        BY <1>1
    <2>2. \A s \in SUBSET D : s \in Holding
        BY <1>2, <2>1, EverySubset
    <2>3. QED BY <2>2
<1>4. \E x \in D : \A y \in D : x >= y
    BY <1>3
<1>5. QED BY <1>4, Zenon DEF Max

LEMMA MinIsLeast ==
    ASSUME NEW D \in SUBSET Int, IsFiniteSet(D), D # {}
    PROVE  Min(D) \in D /\ \A y \in D : Min(D) <= y
<1> DEFINE Holding == {s \in SUBSET D : s # {} => \E x \in s : \A y \in s : x <= y}
<1>1. ASSUME NEW s \in SUBSET D, NEW x \in D, s \in Holding PROVE s \cup {x} \in Holding
    <2>1. CASE s = {}
        BY <2>1
    <2>2. CASE s # {}
        <3>1. PICK m \in s : \A y \in s : m <= y
            BY <1>1, <2>2
        <3>2. CASE m <= x
            BY <3>1, <3>2
        <3>3. CASE ~ (m <= x)
            <4>1. \A y \in s \cup {x} : x <= y
                BY <3>1, <3>3
            <4>2. QED BY <4>1
        <3>4. QED BY <3>2, <3>3
    <2>3. QED BY <2>1, <2>2
<1>2. {} \in Holding
    OBVIOUS
<1>3. D \in Holding
    <2> HIDE DEF Holding
    <2>1. \A s \in SUBSET D, x \in D : s \in Holding /\ x \notin s => s \cup {x} \in Holding
        BY <1>1
    <2>2. \A s \in SUBSET D : s \in Holding
        BY <1>2, <2>1, EverySubset
    <2>3. QED BY <2>2
<1>4. \E x \in D : \A y \in D : x <= y
    BY <1>3
<1>5. QED BY <1>4, Zenon DEF Min

LEMMA NoneOfNone == 1..0 = {}
OBVIOUS

LEMMA TwoOrMore ==
    ASSUME NEW S, IsFiniteSet(S)
    PROVE  Cardinality(S) >= 2 <=> \E a, b \in S : a # b
<1>0. Cardinality(S) \in Nat
    BY FS_CardinalityType
<1>1. ASSUME NEW a \in S, NEW b \in S, a # b
      PROVE  Cardinality(S) >= 2
    <2>1. IsFiniteSet({a}) /\ Cardinality({a}) = 1
        BY FS_Singleton
    <2>2. Cardinality({a} \cup {b}) = 2
        BY <1>1, <2>1, FS_AddElement
    <2>3. {a} \cup {b} \subseteq S
        OBVIOUS
    <2>4. Cardinality({a} \cup {b}) <= Cardinality(S)
        BY <2>3, FS_Subset
    <2>5. QED BY <1>0, <2>2, <2>4
<1>2. ASSUME Cardinality(S) >= 2
      PROVE  \E a, b \in S : a # b
    <2>1. S # {}
        BY <1>2, FS_EmptySet
    <2>2. PICK a \in S : TRUE
        BY <2>1
    <2>3. S # {a}
        BY <1>2, FS_Singleton
    <2>4. QED BY <2>2, <2>3
<1>3. QED BY <1>1, <1>2

(* An identifier conflicts exactly when two securities carry it, one of    *)
(* them touched.                                                           *)
LEMMA ConflictsAreShared ==
    ASSUME NEW rows, NEW books, NEW scheme \in Schemes,
           IsFiniteSet(DOMAIN books.ids[scheme]),
           Touched(rows, books) \subseteq DOMAIN books.ids[scheme]
    PROVE  Conflicts(rows, books, scheme) = {} <=>
               \A security \in Touched(rows, books), other \in DOMAIN books.ids[scheme] :
                   books.ids[scheme][other] = books.ids[scheme][security]
                       => other = security \/ books.ids[scheme][other] = NoId
<1> DEFINE ids == books.ids[scheme]
<1>1. ASSUME NEW security \in Touched(rows, books), NEW other \in DOMAIN ids,
             ids[other] = ids[security],
             other # security, ids[other] # NoId
      PROVE  ids[other] \in Conflicts(rows, books, scheme)
    <2>1. security \in Carriers(books, scheme, ids[other])
        BY <1>1 DEF Carriers
    <2>2. other \in Carriers(books, scheme, ids[other])
        BY DEF Carriers
    <2>3. IsFiniteSet(Carriers(books, scheme, ids[other]))
        BY FS_Subset DEF Carriers
    <2>4. Cardinality(Carriers(books, scheme, ids[other])) >= 2
        BY <1>1, <2>1, <2>2, <2>3, TwoOrMore
    <2>5. QED BY <1>1, <2>4 DEF Conflicts
<1>2. ASSUME NEW id \in Conflicts(rows, books, scheme)
      PROVE  \E security \in Touched(rows, books), other \in DOMAIN ids :
                 /\ ids[other] = ids[security]
                 /\ other # security /\ ids[other] # NoId
    <2>1. /\ id # NoId /\ Cardinality(Carriers(books, scheme, id)) >= 2
          /\ \E security \in Touched(rows, books) : id = ids[security]
        BY DEF Conflicts
    <2>2. PICK security \in Touched(rows, books) : id = ids[security]
        BY <2>1
    <2>3. IsFiniteSet(Carriers(books, scheme, id))
        BY FS_Subset DEF Carriers
    <2>4. PICK a, b \in Carriers(books, scheme, id) : a # b
        BY <2>1, <2>3, TwoOrMore
    <2>5. PICK other \in Carriers(books, scheme, id) : other # security
        BY <2>4
    <2>6. other \in DOMAIN ids /\ ids[other] = id
        BY DEF Carriers
    <2>7. QED BY <2>1, <2>2, <2>5, <2>6
<1>3. QED BY <1>1, <1>2

(* A file is quiet exactly when it and the books agree, on every position  *)
(* of the custodian, on the date and on what each identifier means.        *)
THEOREM QuietMeansAgreement ==
    ASSUME NEW Owners, NEW Names, NEW rows, NEW books,
           rows # <<>>,
           NamesPositions(rows, books, Owners, Names), NoDuplicates(rows),
           \A scheme \in Schemes :
               /\ IsFiniteSet(DOMAIN books.ids[scheme])
               /\ Names \subseteq DOMAIN books.ids[scheme]
    PROVE  Breaks(rows, books) = {} <=> Agree(rows, books)
<1>1. Breaks(rows, books) = {} <=>
          /\ AsOfBreaks(rows, books) = {} /\ QuantityBreaks(rows, books) = {}
          /\ LedgerOnlyBreaks(rows, books) = {} /\ SymbologyBreaks(rows, books) = {}
    BY DEF Breaks
<1>2. AsOfBreaks(rows, books) = {} <=> FileDates(rows) = LedgerDates(books)
    BY DEF AsOfBreaks
<1>3. QuantityBreaks(rows, books) = {} /\ LedgerOnlyBreaks(rows, books) = {}
          <=> Differing(rows, books) = {}
    <2>1. Named(Breaks(rows, books)) = Differing(rows, books)
        BY QuantityBreaksAreExact
    <2>2. \A b \in QuantityBreaks(rows, books) \cup LedgerOnlyBreaks(rows, books) :
              b \in Breaks(rows, books) /\ b.type \in {"quantity_mismatch", "ledger_only"}
        BY DEF QuantityBreaks, LedgerOnlyBreaks, Breaks, Break
    <2>3. Named(Breaks(rows, books)) = {} <=>
              QuantityBreaks(rows, books) \cup LedgerOnlyBreaks(rows, books) = {}
        <3>1. ASSUME NEW b \in QuantityBreaks(rows, books) \cup LedgerOnlyBreaks(rows, books)
              PROVE  <<b.account, b.about>> \in Named(Breaks(rows, books))
            BY <2>2 DEF Named
        <3>2. ASSUME NEW key \in Named(Breaks(rows, books))
              PROVE  QuantityBreaks(rows, books) \cup LedgerOnlyBreaks(rows, books) # {}
            BY QuantityKinds DEF Named
        <3>3. QED BY <3>1, <3>2
    <2>4. QED BY <2>1, <2>3
<1>4. ASSUME LedgerOnlyBreaks(rows, books) = {}
      PROVE  SymbologyBreaks(rows, books) = {} <=> Unambiguous(rows, books)
    <2>1. Unreported(rows, books) = {}
        BY <1>4 DEF LedgerOnlyBreaks
    <2>2. Touched(rows, books) = {key[2] : key \in Reported(rows)}
        BY <2>1 DEF Touched
    <2>3. \A key \in Reported(rows) : key[2] \in Names
        BY DEF Reported, Key, NamesPositions
    <2>4. SymbologyBreaks(rows, books) = {} <=>
              \A scheme \in Schemes : Conflicts(rows, books, scheme) = {}
        <3>1. ASSUME NEW scheme \in Schemes, NEW id \in Conflicts(rows, books, scheme)
              PROVE  Break("symbology_mismatch", rows[1].account, id, 0)
                         \in SymbologyBreaks(rows, books)
            BY <3>1 DEF SymbologyBreaks
        <3>2. ASSUME NEW b \in SymbologyBreaks(rows, books)
              PROVE  \E scheme \in Schemes : Conflicts(rows, books, scheme) # {}
            BY <3>2 DEF SymbologyBreaks
        <3>3. QED BY <3>1, <3>2
    <2>5. Touched(rows, books) \subseteq Names
        BY <2>2, <2>3
    <2>6. ASSUME NEW scheme \in Schemes
          PROVE  Conflicts(rows, books, scheme) = {} <=>
              \A key \in Reported(rows) : \A other \in DOMAIN books.ids[scheme] :
                 books.ids[scheme][other] = books.ids[scheme][key[2]]
                     => other = key[2] \/ books.ids[scheme][other] = NoId
        <3>1. Touched(rows, books) \subseteq DOMAIN books.ids[scheme]
            BY <2>5
        <3>2. QED BY <2>2, <3>1, ConflictsAreShared
    <2>7. QED BY <2>4, <2>6 DEF Unambiguous
<1>5. QED BY <1>1, <1>2, <1>3, <1>4 DEF Agree

-----------------------------------------------------------------------------
(* Dated evidence, of any size.                                            *)

(* A security has one mark a day.                                          *)
OneMarkADay(marks) ==
    \A m, n \in marks : m.security = n.security /\ m.day = n.day => m = n

Dated(evidence) ==
    /\ IsFiniteSet(evidence.marks)
    /\ \A m \in evidence.marks : m.day \in Int
    /\ OneMarkADay(evidence.marks)
    /\ DOMAIN evidence.signals \in SUBSET Int /\ IsFiniteSet(DOMAIN evidence.signals)
    /\ \A i \in DOMAIN evidence.signals : evidence.signals[i].day \in Int

(* The latest mark is the same among any marks that lack only marks nobody *)
(* asks for.                                                               *)
LEMMA LatestOfFewer ==
    ASSUME NEW marks, IsFiniteSet(marks), \A m \in marks : m.day \in Int, OneMarkADay(marks),
           NEW fewer \in SUBSET marks, NEW security, NEW asOf,
           \A m \in marks : m.security = security /\ (asOf = Ever \/ m.day <= asOf)
                               => m \in fewer
    PROVE  LatestMark(fewer, security, asOf) = LatestMark(marks, security, asOf)
<1> DEFINE asked(m) == m.security = security /\ (asOf = Ever \/ m.day <= asOf)
           days == {m.day : m \in {m \in marks : asked(m)}}
           fewerDays == {m.day : m \in {m \in fewer : asked(m)}}
           last(m) == m.security = security /\ m.day = Max(days)
<1>1. days = fewerDays
    OBVIOUS
<1>2. CASE days = {}
    BY <1>1, <1>2, Zenon DEF LatestMark
<1>3. CASE days # {}
    <2>1. IsFiniteSet(days) /\ days \in SUBSET Int
        <3> DEFINE some == {m \in marks : asked(m)}
                   f == [m \in some |-> m.day]
        <3>1. IsFiniteSet(some)
            BY FS_Subset
        <3>2. days = {f[m] : m \in some}
            OBVIOUS
        <3>3. days \in SUBSET Int
            OBVIOUS
        <3> HIDE DEF days, some, f
        <3>4. QED BY <3>1, <3>2, <3>3, ImageIsFinite
    <2>2. Max(days) \in days
        <3> HIDE DEF days
        <3>1. QED BY <1>3, <2>1, MaxIsGreatest
    <2>3. PICK mark \in fewer : last(mark)
        BY <2>2
    <2>4. \A m \in marks : last(m) => m = mark
        BY <2>3 DEF OneMarkADay
    <2>5. (CHOOSE m \in marks : last(m)) = mark
        BY <2>3, <2>4
    <2>6. (CHOOSE m \in fewer : last(m)) = mark
        BY <2>3, <2>4
    <2>7. LatestMark(marks, security, asOf) = (CHOOSE m \in marks : last(m)).price
        BY <1>3, Zenon DEF LatestMark
    <2>8. LatestMark(fewer, security, asOf) = (CHOOSE m \in fewer : last(m)).price
        BY <1>1, <1>3, Zenon DEF LatestMark
    <2>9. QED BY <2>5, <2>6, <2>7, <2>8
<1>4. QED BY <1>2, <1>3

(* Nothing of a later day shows in the positions of a day.                 *)
THEOREM PositionsAreBlind ==
    ASSUME NEW evidence, Dated(evidence), NEW asOf \in Int
    PROVE  Blind(Positions, evidence, asOf)
<1> DEFINE known == KnownOn(evidence, asOf)
<1>1. /\ known.lots = evidence.lots
      /\ known.marks = {m \in evidence.marks : m.day <= asOf}
    BY DEF KnownOn
<1>2. ASSUME NEW security
      PROVE  LatestMark(known.marks, security, asOf) = LatestMark(evidence.marks, security, asOf)
    <2>1. asOf # Ever
        BY RaisedAssumption DEF Ever
    <2>2. known.marks \in SUBSET evidence.marks
        BY <1>1
    <2>3. \A m \in evidence.marks : m.day <= asOf => m \in known.marks
        BY <1>1
    <2> HIDE DEF known
    <2>4. QED BY <2>1, <2>2, <2>3, LatestOfFewer DEF Dated
<1>3. Positions(known, asOf) = Positions(evidence, asOf)
    BY <1>1, <1>2, Zenon DEF Positions
<1>4. QED BY <1>3 DEF Blind

(* The statistics of a day raise, or there is nothing of a later day.      *)
THEOREM StatsAreBlind ==
    ASSUME NEW evidence, Dated(evidence), NEW asOf \in Int
    PROVE  Blind(StatsDaily, evidence, asOf)
<1> DEFINE known == KnownOn(evidence, asOf)
<1>1. /\ known.lots = evidence.lots
      /\ known.marks = {m \in evidence.marks : m.day <= asOf}
    BY DEF KnownOn
<1>2. CASE \E m \in evidence.marks : m.day > asOf
    <2>1. StatsDaily(evidence, asOf) = Raised
        BY <1>2, Zenon DEF StatsDaily
    <2>2. QED BY <2>1 DEF Blind
<1>3. CASE ~ \E m \in evidence.marks : m.day > asOf
    <2>1. known.marks = evidence.marks
        BY <1>1, <1>3 DEF Dated
    <2> HIDE DEF known
    <2>2. StatsDaily(known, asOf) = StatsDaily(evidence, asOf)
        BY <1>1, <2>1, Zenon DEF StatsDaily
    <2>3. QED BY <2>2 DEF Blind, known
<1>4. QED BY <1>2, <1>3

(* The snapshot of a day is one of the day or before, the same whatever    *)
(* the export holds of later days.                                         *)
THEOREM SnapshotsAreBlind ==
    ASSUME NEW evidence, Dated(evidence), NEW asOf \in Int
    PROVE  Blind(LoadSnapshot, evidence, asOf)
<1> DEFINE known == KnownOn(evidence, asOf)
           signals == evidence.signals
           usable == {i \in DOMAIN signals : signals[i].day <= asOf}
           days == {signals[i].day : i \in usable}
           latest == Max(days)
           newest == {i \in usable : signals[i].day = latest}
           chosen == signals[Min(newest)]
<1>1. known.signals = [i \in usable |-> signals[i]]
    BY DEF KnownOn
<1>2. CASE usable = {}
    <2>1. LoadSnapshot(evidence, asOf) = Raised
        BY <1>2, Zenon DEF LoadSnapshot
    <2>2. QED BY <2>1 DEF Blind
<1>3. CASE usable # {}
    <2>1. IsFiniteSet(usable) /\ usable \in SUBSET Int
        BY FS_Subset DEF Dated
    <2>2. days \in SUBSET Int /\ days # {}
        BY <1>3 DEF Dated
    <2>3. IsFiniteSet(days)
        <3> DEFINE f == [i \in usable |-> signals[i].day]
        <3>1. days = {f[i] : i \in usable}
            OBVIOUS
        <3> HIDE DEF days, usable, f
        <3>2. QED BY <2>1, <3>1, ImageIsFinite
    <2>4. latest \in days
        <3> HIDE DEF days
        <3>1. QED BY <2>2, <2>3, MaxIsGreatest
    <2>5. newest # {} /\ newest \in SUBSET Int /\ IsFiniteSet(newest)
        <3>1. newest # {}
            BY <2>4
        <3>2. newest \subseteq usable
            OBVIOUS
        <3> HIDE DEF newest, usable
        <3>3. QED BY <2>1, <3>1, <3>2, FS_Subset
    <2>6. Min(newest) \in newest
        <3> HIDE DEF newest
        <3>1. QED BY <2>5, MinIsLeast
    <2>7. Min(newest) \in usable
        BY <2>6
    <2> DEFINE knownUsable == {i \in DOMAIN known.signals : known.signals[i].day <= asOf}
               knownLatest == Max({known.signals[i].day : i \in knownUsable})
               knownChosen == known.signals[Min({i \in knownUsable :
                                                    known.signals[i].day = knownLatest})]
    <2>8. knownUsable = usable
        BY <1>1
    <2>9. {known.signals[i].day : i \in knownUsable} = days
        BY <1>1, <2>8
    <2>10. knownLatest = latest
        BY <2>9
    <2>11. knownChosen = chosen
        <3>1. {i \in knownUsable : known.signals[i].day = knownLatest} = newest
            BY <1>1, <2>8, <2>10
        <3> HIDE DEF usable, days, latest, newest
        <3>2. QED BY <1>1, <2>7, <3>1
    <2>12. LoadSnapshot(evidence, asOf) =
              IF \E view \in chosen.views : view.signal \notin KnownSignals
              THEN Raised
              ELSE [day |-> latest, views |-> {ViewOf(view, latest) : view \in chosen.views}]
        BY <1>3, Zenon DEF LoadSnapshot
    <2>13. LoadSnapshot(known, asOf) =
              IF \E view \in chosen.views : view.signal \notin KnownSignals
              THEN Raised
              ELSE [day |-> latest, views |-> {ViewOf(view, latest) : view \in chosen.views}]
        <3>1. LoadSnapshot(known, asOf) =
                  IF knownUsable = {} \/ \E view \in knownChosen.views : view.signal \notin KnownSignals
                  THEN Raised
                  ELSE [day |-> knownLatest,
                        views |-> {ViewOf(view, knownLatest) : view \in knownChosen.views}]
            <4> HIDE DEF known
            <4>1. QED BY Zenon DEF LoadSnapshot
        <3> HIDE DEF usable, latest, chosen, knownUsable, knownLatest, knownChosen
        <3>2. QED BY <1>3, <2>8, <2>10, <2>11, <3>1
    <2>14. QED BY <2>12, <2>13 DEF Blind
<1>4. QED BY <1>2, <1>3

(* A run is refused unless every mark of the book is of the day or before, *)
(* so that the values it reads without a date are values of the day.       *)
THEOREM BacktestsAreBlind ==
    ASSUME NEW evidence, Dated(evidence), NEW start, NEW asOf \in Int
    PROVE  Blind(LAMBDA e, day : RunBacktest(e, start, day), evidence, asOf)
<1> DEFINE known == KnownOn(evidence, asOf)
<1>1. /\ known.lots = evidence.lots
      /\ known.marks = {m \in evidence.marks : m.day <= asOf}
    BY DEF KnownOn
<1>2. CASE ~ ValidateBacktest(evidence, start, asOf)
    <2>1. RunBacktest(evidence, start, asOf) = Raised
        BY <1>2, Zenon DEF RunBacktest
    <2>2. QED BY <2>1 DEF Blind
<1>3. CASE ValidateBacktest(evidence, start, asOf)
    <2>1. MarkDatesForPositions(known) \subseteq MarkDatesForPositions(evidence)
        BY <1>1 DEF MarkDatesForPositions
    <2>2. ValidateBacktest(known, start, asOf)
        <3> HIDE DEF known
        <3>1. QED BY <1>1, <1>3, <2>1 DEF ValidateBacktest
    <2>3. ASSUME NEW i \in DOMAIN evidence.lots
          PROVE  LatestMark(known.marks, evidence.lots[i].security, Ever)
                     = LatestMark(evidence.marks, evidence.lots[i].security, Ever)
        <3>1. ASSUME NEW m \in evidence.marks, m.security = evidence.lots[i].security
              PROVE  m \in known.marks
            <4>1. m.day \in MarkDatesForPositions(evidence)
                BY <3>1 DEF MarkDatesForPositions
            <4>2. QED BY <1>1, <1>3, <4>1 DEF ValidateBacktest
        <3>2. known.marks \in SUBSET evidence.marks
            BY <1>1
        <3> HIDE DEF known
        <3>3. QED BY <3>1, <3>2, LatestOfFewer DEF Dated
    <2>4. Positions(known, Ever) = Positions(evidence, Ever)
        BY <1>1, <2>3, Zenon DEF Positions
    <2> HIDE DEF known
    <2>5. RunBacktest(known, start, asOf) = RunBacktest(evidence, start, asOf)
        BY <1>3, <2>2, <2>4, Zenon DEF RunBacktest
    <2>6. QED BY <2>5 DEF Blind, known
<1>4. QED BY <1>2, <1>3

-----------------------------------------------------------------------------
(* Loops: a recursion over the first numbers has its function.             *)

(* Each turn makes a value of V of one.                                    *)
IsTurn(F, n, V) == \A i \in 1..n, v \in V : F[i][v] \in V

IsLoop(g, n, base, F) == g = [i \in 0..n |-> IF i = 0 THEN base ELSE F[i][g[i - 1]]]

LEMMA LoopExists ==
    ASSUME NEW n \in Nat, NEW V, NEW base \in V, NEW F, IsTurn(F, n, V)
    PROVE  \E g \in [0..n -> V] : IsLoop(g, n, base, F)
<1> DEFINE Rec(g, m) == \A i \in 0..m : g[i] = IF i = 0 THEN base ELSE F[i][g[i - 1]]
           Turns == {m \in Nat : m <= n => \E g \in [0..n -> V] : Rec(g, m)}
<1>1. 0 \in Turns
    <2> DEFINE g == [i \in 0..n |-> base]
    <2>1. g \in [0..n -> V] /\ Rec(g, 0)
        OBVIOUS
    <2>2. QED BY <2>1
<1>2. ASSUME NEW m \in Nat, m \in Turns PROVE m + 1 \in Turns
    <2>1. SUFFICES ASSUME m + 1 <= n PROVE \E h \in [0..n -> V] : Rec(h, m + 1)
        OBVIOUS
    <2>2. PICK g \in [0..n -> V] : Rec(g, m)
        BY <1>2, <2>1
    <2> DEFINE h == [i \in 0..n |-> IF i = 0 THEN base ELSE F[i][g[i - 1]]]
    <2>3. h \in [0..n -> V]
        <3>1. ASSUME NEW i \in 0..n, i # 0 PROVE F[i][g[i - 1]] \in V
            <4>1. i \in 1..n /\ i - 1 \in 0..n
                BY <3>1
            <4>2. g[i - 1] \in V
                BY <4>1
            <4>3. QED BY <4>1, <4>2 DEF IsTurn
        <3>2. QED BY <3>1
    <2>4. \A i \in 0..m : h[i] = g[i]
        BY <2>1, <2>2
    <2>5. ASSUME NEW i \in 0..(m + 1) PROVE h[i] = IF i = 0 THEN base ELSE F[i][h[i - 1]]
        <3>1. i \in 0..n
            BY <2>1
        <3>2. CASE i = 0
            BY <3>1, <3>2
        <3>3. CASE i # 0
            <4>1. i - 1 \in 0..m
                BY <3>3
            <4>2. h[i - 1] = g[i - 1]
                BY <2>4, <4>1
            <4>3. QED BY <3>1, <3>3, <4>2
        <3>4. QED BY <3>2, <3>3
    <2> HIDE DEF h
    <2>6. QED BY <2>3, <2>5
<1>3. \A m \in Nat : m \in Turns
    <2> HIDE DEF Turns
    <2>1. QED BY <1>1, <1>2, EveryNumber
<1>4. PICK g \in [0..n -> V] : Rec(g, n)
    BY <1>3
<1>5. g = [i \in 0..n |-> IF i = 0 THEN base ELSE F[i][g[i - 1]]]
    BY <1>4
<1>6. QED BY <1>5 DEF IsLoop

(* seq has m entries.                                                      *)
IsLong(seq, m) == DOMAIN seq = 1..m /\ seq = [k \in 1..m |-> seq[k]]

-----------------------------------------------------------------------------
(* Lists that drop their oldest entry when they are full.                  *)

(* The log keeps the last of what it was told.                             *)
KeepsLast(log, all, most) ==
    LET m == IF Len(all) < most THEN Len(all) ELSE most
    IN  log = [k \in 1..m |-> all[Len(all) - m + k]]

(* An entry is added, and the oldest dropped beyond most.                  *)
Capping(log, e, most) ==
    LET all == Append(log, e) IN IF Len(all) > most THEN Tail(all) ELSE all

(* The few newest, newest first.                                           *)
NewestOf(log, few) ==
    Reverse(SubSeq(log, IF Len(log) > few THEN Len(log) - few + 1 ELSE 1, Len(log)))

(* The log is the last m of all, as many as there are or as fit.           *)
IsLast(log, all, most, m, E) ==
    /\ m = IF Len(all) < most THEN Len(all) ELSE most
    /\ m <= Len(all) /\ Len(all) \in Nat
    /\ log = [k \in 1..m |-> all[Len(all) - m + k]]
    /\ log \in Seq(E) /\ Len(log) = m

LEMMA KeptIsSequence ==
    ASSUME NEW E, NEW most \in Nat, NEW all \in Seq(E), NEW log, KeepsLast(log, all, most)
    PROVE  \E m \in Nat : IsLast(log, all, most, m, E)
<1>1. most \in Nat
    OBVIOUS
<1>2. PICK n \in Nat : n = Len(all) /\ all \in [1..n -> E]
    OBVIOUS
<1>3. PICK m \in Nat : m = (IF n < most THEN n ELSE most) /\ m <= n
    BY <1>1
<1>4. log = [k \in 1..m |-> all[n - m + k]]
    BY <1>2, <1>3 DEF KeepsLast
<1>5. \A k \in 1..m : n - m + k \in 1..n
    BY <1>3
<1>6. log \in [1..m -> E]
    BY <1>2, <1>4, <1>5
<1>7. log \in Seq(E) /\ Len(log) = m
    BY <1>6
<1>8. QED BY <1>2, <1>3, <1>4, <1>7 DEF IsLast

LEMMA CappingKeeps ==
    ASSUME NEW E, NEW most \in Nat \ {0}, NEW all \in Seq(E), NEW e \in E, NEW log, KeepsLast(log, all, most)
    PROVE  KeepsLast(Capping(log, e, most), Append(all, e), most)
<1>1. most \in Nat /\ most > 0
    OBVIOUS
<1>2. PICK n \in Nat : n = Len(all)
    OBVIOUS
<1>3. PICK m \in Nat : /\ m = (IF n < most THEN n ELSE most) /\ m <= n
                       /\ log = [k \in 1..m |-> all[n - m + k]]
                       /\ log \in Seq(E) /\ Len(log) = m
    <2>1. PICK m \in Nat : IsLast(log, all, most, m, E)
        BY KeptIsSequence
    <2>2. QED BY <1>2, <2>1 DEF IsLast
<1>4. PICK more : more = Append(all, e)
    OBVIOUS
<1>5. Len(more) = n + 1 /\ \A k \in 1..(n + 1) : more[k] = IF k = n + 1 THEN e ELSE all[k]
    BY <1>2, <1>4
<1>6. PICK longer : longer = Append(log, e)
    OBVIOUS
<1>7. Len(longer) = m + 1 /\ longer = [k \in 1..(m + 1) |-> IF k = m + 1 THEN e ELSE log[k]]
    BY <1>3, <1>6
<1>8. longer = [k \in 1..(m + 1) |-> more[n - m + k]]
    <2>1. \A k \in 1..(m + 1) : n - m + k \in 1..(n + 1) /\ (n - m + k = n + 1 <=> k = m + 1)
        BY <1>3
    <2>2. \A k \in 1..(m + 1) : more[n - m + k] = IF k = m + 1 THEN e ELSE log[k]
        BY <1>3, <1>5, <2>1
    <2>3. QED BY <1>7, <2>2
<1>9. CASE n < most
    <2>1. m = n /\ ~ (m + 1 > most)
        BY <1>1, <1>3, <1>9
    <2>2. Capping(log, e, most) = longer
        BY <1>6, <1>7, <2>1 DEF Capping
    <2>3. (IF n + 1 < most THEN n + 1 ELSE most) = m + 1
        BY <1>1, <1>9, <2>1
    <2>4. longer = [k \in 1..(m + 1) |-> more[(n + 1) - (m + 1) + k]]
        BY <1>8, <2>1
    <2>5. KeepsLast(longer, more, most)
        BY <1>5, <2>3, <2>4 DEF KeepsLast
    <2>6. QED BY <1>4, <2>2, <2>5
<1>10. CASE ~ (n < most)
    <2>1. m = most /\ m + 1 > most
        BY <1>1, <1>3, <1>10
    <2>2. Capping(log, e, most) = Tail(longer)
        BY <1>6, <1>7, <2>1 DEF Capping
    <2>3. Tail(longer) = [k \in 1..m |-> longer[k + 1]]
        <3>1. longer \in Seq(E) /\ longer # <<>>
            <4>1. longer \in Seq(E)
                BY <1>3, <1>6, AppendProperties
            <4>2. Len(longer) # 0
                BY <1>7
            <4>3. QED BY <4>1, <4>2
        <3>2. PICK rest : rest = Tail(longer)
            OBVIOUS
        <3>3. rest \in Seq(E) /\ Len(rest) = m /\ \A k \in 1..m : rest[k] = longer[k + 1]
            <4>1. Len(longer) = m + 1
                BY <1>7
            <4>2. /\ rest \in Seq(E) /\ Len(rest) = Len(longer) - 1
                  /\ \A k \in 1..Len(rest) : rest[k] = longer[k + 1]
                BY <3>1, <3>2, HeadTailProperties
            <4>3. QED BY <4>1, <4>2
        <3>4. rest \in [1..m -> E]
            BY <3>3, LenProperties
        <3>5. QED BY <3>2, <3>3, <3>4
    <2>4. \A k \in 1..m : longer[k + 1] = more[(n + 1) - m + k]
        <3>1. SUFFICES ASSUME NEW k \in 1..m PROVE longer[k + 1] = more[(n + 1) - m + k]
            OBVIOUS
        <3>2. k + 1 \in 1..(m + 1) /\ n - m + (k + 1) = (n + 1) - m + k
            OBVIOUS
        <3>3. longer[k + 1] = more[n - m + (k + 1)]
            BY <1>8, <3>2
        <3>4. QED BY <3>2, <3>3
    <2>5. (IF n + 1 < most THEN n + 1 ELSE most) = m
        BY <1>1, <1>10, <2>1
    <2>6. Tail(longer) = [k \in 1..m |-> more[(n + 1) - m + k]]
        BY <2>3, <2>4
    <2>7. KeepsLast(Tail(longer), more, most)
        BY <1>5, <2>5, <2>6 DEF KeepsLast
    <2>8. QED BY <1>4, <2>2, <2>7
<1>11. QED BY <1>9, <1>10

(* What is shown is the last of all, as many as is asked for and kept.     *)
AreLast(shown, all, few, most) ==
    /\ shown = [k \in 1..Min({few, most, Len(all)}) |-> all[Len(all) - k + 1]]
    /\ Min({few, most, Len(all)}) \in 0..Len(all)

(* A panel shows the last of what the log was told, newest first.          *)
LEMMA NewestAreTheLast ==
    ASSUME NEW E, NEW most \in Nat \ {0}, NEW few \in Nat \ {0},
           NEW all \in Seq(E), NEW log, KeepsLast(log, all, most)
    PROVE  AreLast(NewestOf(log, few), all, few, most)
<1>1. most \in Nat /\ most > 0 /\ few \in Nat /\ few > 0
    OBVIOUS
<1>2. PICK n \in Nat : n = Len(all)
    OBVIOUS
<1>3. PICK m \in Nat : /\ m = (IF n < most THEN n ELSE most) /\ m <= n
                       /\ log = [k \in 1..m |-> all[n - m + k]]
                       /\ log \in Seq(E) /\ Len(log) = m
    <2>1. PICK m \in Nat : IsLast(log, all, most, m, E)
        BY KeptIsSequence
    <2>2. QED BY <1>2, <2>1 DEF IsLast
<1>4. PICK r \in Nat : r = (IF m < few THEN m ELSE few) /\ r <= m
    BY <1>1
<1>5. Min({few, most, n}) = r
    <2>1. PICK D : D = {few, most, n}
        OBVIOUS
    <2>2. IsFiniteSet(D)
        <3>1. IsFiniteSet({})
            BY FS_EmptySet
        <3>2. IsFiniteSet({} \cup {few})
            BY <3>1, FS_AddElement
        <3>3. IsFiniteSet(({} \cup {few}) \cup {most})
            BY <3>2, FS_AddElement
        <3>4. IsFiniteSet((({} \cup {few}) \cup {most}) \cup {n})
            BY <3>3, FS_AddElement
        <3>5. D = (({} \cup {few}) \cup {most}) \cup {n}
            BY <2>1
        <3>6. QED BY <3>4, <3>5
    <2>3. D \in SUBSET Int /\ D # {}
        BY <1>1, <2>1
    <2>4. Min(D) \in D /\ \A y \in D : Min(D) <= y
        BY <2>2, <2>3, MinIsLeast
    <2>5. QED BY <1>1, <1>3, <1>4, <2>1, <2>4
<1>6. PICK first \in Int : first = (IF m > few THEN m - few + 1 ELSE 1)
    <2>1. m - few + 1 \in Int /\ 1 \in Int
        BY <1>1
    <2>2. QED BY <2>1, Zenon
<1>7. first \in 1..(m + 1) /\ m - first + 1 = r
    <2>1. CASE m > few
        BY <1>1, <1>4, <1>6, <2>1
    <2>2. CASE ~ (m > few)
        BY <1>1, <1>4, <1>6, <2>2
    <2>3. QED BY <2>1, <2>2
<1>8. PICK shown : shown = SubSeq(log, first, m)
    OBVIOUS
<1>9. shown = [k \in 1..r |-> log[first + k - 1]] /\ Len(shown) = r
    <2>1. \A k \in first..m : log[k] \in E
        BY <1>3, <1>7
    <2>2. /\ shown \in Seq(E)
          /\ Len(shown) = IF first <= m THEN m - first + 1 ELSE 0
          /\ \A k \in 1..(m - first + 1) : shown[k] = log[first + k - 1]
        BY <1>8, <2>1, SubSeqProperties
    <2>3. Len(shown) = r
        BY <1>7, <2>2
    <2>4. shown \in [1..r -> E]
        BY <2>2, <2>3, LenProperties
    <2>5. QED BY <1>7, <2>2, <2>3, <2>4
<1>10. NewestOf(log, few) = Reverse(shown)
    BY <1>3, <1>6, <1>8 DEF NewestOf
<1>11. Reverse(shown) = [k \in 1..r |-> shown[(r - k) + 1]]
    BY <1>9 DEF Reverse
<1>12. \A k \in 1..r : shown[(r - k) + 1] = all[n - k + 1]
    <2>1. SUFFICES ASSUME NEW k \in 1..r PROVE shown[(r - k) + 1] = all[n - k + 1]
        OBVIOUS
    <2>2. /\ (r - k) + 1 \in 1..r /\ first + ((r - k) + 1) - 1 \in 1..m
          /\ n - m + (first + ((r - k) + 1) - 1) = n - k + 1
        <3>1. k \in Int /\ 1 <= k /\ k <= r
            OBVIOUS
        <3>2. first >= 1 /\ r = m - first + 1
            BY <1>7
        <3>3. QED BY <3>1, <3>2
    <2>3. shown[(r - k) + 1] = log[first + ((r - k) + 1) - 1]
        BY <1>9, <2>2
    <2>4. log[first + ((r - k) + 1) - 1] = all[n - m + (first + ((r - k) + 1) - 1)]
        BY <1>3, <2>2
    <2>5. QED BY <2>2, <2>3, <2>4
<1>13. r \in 0..n
    BY <1>3, <1>4
<1>14. QED BY <1>2, <1>5, <1>10, <1>11, <1>12, <1>13 DEF AreLast

-----------------------------------------------------------------------------
(* Folds: a recursion over the subsets of a finite set has its function.   *)

(* A fold takes the elements of a set one by one, as pick says.            *)
IsPick(pick, D) == \A s \in SUBSET D : s # {} => pick[s] \in s

IsStep(F, D, V) == \A s \in SUBSET D, v \in V : s # {} => F[s][v] \in V

IsFold(g, D, base, F, pick) ==
    g = [s \in SUBSET D |-> IF s = {} THEN base ELSE F[s][g[s \ {pick[s]}]]]

LEMMA RecursionOnSubsets ==
    ASSUME NEW D, IsFiniteSet(D), NEW V, NEW base \in V,
           NEW pick, IsPick(pick, D), NEW F, IsStep(F, D, V)
    PROVE  \E g \in [SUBSET D -> V] : IsFold(g, D, base, F, pick)
<1> DEFINE UpTo(n) == {s \in SUBSET D : Cardinality(s) <= n}
           Rec(g, n) == \A s \in UpTo(n) :
                           g[s] = IF s = {} THEN base ELSE F[s][g[s \ {pick[s]}]]
           Sizes == {n \in Nat : \E g \in [SUBSET D -> V] : Rec(g, n)}
<1>0. \A s \in SUBSET D : IsFiniteSet(s) /\ Cardinality(s) \in Nat
    BY FS_Subset, FS_CardinalityType
<1>1. 0 \in Sizes
    <2> DEFINE g == [s \in SUBSET D |-> base]
    <2>1. g \in [SUBSET D -> V]
        OBVIOUS
    <2>2. \A s \in UpTo(0) : s = {}
        BY <1>0, FS_EmptySet
    <2>3. Rec(g, 0)
        BY <2>2
    <2>4. QED BY <2>1, <2>3
<1>2. ASSUME NEW n \in Nat, n \in Sizes PROVE n + 1 \in Sizes
    <2>1. PICK g \in [SUBSET D -> V] : Rec(g, n)
        BY <1>2
    <2> DEFINE h == [s \in SUBSET D |-> IF s = {} THEN base ELSE F[s][g[s \ {pick[s]}]]]
    <2>2. h \in [SUBSET D -> V]
        <3>1. ASSUME NEW s \in SUBSET D, s # {} PROVE F[s][g[s \ {pick[s]}]] \in V
            <4>1. s \ {pick[s]} \in SUBSET D
                OBVIOUS
            <4>2. g[s \ {pick[s]}] \in V
                BY <4>1
            <4>3. QED BY <3>1, <4>2 DEF IsStep
        <3>2. QED BY <3>1
    <2>3. \A s \in UpTo(n) : h[s] = g[s]
        BY <2>1
    <2>4. ASSUME NEW s \in UpTo(n + 1)
          PROVE  h[s] = IF s = {} THEN base ELSE F[s][h[s \ {pick[s]}]]
        <3>1. CASE s = {}
            BY <3>1
        <3>2. CASE s # {}
            <4>1. pick[s] \in s /\ s \ {pick[s]} \in SUBSET D
                BY <3>2 DEF IsPick
            <4>2. Cardinality(s \ {pick[s]}) = Cardinality(s) - 1
                BY <1>0, <4>1, FS_RemoveElement
            <4>3. s \ {pick[s]} \in UpTo(n)
                BY <1>0, <4>1, <4>2
            <4>4. h[s \ {pick[s]}] = g[s \ {pick[s]}]
                BY <2>3, <4>3
            <4>5. h[s] = F[s][g[s \ {pick[s]}]]
                BY <3>2
            <4>6. QED BY <3>2, <4>4, <4>5
        <3>3. QED BY <3>1, <3>2
    <2>5. Rec(h, n + 1)
        BY <2>4
    <2> HIDE DEF h, Rec
    <2>6. QED BY <2>2, <2>5
<1>3. \A n \in Nat : n \in Sizes
    <2> HIDE DEF Sizes
    <2>1. QED BY <1>1, <1>2, EveryNumber
<1>4. Cardinality(D) \in Sizes
    BY <1>0, <1>3
<1>5. PICK g \in [SUBSET D -> V] : Rec(g, Cardinality(D))
    BY <1>4
<1>6. \A s \in SUBSET D : s \in UpTo(Cardinality(D))
    BY FS_Subset
<1>7. \A s \in SUBSET D : g[s] = IF s = {} THEN base ELSE F[s][g[s \ {pick[s]}]]
    BY <1>5, <1>6
<1>8. g = [s \in SUBSET D |-> IF s = {} THEN base ELSE F[s][g[s \ {pick[s]}]]]
    BY <1>7
<1>9. QED BY <1>8 DEF IsFold

-----------------------------------------------------------------------------
(* Sums.                                                                   *)

(* The summands of w are whole numbers, and finitely many.                 *)
Summable(w) ==
    /\ IsFiniteSet(DOMAIN w)
    /\ \A x \in DOMAIN w : w[x] \in Int

(* w on the set s.                                                         *)
On(w, s) == [x \in s |-> w[x]]

IsSum(f, w, D) ==
    f = [s \in SUBSET D |-> IF s = {} THEN 0
                            ELSE w[CHOOSE x \in s : TRUE] + f[s \ {CHOOSE x \in s : TRUE}]]

LEMMA SumExists ==
    ASSUME NEW w, NEW D, IsFiniteSet(D), \A x \in D : w[x] \in Int
    PROVE  \E f \in [SUBSET D -> Int] : IsSum(f, w, D)
<1> DEFINE pick == [s \in SUBSET D |-> CHOOSE x \in s : TRUE]
           F == [s \in SUBSET D |-> [v \in Int |-> w[pick[s]] + v]]
<1>1. IsPick(pick, D)
    BY DEF IsPick
<1>2. IsStep(F, D, Int)
    BY <1>1 DEF IsPick, IsStep
<1>3. \E f \in [SUBSET D -> Int] : IsFold(f, D, 0, F, pick)
    <2> HIDE DEF pick, F
    <2>1. 0 \in Int
        OBVIOUS
    <2>2. QED BY <1>1, <1>2, <2>1, RecursionOnSubsets
<1>4. PICK f \in [SUBSET D -> Int] :
          f = [s \in SUBSET D |-> IF s = {} THEN 0 ELSE F[s][f[s \ {pick[s]}]]]
    BY <1>3 DEF IsFold
<1>5. ASSUME NEW s \in SUBSET D, s # {}
      PROVE  F[s][f[s \ {pick[s]}]]
                 = w[CHOOSE x \in s : TRUE] + f[s \ {CHOOSE x \in s : TRUE}]
    BY <1>5
<1>6. f = [s \in SUBSET D |-> IF s = {} THEN 0
                              ELSE w[CHOOSE x \in s : TRUE] + f[s \ {CHOOSE x \in s : TRUE}]]
    <2> HIDE DEF F, pick
    <2>1. QED BY <1>4, <1>5
<1>7. QED BY <1>6 DEF IsSum

(* A sum does not depend on the order.                                     *)
AnyOrder(f, w, D) == f[{}] = 0 /\ \A s \in SUBSET D : \A x \in s : f[s] = w[x] + f[s \ {x}]

LEMMA SumIsAnyOrder ==
    ASSUME NEW w, NEW D, IsFiniteSet(D), \A x \in D : w[x] \in Int,
           NEW f \in [SUBSET D -> Int], IsSum(f, w, D)
    PROVE  AnyOrder(f, w, D)
<1> DEFINE Holding == {s \in SUBSET D : \A x \in s : f[s] = w[x] + f[s \ {x}]}
<1>1. ASSUME NEW s \in SUBSET D, \A x \in s : s \ {x} \in Holding PROVE s \in Holding
    <2>1. SUFFICES ASSUME NEW x \in s PROVE f[s] = w[x] + f[s \ {x}]
        OBVIOUS
    <2> DEFINE c == CHOOSE c \in s : TRUE
    <2>2. c \in s
        OBVIOUS
    <2>3. f[s] = w[c] + f[s \ {c}]
        BY <2>1 DEF IsSum
    <2>4. CASE x = c
        BY <2>3, <2>4
    <2>5. CASE x # c
        <3> HIDE DEF c
        <3>1. f[s \ {c}] = w[x] + f[(s \ {c}) \ {x}]
            BY <1>1, <2>2, <2>5
        <3>2. f[s \ {x}] = w[c] + f[(s \ {x}) \ {c}]
            BY <1>1, <2>2, <2>5
        <3>3. (s \ {c}) \ {x} = (s \ {x}) \ {c} /\ (s \ {c}) \ {x} \in SUBSET D
            OBVIOUS
        <3>4. f[(s \ {c}) \ {x}] \in Int /\ w[x] \in Int /\ w[c] \in Int
            BY <2>2, <3>3
        <3>5. PICK rest \in Int : rest = f[(s \ {c}) \ {x}]
            BY <3>4
        <3>6. f[s] = w[c] + (w[x] + rest)
            BY <2>3, <3>1, <3>5
        <3>7. f[s \ {x}] = w[c] + rest
            BY <3>2, <3>3, <3>5
        <3>8. w[c] + (w[x] + rest) = w[x] + (w[c] + rest)
            BY <3>4
        <3>9. QED BY <3>6, <3>7, <3>8
    <2>6. QED BY <2>4, <2>5
<1>2. \A s \in SUBSET D : s \in Holding
    <2> HIDE DEF Holding
    <2>1. QED BY <1>1, BySmaller
<1>3. f[{}] = 0
    BY DEF IsSum
<1>4. QED BY <1>2, <1>3 DEF AnyOrder

LEMMA TotalIsFold ==
    ASSUME NEW w, NEW f, IsSum(f, w, DOMAIN w)
    PROVE  \E g : IsSum(g, w, DOMAIN w) /\ TotalOf(w) = g[DOMAIN w]
BY Zenon DEF IsSum, TotalOf, FoldFunction, FoldFunctionOnSet, MapThenFoldSet, Plus

(* TotalOf sums the values of a function.                                  *)
LEMMA TotalIsSum ==
    ASSUME NEW w, Summable(w),
           NEW f \in [SUBSET DOMAIN w -> Int], IsSum(f, w, DOMAIN w),
           NEW s \in SUBSET DOMAIN w
    PROVE  TotalOf(On(w, s)) = f[s]
<1> DEFINE v == On(w, s)
<1>1. DOMAIN v = s /\ \A x \in s : v[x] = w[x]
    BY DEF On
<1>2. IsFiniteSet(s) /\ \A x \in s : v[x] \in Int
    BY <1>1, FS_Subset DEF Summable
<1> HIDE DEF v
<1>3. \E g : IsSum(g, v, s)
    BY <1>2, SumExists
<1>4. PICK g : IsSum(g, v, s) /\ TotalOf(v) = g[s]
    <2>1. \E g : IsSum(g, v, DOMAIN v) /\ TotalOf(v) = g[DOMAIN v]
        BY <1>1, <1>3, TotalIsFold
    <2>2. QED BY <1>1, <2>1
<1> DEFINE Holding == {t \in SUBSET s : g[t] = f[t]}
<1>5. ASSUME NEW t \in SUBSET s, \A x \in t : t \ {x} \in Holding PROVE t \in Holding
    <2>1. CASE t = {}
        <3>1. g[t] = 0
            BY <1>4, <2>1 DEF IsSum
        <3>2. f[t] = 0
            BY <2>1 DEF IsSum
        <3>3. QED BY <3>1, <3>2
    <2>2. CASE t # {}
        <3> DEFINE c == CHOOSE c \in t : TRUE
        <3>1. c \in t
            BY <2>2
        <3>2. g[t] = v[c] + g[t \ {c}]
            BY <1>4, <2>2 DEF IsSum
        <3>3. f[t] = w[c] + f[t \ {c}]
            BY <2>2 DEF IsSum
        <3> HIDE DEF c
        <3>4. QED BY <1>1, <1>5, <3>1, <3>2, <3>3
    <2>3. QED BY <2>1, <2>2
<1>6. \A t \in SUBSET s : t \in Holding
    <2> HIDE DEF Holding
    <2>1. QED BY <1>2, <1>5, BySmaller
<1>7. QED BY <1>4, <1>6 DEF v

-----------------------------------------------------------------------------
(* Sums of parts, of the same summands in another order, of no less than   *)
(* nothing.                                                                *)

IsFun(w) == w = [x \in DOMAIN w |-> w[x]]

(* f[s] is the sum of w over s, for s of D.                                *)
Adds(f, w, D) ==
    /\ f \in [SUBSET D -> Int] /\ f[{}] = 0
    /\ \A s \in SUBSET D : \A x \in s : f[s] = w[x] + f[s \ {x}]
    /\ \A s \in SUBSET D : TotalOf(On(w, s)) = f[s]

LEMMA SumsExist ==
    ASSUME NEW w, Summable(w)
    PROVE  \E f : Adds(f, w, DOMAIN w)
<1>1. PICK f \in [SUBSET DOMAIN w -> Int] : IsSum(f, w, DOMAIN w)
    BY SumExists DEF Summable
<1>2. f[{}] = 0 /\ \A s \in SUBSET DOMAIN w : \A x \in s : f[s] = w[x] + f[s \ {x}]
    <2>1. PICK D : D = DOMAIN w /\ IsFiniteSet(D) /\ \A x \in D : w[x] \in Int
        BY DEF Summable
    <2>2. f \in [SUBSET D -> Int] /\ IsSum(f, w, D)
        BY <1>1, <2>1
    <2>3. AnyOrder(f, w, D)
        BY <2>1, <2>2, SumIsAnyOrder
    <2>4. QED BY <2>1, <2>3 DEF AnyOrder
<1>3. \A s \in SUBSET DOMAIN w : TotalOf(On(w, s)) = f[s]
    BY <1>1, TotalIsSum
<1>4. QED BY <1>1, <1>2, <1>3 DEF Adds

LEMMA TotalOfAll == ASSUME NEW w, IsFun(w) PROVE On(w, DOMAIN w) = w
BY DEF On, IsFun

LEMMA TotalIsAdded ==
    ASSUME NEW w, IsFun(w), NEW f, Adds(f, w, DOMAIN w)
    PROVE  TotalOf(w) = f[DOMAIN w] /\ TotalOf(w) \in Int
<1>1. DOMAIN w \in SUBSET DOMAIN w
    OBVIOUS
<1>2. TotalOf(On(w, DOMAIN w)) = f[DOMAIN w] /\ f[DOMAIN w] \in Int
    BY <1>1 DEF Adds
<1>3. QED BY <1>2, TotalOfAll

(* A sum is a number.                                                      *)
LEMMA TotalIsNumber ==
    ASSUME NEW w, IsFun(w), Summable(w) PROVE TotalOf(w) \in Int
BY SumsExist, TotalIsAdded

LEMMA AddsApart ==
    ASSUME NEW w, NEW D, IsFiniteSet(D), \A x \in D : w[x] \in Int, NEW f, Adds(f, w, D),
           NEW A \in SUBSET D, NEW B \in SUBSET D, A \cap B = {}, NEW U, U = A \cup B
    PROVE  f[U] = f[A] + f[B]
<1> DEFINE Holding == {s \in SUBSET B : f[A \cup s] = f[A] + f[s]}
<1>1. {} \in Holding
    <2>1. A \cup {} = A /\ f[A] \in Int /\ f[{}] = 0
        BY DEF Adds
    <2>2. QED BY <2>1
<1>2. ASSUME NEW s \in SUBSET B, NEW x \in B, s \in Holding, x \notin s
      PROVE  s \cup {x} \in Holding
    <2>1. PICK t, u : t = s \cup {x} /\ u = A \cup t
        OBVIOUS
    <2>2. t \in SUBSET D /\ u \in SUBSET D /\ x \in t /\ x \in u /\ t \ {x} = s /\ u \ {x} = A \cup s
        BY <1>2, <2>1
    <2>3. f[t] = w[x] + f[s] /\ f[u] = w[x] + f[A \cup s]
        BY <2>2 DEF Adds
    <2>4. f[A \cup s] = f[A] + f[s] /\ w[x] \in Int /\ f[A] \in Int /\ f[s] \in Int
        BY <1>2 DEF Adds
    <2>5. f[u] = f[A] + f[t]
        BY <2>3, <2>4
    <2>6. QED BY <2>1, <2>2, <2>5
<1>3. IsFiniteSet(B)
    BY FS_Subset
<1> HIDE DEF Holding
<1>4. \A s \in SUBSET B : s \in Holding
    BY <1>1, <1>2, <1>3, EverySubset
<1>5. QED BY <1>4 DEF Holding

(* Summands of nothing add nothing.                                        *)
LEMMA NothingAdds ==
    ASSUME NEW w, NEW D, IsFiniteSet(D), NEW f, Adds(f, w, D),
           NEW A \in SUBSET D, \A x \in A : w[x] = 0
    PROVE  f[A] = 0
<1> DEFINE Holding == {s \in SUBSET A : f[s] = 0}
<1>1. {} \in Holding
    BY DEF Adds
<1>2. ASSUME NEW s \in SUBSET A, NEW x \in A, s \in Holding, x \notin s
      PROVE  s \cup {x} \in Holding
    <2>1. PICK t : t = s \cup {x}
        OBVIOUS
    <2>2. t \in SUBSET D /\ x \in t /\ t \ {x} = s
        BY <1>2, <2>1
    <2>3. f[t] = w[x] + f[s]
        BY <2>2 DEF Adds
    <2>4. QED BY <1>2, <2>1, <2>3
<1>3. IsFiniteSet(A)
    BY FS_Subset
<1> HIDE DEF Holding
<1>4. \A s \in SUBSET A : s \in Holding
    BY <1>1, <1>2, <1>3, EverySubset
<1>5. QED BY <1>4 DEF Holding

(* A sum of none that is negative is at least each of them.                *)
LEMMA AtLeastEach ==
    ASSUME NEW w, NEW D, IsFiniteSet(D), \A x \in D : w[x] \in Int /\ w[x] >= 0,
           NEW f, Adds(f, w, D), NEW A \in SUBSET D
    PROVE  f[A] >= 0 /\ \A x \in A : f[A] >= w[x]
<1> DEFINE Holding == {s \in SUBSET D : f[s] >= 0}
<1>0. \A s \in SUBSET D : f[s] \in Int
    BY DEF Adds
<1>1. {} \in Holding
    BY DEF Adds
<1>2. ASSUME NEW s \in SUBSET D, NEW x \in D, s \in Holding, x \notin s
      PROVE  s \cup {x} \in Holding
    <2>1. PICK t : t = s \cup {x}
        OBVIOUS
    <2>2. t \in SUBSET D /\ x \in t /\ t \ {x} = s
        BY <1>2, <2>1
    <2>3. f[t] = w[x] + f[s] /\ w[x] \in Int /\ w[x] >= 0 /\ f[s] \in Int
        BY <1>0, <2>2 DEF Adds
    <2>4. QED BY <1>2, <2>1, <2>2, <2>3
<1> HIDE DEF Holding
<1>4. \A s \in SUBSET D : s \in Holding
    BY <1>1, <1>2, EverySubset
<1>5. \A s \in SUBSET D : f[s] >= 0
    BY <1>4 DEF Holding
<1>6. ASSUME NEW x \in A PROVE f[A] >= w[x]
    <2>1. f[A] = w[x] + f[A \ {x}]
        BY DEF Adds
    <2>2. f[A \ {x}] \in Int /\ f[A \ {x}] >= 0 /\ w[x] \in Int
        BY <1>0, <1>5
    <2>3. QED BY <2>1, <2>2
<1>7. QED BY <1>5, <1>6

(* What sums w by the key p of its entries.                                *)
PartOf(w, p, c) == {x \in DOMAIN w : p[x] = c}

Parts(parts, w, p) ==
    /\ IsFun(parts) /\ DOMAIN parts = {p[x] : x \in DOMAIN w}
    /\ \A c \in DOMAIN parts : parts[c] = TotalOf(On(w, PartOf(w, p, c)))

(* The parts add up to the whole, whatever the key.                        *)
LEMMA TotalByParts ==
    ASSUME NEW w, IsFun(w), Summable(w), NEW p, NEW parts, Parts(parts, w, p)
    PROVE  TotalOf(parts) = TotalOf(w)
<1>1. PICK D : D = DOMAIN w
    OBVIOUS
<1>2. IsFiniteSet(D) /\ \A x \in D : w[x] \in Int
    BY <1>1 DEF Summable
<1>3. PICK f : Adds(f, w, D)
    BY <1>1, SumsExist
<1>4. PICK K : K = {p[x] : x \in D}
    OBVIOUS
<1>5. DOMAIN parts = K /\ \A c \in K : parts[c] = f[PartOf(w, p, c)] /\ parts[c] \in Int
    <2>1. DOMAIN parts = K
        BY <1>1, <1>4 DEF Parts
    <2>2. \A c \in K : PartOf(w, p, c) \in SUBSET D
        BY <1>1 DEF PartOf
    <2>3. QED BY <1>3, <2>1, <2>2 DEF Parts, Adds
<1>6. IsFiniteSet(K)
    <2>1. IsFiniteSet({p[x] : x \in D})
        BY <1>2, ImageIsFinite
    <2>2. QED BY <1>4, <2>1
<1>7. PICK g : Adds(g, parts, K)
    BY <1>5, <1>6, SumsExist DEF Summable
<1> DEFINE Of(C) == {x \in D : p[x] \in C}
           Holding == {C \in SUBSET K : g[C] = f[Of(C)]}
<1>8. {} \in Holding
    <2>1. Of({}) = {}
        OBVIOUS
    <2>2. QED BY <1>3, <1>7, <2>1 DEF Adds
<1>9. ASSUME NEW C \in SUBSET K, NEW c \in K, C \in Holding, c \notin C
      PROVE  C \cup {c} \in Holding
    <2>1. PICK E, A, B : E = C \cup {c} /\ A = Of(C) /\ B = PartOf(w, p, c)
        OBVIOUS
    <2>2. A \in SUBSET D /\ B \in SUBSET D /\ A \cap B = {} /\ Of(E) = A \cup B
        BY <1>1, <1>9, <2>1 DEF PartOf
    <2>3. PICK U : U = Of(E)
        OBVIOUS
    <2>u. f[U] = f[A] + f[B]
        BY <1>2, <1>3, <2>2, <2>3, AddsApart
    <2>4. E \in SUBSET K /\ c \in E /\ E \ {c} = C
        BY <1>9, <2>1
    <2>5. g[E] = parts[c] + g[C]
        BY <1>7, <2>4 DEF Adds
    <2>6. g[C] = f[A] /\ parts[c] = f[B]
        BY <1>5, <1>9, <2>1
    <2>7. f[A] \in Int /\ f[B] \in Int
        BY <1>3, <2>2 DEF Adds
    <2>8. g[E] = f[Of(E)]
        BY <2>3, <2>u, <2>5, <2>6, <2>7, <1>3 DEF Adds
    <2>9. QED BY <2>1, <2>4, <2>8
<1>10. K \in Holding
    <2> HIDE DEF Holding
    <2>1. \A C \in SUBSET K : C \in Holding
        BY <1>6, <1>8, <1>9, EverySubset
    <2>2. QED BY <2>1
<1>11. Of(K) = D
    BY <1>4
<1>12. TotalOf(parts) = g[K] /\ TotalOf(w) = f[D]
    BY <1>1, <1>3, <1>5, <1>7, TotalIsAdded DEF Parts
<1>13. QED BY <1>10, <1>11, <1>12

(* h names each entry of w once.                                           *)
Renames(h, w, v) ==
    /\ IsFun(v) /\ IsFiniteSet(DOMAIN v)
    /\ \A d \in DOMAIN v : h[d] \in DOMAIN w /\ v[d] = w[h[d]]
    /\ \A x \in DOMAIN w : \E d \in DOMAIN v : h[d] = x
    /\ \A d, e \in DOMAIN v : h[d] = h[e] => d = e

(* A sum is the same under other names.                                    *)
LEMMA TotalRenamed ==
    ASSUME NEW w, IsFun(w), \A x \in DOMAIN w : w[x] \in Int, NEW v, NEW h, Renames(h, w, v)
    PROVE  TotalOf(v) = TotalOf(w)
<1>1. Summable(v) /\ IsFun(v)
    BY DEF Renames, Summable
<1>2. PICK f : Adds(f, v, DOMAIN v)
    BY <1>1, SumsExist
<1>3. DOMAIN w = {h[d] : d \in DOMAIN v}
    BY DEF Renames
<1>4. ASSUME NEW c \in DOMAIN w PROVE w[c] = TotalOf(On(v, PartOf(v, h, c)))
    <2>1. PICK d \in DOMAIN v : h[d] = c
        BY DEF Renames
    <2>2. PartOf(v, h, c) = {d}
        BY <2>1 DEF PartOf, Renames
    <2>3. f[{d}] = v[d] + f[{}] /\ f[{}] = 0
        <3>1. {d} \in SUBSET DOMAIN v /\ d \in {d} /\ {d} \ {d} = {}
            OBVIOUS
        <3>2. QED BY <1>2, <3>1 DEF Adds
    <2>4. v[d] = w[c] /\ v[d] \in Int
        BY <2>1 DEF Renames
    <2>5. TotalOf(On(v, {d})) = f[{d}]
        BY <1>2 DEF Adds
    <2>6. QED BY <2>2, <2>3, <2>4, <2>5
<1>5. Parts(w, v, h)
    BY <1>3, <1>4 DEF Parts
<1>6. QED BY <1>1, <1>5, TotalByParts

(* What is missing counts as nothing.                                      *)
LEMMA TotalOfMore ==
    ASSUME NEW v, IsFun(v), Summable(v), NEW w, IsFun(w), DOMAIN w \in SUBSET DOMAIN v,
           \A x \in DOMAIN v : v[x] = IF x \in DOMAIN w THEN w[x] ELSE 0
    PROVE  TotalOf(v) = TotalOf(w)
<1>1. PICK D : D = DOMAIN v
    OBVIOUS
<1>2. IsFiniteSet(D) /\ \A x \in D : v[x] \in Int
    BY <1>1 DEF Summable
<1>3. PICK f : Adds(f, v, D)
    BY <1>1, SumsExist
<1>4. PICK A, B : A = DOMAIN w /\ B = D \ A
    OBVIOUS
<1>5. A \in SUBSET D /\ B \in SUBSET D /\ A \cap B = {} /\ A \cup B = D
    BY <1>1, <1>4
<1>6. f[D] = f[A] + f[B]
    BY <1>2, <1>3, <1>5, AddsApart
<1>7. f[B] = 0
    <2>1. \A x \in B : v[x] = 0
        BY <1>1, <1>4
    <2>2. QED BY <1>2, <1>3, <1>5, <2>1, NothingAdds
<1>8. On(v, A) = w
    <2>1. \A x \in A : v[x] = w[x]
        BY <1>1, <1>4, <1>5
    <2>2. w = [x \in A |-> w[x]]
        BY <1>4 DEF IsFun
    <2>3. QED BY <2>1, <2>2 DEF On
<1>9. TotalOf(w) = f[A] /\ f[A] \in Int
    BY <1>3, <1>5, <1>8 DEF Adds
<1>10. TotalOf(v) = f[D]
    BY <1>1, <1>3, TotalIsAdded
<1>11. QED BY <1>6, <1>7, <1>9, <1>10

-----------------------------------------------------------------------------
(* Orders.                                                                 *)

(* before puts any two of the places in an order.                          *)
StrictOrder(places, before) ==
    /\ \A p \in places : <<p, p>> \notin before
    /\ \A p, q, r \in places : <<p, q>> \in before /\ <<q, r>> \in before => <<p, r>> \in before
    /\ \A p, q \in places : p # q => <<p, q>> \in before \/ <<q, p>> \in before

(* first is an order up to ties.                                           *)
WeakOrder(places, first) ==
    /\ \A p, q \in places : <<p, q>> \in first => <<q, p>> \notin first
    /\ \A p, q, r \in places : <<p, r>> \in first => <<p, q>> \in first \/ <<q, r>> \in first

(* The order is a list of the places, each once and in order.              *)
IsOrder(order, places, before) ==
    /\ DOMAIN order = 1..Cardinality(places)
    /\ \A k \in DOMAIN order : order[k] \in places
    /\ \A p \in places : \E k \in DOMAIN order : order[k] = p
    /\ \A j, k \in DOMAIN order : j < k => <<order[j], order[k]>> \in before

LEMMA OrderIsPut ==
    ASSUME NEW places, IsFiniteSet(places), NEW before, StrictOrder(places, before)
    PROVE  IsOrder(InOrder(places, before), places, before)
<1> DEFINE n == Cardinality(places)
           lower(p) == {q \in places : <<q, p>> \in before}
           rank == [p \in places |-> Cardinality(lower(p))]
           order == InOrder(places, before)
<1>0. n \in Nat
    BY FS_CardinalityType
<1>1. \A p \in places : IsFiniteSet(lower(p)) /\ rank[p] \in Nat
    BY FS_Subset, FS_CardinalityType
<1>a. \A p \in places : rank[p] \in Nat
    BY <1>1
<1>2. ASSUME NEW p \in places PROVE rank[p] < n
    <2>1. p \notin lower(p)
        BY DEF StrictOrder
    <2>2. lower(p) \in SUBSET places /\ lower(p) # places
        BY <2>1
    <2> HIDE DEF lower
    <2>3. Cardinality(lower(p)) <= n /\ Cardinality(lower(p)) # n
        BY <2>2, FS_Subset
    <2>4. QED BY <1>0, <1>1, <2>3
<1>3. ASSUME NEW p \in places, NEW q \in places, <<p, q>> \in before PROVE rank[p] < rank[q]
    <2>1. lower(p) \in SUBSET lower(q)
        BY <1>3 DEF StrictOrder
    <2>2. p \in lower(q) /\ p \notin lower(p)
        BY <1>3 DEF StrictOrder
    <2>3. IsFiniteSet(lower(q)) /\ IsFiniteSet(lower(p))
        BY <1>1
    <2>4. rank[p] = Cardinality(lower(p)) /\ rank[q] = Cardinality(lower(q))
        OBVIOUS
    <2>5. rank[p] \in Nat /\ rank[q] \in Nat
        BY <1>1
    <2> HIDE DEF lower, rank
    <2>6. Cardinality(lower(p)) <= Cardinality(lower(q)) /\ Cardinality(lower(p)) # Cardinality(lower(q))
        BY <2>1, <2>2, <2>3, FS_Subset
    <2>7. QED BY <2>4, <2>5, <2>6
<1>4. \A p, q \in places : rank[p] = rank[q] => p = q
    <2> HIDE DEF rank
    <2>1. ASSUME NEW p \in places, NEW q \in places, p # q PROVE rank[p] # rank[q]
        <3>1. <<p, q>> \in before \/ <<q, p>> \in before
            BY <2>1 DEF StrictOrder
        <3>2. rank[p] < rank[q] \/ rank[q] < rank[p]
            BY <1>3, <3>1
        <3>3. QED BY <1>a, <3>2
    <2>2. QED BY <2>1
<1>5. \A k \in 0..(n - 1) : \E p \in places : rank[p] = k
    <2>1. rank \in [places -> 0..(n - 1)]
        <3>1. ASSUME NEW p \in places PROVE rank[p] \in 0..(n - 1)
            <4> HIDE DEF rank, n
            <4>1. QED BY <1>0, <1>a, <1>2
        <3>2. DOMAIN rank = places /\ rank = [p \in places |-> rank[p]]
            OBVIOUS
        <3> HIDE DEF rank
        <3>3. QED BY <3>1, <3>2
    <2> HIDE DEF rank
    <2>2. rank \in Injection(places, 0..(n - 1))
        BY <1>4, <2>1 DEF Injection, IsInjective
    <2>3. IsFiniteSet(0..(n - 1)) /\ Cardinality(0..(n - 1)) = n
        BY <1>0, FS_Interval
    <2> HIDE DEF n
    <2>4. rank \in Surjection(places, 0..(n - 1))
        BY <2>2, <2>3, FS_Injection DEF n
    <2>5. QED BY <2>4 DEF Surjection
<1>6. order = [k \in 1..n |-> CHOOSE p \in places : rank[p] = k - 1]
    <2>1. \A p \in places : rank[p] = Cardinality({q \in places : <<q, p>> \in before})
        OBVIOUS
    <2>2. \A k \in 1..n : (CHOOSE p \in places : rank[p] = k - 1)
              = (CHOOSE p \in places : Cardinality({q \in places : <<q, p>> \in before}) = k - 1)
        <3> HIDE DEF rank
        <3>1. QED BY <2>1
    <2>3. QED BY <2>2 DEF InOrder
<1>7. \A k \in 1..n : order[k] \in places /\ rank[order[k]] = k - 1
    <2> HIDE DEF rank, order
    <2>1. ASSUME NEW k \in 1..n
          PROVE  order[k] \in places /\ rank[order[k]] = k - 1
        <3>1. k - 1 \in 0..(n - 1)
            BY <1>0
        <3>2. \E p \in places : rank[p] = k - 1
            BY <1>5, <3>1
        <3>3. order[k] = CHOOSE p \in places : rank[p] = k - 1
            BY <1>6
        <3>4. QED BY <3>2, <3>3
    <2>2. QED BY <2>1
<1>8. DOMAIN order = 1..n
    BY <1>6
<1> HIDE DEF order, rank, n
<1>9. ASSUME NEW p \in places PROVE \E k \in DOMAIN order : order[k] = p
    <2>1. PICK r \in Nat : r = rank[p]
        BY <1>a
    <2>2. r + 1 \in 1..n /\ (r + 1) - 1 = r
        BY <1>0, <1>2, <2>1
    <2>3. order[r + 1] \in places /\ rank[order[r + 1]] = r
        BY <1>7, <2>2
    <2>4. QED BY <1>4, <1>8, <2>1, <2>2, <2>3
<1>10. ASSUME NEW j \in DOMAIN order, NEW k \in DOMAIN order, j < k
       PROVE  <<order[j], order[k]>> \in before
    <2>1. rank[order[j]] < rank[order[k]] /\ order[j] \in places /\ order[k] \in places
        BY <1>0, <1>7, <1>8, <1>10
    <2>2. rank[order[j]] \in Nat /\ rank[order[k]] \in Nat
        BY <1>1, <2>1
    <2>3. order[j] # order[k]
        BY <2>1, <2>2
    <2>4. ~ (<<order[k], order[j]>> \in before)
        BY <1>3, <2>1, <2>2
    <2>5. QED BY <2>1, <2>3, <2>4 DEF StrictOrder
<1>11. QED BY <1>7, <1>8, <1>9, <1>10 DEF IsOrder, n, order

(* A stable sort by an order up to ties puts the places in an order.       *)
LEMMA StablyOrders ==
    ASSUME NEW places \in SUBSET Int, NEW first, WeakOrder(places, first),
           NEW before,
           before = {p \in places \X places :
                        <<p[1], p[2]>> \in first \/ (<<p[2], p[1]>> \notin first /\ p[1] < p[2])}
    PROVE  StrictOrder(places, before)
<1>1. \A p, q \in places : <<p, q>> \in before <=>
          <<p, q>> \in first \/ (<<q, p>> \notin first /\ p < q)
    OBVIOUS
<1>2. \A p \in places : <<p, p>> \notin before
    BY <1>1 DEF WeakOrder
<1>3. ASSUME NEW p \in places, NEW q \in places, p # q
      PROVE  <<p, q>> \in before \/ <<q, p>> \in before
    <2>1. p < q \/ q < p
        BY <1>3
    <2>2. QED BY <1>1, <2>1
<1>4. ASSUME NEW p \in places, NEW q \in places, NEW r \in places,
             <<p, q>> \in before, <<q, r>> \in before
      PROVE  <<p, r>> \in before
    <2>1. <<p, q>> \in first \/ (<<q, p>> \notin first /\ p < q)
        BY <1>1, <1>4
    <2>2. <<q, r>> \in first \/ (<<r, q>> \notin first /\ q < r)
        BY <1>1, <1>4
    <2>3. p \in Int /\ q \in Int /\ r \in Int
        OBVIOUS
    <2>4. CASE <<p, q>> \in first
        <3>1. <<r, q>> \notin first
            BY <2>2 DEF WeakOrder
        <3>2. <<p, r>> \in first
            BY <2>4, <3>1 DEF WeakOrder
        <3>3. QED BY <1>1, <3>2
    <2>5. CASE <<p, q>> \notin first
        <3>1. <<q, p>> \notin first /\ p < q
            BY <2>1, <2>5
        <3>2. CASE <<q, r>> \in first
            <4>1. <<p, r>> \in first
                BY <3>1, <3>2 DEF WeakOrder
            <4>2. QED BY <1>1, <4>1
        <3>3. CASE <<q, r>> \notin first
            <4>1. <<r, q>> \notin first /\ q < r
                BY <2>2, <3>3
            <4>2. <<r, p>> \notin first
                BY <3>1, <4>1 DEF WeakOrder
            <4>3. p < r
                BY <2>3, <3>1, <4>1
            <4>4. QED BY <1>1, <4>2, <4>3
        <3>4. QED BY <3>2, <3>3
    <2>6. QED BY <2>4, <2>5
<1>5. QED BY <1>2, <1>3, <1>4 DEF StrictOrder

-----------------------------------------------------------------------------
(* Readings of a book of any size.                                         *)

(* A value that stands for a call that raised is no list of anything.      *)
IsNoFunction(v) == \A D, R : v \notin [D -> R]

(* The lots of a book as an analyst reads them on a day: each with its own *)
(* name, and with a whole expectation of its class.                        *)
IsRead(lots, asOf) ==
    /\ \E n \in Nat : DOMAIN lots = 1..n
    /\ \A i, j \in DOMAIN lots : lots[i].id = lots[j].id => i = j
    /\ \A i \in DOMAIN lots :
          /\ lots[i].acquired \in Int /\ lots[i].cost \in Int
          /\ lots[i].gain \in Int \cup {Unpriced}
          /\ lots[i].acquired <= asOf =>
                Expected(lots[i].sleeve, asOf - lots[i].acquired) \in Int

IsAttributable(lots, asOf) == \A i \in DOMAIN lots : ~ Unattributable(lots[i], asOf)

LEMMA ActiveIsWhole ==
    ASSUME NEW lots, NEW asOf \in Int, IsRead(lots, asOf), IsAttributable(lots, asOf),
           NEW i \in DOMAIN lots
    PROVE  Gain(lots[i]) \in Int /\ Active(lots[i], asOf) \in Int
<1>1. lots[i].acquired <= asOf /\ lots[i].gain \in Int /\ lots[i].cost \in Int /\ lots[i].cost > 0
    BY DEF IsRead, IsAttributable, Unattributable
<1>2. Expected(lots[i].sleeve, asOf - lots[i].acquired) \in Int
    BY <1>1 DEF IsRead
<1>3. PICK g \in Int, c \in Int : g = lots[i].gain /\ c = lots[i].cost /\ c > 0
    BY <1>1
<1>4. (100 * g) \div c \in Int
    BY <1>3
<1>5. Gain(lots[i]) \in Int
    BY <1>3, <1>4 DEF Gain
<1>6. QED BY <1>2, <1>5 DEF Active

LEMMA MagnitudeIsWhole ==
    ASSUME NEW x \in Int PROVE Magnitude(x) \in Nat
BY DEF Magnitude

(* order lists the places of the lots as the rows have them.               *)
AreRows(order, lots, asOf) ==
    /\ Attribution(lots, asOf) = [k \in DOMAIN order |-> Row(lots, order[k], asOf)]
    /\ \E n \in Nat : DOMAIN order = 1..n
    /\ \A k \in DOMAIN order : order[k] \in DOMAIN lots
    /\ \A i \in DOMAIN lots : \E k \in DOMAIN order : order[k] = i
    /\ \A j, k \in DOMAIN order : j < k =>
          Magnitude(Active(lots[order[j]], asOf)) >= Magnitude(Active(lots[order[k]], asOf))

(* The rows are those of all lots, the strongest first.                    *)
LEMMA RowsAreInOrder ==
    ASSUME NEW lots, NEW asOf \in Int, IsRead(lots, asOf), IsAttributable(lots, asOf)
    PROVE  \E order : AreRows(order, lots, asOf)
<1> DEFINE places == DOMAIN lots
           m == [i \in places |-> Magnitude(Active(lots[i], asOf))]
           first == {p \in places \X places : m[p[1]] > m[p[2]]}
           before == Outranking(lots, asOf)
           order == InOrder(places, before)
<1>1. \A i \in places : m[i] \in Nat
    BY ActiveIsWhole, MagnitudeIsWhole
<1>2. IsFiniteSet(places) /\ places \in SUBSET Int
    BY FS_Interval DEF IsRead
<1>3. before = {p \in places \X places :
                   <<p[1], p[2]>> \in first \/ (<<p[2], p[1]>> \notin first /\ p[1] < p[2])}
    <2>1. before = {p \in places \X places :
                       m[p[1]] > m[p[2]] \/ (~ (m[p[2]] > m[p[1]]) /\ p[1] < p[2])}
        BY DEF Outranking, Stably, Stronger, Row
    <2> HIDE DEF before, m
    <2>2. QED BY <2>1
<1>4. WeakOrder(places, first)
    <2> HIDE DEF m
    <2>1. QED BY <1>1 DEF WeakOrder
<1>5. StrictOrder(places, before)
    <2> HIDE DEF before, first
    <2>1. QED BY <1>2, <1>3, <1>4, StablyOrders
<1>6. IsOrder(order, places, before)
    <2> HIDE DEF before
    <2>1. QED BY <1>2, <1>5, OrderIsPut
<1>7. Attribution(lots, asOf) = [k \in DOMAIN order |-> Row(lots, order[k], asOf)]
    <2>1. ~ \E lot \in ToSet(lots) : Unattributable(lot, asOf)
        BY DEF IsAttributable, ToSet
    <2>2. QED BY <2>1 DEF Attribution
<1>8. ASSUME NEW j \in DOMAIN order, NEW k \in DOMAIN order, j < k
      PROVE  m[order[j]] >= m[order[k]]
    <2>1. <<order[j], order[k]>> \in before /\ order[j] \in places /\ order[k] \in places
        BY <1>6, <1>8 DEF IsOrder
    <2>2. <<order[j], order[k]>> \in first \/ <<order[k], order[j]>> \notin first
        BY <1>3, <2>1
    <2> HIDE DEF order, m
    <2>3. QED BY <1>1, <2>1, <2>2
<1>9. \A k \in DOMAIN order : order[k] \in places
    BY <1>6 DEF IsOrder
<1>10. \A j, k \in DOMAIN order : j < k =>
          Magnitude(Active(lots[order[j]], asOf)) >= Magnitude(Active(lots[order[k]], asOf))
    <2> HIDE DEF order
    <2>1. QED BY <1>8, <1>9
<1>11. \A i \in places : \E k \in DOMAIN order : order[k] = i
    BY <1>6 DEF IsOrder
<1>12. \E n \in Nat : DOMAIN order = 1..n
    BY <1>2, <1>6, FS_CardinalityType DEF IsOrder
<1> HIDE DEF order
<1>13. AreRows(order, lots, asOf)
    BY <1>7, <1>9, <1>10, <1>11, <1>12 DEF AreRows
<1>14. QED BY <1>13

(* A thesis is dated by the first lot it covers, and judges by its own     *)
(* security.                                                               *)
LEMMA ThesesCoverLots ==
    ASSUME NEW lots, NEW asOf \in Int, IsRead(lots, asOf), NEW i \in DOMAIN lots
    PROVE  /\ Instrument(lots[i]) \in DOMAIN EmitTheses(lots)
           /\ EmitTheses(lots)[Instrument(lots[i])].criteria = KillCriteria(lots[i].security)
           /\ ~ (EmitTheses(lots)[Instrument(lots[i])].effective > lots[i].acquired)
<1> DEFINE key == Instrument(lots[i])
           same == {j \in DOMAIN lots : Instrument(lots[j]) = key}
           days == {lots[j].acquired : j \in same}
<1>1. key \in {Instrument(lot) : lot \in ToSet(lots)}
    BY DEF ToSet
<1>2. {lot.acquired : lot \in {l \in ToSet(lots) : Instrument(l) = key}} = days
    BY DEF ToSet
<1>3. /\ key \in DOMAIN EmitTheses(lots)
      /\ EmitTheses(lots)[key] = [effective |-> Min(days), criteria |-> KillCriteria(key[2])]
    <2> HIDE DEF days, key
    <2>1. QED BY <1>1, <1>2 DEF EmitTheses
<1>4. key[2] = lots[i].security
    BY DEF Instrument
<1>5. IsFiniteSet(days) /\ days \in SUBSET Int /\ lots[i].acquired \in days
    <2>1. IsFiniteSet(DOMAIN lots)
        BY FS_Interval DEF IsRead
    <2>2. IsFiniteSet(same)
        BY <2>1, FS_Subset
    <2> DEFINE f == [j \in same |-> lots[j].acquired]
    <2>3. days = {f[j] : j \in same}
        OBVIOUS
    <2>4. days \in SUBSET Int /\ lots[i].acquired \in days
        BY DEF IsRead
    <2> HIDE DEF f, same, days
    <2>5. QED BY <2>2, <2>3, <2>4, ImageIsFinite
<1>6. ~ (Min(days) > lots[i].acquired)
    <2> HIDE DEF days
    <2>1. Min(days) \in days /\ Min(days) <= lots[i].acquired
        BY <1>5, MinIsLeast
    <2>2. Min(days) \in Int /\ lots[i].acquired \in Int
        BY <1>5, <2>1
    <2> DEFINE least == Min(days)
    <2> HIDE DEF least
    <2>3. QED BY <2>1, <2>2 DEF least
<1>7. QED BY <1>3, <1>4, <1>6

(* The return the panel looks up for a lot is one of its instrument's, and *)
(* the weakest of them.                                                    *)
LEMMA LookUpIsWeakest ==
    ASSUME NEW lots, NEW asOf \in Int, IsRead(lots, asOf), IsAttributable(lots, asOf),
           NEW i \in DOMAIN lots
    PROVE  LET found == ActiveByKey(Attribution(lots, asOf), Instrument(lots[i]))
           IN  Magnitude(found) \in Int /\ Magnitude(found) <= Magnitude(Active(lots[i], asOf))
<1>0. PICK order : AreRows(order, lots, asOf)
    BY RowsAreInOrder
<1>1. /\ Attribution(lots, asOf) = [k \in DOMAIN order |-> Row(lots, order[k], asOf)]
      /\ \E n \in Nat : DOMAIN order = 1..n
      /\ \A k \in DOMAIN order : order[k] \in DOMAIN lots
      /\ \A j \in DOMAIN lots : \E k \in DOMAIN order : order[k] = j
      /\ \A j, k \in DOMAIN order : j < k =>
            Magnitude(Active(lots[order[j]], asOf)) >= Magnitude(Active(lots[order[k]], asOf))
    BY <1>0 DEF AreRows
<1> DEFINE rows == Attribution(lots, asOf)
           key == Instrument(lots[i])
           at == {k \in DOMAIN rows : Instrument(rows[k].lot) = key}
           last == Max(at)
<1>2. DOMAIN rows = DOMAIN order /\ \A k \in DOMAIN order : rows[k] = Row(lots, order[k], asOf)
    BY <1>1
<1>3. PICK k \in DOMAIN order : order[k] = i
    BY <1>1
<1>4. k \in at
    BY <1>2, <1>3 DEF Row
<1>5. IsFiniteSet(at) /\ at \in SUBSET Int
    <2>1. IsFiniteSet(DOMAIN order) /\ DOMAIN order \in SUBSET Int
        BY <1>1, FS_Interval
    <2>2. at \in SUBSET DOMAIN order
        BY <1>2
    <2> HIDE DEF at
    <2>3. QED BY <2>1, <2>2, FS_Subset
<1>6. last \in at /\ last >= k
    <2> HIDE DEF at
    <2>1. QED BY <1>4, <1>5, MaxIsGreatest
<1>7. last \in DOMAIN order
    BY <1>2, <1>6
<1>8. ActiveByKey(rows, key) = Active(lots[order[last]], asOf)
    <2>1. ActiveByKey(rows, key) = rows[last].active
        BY DEF ActiveByKey
    <2> HIDE DEF last, rows
    <2>2. QED BY <1>2, <1>7, <2>1 DEF Row
<1>9. last = k \/ k < last
    BY <1>4, <1>5, <1>6
<1>10. Magnitude(Active(lots[order[last]], asOf)) \in Nat /\ Magnitude(Active(lots[i], asOf)) \in Nat
    <2> HIDE DEF last
    <2>1. QED BY <1>1, <1>7, ActiveIsWhole, MagnitudeIsWhole
<1>11. Magnitude(Active(lots[order[last]], asOf)) <= Magnitude(Active(lots[i], asOf))
    <2> HIDE DEF last
    <2>1. CASE last = k
        BY <1>3, <1>10, <2>1
    <2>2. CASE k < last
        BY <1>1, <1>3, <1>7, <1>10, <2>2
    <2>3. QED BY <1>9, <2>1, <2>2
<1>12. QED BY <1>8, <1>10, <1>11

(* A book is attributed unless one of its lots cannot be.                  *)
LEMMA AttributionRaises ==
    ASSUME NEW lots, NEW asOf \in Int, IsRead(lots, asOf), IsNoFunction(NotAttributed)
    PROVE  Attribution(lots, asOf) = NotAttributed <=> ~ IsAttributable(lots, asOf)
<1> DEFINE rows == Attribution(lots, asOf)
<1>1. ASSUME ~ IsAttributable(lots, asOf) PROVE rows = NotAttributed
    BY <1>1 DEF Attribution, ToSet, IsAttributable
<1>2. ASSUME IsAttributable(lots, asOf) PROVE rows # NotAttributed
    <2>0. PICK order : AreRows(order, lots, asOf)
        BY <1>2, RowsAreInOrder
    <2>1. rows = [k \in DOMAIN order |-> Row(lots, order[k], asOf)]
        BY <2>0 DEF AreRows
    <2>2. rows \in [DOMAIN order -> {Row(lots, order[k], asOf) : k \in DOMAIN order}]
        BY <2>1
    <2> HIDE DEF rows
    <2>3. QED BY <2>2, Zenon DEF IsNoFunction
<1>3. QED BY <1>1, <1>2

(* The panel is live exactly when every lot can be attributed.             *)
LEMMA WatchIsLive ==
    ASSUME NEW lots, NEW asOf \in Int, IsRead(lots, asOf), IsNoFunction(NotAttributed)
    PROVE  /\ Watch(lots, asOf).live <=> IsAttributable(lots, asOf)
           /\ Watch(lots, asOf).live =>
                 /\ Watch(lots, asOf).breaches =
                       UNION {{<<lots[i].id, c>> : c \in
                           BreachesOf(KillCriteria(lots[i].security), lots[i],
                               ActiveByKey(Attribution(lots, asOf), Instrument(lots[i])), asOf)} :
                           i \in DOMAIN lots}
                 /\ Watch(lots, asOf).checkpoint =
                       Checkpoint1(Attribution(lots, asOf), EmitTheses(lots), asOf)
<1> DEFINE rows == Attribution(lots, asOf)
           theses == EmitTheses(lots)
           dead == rows = NotAttributed
                   \/ \E lot \in ToSet(lots) : Unjudged(lot, theses[Instrument(lot)])
           listed == UNION {{<<lot.id, c>> : c \in
                        BreachesOf(theses[Instrument(lot)].criteria, lot,
                                   ActiveByKey(rows, Instrument(lot)), asOf)} : lot \in ToSet(lots)}
<1>1. Watch(lots, asOf) =
          IF dead THEN ErrorPanel
          ELSE [live |-> TRUE, breaches |-> listed, checkpoint |-> Checkpoint1(rows, theses, asOf)]
    BY Zenon DEF Watch
<1>2. rows = NotAttributed <=> ~ IsAttributable(lots, asOf)
    BY AttributionRaises
<1>3. ASSUME NEW i \in DOMAIN lots, IsAttributable(lots, asOf)
      PROVE  ~ Unjudged(lots[i], theses[Instrument(lots[i])])
    <2>1. ~ (theses[Instrument(lots[i])].effective > lots[i].acquired)
        BY ThesesCoverLots
    <2>2. ~ Unattributable(lots[i], asOf)
        BY <1>3 DEF IsAttributable
    <2> HIDE DEF theses
    <2>3. QED BY <2>1, <2>2 DEF Unjudged, Unattributable
<1>4. dead <=> ~ IsAttributable(lots, asOf)
    <2>1. ASSUME IsAttributable(lots, asOf) PROVE ~ dead
        <3>1. \A lot \in ToSet(lots) : ~ Unjudged(lot, theses[Instrument(lot)])
            <4> HIDE DEF theses
            <4>1. QED BY <1>3, <2>1 DEF ToSet
        <3> HIDE DEF rows, theses
        <3>2. QED BY <1>2, <2>1, <3>1
    <2> HIDE DEF rows, theses
    <2>2. QED BY <1>2, <2>1
<1>5. listed = UNION {{<<lots[i].id, c>> : c \in
                    BreachesOf(KillCriteria(lots[i].security), lots[i],
                        ActiveByKey(rows, Instrument(lots[i])), asOf)} : i \in DOMAIN lots}
    <2>1. \A i \in DOMAIN lots :
              theses[Instrument(lots[i])].criteria = KillCriteria(lots[i].security)
        BY ThesesCoverLots
    <2>2. listed = UNION {{<<lots[i].id, c>> : c \in
                        BreachesOf(theses[Instrument(lots[i])].criteria, lots[i],
                            ActiveByKey(rows, Instrument(lots[i])), asOf)} : i \in DOMAIN lots}
        <3> HIDE DEF theses, rows
        <3>1. QED BY DEF ToSet
    <2> HIDE DEF theses, rows, listed
    <2>3. QED BY <2>1, <2>2
<1>6. CASE dead
    <2>1. Watch(lots, asOf).live = FALSE
        <3> HIDE DEF dead
        <3>1. QED BY <1>1, <1>6 DEF ErrorPanel
    <2>2. QED BY <1>4, <1>6, <2>1
<1>7. CASE ~ dead
    <2>1. Watch(lots, asOf) =
              [live |-> TRUE, breaches |-> listed, checkpoint |-> Checkpoint1(rows, theses, asOf)]
        <3> HIDE DEF dead, listed
        <3>1. QED BY <1>1, <1>7
    <2> HIDE DEF dead, listed, rows, theses
    <2>2. QED BY <1>4, <1>5, <1>7, <2>1 DEF rows, theses
<1>8. QED BY <1>6, <1>7

(* The review finds a breach exactly when some lot has one of its own.     *)
LEMMA CheckpointIsOwn ==
    ASSUME NEW lots, NEW asOf \in Int, IsRead(lots, asOf), IsAttributable(lots, asOf)
    PROVE  Checkpoint1(Attribution(lots, asOf), EmitTheses(lots), asOf) = "breach"
               <=> OwnBreaches(lots, asOf) # {}
<1>0. PICK order : AreRows(order, lots, asOf)
    BY RowsAreInOrder
<1>1. /\ Attribution(lots, asOf) = [k \in DOMAIN order |-> Row(lots, order[k], asOf)]
      /\ \A k \in DOMAIN order : order[k] \in DOMAIN lots
      /\ \A j \in DOMAIN lots : \E k \in DOMAIN order : order[k] = j
    BY <1>0 DEF AreRows
<1> DEFINE rows == Attribution(lots, asOf)
           theses == EmitTheses(lots)
           own(i) == BreachesOf(KillCriteria(lots[i].security), lots[i], Active(lots[i], asOf), asOf)
           documented == {row \in ToSet(rows) : Instrument(row.lot) \in DOMAIN theses}
           breached == \E row \in documented :
                          BreachesOf(theses[Instrument(row.lot)].criteria, row.lot, row.active, asOf) # {}
<1>2. documented = {Row(lots, i, asOf) : i \in DOMAIN lots}
    <2>1. ToSet(rows) = {Row(lots, i, asOf) : i \in DOMAIN lots}
        BY <1>1 DEF ToSet
    <2>2. \A i \in DOMAIN lots : Instrument(Row(lots, i, asOf).lot) \in DOMAIN theses
        BY ThesesCoverLots DEF Row
    <2> HIDE DEF rows, theses
    <2>3. QED BY <2>1, <2>2
<1>3. breached <=> \E i \in DOMAIN lots : own(i) # {}
    <2>1. \A i \in DOMAIN lots :
              theses[Instrument(lots[i])].criteria = KillCriteria(lots[i].security)
        BY ThesesCoverLots
    <2>2. \A i \in DOMAIN lots : Row(lots, i, asOf).lot = lots[i]
                                /\ Row(lots, i, asOf).active = Active(lots[i], asOf)
        BY DEF Row
    <2> HIDE DEF documented, theses
    <2>3. QED BY <1>2, <2>1, <2>2
<1>4. OwnBreaches(lots, asOf) # {} <=> \E i \in DOMAIN lots : own(i) # {}
    <2>1. OwnBreaches(lots, asOf) = UNION {{<<lots[i].id, c>> : c \in own(i)} : i \in DOMAIN lots}
        BY DEF OwnBreaches, ToSet
    <2> HIDE DEF own
    <2>2. ASSUME NEW i \in DOMAIN lots, own(i) # {} PROVE OwnBreaches(lots, asOf) # {}
        <3>1. PICK c \in own(i) : TRUE
            BY <2>2
        <3>2. <<lots[i].id, c>> \in OwnBreaches(lots, asOf)
            BY <2>1, <3>1
        <3>3. QED BY <3>2
    <2>3. ASSUME OwnBreaches(lots, asOf) # {} PROVE \E i \in DOMAIN lots : own(i) # {}
        <3>1. PICK breach \in OwnBreaches(lots, asOf) : TRUE
            BY <2>3
        <3>2. QED BY <2>1, <3>1
    <2>4. QED BY <2>2, <2>3
<1>5. Checkpoint1(rows, theses, asOf) =
          IF documented = {} THEN "not_documented" ELSE IF breached THEN "breach" ELSE "pass"
    BY Zenon DEF Checkpoint1
<1> HIDE DEF documented, own
<1>6. breached => documented # {}
    OBVIOUS
<1> HIDE DEF breached
<1>7. QED BY <1>3, <1>4, <1>5, <1>6

(* What the panel, the review and the flags say of one book agrees.        *)
THEOREM ReadingsDoAgree ==
    ASSUME NEW lots, NEW funds, NEW floor, NEW asOf \in Int, IsRead(lots, asOf),
           IsNoFunction(NotAttributed)
    PROVE  ReadingsAgree(Watch(lots, asOf), FlagNonPerforming(lots, funds, floor, asOf), lots, asOf)
<1> DEFINE panel == Watch(lots, asOf)
           flags == FlagNonPerforming(lots, funds, floor, asOf)
           found(i) == ActiveByKey(Attribution(lots, asOf), Instrument(lots[i]))
           listed(i) == BreachesOf(KillCriteria(lots[i].security), lots[i], found(i), asOf)
           own(i) == BreachesOf(KillCriteria(lots[i].security), lots[i], Active(lots[i], asOf), asOf)
<1>1. panel.live <=> \A lot \in ToSet(lots) : ~ Unattributable(lot, asOf)
    BY WatchIsLive DEF IsAttributable, ToSet
<1>2. ASSUME panel.live
      PROVE  /\ ListsRealBreaches(panel, lots, asOf)
             /\ panel.checkpoint = "breach" <=> OwnBreaches(lots, asOf) # {}
             /\ flags # NotAttributed =>
                   \A lot \in {l \in ToSet(lots) : l.security \in Concentrated} :
                       <<"drawdown", lot.id>> \in flags => <<lot.id, "drawdown">> \in panel.breaches
    <2>1. IsAttributable(lots, asOf)
        BY <1>2, WatchIsLive
    <2>2. panel.breaches = UNION {{<<lots[i].id, c>> : c \in listed(i)} : i \in DOMAIN lots}
        BY <1>2, WatchIsLive
    <2>3. panel.checkpoint = "breach" <=> OwnBreaches(lots, asOf) # {}
        BY <1>2, <2>1, WatchIsLive, CheckpointIsOwn
    <2>4. OwnBreaches(lots, asOf) = UNION {{<<lots[i].id, c>> : c \in own(i)} : i \in DOMAIN lots}
        BY DEF OwnBreaches, ToSet
    <2>5. ASSUME NEW i \in DOMAIN lots
          PROVE  /\ listed(i) \subseteq own(i)
                 /\ \A c \in own(i) : c # "residual" => c \in listed(i)
        <3>1. Magnitude(found(i)) \in Int /\ Magnitude(found(i)) <= Magnitude(Active(lots[i], asOf))
            BY <2>1, LookUpIsWeakest
        <3>2. Magnitude(Active(lots[i], asOf)) \in Nat
            BY <2>1, ActiveIsWhole, MagnitudeIsWhole
        <3> DEFINE criteria == KillCriteria(lots[i].security)
        <3>3. criteria["residual"] = NoLimit \/ criteria["residual"] \in Int
            BY LossAssumption DEF KillCriteria
        <3> HIDE DEF found, criteria
        <3>4. Magnitude(found(i)) >= criteria["residual"] /\ criteria["residual"] # NoLimit
                  => Magnitude(Active(lots[i], asOf)) >= criteria["residual"]
            BY <3>1, <3>2, <3>3
        <3>5. BreachesOf(criteria, lots[i], found(i), asOf)
                  \subseteq BreachesOf(criteria, lots[i], Active(lots[i], asOf), asOf)
            BY <3>4 DEF BreachesOf
        <3>6. \A c \in BreachesOf(criteria, lots[i], Active(lots[i], asOf), asOf) :
                  c # "residual" => c \in BreachesOf(criteria, lots[i], found(i), asOf)
            BY DEF BreachesOf
        <3>7. QED BY <3>5, <3>6 DEF criteria
    <2>6. ListsRealBreaches(panel, lots, asOf)
        <3> HIDE DEF listed, own, panel
        <3>1. panel.breaches \subseteq OwnBreaches(lots, asOf)
            BY <2>2, <2>4, <2>5
        <3>2. \A breach \in OwnBreaches(lots, asOf) :
                  breach[2] # "residual" => breach \in panel.breaches
            BY <2>2, <2>4, <2>5
        <3>3. QED BY <3>1, <3>2 DEF ListsRealBreaches
    <2>7. ASSUME flags # NotAttributed, NEW i \in DOMAIN lots, lots[i].security \in Concentrated,
                 <<"drawdown", lots[i].id>> \in flags
          PROVE  <<lots[i].id, "drawdown">> \in panel.breaches
        <3>1. \E j \in DOMAIN lots : lots[j].id = lots[i].id /\ SustainedDrawdown(lots[j], asOf)
            BY <2>7 DEF FlagNonPerforming, ToSet
        <3>2. SustainedDrawdown(lots[i], asOf)
            BY <3>1 DEF IsRead
        <3>3. Gain(lots[i]) \in Int
            BY <2>1, ActiveIsWhole
        <3>4. Gain(lots[i]) <= - ConcentratedLoss
            BY <3>2, <3>3, LossAssumption DEF SustainedDrawdown
        <3>5. KillCriteria(lots[i].security)["drawdown"] = ConcentratedLoss
              /\ "drawdown" \in DOMAIN KillCriteria(lots[i].security)
            BY <2>7, LossAssumption DEF KillCriteria
        <3>6. ConcentratedLoss # NoLimit
            BY LossAssumption
        <3>7. "drawdown" \in listed(i)
            <4> HIDE DEF found
            <4>1. QED BY <3>4, <3>5, <3>6 DEF BreachesOf
        <3> HIDE DEF listed, panel
        <3>8. QED BY <2>2, <3>7
    <2>8. \A lot \in {l \in ToSet(lots) : l.security \in Concentrated} :
              flags # NotAttributed /\ <<"drawdown", lot.id>> \in flags
                  => <<lot.id, "drawdown">> \in panel.breaches
        <3> HIDE DEF flags, panel
        <3>1. QED BY <2>7 DEF ToSet
    <2> HIDE DEF flags, panel
    <2>9. QED BY <2>3, <2>6, <2>8
<1> HIDE DEF panel, flags
<1>3. QED BY <1>1, <1>2 DEF ReadingsAgree, panel, flags

-----------------------------------------------------------------------------
(* Harvests of a book of any size.                                         *)

(* The lots of a book as a solver reads them: a lot that has a gain has a  *)
(* value, of nothing or more.                                              *)
IsPriced(lots) ==
    /\ \E n \in Nat : DOMAIN lots = 1..n
    /\ \A i \in DOMAIN lots :
          /\ lots[i].gain \in Int \cup {Unpriced}
          /\ lots[i].gain # Unpriced => lots[i].value \in Nat

LEMMA OpenIsALoss ==
    ASSUME NEW lots, NEW group, NEW policy, NEW today, IsPriced(lots)
    PROVE  /\ IsFiniteSet(Open(lots, group, policy, today))
           /\ Open(lots, group, policy, today) \in SUBSET Int
           /\ Open(lots, group, policy, today) \subseteq DOMAIN lots
           /\ \A i \in Open(lots, group, policy, today) :
                 lots[i].gain \in Int /\ lots[i].gain < 0 /\ lots[i].value \in Nat
<1>1. Open(lots, group, policy, today) \subseteq DOMAIN lots
    BY DEF Open
<1>2. IsFiniteSet(DOMAIN lots) /\ DOMAIN lots \in SUBSET Int
    BY FS_Interval DEF IsPriced
<1>3. \A i \in Open(lots, group, policy, today) : lots[i].gain # Unpriced /\ lots[i].gain < 0
    BY DEF Open, Harvestable, HasLoss
<1>4. QED BY <1>1, <1>2, <1>3, FS_Subset DEF IsPriced

LEMMA LossesAreInOrder ==
    ASSUME NEW lots, NEW places \in SUBSET Int, IsFiniteSet(places),
           \A i \in places : lots[i].gain \in Int
    PROVE  IsOrder(InOrder(places, LargestLossFirst(lots, places)), places,
                   LargestLossFirst(lots, places))
<1> DEFINE g == [i \in places |-> lots[i].gain]
           first == {p \in places \X places : g[p[1]] < g[p[2]]}
           before == LargestLossFirst(lots, places)
<1>1. \A i \in places : g[i] \in Int
    OBVIOUS
<1>2. before = {p \in places \X places :
                   <<p[1], p[2]>> \in first \/ (<<p[2], p[1]>> \notin first /\ p[1] < p[2])}
    <2>1. before = {p \in places \X places :
                       g[p[1]] < g[p[2]] \/ (~ (g[p[2]] < g[p[1]]) /\ p[1] < p[2])}
        BY DEF LargestLossFirst, Stably
    <2> HIDE DEF before, g
    <2>2. QED BY <2>1
<1>3. WeakOrder(places, first)
    <2> HIDE DEF g
    <2>1. QED BY <1>1 DEF WeakOrder
<1>4. StrictOrder(places, before)
    <2> HIDE DEF before, first
    <2>1. QED BY <1>2, <1>3, StablyOrders
<1> HIDE DEF before
<1>5. IsOrder(InOrder(places, before), places, before)
    BY <1>4, OrderIsPut
<1>6. QED BY <1>5 DEF before

(* The heuristic sells every lot that may be harvested, each once.         *)
LEMMA AllAreSold ==
    ASSUME NEW lots, NEW group, NEW policy, NEW today, IsPriced(lots),
           ~ (TotalValue(lots) <= 0)
    PROVE  \E order :
              LET open == Open(lots, group, policy, today)
              IN  /\ IsOrder(order, open, LargestLossFirst(lots, open))
                  /\ TaxAwareOptimizer(lots, group, policy, today)
                        = [trades |-> [k \in DOMAIN order |-> lots[order[k]]],
                           tax |-> TaxDelta([k \in DOMAIN order |-> lots[order[k]]], today),
                           binding |-> Binding(lots, group, policy, today)]
<1> DEFINE open == Open(lots, group, policy, today)
           order == InOrder(open, LargestLossFirst(lots, open))
<1>1. IsOrder(order, open, LargestLossFirst(lots, open))
    <2>1. /\ open \in SUBSET Int /\ IsFiniteSet(open)
          /\ \A i \in open : lots[i].gain \in Int
        BY OpenIsALoss
    <2> HIDE DEF open
    <2>2. QED BY <2>1, LossesAreInOrder
<1>2. Ranked(lots, open, LargestLossFirst(lots, open)) = [k \in DOMAIN order |-> lots[order[k]]]
    BY DEF Ranked
<1>3. TaxAwareOptimizer(lots, group, policy, today)
          = [trades |-> [k \in DOMAIN order |-> lots[order[k]]],
             tax |-> TaxDelta([k \in DOMAIN order |-> lots[order[k]]], today),
             binding |-> Binding(lots, group, policy, today)]
    BY <1>2 DEF TaxAwareOptimizer
<1>4. QED BY <1>1, <1>3

(* A loss that is not sold is named.                                       *)
LEMMA LossIsNamed ==
    ASSUME NEW lots, NEW group, NEW policy, NEW today, NEW lot \in ToSet(lots),
           HasLoss(lot), ~ Harvestable(lot, lots, group, policy, today)
    PROVE  \E why \in Binding(lots, group, policy, today) :
              why[2] = IF why[1] = "restricted_security" THEN lot.security ELSE lot.id
<1> DEFINE reasons(l) ==
        IF ~ SellAllowed(l, policy)
        THEN {IF l.restricted THEN <<"do_not_sell_lot", l.id>>
                              ELSE <<"restricted_security", l.security>>}
        ELSE {<<"wash_sale_30d", l.id, other.id>> :
                 other \in WashTriggers(l, lots, group, today)}
<1>1. \A why \in reasons(lot) : why \in Binding(lots, group, policy, today)
    BY DEF Binding
<1>2. CASE ~ SellAllowed(lot, policy)
    <2> DEFINE why == IF lot.restricted THEN <<"do_not_sell_lot", lot.id>>
                                        ELSE <<"restricted_security", lot.security>>
    <2>1. why \in Binding(lots, group, policy, today)
        BY <1>1, <1>2
    <2>2. why[2] = IF why[1] = "restricted_security" THEN lot.security ELSE lot.id
        OBVIOUS
    <2> HIDE DEF why
    <2>3. QED BY <2>1, <2>2
<1>3. CASE SellAllowed(lot, policy)
    <2>1. PICK other \in WashTriggers(lot, lots, group, today) : TRUE
        BY <1>3 DEF Harvestable
    <2> DEFINE why == <<"wash_sale_30d", lot.id, other.id>>
    <2>2. why \in Binding(lots, group, policy, today)
        BY <1>1, <1>3
    <2>3. why[1] = "wash_sale_30d" /\ why[2] = lot.id
        OBVIOUS
    <2> HIDE DEF why
    <2>4. QED BY <2>2, <2>3
<1>4. QED BY <1>2, <1>3

(* What the heuristic makes of any book: no loss is passed over, and the   *)
(* saving it claims is what the tax report puts on the same sales, with    *)
(* the surtax or without (run_tax_aware_optimizer).                        *)
THEOREM HarvestDoesAccount ==
    ASSUME NEW lots, NEW group, NEW policy, NEW today, IsPriced(lots),
           NEW all, all = TaxAwareOptimizer(lots, group, policy, today), all # Refused,
           NEW niit
    PROVE  /\ Accounted(all, lots)
           /\ all.tax = ReportedTax(all.trades, today, niit)
<1> DEFINE open == Open(lots, group, policy, today)
<1>0. ~ (TotalValue(lots) <= 0)
    BY DEF TaxAwareOptimizer
<1>1. PICK order :
          /\ IsOrder(order, open, LargestLossFirst(lots, open))
          /\ all = [trades |-> [k \in DOMAIN order |-> lots[order[k]]],
                    tax |-> TaxDelta([k \in DOMAIN order |-> lots[order[k]]], today),
                    binding |-> Binding(lots, group, policy, today)]
    BY <1>0, AllAreSold
<1> DEFINE trades == [k \in DOMAIN order |-> lots[order[k]]]
<1>2. /\ all.trades = trades /\ all.tax = TaxDelta(trades, today)
      /\ all.binding = Binding(lots, group, policy, today)
    BY <1>1
<1>3. ASSUME NEW lot \in ToSet(lots), HasLoss(lot)
      PROVE  \/ lot \in ToSet(all.trades)
             \/ \E why \in all.binding :
                   why[2] = IF why[1] = "restricted_security" THEN lot.security ELSE lot.id
    <2>1. CASE Harvestable(lot, lots, group, policy, today)
        <3>1. PICK i \in DOMAIN lots : lots[i] = lot
            BY DEF ToSet
        <3>2. i \in open
            BY <2>1, <3>1 DEF Open
        <3>3. PICK k \in DOMAIN order : order[k] = i
            BY <1>1, <3>2 DEF IsOrder
        <3>4. k \in DOMAIN trades /\ trades[k] = lot
            BY <3>1, <3>3
        <3> HIDE DEF trades
        <3>5. QED BY <1>2, <3>4 DEF ToSet
    <2>2. CASE ~ Harvestable(lot, lots, group, policy, today)
        BY <1>2, <1>3, <2>2, LossIsNamed
    <2>3. QED BY <2>1, <2>2
<1>4. ASSUME NEW k \in DOMAIN trades
      PROVE  HarvestTax(trades[k], today) = PositionGainTax(trades[k], today, niit)
    <2>1. trades[k] = lots[order[k]] /\ order[k] \in open
        BY <1>1 DEF IsOrder
    <2>2. trades[k].gain \in Int /\ trades[k].gain < 0 /\ trades[k].gain # Unpriced
        <3>1. lots[order[k]].gain # Unpriced
            BY <2>1 DEF Open, Harvestable, HasLoss
        <3> HIDE DEF trades, open
        <3>2. QED BY <2>1, <3>1, OpenIsALoss DEF open
    <2>3. PICK g \in Int : g = trades[k].gain /\ g < 0
        BY <2>2
    <2>4. PICK rate \in Int : /\ rate = HoldingPeriodRate(trades[k].acquired, today)
                              /\ rate = ReportRate(trades[k].acquired, today)
        BY RatesAssumption DEF HoldingPeriodRate, ReportRate
    <2>5. PositionGainTax(trades[k], today, niit)
              = g * rate + IF niit /\ g > 0 THEN g * Niit ELSE 0
        BY <2>2, <2>3, <2>4 DEF PositionGainTax, TaxOnRealizedGain
    <2>6. HarvestTax(trades[k], today) = g * rate
        BY <2>3, <2>4 DEF HarvestTax
    <2>7. ~ (g > 0) /\ g * rate \in Int
        BY <2>3, <2>4
    <2> HIDE DEF trades
    <2>8. QED BY <2>5, <2>6, <2>7
<1>5. all.tax = ReportedTax(all.trades, today, niit)
    <2> HIDE DEF trades
    <2>1. [k \in DOMAIN trades |-> HarvestTax(trades[k], today)]
              = [k \in DOMAIN trades |-> PositionGainTax(trades[k], today, niit)]
        BY <1>4
    <2>2. QED BY <1>2, <2>1 DEF TaxDelta, ReportedTax
<1>6. QED BY <1>3, <1>5 DEF Accounted

(* Scores compare as fractions do.                                         *)
LEMMA ProductGrows ==
    ASSUME NEW x \in Int, NEW y \in Int, x <= y, NEW k \in Nat
    PROVE  x * k <= y * k
<1> DEFINE Holding == {n \in Nat : x * n <= y * n}
<1>1. 0 \in Holding
    OBVIOUS
<1>2. ASSUME NEW n \in Nat, n \in Holding PROVE n + 1 \in Holding
    <2>1. x * (n + 1) = x * n + x /\ y * (n + 1) = y * n + y
        OBVIOUS
    <2>2. x * n \in Int /\ y * n \in Int
        OBVIOUS
    <2>3. x * n <= y * n
        BY <1>2
    <2>4. QED BY <2>1, <2>2, <2>3
<1>3. \A n \in Nat : n \in Holding
    <2> HIDE DEF Holding
    <2>1. QED BY <1>1, <1>2, EveryNumber
<1>4. QED BY <1>3

LEMMA ProductGrowsStrictly ==
    ASSUME NEW x \in Int, NEW y \in Int, x < y, NEW k \in Nat, k > 0
    PROVE  x * k < y * k
<1>1. x + 1 <= y /\ x + 1 \in Int
    OBVIOUS
<1>2. (x + 1) * k <= y * k
    BY <1>1, ProductGrows
<1>3. (x + 1) * k = x * k + k /\ x * k \in Int /\ y * k \in Int
    OBVIOUS
<1>4. QED BY <1>2, <1>3

LEMMA FractionsAreOrdered ==
    ASSUME NEW a \in Int, NEW b \in Int, NEW c \in Int,
           NEW p \in Nat, NEW q \in Nat, NEW r \in Nat, p > 0, q > 0, r > 0,
           a * r > c * p, ~ (a * q > b * p)
    PROVE  b * r > c * q
<1>1. SUFFICES ASSUME ~ (b * r > c * q) PROVE FALSE
    OBVIOUS
<1>0. /\ a * q \in Int /\ b * p \in Int /\ b * r \in Int /\ c * q \in Int
      /\ c * p \in Int /\ a * r \in Int
    OBVIOUS
<1>2. a * q <= b * p /\ b * r <= c * q /\ c * p < a * r
    <2>1. PICK aq \in Int, bp \in Int, br \in Int, cq \in Int, cp \in Int, ar \in Int :
              /\ aq = a * q /\ bp = b * p /\ br = b * r /\ cq = c * q /\ cp = c * p /\ ar = a * r
        BY <1>0
    <2>2. ar > cp /\ ~ (aq > bp) /\ ~ (br > cq)
        BY <1>1, <2>1
    <2>3. aq <= bp /\ br <= cq /\ cp < ar
        BY <2>2
    <2>4. QED BY <2>1, <2>3
<1>3. (a * q) * r <= (b * p) * r /\ (b * r) * p <= (c * q) * p /\ (c * p) * q < (a * r) * q
    <2>2. (a * q) * r <= (b * p) * r
        BY <1>0, <1>2, ProductGrows
    <2>3. (b * r) * p <= (c * q) * p
        BY <1>0, <1>2, ProductGrows
    <2>4. (c * p) * q < (a * r) * q
        BY <1>0, <1>2, ProductGrowsStrictly
    <2>5. QED BY <2>2, <2>3, <2>4
<1>4. (b * p) * r = (b * r) * p /\ (c * q) * p = (c * p) * q /\ (a * r) * q = (a * q) * r
    OBVIOUS
<1>5. (a * q) * r \in Int /\ (b * p) * r \in Int /\ (c * q) * p \in Int
    OBVIOUS
<1>6. QED BY <1>3, <1>4, <1>5

LEMMA ScoresAreInOrder ==
    ASSUME NEW lots, NEW today, NEW places \in SUBSET Int, IsFiniteSet(places),
           \A i \in places : lots[i].gain \in Int /\ lots[i].value \in Nat
    PROVE  /\ IsOrder(InOrder(places, BestScoreFirst(lots, places, today)), places,
                      BestScoreFirst(lots, places, today))
           /\ \A i, j \in places : <<i, j>> \in BestScoreFirst(lots, places, today)
                    => ~ ScoresAbove(lots[j], lots[i], today)
<1> DEFINE a == [i \in places |-> Benefit(lots[i], today)]
           d == [i \in places |-> PerDollar(lots[i])]
           first == {p \in places \X places : a[p[1]] * d[p[2]] > a[p[2]] * d[p[1]]}
           before == BestScoreFirst(lots, places, today)
<1>1. ASSUME NEW i \in places PROVE a[i] \in Int /\ d[i] \in Nat /\ d[i] > 0
    <2>1. PICK g \in Int, v \in Nat : g = lots[i].gain /\ v = lots[i].value
        OBVIOUS
    <2>2. PICK rate \in Int : rate = HoldingPeriodRate(lots[i].acquired, today)
        BY RatesAssumption DEF HoldingPeriodRate
    <2>3. HarvestTax(lots[i], today) = g * rate /\ g * rate \in Int
        BY <2>1, <2>2 DEF HarvestTax
    <2>4. Benefit(lots[i], today) \in Int
        BY <2>3 DEF Benefit
    <2>5. PerDollar(lots[i]) \in Nat /\ PerDollar(lots[i]) > 0
        BY <2>1 DEF PerDollar
    <2>6. QED BY <2>4, <2>5
<1>2. \A i, j \in places : <<i, j>> \in first <=> ScoresAbove(lots[i], lots[j], today)
    BY DEF ScoresAbove
<1>3. before = {p \in places \X places :
                   <<p[1], p[2]>> \in first \/ (<<p[2], p[1]>> \notin first /\ p[1] < p[2])}
    <2>1. before = {p \in places \X places :
                       ScoresAbove(lots[p[1]], lots[p[2]], today)
                       \/ (~ ScoresAbove(lots[p[2]], lots[p[1]], today) /\ p[1] < p[2])}
        BY DEF BestScoreFirst, Stably
    <2> HIDE DEF before, first
    <2>2. QED BY <1>2, <2>1
<1>4. \A p, q \in places : <<p, q>> \in first <=> a[p] * d[q] > a[q] * d[p]
    OBVIOUS
<1> HIDE DEF a, d, first, before
<1>5. ASSUME NEW p \in places, NEW q \in places, <<p, q>> \in first PROVE <<q, p>> \notin first
    <2>1. PICK x \in Int, y \in Int : x = a[p] * d[q] /\ y = a[q] * d[p]
        <3>1. PICK ap \in Int, aq \in Int, dp \in Nat, dq \in Nat :
                  ap = a[p] /\ aq = a[q] /\ dp = d[p] /\ dq = d[q]
            BY <1>1
        <3>2. ap * dq \in Int /\ aq * dp \in Int
            OBVIOUS
        <3>3. QED BY <3>1, <3>2
    <2>2. x > y
        BY <1>4, <1>5, <2>1
    <2>3. ~ (y > x)
        BY <2>2
    <2>4. QED BY <1>4, <2>1, <2>3
<1>6. ASSUME NEW p \in places, NEW q \in places, NEW r \in places,
             <<p, r>> \in first, <<p, q>> \notin first
      PROVE  <<q, r>> \in first
    <2>1. PICK ap \in Int, aq \in Int, ar \in Int, dp \in Nat, dq \in Nat, dr \in Nat :
              /\ ap = a[p] /\ aq = a[q] /\ ar = a[r]
              /\ dp = d[p] /\ dq = d[q] /\ dr = d[r]
              /\ dp > 0 /\ dq > 0 /\ dr > 0
        BY <1>1
    <2>2. ap * dr > ar * dp
        BY <1>4, <1>6, <2>1
    <2>3. ~ (ap * dq > aq * dp)
        BY <1>4, <1>6, <2>1
    <2>4. aq * dr > ar * dq
        BY <2>1, <2>2, <2>3, FractionsAreOrdered
    <2>5. QED BY <1>4, <2>1, <2>4
<1>7. WeakOrder(places, first)
    BY <1>5, <1>6 DEF WeakOrder
<1>8. StrictOrder(places, before)
    BY <1>3, <1>7, StablyOrders
<1>9. IsOrder(InOrder(places, before), places, before)
    BY <1>8, OrderIsPut
<1>10. ASSUME NEW i \in places, NEW j \in places, <<i, j>> \in before
       PROVE  ~ ScoresAbove(lots[j], lots[i], today)
    <2>1. <<i, j>> \in first \/ <<j, i>> \notin first
        BY <1>3, <1>10
    <2>2. <<j, i>> \notin first
        BY <1>5, <2>1
    <2>3. QED BY <1>2, <2>2
<1>11. QED BY <1>9, <1>10 DEF before

(* The first n of a list.                                                  *)
LEMMA FirstOfIsHead ==
    ASSUME NEW m \in Nat, NEW seq, IsLong(seq, m), NEW n \in Nat
    PROVE  \E least \in Nat :
              /\ least = IF m < n THEN m ELSE n
              /\ FirstOf(seq, n) = [k \in 1..least |-> seq[k]]
              /\ Len(FirstOf(seq, n)) = least
<1> DEFINE S == {seq[k] : k \in 1..m}
           least == IF m < n THEN m ELSE n
<1>1. seq \in [1..m -> S]
    BY DEF IsLong
<1>2. seq \in Seq(S) /\ Len(seq) = m
    <2> HIDE DEF S
    <2>1. QED BY <1>1
<1>3. FirstOf(seq, n) = SubSeq(seq, 1, least)
    BY <1>2 DEF FirstOf
<1>4. least \in Nat /\ least <= m
    OBVIOUS
<1> HIDE DEF S, least
<1>5. SubSeq(seq, 1, least) = [k \in 1..least |-> seq[k]] /\ Len(SubSeq(seq, 1, least)) = least
    BY <1>2, <1>4
<1>6. QED BY <1>3, <1>4, <1>5 DEF least

(* The MIP stub sells the first of the lots that may be harvested, by      *)
(* score.                                                                  *)
LEMMA TheFirstAreSold ==
    ASSUME NEW lots, NEW group, NEW policy, NEW today, IsPriced(lots),
           ~ (TotalValue(lots) <= 0)
    PROVE  \E order : \E least \in Nat :
              LET open == Open(lots, group, policy, today)
                  mip == MipOptimizer(lots, group, policy, today)
              IN  /\ IsOrder(order, open, BestScoreFirst(lots, open, today))
                  /\ least = IF Cardinality(open) < MaxTrades THEN Cardinality(open) ELSE MaxTrades
                  /\ mip.trades = [k \in 1..least |-> lots[order[k]]]
                  /\ Len(mip.trades) = least
<1> DEFINE open == Open(lots, group, policy, today)
           mip == MipOptimizer(lots, group, policy, today)
           before == BestScoreFirst(lots, open, today)
           order == InOrder(open, before)
           n == Cardinality(open)
           ranked == [k \in DOMAIN order |-> lots[order[k]]]
<1>1. mip.trades = FirstOf(ranked, MaxTrades)
    <2>1. ranked = Ranked(lots, open, before)
        BY DEF Ranked
    <2>2. mip = [trades |-> FirstOf(Ranked(lots, open, before), MaxTrades),
                 tax |-> TaxDelta(FirstOf(Ranked(lots, open, before), MaxTrades), today),
                 binding |-> Binding(lots, group, policy, today)]
        BY Zenon DEF MipOptimizer
    <2> HIDE DEF ranked, open, before, mip
    <2>3. QED BY <2>1, <2>2
<1>2. /\ open \in SUBSET Int /\ IsFiniteSet(open) /\ n \in Nat
      /\ \A i \in open : lots[i].gain \in Int /\ lots[i].value \in Nat
    BY OpenIsALoss, FS_CardinalityType
<1> HIDE DEF open, mip
<1>3. IsOrder(order, open, before)
    BY <1>2, ScoresAreInOrder
<1> HIDE DEF before
<1>4. IsLong(ranked, n)
    BY <1>3 DEF IsOrder, IsLong
<1> HIDE DEF n
<1>5. n \in Nat /\ MaxTrades \in Nat
    BY <1>2, RatesAssumption
<1> DEFINE Kept(least) == /\ least = IF n < MaxTrades THEN n ELSE MaxTrades
                          /\ FirstOf(ranked, MaxTrades) = [k \in 1..least |-> ranked[k]]
                          /\ Len(FirstOf(ranked, MaxTrades)) = least
<1>6. PICK least \in Nat : Kept(least)
    <2> HIDE DEF ranked
    <2>1. QED BY <1>4, <1>5, FirstOfIsHead
<1>7. \A k \in 1..least : ranked[k] = lots[order[k]]
    <2>1. \A k \in 1..least : k \in 1..n
        BY <1>5, <1>6
    <2>2. DOMAIN order = 1..n
        BY <1>3 DEF IsOrder, n
    <2>3. QED BY <2>1, <2>2
<1> HIDE DEF ranked, order
<1>8. /\ mip.trades = [k \in 1..least |-> lots[order[k]]]
      /\ Len(mip.trades) = least
    BY <1>1, <1>6, <1>7
<1>9. least = IF n < MaxTrades THEN n ELSE MaxTrades
    BY <1>6
<1>10. QED BY <1>3, <1>8, <1>9 DEF n, before, open, mip

(* The MIP stub keeps, of the sales the heuristic would make, as many as   *)
(* it may, and none that is left scores above one that is kept             *)
(* (run_mip_optimizer), on every book.                                     *)
THEOREM MipDoesKeepTheBest ==
    ASSUME NEW lots, NEW group, NEW policy, NEW today, IsPriced(lots),
           NEW all, all = TaxAwareOptimizer(lots, group, policy, today), all # Refused,
           NEW mip, mip = MipOptimizer(lots, group, policy, today)
    PROVE  BestOf(mip, all, today)
<1> DEFINE open == Open(lots, group, policy, today)
           before == BestScoreFirst(lots, open, today)
           n == Cardinality(open)
<1>0. ~ (TotalValue(lots) <= 0)
    BY DEF TaxAwareOptimizer
<1>1. PICK order :
          /\ IsOrder(order, open, LargestLossFirst(lots, open))
          /\ all = [trades |-> [k \in DOMAIN order |-> lots[order[k]]],
                    tax |-> TaxDelta([k \in DOMAIN order |-> lots[order[k]]], today),
                    binding |-> Binding(lots, group, policy, today)]
    BY <1>0, AllAreSold
<1>2. PICK second : \E least \in Nat :
          /\ IsOrder(second, open, before)
          /\ least = IF n < MaxTrades THEN n ELSE MaxTrades
          /\ mip.trades = [k \in 1..least |-> lots[second[k]]]
          /\ Len(mip.trades) = least
    BY <1>0, TheFirstAreSold
<1>a. PICK least \in Nat :
          /\ IsOrder(second, open, before)
          /\ least = IF n < MaxTrades THEN n ELSE MaxTrades
          /\ mip.trades = [k \in 1..least |-> lots[second[k]]]
          /\ Len(mip.trades) = least
    BY <1>2
<1> DEFINE trades == [k \in DOMAIN order |-> lots[order[k]]]
<1>3. all.trades = trades
    BY <1>1
<1>4. /\ open \in SUBSET Int /\ IsFiniteSet(open) /\ n \in Nat
      /\ \A i \in open : lots[i].gain \in Int /\ lots[i].value \in Nat
    BY OpenIsALoss, FS_CardinalityType
<1> HIDE DEF open
<1>5. \A i, j \in open : <<i, j>> \in before => ~ ScoresAbove(lots[j], lots[i], today)
    BY <1>4, ScoresAreInOrder
<1>6. DOMAIN trades = 1..n /\ DOMAIN second = 1..n
    BY <1>1, <1>a DEF IsOrder
<1> HIDE DEF before
<1>7. MaxTrades \in Nat
    BY RatesAssumption
<1>8. Len(mip.trades) = Len(FirstOf(all.trades, MaxTrades))
    <2>1. IsLong(trades, n)
        BY <1>6 DEF IsLong
    <2> HIDE DEF n, trades
    <2>2. \E h \in Nat : /\ h = IF n < MaxTrades THEN n ELSE MaxTrades
                         /\ Len(FirstOf(trades, MaxTrades)) = h
        BY <1>4, <1>7, <2>1, FirstOfIsHead
    <2>3. QED BY <1>a, <1>3, <2>2
<1>9. \A k \in 1..least : k \in DOMAIN second
    BY <1>a, <1>4, <1>6, <1>7
<1>10. ToSet(mip.trades) = {lots[second[k]] : k \in 1..least}
    BY <1>a DEF ToSet
<1>11. ToSet(all.trades) = {lots[i] : i \in open}
    <2>1. \A i \in open : \E k \in DOMAIN trades : trades[k] = lots[i]
        BY <1>1 DEF IsOrder
    <2>2. \A k \in DOMAIN trades : \E i \in open : trades[k] = lots[i]
        BY <1>1 DEF IsOrder
    <2> HIDE DEF trades
    <2>3. QED BY <1>3, <2>1, <2>2 DEF ToSet
<1>12. \A k \in DOMAIN second : second[k] \in open
    BY <1>a DEF IsOrder
<1>13. ToSet(mip.trades) \subseteq ToSet(all.trades)
    BY <1>9, <1>10, <1>11, <1>12
<1>14. ASSUME NEW kept \in ToSet(mip.trades), NEW left \in ToSet(all.trades) \ ToSet(mip.trades)
       PROVE  ~ ScoresAbove(left, kept, today)
    <2>1. PICK j \in 1..least : kept = lots[second[j]]
        BY <1>10
    <2>2. PICK i \in open : left = lots[i]
        BY <1>11
    <2>3. PICK k \in DOMAIN second : second[k] = i
        BY <1>a DEF IsOrder
    <2>4. k \in 1..n /\ k \notin 1..least
        BY <1>6, <1>10, <2>2, <2>3
    <2>5. j < k /\ j \in DOMAIN second
        BY <1>4, <1>9, <2>4
    <2>6. <<second[j], second[k]>> \in before
        BY <1>a, <2>3, <2>5 DEF IsOrder
    <2>7. second[j] \in open /\ second[k] \in open
        BY <1>12, <2>3, <2>5
    <2>8. QED BY <1>5, <2>1, <2>2, <2>3, <2>6, <2>7
<1>15. QED BY <1>8, <1>13, <1>14 DEF BestOf

-----------------------------------------------------------------------------
(* Forests: every set of keys has one that is a root or whose parent is    *)
(* not of the set, so no path goes round.                                  *)

Forests(K) == {p \in [K -> K] :
                  \A S \in SUBSET K : S # {} => \E k \in S : p[k] = k \/ p[k] \notin S}

(* A set of whole trees.                                                   *)
Saturated(p, S) == \A k \in DOMAIN p : k \in S <=> p[k] \in S

(* No path leaves the set.                                                 *)
Closed(p, C) == \A k \in C : p[k] \in C

(* p and q have the same roots, and the same sets of whole trees.          *)
Alike(p, q) ==
    /\ \A k \in DOMAIN p : p[k] = k <=> q[k] = k
    /\ \A S \in SUBSET DOMAIN p : Saturated(p, S) <=> Saturated(q, S)

(* The keys are of one tree.                                               *)
OneTree(p, a, b) == \A S \in SUBSET DOMAIN p : Saturated(p, S) => (a \in S <=> b \in S)

(* A path through x does not come back to it: once past x, it stays in a   *)
(* set without x.                                                          *)
LEMMA PathsGoOn ==
    ASSUME NEW K, NEW p \in Forests(K), NEW x \in K, p[x] # x
    PROVE  \E C \in SUBSET K : Closed(p, C) /\ p[p[x]] \in C /\ x \notin C
<1> DEFINE Back == {k \in K : \A C \in SUBSET K : Closed(p, C) /\ k \in C => x \in C}
<1>0. p \in [K -> K] /\ p[x] \in K /\ p[p[x]] \in K
    BY DEF Forests
<1>1. SUFFICES ASSUME p[p[x]] \in Back PROVE FALSE
    BY <1>0
<1>2. ASSUME NEW k \in Back PROVE p[k] \in Back
    <2>1. p[k] \in K
        BY <1>0
    <2>2. ASSUME NEW C \in SUBSET K, Closed(p, C), p[k] \in C PROVE x \in C
        <3>1. CASE k = x
            <4>1. p[p[x]] \in C
                BY <2>2, <3>1 DEF Closed
            <4>2. QED BY <1>1, <2>2, <4>1
        <3>2. CASE k # x
            <4>1. Closed(p, C \cup {k}) /\ C \cup {k} \in SUBSET K
                BY <2>2 DEF Closed
            <4>2. x \in C \cup {k}
                BY <4>1
            <4>3. QED BY <3>2, <4>2
        <3>3. QED BY <3>1, <3>2
    <2>3. QED BY <2>1, <2>2
<1>3. ASSUME NEW k \in Back PROVE p[k] # k
    <2>1. SUFFICES ASSUME p[k] = k PROVE FALSE
        OBVIOUS
    <2>2. Closed(p, {k}) /\ {k} \in SUBSET K
        BY <2>1 DEF Closed
    <2>3. x \in {k}
        BY <2>2
    <2>4. QED BY <2>1, <2>3
<1>4. Back \in SUBSET K /\ Back # {}
    BY <1>1
<1> HIDE DEF Back
<1>5. QED BY <1>2, <1>3, <1>4 DEF Forests

(* Halving the path at x.                                                  *)
LEMMA HalvingKeeps ==
    ASSUME NEW K, NEW p \in Forests(K), NEW x \in K, p[x] # x,
           NEW q, q = [p EXCEPT ![x] = p[p[x]]]
    PROVE  /\ q \in Forests(K)
           /\ Alike(p, q)
           /\ p[p[x]] \in K
           /\ \A S \in SUBSET K : Saturated(p, S) => (x \in S <=> p[p[x]] \in S)
<1> DEFINE y == p[x]
           z == p[y]
<1>0. p \in [K -> K] /\ y \in K /\ z \in K /\ DOMAIN p = K
    BY DEF Forests
<1>1. q \in [K -> K] /\ q[x] = z /\ (\A k \in K : k # x => q[k] = p[k]) /\ DOMAIN q = K
    BY <1>0
<1>2. z # x
    <2>1. SUFFICES ASSUME z = x PROVE FALSE
        OBVIOUS
    <2>2. {x, y} \in SUBSET K /\ {x, y} # {}
        BY <1>0
    <2>3. PICK k \in {x, y} : p[k] = k \/ p[k] \notin {x, y}
        BY <2>2 DEF Forests
    <2>4. QED BY <2>1, <2>3
<1>3. ASSUME NEW S \in SUBSET K, S # {} PROVE \E k \in S : q[k] = k \/ q[k] \notin S
    <2>1. PICK k \in S : p[k] = k \/ p[k] \notin S
        BY <1>3 DEF Forests
    <2>2. CASE k # x
        BY <1>1, <2>1, <2>2
    <2>3. CASE k = x /\ z \notin S
        BY <1>1, <2>3
    <2>4. CASE k = x /\ z \in S
        <3>1. y \notin S
            BY <2>1, <2>4
        <3>2. S \cup {y} \in SUBSET K
            BY <1>0
        <3>3. PICK j \in S \cup {y} : p[j] = j \/ p[j] \notin S \cup {y}
            BY <3>2 DEF Forests
        <3>4. j # y
            BY <2>4, <3>1, <3>3
        <3>5. j # x
            BY <3>3
        <3>6. QED BY <1>1, <3>3, <3>4, <3>5
    <2>5. QED BY <2>2, <2>3, <2>4
<1>4. q \in Forests(K)
    BY <1>1, <1>3 DEF Forests
<1>5. \A k \in K : p[k] = k <=> q[k] = k
    BY <1>1, <1>2
<1>6. ASSUME NEW S \in SUBSET K PROVE Saturated(p, S) <=> Saturated(q, S)
    <2>1. ASSUME Saturated(p, S) PROVE Saturated(q, S)
        BY <1>0, <1>1, <2>1 DEF Saturated
    <2>2. ASSUME Saturated(q, S) PROVE Saturated(p, S)
        <3>1. \A k \in K : k # x => (k \in S <=> p[k] \in S)
            BY <1>1, <2>2 DEF Saturated
        <3>2. y \in S <=> z \in S
            BY <1>0, <3>1
        <3>3. x \in S <=> z \in S
            BY <1>1, <2>2 DEF Saturated
        <3>4. QED BY <1>0, <3>1, <3>2, <3>3 DEF Saturated
    <2>3. QED BY <2>1, <2>2
<1>7. Alike(p, q)
    BY <1>0, <1>5, <1>6 DEF Alike
<1>8. \A S \in SUBSET K : Saturated(p, S) => (x \in S <=> z \in S)
    BY <1>0 DEF Saturated
<1>9. QED BY <1>0, <1>4, <1>7, <1>8

(* Trees have one root.                                                    *)
LEMMA OneRoot ==
    ASSUME NEW K, NEW p \in Forests(K), NEW r \in K, NEW s \in K, p[r] = r, p[s] = s,
           OneTree(p, r, s)
    PROVE  r = s
<1> DEFINE Grown(S) == r \in S /\ \A k \in K : p[k] \in S => k \in S
           Tree == {k \in K : \A S \in SUBSET K : Grown(S) => k \in S}
<1>0. p \in [K -> K] /\ DOMAIN p = K
    BY DEF Forests
<1>1. SUFFICES ASSUME r # s PROVE FALSE
    OBVIOUS
<1>2. Grown(Tree)
    OBVIOUS
<1>3. \A k \in Tree : p[k] \in Tree
    <2> DEFINE Part == {k \in Tree : p[k] \in Tree}
    <2>1. r \in Part
        BY <1>2
    <2>2. ASSUME NEW k \in K, p[k] \in Part PROVE k \in Part
        <3>1. p[k] \in Tree
            BY <2>2
        <3>2. k \in Tree
            <4> HIDE DEF Tree
            <4>1. QED BY <1>2, <3>1
        <3>3. QED BY <3>1, <3>2
    <2>3. Part \in SUBSET K /\ Grown(Part)
        BY <2>1, <2>2
    <2>4. Tree \subseteq Part
        <3> HIDE DEF Part
        <3>1. QED BY <2>3
    <2>5. QED BY <2>4
<1>4. s \notin Tree
    <2> DEFINE Rest == K \ {s}
    <2>1. Grown(Rest)
        BY <1>0, <1>1
    <2>2. Rest \in SUBSET K
        OBVIOUS
    <2> HIDE DEF Rest
    <2>3. Tree \subseteq Rest
        BY <2>1, <2>2
    <2>4. QED BY <2>3 DEF Rest
<1>5. Tree \in SUBSET K
    OBVIOUS
<1>6. Saturated(p, Tree)
    <2> HIDE DEF Tree
    <2>1. QED BY <1>0, <1>2, <1>3 DEF Saturated
<1>7. r \in Tree
    BY <1>2
<1> HIDE DEF Tree
<1>8. QED BY <1>0, <1>4, <1>5, <1>6, <1>7 DEF OneTree

(* The loop of find is a function, whatever keys point where.              *)
LEMMA FindLoops ==
    ASSUME NEW K, IsFiniteSet(K), NEW p \in [K -> K], NEW k \in K
    PROVE  \E after :
              /\ after = [n \in 0..Cardinality(K) |->
                             IF n = 0 THEN [root |-> k, parent |-> p] ELSE Halve(after[n - 1])]
              /\ Find(p, k) = after[Cardinality(K)]
<1> DEFINE N == Cardinality(K)
           V == [root : K, parent : [K -> K]]
           base == [root |-> k, parent |-> p]
           F == [i \in 1..N |-> [v \in V |-> Halve(v)]]
<1>0. N \in Nat
    BY FS_CardinalityType
<1>1. ASSUME NEW v \in V PROVE Halve(v) \in V
    <2>1. PICK x \in K, q \in [K -> K] : v = [root |-> x, parent |-> q]
        OBVIOUS
    <2>2. Halve(v) = IF q[x] = x THEN v
                     ELSE [root |-> q[q[x]], parent |-> [q EXCEPT ![x] = q[q[x]]]]
        BY <2>1 DEF Halve
    <2>3. q[x] \in K /\ q[q[x]] \in K /\ [q EXCEPT ![x] = q[q[x]]] \in [K -> K]
        OBVIOUS
    <2>4. QED BY <2>2, <2>3
<1>2. base \in V
    OBVIOUS
<1>3. IsTurn(F, N, V)
    BY <1>1 DEF IsTurn
<1>4. \A i \in 1..N, v \in V : F[i][v] = Halve(v)
    OBVIOUS
<1> HIDE DEF V, F, base, N
<1>5. PICK g \in [0..N -> V] : IsLoop(g, N, base, F)
    BY <1>0, <1>2, <1>3, LoopExists
<1>6. ASSUME NEW i \in 0..N, i # 0 PROVE F[i][g[i - 1]] = Halve(g[i - 1])
    <2>1. i \in 1..N /\ i - 1 \in 0..N
        BY <1>0, <1>6
    <2>2. g[i - 1] \in V
        BY <2>1
    <2>3. QED BY <1>4, <2>1, <2>2
<1>7. g = [i \in 0..N |-> IF i = 0 THEN base ELSE Halve(g[i - 1])]
    BY <1>5, <1>6 DEF IsLoop
<1>8. \E h : h = [i \in 0..N |-> IF i = 0 THEN base ELSE Halve(h[i - 1])]
    BY <1>7
<1>9. DOMAIN p = K
    OBVIOUS
<1>10. QED BY <1>8, <1>9, Zenon DEF Find, N, base

(* What is so after n turns: the trees are what they were, the key reached *)
(* is of the tree of the key asked for, and unless it is the root the ways *)
(* on from it are n keys fewer.                                            *)
Reached(K, p, k, s, n) ==
    /\ s.root \in K /\ s.parent \in Forests(K)
    /\ Alike(p, s.parent)
    /\ OneTree(p, k, s.root)
    /\ \/ s.parent[s.root] = s.root
       \/ \E C \in SUBSET K : /\ Closed(s.parent, C) /\ s.root \in C
                              /\ Cardinality(C) + n <= Cardinality(K)

LEMMA HalveReaches ==
    ASSUME NEW K, IsFiniteSet(K), NEW p \in Forests(K), NEW k \in K, NEW s, NEW n \in Nat,
           Reached(K, p, k, s, n)
    PROVE  Reached(K, p, k, Halve(s), n + 1)
<1> DEFINE x == s.root
           q == s.parent
           to == q[q[x]]
           h == [q EXCEPT ![x] = to]
<1>0. x \in K /\ q \in Forests(K) /\ Alike(p, q) /\ OneTree(p, k, x)
    BY DEF Reached
<1>00. DOMAIN p = K /\ DOMAIN q = K /\ q \in [K -> K]
    BY <1>0 DEF Forests
<1>1. CASE q[x] = x
    <2>1. Halve(s) = s
        BY <1>1 DEF Halve
    <2>2. QED BY <1>1, <2>1 DEF Reached
<1>2. CASE q[x] # x
    <2>1. Halve(s) = [root |-> to, parent |-> h]
        BY <1>2 DEF Halve
    <2>2. PICK y \in K, f \in Forests(K) : y = x /\ f = q
        BY <1>0
    <2>3. /\ h \in Forests(K) /\ Alike(f, h) /\ to \in K
          /\ \A S \in SUBSET K : Saturated(f, S) => (y \in S <=> to \in S)
        BY <1>2, <2>2, HalvingKeeps
    <2>4. Alike(p, h)
        BY <1>0, <1>00, <2>2, <2>3 DEF Alike
    <2>5. OneTree(p, k, to)
        BY <1>0, <1>00, <2>2, <2>3 DEF OneTree, Alike
    <2>6. PICK C \in SUBSET K : Closed(q, C) /\ x \in C /\ Cardinality(C) + n <= Cardinality(K)
        BY <1>2 DEF Reached
    <2>7. PICK D \in SUBSET K : Closed(f, D) /\ to \in D /\ y \notin D
        BY <1>2, <2>2, PathsGoOn
    <2> DEFINE E == C \cap D
    <2>8. Closed(h, E)
        <3>1. ASSUME NEW j \in E PROVE h[j] \in E
            <4>1. j # x /\ j \in K
                BY <2>2, <2>7
            <4>2. h[j] = q[j]
                BY <1>00, <4>1
            <4>3. q[j] \in C /\ q[j] \in D
                BY <2>2, <2>6, <2>7 DEF Closed
            <4>4. QED BY <4>2, <4>3
        <3>2. QED BY <3>1 DEF Closed
    <2>9. to \in E
        BY <2>6, <2>7 DEF Closed
    <2>10. Cardinality(E) + (n + 1) <= Cardinality(K)
        <3>1. E \in SUBSET C /\ E # C
            BY <2>2, <2>6, <2>7
        <3>2. IsFiniteSet(C) /\ Cardinality(C) \in Nat /\ Cardinality(K) \in Nat
            BY FS_Subset, FS_CardinalityType
        <3> HIDE DEF E
        <3>3. Cardinality(E) <= Cardinality(C) /\ Cardinality(E) # Cardinality(C)
            BY <3>1, <3>2, FS_Subset
        <3>4. Cardinality(E) \in Nat
            BY <3>1, <3>2, FS_Subset, FS_CardinalityType
        <3>5. QED BY <2>6, <3>2, <3>3, <3>4
    <2>11. E \in SUBSET K
        OBVIOUS
    <2> HIDE DEF E, h, to
    <2>12. Halve(s).root = to /\ Halve(s).parent = h
        BY <2>1
    <2>13. QED BY <2>3, <2>4, <2>5, <2>8, <2>9, <2>10, <2>11, <2>12 DEF Reached
<1>3. QED BY <1>1, <1>2

(* What find returns: a root, of the tree of the key, and a forest of the  *)
(* same trees.                                                             *)
IsFound(K, p, k, f) ==
    /\ f.root \in K /\ f.parent \in Forests(K)
    /\ Alike(p, f.parent)
    /\ OneTree(p, k, f.root)
    /\ p[f.root] = f.root

(* find ends at the root of its key before it has taken as many turns as   *)
(* there are keys, and halving moves no key to another tree.               *)
THEOREM FindFinds ==
    ASSUME NEW K, IsFiniteSet(K), NEW p \in Forests(K), NEW k \in K
    PROVE  IsFound(K, p, k, Find(p, k))
<1> DEFINE N == Cardinality(K)
<1>0. N \in Nat /\ p \in [K -> K]
    BY FS_CardinalityType DEF Forests
<1>1. PICK after :
          /\ after = [n \in 0..N |->
                         IF n = 0 THEN [root |-> k, parent |-> p] ELSE Halve(after[n - 1])]
          /\ Find(p, k) = after[N]
    BY <1>0, FindLoops
<1> HIDE DEF N
<1> DEFINE Turns == {n \in Nat : n <= N => Reached(K, p, k, after[n], n)}
<1>2. 0 \in Turns
    <2>1. after[0] = [root |-> k, parent |-> p]
        BY <1>0, <1>1
    <2>2. Closed(p, K) /\ Cardinality(K) + 0 <= Cardinality(K) /\ K \in SUBSET K
        BY <1>0 DEF Closed, N
    <2>3. Alike(p, p) /\ OneTree(p, k, k)
        BY DEF Alike, OneTree
    <2>4. Reached(K, p, k, after[0], 0)
        BY <2>1, <2>2, <2>3 DEF Reached
    <2>5. QED BY <2>4
<1>3. ASSUME NEW n \in Nat, n \in Turns PROVE n + 1 \in Turns
    <2>1. SUFFICES ASSUME n + 1 <= N PROVE Reached(K, p, k, after[n + 1], n + 1)
        OBVIOUS
    <2>2. Reached(K, p, k, after[n], n)
        BY <1>0, <1>3, <2>1
    <2>3. after[n + 1] = Halve(after[n])
        <3>1. n + 1 \in 0..N /\ n + 1 # 0 /\ (n + 1) - 1 = n
            BY <1>0, <2>1
        <3>2. QED BY <1>1, <3>1
    <2>4. QED BY <2>2, <2>3, HalveReaches
<1>4. N \in Turns
    <2> HIDE DEF Turns
    <2>1. \A n \in Nat : n \in Turns
        BY <1>2, <1>3, EveryNumber
    <2>2. QED BY <1>0, <2>1
<1>5. PICK f : f = Find(p, k) /\ Reached(K, p, k, f, N)
    BY <1>0, <1>1, <1>4
<1>6. f.parent[f.root] = f.root
    <2>1. ASSUME NEW C \in SUBSET K, f.root \in C, Cardinality(C) + N <= Cardinality(K) PROVE FALSE
        <3>1. IsFiniteSet(C) /\ Cardinality(C) \in Nat
            BY FS_Subset, FS_CardinalityType
        <3>2. Cardinality(C) = 0
            BY <1>0, <2>1, <3>1 DEF N
        <3>3. QED BY <2>1, <3>1, <3>2, FS_EmptySet
    <2>2. QED BY <1>5, <2>1 DEF Reached
<1>7. p[f.root] = f.root
    BY <1>0, <1>5, <1>6 DEF Reached, Alike
<1>8. QED BY <1>5, <1>7 DEF Reached, IsFound

(* A union makes one tree of two, and of no others.                        *)
LEMMA UnionJoins ==
    ASSUME NEW K, IsFiniteSet(K), NEW p \in Forests(K), NEW a \in K, NEW b \in K
    PROVE  /\ Union(p, a, b) \in Forests(K)
           /\ \A S \in SUBSET K :
                 Saturated(Union(p, a, b), S) <=> Saturated(p, S) /\ (a \in S <=> b \in S)
<1>1. PICK l : l = Find(p, a) /\ IsFound(K, p, a, l)
    BY FindFinds
<1>2. PICK o \in Forests(K) : o = l.parent /\ Alike(p, o)
    BY <1>1 DEF IsFound
<1>3. PICK r : r = Find(o, b) /\ IsFound(K, o, b, r)
    BY FindFinds
<1>4. PICK q \in Forests(K) : q = r.parent /\ Alike(o, q)
    BY <1>3 DEF IsFound
<1>5. PICK x \in K, y \in K : x = l.root /\ y = r.root
    BY <1>1, <1>3 DEF IsFound
<1>6. Union(p, a, b) = [q EXCEPT ![y] = x]
    BY <1>1, <1>2, <1>3, <1>4, <1>5 DEF Union
<1>7. /\ DOMAIN p = K /\ DOMAIN o = K /\ DOMAIN q = K /\ q \in [K -> K]
    BY DEF Forests
<1>8. q[x] = x /\ q[y] = y
    BY <1>1, <1>2, <1>3, <1>4, <1>5, <1>7 DEF IsFound, Alike
<1>9. \A S \in SUBSET K : Saturated(p, S) <=> Saturated(q, S)
    BY <1>2, <1>4, <1>7 DEF Alike
<1>10. \A S \in SUBSET K : Saturated(q, S) => (a \in S <=> x \in S) /\ (b \in S <=> y \in S)
    <2>1. OneTree(p, a, x) /\ OneTree(o, b, y)
        BY <1>1, <1>3, <1>5 DEF IsFound
    <2>2. \A S \in SUBSET K : Saturated(o, S) <=> Saturated(q, S)
        BY <1>4, <1>7 DEF Alike
    <2>3. QED BY <1>7, <1>9, <2>1, <2>2 DEF OneTree
<1> DEFINE u == [q EXCEPT ![y] = x]
<1>11. u \in [K -> K] /\ u[y] = x /\ (\A k \in K : k # y => u[k] = q[k]) /\ DOMAIN u = K
    BY <1>7
<1> HIDE DEF u
<1>12. ASSUME NEW S \in SUBSET K, S # {} PROVE \E k \in S : u[k] = k \/ u[k] \notin S
    <2>1. PICK k \in S : q[k] = k \/ q[k] \notin S
        BY <1>12 DEF Forests
    <2>2. CASE k # y
        BY <1>11, <2>1, <2>2
    <2>3. CASE k = y /\ x \notin S
        BY <1>11, <2>3
    <2>4. CASE k = y /\ x \in S /\ x # y
        BY <1>8, <1>11, <2>4
    <2>5. CASE k = y /\ x = y
        BY <1>11, <2>5
    <2>6. QED BY <2>2, <2>3, <2>4, <2>5
<1>13. u \in Forests(K)
    BY <1>11, <1>12 DEF Forests
<1>14. ASSUME NEW S \in SUBSET K
       PROVE  Saturated(u, S) <=> Saturated(p, S) /\ (a \in S <=> b \in S)
    <2>1. ASSUME Saturated(u, S) PROVE Saturated(p, S) /\ (a \in S <=> b \in S)
        <3>1. Saturated(q, S)
            BY <1>7, <1>8, <1>11, <2>1 DEF Saturated
        <3>2. y \in S <=> x \in S
            BY <1>11, <2>1 DEF Saturated
        <3>3. QED BY <1>9, <1>10, <3>1, <3>2
    <2>2. ASSUME Saturated(p, S), a \in S <=> b \in S PROVE Saturated(u, S)
        <3>1. Saturated(q, S)
            BY <1>9, <2>2
        <3>2. y \in S <=> x \in S
            BY <1>10, <2>2, <3>1
        <3>3. QED BY <1>7, <1>11, <3>1, <3>2 DEF Saturated
    <2>3. QED BY <2>1, <2>2
<1>15. QED BY <1>6, <1>13, <1>14 DEF u

-----------------------------------------------------------------------------
(* The chains of a book and of sales of any size.                          *)

(* The lots of a list have names of their own, which are numbers.          *)
IsBook(lots) ==
    /\ \E n \in Nat : IsLong(lots, n)
    /\ \A i, j \in DOMAIN lots : lots[i].id = lots[j].id => i = j
    /\ \A i \in DOMAIN lots : lots[i].id \in Int

LEMMA LotsAreNamed ==
    ASSUME NEW lots, IsBook(lots)
    PROVE  /\ IsFiniteSet(LotIds(lots)) /\ LotIds(lots) \in SUBSET Int
           /\ \A i \in DOMAIN lots : lots[i].id \in LotIds(lots)
           /\ \A i \in DOMAIN lots : LotNamed(lots, lots[i].id) = lots[i]
           /\ \A id \in LotIds(lots) :
                 IsLotOf(lots, id) /\ LotNamed(lots, id) \in ToSet(lots)
                 /\ LotNamed(lots, id).id = id
           /\ \A id : IsLotOf(lots, id) => id \in LotIds(lots)
<1>1. IsFiniteSet(DOMAIN lots)
    <2>1. PICK n \in Nat : DOMAIN lots = 1..n
        BY DEF IsBook, IsLong
    <2>2. IsFiniteSet(1..n)
        BY FS_Interval
    <2>3. QED BY <2>1, <2>2
<1>2. LotIds(lots) \in SUBSET Int /\ \A i \in DOMAIN lots : lots[i].id \in LotIds(lots)
    BY DEF LotIds, IsBook
<1> DEFINE f == [i \in DOMAIN lots |-> lots[i].id]
<1>3. IsFiniteSet(LotIds(lots))
    <2>1. LotIds(lots) = {f[i] : i \in DOMAIN lots}
        BY DEF LotIds
    <2> HIDE DEF f
    <2>2. QED BY <1>1, <2>1, ImageIsFinite
<1>4. ASSUME NEW i \in DOMAIN lots PROVE LotNamed(lots, lots[i].id) = lots[i]
    <2> DEFINE j == CHOOSE j \in DOMAIN lots : lots[j].id = lots[i].id
    <2>1. j \in DOMAIN lots /\ lots[j].id = lots[i].id
        OBVIOUS
    <2>2. j = i
        BY <2>1 DEF IsBook
    <2>3. QED BY <2>2 DEF LotNamed
<1>5. \A id \in LotIds(lots) : \E i \in DOMAIN lots : lots[i].id = id
    BY DEF LotIds
<1>6. \A id : IsLotOf(lots, id) => id \in LotIds(lots)
    BY DEF LotIds, IsLotOf
<1>7. ASSUME NEW id \in LotIds(lots)
      PROVE  /\ IsLotOf(lots, id) /\ LotNamed(lots, id) \in ToSet(lots)
             /\ LotNamed(lots, id).id = id
    <2>1. PICK i \in DOMAIN lots : lots[i].id = id
        BY <1>5
    <2>2. LotNamed(lots, id) = lots[i]
        BY <1>4, <2>1
    <2>3. QED BY <2>1, <2>2 DEF IsLotOf, ToSet
<1>8. QED BY <1>2, <1>3, <1>4, <1>6, <1>7

(* S holds all the lots the sale ties together, or none of them.           *)
Ties(lots, group, sale, S) ==
    sale.loss =>
        \A i \in DOMAIN lots :
            Linked(group, LotNamed(lots, sale.lot), lots[i], sale.day)
                => (LotNamed(lots, sale.lot).id \in S <=> lots[i].id \in S)

LEMMA TiesSeparate ==
    ASSUME NEW lots, NEW group, NEW sales, NEW S
    PROVE  Separate(S, lots, group, sales)
               <=> \A i \in DOMAIN sales : Ties(lots, group, sales[i], S)
<1>1. ASSUME NEW i \in DOMAIN sales
      PROVE  Ties(lots, group, sales[i], S)
                 <=> LET tied == LinkedLotIdsForSell(lots, group, LotNamed(lots, sales[i].lot),
                                                     sales[i].day)
                     IN  sales[i].loss => tied \subseteq S \/ tied \cap S = {}
    <2> DEFINE sold == LotNamed(lots, sales[i].lot)
               day == sales[i].day
               tied == LinkedLotIdsForSell(lots, group, sold, day)
    <2>1. sold.id \in tied
        BY DEF LinkedLotIdsForSell
    <2>2. \A j \in DOMAIN lots : Linked(group, sold, lots[j], day) => lots[j].id \in tied
        BY DEF LinkedLotIdsForSell, ToSet
    <2>3. \A id \in tied : id = sold.id \/ \E j \in DOMAIN lots :
              Linked(group, sold, lots[j], day) /\ id = lots[j].id
        BY DEF LinkedLotIdsForSell, ToSet
    <2>4. Ties(lots, group, sales[i], S)
              <=> (sales[i].loss => \A j \in DOMAIN lots : Linked(group, sold, lots[j], day)
                                        => (sold.id \in S <=> lots[j].id \in S))
        BY DEF Ties
    <2> HIDE DEF tied, sold, day
    <2>5. (\A j \in DOMAIN lots : Linked(group, sold, lots[j], day)
                => (sold.id \in S <=> lots[j].id \in S))
              <=> (tied \subseteq S \/ tied \cap S = {})
        BY <2>1, <2>2, <2>3
    <2>6. QED BY <2>4, <2>5 DEF tied, sold, day
<1>2. QED BY <1>1 DEF Separate

IsJoining(joined, lots, group, sale, p, n) ==
    joined = [i \in 0..n |->
                IF i = 0 THEN p
                ELSE IF Linked(group, LotNamed(lots, sale.lot), lots[i], sale.day)
                THEN Union(joined[i - 1], LotNamed(lots, sale.lot).id, lots[i].id)
                ELSE joined[i - 1]]

LEMMA JoinSaleLoops ==
    ASSUME NEW lots, IsBook(lots), NEW group, NEW p \in Forests(LotIds(lots)),
           NEW sale, sale.loss, IsLotOf(lots, sale.lot), NEW n \in Nat, IsLong(lots, n)
    PROVE  \E joined : /\ IsJoining(joined, lots, group, sale, p, n)
                       /\ JoinSale(p, lots, group, sale) = joined[n]
<1> DEFINE K == LotIds(lots)
           V == Forests(K)
           sold == LotNamed(lots, sale.lot)
           Turn(v, i) == IF Linked(group, sold, lots[i], sale.day)
                         THEN Union(v, sold.id, lots[i].id) ELSE v
           F == [i \in 1..n |-> [v \in V |-> Turn(v, i)]]
<1>0. IsFiniteSet(K) /\ sold.id \in K /\ \A i \in 1..n : lots[i].id \in K
    BY LotsAreNamed DEF IsLong
<1>1. ASSUME NEW v \in V, NEW i \in 1..n PROVE Turn(v, i) \in V
    <2> HIDE DEF K, sold
    <2>1. lots[i].id \in K
        BY <1>0
    <2>2. Union(v, sold.id, lots[i].id) \in V
        BY <1>0, <2>1, UnionJoins
    <2>3. QED BY <2>2
<1>2. \A i \in 1..n, v \in V : F[i][v] = Turn(v, i)
    OBVIOUS
<1> HIDE DEF F, Turn, V
<1>3. IsTurn(F, n, V)
    BY <1>1, <1>2 DEF IsTurn
<1>4. p \in V
    BY DEF V
<1>5. PICK g \in [0..n -> V] : IsLoop(g, n, p, F)
    BY <1>3, <1>4, LoopExists
<1>6. ASSUME NEW i \in 0..n, i # 0 PROVE F[i][g[i - 1]] = Turn(g[i - 1], i)
    <2>1. i \in 1..n /\ i - 1 \in 0..n
        BY <1>6
    <2>2. g[i - 1] \in V
        BY <2>1
    <2>3. QED BY <1>2, <2>1, <2>2
<1>7. g = [i \in 0..n |-> IF i = 0 THEN p ELSE Turn(g[i - 1], i)]
    BY <1>5, <1>6 DEF IsLoop
<1>8. \E h : h = [i \in 0..n |-> IF i = 0 THEN p ELSE Turn(h[i - 1], i)]
    BY <1>7
<1>9. Len(lots) = n
    <2> DEFINE R == {lots[i] : i \in 1..n}
    <2>1. lots \in [1..n -> R]
        BY DEF IsLong
    <2> HIDE DEF R
    <2>2. QED BY <2>1
<1>10. QED BY <1>8, <1>9, Zenon DEF JoinSale, Turn, sold, IsJoining

LEMMA JoinSaleJoins ==
    ASSUME NEW lots, IsBook(lots), NEW group, NEW p \in Forests(LotIds(lots)),
           NEW sale, IsLotOf(lots, sale.lot)
    PROVE  /\ JoinSale(p, lots, group, sale) \in Forests(LotIds(lots))
           /\ \A S \in SUBSET LotIds(lots) :
                 Saturated(JoinSale(p, lots, group, sale), S)
                     <=> Saturated(p, S) /\ Ties(lots, group, sale, S)
<1> DEFINE K == LotIds(lots)
           sold == LotNamed(lots, sale.lot)
           Tied(i, S) == Linked(group, sold, lots[i], sale.day) => (sold.id \in S <=> lots[i].id \in S)
<1>1. CASE ~ sale.loss
    <2>1. JoinSale(p, lots, group, sale) = p
        BY <1>1 DEF JoinSale
    <2>2. \A S : Ties(lots, group, sale, S)
        BY <1>1 DEF Ties
    <2>3. QED BY <2>1, <2>2
<1>2. CASE sale.loss
    <2>1. PICK n \in Nat : IsLong(lots, n)
        BY DEF IsBook
    <2>2. PICK joined : /\ IsJoining(joined, lots, group, sale, p, n)
                        /\ JoinSale(p, lots, group, sale) = joined[n]
        BY <1>2, <2>1, JoinSaleLoops
    <2>3. DOMAIN lots = 1..n /\ IsFiniteSet(K) /\ sold.id \in K /\ \A i \in 1..n : lots[i].id \in K
        BY <2>1, LotsAreNamed DEF IsLong
    <2> HIDE DEF K
    <2> DEFINE Joined(m) == /\ joined[m] \in Forests(K)
                            /\ \A S \in SUBSET K : Saturated(joined[m], S)
                                  <=> Saturated(p, S) /\ \A i \in 1..m : Tied(i, S)
               Turns == {m \in Nat : m <= n => Joined(m)}
    <2>4. 0 \in Turns
        <3>1. joined[0] = p
            BY <2>2 DEF IsJoining
        <3>2. QED BY <3>1 DEF K
    <2>5. ASSUME NEW m \in Nat, m \in Turns PROVE m + 1 \in Turns
        <3>1. SUFFICES ASSUME m + 1 <= n PROVE Joined(m + 1)
            OBVIOUS
        <3>2. Joined(m)
            BY <2>5, <3>1
        <3> DEFINE o == lots[m + 1]
        <3>3. joined[m + 1] = IF Linked(group, sold, o, sale.day)
                              THEN Union(joined[m], sold.id, o.id) ELSE joined[m]
            <4>1. m + 1 \in 0..n /\ m + 1 # 0 /\ (m + 1) - 1 = m
                BY <3>1
            <4> HIDE DEF sold
            <4>2. QED BY <2>2, <4>1 DEF IsJoining, sold
        <3>4. o.id \in K
            BY <2>3, <3>1
        <3>5. PICK v \in Forests(K) : v = joined[m]
            BY <3>2
        <3>6. /\ joined[m + 1] \in Forests(K)
              /\ \A S \in SUBSET K : Saturated(joined[m + 1], S) <=> Saturated(v, S) /\ Tied(m + 1, S)
            <4>1. /\ Union(v, sold.id, o.id) \in Forests(K)
                  /\ \A S \in SUBSET K : Saturated(Union(v, sold.id, o.id), S)
                         <=> Saturated(v, S) /\ (sold.id \in S <=> o.id \in S)
                <5> HIDE DEF o, sold
                <5>1. QED BY <2>3, <3>4, UnionJoins
            <4>2. QED BY <3>3, <3>5, <4>1
        <3>7. ASSUME NEW S
              PROVE  (\A i \in 1..(m + 1) : Tied(i, S)) <=> (\A i \in 1..m : Tied(i, S)) /\ Tied(m + 1, S)
            <4> HIDE DEF Tied
            <4>1. \A i \in 1..(m + 1) : i \in 1..m \/ i = m + 1
                OBVIOUS
            <4>2. \A i \in 1..m : i \in 1..(m + 1)
                OBVIOUS
            <4>3. m + 1 \in 1..(m + 1)
                OBVIOUS
            <4>4. QED BY <4>1, <4>2, <4>3
        <3> HIDE DEF Tied
        <3>8. QED BY <3>2, <3>5, <3>6, <3>7
    <2>6. Joined(n)
        <3> HIDE DEF Turns, Joined
        <3>1. \A m \in Nat : m \in Turns
            BY <2>4, <2>5, EveryNumber
        <3>2. QED BY <3>1 DEF Turns
    <2>7. \A S : Ties(lots, group, sale, S) <=> \A i \in 1..n : Tied(i, S)
        BY <1>2, <2>3 DEF Ties
    <2> HIDE DEF Tied
    <2>8. QED BY <2>2, <2>6, <2>7 DEF K
<1>3. QED BY <1>1, <1>2

(* A list of sales of lots of the book.                                    *)
AreSales(lots, sales) ==
    /\ \E m \in Nat : IsLong(sales, m)
    /\ \A i \in DOMAIN sales : IsLotOf(lots, sales[i].lot)

LEMMA NoSalesNoTrees ==
    ASSUME NEW K
    PROVE  LET p == [id \in K |-> id]
           IN  p \in Forests(K) /\ \A S \in SUBSET K : Saturated(p, S)
BY DEF Forests, Saturated

(* Each lot has the least name of its tree, if the tree has two lots.      *)
NamedBy(p, lots, chains) ==
    chains = [id \in LotIds(lots) |->
                LET members == {other \in LotIds(lots) : Find(p, other).root = Find(p, id).root}
                IN  IF Cardinality(members) < 2 THEN 0
                    ELSE CHOOSE least \in members : \A other \in members : least <= other]

(* The chains are those of a forest whose whole trees are the sets that no *)
(* sale ties to a lot outside them.                                        *)
LEMMA ChainsOfAForest ==
    ASSUME NEW lots, IsBook(lots), lots # <<>>, NEW group, NEW sales, AreSales(lots, sales)
    PROVE  \E p \in Forests(LotIds(lots)) :
              /\ \A S \in SUBSET LotIds(lots) :
                    Saturated(p, S) <=> Separate(S, lots, group, sales)
              /\ NamedBy(p, lots, AssignChains(lots, group, sales))
<1> DEFINE K == LotIds(lots)
           V == Forests(K)
           base == [id \in K |-> id]
<1>1. PICK m \in Nat : IsLong(sales, m)
    BY DEF AreSales
<1>2. \A i \in 1..m : IsLotOf(lots, sales[i].lot)
    BY <1>1 DEF AreSales, IsLong
<1> DEFINE F == [i \in 1..m |-> [v \in V |-> JoinSale(v, lots, group, sales[i])]]
<1>3. base \in V /\ \A S \in SUBSET K : Saturated(base, S)
    BY NoSalesNoTrees
<1>4. ASSUME NEW i \in 1..m, NEW v \in V
      PROVE  F[i][v] = JoinSale(v, lots, group, sales[i]) /\ F[i][v] \in V
    <2>1. JoinSale(v, lots, group, sales[i]) \in V
        BY <1>2, JoinSaleJoins
    <2>2. QED BY <2>1
<1> HIDE DEF F, V, base
<1>5. IsTurn(F, m, V)
    BY <1>4 DEF IsTurn
<1>6. PICK g \in [0..m -> V] : IsLoop(g, m, base, F)
    BY <1>3, <1>5, LoopExists
<1>7. ASSUME NEW i \in 0..m, i # 0
      PROVE  F[i][g[i - 1]] = JoinSale(g[i - 1], lots, group, sales[i])
    <2>1. i \in 1..m /\ i - 1 \in 0..m
        BY <1>7
    <2>2. g[i - 1] \in V
        BY <2>1
    <2>3. QED BY <1>4, <2>1, <2>2
<1>8. g = [i \in 0..m |-> IF i = 0 THEN base ELSE JoinSale(g[i - 1], lots, group, sales[i])]
    BY <1>6, <1>7 DEF IsLoop
<1>9. \E h : h = [i \in 0..m |-> IF i = 0 THEN base ELSE JoinSale(h[i - 1], lots, group, sales[i])]
    BY <1>8
<1>10. Len(sales) = m
    <2> DEFINE R == {sales[i] : i \in 1..m}
    <2>1. sales \in [1..m -> R]
        BY <1>1 DEF IsLong
    <2> HIDE DEF R
    <2>2. QED BY <2>1
<1>11. ~ \E i \in DOMAIN sales : ~ IsLotOf(lots, sales[i].lot)
    BY DEF AreSales
<1> DEFINE Grown(h) ==
        h = [i \in 0..m |-> IF i = 0 THEN base ELSE JoinSale(h[i - 1], lots, group, sales[i])]
           Chained(p) == NamedBy(p, lots, AssignChains(lots, group, sales))
<1>12. \E joined : Grown(joined) /\ Chained(joined[m])
    <2> DEFINE chosen == CHOOSE h : h = [i \in 0..Len(sales) |->
                            IF i = 0 THEN [id \in LotIds(lots) |-> id]
                            ELSE JoinSale(h[i - 1], lots, group, sales[i])]
    <2>1. Chained(chosen[Len(sales)])
        BY <1>11, Zenon DEF AssignChains, NamedBy
    <2>2. \E h : h = [i \in 0..Len(sales) |->
                            IF i = 0 THEN [id \in LotIds(lots) |-> id]
                            ELSE JoinSale(h[i - 1], lots, group, sales[i])]
        BY <1>9, <1>10 DEF base
    <2>3. chosen = [i \in 0..Len(sales) |->
                            IF i = 0 THEN [id \in LotIds(lots) |-> id]
                            ELSE JoinSale(chosen[i - 1], lots, group, sales[i])]
        BY <2>2, Zenon
    <2> HIDE DEF chosen, Chained
    <2>4. Grown(chosen)
        BY <1>10, <2>3 DEF base
    <2>5. QED BY <1>10, <2>1, <2>4
<1>13. PICK joined : Grown(joined) /\ Chained(joined[m])
    BY <1>12
<1> HIDE DEF Chained
<1> DEFINE Joined(j) ==
        /\ joined[j] \in V
        /\ \A S \in SUBSET K : Saturated(joined[j], S)
              <=> \A i \in 1..j : Ties(lots, group, sales[i], S)
           Turns == {j \in Nat : j <= m => Joined(j)}
<1>14. 0 \in Turns
    <2>1. joined[0] = base
        BY <1>13
    <2>2. QED BY <1>3, <2>1
<1>15. ASSUME NEW j \in Nat, j \in Turns PROVE j + 1 \in Turns
    <2>1. SUFFICES ASSUME j + 1 <= m PROVE Joined(j + 1)
        OBVIOUS
    <2>2. Joined(j)
        BY <1>15, <2>1
    <2>3. joined[j + 1] = JoinSale(joined[j], lots, group, sales[j + 1])
        <3>1. j + 1 \in 0..m /\ j + 1 # 0 /\ (j + 1) - 1 = j
            BY <2>1
        <3>2. QED BY <1>13, <3>1
    <2>4. PICK v \in Forests(LotIds(lots)) : v = joined[j]
        BY <2>2 DEF V
    <2>5. IsLotOf(lots, sales[j + 1].lot)
        BY <1>2, <2>1
    <2>6. /\ joined[j + 1] \in V
          /\ \A S \in SUBSET K :
                Saturated(joined[j + 1], S) <=> Saturated(v, S) /\ Ties(lots, group, sales[j + 1], S)
        BY <2>3, <2>4, <2>5, JoinSaleJoins DEF V
    <2>7. ASSUME NEW S
          PROVE  (\A i \in 1..(j + 1) : Ties(lots, group, sales[i], S))
                     <=> (\A i \in 1..j : Ties(lots, group, sales[i], S))
                         /\ Ties(lots, group, sales[j + 1], S)
        <3>1. \A i \in 1..(j + 1) : i \in 1..j \/ i = j + 1
            OBVIOUS
        <3>2. \A i \in 1..j : i \in 1..(j + 1)
            OBVIOUS
        <3>3. j + 1 \in 1..(j + 1)
            OBVIOUS
        <3>4. QED BY <3>1, <3>2, <3>3
    <2>8. QED BY <2>2, <2>4, <2>6, <2>7
<1>16. Joined(m)
    <2> HIDE DEF Turns, Joined
    <2>1. \A j \in Nat : j \in Turns
        BY <1>14, <1>15, EveryNumber
    <2>2. QED BY <2>1 DEF Turns
<1>17. DOMAIN sales = 1..m
    BY <1>1 DEF IsLong
<1>18. \A S \in SUBSET K : Saturated(joined[m], S) <=> Separate(S, lots, group, sales)
    BY <1>16, <1>17, TiesSeparate
<1>19. joined[m] \in Forests(LotIds(lots))
    BY <1>16 DEF V
<1>20. QED BY <1>13, <1>18, <1>19 DEF Chained

(* The roots that find returns tell the trees apart.                       *)
LEMMA RootsTellTrees ==
    ASSUME NEW K, IsFiniteSet(K), NEW p \in Forests(K), NEW a \in K, NEW b \in K
    PROVE  Find(p, a).root = Find(p, b).root <=> OneTree(p, a, b)
<1>1. PICK f : f = Find(p, a) /\ IsFound(K, p, a, f)
    BY FindFinds
<1>2. PICK g : g = Find(p, b) /\ IsFound(K, p, b, g)
    BY FindFinds
<1>3. PICK r \in K, s \in K : r = f.root /\ s = g.root
    BY <1>1, <1>2 DEF IsFound
<1>4. p[r] = r /\ p[s] = s /\ OneTree(p, a, r) /\ OneTree(p, b, s)
    BY <1>1, <1>2, <1>3 DEF IsFound
<1>5. ASSUME r = s PROVE OneTree(p, a, b)
    BY <1>4, <1>5 DEF OneTree
<1>6. ASSUME OneTree(p, a, b) PROVE r = s
    <2>1. OneTree(p, r, s)
        BY <1>4, <1>6 DEF OneTree
    <2>2. QED BY <1>4, <2>1, OneRoot
<1>7. QED BY <1>1, <1>2, <1>3, <1>5, <1>6

LEMMA TreesAreWhole ==
    ASSUME NEW K, NEW p \in Forests(K), NEW S \in SUBSET K, Saturated(p, S)
    PROVE  K \ S \in SUBSET K /\ Saturated(p, K \ S)
BY DEF Saturated, Forests

(* The chains are the closure of the single links of the sales, in         *)
(* whatever order the lots and the sales come and however many there are,  *)
(* and each is named after its least lot (assign_wash_sale_chain_ids): of  *)
(* the union-find neither the order nor the halving shows.                 *)
THEOREM ChainsAreClosed ==
    ASSUME NEW lots, IsBook(lots), NEW group, NEW sales, AreSales(lots, sales)
    PROVE  ClosureOfLinks(AssignChains(lots, group, sales), lots, group, sales)
<1> DEFINE K == LotIds(lots)
           chains == AssignChains(lots, group, sales)
<1>0. IsFiniteSet(K) /\ K \in SUBSET Int
    BY LotsAreNamed
<1>1. SUFFICES ASSUME NEW id \in K
               PROVE  LET chain == ChainOf(id, lots, group, sales)
                      IN  IF Cardinality(chain) = 1 THEN chains[id] = 0
                          ELSE chains[id] \in chain /\ \A other \in chain : chains[id] <= other
    BY DEF ClosureOfLinks
<1>2. lots # <<>>
    BY DEF LotIds
<1>3. PICK p \in Forests(K) :
          /\ \A S \in SUBSET K : Saturated(p, S) <=> Separate(S, lots, group, sales)
          /\ NamedBy(p, lots, chains)
    BY <1>2, ChainsOfAForest
<1> DEFINE members == {other \in K : Find(p, other).root = Find(p, id).root}
           chain == ChainOf(id, lots, group, sales)
<1>4. chains[id] = IF Cardinality(members) < 2 THEN 0
                   ELSE CHOOSE least \in members : \A other \in members : least <= other
    <2> HIDE DEF chains
    <2>1. QED BY <1>3, Zenon DEF NamedBy
<1>5. members = {other \in K : OneTree(p, other, id)}
    <2>1. \A other \in K : Find(p, other).root = Find(p, id).root <=> OneTree(p, other, id)
        <3> HIDE DEF K
        <3>1. QED BY <1>0, RootsTellTrees
    <2>2. QED BY <2>1
<1>6. DOMAIN p = K
    BY DEF Forests
<1>7. ASSUME NEW other \in K PROVE OneTree(p, other, id) <=> other \in chain
    <2>1. ASSUME OneTree(p, other, id), NEW S \in SUBSET K, id \in S, Separate(S, lots, group, sales)
          PROVE  other \in S
        BY <1>3, <1>6, <2>1 DEF OneTree
    <2>2. ASSUME other \in chain, NEW S \in SUBSET K, Saturated(p, S)
          PROVE  other \in S <=> id \in S
        <3>1. \A T \in SUBSET K : Saturated(p, T) /\ id \in T => other \in T
            BY <1>3, <2>2 DEF ChainOf
        <3>2. K \ S \in SUBSET K /\ Saturated(p, K \ S)
            BY <2>2, TreesAreWhole
        <3> HIDE DEF K
        <3>3. id \in S => other \in S
            BY <2>2, <3>1
        <3>4. id \in K \ S => other \in K \ S
            BY <3>1, <3>2
        <3>5. QED BY <3>3, <3>4
    <2>3. OneTree(p, other, id) => other \in chain
        BY <2>1 DEF ChainOf
    <2>4. other \in chain => OneTree(p, other, id)
        BY <1>6, <2>2 DEF OneTree
    <2>5. QED BY <2>3, <2>4
<1>8. members = chain
    <2>1. chain \subseteq K
        BY DEF ChainOf
    <2> HIDE DEF chain, K, members
    <2>2. QED BY <1>5, <1>7, <2>1
<1>9. id \in chain
    BY DEF ChainOf
<1>10. chain \in SUBSET Int /\ IsFiniteSet(chain) /\ Cardinality(chain) \in Nat /\ Cardinality(chain) # 0
    <2>1. chain \in SUBSET K
        BY DEF ChainOf
    <2> HIDE DEF chain, K
    <2>2. chain \in SUBSET Int /\ IsFiniteSet(chain) /\ Cardinality(chain) \in Nat
        BY <1>0, <2>1, FS_Subset, FS_CardinalityType
    <2>3. Cardinality(chain) # 0
        BY <1>9, <2>2, FS_EmptySet
    <2>4. QED BY <2>2, <2>3
<1> HIDE DEF chain, members, K, chains
<1>11. CASE Cardinality(chain) = 1
    BY <1>4, <1>8, <1>11 DEF chain
<1>12. CASE Cardinality(chain) # 1
    <2>1. ~ (Cardinality(chain) < 2)
        BY <1>10, <1>12
    <2>2. chains[id] = CHOOSE least \in chain : \A other \in chain : least <= other
        BY <1>4, <1>8, <2>1
    <2>3. \E least \in chain : \A other \in chain : least <= other
        BY <1>9, <1>10, MinIsLeast
    <2>4. chains[id] \in chain /\ \A other \in chain : chains[id] <= other
        BY <2>2, <2>3
    <2>5. QED BY <1>12, <2>4 DEF chain
<1>13. QED BY <1>11, <1>12

(* Sales that tie no two lots make no chains.                              *)
LEMMA NoLinksNoChains ==
    ASSUME NEW lots, IsBook(lots), NEW group, NEW sales, AreSales(lots, sales),
           \A i \in DOMAIN sales, j \in DOMAIN lots :
              ~ Linked(group, LotNamed(lots, sales[i].lot), lots[j], sales[i].day),
           NEW id \in LotIds(lots)
    PROVE  AssignChains(lots, group, sales)[id] = 0
<1> DEFINE chain == ChainOf(id, lots, group, sales)
<1>1. \A S : Separate(S, lots, group, sales)
    BY TiesSeparate DEF Ties
<1>2. chain = {id}
    <2>1. id \in chain
        BY DEF ChainOf
    <2>2. ASSUME NEW other \in chain PROVE other = id
        <3>1. {id} \in SUBSET LotIds(lots)
            OBVIOUS
        <3>2. other \in {id}
            BY <1>1, <3>1 DEF ChainOf
        <3>3. QED BY <3>2
    <2> HIDE DEF chain
    <2>3. QED BY <2>1, <2>2
<1>3. Cardinality(chain) = 1
    BY <1>2, FS_Singleton
<1>4. QED BY <1>3, ChainsAreClosed DEF ClosureOfLinks

-----------------------------------------------------------------------------
(* Harvests and chains.                                                    *)

(* Selling what may be harvested ties no two lots.                         *)
LEMMA TradesTieNothing ==
    ASSUME NEW lots, IsBook(lots), NEW group, NEW policy, NEW today,
           NEW trades, NEW m \in Nat, IsLong(trades, m),
           \A k \in DOMAIN trades : \E i \in Open(lots, group, policy, today) : trades[k] = lots[i],
           NEW id \in LotIds(lots)
    PROVE  AssignChains(lots, group, AsSales(trades, today))[id] = 0
<1> DEFINE sales == AsSales(trades, today)
<1>1. /\ DOMAIN sales = 1..m /\ DOMAIN trades = 1..m
      /\ \A k \in 1..m : sales[k] = [lot |-> trades[k].id, day |-> today, loss |-> TRUE]
    BY DEF AsSales, IsLong
<1>2. sales = [k \in 1..m |-> sales[k]]
    BY <1>1 DEF AsSales
<1> HIDE DEF sales
<1>3. IsLong(sales, m)
    BY <1>1, <1>2 DEF IsLong
<1>4. ASSUME NEW k \in DOMAIN sales
      PROVE  /\ IsLotOf(lots, sales[k].lot)
             /\ \A j \in DOMAIN lots :
                   ~ Linked(group, LotNamed(lots, sales[k].lot), lots[j], sales[k].day)
    <2>1. PICK i \in Open(lots, group, policy, today) : trades[k] = lots[i]
        BY <1>1
    <2>2. i \in DOMAIN lots /\ WashTriggers(lots[i], lots, group, today) = {}
        BY DEF Open, Harvestable
    <2>3. sales[k].lot = lots[i].id /\ sales[k].day = today
        BY <1>1, <2>1
    <2>4. LotNamed(lots, sales[k].lot) = lots[i] /\ IsLotOf(lots, sales[k].lot)
        BY <2>2, <2>3, LotsAreNamed
    <2>5. \A j \in DOMAIN lots : lots[j] \in ToSet(lots)
        BY DEF ToSet
    <2>6. \A j \in DOMAIN lots : ~ Linked(group, lots[i], lots[j], today)
        BY <2>2, <2>5 DEF WashTriggers, Linked, Identical, SubstantiallyIdentical, WithinWashWindow
    <2>7. QED BY <2>3, <2>4, <2>6
<1>5. AreSales(lots, sales)
    BY <1>3, <1>4 DEF AreSales
<1>6. AssignChains(lots, group, sales)[id] = 0
    BY <1>4, <1>5, NoLinksNoChains
<1>7. QED BY <1>6 DEF sales

(* The two wash-sale rules agree on every book: what a solver proposes to  *)
(* sell, the ledger ties into no chain.                                    *)
THEOREM HarvestsDoNotLink ==
    ASSUME NEW lots, IsBook(lots), IsPriced(lots), NEW group, NEW policy, NEW today,
           ~ (TotalValue(lots) <= 0), NEW id \in LotIds(lots)
    PROVE  \A trades \in {TaxAwareOptimizer(lots, group, policy, today).trades,
                          MipOptimizer(lots, group, policy, today).trades} :
              AssignChains(lots, group, AsSales(trades, today))[id] = 0
<1> DEFINE open == Open(lots, group, policy, today)
           n == Cardinality(open)
           all == TaxAwareOptimizer(lots, group, policy, today)
           mip == MipOptimizer(lots, group, policy, today)
<1>0. n \in Nat /\ MaxTrades \in Nat
    BY OpenIsALoss, FS_CardinalityType, RatesAssumption
<1>1. \E m \in Nat : /\ IsLong(all.trades, m)
                     /\ \A k \in DOMAIN all.trades : \E i \in open : all.trades[k] = lots[i]
    <2>1. PICK order :
              /\ IsOrder(order, open, LargestLossFirst(lots, open))
              /\ all = [trades |-> [k \in DOMAIN order |-> lots[order[k]]],
                        tax |-> TaxDelta([k \in DOMAIN order |-> lots[order[k]]], today),
                        binding |-> Binding(lots, group, policy, today)]
        BY AllAreSold
    <2>2. all.trades = [k \in DOMAIN order |-> lots[order[k]]]
        BY <2>1
    <2>3. DOMAIN order = 1..n /\ \A k \in DOMAIN order : order[k] \in open
        BY <2>1 DEF IsOrder
    <2> HIDE DEF all, open, n
    <2>4. IsLong(all.trades, n)
        BY <2>2, <2>3 DEF IsLong
    <2>5. QED BY <1>0, <2>2, <2>3, <2>4
<1>2. \E m \in Nat : /\ IsLong(mip.trades, m)
                     /\ \A k \in DOMAIN mip.trades : \E i \in open : mip.trades[k] = lots[i]
    <2>1. PICK order : \E least \in Nat :
              /\ IsOrder(order, open, BestScoreFirst(lots, open, today))
              /\ least = IF n < MaxTrades THEN n ELSE MaxTrades
              /\ mip.trades = [k \in 1..least |-> lots[order[k]]]
              /\ Len(mip.trades) = least
        BY TheFirstAreSold
    <2>a. PICK least \in Nat :
              /\ least = IF n < MaxTrades THEN n ELSE MaxTrades
              /\ mip.trades = [k \in 1..least |-> lots[order[k]]]
        BY <2>1
    <2>2. DOMAIN order = 1..n /\ \A k \in DOMAIN order : order[k] \in open
        BY <2>1 DEF IsOrder
    <2> HIDE DEF mip, open, n
    <2>3. \A k \in 1..least : k \in 1..n
        BY <1>0, <2>a
    <2>4. IsLong(mip.trades, least)
        BY <2>a DEF IsLong
    <2>5. QED BY <2>a, <2>2, <2>3, <2>4
<1>3. QED BY <1>1, <1>2, TradesTieNothing

-----------------------------------------------------------------------------
(* What a book is worth, and what weighs how much in it.                   *)

(* A book whose lots are told apart, marked at nothing or more.            *)
IsMarked(lots) ==
    /\ \E n \in Nat : DOMAIN lots = 1..n
    /\ \A i, j \in DOMAIN lots : lots[i] = lots[j] => i = j
    /\ \A i \in DOMAIN lots : lots[i].value \in Nat \cup {Unpriced}

(* f is the worth of every set of the lots M.                              *)
Weighs(f, M) ==
    /\ IsFiniteSet(M) /\ \A lot \in M : lot.value \in Nat
    /\ Adds(f, [lot \in M |-> lot.value], M)
    /\ \A A \in SUBSET M : WorthOf(A) = f[A] /\ f[A] \in Nat

LEMMA MarkedAreFew ==
    ASSUME NEW lots, IsMarked(lots)
    PROVE  /\ MarkedLots(lots) = {lots[i] : i \in {j \in DOMAIN lots : lots[j].value # Unpriced}}
           /\ IsFiniteSet(MarkedLots(lots))
           /\ \A lot \in MarkedLots(lots) : lot.value \in Nat
<1> DEFINE places == {j \in DOMAIN lots : lots[j].value # Unpriced}
           f == [i \in places |-> lots[i]]
<1>1. MarkedLots(lots) = {lots[i] : i \in places}
    BY DEF MarkedLots, ToSet
<1>2. IsFiniteSet(places)
    <2>1. IsFiniteSet(DOMAIN lots)
        BY FS_Interval DEF IsMarked
    <2>2. QED BY <2>1, FS_Subset
<1>3. {lots[i] : i \in places} = {f[i] : i \in places}
    OBVIOUS
<1>4. IsFiniteSet(MarkedLots(lots))
    <2> HIDE DEF f, places
    <2>1. QED BY <1>1, <1>2, <1>3, ImageIsFinite
<1>5. \A lot \in MarkedLots(lots) : lot.value \in Nat
    BY <1>1 DEF IsMarked
<1>6. QED BY <1>1, <1>4, <1>5

LEMMA WorthsAreSums ==
    ASSUME NEW M, IsFiniteSet(M), \A lot \in M : lot.value \in Nat
    PROVE  \E f : Weighs(f, M)
<1> DEFINE w == [lot \in M |-> lot.value]
<1>1. DOMAIN w = M /\ \A x \in M : w[x] \in Int /\ w[x] >= 0
    OBVIOUS
<1>2. Summable(w)
    BY <1>1 DEF Summable
<1>3. PICK f : Adds(f, w, M)
    BY <1>1, <1>2, SumsExist
<1>4. ASSUME NEW A \in SUBSET M PROVE WorthOf(A) = f[A] /\ f[A] \in Nat
    <2>1. On(w, A) = [lot \in A |-> lot.value]
        BY DEF On
    <2>2. TotalOf(On(w, A)) = f[A] /\ f[A] \in Int
        BY <1>3 DEF Adds
    <2>3. f[A] >= 0
        <3> HIDE DEF w
        <3>1. QED BY <1>1, <1>3, AtLeastEach
    <2>4. QED BY <2>1, <2>2, <2>3 DEF WorthOf
<1>5. QED BY <1>3, <1>4 DEF Weighs

(* A part weighs no more than the whole, one lot its value.                *)
LEMMA PartsWeighLess ==
    ASSUME NEW M, NEW f, Weighs(f, M), NEW A \in SUBSET M
    PROVE  /\ WorthOf(A) \in Nat /\ WorthOf(M) \in Nat /\ WorthOf(A) <= WorthOf(M)
           /\ WorthOf({}) = 0
           /\ \A lot \in M : WorthOf({lot}) = lot.value
<1> DEFINE w == [lot \in M |-> lot.value]
<1>1. /\ Adds(f, w, M) /\ IsFiniteSet(M)
      /\ \A x \in M : w[x] \in Int
      /\ \A B \in SUBSET M : WorthOf(B) = f[B] /\ f[B] \in Nat
    BY DEF Weighs
<1> HIDE DEF w
<1>2. PICK B \in SUBSET M : A \cap B = {} /\ M = A \cup B
    <2>1. M \ A \in SUBSET M /\ A \cap (M \ A) = {} /\ M = A \cup (M \ A)
        OBVIOUS
    <2>2. QED BY <2>1
<1>3. f[M] = f[A] + f[B]
    <2>1. PICK U : U = M
        OBVIOUS
    <2>2. Adds(f, w, M) /\ IsFiniteSet(M) /\ A \cap B = {} /\ U = A \cup B
        BY <1>1, <1>2, <2>1
    <2>3. \A x \in M : w[x] \in Int
        BY <1>1
    <2>4. f[U] = f[A] + f[B]
        BY <2>2, <2>3, AddsApart
    <2>5. QED BY <2>1, <2>4
<1>4. M \in SUBSET M /\ f[A] \in Nat /\ f[B] \in Nat /\ f[M] \in Nat
    BY <1>1
<1>5. f[A] <= f[M]
    BY <1>3, <1>4
<1>6. f[{}] = 0
    BY <1>1 DEF Adds
<1>7. ASSUME NEW lot \in M PROVE f[{lot}] = lot.value
    <2>1. {lot} \in SUBSET M /\ lot \in {lot} /\ {lot} \ {lot} = {}
        OBVIOUS
    <2>2. f[{lot}] = w[lot] + f[{}]
        BY <1>1, <2>1 DEF Adds
    <2>3. w[lot] = lot.value /\ lot.value \in Nat
        BY DEF w, Weighs
    <2>4. QED BY <1>6, <2>2, <2>3
<1>8. WorthOf(A) = f[A] /\ WorthOf(M) = f[M] /\ WorthOf({}) = f[{}]
    BY <1>1, <1>4
<1>9. \A lot \in M : WorthOf({lot}) = lot.value
    <2>1. \A lot \in M : {lot} \in SUBSET M
        OBVIOUS
    <2>2. QED BY <1>1, <1>7, <2>1
<1>10. QED BY <1>4, <1>5, <1>6, <1>8, <1>9

(* The sleeves of a book are worth what it is.                             *)
LEMMA SleevesAddUp ==
    ASSUME NEW lots, NEW f, Weighs(f, MarkedLots(lots))
    PROVE  /\ TotalOf(WorthBySleeve(lots)) = WorthOf(MarkedLots(lots))
           /\ DOMAIN WorthBySleeve(lots) = {lot.sleeve : lot \in MarkedLots(lots)}
           /\ \A s \in DOMAIN WorthBySleeve(lots) :
                 WorthBySleeve(lots)[s] = WorthOf({lot \in MarkedLots(lots) : lot.sleeve = s})
<1> DEFINE M == MarkedLots(lots)
           w == [lot \in M |-> lot.value]
           p == [lot \in M |-> lot.sleeve]
           parts == WorthBySleeve(lots)
<1>1. Summable(w) /\ IsFun(w) /\ DOMAIN w = M
    BY DEF Weighs, Summable, IsFun
<1>2. /\ DOMAIN parts = {lot.sleeve : lot \in M} /\ IsFun(parts)
      /\ \A s \in DOMAIN parts : parts[s] = WorthOf({lot \in M : lot.sleeve = s})
    <2> HIDE DEF M
    <2>1. parts = [s \in {lot.sleeve : lot \in M} |-> WorthOf({lot \in M : lot.sleeve = s})]
        BY DEF WorthBySleeve, M
    <2> HIDE DEF parts
    <2>2. QED BY <2>1 DEF IsFun
<1>3. ASSUME NEW s PROVE WorthOf({lot \in M : lot.sleeve = s}) = TotalOf(On(w, PartOf(w, p, s)))
    <2>1. PartOf(w, p, s) = {lot \in M : lot.sleeve = s}
        BY DEF PartOf
    <2>2. On(w, {lot \in M : lot.sleeve = s}) = [lot \in {lot \in M : lot.sleeve = s} |-> lot.value]
        BY DEF On
    <2>3. QED BY <2>1, <2>2 DEF WorthOf
<1>4. {p[x] : x \in M} = {lot.sleeve : lot \in M}
    OBVIOUS
<1>5. Parts(parts, w, p)
    <2> HIDE DEF parts, w, p, M
    <2>1. QED BY <1>1, <1>2, <1>3, <1>4 DEF Parts
<1>6. TotalOf(parts) = TotalOf(w)
    <2> HIDE DEF parts, w, p, M
    <2>1. QED BY <1>1, <1>5, TotalByParts
<1>7. TotalOf(w) = WorthOf(M)
    BY DEF WorthOf
<1>8. QED BY <1>2, <1>6, <1>7

(* The lots at some places are worth what their values add up to.          *)
LEMMA PlacesWeigh ==
    ASSUME NEW lots, IsMarked(lots), NEW places \in SUBSET DOMAIN lots,
           \A i \in places : lots[i].value # Unpriced
    PROVE  TotalOf([i \in places |-> lots[i].value]) = WorthOf({lots[i] : i \in places})
<1> DEFINE v == [i \in places |-> lots[i].value]
           h == [i \in places |-> lots[i]]
           w == [lot \in {lots[i] : i \in places} |-> lot.value]
<1>1. IsFiniteSet(places)
    <2>1. IsFiniteSet(DOMAIN lots)
        BY FS_Interval DEF IsMarked
    <2>2. QED BY <2>1, FS_Subset
<1>2. Renames(h, w, v)
    BY <1>1 DEF Renames, IsFun, IsMarked
<1>3. IsFun(w) /\ \A x \in DOMAIN w : w[x] \in Int
    BY DEF IsFun, IsMarked
<1>4. TotalOf(v) = TotalOf(w)
    <2> HIDE DEF v, h, w
    <2>1. QED BY <1>2, <1>3, TotalRenamed
<1>5. QED BY <1>4 DEF WorthOf

(* What the solvers call the value of the book is the worth of what is     *)
(* marked.                                                                 *)
LEMMA ValueIsWorth ==
    ASSUME NEW lots, IsMarked(lots)
    PROVE  TotalValue(lots) = WorthOf(MarkedLots(lots))
<1> DEFINE places == {j \in DOMAIN lots : lots[j].value # Unpriced}
           v == [i \in DOMAIN lots |-> ValueOf(lots[i])]
           w == [i \in places |-> lots[i].value]
<1>1. IsFiniteSet(DOMAIN lots)
    BY FS_Interval DEF IsMarked
<1>2. \A i \in DOMAIN lots : v[i] = IF i \in places THEN w[i] ELSE 0
    BY DEF ValueOf
<1>3. \A i \in DOMAIN lots : v[i] \in Int
    BY DEF ValueOf, IsMarked
<1>4. DOMAIN v = DOMAIN lots /\ DOMAIN w = places /\ places \in SUBSET DOMAIN lots
    OBVIOUS
<1>5. Summable(v) /\ IsFun(v) /\ IsFun(w)
    BY <1>1, <1>3 DEF Summable, IsFun
<1>6. TotalOf(v) = TotalOf(w)
    <2> HIDE DEF v, w, places
    <2>1. QED BY <1>2, <1>4, <1>5, TotalOfMore
<1>7. TotalOf(w) = WorthOf({lots[i] : i \in places})
    <2>1. \A i \in places : lots[i].value # Unpriced
        OBVIOUS
    <2> HIDE DEF places
    <2>2. QED BY <1>4, <2>1, PlacesWeigh
<1>8. {lots[i] : i \in places} = MarkedLots(lots)
    BY MarkedAreFew
<1>9. QED BY <1>6, <1>7, <1>8 DEF TotalValue

-----------------------------------------------------------------------------
(* Weights are rounded down to whole numbers. Against a bound from below   *)
(* that tells the same as the exact share; against one from above it does  *)
(* when shares come in steps the book cannot fall between.                 *)

LEMMA Quotient ==
    ASSUME NEW x \in Int, NEW d \in Nat, d > 0
    PROVE  x \div d \in Int /\ (x \div d) * d <= x /\ x < (x \div d + 1) * d
<1>1. PICK q \in Int : q = x \div d
    OBVIOUS
<1>2. q * d <= x /\ x < (q + 1) * d
    BY <1>1
<1>3. QED BY <1>1, <1>2

LEMMA ProductsOrder ==
    ASSUME NEW x \in Int, NEW y \in Int, NEW k \in Nat, k > 0
    PROVE  x * k < y * k <=> x < y
<1>0. PICK a \in Int, b \in Int : a = x * k /\ b = y * k
    OBVIOUS
<1>1. ASSUME x < y PROVE a < b
    BY <1>0, <1>1, ProductGrowsStrictly
<1>2. ASSUME ~ (x < y) PROVE ~ (a < b)
    <2>1. y <= x
        BY <1>2
    <2>2. b <= a
        BY <1>0, <2>1, ProductGrows
    <2>3. QED BY <2>2
<1>3. QED BY <1>0, <1>1, <1>2

LEMMA RoundedBelow ==
    ASSUME NEW x \in Int, NEW d \in Nat, d > 0, NEW bound \in Int
    PROVE  x \div d < bound <=> x < bound * d
<1>1. PICK q \in Int : q = x \div d /\ q * d <= x /\ x < (q + 1) * d
    BY Quotient
<1>2. PICK a \in Int, b \in Int, c \in Int : a = q * d /\ b = (q + 1) * d /\ c = bound * d
    OBVIOUS
<1>3. ASSUME q < bound PROVE x < c
    <2>1. q + 1 <= bound
        BY <1>3
    <2>2. b <= c
        BY <1>2, <2>1, ProductGrows
    <2>3. QED BY <1>1, <1>2, <2>2
<1>4. ASSUME x < c PROVE q < bound
    <2>1. a < c
        BY <1>1, <1>2, <1>4
    <2>2. QED BY <1>2, <2>1, ProductsOrder
<1>5. QED BY <1>1, <1>2, <1>3, <1>4

(* x and bound are multiples of a step that d does not exceed.             *)
LEMMA RoundedAbove ==
    ASSUME NEW step \in Nat, NEW d \in Nat, d > 0, d <= step, NEW m \in Int, NEW n \in Int,
           NEW x \in Int, x = m * step, NEW bound \in Int, bound = n * step
    PROVE  x \div d > bound <=> x > bound * d
<1>1. PICK q \in Int : q = x \div d /\ q * d <= x /\ x < (q + 1) * d
    BY Quotient
<1>2. PICK a \in Int, b \in Int, c \in Int, e \in Int, nd \in Int :
          a = q * d /\ b = (q + 1) * d /\ c = bound * d /\ e = (bound + 1) * d /\ nd = n * d
    OBVIOUS
<1>3. e = c + d
    BY <1>2
<1>4. ASSUME q > bound PROVE x > c
    <2>1. bound + 1 <= q
        BY <1>4
    <2>2. e <= a
        BY <1>2, <2>1, ProductGrows
    <2>3. QED BY <1>1, <1>2, <1>3, <2>2
<1>5. ASSUME x > c PROVE q > bound
    <2>1. c = nd * step
        BY <1>2
    <2>2. nd * step < m * step /\ step > 0
        BY <1>5, <2>1
    <2>3. nd < m
        BY <2>2, ProductsOrder
    <2>4. (nd + 1) * step <= m * step
        BY <2>3, ProductGrows
    <2>5. (nd + 1) * step = c + step
        BY <2>1
    <2>6. e <= x
        BY <1>3, <2>4, <2>5
    <2>7. e < b
        BY <1>1, <1>2, <2>6
    <2>8. bound + 1 < q + 1
        BY <1>2, <2>7, ProductsOrder
    <2>9. QED BY <2>8
<1>6. QED BY <1>1, <1>2, <1>4, <1>5

-----------------------------------------------------------------------------
(* The policy check of a book of any size.                                 *)

OnGrid(x, step) == \E m \in Int : x = m * step

(* The whole and the bounds from above are multiples of a step, and the    *)
(* book is worth no more than that.                                        *)
IsFine(targets, worth) ==
    /\ One \in Int /\ DriftAlert \in Int
    /\ \E step \in Nat :
          /\ worth <= step /\ OnGrid(One, step)
          /\ \A s \in DOMAIN targets :
                /\ targets[s].max \in Int /\ targets[s].min \in Int /\ targets[s].target \in Int
                /\ OnGrid(targets[s].max, step) /\ OnGrid(targets[s].target + DriftAlert, step)

InSleeve(lots, s) == {lot \in MarkedLots(lots) : lot.sleeve = s}

LEMMA WeightIsShare ==
    ASSUME NEW lots, NEW f, Weighs(f, MarkedLots(lots)), WorthOf(MarkedLots(lots)) > 0,
           One \in Int, NEW targets, NEW s \in DOMAIN targets
    PROVE  Weights(lots, targets)[s] =
               (WorthOf(InSleeve(lots, s)) * One) \div WorthOf(MarkedLots(lots))
<1> DEFINE M == MarkedLots(lots)
           worth == WorthBySleeve(lots)
<1>1. /\ TotalOf(worth) = WorthOf(M) /\ DOMAIN worth = {lot.sleeve : lot \in M}
      /\ \A t \in DOMAIN worth : worth[t] = WorthOf(InSleeve(lots, t))
    BY SleevesAddUp DEF InSleeve
<1>2. Weights(lots, targets)[s] = IF s \notin DOMAIN worth \/ TotalOf(worth) <= 0 THEN 0
                                  ELSE (worth[s] * One) \div TotalOf(worth)
    BY DEF Weights
<1>3. PICK d \in Nat : d = WorthOf(M) /\ d > 0
    <2>1. M \in SUBSET M
        OBVIOUS
    <2>2. WorthOf(M) \in Nat
        BY <2>1 DEF Weighs
    <2>3. QED BY <2>2
<1>4. CASE s \in DOMAIN worth
    BY <1>1, <1>2, <1>3, <1>4
<1>5. CASE s \notin DOMAIN worth
    <2>1. InSleeve(lots, s) = {}
        BY <1>1, <1>5 DEF InSleeve
    <2>2. WorthOf({}) = 0
        <3>1. {} \in SUBSET M
            OBVIOUS
        <3>2. QED BY <3>1, PartsWeighLess
    <2>3. (0 * One) \div d = 0
        <3>1. 0 * One = 0
            OBVIOUS
        <3>2. 0 \div d = 0
            BY <1>3
        <3>3. QED BY <3>1, <3>2
    <2>4. Weights(lots, targets)[s] = 0
        BY <1>2, <1>5
    <2>5. (WorthOf(InSleeve(lots, s)) * One) \div WorthOf(M) = 0
        BY <1>3, <2>1, <2>2, <2>3
    <2>6. QED BY <2>4, <2>5
<1>6. QED BY <1>4, <1>5

(* There is an alert about a sleeve exactly when its share is out of band. *)
OffTarget(lots, target, s) ==
    LET held == InSleeve(lots, s)
    IN  \/ Beyond(held, lots, target.max) \/ Below(held, lots, target.min)
        \/ Beyond(held, lots, target.target + DriftAlert)
        \/ Below(held, lots, target.target - DriftAlert)

OffWeight(weight, target) ==
    \/ weight < target.min \/ weight > target.max
    \/ Magnitude(weight - target.target) > DriftAlert

LEMMA AlertsAreOffWeight ==
    ASSUME NEW weights, NEW targets
    PROVE  DriftAlerts(weights, targets) # {} <=>
               \E s \in DOMAIN targets : OffWeight(weights[s], targets[s])
<1> DEFINE kinds(s) == {a \in {"min", "max", "drift"} :
                           \/ a = "min" /\ weights[s] < targets[s].min
                           \/ a = "max" /\ weights[s] > targets[s].max
                           \/ a = "drift" /\ Magnitude(weights[s] - targets[s].target) > DriftAlert}
<1>1. DriftAlerts(weights, targets) = UNION {{<<alert, s>> : alert \in kinds(s)} : s \in DOMAIN targets}
    BY DEF DriftAlerts
<1>2. \A s : kinds(s) # {} <=> OffWeight(weights[s], targets[s])
    BY DEF OffWeight
<1> HIDE DEF kinds
<1>3. ASSUME NEW s \in DOMAIN targets, OffWeight(weights[s], targets[s])
      PROVE  DriftAlerts(weights, targets) # {}
    <2>1. PICK a \in kinds(s) : TRUE
        BY <1>2, <1>3
    <2>2. <<a, s>> \in {<<alert, s>> : alert \in kinds(s)}
        OBVIOUS
    <2>3. QED BY <1>1, <2>2
<1>4. ASSUME NEW alert \in DriftAlerts(weights, targets)
      PROVE  \E s \in DOMAIN targets : OffWeight(weights[s], targets[s])
    <2>1. PICK s \in DOMAIN targets : alert \in {<<a, s>> : a \in kinds(s)}
        BY <1>1
    <2>2. kinds(s) # {}
        BY <2>1
    <2>3. QED BY <1>2, <2>2
<1>5. QED BY <1>3, <1>4

LEMMA MagnitudeIsBeyond ==
    ASSUME NEW x \in Int, NEW t \in Int, NEW a \in Int, a >= 0
    PROVE  Magnitude(x - t) > a <=> x > t + a \/ x < t - a
BY DEF Magnitude

LEMMA OffWeightIsOffTarget ==
    ASSUME NEW lots, NEW f, Weighs(f, MarkedLots(lots)), WorthOf(MarkedLots(lots)) > 0,
           DriftAlert >= 0, NEW targets, IsFine(targets, WorthOf(MarkedLots(lots))),
           NEW s \in DOMAIN targets
    PROVE  OffWeight(Weights(lots, targets)[s], targets[s]) <=> OffTarget(lots, targets[s], s)
<1>1. PICK all \in Nat, held \in Nat :
          /\ all = WorthOf(MarkedLots(lots)) /\ held = WorthOf(InSleeve(lots, s)) /\ all > 0
    <2>1. /\ MarkedLots(lots) \in SUBSET MarkedLots(lots)
          /\ InSleeve(lots, s) \in SUBSET MarkedLots(lots)
        BY DEF InSleeve
    <2>2. WorthOf(MarkedLots(lots)) \in Nat /\ WorthOf(InSleeve(lots, s)) \in Nat
        BY <2>1 DEF Weighs
    <2>3. QED BY <2>2
<1>2. PICK low \in Int, high \in Int, mid \in Int, whole \in Int, drift \in Int :
          /\ low = targets[s].min /\ high = targets[s].max /\ mid = targets[s].target
          /\ whole = One /\ drift = DriftAlert /\ drift >= 0
    BY DEF IsFine
<1>3. PICK step \in Nat : /\ all <= step /\ OnGrid(whole, step)
                          /\ OnGrid(high, step) /\ OnGrid(mid + drift, step)
    BY <1>1, <1>2 DEF IsFine
<1>4. PICK x \in Int, q \in Int : x = held * whole /\ q = x \div all
    BY <1>1
<1>5. Weights(lots, targets)[s] = q
    BY <1>1, <1>2, <1>4, WeightIsShare DEF IsFine
<1>6. OnGrid(x, step)
    <2>1. PICK m \in Int : whole = m * step
        BY <1>3 DEF OnGrid
    <2>2. x = (held * m) * step /\ held * m \in Int
        BY <1>4, <2>1
    <2>3. QED BY <2>2 DEF OnGrid
<1>7. ASSUME NEW bound \in Int, OnGrid(bound, step) PROVE q > bound <=> x > bound * all
    <2>1. PICK m \in Int, n \in Int : x = m * step /\ bound = n * step
        BY <1>6, <1>7 DEF OnGrid
    <2>2. QED BY <1>1, <1>3, <1>4, <2>1, RoundedAbove
<1>8. ASSUME NEW bound \in Int PROVE q < bound <=> x < bound * all
    BY <1>1, <1>4, RoundedBelow
<1>9. Magnitude(q - mid) > drift <=> x > (mid + drift) * all \/ x < (mid - drift) * all
    <2>1. Magnitude(q - mid) > drift <=> q > mid + drift \/ q < mid - drift
        BY <1>2, MagnitudeIsBeyond
    <2>2. mid + drift \in Int /\ mid - drift \in Int
        OBVIOUS
    <2>3. QED BY <1>3, <1>7, <1>8, <2>1, <2>2
<1>10. (q > high <=> x > high * all) /\ (q < low <=> x < low * all)
    BY <1>3, <1>7, <1>8
<1>11. \A share \in Int :
          /\ Beyond(InSleeve(lots, s), lots, share) <=> x > share * all
          /\ Below(InSleeve(lots, s), lots, share) <=> x < share * all
    BY <1>1, <1>2, <1>4 DEF Beyond, Below
<1>12. OffWeight(q, targets[s]) <=> q < low \/ q > high \/ Magnitude(q - mid) > drift
    BY <1>2 DEF OffWeight
<1>13. OffTarget(lots, targets[s], s) <=>
          \/ x > high * all \/ x < low * all
          \/ x > (mid + drift) * all \/ x < (mid - drift) * all
    <2>1. mid + drift \in Int /\ mid - drift \in Int
        OBVIOUS
    <2>2. OffTarget(lots, targets[s], s) <=>
              \/ Beyond(InSleeve(lots, s), lots, high) \/ Below(InSleeve(lots, s), lots, low)
              \/ Beyond(InSleeve(lots, s), lots, mid + drift)
              \/ Below(InSleeve(lots, s), lots, mid - drift)
        BY <1>2 DEF OffTarget
    <2>3. QED BY <1>11, <2>1, <2>2
<1>14. QED BY <1>5, <1>9, <1>10, <1>12, <1>13

LEMMA ConcentrationIsBeyond ==
    ASSUME NEW lots, NEW f, Weighs(f, MarkedLots(lots)), WorthOf(MarkedLots(lots)) > 0, NEW limit
    PROVE  ConcentrationAlerts(lots, limit) # {} <=>
               \E lot \in MarkedLots(lots) : Beyond({lot}, lots, limit)
<1> DEFINE all == WorthOf(MarkedLots(lots))
<1>1. ConcentrationAlerts(lots, limit) =
          {lot.id : lot \in {l \in MarkedLots(lots) : all > 0 /\ l.value * One > limit * all}}
    BY DEF ConcentrationAlerts
<1>2. \A lot \in MarkedLots(lots) : WorthOf({lot}) = lot.value
    <2>1. {} \in SUBSET MarkedLots(lots)
        OBVIOUS
    <2>2. QED BY <2>1, PartsWeighLess
<1>3. \A lot \in MarkedLots(lots) : Beyond({lot}, lots, limit) <=> lot.value * One > limit * all
    BY <1>2 DEF Beyond
<1> HIDE DEF all
<1>4. all > 0
    BY DEF all
<1>5. QED BY <1>1, <1>3, <1>4

LEMMA IlliquidIsBelow ==
    ASSUME NEW lots, IsMarked(lots), WorthOf(MarkedLots(lots)) > 0, NEW floor
    PROVE  Illiquid(lots, floor) <=>
               Below({lot \in MarkedLots(lots) : lot.tier <= LiquidTier}, lots, floor)
<1> DEFINE marked == {i \in DOMAIN lots : lots[i].value # Unpriced}
           liquid == {i \in marked : lots[i].tier <= LiquidTier}
           Worth(of) == TotalOf([i \in of |-> lots[i].value])
<1>1. Illiquid(lots, floor) <=> IF Worth(marked) <= 0 THEN floor > 0
                                ELSE Worth(liquid) * One < floor * Worth(marked)
    BY DEF Illiquid
<1>2. MarkedLots(lots) = {lots[i] : i \in marked}
    BY MarkedAreFew
<1>3. {lot \in MarkedLots(lots) : lot.tier <= LiquidTier} = {lots[i] : i \in liquid}
    BY <1>2
<1>4. Worth(marked) = WorthOf({lots[i] : i \in marked}) /\ Worth(liquid) = WorthOf({lots[i] : i \in liquid})
    <2>1. \A of \in SUBSET marked : of \in SUBSET DOMAIN lots /\ \A i \in of : lots[i].value # Unpriced
        OBVIOUS
    <2>2. marked \in SUBSET marked /\ liquid \in SUBSET marked
        OBVIOUS
    <2> HIDE DEF marked, liquid
    <2>3. QED BY <2>1, <2>2, PlacesWeigh
<1>5. PICK all \in Nat : all = WorthOf(MarkedLots(lots)) /\ all > 0
    <2>1. PICK f : Weighs(f, MarkedLots(lots))
        BY MarkedAreFew, WorthsAreSums
    <2>2. MarkedLots(lots) \in SUBSET MarkedLots(lots)
        OBVIOUS
    <2>3. WorthOf(MarkedLots(lots)) \in Nat
        BY <2>1, <2>2 DEF Weighs
    <2>4. QED BY <2>3
<1>6. ~ (Worth(marked) <= 0)
    BY <1>2, <1>4, <1>5
<1>7. Worth(marked) = all
    BY <1>2, <1>4, <1>5
<1>8. PICK some : some = Worth(liquid)
    OBVIOUS
<1>9. some = WorthOf({lot \in MarkedLots(lots) : lot.tier <= LiquidTier})
    BY <1>3, <1>4, <1>8
<1>10. Illiquid(lots, floor) <=> some * One < floor * all
    BY <1>1, <1>6, <1>7, <1>8
<1>11. QED BY <1>5, <1>9, <1>10 DEF Below

(* The check is quiet exactly when the book is inside its policy: no alert *)
(* on drift, liquidity or concentration is raised for a book that is in    *)
(* policy, and none is missing for one that is not (policy.check).         *)
THEOREM PolicyCheckIsExact ==
    ASSUME NEW lots, IsMarked(lots), WorthOf(MarkedLots(lots)) > 0, DriftAlert >= 0,
           NEW policy, IsFine(policy.targets, WorthOf(MarkedLots(lots)))
    PROVE  PolicyCheck(lots, policy).alerts # {} \/ PolicyCheck(lots, policy).concentration # {}
               <=> OutOfPolicy(lots, policy)
<1> DEFINE M == MarkedLots(lots)
           weights == Weights(lots, policy.targets)
           drift == DriftAlerts(weights, policy.targets)
           low == policy.floor # NoLimit /\ Illiquid(lots, policy.floor)
<1>1. PICK f : Weighs(f, M)
    BY MarkedAreFew, WorthsAreSums
<1>2. drift # {} <=> \E s \in DOMAIN policy.targets : OffTarget(lots, policy.targets[s], s)
    <2>1. drift # {} <=> \E s \in DOMAIN policy.targets : OffWeight(weights[s], policy.targets[s])
        BY AlertsAreOffWeight
    <2>2. ASSUME NEW s \in DOMAIN policy.targets
          PROVE  OffWeight(weights[s], policy.targets[s]) <=> OffTarget(lots, policy.targets[s], s)
        BY <1>1, OffWeightIsOffTarget
    <2> HIDE DEF weights, drift
    <2>3. QED BY <2>1, <2>2
<1>3. low <=> /\ policy.floor # NoLimit
              /\ Below({lot \in M : lot.tier <= LiquidTier}, lots, policy.floor)
    BY IlliquidIsBelow
<1>4. PolicyCheck(lots, policy).alerts = drift \cup IF low THEN {<<"liquidity", "book">>} ELSE {}
    BY Zenon DEF PolicyCheck
<1>5. PolicyCheck(lots, policy).concentration = ConcentrationAlerts(lots, policy.limit)
    BY DEF PolicyCheck
<1>6. ConcentrationAlerts(lots, policy.limit) # {} <=> \E lot \in M : Beyond({lot}, lots, policy.limit)
    BY <1>1, ConcentrationIsBeyond
<1>7. OutOfPolicy(lots, policy) <=>
          \/ \E s \in DOMAIN policy.targets : OffTarget(lots, policy.targets[s], s)
          \/ \E lot \in M : Beyond({lot}, lots, policy.limit)
          \/ /\ policy.floor # NoLimit
             /\ Below({lot \in M : lot.tier <= LiquidTier}, lots, policy.floor)
    BY Zenon DEF OutOfPolicy, OffTarget, InSleeve
<1>8. PolicyCheck(lots, policy).alerts # {} <=> drift # {} \/ low
    <2> HIDE DEF drift, low
    <2>1. QED BY <1>4
<1> HIDE DEF drift, low, M
<1>9. QED BY <1>2, <1>3, <1>5, <1>6, <1>7, <1>8

(* The axioms hold a breach exactly when the engine, the concentration or  *)
(* the policy check has one, and the headline says so.                     *)
LEMMA HeadlineOfAxioms ==
    ASSUME NEW risk, risk[1] # "breach", NEW check, NEW binding
    PROVE  Headline(Axioms(risk, check, binding)) = "breach" <=>
               "breach" \in {risk[2], risk[4]} \/ check.alerts # {} \/ check.concentration # {}
<1> DEFINE third == IF check.concentration # {} THEN "breach" ELSE "pass"
           sixth == IF Cardinality(binding) > BindingWarn THEN "warn" ELSE "pass"
           seventh == Axiom7(check)
           axioms == <<risk[1], risk[2], third, risk[4], "not_computed", sixth, seventh>>
           said == ToSet(axioms)
<1>1. Axioms(risk, check, binding) = axioms
    BY DEF Axioms
<1>2. said = {risk[1], risk[2], third, risk[4], "not_computed", sixth, seventh}
    <2> HIDE DEF third, sixth, seventh
    <2>1. DOMAIN axioms = 1..7
        OBVIOUS
    <2>2. 1..7 = {1, 2, 3, 4, 5, 6, 7}
        OBVIOUS
    <2>3. QED BY <2>1, <2>2 DEF ToSet
<1>3. sixth # "breach" /\ (third = "breach" <=> check.concentration # {})
    OBVIOUS
<1>4. seventh = "breach" <=> check.alerts # {}
    BY DEF Axiom7
<1>5. "breach" \in said <=> "breach" \in {risk[2], risk[4]} \/ check.alerts # {} \/ check.concentration # {}
    <2> HIDE DEF said, third, sixth, seventh
    <2>1. QED BY <1>2, <1>3, <1>4
<1>6. Headline(axioms) = "breach" <=> "breach" \in said
    <2>1. Headline(axioms) =
              CASE "breach" \in said                            -> "breach"
                [] said \cap {"breach", "warn"} = {"warn"}       -> "warn"
                [] said = {"not_computed", "pass"}               -> "measured"
                [] OTHER                                         -> "within tolerance"
        BY Zenon DEF Headline
    <2> HIDE DEF said, axioms
    <2>2. CASE "breach" \in said
        <3>1. said \cap {"breach", "warn"} # {"warn"} /\ said # {"not_computed", "pass"}
            BY <2>2
        <3>2. QED BY <2>1, <2>2, <3>1
    <2>3. CASE "breach" \notin said
        <3>1. CASE said \cap {"breach", "warn"} = {"warn"}
            <4>1. "warn" \in said
                BY <3>1
            <4>2. said # {"not_computed", "pass"}
                BY <4>1
            <4>3. QED BY <2>1, <2>3, <3>1, <4>2
        <3>2. CASE said \cap {"breach", "warn"} # {"warn"}
            BY <2>1, <2>3, <3>2
        <3>3. QED BY <3>1, <3>2
    <2>4. QED BY <2>2, <2>3
<1>7. QED BY <1>1, <1>5, <1>6

-----------------------------------------------------------------------------
(* Which requests for advice are answered.                                 *)

LEMMA NoFunctionIs ==
    ASSUME NEW v, IsNoFunction(v), NEW D, NEW R, NEW r \in [D -> R] PROVE v # r
BY Zenon DEF IsNoFunction

LEMMA NoRecordIs ==
    ASSUME NEW v, IsNoFunction(v)
    PROVE  /\ \A a, b, c : v # [axioms |-> a, headline |-> b, rebalance |-> c]
           /\ \A a, b, c : v # [trades |-> a, tax |-> b, binding |-> c]
           /\ \A a, b, c, d, e, f : v # [current |-> a, target |-> b, turnover |-> c,
                                         cut |-> d, unbounded |-> e, binding |-> f]
<1>1. ASSUME NEW a, NEW b, NEW c PROVE v # [axioms |-> a, headline |-> b, rebalance |-> c]
    <2> DEFINE r == [axioms |-> a, headline |-> b, rebalance |-> c]
    <2>1. r \in [{"axioms", "headline", "rebalance"} -> {a, b, c}]
        OBVIOUS
    <2> HIDE DEF r
    <2>2. v # r
        BY <2>1, NoFunctionIs
    <2>3. QED BY <2>2 DEF r
<1>2. ASSUME NEW a, NEW b, NEW c PROVE v # [trades |-> a, tax |-> b, binding |-> c]
    <2> DEFINE r == [trades |-> a, tax |-> b, binding |-> c]
    <2>1. r \in [{"trades", "tax", "binding"} -> {a, b, c}]
        OBVIOUS
    <2> HIDE DEF r
    <2>2. v # r
        BY <2>1, NoFunctionIs
    <2>3. QED BY <2>2 DEF r
<1>3. ASSUME NEW a, NEW b, NEW c, NEW d, NEW e, NEW f
      PROVE  v # [current |-> a, target |-> b, turnover |-> c,
                  cut |-> d, unbounded |-> e, binding |-> f]
    <2> DEFINE r == [current |-> a, target |-> b, turnover |-> c,
                     cut |-> d, unbounded |-> e, binding |-> f]
    <2>1. r \in [{"current", "target", "turnover", "cut", "unbounded", "binding"} ->
                     {a, b, c, d, e, f}]
        OBVIOUS
    <2> HIDE DEF r
    <2>2. v # r
        BY <2>1, NoFunctionIs
    <2>3. QED BY <2>2 DEF r
<1>4. QED BY <1>1, <1>2, <1>3

(* A book has no worth exactly when none of its lots has.                  *)
LEMMA WorthIsOfLots ==
    ASSUME NEW M, NEW f, Weighs(f, M)
    PROVE  WorthOf(M) > 0 <=> \E lot \in M : lot.value > 0
<1> DEFINE w == [lot \in M |-> lot.value]
<1>1. Adds(f, w, M) /\ IsFiniteSet(M) /\ M \in SUBSET M
    BY DEF Weighs
<1>2. \A x \in M : w[x] = x.value /\ x.value \in Nat
    BY DEF Weighs
<1>3. WorthOf(M) = f[M] /\ f[M] \in Nat
    BY <1>1 DEF Weighs
<1> HIDE DEF w
<1>4. ASSUME NEW lot \in M, lot.value > 0 PROVE WorthOf(M) > 0
    <2>1. \A x \in M : w[x] \in Int /\ w[x] >= 0
        BY <1>2
    <2>2. f[M] >= w[lot]
        BY <1>1, <2>1, AtLeastEach
    <2>3. QED BY <1>2, <1>3, <1>4, <2>2
<1>5. ASSUME ~ \E lot \in M : lot.value > 0 PROVE ~ (WorthOf(M) > 0)
    <2>1. \A x \in M : w[x] = 0
        BY <1>2, <1>5
    <2>2. f[M] = 0
        BY <1>1, <2>1, NothingAdds
    <2>3. QED BY <1>3, <2>2
<1>6. QED BY <1>4, <1>5

(* The legs of the advice raise for a book of no value, for bounds that    *)
(* cannot be met, and for a lot that cannot be attributed.                 *)
LEMMA SolverRefuses ==
    ASSUME NEW lots, IsMarked(lots), IsNoFunction(Refused), NEW group, NEW policy, NEW today
    PROVE  TaxAwareOptimizer(lots, group, policy, today) = Refused
               <=> ~ (WorthOf(MarkedLots(lots)) > 0)
<1> DEFINE open == Open(lots, group, policy, today)
           trades == Ranked(lots, open, LargestLossFirst(lots, open))
           harvest == [trades |-> trades, tax |-> TaxDelta(trades, today),
                       binding |-> Binding(lots, group, policy, today)]
<1>1. TaxAwareOptimizer(lots, group, policy, today) =
          IF TotalValue(lots) <= 0 THEN Refused ELSE harvest
    BY Zenon DEF TaxAwareOptimizer
<1>2. Refused # harvest
    BY NoRecordIs
<1>3. PICK worth \in Nat : worth = WorthOf(MarkedLots(lots)) /\ worth = TotalValue(lots)
    <2>1. PICK f : Weighs(f, MarkedLots(lots))
        BY MarkedAreFew, WorthsAreSums
    <2>2. MarkedLots(lots) \in SUBSET MarkedLots(lots)
        OBVIOUS
    <2>3. WorthOf(MarkedLots(lots)) \in Nat
        BY <2>1, <2>2 DEF Weighs
    <2>4. QED BY <2>3, ValueIsWorth
<1>4. worth <= 0 <=> ~ (worth > 0)
    OBVIOUS
<1> HIDE DEF harvest
<1>5. QED BY <1>1, <1>2, <1>3, <1>4

LEMMA RebalanceRaises ==
    ASSUME NEW worth, NEW targets, NEW optimum, IsNoFunction(Infeasible),
           BoundsMeet(targets, DOMAIN worth \cup DOMAIN targets) => TotalOf(optimum) = One
    PROVE  RunMvRebalance(worth, targets, NoBudget, optimum) = Infeasible
               <=> TotalOf(worth) <= 0 \/ ~ BoundsMeet(targets, DOMAIN worth \cup DOMAIN targets)
<1> DEFINE universe == DOMAIN worth \cup DOMAIN targets
           current == CurrentWeights(worth, universe)
           target == Advised(current, optimum, targets, NoBudget)
           answer == [current |-> current, target |-> target, turnover |-> Turnover(current, target),
                      cut |-> NoBudget # NoBudget /\ Turnover(current, optimum) > NoBudget,
                      unbounded |-> universe \ DOMAIN targets,
                      binding |-> {s \in DOMAIN targets :
                                      target[s] \in {targets[s].min, targets[s].max}}]
<1>1. RunMvRebalance(worth, targets, NoBudget, optimum) =
          IF TotalOf(worth) <= 0 \/ ~ BoundsMeet(targets, universe) THEN Infeasible
          ELSE IF TotalOf(target) # One THEN Infeasible ELSE answer
    BY Zenon DEF RunMvRebalance
<1>2. target = optimum
    BY DEF Advised
<1>3. Infeasible # answer
    BY NoRecordIs
<1> HIDE DEF answer, target, universe
<1>4. BoundsMeet(targets, universe) => TotalOf(target) = One
    BY <1>2 DEF universe
<1>5. QED BY <1>1, <1>3, <1>4 DEF universe

(* Values that stand for a call that raised are no answers.                *)
RaisedApart ==
    /\ IsNoFunction(Failed) /\ IsNoFunction(Refused)
    /\ IsNoFunction(Infeasible) /\ IsNoFunction(NotAttributed)

SleevesOf(lots, policy) == DOMAIN policy.targets \cup {lot.sleeve : lot \in MarkedLots(lots)}

(* No budget cuts the rebalance short, and the optimum sums to the whole   *)
(* when any point of the policy does.                                      *)
HasOptimum(lots, policy, optimum) ==
    /\ policy.budget = NoBudget
    /\ BoundsMeet(policy.targets, SleevesOf(lots, policy)) => TotalOf(optimum) = One

(* A request is answered exactly when it can be, with the headline over    *)
(* its axioms (pm.advise).                                                 *)
THEOREM AdviceIsAnswered ==
    ASSUME NEW lots, IsMarked(lots), NEW today \in Int, IsRead(lots, today), RaisedApart,
           NEW funds, NEW policy, NEW risk, NEW optimum, NEW group,
           policy # NoPolicy => HasOptimum(lots, policy, optimum)
    PROVE  LET advice == Advise(lots, funds, policy, risk, optimum, group, today)
           IN  /\ advice = Failed <=> ~ Advisable(lots, policy, today)
               /\ Advisable(lots, policy, today) =>
                     \E binding :
                        advice.headline = Headline(Axioms(risk, PolicyCheck(lots, policy), binding))
<1> DEFINE advice == Advise(lots, funds, policy, risk, optimum, group, today)
           check == PolicyCheck(lots, policy)
           harvest == TaxAwareOptimizer(lots, group, policy.restricted, today)
           rebalance == RunMvRebalance(WorthBySleeve(lots), policy.targets, policy.budget, optimum)
           binding == BindingConstraints(harvest, lots, policy.targets)
           axioms == Axioms(risk, check, binding)
           answer == [axioms |-> axioms, headline |-> Headline(axioms), rebalance |-> rebalance]
           worthy == WorthOf(MarkedLots(lots)) > 0
           meets == BoundsMeet(policy.targets, SleevesOf(lots, policy))
<1>1. advice = IF ~ HasWorkingSet(lots, funds, policy) THEN Failed
               ELSE IF \/ harvest = Refused \/ rebalance = Infeasible
                       \/ Attribution(lots, today) = NotAttributed
                    THEN Failed ELSE answer
    BY Zenon DEF Advise
<1>2. Failed # answer
    BY NoRecordIs DEF RaisedApart
<1>3. harvest = Refused <=> ~ worthy
    BY SolverRefuses DEF RaisedApart
<1>4. Attribution(lots, today) = NotAttributed <=> \E lot \in ToSet(lots) : Unattributable(lot, today)
    <2>1. IsAttributable(lots, today) <=> ~ \E lot \in ToSet(lots) : Unattributable(lot, today)
        BY DEF IsAttributable, ToSet
    <2>2. QED BY <2>1, AttributionRaises DEF RaisedApart
<1>5. PICK f : Weighs(f, MarkedLots(lots))
    BY MarkedAreFew, WorthsAreSums
<1>6. ASSUME policy # NoPolicy PROVE rebalance = Infeasible <=> ~ worthy \/ ~ meets
    <2> DEFINE worth == WorthBySleeve(lots)
    <2>1. TotalOf(worth) = WorthOf(MarkedLots(lots))
          /\ DOMAIN worth \cup DOMAIN policy.targets = SleevesOf(lots, policy)
        <3>1. TotalOf(worth) = WorthOf(MarkedLots(lots))
              /\ DOMAIN worth = {lot.sleeve : lot \in MarkedLots(lots)}
            BY <1>5, SleevesAddUp
        <3> HIDE DEF worth
        <3>2. QED BY <3>1 DEF SleevesOf
    <2>2. WorthOf(MarkedLots(lots)) \in Nat
        <3>1. MarkedLots(lots) \in SUBSET MarkedLots(lots)
            OBVIOUS
        <3>2. QED BY <1>5, <3>1 DEF Weighs
    <2>3. meets => TotalOf(optimum) = One
        BY <1>6 DEF HasOptimum
    <2>4. policy.budget = NoBudget
        BY <1>6 DEF HasOptimum
    <2>5. rebalance = RunMvRebalance(worth, policy.targets, NoBudget, optimum)
        BY <2>4
    <2>6. IsNoFunction(Infeasible)
        BY DEF RaisedApart
    <2> HIDE DEF worth, rebalance
    <2>7. BoundsMeet(policy.targets, DOMAIN worth \cup DOMAIN policy.targets) => TotalOf(optimum) = One
        BY <2>1, <2>3
    <2>8. rebalance = Infeasible
              <=> TotalOf(worth) <= 0
                  \/ ~ BoundsMeet(policy.targets, DOMAIN worth \cup DOMAIN policy.targets)
        BY <2>5, <2>6, <2>7, RebalanceRaises
    <2>9. TotalOf(worth) <= 0 <=> ~ worthy
        BY <2>1, <2>2
    <2>10. QED BY <2>1, <2>8, <2>9
<1>7. worthy => \E lot \in MarkedLots(lots) : lot.value > 0
    BY <1>5, WorthIsOfLots
<1>8. Advisable(lots, policy, today) <=>
          /\ policy # NoPolicy /\ worthy /\ meets
          /\ ~ \E lot \in ToSet(lots) : Unattributable(lot, today)
    BY Zenon DEF Advisable, SleevesOf
<1>9. HasWorkingSet(lots, funds, policy) <=>
          /\ policy # NoPolicy
          /\ (\E lot \in MarkedLots(lots) : lot.value > 0) \/ (\E fund \in funds : fund.nav > 0)
    BY DEF HasWorkingSet
<1>10. answer.headline = Headline(axioms)
    OBVIOUS
<1> HIDE DEF advice, answer, harvest, rebalance, worthy, meets, axioms, binding, check
<1>11. advice = Failed <=> ~ Advisable(lots, policy, today)
    BY <1>1, <1>2, <1>3, <1>4, <1>6, <1>7, <1>8, <1>9
<1>12. Advisable(lots, policy, today) => advice = answer
    BY <1>1, <1>3, <1>4, <1>6, <1>7, <1>8, <1>9
<1>13. Advisable(lots, policy, today) => advice.headline = Headline(Axioms(risk, check, binding))
    BY <1>10, <1>12 DEF axioms
<1>14. QED BY <1>11, <1>13 DEF advice, check

(* The headline is a breach exactly when the risk engine says so or the    *)
(* book is out of its policy, for a book of any size.                      *)
THEOREM HeadlinesAreHonest ==
    ASSUME NEW lots, IsMarked(lots), NEW today \in Int, IsRead(lots, today), RaisedApart,
           DriftAlert >= 0, NEW funds, NEW policy, NEW risk, risk[1] # "breach",
           NEW optimum, NEW group,
           policy # NoPolicy => /\ HasOptimum(lots, policy, optimum)
                                /\ IsFine(policy.targets, WorthOf(MarkedLots(lots)))
    PROVE  LET advice == Advise(lots, funds, policy, risk, optimum, group, today)
           IN  /\ advice = Failed <=> ~ Advisable(lots, policy, today)
               /\ advice # Failed => Honest(advice, lots, policy, risk)
<1> DEFINE advice == Advise(lots, funds, policy, risk, optimum, group, today)
<1>1. /\ advice = Failed <=> ~ Advisable(lots, policy, today)
      /\ Advisable(lots, policy, today) =>
            \E binding :
               advice.headline = Headline(Axioms(risk, PolicyCheck(lots, policy), binding))
    BY AdviceIsAnswered
<1> HIDE DEF advice
<1>2. ASSUME advice # Failed PROVE Honest(advice, lots, policy, risk)
    <2>1. policy # NoPolicy /\ WorthOf(MarkedLots(lots)) > 0
        BY <1>1, <1>2 DEF Advisable
    <2>2. PICK binding : advice.headline = Headline(Axioms(risk, PolicyCheck(lots, policy), binding))
        BY <1>1, <1>2
    <2>3. PolicyCheck(lots, policy).alerts # {} \/ PolicyCheck(lots, policy).concentration # {}
              <=> OutOfPolicy(lots, policy)
        BY <2>1, PolicyCheckIsExact
    <2> DEFINE check == PolicyCheck(lots, policy)
    <2> HIDE DEF check
    <2>4. Headline(Axioms(risk, check, binding)) = "breach" <=>
              "breach" \in {risk[2], risk[4]} \/ check.alerts # {} \/ check.concentration # {}
        BY HeadlineOfAxioms
    <2>5. QED BY <2>2, <2>3, <2>4 DEF Honest, check
<1>3. QED BY <1>1, <1>2 DEF advice

-----------------------------------------------------------------------------
(* Messages: any context, any message, whatever raises.                    *)

IsContext(c) == c = [session |-> c.session, correlation |-> c.correlation, failing |-> c.failing]

(* What a call into a plane says once its operation's note is added.       *)
PlainAnswer(context, op) ==
    [reply |-> IF op \in context.failing THEN "error" ELSE "result",
     notes |-> IF op \in context.failing THEN <<Stamp(op, context)>> ELSE <<>>,
     ran |-> <<Stamp(op, context)>>]

LEMMA LegsAreEvaluations ==
    /\ Len(Legs) = 5 /\ DOMAIN Legs = 1..5
    /\ \A n \in 1..5 : Legs[n] \in Registered /\ Legs[n] \notin Stored \cup {Scoring, "pm.advise"}
BY DEF Legs, Registered, Evaluations, Stored, Queries, Commands, Scoring

LEMMA PlainIsNoted ==
    ASSUME NEW context, NEW op \in Registered, op \notin Stored,
           NEW message, message.op = op, message.typed
    PROVE  Dispatch(context, message, HandlePlain(context, op)) = PlainAnswer(context, op)
BY DEF Dispatch, HandlePlain, Run, Noted, PlainAnswer

LEMMA LegIsAsked ==
    ASSUME NEW context, NEW n \in 1..5
    PROVE  AskLeg(context, Legs[n]) = PlainAnswer(context, Legs[n])
<1> DEFINE message == [op |-> Legs[n], typed |-> TRUE]
<1>1. message.op = Legs[n] /\ message.typed
    OBVIOUS
<1>2. Legs[n] \in Registered /\ Legs[n] \notin Stored
    BY LegsAreEvaluations
<1>3. AskLeg(context, Legs[n]) = Dispatch(context, message, HandlePlain(context, Legs[n]))
    BY DEF AskLeg
<1> HIDE DEF message
<1>4. QED BY <1>1, <1>2, <1>3, PlainIsNoted

(* After n legs: all were asked and none raised, or the last one asked did *)
(* and left its note.                                                      *)
AskedSoFar(answer, context, n) ==
    \/ /\ answer = [reply |-> "result", notes |-> <<>>,
                    ran |-> [k \in 1..n |-> Stamp(Legs[k], context)]]
       /\ \A k \in 1..n : Legs[k] \notin context.failing
    \/ \E m \in 1..n :
          /\ answer = [reply |-> "error", notes |-> <<Stamp(Legs[m], context)>>,
                       ran |-> [k \in 1..m |-> Stamp(Legs[k], context)]]
          /\ Legs[m] \in context.failing
          /\ \A k \in 1..(m - 1) : Legs[k] \notin context.failing

LEMMA OneMoreLeg ==
    ASSUME NEW context, NEW n \in 0..4, NEW answer, AskedSoFar(answer, context, n)
    PROVE  AskedSoFar(Then(answer, AskLeg(context, Legs[n + 1])), context, n + 1)
<1> DEFINE next == AskLeg(context, Legs[n + 1])
           stamps == [k \in 1..n |-> Stamp(Legs[k], context)]
           more == [k \in 1..(n + 1) |-> Stamp(Legs[k], context)]
<1>1. next = PlainAnswer(context, Legs[n + 1])
    <2>1. n + 1 \in 1..5
        OBVIOUS
    <2>2. QED BY <2>1, LegIsAsked
<1>2. CASE answer.reply # "result"
    <2>1. PICK m \in 1..n :
              /\ answer = [reply |-> "error", notes |-> <<Stamp(Legs[m], context)>>,
                           ran |-> [k \in 1..m |-> Stamp(Legs[k], context)]]
              /\ Legs[m] \in context.failing
              /\ \A k \in 1..(m - 1) : Legs[k] \notin context.failing
        BY <1>2 DEF AskedSoFar
    <2>2. m \in 1..(n + 1)
        OBVIOUS
    <2>3. Then(answer, next) = answer
        BY <1>2 DEF Then
    <2>4. QED BY <2>1, <2>2, <2>3 DEF AskedSoFar
<1>3. CASE answer.reply = "result"
    <2>1. /\ answer = [reply |-> "result", notes |-> <<>>, ran |-> stamps]
          /\ \A k \in 1..n : Legs[k] \notin context.failing
        BY <1>3 DEF AskedSoFar
    <2>2. stamps \o <<Stamp(Legs[n + 1], context)>> = more
        OBVIOUS
    <2>3. Then(answer, next) = [next EXCEPT !.ran = stamps \o next.ran]
        BY <2>1 DEF Then
    <2>4. Then(answer, next) =
              [reply |-> IF Legs[n + 1] \in context.failing THEN "error" ELSE "result",
               notes |-> IF Legs[n + 1] \in context.failing
                         THEN <<Stamp(Legs[n + 1], context)>> ELSE <<>>,
               ran |-> more]
        <3> HIDE DEF stamps, more, next
        <3>1. QED BY <1>1, <2>2, <2>3 DEF PlainAnswer
    <2>5. CASE Legs[n + 1] \in context.failing
        <3>1. n + 1 \in 1..(n + 1) /\ (n + 1) - 1 = n
            OBVIOUS
        <3>2. QED BY <2>1, <2>4, <2>5, <3>1 DEF AskedSoFar
    <2>6. CASE Legs[n + 1] \notin context.failing
        <3>1. \A k \in 1..(n + 1) : k \in 1..n \/ k = n + 1
            OBVIOUS
        <3>2. QED BY <2>1, <2>4, <2>6, <3>1 DEF AskedSoFar
    <2>7. QED BY <2>5, <2>6
<1>4. QED BY <1>2, <1>3

LEMMA LegsAreAsked ==
    ASSUME NEW context
    PROVE  \E answer : /\ AskedSoFar(answer, context, 5)
                       /\ PmAdvise(context) = Then(answer, Run(Scoring, context))
<1> DEFINE S == {Stamp(op, context) : op \in Registered}
           V == [reply : {"result", "error"}, notes : Seq(S), ran : Seq(S)]
           F == [i \in 1..5 |-> [v \in V |-> Then(v, AskLeg(context, Legs[i]))]]
<1>1. ASSUME NEW i \in 1..5, NEW v \in V PROVE Then(v, AskLeg(context, Legs[i])) \in V
    <2>1. Stamp(Legs[i], context) \in S
        BY LegsAreEvaluations
    <2>2. AskLeg(context, Legs[i]) \in V
        <3>1. AskLeg(context, Legs[i]) = PlainAnswer(context, Legs[i])
            BY LegIsAsked
        <3>2. <<Stamp(Legs[i], context)>> \in Seq(S) /\ <<>> \in Seq(S)
            <4> HIDE DEF S
            <4>1. QED BY <2>1
        <3> HIDE DEF S
        <3>3. QED BY <3>1, <3>2 DEF PlainAnswer
    <2> DEFINE next == AskLeg(context, Legs[i])
    <2>3. v.ran \o next.ran \in Seq(S)
        BY <2>2
    <2> HIDE DEF next, S
    <2>4. [next EXCEPT !.ran = v.ran \o @] \in V
        BY <2>2, <2>3 DEF next
    <2>5. QED BY <2>4 DEF Then, next
<1>2. Unasked \in V
    BY DEF Unasked
<1>3. IsTurn(F, 5, V)
    BY <1>1 DEF IsTurn
<1>4. \A i \in 1..5, v \in V : F[i][v] = Then(v, AskLeg(context, Legs[i]))
    OBVIOUS
<1> HIDE DEF V, F
<1>5. PICK asked \in [0..5 -> V] : IsLoop(asked, 5, Unasked, F)
    BY <1>2, <1>3, LoopExists
<1>6. \A i \in 0..5 : i # 0 => F[i][asked[i - 1]] = Then(asked[i - 1], AskLeg(context, Legs[i]))
    BY <1>4
<1>7. asked = [n \in 0..5 |-> IF n = 0 THEN Unasked
                              ELSE Then(asked[n - 1], AskLeg(context, Legs[n]))]
    BY <1>5, <1>6 DEF IsLoop
<1>8. \E g : /\ g = [n \in 0..5 |-> IF n = 0 THEN Unasked
                                    ELSE Then(g[n - 1], AskLeg(context, Legs[n]))]
             /\ PmAdvise(context) = Then(g[5], Run(Scoring, context))
    <2>1. \E g : g = [n \in 0..5 |-> IF n = 0 THEN Unasked
                                     ELSE Then(g[n - 1], AskLeg(context, Legs[n]))]
        BY <1>7
    <2>2. QED BY <2>1, LegsAreEvaluations, Zenon DEF PmAdvise
<1>9. PICK g : /\ g = [n \in 0..5 |-> IF n = 0 THEN Unasked
                                      ELSE Then(g[n - 1], AskLeg(context, Legs[n]))]
               /\ PmAdvise(context) = Then(g[5], Run(Scoring, context))
    BY <1>8
<1>10. g[0] = Unasked /\ \A n \in 0..4 : g[n + 1] = Then(g[n], AskLeg(context, Legs[n + 1]))
    BY <1>9
<1>11. AskedSoFar(g[0], context, 0)
    BY <1>10 DEF AskedSoFar, Unasked
<1>12. \A n \in 0..4 : AskedSoFar(g[n], context, n) => AskedSoFar(g[n + 1], context, n + 1)
    BY <1>10, OneMoreLeg
<1>13. AskedSoFar(g[1], context, 1)
    BY <1>11, <1>12
<1>14. AskedSoFar(g[2], context, 2)
    BY <1>12, <1>13
<1>15. AskedSoFar(g[3], context, 3)
    BY <1>12, <1>14
<1>16. AskedSoFar(g[4], context, 4)
    BY <1>12, <1>15
<1>17. AskedSoFar(g[5], context, 5)
    BY <1>12, <1>16
<1>18. QED BY <1>9, <1>17

(* What pm.advise does depends on the workflow and on what raises alone.   *)
LEMMA AskedAlike ==
    ASSUME NEW c, NEW d, c.correlation = d.correlation, c.failing = d.failing
    PROVE  PmAdvise(c) = PmAdvise(d)
<1>1. \A op : Stamp(op, c) = Stamp(op, d)
    BY DEF Stamp
<1>2. PICK a : AskedSoFar(a, c, 5) /\ PmAdvise(c) = Then(a, Run(Scoring, c))
    BY LegsAreAsked
<1>3. PICK b : AskedSoFar(b, d, 5) /\ PmAdvise(d) = Then(b, Run(Scoring, d))
    BY LegsAreAsked
<1>4. AskedSoFar(b, c, 5)
    BY <1>1, <1>3 DEF AskedSoFar
<1>5. a = b
    <2>1. CASE \A k \in 1..5 : Legs[k] \notin c.failing
        BY <1>2, <1>4, <2>1 DEF AskedSoFar
    <2>2. CASE ~ \A k \in 1..5 : Legs[k] \notin c.failing
        <3>1. PICK m \in 1..5 :
                  /\ a = [reply |-> "error", notes |-> <<Stamp(Legs[m], c)>>,
                          ran |-> [k \in 1..m |-> Stamp(Legs[k], c)]]
                  /\ Legs[m] \in c.failing
                  /\ \A k \in 1..(m - 1) : Legs[k] \notin c.failing
            BY <1>2, <2>2 DEF AskedSoFar
        <3>2. PICK l \in 1..5 :
                  /\ b = [reply |-> "error", notes |-> <<Stamp(Legs[l], c)>>,
                          ran |-> [k \in 1..l |-> Stamp(Legs[k], c)]]
                  /\ Legs[l] \in c.failing
                  /\ \A k \in 1..(l - 1) : Legs[k] \notin c.failing
            BY <1>4, <2>2 DEF AskedSoFar
        <3>3. ~ (m < l) /\ ~ (l < m)
            BY <3>1, <3>2
        <3>4. m = l
            BY <3>3
        <3>5. QED BY <3>1, <3>2, <3>4
    <2>3. QED BY <2>1, <2>2
<1>6. Run(Scoring, c) = Run(Scoring, d)
    BY <1>1 DEF Run
<1>7. QED BY <1>2, <1>3, <1>5, <1>6

(* What pm.advise answers: all it asks and the score, or what it asked up  *)
(* to the leg that raised, or all of them and a score that raised.         *)
PmAnswer(answer, context) ==
    LET stamps(m) == [k \in 1..m |-> Stamp(Legs[k], context)]
    IN  \/ \E m \in 1..5 :
              /\ answer = [reply |-> "error", notes |-> <<Stamp(Legs[m], context)>>,
                           ran |-> stamps(m)]
              /\ Legs[m] \in context.failing
              /\ \A k \in 1..(m - 1) : Legs[k] \notin context.failing
        \/ /\ answer = [reply |-> IF Scoring \in context.failing THEN "error" ELSE "result",
                        notes |-> <<>>, ran |-> stamps(5) \o <<Stamp(Scoring, context)>>]
           /\ \A k \in 1..5 : Legs[k] \notin context.failing

LEMMA PmAnswers == ASSUME NEW context PROVE PmAnswer(PmAdvise(context), context)
<1>1. PICK a : AskedSoFar(a, context, 5) /\ PmAdvise(context) = Then(a, Run(Scoring, context))
    BY LegsAreAsked
<1> DEFINE stamps == [k \in 1..5 |-> Stamp(Legs[k], context)]
<1>2. CASE a.reply # "result"
    <2>1. PmAdvise(context) = a
        BY <1>1, <1>2 DEF Then
    <2>2. QED BY <1>1, <1>2, <2>1 DEF AskedSoFar, PmAnswer
<1>3. CASE a.reply = "result"
    <2>1. /\ a = [reply |-> "result", notes |-> <<>>, ran |-> stamps]
          /\ \A k \in 1..5 : Legs[k] \notin context.failing
        BY <1>1, <1>3 DEF AskedSoFar
    <2>2. PmAdvise(context) = [Run(Scoring, context) EXCEPT !.ran = stamps \o @]
        BY <1>1, <2>1 DEF Then
    <2>3. PmAdvise(context) =
              [reply |-> IF Scoring \in context.failing THEN "error" ELSE "result",
               notes |-> <<>>, ran |-> stamps \o <<Stamp(Scoring, context)>>]
        <3> HIDE DEF stamps
        <3>1. QED BY <2>2 DEF Run
    <2>4. QED BY <2>1, <2>3 DEF PmAnswer
<1>4. QED BY <1>2, <1>3

(* An answer to which asking o[1] to o[n] led, of which only the last may  *)
(* have raised.                                                            *)
LedTo(answer, o, n, context, message) ==
    /\ answer.ran = [k \in 1..n |-> [op |-> o[k], correlation |-> message.correlation]]
    /\ \A k \in 1..n : o[k] \in context.failing => k = n
    /\ answer.reply = "error" <=> n # 0 /\ o[n] \in context.failing
    /\ \A stamp \in ToSet(answer.notes) : stamp.correlation = message.correlation

LEMMA LedToTells ==
    ASSUME NEW answer, NEW o, NEW n \in 0..6, NEW context, NEW message,
           LedTo(answer, o, n, context, message)
    PROVE  /\ \A stamp \in ToSet(answer.notes) \cup ToSet(answer.ran) :
                 stamp.correlation = message.correlation
           /\ OpsOf(answer) = [k \in 1..n |-> o[k]] /\ Len(OpsOf(answer)) = n
           /\ RaisedAmong(OpsOf(answer), context) \subseteq {Len(OpsOf(answer))}
           /\ RaisedAmong(OpsOf(answer), context) # {} <=> answer.reply = "error"
<1>1. OpsOf(answer) = [k \in 1..n |-> o[k]]
    BY DEF LedTo, OpsOf
<1>2. Len(OpsOf(answer)) = n
    BY <1>1
<1>3. \A stamp \in ToSet(answer.ran) : stamp.correlation = message.correlation
    BY DEF LedTo, ToSet
<1>4. RaisedAmong(OpsOf(answer), context) = {k \in 1..n : o[k] \in context.failing}
    BY <1>1 DEF RaisedAmong
<1>5. \A k \in 1..n : o[k] \in context.failing => k = n
    BY DEF LedTo
<1>6. answer.reply = "error" <=> n # 0 /\ o[n] \in context.failing
    BY DEF LedTo
<1>7. RaisedAmong(OpsOf(answer), context) \subseteq {n}
    BY <1>4, <1>5
<1>8. RaisedAmong(OpsOf(answer), context) # {} <=> answer.reply = "error"
    BY <1>4, <1>5, <1>6
<1>9. QED BY <1>1, <1>2, <1>3, <1>7, <1>8 DEF LedTo

(* An answer to which asking nothing led.                                  *)
LEMMA LedToByNothing ==
    ASSUME NEW answer, answer.ran = <<>>, answer.reply # "error", NEW context, NEW message,
           \A stamp \in ToSet(answer.notes) : stamp.correlation = message.correlation
    PROVE  LedTo(answer, <<>>, 0, context, message)
<1>1. answer.ran = [k \in 1..0 |-> [op |-> <<>>[k], correlation |-> message.correlation]]
    BY NoneOfNone
<1>2. \A k \in 1..0 : <<>>[k] \in context.failing => k = 0
    BY NoneOfNone
<1>3. QED BY <1>1, <1>2 DEF LedTo

LEMMA OwnContext ==
    ASSUME NEW context, IsContext(context), NEW message
    PROVE  LET own == Within(context, message)
           IN  /\ own.session = context.session /\ own.failing = context.failing
               /\ own.correlation = message.correlation
               /\ \A op : Stamp(op, own) = [op |-> op, correlation |-> message.correlation]
BY DEF Within, IsContext, Stamp

(* A refusal, and a plain call: asked of nothing or of one plane.          *)
LEMMA RefusalsTell ==
    ASSUME NEW context, IsContext(context), NEW message, message.typed \in BOOLEAN,
           ~ (message.op \in Registered /\ message.typed)
    PROVE  TellsWhereItFailed(DispatchMessage(context, message), context, message)
<1> DEFINE answer == DispatchMessage(context, message)
<1>1. PICK error \in {"unknown_op", "wrong_payload"} : answer = Refusal(error)
    BY DEF DispatchMessage, Dispatch
<1>2. answer = [reply |-> error, notes |-> <<>>, ran |-> <<>>]
    BY <1>1 DEF Refusal
<1> HIDE DEF answer
<1>3. LedTo(answer, <<>>, 0, context, message)
    <2>1. answer.ran = <<>> /\ answer.notes = <<>> /\ answer.reply # "error"
        BY <1>2
    <2>2. ToSet(answer.notes) = {}
        BY <2>1 DEF ToSet
    <2>3. QED BY <2>1, <2>2, LedToByNothing
<1>4. answer.notes = <<>> /\ answer.reply # "result"
    BY <1>2
<1>5. TellsWhereItFailed(answer, context, message)
    <2>1. 0 \in 0..6
        OBVIOUS
    <2>2. /\ \A stamp \in ToSet(answer.notes) \cup ToSet(answer.ran) :
                stamp.correlation = message.correlation
          /\ RaisedAmong(OpsOf(answer), context) \subseteq {Len(OpsOf(answer))}
          /\ RaisedAmong(OpsOf(answer), context) # {} <=> answer.reply = "error"
        BY <1>3, <2>1, LedToTells
    <2>3. QED BY <1>4, <2>2 DEF TellsWhereItFailed
<1>6. QED BY <1>5 DEF answer

LEMMA PlainCallsTell ==
    ASSUME NEW context, IsContext(context), NEW message,
           message.op \in Registered, message.typed, message.op # "pm.advise"
    PROVE  TellsWhereItFailed(DispatchMessage(context, message), context, message)
<1> DEFINE answer == DispatchMessage(context, message)
           own == Within(context, message)
           stamp == [op |-> message.op, correlation |-> message.correlation]
<1>1. answer = Noted(HandlePlain(own, message.op), message.op, own)
    BY DEF DispatchMessage, Dispatch, Handle
<1>2. /\ own.session = context.session /\ own.failing = context.failing
      /\ Stamp(message.op, own) = stamp
    BY OwnContext
<1> HIDE DEF own
<1>3. CASE message.op \in Stored /\ ~ context.session
    <2>1. answer = [reply |-> "no_session", notes |-> <<stamp>>, ran |-> <<>>]
        <3>1. HandlePlain(own, message.op) = [reply |-> "no_session", notes |-> <<>>, ran |-> <<>>]
            BY <1>2, <1>3 DEF HandlePlain, Refusal
        <3>2. QED BY <1>1, <1>2, <3>1 DEF Noted
    <2> HIDE DEF answer
    <2>2. LedTo(answer, <<>>, 0, context, message)
        <3>1. answer.ran = <<>> /\ answer.notes = <<stamp>> /\ answer.reply # "error"
            BY <2>1
        <3>2. ToSet(answer.notes) = {stamp}
            BY <3>1 DEF ToSet
        <3>3. QED BY <3>1, <3>2, LedToByNothing
    <2>3. answer.reply # "result" /\ Last(answer.notes).op = message.op
        BY <2>1 DEF Last
    <2>4. TellsWhereItFailed(answer, context, message)
        <3>1. 0 \in 0..6 /\ 1 \in 0..6
            OBVIOUS
        <3>2. /\ \A note \in ToSet(answer.notes) \cup ToSet(answer.ran) :
                    note.correlation = message.correlation
              /\ RaisedAmong(OpsOf(answer), context) \subseteq {Len(OpsOf(answer))}
              /\ RaisedAmong(OpsOf(answer), context) # {} <=> answer.reply = "error"
            BY <2>2, <3>1, LedToTells
        <3>3. QED BY <2>3, <3>2 DEF TellsWhereItFailed
    <2>5. QED BY <2>4 DEF answer
<1>4. CASE ~ (message.op \in Stored /\ ~ context.session)
    <2>1. answer = [reply |-> IF message.op \in context.failing THEN "error" ELSE "result",
                    notes |-> IF message.op \in context.failing THEN <<stamp>> ELSE <<>>,
                    ran |-> <<stamp>>]
        <3>1. HandlePlain(own, message.op) =
                  [reply |-> IF message.op \in context.failing THEN "error" ELSE "result",
                   notes |-> <<>>, ran |-> <<stamp>>]
            BY <1>2, <1>4 DEF HandlePlain, Run
        <3>2. QED BY <1>1, <1>2, <3>1 DEF Noted
    <2> HIDE DEF answer
    <2>2. LedTo(answer, <<message.op>>, 1, context, message)
        BY <2>1 DEF LedTo, ToSet
    <2>3. /\ answer.reply # "result" => Last(answer.notes).op = message.op
          /\ answer.reply = "result" => answer.notes = <<>>
        BY <2>1 DEF Last
    <2>4. TellsWhereItFailed(answer, context, message)
        <3>1. 0 \in 0..6 /\ 1 \in 0..6
            OBVIOUS
        <3>2. /\ \A note \in ToSet(answer.notes) \cup ToSet(answer.ran) :
                    note.correlation = message.correlation
              /\ RaisedAmong(OpsOf(answer), context) \subseteq {Len(OpsOf(answer))}
              /\ RaisedAmong(OpsOf(answer), context) # {} <=> answer.reply = "error"
            BY <2>2, <3>1, LedToTells
        <3>3. QED BY <2>3, <3>2 DEF TellsWhereItFailed
    <2>5. QED BY <2>4 DEF answer
<1>5. QED BY <1>3, <1>4

LEMMA LegNames == ASSUME NEW k \in 1..5 PROVE Legs[k] # Scoring
BY LegsAreEvaluations

LEMMA LegsThenScoring ==
    /\ Append(Legs, Scoring) = [k \in 1..6 |-> IF k = 6 THEN Scoring ELSE Legs[k]]
    /\ Len(Append(Legs, Scoring)) = 6
BY DEF Legs

(* A request for advice tells of the leg that raised, or of the score.     *)
LEMMA AdviceTells ==
    ASSUME NEW context, IsContext(context), NEW message,
           message.op = "pm.advise", message.typed
    PROVE  TellsWhereItFailed(DispatchMessage(context, message), context, message)
<1> DEFINE answer == DispatchMessage(context, message)
           own == Within(context, message)
           o == [k \in 1..6 |-> IF k = 6 THEN Scoring ELSE Legs[k]]
           stamp(op) == [op |-> op, correlation |-> message.correlation]
           stamps(m) == [k \in 1..m |-> stamp(o[k])]
<1>1. message.op \in Registered
    BY DEF Registered, Evaluations
<1>2. answer = Noted(PmAdvise(own), message.op, own)
    BY <1>1 DEF DispatchMessage, Dispatch, Handle
<1>3. own.failing = context.failing /\ \A op : Stamp(op, own) = stamp(op)
    BY OwnContext
<1>4. PmAnswer(PmAdvise(own), own)
    BY PmAnswers
<1> HIDE DEF own, answer
<1>5. \A m \in 1..5 : [k \in 1..m |-> Stamp(Legs[k], own)] = stamps(m)
    BY <1>3
<1>6. IsPrefix(stamps(0), stamps(0))
    BY DEF IsPrefix
<1>7. \A m \in 1..6 : IsPrefix([k \in 1..m |-> o[k]], Append(Legs, Scoring))
    BY LegsThenScoring DEF IsPrefix
<1>8. ASSUME NEW m \in 1..5,
             PmAdvise(own) = [reply |-> "error", notes |-> <<Stamp(Legs[m], own)>>,
                              ran |-> [k \in 1..m |-> Stamp(Legs[k], own)]],
             Legs[m] \in own.failing,
             \A k \in 1..(m - 1) : Legs[k] \notin own.failing
      PROVE  TellsWhereItFailed(answer, context, message)
    <2>1. answer = [reply |-> "error", notes |-> <<stamp(Legs[m]), stamp(message.op)>>,
                    ran |-> stamps(m)]
        <3>1. PmAdvise(own) = [reply |-> "error", notes |-> <<stamp(Legs[m])>>, ran |-> stamps(m)]
            BY <1>3, <1>5, <1>8
        <3> HIDE DEF stamps, stamp
        <3>2. QED BY <1>2, <1>3, <3>1 DEF Noted
    <2>2. /\ answer.reply = "error" /\ answer.ran = stamps(m)
          /\ answer.notes = <<stamp(Legs[m]), stamp(message.op)>>
        BY <2>1
    <2>3. LedTo(answer, o, m, context, message)
        <3>1. \A k \in 1..m : o[k] \in context.failing => k = m
            BY <1>3, <1>8
        <3>2. o[m] \in context.failing
            BY <1>3, <1>8
        <3>3. ToSet(answer.notes) = {stamp(Legs[m]), stamp(message.op)}
            BY <2>2 DEF ToSet
        <3>4. QED BY <2>2, <3>1, <3>2, <3>3 DEF LedTo
    <2>4. m \in 0..6 /\ m \in 1..6
        OBVIOUS
    <2>5. /\ \A note \in ToSet(answer.notes) \cup ToSet(answer.ran) :
                note.correlation = message.correlation
          /\ OpsOf(answer) = [k \in 1..m |-> o[k]] /\ Len(OpsOf(answer)) = m
          /\ RaisedAmong(OpsOf(answer), context) \subseteq {Len(OpsOf(answer))}
          /\ RaisedAmong(OpsOf(answer), context) # {} <=> answer.reply = "error"
        BY <2>3, <2>4, LedToTells
    <2>6. Last(OpsOf(answer)) = Legs[m]
        BY <2>5 DEF Last
    <2>7. /\ Last(answer.notes).op = message.op /\ answer.notes[1].op = Legs[m]
          /\ Len(answer.notes) = 2
        BY <2>2 DEF Last
    <2>8. IsPrefix(OpsOf(answer), Append(Legs, Scoring))
        BY <1>7, <2>4, <2>5
    <2> HIDE DEF stamp, stamps, o
    <2>9. QED BY <1>1, <2>2, <2>5, <2>6, <2>7, <2>8 DEF TellsWhereItFailed
<1>9. ASSUME PmAdvise(own) =
                [reply |-> IF Scoring \in own.failing THEN "error" ELSE "result", notes |-> <<>>,
                 ran |-> [k \in 1..5 |-> Stamp(Legs[k], own)] \o <<Stamp(Scoring, own)>>],
             \A k \in 1..5 : Legs[k] \notin own.failing
      PROVE  TellsWhereItFailed(answer, context, message)
    <2>1. stamps(5) \o <<stamp(Scoring)>> = stamps(6)
        OBVIOUS
    <2>2. PmAdvise(own) =
              [reply |-> IF Scoring \in own.failing THEN "error" ELSE "result", notes |-> <<>>,
               ran |-> stamps(6)]
        <3>1. [k \in 1..5 |-> Stamp(Legs[k], own)] \o <<Stamp(Scoring, own)>> = stamps(6)
            BY <1>3, <1>5, <2>1
        <3>2. QED BY <1>9, <3>1
    <2>3. answer = [reply |-> IF Scoring \in context.failing THEN "error" ELSE "result",
                    notes |-> IF Scoring \in context.failing THEN <<stamp(message.op)>> ELSE <<>>,
                    ran |-> stamps(6)]
        <3> HIDE DEF stamps, stamp
        <3>1. QED BY <1>2, <1>3, <2>2 DEF Noted
    <2>4. answer.ran = stamps(6)
        BY <2>3
    <2>5. LedTo(answer, o, 6, context, message)
        <3>1. \A k \in 1..6 : o[k] \in context.failing => k = 6
            BY <1>3, <1>9
        <3>2. o[6] = Scoring
            OBVIOUS
        <3>3. ToSet(answer.notes) \subseteq {stamp(message.op)}
            BY <2>3 DEF ToSet
        <3>4. answer.reply = "error" <=> 6 # 0 /\ o[6] \in context.failing
            BY <2>3, <3>2
        <3>5. QED BY <2>4, <3>1, <3>3, <3>4 DEF LedTo
    <2>6. /\ \A note \in ToSet(answer.notes) \cup ToSet(answer.ran) :
                note.correlation = message.correlation
          /\ OpsOf(answer) = [k \in 1..6 |-> o[k]] /\ Len(OpsOf(answer)) = 6
          /\ RaisedAmong(OpsOf(answer), context) \subseteq {Len(OpsOf(answer))}
          /\ RaisedAmong(OpsOf(answer), context) # {} <=> answer.reply = "error"
        <3>1. 6 \in 0..6
            OBVIOUS
        <3>2. QED BY <2>5, <3>1, LedToTells
    <2>7. Last(OpsOf(answer)) = Scoring
        BY <2>6 DEF Last
    <2>8. /\ answer.reply # "result" => Last(answer.notes).op = message.op
          /\ answer.reply = "result" => answer.notes = <<>>
        BY <2>3 DEF Last
    <2>9. IsPrefix(OpsOf(answer), Append(Legs, Scoring))
        BY <1>7, <2>6
    <2>10. Len(OpsOf(answer)) = Len(Legs) + 1
        BY <2>6, LegsAreEvaluations
    <2> HIDE DEF stamp, stamps, o
    <2>11. QED BY <1>1, <2>6, <2>7, <2>8, <2>9, <2>10 DEF TellsWhereItFailed
<1>10. TellsWhereItFailed(answer, context, message)
    BY <1>4, <1>8, <1>9 DEF PmAnswer
<1>11. QED BY <1>10 DEF answer

(* An answer tells where it failed and of which workflow, of any message   *)
(* in any context and whatever raises (dispatch_message, _pm_advise).      *)
THEOREM AnswersTellWhereTheyFailed ==
    ASSUME NEW context, IsContext(context), NEW message, message.typed \in BOOLEAN
    PROVE  TellsWhereItFailed(DispatchMessage(context, message), context, message)
BY RefusalsTell, PlainCallsTell, AdviceTells DEF Registered, Evaluations

LEMMA OpsApart ==
    Stored \subseteq Registered /\ "pm.advise" \notin Stored /\ Scoring \notin Stored
BY DEF Stored, Registered, Queries, Commands, Scoring

LEMMA StoredNeedsSession ==
    ASSUME NEW c, ~ c.session, NEW message, message.op \in Stored
    PROVE  LET answer == Dispatch(c, message, Handle(c, message.op))
           IN  answer.reply # "result" /\ answer.ran = <<>>
<1>1. Handle(c, message.op) = [reply |-> "no_session", notes |-> <<>>, ran |-> <<>>]
    BY OpsApart DEF Handle, HandlePlain, Refusal
<1> DEFINE handled == Handle(c, message.op)
           answer == Dispatch(c, message, handled)
<1> HIDE DEF handled
<1>2. \/ answer = Refusal("unknown_op") \/ answer = Refusal("wrong_payload")
      \/ answer = Noted(handled, message.op, c)
    BY DEF Dispatch
<1> HIDE DEF answer
<1>3. answer.reply # "result" /\ answer.ran = <<>>
    <2>1. handled.reply = "no_session" /\ handled.ran = <<>>
          /\ handled = [reply |-> "no_session", notes |-> <<>>, ran |-> <<>>]
        BY <1>1 DEF handled
    <2>2. QED BY <1>2, <2>1 DEF Refusal, Noted
<1>4. QED BY <1>3 DEF answer, handled

LEMMA SessionsDoNotShow ==
    ASSUME NEW c, NEW d, c.correlation = d.correlation, c.failing = d.failing,
           NEW message, message.op \notin Stored
    PROVE  Dispatch(c, message, Handle(c, message.op)) = Dispatch(d, message, Handle(d, message.op))
<1>1. \A op : Stamp(op, c) = Stamp(op, d)
    BY DEF Stamp
<1>2. PmAdvise(c) = PmAdvise(d)
    BY AskedAlike
<1>3. Run(message.op, c) = Run(message.op, d)
    BY <1>1 DEF Run
<1>4. Handle(c, message.op) = Handle(d, message.op)
    BY <1>2, <1>3 DEF Handle, HandlePlain
<1> DEFINE handled == Handle(c, message.op)
<1> HIDE DEF handled
<1>5. Dispatch(c, message, handled) = Dispatch(d, message, handled)
    BY <1>1 DEF Dispatch, Noted
<1>6. QED BY <1>4, <1>5 DEF handled

LEMMA NothingStoredIsCalled ==
    ASSUME NEW c, NEW message, message.op \notin Stored,
           NEW call \in ToSet(Dispatch(c, message, Handle(c, message.op)).ran)
    PROVE  call.op \notin Stored
<1>1. PICK handled : handled = Handle(c, message.op)
    OBVIOUS
<1>2. PICK answer : answer = Dispatch(c, message, handled) /\ call \in ToSet(answer.ran)
    BY <1>1
<1>3. answer.ran = <<>> \/ answer.ran = handled.ran
    BY <1>2 DEF Dispatch, Refusal, Noted
<1>4. call \in ToSet(handled.ran)
    BY <1>2, <1>3 DEF ToSet
<1>5. CASE message.op # "pm.advise"
    <2>1. handled = Run(message.op, c)
        BY <1>1, <1>5 DEF Handle, HandlePlain
    <2>2. handled.ran = <<Stamp(message.op, c)>>
        BY <2>1 DEF Run
    <2>3. call = Stamp(message.op, c)
        BY <1>4, <2>2 DEF ToSet
    <2>4. QED BY <2>3 DEF Stamp
<1>6. CASE message.op = "pm.advise"
    <2>1. PmAnswer(handled, c)
        BY <1>1, <1>6, PmAnswers DEF Handle
    <2>2. \A k \in 1..5 : Legs[k] \notin Stored
        BY LegsAreEvaluations
    <2>3. \/ \E m \in 1..5 : handled.ran = [k \in 1..m |-> Stamp(Legs[k], c)]
          \/ handled.ran = [k \in 1..5 |-> Stamp(Legs[k], c)] \o <<Stamp(Scoring, c)>>
        <3>1. \A a, b, ran : handled = [reply |-> a, notes |-> b, ran |-> ran] => handled.ran = ran
            OBVIOUS
        <3>2. QED BY <2>1, <3>1, Zenon DEF PmAnswer
    <2>4. \E op : call = Stamp(op, c) /\ op \notin Stored
        <3>1. CASE \E m \in 1..5 : handled.ran = [k \in 1..m |-> Stamp(Legs[k], c)]
            BY <1>4, <2>2, <3>1 DEF ToSet
        <3>2. CASE handled.ran = [k \in 1..5 |-> Stamp(Legs[k], c)] \o <<Stamp(Scoring, c)>>
            <4>1. PICK i \in 1..6 : call = handled.ran[i]
                BY <1>4, <3>2 DEF ToSet
            <4>2. call = IF i = 6 THEN Stamp(Scoring, c) ELSE Stamp(Legs[i], c)
                BY <3>2, <4>1
            <4>3. QED BY <2>2, <4>2, OpsApart
        <3>3. QED BY <2>3, <3>1, <3>2
    <2>5. QED BY <2>4 DEF Stamp
<1>7. QED BY <1>5, <1>6

(* An evaluation needs no session and calls nothing that is stored; what   *)
(* is stored is not reached without one (require_session).                 *)
THEOREM EvaluationsArePure ==
    ASSUME NEW context, IsContext(context), NEW message
    PROVE  IsPure(context, message)
<1>1. PICK without : without = Within([context EXCEPT !.session = FALSE], message)
    OBVIOUS
<1>2. PICK with : with = Within([context EXCEPT !.session = TRUE], message)
    OBVIOUS
<1>3. ~ without.session /\ without.correlation = message.correlation
      /\ without.failing = context.failing
    BY <1>1 DEF Within, IsContext
<1>4. with.correlation = message.correlation /\ with.failing = context.failing
    BY <1>2 DEF Within, IsContext
<1>5. DispatchMessage([context EXCEPT !.session = FALSE], message)
          = Dispatch(without, message, Handle(without, message.op))
    BY <1>1 DEF DispatchMessage
<1>6. DispatchMessage([context EXCEPT !.session = TRUE], message)
          = Dispatch(with, message, Handle(with, message.op))
    BY <1>2 DEF DispatchMessage
<1>7. CASE message.op \in Stored
    BY <1>3, <1>5, <1>7, StoredNeedsSession DEF IsPure
<1>8. CASE message.op \notin Stored
    BY <1>3, <1>4, <1>5, <1>6, <1>8, SessionsDoNotShow, NothingStoredIsCalled DEF IsPure
<1>9. QED BY <1>7, <1>8

-----------------------------------------------------------------------------
(* Events: any series, to any subscribers.                                 *)

(* The log of events, or of failures, keeps the last of what it was told.  *)
LogKept(log, all) == KeepsLast(log, all, MaxLog)

LEMMA CappedKeeps ==
    ASSUME NEW E, NEW all \in Seq(E), NEW e \in E, NEW log, LogKept(log, all)
    PROVE  LogKept(Capped(log, e), Append(all, e))
<1>1. Capped(log, e) = Capping(log, e, MaxLog)
    BY DEF Capped, Capping
<1>2. QED BY <1>1, CappingKeeps, LogsAssumption DEF LogKept

(* A panel shows the last of what the log was told, newest first.          *)
LEMMA PanelsShowTheLast ==
    ASSUME NEW E, NEW all \in Seq(E), NEW log, LogKept(log, all)
    PROVE  RecentOf(log) = [k \in 1..Min({Recent, MaxLog, Len(all)}) |-> all[Len(all) - k + 1]]
<1>1. RecentOf(log) = NewestOf(log, Recent)
    BY DEF RecentOf, NewestOf
<1>2. MaxLog \in Nat \ {0} /\ Recent \in Nat \ {0} /\ KeepsLast(log, all, MaxLog)
    BY LogsAssumption DEF LogKept
<1>3. AreLast(NewestOf(log, Recent), all, Recent, MaxLog)
    BY <1>2, NewestAreTheLast
<1>4. QED BY <1>1, <1>3, Zenon DEF AreLast


(* The bus, of events of E.                                                *)
BusOf(E) ==
    [events : Seq(E), failures : Seq(E),
     calls : Seq([id : {e.id : e \in E}, subscriber : Nat])]

CallsOf(event, m) == [k \in 1..m |-> [id |-> event.id, subscriber |-> k]]
RaisingOf(heard, m) == {k \in 1..m : heard[k]}
FailuresOf(event, heard, m) == [k \in 1..Cardinality(RaisingOf(heard, m)) |-> event]

LEMMA CappedIsLog ==
    ASSUME NEW E, NEW log \in Seq(E), NEW e \in E
    PROVE  Capped(log, e) \in Seq(E)
<1>1. PICK all : all = Append(log, e)
    OBVIOUS
<1>2. all \in Seq(E) /\ all # <<>>
    BY <1>1, AppendProperties
<1>3. Tail(all) \in Seq(E)
    BY <1>2, HeadTailProperties
<1>4. QED BY <1>1, <1>2, <1>3 DEF Capped

LEMMA DeliveryIsOfBus ==
    ASSUME NEW E, NEW bus \in BusOf(E), NEW event \in E, NEW i \in Nat, NEW raises
    PROVE  Deliver(bus, event, i, raises) \in BusOf(E)
<1> DEFINE call == [id |-> event.id, subscriber |-> i]
           C == [id : {e.id : e \in E}, subscriber : Nat]
<1>1. call \in C
    OBVIOUS
<1> HIDE DEF call, C
<1>2. bus.calls \in Seq(C) /\ bus.failures \in Seq(E) /\ bus.events \in Seq(E)
      /\ bus = [events |-> bus.events, failures |-> bus.failures, calls |-> bus.calls]
    BY DEF BusOf, C
<1>3. Append(bus.calls, call) \in Seq(C)
    BY <1>1, <1>2
<1>4. Capped(bus.failures, event) \in Seq(E)
    BY <1>2, CappedIsLog
<1> DEFINE kept == [bus EXCEPT !.calls = Append(@, call)]
           failed == [bus EXCEPT !.calls = Append(@, call), !.failures = Capped(@, event)]
<1>5. kept \in BusOf(E) /\ failed \in BusOf(E)
    BY <1>2, <1>3, <1>4 DEF BusOf, C
<1>6. Deliver(bus, event, i, raises) = IF raises THEN failed ELSE kept
    <2>1. CASE raises
        <3>1. failed = [bus EXCEPT !.calls = Append(@, call),
                                   !.failures = IF raises THEN Capped(@, event) ELSE @]
            BY <2>1, Zenon
        <3>2. QED BY <2>1, <3>1, Zenon DEF Deliver, call
    <2>2. CASE ~ raises
        <3>1. kept = [bus EXCEPT !.calls = Append(@, call), !.failures = @]
            BY <1>2
        <3>2. [bus EXCEPT !.calls = Append(@, call), !.failures = @]
                  = [bus EXCEPT !.calls = Append(@, call),
                                !.failures = IF raises THEN Capped(@, event) ELSE @]
            BY <2>2, Zenon
        <3>3. QED BY <2>2, <3>1, <3>2, Zenon DEF Deliver, call
    <2>3. QED BY <2>1, <2>2
<1>7. QED BY <1>5, <1>6, Zenon

(* The bus after each of the m subscribers of an event.                    *)
Fans(after, bus, event, heard, m) ==
    /\ after[0] = [bus EXCEPT !.events = Capped(bus.events, event)]
    /\ \A i \in 1..m : after[i] = Deliver(after[i - 1], event, i, heard[i])

(* The fan-out of one event has its function.                              *)
LEMMA FanOut ==
    ASSUME NEW E, NEW bus \in BusOf(E), NEW event \in E, NEW subscribers, NEW m \in Nat,
           NEW heard \in [1..m -> BOOLEAN], HeardBy(subscribers, event) = heard
    PROVE  \E after : /\ Fans(after, bus, event, heard, m)
                      /\ EmitEvent(bus, subscribers, event) = after[m]
                      /\ \A i \in 0..m : after[i] \in BusOf(E)
<1> DEFINE V == BusOf(E)
           recorded == [bus EXCEPT !.events = Capped(bus.events, event)]
           F == [i \in 1..m |-> [v \in V |-> Deliver(v, event, i, heard[i])]]
<1>1. recorded \in V
    <2>1. Capped(bus.events, event) \in Seq(E)
        BY CappedIsLog DEF BusOf
    <2>2. QED BY <2>1 DEF BusOf
<1>2. \A i \in 1..m, v \in V : F[i][v] = Deliver(v, event, i, heard[i])
    OBVIOUS
<1>3. IsTurn(F, m, V)
    <2>1. \A i \in 1..m : i \in Nat
        OBVIOUS
    <2> HIDE DEF F, V
    <2>2. QED BY <1>2, <2>1, DeliveryIsOfBus DEF IsTurn, V
<1> HIDE DEF V, F, recorded
<1>4. PICK g \in [0..m -> V] : IsLoop(g, m, recorded, F)
    BY <1>1, <1>3, LoopExists
<1>5. \A i \in 0..m : i # 0 => F[i][g[i - 1]] = Deliver(g[i - 1], event, i, heard[i])
    <2>1. SUFFICES ASSUME NEW i \in 0..m, i # 0
                   PROVE  F[i][g[i - 1]] = Deliver(g[i - 1], event, i, heard[i])
        OBVIOUS
    <2>2. i \in 1..m /\ i - 1 \in 0..m
        BY <2>1
    <2>3. g[i - 1] \in V
        BY <2>2
    <2>4. QED BY <1>2, <2>2, <2>3
<1>6. g = [i \in 0..m |-> IF i = 0 THEN recorded ELSE Deliver(g[i - 1], event, i, heard[i])]
    BY <1>4, <1>5 DEF IsLoop
<1>7. Len(heard) = m
    OBVIOUS
<1>8. \E h : /\ h = [i \in 0..m |-> IF i = 0 THEN recorded ELSE Deliver(h[i - 1], event, i, heard[i])]
             /\ EmitEvent(bus, subscribers, event) = h[m]
    <2>1. \E h : h = [i \in 0..m |-> IF i = 0 THEN recorded
                                     ELSE Deliver(h[i - 1], event, i, heard[i])]
        BY <1>6
    <2>2. QED BY <1>7, <2>1, Zenon DEF EmitEvent, recorded
<1>9. PICK h : /\ h = [i \in 0..m |-> IF i = 0 THEN recorded
                                      ELSE Deliver(h[i - 1], event, i, heard[i])]
               /\ EmitEvent(bus, subscribers, event) = h[m]
    BY <1>8
<1>10. h[0] = recorded /\ \A i \in 1..m : h[i] = Deliver(h[i - 1], event, i, heard[i])
    BY <1>9
<1>11. \A i \in 0..m : h[i] \in V
    <2> DEFINE Turns == {i \in Nat : i <= m => h[i] \in V}
    <2>1. 0 \in Turns
        BY <1>1, <1>10
    <2>2. ASSUME NEW i \in Nat, i \in Turns PROVE i + 1 \in Turns
        <3>1. SUFFICES ASSUME i + 1 <= m PROVE h[i + 1] \in V
            OBVIOUS
        <3>2. h[i] \in V /\ i + 1 \in 1..m /\ (i + 1) - 1 = i
            BY <2>2, <3>1
        <3>3. h[i + 1] = Deliver(h[i], event, i + 1, heard[i + 1])
            BY <1>10, <3>2
        <3>4. QED BY <3>2, <3>3, DeliveryIsOfBus DEF V
    <2> HIDE DEF Turns
    <2>3. \A i \in Nat : i \in Turns
        BY <2>1, <2>2, EveryNumber
    <2>4. QED BY <2>3 DEF Turns
<1>12. Fans(h, bus, event, heard, m)
    BY <1>10 DEF Fans, recorded
<1>13. QED BY <1>9, <1>11, <1>12 DEF V

LEMMA ConcatThenAppend ==
    ASSUME NEW S, NEW s \in Seq(S), NEW t \in Seq(S), NEW x \in S
    PROVE  s \o Append(t, x) = Append(s \o t, x)
<1>1. PICK m \in Nat, n \in Nat : m = Len(s) /\ n = Len(t)
    BY LenProperties
<1>2. PICK a : a = Append(t, x)
    OBVIOUS
<1>3. a \in Seq(S) /\ Len(a) = n + 1 /\ (\A k \in 1..n : a[k] = t[k]) /\ a[n + 1] = x
    BY <1>1, <1>2, AppendProperties
<1>4. PICK b : b = s \o a
    OBVIOUS
<1>5. /\ b \in Seq(S) /\ Len(b) = m + (n + 1)
      /\ \A k \in 1..(m + (n + 1)) : b[k] = IF k <= m THEN s[k] ELSE a[k - m]
    <2>1. a \in Seq(S) /\ s \in Seq(S) /\ Len(a) = n + 1 /\ Len(s) = m
        BY <1>1, <1>3
    <2>2. /\ b \in Seq(S) /\ Len(b) = Len(s) + Len(a)
          /\ \A k \in 1..(Len(s) + Len(a)) : b[k] = IF k <= Len(s) THEN s[k] ELSE a[k - Len(s)]
        BY <1>4, <2>1, ConcatProperties
    <2>3. QED BY <2>1, <2>2
<1>6. PICK c : c = s \o t
    OBVIOUS
<1>7. /\ c \in Seq(S) /\ Len(c) = m + n
      /\ \A k \in 1..(m + n) : c[k] = IF k <= m THEN s[k] ELSE t[k - m]
    <2>1. Len(s) = m /\ Len(t) = n
        BY <1>1
    <2>2. /\ c \in Seq(S) /\ Len(c) = Len(s) + Len(t)
          /\ \A k \in 1..(Len(s) + Len(t)) : c[k] = IF k <= Len(s) THEN s[k] ELSE t[k - Len(s)]
        BY <1>6, ConcatProperties
    <2>3. QED BY <2>1, <2>2
<1>8. PICK d : d = Append(c, x)
    OBVIOUS
<1>9. /\ d \in Seq(S) /\ Len(d) = (m + n) + 1
      /\ (\A k \in 1..(m + n) : d[k] = c[k]) /\ d[(m + n) + 1] = x
    BY <1>7, <1>8, AppendProperties
<1>10. \A k \in 1..(m + n + 1) : b[k] = d[k]
    <2>1. SUFFICES ASSUME NEW k \in 1..(m + n + 1) PROVE b[k] = d[k]
        OBVIOUS
    <2>2. CASE k <= m
        BY <1>5, <1>7, <1>9, <2>2
    <2>3. CASE m < k /\ k <= m + n
        <3>1. k - m \in 1..n /\ k \in 1..(m + n) /\ k \in 1..(m + (n + 1)) /\ ~ (k <= m)
            BY <2>3
        <3>2. QED BY <1>3, <1>5, <1>7, <1>9, <3>1
    <2>4. CASE k = m + n + 1
        <3>1. k - m = n + 1 /\ k = (m + n) + 1 /\ k \in 1..(m + (n + 1)) /\ ~ (k <= m)
            BY <2>4
        <3>2. QED BY <1>3, <1>5, <1>9, <3>1
    <2>5. QED BY <2>2, <2>3, <2>4
<1>11. b \in [1..(m + n + 1) -> S] /\ d \in [1..(m + n + 1) -> S]
    <2>1. Len(b) = m + n + 1 /\ Len(d) = m + n + 1
        BY <1>5, <1>9
    <2>2. QED BY <1>5, <1>9, <2>1, LenProperties
<1>12. b = d
    BY <1>10, <1>11
<1>13. QED BY <1>2, <1>4, <1>6, <1>8, <1>12

(* The subscribers that raise, counted.                                    *)
LEMMA RaisingCounts ==
    ASSUME NEW m \in Nat, NEW heard \in [1..m -> BOOLEAN], NEW i \in Nat, i + 1 <= m
    PROVE  /\ Cardinality(RaisingOf(heard, i)) \in Nat
           /\ Cardinality(RaisingOf(heard, i + 1)) =
                 Cardinality(RaisingOf(heard, i)) + IF heard[i + 1] THEN 1 ELSE 0
<1>1. IsFiniteSet(RaisingOf(heard, i))
    <2>1. IsFiniteSet(1..i)
        BY FS_Interval
    <2>2. RaisingOf(heard, i) \subseteq 1..i
        BY DEF RaisingOf
    <2>3. QED BY <2>1, <2>2, FS_Subset
<1>2. CASE heard[i + 1]
    <2>1. RaisingOf(heard, i + 1) = RaisingOf(heard, i) \cup {i + 1}
        BY <1>2 DEF RaisingOf
    <2>2. i + 1 \notin RaisingOf(heard, i)
        BY DEF RaisingOf
    <2>3. QED BY <1>1, <1>2, <2>1, <2>2, FS_AddElement, FS_CardinalityType
<1>3. CASE ~ heard[i + 1]
    <2>1. \A k \in 1..(i + 1) : k \in 1..i \/ k = i + 1
        OBVIOUS
    <2>2. RaisingOf(heard, i + 1) = RaisingOf(heard, i)
        BY <1>3, <2>1 DEF RaisingOf
    <2>3. Cardinality(RaisingOf(heard, i)) \in Nat
        BY <1>1, FS_CardinalityType
    <2>4. QED BY <1>3, <2>2, <2>3
<1>4. QED BY <1>2, <1>3

LEMMA NobodyRaises == ASSUME NEW heard PROVE Cardinality(RaisingOf(heard, 0)) = 0
<1>1. RaisingOf(heard, 0) = {}
    BY NoneOfNone DEF RaisingOf
<1>2. QED BY <1>1, FS_EmptySet

(* What the bus has become once i subscribers of an event were called: the *)
(* log of failures has kept those it had been told of, and theirs.         *)
SoFar(next, events, calls, failed, event, heard, i) ==
    /\ next.events = events
    /\ next.calls = calls \o CallsOf(event, i)
    /\ LogKept(next.failures, failed \o FailuresOf(event, heard, i))

(* What one subscriber adds.                                               *)
LEMMA OneMoreSubscriber ==
    ASSUME NEW E, NEW event \in E, NEW m \in Nat, NEW heard \in [1..m -> BOOLEAN],
           NEW i \in Nat, i + 1 <= m, NEW before \in BusOf(E), NEW bus \in BusOf(E),
           NEW failed \in Seq(E), NEW events,
           SoFar(before, events, bus.calls, failed, event, heard, i)
    PROVE  SoFar(Deliver(before, event, i + 1, heard[i + 1]), events, bus.calls, failed,
                 event, heard, i + 1)
<1> DEFINE next == Deliver(before, event, i + 1, heard[i + 1])
           call == [id |-> event.id, subscriber |-> i + 1]
           C == [id : {e.id : e \in E}, subscriber : Nat]
<1>0. /\ before.events = events /\ before.calls = bus.calls \o CallsOf(event, i)
      /\ LogKept(before.failures, failed \o FailuresOf(event, heard, i))
    BY DEF SoFar
<1>1. call \in C /\ CallsOf(event, i) \in Seq(C) /\ bus.calls \in Seq(C)
    <2>1. call \in C
        OBVIOUS
    <2>2. bus.calls \in Seq(C)
        BY DEF BusOf
    <2>3. \A k \in 1..i : [id |-> event.id, subscriber |-> k] \in C
        OBVIOUS
    <2>4. CallsOf(event, i) \in Seq(C)
        <3> HIDE DEF C
        <3>1. CallsOf(event, i) \in [1..i -> C]
            BY <2>3 DEF CallsOf
        <3>2. QED BY <3>1
    <2>5. QED BY <2>1, <2>2, <2>4
<1>2. next.events = before.events /\ next.calls = Append(before.calls, call)
    BY DEF Deliver, BusOf
<1>3. CallsOf(event, i + 1) = Append(CallsOf(event, i), call)
    BY DEF CallsOf
<1> HIDE DEF call, C
<1>4. next.calls = bus.calls \o CallsOf(event, i + 1)
    <2> HIDE DEF next
    <2>1. bus.calls \o Append(CallsOf(event, i), call) = Append(bus.calls \o CallsOf(event, i), call)
        <3>1. PICK D : D = C
            OBVIOUS
        <3>2. PICK one \in D, those \in Seq(D), these \in Seq(D) :
                 one = call /\ those = bus.calls /\ these = CallsOf(event, i)
            BY <1>1, <3>1
        <3>3. those \o Append(these, one) = Append(those \o these, one)
            BY ConcatThenAppend
        <3>4. QED BY <3>2, <3>3
    <2>2. QED BY <1>0, <1>2, <1>3, <2>1
<1>5. PICK n \in Nat : n = Cardinality(RaisingOf(heard, i))
    BY RaisingCounts
<1>6. PICK some : some = FailuresOf(event, heard, i)
    OBVIOUS
<1>7. some = [k \in 1..n |-> event] /\ some \in Seq(E)
    <2>1. some = [k \in 1..n |-> event]
        BY <1>5, <1>6 DEF FailuresOf
    <2>2. some \in [1..n -> E]
        BY <2>1
    <2>3. QED BY <2>1, <2>2
<1>8. CASE heard[i + 1]
    <2>1. next.failures = Capped(before.failures, event)
        BY <1>8 DEF Deliver, BusOf
    <2>2. Cardinality(RaisingOf(heard, i + 1)) = n + 1
        BY <1>5, <1>8, RaisingCounts
    <2>3. FailuresOf(event, heard, i + 1) = [k \in 1..(n + 1) |-> event]
        BY <2>2 DEF FailuresOf
    <2>4. FailuresOf(event, heard, i + 1) = Append(some, event)
        BY <1>7, <2>3
    <2>5. failed \o FailuresOf(event, heard, i + 1) = Append(failed \o some, event)
        <3>1. failed \in Seq(E) /\ some \in Seq(E) /\ event \in E
            BY <1>7
        <3>2. failed \o Append(some, event) = Append(failed \o some, event)
            BY <3>1, ConcatThenAppend
        <3>3. QED BY <2>4, <3>2
    <2>6. failed \o some \in Seq(E)
        BY <1>7, ConcatProperties
    <2>7. LogKept(next.failures, failed \o FailuresOf(event, heard, i + 1))
        <3> HIDE DEF next
        <3>1. QED BY <1>0, <1>6, <2>1, <2>5, <2>6, CappedKeeps
    <2>8. QED BY <1>0, <1>2, <1>4, <2>7 DEF SoFar
<1>9. CASE ~ heard[i + 1]
    <2>1. next.failures = before.failures
        BY <1>9 DEF Deliver, BusOf
    <2>2. Cardinality(RaisingOf(heard, i + 1)) = n
        <3>1. Cardinality(RaisingOf(heard, i + 1)) =
                 Cardinality(RaisingOf(heard, i)) + IF heard[i + 1] THEN 1 ELSE 0
            BY RaisingCounts
        <3>2. (IF heard[i + 1] THEN 1 ELSE 0) = 0
            BY <1>9
        <3>3. QED BY <1>5, <3>1, <3>2
    <2>3. FailuresOf(event, heard, i + 1) = FailuresOf(event, heard, i)
        BY <1>5, <2>2 DEF FailuresOf
    <2>4. QED BY <1>0, <1>2, <1>4, <2>1, <2>3 DEF SoFar
<1>10. QED BY <1>8, <1>9

(* Nothing is added by a sequence over no numbers.                         *)
LEMMA NothingAdded ==
    ASSUME NEW S, NEW s \in Seq(S), NEW t \in [1..0 -> S]
    PROVE  s \o t = s
<1>1. t = <<>>
    OBVIOUS
<1>2. QED BY <1>1, ConcatEmptySeq

(* What one event adds, once all of its subscribers have been called.      *)
LEMMA OneMoreEvent ==
    ASSUME NEW E, NEW bus \in BusOf(E), NEW event \in E, NEW subscribers, NEW m \in Nat,
           NEW heard \in [1..m -> BOOLEAN], HeardBy(subscribers, event) = heard,
           NEW told \in Seq(E), LogKept(bus.events, told),
           NEW failed \in Seq(E), LogKept(bus.failures, failed)
    PROVE  \E events :
              /\ SoFar(EmitEvent(bus, subscribers, event), events, bus.calls, failed,
                       event, heard, m)
              /\ LogKept(events, Append(told, event))
<1>1. PICK after : /\ Fans(after, bus, event, heard, m)
                   /\ EmitEvent(bus, subscribers, event) = after[m]
                   /\ \A i \in 0..m : after[i] \in BusOf(E)
    BY FanOut
<1>2. PICK events : events = Capped(bus.events, event)
    OBVIOUS
<1>3. after[0].events = events /\ after[0].calls = bus.calls /\ after[0].failures = bus.failures
    BY <1>1, <1>2 DEF BusOf, Fans
<1> DEFINE Good(i) == SoFar(after[i], events, bus.calls, failed, event, heard, i)
           Turns == {i \in Nat : i <= m => Good(i)}
<1>4. Good(0)
    <2>1. bus.calls \o CallsOf(event, 0) = bus.calls
        <3> DEFINE C == [id : {e.id : e \in E}, subscriber : Nat]
        <3>1. bus.calls \in Seq(C)
            BY DEF BusOf
        <3> HIDE DEF C
        <3>2. CallsOf(event, 0) \in [1..0 -> C]
            BY NoneOfNone DEF CallsOf
        <3>3. QED BY <3>1, <3>2, NothingAdded
    <2>2. failed \o FailuresOf(event, heard, 0) = failed
        <3>1. FailuresOf(event, heard, 0) \in [1..0 -> E]
            BY NobodyRaises DEF FailuresOf
        <3>2. QED BY <3>1, NothingAdded
    <2>3. QED BY <1>3, <2>1, <2>2 DEF SoFar
<1>5. ASSUME NEW i \in Nat, i + 1 <= m, Good(i) PROVE Good(i + 1)
    <2>1. i \in 0..m /\ i + 1 \in 1..m /\ (i + 1) - 1 = i
        BY <1>5
    <2>2. after[i + 1] = Deliver(after[i], event, i + 1, heard[i + 1]) /\ after[i] \in BusOf(E)
        BY <1>1, <2>1 DEF Fans
    <2>3. PICK before \in BusOf(E) : before = after[i]
        BY <2>2
    <2>4. SoFar(before, events, bus.calls, failed, event, heard, i)
        BY <1>5, <2>3
    <2>5. SoFar(Deliver(before, event, i + 1, heard[i + 1]), events, bus.calls, failed,
                event, heard, i + 1)
        BY <1>5, <2>4, OneMoreSubscriber
    <2>6. QED BY <2>2, <2>3, <2>5
<1> HIDE DEF Good
<1>6. Good(m)
    <2>1. 0 \in Turns
        BY <1>4
    <2>2. \A i \in Nat : i \in Turns => i + 1 \in Turns
        BY <1>5
    <2> HIDE DEF Turns
    <2>3. m \in Turns
        BY <2>1, <2>2, EveryNumber
    <2>4. QED BY <2>3 DEF Turns
<1>7. LogKept(events, Append(told, event))
    <2>1. PICK log : log = bus.events
        OBVIOUS
    <2>2. QED BY <1>2, <2>1, CappedKeeps
<1>8. QED BY <1>1, <1>6, <1>7 DEF Good

(* Sequences laid end to end, one more at a time.                          *)
Laid(flat, seqs, n) ==
    flat[0] = <<>> /\ \A i \in 1..n : flat[i] = flat[i - 1] \o seqs[i]

LEMMA FlatteningLays ==
    ASSUME NEW S, NEW n \in Nat, NEW seqs \in [1..n -> Seq(S)]
    PROVE  \E flat \in [0..n -> Seq(S)] : Laid(flat, seqs, n) /\ FlattenSeq(seqs) = flat[n]
<1> DEFINE V == Seq(S)
           F == [i \in 1..n |-> [v \in V |-> v \o seqs[i]]]
<1>1. <<>> \in V
    OBVIOUS
<1>2. \A i \in 1..n, v \in V : F[i][v] = v \o seqs[i]
    OBVIOUS
<1>3. IsTurn(F, n, V)
    <2>1. \A i \in 1..n, v \in V : v \o seqs[i] \in V
        BY ConcatProperties
    <2> HIDE DEF F, V
    <2>2. QED BY <1>2, <2>1 DEF IsTurn
<1> HIDE DEF F
<1>4. PICK g \in [0..n -> V] : IsLoop(g, n, <<>>, F)
    <2> HIDE DEF V
    <2>1. QED BY <1>1, <1>3, LoopExists
<1>5. g[0] = <<>> /\ \A i \in 1..n : g[i] = g[i - 1] \o seqs[i]
    <2>1. g[0] = <<>>
        BY <1>4 DEF IsLoop
    <2>2. ASSUME NEW i \in 1..n PROVE g[i] = g[i - 1] \o seqs[i]
        <3>1. i \in 0..n /\ i # 0 /\ i - 1 \in 0..n
            OBVIOUS
        <3>2. g[i] = F[i][g[i - 1]]
            BY <1>4, <3>1 DEF IsLoop
        <3>3. g[i - 1] \in V
            BY <3>1
        <3>4. QED BY <1>2, <3>2, <3>3
    <2>3. QED BY <2>1, <2>2
<1>6. Laid(g, seqs, n)
    BY <1>5 DEF Laid
<1>7. Len(seqs) = n
    BY LenProperties
<1>8. CASE n = 0
    <2>1. FlattenSeq(seqs) = seqs
        BY <1>7, <1>8 DEF FlattenSeq
    <2>2. seqs = <<>>
        BY <1>7, <1>8
    <2>3. QED BY <1>5, <1>6, <1>8, <2>1, <2>2
<1>9. CASE n # 0
    <2>1. g[1] = seqs[1] /\ 1 \in 1..n
        <3>1. 1 \in 1..n /\ 1 - 1 = 0
            BY <1>9
        <3>2. g[1] = <<>> \o seqs[1]
            BY <1>5, <3>1
        <3>3. seqs[1] \in Seq(S)
            BY <3>1
        <3>4. <<>> \o seqs[1] = seqs[1]
            BY <3>3, ConcatEmptySeq
        <3>5. QED BY <3>1, <3>2, <3>4
    <2>2. PICK h : h = [i \in 1..n |-> g[i]]
        OBVIOUS
    <2>3. h = [i \in 1..n |-> IF i = 1 THEN seqs[i] ELSE h[i - 1] \o seqs[i]]
        <3>1. \A i \in 1..n : h[i] = IF i = 1 THEN seqs[i] ELSE h[i - 1] \o seqs[i]
            <4>1. \A i \in 1..n : i # 1 => i - 1 \in 1..n
                OBVIOUS
            <4>2. QED BY <1>5, <2>1, <2>2, <4>1
        <3>2. QED BY <2>2, <3>1
    <2>4. \E f : /\ f = [i \in 1..n |-> IF i = 1 THEN seqs[i] ELSE f[i - 1] \o seqs[i]]
                 /\ FlattenSeq(seqs) = f[n]
        <3>1. \E f : f = [i \in 1..n |-> IF i = 1 THEN seqs[i] ELSE f[i - 1] \o seqs[i]]
            BY <2>3
        <3>2. QED BY <1>7, <1>9, <3>1, Zenon DEF FlattenSeq
    <2>5. PICK f : /\ f = [i \in 1..n |-> IF i = 1 THEN seqs[i] ELSE f[i - 1] \o seqs[i]]
                   /\ FlattenSeq(seqs) = f[n]
        BY <2>4
    <2>6. f[1] = seqs[1] /\ \A i \in 1..n : i # 1 => f[i] = f[i - 1] \o seqs[i]
        BY <2>1, <2>5
    <2> DEFINE Turns == {i \in Nat : i \in 1..n => f[i] = g[i]}
    <2>7. 0 \in Turns
        OBVIOUS
    <2>8. ASSUME NEW i \in Nat, i \in Turns PROVE i + 1 \in Turns
        <3>1. SUFFICES ASSUME i + 1 \in 1..n PROVE f[i + 1] = g[i + 1]
            OBVIOUS
        <3>2. CASE i = 0
            <4>1. i + 1 = 1
                BY <3>2
            <4>2. QED BY <2>1, <2>6, <4>1
        <3>3. CASE i # 0
            <4>1. i \in 1..n /\ (i + 1) - 1 = i /\ i + 1 # 1
                BY <3>1, <3>3
            <4>2. f[i] = g[i]
                BY <2>8, <4>1
            <4>3. QED BY <1>5, <2>6, <3>1, <4>1, <4>2
        <3>4. QED BY <3>2, <3>3
    <2> HIDE DEF Turns
    <2>9. n \in Turns
        BY <2>7, <2>8, EveryNumber
    <2>10. f[n] = g[n]
        <3>1. n \in 1..n
            BY <1>9
        <3>2. QED BY <2>9, <3>1 DEF Turns
    <2>11. QED BY <1>6, <2>5, <2>10
<1>10. QED BY <1>8, <1>9

LEMMA EmissionIsOfBus ==
    ASSUME NEW E, NEW bus \in BusOf(E), NEW event \in E, NEW subscribers,
           HeardBy(subscribers, event) \in Seq(BOOLEAN)
    PROVE  EmitEvent(bus, subscribers, event) \in BusOf(E)
<1>1. PICK heard : heard = HeardBy(subscribers, event)
    OBVIOUS
<1>2. PICK m \in Nat : heard \in [1..m -> BOOLEAN]
    BY <1>1, LenProperties
<1>3. PICK after : /\ EmitEvent(bus, subscribers, event) = after[m]
                   /\ \A i \in 0..m : after[i] \in BusOf(E)
    BY <1>1, <1>2, FanOut
<1>4. m \in 0..m
    OBVIOUS
<1>5. QED BY <1>3, <1>4

(* The bus after each event of a series.                                   *)
Telling(told, events, subscribers, n) ==
    /\ told[0] = NoBus
    /\ \A i \in 1..n : told[i] = EmitEvent(told[i - 1], subscribers, events[i])
    /\ EmitAll(events, subscribers) =
          [calls |-> told[n].calls, recent |-> RecentOf(told[n].events),
           failures |-> RecentOf(told[n].failures)]

(* A series has its function.                                              *)
LEMMA SeriesIsTold ==
    ASSUME NEW E, NEW n \in Nat, NEW events \in [1..n -> E], NEW subscribers,
           \A i \in 1..n : HeardBy(subscribers, events[i]) \in Seq(BOOLEAN)
    PROVE  \E told : /\ Telling(told, events, subscribers, n)
                     /\ \A i \in 0..n : told[i] \in BusOf(E)
<1> DEFINE V == BusOf(E)
           F == [i \in 1..n |-> [v \in V |-> EmitEvent(v, subscribers, events[i])]]
<1>1. NoBus \in V
    BY DEF NoBus, BusOf
<1>2. \A i \in 1..n, v \in V : F[i][v] = EmitEvent(v, subscribers, events[i])
    OBVIOUS
<1>3. IsTurn(F, n, V)
    <2>1. \A i \in 1..n : events[i] \in E
        OBVIOUS
    <2> HIDE DEF F, V
    <2>2. QED BY <1>2, <2>1, EmissionIsOfBus DEF IsTurn, V
<1> HIDE DEF V, F
<1>4. PICK g \in [0..n -> V] : IsLoop(g, n, NoBus, F)
    BY <1>1, <1>3, LoopExists
<1>5. \A i \in 0..n : i # 0 => F[i][g[i - 1]] = EmitEvent(g[i - 1], subscribers, events[i])
    <2>1. SUFFICES ASSUME NEW i \in 0..n, i # 0
                   PROVE  F[i][g[i - 1]] = EmitEvent(g[i - 1], subscribers, events[i])
        OBVIOUS
    <2>2. i \in 1..n /\ i - 1 \in 0..n
        BY <2>1
    <2>3. g[i - 1] \in V
        BY <2>2
    <2>4. QED BY <1>2, <2>2, <2>3
<1>6. g = [i \in 0..n |-> IF i = 0 THEN NoBus ELSE EmitEvent(g[i - 1], subscribers, events[i])]
    BY <1>4, <1>5 DEF IsLoop
<1>7. Len(events) = n
    OBVIOUS
<1>8. PICK h : /\ h = [i \in 0..n |-> IF i = 0 THEN NoBus
                                      ELSE EmitEvent(h[i - 1], subscribers, events[i])]
               /\ EmitAll(events, subscribers) =
                     [calls |-> h[n].calls, recent |-> RecentOf(h[n].events),
                      failures |-> RecentOf(h[n].failures)]
    <2>1. \E h : h = [i \in 0..n |-> IF i = 0 THEN NoBus
                                     ELSE EmitEvent(h[i - 1], subscribers, events[i])]
        BY <1>6
    <2>2. QED BY <1>7, <2>1, Zenon DEF EmitAll
<1>9. h[0] = NoBus /\ \A i \in 1..n : h[i] = EmitEvent(h[i - 1], subscribers, events[i])
    BY <1>8
<1>10. \A i \in 0..n : h[i] \in V
    <2> DEFINE Turns == {i \in Nat : i <= n => h[i] \in V}
    <2>1. 0 \in Turns
        BY <1>1, <1>9
    <2>2. ASSUME NEW i \in Nat, i \in Turns PROVE i + 1 \in Turns
        <3>1. SUFFICES ASSUME i + 1 <= n PROVE h[i + 1] \in V
            OBVIOUS
        <3>2. h[i] \in V /\ i + 1 \in 1..n /\ (i + 1) - 1 = i
            BY <2>2, <3>1
        <3>3. h[i + 1] = EmitEvent(h[i], subscribers, events[i + 1])
            BY <1>9, <3>2
        <3>4. events[i + 1] \in E
            BY <3>2
        <3>5. QED BY <3>2, <3>3, <3>4, EmissionIsOfBus DEF V
    <2> HIDE DEF Turns
    <2>3. \A i \in Nat : i \in Turns
        BY <2>1, <2>2, EveryNumber
    <2>4. QED BY <2>3 DEF Turns
<1>11. Telling(h, events, subscribers, n)
    BY <1>8, <1>9, Zenon DEF Telling
<1>12. QED BY <1>10, <1>11 DEF V

(* Every event reaches all of its subscribers, in order, whatever they     *)
(* do, and the panels show the last events and the last failures, for any  *)
(* series, any subscribers and any limits of the logs.                     *)
THEOREM EveryEventReachesItsOwn ==
    ASSUME NEW E, NEW n \in Nat, NEW events \in [1..n -> E], NEW subscribers,
           \A i \in 1..n : HeardBy(subscribers, events[i]) \in Seq(BOOLEAN)
    PROVE  Contained(EmitAll(events, subscribers), events, subscribers)
<1>0. PICK told : Telling(told, events, subscribers, n) /\ \A i \in 0..n : told[i] \in BusOf(E)
    BY SeriesIsTold
<1>1. /\ told[0] = NoBus
      /\ \A i \in 1..n : told[i] = EmitEvent(told[i - 1], subscribers, events[i])
      /\ EmitAll(events, subscribers) =
            [calls |-> told[n].calls, recent |-> RecentOf(told[n].events),
             failures |-> RecentOf(told[n].failures)]
    BY <1>0, Zenon DEF Telling
<1> DEFINE C == [id : {e.id : e \in E}, subscriber : Nat]
           heard(i) == HeardBy(subscribers, events[i])
<1>2. PICK size : \A i \in 1..n : size[i] \in Nat /\ heard(i) \in [1..size[i] -> BOOLEAN]
    <2>1. \A i \in 1..n : Len(heard(i)) \in Nat /\ heard(i) \in [1..Len(heard(i)) -> BOOLEAN]
        BY LenProperties
    <2> DEFINE sizes == [i \in 1..n |-> Len(heard(i))]
    <2>2. \A i \in 1..n : sizes[i] \in Nat /\ heard(i) \in [1..sizes[i] -> BOOLEAN]
        BY <2>1
    <2>3. QED BY <2>2
<1>3. PICK called : called = [i \in 1..n |-> CallsOf(events[i], size[i])]
    OBVIOUS
<1>4. PICK raised : raised = [i \in 1..n |-> FailuresOf(events[i], heard(i), size[i])]
    OBVIOUS
<1>5. called \in [1..n -> Seq(C)]
    <2>1. SUFFICES ASSUME NEW i \in 1..n PROVE CallsOf(events[i], size[i]) \in Seq(C)
        BY <1>3
    <2>2. PICK event \in E, m \in Nat : event = events[i] /\ m = size[i]
        BY <1>2
    <2>3. \A k \in 1..m : [id |-> event.id, subscriber |-> k] \in C
        OBVIOUS
    <2> HIDE DEF C
    <2>4. CallsOf(event, m) \in [1..m -> C]
        BY <2>3 DEF CallsOf
    <2>5. CallsOf(event, m) \in Seq(C)
        BY <2>4
    <2>6. QED BY <2>2, <2>5, Zenon
<1>6. raised \in [1..n -> Seq(E)]
    <2>1. SUFFICES ASSUME NEW i \in 1..n
                   PROVE FailuresOf(events[i], heard(i), size[i]) \in Seq(E)
        BY <1>4
    <2>2. Cardinality(RaisingOf(heard(i), size[i])) \in Nat
        <3>1. IsFiniteSet(1..size[i])
            BY <1>2, FS_Interval
        <3>2. RaisingOf(heard(i), size[i]) \subseteq 1..size[i]
            BY DEF RaisingOf
        <3>3. QED BY <3>1, <3>2, FS_Subset, FS_CardinalityType
    <2>3. PICK k \in Nat : k = Cardinality(RaisingOf(heard(i), size[i]))
        BY <2>2
    <2>4. FailuresOf(events[i], heard(i), size[i]) = [j \in 1..k |-> events[i]]
        BY <2>3 DEF FailuresOf
    <2>5. [j \in 1..k |-> events[i]] \in [1..k -> E]
        OBVIOUS
    <2>6. QED BY <2>4, <2>5
<1> HIDE DEF C
<1>7. PICK calls \in [0..n -> Seq(C)] : Laid(calls, called, n) /\ FlattenSeq(called) = calls[n]
    BY <1>5, FlatteningLays
<1>8. PICK failed \in [0..n -> Seq(E)] : Laid(failed, raised, n) /\ FlattenSeq(raised) = failed[n]
    BY <1>6, FlatteningLays
<1> DEFINE before(i) == [k \in 1..i |-> events[k]]
           Good(i) == /\ told[i].calls = calls[i]
                      /\ LogKept(told[i].events, before(i))
                      /\ LogKept(told[i].failures, failed[i])
           Turns == {i \in Nat : i <= n => Good(i)}
<1>9. 0 \in Turns
    <2>1. LogKept(<<>>, <<>>)
        <3>1. MaxLog \in Nat /\ MaxLog > 0
            BY LogsAssumption
        <3>2. (IF Len(<<>>) < MaxLog THEN Len(<<>>) ELSE MaxLog) = 0
            BY <3>1
        <3>3. <<>> = [k \in 1..0 |-> <<>>[0 - 0 + k]]
            BY NoneOfNone
        <3>4. QED BY <3>2, <3>3 DEF LogKept, KeepsLast
    <2>2. before(0) = <<>>
        BY NoneOfNone
    <2>3. /\ told[0].calls = <<>> /\ told[0].events = <<>> /\ told[0].failures = <<>>
        BY <1>1 DEF NoBus
    <2>4. calls[0] = <<>> /\ failed[0] = <<>>
        BY <1>7, <1>8 DEF Laid
    <2>5. QED BY <2>1, <2>2, <2>3, <2>4
<1>10. ASSUME NEW i \in Nat, i \in Turns PROVE i + 1 \in Turns
    <2>1. SUFFICES ASSUME i + 1 <= n PROVE Good(i + 1)
        OBVIOUS
    <2>2. Good(i) /\ i \in 0..n /\ i + 1 \in 1..n /\ (i + 1) - 1 = i
        BY <1>10, <2>1
    <2>3. PICK bus \in BusOf(E) : bus = told[i]
        BY <1>0, <2>2
    <2>4. PICK event \in E : event = events[i + 1]
        BY <2>2
    <2>5. PICK so \in Seq(E) : so = before(i)
        <3>1. before(i) \in [1..i -> E]
            <4>1. \A k \in 1..i : k \in 1..n
                BY <2>2
            <4>2. \A k \in 1..i : events[k] \in E
                BY <4>1
            <4>3. [k \in 1..i |-> events[k]] \in [1..i -> E]
                BY <4>2
            <4>4. QED BY <4>3
        <3>2. before(i) \in Seq(E)
            BY <3>1
        <3>3. QED BY <3>2, Zenon
    <2>6. PICK fell \in Seq(E) : fell = failed[i]
        BY <1>8, <2>2
    <2>7. PICK m \in Nat : m = size[i + 1]
        BY <1>2, <2>2
    <2>8. PICK all \in [1..m -> BOOLEAN] : all = heard(i + 1)
        BY <1>2, <2>2, <2>7
    <2>9. /\ HeardBy(subscribers, event) = all
          /\ LogKept(bus.events, so) /\ LogKept(bus.failures, fell)
        BY <2>2, <2>3, <2>4, <2>5, <2>6, <2>8
    <2>a. PICK next : next = EmitEvent(bus, subscribers, event)
        OBVIOUS
    <2>b. PICK kept : SoFar(next, kept, bus.calls, fell, event, all, m) /\ LogKept(kept, Append(so, event))
        BY <2>9, <2>a, OneMoreEvent
    <2>10. /\ LogKept(next.events, Append(so, event))
           /\ next.calls = bus.calls \o CallsOf(event, m)
           /\ LogKept(next.failures, fell \o FailuresOf(event, all, m))
        BY <2>b, Zenon DEF SoFar
    <2>11. told[i + 1] = next
        BY <1>1, <2>2, <2>3, <2>4, <2>a
    <2>12. Append(so, event) = before(i + 1)
        BY <2>2, <2>4, <2>5
    <2>13. bus.calls \o CallsOf(event, m) = calls[i + 1]
        BY <1>3, <1>7, <2>2, <2>3, <2>4, <2>7 DEF Laid
    <2>14. fell \o FailuresOf(event, all, m) = failed[i + 1]
        BY <1>4, <1>8, <2>2, <2>4, <2>6, <2>7, <2>8 DEF Laid
    <2>15. QED BY <2>10, <2>11, <2>12, <2>13, <2>14
<1> HIDE DEF Turns
<1>11. n \in Turns
    BY <1>9, <1>10, EveryNumber
<1>12. Good(n) /\ before(n) = events
    <2>1. n <= n
        OBVIOUS
    <2>2. Good(n)
        BY <1>11, <2>1, Zenon DEF Turns
    <2>3. before(n) = events
        OBVIOUS
    <2>4. QED BY <2>2, <2>3, Zenon
<1>13. PICK all \in Seq(E) : all = failed[n]
    BY <1>8
<1>14. events \in Seq(E)
    OBVIOUS
<1>15. RecentOf(told[n].events)
          = [k \in 1..Min({Recent, MaxLog, Len(events)}) |-> events[Len(events) - k + 1]]
    BY <1>12, <1>14, PanelsShowTheLast
<1>16. RecentOf(told[n].failures)
          = [k \in 1..Min({Recent, MaxLog, Len(all)}) |-> all[Len(all) - k + 1]]
    <2>1. PICK log : log = told[n].failures
        OBVIOUS
    <2>2. LogKept(log, all)
        BY <1>12, <1>13, <2>1
    <2>3. RecentOf(log) = [k \in 1..Min({Recent, MaxLog, Len(all)}) |-> all[Len(all) - k + 1]]
        BY <2>2, PanelsShowTheLast
    <2>4. QED BY <2>1, <2>3
<1>17. DOMAIN events = 1..n /\ \A i \in 1..n : DOMAIN heard(i) = 1..size[i]
    BY <1>2
<1>18. called = [i \in DOMAIN events |->
                   [k \in DOMAIN heard(i) |-> [id |-> events[i].id, subscriber |-> k]]]
    BY <1>3, <1>17 DEF CallsOf
<1>19. raised = [i \in DOMAIN events |->
                   [k \in 1..Cardinality({k \in DOMAIN heard(i) : heard(i)[k]}) |-> events[i]]]
    BY <1>4, <1>17 DEF FailuresOf, RaisingOf
<1>20. FlattenSeq(called) = told[n].calls /\ FlattenSeq(raised) = all
    BY <1>7, <1>8, <1>12, <1>13
<1>21. PICK answer : answer = EmitAll(events, subscribers)
    OBVIOUS
<1>22. /\ answer.calls = told[n].calls /\ answer.recent = RecentOf(told[n].events)
       /\ answer.failures = RecentOf(told[n].failures)
    BY <1>1, <1>21
<1>23. QED
    BY <1>15, <1>16, <1>18, <1>19, <1>20, <1>21, <1>22, Zenon DEF Contained

-----------------------------------------------------------------------------
(* The register of the gate.                                               *)

(* The list ends with whatever was added, and nothing else depends on it.  *)
EndsWith(log, most, E, n) ==
    \A e \in E : /\ Capping(log, e, most) \in [1..n -> E]
                 /\ Capping(log, e, most)[n] = e
                 /\ \A other \in E : Capping(log, other, most)
                                         = [Capping(log, e, most) EXCEPT ![n] = other]

(* A full list drops its oldest entry, never the one that is added.        *)
LEMMA CappingEndsWith ==
    ASSUME NEW E, NEW most \in Nat \ {0}, NEW log \in Seq(E)
    PROVE  \E n \in Nat : n # 0 /\ EndsWith(log, most, E, n)
<1>1. PICK m \in Nat : m = Len(log) /\ log \in [1..m -> E]
    BY LenProperties
<1>2. PICK all : \A x \in E : all[x] = Append(log, x)
    <2> DEFINE made == [x \in E |-> Append(log, x)]
    <2>1. \A x \in E : made[x] = Append(log, x)
        OBVIOUS
    <2>2. QED BY <2>1
<1>a. \A k \in 1..(m + 1) : k # m + 1 => k \in 1..m /\ log[k] \in E
    BY <1>1
<1>b. \A k \in 1..m : k # m => k + 1 \in 1..m /\ log[k + 1] \in E
    <2>1. \A k \in 1..m : k # m => k + 1 \in 1..m
        OBVIOUS
    <2>2. \A k \in 1..m : log[k] \in E
        BY <1>1
    <2>3. QED BY <2>1, <2>2
<1>3. ASSUME NEW x \in E
      PROVE  all[x] = [k \in 1..(m + 1) |-> IF k = m + 1 THEN x ELSE log[k]]
    BY <1>1, <1>2
<1>4. ASSUME NEW x \in E
      PROVE  all[x] \in Seq(E) /\ Len(all[x]) = m + 1
             /\ Tail(all[x]) = [k \in 1..m |-> IF k = m THEN x ELSE log[k + 1]]
    <2>1. all[x] \in [1..(m + 1) -> E]
        <3>1. [k \in 1..(m + 1) |-> IF k = m + 1 THEN x ELSE log[k]] \in [1..(m + 1) -> E]
            BY <1>a
        <3>2. QED BY <1>3, <3>1
    <2>2. all[x] \in Seq(E) /\ Len(all[x]) = m + 1 /\ all[x] # <<>>
        BY <2>1
    <2>3. PICK rest : rest = Tail(all[x])
        OBVIOUS
    <2>4. /\ rest \in Seq(E) /\ Len(rest) = Len(all[x]) - 1
          /\ \A k \in 1..Len(rest) : rest[k] = all[x][k + 1]
        BY <2>2, <2>3, HeadTailProperties
    <2>5. Len(rest) = m /\ rest \in [1..m -> E]
        BY <2>2, <2>4, LenProperties
    <2>6. \A k \in 1..m : rest[k] = IF k = m THEN x ELSE log[k + 1]
        <3>1. SUFFICES ASSUME NEW k \in 1..m PROVE rest[k] = IF k = m THEN x ELSE log[k + 1]
            OBVIOUS
        <3>2. k + 1 \in 1..(m + 1) /\ (k + 1 = m + 1 <=> k = m)
            OBVIOUS
        <3>3. all[x][k + 1] = IF k = m THEN x ELSE log[k + 1]
            BY <1>3, <3>2
        <3>4. rest[k] = all[x][k + 1]
            BY <2>4, <2>5
        <3>5. QED BY <3>3, <3>4
    <2>7. QED BY <2>2, <2>3, <2>5, <2>6
<1>5. CASE m + 1 > most
    <2>1. \A x \in E : Capping(log, x, most) = [k \in 1..m |-> IF k = m THEN x ELSE log[k + 1]]
        <3>1. SUFFICES ASSUME NEW x \in E
                       PROVE Capping(log, x, most) = [k \in 1..m |-> IF k = m THEN x ELSE log[k + 1]]
            OBVIOUS
        <3>2. Capping(log, x, most) = Tail(all[x])
            BY <1>2, <1>4, <1>5 DEF Capping
        <3>3. QED BY <1>4, <3>2
    <2>2. m # 0
        BY <1>5
    <2>3. ASSUME NEW x \in E
          PROVE  [k \in 1..m |-> IF k = m THEN x ELSE log[k + 1]] \in [1..m -> E]
        BY <1>b
    <2>4. EndsWith(log, most, E, m)
        <3>1. m \in 1..m
            BY <2>2
        <3>2. SUFFICES ASSUME NEW e \in E
                       PROVE /\ Capping(log, e, most) \in [1..m -> E]
                             /\ Capping(log, e, most)[m] = e
                             /\ \A other \in E : Capping(log, other, most)
                                                     = [Capping(log, e, most) EXCEPT ![m] = other]
            BY DEF EndsWith
        <3>3. PICK kept : kept = Capping(log, e, most)
            OBVIOUS
        <3>4. kept = [k \in 1..m |-> IF k = m THEN e ELSE log[k + 1]]
            BY <2>1, <3>3
        <3>5. kept \in [1..m -> E] /\ kept[m] = e
            BY <2>3, <3>1, <3>4
        <3>6. ASSUME NEW other \in E PROVE Capping(log, other, most) = [kept EXCEPT ![m] = other]
            <4>1. Capping(log, other, most) = [k \in 1..m |-> IF k = m THEN other ELSE log[k + 1]]
                BY <2>1
            <4>2. QED BY <3>1, <3>4, <4>1
        <3>7. QED BY <3>3, <3>5, <3>6
    <2>5. QED BY <2>2, <2>4
<1>6. CASE ~ (m + 1 > most)
    <2>1. \A x \in E : Capping(log, x, most)
                           = [k \in 1..(m + 1) |-> IF k = m + 1 THEN x ELSE log[k]]
        BY <1>2, <1>3, <1>4, <1>6 DEF Capping
    <2>2. m + 1 # 0 /\ m + 1 \in Nat
        OBVIOUS
    <2>3. ASSUME NEW x \in E
          PROVE  [k \in 1..(m + 1) |-> IF k = m + 1 THEN x ELSE log[k]] \in [1..(m + 1) -> E]
        BY <1>a
    <2>4. EndsWith(log, most, E, m + 1)
        <3>1. PICK p \in Nat : p = m + 1
            OBVIOUS
        <3>2. p \in 1..p
            BY <3>1
        <3>3. /\ \A x \in E : Capping(log, x, most) = [k \in 1..p |-> IF k = p THEN x ELSE log[k]]
              /\ \A x \in E : [k \in 1..p |-> IF k = p THEN x ELSE log[k]] \in [1..p -> E]
            BY <2>1, <2>3, <3>1
        <3>4. EndsWith(log, most, E, p)
            BY <3>2, <3>3 DEF EndsWith
        <3>5. QED BY <3>1, <3>4
    <2>5. QED BY <2>2, <2>4
<1>7. QED BY <1>5, <1>6

(* The records of requests of R: a stage is of the gate's or an answer.    *)
RecordsOf(R) ==
    {[id |-> r.id, stage |-> s] : r \in R, s \in {"routing", "dispatching"} \cup {q.answer : q \in R}}

AnswerOf(request) == [id |-> request.id, stage |-> request.answer]

LEMMA RecordsAreOf ==
    ASSUME NEW R, NEW request \in R
    PROVE  /\ [id |-> request.id, stage |-> "routing"] \in RecordsOf(R)
           /\ [id |-> request.id, stage |-> "dispatching"] \in RecordsOf(R)
           /\ AnswerOf(request) \in RecordsOf(R)
<1> DEFINE S == {"routing", "dispatching"} \cup {q.answer : q \in R}
<1>1. "routing" \in S /\ "dispatching" \in S /\ request.answer \in S
    OBVIOUS
<1>2. RecordsOf(R) = {[id |-> r.id, stage |-> s] : r \in R, s \in S}
    BY DEF RecordsOf
<1> HIDE DEF S
<1>3. \A s \in S : [id |-> request.id, stage |-> s] \in RecordsOf(R)
    BY <1>2
<1>4. QED BY <1>1, <1>3 DEF AnswerOf

(* What is patched is the newest record, when it is the request's.         *)
PatchedAt(register, n, id, stage) ==
    Patch(register, id, stage) = [register EXCEPT ![n] = [id |-> id, stage |-> stage]]

LEMMA PatchesTheLast ==
    ASSUME NEW R, NEW n \in Nat, n # 0, NEW register \in [1..n -> RecordsOf(R)],
           NEW id, register[n].id = id, NEW stage
    PROVE  PatchedAt(register, n, id, stage)
<1> DEFINE at == {i \in DOMAIN register : register[i].id = id}
<1>1. n \in at /\ at \in SUBSET (1..n)
    OBVIOUS
<1>2. IsFiniteSet(at)
    BY <1>1, FS_Interval, FS_Subset
<1>3. Max(at) = n
    <2>1. PICK D : D = at
        OBVIOUS
    <2>2. D \in SUBSET Int /\ D # {} /\ IsFiniteSet(D) /\ n \in D /\ D \in SUBSET (1..n)
        BY <1>1, <1>2, <2>1
    <2>3. Max(D) \in D /\ \A y \in D : y <= Max(D)
        BY <2>2, MaxIsGreatest
    <2>m. PICK most \in Int : most = Max(D)
        BY <2>2, <2>3
    <2>n. most \in 1..n /\ n <= most
        BY <2>2, <2>3, <2>m
    <2>4. Max(D) = n
        BY <2>m, <2>n
    <2>5. QED BY <2>1, <2>4
<1>4. Patch(register, id, stage) = [register EXCEPT ![n].stage = stage]
    <2>1. at # {}
        BY <1>1
    <2>2. QED BY <1>3, <2>1, Zenon DEF Patch
<1>5. PICK r : r = register[n]
    OBVIOUS
<1>6. [r EXCEPT !.stage = stage] = [id |-> id, stage |-> stage]
    <2>1. r \in RecordsOf(R)
        BY <1>1, <1>5
    <2>2. PICK i, s : r = [id |-> i, stage |-> s]
        BY <2>1 DEF RecordsOf
    <2>3. i = id
        BY <1>5, <2>2
    <2>4. QED BY <2>2, <2>3
<1>7. [register EXCEPT ![n].stage = stage] = [register EXCEPT ![n] = [r EXCEPT !.stage = stage]]
    BY <1>5, Zenon
<1>8. QED BY <1>4, <1>6, <1>7 DEF PatchedAt

(* A request is started, routed and answered on one record, the newest.    *)
LEMMA ReceivingCaps ==
    ASSUME NEW R, NEW register \in Seq(RecordsOf(R)), NEW request \in R
    PROVE  ReceiveRequest(register, request) = Capping(register, AnswerOf(request), MaxRecords)
<1> DEFINE E == RecordsOf(R)
           as(stage) == [id |-> request.id, stage |-> stage]
<1>1. as("routing") \in E /\ as("dispatching") \in E /\ as(request.answer) \in E
      /\ AnswerOf(request) = as(request.answer)
    BY RecordsAreOf DEF AnswerOf
<1> HIDE DEF E
<1>2. MaxRecords \in Nat \ {0} /\ register \in Seq(E)
    BY RegisterAssumption DEF E
<1>3. PICK first : first = Capping(register, as("routing"), MaxRecords)
    OBVIOUS
<1>4. PICK n \in Nat :
          /\ n # 0 /\ first \in [1..n -> E] /\ first[n] = as("routing")
          /\ \A other \in E : Capping(register, other, MaxRecords) = [first EXCEPT ![n] = other]
    <2>1. PICK e \in E : e = as("routing")
        BY <1>1
    <2>2. PICK n \in Nat : n # 0 /\ EndsWith(register, MaxRecords, E, n)
        BY <1>2, CappingEndsWith
    <2>3. /\ Capping(register, e, MaxRecords) \in [1..n -> E]
          /\ Capping(register, e, MaxRecords)[n] = e
          /\ \A other \in E : Capping(register, other, MaxRecords)
                                  = [Capping(register, e, MaxRecords) EXCEPT ![n] = other]
        BY <2>2, Zenon DEF EndsWith
    <2>4. first = Capping(register, e, MaxRecords)
        BY <1>3, <2>1
    <2>5. QED BY <2>1, <2>2, <2>3, <2>4, Zenon
<1>5. Start(register, request.id) = first
    BY <1>3 DEF Start, Capping
<1>6. PICK second : second = [first EXCEPT ![n] = as("dispatching")]
    OBVIOUS
<1>7. second \in [1..n -> E] /\ second[n] = as("dispatching")
    BY <1>1, <1>4, <1>6
<1>8. Patch(first, request.id, "dispatching") = second
    <2>1. first[n].id = request.id
        BY <1>4
    <2>2. first \in [1..n -> RecordsOf(R)]
        BY <1>4 DEF E
    <2>3. PICK id, stage : id = request.id /\ stage = "dispatching"
        OBVIOUS
    <2>4. PatchedAt(first, n, id, stage)
        BY <1>4, <2>1, <2>2, <2>3, PatchesTheLast
    <2>5. QED BY <1>6, <2>3, <2>4 DEF PatchedAt
<1>9. Patch(second, request.id, request.answer) = [second EXCEPT ![n] = as(request.answer)]
    <2>1. second[n].id = request.id
        BY <1>7
    <2>2. second \in [1..n -> RecordsOf(R)]
        BY <1>7 DEF E
    <2>3. PICK id, stage : id = request.id /\ stage = request.answer
        OBVIOUS
    <2>4. PatchedAt(second, n, id, stage)
        BY <1>4, <2>1, <2>2, <2>3, PatchesTheLast
    <2>5. QED BY <2>3, <2>4 DEF PatchedAt
<1>10. [second EXCEPT ![n] = as(request.answer)] = [first EXCEPT ![n] = as(request.answer)]
    BY <1>4, <1>6, <1>7
<1>11. QED BY <1>1, <1>4, <1>5, <1>8, <1>9, <1>10 DEF ReceiveRequest

(* The gate's own list stays one of records of the requests.               *)
LEMMA ServingIsOfRecords ==
    ASSUME NEW R, NEW register \in Seq(RecordsOf(R)), NEW request \in R
    PROVE  Serve(register, request) \in Seq(RecordsOf(R))
<1>1. CASE request.answer = "unreached"
    BY <1>1 DEF Serve
<1>2. CASE request.answer # "unreached"
    <2>1. PICK E : E = RecordsOf(R)
        OBVIOUS
    <2>2. PICK e \in E : e = AnswerOf(request)
        BY <2>1, RecordsAreOf
    <2>3. register \in Seq(E) /\ MaxRecords \in Nat \ {0}
        BY <2>1, RegisterAssumption
    <2>4. PICK n \in Nat : n # 0 /\ EndsWith(register, MaxRecords, E, n)
        BY <2>3, CappingEndsWith
    <2>5. PICK kept : kept = Capping(register, e, MaxRecords)
        OBVIOUS
    <2>6. kept \in [1..n -> E]
        BY <2>4, <2>5, Zenon DEF EndsWith
    <2>7. kept \in Seq(E)
        BY <2>6
    <2>8. ReceiveRequest(register, request) = kept
        BY <2>2, <2>5, ReceivingCaps
    <2>9. QED BY <1>2, <2>1, <2>7, <2>8 DEF Serve
<1>3. QED BY <1>1, <1>2

(* The register after each of n requests, and the panels it shows.         *)
Serving(after, requests, n) ==
    /\ after[0] = <<>>
    /\ \A i \in 1..n : after[i] = Serve(after[i - 1], requests[i])
    /\ Panels(requests) = [i \in 1..n |-> InFlight(after[i])]

LEMMA RequestsAreServed ==
    ASSUME NEW R, NEW n \in Nat, NEW requests \in [1..n -> R]
    PROVE  \E after : /\ Serving(after, requests, n)
                      /\ \A i \in 0..n : after[i] \in Seq(RecordsOf(R))
<1> DEFINE V == Seq(RecordsOf(R))
           F == [i \in 1..n |-> [v \in V |-> Serve(v, requests[i])]]
<1>1. <<>> \in V
    OBVIOUS
<1>2. \A i \in 1..n, v \in V : F[i][v] = Serve(v, requests[i])
    OBVIOUS
<1>3. IsTurn(F, n, V)
    <2>1. \A i \in 1..n : requests[i] \in R
        OBVIOUS
    <2> HIDE DEF F, V
    <2>2. QED BY <1>2, <2>1, ServingIsOfRecords DEF IsTurn, V
<1> HIDE DEF V, F
<1>4. PICK g \in [0..n -> V] : IsLoop(g, n, <<>>, F)
    BY <1>1, <1>3, LoopExists
<1>5. \A i \in 0..n : i # 0 => F[i][g[i - 1]] = Serve(g[i - 1], requests[i])
    <2>1. SUFFICES ASSUME NEW i \in 0..n, i # 0
                   PROVE  F[i][g[i - 1]] = Serve(g[i - 1], requests[i])
        OBVIOUS
    <2>2. i \in 1..n /\ i - 1 \in 0..n
        BY <2>1
    <2>3. g[i - 1] \in V
        BY <2>2
    <2>4. QED BY <1>2, <2>2, <2>3
<1>6. g = [i \in 0..n |-> IF i = 0 THEN <<>> ELSE Serve(g[i - 1], requests[i])]
    BY <1>4, <1>5 DEF IsLoop
<1>7. Len(requests) = n /\ DOMAIN requests = 1..n
    OBVIOUS
<1>8. PICK h : /\ h = [i \in 0..n |-> IF i = 0 THEN <<>> ELSE Serve(h[i - 1], requests[i])]
               /\ Panels(requests) = [i \in 1..n |-> InFlight(h[i])]
    <2>1. \E h : h = [i \in 0..n |-> IF i = 0 THEN <<>> ELSE Serve(h[i - 1], requests[i])]
        BY <1>6
    <2>2. QED BY <1>7, <2>1, Zenon DEF Panels
<1>9. h[0] = <<>> /\ \A i \in 1..n : h[i] = Serve(h[i - 1], requests[i])
    BY <1>8
<1>10. \A i \in 0..n : h[i] \in V
    <2> DEFINE Turns == {i \in Nat : i <= n => h[i] \in V}
    <2>1. 0 \in Turns
        BY <1>1, <1>9
    <2>2. ASSUME NEW i \in Nat, i \in Turns PROVE i + 1 \in Turns
        <3>1. SUFFICES ASSUME i + 1 <= n PROVE h[i + 1] \in V
            OBVIOUS
        <3>2. h[i] \in V /\ i + 1 \in 1..n /\ (i + 1) - 1 = i
            BY <2>2, <3>1
        <3>3. h[i + 1] = Serve(h[i], requests[i + 1])
            BY <1>9, <3>2
        <3>4. requests[i + 1] \in R
            BY <3>2
        <3>5. QED BY <3>2, <3>3, <3>4, ServingIsOfRecords DEF V
    <2> HIDE DEF Turns
    <2>3. \A i \in Nat : i \in Turns
        BY <2>1, <2>2, EveryNumber
    <2>4. QED BY <2>3 DEF Turns
<1>11. Serving(h, requests, n)
    BY <1>8, <1>9, Zenon DEF Serving
<1>12. QED BY <1>10, <1>11 DEF V

(* The requests that reached the gate, after each.                         *)
Reaching(reached, requests, i) ==
    /\ reached[0] = <<>>
    /\ \A n \in 1..i : reached[n] = IF requests[n].answer = "unreached" THEN reached[n - 1]
                                    ELSE Append(reached[n - 1], requests[n])
    /\ Answered(requests, i) = reached[i]

LEMMA RequestsAreReached ==
    ASSUME NEW R, NEW i \in Nat, NEW requests, \A n \in 1..i : requests[n] \in R
    PROVE  \E reached : /\ Reaching(reached, requests, i)
                        /\ \A n \in 0..i : reached[n] \in Seq(R)
<1> DEFINE V == Seq(R)
           One1(n, v) == IF requests[n].answer = "unreached" THEN v ELSE Append(v, requests[n])
           F == [n \in 1..i |-> [v \in V |-> One1(n, v)]]
<1>1. <<>> \in V
    OBVIOUS
<1>2. \A n \in 1..i, v \in V : F[n][v] = One1(n, v)
    OBVIOUS
<1>3. \A n \in 1..i, v \in V : One1(n, v) \in V
    <2>1. SUFFICES ASSUME NEW n \in 1..i, NEW v \in V PROVE One1(n, v) \in V
        OBVIOUS
    <2>2. Append(v, requests[n]) \in V
        OBVIOUS
    <2>3. QED BY <2>2, Zenon
<1>4. IsTurn(F, i, V)
    <2> HIDE DEF F, V, One1
    <2>1. QED BY <1>2, <1>3 DEF IsTurn
<1> HIDE DEF V, F
<1>5. PICK g \in [0..i -> V] : IsLoop(g, i, <<>>, F)
    BY <1>1, <1>4, LoopExists
<1>6. \A n \in 0..i : n # 0 => F[n][g[n - 1]] = One1(n, g[n - 1])
    <2>1. SUFFICES ASSUME NEW n \in 0..i, n # 0 PROVE F[n][g[n - 1]] = One1(n, g[n - 1])
        OBVIOUS
    <2>2. n \in 1..i /\ n - 1 \in 0..i
        BY <2>1
    <2>3. g[n - 1] \in V
        BY <2>2
    <2> HIDE DEF One1
    <2>4. QED BY <1>2, <2>2, <2>3
<1>7. g = [n \in 0..i |-> IF n = 0 THEN <<>> ELSE One1(n, g[n - 1])]
    <2> HIDE DEF One1
    <2>1. QED BY <1>5, <1>6 DEF IsLoop
<1>8. PICK h : /\ h = [n \in 0..i |-> IF n = 0 THEN <<>>
                                      ELSE IF requests[n].answer = "unreached" THEN h[n - 1]
                                      ELSE Append(h[n - 1], requests[n])]
               /\ Answered(requests, i) = h[i]
    <2>1. \E h : h = [n \in 0..i |-> IF n = 0 THEN <<>>
                                     ELSE IF requests[n].answer = "unreached" THEN h[n - 1]
                                     ELSE Append(h[n - 1], requests[n])]
        BY <1>7, Zenon
    <2>2. QED BY <2>1, Zenon DEF Answered
<1>9. /\ h[0] = <<>>
      /\ \A n \in 1..i : h[n] = IF requests[n].answer = "unreached" THEN h[n - 1]
                                ELSE Append(h[n - 1], requests[n])
    <2>1. h = [n \in 0..i |-> IF n = 0 THEN <<>> ELSE One1(n, h[n - 1])]
        BY <1>8, Zenon
    <2>2. h[0] = <<>> /\ \A n \in 1..i : h[n] = One1(n, h[n - 1])
        <3> HIDE DEF One1
        <3>1. QED BY <2>1
    <2>3. QED BY <2>2, Zenon
<1>10. \A n \in 0..i : h[n] \in V
    <2> DEFINE Turns == {n \in Nat : n <= i => h[n] \in V}
    <2>1. 0 \in Turns
        BY <1>1, <1>9
    <2>2. ASSUME NEW n \in Nat, n \in Turns PROVE n + 1 \in Turns
        <3>1. SUFFICES ASSUME n + 1 <= i PROVE h[n + 1] \in V
            OBVIOUS
        <3>2. h[n] \in V /\ n + 1 \in 1..i /\ (n + 1) - 1 = n
            BY <2>2, <3>1
        <3>3. h[n + 1] = One1(n + 1, h[n])
            BY <1>9, <3>2
        <3> HIDE DEF One1
        <3>4. QED BY <1>3, <3>2, <3>3
    <2> HIDE DEF Turns
    <2>3. \A n \in Nat : n \in Turns
        BY <2>1, <2>2, EveryNumber
    <2>4. QED BY <2>3 DEF Turns
<1>11. Reaching(h, requests, i)
    BY <1>8, <1>9, Zenon DEF Reaching
<1>12. QED BY <1>10, <1>11 DEF V

(* What the requests were answered, as records.                            *)
SaidOf(requests) == [k \in 1..Len(requests) |-> AnswerOf(requests[k])]

LEMMA SaidIsOfRecords ==
    ASSUME NEW R, NEW requests \in Seq(R)
    PROVE  SaidOf(requests) \in Seq(RecordsOf(R)) /\ Len(SaidOf(requests)) = Len(requests)
<1>1. PICK n \in Nat : n = Len(requests) /\ requests \in [1..n -> R]
    BY LenProperties
<1>2. \A k \in 1..n : AnswerOf(requests[k]) \in RecordsOf(R)
    BY <1>1, RecordsAreOf
<1>3. SaidOf(requests) = [k \in 1..n |-> AnswerOf(requests[k])]
    BY <1>1 DEF SaidOf
<1> HIDE DEF SaidOf
<1>4. SaidOf(requests) \in [1..n -> RecordsOf(R)]
    BY <1>2, <1>3
<1>5. QED BY <1>1, <1>4

LEMMA SaidGrows ==
    ASSUME NEW R, NEW requests \in Seq(R), NEW request \in R
    PROVE  SaidOf(Append(requests, request)) = Append(SaidOf(requests), AnswerOf(request))
<1>1. PICK n \in Nat : n = Len(requests)
    BY LenProperties
<1>2. PICK more : more = Append(requests, request)
    OBVIOUS
<1>3. Len(more) = n + 1 /\ \A k \in 1..(n + 1) : more[k] = IF k = n + 1 THEN request ELSE requests[k]
    BY <1>1, <1>2, AppendProperties
<1>4. PICK E, said, e : E = RecordsOf(R) /\ said = SaidOf(requests) /\ e = AnswerOf(request)
    OBVIOUS
<1>5. said \in Seq(E) /\ Len(said) = n /\ e \in E
    BY <1>1, <1>4, SaidIsOfRecords, RecordsAreOf
<1>6. \A k \in 1..n : said[k] = AnswerOf(requests[k])
    BY <1>1, <1>4 DEF SaidOf
<1>7. PICK longer : longer = Append(said, e)
    OBVIOUS
<1>8. longer = [k \in 1..(n + 1) |-> IF k = n + 1 THEN e ELSE said[k]]
    <2>1. /\ longer \in Seq(E) /\ Len(longer) = n + 1
          /\ \A k \in 1..(n + 1) : longer[k] = IF k = n + 1 THEN e ELSE said[k]
        BY <1>5, <1>7, AppendProperties
    <2>2. longer \in [1..(n + 1) -> E]
        BY <2>1, LenProperties
    <2>3. QED BY <2>1, <2>2
<1>9. \A k \in 1..(n + 1) : (IF k = n + 1 THEN e ELSE said[k]) = AnswerOf(more[k])
    <2>1. SUFFICES ASSUME NEW k \in 1..(n + 1)
                   PROVE (IF k = n + 1 THEN e ELSE said[k]) = AnswerOf(more[k])
        OBVIOUS
    <2>2. CASE k = n + 1
        BY <1>3, <1>4, <2>2
    <2>3. CASE k # n + 1
        <3>1. k \in 1..n
            BY <2>3
        <3>2. more[k] = requests[k] /\ said[k] = AnswerOf(requests[k])
            BY <1>3, <1>6, <2>3, <3>1
        <3>3. QED BY <2>3, <3>2
    <2>4. QED BY <2>2, <2>3
<1>10. longer = [k \in 1..(n + 1) |-> AnswerOf(more[k])]
    BY <1>8, <1>9
<1>11. SaidOf(more) = longer
    BY <1>3, <1>10 DEF SaidOf
<1>12. QED BY <1>2, <1>4, <1>7, <1>11

(* After each request the register keeps the last answers.                 *)
LEMMA RegisterKeepsAnswers ==
    ASSUME NEW R, NEW n \in Nat, NEW requests \in [1..n -> R], NEW i \in 0..n,
           NEW after, Serving(after, requests, n),
           \A j \in 0..n : after[j] \in Seq(RecordsOf(R)),
           NEW reached, Reaching(reached, requests, i),
           \A j \in 0..i : reached[j] \in Seq(R)
    PROVE  KeepsLast(after[i], SaidOf(reached[i]), MaxRecords)
<1>1. MaxRecords \in Nat \ {0} /\ MaxRecords \in Nat /\ MaxRecords # 0 /\ i \in Nat /\ i <= n
    BY RegisterAssumption
<1> DEFINE Turns == {j \in Nat : j <= i => KeepsLast(after[j], SaidOf(reached[j]), MaxRecords)}
<1>2. 0 \in Turns
    <2>1. after[0] = <<>> /\ reached[0] = <<>>
        BY DEF Serving, Reaching
    <2>2. <<>> = [k \in 1..0 |-> AnswerOf(<<>>[k])]
        BY NoneOfNone
    <2>3. SaidOf(<<>>) = <<>>
        BY <2>2 DEF SaidOf
    <2>4. KeepsLast(<<>>, <<>>, MaxRecords)
        <3>1. (IF Len(<<>>) < MaxRecords THEN Len(<<>>) ELSE MaxRecords) = 0
            BY <1>1
        <3>2. <<>> = [k \in 1..0 |-> <<>>[Len(<<>>) - 0 + k]]
            BY NoneOfNone
        <3>3. QED BY <3>1, <3>2 DEF KeepsLast
    <2>5. QED BY <2>1, <2>3, <2>4
<1>3. ASSUME NEW j \in Nat, j \in Turns PROVE j + 1 \in Turns
    <2>1. SUFFICES ASSUME j + 1 <= i PROVE KeepsLast(after[j + 1], SaidOf(reached[j + 1]), MaxRecords)
        OBVIOUS
    <2>2. KeepsLast(after[j], SaidOf(reached[j]), MaxRecords)
        BY <1>3, <2>1
    <2>3. j + 1 \in 1..n /\ j + 1 \in 1..i /\ (j + 1) - 1 = j /\ j \in 0..n /\ j \in 0..i
        BY <1>1, <2>1
    <2>4. PICK request \in R : request = requests[j + 1]
        BY <2>3
    <2>5. after[j + 1] = Serve(after[j], request)
        BY <2>3, <2>4 DEF Serving
    <2>6. reached[j + 1] = IF request.answer = "unreached" THEN reached[j]
                           ELSE Append(reached[j], request)
        BY <2>3, <2>4 DEF Reaching
    <2>7. CASE request.answer = "unreached"
        BY <2>2, <2>5, <2>6, <2>7 DEF Serve
    <2>8. CASE request.answer # "unreached"
        <3>1. PICK E, said, e, register, so :
                  /\ E = RecordsOf(R) /\ e = AnswerOf(request) /\ register = after[j]
                  /\ so = reached[j] /\ said = SaidOf(so)
            OBVIOUS
        <3>2. so \in Seq(R) /\ register \in Seq(E)
            BY <2>3, <3>1
        <3>3. said \in Seq(E) /\ e \in E
            BY <3>1, <3>2, SaidIsOfRecords, RecordsAreOf
        <3>4. KeepsLast(register, said, MaxRecords)
            BY <2>2, <3>1
        <3>5. KeepsLast(Capping(register, e, MaxRecords), Append(said, e), MaxRecords)
            BY <1>1, <3>3, <3>4, CappingKeeps
        <3>6. after[j + 1] = Capping(register, e, MaxRecords)
            <4>1. ReceiveRequest(register, request) = Capping(register, AnswerOf(request), MaxRecords)
                BY <3>1, <3>2, ReceivingCaps
            <4>2. Serve(register, request) = ReceiveRequest(register, request)
                BY <2>8 DEF Serve
            <4>3. QED BY <2>5, <3>1, <4>1, <4>2
        <3>7. SaidOf(reached[j + 1]) = Append(said, e)
            <4>1. reached[j + 1] = Append(so, request)
                BY <2>6, <2>8, <3>1
            <4>2. SaidOf(Append(so, request)) = Append(SaidOf(so), AnswerOf(request))
                BY <3>2, SaidGrows
            <4>3. QED BY <3>1, <4>1, <4>2
        <3>8. QED BY <3>5, <3>6, <3>7
    <2>9. QED BY <2>7, <2>8
<1> HIDE DEF Turns
<1>4. \A j \in Nat : j \in Turns
    BY <1>2, <1>3, EveryNumber
<1>5. QED BY <1>1, <1>4 DEF Turns

(* Every panel shows the last answers, its own first, each with its own    *)
(* outcome, for any series of requests and any limits of the register      *)
(* (start_request, patch_request, list_in_flight).                         *)
THEOREM PanelsShowTheAnswers ==
    ASSUME NEW R, NEW n \in Nat, NEW requests \in [1..n -> R]
    PROVE  ShowsAnswers(requests, Panels(requests))
<1>1. PICK after : /\ Serving(after, requests, n)
                   /\ \A i \in 0..n : after[i] \in Seq(RecordsOf(R))
    BY RequestsAreServed
<1>2. SUFFICES ASSUME NEW i \in 1..n
               PROVE  LET answers == Answered(requests, i)
                          newest(k) == answers[Len(answers) - k + 1]
                      IN  Panels(requests)[i]
                              = [k \in 1..Min({Shown, MaxRecords, Len(answers)}) |->
                                    [id |-> newest(k).id, stage |-> newest(k).answer]]
    BY DEF ShowsAnswers
<1>3. i \in Nat /\ i \in 0..n /\ \A j \in 1..i : requests[j] \in R
    OBVIOUS
<1>4. PICK reached : /\ Reaching(reached, requests, i)
                     /\ \A j \in 0..i : reached[j] \in Seq(R)
    BY <1>3, RequestsAreReached
<1>5. PICK answers : answers = reached[i]
    OBVIOUS
<1>6. answers \in Seq(R) /\ Answered(requests, i) = answers
    BY <1>3, <1>4, <1>5 DEF Reaching
<1>7. PICK E, said, register : E = RecordsOf(R) /\ said = SaidOf(answers) /\ register = after[i]
    OBVIOUS
<1>8. said \in Seq(E) /\ Len(said) = Len(answers)
    BY <1>6, <1>7, SaidIsOfRecords
<1>9. KeepsLast(register, said, MaxRecords)
    BY <1>1, <1>3, <1>4, <1>5, <1>7, RegisterKeepsAnswers
<1>10. PICK m \in Nat : m = Len(answers)
    BY <1>6, LenProperties
<1>11. PICK r : r = Min({Shown, MaxRecords, m})
    OBVIOUS
<1>12. NewestOf(register, Shown) = [k \in 1..r |-> said[m - k + 1]] /\ r \in 0..m
    <2>1. Len(said) = m
        BY <1>8, <1>10
    <2>2. Shown \in Nat \ {0} /\ MaxRecords \in Nat \ {0}
        BY RegisterAssumption
    <2>3. AreLast(NewestOf(register, Shown), said, Shown, MaxRecords)
        BY <1>8, <1>9, <2>2, NewestAreTheLast
    <2>4. QED BY <1>11, <2>1, <2>3 DEF AreLast
<1>13. Panels(requests)[i] = NewestOf(register, Shown)
    <2>1. Panels(requests) = [j \in 1..n |-> InFlight(after[j])]
        BY <1>1 DEF Serving
    <2>2. InFlight(register) = NewestOf(register, Shown)
        BY DEF InFlight, NewestOf
    <2>3. QED BY <1>7, <2>1, <2>2
<1>14. \A k \in 1..r : said[m - k + 1] = [id |-> answers[m - k + 1].id,
                                          stage |-> answers[m - k + 1].answer]
    <2>1. \A k \in 1..r : m - k + 1 \in 1..m
        BY <1>12
    <2>2. \A k \in 1..m : said[k] = [id |-> answers[k].id, stage |-> answers[k].answer]
        BY <1>7, <1>10 DEF SaidOf, AnswerOf
    <2>3. QED BY <2>1, <2>2
<1>15. QED BY <1>6, <1>10, <1>11, <1>12, <1>13, <1>14
=============================================================================
