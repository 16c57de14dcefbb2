---------------------------- MODULE Reconciliation ----------------------------
(***************************************************************************)
(* reconcile_ingest as a function: the breaks one custodian file opens     *)
(* against the books.                                                      *)
(*                                                                         *)
(* A file is a sequence of positions [account, security, qty, date].  The  *)
(* books are a record of                                                   *)
(*   lots       the summed lot quantity of each (account, security) held   *)
(*   marks      the as-of dates of the market prices                       *)
(*   ids        the identifier of a security under each scheme, or NoId    *)
(*   custodied  the accounts held at the custodian of the file             *)
(* A break is a record: its type, its account, what it is about and the    *)
(* row it was found in (0 if none).                                        *)
(***************************************************************************)
EXTENDS Naturals, Sequences, FiniteSets, FiniteSetsExt

CONSTANT NoId       \* no ISIN, or no CUSIP

Schemes == {"isin", "cusip"}

Break(type, account, about, row) ==
    [type |-> type, account |-> account, about |-> about, row |-> row]

Key(position) == <<position.account, position.security>>

(* The positions the file has a row for.                                   *)
Reported(rows) == {Key(rows[i]) : i \in DOMAIN rows}

(* ledger.get(key, 0)                                                      *)
LedgerQty(books, key) == IF key \in DOMAIN books.lots THEN books.lots[key] ELSE 0

(* The dates a file may carry: that of the latest mark, if there is one.   *)
LedgerDates(books) == IF books.marks = {} THEN {} ELSE {Max(books.marks)}

FileDates(rows) == {rows[i].date : i \in DOMAIN rows}

(* Mutant: a file with several dates is judged by its first row.           *)
AsOfBreaks_FirstRow(rows, books) ==
    IF {rows[1].date} = LedgerDates(books) THEN {}
    ELSE {Break("stale_as_of", rows[1].account, NoId, 0)}

AsOfBreaks(rows, books) ==
    IF rows = <<>> \/ FileDates(rows) = LedgerDates(books) THEN {}
    ELSE {Break(IF Cardinality(FileDates(rows)) > 1 THEN "mixed_as_of" ELSE "stale_as_of",
                rows[1].account, NoId, 0)}

QuantityBreaks(rows, books) ==
    {Break("quantity_mismatch", rows[i].account, rows[i].security, i) :
        i \in {i \in DOMAIN rows : LedgerQty(books, Key(rows[i])) # rows[i].qty}}

(* Mutant: the books of every custodian, not only of the file's.           *)
Unreported_AnyCustodian(rows, books) ==
    {key \in DOMAIN books.lots : key \notin Reported(rows) /\ books.lots[key] # 0}

(* Held at the custodian by the books, and not in the file.                *)
Unreported(rows, books) ==
    {key \in DOMAIN books.lots :
        /\ key[1] \in books.custodied
        /\ key \notin Reported(rows)
        /\ books.lots[key] # 0}

LedgerOnlyBreaks(rows, books) ==
    {Break("ledger_only", key[1], key[2], 0) : key \in Unreported(rows, books)}

Touched(rows, books) ==
    {key[2] : key \in Reported(rows) \cup Unreported(rows, books)}

Carriers(books, scheme, id) ==
    {security \in DOMAIN books.ids[scheme] : books.ids[scheme][security] = id}

(* The identifiers of touched securities that two securities carry.        *)
Conflicts(rows, books, scheme) ==
    {id \in {books.ids[scheme][security] : security \in Touched(rows, books)} :
        id # NoId /\ Cardinality(Carriers(books, scheme, id)) >= 2}

SymbologyBreaks(rows, books) ==
    IF rows = <<>> THEN {}
    ELSE UNION {{Break("symbology_mismatch", rows[1].account, id, 0) :
                    id \in Conflicts(rows, books, scheme)} : scheme \in Schemes}

Breaks(rows, books) ==
    AsOfBreaks(rows, books) \cup QuantityBreaks(rows, books)
        \cup LedgerOnlyBreaks(rows, books) \cup SymbologyBreaks(rows, books)

-----------------------------------------------------------------------------
(* What a reconciliation is for, said without its loops.                   *)

NoDuplicates(rows) ==
    \A i, j \in DOMAIN rows : Key(rows[i]) = Key(rows[j]) => i = j

CustodianQty(rows, key) ==
    IF key \in Reported(rows)
    THEN rows[CHOOSE i \in DOMAIN rows : Key(rows[i]) = key].qty
    ELSE 0

(* The positions a file of this custodian is answerable for.               *)
Answerable(rows, books) ==
    Reported(rows) \cup {key \in DOMAIN books.lots : key[1] \in books.custodied}

Differing(rows, books) ==
    {key \in Answerable(rows, books) : CustodianQty(rows, key) # LedgerQty(books, key)}

(* The positions breaks of the two quantity types name.                    *)
Named(breaks) ==
    {<<b.account, b.about>> :
        b \in {b \in breaks : b.type \in {"quantity_mismatch", "ledger_only"}}}

(* No security of the file shares an identifier with another.              *)
Unambiguous(rows, books) ==
    \A scheme \in Schemes, key \in Reported(rows) :
        \A other \in DOMAIN books.ids[scheme] :
            books.ids[scheme][other] = books.ids[scheme][key[2]]
                => other = key[2] \/ books.ids[scheme][other] = NoId

(* The file and the books agree.                                           *)
Agree(rows, books) ==
    /\ Differing(rows, books) = {}
    /\ FileDates(rows) = LedgerDates(books)
    /\ Unambiguous(rows, books)
=============================================================================
