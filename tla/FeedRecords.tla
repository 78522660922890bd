---------------------------- MODULE FeedRecords -----------------------------
(* What the adapters of app/integrations/stores make of a shop's feed: the  *)
(* same shoes as CSV rows (http_csv), as Heureka SHOPITEMs (heureka_xml),   *)
(* as JSON records (static_json, http_json) and as products of Srovname     *)
(* (srovname_api).  An item that cannot be read fails the whole fetch.      *)
(*                                                                          *)
(* A price is written with a mark between thousands and one before the      *)
(* decimals, each of them a character or None; what a text is read as is    *)
(* where the decimal point ends up.                                         *)
EXTENDS Absence, Integers

CONSTANTS
    Space, Nbsp, Comma, Dot,
    Shoes,       \* id, group, sizes, color, delivery days, price and sale price
    Texts,       \* notations of a price: [thousands, decimals]
    Refused      \* a price that cannot be read

ASSUME FeedRecordsAssumption ==
    /\ None \notin Int \cup {Space, Nbsp, Comma, Dot}
    /\ Space \notin {Comma, Dot} /\ Comma # Dot
    /\ Refused \notin {"thousands", "decimals", "whole"}
    /\ \A t \in Texts : t.decimals \in {None, Comma, Dot}
    /\ \A s \in Shoes : s.price \in Nat \cup {None} /\ s.sale \in Nat \cup {None}

Formats == {"http_csv", "heureka_xml", "static_json", "srovname_api"}

VARIABLES
    sold,        \* what the shop sells
    text,        \* how it writes prices
    fetched      \* [Formats -> what fetch_offers made of it]

feedVars == <<sold, text, fetched>>

Unfetched == [outcome |-> "none", records |-> {}]

FeedInit ==
    /\ sold \in {S \in SUBSET Shoes : S # {} /\ \A s, t \in S : s.id = t.id => s = t}
    /\ text \in Texts
    /\ fetched = [f \in Formats |-> Unfetched]

-----------------------------------------------------------------------------
FoldsCommas(f) ==
    CASE f = "heureka_xml" -> TRUE
      [] f = "http_csv"    -> Dot \notin {text.thousands, text.decimals}
      [] OTHER             -> FALSE

(* CSV and Heureka drop spaces; CSV takes commas for points only where the  *)
(* text has no point, Heureka always, JSON never.                           *)
(* Mutant: a comma in CSV is a mark between thousands.                      *)
FoldedDropping(f, mark) ==
    IF f # "static_json" /\ mark \in {Space, Comma} THEN None ELSE mark

Folded(f, mark) ==
    CASE f # "static_json" /\ mark = Space -> None
      [] mark = Comma /\ FoldsCommas(f) -> Dot
      [] OTHER -> mark

(* float() refuses what is left of other marks, and a second point.         *)
ReadNumber(f) ==
    LET a == Folded(f, text.thousands)
        b == Folded(f, text.decimals)
    IN
    IF ~({a, b} \subseteq {None, Dot}) \/ (a = Dot /\ b = Dot) THEN Refused
    ELSE IF a = Dot THEN "thousands" ELSE IF b = Dot THEN "decimals" ELSE "whole"

(* A record as far as products, sizes and prices are told apart.            *)
Record(id, product, sizes, avail, price, old, discount) ==
    [id |-> id, product |-> product, sizes |-> sizes, availability |-> avail,
     price |-> price, old |-> old, discount |-> discount]

(* A row is an offer with all its sizes; without a product column the       *)
(* product has the id of the offer.                                         *)
CsvRecords(s) ==
    {Record(<<s.id, None>>, IF s.group = None THEN <<s.id, None>> ELSE <<s.group, None>>,
            s.sizes, "in_stock", ReadNumber("http_csv"), None, None)}

(* A mapping is taken as it is.                                             *)
JsonRecords(s) ==
    {Record(<<s.id, None>>, IF s.group = None THEN <<s.id, None>> ELSE <<s.group, None>>,
            s.sizes, "in_stock", ReadNumber("static_json"), None, None)}

(* A SHOPITEM is one size: its product is the group or else the item.       *)
(* Mutant: the group is not looked at.                                      *)
HeurekaProductItem(s, size) == <<s.id, size>>

HeurekaProduct(s, size) == IF s.group = None THEN <<s.id, size>> ELSE <<s.group, None>>

(* A delivery date that is no number of days counts as none.                *)
Availability(days) == IF days # None /\ days <= 3 THEN "in_stock" ELSE "limited"

HeurekaRecords(s) ==
    {Record(<<s.id, size>>, HeurekaProduct(s, size), {size}, Availability(s.days),
            ReadNumber("heureka_xml"), None, None) : size \in s.sizes}
      \cup IF s.sizes # {} THEN {}
           ELSE {Record(<<s.id, None>>, HeurekaProduct(s, None), {},
                        Availability(s.days), ReadNumber("heureka_xml"), None, None)}

(* Mutant: whatever the shop asked before is the old price.                 *)
OldPriceAny(price, before) == before

(* The price without the sale is the old price if it was higher.            *)
OldPrice(price, before) == IF before # None /\ before > price THEN before ELSE None

(* round(.., 2), in hundredths of a percent.                                *)
Everything == 100 * 100

Discount(price, old) ==
    IF old = None \/ price >= old THEN None
    ELSE (2 * Everything * (old - price) + old) \div (2 * old)

SrovnameRecords(s) ==
    LET price == IF s.sale # None THEN s.sale ELSE s.price
        old == OldPrice(price, s.price)
    IN  {Record(<<s.id, None>>, <<s.id, None>>, {}, "in_stock",
                IF price = None THEN Refused ELSE price, old, Discount(price, old))}

RecordsOf(f, s) ==
    CASE f = "http_csv"    -> CsvRecords(s)
      [] f = "heureka_xml" -> HeurekaRecords(s)
      [] f = "static_json" -> JsonRecords(s)
      [] OTHER             -> SrovnameRecords(s)

(* fetch_offers of one adapter.                                             *)
Offers(f) ==
    LET records == UNION {RecordsOf(f, s) : s \in sold} IN
    IF \E r \in records : r.price = Refused THEN [outcome |-> "refused", records |-> {}]
    ELSE [outcome |-> "read", records |-> records]

Fetch(f) ==
    /\ fetched[f] = Unfetched
    /\ fetched' = [fetched EXCEPT ![f] = Offers(f)]
    /\ UNCHANGED <<sold, text>>

FeedNext == \E f \in Formats : Fetch(f)

FeedSpec == FeedInit /\ [][FeedNext]_feedVars

-----------------------------------------------------------------------------
Read(f) == fetched[f].outcome = "read"

(* A price with decimals is the price the shop wrote or fails the fetch,    *)
(* whatever marks the shop uses and whatever format it offers; and the      *)
(* Czech ways to write it, with a space or nothing between thousands and a  *)
(* comma before the decimals, do not fail CSV and Heureka.                  *)
(* (1.234 for a thousand or more is read as a little more than one.)        *)
NumberAsMeant ==
    \A f \in Formats \ {"srovname_api"} : fetched[f] # Unfetched /\ text.decimals # None =>
        /\ Read(f) => \A r \in fetched[f].records : r.price = "decimals"
        /\ f # "static_json" /\ text.thousands \in {None, Space} /\ text.decimals = Comma
             => Read(f)

(* A shop that names its groups has the same sizes of the same products,    *)
(* whether it offers CSV rows with all the sizes or one SHOPITEM for each.  *)
SizesReachProduct ==
    Read("http_csv") /\ Read("heureka_xml") /\ (\A s \in sold : s.group # None) =>
        LET Has(f) == {<<r.product, r.sizes>> : r \in fetched[f].records}
            Either == {h[1] : h \in Has("http_csv")} \cup {h[1] : h \in Has("heureka_xml")}
            Sizes(f, p) == UNION {h[2] : h \in {x \in Has(f) : x[1] = p}}
        IN  \A p \in Either : Sizes("http_csv", p) = Sizes("heureka_xml", p)

(* A sale of Srovname is one: an old price is higher than the price, and    *)
(* comes with a discount between nothing and everything.                    *)
(* (Both prices are in one currency here, which the code does not check.)   *)
SaleIsHonest ==
    Read("srovname_api") =>
        \A r \in fetched["srovname_api"].records :
            /\ r.old # None => r.old > r.price
            /\ (r.old = None) = (r.discount = None)
            /\ r.discount # None => r.discount \in 0..Everything

(* A record says what the shop meant: its price, its sizes, its sale.       *)
RecordAsMeant == NumberAsMeant /\ SizesReachProduct /\ SaleIsHonest

=============================================================================
