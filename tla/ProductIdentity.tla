-------------------------- MODULE ProductIdentity --------------------------
(* When a synced item is a product the catalogue has already                *)
(* (resolve_source_product_id of app/domains/stores/sync.py), and which     *)
(* products the admin is shown as duplicates of each other                  *)
(* (list_product_duplicate_candidates of app/domains/stores/service.py):    *)
(* two functions that compare products, written apart.  One sync at a time. *)
(*                                                                          *)
(* A name or model is its normalized form (normalize_product_identity:      *)
(* accents, case and punctuation folded away); Long are those of at least   *)
(* four characters, the others identify nothing.                            *)
EXTENDS Absence, Naturals, Sequences

CONSTANTS
    Items,        \* what shops list and the admin enters
    Catalogues,   \* what the admin may have entered
    Long,         \* names and models of four characters or more
    MaxSynced     \* bound: products there are

ASSUME ProductIdentityAssumption == Catalogues \subseteq Seq(Items)

VARIABLES
    known,      \* products in the order of created_at
    mapping,    \* [Items -> product_id of source_product_mappings, 0 for none]
    admin       \* history: how many products the admin had entered

identityVars == <<known, mapping, admin>>

IdentityInit ==
    /\ known \in Catalogues
    /\ mapping = [i \in Items |-> 0]
    /\ admin = Len(known)

(* The identity of a product: its model or else its name.                   *)
Identity(x) ==
    LET value == IF x.model = None THEN x.name ELSE x.model IN
    IF value \in Long THEN value ELSE None

Candidate(p, q) ==
    /\ Identity(p) # None /\ Identity(p) = Identity(q)
    /\ p.category = q.category /\ p.brand = q.brand

CandidatePairs ==
    {c \in (DOMAIN known) \X (DOMAIN known) :
        c[1] < c[2] /\ Candidate(known[c[1]], known[c[2]])}

(* _product_identity_matches compares the product's model or name, short    *)
(* ones too, and then its name.                                             *)
(* Mutant: only the names are compared.                                     *)
IdentityMatchesByName(p, x) == p.name = x.name

IdentityMatches(p, x) ==
    \/ (IF p.model = None THEN p.name ELSE p.model) = Identity(x)
    \/ p.name = x.name

(* The products an item may be: of the same SKU, whatever their category,   *)
(* or else the oldest of its category and brand that matches.               *)
OfSku(x) ==
    IF x.sku = None THEN {} ELSE {n \in DOMAIN known : known[n].sku = x.sku}

OfIdentity(x) ==
    LET same == {n \in DOMAIN known :
                    /\ known[n].category = x.category /\ known[n].brand = x.brand
                    /\ Identity(x) # None /\ IdentityMatches(known[n], x)}
    IN {n \in same : \A k \in same : n <= k}

Resolve(x) ==
    /\ Len(known) < MaxSynced
    /\ mapping[x] = 0
    /\ \E n \in IF OfSku(x) # {} THEN OfSku(x)
                ELSE IF OfIdentity(x) # {} THEN OfIdentity(x) ELSE {Len(known) + 1} :
          /\ mapping' = [mapping EXCEPT ![x] = n]
          /\ known' = IF n \in DOMAIN known THEN known ELSE Append(known, x)
    /\ UNCHANGED admin

IdentityNext == \E x \in Items : Resolve(x)

IdentitySpec == IdentityInit /\ [][IdentityNext]_identityVars

-----------------------------------------------------------------------------
(* Syncs, one after the other, leave the admin no new duplicates: whatever  *)
(* products the admin is shown together were entered by hand, and an item   *)
(* that looks like a product in that list has been taken for one of them.   *)
SyncMakesNoCandidates == \A c \in CandidatePairs : c[2] <= admin

=============================================================================
