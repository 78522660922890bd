------------------------------ MODULE MCRules -------------------------------
(* Small instances, for TLC, of the modules whose properties are about what *)
(* a rule or a command makes of the data it meets; each is a scene of its   *)
(* own, the variables of the others staying as they are:                    *)
(*   "match"    MatchingRules, watchlists and offers in pages of two;       *)
(*   "draft"    Recommendations, catalogues of up to two products;          *)
(*   "identity" ProductIdentity, two products of the admin and three items; *)
(*   "feed"     FeedRecords, up to two shoes in 20 notations of a price;    *)
(*   "leaf"     PagedListing, up to five products in pages of two;          *)
(*   "account"  AccountData, seven rows of ann and three of bob;            *)
(*   "bot"      TelegramBot, three lists, two of which begin alike;         *)
(*   "config"   FeedConfig, two operators, files of two stores.             *)
EXTENDS MatchingRules, Recommendations, ProductIdentity, FeedRecords, PagedListing,
        AccountData, TelegramBot, FeedConfig, TLC

CONSTANTS shoes, hoka, nike, p1, p2, s41, s42, EU, UK, trail, clifton, mach, xt, g1,
          ann, bob, user, session, request, limits, advice, list, alert,
          user2, request2, advice2, ab, a1, a2, b1, nameA, nameB, csv, xml

VARIABLE scene

-----------------------------------------------------------------------------
List(p, c, b, t, d) ==
    [product |-> p, category |-> c, brand |-> b, target |-> t, discount |-> d,
     onMinimum |-> TRUE]

Listing(p, c, b, e, d, a, m, l) ==
    [product |-> p, category |-> c, brand |-> b, eur |-> e, discount |-> d,
     availability |-> a, minimum |-> m, lowest |-> l]

MCLists ==
    {List(p1, None, None, 2, None), List(None, shoes, hoka, 1, 20),
     List(None, shoes, None, None, 10), List(None, None, None, 2, None)}

MCListings ==
    {Listing(p1, shoes, hoka, 1, 20, "in_stock", TRUE, FALSE),
     Listing(p1, shoes, hoka, 2, None, "limited", FALSE, FALSE),
     Listing(p2, shoes, nike, 2, 70, "in_stock", FALSE, TRUE),
     Listing(p2, shoes, nike, 1, 0, "out_of_stock", TRUE, TRUE),
     Listing(p2, None, hoka, 1, 10, "in_stock", FALSE, FALSE)}

MCAsked ==
    {[category |-> None, max |-> None], [category |-> shoes, max |-> None],
     [category |-> None, max |-> 1]}

-----------------------------------------------------------------------------
Item(s, y, b) == [size |-> s, system |-> y, inStock |-> b]
AnOffer(p, a, i) == [price |-> p, availability |-> a, items |-> i]

Dear     == AnOffer(2, "in_stock", {Item(s41, EU, TRUE)})
Cheap    == AnOffer(1, "out_of_stock", {Item(s41, UK, TRUE), Item(s42, EU, TRUE)})
SoldOut  == AnOffer(1, "in_stock", {Item(s41, None, FALSE)})
Twin     == AnOffer(1, "in_stock", {Item(s41, None, TRUE)})

Plain    == [brand |-> None, name |-> {}, texts |-> {}, uses |-> {}]
Branded  == [brand |-> hoka, name |-> {}, texts |-> {hoka}, uses |-> {}]
Titled    == [brand |-> None, name |-> {hoka}, texts |-> {}, uses |-> {trail}]
Trail    == [brand |-> None, name |-> {}, texts |-> {trail}, uses |-> {trail}]

With(p, o) == [brand |-> p.brand, name |-> p.name, texts |-> p.texts, uses |-> p.uses,
               offers |-> o]

MCProducts ==
    {With(p, o) : p \in {Plain, Branded, Titled, Trail},
                  o \in {{}, {Cheap}, {Dear, Cheap}, {SoldOut, Twin}}}

MCWishes ==
    {[brand |-> t[1], use |-> t[2], size |-> s[1], system |-> s[2],
      budget |-> b[1], currency |-> b[2]] :
        t \in {<<hoka, None>>, <<None, trail>>, <<hoka, trail>>, <<None, None>>},
        s \in {<<s41, EU>>, <<s41, None>>, <<None, None>>},
        b \in {<<1, "EUR">>, <<1, "CZK">>, <<None, "EUR">>}}

-----------------------------------------------------------------------------
Model(n, y, k) == [name |-> n, model |-> y, sku |-> k, brand |-> hoka, category |-> shoes]

(* What the shop lists: names and models that meet in one spelling or not,  *)
(* with and without a SKU; xt is too short to identify anything.            *)
MCItems ==
    {Model(clifton, None, None), Model(mach, clifton, 1), Model(mach, None, 2),
     Model(xt, None, None), Model(mach, xt, None)}

MCCatalogues ==
    {<<>>} \cup {<<a, b>> : a \in MCItems, b \in MCItems}

-----------------------------------------------------------------------------
Shoe(n, g, z, d, p, s) ==
    [id |-> n, group |-> g, sizes |-> z, days |-> d, price |-> p, sale |-> s]

MCShoes ==
    {Shoe(1, g1, {s41, s42}, 1, 3, 2), Shoe(1, None, {s41}, 5, 2, 3),
     Shoe(1, g1, {}, None, 3, None), Shoe(2, g1, {s42}, None, 2, 2),
     Shoe(2, None, {s41, s42}, 0, None, 3), Shoe(2, g1, {}, 3, None, None)}

MCTexts ==
    {t \in [thousands : {None, Space, Nbsp, Comma, Dot}, decimals : {None, Comma, Dot}] :
        t.decimals = None \/ t.thousands # t.decimals}

-----------------------------------------------------------------------------
MCTableOf ==
    (user :> "user") @@ (session :> "session") @@ (request :> "request")
    @@ (limits :> "constraints") @@ (advice :> "recommendation") @@ (list :> "watchlist")
    @@ (alert :> "notification") @@ (user2 :> "user") @@ (request2 :> "request")
    @@ (advice2 :> "recommendation")

MCRefersTo ==
    (user :> {}) @@ (session :> {user}) @@ (request :> {user}) @@ (limits :> {request})
    @@ (advice :> {request}) @@ (list :> {user, request}) @@ (alert :> {user, list, request})
    @@ (user2 :> {}) @@ (request2 :> {user2}) @@ (advice2 :> {request2})

MCRows    == DOMAIN MCTableOf
MCOwnerOf == [r \in MCRows |-> IF r \in {user2, request2, advice2} THEN bob ELSE ann]

-----------------------------------------------------------------------------
MCStarts == (ab :> {a1, a2}) @@ (a1 :> {a1}) @@ (a2 :> {a2}) @@ (b1 :> {b1})

-----------------------------------------------------------------------------
Columns == {"external_id", "product_url", "source_price", "product_name", "sku"}

File(n, u, b, cols) ==
    [name |-> n, store |-> b,
     feed |-> [type |-> IF u = csv THEN "http_csv" ELSE "heureka_xml", url |-> u],
     source |-> [active |-> b, settings |-> [columns |-> cols, categories |-> {n}]]]

(* The last of them names too few columns to be applied.                    *)
MCFiles ==
    {File(nameA, csv, TRUE, Columns), File(nameA, csv, FALSE, Columns),
     File(nameA, xml, TRUE, {}), File(nameB, csv, TRUE, Columns),
     File(nameB, csv, FALSE, {"external_id", "sku"})}

-----------------------------------------------------------------------------
MatchingIdle ==
    /\ lists = <<>> /\ offers = {} /\ ask = CHOOSE a \in MCAsked : TRUE
    /\ pages = <<>> /\ generated = TRUE /\ alerts = {}

DraftingIdle == wish = None /\ catalogue = <<>> /\ drafts = {Undrafted}
IdentityIdle == known = <<>> /\ mapping = <<>> /\ admin = 0
FeedIdle     == sold = {} /\ text = None /\ fetched = [f \in Formats |-> Unfetched]

LeafingIdle ==
    /\ listing = <<>> /\ atStart = {} /\ changed = <<>>
    /\ fetch = [pc |-> "idle", page |-> 1, records |-> <<>>, tellsTotal |-> FALSE]

AccountIdle ==
    rows = {} /\ op = NoOp /\ writer = [w \in Writers |-> NoRow] /\ changes = 0

BotIdle ==
    /\ shelf = <<>> /\ deleted = {} /\ flags = [l \in Lists |-> Fresh]
    /\ message = [m \in Messages |-> NoMessage] /\ call = [c \in Calls |-> NoCall]
    /\ made = 0 /\ shown = {} /\ overlapped = FALSE

(* The initial states of a scene; the other modules are idle.               *)
SceneInit ==
    /\ scene \in {"match", "draft", "identity", "feed", "leaf", "account", "bot",
                 "config"}
    /\ IF scene = "match" THEN Init ELSE MatchingIdle
    /\ IF scene = "draft" THEN DraftInit ELSE DraftingIdle
    /\ IF scene = "identity" THEN IdentityInit ELSE IdentityIdle
    /\ IF scene = "feed" THEN FeedInit ELSE FeedIdle
    /\ IF scene = "leaf" THEN LeafInit ELSE LeafingIdle
    /\ IF scene = "account" THEN AccountInit ELSE AccountIdle
    /\ IF scene = "bot" THEN BotInit ELSE BotIdle
    /\ ConfigInit

SceneNext ==
    \/ /\ scene = "match" /\ Next
       /\ UNCHANGED <<draftVars, identityVars, feedVars, leafVars, accountVars, botVars, configVars, scene>>
    \/ /\ scene = "draft" /\ DraftNext
       /\ UNCHANGED <<vars, identityVars, feedVars, leafVars, accountVars, botVars, configVars, scene>>
    \/ /\ scene = "identity" /\ IdentityNext
       /\ UNCHANGED <<vars, draftVars, feedVars, leafVars, accountVars, botVars, configVars, scene>>
    \/ /\ scene = "feed" /\ FeedNext
       /\ UNCHANGED <<vars, draftVars, identityVars, leafVars, accountVars, botVars, configVars, scene>>
    \/ /\ scene = "leaf" /\ LeafNext
       /\ UNCHANGED <<vars, draftVars, identityVars, feedVars, accountVars, botVars, configVars, scene>>
    \/ /\ scene = "account" /\ AccountNext
       /\ UNCHANGED <<vars, draftVars, identityVars, feedVars, leafVars, botVars, configVars, scene>>
    \/ /\ scene = "bot" /\ BotNext
       /\ UNCHANGED <<vars, draftVars, identityVars, feedVars, leafVars, accountVars, configVars, scene>>
    \/ /\ scene = "config" /\ ConfigNext
       /\ UNCHANGED <<vars, draftVars, identityVars, feedVars, leafVars, accountVars, botVars, scene>>

SceneSpec ==
    SceneInit /\ [][SceneNext]_
        <<vars, draftVars, identityVars, feedVars, leafVars, accountVars, botVars, configVars, scene>>

=============================================================================
