---------------------------- MODULE StripeCatalog ----------------------------
(***************************************************************************)
(* stripe/setup_stripe.py, the script that creates or reuses the products,   *)
(* prices and webhook endpoint at Stripe and writes their ids to a file.  It  *)
(* may die at any call and is run again; Stripe's search is behind its data.  *)
(***************************************************************************)
EXTENDS Naturals, Sequences, FiniteSets

CONSTANTS
    Setups,         \* runs of the script in progress
    Items,          \* what is sold: plans, modules, the credit pack
    Order,          \* the order in which the script goes through them
    KindsOf,        \* [Items -> the prices of each: "month", "year", "once"]
    MaxMade,        \* bound: objects created at Stripe
    MaxTariff,      \* bound: versions of the amounts in the script
    MaxStarts       \* bound: times the script is started

ASSUME StripeCatalogAssumption ==
    /\ Order \in Seq(Items) /\ Items = {Order[i] : i \in DOMAIN Order} /\ Items # {}
    /\ \A i, j \in DOMAIN Order : Order[i] = Order[j] => i = j
    /\ DOMAIN KindsOf = Items /\ MaxMade \in Nat /\ MaxTariff \in Nat \ {0} /\ MaxStarts \in Nat

Kinds == UNION {KindsOf[i] : i \in Items}

VARIABLES
    products,   \* at Stripe: id, item, and whether the search shows it
    prices,     \* at Stripe: id, product, kind, amount (as the tariff it is of), active
    endpoints,  \* webhook endpoints for the domain's URL
    made,       \* objects created so far
    tariff,     \* amounts in the script, by version
    starts,     \* times the script was started
    setup,      \* [Setups -> where the run is, its item, product, prices seen and ids]
    idsFile,    \* stripe_ids.json: the prices written, of which tariff, or nothing
    \* history
    muddled,    \* two runs overlapped, or one searched for a product not yet shown
    settled     \* the file is complete, and no amount or price was changed since

catalogVars == <<products, prices, endpoints, made, tariff, starts, setup, idsFile, muddled, settled>>

NotRunning == [at |-> "off", item |-> 1, product |-> 0, seen |-> {}, ids |-> {}]
NoFile == [ids |-> {}, tariff |-> 0]

CatalogInit ==
    /\ products = {} /\ prices = {} /\ endpoints = {} /\ made = 0 /\ tariff = 1 /\ starts = 0
    /\ setup = [s \in Setups |-> NotRunning]
    /\ idsFile = NoFile
    /\ muddled = FALSE /\ settled = FALSE

Item(s) == Order[setup[s].item]

\* The prices Stripe would list as current for a kind of price of the run's product.
Fitting(s, kind, set) ==
    {p \in set : p.product = setup[s].product /\ p.kind = kind /\ p.amount = tariff}

-----------------------------------------------------------------------------
StartSetup(s) ==
    /\ setup[s].at = "off" /\ starts < MaxStarts
    /\ starts' = starts + 1
    /\ setup' = [setup EXCEPT ![s] = [NotRunning EXCEPT !.at = "search"]]
    /\ muddled' = (muddled \/ \E t \in Setups : setup[t].at # "off")
    /\ UNCHANGED <<products, prices, endpoints, made, tariff, idsFile, settled>>

\* Product.search by the key in the metadata; the first result is taken.
SearchProduct(s) ==
    LET found == {p \in products : p.item = Item(s) /\ p.shown} IN
    /\ setup[s].at = "search"
    /\ \/ /\ found = {}
          /\ setup' = [setup EXCEPT ![s].at = "create"]
       \/ \E p \in found : setup' = [setup EXCEPT ![s].at = "list", ![s].product = p.id]
    /\ muddled' = (muddled \/ \E p \in products : p.item = Item(s) /\ ~p.shown)
    /\ UNCHANGED <<products, prices, endpoints, made, tariff, idsFile, starts, settled>>

CreateProduct(s) ==
    /\ setup[s].at = "create" /\ made < MaxMade
    /\ made' = made + 1
    /\ products' = products \cup {[id |-> made', item |-> Item(s), shown |-> FALSE]}
    /\ setup' = [setup EXCEPT ![s].at = "list", ![s].product = made']
    /\ UNCHANGED <<prices, endpoints, tariff, idsFile, muddled, starts, settled>>

\* Price.list of the product, active ones only; it is read once, before any is created.
ListPrices(s) ==
    /\ setup[s].at = "list"
    /\ setup' = [setup EXCEPT ![s].at = "price",
                              ![s].seen = {p \in prices : p.product = setup[s].product /\ p.active}]
    /\ UNCHANGED <<products, prices, endpoints, made, tariff, idsFile, muddled, starts, settled>>

Priced(s) == {p.kind : p \in {q \in prices : q.id \in setup[s].ids /\ q.product = setup[s].product}}

\* One price after the other: one of the list with this interval and amount, or a new one.
TakePrice(s, kind) ==
    /\ setup[s].at = "price" /\ kind \in KindsOf[Item(s)] \ Priced(s)
    /\ \E p \in Fitting(s, kind, setup[s].seen) :
         setup' = [setup EXCEPT ![s].ids = @ \cup {p.id}]
    /\ UNCHANGED <<products, prices, endpoints, made, tariff, idsFile, muddled, starts, settled>>

\* Mutant: a price is created without a look at the list.
CreatePriceAnyway(s, kind) ==
    /\ setup[s].at = "price" /\ kind \in KindsOf[Item(s)] \ Priced(s)
    /\ made < MaxMade
    /\ made' = made + 1
    /\ prices' = prices \cup {[id |-> made', product |-> setup[s].product, kind |-> kind,
                               amount |-> tariff, active |-> TRUE]}
    /\ setup' = [setup EXCEPT ![s].ids = @ \cup {made'}]
    /\ UNCHANGED <<products, endpoints, tariff, idsFile, muddled, starts, settled>>

CreatePrice(s, kind) ==
    /\ setup[s].at = "price" /\ kind \in KindsOf[Item(s)] \ Priced(s)
    /\ Fitting(s, kind, setup[s].seen) = {} /\ made < MaxMade
    /\ made' = made + 1
    /\ prices' = prices \cup {[id |-> made', product |-> setup[s].product, kind |-> kind,
                               amount |-> tariff, active |-> TRUE]}
    /\ setup' = [setup EXCEPT ![s].ids = @ \cup {made'}]
    /\ UNCHANGED <<products, endpoints, tariff, idsFile, muddled, starts, settled>>

NextItem(s) ==
    /\ setup[s].at = "price" /\ Priced(s) = KindsOf[Item(s)]
    /\ setup' = IF setup[s].item = Len(Order)
                THEN [setup EXCEPT ![s].at = "hook", ![s].seen = {}]
                ELSE [setup EXCEPT ![s].at = "search", ![s].item = @ + 1, ![s].seen = {}]
    /\ UNCHANGED <<products, prices, endpoints, made, tariff, idsFile, muddled, starts, settled>>

\* setup_webhook: list, then create; the portal's configuration is found the same way.
FindEndpoint(s) ==
    /\ setup[s].at = "hook"
    /\ setup' = [setup EXCEPT ![s].at = IF endpoints = {} THEN "enable" ELSE "write"]
    /\ UNCHANGED <<products, prices, endpoints, made, tariff, idsFile, muddled, starts, settled>>

CreateEndpoint(s) ==
    /\ setup[s].at = "enable" /\ made < MaxMade
    /\ made' = made + 1
    /\ endpoints' = endpoints \cup {made'}
    /\ setup' = [setup EXCEPT ![s].at = "write"]
    /\ UNCHANGED <<products, prices, tariff, idsFile, muddled, starts, settled>>

\* The file is truncated, then written, once everything exists.
OpenFile(s) ==
    /\ setup[s].at = "write"
    /\ idsFile' = NoFile /\ settled' = FALSE
    /\ setup' = [setup EXCEPT ![s].at = "dump"]
    /\ UNCHANGED <<products, prices, endpoints, made, tariff, muddled, starts>>

WriteIds(s) ==
    /\ setup[s].at = "dump"
    /\ idsFile' = [ids |-> setup[s].ids, tariff |-> tariff]
    /\ settled' = TRUE
    /\ setup' = [setup EXCEPT ![s] = NotRunning]
    /\ UNCHANGED <<products, prices, endpoints, made, tariff, muddled, starts>>

\* A call fails or the script is stopped: what was created stays, nothing is written.
SetupDies(s) ==
    /\ setup[s].at # "off"
    /\ setup' = [setup EXCEPT ![s] = NotRunning]
    /\ UNCHANGED <<products, prices, endpoints, made, tariff, idsFile, muddled, starts, settled>>

-----------------------------------------------------------------------------
\* Stripe's search catches up, within a minute as a rule.
SearchCatchesUp ==
    /\ \E p \in products : ~p.shown
    /\ products' = {[p EXCEPT !.shown = TRUE] : p \in products}
    /\ UNCHANGED <<prices, endpoints, made, tariff, setup, idsFile, muddled, starts, settled>>

\* The amounts in the script are edited, while it does not run; a price is archived in
\* Stripe's dashboard.
EditTariff ==
    /\ tariff < MaxTariff /\ \A s \in Setups : setup[s].at = "off"
    /\ tariff' = tariff + 1
    /\ settled' = FALSE
    /\ UNCHANGED <<products, prices, endpoints, made, setup, idsFile, muddled, starts>>

ArchivePrice ==
    /\ \E p \in prices :
         /\ p.active
         /\ prices' = (prices \ {p}) \cup {[p EXCEPT !.active = FALSE]}
    /\ settled' = FALSE /\ muddled' = (muddled \/ \E s \in Setups : setup[s].at # "off")
    /\ UNCHANGED <<products, endpoints, made, tariff, setup, idsFile, starts>>

CatalogNext ==
    \/ \E s \in Setups :
         \/ StartSetup(s) \/ SearchProduct(s) \/ CreateProduct(s) \/ ListPrices(s) \/ NextItem(s)
         \/ \E kind \in Kinds : TakePrice(s, kind) \/ CreatePrice(s, kind)
         \/ FindEndpoint(s) \/ CreateEndpoint(s) \/ OpenFile(s) \/ WriteIds(s) \/ SetupDies(s)
    \/ SearchCatchesUp \/ EditTariff \/ ArchivePrice

-----------------------------------------------------------------------------
\* The variables stay in their types; the file holds one price of every kind of every item,
\* of one tariff, or nothing at all.
CatalogTypeOK ==
    /\ products \subseteq [id : 1..MaxMade, item : Items, shown : BOOLEAN]
    /\ prices \subseteq [id : 1..MaxMade, product : 1..MaxMade, kind : Kinds,
                         amount : 1..MaxTariff, active : BOOLEAN]
    /\ endpoints \subseteq 1..MaxMade /\ made \in 0..MaxMade /\ tariff \in 1..MaxTariff
    /\ starts \in 0..MaxStarts /\ muddled \in BOOLEAN /\ settled \in BOOLEAN
    /\ \A s \in Setups : setup[s].ids \subseteq {p.id : p \in prices}
    /\ idsFile # NoFile => \A i \in Items : \A kind \in KindsOf[i] :
         Cardinality({p \in prices : /\ p.id \in idsFile.ids /\ p.kind = kind
                                     /\ \E q \in products : q.id = p.product /\ q.item = i}) = 1

\* Run again after any failure, alone and once the search has caught up, the script makes
\* no second product, price or endpoint of what it finds; and while nobody changes a price
\* every run hands out the ids of the last.
SetupRepeats ==
    ~muddled =>
        /\ \A p, q \in products : p.item = q.item => p = q
        /\ \A p, q \in {r \in prices : r.active} :
             p.product = q.product /\ p.kind = q.kind /\ p.amount = q.amount => p = q
        /\ Cardinality(endpoints) <= 1
        /\ settled => \A s \in Setups : setup[s].ids \subseteq idsFile.ids
=============================================================================
