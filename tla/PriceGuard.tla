------------------------------ MODULE PriceGuard ------------------------------
(***************************************************************************)
(* The guard of the price table.  The engine holds the vendor's page       *)
(* against the table it started with, once a week, and tells; the command  *)
(* line does the same against the table on disk and writes what an         *)
(* operator confirms into the overlay.  The engine reads the overlay when  *)
(* it starts.  A leaf is one price of one model.                           *)
(***************************************************************************)
EXTENDS Integers, FiniteSets

CONSTANTS
    PricedModel,    \* the models of the table
    TrackedPrice,   \* leaf -> the price of the tracked configuration, per thousand tokens
    PageRows,       \* model -> what a page may say of it: a price per million for each side
    Epsilon         \* the percentage below which a price has not moved

Side == {"input", "output"}
Leaf == PricedModel \X Side

ASSUME PriceAssumption ==
    /\ TrackedPrice \in [Leaf -> Nat] /\ Epsilon \in Nat
    /\ PageRows \in [PricedModel -> SUBSET [Side -> Nat]]

NoDrifts == {}

\* A page states the prices of some models; one that names none is not the document we
\* expect, and counts as one that cannot be read.
PageOf(readable, prices) == [readable |-> readable, prices |-> prices]
Unreadable == PageOf(FALSE, <<>>)

VARIABLES
    vendorPage,     \* [readable, prices]: model -> its row, for the models it prices
    leaves,         \* the overlay: leaf -> the price an operator confirmed
    billed,        \* the table of the running engine
    proposed,       \* [page, drifts]: what the command line waits to have confirmed
    week,           \* the engine's last probe
    vouched         \* what the date pricing.checked stands for: [page, drifts, table]

priceVars == <<vendorPage, leaves, billed, proposed, week, vouched>>

(***************************************************************************)
(* Reading and comparing.                                                  *)
(***************************************************************************)

\* The overlay merged over the tracked file: only the leaves it has.
PriceTable(over) ==
    [leaf \in Leaf |-> IF leaf \in DOMAIN over THEN over[leaf] ELSE TrackedPrice[leaf]]

\* _read: the page states a price per million, the table one per thousand.
PerThousand(price) == price \div 1000
Probed(page) == [model \in DOMAIN page.prices |->
    [side \in Side |-> PerThousand(page.prices[model][side])]]

\* Faulty variant of PriceMoved: a model priced at nothing never drifts.
MovedByPercentage(current, read) ==
    LET gap == IF read > current THEN read - current ELSE current - read IN
    current # 0 /\ 100 * gap > Epsilon * current

\* A price of nothing has no percentage.
PriceMoved(current, read) ==
    LET gap == IF read > current THEN read - current ELSE current - read IN
    IF current = 0 THEN read # 0 ELSE 100 * gap > Epsilon * current

\* One finding per leaf: [leaf, read].
Drifts(table, page) ==
    LET read == Probed(page)
        moved == {l \in (DOMAIN read) \X Side : PriceMoved(table[l], read[l[1]][l[2]])}
    IN {[leaf |-> l, read |-> read[l[1]][l[2]]] : l \in moved}

\* PriceProbeStore.record: a row for every model of the table, whatever was read.
ProbeRows(page) == [model \in PricedModel |->
    IF ~page.readable THEN "unreadable" ELSE IF model \in DOMAIN page.prices THEN "ok" ELSE "absent"]

\* drift_notice, sent unless the result is clean.
Notice(page, drifts) ==
    IF ~page.readable THEN "unreadable" ELSE IF drifts = NoDrifts THEN "nothing" ELSE "drift"

(***************************************************************************)
(* Moves.                                                                  *)
(***************************************************************************)

Pages == {Unreadable} \union
    UNION {{PageOf(TRUE, prices) : prices \in {rows \in [priced -> UNION {PageRows[m] : m \in PricedModel}] :
                                \A m \in priced : rows[m] \in PageRows[m]}} : priced \in SUBSET PricedModel}

VendorChangesPage ==
    /\ vendorPage' \in Pages
    /\ UNCHANGED <<leaves, billed, proposed, week, vouched>>

EngineReadsTable ==
    /\ billed' = PriceTable(leaves)
    /\ UNCHANGED <<vendorPage, leaves, proposed, week, vouched>>

NoWeek == [page |-> Unreadable, table |-> <<>>, drifts |-> NoDrifts, rows |-> <<>>,
           notice |-> "failed"]

\* The write of the rows is best effort; the notice does not wait for it.  A paid call that
\* fails is one log line: nothing is recorded and nothing is sent.
WeeklyProbe ==
    /\ LET drifts == Drifts(billed, vendorPage) IN
        \/ \E rows \in {ProbeRows(vendorPage), <<>>} :
            week' = [page |-> vendorPage, table |-> billed, drifts |-> drifts, rows |-> rows,
                     notice |-> Notice(vendorPage, drifts)]
        \/ /\ vendorPage.readable
           /\ week' = NoWeek
    /\ UNCHANGED <<vendorPage, leaves, billed, proposed, vouched>>

NothingProposed == [page |-> Unreadable, drifts |-> NoDrifts]

\* price_cli --apply: the probe, against the table on disk, then the question.
ProposeDrifts ==
    /\ proposed.drifts = NoDrifts
    /\ proposed' = [page |-> vendorPage, drifts |-> Drifts(PriceTable(leaves), vendorPage)]
    /\ UNCHANGED <<vendorPage, leaves, billed, week, vouched>>

\* apply_drifts: the leaves that moved, and no other.
Written(drifts) ==
    [leaf \in DOMAIN leaves \union {d.leaf : d \in drifts} |->
        IF \E d \in drifts : d.leaf = leaf THEN (CHOOSE d \in drifts : d.leaf = leaf).read
        ELSE leaves[leaf]]

Confirm ==
    /\ proposed.drifts # NoDrifts
    /\ leaves' = Written(proposed.drifts)
    /\ vouched' = [page |-> proposed.page, drifts |-> proposed.drifts, table |-> PriceTable(leaves)]
    /\ proposed' = NothingProposed
    /\ UNCHANGED <<vendorPage, billed, week>>

Decline ==
    /\ proposed.drifts # NoDrifts
    /\ proposed' = NothingProposed
    /\ UNCHANGED <<vendorPage, leaves, billed, week, vouched>>

PriceInit ==
    /\ vendorPage = Unreadable
    /\ leaves = <<>>
    /\ billed = PriceTable(leaves)
    /\ proposed = NothingProposed
    /\ week = NoWeek
    /\ vouched = [page |-> Unreadable, drifts |-> NoDrifts, table |-> billed]

PriceNext ==
    VendorChangesPage \/ EngineReadsTable \/ WeeklyProbe \/ ProposeDrifts \/ Confirm \/ Decline
PriceSpec == PriceInit /\ [][PriceNext]_priceVars

(***************************************************************************)
(* Properties.                                                             *)
(***************************************************************************)

\* The price agrees with what was read, up to the threshold.
Close(price, read) == 100 * (IF read > price THEN read - price ELSE price - read) <= Epsilon * price

\* A week that says nothing means that every price the page states agrees with the table
\* the engine bills by, unless the call itself failed; a week that could not read claims
\* no drift; and the rows of the week, where they were written, tell the same story to
\* who reads them months later (price_probe.py, price_probe_store.py).
SilenceIsAgreement ==
    LET read == Probed(week.page) IN
    /\ week.notice = "nothing" => \A model \in DOMAIN read, side \in Side :
        Close(week.table[<<model, side>>], read[model][side])
    /\ week.notice = "unreadable" => week.drifts = NoDrifts
    /\ week.rows # <<>> =>
        /\ week.notice = "unreadable" <=> "unreadable" \in {week.rows[m] : m \in PricedModel}
        /\ week.notice = "drift" <=> \E model \in PricedModel, side \in Side :
            week.rows[model] = "ok" /\ ~Close(week.table[<<model, side>>], read[model][side])

\* A confirmation settles the question it answers, and no other: no price it was not asked
\* about has moved, and an engine started on the overlay would find nothing to say about
\* the page that was read, however the page and the engine changed in between
\* (price_overlay.py apply_drifts, price_cli.py main).
ConfirmationSettles == vouched.drifts # NoDrifts =>
    /\ LET read == Probed(vouched.page) IN \A model \in DOMAIN read, side \in Side :
        Close(PriceTable(leaves)[<<model, side>>], read[model][side])
    /\ \A leaf \in Leaf : (\A d \in vouched.drifts : d.leaf # leaf)
                           => PriceTable(leaves)[leaf] = vouched.table[leaf]

PricesAreGuarded == SilenceIsAgreement /\ ConfirmationSettles
=============================================================================
