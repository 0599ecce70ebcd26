----------------------------- MODULE DealClosing -----------------------------
(***************************************************************************)
(* The end of a listing's business: the deal that closes it, the deal that *)
(* is cancelled, the listing that is offered again or removed, and the     *)
(* place it has among the featured ones.  A deal is the status of the      *)
(* listing, its figures and a row of `sales`, a table without a unique key *)
(* on the listing.  Requests overlap: a route that reads before it writes  *)
(* is two actions or more, and a transaction is one.                       *)
(***************************************************************************)
EXTENDS Naturals, FiniteSets

CONSTANTS
    Requests,    \* requests that may be in progress at a time
    SaleIds,     \* bound: rows of `sales`
    Loads        \* what an instance lets people do: the routes called, by which requests

RouteNames == {"close", "cancel", "relist", "delete", "update", "status", "review", "feature"}

ASSUME LoadsAssumption ==
    \A l \in Loads : l.routes \subseteq RouteNames /\ l.requests \subseteq Requests

VARIABLES
    load,        \* the one of Loads that a behaviour is about
    listing,     \* status, whether it is public, the deal its figures are of, its broker
    sale,        \* row of `sales` -> its deal type
    featured,    \* the scopes the listing is featured in
    request,     \* request -> where it stands and what it goes by
    answer       \* request -> how its last call ended

vars == <<load, listing, sale, featured, request, answer>>

-----------------------------------------------------------------------------
Status == {"pending_approval", "approved", "rejected", "rented", "sold"}
Deal == {"sale", "rent"}
Closed == {"sold", "rented"}
ClosedAs(type) == IF type = "sale" THEN "sold" ELSE "rented"
DealOf(status) == IF status = "sold" THEN "sale" ELSE "rent"

Rows == {s \in SaleIds : sale[s] # "none"}
At(step, deal, status, scopes) ==
    [step |-> step, deal |-> deal, status |-> status, scopes |-> scopes]
Idle == At("idle", "none", "none", {})

Become(status, public, figures) ==
    listing' = [status |-> status, public |-> public, figures |-> figures, broker |-> listing.broker]

Begin(r, next) ==
    /\ request[r] = Idle
    /\ request' = [request EXCEPT ![r] = next]
    /\ answer' = [answer EXCEPT ![r] = "none"]
End(r, how) ==
    /\ request' = [request EXCEPT ![r] = Idle]
    /\ answer' = [answer EXCEPT ![r] = how]
Goto(r, step) == request' = [request EXCEPT ![r].step = step] /\ UNCHANGED answer

\* A new row of the deal.
InsertSale(type) ==
    \E s \in SaleIds \ Rows : sale' = [sale EXCEPT ![s] = type]

\* Faulty variant: whether there is a row is told by the status.
UpsertByStatus(type) ==
    IF listing.status \notin Closed THEN InsertSale(type)
    ELSE \E s \in Rows : sale' = [sale EXCEPT ![s] = type]

\* upsertSaleRecord, inside the transaction that already locked the listing:
\* the latest row is rewritten, and one of two written in the same second.
UpsertSale(type) ==
    IF Rows = {} THEN InsertSale(type)
    ELSE \E s \in Rows : sale' = [sale EXCEPT ![s] = type]

-----------------------------------------------------------------------------
(* The broker's routes.                                                    *)

BeginClose(r, type) ==
    /\ "close" \in load.routes
    /\ listing.broker
    /\ listing.status \notin {"pending_approval", "rejected"}
    /\ Begin(r, At("close", type, "none", {}))
    /\ UNCHANGED <<listing, sale, featured>>

\* closePropertyDeal's transaction does not look at the status again.
CompleteClose(r) ==
    LET type == request[r].deal
    IN /\ request[r].step = "close"
       /\ Become(ClosedAs(type), listing.public, type)
       /\ UpsertSale(type)
       /\ End(r, "closed")
       /\ UNCHANGED featured

BeginCancel(r) ==
    /\ "cancel" \in load.routes
    /\ listing.broker
    /\ listing.status \in Closed
    /\ Begin(r, At("cancel", "none", "none", {}))
    /\ UNCHANGED <<listing, sale, featured>>

CompleteCancel(r) ==
    /\ request[r].step = "cancel"
    /\ Become("approved", listing.public, "none")
    /\ sale' = [s \in SaleIds |-> "none"]
    /\ End(r, "cancelled")
    /\ UNCHANGED featured

\* deleteProperty: the listing is marked as sold and leaves the showcase.
DeleteProperty ==
    /\ "delete" \in load.routes
    /\ Become("sold", FALSE, listing.figures)
    /\ featured' = {}
    /\ UNCHANGED <<sale, request, answer>>

-----------------------------------------------------------------------------
(* A direct update that gives a status.                                    *)

BeginUpdate(r, status) ==
    /\ "update" \in load.routes
    /\ listing.status # "pending_approval"
    /\ Begin(r, At("write", listing.status, status, {}))
    /\ UNCHANGED <<listing, sale, featured>>

\* The status is written before its effects are looked at; a listing that was
\* rejected goes back to review instead.
WriteStatus(r) ==
    LET was == request[r].deal
        status == request[r].status
    IN /\ request[r].step = "write"
       /\ IF was = "rejected" THEN Become("pending_approval", FALSE, listing.figures)
          ELSE Become(status, listing.public, listing.figures)
       /\ IF was # "rejected" /\ status \in Closed /\ status # was
          THEN IF listing.broker THEN Goto(r, "look") ELSE End(r, "refused")
          ELSE End(r, "updated")
       /\ UNCHANGED <<sale, featured>>

\* A row that is there is updated with a column the table has not: the
\* request fails here.
LookForSale(r) ==
    /\ request[r].step = "look"
    /\ IF Rows = {} THEN Goto(r, "insert") ELSE End(r, "failed")
    /\ UNCHANGED <<listing, sale, featured>>

\* Faulty variant: the row is of a sale, whatever the deal.
InsertAsSale(r) ==
    /\ request[r].step = "insert"
    /\ InsertSale("sale")
    /\ Goto(r, "figures")
    /\ UNCHANGED <<listing, featured>>

InsertRow(r) ==
    /\ request[r].step = "insert"
    /\ InsertSale(DealOf(request[r].status))
    /\ Goto(r, "figures")
    /\ UNCHANGED <<listing, featured>>

WriteFigures(r) ==
    /\ request[r].step = "figures"
    /\ Become(listing.status, listing.public, DealOf(request[r].status))
    /\ End(r, "closed")
    /\ UNCHANGED <<sale, featured>>

-----------------------------------------------------------------------------
(* The administrator's routes.                                             *)

\* Faulty variant: rows of both types are left for the report.
RelistKeeping ==
    /\ "relist" \in load.routes
    /\ listing.status \in Closed
    /\ Become("approved", listing.public, "none")
    /\ UNCHANGED <<sale, featured, request, answer>>

\* relistProperty, under the lock of the listing: the rows of the deal its
\* status tells.
RelistProperty ==
    /\ "relist" \in load.routes
    /\ listing.status \in Closed
    /\ Become("approved", listing.public, "none")
    /\ sale' = [s \in SaleIds |-> IF sale[s] = DealOf(listing.status) THEN "none" ELSE sale[s]]
    /\ UNCHANGED <<featured, request, answer>>

\* updatePropertyStatus; "rejected" is refused for want of a reason.
UpdatePropertyStatus(status) ==
    /\ "status" \in load.routes
    /\ status # "rejected"
    /\ Become(status, listing.public, listing.figures)
    /\ UNCHANGED <<sale, featured, request, answer>>

ApproveProperty ==
    /\ "review" \in load.routes
    /\ Become("approved", TRUE, listing.figures)
    /\ UNCHANGED <<sale, featured, request, answer>>

RejectProperty ==
    /\ "review" \in load.routes
    /\ Become("rejected", FALSE, listing.figures)
    /\ featured' = {}
    /\ UNCHANGED <<sale, request, answer>>

\* updateFeaturedProperties: the listings are looked up, then all rows are
\* replaced in a transaction.
BeginFeature(r, scopes) ==
    /\ "feature" \in load.routes
    /\ scopes # {} => listing.status = "approved"
    /\ Begin(r, At("feature", "none", "none", scopes))
    /\ UNCHANGED <<listing, sale, featured>>

CompleteFeature(r) ==
    /\ request[r].step = "feature"
    /\ featured' = request[r].scopes
    /\ End(r, "featured")
    /\ UNCHANGED <<listing, sale>>

-----------------------------------------------------------------------------
\* A published listing for both purposes, of a broker or of a client.
Init ==
    /\ load \in Loads
    /\ \E broker \in BOOLEAN :
          listing = [status |-> "approved", public |-> TRUE, figures |-> "none", broker |-> broker]
    /\ sale = [s \in SaleIds |-> "none"]
    /\ featured = {}
    /\ request = [r \in Requests |-> Idle]
    /\ answer = [r \in Requests |-> "none"]

Change ==
    \/ \E r \in load.requests :
          \/ \E type \in Deal : BeginClose(r, type)
          \/ CompleteClose(r)
          \/ BeginCancel(r)
          \/ CompleteCancel(r)
          \/ \E status \in Status : BeginUpdate(r, status)
          \/ WriteStatus(r) \/ LookForSale(r) \/ InsertRow(r) \/ WriteFigures(r)
          \/ \E scopes \in SUBSET Deal : BeginFeature(r, scopes)
          \/ CompleteFeature(r)
    \/ DeleteProperty
    \/ RelistProperty
    \/ \E status \in Status : UpdatePropertyStatus(status)
    \/ ApproveProperty
    \/ RejectProperty

Next == Change /\ UNCHANGED load

Spec == Init /\ [][Next]_vars

-----------------------------------------------------------------------------
Step == {"idle", "close", "cancel", "write", "look", "insert", "figures", "feature"}
Answer == {"none", "closed", "cancelled", "updated", "refused", "failed", "featured"}

TypeOK ==
    /\ load \in Loads
    /\ listing \in [status : Status, public : BOOLEAN, figures : Deal \cup {"none"}, broker : BOOLEAN]
    /\ sale \in [SaleIds -> Deal \cup {"none"}]
    /\ featured \subseteq Deal
    /\ request \in [Requests -> [step : Step, deal : Deal \cup Status \cup {"none"},
                                 status : Status \cup {"none"}, scopes : SUBSET Deal]]
    /\ answer \in [Requests -> Answer]

\* Close, cancel and relist keep a listing and its row together, however they
\* overlap: a closed listing has one row, of the deal its status and figures
\* tell, and a listing offered again has none.  The check of the status comes
\* before the transaction; what keeps the rows right is the lock that the
\* first statement takes on the listing.
DealHasItsRow ==
    IF listing.status \in Closed
    THEN /\ Cardinality(Rows) = 1
         /\ \A s \in Rows : sale[s] = DealOf(listing.status)
         /\ listing.figures = DealOf(listing.status)
    ELSE Rows = {} /\ listing.figures = "none"

\* Whatever else happens to the status of a listing, the transaction of a
\* close finds the row that is there: the listing has one row at most.
OneRow == Cardinality(Rows) <= 1

\* A direct update that answers that the deal is closed has left the row and
\* the figures of that deal.
RecordsAnsweredClose ==
    \A r \in load.requests : request[r].step = "figures" /\ answer'[r] = "closed" =>
        /\ Rows # {}
        /\ \A s \in Rows : sale[s] = DealOf(request[r].status)
        /\ listing'.figures = DealOf(request[r].status)

\* What the routes that people may call keep of a listing and its rows.
RowsFollowDeals ==
    /\ TypeOK
    /\ "update" \notin load.routes => OneRow
    /\ load.routes \subseteq {"close", "cancel", "relist"} => DealHasItsRow

\* The rows follow the deals, and the answer of a direct update is true where
\* requests come one at a time and nobody offers the listing again.
DealsHold ==
    /\ []RowsFollowDeals
    /\ [][/\ load.routes \subseteq {"close", "cancel", "update"}
          /\ \A r, q \in load.requests : r = q
          => RecordsAnsweredClose]_vars

\* The same whoever else is there: "fecha negócio, grava sale e atualiza valores
\* da propriedade" (propertyUpdateEffectsService.spec.ts).
AnsweredCloseIsRecorded == [][RecordsAnsweredClose]_vars

-----------------------------------------------------------------------------
(* What the code and its tests say of it.                                  *)

\* 'Apenas corretores podem fechar negocio.': a status that is refused is not
\* written.
OnlyBrokersClose ==
    [][listing.status \notin Closed /\ listing'.status \in Closed => listing.broker]_vars

\* "deleta imovel como sold e remove da vitrine": a listing that was deleted
\* is not featured.
DeletedIsNotFeatured == listing.status = "sold" /\ ~listing.public => featured = {}
==============================================================================
