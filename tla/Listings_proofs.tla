-------------------------- MODULE Listings_proofs --------------------------
(***************************************************************************)
(* Listings as they are closed, as their media are changed and as they are *)
(* edited, for any number of overlapping requests.  A closed listing and   *)
(* the row of its deal stay together: which routes people may call decides *)
(* how much of it holds, and the proof follows the three cases.  What a    *)
(* listing shows is stored, because a file never has more than one place.  *)
(* An approval writes what the edit was checked to come to.                *)
(***************************************************************************)
EXTENDS DealClosing, ListingMedia, PropertyEdits, FiniteSetTheorems, WellFoundedInduction, TLAPS

\* What a request goes by fits its step, and nobody is on a route that may not
\* be called.
RequestsFit ==
    \A r \in Requests :
        /\ request[r].step = "close" => request[r].deal \in Deal
        /\ request[r].step = "write" => request[r].deal \in Status /\ request[r].status \in Status
        /\ request[r].step \in {"look", "insert", "figures"} => request[r].status \in Closed
        /\ request[r].step \in {"write", "look", "insert", "figures"} => "update" \in load.routes

\* The transactions of close and cancel are all that writes rows.
RowAlone == "update" \notin load.routes => \A s, t \in Rows : s = t

\* The status of a listing, its figures and its row tell the same.
Together ==
    load.routes \subseteq {"close", "cancel", "relist"} =>
        IF listing.status \in Closed
        THEN /\ Rows # {} /\ listing.figures = DealOf(listing.status)
             /\ \A s \in Rows : sale[s] = DealOf(listing.status)
        ELSE Rows = {} /\ listing.figures = "none"

OneAtATime ==
    /\ load.routes \subseteq {"close", "cancel", "update"}
    /\ \A r, q \in load.requests : r = q

\* A direct update finds what it has looked for and written.
UpdateAlone ==
    OneAtATime =>
        \A r \in load.requests :
            /\ request[r].step = "insert" => Rows = {}
            /\ request[r].step = "figures" =>
                  Rows # {} /\ \A s \in Rows : sale[s] = DealOf(request[r].status)

DealInv == TypeOK /\ RequestsFit /\ RowAlone /\ Together /\ UpdateAlone

-----------------------------------------------------------------------------
\* The first state has a listing that is offered, and no row.
LEMMA InitDeal == Init => DealInv
<1> SUFFICES ASSUME Init PROVE DealInv
  OBVIOUS
<1>1. Rows = {} /\ listing.status = "approved" /\ listing.figures = "none"
  BY DEF Init, Rows
<1>2. \A r \in Requests : request[r] = Idle /\ Idle.step = "idle"
  BY DEF Init, Idle, At
<1>3. Idle \in [step : Step, deal : Deal \cup Status \cup {"none"},
                status : Status \cup {"none"}, scopes : SUBSET Deal]
  BY DEF Idle, At, Step
<1>4. TypeOK
  BY <1>3 DEF Init, TypeOK, Status, Deal, Answer
<1>5. load.requests \subseteq Requests
  BY LoadsAssumption DEF Init
<1>6. RequestsFit /\ RowAlone /\ Together /\ UpdateAlone
  BY <1>1, <1>2, <1>5 DEF RequestsFit, RowAlone, Together, UpdateAlone, Closed
<1> QED BY <1>4, <1>6 DEF DealInv

\* A new row is one more; a row that is rewritten is where it was.
LEMMA RowWritten ==
    ASSUME TypeOK, NEW s \in SaleIds, NEW type \in Deal, sale' = [sale EXCEPT ![s] = type]
    PROVE  /\ sale' \in [SaleIds -> Deal \cup {"none"}]
           /\ Rows' = Rows \cup {s}
           /\ sale'[s] = type /\ \A t \in SaleIds \ {s} : sale'[t] = sale[t]
BY DEF TypeOK, Rows, Deal

\* A listing that becomes what it may be has its type.
LEMMA BecomesListing ==
    ASSUME TypeOK, NEW status \in Status, NEW public \in BOOLEAN, NEW figures \in Deal \cup {"none"},
           Become(status, public, figures)
    PROVE  /\ listing' \in [status : Status, public : BOOLEAN,
                            figures : Deal \cup {"none"}, broker : BOOLEAN]
           /\ listing'.status = status /\ listing'.figures = figures
BY DEF TypeOK, Become

\* The fields of the listing, and the statuses of deals.
LEMMA ListingTypes ==
    ASSUME TypeOK
    PROVE  /\ listing.status \in Status /\ listing.public \in BOOLEAN
           /\ listing.figures \in Deal \cup {"none"}
           /\ \A type \in Deal : ClosedAs(type) \in Closed /\ DealOf(ClosedAs(type)) = type
           /\ \A status \in Closed : DealOf(status) \in Deal
           /\ Closed \subseteq Status /\ "approved" \in Status \ Closed
           /\ "rejected" \in Status /\ "pending_approval" \in Status /\ "sold" \in Status
BY DEF TypeOK, ClosedAs, DealOf, Closed, Deal, Status

\* A request that begins, goes on or ends; what it goes by keeps its type.
LEMMA RequestMoves ==
    ASSUME TypeOK, NEW r \in Requests, NEW step \in Step, NEW deal \in Deal \cup Status \cup {"none"},
           NEW status \in Status \cup {"none"}, NEW scopes \in SUBSET Deal, NEW how \in Answer,
           request' = [request EXCEPT ![r] = At(step, deal, status, scopes)],
           answer' = [answer EXCEPT ![r] = how] \/ UNCHANGED answer
    PROVE  /\ request' \in [Requests -> [step : Step, deal : Deal \cup Status \cup {"none"},
                                         status : Status \cup {"none"}, scopes : SUBSET Deal]]
           /\ answer' \in [Requests -> Answer]
           /\ request'[r].step = step /\ request'[r].deal = deal /\ request'[r].status = status
           /\ \A q \in Requests \ {r} : request'[q] = request[q]
BY DEF TypeOK, At

-----------------------------------------------------------------------------
\* A request that begins on one of the routes.
LEMMA BeginSteps ==
    ASSUME DealInv, UNCHANGED load, NEW r \in Requests, r \in load.requests,
           \/ \E type \in Deal : BeginClose(r, type)
           \/ BeginCancel(r)
           \/ \E status \in Status : BeginUpdate(r, status)
           \/ \E scopes \in SUBSET Deal : BeginFeature(r, scopes)
    PROVE  DealInv'
<1>1. ASSUME NEW step \in {"close", "cancel", "write", "feature"},
             NEW deal \in Deal \cup Status \cup {"none"}, NEW status \in Status \cup {"none"},
             NEW scopes \in SUBSET Deal, Begin(r, At(step, deal, status, scopes)),
             step = "close" => deal \in Deal,
             step = "write" => deal \in Status /\ status \in Status /\ "update" \in load.routes,
             UNCHANGED <<listing, sale, featured>>
      PROVE  DealInv'
  <2>1. step \in Step /\ "none" \in Answer
    BY DEF Step, Answer
  <2>2. /\ request' \in [Requests -> [step : Step, deal : Deal \cup Status \cup {"none"},
                                      status : Status \cup {"none"}, scopes : SUBSET Deal]]
        /\ answer' \in [Requests -> Answer]
        /\ request'[r].step = step /\ request'[r].deal = deal /\ request'[r].status = status
        /\ \A q \in Requests \ {r} : request'[q] = request[q]
    BY <1>1, <2>1, RequestMoves DEF DealInv, Begin
  <2>3. TypeOK'
    BY <1>1, <2>2 DEF DealInv, TypeOK
  <2>4. RequestsFit' /\ UpdateAlone'
    BY <1>1, <2>2 DEF DealInv, RequestsFit, UpdateAlone, OneAtATime, Rows
  <2>5. RowAlone' /\ Together'
    BY <1>1 DEF DealInv, RowAlone, Together, Rows
  <2> QED BY <2>3, <2>4, <2>5 DEF DealInv
<1>2. listing.status \in Status
  BY ListingTypes DEF DealInv
<1>3. ASSUME NEW type \in Deal, BeginClose(r, type) PROVE DealInv'
  BY <1>1, <1>3 DEF BeginClose
<1>4. CASE BeginCancel(r)
  BY <1>1, <1>4 DEF BeginCancel
<1>5. ASSUME NEW status \in Status, BeginUpdate(r, status) PROVE DealInv'
  BY <1>1, <1>2, <1>5 DEF BeginUpdate
<1>6. ASSUME NEW scopes \in SUBSET Deal, BeginFeature(r, scopes) PROVE DealInv'
  BY <1>1, <1>6 DEF BeginFeature
<1> QED BY <1>3, <1>4, <1>5, <1>6

\* A request that ends without a row or a status of its own.
LEMMA EndsQuietly ==
    ASSUME DealInv, UNCHANGED load, NEW r \in Requests, r \in load.requests,
           NEW how \in Answer, End(r, how), UNCHANGED <<listing, sale>>, featured' \subseteq Deal
    PROVE  DealInv'
<1>1. /\ request' \in [Requests -> [step : Step, deal : Deal \cup Status \cup {"none"},
                                    status : Status \cup {"none"}, scopes : SUBSET Deal]]
      /\ answer' \in [Requests -> Answer]
      /\ request'[r].step = "idle"
      /\ \A q \in Requests \ {r} : request'[q] = request[q]
  <2>1. "idle" \in Step
    BY DEF Step
  <2> QED BY <2>1, RequestMoves DEF DealInv, End, Idle
<1>2. TypeOK' /\ RequestsFit'
  BY <1>1 DEF DealInv, TypeOK, RequestsFit
<1>3. RowAlone' /\ Together' /\ UpdateAlone'
  BY <1>1 DEF DealInv, RowAlone, Together, UpdateAlone, OneAtATime, Rows
<1> QED BY <1>2, <1>3 DEF DealInv

\* The transactions, that of a close and that of a cancellation.
LEMMA TransactionSteps ==
    ASSUME DealInv, UNCHANGED load, NEW r \in Requests, r \in load.requests,
           CompleteClose(r) \/ CompleteCancel(r)
    PROVE  DealInv'
<1>1. TypeOK /\ "closed" \in Answer /\ "cancelled" \in Answer /\ "idle" \in Step
  BY DEF DealInv, Answer, Step
<1>2. PICK how \in Answer : End(r, how)
  BY <1>1 DEF CompleteClose, CompleteCancel
<1>3. /\ request' \in [Requests -> [step : Step, deal : Deal \cup Status \cup {"none"},
                                    status : Status \cup {"none"}, scopes : SUBSET Deal]]
      /\ answer' \in [Requests -> Answer]
      /\ request'[r].step = "idle"
      /\ \A q \in Requests \ {r} : request'[q] = request[q]
  BY <1>1, <1>2, RequestMoves DEF End, Idle
<1>4. RequestsFit'
  BY <1>3 DEF DealInv, RequestsFit
<1>5. UpdateAlone'
  BY <1>3 DEF UpdateAlone, OneAtATime
<1>6. CASE CompleteClose(r)
  <2> DEFINE type == request[r].deal
  <2>1. type \in Deal
    BY <1>6 DEF CompleteClose, DealInv, RequestsFit
  <2>2. Become(ClosedAs(type), listing.public, type) /\ UpsertSale(type) /\ UNCHANGED featured
    BY <1>6 DEF CompleteClose
  <2> HIDE DEF type
  <2>3. PICK s \in SaleIds : /\ sale' = [sale EXCEPT ![s] = type]
                             /\ Rows = {} \/ s \in Rows
    BY <2>2 DEF UpsertSale, InsertSale, Rows
  <2>4. /\ sale' \in [SaleIds -> Deal \cup {"none"}] /\ Rows' = Rows \cup {s} /\ sale'[s] = type
    BY <1>1, <2>1, <2>3, RowWritten
  <2>5. /\ listing' \in [status : Status, public : BOOLEAN,
                         figures : Deal \cup {"none"}, broker : BOOLEAN]
        /\ listing'.status = ClosedAs(type) /\ listing'.figures = type
    BY <1>1, <2>1, <2>2, ListingTypes, BecomesListing
  <2>6. ClosedAs(type) \in Closed /\ DealOf(ClosedAs(type)) = type
    BY <1>1, <2>1, ListingTypes
  <2>7. TypeOK'
    BY <1>1, <1>3, <2>2, <2>4, <2>5 DEF TypeOK
  <2>8. "update" \notin load.routes => Rows' = {s}
    BY <2>3, <2>4 DEF DealInv, RowAlone
  <2>9. RowAlone' /\ Together'
    BY <2>4, <2>5, <2>6, <2>8 DEF RowAlone, Together
  <2> QED BY <1>4, <1>5, <2>7, <2>9 DEF DealInv
<1>7. CASE CompleteCancel(r)
  <2>1. Become("approved", listing.public, "none") /\ sale' = [s \in SaleIds |-> "none"]
        /\ UNCHANGED featured
    BY <1>7 DEF CompleteCancel
  <2>2. /\ listing' \in [status : Status, public : BOOLEAN,
                         figures : Deal \cup {"none"}, broker : BOOLEAN]
        /\ listing'.status = "approved" /\ listing'.figures = "none"
    BY <1>1, <2>1, ListingTypes, BecomesListing
  <2>3. Rows' = {}
    BY <2>1 DEF Rows
  <2>4. TypeOK'
    BY <1>1, <1>3, <2>1, <2>2 DEF TypeOK
  <2>5. RowAlone' /\ Together'
    BY <2>2, <2>3 DEF RowAlone, Together, Closed
  <2> QED BY <1>4, <1>5, <2>4, <2>5 DEF DealInv
<1> QED BY <1>6, <1>7

\* The four statements of a direct update.
LEMMA UpdateSteps ==
    ASSUME DealInv, UNCHANGED load, NEW r \in Requests, r \in load.requests,
           WriteStatus(r) \/ LookForSale(r) \/ InsertRow(r) \/ WriteFigures(r)
    PROVE  DealInv'
<1>1. TypeOK /\ RequestsFit /\ "update" \in load.routes
  BY DEF DealInv, RequestsFit, WriteStatus, LookForSale, InsertRow, WriteFigures
<1>2. RowAlone' /\ Together'
  BY <1>1 DEF RowAlone, Together
<1>3. {"closed", "updated", "refused", "failed"} \subseteq Answer
      /\ {"idle", "look", "insert", "figures"} \subseteq Step
  BY DEF Answer, Step
\* The request goes on with what it went by, or ends.
<1>4. ASSUME NEW step \in {"look", "insert", "figures"}, Goto(r, step), request[r].status \in Closed
      PROVE  /\ request' \in [Requests -> [step : Step, deal : Deal \cup Status \cup {"none"},
                                           status : Status \cup {"none"}, scopes : SUBSET Deal]]
             /\ answer' \in [Requests -> Answer]
             /\ request'[r].step = step /\ request'[r].status = request[r].status
             /\ RequestsFit'
  BY <1>1, <1>3, <1>4 DEF Goto, TypeOK, RequestsFit
<1>5. ASSUME NEW how \in {"closed", "updated", "refused", "failed"}, End(r, how)
      PROVE  /\ request' \in [Requests -> [step : Step, deal : Deal \cup Status \cup {"none"},
                                           status : Status \cup {"none"}, scopes : SUBSET Deal]]
             /\ answer' \in [Requests -> Answer]
             /\ request'[r].step = "idle"
             /\ RequestsFit'
  <2>1. /\ request' \in [Requests -> [step : Step, deal : Deal \cup Status \cup {"none"},
                                      status : Status \cup {"none"}, scopes : SUBSET Deal]]
        /\ answer' \in [Requests -> Answer]
        /\ request'[r].step = "idle"
        /\ \A q \in Requests \ {r} : request'[q] = request[q]
    BY <1>1, <1>3, <1>5, RequestMoves DEF End, Idle
  <2> QED BY <1>1, <2>1 DEF RequestsFit
<1>6. CASE WriteStatus(r)
  <2>1. request[r].status \in Status /\ request[r].deal \in Status /\ request[r].step = "write"
    BY <1>1, <1>6 DEF WriteStatus, RequestsFit
  <2>2. PICK status \in Status, public \in BOOLEAN : Become(status, public, listing.figures)
    BY <1>1, <1>6, <2>1, ListingTypes DEF WriteStatus
  <2>3. listing' \in [status : Status, public : BOOLEAN,
                      figures : Deal \cup {"none"}, broker : BOOLEAN]
    BY <1>1, <2>2, ListingTypes, BecomesListing
  <2>4. \/ Goto(r, "look") /\ request[r].status \in Closed
        \/ \E how \in {"closed", "updated", "refused", "failed"} : End(r, how)
    BY <1>6 DEF WriteStatus
  <2>5. /\ request' \in [Requests -> [step : Step, deal : Deal \cup Status \cup {"none"},
                                      status : Status \cup {"none"}, scopes : SUBSET Deal]]
        /\ answer' \in [Requests -> Answer]
        /\ request'[r].step \in {"idle", "look"} /\ RequestsFit'
    BY <1>4, <1>5, <2>4
  <2>6. UNCHANGED <<sale, featured>>
    BY <1>6 DEF WriteStatus
  <2>7. TypeOK'
    BY <1>1, <2>3, <2>5, <2>6 DEF TypeOK
  <2>8. UpdateAlone'
    BY <2>5 DEF UpdateAlone, OneAtATime
  <2> QED BY <1>2, <2>5, <2>7, <2>8 DEF DealInv
<1>7. CASE LookForSale(r)
  <2>1. request[r].status \in Closed
    BY <1>1, <1>7 DEF LookForSale, RequestsFit
  <2>2. CASE Rows = {}
    <3>1. /\ request' \in [Requests -> [step : Step, deal : Deal \cup Status \cup {"none"},
                                        status : Status \cup {"none"}, scopes : SUBSET Deal]]
          /\ answer' \in [Requests -> Answer]
          /\ request'[r].step = "insert" /\ RequestsFit'
      BY <1>4, <1>7, <2>1, <2>2 DEF LookForSale
    <3>2. UNCHANGED <<listing, sale, featured>>
      BY <1>7 DEF LookForSale
    <3>3. TypeOK' /\ UpdateAlone'
      BY <1>1, <2>2, <3>1, <3>2 DEF TypeOK, UpdateAlone, OneAtATime, Rows
    <3> QED BY <1>2, <3>1, <3>3 DEF DealInv
  <2>3. CASE Rows # {}
    BY <1>3, <1>7, <2>3, EndsQuietly DEF LookForSale, DealInv, TypeOK
  <2> QED BY <2>2, <2>3
<1>8. CASE InsertRow(r)
  <2>1. request[r].status \in Closed /\ DealOf(request[r].status) \in Deal
    BY <1>1, <1>8, ListingTypes DEF InsertRow, RequestsFit
  <2>2. /\ request' \in [Requests -> [step : Step, deal : Deal \cup Status \cup {"none"},
                                      status : Status \cup {"none"}, scopes : SUBSET Deal]]
        /\ answer' \in [Requests -> Answer]
        /\ request'[r].step = "figures" /\ request'[r].status = request[r].status
        /\ RequestsFit'
    BY <1>4, <1>8, <2>1 DEF InsertRow
  <2>3. PICK s \in SaleIds \ Rows : sale' = [sale EXCEPT ![s] = DealOf(request[r].status)]
    BY <1>8 DEF InsertRow, InsertSale
  <2>4. /\ sale' \in [SaleIds -> Deal \cup {"none"}] /\ Rows' = Rows \cup {s}
        /\ sale'[s] = DealOf(request[r].status)
    BY <1>1, <2>1, <2>3, RowWritten
  <2>5. UNCHANGED <<listing, featured>>
    BY <1>8 DEF InsertRow
  <2>6. TypeOK'
    BY <1>1, <2>2, <2>4, <2>5 DEF TypeOK
  <2>7. OneAtATime => Rows = {}
    BY <1>8 DEF InsertRow, DealInv, UpdateAlone
  <2>8. UpdateAlone'
    BY <2>2, <2>4, <2>7 DEF UpdateAlone, OneAtATime
  <2> QED BY <1>2, <2>2, <2>6, <2>8 DEF DealInv
<1>9. CASE WriteFigures(r)
  <2>1. request[r].status \in Closed /\ DealOf(request[r].status) \in Deal
    BY <1>1, <1>9, ListingTypes DEF WriteFigures, RequestsFit
  <2>2. listing' \in [status : Status, public : BOOLEAN,
                      figures : Deal \cup {"none"}, broker : BOOLEAN]
    BY <1>1, <1>9, <2>1, ListingTypes, BecomesListing DEF WriteFigures
  <2>3. /\ request' \in [Requests -> [step : Step, deal : Deal \cup Status \cup {"none"},
                                      status : Status \cup {"none"}, scopes : SUBSET Deal]]
        /\ answer' \in [Requests -> Answer]
        /\ request'[r].step = "idle" /\ RequestsFit'
    BY <1>5, <1>9 DEF WriteFigures
  <2>4. UNCHANGED <<sale, featured>>
    BY <1>9 DEF WriteFigures
  <2>5. TypeOK' /\ UpdateAlone'
    BY <1>1, <2>2, <2>3, <2>4 DEF TypeOK, UpdateAlone, OneAtATime
  <2> QED BY <1>2, <2>3, <2>5 DEF DealInv
<1> QED BY <1>6, <1>7, <1>8, <1>9

\* What one statement of another route does to the listing.
LEMMA SingleSteps ==
    ASSUME DealInv, UNCHANGED load,
           \/ DeleteProperty \/ RelistProperty \/ ApproveProperty \/ RejectProperty
           \/ \E status \in Status : UpdatePropertyStatus(status)
    PROVE  DealInv'
<1>1. TypeOK /\ UNCHANGED <<request, answer>> /\ featured' \subseteq Deal
  BY DEF DealInv, TypeOK, DeleteProperty, RelistProperty, ApproveProperty, RejectProperty,
         UpdatePropertyStatus
<1>2. RequestsFit'
  BY <1>1 DEF DealInv, RequestsFit
<1>3. CASE RelistProperty
  <2>1. /\ Become("approved", listing.public, "none") /\ listing.status \in Closed /\ "relist" \in load.routes
        /\ sale' = [s \in SaleIds |-> IF sale[s] = DealOf(listing.status) THEN "none" ELSE sale[s]]
    BY <1>3 DEF RelistProperty
  <2>2. /\ listing' \in [status : Status, public : BOOLEAN,
                         figures : Deal \cup {"none"}, broker : BOOLEAN]
        /\ listing'.status = "approved" /\ listing'.figures = "none"
    BY <1>1, <2>1, ListingTypes, BecomesListing
  <2>3. sale' \in [SaleIds -> Deal \cup {"none"}]
    BY <1>1, <2>1 DEF TypeOK
  <2>4. Rows' = {s \in Rows : sale[s] # DealOf(listing.status)}
    BY <2>1 DEF Rows
  <2>5. RowAlone' /\ Together'
    BY <2>1, <2>2, <2>4 DEF DealInv, RowAlone, Together, Closed
  <2>6. TypeOK' /\ UpdateAlone'
    BY <1>1, <2>1, <2>2, <2>3 DEF TypeOK, UpdateAlone, OneAtATime
  <2> QED BY <1>2, <2>5, <2>6 DEF DealInv
<1>4. ASSUME NEW status \in Status, NEW public \in BOOLEAN, Become(status, public, listing.figures),
             UNCHANGED sale, ~(load.routes \subseteq {"close", "cancel", "relist"})
      PROVE  DealInv'
  <2>1. listing' \in [status : Status, public : BOOLEAN,
                      figures : Deal \cup {"none"}, broker : BOOLEAN]
    BY <1>1, <1>4, ListingTypes, BecomesListing
  <2>2. TypeOK' /\ RowAlone' /\ Together' /\ UpdateAlone'
    BY <1>1, <1>4, <2>1 DEF DealInv, TypeOK, RowAlone, Together, UpdateAlone, OneAtATime, Rows
  <2> QED BY <1>2, <2>2 DEF DealInv
<1>5. CASE ~RelistProperty
  <2>1. listing.public \in BOOLEAN /\ {"sold", "approved", "rejected"} \subseteq Status
    BY <1>1, ListingTypes
  <2> QED BY <1>4, <1>5, <2>1 DEF DeleteProperty, ApproveProperty, RejectProperty, UpdatePropertyStatus
<1> QED BY <1>3, <1>5

LEMMA DealSteps ==
    ASSUME DealInv, [Next]_vars
    PROVE  DealInv'
<1> load.requests \subseteq Requests
  BY LoadsAssumption DEF DealInv, TypeOK
<1>1. ASSUME UNCHANGED load, NEW r \in load.requests, CompleteFeature(r) PROVE DealInv'
  <2>1. "featured" \in Answer /\ request[r].scopes \subseteq Deal
    BY DEF Answer, DealInv, TypeOK
  <2> QED BY <1>1, <2>1, EndsQuietly DEF CompleteFeature
<1>2. CASE UNCHANGED vars
  BY <1>2 DEF vars, DealInv, TypeOK, RequestsFit, RowAlone, Together, UpdateAlone, OneAtATime, Rows
<1> QED BY <1>1, <1>2, BeginSteps, TransactionSteps, UpdateSteps, SingleSteps DEF Next, Change

-----------------------------------------------------------------------------
\* Whichever routes are called, and however the requests overlap, a listing, its
\* figures and its rows are as the routes leave them (propertyLifecycleService.ts,
\* adminPropertyCatalogService.ts, propertyUpdateEffectsService.ts).
THEOREM DealSafety == Spec => []DealInv
BY InitDeal, DealSteps, PTL DEF Spec

\* A closed listing has one row, of its deal, and an open one has none, while
\* only close, cancel and relist are called; it has one row at most unless it is
\* updated directly; and a direct update that answers that the deal is closed has
\* recorded it, where requests come one at a time and nobody relists.
THEOREM DealsAlwaysHold == Spec => DealsHold
<1>1. ASSUME DealInv PROVE RowsFollowDeals
  <2>1. ASSUME "update" \notin load.routes
        PROVE  Cardinality(Rows) <= 1 /\ (Rows # {} => Cardinality(Rows) = 1)
    <3>1. CASE Rows = {}
      BY <3>1, FS_EmptySet
    <3>2. CASE Rows # {}
      <4>1. PICK s \in Rows : Rows = {s}
        BY <1>1, <2>1, <3>2 DEF DealInv, RowAlone
      <4>2. Cardinality(Rows) = 1
        BY <4>1, FS_Singleton
      <4> QED BY <4>2
    <3> QED BY <3>1, <3>2
  <2>2. load.routes \subseteq {"close", "cancel", "relist"} => DealHasItsRow
    BY <1>1, <2>1 DEF DealInv, Together, DealHasItsRow
  <2> QED BY <1>1, <2>1, <2>2 DEF DealInv, RowsFollowDeals, OneRow
<1>2. ASSUME DealInv, Next, load.routes \subseteq {"close", "cancel", "update"}, \A r, q \in load.requests : r = q
      PROVE  RecordsAnsweredClose
  <2> SUFFICES ASSUME NEW r \in load.requests, request[r].step = "figures", answer'[r] = "closed"
               PROVE  /\ Rows # {} /\ \A s \in Rows : sale[s] = DealOf(request[r].status)
                      /\ listing'.figures = DealOf(request[r].status)
    BY DEF RecordsAnsweredClose
  <2>1. Rows # {} /\ \A s \in Rows : sale[s] = DealOf(request[r].status)
    BY <1>2 DEF DealInv, UpdateAlone, OneAtATime
  <2>2. WriteFigures(r)
    <3>1. PICK q \in load.requests :
            \/ \E type \in Deal : BeginClose(q, type)
            \/ CompleteClose(q) \/ BeginCancel(q) \/ CompleteCancel(q)
            \/ \E status \in Status : BeginUpdate(q, status)
            \/ WriteStatus(q) \/ LookForSale(q) \/ InsertRow(q) \/ WriteFigures(q)
            \/ \E scopes \in SUBSET Deal : BeginFeature(q, scopes)
            \/ CompleteFeature(q)
      BY <1>2 DEF Next, Change, DeleteProperty, RelistProperty, UpdatePropertyStatus, ApproveProperty,
                  RejectProperty
    <3>2. q = r
      BY <1>2
    <3>3. request[r] # Idle
      BY DEF Idle, At
    <3>4. /\ \A type \in Deal : ~BeginClose(r, type)
          /\ \A status \in Status : ~BeginUpdate(r, status)
          /\ \A scopes \in SUBSET Deal : ~BeginFeature(r, scopes)
          /\ ~BeginCancel(r)
      BY <3>3 DEF BeginClose, BeginUpdate, BeginFeature, BeginCancel, Begin
    <3>5. ~CompleteClose(r) /\ ~CompleteCancel(r) /\ ~WriteStatus(r) /\ ~LookForSale(r)
          /\ ~InsertRow(r) /\ ~CompleteFeature(r)
      BY DEF CompleteClose, CompleteCancel, WriteStatus, LookForSale, InsertRow, CompleteFeature
    <3> QED BY <3>1, <3>2, <3>4, <3>5
  <2>3. listing'.figures = DealOf(request[r].status)
    BY <2>2 DEF WriteFigures, Become
  <2> QED BY <2>1, <2>3
<1>3. DealInv /\ [Next]_vars =>
        [/\ load.routes \subseteq {"close", "cancel", "update"}
         /\ \A r, q \in load.requests : r = q
         => RecordsAnsweredClose]_vars
  BY <1>2
<1> QED BY <1>1, <1>3, DealSafety, PTL DEF Spec, DealsHold

----------------------------------------------------------------------------
(* The media of the listings.                                              *)

Creating == {"uploading", "clipped", "inserting"}

\* What a request has uploaded, or a creation was given, and no row names yet.
Uploaded(u) ==
    (IF u.phase \in Creating \cup {"imaging", "adding", "filming"} THEN u.files ELSE {})
      \cup (IF u.phase \in Creating THEN {u.video} \ {NoFile} ELSE {})

PendingFiles(r) == Uploaded(upload[r])

\* A file that was uploaded, and named in no body, is nowhere but there.
OnlyPlace(f, images, videos, pending) ==
    \/ f \in named
    \/ /\ f \in used
       /\ \A l \in Listings : /\ f \in entry[l].images => l \in images
                              /\ f = entry[l].video => l \in videos
       /\ \A r \in MediaRequests : f \in PendingFiles(r) => r \in pending

Known(f) == f \in stored \cup named

\* Every file has one place, and is stored as long as it has, unless a body has
\* named it.
FilesHaveTheirPlace ==
    /\ \A l \in Listings :
          /\ \A f \in entry[l].images : Known(f) /\ OnlyPlace(f, {l}, {}, {})
          /\ \A f \in {entry[l].video} \ {NoFile} : Known(f) /\ OnlyPlace(f, {}, {l}, {})
    /\ \A r \in MediaRequests : \A f \in PendingFiles(r) : Known(f) /\ OnlyPlace(f, {}, {}, {r})

AtListing == {"imaging", "adding", "deleting", "erasing", "filming", "unfilming", "clearing", "naming"}

\* A file that a request has read may be shown where it was read, and once its
\* row is written it is shown nowhere; a creation's video is none of its images,
\* and an update shows what was named.
Reading(u) ==
    /\ u.phase \in AtListing => \E l \in Listings : u.listing = {l}
    /\ u.phase = "deleting" => OnlyPlace(u.old, u.listing, {}, {})
    /\ u.phase \in {"filming", "unfilming"} /\ u.old # NoFile => OnlyPlace(u.old, {}, u.listing, {})
    /\ u.phase = "erasing" /\ u.old # NoFile => OnlyPlace(u.old, {}, {}, {})
    /\ u.phase \in Creating /\ u.video \in u.files => u.video \in named
    /\ u.phase \in {"clearing", "naming"} => u.files \subseteq named

ReadingsFit == \A r \in MediaRequests : \A u \in {upload[r]} : Reading(u)

\* A code that is about to be inserted is one, and one that was generated is
\* free where no other request can have taken it.
CodesFit ==
    /\ \A r \in MediaRequests :
          /\ upload[r].typed /\ upload[r].phase \in Creating => upload[r].code \in Codes
          /\ upload[r].phase = "inserting" => upload[r].code \in Codes
    /\ (\A r, q \in mediaLoad.requests : r = q) =>
          /\ refused = {}
          /\ \A r \in mediaLoad.requests : upload[r].phase = "inserting" /\ ~upload[r].typed
                => \A l \in Listings : entry[l].code # upload[r].code

MediaInv == MediaTypes /\ FilesHaveTheirPlace /\ ReadingsFit /\ CodesFit

-----------------------------------------------------------------------------
Entry == [code : Codes \cup {NoCode}, images : SUBSET Files, video : Files \cup {NoFile}]

\* A step of one request: what a listing shows anew is what the request had
\* uploaded, and what leaves the storage has no place.
Moves(r, k) ==
    /\ used \subseteq used' /\ named \subseteq named'
    /\ \A o \in MediaRequests \ {r} : upload'[o] = upload[o]
    /\ PendingFiles(r)' \subseteq PendingFiles(r) \cup named'
    /\ \A l \in Listings :
          IF l = k
          THEN /\ \A f \in entry'[l].images :
                    f \in entry[l].images \cup named' \/ f \in PendingFiles(r) \ PendingFiles(r)'
               /\ \/ entry'[l].video \in {entry[l].video, NoFile} \cup named'
                  \/ entry'[l].video \in (PendingFiles(r) \ PendingFiles(r)') \ entry'[l].images
          ELSE entry'[l].images = entry[l].images /\ entry'[l].video = entry[l].video
    /\ \A f \in stored \ stored' : OnlyPlace(f, {}, {}, {})

\* A file that no upload is about to show stays where it is.
LEMMA OnlyStays ==
  ASSUME MediaInv, NEW r \in MediaRequests, NEW k, Moves(r, k),
         NEW f, NEW images, NEW videos, OnlyPlace(f, images, videos, {})
  PROVE  OnlyPlace(f, images, videos, {})'
<1> SUFFICES ASSUME f \notin named' PROVE OnlyPlace(f, images, videos, {})'
  BY DEF OnlyPlace
<1>0. f \notin named
  BY DEF Moves
<1>1. f \in used /\ f # NoFile /\ f \notin PendingFiles(r)
  BY <1>0, MediaAssumption DEF OnlyPlace, MediaInv, MediaTypes
<1>2. f \in used'
  BY <1>1 DEF Moves
<1>3. \A o \in MediaRequests : f \notin PendingFiles(o)'
  <2>1. \A o \in MediaRequests \ {r} : PendingFiles(o)' = PendingFiles(o)
    BY DEF Moves, PendingFiles, Uploaded
  <2>2. \A o \in MediaRequests : f \notin PendingFiles(o)
    BY <1>0 DEF OnlyPlace
  <2> HIDE DEF PendingFiles
  <2> QED BY <2>1, <2>2 DEF Moves
<1>4. \A l \in Listings : /\ f \in entry'[l].images => f \in entry[l].images
                          /\ f = entry'[l].video => f = entry[l].video
  BY <1>1 DEF Moves
<1> QED BY <1>0, <1>2, <1>3, <1>4 DEF OnlyPlace

\* Files keep a place each.
LEMMA PlacesStay ==
  ASSUME MediaInv, NEW r \in MediaRequests, NEW k, Moves(r, k)
  PROVE  FilesHaveTheirPlace'
<1>1. \A o \in MediaRequests \ {r} : PendingFiles(o)' = PendingFiles(o)
  BY DEF Moves, PendingFiles, Uploaded
<1>2. \A o \in MediaRequests : PendingFiles(o)' \subseteq PendingFiles(o) \cup named'
  BY <1>1 DEF Moves
<1>3. /\ \A o \in MediaRequests : \A f \in PendingFiles(o) : Known(f) /\ OnlyPlace(f, {}, {}, {o})
      /\ \A l \in Listings :
            /\ \A f \in entry[l].images : Known(f) /\ OnlyPlace(f, {l}, {}, {})
            /\ \A f \in {entry[l].video} \ {NoFile} : Known(f) /\ OnlyPlace(f, {}, {l}, {})
  BY DEF MediaInv, FilesHaveTheirPlace
<1>4. \A f \in used : f # NoFile
  BY MediaAssumption DEF MediaInv, MediaTypes
<1>n. named \subseteq named'
  BY DEF Moves
<1> HIDE DEF PendingFiles
<1>5. ASSUME NEW o \in MediaRequests, NEW f \in PendingFiles(o)', f \notin named'
      PROVE  f \in stored' /\ OnlyPlace(f, {}, {}, {o})'
  <2>1. f \in PendingFiles(o) /\ f \in stored /\ OnlyPlace(f, {}, {}, {o}) /\ f \notin named
    BY <1>2, <1>3, <1>5, <1>n DEF Known
  <2>2. f \in stored'
    BY <2>1 DEF Moves, OnlyPlace
  <2>3. f # NoFile /\ f \in used'
    BY <2>1, <1>4 DEF Moves, OnlyPlace
  <2>4. \A q \in MediaRequests : f \in PendingFiles(q)' => q = o
    BY <2>1, <1>2, <1>5 DEF OnlyPlace
  <2>5. \A l \in Listings : f \notin entry'[l].images /\ f # entry'[l].video
    <3>1. \A l \in Listings : f \notin entry[l].images /\ f # entry[l].video
      BY <2>1 DEF OnlyPlace
    <3>2. f \notin PendingFiles(r) \ PendingFiles(r)'
      BY <2>1, <1>5 DEF OnlyPlace
    <3> QED BY <3>1, <3>2, <2>3, <1>5 DEF Moves
  <2> QED BY <2>2, <2>3, <2>4, <2>5 DEF OnlyPlace
<1>6. ASSUME NEW f \in PendingFiles(r) \ PendingFiles(r)', f \notin named'
      PROVE  /\ f \in stored' /\ f \in used' /\ f # NoFile
             /\ \A o \in MediaRequests : f \notin PendingFiles(o)'
             /\ \A l \in Listings : /\ f \in entry'[l].images => l = k
                                    /\ f = entry'[l].video => l = k /\ f \notin entry'[l].images
  <2>1. f \in stored /\ OnlyPlace(f, {}, {}, {r}) /\ f \notin named
    BY <1>3, <1>6, <1>n DEF Known
  <2>2. f \in stored' /\ f \in used' /\ f # NoFile
    BY <2>1, <1>4 DEF Moves, OnlyPlace
  <2>3. \A o \in MediaRequests : f \notin PendingFiles(o)'
    BY <2>1, <1>2, <1>6 DEF OnlyPlace
  <2>4. \A l \in Listings : f \notin entry[l].images /\ f # entry[l].video
    BY <2>1 DEF OnlyPlace
  <2> QED BY <1>6, <2>2, <2>3, <2>4 DEF Moves
<1>7. ASSUME NEW l \in Listings, NEW f \in entry'[l].images, f \notin named'
      PROVE  f \in stored' /\ OnlyPlace(f, {l}, {}, {})'
  <2>1. CASE f \in entry[l].images
    <3>1. f \in stored /\ OnlyPlace(f, {l}, {}, {}) /\ f \notin named
      BY <1>3, <1>7, <1>n, <2>1 DEF Known
    <3>2. f \in stored'
      BY <2>1, <3>1 DEF Moves, OnlyPlace
    <3> QED BY <3>1, <3>2, OnlyStays
  <2>2. CASE f \notin entry[l].images
    <3>1. f \in PendingFiles(r) \ PendingFiles(r)' /\ l = k
      BY <1>7, <2>2 DEF Moves
    <3> QED BY <3>1, <1>6, <1>7 DEF OnlyPlace
  <2> QED BY <2>1, <2>2
<1>8. ASSUME NEW l \in Listings, NEW f \in {entry'[l].video} \ {NoFile}, f \notin named'
      PROVE  f \in stored' /\ OnlyPlace(f, {}, {l}, {})'
  <2>1. CASE f = entry[l].video
    <3>1. f \in stored /\ OnlyPlace(f, {}, {l}, {}) /\ f \notin named
      BY <1>3, <1>8, <1>n, <2>1 DEF Known
    <3>2. f \in stored'
      BY <2>1, <3>1 DEF Moves, OnlyPlace
    <3> QED BY <3>1, <3>2, OnlyStays
  <2>2. CASE f # entry[l].video
    <3>1. f \in PendingFiles(r) \ PendingFiles(r)' /\ l = k
      BY <1>8, <2>2 DEF Moves
    <3> QED BY <3>1, <1>6, <1>8 DEF OnlyPlace
  <2> QED BY <2>1, <2>2
<1>9. \A f \in named' : \A images, videos, pending : OnlyPlace(f, images, videos, pending)'
  BY DEF OnlyPlace
<1> QED BY <1>5, <1>7, <1>8, <1>9 DEF FilesHaveTheirPlace, Known

-----------------------------------------------------------------------------
\* The request that moved, and the others.
LEMMA Moved ==
  ASSUME MediaInv, NEW r \in MediaRequests, NEW q \in UploadState, Move(r, q)
  PROVE  /\ upload' \in [MediaRequests -> UploadState] /\ upload'[r] = q
         /\ \A o \in MediaRequests \ {r} : upload'[o] = upload[o]
         /\ PendingFiles(r) = Uploaded(upload[r]) /\ PendingFiles(r)' = Uploaded(q)
<1>1. /\ upload' \in [MediaRequests -> UploadState] /\ upload'[r] = q
      /\ \A o \in MediaRequests \ {r} : upload'[o] = upload[o]
  BY DEF MediaInv, MediaTypes, Move
<1> QED BY <1>1 DEF PendingFiles

\* What the constants are.
LEMMA MediaBounds ==
  /\ MaxCode \in Nat \ {0} /\ MaxImages \in Nat \ {0} /\ MaxCrashes \in Nat /\ NoFile \notin Files
  /\ NoUpload \in UploadState /\ NoUpload.phase = "idle" /\ NoUpload.files = {}
  /\ NoUpload.room = 0 /\ NoUpload.video = NoFile /\ Uploaded(NoUpload) = {}
  /\ Reading(NoUpload)
  /\ \A phase \in Phase, q \in UploadState : [q EXCEPT !.phase = phase] \in UploadState
<1>1. MaxCode \in Nat \ {0} /\ MaxImages \in Nat \ {0} /\ MaxCrashes \in Nat /\ NoFile \notin Files
  BY MediaAssumption
<1>2. NoUpload \in UploadState /\ NoUpload.phase = "idle" /\ NoUpload.files = {} /\ NoUpload.room = 0
      /\ NoUpload.video = NoFile
  BY <1>1 DEF NoUpload, UploadState, Phase, NoCode
<1>3. \A phase \in Phase, q \in UploadState : [q EXCEPT !.phase = phase] \in UploadState
  BY DEF UploadState
<1> QED BY <1>1, <1>2, <1>3 DEF Uploaded, Reading, Creating, AtListing

\* Together: a step that moves files and readings as it should.
LEMMA StepKeeps ==
  ASSUME MediaInv, NEW r \in MediaRequests, NEW q \in UploadState, Move(r, q), NEW k, Moves(r, k),
         Reading(q)', entry' \in [Listings -> Entry], stored' \subseteq used', used' \cup named' \subseteq Files,
         refused' \subseteq Codes, crashes' \in 0 .. MaxCrashes, UNCHANGED mediaLoad, CodesFit'
  PROVE  MediaInv'
<1>1. MediaTypes'
  BY Moved DEF MediaInv, MediaTypes, Entry
<1>2. ReadingsFit'
  <2> SUFFICES ASSUME NEW o \in MediaRequests, NEW u \in {upload'[o]} PROVE Reading(u)'
    BY DEF ReadingsFit
  <2>1. CASE o = r
    BY <2>1, Moved
  <2>2. CASE o # r
    <3>1. u = upload[o] /\ Reading(u)
      BY <2>2, Moved DEF MediaInv, ReadingsFit
    <3>2. \A f, images, videos : OnlyPlace(f, images, videos, {}) => OnlyPlace(f, images, videos, {})'
      BY OnlyStays
    <3> QED BY <3>1, <3>2 DEF Reading, Moves
  <2> QED BY <2>1, <2>2
<1> QED BY <1>1, <1>2, PlacesStay DEF MediaInv

\* A step by which no listing shows anything else and no file comes or goes.
LEMMA ShowsTheSame ==
  ASSUME MediaInv, NEW r \in MediaRequests, NEW q \in UploadState, Move(r, q),
         UNCHANGED <<mediaLoad, stored, used>>, entry' \in [Listings -> Entry],
         \A l \in Listings : entry'[l].images = entry[l].images /\ entry'[l].video = entry[l].video,
         named \subseteq named', named' \subseteq Files,
         Uploaded(q) \subseteq Uploaded(upload[r]) \cup named', Reading(q) \/ Reading(q)',
         refused' \subseteq Codes, crashes' \in 0 .. MaxCrashes, CodesFit'
  PROVE  MediaInv'
<1>1. Moves(r, r)
  <2>1. PendingFiles(r)' \subseteq PendingFiles(r) \cup named'
    BY Moved
  <2>2. \A o \in MediaRequests \ {r} : upload'[o] = upload[o]
    BY Moved
  <2> QED BY <2>1, <2>2 DEF Moves
<1>2. \A f, images, videos : OnlyPlace(f, images, videos, {}) => OnlyPlace(f, images, videos, {})'
  BY <1>1, OnlyStays
<1>3. Reading(q)'
  BY <1>2 DEF Reading
<1>4. stored' \subseteq used' /\ used' \cup named' \subseteq Files
  BY DEF MediaInv, MediaTypes
<1> QED BY <1>1, <1>3, <1>4, StepKeeps

\* A step that has nothing to do with codes.
LEMMA CodesStay ==
  ASSUME MediaInv, NEW r \in MediaRequests, NEW q \in UploadState, Move(r, q),
         UNCHANGED <<mediaLoad, refused>>,
         \A l \in Listings : entry'[l].code = entry[l].code,
         \/ q.phase \notin Creating
         \/ /\ upload[r].phase \in Creating /\ (q.phase = "inserting" => upload[r].phase = "inserting")
            /\ q.code = upload[r].code /\ q.typed = upload[r].typed
  PROVE  CodesFit'
<1>1. \A o \in MediaRequests :
        upload'[o].phase \in Creating =>
            /\ upload[o].phase \in Creating
            /\ upload'[o].phase = "inserting" => upload[o].phase = "inserting"
            /\ upload'[o].code = upload[o].code /\ upload'[o].typed = upload[o].typed
  BY Moved
<1>2. mediaLoad.requests \subseteq MediaRequests
  BY MediaAssumption DEF MediaInv, MediaTypes
<1>3. "inserting" \in Creating
  BY DEF Creating
<1> QED BY <1>1, <1>2, <1>3 DEF MediaInv, CodesFit

\* A set of numbers within a bound has a highest.
LEMMA HighestIs ==
  ASSUME NEW M \in Nat, NEW S \in SUBSET (0 .. M), S # {}
  PROVE  \E h \in S : \A c \in S : c <= h
<1> DEFINE T == {n \in Nat : \A c \in S : c <= n}
           R == OpToRel(<, Nat)
<1>1. T \subseteq Nat /\ M \in T
  OBVIOUS
<1>2. \A x, y \in Nat : <<y, x>> \in R <=> y < x
  BY DEF OpToRel
<1>3. IsWellFoundedOn(R, Nat)
  BY NatLessThanWellFounded
<1> HIDE DEF R
<1>4. PICK n \in T : \A m \in T : ~ (<<m, n>> \in R)
  <2> HIDE DEF T
  <2> QED BY <1>1, <1>3, WFMin, Zenon
<1>5. \A m \in T : n <= m
  <2> HIDE DEF T
  <2>1. \A m \in T : m \in Nat /\ n \in Nat
    BY <1>1
  <2>2. \A m \in T : ~ (m < n)
    BY <2>1, <1>4, <1>2
  <2> QED BY <2>1, <2>2
<1>6. n \in S
  <2> SUFFICES ASSUME n \notin S PROVE FALSE
    OBVIOUS
  <2>1. \A c \in S : c < n /\ c \in Nat
    OBVIOUS
  <2>2. PICK c \in S : TRUE
    OBVIOUS
  <2>3. n > 0 /\ n \in Nat
    BY <2>1, <2>2
  <2>4. \A d \in S : d <= n - 1
    BY <2>1, <2>3
  <2>5. n - 1 \in T
    BY <2>3, <2>4
  <2> QED BY <2>3, <2>5, <1>5
<1> QED BY <1>6

\* A generated code is above those that are there.
LEMMA NextCodeIsFree ==
  ASSUME MediaInv
  PROVE  NextCode \in 1 .. MaxCode + 1 /\ \A l \in Listings : entry[l].code # NextCode
<1> DEFINE Taken == {0} \cup {entry[l].code : l \in Listings}
           Highest(c) == /\ c = 0 \/ \E l \in Listings : entry[l].code = c
                         /\ \A l \in Listings : entry[l].code <= c
<1>1. Taken \in SUBSET (0 .. MaxCode) /\ Taken # {} /\ MaxCode \in Nat
  BY MediaBounds DEF MediaInv, MediaTypes, Codes, NoCode
<1>2. \E c \in 0 .. MaxCode : Highest(c)
  <2>1. PICK h \in Taken : \A c \in Taken : c <= h
    <3> HIDE DEF Taken
    <3> QED BY <1>1, HighestIs
  <2> QED BY <2>1, <1>1
<1>3. NextCode = 1 + CHOOSE c \in 0 .. MaxCode : Highest(c)
  BY DEF NextCode
<1>4. PICK c \in 0 .. MaxCode : Highest(c) /\ NextCode = 1 + c
  <2> HIDE DEF Highest
  <2> QED BY <1>2, <1>3
<1>5. \A l \in Listings : entry[l].code \in Nat /\ entry[l].code <= c
  BY <1>4 DEF MediaInv, MediaTypes, Codes, NoCode
<1> QED BY <1>4, <1>5, MediaBounds

-----------------------------------------------------------------------------
\* What the invariant says of the request that moves.
LEMMA Mover ==
  ASSUME MediaInv, NEW r \in mediaLoad.requests
  PROVE  /\ r \in MediaRequests /\ upload[r] \in UploadState /\ Reading(upload[r])
         /\ PendingFiles(r) = Uploaded(upload[r])
         /\ upload[r].phase \in AtListing
               => Of(r) \in Listings /\ upload[r].listing = {Of(r)}
         /\ stored \subseteq used /\ used \cup named \subseteq Files /\ refused \subseteq Codes
         /\ crashes \in 0 .. MaxCrashes /\ entry \in [Listings -> Entry]
<1>1. r \in MediaRequests
  BY MediaAssumption DEF MediaInv, MediaTypes
<1>2. upload[r] \in UploadState /\ Reading(upload[r])
  BY <1>1 DEF MediaInv, MediaTypes, ReadingsFit
<1>3. upload[r].phase \in AtListing
        => Of(r) \in Listings /\ upload[r].listing = {Of(r)}
  BY <1>2 DEF Reading, Of
<1> QED BY <1>1, <1>2, <1>3 DEF MediaInv, MediaTypes, PendingFiles, Entry

\* A request that begins has read what the listing shows.
LEMMA BeginsKeep ==
  ASSUME MediaInv, NEW r \in mediaLoad.requests, UNCHANGED mediaLoad,
         \/ \E l \in Listings, n \in 1 .. MaxImages : BeginAddImage(r, l, n)
         \/ \E l \in Listings, f \in Files : BeginDeleteImage(r, l, f)
         \/ \E l \in Listings : BeginAddVideo(r, l) \/ BeginDeleteVideo(r, l)
  PROVE  MediaInv'
<1>1. PICK q : /\ Move(r, q) /\ q \in UploadState /\ q.phase \in Phase \ Creating
               /\ q.files = {} /\ Reading(q)
  <2>1. CASE \E l \in Listings, n \in 1 .. MaxImages : BeginAddImage(r, l, n)
    <3>1. PICK l \in Listings, n \in 1 .. MaxImages : BeginAddImage(r, l, n)
      BY <2>1
    <3> DEFINE q == [NoUpload EXCEPT !.phase = "adding", !.listing = {l}, !.room = n]
    <3>2. Move(r, q) /\ n \in 0 .. MaxImages
      <4>1. n \in 0 .. MaxImages
        BY MediaBounds
      <4> QED BY <3>1, <4>1 DEF BeginAddImage
    <3>3. q \in UploadState /\ q.phase = "adding" /\ q.listing = {l} /\ q.files = {}
      <4>1. NoUpload \in UploadState /\ NoUpload.files = {} /\ "adding" \in Phase
        BY MediaBounds DEF Phase
      <4>2. q \in UploadState
        BY <4>1, <3>2 DEF UploadState
      <4> QED BY <4>1, <4>2 DEF UploadState
    <3> HIDE DEF q
    <3> QED BY <3>2, <3>3 DEF Reading, Phase, Creating, AtListing
  <2>2. CASE \E l \in Listings, f \in Files : BeginDeleteImage(r, l, f)
    <3>1. PICK l \in Listings, f \in Files : BeginDeleteImage(r, l, f)
      BY <2>2
    <3> DEFINE q == [NoUpload EXCEPT !.phase = "deleting", !.listing = {l}, !.old = f]
    <3>2. Move(r, q) /\ f \in entry[l].images /\ "deleting" \in Phase
      BY <3>1 DEF BeginDeleteImage, Phase
    <3>3. q \in UploadState /\ q.phase = "deleting" /\ q.listing = {l} /\ q.files = {} /\ q.old = f
      <4>1. NoUpload \in UploadState /\ NoUpload.files = {}
        BY MediaBounds
      <4>2. q \in UploadState
        BY <4>1, <3>2 DEF UploadState
      <4> QED BY <4>1, <4>2 DEF UploadState
    <3>4. OnlyPlace(f, {l}, {}, {})
      BY <3>2 DEF MediaInv, FilesHaveTheirPlace
    <3> HIDE DEF q
    <3> QED BY <3>2, <3>3, <3>4 DEF Reading, Phase, Creating, AtListing
  <2>3. CASE \E l \in Listings : BeginAddVideo(r, l) \/ BeginDeleteVideo(r, l)
    <3>1. PICK l \in Listings : BeginAddVideo(r, l) \/ BeginDeleteVideo(r, l)
      BY <2>3
    <3> DEFINE old == entry[l].video
               add == [NoUpload EXCEPT !.phase = "filming", !.listing = {l}, !.old = old, !.room = 1]
               delete == [NoUpload EXCEPT !.phase = "unfilming", !.listing = {l}, !.old = old]
    <3>2. Move(r, add) \/ Move(r, delete)
      BY <3>1 DEF BeginAddVideo, BeginDeleteVideo
    <3>3. old \in Files \cup {NoFile} /\ "unfilming" \in Phase
      BY DEF MediaInv, MediaTypes, Phase
    <3>4. \A f \in {old} \ {NoFile} : OnlyPlace(f, {}, {l}, {})
      BY DEF MediaInv, FilesHaveTheirPlace
    <3> HIDE DEF old
    <3>5. /\ add \in UploadState /\ add.phase = "filming" /\ add.listing = {l} /\ add.files = {}
          /\ add.old = old
      <4>1. NoUpload \in UploadState /\ NoUpload.files = {} /\ "filming" \in Phase /\ 1 \in 0 .. MaxImages
        BY MediaBounds DEF Phase
      <4>2. add \in UploadState
        BY <4>1, <3>3 DEF UploadState
      <4> QED BY <4>1, <4>2 DEF UploadState
    <3>6. /\ delete \in UploadState /\ delete.phase = "unfilming" /\ delete.listing = {l}
          /\ delete.files = {} /\ delete.old = old
      <4>1. NoUpload \in UploadState /\ NoUpload.files = {}
        BY MediaBounds
      <4>2. delete \in UploadState
        BY <4>1, <3>3 DEF UploadState
      <4> QED BY <4>1, <4>2 DEF UploadState
    <3> HIDE DEF add, delete
    <3>7. Reading(add) /\ Reading(delete)
      BY <3>4, <3>5, <3>6 DEF Reading, Creating, AtListing
    <3> QED BY <3>2, <3>5, <3>6, <3>7 DEF Phase, Creating
  <2> QED BY <2>1, <2>2, <2>3
<1>2. UNCHANGED <<entry, stored, used, named, refused, crashes>>
  BY DEF BeginAddImage, BeginDeleteImage, BeginAddVideo, BeginDeleteVideo
<1>3. Uploaded(q) \subseteq Uploaded(upload[r])
  BY <1>1 DEF Uploaded
<1>4. CodesFit'
  BY <1>1, <1>2, Mover, CodesStay
<1> QED BY <1>1, <1>2, <1>3, <1>4, Mover, ShowsTheSame

\* A request that stops leaves its files unnamed.
LEMMA FailKeeps ==
  ASSUME MediaInv, NEW r \in mediaLoad.requests, UNCHANGED mediaLoad, Fail(r)
  PROVE  MediaInv'
<1>1. /\ Move(r, NoUpload) /\ UNCHANGED <<entry, stored, used, named, refused>> /\ crashes' = crashes + 1
      /\ crashes < MaxCrashes
  BY DEF Fail, Done
<1>2. crashes' \in 0 .. MaxCrashes
  BY <1>1, Mover, MediaBounds
<1>3. CodesFit'
  BY <1>1, Mover, MediaBounds, CodesStay DEF Creating
<1> QED BY <1>1, <1>2, <1>3, Mover, MediaBounds, ShowsTheSame

\* The file has a name nobody knows: the request that stores it, and no other,
\* has it.
LEMMA NewFileKeeps ==
  ASSUME MediaInv, NEW r \in mediaLoad.requests, NEW f \in Files, NEW q \in UploadState, Move(r, q),
         IsNew(f), Store(f), UNCHANGED <<mediaLoad, entry, named, refused, crashes>>,
         Uploaded(q) \subseteq Uploaded(upload[r]) \cup {f},
         q.phase \in {upload[r].phase, "clipped"}, q.phase \notin {"deleting", "erasing", "unfilming"},
         q.listing = upload[r].listing, q.old = upload[r].old,
         q.phase \in Creating /\ q.video \in q.files => q.video \in named,
         q.phase \notin {"clearing", "naming"},
         CodesFit'
  PROVE  MediaInv'
<1>1. f \notin used \cup named /\ stored' = stored \cup {f} /\ used' = used \cup {f}
  BY DEF IsNew, Store
<1>2. /\ upload' \in [MediaRequests -> UploadState] /\ upload'[r] = q
      /\ PendingFiles(r)' \subseteq PendingFiles(r) \cup {f}
      /\ \A o \in MediaRequests \ {r} : upload'[o] = upload[o] /\ PendingFiles(o)' = PendingFiles(o)
  <2>1. /\ upload' \in [MediaRequests -> UploadState] /\ upload'[r] = q
        /\ \A o \in MediaRequests \ {r} : upload'[o] = upload[o]
        /\ PendingFiles(r) = Uploaded(upload[r]) /\ PendingFiles(r)' = Uploaded(q)
    BY Mover, Moved
  <2> QED BY <2>1 DEF PendingFiles, Uploaded
<1> HIDE DEF PendingFiles
<1>3. MediaTypes'
  BY <1>1, <1>2 DEF MediaInv, MediaTypes
<1>4. /\ \A l \in Listings : /\ \A g \in entry[l].images : g \in used \cup named
                             /\ \A g \in {entry[l].video} \ {NoFile} : g \in used \cup named
      /\ \A o \in MediaRequests : \A g \in PendingFiles(o) : g \in used \cup named
  BY DEF MediaInv, FilesHaveTheirPlace, OnlyPlace
<1>5. ASSUME NEW g, NEW images, NEW videos, NEW pending, OnlyPlace(g, images, videos, pending)
      PROVE  OnlyPlace(g, images, videos, pending)'
  <2>1. CASE g \in named
    BY <2>1 DEF OnlyPlace
  <2>2. CASE g \notin named
    <3>1. g # f /\ g \in used'
      BY <1>1, <1>5, <2>2 DEF OnlyPlace
    <3>2. \A o \in MediaRequests : g \in PendingFiles(o)' => g \in PendingFiles(o)
      BY <1>2, <3>1
    <3> QED BY <1>5, <2>2, <3>1, <3>2 DEF OnlyPlace
  <2> QED BY <2>1, <2>2
<1>6. OnlyPlace(f, {}, {}, {r})' /\ Known(f)'
  <2>1. \A l \in Listings : f \notin entry[l].images /\ f # entry[l].video
    <3>1. f # NoFile
      BY MediaBounds
    <3> QED BY <1>1, <1>4, <3>1
  <2>2. \A o \in MediaRequests \ {r} : f \notin PendingFiles(o)'
    BY <1>1, <1>2, <1>4
  <2> QED BY <1>1, <2>1, <2>2 DEF OnlyPlace, Known
<1>7. \A g : Known(g) => Known(g)'
  BY <1>1 DEF Known
<1>8. FilesHaveTheirPlace'
  <2>1. ASSUME NEW l \in Listings, NEW g \in entry'[l].images
        PROVE  Known(g)' /\ OnlyPlace(g, {l}, {}, {})'
    BY <1>5, <1>7 DEF MediaInv, FilesHaveTheirPlace
  <2>2. ASSUME NEW l \in Listings, NEW g \in {entry'[l].video} \ {NoFile}
        PROVE  Known(g)' /\ OnlyPlace(g, {}, {l}, {})'
    BY <1>5, <1>7 DEF MediaInv, FilesHaveTheirPlace
  <2>3. ASSUME NEW o \in MediaRequests, NEW g \in PendingFiles(o)'
        PROVE  Known(g)' /\ OnlyPlace(g, {}, {}, {o})'
    <3>1. CASE g \in PendingFiles(o)
      BY <1>5, <1>7, <3>1 DEF MediaInv, FilesHaveTheirPlace
    <3>2. CASE g \notin PendingFiles(o)
      BY <1>2, <1>6, <3>2
    <3> QED BY <3>1, <3>2
  <2> QED BY <2>1, <2>2, <2>3 DEF FilesHaveTheirPlace
<1>9. ReadingsFit'
  <2> SUFFICES ASSUME NEW o \in MediaRequests, NEW u \in {upload'[o]} PROVE Reading(u)'
    BY DEF ReadingsFit
  <2>1. Reading(upload[o])
    BY DEF MediaInv, ReadingsFit
  <2>2. CASE o # r
    <3>1. u = upload[o]
      BY <1>2, <2>2
    <3> QED BY <1>5, <2>1, <3>1 DEF Reading
  <2>3. CASE o = r
    <3>1. u = q
      BY <1>2, <2>3
    <3> QED BY <1>5, <2>1, <2>3, <3>1 DEF Reading, AtListing
  <2> QED BY <2>2, <2>3
<1> QED BY <1>3, <1>8, <1>9 DEF MediaInv

LEMMA UploadKeeps ==
  ASSUME MediaInv, NEW r \in mediaLoad.requests, UNCHANGED mediaLoad, NEW f \in Files,
         UploadFile(r, f) \/ UploadClip(r, f)
  PROVE  MediaInv'
<1>1. IsNew(f) /\ Store(f) /\ UNCHANGED <<entry, named, refused, crashes>>
  BY DEF UploadFile, UploadClip
<1>2. upload[r].phase \in Creating /\ upload[r].video # NoFile => upload[r].video \in used \cup named
  <2>1. upload[r].phase \in Creating /\ upload[r].video # NoFile => upload[r].video \in PendingFiles(r)
    BY Mover DEF Uploaded
  <2> HIDE DEF PendingFiles
  <2> QED BY <2>1, Mover DEF MediaInv, FilesHaveTheirPlace, OnlyPlace
<1>3. CASE UploadFile(r, f)
  <2> DEFINE q == [upload[r] EXCEPT !.files = @ \cup {f}, !.room = @ - 1]
  <2>1. /\ Move(r, q) /\ upload[r].room > 0 /\ upload[r].phase \in {"uploading", "adding", "filming"}
    BY <1>3 DEF UploadFile
  <2>2. upload[r].room \in 0 .. MaxImages /\ upload[r].room - 1 \in 0 .. MaxImages
    BY <2>1, Mover, MediaBounds DEF UploadState
  <2>3. /\ q \in UploadState /\ q.phase = upload[r].phase /\ q.code = upload[r].code
        /\ q.typed = upload[r].typed /\ q.files = upload[r].files \cup {f} /\ q.old = upload[r].old
        /\ q.listing = upload[r].listing /\ q.video = upload[r].video
    BY <2>2, Mover DEF UploadState
  <2> HIDE DEF q
  <2>4. Uploaded(q) \subseteq Uploaded(upload[r]) \cup {f}
    BY <2>3 DEF Uploaded
  <2>5. q.phase \in Creating /\ q.video \in q.files => q.video \in named
    <3>1. upload[r].video # f \/ upload[r].phase \notin Creating
      BY <1>1, <1>2, MediaBounds DEF IsNew
    <3> QED BY <2>3, <3>1, Mover DEF Reading
  <2>6. CodesFit'
    BY <1>1, <2>1, <2>3, Mover, CodesStay DEF Creating
  <2> QED BY <1>1, <2>1, <2>3, <2>4, <2>5, <2>6, NewFileKeeps
<1>4. CASE UploadClip(r, f)
  <2> DEFINE q == [InPhase(r, "clipped") EXCEPT !.video = f]
  <2>1. Move(r, q) /\ upload[r].phase = "uploading"
    BY <1>4 DEF UploadClip
  <2>2. /\ q \in UploadState /\ q.phase = "clipped" /\ q.code = upload[r].code
        /\ q.typed = upload[r].typed /\ q.files = upload[r].files /\ q.old = upload[r].old
        /\ q.listing = upload[r].listing /\ q.video = f
    BY Mover DEF InPhase, UploadState, Phase
  <2> HIDE DEF q
  <2>3. Uploaded(q) \subseteq Uploaded(upload[r]) \cup {f}
    BY <2>1, <2>2 DEF Uploaded, Creating
  <2>4. q.video \notin q.files
    <3>1. upload[r].files \subseteq PendingFiles(r)
      BY <2>1, Mover DEF Uploaded, Creating
    <3> HIDE DEF PendingFiles
    <3> QED BY <1>1, <2>2, <3>1, Mover DEF MediaInv, FilesHaveTheirPlace, OnlyPlace, IsNew
  <2>5. CodesFit'
    BY <1>1, <2>1, <2>2, Mover, CodesStay DEF Creating
  <2> QED BY <1>1, <2>1, <2>2, <2>3, <2>4, <2>5, NewFileKeeps
<1> QED BY <1>3, <1>4

\* A listing shows the files of a request, or those a body named, or fewer than
\* it showed.
LEMMA ShowsAnew ==
  ASSUME MediaInv, NEW r \in mediaLoad.requests, NEW q \in UploadState, Move(r, q), NEW k \in Listings,
         entry' \in [Listings -> Entry],
         \A l \in Listings \ {k} : entry'[l].images = entry[l].images /\ entry'[l].video = entry[l].video,
         \/ /\ entry'[k].images \subseteq entry[k].images \cup (Uploaded(upload[r]) \ Uploaded(q)) \cup named'
            /\ entry'[k].video = entry[k].video
         \/ /\ entry'[k].video \in {NoFile, entry[k].video} \cup (Uploaded(upload[r]) \ Uploaded(q)) \cup named'
            /\ entry'[k].images = entry[k].images,
         UNCHANGED <<mediaLoad, stored, used, crashes>>, refused' \subseteq Codes,
         named \subseteq named', named' \subseteq Files,
         Uploaded(q) \subseteq Uploaded(upload[r]) \cup named',
         Moves(r, k) => Reading(q)', CodesFit'
  PROVE  MediaInv'
<1>1. Moves(r, k)
  <2>1. /\ PendingFiles(r) = Uploaded(upload[r]) /\ PendingFiles(r)' = Uploaded(q)
        /\ \A o \in MediaRequests \ {r} : upload'[o] = upload[o]
    BY Mover, Moved
  <2> HIDE DEF PendingFiles
  <2>2. \A f \in Uploaded(upload[r]) : f \notin entry[k].images \/ f \in named
    BY <2>1, Mover DEF MediaInv, FilesHaveTheirPlace, OnlyPlace
  <2> QED BY <2>1, <2>2 DEF Moves
<1> QED BY <1>1, Mover, StepKeeps

LEMMA ShowsOther ==
  ASSUME MediaInv, NEW r \in mediaLoad.requests, NEW q \in UploadState, Move(r, q), NEW k \in Listings,
         entry' \in [Listings -> Entry],
         \A l \in Listings :
            /\ entry'[l].code = entry[l].code
            /\ l # k => entry'[l].images = entry[l].images /\ entry'[l].video = entry[l].video,
         \/ /\ entry'[k].images \subseteq entry[k].images \cup (Uploaded(upload[r]) \ Uploaded(q)) \cup named'
            /\ entry'[k].video = entry[k].video
         \/ /\ entry'[k].video \in {NoFile, entry[k].video} \cup (Uploaded(upload[r]) \ Uploaded(q)) \cup named'
            /\ entry'[k].images = entry[k].images,
         UNCHANGED <<mediaLoad, stored, used, refused, crashes>>,
         named \subseteq named', named' \subseteq Files,
         q.phase \notin Creating, Uploaded(q) \subseteq Uploaded(upload[r]) \cup named',
         Moves(r, k) => Reading(q)'
  PROVE  MediaInv'
<1>1. CodesFit'
  BY Mover, CodesStay
<1> QED BY <1>1, Mover, ShowsAnew

\* Images are shown and hidden.
LEMMA ImagesKeep ==
  ASSUME MediaInv, NEW r \in mediaLoad.requests, UNCHANGED mediaLoad,
         PersistImages(r) \/ AddImages(r) \/ DeleteImage(r) \/ ClearImages(r) \/ NameImages(r)
  PROVE  MediaInv'
<1>1. PICK k \in Listings, u \in UploadState :
        /\ k = Of(r) /\ u = upload[r] /\ Reading(u) /\ u.listing = {k} /\ u.files \subseteq Files
        /\ u.phase \in AtListing
  <2>1. upload[r].phase \in AtListing
    BY DEF PersistImages, AddImages, DeleteImage, ClearImages, NameImages, AtListing
  <2>2. upload[r].files \subseteq Files
    BY Mover DEF UploadState
  <2> QED BY <2>1, <2>2, Mover
<1>2. entry \in [Listings -> Entry] /\ entry[k].images \subseteq Files
  BY Mover DEF Entry
<1>3. UNCHANGED <<stored, used, named, refused, crashes>> /\ named \subseteq Files
  BY Mover DEF PersistImages, AddImages, DeleteImage, ClearImages, NameImages
<1>a. \A phase \in Phase : /\ InPhase(r, phase) \in UploadState /\ InPhase(r, phase).phase = phase
                           /\ InPhase(r, phase).listing = u.listing /\ InPhase(r, phase).old = u.old
                           /\ InPhase(r, phase).files = u.files
  BY <1>1 DEF InPhase, UploadState
<1>4. CASE PersistImages(r) \/ AddImages(r) \/ NameImages(r)
  <2>1. PICK images \in SUBSET Files :
          /\ entry' = [entry EXCEPT ![k].images = images]
          /\ images \subseteq entry[k].images \cup Uploaded(u) \cup named
    <3>1. CASE PersistImages(r)
      <4>1. entry' = [entry EXCEPT ![k].images = u.files]
        BY <1>1, <3>1 DEF PersistImages
      <4>2. u.files \in SUBSET Files /\ u.files \subseteq Uploaded(u)
        BY <1>1, <3>1 DEF PersistImages, Uploaded
      <4> QED BY <4>1, <4>2
    <3>2. CASE AddImages(r)
      <4>1. entry' = [entry EXCEPT ![k].images = entry[k].images \cup u.files]
        BY <1>1, <3>2 DEF AddImages
      <4>2. u.files \subseteq Uploaded(u)
        BY <1>1, <3>2 DEF AddImages, Uploaded
      <4> entry[k].images \cup u.files \in SUBSET Files
        BY <1>1, <1>2
      <4>4. entry[k].images \cup u.files \subseteq entry[k].images \cup Uploaded(u) \cup named
        BY <4>2
      <4> WITNESS entry[k].images \cup u.files \in SUBSET Files
      <4> QED BY <4>1, <4>4
    <3>3. CASE NameImages(r)
      <4>1. entry' = [entry EXCEPT ![k].images = entry[k].images \cup u.files]
        BY <1>1, <3>3 DEF NameImages
      <4>2. u.files \subseteq named
        BY <1>1, <3>3 DEF NameImages, Reading
      <4> entry[k].images \cup u.files \in SUBSET Files
        BY <1>1, <1>2
      <4>3. entry[k].images \cup u.files \subseteq entry[k].images \cup Uploaded(u) \cup named
        BY <4>2
      <4> WITNESS entry[k].images \cup u.files \in SUBSET Files
      <4> QED BY <4>1, <4>3
    <3> QED BY <1>4, <3>1, <3>2, <3>3
  <2>2. Move(r, NoUpload)
    BY <1>4 DEF PersistImages, AddImages, NameImages, Done
  <2>3. /\ entry' \in [Listings -> Entry] /\ entry'[k].images = images /\ entry'[k].video = entry[k].video
        /\ \A l \in Listings :
              /\ entry'[l].code = entry[l].code
              /\ l # k => entry'[l].images = entry[l].images /\ entry'[l].video = entry[l].video
    BY <1>1, <1>2, <2>1 DEF Entry
  <2>4. Reading(NoUpload)' /\ NoUpload.phase \notin Creating
    BY MediaBounds DEF Reading, AtListing, Creating
  <2> QED BY <1>1, <1>3, <2>1, <2>2, <2>3, <2>4, MediaBounds, ShowsOther
<1>5. CASE DeleteImage(r) \/ ClearImages(r)
  <2>1. PICK images \in SUBSET Files, q \in {NoUpload, InPhase(r, "erasing"), InPhase(r, "naming")} :
          /\ Move(r, q) /\ images \subseteq entry[k].images
          /\ entry' = [entry EXCEPT ![k].images = images]
          /\ q = InPhase(r, "erasing") => u.phase = "deleting" /\ (u.old \notin images \/ u.old \in named)
          /\ q = InPhase(r, "naming") => u.phase = "clearing"
    <3>1. CASE ClearImages(r)
      <4>1. entry' = [entry EXCEPT ![k].images = {}] /\ u.phase = "clearing"
        BY <1>1, <3>1 DEF ClearImages
      <4>2. Move(r, NoUpload) \/ Move(r, InPhase(r, "naming"))
        BY <3>1 DEF ClearImages
      <4>3. NoUpload # InPhase(r, "erasing") /\ InPhase(r, "naming") # InPhase(r, "erasing")
        BY <1>a, MediaBounds DEF Phase
      <4>4. CASE Move(r, NoUpload)
        <5> WITNESS {} \in SUBSET Files, NoUpload \in {NoUpload, InPhase(r, "erasing"), InPhase(r, "naming")}
        <5> QED BY <4>1, <4>3, <4>4
      <4>5. CASE Move(r, InPhase(r, "naming"))
        <5> WITNESS {} \in SUBSET Files,
                    InPhase(r, "naming") \in {NoUpload, InPhase(r, "erasing"), InPhase(r, "naming")}
        <5> QED BY <4>1, <4>3, <4>5
      <4> QED BY <4>2, <4>4, <4>5
    <3>2. CASE DeleteImage(r)
      <4>1. u.phase = "deleting"
        BY <1>1, <3>2 DEF DeleteImage
      <4>2. CASE /\ entry' = [entry EXCEPT ![Of(r)].images = @ \ {upload[r].old}]
                 /\ Move(r, InPhase(r, "erasing"))
        <5>1. entry' = [entry EXCEPT ![k].images = entry[k].images \ {u.old}]
          BY <1>1, <4>2
        <5>2. InPhase(r, "erasing") # InPhase(r, "naming")
          BY <1>a DEF Phase
        <5> entry[k].images \ {u.old} \in SUBSET Files
          BY <1>2
        <5>3. entry[k].images \ {u.old} \subseteq entry[k].images
          OBVIOUS
        <5>4. u.old \notin entry[k].images \ {u.old}
          OBVIOUS
        <5> WITNESS entry[k].images \ {u.old} \in SUBSET Files,
                    InPhase(r, "erasing") \in {NoUpload, InPhase(r, "erasing"), InPhase(r, "naming")}
        <5> QED BY <4>1, <4>2, <5>1, <5>2, <5>3, <5>4
      <4>3. CASE UNCHANGED entry /\ Done(r)
        <5>1. entry' = [entry EXCEPT ![k].images = entry[k].images]
          BY <1>2, <4>3 DEF Entry
        <5>2. NoUpload # InPhase(r, "naming") /\ NoUpload # InPhase(r, "erasing")
          BY <1>a, MediaBounds DEF Phase
        <5> QED BY <1>2, <4>3, <5>1, <5>2 DEF Done
      <4>4. CASE upload[r].old \in named /\ UNCHANGED entry /\ Move(r, InPhase(r, "erasing"))
        <5>1. entry' = [entry EXCEPT ![k].images = entry[k].images]
          BY <1>2, <4>4 DEF Entry
        <5>2. InPhase(r, "erasing") # InPhase(r, "naming")
          BY <1>a DEF Phase
        <5> QED BY <1>1, <1>2, <4>1, <4>4, <5>1, <5>2
      <4> QED BY <3>2, <4>2, <4>3, <4>4 DEF DeleteImage
    <3> QED BY <1>5, <3>1, <3>2
  <2>2. /\ entry' \in [Listings -> Entry] /\ entry'[k].images = images /\ entry'[k].video = entry[k].video
        /\ \A l \in Listings :
              /\ entry'[l].code = entry[l].code
              /\ l # k => entry'[l].images = entry[l].images /\ entry'[l].video = entry[l].video
    BY <1>1, <1>2, <2>1 DEF Entry
  <2>3. /\ q \in UploadState /\ q.phase \notin Creating /\ Uploaded(q) = {}
        /\ q = NoUpload \/ q = InPhase(r, "erasing") \/ q = InPhase(r, "naming")
    BY <1>a, <2>1, MediaBounds DEF Uploaded, Creating, Phase
  <2>4. Moves(r, k) => Reading(q)'
    <3> SUFFICES ASSUME Moves(r, k) PROVE Reading(q)'
      OBVIOUS
    <3>1. CASE q = NoUpload
      BY <3>1, MediaBounds DEF Reading, AtListing, Creating
    <3>2. CASE q = InPhase(r, "erasing")
      <4>1. q.phase = "erasing" /\ q.listing = {k} /\ q.old = u.old
        BY <1>1, <1>a, <3>2 DEF Phase
      <4>2. OnlyPlace(u.old, {k}, {}, {})
        BY <1>1, <2>1, <3>2 DEF Reading
      <4>3. OnlyPlace(u.old, {k}, {}, {})'
        BY <4>2, Mover, OnlyStays
      <4>4. OnlyPlace(u.old, {}, {}, {})'
        BY <1>3, <2>1, <2>2, <3>2, <4>3 DEF OnlyPlace
      <4> QED BY <4>1, <4>4 DEF Reading, AtListing, Creating
    <3>3. CASE q = InPhase(r, "naming")
      <4>1. q.phase = "naming" /\ q.listing = {k} /\ q.files = u.files
        BY <1>1, <1>a, <3>3 DEF Phase
      <4>2. u.files \subseteq named'
        BY <1>1, <1>3, <2>1, <3>3 DEF Reading
      <4> QED BY <4>1, <4>2 DEF Reading, AtListing, Creating
    <3> QED BY <2>3, <3>1, <3>2, <3>3
  <2> QED BY <1>1, <1>3, <2>1, <2>2, <2>3, <2>4, ShowsOther
<1> QED BY <1>4, <1>5

\* What an update names shows, and nothing else is new.
LEMMA ReplaceKeeps ==
  ASSUME MediaInv, NEW r \in mediaLoad.requests, UNCHANGED mediaLoad, NEW k \in Listings,
         NEW urls \in SUBSET Files, NEW images \in BOOLEAN, NEW clip \in Files \cup {NoFile},
         BeginReplace(r, k, urls, clip, images)
  PROVE  MediaInv'
<1> DEFINE clearing == [NoUpload EXCEPT !.phase = "clearing", !.listing = {k}, !.files = urls]
<1>1. PICK q \in {NoUpload, clearing} : Move(r, q)
  BY DEF BeginReplace
<1>2. /\ clearing \in UploadState /\ clearing.phase = "clearing" /\ clearing.listing = {k}
      /\ clearing.files = urls
  <2>1. NoUpload \in UploadState /\ "clearing" \in Phase
    BY MediaBounds DEF Phase
  <2> QED BY <2>1 DEF UploadState
<1> HIDE DEF clearing
<1>3. /\ entry' = [entry EXCEPT ![k].video = clip] /\ UNCHANGED <<stored, used, refused, crashes>>
      /\ named' = named \cup urls \cup ({clip} \ {NoFile, entry[k].video})
  BY DEF BeginReplace
<1>4. /\ entry' \in [Listings -> Entry] /\ entry'[k].images = entry[k].images /\ entry'[k].video = clip
      /\ \A l \in Listings :
            /\ entry'[l].code = entry[l].code
            /\ l # k => entry'[l].images = entry[l].images /\ entry'[l].video = entry[l].video
  <2>1. entry \in [Listings -> Entry]
    BY Mover
  <2> QED BY <1>3, <2>1 DEF Entry
<1>5. q \in UploadState /\ q.phase \notin Creating /\ Uploaded(q) = {}
  BY <1>1, <1>2, MediaBounds DEF Uploaded, Creating
<1>6. Reading(q)'
  <2>1. CASE q = NoUpload
    BY <2>1, MediaBounds DEF Reading, AtListing, Creating
  <2>2. CASE q = clearing
    BY <1>2, <1>3, <2>2 DEF Reading, AtListing, Creating
  <2> QED BY <1>1, <2>1, <2>2
<1>7. /\ clip \in {NoFile, entry[k].video} \cup named' /\ named \subseteq named' /\ named' \subseteq Files
  BY <1>3, Mover
<1> QED BY <1>1, <1>3, <1>4, <1>5, <1>6, <1>7, ShowsOther

\* A video is replaced or hidden.
LEMMA VideosKeep ==
  ASSUME MediaInv, NEW r \in mediaLoad.requests, UNCHANGED mediaLoad,
         AddVideo(r) \/ DeleteVideo(r)
  PROVE  MediaInv'
<1>1. PICK k \in Listings, u \in UploadState, q \in {InPhase(r, "erasing")}, old \in {upload[r].old} :
        /\ k = Of(r) /\ u = upload[r] /\ Reading(u) /\ u.listing = {k} /\ u.files \subseteq Files
        /\ u.phase \in {"filming", "unfilming"}
        /\ q = InPhase(r, "erasing") /\ old = u.old
  BY Mover DEF AddVideo, DeleteVideo, UploadState, AtListing
<1>2. entry \in [Listings -> Entry]
  BY Mover
<1>3. UNCHANGED <<stored, used, named, refused, crashes>> /\ Move(r, q) /\ named \subseteq Files
  BY <1>1, Mover DEF AddVideo, DeleteVideo
<1>4. q \in UploadState /\ q.phase = "erasing" /\ q.listing = {k} /\ q.old = old
  BY <1>1 DEF InPhase, UploadState, Phase
<1>5. Uploaded(q) = {} /\ q.phase \notin Creating
  BY <1>4 DEF Uploaded, Creating
<1>6. PICK video \in Files \cup {NoFile} :
        entry' = [entry EXCEPT ![k].video = video] /\ video \in {NoFile} \cup Uploaded(u)
  BY <1>1 DEF AddVideo, DeleteVideo, Uploaded
<1>7. /\ entry' \in [Listings -> Entry] /\ entry'[k].video = video /\ entry'[k].images = entry[k].images
      /\ \A l \in Listings :
            /\ entry'[l].code = entry[l].code
            /\ l # k => entry'[l].images = entry[l].images /\ entry'[l].video = entry[l].video
  BY <1>2, <1>6 DEF Entry
<1>8. Moves(r, k) => Reading(q)'
  <2> SUFFICES ASSUME Moves(r, k), old # NoFile PROVE OnlyPlace(old, {}, {}, {})'
    BY <1>4 DEF Reading, AtListing, Creating
  <2>1. OnlyPlace(old, {}, {k}, {})
    BY <1>1 DEF Reading
  <2>2. OnlyPlace(old, {}, {k}, {})'
    BY <2>1, Mover, OnlyStays
  <2>3. old # video \/ old \in named
    <3>1. old \notin Uploaded(u) \/ old \in named
      BY <1>1, <2>1, Mover DEF OnlyPlace
    <3> QED BY <1>6, <3>1
  <2> QED BY <1>3, <1>7, <2>2, <2>3 DEF OnlyPlace
<1> QED BY <1>1, <1>3, <1>4, <1>5, <1>6, <1>7, <1>8, ShowsOther

\* What is erased is shown nowhere.
LEMMA EraseKeeps ==
  ASSUME MediaInv, NEW r \in mediaLoad.requests, UNCHANGED mediaLoad, EraseAsset(r)
  PROVE  MediaInv'
<1>1. /\ upload[r].phase = "erasing" /\ stored' \in {stored, stored \ {upload[r].old}}
      /\ Move(r, NoUpload) /\ UNCHANGED <<entry, used, named, refused, crashes>>
  BY DEF EraseAsset, Done
<1>2. \A f \in stored \ stored' : OnlyPlace(f, {}, {}, {})
  <2>1. \A f \in stored : f # NoFile
    BY Mover, MediaBounds
  <2> QED BY <1>1, <2>1, Mover DEF Reading
<1>3. Moves(r, r)
  <2>1. PendingFiles(r)' = {} /\ \A o \in MediaRequests \ {r} : upload'[o] = upload[o]
    BY <1>1, Mover, MediaBounds, Moved
  <2> QED BY <1>1, <1>2, <2>1 DEF Moves
<1>4. Reading(NoUpload)'
  BY MediaBounds DEF Reading, AtListing, Creating
<1>5. CodesFit'
  BY <1>1, Mover, MediaBounds, CodesStay DEF Creating
<1> QED BY <1>1, <1>3, <1>4, <1>5, Mover, MediaBounds, StepKeeps

-----------------------------------------------------------------------------
\* A creation begins with the code it was given, or without one.
LEMMA BeginCreateKeeps ==
  ASSUME MediaInv, NEW r \in mediaLoad.requests, UNCHANGED mediaLoad,
         NEW code \in Codes \cup {NoCode}, NEW n \in 0 .. MaxImages, NEW urls \in SUBSET Files,
         NEW clip \in Files \cup {NoFile}, BeginCreate(r, code, n, urls, clip)
  PROVE  MediaInv'
<1> DEFINE q == [NoUpload EXCEPT !.phase = "uploading", !.typed = code # NoCode, !.code = code,
                              !.room = n, !.files = urls, !.video = clip]
<1>1. /\ Move(r, q) /\ UNCHANGED <<entry, stored, used, refused, crashes>>
      /\ named' = named \cup urls \cup ({clip} \ {NoFile})
  BY DEF BeginCreate
<1>2. /\ q \in UploadState /\ q.phase = "uploading" /\ q.files = urls /\ q.video = clip /\ q.code = code
      /\ q.typed => q.code \in Codes
  <2>1. NoUpload \in UploadState /\ "uploading" \in Phase
    BY MediaBounds DEF Phase
  <2>2. code \in 0 .. MaxCode + 1 /\ n \in 0 .. MaxImages
    BY MediaBounds DEF Codes, NoCode
  <2>3. (code # NoCode) \in BOOLEAN
    OBVIOUS
  <2>4. q \in UploadState
    BY <2>1, <2>2, <2>3 DEF UploadState
  <2> QED BY <2>1, <2>4 DEF UploadState
<1> HIDE DEF q
<1>3. CodesFit'
  <2>1. /\ upload'[r] = q /\ \A o \in MediaRequests \ {r} : upload'[o] = upload[o]
    BY <1>1, <1>2, Mover, Moved
  <2> QED BY <1>1, <1>2, <2>1, Mover DEF MediaInv, CodesFit
<1>4. Uploaded(q) \subseteq named' /\ named \subseteq named' /\ named' \subseteq Files
  BY <1>1, <1>2, Mover DEF Uploaded
<1>5. Reading(q)'
  <2>1. NoFile \notin Files
    BY MediaBounds
  <2> QED BY <1>1, <1>2, <2>1 DEF Reading, AtListing
<1> QED BY <1>1, <1>2, <1>3, <1>4, <1>5, Mover, ShowsTheSame

\* The code that was given is used, or the next one.
LEMMA AllocateKeeps ==
  ASSUME MediaInv, NEW r \in mediaLoad.requests, UNCHANGED mediaLoad, AllocateCode(r)
  PROVE  MediaInv'
<1>1. PICK code : /\ code = IF upload[r].typed THEN upload[r].code ELSE NextCode
                  /\ code <= MaxCode /\ Move(r, [InPhase(r, "inserting") EXCEPT !.code = code])
  BY DEF AllocateCode
<1> DEFINE q == [InPhase(r, "inserting") EXCEPT !.code = code]
<1>2. /\ upload[r].phase \in Creating /\ UNCHANGED <<entry, stored, used, named, refused, crashes>>
      /\ Move(r, q)
  BY <1>1 DEF AllocateCode, Creating
<1>3. code \in Codes /\ (~upload[r].typed => \A l \in Listings : entry[l].code # code)
  <2>1. upload[r].typed => upload[r].code \in Codes
    BY <1>2, Mover DEF MediaInv, CodesFit
  <2> QED BY <1>1, <2>1, NextCodeIsFree, MediaBounds DEF Codes
<1>4. /\ q \in UploadState /\ q.phase = "inserting" /\ q.code = code /\ q.typed = upload[r].typed
      /\ q.files = upload[r].files /\ q.video = upload[r].video
  <2>1. "inserting" \in Phase /\ code \in 0 .. MaxCode + 1
    BY <1>3, MediaBounds DEF Phase, Codes
  <2> QED BY <2>1, Mover DEF InPhase, UploadState
<1> HIDE DEF q
<1>5. CodesFit'
  <2>1. /\ upload'[r] = q /\ \A o \in MediaRequests \ {r} : upload'[o] = upload[o]
    BY <1>2, <1>4, Mover, Moved
  <2>2. mediaLoad.requests \subseteq MediaRequests
    BY MediaAssumption DEF MediaInv, MediaTypes
  <2> QED BY <1>2, <1>3, <1>4, <2>1, <2>2, Mover DEF MediaInv, CodesFit
<1>6. Reading(q) /\ Uploaded(q) = Uploaded(upload[r])
  <2>1. Reading(upload[r])
    BY Mover
  <2> QED BY <1>2, <1>4, <2>1 DEF Reading, Uploaded, Creating, AtListing
<1> QED BY <1>2, <1>4, <1>5, <1>6, Mover, ShowsTheSame

\* The listing is inserted unless its code is taken.
LEMMA InsertKeeps ==
  ASSUME MediaInv, NEW r \in mediaLoad.requests, UNCHANGED mediaLoad,
         NEW l \in Listings, InsertProperty(r, l)
  PROVE  MediaInv'
<1>1. /\ upload[r].phase = "inserting" /\ upload[r].code \in Codes
      /\ UNCHANGED <<stored, used, named, crashes>> /\ mediaLoad.requests \subseteq MediaRequests
  BY Mover, MediaAssumption DEF InsertProperty, MediaInv, MediaTypes, CodesFit
<1>2. CASE \E k \in Listings : entry[k].code = upload[r].code
  <2>1. /\ Move(r, NoUpload) /\ UNCHANGED entry
        /\ refused' = IF upload[r].typed THEN refused ELSE refused \cup {upload[r].code}
    BY <1>2 DEF InsertProperty, Done
  <2>2. refused' \subseteq Codes
    BY <1>1, <2>1, Mover
  <2>3. CodesFit'
    <3>1. /\ upload'[r] = NoUpload /\ \A o \in MediaRequests \ {r} : upload'[o] = upload[o]
      BY <2>1, Mover, MediaBounds, Moved
    <3>2. NoUpload.phase = "idle" /\ "idle" \notin Creating /\ UNCHANGED mediaLoad
      BY MediaBounds DEF Creating
    <3>3. (\A o, q \in mediaLoad.requests : o = q) => upload[r].typed
      BY <1>1, <1>2 DEF MediaInv, CodesFit
    <3>4. \A o \in MediaRequests : upload'[o] = upload[o] \/ upload'[o].phase = "idle"
      BY <3>1, <3>2
    <3> QED BY <1>1, <2>1, <3>2, <3>3, <3>4 DEF MediaInv, CodesFit
  <2> QED BY <1>1, <2>1, <2>2, <2>3, Mover, MediaBounds, ShowsTheSame
<1>3. CASE ~ \E k \in Listings : entry[k].code = upload[r].code
  <2>0. PICK q : q = [InPhase(r, "imaging") EXCEPT !.listing = {l}]
    OBVIOUS
  <2>1. /\ Move(r, q) /\ UNCHANGED refused
        /\ entry' = [entry EXCEPT ![l].code = upload[r].code, ![l].video = upload[r].video]
    BY <1>3, <2>0 DEF InsertProperty
  <2>2. q \in UploadState /\ q.phase = "imaging" /\ q.listing = {l} /\ q.files = upload[r].files
    BY <2>0, Mover DEF InPhase, UploadState, Phase
  <2>3. entry \in [Listings -> Entry] /\ upload[r].video \in Files \cup {NoFile} /\ named \subseteq Files
    BY Mover DEF UploadState
  <2>4. /\ entry' \in [Listings -> Entry] /\ entry'[l].images = entry[l].images
        /\ entry'[l].video = upload[r].video
        /\ \A k \in Listings \ {l} : entry'[k] = entry[k]
    BY <1>1, <2>1, <2>3 DEF Entry
  <2>5. Uploaded(q) = upload[r].files /\ Uploaded(q) \subseteq Uploaded(upload[r])
    BY <1>1, <2>2 DEF Uploaded, Creating
  <2>6. upload[r].video \in {NoFile} \cup (Uploaded(upload[r]) \ Uploaded(q)) \cup named'
    <3>1. upload[r].video \in upload[r].files => upload[r].video \in named
      BY <1>1, Mover DEF Reading, Creating
    <3>2. upload[r].video # NoFile => upload[r].video \in Uploaded(upload[r])
      BY <1>1 DEF Uploaded, Creating
    <3> QED BY <1>1, <2>5, <3>1, <3>2
  <2>7. Reading(q)'
    BY <2>2 DEF Reading, AtListing, Creating
  <2>8. CodesFit'
    <3>1. /\ upload'[r] = q /\ \A o \in MediaRequests \ {r} : upload'[o] = upload[o]
      BY <2>1, <2>2, Mover, Moved
    <3>2. \A k \in Listings \ {l} : entry'[k].code = entry[k].code
      BY <2>4
    <3> QED BY <1>1, <2>1, <2>2, <3>1, <3>2, Mover DEF MediaInv, CodesFit, Creating
  <2>9. refused' \subseteq Codes
    BY <2>1, Mover
  <2> QED BY <1>1, <2>1, <2>2, <2>3, <2>4, <2>5, <2>6, <2>7, <2>8, <2>9, ShowsAnew
<1> QED BY <1>2, <1>3

-----------------------------------------------------------------------------
\* The images of the first listing are the files that were uploaded.
LEMMA InitMedia == MediaInit => MediaInv
<1> SUFFICES ASSUME MediaInit PROVE MediaInv
  OBVIOUS
<1>1. \A r \in MediaRequests : upload[r] = NoUpload
  BY DEF MediaInit
<1>2. \A r \in MediaRequests : PendingFiles(r) = {}
  BY <1>1, MediaBounds DEF PendingFiles
<1>3. /\ entry \in [Listings -> Entry] /\ \A l \in Listings : entry[l].images \subseteq used /\ entry[l].video = NoFile
      /\ \A k, l \in Listings : entry[k].images # {} /\ entry[l].images # {} => k = l
  <2>1. 1 \in Codes /\ used \subseteq Files
    BY MediaBounds, MediaAssumption DEF MediaInit, Codes
  <2>2. CASE entry = [l \in Listings |-> NoListing]
    BY <2>2 DEF NoListing, Entry
  <2>3. CASE entry # [l \in Listings |-> NoListing]
    <3>1. PICK k \in Listings : entry =
            [l \in Listings |-> IF l = k THEN [code |-> 1, images |-> used, video |-> NoFile] ELSE NoListing]
      BY <2>3 DEF MediaInit
    <3> QED BY <2>1, <3>1 DEF NoListing, Entry
  <2> QED BY <2>2, <2>3
<1>4. /\ NoFile \notin used /\ used \subseteq Files /\ stored = used /\ refused = {} /\ crashes = 0
      /\ named = {}
  BY MediaBounds, MediaAssumption DEF MediaInit
<1>5. MediaTypes
  BY <1>3, <1>4, MediaBounds DEF MediaInit, MediaTypes, Entry
<1>6. FilesHaveTheirPlace
  <2>1. ASSUME NEW l \in Listings, NEW f \in entry[l].images
        PROVE  Known(f) /\ OnlyPlace(f, {l}, {}, {})
    BY <1>2, <1>3, <1>4 DEF OnlyPlace, Known
  <2> QED BY <1>2, <1>3, <2>1 DEF FilesHaveTheirPlace
<1>7. ReadingsFit
  BY <1>1, MediaBounds DEF ReadingsFit
<1>8. CodesFit
  <2>1. NoUpload.phase = "idle" /\ mediaLoad.requests \subseteq MediaRequests
    BY <1>5, MediaBounds, MediaAssumption DEF MediaTypes
  <2> QED BY <1>1, <1>4, <2>1 DEF CodesFit, Creating
<1> QED BY <1>5, <1>6, <1>7, <1>8 DEF MediaInv

\* Every step keeps the invariant.
LEMMA NextMedia == MediaInv /\ [MediaNext]_mediaVars => MediaInv'
<1> SUFFICES ASSUME MediaInv, [MediaNext]_mediaVars PROVE MediaInv'
  OBVIOUS
<1>1. CASE UNCHANGED mediaVars
  BY <1>1 DEF mediaVars, MediaInv, MediaTypes, FilesHaveTheirPlace, PendingFiles, Uploaded,
     OnlyPlace, Known, ReadingsFit, Reading, CodesFit
<1>2. CASE MediaNext
  <2>1. PICK r \in mediaLoad.requests :
          CreateStep(r) \/ MediaStep(r) \/ Fail(r) \/ \E f \in Files : UploadFile(r, f)
    BY <1>2 DEF MediaNext, MediaChange
  <2>2. UNCHANGED mediaLoad
    BY <1>2 DEF MediaNext
  <2>a. \A kind : Nameable(kind) \subseteq Files
    BY MediaAssumption DEF Nameable, MediaInv, MediaTypes
  <2>3. CASE CreateStep(r)
    <3>1. CASE \E code \in Codes \cup {NoCode}, n \in 0 .. MaxImages,
                  urls \in SUBSET Nameable("name"), clip \in Nameable("name") \cup {NoFile} :
                  BeginCreate(r, code, n, urls, clip)
      BY <2>2, <2>a, <3>1, BeginCreateKeeps
    <3>2. CASE AllocateCode(r)
      BY <2>2, <3>2, AllocateKeeps
    <3>3. CASE \E l \in Listings : InsertProperty(r, l)
      BY <2>2, <3>3, InsertKeeps
    <3>4. CASE PersistImages(r)
      BY <2>2, <3>4, ImagesKeep
    <3>5. CASE \E f \in Files : UploadClip(r, f)
      BY <2>2, <3>5, UploadKeeps
    <3> QED BY <2>3, <3>1, <3>2, <3>3, <3>4, <3>5 DEF CreateStep
  <2>4. CASE MediaStep(r)
    <3>1. CASE AddImages(r) \/ DeleteImage(r) \/ ClearImages(r) \/ NameImages(r)
      BY <2>2, <3>1, ImagesKeep
    <3>2. CASE AddVideo(r) \/ DeleteVideo(r)
      BY <2>2, <3>2, VideosKeep
    <3>3. CASE EraseAsset(r)
      BY <2>2, <3>3, EraseKeeps
    <3>4. CASE \/ \E l \in Listings, n \in 1 .. MaxImages : BeginAddImage(r, l, n)
               \/ \E l \in Listings, f \in Files : BeginDeleteImage(r, l, f)
               \/ \E l \in Listings : BeginAddVideo(r, l) \/ BeginDeleteVideo(r, l)
      BY <2>2, <3>4, BeginsKeep
    <3>5. CASE \E l \in Listings, urls \in SUBSET Nameable("replace"), images \in BOOLEAN :
                \E clip \in Nameable("replace") \cup {NoFile, entry[l].video} :
                    BeginReplace(r, l, urls, clip, images)
      <4>1. \A l \in Listings : entry[l].video \in Files \cup {NoFile}
        BY DEF MediaInv, MediaTypes
      <4> QED BY <2>2, <2>a, <3>5, <4>1, ReplaceKeeps
    <3> QED BY <2>4, <3>1, <3>2, <3>3, <3>4, <3>5 DEF MediaStep
  <2>5. CASE Fail(r)
    BY <2>2, <2>5, FailKeeps
  <2>6. CASE \E f \in Files : UploadFile(r, f)
    BY <2>2, <2>6, UploadKeeps
  <2> QED BY <2>1, <2>3, <2>4, <2>5, <2>6
<1> QED BY <1>1, <1>2

\* Whatever requests overlap and wherever they stop, every file that a listing
\* shows, or a request is about to show, has one place and is stored, unless a body
\* has named it; what is erased has none (propertyMediaService,
\* adminPropertyMediaService, and updateProperty, which replaces images by URLs).
THEOREM MediaSafety == MediaSpec => []MediaInv
<1> QED BY InitMedia, NextMedia, PTL DEF MediaSpec

\* The images and the video of a listing are in the storage but for those a body
\* has named, and a code that was generated is free where requests come one at a
\* time.
THEOREM MediaAlwaysHolds == MediaSpec => []MediaHold
<1>1. MediaInv => MediaHold
  <2> SUFFICES ASSUME MediaInv PROVE MediaHold
    OBVIOUS
  <2>1. ImagesAreStored
    BY DEF MediaInv, FilesHaveTheirPlace, Known, ImagesAreStored
  <2>2. VideoIsStored
    BY DEF MediaInv, FilesHaveTheirPlace, Known, VideoIsStored
  <2> QED BY <2>1, <2>2 DEF MediaInv, CodesFit, MediaHold, GeneratedCodeIsFree
<1> QED BY <1>1, MediaSafety, PTL

-----------------------------------------------------------------------------
(* The edits of a listing.                                                 *)

\* The columns of a listing, and the fields that an edit request may hold.
Columns == {"status", "purpose", "price", "sale", "rent", "promoted", "pct", "promo",
            "rentPromo", "area", "value", "unit"}
StateFields == {"purpose", "sale", "rent", "promoted", "pct", "promo", "rentPromo",
                "value", "unit", "m2"}
Figures == {"promo", "pct", "rentPromo"}

\* A value that a field may have, where it is kept and where it is written.
FieldFits(f, v) ==
    /\ f = "status" => v \in {"approved", "pending_approval", "rejected"}
    /\ f = "purpose" => v \in Purpose
    /\ f = "price" => v \in Prices
    /\ f \in {"sale", "rent"} => v \in Prices \cup {Null}
    /\ f = "promoted" => v \in BOOLEAN
    /\ f = "pct" => v \in Percentages \cup {Null}
    /\ f \in {"promo", "rentPromo", "area", "value", "m2"} => v \in Nat
    /\ f = "unit" => v \in Units

\* Every field of a state, a patch or a write fits.
FieldsFit(p) == \A f \in DOMAIN p : FieldFits(f, p[f])

\* A promotion below its price, and the price of the purpose, in a listing.
LowerIn(l) == Below(l.promo, l.sale) /\ Below(l.rentPromo, l.rent)
ShownIn(l) ==
    /\ l.purpose = "sale" /\ l.sale # Null => l.price = l.sale
    /\ l.purpose = "rent" /\ l.rent # Null => l.price = l.rent

\* Nobody edits the figures of promotions.
NoFigures == editLoad.fields \cap Figures = {}
\* Direct updates come one at a time, and leave `price`.
OneUpdate ==
    /\ editLoad.edits = {} /\ "price" \notin editLoad.fields
    /\ \A r, q \in editLoad.updates : r = q

\* Where no figures are edited there are none; a direct update that is alone
\* has decided on a write that keeps the promotion below the price.
EditInv ==
    /\ EditTypes /\ DOMAIN edit = Edits /\ DOMAIN update = UpdateRequests
    /\ \A e \in Edits : FieldsFit(edit[e].after)
    /\ \A r \in UpdateRequests : FieldsFit(update[r])
    /\ \A d, e \in Pending : d = e
    /\ editLoad.updates = {} => PriceIsDerived /\ PromotionIsLower
    /\ OneUpdate =>
          /\ PromotionIsLower
          /\ \A r \in editLoad.updates : DOMAIN update[r] # {} => LowerIn(With(form, update[r]))
    /\ NoFigures =>
          /\ form.promo = Null /\ form.rentPromo = Null /\ form.pct = Null
          /\ \A e \in Edits : DOMAIN edit[e].after \cap Figures = {}
          /\ \A r \in UpdateRequests : DOMAIN update[r] \cap Figures = {}

-----------------------------------------------------------------------------
(* Listings, and the fields they are edited by.                            *)

\* A listing has its columns, and values that fit them.
LEMMA FormHasColumns ==
    ASSUME NEW l \in Form
    PROVE  DOMAIN l = Columns /\ FieldsFit(l) /\ l = [c \in Columns |-> l[c]]
<1>1. DOMAIN l = Columns
  BY DEF Form, Columns
<1>2. FieldsFit(l)
  <2> SUFFICES ASSUME NEW f \in DOMAIN l PROVE FieldFits(f, l[f])
    BY DEF FieldsFit
  <2> QED BY <1>1 DEF FieldFits, Form, Columns
<1>3. l = [c \in DOMAIN l |-> l[c]]
  BY DEF Form
<1> QED BY <1>1, <1>2, <1>3

\* Values that fit the columns make a listing.
LEMMA ColumnsMakeForm ==
    ASSUME NEW l, l = [c \in Columns |-> l[c]], FieldsFit(l)
    PROVE  l \in Form
<1>1. DOMAIN l = Columns
  OBVIOUS
<1>2. /\ l.status \in {"approved", "pending_approval", "rejected"} /\ l.purpose \in Purpose
      /\ l.price \in Prices /\ l.sale \in Prices \cup {Null} /\ l.rent \in Prices \cup {Null}
      /\ l.promoted \in BOOLEAN /\ l.pct \in Percentages \cup {Null}
      /\ l.promo \in Nat /\ l.rentPromo \in Nat /\ l.area \in Nat /\ l.value \in Nat
      /\ l.unit \in Units
  BY <1>1 DEF FieldsFit, FieldFits, Columns
<1>3. l = [status |-> l.status, purpose |-> l.purpose, price |-> l.price, sale |-> l.sale,
           rent |-> l.rent, promoted |-> l.promoted, pct |-> l.pct, promo |-> l.promo,
           rentPromo |-> l.rentPromo, area |-> l.area, value |-> l.value, unit |-> l.unit]
  BY DEF Columns
<1> QED BY <1>2, <1>3 DEF Form

\* A field that is given replaces the one that is there.
LEMMA WithFits ==
    ASSUME NEW s, NEW p, FieldsFit(s), FieldsFit(p)
    PROVE  /\ DOMAIN With(s, p) = DOMAIN s /\ FieldsFit(With(s, p))
           /\ With(s, p) = [f \in DOMAIN s |-> With(s, p)[f]]
BY DEF With, FieldsFit

\* A listing stays one when fields are given that fit.
LEMMA WithForm ==
    ASSUME NEW l \in Form, NEW p, FieldsFit(p)
    PROVE  /\ With(l, p) \in Form
           /\ \A c \in Columns : With(l, p)[c] = IF c \in DOMAIN p THEN p[c] ELSE l[c]
<1>1. DOMAIN l = Columns /\ FieldsFit(l)
  BY FormHasColumns
<1>2. With(l, p) = [c \in Columns |-> With(l, p)[c]] /\ FieldsFit(With(l, p))
  BY <1>1, WithFits
<1>3. With(l, p) \in Form
  BY <1>2, ColumnsMakeForm
<1>4. \A c \in Columns : With(l, p)[c] = IF c \in DOMAIN p THEN p[c] ELSE l[c]
  BY <1>1 DEF With
<1> QED BY <1>3, <1>4

\* Some of the fields fit when all do.
LEMMA OnlyFits ==
    ASSUME NEW p, NEW S, FieldsFit(p)
    PROVE  /\ DOMAIN Only(p, S) = DOMAIN p \cap S /\ FieldsFit(Only(p, S))
           /\ \A f \in DOMAIN p \cap S : Only(p, S)[f] = p[f]
BY DEF Only, FieldsFit

\* A discount is a whole number.
LEMMA DiscountFits ==
    ASSUME NEW base \in Prices \cup {Null}, NEW pct \in Percentages \cup {Null}
    PROVE  Discount(base, pct) \in Nat
<1>1. base \in Nat /\ pct \in Nat
  BY EditAssumption DEF Null
<1>2. CASE base = Null \/ pct \notin 1 .. 99
  BY <1>2 DEF Discount, Null
<1>3. CASE pct \in 1 .. 99 /\ base # Null
  <2>1. 100 - pct \in Nat
    BY <1>3
  <2>2. \A k \in Nat : base * k \in Nat
    BY <1>1
  <2>3. PICK n \in Nat : n = base * (100 - pct)
    BY <2>1, <2>2
  <2>4. n \div 100 \in Nat
    BY Z3
  <2> QED BY <1>3, <2>3, <2>4 DEF Discount
<1> QED BY <1>2, <1>3

\* What is shown of a listing.
LEMMA ViewFits ==
    ASSUME NEW l \in Form
    PROVE  DOMAIN View(l) = StateFields /\ FieldsFit(View(l))
<1>1. DOMAIN View(l) = StateFields
  BY DEF View, StateFields
<1>2. /\ View(l).purpose \in Purpose
      /\ View(l).sale \in Prices \cup {Null} /\ View(l).rent \in Prices \cup {Null}
      /\ View(l).promoted \in BOOLEAN /\ View(l).pct \in Percentages \cup {Null}
      /\ View(l).promo \in Nat /\ View(l).rentPromo \in Nat /\ View(l).value \in Nat
      /\ View(l).unit \in Units /\ View(l).m2 \in Nat
  BY DEF View, Form, Either
<1>3. FieldsFit(View(l))
  BY <1>1, <1>2 DEF FieldsFit, FieldFits, StateFields
<1> QED BY <1>1, <1>3

\* A payload and a body hold one or two fields, and values that fit them.
LEMMA PayloadFits ==
    ASSUME EditTypes, NEW p \in Payload
    PROVE  FieldsFit(p) /\ DOMAIN p \subseteq editLoad.fields
<1>1. PICK q \in UNION {{f} \X {g} \X ValuesOf(f) \X ValuesOf(g) :
                            f \in editLoad.fields, g \in editLoad.fields} :
          p = [h \in {q[1], q[2]} |-> IF h = q[1] THEN q[3] ELSE q[4]]
  BY DEF Payload
<1>2. PICK f \in editLoad.fields, g \in editLoad.fields :
          q \in {f} \X {g} \X ValuesOf(f) \X ValuesOf(g)
  OBVIOUS
<1>3. q[1] = f /\ q[2] = g /\ q[3] \in ValuesOf(f) /\ q[4] \in ValuesOf(g)
  BY <1>2
<1>4. DOMAIN p = {f, g} /\ \A h \in DOMAIN p : p[h] \in ValuesOf(h)
  <2> HIDE DEF ValuesOf
  <2> QED BY <1>1, <1>3
<1>5. editLoad.fields \subseteq EditFields
  BY EditAssumption DEF EditTypes
<1>6. ASSUME NEW h \in EditFields, NEW x \in ValuesOf(h) PROVE FieldFits(h, x)
  <2>1. /\ ValuesOf("purpose") = Purpose /\ ValuesOf("price") = Prices
        /\ ValuesOf("sale") = Prices /\ ValuesOf("rent") = Prices
        /\ ValuesOf("promoted") = BOOLEAN /\ ValuesOf("pct") = Percentages \cup {Null}
    BY DEF ValuesOf
  <2>2. /\ ValuesOf("promo") = PromoPrices \cup {Null}
        /\ ValuesOf("rentPromo") = PromoPrices \cup {Null}
        /\ ValuesOf("value") = Areas /\ ValuesOf("m2") = Areas /\ ValuesOf("unit") = Units
    BY DEF ValuesOf
  <2>3. PromoPrices \cup {Null} \cup Areas \subseteq Nat
    BY EditAssumption DEF Null
  <2> HIDE DEF ValuesOf
  <2> QED BY <2>1, <2>2, <2>3 DEF FieldFits, EditFields
<1> QED BY <1>4, <1>5, <1>6 DEF FieldsFit

-----------------------------------------------------------------------------
(* What an edit request asks for, and what its approval writes.            *)

\* The differences that are asked for are fields of the state; figures are
\* asked for as they are given.
LEMMA RequestedFits ==
    ASSUME NEW l \in Form, NEW p, FieldsFit(p), DOMAIN p \subseteq EditFields
    PROVE  /\ DOMAIN Requested(View(l), p) \subseteq StateFields
           /\ FieldsFit(Requested(View(l), p))
           /\ DOMAIN Requested(View(l), p) \cap PromoFields = DOMAIN p \cap PromoFields
<1> DEFINE purpose == IF "purpose" \in DOMAIN p THEN p.purpose ELSE View(l).purpose
           target == IF SupportsSale(purpose) THEN "sale" ELSE "rent"
           given == DOMAIN p \ {"price"}
           base == "price" \in DOMAIN p /\ DOMAIN p \cap {"sale", "rent"} = {}
           keys == IF base THEN given \cup {target} ELSE given
<1>1. target \in {"sale", "rent"}
  OBVIOUS
<1>2. Requested(View(l), p) = [f \in keys |-> IF base /\ f = target THEN p.price ELSE p[f]]
  BY DEF Requested
<1> HIDE DEF target
<1>3. keys \subseteq StateFields /\ keys \cap PromoFields = DOMAIN p \cap PromoFields
  BY <1>1 DEF StateFields, EditFields, PromoFields
<1>4. ASSUME NEW f \in keys PROVE FieldFits(f, IF base /\ f = target THEN p.price ELSE p[f])
  BY <1>1 DEF FieldsFit, FieldFits
<1> HIDE DEF keys, base
<1> QED BY <1>2, <1>3, <1>4 DEF FieldsFit

\* Promotions change together, and only when one of their fields is given.
LEMMA MergedFits ==
    ASSUME NEW c, DOMAIN c = StateFields, FieldsFit(c),
           NEW raw, FieldsFit(raw), DOMAIN raw \subseteq StateFields
    PROVE  /\ DOMAIN Merged(c, raw) = StateFields /\ FieldsFit(Merged(c, raw))
           /\ \A f \in StateFields \ PromoFields : Merged(c, raw)[f] = With(c, raw)[f]
           /\ DOMAIN raw \cap PromoFields = {} =>
                 \A f \in PromoFields : Merged(c, raw)[f] = c[f]
           /\ DOMAIN raw \cap Figures = {} /\ (\A f \in Figures : c[f] = Null) =>
                 \A f \in Figures : Merged(c, raw)[f] = Null
<1> DEFINE m == With(c, raw)
           Given(f) == f \in DOMAIN raw /\ raw[f] # Null
           on == m.promoted \/ Given("pct") \/ Given("promo") \/ Given("rentPromo")
           Price(f, base) == IF Given(f) THEN raw[f] ELSE Discount(base, m.pct)
           off == "promoted" \in DOMAIN raw /\ ~m.promoted
           cleared == [m EXCEPT !.pct = Null, !.promo = Null, !.rentPromo = Null]
           filled == [m EXCEPT !.promoted = TRUE, !.promo = Price("promo", m.sale),
                               !.rentPromo = Price("rentPromo", m.rent)]
           switched == [m EXCEPT !.promoted = on]
<1>1. Merged(c, raw) = IF off THEN cleared ELSE IF Given("pct") THEN filled ELSE switched
  BY DEF Merged
<1>2. DOMAIN m = StateFields /\ FieldsFit(m) /\ m = [f \in StateFields |-> m[f]]
  BY WithFits
<1>3. \A f \in StateFields : m[f] = IF f \in DOMAIN raw THEN raw[f] ELSE c[f]
  BY DEF With
<1>4. /\ m.promoted \in BOOLEAN /\ m.sale \in Prices \cup {Null} /\ m.rent \in Prices \cup {Null}
      /\ m.pct \in Percentages \cup {Null} /\ c.promoted \in BOOLEAN
  BY <1>2 DEF FieldsFit, FieldFits, StateFields
<1>5. Price("promo", m.sale) \in Nat /\ Price("rentPromo", m.rent) \in Nat
  <2>1. Discount(m.sale, m.pct) \in Nat /\ Discount(m.rent, m.pct) \in Nat
    BY <1>4, DiscountFits
  <2>2. Given("promo") => raw["promo"] \in Nat
    BY DEF FieldsFit, FieldFits
  <2>3. Given("rentPromo") => raw["rentPromo"] \in Nat
    BY DEF FieldsFit, FieldFits
  <2> QED BY <2>1, <2>2, <2>3
<1>6. on \in BOOLEAN /\ Null \in Nat
  BY DEF Null
<1>7. DOMAIN raw \cap PromoFields = {} => on = c.promoted /\ ~off /\ ~Given("pct")
  <2> SUFFICES ASSUME DOMAIN raw \cap PromoFields = {}
               PROVE  on = c.promoted /\ ~off /\ ~Given("pct")
    OBVIOUS
  <2>1. {"promoted", "pct", "promo", "rentPromo"} \cap DOMAIN raw = {}
    BY DEF PromoFields
  <2>2. m.promoted = c.promoted
    BY <2>1, <1>3 DEF StateFields
  <2> HIDE DEF m
  <2> QED BY <2>1, <2>2, <1>4
<1> HIDE DEF m, on, Price
<1>8. CASE off
  <2>1. Merged(c, raw) = cleared
    BY <1>1, <1>8
  <2>2. DOMAIN cleared = StateFields /\ FieldsFit(cleared)
    <3>1. DOMAIN cleared = StateFields
      BY <1>2
    <3>2. \A f \in StateFields : cleared[f] = IF f \in Figures THEN Null ELSE m[f]
      BY <1>2 DEF Figures, StateFields
    <3>3. \A f \in Figures : FieldFits(f, Null)
      BY <1>6 DEF FieldFits, Figures
    <3> HIDE DEF cleared
    <3> QED BY <1>2, <3>1, <3>2, <3>3 DEF FieldsFit
  <2>3. \A f \in StateFields \ PromoFields : cleared[f] = m[f]
    BY <1>2 DEF PromoFields
  <2>4. \A f \in Figures : cleared[f] = Null
    BY <1>2 DEF Figures, StateFields
  <2> HIDE DEF cleared, off, Given
  <2> QED BY <1>7, <1>8, <2>1, <2>2, <2>3, <2>4 DEF m
<1>9. CASE ~off /\ Given("pct")
  <2>1. Merged(c, raw) = filled
    BY <1>1, <1>9
  <2>2. DOMAIN filled = StateFields /\ FieldsFit(filled)
    <3>1. DOMAIN filled = StateFields
      BY <1>2
    <3>2. \A f \in StateFields \ {"promoted", "promo", "rentPromo"} : filled[f] = m[f]
      BY <1>2
    <3>3. /\ filled["promoted"] = TRUE /\ filled["promo"] = Price("promo", m.sale)
          /\ filled["rentPromo"] = Price("rentPromo", m.rent)
      BY <1>2 DEF StateFields
    <3>4. /\ FieldFits("promoted", filled["promoted"]) /\ FieldFits("promo", filled["promo"])
          /\ FieldFits("rentPromo", filled["rentPromo"])
      BY <3>3, <1>5 DEF FieldFits
    <3> HIDE DEF filled
    <3> QED BY <1>2, <3>1, <3>2, <3>4 DEF FieldsFit
  <2>3. \A f \in StateFields \ PromoFields : filled[f] = m[f]
    BY <1>2 DEF PromoFields
  <2>4. DOMAIN raw \cap Figures # {}
    BY <1>9 DEF Figures
  <2> HIDE DEF filled, off, Given
  <2> QED BY <1>7, <1>9, <2>1, <2>2, <2>3, <2>4 DEF m
<1>10. CASE ~off /\ ~Given("pct")
  <2>1. Merged(c, raw) = switched
    BY <1>1, <1>10
  <2>2. DOMAIN switched = StateFields /\ FieldsFit(switched)
    BY <1>2, <1>6 DEF FieldsFit, FieldFits, StateFields
  <2>3. \A f \in StateFields \ {"promoted"} : switched[f] = m[f]
    BY <1>2
  <2>4. switched["promoted"] = on
    BY <1>2 DEF StateFields
  <2>5. DOMAIN raw \cap PromoFields = {} => \A f \in PromoFields : switched[f] = c[f]
    BY <2>3, <2>4, <1>7, <1>3 DEF PromoFields, StateFields
  <2>6. DOMAIN raw \cap Figures = {} => \A f \in Figures : switched[f] = c[f]
    BY <2>3, <1>3 DEF Figures, StateFields
  <2> HIDE DEF switched, off, Given
  <2>7. "promoted" \in PromoFields
    BY DEF PromoFields
  <2> QED BY <2>1, <2>2, <2>3, <2>5, <2>6, <2>7 DEF m
<1> QED BY <1>8, <1>9, <1>10

\* The differences that are kept are what the listing would come to.
LEMMA PreparedFits ==
    ASSUME NEW l \in Form, NEW p, FieldsFit(p), DOMAIN p \subseteq EditFields
    PROVE  /\ DOMAIN Prepared(View(l), p) \subseteq StateFields
           /\ FieldsFit(Prepared(View(l), p))
           /\ \A f \in StateFields : With(View(l), Prepared(View(l), p))[f] =
                                        Merged(View(l), Requested(View(l), p))[f]
           /\ (\A f \in Figures : l[f] = Null) /\ DOMAIN p \cap Figures = {} =>
                 DOMAIN Prepared(View(l), p) \cap Figures = {}
<1> DEFINE c == View(l)
           raw == Requested(c, p)
           final == Merged(c, raw)
           keys == DOMAIN raw \cup (IF DOMAIN raw \cap PromoFields = {} THEN {} ELSE PromoFields)
           kept == {f \in keys : final[f] # c[f]}
<1>1. Prepared(c, p) = [f \in kept |-> final[f]]
  BY DEF Prepared
<1>2. DOMAIN c = StateFields /\ FieldsFit(c)
  BY ViewFits
<1>3. /\ DOMAIN raw \subseteq StateFields /\ FieldsFit(raw)
      /\ DOMAIN raw \cap PromoFields = DOMAIN p \cap PromoFields
  BY RequestedFits
<1>4. /\ DOMAIN final = StateFields /\ FieldsFit(final)
      /\ \A f \in StateFields \ PromoFields : final[f] = With(c, raw)[f]
      /\ DOMAIN raw \cap PromoFields = {} => \A f \in PromoFields : final[f] = c[f]
      /\ DOMAIN raw \cap Figures = {} /\ (\A f \in Figures : c[f] = Null) =>
            \A f \in Figures : final[f] = Null
  BY <1>2, <1>3, MergedFits
<1>5. \A f \in Figures : c[f] = l[f]
  BY DEF View, Figures
<1> HIDE DEF c, raw, final
<1>6. keys \subseteq StateFields
  BY <1>3 DEF PromoFields, StateFields
<1>7. \A f \in StateFields : With(c, [g \in kept |-> final[g]])[f] = final[f]
  <2>1. \A f \in StateFields : With(c, [g \in kept |-> final[g]])[f] = IF f \in kept THEN final[f] ELSE c[f]
    BY <1>2 DEF With
  <2>2. \A f \in StateFields \ keys : final[f] = c[f]
    <3> SUFFICES ASSUME NEW f \in StateFields, f \notin keys PROVE final[f] = c[f]
      OBVIOUS
    <3>1. CASE f \in PromoFields
      BY <3>1, <1>4
    <3>2. CASE f \notin PromoFields
      BY <3>2, <1>2, <1>4 DEF With
    <3> QED BY <3>1, <3>2
  <2> QED BY <2>1, <2>2
<1>8. FieldsFit([g \in kept |-> final[g]])
  BY <1>4, <1>6 DEF FieldsFit
<1>9. (\A f \in Figures : l[f] = Null) /\ DOMAIN p \cap Figures = {} => kept \cap Figures = {}
  <2>1. Figures \subseteq PromoFields
    BY DEF Figures, PromoFields
  <2> QED BY <2>1, <1>3, <1>4, <1>5
<1>10. DOMAIN Prepared(c, p) = kept
  BY <1>1
<1>11. kept \subseteq StateFields
  BY <1>6
<1> HIDE DEF kept
<1> QED BY <1>1, <1>7, <1>8, <1>9, <1>10, <1>11 DEF c, raw, final

\* The columns that a patch writes: all the prices, or none, and the whole
\* promotion, or nothing of it.
LEMMA WriteFits ==
    ASSUME NEW l \in Form, NEW p, FieldsFit(p), DOMAIN p \subseteq StateFields
    PROVE  /\ WritePatch(l, p) \in Form
           /\ WritePatch(l, p).status = l.status
           /\ IF DOMAIN p \cap PriceFields # {}
              THEN /\ \A f \in PriceFields : WritePatch(l, p)[f] = With(View(l), p)[f]
                   /\ ShownIn(WritePatch(l, p))
              ELSE \A f \in PriceFields \cup {"price"} : WritePatch(l, p)[f] = l[f]
           /\ IF DOMAIN p \cap PromoFields # {}
              THEN \A f \in PromoFields : WritePatch(l, p)[f] = With(View(l), p)[f]
              ELSE \A f \in PromoFields : WritePatch(l, p)[f] = l[f]
<1> DEFINE final == With(View(l), p)
           prices == DOMAIN p \cap PriceFields # {}
           promotion == DOMAIN p \cap PromoFields # {}
           derived == CASE final.purpose = "sale" -> final.sale
                        [] final.purpose = "rent" -> final.rent
                        [] OTHER -> Either(final.sale, final.rent)
           area == IF "m2" \in DOMAIN p THEN final.m2
                   ELSE IF "value" \in DOMAIN p THEN final.value * final.unit ELSE l.area
           columns == (IF prices THEN PriceFields ELSE {})
                        \cup (IF promotion THEN PromoFields ELSE {})
                        \cup (DOMAIN p \cap {"value"})
                        \cup (IF DOMAIN p \cap {"value", "unit", "m2"} # {} THEN {"unit"} ELSE {})
           w == With(l, Only(final, columns))
           written == [w EXCEPT !.price = IF prices THEN Either(derived, @) ELSE @,
                                !.area = area,
                                !.value = IF "m2" \in DOMAIN p THEN final.m2 ELSE @]
<1>1. WritePatch(l, p) = written
  BY DEF WritePatch
<1>2. DOMAIN View(l) = StateFields /\ FieldsFit(View(l))
  BY ViewFits
<1>3. DOMAIN final = StateFields /\ FieldsFit(final)
  BY <1>2, WithFits
<1> HIDE DEF final
<1>4. columns \subseteq StateFields \ {"m2"}
  BY DEF PriceFields, PromoFields, StateFields
<1>5. /\ DOMAIN Only(final, columns) = columns /\ FieldsFit(Only(final, columns))
      /\ \A f \in columns : Only(final, columns)[f] = final[f]
  <2>1. DOMAIN final \cap columns = columns
    BY <1>3, <1>4
  <2> HIDE DEF columns
  <2> QED BY <1>3, <2>1, OnlyFits
<1>6. /\ \A f \in PriceFields : f \in columns <=> prices
      /\ \A f \in PromoFields : f \in columns <=> promotion
      /\ "status" \notin columns /\ "price" \notin columns
  BY DEF PriceFields, PromoFields
<1> HIDE DEF columns
<1>7. w \in Form /\ \A f \in Columns : w[f] = IF f \in columns THEN final[f] ELSE l[f]
  <2>1. w \in Form /\ \A f \in Columns :
            w[f] = IF f \in DOMAIN Only(final, columns) THEN Only(final, columns)[f] ELSE l[f]
    BY <1>5, WithForm
  <2> QED BY <2>1, <1>5
<1>8. /\ final.purpose \in Purpose /\ final.sale \in Prices \cup {Null}
      /\ final.rent \in Prices \cup {Null} /\ final.m2 \in Nat /\ final.value \in Nat
      /\ final.unit \in Nat
  <2>1. final.unit \in Units
    BY <1>3 DEF FieldsFit, FieldFits, StateFields
  <2> QED BY <1>3, <2>1, EditAssumption DEF FieldsFit, FieldFits, StateFields
<1>9. area \in Nat /\ derived \in Prices \cup {Null}
  <2>1. final.value * final.unit \in Nat
    <3>1. \A i, j \in Nat : i * j \in Nat
      OBVIOUS
    <3> QED BY <3>1, <1>8
  <2>2. l.area \in Nat
    BY DEF Form
  <2>3. derived \in Prices \cup {Null}
    BY <1>8 DEF Either
  <2> QED BY <1>8, <2>1, <2>2, <2>3
<1>10. final.purpose = "sale" => derived = final.sale
  OBVIOUS
<1>11. final.purpose = "rent" => derived = final.rent
  OBVIOUS
<1> HIDE DEF w, area, derived, prices, promotion
<1>12. written \in Form /\ written.price = IF prices THEN Either(derived, l.price) ELSE l.price
  <2>1. w.price = l.price /\ w.price \in Prices /\ w.value \in Nat
    BY <1>6, <1>7 DEF Columns, Form
  <2>2. Either(derived, w.price) \in Prices
    BY <2>1, <1>9 DEF Either
  <2> QED BY <1>7, <1>8, <1>9, <2>1, <2>2 DEF Form
<1>13. \A f \in Columns \ {"price", "area", "value"} : written[f] = w[f]
  BY <1>7 DEF Form, Columns
<1>14. PriceFields \cup PromoFields \cup {"status"} \subseteq Columns \ {"price", "area", "value"}
  BY DEF PriceFields, PromoFields, Columns
<1> HIDE DEF written
<1>15. /\ written.status = l.status
       /\ \A f \in PriceFields : written[f] = IF prices THEN final[f] ELSE l[f]
       /\ \A f \in PromoFields : written[f] = IF promotion THEN final[f] ELSE l[f]
  BY <1>6, <1>7, <1>13, <1>14
<1>16. prices => ShownIn(written)
  <2> SUFFICES ASSUME prices PROVE ShownIn(written)
    OBVIOUS
  <2>1. /\ written.purpose = final.purpose /\ written.sale = final.sale
        /\ written.rent = final.rent
    BY <1>15 DEF PriceFields
  <2> QED BY <2>1, <1>10, <1>11, <1>12 DEF ShownIn, Either
<1> QED BY <1>1, <1>12, <1>15, <1>16 DEF prices, promotion, final

\* An approval leaves a promotion below the price and derives the price, and
\* brings no figures where none are edited.
LEMMA ApprovalFits ==
    ASSUME NEW l \in Form, NEW p, FieldsFit(p), DOMAIN p \subseteq EditFields,
           Acceptable(View(l), p)
    PROVE  /\ WritePatch(l, Prepared(View(l), p)) \in Form
           /\ LowerIn(WritePatch(l, Prepared(View(l), p)))
           /\ ShownIn(l) => ShownIn(WritePatch(l, Prepared(View(l), p)))
           /\ (\A f \in Figures : l[f] = Null) /\ DOMAIN p \cap Figures = {} =>
                 \A f \in Figures : WritePatch(l, Prepared(View(l), p))[f] = Null
<1> DEFINE patch == Prepared(View(l), p)
           final == With(View(l), patch)
           w == WritePatch(l, patch)
<1>1. /\ DOMAIN patch \subseteq StateFields /\ FieldsFit(patch)
      /\ \A f \in StateFields : final[f] = Merged(View(l), Requested(View(l), p))[f]
      /\ (\A f \in Figures : l[f] = Null) /\ DOMAIN p \cap Figures = {} =>
            DOMAIN patch \cap Figures = {}
  BY PreparedFits
<1>2. LowerIn(final)
  BY <1>1 DEF Acceptable, Valid, LowerIn, StateFields
<1>3. /\ w \in Form
      /\ IF DOMAIN patch \cap PriceFields # {}
         THEN (\A f \in PriceFields : w[f] = final[f]) /\ ShownIn(w)
         ELSE \A f \in PriceFields \cup {"price"} : w[f] = l[f]
      /\ IF DOMAIN patch \cap PromoFields # {}
         THEN \A f \in PromoFields : w[f] = final[f]
         ELSE \A f \in PromoFields : w[f] = l[f]
  BY <1>1, WriteFits
<1>4. \A f \in StateFields : final[f] = IF f \in DOMAIN patch THEN patch[f] ELSE View(l)[f]
  BY ViewFits DEF With
<1> HIDE DEF patch, final, w
<1>5. \A f \in Figures : View(l)[f] = l[f]
  BY DEF View, Figures
<1>6. w.promo = final.promo /\ w.rentPromo = final.rentPromo
  <2>1. CASE DOMAIN patch \cap PromoFields # {}
    BY <2>1, <1>3 DEF PromoFields
  <2>2. CASE DOMAIN patch \cap PromoFields = {}
    <3>1. "promo" \notin DOMAIN patch /\ "rentPromo" \notin DOMAIN patch
      BY <2>2 DEF PromoFields
    <3>2. "promo" \in Figures \cap StateFields \cap PromoFields
      BY DEF PromoFields, StateFields, Figures
    <3>3. "rentPromo" \in Figures \cap StateFields \cap PromoFields
      BY DEF PromoFields, StateFields, Figures
    <3> QED BY <2>2, <3>1, <3>2, <3>3, <1>3, <1>4, <1>5
  <2> QED BY <2>1, <2>2
<1>7. (w.sale = Null \/ w.sale = final.sale) /\ (w.rent = Null \/ w.rent = final.rent)
  <2>1. CASE DOMAIN patch \cap PriceFields # {}
    BY <2>1, <1>3 DEF PriceFields
  <2>2. CASE DOMAIN patch \cap PriceFields = {}
    <3>1. w.sale = l.sale /\ w.rent = l.rent
      BY <2>2, <1>3 DEF PriceFields
    <3>2. final.sale = View(l).sale /\ final.rent = View(l).rent
      BY <2>2, <1>4 DEF PriceFields, StateFields
    <3> QED BY <3>1, <3>2 DEF View, Either
  <2> QED BY <2>1, <2>2
<1>8. LowerIn(w)
  BY <1>2, <1>6, <1>7 DEF LowerIn, Below
<1>9. ShownIn(l) => ShownIn(w)
  <2>1. CASE DOMAIN patch \cap PriceFields # {}
    BY <2>1, <1>3
  <2>2. CASE DOMAIN patch \cap PriceFields = {}
    BY <2>2, <1>3 DEF ShownIn, PriceFields
  <2> QED BY <2>1, <2>2
<1>10. ASSUME \A f \in Figures : l[f] = Null, DOMAIN p \cap Figures = {}
       PROVE  \A f \in Figures : w[f] = Null
  <2>1. Figures \subseteq PromoFields /\ Figures \subseteq StateFields
    BY DEF Figures, PromoFields, StateFields
  <2>2. \A f \in Figures : final[f] = Null
    BY <1>1, <1>4, <1>5, <1>10, <2>1
  <2> QED BY <1>3, <1>10, <2>1, <2>2
<1> QED BY <1>3, <1>8, <1>9, <1>10 DEF patch, w

-----------------------------------------------------------------------------
(* What a direct update decides to write.                                  *)

\* A direct update writes columns; without `price`, it compares the promotion
\* it leaves with the prices it leaves.
LEMMA DirectFits ==
    ASSUME NEW l \in Form, NEW body, FieldsFit(body), DOMAIN body \subseteq EditFields \ {"m2"}
    PROVE  /\ DOMAIN DirectWrite(l, body) \subseteq Columns
           /\ FieldsFit(DirectWrite(l, body))
           /\ DOMAIN body \cap Figures = {} => DOMAIN DirectWrite(l, body) \cap Figures = {}
           /\ CheckDirect(l, body) /\ "price" \notin DOMAIN body =>
                 LowerIn(With(l, DirectWrite(l, body)))
<1> DEFINE next == With(l, Only(body, {"purpose", "pct", "value", "unit"}))
           Dropped(f, supported) == f \in DOMAIN body /\ ~supported
           promo == IF Dropped("promo", SupportsSale(next.purpose)) THEN Null ELSE With(l, body).promo
           rentPromo == IF Dropped("rentPromo", SupportsRent(next.purpose)) THEN Null
                        ELSE With(l, body).rentPromo
           promoted == promo # Null \/ rentPromo # Null \/ next.pct # Null \/ With(l, body).promoted
           area == DOMAIN body \cap {"value", "unit"} # {}
           columns == DOMAIN body \cup (IF area THEN {"area", "value", "unit"} ELSE {})
                        \cup (IF promoted = l.promoted THEN {} ELSE {"promoted"})
                        \cup (IF l.status = "rejected" THEN {"status"} ELSE {})
           priced == With(next, Only(body, {"price", "sale", "rent"}))
           flag == IF "promoted" \in DOMAIN body THEN body.promoted ELSE promoted
           written == [priced EXCEPT !.promo = promo, !.rentPromo = rentPromo, !.promoted = flag,
                                     !.area = next.value * next.unit, !.status = "pending_approval"]
           w == Only(written, columns)
<1>1. DirectWrite(l, body) = w
  BY DEF DirectWrite
<1>2. next \in Form
  BY OnlyFits, WithForm
<1>3. /\ With(l, body) \in Form
      /\ \A c \in Columns : With(l, body)[c] = IF c \in DOMAIN body THEN body[c] ELSE l[c]
  BY WithForm
<1> HIDE DEF next
<1>4. /\ priced \in Form
      /\ \A c \in {"price", "sale", "rent"} : c \in DOMAIN body => priced[c] = body[c]
  <2> DEFINE given == Only(body, {"price", "sale", "rent"})
  <2>1. /\ DOMAIN given = DOMAIN body \cap {"price", "sale", "rent"} /\ FieldsFit(given)
        /\ \A f \in DOMAIN body \cap {"price", "sale", "rent"} : given[f] = body[f]
    BY OnlyFits
  <2> HIDE DEF given
  <2>2. /\ With(next, given) \in Form
        /\ \A c \in Columns : With(next, given)[c] = IF c \in DOMAIN given THEN given[c] ELSE next[c]
    BY <1>2, <2>1, WithForm
  <2>3. {"price", "sale", "rent"} \subseteq Columns
    BY DEF Columns
  <2> QED BY <2>1, <2>2, <2>3 DEF given
<1>5. promo \in Nat /\ rentPromo \in Nat /\ flag \in BOOLEAN /\ next.value * next.unit \in Nat
  <2>1. With(l, body).promo \in Nat /\ With(l, body).rentPromo \in Nat /\ With(l, body).promoted \in BOOLEAN
    BY <1>3 DEF Form
  <2>2. promo \in Nat /\ rentPromo \in Nat
    BY <2>1 DEF Null
  <2>3. "promoted" \in DOMAIN body => body.promoted \in BOOLEAN
    BY DEF FieldsFit, FieldFits
  <2>4. promoted \in BOOLEAN
    OBVIOUS
  <2>5. flag \in BOOLEAN
    <3> HIDE DEF promoted
    <3> QED BY <2>3, <2>4
  <2>6. next.value \in Nat /\ next.unit \in Nat
    BY <1>2, EditAssumption DEF Form
  <2>7. \A i, j \in Nat : i * j \in Nat
    OBVIOUS
  <2> QED BY <2>2, <2>5, <2>6, <2>7
<1>6. columns \cap {"m2"} = {} /\ \A f \in {"sale", "rent", "promo", "rentPromo", "pct"} : f \in columns <=> f \in DOMAIN body
  BY DEF EditFields
<1>7. columns \subseteq Columns
  BY DEF EditFields, Columns
<1> HIDE DEF promo, rentPromo, promoted, flag, priced, columns
<1>8. written \in Form
  BY <1>4, <1>5 DEF Form
<1>9. /\ written.promo = promo /\ written.rentPromo = rentPromo
      /\ written.sale = priced.sale /\ written.rent = priced.rent
  BY <1>4 DEF Form
<1> HIDE DEF written
<1>10. DOMAIN written = Columns /\ FieldsFit(written)
  BY <1>8, FormHasColumns
<1>11. DOMAIN w = columns /\ FieldsFit(w) /\ \A f \in columns : w[f] = written[f]
  <2>1. DOMAIN written \cap columns = columns
    BY <1>7, <1>10
  <2> QED BY <1>10, <2>1, OnlyFits
<1>12. DOMAIN body \cap Figures = {} => DOMAIN w \cap Figures = {}
  BY <1>6, <1>11 DEF Figures
<1> HIDE DEF w
<1>13. ASSUME CheckDirect(l, body), "price" \notin DOMAIN body PROVE LowerIn(With(l, w))
  <2> DEFINE after == With(l, w)
  <2>1. \A c \in Columns : after[c] = IF c \in DOMAIN w THEN w[c] ELSE l[c]
    BY <1>11, WithForm
  <2> HIDE DEF after
  <2>2. /\ after.sale = IF "sale" \in DOMAIN body THEN body.sale ELSE l.sale
        /\ after.rent = IF "rent" \in DOMAIN body THEN body.rent ELSE l.rent
    BY <2>1, <1>4, <1>6, <1>9, <1>11 DEF Columns
  <2>3. /\ Below(after.promo, IF "sale" \in DOMAIN body THEN body.sale ELSE Either(l.sale, l.price))
        /\ Below(after.rentPromo, IF "rent" \in DOMAIN body THEN body.rent ELSE Either(l.rent, l.price))
    BY <1>1, <1>13 DEF CheckDirect, after
  <2> QED BY <2>2, <2>3 DEF LowerIn, Below, Either, after
<1> QED BY <1>1, <1>7, <1>11, <1>12, <1>13

-----------------------------------------------------------------------------
(* The invariant.                                                          *)

\* The two properties of prices are about the form alone.
LEMMA PricesOfForm ==
    (PriceIsDerived <=> ShownIn(form)) /\ (PromotionIsLower <=> LowerIn(form))
BY DEF PriceIsDerived, ShownIn, PromotionIsLower, LowerIn

\* The first listing is for sale, with its price and without a promotion.
LEMMA InitEdits == EditInit => EditInv
<1> SUFFICES ASSUME EditInit PROVE EditInv
  OBVIOUS
<1>1. PICK price \in Prices, area \in Areas :
          form = [status |-> "approved", purpose |-> "sale", price |-> price, sale |-> price,
                  rent |-> Null, promoted |-> FALSE, pct |-> Null, promo |-> Null,
                  rentPromo |-> Null, area |-> area, value |-> area, unit |-> 1]
  BY DEF EditInit
<1>2. form \in Form
  BY <1>1, EditAssumption DEF Form, Purpose, Null
<1>3. /\ editLoad \in EditLoads /\ DOMAIN edit = Edits /\ DOMAIN update = UpdateRequests
      /\ \A e \in Edits : edit[e] = NoEdit
      /\ \A r \in UpdateRequests : update[r] = <<>>
  BY DEF EditInit
<1>4. DOMAIN (<<>>) = {} /\ FieldsFit(<<>>)
  BY DEF FieldsFit
<1>5. NoEdit.status = "none" /\ NoEdit.after = <<>>
  BY DEF NoEdit
<1>6. EditTypes
  BY <1>2, <1>3, <1>4, <1>5 DEF EditTypes
<1>7. Pending = {}
  BY <1>3, <1>5 DEF Pending
<1>8. PriceIsDerived /\ PromotionIsLower
  BY <1>1 DEF PriceIsDerived, PromotionIsLower, Below
<1>9. form.promo = Null /\ form.rentPromo = Null /\ form.pct = Null
  BY <1>1
<1>10. /\ \A e \in Edits : FieldsFit(edit[e].after) /\ DOMAIN edit[e].after \cap Figures = {}
       /\ \A r \in UpdateRequests : FieldsFit(update[r]) /\ DOMAIN update[r] = {}
  BY <1>3, <1>4, <1>5
<1>11. editLoad.updates \subseteq UpdateRequests
  BY <1>3, EditAssumption
<1> QED BY <1>3, <1>6, <1>7, <1>8, <1>9, <1>10, <1>11 DEF EditInv

\* A listing that changes its status keeps its prices, and a write that was
\* decided comes to the same.
LEMMA StatusChanges ==
    ASSUME form \in Form,
           NEW status \in {"approved", "pending_approval", "rejected"}
    PROVE  LET changed == [form EXCEPT !.status = status]
           IN /\ changed \in Form /\ (ShownIn(form) => ShownIn(changed))
              /\ (LowerIn(form) => LowerIn(changed))
              /\ \A f \in Figures : changed[f] = form[f]
              /\ \A p : FieldsFit(p) /\ LowerIn(With(form, p)) => LowerIn(With(changed, p))
<1> DEFINE changed == [form EXCEPT !.status = status]
<1>1. changed \in Form
  BY DEF Form
<1>2. \A c \in Columns \ {"status"} : changed[c] = form[c]
  BY DEF Form, Columns
<1> HIDE DEF changed
<1>3. /\ changed.purpose = form.purpose /\ changed.price = form.price /\ changed.sale = form.sale
      /\ changed.rent = form.rent /\ changed.promo = form.promo
      /\ changed.rentPromo = form.rentPromo /\ changed.pct = form.pct
  BY <1>2 DEF Columns
<1>4. ASSUME NEW p, FieldsFit(p), LowerIn(With(form, p)) PROVE LowerIn(With(changed, p))
  <2>1. \A c \in Columns : With(form, p)[c] = IF c \in DOMAIN p THEN p[c] ELSE form[c]
    BY <1>4, WithForm
  <2>2. \A c \in Columns : With(changed, p)[c] = IF c \in DOMAIN p THEN p[c] ELSE changed[c]
    BY <1>1, <1>4, WithForm
  <2>3. \A c \in {"sale", "rent", "promo", "rentPromo"} : With(changed, p)[c] = With(form, p)[c]
    BY <2>1, <2>2, <1>3 DEF Columns
  <2> QED BY <2>3, <1>4 DEF LowerIn
<1> QED BY <1>1, <1>3, <1>4 DEF ShownIn, LowerIn, Figures, changed

\* A request that waits holds the differences it asks for.
LEMMA SubmitKeeps ==
    ASSUME EditInv, NEW e \in editLoad.edits, NEW payload \in Payload,
           SubmitPropertyEditRequest(e, payload), UNCHANGED editLoad
    PROVE  EditInv'
<1> DEFINE after == Prepared(View(form), payload)
           row == [status |-> "PENDING", after |-> after, approved |-> {}]
           status == IF form.status = "rejected" THEN "pending_approval" ELSE form.status
<1>1. form \in Form /\ e \in Edits /\ editLoad.fields \subseteq EditFields
  BY EditAssumption DEF EditInv, EditTypes
<1>2. FieldsFit(payload) /\ DOMAIN payload \subseteq editLoad.fields
  BY PayloadFits DEF EditInv
<1>3. /\ DOMAIN after \subseteq StateFields /\ FieldsFit(after)
      /\ (\A f \in Figures : form[f] = Null) /\ DOMAIN payload \cap Figures = {} =>
            DOMAIN after \cap Figures = {}
  BY <1>1, <1>2, PreparedFits
<1>4. /\ Pending = {} /\ DOMAIN after # {}
      /\ edit' = [edit EXCEPT ![e] = row] /\ form' = [form EXCEPT !.status = status]
      /\ update' = update
  BY DEF SubmitPropertyEditRequest
<1> HIDE DEF after
<1>5. row.status = "PENDING" /\ row.after = after
  OBVIOUS
<1>6. status \in {"approved", "pending_approval", "rejected"}
  BY <1>1 DEF Form
<1> HIDE DEF row, status
<1>7. /\ form' \in Form /\ (ShownIn(form) => ShownIn(form')) /\ (LowerIn(form) => LowerIn(form'))
      /\ \A f \in Figures : form'[f] = form[f]
      /\ \A p : FieldsFit(p) /\ LowerIn(With(form, p)) => LowerIn(With(form', p))
  BY <1>1, <1>4, <1>6, StatusChanges
<1>8. /\ DOMAIN edit' = Edits /\ edit'[e] = row
      /\ \A d \in Edits \ {e} : edit'[d] = edit[d]
  BY <1>1, <1>4 DEF EditInv
<1>9. Pending' \subseteq {e}
  BY <1>4, <1>8 DEF Pending
<1>10. DOMAIN View(form) = StateFields /\ DOMAIN View(form') = StateFields
  BY <1>1, <1>7, ViewFits
<1>11. DOMAIN form = Columns /\ DOMAIN form' = Columns
  BY <1>1, <1>7, FormHasColumns
<1>12. EditTypes'
  <2>1. \A d \in Edits :
           /\ edit'[d].status \in {"none", "PENDING", "APPROVED", "REJECTED", "PARTIALLY_APPROVED"}
           /\ DOMAIN edit'[d].after \subseteq StateFields
           /\ edit'[d].status = "PENDING" <=> DOMAIN edit'[d].after # {}
    BY <1>3, <1>4, <1>5, <1>8, <1>10 DEF EditInv, EditTypes
  <2> QED BY <1>4, <1>7, <1>10, <1>11, <2>1 DEF EditInv, EditTypes
<1>13. \A d \in Edits : FieldsFit(edit'[d].after)
  BY <1>3, <1>5, <1>8 DEF EditInv
<1>14. editLoad.updates = {} => (PriceIsDerived /\ PromotionIsLower)'
  BY <1>7, PricesOfForm DEF EditInv, PriceIsDerived, PromotionIsLower, ShownIn, LowerIn
<1>15. OneUpdate => FALSE
  BY DEF OneUpdate
<1>16. ASSUME NoFigures
       PROVE  /\ form'.promo = Null /\ form'.rentPromo = Null /\ form'.pct = Null
              /\ \A d \in Edits : DOMAIN edit'[d].after \cap Figures = {}
  <2>1. \A f \in Figures : form[f] = Null
    BY <1>16 DEF EditInv, Figures
  <2>2. DOMAIN payload \cap Figures = {}
    BY <1>2, <1>16 DEF NoFigures
  <2>3. DOMAIN after \cap Figures = {}
    BY <2>1, <2>2, <1>3
  <2>4. \A d \in Edits : DOMAIN edit'[d].after \cap Figures = {}
    BY <2>3, <1>5, <1>8, <1>16 DEF EditInv
  <2> QED BY <2>1, <2>4, <1>7 DEF Figures
<1>17. \A d, f \in Pending' : d = f
  BY <1>9
<1>18. OneUpdate' = OneUpdate /\ NoFigures' = NoFigures
  BY DEF OneUpdate, NoFigures
<1> QED BY <1>4, <1>8, <1>12, <1>13, <1>14, <1>15, <1>16, <1>17, <1>18 DEF EditInv

\* A review prepares what it approves against the listing as it now is.
LEMMA ReviewKeeps ==
    ASSUME EditInv, NEW e \in editLoad.edits, NEW approved,
           ReviewPropertyEditRequest(e, approved), UNCHANGED editLoad
    PROVE  EditInv'
<1> DEFINE payload == Only(edit[e].after, approved)
           status == Reviewed(approved, DOMAIN edit[e].after)
           row == [status |-> status, after |-> <<>>, approved |-> approved]
           w == WritePatch(form, Prepared(View(form), payload))
<1>1. form \in Form /\ e \in Edits
  BY EditAssumption DEF EditInv, EditTypes
<1>2. /\ e \in Pending /\ Acceptable(View(form), payload) /\ form' = w
      /\ edit' = [edit EXCEPT ![e] = row] /\ update' = update
  BY DEF ReviewPropertyEditRequest
<1>3. DOMAIN edit[e].after \subseteq StateFields /\ FieldsFit(edit[e].after)
  BY <1>1, ViewFits DEF EditInv, EditTypes
<1>4. FieldsFit(payload) /\ DOMAIN payload \subseteq DOMAIN edit[e].after
  <2>1. PICK p : p = edit[e].after
    OBVIOUS
  <2>2. DOMAIN Only(p, approved) = DOMAIN p \cap approved /\ FieldsFit(Only(p, approved))
    BY <1>3, <2>1, OnlyFits
  <2> QED BY <2>1, <2>2
<1>5. DOMAIN payload \subseteq EditFields
  BY <1>3, <1>4 DEF StateFields, EditFields
<1>6. status \in {"APPROVED", "REJECTED", "PARTIALLY_APPROVED"}
  BY DEF Reviewed
<1> HIDE DEF payload, status
<1>7. /\ w \in Form /\ LowerIn(w) /\ (ShownIn(form) => ShownIn(w))
      /\ (\A f \in Figures : form[f] = Null) /\ DOMAIN payload \cap Figures = {} =>
            \A f \in Figures : w[f] = Null
  BY <1>1, <1>2, <1>4, <1>5, ApprovalFits
<1> HIDE DEF w
<1>8. row.status = status /\ row.after = <<>> /\ DOMAIN (<<>>) = {} /\ FieldsFit(<<>>)
  BY DEF FieldsFit
<1> HIDE DEF row
<1>9. /\ DOMAIN edit' = Edits /\ edit'[e] = row
      /\ \A d \in Edits \ {e} : edit'[d] = edit[d]
  BY <1>1, <1>2 DEF EditInv
<1>10. Pending' \subseteq Pending
  BY <1>6, <1>8, <1>9 DEF Pending
<1>11. DOMAIN View(form) = StateFields /\ DOMAIN View(form') = StateFields
  BY <1>1, <1>2, <1>7, ViewFits
<1>12. DOMAIN form = Columns /\ DOMAIN form' = Columns
  BY <1>1, <1>2, <1>7, FormHasColumns
<1>13. EditTypes'
  <2>1. \A d \in Edits :
           /\ edit'[d].status \in {"none", "PENDING", "APPROVED", "REJECTED", "PARTIALLY_APPROVED"}
           /\ DOMAIN edit'[d].after \subseteq StateFields
           /\ edit'[d].status = "PENDING" <=> DOMAIN edit'[d].after # {}
    BY <1>6, <1>8, <1>9, <1>11 DEF EditInv, EditTypes
  <2> QED BY <1>2, <1>7, <1>11, <1>12, <2>1 DEF EditInv, EditTypes
<1>14. \A d \in Edits : FieldsFit(edit'[d].after)
  BY <1>8, <1>9 DEF EditInv
<1>15. editLoad.updates = {} => (PriceIsDerived /\ PromotionIsLower)'
  BY <1>2, <1>7 DEF EditInv, PriceIsDerived, PromotionIsLower, ShownIn, LowerIn
<1>16. OneUpdate => FALSE
  BY DEF OneUpdate
<1>17. ASSUME NoFigures
       PROVE  /\ form'.promo = Null /\ form'.rentPromo = Null /\ form'.pct = Null
              /\ \A d \in Edits : DOMAIN edit'[d].after \cap Figures = {}
  <2>1. \A f \in Figures : form[f] = Null
    BY <1>17 DEF EditInv, Figures
  <2>2. DOMAIN payload \cap Figures = {}
    BY <1>1, <1>4, <1>17 DEF EditInv
  <2>3. \A f \in Figures : form'[f] = Null
    BY <2>1, <2>2, <1>2, <1>7
  <2>4. \A d \in Edits : DOMAIN edit'[d].after \cap Figures = {}
    BY <1>8, <1>9, <1>17 DEF EditInv
  <2> QED BY <2>3, <2>4 DEF Figures
<1>18. \A d, f \in Pending' : d = f
  BY <1>10 DEF EditInv
<1> QED BY <1>2, <1>9, <1>13, <1>14, <1>15, <1>16, <1>17, <1>18
        DEF EditInv, OneUpdate, NoFigures

\* The administrator's verdict is on the listing as a whole.
LEMMA VerdictKeeps ==
    ASSUME EditInv, NEW status, ReviewListing(status), UNCHANGED editLoad
    PROVE  EditInv'
<1>1. form \in Form
  BY DEF EditInv, EditTypes
<1>2. /\ status \in {"approved", "pending_approval", "rejected"}
      /\ form' = [form EXCEPT !.status = status] /\ edit' = edit /\ update' = update
  BY DEF ReviewListing
<1>3. /\ form' \in Form /\ (ShownIn(form) => ShownIn(form')) /\ (LowerIn(form) => LowerIn(form'))
      /\ \A f \in Figures : form'[f] = form[f]
      /\ \A p : FieldsFit(p) /\ LowerIn(With(form, p)) => LowerIn(With(form', p))
  BY <1>1, <1>2, StatusChanges
<1>4. DOMAIN View(form') = DOMAIN View(form) /\ DOMAIN form' = DOMAIN form
  BY <1>1, <1>3, ViewFits, FormHasColumns
<1>5. EditTypes'
  BY <1>2, <1>3, <1>4 DEF EditInv, EditTypes
<1>6. Pending' = Pending
  BY <1>2 DEF Pending
<1>7. (ShownIn(form') <=> PriceIsDerived') /\ (LowerIn(form') <=> PromotionIsLower')
  BY DEF PriceIsDerived, PromotionIsLower, ShownIn, LowerIn
<1>8. ASSUME OneUpdate
      PROVE  PromotionIsLower' /\ \A r \in editLoad.updates : DOMAIN update[r] # {} =>
                LowerIn(With(form', update[r]))
  <2>1. editLoad.updates \subseteq UpdateRequests
    BY EditAssumption DEF EditInv, EditTypes
  <2> QED BY <1>3, <1>7, <1>8, <2>1, PricesOfForm DEF EditInv
<1>9. NoFigures => form'.promo = Null /\ form'.rentPromo = Null /\ form'.pct = Null
  BY <1>3 DEF EditInv, Figures
<1>10. (\A r \in editLoad.updates : DOMAIN update[r] # {} => LowerIn(With(form', update[r])))
          <=> (\A r \in editLoad.updates : DOMAIN update[r] # {} => LowerIn(With(form, update[r])))'
  BY <1>2 DEF LowerIn, With
<1> QED BY <1>2, <1>3, <1>5, <1>6, <1>7, <1>8, <1>9, PricesOfForm DEF EditInv, OneUpdate, NoFigures

\* A direct update decides on a write that fits the listing as it is.
LEMMA BeginKeeps ==
    ASSUME EditInv, NEW r \in editLoad.updates, NEW body \in Body,
           BeginDirectUpdate(r, body), UNCHANGED editLoad
    PROVE  EditInv'
<1> DEFINE write == DirectWrite(form, body)
<1>1. form \in Form /\ r \in UpdateRequests /\ editLoad.fields \subseteq EditFields
  BY EditAssumption DEF EditInv, EditTypes
<1>2. FieldsFit(body) /\ DOMAIN body \subseteq editLoad.fields
  BY PayloadFits DEF EditInv, Body
<1>3. DOMAIN body \subseteq EditFields \ {"m2"}
  BY <1>1, <1>2 DEF Body
<1>4. /\ CheckDirect(form, body) /\ update' = [update EXCEPT ![r] = write]
      /\ form' = form /\ edit' = edit
  BY DEF BeginDirectUpdate
<1>5. /\ DOMAIN write \subseteq Columns /\ FieldsFit(write)
      /\ DOMAIN body \cap Figures = {} => DOMAIN write \cap Figures = {}
      /\ "price" \notin DOMAIN body => LowerIn(With(form, write))
  BY <1>1, <1>2, <1>3, <1>4, DirectFits
<1> HIDE DEF write
<1>6. /\ DOMAIN update' = UpdateRequests /\ update'[r] = write
      /\ \A q \in UpdateRequests \ {r} : update'[q] = update[q]
  BY <1>1, <1>4 DEF EditInv
<1>7. DOMAIN form = Columns
  BY <1>1, FormHasColumns
<1>8. View(form') = View(form) /\ Pending' = Pending
  BY <1>4 DEF Pending
<1>9. EditTypes'
  BY <1>4, <1>5, <1>6, <1>7, <1>8 DEF EditInv, EditTypes
<1>10. \A q \in UpdateRequests : FieldsFit(update'[q])
  BY <1>5, <1>6 DEF EditInv
<1>11. PriceIsDerived' = PriceIsDerived /\ PromotionIsLower' = PromotionIsLower
  BY <1>4 DEF PriceIsDerived, PromotionIsLower
<1>12. OneUpdate => \A q \in editLoad.updates : LowerIn(With(form, update'[q]))
  BY <1>2, <1>5, <1>6 DEF OneUpdate
<1>13. NoFigures => \A q \in UpdateRequests : DOMAIN update'[q] \cap Figures = {}
  <2>1. NoFigures => DOMAIN body \cap Figures = {}
    BY <1>2 DEF NoFigures
  <2> QED BY <2>1, <1>5, <1>6 DEF EditInv
<1>14. OneUpdate' = OneUpdate /\ NoFigures' = NoFigures
  BY DEF OneUpdate, NoFigures
<1>15. (\A q \in editLoad.updates : DOMAIN update[q] # {} => LowerIn(With(form, update[q])))'
          <=> (\A q \in editLoad.updates : DOMAIN update'[q] # {} => LowerIn(With(form, update'[q])))
  BY <1>4 DEF LowerIn, With
<1> QED BY <1>4, <1>6, <1>8, <1>9, <1>10, <1>11, <1>12, <1>13, <1>14, <1>15 DEF EditInv

\* What was decided is written over the listing as it has become.
LEMMA CompleteKeeps ==
    ASSUME EditInv, NEW r \in editLoad.updates, CompleteDirectUpdate(r), UNCHANGED editLoad
    PROVE  EditInv'
<1>1. form \in Form /\ r \in UpdateRequests /\ FieldsFit(update[r])
  BY EditAssumption DEF EditInv, EditTypes
<1>2. /\ DOMAIN update[r] # {} /\ form' = With(form, update[r])
      /\ update' = [update EXCEPT ![r] = <<>>] /\ edit' = edit
  BY DEF CompleteDirectUpdate
<1>3. PICK write : write = update[r]
  OBVIOUS
<1>4. /\ With(form, write) \in Form
      /\ \A c \in Columns : With(form, write)[c] = IF c \in DOMAIN write THEN write[c] ELSE form[c]
  BY <1>1, <1>3, WithForm
<1>5. form' = With(form, write)
  BY <1>2, <1>3
<1>6. form' \in Form /\ \A c \in Columns : form'[c] = IF c \in DOMAIN write THEN write[c] ELSE form[c]
  BY <1>4, <1>5
<1>7. /\ DOMAIN update' = UpdateRequests /\ update'[r] = <<>>
      /\ \A q \in UpdateRequests \ {r} : update'[q] = update[q]
  BY <1>1, <1>2 DEF EditInv
<1>8. DOMAIN (<<>>) = {} /\ FieldsFit(<<>>)
  BY DEF FieldsFit
<1>9. DOMAIN View(form') = DOMAIN View(form) /\ DOMAIN form' = DOMAIN form
  BY <1>1, <1>6, ViewFits, FormHasColumns
<1>10. EditTypes'
  BY <1>2, <1>6, <1>7, <1>8, <1>9 DEF EditInv, EditTypes
<1>11. Pending' = Pending
  BY <1>2 DEF Pending
<1>12. \A q \in UpdateRequests : FieldsFit(update'[q])
  BY <1>7, <1>8 DEF EditInv
<1>13. editLoad.updates # {}
  OBVIOUS
<1>14. ASSUME OneUpdate
       PROVE  PromotionIsLower' /\ \A q \in editLoad.updates : DOMAIN update'[q] = {}
  <2>1. LowerIn(With(form, write))
    BY <1>2, <1>3, <1>14 DEF EditInv
  <2>2. LowerIn(form')
    BY <2>1, <1>5
  <2>3. \A q \in editLoad.updates : q = r
    BY <1>14 DEF OneUpdate
  <2> QED BY <2>2, <2>3, <1>7, <1>8 DEF PromotionIsLower, LowerIn
<1>15. ASSUME NoFigures
       PROVE  /\ form'.promo = Null /\ form'.rentPromo = Null /\ form'.pct = Null
              /\ \A q \in UpdateRequests : DOMAIN update'[q] \cap Figures = {}
  <2>1. DOMAIN write \cap Figures = {}
    BY <1>1, <1>3, <1>15 DEF EditInv
  <2>2. form.promo = Null /\ form.rentPromo = Null /\ form.pct = Null
    BY <1>15 DEF EditInv
  <2>3. form'.promo = Null /\ form'.rentPromo = Null /\ form'.pct = Null
    BY <2>1, <2>2, <1>6 DEF Figures, Columns
  <2>4. \A q \in UpdateRequests : DOMAIN update'[q] \cap Figures = {}
    BY <1>7, <1>8, <1>15 DEF EditInv
  <2> QED BY <2>3, <2>4
<1>16. OneUpdate' = OneUpdate /\ NoFigures' = NoFigures
  BY DEF OneUpdate, NoFigures
<1>17. (\A q \in editLoad.updates : DOMAIN update'[q] = {}) =>
          (\A q \in editLoad.updates : DOMAIN update[q] # {} => LowerIn(With(form, update[q])))'
  OBVIOUS
<1> QED BY <1>2, <1>7, <1>10, <1>11, <1>12, <1>13, <1>14, <1>15, <1>16, <1>17 DEF EditInv

\* One lemma for each kind of step.
LEMMA EditStep == EditInv /\ [EditNext]_editVars => EditInv'
<1> SUFFICES ASSUME EditInv, [EditNext]_editVars PROVE EditInv'
  OBVIOUS
<1>1. CASE EditNext
  <2>1. ASSUME NEW e \in editLoad.edits, NEW payload \in Payload,
               SubmitPropertyEditRequest(e, payload)
        PROVE  EditInv'
    BY <1>1, <2>1, SubmitKeeps DEF EditNext
  <2>2. ASSUME NEW e \in editLoad.edits, NEW approved, ReviewPropertyEditRequest(e, approved)
        PROVE  EditInv'
    BY <1>1, <2>2, ReviewKeeps DEF EditNext
  <2>3. ASSUME NEW status, ReviewListing(status) PROVE EditInv'
    BY <1>1, <2>3, VerdictKeeps DEF EditNext
  <2>4. ASSUME NEW r \in editLoad.updates, NEW body \in Body, BeginDirectUpdate(r, body)
        PROVE  EditInv'
    BY <1>1, <2>4, BeginKeeps DEF EditNext
  <2>5. ASSUME NEW r \in editLoad.updates, CompleteDirectUpdate(r) PROVE EditInv'
    BY <1>1, <2>5, CompleteKeeps DEF EditNext
  <2> QED BY <1>1, <2>1, <2>2, <2>3, <2>4, <2>5 DEF EditNext, EditChange
<1>2. CASE UNCHANGED editVars
  BY <1>2 DEF editVars, EditInv, EditTypes, Pending, FieldsFit, FieldFits, PriceIsDerived,
              PromotionIsLower, OneUpdate, NoFigures, LowerIn, With, View
<1> QED BY <1>1, <1>2

\* What is stored of edits and updates fits, and what a lone direct update has
\* decided still suits the listing.
THEOREM EditSafety == EditSpec => []EditInv
<1> QED BY InitEdits, EditStep, PTL DEF EditSpec

\* Whatever is edited, reviewed and updated (propertyEditRequestService,
\* propertyUpdateService): one request waits for review; where no direct update
\* interferes, the listing shows the price of its purpose; and a promotion stays
\* below its price, also under direct updates one at a time that leave `price`.
THEOREM EditsAlwaysHold == EditSpec => []EditsHold
<1>1. EditInv => EditsHold
  <2> SUFFICES ASSUME EditInv PROVE EditsHold
    OBVIOUS
  <2>1. OnePending
    <3>1. CASE Pending = {}
      BY <3>1, FS_EmptySet DEF OnePending
    <3>2. CASE Pending # {}
      <4>1. PICK e \in Pending : Pending = {e}
        BY <3>2 DEF EditInv
      <4>2. Cardinality(Pending) = 1
        BY <4>1, FS_Singleton
      <4> QED BY <4>2 DEF OnePending
    <3> QED BY <3>1, <3>2
  <2>2. NoFigures => PromotionIsLower
    BY DEF EditInv, PromotionIsLower, Below
  <2>3. \/ editLoad.updates = {}
        \/ editLoad.fields \cap {"promo", "pct", "rentPromo"} = {}
        \/ /\ editLoad.edits = {} /\ "price" \notin editLoad.fields
           /\ \A r, q \in editLoad.updates : r = q
        => PromotionIsLower
    BY <2>2 DEF EditInv, NoFigures, OneUpdate, Figures
  <2>4. EditTypes /\ (editLoad.updates = {} => PriceIsDerived)
    BY DEF EditInv
  <2> QED BY <2>1, <2>3, <2>4 DEF EditsHold
<1> QED BY <1>1, EditSafety, PTL
=============================================================================
