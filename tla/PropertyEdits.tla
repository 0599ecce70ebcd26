---------------------------- MODULE PropertyEdits ----------------------------
(***************************************************************************)
(* The two ways to edit a listing that was reviewed.  An edit request      *)
(* stores the differences it asks for, and an administrator approves or    *)
(* rejects them field by field, under the lock of the row.  A direct       *)
(* update reads the row, decides, and writes with no lock in between.      *)
(* Both check the listing they would leave; what they look at differs.     *)
(***************************************************************************)
EXTENDS Naturals, FiniteSets

CONSTANTS
    Edits,          \* edit requests remembered at a time
    UpdateRequests, \* direct updates that may be in progress at a time
    EditLoads,      \* what an instance lets people edit: by which requests, which fields
    Prices, PromoPrices, Percentages, Areas, Units

EditFields == {"purpose", "price", "sale", "rent", "promoted", "pct", "promo", "rentPromo",
               "value", "unit", "m2"}

ASSUME EditAssumption ==
    /\ \A l \in EditLoads :
          l.edits \subseteq Edits /\ l.updates \subseteq UpdateRequests /\ l.fields \subseteq EditFields
    /\ Prices \cup PromoPrices \cup Percentages \cup Areas \cup Units \subseteq Nat \ {0}
    /\ 1 \in Units

VARIABLES
    editLoad,    \* the one of EditLoads that a behaviour is about
    form,        \* the columns that are edited
    edit,        \* edit request -> its row
    update       \* direct update -> the write it has decided

editVars == <<editLoad, form, edit, update>>

-----------------------------------------------------------------------------
Null == 0
Purpose == {"sale", "rent", "both"}
PriceFields == {"purpose", "sale", "rent"}
PromoFields == {"promoted", "pct", "promo", "rentPromo"}

\* What a body or a payload may give a field; a unit is its square metres.
ValuesOf(f) ==
    CASE f = "purpose" -> Purpose
      [] f \in {"price", "sale", "rent"} -> Prices
      [] f = "promoted" -> BOOLEAN
      [] f = "pct" -> Percentages \cup {Null}
      [] f \in {"promo", "rentPromo"} -> PromoPrices \cup {Null}
      [] f \in {"value", "m2"} -> Areas
      [] f = "unit" -> Units

\* Payloads of one field and of two.
Payload ==
    {[f \in {pair[1], pair[2]} |-> IF f = pair[1] THEN pair[3] ELSE pair[4]] :
        pair \in UNION {{f} \X {g} \X ValuesOf(f) \X ValuesOf(g) : f \in editLoad.fields, g \in editLoad.fields}}

With(state, patch) == [f \in DOMAIN state |-> IF f \in DOMAIN patch THEN patch[f] ELSE state[f]]
Only(patch, fields) == [f \in DOMAIN patch \cap fields |-> patch[f]]

SupportsSale(purpose) == purpose \in {"sale", "both"}
SupportsRent(purpose) == purpose \in {"rent", "both"}
Either(value, fallback) == IF value = Null THEN fallback ELSE value
\* "Preco promocional ... deve ser menor que o preco ...", when both are there.
Below(promo, price) == promo = Null \/ price = Null \/ promo < price
\* calculateDiscountedValue, in whole units; the percentage is taken off.
Discount(base, pct) ==
    IF base = Null \/ pct \notin 1 .. 99 THEN Null ELSE (base * (100 - pct)) \div 100

-----------------------------------------------------------------------------
(* Edit requests: pure parts.                                              *)

\* buildEditablePropertyState: a price column of its own, or `price` when the
\* listing serves one purpose.
View(l) ==
    [purpose |-> l.purpose,
     sale |-> Either(l.sale, IF l.purpose = "sale" THEN l.price ELSE Null),
     rent |-> Either(l.rent, IF l.purpose = "rent" THEN l.price ELSE Null),
     promoted |-> l.promoted \/ l.pct # Null \/ l.promo # Null \/ l.rentPromo # Null,
     pct |-> l.pct, promo |-> l.promo, rentPromo |-> l.rentPromo,
     value |-> l.value, unit |-> l.unit, m2 |-> l.area]

\* validateCurrentState.
Valid(state) == Below(state.promo, state.sale) /\ Below(state.rentPromo, state.rent)

\* buildRequestedPatch: `price` alone stands for the price of the purpose.
Requested(current, payload) ==
    LET purpose == IF "purpose" \in DOMAIN payload THEN payload.purpose ELSE current.purpose
        target == IF SupportsSale(purpose) THEN "sale" ELSE "rent"
        given == DOMAIN payload \ {"price"}
        base == "price" \in DOMAIN payload /\ DOMAIN payload \cap {"sale", "rent"} = {}
    IN [f \in IF base THEN given \cup {target} ELSE given |->
          IF base /\ f = target THEN payload.price ELSE payload[f]]

\* finalizePatch: a promotion switched off loses its figures; a percentage
\* fills in the prices that were not given.
Merged(current, raw) ==
    LET merged == With(current, raw)
        Given(f) == f \in DOMAIN raw /\ raw[f] # Null
        on == merged.promoted \/ Given("pct") \/ Given("promo") \/ Given("rentPromo")
        Price(f, base) == IF Given(f) THEN raw[f] ELSE Discount(base, merged.pct)
    IN CASE "promoted" \in DOMAIN raw /\ ~merged.promoted ->
              [merged EXCEPT !.pct = Null, !.promo = Null, !.rentPromo = Null]
         [] Given("pct") /\ ~("promoted" \in DOMAIN raw /\ ~merged.promoted) ->
              [merged EXCEPT !.promoted = TRUE, !.promo = Price("promo", merged.sale),
                             !.rentPromo = Price("rentPromo", merged.rent)]
         [] OTHER -> [merged EXCEPT !.promoted = on]

\* preparePropertyEditPatch: the fields that differ; one field of a promotion
\* brings in the others.
Prepared(current, payload) ==
    LET raw == Requested(current, payload)
        final == Merged(current, raw)
        keys == DOMAIN raw \cup (IF DOMAIN raw \cap PromoFields = {} THEN {} ELSE PromoFields)
    IN [f \in {f \in keys : final[f] # current[f]} |-> final[f]]

Acceptable(current, payload) == Valid(Merged(current, Requested(current, payload)))

\* Faulty variant: only the columns that changed are written.
WriteColumns(l, patch) ==
    [c \in DOMAIN l |-> IF c \in DOMAIN patch THEN patch[c] ELSE l[c]]

\* buildPropertyEditDbPatch: any price rewrites all prices, any figure of a
\* promotion the whole promotion; a value or an area rewrites the area.
WritePatch(l, patch) ==
    LET final == With(View(l), patch)
        prices == DOMAIN patch \cap PriceFields # {}
        promotion == DOMAIN patch \cap PromoFields # {}
        derived == CASE final.purpose = "sale" -> final.sale
                     [] final.purpose = "rent" -> final.rent
                     [] OTHER -> Either(final.sale, final.rent)
        area == IF "m2" \in DOMAIN patch THEN final.m2
                ELSE IF "value" \in DOMAIN patch THEN final.value * final.unit ELSE l.area
        columns == (IF prices THEN PriceFields ELSE {})
                     \cup (IF promotion THEN PromoFields ELSE {})
                     \cup (DOMAIN patch \cap {"value"})
                     \cup (IF DOMAIN patch \cap {"value", "unit", "m2"} # {} THEN {"unit"} ELSE {})
    IN [With(l, Only(final, columns)) EXCEPT
          !.price = IF prices THEN Either(derived, @) ELSE @,
          !.area = area,
          !.value = IF "m2" \in DOMAIN patch THEN final.m2 ELSE @]

-----------------------------------------------------------------------------
(* Edit requests.                                                          *)

Pending == {e \in Edits : edit[e].status = "PENDING"}

\* Faulty variant: the row is not looked up among the pending ones.
SubmitAgain(e, payload) ==
    LET after == Prepared(View(form), payload)
    IN /\ form.status # "pending_approval"
       /\ edit[e].status # "PENDING"
       /\ Acceptable(View(form), payload) /\ DOMAIN after # {}
       /\ edit' = [edit EXCEPT ![e] = [status |-> "PENDING", after |-> after, approved |-> {}]]
       /\ form' = [form EXCEPT !.status = IF @ = "rejected" THEN "pending_approval" ELSE @]
       /\ UNCHANGED update

\* submitPropertyEditRequest: a listing that was rejected goes back to review.
SubmitPropertyEditRequest(e, payload) ==
    LET after == Prepared(View(form), payload)
    IN /\ form.status # "pending_approval"
       /\ Pending = {} /\ edit[e].status # "PENDING"
       /\ Acceptable(View(form), payload) /\ DOMAIN after # {}
       /\ edit' = [edit EXCEPT ![e] = [status |-> "PENDING", after |-> after, approved |-> {}]]
       /\ form' = [form EXCEPT !.status = IF @ = "rejected" THEN "pending_approval" ELSE @]
       /\ UNCHANGED update

Reviewed(approved, fields) ==
    CASE approved = {} -> "REJECTED" [] approved = fields -> "APPROVED" [] OTHER -> "PARTIALLY_APPROVED"

\* reviewPropertyEditRequest: the approved fields are prepared again, against
\* the listing as it now is.  A listing found invalid rolls the review back,
\* and a rejection of every field with it.  A reviewed payload is not read
\* again and is forgotten here.
ReviewPropertyEditRequest(e, approved) ==
    LET after == edit[e].after
        payload == Only(after, approved)
    IN /\ e \in Pending /\ approved \subseteq DOMAIN after
       /\ Acceptable(View(form), payload)
       /\ form' = WritePatch(form, Prepared(View(form), payload))
       /\ edit' = [edit EXCEPT ![e] = [status |-> Reviewed(approved, DOMAIN after),
                                    after |-> <<>>, approved |-> approved]]
       /\ UNCHANGED update

\* The administrator reviews the listing itself.
ReviewListing(status) ==
    /\ status \in {"approved", "rejected"}
    /\ form' = [form EXCEPT !.status = status]
    /\ UNCHANGED <<edit, update>>

-----------------------------------------------------------------------------
(* Direct updates.                                                         *)

\* What updateProperty would write: the columns of the body, the area when
\* its value or its unit is given, the flag when the figures change it.
DirectWrite(l, body) ==
    LET next == With(l, Only(body, {"purpose", "pct", "value", "unit"}))
        Dropped(f, supported) == f \in DOMAIN body /\ ~supported
        promo == IF Dropped("promo", SupportsSale(next.purpose)) THEN Null ELSE With(l, body).promo
        rentPromo == IF Dropped("rentPromo", SupportsRent(next.purpose)) THEN Null
                     ELSE With(l, body).rentPromo
        promoted == promo # Null \/ rentPromo # Null \/ next.pct # Null \/ With(l, body).promoted
        area == DOMAIN body \cap {"value", "unit"} # {}
        columns == DOMAIN body \cup (IF area THEN {"area", "value", "unit"} ELSE {})
                     \cup (IF promoted = l.promoted THEN {} ELSE {"promoted"})
                     \cup (IF l.status = "rejected" THEN {"status"} ELSE {})
    IN Only([With(next, Only(body, {"price", "sale", "rent"})) EXCEPT
                !.promo = promo, !.rentPromo = rentPromo,
                !.promoted = IF "promoted" \in DOMAIN body THEN body.promoted ELSE promoted,
                !.area = next.value * next.unit, !.status = "pending_approval"], columns)

\* Faulty variant: the body is looked at alone.
CheckBody(l, body) ==
    LET Given(f) == IF f \in DOMAIN body THEN body[f] ELSE Null
    IN Below(Given("promo"), Given("sale")) /\ Below(Given("rentPromo"), Given("rent"))

\* The prices it compares: `price` stands for the price of the purpose, though
\* only the column `price` is written.
CheckDirect(l, body) ==
    LET purpose == With(l, body).purpose
        write == With(l, DirectWrite(l, body))
        NextPrice(f, stands) ==
            IF f \in DOMAIN body THEN body[f]
            ELSE IF stands /\ "price" \in DOMAIN body THEN body.price ELSE Either(l[f], l.price)
    IN /\ Below(write.promo, NextPrice("sale", SupportsSale(purpose)))
       /\ Below(write.rentPromo, NextPrice("rent", purpose = "rent"))

\* The keys that updateProperty takes from a body.
Body == {body \in Payload : "m2" \notin DOMAIN body}

BeginDirectUpdate(r, body) ==
    /\ DOMAIN update[r] = {}
    /\ form.status # "pending_approval"
    /\ CheckDirect(form, body)
    /\ update' = [update EXCEPT ![r] = DirectWrite(form, body)]
    /\ UNCHANGED <<form, edit>>

CompleteDirectUpdate(r) ==
    /\ DOMAIN update[r] # {}
    /\ form' = With(form, update[r])
    /\ update' = [update EXCEPT ![r] = <<>>]
    /\ UNCHANGED edit

-----------------------------------------------------------------------------
NoEdit == [status |-> "none", after |-> <<>>, approved |-> {}]

\* A listing for sale that was created with a price and an area.
EditInit ==
    /\ editLoad \in EditLoads
    /\ \E price \in Prices, area \in Areas :
          form = [status |-> "approved", purpose |-> "sale", price |-> price, sale |-> price,
                     rent |-> Null, promoted |-> FALSE, pct |-> Null, promo |-> Null,
                     rentPromo |-> Null, area |-> area, value |-> area, unit |-> 1]
    /\ edit = [e \in Edits |-> NoEdit]
    /\ update = [r \in UpdateRequests |-> <<>>]

EditChange ==
    \/ \E e \in editLoad.edits :
          \/ \E payload \in Payload : SubmitPropertyEditRequest(e, payload)
          \/ \E approved \in SUBSET DOMAIN edit[e].after : ReviewPropertyEditRequest(e, approved)
    \/ \E status \in {"approved", "rejected"} : ReviewListing(status)
    \/ \E r \in editLoad.updates :
          \/ \E body \in Body : BeginDirectUpdate(r, body)
          \/ CompleteDirectUpdate(r)

EditNext == EditChange /\ UNCHANGED editLoad

EditSpec == EditInit /\ [][EditNext]_editVars

-----------------------------------------------------------------------------
Form ==
    [status : {"approved", "pending_approval", "rejected"}, purpose : Purpose,
     price : Prices, sale : Prices \cup {Null}, rent : Prices \cup {Null}, promoted : BOOLEAN,
     pct : Percentages \cup {Null}, promo : Nat, rentPromo : Nat, area : Nat, value : Nat, unit : Units]

EditTypes ==
    /\ editLoad \in EditLoads /\ form \in Form
    /\ \A e \in Edits :
          /\ edit[e].status \in {"none", "PENDING", "APPROVED", "REJECTED", "PARTIALLY_APPROVED"}
          /\ DOMAIN edit[e].after \subseteq DOMAIN View(form)
          /\ edit[e].status = "PENDING" <=> DOMAIN edit[e].after # {}
    /\ \A r \in UpdateRequests : DOMAIN update[r] \subseteq DOMAIN form

\* A listing for sale with a price of its own shows that price: an edit that
\* touches a price or the purpose derives `price` again.
PriceIsDerived ==
    /\ form.purpose = "sale" /\ form.sale # Null => form.price = form.sale
    /\ form.purpose = "rent" /\ form.rent # Null => form.price = form.rent

\* A promotional price stays below the price in its column, also when an
\* administrator approves some of the fields of a request and rejects others,
\* and when a direct update gives one of the two.
PromotionIsLower ==
    Below(form.promo, form.sale) /\ Below(form.rentPromo, form.rent)

\* One edit request at a time waits for review.
OnePending == Cardinality(Pending) <= 1

\* The requests review their fields against the listing as it is; a direct
\* update holds to the price it read, unless another one or an edit overlaps,
\* or it gives `price`, which it compares and does not show.
EditsHold ==
    /\ EditTypes /\ OnePending
    /\ editLoad.updates = {} => PriceIsDerived
    /\ \/ editLoad.updates = {}
       \/ editLoad.fields \cap {"promo", "pct", "rentPromo"} = {}
       \/ /\ editLoad.edits = {} /\ "price" \notin editLoad.fields
          /\ \A r, q \in editLoad.updates : r = q
       => PromotionIsLower

-----------------------------------------------------------------------------
(* What the code says of itself.                                           *)

\* "teve campos rejeitados": a review leaves the fields it rejected alone.
RejectedIsKept ==
    [][\A e \in Pending : edit'[e].status # "PENDING" =>
          \A f \in DOMAIN edit[e].after \ edit'[e].approved : View(form')[f] = View(form)[f]]_editVars

\* A request that waits may be rejected.
PendingMayBeRejected ==
    \A e \in Pending : Acceptable(View(form), Only(edit[e].after, {}))

\* "areaConstruida permanece em m2": the area is its value in square metres.
AreaIsInSquareMetres == form.area = form.value * form.unit

\* "Preco promocional de venda deve ser menor que o preco de venda.", of the
\* price that is shown.
PromotionIsLowerThanShown == Valid(View(form))
=============================================================================
