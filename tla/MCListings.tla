------------------------------ MODULE MCListings ------------------------------
(* Listings: how they are closed and their media, which this module extends,   *)
(* and their edits.  A behaviour of this module is one of the component        *)
(* `focus` names; the others stay where they start.                            *)
EXTENDS DealClosing, ListingMedia, PropertyEdits

CONSTANTS
    d1, d2, r1, r2,     \* edit requests, and requests
    f1, f2

VARIABLE focus

\* Two requests close, cancel and offer again; the same beside every other way
\* to change the status; direct updates, one at a time.
DealLoads ==
    {[requests |-> {r1, r2}, routes |-> {"close", "cancel", "relist"}],
     [requests |-> {r1, r2}, routes |-> RouteNames \ {"update"}],
     [requests |-> {r1}, routes |-> {"close", "cancel", "update"}]}

\* Two requests add, replace and delete the media of a listing; listings are
\* created one request at a time; the same, and one of two requests, where bodies
\* name files.
WorkOnMedia ==
    LET uploads == {"create", "addImage", "deleteImage", "addVideo", "deleteVideo"}
    IN {[requests |-> {r1, r2}, kinds |-> uploads \ {"create"}, files |-> Files],
        [requests |-> {r1}, kinds |-> uploads, files |-> Files],
        [requests |-> {r1}, kinds |-> MediaKinds, files |-> {f1}],
        [requests |-> {r1, r2}, kinds |-> MediaKinds \ {"create", "name"}, files |-> {f1, f2}]}

------------------------------------------------------------------------------
\* An edit request over prices and promotions; one over the purpose and the
\* prices; two beside a direct update; a direct update of all the prices.
WorkOnEdits ==
    {[edits |-> {d1}, updates |-> {}, fields |-> {"sale", "promoted", "pct", "promo"}],
     [edits |-> {d1}, updates |-> {}, fields |-> {"purpose", "price", "sale", "rent"}],
     [edits |-> {d1, d2}, updates |-> {r1}, fields |-> {"price", "sale"}],
     [edits |-> {}, updates |-> {r1},
      fields |-> {"sale", "promo", "promoted", "pct", "rentPromo", "rent"}]}

------------------------------------------------------------------------------
\* Where the components start that a behaviour is not about.
EditsAside == EditInit /\ form.sale = 2 /\ editLoad.edits = {}
MediaAside == MediaInit /\ used = {} /\ mediaLoad.kinds = MediaKinds
DealsAside == Init /\ ~listing.broker /\ "delete" \in load.routes

Start ==
    \/ focus = "edits" /\ EditInit /\ MediaAside /\ DealsAside
    \/ focus = "media" /\ EditsAside /\ MediaInit /\ DealsAside
    \/ focus = "deals" /\ EditsAside /\ MediaAside /\ Init

EditStep == focus = "edits" /\ EditNext /\ UNCHANGED <<focus, vars, mediaVars>>

UploadStep == focus = "media" /\ MediaNext /\ UNCHANGED <<focus, vars, editVars>>

DealStep == focus = "deals" /\ Next /\ UNCHANGED <<focus, editVars, mediaVars>>

AnyStep == EditStep \/ UploadStep \/ DealStep

ListingsSpec == Start /\ [][AnyStep]_<<focus, vars, editVars, mediaVars>>
===============================================================================
