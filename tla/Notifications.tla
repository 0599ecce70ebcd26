---------------------------- MODULE Notifications ----------------------------
(***************************************************************************)
(* The notices of the users: the price-drop, promotion and administrator's *)
(* dispatches that insert them (priceDropNotificationService,              *)
(* adminNotificationService, userNotificationService) and the list, "read" *)
(* and "read all" requests that show and delete them (UserController).     *)
(*                                                                         *)
(* A dispatch splits its recipients by role, then treats the clients and   *)
(* the brokers one after the other: it reads who was told less than six    *)
(* hours ago, inserts a notice for each of the others, and pushes.  A user *)
(* lists, reads or reads all in two queries: one for the role it has, and  *)
(* one for the notices under that role, which may be another by then; for  *)
(* a user whose id is also an administrator's that finds nothing.          *)
(*                                                                         *)
(* What clients send to the administrators is the module this one extends. *)
(***************************************************************************)
EXTENDS SupportRequests

CONSTANTS Users,        \* ids of users
          AdminIds,     \* the ids among them that the table admins also has
          Favourites,   \* users who marked the listing as a favourite
          Dispatches,   \* overlapping dispatches
          Prices,       \* the prices a listing may have
          Null,
          MaxNotices,   \* bound: notices ever inserted
          MaxUpdates,   \* bound: updates of the listing
          MaxChanges,   \* bound: changes of a user's broker status
          NoticeLoads   \* instances: which users, readers among them and dispatches,
                        \* and how much of the bounds each has

ASSUME NoticesAssumption ==
  /\ IsFiniteSet(Users) /\ IsFiniteSet(Dispatches)
  /\ AdminIds \subseteq Users /\ Favourites \subseteq Users
  /\ Prices \subseteq Nat \ {0} /\ Null \notin Prices /\ MaxNotices \in Nat
  /\ \A l \in NoticeLoads :
       /\ l.users \subseteq Users /\ l.readers \subseteq l.users /\ l.dispatches \subseteq Dispatches
       /\ l.updates \in 0..MaxUpdates /\ l.changes \in 0..MaxChanges

VARIABLES noticeLoad,   \* the one of NoticeLoads that a behaviour is about
          bstatus,      \* brokers.status of each user
          notices,      \* rows of notifications
          lastId,       \* the last id of a row
          listing,      \* purpose and price columns of the listing
          dispatch,     \* what each dispatch does
          told,         \* who was told what under which role within six hours
          shown,        \* ids of the last list each user read
          asked,        \* roles that the requests of each user under way have read
          updates, changes

noticeVars == <<noticeLoad, bstatus, notices, lastId, listing, dispatch, told, shown,
                asked, updates, changes>>

Roles == {"client", "broker"}
Statuses == {"none", "pending_verification", "approved", "rejected"}
Kinds == {"drop", "promotion", "announcement"}

\* resolveUserNotificationRole, splitRecipientsByRole.
RoleOf(u) == IF bstatus[u] \in {"pending_verification", "approved"} THEN "broker" ELSE "client"

\* Its kind, the group it is at, both groups, and whom of the group it tells.
Dispatch == [at : {"idle", "filter", "insert", "push", "done"}, kind : Kinds, role : Roles,
             groups : [Roles -> SUBSET Users], allowed : SUBSET Users]
Idle == [at |-> "idle", kind |-> "drop", role |-> "client",
         groups |-> [r \in Roles |-> {}], allowed |-> {}]

NoticesInit ==
  /\ noticeLoad \in NoticeLoads
  /\ bstatus \in [Users -> {"none", "approved"}]
  /\ \A u \in Users \ noticeLoad.users : bstatus[u] = "none"
  /\ notices = {} /\ lastId = 0
  /\ \E p \in Prices : listing = [purpose |-> "sale", price |-> p, sale |-> p, rent |-> Null]
  /\ dispatch = [d \in Dispatches |-> Idle]
  /\ told = {}
  /\ shown = [u \in Users |-> {}]
  /\ asked = [u \in Users |-> {}]
  /\ updates = 0 /\ changes = 0

-----------------------------------------------------------------------------
(* Dispatches. *)

\* The favourites of the listing, of the users there are.
Marked == Favourites \cap noticeLoad.users

Split(ids) == [r \in Roles |-> {u \in ids : RoleOf(u) = r}]

Start(d, kind, groups) ==
  dispatch' = [dispatch EXCEPT ![d] =
    [at |-> "filter", kind |-> kind, role |-> "client", groups |-> groups, allowed |-> {}]]

Either(x, y) == IF x # Null THEN x ELSE y

\* notifyPriceDropIfNeeded: a tenth or more below the price before.
Falls(before, after) == after < before /\ (before - after) * 10 >= before

\* The prices applyPropertyUpdateEffects compares: the column, or else `price`.
Before(f) == Either(listing[f], listing.price)

\* updateProperty on an approved listing, with a price column and, it may be,
\* the purpose in its body; a drop in the price starts a dispatch.  `price`
\* stands for the sale's price, or the rent's of a listing only for rent.
UpdatePrice(d) ==
  /\ updates < noticeLoad.updates
  /\ dispatch[d].at = "idle"
  /\ \E key \in {"price", "sale", "rent"}, p \in Prices, purpose \in {"sale", "both"} :
       LET f == IF key = "price" THEN "sale" ELSE key IN
       /\ listing' = [listing EXCEPT ![key] = p, !.purpose = purpose]
       /\ IF Falls(Before(f), p) /\ Marked # {}
            THEN Start(d, "drop", Split(Marked))
            ELSE UNCHANGED dispatch
  /\ updates' = updates + 1
  /\ UNCHANGED <<bstatus, notices, lastId, told, shown, changes>>

\* notifyPromotionStarted: the listing goes on promotion.
StartPromotion(d) ==
  /\ updates < noticeLoad.updates
  /\ dispatch[d].at = "idle" /\ Marked # {}
  /\ Start(d, "promotion", Split(Marked))
  /\ updates' = updates + 1
  /\ UNCHANGED <<bstatus, notices, lastId, listing, told, shown, changes>>

\* sendAdminNotification to an audience, or to the recipients it names.
Announce(d) ==
  /\ updates < noticeLoad.updates
  /\ dispatch[d].at = "idle"
  /\ \E audience \in Roles \cup {"all", "favorites"}, named \in SUBSET noticeLoad.users :
       LET ids == IF audience = "favorites" THEN named \cap Marked ELSE named IN
       /\ ids # {}
       /\ Start(d, "announcement",
                [r \in Roles |-> IF audience \in Roles \ {r} THEN {} ELSE Split(ids)[r]])
  /\ updates' = updates + 1
  /\ UNCHANGED <<bstatus, notices, lastId, listing, told, shown, changes>>

\* The next group, or the end.
Onwards(s) == IF s.role = "client"
                THEN [s EXCEPT !.at = "filter", !.role = "broker", !.allowed = {}]
                ELSE [s EXCEPT !.at = "done", !.allowed = {}]

\* Faulty variant: the cutoff lies six hours ahead.
CoolingDownAhead(s) == {}

\* filterRecipientsByCooldown: who has a notice of this kind and role that is
\* less than six hours old.
CoolingDown(s) ==
  {n.to : n \in {m \in notices : m.fresh /\ m.kind = s.kind /\ m.role = s.role}}

Allowed(s) == s.groups[s.role] \ (IF s.kind = "announcement" THEN {} ELSE CoolingDown(s))

\* Faulty variant: a group with nobody left ends the dispatch.
FilterOrEnd(d) ==
  LET s == dispatch[d] IN
  /\ s.at = "filter"
  /\ dispatch' = [dispatch EXCEPT ![d] =
       IF Allowed(s) = {} THEN [s EXCEPT !.at = "done"]
       ELSE [s EXCEPT !.at = "insert", !.allowed = Allowed(s)]]
  /\ UNCHANGED <<bstatus, notices, lastId, listing, told, shown, updates, changes>>

Filter(d) ==
  LET s == dispatch[d] IN
  /\ s.at = "filter"
  /\ dispatch' = [dispatch EXCEPT ![d] =
       IF Allowed(s) = {} THEN Onwards(s)
       ELSE [s EXCEPT !.at = "insert", !.allowed = Allowed(s)]]
  /\ UNCHANGED <<bstatus, notices, lastId, listing, told, shown, updates, changes>>

\* notifyUsers: one row for each recipient, under the role of the group.
InsertNotices(d) ==
  LET s == dispatch[d] IN
  /\ s.at = "insert"
  /\ lastId + Cardinality(s.allowed) <= MaxNotices
  /\ \E id \in [s.allowed -> (lastId + 1)..(lastId + Cardinality(s.allowed))] :
       /\ \A u, v \in s.allowed : u # v => id[u] # id[v]
       /\ notices' = notices \cup
            {[id |-> id[u], kind |-> s.kind, to |-> u, role |-> s.role, fresh |-> TRUE] :
               u \in s.allowed}
  /\ lastId' = lastId + Cardinality(s.allowed)
  /\ told' = told \cup {<<u, s.kind, s.role>> : u \in s.allowed}
  /\ dispatch' = [dispatch EXCEPT ![d].at = "push"]
  /\ UNCHANGED <<bstatus, listing, shown, updates, changes>>

\* sendPushNotifications returns, or throws: the groups after it are not told.
Push(d) ==
  /\ dispatch[d].at = "push"
  /\ dispatch' = [dispatch EXCEPT ![d] = Onwards(@)]
  /\ UNCHANGED <<bstatus, notices, lastId, listing, told, shown, updates, changes>>

DispatchFails(d) ==
  /\ dispatch[d].at \in {"filter", "insert", "push"}
  /\ dispatch' = [dispatch EXCEPT ![d] = Idle]
  /\ UNCHANGED <<bstatus, notices, lastId, listing, told, shown, updates, changes>>

Finish(d) ==
  /\ dispatch[d].at = "done"
  /\ dispatch' = [dispatch EXCEPT ![d] = Idle]
  /\ UNCHANGED <<bstatus, notices, lastId, listing, told, shown, updates, changes>>

\* Six hours go by, longer than any dispatch.
SixHours ==
  /\ \A d \in Dispatches : dispatch[d].at = "idle"
  /\ \E n \in notices : n.fresh
  /\ notices' = {[n EXCEPT !.fresh = FALSE] : n \in notices}
  /\ told' = {}
  /\ UNCHANGED <<bstatus, lastId, listing, dispatch, shown, updates, changes>>

-----------------------------------------------------------------------------
(* The users. *)

\* A user asks to be a broker; an administrator approves or rejects it.
ChangeStatus(u) ==
  /\ changes < noticeLoad.changes
  /\ \E s \in Statuses :
       /\ <<bstatus[u], s>> \in {<<"none", "pending_verification">>,
                                 <<"rejected", "pending_verification">>,
                                 <<"pending_verification", "approved">>,
                                 <<"pending_verification", "rejected">>,
                                 <<"approved", "rejected">>}
       /\ bstatus' = [bstatus EXCEPT ![u] = s]
  /\ changes' = changes + 1
  /\ UNCHANGED <<notices, lastId, listing, dispatch, told, shown, updates>>

\* A request to list, to read or to read all reads the role that the user has;
\* the query with it follows.
AskRole(u) ==
  /\ asked' = [asked EXCEPT ![u] = @ \cup {RoleOf(u)}]
  /\ UNCHANGED <<bstatus, notices, lastId, listing, dispatch, told, shown, updates, changes>>

\* A request that read role r ends; another that read it may still be under way.
Answered(u, r) == asked' \in {asked, [asked EXCEPT ![u] = @ \ {r}]}

\* The rows that a query of user u selects with role r.
Own(u, r) == {n \in notices : n.to = u /\ n.role = r /\ u \notin AdminIds}

\* The list: the last of the notices that say the same.
List(u, r) ==
  /\ shown' = [shown EXCEPT ![u] =
       {n.id : n \in {k \in Own(u, r) : \A m \in Own(u, r) : m.kind = k.kind => m.id <= k.id}}]
  /\ Answered(u, r)
  /\ UNCHANGED <<bstatus, notices, lastId, listing, dispatch, told, updates, changes>>

\* markNotificationRead deletes the row, or answers 404.
MarkRead(u, r) ==
  /\ \E id \in shown[u] :
       /\ notices' = notices \ {n \in Own(u, r) : n.id = id}
       /\ shown' = [shown EXCEPT ![u] = @ \ {id}]
  /\ Answered(u, r)
  /\ UNCHANGED <<bstatus, lastId, listing, dispatch, told, updates, changes>>

\* Faulty variant: the delete forgets the role.
MarkEveryRoleRead(u, r) ==
  /\ notices' = {n \in notices : n.to # u \/ u \in AdminIds}
  /\ shown' = [shown EXCEPT ![u] = {}]
  /\ Answered(u, r)
  /\ UNCHANGED <<bstatus, lastId, listing, dispatch, told, updates, changes>>

\* markAllNotificationsRead deletes every row of the role it read.
MarkAllRead(u, r) ==
  /\ notices' = notices \ Own(u, r)
  /\ shown' = [shown EXCEPT ![u] = {}]
  /\ Answered(u, r)
  /\ UNCHANGED <<bstatus, lastId, listing, dispatch, told, updates, changes>>

NoticesChange ==
  \/ \E d \in noticeLoad.dispatches :
       UpdatePrice(d) \/ StartPromotion(d) \/ Announce(d) \/ Filter(d)
         \/ InsertNotices(d) \/ Push(d) \/ DispatchFails(d) \/ Finish(d)
  \/ SixHours
  \/ \E u \in noticeLoad.users : ChangeStatus(u)

UserReads ==
  \E u \in noticeLoad.readers :
    \/ AskRole(u)
    \/ \E r \in asked[u] : List(u, r) \/ MarkRead(u, r) \/ MarkAllRead(u, r)

NoticesNext ==
  \/ NoticesChange /\ UNCHANGED <<noticeLoad, asked>>
  \/ UserReads /\ UNCHANGED noticeLoad

NoticesSpec == NoticesInit /\ [][NoticesNext]_noticeVars

-----------------------------------------------------------------------------
(* Properties. *)

NoticeTypes ==
  /\ noticeLoad \in NoticeLoads
  /\ bstatus \in [Users -> Statuses]
  /\ notices \subseteq [id : 1..lastId, kind : Kinds, to : Users, role : Roles, fresh : BOOLEAN]
  /\ lastId \in 0..MaxNotices
  /\ listing \in [purpose : {"sale", "both"}, price : Prices, sale : Prices,
                  rent : Prices \cup {Null}]
  /\ dispatch \in [Dispatches -> Dispatch]
  /\ shown \in [Users -> SUBSET (1..lastId)]
  /\ asked \in [Users -> SUBSET Roles]

\* What user u was told of a kind under role r within six hours, and still has.
Fresh(u, r, kind) == {n \in notices : n.fresh /\ n.to = u /\ n.role = r /\ n.kind = kind}

\* The cooldown holds against every order of updates and changes of role: a
\* user has at most as many notices of one kind and role from the last six hours
\* as dispatches overlapped, one when they follow each other.
CooldownHolds ==
  \A u \in Users, r \in Roles, kind \in {"drop", "promotion"} :
    Cardinality(Fresh(u, r, kind)) <= Cardinality(noticeLoad.dispatches)

\* A dispatch that ends without an error leaves nobody out: everyone it meant
\* was told within the last six hours under the role it had when it started,
\* also when the other group, or a part of its own, was cooling down.
DoneMeansTold ==
  \A d \in Dispatches : dispatch[d].at = "done" =>
    \A r \in Roles : \A u \in dispatch[d].groups[r] : <<u, dispatch[d].kind, r>> \in told

\* A request deletes the notices of one user under one role, which the user had
\* when the request began: what a broker was told waits while the account is a
\* client's again, unless a request of the broker's was still under way.
KeepsOtherRole ==
  notices' # notices =>
    \E u \in Users, r \in Roles : \A n \in notices :
      n.id \in {m.id : m \in notices'} \/ (n.to = u /\ n.role = r /\ r \in asked[u])

\* A user has no more fresh notices of one kind and role than dispatches
\* overlapped (filterRecentlyNotified), a dispatch that ends well leaves nobody
\* out, a request that began as one role keeps the notices of the other
\* (markAllNotificationsRead), and the administrators get no more requests of a
\* client in a day than it made at once (requestSupport).
NoticesHold ==
  /\ [](NoticeTypes /\ CooldownHolds /\ DoneMeansTold /\ OneADay)
  /\ [][KeepsOtherRole]_noticeVars

-----------------------------------------------------------------------------
(* What a message says and the code does not hold. *)

\* A drop is announced of a price that was there and that was higher.
\* (priceDropNotificationService.ts:82: "ficou mais barato".)
HadPrice(f) == listing[f] # Null \/ listing.purpose = f

DropStarts(d) ==
  dispatch[d].at = "idle" /\ dispatch'[d].at = "filter" /\ dispatch'[d].kind = "drop"

DropIsReal ==
  [][\A d \in Dispatches :
       (DropStarts(d) /\ listing'.rent # listing.rent) => HadPrice("rent")]_<<dispatch, listing>>

\* A "read" that answers "not found", because it deleted no row, is of a notice
\* that is gone.  (UserController.ts:1507: "Notificação não encontrada.")
NotFoundIsGone ==
  [][\A u \in Users : \A r \in asked[u], n \in notices :
       (MarkRead(u, r) /\ notices' = notices /\ n.to = u) =>
         n.id \notin shown[u] \ shown'[u]]_noticeVars
=============================================================================
