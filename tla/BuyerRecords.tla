---------------------------- MODULE BuyerRecords ----------------------------
(***************************************************************************)
(* The favourites and the viewing history of buyers and of devices that    *)
(* nobody is logged in on, and the merge that gives a device's records to  *)
(* the buyer who logs in there (buyer_handlers.go).                        *)
(*                                                                         *)
(* No handler locks what it reads. MySQL runs a transaction on the         *)
(* snapshot of its first read, while its writes go to the rows as they are *)
(* then, by id and column: a call takes its snapshot when it begins and    *)
(* writes when it commits. The unique indexes refuse a second row for an   *)
(* owner and product, or for a device and buyer, and the losing            *)
(* transaction is rolled back.                                             *)
(*                                                                         *)
(* The products are visible ones of one merchant; rate limits, lists, the  *)
(* time of the first view of a product and those of bindings are left out. *)
(* A unit of time is the thirty seconds within which views of a product    *)
(* count as one.                                                           *)
(***************************************************************************)
EXTENDS Integers, FiniteSetsExt

CONSTANTS
  Devices, Buyers, Products,
  Workers,    \* the requests the server handles at the same time
  None,
  MaxTime,    \* bound: what a client may give as the time of a view
  MaxViews    \* bound: views that are counted or under way

ASSUME RecordsAssumption ==
  /\ Devices \cap Buyers = {} /\ None \notin Devices \cup Buyers \cup Products
  /\ MaxTime \in Nat \ {0} /\ MaxViews \in Nat

VARIABLES
  registered,  \* buyer_users
  bound,       \* buyer_device_bindings
  fav,         \* buyer_favorites
  hist,        \* buyer_histories
  call,        \* per worker, the request it handles
  views,       \* history: the views counted so far
  overtaken,   \* history: the workers whose view's row a merge has given away since it was read
  doubled,     \* history: the views such calls have counted again
  wanted       \* history: per device, the products favourited on it and not given up since

counted == <<views, overtaken, doubled>>
vars == <<registered, bound, fav, hist, call, counted, wanted>>

Owners == Devices \cup Buyers

NoFav  == [exists |-> FALSE, active |-> FALSE, mark |-> None]
NoHist == [exists |-> FALSE, active |-> FALSE, mark |-> None, last |-> 0, count |-> 0]

NoCall == [kind |-> "idle", owner |-> None, buyer |-> None, product |-> None, at |-> 0, seen |-> {}]

\* A defect: rows that were merged before are taken again.
TakesActive(row) == row.active

\* A merge takes what is active and was never merged.
Takes(row) == row.active /\ row.mark = None

\* What a view reads, and what a merge does: the rows it takes and those they go to.
Reads(kind, o, b, p) ==
  CASE kind = "view" -> hist[o][p]
    [] kind = "merge" ->
         [favs  |-> [q \in {q \in Products : Takes(fav[o][q])} |-> fav[b][q]],
          hists |-> [q \in {q \in Products : Takes(hist[o][q])} |->
                      [src |-> hist[o][q], dst |-> hist[b][q]]],
          bound |-> <<o, b>> \in bound]

Init ==
  /\ registered = {} /\ bound = {}
  /\ fav = [o \in Owners |-> [p \in Products |-> NoFav]]
  /\ hist = [o \in Owners |-> [p \in Products |-> NoHist]]
  /\ call = [w \in Workers |-> NoCall]
  /\ views = 0 /\ overtaken = {} /\ doubled = 0
  /\ wanted = [d \in Devices |-> {}]

-----------------------------------------------------------------------------
(* Calls begin. *)

\* A mini program logs in with one identity and its login page waits for the merge: no two
\* accounts take a device's records at a time. Nothing else keeps calls apart: the pages send a
\* guest's views and favourites and do not wait for them.
OtherAccountMerges(d, b) ==
  \E w \in Workers : call[w].kind = "merge" /\ call[w].owner = d /\ call[w].buyer # b

Begin(w, kind, owner, buyer, product, at) ==
  /\ call[w] = NoCall
  /\ call' = [call EXCEPT ![w] = [kind |-> kind, owner |-> owner, buyer |-> buyer,
                                  product |-> product, at |-> at,
                                  seen |-> Reads(kind, owner, buyer, product)]]
  /\ UNCHANGED <<registered, bound, fav, hist, counted, wanted>>

\* A request names its owner by the token or by the device.
Known(o) == o \in Devices \/ o \in registered

BeginHistoryView(w, o, p, at) ==
  /\ Known(o) /\ views + Cardinality({x \in Workers : call[x].kind = "view"}) < MaxViews
  /\ Begin(w, "view", o, None, p, at)

BeginGuestMerge(w, d, b) ==
  b \in registered /\ ~OtherAccountMerges(d, b) /\ Begin(w, "merge", d, b, None, 0)

\* An error of the database, a deadlock, a duplicate key, or the death of the process.
Abort(w) ==
  /\ call[w] # NoCall
  /\ call' = [call EXCEPT ![w] = NoCall]
  /\ overtaken' = overtaken \ {w}
  /\ UNCHANGED <<registered, bound, fav, hist, views, doubled, wanted>>

-----------------------------------------------------------------------------
(* Favourites and views of one owner. *)

\* A merge of the device that is under way has found p in the account, where it was given up since:
\* that holds until the merge has ended, whatever is added on the device meanwhile.
StillGivenUp(d, p) ==
  \E w \in Workers :
    /\ call[w].kind = "merge" /\ call[w].owner = d /\ p \in DOMAIN call[w].seen.favs
    /\ call[w].seen.favs[p].active /\ ~fav[call[w].buyer][p].active

\* What is written does not depend on what was read, so adding a favourite is one step; its
\* insert may lose to another and then nothing happens. The mark of an earlier merge stays.
Favourited(now) == [now EXCEPT !.exists = TRUE, !.active = TRUE]

AddFavorite(o, p) ==
  /\ Known(o)
  /\ fav' = [fav EXCEPT ![o][p] = Favourited(@)]
  /\ wanted' = [d \in Devices |-> IF d = o /\ ~StillGivenUp(d, p) THEN wanted[d] \cup {p}
                                                                 ELSE wanted[d]]
  /\ UNCHANGED <<registered, bound, hist, call, counted>>

\* A defect: the mark of an earlier merge stays on a row that is viewed again.
ViewedKeepingMark(now, old, at) ==
  IF old.exists /\ old.active
  THEN [now EXCEPT !.active = TRUE, !.last = at, !.count = old.count + 1]
  ELSE [exists |-> TRUE, active |-> TRUE, mark |-> now.mark, last |-> at, count |-> 1]

\* The row after a view: a row that is new, deleted or merged away starts over.
Viewed(now, old, at) ==
  IF old.exists /\ old.active
  THEN [now EXCEPT !.active = TRUE, !.mark = None, !.last = at, !.count = old.count + 1]
  ELSE [exists |-> TRUE, active |-> TRUE, mark |-> None, last |-> at, count |-> 1]

CommitView(w) ==
  LET o == call[w].owner
      p == call[w].product
      at == call[w].at
      old == call[w].seen
      again == old.active /\ at - old.last < 1
  IN /\ call[w].kind = "view"
     /\ \/ again /\ UNCHANGED <<hist, views, doubled>>
        \/ /\ ~again /\ (old.exists \/ ~hist[o][p].exists)
           /\ hist' = [hist EXCEPT ![o][p] = Viewed(@, old, at)]
           /\ views' = views + 1
           /\ doubled' = doubled + IF w \in overtaken /\ old.active THEN old.count ELSE 0
     /\ call' = [call EXCEPT ![w] = NoCall]
     /\ overtaken' = overtaken \ {w}
     /\ UNCHANGED <<registered, bound, fav, wanted>>

\* Deleting is one statement. Whoever gives a product up, on a device or in an account, gives it
\* up for the devices whose favourites may have come to the account.
DeleteFavorite(o, p) ==
  /\ Known(o)
  /\ fav' = [fav EXCEPT ![o][p].active = FALSE]
  /\ wanted' = [d \in Devices |-> IF d = o \/ o \in Buyers THEN wanted[d] \ {p} ELSE wanted[d]]
  /\ UNCHANGED <<registered, bound, hist, call, counted>>

DeleteHistory(o, ps) ==
  /\ Known(o)
  /\ hist' = [hist EXCEPT ![o] = [p \in Products |->
                IF p \in ps THEN [@[p] EXCEPT !.active = FALSE] ELSE @[p]]]
  /\ UNCHANGED <<registered, bound, fav, call, counted, wanted>>

-----------------------------------------------------------------------------
(* Login and merge. *)

\* The account is found or created and bound to the device.
Login(d, b) ==
  /\ registered' = registered \cup {b}
  /\ bound' = bound \cup {<<d, b>>}
  /\ UNCHANGED <<fav, hist, call, counted, wanted>>

\* A defect: the count is added to the row as it is then.
MergedCountInPlace(now, dst, src) == now.count + src.count

MergedCount(now, dst, src) == dst.count + src.count

Given(row, b) == [row EXCEPT !.active = FALSE, !.mark = b]

\* A defect: a favourite the buyer has deleted stays deleted.
ReceivedFavKeepingDeleted(now, dst) == IF dst.exists THEN now ELSE Favourited(now)

ReceivedFav(now, dst) == IF dst.active THEN now ELSE Favourited(now)

ReceivedHist(now, dst, src) ==
  IF dst.exists
  THEN [now EXCEPT !.active = TRUE, !.count = MergedCount(now, dst, src),
                   !.last = Max({dst.last, src.last})]
  ELSE [src EXCEPT !.mark = None]

\* Rows the merge would insert that somebody else has inserted since.
Duplicates(seen, d, b) ==
  \/ ~seen.bound /\ <<d, b>> \in bound
  \/ \E p \in DOMAIN seen.favs : ~seen.favs[p].exists /\ fav[b][p].exists
  \/ \E p \in DOMAIN seen.hists : ~seen.hists[p].dst.exists /\ hist[b][p].exists

CommitMerge(w) ==
  LET d == call[w].owner
      b == call[w].buyer
      seen == call[w].seen
  IN /\ call[w].kind = "merge" /\ ~Duplicates(seen, d, b)
     /\ fav' = [o \in Owners |-> [p \in Products |->
                  IF o = d /\ p \in DOMAIN seen.favs THEN Given(fav[d][p], b)
                  ELSE IF o = b /\ p \in DOMAIN seen.favs THEN ReceivedFav(fav[b][p], seen.favs[p])
                  ELSE fav[o][p]]]
     /\ hist' = [o \in Owners |-> [p \in Products |->
                  IF o = d /\ p \in DOMAIN seen.hists THEN Given(hist[d][p], b)
                  ELSE IF o = b /\ p \in DOMAIN seen.hists
                  THEN ReceivedHist(hist[b][p], seen.hists[p].dst, seen.hists[p].src)
                  ELSE hist[o][p]]]
     /\ bound' = bound \cup {<<d, b>>}
     /\ call' = [call EXCEPT ![w] = NoCall]
     /\ overtaken' = overtaken \cup {x \in Workers : /\ call[x].kind = "view" /\ call[x].owner = d
                                                     /\ call[x].product \in DOMAIN seen.hists}
     /\ UNCHANGED <<registered, views, doubled, wanted>>

-----------------------------------------------------------------------------
Next ==
  \/ \E w \in Workers, o \in Owners, p \in Products, at \in 1..MaxTime :
       BeginHistoryView(w, o, p, at)
  \/ \E w \in Workers, d \in Devices, b \in Buyers : BeginGuestMerge(w, d, b)
  \/ \E w \in Workers : CommitView(w) \/ CommitMerge(w) \/ Abort(w)
  \/ \E o \in Owners, p \in Products : AddFavorite(o, p) \/ DeleteFavorite(o, p)
  \/ \E o \in Owners : \E ps \in {{p} : p \in Products} \cup {Products} : DeleteHistory(o, ps)
  \/ \E d \in Devices, b \in Buyers : Login(d, b)

Spec == Init /\ [][Next]_vars

-----------------------------------------------------------------------------
(* Properties. *)

TypeOK ==
  /\ registered \subseteq Buyers /\ bound \subseteq Devices \X Buyers
  /\ fav \in [Owners -> [Products -> [exists : BOOLEAN, active : BOOLEAN, mark : Buyers \cup {None}]]]
  /\ hist \in [Owners -> [Products -> [exists : BOOLEAN, active : BOOLEAN,
                                       mark : Buyers \cup {None}, last : 0..MaxTime,
                                       count : Nat]]]
  /\ views \in Nat /\ overtaken \subseteq Workers /\ doubled \in Nat
  /\ wanted \in [Devices -> SUBSET Products]
  /\ \A o \in Owners, p \in Products :
       /\ fav[o][p].active => fav[o][p].exists
       /\ hist[o][p].active => hist[o][p].exists /\ hist[o][p].mark = None

\* The views a row counts: none any more when it was given to a buyer, whose row counts them.
Counted(o, p) ==
  {<<o, p>>} \X (1..(IF hist[o][p].mark = None THEN hist[o][p].count ELSE 0))

CountedViews == UNION {Counted(o, p) : o \in Owners, p \in Products}

\* However merges are repeated or overlap, and whatever is viewed or deleted beside them, a view
\* counts twice in one case only: a view under way when a merge gives its row away writes the
\* count it had read back (handleBuyerGuestMerge, handleBuyerHistoryView).
CountedOnce == Cardinality(CountedViews) <= views + doubled

\* A product favourited on a device and given up by nobody since is an active favourite, there or
\* in an account. One addition is lost, which wanted leaves out: that beside a merge that found the
\* product in the account before it was given up there (handleBuyerGuestMerge).
NoFavouriteLost ==
  \A d \in Devices : \A p \in wanted[d] : fav[d][p].active \/ \E b \in Buyers : fav[b][p].active

\* What a device gave to one account is not given to another (merge_target_buyer_id): a
\* favourite never, and a view only after it was viewed there anew.
GivenOnce ==
  [][\A d \in Devices, p \in Products :
       /\ fav[d][p].mark # None => fav'[d][p].mark = fav[d][p].mark
       /\ hist[d][p].mark # None => hist'[d][p].mark \in {None, hist[d][p].mark}]_vars

=============================================================================
