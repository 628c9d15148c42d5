------------------------- MODULE BuyerRecordsProofs -------------------------
(***************************************************************************)
(* What the merge of a device's records promises, for any number of        *)
(* devices, buyers, products and overlapping requests that read without    *)
(* locks.                                                                  *)
(***************************************************************************)
EXTENDS BuyerRecords, FiniteSetTheorems, TLAPS

FavRow == [exists : BOOLEAN, active : BOOLEAN, mark : Buyers \cup {None}]

HistRow == [exists : BOOLEAN, active : BOOLEAN, mark : Buyers \cup {None}, last : 0..MaxTime,
            count : Nat]

\* A row is not active before it exists.
Proper(row) == row.active => row.exists

Typed ==
  /\ registered \subseteq Buyers /\ bound \subseteq Devices \X Buyers
  /\ fav \in [Owners -> [Products -> FavRow]] /\ hist \in [Owners -> [Products -> HistRow]]
  /\ views \in Nat /\ overtaken \subseteq Workers /\ doubled \in Nat
  /\ wanted \in [Devices -> SUBSET Products]

\* What a device gave away is not in its history any more; buyers give nothing away.
RowsProper ==
  /\ \A o \in Owners, p \in Products :
       Proper(fav[o][p]) /\ Proper(hist[o][p]) /\ (hist[o][p].active => hist[o][p].mark = None)
  /\ \A b \in Buyers, p \in Products : hist[b][p].mark = None

ViewCall(c) ==
  /\ c.owner \in Owners /\ c.product \in Products /\ c.at \in 1..MaxTime
  /\ c.seen \in HistRow /\ Proper(c.seen)

MergeCall(c) ==
  /\ c.owner \in Devices /\ c.buyer \in Buyers
  /\ DOMAIN c.seen.favs \subseteq Products /\ DOMAIN c.seen.hists \subseteq Products
  /\ \A p \in DOMAIN c.seen.hists :
       /\ c.seen.hists[p].src \in HistRow /\ c.seen.hists[p].dst \in HistRow
       /\ c.seen.hists[p].src.exists

\* What a merge read is still so where it matters: what it takes was given to nobody else, and
\* a favourite it found in the account is still there unless it was given up.
StillHolds(c, favs, hists, wants) ==
  /\ \A p \in DOMAIN c.seen.favs :
       /\ favs[c.owner][p].mark \in {None, c.buyer}
       /\ c.seen.favs[p].active /\ p \in wants[c.owner] => favs[c.buyer][p].active
  /\ \A p \in DOMAIN c.seen.hists :
       /\ hists[c.owner][p].mark \in {None, c.buyer}
       /\ c.seen.hists[p].dst.exists => hists[c.buyer][p].exists

CallRow(c) ==
  /\ c.kind \in {"idle", "view", "merge"}
  /\ c.kind = "view" => ViewCall(c)
  /\ c.kind = "merge" => MergeCall(c)

Calls ==
  /\ call = [w \in Workers |-> call[w]]
  /\ \A w \in Workers : CallRow(call[w])

RowStays(c, hists) == c.seen.exists => hists[c.owner][c.product].exists

ReadsHold ==
  \A w \in Workers : /\ call[w].kind = "merge" => StillHolds(call[w], fav, hist, wanted)
                     /\ call[w].kind = "view" => RowStays(call[w], hist)

\* A device is merged into one account at a time.
OneBuyer ==
  \A w, x \in Workers : call[w].kind = "merge" /\ call[x].kind = "merge"
                        /\ call[w].owner = call[x].owner => call[w].buyer = call[x].buyer

IInv == Typed /\ RowsProper /\ Calls /\ ReadsHold /\ OneBuyer /\ NoFavouriteLost

-----------------------------------------------------------------------------
(* Rows. *)

\* A device is no buyer.
LEMMA OwnerFacts ==
  /\ \A d \in Devices : d \in Owners /\ d \notin Buyers
  /\ \A b \in Buyers : b \in Owners /\ b \notin Devices /\ b # None
BY RecordsAssumption DEF Owners

\* The later of two times.
LEMMA Later ==
  ASSUME NEW a \in 0..MaxTime, NEW b \in 0..MaxTime
  PROVE  Max({a, b}) \in 0..MaxTime
<1>1. a \in Int /\ b \in Int
  BY RecordsAssumption
<1>2. \E x \in {a, b} : \A y \in {a, b} : x >= y
  BY <1>1
<1>3. Max({a, b}) \in {a, b}
  BY <1>2 DEF Max
<1>4. QED
  BY <1>3

\* The row after a view.
LEMMA ViewedRow ==
  ASSUME NEW now \in HistRow, NEW old \in HistRow, NEW at \in 1..MaxTime
  PROVE  /\ Viewed(now, old, at) \in HistRow
         /\ Proper(old) => Viewed(now, old, at).mark = None
         /\ Proper(now) /\ now.exists => Proper(Viewed(now, old, at))
         /\ ~(old.exists /\ old.active) => Proper(Viewed(now, old, at))
<1>1. at \in 0..MaxTime /\ None \in Buyers \cup {None} /\ 1 \in Nat
  BY RecordsAssumption
<1>2. old.count + 1 \in Nat
  BY DEF HistRow
<1>3. QED
  BY <1>1, <1>2 DEF Viewed, HistRow, Proper

\* The rows of a merge.
LEMMA MergedRows ==
  ASSUME NEW now \in HistRow, NEW dst \in HistRow, NEW src \in HistRow, NEW b \in Buyers
  PROVE  /\ Given(now, b) \in HistRow /\ ~Given(now, b).active /\ Given(now, b).mark = b
         /\ ReceivedHist(now, dst, src) \in HistRow
         /\ now.mark = None => ReceivedHist(now, dst, src).mark = None
         /\ src.exists /\ (dst.exists => now.exists) => ReceivedHist(now, dst, src).exists
<1>1. Max({dst.last, src.last}) \in 0..MaxTime /\ dst.count + src.count \in Nat
  <2>1. /\ dst.last \in 0..MaxTime /\ src.last \in 0..MaxTime
        /\ dst.count \in Nat /\ src.count \in Nat
    BY DEF HistRow
  <2>2. QED
    BY <2>1, Later
<1>2. QED
  BY <1>1 DEF Given, ReceivedHist, MergedCount, HistRow, Proper

\* A favourite that is added, taken or received.
LEMMA FavRows ==
  ASSUME NEW now \in FavRow, NEW b \in Buyers
  PROVE  /\ Given(now, b) \in FavRow /\ ~Given(now, b).active /\ Given(now, b).mark = b
         /\ Favourited(now) \in FavRow /\ Favourited(now).active /\ Proper(Favourited(now))
         /\ Favourited(now).mark = now.mark
BY DEF Given, Favourited, FavRow, Proper

-----------------------------------------------------------------------------
(* The actions. *)

\* A call that ends is no call.
LEMMA NoCallFacts == NoCall.kind = "idle" /\ CallRow(NoCall)
BY DEF NoCall, CallRow

\* Nothing is recorded at the start.
LEMMA InitInv == Init => IInv
<1> SUFFICES ASSUME Init PROVE IInv
  OBVIOUS
<1>1. NoFav \in FavRow /\ NoHist \in HistRow
  BY RecordsAssumption DEF NoFav, NoHist, FavRow, HistRow
<1>2. Typed
  BY <1>1 DEF Init, Typed
<1>3. \A o \in Owners, p \in Products : fav[o][p] = NoFav /\ hist[o][p] = NoHist
  BY DEF Init
<1>4. RowsProper
  BY <1>3, OwnerFacts DEF RowsProper, NoFav, NoHist, Proper
<1>5. \A w \in Workers : call[w] = NoCall
  BY DEF Init
<1>6. Calls /\ ReadsHold /\ OneBuyer
  BY <1>5, NoCallFacts DEF Init, Calls, ReadsHold, OneBuyer
<1>7. NoFavouriteLost
  BY DEF Init, NoFavouriteLost
<1>8. QED
  BY <1>2, <1>4, <1>6, <1>7 DEF IInv

\* One worker's call changes; what the others read holds as before.
LEMMA CallChanges ==
  ASSUME IInv, NEW w \in Workers, NEW row, CallRow(row),
         call' = [call EXCEPT ![w] = row]
  PROVE  /\ Calls'
         /\ call'[w] = row /\ \A x \in Workers \ {w} : call'[x] = call[x]
<1>1. call'[w] = row /\ \A x \in Workers \ {w} : call'[x] = call[x]
  BY DEF IInv, Calls
<1>2. call' = [x \in Workers |-> call'[x]]
  BY DEF IInv, Calls
<1>3. QED
  BY <1>1, <1>2 DEF IInv, Calls

\* A call that ends keeps what the others have read.
LEMMA CallEnds ==
  ASSUME IInv, NEW w \in Workers, call' = [call EXCEPT ![w] = NoCall],
         \A x \in Workers \ {w} :
           /\ call[x].kind = "merge" => StillHolds(call[x], fav', hist', wanted')
           /\ call[x].kind = "view" => RowStays(call[x], hist')
  PROVE  Calls' /\ ReadsHold' /\ OneBuyer'
<1>1. /\ Calls' /\ call'[w] = NoCall
      /\ \A x \in Workers \ {w} : call'[x] = call[x]
  BY CallChanges, NoCallFacts
<1>2. ReadsHold'
  BY <1>1, NoCallFacts DEF ReadsHold
<1>3. OneBuyer'
  BY <1>1, NoCallFacts DEF IInv, OneBuyer
<1>4. QED
  BY <1>1, <1>2, <1>3

\* A view begins with the row as it is.
LEMMA BeginViewInv ==
  ASSUME IInv, NEW w \in Workers, NEW o \in Owners, NEW p \in Products, NEW at \in 1..MaxTime,
         BeginHistoryView(w, o, p, at)
  PROVE  IInv'
<1> DEFINE row == [kind |-> "view", owner |-> o, buyer |-> None, product |-> p, at |-> at,
                   seen |-> Reads("view", o, None, p)]
<1>1. /\ call' = [call EXCEPT ![w] = row]
      /\ UNCHANGED <<registered, bound, fav, hist, counted, wanted>>
  BY DEF BeginHistoryView, Begin
<1>2. /\ row.kind = "view" /\ row.seen = hist[o][p] /\ row.owner = o /\ row.product = p
      /\ row.at = at
  BY DEF Reads
<1> HIDE DEF row
<1>3. hist[o][p] \in HistRow /\ Proper(hist[o][p])
  BY DEF IInv, Typed, RowsProper
<1>4. CallRow(row) /\ RowStays(row, hist')
  BY <1>1, <1>2, <1>3 DEF CallRow, ViewCall, RowStays
<1>5. /\ Calls' /\ call'[w] = row /\ \A x \in Workers \ {w} : call'[x] = call[x]
  BY <1>1, <1>4, CallChanges
<1>6. ReadsHold'
  BY <1>1, <1>2, <1>4, <1>5 DEF IInv, ReadsHold
<1>7. OneBuyer'
  BY <1>2, <1>5 DEF IInv, OneBuyer
<1>8. (Typed /\ RowsProper /\ NoFavouriteLost)'
  BY <1>1 DEF IInv, Typed, RowsProper, NoFavouriteLost, counted
<1>9. QED
  BY <1>5, <1>6, <1>7, <1>8 DEF IInv

\* A merge begins with what was never merged, and no other account's is under way there.
LEMMA BeginMergeInv ==
  ASSUME IInv, NEW w \in Workers, NEW d \in Devices, NEW b \in Buyers, BeginGuestMerge(w, d, b)
  PROVE  IInv'
<1> DEFINE row == [kind |-> "merge", owner |-> d, buyer |-> b, product |-> None, at |-> 0,
                   seen |-> Reads("merge", d, b, None)]
<1>1. /\ call' = [call EXCEPT ![w] = row] /\ ~OtherAccountMerges(d, b)
      /\ UNCHANGED <<registered, bound, fav, hist, counted, wanted>>
  BY DEF BeginGuestMerge, Begin
<1>2. /\ row.kind = "merge" /\ row.owner = d /\ row.buyer = b
      /\ row.seen.favs = [q \in {q \in Products : Takes(fav[d][q])} |-> fav[b][q]]
      /\ row.seen.hists = [q \in {q \in Products : Takes(hist[d][q])} |->
                             [src |-> hist[d][q], dst |-> hist[b][q]]]
  BY DEF Reads
<1> HIDE DEF row
<1>3. /\ \A p \in DOMAIN row.seen.favs : /\ p \in Products /\ fav[d][p].mark = None
                                         /\ row.seen.favs[p] = fav[b][p]
      /\ \A p \in DOMAIN row.seen.hists : /\ p \in Products /\ hist[d][p].mark = None
                                          /\ row.seen.hists[p].src = hist[d][p]
                                          /\ hist[d][p].active
                                          /\ row.seen.hists[p].dst = hist[b][p]
  BY <1>2 DEF Takes
<1>4. \A p \in Products : /\ hist[d][p] \in HistRow /\ hist[b][p] \in HistRow
                          /\ Proper(hist[d][p])
  BY OwnerFacts DEF IInv, Typed, RowsProper
<1>5. CallRow(row)
  BY <1>2, <1>3, <1>4 DEF CallRow, MergeCall, Proper
<1>6. StillHolds(row, fav', hist', wanted')
  BY <1>1, <1>2, <1>3 DEF StillHolds
<1>7. /\ Calls' /\ call'[w] = row /\ \A x \in Workers \ {w} : call'[x] = call[x]
  BY <1>1, <1>5, CallChanges
<1>8. ReadsHold'
  BY <1>1, <1>2, <1>6, <1>7 DEF IInv, ReadsHold
<1>9. \A x \in Workers : call[x].kind = "merge" /\ call[x].owner = d => call[x].buyer = b
  BY <1>1 DEF OtherAccountMerges
<1>10. OneBuyer'
  BY <1>2, <1>7, <1>9 DEF IInv, OneBuyer
<1>11. (Typed /\ RowsProper /\ NoFavouriteLost)'
  BY <1>1 DEF IInv, Typed, RowsProper, NoFavouriteLost, counted
<1>12. QED
  BY <1>7, <1>8, <1>10, <1>11 DEF IInv

\* What fails leaves no trace.
LEMMA AbortInv ==
  ASSUME IInv, NEW w \in Workers, Abort(w)
  PROVE  IInv'
<1>1. /\ call' = [call EXCEPT ![w] = NoCall]
      /\ overtaken' = overtaken \ {w}
      /\ UNCHANGED <<registered, bound, fav, hist, views, doubled, wanted>>
  BY DEF Abort
<1>2. Calls' /\ ReadsHold' /\ OneBuyer'
  BY <1>1, CallEnds DEF IInv, ReadsHold
<1>3. QED
  BY <1>1, <1>2 DEF IInv, Typed, RowsProper, NoFavouriteLost

\* The device and the account are bound.
LEMMA LoginInv ==
  ASSUME IInv, NEW d \in Devices, NEW b \in Buyers, Login(d, b)
  PROVE  IInv'
BY DEF Login, IInv, Typed, RowsProper, Calls, ReadsHold, OneBuyer, NoFavouriteLost, counted

\* A favourite is added, beside whatever merges are under way.
LEMMA AddInv ==
  ASSUME IInv, NEW o \in Owners, NEW p \in Products, AddFavorite(o, p)
  PROVE  IInv'
<1>1. /\ fav' = [fav EXCEPT ![o][p] = Favourited(fav[o][p])]
      /\ wanted' = [d \in Devices |-> IF d = o /\ ~StillGivenUp(d, p) THEN wanted[d] \cup {p}
                                                                      ELSE wanted[d]]
      /\ UNCHANGED <<registered, bound, hist, call, counted>>
  BY DEF AddFavorite
<1>2. /\ fav[o][p] \in FavRow /\ Favourited(fav[o][p]) \in FavRow
      /\ Favourited(fav[o][p]).active /\ Proper(Favourited(fav[o][p]))
      /\ Favourited(fav[o][p]).mark = fav[o][p].mark
  <2>1. fav[o][p] \in FavRow
    BY DEF IInv, Typed
  <2>2. QED
    BY <2>1 DEF Favourited, FavRow, Proper
<1>3. /\ fav' \in [Owners -> [Products -> FavRow]]
      /\ fav'[o][p] = Favourited(fav[o][p])
      /\ \A e \in Owners, q \in Products : e # o \/ q # p => fav'[e][q] = fav[e][q]
  BY <1>1, <1>2 DEF IInv, Typed
<1>4. /\ wanted' \in [Devices -> SUBSET Products]
      /\ \A d \in Devices : d # o => wanted'[d] = wanted[d]
      /\ \A d \in Devices, q \in Products :
           q \in wanted'[d] => q \in wanted[d] \/ (d = o /\ q = p /\ ~StillGivenUp(o, p))
  <2>1. wanted \in [Devices -> SUBSET Products]
    BY DEF IInv, Typed
  <2>2. CASE StillGivenUp(o, p)
    <3>1. wanted' = [d \in Devices |-> wanted[d]]
      BY <1>1, <2>2
    <3>2. QED
      BY <2>1, <3>1
  <2>3. CASE ~StillGivenUp(o, p)
    <3>1. wanted' = [d \in Devices |-> IF d = o THEN wanted[d] \cup {p} ELSE wanted[d]]
      BY <1>1, <2>3
    <3>2. QED
      BY <2>1, <2>3, <3>1
  <2>4. QED
    BY <2>2, <2>3
<1>5. \A e \in Owners, q \in Products : /\ fav[e][q].active => fav'[e][q].active
                                        /\ fav'[e][q].mark = fav[e][q].mark
  BY <1>2, <1>3
<1>6. Typed' /\ RowsProper'
  BY <1>1, <1>2, <1>3, <1>4 DEF IInv, Typed, RowsProper, counted
<1>7. ASSUME NEW w \in Workers, call[w].kind = "merge"
      PROVE  StillHolds(call[w], fav', hist', wanted')
  <2>1. /\ call[w].owner \in Devices /\ call[w].buyer \in Buyers
        /\ call[w].owner \in Owners /\ call[w].buyer \in Owners
        /\ DOMAIN call[w].seen.favs \subseteq Products
    BY <1>7, OwnerFacts DEF IInv, Calls, CallRow, MergeCall
  <2>2. StillHolds(call[w], fav, hist, wanted)
    BY <1>7 DEF IInv, ReadsHold
  <2>3. ASSUME NEW q \in DOMAIN call[w].seen.favs, call[w].seen.favs[q].active,
               q \in wanted'[call[w].owner]
        PROVE  fav'[call[w].buyer][q].active
    <3>1. CASE q \in wanted[call[w].owner]
      BY <1>5, <2>1, <2>2, <2>3, <3>1 DEF StillHolds
    <3>2. CASE call[w].owner = o /\ q = p /\ ~StillGivenUp(o, p)
      <4>1. fav[call[w].buyer][p].active
        BY <1>7, <2>3, <3>2 DEF StillGivenUp
      <4>2. QED
        BY <1>5, <2>1, <3>2, <4>1
    <3>3. QED
      BY <1>4, <2>1, <2>3, <3>1, <3>2
  <2>4. QED
    BY <1>1, <1>5, <2>1, <2>2, <2>3 DEF StillHolds
<1>8. Calls' /\ ReadsHold' /\ OneBuyer'
  BY <1>1, <1>7 DEF IInv, Calls, ReadsHold, OneBuyer
<1>9. NoFavouriteLost'
  <2> SUFFICES ASSUME NEW d \in Devices, NEW q \in wanted'[d]
               PROVE  fav'[d][q].active \/ \E b \in Buyers : fav'[b][q].active
    BY DEF NoFavouriteLost
  <2>1. q \in Products /\ d \in Owners
    BY <1>4, OwnerFacts
  <2>2. CASE q \in wanted[d]
    BY <1>5, <2>1, <2>2, OwnerFacts DEF IInv, NoFavouriteLost
  <2>3. CASE q \notin wanted[d]
    BY <1>2, <1>3, <1>4, <2>1, <2>3
  <2>4. QED
    BY <2>2, <2>3
<1>10. QED
  BY <1>6, <1>8, <1>9 DEF IInv

\* A favourite is given up.
LEMMA DeleteInv ==
  ASSUME IInv, NEW o \in Owners, NEW p \in Products, DeleteFavorite(o, p)
  PROVE  IInv'
<1> DEFINE row == [fav[o][p] EXCEPT !.active = FALSE]
<1>1. /\ fav' = [fav EXCEPT ![o][p] = row]
      /\ wanted' = [d \in Devices |-> IF d = o \/ o \in Buyers THEN wanted[d] \ {p} ELSE wanted[d]]
      /\ UNCHANGED <<registered, bound, hist, call, counted>>
  BY DEF DeleteFavorite
<1>2. row \in FavRow /\ Proper(row) /\ row.mark = fav[o][p].mark
  <2>1. fav[o][p] \in FavRow
    BY DEF IInv, Typed
  <2>2. QED
    BY <2>1 DEF FavRow, Proper
<1> HIDE DEF row
<1>3. /\ fav' \in [Owners -> [Products -> FavRow]] /\ fav'[o][p] = row
      /\ \A e \in Owners, q \in Products : e # o \/ q # p => fav'[e][q] = fav[e][q]
  BY <1>1, <1>2 DEF IInv, Typed
<1>4. /\ wanted' \in [Devices -> SUBSET Products]
      /\ \A d \in Devices : /\ wanted'[d] \subseteq wanted[d]
                            /\ d = o \/ o \in Buyers => p \notin wanted'[d]
  BY <1>1 DEF IInv, Typed
<1>5. \A e \in Owners, q \in Products : fav'[e][q].mark = fav[e][q].mark
  BY <1>2, <1>3
<1>6. Typed' /\ RowsProper'
  BY <1>1, <1>2, <1>3, <1>4 DEF IInv, Typed, RowsProper, counted
<1>7. ASSUME NEW w \in Workers, call[w].kind = "merge"
      PROVE  StillHolds(call[w], fav', hist', wanted')
  <2>1. /\ call[w].owner \in Devices /\ call[w].buyer \in Buyers
        /\ DOMAIN call[w].seen.favs \subseteq Products
    BY <1>7 DEF IInv, Calls, CallRow, MergeCall
  <2>2. StillHolds(call[w], fav, hist, wanted)
    BY <1>7 DEF IInv, ReadsHold
  <2>3. QED
    BY <1>1, <1>3, <1>4, <1>5, <2>1, <2>2, OwnerFacts DEF StillHolds
<1>8. Calls' /\ ReadsHold' /\ OneBuyer'
  BY <1>1, <1>7 DEF IInv, Calls, ReadsHold, OneBuyer
<1>9. NoFavouriteLost'
  <2> SUFFICES ASSUME NEW d \in Devices, NEW q \in wanted'[d]
               PROVE  fav'[d][q].active \/ \E b \in Buyers : fav'[b][q].active
    BY DEF NoFavouriteLost
  <2>1. q \in Products /\ d \in Owners /\ q \in wanted[d]
    BY <1>4, OwnerFacts
  <2>2. fav[d][q].active \/ \E b \in Buyers : fav[b][q].active
    BY <2>1 DEF IInv, NoFavouriteLost
  <2>3. QED
    BY <1>3, <1>4, <2>1, <2>2, OwnerFacts
<1>10. QED
  BY <1>6, <1>8, <1>9 DEF IInv

\* Histories change: rows stay there, and what a device gave away is marked as before or not.
LEMMA HistoryStep ==
  ASSUME IInv, hist' \in [Owners -> [Products -> HistRow]],
         \A o \in Owners, p \in Products :
           /\ hist[o][p].exists => hist'[o][p].exists
           /\ hist'[o][p].mark \in {None, hist[o][p].mark}
           /\ Proper(hist'[o][p]) /\ (hist'[o][p].active => hist'[o][p].mark = None),
         UNCHANGED <<registered, bound, fav, wanted>>,
         views' \in Nat, overtaken' \subseteq Workers, doubled' \in Nat
  PROVE  /\ Typed' /\ RowsProper' /\ NoFavouriteLost'
         /\ \A x \in Workers :
              /\ call[x].kind = "merge" => StillHolds(call[x], fav', hist', wanted')
              /\ call[x].kind = "view" => RowStays(call[x], hist')
<1>1. (Typed /\ RowsProper /\ NoFavouriteLost)'
  BY OwnerFacts DEF IInv, Typed, RowsProper, NoFavouriteLost
<1>2. ASSUME NEW x \in Workers, call[x].kind = "merge"
      PROVE  StillHolds(call[x], fav', hist', wanted')
  <2>1. /\ call[x].owner \in Owners /\ call[x].buyer \in Owners
        /\ DOMAIN call[x].seen.hists \subseteq Products
    BY <1>2, OwnerFacts DEF IInv, Calls, CallRow, MergeCall
  <2>2. StillHolds(call[x], fav, hist, wanted)
    BY <1>2 DEF IInv, ReadsHold
  <2>3. QED
    BY <2>1, <2>2 DEF StillHolds
<1>3. ASSUME NEW x \in Workers, call[x].kind = "view" PROVE RowStays(call[x], hist')
  BY <1>3 DEF IInv, Calls, CallRow, ViewCall, ReadsHold, RowStays
<1>4. QED
  BY <1>1, <1>2, <1>3

\* Views are deleted.
LEMMA DeleteHistoryInv ==
  ASSUME IInv, NEW o \in Owners, NEW ps, DeleteHistory(o, ps)
  PROVE  IInv'
<1>1. /\ hist' = [hist EXCEPT ![o] = [p \in Products |->
                    IF p \in ps THEN [hist[o][p] EXCEPT !.active = FALSE] ELSE hist[o][p]]]
      /\ UNCHANGED <<registered, bound, fav, call, counted, wanted>>
  BY DEF DeleteHistory
<1>2. \A e \in Owners, p \in Products : hist[e][p] \in HistRow
  BY DEF IInv, Typed
<1>3. \A p \in Products :
        /\ [hist[o][p] EXCEPT !.active = FALSE] \in HistRow
        /\ [hist[o][p] EXCEPT !.active = FALSE].exists = hist[o][p].exists
        /\ [hist[o][p] EXCEPT !.active = FALSE].mark = hist[o][p].mark
        /\ ~[hist[o][p] EXCEPT !.active = FALSE].active
  BY <1>2 DEF HistRow
<1>4. hist' \in [Owners -> [Products -> HistRow]]
  BY <1>1, <1>3 DEF IInv, Typed
<1>5. ASSUME NEW e \in Owners, NEW p \in Products
      PROVE  /\ hist'[e][p] = hist[e][p] \/ ~hist'[e][p].active
             /\ hist'[e][p].exists = hist[e][p].exists /\ hist'[e][p].mark = hist[e][p].mark
  BY <1>1, <1>3 DEF IInv, Typed
<1>6. /\ Typed' /\ RowsProper' /\ NoFavouriteLost'
      /\ \A x \in Workers :
           /\ call[x].kind = "merge" => StillHolds(call[x], fav', hist', wanted')
           /\ call[x].kind = "view" => RowStays(call[x], hist')
  <2>1. views' \in Nat /\ overtaken' \subseteq Workers /\ doubled' \in Nat
    BY <1>1 DEF IInv, Typed, counted
  <2>2. \A e \in Owners, p \in Products :
          /\ hist[e][p].exists => hist'[e][p].exists
          /\ hist'[e][p].mark \in {None, hist[e][p].mark}
          /\ Proper(hist'[e][p]) /\ (hist'[e][p].active => hist'[e][p].mark = None)
    BY <1>5 DEF IInv, RowsProper, Proper
  <2>3. QED
    BY <1>1, <1>4, <2>1, <2>2, HistoryStep
<1>7. Calls' /\ ReadsHold' /\ OneBuyer'
  BY <1>1, <1>6 DEF IInv, Calls, ReadsHold, OneBuyer
<1>8. QED
  BY <1>6, <1>7 DEF IInv

\* A view is recorded.
LEMMA CommitViewInv ==
  ASSUME IInv, NEW w \in Workers, CommitView(w)
  PROVE  IInv'
<1> DEFINE o == call[w].owner
           p == call[w].product
           at == call[w].at
           old == call[w].seen
           row == Viewed(hist[o][p], old, at)
<1>1. /\ call[w].kind = "view" /\ call' = [call EXCEPT ![w] = NoCall]
      /\ UNCHANGED <<registered, bound, fav, wanted>> /\ overtaken' = overtaken \ {w}
      /\ \/ UNCHANGED <<hist, views, doubled>>
         \/ /\ old.exists \/ ~hist[o][p].exists
            /\ hist' = [hist EXCEPT ![o][p] = row] /\ views' = views + 1
            /\ doubled' = doubled + IF w \in overtaken /\ old.active THEN old.count ELSE 0
  BY DEF CommitView
<1>2. /\ o \in Owners /\ p \in Products /\ at \in 1..MaxTime /\ old \in HistRow /\ Proper(old)
      /\ old.exists => hist[o][p].exists
  BY <1>1 DEF IInv, Calls, CallRow, ViewCall, ReadsHold, RowStays
<1>3. hist[o][p] \in HistRow /\ Proper(hist[o][p])
  BY <1>2 DEF IInv, Typed, RowsProper
<1>4. row \in HistRow /\ row.mark = None /\ Proper(row) /\ row.exists
  <2>1. row \in HistRow /\ row.mark = None /\ Proper(row)
    BY <1>2, <1>3, ViewedRow
  <2>2. row.exists
    BY <1>2, <1>3 DEF Viewed, HistRow
  <2>3. QED
    BY <2>1, <2>2
<1> HIDE DEF row, o, p, at, old
<1>5. CASE /\ hist' = [hist EXCEPT ![o][p] = row] /\ views' = views + 1
           /\ doubled' = doubled + IF w \in overtaken /\ old.active THEN old.count ELSE 0
  <2>1. /\ hist' \in [Owners -> [Products -> HistRow]] /\ hist'[o][p] = row
        /\ \A e \in Owners, q \in Products : e # o \/ q # p => hist'[e][q] = hist[e][q]
    BY <1>2, <1>4, <1>5 DEF IInv, Typed
  <2>2. views' \in Nat /\ overtaken' \subseteq Workers /\ doubled' \in Nat
    <3>1. old.count \in Nat
      BY <1>2 DEF HistRow
    <3>2. QED
      BY <1>1, <1>5, <3>1 DEF IInv, Typed
  <2>3. \A e \in Owners, q \in Products :
          /\ hist[e][q].exists => hist'[e][q].exists
          /\ hist'[e][q].mark \in {None, hist[e][q].mark}
          /\ Proper(hist'[e][q]) /\ (hist'[e][q].active => hist'[e][q].mark = None)
    BY <1>4, <2>1 DEF IInv, RowsProper
  <2>4. /\ Typed' /\ RowsProper' /\ NoFavouriteLost'
        /\ \A x \in Workers :
             /\ call[x].kind = "merge" => StillHolds(call[x], fav', hist', wanted')
             /\ call[x].kind = "view" => RowStays(call[x], hist')
    BY <1>1, <2>1, <2>2, <2>3, HistoryStep
  <2>5. Calls' /\ ReadsHold' /\ OneBuyer'
    BY <1>1, <2>4, CallEnds
  <2>6. QED
    BY <2>4, <2>5 DEF IInv
<1>6. CASE UNCHANGED <<hist, views, doubled>>
  <2>1. Calls' /\ ReadsHold' /\ OneBuyer'
    BY <1>1, <1>6, CallEnds DEF IInv, ReadsHold
  <2>2. QED
    BY <1>1, <1>6, <2>1 DEF IInv, Typed, RowsProper, NoFavouriteLost
<1>7. QED
  BY <1>1, <1>5, <1>6

\* What a merge writes, in terms of what it has read.
LEMMA MergeWrites ==
  ASSUME IInv, NEW w \in Workers, CommitMerge(w),
         NEW d, d = call[w].owner, NEW b, b = call[w].buyer,
         NEW favs, favs = call[w].seen.favs, NEW hists, hists = call[w].seen.hists
  PROVE  /\ call[w].kind = "merge" /\ d \in Devices /\ b \in Buyers
         /\ d \in Owners /\ b \in Owners /\ d # b
         /\ fav' \in [Owners -> [Products -> FavRow]] /\ hist' \in [Owners -> [Products -> HistRow]]
         /\ \A e \in Owners, p \in Products : /\ e # d /\ e # b => fav'[e][p] = fav[e][p]
                                              /\ e # d /\ e # b => hist'[e][p] = hist[e][p]
         /\ \A p \in Products :
              /\ p \notin DOMAIN favs => fav'[d][p] = fav[d][p] /\ fav'[b][p] = fav[b][p]
              /\ p \in DOMAIN favs =>
                   /\ fav'[d][p].mark = b /\ ~fav'[d][p].active
                   /\ \/ fav'[b][p] = fav[b][p] /\ favs[p].active
                      \/ fav'[b][p].active /\ Proper(fav'[b][p])
              /\ p \notin DOMAIN hists => hist'[d][p] = hist[d][p] /\ hist'[b][p] = hist[b][p]
              /\ p \in DOMAIN hists =>
                   /\ hist'[d][p].mark = b /\ ~hist'[d][p].active
                   /\ hist'[d][p].exists = hist[d][p].exists
                   /\ hist'[b][p].mark = None /\ hist'[b][p].exists
<1>1. MergeCall(call[w]) /\ StillHolds(call[w], fav, hist, wanted) /\ call[w].kind = "merge"
  BY DEF CommitMerge, IInv, Calls, CallRow, ReadsHold
<1>2. /\ d \in Devices /\ b \in Buyers /\ d \in Owners /\ b \in Owners /\ d # b
      /\ DOMAIN favs \subseteq Products /\ DOMAIN hists \subseteq Products
  BY <1>1, OwnerFacts DEF MergeCall
<1>3. /\ \A e \in Owners, p \in Products : fav[e][p] \in FavRow /\ hist[e][p] \in HistRow
      /\ \A p \in Products : hist[b][p].mark = None
  BY <1>2 DEF IInv, Typed, RowsProper
<1>4. /\ fav' = [o \in Owners |-> [p \in Products |->
                  IF o = d /\ p \in DOMAIN favs THEN Given(fav[d][p], b)
                  ELSE IF o = b /\ p \in DOMAIN favs THEN ReceivedFav(fav[b][p], favs[p])
                  ELSE fav[o][p]]]
      /\ hist' = [o \in Owners |-> [p \in Products |->
                  IF o = d /\ p \in DOMAIN hists THEN Given(hist[d][p], b)
                  ELSE IF o = b /\ p \in DOMAIN hists
                  THEN ReceivedHist(hist[b][p], hists[p].dst, hists[p].src)
                  ELSE hist[o][p]]]
  BY DEF CommitMerge
<1>5. ASSUME NEW p \in Products
      PROVE  /\ Given(fav[d][p], b) \in FavRow /\ Given(fav[d][p], b).mark = b
             /\ ~Given(fav[d][p], b).active
             /\ Favourited(fav[b][p]) \in FavRow /\ Favourited(fav[b][p]).active
             /\ Proper(Favourited(fav[b][p]))
             /\ Given(hist[d][p], b) \in HistRow /\ Given(hist[d][p], b).mark = b
             /\ ~Given(hist[d][p], b).active
             /\ Given(hist[d][p], b).exists = hist[d][p].exists
  <2>1. /\ fav[d][p] \in FavRow /\ fav[b][p] \in FavRow /\ hist[d][p] \in HistRow
    BY <1>2, <1>3
  <2>2. QED
    BY <1>2, <2>1 DEF Given, Favourited, FavRow, HistRow, Proper
<1>6. ASSUME NEW p \in DOMAIN hists
      PROVE  /\ ReceivedHist(hist[b][p], hists[p].dst, hists[p].src) \in HistRow
             /\ ReceivedHist(hist[b][p], hists[p].dst, hists[p].src).mark = None
             /\ ReceivedHist(hist[b][p], hists[p].dst, hists[p].src).exists
  <2>1. /\ hists[p].src \in HistRow /\ hists[p].dst \in HistRow /\ hists[p].src.exists
        /\ hists[p].dst.exists => hist[b][p].exists
        /\ hist[b][p] \in HistRow /\ hist[b][p].mark = None
    BY <1>1, <1>2, <1>3 DEF MergeCall, StillHolds
  <2>2. QED
    BY <1>2, <2>1, MergedRows
<1>7. fav' \in [Owners -> [Products -> FavRow]]
  BY <1>2, <1>3, <1>4, <1>5 DEF ReceivedFav
<1>8. hist' \in [Owners -> [Products -> HistRow]]
  BY <1>2, <1>3, <1>4, <1>5, <1>6
<1>9. ASSUME NEW e \in Owners, NEW p \in Products
      PROVE  /\ e # d /\ e # b => fav'[e][p] = fav[e][p]
             /\ e # d /\ e # b => hist'[e][p] = hist[e][p]
  BY <1>4
<1>10. ASSUME NEW p \in Products
       PROVE  /\ p \notin DOMAIN favs => fav'[d][p] = fav[d][p] /\ fav'[b][p] = fav[b][p]
              /\ p \in DOMAIN favs =>
                   /\ fav'[d][p].mark = b /\ ~fav'[d][p].active
                   /\ \/ fav'[b][p] = fav[b][p] /\ favs[p].active
                      \/ fav'[b][p].active /\ Proper(fav'[b][p])
  BY <1>2, <1>4, <1>5 DEF ReceivedFav
<1>11. ASSUME NEW p \in Products
       PROVE  /\ p \notin DOMAIN hists => hist'[d][p] = hist[d][p] /\ hist'[b][p] = hist[b][p]
              /\ p \in DOMAIN hists =>
                   /\ hist'[d][p].mark = b /\ ~hist'[d][p].active
                   /\ hist'[d][p].exists = hist[d][p].exists
                   /\ hist'[b][p].mark = None /\ hist'[b][p].exists
  BY <1>2, <1>4, <1>5, <1>6
<1>12. QED
  BY <1>1, <1>2, <1>7, <1>8, <1>9, <1>10, <1>11

\* A merge gives what it has read to its account, and to no other.
LEMMA CommitMergeInv ==
  ASSUME IInv, NEW w \in Workers, CommitMerge(w)
  PROVE  IInv'
<1> DEFINE d == call[w].owner
           b == call[w].buyer
           favs == call[w].seen.favs
           hists == call[w].seen.hists
<1>1. /\ call[w].kind = "merge" /\ d \in Devices /\ b \in Buyers
      /\ d \in Owners /\ b \in Owners /\ d # b
      /\ fav' \in [Owners -> [Products -> FavRow]] /\ hist' \in [Owners -> [Products -> HistRow]]
  BY MergeWrites
<1>2. \A e \in Owners, p \in Products : /\ e # d /\ e # b => fav'[e][p] = fav[e][p]
                                        /\ e # d /\ e # b => hist'[e][p] = hist[e][p]
  BY MergeWrites
<1>3. \A p \in Products :
        /\ p \notin DOMAIN favs => fav'[d][p] = fav[d][p] /\ fav'[b][p] = fav[b][p]
        /\ p \in DOMAIN favs =>
             /\ fav'[d][p].mark = b /\ ~fav'[d][p].active
             /\ \/ fav'[b][p] = fav[b][p] /\ favs[p].active
                \/ fav'[b][p].active /\ Proper(fav'[b][p])
  BY MergeWrites
<1>4. \A p \in Products :
        /\ p \notin DOMAIN hists => hist'[d][p] = hist[d][p] /\ hist'[b][p] = hist[b][p]
        /\ p \in DOMAIN hists =>
             /\ hist'[d][p].mark = b /\ ~hist'[d][p].active
             /\ hist'[d][p].exists = hist[d][p].exists
             /\ hist'[b][p].mark = None /\ hist'[b][p].exists
  BY MergeWrites
<1>5. /\ bound' = bound \cup {<<d, b>>} /\ call' = [call EXCEPT ![w] = NoCall]
      /\ UNCHANGED <<registered, views, doubled, wanted>>
      /\ overtaken' \subseteq Workers
      /\ StillHolds(call[w], fav, hist, wanted)
  BY <1>1 DEF CommitMerge, IInv, Typed, ReadsHold
<1> HIDE DEF d, b, favs, hists
<1>6. Typed'
  BY <1>1, <1>5 DEF IInv, Typed
<1>7. RowsProper'
  <2>1. ASSUME NEW e \in Owners, NEW p \in Products
        PROVE  /\ Proper(fav'[e][p]) /\ Proper(hist'[e][p])
               /\ hist'[e][p].active => hist'[e][p].mark = None
    <3>1. CASE e = d
      BY <1>1, <1>3, <1>4, <3>1 DEF IInv, RowsProper, Proper
    <3>2. CASE e = b
      BY <1>1, <1>3, <1>4, <3>2 DEF IInv, RowsProper, Proper
    <3>3. CASE e # d /\ e # b
      BY <1>2, <3>3 DEF IInv, RowsProper
    <3>4. QED
      BY <3>1, <3>2, <3>3
  <2>2. ASSUME NEW e \in Buyers, NEW p \in Products PROVE hist'[e][p].mark = None
    BY <1>1, <1>2, <1>4, OwnerFacts DEF IInv, RowsProper
  <2>3. QED
    BY <2>1, <2>2 DEF RowsProper
<1>8. \A e \in Buyers, p \in Products : /\ fav[e][p].active => fav'[e][p].active
                                        /\ hist[e][p].exists => hist'[e][p].exists
  BY <1>1, <1>2, <1>3, <1>4, OwnerFacts
<1>9. ASSUME NEW x \in Workers, call[x].kind = "merge"
      PROVE  StillHolds(call[x], fav', hist', wanted')
  <2>1. /\ call[x].owner \in Devices /\ call[x].owner \in Owners /\ call[x].owner # b
        /\ call[x].buyer \in Buyers
        /\ DOMAIN call[x].seen.favs \subseteq Products /\ DOMAIN call[x].seen.hists \subseteq Products
    BY <1>1, <1>9, OwnerFacts DEF IInv, Calls, CallRow, MergeCall
  <2>2. StillHolds(call[x], fav, hist, wanted)
    BY <1>9 DEF IInv, ReadsHold
  <2>3. CASE call[x].owner = d
    <3>1. call[x].buyer = b
      BY <1>1, <1>9, <2>3 DEF IInv, OneBuyer, d, b
    <3>2. QED
      BY <1>1, <1>3, <1>4, <1>5, <1>8, <2>1, <2>2, <2>3, <3>1 DEF StillHolds
  <2>4. CASE call[x].owner # d
    BY <1>2, <1>5, <1>8, <2>1, <2>2, <2>4 DEF StillHolds
  <2>5. QED
    BY <2>3, <2>4
<1>10. ASSUME NEW x \in Workers, call[x].kind = "view" PROVE RowStays(call[x], hist')
  BY <1>1, <1>2, <1>4, <1>10 DEF IInv, Calls, CallRow, ViewCall, ReadsHold, RowStays
<1>11. Calls' /\ ReadsHold' /\ OneBuyer'
  BY <1>5, <1>9, <1>10, CallEnds
<1>12. NoFavouriteLost'
  <2> SUFFICES ASSUME NEW e \in Devices, NEW q \in wanted[e]
               PROVE  fav'[e][q].active \/ \E a \in Buyers : fav'[a][q].active
    BY <1>5 DEF NoFavouriteLost
  <2>1. q \in Products /\ e \in Owners /\ e # b
    BY <1>1, OwnerFacts DEF IInv, Typed
  <2>2. CASE e = d /\ q \in DOMAIN favs
    <3>1. favs[q].active => fav[b][q].active
      BY <1>5, <2>2 DEF StillHolds, d, b, favs
    <3>2. QED
      BY <1>1, <1>3, <2>1, <2>2, <3>1
  <2>3. CASE ~(e = d /\ q \in DOMAIN favs)
    <3>1. fav'[e][q] = fav[e][q]
      BY <1>1, <1>2, <1>3, <2>1, <2>3
    <3>2. QED
      BY <1>8, <2>1, <3>1 DEF IInv, NoFavouriteLost
  <2>4. QED
    BY <2>2, <2>3
<1>13. QED
  BY <1>6, <1>7, <1>11, <1>12 DEF IInv

\* Every step keeps the invariant.
LEMMA StepInv ==
  ASSUME IInv, [Next]_vars
  PROVE  IInv'
<1>1. CASE UNCHANGED vars
  BY <1>1 DEF vars, counted, IInv, Typed, RowsProper, Calls, ReadsHold, OneBuyer, NoFavouriteLost
<1>2. QED
  BY <1>1, BeginViewInv, BeginMergeInv, CommitViewInv, CommitMergeInv, AbortInv, AddInv, DeleteInv,
     DeleteHistoryInv, LoginInv DEF Next

\* However calls overlap, are repeated or fail, what a merge has read holds until it commits.
THEOREM Invariance == Spec => []IInv
<1>1. QED
  BY InitInv, StepInv, PTL DEF Spec

-----------------------------------------------------------------------------
(* What follows. *)

\* The marks of a step: a favourite's never changes once it is set, a view's only to none.
LEMMA MarkStep ==
  ASSUME IInv, [Next]_vars, NEW d \in Devices, NEW p \in Products
  PROVE  /\ fav[d][p].mark # None => fav'[d][p].mark = fav[d][p].mark
         /\ hist[d][p].mark # None => hist'[d][p].mark \in {None, hist[d][p].mark}
<1>1. /\ d \in Owners /\ fav \in [Owners -> [Products -> FavRow]]
      /\ hist \in [Owners -> [Products -> HistRow]]
      /\ \A o \in Owners, q \in Products : fav[o][q] \in FavRow /\ hist[o][q] \in HistRow
  BY OwnerFacts DEF IInv, Typed
<1>2. ASSUME NEW o \in Owners, NEW q \in Products, AddFavorite(o, q) \/ DeleteFavorite(o, q)
      PROVE  fav'[d][p].mark = fav[d][p].mark /\ hist' = hist
  <2> DEFINE added == Favourited(fav[o][q])
             deleted == [fav[o][q] EXCEPT !.active = FALSE]
  <2>1. added.mark = fav[o][q].mark /\ deleted.mark = fav[o][q].mark
    <3>1. fav[o][q] \in FavRow
      BY <1>1
    <3>2. QED
      BY <3>1 DEF Favourited, FavRow
  <2>2. /\ fav' = [fav EXCEPT ![o][q] = added] \/ fav' = [fav EXCEPT ![o][q] = deleted]
        /\ hist' = hist
    BY <1>2 DEF AddFavorite, DeleteFavorite
  <2> HIDE DEF added, deleted
  <2>3. QED
    BY <1>1, <2>1, <2>2
<1>3. ASSUME NEW o \in Owners, NEW ps, DeleteHistory(o, ps)
      PROVE  hist'[d][p].mark = hist[d][p].mark /\ fav' = fav
  BY <1>1, <1>3 DEF DeleteHistory, HistRow
<1>4. ASSUME NEW w \in Workers, CommitView(w)
      PROVE  hist'[d][p].mark \in {None, hist[d][p].mark} /\ fav' = fav
  <2> DEFINE o == call[w].owner
             q == call[w].product
             row == Viewed(hist[o][q], call[w].seen, call[w].at)
  <2>1. /\ o \in Owners /\ q \in Products /\ call[w].at \in 1..MaxTime
        /\ call[w].seen \in HistRow /\ Proper(call[w].seen)
    BY <1>4 DEF CommitView, IInv, Calls, CallRow, ViewCall
  <2>2. row.mark = None
    BY <1>1, <2>1, ViewedRow
  <2>3. fav' = fav /\ (hist' = hist \/ hist' = [hist EXCEPT ![o][q] = row])
    BY <1>4 DEF CommitView
  <2> HIDE DEF o, q, row
  <2>4. QED
    BY <1>1, <2>1, <2>2, <2>3
<1>5. ASSUME NEW w \in Workers, CommitMerge(w)
      PROVE  /\ fav[d][p].mark # None => fav'[d][p].mark = fav[d][p].mark
             /\ hist[d][p].mark # None => hist'[d][p].mark = hist[d][p].mark
  <2> DEFINE e == call[w].owner
             b == call[w].buyer
             favs == call[w].seen.favs
             hists == call[w].seen.hists
  <2>1. /\ call[w].kind = "merge" /\ e \in Devices /\ b \in Buyers
        /\ \A o \in Owners, q \in Products :
             o # e /\ o # b => fav'[o][q] = fav[o][q] /\ hist'[o][q] = hist[o][q]
        /\ \A q \in Products :
             /\ q \notin DOMAIN favs => fav'[e][q] = fav[e][q]
             /\ q \in DOMAIN favs => fav'[e][q].mark = b
             /\ q \notin DOMAIN hists => hist'[e][q] = hist[e][q]
             /\ q \in DOMAIN hists => hist'[e][q].mark = b
    BY <1>5, MergeWrites
  <2>2. StillHolds(call[w], fav, hist, wanted)
    BY <2>1 DEF IInv, ReadsHold
  <2>3. /\ p \in DOMAIN favs => fav[e][p].mark \in {None, b}
        /\ p \in DOMAIN hists => hist[e][p].mark \in {None, b}
    BY <2>2 DEF StillHolds
  <2>4. d # b
    BY <2>1, OwnerFacts
  <2> HIDE DEF e, b, favs, hists
  <2>5. QED
    BY <1>1, <2>1, <2>3, <2>4
<1>6. CASE UNCHANGED <<fav, hist>>
  BY <1>6
<1>7. QED
  BY <1>2, <1>3, <1>4, <1>5, <1>6 DEF Next, vars, BeginHistoryView, BeginGuestMerge, Begin, Abort, Login

\* Rows of favourites and views keep their types; an active one exists and was not given away.
THEOREM TypeCorrect == Spec => []TypeOK
<1>1. IInv => TypeOK
  BY DEF IInv, Typed, RowsProper, Proper, TypeOK, FavRow, HistRow
<1>2. QED
  BY <1>1, Invariance, PTL

\* Merges that overlap or are repeated, and additions and deletions beside them, lose no favourite
\* nobody has given up, but one that is added while a merge is under way that found it in the
\* account before it was given up there (handleBuyerGuestMerge, handleBuyerFavoriteDelete).
THEOREM FavouriteTheorem == Spec => []NoFavouriteLost
<1>1. IInv => NoFavouriteLost
  BY DEF IInv
<1>2. QED
  BY <1>1, Invariance, PTL

\* What a device gave to one account is not given to another (merge_target_buyer_id).
THEOREM GivenTheorem == Spec => GivenOnce
<1>1. IInv /\ [Next]_vars =>
        \A d \in Devices, p \in Products :
          /\ fav[d][p].mark # None => fav'[d][p].mark = fav[d][p].mark
          /\ hist[d][p].mark # None => hist'[d][p].mark \in {None, hist[d][p].mark}
  BY MarkStep
<1>2. QED
  BY <1>1, Invariance, PTL DEF Spec, GivenOnce

-----------------------------------------------------------------------------
(* How often a view counts. *)

\* Where each of the counted views counts, those counted again by an overtaken call among them:
\* home gives it an owner and a product. Views move only with a merge, so a row, and a row that a
\* call has read and no merge has given away since, never counts more than is at home there.
Places == Owners \X Products

At(home, at) == {v \in DOMAIN home : home[v] = at}

Weight(home, at) == Cardinality(At(home, at))

\* What a merge counts for the account, and the weight that covers it, now or when it is written.
Merged(read) == read.dst.count + read.src.count

Both(home, c, p) == Weight(home, <<c.buyer, p>>) + Weight(home, <<c.owner, p>>)

CallCovered(c, home) ==
  /\ c.kind = "view" /\ c.seen.active => c.seen.count <= Weight(home, <<c.owner, c.product>>)
  /\ c.kind = "merge" =>
       \A p \in DOMAIN c.seen.hists : Merged(c.seen.hists[p]) <= Both(home, c, p)

\* What a view call has read was given away since.
Stale(w) == w \in overtaken /\ call[w].kind = "view"

Covered(home) ==
  /\ home \in [1..(views + doubled) -> Places]
  /\ \A o \in Owners, p \in Products :
       hist[o][p].mark = None => hist[o][p].count <= Weight(home, <<o, p>>)
  /\ \A w \in Workers : Stale(w) \/ CallCovered(call[w], home)

CountsCovered == \E home : Covered(home)

\* The numbers from 1 to n are n numbers.
LEMMA CountTo ==
  ASSUME NEW n \in Nat
  PROVE  IsFiniteSet(1..n) /\ Cardinality(1..n) = n
<1>1. IsFiniteSet(1..n) /\ Cardinality(1..n) = IF 1 > n THEN 0 ELSE n - 1 + 1
  <2>1. 1 \in Int /\ n \in Int
    OBVIOUS
  <2>2. QED
    BY <2>1, FS_Interval, Zenon
<1>2. QED
  BY <1>1

\* Weights are numbers.
LEMMA Weights ==
  ASSUME NEW n \in Nat, NEW T, NEW home \in [1..n -> T], NEW at
  PROVE  IsFiniteSet(At(home, at)) /\ Weight(home, at) \in Nat
<1>1. At(home, at) \in SUBSET (1..n)
  BY DEF At
<1>2. IsFiniteSet(At(home, at))
  BY <1>1, CountTo, FS_Subset
<1>3. QED
  BY <1>2, FS_CardinalityType DEF Weight

\* m views more weigh m more where they are at home.
LEMMA ViewsWeigh ==
  ASSUME NEW n \in Nat, NEW m \in Nat, NEW home \in [1..n -> Places], NEW new \in Places
  PROVE  \E next \in [1..(n + m) -> Places] :
           /\ Weight(next, new) = Weight(home, new) + m
           /\ \A at : at # new => Weight(next, at) = Weight(home, at)
<1> DEFINE more == (n + 1)..(n + m)
           next == [v \in 1..(n + m) |-> IF v \in more THEN new ELSE home[v]]
<1>1. /\ \A v : v \in 1..(n + m) <=> v \in 1..n \/ v \in more
      /\ \A v : ~(v \in 1..n /\ v \in more)
  OBVIOUS
<1>2. IsFiniteSet(more) /\ Cardinality(more) = m
  <2>1. n + 1 \in Int /\ n + m \in Int
    OBVIOUS
  <2>2. IsFiniteSet(more) /\ Cardinality(more) = IF n + 1 > n + m THEN 0 ELSE (n + m) - (n + 1) + 1
    BY <2>1, FS_Interval
  <2>3. QED
    BY <2>2
<1> HIDE DEF more
<1>3. next \in [1..(n + m) -> Places]
  BY <1>1 DEF Places
<1>4. At(next, new) = At(home, new) \cup more
  BY <1>1 DEF At
<1>5. \A at : at # new => At(next, at) = At(home, at)
  BY <1>1 DEF At
<1>6. /\ IsFiniteSet(At(home, new)) /\ Weight(home, new) \in Nat
      /\ At(home, new) \cap more = {}
  <2>1. IsFiniteSet(At(home, new)) /\ Weight(home, new) \in Nat
    BY Weights
  <2>2. QED
    BY <1>1, <2>1 DEF At
<1>7. Cardinality(At(home, new) \cup more) = Cardinality(At(home, new)) + m
  <2>1. Cardinality(At(home, new) \cup more)
          = Cardinality(At(home, new)) + Cardinality(more) - Cardinality({})
    BY <1>2, <1>6, FS_Union
  <2>2. Cardinality({}) = 0
    BY FS_EmptySet
  <2>3. Cardinality(At(home, new)) \in Nat
    BY <1>6 DEF Weight
  <2>4. QED
    BY <1>2, <2>1, <2>2, <2>3
<1>8. /\ Weight(next, new) = Weight(home, new) + m
      /\ \A at : at # new => Weight(next, at) = Weight(home, at)
  BY <1>4, <1>5, <1>7 DEF Weight
<1> HIDE DEF next
<1>9. QED
  BY <1>3, <1>8

\* A merge moves the views of the products Q from the device d to the account b.
Moved(home, next, d, b, Q) ==
  /\ \A p \in Q : /\ Weight(next, <<b, p>>) = Weight(home, <<b, p>>) + Weight(home, <<d, p>>)
                  /\ Weight(next, <<d, p>>) = 0
  /\ \A o, p : (o # d /\ o # b) \/ p \notin Q => Weight(next, <<o, p>>) = Weight(home, <<o, p>>)

\* They can be moved.
LEMMA MergeWeighs ==
  ASSUME NEW n \in Nat, NEW home \in [1..n -> Places],
         NEW d \in Owners, NEW b \in Owners, d # b, NEW Q
  PROVE  \E next \in [1..n -> Places] : Moved(home, next, d, b, Q)
<1> DEFINE next == [v \in 1..n |-> IF home[v][1] = d /\ home[v][2] \in Q
                                  THEN <<b, home[v][2]>> ELSE home[v]]
<1>1. next \in [1..n -> Places]
  BY DEF Places
<1>2. \A v \in 1..n : home[v] = <<home[v][1], home[v][2]>>
  BY DEF Places
<1>3. DOMAIN next = 1..n /\ DOMAIN home = 1..n
  OBVIOUS
<1>4. ASSUME NEW p \in Q
      PROVE  /\ Weight(next, <<b, p>>) = Weight(home, <<b, p>>) + Weight(home, <<d, p>>)
             /\ Weight(next, <<d, p>>) = 0
  <2> DEFINE A == At(home, <<b, p>>)
             B == At(home, <<d, p>>)
  <2>1. At(next, <<b, p>>) = A \cup B
    BY <1>2, <1>3 DEF At
  <2>2. A \cap B = {} /\ At(next, <<d, p>>) = {}
    BY <1>2, <1>3 DEF At
  <2>3. /\ IsFiniteSet(A) /\ IsFiniteSet(B)
        /\ Weight(home, <<b, p>>) \in Nat /\ Weight(home, <<d, p>>) \in Nat
    BY Weights
  <2>4. Weight(home, <<b, p>>) = Cardinality(A) /\ Weight(home, <<d, p>>) = Cardinality(B)
        /\ Weight(next, <<b, p>>) = Cardinality(A \cup B) /\ Weight(next, <<d, p>>) = Cardinality({})
    BY <2>1, <2>2 DEF Weight
  <2> HIDE DEF A, B
  <2>5. Cardinality(A \cup B) = Cardinality(A) + Cardinality(B) - Cardinality({})
    BY <2>2, <2>3, FS_Union
  <2>6. Cardinality({}) = 0
    BY FS_EmptySet
  <2>7. QED
    BY <2>3, <2>4, <2>5, <2>6
<1>5. ASSUME NEW o, NEW p, (o # d /\ o # b) \/ p \notin Q
      PROVE  Weight(next, <<o, p>>) = Weight(home, <<o, p>>)
  <2>1. At(next, <<o, p>>) = At(home, <<o, p>>)
    BY <1>2, <1>3, <1>5 DEF At
  <2>2. QED
    BY <2>1 DEF Weight
<1> HIDE DEF next
<1>6. QED
  BY <1>1, <1>4, <1>5 DEF Moved

\* What a merge counts is a number.
LEMMA MergedCounts ==
  ASSUME NEW read, read.dst \in HistRow, read.src \in HistRow
  PROVE  Merged(read) \in Nat
<1>1. read.dst.count \in Nat /\ read.src.count \in Nat
  BY DEF HistRow
<1>2. QED
  BY <1>1 DEF Merged

\* What has been read is covered as long as its weight stays.
LEMMA CallStays ==
  ASSUME NEW c, NEW home, NEW next, CallRow(c), CallCovered(c, home),
         NEW n \in Nat, NEW m \in Nat,
         home \in [1..n -> Places], next \in [1..m -> Places],
         c.kind = "view" => Weight(home, <<c.owner, c.product>>) <= Weight(next, <<c.owner, c.product>>),
         c.kind = "merge" => \A p \in DOMAIN c.seen.hists : Both(home, c, p) <= Both(next, c, p)
  PROVE  CallCovered(c, next)
<1>1. \A at : Weight(home, at) \in Nat /\ Weight(next, at) \in Nat
  BY Weights
<1>2. ASSUME c.kind = "view", c.seen.active PROVE c.seen.count <= Weight(next, <<c.owner, c.product>>)
  <2>1. c.seen.count \in Nat
    BY <1>2 DEF CallRow, ViewCall, HistRow
  <2>2. QED
    BY <1>1, <1>2, <2>1 DEF CallCovered
<1>3. ASSUME c.kind = "merge", NEW p \in DOMAIN c.seen.hists
      PROVE  Merged(c.seen.hists[p]) <= Both(next, c, p)
  <2>1. Merged(c.seen.hists[p]) \in Nat
    <3>1. c.seen.hists[p].dst \in HistRow /\ c.seen.hists[p].src \in HistRow
      BY <1>3 DEF CallRow, MergeCall
    <3>2. QED
      BY <3>1, MergedCounts
  <2>2. Both(home, c, p) \in Nat /\ Both(next, c, p) \in Nat
    BY <1>1 DEF Both
  <2>3. Merged(c.seen.hists[p]) <= Both(home, c, p) /\ Both(home, c, p) <= Both(next, c, p)
    BY <1>3 DEF CallCovered
  <2>4. QED
    BY <2>1, <2>2, <2>3
<1>4. QED
  BY <1>2, <1>3 DEF CallCovered

\* At the start nothing has been counted.
LEMMA InitCounts == Init => CountsCovered
<1> SUFFICES ASSUME Init PROVE CountsCovered
  OBVIOUS
<1> DEFINE home == [v \in 1..0 |-> None]
<1>1. views + doubled = 0 /\ home \in [1..0 -> Places]
  BY DEF Init
<1>2. \A at : Weight(home, at) \in Nat
  <2>1. 0 \in Nat
    OBVIOUS
  <2> HIDE DEF home
  <2>2. QED
    BY <1>1, <2>1, Weights
<1>3. \A o \in Owners, p \in Products : hist[o][p].count = 0
  BY DEF Init, NoHist
<1>4. \A w \in Workers : call[w].kind = "idle"
  BY DEF Init, NoCall
<1> HIDE DEF home
<1>5. \A o \in Owners, p \in Products : hist[o][p].count <= Weight(home, <<o, p>>)
  BY <1>2, <1>3
<1>6. Covered(home)
  BY <1>1, <1>4, <1>5 DEF Covered, CallCovered
<1>7. QED
  BY <1>6 DEF CountsCovered

\* A call begins with rows that are covered.
LEMMA CallBegins ==
  ASSUME IInv, NEW w \in Workers, NEW home, Covered(home), NEW row,
         call' = [call EXCEPT ![w] = row], UNCHANGED <<hist, counted>>, CallCovered(row, home)
  PROVE  CountsCovered'
<1>1. call'[w] = row /\ \A x \in Workers \ {w} : call'[x] = call[x]
  BY DEF IInv, Calls
<1>2. Covered(home)'
  BY <1>1 DEF Covered, Stale, counted
<1>3. QED
  BY <1>2 DEF CountsCovered

\* A view begins.
LEMMA BeginViewCounts ==
  ASSUME IInv, CountsCovered, NEW w \in Workers, NEW o \in Owners, NEW p \in Products,
         NEW at \in 1..MaxTime, BeginHistoryView(w, o, p, at)
  PROVE  CountsCovered'
<1> DEFINE row == [kind |-> "view", owner |-> o, buyer |-> None, product |-> p, at |-> at,
                   seen |-> Reads("view", o, None, p)]
<1>1. PICK home : Covered(home)
  BY DEF CountsCovered
<1>2. call' = [call EXCEPT ![w] = row] /\ UNCHANGED <<hist, counted>>
  BY DEF BeginHistoryView, Begin
<1>3. row.kind = "view" /\ row.owner = o /\ row.product = p /\ row.seen = hist[o][p]
  BY DEF Reads
<1> HIDE DEF row
<1>4. hist[o][p].active => hist[o][p].mark = None
  BY DEF IInv, RowsProper
<1>5. CallCovered(row, home)
  BY <1>1, <1>3, <1>4 DEF CallCovered, Covered
<1>6. QED
  BY <1>1, <1>2, <1>5, CallBegins

\* A merge begins.
LEMMA BeginMergeCounts ==
  ASSUME IInv, CountsCovered, NEW w \in Workers, NEW d \in Devices, NEW b \in Buyers,
         BeginGuestMerge(w, d, b)
  PROVE  CountsCovered'
<1> DEFINE row == [kind |-> "merge", owner |-> d, buyer |-> b, product |-> None, at |-> 0,
                   seen |-> Reads("merge", d, b, None)]
<1>1. PICK home : Covered(home)
  BY DEF CountsCovered
<1>2. call' = [call EXCEPT ![w] = row] /\ UNCHANGED <<hist, counted>>
  BY DEF BeginGuestMerge, Begin
<1>3. /\ row.kind = "merge" /\ row.owner = d /\ row.buyer = b
      /\ row.seen.hists = [q \in {q \in Products : Takes(hist[d][q])} |->
                             [src |-> hist[d][q], dst |-> hist[b][q]]]
  BY DEF Reads
<1> HIDE DEF row
<1>4. ASSUME NEW q \in DOMAIN row.seen.hists
      PROVE  Merged(row.seen.hists[q]) <= Both(home, row, q)
  <2>1. /\ q \in Products /\ hist[d][q].mark = None
        /\ row.seen.hists[q].src = hist[d][q] /\ row.seen.hists[q].dst = hist[b][q]
    BY <1>3, <1>4 DEF Takes
  <2>2. /\ d \in Owners /\ b \in Owners /\ hist[b][q].mark = None
        /\ hist[d][q] \in HistRow /\ hist[b][q] \in HistRow
    BY <2>1, OwnerFacts DEF IInv, Typed, RowsProper
  <2>3. hist[d][q].count <= Weight(home, <<d, q>>) /\ hist[b][q].count <= Weight(home, <<b, q>>)
    BY <1>1, <2>1, <2>2 DEF Covered
  <2>4. hist[d][q].count \in Nat /\ hist[b][q].count \in Nat
    BY <2>2 DEF HistRow
  <2>5. Weight(home, <<d, q>>) \in Nat /\ Weight(home, <<b, q>>) \in Nat
    <3>1. views + doubled \in Nat /\ home \in [1..(views + doubled) -> Places]
      BY <1>1 DEF Covered, IInv, Typed
    <3>2. QED
      BY <3>1, Weights
  <2>6. QED
    BY <1>3, <2>1, <2>3, <2>4, <2>5 DEF Merged, Both
<1>5. CallCovered(row, home)
  BY <1>3, <1>4 DEF CallCovered
<1>6. QED
  BY <1>1, <1>2, <1>5, CallBegins

\* The end of a call, with the homes the views have then.
LEMMA CallEndsCounts ==
  ASSUME IInv, NEW w \in Workers, call' = [call EXCEPT ![w] = NoCall],
         NEW next, next \in [1..(views' + doubled') -> Places],
         \A o \in Owners, p \in Products :
           hist'[o][p].mark = None => hist'[o][p].count <= Weight(next, <<o, p>>),
         \A x \in Workers \ {w} : \/ x \in overtaken' /\ call[x].kind = "view"
                                  \/ CallCovered(call[x], next)
  PROVE  CountsCovered'
<1>1. call'[w].kind = "idle" /\ \A x \in Workers \ {w} : call'[x] = call[x]
  BY NoCallFacts DEF IInv, Calls
<1>2. \A x \in Workers : Stale(x)' \/ CallCovered(call'[x], next)
  BY <1>1 DEF CallCovered, Stale
<1>3. Covered(next)'
  BY <1>2 DEF Covered
<1>4. QED
  BY <1>3 DEF CountsCovered

\* A view that is counted is at home where it was viewed; a call that was overtaken brings as many
\* views more as it had read.
LEMMA CommitViewCounts ==
  ASSUME IInv, CountsCovered, NEW w \in Workers, CommitView(w)
  PROVE  CountsCovered'
<1> DEFINE o == call[w].owner
           p == call[w].product
           old == call[w].seen
           row == Viewed(hist[o][p], old, call[w].at)
           again == IF w \in overtaken /\ old.active THEN old.count ELSE 0
<1>1. /\ call[w].kind = "view" /\ call' = [call EXCEPT ![w] = NoCall]
      /\ overtaken' = overtaken \ {w}
      /\ \/ UNCHANGED <<hist, views, doubled>>
         \/ /\ hist' = [hist EXCEPT ![o][p] = row]
            /\ views' = views + 1 /\ doubled' = doubled + again
  BY DEF CommitView
<1>2. /\ o \in Owners /\ p \in Products /\ call[w].at \in 1..MaxTime /\ old \in HistRow
  BY <1>1 DEF IInv, Calls, CallRow, ViewCall
<1>3. /\ views \in Nat /\ doubled \in Nat /\ views + doubled \in Nat
      /\ hist \in [Owners -> [Products -> HistRow]] /\ hist[o][p] \in HistRow
      /\ \A x \in Workers : CallRow(call[x])
  BY <1>2 DEF IInv, Typed, Calls
<1>4. PICK home : Covered(home)
  BY DEF CountsCovered
<1>5. /\ home \in [1..(views + doubled) -> Places]
      /\ \A at : Weight(home, at) \in Nat
      /\ old.active => w \in overtaken \/ old.count <= Weight(home, <<o, p>>)
      /\ \A x \in Workers : Stale(x) \/ CallCovered(call[x], home)
  BY <1>1, <1>3, <1>4, Weights DEF Covered, CallCovered, Stale
<1>6. row.count = IF old.exists /\ old.active THEN old.count + 1 ELSE 1
  BY <1>2, <1>3 DEF Viewed, HistRow
<1>7. old.count \in Nat /\ again \in Nat
  BY <1>2 DEF HistRow
<1>8. row.count <= Weight(home, <<o, p>>) + (1 + again)
  <2>1. Weight(home, <<o, p>>) \in Nat
    BY <1>5
  <2> HIDE DEF o, p, old, row
  <2>2. CASE old.exists /\ old.active
    BY <1>5, <1>6, <1>7, <2>1, <2>2
  <2>3. CASE ~(old.exists /\ old.active)
    BY <1>6, <1>7, <2>1, <2>3
  <2>4. QED
    BY <2>2, <2>3
<1> HIDE DEF o, p, old, row, again
<1>9. \A x \in Workers \ {w} : Stale(x) => x \in overtaken' /\ call[x].kind = "view"
  BY <1>1 DEF Stale
<1>10. CASE UNCHANGED <<hist, views, doubled>>
  BY <1>1, <1>4, <1>5, <1>9, <1>10, CallEndsCounts DEF Covered
<1>11. CASE /\ hist' = [hist EXCEPT ![o][p] = row]
            /\ views' = views + 1 /\ doubled' = doubled + again
  <2>1. PICK next \in [1..((views + doubled) + (1 + again)) -> Places] :
          /\ Weight(next, <<o, p>>) = Weight(home, <<o, p>>) + (1 + again)
          /\ \A at : at # <<o, p>> => Weight(next, at) = Weight(home, at)
    <3>1. <<o, p>> \in Places /\ 1 + again \in Nat
      BY <1>2, <1>7 DEF Places
    <3>2. QED
      BY <1>3, <1>5, <3>1, ViewsWeigh
  <2>2. \A at : Weight(home, at) <= Weight(next, at) /\ Weight(next, at) \in Nat
    BY <1>5, <1>7, <2>1
  <2>3. ASSUME NEW e \in Owners, NEW q \in Products, hist'[e][q].mark = None
        PROVE  hist'[e][q].count <= Weight(next, <<e, q>>)
    <3>1. CASE e = o /\ q = p
      <4>1. hist'[e][q] = row
        BY <1>2, <1>3, <1>11, <3>1
      <4>2. QED
        BY <1>8, <2>1, <3>1, <4>1
    <3>2. CASE e # o \/ q # p
      <4>1. hist'[e][q] = hist[e][q] /\ hist[e][q].count \in Nat
        BY <1>3, <1>11, <3>2 DEF HistRow
      <4>2. hist[e][q].count <= Weight(home, <<e, q>>)
        BY <1>4, <2>3, <4>1 DEF Covered
      <4>3. QED
        BY <1>5, <2>2, <4>1, <4>2
    <3>3. QED
      BY <3>1, <3>2
  <2>4. /\ views' + doubled' \in Nat /\ next \in [1..(views' + doubled') -> Places]
    <3>1. views' + doubled' = (views + doubled) + (1 + again)
      BY <1>3, <1>7, <1>11
    <3>2. QED
      BY <1>3, <1>7, <2>1, <3>1
  <2>5. ASSUME NEW x \in Workers \ {w}
        PROVE  (x \in overtaken' /\ call[x].kind = "view") \/ CallCovered(call[x], next)
    <3>1. \A q : Both(home, call[x], q) <= Both(next, call[x], q)
      BY <1>5, <2>2 DEF Both
    <3>2. CASE CallCovered(call[x], home)
      BY <1>3, <1>5, <2>2, <2>4, <3>1, <3>2, CallStays
    <3>3. QED
      BY <1>5, <1>9, <3>2
  <2>6. QED
    BY <1>1, <2>3, <2>4, <2>5, CallEndsCounts
<1>12. QED
  BY <1>1, <1>10, <1>11

\* Steps that change no count, no mark and no call.
LEMMA SameCounts ==
  ASSUME CountsCovered, UNCHANGED <<call, counted>>,
         \A o \in Owners, p \in Products :
           hist'[o][p].mark = hist[o][p].mark /\ hist'[o][p].count = hist[o][p].count
  PROVE  CountsCovered'
<1>1. PICK home : Covered(home)
  BY DEF CountsCovered
<1>2. Covered(home)'
  BY <1>1 DEF Covered, Stale, counted
<1>3. QED
  BY <1>2 DEF CountsCovered

\* Deleting keeps the counts of the rows.
LEMMA DeleteHistoryCounts ==
  ASSUME IInv, CountsCovered, NEW o \in Owners, NEW ps, DeleteHistory(o, ps)
  PROVE  CountsCovered'
<1>1. /\ hist' = [hist EXCEPT ![o] = [p \in Products |->
                   IF p \in ps THEN [hist[o][p] EXCEPT !.active = FALSE] ELSE hist[o][p]]]
      /\ UNCHANGED <<call, counted>>
  BY DEF DeleteHistory
<1>2. hist \in [Owners -> [Products -> HistRow]]
  BY DEF IInv, Typed
<1>3. ASSUME NEW e \in Owners, NEW p \in Products
      PROVE  hist'[e][p].mark = hist[e][p].mark /\ hist'[e][p].count = hist[e][p].count
  <2>1. hist[e][p] \in HistRow
    BY <1>2
  <2>2. hist'[e][p] = hist[e][p] \/ hist'[e][p] = [hist[e][p] EXCEPT !.active = FALSE]
    BY <1>1, <1>2
  <2>3. QED
    BY <2>1, <2>2 DEF HistRow
<1>4. QED
  BY <1>1, <1>3, SameCounts

\* A call that fails changes no row.
LEMMA AbortCounts ==
  ASSUME IInv, CountsCovered, NEW w \in Workers, Abort(w)
  PROVE  CountsCovered'
<1>1. PICK home : Covered(home)
  BY DEF CountsCovered
<1>2. /\ call' = [call EXCEPT ![w] = NoCall] /\ overtaken' = overtaken \ {w}
      /\ UNCHANGED <<hist, views, doubled>>
  BY DEF Abort
<1>3. QED
  BY <1>1, <1>2, CallEndsCounts DEF Covered, Stale

\* What a merge counts for the account was at home there or on the device when it was read; it
\* still is, and now it is at home in the account. The views under way there are overtaken.
LEMMA CommitMergeCounts ==
  ASSUME IInv, CountsCovered, NEW w \in Workers, CommitMerge(w)
  PROVE  CountsCovered'
<1> DEFINE d == call[w].owner
           b == call[w].buyer
           hists == call[w].seen.hists
           Q == DOMAIN hists
<1>1. /\ call[w].kind = "merge" /\ d \in Devices /\ b \in Buyers
      /\ d \in Owners /\ b \in Owners /\ d # b /\ Q \subseteq Products
      /\ \A p \in Q : hists[p].src \in HistRow /\ hists[p].dst \in HistRow
  BY OwnerFacts DEF CommitMerge, IInv, Calls, CallRow, MergeCall
<1>2. /\ views + doubled \in Nat /\ \A o \in Owners, p \in Products : hist[o][p] \in HistRow
      /\ \A x \in Workers : CallRow(call[x])
  BY DEF IInv, Typed, Calls
<1>3. /\ hist' = [o \in Owners |-> [p \in Products |->
                   IF o = d /\ p \in Q THEN Given(hist[d][p], b)
                   ELSE IF o = b /\ p \in Q
                   THEN ReceivedHist(hist[b][p], hists[p].dst, hists[p].src)
                   ELSE hist[o][p]]]
      /\ call' = [call EXCEPT ![w] = NoCall] /\ UNCHANGED <<views, doubled>>
      /\ overtaken' = overtaken \cup {x \in Workers : /\ call[x].kind = "view"
                                                      /\ call[x].owner = d
                                                      /\ call[x].product \in Q}
  BY DEF CommitMerge
<1>4. PICK home : Covered(home)
  BY DEF CountsCovered
<1>5. /\ home \in [1..(views + doubled) -> Places]
      /\ \A at : Weight(home, at) \in Nat
      /\ \A p \in Q : Merged(hists[p]) <= Both(home, call[w], p)
      /\ \A x \in Workers : Stale(x) \/ CallCovered(call[x], home)
  BY <1>1, <1>2, <1>4, Weights DEF Covered, CallCovered, Stale
<1> HIDE DEF d, b, hists, Q
<1>6. PICK next \in [1..(views + doubled) -> Places] : Moved(home, next, d, b, Q)
  <2>1. views + doubled \in Nat /\ home \in [1..(views + doubled) -> Places] /\ d \in Owners /\ b \in Owners /\ d # b
    BY <1>1, <1>2, <1>5
  <2>2. QED
    BY <2>1, MergeWeighs
<1>7. \A at : Weight(next, at) \in Nat
  BY <1>2, <1>6, Weights
<1>8. \A o, p : o # d => Weight(home, <<o, p>>) <= Weight(next, <<o, p>>)
  <2>1. ASSUME NEW o, NEW p, o # d PROVE Weight(home, <<o, p>>) <= Weight(next, <<o, p>>)
    <3>1. CASE o = b /\ p \in Q
      <4>1. Weight(next, <<o, p>>) = Weight(home, <<o, p>>) + Weight(home, <<d, p>>)
        BY <1>6, <3>1 DEF Moved
      <4>2. Weight(home, <<o, p>>) \in Nat /\ Weight(home, <<d, p>>) \in Nat
        BY <1>5
      <4>3. QED
        BY <4>1, <4>2
    <3>2. CASE o # b \/ p \notin Q
      <4>1. Weight(next, <<o, p>>) = Weight(home, <<o, p>>)
        BY <1>6, <2>1, <3>2 DEF Moved
      <4>2. QED
        BY <1>5, <4>1
    <3>3. QED
      BY <3>1, <3>2
  <2>2. QED
    BY <2>1
<1>9. ASSUME NEW p \in Q
      PROVE  hist'[b][p].count <= Weight(next, <<b, p>>) /\ hist'[d][p].mark = b
  <2>1. /\ p \in Products /\ hist[b][p] \in HistRow /\ hist[d][p] \in HistRow
        /\ hists[p].src \in HistRow /\ hists[p].dst \in HistRow
    BY <1>1, <1>2
  <2>2. /\ hist'[b][p] = ReceivedHist(hist[b][p], hists[p].dst, hists[p].src)
        /\ hist'[d][p] = Given(hist[d][p], b)
    BY <1>1, <1>3, <2>1
  <2>3. /\ hists[p].dst.count \in Nat /\ hists[p].src.count \in Nat
        /\ hist'[b][p].count = IF hists[p].dst.exists THEN hists[p].dst.count + hists[p].src.count
                               ELSE hists[p].src.count
    BY <2>1, <2>2 DEF ReceivedHist, MergedCount, HistRow
  <2>4. hist'[b][p].count \in Nat /\ hist'[b][p].count <= Merged(hists[p])
    BY <2>3 DEF Merged
  <2>5. Both(home, call[w], p) = Weight(next, <<b, p>>)
    BY <1>6 DEF Both, Moved, b, d
  <2>6. Merged(hists[p]) \in Nat
    BY <2>1, MergedCounts
  <2>7. hist'[d][p].mark = b
    BY <2>1, <2>2 DEF Given, HistRow
  <2>8. QED
    BY <1>5, <1>7, <2>4, <2>5, <2>6, <2>7
<1>10. ASSUME NEW o \in Owners, NEW p \in Products, hist'[o][p].mark = None
       PROVE  hist'[o][p].count <= Weight(next, <<o, p>>)
  <2>1. CASE p \in Q /\ (o = b \/ o = d)
    BY <1>1, <1>9, <1>10, <2>1, OwnerFacts
  <2>2. CASE ~(p \in Q /\ (o = b \/ o = d))
    <3>1. hist'[o][p] = hist[o][p]
      BY <1>3, <2>2
    <3>2. Weight(next, <<o, p>>) = Weight(home, <<o, p>>)
      BY <1>6, <2>2 DEF Moved
    <3>3. QED
      BY <1>4, <1>10, <3>1, <3>2 DEF Covered
  <2>3. QED
    BY <2>1, <2>2
<1>11. ASSUME NEW x \in Workers \ {w}, ~(x \in overtaken' /\ call[x].kind = "view")
       PROVE  CallCovered(call[x], next)
  <2>1. CallRow(call[x]) /\ CallCovered(call[x], home)
    BY <1>2, <1>3, <1>5, <1>11 DEF Stale
  <2>2. ASSUME call[x].kind = "view"
        PROVE  Weight(home, <<call[x].owner, call[x].product>>)
                 <= Weight(next, <<call[x].owner, call[x].product>>)
    <3>1. call[x].owner # d \/ call[x].product \notin Q
      BY <1>3, <1>11, <2>2
    <3>2. CASE call[x].owner # d
      BY <1>8, <3>2
    <3>3. CASE call[x].product \notin Q
      <4>1. Weight(next, <<call[x].owner, call[x].product>>)
              = Weight(home, <<call[x].owner, call[x].product>>)
        BY <1>6, <3>3 DEF Moved
      <4>2. QED
        BY <1>5, <4>1
    <3>4. QED
      BY <3>1, <3>2, <3>3
  <2>3. ASSUME call[x].kind = "merge", NEW p \in DOMAIN call[x].seen.hists
        PROVE  Both(home, call[x], p) <= Both(next, call[x], p)
    <3>1. call[x].owner \in Devices /\ call[x].buyer \in Buyers
      BY <2>1, <2>3 DEF CallRow, MergeCall
    <3>2. call[x].owner # b /\ call[x].buyer # d
      BY <1>1, <3>1, OwnerFacts
    <3>3. CASE call[x].owner = d
      <4>1. call[x].buyer = b
        BY <1>1, <2>3, <3>3 DEF IInv, OneBuyer, d, b
      <4>2. Both(next, call[x], p) = Weight(next, <<b, p>>) + Weight(next, <<d, p>>)
            /\ Both(home, call[x], p) = Weight(home, <<b, p>>) + Weight(home, <<d, p>>)
        BY <3>3, <4>1 DEF Both
      <4>3. CASE p \in Q
        BY <1>5, <1>6, <1>7, <4>2, <4>3 DEF Moved
      <4>4. CASE p \notin Q
        BY <1>5, <1>6, <1>7, <4>2, <4>4 DEF Moved
      <4>5. QED
        BY <4>3, <4>4
    <3>4. CASE call[x].owner # d
      BY <1>5, <1>7, <1>8, <3>2, <3>4 DEF Both
    <3>5. QED
      BY <3>3, <3>4
  <2>4. QED
    BY <1>2, <1>5, <2>1, <2>2, <2>3, CallStays
<1>12. QED
  BY <1>3, <1>10, <1>11, CallEndsCounts

\* No step counts more than there are views.
LEMMA CountsStep ==
  ASSUME IInv, CountsCovered, [Next]_vars
  PROVE  CountsCovered'
<1>1. CASE UNCHANGED <<hist, call, counted>>
  BY <1>1, SameCounts
<1>2. QED
  BY <1>1, BeginViewCounts, BeginMergeCounts, CommitViewCounts, CommitMergeCounts, AbortCounts,
     DeleteHistoryCounts
     DEF Next, vars, AddFavorite, DeleteFavorite, Login

\* What injects into a finite set is no larger.
LEMMA Injected ==
  ASSUME NEW S, NEW T, IsFiniteSet(T), NEW f \in [S -> T], \A x, y \in S : f[x] = f[y] => x = y
  PROVE  IsFiniteSet(S) /\ Cardinality(S) <= Cardinality(T)
<1>1. f \in Injection(S, T)
  BY DEF Injection, IsInjective
<1>2. QED
  BY <1>1, FS_Injection

\* As many places as a set has elements can be numbered.
LEMMA Numbered ==
  ASSUME NEW S, IsFiniteSet(S)
  PROVE  \E g \in [1..Cardinality(S) -> S] :
           \A i, j \in 1..Cardinality(S) : g[i] = g[j] => i = j
<1>1. PICK g : g \in Bijection(1..Cardinality(S), S)
  BY FS_CardinalityType DEF ExistsBijection
<1>2. QED
  BY <1>1 DEF Bijection, Injection, IsInjective

\* The views that rows count are different views: those at home there.
LEMMA CoveredBounds ==
  ASSUME IInv, CountsCovered
  PROVE  IsFiniteSet(CountedViews) /\ CountedOnce
<1>1. PICK home : Covered(home)
  BY DEF CountsCovered
<1>2. views + doubled \in Nat /\ home \in [1..(views + doubled) -> Places]
  BY <1>1 DEF Covered, IInv, Typed
<1>3. \A at : IsFiniteSet(At(home, at)) /\ Weight(home, at) \in Nat
  BY <1>2, Weights
<1> DEFINE Numbers(at, g) == /\ g \in [1..Weight(home, at) -> At(home, at)]
                             /\ \A i, j \in 1..Weight(home, at) : g[i] = g[j] => i = j
           G == [at \in Places |-> CHOOSE g : Numbers(at, g)]
           f == [c \in CountedViews |-> G[c[1]][c[2]]]
<1>4. \A at \in Places : Numbers(at, G[at])
  <2>1. \A at : \E g : Numbers(at, g)
    BY <1>3, Numbered DEF Weight
  <2> HIDE DEF Numbers
  <2>2. QED
    BY <2>1
<1>5. ASSUME NEW c \in CountedViews
      PROVE  c = <<c[1], c[2]>> /\ c[1] \in Places /\ c[2] \in 1..Weight(home, c[1])
  <2>1. PICK o \in Owners, p \in Products : c \in Counted(o, p)
    BY DEF CountedViews
  <2>2. /\ c = <<c[1], c[2]>> /\ c[1] = <<o, p>>
        /\ c[2] \in 1..(IF hist[o][p].mark = None THEN hist[o][p].count ELSE 0)
    BY <2>1 DEF Counted
  <2>3. hist[o][p].mark = None /\ c[2] \in 1..hist[o][p].count
    BY <2>2
  <2>4. hist[o][p].count <= Weight(home, <<o, p>>) /\ hist[o][p].count \in Nat
    BY <1>1, <2>3 DEF Covered, IInv, Typed, HistRow
  <2>5. c[2] \in 1..Weight(home, <<o, p>>)
    BY <1>3, <2>3, <2>4
  <2>6. QED
    BY <2>2, <2>5 DEF Places
<1>6. ASSUME NEW c \in CountedViews
      PROVE  f[c] = G[c[1]][c[2]] /\ f[c] \in 1..(views + doubled) /\ home[f[c]] = c[1]
  <2>1. f[c] = G[c[1]][c[2]]
    OBVIOUS
  <2>2. G[c[1]][c[2]] \in At(home, c[1])
    <3> HIDE DEF G
    <3>1. QED
      BY <1>4, <1>5
  <2> HIDE DEF G, f
  <2>3. QED
    BY <1>2, <2>1, <2>2 DEF At
<1> HIDE DEF G
<1>7. ASSUME NEW c \in CountedViews, NEW e \in CountedViews, f[c] = f[e] PROVE c = e
  <2> HIDE DEF f
  <2>1. c[1] = e[1]
    BY <1>6, <1>7
  <2>2. G[c[1]][c[2]] = G[c[1]][e[2]]
    BY <1>6, <1>7, <2>1
  <2>3. c[2] = e[2]
    BY <1>4, <1>5, <2>1, <2>2
  <2>4. QED
    BY <1>5, <2>1, <2>3
<1>8. f \in [CountedViews -> 1..(views + doubled)]
  BY <1>6
<1> HIDE DEF f
<1>9. IsFiniteSet(CountedViews) /\ Cardinality(CountedViews) <= Cardinality(1..(views + doubled))
  BY <1>2, <1>7, <1>8, CountTo, Injected
<1>10. QED
  BY <1>2, <1>9, CountTo DEF CountedOnce

\* Merges that overlap or are repeated, beside views and deletions, count no view twice but those
\* that a view under way had read when a merge gave its row away (handleBuyerGuestMerge,
\* handleBuyerHistoryView).
THEOREM CountTheorem == Spec => [](IsFiniteSet(CountedViews) /\ CountedOnce)
<1>1. Spec => [](IInv /\ CountsCovered)
  BY InitInv, StepInv, InitCounts, CountsStep, PTL DEF Spec
<1>2. IInv /\ CountsCovered => IsFiniteSet(CountedViews) /\ CountedOnce
  BY CoveredBounds
<1>3. QED
  BY <1>1, <1>2, PTL

=============================================================================
