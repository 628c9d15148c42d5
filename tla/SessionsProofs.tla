--------------------------- MODULE SessionsProofs ---------------------------
(***************************************************************************)
(* What sessions and passwords promise, for any number of accounts,        *)
(* sessions, overlapping requests and replacements.                        *)
(***************************************************************************)
EXTENDS Sessions, TLAPS

AccountRow == [hash : 0..MaxHash, active : BOOLEAN, mustChange : BOOLEAN]

SessionRow == [owner : Accounts \cup {None}, token : 0..MaxTime, expires : 0..(MaxTime + TTL),
               revoked : BOOLEAN, proved : 0..MaxHash]

CallRow == [kind : Kinds \cup {"idle"}, step : Steps \cup {""}, account : Accounts \cup {None},
            session : Sessions \cup {None}, hash : 0..MaxHash, token : 0..MaxTime]

\* A request beyond its first step knows its account, and its session where it has one.
KnownRow(row) ==
  /\ row.step # "" => row.account \in Accounts
  /\ row.step \in {"session", "guarded", "created"} => row.session \in Sessions

\* What an admin's request has verified is still the password.
CurrentRow(row, rows) ==
  row.step = "verified" /\ row.account \in Admins => row.hash = rows[row.account].hash

Holds(w, a) == a \in Admins /\ call[w].step = "verified" /\ call[w].account = a

Tables == account \in [Accounts -> AccountRow] /\ session \in [Sessions -> SessionRow]

Calls == call \in [Workers -> CallRow] /\ \A w \in Workers : KnownRow(call[w])

Locks ==
  /\ lock \in [Accounts -> Workers \cup {None}]
  /\ \A a \in Accounts, w \in Workers : lock[a] = w <=> Holds(w, a)

VerifiedIsCurrent == \A w \in Workers : CurrentRow(call[w], account)

\* An admin's session that nobody revoked was opened with the password of now.
AdminsProve ==
  \A s \in Sessions : session[s].owner \in Admins /\ ~session[s].revoked => ProvesPassword(s)

IInv == Tables /\ Calls /\ Locks /\ VerifiedIsCurrent /\ AdminsProve /\ clock \in 1..MaxTime

-----------------------------------------------------------------------------
(* Rows. *)

\* What the types of the rows say of a request.
LEMMA CallFacts ==
  ASSUME IInv, NEW w \in Workers
  PROVE  /\ call[w] \in CallRow /\ KnownRow(call[w]) /\ CurrentRow(call[w], account)
         /\ call[w].token \in 0..MaxTime /\ call[w].hash \in 0..MaxHash
         /\ call[w].account \in Accounts \cup {None} /\ call[w].session \in Sessions \cup {None}
BY DEF IInv, Calls, VerifiedIsCurrent, CallRow

\* A worker that is done holds nothing and knows nothing.
LEMMA IdleFacts ==
  /\ Idle \in CallRow /\ Idle.step = "" /\ KnownRow(Idle) /\ \A rows : CurrentRow(Idle, rows)
BY SessionsAssumption DEF Idle, CallRow, KnownRow, CurrentRow

\* One request moves on while no password changes.
LEMMA CallMoves ==
  ASSUME IInv, NEW w \in Workers, NEW row \in CallRow, call' = [call EXCEPT ![w] = row],
         KnownRow(row), CurrentRow(row, account'),
         \A p \in Workers \ {w} : CurrentRow(call[p], account')
  PROVE  /\ Calls' /\ VerifiedIsCurrent'
         /\ call'[w] = row /\ \A p \in Workers \ {w} : call'[p] = call[p]
<1>1. call'[w] = row /\ \A p \in Workers \ {w} : call'[p] = call[p]
  BY DEF IInv, Calls
<1>2. Calls'
  <2>1. call' \in [Workers -> CallRow]
    BY DEF IInv, Calls
  <2>2. ASSUME NEW p \in Workers PROVE KnownRow(call'[p])
    BY <1>1 DEF IInv, Calls
  <2>3. QED
    BY <2>1, <2>2 DEF Calls, KnownRow
<1>3. ASSUME NEW p \in Workers PROVE CurrentRow(call'[p], account')
  BY <1>1
<1>4. QED
  BY <1>1, <1>2, <1>3 DEF VerifiedIsCurrent

\* The verified passwords of the others stay current where no account changes.
LEMMA OthersCurrent ==
  ASSUME IInv, NEW w \in Workers, NEW row, UNCHANGED account,
         call' = [call EXCEPT ![w] = row]
  PROVE  \A p \in Workers \ {w} : CurrentRow(call[p], account')
BY DEF IInv, Calls, VerifiedIsCurrent, CurrentRow

\* A transaction that ends frees its row.
LEMMA FreeLocks ==
  ASSUME IInv, NEW w \in Workers, Finish(w), Free(w)
  PROVE  Locks'
<1>1. /\ call'[w] = Idle /\ \A p \in Workers \ {w} : call'[p] = call[p]
      /\ Idle.step = ""
  BY IdleFacts DEF IInv, Calls, Finish
<1>2. /\ lock' \in [Accounts -> Workers \cup {None}]
      /\ \A a \in Accounts : lock'[a] = IF lock[a] = w THEN None ELSE lock[a]
  BY DEF IInv, Locks, Free
<1>3. ASSUME NEW a \in Accounts, NEW p \in Workers PROVE lock'[a] = p <=> Holds(p, a)'
  <2>1. CASE p = w
    BY <1>1, <1>2, <2>1, SessionsAssumption DEF Holds
  <2>2. CASE p # w
    <3>1. (Holds(p, a)' <=> Holds(p, a)) /\ (lock[a] = p <=> Holds(p, a))
      BY <1>1, <2>2 DEF IInv, Locks, Holds
    <3>2. QED
      BY <1>2, <2>2, <3>1, SessionsAssumption
  <2>3. QED
    BY <2>1, <2>2
<1>4. QED
  BY <1>2, <1>3 DEF Locks

\* A request that neither holds a row nor comes to need one leaves the locks alone.
LEMMA SameLocks ==
  ASSUME IInv, NEW w \in Workers, UNCHANGED lock,
         \A p \in Workers \ {w} : call'[p] = call[p],
         ~(call[w].step = "verified" /\ call[w].account \in Admins),
         ~(call'[w].step = "verified" /\ call'[w].account \in Admins)
  PROVE  Locks'
<1>1. ASSUME NEW a \in Accounts, NEW p \in Workers PROVE Holds(p, a)' <=> Holds(p, a)
  BY DEF Holds
<1>2. QED
  BY <1>1 DEF IInv, Locks

\* A row that is locked was free.
LEMMA HoldLocks ==
  ASSUME IInv, NEW w \in Workers, NEW a \in Admins, Hold(w, a),
         \A p \in Workers \ {w} : call'[p] = call[p],
         call[w].step # "verified", call'[w].step = "verified", call'[w].account = a
  PROVE  Locks'
<1>1. /\ a \in Accounts /\ lock[a] = None
      /\ lock' \in [Accounts -> Workers \cup {None}]
      /\ lock'[a] = w /\ \A b \in Accounts \ {a} : lock'[b] = lock[b]
  BY DEF IInv, Locks, Hold, Accounts
<1>2. ASSUME NEW b \in Accounts, NEW p \in Workers PROVE lock'[b] = p <=> Holds(p, b)'
  <2>1. CASE p = w
    BY <1>1, <2>1, SessionsAssumption DEF IInv, Locks, Holds
  <2>2. CASE p # w
    <3>1. Holds(p, b)' <=> Holds(p, b)
      BY <2>2 DEF Holds
    <3>2. b = a => lock[b] # p
      BY <1>1, SessionsAssumption
    <3>3. QED
      BY <1>1, <2>2, <3>1, <3>2 DEF IInv, Locks
  <2>3. QED
    BY <2>1, <2>2
<1>3. QED
  BY <1>1, <1>2 DEF Locks

\* Revoking sessions leaves their owners and the passwords they proved.
LEMMA RevokeFacts ==
  ASSUME IInv, NEW rows, Revoke(rows)
  PROVE  /\ session' \in [Sessions -> SessionRow]
         /\ \A s \in Sessions : /\ session'[s].owner = session[s].owner
                                /\ session'[s].proved = session[s].proved
                                /\ session[s].revoked => session'[s].revoked
                                /\ s \in rows => session'[s].revoked
<1>1. session \in [Sessions -> SessionRow]
  BY DEF IInv, Tables
<1>2. ASSUME NEW s \in Sessions
      PROVE  /\ session'[s] \in SessionRow
             /\ session'[s].owner = session[s].owner /\ session'[s].proved = session[s].proved
             /\ session[s].revoked => session'[s].revoked
             /\ s \in rows => session'[s].revoked
  BY <1>1 DEF Revoke, SessionRow
<1>3. session' = [s \in Sessions |-> session'[s]]
  BY DEF Revoke
<1>4. QED
  BY <1>2, <1>3

\* Writing a token leaves everything else of the row.
LEMMA WriteTokenFacts ==
  ASSUME IInv, NEW w \in Workers, WriteToken(w), call[w].session \in Sessions
  PROVE  /\ session' \in [Sessions -> SessionRow]
         /\ \A s \in Sessions : /\ session'[s].owner = session[s].owner
                                /\ session'[s].proved = session[s].proved
                                /\ session'[s].revoked = session[s].revoked
<1> DEFINE c == call[w].session
           row == [session[c] EXCEPT !.token = call[w].token, !.expires = call[w].token + TTL]
<1>1. session \in [Sessions -> SessionRow] /\ call[w].token \in 0..MaxTime
  BY CallFacts DEF IInv, Tables
<1>2. call[w].token + TTL \in 0..(MaxTime + TTL)
  BY <1>1, SessionsAssumption
<1>3. /\ row \in SessionRow /\ row.owner = session[c].owner /\ row.proved = session[c].proved
      /\ row.revoked = session[c].revoked
  BY <1>1, <1>2 DEF SessionRow
<1>4. session' = [session EXCEPT ![c] = row]
  BY DEF WriteToken
<1> HIDE DEF row
<1>5. QED
  BY <1>1, <1>3, <1>4

\* A new row takes the place of none.
LEMMA NewSessionFacts ==
  ASSUME IInv, NEW w \in Workers, NEW s \in Sessions, NEW token \in 0..MaxTime,
         NewSession(w, s, token)
  PROVE  /\ session' \in [Sessions -> SessionRow] /\ session[s] = NoSession
         /\ session'[s].owner = call[w].account /\ session'[s].proved = call[w].hash
         /\ \A t \in Sessions \ {s} : session'[t] = session[t]
<1> DEFINE row == [owner |-> call[w].account, token |-> token, expires |-> clock + TTL,
                   revoked |-> FALSE, proved |-> call[w].hash]
<1>1. session \in [Sessions -> SessionRow] /\ clock + TTL \in 0..(MaxTime + TTL)
  BY SessionsAssumption DEF IInv, Tables
<1>2. row \in SessionRow /\ row.owner = call[w].account /\ row.proved = call[w].hash
  BY <1>1, CallFacts DEF SessionRow
<1>3. session' = [session EXCEPT ![s] = row] /\ session[s] = NoSession
  BY DEF NewSession
<1> HIDE DEF row
<1>4. QED
  BY <1>1, <1>2, <1>3
-----------------------------------------------------------------------------
(* The actions. *)

\* Nobody has asked for anything.
LEMMA InitInv == Init => IInv
<1> SUFFICES ASSUME Init PROVE IInv
  OBVIOUS
<1>1. account \in [Accounts -> AccountRow] /\ session \in [Sessions -> SessionRow]
  <2>1. NoSession \in SessionRow
    BY SessionsAssumption DEF NoSession, SessionRow
  <2>2. ASSUME NEW row \in [hash : {0}, active : {TRUE}, mustChange : BOOLEAN]
        PROVE  row \in AccountRow
    <3>1. 0 \in 0..MaxHash
      BY SessionsAssumption
    <3>2. QED
      BY <3>1 DEF AccountRow
  <2>3. QED
    BY <2>1, <2>2 DEF Init
<1>2. \A w \in Workers : call[w] = Idle
  BY DEF Init
<1>3. Calls /\ VerifiedIsCurrent
  BY <1>2, IdleFacts DEF Init, Calls, VerifiedIsCurrent
<1>4. Locks
  BY <1>2, IdleFacts, SessionsAssumption DEF Init, Locks, Holds
<1>5. AdminsProve
  BY SessionsAssumption DEF Init, AdminsProve, NoSession
<1>6. clock \in 1..MaxTime
  BY SessionsAssumption DEF Init
<1>7. QED
  BY <1>1, <1>3, <1>4, <1>5, <1>6 DEF IInv, Tables

\* A request that ends, and with it its transaction, while the tables stay or change for others.
LEMMA Ends ==
  ASSUME IInv, NEW w \in Workers, Finish(w), Free(w), UNCHANGED account
  PROVE  Calls' /\ VerifiedIsCurrent' /\ Locks'
BY IdleFacts, OthersCurrent, CallMoves, FreeLocks DEF Finish

\* The same for one that holds no row.
LEMMA EndsUnlocked ==
  ASSUME IInv, NEW w \in Workers, Finish(w), UNCHANGED <<account, lock>>,
         call[w].step # "verified"
  PROVE  Calls' /\ VerifiedIsCurrent' /\ Locks'
<1>1. /\ Calls' /\ VerifiedIsCurrent' /\ call'[w] = Idle
      /\ \A p \in Workers \ {w} : call'[p] = call[p]
  BY IdleFacts, OthersCurrent, CallMoves DEF Finish
<1>2. call'[w].step # "verified"
  BY <1>1, IdleFacts
<1>3. Locks'
  BY <1>1, <1>2, SameLocks
<1>4. QED
  BY <1>1, <1>3

\* Seconds pass.
LEMMA TickInv == ASSUME IInv, Tick PROVE IInv'
<1>1. clock' \in 1..MaxTime
  BY SessionsAssumption DEF IInv, Tick
<1>2. QED
  BY <1>1 DEF IInv, Tick, Tables, Calls, Locks, Holds, VerifiedIsCurrent, CurrentRow, AdminsProve,
     ProvesPassword

\* The credentials are verified, of an admin with the row held.
LEMMA VerifyInv ==
  ASSUME IInv, NEW w \in Workers, NEW a \in Accounts,
         \/ AdminVerify(w, a) /\ a \in Admins
         \/ MerchantVerify(w, a) /\ a \in Merchants
  PROVE  IInv'
<1> DEFINE row == [Idle EXCEPT !.kind = "login", !.step = "verified",
                               !.account = a, !.hash = account[a].hash]
<1>1. /\ call[w] = Idle /\ call' = [call EXCEPT ![w] = row] /\ UNCHANGED <<account, session, clock>>
  BY DEF AdminVerify, MerchantVerify, Verify
<1>2. account[a].hash \in 0..MaxHash
  BY DEF IInv, Tables, AccountRow
<1>3. /\ row \in CallRow /\ row.step = "verified" /\ row.account = a /\ row.hash = account[a].hash
  BY <1>2, IdleFacts DEF Idle, CallRow, Kinds, Steps
<1> HIDE DEF row
<1>4. KnownRow(row) /\ CurrentRow(row, account')
  BY <1>1, <1>3 DEF KnownRow, CurrentRow
<1>5. /\ Calls' /\ VerifiedIsCurrent' /\ call'[w] = row
      /\ \A p \in Workers \ {w} : call'[p] = call[p]
  BY <1>1, <1>3, <1>4, OthersCurrent, CallMoves
<1>6. call[w].step # "verified"
  BY <1>1, IdleFacts
<1>7. Locks'
  <2>1. CASE AdminVerify(w, a) /\ a \in Admins
    <3>1. a \in Admins /\ Hold(w, a)
      BY <2>1 DEF AdminVerify
    <3>2. QED
      BY <1>3, <1>5, <1>6, <3>1, HoldLocks
  <2>2. CASE MerchantVerify(w, a) /\ a \in Merchants
    <3>1. a \notin Admins /\ UNCHANGED lock
      BY <2>2, SessionsAssumption DEF MerchantVerify
    <3>2. QED
      BY <1>3, <1>5, <1>6, <3>1, SameLocks
  <2>3. QED
    BY <2>1, <2>2
<1>8. Tables' /\ AdminsProve' /\ clock' \in 1..MaxTime
  BY <1>1 DEF IInv, Tables, AdminsProve, ProvesPassword
<1>9. QED
  BY <1>5, <1>7, <1>8 DEF IInv

\* An admin's session is opened with the password the account has, because the row is held.
LEMMA AdminLoginInv ==
  ASSUME IInv, NEW w \in Workers, NEW s \in Sessions, AdminLogin(w, s)
  PROVE  IInv'
<1>1. /\ call[w].step = "verified" /\ call[w].account \in Admins /\ NewSession(w, s, clock)
      /\ Finish(w) /\ Free(w) /\ UNCHANGED <<account, clock>> /\ clock \in 0..MaxTime
  BY DEF AdminLogin, At, IInv
<1>2. Calls' /\ VerifiedIsCurrent' /\ Locks'
  BY <1>1, Ends
<1>3. /\ session' \in [Sessions -> SessionRow]
      /\ session'[s].owner = call[w].account /\ session'[s].proved = call[w].hash
      /\ \A t \in Sessions \ {s} : session'[t] = session[t]
  BY <1>1, NewSessionFacts
<1>4. AdminsProve'
  BY <1>1, <1>3 DEF IInv, AdminsProve, ProvesPassword, VerifiedIsCurrent, CurrentRow
<1>5. QED
  BY <1>1, <1>2, <1>3, <1>4 DEF IInv, Tables

\* A merchant's is inserted without its token, in no transaction.
LEMMA MerchantLoginInv ==
  ASSUME IInv, NEW w \in Workers, NEW s \in Sessions, MerchantLogin(w, s)
  PROVE  IInv'
<1> DEFINE row == [call[w] EXCEPT !.step = "created", !.session = s, !.token = clock]
<1>0. clock \in 0..MaxTime /\ 0 \in 0..MaxTime
  BY SessionsAssumption DEF IInv
<1>1. /\ call[w].account \in Merchants /\ NewSession(w, s, 0)
      /\ call' = [call EXCEPT ![w] = row]
      /\ UNCHANGED <<account, lock, clock>>
  BY DEF MerchantLogin, At
<1>2. row \in CallRow /\ row.step = "created" /\ row.session = s /\ row.account = call[w].account
  BY <1>0, <1>1, CallFacts DEF CallRow, Steps
<1> HIDE DEF row
<1>3. KnownRow(row) /\ CurrentRow(row, account') /\ call[w].account \notin Admins
  BY <1>1, <1>2, SessionsAssumption DEF KnownRow, CurrentRow, Accounts
<1>4. /\ Calls' /\ VerifiedIsCurrent' /\ call'[w] = row
      /\ \A p \in Workers \ {w} : call'[p] = call[p]
  BY <1>1, <1>2, <1>3, OthersCurrent, CallMoves
<1>5. Locks'
  BY <1>1, <1>2, <1>3, <1>4, SameLocks
<1>6. /\ session' \in [Sessions -> SessionRow] /\ session'[s].owner = call[w].account
      /\ \A t \in Sessions \ {s} : session'[t] = session[t]
  BY <1>0, <1>1, NewSessionFacts
<1>7. AdminsProve'
  BY <1>1, <1>3, <1>6 DEF IInv, AdminsProve, ProvesPassword
<1>8. QED
  BY <1>1, <1>4, <1>5, <1>6, <1>7 DEF IInv, Tables

\* A token is written, of a login or a refresh.
LEMMA WriteTokenInv ==
  ASSUME IInv, NEW w \in Workers, IssueToken(w) \/ Refresh(w)
  PROVE  IInv'
<1>1. /\ call[w].step \in {"created", "guarded"} /\ WriteToken(w) /\ Finish(w)
      /\ UNCHANGED <<account, lock, clock>>
  BY DEF IssueToken, Refresh, At
<1>2. call[w].session \in Sessions
  BY <1>1 DEF IInv, Calls, KnownRow
<1>3. /\ session' \in [Sessions -> SessionRow]
      /\ \A s \in Sessions : /\ session'[s].owner = session[s].owner
                             /\ session'[s].proved = session[s].proved
                             /\ session'[s].revoked = session[s].revoked
  BY <1>1, <1>2, WriteTokenFacts
<1>4. Calls' /\ VerifiedIsCurrent' /\ Locks'
  BY <1>1, EndsUnlocked
<1>5. AdminsProve'
  BY <1>1, <1>3 DEF IInv, AdminsProve, ProvesPassword
<1>6. QED
  BY <1>1, <1>3, <1>4, <1>5 DEF IInv, Tables

\* The two looks of the guard.
LEMMA GuardInv ==
  ASSUME IInv, NEW w \in Workers, Guard(w)
  PROVE  IInv'
<1>1. CASE \E s \in Sessions, kind \in Kinds \ {"login"} : LoadSession(w, s, kind)
  <2>1. PICK s \in Sessions, kind \in Kinds \ {"login"} : LoadSession(w, s, kind)
    BY <1>1
  <2> DEFINE row == [Idle EXCEPT !.kind = kind, !.step = "session", !.session = s,
                                 !.account = session[s].owner]
  <2>2. /\ call[w] = Idle /\ call' = [call EXCEPT ![w] = row]
        /\ UNCHANGED <<account, session, lock, clock>> /\ session[s].owner # None
    BY <2>1 DEF LoadSession, Live, Unrevoked
  <2>3. session[s].owner \in Accounts
    BY <2>2 DEF IInv, Tables, SessionRow
  <2>4. /\ row \in CallRow /\ row.step = "session" /\ row.session = s
        /\ row.account \in Accounts
    BY <2>3, IdleFacts DEF CallRow, Steps, Idle
  <2> HIDE DEF row
  <2>5. KnownRow(row) /\ CurrentRow(row, account')
    BY <2>4 DEF KnownRow, CurrentRow
  <2>6. /\ Calls' /\ VerifiedIsCurrent' /\ call'[w] = row
        /\ \A p \in Workers \ {w} : call'[p] = call[p]
    BY <2>2, <2>4, <2>5, OthersCurrent, CallMoves
  <2>7. Locks'
    BY <2>2, <2>4, <2>6, IdleFacts, SameLocks
  <2>8. QED
    BY <2>2, <2>6, <2>7 DEF IInv, Tables, AdminsProve, ProvesPassword
<1>2. CASE LoadAccount(w)
  <2> DEFINE token == IF call[w].kind = "refresh" THEN clock ELSE 0
             row == [call[w] EXCEPT !.step = "guarded", !.token = token]
  <2>1. /\ call[w].step = "session" /\ call' = [call EXCEPT ![w] = row]
        /\ UNCHANGED <<account, session, lock, clock>>
    BY <1>2 DEF LoadAccount
  <2>0. token \in 0..MaxTime
    BY SessionsAssumption DEF IInv
  <2> HIDE DEF token
  <2>2. /\ row \in CallRow /\ row.step = "guarded" /\ row.session = call[w].session
        /\ row.account = call[w].account
    BY <2>0, CallFacts DEF CallRow, Steps
  <2> HIDE DEF row
  <2>3. KnownRow(row) /\ CurrentRow(row, account')
    BY <2>1, <2>2, CallFacts DEF KnownRow, CurrentRow
  <2>4. /\ Calls' /\ VerifiedIsCurrent' /\ call'[w] = row
        /\ \A p \in Workers \ {w} : call'[p] = call[p]
    BY <2>1, <2>2, <2>3, OthersCurrent, CallMoves
  <2>5. Locks'
    BY <2>1, <2>2, <2>4, SameLocks
  <2>6. QED
    BY <2>1, <2>4, <2>5 DEF IInv, Tables, AdminsProve, ProvesPassword
<1>3. QED
  BY <1>1, <1>2 DEF Guard

\* The session itself ends.
LEMMA LogoutInv ==
  ASSUME IInv, NEW w \in Workers, Logout(w)
  PROVE  IInv'
<1>1. /\ call[w].step # "verified" /\ Revoke({call[w].session}) /\ Finish(w)
      /\ UNCHANGED <<account, lock, clock>>
  BY DEF Logout, At
<1>2. Calls' /\ VerifiedIsCurrent' /\ Locks'
  BY <1>1, EndsUnlocked
<1>3. Tables' /\ AdminsProve'
  BY <1>1, RevokeFacts DEF IInv, Tables, AdminsProve, ProvesPassword
<1>4. QED
  BY <1>1, <1>2, <1>3 DEF IInv

\* The old password is proved, of an admin with the row held.
LEMMA ProveInv ==
  ASSUME IInv, NEW w \in Workers, AdminProvePassword(w) \/ MerchantProvePassword(w)
  PROVE  IInv'
<1> DEFINE a == call[w].account
           row == [call[w] EXCEPT !.step = "verified", !.hash = account[a].hash]
<1>1. /\ call[w].step = "guarded" /\ call' = [call EXCEPT ![w] = row]
      /\ UNCHANGED <<account, session, clock>> /\ a \in Accounts
  BY DEF AdminProvePassword, MerchantProvePassword, ProveOldPassword, At, Accounts
<1>2. account[a].hash \in 0..MaxHash
  BY <1>1 DEF IInv, Tables, AccountRow
<1>3. row \in CallRow /\ row.step = "verified" /\ row.account = a /\ row.hash = account[a].hash
  BY <1>2, CallFacts DEF CallRow, Steps
<1> HIDE DEF row
<1>4. KnownRow(row) /\ CurrentRow(row, account')
  BY <1>1, <1>3 DEF KnownRow, CurrentRow
<1>5. /\ Calls' /\ VerifiedIsCurrent' /\ call'[w] = row
      /\ \A p \in Workers \ {w} : call'[p] = call[p]
  BY <1>1, <1>3, <1>4, OthersCurrent, CallMoves
<1>6. Locks'
  <2>1. CASE AdminProvePassword(w)
    <3>1. a \in Admins /\ Hold(w, a)
      BY <2>1 DEF AdminProvePassword
    <3>2. QED
      BY <1>1, <1>3, <1>5, <3>1, HoldLocks
  <2>2. CASE MerchantProvePassword(w)
    <3>1. a \notin Admins /\ UNCHANGED lock
      BY <2>2, SessionsAssumption DEF MerchantProvePassword
    <3>2. QED
      BY <1>1, <1>3, <1>5, <3>1, SameLocks
  <2>3. QED
    BY <2>1, <2>2
<1>7. QED
  BY <1>1, <1>5, <1>6 DEF IInv, Tables, AdminsProve, ProvesPassword

\* An admin's password changes while the row is held, so nobody else has verified the old one.
LEMMA ChangePasswordInv ==
  ASSUME IInv, NEW w \in Workers, ChangePassword(w)
  PROVE  IInv'
<1> DEFINE a == call[w].account
           row == [account[a] EXCEPT !.hash = @ + 1, !.mustChange = FALSE]
<1>1. /\ call[w].step = "verified" /\ account[a].hash < MaxHash
      /\ account' = [account EXCEPT ![a] = row]
      /\ Revoke(SessionsOf(a)) /\ Finish(w) /\ Free(w) /\ UNCHANGED clock
  BY DEF ChangePassword, At, EndSessions
<1>2. a \in Accounts /\ account[a] \in AccountRow
  BY <1>1, CallFacts DEF KnownRow, IInv, Tables
<1>3. row \in AccountRow
  <2>1. account[a].hash \in 0..MaxHash
    BY <1>2 DEF AccountRow
  <2>2. account[a].hash + 1 \in 0..MaxHash
    BY <1>1, <2>1, SessionsAssumption
  <2>3. QED
    BY <1>2, <2>2 DEF AccountRow
<1> HIDE DEF row
<1>4. /\ account' \in [Accounts -> AccountRow]
      /\ \A b \in Accounts \ {a} : account'[b] = account[b]
  BY <1>1, <1>2, <1>3 DEF IInv, Tables
<1>5. ASSUME NEW p \in Workers \ {w} PROVE CurrentRow(call[p], account')
  <2> SUFFICES ASSUME call[p].step = "verified", call[p].account \in Admins
               PROVE  call[p].hash = account'[call[p].account].hash
    BY DEF CurrentRow
  <2>1. call[p].account # a
    BY <1>1, <1>2 DEF IInv, Locks, Holds
  <2>2. QED
    BY <1>4, <2>1 DEF IInv, VerifiedIsCurrent, CurrentRow, Accounts
<1>6. Calls' /\ VerifiedIsCurrent'
  BY <1>1, <1>5, IdleFacts, CallMoves DEF Finish
<1>7. Locks'
  BY <1>1, FreeLocks
<1>8. /\ session' \in [Sessions -> SessionRow]
      /\ \A s \in Sessions : /\ session'[s].owner = session[s].owner
                             /\ session'[s].proved = session[s].proved
                             /\ session[s].revoked => session'[s].revoked
                             /\ session[s].owner = a => session'[s].revoked
  BY <1>1, RevokeFacts DEF SessionsOf
<1>9. AdminsProve'
  BY <1>4, <1>8 DEF IInv, AdminsProve, ProvesPassword, Accounts
<1>10. QED
  BY <1>1, <1>4, <1>6, <1>7, <1>8, <1>9 DEF IInv, Tables

\* An admin acts on a merchant.
LEMMA AdministerInv ==
  ASSUME IInv, NEW w \in Workers, NEW m \in Merchants,
         ResetPassword(w, m) \/ \E active \in BOOLEAN : SetStatus(w, m, active)
  PROVE  IInv'
<1>1. /\ call[w].step # "verified" /\ Finish(w) /\ Revoke(SessionsOf(m))
      /\ UNCHANGED <<lock, clock>>
  BY DEF ResetPassword, SetStatus, At
<1>2. m \in Accounts /\ m \notin Admins /\ account[m] \in AccountRow
  BY SessionsAssumption DEF Accounts, IInv, Tables
<1>3. PICK row \in AccountRow : account' = [account EXCEPT ![m] = row]
  <2>1. CASE ResetPassword(w, m)
    <3>1. [account[m] EXCEPT !.hash = @ + 1, !.mustChange = TRUE] \in AccountRow
      <4>1. account[m].hash \in 0..MaxHash
        BY <1>2 DEF AccountRow
      <4>2. account[m].hash + 1 \in 0..MaxHash
        BY <2>1, <4>1, SessionsAssumption DEF ResetPassword
      <4>3. QED
        BY <1>2, <4>2 DEF AccountRow
    <3>2. QED
      BY <2>1, <3>1 DEF ResetPassword
  <2>2. CASE \E active \in BOOLEAN : SetStatus(w, m, active)
    <3>1. PICK active \in BOOLEAN : SetStatus(w, m, active)
      BY <2>2
    <3>2. [account[m] EXCEPT !.active = active] \in AccountRow
      BY <1>2 DEF AccountRow
    <3>3. QED
      BY <3>1, <3>2 DEF SetStatus
  <2>3. QED
    BY <2>1, <2>2
<1>4. /\ account' \in [Accounts -> AccountRow]
      /\ \A b \in Accounts \ {m} : account'[b] = account[b]
  BY <1>2, <1>3 DEF IInv, Tables
<1>5. ASSUME NEW p \in Workers \ {w} PROVE CurrentRow(call[p], account')
  BY <1>2, <1>4 DEF IInv, VerifiedIsCurrent, CurrentRow, Accounts
<1>6. /\ Calls' /\ VerifiedIsCurrent' /\ call'[w] = Idle
      /\ \A p \in Workers \ {w} : call'[p] = call[p]
  BY <1>1, <1>5, IdleFacts, CallMoves DEF Finish
<1>7. Locks'
  BY <1>1, <1>6, IdleFacts, SameLocks
<1>8. Tables' /\ AdminsProve'
  BY <1>1, <1>2, <1>4, RevokeFacts DEF IInv, Tables, AdminsProve, ProvesPassword, Accounts
<1>9. QED
  BY <1>1, <1>6, <1>7, <1>8 DEF IInv

\* What fails is rolled back.
LEMMA FailInv ==
  ASSUME IInv, NEW w \in Workers, Fail(w)
  PROVE  IInv'
<1>1. Calls' /\ VerifiedIsCurrent' /\ Locks'
  BY Ends DEF Fail
<1>2. QED
  BY <1>1 DEF Fail, IInv, Tables, AdminsProve, ProvesPassword

\* Every step keeps the invariant.
LEMMA StepInv ==
  ASSUME IInv, [Next]_vars
  PROVE  IInv'
<1>1. CASE UNCHANGED vars
  BY <1>1 DEF vars, IInv, Tables, Calls, Locks, Holds, VerifiedIsCurrent, AdminsProve, ProvesPassword
<1>2. ASSUME NEW w \in Workers, Login(w) PROVE IInv'
  BY <1>2, VerifyInv, AdminLoginInv, MerchantLoginInv, WriteTokenInv DEF Login, Accounts
<1>3. ASSUME NEW w \in Workers, Handle(w) PROVE IInv'
  BY <1>3, WriteTokenInv, LogoutInv, ProveInv, ChangePasswordInv, AdministerInv DEF Handle
<1>4. QED
  BY <1>1, <1>2, <1>3, TickInv, GuardInv, FailInv DEF Next

\* However requests overlap or fail, what an admin has verified is the password of now.
THEOREM Invariance == Spec => []IInv
<1>1. QED
  BY InitInv, StepInv, PTL DEF Spec

\* What a step does to accounts: a change of password replaces the one its caller has proved, an
\* admin's reset leaves a password that has to be replaced.
LEMMA PasswordStep ==
  ASSUME IInv, [Next]_vars, NEW a \in Accounts, account'[a].hash # account[a].hash
  PROVE  /\ \A s \in Sessions : session[s].owner = a => session'[s].revoked
         /\ ~account'[a].mustChange =>
              \E w \in Workers : /\ call[w].kind = "change" /\ call[w].account = a
                                 /\ call[w].hash = account[a].hash
<1>1. account \in [Accounts -> AccountRow]
  BY DEF IInv, Tables
<1>2. CASE \E w \in Workers : ChangePassword(w)
  <2>1. PICK w \in Workers : ChangePassword(w)
    BY <1>2
  <2>2. /\ call[w].kind = "change" /\ account[call[w].account].hash = call[w].hash
        /\ \A b \in Accounts : b # call[w].account => account'[b] = account[b]
        /\ Revoke(SessionsOf(call[w].account))
    BY <1>1, <2>1 DEF ChangePassword, At, StillProved, EndSessions
  <2>3. call[w].account = a
    BY <2>2
  <2>4. QED
    BY <2>2, <2>3, RevokeFacts DEF SessionsOf
<1>3. CASE \E w \in Workers, m \in Merchants : ResetPassword(w, m)
  <2>1. PICK w \in Workers, m \in Merchants : ResetPassword(w, m)
    BY <1>3
  <2>2. /\ \A b \in Accounts : b # m => account'[b] = account[b]
        /\ m \in Accounts => account'[m].mustChange
        /\ Revoke(SessionsOf(m))
    BY <1>1, <2>1 DEF ResetPassword, AccountRow
  <2>3. m = a
    BY <2>2
  <2>4. QED
    BY <2>2, <2>3, RevokeFacts DEF SessionsOf
<1>4. CASE \E w \in Workers, m \in Merchants, active \in BOOLEAN : SetStatus(w, m, active)
  BY <1>1, <1>4 DEF SetStatus, AccountRow
<1>5. CASE UNCHANGED account
  BY <1>5
<1>6. QED
  BY <1>2, <1>3, <1>4, <1>5
  DEF Next, vars, Tick, Login, Guard, Handle, Fail, AdminVerify, MerchantVerify, AdminLogin,
      MerchantLogin, IssueToken, LoadSession, LoadAccount, Refresh, Logout, AdminProvePassword,
      MerchantProvePassword

\* What a step does to the row of a session.
LEMMA RowStep ==
  ASSUME IInv, [Next]_vars, NEW s \in Sessions
  PROVE  /\ session[s].revoked => session'[s].revoked
         /\ session[s].owner # None => /\ session'[s].owner = session[s].owner
                                       /\ session'[s].proved = session[s].proved
<1>1. ASSUME NEW w \in Workers, NEW t \in Sessions, AdminLogin(w, t) \/ MerchantLogin(w, t)
      PROVE  t # s => session'[s] = session[s]
  BY <1>1 DEF AdminLogin, MerchantLogin, NewSession, IInv, Tables
<1>2. ASSUME NEW w \in Workers, AdminLogin(w, s) \/ MerchantLogin(w, s)
      PROVE  session[s].owner = None /\ ~session[s].revoked
  BY <1>2 DEF AdminLogin, MerchantLogin, NewSession, NoSession
<1>3. ASSUME NEW w \in Workers, IssueToken(w) \/ Refresh(w)
      PROVE  /\ session'[s].owner = session[s].owner /\ session'[s].proved = session[s].proved
             /\ session'[s].revoked = session[s].revoked
  <2>1. call[w].session \in Sessions
    BY <1>3 DEF IssueToken, Refresh, At, IInv, Calls, KnownRow
  <2>2. QED
    BY <1>3, <2>1, WriteTokenFacts DEF IssueToken, Refresh
<1>4. ASSUME NEW rows, Revoke(rows)
      PROVE  /\ session'[s].owner = session[s].owner /\ session'[s].proved = session[s].proved
             /\ session[s].revoked => session'[s].revoked
  BY <1>4, RevokeFacts
<1>5. ASSUME NEW w \in Workers, Logout(w) \/ ChangePassword(w)
                                \/ (\E m \in Merchants : ResetPassword(w, m))
                                \/ (\E m \in Merchants, active \in BOOLEAN : SetStatus(w, m, active))
      PROVE  \E rows : Revoke(rows)
  BY <1>5 DEF Logout, ChangePassword, ResetPassword, SetStatus
<1>6. CASE UNCHANGED session
  BY <1>6
<1>7. QED
  BY <1>1, <1>2, <1>3, <1>4, <1>5, <1>6
  DEF Next, vars, Tick, Login, Guard, Handle, Fail, AdminVerify, MerchantVerify, LoadSession,
      LoadAccount, AdminProvePassword, MerchantProvePassword

-----------------------------------------------------------------------------
(* What follows. *)

\* Sessions keep their types, and a row that is locked belongs to the request that locked it.
THEOREM TypeCorrect == Spec => []TypeOK
<1>1. IInv => TypeOK
  BY DEF IInv, Tables, Calls, Locks, Holds, TypeOK, AccountRow, SessionRow, CallRow
<1>2. QED
  BY <1>1, Invariance, PTL

\* However requests overlap, an admin's session that the guard accepts was opened with the
\* password of now (adminLogin, handleAdminChangePassword).
THEOREM AdminTheorem == Spec => []AdminSessionsProvePassword
<1>1. IInv => AdminSessionsProvePassword
  BY DEF IInv, AdminsProve, AdminSessionsProvePassword, Live, Unrevoked
<1>2. QED
  BY <1>1, Invariance, PTL

\* The sessions of an account that were usable before its password is replaced end with it, a
\* merchant's too (handleMerchantChangePassword, updateMerchantAccount).
THEOREM ReplacementTheorem == Spec => NoUsableSessionOutlivesPassword
<1>1. IInv /\ [Next]_vars =>
        \A s \in Sessions :
          session[s].owner # None /\ ProvesPassword(s) /\ Live(s)' => ProvesPassword(s)'
  <2> SUFFICES ASSUME IInv, [Next]_vars, NEW s \in Sessions,
                      session[s].owner # None, ProvesPassword(s), Live(s)'
               PROVE  ProvesPassword(s)'
    OBVIOUS
  <2>1. /\ session'[s].owner = session[s].owner /\ session'[s].proved = session[s].proved
        /\ ~session'[s].revoked
    BY RowStep DEF Live, Unrevoked
  <2>2. session[s].owner \in Accounts
    BY DEF IInv, Tables, SessionRow
  <2>3. account'[session[s].owner].hash = account[session[s].owner].hash
    BY <2>1, <2>2, PasswordStep
  <2>4. QED
    BY <2>1, <2>3 DEF ProvesPassword
<1>2. QED
  BY <1>1, Invariance, PTL DEF Spec, NoUsableSessionOutlivesPassword

\* No refresh and no login revives a session that was revoked (handleRefresh,
\* issueTokensWithDB).
THEOREM RevokedTheorem == Spec => RevokedStaysRevoked
<1>1. IInv /\ [Next]_vars => \A s \in Sessions : session[s].revoked => session'[s].revoked
  BY RowStep
<1>2. QED
  BY <1>1, Invariance, PTL DEF Spec, RevokedStaysRevoked

\* A change of password that was under way does not undo a reset (handleMerchantChangePassword).
THEOREM ResetTheorem == Spec => ResetStands
<1>1. IInv /\ [Next]_vars =>
        \A a \in Accounts :
          /\ account'[a].hash # account[a].hash /\ ~account'[a].mustChange
          => \E w \in Workers : /\ call[w].kind = "change" /\ call[w].account = a
                                /\ call[w].hash = account[a].hash
  BY PasswordStep
<1>2. QED
  BY <1>1, Invariance, PTL DEF Spec, ResetStands
=============================================================================
