------------------------------ MODULE Sessions ------------------------------
(***************************************************************************)
(* Login, refresh, logout and the replacement of passwords, for admins and *)
(* merchants. A session is a row of auth_sessions; every request looks the *)
(* row and the account up again before its handler runs (sessionGuard), so *)
(* a session is revoked by writing its row. The database executes one      *)
(* statement or locked transaction at a time; everything between two of    *)
(* them (bcrypt above all) leaves room for another request.                *)
(*                                                                         *)
(* A password is the number of times it was replaced: bcrypt salts every   *)
(* hash, so no two are equal. Refresh tokens name the second they were     *)
(* built in. Buyers' sessions and the review status of a merchant, which   *)
(* no handler changes, are left out.                                       *)
(***************************************************************************)
EXTENDS Integers

CONSTANTS
  Admins, Merchants,  \* the accounts
  Sessions,           \* the rows auth_sessions may get
  Workers,            \* the requests the server handles at the same time
  None,
  TTL,                \* how long a refresh token is good for
  MaxHash, MaxTime    \* bounds of the instance

ASSUME SessionsAssumption ==
  /\ Admins \cap Merchants = {} /\ None \notin Admins \cup Merchants \cup Sessions \cup Workers
  /\ TTL \in Nat \ {0} /\ MaxHash \in Nat /\ MaxTime \in Nat \ {0}

VARIABLES
  account,  \* admin_users and merchant_accounts
  session,  \* auth_sessions
  call,     \* per worker, the request it handles
  lock,     \* per account, the worker whose transaction has locked its row
  clock     \* seconds

vars == <<account, session, call, lock, clock>>

Accounts == Admins \cup Merchants

NoSession == [owner |-> None, token |-> 0, expires |-> 0, revoked |-> FALSE, proved |-> 0]

Idle == [kind |-> "idle", step |-> "", account |-> None, session |-> None, hash |-> 0, token |-> 0]

Kinds == {"login", "refresh", "logout", "change", "reset", "status"}

Steps == {"session", "guarded", "verified", "created"}

-----------------------------------------------------------------------------
Unrevoked(s) == session[s].owner # None /\ ~session[s].revoked /\ session[s].expires > clock

\* What the guard accepts: a row whose token was never written is not a session yet.
Live(s) == Unrevoked(s) /\ session[s].token # 0

SessionsOf(a) == {s \in Sessions : session[s].owner = a}

Revoke(rows) ==
  session' = [s \in Sessions |-> IF s \in rows THEN [session[s] EXCEPT !.revoked = TRUE]
                                 ELSE session[s]]

At(w, kind, step) == call[w].kind = kind /\ call[w].step = step

Finish(w) == call' = [call EXCEPT ![w] = Idle]

\* A defect: the row stays locked when the transaction ends.
FreeNothing(w) == UNCHANGED lock

\* The end of a transaction, committed or rolled back, frees its row.
Free(w) == lock' = [a \in Accounts |-> IF lock[a] = w THEN None ELSE lock[a]]

Init ==
  /\ account \in [Accounts -> [hash : {0}, active : {TRUE}, mustChange : BOOLEAN]]
  /\ \A a \in Admins : ~account[a].mustChange
  /\ session = [s \in Sessions |-> NoSession]
  /\ call = [w \in Workers |-> Idle]
  /\ lock = [a \in Accounts |-> None]
  /\ clock = 1

Tick == clock < MaxTime /\ clock' = clock + 1 /\ UNCHANGED <<account, session, call, lock>>

-----------------------------------------------------------------------------
(* Login. *)

\* A defect: the row is read without FOR UPDATE.
HoldNothing(w, a) == UNCHANGED lock

\* SELECT ... FOR UPDATE on the account.
Hold(w, a) == lock[a] = None /\ lock' = [lock EXCEPT ![a] = w]

\* The credentials are compared with the row that was just read.
Verify(w, a) ==
  /\ call[w] = Idle /\ account[a].active
  /\ call' = [call EXCEPT ![w] = [Idle EXCEPT !.kind = "login", !.step = "verified",
                                              !.account = a, !.hash = account[a].hash]]

AdminVerify(w, a) == Verify(w, a) /\ Hold(w, a) /\ UNCHANGED <<account, session, clock>>

MerchantVerify(w, m) == Verify(w, m) /\ UNCHANGED <<account, session, lock, clock>>

NewSession(w, s, token) ==
  /\ session[s] = NoSession
  /\ session' = [session EXCEPT ![s] = [owner |-> call[w].account, token |-> token,
                                        expires |-> clock + TTL, revoked |-> FALSE,
                                        proved |-> call[w].hash]]

\* The row and its token are written in the transaction that holds the admin's row.
AdminLogin(w, s) ==
  /\ At(w, "login", "verified") /\ call[w].account \in Admins
  /\ NewSession(w, s, clock) /\ Finish(w) /\ Free(w)
  /\ UNCHANGED <<account, clock>>

\* Here the row is inserted first, and its token is written by a second statement.
MerchantLogin(w, s) ==
  /\ At(w, "login", "verified") /\ call[w].account \in Merchants
  /\ NewSession(w, s, 0)
  /\ call' = [call EXCEPT ![w].step = "created", ![w].session = s, ![w].token = clock]
  /\ UNCHANGED <<account, lock, clock>>

\* A defect: the row is saved as it was when it was read.
SaveRow(w) ==
  session' = [session EXCEPT ![call[w].session] =
                [@ EXCEPT !.token = call[w].token, !.expires = call[w].token + TTL,
                          !.revoked = FALSE]]

\* UPDATE ... SET refresh_token_hash, expired_at WHERE id = ?
WriteToken(w) ==
  session' = [session EXCEPT ![call[w].session] =
                [@ EXCEPT !.token = call[w].token, !.expires = call[w].token + TTL]]

IssueToken(w) ==
  /\ At(w, "login", "created") /\ WriteToken(w) /\ Finish(w)
  /\ UNCHANGED <<account, lock, clock>>

-----------------------------------------------------------------------------
(* The guard: one statement looks up the session, a later one the account. *)

LoadSession(w, s, kind) ==
  /\ call[w] = Idle /\ Live(s)
  /\ kind \in {"reset", "status"} => session[s].owner \in Admins
  /\ call' = [call EXCEPT ![w] = [Idle EXCEPT !.kind = kind, !.step = "session", !.session = s,
                                              !.account = session[s].owner]]
  /\ UNCHANGED <<account, session, lock, clock>>

\* What a merchant may do before replacing an initial password (change it, log out, refresh)
\* is all that is modelled of merchants, so the guard's third check never fails here. A refresh
\* builds its new token next.
LoadAccount(w) ==
  /\ call[w].step = "session" /\ account[call[w].account].active
  /\ call' = [call EXCEPT ![w].step = "guarded",
                          ![w].token = IF call[w].kind = "refresh" THEN clock ELSE 0]
  /\ UNCHANGED <<account, session, lock, clock>>

Refresh(w) ==
  /\ At(w, "refresh", "guarded") /\ WriteToken(w) /\ Finish(w)
  /\ UNCHANGED <<account, lock, clock>>

Logout(w) ==
  /\ At(w, "logout", "guarded") /\ Revoke({call[w].session}) /\ Finish(w)
  /\ UNCHANGED <<account, lock, clock>>

-----------------------------------------------------------------------------
(* Passwords. *)

\* The old password is compared with the row that was just read.
ProveOldPassword(w) ==
  call' = [call EXCEPT ![w].step = "verified", ![w].hash = account[call[w].account].hash]

\* The admin's row is locked and the session looked up once more.
AdminProvePassword(w) ==
  LET a == call[w].account
  IN /\ At(w, "change", "guarded") /\ a \in Admins /\ account[a].active
     /\ Unrevoked(call[w].session)
     /\ Hold(w, a) /\ ProveOldPassword(w)
     /\ UNCHANGED <<account, session, clock>>

MerchantProvePassword(w) ==
  /\ At(w, "change", "guarded") /\ call[w].account \in Merchants /\ ProveOldPassword(w)
  /\ UNCHANGED <<account, session, lock, clock>>

\* A defect: UPDATE ... WHERE id = ?
StillRead(w) == account[call[w].account].hash >= call[w].hash

\* UPDATE ... WHERE id = ? AND password_hash = ?
StillProved(w) == account[call[w].account].hash = call[w].hash

\* A defect: the other sessions of the account live on.
EndOwnSession(w) == {call[w].session}

\* Every session of the account is revoked with the password, the caller's own too.
EndSessions(w) == SessionsOf(call[w].account)

ChangePassword(w) ==
  LET a == call[w].account
  IN /\ At(w, "change", "verified") /\ StillProved(w) /\ account[a].hash < MaxHash
     /\ a \in Admins => account[a].active
     /\ account' = [account EXCEPT ![a].hash = @ + 1, ![a].mustChange = FALSE]
     /\ Revoke(EndSessions(w)) /\ Finish(w) /\ Free(w)
     /\ UNCHANGED clock

ResetPassword(w, m) ==
  /\ At(w, "reset", "guarded") /\ account[m].hash < MaxHash
  /\ account' = [account EXCEPT ![m].hash = @ + 1, ![m].mustChange = TRUE]
  /\ Revoke(SessionsOf(m)) /\ Finish(w)
  /\ UNCHANGED <<lock, clock>>

SetStatus(w, m, active) ==
  /\ At(w, "status", "guarded")
  /\ account' = [account EXCEPT ![m].active = active]
  /\ Revoke(SessionsOf(m)) /\ Finish(w)
  /\ UNCHANGED <<lock, clock>>

\* Any check fails, a statement fails, or the process dies: the transaction is rolled back.
Fail(w) ==
  /\ call[w] # Idle /\ Finish(w) /\ Free(w)
  /\ UNCHANGED <<account, session, clock>>

-----------------------------------------------------------------------------
Login(w) ==
  \/ \E a \in Admins : AdminVerify(w, a)
  \/ \E m \in Merchants : MerchantVerify(w, m)
  \/ \E s \in Sessions : AdminLogin(w, s)
  \/ \E s \in Sessions : MerchantLogin(w, s)
  \/ IssueToken(w)

Guard(w) ==
  \/ \E s \in Sessions, kind \in Kinds \ {"login"} : LoadSession(w, s, kind)
  \/ LoadAccount(w)

Handle(w) ==
  \/ Refresh(w)
  \/ Logout(w)
  \/ AdminProvePassword(w)
  \/ MerchantProvePassword(w)
  \/ ChangePassword(w)
  \/ \E m \in Merchants : ResetPassword(w, m)
  \/ \E m \in Merchants, active \in BOOLEAN : SetStatus(w, m, active)

Next == Tick \/ \E w \in Workers : Login(w) \/ Guard(w) \/ Handle(w) \/ Fail(w)

Spec == Init /\ [][Next]_vars

-----------------------------------------------------------------------------
(* Properties. *)

\* Types, and a locked row belongs to the admin's login or change that is under way.
TypeOK ==
  /\ account \in [Accounts -> [hash : 0..MaxHash, active : BOOLEAN, mustChange : BOOLEAN]]
  /\ session \in [Sessions -> [owner : Accounts \cup {None}, token : 0..MaxTime,
                               expires : 0..(MaxTime + TTL), revoked : BOOLEAN,
                               proved : 0..MaxHash]]
  /\ call \in [Workers -> [kind : Kinds \cup {"idle"}, step : Steps \cup {""},
                           account : Accounts \cup {None}, session : Sessions \cup {None},
                           hash : 0..MaxHash, token : 0..MaxTime]]
  /\ lock \in [Accounts -> Workers \cup {None}]
  /\ clock \in 1..MaxTime
  /\ \A a \in Accounts, w \in Workers :
       lock[a] = w <=> a \in Admins /\ call[w].step = "verified" /\ call[w].account = a

\* A session the guard accepts was opened with the password the account has now.
ProvesPassword(s) == session[s].proved = account[session[s].owner].hash

\* For admins: no login that verified an old password ends after the change with a session
\* (adminLogin, handleAdminChangePassword).
AdminSessionsProvePassword ==
  \A s \in Sessions : Live(s) /\ session[s].owner \in Admins => ProvesPassword(s)

\* For merchants, where a login runs outside any transaction, the sessions that were already
\* usable when the password was replaced are gone; a stale one can only come from a login that
\* overlapped the replacement (handleMerchantChangePassword, updateMerchantAccount).
NoUsableSessionOutlivesPassword ==
  [][\A s \in Sessions :
       session[s].owner # None /\ ProvesPassword(s) /\ Live(s)' => ProvesPassword(s)']_vars

\* Whatever is still in flight, a refresh or a login never revives a session that a logout, a
\* change of password or an admin has revoked (handleRefresh, issueTokensWithDB).
RevokedStaysRevoked ==
  [][\A s \in Sessions : session[s].revoked => session'[s].revoked]_vars

\* An admin's reset is not overwritten by a change of password that was under way: the password
\* a change replaces, and with it the duty to replace an initial password, is the one its
\* caller has proved (handleMerchantChangePassword).
ResetStands ==
  [][\A a \in Accounts :
       /\ account'[a].hash # account[a].hash /\ ~account'[a].mustChange
       => \E w \in Workers : /\ call[w].kind = "change" /\ call[w].account = a
                             /\ call[w].hash = account[a].hash]_vars

\* What the operations guide says of merchants: resetting, disabling or changing the password
\* revokes every session of the account (merchantLogin against updateMerchantAccount).
MerchantSessionsProvePassword ==
  \A s \in Sessions : Live(s) /\ session[s].owner \in Merchants => ProvesPassword(s)

=============================================================================
