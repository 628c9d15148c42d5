---------------------------- MODULE ClientRefresh ----------------------------
(***************************************************************************)
(* The session of the mini program and the renewal of its tokens           *)
(* (miniapp/src/services/request.ts, stores/session.ts), against the       *)
(* server's handleRefresh, which replaces the refresh token on every use.  *)
(*                                                                         *)
(* Any number of requests are under way while the user logs in and out.    *)
(* Those that come back unauthorized share one call that renews the        *)
(* session they were sent with (refreshFor), and are sent once more with   *)
(* the new tokens.  A logout is one of them, and empties the store when it *)
(* has come to an end, whatever the store holds then (pages/me/index.tsx). *)
(* A step of the client is what it does between two awaits.  The network   *)
(* loses answers.                                                          *)
(***************************************************************************)
EXTENDS Naturals, Sequences

CONSTANTS
  MaxRequests,  \* bound on the calls of apiRequest, numbered as they are made
  MaxLogins,    \* bound on how often the user logs in
  MaxGen        \* bound on the pairs of tokens of one login

ASSUME ClientRefreshAssumption ==
  MaxRequests \in Nat /\ MaxLogins \in Nat /\ MaxGen \in Nat \ {0}

VARIABLES
  session,  \* the tokens in the store
  who,      \* history: the login the user takes for current, 0 when logged out
  request,  \* what each request is doing
  leaving,  \* the logouts under way: their requests, and the logins made before them
  flights,  \* the refreshes so far; refreshFlight is the last one
  latest,   \* per login, which of its refresh tokens auth_sessions holds, 0 before it
  revoked,  \* the logins whose session the server has ended
  expired,  \* the tokens whose access token is past its time
  troubled  \* history: logins whose session the server, the network or a late logout took

vars == <<session, who, request, leaving, flights, latest, revoked, expired, troubled>>
server == <<latest, revoked, expired>>

Requests == 1..MaxRequests

Logins == 1..MaxLogins

\* The pairs of tokens a login was given, one after the other; a guest has none.
Tokens == [login : Logins, gen : 1..MaxGen]
Guest  == [login |-> 0, gen |-> 0]

Sessions == Tokens \cup {Guest}

Renewed(t) == [t EXCEPT !.gen = @ + 1]

NotSent == [step |-> "idle", token |-> Guest, login |-> 0, retrying |-> FALSE, flight |-> 0]

Init ==
  /\ session = Guest /\ who = 0 /\ leaving = {}
  /\ request = [q \in Requests |-> NotSent]
  /\ flights = <<>>
  /\ latest = [n \in Logins |-> 0]
  /\ revoked = {} /\ expired = {} /\ troubled = {}

-----------------------------------------------------------------------------
(* The user. *)

Login(n) ==
  /\ latest[n] = 0 /\ \A m \in 1..(n - 1) : latest[m] # 0
  /\ latest' = [latest EXCEPT ![n] = 1]
  /\ session' = [login |-> n, gen |-> 1] /\ who' = n
  /\ UNCHANGED <<request, leaving, flights, revoked, expired, troubled>>

\* Every request is sent with the tokens of the store.
Issue(q) ==
  /\ request[q].step = "idle" /\ \A p \in 1..(q - 1) : request[p].step # "idle"
  /\ request' = [request EXCEPT ![q] = [NotSent EXCEPT !.step = "flying", !.token = session,
                                                        !.login = session.login]]

Send(q) == Issue(q) /\ UNCHANGED <<session, who, leaving, flights, server, troubled>>

\* The button is there as long as the last summary was a user's: for a second tap as well, and when
\* the store was emptied since.
BeginLogout(q) ==
  LET made == {n \in Logins : latest[n] # 0}
  IN /\ made # {} /\ Issue(q)
     /\ leaving' = leaving \cup {[request |-> q, before |-> made]}
     /\ UNCHANGED <<session, who, flights, server, troubled>>

\* Whatever came of its request, and whoever is logged in by now: a login made since is lost.
EndLogout(l) ==
  /\ l \in leaving /\ request[l.request].step = "done"
  /\ leaving' = leaving \ {l}
  /\ session' = Guest
  /\ who' = IF who \in l.before THEN 0 ELSE who
  /\ troubled' = troubled \cup ({who} \cap (Logins \ l.before))
  /\ UNCHANGED <<request, flights, server>>

-----------------------------------------------------------------------------
(* The server and the network. *)

\* A logout that reaches the server, a disabled account.
Revoke(n) ==
  /\ latest[n] # 0 /\ n \notin revoked
  /\ revoked' = revoked \cup {n} /\ troubled' = troubled \cup {n}
  /\ UNCHANGED <<session, who, request, leaving, flights, latest, expired>>

\* Tokens last longer than a request and its replay: a request under way neither outlives the
\* tokens that came after its own nor is sent again with tokens past their time.
Expire(t) ==
  /\ t.gen <= latest[t.login] /\ t.gen < MaxGen /\ t \notin expired
  /\ \A q \in Requests : request[q].token.login = t.login =>
       request[q].token.gen > t.gen \/ (request[q].token = t /\ ~request[q].retrying)
  /\ expired' = expired \cup {t}
  /\ UNCHANGED <<session, who, request, leaving, flights, latest, revoked, troubled>>

Accepted(t) == t \notin expired /\ t.login \notin revoked

To(q, step) == request' = [request EXCEPT ![q].step = step]

End(q) == request' = [request EXCEPT ![q] = [NotSent EXCEPT !.step = "done"]]

\* The request is answered, or the answer lost, or it is refused: that of a guest where a
\* login is needed.
Serve(q) ==
  /\ request[q].step = "flying"
  /\ \/ End(q)
     \/ (request[q].token = Guest \/ ~Accepted(request[q].token)) /\ To(q, "unauthorized")
  /\ UNCHANGED <<session, who, leaving, flights, server, troubled>>

\* The refresh token has to be the last one given out.
Rotate(i) ==
  LET t == flights[i].owner
      ok == t.login \notin revoked /\ t.gen = latest[t.login] /\ t.gen < MaxGen
  IN /\ flights[i].step = "calling"
     /\ flights' = [flights EXCEPT ![i].step = IF ok THEN "granted" ELSE "refused"]
     /\ latest' = IF ok THEN [latest EXCEPT ![t.login] = @ + 1] ELSE latest
     /\ UNCHANGED <<session, who, request, leaving, revoked, expired, troubled>>

LoseRefresh(i) ==
  /\ flights[i].step \in {"calling", "granted"}
  /\ flights' = [flights EXCEPT ![i].step = "refused"]
  /\ troubled' = troubled \cup {flights[i].owner.login}
  /\ UNCHANGED <<session, who, request, leaving, server>>

-----------------------------------------------------------------------------
(* The client. *)

Existing == flights[Len(flights)]

\* A defect: a refresh that is still running is not joined.
SharesFinished(t) ==
  flights # <<>> /\ Existing.owner = t /\ Existing.outcome = "refreshed"

\* The refresh of the same tokens is shared, while it runs and when it is done.
Shares(t) ==
  /\ flights # <<>> /\ Existing.owner = t
  /\ Existing.outcome \in {"none", "refreshed"} \/ session # t

\* That of other tokens is waited for.
Blocked(t) == flights # <<>> /\ Existing.owner # t /\ Existing.outcome = "none"

WaitFor(q, step, i) == request' = [request EXCEPT ![q].step = step, ![q].flight = i]

RefreshFor(q) ==
  LET t == request[q].token
  IN \/ /\ Shares(t)
        /\ WaitFor(q, "waiting", Len(flights)) /\ UNCHANGED flights
     \/ /\ ~Shares(t) /\ Blocked(t)
        /\ WaitFor(q, "queued", Len(flights)) /\ UNCHANGED flights
     \/ /\ ~Shares(t) /\ ~Blocked(t) /\ session # t
        /\ End(q) /\ UNCHANGED flights
     \/ /\ ~Shares(t) /\ ~Blocked(t) /\ session = t
        /\ flights' = Append(flights, [owner |-> t, step |-> "calling", outcome |-> "none"])
        /\ WaitFor(q, "waiting", Len(flights'))

\* Sent again and refused again: the session ends, if it is still that one.
Unauthorized(q) ==
  LET t == request[q].token
  IN /\ request[q].step = "unauthorized"
     /\ \/ /\ request[q].retrying \/ t = Guest
           /\ session' = IF session = t THEN Guest ELSE session
           /\ End(q) /\ UNCHANGED flights
        \/ /\ ~request[q].retrying /\ t # Guest
           /\ RefreshFor(q) /\ UNCHANGED session
     /\ UNCHANGED <<who, leaving, server, troubled>>

\* A defect: the tokens are stored whoever is logged in by now.
OwnsAny(t) == TRUE

Owns(t) == session = t

\* A defect: a refused answer is not told from a granted one.
StoredUnchecked(t, granted) == Renewed(t)

Stored(t, granted) == IF granted THEN Renewed(t) ELSE Guest

\* The answer changes the store only if that still holds the tokens that were renewed.
Land(i) ==
  LET t == flights[i].owner
      granted == flights[i].step = "granted"
  IN /\ flights[i].step \in {"granted", "refused"} /\ flights[i].outcome = "none"
     /\ session' = IF Owns(t) THEN Stored(t, granted) ELSE session
     /\ flights' = [flights EXCEPT ![i].outcome =
           IF ~Owns(t) THEN "stale" ELSE IF granted THEN "refreshed" ELSE "failed"]
     /\ UNCHANGED <<who, request, leaving, server, troubled>>

\* A defect: nobody hears of a refresh that failed.
FinishedWell(q) == flights[request[q].flight].outcome = "refreshed"

Finished(q) == flights[request[q].flight].outcome # "none"

MayReplay(q, f) ==
  f.outcome = "refreshed" /\ f.owner = request[q].token /\ session = Renewed(f.owner)

\* Sent once more, with the tokens of the store.
Continue(q) ==
  LET f == flights[request[q].flight]
  IN /\ request[q].step = "waiting" /\ Finished(q)
     /\ \/ /\ MayReplay(q, f)
           /\ request' = [request EXCEPT ![q].step = "flying", ![q].token = session,
                                          ![q].retrying = TRUE]
        \/ ~MayReplay(q, f) /\ End(q)
     /\ UNCHANGED <<session, who, leaving, flights, server, troubled>>

\* The other refresh is over: refreshFor begins again.
AskAgain(q) ==
  /\ request[q].step = "queued" /\ Finished(q)
  /\ RefreshFor(q)
  /\ UNCHANGED <<session, who, leaving, server, troubled>>

-----------------------------------------------------------------------------
Handle(q) ==
  \/ Serve(q) \/ Unauthorized(q) \/ Continue(q) \/ AskAgain(q)
  \/ \E l \in leaving : l.request = q /\ EndLogout(l)

Call(i) == Rotate(i) \/ Land(i)

Next ==
  \/ \E n \in Logins : Login(n) \/ Revoke(n)
  \/ \E t \in Tokens : Expire(t)
  \/ \E q \in Requests : Send(q) \/ BeginLogout(q) \/ Handle(q)
  \/ \E i \in DOMAIN flights : Call(i) \/ LoseRefresh(i)

\* Every call ends, with an answer or an error of its own, and no promise is forgotten. One refresh
\* runs at a time.
Fairness ==
  /\ \A q \in Requests : WF_vars(Handle(q))
  /\ WF_vars(\E i \in DOMAIN flights : Call(i))

Spec == Init /\ [][Next]_vars /\ Fairness

-----------------------------------------------------------------------------
(* Properties. *)

TypeOK ==
  /\ session \in Sessions /\ who \in Logins \cup {0}
  /\ request \in [Requests -> [step : {"idle", "flying", "unauthorized", "waiting", "queued", "done"},
                               token : Sessions, login : Logins \cup {0}, retrying : BOOLEAN,
                               flight : 0..(MaxLogins * MaxGen)]]
  /\ leaving \subseteq [request : Requests, before : SUBSET Logins]
  /\ flights \in Seq([owner : Tokens, step : {"calling", "granted", "refused"},
                      outcome : {"none", "refreshed", "failed", "stale"}])
  /\ latest \in [Logins -> 0..MaxGen]
  /\ revoked \subseteq Logins /\ expired \subseteq Tokens /\ troubled \subseteq Logins

\* No answer that arrives late brings back a session the user has left or replaced, and no
\* request goes out under another login than the one it was made in (refreshAccessToken,
\* apiRequest).
OwnIdentity ==
  /\ session # Guest => session.login = who
  /\ \A q \in Requests : request[q].step = "flying" => request[q].token.login = request[q].login

\* Nobody is logged out for sending many requests at once: the store loses a session only
\* if the user leaves it, the server ends it, a refresh goes unanswered (refreshFor) or a logout
\* the user asked for before the login comes to its end after it (MePage).
SessionKept == who # 0 /\ session = Guest => who \in troubled

\* Every request comes to an end, those that wait for a refresh and those that wait for
\* another session's included, and a logout empties the store (refreshFor, MePage): when the user
\* stops, a moment comes when nothing is under way.
EveryRequestEnds ==
  []<>(leaving = {} /\ \A q \in Requests : request[q].step \in {"idle", "done"})

=============================================================================
