------------------------- MODULE ClientRefreshProofs -------------------------
(***************************************************************************)
(* What the mini program's session promises, for any number of requests,   *)
(* logins and renewals.                                                    *)
(***************************************************************************)
EXTENDS ClientRefresh, SequenceTheorems, FiniteSets, FiniteSetTheorems, TLAPS

Steps == {"idle", "flying", "unauthorized", "waiting", "queued", "done"}

RequestRow == [step : Steps, token : Sessions, login : Logins \cup {0}, retrying : BOOLEAN,
               flight : Nat]

FlightRow == [owner : Tokens, step : {"calling", "granted", "refused"},
              outcome : {"none", "refreshed", "failed", "stale"}]

Running(i) == flights[i].outcome = "none"

\* The types, with flights that exist where somebody waits for one.
Typed ==
  /\ session \in Sessions /\ who \in Logins \cup {0}
  /\ request \in [Requests -> RequestRow]
  /\ flights \in Seq(FlightRow)
  /\ latest \in [Logins -> 0..MaxGen]
  /\ revoked \subseteq Logins /\ expired \subseteq Tokens /\ troubled \subseteq Logins
  /\ \A q \in Requests : request[q].step \in {"waiting", "queued"} =>
       request[q].flight \in DOMAIN flights
  /\ \A i \in DOMAIN flights : flights[i].step = "calling" => Running(i)
  /\ \A i \in DOMAIN flights : flights[i].step = "granted" => flights[i].owner.gen < MaxGen

\* The store and every request belong to one login.
Identity ==
  /\ session # Guest => session.login = who
  /\ \A q \in Requests : request[q].token.login = request[q].login

\* Only tokens the server does not accept any more are renewed, and a request waits for the
\* renewal of its own.
Refused ==
  /\ \A q \in Requests :
       /\ request[q].step = "unauthorized" /\ request[q].token # Guest => ~Accepted(request[q].token)
       /\ request[q].step \in {"waiting", "queued"} => request[q].token # Guest
                                                       /\ ~Accepted(request[q].token)
       /\ request[q].step = "waiting" => flights[request[q].flight].owner = request[q].token
       /\ request[q].step \in {"waiting", "queued"} => ~request[q].retrying
  /\ \A i \in DOMAIN flights : ~Accepted(flights[i].owner)

\* What the server has given out: nothing newer than its last tokens, nothing before a login.
GivenOut ==
  /\ \A t \in expired : t.gen < MaxGen /\ t.gen <= latest[t.login]
  /\ revoked \subseteq troubled
  /\ session # Guest => session.gen <= latest[session.login]
  /\ \A i \in DOMAIN flights : flights[i].owner.gen <= latest[flights[i].owner.login]
  /\ \A q \in Requests : request[q].token # Guest =>
       request[q].token.gen <= latest[request[q].token.login]

\* Tokens are renewed once and never come back to the store; only the last renewal runs.
OncePerToken ==
  /\ \A i \in DOMAIN flights : Running(i) => i = Len(flights)
  /\ \A i \in DOMAIN flights : flights[i].owner = session => Running(i)
  /\ \A i \in DOMAIN flights : flights[i].owner.login = session.login =>
       flights[i].owner.gen <= session.gen
  /\ \A i \in DOMAIN flights : Running(i) =>
       \E q \in Requests : request[q].step = "waiting" /\ request[q].flight = i

\* The store's tokens are the server's last, unless their renewal is on its way.
Current ==
  session # Guest =>
    \/ latest[session.login] = session.gen /\ \A i \in DOMAIN flights :
         flights[i].owner = session =>
           flights[i].step = "calling" \/ (flights[i].step = "refused" /\ session.login \in troubled)
    \/ \E i \in DOMAIN flights :
         /\ flights[i].owner = session /\ latest[session.login] = session.gen + 1
         /\ flights[i].step = "granted" \/ (flights[i].step = "refused" /\ session.login \in troubled)

\* No request is sent again with tokens past their time.
Fresh ==
  \A q \in Requests, t \in expired : t.login = request[q].token.login =>
    t.gen <= request[q].token.gen /\ (request[q].retrying => t # request[q].token)

IInv ==
  Typed /\ Identity /\ Refused /\ GivenOut /\ OncePerToken /\ Current /\ Fresh /\ SessionKept

-----------------------------------------------------------------------------
(* Tokens, flights and requests. *)

\* Tokens are not the guest's, and are told apart by login and number.
LEMMA TokenFacts ==
  ASSUME NEW t \in Tokens
  PROVE  /\ t # Guest /\ t \in Sessions
         /\ t.login \in Logins /\ t.login # 0 /\ t.gen \in 1..MaxGen /\ t.gen \in Nat
         /\ \A u \in Tokens : u.login = t.login /\ u.gen = t.gen => u = t
BY ClientRefreshAssumption DEF Tokens, Guest, Logins, Sessions

\* Renewing moves on within a login.
LEMMA RenewedFacts ==
  ASSUME NEW t \in Tokens, t.gen < MaxGen
  PROVE  /\ Renewed(t) \in Tokens /\ Renewed(t).login = t.login /\ Renewed(t).gen = t.gen + 1
         /\ Renewed(t) # t
BY ClientRefreshAssumption DEF Tokens, Renewed

\* A session is the guest's or tokens, whose login is never 0.
LEMMA SessionFacts ==
  ASSUME NEW t \in Sessions
  PROVE  /\ t = Guest \/ t \in Tokens
         /\ Guest.login = 0 /\ Guest.gen = 0
         /\ t.login = 0 <=> t = Guest
         /\ t.gen \in Nat
BY ClientRefreshAssumption DEF Tokens, Guest, Logins, Sessions

\* A flight renews tokens.
LEMMA FlightFacts ==
  ASSUME Typed, NEW i \in DOMAIN flights
  PROVE  /\ flights[i] \in FlightRow /\ flights[i].owner \in Tokens
         /\ Len(flights) \in Nat /\ DOMAIN flights = 1..Len(flights) /\ i \in Nat
         /\ Len(flights) \in DOMAIN flights
<1>1. flights \in Seq(FlightRow)
  BY DEF Typed
<1>2. Len(flights) \in Nat /\ DOMAIN flights = 1..Len(flights)
  BY <1>1
<1>3. flights[i] \in FlightRow
  BY <1>1
<1>4. QED
  BY <1>2, <1>3 DEF FlightRow

\* A flight moves on, the others stay.
LEMMA FlightMoves ==
  ASSUME Typed, NEW i \in DOMAIN flights, NEW row \in FlightRow,
         flights' = [flights EXCEPT ![i] = row]
  PROVE  /\ flights' \in Seq(FlightRow) /\ Len(flights') = Len(flights)
         /\ DOMAIN flights' = DOMAIN flights
         /\ flights'[i] = row /\ \A j \in DOMAIN flights \ {i} : flights'[j] = flights[j]
<1>1. flights \in Seq(FlightRow) /\ i \in 1..Len(flights)
  BY FlightFacts DEF Typed
<1>2. QED
  BY <1>1, ExceptSeq

\* A flight is added behind the others.
LEMMA FlightAdded ==
  ASSUME Typed, NEW row \in FlightRow, flights' = Append(flights, row)
  PROVE  /\ flights' \in Seq(FlightRow) /\ Len(flights') = Len(flights) + 1
         /\ DOMAIN flights' = DOMAIN flights \cup {Len(flights')}
         /\ Len(flights') \notin DOMAIN flights /\ Len(flights) \in Nat
         /\ flights'[Len(flights')] = row /\ \A j \in DOMAIN flights : flights'[j] = flights[j]
<1>1. flights \in Seq(FlightRow) /\ Len(flights) \in Nat /\ DOMAIN flights = 1..Len(flights)
  BY DEF Typed
<1>2. /\ flights' \in Seq(FlightRow) /\ Len(flights') = Len(flights) + 1
      /\ flights'[Len(flights) + 1] = row
      /\ \A j \in 1..Len(flights) : flights'[j] = flights[j]
  BY <1>1, AppendProperties
<1>3. DOMAIN flights' = 1..(Len(flights) + 1)
  BY <1>2
<1>4. QED
  BY <1>1, <1>2, <1>3

\* What an update of one request leaves alone.
LEMMA RequestFacts ==
  ASSUME Typed, NEW q \in Requests
  PROVE  request[q] \in RequestRow /\ request[q].token \in Sessions
BY DEF Typed, RequestRow

\* Nothing has happened at the start.
LEMMA InitInv == Init => IInv
<1> SUFFICES ASSUME Init PROVE IInv
  OBVIOUS
<1>1. Typed
  <2>1. NotSent \in RequestRow
    BY DEF NotSent, RequestRow, Steps, Sessions
  <2>2. QED
    BY <2>1, ClientRefreshAssumption DEF Init, Typed, Sessions, NotSent
<1>2. DOMAIN flights = {}
  BY DEF Init
<1>3. \A q \in Requests : request[q] = NotSent
  BY DEF Init
<1>4. Identity /\ Current /\ Fresh /\ SessionKept
  BY <1>3 DEF Init, Identity, Current, Fresh, SessionKept, NotSent, Guest
<1>5. Refused /\ OncePerToken
  BY <1>2, <1>3 DEF Init, Refused, OncePerToken, NotSent, Guest
<1>6. GivenOut
  BY <1>2, <1>3 DEF Init, GivenOut, NotSent, Guest
<1>7. QED
  BY <1>1, <1>4, <1>5, <1>6 DEF IInv

-----------------------------------------------------------------------------
(* The user. *)

\* A login starts with tokens nobody has seen.
LEMMA LoginInv ==
  ASSUME IInv, NEW n \in Logins, Login(n)
  PROVE  IInv'
<1> DEFINE t == [login |-> n, gen |-> 1]
<1>1. /\ latest[n] = 0 /\ latest' = [latest EXCEPT ![n] = 1] /\ session' = t /\ who' = n
      /\ UNCHANGED <<request, flights, revoked, expired, troubled>>
  BY DEF Login
<1>2. t \in Tokens /\ t # Guest /\ t.login = n /\ t.gen = 1 /\ n # 0 /\ t \in Sessions
  BY ClientRefreshAssumption DEF Tokens, Guest, Logins, Sessions
<1>3. latest'[n] = 1 /\ \A m \in Logins \ {n} : latest'[m] = latest[m]
  BY <1>1 DEF IInv, Typed
<1>4. /\ \A i \in DOMAIN flights : flights[i].owner.login # n
      /\ \A u \in expired : u.login # n
  <2>1. ASSUME NEW i \in DOMAIN flights PROVE flights[i].owner.login # n
    BY <1>1, FlightFacts, TokenFacts DEF IInv, GivenOut
  <2>2. ASSUME NEW u \in expired PROVE u.login # n
    BY <1>1, TokenFacts DEF IInv, Typed, GivenOut
  <2>3. QED
    BY <2>1, <2>2
<1>5. Typed'
  BY <1>1, <1>2, ClientRefreshAssumption DEF IInv, Typed, Running
<1>6. (Identity /\ Refused /\ Fresh /\ SessionKept)'
  BY <1>1, <1>2 DEF IInv, Identity, Refused, Fresh, SessionKept, Accepted
<1>7. GivenOut'
  BY <1>1, <1>2, <1>3, <1>4, FlightFacts, TokenFacts, RequestFacts, SessionFacts
  DEF IInv, Typed, GivenOut
<1>8. OncePerToken'
  BY <1>1, <1>2, <1>4 DEF IInv, OncePerToken, Running
<1>9. Current'
  BY <1>1, <1>2, <1>3, <1>4 DEF Current
<1>10. QED
  BY <1>5, <1>6, <1>7, <1>8, <1>9 DEF IInv

\* A logout that ends empties the store; a login it takes along is known.
LEMMA LogoutInv ==
  ASSUME IInv, NEW l, EndLogout(l)
  PROVE  IInv'
<1>1. /\ session' = Guest /\ who' = IF who \in l.before THEN 0 ELSE who
      /\ troubled' = troubled \cup ({who} \cap (Logins \ l.before))
      /\ UNCHANGED <<request, flights, latest, revoked, expired>>
  BY DEF EndLogout, server
<1>2. Typed'
  BY <1>1 DEF IInv, Typed, Running, Sessions
<1>3. (Identity /\ Refused /\ Fresh /\ GivenOut /\ Current)'
  BY <1>1 DEF IInv, Identity, Refused, Fresh, Accepted, GivenOut, Current
<1>4. OncePerToken'
  BY <1>1, FlightFacts, TokenFacts, SessionFacts DEF IInv, OncePerToken, Running, Guest
<1>5. SessionKept'
  BY <1>1 DEF IInv, Typed, SessionKept
<1>6. QED
  BY <1>2, <1>3, <1>4, <1>5 DEF IInv

-----------------------------------------------------------------------------
(* The server and the network. *)

\* The end of a session is known to be one.
LEMMA RevokeInv ==
  ASSUME IInv, NEW n \in Logins, Revoke(n)
  PROVE  IInv'
<1>1. /\ revoked' = revoked \cup {n} /\ troubled' = troubled \cup {n}
      /\ UNCHANGED <<session, who, request, flights, latest, expired>>
  BY DEF Revoke
<1>2. Typed'
  BY <1>1 DEF IInv, Typed, Running
<1>3. (Identity /\ Fresh /\ SessionKept /\ GivenOut /\ OncePerToken)'
  BY <1>1 DEF IInv, Identity, Fresh, SessionKept, GivenOut, OncePerToken, Running
<1>4. Refused' /\ Current'
  BY <1>1 DEF IInv, Refused, Accepted, Current
<1>5. SessionKept'
  BY <1>1 DEF IInv, Typed, SessionKept
<1>6. QED
  BY <1>2, <1>3, <1>4, <1>5 DEF IInv

\* Tokens that are past their time are older than what any request under way may get.
LEMMA ExpireInv ==
  ASSUME IInv, NEW t \in Tokens, Expire(t)
  PROVE  IInv'
<1>1. /\ expired' = expired \cup {t} /\ t.gen <= latest[t.login] /\ t.gen < MaxGen
      /\ \A q \in Requests : request[q].token.login = t.login =>
           request[q].token.gen > t.gen \/ (request[q].token = t /\ ~request[q].retrying)
      /\ UNCHANGED <<session, who, request, flights, latest, revoked, troubled>>
  BY DEF Expire
<1>2. Typed'
  BY <1>1 DEF IInv, Typed, Running
<1>3. (Identity /\ SessionKept /\ GivenOut /\ OncePerToken /\ Current)'
  BY <1>1 DEF IInv, Identity, SessionKept, GivenOut, OncePerToken, Running, Current
<1>4. Refused'
  BY <1>1 DEF IInv, Refused, Accepted
<1>5. Fresh'
  <2> SUFFICES ASSUME NEW q \in Requests, NEW u \in expired', u.login = request[q].token.login
               PROVE  u.gen <= request[q].token.gen /\ (request[q].retrying => u # request[q].token)
    BY <1>1 DEF Fresh
  <2>1. CASE u \in expired
    BY <2>1 DEF IInv, Fresh
  <2>2. CASE u = t
    BY <2>2, <1>1, TokenFacts, RequestFacts, SessionFacts DEF IInv
  <2>3. QED
    BY <2>1, <2>2, <1>1
<1>6. QED
  BY <1>2, <1>3, <1>4, <1>5 DEF IInv

\* A request that ends keeps nothing.
LEMMA DoneRow ==
  /\ [NotSent EXCEPT !.step = "done"] \in RequestRow
  /\ [NotSent EXCEPT !.step = "done"].token = Guest
  /\ [NotSent EXCEPT !.step = "done"].login = 0
  /\ [NotSent EXCEPT !.step = "done"].step = "done"
BY DEF NotSent, RequestRow, Steps, Sessions

\* One request changes, and none that waits for a renewal that runs.
LEMMA RequestStep ==
  ASSUME IInv, NEW q \in Requests, NEW row \in RequestRow,
         request' = [request EXCEPT ![q] = row],
         UNCHANGED <<session, who, flights, latest, revoked, expired, troubled>>,
         row.token.login = row.login,
         request[q].step = "waiting" => ~Running(request[q].flight),
         row.step = "unauthorized" /\ row.token # Guest => ~Accepted(row.token),
         row.step = "waiting" => flights[row.flight].owner = row.token,
         row.step \in {"waiting", "queued"} =>
           /\ row.flight \in DOMAIN flights /\ row.token # Guest /\ ~Accepted(row.token)
           /\ ~row.retrying,
         row.token # Guest => row.token.gen <= latest[row.token.login],
         \A t \in expired : t.login = row.token.login =>
           t.gen <= row.token.gen /\ (row.retrying => t # row.token)
  PROVE  IInv'
<1>1. request'[q] = row /\ \A p \in Requests \ {q} : request'[p] = request[p]
  BY DEF IInv, Typed
<1>2. Typed'
  <2>1. request' \in [Requests -> RequestRow]
    BY DEF IInv, Typed
  <2>2. QED
    BY <1>1, <2>1 DEF IInv, Typed, Running
<1>3. Identity'
  BY <1>1 DEF IInv, Identity
<1>4. Refused'
  BY <1>1 DEF IInv, Refused, Accepted
<1>5. GivenOut'
  BY <1>1 DEF IInv, GivenOut
<1>6. OncePerToken'
  <2>1. ASSUME NEW i \in DOMAIN flights, Running(i)
        PROVE  \E p \in Requests : request'[p].step = "waiting" /\ request'[p].flight = i
    <3>1. PICK p \in Requests : request[p].step = "waiting" /\ request[p].flight = i
      BY <2>1 DEF IInv, OncePerToken
    <3>2. p # q
      BY <2>1, <3>1
    <3>3. QED
      BY <1>1, <3>1, <3>2
  <2>2. QED
    BY <2>1 DEF IInv, OncePerToken, Running
<1>7. (Current /\ Fresh /\ SessionKept)'
  BY <1>1 DEF IInv, Current, Fresh, SessionKept
<1>8. QED
  BY <1>2, <1>3, <1>4, <1>5, <1>6, <1>7 DEF IInv

\* A request ends.
LEMMA EndInv ==
  ASSUME IInv, NEW q \in Requests, End(q),
         request[q].step = "waiting" => ~Running(request[q].flight),
         UNCHANGED <<session, who, flights, latest, revoked, expired, troubled>>
  PROVE  IInv'
<1> DEFINE row == [NotSent EXCEPT !.step = "done"]
<1>1. request' = [request EXCEPT ![q] = row]
  BY DEF End
<1>2. row \in RequestRow /\ row.token = Guest /\ row.login = 0 /\ row.step = "done" /\ Guest.login = 0
  BY DoneRow DEF Guest
<1>3. \A t \in expired : t.login # 0
  BY TokenFacts DEF IInv, Typed
<1> HIDE DEF row
<1>4. QED
  BY <1>1, <1>2, <1>3, RequestStep

\* A request is answered or refused.
LEMMA ServeInv ==
  ASSUME IInv, NEW q \in Requests, Serve(q)
  PROVE  IInv'
<1>1. CASE End(q)
  BY <1>1, EndInv DEF Serve, server
<1>2. CASE /\ request[q].token = Guest \/ ~Accepted(request[q].token)
           /\ To(q, "unauthorized")
  <2> DEFINE row == [request[q] EXCEPT !.step = "unauthorized"]
  <2>1. request[q] \in RequestRow
    BY RequestFacts DEF IInv
  <2>2. /\ row \in RequestRow /\ row.step = "unauthorized" /\ row.token = request[q].token
        /\ row.login = request[q].login /\ row.retrying = request[q].retrying
    BY <2>1 DEF RequestRow, Steps
  <2>3. request' = [request EXCEPT ![q] = row]
    BY <1>2 DEF To
  <2>4. /\ row.token.login = row.login
        /\ row.token # Guest => row.token.gen <= latest[row.token.login]
        /\ \A t \in expired : t.login = row.token.login =>
             t.gen <= row.token.gen /\ (row.retrying => t # row.token)
    BY <2>2 DEF IInv, Identity, GivenOut, Fresh
  <2>5. request[q].step # "waiting"
    BY DEF Serve
  <2>6. UNCHANGED <<session, who, flights, latest, revoked, expired, troubled>>
    BY DEF Serve, server
  <2> HIDE DEF row
  <2>7. QED
    BY <1>2, <2>2, <2>3, <2>4, <2>5, <2>6, RequestStep
<1>3. QED
  BY <1>1, <1>2 DEF Serve

\* A flight that moves on keeps its tokens, and its outcome until it lands.
LEMMA FlightStep ==
  ASSUME IInv, NEW i \in DOMAIN flights, NEW step \in {"granted", "refused"},
         flights' = [flights EXCEPT ![i].step = step]
  PROVE  /\ flights' \in Seq(FlightRow) /\ Len(flights') = Len(flights)
         /\ DOMAIN flights' = DOMAIN flights /\ flights'[i].step = step
         /\ \A j \in DOMAIN flights : /\ flights'[j].owner = flights[j].owner
                                      /\ flights'[j].outcome = flights[j].outcome
                                      /\ j # i => flights'[j] = flights[j]
<1> DEFINE row == [flights[i] EXCEPT !.step = step]
<1>1. /\ row \in FlightRow /\ row.step = step
      /\ row.owner = flights[i].owner /\ row.outcome = flights[i].outcome
  BY FlightFacts DEF IInv, FlightRow
<1>2. flights' = [flights EXCEPT ![i] = row]
  OBVIOUS
<1> HIDE DEF row
<1>3. QED
  BY <1>1, <1>2, FlightMoves DEF IInv

\* What does not depend on how far the flights are.
LEMMA FlightStepKeeps ==
  ASSUME IInv, NEW i \in DOMAIN flights, NEW step \in {"granted", "refused"},
         flights' = [flights EXCEPT ![i].step = step],
         step = "granted" => flights[i].owner.gen < MaxGen,
         latest' \in [Logins -> 0..MaxGen], \A n \in Logins : latest[n] <= latest'[n],
         troubled \subseteq troubled', troubled' \subseteq Logins,
         UNCHANGED <<session, who, request, revoked, expired>>
  PROVE  (Typed /\ Identity /\ Refused /\ GivenOut /\ OncePerToken /\ Fresh /\ SessionKept)'
<1>1. /\ flights' \in Seq(FlightRow) /\ Len(flights') = Len(flights)
      /\ DOMAIN flights' = DOMAIN flights /\ flights'[i].step = step
      /\ \A j \in DOMAIN flights : /\ flights'[j].owner = flights[j].owner
                                   /\ flights'[j].outcome = flights[j].outcome
                                   /\ j # i => flights'[j] = flights[j]
  BY FlightStep
<1>2. Typed'
  BY <1>1 DEF IInv, Typed, Running
<1>3. (Identity /\ Fresh /\ SessionKept)'
  BY DEF IInv, Identity, Fresh, SessionKept
<1>4. Refused'
  BY <1>1 DEF IInv, Typed, Refused, Accepted
<1>5. GivenOut'
  <2>1. \A n \in Logins : latest[n] \in Nat /\ latest'[n] \in Nat
    BY DEF IInv, Typed
  <2>2. session # Guest => session.gen <= latest'[session.login]
    BY <2>1, SessionFacts, TokenFacts DEF IInv, Typed, GivenOut
  <2>3. ASSUME NEW t \in expired PROVE t.gen < MaxGen /\ t.gen <= latest'[t.login]
    BY <2>1, TokenFacts DEF IInv, Typed, GivenOut
  <2>4. ASSUME NEW j \in DOMAIN flights'
        PROVE  flights'[j].owner.gen <= latest'[flights'[j].owner.login]
    BY <1>1, <2>1, FlightFacts, TokenFacts DEF IInv, GivenOut
  <2>5. ASSUME NEW q \in Requests, request[q].token # Guest
        PROVE  request[q].token.gen <= latest'[request[q].token.login]
    BY <2>1, <2>5, RequestFacts, SessionFacts, TokenFacts DEF IInv, GivenOut
  <2>6. QED
    BY <2>2, <2>3, <2>4, <2>5 DEF IInv, GivenOut
<1>6. OncePerToken'
  BY <1>1 DEF IInv, OncePerToken, Running
<1>7. QED
  BY <1>2, <1>3, <1>4, <1>5, <1>6

\* One flight at most renews the tokens of the store.
LEMMA OneFlight ==
  ASSUME IInv, NEW i \in DOMAIN flights, NEW j \in DOMAIN flights,
         flights[i].owner = session, flights[j].owner = session
  PROVE  i = j
BY DEF IInv, OncePerToken

\* The server renews the last tokens it gave out, once.
LEMMA RotateInv ==
  ASSUME IInv, NEW i \in DOMAIN flights, Rotate(i)
  PROVE  IInv'
<1> DEFINE t == flights[i].owner
           ok == t.login \notin revoked /\ t.gen = latest[t.login] /\ t.gen < MaxGen
           step == IF ok THEN "granted" ELSE "refused"
<1>1. /\ flights[i].step = "calling" /\ flights' = [flights EXCEPT ![i].step = step]
      /\ latest' = IF ok THEN [latest EXCEPT ![t.login] = @ + 1] ELSE latest
      /\ UNCHANGED <<session, who, request, revoked, expired, troubled>>
  BY DEF Rotate
<1>2. t \in Tokens /\ t.login \in Logins /\ t.gen \in Nat /\ step \in {"granted", "refused"}
  BY FlightFacts, TokenFacts DEF IInv
<1>3. /\ latest' \in [Logins -> 0..MaxGen] /\ \A n \in Logins : latest[n] <= latest'[n]
      /\ \A n \in Logins : n # t.login => latest'[n] = latest[n]
      /\ ok => latest'[t.login] = t.gen + 1
      /\ ~ok => latest' = latest
  <2>1. latest \in [Logins -> 0..MaxGen]
    BY DEF IInv, Typed
  <2>2. CASE ok
    BY <1>1, <1>2, <2>1, <2>2, ClientRefreshAssumption
  <2>3. CASE ~ok
    BY <1>1, <2>1, <2>3, ClientRefreshAssumption
  <2>4. QED
    BY <2>2, <2>3
<1>4. (Typed /\ Identity /\ Refused /\ GivenOut /\ OncePerToken /\ Fresh /\ SessionKept)'
  <2>1. step = "granted" => flights[i].owner.gen < MaxGen
    OBVIOUS
  <2>2. troubled' \subseteq Logins /\ troubled \subseteq troubled'
    BY <1>1 DEF IInv, Typed
  <2> HIDE DEF step
  <2>3. QED
    BY <1>1, <1>2, <1>3, <2>1, <2>2, FlightStepKeeps
<1>5. /\ DOMAIN flights' = DOMAIN flights /\ flights'[i].step = step
      /\ \A j \in DOMAIN flights : /\ flights'[j].owner = flights[j].owner
                                   /\ j # i => flights'[j] = flights[j]
  <2>1. flights' = [flights EXCEPT ![i].step = step]
    BY <1>1
  <2> HIDE DEF step
  <2>2. QED
    BY <1>2, <2>1, FlightStep
<1>6. Current'
  <2> SUFFICES ASSUME session # Guest
               PROVE  \/ latest'[session.login] = session.gen /\ \A j \in DOMAIN flights :
                           flights[j].owner = session =>
                             flights'[j].step = "calling" \/
                             (flights'[j].step = "refused" /\ session.login \in troubled)
                      \/ \E j \in DOMAIN flights :
                           /\ flights[j].owner = session /\ latest'[session.login] = session.gen + 1
                           /\ \/ flights'[j].step = "granted"
                              \/ flights'[j].step = "refused" /\ session.login \in troubled
    BY <1>1, <1>5 DEF Current
  <2>1. session \in Tokens /\ session.login \in Logins /\ session.gen \in Nat
    BY SessionFacts, TokenFacts DEF IInv, Typed
  <2>2. CASE t = session
    <3>1. latest[session.login] = session.gen
      BY <2>2, <1>1, OneFlight DEF IInv, Current
    <3>2. CASE ok
      BY <2>2, <3>2, <1>3, <1>5
    <3>3. CASE ~ok
      <4>1. t.login \in troubled
        BY <2>2, <3>1, <3>3 DEF IInv, Refused, Accepted, GivenOut
      <4>2. QED
        BY <2>2, <3>1, <3>3, <4>1, <1>3, <1>5, OneFlight
    <3>4. QED
      BY <3>2, <3>3
  <2>3. CASE t # session
    <3>1. ok => t.login # session.login
      <4>1. t.login = session.login => t.gen <= session.gen /\ session.gen <= latest[session.login]
        BY DEF IInv, OncePerToken, GivenOut
      <4>2. ok /\ t.login = session.login => t.gen = session.gen
        BY <4>1, <1>2, <2>1
      <4>3. QED
        BY <4>2, <1>2, <2>1, <2>3, TokenFacts
    <3>2. latest'[session.login] = latest[session.login]
      BY <3>1, <2>1, <1>3
    <3>3. \A j \in DOMAIN flights : flights[j].owner = session => flights'[j] = flights[j]
      <4> SUFFICES ASSUME NEW j \in DOMAIN flights, flights[j].owner = session
                   PROVE  flights'[j] = flights[j]
        OBVIOUS
      <4>1. j # i
        BY <2>3
      <4>2. QED
        BY <4>1, <1>5
    <3>4. QED
      BY <3>2, <3>3 DEF IInv, Current
  <2>4. QED
    BY <2>2, <2>3
<1>7. QED
  BY <1>4, <1>6 DEF IInv

\* A renewal whose answer is lost has taken place or not.
LEMMA LoseRefreshInv ==
  ASSUME IInv, NEW i \in DOMAIN flights, LoseRefresh(i)
  PROVE  IInv'
<1> DEFINE t == flights[i].owner
<1>1. /\ flights' = [flights EXCEPT ![i].step = "refused"]
      /\ troubled' = troubled \cup {t.login}
      /\ UNCHANGED <<session, who, request, latest, revoked, expired>>
  BY DEF LoseRefresh, server
<1>2. t.login \in Logins
  BY FlightFacts, TokenFacts DEF IInv
<1>3. (Typed /\ Identity /\ Refused /\ GivenOut /\ OncePerToken /\ Fresh /\ SessionKept)'
  <2>1. latest' \in [Logins -> 0..MaxGen] /\ \A n \in Logins : latest[n] <= latest'[n]
    BY <1>1 DEF IInv, Typed
  <2>2. troubled' \subseteq Logins /\ troubled \subseteq troubled'
    BY <1>1, <1>2 DEF IInv, Typed
  <2>3. QED
    BY <1>1, <2>1, <2>2, FlightStepKeeps
<1>4. /\ DOMAIN flights' = DOMAIN flights /\ flights'[i].step = "refused"
      /\ \A j \in DOMAIN flights : /\ flights'[j].owner = flights[j].owner
                                   /\ j # i => flights'[j] = flights[j]
  <2>1. flights' = [flights EXCEPT ![i].step = "refused"]
    BY <1>1
  <2>2. QED
    BY <2>1, FlightStep
<1>5. Current'
  <2>1. CASE t = session
    BY <2>1, <1>1, <1>4, OneFlight DEF IInv, Current
  <2>2. CASE t # session
    BY <2>2, <1>1, <1>4 DEF IInv, Current
  <2>3. QED
    BY <2>1, <2>2
<1>6. QED
  BY <1>3, <1>5 DEF IInv

-----------------------------------------------------------------------------
(* The client. *)

\* The store changes hands only if it still holds the tokens that were renewed.
LEMMA LandInv ==
  ASSUME IInv, NEW i \in DOMAIN flights, Land(i)
  PROVE  IInv'
<1> DEFINE t == flights[i].owner
           granted == flights[i].step = "granted"
           outcome == IF ~Owns(t) THEN "stale" ELSE IF granted THEN "refreshed" ELSE "failed"
           row == [flights[i] EXCEPT !.outcome = outcome]
<1>1. /\ flights[i].step \in {"granted", "refused"} /\ Running(i)
      /\ session' = (IF session = t THEN IF granted THEN Renewed(t) ELSE Guest ELSE session)
      /\ flights' = [flights EXCEPT ![i] = row]
      /\ UNCHANGED <<who, request, latest, revoked, expired, troubled>>
  BY DEF Land, Owns, Stored, Running, server
<1>2. t \in Tokens /\ t # Guest /\ t.gen \in Nat /\ t.login \in Logins /\ t.login # 0
      /\ (granted => t.gen < MaxGen)
  BY FlightFacts, TokenFacts DEF IInv, Typed
<1>3. /\ row \in FlightRow /\ row.owner = t /\ row.step = flights[i].step
      /\ row.outcome \in {"stale", "refreshed", "failed"}
  BY FlightFacts DEF IInv, FlightRow
<1>4. /\ flights' \in Seq(FlightRow) /\ Len(flights') = Len(flights)
      /\ DOMAIN flights' = DOMAIN flights
      /\ flights'[i].outcome \in {"stale", "refreshed", "failed"}
      /\ \A j \in DOMAIN flights : /\ flights'[j].owner = flights[j].owner
                                   /\ flights'[j].step = flights[j].step
                                   /\ j # i => flights'[j] = flights[j]
  <2> HIDE DEF row
  <2>1. /\ flights' \in Seq(FlightRow) /\ Len(flights') = Len(flights)
        /\ DOMAIN flights' = DOMAIN flights
        /\ flights'[i] = row /\ \A j \in DOMAIN flights \ {i} : flights'[j] = flights[j]
    BY <1>1, <1>3, FlightMoves DEF IInv
  <2>2. QED
    BY <2>1, <1>3
<1> HIDE DEF row, outcome
<1>5. session = t => \/ granted /\ latest[t.login] = t.gen + 1
                     \/ ~granted /\ t.login \in troubled
  BY <1>1, <1>2, OneFlight DEF IInv, Current
<1>6. CASE session # t
  <2>1. session' = session
    BY <1>1, <1>6
  <2>2. Typed'
    BY <1>1, <1>4, <2>1 DEF IInv, Typed, Running
  <2>3. (Identity /\ Fresh /\ SessionKept)'
    BY <1>1, <2>1 DEF IInv, Identity, Fresh, SessionKept
  <2>4. (Refused /\ GivenOut)'
    BY <1>1, <1>4, <2>1 DEF IInv, Typed, Refused, GivenOut, Accepted
  <2>5. OncePerToken'
    BY <1>1, <1>4, <1>6, <2>1 DEF IInv, OncePerToken, Running
  <2>6. Current'
    BY <1>1, <1>4, <2>1 DEF IInv, Current
  <2>7. QED
    BY <2>2, <2>3, <2>4, <2>5, <2>6 DEF IInv
<1>7. CASE session = t
  <2>1. \/ /\ granted /\ session' \in Tokens /\ session' # Guest
           /\ session'.login = t.login /\ session'.gen = t.gen + 1
        \/ ~granted /\ session' = Guest
    BY <1>1, <1>2, <1>7, RenewedFacts, TokenFacts
  <2>2. Typed'
    BY <1>1, <1>4, <2>1 DEF IInv, Typed, Running, Sessions
  <2>3. (Identity /\ Fresh)'
    BY <1>1, <1>2, <1>7, <2>1 DEF IInv, Identity, Fresh
  <2>4. SessionKept'
    BY <1>1, <1>2, <1>5, <1>7, <2>1 DEF IInv, Identity, SessionKept
  <2>5. Refused'
    BY <1>1, <1>4 DEF IInv, Typed, Refused, Accepted
  <2>6. GivenOut'
    <3>1. session' # Guest => session'.gen <= latest[session'.login]
      <4>1. CASE granted
        BY <4>1, <1>2, <1>5, <1>7, <2>1
      <4>2. CASE session' = Guest
        BY <4>2
      <4>3. QED
        BY <2>1, <4>1, <4>2
    <3>2. \A j \in DOMAIN flights' : flights'[j].owner.gen <= latest[flights'[j].owner.login]
      BY <1>4 DEF IInv, GivenOut
    <3>3. QED
      BY <1>1, <3>1, <3>2 DEF IInv, GivenOut
  <2>7. \A j \in DOMAIN flights : flights[j].owner # session' /\
          (flights[j].owner.login = session'.login => flights[j].owner.gen <= session'.gen)
    <3> SUFFICES ASSUME NEW j \in DOMAIN flights
                 PROVE  flights[j].owner # session' /\
                        (flights[j].owner.login = session'.login => flights[j].owner.gen <= session'.gen)
      OBVIOUS
    <3>1. flights[j].owner \in Tokens /\ flights[j].owner # Guest /\ flights[j].owner.gen \in Nat
          /\ flights[j].owner.login # 0 /\ Guest.login = 0
      BY FlightFacts, TokenFacts DEF IInv, Guest
    <3>2. flights[j].owner.login = t.login => flights[j].owner.gen <= t.gen
      BY <1>7 DEF IInv, OncePerToken
    <3>3. QED
      BY <1>2, <2>1, <3>1, <3>2
  <2>8. OncePerToken'
    <3>1. ASSUME NEW j \in DOMAIN flights', Running(j)' PROVE Running(j)
      BY <1>4, <3>1 DEF Running
    <3>2. QED
      BY <1>1, <1>4, <2>7, <3>1 DEF IInv, OncePerToken
  <2>9. Current'
    BY <1>1, <1>4, <1>5, <1>7, <2>1, <2>7 DEF Current
  <2>10. QED
    BY <2>2, <2>3, <2>4, <2>5, <2>6, <2>8, <2>9 DEF IInv
<1>8. QED
  BY <1>6, <1>7

\* The tokens of the store are not older than any that are past their time.
LEMMA StoreFresh ==
  ASSUME IInv, NEW t \in expired, t.login = session.login
  PROVE  t.gen <= session.gen
<1>1. t \in Tokens /\ t.login # 0 /\ t.gen \in Nat /\ t.gen <= latest[t.login]
  BY TokenFacts DEF IInv, Typed, GivenOut
<1>2. session # Guest /\ session.gen \in Nat
  BY <1>1, SessionFacts DEF IInv, Typed
<1>3. CASE latest[session.login] = session.gen
  BY <1>1, <1>3
<1>4. CASE latest[session.login] # session.gen
  <2>1. PICK i \in DOMAIN flights : flights[i].owner = session
    BY <1>2, <1>4 DEF IInv, Current
  <2>2. PICK q \in Requests : request[q].step = "waiting" /\ request[q].flight = i
    BY <2>1 DEF IInv, OncePerToken
  <2>3. request[q].token = session
    BY <2>1, <2>2 DEF IInv, Refused
  <2>4. QED
    BY <2>3 DEF IInv, Fresh
<1>5. QED
  BY <1>3, <1>4

\* A request is sent with what the store holds.
LEMMA SendInv ==
  ASSUME IInv, NEW q \in Requests, Send(q) \/ BeginLogout(q)
  PROVE  IInv'
<1> DEFINE row == [NotSent EXCEPT !.step = "flying", !.token = session, !.login = session.login]
<1>1. /\ request' = [request EXCEPT ![q] = row] /\ request[q].step = "idle"
      /\ UNCHANGED <<session, who, flights, latest, revoked, expired, troubled>>
  BY DEF Send, BeginLogout, Issue, server
<1>2. session \in Sessions /\ session.login \in Logins \cup {0}
  BY SessionFacts, TokenFacts DEF IInv, Typed
<1>3. /\ row \in RequestRow /\ row.step = "flying" /\ row.token = session
      /\ row.login = session.login /\ row.retrying = FALSE
  BY <1>2 DEF NotSent, RequestRow, Steps
<1>4. session # Guest => session.gen <= latest[session.login]
  BY DEF IInv, GivenOut
<1>5. \A t \in expired : t.login = session.login => t.gen <= session.gen
  BY StoreFresh
<1> HIDE DEF row
<1>6. QED
  BY <1>1, <1>3, <1>4, <1>5, RequestStep

\* A request is sent again with the tokens it waited for.
LEMMA ContinueInv ==
  ASSUME IInv, NEW q \in Requests, Continue(q)
  PROVE  IInv'
<1> DEFINE f == flights[request[q].flight]
           row == [request[q] EXCEPT !.step = "flying", !.token = session, !.retrying = TRUE]
<1>1. /\ request[q].step = "waiting" /\ ~Running(request[q].flight)
      /\ UNCHANGED <<session, who, flights, latest, revoked, expired, troubled>>
  BY DEF Continue, Finished, Running, server
<1>2. CASE End(q)
  BY <1>1, <1>2, EndInv
<1>3. CASE MayReplay(q, f) /\ request' = [request EXCEPT ![q] = row]
  <2>1. request[q] \in RequestRow /\ session \in Sessions
    BY RequestFacts DEF IInv, Typed
  <2>2. /\ row \in RequestRow /\ row.step = "flying" /\ row.token = session
        /\ row.login = request[q].login /\ row.retrying = TRUE
    BY <2>1 DEF RequestRow, Steps
  <2>3. /\ request[q].token \in Tokens /\ request[q].token.gen \in Nat
        /\ session = Renewed(request[q].token)
    BY <1>1, <1>3, RequestFacts, SessionFacts, TokenFacts DEF MayReplay, IInv, Refused
  <2>4. session.login = request[q].token.login /\ session.gen = request[q].token.gen + 1
    BY <2>3 DEF Renewed, Tokens
  <2>5. session.login = request[q].login
    BY <2>4 DEF IInv, Identity
  <2>6. session # Guest => session.gen <= latest[session.login]
    BY DEF IInv, GivenOut
  <2>7. ASSUME NEW t \in expired, t.login = session.login
        PROVE  t.gen <= session.gen /\ t # session
    <3>1. t.gen <= request[q].token.gen /\ t.gen \in Nat
      BY <2>4, <2>7, TokenFacts DEF IInv, Typed, Fresh
    <3>2. QED
      BY <2>3, <2>4, <3>1
  <2> HIDE DEF row
  <2>8. QED
    BY <1>1, <1>3, <2>2, <2>5, <2>6, <2>7, RequestStep
<1>4. QED
  BY <1>2, <1>3 DEF Continue

\* Tokens of the store that share no flight and wait for none were never renewed.
LEMMA NeverRenewed ==
  ASSUME IInv, ~Shares(session), ~Blocked(session)
  PROVE  \A j \in DOMAIN flights : ~Running(j) /\ flights[j].owner # session
<1> SUFFICES ASSUME NEW j \in DOMAIN flights, Running(j)
             PROVE  FALSE
  BY DEF IInv, OncePerToken
<1>1. j = Len(flights) /\ flights # <<>>
  BY FlightFacts DEF IInv, OncePerToken
<1>2. Existing.outcome = "none"
  BY <1>1 DEF Existing, Running
<1>3. QED
  BY <1>1, <1>2 DEF Shares, Blocked

\* A renewal begins for tokens that no other flight has renewed, while none runs.
LEMMA BeginRefresh ==
  ASSUME IInv, NEW q \in Requests, request[q].step \in {"unauthorized", "queued"},
         request[q].token # Guest, ~request[q].retrying, ~Accepted(request[q].token),
         ~Shares(request[q].token), ~Blocked(request[q].token), session = request[q].token,
         flights' = Append(flights, [owner |-> session, step |-> "calling", outcome |-> "none"]),
         WaitFor(q, "waiting", Len(flights')),
         UNCHANGED <<session, who, latest, revoked, expired, troubled>>
  PROVE  IInv'
<1> DEFINE new == [owner |-> session, step |-> "calling", outcome |-> "none"]
           n == Len(flights')
           row == [request[q] EXCEPT !.step = "waiting", !.flight = n]
<1>1. session \in Tokens /\ session # Guest
  BY SessionFacts DEF IInv, Typed
<1>2. /\ new \in FlightRow /\ new.owner = session /\ new.step = "calling" /\ new.outcome = "none"
  BY <1>1 DEF FlightRow
<1>3. /\ flights' \in Seq(FlightRow) /\ n = Len(flights) + 1 /\ Len(flights) \in Nat /\ n \in Nat
      /\ DOMAIN flights' = DOMAIN flights \cup {n} /\ n \notin DOMAIN flights
      /\ flights'[n] = new /\ \A j \in DOMAIN flights : flights'[j] = flights[j]
  <2> HIDE DEF new
  <2>1. flights' = Append(flights, new)
    BY DEF new
  <2>2. QED
    BY <1>2, <2>1, FlightAdded DEF IInv
<1>4. request[q] \in RequestRow
  BY RequestFacts DEF IInv
<1>5. /\ row \in RequestRow /\ row.step = "waiting" /\ row.flight = n /\ row.token = session
      /\ row.login = request[q].login /\ row.retrying = request[q].retrying
  BY <1>3, <1>4 DEF RequestRow, Steps
<1>6. request' = [request EXCEPT ![q] = row]
  BY DEF WaitFor
<1> HIDE DEF new, row, n
<1>7. /\ request'[q] = row /\ \A p \in Requests \ {q} : request'[p] = request[p]
      /\ request' \in [Requests -> RequestRow]
  BY <1>5, <1>6 DEF IInv, Typed
<1>8. \A j \in DOMAIN flights : ~Running(j) /\ flights[j].owner # session
  BY NeverRenewed
<1>9. Typed'
  <2>1. ASSUME NEW p \in Requests, request'[p].step \in {"waiting", "queued"}
        PROVE  request'[p].flight \in DOMAIN flights'
    BY <2>1, <1>3, <1>5, <1>7 DEF IInv, Typed
  <2>2. ASSUME NEW j \in DOMAIN flights'
        PROVE  /\ flights'[j].step = "calling" => flights'[j].outcome = "none"
               /\ flights'[j].step = "granted" => flights'[j].owner.gen < MaxGen
    BY <1>2, <1>3 DEF IInv, Typed, Running
  <2>3. QED
    BY <1>3, <1>7, <2>1, <2>2 DEF IInv, Typed, Running
<1>10. Identity'
  BY <1>5, <1>7 DEF IInv, Identity
<1>11. Refused'
  <2>1. ASSUME NEW j \in DOMAIN flights' PROVE ~Accepted(flights'[j].owner)
    BY <1>2, <1>3 DEF IInv, Refused
  <2>2. ASSUME NEW p \in Requests
        PROVE  /\ request'[p].step = "unauthorized" /\ request'[p].token # Guest =>
                    ~Accepted(request'[p].token)
               /\ request'[p].step \in {"waiting", "queued"} =>
                    request'[p].token # Guest /\ ~Accepted(request'[p].token)
               /\ request'[p].step = "waiting" =>
                    flights'[request'[p].flight].owner = request'[p].token
               /\ request'[p].step \in {"waiting", "queued"} => ~request'[p].retrying
    <3>1. CASE p = q
      BY <3>1, <1>1, <1>2, <1>3, <1>5, <1>7
    <3>2. CASE p # q
      BY <3>2, <1>3, <1>7 DEF IInv, Typed, Refused
    <3>3. QED
      BY <3>1, <3>2
  <2>3. QED
    BY <2>1, <2>2 DEF Refused, Accepted
<1>12. GivenOut'
  BY <1>2, <1>3, <1>5, <1>7, <1>1 DEF IInv, GivenOut
<1>13. OncePerToken'
  <2>1. \A j \in DOMAIN flights' : Running(j)' => j = n
    BY <1>3, <1>8 DEF Running
  <2>2. request'[q].step = "waiting" /\ request'[q].flight = n
    BY <1>5, <1>7
  <2>3. \A j \in DOMAIN flights' : flights'[j].owner = session => Running(j)'
    BY <1>2, <1>3, <1>8 DEF Running
  <2>4. \A j \in DOMAIN flights' : flights'[j].owner.login = session.login =>
          flights'[j].owner.gen <= session.gen
    <3>1. session.gen \in Nat
      BY <1>1, TokenFacts
    <3>2. QED
      BY <1>2, <1>3, <3>1 DEF IInv, OncePerToken
  <2>5. QED
    BY <2>1, <2>2, <2>3, <2>4 DEF OncePerToken, n
<1>14. Current'
  BY <1>1, <1>2, <1>3, <1>8 DEF IInv, Current
<1>15. (Fresh /\ SessionKept)'
  BY <1>5, <1>7 DEF IInv, Fresh, SessionKept
<1>16. QED
  BY <1>9, <1>10, <1>11, <1>12, <1>13, <1>14, <1>15 DEF IInv

\* A request that waits for a flight there is.
LEMMA WaitInv ==
  ASSUME IInv, NEW q \in Requests, request[q].step \in {"unauthorized", "queued"},
         request[q].token # Guest, ~request[q].retrying, ~Accepted(request[q].token),
         NEW step \in {"waiting", "queued"}, NEW i \in DOMAIN flights,
         step = "waiting" => flights[i].owner = request[q].token,
         WaitFor(q, step, i),
         UNCHANGED <<session, who, flights, latest, revoked, expired, troubled>>
  PROVE  IInv'
<1> DEFINE row == [request[q] EXCEPT !.step = step, !.flight = i]
<1>1. request[q] \in RequestRow /\ i \in Nat
  BY RequestFacts, FlightFacts DEF IInv
<1>2. /\ row \in RequestRow /\ row.step = step /\ row.flight = i /\ row.token = request[q].token
      /\ row.login = request[q].login /\ row.retrying = request[q].retrying
  BY <1>1 DEF RequestRow, Steps
<1>3. request' = [request EXCEPT ![q] = row]
  BY DEF WaitFor
<1>4. /\ row.token.login = row.login
      /\ row.token # Guest => row.token.gen <= latest[row.token.login]
      /\ \A t \in expired : t.login = row.token.login =>
           t.gen <= row.token.gen /\ (row.retrying => t # row.token)
  BY <1>2 DEF IInv, Identity, GivenOut, Fresh
<1> HIDE DEF row
<1>5. QED
  BY <1>2, <1>3, <1>4, RequestStep

\* A refused request joins a flight, waits for another one, ends, or begins its own.
LEMMA RefreshForInv ==
  ASSUME IInv, NEW q \in Requests, request[q].step \in {"unauthorized", "queued"},
         request[q].token # Guest, ~request[q].retrying, ~Accepted(request[q].token),
         RefreshFor(q), UNCHANGED <<session, who, latest, revoked, expired, troubled>>
  PROVE  IInv'
<1> DEFINE t == request[q].token
<1>1. ASSUME flights # <<>>
      PROVE  Len(flights) \in DOMAIN flights
  <2>1. flights \in Seq(FlightRow)
    BY DEF IInv, Typed
  <2>2. QED
    BY <1>1, <2>1
<1>2. CASE Shares(t) /\ WaitFor(q, "waiting", Len(flights)) /\ UNCHANGED flights
  BY <1>1, <1>2, WaitInv DEF Shares, Existing
<1>3. CASE Blocked(t) /\ WaitFor(q, "queued", Len(flights)) /\ UNCHANGED flights
  BY <1>1, <1>3, WaitInv DEF Blocked
<1>4. CASE End(q) /\ UNCHANGED flights
  BY <1>4, EndInv
<1>5. CASE /\ ~Shares(t) /\ ~Blocked(t) /\ session = t
           /\ flights' = Append(flights, [owner |-> t, step |-> "calling", outcome |-> "none"])
           /\ WaitFor(q, "waiting", Len(flights'))
  BY <1>5, BeginRefresh
<1>6. QED
  BY <1>2, <1>3, <1>4, <1>5 DEF RefreshFor

\* A request that is refused again ends the session it was sent with.
LEMMA SessionEnds ==
  ASSUME IInv, NEW q \in Requests, request[q].step = "unauthorized",
         request[q].retrying \/ request[q].token = Guest,
         session' = (IF session = request[q].token THEN Guest ELSE session), End(q),
         UNCHANGED <<who, flights, latest, revoked, expired, troubled>>
  PROVE  IInv'
<1>1. CASE session' = session
  BY <1>1, EndInv
<1>2. CASE session' # session
  <2> DEFINE row == [NotSent EXCEPT !.step = "done"]
             t == request[q].token
  <2>1. session = t /\ session' = Guest /\ t # Guest /\ request[q].retrying /\ t \in Tokens
    BY <1>2, RequestFacts, SessionFacts DEF IInv
  <2>2. t.login \in troubled /\ t.login = who
    BY <2>1 DEF IInv, Identity, Refused, Accepted, Fresh, GivenOut
  <2>3. request' = [request EXCEPT ![q] = row]
    BY DEF End
  <2>4. row \in RequestRow /\ row.token = Guest /\ row.login = 0 /\ row.step = "done"
        /\ Guest.login = 0 /\ Guest \in Sessions
    BY DoneRow DEF Guest, Sessions
  <2> HIDE DEF row
  <2>5. /\ request'[q] = row /\ \A p \in Requests \ {q} : request'[p] = request[p]
        /\ request' \in [Requests -> RequestRow]
    BY <2>3, <2>4 DEF IInv, Typed
  <2>6. Typed'
    BY <2>1, <2>4, <2>5 DEF IInv, Typed, Running
  <2>7. (Identity /\ SessionKept /\ Current)'
    BY <2>1, <2>2, <2>4, <2>5 DEF IInv, Identity, SessionKept, Current
  <2>8. (Refused /\ GivenOut)'
    BY <2>1, <2>4, <2>5 DEF IInv, Refused, GivenOut, Accepted
  <2>9. OncePerToken'
    <3>1. \A i \in DOMAIN flights : flights[i].owner # Guest /\ flights[i].owner.login # Guest.login
      BY <2>4, FlightFacts, TokenFacts DEF IInv
    <3>2. ASSUME NEW i \in DOMAIN flights, Running(i)
          PROVE  \E p \in Requests : request'[p].step = "waiting" /\ request'[p].flight = i
      <4>1. PICK p \in Requests : request[p].step = "waiting" /\ request[p].flight = i
        BY <3>2 DEF IInv, OncePerToken
      <4>2. QED
        BY <4>1, <2>5
    <3>3. QED
      BY <2>1, <3>1, <3>2 DEF IInv, OncePerToken, Running
  <2>10. Fresh'
    <3>1. \A t1 \in expired : t1.login # 0
      BY TokenFacts DEF IInv, Typed
    <3>2. QED
      BY <3>1, <2>4, <2>5 DEF IInv, Fresh
  <2>11. QED
    BY <2>6, <2>7, <2>8, <2>9, <2>10 DEF IInv
<1>3. QED
  BY <1>1, <1>2

\* A refused request, the first or the second time, and one whose turn comes.
LEMMA UnauthorizedInv ==
  ASSUME IInv, NEW q \in Requests, Unauthorized(q) \/ AskAgain(q)
  PROVE  IInv'
<1>1. CASE AskAgain(q)
  BY <1>1, RefreshForInv DEF AskAgain, server, IInv, Refused
<1>2. CASE Unauthorized(q)
  <2>1. request[q].step = "unauthorized" /\ UNCHANGED <<who, latest, revoked, expired, troubled>>
    BY <1>2 DEF Unauthorized, server
  <2>2. CASE request[q].retrying \/ request[q].token = Guest
    BY <1>2, <2>1, <2>2, SessionEnds DEF Unauthorized
  <2>3. CASE ~request[q].retrying /\ request[q].token # Guest
    BY <1>2, <2>1, <2>3, RefreshForInv DEF Unauthorized, IInv, Refused
  <2>4. QED
    BY <2>2, <2>3
<1>3. QED
  BY <1>1, <1>2

-----------------------------------------------------------------------------
\* Every step keeps the invariant.
LEMMA StepInv == IInv /\ [Next]_vars => IInv'
<1> SUFFICES ASSUME IInv, [Next]_vars PROVE IInv'
  OBVIOUS
<1>1. CASE UNCHANGED vars
  BY <1>1 DEF vars, IInv, Typed, Identity, Refused, GivenOut, OncePerToken, Current, Fresh,
              SessionKept, Running, Accepted
<1>2. ASSUME NEW q \in Requests, Send(q) \/ BeginLogout(q) \/ Handle(q) PROVE IInv'
  BY <1>2, SendInv, ServeInv, UnauthorizedInv, ContinueInv, LogoutInv DEF Handle
<1>3. ASSUME NEW i \in DOMAIN flights, Call(i) \/ LoseRefresh(i) PROVE IInv'
  BY <1>3, RotateInv, LandInv, LoseRefreshInv DEF Call
<1>4. QED
  BY <1>1, <1>2, <1>3, LoginInv, RevokeInv, ExpireInv DEF Next

\* The invariant holds in every state the client can reach.
LEMMA Invariance == Spec => []IInv
BY InitInv, StepInv, PTL DEF Spec

-----------------------------------------------------------------------------
(* What the code promises. *)

\* No late answer brings back a session that was left or replaced, and no request goes out
\* under another login than its own (refreshAccessToken, apiRequest).
THEOREM IdentityTheorem == Spec => []OwnIdentity
<1>1. IInv => OwnIdentity
  BY DEF IInv, Identity, OwnIdentity
<1>2. QED
  BY <1>1, Invariance, PTL

\* However many requests fail at once, the session is not lost for it: it takes the user, the
\* server, a refresh without an answer, or a logout from before the login that ends after it
\* (refreshFor, MePage).
THEOREM SessionTheorem == Spec => []SessionKept
BY Invariance, PTL DEF IInv

-----------------------------------------------------------------------------
(* How often the client renews at all. *)

\* No tokens are renewed twice, and every request has waited for a flight there is.
OneFlightPerToken ==
  /\ \A i, j \in DOMAIN flights : flights[i].owner = flights[j].owner => i = j
  /\ \A q \in Requests : request[q].flight \in 0..Len(flights)

\* A step that writes one request.
LEMMA RequestKeepsFlights ==
  ASSUME IInv, OneFlightPerToken, NEW q \in Requests, NEW row \in RequestRow,
         row.flight \in 0..Len(flights), request' = [request EXCEPT ![q] = row], flights' = flights
  PROVE  OneFlightPerToken'
<1>1. request'[q] = row /\ \A p \in Requests \ {q} : request'[p] = request[p]
  BY DEF IInv, Typed
<1>2. QED
  BY <1>1 DEF OneFlightPerToken

\* Sending, ending, trying again or waiting for the last flight.
LEMMA RequestMoves ==
  ASSUME IInv, OneFlightPerToken, NEW q \in Requests, flights' = flights,
         Send(q) \/ BeginLogout(q) \/ Handle(q)
  PROVE  OneFlightPerToken'
<1> DEFINE old == request[q]
<1>1. old \in RequestRow /\ old.flight \in 0..Len(flights) /\ session \in Sessions
  BY RequestFacts DEF IInv, Typed, OneFlightPerToken
<1>2. Len(flights) \in Nat /\ session.login \in Logins \cup {0}
  <2>1. flights \in Seq(FlightRow)
    BY DEF IInv, Typed
  <2>2. QED
    BY <1>1, <2>1, SessionFacts, TokenFacts
<1>3. NotSent \in RequestRow /\ NotSent.flight = 0
  BY DEF NotSent, RequestRow, Steps, Sessions
<1>4. ASSUME NEW row, request' = [request EXCEPT ![q] = row],
             row \in RequestRow /\ row.flight \in 0..Len(flights)
      PROVE  OneFlightPerToken'
  BY <1>4, RequestKeepsFlights
<1>5. CASE Send(q) \/ BeginLogout(q)
  <2> DEFINE row == [NotSent EXCEPT !.step = "flying", !.token = session, !.login = session.login]
  <2>1. request' = [request EXCEPT ![q] = row]
    BY <1>5 DEF Send, BeginLogout, Issue
  <2>2. row \in RequestRow /\ row.flight = 0
    BY <1>1, <1>2 DEF NotSent, RequestRow, Steps, Sessions
  <2> HIDE DEF row
  <2>3. row.flight \in 0..Len(flights)
    BY <1>2, <2>2
  <2>4. QED
    BY <1>4, <2>1, <2>2, <2>3
<1>6. CASE End(q)
  <2> DEFINE row == [NotSent EXCEPT !.step = "done"]
  <2>1. request' = [request EXCEPT ![q] = row]
    BY <1>6 DEF End
  <2>2. row \in RequestRow /\ row.flight = 0
    BY <1>3 DEF RequestRow, Steps
  <2> HIDE DEF row
  <2>3. row.flight \in 0..Len(flights)
    BY <1>2, <2>2
  <2>4. QED
    BY <1>4, <2>1, <2>2, <2>3
<1>7. CASE To(q, "unauthorized")
  <2> DEFINE row == [old EXCEPT !.step = "unauthorized"]
  <2>1. request' = [request EXCEPT ![q] = row]
    BY <1>7 DEF To
  <2>2. row \in RequestRow /\ row.flight = old.flight
    BY <1>1 DEF RequestRow, Steps
  <2> HIDE DEF row
  <2>3. QED
    BY <1>1, <1>4, <2>1, <2>2
<1>8. ASSUME NEW step \in {"waiting", "queued"}, WaitFor(q, step, Len(flights))
      PROVE  OneFlightPerToken'
  <2> DEFINE row == [old EXCEPT !.step = step, !.flight = Len(flights)]
  <2>1. request' = [request EXCEPT ![q] = row]
    BY <1>8 DEF WaitFor
  <2>2. row \in RequestRow /\ row.flight = Len(flights)
    BY <1>1, <1>2 DEF RequestRow, Steps
  <2> HIDE DEF row
  <2>3. row.flight \in 0..Len(flights)
    BY <1>2, <2>2
  <2>4. QED
    BY <1>4, <2>1, <2>2, <2>3
<1>9. CASE request' = [request EXCEPT ![q].step = "flying", ![q].token = session,
                                      ![q].retrying = TRUE]
  <2> DEFINE row == [old EXCEPT !.step = "flying", !.token = session, !.retrying = TRUE]
  <2>1. request' = [request EXCEPT ![q] = row]
    BY <1>9
  <2>2. row \in RequestRow /\ row.flight = old.flight
    BY <1>1 DEF RequestRow, Steps
  <2> HIDE DEF row
  <2>3. QED
    BY <1>1, <1>4, <2>1, <2>2
<1>10. ASSUME NEW new PROVE flights' # Append(flights, new)
  <2>1. flights \in Seq(FlightRow) /\ flights' \in Seq(FlightRow)
    BY DEF IInv, Typed
  <2>2. SUFFICES ASSUME flights = Append(flights, new) PROVE FALSE
    OBVIOUS
  <2>3. Len(Append(flights, new)) = Len(flights) + 1
    BY <2>1
  <2>4. QED
    BY <1>2, <2>2, <2>3
<1>11. CASE RefreshFor(q)
  BY <1>6, <1>8, <1>10, <1>11 DEF RefreshFor
<1>12. CASE UNCHANGED request
  BY <1>12 DEF OneFlightPerToken
<1>13. QED
  BY <1>5, <1>6, <1>7, <1>9, <1>11, <1>12 DEF Handle, EndLogout, Serve, Unauthorized, Continue, AskAgain

\* A flight that moves on stays the flight of its tokens.
LEMMA FlightKeepsTokens ==
  ASSUME IInv, OneFlightPerToken, NEW i \in DOMAIN flights, Call(i) \/ LoseRefresh(i)
  PROVE  OneFlightPerToken'
<1>1. flights[i] \in FlightRow /\ request' = request
  BY FlightFacts DEF IInv, Call, Rotate, Land, LoseRefresh
<1>2. \/ \E step \in {"granted", "refused"} : flights' = [flights EXCEPT ![i].step = step]
      \/ \E outcome \in {"refreshed", "failed", "stale"} :
           flights' = [flights EXCEPT ![i].outcome = outcome]
  BY DEF Call, Rotate, Land, LoseRefresh
<1>3. PICK row \in FlightRow :
        row.owner = flights[i].owner /\ flights' = [flights EXCEPT ![i] = row]
  <2>1. ASSUME NEW step \in {"granted", "refused"}, flights' = [flights EXCEPT ![i].step = step]
        PROVE  \E row \in FlightRow :
                 row.owner = flights[i].owner /\ flights' = [flights EXCEPT ![i] = row]
    <3>1. [flights[i] EXCEPT !.step = step] \in FlightRow
      BY <1>1 DEF FlightRow
    <3>2. [flights[i] EXCEPT !.step = step].owner = flights[i].owner
      BY <1>1 DEF FlightRow
    <3>3. QED
      BY <2>1, <3>1, <3>2
  <2>2. ASSUME NEW outcome \in {"refreshed", "failed", "stale"},
               flights' = [flights EXCEPT ![i].outcome = outcome]
        PROVE  \E row \in FlightRow :
                 row.owner = flights[i].owner /\ flights' = [flights EXCEPT ![i] = row]
    <3>1. [flights[i] EXCEPT !.outcome = outcome] \in FlightRow
      BY <1>1 DEF FlightRow
    <3>2. [flights[i] EXCEPT !.outcome = outcome].owner = flights[i].owner
      BY <1>1 DEF FlightRow
    <3>3. QED
      BY <2>2, <3>1, <3>2
  <2>3. QED
    BY <1>2, <2>1, <2>2
<1>4. /\ Len(flights') = Len(flights) /\ DOMAIN flights' = DOMAIN flights
      /\ \A j \in DOMAIN flights : flights'[j].owner = flights[j].owner
  BY <1>3, FlightMoves DEF IInv
<1>5. QED
  BY <1>1, <1>4 DEF OneFlightPerToken

\* A flight that begins is the first of its tokens.
LEMMA FlightBegins ==
  ASSUME IInv, OneFlightPerToken, NEW q \in Requests, Handle(q), flights' # flights
  PROVE  OneFlightPerToken'
<1> DEFINE t == request[q].token
           new == [owner |-> t, step |-> "calling", outcome |-> "none"]
           n == Len(flights')
<1>1. /\ ~Shares(t) /\ ~Blocked(t) /\ session = t /\ flights' = Append(flights, new)
      /\ WaitFor(q, "waiting", n) /\ request[q].step \in {"unauthorized", "queued"} /\ t # Guest
  <2>1. RefreshFor(q) /\ request[q].step \in {"unauthorized", "queued"} /\ t # Guest
    BY DEF Handle, Serve, Unauthorized, Continue, AskAgain, EndLogout, IInv, Refused
  <2>2. QED
    BY <2>1 DEF RefreshFor
<1>2. request[q] \in RequestRow /\ t \in Tokens
  BY <1>1, RequestFacts, SessionFacts DEF IInv
<1>3. \A j \in DOMAIN flights : flights[j].owner # t
  BY <1>1, NeverRenewed
<1>4. new \in FlightRow /\ new.owner = t
  BY <1>2 DEF FlightRow
<1> HIDE DEF new
<1>5. /\ n = Len(flights) + 1 /\ Len(flights) \in Nat /\ DOMAIN flights' = DOMAIN flights \cup {n}
      /\ flights'[n] = new /\ \A j \in DOMAIN flights : flights'[j] = flights[j]
  BY <1>1, <1>4, FlightAdded DEF IInv
<1> DEFINE row == [request[q] EXCEPT !.step = "waiting", !.flight = n]
<1>6. row.flight = n /\ request' = [request EXCEPT ![q] = row]
  BY <1>1, <1>2 DEF RequestRow, WaitFor
<1> HIDE DEF row, n
<1>7. request'[q] = row /\ \A p \in Requests \ {q} : request'[p] = request[p]
  BY <1>6 DEF IInv, Typed
<1>8. \A p \in Requests : request'[p].flight \in 0..n
  BY <1>5, <1>6, <1>7 DEF OneFlightPerToken
<1>9. \A i, j \in DOMAIN flights' : flights'[i].owner = flights'[j].owner => i = j
  BY <1>3, <1>4, <1>5 DEF OneFlightPerToken
<1>10. QED
  BY <1>8, <1>9 DEF OneFlightPerToken, n

\* No tokens are ever renewed twice.
LEMMA FlightsStep == IInv /\ OneFlightPerToken /\ [Next]_vars => OneFlightPerToken'
<1> SUFFICES ASSUME IInv, OneFlightPerToken, [Next]_vars PROVE OneFlightPerToken'
  OBVIOUS
<1>1. CASE UNCHANGED <<request, flights>>
  BY <1>1 DEF OneFlightPerToken
<1>2. ASSUME NEW q \in Requests, Send(q) \/ BeginLogout(q) \/ Handle(q) PROVE OneFlightPerToken'
  <2>1. CASE flights' = flights
    BY <1>2, <2>1, RequestMoves
  <2>2. CASE flights' # flights
    BY <1>2, <2>2, FlightBegins DEF Send, BeginLogout
  <2>3. QED
    BY <2>1, <2>2
<1>3. ASSUME NEW i \in DOMAIN flights, Call(i) \/ LoseRefresh(i) PROVE OneFlightPerToken'
  BY <1>3, FlightKeepsTokens
<1>4. QED
  BY <1>1, <1>2, <1>3 DEF Next, vars, Login, Revoke, Expire

\* The numbers from 1 to n are n numbers.
LEMMA CountTo ==
  ASSUME NEW n \in Nat
  PROVE  IsFiniteSet(1..n) /\ Cardinality(1..n) = n
<1>1. IsFiniteSet(1..n) /\ Cardinality(1..n) = IF 1 > n THEN 0 ELSE n - 1 + 1
  <2>1. 1 \in Int /\ n \in Int
    OBVIOUS
  <2>2. QED
    BY <2>1, FS_Interval, Zenon
<1>2. QED
  BY <1>1

\* So there are no more flights than tokens.
LEMMA FlightsBounded ==
  ASSUME IInv, OneFlightPerToken
  PROVE  Len(flights) \in Nat /\ Len(flights) <= MaxLogins * MaxGen
<1> DEFINE n == Len(flights)
           P == Logins \X (1..MaxGen)
           f == [i \in 1..n |-> <<flights[i].owner.login, flights[i].owner.gen>>]
<1>1. n \in Nat /\ DOMAIN flights = 1..n
  <2>1. flights \in Seq(FlightRow)
    BY DEF IInv, Typed
  <2>2. QED
    BY <2>1
<1>2. ASSUME NEW i \in 1..n
      PROVE  /\ flights[i].owner \in Tokens /\ flights[i].owner.login \in Logins
             /\ flights[i].owner.gen \in 1..MaxGen
  BY <1>1, FlightFacts, TokenFacts DEF IInv
<1>3. \A i, j \in 1..n : f[i] = f[j] => i = j
  BY <1>1, <1>2, TokenFacts DEF OneFlightPerToken
<1>4. /\ IsFiniteSet(Logins) /\ Cardinality(Logins) = MaxLogins
      /\ IsFiniteSet(1..MaxGen) /\ Cardinality(1..MaxGen) = MaxGen
  BY FS_Interval, ClientRefreshAssumption DEF Logins
<1>5. IsFiniteSet(P) /\ Cardinality(P) = MaxLogins * MaxGen
  BY <1>4, FS_Product
<1>6. Cardinality(1..n) <= Cardinality(P)
  <2>1. f \in [1..n -> P]
    BY <1>2
  <2>2. IsFiniteSet(1..n) /\ Cardinality(1..n) = n
    BY <1>1, CountTo
  <2>3. Cardinality(P) \in Nat
    BY <1>5, FS_CardinalityType
  <2> HIDE DEF f, P
  <2>4. ~(Cardinality(P) < Cardinality(1..n))
    <3> SUFFICES ASSUME Cardinality(P) < Cardinality(1..n) PROVE FALSE
      OBVIOUS
    <3>1. \E i, j \in 1..n : i # j /\ f[i] = f[j]
      BY <1>5, <2>1, <2>2, FS_PigeonHole
    <3>2. QED
      BY <1>3, <3>1
  <2> HIDE DEF n
  <2>5. QED
    BY <1>1, <2>2, <2>3, <2>4
<1>7. Cardinality(1..n) = n
  BY <1>1, CountTo
<1>8. QED
  BY <1>1, <1>5, <1>6, <1>7

\* The logouts under way.
LeavingTyped == leaving \subseteq [request : Requests, before : SUBSET Logins]

\* A logout is one of the requests.
LEMMA LeavingStep == LeavingTyped /\ [Next]_vars => LeavingTyped'
<1>1. ASSUME LeavingTyped, NEW q \in Requests, BeginLogout(q) PROVE LeavingTyped'
  <2> DEFINE made == {n \in Logins : latest[n] # 0}
  <2>1. leaving' = leaving \cup {[request |-> q, before |-> made]}
    BY <1>1 DEF BeginLogout
  <2>2. made \in SUBSET Logins
    OBVIOUS
  <2> HIDE DEF made
  <2>3. QED
    BY <1>1, <2>1, <2>2 DEF LeavingTyped
<1>2. ASSUME LeavingTyped, leaving' \subseteq leaving PROVE LeavingTyped'
  BY <1>2 DEF LeavingTyped
<1>3. QED
  BY <1>1, <1>2
     DEF Next, vars, Login, Send, Revoke, Expire, Handle, Serve, Unauthorized, Continue, AskAgain,
         EndLogout, Call, Rotate, Land, LoseRefresh

\* Every variable keeps its type, and the client calls the server for a renewal at most once
\* per pair of tokens it was ever given (refreshFor, refreshFlight).
THEOREM TypeCorrect == Spec => []TypeOK
<1>1. Init => OneFlightPerToken /\ LeavingTyped
  BY DEF Init, OneFlightPerToken, NotSent, LeavingTyped
<1>2. Spec => [](IInv /\ OneFlightPerToken /\ LeavingTyped)
  BY <1>1, InitInv, StepInv, FlightsStep, LeavingStep, PTL DEF Spec
<1>3. ASSUME IInv, OneFlightPerToken, LeavingTyped PROVE TypeOK
  <2> DEFINE B == MaxLogins * MaxGen
             Bounded == [step : Steps, token : Sessions, login : Logins \cup {0}, retrying : BOOLEAN,
                         flight : 0..B]
  <2>1. Len(flights) \in Nat /\ Len(flights) <= B /\ B \in Nat
    BY <1>3, FlightsBounded, ClientRefreshAssumption
  <2> HIDE DEF B
  <2>2. ASSUME NEW q \in Requests PROVE request[q] \in Bounded
    <3>1. request[q] \in RequestRow /\ request[q].flight \in 0..Len(flights)
      BY <1>3, RequestFacts DEF IInv, OneFlightPerToken
    <3>2. request[q].flight \in 0..B
      BY <2>1, <3>1
    <3>3. QED
      BY <3>1, <3>2 DEF RequestRow
  <2>3. request \in [Requests -> Bounded]
    BY <1>3, <2>2 DEF IInv, Typed
  <2>4. QED
    BY <1>3, <2>3 DEF IInv, Typed, TypeOK, Steps, FlightRow, LeavingTyped, B
<1>4. QED
  BY <1>2, <1>3, PTL

=============================================================================
