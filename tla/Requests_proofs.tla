-------------------------- MODULE Requests_proofs --------------------------
(***************************************************************************)
(* Proofs about components whose requests are a command at a time of the   *)
(* database or of Redis, with those of other requests in between.          *)
(*                                                                         *)
(* Accounts and sessions: a code is accepted once, a user gets one cash    *)
(* row, the token of a user's row is the one of its device, and a logout   *)
(* ends what can be refreshed.  Market data: rows, cached candles, charts  *)
(* and tickers are those of the trades that were recorded.  Each with the  *)
(* exceptions its property names.                                          *)
(***************************************************************************)
EXTENDS Sessions, MarketData, Sums, SequenceTheorems, FiniteSetTheorems, TLAPS

------------------------------------------------------------------------------
(***************************************************************************)
(* The invariant                                                           *)
(***************************************************************************)
Codes == [code : 1 .. MaxCodes, fresh : BOOLEAN, alive : BOOLEAN]

\* What a request carries.
Requests ==
  {AuthIdle}
  \cup [step : {"storeOtp"}, user : Members]
  \cup [step : {"deleteOtp"}, user : Members, code : 1 .. MaxCodes, register : BOOLEAN, challenge : Nat]
  \cup [step : {"endChallenge"}, challenge : Nat]
  \cup [step : {"create", "findCash", "createCash", "sign", "find"}, user : Members, device : Devices]
  \cup [step : {"deleteNonce"}, user : Members, nonce : Nat, device : Devices]
  \cup {r \in [step : {"storeUser", "storeSession", "readSession"}, user : Members, token : Tokens] :
          r.token.user = r.user}

SessionsTyped ==
  /\ account \in [Members -> {"none", "ACTIVE", "DELETED"}] /\ cashRows \in [Members -> Nat]
  /\ tokenOf \in [Members -> Tokens \cup {NoToken}]
  /\ sessions \in [Members -> [Gadgets -> Tokens \cup {NoToken}]]
  /\ signed \subseteq Tokens
  /\ otp \in [Members -> Codes \cup {NoCode}] /\ registerTokens \subseteq Members
  /\ codes \in 0 .. MaxCodes /\ spent \in [1 .. MaxCodes -> Nat]
  /\ nonceCount \in Nat
  /\ challenges \subseteq [id : Nat, user : Members] /\ challengeCount \in Nat
  /\ request \in [AuthRequests -> Requests]
  /\ second \in 0 .. MaxSeconds
  /\ loggedOut \subseteq Members

\* Codes are given out once, and what a request has accepted is what it will
\* delete, unless it was replaced.
HasCode(u) == otp[u] # NoCode
CodesOK ==
  /\ \A u \in Members : HasCode(u) => otp[u].code <= codes
  /\ \A u, v \in Members : HasCode(u) /\ HasCode(v) /\ otp[u].code = otp[v].code => u = v
  /\ \A q \in AuthRequests : request[q].step = "deleteOtp" =>
       /\ request[q].code <= codes
       /\ request[q].code \in replaced \/ ~HasCode(request[q].user)
            \/ otp[request[q].user].code = request[q].code
  /\ \A c \in 1 .. MaxCodes :
       /\ c > codes => spent[c] = 0
       /\ c \in replaced \/ spent[c] = 0
            \/ (spent[c] = 1 /\ \A u \in Members : HasCode(u) => otp[u].code # c)

\* Only the request that created the account makes the cash row.
GivesCash(q) == request[q].step \in {"findCash", "createCash"}
CashOK ==
  /\ \A u \in Members : cashRows[u] <= 1 /\ (account[u] = "none" => cashRows[u] = 0)
  /\ \A q \in AuthRequests : GivesCash(q) =>
       account[request[q].user] # "none" /\ cashRows[request[q].user] = 0
  /\ \A q, p \in AuthRequests :
       GivesCash(q) /\ GivesCash(p) /\ request[q].user = request[p].user => q = p

\* Of a user that is not crossed one request at a time stores a pair.
Stores(q) == request[q].step \in {"storeUser", "storeSession"}
PairsOK ==
  /\ \A u \in Members : tokenOf[u] # NoToken => tokenOf[u].user = u
  /\ \A q \in AuthRequests : Stores(q) => request[q].token.user = request[q].user
  /\ \A q \in AuthRequests : request[q].step = "storeSession" => request[q].token.device \in Gadgets
  /\ \A q, p \in AuthRequests :
       Stores(q) /\ Stores(p) /\ request[q].user = request[p].user
         => q = p \/ request[q].user \in crossed
  /\ \A q \in AuthRequests : request[q].step = "storeSession" =>
       request[q].user \in crossed \/ tokenOf[request[q].user] \in {NoToken, request[q].token}
  /\ LatestRefreshes

\* What may end in a pair of tokens.
Acting(q) ==
  request[q].step \in {"create", "findCash", "createCash", "sign", "find", "deleteNonce",
                       "storeUser", "storeSession", "readSession"}
LogoutOK ==
  \A u \in loggedOut :
    /\ tokenOf[u] = NoToken
    /\ \A q \in AuthRequests : Acting(q) => request[q].user # u

SessionsInv == SessionsTyped /\ CodesOK /\ CashOK /\ PairsOK /\ LogoutOK

------------------------------------------------------------------------------
(***************************************************************************)
(* What a step leaves as it is                                             *)
(***************************************************************************)
LEMMA ServesOne ==
  ASSUME SessionsTyped, NEW q \in AuthRequests, NEW next \in Requests, Serves(q, next)
  PROVE  /\ request' \in [AuthRequests -> Requests] /\ request'[q] = next
         /\ \A p \in AuthRequests \ {q} : request'[p] = request[p]
BY DEF SessionsTyped, Serves

LEMMA CodesRest ==
  ASSUME CodesOK, UNCHANGED <<otp, codes, spent, replaced>>,
         \A q \in AuthRequests : request'[q].step = "deleteOtp" => request'[q] = request[q]
  PROVE  CodesOK'
BY DEF CodesOK, HasCode

LEMMA CashRests ==
  ASSUME CashOK, UNCHANGED accountRows,
         \A q \in AuthRequests : GivesCash(q)' => request'[q] = request[q]
  PROVE  CashOK'
BY DEF CashOK, GivesCash, accountRows

LEMMA PairsRest ==
  ASSUME PairsOK, UNCHANGED <<tokenOf, sessions, crossed>>,
         \A q \in AuthRequests : Stores(q) \/ Stores(q)' => request'[q] = request[q]
  PROVE  PairsOK'
<1>1. \A q \in AuthRequests : Stores(q)' <=> Stores(q)
  BY DEF Stores
<1>2. LatestRefreshes'
  <2> SUFFICES ASSUME NEW u \in Members \ crossed, tokenOf[u] # NoToken, tokenOf[u].device # NoDevice
               PROVE  \/ SessionMatches(tokenOf[u])'
                      \/ \E q \in AuthRequests : request'[q].step = "storeSession" /\ request'[q].user = u
    BY DEF LatestRefreshes
  <2>1. CASE SessionMatches(tokenOf[u])
    BY <2>1 DEF SessionMatches
  <2>2. CASE \E q \in AuthRequests : request[q].step = "storeSession" /\ request[q].user = u
    BY <2>2 DEF Stores
  <2> QED BY <2>1, <2>2 DEF PairsOK, LatestRefreshes
<1> QED BY <1>1, <1>2 DEF PairsOK, Stores

LEMMA LogoutRests ==
  ASSUME LogoutOK, UNCHANGED tokenOf, loggedOut' \subseteq loggedOut,
         \A q \in AuthRequests : Acting(q)' =>
           request'[q].user \notin loggedOut' \/ (Acting(q) /\ request'[q].user = request[q].user)
  PROVE  LogoutOK'
BY DEF LogoutOK, Acting

------------------------------------------------------------------------------
(***************************************************************************)
(* A request that goes on, while the tables are left alone                 *)
(***************************************************************************)
LEMMA CodesServed ==
  ASSUME SessionsTyped, CodesOK, NEW q \in AuthRequests, NEW next \in Requests, Serves(q, next),
         next.step # "deleteOtp", UNCHANGED <<otp, codes, spent, replaced>>
  PROVE  CodesOK'
BY ServesOne, CodesRest

LEMMA CashServed ==
  ASSUME SessionsTyped, CashOK, NEW q \in AuthRequests, NEW next \in Requests, Serves(q, next),
         next.step \notin {"findCash", "createCash"}, UNCHANGED accountRows
  PROVE  CashOK'
<1>1. \A p \in AuthRequests : GivesCash(p)' => request'[p] = request[p]
  BY ServesOne DEF GivesCash
<1> QED BY <1>1, CashRests

LEMMA PairsServed ==
  ASSUME SessionsTyped, PairsOK, NEW q \in AuthRequests, NEW next \in Requests, Serves(q, next),
         ~Stores(q), next.step \notin {"storeUser", "storeSession"},
         UNCHANGED <<tokenOf, sessions, crossed>>
  PROVE  PairsOK'
<1>1. \A p \in AuthRequests : Stores(p) \/ Stores(p)' => request'[p] = request[p]
  BY ServesOne DEF Stores
<1> QED BY <1>1, PairsRest

ActingSteps == {"create", "findCash", "createCash", "sign", "find", "deleteNonce",
                "storeUser", "storeSession", "readSession"}

LEMMA LogoutServed ==
  ASSUME SessionsTyped, LogoutOK, NEW q \in AuthRequests, NEW next \in Requests, Serves(q, next),
         UNCHANGED tokenOf, loggedOut' \subseteq loggedOut,
         next.step \in ActingSteps =>
           next.user \notin loggedOut' \/ (Acting(q) /\ next.user = request[q].user)
  PROVE  LogoutOK'
<1>1. \A p \in AuthRequests : Acting(p)' =>
        request'[p].user \notin loggedOut' \/ (Acting(p) /\ request'[p].user = request[p].user)
  BY ServesOne DEF Acting, ActingSteps
<1> QED BY <1>1, LogoutRests

\* What a request carries at each of its steps.
LEMMA CarriesCode ==
  ASSUME SessionsTyped, NEW q \in AuthRequests
  PROVE  /\ request[q].step = "storeOtp" => request[q].user \in Members
         /\ request[q].step = "deleteOtp" =>
              /\ request[q].user \in Members /\ request[q].code \in 1 .. MaxCodes
              /\ request[q].register \in BOOLEAN /\ request[q].challenge \in Nat
<1>1. request[q] \in Requests
  BY DEF SessionsTyped
<1> QED BY <1>1 DEF Requests, AuthIdle

LoginSteps == {"create", "findCash", "createCash", "sign", "find"}
LEMMA CarriesLogin ==
  ASSUME SessionsTyped, NEW q \in AuthRequests
  PROVE  /\ request[q].step \in LoginSteps =>
              request[q].user \in Members /\ request[q].device \in Devices
         /\ request[q].step = "deleteNonce" =>
              request[q].user \in Members /\ request[q].device \in Devices
<1>1. request[q] \in Requests
  BY DEF SessionsTyped
<1> QED BY <1>1 DEF Requests, AuthIdle, LoginSteps

LEMMA CarriesToken ==
  ASSUME SessionsTyped, NEW q \in AuthRequests,
         request[q].step \in {"storeUser", "storeSession", "readSession"}
  PROVE  request[q].user \in Members /\ request[q].token \in Tokens
         /\ request[q].token.user = request[q].user
<1>1. request[q] \in Requests
  BY DEF SessionsTyped
<1> QED BY <1>1 DEF Requests, AuthIdle

------------------------------------------------------------------------------
(***************************************************************************)
(* Codes and challenges                                                    *)
(***************************************************************************)
LEMMA CodeStepsLeaveTheRest ==
  ASSUME SessionsInv, NEW q \in AuthRequests, NEW next \in Requests, Serves(q, next),
         next.step \notin ActingSteps, ~Stores(q),
         UNCHANGED <<accountRows, tokenRows, sessionHistory>>
  PROVE  CashOK' /\ PairsOK' /\ LogoutOK'
<1>1. SessionsTyped /\ CashOK /\ PairsOK /\ LogoutOK
  BY DEF SessionsInv
<1>2. CashOK'
  BY <1>1, CashServed DEF ActingSteps
<1>3. UNCHANGED <<tokenOf, sessions, crossed, loggedOut>>
  BY DEF tokenRows, sessionHistory
<1>4. PairsOK'
  BY <1>1, <1>3, PairsServed DEF ActingSteps
<1>5. LogoutOK'
  BY <1>1, <1>3, LogoutServed
<1> QED BY <1>2, <1>4, <1>5

LEMMA TablesRest ==
  ASSUME SessionsInv, UNCHANGED <<accountRows, tokenRows, sessionHistory, request>>
  PROVE  CashOK' /\ PairsOK' /\ LogoutOK'
<1>1. CashOK'
  BY CashRests DEF SessionsInv, GivesCash
<1>2. PairsOK'
  BY PairsRest DEF SessionsInv, tokenRows, sessionHistory
<1>3. LogoutOK'
  BY LogoutRests DEF SessionsInv, tokenRows, sessionHistory, Acting
<1> QED BY <1>1, <1>2, <1>3

LEMMA ReadForOtpKeeps ==
  ASSUME SessionsInv, NEW q \in AuthRequests, NEW u \in Members, ReadForOtp(q, u)
  PROVE  SessionsInv'
<1> DEFINE next == [step |-> "storeOtp", user |-> u]
<1>1. next \in Requests /\ Serves(q, next) /\ ~Stores(q) /\ next.step \notin ActingSteps
  BY DEF ReadForOtp, Starts, Requests, Stores, AuthIdle, ActingSteps
<1>2. UNCHANGED <<accountRows, tokenRows, sessionHistory, otpRows, nonceKeys, challengeKeys, authClock>>
  BY DEF ReadForOtp, otpUnchanged
<1> HIDE DEF next
<1>3. SessionsTyped'
  BY <1>1, <1>2, ServesOne DEF SessionsInv, SessionsTyped, accountRows, tokenRows, sessionHistory,
     otpRows, nonceKeys, challengeKeys, authClock
<1>4. CodesOK'
  BY <1>1, <1>2, CodesServed DEF SessionsInv, otpRows, next
<1> QED BY <1>1, <1>2, <1>3, <1>4, CodeStepsLeaveTheRest DEF SessionsInv

LEMMA StoreOtpKeeps ==
  ASSUME SessionsInv, NEW q \in AuthRequests, StoreOtp(q)
  PROVE  SessionsInv'
<1> DEFINE u == request[q].user
<1>1. AuthIdle \in Requests /\ Serves(q, AuthIdle) /\ ~Stores(q) /\ AuthIdle.step \notin ActingSteps
      /\ AuthIdle.step # "deleteOtp"
  BY DEF StoreOtp, Ends, Requests, Stores, AuthIdle, ActingSteps
<1>2. UNCHANGED <<accountRows, tokenRows, sessionHistory, nonceKeys, challengeKeys, authClock,
                  registerTokens, spent>>
  BY DEF StoreOtp, otpUnchanged
<1>3. SessionsTyped /\ CodesOK /\ u \in Members /\ codes \in Nat /\ codes < MaxCodes
  <2>1. SessionsTyped /\ CodesOK
    BY DEF SessionsInv
  <2>2. request[q].step = "storeOtp" /\ codes < MaxCodes
    BY DEF StoreOtp
  <2>3. u \in Members
    BY <2>1, <2>2, CarriesCode
  <2>4. codes \in Nat
    BY <2>1, SessionsAssumption DEF SessionsTyped
  <2> QED BY <2>1, <2>2, <2>3, <2>4
<1>4. /\ otp' = [otp EXCEPT ![u] = [code |-> codes + 1, fresh |-> TRUE, alive |-> TRUE]]
      /\ codes' = codes + 1 /\ replaced' = replaced \cup Accepted(u)
  BY DEF StoreOtp
<1>5. /\ request' \in [AuthRequests -> Requests] /\ request'[q] = AuthIdle
      /\ \A p \in AuthRequests \ {q} : request'[p] = request[p]
  BY <1>1, <1>3, ServesOne
<1> HIDE DEF u
<1>6. SessionsTyped'
  <2>1. codes + 1 \in 1 .. MaxCodes /\ codes + 1 \in 0 .. MaxCodes
    BY <1>3, SessionsAssumption
  <2>2. otp' \in [Members -> Codes \cup {NoCode}]
    BY <1>3, <1>4, <2>1 DEF SessionsTyped, Codes
  <2> QED BY <1>2, <1>3, <1>4, <1>5, <2>1, <2>2 DEF SessionsTyped, accountRows, tokenRows, sessionHistory,
     nonceKeys, challengeKeys, authClock
<1>7. CodesOK'
  <2>1. \A v \in Members : HasCode(v) => otp[v] \in Codes /\ otp[v].code \in Nat
    BY <1>3 DEF SessionsTyped, HasCode, Codes
  <2>2. otp'[u].code = codes + 1 /\ \A v \in Members \ {u} : otp'[v] = otp[v]
    BY <1>3, <1>4 DEF SessionsTyped
  <2>3. \A v \in Members : HasCode(v)' => otp'[v].code <= codes'
    BY <1>3, <1>4, <2>1, <2>2 DEF CodesOK, HasCode
  <2>4. \A v, w \in Members : HasCode(v)' /\ HasCode(w)' /\ otp'[v].code = otp'[w].code => v = w
    BY <1>3, <2>1, <2>2 DEF CodesOK, HasCode
  <2>5. ASSUME NEW p \in AuthRequests, request'[p].step = "deleteOtp"
        PROVE  /\ request'[p].code <= codes'
               /\ request'[p].code \in replaced' \/ ~HasCode(request[p].user)'
                    \/ otp'[request'[p].user].code = request'[p].code
    <3>1. p # q /\ request'[p] = request[p] /\ request[p].step = "deleteOtp"
      BY <1>1, <1>5, <2>5
    <3>2. request[p].code \in Nat /\ request[p].code <= codes /\ request[p].user \in Members
      <4>1. request[p].code \in 1 .. MaxCodes /\ request[p].user \in Members
        BY <1>3, <3>1, CarriesCode
      <4> QED BY <1>3, <3>1, <4>1 DEF CodesOK
    <3>3. CASE request[p].user = u
      BY <1>3, <1>4, <3>1, <3>2, <3>3 DEF Accepted
    <3>4. CASE request[p].user # u
      BY <1>3, <1>4, <2>2, <3>1, <3>2, <3>4 DEF CodesOK, HasCode
    <3> QED BY <3>3, <3>4
  <2>6. ASSUME NEW c \in 1 .. MaxCodes
        PROVE  /\ c > codes' => spent'[c] = 0
               /\ c \in replaced' \/ spent'[c] = 0
                    \/ (spent'[c] = 1 /\ \A v \in Members : HasCode(v)' => otp'[v].code # c)
    BY <1>2, <1>3, <1>4, <2>2 DEF CodesOK, HasCode
  <2> QED BY <1>5, <2>3, <2>4, <2>5, <2>6 DEF CodesOK, HasCode
<1> QED BY <1>1, <1>2, <1>6, <1>7, CodeStepsLeaveTheRest DEF SessionsInv

\* A code that grows old, or goes.
LEMMA CodesWither ==
  ASSUME SessionsInv, UNCHANGED <<request, codes, spent, replaced>>,
         otp' \in [Members -> Codes \cup {NoCode}],
         \A u \in Members : HasCode(u)' => HasCode(u) /\ otp'[u].code = otp[u].code
  PROVE  CodesOK'
<1>1. SessionsTyped /\ CodesOK
  BY DEF SessionsInv
<1>2. \A q \in AuthRequests : request[q].step = "deleteOtp" => request[q].user \in Members
  BY <1>1, CarriesCode
<1>3. \A u, v \in Members : HasCode(u)' /\ HasCode(v)' /\ otp'[u].code = otp'[v].code => u = v
  BY <1>1 DEF CodesOK
<1>4. \A q \in AuthRequests : request'[q].step = "deleteOtp" =>
       /\ request'[q].code <= codes'
       /\ request'[q].code \in replaced' \/ ~HasCode(request[q].user)'
            \/ otp'[request'[q].user].code = request'[q].code
  BY <1>1, <1>2 DEF CodesOK
<1>5. \A c \in 1 .. MaxCodes :
       /\ c > codes' => spent'[c] = 0
       /\ c \in replaced' \/ spent'[c] = 0
            \/ (spent'[c] = 1 /\ \A u \in Members : HasCode(u)' => otp'[u].code # c)
  BY <1>1 DEF CodesOK
<1>6. \A u \in Members : HasCode(u)' => otp'[u].code <= codes'
  BY <1>1 DEF CodesOK
<1> QED BY <1>3, <1>4, <1>5, <1>6 DEF CodesOK, HasCode

LEMMA OtpAgesKeeps ==
  ASSUME SessionsInv, NEW u \in Members, OtpAges(u)
  PROVE  SessionsInv'
<1>1. UNCHANGED <<accountRows, tokenRows, sessionHistory, nonceKeys, challengeKeys, authClock,
                  request, registerTokens, codes, spent, replaced>>
  BY DEF OtpAges, otpUnchanged
<1>2. otp[u] \in Codes /\ otp \in [Members -> Codes \cup {NoCode}]
  BY DEF OtpAges, Usable, SessionsInv, SessionsTyped
<1>3. \A o \in Codes : [o EXCEPT !.fresh = FALSE] \in Codes /\ [o EXCEPT !.fresh = FALSE].code = o.code
  BY DEF Codes
<1>4. \A o \in Codes : [o EXCEPT !.alive = FALSE] \in Codes /\ [o EXCEPT !.alive = FALSE].code = o.code
  BY DEF Codes
<1>7. \E o \in Codes : o.code = otp[u].code /\ otp' = [otp EXCEPT ![u] = o]
  <2>1. \/ otp' = [otp EXCEPT ![u] = [otp[u] EXCEPT !.fresh = FALSE]]
        \/ otp' = [otp EXCEPT ![u] = [otp[u] EXCEPT !.alive = FALSE]]
    BY DEF OtpAges
  <2> QED BY <1>2, <1>3, <1>4, <2>1
<1>8. otp' \in [Members -> Codes \cup {NoCode}]
      /\ \A v \in Members : HasCode(v)' => HasCode(v) /\ otp'[v].code = otp[v].code
  <2>1. otp[u] # NoCode
    BY DEF OtpAges, Usable
  <2> QED BY <1>2, <1>7, <2>1 DEF HasCode
<1>5. SessionsTyped'
  BY <1>1, <1>8 DEF SessionsInv, SessionsTyped, accountRows, tokenRows, sessionHistory, nonceKeys,
     challengeKeys, authClock
<1>6. CodesOK'
  BY <1>1, <1>8, CodesWither
<1> QED BY <1>1, <1>5, <1>6, TablesRest DEF SessionsInv

LEMMA CleanUpKeeps ==
  ASSUME SessionsInv, CleanUp
  PROVE  SessionsInv'
<1>1. UNCHANGED <<accountRows, tokenRows, sessionHistory, nonceKeys, challengeKeys, authClock,
                  request, registerTokens, codes, spent, replaced>>
  BY DEF CleanUp, otpUnchanged
<1>2. otp' \in [Members -> Codes \cup {NoCode}]
      /\ \A v \in Members : HasCode(v)' => HasCode(v) /\ otp'[v].code = otp[v].code
  BY DEF CleanUp, SessionsInv, SessionsTyped, HasCode, Usable
<1>3. SessionsTyped'
  BY <1>1, <1>2 DEF SessionsInv, SessionsTyped, accountRows, tokenRows, sessionHistory, nonceKeys,
     challengeKeys, authClock
<1>4. CodesOK'
  BY <1>1, <1>2, CodesWither
<1> QED BY <1>1, <1>3, <1>4, TablesRest DEF SessionsInv

\* A request reads a code: it is the one of the row.
LEMMA ReadsCode ==
  ASSUME SessionsInv, NEW q \in AuthRequests, NEW u \in Members, NEW b \in BOOLEAN, NEW k \in Nat,
         Usable(u), request[q] = AuthIdle,
         Serves(q, [step |-> "deleteOtp", user |-> u, code |-> otp[u].code,
                    register |-> b, challenge |-> k]),
         UNCHANGED <<accountRows, tokenRows, sessionHistory, otpRows, nonceKeys, challengeKeys,
                     authClock>>
  PROVE  SessionsInv'
<1> DEFINE next == [step |-> "deleteOtp", user |-> u, code |-> otp[u].code,
                    register |-> b, challenge |-> k]
<1>1. SessionsTyped /\ CodesOK /\ HasCode(u) /\ otp[u].code \in 1 .. MaxCodes
  BY DEF SessionsInv, SessionsTyped, Usable, HasCode, Codes
<1>2. next \in Requests /\ Serves(q, next) /\ ~Stores(q) /\ next.step \notin ActingSteps
      /\ next.user = u /\ next.code = otp[u].code
  BY <1>1 DEF Requests, Stores, AuthIdle, ActingSteps
<1> HIDE DEF next
<1>3. /\ request' \in [AuthRequests -> Requests] /\ request'[q] = next
      /\ \A p \in AuthRequests \ {q} : request'[p] = request[p]
  BY <1>1, <1>2, ServesOne
<1>4. SessionsTyped'
  BY <1>1, <1>3 DEF SessionsTyped, accountRows, tokenRows, sessionHistory,
     otpRows, nonceKeys, challengeKeys, authClock
<1>5. CodesOK'
  <2>1. UNCHANGED <<otp, codes, spent, replaced>>
    BY DEF otpRows
  <2>2. ASSUME NEW p \in AuthRequests, request'[p].step = "deleteOtp"
        PROVE  /\ request'[p].code <= codes
               /\ request'[p].code \in replaced \/ ~HasCode(request'[p].user)
                    \/ otp[request'[p].user].code = request'[p].code
    <3>1. CASE p = q
      BY <1>1, <1>2, <1>3, <3>1 DEF CodesOK
    <3>2. CASE p # q
      BY <1>1, <1>3, <2>2, <3>2 DEF CodesOK
    <3> QED BY <3>1, <3>2
  <2> QED BY <1>1, <2>1, <2>2 DEF CodesOK, HasCode
<1> QED BY <1>2, <1>4, <1>5, CodeStepsLeaveTheRest DEF SessionsInv

LEMMA ReadOtpKeeps ==
  ASSUME SessionsInv, NEW q \in AuthRequests, NEW u \in Members, NEW b \in BOOLEAN, ReadOtp(q, u, b)
  PROVE  SessionsInv'
BY ReadsCode DEF ReadOtp, Starts, otpUnchanged

LEMMA VerifyByCodeKeeps ==
  ASSUME SessionsInv, NEW q \in AuthRequests, NEW c \in challenges, VerifyByCode(q, c)
  PROVE  SessionsInv'
<1>1. c.user \in Members /\ c.id \in Nat
  BY DEF SessionsInv, SessionsTyped
<1> QED BY <1>1, ReadsCode DEF VerifyByCode, Starts, challengeUnchanged

LEMMA VerifyByTotpKeeps ==
  ASSUME SessionsInv, NEW q \in AuthRequests, NEW c \in challenges, VerifyByTotp(q, c)
  PROVE  SessionsInv'
<1> DEFINE next == [step |-> "endChallenge", challenge |-> c.id]
<1>1. c.id \in Nat /\ SessionsTyped
  BY DEF SessionsInv, SessionsTyped
<1>2. next \in Requests /\ Serves(q, next) /\ ~Stores(q) /\ next.step \notin ActingSteps
      /\ next.step # "deleteOtp"
  BY <1>1 DEF VerifyByTotp, Starts, Requests, Stores, AuthIdle, ActingSteps
<1>3. UNCHANGED <<accountRows, tokenRows, sessionHistory, otpRows, nonceKeys, challengeKeys, authClock>>
  BY DEF VerifyByTotp, challengeUnchanged
<1> HIDE DEF next
<1>4. SessionsTyped'
  BY <1>1, <1>2, <1>3, ServesOne DEF SessionsTyped, accountRows, tokenRows, sessionHistory,
     otpRows, nonceKeys, challengeKeys, authClock
<1>5. CodesOK'
  BY <1>2, <1>3, CodesServed DEF SessionsInv, otpRows
<1> QED BY <1>2, <1>3, <1>4, <1>5, CodeStepsLeaveTheRest DEF SessionsInv

LEMMA EndChallengeKeeps ==
  ASSUME SessionsInv, NEW q \in AuthRequests, EndChallenge(q)
  PROVE  SessionsInv'
<1>1. AuthIdle \in Requests /\ Serves(q, AuthIdle) /\ ~Stores(q) /\ AuthIdle.step \notin ActingSteps
      /\ AuthIdle.step # "deleteOtp" /\ challenges' \subseteq challenges
  BY DEF EndChallenge, Ends, Requests, Stores, AuthIdle, ActingSteps
<1>2. UNCHANGED <<accountRows, tokenRows, sessionHistory, otpRows, nonceKeys, challengeCount, authClock>>
  BY DEF EndChallenge, challengeUnchanged
<1>3. SessionsTyped'
  BY <1>1, <1>2, ServesOne DEF SessionsInv, SessionsTyped, accountRows, tokenRows, sessionHistory,
     otpRows, nonceKeys, authClock
<1>4. CodesOK'
  BY <1>1, <1>2, CodesServed DEF SessionsInv, otpRows
<1> QED BY <1>1, <1>2, <1>3, <1>4, CodeStepsLeaveTheRest DEF SessionsInv

LEMMA ChallengesKeep ==
  ASSUME SessionsInv, challenges' \subseteq [id : Nat, user : Members], challengeCount' \in Nat,
         UNCHANGED <<accountRows, tokenRows, sessionHistory, otpRows, nonceKeys, authClock, request>>
  PROVE  SessionsInv'
<1>1. SessionsTyped'
  BY DEF SessionsInv, SessionsTyped, accountRows, tokenRows, sessionHistory, otpRows, nonceKeys, authClock
<1>2. CodesOK'
  BY CodesRest DEF SessionsInv, otpRows
<1> QED BY <1>1, <1>2, TablesRest DEF SessionsInv

LEMMA CreateChallengeKeeps ==
  ASSUME SessionsInv, NEW u \in Members, CreateChallenge(u)
  PROVE  SessionsInv'
<1>1. challenges' \subseteq [id : Nat, user : Members] /\ challengeCount' \in Nat
  BY DEF CreateChallenge, SessionsInv, SessionsTyped
<1> QED BY <1>1, ChallengesKeep DEF CreateChallenge, challengeUnchanged

LEMMA ChallengeExpiresKeeps ==
  ASSUME SessionsInv, NEW c \in challenges, ChallengeExpires(c)
  PROVE  SessionsInv'
<1>1. challenges' \subseteq [id : Nat, user : Members] /\ challengeCount' \in Nat
  BY DEF ChallengeExpires, SessionsInv, SessionsTyped
<1> QED BY <1>1, ChallengesKeep DEF ChallengeExpires, challengeUnchanged

\* A code is deleted once, and counted when it is.
LEMMA DeleteOtpKeeps ==
  ASSUME SessionsInv, NEW q \in AuthRequests, DeleteOtp(q)
  PROVE  SessionsInv'
<1> DEFINE r == request[q]
<1> DEFINE u == r.user
<1>1. /\ SessionsTyped /\ CodesOK /\ r.step = "deleteOtp" /\ codes \in Nat
      /\ u \in Members /\ r.code \in 1 .. MaxCodes /\ r.challenge \in Nat
  <2>1. SessionsTyped /\ CodesOK /\ r.step = "deleteOtp"
    BY DEF DeleteOtp, SessionsInv
  <2>2. u \in Members /\ r.code \in 1 .. MaxCodes /\ r.challenge \in Nat
    BY <2>1, CarriesCode
  <2>3. codes \in Nat
    BY <2>1, SessionsAssumption DEF SessionsTyped
  <2> QED BY <2>1, <2>2, <2>3
<1>2. UNCHANGED <<accountRows, tokenRows, sessionHistory, nonceKeys, challengeKeys, authClock,
                  codes, replaced>>
  BY DEF DeleteOtp, otpUnchanged
<1>3. /\ AuthIdle \in Requests /\ AuthIdle.step \notin ActingSteps \cup {"deleteOtp"}
      /\ [step |-> "endChallenge", challenge |-> r.challenge] \in Requests
      /\ ~Stores(q)
  BY <1>1 DEF Requests, AuthIdle, Stores, ActingSteps
<1>4. PICK next \in Requests : Serves(q, next) /\ next.step \notin ActingSteps \cup {"deleteOtp"}
  BY <1>3 DEF DeleteOtp, Ends, ActingSteps
<1>5. /\ request' \in [AuthRequests -> Requests] /\ request'[q] = next
      /\ \A p \in AuthRequests \ {q} : request'[p] = request[p]
  BY <1>1, <1>4, ServesOne
<1>6. CASE UNCHANGED <<otp, spent, registerTokens>>
  <2>1. SessionsTyped'
    BY <1>1, <1>2, <1>5, <1>6 DEF SessionsTyped, accountRows, tokenRows, sessionHistory,
       nonceKeys, challengeKeys, authClock
  <2>2. CodesOK'
    BY <1>1, <1>2, <1>4, <1>6, CodesServed
  <2> QED BY <1>2, <1>3, <1>4, <2>1, <2>2, CodeStepsLeaveTheRest DEF SessionsInv
<1>7. CASE /\ otp[u] # NoCode /\ otp' = [otp EXCEPT ![u] = NoCode]
           /\ spent' = [spent EXCEPT ![r.code] = @ + 1]
           /\ registerTokens' \subseteq registerTokens \cup {u}
  <2> HIDE DEF u
  <2>1. SessionsTyped'
    BY <1>1, <1>2, <1>5, <1>7 DEF SessionsTyped, accountRows, tokenRows, sessionHistory,
       nonceKeys, challengeKeys, authClock
  <2>2. \A v \in Members : HasCode(v)' => v # u /\ HasCode(v) /\ otp'[v] = otp[v]
    BY <1>1, <1>7 DEF HasCode, SessionsTyped
  <2>3. \A p \in AuthRequests : request'[p].step = "deleteOtp" =>
          request[p] = request'[p] /\ request[p].user \in Members
    BY <1>1, <1>4, <1>5, CarriesCode
  <2>4. r.code <= codes /\ (r.code \in replaced \/ otp[u].code = r.code)
    BY <1>1, <1>7 DEF CodesOK, HasCode, u
  <2>5. \A c \in 1 .. MaxCodes : spent'[c] = IF c = r.code THEN spent[c] + 1 ELSE spent[c]
    BY <1>1, <1>7 DEF SessionsTyped
  <2>6. ASSUME NEW c \in 1 .. MaxCodes
        PROVE  /\ c > codes => spent'[c] = 0
               /\ c \in replaced \/ spent'[c] = 0
                    \/ (spent'[c] = 1 /\ \A v \in Members : HasCode(v)' => otp'[v].code # c)
    <3>1. CASE c # r.code
      BY <1>1, <2>2, <2>5, <3>1 DEF CodesOK
    <3>2. CASE c = r.code /\ c \in replaced
      BY <1>1, <2>4, <3>2
    <3>3. CASE c = r.code /\ c \notin replaced
      <4>1. HasCode(u) /\ otp[u].code = c
        BY <1>7, <2>4, <3>3 DEF HasCode
      <4>2. spent[c] = 0
        BY <1>1, <3>3, <4>1 DEF CodesOK
      <4>3. \A v \in Members : HasCode(v)' => otp'[v].code # c
        BY <1>1, <2>2, <4>1 DEF CodesOK
      <4>4. ~(c > codes)
        BY <1>1, <2>4, <3>3
      <4> QED BY <2>5, <3>3, <4>2, <4>3, <4>4
    <3> QED BY <3>1, <3>2, <3>3
  <2>7. \A v \in Members : HasCode(v)' => otp'[v].code <= codes
    BY <1>1, <2>2 DEF CodesOK
  <2>8. \A v, w \in Members : HasCode(v)' /\ HasCode(w)' /\ otp'[v].code = otp'[w].code => v = w
    BY <1>1, <2>2 DEF CodesOK
  <2>9. \A p \in AuthRequests : request'[p].step = "deleteOtp" =>
       /\ request'[p].code <= codes
       /\ request'[p].code \in replaced \/ ~HasCode(request[p].user)'
            \/ otp'[request'[p].user].code = request'[p].code
    BY <1>1, <2>2, <2>3 DEF CodesOK
  <2>10. CodesOK'
    BY <1>2, <2>6, <2>7, <2>8, <2>9 DEF CodesOK, HasCode
  <2> QED BY <1>2, <1>3, <1>4, <2>1, <2>10, CodeStepsLeaveTheRest DEF SessionsInv
<1> QED BY <1>6, <1>7 DEF DeleteOtp

------------------------------------------------------------------------------
(***************************************************************************)
(* Registration and logins                                                 *)
(***************************************************************************)
\* A request goes on with a login, or ends.
LEMMA LoginGoesOn ==
  ASSUME SessionsInv, NEW q \in AuthRequests, NEW next \in Requests, Serves(q, next), ~Stores(q),
         next.step \notin {"deleteOtp", "storeUser", "storeSession"},
         next.step \in ActingSteps =>
           next.user \notin loggedOut' \/ (Acting(q) /\ next.user = request[q].user),
         UNCHANGED <<tokenRows, otpRows, challengeKeys, authClock, crossed>>,
         nonceCount' \in Nat, loggedOut' \subseteq loggedOut,
         account' \in [Members -> {"none", "ACTIVE", "DELETED"}], cashRows' \in [Members -> Nat],
         CashOK'
  PROVE  SessionsInv'
<1>1. SessionsTyped /\ CodesOK /\ PairsOK /\ LogoutOK
  BY DEF SessionsInv
<1>2. UNCHANGED <<tokenOf, sessions, crossed, otp, codes, spent, replaced>>
  BY DEF tokenRows, otpRows
<1>3. SessionsTyped'
  BY <1>1, ServesOne DEF SessionsTyped, tokenRows, otpRows, challengeKeys, authClock
<1>4. CodesOK'
  BY <1>1, <1>2, CodesServed
<1>5. PairsOK'
  BY <1>1, <1>2, PairsServed
<1>6. LogoutOK'
  BY <1>1, <1>2, LogoutServed
<1> QED BY <1>3, <1>4, <1>5, <1>6 DEF SessionsInv

\* The same, where the accounts are left alone.
LEMMA LoginOfAccount ==
  ASSUME SessionsInv, NEW q \in AuthRequests, NEW next \in Requests, Serves(q, next), ~Stores(q),
         next.step \notin {"deleteOtp", "storeUser", "storeSession", "findCash", "createCash"},
         next.step \in ActingSteps =>
           next.user \notin loggedOut' \/ (Acting(q) /\ next.user = request[q].user),
         UNCHANGED <<tokenRows, otpRows, challengeKeys, authClock, crossed, accountRows>>,
         nonceCount' \in Nat, loggedOut' \subseteq loggedOut
  PROVE  SessionsInv'
<1>1. SessionsTyped /\ CashOK
  BY DEF SessionsInv
<1>2. CashOK'
  BY <1>1, CashServed
<1>3. account' \in [Members -> {"none", "ACTIVE", "DELETED"}] /\ cashRows' \in [Members -> Nat]
  BY <1>1 DEF SessionsTyped, accountRows
<1> QED BY <1>2, <1>3, LoginGoesOn

LEMMA NonceCount ==
  ASSUME SessionsInv, UNCHANGED nonceKeys
  PROVE  nonceCount' \in Nat
BY DEF SessionsInv, SessionsTyped, nonceKeys

LEMMA LoginCarries ==
  ASSUME NEW u \in Members, NEW d \in Devices
  PROVE  /\ Creating(u, d) \in Requests /\ Creating(u, d).step = "create" /\ Creating(u, d).user = u
         /\ Signing(u, d) \in Requests /\ Signing(u, d).step = "sign" /\ Signing(u, d).user = u
         /\ AuthIdle \in Requests /\ AuthIdle.step = "idle"
BY DEF Creating, Signing, Requests, AuthIdle

LEMMA RegisterKeeps ==
  ASSUME SessionsInv, NEW q \in AuthRequests, NEW u \in Members, NEW d \in Devices, Register(q, u, d)
  PROVE  SessionsInv'
<1> DEFINE next == Creating(u, d)
<1>1. next \in Requests /\ next.step = "create" /\ next.user = u
  BY LoginCarries
<1>2. /\ Serves(q, next) /\ ~Stores(q) /\ loggedOut' = loggedOut \ {u}
      /\ UNCHANGED <<tokenRows, otpRows, challengeKeys, authClock, crossed, accountRows, nonceKeys>>
  BY DEF Register, Starts, LogsIn, Stores, AuthIdle, loginUnchanged
<1> HIDE DEF next
<1> QED BY <1>1, <1>2, NonceCount, LoginOfAccount

LEMMA LoginKeeps ==
  ASSUME SessionsInv, NEW q \in AuthRequests, NEW u \in Members, NEW d \in Devices, Login(q, u, d)
  PROVE  SessionsInv'
<1> DEFINE next == Signing(u, d)
<1>1. next \in Requests /\ next.step = "sign" /\ next.user = u
  BY LoginCarries
<1>2. /\ Serves(q, next) /\ ~Stores(q) /\ loggedOut' = loggedOut \ {u}
      /\ UNCHANGED <<tokenRows, otpRows, challengeKeys, authClock, crossed, accountRows, nonceKeys>>
  BY DEF Login, Starts, LogsIn, Stores, AuthIdle, loginUnchanged
<1> HIDE DEF next
<1> QED BY <1>1, <1>2, NonceCount, LoginOfAccount

LEMMA FoundServes ==
  ASSUME NEW q, NEW u \in Members, NEW d \in Devices, Found(q, u, d)
  PROVE  \E next \in Requests : /\ Serves(q, next) /\ next.step \in {"create", "sign", "idle"}
                                /\ next.step # "idle" => next.user = u
BY LoginCarries DEF Found, Ends

LEMMA LoginWithSocialKeeps ==
  ASSUME SessionsInv, NEW q \in AuthRequests, NEW u \in Members, NEW d \in Devices,
         LoginWithSocial(q, u, d)
  PROVE  SessionsInv'
<1>1. PICK next \in Requests : /\ Serves(q, next) /\ next.step \in {"create", "sign", "idle"}
                               /\ next.step # "idle" => next.user = u
  BY FoundServes DEF LoginWithSocial
<1>2. /\ ~Stores(q) /\ loggedOut' = loggedOut \ {u}
      /\ UNCHANGED <<tokenRows, otpRows, challengeKeys, authClock, crossed, accountRows, nonceKeys>>
  BY DEF LoginWithSocial, LogsIn, Stores, AuthIdle, loginUnchanged
<1>3. next.step \in ActingSteps => next.user \notin loggedOut'
  BY <1>1, <1>2 DEF ActingSteps
<1> QED BY <1>1, <1>2, <1>3, NonceCount, LoginOfAccount

LEMMA FindWalletKeeps ==
  ASSUME SessionsInv, NEW q \in AuthRequests, FindWallet(q)
  PROVE  SessionsInv'
<1>1. request[q].step = "find" /\ request[q].user \in Members /\ request[q].device \in Devices
  BY CarriesLogin DEF FindWallet, SessionsInv, LoginSteps
<1>2. PICK next \in Requests : /\ Serves(q, next) /\ next.step \in {"create", "sign", "idle"}
                               /\ next.step # "idle" => next.user = request[q].user
  BY <1>1, FoundServes DEF FindWallet
<1>3. /\ ~Stores(q) /\ Acting(q) /\ loggedOut' = loggedOut
      /\ UNCHANGED <<tokenRows, otpRows, challengeKeys, authClock, crossed, accountRows, nonceKeys>>
  BY <1>1 DEF FindWallet, Stores, Acting, loginUnchanged
<1>4. next.step \in ActingSteps => Acting(q) /\ next.user = request[q].user
  BY <1>2, <1>3 DEF ActingSteps
<1> QED BY <1>2, <1>3, <1>4, NonceCount, LoginOfAccount

LEMMA VerifySignatureKeeps ==
  ASSUME SessionsInv, NEW q \in AuthRequests, NEW u \in Members, NEW d \in Devices,
         NEW n \in Nat, VerifySignature(q, u, n, d)
  PROVE  SessionsInv'
<1> DEFINE next == [step |-> "deleteNonce", user |-> u, nonce |-> n, device |-> d]
<1>1. next \in Requests /\ next.step = "deleteNonce" /\ next.user = u
  BY DEF Requests
<1>2. /\ Serves(q, next) /\ ~Stores(q) /\ loggedOut' = loggedOut \ {u}
      /\ UNCHANGED <<tokenRows, otpRows, challengeKeys, authClock, crossed, accountRows, nonceKeys>>
  BY DEF VerifySignature, Starts, LogsIn, Stores, AuthIdle, loginUnchanged
<1> HIDE DEF next
<1> QED BY <1>1, <1>2, NonceCount, LoginOfAccount

LEMMA DeleteNonceKeeps ==
  ASSUME SessionsInv, NEW q \in AuthRequests, DeleteNonce(q)
  PROVE  SessionsInv'
<1> DEFINE r == request[q]
<1> DEFINE next == [step |-> "find", user |-> r.user, device |-> r.device]
<1>1. r.step = "deleteNonce" /\ r.user \in Members /\ r.device \in Devices
  BY CarriesLogin DEF DeleteNonce, SessionsInv
<1>2. next \in Requests /\ next.step = "find" /\ next.user = r.user
  BY <1>1 DEF Requests
<1>3. /\ Serves(q, next) /\ ~Stores(q) /\ Acting(q) /\ loggedOut' = loggedOut
      /\ nonceCount' = nonceCount
      /\ UNCHANGED <<tokenRows, otpRows, challengeKeys, authClock, crossed, accountRows>>
  BY <1>1 DEF DeleteNonce, Stores, Acting, loginUnchanged
<1>4. nonceCount' \in Nat
  BY <1>3 DEF SessionsInv, SessionsTyped
<1> HIDE DEF next
<1> QED BY <1>2, <1>3, <1>4, LoginOfAccount

LEMMA CreateWeb3NonceKeeps ==
  ASSUME SessionsInv, NEW u \in Members, NEW b \in BOOLEAN, CreateWeb3Nonce(u, b)
  PROVE  SessionsInv'
<1>1. nonceCount' \in Nat
      /\ UNCHANGED <<tokenRows, otpRows, challengeKeys, authClock, crossed, accountRows, request, loggedOut>>
  BY DEF CreateWeb3Nonce, loginUnchanged, SessionsInv, SessionsTyped
<1>2. SessionsTyped' /\ CodesOK'
  BY <1>1, CodesRest DEF SessionsInv, SessionsTyped, tokenRows, otpRows, challengeKeys, authClock, accountRows
<1> QED BY <1>1, <1>2, TablesRest DEF SessionsInv, sessionHistory

LEMMA SoftDeleteAccountKeeps ==
  ASSUME SessionsInv, NEW u \in Members, SoftDeleteAccount(u)
  PROVE  SessionsInv'
<1>1. /\ account[u] = "ACTIVE" /\ account' = [account EXCEPT ![u] = "DELETED"]
      /\ UNCHANGED <<tokenRows, otpRows, challengeKeys, authClock, crossed, cashRows, nonceKeys,
                     request, loggedOut>>
  BY DEF SoftDeleteAccount, loginUnchanged
<1>2. SessionsTyped' /\ CodesOK'
  BY <1>1, CodesRest DEF SessionsInv, SessionsTyped, tokenRows, otpRows, challengeKeys, authClock, nonceKeys
<1>3. \A v \in Members : account'[v] = "none" <=> account[v] = "none"
  BY <1>1 DEF SessionsInv, SessionsTyped
<1>4. CashOK'
  <2>1. \A q \in AuthRequests : GivesCash(q) => request[q].user \in Members
    BY CarriesLogin DEF SessionsInv, GivesCash, LoginSteps
  <2> QED BY <1>1, <1>3, <2>1 DEF SessionsInv, CashOK, GivesCash
<1>5. PairsOK'
  BY <1>1, PairsRest DEF SessionsInv, tokenRows
<1>6. LogoutOK'
  BY <1>1, LogoutRests DEF SessionsInv, tokenRows, Acting
<1> QED BY <1>2, <1>4, <1>5, <1>6 DEF SessionsInv

LEMMA CreateUserKeeps ==
  ASSUME SessionsInv, NEW q \in AuthRequests, CreateUser(q)
  PROVE  SessionsInv'
<1> DEFINE r == request[q]
<1> DEFINE u == r.user
<1>1. /\ r.step = "create" /\ u \in Members /\ r.device \in Devices
      /\ SessionsTyped /\ CashOK
  BY CarriesLogin DEF CreateUser, SessionsInv, LoginSteps
<1>2. /\ UNCHANGED <<tokenRows, otpRows, challengeKeys, authClock, crossed, cashRows, nonceKeys, loggedOut>>
      /\ ~Stores(q) /\ Acting(q)
  BY <1>1 DEF CreateUser, loginUnchanged, Stores, Acting
<1>3. CASE account[u] = "none"
  <2> DEFINE next == [r EXCEPT !.step = "findCash"]
  <2>1. /\ r \in [step : LoginSteps, user : Members, device : Devices]
    <3>1. r \in Requests
      BY <1>1 DEF SessionsTyped
    <3> QED BY <1>1, <3>1 DEF Requests, AuthIdle, LoginSteps
  <2>2. next \in Requests /\ next.step = "findCash" /\ next.user = u
    BY <2>1 DEF Requests, LoginSteps
  <2>3. Serves(q, next) /\ account' = [account EXCEPT ![u] = "ACTIVE"]
    BY <1>3 DEF CreateUser
  <2> HIDE DEF next, u
  <2>4. account' \in [Members -> {"none", "ACTIVE", "DELETED"}] /\ cashRows' \in [Members -> Nat]
    BY <1>1, <1>2, <2>3 DEF SessionsTyped
  <2>5. CashOK'
    <3>1. /\ \A p \in AuthRequests : GivesCash(p)' /\ p # q => GivesCash(p) /\ request'[p] = request[p]
          /\ request'[q] = next
      BY <1>1, <2>2, <2>3, ServesOne DEF GivesCash
    <3>2. \A p \in AuthRequests : GivesCash(p) => request[p].user # u /\ request[p].user \in Members
      BY <1>1, <1>3, CarriesLogin DEF CashOK, GivesCash, LoginSteps
    <3>3. cashRows[u] = 0
      BY <1>1, <1>3 DEF CashOK
    <3>4. /\ account'[u] = "ACTIVE" /\ cashRows' = cashRows
          /\ \A v \in Members \ {u} : account'[v] = account[v]
      BY <1>1, <1>2, <2>3 DEF SessionsTyped
    <3>5. \A v \in Members : cashRows'[v] <= 1 /\ (account'[v] = "none" => cashRows'[v] = 0)
      BY <1>1, <3>4 DEF CashOK
    <3>6. \A p \in AuthRequests : GivesCash(p)' =>
            account'[request'[p].user] # "none" /\ cashRows'[request'[p].user] = 0
      BY <1>1, <2>2, <3>1, <3>2, <3>3, <3>4 DEF CashOK
    <3>7. \A p, s \in AuthRequests :
            GivesCash(p)' /\ GivesCash(s)' /\ request'[p].user = request'[s].user => p = s
      BY <1>1, <2>2, <3>1, <3>2 DEF CashOK
    <3> QED BY <3>5, <3>6, <3>7 DEF CashOK, GivesCash
  <2> QED BY <1>2, <2>2, <2>3, <2>4, <2>5, NonceCount, LoginGoesOn DEF u
<1>4. CASE account[u] # "none"
  <2>1. Serves(q, AuthIdle) /\ UNCHANGED accountRows
    BY <1>2, <1>4 DEF CreateUser, Ends, accountRows
  <2>2. AuthIdle \in Requests /\ AuthIdle.step = "idle"
    BY DEF Requests, AuthIdle
  <2> QED BY <1>2, <2>1, <2>2, NonceCount, LoginOfAccount DEF ActingSteps
<1> QED BY <1>3, <1>4

\* Of the requests that give a user its cash row there is one.
LEMMA FindCashKeeps ==
  ASSUME SessionsInv, NEW q \in AuthRequests, FindCash(q)
  PROVE  SessionsInv'
<1> DEFINE r == request[q]
<1> DEFINE next == [r EXCEPT !.step = "createCash"]
<1>1. /\ r.step = "findCash" /\ r.user \in Members /\ SessionsTyped /\ CashOK
      /\ r \in [step : LoginSteps, user : Members, device : Devices]
  <2>1. r.step = "findCash" /\ SessionsTyped /\ CashOK
    BY DEF FindCash, SessionsInv
  <2>2. r \in Requests
    BY <2>1 DEF SessionsTyped
  <2> QED BY <2>1, <2>2 DEF Requests, AuthIdle, LoginSteps
<1>2. /\ UNCHANGED <<tokenRows, otpRows, challengeKeys, authClock, crossed, accountRows, nonceKeys, loggedOut>>
      /\ ~Stores(q) /\ Acting(q) /\ GivesCash(q)
  BY <1>1 DEF FindCash, loginUnchanged, Stores, Acting, GivesCash
<1>3. next \in Requests /\ next.step = "createCash" /\ next.user = r.user
  BY <1>1 DEF Requests, LoginSteps
<1>4. Serves(q, next)
  <2>1. cashRows[r.user] = 0
    BY <1>1, <1>2 DEF CashOK
  <2> QED BY <2>1 DEF FindCash
<1> HIDE DEF next
<1>5. CashOK'
  <2>1. \A p \in AuthRequests : GivesCash(p)' => GivesCash(p) /\ request'[p].user = request[p].user
    BY <1>1, <1>2, <1>3, <1>4, ServesOne DEF GivesCash
  <2> QED BY <1>1, <1>2, <2>1 DEF CashOK, accountRows, GivesCash
<1>6. account' \in [Members -> {"none", "ACTIVE", "DELETED"}] /\ cashRows' \in [Members -> Nat]
  BY <1>1, <1>2 DEF SessionsTyped, accountRows
<1> QED BY <1>2, <1>3, <1>4, <1>5, <1>6, NonceCount, LoginGoesOn

LEMMA CreateCashKeeps ==
  ASSUME SessionsInv, NEW q \in AuthRequests, CreateCash(q)
  PROVE  SessionsInv'
<1> DEFINE r == request[q]
<1> DEFINE next == [r EXCEPT !.step = "sign"]
<1> DEFINE u == r.user
<1>1. /\ r.step = "createCash" /\ u \in Members /\ SessionsTyped /\ CashOK
      /\ r \in [step : LoginSteps, user : Members, device : Devices]
  <2>1. r.step = "createCash" /\ SessionsTyped /\ CashOK
    BY DEF CreateCash, SessionsInv
  <2>2. r \in Requests
    BY <2>1 DEF SessionsTyped
  <2> QED BY <2>1, <2>2 DEF Requests, AuthIdle, LoginSteps
<1>2. /\ UNCHANGED <<tokenRows, otpRows, challengeKeys, authClock, crossed, account, nonceKeys, loggedOut>>
      /\ ~Stores(q) /\ Acting(q) /\ GivesCash(q)
      /\ Serves(q, next) /\ cashRows' = [cashRows EXCEPT ![u] = @ + 1]
  BY <1>1 DEF CreateCash, loginUnchanged, Stores, Acting, GivesCash
<1>3. next \in Requests /\ next.step = "sign" /\ next.user = u
  BY <1>1 DEF Requests, LoginSteps
<1> HIDE DEF next, u
<1>4. /\ \A p \in AuthRequests : GivesCash(p)' => p # q /\ GivesCash(p) /\ request'[p] = request[p]
  BY <1>1, <1>2, <1>3, ServesOne DEF GivesCash
<1>5. \A p \in AuthRequests : GivesCash(p) /\ p # q => request[p].user # u /\ request[p].user \in Members
  BY <1>1, <1>2, CarriesLogin DEF CashOK, GivesCash, LoginSteps, u
<1>6. cashRows[u] = 0 /\ account[u] # "none"
  BY <1>1, <1>2 DEF CashOK, u
<1>7. /\ cashRows' \in [Members -> Nat] /\ cashRows'[u] = 1
      /\ \A v \in Members \ {u} : cashRows'[v] = cashRows[v]
  BY <1>1, <1>2, <1>6 DEF SessionsTyped
<1>8. account' \in [Members -> {"none", "ACTIVE", "DELETED"}] /\ account' = account
  BY <1>1, <1>2 DEF SessionsTyped
<1>9. CashOK'
  <2>1. \A v \in Members : cashRows'[v] <= 1 /\ (account'[v] = "none" => cashRows'[v] = 0)
    BY <1>1, <1>6, <1>7, <1>8 DEF CashOK
  <2>2. \A p \in AuthRequests : GivesCash(p)' =>
          account'[request'[p].user] # "none" /\ cashRows'[request'[p].user] = 0
    BY <1>1, <1>4, <1>5, <1>7, <1>8 DEF CashOK
  <2>3. \A p, s \in AuthRequests :
          GivesCash(p)' /\ GivesCash(s)' /\ request'[p].user = request'[s].user => p = s
    BY <1>1, <1>4 DEF CashOK
  <2> QED BY <2>1, <2>2, <2>3 DEF CashOK, GivesCash
<1> QED BY <1>2, <1>3, <1>7, <1>8, <1>9, NonceCount, LoginGoesOn DEF u

------------------------------------------------------------------------------
(***************************************************************************)
(* Tokens                                                                  *)
(***************************************************************************)
LEMMA IssueLeavesTheRest ==
  ASSUME SessionsInv, NEW q \in AuthRequests, NEW next \in Requests, Serves(q, next),
         next.step \notin {"deleteOtp", "findCash", "createCash"},
         UNCHANGED <<accountRows, otpRows, nonceKeys, challengeKeys, second>>,
         tokenOf' \in [Members -> Tokens \cup {NoToken}],
         sessions' \in [Members -> [Gadgets -> Tokens \cup {NoToken}]],
         signed' \subseteq Tokens, loggedOut' = loggedOut
  PROVE  SessionsTyped' /\ CodesOK' /\ CashOK'
<1>1. SessionsTyped'
  BY ServesOne DEF SessionsInv, SessionsTyped, accountRows, otpRows, nonceKeys, challengeKeys
<1>2. CodesOK'
  BY CodesServed DEF SessionsInv, otpRows
<1>3. CashOK'
  BY CashServed DEF SessionsInv
<1> QED BY <1>1, <1>2, <1>3

\* Every stored token is its user's, on both sides of a step.
LEMMA SignKeeps ==
  ASSUME SessionsInv, NEW q \in AuthRequests, Sign(q)
  PROVE  SessionsInv'
<1> DEFINE u == request[q].user
<1> DEFINE t == [user |-> u, device |-> request[q].device, second |-> second]
<1> DEFINE next == [step |-> "storeUser", user |-> u, token |-> t]
<1>1. /\ request[q].step = "sign" /\ u \in Members /\ request[q].device \in Devices
      /\ SessionsTyped /\ PairsOK /\ LogoutOK
  BY CarriesLogin DEF Sign, SessionsInv, LoginSteps
<1>2. t \in Tokens /\ t.user = u
  BY <1>1 DEF SessionsTyped, Tokens
<1> HIDE DEF t
<1>3. next \in Requests /\ next.step = "storeUser" /\ next.user = u /\ next.token = t
  BY <1>1, <1>2 DEF Requests
<1>4. /\ UNCHANGED <<accountRows, otpRows, nonceKeys, challengeKeys, second, tokenOf, sessions, loggedOut>>
      /\ signed' = signed \cup {t} /\ Serves(q, next)
      /\ crossed' = IF Storing(u, q) THEN crossed \cup {u} ELSE crossed
  BY DEF Sign, issueUnchanged, authClock, t
<1> HIDE DEF next, u
<1>5. SessionsTyped' /\ CodesOK' /\ CashOK'
  BY <1>1, <1>2, <1>3, <1>4, IssueLeavesTheRest DEF SessionsTyped
<1>6. /\ request'[q] = next /\ ~Stores(q) /\ Acting(q)
      /\ \A p \in AuthRequests \ {q} : request'[p] = request[p]
  BY <1>1, <1>3, <1>4, ServesOne DEF Stores, Acting
<1>7. PairsOK'
  <2>1. crossed \subseteq crossed' /\ tokenOf' = tokenOf
    BY <1>4
  <2>2. \A p \in AuthRequests : Stores(p)' => request'[p].token.user = request'[p].user
    BY <1>1, <1>2, <1>3, <1>6 DEF PairsOK, Stores
  <2>3. \A p \in AuthRequests : request'[p].step = "storeSession" =>
          /\ p # q /\ request'[p] = request[p] /\ request'[p].token.device \in Gadgets
          /\ request'[p].user \in crossed' \/ tokenOf'[request'[p].user] \in {NoToken, request'[p].token}
    BY <1>1, <1>3, <1>6, <2>1 DEF PairsOK
  <2>4. ASSUME NEW p \in AuthRequests, NEW s \in AuthRequests, p # s,
               Stores(p)', Stores(s)', request'[p].user = request'[s].user
        PROVE  request'[p].user \in crossed'
    <3>1. CASE p # q /\ s # q
      BY <1>1, <1>6, <2>1, <2>4, <3>1 DEF PairsOK, Stores
    <3>2. CASE p = q \/ s = q
      <4>1. PICK o \in AuthRequests \ {q} : Stores(o)' /\ request'[o].user = u
        BY <1>3, <1>6, <2>4, <3>2
      <4>2. Storing(u, q)
        BY <1>6, <4>1 DEF Storing, Stores
      <4> QED BY <1>3, <1>4, <1>6, <2>4, <3>2, <4>2
    <3> QED BY <3>1, <3>2
  <2>5. LatestRefreshes'
    <3>1. ASSUME NEW v \in Members \ crossed', tokenOf'[v] # NoToken /\ tokenOf'[v].device # NoDevice
          PROVE  \/ SessionMatches(tokenOf[v])'
                 \/ \E p \in AuthRequests : request'[p].step = "storeSession" /\ request'[p].user = v
      <4>1. \/ SessionMatches(tokenOf[v])
            \/ \E p \in AuthRequests : request[p].step = "storeSession" /\ request[p].user = v
        BY <1>1, <2>1, <3>1 DEF PairsOK, LatestRefreshes
      <4>2. \A p \in AuthRequests : request[p].step = "storeSession" => request'[p] = request[p]
        BY <1>1, <1>6
      <4> QED BY <1>4, <4>1, <4>2 DEF SessionMatches
    <3> QED BY <3>1 DEF LatestRefreshes
  <2> QED BY <1>1, <2>1, <2>2, <2>3, <2>4, <2>5 DEF PairsOK, Stores
<1>8. LogoutOK'
  BY <1>1, <1>3, <1>4, <1>6, LogoutServed DEF u
<1> QED BY <1>5, <1>7, <1>8 DEF SessionsInv

LEMMA StoreUserKeeps ==
  ASSUME SessionsInv, NEW q \in AuthRequests, StoreUser(q)
  PROVE  SessionsInv'
<1> DEFINE r == request[q]
<1> DEFINE u == r.user
<1>1. /\ r.step = "storeUser" /\ u \in Members /\ r.token \in Tokens
      /\ SessionsTyped /\ PairsOK /\ LogoutOK
  BY CarriesToken DEF StoreUser, SessionsInv
<1>2. r.token.user = u /\ r.token.device \in Devices
  BY <1>1 DEF PairsOK, Stores, Tokens
<1>3. r \in [step : {"storeUser", "storeSession", "readSession"}, user : Members, token : Tokens]
  <2>1. r \in Requests
    BY <1>1 DEF SessionsTyped
  <2> QED BY <1>1, <2>1 DEF Requests, AuthIdle
<1>4. /\ [r EXCEPT !.step = "storeSession"] \in Requests
      /\ [r EXCEPT !.step = "storeSession"].step = "storeSession"
      /\ [r EXCEPT !.step = "storeSession"].user = u
      /\ [r EXCEPT !.step = "storeSession"].token = r.token
      /\ AuthIdle \in Requests /\ AuthIdle.step = "idle"
  BY <1>2, <1>3 DEF Requests, AuthIdle
<1>5. /\ UNCHANGED <<accountRows, otpRows, nonceKeys, challengeKeys, second, sessions, signed, loggedOut>>
      /\ tokenOf' = [tokenOf EXCEPT ![u] = r.token]
      /\ crossed' = IF Storing(u, q) THEN crossed ELSE crossed \ {u}
  BY DEF StoreUser, issueUnchanged, authClock
<1>6. PICK next \in Requests :
        /\ Serves(q, next)
        /\ \/ r.token.device = NoDevice /\ next.step = "idle"
           \/ /\ r.token.device # NoDevice /\ next.step = "storeSession"
              /\ next.user = u /\ next.token = r.token
  BY <1>4 DEF StoreUser, Ends
<1>7. tokenOf' \in [Members -> Tokens \cup {NoToken}]
  BY <1>1, <1>5 DEF SessionsTyped
<1>8. SessionsTyped' /\ CodesOK' /\ CashOK'
  BY <1>1, <1>5, <1>6, <1>7, IssueLeavesTheRest DEF SessionsTyped
<1>9. /\ request'[q] = next /\ Stores(q) /\ Acting(q)
      /\ \A p \in AuthRequests \ {q} : request'[p] = request[p]
      /\ tokenOf'[u] = r.token /\ \A v \in Members \ {u} : tokenOf'[v] = tokenOf[v]
  BY <1>1, <1>5, <1>6, ServesOne DEF Stores, Acting, SessionsTyped
<1>10. u \in crossed' \/ \A p \in AuthRequests : Stores(p) /\ p # q => request[p].user # u
  <2>1. CASE Storing(u, q)
    BY <1>1, <1>5, <1>9, <2>1 DEF Storing, Stores, PairsOK
  <2>2. CASE ~Storing(u, q)
    BY <2>2 DEF Storing, Stores
  <2> QED BY <2>1, <2>2
<1>11. \A v \in Members : v # u => (v \in crossed' <=> v \in crossed)
  BY <1>5
<1> HIDE DEF u
<1>12. PairsOK'
  <2>1. \A v \in Members : tokenOf'[v] # NoToken => tokenOf'[v].user = v
    BY <1>1, <1>2, <1>9 DEF PairsOK
  <2>2. \A p \in AuthRequests : Stores(p)' => Stores(p) /\ request'[p].user = request[p].user
                                              /\ request'[p].token = request[p].token
    BY <1>6, <1>9 DEF Stores, u
  <2>3. \A p \in AuthRequests : Stores(p)' => request'[p].token.user = request'[p].user
    BY <1>1, <2>2 DEF PairsOK
  <2>4. \A p \in AuthRequests : Stores(p) => request[p].user \in Members
    BY <1>1, CarriesToken DEF Stores
  <2>5. \A p, s \in AuthRequests : Stores(p)' /\ Stores(s)' /\ request'[p].user = request'[s].user
          => p = s \/ request'[p].user \in crossed'
    <3> SUFFICES ASSUME NEW p \in AuthRequests, NEW s \in AuthRequests, Stores(p)', Stores(s)',
                        request'[p].user = request'[s].user, p # s
                 PROVE  request'[p].user \in crossed'
      OBVIOUS
    <3>1. request[p].user = request[s].user /\ request'[p].user = request[p].user /\ Stores(p) /\ Stores(s)
          /\ request[p].user \in Members
      BY <2>2, <2>4
    <3>2. CASE request[p].user = u
      BY <1>10, <3>1, <3>2 DEF u
    <3>3. CASE request[p].user # u
      BY <1>1, <1>11, <3>1, <3>3 DEF PairsOK
    <3> QED BY <3>2, <3>3
  <2>6. ASSUME NEW p \in AuthRequests, request'[p].step = "storeSession"
        PROVE  /\ request'[p].token.device \in Gadgets
               /\ request'[p].user \in crossed' \/ tokenOf'[request'[p].user] \in {NoToken, request'[p].token}
    <3>1. CASE p = q
      BY <1>2, <1>6, <1>9, <2>6, <3>1 DEF Devices
    <3>2. CASE p # q
      <4>1. request'[p] = request[p] /\ Stores(p) /\ request[p].user \in Members
        BY <1>9, <2>4, <2>6, <3>2 DEF Stores
      <4>2. CASE request[p].user = u
        BY <1>1, <1>10, <2>6, <3>2, <4>1, <4>2 DEF PairsOK
      <4>3. CASE request[p].user # u
        BY <1>1, <1>9, <1>11, <2>6, <4>1, <4>3 DEF PairsOK
      <4> QED BY <4>2, <4>3
    <3> QED BY <3>1, <3>2
  <2>7. LatestRefreshes'
    <3>1. ASSUME NEW v \in Members \ crossed', tokenOf'[v] # NoToken /\ tokenOf'[v].device # NoDevice
          PROVE  \/ SessionMatches(tokenOf[v])'
                 \/ \E p \in AuthRequests : request'[p].step = "storeSession" /\ request'[p].user = v
      <4>1. CASE v = u
        BY <1>6, <1>9, <3>1, <4>1
      <4>2. CASE v # u
        <5>1. /\ tokenOf'[v] = tokenOf[v]
              /\ \/ SessionMatches(tokenOf[v])
                 \/ \E p \in AuthRequests : request[p].step = "storeSession" /\ request[p].user = v
          BY <1>1, <1>9, <1>11, <3>1, <4>2 DEF PairsOK, LatestRefreshes
        <5>2. \A p \in AuthRequests : request[p].user = v => p # q
          BY <4>2 DEF u
        <5> QED BY <1>5, <1>9, <5>1, <5>2 DEF SessionMatches
      <4> QED BY <4>1, <4>2
    <3> QED BY <3>1 DEF LatestRefreshes
  <2> QED BY <2>1, <2>3, <2>5, <2>6, <2>7 DEF PairsOK, Stores
<1>13. LogoutOK'
  <2>1. \A v \in loggedOut : v # u
    BY <1>1, <1>9 DEF LogoutOK, u
  <2>2. \A p \in AuthRequests : Acting(p)' => Acting(p) /\ request'[p].user = request[p].user
    BY <1>6, <1>9 DEF Acting, u
  <2>3. \A v \in loggedOut : tokenOf'[v] = NoToken
    BY <1>1, <1>9, <2>1 DEF LogoutOK, SessionsTyped
  <2>4. \A v \in loggedOut : \A p \in AuthRequests : Acting(p)' => request'[p].user # v
    BY <1>1, <2>2 DEF LogoutOK
  <2> QED BY <1>5, <2>3, <2>4 DEF LogoutOK, Acting
<1> QED BY <1>8, <1>12, <1>13 DEF SessionsInv

LEMMA StoreSessionKeeps ==
  ASSUME SessionsInv, NEW q \in AuthRequests, StoreSession(q)
  PROVE  SessionsInv'
<1> DEFINE r == request[q]
<1> DEFINE u == r.user
<1> DEFINE d == r.token.device
<1>1. /\ r.step = "storeSession" /\ u \in Members /\ r.token \in Tokens
      /\ SessionsTyped /\ PairsOK /\ LogoutOK
  BY CarriesToken DEF StoreSession, SessionsInv
<1>2. r.token.user = u /\ d \in Gadgets /\ (u \in crossed \/ tokenOf[u] \in {NoToken, r.token})
  BY <1>1 DEF PairsOK, Stores
<1>3. /\ UNCHANGED <<accountRows, otpRows, nonceKeys, challengeKeys, second, tokenOf, signed, loggedOut, crossed>>
      /\ sessions' = [sessions EXCEPT ![u][d] = r.token]
      /\ Serves(q, AuthIdle) /\ AuthIdle \in Requests /\ AuthIdle.step = "idle"
  BY DEF StoreSession, issueUnchanged, authClock, sessionHistory, Ends, Requests, AuthIdle
<1> HIDE DEF u, d
<1>4. /\ sessions' \in [Members -> [Gadgets -> Tokens \cup {NoToken}]] /\ sessions'[u][d] = r.token
      /\ \A v \in Members \ {u} : sessions'[v] = sessions[v]
  BY <1>1, <1>2, <1>3 DEF SessionsTyped
<1>5. SessionsTyped' /\ CodesOK' /\ CashOK'
  BY <1>1, <1>3, <1>4, IssueLeavesTheRest DEF SessionsTyped
<1>6. /\ request'[q] = AuthIdle
      /\ \A p \in AuthRequests \ {q} : request'[p] = request[p]
  BY <1>1, <1>3, ServesOne
<1>7. LatestRefreshes'
  <2>1. ASSUME NEW v \in Members \ crossed, tokenOf[v] # NoToken, tokenOf[v].device # NoDevice
        PROVE  \/ SessionMatches(tokenOf[v])'
               \/ \E p \in AuthRequests : request'[p].step = "storeSession" /\ request'[p].user = v
    <3>1. CASE v = u
      <4>1. tokenOf[v] = r.token
        BY <1>2, <2>1, <3>1
      <4> QED BY <1>2, <1>3, <1>4, <2>1, <4>1 DEF SessionMatches, d
    <3>2. CASE v # u
      <4>1. /\ tokenOf[v].user = v
            /\ \/ SessionMatches(tokenOf[v])
               \/ \E p \in AuthRequests : request[p].step = "storeSession" /\ request[p].user = v
        BY <1>1, <2>1 DEF PairsOK, LatestRefreshes
      <4>2. \A p \in AuthRequests : request[p].user = v => p # q
        BY <3>2 DEF u
      <4> QED BY <1>3, <1>4, <1>6, <3>2, <4>1, <4>2 DEF SessionMatches
    <3> QED BY <3>1, <3>2
  <2> QED BY <1>3, <2>1 DEF LatestRefreshes
<1>8. \A p \in AuthRequests : Stores(p)' => p # q /\ request'[p] = request[p]
  BY <1>3, <1>6 DEF Stores
<1>9. PairsOK'
  BY <1>1, <1>3, <1>7, <1>8 DEF PairsOK, Stores
<1>10. LogoutOK'
  BY <1>1, <1>3, LogoutServed DEF ActingSteps
<1> QED BY <1>5, <1>9, <1>10 DEF SessionsInv

LEMMA RefreshKeeps ==
  ASSUME SessionsInv, NEW q \in AuthRequests, NEW t \in signed, Refresh(q, t)
  PROVE  SessionsInv'
<1> DEFINE next == [step |-> "readSession", user |-> t.user, token |-> t]
<1>1. t \in Tokens /\ t.user \in Members /\ t # NoToken
      /\ SessionsTyped /\ PairsOK /\ LogoutOK
  BY SessionsAssumption DEF SessionsInv, SessionsTyped, Tokens, Devices
<1>2. next \in Requests /\ next.step = "readSession" /\ next.user = t.user
  BY <1>1 DEF Requests
<1>3. /\ UNCHANGED <<accountRows, otpRows, nonceKeys, challengeKeys, second, tokenOf, sessions,
                     signed, loggedOut, crossed>>
      /\ Serves(q, next) /\ tokenOf[t.user] = t /\ ~Stores(q)
  BY DEF Refresh, Refreshes, Starts, issueUnchanged, authClock, tokenRows, sessionHistory, Stores, AuthIdle
<1> HIDE DEF next
<1>4. t.user \notin loggedOut
  BY <1>1, <1>3 DEF LogoutOK
<1>5. SessionsTyped' /\ CodesOK' /\ CashOK'
  BY <1>1, <1>2, <1>3, IssueLeavesTheRest DEF SessionsTyped
<1>6. PairsOK' /\ LogoutOK'
  BY <1>1, <1>2, <1>3, <1>4, PairsServed, LogoutServed
<1> QED BY <1>5, <1>6 DEF SessionsInv

LEMMA ReadSessionKeeps ==
  ASSUME SessionsInv, NEW q \in AuthRequests, ReadSession(q)
  PROVE  SessionsInv'
<1> DEFINE t == request[q].token
<1>1. /\ request[q].step = "readSession" /\ request[q].user \in Members /\ t \in Tokens
      /\ t.user = request[q].user /\ t.device \in Devices
      /\ SessionsTyped /\ PairsOK /\ LogoutOK
  BY CarriesToken DEF ReadSession, SessionsInv, Tokens
<1>2. PICK next \in Requests :
        /\ Serves(q, next) /\ next.step \in {"sign", "idle"}
        /\ next.step = "sign" => next.user = request[q].user
  BY <1>1, LoginCarries DEF ReadSession, Ends
<1>3. /\ UNCHANGED <<accountRows, otpRows, nonceKeys, challengeKeys, second, tokenOf, sessions,
                     signed, loggedOut, crossed>>
      /\ ~Stores(q) /\ Acting(q)
  BY <1>1 DEF ReadSession, issueUnchanged, authClock, tokenRows, sessionHistory, Stores, Acting
<1>4. SessionsTyped' /\ CodesOK' /\ CashOK'
  BY <1>1, <1>2, <1>3, IssueLeavesTheRest DEF SessionsTyped
<1>5. PairsOK' /\ LogoutOK'
  BY <1>1, <1>2, <1>3, PairsServed, LogoutServed DEF ActingSteps
<1> QED BY <1>4, <1>5 DEF SessionsInv

\* A logout clears the row of the user; the sessions of the devices stay.
LEMMA LogoutKeeps ==
  ASSUME SessionsInv, NEW t \in signed, Logout(t)
  PROVE  SessionsInv'
<1> DEFINE u == t.user
<1>1. u \in Members /\ SessionsTyped /\ PairsOK /\ LogoutOK
  BY DEF SessionsInv, SessionsTyped, Tokens
<1>2. /\ UNCHANGED <<accountRows, otpRows, nonceKeys, challengeKeys, second, sessions, signed, crossed, request>>
      /\ tokenOf' = [tokenOf EXCEPT ![u] = NoToken]
      /\ loggedOut' = IF UnderWay(u) THEN loggedOut ELSE loggedOut \cup {u}
  BY DEF Logout, issueUnchanged, authClock
<1> HIDE DEF u
<1>3. /\ tokenOf' \in [Members -> Tokens \cup {NoToken}] /\ tokenOf'[u] = NoToken
      /\ \A v \in Members \ {u} : tokenOf'[v] = tokenOf[v]
  BY <1>1, <1>2 DEF SessionsTyped
<1>4. SessionsTyped'
  BY <1>1, <1>2, <1>3 DEF SessionsTyped, accountRows, otpRows, nonceKeys, challengeKeys
<1>5. CodesOK' /\ CashOK'
  BY <1>2, CodesRest, CashRests DEF SessionsInv, otpRows, GivesCash
<1>6. PairsOK'
  <2>1. LatestRefreshes'
    BY <1>1, <1>2, <1>3 DEF PairsOK, LatestRefreshes, SessionMatches
  <2>2. \A p \in AuthRequests : request[p].step = "storeSession" => request[p].user \in Members
    BY <1>1, CarriesToken
  <2> QED BY <1>1, <1>2, <1>3, <2>1, <2>2 DEF PairsOK, Stores
<1>7. LogoutOK'
  <2>1. ASSUME NEW v \in loggedOut'
        PROVE  tokenOf'[v] = NoToken /\ \A p \in AuthRequests : Acting(p) => request[p].user # v
    <3>1. CASE v \in loggedOut
      BY <1>1, <1>3, <3>1 DEF LogoutOK, SessionsTyped
    <3>2. CASE v \notin loggedOut
      <4>1. v = u /\ ~UnderWay(u)
        BY <1>2, <2>1, <3>2
      <4>2. \A p \in AuthRequests : Acting(p) => "user" \in DOMAIN request[p]
        <5> SUFFICES ASSUME NEW p \in AuthRequests, Acting(p)
                     PROVE  "user" \in DOMAIN request[p]
          OBVIOUS
        <5>1. request[p] \in Requests
          BY <1>1 DEF SessionsTyped
        <5> QED BY <5>1 DEF Requests, AuthIdle, Acting
      <4> QED BY <1>3, <4>1, <4>2 DEF UnderWay
    <3> QED BY <3>1, <3>2
  <2> QED BY <1>2, <2>1 DEF LogoutOK, Acting
<1> QED BY <1>4, <1>5, <1>6, <1>7 DEF SessionsInv

------------------------------------------------------------------------------
(***************************************************************************)
(* Time and failures                                                       *)
(***************************************************************************)
LEMMA NextSecondKeeps ==
  ASSUME SessionsInv, NextSecond
  PROVE  SessionsInv'
<1>1. UNCHANGED <<accountRows, tokenRows, otpRows, nonceKeys, challengeKeys, request, sessionHistory>>
      /\ second' \in 0 .. MaxSeconds
  BY SessionsAssumption DEF NextSecond, SessionsInv, SessionsTyped
<1>2. SessionsTyped' /\ CodesOK'
  BY <1>1, CodesRest DEF SessionsInv, SessionsTyped, accountRows, tokenRows, otpRows, nonceKeys,
     challengeKeys, sessionHistory
<1> QED BY <1>1, <1>2, TablesRest DEF SessionsInv

LEMMA RequestThrowsKeeps ==
  ASSUME SessionsInv, NEW q \in AuthRequests, RequestThrows(q)
  PROVE  SessionsInv'
<1> DEFINE r == request[q]
<1>1. /\ SessionsTyped /\ PairsOK /\ LogoutOK
      /\ AuthIdle \in Requests /\ AuthIdle.step = "idle" /\ Serves(q, AuthIdle)
      /\ UNCHANGED <<accountRows, tokenRows, otpRows, nonceKeys, challengeKeys, second, loggedOut>>
      /\ crossed' = IF r.step = "storeSession" THEN crossed \cup {r.user} ELSE crossed
  BY DEF RequestThrows, Ends, SessionsInv, Requests, AuthIdle
<1>2. UNCHANGED <<tokenOf, sessions, signed>>
  BY <1>1 DEF tokenRows
<1>3. SessionsTyped' /\ CodesOK' /\ CashOK'
  BY <1>1, <1>2, IssueLeavesTheRest DEF SessionsTyped
<1>4. /\ request'[q] = AuthIdle
      /\ \A p \in AuthRequests \ {q} : request'[p] = request[p]
  BY <1>1, ServesOne
<1>5. LatestRefreshes'
  <2>1. ASSUME NEW v \in Members \ crossed', tokenOf[v] # NoToken, tokenOf[v].device # NoDevice
        PROVE  \/ SessionMatches(tokenOf[v])
               \/ \E p \in AuthRequests : request'[p].step = "storeSession" /\ request'[p].user = v
    <3>1. \/ SessionMatches(tokenOf[v])
          \/ \E p \in AuthRequests : request[p].step = "storeSession" /\ request[p].user = v
      BY <1>1, <2>1 DEF PairsOK, LatestRefreshes
    <3>2. \A p \in AuthRequests : request[p].step = "storeSession" /\ request[p].user = v => p # q
      BY <1>1, <2>1
    <3> QED BY <1>4, <3>1, <3>2
  <2> QED BY <1>2, <2>1 DEF LatestRefreshes, SessionMatches
<1>6. PairsOK'
  <2>1. \A p \in AuthRequests : Stores(p)' => p # q /\ request'[p] = request[p]
    BY <1>1, <1>4 DEF Stores
  <2>2. crossed \subseteq crossed'
    BY <1>1
  <2> QED BY <1>1, <1>2, <1>5, <2>1, <2>2 DEF PairsOK, Stores
<1>7. LogoutOK'
  BY <1>1, <1>2, LogoutServed DEF ActingSteps
<1> QED BY <1>3, <1>6, <1>7 DEF SessionsInv

------------------------------------------------------------------------------
(***************************************************************************)
(* The theorems                                                            *)
(***************************************************************************)
LEMMA SessionsStart ==
  ASSUME AuthInit
  PROVE  SessionsInv
<1>1. SessionsTyped
  <2>1. AuthIdle \in Requests
    BY DEF Requests
  <2> QED BY <2>1, SessionsAssumption DEF AuthInit, AuthInitWith, SessionsTyped
<1>2. \A q \in AuthRequests : request[q].step = "idle"
  BY DEF AuthInit, AuthInitWith, AuthIdle
<1>3. CodesOK
  BY <1>2, SessionsAssumption DEF AuthInit, AuthInitWith, CodesOK, HasCode
<1>4. CashOK
  BY <1>2 DEF AuthInit, AuthInitWith, CashOK, GivesCash
<1>5. PairsOK
  BY <1>2 DEF AuthInit, AuthInitWith, PairsOK, Stores, LatestRefreshes
<1>6. LogoutOK
  BY DEF AuthInit, AuthInitWith, LogoutOK
<1> QED BY <1>1, <1>3, <1>4, <1>5, <1>6 DEF SessionsInv

LEMMA SessionsStep ==
  ASSUME SessionsInv, [AuthNext]_authVars
  PROVE  SessionsInv'
<1>1. CASE OtpNext
  <2>1. CASE \E q \in AuthRequests : StoreOtp(q) \/ DeleteOtp(q) \/ EndChallenge(q)
    BY <2>1, StoreOtpKeeps, DeleteOtpKeeps, EndChallengeKeeps
  <2>2. CASE \E u \in Members : OtpAges(u) \/ CreateChallenge(u)
    BY <2>2, OtpAgesKeeps, CreateChallengeKeeps
  <2>3. CASE \E u \in Members, q \in AuthRequests : ReadForOtp(q, u) \/ \E b \in BOOLEAN : ReadOtp(q, u, b)
    BY <2>3, ReadForOtpKeeps, ReadOtpKeeps
  <2>4. CASE \E c \in challenges :
               ChallengeExpires(c) \/ \E q \in AuthRequests : VerifyByCode(q, c) \/ VerifyByTotp(q, c)
    BY <2>4, ChallengeExpiresKeeps, VerifyByCodeKeeps, VerifyByTotpKeeps
  <2>5. CASE CleanUp
    BY <2>5, CleanUpKeeps
  <2> QED BY <1>1, <2>1, <2>2, <2>3, <2>4, <2>5 DEF OtpNext
<1>2. CASE LoginNext
  <2>1. CASE AccountStep
    BY <2>1, DeleteNonceKeeps, FindWalletKeeps, CreateUserKeeps, FindCashKeeps, CreateCashKeeps
    DEF AccountStep
  <2>2. ASSUME NEW u \in Members, LoginBy(u, Devices)
        PROVE  SessionsInv'
    <3>1. CASE SoftDeleteAccount(u) \/ \E b \in BOOLEAN : CreateWeb3Nonce(u, b)
      BY <3>1, SoftDeleteAccountKeeps, CreateWeb3NonceKeeps
    <3>2. CASE \E q \in AuthRequests, d \in Devices :
                 Register(q, u, d) \/ Login(q, u, d) \/ LoginWithSocial(q, u, d)
      BY <3>2, RegisterKeeps, LoginKeeps, LoginWithSocialKeeps
    <3>3. ASSUME NEW q \in AuthRequests, NEW d \in Devices, NEW n \in 1 .. nonceCount,
                 VerifySignature(q, u, n, d)
          PROVE  SessionsInv'
      <4>1. n \in Nat
        BY DEF SessionsInv, SessionsTyped
      <4> QED BY <3>3, <4>1, VerifySignatureKeeps
    <3> QED BY <2>2, <3>1, <3>2, <3>3 DEF LoginBy
  <2> QED BY <1>2, <2>1, <2>2 DEF LoginNext
<1>3. CASE IssueStep
  BY <1>3, SignKeeps, StoreUserKeeps, StoreSessionKeeps, ReadSessionKeeps DEF IssueStep
<1>4. CASE RotationNext
  BY <1>4, LogoutKeeps, RefreshKeeps DEF RotationNext
<1>5. CASE NextSecond \/ AuthThrows
  BY <1>5, NextSecondKeeps, RequestThrowsKeeps DEF AuthThrows
<1>6. CASE UNCHANGED authVars
  <2>1. UNCHANGED <<accountRows, tokenRows, otpRows, nonceKeys, challengeKeys, request, authClock,
                    sessionHistory>>
    BY <1>6 DEF authVars
  <2>2. SessionsTyped' /\ CodesOK'
    BY <2>1, CodesRest DEF SessionsInv, SessionsTyped, accountRows, tokenRows, otpRows, nonceKeys,
       challengeKeys, authClock, sessionHistory
  <2> QED BY <2>1, <2>2, TablesRest DEF SessionsInv
<1> QED BY <1>1, <1>2, <1>3, <1>4, <1>5, <1>6 DEF AuthNext

LEMMA SessionsInvHolds == AuthSpec => []SessionsInv
<1>1. AuthInit => SessionsInv
  BY SessionsStart
<1>2. SessionsInv /\ [AuthNext]_authVars => SessionsInv'
  BY SessionsStep
<1> QED BY <1>1, <1>2, PTL DEF AuthSpec

\* The token of a user's row refreshes once no request is storing a pair, but
\* where two pairs were issued at once or one was stored by half; and a logout
\* that meets no request of the user leaves nothing that can be refreshed
\* (TokenService.issueTokenPair, refreshAccessToken and revokeRefreshTokenByToken).
THEOREM LoginsHold == AuthSpec => []SessionsHold
<1>1. SessionsInv => SessionsHold
  BY DEF SessionsInv, PairsOK, LogoutOK, SessionsHold, LoggedOutStaysOut, Acting
<1> QED BY <1>1, SessionsInvHolds, PTL

\* A code is accepted once, unless it is replaced between a request's reading
\* and deleting of it, and a user gets one cash row (OtpService.verifyOtp and
\* AuthService.ensureDefaultAccountAndBalance).
THEOREM OneRegistration == AuthSpec => []RegisteredOnce
<1>1. SessionsInv => RegisteredOnce
  <2>1. SessionsInv => \A c \in 1 .. MaxCodes : spent[c] <= 1 \/ c \in replaced
    BY DEF SessionsInv, CodesOK
  <2> QED BY <2>1 DEF SessionsInv, CashOK, RegisteredOnce
<1> QED BY <1>1, SessionsInvHolds, PTL

------------------------------------------------------------------------------
(***************************************************************************)
(* Market data: lists of trades.  What is selected of a list, or made of   *)
(* it, is defined by recursive functions on its prefixes; as for sums,     *)
(* what holds for every list is climbed to, one element at a time.         *)
(***************************************************************************)
\* What holds of the empty list and stays when an element is appended holds of all.
LEMMA ListClimb ==
  ASSUME NEW S, NEW Good, <<>> \in Good,
         \A s \in Seq(S), e \in S : s \in Good => Append(s, e) \in Good
  PROVE  Seq(S) \subseteq Good
<1> DEFINE Up == {n \in Nat : \A s \in Seq(S) : Len(s) = n => s \in Good}
<1>1. 0 \in Up
  BY EmptySeq
<1>2. ASSUME NEW n \in Nat, n \in Up PROVE n + 1 \in Up
  <2>1. ASSUME NEW s \in Seq(S), Len(s) = n + 1 PROVE s \in Good
    <3>1. s # <<>>
      BY <2>1, EmptySeq
    <3>2. PICK t \in Seq(S), e \in S : s = Append(t, e)
      BY <3>1, SequenceEmptyOrAppend
    <3>3. Len(t) \in Nat /\ Len(s) = Len(t) + 1
      BY <3>2, AppendProperties, LenProperties
    <3>4. t \in Good
      BY <1>2, <2>1, <3>3
    <3> QED BY <3>2, <3>4
  <2> QED BY <2>1
<1>3. Nat \subseteq Up
  <2> HIDE DEF Up
  <2> QED BY <1>1, <1>2, Climb
<1> QED BY <1>3, LenProperties

\* The prefixes of a list, selected from.
Selects(wanted, list, n, f) ==
  f = [k \in 0 .. n |-> IF k = 0 THEN <<>>
                        ELSE IF list[k] \in wanted THEN Append(f[k - 1], list[k]) ELSE f[k - 1]]

LEMMA SelectionExists ==
  ASSUME NEW wanted, NEW list, NEW n \in Nat
  PROVE  \E f : Selects(wanted, list, n, f)
<1> DEFINE Good == {m \in Nat : \E f : Selects(wanted, list, m, f)}
<1>1. 0 \in Good
  <2>1. Selects(wanted, list, 0, [k \in 0 .. 0 |-> <<>>])
    BY DEF Selects
  <2> QED BY <2>1
<1>2. ASSUME NEW m \in Nat, m \in Good PROVE m + 1 \in Good
  <2>1. PICK f : Selects(wanted, list, m, f)
    BY <1>2
  <2> DEFINE g == [k \in 0 .. m + 1 |-> IF k = 0 THEN <<>>
                     ELSE IF list[k] \in wanted THEN Append(f[k - 1], list[k]) ELSE f[k - 1]]
  <2>2. ASSUME NEW k \in 0 .. m + 1, k # 0 PROVE g[k - 1] = f[k - 1]
    <3>1. k - 1 \in 0 .. m /\ k - 1 \in 0 .. m + 1
      BY <2>2
    <3> QED BY <2>1, <3>1 DEF Selects
  <2>3. Selects(wanted, list, m + 1, g)
    BY <2>2 DEF Selects
  <2> QED BY <2>3
<1>3. Nat \subseteq Good
  <2> HIDE DEF Good
  <2> QED BY <1>1, <1>2, Climb
<1> QED BY <1>3

LEMMA AmongIs ==
  ASSUME NEW wanted, NEW list, Len(list) \in Nat
  PROVE  \E f : Selects(wanted, list, Len(list), f) /\ Among(wanted, list) = f[Len(list)]
<1> DEFINE It == CHOOSE f : Selects(wanted, list, Len(list), f)
<1>1. Selects(wanted, list, Len(list), It)
  BY SelectionExists
<1>2. Among(wanted, list) = It[Len(list)]
  BY DEF Among, Selects
<1> QED BY <1>1, <1>2

LEMMA SelectsAlike ==
  ASSUME NEW wanted, NEW list, NEW more, NEW n \in Nat, NEW f, NEW g,
         Selects(wanted, list, n, f), Selects(wanted, more, n + 1, g),
         \A k \in 1 .. n : list[k] = more[k]
  PROVE  f[n] = g[n]
<1> DEFINE Good == {m \in Nat : m <= n => f[m] = g[m]}
<1>1. 0 \in Good
  BY DEF Selects
<1>2. ASSUME NEW m \in Nat, m \in Good PROVE m + 1 \in Good
  <2>1. SUFFICES ASSUME m + 1 <= n PROVE f[m + 1] = g[m + 1]
    OBVIOUS
  <2>2. m + 1 \in 0 .. n /\ m + 1 \in 1 .. n /\ m + 1 \in 0 .. n + 1 /\ m + 1 # 0 /\ (m + 1) - 1 = m /\ m <= n
    BY <2>1
  <2>3. f[m] = g[m] /\ list[m + 1] = more[m + 1]
    BY <1>2, <2>2
  <2>4. f[m + 1] = IF list[m + 1] \in wanted THEN Append(f[m], list[m + 1]) ELSE f[m]
    BY <2>2 DEF Selects
  <2>5. g[m + 1] = IF more[m + 1] \in wanted THEN Append(g[m], more[m + 1]) ELSE g[m]
    BY <2>2 DEF Selects
  <2> QED BY <2>3, <2>4, <2>5
<1>3. Nat \subseteq Good
  <2> HIDE DEF Good
  <2> QED BY <1>1, <1>2, Climb
<1>4. n \in Good
  BY <1>3
<1> QED BY <1>4

\* Nothing of nothing; and a list's last element is taken or left.
LEMMA AmongNone == ASSUME NEW wanted PROVE Among(wanted, <<>>) = <<>>
<1>1. Len(<<>>) = 0
  BY EmptySeq
<1>2. PICK f : Selects(wanted, <<>>, 0, f) /\ Among(wanted, <<>>) = f[0]
  BY <1>1, AmongIs
<1> QED BY <1>2 DEF Selects

LEMMA AmongAppend ==
  ASSUME NEW S, NEW s \in Seq(S), NEW e \in S, NEW wanted
  PROVE  Among(wanted, Append(s, e)) = IF e \in wanted THEN Append(Among(wanted, s), e) ELSE Among(wanted, s)
<1>1. PICK n \in Nat : n = Len(s)
  BY LenProperties
<1>2. PICK t : t = Append(s, e)
  OBVIOUS
<1>3. n + 1 \in Nat /\ Len(t) = n + 1 /\ t[n + 1] = e /\ \A k \in 1 .. n : s[k] = t[k]
  BY <1>1, <1>2, AppendProperties
<1>4. PICK f : Selects(wanted, s, n, f) /\ Among(wanted, s) = f[n]
  BY <1>1, AmongIs
<1>5. PICK g : Selects(wanted, t, n + 1, g) /\ Among(wanted, t) = g[n + 1]
  <2>1. Len(t) \in Nat
    BY <1>3
  <2>2. \E g : Selects(wanted, t, Len(t), g) /\ Among(wanted, t) = g[Len(t)]
    BY <2>1, AmongIs
  <2> QED BY <1>3, <2>2
<1>6. f[n] = g[n]
  <2>1. Selects(wanted, s, n, f) /\ Selects(wanted, t, n + 1, g) /\ \A k \in 1 .. n : s[k] = t[k]
    BY <1>3, <1>4, <1>5
  <2> QED BY <2>1, SelectsAlike
<1>7. n + 1 \in 0 .. n + 1 /\ n + 1 # 0 /\ (n + 1) - 1 = n
  OBVIOUS
<1>8. g[n + 1] = IF t[n + 1] \in wanted THEN Append(g[n], t[n + 1]) ELSE g[n]
  BY <1>5, <1>7 DEF Selects
<1> QED BY <1>2, <1>3, <1>4, <1>5, <1>6, <1>8

LEMMA ConcatAppend ==
  ASSUME NEW S, NEW s \in Seq(S), NEW t \in Seq(S), NEW e \in S
  PROVE  s \o Append(t, e) = Append(s \o t, e)
<1>1. <<e>> \in Seq(S)
  OBVIOUS
<1>2. Append(t, e) = t \o <<e>>
  BY AppendIsConcat
<1>3. s \o t \in Seq(S)
  BY ConcatProperties
<1>4. Append(s \o t, e) = (s \o t) \o <<e>>
  BY <1>3, AppendIsConcat
<1>5. (s \o t) \o <<e>> = s \o (t \o <<e>>)
  BY <1>1, ConcatAssociative
<1> QED BY <1>2, <1>4, <1>5

LEMMA AmongInSeq ==
  ASSUME NEW S, NEW s \in Seq(S), NEW wanted
  PROVE  Among(wanted, s) \in Seq(S)
<1> DEFINE Good == {t \in Seq(S) : Among(wanted, t) \in Seq(S)}
<1>1. <<>> \in Good
  BY AmongNone, EmptySeq
<1>2. ASSUME NEW t \in Seq(S), NEW e \in S, t \in Good PROVE Append(t, e) \in Good
  <2>1. Among(wanted, t) \in Seq(S)
    BY <1>2
  <2>2. Append(t, e) \in Seq(S) /\ Append(Among(wanted, t), e) \in Seq(S)
    BY <2>1, AppendProperties
  <2> QED BY <2>1, <2>2, AmongAppend
<1>3. Seq(S) \subseteq Good
  <2> HIDE DEF Good
  <2> QED BY <1>1, <1>2, ListClimb
<1> QED BY <1>3

\* What is selected of two lists in a row is selected of each.
LEMMA AmongConcat ==
  ASSUME NEW S, NEW s \in Seq(S), NEW t \in Seq(S), NEW wanted
  PROVE  Among(wanted, s \o t) = Among(wanted, s) \o Among(wanted, t)
<1> DEFINE Good == {u \in Seq(S) : Among(wanted, s \o u) = Among(wanted, s) \o Among(wanted, u)}
<1>1. Among(wanted, s) \in Seq(S)
  BY AmongInSeq
<1>2. <<>> \in Good
  BY <1>1, AmongNone, EmptySeq, ConcatEmptySeq
<1>3. ASSUME NEW u \in Seq(S), NEW e \in S, u \in Good PROVE Append(u, e) \in Good
  <2>1. Among(wanted, s \o u) = Among(wanted, s) \o Among(wanted, u) /\ Among(wanted, u) \in Seq(S)
    BY <1>3, AmongInSeq
  <2>2. s \o Append(u, e) = Append(s \o u, e) /\ s \o u \in Seq(S) /\ Append(u, e) \in Seq(S)
    BY ConcatAppend, ConcatProperties, AppendProperties
  <2>3. Among(wanted, s) \o Append(Among(wanted, u), e) = Append(Among(wanted, s) \o Among(wanted, u), e)
    BY <1>1, <2>1, ConcatAppend
  <2>4. Among(wanted, Append(s \o u, e))
          = IF e \in wanted THEN Append(Among(wanted, s \o u), e) ELSE Among(wanted, s \o u)
    BY <2>2, AmongAppend
  <2>5. Among(wanted, Append(u, e)) = IF e \in wanted THEN Append(Among(wanted, u), e) ELSE Among(wanted, u)
    BY AmongAppend
  <2> QED BY <2>1, <2>2, <2>3, <2>4, <2>5
<1>4. Seq(S) \subseteq Good
  <2> HIDE DEF Good
  <2> QED BY <1>2, <1>3, ListClimb
<1> QED BY <1>4

Elements(s) == {s[i] : i \in 1 .. Len(s)}

LEMMA ElementsAppend ==
  ASSUME NEW S, NEW s \in Seq(S), NEW e \in S
  PROVE  Elements(Append(s, e)) = Elements(s) \cup {e}
<1>1. PICK n \in Nat : n = Len(s)
  BY LenProperties
<1>2. PICK t : t = Append(s, e)
  OBVIOUS
<1>3. Len(t) = n + 1 /\ t[n + 1] = e /\ \A k \in 1 .. n : s[k] = t[k]
  BY <1>1, <1>2, AppendProperties
<1>4. 1 .. n + 1 = (1 .. n) \cup {n + 1}
  OBVIOUS
<1>5. Elements(t) = {t[k] : k \in 1 .. n + 1} /\ Elements(s) = {s[k] : k \in 1 .. n}
  BY <1>1, <1>3 DEF Elements
<1>6. {t[k] : k \in 1 .. n + 1} = {t[k] : k \in 1 .. n} \cup {t[n + 1]}
  BY <1>4
<1>7. {t[k] : k \in 1 .. n} = {s[k] : k \in 1 .. n}
  BY <1>3
<1> QED BY <1>2, <1>3, <1>5, <1>6, <1>7

LEMMA ElementsNone == Elements(<<>>) = {}
<1>1. Len(<<>>) = 0
  BY EmptySeq
<1>2. 1 .. 0 = {}
  OBVIOUS
<1> QED BY <1>1, <1>2 DEF Elements

LEMMA NoElements ==
  ASSUME NEW S, NEW s \in Seq(S)
  PROVE  Elements(s) \subseteq S /\ (Elements(s) = {} <=> s = <<>>)
<1>1. Elements(s) \subseteq S
  BY ElementOfSeq DEF Elements
<1>2. ASSUME s # <<>> PROVE Elements(s) # {}
  <2>1. Len(s) \in Nat \ {0}
    BY <1>2, EmptySeq
  <2>2. 1 \in 1 .. Len(s)
    BY <2>1
  <2> QED BY <2>2 DEF Elements
<1> QED BY <1>1, <1>2, ElementsNone

LEMMA AmongElements ==
  ASSUME NEW S, NEW s \in Seq(S), NEW wanted
  PROVE  Elements(Among(wanted, s)) = Elements(s) \cap wanted
<1> DEFINE Good == {t \in Seq(S) : Elements(Among(wanted, t)) = Elements(t) \cap wanted}
<1>1. <<>> \in Good
  BY AmongNone, EmptySeq, ElementsNone
<1>2. ASSUME NEW t \in Seq(S), NEW e \in S, t \in Good PROVE Append(t, e) \in Good
  <2>1. Elements(Among(wanted, t)) = Elements(t) \cap wanted /\ Among(wanted, t) \in Seq(S)
    BY <1>2, AmongInSeq
  <2>2. /\ Append(t, e) \in Seq(S) /\ Elements(Append(t, e)) = Elements(t) \cup {e}
        /\ Elements(Append(Among(wanted, t), e)) = Elements(Among(wanted, t)) \cup {e}
    BY <2>1, AppendProperties, ElementsAppend
  <2>3. Among(wanted, Append(t, e)) = IF e \in wanted THEN Append(Among(wanted, t), e) ELSE Among(wanted, t)
    BY AmongAppend
  <2>4. CASE e \in wanted
    BY <2>1, <2>2, <2>3, <2>4
  <2>5. CASE e \notin wanted
    BY <2>1, <2>2, <2>3, <2>5
  <2> QED BY <2>4, <2>5
<1>3. Seq(S) \subseteq Good
  <2> HIDE DEF Good
  <2> QED BY <1>1, <1>2, ListClimb
<1> QED BY <1>3

------------------------------------------------------------------------------
(***************************************************************************)
(* The candle of a list of trades                                          *)
(***************************************************************************)
CandleRows == [open : Nat, high : Nat, low : Nat, close : Nat, volume : Nat \ {0}]
Cells == CandleRows \cup {NoCandle}
TradeLists == Seq(Trades)

LEMMA TradeTyped ==
  ASSUME NEW t \in Trades
  PROVE  /\ t.price \in Nat \ {0} /\ t.quantity \in Nat \ {0} /\ t.at \in 0 .. LastMinute
         /\ OneTrade(t) \in CandleRows
<1>1. t.price \in Nat \ {0} /\ t.quantity \in Nat \ {0} /\ t.at \in 0 .. LastMinute
  BY MarketAssumption DEF Trades
<1> QED BY <1>1 DEF OneTrade, CandleRows

LEMMA MaxIs ==
  ASSUME NEW S, S \subseteq Int, NEW m \in S, \A x \in S : x <= m
  PROVE  Max(S) = m
<1>1. m \in Int /\ \A x \in S : m >= x
  OBVIOUS
<1>2. \A y \in S : (\A x \in S : y >= x) => y = m
  <2>1. ASSUME NEW y \in S, y >= m PROVE y = m
    <3>1. y \in Int /\ y <= m
      OBVIOUS
    <3> QED BY <1>1, <2>1, <3>1
  <2> QED BY <2>1
<1> QED BY <1>1, <1>2 DEF Max

LEMMA MinIs ==
  ASSUME NEW S, S \subseteq Int, NEW m \in S, \A x \in S : m <= x
  PROVE  Min(S) = m
<1>1. m \in Int
  OBVIOUS
<1>2. \A y \in S : (\A x \in S : y <= x) => y = m
  <2>1. ASSUME NEW y \in S, y <= m PROVE y = m
    <3>1. y \in Int /\ m <= y
      OBVIOUS
    <3> QED BY <1>1, <2>1, <3>1
  <2> QED BY <2>1
<1> QED BY <1>1, <1>2 DEF Min

LEMMA OfTwo ==
  ASSUME NEW a \in Int, NEW b \in Int
  PROVE  /\ Max({a, b}) = IF a >= b THEN a ELSE b
         /\ Min({a, b}) = IF a <= b THEN a ELSE b
<1>1. {a, b} \subseteq Int
  OBVIOUS
<1>2. Max({a, b}) = IF a >= b THEN a ELSE b
  <2> DEFINE m == IF a >= b THEN a ELSE b
  <2>1. m \in {a, b} /\ \A x \in {a, b} : x <= m
    OBVIOUS
  <2> HIDE DEF m
  <2>2. Max({a, b}) = m
    BY <1>1, <2>1, MaxIs
  <2> QED BY <2>2 DEF m
<1>3. Min({a, b}) = IF a <= b THEN a ELSE b
  <2> DEFINE m == IF a <= b THEN a ELSE b
  <2>1. m \in {a, b} /\ \A x \in {a, b} : m <= x
    OBVIOUS
  <2> HIDE DEF m
  <2>2. Min({a, b}) = m
    BY <1>1, <2>1, MinIs
  <2> QED BY <2>2 DEF m
<1> QED BY <1>2, <1>3

\* Merging, field by field.
Higher(a, b) == IF a >= b THEN a ELSE b
Lower(a, b) == IF a <= b THEN a ELSE b

LEMMA MergedFields ==
  ASSUME NEW c \in CandleRows, NEW d \in CandleRows
  PROVE  /\ Merged(c, d) = [open |-> c.open, high |-> Higher(c.high, d.high), low |-> Lower(c.low, d.low),
                            close |-> d.close, volume |-> c.volume + d.volume]
         /\ Merged(c, d) \in CandleRows
<1>1. /\ c.volume \in Nat \ {0} /\ c.high \in Nat /\ c.low \in Nat /\ c.open \in Nat
      /\ d.volume \in Nat \ {0} /\ d.high \in Nat /\ d.low \in Nat /\ d.close \in Nat
  BY DEF CandleRows
<1>2. c # NoCandle
  BY <1>1 DEF NoCandle
<1>3. Max({c.high, d.high}) = Higher(c.high, d.high) /\ Min({c.low, d.low}) = Lower(c.low, d.low)
  <2>1. c.high \in Int /\ d.high \in Int /\ c.low \in Int /\ d.low \in Int
    BY <1>1
  <2>2. Max({c.high, d.high}) = IF c.high >= d.high THEN c.high ELSE d.high
    BY <2>1, OfTwo
  <2>3. Min({c.low, d.low}) = IF c.low <= d.low THEN c.low ELSE d.low
    BY <2>1, OfTwo
  <2> QED BY <2>2, <2>3 DEF Higher, Lower
<1>4. Higher(c.high, d.high) \in Nat /\ Lower(c.low, d.low) \in Nat /\ c.volume + d.volume \in Nat \ {0}
  BY <1>1 DEF Higher, Lower
<1>5. Merged(c, d) = [open |-> c.open, high |-> Higher(c.high, d.high), low |-> Lower(c.low, d.low),
                      close |-> d.close, volume |-> c.volume + d.volume]
  BY <1>2, <1>3 DEF Merged
<1> QED BY <1>1, <1>4, <1>5 DEF CandleRows

LEMMA MergedWithNone == \A d : Merged(NoCandle, d) = d
BY DEF Merged

LEMMA MergedTyped ==
  ASSUME NEW c \in Cells, NEW d \in CandleRows
  PROVE  Merged(c, d) \in CandleRows /\ Merged(c, d).volume = c.volume + d.volume
<1>1. CASE c = NoCandle
  <2>1. Merged(c, d) = d /\ c.volume = 0 /\ d.volume \in Nat
    BY <1>1, MergedWithNone DEF NoCandle, CandleRows
  <2> QED BY <2>1
<1>2. CASE c \in CandleRows
  BY <1>2, MergedFields
<1> QED BY <1>1, <1>2 DEF Cells

LEMMA MergedAgain ==
  ASSUME NEW c \in Cells, NEW d \in CandleRows, NEW e \in CandleRows
  PROVE  Merged(Merged(c, d), e) = Merged(c, Merged(d, e))
<1>1. CASE c = NoCandle
  BY <1>1, MergedWithNone
<1>2. CASE c \in CandleRows
  <2>1. PICK cd \in CandleRows : cd = Merged(c, d)
    BY <1>2, MergedFields
  <2>2. PICK de \in CandleRows : de = Merged(d, e)
    BY MergedFields
  <2>3. cd = [open |-> c.open, high |-> Higher(c.high, d.high), low |-> Lower(c.low, d.low),
              close |-> d.close, volume |-> c.volume + d.volume]
    BY <1>2, <2>1, MergedFields
  <2>4. de = [open |-> d.open, high |-> Higher(d.high, e.high), low |-> Lower(d.low, e.low),
              close |-> e.close, volume |-> d.volume + e.volume]
    BY <2>2, MergedFields
  <2>5. Merged(cd, e) = [open |-> cd.open, high |-> Higher(cd.high, e.high), low |-> Lower(cd.low, e.low),
                         close |-> e.close, volume |-> cd.volume + e.volume]
    BY MergedFields
  <2>6. Merged(c, de) = [open |-> c.open, high |-> Higher(c.high, de.high), low |-> Lower(c.low, de.low),
                         close |-> de.close, volume |-> c.volume + de.volume]
    BY <1>2, MergedFields
  <2>7. /\ c.volume \in Nat /\ c.high \in Nat /\ c.low \in Nat
        /\ d.volume \in Nat /\ d.high \in Nat /\ d.low \in Nat
        /\ e.volume \in Nat /\ e.high \in Nat /\ e.low \in Nat
    BY <1>2 DEF CandleRows
  <2>8. /\ cd.open = c.open /\ cd.high = Higher(c.high, d.high) /\ cd.low = Lower(c.low, d.low)
        /\ cd.volume = c.volume + d.volume
    BY <2>3
  <2>9. /\ de.high = Higher(d.high, e.high) /\ de.low = Lower(d.low, e.low)
        /\ de.close = e.close /\ de.volume = d.volume + e.volume
    BY <2>4
  <2>10. Higher(cd.high, e.high) = Higher(c.high, de.high)
    BY <2>7, <2>8, <2>9 DEF Higher
  <2>11. Lower(cd.low, e.low) = Lower(c.low, de.low)
    BY <2>7, <2>8, <2>9 DEF Lower
  <2>12. cd.volume + e.volume = c.volume + de.volume
    BY <2>7, <2>8, <2>9
  <2>13. Merged(cd, e) = Merged(c, de)
    BY <2>5, <2>6, <2>8, <2>9, <2>10, <2>11, <2>12
  <2> QED BY <2>1, <2>2, <2>13
<1> QED BY <1>1, <1>2 DEF Cells

LEMMA OneIsOne == \A t \in Trades : OneTrade(t).volume = t.quantity
BY DEF OneTrade

Volume(s) == SumFunction([i \in DOMAIN s |-> s[i].quantity])
PricesOf(s) == {t.price : t \in Elements(s)}

LEMMA VolumeNone == Volume(<<>>) = 0
<1>1. DOMAIN [i \in DOMAIN <<>> |-> <<>>[i].quantity] = {}
  OBVIOUS
<1> QED BY <1>1, SumEmpty DEF Volume, SumFunction

LEMMA VolumeAppend ==
  ASSUME NEW s \in TradeLists, NEW t \in Trades
  PROVE  Volume(s) \in Int /\ Volume(Append(s, t)) = Volume(s) + t.quantity
<1>1. PICK n \in Nat : n = Len(s) /\ DOMAIN s = 1 .. n /\ \A i \in 1 .. n : s[i] \in Trades
  BY LenProperties, ElementOfSeq DEF TradeLists
<1>2. PICK u : u = Append(s, t)
  OBVIOUS
<1>3. DOMAIN u = 1 .. n + 1 /\ u[n + 1] = t /\ \A i \in 1 .. n : u[i] = s[i]
  BY <1>1, <1>2, AppendProperties, LenProperties DEF TradeLists
<1> DEFINE v == [i \in 1 .. n |-> s[i].quantity]
           w == [i \in 1 .. n + 1 |-> u[i].quantity]
<1>4. Volume(s) = SumFunctionOnSet(v, 1 .. n) /\ Volume(u) = SumFunctionOnSet(w, 1 .. n + 1)
  BY <1>1, <1>3 DEF Volume, SumFunction
<1>5. /\ \A i \in 1 .. n : v[i] \in Int /\ w[i] = v[i]
      /\ w[n + 1] = t.quantity /\ t.quantity \in Int
  <2>1. t.quantity \in Int /\ \A i \in 1 .. n : s[i].quantity \in Int
    BY <1>1, TradeTyped
  <2> QED BY <1>3, <2>1
<1>6. 1 .. n + 1 = (1 .. n) \cup {n + 1} /\ n + 1 \notin 1 .. n /\ IsFiniteSet(1 .. n)
  BY FS_Interval
<1> HIDE DEF v, w
<1>7. SumFunctionOnSet(w, (1 .. n) \cup {n + 1}) = SumFunctionOnSet(w, 1 .. n) + w[n + 1]
  <2>1. PICK S, y : S = 1 .. n /\ y = n + 1
    OBVIOUS
  <2>2. y \notin S /\ IsFiniteSet(S) /\ \A i \in S \cup {y} : w[i] \in Int
    BY <1>5, <1>6, <2>1
  <2>3. SumFunctionOnSet(w, S \cup {y}) = SumFunctionOnSet(w, S) + w[y]
    BY <2>2, SumAdd
  <2> QED BY <2>1, <2>3
<1>8. SumFunctionOnSet(w, 1 .. n) = SumFunctionOnSet(v, 1 .. n) /\ SumFunctionOnSet(v, 1 .. n) \in Int
  BY <1>5, <1>6, SumSame, SumInt
<1> QED BY <1>2, <1>4, <1>5, <1>6, <1>7, <1>8

LEMMA ListParts ==
  ASSUME NEW s \in TradeLists
  PROVE  /\ Len(s) \in Nat /\ DOMAIN s = 1 .. Len(s)
         /\ s # <<>> => 1 \in 1 .. Len(s) /\ Len(s) \in 1 .. Len(s) /\ Head(s) = s[1]
         /\ {s[i].price : i \in DOMAIN s} = PricesOf(s)
         /\ PricesOf(s) \subseteq Nat
<1>1. Len(s) \in Nat /\ DOMAIN s = 1 .. Len(s)
  BY LenProperties DEF TradeLists
<1>2. ASSUME s # <<>> PROVE 1 \in 1 .. Len(s) /\ Len(s) \in 1 .. Len(s) /\ Head(s) = s[1]
  <2>1. Len(s) \in Nat \ {0}
    BY <1>2, EmptySeq DEF TradeLists
  <2> QED BY <2>1
<1>3. {s[i].price : i \in DOMAIN s} = PricesOf(s)
  BY <1>1 DEF PricesOf, Elements
<1>4. PricesOf(s) \subseteq Nat
  BY NoElements, TradeTyped DEF PricesOf, TradeLists
<1> QED BY <1>1, <1>2, <1>3, <1>4

\* What a candle says about its trades, without a maximum to choose.
Shows(c, s) ==
  /\ c \in CandleRows
  /\ c.open = s[1].price /\ c.close = s[Len(s)].price /\ c.volume = Volume(s)
  /\ c.high \in PricesOf(s) /\ c.low \in PricesOf(s)
  /\ \A p \in PricesOf(s) : c.low <= p /\ p <= c.high

LEMMA ShownIsCandle ==
  ASSUME NEW s \in TradeLists, s # <<>>, NEW c, Shows(c, s)
  PROVE  c = CandleFrom(s)
<1>1. PricesOf(s) \subseteq Int
  BY ListParts
<1>2. Max(PricesOf(s)) = c.high
  BY <1>1, MaxIs DEF Shows
<1>3. Min(PricesOf(s)) = c.low
  BY <1>1, MinIs DEF Shows
<1>4. {s[i].price : i \in DOMAIN s} = PricesOf(s) /\ Head(s) = s[1]
  BY ListParts
<1>5. CandleFrom(s) = [open |-> c.open, high |-> c.high, low |-> c.low, close |-> c.close, volume |-> c.volume]
  BY <1>2, <1>3, <1>4 DEF CandleFrom, Shows, Volume
<1>6. c = [open |-> c.open, high |-> c.high, low |-> c.low, close |-> c.close, volume |-> c.volume]
  BY DEF Shows, CandleRows
<1> QED BY <1>5, <1>6

LEMMA OneShows ==
  ASSUME NEW t \in Trades
  PROVE  Shows(OneTrade(t), Append(<<>>, t)) /\ Append(<<>>, t) \in TradeLists /\ Append(<<>>, t) # <<>>
<1>1. PICK u : u = Append(<<>>, t)
  OBVIOUS
<1>2. u \in TradeLists /\ u # <<>> /\ Len(u) = 1 /\ u[1] = t
  BY <1>1, AppendProperties, EmptySeq DEF TradeLists
<1>3. Elements(u) = {t}
  <2>1. PICK none \in Seq(Trades) : none = <<>>
    BY EmptySeq
  <2>2. Elements(Append(none, t)) = Elements(none) \cup {t}
    BY ElementsAppend
  <2> QED BY <1>1, <2>1, <2>2, ElementsNone
<1>4. Volume(u) = t.quantity
  <2>1. <<>> \in TradeLists
    BY EmptySeq DEF TradeLists
  <2>2. Volume(Append(<<>>, t)) = Volume(<<>>) + t.quantity
    BY <2>1, VolumeAppend
  <2>3. t.quantity \in Nat
    BY TradeTyped
  <2> QED BY <1>1, <2>2, <2>3, VolumeNone
<1>5. t.price \in Nat /\ OneTrade(t) \in CandleRows
  BY TradeTyped
<1>6. PricesOf(u) = {t.price}
  BY <1>3 DEF PricesOf
<1>7. Shows(OneTrade(t), u)
  BY <1>2, <1>4, <1>5, <1>6 DEF Shows, OneTrade
<1> QED BY <1>1, <1>2, <1>7

LEMMA MergedShows ==
  ASSUME NEW s \in TradeLists, s # <<>>, NEW t \in Trades, NEW c, Shows(c, s)
  PROVE  Shows(Merged(c, OneTrade(t)), Append(s, t))
<1>1. PICK n \in Nat : n = Len(s) /\ n >= 1
  BY ListParts
<1>2. PICK u : u = Append(s, t)
  OBVIOUS
<1>3. Len(u) = n + 1 /\ u[n + 1] = t /\ u[1] = s[1]
  BY <1>1, <1>2, AppendProperties DEF TradeLists
<1>4. Elements(u) = Elements(s) \cup {t}
  BY <1>2, ElementsAppend DEF TradeLists
<1>5. PricesOf(u) = PricesOf(s) \cup {t.price}
  BY <1>4 DEF PricesOf
<1>6. Volume(u) = Volume(s) + t.quantity
  BY <1>2, VolumeAppend
<1>7. c \in CandleRows /\ OneTrade(t) \in CandleRows
  BY TradeTyped DEF Shows
<1>8. PICK m \in CandleRows : m = Merged(c, OneTrade(t))
  BY <1>7, MergedFields
<1>9. m = [open |-> c.open, high |-> Higher(c.high, t.price), low |-> Lower(c.low, t.price),
           close |-> t.price, volume |-> c.volume + t.quantity]
  BY <1>7, <1>8, MergedFields DEF OneTrade
<1>10. /\ c.open = s[1].price /\ c.volume = Volume(s)
       /\ c.high \in PricesOf(s) /\ c.low \in PricesOf(s)
       /\ \A p \in PricesOf(s) : p \in Nat /\ c.low <= p /\ p <= c.high
  BY ListParts DEF Shows
<1>11. c.high \in Nat /\ c.low \in Nat /\ t.price \in Nat
  BY <1>7, TradeTyped DEF CandleRows
<1>12. m.high \in PricesOf(u) /\ m.low \in PricesOf(u)
  BY <1>5, <1>9, <1>10 DEF Higher, Lower
<1>13. m.low = Lower(c.low, t.price) /\ m.high = Higher(c.high, t.price)
  BY <1>9
<1>14. ASSUME NEW p \in PricesOf(u) PROVE m.low <= p /\ p <= m.high
  <2>1. CASE p = t.price
    BY <1>11, <1>13, <2>1 DEF Higher, Lower
  <2>2. CASE p \in PricesOf(s)
    <3>1. p \in Nat /\ c.low <= p /\ p <= c.high
      BY <1>10, <2>2
    <3> QED BY <1>11, <1>13, <3>1 DEF Higher, Lower
  <2> QED BY <1>5, <2>1, <2>2
<1>15. m.open = u[1].price /\ m.close = u[Len(u)].price /\ m.volume = Volume(u)
  BY <1>3, <1>6, <1>9, <1>10
<1>16. Shows(m, u)
  BY <1>8, <1>12, <1>14, <1>15 DEF Shows
<1> QED BY <1>2, <1>8, <1>16

\* The candle of a list with one more trade is the candle of the list, merged
\* with the trade; it shows the list.
LEMMA CandleShows ==
  ASSUME NEW s \in TradeLists, s # <<>>
  PROVE  Shows(CandleFrom(s), s)
<1> DEFINE Good == {u \in TradeLists : u # <<>> => Shows(CandleFrom(u), u)}
<1>1. <<>> \in Good
  BY EmptySeq DEF TradeLists
<1>2. ASSUME NEW u \in TradeLists, NEW t \in Trades, u \in Good PROVE Append(u, t) \in Good
  <2>1. Append(u, t) \in TradeLists /\ Append(u, t) # <<>>
    BY AppendProperties DEF TradeLists
  <2>2. CASE u = <<>>
    <3>1. Shows(OneTrade(t), Append(u, t))
      BY <2>2, OneShows
    <3>2. OneTrade(t) = CandleFrom(Append(u, t))
      BY <2>1, <3>1, ShownIsCandle
    <3> QED BY <2>1, <3>1, <3>2
  <2>3. CASE u # <<>>
    <3>1. Shows(CandleFrom(u), u)
      BY <1>2, <2>3
    <3>2. PICK m : m = Merged(CandleFrom(u), OneTrade(t))
      OBVIOUS
    <3>3. Shows(m, Append(u, t))
      BY <2>3, <3>1, <3>2, MergedShows
    <3>4. m = CandleFrom(Append(u, t))
      BY <2>1, <3>3, ShownIsCandle
    <3> QED BY <2>1, <3>3, <3>4
  <2> QED BY <2>2, <2>3
<1>3. Seq(Trades) \subseteq Good
  <2> HIDE DEF Good
  <2> QED BY <1>1, <1>2, ListClimb DEF TradeLists
<1> QED BY <1>3 DEF TradeLists

LEMMA CandleTyped ==
  ASSUME NEW s \in TradeLists
  PROVE  /\ CandleFrom(s) \in Cells /\ CandleFrom(s).volume = Volume(s)
         /\ CandleFrom(s) = NoCandle <=> s = <<>>
         /\ s # <<>> => CandleFrom(s) \in CandleRows
<1>1. CASE s = <<>>
  <2>1. CandleFrom(s) = NoCandle
    BY <1>1 DEF CandleFrom
  <2>2. NoCandle.volume = 0
    BY DEF NoCandle
  <2> QED BY <1>1, <2>1, <2>2, VolumeNone DEF Cells
<1>2. CASE s # <<>>
  <2>1. Shows(CandleFrom(s), s)
    BY <1>2, CandleShows
  <2>2. CandleFrom(s) \in CandleRows /\ CandleFrom(s).volume = Volume(s)
    BY <2>1 DEF Shows
  <2>3. CandleFrom(s) # NoCandle
    <3>1. \A c \in CandleRows : c.volume # 0
      BY DEF CandleRows
    <3> QED BY <2>2, <3>1 DEF NoCandle
  <2> QED BY <1>2, <2>2, <2>3 DEF Cells
<1> QED BY <1>1, <1>2

LEMMA CandleAppend ==
  ASSUME NEW s \in TradeLists, NEW t \in Trades
  PROVE  CandleFrom(Append(s, t)) = Merged(CandleFrom(s), OneTrade(t))
<1>1. Append(s, t) \in TradeLists /\ Append(s, t) # <<>>
  BY AppendProperties DEF TradeLists
<1>2. CASE s = <<>>
  <2>1. OneTrade(t) = CandleFrom(Append(s, t))
    BY <1>1, <1>2, OneShows, ShownIsCandle
  <2>2. CandleFrom(s) = NoCandle
    BY <1>2, CandleTyped
  <2> QED BY <2>1, <2>2, MergedWithNone
<1>3. CASE s # <<>>
  <2>1. PICK m : m = Merged(CandleFrom(s), OneTrade(t))
    OBVIOUS
  <2>2. Shows(m, Append(s, t))
    BY <1>3, <2>1, CandleShows, MergedShows
  <2> QED BY <1>1, <2>1, <2>2, ShownIsCandle
<1> QED BY <1>2, <1>3

\* Of two lists in a row it is the candles of both, merged.
LEMMA CandleConcat ==
  ASSUME NEW s \in TradeLists, NEW u \in TradeLists, u # <<>>
  PROVE  CandleFrom(s \o u) = Merged(CandleFrom(s), CandleFrom(u))
<1> DEFINE Good == {v \in TradeLists : v # <<>> => CandleFrom(s \o v) = Merged(CandleFrom(s), CandleFrom(v))}
<1>1. <<>> \in Good
  BY EmptySeq DEF TradeLists
<1>2. ASSUME NEW v \in TradeLists, NEW t \in Trades, v \in Good PROVE Append(v, t) \in Good
  <2>1. Append(v, t) \in TradeLists /\ s \o v \in TradeLists
    BY AppendProperties, ConcatProperties DEF TradeLists
  <2>2. s \o Append(v, t) = Append(s \o v, t)
    BY ConcatAppend DEF TradeLists
  <2>3. CandleFrom(s \o Append(v, t)) = Merged(CandleFrom(s \o v), OneTrade(t))
    BY <2>1, <2>2, CandleAppend
  <2>4. CandleFrom(Append(v, t)) = Merged(CandleFrom(v), OneTrade(t))
    BY CandleAppend
  <2>5. CASE v = <<>>
    <3>1. s \o v = s
      BY <2>5, ConcatEmptySeq DEF TradeLists
    <3>2. CandleFrom(v) = NoCandle
      BY <2>5, CandleTyped
    <3> QED BY <2>1, <2>3, <2>4, <3>1, <3>2, MergedWithNone
  <2>6. CASE v # <<>>
    <3>1. CandleFrom(s \o v) = Merged(CandleFrom(s), CandleFrom(v))
      BY <1>2, <2>6
    <3>2. CandleFrom(s) \in Cells /\ CandleFrom(v) \in CandleRows /\ OneTrade(t) \in CandleRows
      BY <2>6, CandleTyped, TradeTyped
    <3>3. Merged(Merged(CandleFrom(s), CandleFrom(v)), OneTrade(t))
            = Merged(CandleFrom(s), Merged(CandleFrom(v), OneTrade(t)))
      BY <3>2, MergedAgain
    <3> QED BY <2>1, <2>3, <2>4, <3>1, <3>3
  <2> QED BY <2>5, <2>6
<1>3. Seq(Trades) \subseteq Good
  <2> HIDE DEF Good
  <2> QED BY <1>1, <1>2, ListClimb DEF TradeLists
<1> QED BY <1>3 DEF TradeLists

\* The loop of syncTradesToDB makes that candle too.
Merges(list, n, f) ==
  f = [k \in 0 .. n |-> IF k = 0 THEN NoCandle ELSE Merged(f[k - 1], OneTrade(list[k]))]

LEMMA MergingExists ==
  ASSUME NEW list, NEW n \in Nat
  PROVE  \E f : Merges(list, n, f)
<1> DEFINE Good == {m \in Nat : \E f : Merges(list, m, f)}
<1>1. 0 \in Good
  <2>1. Merges(list, 0, [k \in 0 .. 0 |-> NoCandle])
    BY DEF Merges
  <2> QED BY <2>1
<1>2. ASSUME NEW m \in Nat, m \in Good PROVE m + 1 \in Good
  <2>1. PICK f : Merges(list, m, f)
    BY <1>2
  <2> DEFINE g == [k \in 0 .. m + 1 |-> IF k = 0 THEN NoCandle ELSE Merged(f[k - 1], OneTrade(list[k]))]
  <2>2. ASSUME NEW k \in 0 .. m + 1, k # 0 PROVE g[k - 1] = f[k - 1]
    <3>1. k - 1 \in 0 .. m /\ k - 1 \in 0 .. m + 1
      BY <2>2
    <3> QED BY <2>1, <3>1 DEF Merges
  <2>3. Merges(list, m + 1, g)
    BY <2>2 DEF Merges
  <2> QED BY <2>3
<1>3. Nat \subseteq Good
  <2> HIDE DEF Good
  <2> QED BY <1>1, <1>2, Climb
<1> QED BY <1>3

LEMMA GroupCandleIs ==
  ASSUME NEW s \in TradeLists
  PROVE  GroupCandle(s) = CandleFrom(s)
<1> DEFINE It == CHOOSE f : Merges(s, Len(s), f)
<1>1. PICK n \in Nat : n = Len(s)
  BY ListParts
<1>2. PICK f : Merges(s, n, f) /\ GroupCandle(s) = f[n]
  <2>1. Merges(s, Len(s), It)
    BY <1>1, MergingExists
  <2>2. GroupCandle(s) = It[Len(s)]
    BY DEF GroupCandle, Merges
  <2> QED BY <1>1, <2>1, <2>2
<1> DEFINE Good == {m \in Nat : m <= n => f[m] = CandleFrom(SubSeq(s, 1, m))}
<1>3. 0 \in Good
  <2>1. f[0] = NoCandle
    BY <1>2 DEF Merges
  <2>2. SubSeq(s, 1, 0) = <<>>
    BY SubSeqEmpty
  <2> QED BY <2>1, <2>2 DEF CandleFrom
<1>4. ASSUME NEW m \in Nat, m \in Good PROVE m + 1 \in Good
  <2>1. SUFFICES ASSUME m + 1 <= n PROVE f[m + 1] = CandleFrom(SubSeq(s, 1, m + 1))
    OBVIOUS
  <2>2. m + 1 \in 0 .. n /\ m + 1 \in 1 .. n /\ m + 1 # 0 /\ (m + 1) - 1 = m /\ m <= n
    BY <2>1
  <2>3. f[m + 1] = Merged(f[m], OneTrade(s[m + 1]))
    BY <1>2, <2>2 DEF Merges
  <2>4. PICK before \in TradeLists : before = SubSeq(s, 1, m)
    <3>1. \A i \in 1 .. m : s[i] \in Trades
      BY <1>1, <2>1, ElementOfSeq DEF TradeLists
    <3>2. 1 \in Int /\ m \in Int
      OBVIOUS
    <3>3. SubSeq(s, 1, m) \in Seq(Trades)
      BY <3>1, <3>2, SubSeqProperties
    <3> QED BY <3>3 DEF TradeLists
  <2>5. s[m + 1] \in Trades
    BY <1>1, <2>2, ElementOfSeq DEF TradeLists
  <2>6. SubSeq(s, 1, m + 1) = Append(before, s[m + 1])
    <3>1. 1 \in 1 .. Len(s) /\ m + 1 \in 1 .. Len(s)
      BY <1>1, <2>2
    <3>2. SubSeq(s, 1, m + 1) = SubSeq(s, 1, (m + 1) - 1) \o <<s[m + 1]>>
      BY <3>1, SubSeqRecursiveSecond DEF TradeLists
    <3>3. Append(before, s[m + 1]) = before \o <<s[m + 1]>>
      BY <2>5, AppendIsConcat DEF TradeLists
    <3> QED BY <2>2, <2>4, <3>2, <3>3
  <2>7. f[m] = CandleFrom(before)
    BY <1>4, <2>2, <2>4
  <2> QED BY <2>3, <2>5, <2>6, <2>7, CandleAppend
<1>5. n \in Good
  <2>1. Nat \subseteq Good
    <3> HIDE DEF Good
    <3> QED BY <1>3, <1>4, Climb
  <2> QED BY <2>1
<1>6. SubSeq(s, 1, n) = s
  BY <1>1, SubSeqFull DEF TradeLists
<1>7. f[n] = CandleFrom(SubSeq(s, 1, n))
  <2>1. n <= n
    OBVIOUS
  <2> QED BY <1>5, <2>1
<1> QED BY <1>2, <1>6, <1>7

------------------------------------------------------------------------------
(***************************************************************************)
(* The invariant of the list, the cache and the table                      *)
(***************************************************************************)
CandleGroups == UNION {[K -> TradeLists \ {<<>>}] : K \in SUBSET Candles}

Publishing ==
  {MarketIdle}
  \cup [step : {"read"}, trade : Trades, next : DOMAIN Resolutions]
  \cup [step : {"write"}, trade : Trades, next : DOMAIN Resolutions, found : Cells]

Syncing ==
  {MarketIdle}
  \cup [step : {"pop"}, count : Nat]
  \cup [step : {"group"}, groups : CandleGroups]
  \cup {r \in [step : {"store"}, groups : CandleGroups, candle : Candles, found : Cells] :
          r.candle \in DOMAIN r.groups}

\* No trade is of a later minute.
MarketTyped ==
  /\ minute \in 0 .. LastMinute /\ pending \in TradeLists /\ recorded \in TradeLists
  /\ cached \in [Candles -> Cells] /\ candles \in [Candles -> Cells]
  /\ publisher \in [Publishers -> Publishing] /\ syncer \in [Syncers -> Syncing]
  /\ \A t \in Elements(recorded) : t.at <= minute

NoneHolds(k) == \A b \in Syncers : k \notin HeldBy(b)
OnlyHolds(b, k) == k \in HeldBy(b) /\ \A a \in Syncers \ {b} : k \notin HeldBy(a)

\* The row of a candle holds the trades old, a cron the next ones, the list the last ones.
RowOK(k, old) ==
  /\ old \in TradeLists /\ candles[k] = CandleFrom(old)
  /\ \/ NoneHolds(k) /\ TradesIn(k, recorded) = old \o TradesIn(k, pending)
     \/ \E b \in Syncers :
          /\ OnlyHolds(b, k)
          /\ TradesIn(k, recorded) = old \o (syncer[b].groups[k] \o TradesIn(k, pending))
          /\ syncer[b].step = "store" /\ syncer[b].candle = k => syncer[b].found = candles[k]

RowsInv == \A k \in Candles \ broken : \E old : RowOK(k, old)

\* Where there is a row or something to make one of, there were trades.
KnownTrades ==
  \A k \in Candles :
    TradesIn(k, pending) # <<>> \/ candles[k] # NoCandle \/ ~NoneHolds(k) => TradesIn(k, recorded) # <<>>

CandleNow(k) == CandleFrom(TradesIn(k, recorded))

\* A cached candle lacks at most the trade of one recordTrade.
CacheOK(k) ==
  \/ ~Recording(k) /\ cached[k] = CandleNow(k)
  \/ \E w \in Publishers :
       /\ k \in LeftOf(w) /\ \A v \in Publishers \ {w} : k \notin LeftOf(v)
       /\ CandleNow(k) = Merged(cached[k], OneTrade(publisher[w].trade))
       /\ publisher[w].step = "write" /\ Writing(w) = k => publisher[w].found = cached[k]

CacheInv == \A k \in Candles \ mixed : CacheOK(k)

\* What a call has left, of its record alone.
Left(p) ==
  IF p = MarketIdle THEN {}
  ELSE {CandleAt(p.trade.at, Resolutions[i]) : i \in p.next .. Len(Resolutions)}
Following(p) ==
  IF p.next = Len(Resolutions) THEN MarketIdle ELSE [step |-> "read", trade |-> p.trade, next |-> p.next + 1]

\* What the calls in progress will add to a candle is not in it yet.
Owed(k, p) == IF k \in Left(p) THEN p.trade.quantity ELSE 0
ComingOf(k, pub) == SumFunctionOnSet([v \in Publishers |-> Owed(k, pub[v])], Publishers)
Coming(k) == ComingOf(k, publisher)

BoundInv ==
  \A k \in Candles :
    /\ cached[k].volume + Coming(k) <= CandleNow(k).volume
    /\ \A w \in Publishers : publisher[w].step = "write" /\ Writing(w) = k =>
         publisher[w].found.volume + Coming(k) <= CandleNow(k).volume

------------------------------------------------------------------------------
\* Selections by candle.
LEMMA TradesInLaws ==
  ASSUME NEW k
  PROVE  /\ TradesIn(k, <<>>) = <<>>
         /\ \A s \in TradeLists : TradesIn(k, s) \in TradeLists
         /\ \A s \in TradeLists, t \in Trades :
              TradesIn(k, Append(s, t)) = IF k \in CandlesOf(t) THEN Append(TradesIn(k, s), t) ELSE TradesIn(k, s)
         /\ \A s, u \in TradeLists : TradesIn(k, s \o u) = TradesIn(k, s) \o TradesIn(k, u)
         /\ \A s \in TradeLists : Elements(TradesIn(k, s)) = {t \in Elements(s) : k \in CandlesOf(t)}
<1> DEFINE wanted == {t \in Trades : k \in CandlesOf(t)}
<1>1. \A s : TradesIn(k, s) = Among(wanted, s)
  BY DEF TradesIn
<1>2. \A t \in Trades : t \in wanted <=> k \in CandlesOf(t)
  OBVIOUS
<1> HIDE DEF wanted
<1>3. \A s \in TradeLists, t \in Trades :
        Among(wanted, Append(s, t)) = IF t \in wanted THEN Append(Among(wanted, s), t) ELSE Among(wanted, s)
  BY AmongAppend DEF TradeLists
<1>4. \A s \in TradeLists : Among(wanted, s) \in TradeLists
  BY AmongInSeq DEF TradeLists
<1>5. \A s, u \in TradeLists : Among(wanted, s \o u) = Among(wanted, s) \o Among(wanted, u)
  BY AmongConcat DEF TradeLists
<1>6. \A s \in TradeLists : Elements(Among(wanted, s)) = Elements(s) \cap wanted /\ Elements(s) \subseteq Trades
  BY AmongElements, NoElements DEF TradeLists
<1>7. \A s \in TradeLists : Elements(TradesIn(k, s)) = {t \in Elements(s) : k \in CandlesOf(t)}
  BY <1>1, <1>2, <1>6
<1>8. \A s \in TradeLists, t \in Trades :
        TradesIn(k, Append(s, t)) = IF k \in CandlesOf(t) THEN Append(TradesIn(k, s), t) ELSE TradesIn(k, s)
  BY <1>1, <1>2, <1>3
<1>9. TradesIn(k, <<>>) = <<>>
  BY <1>1, AmongNone
<1>10. \A s, u \in TradeLists : TradesIn(k, s \o u) = TradesIn(k, s) \o TradesIn(k, u)
  BY <1>1, <1>5
<1>11. \A s \in TradeLists : TradesIn(k, s) \in TradeLists
  BY <1>1, <1>4
<1> QED BY <1>7, <1>8, <1>9, <1>10, <1>11

LEMMA NoneIsAList == <<>> \in TradeLists
BY EmptySeq DEF TradeLists

LEMMA PublisherKinds ==
  ASSUME NEW p \in Publishing
  PROVE  /\ p.step = "idle" <=> p = MarketIdle
         /\ p.step = "read" => p \in [step : {"read"}, trade : Trades, next : DOMAIN Resolutions]
         /\ p.step = "write" => p \in [step : {"write"}, trade : Trades, next : DOMAIN Resolutions, found : Cells]
         /\ p # MarketIdle => p.trade \in Trades /\ p.next \in DOMAIN Resolutions
BY DEF Publishing, MarketIdle

LEMMA SyncerKinds ==
  ASSUME NEW r \in Syncing
  PROVE  /\ r.step = "idle" <=> r = MarketIdle
         /\ r.step = "pop" => r.count \in Nat
         /\ r.step \in {"group", "store"} => r.groups \in CandleGroups
         /\ r.step = "store" => /\ r.candle \in Candles /\ r.found \in Cells
                                /\ r.candle \in DOMAIN r.groups
BY DEF Syncing, MarketIdle

LEMMA GroupsAre ==
  ASSUME NEW groups \in CandleGroups
  PROVE  /\ DOMAIN groups \subseteq Candles
         /\ \A k \in DOMAIN groups : groups[k] \in TradeLists /\ groups[k] # <<>>
BY DEF CandleGroups

\* The candles of one trade differ in their lengths.
LEMMA CandlesDiffer ==
  ASSUME NEW t \in Trades
  PROVE  /\ DOMAIN Resolutions = 1 .. Len(Resolutions) /\ Len(Resolutions) \in Nat
         /\ CandlesOf(t) \subseteq Candles
         /\ \A i, j \in DOMAIN Resolutions :
              CandleAt(t.at, Resolutions[i]) = CandleAt(t.at, Resolutions[j]) => i = j
<1>1. DOMAIN Resolutions = 1 .. Len(Resolutions) /\ Len(Resolutions) \in Nat
  BY MarketAssumption, LenProperties
<1>2. t.at \in 0 .. LastMinute
  BY TradeTyped
<1>3. CandlesOf(t) \subseteq Candles
  BY <1>2 DEF CandlesOf, Candles
<1>4. ASSUME NEW i \in DOMAIN Resolutions, NEW j \in DOMAIN Resolutions,
             CandleAt(t.at, Resolutions[i]) = CandleAt(t.at, Resolutions[j])
      PROVE  i = j
  <2>1. Resolutions[i] = Resolutions[j]
    BY <1>4 DEF CandleAt
  <2> QED BY <2>1, MarketAssumption DEF IsInjective
<1> QED BY <1>1, <1>3, <1>4

LEMMA LeftOfIs == \A w : LeftOf(w) = Left(publisher[w])
BY DEF LeftOf, Left

LEMMA LeftFirst ==
  ASSUME NEW t \in Trades
  PROVE  /\ [step |-> "read", trade |-> t, next |-> 1] \in Publishing
         /\ Left([step |-> "read", trade |-> t, next |-> 1]) = CandlesOf(t)
<1>1. DOMAIN Resolutions = 1 .. Len(Resolutions) /\ Len(Resolutions) \in Nat
  BY CandlesDiffer
<1>2. 1 \in DOMAIN Resolutions
  BY MarketAssumption, EmptySeq, <1>1
<1> QED BY <1>1, <1>2 DEF Publishing, Left, CandlesOf, MarketIdle

LEMMA LeftNext ==
  ASSUME NEW p \in Publishing, p # MarketIdle, NEW k, k = CandleAt(p.trade.at, Resolutions[p.next])
  PROVE  /\ k \in Left(p) /\ Left(p) \subseteq Candles
         /\ Following(p) \in Publishing /\ Left(Following(p)) = Left(p) \ {k}
         /\ Following(p) # MarketIdle => Following(p).trade = p.trade /\ Following(p).step = "read"
<1>1. p.trade \in Trades /\ p.next \in DOMAIN Resolutions
  BY PublisherKinds
<1>2. PICK t \in Trades, n \in DOMAIN Resolutions : t = p.trade /\ n = p.next
  BY <1>1
<1>3. PICK m \in Nat : m = Len(Resolutions) /\ DOMAIN Resolutions = 1 .. m
  BY CandlesDiffer, <1>2
<1> DEFINE at(i) == CandleAt(t.at, Resolutions[i])
<1>4. Left(p) = {at(i) : i \in n .. m} /\ k = at(n)
  BY <1>2, <1>3 DEF Left
<1>5. \A i, j \in 1 .. m : at(i) = at(j) => i = j
  BY <1>3, CandlesDiffer
<1>6. \A i \in 1 .. m : at(i) \in Candles
  BY <1>3, CandlesDiffer DEF CandlesOf
<1>7. n \in 1 .. m /\ n .. m \subseteq 1 .. m /\ n \in n .. m
  BY <1>2, <1>3
<1>8. CASE n = m
  <2>1. Following(p) = MarketIdle
    BY <1>2, <1>3, <1>8 DEF Following
  <2>2. n .. m = {n}
    BY <1>7, <1>8
  <2>3. Left(Following(p)) = {} /\ Left(p) = {k}
    BY <1>4, <2>1, <2>2 DEF Left
  <2> QED BY <1>4, <1>6, <1>7, <2>1, <2>3 DEF Publishing
<1>9. CASE n # m
  <2>1. Following(p) = [step |-> "read", trade |-> t, next |-> n + 1]
    BY <1>2, <1>3, <1>9 DEF Following
  <2>2. n + 1 \in 1 .. m /\ n .. m = (n + 1 .. m) \cup {n} /\ n \notin n + 1 .. m
    BY <1>7, <1>9
  <2>3. [step |-> "read", trade |-> t, next |-> n + 1] # MarketIdle
    BY DEF MarketIdle
  <2>4. Left(Following(p)) = {at(i) : i \in n + 1 .. m}
    BY <1>3, <2>1, <2>3 DEF Left
  <2>5. {at(i) : i \in n .. m} = {at(i) : i \in n + 1 .. m} \cup {at(n)}
    BY <2>2
  <2>6. at(n) \notin {at(i) : i \in n + 1 .. m}
    BY <1>5, <1>7, <2>2
  <2>7. Following(p) \in Publishing
    BY <1>3, <2>1, <2>2 DEF Publishing
  <2>8. k \in Left(p) /\ Left(p) \subseteq Candles
    BY <1>4, <1>6, <1>7
  <2>9. Left(Following(p)) = Left(p) \ {k}
    BY <1>4, <2>4, <2>5, <2>6
  <2> QED BY <1>2, <2>1, <2>7, <2>8, <2>9
<1> QED BY <1>8, <1>9

LEMMA AppendLast ==
  /\ \A s, u \in TradeLists : s \o u \in TradeLists
  /\ \A s, u \in TradeLists, t \in Trades : s \o Append(u, t) = Append(s \o u, t)
BY ConcatAppend, ConcatProperties DEF TradeLists

MarketInv == MarketTyped /\ RowsInv /\ KnownTrades /\ CacheInv /\ BoundInv

\* What a step leaves alone it cannot break.
LEMMA TableRests ==
  ASSUME UNCHANGED <<pending, recorded, candles, syncer, broken>>, RowsInv, KnownTrades
  PROVE  RowsInv' /\ KnownTrades'
<1>1. /\ \A b : HeldBy(b)' = HeldBy(b)
      /\ \A k : NoneHolds(k)' <=> NoneHolds(k)
      /\ \A k, b : OnlyHolds(b, k)' <=> OnlyHolds(b, k)
  BY DEF HeldBy, NoneHolds, OnlyHolds
<1>2. \A k, old : RowOK(k, old)' <=> RowOK(k, old)
  BY <1>1 DEF RowOK
<1>3. RowsInv'
  BY <1>2 DEF RowsInv
<1>4. KnownTrades'
  BY <1>1 DEF KnownTrades
<1> QED BY <1>3, <1>4

LEMMA CacheRests ==
  ASSUME UNCHANGED <<cached, publisher, recorded, mixed>>, CacheInv, BoundInv
  PROVE  CacheInv' /\ BoundInv'
BY DEF CacheInv, CacheOK, BoundInv, CandleNow, Recording, LeftOf, Writing, Coming

LEMMA OwedIs ==
  ASSUME NEW p \in Publishing, NEW k
  PROVE  Owed(k, p) \in Nat
<1>1. CASE k \in Left(p)
  <2>1. p.trade \in Trades
    BY <1>1, PublisherKinds DEF Left
  <2> QED BY <2>1, TradeTyped DEF Owed
<1>2. CASE k \notin Left(p)
  BY <1>2 DEF Owed
<1> QED BY <1>1, <1>2

LEMMA ComingChanges ==
  ASSUME NEW pub \in [Publishers -> Publishing], NEW new \in [Publishers -> Publishing], NEW w \in Publishers,
         \A v \in Publishers \ {w} : new[v] = pub[v], NEW k
  PROVE  /\ ComingOf(k, pub) \in Int /\ ComingOf(k, new) \in Int
         /\ ComingOf(k, new) = ComingOf(k, pub) + Owed(k, new[w]) - Owed(k, pub[w])
<1> DEFINE f == [v \in Publishers |-> Owed(k, new[v])]
           g == [v \in Publishers |-> Owed(k, pub[v])]
<1>1. IsFiniteSet(Publishers)
  BY MarketAssumption
<1>2. \A v \in Publishers : Owed(k, new[v]) \in Nat /\ Owed(k, pub[v]) \in Nat
  BY OwedIs
<1>3. /\ \A v \in Publishers : f[v] \in Int /\ g[v] \in Int
      /\ \A v \in Publishers \ {w} : f[v] = g[v]
      /\ f[w] = Owed(k, new[w]) /\ g[w] = Owed(k, pub[w])
  BY <1>2
<1>4. ComingOf(k, new) = SumFunctionOnSet(f, Publishers) /\ ComingOf(k, pub) = SumFunctionOnSet(g, Publishers)
  BY DEF ComingOf
<1> HIDE DEF f, g
<1>5. SumFunctionOnSet(f, Publishers) \in Int /\ SumFunctionOnSet(g, Publishers) \in Int
  BY <1>1, <1>3, SumInt
<1>6. SumFunctionOnSet(f, Publishers) = SumFunctionOnSet(g, Publishers) + f[w] - g[w]
  BY <1>1, <1>3, SumChange
<1> QED BY <1>3, <1>4, <1>5, <1>6

LEMMA CellVolume == \A c \in Cells : c.volume \in Nat /\ c.volume \in Int
BY DEF Cells, CandleRows, NoCandle

LEMMA NowIs ==
  ASSUME MarketTyped, NEW k \in Candles
  PROVE  /\ TradesIn(k, recorded) \in TradeLists /\ TradesIn(k, pending) \in TradeLists
         /\ CandleNow(k) \in Cells /\ CandleNow(k).volume \in Int
         /\ cached[k] \in Cells /\ cached[k].volume \in Nat
         /\ candles[k] \in Cells
<1>1. TradesIn(k, recorded) \in TradeLists /\ TradesIn(k, pending) \in TradeLists
  BY TradesInLaws DEF MarketTyped
<1>2. CandleNow(k) \in Cells /\ cached[k] \in Cells /\ candles[k] \in Cells
  BY <1>1, CandleTyped DEF CandleNow, MarketTyped
<1> QED BY <1>1, <1>2, CellVolume

------------------------------------------------------------------------------
(***************************************************************************)
(* A trade is pushed                                                       *)
(***************************************************************************)
\* What PushTrade does, with the record of the trade.
Pushes(w, t) ==
  /\ publisher[w] = MarketIdle
  /\ pending' = Append(pending, t) /\ recorded' = Append(recorded, t)
  /\ publisher' = [publisher EXCEPT ![w] = [step |-> "read", trade |-> t, next |-> 1]]
  /\ mixed' = mixed \cup (CandlesOf(t) \cap UNION {LeftOf(v) : v \in Publishers \ {w}})
  /\ UNCHANGED <<minute, cached, candles, syncer, marketFailures, broken>>

LEMMA PushIs ==
  ASSUME NEW w, NEW price \in Prices, NEW quantity \in Quantities, NEW at \in 0 .. LastMinute,
         PushTrade(w, price, quantity, at)
  PROVE  \E t \in Trades : t.at = at /\ Pushes(w, t)
<1> DEFINE t == [price |-> price, quantity |-> quantity, at |-> at]
<1>1. t \in Trades /\ t.at = at
  BY DEF Trades
<1>2. Pushes(w, t)
  BY DEF PushTrade, Pushes
<1> QED BY <1>1, <1>2

LEMMA PushTyped ==
  ASSUME MarketTyped, NEW w \in Publishers, NEW t \in Trades, t.at <= minute, Pushes(w, t)
  PROVE  MarketTyped'
<1>1. pending' \in TradeLists /\ recorded' \in TradeLists /\ Elements(recorded') = Elements(recorded) \cup {t}
  BY AppendProperties, ElementsAppend DEF Pushes, MarketTyped, TradeLists
<1>2. publisher' \in [Publishers -> Publishing]
  BY LeftFirst DEF Pushes, MarketTyped
<1>3. \A e \in Elements(recorded') : e.at <= minute'
  BY <1>1 DEF Pushes, MarketTyped
<1> QED BY <1>1, <1>2, <1>3 DEF Pushes, MarketTyped

\* A trade of the candle k is appended to what is recorded of it and to what is pending.
LEMMA PushedIn ==
  ASSUME MarketTyped, NEW w \in Publishers, NEW t \in Trades, Pushes(w, t), NEW k \in Candles
  PROVE  /\ k \in CandlesOf(t) => /\ TradesIn(k, recorded') = Append(TradesIn(k, recorded), t)
                                  /\ TradesIn(k, pending') = Append(TradesIn(k, pending), t)
                                  /\ CandleNow(k)' = Merged(CandleNow(k), OneTrade(t))
         /\ k \notin CandlesOf(t) => /\ TradesIn(k, recorded') = TradesIn(k, recorded)
                                     /\ TradesIn(k, pending') = TradesIn(k, pending)
                                     /\ CandleNow(k)' = CandleNow(k)
<1>1. PICK r, p : r = recorded /\ p = pending
  OBVIOUS
<1>2. r \in TradeLists /\ p \in TradeLists
  BY <1>1 DEF MarketTyped
<1>3. recorded' = Append(r, t) /\ pending' = Append(p, t)
  BY <1>1 DEF Pushes
<1>4. /\ TradesIn(k, Append(r, t)) = IF k \in CandlesOf(t) THEN Append(TradesIn(k, r), t) ELSE TradesIn(k, r)
      /\ TradesIn(k, Append(p, t)) = IF k \in CandlesOf(t) THEN Append(TradesIn(k, p), t) ELSE TradesIn(k, p)
      /\ TradesIn(k, r) \in TradeLists
  BY <1>2, TradesInLaws
<1>5. CandleFrom(Append(TradesIn(k, r), t)) = Merged(CandleFrom(TradesIn(k, r)), OneTrade(t))
  BY <1>4, CandleAppend
<1>6. CandleNow(k) = CandleFrom(TradesIn(k, r)) /\ CandleNow(k)' = CandleFrom(TradesIn(k, Append(r, t)))
  BY <1>1, <1>3 DEF CandleNow
<1> QED BY <1>1, <1>3, <1>4, <1>5, <1>6

LEMMA PushRows ==
  ASSUME MarketTyped, RowsInv, KnownTrades, NEW w \in Publishers, NEW t \in Trades, Pushes(w, t)
  PROVE  RowsInv' /\ KnownTrades'
<1>1. /\ candles' = candles /\ broken' = broken /\ syncer' = syncer
      /\ \A b : HeldBy(b)' = HeldBy(b)
      /\ \A k : NoneHolds(k)' <=> NoneHolds(k)
      /\ \A k, b : OnlyHolds(b, k)' <=> OnlyHolds(b, k)
  BY DEF Pushes, HeldBy, NoneHolds, OnlyHolds
<1>2. ASSUME NEW k \in Candles \ broken PROVE \E old : RowOK(k, old)'
  <2>1. PICK old : RowOK(k, old)
    BY <1>2 DEF RowsInv
  <2>2. CASE k \notin CandlesOf(t)
    <3>1. TradesIn(k, recorded') = TradesIn(k, recorded) /\ TradesIn(k, pending') = TradesIn(k, pending)
      BY <1>2, <2>2, PushedIn
    <3>2. RowOK(k, old)'
      BY <1>1, <2>1, <3>1 DEF RowOK
    <3> QED BY <3>2
  <2>3. CASE k \in CandlesOf(t)
    <3>1. PICK r \in TradeLists, p \in TradeLists : r = TradesIn(k, recorded) /\ p = TradesIn(k, pending)
      BY <1>2, NowIs
    <3>2. TradesIn(k, recorded') = Append(r, t) /\ TradesIn(k, pending') = Append(p, t)
      BY <1>2, <2>3, <3>1, PushedIn
    <3>3. old \in TradeLists /\ candles[k] = CandleFrom(old)
      BY <2>1 DEF RowOK
    <3>4. CASE NoneHolds(k) /\ r = old \o p
      <4>1. Append(r, t) = old \o Append(p, t)
        BY <3>3, <3>4, AppendLast
      <4>2. RowOK(k, old)'
        BY <1>1, <3>2, <3>3, <3>4, <4>1 DEF RowOK
      <4> QED BY <4>2
    <3>5. CASE \E b \in Syncers :
                 /\ OnlyHolds(b, k)
                 /\ r = old \o (syncer[b].groups[k] \o p)
                 /\ syncer[b].step = "store" /\ syncer[b].candle = k => syncer[b].found = candles[k]
      <4>1. PICK b \in Syncers :
              /\ OnlyHolds(b, k)
              /\ r = old \o (syncer[b].groups[k] \o p)
              /\ syncer[b].step = "store" /\ syncer[b].candle = k => syncer[b].found = candles[k]
        BY <3>5
      <4>2. PICK g \in TradeLists : g = syncer[b].groups[k]
        <5>1. syncer[b] \in Syncing /\ syncer[b].step \in {"group", "store"} /\ k \in DOMAIN syncer[b].groups
          BY <4>1 DEF MarketTyped, OnlyHolds, HeldBy
        <5> QED BY <5>1, SyncerKinds, GroupsAre
      <4>3. PICK gp \in TradeLists : gp = g \o p /\ g \o Append(p, t) = Append(gp, t)
        BY AppendLast
      <4>4. Append(r, t) = old \o (g \o Append(p, t))
        <5>1. r = old \o gp
          BY <4>1, <4>2, <4>3
        <5>2. old \o Append(gp, t) = Append(old \o gp, t)
          BY <3>3, AppendLast
        <5> QED BY <4>3, <5>1, <5>2
      <4>5. RowOK(k, old)'
        BY <1>1, <3>2, <3>3, <4>1, <4>2, <4>4 DEF RowOK
      <4> QED BY <4>5
    <3> QED BY <2>1, <3>1, <3>4, <3>5 DEF RowOK
  <2> QED BY <2>2, <2>3
<1>3. ASSUME NEW k \in Candles, TradesIn(k, pending') # <<>> \/ candles[k] # NoCandle \/ ~NoneHolds(k)
      PROVE  TradesIn(k, recorded') # <<>>
  <2>1. CASE k \in CandlesOf(t)
    <3>1. TradesIn(k, recorded') = Append(TradesIn(k, recorded), t) /\ TradesIn(k, recorded) \in TradeLists
      BY <2>1, PushedIn, NowIs
    <3> QED BY <3>1, AppendProperties DEF TradeLists
  <2>2. CASE k \notin CandlesOf(t)
    BY <1>3, <2>2, PushedIn DEF KnownTrades
  <2> QED BY <2>1, <2>2
<1> QED BY <1>1, <1>2, <1>3 DEF RowsInv, KnownTrades

\* Of what a call has left, before and after a step of it.
LEMMA LeftOfOthers ==
  ASSUME NEW w, \A v \in Publishers \ {w} : publisher'[v] = publisher[v]
  PROVE  /\ \A v \in Publishers \ {w} : LeftOf(v)' = LeftOf(v)
         /\ \A v : LeftOf(v) = Left(publisher[v]) /\ LeftOf(v)' = Left(publisher'[v])
<1>1. \A v : LeftOf(v) = Left(publisher[v]) /\ LeftOf(v)' = Left(publisher'[v])
  BY DEF LeftOf, Left
<1> QED BY <1>1

LEMMA LeftOfNone == Left(MarketIdle) = {}
BY DEF Left

LEMMA PushCache ==
  ASSUME MarketTyped, CacheInv, NEW w \in Publishers, NEW t \in Trades, Pushes(w, t)
  PROVE  CacheInv'
<1>1. /\ publisher[w] = MarketIdle /\ publisher'[w] = [step |-> "read", trade |-> t, next |-> 1]
      /\ \A v \in Publishers \ {w} : publisher'[v] = publisher[v]
      /\ cached' = cached
      /\ mixed' = mixed \cup (CandlesOf(t) \cap UNION {LeftOf(v) : v \in Publishers \ {w}})
  BY DEF Pushes, MarketTyped
<1>2. LeftOf(w) = {} /\ LeftOf(w)' = CandlesOf(t) /\ \A v \in Publishers \ {w} : LeftOf(v)' = LeftOf(v)
  <2>1. /\ \A v \in Publishers \ {w} : LeftOf(v)' = LeftOf(v)
        /\ LeftOf(w) = Left(MarketIdle) /\ LeftOf(w)' = Left([step |-> "read", trade |-> t, next |-> 1])
    BY <1>1, LeftOfOthers
  <2>2. Left(MarketIdle) = {} /\ Left([step |-> "read", trade |-> t, next |-> 1]) = CandlesOf(t)
    BY LeftFirst, LeftOfNone
  <2> QED BY <2>1, <2>2
<1>3. ASSUME NEW k \in Candles, k \notin mixed' PROVE CacheOK(k)'
  <2>1. CacheOK(k)
    BY <1>1, <1>3 DEF CacheInv
  <2>2. CASE k \in CandlesOf(t)
    <3>1. \A v \in Publishers \ {w} : k \notin LeftOf(v)
      BY <1>1, <1>3, <2>2
    <3>2. ~Recording(k)
      BY <1>2, <3>1 DEF Recording
    <3>3. cached[k] = CandleNow(k)
      BY <2>1, <3>2 DEF CacheOK, Recording
    <3>4. CandleNow(k)' = Merged(cached[k], OneTrade(t))
      BY <2>2, <3>3, PushedIn
    <3>5. k \in LeftOf(w)' /\ \A v \in Publishers \ {w} : k \notin LeftOf(v)'
      BY <1>2, <2>2, <3>1
    <3> QED BY <1>1, <3>4, <3>5 DEF CacheOK
  <2>3. CASE k \notin CandlesOf(t)
    <3>1. CandleNow(k)' = CandleNow(k)
      BY <2>3, PushedIn
    <3>2. \A v \in Publishers : k \in LeftOf(v)' <=> k \in LeftOf(v)
      BY <1>2, <2>3
    <3>3. CASE ~Recording(k) /\ cached[k] = CandleNow(k)
      <4>1. ~Recording(k)'
        BY <3>2, <3>3 DEF Recording
      <4> QED BY <1>1, <3>1, <3>3, <4>1 DEF CacheOK
    <3>4. CASE \E v \in Publishers :
                 /\ k \in LeftOf(v) /\ \A u \in Publishers \ {v} : k \notin LeftOf(u)
                 /\ CandleNow(k) = Merged(cached[k], OneTrade(publisher[v].trade))
                 /\ publisher[v].step = "write" /\ Writing(v) = k => publisher[v].found = cached[k]
      <4>1. PICK v \in Publishers :
              /\ k \in LeftOf(v) /\ \A u \in Publishers \ {v} : k \notin LeftOf(u)
              /\ CandleNow(k) = Merged(cached[k], OneTrade(publisher[v].trade))
              /\ publisher[v].step = "write" /\ Writing(v) = k => publisher[v].found = cached[k]
        BY <3>4
      <4>2. v # w /\ publisher'[v] = publisher[v]
        BY <1>1, <1>2, <4>1
      <4>3. Writing(v)' = Writing(v)
        BY <4>2 DEF Writing
      <4> QED BY <1>1, <3>1, <3>2, <4>1, <4>2, <4>3 DEF CacheOK
    <3> QED BY <2>1, <3>3, <3>4 DEF CacheOK
  <2> QED BY <2>2, <2>3
<1> QED BY <1>3 DEF CacheInv

LEMMA PushBound ==
  ASSUME MarketTyped, MarketTyped', BoundInv, NEW w \in Publishers, NEW t \in Trades, Pushes(w, t)
  PROVE  BoundInv'
<1>1. /\ publisher[w] = MarketIdle /\ publisher'[w] = [step |-> "read", trade |-> t, next |-> 1]
      /\ \A v \in Publishers \ {w} : publisher'[v] = publisher[v]
      /\ cached' = cached
  BY DEF Pushes, MarketTyped
<1>2. PICK pub \in [Publishers -> Publishing], new \in [Publishers -> Publishing] : pub = publisher /\ new = publisher'
  BY DEF MarketTyped
<1>3. t.quantity \in Nat /\ OneTrade(t) \in CandleRows /\ OneTrade(t).volume = t.quantity
  BY TradeTyped, OneIsOne
<1>4. ASSUME NEW k \in Candles
      PROVE  /\ Coming(k)' - Coming(k) = CandleNow(k)'.volume - CandleNow(k).volume
             /\ Coming(k) \in Int /\ Coming(k)' \in Int
             /\ CandleNow(k).volume \in Int /\ CandleNow(k)'.volume \in Int
  <2>1. /\ Coming(k) = ComingOf(k, pub) /\ Coming(k)' = ComingOf(k, new)
    BY <1>2 DEF Coming
  <2>2. /\ ComingOf(k, pub) \in Int /\ ComingOf(k, new) \in Int
        /\ ComingOf(k, new) = ComingOf(k, pub) + Owed(k, new[w]) - Owed(k, pub[w])
    BY <1>1, <1>2, ComingChanges
  <2>3. Owed(k, pub[w]) = 0 /\ Owed(k, new[w]) = IF k \in CandlesOf(t) THEN t.quantity ELSE 0
    BY <1>1, <1>2, LeftFirst DEF Owed, Left
  <2>4. CandleNow(k).volume \in Int /\ CandleNow(k) \in Cells
    BY NowIs
  <2>5. CASE k \in CandlesOf(t)
    <3>1. CandleNow(k)'.volume = CandleNow(k).volume + t.quantity
      BY <1>3, <2>4, <2>5, PushedIn, MergedTyped
    <3> QED BY <1>3, <2>1, <2>2, <2>3, <2>4, <2>5, <3>1
  <2>6. CASE k \notin CandlesOf(t)
    <3>1. CandleNow(k)' = CandleNow(k)
      BY <2>6, PushedIn
    <3> QED BY <2>1, <2>2, <2>3, <2>4, <2>6, <3>1
  <2> QED BY <2>5, <2>6
<1>5. ASSUME NEW k \in Candles PROVE cached'[k].volume + Coming(k)' <= CandleNow(k)'.volume
  <2>1. cached[k].volume + Coming(k) <= CandleNow(k).volume /\ cached[k].volume \in Int
    BY NowIs DEF BoundInv
  <2>2. cached'[k] = cached[k]
    BY <1>1
  <2> QED BY <1>4, <2>1, <2>2
<1>6. ASSUME NEW k \in Candles, NEW v \in Publishers, publisher'[v].step = "write", Writing(v)' = k
      PROVE  publisher'[v].found.volume + Coming(k)' <= CandleNow(k)'.volume
  <2>1. v # w
    BY <1>1, <1>6
  <2>2. publisher'[v] = publisher[v] /\ Writing(v)' = Writing(v)
    BY <1>1, <2>1 DEF Writing
  <2>3. publisher[v].found.volume + Coming(k) <= CandleNow(k).volume
    BY <1>6, <2>2 DEF BoundInv
  <2>4. publisher[v].found.volume \in Int
    <3>1. publisher[v] \in Publishing /\ publisher[v].step = "write"
      BY <1>6, <2>2 DEF MarketTyped
    <3>2. publisher[v].found \in Cells
      BY <3>1, PublisherKinds
    <3> QED BY <3>2, CellVolume
  <2> QED BY <1>4, <2>2, <2>3, <2>4
<1> QED BY <1>5, <1>6 DEF BoundInv

------------------------------------------------------------------------------
(***************************************************************************)
(* A recordTrade goes on                                                   *)
(***************************************************************************)
\* What one call does to its record and to one cached candle.
LEMMA ReadCachedTyped ==
  ASSUME MarketTyped, NEW w \in Publishers, ReadCached(w)
  PROVE  /\ MarketTyped' /\ publisher[w].step = "read" /\ publisher'[w].step = "write"
         /\ publisher'[w].trade = publisher[w].trade /\ publisher'[w].next = publisher[w].next
         /\ publisher'[w].found = cached[Writing(w)] /\ Writing(w)' = Writing(w)
         /\ Left(publisher'[w]) = Left(publisher[w])
         /\ \A v \in Publishers \ {w} : publisher'[v] = publisher[v]
         /\ UNCHANGED <<minute, pending, candles, syncer, recorded, broken, cached, mixed>>
<1>1. PICK p \in Publishing : p = publisher[w] /\ p.step = "read"
  BY DEF MarketTyped, ReadCached
<1>2. PICK t \in Trades, n \in DOMAIN Resolutions : t = p.trade /\ n = p.next /\ p # MarketIdle
  BY <1>1, PublisherKinds DEF MarketIdle
<1>3. PICK k \in Candles : k = CandleAt(t.at, Resolutions[n]) /\ Writing(w) = k
  <2>1. CandleAt(t.at, Resolutions[n]) \in Candles
    BY CandlesDiffer DEF CandlesOf
  <2> QED BY <1>1, <1>2, <2>1 DEF Writing
<1>4. PICK c \in Cells : c = cached[k]
  BY DEF MarketTyped
<1>5. PICK q : q = [step |-> "write", trade |-> t, next |-> n, found |-> c]
  OBVIOUS
<1>6. publisher' = [publisher EXCEPT ![w] = q]
  BY <1>1, <1>2, <1>3, <1>4, <1>5 DEF ReadCached
<1>7. q \in Publishing
  BY <1>5 DEF Publishing
<1>8. UNCHANGED <<minute, pending, candles, syncer, recorded, broken, cached, mixed>>
  BY DEF ReadCached, cacheUnchanged
<1>9. publisher'[w] = q /\ (\A v \in Publishers \ {w} : publisher'[v] = publisher[v])
      /\ publisher' \in [Publishers -> Publishing]
  BY <1>6, <1>7 DEF MarketTyped
<1>10. q # MarketIdle /\ q.trade = t /\ q.next = n /\ q.found = c /\ q.step = "write"
  BY <1>5 DEF MarketIdle
<1>11. Left(q) = Left(p)
  BY <1>2, <1>10 DEF Left
<1>12. MarketTyped'
  BY <1>8, <1>9 DEF MarketTyped
<1>13. Writing(w)' = k
  BY <1>2, <1>3, <1>9, <1>10 DEF Writing
<1> QED BY <1>1, <1>2, <1>3, <1>4, <1>8, <1>9, <1>10, <1>11, <1>12, <1>13

LEMMA WriteCachedTyped ==
  ASSUME MarketTyped, NEW w \in Publishers, WriteCached(w)
  PROVE  /\ MarketTyped' /\ publisher[w].step = "write" /\ publisher[w] # MarketIdle
         /\ publisher[w].trade \in Trades /\ publisher[w].found \in Cells
         /\ Writing(w) \in Candles /\ Writing(w) = CandleAt(publisher[w].trade.at, Resolutions[publisher[w].next])
         /\ cached' = [cached EXCEPT ![Writing(w)] = Merged(publisher[w].found, OneTrade(publisher[w].trade))]
         /\ publisher'[w] = Following(publisher[w])
         /\ \A v \in Publishers \ {w} : publisher'[v] = publisher[v]
         /\ UNCHANGED <<minute, pending, candles, syncer, recorded, broken, mixed>>
<1>1. PICK p \in Publishing : p = publisher[w] /\ p.step = "write"
  BY DEF MarketTyped, WriteCached
<1>2. p.trade \in Trades /\ p.next \in DOMAIN Resolutions /\ p.found \in Cells /\ p # MarketIdle
  <2>1. p \in [step : {"write"}, trade : Trades, next : DOMAIN Resolutions, found : Cells]
    BY <1>1, PublisherKinds
  <2>2. p # MarketIdle
    BY <1>1 DEF MarketIdle
  <2> QED BY <2>1, <2>2
<1>3. PICK k : k = CandleAt(p.trade.at, Resolutions[p.next]) /\ k = Writing(w)
  BY <1>1 DEF Writing
<1>4. k \in Left(p) /\ Left(p) \subseteq Candles /\ Following(p) \in Publishing
  BY <1>2, <1>3, LeftNext
<1>5. Merged(p.found, OneTrade(p.trade)) \in Cells
  BY <1>2, TradeTyped, MergedTyped DEF Cells
<1>6. /\ cached' = [cached EXCEPT ![k] = Merged(p.found, OneTrade(p.trade))]
      /\ publisher' = [publisher EXCEPT ![w] = Following(p)]
      /\ UNCHANGED <<minute, pending, candles, syncer, recorded, broken, mixed>>
  BY <1>1, <1>3 DEF WriteCached, Following, cacheUnchanged
<1>7. /\ publisher'[w] = Following(p) /\ publisher' \in [Publishers -> Publishing]
      /\ \A v \in Publishers \ {w} : publisher'[v] = publisher[v]
      /\ cached' \in [Candles -> Cells]
  BY <1>4, <1>5, <1>6 DEF MarketTyped
<1>8. MarketTyped'
  BY <1>6, <1>7 DEF MarketTyped
<1> QED BY <1>1, <1>2, <1>3, <1>4, <1>6, <1>7, <1>8

LEMMA RecordThrowsTyped ==
  ASSUME MarketTyped, NEW w \in Publishers, RecordThrows(w)
  PROVE  /\ MarketTyped' /\ publisher'[w] = MarketIdle /\ mixed' = mixed \cup LeftOf(w)
         /\ \A v \in Publishers \ {w} : publisher'[v] = publisher[v]
         /\ UNCHANGED <<minute, pending, candles, syncer, recorded, broken, cached>>
<1>1. MarketIdle \in Publishing
  BY DEF Publishing
<1>2. /\ publisher' = [publisher EXCEPT ![w] = MarketIdle] /\ mixed' = mixed \cup LeftOf(w)
      /\ UNCHANGED <<minute, pending, candles, syncer, recorded, broken, cached>>
  BY DEF RecordThrows, cacheUnchanged
<1> QED BY <1>1, <1>2 DEF MarketTyped

\* A candle keeps its invariant if its cell stays and what is left of it stays.
LEMMA CellKeeps ==
  ASSUME NEW k, CacheOK(k), cached'[k] = cached[k], recorded' = recorded, NEW w \in Publishers,
         \A v \in Publishers \ {w} : publisher'[v] = publisher[v],
         k \in LeftOf(w)' <=> k \in LeftOf(w),
         k \in LeftOf(w) => /\ publisher'[w].trade = publisher[w].trade
                            /\ publisher'[w].step = "write" /\ Writing(w)' = k => publisher'[w].found = cached[k]
  PROVE  CacheOK(k)'
<1>1. CandleNow(k)' = CandleNow(k)
  BY DEF CandleNow
<1>2. \A v \in Publishers : k \in LeftOf(v)' <=> k \in LeftOf(v)
  BY LeftOfOthers
<1>3. CASE ~Recording(k) /\ cached[k] = CandleNow(k)
  <2>1. ~Recording(k)'
    BY <1>2, <1>3 DEF Recording
  <2> QED BY <1>1, <1>3, <2>1 DEF CacheOK
<1>4. CASE \E v \in Publishers :
             /\ k \in LeftOf(v) /\ \A u \in Publishers \ {v} : k \notin LeftOf(u)
             /\ CandleNow(k) = Merged(cached[k], OneTrade(publisher[v].trade))
             /\ publisher[v].step = "write" /\ Writing(v) = k => publisher[v].found = cached[k]
  <2>1. PICK v \in Publishers :
          /\ k \in LeftOf(v) /\ \A u \in Publishers \ {v} : k \notin LeftOf(u)
          /\ CandleNow(k) = Merged(cached[k], OneTrade(publisher[v].trade))
          /\ publisher[v].step = "write" /\ Writing(v) = k => publisher[v].found = cached[k]
    BY <1>4
  <2>2. /\ publisher'[v].trade = publisher[v].trade
        /\ publisher'[v].step = "write" /\ Writing(v)' = k => publisher'[v].found = cached[k]
    <3>1. CASE v = w
      BY <2>1, <3>1
    <3>2. CASE v # w
      <4>1. publisher'[v] = publisher[v] /\ Writing(v)' = Writing(v)
        BY <3>2 DEF Writing
      <4> QED BY <2>1, <4>1
    <3> QED BY <3>1, <3>2
  <2> QED BY <1>1, <1>2, <2>1, <2>2 DEF CacheOK
<1> QED BY <1>3, <1>4 DEF CacheOK

LEMMA ReadCachedHolds ==
  ASSUME MarketTyped, CacheInv, NEW w \in Publishers, ReadCached(w)
  PROVE  CacheInv'
<1>1. ASSUME NEW k \in Candles \ mixed PROVE CacheOK(k)'
  <2>1. LeftOf(w)' = LeftOf(w)
    BY ReadCachedTyped, LeftOfOthers
  <2>2. CacheOK(k) /\ cached'[k] = cached[k] /\ recorded' = recorded
        /\ \A v \in Publishers \ {w} : publisher'[v] = publisher[v]
    BY ReadCachedTyped DEF CacheInv
  <2>3. /\ publisher'[w].trade = publisher[w].trade
        /\ Writing(w)' = k => publisher'[w].found = cached[k]
    BY ReadCachedTyped
  <2> QED BY <2>1, <2>2, <2>3, CellKeeps
<1> QED BY <1>1, ReadCachedTyped DEF CacheInv

LEMMA WriteCachedHolds ==
  ASSUME MarketTyped, CacheInv, NEW w \in Publishers, WriteCached(w)
  PROVE  CacheInv'
<1>1. PICK p \in Publishing, j \in Candles : p = publisher[w] /\ j = Writing(w)
  BY WriteCachedTyped DEF MarketTyped
<1>2. /\ p # MarketIdle /\ p.step = "write" /\ j = CandleAt(p.trade.at, Resolutions[p.next]) /\ j \in Candles
      /\ publisher'[w] = Following(p) /\ \A v \in Publishers \ {w} : publisher'[v] = publisher[v]
      /\ cached' = [cached EXCEPT ![j] = Merged(p.found, OneTrade(p.trade))]
      /\ recorded' = recorded /\ mixed' = mixed
  BY <1>1, WriteCachedTyped
<1>3. /\ j \in Left(p) /\ Left(Following(p)) = Left(p) \ {j}
      /\ Following(p) # MarketIdle => Following(p).trade = p.trade /\ Following(p).step = "read"
  BY <1>2, LeftNext
<1>4. /\ LeftOf(w) = Left(p) /\ LeftOf(w)' = Left(p) \ {j}
      /\ \A v \in Publishers \ {w} : LeftOf(v)' = LeftOf(v)
  BY <1>1, <1>2, <1>3, LeftOfOthers
<1>5. ASSUME NEW k \in Candles \ mixed PROVE CacheOK(k)'
  <2>1. CacheOK(k)
    BY DEF CacheInv
  <2>2. CASE k = j
    <3>1. PICK v \in Publishers :
            /\ k \in LeftOf(v) /\ \A u \in Publishers \ {v} : k \notin LeftOf(u)
            /\ CandleNow(k) = Merged(cached[k], OneTrade(publisher[v].trade))
            /\ publisher[v].step = "write" /\ Writing(v) = k => publisher[v].found = cached[k]
      BY <1>3, <1>4, <2>1, <2>2 DEF CacheOK, Recording
    <3>2. v = w
      BY <1>3, <1>4, <2>2, <3>1
    <3>3. p.found = cached[k] /\ CandleNow(k) = Merged(cached[k], OneTrade(p.trade))
      BY <1>1, <1>2, <2>2, <3>1, <3>2
    <3>4. cached'[k] = CandleNow(k)
      BY <1>2, <2>2, <3>3 DEF MarketTyped
    <3>5. \A u \in Publishers : k \notin LeftOf(u)'
      BY <1>4, <2>2, <3>1, <3>2
    <3>6. ~Recording(k)' /\ CandleNow(k)' = CandleNow(k)
      BY <1>2, <3>5 DEF Recording, CandleNow
    <3> QED BY <3>4, <3>6 DEF CacheOK
  <2>3. CASE k # j
    <3>1. cached'[k] = cached[k]
      BY <1>2, <2>3 DEF MarketTyped
    <3>2. k \in LeftOf(w)' <=> k \in LeftOf(w)
      BY <1>4, <2>3
    <3>3. ASSUME k \in LeftOf(w)
          PROVE  publisher'[w].trade = publisher[w].trade /\ publisher'[w].step # "write"
      <4>1. k \in Left(Following(p))
        BY <1>3, <1>4, <2>3, <3>3
      <4>2. Following(p) # MarketIdle
        BY <4>1, LeftOfNone
      <4> QED BY <1>1, <1>2, <1>3, <4>2
    <3> QED BY <1>2, <2>1, <3>1, <3>2, <3>3, CellKeeps
  <2> QED BY <2>2, <2>3
<1> QED BY <1>2, <1>5 DEF CacheInv

LEMMA RecordThrowsHolds ==
  ASSUME MarketTyped, CacheInv, NEW w \in Publishers, RecordThrows(w)
  PROVE  CacheInv'
<1>1. /\ publisher'[w] = MarketIdle /\ mixed' = mixed \cup LeftOf(w) /\ cached' = cached /\ recorded' = recorded
      /\ \A v \in Publishers \ {w} : publisher'[v] = publisher[v]
  BY RecordThrowsTyped
<1>2. LeftOf(w)' = {}
  BY <1>1, LeftOfOthers, LeftOfNone
<1>3. ASSUME NEW k \in Candles \ mixed' PROVE CacheOK(k)'
  <2>1. k \notin mixed /\ k \notin LeftOf(w)
    BY <1>1, <1>3
  <2>2. CacheOK(k)
    BY <2>1 DEF CacheInv
  <2> QED BY <1>1, <1>2, <2>1, <2>2, CellKeeps
<1> QED BY <1>3 DEF CacheInv

LEMMA ComingStep ==
  ASSUME MarketTyped, MarketTyped', NEW w \in Publishers,
         \A v \in Publishers \ {w} : publisher'[v] = publisher[v], NEW k
  PROVE  /\ Coming(k) \in Int /\ Coming(k)' \in Int
         /\ Coming(k)' = Coming(k) + Owed(k, publisher'[w]) - Owed(k, publisher[w])
<1>1. PICK pub \in [Publishers -> Publishing], new \in [Publishers -> Publishing] : pub = publisher /\ new = publisher'
  BY DEF MarketTyped
<1>2. Coming(k) = ComingOf(k, pub) /\ Coming(k)' = ComingOf(k, new)
  BY <1>1 DEF Coming
<1>3. /\ ComingOf(k, pub) \in Int /\ ComingOf(k, new) \in Int
      /\ ComingOf(k, new) = ComingOf(k, pub) + Owed(k, new[w]) - Owed(k, pub[w])
  BY <1>1, ComingChanges
<1> QED BY <1>1, <1>2, <1>3

LEMMA OthersBound ==
  ASSUME MarketTyped, MarketTyped', BoundInv, recorded' = recorded, NEW k \in Candles,
         Coming(k)' <= Coming(k), Coming(k) \in Int, Coming(k)' \in Int,
         NEW v \in Publishers, publisher'[v] = publisher[v], publisher'[v].step = "write", Writing(v)' = k
  PROVE  publisher'[v].found.volume + Coming(k)' <= CandleNow(k)'.volume
<1>1. publisher[v].step = "write" /\ Writing(v) = k
  BY DEF Writing
<1>2. publisher[v].found.volume + Coming(k) <= CandleNow(k).volume
  BY <1>1 DEF BoundInv
<1>3. publisher[v].found.volume \in Int
  BY <1>1, PublisherKinds, CellVolume DEF MarketTyped
<1>4. CandleNow(k)' = CandleNow(k) /\ CandleNow(k).volume \in Int
  BY NowIs DEF CandleNow
<1> QED BY <1>2, <1>3, <1>4

LEMMA CellBound ==
  ASSUME MarketTyped, BoundInv, recorded' = recorded, NEW k \in Candles, cached'[k] = cached[k],
         Coming(k)' <= Coming(k), Coming(k) \in Int, Coming(k)' \in Int
  PROVE  cached'[k].volume + Coming(k)' <= CandleNow(k)'.volume
<1>1. cached[k].volume + Coming(k) <= CandleNow(k).volume
  BY DEF BoundInv
<1>2. CandleNow(k)' = CandleNow(k) /\ CandleNow(k).volume \in Int /\ cached[k].volume \in Int
  BY NowIs DEF CandleNow
<1> QED BY <1>1, <1>2

LEMMA ReadCachedBound ==
  ASSUME MarketTyped, BoundInv, NEW w \in Publishers, ReadCached(w)
  PROVE  BoundInv'
<1>1. /\ MarketTyped' /\ publisher'[w].found = cached[Writing(w)] /\ Writing(w)' = Writing(w)
      /\ Left(publisher'[w]) = Left(publisher[w]) /\ publisher'[w].trade = publisher[w].trade
      /\ (\A v \in Publishers \ {w} : publisher'[v] = publisher[v])
      /\ recorded' = recorded /\ cached' = cached
  BY ReadCachedTyped
<1>2. ASSUME NEW k \in Candles PROVE Coming(k)' <= Coming(k) /\ Coming(k) \in Int /\ Coming(k)' \in Int
  <2>1. /\ Coming(k) \in Int /\ Coming(k)' \in Int
        /\ Coming(k)' = Coming(k) + Owed(k, publisher'[w]) - Owed(k, publisher[w])
    BY <1>1, ComingStep
  <2>2. Owed(k, publisher'[w]) = Owed(k, publisher[w]) /\ Owed(k, publisher[w]) \in Nat
    BY <1>1, OwedIs DEF Owed, MarketTyped
  <2> QED BY <2>1, <2>2
<1>3. ASSUME NEW k \in Candles PROVE cached'[k].volume + Coming(k)' <= CandleNow(k)'.volume
  BY <1>1, <1>2, CellBound
<1>4. ASSUME NEW k \in Candles, NEW v \in Publishers, publisher'[v].step = "write", Writing(v)' = k
      PROVE  publisher'[v].found.volume + Coming(k)' <= CandleNow(k)'.volume
  <2>1. CASE v = w
    BY <1>1, <1>3, <1>4, <2>1
  <2>2. CASE v # w
    BY <1>1, <1>2, <1>4, <2>2, OthersBound
  <2> QED BY <2>1, <2>2
<1> QED BY <1>3, <1>4 DEF BoundInv

LEMMA WriteCachedBound ==
  ASSUME MarketTyped, BoundInv, NEW w \in Publishers, WriteCached(w)
  PROVE  BoundInv'
<1>1. PICK p \in Publishing, j \in Candles : p = publisher[w] /\ j = Writing(w)
  BY WriteCachedTyped DEF MarketTyped
<1>2. /\ p # MarketIdle /\ p.step = "write" /\ j = CandleAt(p.trade.at, Resolutions[p.next])
      /\ p.trade \in Trades /\ p.found \in Cells
      /\ publisher'[w] = Following(p) /\ (\A v \in Publishers \ {w} : publisher'[v] = publisher[v])
      /\ cached' = [cached EXCEPT ![j] = Merged(p.found, OneTrade(p.trade))]
      /\ recorded' = recorded /\ MarketTyped'
  BY <1>1, WriteCachedTyped
<1>3. /\ j \in Left(p) /\ Left(Following(p)) = Left(p) \ {j} /\ Following(p) \in Publishing
      /\ Following(p) # MarketIdle => Following(p).trade = p.trade /\ Following(p).step = "read"
  BY <1>2, LeftNext
<1>4. PICK q \in Nat : q = p.trade.quantity /\ q = OneTrade(p.trade).volume
  BY <1>2, TradeTyped, OneIsOne
<1>5. ASSUME NEW k \in Candles
      PROVE  /\ Coming(k) \in Int /\ Coming(k)' \in Int
             /\ Coming(k)' = IF k = j THEN Coming(k) - q ELSE Coming(k)
  <2>1. /\ Coming(k) \in Int /\ Coming(k)' \in Int
        /\ Coming(k)' = Coming(k) + Owed(k, Following(p)) - Owed(k, p)
    BY <1>1, <1>2, ComingStep
  <2>2. CASE k = j
    <3>1. Owed(k, Following(p)) = 0 /\ Owed(k, p) = q
      BY <1>3, <1>4, <2>2 DEF Owed
    <3> QED BY <2>1, <2>2, <3>1
  <2>3. CASE k # j
    <3>1. Owed(k, Following(p)) = Owed(k, p)
      <4>1. CASE k \in Left(p)
        <5>1. k \in Left(Following(p)) /\ Following(p) # MarketIdle
          BY <1>3, <2>3, <4>1, LeftOfNone
        <5> QED BY <1>3, <4>1, <5>1 DEF Owed
      <4>2. CASE k \notin Left(p)
        BY <1>3, <4>2 DEF Owed
      <4> QED BY <4>1, <4>2
    <3>2. Owed(k, p) \in Nat
      BY OwedIs
    <3> QED BY <2>1, <2>3, <3>1, <3>2
  <2> QED BY <2>2, <2>3
<1>6. ASSUME NEW k \in Candles PROVE cached'[k].volume + Coming(k)' <= CandleNow(k)'.volume
  <2>1. CASE k = j
    <3>1. p.found.volume + Coming(k) <= CandleNow(k).volume
      BY <1>1, <1>2, <2>1 DEF BoundInv
    <3>2. cached'[k].volume = p.found.volume + q
      <4>1. cached'[k] = Merged(p.found, OneTrade(p.trade))
        BY <1>2, <2>1 DEF MarketTyped
      <4> QED BY <1>2, <1>4, <4>1, MergedTyped, TradeTyped
    <3>3. CandleNow(k)' = CandleNow(k) /\ CandleNow(k).volume \in Int /\ p.found.volume \in Int
      BY <1>2, NowIs, CellVolume DEF CandleNow
    <3> QED BY <1>5, <2>1, <3>1, <3>2, <3>3
  <2>2. CASE k # j
    <3>1. cached'[k] = cached[k]
      BY <1>2, <2>2 DEF MarketTyped
    <3>2. Coming(k)' <= Coming(k) /\ Coming(k) \in Int /\ Coming(k)' \in Int
      BY <1>5, <2>2
    <3> QED BY <1>2, <3>1, <3>2, CellBound
  <2> QED BY <2>1, <2>2
<1>7. ASSUME NEW k \in Candles, NEW v \in Publishers, publisher'[v].step = "write", Writing(v)' = k
      PROVE  publisher'[v].found.volume + Coming(k)' <= CandleNow(k)'.volume
  <2>1. v # w
    BY <1>2, <1>3, <1>7 DEF MarketIdle
  <2>2. Coming(k)' <= Coming(k) /\ Coming(k) \in Int /\ Coming(k)' \in Int
    BY <1>4, <1>5
  <2> QED BY <1>2, <1>7, <2>1, <2>2, OthersBound
<1> QED BY <1>6, <1>7 DEF BoundInv

LEMMA RecordThrowsBound ==
  ASSUME MarketTyped, BoundInv, NEW w \in Publishers, RecordThrows(w)
  PROVE  BoundInv'
<1>1. /\ MarketTyped' /\ publisher'[w] = MarketIdle /\ cached' = cached /\ recorded' = recorded
      /\ (\A v \in Publishers \ {w} : publisher'[v] = publisher[v])
  BY RecordThrowsTyped
<1>2. ASSUME NEW k \in Candles PROVE Coming(k)' <= Coming(k) /\ Coming(k) \in Int /\ Coming(k)' \in Int
  <2>1. /\ Coming(k) \in Int /\ Coming(k)' \in Int
        /\ Coming(k)' = Coming(k) + Owed(k, MarketIdle) - Owed(k, publisher[w])
    BY <1>1, ComingStep
  <2>2. Owed(k, MarketIdle) = 0 /\ Owed(k, publisher[w]) \in Nat
    BY LeftOfNone, OwedIs DEF Owed, MarketTyped
  <2> QED BY <2>1, <2>2
<1>3. ASSUME NEW k \in Candles PROVE cached'[k].volume + Coming(k)' <= CandleNow(k)'.volume
  BY <1>1, <1>2, CellBound
<1>4. ASSUME NEW k \in Candles, NEW v \in Publishers, publisher'[v].step = "write", Writing(v)' = k
      PROVE  publisher'[v].found.volume + Coming(k)' <= CandleNow(k)'.volume
  <2>1. v # w
    BY <1>1, <1>4 DEF MarketIdle
  <2> QED BY <1>1, <1>2, <1>4, <2>1, OthersBound
<1> QED BY <1>3, <1>4 DEF BoundInv

------------------------------------------------------------------------------
(***************************************************************************)
(* The cron's steps                                                        *)
(***************************************************************************)
Held(r) == IF r.step \in {"group", "store"} THEN DOMAIN r.groups ELSE {}

LEMMA HeldByOthers ==
  ASSUME NEW b, \A a \in Syncers \ {b} : syncer'[a] = syncer[a]
  PROVE  /\ \A a \in Syncers \ {b} : HeldBy(a)' = HeldBy(a)
         /\ \A a : HeldBy(a) = Held(syncer[a]) /\ HeldBy(a)' = Held(syncer'[a])
BY DEF HeldBy, Held

\* A cron's record changes, and pop, group and store are the only ones.
SyncerStep(b, r) ==
  /\ syncer' = [syncer EXCEPT ![b] = r]
  /\ UNCHANGED <<minute, cached, publisher, recorded, mixed>>

LEMMA SyncerTyped ==
  ASSUME MarketTyped, NEW b \in Syncers, NEW r \in Syncing, SyncerStep(b, r),
         pending' \in TradeLists, candles' \in [Candles -> Cells]
  PROVE  MarketTyped' /\ syncer'[b] = r /\ \A a \in Syncers \ {b} : syncer'[a] = syncer[a]
BY DEF MarketTyped, SyncerStep

\* What a step leaves of a row whose candle it does not touch.
LEMMA RowKeeps ==
  ASSUME NEW k, NEW old, RowOK(k, old), candles'[k] = candles[k], recorded' = recorded,
         TradesIn(k, pending') = TradesIn(k, pending), NEW b \in Syncers,
         \A a \in Syncers \ {b} : syncer'[a] = syncer[a],
         k \in HeldBy(b)' <=> k \in HeldBy(b),
         k \in HeldBy(b) =>
           /\ syncer'[b].groups[k] = syncer[b].groups[k]
           /\ syncer'[b].step = "store" /\ syncer'[b].candle = k =>
                syncer'[b].found = candles[k] \/ syncer'[b] = syncer[b]
  PROVE  RowOK(k, old)'
<1>1. \A a \in Syncers \ {b} : HeldBy(a)' = HeldBy(a)
  BY HeldByOthers
<1>2. \A a \in Syncers : k \in HeldBy(a)' <=> k \in HeldBy(a)
  BY <1>1
<1>3. old \in TradeLists /\ candles'[k] = CandleFrom(old)
  BY DEF RowOK
<1>4. CASE NoneHolds(k) /\ TradesIn(k, recorded) = old \o TradesIn(k, pending)
  <2>1. NoneHolds(k)' /\ TradesIn(k, recorded') = old \o TradesIn(k, pending')
    BY <1>2, <1>4 DEF NoneHolds
  <2> QED BY <1>3, <2>1 DEF RowOK
<1>5. ASSUME NEW c \in Syncers, OnlyHolds(c, k),
             TradesIn(k, recorded) = old \o (syncer[c].groups[k] \o TradesIn(k, pending)),
             syncer[c].step = "store" /\ syncer[c].candle = k => syncer[c].found = candles[k]
      PROVE  RowOK(k, old)'
  <2>1. OnlyHolds(c, k)'
    BY <1>2, <1>5 DEF OnlyHolds
  <2>2. syncer'[c].groups[k] = syncer[c].groups[k]
    BY <1>5 DEF OnlyHolds
  <2>3. TradesIn(k, recorded') = old \o (syncer'[c].groups[k] \o TradesIn(k, pending'))
    BY <1>5, <2>2
  <2>4. syncer'[c].step = "store" /\ syncer'[c].candle = k => syncer'[c].found = candles'[k]
    <3>1. CASE c = b
      BY <1>5, <3>1 DEF OnlyHolds
    <3>2. CASE c # b
      BY <1>5, <3>2
    <3> QED BY <3>1, <3>2
  <2> QED BY <1>3, <2>1, <2>3, <2>4 DEF RowOK
<1> QED BY <1>4, <1>5 DEF RowOK

LEMMA StartSyncHolds ==
  ASSUME MarketTyped, RowsInv, KnownTrades, NEW b \in Syncers, StartSync(b)
  PROVE  MarketTyped' /\ RowsInv' /\ KnownTrades'
<1>1. PICK r \in Syncing : r = [step |-> "pop", count |-> Len(pending)]
  BY ListParts DEF MarketTyped, Syncing
<1>2. SyncerStep(b, r) /\ pending' = pending /\ candles' = candles /\ broken' = broken /\ syncer[b] = MarketIdle
  BY <1>1 DEF StartSync, SyncerStep, syncUnchanged
<1>3. MarketTyped' /\ syncer'[b] = r /\ (\A a \in Syncers \ {b} : syncer'[a] = syncer[a]) /\ recorded' = recorded
  <2>1. pending' \in TradeLists /\ candles' \in [Candles -> Cells]
    BY <1>2 DEF MarketTyped
  <2> QED BY <1>2, <2>1, SyncerTyped DEF SyncerStep
<1>4. HeldBy(b) = {} /\ HeldBy(b)' = {}
  <2>1. Held(syncer[b]) = {}
    BY <1>2 DEF Held, MarketIdle
  <2>2. Held(syncer'[b]) = {}
    BY <1>1, <1>3 DEF Held
  <2> QED BY <1>3, <2>1, <2>2, HeldByOthers
<1>5. ASSUME NEW k \in Candles \ broken' PROVE \E old : RowOK(k, old)'
  <2>1. PICK old : RowOK(k, old)
    BY <1>2, <1>5 DEF RowsInv
  <2>2. RowOK(k, old)'
    BY <1>2, <1>3, <1>4, <2>1, RowKeeps
  <2> QED BY <2>2
<1>6. ASSUME NEW k \in Candles PROVE NoneHolds(k)' <=> NoneHolds(k)
  BY <1>3, <1>4, HeldByOthers DEF NoneHolds
<1> QED BY <1>2, <1>3, <1>5, <1>6 DEF RowsInv, KnownTrades

LEMMA GroupedLaws ==
  ASSUME NEW s \in TradeLists
  PROVE  /\ Grouped(s) \in CandleGroups
         /\ \A k : k \in DOMAIN Grouped(s) <=> TradesIn(k, s) # <<>>
         /\ \A k \in DOMAIN Grouped(s) : Grouped(s)[k] = TradesIn(k, s)
<1> DEFINE K == UNION {CandlesOf(s[i]) : i \in DOMAIN s}
<1>1. DOMAIN s = 1 .. Len(s)
  BY ListParts
<1>2. \A t \in Elements(s) : t \in Trades
  BY NoElements DEF TradeLists
<1>3. K \subseteq Candles
  <2>1. \A i \in DOMAIN s : s[i] \in Trades
    BY <1>1, <1>2 DEF Elements
  <2> QED BY <2>1, CandlesDiffer
<1>4. ASSUME NEW k PROVE k \in K <=> TradesIn(k, s) # <<>>
  <2>1. Elements(TradesIn(k, s)) = {t \in Elements(s) : k \in CandlesOf(t)}
    BY TradesInLaws
  <2>2. TradesIn(k, s) # <<>> <=> Elements(TradesIn(k, s)) # {}
    <3>1. PICK u \in Seq(Trades) : u = TradesIn(k, s)
      BY TradesInLaws DEF TradeLists
    <3> QED BY <3>1, NoElements
  <2>3. k \in K <=> \E t \in Elements(s) : k \in CandlesOf(t)
    BY <1>1 DEF Elements
  <2> QED BY <2>1, <2>2, <2>3
<1>5. Grouped(s) = [k \in K |-> TradesIn(k, s)]
  BY DEF Grouped
<1>6. \A k \in K : TradesIn(k, s) \in TradeLists \ {<<>>}
  BY <1>4, TradesInLaws
<1>7. Grouped(s) \in [K -> TradeLists \ {<<>>}] /\ K \in SUBSET Candles
  BY <1>3, <1>5, <1>6
<1>8. Grouped(s) \in CandleGroups
  BY <1>7 DEF CandleGroups
<1> QED BY <1>4, <1>5, <1>8

LEMMA PopIs ==
  ASSUME MarketTyped, NEW b \in Syncers, PopTrades(b)
  PROVE  \E popped, rest \in TradeLists, r \in Syncing :
           /\ pending = popped \o rest /\ pending' = rest
           /\ SyncerStep(b, r) /\ candles' = candles /\ syncer[b].step = "pop" /\ r.step # "store"
           /\ Held(r) = DOMAIN Grouped(popped) /\ (Held(r) # {} => r.groups = Grouped(popped))
           /\ broken' = broken \cup (Held(r) \cap UNION {HeldBy(a) : a \in Syncers \ {b}})
<1>1. PICK m \in Nat, count \in Nat : m = Len(pending) /\ count = syncer[b].count
  BY ListParts, SyncerKinds DEF MarketTyped, PopTrades
<1>2. PICK n \in 0 .. m : n = Min({count, m})
  BY OfTwo
<1>3. PICK popped \in TradeLists, rest \in TradeLists :
        popped = SubSeq(pending, 1, n) /\ rest = SubSeq(pending, n + 1, m)
  <2>1. pending \in Seq(Trades) /\ \A i \in 1 .. m : pending[i] \in Trades
    BY <1>1, ElementOfSeq DEF MarketTyped, TradeLists
  <2>2. (\A i \in 1 .. n : pending[i] \in Trades) /\ (\A i \in n + 1 .. m : pending[i] \in Trades)
    BY <2>1
  <2>3. SubSeq(pending, 1, n) \in Seq(Trades) /\ SubSeq(pending, n + 1, m) \in Seq(Trades)
    BY <2>2, SubSeqProperties
  <2> QED BY <2>3 DEF TradeLists
<1>4. pending = popped \o rest
  <2>1. SubSeq(pending, 1, m) = pending
    BY <1>1, SubSeqFull DEF MarketTyped, TradeLists
  <2>2. SubSeq(pending, 1, n) \o SubSeq(pending, n + 1, m) = SubSeq(pending, 1, m)
    <3>1. pending \in Seq(Trades) /\ 1 \in 1 .. Len(pending) + 1 /\ n \in 1 - 1 .. Len(pending) /\ m \in n .. Len(pending)
      BY <1>1 DEF MarketTyped, TradeLists
    <3> QED BY <3>1, ConcatAdjacentSubSeq
  <2> QED BY <1>3, <2>1, <2>2
<1>5. PICK r : r = IF n = 0 THEN MarketIdle ELSE [step |-> "group", groups |-> Grouped(popped)]
  OBVIOUS
<1>6. /\ pending' = rest /\ syncer' = [syncer EXCEPT ![b] = r] /\ syncer[b].step = "pop" /\ candles' = candles
      /\ UNCHANGED <<minute, cached, publisher, recorded, mixed>>
      /\ broken' = broken \cup (DOMAIN Grouped(popped) \cap UNION {HeldBy(a) : a \in Syncers \ {b}})
  BY <1>1, <1>2, <1>3, <1>5 DEF PopTrades, syncUnchanged
<1>7. r \in Syncing /\ r.step # "store"
  BY <1>5, GroupedLaws DEF Syncing, MarketIdle
<1>8. Held(r) = DOMAIN Grouped(popped) /\ (Held(r) # {} => r.groups = Grouped(popped))
  <2>1. CASE n = 0
    <3>1. popped = <<>>
      BY <1>3, <2>1, SubSeqEmpty
    <3>2. DOMAIN Grouped(popped) = {}
      BY <3>1, GroupedLaws, TradesInLaws
    <3> QED BY <1>5, <2>1, <3>2 DEF Held, MarketIdle
  <2>2. CASE n # 0
    BY <1>5, <2>2 DEF Held
  <2> QED BY <2>1, <2>2
<1> QED BY <1>3, <1>4, <1>6, <1>7, <1>8 DEF SyncerStep

LEMMA PopTradesHolds ==
  ASSUME MarketTyped, RowsInv, KnownTrades, NEW b \in Syncers, PopTrades(b)
  PROVE  MarketTyped' /\ RowsInv' /\ KnownTrades'
<1>1. PICK popped \in TradeLists, rest \in TradeLists, r \in Syncing :
        /\ pending = popped \o rest /\ pending' = rest
        /\ SyncerStep(b, r) /\ candles' = candles /\ syncer[b].step = "pop" /\ r.step # "store"
        /\ Held(r) = DOMAIN Grouped(popped) /\ (Held(r) # {} => r.groups = Grouped(popped))
        /\ broken' = broken \cup (Held(r) \cap UNION {HeldBy(a) : a \in Syncers \ {b}})
  BY PopIs
<1>2. MarketTyped' /\ syncer'[b] = r /\ (\A a \in Syncers \ {b} : syncer'[a] = syncer[a]) /\ recorded' = recorded
  <2>1. pending' \in TradeLists /\ candles' \in [Candles -> Cells]
    BY <1>1 DEF MarketTyped
  <2> QED BY <1>1, <2>1, SyncerTyped DEF SyncerStep
<1>3. /\ HeldBy(b) = {} /\ HeldBy(b)' = Held(r)
      /\ \A a \in Syncers \ {b} : HeldBy(a)' = HeldBy(a)
  BY <1>1, <1>2, HeldByOthers DEF Held
<1>4. ASSUME NEW k
      PROVE  /\ TradesIn(k, popped) \in TradeLists /\ TradesIn(k, rest) \in TradeLists
             /\ TradesIn(k, pending) = TradesIn(k, popped) \o TradesIn(k, rest)
             /\ k \in Held(r) <=> TradesIn(k, popped) # <<>>
             /\ k \in Held(r) => r.groups[k] = TradesIn(k, popped)
  <2>1. TradesIn(k, popped) \in TradeLists /\ TradesIn(k, rest) \in TradeLists
    BY TradesInLaws
  <2>2. TradesIn(k, popped \o rest) = TradesIn(k, popped) \o TradesIn(k, rest)
    BY TradesInLaws
  <2>3. /\ k \in DOMAIN Grouped(popped) <=> TradesIn(k, popped) # <<>>
        /\ k \in DOMAIN Grouped(popped) => Grouped(popped)[k] = TradesIn(k, popped)
    BY GroupedLaws
  <2> QED BY <1>1, <2>1, <2>2, <2>3
<1>5. ASSUME NEW k \in Candles \ broken' PROVE \E old : RowOK(k, old)'
  <2>1. PICK old : RowOK(k, old)
    BY <1>1, <1>5 DEF RowsInv
  <2>2. CASE k \in Held(r)
    <3>1. \A a \in Syncers \ {b} : k \notin HeldBy(a)
      BY <1>1, <1>5, <2>2
    <3>2. NoneHolds(k) /\ OnlyHolds(b, k)'
      BY <1>3, <2>2, <3>1 DEF NoneHolds, OnlyHolds
    <3>3. TradesIn(k, recorded) = old \o TradesIn(k, pending)
      BY <2>1, <3>2 DEF RowOK, OnlyHolds, NoneHolds
    <3>4. TradesIn(k, recorded') = old \o (syncer'[b].groups[k] \o TradesIn(k, pending'))
      BY <1>1, <1>2, <1>4, <2>2, <3>3
    <3>5. old \in TradeLists /\ candles'[k] = CandleFrom(old) /\ syncer'[b].step # "store"
      BY <1>1, <1>2, <2>1 DEF RowOK
    <3> QED BY <3>2, <3>4, <3>5 DEF RowOK
  <2>3. CASE k \notin Held(r)
    <3>1. TradesIn(k, pending') = TradesIn(k, pending)
      BY <1>1, <1>4, <2>3, ConcatEmptySeq DEF TradeLists
    <3>2. k \notin HeldBy(b) /\ k \notin HeldBy(b)'
      BY <1>3, <2>3
    <3>3. RowOK(k, old)'
      BY <1>1, <1>2, <2>1, <3>1, <3>2, RowKeeps
    <3> QED BY <3>3
  <2> QED BY <2>2, <2>3
<1>6. ASSUME NEW k \in Candles, TradesIn(k, pending') # <<>> \/ candles'[k] # NoCandle \/ ~NoneHolds(k)'
      PROVE  TradesIn(k, recorded') # <<>>
  <2>1. CASE TradesIn(k, pending) # <<>> \/ candles[k] # NoCandle \/ ~NoneHolds(k)
    BY <1>2, <2>1 DEF KnownTrades
  <2>2. CASE TradesIn(k, pending) = <<>>
    <3>1. TradesIn(k, popped) = <<>> /\ TradesIn(k, rest) = <<>>
      BY <1>4, <2>2, ConcatSimplifications DEF TradeLists
    <3>2. k \notin HeldBy(b)'
      BY <1>3, <1>4, <3>1
    <3>3. candles[k] # NoCandle \/ ~NoneHolds(k)
      BY <1>1, <1>3, <1>6, <3>1, <3>2 DEF NoneHolds
    <3> QED BY <2>1, <3>3
  <2> QED BY <2>1, <2>2
<1> QED BY <1>2, <1>5, <1>6 DEF RowsInv, KnownTrades

LEMMA ReadCandleHolds ==
  ASSUME MarketTyped, RowsInv, KnownTrades, NEW b \in Syncers, NEW j \in Candles, ReadCandle(b, j)
  PROVE  MarketTyped' /\ RowsInv' /\ KnownTrades'
<1>1. PICK groups \in CandleGroups : groups = syncer[b].groups /\ j \in DOMAIN groups /\ syncer[b].step = "group"
  BY SyncerKinds DEF MarketTyped, ReadCandle
<1>2. PICK r \in Syncing : r = [step |-> "store", groups |-> groups, candle |-> j, found |-> candles[j]]
  BY <1>1, NowIs DEF Syncing
<1>3. SyncerStep(b, r) /\ pending' = pending /\ candles' = candles /\ broken' = broken
  BY <1>1, <1>2 DEF ReadCandle, SyncerStep, syncUnchanged
<1>4. MarketTyped' /\ syncer'[b] = r /\ (\A a \in Syncers \ {b} : syncer'[a] = syncer[a]) /\ recorded' = recorded
  <2>1. pending' \in TradeLists /\ candles' \in [Candles -> Cells]
    BY <1>3 DEF MarketTyped
  <2> QED BY <1>3, <2>1, SyncerTyped DEF SyncerStep
<1>5. HeldBy(b)' = HeldBy(b)
  BY <1>1, <1>2, <1>4, HeldByOthers DEF Held
<1>6. ASSUME NEW k \in Candles \ broken' PROVE \E old : RowOK(k, old)'
  <2>1. PICK old : RowOK(k, old)
    BY <1>3, <1>6 DEF RowsInv
  <2>2. syncer'[b].groups[k] = syncer[b].groups[k]
        /\ (syncer'[b].candle = k => syncer'[b].found = candles[k])
    BY <1>1, <1>2, <1>4
  <2>3. RowOK(k, old)'
    BY <1>3, <1>4, <1>5, <2>1, <2>2, RowKeeps
  <2> QED BY <2>3
<1>7. ASSUME NEW k \in Candles PROVE NoneHolds(k)' <=> NoneHolds(k)
  BY <1>4, <1>5, HeldByOthers DEF NoneHolds
<1> QED BY <1>3, <1>4, <1>6, <1>7 DEF RowsInv, KnownTrades

LEMMA StoreCandleHolds ==
  ASSUME MarketTyped, RowsInv, KnownTrades, NEW b \in Syncers, StoreCandle(b)
  PROVE  MarketTyped' /\ RowsInv' /\ KnownTrades'
<1>1. PICK s \in Syncing : s = syncer[b]
  BY DEF MarketTyped
<1>2. s.step = "store" /\ s.groups \in CandleGroups /\ s.candle \in Candles /\ s.found \in Cells /\ s.candle \in DOMAIN s.groups
  BY <1>1, SyncerKinds DEF StoreCandle
<1>3. PICK j \in Candles, groups \in CandleGroups, g \in TradeLists :
        j = s.candle /\ groups = s.groups /\ g = groups[j] /\ j \in DOMAIN groups /\ g # <<>>
  BY <1>2, GroupsAre
<1> DEFINE left == Without(groups, j)
<1>4. /\ DOMAIN left = DOMAIN groups \ {j} /\ (\A k \in DOMAIN groups \ {j} : left[k] = groups[k])
      /\ left \in CandleGroups
  <2>1. left \in [DOMAIN groups \ {j} -> TradeLists \ {<<>>}] /\ DOMAIN groups \ {j} \in SUBSET Candles
    BY GroupsAre DEF Without
  <2> QED BY <2>1 DEF Without, CandleGroups
<1>5. PICK r \in Syncing : r = IF DOMAIN left = {} THEN MarketIdle ELSE [step |-> "group", groups |-> left]
  BY <1>4 DEF Syncing
<1>6. Held(r) = DOMAIN groups \ {j} /\ (\A k \in Held(r) : r.groups[k] = groups[k]) /\ r.step # "store"
  BY <1>4, <1>5 DEF Held, MarketIdle
<1>7. PICK new \in Cells : new = Merged(s.found, GroupCandle(g))
  BY <1>2, <1>3, GroupCandleIs, CandleTyped, MergedTyped DEF Cells
<1>8. /\ SyncerStep(b, r) /\ pending' = pending /\ broken' = broken
      /\ candles' = [candles EXCEPT ![j] = new]
  BY <1>1, <1>3, <1>5, <1>7 DEF StoreCandle, SyncerStep, syncUnchanged
<1>9. /\ MarketTyped' /\ syncer'[b] = r /\ (\A a \in Syncers \ {b} : syncer'[a] = syncer[a]) /\ recorded' = recorded
      /\ candles'[j] = new /\ \A k \in Candles \ {j} : candles'[k] = candles[k]
  <2>1. pending' \in TradeLists /\ candles' \in [Candles -> Cells]
    BY <1>8 DEF MarketTyped
  <2>2. candles'[j] = new /\ \A k \in Candles \ {j} : candles'[k] = candles[k]
    BY <1>8 DEF MarketTyped
  <2> QED BY <1>8, <2>1, <2>2, SyncerTyped DEF SyncerStep
<1>10. /\ HeldBy(b) = DOMAIN groups /\ HeldBy(b)' = DOMAIN groups \ {j}
       /\ \A a \in Syncers \ {b} : HeldBy(a)' = HeldBy(a)
  BY <1>1, <1>2, <1>3, <1>6, <1>9, HeldByOthers DEF Held
<1>11. ASSUME NEW k \in Candles \ broken' PROVE \E old : RowOK(k, old)'
  <2>1. PICK old : RowOK(k, old)
    BY <1>8, <1>11 DEF RowsInv
  <2>2. CASE k = j
    <3>1. k \in HeldBy(b)
      BY <1>3, <1>10, <2>2
    <3>2. /\ OnlyHolds(b, k) /\ s.found = candles[k]
          /\ TradesIn(k, recorded) = old \o (g \o TradesIn(k, pending))
      BY <1>1, <1>2, <1>3, <2>1, <2>2, <3>1 DEF RowOK, OnlyHolds, NoneHolds
    <3>3. old \in TradeLists /\ candles[k] = CandleFrom(old) /\ TradesIn(k, pending) \in TradeLists
      BY <2>1, NowIs DEF RowOK
    <3>4. PICK both \in TradeLists : both = old \o g
      BY <3>3, AppendLast
    <3>5. candles'[k] = CandleFrom(both)
      <4>1. CandleFrom(old \o g) = Merged(CandleFrom(old), CandleFrom(g))
        BY <1>3, <3>3, CandleConcat
      <4>2. new = Merged(CandleFrom(old), CandleFrom(g))
        BY <1>7, <3>2, <3>3, GroupCandleIs
      <4> QED BY <1>9, <2>2, <3>4, <4>1, <4>2
    <3>6. TradesIn(k, recorded') = both \o TradesIn(k, pending')
      <4>1. (old \o g) \o TradesIn(k, pending) = old \o (g \o TradesIn(k, pending))
        <5>1. PICK o \in Seq(Trades), p \in Seq(Trades) : o = old /\ p = TradesIn(k, pending)
          BY <3>3 DEF TradeLists
        <5>2. (o \o g) \o p = o \o (g \o p)
          BY ConcatAssociative DEF TradeLists
        <5> QED BY <5>1, <5>2
      <4> QED BY <1>8, <1>9, <3>2, <3>4, <4>1
    <3>7. NoneHolds(k)'
      BY <1>10, <2>2, <3>2 DEF NoneHolds, OnlyHolds
    <3>8. RowOK(k, both)'
      BY <3>5, <3>6, <3>7 DEF RowOK
    <3> QED BY <3>8
  <2>3. CASE k # j
    <3>1. k \in HeldBy(b)' <=> k \in HeldBy(b)
      BY <1>10, <2>3
    <3>2. k \in HeldBy(b) => syncer'[b].groups[k] = syncer[b].groups[k] /\ syncer'[b].step # "store"
      BY <1>1, <1>3, <1>6, <1>9, <1>10, <2>3
    <3>3. RowOK(k, old)'
      BY <1>8, <1>9, <2>1, <2>3, <3>1, <3>2, RowKeeps
    <3> QED BY <3>3
  <2> QED BY <2>2, <2>3
<1>12. ASSUME NEW k \in Candles, TradesIn(k, pending') # <<>> \/ candles'[k] # NoCandle \/ ~NoneHolds(k)'
       PROVE  TradesIn(k, recorded') # <<>>
  <2>1. k = j => ~NoneHolds(k)
    BY <1>3, <1>10 DEF NoneHolds
  <2>2. ~NoneHolds(k)' => ~NoneHolds(k)
    BY <1>10 DEF NoneHolds
  <2>3. TradesIn(k, pending) # <<>> \/ candles[k] # NoCandle \/ ~NoneHolds(k)
    BY <1>8, <1>9, <1>12, <2>1, <2>2
  <2> QED BY <1>9, <2>3 DEF KnownTrades
<1> QED BY <1>9, <1>11, <1>12 DEF RowsInv, KnownTrades

LEMMA SyncThrowsHolds ==
  ASSUME MarketTyped, RowsInv, KnownTrades, NEW b \in Syncers, SyncThrows(b)
  PROVE  MarketTyped' /\ RowsInv' /\ KnownTrades'
<1>1. PICK r \in Syncing : r = MarketIdle
  BY DEF Syncing
<1>2. SyncerStep(b, r) /\ pending' = pending /\ candles' = candles /\ broken' = broken \cup HeldBy(b)
  BY <1>1 DEF SyncThrows, SyncerStep, syncUnchanged
<1>3. MarketTyped' /\ syncer'[b] = r /\ (\A a \in Syncers \ {b} : syncer'[a] = syncer[a]) /\ recorded' = recorded
  <2>1. pending' \in TradeLists /\ candles' \in [Candles -> Cells]
    BY <1>2 DEF MarketTyped
  <2> QED BY <1>2, <2>1, SyncerTyped DEF SyncerStep
<1>4. HeldBy(b)' = {} /\ \A a \in Syncers \ {b} : HeldBy(a)' = HeldBy(a)
  BY <1>1, <1>3, HeldByOthers DEF Held, MarketIdle
<1>5. ASSUME NEW k \in Candles \ broken' PROVE \E old : RowOK(k, old)'
  <2>1. PICK old : RowOK(k, old)
    BY <1>2, <1>5 DEF RowsInv
  <2>2. k \notin HeldBy(b) /\ k \notin HeldBy(b)'
    BY <1>2, <1>4, <1>5
  <2>3. RowOK(k, old)'
    BY <1>2, <1>3, <2>1, <2>2, RowKeeps
  <2> QED BY <2>3
<1>6. ASSUME NEW k \in Candles PROVE ~NoneHolds(k)' => ~NoneHolds(k)
  BY <1>4 DEF NoneHolds
<1> QED BY <1>2, <1>3, <1>5, <1>6 DEF RowsInv, KnownTrades

------------------------------------------------------------------------------
(***************************************************************************)
(* The invariant holds                                                     *)
(***************************************************************************)
LEMMA MarketStarts == ASSUME MarketInit PROVE MarketInv
<1>1. PICK none \in TradeLists : none = <<>>
  BY NoneIsAList
<1>2. /\ minute = 0 /\ pending = none /\ recorded = none
      /\ cached = [k \in Candles |-> NoCandle] /\ candles = [k \in Candles |-> NoCandle]
      /\ publisher = [w \in Publishers |-> MarketIdle] /\ syncer = [b \in Syncers |-> MarketIdle]
  BY <1>1 DEF MarketInit
<1>3. \A k : TradesIn(k, none) = none
  BY <1>1, TradesInLaws
<1>4. none \o none = none /\ CandleFrom(none) = NoCandle
  BY <1>1, ConcatEmptySeq, CandleTyped DEF TradeLists
<1>5. MarketTyped
  <2>1. Elements(none) = {}
    BY <1>1, ElementsNone
  <2>2. 0 \in 0 .. LastMinute
    BY MarketAssumption
  <2> QED BY <1>2, <2>1, <2>2 DEF MarketTyped, Cells, Publishing, Syncing
<1>6. \A k : NoneHolds(k)
  BY <1>2 DEF NoneHolds, HeldBy, MarketIdle
<1>7. RowsInv
  <2>1. ASSUME NEW k \in Candles PROVE RowOK(k, none)
    BY <1>2, <1>3, <1>4, <1>6 DEF RowOK
  <2> QED BY <2>1 DEF RowsInv
<1>8. KnownTrades
  BY <1>1, <1>2, <1>3, <1>6 DEF KnownTrades
<1>9. ASSUME NEW k \in Candles PROVE cached[k] = CandleNow(k) /\ cached[k] = NoCandle
  BY <1>2, <1>3, <1>4 DEF CandleNow
<1>10. \A w \in Publishers : publisher[w] = MarketIdle /\ LeftOf(w) = {}
  BY <1>2 DEF LeftOf
<1>11. CacheInv
  BY <1>9, <1>10 DEF CacheInv, CacheOK, Recording
<1>12. BoundInv
  <2>1. ASSUME NEW k \in Candles PROVE Coming(k) = 0
    <3> DEFINE f == [v \in Publishers |-> Owed(k, publisher[v])]
    <3>1. \A v \in Publishers : f[v] = 0
      BY <1>10, LeftOfNone DEF Owed
    <3>2. IsFiniteSet(Publishers)
      BY MarketAssumption
    <3>3. SumFunctionOnSet(f, Publishers) = 0
      <4> HIDE DEF f
      <4> QED BY <3>1, <3>2, SumZero
    <3> QED BY <3>3 DEF Coming, ComingOf
  <2>2. ASSUME NEW k \in Candles PROVE cached[k].volume + Coming(k) <= CandleNow(k).volume
    <3>1. cached[k].volume = 0 /\ CandleNow(k).volume = 0
      BY <1>9 DEF NoCandle
    <3> QED BY <2>1, <3>1
  <2>3. \A w \in Publishers : publisher[w].step # "write"
    BY <1>10 DEF MarketIdle
  <2> QED BY <2>2, <2>3 DEF BoundInv
<1> QED BY <1>5, <1>7, <1>8, <1>11, <1>12 DEF MarketInv

LEMMA PushHolds ==
  ASSUME MarketInv, NEW w \in Publishers, NEW price \in Prices, NEW quantity \in Quantities,
         NEW at \in 0 .. LastMinute, at <= minute, PushTrade(w, price, quantity, at)
  PROVE  MarketInv'
<1>1. PICK t \in Trades : t.at = at /\ Pushes(w, t)
  BY PushIs
<1>2. MarketTyped /\ RowsInv /\ KnownTrades /\ CacheInv /\ BoundInv
  BY DEF MarketInv
<1>3. MarketTyped'
  BY <1>1, <1>2, PushTyped
<1>4. RowsInv' /\ KnownTrades'
  BY <1>1, <1>2, PushRows
<1>5. CacheInv'
  BY <1>1, <1>2, PushCache
<1>6. BoundInv'
  BY <1>1, <1>2, <1>3, PushBound
<1> QED BY <1>3, <1>4, <1>5, <1>6 DEF MarketInv

LEMMA RecordHolds == ASSUME MarketInv, RecordNext PROVE MarketInv'
<1>1. MarketTyped /\ RowsInv /\ KnownTrades /\ CacheInv /\ BoundInv /\ minute \in 0 .. LastMinute
  BY DEF MarketInv, MarketTyped
<1>2. CASE NextMinute
  <2>1. /\ UNCHANGED <<pending, recorded, candles, syncer, broken, cached, publisher, mixed>>
        /\ minute < LastMinute /\ minute' = minute + 1
    BY <1>2 DEF NextMinute, marketHistory
  <2>2. minute' \in 0 .. LastMinute /\ minute <= minute'
    BY <1>1, <2>1, MarketAssumption
  <2>3. \A t \in Elements(recorded) : t.at <= minute'
    <3>1. \A t \in Elements(recorded) : t.at <= minute /\ t.at \in Int
      BY <1>1, NoElements, TradeTyped DEF MarketTyped, TradeLists
    <3> QED BY <1>1, <2>2, <3>1
  <2>4. MarketTyped'
    BY <1>1, <2>1, <2>2, <2>3 DEF MarketTyped, Elements
  <2> QED BY <1>1, <2>1, <2>4, TableRests, CacheRests DEF MarketInv
<1>3. ASSUME NEW w \in Publishers, RecordMatch(w) PROVE MarketInv'
  <2>1. PICK price \in Prices, quantity \in Quantities, at \in {minute, minute - 1} \cap Nat :
          PushTrade(w, price, quantity, at)
    BY <1>3 DEF RecordMatch
  <2>2. at \in 0 .. LastMinute /\ at <= minute
    BY <1>1, MarketAssumption
  <2> QED BY <2>1, <2>2, PushHolds
<1>4. ASSUME NEW w \in Publishers, ReadCached(w) PROVE MarketInv'
  <2>1. MarketTyped' /\ UNCHANGED <<pending, recorded, candles, syncer, broken>>
    BY <1>1, <1>4, ReadCachedTyped
  <2>2. CacheInv' /\ BoundInv'
    BY <1>1, <1>4, ReadCachedHolds, ReadCachedBound
  <2> QED BY <1>1, <2>1, <2>2, TableRests DEF MarketInv
<1>5. ASSUME NEW w \in Publishers, WriteCached(w) PROVE MarketInv'
  <2>1. MarketTyped' /\ UNCHANGED <<pending, recorded, candles, syncer, broken>>
    BY <1>1, <1>5, WriteCachedTyped
  <2>2. CacheInv' /\ BoundInv'
    BY <1>1, <1>5, WriteCachedHolds, WriteCachedBound
  <2> QED BY <1>1, <2>1, <2>2, TableRests DEF MarketInv
<1>6. ASSUME NEW w \in Publishers, RecordThrows(w) PROVE MarketInv'
  <2>1. MarketTyped' /\ UNCHANGED <<pending, recorded, candles, syncer, broken>>
    BY <1>1, <1>6, RecordThrowsTyped
  <2>2. CacheInv' /\ BoundInv'
    BY <1>1, <1>6, RecordThrowsHolds, RecordThrowsBound
  <2> QED BY <1>1, <2>1, <2>2, TableRests DEF MarketInv
<1>7. ASSUME NEW w \in Publishers, RecordMadeUp(w) PROVE MarketInv'
  <2>1. PICK price \in Prices, quantity \in Quantities : PushTrade(w, price, quantity, minute)
    BY <1>7 DEF RecordMadeUp
  <2>2. minute \in 0 .. LastMinute /\ minute <= minute
    BY <1>1
  <2> QED BY <2>1, <2>2, PushHolds
<1> QED BY <1>2, <1>3, <1>4, <1>5, <1>6, <1>7 DEF RecordNext

LEMMA SyncHolds == ASSUME MarketInv, SyncNext PROVE MarketInv'
<1>1. MarketTyped /\ RowsInv /\ KnownTrades /\ CacheInv /\ BoundInv
  BY DEF MarketInv
<1>2. PICK b \in Syncers :
        StartSync(b) \/ PopTrades(b) \/ StoreCandle(b) \/ SyncThrows(b) \/ \E k \in Candles : ReadCandle(b, k)
  BY DEF SyncNext
<1>3. MarketTyped' /\ RowsInv' /\ KnownTrades'
  BY <1>1, <1>2, StartSyncHolds, PopTradesHolds, StoreCandleHolds, SyncThrowsHolds, ReadCandleHolds
<1>4. UNCHANGED <<cached, publisher, recorded, mixed>>
  BY <1>2 DEF StartSync, PopTrades, StoreCandle, SyncThrows, ReadCandle, syncUnchanged
<1>5. CacheInv' /\ BoundInv'
  BY <1>1, <1>4, CacheRests
<1> QED BY <1>3, <1>5 DEF MarketInv

LEMMA MarketStep == ASSUME MarketInv, [MarketNext]_marketVars PROVE MarketInv'
<1>1. CASE MarketNext
  BY <1>1, RecordHolds, SyncHolds DEF MarketNext
<1>2. CASE UNCHANGED marketVars
  <2>1. UNCHANGED <<pending, recorded, candles, syncer, broken, cached, publisher, mixed, minute>>
    BY <1>2 DEF marketVars, marketHistory
  <2>2. MarketTyped'
    BY <2>1 DEF MarketInv, MarketTyped, Elements
  <2>3. RowsInv' /\ KnownTrades' /\ CacheInv' /\ BoundInv'
    BY <2>1, TableRests, CacheRests DEF MarketInv
  <2> QED BY <2>2, <2>3 DEF MarketInv
<1> QED BY <1>1, <1>2

LEMMA MarketAlways == MarketSpec => []MarketInv
<1>1. MarketInit => MarketInv
  BY MarketStarts
<1>2. MarketInv /\ [MarketNext]_marketVars => MarketInv'
  BY MarketStep
<1> QED BY <1>1, <1>2, PTL DEF MarketSpec

------------------------------------------------------------------------------
(***************************************************************************)
(* What the invariant says of rows, cache, chart and ticker                *)
(***************************************************************************)
LEMMA FrontOfConcat ==
  ASSUME NEW S, NEW s \in Seq(S), NEW u \in Seq(S)
  PROVE  SubSeq(s \o u, 1, Len(s \o u) - Len(u)) = s
<1>1. PICK n \in Nat, m \in Nat : n = Len(s) /\ m = Len(u) /\ Len(s \o u) = n + m
  BY ConcatProperties, LenProperties
<1>2. Len(s \o u) - Len(u) = n
  BY <1>1
<1>3. CASE n = 0
  <2>1. s = <<>>
    BY <1>1, <1>3, EmptySeq
  <2> QED BY <1>2, <1>3, <2>1, SubSeqEmpty
<1>4. CASE n # 0
  <2>1. 1 \in 1 .. Len(s) /\ n \in 1 .. Len(s)
    BY <1>1, <1>4
  <2>2. SubSeq(s \o u, 1, n) = SubSeq(s, 1, n)
    BY <2>1, SubSeqOfConcat1
  <2> QED BY <1>1, <1>2, <2>2, SubSeqFull
<1> QED BY <1>3, <1>4

LEMMA RowsShow ==
  ASSUME MarketInv
  PROVE  RowsAreTrades
<1>1. SUFFICES ASSUME NEW k \in Candles \ broken
               PROVE  candles[k] = CandleFrom(SubSeq(TradesIn(k, recorded), 1, Len(TradesIn(k, recorded)) - Unsynced(k)))
  BY DEF RowsAreTrades
<1>2. PICK old : RowOK(k, old)
  BY DEF MarketInv, RowsInv
<1>3. PICK o \in Seq(Trades), p \in Seq(Trades) :
        o = old /\ p = TradesIn(k, pending) /\ candles[k] = CandleFrom(o)
  BY <1>2, NowIs DEF RowOK, MarketInv, TradeLists
<1> DEFINE f == [b \in Syncers |-> InHand(b, k)]
<1>4. Unsynced(k) = Len(p) + SumFunctionOnSet(f, Syncers)
  BY <1>3 DEF Unsynced, SumFunction
<1>5. IsFiniteSet(Syncers) /\ \A b \in Syncers : f[b] = InHand(b, k)
  BY MarketAssumption
<1> HIDE DEF f
<1>6. CASE NoneHolds(k) /\ TradesIn(k, recorded) = o \o p
  <2>1. \A b \in Syncers : f[b] = 0
    BY <1>5, <1>6 DEF NoneHolds, InHand
  <2>2. SumFunctionOnSet(f, Syncers) = 0
    BY <1>5, <2>1, SumZero
  <2>3. Len(p) \in Nat
    BY LenProperties
  <2>4. Unsynced(k) = Len(p)
    BY <1>4, <2>2, <2>3
  <2>5. SubSeq(o \o p, 1, Len(o \o p) - Len(p)) = o
    BY FrontOfConcat
  <2> QED BY <1>3, <1>6, <2>4, <2>5
<1>7. ASSUME NEW b \in Syncers, OnlyHolds(b, k), TradesIn(k, recorded) = o \o (syncer[b].groups[k] \o p)
      PROVE  candles[k] = CandleFrom(SubSeq(TradesIn(k, recorded), 1, Len(TradesIn(k, recorded)) - Unsynced(k)))
  <2>1. PICK g \in Seq(Trades) : g = syncer[b].groups[k]
    <3>1. syncer[b] \in Syncing /\ syncer[b].step \in {"group", "store"} /\ k \in DOMAIN syncer[b].groups
      BY <1>7 DEF OnlyHolds, HeldBy, MarketInv, MarketTyped
    <3>2. syncer[b].groups \in CandleGroups
      BY <3>1, SyncerKinds
    <3> QED BY <3>1, <3>2, GroupsAre DEF TradeLists
  <2>2. Len(g) \in Nat /\ Len(p) \in Nat /\ g \o p \in Seq(Trades) /\ Len(g \o p) = Len(g) + Len(p)
    BY LenProperties, ConcatProperties
  <2>3. f[b] = Len(g) /\ \A a \in Syncers \ {b} : f[a] = 0
    BY <1>5, <1>7, <2>1 DEF OnlyHolds, InHand
  <2>4. SumFunctionOnSet(f, Syncers) = f[b] + SumFunctionOnSet(f, Syncers \ {b})
    <3>1. PICK w, all : w = f /\ all = Syncers
      OBVIOUS
    <3>2. IsFiniteSet(all) /\ b \in all /\ \A a \in all : w[a] \in Int
      BY <1>5, <2>2, <2>3, <3>1
    <3>3. SumFunctionOnSet(w, all) = w[b] + SumFunctionOnSet(w, all \ {b})
      BY <3>2, SumRemove
    <3> QED BY <3>1, <3>3
  <2>5. SumFunctionOnSet(f, Syncers \ {b}) = 0
    <3>1. IsFiniteSet(Syncers \ {b})
      BY <1>5, FS_Subset
    <3> QED BY <2>3, <3>1, SumZero
  <2>6. Unsynced(k) = Len(g \o p)
    BY <1>4, <2>2, <2>3, <2>4, <2>5
  <2>7. PICK u \in Seq(Trades) : u = g \o p
    BY <2>2
  <2>8. SubSeq(o \o u, 1, Len(o \o u) - Len(u)) = o
    BY FrontOfConcat
  <2> QED BY <1>3, <1>7, <2>1, <2>6, <2>7, <2>8
<1> QED BY <1>2, <1>3, <1>6, <1>7 DEF RowOK

LEMMA CacheIsNow ==
  ASSUME MarketInv, NEW k \in Candles, k \notin mixed, ~Recording(k)
  PROVE  cached[k] = CandleNow(k)
BY DEF MarketInv, CacheInv, CacheOK, Recording

LEMMA CacheShows ==
  ASSUME MarketInv
  PROVE  CacheIsTrades
<1>1. MarketTyped
  BY DEF MarketInv
<1>2. ASSUME NEW k \in Candles PROVE cached[k].volume <= CandleNow(k).volume
  <2> DEFINE f == [v \in Publishers |-> Owed(k, publisher[v])]
             z == [v \in Publishers |-> 0]
  <2>1. \A v \in Publishers : f[v] \in Nat /\ z[v] = 0
    BY <1>1, OwedIs DEF MarketTyped
  <2>2. Coming(k) = SumFunctionOnSet(f, Publishers)
    BY DEF Coming, ComingOf
  <2> HIDE DEF f, z
  <2>3. IsFiniteSet(Publishers) /\ \A v \in Publishers : z[v] \in Int /\ f[v] \in Int /\ z[v] <= f[v]
    BY <2>1, MarketAssumption
  <2>4. SumFunctionOnSet(z, Publishers) = 0
    BY <2>1, <2>3, SumZero
  <2>5. SumFunctionOnSet(z, Publishers) <= SumFunctionOnSet(f, Publishers)
    BY <2>3, SumMonotonic
  <2>6. Coming(k) \in Int
    BY <2>2, <2>3, SumInt
  <2>7. cached[k].volume + Coming(k) <= CandleNow(k).volume
    BY DEF MarketInv, BoundInv
  <2>8. cached[k].volume \in Nat /\ CandleNow(k).volume \in Int /\ 0 <= Coming(k)
    BY <1>1, <2>2, <2>4, <2>5, NowIs
  <2> QED BY <2>6, <2>7, <2>8
<1>3. ASSUME NEW k \in Candles, k \notin mixed, ~Recording(k)
      PROVE  /\ cached[k] = CandleNow(k)
             /\ k = CandleAt(minute, k.width) => ChartCandle(k) = cached[k]
  <2>1. cached[k] = CandleNow(k)
    BY <1>3, CacheIsNow
  <2>2. ASSUME cached[k] = NoCandle PROVE candles[k] = NoCandle
    <3>1. TradesIn(k, recorded) = <<>>
      BY <1>1, <2>1, <2>2, NowIs, CandleTyped DEF CandleNow
    <3> QED BY <3>1 DEF MarketInv, KnownTrades
  <2> QED BY <2>1, <2>2 DEF ChartCandle
<1> QED BY <1>2, <1>3 DEF CacheIsTrades, CandleNow

\* The minute a trade is of, as a candle.
MinuteOf(t) == [width |-> 1, open |-> t.at]
OfTheDay == {t \in Trades : minute < t.at + DayMinutes}

LEMMA DayIs ==
  /\ DayCandles \subseteq Candles /\ IsFiniteSet(DayCandles)
  /\ \A t \in Trades, k \in DayCandles : k \in CandlesOf(t) <=> k = MinuteOf(t)
  /\ minute \in Int => \A t \in Trades : t.at <= minute => (t \in OfTheDay <=> MinuteOf(t) \in DayCandles)
<1>1. /\ 1 \in DOMAIN Resolutions /\ Resolutions[1] = 1
      /\ \A i \in DOMAIN Resolutions : Resolutions[i] \in Nat \ {0}
  BY MarketAssumption, HeadTailProperties, LenProperties, EmptySeq, ElementOfSeq
<1>2. ASSUME NEW at \in 0 .. LastMinute PROVE CandleAt(at, 1) = [width |-> 1, open |-> at]
  <2>1. at \in Int /\ at % 1 = 0
    BY MarketAssumption
  <2>2. at - (at % 1) = at
    BY <2>1
  <2> QED BY <2>2 DEF CandleAt, OpenTime
<1>3. \A at, width : CandleAt(at, width).width = width
  BY DEF CandleAt
<1>4. ASSUME NEW t \in Trades
      PROVE  /\ t.at \in 0 .. LastMinute /\ MinuteOf(t) = CandleAt(t.at, 1)
             /\ MinuteOf(t) \in CandlesOf(t) /\ MinuteOf(t) \in Candles
             /\ \A k \in CandlesOf(t) : k.width = 1 => k = MinuteOf(t)
  <2>1. t.at \in 0 .. LastMinute
    BY TradeTyped
  <2>2. MinuteOf(t) = CandleAt(t.at, 1)
    BY <1>2, <2>1 DEF MinuteOf
  <2>3. MinuteOf(t) \in CandlesOf(t)
    BY <1>1, <2>2 DEF CandlesOf
  <2>4. ASSUME NEW k \in CandlesOf(t), k.width = 1 PROVE k = MinuteOf(t)
    <3>1. PICK i \in DOMAIN Resolutions : k = CandleAt(t.at, Resolutions[i])
      BY DEF CandlesOf
    <3> QED BY <1>3, <2>2, <2>4, <3>1
  <2> QED BY <2>1, <2>2, <2>3, <2>4, CandlesDiffer
<1>5. DayCandles \subseteq Candles /\ \A k \in DayCandles : k.width = 1
  BY DEF DayCandles
<1>6. IsFiniteSet(DayCandles)
  <2> DEFINE f == [at \in 0 .. LastMinute |-> CandleAt(at, 1)]
  <2>1. IsFiniteSet(0 .. LastMinute)
    BY MarketAssumption, FS_Interval
  <2>2. IsFiniteSet({CandleAt(at, 1) : at \in 0 .. LastMinute})
    <3>1. f \in Surjection(0 .. LastMinute, {CandleAt(at, 1) : at \in 0 .. LastMinute})
      BY DEF Surjection
    <3> QED BY <2>1, <3>1, FS_Surjection
  <2>3. DayCandles \subseteq {CandleAt(at, 1) : at \in 0 .. LastMinute}
    BY <1>3, <1>5 DEF Candles
  <2> QED BY <2>2, <2>3, FS_Subset
<1>7. ASSUME NEW t \in Trades, NEW k \in DayCandles PROVE k \in CandlesOf(t) <=> k = MinuteOf(t)
  BY <1>4, <1>5
<1>8. ASSUME minute \in Int, NEW t \in Trades, t.at <= minute PROVE t \in OfTheDay <=> MinuteOf(t) \in DayCandles
  <2>1. MinuteOf(t) \in Candles /\ MinuteOf(t).width = 1 /\ MinuteOf(t).open = t.at
    BY <1>4 DEF MinuteOf
  <2> QED BY <1>8, <2>1 DEF OfTheDay, DayCandles
<1> QED BY <1>5, <1>6, <1>7, <1>8

LEMMA VolumeInt == \A s \in TradeLists : Volume(s) \in Int
<1>1. ASSUME NEW s \in TradeLists PROVE Volume(s) \in Int
  <2>1. CandleFrom(s) \in Cells /\ CandleFrom(s).volume = Volume(s)
    BY CandleTyped
  <2> QED BY <2>1, CellVolume
<1> QED BY <1>1

\* The volume of the day is that of its minutes.
LEMMA DayVolume ==
  ASSUME MarketInv
  PROVE  SumFunctionOnSet([k \in DayCandles |-> Volume(TradesIn(k, recorded))], DayCandles)
           = Volume(Among(OfTheDay, recorded))
<1> DEFINE by(s) == [k \in DayCandles |-> Volume(TradesIn(k, s))]
           Good == {s \in TradeLists : (\A t \in Elements(s) : t.at <= minute) =>
                      SumFunctionOnSet(by(s), DayCandles) = Volume(Among(OfTheDay, s))}
<1>1. minute \in Int /\ recorded \in TradeLists /\ \A t \in Elements(recorded) : t.at <= minute
  BY DEF MarketInv, MarketTyped
<1>2. IsFiniteSet(DayCandles)
  BY DayIs
<1>3. <<>> \in Good
  <2>1. \A k \in DayCandles : by(<<>>)[k] = 0
    BY TradesInLaws, VolumeNone
  <2>2. SumFunctionOnSet(by(<<>>), DayCandles) = 0
    <3>1. PICK f : f = by(<<>>)
      OBVIOUS
    <3>2. \A k \in DayCandles : f[k] = 0
      BY <2>1, <3>1
    <3>3. SumFunctionOnSet(f, DayCandles) = 0
      BY <1>2, <3>2, SumZero
    <3> QED BY <3>1, <3>3
  <2> QED BY <2>2, NoneIsAList, AmongNone, VolumeNone
<1>4. ASSUME NEW s \in TradeLists, NEW t \in Trades, s \in Good PROVE Append(s, t) \in Good
  <2>1. PICK u \in TradeLists : u = Append(s, t)
    BY AppendProperties DEF TradeLists
  <2>2. Elements(u) = Elements(s) \cup {t}
    BY <2>1, ElementsAppend DEF TradeLists
  <2>3. SUFFICES ASSUME \A e \in Elements(u) : e.at <= minute
                 PROVE  SumFunctionOnSet(by(u), DayCandles) = Volume(Among(OfTheDay, u))
    BY <2>1
  <2>4. SumFunctionOnSet(by(s), DayCandles) = Volume(Among(OfTheDay, s)) /\ t.at <= minute
    BY <1>4, <2>2, <2>3
  <2>5. PICK v, w : v = by(u) /\ w = by(s)
    OBVIOUS
  <2>6. PICK a \in TradeLists : a = Among(OfTheDay, s)
    BY AmongInSeq DEF TradeLists
  <2>7. Among(OfTheDay, u) = IF t \in OfTheDay THEN Append(a, t) ELSE a
    BY <2>1, <2>6, AmongAppend DEF TradeLists
  <2>8. ASSUME NEW k \in DayCandles
        PROVE  /\ v[k] \in Int /\ w[k] \in Int
               /\ k = MinuteOf(t) => v[k] = w[k] + t.quantity
               /\ k # MinuteOf(t) => v[k] = w[k]
    <3>1. PICK b \in TradeLists : b = TradesIn(k, s)
      BY TradesInLaws
    <3>2. TradesIn(k, u) = IF k = MinuteOf(t) THEN Append(b, t) ELSE b
      <4>1. TradesIn(k, Append(s, t)) = IF k \in CandlesOf(t) THEN Append(TradesIn(k, s), t) ELSE TradesIn(k, s)
        BY TradesInLaws
      <4>2. k \in CandlesOf(t) <=> k = MinuteOf(t)
        BY DayIs
      <4> QED BY <2>1, <3>1, <4>1, <4>2
    <3>3. Volume(b) \in Int /\ Volume(Append(b, t)) = Volume(b) + t.quantity /\ Volume(TradesIn(k, u)) \in Int
      <4>1. TradesIn(k, u) \in TradeLists
        BY TradesInLaws
      <4> QED BY <4>1, VolumeAppend, VolumeInt
    <3>4. v[k] = Volume(TradesIn(k, u)) /\ w[k] = Volume(b)
      BY <2>5, <3>1
    <3> QED BY <3>2, <3>3, <3>4
  <2>9. t \in OfTheDay <=> MinuteOf(t) \in DayCandles
    BY <1>1, <2>4, DayIs
  <2>10. SumFunctionOnSet(w, DayCandles) = Volume(a) /\ Volume(a) \in Int
    BY <2>4, <2>5, <2>6, VolumeInt
  <2> HIDE DEF by
  <2>11. CASE t \in OfTheDay
    <3>1. PICK j \in DayCandles : j = MinuteOf(t)
      BY <2>9, <2>11
    <3>2. \A k \in DayCandles : v[k] \in Int /\ w[k] \in Int
      BY <2>8
    <3>3. v[j] = w[j] + t.quantity /\ \A k \in DayCandles \ {j} : v[k] = w[k]
      BY <2>8, <3>1
    <3>4. SumFunctionOnSet(v, DayCandles) = SumFunctionOnSet(w, DayCandles) + v[j] - w[j]
      BY <1>2, <3>2, <3>3, SumChange
    <3>5. t.quantity \in Int /\ v[j] \in Int /\ w[j] \in Int
      BY <3>2, TradeTyped
    <3>6. SumFunctionOnSet(v, DayCandles) = Volume(a) + t.quantity
      BY <2>10, <3>3, <3>4, <3>5
    <3> QED BY <2>5, <2>7, <2>11, <3>6, VolumeAppend
  <2>12. CASE t \notin OfTheDay
    <3>1. \A k \in DayCandles : v[k] = w[k]
      BY <2>8, <2>9, <2>12
    <3>2. SumFunctionOnSet(v, DayCandles) = SumFunctionOnSet(w, DayCandles)
      BY <1>2, <3>1, SumSame
    <3> QED BY <2>5, <2>7, <2>10, <2>12, <3>2
  <2> QED BY <2>11, <2>12
<1>5. Seq(Trades) \subseteq Good
  <2> HIDE DEF Good
  <2> QED BY <1>3, <1>4, ListClimb DEF TradeLists
<1> QED BY <1>1, <1>5 DEF TradeLists

LEMMA DayTrades ==
  ASSUME MarketInv, NEW k \in DayCandles
  PROVE  Elements(TradesIn(k, recorded)) = {t \in Elements(Among(OfTheDay, recorded)) : k = MinuteOf(t)}
<1>1. /\ recorded \in Seq(Trades) /\ minute \in Int
      /\ \A t \in Elements(recorded) : t \in Trades /\ t.at <= minute
  BY NoElements DEF MarketInv, MarketTyped, TradeLists
<1>2. Elements(TradesIn(k, recorded)) = {t \in Elements(recorded) : k \in CandlesOf(t)}
  BY <1>1, TradesInLaws DEF TradeLists
<1>3. Elements(Among(OfTheDay, recorded)) = Elements(recorded) \cap OfTheDay
  BY <1>1, AmongElements
<1>4. \A t \in Elements(recorded) : k \in CandlesOf(t) <=> t \in OfTheDay /\ k = MinuteOf(t)
  BY <1>1, DayIs
<1> QED BY <1>2, <1>3, <1>4

LEMMA TickerShows ==
  ASSUME MarketInv
  PROVE  TickerIsTrades
<1>1. SUFFICES ASSUME \A k \in DayCandles : k \notin mixed /\ ~Recording(k)
               PROVE  /\ Ticker.volume = CandleFrom(Among(OfTheDay, recorded)).volume
                      /\ Among(OfTheDay, recorded) # <<>> =>
                           /\ Ticker.high = CandleFrom(Among(OfTheDay, recorded)).high
                           /\ Ticker.low = CandleFrom(Among(OfTheDay, recorded)).low
  BY DEF TickerIsTrades, OfTheDay
<1>2. recorded \in TradeLists /\ minute \in Int /\ \A t \in Elements(recorded) : t \in Trades /\ t.at <= minute
  BY NoElements DEF MarketInv, MarketTyped, TradeLists
<1>3. PICK day \in TradeLists : day = Among(OfTheDay, recorded)
  BY <1>2, AmongInSeq DEF TradeLists
<1> DEFINE there == {k \in DayCandles : cached[k] # NoCandle}
<1>4. /\ Ticker.volume = SumFunction([k \in there |-> cached[k].volume])
      /\ there # {} => /\ Ticker.high = Max({cached[k].high : k \in there})
                       /\ Ticker.low = Min({cached[k].low : k \in there})
  BY DEF Ticker
<1>5. ASSUME NEW k \in DayCandles
      PROVE  /\ TradesIn(k, recorded) \in TradeLists /\ cached[k] = CandleFrom(TradesIn(k, recorded))
             /\ k \in there <=> TradesIn(k, recorded) # <<>>
             /\ cached[k].volume = Volume(TradesIn(k, recorded))
             /\ k \notin there => Volume(TradesIn(k, recorded)) = 0
             /\ k \in there => Shows(cached[k], TradesIn(k, recorded))
  <2>1. cached[k] = CandleNow(k) /\ TradesIn(k, recorded) \in TradeLists
    BY <1>1, <1>2, CacheIsNow, DayIs, TradesInLaws
  <2>2. PICK s \in TradeLists : s = TradesIn(k, recorded) /\ cached[k] = CandleFrom(s)
    BY <2>1 DEF CandleNow
  <2>3. CandleFrom(s).volume = Volume(s) /\ (CandleFrom(s) = NoCandle <=> s = <<>>) /\ (s # <<>> => Shows(CandleFrom(s), s))
    BY CandleTyped, CandleShows
  <2>4. k \in there <=> s # <<>>
    BY <2>2, <2>3
  <2>5. k \notin there => Volume(s) = 0
    BY <2>4, VolumeNone
  <2> QED BY <2>2, <2>3, <2>4, <2>5
<1>6. Ticker.volume = CandleFrom(day).volume
  <2>1. PICK v, w : /\ v = [k \in DayCandles |-> Volume(TradesIn(k, recorded))]
                    /\ w = [k \in there |-> cached[k].volume]
    OBVIOUS
  <2>2. /\ \A k \in DayCandles : v[k] \in Int
        /\ \A k \in there : w[k] = v[k]
        /\ \A k \in DayCandles \ there : v[k] = 0
    BY <1>5, <2>1, VolumeInt
  <2>3. SumFunction(w) = SumFunctionOnSet(w, there)
    BY <2>1 DEF SumFunction
  <2>4. there \subseteq DayCandles
    OBVIOUS
  <2> HIDE DEF there
  <2>5. SumFunctionOnSet(w, there) = SumFunctionOnSet(v, DayCandles)
    BY <2>2, <2>4, DayIs, SumRestricted
  <2>6. SumFunctionOnSet(v, DayCandles) = Volume(day)
    BY <1>3, <2>1, DayVolume
  <2> QED BY <1>4, <2>1, <2>3, <2>5, <2>6, CandleTyped
<1>7. ASSUME day # <<>> PROVE Ticker.high = CandleFrom(day).high /\ Ticker.low = CandleFrom(day).low
  <2>1. PICK c : c = CandleFrom(day) /\ Shows(c, day)
    BY <1>7, CandleShows
  <2>2. c.high \in PricesOf(day) /\ c.low \in PricesOf(day) /\ PricesOf(day) \subseteq Nat
        /\ \A p \in PricesOf(day) : c.low <= p /\ p <= c.high
    BY <2>1, ListParts DEF Shows
  <2>3. ASSUME NEW k \in there
        PROVE  /\ cached[k].high \in PricesOf(day) /\ cached[k].low \in PricesOf(day)
               /\ \A t \in Elements(day) : k = MinuteOf(t) => cached[k].low <= t.price /\ t.price <= cached[k].high
    <3>1. Elements(TradesIn(k, recorded)) = {t \in Elements(day) : k = MinuteOf(t)}
      BY <1>3, DayTrades
    <3>2. Shows(cached[k], TradesIn(k, recorded))
      BY <1>5
    <3>3. PricesOf(TradesIn(k, recorded)) = {t.price : t \in {e \in Elements(day) : k = MinuteOf(e)}}
      BY <3>1 DEF PricesOf
    <3>4. PricesOf(TradesIn(k, recorded)) \subseteq PricesOf(day)
      BY <3>3 DEF PricesOf
    <3> QED BY <3>2, <3>3, <3>4 DEF Shows
  <2>4. ASSUME NEW t \in Elements(day) PROVE MinuteOf(t) \in there
    <3>1. t \in Elements(recorded) /\ t \in OfTheDay
      BY <1>2, <1>3, AmongElements DEF TradeLists
    <3>2. MinuteOf(t) \in DayCandles
      BY <1>2, <3>1, DayIs
    <3>3. t \in Elements(TradesIn(MinuteOf(t), recorded))
      BY <1>3, <3>2, DayTrades
    <3>4. TradesIn(MinuteOf(t), recorded) # <<>>
      BY <3>3, ElementsNone
    <3> QED BY <1>5, <3>2, <3>4
  <2>5. ASSUME NEW t \in Elements(day), t.price = c.high PROVE cached[MinuteOf(t)].high = c.high
    <3>1. MinuteOf(t) \in there
      BY <2>4
    <3>2. cached[MinuteOf(t)].high \in PricesOf(day) /\ t.price <= cached[MinuteOf(t)].high
      BY <2>3, <3>1
    <3>3. cached[MinuteOf(t)].high \in Nat /\ c.high \in Nat /\ cached[MinuteOf(t)].high <= c.high
      BY <2>2, <3>2
    <3> QED BY <2>5, <3>2, <3>3
  <2>6. ASSUME NEW t \in Elements(day), t.price = c.low PROVE cached[MinuteOf(t)].low = c.low
    <3>1. MinuteOf(t) \in there
      BY <2>4
    <3>2. cached[MinuteOf(t)].low \in PricesOf(day) /\ cached[MinuteOf(t)].low <= t.price
      BY <2>3, <3>1
    <3>3. cached[MinuteOf(t)].low \in Nat /\ c.low \in Nat /\ c.low <= cached[MinuteOf(t)].low
      BY <2>2, <3>2
    <3> QED BY <2>6, <3>2, <3>3
  <2>7. PICK dear \in Elements(day), cheap \in Elements(day) : dear.price = c.high /\ cheap.price = c.low
    BY <2>2 DEF PricesOf
  <2>8. MinuteOf(dear) \in there /\ MinuteOf(cheap) \in there /\ there # {}
    BY <2>4, <2>7
  <2>9. PICK highs, lows : highs = {cached[k].high : k \in there} /\ lows = {cached[k].low : k \in there}
    OBVIOUS
  <2>10. /\ highs \subseteq Int /\ c.high \in highs /\ \A x \in highs : x <= c.high
    BY <2>2, <2>3, <2>5, <2>7, <2>8, <2>9
  <2>11. /\ lows \subseteq Int /\ c.low \in lows /\ \A x \in lows : c.low <= x
    BY <2>2, <2>3, <2>6, <2>7, <2>8, <2>9
  <2>12. Max(highs) = c.high /\ Min(lows) = c.low
    BY <2>10, <2>11, MaxIs, MinIs
  <2> QED BY <1>4, <2>1, <2>8, <2>9, <2>12
<1> QED BY <1>3, <1>6, <1>7

\* Rows, cache, chart and ticker hold the trades that were recorded: whatever
\* the backends' crons and recordTrade calls do between each other's commands,
\* a row is the candle of the trades that have left the list and the crons, a
\* cached candle no recordTrade is in is the candle of all of them, none counts
\* more than there was, and a ticker sums its day, but for the candles two
\* crons or two calls were in at once, or one gave up in.
THEOREM CandlesHold == MarketSpec => []CandlesHoldTrades
<1>1. MarketInv => CandlesHoldTrades
  BY RowsShow, CacheShows, TickerShows DEF CandlesHoldTrades
<1> QED BY <1>1, MarketAlways, PTL
==============================================================================
