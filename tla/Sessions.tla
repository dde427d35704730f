------------------------------- MODULE Sessions -------------------------------
(***************************************************************************)
(* Accounts and their sessions: one-time codes, registration and the logins*)
(* (AuthService, OtpService, Web3AuthService), the pair of tokens each of  *)
(* them issues, its rotation and its revocation (TokenService), and the    *)
(* challenges of MfaService.  A request is a chain of statements.          *)
(*                                                                         *)
(* A refresh token is what its signature covers: the user, the device and  *)
(* the second it was signed in, so that two tokens signed within a second  *)
(* are one.  A login without a device signs a random device that no        *)
(* session is stored for: NoDevice.                                        *)
(***************************************************************************)
EXTENDS Naturals, FiniteSets

CONSTANTS
  Members,       \* e-mail addresses, and wallets that log in by signature
  WalletMembers, \* the wallets among them
  Gadgets,       \* device ids
  NoDevice, NoToken, NoCode, \* model values
  AuthRequests,  \* requests in progress at a time
  MaxSeconds, MaxCodes, MaxNonces, MaxChallenges, MaxAuthFailures \* bounds

ASSUME SessionsAssumption ==
  /\ WalletMembers \subseteq Members /\ NoDevice \notin Gadgets
  /\ MaxSeconds \in Nat /\ MaxCodes \in Nat /\ MaxAuthFailures \in Nat
  /\ NoToken \notin [user : Members, device : Gadgets \cup {NoDevice}, second : 0 .. MaxSeconds]

VARIABLES
  account,     \* User.status, "none" when there is no row
  tokenOf,     \* User.refreshTokenHash
  sessions,    \* table DeviceSession: the token of each user's device
  cashRows,    \* cash balance rows of each user
  signed,      \* refresh tokens there are
  otp,         \* table Otp
  registerTokens, \* addresses with a register token
  nonces, nonceOf, \* nonces in Redis, by themselves and by address
  challenges,  \* challenges in Redis
  request,     \* what each request carries
  second, codes, nonceCount, challengeCount, authFailures, \* counters
  loggedOut,   \* history: users that logged out, no request being under way, and stayed so
  crossed,     \* history: users with two pairs issued at once, or half a pair, since the last whole one
  spent,       \* history: how often each code was accepted
  replaced     \* history: codes replaced while a request had accepted them

accountRows == <<account, cashRows>>
tokenRows == <<tokenOf, sessions, signed>>
otpRows == <<otp, registerTokens, codes, spent, replaced>>
nonceKeys == <<nonces, nonceOf, nonceCount>>
challengeKeys == <<challenges, challengeCount>>
authClock == <<second, authFailures>>
sessionHistory == <<loggedOut, crossed>>
authVars == <<accountRows, tokenRows, otpRows, nonceKeys, challengeKeys, request, authClock,
              sessionHistory>>

AuthIdle == [step |-> "idle"]
Devices == Gadgets \cup {NoDevice}
Tokens == [user : Members, device : Devices, second : 0 .. MaxSeconds]

AuthInitWith(registered) ==
  /\ account = [u \in Members |-> IF u \in registered THEN "ACTIVE" ELSE "none"]
  /\ cashRows = [u \in Members |-> IF u \in registered THEN 1 ELSE 0]
  /\ tokenOf = [u \in Members |-> NoToken]
  /\ sessions = [u \in Members |-> [d \in Gadgets |-> NoToken]]
  /\ signed = {} /\ otp = [u \in Members |-> NoCode] /\ registerTokens = {}
  /\ nonces = {} /\ nonceOf = [u \in Members |-> 0] /\ challenges = {}
  /\ request = [q \in AuthRequests |-> AuthIdle]
  /\ second = 0 /\ codes = 0 /\ nonceCount = 0 /\ challengeCount = 0 /\ authFailures = 0
  /\ loggedOut = {} /\ crossed = {}
  /\ spent = [c \in 1 .. MaxCodes |-> 0] /\ replaced = {}

AuthInit == AuthInitWith({})

Serves(q, next) == request' = [request EXCEPT ![q] = next]
Ends(q) == Serves(q, AuthIdle)
Starts(q, next) == request[q] = AuthIdle /\ Serves(q, next)

\* Another request is storing a pair of tokens of the user.
Storing(u, q) ==
  \E p \in AuthRequests \ {q} : request[p].step \in {"storeUser", "storeSession"} /\ request[p].user = u

------------------------------------------------------------------------------
(***************************************************************************)
(* OtpService                                                              *)
(***************************************************************************)
otpUnchanged == <<accountRows, tokenRows, nonceKeys, challengeKeys, authClock, sessionHistory>>

Usable(u) == otp[u] # NoCode /\ otp[u].alive

\* requestOtp: a code younger than a minute refuses a new one.
ReadForOtp(q, u) ==
  /\ u \notin WalletMembers
  /\ ~(Usable(u) /\ otp[u].fresh)
  /\ Starts(q, [step |-> "storeOtp", user |-> u])
  /\ UNCHANGED <<otpUnchanged, otpRows>>

Accepted(u) ==
  {request[q].code : q \in {p \in AuthRequests : request[p].step = "deleteOtp" /\ request[p].user = u}}

StoreOtp(q) ==
  LET u == request[q].user
  IN  /\ request[q].step = "storeOtp" /\ codes < MaxCodes
      /\ codes' = codes + 1
      /\ otp' = [otp EXCEPT ![u] = [code |-> codes + 1, fresh |-> TRUE, alive |-> TRUE]]
      /\ replaced' = replaced \cup Accepted(u)
      /\ Ends(q)
      /\ UNCHANGED <<otpUnchanged, registerTokens, spent>>

\* A minute passes, and five.
OtpAges(u) ==
  /\ Usable(u)
  /\ \/ otp[u].fresh /\ otp' = [otp EXCEPT ![u].fresh = FALSE]
     \/ ~otp[u].fresh /\ otp' = [otp EXCEPT ![u].alive = FALSE]
  /\ UNCHANGED <<otpUnchanged, request, registerTokens, codes, spent, replaced>>

\* AuthCleanupCron
CleanUp ==
  /\ \E u \in Members : otp[u] # NoCode /\ ~otp[u].alive
  /\ otp' = [u \in Members |-> IF Usable(u) THEN otp[u] ELSE NoCode]
  /\ UNCHANGED <<otpUnchanged, request, registerTokens, codes, spent, replaced>>

\* verifyOtp, to register or for a reset or another purpose.
ReadOtp(q, u, register) ==
  /\ Usable(u) /\ (register => account[u] = "none")
  /\ Starts(q, [step |-> "deleteOtp", user |-> u, code |-> otp[u].code,
                register |-> register, challenge |-> 0])
  /\ UNCHANGED <<otpUnchanged, otpRows>>

\* delete throws when the row is gone; it takes the row of the address,
\* whatever code is in it by now.
DeleteOtp(q) ==
  LET r == request[q]
  IN  /\ r.step = "deleteOtp"
      /\ IF otp[r.user] = NoCode
         THEN Ends(q) /\ UNCHANGED <<otp, spent, registerTokens>>
         ELSE /\ otp' = [otp EXCEPT ![r.user] = NoCode]
              /\ spent' = [spent EXCEPT ![r.code] = @ + 1]
              /\ registerTokens' = IF r.register THEN registerTokens \cup {r.user}
                                   ELSE registerTokens
              /\ IF r.challenge = 0 THEN Ends(q)
                 ELSE Serves(q, [step |-> "endChallenge", challenge |-> r.challenge])
      /\ UNCHANGED <<otpUnchanged, codes, replaced>>

------------------------------------------------------------------------------
(***************************************************************************)
(* MfaService: a challenge is looked up, a factor is checked, and the      *)
(* challenge is deleted.                                                   *)
(***************************************************************************)
challengeUnchanged == <<accountRows, tokenRows, nonceKeys, authClock, sessionHistory>>

CreateChallenge(u) ==
  /\ account[u] # "none" /\ challengeCount < MaxChallenges
  /\ challengeCount' = challengeCount + 1
  /\ challenges' = challenges \cup {[id |-> challengeCount + 1, user |-> u]}
  /\ UNCHANGED <<challengeUnchanged, otpRows, request>>

ChallengeExpires(c) ==
  /\ c \in challenges /\ challenges' = challenges \ {c}
  /\ UNCHANGED <<challengeUnchanged, otpRows, request, challengeCount>>

VerifyByCode(q, c) ==
  /\ c \in challenges /\ Usable(c.user)
  /\ Starts(q, [step |-> "deleteOtp", user |-> c.user, code |-> otp[c.user].code,
                register |-> FALSE, challenge |-> c.id])
  /\ UNCHANGED <<challengeUnchanged, challengeKeys, otpRows>>

VerifyByTotp(q, c) ==
  /\ c \in challenges
  /\ Starts(q, [step |-> "endChallenge", challenge |-> c.id])
  /\ UNCHANGED <<challengeUnchanged, challengeKeys, otpRows>>

EndChallenge(q) ==
  /\ request[q].step = "endChallenge"
  /\ challenges' = {c \in challenges : c.id # request[q].challenge}
  /\ Ends(q)
  /\ UNCHANGED <<challengeUnchanged, otpRows, challengeCount>>

------------------------------------------------------------------------------
(***************************************************************************)
(* Registration and logins, up to the issue of the tokens                  *)
(***************************************************************************)
loginUnchanged == <<tokenRows, otpRows, challengeKeys, authClock, crossed>>

LogsIn(u) == loggedOut' = loggedOut \ {u}
Signing(u, d) == [step |-> "sign", user |-> u, device |-> d]
Creating(u, d) == [step |-> "create", user |-> u, device |-> d]

\* register: a token that is still valid may be used again.
Register(q, u, d) ==
  /\ u \in registerTokens /\ account[u] = "none"
  /\ Starts(q, Creating(u, d)) /\ LogsIn(u)
  /\ UNCHANGED <<loginUnchanged, accountRows, nonceKeys>>

\* login: validateUser.
Login(q, u, d) ==
  /\ u \notin WalletMembers /\ account[u] = "ACTIVE"
  /\ Starts(q, Signing(u, d)) /\ LogsIn(u)
  /\ UNCHANGED <<loginUnchanged, accountRows, nonceKeys>>

\* findUnique, then the status: a user that is deleted is refused.
Found(q, u, d) ==
  CASE account[u] = "none"   -> Serves(q, Creating(u, d))
    [] account[u] = "ACTIVE" -> Serves(q, Signing(u, d))
    [] OTHER                 -> Ends(q)

\* loginWithSocial
LoginWithSocial(q, u, d) ==
  /\ u \notin WalletMembers /\ request[q] = AuthIdle
  /\ Found(q, u, d) /\ LogsIn(u)
  /\ UNCHANGED <<loginUnchanged, accountRows, nonceKeys>>

CreateWeb3Nonce(u, byAddress) ==
  /\ u \in WalletMembers /\ nonceCount < MaxNonces
  /\ nonceCount' = nonceCount + 1
  /\ nonces' = nonces \cup {nonceCount + 1}
  /\ nonceOf' = IF byAddress THEN [nonceOf EXCEPT ![u] = nonceCount + 1] ELSE nonceOf
  /\ UNCHANGED <<loginUnchanged, accountRows, request, loggedOut>>

\* verifySignature: the nonce of the address, or else the nonce itself.
MatchesNonce(u, n) == IF nonceOf[u] # 0 THEN nonceOf[u] = n ELSE n \in nonces

VerifySignature(q, u, n, d) ==
  /\ u \in WalletMembers /\ MatchesNonce(u, n)
  /\ Starts(q, [step |-> "deleteNonce", user |-> u, nonce |-> n, device |-> d]) /\ LogsIn(u)
  /\ UNCHANGED <<loginUnchanged, accountRows, nonceKeys>>

DeleteNonce(q) ==
  LET r == request[q]
  IN  /\ r.step = "deleteNonce"
      /\ nonces' = nonces \ {r.nonce} /\ nonceOf' = [nonceOf EXCEPT ![r.user] = 0]
      /\ Serves(q, [step |-> "find", user |-> r.user, device |-> r.device])
      /\ UNCHANGED <<loginUnchanged, accountRows, nonceCount, loggedOut>>

FindWallet(q) ==
  /\ request[q].step = "find" /\ Found(q, request[q].user, request[q].device)
  /\ UNCHANGED <<loginUnchanged, accountRows, nonceKeys, loggedOut>>

\* Mutant: a row that is there by now is taken as created.
UpsertUser(q) ==
  LET r == request[q]
  IN  /\ r.step = "create"
      /\ account' = [account EXCEPT ![r.user] = IF @ = "none" THEN "ACTIVE" ELSE @]
      /\ Serves(q, [r EXCEPT !.step = "findCash"])
      /\ UNCHANGED <<loginUnchanged, cashRows, nonceKeys, loggedOut>>

\* create throws when the row is there by now.
CreateUser(q) ==
  LET r == request[q]
  IN  /\ r.step = "create"
      /\ IF account[r.user] = "none"
         THEN /\ account' = [account EXCEPT ![r.user] = "ACTIVE"]
              /\ Serves(q, [r EXCEPT !.step = "findCash"])
         ELSE Ends(q) /\ UNCHANGED account
      /\ UNCHANGED <<loginUnchanged, cashRows, nonceKeys, loggedOut>>

\* ensureDefaultAccountAndBalance: no key keeps a user from two cash rows.
FindCash(q) ==
  LET r == request[q]
  IN  /\ r.step = "findCash"
      /\ Serves(q, [r EXCEPT !.step = IF cashRows[r.user] = 0 THEN "createCash" ELSE "sign"])
      /\ UNCHANGED <<loginUnchanged, accountRows, nonceKeys, loggedOut>>

CreateCash(q) ==
  LET r == request[q]
  IN  /\ r.step = "createCash"
      /\ cashRows' = [cashRows EXCEPT ![r.user] = @ + 1]
      /\ Serves(q, [r EXCEPT !.step = "sign"])
      /\ UNCHANGED <<loginUnchanged, account, nonceKeys, loggedOut>>

\* UsersService.softDeleteAccount
SoftDeleteAccount(u) ==
  /\ account[u] = "ACTIVE" /\ account' = [account EXCEPT ![u] = "DELETED"]
  /\ UNCHANGED <<loginUnchanged, cashRows, nonceKeys, request, loggedOut>>

------------------------------------------------------------------------------
(***************************************************************************)
(* TokenService                                                            *)
(***************************************************************************)
issueUnchanged == <<accountRows, otpRows, nonceKeys, challengeKeys, authClock>>

\* issueTokenPair
Sign(q) ==
  LET r == request[q]
      t == [user |-> r.user, device |-> r.device, second |-> second]
  IN  /\ r.step = "sign"
      /\ signed' = signed \cup {t}
      /\ Serves(q, [step |-> "storeUser", user |-> r.user, token |-> t])
      /\ crossed' = IF Storing(r.user, q) THEN crossed \cup {r.user} ELSE crossed
      /\ UNCHANGED <<issueUnchanged, tokenOf, sessions, loggedOut>>

StoreUser(q) ==
  LET r == request[q]
  IN  /\ r.step = "storeUser"
      /\ tokenOf' = [tokenOf EXCEPT ![r.user] = r.token]
      /\ IF r.token.device = NoDevice THEN Ends(q) ELSE Serves(q, [r EXCEPT !.step = "storeSession"])
      /\ crossed' = IF Storing(r.user, q) THEN crossed ELSE crossed \ {r.user}
      /\ UNCHANGED <<issueUnchanged, sessions, signed, loggedOut>>

StoreSession(q) ==
  LET r == request[q]
  IN  /\ r.step = "storeSession"
      /\ sessions' = [sessions EXCEPT ![r.user][r.token.device] = r.token]
      /\ Ends(q)
      /\ UNCHANGED <<issueUnchanged, tokenOf, signed, sessionHistory>>

\* Mutant: the token of the user's row is not compared.
RefreshesActive(t) == account[t.user] = "ACTIVE"

\* refreshAccessToken: the token must be the user's, then the device's; the
\* pair is issued for that device.
Refreshes(t) == account[t.user] = "ACTIVE" /\ tokenOf[t.user] = t

Refresh(q, t) ==
  /\ t \in signed /\ Refreshes(t)
  /\ Starts(q, [step |-> "readSession", user |-> t.user, token |-> t])
  /\ UNCHANGED <<issueUnchanged, tokenRows, sessionHistory>>

SessionMatches(t) == t.device # NoDevice /\ sessions[t.user][t.device] = t

ReadSession(q) ==
  LET t == request[q].token
  IN  /\ request[q].step = "readSession"
      /\ IF SessionMatches(t) THEN Serves(q, Signing(t.user, t.device)) ELSE Ends(q)
      /\ UNCHANGED <<issueUnchanged, tokenRows, sessionHistory>>

UnderWay(u) == \E q \in AuthRequests : "user" \in DOMAIN request[q] /\ request[q].user = u

\* logout: revokeRefreshTokenByToken takes any token that is still valid.
Logout(t) ==
  /\ t \in signed
  /\ tokenOf' = [tokenOf EXCEPT ![t.user] = NoToken]
  /\ loggedOut' = IF UnderWay(t.user) THEN loggedOut ELSE loggedOut \cup {t.user}
  /\ UNCHANGED <<issueUnchanged, sessions, signed, request, crossed>>

------------------------------------------------------------------------------
NextSecond ==
  /\ second < MaxSeconds /\ second' = second + 1
  /\ UNCHANGED <<accountRows, tokenRows, otpRows, nonceKeys, challengeKeys, request, authFailures,
                 sessionHistory>>

\* A request throws, or its backend restarts, between two statements; what it
\* was issuing may be half stored.
RequestThrows(q) ==
  /\ request[q] # AuthIdle
  /\ authFailures < MaxAuthFailures /\ authFailures' = authFailures + 1
  /\ crossed' = IF request[q].step = "storeSession" THEN crossed \cup {request[q].user} ELSE crossed
  /\ Ends(q)
  /\ UNCHANGED <<accountRows, tokenRows, otpRows, nonceKeys, challengeKeys, second, loggedOut>>

OtpNext ==
  \/ CleanUp
  \/ \E u \in Members :
       \/ OtpAges(u) \/ CreateChallenge(u)
       \/ \E q \in AuthRequests : ReadForOtp(q, u) \/ \E b \in BOOLEAN : ReadOtp(q, u, b)
  \/ \E q \in AuthRequests : StoreOtp(q) \/ DeleteOtp(q) \/ EndChallenge(q)
  \/ \E c \in challenges :
       ChallengeExpires(c) \/ \E q \in AuthRequests : VerifyByCode(q, c) \/ VerifyByTotp(q, c)

LoginBy(u, D) ==
  \/ SoftDeleteAccount(u) \/ \E b \in BOOLEAN : CreateWeb3Nonce(u, b)
  \/ \E q \in AuthRequests, d \in D :
       \/ Register(q, u, d) \/ Login(q, u, d) \/ LoginWithSocial(q, u, d)
       \/ \E n \in 1 .. nonceCount : VerifySignature(q, u, n, d)

AccountStep ==
  \E q \in AuthRequests :
    DeleteNonce(q) \/ FindWallet(q) \/ CreateUser(q) \/ FindCash(q) \/ CreateCash(q)

LoginNext == AccountStep \/ \E u \in Members : LoginBy(u, Devices)

IssueStep == \E q \in AuthRequests : Sign(q) \/ StoreUser(q) \/ StoreSession(q) \/ ReadSession(q)

RotationNext == \E t \in signed : Logout(t) \/ \E q \in AuthRequests : Refresh(q, t)

AuthThrows == \E q \in AuthRequests : RequestThrows(q)

AuthNext == OtpNext \/ LoginNext \/ IssueStep \/ RotationNext \/ NextSecond \/ AuthThrows

AuthSpec == AuthInit /\ [][AuthNext]_authVars

------------------------------------------------------------------------------
\* The token a user's row holds is the one of the session of its device, so
\* that it can be refreshed, once no request is storing a pair; a login from
\* another device, which takes the row over, included.  Two pairs that were
\* issued at once may leave the row and the session apart, and so does a pair
\* whose request threw when it had stored only the half of it.
LatestRefreshes ==
  \A u \in Members \ crossed :
    tokenOf[u] # NoToken /\ tokenOf[u].device # NoDevice
      => \/ SessionMatches(tokenOf[u])
         \/ \E q \in AuthRequests : request[q].step = "storeSession" /\ request[q].user = u

\* After a logout no token of the user is refreshed, unless a request was under
\* way when it came: the sessions of the devices stay, only the row is cleared.
LoggedOutStaysOut ==
  \A u \in loggedOut :
    /\ tokenOf[u] = NoToken
    /\ \A q \in AuthRequests : ~(request[q].step \in {"sign", "storeUser", "storeSession"} /\ request[q].user = u)

SessionsHold == LatestRefreshes /\ LoggedOutStaysOut

\* A code is accepted once, by registration, reset or challenge, however many
\* requests read it at once, unless it is replaced between a request's reading
\* and deleting; and an address is registered with one cash row.
RegisteredOnce ==
  /\ \A c \in 1 .. MaxCodes : spent[c] <= 1 \/ c \in replaced
  /\ \A u \in Members : cashRows[u] <= 1
==============================================================================
