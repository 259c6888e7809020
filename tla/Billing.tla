------------------------------ MODULE Billing ------------------------------
(***************************************************************************)
(* Sessions and charging in the pkv server: CreateSession turns a quota    *)
(* JWT of the payment exchange into a session with a balance in Redis, and *)
(* the session interceptor deducts the price of every other call from that *)
(* balance before the call is validated and handled.  Each Redis command   *)
(* is one step; between two steps of a call other calls run, the clock     *)
(* moves, the server restarts or Redis loses its data.                     *)
(*                                                                         *)
(* Code: pkg/middleware/{session,interceptor,pricing,auth}.go and          *)
(* internal/api/login.go.                                                  *)
(***************************************************************************)
EXTENDS Integers

CONSTANTS
  Calls,        \* slots for calls in progress; a slot is reused after its call
  Jtis,         \* ids ("jti") of the quota JWTs
  Wallet,       \* the JWTs clients hold that CreateSession did not issue
  Requests,     \* the calls clients make, other than CreateSession
  MaxTime,      \* bound: the last instant of the clock
  MaxRestarts,  \* bound: how often the server restarts
  MaxLosses,    \* bound: how often Redis loses its data
  MaxRetries,   \* how often go-redis repeats a command that got no reply
  MinInt64      \* the least value a Redis counter holds

NoExp == -1     \* the "exp" of a JWT that has none

Usages == {"UNSPECIFIED", "CREATE_SESSION", "MANAGE_SESSION"}

Salts == 0..MaxRestarts       \* a fresh salt for every start of the server

SessionIds == Salts \X Jtis

NoSubject == <<-1, "none">>   \* the "sub" of a JWT that names no session
NoJti     == "none"

Jwts == [alg: {"HS256", "EdDSA"}, trusted: BOOLEAN, usage: Usages,
         jti: Jtis \cup {NoJti}, sub: SessionIds \cup {NoSubject},
         quantity: Int, exp: Int]

\* The procedures of KvStoreService, CreateSession aside.
Procedures == {"Ping", "SearchCid", "SearchInstance", "DelegatedRouting",
               "RegisterInstance", "CreateValue", "GetValue", "ProlongValue",
               "CreateStreamValue", "ListStreamValues", "GetStreamValue"}

\* A request: what its price depends on, and whether it passes validation.
AllRequests == [proc: Procedures, size: Int, valid: BOOLEAN]

IsQuotaJwt(t) == t.alg = "EdDSA" /\ t.trusted

IsSessionJwt(t) == t.alg = "HS256" /\ t.trusted /\ t.usage = "MANAGE_SESSION"

\* A JWT in the wallet is no session JWT: only CreateSession signs those with
\* the server's secret (genjwt signs with it too, but sets no usage).  The
\* payment exchange gives each of its JWTs an id.
ASSUME BillingAssumption ==
  /\ MaxTime \in Nat /\ MaxRestarts \in Nat /\ MaxLosses \in Nat
  /\ MaxRetries \in Nat /\ MinInt64 \in Int
  /\ Wallet \subseteq Jwts
  /\ \A t \in Wallet : ~IsSessionJwt(t) /\ (IsQuotaJwt(t) => t.jti \in Jtis)
  /\ Requests \subseteq AllRequests

VARIABLES
  now,       \* the server's clock
  salt,      \* sessionSalt of the running server: how often it restarted
  live,      \* the session keys that exist in Redis
  balance,   \* their values; 0 for a key that does not exist
  issued,    \* the session JWTs clients have received
  calls,     \* the calls in progress, and how the last call of a slot ended
  losses,    \* how often Redis lost its data
  credited,  \* history: the quota ever credited to a session
  credits,   \* history: how often a quota jti was credited to some session
  accepted,  \* history: the price of the calls let through to a handler
  clean      \* history: the sessions no fault has touched

vars == <<now, salt, live, balance, issued, calls, losses,
          credited, credits, accepted, clean>>

redis   == <<live, balance>>
history == <<credited, credits, accepted, clean>>

NoJwt == [alg |-> "EdDSA", trusted |-> FALSE, usage |-> "UNSPECIFIED",
          jti |-> NoJti, sub |-> NoSubject, quantity |-> 0, exp |-> NoExp]

NoRequest == [proc |-> "Ping", size |-> 0, valid |-> FALSE]

PCs == {"idle", "expiry", "credit", "charge", "serve"}

\* How a call ends: with a session, served, with an error of whatever code, by
\* a panic of its handler; "none" before the first call and after a restart.
Outcomes == {"none", "session", "served", "refused", "panic"}

\* A call: where it is, the JWT it presents, its request, how often its Redis
\* command was repeated; once idle again, how it ended, and the balance a
\* CreateSession reply showed.
CallRecords == [pc: PCs, jwt: Jwts, req: AllRequests, tries: 0..MaxRetries,
                out: Outcomes, shown: Int]

Idle(out, shown) ==
  [pc |-> "idle", jwt |-> NoJwt, req |-> NoRequest, tries |-> 0,
   out |-> out, shown |-> shown]

At(pc, t, r) ==
  [pc |-> pc, jwt |-> t, req |-> r, tries |-> 0, out |-> "none", shown |-> 0]

Init ==
  /\ now = 0 /\ salt = 0 /\ losses = 0
  /\ live = {} /\ balance = [s \in SessionIds |-> 0]
  /\ issued = {}
  /\ calls = [c \in Calls |-> Idle("none", 0)]
  /\ credited = [s \in SessionIds |-> 0]
  /\ credits  = [j \in Jtis |-> 0]
  /\ accepted = [s \in SessionIds |-> 0]
  /\ clean = SessionIds

Become(c, r) == calls' = [calls EXCEPT ![c] = r]

End(c, out) == Become(c, Idle(out, 0))

-----------------------------------------------------------------------------
(* JWTs                                                                    *)

\* VerifyAndParseJwt: with isSelf an HS256 signature by this server, otherwise
\* an Ed25519 signature by a trusted issuer; an "exp", if there, not passed.
VerifyAndParseJwt(t, isSelf) ==
  /\ t.alg = IF isSelf THEN "HS256" ELSE "EdDSA"
  /\ t.trusted
  /\ t.exp = NoExp \/ now < t.exp

\* Mutant: the salt is drawn anew for every login.
UnsaltedSessionId(jti) == <<now % (MaxRestarts + 1), jti>>

\* hashToSessionId: sha256 of the salt and the jti, one id per pair of them.
hashToSessionId(jti) == <<salt, jti>>

generateJwt(sid, expireAt) ==
  [alg |-> "HS256", trusted |-> TRUE, usage |-> "MANAGE_SESSION",
   jti |-> NoJti, sub |-> sid, quantity |-> 0, exp |-> expireAt]

\* Any JWT a client holds may turn up in any call, or none at all (NoJwt).
Presented == Wallet \cup issued \cup {NoJwt}

-----------------------------------------------------------------------------
(* CreateSession                                                           *)

\* The checks of the quota JWT up to its quantity.
QuotaUsable(t) ==
  /\ VerifyAndParseJwt(t, FALSE)
  /\ t.usage = "CREATE_SESSION"
  /\ t.quantity > 0

Login(c, t) ==
  /\ calls[c].pc = "idle"
  /\ IF QuotaUsable(t) THEN Become(c, At("expiry", t, NoRequest))
                       ELSE End(c, "refused")
  /\ UNCHANGED <<now, salt, redis, issued, losses, history>>

\* The second look at the expiry.  The error it builds reads err.Error() of an
\* err that is nil, so a call that fails here panics instead of answering.
ExpiryPassed(t) == t.exp = NoExp \/ t.exp < now

CheckExpiry(c) ==
  /\ calls[c].pc = "expiry"
  /\ IF ExpiryPassed(calls[c].jwt)
       THEN End(c, "panic")
       ELSE Become(c, [calls[c] EXCEPT !.pc = "credit"])
  /\ UNCHANGED <<now, salt, redis, issued, losses, history>>

\* Mutant: SET without NX.
SetGet(sid, quantity) ==
  /\ live' = live \cup {sid}
  /\ balance' = [balance EXCEPT ![sid] = quantity]

\* SET session:<id> <quantity> NX GET; the key gets no expiry.
SetNxGet(sid, quantity) ==
  IF sid \in live THEN UNCHANGED redis
  ELSE /\ live' = live \cup {sid}
       /\ balance' = [balance EXCEPT ![sid] = quantity]

\* CreateSession of the session manager, the command applied by Redis.
Credit(sid, jti, quantity) ==
  /\ SetNxGet(sid, quantity)
  /\ IF live' = live /\ balance' = balance
       THEN UNCHANGED <<credited, credits>>
       ELSE /\ credited' = [credited EXCEPT ![sid] = @ + quantity]
            /\ credits' = [credits EXCEPT ![jti] = @ + 1]
  /\ UNCHANGED accepted

\* The reply arrives: the client gets the session and a JWT for it.
CreditReplied(c) ==
  LET t   == calls[c].jwt
      sid == hashToSessionId(t.jti)
  IN  /\ calls[c].pc = "credit"
      /\ Credit(sid, t.jti, t.quantity)
      /\ issued' = issued \cup {generateJwt(sid, t.exp)}
      /\ Become(c, Idle("session", balance'[sid]))
      /\ UNCHANGED <<now, salt, losses, clean>>

\* Mutant: one retry too many.
RetryOnceMore(c) ==
  IF calls[c].tries <= MaxRetries
    THEN Become(c, [calls[c] EXCEPT !.tries = @ + 1])
    ELSE End(c, "refused")

\* Mutant: the count of retries starts over.
RetryForever(c) ==
  Become(c, [calls[c] EXCEPT !.tries = IF @ < MaxRetries THEN @ + 1 ELSE 0])

\* No reply: go-redis repeats the command, at most MaxRetries times.
RetryOrFail(c) ==
  IF calls[c].tries < MaxRetries
    THEN Become(c, [calls[c] EXCEPT !.tries = @ + 1])
    ELSE End(c, "refused")

\* Mutant: an error of the session manager is ignored.
CreditAssumed(c) ==
  LET t   == calls[c].jwt
      sid == hashToSessionId(t.jti)
  IN  /\ calls[c].pc = "credit"
      /\ Credit(sid, t.jti, t.quantity) \/ UNCHANGED <<redis, credited, credits, accepted>>
      /\ issued' = issued \cup {generateJwt(sid, t.exp)}
      /\ End(c, "session")
      /\ UNCHANGED <<now, salt, losses, clean>>

\* The command was applied or not, and its reply is lost.
CreditLost(c) ==
  LET t   == calls[c].jwt
      sid == hashToSessionId(t.jti)
  IN  /\ calls[c].pc = "credit"
      /\ Credit(sid, t.jti, t.quantity) \/ UNCHANGED <<redis, credited, credits, accepted>>
      /\ RetryOrFail(c)
      /\ UNCHANGED <<now, salt, issued, losses, clean>>

-----------------------------------------------------------------------------
(* The session interceptor                                                 *)

SkipAuth == {"SearchCid", "SearchInstance", "Ping", "DelegatedRouting"}

\* size: the number of cids, the length of the value, or MaxSize.
GetPrice(r) ==
  CASE r.proc \in {"RegisterInstance", "CreateValue", "ProlongValue"} -> r.size
    [] r.proc = "CreateStreamValue" -> 100 * r.size
    [] OTHER -> 1

\* The request handed to next: the validation interceptor, then the handler.
PassOn(c, t, r) == IF r.valid THEN Become(c, At("serve", t, r))
                              ELSE End(c, "refused")

\* A call enters the interceptor: free, refused, or to be charged.
Arrive(c, t, r) ==
  /\ calls[c].pc = "idle"
  /\ CASE r.proc \in SkipAuth -> PassOn(c, t, r)
       [] r.proc \notin SkipAuth /\ ~(VerifyAndParseJwt(t, TRUE)
                                      /\ t.usage = "MANAGE_SESSION") -> End(c, "refused")
       [] OTHER -> IF GetPrice(r) > 0 THEN Become(c, At("charge", t, r))
                                      ELSE End(c, "refused")
  /\ UNCHANGED <<now, salt, redis, issued, losses, history>>

\* Redis refuses a DECRBY that leaves the range of a 64-bit counter.
WouldOverflow(sid, amount) == balance[sid] - amount < MinInt64

\* Mutant: DECR, which takes 1.
Decr(sid, amount) ==
  /\ live' = live \cup {sid}
  /\ balance' = [balance EXCEPT ![sid] = @ - 1]

\* Mutant: an overdrawn balance is put back to 0.
DecrByToZero(sid, amount) ==
  /\ live' = live \cup {sid}
  /\ balance' = [balance EXCEPT ![sid] = IF @ < amount THEN 0 ELSE @ - amount]

\* DECRBY session:<id> <amount>: a missing key counts as 0 and is created.
DecrBy(sid, amount) ==
  /\ live' = live \cup {sid}
  /\ balance' = [balance EXCEPT ![sid] = @ - amount]

\* Mutant: off by one.
AlmostSufficient(newBalance) == newBalance + 1 >= 0

\* What DeductSessionBalance answers to the new balance.
Sufficient(newBalance) == newBalance >= 0

\* DeductSessionBalance, the reply arriving; a balance that went below zero
\* stays there.  A sufficient one lets the request through.
ChargeReplied(c) ==
  LET sid == calls[c].jwt.sub
      amount == GetPrice(calls[c].req)
  IN  /\ calls[c].pc = "charge"
      /\ IF WouldOverflow(sid, amount)
           THEN End(c, "refused") /\ UNCHANGED <<redis, accepted>>
           ELSE /\ DecrBy(sid, amount)
                /\ IF Sufficient(balance'[sid])
                     THEN /\ PassOn(c, calls[c].jwt, calls[c].req)
                          /\ accepted' = [accepted EXCEPT ![sid] = @ + amount]
                     ELSE End(c, "refused") /\ UNCHANGED accepted
      /\ UNCHANGED <<now, salt, issued, losses, credited, credits, clean>>

\* The deduction was applied or not, and its reply is lost.
ChargeLost(c) ==
  LET sid == calls[c].jwt.sub
      amount == GetPrice(calls[c].req)
  IN  /\ calls[c].pc = "charge"
      /\ \/ /\ ~WouldOverflow(sid, amount)
            /\ DecrBy(sid, amount)
            /\ clean' = clean \ {sid}
         \/ UNCHANGED <<redis, clean>>
      /\ RetryOrFail(c)
      /\ UNCHANGED <<now, salt, issued, losses, credited, credits, accepted>>

\* The handler runs and answers, if it ever does.
Serve(c) ==
  /\ calls[c].pc = "serve"
  /\ End(c, "served")
  /\ UNCHANGED <<now, salt, redis, issued, losses, history>>

-----------------------------------------------------------------------------
(* The environment                                                         *)

Tick ==
  /\ now < MaxTime
  /\ now' = now + 1
  /\ UNCHANGED <<salt, redis, issued, calls, losses, history>>

\* The server restarts with a new salt; the calls in progress are cut off.
Restart ==
  /\ salt < MaxRestarts
  /\ salt' = salt + 1
  /\ calls' = [c \in Calls |-> IF calls[c].pc = "idle" THEN calls[c]
                                                       ELSE Idle("none", 0)]
  /\ UNCHANGED <<now, redis, issued, losses, history>>

\* Redis loses its data: it restarts without persistence, or is flushed.
RedisLoss ==
  /\ losses < MaxLosses
  /\ losses' = losses + 1
  /\ live' = {}
  /\ balance' = [s \in SessionIds |-> 0]
  /\ clean' = {}
  /\ UNCHANGED <<now, salt, issued, calls, credited, credits, accepted>>

-----------------------------------------------------------------------------
ServerStep(c) == \/ CheckExpiry(c)
                 \/ CreditReplied(c) \/ CreditLost(c)
                 \/ ChargeReplied(c) \/ ChargeLost(c)
                 \/ Serve(c)

ClientStep(c) == \E t \in Presented : \/ Login(c, t)
                                      \/ \E r \in Requests : Arrive(c, t, r)

Next == \/ \E c \in Calls : ServerStep(c) \/ ClientStep(c)
        \/ Tick \/ Restart \/ RedisLoss

\* GetStreamValue reads with XREAD and sets no Block, which go-redis sends as
\* BLOCK 0 and waits for without a deadline: its handler may never come back.
MayBlock(r) == r.pc = "serve" /\ r.req.proc = "GetStreamValue"

\* The server goes on with every call it has begun (net/http runs each in a
\* goroutine, and go-redis gives every other command a timeout); a blocked
\* handler, clients, the clock and failures owe nothing.
Fairness == \A c \in Calls : WF_vars(ServerStep(c) /\ ~MayBlock(calls[c]))

Spec == Init /\ [][Next]_vars /\ Fairness

-----------------------------------------------------------------------------
(* Properties                                                              *)

\* Every variable ranges over what the code can store in it.
TypeOK ==
  /\ now \in 0..MaxTime
  /\ salt \in Salts
  /\ losses \in 0..MaxLosses
  /\ live \subseteq SessionIds
  /\ balance \in [SessionIds -> Int]
  /\ issued \subseteq Jwts
  /\ calls \in [Calls -> CallRecords]
  /\ credited \in [SessionIds -> Int]
  /\ credits \in [Jtis -> Int]
  /\ accepted \in [SessionIds -> Int]
  /\ clean \subseteq SessionIds

\* DeductSessionBalance: whatever runs in parallel, is retried, restarted or
\* lost, the calls let through for a session never cost more than the quota
\* CreateSession credited to it.
NeverOverserved == \A s \in SessionIds : accepted[s] <= credited[s]

\* A session no fault touched is charged to the unit: as long as it is not
\* overdrawn, its balance in Redis is its quota less the calls let through.
ChargedExactly ==
  \A s \in live \cap clean :
    balance[s] >= 0 => balance[s] = credited[s] - accepted[s]

\* CreateSession of the session manager: logging in again with the same quota
\* JWT, and every other step, never raises the balance of a session Redis
\* still has; an overdrawn session stays overdrawn.
NoTopUp ==
  [][\A s \in live : s \in live' => balance'[s] <= balance[s]]_vars

\* SET ... NX: a quota JWT is credited once, and again only after a restart
\* changed the salt or Redis lost the session, once for each.
CreditsBounded == \A j \in Jtis : credits[j] <= 1 + salt + losses

\* generateJwt: nobody holds a session JWT for a session that no quota was
\* ever credited to.
SessionsBacked == \A t \in issued : credited[t.sub] > 0

\* Every call the server has begun ends: the retries run out, an error, a
\* panic or an answer follows.  Only a paid call of GetStreamValue may end up
\* in its handler instead and stay there.
CallsEnd ==
  \A c \in Calls :
    calls[c].pc # "idle" ~> (calls[c].pc = "idle" \/ MayBlock(calls[c]))

\* Billing implements the ledger: credited quota is granted, and a call let
\* through is work that fits in it.
Ledger == INSTANCE QuotaLedger
            WITH Accounts <- SessionIds, granted <- credited, spent <- accepted

LedgerImplemented == Ledger!LedgerSpec

-----------------------------------------------------------------------------
(* What the repository says of the code and the code does not do           *)

\* login.go: an expiry that is missing or has passed is answered with "failed
\* to parse expire time".  The handler panics while it builds that error.
ExpiryAnswered == \A c \in Calls : calls[c].out # "panic"

\* session.go: deducting from a session that Redis does not have answers
\* "session not found or expired".  DECRBY creates the session, in debt.
DeductFindsSession ==
  [][\A s \in live' \ live : balance'[s] > 0]_vars

-----------------------------------------------------------------------------
(* The inductive invariant behind the theorems of BillingProofs            *)

\* A call on its way to CreateSession has a quota with an id; one about to be
\* charged presents an issued JWT and has a positive price.
CallInv(r, js) ==
  /\ r.pc \in {"expiry", "credit"} => r.jwt.jti \in Jtis /\ r.jwt.quantity > 0
  /\ r.pc = "charge" => r.jwt \in js /\ GetPrice(r.req) > 0

CallsInv == \A c \in Calls : CallInv(calls[c], issued)

\* Sessions come from salts up to the current one, and have been credited.
SaltInv ==
  /\ \A t \in issued : /\ IsSessionJwt(t) /\ t.sub \in SessionIds
                      /\ t.sub[1] <= salt /\ credited[t.sub] > 0
  /\ \A s \in live : s[1] <= salt /\ credited[s] > 0

\* What a session may still spend is not more than is left of its quota.
FundsInv ==
  /\ \A s \in SessionIds \ live : balance[s] = 0
  /\ \A s \in SessionIds :
       /\ 0 <= accepted[s] /\ accepted[s] <= credited[s]
       /\ s \in live /\ balance[s] >= 0 => accepted[s] + balance[s] <= credited[s]

\* In a session no fault touched, it is exactly that.
CleanInv ==
  /\ \A s \in clean \ live : accepted[s] = credited[s]
  /\ ChargedExactly

\* Each restart and each loss lets a quota be credited once more.
CreditsInv ==
  \A j \in Jtis :
    credits[j] <= salt + losses + (IF <<salt, j>> \in live THEN 1 ELSE 0)

IInv == TypeOK /\ CallsInv /\ SaltInv /\ FundsInv /\ CleanInv /\ CreditsInv
=============================================================================
