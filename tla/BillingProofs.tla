--------------------------- MODULE BillingProofs ---------------------------
(***************************************************************************)
(* Theorems about Billing, for every value of its constants: however many  *)
(* calls run at once, restarts, losses, retries and quotas there are.      *)
(***************************************************************************)
EXTENDS Billing, TLAPS

\* The records a slot is set to are call records.
LEMMA IdleType ==
  ASSUME NEW out \in Outcomes, NEW shown \in Int
  PROVE  Idle(out, shown) \in CallRecords
BY BillingAssumption DEF Idle, CallRecords, PCs, NoJwt, Jwts, NoRequest,
   AllRequests, Usages, Procedures, NoExp

LEMMA AtType ==
  ASSUME NEW pc \in PCs, NEW t \in Jwts, NEW r \in AllRequests
  PROVE  At(pc, t, r) \in CallRecords
BY BillingAssumption DEF At, CallRecords, Outcomes

LEMMA NoJwtType == NoJwt \in Jwts /\ NoRequest \in AllRequests
BY DEF NoJwt, Jwts, NoRequest, AllRequests, Usages, Procedures, NoExp

\* A slot that is given a call record leaves calls well typed.
LEMMA BecomeType ==
  ASSUME TypeOK, NEW c \in Calls, NEW r \in CallRecords, Become(c, r)
  PROVE  calls' \in [Calls -> CallRecords]
BY DEF TypeOK, Become

LEMMA EndType ==
  ASSUME TypeOK, NEW c \in Calls, NEW out \in Outcomes, End(c, out)
  PROVE  calls' \in [Calls -> CallRecords]
BY IdleType, BecomeType DEF End

LEMMA RetryType ==
  ASSUME TypeOK, NEW c \in Calls, RetryOrFail(c)
  PROVE  calls' \in [Calls -> CallRecords]
<1>1. CASE calls[c].tries < MaxRetries
  <2>1. [calls[c] EXCEPT !.tries = @ + 1] \in CallRecords
    BY <1>1, BillingAssumption DEF TypeOK, CallRecords
  <2> QED BY <1>1, <2>1, BecomeType DEF RetryOrFail
<1>2. CASE ~(calls[c].tries < MaxRetries)
  BY <1>2, EndType DEF RetryOrFail, Outcomes
<1> QED BY <1>1, <1>2

LEMMA PassOnType ==
  ASSUME TypeOK, NEW c \in Calls, NEW t \in Jwts, NEW r \in AllRequests,
         PassOn(c, t, r)
  PROVE  calls' \in [Calls -> CallRecords]
<1>1. CASE r.valid
  BY <1>1, AtType, BecomeType DEF PassOn, PCs
<1>2. CASE ~r.valid
  BY <1>2, EndType DEF PassOn, Outcomes
<1> QED BY <1>1, <1>2

\* The call invariant survives a step that gives one slot a good record and
\* takes no issued JWT back.
LEMMA BecomeInv ==
  ASSUME TypeOK, CallsInv, NEW c \in Calls, NEW r, Become(c, r),
         CallInv(r, issued'), issued \subseteq issued'
  PROVE  CallsInv'
BY DEF TypeOK, CallsInv, CallInv, Become

LEMMA EndInv ==
  ASSUME TypeOK, CallsInv, NEW c \in Calls, NEW out, NEW n,
         Become(c, Idle(out, n)), issued \subseteq issued'
  PROVE  CallsInv'
<1>1. CallInv(Idle(out, n), issued')
  BY DEF CallInv, Idle
<1> QED BY <1>1, BecomeInv

LEMMA RetryInv ==
  ASSUME TypeOK, CallsInv, NEW c \in Calls, RetryOrFail(c), issued' = issued
  PROVE  CallsInv'
<1>1. CASE calls[c].tries < MaxRetries
  <2>1. CallInv([calls[c] EXCEPT !.tries = @ + 1], issued')
    BY DEF TypeOK, CallsInv, CallInv, CallRecords
  <2> QED BY <1>1, <2>1, BecomeInv DEF RetryOrFail
<1>2. CASE ~(calls[c].tries < MaxRetries)
  BY <1>2, EndInv DEF RetryOrFail, End
<1> QED BY <1>1, <1>2

LEMMA PassOnInv ==
  ASSUME TypeOK, CallsInv, NEW c \in Calls, NEW t, NEW r, PassOn(c, t, r),
         issued' = issued
  PROVE  CallsInv'
<1>1. CallInv(At("serve", t, r), issued')
  BY DEF CallInv, At
<1>2. CASE r.valid
  BY <1>1, <1>2, BecomeInv DEF PassOn
<1>3. CASE ~r.valid
  BY <1>3, EndInv DEF PassOn, End
<1> QED BY <1>2, <1>3

-----------------------------------------------------------------------------
(* The parts of the invariant that speak of sessions, and a step that      *)
(* leaves the sessions alone                                               *)

SessionsInv == SaltInv /\ FundsInv /\ CleanInv /\ CreditsInv

LEMMA Frame ==
  ASSUME SessionsInv, UNCHANGED <<salt, redis, issued, losses, history>>
  PROVE  SessionsInv'
BY DEF SessionsInv, SaltInv, FundsInv, CleanInv, CreditsInv, ChargedExactly,
   redis, history

LEMMA LoginStep ==
  ASSUME IInv, NEW c \in Calls, NEW t \in Presented, Login(c, t)
  PROVE  IInv'
<1> USE DEF IInv
<1>1. t \in Jwts
  BY BillingAssumption, NoJwtType DEF Presented, TypeOK
<1>2. QuotaUsable(t) => t.jti \in Jtis /\ t.quantity > 0
  <2>1. t \in issued => t.alg = "HS256"
    BY DEF SaltInv, IsSessionJwt
  <2> QED BY <2>1, BillingAssumption
          DEF QuotaUsable, VerifyAndParseJwt, Presented, NoJwt, IsQuotaJwt
<1>3. CASE QuotaUsable(t)
  <2>1. Become(c, At("expiry", t, NoRequest))
    BY <1>3 DEF Login
  <2>2. CallInv(At("expiry", t, NoRequest), issued')
    BY <1>2, <1>3 DEF CallInv, At
  <2>3. calls' \in [Calls -> CallRecords]
    BY <1>1, <2>1, AtType, NoJwtType, BecomeType DEF PCs
  <2> QED BY <2>1, <2>2, <2>3, BecomeInv, Frame
          DEF Login, SessionsInv, TypeOK, redis, history
<1>4. CASE ~QuotaUsable(t)
  <2>1. End(c, "refused") /\ "refused" \in Outcomes
    BY <1>4 DEF Login, Outcomes
  <2> QED BY <2>1, EndType, EndInv, Frame
          DEF Login, End, SessionsInv, TypeOK, redis, history
<1> QED BY <1>3, <1>4

LEMMA CheckExpiryStep ==
  ASSUME IInv, NEW c \in Calls, CheckExpiry(c)
  PROVE  IInv'
<1> USE DEF IInv
<1> DEFINE r == [calls[c] EXCEPT !.pc = "credit"]
<1>1. CASE ExpiryPassed(calls[c].jwt)
  <2>1. End(c, "panic") /\ "panic" \in Outcomes
    BY <1>1 DEF CheckExpiry, Outcomes
  <2> QED BY <2>1, EndType, EndInv, Frame
          DEF CheckExpiry, End, SessionsInv, TypeOK, redis, history
<1>2. CASE ~ExpiryPassed(calls[c].jwt)
  <2>1. Become(c, r)
    BY <1>2 DEF CheckExpiry
  <2>2. r \in CallRecords
    BY DEF TypeOK, CallRecords, PCs
  <2>3. CallInv(r, issued')
    BY DEF CheckExpiry, TypeOK, CallsInv, CallInv, CallRecords
  <2> HIDE DEF r
  <2> QED BY <2>1, <2>2, <2>3, BecomeType, BecomeInv, Frame
          DEF CheckExpiry, SessionsInv, TypeOK, redis, history
<1> QED BY <1>1, <1>2

LEMMA ArriveStep ==
  ASSUME IInv, NEW c \in Calls, NEW t \in Presented, NEW r \in Requests,
         Arrive(c, t, r)
  PROVE  IInv'
<1> USE DEF IInv
<1>1. t \in Jwts /\ r \in AllRequests
  BY BillingAssumption, NoJwtType DEF Presented, TypeOK
<1>2. calls' \in [Calls -> CallRecords] /\ CallsInv'
  <2>1. CASE r.proc \in SkipAuth
    BY <1>1, <2>1, PassOnType, PassOnInv DEF Arrive
  <2>2. CASE End(c, "refused")
    BY <2>2, EndType, EndInv DEF Arrive, End, Outcomes
  <2>3. CASE /\ Become(c, At("charge", t, r)) /\ GetPrice(r) > 0
             /\ VerifyAndParseJwt(t, TRUE) /\ t.usage = "MANAGE_SESSION"
    <3>1. t \in issued
      BY <2>3, BillingAssumption
         DEF Presented, VerifyAndParseJwt, IsSessionJwt, NoJwt
    <3>2. CallInv(At("charge", t, r), issued')
      BY <2>3, <3>1 DEF Arrive, CallInv, At
    <3>3. At("charge", t, r) \in CallRecords
      BY <1>1, AtType DEF PCs
    <3> QED BY <2>3, <3>2, <3>3, BecomeType, BecomeInv DEF Arrive
  <2> QED BY <2>1, <2>2, <2>3 DEF Arrive
<1> QED BY <1>2, Frame DEF Arrive, SessionsInv, TypeOK, redis, history

LEMMA ServeStep ==
  ASSUME IInv, NEW c \in Calls, Serve(c)
  PROVE  IInv'
<1>1. End(c, "served") /\ "served" \in Outcomes
  BY DEF Serve, Outcomes
<1> QED BY <1>1, EndType, EndInv, Frame
        DEF IInv, Serve, End, SessionsInv, TypeOK, redis, history

LEMMA TickStep ==
  ASSUME IInv, Tick
  PROVE  IInv'
<1>1. TypeOK'
  BY BillingAssumption DEF IInv, TypeOK, Tick, redis, history
<1>2. CallsInv'
  BY DEF IInv, CallsInv, Tick
<1> QED BY <1>1, <1>2, Frame DEF IInv, Tick, SessionsInv, redis, history

-----------------------------------------------------------------------------
(* Crediting a session                                                     *)

\* What the SET of CreateSession does to the session parts of the invariant,
\* whether or not its reply arrives.
LEMMA CreditKeeps ==
  ASSUME IInv, NEW j \in Jtis, NEW n \in Int, n > 0,
         Credit(hashToSessionId(j), j, n),
         UNCHANGED <<salt, losses, clean>>
  PROVE  /\ hashToSessionId(j) \in live' /\ live' \subseteq SessionIds
         /\ balance' \in [SessionIds -> Int]
         /\ credited' \in [SessionIds -> Int]
         /\ credits' \in [Jtis -> Int]
         /\ accepted' = accepted
         /\ \A s \in SessionIds : credited'[s] >= credited[s]
         /\ \A s \in live' : s[1] <= salt /\ credited'[s] > 0
         /\ FundsInv' /\ CleanInv' /\ CreditsInv'
<1> DEFINE sid == <<salt, j>>
<1>1. sid \in SessionIds /\ sid[1] = salt /\ hashToSessionId(j) = sid
  BY DEF IInv, TypeOK, SessionIds, hashToSessionId
<1>2. CASE sid \in live
  <2>1. UNCHANGED <<live, balance, credited, credits, accepted, salt, losses, clean>>
    BY <1>1, <1>2 DEF Credit, SetNxGet, redis
  <2> QED BY <1>1, <1>2, <2>1
          DEF IInv, TypeOK, SaltInv, FundsInv, CleanInv, CreditsInv, ChargedExactly
<1>3. CASE sid \notin live
  <2>1. /\ live' = live \cup {sid}
        /\ balance' = [balance EXCEPT ![sid] = n]
        /\ credited' = [credited EXCEPT ![sid] = @ + n]
        /\ credits' = [credits EXCEPT ![j] = @ + 1]
        /\ accepted' = accepted
    BY <1>1, <1>3 DEF Credit, SetNxGet
  <2>2. /\ accepted[sid] \in Int /\ credited[sid] \in Int
        /\ 0 <= accepted[sid] /\ accepted[sid] <= credited[sid]
    BY <1>1 DEF IInv, TypeOK, FundsInv
  <2>3. \A s \in live' : s[1] <= salt /\ credited'[s] > 0
    <3>1. salt <= salt
      BY BillingAssumption DEF IInv, TypeOK, Salts
    <3> QED BY <1>1, <2>1, <2>2, <3>1 DEF IInv, TypeOK, SaltInv
  <2>4. FundsInv'
    BY <1>1, <2>1, <2>2 DEF IInv, TypeOK, FundsInv
  <2>5. CleanInv'
    BY <1>1, <1>3, <2>1, <2>2 DEF IInv, TypeOK, CleanInv, ChargedExactly
  <2>6. CreditsInv'
    <3> SUFFICES ASSUME NEW i \in Jtis
                 PROVE  credits'[i] <= salt + losses
                          + (IF <<salt, i>> \in live' THEN 1 ELSE 0)
      BY DEF CreditsInv
    <3>1. /\ salt \in Int /\ losses \in Int /\ credits[i] \in Int
          /\ credits[i] <= salt + losses + (IF <<salt, i>> \in live THEN 1 ELSE 0)
      BY BillingAssumption DEF IInv, TypeOK, CreditsInv, Salts
    <3>2. CASE i = j
      BY <1>3, <2>1, <3>1, <3>2 DEF IInv, TypeOK
    <3>3. CASE i # j
      BY <2>1, <3>1, <3>3 DEF IInv, TypeOK
    <3> QED BY <3>2, <3>3
  <2> QED BY <1>1, <2>1, <2>2, <2>3, <2>4, <2>5, <2>6 DEF IInv, TypeOK
<1> QED BY <1>2, <1>3

LEMMA CreditRepliedStep ==
  ASSUME IInv, NEW c \in Calls, CreditReplied(c)
  PROVE  IInv'
<1> USE DEF IInv
<1> DEFINE t   == calls[c].jwt
           sid == hashToSessionId(t.jti)
           new == generateJwt(sid, t.exp)
<1>1. t \in Jwts /\ t.jti \in Jtis /\ t.quantity \in Int /\ t.quantity > 0
      /\ t.exp \in Int
  BY DEF CreditReplied, TypeOK, CallsInv, CallInv, CallRecords, Jwts
<1>2. /\ Credit(sid, t.jti, t.quantity)
      /\ UNCHANGED <<now, salt, losses, clean>>
      /\ issued' = issued \cup {new}
      /\ Become(c, Idle("session", balance'[sid]))
  BY DEF CreditReplied
<1>3. /\ sid \in live' /\ live' \subseteq SessionIds
      /\ balance' \in [SessionIds -> Int]
      /\ credited' \in [SessionIds -> Int]
      /\ credits' \in [Jtis -> Int]
      /\ accepted' = accepted
      /\ \A s \in SessionIds : credited'[s] >= credited[s]
      /\ \A s \in live' : s[1] <= salt /\ credited'[s] > 0
      /\ FundsInv' /\ CleanInv' /\ CreditsInv'
  BY <1>1, <1>2, CreditKeeps
<1>4. new \in Jwts /\ IsSessionJwt(new) /\ new.sub = sid
  BY <1>1, <1>3 DEF generateJwt, Jwts, Usages, IsSessionJwt
<1>5. TypeOK'
  <2>1. balance'[sid] \in Int
    BY <1>3
  <2>2. calls' \in [Calls -> CallRecords]
    BY <1>2, <2>1, IdleType, BecomeType DEF Outcomes
  <2> QED BY <1>2, <1>3, <1>4, <2>2 DEF TypeOK
<1>6. CallsInv'
  BY <1>2, EndInv
<1>7. SaltInv'
  <2>1. \A u \in issued : credited'[u.sub] > 0
    BY <1>3 DEF TypeOK, SaltInv
  <2> QED BY <1>2, <1>3, <1>4, <2>1 DEF TypeOK, SaltInv
<1> QED BY <1>3, <1>5, <1>6, <1>7

LEMMA CreditLostStep ==
  ASSUME IInv, NEW c \in Calls, CreditLost(c)
  PROVE  IInv'
<1> USE DEF IInv
<1> DEFINE t   == calls[c].jwt
           sid == hashToSessionId(t.jti)
<1>1. t.jti \in Jtis /\ t.quantity \in Int /\ t.quantity > 0
  BY DEF CreditLost, TypeOK, CallsInv, CallInv, CallRecords, Jwts
<1>2. calls' \in [Calls -> CallRecords] /\ CallsInv'
  BY RetryType, RetryInv DEF CreditLost
<1>3. CASE UNCHANGED <<redis, credited, credits, accepted>>
  BY <1>2, <1>3, Frame DEF CreditLost, SessionsInv, TypeOK, redis, history
<1>4. CASE Credit(sid, t.jti, t.quantity)
  <2>1. UNCHANGED <<now, salt, issued, losses, clean>>
    BY DEF CreditLost
  <2>2. /\ live' \subseteq SessionIds
        /\ balance' \in [SessionIds -> Int]
        /\ credited' \in [SessionIds -> Int]
        /\ credits' \in [Jtis -> Int]
        /\ accepted' = accepted
        /\ \A s \in SessionIds : credited'[s] >= credited[s]
        /\ \A s \in live' : s[1] <= salt /\ credited'[s] > 0
        /\ FundsInv' /\ CleanInv' /\ CreditsInv'
    BY <1>1, <1>4, <2>1, CreditKeeps
  <2>3. \A u \in issued : credited'[u.sub] > 0
    BY <2>2 DEF TypeOK, SaltInv
  <2> QED BY <1>2, <2>1, <2>2, <2>3 DEF TypeOK, SaltInv
<1> QED BY <1>3, <1>4 DEF CreditLost

-----------------------------------------------------------------------------
(* Charging a session                                                      *)

LEMMA PriceType ==
  ASSUME NEW r \in AllRequests
  PROVE  GetPrice(r) \in Int
BY DEF GetPrice, AllRequests

\* What the caller of a call about to be charged is known to be.
LEMMA ChargedCall ==
  ASSUME IInv, NEW c \in Calls, calls[c].pc = "charge"
  PROVE  /\ calls[c].jwt.sub \in SessionIds
         /\ calls[c].jwt.sub[1] <= salt
         /\ credited[calls[c].jwt.sub] > 0
         /\ GetPrice(calls[c].req) \in Int /\ GetPrice(calls[c].req) > 0
<1>1. calls[c] \in CallRecords /\ calls[c].req \in AllRequests
  BY DEF IInv, TypeOK, CallRecords
<1>2. calls[c].jwt \in issued /\ GetPrice(calls[c].req) > 0
  BY DEF IInv, CallsInv, CallInv
<1> QED BY <1>1, <1>2, PriceType DEF IInv, SaltInv

\* A deduction, whether it lets a call through (the accepted price grows) or
\* not, and whether its reply arrives or not (the session is then unclean).
LEMMA DeductKeeps ==
  ASSUME IInv, NEW sid \in SessionIds, sid[1] <= salt, credited[sid] > 0,
         NEW amount \in Int, amount > 0, DecrBy(sid, amount),
         UNCHANGED <<salt, issued, losses, credited, credits>>,
         \/ /\ balance'[sid] >= 0 /\ clean' = clean
            /\ accepted' = [accepted EXCEPT ![sid] = @ + amount]
         \/ ~(balance'[sid] >= 0) /\ UNCHANGED <<accepted, clean>>
         \/ clean' = clean \ {sid} /\ UNCHANGED accepted
  PROVE  /\ live' \subseteq SessionIds
         /\ balance' \in [SessionIds -> Int]
         /\ accepted' \in [SessionIds -> Int]
         /\ SessionsInv'
<1> USE DEF IInv
<1>1. /\ live' = live \cup {sid}
      /\ balance' = [balance EXCEPT ![sid] = @ - amount]
  BY DEF DecrBy
<1>2. /\ balance[sid] \in Int /\ accepted[sid] \in Int /\ credited[sid] \in Int
      /\ balance'[sid] = balance[sid] - amount
      /\ balance'[sid] >= 0 => sid \in live
      /\ 0 <= accepted[sid] /\ accepted[sid] <= credited[sid]
      /\ sid \in live /\ balance[sid] >= 0
           => accepted[sid] + balance[sid] <= credited[sid]
  BY <1>1 DEF TypeOK, FundsInv
<1>3. /\ live' \subseteq SessionIds
      /\ balance' \in [SessionIds -> Int]
      /\ accepted' \in [SessionIds -> Int]
  BY <1>1, <1>2 DEF TypeOK
<1>4. \A s \in SessionIds \ {sid} :
        /\ balance'[s] = balance[s] /\ accepted'[s] = accepted[s]
        /\ s \in live' <=> s \in live
        /\ s \in clean' <=> s \in clean
  BY <1>1 DEF TypeOK
<1>5. SaltInv'
  BY <1>1 DEF SaltInv
<1>6. FundsInv'
  <2>1. /\ 0 <= accepted'[sid] /\ accepted'[sid] <= credited[sid]
        /\ balance'[sid] >= 0 => accepted'[sid] + balance'[sid] <= credited[sid]
    BY <1>2 DEF TypeOK
  <2> QED BY <1>1, <1>4, <2>1 DEF FundsInv
<1>7. CleanInv'
  <2>1. sid \in clean' /\ balance'[sid] >= 0
          => balance'[sid] = credited[sid] - accepted'[sid]
    BY <1>2 DEF TypeOK, CleanInv, ChargedExactly
  <2>2. clean' \subseteq SessionIds
    BY DEF TypeOK
  <2> QED BY <1>1, <1>3, <1>4, <2>1, <2>2 DEF CleanInv, ChargedExactly
<1>8. CreditsInv'
  <2> SUFFICES ASSUME NEW j \in Jtis
               PROVE  credits[j] <= salt + losses
                        + (IF <<salt, j>> \in live' THEN 1 ELSE 0)
    BY DEF CreditsInv
  <2>1. /\ salt \in Int /\ losses \in Int /\ credits[j] \in Int
        /\ credits[j] <= salt + losses + (IF <<salt, j>> \in live THEN 1 ELSE 0)
    BY BillingAssumption DEF TypeOK, CreditsInv, Salts
  <2> QED BY <1>1, <2>1
<1> QED BY <1>3, <1>5, <1>6, <1>7, <1>8 DEF SessionsInv

LEMMA ChargeRepliedStep ==
  ASSUME IInv, NEW c \in Calls, ChargeReplied(c)
  PROVE  IInv'
<1> USE DEF IInv
<1> DEFINE sid    == calls[c].jwt.sub
           amount == GetPrice(calls[c].req)
<1>1. /\ sid \in SessionIds /\ sid[1] <= salt /\ credited[sid] > 0
      /\ amount \in Int /\ amount > 0
  BY ChargedCall DEF ChargeReplied
<1>2. UNCHANGED <<now, salt, issued, losses, credited, credits, clean>>
  BY DEF ChargeReplied
<1>3. calls' \in [Calls -> CallRecords] /\ CallsInv'
  <2>1. calls[c].jwt \in Jwts /\ calls[c].req \in AllRequests
    BY DEF TypeOK, CallRecords
  <2>2. CASE End(c, "refused")
    BY <1>2, <2>2, EndType, EndInv DEF End, Outcomes
  <2>3. CASE PassOn(c, calls[c].jwt, calls[c].req)
    BY <1>2, <2>1, <2>3, PassOnType, PassOnInv
  <2> QED BY <2>2, <2>3 DEF ChargeReplied
<1>4. CASE UNCHANGED <<redis, accepted>>
  BY <1>2, <1>3, <1>4, Frame DEF SessionsInv, TypeOK, redis, history
<1>5. CASE /\ DecrBy(sid, amount)
           /\ \/ /\ balance'[sid] >= 0
                 /\ accepted' = [accepted EXCEPT ![sid] = @ + amount]
              \/ ~(balance'[sid] >= 0) /\ UNCHANGED accepted
  <2>1. /\ live' \subseteq SessionIds
        /\ balance' \in [SessionIds -> Int]
        /\ accepted' \in [SessionIds -> Int]
        /\ SessionsInv'
    BY <1>1, <1>2, <1>5, DeductKeeps
  <2> QED BY <1>2, <1>3, <2>1 DEF TypeOK, SessionsInv
<1> QED BY <1>4, <1>5 DEF ChargeReplied, Sufficient

LEMMA ChargeLostStep ==
  ASSUME IInv, NEW c \in Calls, ChargeLost(c)
  PROVE  IInv'
<1> USE DEF IInv
<1> DEFINE sid    == calls[c].jwt.sub
           amount == GetPrice(calls[c].req)
<1>1. /\ sid \in SessionIds /\ sid[1] <= salt /\ credited[sid] > 0
      /\ amount \in Int /\ amount > 0
  BY ChargedCall DEF ChargeLost
<1>2. UNCHANGED <<now, salt, issued, losses, credited, credits, accepted>>
  BY DEF ChargeLost
<1>3. calls' \in [Calls -> CallRecords] /\ CallsInv'
  BY RetryType, RetryInv DEF ChargeLost
<1>4. CASE UNCHANGED <<redis, clean>>
  BY <1>2, <1>3, <1>4, Frame DEF SessionsInv, TypeOK, redis, history
<1>5. CASE DecrBy(sid, amount) /\ clean' = clean \ {sid}
  <2>1. /\ live' \subseteq SessionIds
        /\ balance' \in [SessionIds -> Int]
        /\ accepted' \in [SessionIds -> Int]
        /\ SessionsInv'
    BY <1>1, <1>2, <1>5, DeductKeeps
  <2> QED BY <1>2, <1>3, <1>5, <2>1 DEF TypeOK, SessionsInv
<1> QED BY <1>4, <1>5 DEF ChargeLost

-----------------------------------------------------------------------------
(* Failures                                                                *)

LEMMA CreditsNow ==
  ASSUME IInv, NEW j \in Jtis
  PROVE  /\ salt \in Int /\ losses \in Int /\ credits[j] \in Int
         /\ credits[j] <= salt + losses + 1
<1>1. salt \in Int /\ losses \in Int /\ credits[j] \in Int
  BY BillingAssumption DEF IInv, TypeOK, Salts
<1>2. credits[j] <= salt + losses + (IF <<salt, j>> \in live THEN 1 ELSE 0)
  BY DEF IInv, CreditsInv
<1> QED BY <1>1, <1>2

LEMMA RestartStep ==
  ASSUME IInv, Restart
  PROVE  IInv'
<1> USE DEF IInv
<1>1. /\ salt \in Int /\ losses \in Int /\ salt' = salt + 1
      /\ UNCHANGED <<now, redis, issued, losses, history>>
  BY BillingAssumption DEF Restart, TypeOK, Salts
<1>2. TypeOK'
  <2>1. Idle("none", 0) \in CallRecords
    BY IdleType DEF Outcomes
  <2>2. calls' \in [Calls -> CallRecords]
    BY <2>1 DEF Restart, TypeOK
  <2>3. salt' \in Salts
    BY BillingAssumption DEF Restart, TypeOK, Salts
  <2> QED BY <1>1, <2>2, <2>3 DEF TypeOK, redis, history
<1>3. CallsInv'
  <2>1. \A c \in Calls : calls'[c].pc = "idle"
    BY DEF Restart, Idle
  <2> QED BY <2>1 DEF CallsInv, CallInv
<1>4. SaltInv'
  BY <1>1 DEF SaltInv, TypeOK, SessionIds, Salts, redis, history
<1>5. FundsInv' /\ CleanInv'
  BY <1>1 DEF FundsInv, CleanInv, ChargedExactly, redis, history
<1>6. CreditsInv'
  <2> SUFFICES ASSUME NEW j \in Jtis
               PROVE  credits[j] <= (salt + 1) + losses
                        + (IF <<salt + 1, j>> \in live THEN 1 ELSE 0)
    BY <1>1 DEF CreditsInv, redis, history
  <2> QED BY CreditsNow
<1> QED BY <1>2, <1>3, <1>4, <1>5, <1>6

LEMMA RedisLossStep ==
  ASSUME IInv, RedisLoss
  PROVE  IInv'
<1> USE DEF IInv
<1>1. TypeOK'
  BY BillingAssumption DEF RedisLoss, TypeOK
<1>2. CallsInv'
  BY DEF RedisLoss, CallsInv
<1>3. SaltInv'
  BY DEF RedisLoss, SaltInv
<1>4. FundsInv' /\ CleanInv'
  BY DEF RedisLoss, FundsInv, CleanInv, ChargedExactly, TypeOK
<1>5. CreditsInv'
  <2> SUFFICES ASSUME NEW j \in Jtis
               PROVE  credits[j] <= salt + (losses + 1)
    BY CreditsNow DEF CreditsInv, RedisLoss
  <2> QED BY CreditsNow
<1> QED BY <1>1, <1>2, <1>3, <1>4, <1>5

-----------------------------------------------------------------------------
(* The invariant                                                           *)

LEMMA InitInv == Init => IInv
<1> SUFFICES ASSUME Init PROVE IInv
  OBVIOUS
<1>1. Idle("none", 0) \in CallRecords
  BY IdleType DEF Outcomes
<1>2. TypeOK
  BY <1>1, BillingAssumption DEF Init, TypeOK, Salts
<1>3. CallsInv
  BY DEF Init, CallsInv, CallInv, Idle
<1> QED BY <1>2, <1>3 DEF Init, IInv, SaltInv, FundsInv, CleanInv, CreditsInv,
                          ChargedExactly

LEMMA NextInv == IInv /\ [Next]_vars => IInv'
<1> SUFFICES ASSUME IInv, [Next]_vars PROVE IInv'
  OBVIOUS
<1>1. ASSUME NEW c \in Calls, ServerStep(c) PROVE IInv'
  BY <1>1, CheckExpiryStep, CreditRepliedStep, CreditLostStep,
     ChargeRepliedStep, ChargeLostStep, ServeStep DEF ServerStep
<1>2. ASSUME NEW c \in Calls, ClientStep(c) PROVE IInv'
  BY <1>2, LoginStep, ArriveStep DEF ClientStep
<1>3. CASE UNCHANGED vars
  <2>1. UNCHANGED <<now, salt, redis, issued, calls, losses, history>>
    BY <1>3 DEF vars, redis, history
  <2> QED BY <2>1, Frame DEF IInv, TypeOK, CallsInv, SessionsInv, redis, history
<1> QED BY <1>1, <1>2, <1>3, TickStep, RestartStep, RedisLossStep DEF Next

\* The inductive invariant holds in every state of Billing.
THEOREM Invariance == Spec => []IInv
BY InitInv, NextInv, PTL DEF Spec

\* Session balances, tokens, calls and the clock stay within their types.
THEOREM TypeCorrect == Spec => []TypeOK
<1>1. IInv => TypeOK
  BY DEF IInv
<1> QED BY <1>1, Invariance, PTL

\* DeductSessionBalance never lets a session's calls cost more than the quota
\* CreateSession credited to it.
THEOREM NoOverservice == Spec => []NeverOverserved
<1>1. IInv => NeverOverserved
  BY DEF IInv, FundsInv, NeverOverserved
<1> QED BY <1>1, Invariance, PTL

\* Without faults, Redis holds exactly what is left of a session's quota.
THEOREM ExactCharging == Spec => []ChargedExactly
<1>1. IInv => ChargedExactly
  BY DEF IInv, CleanInv
<1> QED BY <1>1, Invariance, PTL

\* A quota JWT is credited once, and once more for each restart and each loss.
THEOREM BoundedCredits == Spec => []CreditsBounded
<1>1. IInv => CreditsBounded
  BY CreditsNow DEF CreditsBounded
<1> QED BY <1>1, Invariance, PTL

\* A session JWT in a client's hands names a session that was credited.
THEOREM BackedSessions == Spec => []SessionsBacked
<1>1. IInv => SessionsBacked
  BY DEF IInv, SaltInv, SessionsBacked
<1> QED BY <1>1, Invariance, PTL

-----------------------------------------------------------------------------
(* What a step may do                                                      *)

\* The steps that touch the sessions or their history at all.
LEMMA SessionSteps ==
  ASSUME IInv, [Next]_vars
  PROVE  \/ UNCHANGED <<live, balance, credited, accepted>>
         \/ \E c \in Calls : \/ CreditReplied(c) \/ CreditLost(c)
                              \/ ChargeReplied(c) \/ ChargeLost(c)
         \/ RedisLoss
BY ZenonT(30) DEF Next, ServerStep, ClientStep, Login, Arrive, CheckExpiry, Serve, Tick,
   Restart, vars, redis, history

\* A step of a CreateSession call credits a session Redis does not have, or
\* changes nothing.
LEMMA CreditEffect ==
  ASSUME IInv, NEW c \in Calls, CreditReplied(c) \/ CreditLost(c)
  PROVE  \/ UNCHANGED <<live, balance, credited, accepted>>
         \/ \E s \in SessionIds, n \in Int :
              /\ n > 0 /\ s \notin live
              /\ live' = live \cup {s}
              /\ balance' = [balance EXCEPT ![s] = n]
              /\ credited' = [credited EXCEPT ![s] = @ + n]
              /\ UNCHANGED accepted
<1> DEFINE t   == calls[c].jwt
           sid == hashToSessionId(t.jti)
<1>1. t.jti \in Jtis /\ t.quantity \in Int /\ t.quantity > 0
  BY DEF IInv, CreditReplied, CreditLost, TypeOK, CallsInv, CallInv,
     CallRecords, Jwts
<1>2. sid \in SessionIds
  BY <1>1 DEF IInv, TypeOK, SessionIds, hashToSessionId
<1>3. CASE UNCHANGED <<redis, credited, credits, accepted>>
  BY <1>3 DEF redis
<1>4. CASE Credit(sid, t.jti, t.quantity)
  BY <1>1, <1>2, <1>4 DEF Credit, SetNxGet, redis
<1> QED BY <1>3, <1>4 DEF CreditReplied, CreditLost

\* A step of a charged call deducts from one session, or changes nothing; the
\* price it accepts fits in the session's quota.
LEMMA ChargeEffect ==
  ASSUME IInv, NEW c \in Calls, ChargeReplied(c) \/ ChargeLost(c)
  PROVE  \/ UNCHANGED <<live, balance, credited, accepted>>
         \/ \E s \in SessionIds, n \in Int :
              /\ n > 0
              /\ balance' = [balance EXCEPT ![s] = @ - n]
              /\ UNCHANGED credited
              /\ \/ UNCHANGED accepted
                 \/ /\ accepted' = [accepted EXCEPT ![s] = @ + n]
                    /\ accepted[s] + n <= credited[s]
<1> DEFINE sid    == calls[c].jwt.sub
           amount == GetPrice(calls[c].req)
<1>1. sid \in SessionIds /\ amount \in Int /\ amount > 0
  BY ChargedCall DEF ChargeReplied, ChargeLost
<1>2. IInv' /\ credited' = credited
  BY ChargeRepliedStep, ChargeLostStep DEF ChargeReplied, ChargeLost
<1>3. accepted' = [accepted EXCEPT ![sid] = @ + amount]
        => accepted[sid] + amount <= credited[sid]
  BY <1>1, <1>2 DEF IInv, TypeOK, FundsInv
<1>4. CASE UNCHANGED <<redis, accepted>>
  BY <1>2, <1>4 DEF redis
<1>5. CASE /\ DecrBy(sid, amount)
           /\ \/ accepted' = [accepted EXCEPT ![sid] = @ + amount]
              \/ UNCHANGED accepted
  BY <1>1, <1>2, <1>3, <1>5 DEF DecrBy
<1> QED BY <1>4, <1>5 DEF ChargeReplied, ChargeLost

\* No step raises the balance of a session Redis keeps: a second login does
\* not top it up, and an overdrawn session stays overdrawn.
THEOREM BalanceNeverRises == Spec => NoTopUp
<1>1. IInv /\ [Next]_vars
        => [\A s \in live : s \in live' => balance'[s] <= balance[s]]_vars
  <2> SUFFICES ASSUME IInv, [Next]_vars, NEW s \in live, s \in live'
               PROVE  balance'[s] <= balance[s]
    OBVIOUS
  <2>1. balance \in [SessionIds -> Int] /\ s \in SessionIds
    BY DEF IInv, TypeOK
  <2>2. CASE UNCHANGED <<live, balance, credited, accepted>>
    BY <2>1, <2>2
  <2>3. ASSUME NEW c \in Calls, CreditReplied(c) \/ CreditLost(c)
        PROVE  balance'[s] <= balance[s]
    BY <2>1, <2>3, CreditEffect
  <2>4. ASSUME NEW c \in Calls, ChargeReplied(c) \/ ChargeLost(c)
        PROVE  balance'[s] <= balance[s]
    BY <2>1, <2>4, ChargeEffect
  <2>5. CASE RedisLoss
    BY <2>5 DEF RedisLoss
  <2> QED BY <2>2, <2>3, <2>4, <2>5, SessionSteps
<1> QED BY <1>1, Invariance, PTL DEF Spec, NoTopUp

\* Billing implements QuotaLedger: crediting grants, letting a call through
\* spends within the grant, and every other step leaves the ledger alone.
THEOREM Refinement == Spec => LedgerImplemented
<1>1. Init => Ledger!LedgerInit
  BY DEF Init, Ledger!LedgerInit
<1>2. IInv /\ [Next]_vars => [Ledger!LedgerNext]_(Ledger!ledger)
  <2> SUFFICES ASSUME IInv, [Next]_vars,
                      ~(UNCHANGED <<credited, accepted>>)
               PROVE  Ledger!LedgerNext
    BY DEF Ledger!ledger
  <2>1. credited \in [SessionIds -> Int] /\ accepted \in [SessionIds -> Int]
    BY DEF IInv, TypeOK
  <2>2. ASSUME NEW c \in Calls, CreditReplied(c) \/ CreditLost(c)
        PROVE  Ledger!LedgerNext
    <3>1. PICK s \in SessionIds, n \in Int :
            /\ n > 0
            /\ credited' = [credited EXCEPT ![s] = @ + n]
            /\ UNCHANGED accepted
      BY <2>2, CreditEffect
    <3>2. Ledger!Grant(s)
      BY <2>1, <3>1 DEF Ledger!Grant
    <3> QED BY <3>2 DEF Ledger!LedgerNext
  <2>3. ASSUME NEW c \in Calls, ChargeReplied(c) \/ ChargeLost(c)
        PROVE  Ledger!LedgerNext
    <3>1. PICK s \in SessionIds, n \in Int :
            /\ n > 0
            /\ UNCHANGED credited
            /\ accepted' = [accepted EXCEPT ![s] = @ + n]
            /\ accepted[s] + n <= credited[s]
      BY <2>3, ChargeEffect
    <3>2. Ledger!Spend(s)
      BY <2>1, <3>1 DEF Ledger!Spend
    <3> QED BY <3>2 DEF Ledger!LedgerNext
  <2>4. ~RedisLoss
    BY DEF RedisLoss
  <2> QED BY <2>2, <2>3, <2>4, SessionSteps
<1> QED BY <1>1, <1>2, Invariance, PTL
        DEF Spec, LedgerImplemented, Ledger!LedgerSpec
=============================================================================
