---------------------------- MODULE ValueProofs ----------------------------
(***************************************************************************)
(* Theorems about ValueStore, for every number of concurrent ProlongValue  *)
(* calls, every ttl, and every movement of the clock.                      *)
(***************************************************************************)
EXTENDS ValueStore, TLAPS

\* Rounding to the nearest second is off by at most half of one, cutting to
\* whole seconds by less than one.
LEMMA Rounding ==
  ASSUME NEW n \in Nat
  PROVE  /\ (n + 500) \div 1000 \in Nat
         /\ 1000 * ((n + 500) \div 1000) > n - 500
         /\ 1000 * ((n + 500) \div 1000) <= n + 500
OBVIOUS

LEMMA Cutting ==
  ASSUME NEW n \in Nat, NEW m \in Nat
  PROVE  /\ (n + 1000 * m) \div 1000 \in Nat
         /\ 1000 * ((n + 1000 * m) \div 1000) > n + 1000 * m - 1000
         /\ 1000 * ((n + 1000 * m) \div 1000) <= n + 1000 * m
         /\ n >= 1000 => 1000 * ((n + 1000 * m) \div 1000) >= 1000 * m + 1000
OBVIOUS

LEMMA FinishedType ==
  ASSUME NEW out \in Outcomes
  PROVE  Finished(out) \in CallRecords
BY DEF Finished, CallRecords, PCs

\* A call that ends leaves the other calls, and so the invariant, alone.
LEMMA EndKeeps ==
  ASSUME IInv, NEW c \in Calls, NEW out \in Outcomes, End(c, out),
         UNCHANGED <<now, expiry, floor, upset>>
  PROVE  calls' \in [Calls -> CallRecords] /\ CallsInv'
<1>1. calls' = [calls EXCEPT ![c] = Finished(out)]
  BY DEF End, Become
<1>2. Finished(out).pc = "idle" /\ Finished(out).stale = FALSE
  BY DEF Finished
<1> QED BY <1>1, <1>2, FinishedType DEF IInv, TypeOK, CallsInv, ReadInv

LEMMA CreateStep ==
  ASSUME IInv, NEW codec \in Codecs, NEW v \in Contents, NEW ttl \in Ttls,
         CreateValue(codec, v, ttl)
  PROVE  IInv'
<1> USE DEF IInv
<1> DEFINE k == <<codec, v>>
<1>1. /\ k \in Cids /\ ttl \in Int /\ ttl >= 1000
      /\ expiry' = [expiry EXCEPT ![k] = now + ttl]
      /\ floor' = [floor EXCEPT ![k] = now + ttl]
      /\ upset' = upset \ {k}
      /\ calls' = [c \in Calls |->
                    [calls[c] EXCEPT !.stale = @ \/ (calls[c].pc = "expire"
                                                     /\ calls[c].key = k)]]
      /\ UNCHANGED <<now, prolongs>>
  BY ValueAssumption DEF CreateValue, calculateCid, Cids, ValidTtl
<1>2. TypeOK'
  <2>1. ASSUME NEW c \in Calls, NEW b \in BOOLEAN
        PROVE  [calls[c] EXCEPT !.stale = b] \in CallRecords
    <3>1. calls[c] \in CallRecords
      BY DEF TypeOK
    <3> QED BY <3>1 DEF CallRecords
  <2>2. ASSUME NEW c \in Calls
        PROVE  (calls[c].stale \/ (calls[c].pc = "expire" /\ calls[c].key = k)) \in BOOLEAN
    OBVIOUS
  <2>3. calls' \in [Calls -> CallRecords]
    BY <1>1, <2>1, <2>2, ZenonT(30)
  <2> QED BY <1>1, <2>3 DEF TypeOK
<1>3. CallsInv'
  <2> SUFFICES ASSUME NEW c \in Calls
               PROVE  /\ calls'[c].pc # "idle" =>
                           calls'[c].key \in Cids /\ calls'[c].ttl >= 1000
                      /\ calls'[c].pc # "expire" => ~calls'[c].stale
                      /\ calls'[c].pc = "expire" => ReadInv(calls[c])'
    BY DEF CallsInv
  <2>1. calls[c] \in CallRecords
    BY DEF TypeOK
  <2>2. /\ calls'[c].pc = calls[c].pc /\ calls'[c].key = calls[c].key
        /\ calls'[c].ttl = calls[c].ttl /\ calls'[c].old = calls[c].old
        /\ calls'[c].at = calls[c].at /\ calls'[c].seen = calls[c].seen
    BY <1>1, <2>1 DEF CallRecords
  <2>3. calls'[c].stale <=> calls[c].stale \/ (calls[c].pc = "expire"
                                              /\ calls[c].key = k)
    BY <1>1, <2>1, ZenonT(30) DEF CallRecords
  <2>4. now' = now
    BY <1>1
  <2>5. ASSUME calls[c].pc = "expire"
        PROVE  ReadInv(calls[c])'
    <3>1. ReadInv(calls[c]) /\ calls[c].key \in Cids
      BY <2>5 DEF CallsInv
    <3>2. CASE calls[c].key = k
      <4>1. calls'[c].stale
        BY <2>3, <2>5, <3>2
      <4> QED BY <2>2, <2>4, <3>1, <4>1 DEF ReadInv
    <3>3. CASE calls[c].key # k
      <4>1. /\ expiry'[calls[c].key] = expiry[calls[c].key]
            /\ floor'[calls[c].key] = floor[calls[c].key]
            /\ calls[c].key \in upset' <=> calls[c].key \in upset
        BY <1>1, <3>1, <3>3 DEF TypeOK
      <4>2. calls'[c].stale <=> calls[c].stale
        BY <2>3, <3>3
      <4> QED BY <2>2, <2>4, <3>1, <4>1, <4>2 DEF ReadInv
    <3> QED BY <3>2, <3>3
  <2> QED BY <2>2, <2>3, <2>5 DEF CallsInv
<1>4. LifetimeKept'
  BY <1>1 DEF TypeOK, LifetimeKept
<1> QED BY <1>2, <1>3, <1>4

LEMMA ProlongStep ==
  ASSUME IInv, NEW c \in Calls, NEW k \in Cids, NEW ttl \in Ttls,
         NEW n \in MaxSizes, Prolong(c, k, ttl, n)
  PROVE  IInv'
<1> USE DEF IInv
<1> DEFINE r == InFlight("size", k, ttl, n, 0, 0, 0)
<1>1. UNCHANGED <<now, expiry, floor, upset>> /\ prolongs' \in Nat
  BY DEF Prolong, Quiet, TypeOK
<1>2. CASE ValidTtl(ttl) /\ n > 0
  <2>1. calls' = [calls EXCEPT ![c] = r]
    BY <1>2 DEF Prolong, Become
  <2>2. /\ r \in CallRecords /\ r.pc = "size" /\ r.key = k /\ r.ttl = ttl
        /\ r.stale = FALSE
    BY ValueAssumption DEF InFlight, CallRecords, PCs, Outcomes
  <2>3. ttl >= 1000
    BY <1>2 DEF ValidTtl
  <2> HIDE DEF r
  <2> QED BY <1>1, <2>1, <2>2, <2>3 DEF TypeOK, CallsInv, ReadInv, LifetimeKept
<1>3. CASE ~(ValidTtl(ttl) /\ n > 0)
  <2>1. End(c, "refused") /\ "refused" \in Outcomes
    BY <1>3 DEF Prolong, Outcomes
  <2> QED BY <1>1, <2>1, EndKeeps DEF TypeOK, LifetimeKept
<1> QED BY <1>2, <1>3

LEMMA CheckSizeStep ==
  ASSUME IInv, NEW c \in Calls, CheckSize(c)
  PROVE  IInv'
<1> USE DEF IInv
<1> DEFINE r == [calls[c] EXCEPT !.pc = "ttl"]
<1>1. UNCHANGED <<now, expiry, floor, upset, prolongs>>
  BY DEF CheckSize, Quiet
<1>2. CASE End(c, "not_found") \/ End(c, "refused")
  <2>1. "not_found" \in Outcomes /\ "refused" \in Outcomes
    BY DEF Outcomes
  <2> QED BY <1>1, <1>2, <2>1, EndKeeps DEF TypeOK, LifetimeKept
<1>3. CASE calls' = [calls EXCEPT ![c] = r]
  <2>1. /\ r \in CallRecords /\ r.pc = "ttl" /\ r.key = calls[c].key
        /\ r.ttl = calls[c].ttl /\ r.stale = calls[c].stale
    BY DEF TypeOK, CallRecords, PCs
  <2>2. calls[c].pc = "size"
    BY DEF CheckSize
  <2> HIDE DEF r
  <2> QED BY <1>1, <1>3, <2>1, <2>2 DEF TypeOK, CallsInv, ReadInv, LifetimeKept
<1> QED BY <1>2, <1>3 DEF CheckSize, Become

LEMMA ReadTtlStep ==
  ASSUME IInv, NEW c \in Calls, ReadTtl(c)
  PROVE  IInv'
<1> USE DEF IInv
<1> DEFINE k == calls[c].key
           r == InFlight("expire", k, calls[c].ttl, calls[c].maxSize,
                         TtlReply(k), now, expiry[k])
<1>1. UNCHANGED <<now, expiry, floor, upset, prolongs>>
      /\ calls' = [calls EXCEPT ![c] = r] /\ calls[c].pc = "ttl"
  BY DEF ReadTtl, Quiet, Become
<1>2. k \in Cids /\ calls[c].ttl >= 1000 /\ ~calls[c].stale
  BY <1>1 DEF CallsInv
<1>3. /\ now \in Nat /\ expiry[k] \in Int /\ floor[k] \in Int
      /\ k \notin upset => expiry[k] >= floor[k]
  BY <1>2 DEF TypeOK, LifetimeKept
<1>4. /\ ~Exists(k) => TtlReply(k) = Missing /\ expiry[k] < now
      /\ Exists(k) => /\ TtlReply(k) \in Nat /\ TtlReply(k) # Missing
                      /\ now + 1000 * TtlReply(k) > expiry[k] - 500
                      /\ now + 1000 * TtlReply(k) <= expiry[k] + 500
  <2>1. CASE Exists(k)
    <3> DEFINE n == expiry[k] - now
    <3>1. n \in Nat
      BY <1>3, <2>1 DEF Exists
    <3>2. TtlReply(k) = (n + 500) \div 1000
      BY <2>1 DEF TtlReply
    <3> HIDE DEF n
    <3>3. TtlReply(k) \in Nat /\ 1000 * TtlReply(k) > n - 500
          /\ 1000 * TtlReply(k) <= n + 500
      BY <3>1, <3>2, Rounding
    <3> QED BY <1>3, <2>1, <3>3 DEF n, Missing
  <2>2. CASE ~Exists(k)
    BY <1>3, <2>2 DEF Exists, TtlReply
  <2> QED BY <2>1, <2>2
<1>5. TtlReply(k) \in Nat \cup {Missing}
  BY <1>4
<1>6. /\ r \in CallRecords /\ r.pc = "expire" /\ r.key = k
      /\ r.ttl = calls[c].ttl /\ r.old = TtlReply(k) /\ r.at = now
      /\ r.seen = expiry[k] /\ r.stale = FALSE
  BY <1>2, <1>3, <1>5 DEF TypeOK, CallRecords, PCs, Outcomes, InFlight
<1> HIDE DEF r
<1>7. ReadInv(calls[c])'
  <2>1. calls'[c] = r
    BY <1>1 DEF TypeOK
  <2> QED BY <1>1, <1>2, <1>3, <1>4, <1>6, <2>1 DEF ReadInv
<1>8. CallsInv'
  <2>1. calls'[c] = r /\ \A d \in Calls \ {c} : calls'[d] = calls[d]
    BY <1>1 DEF TypeOK
  <2> QED BY <1>1, <1>2, <1>6, <1>7, <2>1 DEF CallsInv, ReadInv
<1> QED BY <1>1, <1>6, <1>8 DEF TypeOK, LifetimeKept

\* What EXPIRE does for a call whose key was not created anew since it read
\* the ttl, and whose duration did not overflow.
LEMMA FreshExpire ==
  ASSUME IInv, NEW c \in Calls, calls[c].pc = "expire", ~calls[c].stale,
         ~Overflows(calls[c]), Exists(calls[c].key),
         SetExpiry(calls[c].key, ExpireSeconds(calls[c]))
  PROVE  LET r == calls[c] IN
         /\ r.key \in Cids /\ r.ttl \in Int /\ r.at \in Int /\ r.seen \in Int
         /\ expiry'[r.key] \in Int /\ now \in Int
         /\ expiry'[r.key] > r.seen + r.ttl - 1500
         /\ expiry'[r.key] > r.seen + 500
         /\ expiry'[r.key] <= r.seen + r.ttl + 500 + (now - r.at)
         /\ r.key \notin upset => expiry'[r.key] > floor[r.key]
<1> DEFINE r == calls[c]
           s == (r.ttl + 1000 * r.old) \div 1000
<1>1. /\ r.key \in Cids /\ r.ttl >= 1000 /\ ReadInv(r) /\ now \in Nat
      /\ r.ttl \in Int /\ r.old \in Int /\ r.at \in Int /\ r.seen \in Int
      /\ expiry \in [Cids -> Int] /\ floor[r.key] \in Int
  BY DEF IInv, TypeOK, CallsInv, CallRecords, Missing
<1>2. r.old # Missing /\ ~r.stale
  BY <1>1 DEF ReadInv, Exists
<1>3. /\ r.at <= now /\ r.old >= 0
      /\ r.at + 1000 * r.old > r.seen - 500
      /\ r.at + 1000 * r.old <= r.seen + 500
      /\ r.key \notin upset => r.at + 1000 * r.old > floor[r.key] - 500
  BY <1>1, <1>2 DEF ReadInv
<1>4. /\ s \in Nat /\ 1000 * s > r.ttl + 1000 * r.old - 1000
      /\ 1000 * s <= r.ttl + 1000 * r.old /\ 1000 * s >= 1000 * r.old + 1000
  BY <1>1, <1>3, Cutting
<1>5. ExpireSeconds(r) = s
  BY <1>2 DEF ExpireSeconds
<1> HIDE DEF s
<1>6. ~(s <= 0)
  BY <1>1, <1>3, <1>4
<1>7. expiry' = [expiry EXCEPT ![r.key] = now + 1000 * s]
  BY <1>5, <1>6 DEF SetExpiry
<1>8. expiry'[r.key] = now + 1000 * s
  BY <1>1, <1>7
<1> QED BY <1>1, <1>3, <1>4, <1>8

\* EXPIRE changes the expiry of the call's own key only, and only if it exists.
LEMMA ExpireOthers ==
  ASSUME IInv, NEW k \in Cids, NEW seconds \in Int, SetExpiry(k, seconds)
  PROVE  /\ expiry' \in [Cids -> Int]
         /\ \A j \in Cids : j # k \/ ~Exists(j) => expiry'[j] = expiry[j]
BY DEF IInv, TypeOK, SetExpiry, Never

LEMMA ExpireStep ==
  ASSUME IInv, NEW c \in Calls, Expire(c)
  PROVE  IInv'
<1> USE DEF IInv
<1> DEFINE r == calls[c]
           n == ExpireSeconds(r)
<1>1. /\ r.pc = "expire" /\ SetExpiry(r.key, n)
      /\ upset' = IF r.stale \/ Overflows(r) THEN upset \cup {r.key} ELSE upset
      /\ UNCHANGED <<now, floor, prolongs>>
  BY DEF Expire
<1>2. r.key \in Cids /\ r.ttl \in Int /\ r.old \in Int
  BY <1>1 DEF TypeOK, CallsInv, CallRecords, Missing
<1>3. n \in Int
  BY <1>2 DEF ExpireSeconds
<1>4. /\ expiry' \in [Cids -> Int]
      /\ \A j \in Cids : j # r.key \/ ~Exists(j) => expiry'[j] = expiry[j]
  BY <1>1, <1>2, <1>3, ExpireOthers
<1>5. PICK out \in Outcomes : calls' = [calls EXCEPT ![c] = Finished(out)]
  BY DEF Expire, End, Become, Outcomes
<1>6. calls' \in [Calls -> CallRecords]
  BY <1>5, FinishedType DEF TypeOK
<1>7. upset \subseteq upset' /\ upset' \subseteq Cids
  BY <1>1, <1>2 DEF TypeOK
<1>8. CallsInv'
  <2> SUFFICES ASSUME NEW d \in Calls
               PROVE  /\ calls'[d].pc # "idle" =>
                           calls'[d].key \in Cids /\ calls'[d].ttl >= 1000
                      /\ calls'[d].pc # "expire" => ~calls'[d].stale
                      /\ calls'[d].pc = "expire" => ReadInv(calls[d])'
    BY DEF CallsInv
  <2>1. CASE d = c
    BY <1>5, <2>1 DEF TypeOK, Finished
  <2>2. CASE d # c
    <3>1. calls'[d] = calls[d]
      BY <1>5, <2>2 DEF TypeOK
    <3>2. ASSUME calls[d].pc = "expire" PROVE ReadInv(calls[d])'
      <4>1. ReadInv(calls[d]) /\ calls[d].key \in Cids
        BY <3>2 DEF CallsInv
      <4>2. ~calls[d].stale /\ calls[d].old = Missing
              => expiry'[calls[d].key] = expiry[calls[d].key]
        BY <1>4, <4>1 DEF ReadInv, Exists, TypeOK
      <4> QED BY <1>1, <1>7, <3>1, <4>1, <4>2 DEF ReadInv
    <3> QED BY <3>1, <3>2 DEF CallsInv
  <2> QED BY <2>1, <2>2
<1>9. LifetimeKept'
  <2> SUFFICES ASSUME NEW j \in Cids, j \notin upset'
               PROVE  expiry'[j] >= floor[j]
    BY <1>1 DEF LifetimeKept
  <2>1. expiry[j] >= floor[j] /\ floor[j] \in Int
    BY <1>7 DEF LifetimeKept, TypeOK
  <2>2. CASE j # r.key \/ ~Exists(j)
    BY <1>4, <2>1, <2>2
  <2>3. CASE j = r.key /\ Exists(j)
    <3>1. ~r.stale /\ ~Overflows(r) /\ j \notin upset
      BY <1>1, <2>3
    <3>2. expiry'[j] \in Int /\ expiry'[j] > floor[j]
      BY <1>1, <2>3, <3>1, FreshExpire
    <3> QED BY <2>1, <3>2
  <2> QED BY <2>2, <2>3
<1> QED BY <1>1, <1>4, <1>6, <1>7, <1>8, <1>9 DEF TypeOK

LEMMA FailStep ==
  ASSUME IInv, NEW c \in Calls, Fail(c)
  PROVE  IInv'
<1>1. End(c, "error") /\ "error" \in Outcomes
      /\ UNCHANGED <<now, expiry, floor, upset, prolongs>>
  BY DEF Fail, Outcomes, Quiet
<1> QED BY <1>1, EndKeeps DEF IInv, TypeOK, LifetimeKept

LEMMA AdvanceStep ==
  ASSUME IInv, NEW d \in Delays, Advance(d)
  PROVE  IInv'
<1> USE DEF IInv
<1>1. /\ now \in Nat /\ d \in Nat /\ now' = now + d
      /\ UNCHANGED <<expiry, calls, prolongs, floor, upset>>
  BY ValueAssumption DEF Advance, TypeOK
<1>2. TypeOK' /\ LifetimeKept'
  BY <1>1 DEF TypeOK, LifetimeKept
<1>3. ASSUME NEW c \in Calls, calls[c].pc = "expire"
      PROVE  ReadInv(calls[c])'
  <2>1. ReadInv(calls[c]) /\ calls[c].at \in Int /\ expiry[calls[c].key] \in Int
    BY <1>3 DEF CallsInv, TypeOK, CallRecords
  <2> QED BY <1>1, <2>1 DEF ReadInv
<1> QED BY <1>1, <1>2, <1>3 DEF CallsInv

LEMMA InitInv == Init => IInv
<1> SUFFICES ASSUME Init PROVE IInv
  OBVIOUS
<1>1. Finished("none") \in CallRecords
  BY FinishedType DEF Outcomes
<1>2. TypeOK
  BY <1>1 DEF Init, TypeOK, Never
<1>3. CallsInv
  BY ZenonT(30) DEF Init, CallsInv, Finished
<1> QED BY <1>2, <1>3 DEF Init, IInv, LifetimeKept, Never

LEMMA NextInv == IInv /\ [Next]_vars => IInv'
<1> SUFFICES ASSUME IInv, [Next]_vars PROVE IInv'
  OBVIOUS
<1>1. ASSUME NEW c \in Calls, ServerStep(c) PROVE IInv'
  BY <1>1, CheckSizeStep, ReadTtlStep, ExpireStep, FailStep DEF ServerStep
<1>2. CASE ClientStep
  BY <1>2, CreateStep, ProlongStep DEF ClientStep
<1>3. CASE UNCHANGED vars
  BY <1>3 DEF IInv, TypeOK, CallsInv, ReadInv, LifetimeKept, Exists, vars
<1> QED BY <1>1, <1>2, <1>3, AdvanceStep DEF Next

\* The inductive invariant holds in every state of ValueStore.
THEOREM Invariance == Spec => []IInv
BY InitInv, NextInv, PTL DEF Spec

\* CreateValue and ProlongValue keep every variable within its type.
THEOREM TypeCorrect == Spec => []TypeOK
<1>1. IInv => TypeOK
  BY DEF IInv
<1> QED BY <1>1, Invariance, PTL

\* No interleaving of ProlongValue calls takes away lifetime CreateValue gave,
\* short of a re-creation or an overflow during a call.
THEOREM CreationLifetime == Spec => []LifetimeKept
<1>1. IInv => LifetimeKept
  BY DEF IInv
<1> QED BY <1>1, Invariance, PTL

\* ProlongValue moves the expiry it read by the ttl asked for, up to rounding
\* and the time between its TTL and its EXPIRE.
THEOREM ProlongedByTtl == Spec => ProlongBounds
<1> DEFINE A == \A c \in Calls :
       LET r == calls[c]
       IN  r.pc = "expire" /\ ~r.stale /\ ~Overflows(r) /\ expiry' # expiry
           /\ calls'[c].pc = "idle" =>
             /\ expiry'[r.key] > r.seen + r.ttl - 1500
             /\ expiry'[r.key] > r.seen + 500
             /\ expiry'[r.key] <= r.seen + r.ttl + 500 + (now - r.at)
<1>1. IInv /\ [Next]_vars => [A]_vars
  <2> SUFFICES ASSUME IInv, Next, NEW c \in Calls, calls[c].pc = "expire",
                      ~calls[c].stale, ~Overflows(calls[c]),
                      expiry' # expiry, calls'[c].pc = "idle"
               PROVE  /\ expiry'[calls[c].key] > calls[c].seen + calls[c].ttl - 1500
                      /\ expiry'[calls[c].key] > calls[c].seen + 500
                      /\ expiry'[calls[c].key] <= calls[c].seen + calls[c].ttl + 500
                                                  + (now - calls[c].at)
    OBVIOUS
  <2>1. PICK d \in Calls : Expire(d)
    <3>1. ASSUME NEW codec \in Codecs, NEW v \in Contents, NEW ttl \in Ttls,
                 CreateValue(codec, v, ttl)
          PROVE  FALSE
      BY <3>1 DEF CreateValue, IInv, TypeOK, CallRecords
    <3> QED BY <3>1 DEF Next, ServerStep, ClientStep, Prolong, CheckSize,
                        ReadTtl, Fail, Quiet, Advance
  <2>2. d = c
    BY <2>1 DEF Expire, End, Become, IInv, TypeOK
  <2>3. SetExpiry(calls[c].key, ExpireSeconds(calls[c]))
    BY <2>1, <2>2 DEF Expire
  <2>4. Exists(calls[c].key)
    BY <2>3 DEF SetExpiry
  <2> QED BY <2>3, <2>4, FreshExpire
<1> QED BY <1>1, Invariance, PTL DEF Spec, ProlongBounds
=============================================================================
