---------------------------- MODULE IndexProofs -----------------------------
(***************************************************************************)
(* What ServiceIndex keeps invariant, proved for every value of its        *)
(* constants: what a registration writes can be found for DEFAULT_TTL, and *)
(* a search that runs meanwhile finds it.                                  *)
(***************************************************************************)
EXTENDS ServiceIndex, FiniteSetTheorems, TLAPS

-----------------------------------------------------------------------------
(* Lifetimes of keys                                                       *)

\* Whatever registration a key was kept for, it still is.
Grows(e, f, t, u) == \A b \in Int : b <= t /\ Kept(e, b, t) => Kept(f, b, u)

\* A step leaves every key that some registration needs, and its members.
KeysGrow ==
  /\ now' \in Int /\ now <= now'
  /\ \A s \in Services : /\ Grows(detail[s], detail'[s], now, now')
                         /\ Grows(zexpiry[s], zexpiry'[s], now, now')
  /\ \A d \in Dids : Grows(instance[d], instance'[d], now, now')
  /\ \A c \in Cids, s \in Services : Grows(field[c][s], field'[c][s], now, now')
  /\ \A s \in Services, d \in Dids, b \in Int :
       b <= now /\ Kept(zexpiry[s], b, now) /\ (b + Ttl < now \/ score[s][d] # NoScore)
         => b + Ttl < now' \/ score'[s][d] # NoScore

LEMMA Bounds ==
  ASSUME IInv
  PROVE  /\ now \in 0..MaxTime /\ now \in Nat /\ MaxTime \in Nat
         /\ Ttl \in Nat \ {0} /\ Limit \in Nat \ {0}
         /\ Forever \in Int /\ Forever = MaxTime + Ttl + 1 /\ Absent = -1 /\ NoScore = -1
  BY IndexAssumption DEF IInv, TypeOK, Forever, Absent, NoScore

LEMMA KeyTypes ==
  ASSUME IInv
  PROVE  /\ \A s \in Services : detail[s] \in Int /\ zexpiry[s] \in Int /\ cidset[s] \in Int
         /\ \A d \in Dids : instance[d] \in Int
         /\ \A c \in Cids, s \in Services : field[c][s] \in Int
         /\ \A s \in Services, d \in Dids : score[s][d] \in Int
         /\ \A s \in Services, d \in Dids : acked[d][s] \in Int
  BY DEF IInv, TypeOK

\* What a command may do to a key: leave it, write it, renew it.
LEMMA GrowsBy ==
  ASSUME IInv, NEW e \in Int
  PROVE  /\ Grows(e, e, now, now)
         /\ Grows(e, now + Ttl, now, now)
         /\ Grows(e, Forever, now, now)
         /\ Grows(e, Written(e), now, now)
         /\ Grows(e, Renewed(e), now, now)
         /\ Grows(e, IF e < now + 1 THEN Absent ELSE e, now, now + 1)
<1>1. now \in Int /\ now <= MaxTime /\ MaxTime \in Int /\ Ttl \in Int
      /\ Forever = MaxTime + Ttl + 1 /\ Absent = -1
  BY Bounds
<1>2. Grows(e, e, now, now) /\ Grows(e, now + Ttl, now, now) /\ Grows(e, Forever, now, now)
  BY <1>1 DEF Grows, Kept
<1>3. Grows(e, Written(e), now, now) /\ Grows(e, Renewed(e), now, now)
  BY <1>2 DEF Written, Renewed, Alive
<1>4. Grows(e, IF e < now + 1 THEN Absent ELSE e, now, now + 1)
  BY <1>1 DEF Grows, Kept
<1> QED
  BY <1>2, <1>3, <1>4

\* A command that leaves all keys alone.
LEMMA GrowsSame ==
  ASSUME IInv, UNCHANGED <<now, detail, zexpiry, instance, field, score>>
  PROVE  KeysGrow
<1>1. now \in Int
  BY Bounds
<1> QED
  BY <1>1, KeyTypes, GrowsBy DEF KeysGrow

LEMMA GrowsDetail ==
  ASSUME IInv, NEW w \in Writers, SetDetail(w), writers[w].ad.svc \in Services
  PROVE  KeysGrow
<1> DEFINE s == writers[w].ad.svc
<1>1. detail' = [detail EXCEPT ![s] = now + Ttl] /\ now' = now /\ zexpiry' = zexpiry
      /\ instance' = instance /\ field' = field /\ score' = score
  BY DEF SetDetail
<1>2. now \in Int /\ detail \in [Services -> Int]
  BY Bounds DEF IInv, TypeOK
<1>3. \A x \in Services : detail'[x] = detail[x] \/ detail'[x] = now + Ttl
  BY <1>1, <1>2
<1>4. \A x \in Services : Grows(detail[x], detail'[x], now, now)
  BY <1>3, KeyTypes, GrowsBy
<1> QED
  BY <1>1, <1>2, <1>4, KeyTypes, GrowsBy DEF KeysGrow

LEMMA GrowsInstance ==
  ASSUME IInv, NEW w \in Writers, SetInstance(w), writers[w].ad.did \in Dids
  PROVE  KeysGrow
<1> DEFINE d == writers[w].ad.did
<1>1. instance' = [instance EXCEPT ![d] = now + Ttl] /\ now' = now /\ zexpiry' = zexpiry
      /\ detail' = detail /\ field' = field /\ score' = score
  BY DEF SetInstance
<1>2. now \in Int /\ instance \in [Dids -> Int]
  BY Bounds DEF IInv, TypeOK
<1>3. \A x \in Dids : instance'[x] = instance[x] \/ instance'[x] = now + Ttl
  BY <1>1, <1>2
<1>4. \A x \in Dids : Grows(instance[x], instance'[x], now, now)
  BY <1>3, KeyTypes, GrowsBy
<1> QED
  BY <1>1, <1>2, <1>4, KeyTypes, GrowsBy DEF KeysGrow

LEMMA GrowsZAdd ==
  ASSUME IInv, NEW w \in Writers, ZAddGT(w), writers[w].ad.svc \in Services,
         writers[w].ad.did \in Dids, writers[w].stamp \in Nat
  PROVE  /\ KeysGrow
         /\ score' \in [Services -> [Dids -> Int]] /\ zexpiry' \in [Services -> Int]
         /\ \A x \in Services, y \in Dids : /\ score'[x][y] >= NoScore
                                            /\ score'[x][y] >= score[x][y]
<1> DEFINE s == writers[w].ad.svc
           d == writers[w].ad.did
           n == NewScore(score[s][d], writers[w].stamp)
<1>1. score' = [score EXCEPT ![s][d] = n] /\ zexpiry' = [zexpiry EXCEPT ![s] = Written(zexpiry[s])]
      /\ now' = now /\ detail' = detail /\ instance' = instance /\ field' = field
  BY DEF ZAddGT
<1>2. now \in Int /\ score \in [Services -> [Dids -> Int]] /\ zexpiry \in [Services -> Int]
      /\ NoScore = -1 /\ Forever \in Int
  BY Bounds DEF IInv, TypeOK
<1>3. n \in Int /\ n >= 0 /\ n >= score[s][d]
  <2>1. score[s][d] \in Int
    BY KeyTypes
  <2> QED
    BY <2>1 DEF NewScore
<1> HIDE DEF n
<1>4. score' \in [Services -> [Dids -> Int]]
      /\ \A x \in Services, y \in Dids : score'[x][y] = IF x = s /\ y = d THEN n ELSE score[x][y]
  <2>1. s \in Services /\ d \in Dids
    OBVIOUS
  <2> HIDE DEF s, d
  <2>2. score' = [score EXCEPT ![s] = [score[s] EXCEPT ![d] = n]]
    BY <1>1
  <2>3. [score[s] EXCEPT ![d] = n] \in [Dids -> Int]
    BY <1>2, <1>3, <2>1
  <2>4. score' \in [Services -> [Dids -> Int]]
    BY <1>2, <2>2, <2>3
  <2> QED
    BY <1>2, <2>1, <2>2, <2>4
<1>5. \A x \in Services, y \in Dids : score[x][y] >= NoScore
  BY DEF IInv, ScoresInv
<1>6. \A x \in Services, y \in Dids : score'[x][y] >= NoScore /\ score'[x][y] >= score[x][y]
  BY <1>2, <1>3, <1>4, <1>5
<1>7. \A x \in Services, y \in Dids : score[x][y] # NoScore => score'[x][y] # NoScore
  BY <1>2, <1>3, <1>4
<1>8. \A x \in Services : zexpiry'[x] = zexpiry[x] \/ zexpiry'[x] = Written(zexpiry[x])
  BY <1>1, <1>2
<1>9. \A x \in Services : Grows(zexpiry[x], zexpiry'[x], now, now)
  BY <1>8, KeyTypes, GrowsBy
<1>10. zexpiry' \in [Services -> Int]
  BY <1>1, <1>2 DEF Written
<1>11. KeysGrow
  BY <1>1, <1>2, <1>7, <1>9, KeyTypes, GrowsBy DEF KeysGrow
<1> QED
  BY <1>4, <1>6, <1>10, <1>11

LEMMA GrowsExpireSet ==
  ASSUME IInv, NEW w \in Writers, ExpireSet(w), writers[w].ad.svc \in Services
  PROVE  KeysGrow
<1> DEFINE s == writers[w].ad.svc
<1>1. zexpiry' = [zexpiry EXCEPT ![s] = Renewed(zexpiry[s])] /\ now' = now /\ detail' = detail
      /\ instance' = instance /\ field' = field /\ score' = score
  BY DEF ExpireSet
<1>2. now \in Int /\ zexpiry \in [Services -> Int]
  BY Bounds DEF IInv, TypeOK
<1>3. \A x \in Services : zexpiry'[x] = zexpiry[x] \/ zexpiry'[x] = Renewed(zexpiry[x])
  BY <1>1, <1>2
<1>4. \A x \in Services : Grows(zexpiry[x], zexpiry'[x], now, now)
  BY <1>3, KeyTypes, GrowsBy
<1> QED
  BY <1>1, <1>2, <1>4, KeyTypes, GrowsBy DEF KeysGrow

LEMMA GrowsField ==
  ASSUME IInv, NEW c \in Cids, NEW s \in Services, NEW e \in Int,
         field' = [field EXCEPT ![c][s] = e], Grows(field[c][s], e, now, now),
         UNCHANGED <<now, detail, zexpiry, instance, score>>
  PROVE  KeysGrow /\ field' \in [Cids -> [Services -> Int]]
         /\ \A x \in Cids, y \in Services : field'[x][y] = IF x = c /\ y = s THEN e ELSE field[x][y]
<1>1. now \in Int /\ field \in [Cids -> [Services -> Int]]
  BY Bounds DEF IInv, TypeOK
<1>2. field' \in [Cids -> [Services -> Int]]
      /\ \A x \in Cids, y \in Services : field'[x][y] = IF x = c /\ y = s THEN e ELSE field[x][y]
  BY <1>1
<1>3. \A x \in Cids, y \in Services : Grows(field[x][y], field'[x][y], now, now)
  BY <1>2, KeyTypes, GrowsBy
<1>4. KeysGrow
  BY <1>1, <1>3, KeyTypes, GrowsBy DEF KeysGrow
<1> QED
  BY <1>2, <1>4

LEMMA GrowsTick ==
  ASSUME IInv, Tick
  PROVE  KeysGrow
<1>1. now \in Int /\ now' = now + 1 /\ NoScore = -1 /\ Ttl \in Int
  BY Bounds DEF Tick
<1>2. /\ \A s \in Services : /\ detail'[s] = IF detail[s] < now + 1 THEN Absent ELSE detail[s]
                             /\ zexpiry'[s] = IF zexpiry[s] < now + 1 THEN Absent ELSE zexpiry[s]
      /\ \A d \in Dids : instance'[d] = IF instance[d] < now + 1 THEN Absent ELSE instance[d]
      /\ \A c \in Cids, s \in Services :
           field'[c][s] = IF field[c][s] < now + 1 THEN Absent ELSE field[c][s]
  BY <1>1 DEF Tick, Lapse
<1>3. \A s \in Services : score'[s] = IF zexpiry[s] < now + 1 THEN NoMembers ELSE score[s]
  BY <1>1 DEF Tick
<1>4. ASSUME NEW s \in Services, NEW d \in Dids, NEW b \in Int, b <= now,
             Kept(zexpiry[s], b, now), b + Ttl < now \/ score[s][d] # NoScore
      PROVE  b + Ttl < now + 1 \/ score'[s][d] # NoScore
  <2>1. zexpiry[s] \in Int
    BY KeyTypes
  <2>2. CASE zexpiry[s] < now + 1
    BY <1>1, <1>4, <2>1, <2>2 DEF Kept
  <2>3. CASE ~(zexpiry[s] < now + 1)
    BY <1>1, <1>3, <1>4, <2>3
  <2> QED
    BY <2>2, <2>3
<1>5. /\ \A s \in Services : /\ Grows(detail[s], detail'[s], now, now')
                             /\ Grows(zexpiry[s], zexpiry'[s], now, now')
      /\ \A d \in Dids : Grows(instance[d], instance'[d], now, now')
      /\ \A c \in Cids, s \in Services : Grows(field[c][s], field'[c][s], now, now')
  BY <1>1, <1>2, KeyTypes, GrowsBy
<1> QED
  BY <1>1, <1>4, <1>5 DEF KeysGrow

-----------------------------------------------------------------------------
(* What no step disturbs                                                   *)

LEMMA FindableStays ==
  ASSUME IInv, KeysGrow, NEW d \in Dids, NEW s \in Services, NEW b \in Int, b <= now,
         Findable(d, s, b)
  PROVE  Findable(d, s, b)'
<1>1. \A c \in Range(CidsOf(s)) : c \in Cids
  BY IndexAssumption DEF Range
<1>2. Kept(detail'[s], b, now') /\ Kept(zexpiry'[s], b, now') /\ Kept(instance'[d], b, now')
  BY DEF Findable, KeysGrow, Grows
<1>3. \A c \in Range(CidsOf(s)) : Kept(field'[c][s], b, now')
  BY <1>1 DEF Findable, KeysGrow, Grows
<1>4. b + Ttl < now' \/ score'[s][d] # NoScore
  BY DEF Findable, KeysGrow, Members
<1> QED
  BY <1>2, <1>3, <1>4 DEF Findable, Members

\* A registration in progress has all the fields of one.
LEMMA Busy ==
  ASSUME IInv, NEW w \in Writers, writers[w].pc # "idle"
  PROVE  /\ writers[w] \in [pc: {"cids", "cidsexpire", "detail", "zadd", "zexpire", "instance",
                                 "hset", "hexpire"},
                            ad: AllAds, began: Int, stamp: Int, left: Seq(Cids), lost: BOOLEAN]
         /\ writers[w].ad.svc \in Services /\ writers[w].ad.did \in Dids
         /\ writers[w].began \in Int /\ writers[w].began <= now /\ 0 <= writers[w].began
         /\ writers[w].stamp \in Nat /\ writers[w].stamp <= now
         /\ writers[w].left \in Seq(Cids) /\ writers[w].left # <<>>
<1>1. writers[w] \in WriterRecords /\ writers[w] # NoWriter
  BY DEF IInv, TypeOK, NoWriter
<1>2. writers[w] \in [pc: {"cids", "cidsexpire", "detail", "zadd", "zexpire", "instance",
                           "hset", "hexpire"},
                      ad: AllAds, began: Int, stamp: Int, left: Seq(Cids), lost: BOOLEAN]
  BY <1>1 DEF WriterRecords
<1>3. RegistrationOK(writers[w])
  BY DEF IInv, WritersInv
<1>4. writers[w].began \in 0..now /\ writers[w].stamp \in 0..now /\ writers[w].left # <<>>
  BY <1>3 DEF RegistrationOK
<1>5. now \in Int
  BY Bounds
<1> QED
  BY <1>2, <1>4, <1>5 DEF AllAds

\* What a registration has written, a step of its own or of another one keeps.
LEMMA Carried ==
  ASSUME IInv, KeysGrow, NEW w \in Writers, writers[w].pc # "idle"
  PROVE  LET r == writers[w]
             s == r.ad.svc
             d == r.ad.did
             b == r.began
         IN  /\ b \in 0..now' /\ r.stamp \in 0..now' /\ r.left # <<>>
             /\ r.pc \in {"zadd", "zexpire", "instance", "hset", "hexpire"} =>
                  Kept(detail'[s], b, now')
             /\ r.pc \in {"instance", "hset", "hexpire"} /\ ~r.lost =>
                  Kept(zexpiry'[s], b, now') /\ (b + Ttl < now' \/ score'[s][d] # NoScore)
             /\ r.pc \in {"hset", "hexpire"} => Kept(instance'[d], b, now')
             /\ \A c \in Range(CidsOf(s)) : c \in Range(r.left) \/ Kept(field'[c][s], b, now')
             /\ r.pc = "hexpire" => Kept(field'[Head(r.left)][s], b, now')
<1> DEFINE r == writers[w]
           s == r.ad.svc
           d == r.ad.did
           b == r.began
<1>1. /\ s \in Services /\ d \in Dids /\ b \in Int /\ b <= now /\ 0 <= b /\ r.stamp \in Nat
      /\ r.stamp <= now /\ r.left \in Seq(Cids) /\ r.left # <<>>
  BY Busy
<1>2. RegistrationOK(r)
  BY DEF IInv, WritersInv
<1>3. now \in Int /\ now' \in Int /\ now <= now'
  BY Bounds DEF KeysGrow
<1>4. b \in 0..now' /\ r.stamp \in 0..now'
  BY <1>1, <1>3
<1>5. Head(r.left) \in Cids /\ \A c \in Range(CidsOf(s)) : c \in Cids
  <2>1. Head(r.left) \in Cids
    BY <1>1
  <2> QED
    BY <1>1, <2>1, IndexAssumption DEF Range
<1> HIDE DEF r, s, d, b
<1>6. /\ Kept(detail[s], b, now) => Kept(detail'[s], b, now')
      /\ Kept(zexpiry[s], b, now) => Kept(zexpiry'[s], b, now')
      /\ Kept(instance[d], b, now) => Kept(instance'[d], b, now')
      /\ \A c \in Cids : Kept(field[c][s], b, now) => Kept(field'[c][s], b, now')
  BY <1>1 DEF KeysGrow, Grows
<1>7. Kept(zexpiry[s], b, now) /\ (b + Ttl < now \/ score[s][d] # NoScore)
        => b + Ttl < now' \/ score'[s][d] # NoScore
  BY <1>1 DEF KeysGrow
<1>8. /\ r.pc \in {"zadd", "zexpire", "instance", "hset", "hexpire"} => Kept(detail[s], b, now)
      /\ r.pc \in {"instance", "hset", "hexpire"} /\ ~r.lost =>
           Kept(zexpiry[s], b, now) /\ (b + Ttl < now \/ score[s][d] # NoScore)
      /\ r.pc \in {"hset", "hexpire"} => Kept(instance[d], b, now)
      /\ \A c \in Range(CidsOf(s)) : c \in Range(r.left) \/ Kept(field[c][s], b, now)
      /\ r.pc = "hexpire" => Kept(field[Head(r.left)][s], b, now)
  BY <1>2 DEF RegistrationOK, Members, s, d, b
<1>9. /\ r.pc \in {"zadd", "zexpire", "instance", "hset", "hexpire"} => Kept(detail'[s], b, now')
      /\ r.pc \in {"instance", "hset", "hexpire"} /\ ~r.lost =>
           Kept(zexpiry'[s], b, now') /\ (b + Ttl < now' \/ score'[s][d] # NoScore)
      /\ r.pc \in {"hset", "hexpire"} => Kept(instance'[d], b, now')
      /\ \A c \in Range(CidsOf(s)) : c \in Range(r.left) \/ Kept(field'[c][s], b, now')
      /\ r.pc = "hexpire" => Kept(field'[Head(r.left)][s], b, now')
  BY <1>5, <1>6, <1>7, <1>8
<1> QED
  BY <1>1, <1>4, <1>9 DEF r, s, d, b

LEMMA RegistrationStays ==
  ASSUME IInv, KeysGrow, NEW w \in Writers, writers[w].pc # "idle", writers'[w] = writers[w]
  PROVE  RegistrationOK(writers[w])'
BY Carried, Busy DEF RegistrationOK, Members

\* The searches do not notice a step of a registration, nor that time passes.
LEMMA SearchesStay ==
  ASSUME IInv, KeysGrow, searchers' = searchers
  PROVE  DueInv' /\ SearchesInv' /\ SearchComplete'
<1>1. now \in Int /\ now' \in Int /\ now <= now' /\ Ttl \in Int
  BY Bounds DEF KeysGrow
<1>2. ASSUME NEW q \in Searchers, NEW p \in searchers[q].due
      PROVE  p.since \in Int /\ p.since <= now' /\ Findable(p.did, p.svc, p.since)'
  <2>1. p \in [did: Dids, svc: Services, since: Int]
    BY DEF IInv, TypeOK, SearchRecords
  <2>2. p.since <= now /\ Findable(p.did, p.svc, p.since)
    BY DEF IInv, DueInv
  <2> QED
    BY <1>1, <2>1, <2>2, FindableStays
<1>3. DueInv'
  BY <1>2 DEF DueInv
<1>4. SearchesInv'
  <2> SUFFICES ASSUME NEW q \in Searchers PROVE SearchOK(searchers[q], now')
    BY DEF SearchesInv
  <2>1. SearchOK(searchers[q], now)
    BY DEF IInv, SearchesInv
  <2>2. \A p \in searchers[q].due : p.since + Ttl < now => p.since + Ttl < now'
    BY <1>1, <1>2
  <2> QED
    BY <2>1, <2>2 DEF SearchOK
<1>5. SearchComplete'
  BY DEF IInv, SearchComplete
<1> QED
  BY <1>3, <1>4, <1>5

LEMMA AckedStays ==
  ASSUME IInv, KeysGrow, acked' = acked
  PROVE  AckedInv'
<1>1. now \in Int /\ now' \in Int /\ now <= now'
  BY Bounds DEF KeysGrow
<1>2. ASSUME NEW d \in Dids, NEW s \in Services
      PROVE  acked[d][s] <= now' /\ Findable(d, s, acked[d][s])'
  <2>1. acked[d][s] \in Int /\ acked[d][s] <= now /\ Findable(d, s, acked[d][s])
    BY KeyTypes DEF IInv, AckedInv
  <2> QED
    BY <1>1, <2>1, FindableStays
<1> QED
  BY <1>2 DEF AckedInv

-----------------------------------------------------------------------------
(* The steps of RegisterInstance                                           *)

LEMMA Changed ==
  ASSUME IInv, NEW w \in Writers, NEW r \in WriterRecords,
         writers' = [writers EXCEPT ![w] = r]
  PROVE  /\ writers' \in [Writers -> WriterRecords]
         /\ writers'[w] = r
         /\ \A v \in Writers : v # w => writers'[v] = writers[v]
BY DEF IInv, TypeOK

\* A key without a time to live is that of a cut-off registration or of one
\* that is about to set it: w, or one that does nothing.
LEMMA ExpiresStays ==
  ASSUME IInv, NEW w \in Writers, \A v \in Writers : v # w => writers'[v] = writers[v],
         \A s \in Services : cidset'[s] = Forever =>
           \/ At(writers'[w], "cidsexpire", s) \/ <<"cids", s>> \in cut'
           \/ /\ cidset[s] = Forever /\ <<"cids", s>> \notin cut
              /\ ~At(writers[w], "cidsexpire", s),
         \A s \in Services : zexpiry'[s] = Forever =>
           \/ At(writers'[w], "zexpire", s) \/ <<"zset", s>> \in cut'
           \/ /\ zexpiry[s] = Forever /\ <<"zset", s>> \notin cut
              /\ ~At(writers[w], "zexpire", s),
         \A c \in Cids, s \in Services : field'[c][s] = Forever =>
           \/ At(writers'[w], "hexpire", s) /\ Head(writers'[w].left) = c
           \/ <<c, s>> \in cut'
           \/ /\ field[c][s] = Forever /\ <<c, s>> \notin cut
              /\ ~(At(writers[w], "hexpire", s) /\ Head(writers[w].left) = c)
  PROVE  IndexExpires'
<1>1. \A s \in Services :
        /\ cidset[s] = Forever =>
             <<"cids", s>> \in cut \/ \E v \in Writers : At(writers[v], "cidsexpire", s)
        /\ zexpiry[s] = Forever =>
             <<"zset", s>> \in cut \/ \E v \in Writers : At(writers[v], "zexpire", s)
        /\ \A c \in Cids : field[c][s] = Forever =>
             <<c, s>> \in cut \/ \E v \in Writers : At(writers[v], "hexpire", s)
                                                 /\ Head(writers[v].left) = c
  BY DEF IInv, IndexExpires
<1>2. ASSUME NEW s \in Services, cidset'[s] = Forever
      PROVE  <<"cids", s>> \in cut' \/ \E v \in Writers : At(writers'[v], "cidsexpire", s)
  <2>1. CASE /\ cidset[s] = Forever /\ <<"cids", s>> \notin cut
             /\ ~At(writers[w], "cidsexpire", s)
    <3>1. PICK v \in Writers : At(writers[v], "cidsexpire", s)
      BY <1>1, <2>1
    <3> QED
      BY <2>1, <3>1
  <2> QED
    BY <1>2, <2>1
<1>3. ASSUME NEW s \in Services, zexpiry'[s] = Forever
      PROVE  <<"zset", s>> \in cut' \/ \E v \in Writers : At(writers'[v], "zexpire", s)
  <2>1. CASE /\ zexpiry[s] = Forever /\ <<"zset", s>> \notin cut
             /\ ~At(writers[w], "zexpire", s)
    <3>1. PICK v \in Writers : At(writers[v], "zexpire", s)
      BY <1>1, <2>1
    <3> QED
      BY <2>1, <3>1
  <2> QED
    BY <1>3, <2>1
<1>4. ASSUME NEW s \in Services, NEW c \in Cids, field'[c][s] = Forever
      PROVE  <<c, s>> \in cut' \/ \E v \in Writers : At(writers'[v], "hexpire", s)
                                                  /\ Head(writers'[v].left) = c
  <2>1. CASE /\ field[c][s] = Forever /\ <<c, s>> \notin cut
             /\ ~(At(writers[w], "hexpire", s) /\ Head(writers[w].left) = c)
    <3>1. PICK v \in Writers : At(writers[v], "hexpire", s) /\ Head(writers[v].left) = c
      BY <1>1, <2>1
    <3> QED
      BY <2>1, <3>1
  <2> QED
    BY <1>4, <2>1
<1> QED
  BY <1>2, <1>3, <1>4, Zenon DEF IndexExpires, Forever

\* What is left to show for a step of registration w.
LEMMA RegisterStep ==
  ASSUME IInv, KeysGrow, NEW w \in Writers, searchers' = searchers,
         \A v \in Writers : v # w => writers'[v] = writers[v],
         writers'[w].pc # "idle" => RegistrationOK(writers[w])',
         TypeOK', ScoresInv', AckedInv', IndexExpires'
  PROVE  IInv'
<1>1. WritersInv'
  <2> SUFFICES ASSUME NEW v \in Writers, writers'[v].pc # "idle"
               PROVE  RegistrationOK(writers[v])'
    BY DEF WritersInv
  <2>1. CASE v = w
    BY <2>1
  <2>2. CASE v # w
    BY <2>2, RegistrationStays
  <2> QED
    BY <2>1, <2>2
<1>2. DueInv' /\ SearchesInv' /\ SearchComplete'
  BY SearchesStay
<1> QED
  BY <1>1, <1>2 DEF IInv

LEMMA UsedStep ==
  ASSUME IInv
  PROVE  /\ (used.calls < MaxCalls /\ used' = [used EXCEPT !.calls = @ + 1])
              => used' \in [calls: 0..MaxCalls, faults: 0..MaxFaults]
         /\ Fault => used' \in [calls: 0..MaxCalls, faults: 0..MaxFaults]
<1>1. /\ used \in [calls: 0..MaxCalls, faults: 0..MaxFaults]
      /\ MaxCalls \in Nat /\ MaxFaults \in Nat
  BY IndexAssumption DEF IInv, TypeOK
<1>2. used.calls \in Nat /\ used.faults \in Nat
  BY <1>1
<1> QED
  BY <1>1, <1>2 DEF Fault

LEMMA StartStep ==
  ASSUME IInv, NEW w \in Writers, NEW ad \in Ads, Register(w, ad)
  PROVE  IInv'
<1> DEFINE r == [pc |-> "cids", ad |-> ad, began |-> now, stamp |-> now,
                 left |-> CidsOf(ad.svc), lost |-> FALSE]
<1>1. /\ writers[w].pc = "idle" /\ writers' = [writers EXCEPT ![w] = r]
      /\ used.calls < MaxCalls /\ used' = [used EXCEPT !.calls = @ + 1]
      /\ UNCHANGED <<now, cidset, field, detail, score, zexpiry, instance, searchers, acked, cut>>
  BY DEF Register, index
<1>2. ad \in AllAds /\ ad.svc \in Services
  BY IndexAssumption DEF AllAds
<1>3. CidsOf(ad.svc) \in Seq(Cids) /\ CidsOf(ad.svc) # <<>>
  BY <1>2, IndexAssumption
<1>4. now \in Nat
  BY Bounds
<1>5. r \in WriterRecords
  BY <1>2, <1>3, <1>4 DEF WriterRecords
<1>6. r.pc = "cids" /\ r.ad = ad /\ r.began = now /\ r.stamp = now /\ r.left = CidsOf(ad.svc)
  OBVIOUS
<1> HIDE DEF r
<1>7. /\ writers' \in [Writers -> WriterRecords] /\ writers'[w] = r
      /\ \A v \in Writers : v # w => writers'[v] = writers[v]
  BY <1>1, <1>5, Changed
<1>8. KeysGrow
  BY <1>1, GrowsSame
<1>9. RegistrationOK(writers[w])'
  BY <1>1, <1>3, <1>4, <1>6, <1>7 DEF RegistrationOK
<1>10. TypeOK'
  BY <1>1, <1>7, UsedStep DEF IInv, TypeOK
<1>11. ScoresInv'
  BY <1>1 DEF IInv, ScoresInv, Members
<1>12. IndexExpires'
  <2>1. ~At(writers[w], "cidsexpire", ad.svc)
    BY <1>1 DEF At
  <2>2. \A s \in Services : /\ ~At(writers[w], "cidsexpire", s) /\ ~At(writers[w], "zexpire", s)
                            /\ ~At(writers[w], "hexpire", s)
    BY <1>1 DEF At
  <2> QED
    BY <1>1, <1>7, <2>2, ExpiresStays
<1> QED
  BY <1>1, <1>7, <1>8, <1>9, <1>10, <1>11, <1>12, AckedStays, RegisterStep

\* The fields of a registration whose next command changes.
LEMMA Gone ==
  ASSUME IInv, NEW w \in Writers, writers[w].pc # "idle",
         NEW pc \in {"cids", "cidsexpire", "detail", "zadd", "zexpire", "instance", "hset", "hexpire"},
         writers' = [writers EXCEPT ![w].pc = pc]
  PROVE  /\ writers' \in [Writers -> WriterRecords]
         /\ \A v \in Writers : v # w => writers'[v] = writers[v]
         /\ writers'[w].pc = pc /\ writers'[w].ad = writers[w].ad
         /\ writers'[w].began = writers[w].began /\ writers'[w].stamp = writers[w].stamp
         /\ writers'[w].left = writers[w].left /\ writers'[w].lost = writers[w].lost
<1> DEFINE r == [writers[w] EXCEPT !.pc = pc]
<1>1. writers[w] \in [pc: {"cids", "cidsexpire", "detail", "zadd", "zexpire", "instance",
                           "hset", "hexpire"},
                      ad: AllAds, began: Int, stamp: Int, left: Seq(Cids), lost: BOOLEAN]
  BY Busy
<1>2. r \in [pc: {"cids", "cidsexpire", "detail", "zadd", "zexpire", "instance", "hset", "hexpire"},
             ad: AllAds, began: Int, stamp: Int, left: Seq(Cids), lost: BOOLEAN]
  BY <1>1
<1>3. /\ r.pc = pc /\ r.ad = writers[w].ad /\ r.began = writers[w].began
      /\ r.stamp = writers[w].stamp /\ r.left = writers[w].left /\ r.lost = writers[w].lost
  BY <1>1
<1>4. writers' = [writers EXCEPT ![w] = r]
  BY DEF IInv, TypeOK
<1> HIDE DEF r
<1>5. r \in WriterRecords
  BY <1>2 DEF WriterRecords
<1> QED
  BY <1>3, <1>4, <1>5, Changed

LEMMA SetCidsStep ==
  ASSUME IInv, NEW w \in Writers, SetCids(w)
  PROVE  IInv'
<1> DEFINE k == writers[w].ad.svc
<1>1. /\ writers[w].pc = "cids" /\ writers' = [writers EXCEPT ![w].pc = "cidsexpire"]
      /\ cidset' = [cidset EXCEPT ![k] = Written(cidset[k])]
      /\ UNCHANGED <<now, field, detail, score, zexpiry, instance, searchers, acked, cut, used>>
  BY DEF SetCids, Goto
<1>2. k \in Services
  BY <1>1, Busy, SMTT(30)
<1>3. /\ writers' \in [Writers -> WriterRecords]
      /\ \A v \in Writers : v # w => writers'[v] = writers[v]
      /\ writers'[w].pc = "cidsexpire" /\ writers'[w].ad = writers[w].ad
      /\ writers'[w].began = writers[w].began /\ writers'[w].stamp = writers[w].stamp
      /\ writers'[w].left = writers[w].left
  BY <1>1, Gone
<1>4. KeysGrow
  BY <1>1, GrowsSame
<1>5. RegistrationOK(writers[w])'
  BY <1>1, <1>3, <1>4, Carried DEF RegistrationOK
<1>6. Forever \in Int /\ cidset \in [Services -> Int]
  BY Bounds DEF IInv, TypeOK
<1>7. cidset' \in [Services -> Int] /\ \A s \in Services : s # k => cidset'[s] = cidset[s]
  BY <1>1, <1>2, <1>6 DEF Written
<1>8. TypeOK'
  BY <1>1, <1>3, <1>7 DEF IInv, TypeOK
<1>9. ScoresInv'
  BY <1>1 DEF IInv, ScoresInv, Members
<1>10. IndexExpires'
  <2>1. \A s \in Services : /\ ~At(writers[w], "cidsexpire", s) /\ ~At(writers[w], "zexpire", s)
                            /\ ~At(writers[w], "hexpire", s)
    BY <1>1 DEF At
  <2>2. At(writers'[w], "cidsexpire", k)
    BY <1>3 DEF At
  <2> HIDE DEF k
  <2> QED
    BY <1>1, <1>3, <1>7, <2>1, <2>2, ExpiresStays
<1> QED
  BY <1>1, <1>3, <1>4, <1>5, <1>8, <1>9, <1>10, AckedStays, RegisterStep

LEMMA ExpireCidsStep ==
  ASSUME IInv, NEW w \in Writers, ExpireCids(w)
  PROVE  IInv'
<1> DEFINE k == writers[w].ad.svc
<1>1. /\ writers[w].pc = "cidsexpire" /\ writers' = [writers EXCEPT ![w].pc = "detail"]
      /\ cidset' = [cidset EXCEPT ![k] = Renewed(cidset[k])]
      /\ cut' = cut \ {<<"cids", k>>}
      /\ UNCHANGED <<now, field, detail, score, zexpiry, instance, searchers, acked, used>>
  BY DEF ExpireCids, Goto
<1>2. k \in Services
  BY <1>1, Busy, SMTT(30)
<1>3. /\ writers' \in [Writers -> WriterRecords]
      /\ \A v \in Writers : v # w => writers'[v] = writers[v]
      /\ writers'[w].pc = "detail" /\ writers'[w].ad = writers[w].ad
      /\ writers'[w].began = writers[w].began /\ writers'[w].stamp = writers[w].stamp
      /\ writers'[w].left = writers[w].left
  BY <1>1, Gone
<1>4. KeysGrow
  BY <1>1, GrowsSame
<1>5. RegistrationOK(writers[w])'
  BY <1>1, <1>3, <1>4, Carried DEF RegistrationOK
<1>6. cidset \in [Services -> Int] /\ now + Ttl \in Int /\ now + Ttl # Forever /\ Absent # Forever
  BY Bounds DEF IInv, TypeOK
<1>7. cidset' \in [Services -> Int] /\ cidset'[k] # Forever
      /\ \A s \in Services : s # k => cidset'[s] = cidset[s]
  BY <1>1, <1>2, <1>6 DEF Renewed, Alive
<1>8. cut' \subseteq cut
  BY <1>1
<1>9. TypeOK'
  BY <1>1, <1>3, <1>7, <1>8 DEF IInv, TypeOK
<1>10. ScoresInv'
  BY <1>1 DEF IInv, ScoresInv, Members
<1>11. IndexExpires'
  <2>1. \A s \in Services : /\ ~At(writers[w], "zexpire", s) /\ ~At(writers[w], "hexpire", s)
                            /\ s # k => ~At(writers[w], "cidsexpire", s)
    BY <1>1 DEF At
  <2>2. \A s \in Services : s # k /\ <<"cids", s>> \in cut => <<"cids", s>> \in cut'
    BY <1>1
  <2>3. \A s \in Services : <<"zset", s>> \in cut => <<"zset", s>> \in cut'
    BY <1>1
  <2>4. \A c \in Cids, s \in Services : <<c, s>> \in cut => <<c, s>> \in cut'
    <3>1. \A c \in Cids : c # "cids"
      BY IndexAssumption
    <3> QED
      BY <1>1, <3>1
  <2> HIDE DEF k
  <2> QED
    BY <1>1, <1>3, <1>7, <2>1, <2>2, <2>3, <2>4, ExpiresStays
<1> QED
  BY <1>1, <1>3, <1>4, <1>5, <1>9, <1>10, <1>11, AckedStays, RegisterStep

LEMMA SetDetailStep ==
  ASSUME IInv, NEW w \in Writers, SetDetail(w)
  PROVE  IInv'
<1> DEFINE k == writers[w].ad.svc
           r == [writers[w] EXCEPT !.pc = "zadd", !.stamp = now]
<1>1. /\ writers[w].pc = "detail"
      /\ detail' = [detail EXCEPT ![k] = now + Ttl]
      /\ UNCHANGED <<now, cidset, field, score, zexpiry, instance, searchers, acked, cut, used>>
  BY DEF SetDetail
<1>2. writers' = [writers EXCEPT ![w] = r]
  BY DEF SetDetail, IInv, TypeOK
<1>3. /\ writers[w] \in [pc: {"cids", "cidsexpire", "detail", "zadd", "zexpire", "instance",
                              "hset", "hexpire"},
                         ad: AllAds, began: Int, stamp: Int, left: Seq(Cids), lost: BOOLEAN]
      /\ k \in Services /\ writers[w].began \in Int /\ writers[w].began <= now
  BY <1>1, Busy
<1>4. /\ now \in Nat /\ Ttl \in Int /\ now + Ttl \in Int /\ detail \in [Services -> Int]
  BY Bounds DEF IInv, TypeOK
<1>5. r \in [pc: {"cids", "cidsexpire", "detail", "zadd", "zexpire", "instance", "hset", "hexpire"},
             ad: AllAds, began: Int, stamp: Int, left: Seq(Cids), lost: BOOLEAN]
  <2>1. now \in Int
    BY <1>4
  <2> QED
    BY <1>3, <2>1
<1>6. /\ r.pc = "zadd" /\ r.ad = writers[w].ad /\ r.began = writers[w].began
      /\ r.stamp = now /\ r.left = writers[w].left
  BY <1>3
<1> HIDE DEF r
<1>7. r \in WriterRecords
  BY <1>5 DEF WriterRecords
<1>8. /\ writers' \in [Writers -> WriterRecords] /\ writers'[w] = r
      /\ \A v \in Writers : v # w => writers'[v] = writers[v]
  BY <1>2, <1>7, Changed
<1>9. KeysGrow
  BY <1>3, GrowsDetail
<1>10. detail' \in [Services -> Int] /\ detail'[k] = now + Ttl
  BY <1>1, <1>3, <1>4
<1>11. RegistrationOK(writers[w])'
  <2>1. Kept(detail'[k], writers[w].began, now)
    BY <1>3, <1>4, <1>10 DEF Kept
  <2>2. now \in 0..now
    BY <1>4
  <2> QED
    BY <1>1, <1>6, <1>8, <1>9, <2>1, <2>2, Carried DEF RegistrationOK
<1>12. TypeOK'
  BY <1>1, <1>8, <1>10 DEF IInv, TypeOK
<1>13. ScoresInv'
  BY <1>1 DEF IInv, ScoresInv, Members
<1>14. IndexExpires'
  <2>1. \A s \in Services : /\ ~At(writers[w], "cidsexpire", s) /\ ~At(writers[w], "zexpire", s)
                            /\ ~At(writers[w], "hexpire", s)
    BY <1>1 DEF At
  <2> QED
    BY <1>1, <1>8, <2>1, ExpiresStays
<1> QED
  BY <1>1, <1>8, <1>9, <1>11, <1>12, <1>13, <1>14, AckedStays, RegisterStep

LEMMA ZAddStep ==
  ASSUME IInv, NEW w \in Writers, ZAddGT(w)
  PROVE  IInv'
<1> DEFINE k == writers[w].ad.svc
           d == writers[w].ad.did
<1>1. /\ writers[w].pc = "zadd" /\ writers' = [writers EXCEPT ![w].pc = "zexpire"]
      /\ zexpiry' = [zexpiry EXCEPT ![k] = Written(zexpiry[k])]
      /\ score' = [score EXCEPT ![k][d] = NewScore(score[k][d], writers[w].stamp)]
      /\ UNCHANGED <<now, cidset, field, detail, instance, searchers, acked, cut, used>>
  BY DEF ZAddGT, Goto
<1>2. k \in Services /\ d \in Dids /\ writers[w].stamp \in Nat
  BY <1>1, Busy, SMTT(30)
<1>3. /\ writers' \in [Writers -> WriterRecords]
      /\ \A v \in Writers : v # w => writers'[v] = writers[v]
      /\ writers'[w].pc = "zexpire" /\ writers'[w].ad = writers[w].ad
      /\ writers'[w].began = writers[w].began /\ writers'[w].stamp = writers[w].stamp
      /\ writers'[w].left = writers[w].left
  BY <1>1, Gone
<1>4. /\ KeysGrow
      /\ score' \in [Services -> [Dids -> Int]] /\ zexpiry' \in [Services -> Int]
      /\ \A x \in Services, y \in Dids : score'[x][y] >= NoScore
  BY <1>2, GrowsZAdd, SMTT(30)
<1>5. RegistrationOK(writers[w])'
  BY <1>1, <1>3, <1>4, Carried, ZenonT(30) DEF RegistrationOK
<1>6. Forever \in Int /\ Forever # Absent /\ zexpiry \in [Services -> Int]
      /\ score \in [Services -> [Dids -> Int]]
  BY Bounds DEF IInv, TypeOK
<1>7. zexpiry'[k] # Absent /\ (\A s \in Services : s # k => zexpiry'[s] = zexpiry[s])
  BY <1>1, <1>2, <1>6 DEF Written, Alive
<1>8. \A s \in Services : s # k => score'[s] = score[s]
  BY <1>1, <1>6
<1>9. TypeOK'
  BY <1>1, <1>3, <1>4 DEF IInv, TypeOK
<1> HIDE DEF k
<1>10. ScoresInv'
  <2> SUFFICES ASSUME NEW s \in Services, NEW e \in Dids
               PROVE  score'[s][e] # NoScore => zexpiry'[s] # Absent
    BY <1>4 DEF ScoresInv, Members, Alive
  <2>1. CASE s = k
    BY <1>7, <2>1
  <2>2. CASE s # k
    BY <1>7, <1>8, <2>2 DEF IInv, ScoresInv, Members, Alive
  <2> QED
    BY <2>1, <2>2
<1>11. IndexExpires'
  <2>1. \A s \in Services : /\ ~At(writers[w], "cidsexpire", s) /\ ~At(writers[w], "zexpire", s)
                            /\ ~At(writers[w], "hexpire", s)
    BY <1>1 DEF At
  <2>2. At(writers'[w], "zexpire", k)
    BY <1>3 DEF At, k
  <2> QED
    BY <1>1, <1>3, <1>7, <2>1, <2>2, ExpiresStays
<1> QED
  BY <1>1, <1>3, <1>4, <1>5, <1>9, <1>10, <1>11, AckedStays, RegisterStep

LEMMA ExpireSetStep ==
  ASSUME IInv, NEW w \in Writers, ExpireSet(w)
  PROVE  IInv'
<1> DEFINE k == writers[w].ad.svc
           d == writers[w].ad.did
           b == writers[w].began
           lost == d \notin Members(k)
           r == [writers[w] EXCEPT !.pc = "instance", !.lost = lost]
<1>1. /\ writers[w].pc = "zexpire"
      /\ zexpiry' = [zexpiry EXCEPT ![k] = Renewed(zexpiry[k])]
      /\ cut' = cut \ {<<"zset", k>>}
      /\ UNCHANGED <<now, cidset, field, detail, score, instance, searchers, acked, used>>
  BY DEF ExpireSet
<1>2. writers' = [writers EXCEPT ![w] = r]
  BY DEF ExpireSet, IInv, TypeOK
<1>3. /\ writers[w] \in [pc: {"cids", "cidsexpire", "detail", "zadd", "zexpire", "instance",
                              "hset", "hexpire"},
                         ad: AllAds, began: Int, stamp: Int, left: Seq(Cids), lost: BOOLEAN]
      /\ k \in Services /\ d \in Dids /\ b \in Int /\ b <= now
  BY <1>1, Busy
<1>4. /\ now \in Nat /\ Ttl \in Int /\ now + Ttl \in Int /\ zexpiry \in [Services -> Int]
      /\ now + Ttl # Forever /\ Absent # Forever /\ now + Ttl # Absent
  BY Bounds DEF IInv, TypeOK
<1>5. lost \in BOOLEAN
  OBVIOUS
<1> HIDE DEF lost
<1>6. r \in [pc: {"cids", "cidsexpire", "detail", "zadd", "zexpire", "instance", "hset", "hexpire"},
             ad: AllAds, began: Int, stamp: Int, left: Seq(Cids), lost: BOOLEAN]
  BY <1>3, <1>5
<1>7. /\ r.pc = "instance" /\ r.ad = writers[w].ad /\ r.began = writers[w].began
      /\ r.stamp = writers[w].stamp /\ r.left = writers[w].left /\ r.lost = lost
  BY <1>3
<1> HIDE DEF r
<1>8. r \in WriterRecords
  BY <1>6 DEF WriterRecords
<1>9. /\ writers' \in [Writers -> WriterRecords] /\ writers'[w] = r
      /\ \A v \in Writers : v # w => writers'[v] = writers[v]
  BY <1>2, <1>8, Changed
<1>10. KeysGrow
  BY <1>3, GrowsExpireSet
<1>11. /\ zexpiry' \in [Services -> Int] /\ zexpiry'[k] # Forever
       /\ (zexpiry[k] # Absent => zexpiry'[k] = now + Ttl)
       /\ \A s \in Services : s # k => zexpiry'[s] = zexpiry[s]
  BY <1>1, <1>3, <1>4 DEF Renewed, Alive
<1>12. ~lost => Kept(zexpiry'[k], b, now) /\ score[k][d] # NoScore
  <2> HAVE ~lost
  <2>1. score[k][d] # NoScore
    BY DEF lost, Members
  <2>2. zexpiry[k] # Absent
    BY <1>3, <2>1, SMTT(30) DEF IInv, ScoresInv, Members, Alive
  <2> QED
    BY <1>3, <1>4, <1>11, <2>1, <2>2 DEF Kept
<1>13. RegistrationOK(writers[w])'
  BY <1>1, <1>3, <1>7, <1>9, <1>10, <1>12, Carried DEF RegistrationOK, Members
<1>14. cut' \subseteq cut
  BY <1>1
<1>15. TypeOK'
  BY <1>1, <1>9, <1>11, <1>14 DEF IInv, TypeOK
<1> HIDE DEF k
<1>16. ScoresInv'
  <2>1. zexpiry[k] # Absent => zexpiry'[k] # Absent
    BY <1>4, <1>11
  <2> QED
    BY <1>1, <1>11, <2>1 DEF IInv, ScoresInv, Members, Alive
<1>17. IndexExpires'
  <2>1. \A s \in Services : /\ ~At(writers[w], "cidsexpire", s) /\ ~At(writers[w], "hexpire", s)
                            /\ s # k => ~At(writers[w], "zexpire", s)
    BY <1>1 DEF At, k
  <2>2. \A s \in Services : s # k /\ <<"zset", s>> \in cut => <<"zset", s>> \in cut'
    BY <1>1
  <2>3. \A s \in Services : <<"cids", s>> \in cut => <<"cids", s>> \in cut'
    BY <1>1
  <2>4. \A c \in Cids, s \in Services : <<c, s>> \in cut => <<c, s>> \in cut'
    <3>1. \A c \in Cids : c # "zset"
      BY IndexAssumption
    <3> QED
      BY <1>1, <3>1
  <2> QED
    BY <1>1, <1>9, <1>11, <2>1, <2>2, <2>3, <2>4, ExpiresStays
<1> QED
  BY <1>1, <1>9, <1>10, <1>13, <1>15, <1>16, <1>17, AckedStays, RegisterStep

LEMMA SetInstanceStep ==
  ASSUME IInv, NEW w \in Writers, SetInstance(w)
  PROVE  IInv'
<1> DEFINE d == writers[w].ad.did
<1>1. /\ writers[w].pc = "instance" /\ writers' = [writers EXCEPT ![w].pc = "hset"]
      /\ instance' = [instance EXCEPT ![d] = now + Ttl]
      /\ UNCHANGED <<now, cidset, field, detail, score, zexpiry, searchers, acked, cut, used>>
  BY DEF SetInstance, Goto
<1>2. d \in Dids /\ writers[w].began \in Int /\ writers[w].began <= now
  BY <1>1, Busy
<1>3. /\ writers' \in [Writers -> WriterRecords]
      /\ \A v \in Writers : v # w => writers'[v] = writers[v]
      /\ writers'[w].pc = "hset" /\ writers'[w].ad = writers[w].ad
      /\ writers'[w].began = writers[w].began /\ writers'[w].stamp = writers[w].stamp
      /\ writers'[w].left = writers[w].left /\ writers'[w].lost = writers[w].lost
  BY <1>1, Gone
<1>4. KeysGrow
  BY <1>2, GrowsInstance
<1>5. now \in Int /\ Ttl \in Int /\ instance \in [Dids -> Int]
  BY Bounds DEF IInv, TypeOK
<1>6. instance' \in [Dids -> Int] /\ instance'[d] = now + Ttl
  BY <1>1, <1>2, <1>5
<1>7. RegistrationOK(writers[w])'
  <2>1. Kept(instance'[d], writers[w].began, now)
    BY <1>2, <1>5, <1>6 DEF Kept
  <2> DEFINE r == writers[w]
             s == r.ad.svc
             b == r.began
  <2>2. /\ b \in 0..now' /\ r.stamp \in 0..now' /\ r.left # <<>>
        /\ Kept(detail'[s], b, now')
        /\ ~r.lost => Kept(zexpiry'[s], b, now') /\ (b + Ttl < now' \/ score'[s][d] # NoScore)
        /\ \A c \in Range(CidsOf(s)) : c \in Range(r.left) \/ Kept(field'[c][s], b, now')
    BY <1>1, <1>4, Carried
  <2> QED
    BY <1>1, <1>2, <1>3, <2>1, <2>2 DEF RegistrationOK, Members
<1>8. TypeOK'
  BY <1>1, <1>3, <1>6 DEF IInv, TypeOK
<1>9. ScoresInv'
  BY <1>1 DEF IInv, ScoresInv, Members
<1>10. IndexExpires'
  <2>1. \A s \in Services : /\ ~At(writers[w], "cidsexpire", s) /\ ~At(writers[w], "zexpire", s)
                            /\ ~At(writers[w], "hexpire", s)
    BY <1>1 DEF At
  <2> QED
    BY <1>1, <1>3, <2>1, ExpiresStays
<1> QED
  BY <1>1, <1>3, <1>4, <1>7, <1>8, <1>9, <1>10, AckedStays, RegisterStep

LEMMA HSetStep ==
  ASSUME IInv, NEW w \in Writers, HSet(w)
  PROVE  IInv'
<1> DEFINE k == writers[w].ad.svc
           b == writers[w].began
           c == Head(writers[w].left)
<1>1. /\ writers[w].pc = "hset" /\ writers' = [writers EXCEPT ![w].pc = "hexpire"]
      /\ field' = [field EXCEPT ![c][k] = Forever]
      /\ UNCHANGED <<now, cidset, detail, score, zexpiry, instance, searchers, acked, cut, used>>
  BY DEF HSet, Goto
<1>2. k \in Services /\ writers[w].left \in Seq(Cids) /\ writers[w].left # <<>>
      /\ b \in Int /\ b <= now
  BY <1>1, Busy
<1>3. c \in Cids
  BY <1>2, SMTT(30)
<1>4. /\ writers' \in [Writers -> WriterRecords]
      /\ \A v \in Writers : v # w => writers'[v] = writers[v]
      /\ writers'[w].pc = "hexpire" /\ writers'[w].ad = writers[w].ad
      /\ writers'[w].began = writers[w].began /\ writers'[w].stamp = writers[w].stamp
      /\ writers'[w].left = writers[w].left /\ writers'[w].lost = writers[w].lost
  BY <1>1, Gone
<1>5. field[c][k] \in Int /\ Forever \in Int
  BY <1>2, <1>3, KeyTypes, Bounds
<1>6. Grows(field[c][k], Forever, now, now)
  BY <1>5, GrowsBy
<1> HIDE DEF c, k
<1>7. /\ KeysGrow /\ field' \in [Cids -> [Services -> Int]]
      /\ \A x \in Cids, y \in Services :
           field'[x][y] = IF x = c /\ y = k THEN Forever ELSE field[x][y]
  BY <1>1, <1>2, <1>3, <1>5, <1>6, GrowsField, ZenonT(30)
<1>8. RegistrationOK(writers[w])'
  <2> DEFINE r == writers[w]
             d == r.ad.did
  <2>1. /\ b \in 0..now' /\ r.stamp \in 0..now' /\ r.left # <<>>
        /\ Kept(detail'[k], b, now')
        /\ ~r.lost => Kept(zexpiry'[k], b, now') /\ (b + Ttl < now' \/ score'[k][d] # NoScore)
        /\ Kept(instance'[d], b, now')
        /\ \A x \in Range(CidsOf(k)) : x \in Range(r.left) \/ Kept(field'[x][k], b, now')
    BY <1>1, <1>7, Carried DEF k
  <2>2. Kept(field'[c][k], b, now')
    BY <1>1, <1>2, <1>3, <1>7, Bounds DEF Kept
  <2> QED
    <3> DEFINE g == writers'[w]
    <3>1. now' = now
      BY <1>1
    <3>2. /\ g.pc = "hexpire" /\ g.ad = r.ad /\ g.began = b /\ g.stamp = r.stamp
          /\ g.left = r.left /\ g.lost = r.lost /\ g.ad.svc = k /\ Head(g.left) = c
      BY <1>4 DEF k, c
    <3>3. g.ad.did \in Dids
      BY <1>1, <1>4, Busy
    <3> HIDE DEF g
    <3>4. /\ g.began \in 0..now' /\ g.stamp \in 0..now' /\ g.left # <<>>
          /\ Kept(detail'[g.ad.svc], g.began, now')
          /\ ~g.lost => /\ Kept(zexpiry'[g.ad.svc], g.began, now')
                        /\ g.began + Ttl < now' \/ score'[g.ad.svc][g.ad.did] # NoScore
          /\ Kept(instance'[g.ad.did], g.began, now')
          /\ Kept(field'[Head(g.left)][g.ad.svc], g.began, now')
      BY <2>1, <2>2, <3>1, <3>2
    <3>5. \A x \in Range(CidsOf(g.ad.svc)) :
            x \in Range(g.left) \/ Kept(field'[x][g.ad.svc], g.began, now')
      BY <2>1, <3>2
    <3> QED
      BY <3>3, <3>4, <3>5 DEF RegistrationOK, Members, g
<1>9. TypeOK'
  BY <1>1, <1>4, <1>7 DEF IInv, TypeOK
<1>10. ScoresInv'
  BY <1>1 DEF IInv, ScoresInv, Members
<1>11. IndexExpires'
  <2>1. \A s \in Services : /\ ~At(writers[w], "cidsexpire", s) /\ ~At(writers[w], "zexpire", s)
                            /\ ~At(writers[w], "hexpire", s)
    BY <1>1 DEF At
  <2>2. At(writers'[w], "hexpire", k) /\ Head(writers'[w].left) = c
    BY <1>4 DEF At, k, c
  <2> QED
    BY <1>1, <1>4, <1>7, <2>1, <2>2, ExpiresStays
<1> QED
  BY <1>1, <1>4, <1>7, <1>8, <1>9, <1>10, <1>11, AckedStays, RegisterStep

\* The cids a registration still has to do: the next one and the others.
LEMMA HeadAndTail ==
  ASSUME NEW q \in Seq(Cids), q # <<>>
  PROVE  /\ Head(q) \in Cids /\ Tail(q) \in Seq(Cids)
         /\ Len(q) > 1 => Tail(q) # <<>>
         /\ \A c \in Range(q) : c = Head(q) \/ c \in Range(Tail(q))
         /\ ~(Len(q) > 1) => \A c \in Range(q) : c = Head(q)
<1>1. Len(q) \in Nat /\ Len(q) > 0 /\ DOMAIN q = 1..Len(q) /\ Head(q) = q[1]
  OBVIOUS
<1>2. Tail(q) \in Seq(Cids) /\ DOMAIN Tail(q) = 1..(Len(q) - 1)
      /\ Len(Tail(q)) = Len(q) - 1
      /\ \A i \in 1..(Len(q) - 1) : Tail(q)[i] = q[i + 1]
  BY <1>1
<1>3. ASSUME NEW i \in 1..Len(q)
      PROVE  q[i] = q[1] \/ (Len(q) > 1 /\ q[i] \in Range(Tail(q)))
  <2>1. CASE i = 1
    BY <2>1
  <2>2. CASE i > 1
    <3>1. i - 1 \in 1..(Len(q) - 1) /\ Len(q) > 1 /\ (i - 1) + 1 = i
      BY <1>1, <2>2
    <3>2. Tail(q)[i - 1] = q[i]
      BY <1>2, <3>1
    <3> QED
      BY <1>2, <3>1, <3>2 DEF Range
  <2> QED
    BY <1>1, <2>1, <2>2
<1>4. \A c \in Range(q) : c = q[1] \/ (Len(q) > 1 /\ c \in Range(Tail(q)))
  BY <1>1, <1>3 DEF Range
<1>5. Len(q) > 1 => Tail(q) # <<>>
  <2>1. Len(<<>>) = 0
    OBVIOUS
  <2>2. Len(q) > 1 => Len(Tail(q)) # 0
    BY <1>1, <1>2, SMTT(30)
  <2> QED
    BY <2>1, <2>2, Zenon
<1>6. q[1] \in Cids
  BY <1>1
<1> QED
  BY <1>1, <1>2, <1>4, <1>5, <1>6

LEMMA HExpireStep ==
  ASSUME IInv, NEW w \in Writers, HExpire(w)
  PROVE  IInv'
<1> DEFINE r == writers[w]
           k == r.ad.svc
           d == r.ad.did
           b == r.began
           c == Head(r.left)
           e == Renewed(field[c][k])
<1>1. /\ r.pc = "hexpire" /\ field' = [field EXCEPT ![c][k] = e] /\ cut' = cut \ {<<c, k>>}
      /\ UNCHANGED <<now, cidset, detail, score, zexpiry, instance, searchers, used>>
  BY DEF HExpire
<1>2. /\ r \in [pc: {"cids", "cidsexpire", "detail", "zadd", "zexpire", "instance", "hset", "hexpire"},
               ad: AllAds, began: Int, stamp: Int, left: Seq(Cids), lost: BOOLEAN]
      /\ k \in Services /\ d \in Dids /\ b \in Int /\ b <= now
      /\ r.left \in Seq(Cids) /\ r.left # <<>>
  BY <1>1, Busy
<1>3. /\ c \in Cids /\ Tail(r.left) \in Seq(Cids)
      /\ Len(r.left) > 1 => Tail(r.left) # <<>>
      /\ \A x \in Range(r.left) : x = c \/ x \in Range(Tail(r.left))
      /\ ~(Len(r.left) > 1) => \A x \in Range(r.left) : x = c
  BY <1>2, HeadAndTail
<1>4. field[c][k] \in Int /\ now + Ttl \in Int /\ now + Ttl # Forever /\ Absent # Forever
  <2>1. field[c][k] \in Int
    BY <1>2, <1>3, KeyTypes
  <2> QED
    BY <2>1, Bounds
<1>5. e \in Int /\ e # Forever
  BY <1>4, Bounds DEF Renewed, Alive
<1>6. Grows(field[c][k], e, now, now)
  BY <1>4, GrowsBy
<1> HIDE DEF c, e, k
<1>7. /\ KeysGrow /\ field' \in [Cids -> [Services -> Int]]
      /\ \A x \in Cids, y \in Services : field'[x][y] = IF x = c /\ y = k THEN e ELSE field[x][y]
  <2>1. field' = [field EXCEPT ![c][k] = e] /\ UNCHANGED <<now, detail, zexpiry, instance, score>>
    BY <1>1
  <2>2. c \in Cids /\ k \in Services
    BY <1>2, <1>3
  <2> QED
    BY <1>5, <1>6, <2>1, <2>2, GrowsField, ZenonT(30)
<1>8. /\ b \in 0..now' /\ r.stamp \in 0..now' /\ r.left # <<>>
      /\ Kept(detail'[k], b, now')
      /\ ~r.lost => Kept(zexpiry'[k], b, now') /\ (b + Ttl < now' \/ score'[k][d] # NoScore)
      /\ Kept(instance'[d], b, now')
      /\ \A x \in Range(CidsOf(k)) : x \in Range(r.left) \/ Kept(field'[x][k], b, now')
      /\ Kept(field'[c][k], b, now')
  BY <1>1, <1>7, Carried DEF c, k
<1>9. ScoresInv'
  BY <1>1 DEF IInv, ScoresInv, Members
<1>10. ASSUME \A v \in Writers : v # w => writers'[v] = writers[v]
       PROVE  IndexExpires'
  <2>1. \A s \in Services : /\ ~At(writers[w], "cidsexpire", s) /\ ~At(writers[w], "zexpire", s)
                            /\ s # k => ~At(writers[w], "hexpire", s)
    BY <1>1 DEF At, k
  <2>2. \A x \in Cids : x # "cids" /\ x # "zset"
    BY IndexAssumption
  <2>3. \A s \in Services : /\ <<"cids", s>> \in cut => <<"cids", s>> \in cut'
                            /\ <<"zset", s>> \in cut => <<"zset", s>> \in cut'
    BY <1>1, <1>3, <2>2
  <2>4. \A x \in Cids, s \in Services :
          (x # c \/ s # k) /\ <<x, s>> \in cut => <<x, s>> \in cut'
    BY <1>1
  <2>5. ASSUME NEW x \in Cids, NEW s \in Services, field'[x][s] = Forever
        PROVE  \/ <<x, s>> \in cut'
               \/ /\ field[x][s] = Forever /\ <<x, s>> \notin cut
                  /\ ~(At(writers[w], "hexpire", s) /\ Head(writers[w].left) = x)
    <3>1. (x # c \/ s # k) /\ field[x][s] = Forever
      BY <1>5, <1>7, <2>5
    <3>2. ~(At(writers[w], "hexpire", s) /\ Head(writers[w].left) = x)
      BY <3>1 DEF At, c, k
    <3> QED
      BY <2>4, <3>1, <3>2
  <2>6. \A s \in Services : cidset'[s] = Forever =>
          \/ At(writers'[w], "cidsexpire", s) \/ <<"cids", s>> \in cut'
          \/ /\ cidset[s] = Forever /\ <<"cids", s>> \notin cut
             /\ ~At(writers[w], "cidsexpire", s)
    BY <1>1, <2>1, <2>3
  <2>7. \A s \in Services : zexpiry'[s] = Forever =>
          \/ At(writers'[w], "zexpire", s) \/ <<"zset", s>> \in cut'
          \/ /\ zexpiry[s] = Forever /\ <<"zset", s>> \notin cut
             /\ ~At(writers[w], "zexpire", s)
    BY <1>1, <2>1, <2>3
  <2>8. \A x \in Cids, s \in Services : field'[x][s] = Forever =>
          \/ At(writers'[w], "hexpire", s) /\ Head(writers'[w].left) = x
          \/ <<x, s>> \in cut'
          \/ /\ field[x][s] = Forever /\ <<x, s>> \notin cut
             /\ ~(At(writers[w], "hexpire", s) /\ Head(writers[w].left) = x)
    BY <2>5
  <2> QED
    BY <1>10, <2>6, <2>7, <2>8, ExpiresStays
<1>11. cut' \subseteq cut
  BY <1>1
<1>12. CASE MoreCids(r)
  <2> DEFINE f == [r EXCEPT !.pc = "hset", !.left = Tail(r.left)]
  <2>1. writers' = [writers EXCEPT ![w] = f] /\ acked' = acked
    BY <1>12 DEF HExpire, IInv, TypeOK
  <2>2. f \in [pc: {"cids", "cidsexpire", "detail", "zadd", "zexpire", "instance", "hset", "hexpire"},
               ad: AllAds, began: Int, stamp: Int, left: Seq(Cids), lost: BOOLEAN]
    BY <1>2, <1>3
  <2>3. /\ f.pc = "hset" /\ f.ad = r.ad /\ f.began = r.began /\ f.stamp = r.stamp
        /\ f.left = Tail(r.left) /\ f.lost = r.lost
    BY <1>2
  <2> HIDE DEF f
  <2>4. f \in WriterRecords
    BY <2>2 DEF WriterRecords
  <2>5. /\ writers' \in [Writers -> WriterRecords] /\ writers'[w] = f
        /\ \A v \in Writers : v # w => writers'[v] = writers[v]
    BY <2>1, <2>4, Changed
  <2>6. Len(r.left) > 1
    BY <1>12 DEF MoreCids
  <2>7. \A x \in Range(CidsOf(k)) : x \in Range(Tail(r.left)) \/ Kept(field'[x][k], b, now')
    BY <1>3, <1>8
  <2>8. RegistrationOK(writers[w])'
    <3>1. f.left # <<>>
      BY <1>3, <2>3, <2>6, SMTT(30)
    <3>2. /\ f.began \in 0..now' /\ f.stamp \in 0..now'
          /\ Kept(detail'[f.ad.svc], f.began, now')
          /\ ~f.lost => /\ Kept(zexpiry'[f.ad.svc], f.began, now')
                        /\ f.began + Ttl < now' \/ score'[f.ad.svc][f.ad.did] # NoScore
          /\ Kept(instance'[f.ad.did], f.began, now')
      BY <1>8, <2>3 DEF k
    <3>3. \A x \in Range(CidsOf(f.ad.svc)) :
            x \in Range(f.left) \/ Kept(field'[x][f.ad.svc], f.began, now')
      BY <2>3, <2>7 DEF k
    <3>4. f.ad.did \in Dids
      BY <1>2, <2>3
    <3>5. f.pc # "hexpire"
      BY <2>3
    <3> QED
      BY <2>5, <3>1, <3>2, <3>3, <3>4, <3>5 DEF RegistrationOK, Members
  <2>9. TypeOK'
    BY <1>1, <1>7, <1>11, <2>1, <2>5 DEF IInv, TypeOK
  <2> QED
    BY <1>1, <1>7, <1>9, <1>10, <2>1, <2>5, <2>8, <2>9, AckedStays, RegisterStep
<1>13. CASE ~MoreCids(r)
  <2> DEFINE since == IF acked[d][k] < b /\ ~r.lost THEN b ELSE acked[d][k]
  <2>1. /\ writers' = [writers EXCEPT ![w] = NoWriter]
        /\ acked' = [acked EXCEPT ![d][k] = since]
    BY <1>13 DEF HExpire, k
  <2>2. NoWriter \in WriterRecords /\ NoWriter.pc = "idle"
    BY DEF WriterRecords, NoWriter
  <2>3. /\ writers' \in [Writers -> WriterRecords] /\ writers'[w].pc = "idle"
        /\ \A v \in Writers : v # w => writers'[v] = writers[v]
    BY <2>1, <2>2, Changed
  <2>4. acked \in [Dids -> [Services -> Int]] /\ acked[d][k] \in Int
    BY <1>2, SMTT(30) DEF IInv, TypeOK
  <2>5. since \in Int
    BY <1>2, <2>4
  <2>6. \A x \in Range(CidsOf(k)) : Kept(field'[x][k], b, now')
    <3>1. ~(Len(r.left) > 1)
      BY <1>13 DEF MoreCids
    <3> QED
      BY <1>3, <1>8, <3>1
  <2>7. since = acked[d][k] \/ (since = b /\ ~r.lost)
    OBVIOUS
  <2> HIDE DEF since, r, k, d, b
  <2>8. acked' \in [Dids -> [Services -> Int]]
        /\ \A x \in Dids, y \in Services : acked'[x][y] = IF x = d /\ y = k THEN since ELSE acked[x][y]
    <3>1. acked' = [acked EXCEPT ![d] = [acked[d] EXCEPT ![k] = since]]
      BY <2>1
    <3>2. [acked[d] EXCEPT ![k] = since] \in [Services -> Int]
      BY <1>2, <2>4, <2>5
    <3>3. acked' \in [Dids -> [Services -> Int]]
      BY <2>4, <3>1, <3>2
    <3> QED
      BY <1>2, <2>4, <3>1, <3>3
  <2>9. AckedInv'
    <3> SUFFICES ASSUME NEW x \in Dids, NEW y \in Services
                 PROVE  acked'[x][y] <= now' /\ Findable(x, y, acked[x][y])'
      BY DEF AckedInv
    <3>1. acked[x][y] \in Int /\ acked[x][y] <= now /\ Findable(x, y, acked[x][y])
      BY KeyTypes DEF IInv, AckedInv
    <3>2. CASE acked'[x][y] = acked[x][y]
      <4>1. /\ Kept(detail'[y], acked[x][y], now') /\ Kept(zexpiry'[y], acked[x][y], now')
            /\ Kept(instance'[x], acked[x][y], now')
            /\ acked[x][y] + Ttl < now' \/ score'[y][x] # NoScore
            /\ \A z \in Range(CidsOf(y)) : Kept(field'[z][y], acked[x][y], now')
        <5>1. \A bb \in Int : bb <= now /\ Findable(x, y, bb) =>
                /\ Kept(detail'[y], bb, now') /\ Kept(zexpiry'[y], bb, now')
                /\ Kept(instance'[x], bb, now')
                /\ bb + Ttl < now' \/ score'[y][x] # NoScore
                /\ \A z \in Range(CidsOf(y)) : Kept(field'[z][y], bb, now')
          <6> TAKE bb \in Int
          <6> HAVE bb <= now /\ Findable(x, y, bb)
          <6> QED
            BY <1>7, FindableStays DEF Findable, Members
        <5> QED
          BY <3>1, <5>1
      <4> QED
        BY <1>1, <3>1, <3>2, <4>1 DEF Findable, Members
    <3>3. CASE acked'[x][y] # acked[x][y]
      <4>1. x = d /\ y = k /\ acked'[x][y] = b /\ ~r.lost
        BY <2>7, <2>8, <3>3
      <4> QED
        BY <1>1, <1>2, <1>8, <2>6, <4>1, Zenon DEF Findable, Members
    <3> QED
      BY <3>2, <3>3
  <2>10. TypeOK'
    BY <1>1, <1>7, <1>11, <2>3, <2>8 DEF IInv, TypeOK
  <2> QED
    BY <1>1, <1>7, <1>9, <1>10, <2>3, <2>9, <2>10, RegisterStep, SMTT(30)
<1> QED
  BY <1>12, <1>13

LEMMA CutOffStep ==
  ASSUME IInv, NEW w \in Writers, CutOff(w)
  PROVE  IInv'
<1> DEFINE r == writers[w]
           k == r.ad.svc
<1>1. /\ r.pc # "idle" /\ writers' = [writers EXCEPT ![w] = NoWriter] /\ Fault
      /\ UNCHANGED <<now, cidset, field, detail, score, zexpiry, instance, searchers, acked>>
  BY DEF CutOff, index
<1>2. /\ r.pc = "cidsexpire" => cut' = cut \cup {<<"cids", k>>}
      /\ r.pc = "zexpire" => cut' = cut \cup {<<"zset", k>>}
      /\ r.pc = "hexpire" => cut' = cut \cup {<<Head(r.left), k>>}
      /\ r.pc \notin {"cidsexpire", "zexpire", "hexpire"} => cut' = cut
  BY DEF CutOff
<1>3. k \in Services /\ Head(r.left) \in Cids
  BY <1>1, Busy, HeadAndTail
<1>4. NoWriter \in WriterRecords /\ NoWriter.pc = "idle"
  BY DEF WriterRecords, NoWriter
<1>5. /\ writers' \in [Writers -> WriterRecords] /\ writers'[w].pc = "idle"
      /\ \A v \in Writers : v # w => writers'[v] = writers[v]
  BY <1>1, <1>4, Changed
<1>6. KeysGrow
  BY <1>1, GrowsSame
<1>7. cut' \subseteq (Cids \cup {"cids", "zset"}) \X Services
  BY <1>2, <1>3 DEF IInv, TypeOK
<1>8. TypeOK'
  BY <1>1, <1>5, <1>7, UsedStep DEF IInv, TypeOK
<1>9. ScoresInv'
  BY <1>1 DEF IInv, ScoresInv, Members
<1>10. IndexExpires'
  <2>1. cut \subseteq cut'
    BY <1>2
  <2>2. \A s \in Services : At(r, "cidsexpire", s) => <<"cids", s>> \in cut'
    BY <1>2 DEF At
  <2>3. \A s \in Services : At(r, "zexpire", s) => <<"zset", s>> \in cut'
    BY <1>2 DEF At
  <2>4. \A c \in Cids, s \in Services :
          At(r, "hexpire", s) /\ Head(r.left) = c => <<c, s>> \in cut'
    BY <1>2 DEF At
  <2> QED
    BY <1>1, <1>5, <2>1, <2>2, <2>3, <2>4, ExpiresStays
<1> QED
  BY <1>1, <1>5, <1>6, <1>8, <1>9, <1>10, AckedStays, RegisterStep

-----------------------------------------------------------------------------
(* Time                                                                    *)

LEMMA TickStep ==
  ASSUME IInv, Tick
  PROVE  IInv'
<1>1. /\ now' = now + 1 /\ now' \in 0..MaxTime /\ now \in Int /\ Ttl \in Nat \ {0}
      /\ NoScore = -1 /\ Absent = -1 /\ Forever \in Int /\ now' < Forever
      /\ NeverAcked = -1 - Ttl
  BY Bounds DEF Tick, NeverAcked
<1>2. UNCHANGED <<writers, searchers, cut, used>>
  BY DEF Tick
<1>3. KeysGrow
  BY GrowsTick
<1>4. /\ cidset' \in [Services -> Int] /\ field' \in [Cids -> [Services -> Int]]
      /\ detail' \in [Services -> Int] /\ zexpiry' \in [Services -> Int]
      /\ instance' \in [Dids -> Int]
  <2>1. \A e \in Int : Lapse(e) \in Int
    BY <1>1 DEF Lapse
  <2> QED
    BY <2>1, KeyTypes DEF Tick
<1>5. /\ \A s \in Services : cidset'[s] = Forever => cidset[s] = Forever
      /\ \A s \in Services : zexpiry'[s] = Forever => zexpiry[s] = Forever
      /\ \A c \in Cids, s \in Services : field'[c][s] = Forever => field[c][s] = Forever
  <2>1. \A e \in Int : Lapse(e) = Forever => e = Forever
    BY <1>1 DEF Lapse
  <2> QED
    BY <2>1, KeyTypes DEF Tick
<1>6. \A s \in Services : score'[s] = IF zexpiry[s] < now' THEN NoMembers ELSE score[s]
  BY DEF Tick
<1>7. score' \in [Services -> [Dids -> Int]]
  <2>1. NoMembers \in [Dids -> Int]
    BY <1>1 DEF NoMembers
  <2>2. \A s \in Services : score'[s] \in [Dids -> Int]
    BY <1>6, <2>1 DEF IInv, TypeOK
  <2> QED
    BY <2>2 DEF Tick
<1>8. ScoresInv'
  <2> SUFFICES ASSUME NEW s \in Services, NEW d \in Dids
               PROVE  /\ score'[s][d] >= NoScore
                      /\ score'[s][d] # NoScore => zexpiry'[s] # Absent
    BY DEF ScoresInv, Members, Alive
  <2>1. score[s][d] >= NoScore /\ (score[s][d] # NoScore => zexpiry[s] # Absent)
    BY DEF IInv, ScoresInv, Members, Alive
  <2>2. zexpiry'[s] = Lapse(zexpiry[s]) /\ zexpiry[s] \in Int
    BY KeyTypes DEF Tick
  <2>3. CASE zexpiry[s] < now'
    BY <1>1, <1>6, <2>3 DEF NoMembers
  <2>4. CASE ~(zexpiry[s] < now')
    BY <1>6, <2>1, <2>2, <2>4 DEF Lapse
  <2> QED
    BY <2>3, <2>4
<1>9. \A d \in Dids, s \in Services :
        acked'[d][s] = IF acked[d][s] + Ttl < now' THEN NeverAcked ELSE acked[d][s]
  BY DEF Tick
<1>10. acked' \in [Dids -> [Services -> Int]]
  <2>1. \A d \in Dids, s \in Services :
          (IF acked[d][s] + Ttl < now' THEN NeverAcked ELSE acked[d][s]) \in Int
    BY <1>1, KeyTypes
  <2> QED
    BY <2>1 DEF Tick
<1>11. AckedInv'
  <2> SUFFICES ASSUME NEW d \in Dids, NEW s \in Services
               PROVE  acked'[d][s] <= now' /\ Findable(d, s, acked[d][s])'
    BY DEF AckedInv
  <2>1. acked[d][s] \in Int /\ acked[d][s] <= now /\ Findable(d, s, acked[d][s])
    BY KeyTypes DEF IInv, AckedInv
  <2>2. CASE acked[d][s] + Ttl < now'
    <3>1. acked'[d][s] = NeverAcked
      BY <1>9, <2>2
    <3>2. acked'[d][s] + Ttl < now' /\ acked'[d][s] <= now'
      BY <1>1, <3>1
    <3> QED
      BY <3>2 DEF Findable, Kept
  <2>3. CASE ~(acked[d][s] + Ttl < now')
    <3>1. acked'[d][s] = acked[d][s]
      BY <1>9, <2>3
    <3>2. \A b \in Int : b <= now /\ Findable(d, s, b) => Findable(d, s, b)'
      BY <1>3, FindableStays
    <3> DEFINE b == acked[d][s]
    <3>3. Findable(d, s, b) => /\ Kept(detail'[s], b, now') /\ Kept(zexpiry'[s], b, now')
                               /\ Kept(instance'[d], b, now')
                               /\ b + Ttl < now' \/ score'[s][d] # NoScore
                               /\ \A c \in Range(CidsOf(s)) : Kept(field'[c][s], b, now')
      <4> SUFFICES \A a \in Int : a <= now /\ Findable(d, s, a) =>
                     /\ Kept(detail'[s], a, now') /\ Kept(zexpiry'[s], a, now')
                     /\ Kept(instance'[d], a, now')
                     /\ a + Ttl < now' \/ score'[s][d] # NoScore
                     /\ \A c \in Range(CidsOf(s)) : Kept(field'[c][s], a, now')
        BY <2>1
      <4> QED
        BY <3>2 DEF Findable, Members
    <3>4. acked'[d][s] <= now'
      BY <1>1, <2>1, <3>1
    <3> QED
      BY <2>1, <3>1, <3>3, <3>4 DEF Findable, Members
  <2> QED
    BY <2>2, <2>3
<1>12. WritersInv'
  BY <1>2, <1>3, RegistrationStays DEF WritersInv
<1>13. IndexExpires'
  BY <1>2, <1>5, Zenon DEF IInv, IndexExpires, Forever
<1>14. TypeOK'
  BY <1>1, <1>2, <1>4, <1>7, <1>10 DEF IInv, TypeOK
<1>15. DueInv' /\ SearchesInv' /\ SearchComplete'
  BY <1>2, <1>3, SearchesStay
<1> QED
  BY <1>8, <1>11, <1>12, <1>13, <1>14, <1>15 DEF IInv

-----------------------------------------------------------------------------
(* The steps of a search                                                   *)

LEMMA SearchTypes ==
  ASSUME IInv, NEW q \in Searchers
  PROVE  /\ searchers[q] \in SearchRecords /\ SearchOK(searchers[q], now)
         /\ \A p \in searchers[q].due :
              /\ p \in [did: Dids, svc: Services, since: Int]
              /\ p.since <= now /\ Findable(p.did, p.svc, p.since)
<1>1. searchers[q] \in SearchRecords /\ SearchOK(searchers[q], now)
  BY DEF IInv, TypeOK, SearchesInv
<1>2. searchers[q].due \subseteq [did: Dids, svc: Services, since: Int]
  BY <1>1 DEF SearchRecords
<1> QED
  BY <1>1, <1>2 DEF IInv, DueInv

\* What is left to show for a step of search q: what it does to its record.
LEMMA ReadStep ==
  ASSUME IInv, ReadOnly, used' \in [calls: 0..MaxCalls, faults: 0..MaxFaults],
         NEW q \in Searchers, NEW r \in SearchRecords, Become(q, r), SearchOK(r, now),
         \A p \in r.due : p \in searchers[q].due
                           \/ (p.since <= now /\ Findable(p.did, p.svc, p.since)),
         r.pc = "idle" /\ ~r.partial => AnswerComplete(r)
  PROVE  IInv'
<1>1. UNCHANGED <<now, cidset, field, detail, score, zexpiry, instance, writers, acked, cut>>
  BY DEF ReadOnly, index
<1>2. /\ searchers' \in [Searchers -> SearchRecords] /\ searchers'[q] = r
      /\ \A x \in Searchers : x # q => searchers'[x] = searchers[x]
  BY DEF Become, IInv, TypeOK
<1>3. KeysGrow
  BY <1>1, GrowsSame
<1>4. TypeOK'
  BY <1>1, <1>2 DEF IInv, TypeOK
<1>5. ScoresInv' /\ AckedInv'
  BY <1>1, <1>3, AckedStays DEF IInv, ScoresInv, Members
<1>6. WritersInv'
  BY <1>1, <1>3, RegistrationStays DEF WritersInv
<1>7. IndexExpires'
  BY <1>1 DEF IInv, IndexExpires
<1>8. \A x \in Searchers : SearchOK(searchers'[x], now')
  BY <1>1, <1>2, SearchTypes
<1>9. \A x \in Searchers : searchers'[x].pc = "idle" /\ ~searchers'[x].partial
                              => AnswerComplete(searchers'[x])
  BY <1>2 DEF IInv, SearchComplete
<1>10. DueInv'
  <2>1. \A d \in Dids, s \in Services, b \in Int : Findable(d, s, b) => Findable(d, s, b)'
    BY <1>1 DEF Findable, Members
  <2> SUFFICES ASSUME NEW x \in Searchers, NEW p \in searchers'[x].due
               PROVE  p.since <= now' /\ Findable(p.did, p.svc, p.since)'
    BY DEF DueInv
  <2>2. p.since <= now /\ Findable(p.did, p.svc, p.since)
    BY <1>2, SearchTypes
  <2> QED
    BY <1>1, <2>2 DEF Findable, Members
<1> QED
  BY <1>4, <1>5, <1>6, <1>7, <1>8, <1>9, <1>10 DEF IInv, SearchesInv, SearchComplete

\* What a search has to find can be found when it begins.
LEMMA DueFindable ==
  ASSUME IInv, NEW S \in SUBSET Services
  PROVE  /\ Due(S) \subseteq [did: Dids, svc: Services, since: Int]
         /\ \A p \in Due(S) : /\ p.svc \in S /\ p.since <= now /\ now <= p.since + Ttl
                              /\ Findable(p.did, p.svc, p.since)
<1> SUFFICES ASSUME NEW p \in Due(S)
             PROVE  /\ p \in [did: Dids, svc: Services, since: Int]
                    /\ p.svc \in S /\ p.since <= now /\ now <= p.since + Ttl
                    /\ Findable(p.did, p.svc, p.since)
  OBVIOUS
<1>1. PICK d \in Dids, s \in S : p = [did |-> d, svc |-> s, since |-> acked[d][s]]
  BY DEF Due, StillFresh
<1>2. now <= p.since + Ttl
  BY DEF Due, StillFresh
<1>3. p.did = d /\ p.svc = s /\ p.since = acked[d][s] /\ s \in Services
  BY <1>1
<1>4. acked[d][s] \in Int /\ acked[d][s] <= now /\ Findable(d, s, acked[d][s])
  BY <1>3, KeyTypes DEF IInv, AckedInv
<1> QED
  BY <1>1, <1>2, <1>3, <1>4

\* A key that is still needed is there.
LEMMA KeptAlive ==
  ASSUME IInv, NEW e \in Int, NEW b \in Int, Kept(e, b, now), ~(b + Ttl < now)
  PROVE  Alive(e)
BY Bounds DEF Kept, Alive

LEMMA LowestOf ==
  ASSUME NEW S, IsFiniteSet(S), NEW n \in Nat, NEW M \in Lowest(S, n)
  PROVE  /\ M \subseteq S /\ Cardinality(S) \in Nat
         /\ Cardinality(S) <= n => M = S
         /\ Cardinality(S) > n => Cardinality(M) = n
<1>1. M \subseteq S /\ Cardinality(S) \in Nat
  BY FS_CardinalityType DEF Lowest
<1>2. Cardinality(M) = IF Cardinality(S) < n THEN Cardinality(S) ELSE n
  BY DEF Lowest
<1>3. Cardinality(S) <= n => Cardinality(M) = Cardinality(S)
  BY <1>1, <1>2
<1>4. Cardinality(M) = Cardinality(S) => M = S
  BY <1>1, FS_Subset
<1> QED
  BY <1>1, <1>2, <1>3, <1>4

\* The record of a search that is over.
LEMMA IdleRecord ==
  ASSUME NEW due \in SUBSET [did: Dids, svc: Services, since: Int]
  PROVE  LET g == Search("idle", {}, {}, due)
         IN  /\ g \in SearchRecords /\ g.pc = "idle" /\ g.members = {} /\ g.svcs = {}
             /\ g.todo = {} /\ g.found = {} /\ g.due = due
<1>1. Limit \in Nat
  BY IndexAssumption
<1> QED
  BY <1>1 DEF SearchRecords, Search

LEMMA SearchCidStep ==
  ASSUME IInv, NEW q \in Searchers, NEW c \in Cids, SearchCid(q, c)
  PROVE  IInv'
<1> DEFINE key == NormalizeCidToV1(c)
           todo == {s \in Services : Alive(field[key][s])}
           S == ServicesWith(c)
           r == Search(IF todo = {} THEN "idle" ELSE "details", todo, {}, Due(S))
<1>1. Become(q, r) /\ ReadOnly /\ used' = used /\ key \in Cids
  <2>1. key # NoCid /\ Become(q, r) /\ ReadOnly /\ used' = used
    BY DEF SearchCid, Succeeds
  <2>2. key \in Cids \cup {NoCid}
    BY IndexAssumption
  <2> QED
    BY <2>1, <2>2
<1>11. \A s \in S : s \in Services /\ key \in Range(CidsOf(s))
  <2>1. key = String(Decode(c).codec, Decode(c).hash)
    BY DEF SearchCid, NormalizeCidToV1
  <2> QED
    BY <2>1 DEF ServicesWith
<1> HIDE DEF key
<1>2. /\ Due(S) \subseteq [did: Dids, svc: Services, since: Int]
      /\ \A p \in Due(S) : /\ p.svc \in S /\ p.since <= now /\ now <= p.since + Ttl
                           /\ Findable(p.did, p.svc, p.since)
  <2>1. S \in SUBSET Services
    BY DEF ServicesWith
  <2> QED
    BY <2>1, DueFindable
<1>3. Limit \in Nat \ {0} /\ now \in Int /\ Ttl \in Int
  BY Bounds
<1>4. ASSUME NEW p \in Due(S)
      PROVE  p.svc \in todo
  <2>1. p.svc \in Services /\ key \in Range(CidsOf(p.svc)) /\ p.since \in Int
    BY <1>2, <1>11
  <2>2. Kept(field[key][p.svc], p.since, now)
    BY <1>2, <2>1 DEF Findable
  <2>3. ~(p.since + Ttl < now) /\ field[key][p.svc] \in Int
    BY <1>1, <1>2, <1>3, <2>1, KeyTypes
  <2> QED
    BY <2>1, <2>2, <2>3, KeptAlive
<1> HIDE DEF S, todo
<1>5. todo \subseteq Services
  BY DEF todo
<1>6. r \in SearchRecords
  BY <1>2, <1>3, <1>5 DEF SearchRecords, Search
<1>7. /\ r.pc = (IF todo = {} THEN "idle" ELSE "details") /\ r.todo = todo /\ r.svcs = {}
      /\ r.members = {} /\ r.found = {} /\ r.due = Due(S)
  BY DEF Search
<1> HIDE DEF r
<1>8. SearchOK(r, now)
  <2>1. IsFiniteSet(r.found)
    BY <1>7, FS_EmptySet
  <2>2. r.pc \in {"idle", "details"} /\ (r.pc = "idle" => todo = {})
    BY <1>7
  <2>3. \A p \in r.due : Pending(r, p)
    BY <1>4, <1>7 DEF Pending
  <2> QED
    BY <1>7, <2>1, <2>2, <2>3 DEF SearchOK
<1>9. r.pc = "idle" => AnswerComplete(r)
  BY <1>4, <1>7 DEF AnswerComplete
<1>10. used' \in [calls: 0..MaxCalls, faults: 0..MaxFaults]
  BY <1>1 DEF IInv, TypeOK
<1> QED
  BY <1>1, <1>2, <1>6, <1>7, <1>8, <1>9, <1>10, ReadStep

LEMMA SearchInstanceStep ==
  ASSUME IInv, NEW q \in Searchers, NEW s \in Services, SearchInstance(q, s)
  PROVE  IInv'
<1> DEFINE r == Search("services", {}, {s}, Due({s}))
<1>1. Become(q, r) /\ ReadOnly /\ used' = used
  BY DEF SearchInstance, Succeeds
<1>2. /\ Due({s}) \subseteq [did: Dids, svc: Services, since: Int]
      /\ \A p \in Due({s}) : /\ p.svc \in {s} /\ p.since <= now /\ now <= p.since + Ttl
                             /\ Findable(p.did, p.svc, p.since)
  BY DueFindable
<1>3. r \in SearchRecords
  <2>1. Limit \in Nat /\ {s} \subseteq Services
    BY Bounds
  <2> QED
    <3> DEFINE D == Due({s})
    <3>1. D \subseteq [did: Dids, svc: Services, since: Int]
      BY <1>2
    <3> HIDE DEF D
    <3>2. Search("services", {}, {s}, D) \in SearchRecords
      BY <2>1, <3>1 DEF SearchRecords, Search
    <3> QED
      BY <3>2 DEF D
<1>4. /\ r.pc = "services" /\ r.todo = {} /\ r.svcs = {s} /\ r.members = {} /\ r.found = {}
      /\ r.due = Due({s})
  BY DEF Search
<1> HIDE DEF r
<1>5. SearchOK(r, now)
  <2>1. IsFiniteSet(r.found)
    BY <1>4, FS_EmptySet
  <2>2. \A p \in r.due : Pending(r, p)
    BY <1>2, <1>4 DEF Pending
  <2> QED
    BY <1>4, <2>1, <2>2 DEF SearchOK
<1>6. used' \in [calls: 0..MaxCalls, faults: 0..MaxFaults]
  BY <1>1 DEF IInv, TypeOK
<1> QED
  BY <1>1, <1>2, <1>3, <1>4, <1>5, <1>6, ReadStep

\* The next lookup, or the answer NotFound, once a service has been looked at.
LEMMA NextDetailOK ==
  ASSUME NEW r \in SearchRecords, NEW t \in Int, r.pc = "details", r.found = {}, r.members = {},
         ~r.partial => \A p \in r.due : p.since + Ttl < t \/ p.svc \in r.todo \cup r.svcs,
         t = now
  PROVE  LET n == NextDetail(r)
         IN  /\ n \in SearchRecords /\ SearchOK(n, t) /\ n.due \subseteq r.due
             /\ n.pc = "idle" /\ ~n.partial => AnswerComplete(n)
<1> DEFINE n == NextDetail(r)
<1>1. Ttl \in Int /\ IsFiniteSet({})
  BY IndexAssumption, FS_EmptySet
<1>2. \A p \in r.due : p.since \in Int
  BY DEF SearchRecords
<1>3. CASE r.todo # {}
  <2>1. n = r
    BY <1>3 DEF NextDetail
  <2>2. SearchOK(r, t)
    BY <1>1 DEF SearchOK, Pending
  <2> QED
    BY <2>1, <2>2
<1>4. CASE r.todo = {} /\ r.svcs # {}
  <2> DEFINE f == [r EXCEPT !.pc = "services"]
  <2>1. n = f
    BY <1>4 DEF NextDetail
  <2>2. f \in SearchRecords /\ f.pc = "services" /\ f.todo = {} /\ f.svcs = r.svcs /\ f.found = {}
        /\ f.members = {} /\ f.due = r.due /\ f.partial = r.partial
    BY <1>4 DEF SearchRecords
  <2> HIDE DEF f
  <2>3. ~f.partial => \A p \in f.due : p.since + Ttl < t \/ p.svc \in f.svcs
    BY <1>4, <2>2
  <2>4. SearchOK(f, t)
    BY <1>1, <2>2, <2>3 DEF SearchOK, Pending
  <2> QED
    BY <2>1, <2>2, <2>4
<1>5. CASE r.todo = {} /\ r.svcs = {}
  <2> DEFINE f == [r EXCEPT !.pc = "idle", !.due = StillFresh(r.due)]
  <2>1. n = f
    BY <1>5 DEF NextDetail
  <2>2. StillFresh(r.due) \subseteq r.due /\ \A p \in StillFresh(r.due) : t <= p.since + Ttl
    BY DEF StillFresh
  <2>3. f \in SearchRecords /\ f.pc = "idle" /\ f.found = {} /\ f.members = {}
        /\ f.due = StillFresh(r.due) /\ f.partial = r.partial /\ f.svcs = {} /\ f.todo = {}
    BY <1>5, <2>2 DEF SearchRecords
  <2> HIDE DEF f
  <2>4. SearchOK(f, t)
    BY <1>1, <2>3 DEF SearchOK
  <2>5. ~f.partial => AnswerComplete(f)
    BY <1>1, <1>2, <1>5, <2>2, <2>3 DEF AnswerComplete
  <2> QED
    BY <2>1, <2>2, <2>3, <2>4, <2>5
<1> QED
  BY <1>3, <1>4, <1>5

LEMMA GetDetailStep ==
  ASSUME IInv, NEW q \in Searchers, GetDetail(q)
  PROVE  IInv'
<1> DEFINE r == searchers[q]
<1>1. r \in SearchRecords /\ SearchOK(r, now) /\ r.pc = "details"
  BY SearchTypes DEF GetDetail
<1>2. PICK s \in r.todo :
        Become(q, NextDetail([r EXCEPT !.todo = r.todo \ {s},
                                       !.svcs = r.svcs \cup (IF Alive(detail[s]) THEN {s} ELSE {})]))
  BY DEF GetDetail
<1>3. ReadOnly /\ used' = used
  BY DEF GetDetail, Succeeds
<1> DEFINE svcs == r.svcs \cup (IF Alive(detail[s]) THEN {s} ELSE {})
           f == [r EXCEPT !.todo = r.todo \ {s}, !.svcs = svcs]
<1>4. s \in Services /\ svcs \subseteq Services
  BY <1>1 DEF SearchRecords
<1>5. f \in SearchRecords /\ f.pc = "details" /\ f.todo = r.todo \ {s} /\ f.svcs = svcs
      /\ f.found = r.found /\ f.members = r.members /\ f.due = r.due /\ f.partial = r.partial
  <2> HIDE DEF svcs, r
  <2> QED
    BY <1>1, <1>4 DEF SearchRecords
<1> HIDE DEF f
<1>6. f.found = {} /\ f.members = {}
  BY <1>1, <1>5 DEF SearchOK
<1>7. ASSUME ~f.partial, NEW p \in f.due
      PROVE  p.since + Ttl < now \/ p.svc \in f.todo \cup f.svcs
  <2>1. p.since + Ttl < now \/ Pending(r, p)
    BY <1>1, <1>5, <1>7 DEF SearchOK
  <2>2. Limit # 0 /\ Cardinality({}) = 0
    BY Bounds, FS_EmptySet
  <2>3. FoundFor(r, p.svc) = {}
    BY <1>5, <1>6 DEF FoundFor
  <2>4. Pending(r, p) => p.svc \in r.todo \cup r.svcs
    BY <1>1, <2>2, <2>3 DEF Pending
  <2>5. p.since \in Int /\ p.svc \in Services /\ Findable(p.did, p.svc, p.since)
    BY <1>5, SearchTypes
  <2>6. p.since + Ttl < now \/ Alive(detail[p.svc])
    BY <2>5, KeyTypes, KeptAlive DEF Findable
  <2> QED
    BY <1>5, <2>1, <2>4, <2>6
<1> DEFINE n == NextDetail(f)
<1>8. /\ n \in SearchRecords /\ SearchOK(n, now) /\ n.due \subseteq f.due
      /\ n.pc = "idle" /\ ~n.partial => AnswerComplete(n)
  <2>1. now \in Int
    BY Bounds
  <2> QED
    BY <1>5, <1>6, <1>7, <2>1, NextDetailOK
<1>9. Become(q, n)
  BY <1>2 DEF f
<1>10. used' \in [calls: 0..MaxCalls, faults: 0..MaxFaults]
  BY <1>3 DEF IInv, TypeOK
<1> HIDE DEF n
<1>11. \A p \in n.due : p \in searchers[q].due
  BY <1>5, <1>8
<1> QED
  BY <1>3, <1>8, <1>9, <1>10, <1>11, ReadStep

\* The members of a service's set with their scores.
LEMMA Ranked ==
  ASSUME IInv, NEW s \in Services
  PROVE  LET R == {[did |-> d, score |-> score[s][d]] : d \in Members(s)}
         IN  /\ R \subseteq [did: Dids, score: Int] /\ IsFiniteSet(R)
             /\ Cardinality(R) \in Nat /\ Cardinality(Members(s)) \in Nat
             /\ Cardinality(R) <= Cardinality(Members(s))
             /\ \A m, n \in R : m.did = n.did => m = n
             /\ \A d \in Members(s) : \E m \in R : m.did = d
<1> DEFINE R == {[did |-> d, score |-> score[s][d]] : d \in Members(s)}
           f == [d \in Members(s) |-> [did |-> d, score |-> score[s][d]]]
<1>1. IsFiniteSet(Members(s)) /\ Members(s) \subseteq Dids
  BY IndexAssumption, FS_Subset DEF Members
<1>2. R \subseteq [did: Dids, score: Int]
  BY <1>1, KeyTypes
<1>3. f \in Surjection(Members(s), R)
  BY DEF Surjection
<1>4. IsFiniteSet(R) /\ Cardinality(R) <= Cardinality(Members(s))
  BY <1>1, <1>3, FS_Surjection
<1>5. Cardinality(R) \in Nat /\ Cardinality(Members(s)) \in Nat
  BY <1>1, <1>4, FS_CardinalityType
<1>6. /\ \A m, n \in R : m.did = n.did => m = n
      /\ \A d \in Members(s) : \E m \in R : m.did = d
  <2>1. \A d \in Members(s) : [did |-> d, score |-> score[s][d]] \in R
    OBVIOUS
  <2>2. \A m \in R : \E d \in Members(s) : m = [did |-> d, score |-> score[s][d]]
    OBVIOUS
  <2>3. \A m \in R : m = [did |-> m.did, score |-> score[s][m.did]]
    BY <2>2
  <2> QED
    BY <2>1, <2>3
<1> QED
  BY <1>2, <1>4, <1>5, <1>6

\* A search takes up the next service s; f is its record then.
LEMMA Opened ==
  ASSUME IInv, NEW q \in Searchers, searchers[q].pc = "services",
         NEW s \in searchers[q].svcs, NEW f \in SearchRecords,
         f.pc = "instances", f.svc = s, f.svcs = searchers[q].svcs \ {s},
         f.todo = searchers[q].todo, f.found = searchers[q].found,
         f.due = searchers[q].due, f.count = 0,
         \A m, n \in f.members : m.did = n.did => m = n,
         ~f.partial => /\ ~searchers[q].partial
                       /\ \A d \in Members(s) : \E m \in f.members : m.did = d
  PROVE  SearchOK(f, now)
<1> DEFINE r == searchers[q]
<1>1. r \in SearchRecords /\ SearchOK(r, now)
  BY SearchTypes
<1>2. IsFiniteSet(f.found) /\ f.todo = {} /\ \A x \in f.found : x.svc \notin r.svcs
  BY <1>1 DEF SearchOK
<1>3. Counted(f)
  <2>1. f.svc \in Services \ f.svcs
    BY <1>1 DEF SearchRecords
  <2>2. FoundFor(f, s) = {}
    BY <1>2 DEF FoundFor
  <2>3. f.count = Cardinality(FoundFor(f, f.svc))
    BY <2>2, FS_EmptySet
  <2> QED
    BY <1>2, <2>1, <2>3 DEF Counted
<1>4. ASSUME ~f.partial, NEW p \in f.due
      PROVE  p.since + Ttl < now \/ Pending(f, p)
  <2>1. p.since + Ttl < now \/ Pending(r, p)
    BY <1>1, <1>4 DEF SearchOK
  <2>2. p.svc # s /\ Pending(r, p) => Pending(f, p)
    BY DEF Pending, FoundFor
  <2>3. p.since + Ttl < now \/ p.did \in Members(p.svc)
    BY SearchTypes DEF Findable
  <2>4. p.svc = s /\ p.did \in Members(p.svc) => Pending(f, p)
    BY <1>4 DEF Pending
  <2> QED
    BY <2>1, <2>2, <2>3, <2>4
<1> QED
  BY <1>2, <1>3, <1>4 DEF SearchOK

LEMMA ZRangeStep ==
  ASSUME IInv, NEW q \in Searchers, ZRange(q)
  PROVE  IInv'
<1> DEFINE r == searchers[q]
<1>1. r \in SearchRecords /\ SearchOK(r, now) /\ r.pc = "services"
  BY SearchTypes DEF ZRange
<1>2. PICK s \in r.svcs :
        \E M \in Lowest({[did |-> d, score |-> score[s][d]] : d \in Members(s)}, Limit + 1) :
          Become(q, [r EXCEPT !.pc = "instances", !.svc = s, !.svcs = r.svcs \ {s},
                              !.members = M, !.count = 0,
                              !.partial = r.partial \/ Cardinality(Members(s)) > Limit + 1])
  BY DEF ZRange
<1> DEFINE R == {[did |-> d, score |-> score[s][d]] : d \in Members(s)}
<1>3. PICK M \in Lowest(R, Limit + 1) :
        Become(q, [r EXCEPT !.pc = "instances", !.svc = s, !.svcs = r.svcs \ {s},
                            !.members = M, !.count = 0,
                            !.partial = r.partial \/ Cardinality(Members(s)) > Limit + 1])
  BY <1>2
<1>4. ReadOnly /\ used' = used
  BY DEF ZRange, Succeeds
<1>5. s \in Services
  BY <1>1 DEF SearchRecords
<1>6. /\ R \subseteq [did: Dids, score: Int] /\ IsFiniteSet(R)
      /\ Cardinality(R) \in Nat /\ Cardinality(Members(s)) \in Nat
      /\ Cardinality(R) <= Cardinality(Members(s))
      /\ \A m, n \in R : m.did = n.did => m = n
      /\ \A d \in Members(s) : \E m \in R : m.did = d
  BY <1>5, Ranked
<1> DEFINE over == Cardinality(Members(s)) > Limit + 1
           partial == r.partial \/ over
<1> HIDE DEF R
<1>7. Limit \in Nat /\ Limit + 1 \in Nat
  BY Bounds
<1>8. M \subseteq R /\ (Cardinality(R) <= Limit + 1 => M = R)
  BY <1>6, <1>7, LowestOf
<1>9. ~over => M = R
  BY <1>6, <1>7, <1>8
<1>10. M \in SUBSET [did: Dids, score: Int] /\ partial \in BOOLEAN
  BY <1>1, <1>6, <1>8 DEF SearchRecords
<1>11. ~partial => ~r.partial /\ M = R
  BY <1>9
<1> HIDE DEF over, partial
<1> DEFINE f == [r EXCEPT !.pc = "instances", !.svc = s, !.svcs = r.svcs \ {s},
                          !.members = M, !.count = 0, !.partial = partial]
<1>12. /\ f \in SearchRecords /\ f.pc = "instances" /\ f.svc = s /\ f.svcs = r.svcs \ {s}
       /\ f.todo = r.todo /\ f.found = r.found /\ f.due = r.due /\ f.count = 0
       /\ f.members = M /\ f.partial = partial
  <2> DEFINE svcs == r.svcs \ {s}
  <2>1. svcs \in SUBSET Services /\ 0 \in 0..Limit
    BY <1>1, <1>7 DEF SearchRecords
  <2> HIDE DEF r, svcs
  <2> QED
    BY <1>1, <1>5, <1>10, <2>1 DEF SearchRecords
<1>13. Become(q, f)
  BY <1>3 DEF partial, over
<1> HIDE DEF f
<1>14. SearchOK(f, now)
  <2>1. \A m, n \in f.members : m.did = n.did => m = n
    BY <1>6, <1>8, <1>12
  <2>2. ~f.partial => ~r.partial /\ \A d \in Members(s) : \E m \in f.members : m.did = d
    BY <1>6, <1>11, <1>12
  <2> QED
    BY <1>1, <1>12, <2>1, <2>2, Opened
<1>15. used' \in [calls: 0..MaxCalls, faults: 0..MaxFaults]
  BY <1>4 DEF IInv, TypeOK
<1> QED
  BY <1>4, <1>12, <1>13, <1>14, <1>15, ReadStep

\* A search goes on without the provider m, which it did not find.
LEMMA PassedOver ==
  ASSUME IInv, NEW q \in Searchers, searchers[q].pc = "instances",
         NEW m \in searchers[q].members, NEW f \in SearchRecords,
         f.pc = "instances", f.svc = searchers[q].svc, f.svcs = searchers[q].svcs,
         f.todo = searchers[q].todo, f.found = searchers[q].found,
         f.due = searchers[q].due, f.count = searchers[q].count,
         f.members = searchers[q].members \ {m},
         ~f.partial => ~searchers[q].partial /\ ~Alive(instance[m.did])
  PROVE  SearchOK(f, now)
<1> DEFINE r == searchers[q]
<1>1. r \in SearchRecords /\ SearchOK(r, now)
  BY SearchTypes
<1>2. /\ IsFiniteSet(f.found) /\ f.todo = {} /\ \A x \in f.found : x.svc \notin f.svcs
      /\ Counted(r)
  BY <1>1 DEF SearchOK
<1>3. Counted(f)
  BY <1>2 DEF Counted, FoundFor
<1>4. ASSUME ~f.partial, NEW p \in f.due
      PROVE  p.since + Ttl < now \/ Pending(f, p)
  <2>1. p.since + Ttl < now \/ Pending(r, p)
    BY <1>1, <1>4 DEF SearchOK
  <2>2. p.did # m.did /\ Pending(r, p) => Pending(f, p)
    BY DEF Pending, FoundFor
  <2>3. p.since \in Int /\ p.did \in Dids /\ Findable(p.did, p.svc, p.since)
    BY SearchTypes
  <2>4. p.since + Ttl < now \/ Alive(instance[p.did])
    BY <2>3, KeyTypes, KeptAlive DEF Findable
  <2> QED
    BY <1>4, <2>1, <2>2, <2>4
<1> QED
  BY <1>2, <1>3, <1>4 DEF SearchOK

LEMMA GetInstanceStep ==
  ASSUME IInv, NEW q \in Searchers, GetInstance(q)
  PROVE  IInv'
<1> DEFINE r == searchers[q]
<1>1. /\ r \in SearchRecords /\ SearchOK(r, now) /\ r.pc = "instances" /\ Wanted(r)
  BY SearchTypes DEF GetInstance
<1>2. PICK m \in UNION Lowest(r.members, 1) :
        Become(q,
          IF Alive(instance[m.did])
            THEN [r EXCEPT !.members = r.members \ {m}, !.count = r.count + 1,
                           !.found = r.found \cup {[did |-> m.did, svc |-> r.svc,
                                                   score |-> m.score]}]
            ELSE [r EXCEPT !.members = r.members \ {m}])
  BY DEF GetInstance
<1>3. ReadOnly /\ used' = used
  BY DEF GetInstance, Succeeds
<1>4. m \in r.members
  BY DEF Lowest
<1>5. Counted(r) /\ IsFiniteSet(r.found) /\ r.todo = {} /\ \A x \in r.found : x.svc \notin r.svcs
  BY <1>1 DEF SearchOK
<1>6. /\ m \in [did: Dids, score: Int] /\ r.svc \in Services /\ r.count \in 0..Limit
      /\ r.count < Limit /\ Limit \in Nat
  BY <1>1, <1>4, <1>5, Bounds DEF SearchRecords, Counted, Wanted
<1>7. used' \in [calls: 0..MaxCalls, faults: 0..MaxFaults]
  BY <1>3 DEF IInv, TypeOK
<1>8. CASE Alive(instance[m.did])
  <2> DEFINE x == [did |-> m.did, svc |-> r.svc, score |-> m.score]
             f == [r EXCEPT !.members = r.members \ {m}, !.count = r.count + 1,
                            !.found = r.found \cup {x}]
  <2>1. Become(q, f)
    BY <1>2, <1>8
  <2>2. x \in Finds /\ x.did = m.did /\ x.svc = r.svc
    BY <1>6 DEF Finds
  <2> HIDE DEF x
  <2>3. /\ f \in SearchRecords /\ f.pc = "instances" /\ f.svc = r.svc /\ f.svcs = r.svcs
        /\ f.todo = r.todo /\ f.found = r.found \cup {x} /\ f.due = r.due
        /\ f.count = r.count + 1 /\ f.members = r.members \ {m} /\ f.partial = r.partial
    <3>1. r.count + 1 \in 0..Limit
      BY <1>6
    <3> HIDE DEF r
    <3> QED
      BY <1>1, <2>2, <3>1 DEF SearchRecords
  <2> HIDE DEF f
  <2>4. IsFiniteSet(f.found) /\ \A y \in f.found : y.svc \notin f.svcs
    <3>1. r.svc \notin r.svcs
      BY <1>5 DEF Counted
    <3> QED
      BY <1>5, <2>2, <2>3, <3>1, FS_AddElement, SMTT(30)
  <2>5. /\ FoundFor(f, r.svc) = FoundFor(r, r.svc) \cup {x}
        /\ \A s \in Services : s # r.svc => FoundFor(f, s) = FoundFor(r, s)
    BY <2>2, <2>3 DEF FoundFor
  <2>6. Cardinality(FoundFor(f, r.svc)) = r.count + 1
    <3>1. x \notin FoundFor(r, r.svc)
      BY <1>4, <1>5, <2>2 DEF Counted, FoundFor
    <3>2. IsFiniteSet(FoundFor(r, r.svc))
      BY <1>5, FS_Subset DEF FoundFor
    <3>3. r.count = Cardinality(FoundFor(r, r.svc))
      BY <1>5 DEF Counted
    <3>4. Cardinality(FoundFor(r, r.svc) \cup {x}) = Cardinality(FoundFor(r, r.svc)) + 1
      <4> DEFINE F == FoundFor(r, r.svc)
      <4>1. IsFiniteSet(F) /\ x \notin F
        BY <3>1, <3>2
      <4> HIDE DEF F
      <4>2. Cardinality(F \cup {x}) = IF x \in F THEN Cardinality(F) ELSE Cardinality(F) + 1
        BY <4>1, FS_AddElement
      <4>3. Cardinality(F \cup {x}) = Cardinality(F) + 1
        BY <4>1, <4>2
      <4> QED
        BY <4>3 DEF F
    <3> QED
      BY <2>5, <3>3, <3>4, Zenon
  <2>7. Counted(f)
    <3>1. \A n \in f.members : n \in r.members /\ n.did # m.did
      BY <1>4, <1>5, <2>3 DEF Counted
    <3> QED
      BY <1>5, <2>2, <2>3, <2>6, <3>1 DEF Counted
  <2>8. ASSUME ~f.partial, NEW p \in f.due
        PROVE  p.since + Ttl < now \/ Pending(f, p)
    <3>1. p.since + Ttl < now \/ Pending(r, p)
      BY <1>1, <2>3, <2>8 DEF SearchOK
    <3>2. CASE p.svc \in r.todo \cup r.svcs
      BY <2>3, <3>2 DEF Pending
    <3>3. CASE p.svc = r.svc /\ \E n \in r.members : n.did = p.did
      <4>1. CASE p.did = m.did
        <5>1. x \in FoundFor(f, p.svc) /\ x.did = p.did
          BY <2>2, <2>5, <3>3, <4>1
        <5> QED
          BY <5>1 DEF Pending
      <4>2. CASE p.did # m.did
        BY <2>3, <3>3, <4>2 DEF Pending
      <4> QED
        BY <4>1, <4>2
    <3>4. CASE \E y \in FoundFor(r, p.svc) : y.did = p.did
      BY <2>3, <3>4 DEF Pending, FoundFor
    <3>5. CASE Cardinality(FoundFor(r, p.svc)) = Limit
      <4>1. p.svc # r.svc
        BY <1>5, <1>6, <3>5 DEF Counted
      <4>2. p.svc \in Services
        BY <2>3, SearchTypes
      <4> QED
        BY <2>5, <3>5, <4>1, <4>2 DEF Pending
    <3> QED
      BY <3>1, <3>2, <3>3, <3>4, <3>5 DEF Pending
  <2>9. SearchOK(f, now)
    BY <1>5, <2>3, <2>4, <2>7, <2>8 DEF SearchOK
  <2> QED
    BY <1>3, <1>7, <2>1, <2>3, <2>9, ReadStep
<1>9. CASE ~Alive(instance[m.did])
  <2> DEFINE f == [r EXCEPT !.members = r.members \ {m}]
  <2>1. Become(q, f)
    BY <1>2, <1>9
  <2>2. /\ f \in SearchRecords /\ f.pc = "instances" /\ f.svc = r.svc /\ f.svcs = r.svcs
        /\ f.todo = r.todo /\ f.found = r.found /\ f.due = r.due
        /\ f.count = r.count /\ f.members = r.members \ {m} /\ f.partial = r.partial
    <3> HIDE DEF r
    <3> QED
      BY <1>1 DEF SearchRecords
  <2> HIDE DEF f
  <2>3. SearchOK(f, now)
    BY <1>1, <1>4, <1>9, <2>2, PassedOver
  <2> QED
    BY <1>3, <1>7, <2>1, <2>2, <2>3, ReadStep
<1> QED
  BY <1>8, <1>9

\* The answer shows all that was found for a service, unless it is full.
LEMMA Answered ==
  ASSUME IInv, NEW q \in Searchers, searchers[q].pc = "instances", ~Wanted(searchers[q]),
         searchers[q].svcs = {}, ~searchers[q].partial,
         NEW A \in Lowest(searchers[q].found, Limit + 1),
         NEW p \in searchers[q].due, now <= p.since + Ttl
  PROVE  \/ \E x \in A : x.svc = p.svc /\ x.did = p.did
         \/ Cardinality({x \in A : x.svc = p.svc}) = Limit
         \/ Cardinality(A) = Limit + 1
<1> DEFINE r == searchers[q]
<1>1. r \in SearchRecords /\ SearchOK(r, now)
  BY SearchTypes
<1>2. Counted(r) /\ IsFiniteSet(r.found) /\ r.todo = {}
  BY <1>1 DEF SearchOK
<1>3. p.since \in Int /\ now \in Int /\ Ttl \in Int /\ Limit \in Nat /\ Limit + 1 \in Nat
  BY SearchTypes, Bounds
<1>4. Pending(r, p)
  <2>1. p.since + Ttl < now \/ Pending(r, p)
    BY <1>1 DEF SearchOK
  <2> QED
    BY <1>3, <2>1
<1>5. \/ \E x \in FoundFor(r, p.svc) : x.did = p.did
      \/ Cardinality(FoundFor(r, p.svc)) = Limit
  <2>1. CASE p.svc = r.svc /\ \E m \in r.members : m.did = p.did
    <3>1. r.count \in 0..Limit /\ ~(r.count < Limit)
      BY <1>1, <2>1 DEF Wanted, SearchRecords
    <3>2. r.count = Limit
      BY <1>3, <3>1
    <3> QED
      BY <1>2, <2>1, <3>2 DEF Counted
  <2> QED
    BY <1>2, <1>4, <2>1 DEF Pending
<1>6. /\ Cardinality(r.found) \in Nat
      /\ Cardinality(r.found) <= Limit + 1 => A = r.found
      /\ Cardinality(r.found) > Limit + 1 => Cardinality(A) = Limit + 1
  BY <1>2, <1>3, LowestOf
<1>7. A = r.found => {x \in A : x.svc = p.svc} = FoundFor(r, p.svc)
  BY DEF FoundFor
<1>8. A = r.found \/ Cardinality(A) = Limit + 1
  BY <1>3, <1>6
<1> QED
  BY <1>5, <1>7, <1>8 DEF FoundFor

LEMMA EndServiceStep ==
  ASSUME IInv, NEW q \in Searchers, EndService(q)
  PROVE  IInv'
<1> DEFINE r == searchers[q]
<1>1. /\ r \in SearchRecords /\ SearchOK(r, now) /\ r.pc = "instances" /\ ~Wanted(r)
      /\ ReadOnly /\ used' = used
  BY SearchTypes DEF EndService, Succeeds
<1>2. Counted(r) /\ IsFiniteSet(r.found) /\ r.todo = {} /\ \A x \in r.found : x.svc \notin r.svcs
  BY <1>1 DEF SearchOK
<1>3. used' \in [calls: 0..MaxCalls, faults: 0..MaxFaults]
  BY <1>1 DEF IInv, TypeOK
<1>4. CASE r.svcs # {}
  <2> DEFINE f == [r EXCEPT !.pc = "services", !.members = {}]
  <2>1. Become(q, f)
    BY <1>4 DEF EndService
  <2>2. /\ f \in SearchRecords /\ f.pc = "services" /\ f.members = {} /\ f.svc = r.svc
        /\ f.svcs = r.svcs /\ f.todo = r.todo /\ f.found = r.found /\ f.due = r.due
        /\ f.count = r.count /\ f.partial = r.partial
    <3> HIDE DEF r
    <3> QED
      BY <1>1 DEF SearchRecords
  <2> HIDE DEF f
  <2>3. ASSUME ~f.partial, NEW p \in f.due
        PROVE  p.since + Ttl < now \/ Pending(f, p)
    <3>1. p.since + Ttl < now \/ Pending(r, p)
      BY <1>1, <2>2, <2>3 DEF SearchOK
    <3>2. CASE p.svc = r.svc /\ \E m \in r.members : m.did = p.did
      <4>1. r.count \in 0..Limit /\ ~(r.count < Limit) /\ Limit \in Nat
        BY <1>1, <3>2, Bounds DEF Wanted, SearchRecords
      <4>2. Cardinality(FoundFor(r, p.svc)) = Limit
        BY <1>2, <3>2, <4>1 DEF Counted
      <4> QED
        BY <2>2, <4>2 DEF Pending, FoundFor
    <3> QED
      BY <2>2, <3>1, <3>2 DEF Pending, FoundFor
  <2>4. SearchOK(f, now)
    BY <1>2, <2>2, <2>3 DEF SearchOK
  <2> QED
    BY <1>1, <1>3, <2>1, <2>2, <2>4, ReadStep
<1>5. CASE r.svcs = {}
  <2>1. PICK A \in Lowest(r.found, Limit + 1) :
          Become(q, [Search("idle", {}, {}, StillFresh(r.due)) EXCEPT !.answer = A,
                                                                      !.partial = r.partial])
    BY <1>5 DEF EndService
  <2> DEFINE due == StillFresh(r.due)
             f == [Search("idle", {}, {}, due) EXCEPT !.answer = A, !.partial = r.partial]
  <2>2. A \in SUBSET Finds /\ r.partial \in BOOLEAN
    BY <1>1 DEF Lowest, SearchRecords
  <2>3. due \in SUBSET [did: Dids, svc: Services, since: Int] /\ due \subseteq r.due
    BY <1>1 DEF StillFresh, SearchRecords
  <2>4. \A p \in due : now <= p.since + Ttl
    BY DEF StillFresh
  <2> HIDE DEF due
  <2>5. /\ f \in SearchRecords /\ f.pc = "idle" /\ f.members = {} /\ f.svcs = {} /\ f.todo = {}
        /\ f.found = {} /\ f.due = due /\ f.answer = A /\ f.partial = r.partial
    <3> DEFINE g == Search("idle", {}, {}, due)
    <3>1. /\ g \in SearchRecords /\ g.pc = "idle" /\ g.members = {} /\ g.svcs = {}
          /\ g.todo = {} /\ g.found = {} /\ g.due = due
      BY <2>3, IdleRecord
    <3> HIDE DEF r, g
    <3>2. f = [g EXCEPT !.answer = A, !.partial = r.partial]
      BY DEF g
    <3> HIDE DEF f
    <3> QED
      BY <2>2, <3>1, <3>2 DEF SearchRecords
  <2>6. Become(q, f)
    BY <2>1 DEF due
  <2> HIDE DEF f
  <2>7. SearchOK(f, now)
    BY <2>5, FS_EmptySet DEF SearchOK
  <2>8. ~f.partial => AnswerComplete(f)
    <3> SUFFICES ASSUME ~r.partial, NEW p \in due
                 PROVE  \/ \E x \in Shown(f, p.svc) : x.did = p.did
                        \/ Cardinality(Shown(f, p.svc)) = Limit
                        \/ Cardinality(A) = Limit + 1
      BY <2>5 DEF AnswerComplete
    <3>1. p \in r.due /\ now <= p.since + Ttl
      BY <2>3, <2>4
    <3>2. \/ \E x \in A : x.svc = p.svc /\ x.did = p.did
          \/ Cardinality({x \in A : x.svc = p.svc}) = Limit
          \/ Cardinality(A) = Limit + 1
      BY <1>1, <1>5, <3>1, Answered
    <3>3. Shown(f, p.svc) = {x \in A : x.svc = p.svc}
      BY <2>5 DEF Shown
    <3> QED
      BY <3>2, <3>3
  <2>9. \A p \in f.due : p \in searchers[q].due
    BY <2>3, <2>5
  <2> QED
    BY <1>1, <1>3, <2>5, <2>6, <2>7, <2>8, <2>9, ReadStep
<1> QED
  BY <1>4, <1>5

LEMMA ReadFailsStep ==
  ASSUME IInv, NEW q \in Searchers, ReadFails(q)
  PROVE  IInv'
<1> DEFINE r == searchers[q]
           e == [r EXCEPT !.partial = TRUE]
<1>1. /\ r \in SearchRecords /\ SearchOK(r, now) /\ ReadOnly /\ Fault
  BY SearchTypes DEF ReadFails
<1>2. used' \in [calls: 0..MaxCalls, faults: 0..MaxFaults]
  BY <1>1, UsedStep
<1>3. /\ e \in SearchRecords /\ e.partial = TRUE /\ e.pc = r.pc /\ e.members = r.members
      /\ e.svc = r.svc /\ e.svcs = r.svcs /\ e.todo = r.todo /\ e.found = r.found
      /\ e.due = r.due /\ e.count = r.count
  <2> HIDE DEF r
  <2> QED
    BY <1>1 DEF SearchRecords
<1>4. \/ /\ e.pc = "idle"
         /\ Become(q, [Search("idle", {}, {}, {}) EXCEPT !.partial = TRUE])
      \/ /\ e.pc = "details"
         /\ \E s \in e.todo : Become(q, NextDetail([e EXCEPT !.todo = e.todo \ {s}]))
      \/ /\ e.pc = "services"
         /\ \E s \in e.svcs : Become(q, [e EXCEPT !.pc = "instances", !.svcs = e.svcs \ {s},
                                                  !.svc = s, !.count = 0])
      \/ /\ e.pc = "instances" /\ Wanted(e)
         /\ \E m \in UNION Lowest(e.members, 1) :
              Become(q, [e EXCEPT !.members = e.members \ {m}])
  BY DEF ReadFails
<1> HIDE DEF e
<1>5. CASE /\ e.pc = "idle"
           /\ Become(q, [Search("idle", {}, {}, {}) EXCEPT !.partial = TRUE])
  <2> DEFINE f == [Search("idle", {}, {}, {}) EXCEPT !.partial = TRUE]
  <2>1. /\ f \in SearchRecords /\ f.pc = "idle" /\ f.members = {} /\ f.svcs = {} /\ f.todo = {}
        /\ f.found = {} /\ f.due = {} /\ f.partial = TRUE
    <3> DEFINE g == Search("idle", {}, {}, {})
    <3>1. /\ g \in SearchRecords /\ g.pc = "idle" /\ g.members = {} /\ g.svcs = {}
          /\ g.todo = {} /\ g.found = {} /\ g.due = {}
      BY IdleRecord
    <3> HIDE DEF g
    <3>2. f = [g EXCEPT !.partial = TRUE]
      BY DEF g
    <3> HIDE DEF f
    <3> QED
      BY <3>1, <3>2 DEF SearchRecords
  <2>2. Become(q, f)
    BY <1>5
  <2> HIDE DEF f
  <2>3. SearchOK(f, now)
    BY <2>1, FS_EmptySet DEF SearchOK
  <2> QED
    BY <1>1, <1>2, <2>1, <2>2, <2>3, ReadStep
<1>6. CASE /\ e.pc = "details"
           /\ \E s \in e.todo : Become(q, NextDetail([e EXCEPT !.todo = e.todo \ {s}]))
  <2>1. PICK s \in e.todo : Become(q, NextDetail([e EXCEPT !.todo = e.todo \ {s}]))
    BY <1>6
  <2> DEFINE f == [e EXCEPT !.todo = e.todo \ {s}]
  <2>2. f \in SearchRecords /\ f.pc = "details" /\ f.found = e.found /\ f.members = e.members
        /\ f.due = e.due /\ f.partial = TRUE
    BY <1>3, <1>6 DEF SearchRecords
  <2> HIDE DEF f
  <2>3. f.found = {} /\ f.members = {}
    BY <1>1, <1>3, <1>6, <2>2 DEF SearchOK
  <2> DEFINE n == NextDetail(f)
  <2>4. /\ n \in SearchRecords /\ SearchOK(n, now) /\ n.due \subseteq f.due
        /\ n.pc = "idle" /\ ~n.partial => AnswerComplete(n)
    <3>1. now \in Int
      BY Bounds
    <3> QED
      BY <2>2, <2>3, <3>1, NextDetailOK
  <2>5. Become(q, n)
    BY <2>1 DEF f
  <2> HIDE DEF n
  <2>6. \A p \in n.due : p \in searchers[q].due
    BY <1>3, <2>2, <2>4
  <2> QED
    BY <1>1, <1>2, <2>4, <2>5, <2>6, ReadStep
<1>7. CASE /\ e.pc = "services"
           /\ \E s \in e.svcs : Become(q, [e EXCEPT !.pc = "instances", !.svcs = e.svcs \ {s},
                                                    !.svc = s, !.count = 0])
  <2>1. PICK s \in e.svcs : Become(q, [e EXCEPT !.pc = "instances", !.svcs = e.svcs \ {s},
                                                !.svc = s, !.count = 0])
    BY <1>7
  <2> DEFINE f == [e EXCEPT !.pc = "instances", !.svcs = e.svcs \ {s}, !.svc = s, !.count = 0]
  <2>2. /\ f \in SearchRecords /\ f.pc = "instances" /\ f.svc = s /\ f.svcs = e.svcs \ {s}
        /\ f.todo = e.todo /\ f.found = e.found /\ f.due = e.due /\ f.count = 0
        /\ f.members = e.members /\ f.partial = TRUE
    <3>1. s \in Services /\ 0 \in 0..Limit
      BY <1>3, Bounds DEF SearchRecords
    <3> DEFINE svcs == e.svcs \ {s}
    <3>2. svcs \in SUBSET Services
      BY <1>3 DEF SearchRecords
    <3> HIDE DEF svcs
    <3> QED
      BY <1>3, <3>1, <3>2 DEF SearchRecords
  <2> HIDE DEF f
  <2>3. f.members = {}
    BY <1>1, <1>3, <1>7, <2>2 DEF SearchOK
  <2>4. SearchOK(f, now)
    <3>1. r.pc = "services" /\ s \in r.svcs
      BY <1>3, <1>7
    <3>2. /\ f.svcs = r.svcs \ {s} /\ f.todo = r.todo /\ f.found = r.found /\ f.due = r.due
      BY <1>3, <2>2
    <3>3. \A m, n \in f.members : m.did = n.did => m = n
      BY <2>3
    <3> QED
      BY <2>2, <3>1, <3>2, <3>3, Opened, Zenon
  <2>5. Become(q, f)
    BY <2>1 DEF f
  <2> QED
    BY <1>1, <1>2, <1>3, <2>2, <2>4, <2>5, ReadStep
<1>8. CASE /\ e.pc = "instances" /\ Wanted(e)
           /\ \E m \in UNION Lowest(e.members, 1) :
                Become(q, [e EXCEPT !.members = e.members \ {m}])
  <2>1. PICK m \in UNION Lowest(e.members, 1) : Become(q, [e EXCEPT !.members = e.members \ {m}])
    BY <1>8
  <2>2. m \in e.members
    BY DEF Lowest
  <2> DEFINE f == [e EXCEPT !.members = e.members \ {m}]
  <2>3. /\ f \in SearchRecords /\ f.pc = "instances" /\ f.svc = e.svc /\ f.svcs = e.svcs
        /\ f.todo = e.todo /\ f.found = e.found /\ f.due = e.due
        /\ f.count = e.count /\ f.members = e.members \ {m} /\ f.partial = TRUE
    BY <1>3, <1>8 DEF SearchRecords
  <2> HIDE DEF f
  <2>4. SearchOK(f, now)
    <3>1. r.pc = "instances" /\ m \in r.members
      BY <1>3, <1>8, <2>2
    <3>2. /\ f.svc = r.svc /\ f.svcs = r.svcs /\ f.todo = r.todo /\ f.found = r.found
          /\ f.due = r.due /\ f.count = r.count /\ f.members = r.members \ {m}
      BY <1>3, <2>3
    <3> QED
      BY <2>3, <3>1, <3>2, PassedOver, Zenon
  <2>5. Become(q, f)
    BY <2>1 DEF f
  <2> QED
    BY <1>1, <1>2, <1>3, <2>3, <2>4, <2>5, ReadStep
<1> QED
  BY <1>4, <1>5, <1>6, <1>7, <1>8

-----------------------------------------------------------------------------
(* The invariant, and what follows from it                                 *)

LEMMA InitIInv ==
  ASSUME Init
  PROVE  IInv
<1> USE DEF Init
<1>1. /\ now = 0 /\ MaxTime \in Nat /\ Ttl \in Nat \ {0} /\ NoScore = -1 /\ Absent = -1
      /\ NeverAcked = -1 - Ttl /\ Forever = MaxTime + Ttl + 1 /\ Forever # Absent
      /\ MaxCalls \in Nat /\ MaxFaults \in Nat
  BY IndexAssumption DEF NoScore, Absent, NeverAcked, Forever
<1>2. NoMembers \in [Dids -> Int] /\ \A d \in Dids : NoMembers[d] = NoScore
  BY <1>1 DEF NoMembers
<1>3. \A w \in Writers : writers[w].pc = "idle" /\ writers[w] \in WriterRecords
  BY DEF NoWriter, WriterRecords
<1> DEFINE r == Search("idle", {}, {}, {})
<1>4. /\ r \in SearchRecords /\ r.pc = "idle" /\ r.members = {} /\ r.svcs = {}
      /\ r.todo = {} /\ r.found = {} /\ r.due = {}
  BY IdleRecord
<1> HIDE DEF r
<1>5. searchers = [q \in Searchers |-> r]
  BY DEF r
<1>6. TypeOK
  BY <1>1, <1>2, <1>3, <1>4, <1>5 DEF TypeOK
<1>7. ScoresInv
  BY <1>1, <1>2 DEF ScoresInv, Members
<1>8. WritersInv
  BY <1>3 DEF WritersInv
<1>9. AckedInv
  BY <1>1 DEF AckedInv, Findable, Kept
<1>10. DueInv /\ SearchComplete
  BY <1>4, <1>5 DEF DueInv, SearchComplete, AnswerComplete
<1>11. SearchesInv
  BY <1>4, <1>5, FS_EmptySet DEF SearchesInv, SearchOK
<1>12. IndexExpires
  BY <1>1 DEF IndexExpires
<1> QED
  BY <1>6, <1>7, <1>8, <1>9, <1>10, <1>11, <1>12 DEF IInv

\* A step in which nothing happens.
LEMMA Stutter ==
  ASSUME IInv, UNCHANGED vars
  PROVE  IInv'
<1>1. /\ UNCHANGED <<now, cidset, field, detail, score, zexpiry, instance>>
      /\ UNCHANGED <<writers, searchers, acked, cut, used>>
  BY DEF vars
<1>2. KeysGrow
  BY <1>1, GrowsSame
<1>3. WritersInv'
  BY <1>1, <1>2, RegistrationStays DEF WritersInv
<1>4. DueInv' /\ SearchesInv' /\ SearchComplete' /\ AckedInv'
  BY <1>1, <1>2, SearchesStay, AckedStays
<1>5. TypeOK' /\ ScoresInv' /\ IndexExpires'
  BY <1>1 DEF IInv, TypeOK, ScoresInv, Members, IndexExpires
<1> QED
  BY <1>3, <1>4, <1>5 DEF IInv

LEMMA NextIInv ==
  ASSUME IInv, [Next]_vars
  PROVE  IInv'
<1>1. ASSUME NEW w \in Writers, WriterStep(w)
      PROVE  IInv'
  BY <1>1, SetCidsStep, ExpireCidsStep, SetDetailStep, ZAddStep, ExpireSetStep, SetInstanceStep,
     HSetStep, HExpireStep, CutOffStep DEF WriterStep
<1>2. ASSUME NEW w \in Writers, NEW ad \in Ads, Register(w, ad)
      PROVE  IInv'
  BY <1>2, StartStep
<1>3. ASSUME NEW q \in Searchers, SearchStep(q) \/ ReadFails(q)
      PROVE  IInv'
  BY <1>3, GetDetailStep, ZRangeStep, GetInstanceStep, EndServiceStep, ReadFailsStep
     DEF SearchStep
<1>4. ASSUME NEW q \in Searchers, NEW c \in Cids, SearchCid(q, c)
      PROVE  IInv'
  BY <1>4, SearchCidStep
<1>5. ASSUME NEW q \in Searchers, NEW s \in Services, SearchInstance(q, s)
      PROVE  IInv'
  BY <1>5, SearchInstanceStep
<1> QED
  BY <1>1, <1>2, <1>3, <1>4, <1>5, TickStep, Stutter DEF Next

\* The invariant of the index, its registrations and its searches, under every
\* command of RegisterInstance, SearchCid and SearchInstance, in any order.
THEOREM Inductive == Spec => []IInv
<1>1. Init => IInv
  BY InitIInv
<1>2. IInv /\ [Next]_vars => IInv'
  BY NextIInv
<1> QED
  BY <1>1, <1>2, PTL DEF Spec

\* What the index and the calls hold is of the type the code gives it.
THEOREM TypeCorrect == Spec => []TypeOK
<1>1. IInv => TypeOK
  BY DEF IInv
<1> QED
  BY <1>1, Inductive, PTL

\* RegisterInstance against SearchCid and SearchInstance: what was acknowledged
\* is in every answer for DEFAULT_TTL, if there is room for it.
THEOREM Complete == Spec => []SearchComplete
<1>1. IInv => SearchComplete
  BY DEF IInv
<1> QED
  BY <1>1, Inductive, PTL

\* RegisterInstance leaves no key without a time to live behind, unless it is
\* cut off between a write and its EXPIRE.
THEOREM Expires == Spec => []IndexExpires
<1>1. IInv => IndexExpires
  BY DEF IInv
<1> QED
  BY <1>1, Inductive, PTL
=============================================================================
