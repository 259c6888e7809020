---------------------------- MODULE ServiceIndex ----------------------------
(***************************************************************************)
(* The index of provider instances: RegisterInstance spreads an            *)
(* advertisement over several Redis keys, one command after the other, and *)
(* SearchCid, SearchInstance and DelegatedRouting put an answer together   *)
(* from them, one command after the other.  Every key has its own lifetime.*)
(*                                                                         *)
(*   vsvc:cid:<svc>      hash of the service's cids (written, never read)  *)
(*   cid:vsvc:<cid>      hash, a field per virtual service, each with a TTL*)
(*   vsvc:detail:<svc>   the virtual service itself                        *)
(*   vsvc:instance:<svc> sorted set of provider DIDs, by registration time *)
(*   instance:<did>      the advertisement, whatever service it is for     *)
(*                                                                         *)
(* Code: internal/api/virtual_service.go and internal/api/index.go.        *)
(***************************************************************************)
EXTENDS Integers, Sequences, FiniteSets, Functions

CONSTANTS
  Writers,    \* slots for RegisterInstance calls in progress
  Searchers,  \* slots for searches in progress
  Dids,       \* provider instances
  Services,   \* virtual services; each is named by the Merkle root of its cids
  Cids,       \* content ids, as clients write them
  Decode(_),  \* cid.Decode: whether a cid decodes, its version, codec and hash
  String(_,_),\* the text of the CIDv1 with a codec and a hash
  CidsOf(_),  \* the sequence of cids whose Merkle root names a service, written
              \* as its providers send them
  Ads,        \* the advertisements providers send
  Ttl,        \* DEFAULT_TTL
  Limit,      \* defaultInstanceCount
  MaxTime,    \* bound: the last instant of the clock
  MaxCalls,   \* bound: RegisterInstance calls
  MaxFaults   \* bound: calls cut off and commands that fail

\* An advertisement; valid if behaviour link and Merkle root are as they must.
AllAds == [did: Dids, svc: Services, until: Int, valid: BOOLEAN]

NoCid == "none"

\* NormalizeCidToV1: the CIDv1 text of a cid in either version, or an error.
\* Version 0 knows dag-pb only.
NormalizeCidToV1(c) ==
  LET d == Decode(c)
  IN  IF d.ok /\ (d.version = 0 \/ d.codec \in {"raw", "dag-pb"})
        THEN String(d.codec, d.hash) ELSE NoCid

ASSUME IndexAssumption ==
  /\ \A s \in Services : CidsOf(s) \in Seq(Cids) /\ CidsOf(s) # <<>>
  /\ \A c \in Cids : NormalizeCidToV1(c) \in Cids \cup {NoCid}
  /\ NoCid \notin Cids
  /\ Ads \subseteq AllAds
  /\ IsFiniteSet(Dids) /\ "none" \notin Services
  /\ {"cids", "zset"} \cap Cids = {}
  /\ Ttl \in Nat \ {0} /\ Limit \in Nat \ {0}
  /\ MaxTime \in Nat /\ MaxCalls \in Nat /\ MaxFaults \in Nat

VARIABLES
  now,       \* the clock
  cidset,    \* vsvc:cid:<svc>: when it expires
  field,     \* cid:vsvc:<cid>: when the field of a service expires
  detail,    \* vsvc:detail:<svc>: when it expires
  score,     \* vsvc:instance:<svc>: the scores of its members
  zexpiry,   \* and when the whole set expires
  instance,  \* instance:<did>, the advertisement: when it expires
  writers,   \* RegisterInstance calls in progress
  searchers, \* searches in progress, and the last answer of a slot
  acked,     \* history: when the last acknowledged registration of a provider
             \* for a service began
  cut,       \* history: keys whose time to live a cut-off call did not set
  used       \* history: how many calls and faults there have been

vars == <<now, cidset, field, detail, score, zexpiry, instance,
          writers, searchers, acked, cut, used>>

index == <<cidset, field, detail, score, zexpiry, instance>>

Absent  == -1                  \* expiry of a key that does not exist
Forever == MaxTime + Ttl + 1   \* expiry of a key without a time to live
NoScore == -1
NeverAcked == -1 - Ttl
NoMembers == [d \in Dids |-> NoScore]

Alive(expiry) == expiry # Absent

\* HSET and ZADD: a key they create has no time to live.
Written(expiry) == IF Alive(expiry) THEN expiry ELSE Forever

\* EXPIRE: a key that is not there stays that way, and nothing is reported.
Renewed(expiry) == IF Alive(expiry) THEN now + Ttl ELSE expiry

NoWriter == [pc |-> "idle"]

\* A registration: its advertisement, when it began, the score it computed,
\* the cids still to do; as history, whether EXPIRE no longer found its member.
WriterRecords ==
  {NoWriter} \cup
  [pc: {"cids", "cidsexpire", "detail", "zadd", "zexpire", "instance", "hset", "hexpire"},
   ad: AllAds, began: Int, stamp: Int, left: Seq(Cids), lost: BOOLEAN]

\* An instance found, for which service and with which score.
Finds == [did: Dids, svc: Services, score: Int]

\* A search: services still to look up, services with details, the service
\* whose providers are looked up and those left of them with their scores, how
\* many of them were found, all that was found, the answer.  As history: the
\* registrations it has to find, and whether ZRANGE or a failed command left
\* something out.
SearchRecords ==
  [pc: {"idle", "details", "services", "instances"}, todo: SUBSET Services,
   svcs: SUBSET Services, svc: Services \cup {"none"},
   members: SUBSET [did: Dids, score: Int], count: 0..Limit, found: SUBSET Finds,
   due: SUBSET [did: Dids, svc: Services, since: Int], partial: BOOLEAN, answer: SUBSET Finds]

Search(pc, todo, svcs, due) ==
  [pc |-> pc, todo |-> todo, svcs |-> svcs, svc |-> "none", members |-> {},
   count |-> 0, found |-> {}, due |-> due, partial |-> FALSE, answer |-> {}]

Init ==
  /\ now = 0
  /\ cidset = [s \in Services |-> Absent]
  /\ field = [c \in Cids |-> [s \in Services |-> Absent]]
  /\ detail = [s \in Services |-> Absent]
  /\ score = [s \in Services |-> NoMembers]
  /\ zexpiry = [s \in Services |-> Absent]
  /\ instance = [d \in Dids |-> Absent]
  /\ writers = [w \in Writers |-> NoWriter]
  /\ searchers = [q \in Searchers |-> Search("idle", {}, {}, {})]
  /\ acked = [d \in Dids |-> [s \in Services |-> NeverAcked]]
  /\ cut = {}
  /\ used = [calls |-> 0, faults |-> 0]

-----------------------------------------------------------------------------
(* RegisterInstance                                                        *)

\* IsBehaviorMatching and EnsureAdvertisementValid; validation asks for an
\* expire_time in the future.
EnsureAdvertisementValid(ad) == ad.valid /\ ad.until > now

Register(w, ad) ==
  /\ writers[w].pc = "idle"
  /\ EnsureAdvertisementValid(ad)
  /\ writers' = [writers EXCEPT ![w] =
                   [pc |-> "cids", ad |-> ad, began |-> now, stamp |-> now,
                    left |-> CidsOf(ad.svc), lost |-> FALSE]]
  /\ used.calls < MaxCalls /\ used' = [used EXCEPT !.calls = @ + 1]
  /\ UNCHANGED <<now, index, searchers, acked, cut>>

Goto(w, pc) == writers' = [writers EXCEPT ![w].pc = pc]

\* HSET vsvc:cid:<svc>.
SetCids(w) ==
  /\ writers[w].pc = "cids"
  /\ cidset' = [cidset EXCEPT ![writers[w].ad.svc] = Written(@)]
  /\ Goto(w, "cidsexpire")
  /\ UNCHANGED <<now, field, detail, score, zexpiry, instance, searchers, acked, cut, used>>

\* EXPIRE vsvc:cid:<svc>.
ExpireCids(w) ==
  LET s == writers[w].ad.svc
  IN  /\ writers[w].pc = "cidsexpire"
      /\ cidset' = [cidset EXCEPT ![s] = Renewed(@)]
      /\ cut' = cut \ {<<"cids", s>>}
      /\ Goto(w, "detail")
      /\ UNCHANGED <<now, field, detail, score, zexpiry, instance, searchers, acked, used>>

\* Mutant: a virtual service that is there already is not written again.
SetDetailOnce(w) ==
  /\ writers[w].pc = "detail"
  /\ detail' = [detail EXCEPT ![writers[w].ad.svc] = IF Alive(@) THEN @ ELSE now + Ttl]
  /\ writers' = [writers EXCEPT ![w].pc = "zadd", ![w].stamp = now]
  /\ UNCHANGED <<now, cidset, field, score, zexpiry, instance, searchers, acked, cut, used>>

\* SET vsvc:detail:<svc> with DEFAULT_TTL; then the score is computed.
SetDetail(w) ==
  /\ writers[w].pc = "detail"
  /\ detail' = [detail EXCEPT ![writers[w].ad.svc] = now + Ttl]
  /\ writers' = [writers EXCEPT ![w].pc = "zadd", ![w].stamp = now]
  /\ UNCHANGED <<now, cidset, field, score, zexpiry, instance, searchers, acked, cut, used>>

\* GT: a member keeps the score it has if that is the greater one.
NewScore(old, stamp) == IF old < stamp THEN stamp ELSE old

\* ZADD GT: a new set has no time to live until EXPIRE.
ZAddGT(w) ==
  LET s == writers[w].ad.svc
      d == writers[w].ad.did
  IN  /\ writers[w].pc = "zadd"
      /\ score' = [score EXCEPT ![s][d] = NewScore(@, writers[w].stamp)]
      /\ zexpiry' = [zexpiry EXCEPT ![s] = Written(@)]
      /\ Goto(w, "zexpire")
      /\ UNCHANGED <<now, cidset, field, detail, instance, searchers, acked, cut, used>>

Members(s) == {d \in Dids : score[s][d] # NoScore}

\* Mutant: EXPIRE GT, which leaves a key without a time to live alone.
ExpireSetGT(w) ==
  LET s == writers[w].ad.svc
  IN  /\ writers[w].pc = "zexpire"
      /\ zexpiry' = [zexpiry EXCEPT ![s] = IF Alive(@) /\ @ < now + Ttl THEN now + Ttl ELSE @]
      /\ cut' = cut \ {<<"zset", s>>}
      /\ writers' = [writers EXCEPT ![w].pc = "instance",
                                   ![w].lost = writers[w].ad.did \notin Members(s)]
      /\ UNCHANGED <<now, cidset, field, detail, score, instance, searchers, acked, used>>

\* EXPIRE of the sorted set; if that is gone by now, the call goes on.
ExpireSet(w) ==
  LET s == writers[w].ad.svc
  IN  /\ writers[w].pc = "zexpire"
      /\ zexpiry' = [zexpiry EXCEPT ![s] = Renewed(@)]
      /\ cut' = cut \ {<<"zset", s>>}
      /\ writers' = [writers EXCEPT ![w].pc = "instance",
                                   ![w].lost = writers[w].ad.did \notin Members(s)]
      /\ UNCHANGED <<now, cidset, field, detail, score, instance, searchers, acked, used>>

\* SET instance:<did> with DEFAULT_TTL: one advertisement per provider.
SetInstance(w) ==
  /\ writers[w].pc = "instance"
  /\ instance' = [instance EXCEPT ![writers[w].ad.did] = now + Ttl]
  /\ Goto(w, "hset")
  /\ UNCHANGED <<now, cidset, field, detail, score, zexpiry, searchers, acked, cut, used>>

\* HSET cid:vsvc:<cid>: a field that is set anew loses its time to live.
HSet(w) ==
  LET c == Head(writers[w].left)
  IN  /\ writers[w].pc = "hset"
      /\ field' = [field EXCEPT ![c][writers[w].ad.svc] = Forever]
      /\ Goto(w, "hexpire")
      /\ UNCHANGED <<now, cidset, detail, score, zexpiry, instance, searchers, acked, cut, used>>

\* Whether registerCid goes round again after this cid.
MoreCids(r) == Len(r.left) > 1

\* HEXPIRE, and on to the next cid; after the last one the call is answered.
HExpire(w) ==
  LET r == writers[w]
      c == Head(r.left)
  IN  /\ r.pc = "hexpire"
      /\ field' = [field EXCEPT ![c][r.ad.svc] = Renewed(@)]
      /\ cut' = cut \ {<<c, r.ad.svc>>}
      /\ IF MoreCids(r)
           THEN /\ writers' = [writers EXCEPT ![w].pc = "hset", ![w].left = Tail(@)]
                /\ UNCHANGED acked
           ELSE /\ writers' = [writers EXCEPT ![w] = NoWriter]
                /\ acked' = [acked EXCEPT ![r.ad.did][r.ad.svc] =
                               IF @ < r.began /\ ~r.lost THEN r.began ELSE @]
      /\ UNCHANGED <<now, cidset, detail, score, zexpiry, instance, searchers, used>>

Fault == used.faults < MaxFaults /\ used' = [used EXCEPT !.faults = @ + 1]

\* A command fails, or the server stops: the rest of the registration is not
\* done.  Nothing is taken back.
CutOff(w) ==
  LET r == writers[w]
  IN  /\ r.pc # "idle"
      /\ writers' = [writers EXCEPT ![w] = NoWriter]
      /\ cut' = CASE r.pc = "cidsexpire" -> cut \cup {<<"cids", r.ad.svc>>}
                  [] r.pc = "zexpire" -> cut \cup {<<"zset", r.ad.svc>>}
                  [] r.pc = "hexpire" -> cut \cup {<<Head(r.left), r.ad.svc>>}
                  [] OTHER -> cut
      /\ Fault
      /\ UNCHANGED <<now, index, searchers, acked>>

-----------------------------------------------------------------------------
(* SearchCid, DelegatedRouting (the same, showing less) and SearchInstance *)

Become(q, r) == searchers' = [searchers EXCEPT ![q] = r]

ReadOnly == UNCHANGED <<now, index, writers, acked, cut>>
Succeeds == ReadOnly /\ UNCHANGED used

\* The acknowledged registrations for services in S that have to be found,
\* which is until their keys may expire.
StillFresh(due) == {p \in due : now <= p.since + Ttl}

Due(S) ==
  StillFresh({[did |-> d, svc |-> s, since |-> acked[d][s]] : d \in Dids, s \in S})

\* The services whose providers sent the CIDv1 text of what c decodes to.
ServicesWith(c) ==
  {s \in Services : String(Decode(c).codec, Decode(c).hash) \in Range(CidsOf(s))}

\* HSCAN of the normal form of the cid; with no service at all the answer is
\* NotFound.  registerCid keeps the cids as they were sent, so only services
\* whose providers sent the normal form have to be found here.
SearchCid(q, c) ==
  LET key  == NormalizeCidToV1(c)
      todo == {s \in Services : Alive(field[key][s])}
      due  == Due(ServicesWith(c))
  IN  /\ searchers[q].pc = "idle"
      /\ key # NoCid
      /\ Become(q, Search(IF todo = {} THEN "idle" ELSE "details", todo, {}, due))
      /\ Succeeds

SearchInstance(q, s) ==
  /\ searchers[q].pc = "idle"
  /\ Become(q, Search("services", {}, {s}, Due({s})))
  /\ Succeeds

NextDetail(r) ==
  CASE r.todo # {} -> r
    [] r.todo = {} /\ r.svcs # {} -> [r EXCEPT !.pc = "services"]
    [] OTHER -> [r EXCEPT !.pc = "idle", !.due = StillFresh(@)]

\* GET vsvc:detail of each service; one without details is passed over, and
\* with none left the answer is NotFound.
GetDetail(q) ==
  LET r == searchers[q]
  IN  /\ r.pc = "details"
      /\ \E s \in r.todo :
           LET todo == r.todo \ {s}
               svcs == r.svcs \cup (IF Alive(detail[s]) THEN {s} ELSE {})
           IN  Become(q, NextDetail([r EXCEPT !.todo = todo, !.svcs = svcs]))
      /\ Succeeds

\* The n elements of S with the lowest scores, ties broken either way.
Lowest(S, n) ==
  {M \in SUBSET S : /\ Cardinality(M) = IF Cardinality(S) < n THEN Cardinality(S) ELSE n
                    /\ \A x \in M, y \in S \ M : x.score <= y.score}

\* ZRANGE 0 Limit, both ends included, lowest score first.
ZRange(q) ==
  LET r == searchers[q]
  IN  /\ r.pc = "services"
      /\ \E s \in r.svcs :
           \E M \in Lowest({[did |-> d, score |-> score[s][d]] : d \in Members(s)}, Limit + 1) :
             Become(q, [r EXCEPT !.pc = "instances", !.svc = s, !.svcs = @ \ {s},
                                 !.members = M, !.count = 0,
                                 !.partial = @ \/ Cardinality(Members(s)) > Limit + 1])
      /\ Succeeds

\* Mutant: off by one.
WantedOneMore(r) == r.members # {} /\ r.count <= Limit

\* searchInstances goes on to the next member.
Wanted(r) == r.members # {} /\ r.count < Limit

\* GET instance:<did> of the next provider; one that is gone is passed over.
\* A service contributes at most Limit.
GetInstance(q) ==
  LET r == searchers[q]
  IN  /\ r.pc = "instances" /\ Wanted(r)
      /\ \E m \in UNION Lowest(r.members, 1) :
           Become(q,
             IF Alive(instance[m.did])
               THEN [r EXCEPT !.members = @ \ {m}, !.count = @ + 1,
                              !.found = @ \cup {[did |-> m.did, svc |-> r.svc,
                                                 score |-> m.score]}]
               ELSE [r EXCEPT !.members = @ \ {m}])
      /\ Succeeds

\* The next service, or the answer: everything found, by score, and no more
\* than Limit + 1 of it.
EndService(q) ==
  LET r == searchers[q]
  IN  /\ r.pc = "instances" /\ ~Wanted(r)
      /\ IF r.svcs # {}
           THEN Become(q, [r EXCEPT !.pc = "services", !.members = {}])
           ELSE \E A \in Lowest(r.found, Limit + 1) :
                  Become(q, [Search("idle", {}, {}, StillFresh(r.due))
                               EXCEPT !.answer = A, !.partial = r.partial])
      /\ Succeeds

\* A command of a search fails: HSCAN as if there were no services, a GET or a
\* ZRANGE as if what it reads were not there; the search goes on without.
ReadFails(q) ==
  LET r == [searchers[q] EXCEPT !.partial = TRUE]
  IN  /\ \/ /\ r.pc = "idle"
            /\ Become(q, [Search("idle", {}, {}, {}) EXCEPT !.partial = TRUE])
         \/ /\ r.pc = "details"
            /\ \E s \in r.todo : Become(q, NextDetail([r EXCEPT !.todo = @ \ {s}]))
         \/ /\ r.pc = "services"
            /\ \E s \in r.svcs : Become(q, [r EXCEPT !.pc = "instances", !.svcs = @ \ {s},
                                                     !.svc = s, !.count = 0])
         \/ /\ r.pc = "instances" /\ Wanted(r)
            /\ \E m \in UNION Lowest(r.members, 1) :
                 Become(q, [r EXCEPT !.members = @ \ {m}])
      /\ Fault
      /\ ReadOnly

-----------------------------------------------------------------------------
\* Time passes, and Redis drops the keys whose time to live is over.
Lapse(expiry) == IF expiry < now' THEN Absent ELSE expiry

Tick ==
  /\ now < MaxTime
  /\ now' = now + 1
  /\ cidset' = [s \in Services |-> Lapse(cidset[s])]
  /\ field' = [c \in Cids |-> [s \in Services |-> Lapse(field[c][s])]]
  /\ detail' = [s \in Services |-> Lapse(detail[s])]
  /\ zexpiry' = [s \in Services |-> Lapse(zexpiry[s])]
  /\ score' = [s \in Services |-> IF zexpiry[s] < now' THEN NoMembers ELSE score[s]]
  /\ instance' = [d \in Dids |-> Lapse(instance[d])]
  /\ acked' = [d \in Dids |-> [s \in Services |->
                  IF acked[d][s] + Ttl < now' THEN NeverAcked ELSE acked[d][s]]]
  /\ UNCHANGED <<writers, searchers, cut, used>>

WriterStep(w) == \/ SetCids(w) \/ ExpireCids(w) \/ SetDetail(w) \/ ZAddGT(w) \/ ExpireSet(w) \/ SetInstance(w)
                 \/ HSet(w) \/ HExpire(w) \/ CutOff(w)

SearchStep(q) == GetDetail(q) \/ ZRange(q) \/ GetInstance(q) \/ EndService(q)

Next == \/ \E w \in Writers : WriterStep(w) \/ \E ad \in Ads : Register(w, ad)
        \/ \E q \in Searchers : \/ SearchStep(q)
                               \/ ReadFails(q)
                               \/ \E c \in Cids : SearchCid(q, c)
                               \/ \E s \in Services : SearchInstance(q, s)
        \/ Tick

Spec == Init /\ [][Next]_vars

-----------------------------------------------------------------------------
(* Properties                                                              *)

\* Every variable ranges over what the code can store in it.
TypeOK ==
  /\ now \in 0..MaxTime
  /\ cidset \in [Services -> Int]
  /\ field \in [Cids -> [Services -> Int]]
  /\ detail \in [Services -> Int]
  /\ score \in [Services -> [Dids -> Int]]
  /\ zexpiry \in [Services -> Int]
  /\ instance \in [Dids -> Int]
  /\ writers \in [Writers -> WriterRecords]
  /\ searchers \in [Searchers -> SearchRecords]
  /\ acked \in [Dids -> [Services -> Int]]
  /\ cut \subseteq (Cids \cup {"cids", "zset"}) \X Services
  /\ used \in [calls: 0..MaxCalls, faults: 0..MaxFaults]

Shown(r, s) == {x \in r.answer : x.svc = s}

\* What has to be in the answer of a search is there, or others took its place.
AnswerComplete(r) ==
  \A p \in r.due : \/ \E x \in Shown(r, p.svc) : x.did = p.did
                   \/ Cardinality(Shown(r, p.svc)) = Limit
                   \/ Cardinality(r.answer) = Limit + 1

\* RegisterInstance against the searches: a registration acknowledged before a
\* search began, and not older than DEFAULT_TTL when it ends, is in the answer,
\* whatever is registered, refreshed, cut off or expires meanwhile; it may only
\* be missing if its service or the whole answer is full.  For SearchCid that
\* is a registration that sent the cid in the normal form the search looks up;
\* one that sent it in another encoding, or with a codec NormalizeCidToV1
\* refuses, is acknowledged and never found by its cid.
SearchComplete ==
  \A q \in Searchers :
    searchers[q].pc = "idle" /\ ~searchers[q].partial => AnswerComplete(searchers[q])

\* The next command of a registration for service s.
At(r, pc, s) == r.pc = pc /\ r.ad.svc = s

\* Everything the index holds has a time to live, but for the moment between
\* the two commands that write a key and set its time to live, and for keys
\* whose registration was cut off in that moment.
IndexExpires ==
  \A s \in Services :
    /\ cidset[s] = Forever =>
         <<"cids", s>> \in cut \/ \E w \in Writers : At(writers[w], "cidsexpire", s)
    /\ zexpiry[s] = Forever =>
         <<"zset", s>> \in cut \/ \E w \in Writers : At(writers[w], "zexpire", s)
    /\ \A c \in Cids : field[c][s] = Forever =>
         <<c, s>> \in cut \/ \E w \in Writers : /\ At(writers[w], "hexpire", s)
                                                /\ Head(writers[w].left) = c

-----------------------------------------------------------------------------
(* The inductive invariant behind these                                    *)

\* At the instant t a key expires no earlier than a registration that began at
\* b needs it.
Kept(expiry, b, t) == b + Ttl < t \/ b + Ttl <= expiry

\* A search finds a registration of d for s that began at b.
Findable(d, s, b) ==
  /\ Kept(detail[s], b, now) /\ Kept(zexpiry[s], b, now) /\ Kept(instance[d], b, now)
  /\ b + Ttl < now \/ d \in Members(s)
  /\ \A c \in Range(CidsOf(s)) : Kept(field[c][s], b, now)

\* Scores are times, and a set with members has a key.
ScoresInv ==
  \A s \in Services, d \in Dids : /\ score[s][d] >= NoScore
                                  /\ d \in Members(s) => Alive(zexpiry[s])

\* What a registration has written is kept, as far as it got.
RegistrationOK(r) ==
  LET s == r.ad.svc
      b == r.began
  IN  /\ b \in 0..now /\ r.stamp \in 0..now /\ r.left # <<>>
      /\ r.pc \in {"zadd", "zexpire", "instance", "hset", "hexpire"} => Kept(detail[s], b, now)
      /\ r.pc \in {"instance", "hset", "hexpire"} /\ ~r.lost =>
           Kept(zexpiry[s], b, now) /\ (b + Ttl < now \/ r.ad.did \in Members(s))
      /\ r.pc \in {"hset", "hexpire"} => Kept(instance[r.ad.did], b, now)
      /\ \A c \in Range(CidsOf(s)) : c \in Range(r.left) \/ Kept(field[c][s], b, now)
      /\ r.pc = "hexpire" => Kept(field[Head(r.left)][s], b, now)

WritersInv == \A w \in Writers : writers[w].pc # "idle" => RegistrationOK(writers[w])

\* What is acknowledged, and what a search has to find, can be found.
AckedInv ==
  \A d \in Dids, s \in Services : acked[d][s] <= now /\ Findable(d, s, acked[d][s])

DueInv ==
  \A q \in Searchers : \A p \in searchers[q].due :
    p.since <= now /\ Findable(p.did, p.svc, p.since)

FoundFor(r, s) == {x \in r.found : x.svc = s}

\* A search is still to come to p, has found it, or has enough of its service.
Pending(r, p) ==
  \/ p.svc \in r.todo \cup r.svcs
  \/ r.pc = "instances" /\ p.svc = r.svc /\ \E m \in r.members : m.did = p.did
  \/ \E x \in FoundFor(r, p.svc) : x.did = p.did
  \/ Cardinality(FoundFor(r, p.svc)) = Limit

\* A search looks up one service after the other, and counts what it finds.
Counted(r) ==
  /\ r.svc \in Services \ r.svcs
  /\ r.count = Cardinality(FoundFor(r, r.svc))
  /\ \A m \in r.members, x \in r.found : x.svc = r.svc => x.did # m.did
  /\ \A m, n \in r.members : m.did = n.did => m = n

SearchOK(r, t) ==
  /\ IsFiniteSet(r.found) /\ \A x \in r.found : x.svc \notin r.svcs
  /\ r.pc \in {"idle", "details"} => r.found = {}
  /\ r.pc # "instances" => r.members = {}
  /\ r.pc \in {"services", "instances"} => r.todo = {}
  /\ r.pc = "instances" => Counted(r)
  /\ r.pc # "idle" /\ ~r.partial => \A p \in r.due : p.since + Ttl < t \/ Pending(r, p)

SearchesInv == \A q \in Searchers : SearchOK(searchers[q], now)

IInv == /\ TypeOK /\ ScoresInv /\ WritersInv /\ AckedInv /\ DueInv /\ SearchesInv
        /\ IndexExpires /\ SearchComplete
=============================================================================
