---------------------------- MODULE StreamStore ----------------------------
(***************************************************************************)
(* Streams of values: CreateStreamValue appends an entry with XADD, which  *)
(* trims entries that are too old, and refreshes the lifetime of the whole *)
(* stream with EXPIRE, a second command; ListStreamValues reads a stream   *)
(* page by page, GetStreamValue a single entry, and it waits for that      *)
(* entry when there is none.                                               *)
(*                                                                         *)
(* Code: internal/api/stream_value_handler.go, ParseResourceName of        *)
(* pkg/middleware/utils.go.  Time is in units that divide a second; the    *)
(* server and Redis share one clock.                                       *)
(***************************************************************************)
EXTENDS Integers, Sequences, FiniteSets

CONSTANTS
  Writers,      \* slots for CreateStreamValue calls in progress
  Readers,      \* clients that read streams
  Names,        \* names of streams, as clients write them
  Accounts,     \* the subjects of auth tokens
  Matches(_),   \* the pattern of kvstore.proto a name of a stream must match
  Owner(_),     \* the account ParseResourceName finds in a name, or NoOwner
  Rebuilt(_),   \* the name GetStreamValue puts together from the parsed parts
  PageSizes,    \* the page sizes clients ask for
  AskedIds,     \* the entries clients ask GetStreamValue for
  Ttl,          \* streamTtl
  Second,       \* units of time in a second
  MaxTime,      \* bound: the last instant of the clock
  MaxCalls,     \* bound: CreateStreamValue calls
  MaxRetries,   \* how often go-redis repeats a command that got no reply
  MaxFaults     \* bound: calls cut off and replies lost

NoOwner == "none"

ASSUME StreamAssumption ==
  /\ \A n \in Names : /\ Matches(n) \in BOOLEAN
                      /\ Owner(n) \in Accounts \cup {NoOwner}
                      /\ Rebuilt(n) \in Names
  /\ PageSizes \subseteq Nat /\ AskedIds \subseteq Int \X Int
  /\ Ttl \in Nat \ {0} /\ Second \in Nat \ {0}
  /\ MaxTime \in Nat \ {0} /\ MaxCalls \in Nat /\ MaxRetries \in Nat /\ MaxFaults \in Nat

VARIABLES
  now,      \* the clock
  stream,   \* the ids of the entries of a stream, oldest first
  expiry,   \* when a stream expires
  writers,  \* CreateStreamValue calls in progress
  readers,  \* what a reader has been given of which stream
  waiting,  \* GetStreamValue calls in XREAD: the reader, the stream, the id
  acked,    \* history: entries whose call was acknowledged
  cut,      \* history: streams whose time to live a cut-off call did not set
  used      \* history: how many calls and faults there have been

vars == <<now, stream, expiry, writers, readers, waiting, acked, cut, used>>

Absent  == -1                   \* expiry of a stream that does not exist
Forever == MaxTime + Ttl + 1    \* expiry of a stream without a time to live

Ids    == Int \X Int            \* an entry id: a time and a sequence number
ZeroId == <<0, 0>>

\* A call: its stream, the minID it computed, its entry, the repeats of XADD.
Writing(pc, n, minTime, id, tries) ==
  [pc |-> pc, name |-> n, minTime |-> minTime, id |-> id, tries |-> tries]

Done == [pc |-> "idle"]

WriterRecords ==
  {Done} \cup
  [pc: {"xadd", "expire"}, name: Names, minTime: Int, id: Ids, tries: 0..MaxRetries]

Init ==
  /\ now = 1
  /\ stream = [n \in Names |-> <<>>]
  /\ expiry = [n \in Names |-> Absent]
  /\ writers = [w \in Writers |-> Done]
  /\ readers \in [Readers -> [name: Names, token: {ZeroId}, seen: {{}}]]
  /\ waiting = {}
  /\ acked = {}
  /\ cut = {}
  /\ used = [calls |-> 0, faults |-> 0]

Alive(n) == expiry[n] # Absent

Elements(s) == {s[i] : i \in DOMAIN s}

\* Entry ids compare as numbers, the time first.
Before(a, b) == a[1] < b[1] \/ (a[1] = b[1] /\ a[2] < b[2])

-----------------------------------------------------------------------------
(* CreateStreamValue                                                       *)

\* Mutant: rounded up to whole seconds.
MinTimeUp(t) == ((t - Ttl) \div Second + 1) * Second

\* time.Now().Add(-streamTtl), cut to whole seconds.
MinTime(t) == ((t - Ttl) \div Second) * Second

CreateStreamValue(w, n) ==
  /\ writers[w].pc = "idle"
  /\ Matches(n)
  /\ used.calls < MaxCalls /\ used' = [used EXCEPT !.calls = @ + 1]
  /\ writers' = [writers EXCEPT ![w] = Writing("xadd", n, MinTime(now), ZeroId, 0)]
  /\ UNCHANGED <<now, stream, expiry, readers, waiting, acked, cut>>

\* The id Redis gives the next entry.
NextId(s) ==
  IF s # <<>> /\ s[Len(s)][1] = now THEN <<now, s[Len(s)][2] + 1>> ELSE <<now, 0>>

\* How many entries may go from the front: all of them older than minID.
Stale(s, minTime) == {k \in 0..Len(s) : \A i \in 1..k : s[i][1] < minTime}

\* XADD with an approximate MINID: after the append, whole nodes of the stream
\* go whose entries are all too old, so some of the stale entries or none.  A
\* stream it creates has no time to live.  Redis answers the XREADs that wait
\* for the entry.
XAdd(n, minTime) ==
  LET s == Append(stream[n], NextId(stream[n]))
  IN  /\ \E k \in Stale(s, minTime) :
           stream' = [stream EXCEPT ![n] = SubSeq(s, k + 1, Len(s))]
      /\ expiry' = [expiry EXCEPT ![n] = IF Alive(n) THEN @ ELSE Forever]
      /\ waiting' = {x \in waiting : ~(x[2] = n /\ Before(x[3], NextId(stream[n])))}

Added(w) ==
  LET r == writers[w]
  IN  /\ r.pc = "xadd"
      /\ XAdd(r.name, r.minTime)
      /\ writers' = [writers EXCEPT ![w].pc = "expire", ![w].id = NextId(stream[r.name])]
      /\ UNCHANGED <<now, readers, acked, cut, used>>

\* Mutant: one retry too many.
RetryOnceMore(r) == r.tries <= MaxRetries

CanRetry(r) == r.tries < MaxRetries

Fault == used.faults < MaxFaults /\ used' = [used EXCEPT !.faults = @ + 1]

\* The entry is added and the reply lost: go-redis adds it once more, and after
\* MaxRetries the call fails, with no EXPIRE.
AddLost(w) ==
  LET r == writers[w]
  IN  /\ r.pc = "xadd"
      /\ XAdd(r.name, r.minTime)
      /\ IF CanRetry(r)
           THEN writers' = [writers EXCEPT ![w].tries = @ + 1] /\ UNCHANGED cut
           ELSE /\ writers' = [writers EXCEPT ![w] = Done]
                /\ cut' = IF expiry'[r.name] = Forever THEN cut \cup {r.name} ELSE cut
      /\ Fault
      /\ UNCHANGED <<now, readers, acked>>

\* Mutant: EXPIRE GT, which leaves a stream without a time to live alone.
RefreshGT(n) == IF Alive(n) /\ expiry[n] < now + Ttl THEN now + Ttl ELSE expiry[n]

\* EXPIRE of the stream, and the answer.  A stream that expired since XADD is
\* not there to be refreshed, and the call is acknowledged all the same.
Refresh(n) == IF Alive(n) THEN now + Ttl ELSE expiry[n]

Expire(w) ==
  LET r == writers[w]
      lost == r.id \notin Elements(stream[r.name])
  IN  /\ r.pc = "expire"
      /\ expiry' = [expiry EXCEPT ![r.name] = Refresh(r.name)]
      /\ cut' = cut \ {r.name}
      /\ writers' = [writers EXCEPT ![w] = Done]
      /\ acked' = IF lost \/ now > r.id[1] + Ttl THEN acked
                  ELSE acked \cup {<<r.name, r.id>>}
      /\ UNCHANGED <<now, stream, readers, waiting, used>>

\* A command does not reach Redis, or the server stops.
CutOff(w) ==
  LET r == writers[w]
  IN  /\ r.pc # "idle"
      /\ writers' = [writers EXCEPT ![w] = Done]
      /\ cut' = IF expiry[r.name] = Forever THEN cut \cup {r.name} ELSE cut
      /\ Fault
      /\ UNCHANGED <<now, stream, expiry, readers, waiting, acked>>

-----------------------------------------------------------------------------
(* ListStreamValues and GetStreamValue                                     *)

ParseResourceName(n) == Owner(n) # NoOwner

\* The auth token is the server's own, and its subject owns the stream.
ensureAuthToken(n, subject) == Owner(n) = subject

MayRead(n, subject) == Matches(n) /\ ParseResourceName(n) /\ ensureAuthToken(n, subject)

\* How many entries a range from the token on passes over.
Skipped(s, token) == Cardinality({i \in DOMAIN s : Before(s[i], token)})

\* Mutant: the newest entries first.
NewestPage(s, token, size) ==
  LET skip == Skipped(s, token)
  IN  SubSeq(s, IF skip + size < Len(s) THEN Len(s) - size + 1 ELSE skip + 1, Len(s))

\* XRANGE <token> + COUNT <size>: from the token on, the token included.
Page(s, token, size) ==
  LET skip == Skipped(s, token)
  IN  SubSeq(s, skip + 1, IF skip + size < Len(s) THEN skip + size ELSE Len(s))

\* Mutant: the sequence numbers are compared first.
MaxBySequence(a, b) ==
  IF a[2] < b[2] \/ (a[2] = b[2] /\ a[1] < b[1]) THEN b ELSE a

getMaxEntryID(a, b) == IF Before(a, b) THEN b ELSE a

\* The token of the answer: the loop starts from "0-0" and ends with the id
\* that getMaxEntryID prefers to every other.
PageToken(page) ==
  LET ids == {ZeroId} \cup Elements(page)
  IN  CHOOSE max \in ids : \A id \in ids : getMaxEntryID(max, id) = max

\* A reader starts from "0-0", or goes on with the token it was given last.
ListStreamValues(q, n, size, subject, anew) ==
  LET r     == readers[q]
      token == IF anew THEN ZeroId ELSE r.token
      page  == Page(stream[n], token, size)
  IN  /\ MayRead(n, subject) /\ size > 0   \* COUNT 0 is answered with an error
      /\ anew \/ r.name = n
      /\ readers' = [readers EXCEPT ![q] =
                       [name |-> n, token |-> PageToken(page),
                        seen |-> (IF anew THEN {} ELSE r.seen) \cup Elements(page)]]
      /\ UNCHANGED <<now, stream, expiry, writers, waiting, acked, cut, used>>

\* XREAD COUNT 1 of the rebuilt name: the first entry after the id, the id
\* itself excluded.  XReadArgs sets no Block, which go-redis sends as BLOCK 0:
\* with nothing after the id the call waits, without a deadline.
GetStreamValue(q, n, id, subject) ==
  /\ MayRead(n, subject)
  /\ \A x \in waiting : x[1] # q
  /\ waiting' = IF \E e \in Elements(stream[Rebuilt(n)]) : Before(id, e)
                THEN waiting ELSE waiting \cup {<<q, Rebuilt(n), id>>}
  /\ UNCHANGED <<now, stream, expiry, writers, readers, acked, cut, used>>

\* The server stops or loses Redis, which ends the wait.
Abandon(q) ==
  /\ \E x \in waiting : x[1] = q
  /\ waiting' = {x \in waiting : x[1] # q}
  /\ Fault
  /\ UNCHANGED <<now, stream, expiry, writers, readers, acked, cut>>

-----------------------------------------------------------------------------
\* Time passes, and Redis drops the streams whose time to live is over.
Tick ==
  /\ now < MaxTime
  /\ now' = now + 1
  /\ stream' = [n \in Names |-> IF expiry[n] < now' THEN <<>> ELSE stream[n]]
  /\ expiry' = [n \in Names |-> IF expiry[n] < now' THEN Absent ELSE expiry[n]]
  /\ acked' = {a \in acked : now' <= a[2][1] + Ttl}
  /\ UNCHANGED <<writers, readers, waiting, cut, used>>

Next ==
  \/ \E w \in Writers : \/ \E n \in Names : CreateStreamValue(w, n)
                        \/ Added(w) \/ AddLost(w) \/ Expire(w) \/ CutOff(w)
  \/ \E q \in Readers, n \in Names, size \in PageSizes, a \in Accounts, anew \in BOOLEAN :
       ListStreamValues(q, n, size, a, anew)
  \/ \E q \in Readers, n \in Names, id \in AskedIds, a \in Accounts :
       GetStreamValue(q, n, id, a)
  \/ \E q \in Readers : Abandon(q)
  \/ Tick

Spec == Init /\ [][Next]_vars

\* Each call runs in a goroutine of its own and XADD and EXPIRE have a timeout,
\* so a write under way goes on; nobody need write again.
FairSpec ==
  /\ Spec
  /\ \A w \in Writers : WF_vars(Added(w) \/ Expire(w))
  /\ WF_vars(Tick)

-----------------------------------------------------------------------------
(* Properties                                                              *)

\* Every variable ranges over what the code can store in it.
TypeOK ==
  /\ now \in 1..MaxTime
  /\ stream \in [Names -> Seq(Ids)]
  /\ expiry \in [Names -> Int]
  /\ writers \in [Writers -> WriterRecords]
  /\ readers \in [Readers -> [name: Names, token: Ids, seen: SUBSET Ids]]
  /\ waiting \subseteq Readers \X Names \X Ids
  /\ acked \subseteq Names \X Ids
  /\ cut \subseteq Names
  /\ used \in [calls: 0..MaxCalls, faults: 0..MaxFaults]

\* ListStreamValues: a reader that follows the page tokens misses nothing:
\* whatever is appended, trimmed or expires between two pages, every entry of
\* the stream up to its token has been given to it.
PagesComplete ==
  \A q \in Readers :
    LET r == readers[q]
    IN  \A e \in Elements(stream[r.name]) : Before(r.token, e) \/ e \in r.seen

\* ListStreamValues: the next page, if it may hold two entries, moves the token
\* on when there is anything after it.  A page of one never does, for the range
\* includes the token.
PagingAdvances ==
  \A q \in Readers, size \in PageSizes :
    LET r == readers[q]
        s == stream[r.name]
    IN  size >= 2 /\ (\E e \in Elements(s) : Before(r.token, e))
          => Before(r.token, PageToken(Page(s, r.token, size)))

\* CreateStreamValue: an acknowledged entry stays for streamTtl, however later
\* calls trim the stream and refresh it, unless the stream expired between the
\* XADD and the EXPIRE of its own call.
Retention == \A a \in acked : a[2] \in Elements(stream[a[1]])

\* A call that has written to stream n and has not set its time to live.
Between(r, n) ==
  /\ r.pc # "idle" /\ r.name = n
  /\ r.pc = "expire" \/ r.tries > 0

\* Every stream has a time to live, but for a call between its two commands
\* and for streams whose creating call was cut off there.
StreamExpires ==
  \A n \in Names : expiry[n] = Forever =>
    n \in cut \/ \E w \in Writers : Between(writers[w], n)

-----------------------------------------------------------------------------
(* The inductive invariant behind these                                    *)

\* A stream holds ids given up to the instant t, in the order they were given.
Ordered(s, t) ==
  /\ \A i \in DOMAIN s : s[i][1] \in 1..t /\ s[i][2] >= 0
  /\ \A i, j \in DOMAIN s : i < j => Before(s[i], s[j])

OrderInv == \A n \in Names : Ordered(stream[n], now)

\* A stream without a key has no entries.
KeysInv == \A n \in Names : stream[n] # <<>> => Alive(n)

\* No call may trim what is younger than Ttl.
WriterOK(r, t) == r.pc = "idle" \/ (r.minTime <= t - Ttl /\ r.id[1] <= t)

WritersInv == \A w \in Writers : WriterOK(writers[w], now)

\* An acknowledged entry is there, and its stream lives as long as it must.
AckedInv ==
  \A a \in acked : /\ a[2] \in Elements(stream[a[1]])
                   /\ now <= a[2][1] + Ttl /\ a[2][1] + Ttl <= expiry[a[1]]

\* The id of the next entry is beyond the token a reader holds.
TokenOK(token, s, t) ==
  \/ token[1] < t
  \/ s # <<>> /\ ~Before(s[Len(s)], token)

TokensInv == \A q \in Readers : TokenOK(readers[q].token, stream[readers[q].name], now)

IInv ==
  /\ TypeOK /\ OrderInv /\ KeysInv /\ WritersInv /\ AckedInv /\ TokensInv
  /\ StreamExpires /\ PagesComplete

-----------------------------------------------------------------------------
(* What the repository says of the code and the code does not do           *)

\* stream_value_handler.go: a GetStreamValue that finds nothing is answered
\* with "stream or message not found".  Though the calls under way go on and
\* time passes, one with nothing after its id may wait for ever.
MissingValueAnswered ==
  \A q \in Readers : (\E x \in waiting : x[1] = q) ~> (\A x \in waiting : x[1] # q)
=============================================================================
