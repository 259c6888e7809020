----------------------------- MODULE ValueStore -----------------------------
(***************************************************************************)
(* The lifetime of values: CreateValue stores a value under its CID with   *)
(* an expiry, and ProlongValue moves the expiry with three Redis commands  *)
(* (MEMORY USAGE, TTL, EXPIRE) that other calls and the clock may come     *)
(* between.  GetValue is a single GET, which changes nothing; the bytes    *)
(* behind a CID never change, so the model keeps the expiry alone.         *)
(*                                                                         *)
(* Code: internal/api/handler.go.                                          *)
(* Times are milliseconds, as Redis keeps them.  TTL answers and EXPIRE    *)
(* takes whole seconds; ProlongValue computes in a 64-bit time.Duration.   *)
(***************************************************************************)
EXTENDS Integers

CONSTANTS
  Calls,        \* slots for ProlongValue calls in progress
  Contents,     \* the byte strings clients store
  DagPb,        \* those among them that decode as a dag-pb node
  Size(_),      \* MEMORY USAGE of a stored content
  Ttls,         \* the ttls clients ask for
  MaxTtl,       \* the largest ttl validation lets pass (a year)
  MaxSizes,     \* the max_size values clients ask for
  MaxDuration,  \* the largest time.Duration
  Delays,       \* by how much the clock moves at a time
  MaxTime,      \* bound: the last instant of the clock
  MaxProlongs   \* bound: how many ProlongValue calls are made

Codecs == {"raw", "dag-pb"}

Cids == Codecs \X Contents    \* a CIDv1: one for each codec and content

ASSUME ValueAssumption ==
  /\ DagPb \subseteq Contents
  /\ \A v \in Contents : Size(v) \in Int
  /\ Ttls \subseteq Int /\ MaxSizes \subseteq Int /\ MaxTtl \in Int
  /\ Delays \subseteq Nat /\ MaxTime \in Nat /\ MaxProlongs \in Nat
  /\ MaxDuration \in Nat /\ MaxDuration >= 1000

VARIABLES
  now,      \* the clock of Redis
  expiry,   \* when the value of a CID expires; Never before its first creation
  calls,    \* the ProlongValue calls in progress
  prolongs, \* how many were begun
  floor,    \* history: the expiry CreateValue last gave
  upset     \* history: CIDs whose expiry, since they were last created, was
            \* set from an older creation's ttl or from an overflown duration

vars == <<now, expiry, calls, prolongs, floor, upset>>

Never   == -1
Missing == -2     \* go-redis: TTL of a missing key is a Duration of -2 (ns)
NoCid   == <<"none", "none">>

\* Redis drops a key once the clock is past its expiry.
Exists(k) == now <= expiry[k]

PCs == {"idle", "size", "ttl", "expire"}

Outcomes == {"none", "refused", "not_found", "error", "prolonged", "phantom"}

\* A ProlongValue call: its request, the ttl it read and when, and, as history,
\* the expiry the key had then and whether it was created anew since.
CallRecords ==
  [pc: PCs, key: Cids \cup {NoCid}, ttl: Int, maxSize: Int,
   old: Nat \cup {Missing}, at: Int, seen: Int, stale: BOOLEAN, out: Outcomes]

\* A slot between two calls remembers how the last one ended.
Finished(out) ==
  [pc |-> "idle", key |-> NoCid, ttl |-> 0, maxSize |-> 0, old |-> 0, at |-> 0,
   seen |-> 0, stale |-> FALSE, out |-> out]

\* A slot during a call.
InFlight(pc, k, ttl, maxSize, old, at, seen) ==
  [pc |-> pc, key |-> k, ttl |-> ttl, maxSize |-> maxSize, old |-> old,
   at |-> at, seen |-> seen, stale |-> FALSE, out |-> "none"]

Init ==
  /\ now = 0
  /\ expiry = [k \in Cids |-> Never]
  /\ calls = [c \in Calls |-> Finished("none")]
  /\ prolongs = 0
  /\ floor = [k \in Cids |-> Never]
  /\ upset = {}

-----------------------------------------------------------------------------
(* CreateValue                                                             *)

\* The validation interceptor: from one second to a year.
ValidTtl(ttl) == ttl >= 1000 /\ ttl <= MaxTtl

\* calculateCid, for a content that can have one under this codec.
Encodable(codec, v) == codec = "raw" \/ v \in DagPb

calculateCid(codec, v) == <<codec, v>>

\* SET values/<cid> with the ttl: an existing value gets the new expiry, be it
\* earlier or later.  A reply that is lost changes nothing about this.
CreateValue(codec, v, ttl) ==
  LET k == calculateCid(codec, v)
  IN  /\ ValidTtl(ttl) /\ Encodable(codec, v)
      /\ expiry' = [expiry EXCEPT ![k] = now + ttl]
      /\ floor' = [floor EXCEPT ![k] = now + ttl]
      /\ upset' = upset \ {k}
      /\ calls' = [c \in Calls |->
                    [calls[c] EXCEPT !.stale = @ \/ (calls[c].pc = "expire"
                                                     /\ calls[c].key = k)]]
      /\ UNCHANGED <<now, prolongs>>

-----------------------------------------------------------------------------
(* ProlongValue                                                            *)

Become(c, r) == calls' = [calls EXCEPT ![c] = r]

End(c, out) == Become(c, Finished(out))

Quiet == UNCHANGED <<now, expiry, floor, upset>>

\* The request is validated and its ttl looked at once more.
Prolong(c, k, ttl, maxSize) ==
  /\ calls[c].pc = "idle" /\ prolongs < MaxProlongs
  /\ prolongs' = prolongs + 1
  /\ IF ValidTtl(ttl) /\ maxSize > 0
       THEN Become(c, InFlight("size", k, ttl, maxSize, 0, 0, 0))
       ELSE End(c, "refused")
  /\ Quiet

\* MEMORY USAGE: the value must be there, and not larger than was paid for.
CheckSize(c) ==
  LET k == calls[c].key
  IN  /\ calls[c].pc = "size"
      /\ IF ~Exists(k) THEN End(c, "not_found")
         ELSE IF Size(k[2]) > calls[c].maxSize THEN End(c, "refused")
         ELSE Become(c, [calls[c] EXCEPT !.pc = "ttl"])
      /\ Quiet /\ UNCHANGED prolongs

\* Mutant: a key that has expired counts down on.
TtlReplyUnchecked(k) == ((expiry[k] - now) + 500) \div 1000

\* What TTL answers, in seconds: Redis rounds to the nearest one.
TtlReply(k) == IF Exists(k) THEN ((expiry[k] - now) + 500) \div 1000 ELSE Missing

\* TTL.  A key that is gone by now is no error to go-redis.
ReadTtl(c) ==
  LET r == calls[c]
  IN  /\ r.pc = "ttl"
      /\ Become(c, InFlight("expire", r.key, r.ttl, r.maxSize,
                            TtlReply(r.key), now, expiry[r.key]))
      /\ Quiet /\ UNCHANGED prolongs

\* ttl + oldTtl in a time.Duration, which wraps around.
Overflows(r) == r.old # Missing /\ r.ttl + 1000 * r.old > MaxDuration

\* Mutant: the ttl asked for replaces the old one.
ExpireSecondsAnew(r) == r.ttl \div 1000

\* Mutant: the sum is rounded up.
ExpireSecondsUp(r) ==
  IF r.old = Missing \/ Overflows(r) THEN 1 ELSE (r.ttl + 1000 * r.old + 999) \div 1000

\* The seconds EXPIRE is given: the sum, cut to whole seconds; two nanoseconds
\* less than ttl for a missing key, but then at least 1.
ExpireSeconds(r) ==
  IF r.old = Missing THEN (IF r.ttl <= 1000 THEN 1 ELSE (r.ttl - 1) \div 1000)
  ELSE IF Overflows(r) THEN -1
  ELSE (r.ttl + 1000 * r.old) \div 1000

\* EXPIRE: nothing to a missing key; a time in the past deletes the key.
SetExpiry(k, seconds) ==
  expiry' = IF ~Exists(k) THEN expiry
            ELSE IF seconds <= 0 THEN [expiry EXCEPT ![k] = Never]
            ELSE [expiry EXCEPT ![k] = now + 1000 * seconds]

\* EXPIRE and the answer, which names the new ttl in any case; "phantom" marks
\* the answer about a value that TTL did not find.
Expire(c) ==
  LET r == calls[c]
  IN  /\ r.pc = "expire"
      /\ SetExpiry(r.key, ExpireSeconds(r))
      /\ upset' = IF r.stale \/ Overflows(r) THEN upset \cup {r.key} ELSE upset
      /\ \/ End(c, IF r.old = Missing THEN "phantom" ELSE "prolonged")
         \/ End(c, "error")             \* the reply to EXPIRE is lost
      /\ UNCHANGED <<now, floor, prolongs>>

\* A command fails before Redis sees it: the handler gives up.
Fail(c) ==
  /\ calls[c].pc \in {"size", "ttl", "expire"}
  /\ End(c, "error")
  /\ Quiet /\ UNCHANGED prolongs

-----------------------------------------------------------------------------
Advance(d) ==
  /\ now + d <= MaxTime
  /\ now' = now + d
  /\ UNCHANGED <<expiry, calls, prolongs, floor, upset>>

ServerStep(c) == CheckSize(c) \/ ReadTtl(c) \/ Expire(c) \/ Fail(c)

ClientStep ==
  \/ \E codec \in Codecs, v \in Contents, ttl \in Ttls : CreateValue(codec, v, ttl)
  \/ \E c \in Calls, k \in Cids, ttl \in Ttls, n \in MaxSizes : Prolong(c, k, ttl, n)

Next == (\E c \in Calls : ServerStep(c)) \/ ClientStep \/ (\E d \in Delays : Advance(d))

Spec == Init /\ [][Next]_vars

-----------------------------------------------------------------------------
(* Properties                                                              *)

\* Every variable ranges over what the code can store in it.
TypeOK ==
  /\ now \in Nat
  /\ expiry \in [Cids -> Int]
  /\ calls \in [Calls -> CallRecords]
  /\ prolongs \in Nat
  /\ floor \in [Cids -> Int]
  /\ upset \subseteq Cids

\* ProlongValue: however its calls interleave with each other and with the
\* clock, and whichever command fails, a value lives at least as long as its
\* last CreateValue said, unless a call begun before that creation, or one
\* whose duration overflowed, came between.
LifetimeKept == \A k \in Cids \ upset : expiry[k] >= floor[k]

\* ProlongValue moves the expiry it read by the ttl asked for, give or take the
\* rounding of TTL and EXPIRE (more than half a second later at least), plus
\* the time that passed between the two.
ProlongBounds ==
  [][\A c \in Calls :
       LET r == calls[c]
       IN  r.pc = "expire" /\ ~r.stale /\ ~Overflows(r) /\ expiry' # expiry
           /\ calls'[c].pc = "idle" =>
             /\ expiry'[r.key] > r.seen + r.ttl - 1500
             /\ expiry'[r.key] > r.seen + 500
             /\ expiry'[r.key] <= r.seen + r.ttl + 500 + (now - r.at)]_vars

-----------------------------------------------------------------------------
(* What the repository says of the code and the code does not do           *)

\* handler.go: after TTL a value that is gone is answered with "resource not
\* found".  go-redis reports it as a ttl of -2, and the answer is a success.
ProlongFindsValue == \A c \in Calls : calls[c].out # "phantom"

-----------------------------------------------------------------------------
(* The inductive invariant behind the theorems of ValueProofs              *)

\* What a call that has read the ttl knows: the key is still gone if it was
\* gone, and otherwise the ttl is the remaining time, rounded.
ReadInv(r) ==
  /\ r.at <= now
  /\ ~r.stale /\ r.old = Missing => expiry[r.key] < now
  /\ ~r.stale /\ r.old # Missing =>
       /\ r.old >= 0
       /\ r.at + 1000 * r.old > r.seen - 500
       /\ r.at + 1000 * r.old <= r.seen + 500
       /\ r.key \notin upset => r.at + 1000 * r.old > floor[r.key] - 500

CallsInv ==
  \A c \in Calls :
    /\ calls[c].pc # "idle" => calls[c].key \in Cids /\ calls[c].ttl >= 1000
    /\ calls[c].pc # "expire" => ~calls[c].stale
    /\ calls[c].pc = "expire" => ReadInv(calls[c])

IInv == TypeOK /\ CallsInv /\ LifetimeKept
=============================================================================
