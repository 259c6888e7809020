---------------------------- MODULE StreamProofs ----------------------------
(***************************************************************************)
(* What StreamStore keeps invariant, proved for every value of its         *)
(* constants: the entries of a stream are in order, none that is           *)
(* acknowledged goes before its time, and a reader that follows the page   *)
(* tokens misses none.                                                     *)
(***************************************************************************)
EXTENDS StreamStore, FiniteSetTheorems, TLAPS

-----------------------------------------------------------------------------
(* Ids, streams and pages                                                  *)

\* time.Now().Add(-streamTtl), cut to whole seconds, is not later than that.
LEMMA MinTimeBound ==
  ASSUME NEW t \in Int
  PROVE  MinTime(t) \in Int /\ MinTime(t) <= t - Ttl
<1> DEFINE d == (t - Ttl) \div Second
<1>1. t - Ttl \in Int /\ Second \in Nat \ {0}
  BY StreamAssumption
<1>2. d \in Int /\ d * Second <= t - Ttl
  BY <1>1
<1> QED
  BY <1>1, <1>2 DEF MinTime

\* The order of entry ids is strict, total and transitive.
LEMMA BeforeOrder ==
  ASSUME NEW a \in Ids, NEW b \in Ids, NEW c \in Ids
  PROVE  /\ ~Before(a, a)
         /\ Before(a, b) \/ Before(b, a) \/ a = b
         /\ Before(a, b) => ~Before(b, a)
         /\ Before(a, b) /\ Before(b, c) => Before(a, c)
         /\ Before(a, b) /\ ~Before(c, b) => Before(a, c)
         /\ ~Before(b, a) /\ Before(b, c) => Before(a, c)
<1>1. a[1] \in Int /\ a[2] \in Int /\ b[1] \in Int /\ b[2] \in Int /\ c[1] \in Int /\ c[2] \in Int
  BY DEF Ids
<1>2. a[1] = b[1] /\ a[2] = b[2] => a = b
  BY DEF Ids
<1> QED
  BY <1>1, <1>2 DEF Before

\* Every entry comes after the token "0-0" a reader starts from.
LEMMA ZeroFirst ==
  ASSUME NEW s \in Seq(Ids), NEW t \in Int, Ordered(s, t), NEW i \in DOMAIN s
  PROVE  ZeroId \in Ids /\ s[i] \in Ids /\ Before(ZeroId, s[i])
<1>1. s[i][1] \in 1..t
  BY DEF Ordered
<1> QED
  BY <1>1 DEF ZeroId, Ids, Before

\* XRANGE passes over exactly the entries before the token.
LEMMA SkippedOlder ==
  ASSUME NEW s \in Seq(Ids), NEW t \in Int, Ordered(s, t), NEW token \in Ids
  PROVE  /\ Skipped(s, token) \in 0..Len(s)
         /\ \A i \in DOMAIN s : Before(s[i], token) <=> i <= Skipped(s, token)
<1> DEFINE A == {i \in DOMAIN s : Before(s[i], token)}
<1>1. DOMAIN s = 1..Len(s) /\ Len(s) \in Nat
  OBVIOUS
<1>2. IsFiniteSet(1..Len(s)) /\ Cardinality(1..Len(s)) = Len(s)
  <2>1. IsFiniteSet(1..Len(s))
        /\ Cardinality(1..Len(s)) = IF 1 > Len(s) THEN 0 ELSE Len(s) - 1 + 1
    BY <1>1, FS_Interval, SMTT(30)
  <2> QED
    BY <1>1, <2>1
<1>3. IsFiniteSet(A) /\ Cardinality(A) \in Nat /\ Cardinality(A) <= Len(s)
  <2>1. A \subseteq 1..Len(s)
    BY <1>1
  <2> QED
    BY <1>2, <2>1, FS_Subset, FS_CardinalityType
<1>4. ASSUME NEW i \in DOMAIN s, Before(s[i], token)
      PROVE  i <= Cardinality(A)
  <2>1. ASSUME NEW k \in 1..i
        PROVE  k \in A
    <3>1. k \in DOMAIN s /\ k <= i
      BY <1>1
    <3>2. k = i \/ Before(s[k], s[i])
      BY <1>1, <3>1 DEF Ordered
    <3>3. s[k] \in Ids /\ s[i] \in Ids
      BY <1>1, <3>1
    <3> QED
      BY <1>4, <3>1, <3>2, <3>3, BeforeOrder
  <2>2. 1..i \subseteq A
    BY <2>1
  <2>3. Cardinality(1..i) <= Cardinality(A)
    BY <1>3, <2>2, FS_Subset
  <2>4. Cardinality(1..i) = i
    BY <1>1, FS_Interval
  <2> QED
    BY <2>3, <2>4
<1>5. ASSUME NEW i \in DOMAIN s, ~Before(s[i], token)
      PROVE  ~(i <= Cardinality(A))
  <2>1. ASSUME NEW k \in A
        PROVE  k \in 1..(i - 1)
    <3>1. k \in 1..Len(s) /\ k # i
      BY <1>1, <1>5
    <3>2. ASSUME i < k PROVE FALSE
      <4>1. Before(s[i], s[k])
        BY <1>1, <3>1, <3>2 DEF Ordered
      <4>2. s[k] \in Ids /\ s[i] \in Ids /\ Before(s[k], token)
        BY <1>1, <3>1
      <4> QED
        BY <1>5, <4>1, <4>2, BeforeOrder
    <3> QED
      BY <1>1, <3>1, <3>2
  <2>2. A \subseteq 1..(i - 1)
    BY <2>1
  <2>3. IsFiniteSet(1..(i - 1)) /\ Cardinality(1..(i - 1)) = i - 1
    <3>1. i \in Int /\ i >= 1 /\ i - 1 \in Int /\ 1 \in Int
      BY <1>1
    <3>2. IsFiniteSet(1..(i - 1))
          /\ Cardinality(1..(i - 1)) = IF 1 > i - 1 THEN 0 ELSE (i - 1) - 1 + 1
      BY <3>1, FS_Interval
    <3> QED
      BY <3>1, <3>2
  <2>4. Cardinality(A) <= i - 1
    BY <2>2, <2>3, FS_Subset
  <2> QED
    BY <1>1, <1>3, <2>4
<1> QED
  BY <1>1, <1>3, <1>4, <1>5 DEF Skipped

\* A page holds consecutive entries, from the first one not before the token.
LEMMA PageOf ==
  ASSUME NEW s \in Seq(Ids), NEW t \in Int, Ordered(s, t), NEW token \in Ids,
         NEW size \in Nat
  PROVE  LET skip == Skipped(s, token)
             len  == IF skip + size < Len(s) THEN size ELSE Len(s) - skip
             page == Page(s, token, size)
         IN  /\ page \in Seq(Ids) /\ Len(page) = len
             /\ \A i \in 1..len : skip + i \in DOMAIN s /\ page[i] = s[skip + i]
             /\ Ordered(page, t)
<1> DEFINE skip == Skipped(s, token)
           last == IF skip + size < Len(s) THEN skip + size ELSE Len(s)
           len  == IF skip + size < Len(s) THEN size ELSE Len(s) - skip
           page == Page(s, token, size)
<1>1. skip \in 0..Len(s) /\ Len(s) \in Nat /\ DOMAIN s = 1..Len(s)
  BY SkippedOlder
<1>2. page = SubSeq(s, skip + 1, last)
  BY DEF Page
<1> HIDE DEF skip, page
<1>3. len \in Nat /\ last = skip + len /\ last \in 0..Len(s)
  BY <1>1
<1>4. page \in Seq(Ids) /\ Len(page) = len
      /\ \A i \in 1..len : skip + i \in DOMAIN s /\ page[i] = s[skip + i]
  <2> HIDE DEF last, len
  <2>1. page = [i \in 1..len |-> s[skip + i]]
    BY <1>1, <1>2, <1>3
  <2>2. \A i \in 1..len : skip + i \in DOMAIN s /\ s[skip + i] \in Ids
    BY <1>1, <1>3
  <2> QED
    BY <1>3, <2>1, <2>2
<1>5. Ordered(page, t)
  <2> HIDE DEF last, len
  <2>1. DOMAIN page = 1..len
    BY <1>3, <1>4
  <2>2. \A i \in DOMAIN page : page[i][1] \in 1..t /\ page[i][2] >= 0
    BY <1>4, <2>1 DEF Ordered
  <2>3. ASSUME NEW i \in DOMAIN page, NEW j \in DOMAIN page, i < j
        PROVE  Before(page[i], page[j])
    <3>1. skip + i \in DOMAIN s /\ skip + j \in DOMAIN s /\ skip + i < skip + j
      BY <1>1, <1>3, <1>4, <2>1, <2>3
    <3>2. Before(s[skip + i], s[skip + j])
      BY <3>1 DEF Ordered
    <3> QED
      BY <1>4, <2>1, <3>2
  <2> QED
    BY <2>2, <2>3 DEF Ordered
<1> QED
  BY <1>4, <1>5 DEF skip, page

\* The token of a page is its last entry, "0-0" if there is none.
LEMMA TokenOf ==
  ASSUME NEW page \in Seq(Ids), NEW t \in Int, Ordered(page, t)
  PROVE  PageToken(page) = IF page = <<>> THEN ZeroId ELSE page[Len(page)]
<1> DEFINE ids == {ZeroId} \cup Elements(page)
           last == IF page = <<>> THEN ZeroId ELSE page[Len(page)]
           Best(m) == \A id \in ids : getMaxEntryID(m, id) = m
<1>1. ids \subseteq Ids /\ DOMAIN page = 1..Len(page) /\ Len(page) \in Nat
  BY DEF Elements, ZeroId, Ids
<1>2. page # <<>> => Len(page) \in DOMAIN page
  BY <1>1
<1>3. last \in ids
  BY <1>2 DEF Elements
<1>4. ASSUME NEW id \in ids, id # last
      PROVE  Before(id, last)
  <2>2. page # <<>>
    BY <1>1, <1>4 DEF Elements
  <2>3. CASE id = ZeroId
    BY <1>2, <2>2, <2>3, ZeroFirst
  <2>4. CASE id # ZeroId
    <3>1. PICK k \in DOMAIN page : id = page[k]
      BY <2>4 DEF Elements
    <3>2. k < Len(page)
      BY <1>1, <1>4, <2>2, <3>1
    <3> QED
      BY <1>2, <2>2, <3>1, <3>2 DEF Ordered
  <2> QED
    BY <2>3, <2>4
<1>5. Best(last)
  <2> SUFFICES ASSUME NEW id \in ids PROVE getMaxEntryID(last, id) = last
    OBVIOUS
  <2>1. id \in Ids /\ last \in Ids
    BY <1>1, <1>3
  <2>2. ~Before(last, id)
    BY <1>4, <2>1, BeforeOrder
  <2> QED
    BY <2>2 DEF getMaxEntryID
<1>6. ASSUME NEW m \in ids, Best(m)
      PROVE  m = last
  <2>1. m # last => Before(m, last)
    BY <1>4
  <2>2. Before(m, last) => m = last
    BY <1>3, <1>6 DEF getMaxEntryID
  <2> QED
    BY <2>1, <2>2
<1>7. PageToken(page) = CHOOSE m \in ids : Best(m)
  BY DEF PageToken
<1> HIDE DEF ids, last, Best
<1>8. PageToken(page) = last
  BY <1>3, <1>5, <1>6, <1>7
<1> QED
  BY <1>8 DEF last

\* An answer of ListStreamValues: every entry was before the range, is in the
\* page or comes after its token; a page of two moves the token on.
LEMMA PageAnswer ==
  ASSUME NEW s \in Seq(Ids), NEW t \in Nat \ {0}, Ordered(s, t), NEW token \in Ids,
         NEW size \in Nat \ {0}
  PROVE  LET page == Page(s, token, size)
             tok  == PageToken(page)
         IN  /\ tok \in Ids /\ TokenOK(tok, s, t)
             /\ Elements(page) \subseteq Ids
             /\ \A e \in Elements(s) :
                  Before(e, token) \/ e \in Elements(page) \/ Before(tok, e)
             /\ size >= 2 /\ (\E e \in Elements(s) : Before(token, e)) => Before(token, tok)
<1> DEFINE skip == Skipped(s, token)
           page == Page(s, token, size)
           tok  == PageToken(page)
           len  == IF skip + size < Len(s) THEN size ELSE Len(s) - skip
<1>1. skip \in 0..Len(s) /\ Len(s) \in Nat /\ DOMAIN s = 1..Len(s)
  BY SkippedOlder
<1>2. \A i \in 1..Len(s) : Before(s[i], token) <=> i <= skip
  BY <1>1, SkippedOlder
<1>3. /\ page \in Seq(Ids) /\ Len(page) = len /\ Ordered(page, t)
      /\ \A i \in 1..len : page[i] = s[skip + i]
  <2>1. t \in Int /\ size \in Nat
    OBVIOUS
  <2> QED
    BY <2>1, PageOf, ZenonT(30)
<1>4. tok = IF page = <<>> THEN ZeroId ELSE page[Len(page)]
  BY <1>3, TokenOf
<1> HIDE DEF skip, page, tok
<1>5. len \in Nat /\ skip + len <= Len(s) /\ (len >= size \/ skip + len >= Len(s))
  <2>1. CASE skip + size < Len(s)
    BY <1>1, <2>1
  <2>2. CASE ~(skip + size < Len(s))
    BY <1>1, <2>2
  <2> QED
    BY <2>1, <2>2
<1> HIDE DEF len
<1>6. DOMAIN page = 1..len
  BY <1>3
<1>7. CASE len = 0
  <2>1. page = <<>> /\ tok = ZeroId
    BY <1>3, <1>4, <1>7
  <2>2. tok \in Ids /\ TokenOK(tok, s, t) /\ Elements(page) = {}
    BY <2>1 DEF ZeroId, Ids, TokenOK, Elements
  <2>3. \A e \in Elements(s) : Before(e, token)
    <3>1. \A i \in 1..Len(s) : i <= skip
      BY <1>1, <1>5, <1>7
    <3> QED
      BY <1>1, <1>2, <3>1 DEF Elements
  <2>4. \A e \in Elements(s) : ~Before(token, e)
    <3> TAKE e \in Elements(s)
    <3>1. e \in Ids
      BY DEF Elements
    <3> QED
      BY <2>3, <3>1, BeforeOrder
  <2> QED
    BY <2>2, <2>3, <2>4 DEF page, tok
<1>8. CASE len # 0
  <2> DEFINE top == skip + len
  <2>1. top \in 1..Len(s)
    BY <1>1, <1>5, <1>8
  <2>2. tok = s[top]
    <3>1. page # <<>> /\ len \in 1..len
      BY <1>3, <1>5, <1>8
    <3> QED
      BY <1>3, <1>4, <3>1
  <2> HIDE DEF top
  <2>3. tok \in Ids
    BY <2>1, <2>2
  <2>4. \A i \in 1..Len(s) : (i < top => Before(s[i], tok)) /\ (top < i => Before(tok, s[i]))
    BY <1>1, <2>1, <2>2 DEF Ordered
  <2>5. TokenOK(tok, s, t)
    <3>1. Len(s) \in 1..Len(s) /\ s # <<>> /\ s[Len(s)] \in Ids /\ (top = Len(s) \/ top < Len(s))
      BY <2>1
    <3>2. ~Before(s[Len(s)], tok)
      BY <2>2, <2>3, <2>4, <3>1, BeforeOrder
    <3> QED
      BY <3>1, <3>2 DEF TokenOK
  <2>6. Elements(page) \subseteq Ids
    BY <1>3 DEF Elements
  <2>7. ASSUME NEW i \in 1..Len(s), skip < i, i <= top
        PROVE  s[i] \in Elements(page)
    <3>1. i - skip \in 1..len /\ skip + (i - skip) = i
      BY <1>1, <1>5, <2>7 DEF top
    <3>2. page[i - skip] = s[i]
      BY <1>3, <3>1
    <3> QED
      BY <1>6, <3>1, <3>2 DEF Elements
  <2>8. ASSUME NEW e \in Elements(s)
        PROVE  Before(e, token) \/ e \in Elements(page) \/ Before(tok, e)
    <3>1. PICK i \in 1..Len(s) : e = s[i]
      BY <1>1 DEF Elements
    <3>2. i <= skip \/ (skip < i /\ i <= top) \/ top < i
      BY <1>1, <2>1
    <3> QED
      BY <1>2, <2>4, <2>7, <3>1, <3>2, Zenon
  <2>9. ASSUME size >= 2, NEW e \in Elements(s), Before(token, e)
        PROVE  Before(token, tok)
    <3>1. PICK i \in 1..Len(s) : e = s[i]
      BY <1>1 DEF Elements
    <3>2. e \in Ids /\ ~Before(e, token)
      BY <2>9, <3>1, BeforeOrder
    <3>3. skip < i
      BY <1>1, <1>2, <3>1, <3>2
    <3>4. CASE i <= top
      <4>1. i = top \/ i < top
        BY <2>1, <3>4
      <4>2. e = tok \/ Before(e, tok)
        BY <2>2, <2>4, <3>1, <4>1, Zenon
      <4> QED
        BY <2>3, <2>9, <3>2, <4>2, BeforeOrder
    <3>5. CASE top < i
      <4>1. len >= 2
        BY <1>1, <1>5, <2>1, <2>9, <3>5 DEF top
      <4>2. skip + 1 \in 1..Len(s) /\ skip + 1 < top /\ ~(skip + 1 <= skip)
        BY <1>1, <1>5, <4>1 DEF top
      <4>3. s[skip + 1] \in Ids
        BY <4>2
      <4>4. ~Before(s[skip + 1], token)
        BY <1>2, <4>2, Zenon
      <4>5. Before(s[skip + 1], tok)
        BY <2>4, <4>2, Zenon
      <4> QED
        BY <2>3, <4>3, <4>4, <4>5, BeforeOrder
    <3> QED
      BY <2>1, <3>4, <3>5
  <2> QED
    BY <2>3, <2>5, <2>6, <2>8, <2>9 DEF page, tok
<1> QED
  BY <1>7, <1>8

\* The id Redis gives an entry is beyond every id of the stream.
LEMMA NextIdLast ==
  ASSUME NEW s \in Seq(Ids), now \in Nat, Ordered(s, now)
  PROVE  /\ NextId(s) \in Ids /\ NextId(s)[1] = now /\ NextId(s)[2] >= 0
         /\ \A i \in DOMAIN s : Before(s[i], NextId(s))
         /\ \A token \in Ids : TokenOK(token, s, now) => Before(token, NextId(s))
<1> DEFINE last == s[Len(s)]
<1>1. DOMAIN s = 1..Len(s) /\ Len(s) \in Nat /\ (s # <<>> => Len(s) \in DOMAIN s)
  OBVIOUS
<1>2. s # <<>> => last \in Ids /\ last[1] \in 1..now /\ last[2] >= 0
  BY <1>1 DEF Ordered
<1>3. NextId(s) \in Ids /\ NextId(s)[1] = now /\ NextId(s)[2] >= 0
  BY <1>2, SMTT(30) DEF NextId, Ids
<1>4. s # <<>> => Before(last, NextId(s))
  BY <1>2 DEF NextId, Before, Ids
<1>5. ASSUME NEW i \in DOMAIN s
      PROVE  Before(s[i], NextId(s))
  <2>1. s # <<>> /\ s[i] \in Ids
    BY <1>1
  <2>2. i = Len(s) \/ Before(s[i], last)
    BY <1>1, <2>1 DEF Ordered
  <2> QED
    BY <1>2, <1>3, <1>4, <2>1, <2>2, BeforeOrder
<1>6. ASSUME NEW token \in Ids, TokenOK(token, s, now)
      PROVE  Before(token, NextId(s))
  <2>1. CASE token[1] < now
    BY <1>3, <2>1 DEF Before
  <2>2. CASE s # <<>> /\ ~Before(last, token)
    <3>1. last \in Ids
      BY <1>2, <2>2
    <3> QED
      BY <1>3, <1>4, <2>2, <3>1, BeforeOrder
  <2> QED
    BY <1>6, <2>1, <2>2 DEF TokenOK
<1> QED
  BY <1>3, <1>5, <1>6

\* At the instant t, XADD appends id to the stream old and drops k entries,
\* all of them older than minTime.
Trims(old, id, t, minTime, k, kept) ==
  /\ old \in Seq(Ids) /\ t \in Nat \ {0} /\ Ordered(old, t)
  /\ id \in Ids /\ id[1] = t /\ id[2] >= 0
  /\ \A i \in DOMAIN old : Before(old[i], id)
  /\ minTime \in Int /\ minTime <= t - Ttl
  /\ LET all == Append(old, id)
     IN  k \in Stale(all, minTime) /\ kept = SubSeq(all, k + 1, Len(all))

\* XADD with MINID drops no entry younger than Ttl, and never the new one.
LEMMA Trimmed ==
  ASSUME NEW old, NEW id, NEW t, NEW minTime, NEW k, NEW kept,
         Trims(old, id, t, minTime, k, kept)
  PROVE  /\ kept \in Seq(Ids) /\ kept # <<>> /\ kept[Len(kept)] = id
         /\ Ordered(kept, t)
         /\ Elements(kept) \subseteq Elements(old) \cup {id}
         /\ \A e \in Elements(old) : e[1] >= t - Ttl => e \in Elements(kept)
<1> DEFINE all == Append(old, id)
<1>0. /\ old \in Seq(Ids) /\ t \in Nat \ {0} /\ Ordered(old, t)
      /\ id \in Ids /\ id[1] = t /\ id[2] >= 0
      /\ \A i \in DOMAIN old : Before(old[i], id)
      /\ minTime \in Int /\ minTime <= t - Ttl
      /\ k \in Stale(all, minTime)
  BY DEF Trims
<1> USE <1>0
<1> DEFINE len == Len(old) + 1 - k
<1>1. Len(old) \in Nat /\ DOMAIN old = 1..Len(old)
  OBVIOUS
<1>2. /\ all \in Seq(Ids) /\ Len(all) = Len(old) + 1 /\ all[Len(old) + 1] = id
      /\ \A i \in 1..Len(old) : all[i] = old[i]
  BY <1>1
<1> HIDE DEF all
<1>3. k \in 0..Len(all) /\ \A i \in 1..k : all[i][1] < minTime
  BY DEF Stale
<1>4. Ttl \in Nat
  BY StreamAssumption
<1>5. k \in 0..Len(old)
  <2>1. ASSUME k = Len(old) + 1 PROVE FALSE
    <3>1. all[Len(old) + 1][1] < minTime
      BY <1>1, <1>3, <2>1
    <3> QED
      BY <1>2, <1>4, <3>1
  <2> QED
    BY <1>1, <1>2, <1>3, <2>1
<1>6. kept = [i \in 1..len |-> all[k + i]]
  <2>1. kept = SubSeq(all, k + 1, Len(all))
    BY DEF Trims, all
  <2> QED
    BY <1>1, <1>2, <1>5, <2>1
<1>7. len \in Nat \ {0} /\ \A i \in 1..len : k + i \in 1..(Len(old) + 1)
  BY <1>1, <1>5
<1>8. k + len = Len(old) + 1
  BY <1>1, <1>5
<1> HIDE DEF len
<1>9. kept \in Seq(Ids) /\ Len(kept) = len /\ DOMAIN kept = 1..len
  <2>1. \A i \in 1..len : all[k + i] \in Ids
    BY <1>2, <1>7
  <2> QED
    BY <1>6, <1>7, <2>1
<1>10. kept # <<>> /\ kept[Len(kept)] = id
  <2>1. len \in 1..len /\ kept[len] = all[k + len]
    BY <1>6, <1>7
  <2>2. kept[Len(kept)] = id
    BY <1>2, <1>8, <1>9, <2>1
  <2>3. Len(kept) # 0
    BY <1>7, <1>9
  <2> QED
    BY <2>2, <2>3
<1>11. \A i \in 1..(Len(old) + 1) : all[i][1] \in 1..t /\ all[i][2] >= 0
  <2> TAKE i \in 1..(Len(old) + 1)
  <2>1. CASE i = Len(old) + 1
    BY <1>2, <2>1
  <2>2. CASE i \in 1..Len(old)
    BY <1>1, <1>2, <2>2 DEF Ordered
  <2> QED
    BY <1>1, <2>1, <2>2
<1>12. ASSUME NEW i \in 1..(Len(old) + 1), NEW j \in 1..(Len(old) + 1), i < j
       PROVE  Before(all[i], all[j])
  <2>1. i \in 1..Len(old) /\ all[i] = old[i]
    BY <1>1, <1>2, <1>12
  <2>2. CASE j = Len(old) + 1
    BY <1>1, <1>2, <2>1, <2>2
  <2>3. CASE j \in 1..Len(old)
    BY <1>1, <1>2, <1>12, <2>1, <2>3 DEF Ordered
  <2> QED
    BY <1>1, <2>2, <2>3
<1>13. Ordered(kept, t)
  <2>1. \A i \in DOMAIN kept : kept[i][1] \in 1..t /\ kept[i][2] >= 0
    BY <1>6, <1>7, <1>9, <1>11
  <2>2. ASSUME NEW i \in DOMAIN kept, NEW j \in DOMAIN kept, i < j
        PROVE  Before(kept[i], kept[j])
    <3>1. i \in 1..len /\ j \in 1..len /\ k \in Int /\ i \in Int /\ j \in Int
      BY <1>1, <1>5, <1>7, <1>9
    <3>2. k + i < k + j
      BY <2>2, <3>1
    <3>3. k + i \in 1..(Len(old) + 1) /\ k + j \in 1..(Len(old) + 1)
      BY <1>7, <3>1
    <3> QED
      BY <1>6, <1>12, <3>1, <3>2, <3>3
  <2> QED
    BY <2>1, <2>2 DEF Ordered
<1>14. Elements(kept) \subseteq Elements(old) \cup {id}
  <2> SUFFICES ASSUME NEW i \in 1..len PROVE kept[i] \in Elements(old) \cup {id}
    BY <1>9 DEF Elements
  <2>1. kept[i] = all[k + i] /\ k + i \in 1..(Len(old) + 1)
    BY <1>6, <1>7
  <2>2. k + i = Len(old) + 1 \/ k + i \in 1..Len(old)
    BY <1>1, <2>1
  <2> QED
    BY <1>1, <1>2, <2>1, <2>2 DEF Elements
<1>15. ASSUME NEW e \in Elements(old), e[1] >= t - Ttl
       PROVE  e \in Elements(kept)
  <2>1. PICK i \in 1..Len(old) : e = old[i]
    BY <1>1 DEF Elements
  <2>2. e[1] \in Int
    BY <1>1, <2>1 DEF Ordered
  <2>3. ~(i <= k)
    BY <1>2, <1>3, <1>4, <1>15, <2>1, <2>2
  <2>4. i - k \in 1..len /\ k + (i - k) = i
    BY <1>1, <1>5, <1>7, <1>8, <2>3
  <2>5. kept[i - k] = e
    BY <1>2, <1>6, <2>1, <2>4
  <2> QED
    BY <1>9, <2>4, <2>5 DEF Elements
<1> QED
  BY <1>9, <1>10, <1>13, <1>14, <1>15

-----------------------------------------------------------------------------
(* The inductive invariant                                                 *)

LEMMA InitIInv == Init => IInv
<1> SUFFICES ASSUME Init PROVE IInv
  OBVIOUS
<1>1. MaxTime \in Nat \ {0} /\ MaxCalls \in Nat /\ MaxFaults \in Nat /\ Ttl \in Nat \ {0}
  BY StreamAssumption
<1>2. ZeroId \in Ids /\ Elements(<<>>) = {}
  BY DEF ZeroId, Ids, Elements
<1>3. \A q \in Readers : readers[q].token = ZeroId
  BY DEF Init
<1>4. TypeOK
  <2>1. readers \in [Readers -> [name: Names, token: Ids, seen: SUBSET Ids]]
    <3>1. [name: Names, token: {ZeroId}, seen: {{}}]
            \subseteq [name: Names, token: Ids, seen: SUBSET Ids]
      BY <1>2
    <3> QED
      BY <3>1 DEF Init
  <2>2. now \in 1..MaxTime /\ used \in [calls: 0..MaxCalls, faults: 0..MaxFaults]
    BY <1>1 DEF Init
  <2>3. stream \in [Names -> Seq(Ids)] /\ expiry \in [Names -> Int]
    BY DEF Init, Absent
  <2> QED
    BY <2>1, <2>2, <2>3 DEF Init, TypeOK, WriterRecords
<1>5. OrderInv /\ KeysInv
  BY DEF Init, OrderInv, KeysInv, Ordered
<1>6. WritersInv /\ AckedInv
  BY DEF Init, WritersInv, WriterOK, Done, AckedInv
<1>7. TokensInv
  BY <1>3 DEF Init, TokensInv, TokenOK, ZeroId
<1>8. StreamExpires
  BY <1>1 DEF Init, StreamExpires, Absent, Forever
<1>9. PagesComplete
  BY <1>2 DEF Init, PagesComplete
<1> QED
  BY <1>4, <1>5, <1>6, <1>7, <1>8, <1>9 DEF IInv

\* What an XADD does to the streams, to the entries acknowledged before and to
\* the readers, whether its reply arrives or not.
LEMMA XAddKeeps ==
  ASSUME IInv, NEW n \in Names, NEW minTime \in Int, minTime <= now - Ttl,
         XAdd(n, minTime), UNCHANGED <<now, readers, acked>>
  PROVE  /\ stream' \in [Names -> Seq(Ids)] /\ expiry' \in [Names -> Int]
         /\ OrderInv' /\ KeysInv' /\ AckedInv' /\ TokensInv' /\ PagesComplete'
         /\ \A m \in Names : m # n => expiry'[m] = expiry[m]
         /\ NextId(stream[n]) \in Ids /\ NextId(stream[n])[1] = now
         /\ waiting' \subseteq Readers \X Names \X Ids
<1> DEFINE id == NextId(stream[n])
           all == Append(stream[n], id)
<1>1. /\ Ttl \in Nat /\ MaxTime \in Nat /\ now \in Nat /\ now > 0
      /\ stream \in [Names -> Seq(Ids)] /\ expiry \in [Names -> Int]
  BY StreamAssumption DEF IInv, TypeOK
<1>2. stream[n] \in Seq(Ids) /\ Ordered(stream[n], now)
  BY <1>1 DEF IInv, OrderInv
<1>3. /\ id \in Ids /\ id[1] = now /\ id[2] >= 0
      /\ \A i \in DOMAIN stream[n] : Before(stream[n][i], id)
      /\ \A token \in Ids : TokenOK(token, stream[n], now) => Before(token, id)
  BY <1>1, <1>2, NextIdLast
<1>4. PICK k \in Stale(all, minTime) :
        stream' = [stream EXCEPT ![n] = SubSeq(all, k + 1, Len(all))]
  BY DEF XAdd
<1>5. expiry' = [expiry EXCEPT ![n] = IF expiry[n] # Absent THEN expiry[n] ELSE Forever]
  BY DEF XAdd, Alive
<1> DEFINE kept == SubSeq(all, k + 1, Len(all))
<1> HIDE DEF id, all, kept
<1>6. /\ kept \in Seq(Ids) /\ kept # <<>> /\ kept[Len(kept)] = id
      /\ Ordered(kept, now)
      /\ Elements(kept) \subseteq Elements(stream[n]) \cup {id}
      /\ \A e \in Elements(stream[n]) : e[1] >= now - Ttl => e \in Elements(kept)
  <2>1. Trims(stream[n], id, now, minTime, k, kept)
    BY <1>1, <1>2, <1>3, <1>4 DEF Trims, all, kept
  <2> QED
    BY <2>1, Trimmed
<1>7. stream' = [stream EXCEPT ![n] = kept]
  BY <1>4 DEF kept
<1>8. stream' \in [Names -> Seq(Ids)] /\ expiry' \in [Names -> Int]
  <2>1. Forever \in Int
    BY <1>1 DEF Forever
  <2> QED
    BY <1>1, <1>5, <1>6, <1>7, <2>1
<1>9. \A m \in Names : stream'[m] = IF m = n THEN kept ELSE stream[m]
  BY <1>1, <1>7
<1>10. OrderInv'
  BY <1>6, <1>9 DEF IInv, OrderInv
<1>11. expiry'[n] # Absent
  BY <1>1, <1>5 DEF Absent, Forever
<1>12. \A m \in Names : m # n => expiry'[m] = expiry[m]
  BY <1>1, <1>5
<1>13. KeysInv'
  BY <1>9, <1>11, <1>12 DEF IInv, KeysInv, Alive
<1>14. AckedInv'
  <2> SUFFICES ASSUME NEW a \in acked
               PROVE  /\ a[2] \in Elements(stream'[a[1]])
                      /\ now <= a[2][1] + Ttl /\ a[2][1] + Ttl <= expiry'[a[1]]
    BY DEF AckedInv
  <2>1. /\ a[2] \in Elements(stream[a[1]])
        /\ now <= a[2][1] + Ttl /\ a[2][1] + Ttl <= expiry[a[1]]
    BY DEF IInv, AckedInv
  <2>2. a[1] \in Names /\ a[2] \in Ids /\ a[2][1] \in Int
    BY DEF IInv, TypeOK, Ids
  <2>3. a[2][1] >= now - Ttl
    BY <1>1, <2>1, <2>2
  <2>4. a[2] \in Elements(stream'[a[1]])
    BY <1>6, <1>9, <2>1, <2>2, <2>3
  <2>5. expiry[a[1]] # Absent
    BY <1>1, <2>1, <2>2, SMTT(30) DEF Absent
  <2>6. expiry'[a[1]] = expiry[a[1]]
    BY <1>1, <1>5, <2>2, <2>5
  <2> QED
    BY <2>1, <2>4, <2>6
<1>15. TokensInv'
  <2> SUFFICES ASSUME NEW q \in Readers
               PROVE  TokenOK(readers[q].token, stream'[readers[q].name], now)
    BY DEF TokensInv
  <2>1. readers[q].name \in Names /\ readers[q].token \in Ids
    BY DEF IInv, TypeOK
  <2>2. TokenOK(readers[q].token, stream[readers[q].name], now)
    BY DEF IInv, TokensInv
  <2>3. CASE readers[q].name # n
    BY <1>9, <2>1, <2>2, <2>3
  <2>4. CASE readers[q].name = n
    <3>1. Before(readers[q].token, id)
      BY <1>3, <2>1, <2>2, <2>4
    <3>2. ~Before(id, readers[q].token)
      BY <1>3, <2>1, <3>1, BeforeOrder
    <3> QED
      BY <1>6, <1>9, <2>4, <3>2 DEF TokenOK
  <2> QED
    BY <2>3, <2>4
<1>16. PagesComplete'
  <2> SUFFICES ASSUME NEW q \in Readers, NEW e \in Elements(stream'[readers[q].name])
               PROVE  Before(readers[q].token, e) \/ e \in readers[q].seen
    BY DEF PagesComplete
  <2>1. readers[q].name \in Names /\ readers[q].token \in Ids
    BY DEF IInv, TypeOK
  <2>2. TokenOK(readers[q].token, stream[readers[q].name], now)
    BY DEF IInv, TokensInv
  <2>3. e \in Elements(stream[readers[q].name]) \/ (readers[q].name = n /\ e = id)
    BY <1>6, <1>9, <2>1
  <2>4. CASE e \in Elements(stream[readers[q].name])
    BY <2>4 DEF IInv, PagesComplete
  <2>5. CASE readers[q].name = n /\ e = id
    BY <1>3, <2>1, <2>2, <2>5
  <2> QED
    BY <2>3, <2>4, <2>5
<1>17. waiting' \subseteq Readers \X Names \X Ids
  <2>1. waiting' \subseteq waiting
    BY DEF XAdd
  <2> QED
    BY <2>1 DEF IInv, TypeOK
<1> QED
  BY <1>3, <1>8, <1>10, <1>12, <1>13, <1>14, <1>15, <1>16, <1>17 DEF id

\* A call in progress has all the fields of one.
LEMMA Busy ==
  ASSUME IInv, NEW w \in Writers, writers[w].pc # "idle"
  PROVE  /\ writers[w] \in [pc: {"xadd", "expire"}, name: Names, minTime: Int, id: Ids,
                            tries: 0..MaxRetries]
         /\ writers[w].minTime <= now - Ttl /\ writers[w].id[1] <= now
<1>1. writers[w] \in WriterRecords /\ writers[w] # Done
  BY DEF IInv, TypeOK, Done
<1>2. WriterOK(writers[w], now)
  BY DEF IInv, WritersInv
<1> QED
  BY <1>1, <1>2 DEF WriterRecords, WriterOK

\* One call goes on: what has to hold of its record.
LEMMA WriterStep ==
  ASSUME IInv, NEW w \in Writers, NEW r \in WriterRecords, WriterOK(r, now), now' = now,
         writers' = [writers EXCEPT ![w] = r],
         NEW n \in Names, \A m \in Names : m # n => expiry'[m] = expiry[m],
         \A m \in Names : m # n /\ m \in cut => m \in cut',
         \A m \in Names : Between(writers[w], m) => m = n,
         expiry'[n] = Forever => n \in cut' \/ Between(r, n)
  PROVE  writers' \in [Writers -> WriterRecords] /\ WritersInv' /\ StreamExpires'
<1>1. writers \in [Writers -> WriterRecords]
  BY DEF IInv, TypeOK
<1>2. \A v \in Writers : writers'[v] = IF v = w THEN r ELSE writers[v]
  BY <1>1
<1>3. WritersInv'
  BY <1>2 DEF IInv, WritersInv
<1>4. StreamExpires'
  <2> SUFFICES ASSUME NEW m \in Names, expiry'[m] = Forever
               PROVE  m \in cut' \/ \E v \in Writers : Between(writers'[v], m)
    BY DEF StreamExpires, Forever
  <2>1. CASE m = n
    BY <1>2, <2>1
  <2>2. CASE m # n
    <3>1. expiry[m] = Forever
      BY <2>2
    <3>2. m \in cut \/ \E v \in Writers : Between(writers[v], m)
      BY <3>1 DEF IInv, StreamExpires
    <3>3. CASE m \in cut
      BY <2>2, <3>3
    <3>4. ASSUME NEW v \in Writers, Between(writers[v], m)
          PROVE  Between(writers'[v], m)
      BY <1>2, <2>2, <3>4
    <3> QED
      BY <3>2, <3>3, <3>4
  <2> QED
    BY <2>1, <2>2
<1> QED
  BY <1>1, <1>2, <1>3, <1>4

\* The bounds on calls and faults.
LEMMA UsedStep ==
  ASSUME IInv
  PROVE  /\ (used.calls < MaxCalls /\ used' = [used EXCEPT !.calls = @ + 1])
              => used' \in [calls: 0..MaxCalls, faults: 0..MaxFaults]
         /\ Fault => used' \in [calls: 0..MaxCalls, faults: 0..MaxFaults]
<1>1. /\ used \in [calls: 0..MaxCalls, faults: 0..MaxFaults]
      /\ MaxCalls \in Nat /\ MaxFaults \in Nat
  BY StreamAssumption DEF IInv, TypeOK
<1>2. used.calls \in Nat /\ used.faults \in Nat
  BY <1>1
<1> QED
  BY <1>1, <1>2 DEF Fault

LEMMA CreateStep ==
  ASSUME IInv, NEW w \in Writers, NEW n \in Names, CreateStreamValue(w, n)
  PROVE  IInv'
<1> DEFINE r == Writing("xadd", n, MinTime(now), ZeroId, 0)
<1>1. now \in Nat /\ MaxRetries \in Nat
  BY StreamAssumption DEF IInv, TypeOK
<1>2. MinTime(now) \in Int /\ MinTime(now) <= now - Ttl
  BY <1>1, MinTimeBound
<1>3. r \in WriterRecords /\ WriterOK(r, now)
  BY <1>1, <1>2 DEF Writing, WriterRecords, WriterOK, ZeroId, Ids
<1>4. writers' = [writers EXCEPT ![w] = r] /\ writers[w].pc = "idle"
  BY DEF CreateStreamValue
<1>5. UNCHANGED <<now, stream, expiry, readers, waiting, acked, cut>>
  BY DEF CreateStreamValue
<1>6. used' \in [calls: 0..MaxCalls, faults: 0..MaxFaults]
  BY UsedStep DEF CreateStreamValue
<1> HIDE DEF r
<1>7. writers' \in [Writers -> WriterRecords] /\ WritersInv'
  BY <1>3, <1>4, <1>5 DEF IInv, TypeOK, WritersInv
<1>8. StreamExpires'
  BY <1>4, <1>5 DEF IInv, StreamExpires, Between, TypeOK, Forever
<1>9. OrderInv' /\ KeysInv' /\ AckedInv' /\ TokensInv' /\ PagesComplete'
  BY <1>5 DEF IInv, OrderInv, KeysInv, AckedInv, TokensInv, PagesComplete, Alive
<1>10. TypeOK'
  BY <1>5, <1>6, <1>7 DEF IInv, TypeOK
<1> QED
  BY <1>7, <1>8, <1>9, <1>10 DEF IInv

LEMMA AddedStep ==
  ASSUME IInv, NEW w \in Writers, Added(w)
  PROVE  IInv'
<1> DEFINE n == writers[w].name
           r == [writers[w] EXCEPT !.pc = "expire", !.id = NextId(stream[n])]
<1>1. writers[w].pc = "xadd" /\ XAdd(n, writers[w].minTime)
      /\ UNCHANGED <<now, readers, acked, cut, used>>
  BY DEF Added
<1>2. writers' = [writers EXCEPT ![w] = r]
  BY DEF Added, IInv, TypeOK
<1>3. /\ writers[w] \in [pc: {"xadd", "expire"}, name: Names, minTime: Int, id: Ids,
                         tries: 0..MaxRetries]
      /\ writers[w].minTime <= now - Ttl
  BY <1>1, Busy
<1>4. n \in Names /\ writers[w].minTime \in Int
  BY <1>3
<1>5. /\ stream' \in [Names -> Seq(Ids)] /\ expiry' \in [Names -> Int]
      /\ OrderInv' /\ KeysInv' /\ AckedInv' /\ TokensInv' /\ PagesComplete'
      /\ \A m \in Names : m # n => expiry'[m] = expiry[m]
      /\ NextId(stream[n]) \in Ids /\ NextId(stream[n])[1] = now
      /\ waiting' \subseteq Readers \X Names \X Ids
  BY <1>1, <1>3, <1>4, XAddKeeps
<1>6. now \in Int
  BY DEF IInv, TypeOK
<1>7. r \in WriterRecords /\ WriterOK(r, now) /\ Between(r, n)
  <2>1. r \in [pc: {"xadd", "expire"}, name: Names, minTime: Int, id: Ids, tries: 0..MaxRetries]
    BY <1>3, <1>5
  <2>2. r.pc = "expire" /\ r.name = n /\ r.minTime = writers[w].minTime
        /\ r.id = NextId(stream[n])
    BY <1>3
  <2> HIDE DEF r
  <2> QED
    BY <1>3, <1>5, <1>6, <2>1, <2>2 DEF WriterRecords, WriterOK, Between
<1> HIDE DEF r
<1>8. \A m \in Names : Between(writers[w], m) => m = n
  BY DEF Between
<1> HIDE DEF n
<1>9. writers' \in [Writers -> WriterRecords] /\ WritersInv' /\ StreamExpires'
  BY <1>1, <1>2, <1>4, <1>5, <1>7, <1>8, WriterStep
<1>10. TypeOK'
  BY <1>1, <1>5, <1>9 DEF IInv, TypeOK
<1> QED
  BY <1>5, <1>9, <1>10 DEF IInv

LEMMA AddLostStep ==
  ASSUME IInv, NEW w \in Writers, AddLost(w)
  PROVE  IInv'
<1> DEFINE n == writers[w].name
<1>1. writers[w].pc = "xadd" /\ XAdd(n, writers[w].minTime)
      /\ UNCHANGED <<now, readers, acked>> /\ Fault
  BY DEF AddLost
<1>2. /\ writers[w] \in [pc: {"xadd", "expire"}, name: Names, minTime: Int, id: Ids,
                         tries: 0..MaxRetries]
      /\ writers[w].minTime <= now - Ttl /\ writers[w].id[1] <= now
  BY <1>1, Busy
<1>3. n \in Names /\ writers[w].minTime \in Int
  BY <1>2
<1>4. /\ stream' \in [Names -> Seq(Ids)] /\ expiry' \in [Names -> Int]
      /\ OrderInv' /\ KeysInv' /\ AckedInv' /\ TokensInv' /\ PagesComplete'
      /\ \A m \in Names : m # n => expiry'[m] = expiry[m]
      /\ waiting' \subseteq Readers \X Names \X Ids
  BY <1>1, <1>2, <1>3, XAddKeeps
<1>5. \A m \in Names : Between(writers[w], m) => m = n
  BY DEF Between
<1>6. cut' \subseteq Names /\ writers' \in [Writers -> WriterRecords]
      /\ WritersInv' /\ StreamExpires'
  <2>1. CASE CanRetry(writers[w])
    <3> DEFINE r == [writers[w] EXCEPT !.tries = @ + 1]
    <3>1. writers' = [writers EXCEPT ![w] = r] /\ cut' = cut
      BY <2>1 DEF AddLost, IInv, TypeOK
    <3>2. writers[w].tries \in 0..MaxRetries /\ writers[w].tries < MaxRetries /\ MaxRetries \in Nat
      BY <1>2, <2>1, StreamAssumption DEF CanRetry
    <3>3. writers[w].tries + 1 \in 0..MaxRetries /\ writers[w].tries + 1 > 0
      BY <3>2
    <3>4. r \in [pc: {"xadd", "expire"}, name: Names, minTime: Int, id: Ids, tries: 0..MaxRetries]
      BY <1>2, <3>3
    <3>5. r.pc = "xadd" /\ r.name = n /\ r.minTime = writers[w].minTime
          /\ r.id = writers[w].id /\ r.tries > 0
      BY <1>1, <1>2, <3>3
    <3> HIDE DEF r
    <3>6. r \in WriterRecords /\ WriterOK(r, now) /\ Between(r, n)
      BY <1>2, <3>4, <3>5 DEF WriterRecords, WriterOK, Between
    <3> HIDE DEF n
    <3>7. writers' \in [Writers -> WriterRecords] /\ WritersInv' /\ StreamExpires'
      BY <1>1, <1>3, <1>4, <1>5, <3>1, <3>6, WriterStep
    <3> QED
      BY <3>1, <3>7 DEF IInv, TypeOK
  <2>2. CASE ~CanRetry(writers[w])
    <3>1. writers' = [writers EXCEPT ![w] = Done]
          /\ cut' = IF expiry'[n] = Forever THEN cut \cup {n} ELSE cut
      BY <2>2 DEF AddLost
    <3>2. Done \in WriterRecords /\ WriterOK(Done, now)
      BY DEF Done, WriterRecords, WriterOK
    <3> HIDE DEF n
    <3>3. cut' \subseteq Names
      BY <1>3, <3>1 DEF IInv, TypeOK
    <3>4. \A m \in Names : m # n /\ m \in cut => m \in cut'
      BY <3>1
    <3>5. expiry'[n] = Forever => n \in cut'
      BY <3>1
    <3>6. writers' \in [Writers -> WriterRecords] /\ WritersInv' /\ StreamExpires'
      BY <1>1, <1>3, <1>4, <1>5, <3>1, <3>2, <3>4, <3>5, WriterStep
    <3> QED
      BY <3>3, <3>6
  <2> QED
    BY <2>1, <2>2
<1>7. TypeOK'
  BY <1>1, <1>4, <1>6, UsedStep DEF IInv, TypeOK
<1> QED
  BY <1>4, <1>6, <1>7 DEF IInv

LEMMA ExpireStep ==
  ASSUME IInv, NEW w \in Writers, Expire(w)
  PROVE  IInv'
<1> DEFINE n == writers[w].name
           id == writers[w].id
<1>1. /\ writers[w].pc = "expire"
      /\ expiry' = [expiry EXCEPT ![n] = IF expiry[n] # Absent THEN now + Ttl ELSE expiry[n]]
      /\ cut' = cut \ {n}
      /\ writers' = [writers EXCEPT ![w] = Done]
      /\ UNCHANGED <<now, stream, readers, waiting, used>>
  BY DEF Expire, Refresh, Alive
<1>2. \A a \in acked' : a \in acked \/ ( /\ a = <<n, id>> /\ id \in Elements(stream[n])
                                       /\ ~(now > id[1] + Ttl) )
  BY DEF Expire
<1>3. writers[w] \in [pc: {"xadd", "expire"}, name: Names, minTime: Int, id: Ids, tries: 0..MaxRetries]
      /\ id[1] <= now
  BY <1>1, Busy
<1>4. n \in Names /\ id \in Ids /\ id[1] \in Int
  BY <1>3 DEF Ids
<1>5. /\ now \in 1..MaxTime /\ Ttl \in Nat \ {0} /\ MaxTime \in Nat
      /\ stream \in [Names -> Seq(Ids)] /\ expiry \in [Names -> Int]
  BY StreamAssumption DEF IInv, TypeOK
<1>6. expiry' \in [Names -> Int]
      /\ \A m \in Names : m # n => expiry'[m] = expiry[m]
  BY <1>1, <1>4, <1>5
<1>7. expiry'[n] # Forever /\ (expiry[n] # Absent => expiry'[n] = now + Ttl)
      /\ (expiry[n] # Absent => expiry'[n] # Absent)
  BY <1>1, <1>4, <1>5 DEF Forever, Absent
<1>8. writers' \in [Writers -> WriterRecords] /\ WritersInv' /\ StreamExpires'
  <2>1. Done \in WriterRecords /\ WriterOK(Done, now)
    BY DEF Done, WriterRecords, WriterOK
  <2>2. \A m \in Names : Between(writers[w], m) => m = n
    BY DEF Between
  <2> HIDE DEF n
  <2>3. \A m \in Names : m # n /\ m \in cut => m \in cut'
    BY <1>1
  <2> QED
    BY <1>1, <1>4, <1>6, <1>7, <2>1, <2>2, <2>3, WriterStep
<1> HIDE DEF n, id
<1>9. acked' \subseteq Names \X Ids
  BY <1>2, <1>4 DEF IInv, TypeOK
<1>10. TypeOK'
  BY <1>1, <1>6, <1>8, <1>9 DEF IInv, TypeOK
<1>11. OrderInv' /\ TokensInv' /\ PagesComplete'
  BY <1>1 DEF IInv, OrderInv, TokensInv, PagesComplete
<1>12. KeysInv'
  BY <1>1, <1>6, <1>7 DEF IInv, KeysInv, Alive
<1>13. AckedInv'
  <2> SUFFICES ASSUME NEW a \in acked'
               PROVE  /\ a[2] \in Elements(stream[a[1]])
                      /\ now <= a[2][1] + Ttl /\ a[2][1] + Ttl <= expiry'[a[1]]
    BY <1>1 DEF AckedInv
  <2>1. a[1] \in Names /\ a[2] \in Ids /\ a[2][1] \in Int
    BY <1>9 DEF Ids
  <2>2. a[2] \in Elements(stream[a[1]]) /\ now <= a[2][1] + Ttl
    <3>1. CASE a \in acked
      BY <3>1 DEF IInv, AckedInv
    <3>2. CASE a = <<n, id>> /\ id \in Elements(stream[n]) /\ ~(now > id[1] + Ttl)
      BY <1>4, <1>5, <3>2
    <3> QED
      BY <1>2, <3>1, <3>2
  <2>3. CASE a[1] # n
    <3>1. a \in acked
      BY <1>2, <2>3
    <3> QED
      BY <1>6, <2>1, <2>2, <2>3, <3>1 DEF IInv, AckedInv
  <2>4. CASE a[1] = n
    <3>1. PICK i \in DOMAIN stream[n] : a[2] = stream[n][i]
      BY <2>2, <2>4 DEF Elements
    <3>2. a[2][1] <= now
      BY <1>4, <3>1 DEF IInv, OrderInv, Ordered
    <3>3. expiry[n] # Absent
      BY <1>4, <3>1 DEF IInv, KeysInv, Alive
    <3> QED
      BY <1>5, <1>7, <2>1, <2>2, <2>4, <3>2, <3>3
  <2> QED
    BY <2>3, <2>4
<1> QED
  BY <1>8, <1>10, <1>11, <1>12, <1>13 DEF IInv

LEMMA CutOffStep ==
  ASSUME IInv, NEW w \in Writers, CutOff(w)
  PROVE  IInv'
<1> DEFINE n == writers[w].name
<1>1. /\ writers[w].pc # "idle" /\ Fault
      /\ writers' = [writers EXCEPT ![w] = Done]
      /\ cut' = IF expiry[n] = Forever THEN cut \cup {n} ELSE cut
      /\ UNCHANGED <<now, stream, expiry, readers, waiting, acked>>
  BY DEF CutOff
<1>2. n \in Names
  BY <1>1, Busy
<1>3. Done \in WriterRecords /\ WriterOK(Done, now)
  BY DEF Done, WriterRecords, WriterOK
<1>4. \A m \in Names : Between(writers[w], m) => m = n
  BY DEF Between
<1> HIDE DEF n
<1>5. cut' \subseteq Names /\ (\A m \in Names : m # n /\ m \in cut => m \in cut')
      /\ (expiry[n] = Forever => n \in cut')
  BY <1>1, <1>2 DEF IInv, TypeOK
<1>6. writers' \in [Writers -> WriterRecords] /\ WritersInv' /\ StreamExpires'
  BY <1>1, <1>2, <1>3, <1>4, <1>5, WriterStep
<1>7. TypeOK'
  BY <1>1, <1>5, <1>6, UsedStep DEF IInv, TypeOK
<1>8. OrderInv' /\ KeysInv' /\ AckedInv' /\ TokensInv' /\ PagesComplete'
  BY <1>1 DEF IInv, OrderInv, KeysInv, AckedInv, TokensInv, PagesComplete, Alive
<1> QED
  BY <1>6, <1>7, <1>8 DEF IInv

LEMMA ListStep ==
  ASSUME IInv, NEW q \in Readers, NEW n \in Names, NEW size \in PageSizes, NEW a \in Accounts,
         NEW anew \in BOOLEAN, ListStreamValues(q, n, size, a, anew)
  PROVE  IInv'
<1> DEFINE s == stream[n]
           token == IF anew THEN ZeroId ELSE readers[q].token
           page == Page(s, token, size)
           tok == PageToken(page)
           seen == (IF anew THEN {} ELSE readers[q].seen) \cup Elements(page)
           r == [name |-> n, token |-> tok, seen |-> seen]
<1>1. size > 0 /\ (anew \/ readers[q].name = n)
      /\ readers' = [readers EXCEPT ![q] = r]
      /\ UNCHANGED <<now, stream, expiry, writers, waiting, acked, cut, used>>
  BY DEF ListStreamValues
<1>2. /\ readers[q] \in [name: Names, token: Ids, seen: SUBSET Ids]
      /\ readers \in [Readers -> [name: Names, token: Ids, seen: SUBSET Ids]]
      /\ s \in Seq(Ids) /\ Ordered(s, now) /\ now \in Nat \ {0}
  BY DEF IInv, TypeOK, OrderInv
<1>3. size \in Nat \ {0}
  <2>1. PageSizes \subseteq Nat
    BY StreamAssumption
  <2> QED
    BY <1>1, <2>1
<1>4. token \in Ids
  BY <1>2 DEF ZeroId, Ids
<1> HIDE DEF token, s
<1>5. /\ tok \in Ids /\ TokenOK(tok, s, now)
      /\ Elements(page) \subseteq Ids
      /\ \A e \in Elements(s) : Before(e, token) \/ e \in Elements(page) \/ Before(tok, e)
  BY <1>2, <1>3, <1>4, PageAnswer
<1> HIDE DEF page, tok
<1>6. seen \subseteq Ids
  BY <1>2, <1>5
<1>7. \A e \in Elements(s) : Before(tok, e) \/ e \in seen
  <2> SUFFICES ASSUME NEW e \in Elements(s), Before(e, token)
               PROVE  e \in seen
    BY <1>5
  <2>1. e \in Ids /\ ~Before(token, e)
    <3>1. e \in Ids
      BY <1>2 DEF Elements
    <3> QED
      BY <1>4, <3>1, BeforeOrder
  <2>2. CASE anew
    <3>1. PICK i \in DOMAIN s : e = s[i]
      BY DEF Elements
    <3>2. Before(ZeroId, e)
      BY <1>2, <3>1, ZeroFirst
    <3> QED
      BY <2>1, <2>2, <3>2 DEF token
  <2>3. CASE ~anew
    <3>1. readers[q].name = n /\ token = readers[q].token
      BY <1>1, <2>3 DEF token
    <3>2. Before(token, e) \/ e \in readers[q].seen
      BY <3>1 DEF IInv, PagesComplete, s
    <3> QED
      BY <2>1, <2>3, <3>2
  <2> QED
    BY <2>2, <2>3
<1> HIDE DEF seen
<1>8. r \in [name: Names, token: Ids, seen: SUBSET Ids]
      /\ r.name = n /\ r.token = tok /\ r.seen = seen
  BY <1>5, <1>6
<1> HIDE DEF r
<1>9. \A p \in Readers : readers'[p] = IF p = q THEN r ELSE readers[p]
  BY <1>1, <1>2
<1>10. readers' \in [Readers -> [name: Names, token: Ids, seen: SUBSET Ids]]
  BY <1>1, <1>2, <1>8
<1>11. TypeOK'
  BY <1>1, <1>10 DEF IInv, TypeOK
<1>12. OrderInv' /\ KeysInv' /\ WritersInv' /\ AckedInv' /\ StreamExpires'
  BY <1>1 DEF IInv, OrderInv, KeysInv, WritersInv, AckedInv, StreamExpires, Alive, Forever
<1>13. TokensInv'
  <2> SUFFICES ASSUME NEW p \in Readers
               PROVE  TokenOK(readers'[p].token, stream[readers'[p].name], now)
    BY <1>1 DEF TokensInv
  <2>1. CASE p = q
    BY <1>5, <1>8, <1>9, <2>1 DEF s
  <2>2. CASE p # q
    BY <1>9, <2>2 DEF IInv, TokensInv
  <2> QED
    BY <2>1, <2>2
<1>14. PagesComplete'
  <2> SUFFICES ASSUME NEW p \in Readers, NEW e \in Elements(stream[readers'[p].name])
               PROVE  Before(readers'[p].token, e) \/ e \in readers'[p].seen
    BY <1>1 DEF PagesComplete
  <2>1. CASE p = q
    BY <1>7, <1>8, <1>9, <2>1 DEF s
  <2>2. CASE p # q
    BY <1>9, <2>2 DEF IInv, PagesComplete
  <2> QED
    BY <2>1, <2>2
<1> QED
  BY <1>11, <1>12, <1>13, <1>14 DEF IInv

\* GetStreamValue and the end of its wait touch nothing but the calls that wait.
LEMMA WaitStep ==
  ASSUME IInv, waiting' \subseteq Readers \X Names \X Ids,
         used' \in [calls: 0..MaxCalls, faults: 0..MaxFaults],
         UNCHANGED <<now, stream, expiry, writers, readers, acked, cut>>
  PROVE  IInv'
<1>1. TypeOK'
  BY DEF IInv, TypeOK
<1>2. OrderInv' /\ KeysInv' /\ WritersInv' /\ AckedInv' /\ TokensInv' /\ StreamExpires'
      /\ PagesComplete'
  BY DEF IInv, OrderInv, KeysInv, WritersInv, AckedInv, TokensInv, StreamExpires,
         PagesComplete, Alive, Forever
<1> QED
  BY <1>1, <1>2 DEF IInv

LEMMA GetStep ==
  ASSUME IInv, NEW q \in Readers, NEW n \in Names, NEW id \in AskedIds, NEW a \in Accounts,
         GetStreamValue(q, n, id, a)
  PROVE  IInv'
<1>1. <<q, Rebuilt(n), id>> \in Readers \X Names \X Ids
  BY StreamAssumption DEF Ids
<1>2. waiting' \subseteq waiting \cup {<<q, Rebuilt(n), id>>}
  BY DEF GetStreamValue
<1>3. waiting' \subseteq Readers \X Names \X Ids
  BY <1>1, <1>2 DEF IInv, TypeOK
<1>4. used' \in [calls: 0..MaxCalls, faults: 0..MaxFaults]
      /\ UNCHANGED <<now, stream, expiry, writers, readers, acked, cut>>
  BY DEF GetStreamValue, IInv, TypeOK
<1> QED
  BY <1>3, <1>4, WaitStep

LEMMA AbandonStep ==
  ASSUME IInv, NEW q \in Readers, Abandon(q)
  PROVE  IInv'
<1>1. waiting' \subseteq waiting
      /\ UNCHANGED <<now, stream, expiry, writers, readers, acked, cut>> /\ Fault
  BY DEF Abandon
<1>2. waiting' \subseteq Readers \X Names \X Ids
  BY <1>1 DEF IInv, TypeOK
<1> QED
  BY <1>1, <1>2, UsedStep, WaitStep

LEMMA TickStep ==
  ASSUME IInv, Tick
  PROVE  IInv'
<1>1. /\ now < MaxTime /\ now' = now + 1
      /\ stream' = [n \in Names |-> IF expiry[n] < now' THEN <<>> ELSE stream[n]]
      /\ expiry' = [n \in Names |-> IF expiry[n] < now' THEN Absent ELSE expiry[n]]
      /\ acked' = {a \in acked : now' <= a[2][1] + Ttl}
      /\ UNCHANGED <<writers, readers, waiting, cut, used>>
  BY DEF Tick
<1>2. /\ now \in 1..MaxTime /\ Ttl \in Nat \ {0} /\ MaxTime \in Nat
      /\ stream \in [Names -> Seq(Ids)] /\ expiry \in [Names -> Int]
  BY StreamAssumption DEF IInv, TypeOK
<1>3. now' \in 1..MaxTime /\ now' > now
  BY <1>1, <1>2
<1>4. TypeOK'
  BY <1>1, <1>2, <1>3 DEF IInv, TypeOK, Absent
<1>5. ASSUME NEW n \in Names
      PROVE  /\ stream'[n] = <<>> \/ (stream'[n] = stream[n] /\ expiry'[n] = expiry[n])
             /\ expiry[n] >= now' => stream'[n] = stream[n] /\ expiry'[n] = expiry[n]
             /\ expiry'[n] = expiry[n] \/ expiry'[n] = Absent
  BY <1>1, <1>2, <1>3
<1>6. OrderInv'
  <2> SUFFICES ASSUME NEW n \in Names PROVE Ordered(stream'[n], now')
    BY DEF OrderInv
  <2>1. CASE stream'[n] = <<>>
    BY <2>1 DEF Ordered
  <2>2. CASE stream'[n] = stream[n]
    <3>1. Ordered(stream[n], now)
      BY DEF IInv, OrderInv
    <3>2. \A i \in 1..now : i \in 1..now'
      BY <1>2, <1>3
    <3> QED
      BY <2>2, <3>1, <3>2 DEF Ordered
  <2> QED
    BY <1>5, <2>1, <2>2
<1>7. KeysInv'
  BY <1>5 DEF IInv, KeysInv, Alive
<1>8. WritersInv'
  <2> SUFFICES ASSUME NEW w \in Writers PROVE WriterOK(writers[w], now')
    BY <1>1 DEF WritersInv
  <2>1. CASE writers[w].pc = "idle"
    BY <2>1 DEF WriterOK
  <2>2. CASE writers[w].pc # "idle"
    <3>1. writers[w].minTime \in Int /\ writers[w].id[1] \in Int
          /\ writers[w].minTime <= now - Ttl /\ writers[w].id[1] <= now
      BY <2>2, Busy DEF Ids
    <3> QED
      BY <1>1, <1>2, <3>1 DEF WriterOK
  <2> QED
    BY <2>1, <2>2
<1>9. AckedInv'
  <2> SUFFICES ASSUME NEW a \in acked'
               PROVE  /\ a[2] \in Elements(stream'[a[1]])
                      /\ now' <= a[2][1] + Ttl /\ a[2][1] + Ttl <= expiry'[a[1]]
    BY DEF AckedInv
  <2>1. a \in acked /\ now' <= a[2][1] + Ttl
    BY <1>1
  <2>2. a[1] \in Names /\ a[2][1] \in Int
    BY <2>1 DEF IInv, TypeOK, Ids
  <2>3. a[2] \in Elements(stream[a[1]]) /\ a[2][1] + Ttl <= expiry[a[1]]
    BY <2>1 DEF IInv, AckedInv
  <2>4. expiry[a[1]] >= now'
    BY <1>2, <1>3, <2>1, <2>2, <2>3
  <2>5. stream'[a[1]] = stream[a[1]] /\ expiry'[a[1]] = expiry[a[1]]
    BY <1>5, <2>2, <2>4
  <2> QED
    BY <2>1, <2>3, <2>5
<1>10. TokensInv'
  <2> SUFFICES ASSUME NEW q \in Readers PROVE readers[q].token[1] < now'
    BY <1>1 DEF TokensInv, TokenOK
  <2> DEFINE s == stream[readers[q].name]
             token == readers[q].token
  <2>1. TokenOK(token, s, now) /\ token[1] \in Int /\ readers[q].name \in Names
    BY DEF IInv, TokensInv, TypeOK, Ids
  <2>2. s \in Seq(Ids) /\ Ordered(s, now)
    BY <1>2, <2>1 DEF IInv, OrderInv
  <2> HIDE DEF s, token
  <2>3. CASE token[1] < now
    BY <1>2, <1>3, <2>1, <2>3 DEF token
  <2>4. CASE s # <<>> /\ ~Before(s[Len(s)], token)
    <3>1. Len(s) \in DOMAIN s
      BY <2>2, <2>4
    <3>2. s[Len(s)][1] \in 1..now
      BY <2>2, <3>1 DEF Ordered
    <3>3. ~(s[Len(s)][1] < token[1])
      BY <2>4 DEF Before
    <3> QED
      BY <1>2, <1>3, <2>1, <3>2, <3>3 DEF token
  <2> QED
    BY <2>1, <2>3, <2>4 DEF TokenOK
<1>11. StreamExpires'
  <2>1. Absent # Forever
    BY <1>2 DEF Absent, Forever
  <2>2. ASSUME NEW n \in Names, expiry'[n] = Forever
        PROVE  n \in cut \/ \E w \in Writers : Between(writers[w], n)
    BY <1>5, <2>1, <2>2 DEF IInv, StreamExpires
  <2> QED
    BY <1>1, <2>2 DEF StreamExpires, Forever
<1>12. PagesComplete'
  <2> SUFFICES ASSUME NEW q \in Readers, NEW e \in Elements(stream'[readers[q].name])
               PROVE  Before(readers[q].token, e) \/ e \in readers[q].seen
    BY <1>1 DEF PagesComplete
  <2>1. readers[q].name \in Names
    BY DEF IInv, TypeOK
  <2>2. e \in Elements(stream[readers[q].name])
    BY <1>5, <2>1 DEF Elements
  <2> QED
    BY <2>2 DEF IInv, PagesComplete
<1> QED
  BY <1>4, <1>6, <1>7, <1>8, <1>9, <1>10, <1>11, <1>12 DEF IInv

\* Every step of CreateStreamValue, ListStreamValues and GetStreamValue, and
\* the clock, keep the invariant.
THEOREM Inductive == Spec => []IInv
<1>1. IInv /\ [Next]_vars => IInv'
  <2> SUFFICES ASSUME IInv, [Next]_vars PROVE IInv'
    OBVIOUS
  <2>1. CASE UNCHANGED vars
    BY <2>1 DEF vars, IInv, TypeOK, OrderInv, KeysInv, WritersInv, AckedInv, TokensInv,
                StreamExpires, PagesComplete, Alive, Forever
  <2>2. ASSUME NEW w \in Writers, NEW n \in Names, CreateStreamValue(w, n)
        PROVE  IInv'
    BY <2>2, CreateStep
  <2>3. ASSUME NEW w \in Writers, Added(w) \/ AddLost(w) \/ Expire(w) \/ CutOff(w)
        PROVE  IInv'
    BY <2>3, AddedStep, AddLostStep, ExpireStep, CutOffStep
  <2>4. ASSUME NEW q \in Readers, NEW n \in Names, NEW size \in PageSizes,
               NEW a \in Accounts, NEW anew \in BOOLEAN, ListStreamValues(q, n, size, a, anew)
        PROVE  IInv'
    BY <2>4, ListStep
  <2>5. ASSUME NEW q \in Readers, NEW n \in Names, NEW id \in AskedIds,
               NEW a \in Accounts, GetStreamValue(q, n, id, a)
        PROVE  IInv'
    BY <2>5, GetStep
  <2>6. ASSUME NEW q \in Readers, Abandon(q)
        PROVE  IInv'
    BY <2>6, AbandonStep
  <2>7. CASE Tick
    BY <2>7, TickStep
  <2> QED
    BY <2>1, <2>2, <2>3, <2>4, <2>5, <2>6, <2>7 DEF Next
<1> QED
  BY <1>1, InitIInv, PTL DEF Spec

-----------------------------------------------------------------------------
(* What follows                                                            *)

\* Every variable of StreamStore keeps its type.
THEOREM TypeCorrect == Spec => []TypeOK
<1>1. IInv => TypeOK
  BY DEF IInv
<1> QED
  BY <1>1, Inductive, PTL

\* ListStreamValues: a reader that follows the page tokens is given every entry
\* up to its token, whatever is appended, trimmed or expires between two pages.
THEOREM MissesNothing == Spec => []PagesComplete
<1>1. IInv => PagesComplete
  BY DEF IInv
<1> QED
  BY <1>1, Inductive, PTL

\* ListStreamValues: a page that may hold two entries moves the token on, as
\* long as there is an entry after it.
THEOREM Advances == Spec => []PagingAdvances
<1>1. IInv => PagingAdvances
  <2> SUFFICES ASSUME IInv, NEW q \in Readers, NEW size \in PageSizes, size >= 2,
                      \E e \in Elements(stream[readers[q].name]) : Before(readers[q].token, e)
               PROVE  Before(readers[q].token,
                             PageToken(Page(stream[readers[q].name], readers[q].token, size)))
    BY DEF PagingAdvances
  <2>1. /\ readers[q].name \in Names /\ readers[q].token \in Ids
        /\ now \in Nat \ {0} /\ stream \in [Names -> Seq(Ids)]
    BY DEF IInv, TypeOK
  <2>2. stream[readers[q].name] \in Seq(Ids) /\ Ordered(stream[readers[q].name], now)
    BY <2>1 DEF IInv, OrderInv
  <2>3. size \in Nat \ {0}
    <3>1. PageSizes \subseteq Nat
      BY StreamAssumption
    <3> QED
      BY <3>1
  <2> QED
    BY <2>1, <2>2, <2>3, PageAnswer
<1> QED
  BY <1>1, Inductive, PTL

\* CreateStreamValue: an acknowledged entry stays for streamTtl, however later
\* calls trim the stream and refresh it.
THEOREM Retained == Spec => []Retention
<1>1. IInv => Retention
  BY DEF IInv, AckedInv, Retention
<1> QED
  BY <1>1, Inductive, PTL

\* A stream is without a time to live only between XADD and EXPIRE of a call,
\* or after a call that was cut off there.
THEOREM Expires == Spec => []StreamExpires
<1>1. IInv => StreamExpires
  BY DEF IInv
<1> QED
  BY <1>1, Inductive, PTL
=============================================================================
