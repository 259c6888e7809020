-------------------------- MODULE OAuthLoginProofs --------------------------
(***************************************************************************)
(* Theorems about OAuthLogin, for every value of its constants: however    *)
(* many logins, callbacks, retries, faults, restarts and seeds there are.  *)
(***************************************************************************)
EXTENDS OAuthLogin, TLAPS

\* A login or a callback that is given a record of its type leaves the others
\* well typed.
LEMMA LoginType ==
  ASSUME TypeOK, NEW l \in Logins, NEW r \in LoginRecords,
         login' = [login EXCEPT ![l] = r]
  PROVE  login' \in [Logins -> LoginRecords]
BY DEF TypeOK

LEMMA CallbackType ==
  ASSUME TypeOK, NEW c \in Callbacks, NEW r \in CallbackRecords,
         callback' = [callback EXCEPT ![c] = r]
  PROVE  callback' \in [Callbacks -> CallbackRecords]
BY DEF TypeOK

\* A callback keeps its state and its code for good.
Onward ==
  \A c \in Callbacks : callback[c].pc # "idle" =>
    /\ callback'[c].pc # "idle"
    /\ callback'[c].state = callback[c].state
    /\ callback'[c].code = callback[c].code

\* What the invariants say of spent codes and verifiers asked for survives a step
\* in which a code newly spent has a spender, a verifier newly asked for is with a
\* callback, and a callback that loses what it holds disturbs its login or has
\* a reason to give up.
LEMMA SpentKept ==
  ASSUME SpentInv, Onward, disturbed \subseteq disturbed',
         \A k \in spent' \ spent :
           \/ k.login \in disturbed'
           \/ \E c \in Callbacks :
                \/ Foreign(c, k)'
                \/ callback'[c].pc \in {"userinfo", "signed"} /\ callback'[c].code = k,
         \A c \in Callbacks :
           callback[c].pc \in {"userinfo", "signed"} =>
             \/ callback'[c].pc \in {"userinfo", "signed"}
             \/ callback[c].state \in disturbed'
  PROVE  SpentInv'
<1> SUFFICES ASSUME NEW k \in spent, k.login \notin disturbed'
             PROVE  \E c \in Callbacks :
                      \/ Foreign(c, k)'
                      \/ callback'[c].pc \in {"userinfo", "signed"} /\ callback'[c].code = k
  BY DEF SpentInv, Foreign
<1>1. PICK c \in Callbacks :
        \/ Foreign(c, k)
        \/ callback[c].pc \in {"userinfo", "signed"} /\ callback[c].code = k
  BY DEF SpentInv
<1> QED BY <1>1 DEF Foreign, Onward

LEMMA AskedKept ==
  ASSUME AskedInv, Onward, disturbed \subseteq disturbed',
         \A l \in asked' \ (asked \cup disturbed') : \E c \in Callbacks :
           callback'[c].state = l /\ callback'[c].pc \in Held,
         \A c \in Callbacks :
           /\ callback[c].pc = "failed" => callback'[c].pc = "failed"
           /\ callback[c].pc \in Held =>
                \/ callback'[c].pc \in Held
                \/ callback[c].state \in disturbed'
                \/ GaveUp(c, callback[c].state)'
  PROVE  AskedInv'
<1> SUFFICES ASSUME NEW l \in asked' \ disturbed', l \in asked
             PROVE  \E c \in Callbacks :
                      /\ callback'[c].state = l
                      /\ callback'[c].pc \in Held \/ GaveUp(c, l)'
  BY DEF AskedInv, GaveUp, Foreign
<1>1. PICK c \in Callbacks :
        callback[c].state = l /\ (callback[c].pc \in Held \/ GaveUp(c, l))
  BY DEF AskedInv
<1>2. CASE callback[c].pc \in Held
  <2>1. callback'[c].state = l
    BY <1>1, <1>2 DEF Onward, Held
  <2>2. callback'[c].pc \in Held \/ GaveUp(c, l)'
    BY <1>1, <1>2, <2>1 DEF GaveUp, Foreign
  <2> QED BY <2>1, <2>2
<1>3. CASE GaveUp(c, l)
  <2>1. GaveUp(c, l)'
    BY <1>3 DEF GaveUp, Foreign, Onward
  <2> QED BY <1>1, <1>3, <2>1 DEF Onward, GaveUp
<1> QED BY <1>1, <1>2, <1>3

\* A verifier on offer is there in a step unless the step has an excuse.
LEMMA VerifierKept ==
  ASSUME VerifiersInv,
         asked \subseteq asked', disturbed \subseteq disturbed',
         now \in Nat, now' \in Nat, now <= now', login \in [Logins -> LoginRecords],
         \A l \in Logins : login'[l].pc = "offered" =>
           /\ login[l].pc = "offered" /\ login'[l].at = login[l].at
           /\ \/ verifier'[l] = verifier[l]
              \/ /\ verifier'[l] = 0
                 /\ l \in asked' \cup disturbed' \/ login[l].at + VerifierTtl <= now'
  PROVE  VerifiersInv'
<1> SUFFICES ASSUME NEW l \in Logins, login'[l].pc = "offered"
             PROVE  \/ verifier'[l] = login'[l].at + VerifierTtl
                    \/ /\ verifier'[l] = 0
                       /\ \/ l \in asked' \cup disturbed'
                          \/ login'[l].at + VerifierTtl <= now'
  BY DEF VerifiersInv
<1>1. login[l].pc = "offered" /\ login'[l].at = login[l].at /\ login[l].at \in Nat
  BY DEF LoginRecords
<1> QED BY <1>1, BoundsAssumption DEF VerifiersInv

\* A callback that fails leaves all but the account of verifiers and spent codes
\* intact.
LEMMA FailKept ==
  ASSUME IInv, NEW c \in Callbacks,
         callback[c].pc \in {"getdel", "exchange", "userinfo"},
         callback' = [callback EXCEPT ![c].pc = "failed"],
         UNCHANGED <<now, login, codes, tokens, isTest>>,
         verifier' \in [Logins -> Nat], \A l \in Logins : verifier'[l] <= verifier[l]
  PROVE  /\ callback' \in [Callbacks -> CallbackRecords]
         /\ CallbacksInv' /\ HoldersInv' /\ ConsentInv' /\ TokensInv'
         /\ Onward
<1> USE DEF IInv
<1>1. callback' \in [Callbacks -> CallbackRecords]
  BY DEF TypeOK, CallbackRecords
<1>2. /\ \A d \in Callbacks \ {c} : callback'[d] = callback[d]
      /\ callback'[c] = [callback[c] EXCEPT !.pc = "failed"]
  BY DEF TypeOK
<1>3. CallbacksInv'
  BY <1>2 DEF TypeOK, CallbackRecords, CallbacksInv
<1>4. HoldersInv'
  BY <1>2 DEF TypeOK, CallbackRecords, CallbacksInv, HoldersInv, Held
<1>5. ConsentInv' /\ TokensInv'
  BY <1>2 DEF TypeOK, CallbackRecords, ConsentInv, TokensInv, Tokens
<1>6. Onward
  BY <1>2 DEF TypeOK, CallbackRecords, Onward
<1> QED BY <1>1, <1>3, <1>4, <1>5, <1>6

LEMMA HandleLoginStep ==
  ASSUME IInv, NEW l \in Logins, HandleLogin(l)
  PROVE  IInv'
<1> USE DEF IInv, HandleLogin, config
<1>1. TypeOK'
  BY DEF TypeOK, LoginRecords
<1>2. CallbacksInv'
  BY DEF TypeOK, CallbacksInv
<1>3. VerifiersInv'
  BY DEF TypeOK, VerifiersInv
<1>4. HoldersInv'
  BY DEF TypeOK, HoldersInv, CallbacksInv, Held
<1>5. ConsentInv' /\ TokensInv'
  BY DEF ConsentInv, TokensInv
<1>6. SeedsInv' /\ SpentInv' /\ AskedInv'
  BY DEF SeedsInv, SpentInv, AskedInv, GaveUp, Foreign
<1> QED BY <1>1, <1>2, <1>3, <1>4, <1>5, <1>6

LEMMA SaveVerifierStep ==
  ASSUME IInv, NEW l \in Logins, SaveVerifier(l)
  PROVE  IInv'
<1> USE DEF IInv, SaveVerifier, config
<1>1. TypeOK'
  <2> DEFINE r == [login[l] EXCEPT !.pc = "offered", !.at = now]
  <2>1. r \in LoginRecords
    BY DEF TypeOK, LoginRecords
  <2>2. login' = [login EXCEPT ![l] = r]
    BY DEF TypeOK
  <2>3. login' \in [Logins -> LoginRecords]
    BY <2>1, <2>2, LoginType
  <2> QED BY <2>3, BoundsAssumption DEF TypeOK
<1>2. CallbacksInv'
  BY DEF TypeOK, CallbacksInv
<1>3. VerifiersInv'
  BY BoundsAssumption DEF TypeOK, VerifiersInv
<1>4. HoldersInv'
  BY DEF TypeOK, HoldersInv, CallbacksInv, Held
<1>5. ConsentInv' /\ TokensInv'
  BY DEF ConsentInv, TokensInv
<1>6. SeedsInv' /\ SpentInv' /\ AskedInv'
  BY DEF SeedsInv, SpentInv, AskedInv, GaveUp, Foreign
<1> QED BY <1>1, <1>2, <1>3, <1>4, <1>5, <1>6

LEMMA SaveLostStep ==
  ASSUME IInv, NEW l \in Logins, NEW applied \in BOOLEAN, SaveLost(l, applied)
  PROVE  IInv'
<1> USE DEF IInv, SaveLost, Fault, config
<1>1. TypeOK'
  BY BoundsAssumption DEF TypeOK, LoginRecords
<1>2. CallbacksInv'
  BY DEF TypeOK, CallbacksInv
<1>3. VerifiersInv'
  BY BoundsAssumption DEF TypeOK, VerifiersInv
<1>4. HoldersInv'
  BY DEF TypeOK, HoldersInv, CallbacksInv, Held
<1>5. ConsentInv' /\ TokensInv'
  BY DEF ConsentInv, TokensInv
<1>6. SeedsInv' /\ SpentInv' /\ AskedInv'
  BY DEF SeedsInv, SpentInv, AskedInv, GaveUp, Foreign
<1> QED BY <1>1, <1>2, <1>3, <1>4, <1>5, <1>6

LEMMA AuthorizeStep ==
  ASSUME IInv, NEW l \in Logins, NEW u \in Users, Authorize(l, u)
  PROVE  IInv'
<1> USE DEF IInv, Authorize, config
<1>1. TypeOK'
  BY DEF TypeOK, Codes
<1>2. CallbacksInv' /\ VerifiersInv' /\ HoldersInv'
  BY DEF CallbacksInv, VerifiersInv, HoldersInv
<1>3. ConsentInv' /\ TokensInv'
  BY DEF ConsentInv, TokensInv
<1>4. SeedsInv' /\ SpentInv' /\ AskedInv'
  BY DEF SeedsInv, SpentInv, AskedInv, GaveUp, Foreign
<1> QED BY <1>1, <1>2, <1>3, <1>4

LEMMA HandleCallbackStep ==
  ASSUME IInv, NEW l \in Logins, NEW c \in Callbacks, NEW code \in codes \cup {None},
         HandleCallback(c, l, code)
  PROVE  IInv'
<1> USE DEF IInv, HandleCallback, config
<1>1. TypeOK'
  <2> DEFINE r == [callback[c] EXCEPT !.pc = "getdel", !.state = l, !.code = code]
  <2>1. r \in CallbackRecords
    BY ZenonT(30) DEF TypeOK, CallbackRecords
  <2>2. callback' = [callback EXCEPT ![c] = r]
    BY DEF TypeOK
  <2>3. callback' \in [Callbacks -> CallbackRecords]
    BY <2>1, <2>2, CallbackType
  <2> QED BY <2>3 DEF TypeOK
<1>2. CallbacksInv' /\ VerifiersInv'
  BY DEF TypeOK, CallbacksInv, VerifiersInv
<1>3. HoldersInv'
  BY DEF TypeOK, HoldersInv, Held
<1>4. ConsentInv'
  BY DEF TypeOK, ConsentInv
<1>5. TokensInv'
  BY DEF TypeOK, TokensInv, Tokens
<1>6. Onward
  BY DEF TypeOK, Onward
<1>7. SpentInv'
  BY <1>6, SpentKept DEF TypeOK, Foreign
<1>8. AskedInv'
  BY <1>6, AskedKept DEF TypeOK, Held, GaveUp, Foreign
<1>9. SeedsInv'
  BY DEF SeedsInv
<1> QED BY <1>1, <1>2, <1>3, <1>4, <1>5, <1>7, <1>8, <1>9

LEMMA GetDelStep ==
  ASSUME IInv, NEW c \in Callbacks, GetDel(c)
  PROVE  IInv'
<1> DEFINE l == callback[c].state
<1> USE DEF IInv, GetDel, config
<1>0. l \in Logins /\ login[l].pc = "offered"
  BY DEF CallbacksInv
<1>1. \A d \in Callbacks \ {c} : callback'[d] = callback[d]
  BY DEF TypeOK
<1>a. asked \subseteq asked' /\ asked' \subseteq asked \cup {l}
  BY DEF Ask
<1>b. login[l].at \in Nat /\ now \in Nat /\ verifier[l] \in Nat
  BY <1>0 DEF TypeOK, LoginRecords
<1>c. l \in asked' \/ login[l].at + VerifierTtl <= now
  BY <1>b, BoundsAssumption DEF Ask
<1>d. verifier' \in [Logins -> Nat] /\ verifier'[l] = 0
      /\ \A k \in Logins \ {l} : verifier'[k] = verifier[k]
  BY <1>0 DEF TypeOK
<1>e. VerifiersInv'
  <2>1. \A k \in Logins :
          \/ verifier'[k] = verifier[k]
          \/ /\ verifier'[k] = 0
             /\ k \in asked' \cup disturbed' \/ login[k].at + VerifierTtl <= now'
    BY <1>c, <1>d
  <2>2. now \in Nat /\ now' = now /\ now <= now' /\ login' = login
        /\ login \in [Logins -> LoginRecords]
    BY DEF TypeOK
  <2> QED BY <1>a, <2>1, <2>2, VerifierKept
<1>f. SeedsInv'
  BY DEF SeedsInv
<1>2. CASE now < verifier[l]
  <2> DEFINE r == [callback[c] EXCEPT !.pc = "exchange", !.took = now]
  <2>1. callback' = [callback EXCEPT ![c] = r]
    BY <1>2 DEF TypeOK
  <2>2. TypeOK'
    <3>1. r \in CallbackRecords
      BY ZenonT(30) DEF TypeOK, CallbackRecords
    <3>2. callback' \in [Callbacks -> CallbackRecords]
      BY <2>1, <3>1, CallbackType
    <3> QED BY <1>0, <1>a, <1>d, <3>2 DEF TypeOK
  <2>3. callback'[c] = r
    BY <2>1 DEF TypeOK
  <2>4. CallbacksInv'
    BY <1>0, <1>1, <2>3 DEF TypeOK, CallbackRecords, CallbacksInv
  <2>5. HoldersInv'
    <3>1. \A d \in Callbacks : callback[d].pc \in Held => callback[d].state # l
      BY <1>0, <1>2 DEF HoldersInv, TypeOK
    <3>2. now < login[l].at + VerifierTtl
      BY <1>0, <1>2, <1>b, BoundsAssumption DEF VerifiersInv
    <3> QED BY <1>0, <1>1, <1>b, <1>d, <2>3, <3>1, <3>2
            DEF TypeOK, CallbackRecords, CallbacksInv, HoldersInv, Held
  <2>6. ConsentInv' /\ TokensInv'
    BY <1>1, <2>3 DEF TypeOK, CallbackRecords, ConsentInv, TokensInv, Tokens
  <2>7. SpentInv'
    BY <1>1, <2>3, SpentKept DEF TypeOK, CallbackRecords, Onward
  <2>8. AskedInv'
    BY <1>1, <1>2, <1>a, <2>3, AskedKept DEF TypeOK, CallbackRecords, Onward, Held
  <2> QED BY <1>e, <1>f, <2>2, <2>4, <2>5, <2>6, <2>7, <2>8
<1>3. CASE ~(now < verifier[l])
  <2>1. /\ verifier' \in [Logins -> Nat]
        /\ \A k \in Logins : verifier'[k] <= verifier[k]
        /\ callback' = [callback EXCEPT ![c].pc = "failed"]
    BY <1>0, <1>3, <1>d DEF TypeOK
  <2>2. /\ callback' \in [Callbacks -> CallbackRecords]
        /\ CallbacksInv' /\ HoldersInv' /\ ConsentInv' /\ TokensInv'
        /\ Onward
    BY <2>1, FailKept
  <2>3. TypeOK'
    BY <1>0, <1>a, <2>1, <2>2 DEF TypeOK
  <2>4. l \in asked' => l \in asked \cup disturbed
    BY <1>0, <1>3, <1>b, BoundsAssumption DEF VerifiersInv, Ask
  <2>5. asked' \ (asked \cup disturbed') = {}
    BY <1>a, <2>4
  <2>6. SpentInv'
    BY <2>1, <2>2, SpentKept DEF TypeOK
  <2>7. AskedInv'
    BY <2>1, <2>2, <2>5, AskedKept DEF TypeOK, Held
  <2> QED BY <1>e, <1>f, <2>2, <2>3, <2>6, <2>7
<1> QED BY <1>2, <1>3

LEMMA GetDelLostStep ==
  ASSUME IInv, NEW c \in Callbacks, NEW applied \in BOOLEAN, GetDelLost(c, applied)
  PROVE  IInv'
<1> DEFINE l == callback[c].state
<1> USE DEF IInv, GetDelLost, Fault, config
<1>1. /\ l \in Logins
      /\ verifier' \in [Logins -> Nat]
      /\ \A k \in Logins : verifier'[k] <= verifier[k]
      /\ faults' \in 0 .. MaxFaults
  BY BoundsAssumption DEF CallbacksInv, TypeOK
<1>a. /\ asked \subseteq asked' /\ asked' \subseteq asked \cup {l}
      /\ disturbed' = disturbed \cup {l}
  BY DEF Ask
<1>b. VerifiersInv'
  <2>1. \A k \in Logins :
          \/ verifier'[k] = verifier[k]
          \/ verifier'[k] = 0 /\ k \in asked' \cup disturbed'
    BY <1>1 DEF TypeOK
  <2>2. now \in Nat /\ now' = now /\ now <= now' /\ login' = login
        /\ login \in [Logins -> LoginRecords]
    BY DEF TypeOK
  <2> QED BY <1>a, <2>1, <2>2, VerifierKept
<1>c. SeedsInv'
  BY DEF SeedsInv
<1>2. CASE callback[c].retries < MaxRetries
  <2>1. /\ callback' \in [Callbacks -> CallbackRecords]
        /\ \A d \in Callbacks \ {c} : callback'[d] = callback[d]
        /\ callback'[c] = [callback[c] EXCEPT !.retries = @ + 1]
    BY <1>2, BoundsAssumption DEF TypeOK, CallbackRecords
  <2>2. TypeOK'
    BY <1>1, <1>a, <2>1 DEF TypeOK
  <2>3. CallbacksInv'
    BY <1>1, <2>1 DEF TypeOK, CallbackRecords, CallbacksInv
  <2>4. HoldersInv'
    BY <1>1, <2>1 DEF TypeOK, CallbackRecords, CallbacksInv, HoldersInv, Held
  <2>5. ConsentInv' /\ TokensInv'
    BY <2>1 DEF TypeOK, CallbackRecords, ConsentInv, TokensInv, Tokens
  <2>6. Onward
    BY <2>1 DEF TypeOK, CallbackRecords, Onward
  <2>7. SpentInv'
    BY <2>1, <2>6, SpentKept DEF TypeOK, CallbackRecords
  <2>8. AskedInv'
    BY <1>a, <2>1, <2>6, AskedKept DEF TypeOK, CallbackRecords, Held
  <2> QED BY <1>b, <1>c, <2>2, <2>3, <2>4, <2>5, <2>7, <2>8
<1>3. CASE ~(callback[c].retries < MaxRetries)
  <2>1. callback' = [callback EXCEPT ![c].pc = "failed"]
    BY <1>3
  <2>2. /\ callback' \in [Callbacks -> CallbackRecords]
        /\ CallbacksInv' /\ HoldersInv' /\ ConsentInv' /\ TokensInv'
        /\ Onward
    BY <1>1, <2>1, FailKept
  <2>3. TypeOK'
    BY <1>1, <1>a, <2>2 DEF TypeOK
  <2>4. SpentInv' /\ AskedInv'
    BY <1>a, <2>1, <2>2, SpentKept, AskedKept DEF TypeOK, Held
  <2> QED BY <1>b, <1>c, <2>2, <2>3, <2>4
<1> QED BY <1>2, <1>3

LEMMA ExchangeStep ==
  ASSUME IInv, NEW c \in Callbacks, Exchange(c)
  PROVE  IInv'
<1> DEFINE l == callback[c].state
           code == callback[c].code
           good == isTest \/ (code \in codes \ spent /\ code.login = l)
<1> USE DEF IInv, Exchange, config
<1>1. l \in Logins /\ login[l].pc = "offered" /\ code \in codes \cup {None}
  BY DEF CallbacksInv
<1>2. spent' \subseteq codes' /\ spent' \ spent \subseteq {code} \ {None}
  BY <1>1 DEF TypeOK
<1>a. VerifiersInv' /\ SeedsInv'
  BY DEF VerifiersInv, SeedsInv
<1>3. CASE good /\ callback' = [callback EXCEPT
                      ![c].pc = "userinfo",
                      ![c].user = IF isTest THEN MockUser ELSE code.user]
  <2> DEFINE u == IF isTest THEN MockUser ELSE code.user
             r == [callback[c] EXCEPT !.pc = "userinfo", !.user = u]
  <2>1. u \in Users /\ (~isTest => [login |-> l, user |-> u] \in codes)
    <3>1. CASE isTest
      BY <3>1, UsersAssumption
    <3>2. CASE ~isTest
      <4>1. code \in codes /\ code \in Codes /\ code.login = l
        BY <1>3, <3>2 DEF TypeOK
      <4>2. code = [login |-> l, user |-> code.user] /\ code.user \in Users
        BY <4>1 DEF Codes
      <4> QED BY <3>2, <4>1, <4>2
    <3> QED BY <3>1, <3>2
  <2>2. callback' = [callback EXCEPT ![c] = r]
    BY <1>3 DEF TypeOK
  <2> HIDE DEF u
  <2>3. r \in CallbackRecords
    BY <2>1, ZenonT(30) DEF TypeOK, CallbackRecords
  <2>4. /\ callback' \in [Callbacks -> CallbackRecords]
        /\ \A d \in Callbacks \ {c} : callback'[d] = callback[d]
        /\ callback'[c] = r
    BY <2>2, <2>3, CallbackType DEF TypeOK
  <2>5. TypeOK'
    BY <1>2, <2>4 DEF TypeOK
  <2>6. CallbacksInv'
    BY <1>1, <2>4 DEF TypeOK, CallbackRecords, CallbacksInv
  <2>7. HoldersInv'
    <3>1. /\ callback[c].pc \in Held /\ callback'[c].pc \in Held
          /\ callback'[c].state = l /\ callback'[c].took = callback[c].took
      BY <2>4 DEF TypeOK, CallbackRecords, Held
    <3>2. \A d \in Callbacks :
            /\ callback'[d].pc \in Held <=> callback[d].pc \in Held
            /\ callback'[d].state = callback[d].state
            /\ callback'[d].took = callback[d].took
      BY <2>4, <3>1
    <3>3. UNCHANGED <<now, login, verifier>>
      OBVIOUS
    <3> QED BY <3>2, <3>3, Zenon DEF HoldersInv
  <2>8. ConsentInv' /\ TokensInv'
    <3>1. ConsentInv'
      <4>1. callback'[c].user = u /\ callback'[c].state = l
        BY <2>4 DEF TypeOK, CallbackRecords
      <4> QED BY <2>1, <2>4, <4>1 DEF ConsentInv
    <3>2. \A t \in tokens : t.by \in Callbacks /\ callback'[t.by] = callback[t.by]
      BY <2>4 DEF TypeOK, TokensInv, Tokens
    <3>3. TokensInv'
      BY <2>4, <3>2 DEF TypeOK, CallbackRecords, TokensInv
    <3> QED BY <3>1, <3>3
  <2>9. Onward
    BY <2>4 DEF TypeOK, CallbackRecords, Onward
  <2>10. SpentInv'
    BY <1>2, <2>4, <2>9, SpentKept, ZenonT(30) DEF TypeOK, CallbackRecords, Foreign
  <2>11. AskedInv'
    <3> DEFINE Went(d) == /\ callback[d].pc = "failed" => callback'[d].pc = "failed"
                          /\ callback[d].pc \in Held => callback'[d].pc \in Held
    <3>1. \A d \in Callbacks : Went(d)
      <4>1. callback[c].pc = "exchange" /\ callback'[c].pc = "userinfo"
        BY <2>4 DEF TypeOK, CallbackRecords
      <4>2. Went(c)
        BY <4>1 DEF Held
      <4> QED BY <2>4, <4>2
    <3>2. asked' = asked /\ disturbed' = disturbed /\ AskedInv
      OBVIOUS
    <3> QED
      BY <2>9, <3>1, <3>2, AskedKept, Zenon
  <2> QED BY <1>a, <2>5, <2>6, <2>7, <2>8, <2>10, <2>11
<1>4. CASE ~good /\ callback' = [callback EXCEPT ![c].pc = "failed"]
  <2>1. /\ callback' \in [Callbacks -> CallbackRecords]
        /\ CallbacksInv' /\ HoldersInv' /\ ConsentInv' /\ TokensInv'
        /\ Onward
    <3>1. verifier' \in [Logins -> Nat] /\ \A k \in Logins : verifier'[k] <= verifier[k]
      BY DEF TypeOK
    <3> QED BY <1>4, <3>1, FailKept
  <2>2. TypeOK'
    BY <1>2, <2>1 DEF TypeOK
  <2>3. /\ \A d \in Callbacks \ {c} : callback'[d] = callback[d]
        /\ callback'[c] = [callback[c] EXCEPT !.pc = "failed"]
    BY <1>4 DEF TypeOK
  <2>4. \A k \in spent' \ spent : Foreign(c, k)'
    BY <1>1, <1>2, <1>4, <2>3 DEF TypeOK, CallbackRecords, Foreign
  <2>5. SpentInv'
    BY <2>1, <2>3, <2>4, SpentKept DEF TypeOK, CallbackRecords, Foreign
  <2>6. l \in disturbed \/ GaveUp(c, l)'
    <3>1. code = None \/ code.login # l \/ code \in spent
      BY <1>1, <1>4
    <3>2. CASE code \in spent /\ code.login = l /\ l \notin disturbed
      <4>1. PICK d \in Callbacks :
              \/ Foreign(d, code)
              \/ callback[d].pc \in {"userinfo", "signed"} /\ callback[d].code = code
        BY <3>2 DEF SpentInv
      <4>2. Foreign(d, code)
        <5>1. callback[d].state # l \/ Foreign(d, code)
          BY <3>2, <4>1 DEF HoldersInv, Held
        <5> QED BY <3>2, <4>1, <5>1 DEF Foreign
      <4>3. Foreign(d, code)'
        BY <2>1, <4>2 DEF Foreign, Onward
      <4> QED BY <2>3, <4>3 DEF GaveUp, TypeOK, CallbackRecords, Foreign
    <3> QED BY <2>3, <3>1, <3>2 DEF GaveUp, TypeOK, CallbackRecords
  <2>7. AskedInv'
    BY <2>1, <2>3, <2>6, AskedKept, SMTT(30) DEF TypeOK, CallbackRecords, Held, GaveUp, Foreign
  <2> QED BY <1>a, <2>1, <2>2, <2>5, <2>7
<1> QED BY <1>3, <1>4

LEMMA ProviderFailsStep ==
  ASSUME IInv, NEW c \in Callbacks, ProviderFails(c)
  PROVE  IInv'
<1> DEFINE l == callback[c].state
           code == callback[c].code
<1> USE DEF IInv, ProviderFails, Fault, config
<1>1. l \in Logins /\ code \in codes \cup {None}
  BY DEF CallbacksInv
<1>2. spent' \subseteq codes' /\ spent' \ spent \subseteq {code} \ {None}
  BY <1>1 DEF TypeOK
<1>3. /\ callback' \in [Callbacks -> CallbackRecords]
      /\ CallbacksInv' /\ HoldersInv' /\ ConsentInv' /\ TokensInv'
      /\ Onward
  <2>1. verifier' \in [Logins -> Nat] /\ \A k \in Logins : verifier'[k] <= verifier[k]
    BY DEF TypeOK
  <2> QED BY <2>1, FailKept
<1>4. TypeOK'
  BY <1>1, <1>2, <1>3, BoundsAssumption DEF TypeOK
<1>5. /\ \A d \in Callbacks \ {c} : callback'[d] = callback[d]
      /\ callback'[c] = [callback[c] EXCEPT !.pc = "failed"]
  BY DEF TypeOK
<1>6. \A k \in spent' \ spent : k.login \in disturbed' \/ Foreign(c, k)'
  BY <1>2, <1>5 DEF TypeOK, CallbackRecords, Foreign
<1>7. SpentInv'
  BY <1>3, <1>5, <1>6, SpentKept DEF TypeOK, CallbackRecords, Foreign
<1>8. AskedInv'
  BY <1>3, <1>5, AskedKept DEF TypeOK, CallbackRecords, Held, GaveUp, Foreign
<1>9. VerifiersInv' /\ SeedsInv'
  BY DEF VerifiersInv, SeedsInv
<1> QED BY <1>3, <1>4, <1>7, <1>8, <1>9

LEMMA SignTokenStep ==
  ASSUME IInv, NEW c \in Callbacks, SignToken(c)
  PROVE  IInv'
<1> DEFINE n == [claims |-> getClaims(callback[c].user),
                 key |-> DeriveKey(genjwtSeed, "JwtSecret"), by |-> c,
                 login |-> callback[c].state, took |-> callback[c].took]
<1> USE DEF IInv, SignToken, config
<1>1. n \in Tokens
  <2>1. callback[c].user \in Users /\ callback[c].state \in Logins
    BY DEF ConsentInv, CallbacksInv
  <2>2. callback[c].took \in Nat /\ now \in Nat /\ now + TokenTtl \in Nat
        /\ genjwtSeed \in Seeds
    BY BoundsAssumption DEF TypeOK, CallbackRecords
  <2> QED BY <2>1, <2>2 DEF Tokens, getClaims
<1>2. tokens' = tokens \cup {n}
  OBVIOUS
<1>3. /\ n.by = c /\ n.login = callback[c].state /\ n.took = callback[c].took
      /\ n.claims.sub = callback[c].user /\ n.claims.exp = now + TokenTtl
      /\ n.key = DeriveKey(genjwtSeed, "JwtSecret")
  BY DEF getClaims
<1> HIDE DEF n
<1>a. n.took + TokenTtl <= n.claims.exp
  BY <1>3, BoundsAssumption DEF TypeOK, CallbackRecords, HoldersInv, Held
<1>b. SeedsInv'
  BY <1>2, <1>3 DEF SeedsInv
<1>4. /\ callback' \in [Callbacks -> CallbackRecords]
      /\ \A d \in Callbacks \ {c} : callback'[d] = callback[d]
      /\ callback'[c] = [callback[c] EXCEPT !.pc = "signed"]
  BY DEF TypeOK, CallbackRecords
<1>5. TypeOK'
  BY <1>1, <1>2, <1>4 DEF TypeOK
<1>6. CallbacksInv' /\ VerifiersInv'
  BY <1>4 DEF TypeOK, CallbackRecords, CallbacksInv, VerifiersInv
<1>7. HoldersInv'
  BY <1>4 DEF TypeOK, CallbackRecords, HoldersInv, Held
<1>8. ConsentInv'
  BY <1>4 DEF TypeOK, CallbackRecords, ConsentInv
<1>9. TokensInv'
  <2>1. \A t \in tokens : t.by \in Callbacks \ {c} /\ callback'[t.by] = callback[t.by]
    BY <1>4 DEF TypeOK, TokensInv, Tokens
  <2>2. callback'[c].pc = "signed" /\ callback'[c].state = n.login
        /\ callback'[c].user = n.claims.sub /\ callback'[c].took = n.took
    BY <1>3, <1>4 DEF TypeOK, CallbackRecords
  <2>3. \A t1, t2 \in tokens' : t1.by = t2.by => t1 = t2
    BY <1>2, <1>3, <2>1 DEF TokensInv
  <2>4. \A d \in Callbacks : callback'[d].pc = "signed" => \E t \in tokens' : t.by = d
    BY <1>2, <1>3, <1>4 DEF TokensInv
  <2> QED BY <1>2, <1>3, <1>a, <2>1, <2>2, <2>3, <2>4 DEF TokensInv
<1>10. Onward
  BY <1>4 DEF TypeOK, CallbackRecords, Onward
<1>11. SpentInv' /\ AskedInv'
  BY <1>4, <1>10, SpentKept, AskedKept
  DEF TypeOK, CallbackRecords, Held, GaveUp, Foreign
<1> QED BY <1>5, <1>6, <1>7, <1>8, <1>9, <1>11, <1>b

LEMMA RestartGenjwtStep ==
  ASSUME IInv, RestartGenjwt
  PROVE  IInv'
<1> DEFINE busy == {c \in Callbacks :
                      callback[c].pc \in {"getdel", "exchange", "userinfo"}}
<1> USE DEF IInv, RestartGenjwt, Fault, config
<1>1. /\ login' \in [Logins -> LoginRecords]
      /\ \A l \in Logins : /\ login[l].pc = "offered" <=> login'[l].pc = "offered"
                           /\ login'[l].at = login[l].at
  BY SMTT(30) DEF TypeOK, LoginRecords
<1>2. /\ callback' \in [Callbacks -> CallbackRecords]
      /\ \A c \in Callbacks :
           /\ c \in busy => callback'[c] = [callback[c] EXCEPT !.pc = "failed"]
           /\ c \notin busy => callback'[c] = callback[c]
      /\ disturbed' = disturbed \cup {callback[c].state : c \in busy}
  BY SMTT(30) DEF TypeOK, CallbackRecords
<1>3. disturbed' \subseteq Logins
  BY <1>2 DEF TypeOK, CallbacksInv
<1>4. TypeOK'
  BY <1>1, <1>2, <1>3, BoundsAssumption DEF TypeOK
<1>5. CallbacksInv'
  BY <1>1, <1>2 DEF TypeOK, CallbackRecords, CallbacksInv
<1>a. VerifiersInv'
  BY <1>1, <1>2 DEF VerifiersInv
<1>b. SeedsInv'
  BY DEF SeedsInv
<1>6. HoldersInv'
  BY <1>1, <1>2 DEF TypeOK, CallbackRecords, CallbacksInv, HoldersInv, Held
<1>7. ConsentInv'
  BY <1>2 DEF TypeOK, CallbackRecords, ConsentInv
<1>8. TokensInv'
  BY <1>2 DEF TypeOK, CallbackRecords, TokensInv, Tokens
<1>9. Onward
  BY <1>2 DEF TypeOK, CallbackRecords, Onward
<1>10. SpentInv'
  BY <1>2, <1>9, SpentKept DEF TypeOK, CallbackRecords, Foreign
<1>11. AskedInv'
  BY <1>2, <1>9, AskedKept DEF TypeOK, CallbackRecords, Held, GaveUp, Foreign
<1> QED BY <1>4, <1>5, <1>6, <1>7, <1>8, <1>10, <1>11, <1>a, <1>b

\* Steps that touch neither logins nor callbacks, and bring no verifier.
LEMMA QuietStep ==
  ASSUME IInv, RestartPkv \/ RotateSeed \/ RedisLoss \/ Tick \/ UNCHANGED vars
  PROVE  IInv'
<1> USE DEF IInv, RestartPkv, RotateSeed, RedisLoss, Tick, Fault, config, vars
<1>1. UNCHANGED <<isTest, login, codes, spent, callback, asked, tokens>>
  OBVIOUS
<1>2. /\ verifier' \in [Logins -> Nat] /\ \A l \in Logins : verifier'[l] <= verifier[l]
      /\ now \in Nat /\ now' \in Nat /\ now <= now'
      /\ disturbed \subseteq disturbed'
  BY DEF TypeOK
<1>3. TypeOK'
  <2>1. rotated' \in BOOLEAN
    BY Zenon DEF TypeOK
  <2>2. disturbed' \subseteq Logins /\ faults' \in 0 .. MaxFaults
        /\ {envSeed', genjwtSeed', pkvSeed'} \subseteq Seeds
    BY BoundsAssumption DEF TypeOK
  <2> QED BY <1>1, <1>2, <2>1, <2>2 DEF TypeOK
<1>4. VerifiersInv'
  <2>1. CASE RedisLoss
    <3>1. \A l \in Logins : login[l].pc = "offered" =>
            /\ verifier'[l] = 0
            /\ l \in asked' \cup disturbed' \/ login[l].at + VerifierTtl <= now'
      BY <2>1, <1>2, BoundsAssumption DEF TypeOK, LoginRecords, VerifiersInv
    <3> QED BY <1>1, <1>2, <3>1, VerifierKept DEF TypeOK
  <2>2. CASE ~RedisLoss
    <3>1. verifier' = verifier
      BY <2>2
    <3> QED BY <1>1, <1>2, <3>1, VerifierKept DEF TypeOK
  <2> QED BY <2>1, <2>2
<1>5. SeedsInv'
  BY <1>1 DEF SeedsInv, TypeOK
<1> HIDE DEF RestartPkv, RotateSeed, RedisLoss, Tick, Fault
<1>6. CallbacksInv' /\ ConsentInv' /\ TokensInv'
  BY <1>1 DEF CallbacksInv, ConsentInv, TokensInv
<1>7. HoldersInv'
  BY <1>1, <1>2 DEF TypeOK, CallbackRecords, CallbacksInv, HoldersInv, Held
<1>8. SpentInv' /\ AskedInv'
  BY <1>1, <1>2 DEF SpentInv, AskedInv, GaveUp, Foreign
<1> QED BY <1>3, <1>4, <1>5, <1>6, <1>7, <1>8

-----------------------------------------------------------------------------

LEMMA InitInv == Init => IInv
<1> SUFFICES ASSUME Init PROVE IInv
  OBVIOUS
<1>1. NewLogin \in LoginRecords /\ NewCallback \in CallbackRecords
  BY BoundsAssumption DEF NewLogin, LoginRecords, NewCallback, CallbackRecords
<1>2. TypeOK
  <2>1. rotated \in BOOLEAN /\ isTest \in BOOLEAN
    BY Zenon DEF Init
  <2> QED BY <1>1, <2>1, BoundsAssumption DEF Init, TypeOK
<1>3. \A c \in Callbacks : callback[c].pc = "idle"
  BY DEF Init, NewCallback
<1>4. \A l \in Logins : login[l].pc = "new"
  BY DEF Init, NewLogin
<1> QED BY <1>2, <1>3, <1>4
        DEF Init, IInv, CallbacksInv, VerifiersInv, HoldersInv, Held, ConsentInv,
            TokensInv, SeedsInv, SpentInv, AskedInv

\* Every step of genjwt, the provider, Redis, pkv and the clock keeps the
\* inductive invariant.
LEMMA NextInv ==
  ASSUME IInv, [Next]_vars
  PROVE  IInv'
<1>1. ASSUME NEW l \in Logins,
             \/ HandleLogin(l) \/ SaveVerifier(l)
             \/ \E applied \in BOOLEAN : SaveLost(l, applied)
             \/ \E u \in Users : Authorize(l, u)
             \/ \E c \in Callbacks, code \in codes \cup {None} : HandleCallback(c, l, code)
      PROVE  IInv'
  BY <1>1, HandleLoginStep, SaveVerifierStep, SaveLostStep, AuthorizeStep,
     HandleCallbackStep
<1>2. ASSUME NEW c \in Callbacks,
             \/ GetDel(c) \/ Exchange(c) \/ ProviderFails(c) \/ SignToken(c)
             \/ \E applied \in BOOLEAN : GetDelLost(c, applied)
      PROVE  IInv'
  BY <1>2, GetDelStep, ExchangeStep, ProviderFailsStep, SignTokenStep, GetDelLostStep
<1>3. CASE RestartGenjwt
  BY <1>3, RestartGenjwtStep
<1>4. CASE RestartPkv \/ RotateSeed \/ RedisLoss \/ Tick \/ UNCHANGED vars
  BY <1>4, QuietStep
<1> QED BY <1>1, <1>2, <1>3, <1>4 DEF Next

THEOREM Inductive == Spec => []IInv
BY InitInv, NextInv, PTL DEF Spec

\* genjwt's variables keep their types; no Redis command of handleLogin or
\* handleCallback is retried more often than go-redis allows.
THEOREM TypeCorrect == Spec => []TypeOK
<1>1. IInv => TypeOK
  BY DEF IInv
<1> QED BY <1>1, Inductive, PTL

\* However many callbacks race for a login, handleCallback signs one token for
\* it at most: only one of them is handed the verifier.
THEOREM OneToken == Spec => []OneTokenPerLogin
<1>1. IInv => OneTokenPerLogin
  <2> SUFFICES ASSUME IInv, NEW t1 \in tokens, NEW t2 \in tokens,
                      t1.login = t2.login
               PROVE  t1 = t2
    BY DEF OneTokenPerLogin
  <2>1. t1.by \in Callbacks /\ t2.by \in Callbacks
    BY DEF IInv, TypeOK, Tokens
  <2>2. t1.by = t2.by
    BY <2>1 DEF IInv, TokensInv, HoldersInv, Held
  <2> QED BY <2>2 DEF IInv, TokensInv
<1> QED BY <1>1, Inductive, PTL

\* The subject of a token consented, at the provider, in the login the token
\* was signed for.
THEOREM Consented == Spec => []TokensAreConsented
<1>1. IInv => TokensAreConsented
  BY DEF IInv, TypeOK, Tokens, TokensInv, ConsentInv, TokensAreConsented
<1> QED BY <1>1, Inductive, PTL

\* A token is signed only for a login whose callback took the verifier within
\* its time to live.
THEOREM InTime == Spec => []LoginsInTime
<1>1. IInv => LoginsInTime
  BY DEF IInv, TypeOK, Tokens, TokensInv, HoldersInv, Held, LoginsInTime
<1> QED BY <1>1, Inductive, PTL

\* A login whose callback came in time, without a fault and with its own codes,
\* ends with a token, whatever processes restarted; pkv takes the token for its
\* day unless the seed was changed.
THEOREM Completes == Spec => []LoginCompletes
<1>1. IInv => LoginCompletes
  <2> SUFFICES ASSUME IInv, NEW l \in asked \ disturbed,
                 \A c \in Callbacks :
                   /\ callback[c].state = l =>
                        callback[c].code \in codes /\ callback[c].pc \in {"signed", "failed"}
                   /\ callback[c].code \in codes =>
                        (callback[c].state = l <=> callback[c].code.login = l)
               PROVE  \E t \in tokens :
                        /\ t.login = l
                        /\ ~rotated /\ now < t.took + TokenTtl =>
                             ensureAuthToken(t, t.claims.sub)
    BY DEF LoginCompletes
  <2>1. PICK c \in Callbacks :
          callback[c].state = l /\ (callback[c].pc \in Held \/ GaveUp(c, l))
    BY DEF IInv, AskedInv
  <2>2. callback[c].code \in codes /\ callback[c].code.login = l
    BY <2>1
  <2>3. callback[c].code # None
    BY <2>2, NoCodeAssumption DEF IInv, TypeOK
  <2>4. ~GaveUp(c, l)
    BY <2>1, <2>2, <2>3 DEF GaveUp, Foreign
  <2>5. callback[c].pc = "signed"
    BY <2>1, <2>4 DEF Held
  <2>6. PICK t \in tokens : t.by = c
    BY <2>5 DEF IInv, TokensInv
  <2>7. t.login = l /\ t.took + TokenTtl <= t.claims.exp
    BY <2>1, <2>6 DEF IInv, TokensInv
  <2>8. t.took \in Nat /\ t.claims.exp \in Nat /\ now \in Nat
    BY <2>6 DEF IInv, TypeOK, Tokens
  <2>9. ~rotated => t.key = DeriveKey(pkvSeed, "JwtSecret")
    BY <2>6 DEF IInv, SeedsInv
  <2> QED
    BY <2>6, <2>7, <2>8, <2>9, BoundsAssumption DEF ensureAuthToken, VerifyAndParseJwt
<1> QED BY <1>1, Inductive, PTL
=============================================================================
