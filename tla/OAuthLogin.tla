----------------------------- MODULE OAuthLogin -----------------------------
(***************************************************************************)
(* The login service cmd/genjwt between a browser, an OpenID provider,      *)
(* Redis and pkv.  A login stores a PKCE verifier under its state and sends *)
(* the browser to the provider; the provider sends it back to the callback, *)
(* which takes the verifier, exchanges the code, asks who the user is and   *)
(* signs a token.  pkv accepts the token for the streams of its subject     *)
(* when both processes derived the same key from the seed in .env.          *)
(* State and verifier are fresh for every login, so a login stands for      *)
(* both; the provider is external, Google or, under IS_TEST, cmd/mock_op.   *)
(***************************************************************************)
EXTENDS Naturals, FiniteSets

CONSTANTS
  Users,        \* the provider's users, which own streams
  MockUser,     \* the user every mock_op login is
  Logins,       \* logins that may be begun
  Callbacks,    \* callback requests that may be made
  Seeds,        \* values of SECRET_SEED
  None,         \* no code, no user
  VerifierTtl,  \* the 300 seconds of a verifier
  TokenTtl,     \* the 24 hours of a token
  MaxTime,      \* bound on the clock
  MaxRetries,   \* retries of a Redis command
  MaxFaults     \* bound on faults, restarts and rotations

ASSUME UsersAssumption == MockUser \in Users /\ None \notin Users

ASSUME BoundsAssumption ==
  /\ VerifierTtl \in Nat \ {0}
  /\ TokenTtl \in Nat \ {0}
  /\ MaxTime \in Nat
  /\ MaxRetries \in Nat
  /\ MaxFaults \in Nat

VARIABLES
  isTest,    \* genjwt's IS_TEST
  now,       \* the clock
  login,     \* each login: how far handleLogin is, and when it ended
  verifier,  \* Redis: when verifier/<state> expires, 0 once it is gone
  codes,     \* the authorization codes the provider issued
  spent,     \* the codes it accepts no more
  callback,  \* each callback request
  asked,     \* history: the logins whose verifier was asked for in time
  disturbed, \* history: the logins whose callback or verifier met a fault
  tokens,    \* the tokens signed
  envSeed,   \* SECRET_SEED in .env
  rotated,   \* history: whether the operator ever changed it
  genjwtSeed, pkvSeed,  \* the seed each process loaded when it started
  faults

vars == <<isTest, now, login, verifier, codes, spent, callback, asked,
          disturbed, tokens, envSeed, rotated, genjwtSeed, pkvSeed, faults>>

config == <<isTest, envSeed, rotated, genjwtSeed, pkvSeed>>

\* A key is what HKDF makes of the seed and the purpose it is for.
DeriveKey(seed, info) == <<seed, info>>

NewLogin == [pc |-> "new", retries |-> 0, at |-> 0]

NewCallback ==
  [pc |-> "idle", state |-> None, code |-> None, user |-> None, retries |-> 0,
   took |-> 0]

Init ==
  /\ isTest \in BOOLEAN
  /\ now = 0
  /\ login = [l \in Logins |-> NewLogin]
  /\ verifier = [l \in Logins |-> 0]
  /\ codes = {} /\ spent = {}
  /\ callback = [c \in Callbacks |-> NewCallback]
  /\ asked = {} /\ disturbed = {}
  /\ tokens = {}
  /\ envSeed \in Seeds /\ genjwtSeed = envSeed /\ pkvSeed = envSeed
  /\ rotated = FALSE
  /\ faults = 0

Fault == faults < MaxFaults /\ faults' = faults + 1

-----------------------------------------------------------------------------

\* handleLogin draws a state and a verifier, and stores the verifier.
HandleLogin(l) ==
  /\ login[l].pc = "new"
  /\ login' = [login EXCEPT ![l].pc = "saving"]
  /\ UNCHANGED <<now, verifier, codes, spent, callback, asked, disturbed,
                 tokens, config, faults>>

\* Mutant of SaveVerifier: no time to live.
SaveVerifierForever(l) ==
  /\ login[l].pc = "saving"
  /\ verifier' = [verifier EXCEPT ![l] = MaxTime + VerifierTtl]
  /\ login' = [login EXCEPT ![l].pc = "offered", ![l].at = now]
  /\ UNCHANGED <<now, codes, spent, callback, asked, disturbed, tokens, config,
                 faults>>

\* The SET is done, and the browser is redirected to the provider.
SaveVerifier(l) ==
  /\ login[l].pc = "saving"
  /\ verifier' = [verifier EXCEPT ![l] = now + VerifierTtl]
  /\ login' = [login EXCEPT ![l].pc = "offered", ![l].at = now]
  /\ UNCHANGED <<now, codes, spent, callback, asked, disturbed, tokens, config, faults>>

\* Mutant of SaveLost: the command is tried until it is answered.
SaveLostForever(l, applied) ==
  /\ login[l].pc = "saving"
  /\ Fault
  /\ verifier' = [verifier EXCEPT ![l] = IF applied THEN now + VerifierTtl ELSE @]
  /\ login' = [login EXCEPT ![l].retries = @ + 1]
  /\ UNCHANGED <<now, codes, spent, callback, asked, disturbed, tokens, config>>

\* The SET, or its reply, is lost and go-redis tries again.  When it gives up
\* the browser is told so: handleLogin goes on to the redirect, but the answer
\* is written by then, and nobody learns the state.
SaveLost(l, applied) ==
  /\ login[l].pc = "saving"
  /\ Fault
  /\ verifier' = [verifier EXCEPT ![l] = IF applied THEN now + VerifierTtl ELSE @]
  /\ login' = IF login[l].retries < MaxRetries
              THEN [login EXCEPT ![l].retries = @ + 1]
              ELSE [login EXCEPT ![l].pc = "failed"]
  /\ UNCHANGED <<now, codes, spent, callback, asked, disturbed, tokens, config>>

\* A user consents at the provider, which issues a code bound to the login's
\* challenge; mock_op asks nobody.
Authorize(l, u) ==
  /\ login[l].pc = "offered"
  /\ isTest => u = MockUser
  /\ codes' = codes \cup {[login |-> l, user |-> u]}
  /\ UNCHANGED <<now, login, verifier, spent, callback, asked, disturbed,
                 tokens, config, faults>>

\* A browser calls back with the state and the code of its login, or again
\* with those of another one, or with no code as the user declined.
HandleCallback(c, l, code) ==
  /\ callback[c].pc = "idle"
  /\ login[l].pc = "offered"
  /\ callback' = [callback EXCEPT ![c].pc = "getdel", ![c].state = l,
                                  ![c].code = code]
  /\ UNCHANGED <<now, login, verifier, codes, spent, asked, disturbed, tokens,
                 config, faults>>

\* The logins whose verifier was asked for within its time to live.
Ask(l) == IF now < login[l].at + VerifierTtl THEN asked \cup {l} ELSE asked

\* Mutant of GetDel: a GET, which leaves the verifier to its expiry.
GetOnly(c) ==
  LET l == callback[c].state
  IN  /\ callback[c].pc = "getdel"
      /\ asked' = Ask(l)
      /\ callback' = IF now < verifier[l]
                     THEN [callback EXCEPT ![c].pc = "exchange", ![c].took = now]
                     ELSE [callback EXCEPT ![c].pc = "failed"]
      /\ UNCHANGED <<now, login, verifier, codes, spent, disturbed, tokens,
                     config, faults>>

\* The callback takes the verifier, or finds none.
GetDel(c) ==
  LET l == callback[c].state
  IN  /\ callback[c].pc = "getdel"
      /\ verifier' = [verifier EXCEPT ![l] = 0]
      /\ asked' = Ask(l)
      /\ callback' = IF now < verifier[l]
                     THEN [callback EXCEPT ![c].pc = "exchange", ![c].took = now]
                     ELSE [callback EXCEPT ![c].pc = "failed"]
      /\ UNCHANGED <<now, login, codes, spent, disturbed, tokens, config, faults>>

\* The GETDEL, or its reply and the verifier with it, is lost.
GetDelLost(c, applied) ==
  LET l == callback[c].state
  IN  /\ callback[c].pc = "getdel"
      /\ Fault
      /\ verifier' = [verifier EXCEPT ![l] = IF applied THEN 0 ELSE @]
      /\ asked' = IF applied THEN Ask(l) ELSE asked
      /\ disturbed' = disturbed \cup {l}
      /\ callback' = IF callback[c].retries < MaxRetries
                     THEN [callback EXCEPT ![c].retries = @ + 1]
                     ELSE [callback EXCEPT ![c].pc = "failed"]
      /\ UNCHANGED <<now, login, codes, spent, tokens, config>>

\* Mutant of Exchange: the code carries no challenge, so any verifier will do.
ExchangeUnbound(c) ==
  LET code == callback[c].code
  IN  /\ callback[c].pc = "exchange"
      /\ isTest \/ code \in codes \ spent
      /\ spent' = spent \cup ({code} \ {None})
      /\ callback' = [callback EXCEPT
                        ![c].pc = "userinfo",
                        ![c].user = IF isTest THEN MockUser ELSE code.user]
      /\ UNCHANGED <<now, login, verifier, codes, asked, disturbed, tokens,
                     config, faults>>

\* The provider takes a code it issued once, with the verifier of the login it
\* was issued for; one that comes with another verifier may be lost by that.
\* mock_op takes anything.
Exchange(c) ==
  LET code == callback[c].code
      good == \/ isTest
              \/ /\ code \in codes \ spent
                 /\ code.login = callback[c].state
  IN  /\ callback[c].pc = "exchange"
      /\ \/ /\ good
            /\ spent' = spent \cup ({code} \ {None})
            /\ callback' = [callback EXCEPT
                              ![c].pc = "userinfo",
                              ![c].user = IF isTest THEN MockUser ELSE code.user]
         \/ /\ ~good
            /\ spent' \in {spent, spent \cup ({code} \ {None})}
            /\ callback' = [callback EXCEPT ![c].pc = "failed"]
      /\ UNCHANGED <<now, login, verifier, codes, asked, disturbed, tokens,
                     config, faults>>

\* The exchange or the request for the user's address fails.
ProviderFails(c) ==
  /\ callback[c].pc \in {"exchange", "userinfo"}
  /\ Fault
  /\ spent' \in {spent, spent \cup ({callback[c].code} \ {None})}
  /\ disturbed' = disturbed \cup {callback[c].state}
  /\ callback' = [callback EXCEPT ![c].pc = "failed"]
  /\ UNCHANGED <<now, login, verifier, codes, asked, tokens, config>>

\* The claims of the token: the user's address, and an end a day ahead.
getClaims(subject) == [sub |-> subject, exp |-> now + TokenTtl]

\* The user's address is known; genjwt signs the token and answers with it.
\* by, login and took tell where the token came from.
SignToken(c) ==
  /\ callback[c].pc = "userinfo"
  /\ tokens' = tokens \cup
       {[claims |-> getClaims(callback[c].user),
         key |-> DeriveKey(genjwtSeed, "JwtSecret"), by |-> c,
         login |-> callback[c].state, took |-> callback[c].took]}
  /\ callback' = [callback EXCEPT ![c].pc = "signed"]
  /\ UNCHANGED <<now, login, verifier, codes, spent, asked, disturbed, config, faults>>

-----------------------------------------------------------------------------

\* Mutant of RestartGenjwt: the verifiers are kept in the process.
RestartGenjwtForgets ==
  /\ Fault
  /\ genjwtSeed' = envSeed
  /\ verifier' = [l \in Logins |-> 0]
  /\ login' = [l \in Logins |-> IF login[l].pc = "saving"
                                THEN [login[l] EXCEPT !.pc = "failed"]
                                ELSE login[l]]
  /\ LET busy == {c \in Callbacks :
                    callback[c].pc \in {"getdel", "exchange", "userinfo"}}
     IN  /\ callback' = [c \in Callbacks |-> IF c \in busy
                                             THEN [callback[c] EXCEPT !.pc = "failed"]
                                             ELSE callback[c]]
         /\ disturbed' = disturbed \cup {callback[c].state : c \in busy}
  /\ UNCHANGED <<isTest, now, codes, spent, asked, tokens, envSeed,
                 rotated, pkvSeed>>

\* genjwt ends and starts again, with the seed of the day.  What it was doing
\* is lost; what it stored in Redis is not.
RestartGenjwt ==
  /\ Fault
  /\ genjwtSeed' = envSeed
  /\ login' = [l \in Logins |-> IF login[l].pc = "saving"
                                THEN [login[l] EXCEPT !.pc = "failed"]
                                ELSE login[l]]
  /\ LET busy == {c \in Callbacks :
                    callback[c].pc \in {"getdel", "exchange", "userinfo"}}
     IN  /\ callback' = [c \in Callbacks |-> IF c \in busy
                                             THEN [callback[c] EXCEPT !.pc = "failed"]
                                             ELSE callback[c]]
         /\ disturbed' = disturbed \cup {callback[c].state : c \in busy}
  /\ UNCHANGED <<isTest, now, verifier, codes, spent, asked, tokens, envSeed,
                 rotated, pkvSeed>>

RestartPkv ==
  /\ Fault
  /\ pkvSeed' = envSeed
  /\ UNCHANGED <<isTest, now, login, verifier, codes, spent, callback, asked,
                 disturbed, tokens, envSeed, rotated, genjwtSeed>>

\* The operator changes the seed; a process sees it when it starts.
RotateSeed ==
  /\ Fault
  /\ \E s \in Seeds \ {envSeed} : envSeed' = s
  /\ rotated' = TRUE
  /\ UNCHANGED <<isTest, now, login, verifier, codes, spent, callback, asked,
                 disturbed, tokens, genjwtSeed, pkvSeed>>

\* Redis starts without its data.
RedisLoss ==
  /\ Fault
  /\ verifier' = [l \in Logins |-> 0]
  /\ disturbed' = disturbed \cup {l \in Logins : now < verifier[l]}
  /\ UNCHANGED <<now, login, codes, spent, callback, asked, tokens, config>>

\* pkv accepts a token under its own key that has not ended.
VerifyAndParseJwt(t) ==
  /\ t.key = DeriveKey(pkvSeed, "JwtSecret")
  /\ now < t.claims.exp

ensureAuthToken(t, expectedSubject) ==
  /\ VerifyAndParseJwt(t)
  /\ t.claims.sub = expectedSubject

Tick ==
  /\ now < MaxTime
  /\ now' = now + 1
  /\ UNCHANGED <<login, verifier, codes, spent, callback, asked, disturbed,
                 tokens, config, faults>>

Next ==
  \/ \E l \in Logins :
       \/ HandleLogin(l) \/ SaveVerifier(l)
       \/ \E applied \in BOOLEAN : SaveLost(l, applied)
       \/ \E u \in Users : Authorize(l, u)
       \/ \E c \in Callbacks, code \in codes \cup {None} : HandleCallback(c, l, code)
  \/ \E c \in Callbacks :
       \/ GetDel(c) \/ Exchange(c) \/ ProviderFails(c) \/ SignToken(c)
       \/ \E applied \in BOOLEAN : GetDelLost(c, applied)
  \/ RestartGenjwt \/ RestartPkv \/ RotateSeed \/ RedisLoss \/ Tick

Spec == Init /\ [][Next]_vars

-----------------------------------------------------------------------------

Codes == [login: Logins, user: Users]

\* A callback without a code is not taken for one with a code.
ASSUME NoCodeAssumption == None \notin Codes

LoginRecords ==
  [pc: {"new", "saving", "offered", "failed"}, retries: 0 .. MaxRetries, at: Nat]

CallbackRecords ==
  [pc: {"idle", "getdel", "exchange", "userinfo", "signed", "failed"},
   state: Logins \cup {None}, code: Codes \cup {None},
   user: Users \cup {None}, retries: 0 .. MaxRetries, took: Nat]

Tokens ==
  [claims: [sub: Users, exp: Nat], key: {DeriveKey(s, "JwtSecret") : s \in Seeds},
   by: Callbacks, login: Logins, took: Nat]

\* Every variable holds a value of its type; in particular no Redis command
\* of genjwt is retried more often than go-redis allows.
TypeOK ==
  /\ isTest \in BOOLEAN
  /\ now \in Nat
  /\ login \in [Logins -> LoginRecords]
  /\ verifier \in [Logins -> Nat]
  /\ codes \subseteq Codes /\ spent \subseteq codes
  /\ callback \in [Callbacks -> CallbackRecords]
  /\ asked \subseteq Logins /\ disturbed \subseteq Logins
  /\ tokens \subseteq Tokens
  /\ rotated \in BOOLEAN /\ {envSeed, genjwtSeed, pkvSeed} \subseteq Seeds
  /\ faults \in 0 .. MaxFaults

\* However often a callback is repeated, reloaded or raced, and whatever the
\* provider accepts, handleCallback signs at most one token for a login: the
\* GETDEL hands the verifier to one callback only.
OneTokenPerLogin ==
  \A t1, t2 \in tokens : t1.login = t2.login => t1 = t2

\* genjwt signs a token for a user only in the login at whose provider page
\* that user consented: a code of another login never passes the exchange.
\* (mock_op asks nobody.)
TokensAreConsented ==
  ~isTest => \A t \in tokens : [login |-> t.login, user |-> t.claims.sub] \in codes

\* A token comes from a login whose callback arrived within the verifier's
\* time to live, counted from when handleLogin answered, retries included.
LoginsInTime ==
  \A t \in tokens : t.took < login[t.login].at + VerifierTtl

\* A user who comes back in time gets a token that works: when a callback asks
\* for the verifier within its time to live, the codes of the login are used in
\* it alone, Redis keeps its data and the callbacks meet no fault, then one of
\* them answers with a token once they have ended, whatever restarts there were
\* since handleLogin; and while the seed stays the same pkv takes that token
\* for its day, whichever of the two processes restarts.
LoginCompletes ==
  \A l \in asked \ disturbed :
    ( \A c \in Callbacks :
        LET cb == callback[c] IN
        /\ cb.state = l => cb.code \in codes /\ cb.pc \in {"signed", "failed"}
        /\ cb.code \in codes => (cb.state = l <=> cb.code.login = l) )
    => \E t \in tokens :
         /\ t.login = l
         /\ ~rotated /\ now < t.took + TokenTtl => ensureAuthToken(t, t.claims.sub)

-----------------------------------------------------------------------------
(* The inductive invariant behind these: who holds what of a login.        *)

\* The callbacks that were handed a verifier and have not failed.
Held == {"exchange", "userinfo", "signed"}

\* A callback that runs is for a login the browser was sent away with.
CallbacksInv ==
  \A c \in Callbacks : callback[c].pc # "idle" =>
    /\ callback[c].state \in Logins
    /\ login[callback[c].state].pc = "offered"
    /\ callback[c].code \in codes \cup {None}

\* A verifier on offer is there until its end, unless it was asked for or lost.
VerifiersInv ==
  \A l \in Logins : login[l].pc = "offered" =>
    \/ verifier[l] = login[l].at + VerifierTtl
    \/ /\ verifier[l] = 0
       /\ l \in asked \cup disturbed \/ login[l].at + VerifierTtl <= now

\* A verifier is in Redis or with one callback, which took it in time.
HoldersInv ==
  /\ \A c \in Callbacks : callback[c].pc \in Held =>
       /\ verifier[callback[c].state] = 0
       /\ callback[c].took < login[callback[c].state].at + VerifierTtl
       /\ callback[c].took <= now
  /\ \A c, d \in Callbacks :
       /\ callback[c].pc \in Held /\ callback[d].pc \in Held
       /\ callback[c].state = callback[d].state
       => c = d

\* The user of a callback consented in the callback's login.
ConsentInv ==
  \A c \in Callbacks : callback[c].pc \in {"userinfo", "signed"} =>
    /\ callback[c].user \in Users
    /\ ~isTest => [login |-> callback[c].state, user |-> callback[c].user] \in codes

\* Tokens and the callbacks that signed are one to one.
TokensInv ==
  /\ \A t \in tokens :
       /\ callback[t.by].pc = "signed"
       /\ callback[t.by].state = t.login
       /\ callback[t.by].user = t.claims.sub
       /\ callback[t.by].took = t.took
       /\ t.took + TokenTtl <= t.claims.exp
  /\ \A t1, t2 \in tokens : t1.by = t2.by => t1 = t2
  /\ \A c \in Callbacks : callback[c].pc = "signed" => \E t \in tokens : t.by = c

\* Until the seed is changed, all keys are made from the one there is.
SeedsInv ==
  ~rotated =>
    /\ genjwtSeed = envSeed /\ pkvSeed = envSeed
    /\ \A t \in tokens : t.key = DeriveKey(envSeed, "JwtSecret")

\* A callback that came with code k in another login than the code's.
Foreign(c, k) ==
  /\ callback[c].pc # "idle" /\ callback[c].code = k
  /\ callback[c].state # k.login

\* A code was spent in its login, by a fault in its login, or by a callback of
\* another login.
SpentInv ==
  \A k \in spent :
    \/ k.login \in disturbed
    \/ \E c \in Callbacks :
         \/ Foreign(c, k)
         \/ callback[c].pc \in {"userinfo", "signed"} /\ callback[c].code = k

\* A callback that failed without the login's code, or when another login had
\* spent it.
GaveUp(c, l) ==
  /\ callback[c].pc = "failed"
  /\ \/ callback[c].code = None
     \/ callback[c].code.login # l
     \/ \E d \in Callbacks : Foreign(d, callback[c].code)

\* A verifier that was asked for without a fault is with a callback, or was
\* given up by one.
AskedInv ==
  \A l \in asked \ disturbed : \E c \in Callbacks :
    callback[c].state = l /\ (callback[c].pc \in Held \/ GaveUp(c, l))

IInv ==
  /\ TypeOK
  /\ CallbacksInv
  /\ VerifiersInv
  /\ HoldersInv
  /\ ConsentInv
  /\ TokensInv
  /\ SeedsInv
  /\ SpentInv
  /\ AskedInv
=============================================================================
