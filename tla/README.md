# TLA+ models of pkv

pkv is a key-value server on Redis. Clients pay for calls with quota bought from a payment
exchange, store content-addressed values, append to streams, and find provider instances in an
index. This directory models the four parts of the server that keep state, the way of a call
through the gateway and the interceptors, the login service and the example mail client, checks
them with TLC on small instances, and proves their safety properties for all instances with TLAPS.

All state of the server that survives a call is in Redis. A handler is a sequence of Redis commands
without a transaction around it, and each request runs in its own goroutine. So the step of most
models is one Redis command (and the computation up to the next), and between two steps of a call
anything else may happen: other calls, the clock, expiry of keys, a lost reply, the end of the
process.

## Inventory

| Part | Code | State | Operations | What is hard |
|---|---|---|---|---|
| Sessions and charging | `pkg/middleware/{session,interceptor,pricing,auth}.go`, `internal/api/login.go` | `session:<id>` counters in Redis, the salt drawn at start-up, JWTs in clients' hands | `CreateSession`, the session interceptor around every other call | `DECRBY` is not idempotent and go-redis repeats commands; restarts change the salt; Redis may come back empty; overdrafts are not rolled back |
| Values | `internal/api/handler.go` | `values/<cid>` with an expiry | `CreateValue`, `GetValue`, `ProlongValue` | `ProlongValue` is a read-modify-write of an expiry over three commands; seconds against milliseconds; 64-bit durations |
| Provider index | `internal/api/virtual_service.go`, `internal/api/index.go` | five kinds of keys, each with its own lifetime | `RegisterInstance`, `SearchCid`, `SearchInstance`, `DelegatedRouting` | eight or more commands per registration, any of which may be the last; searches read while keys expire; cids are stored as sent and looked up in a normal form |
| Streams | `internal/api/stream_value_handler.go`, `pkg/middleware/utils.go` | Redis streams with an expiry | `CreateStreamValue`, `ListStreamValues`, `GetStreamValue` | `XADD` and `EXPIRE` are two commands; trimming against retention; paging over a moving stream; an `XREAD` without a deadline |
| Validation | `pkg/proto/kvstore/v1/kvstore.proto`, the validation interceptor | none | the rules of the fields | patterns are not anchored; comes after the charge |
| Gateway and service entry | `cmd/gateway`, `cmd/pkv`, `pkg/proto/gen/go/kvstore/v1/*` | the chain of interceptors, chosen at start-up | REST to gRPC, dispatch, interceptors, answer | a field may come in path, query and body; either process may end while a call is under way; generated code may be older than its source |
| Login service `genjwt` | `cmd/genjwt/genjwt.go`, `internal/api/config.go`, `cmd/mock_op` | PKCE verifiers in Redis for 300 seconds, signing keys derived at start-up | `handleLogin`, `handleCallback` | repeated and crossed callbacks, lost replies to `GETDEL`, restarts, a seed that changes under two processes |
| Email example | `examples/email` | key files of the toy PGP broker, the login file | `write`, `read`, `login` | runs that share files without locks; mails as several calls, any of which may fail |
| Payment exchange | `cmd/mock_prex` | none | issues quota JWTs | only what it issues is modelled |

The parts meet in few places. The interceptor charges a session before validation and before the
handler of values, streams or registrations runs; nothing is refunded afterwards. Handlers share
no keys across parts. Auth tokens that stream readers present come from `genjwt`, which signs with
the same secret as `CreateSession`. The gateway and the email client only call the service. `PROJECT.json` lists the hazards with the line where each one
bites and the properties that cover it.

What makes each part correct:

* charging: no session gets more work than its quota paid for; a quota is credited once (per start
  of the server); nothing raises a balance; every call ends, unless its handler waits in `XREAD`;
* values: a value lives as long as was said, and a prolongation adds what was asked for;
* index: what was acknowledged is found until it may expire, and nothing stays for good;
* streams: what was acknowledged stays for the retention time, nothing stays for good, and a
  reader that follows the page tokens misses nothing;
* gateway and entry: what a handler runs is the valid call its client meant, paid for once, and the
  client learns the truth about it;
* logins: one token per login, for the user who consented, within the verifier's lifetime; and a
  login that is completed in time and meets no fault ends in a token pkv accepts;
* mail: nothing is announced that is not stored, what was announced can be read, and a read shows
  the oldest page of what there is.

## Modules

| Module | What it is |
|---|---|
| `QuotaLedger` | abstract: accounts are granted quota and spend no more than that |
| `Billing` | sessions and charging; implements `QuotaLedger` |
| `BillingProofs` | theorems about `Billing` |
| `ValueStore` | values |
| `ValueProofs` | theorems about `ValueStore` |
| `ServiceIndex` | the provider index |
| `IndexProofs` | theorems about `ServiceIndex` |
| `StreamStore` | streams |
| `StreamProofs` | theorems about `StreamStore` |
| `Gateway` | a call through the REST gateway or directly, through the interceptors to a handler and back |
| `GatewayProofs` | theorems about `Gateway` |
| `OAuthLogin` | the login service, its provider, and the tokens pkv accepts |
| `OAuthLoginProofs` | theorems about `OAuthLogin` |
| `Mail` | the email example |
| `MailProofs` | theorems about `Mail` |
| `MC...` | constants of the small instances |

Definitions carry the names of the code where there is one; the `map` of `PROJECT.json` gives the
lines each stands for. Definitions whose comment begins with "Mutant" are faulty variants of the
definition that follows them and are used by no specification; they show that the properties
notice such a mistake.

### Billing

`live` and `balance` are the session keys; `salt` counts the starts of the server (each draws a
fresh salt, so session ids of different starts differ); `issued` holds the session JWTs clients
have received; `calls` is a record per call slot with the place the call has reached. `credited`,
`credits`, `accepted` and `clean` are history.

* `Login` is `CreateSession` of `login.go` up to the second look at the expiry (`CheckExpiry`), which
  panics where it should answer. `CreditReplied` and `CreditLost` are `SET NX GET` with and without
  a reply.
* `Arrive` is the session interceptor up to the deduction: skipped procedures, verification of
  the JWT, price. `ChargeReplied` and `ChargeLost` are `DECRBY` with and without a reply. `PassOn` is
  validation, `Serve` the handler; `MayBlock` tells where the handler may not return, which is
  `GetStreamValue` alone.
* A lost reply leaves open whether the command was applied; `RetryOrFail` is go-redis, which repeats
  it up to `MaxRetries` times.
* `Restart` ends all calls and changes the salt; `RedisLoss` empties Redis.

JWTs are records of what the code looks at. The wallet of a client holds what the exchange issued,
forgeries and `genjwt` tokens; it holds no session JWT, as only `CreateSession` makes those.

### ValueStore

Times are milliseconds. `expiry` says until when each key is there (the bytes behind a CID never
change, so the model has none), and `calls` are `ProlongValue` calls between `MEMORY USAGE` (`CheckSize`), `TTL` (`ReadTtl`) and `EXPIRE`
(`Expire`); any of them may fail (`Fail`). `TtlReply` rounds to the nearest second as Redis does, and
`ExpireSeconds` cuts the sum to seconds as go-redis does, the wrap-around of a `time.Duration`
included. A missing key is a TTL of -2 and no error. `CreateValue` is one command. CIDs are names, one
for each codec and content; which contents are dag-pb nodes is a constant.

### ServiceIndex

`cidset`, `field`, `detail`, `zexpiry`/`score` and `instance` are the five kinds of keys with their
expiries; `Tick` drops what has expired. `Register` checks the advertisement; then a registration
goes through `SetCids`, `ExpireCids`, `SetDetail`, `ZAddGT`, `ExpireSet`, `SetInstance`, and `HSet` and
`HExpire` for each cid. `CutOff` ends it anywhere. A search begins with `SearchCid` (also
`DelegatedRouting`, which shows less of the same answer) or `SearchInstance`, and goes through
`GetDetail`, `ZRange`, `GetInstance` and `EndService`; `ReadFails` is a command that fails, which the
code treats like an absent key. The limits are those of the code: `ZRANGE` reads one more than the
limit, a service contributes at most the limit, the answer has at most one more.

A cid is the text a client writes. How it decodes and how a CIDv1 is written are constants (`Decode`,
`String`), and `NormalizeCidToV1` is built from them with its errors. `SearchCid` looks up the normal
form, `HSet` writes under the cid as it was sent; the instance has a cid in both versions, one in
another base than its normal form, and one with a codec that is refused.

Merkle roots and hashes are names: a service stands for the root of its cids, its providers send
them in one spelling (`CidsOf`), and an advertisement is valid or not. The `HSCAN` of a search is one
step.

### StreamStore

`stream` holds the ids of a stream's entries, `expiry` its lifetime. `CreateStreamValue` computes
`minID`; `Added` and `AddLost` are `XADD` with and without a reply, where approximate trimming removes
any number of the entries that are too old; `Expire` is `EXPIRE` and the answer; `CutOff` ends a call
anywhere. A reader holds the token of its last page and what it was given. `GetStreamValue` is
answered at once when an entry follows its id; otherwise it is `waiting` in `XREAD BLOCK 0`, which is
what go-redis sends when `Block` is unset, until `XADD` brings such an entry or the connection breaks
(`Abandon`).

Which names validation lets pass and which the handlers can parse are constants. The instances
have one name of each kind: `accounts/did:.../streams/s`, as validation demands; a plain name it
refuses; and a nested one, `accounts/did:.../accounts/bob/streams/s`, which both accept because
neither pattern is anchored. It is the only kind that can be both written and listed.

### Gateway

One call at a time is under way (`call`): calls share no state here, as their effects are the
subject of the other modules. A message is a record of its fields, a field a sequence of strings
and empty when unset, a resource name the sequence of its segments; `"none"` stands for a verb, a
binding or a body that an annotation or a pattern does not have. `Rest` sends the request the
`google.api.http` annotation documents for a message (`HttpRule`, `Documented`), possibly with one
field once more in the query or the body, or with a query or a body that does not parse. `Route`
matches it against the generated patterns and lets the generated function (`request_...`) assemble
the message in the order and with the filters of the code. `Direct` is a connect or gRPC client.
`Invoke` is the generated gRPC client and pkv's dispatch; `Session`, `Validation` and `Handle` are the
chain `main` built; `Reply` goes back. `MayBlock` is a call of `GetStreamValue` in its handler. `Stop`/`Start` and `GatewayStop`/`GatewayStart` end and start the
processes at any moment, pkv in either configuration of `DISABLE_AUTH`. Validation has the rule of
every field, with values on both sides of it; JSON and the contents of an advertisement are not
taken apart.

### OAuthLogin

`login` and `callback` are the requests `genjwt` serves, `verifier` the expiry of `verifier/<state>` in
Redis, `codes` and `spent` what the provider remembers, `tokens` what was signed. `asked` (logins whose
verifier was asked for in time), `disturbed` (logins a fault touched) and `rotated` are history. State and verifier are
drawn together, so the login stands for both. `SaveVerifier`/`SaveLost` are the `SET` with and without
a reply, `GetDel`/`GetDelLost` the `GETDEL`, `Exchange` the exchange of the code under PKCE,
`ProviderFails` an error of it or of the request for the address, `SignToken` the rest. The provider is
external: a code is good once and with the verifier of its login; `mock_op` takes anything and
always answers with one user. `RotateSeed` changes `.env`; `RestartGenjwt` and `RestartPkv` load it.
`ensureAuthToken` is what pkv asks of a token when a stream is read.

### Mail

`file` is the key file of each user, `token` the login file, `contents` and `stream` what the service
stored for each messager, `proc` a record per run of the program. `LoadKey`, `Truncate` and `SaveKey`
are `newUser` of the key broker, where `os.WriteFile` is two steps; `SendContent` and `SendMetadata` are
the calls of `write`, `ListMessages` and `FetchMessage` those of `read`, which reads the login file
before it buys its session (`GetAuthToken`, `SessionToken`). A read asks for one page from the
beginning and ignores the token of the next; `PageSize` stands for the 9999 of the code. A failed
call may have been carried out. A key is the name of the run that made it; a ciphertext tells for whom and by whom it
is. The PGP messager stores contents at the content service and asks the metadata service for them;
`OneServer` says that these are one, as the endpoints in `write.go` are. The service is external and either applies the rules of `kvstore.proto` or not: against one
that does (this repository's pkv), `write` ends at its first content, as it sends no ttl, so the
properties about mails are about the other kind.

### Common abstractions

* The server and Redis share one clock.
* go-redis repeats are modelled where a repeat is not idempotent (`SET NX GET`, `DECRBY`, `XADD`);
  a repeated `SET`, `EXPIRE`, `ZADD GT` or `HSET` does what the first one did.
* `DisableAuth`, which switches charging off, is in `Gateway` only.

## Runs

`tlc -config X.cfg M` in this directory; `PROJECT.json` lists the runs. Deadlock is checked in
`gateway`; the bounds on time and calls let the other models come to rest.

| Run | Checks | Bounds |
|---|---|---|
| `billing_faults` | `NeverOverserved`, `ChargedExactly`, `CreditsBounded`, `SessionsBacked`, `NoTopUp`, `LedgerImplemented`, `CallsEnd` | two calls at a time, one jti with a quota of 2, one loss of the data, one repeat, no restart |
| `billing_restart` | `NeverOverserved`, `CreditsBounded` | two quotas with one jti, one restart, no lost data |
| `values` | `LifetimeKept`, `ProlongBounds` | two prolongations, ttls of 0, 1 and 2.4 seconds, steps of 0.7 seconds, durations up to 4 seconds |
| `registrations` | `SearchComplete`, `IndexExpires` | two registrations, two providers, two services that share a cid, five spellings of cids, one search at a time, one fault, limit 1, ttl 1 |
| `streams` | `PagesComplete`, `PagingAdvances`, `Retention`, `StreamExpires` | two writers, three calls, two faults, one repeat, pages of 0 to 2, ttl 2 of 4 time units, a second of 2 |
| `gateway` | `RunsWhatWasMeant`, `AnswersTellTheTruth`, `PaidBeforeServed`, `GoodCallsServed`, `EveryCallAnswered` | all twelve calls, two CIDs, an account with and one without a DID, two or three values of each field, one stray field, any number of restarts |
| `logins` | `OneTokenPerLogin`, `TokensAreConsented`, `LoginsInTime`, `LoginCompletes` | two users, two logins, two callbacks, two seeds, two faults, one repeat, verifier for 1 and token for 2 of 2 time units |
| `mail` | `NoDanglingMail`, `MailsInOrder`, `MailsReadable`, `ReadsComplete` | two writes, one read, a page of 3, one fault |

All but `billing_restart` also check the module's `TypeOK`.

Why this is enough: the interesting cases need two calls at a time (two deductions that both see
room, two prolongations of one ttl, two registrations of one set), one fault at any point, and a
clock that passes each lifetime once. A quota of 2 with prices of 1 and 2, one beyond the range of
the counter and one below zero reaches the overdraft, the exact fit, the overflow and the refusal.
The counter's least value is -2. Steps of 0.7 seconds against ttls of 1 and 2.4 meet both
roundings. A limit of 1 with two providers fills a service and the answer. Two logins with two
callbacks are the least for a crossed code and for a callback that is repeated; with two faults a
seed is rotated and one process restarted, or a reply lost twice. A write and a read are the least
for a mail, a second write for a race about the keys, and the fault falls at any of their steps; two
writes announce four mails, one more than a page.
In `Billing`, restart and loss together exceed what TLC does in minutes; the theorems cover them for
any numbers.

Fairness is assumed in `Billing`, `Gateway` and, for `stream_wait`, `StreamStore`. In `Billing` it is weak fairness of the server's steps
for each call, since `net/http` runs each request in a goroutine and go-redis gives each command a
timeout; all but one, as the `XREAD` of `GetStreamValue` is sent with `BLOCK 0` and no read deadline. So a
call in that handler owes nothing (`MayBlock`), and both liveness properties end with "or it may
block". Clients, the clock, restarts and losses owe nothing. No reply need ever arrive, so
`CallsEnd` rests on the retries running out. In `Gateway` it is weak fairness of the steps of the
call, for the same reason; `EveryCallAnswered` rests on gRPC failing calls at once while there is no
connection (the code does not ask it to wait) and on a broken connection being noticed. `FairSpec` of
`StreamStore` lets writes under way go on and time pass, and obliges nobody to write. `genjwt` has
no timeout on the provider and the mail client none on its calls, so no liveness is stated there.

### Where the code and what is said of it differ

Four runs end in a counterexample; the lines are quoted in `findings`.

| Run | What it shows |
|---|---|
| `billing_expiry` | a quota that expires between the two checks (or has no expiry) makes `CreateSession` panic while it builds its error |
| `billing_missing` | `DECRBY` on a missing session creates it in debt; the branch "session not found or expired" is never taken, and the next login finds the debt |
| `value_phantom` | a value that expires between `MEMORY USAGE` and `TTL` is answered with a new ttl instead of "resource not found" |
| `stream_wait` | a `GetStreamValue` with nothing after its id waits in `XREAD` for ever instead of being answered with "stream or message not found" |

Noted on the way, without a run: a restart lets the same quota JWT be credited again
(`CreditsBounded` says how often); two prolongations that read the same ttl do not add up; the sum
of ttls overflows after some 292 years and then deletes the value; a provider's advertisement is
kept once, whatever service it is for, and shown after its `expire_time`; more than 101 members of a
sorted set, dead ones included, hide the rest; approximate trimming may keep entries older than
`streamTtl`; a page size of 1 never gets past its token, as the range includes it; `GetStreamValue`
asks `XREAD` for what comes after the id it is given; a registration whose cid is not the text
`NormalizeCidToV1` produces is acknowledged and found by its service only; logging in again to an overdrawn session is
answered with a negative balance, which the schema rules out; if the sorted set of a service
expires between `ZADD` and `EXPIRE`, the registration is acknowledged with its provider in no set.

Of streams: a value written under a name with a DID, as `kvstore.proto:349` demands, can be read by
nobody, as `ParseResourceName` takes no colon; a call that ends between `XADD` and `EXPIRE` leaves a
stream that never expires, where `stream_value_handler.go:32` says an entry exists "at most for
2 * streamTtl" (`StreamExpires` names exactly these streams as its exception).

In the gateway: `ProlongValue` is documented at `/v1/{name=values/*}:prolong` (`kvstore.proto:48`), where
`scripts/prolong-value.sh` posts it, and routed at `accounts/*/values/*:prolong`
(`kvstore.pb.gw.go:982`). The documented request finds no route, which is the exception of
`GoodCallsServed` and what the lemma `Delivered` shows of it; a name of the routed form passes the
unanchored validation but names no key. A call is charged before it is validated. Handlers return gRPC status errors, which connect-go
does not know and answers as Unknown.

In `genjwt`: `handleLogin` goes on after it answered that the verifier could not be saved, without
effect; the page of `handleHome` links to `/login`, which is served by `handleHome` again; a provider
that does not answer holds a callback for good.

In the email example: `write` sends no ttl and stream names without a DID, both of which this
repository's pkv refuses, so the transcript in its README cannot be had; the error of `SendMetadata`
is dropped and success printed; two first runs at a time can leave mails nobody can decrypt; past
9999 mails a read shows the oldest ones only, as it does not follow the page token; the PGP messager
stores contents at the content service and asks the metadata service for them, so with "another
endpoint" for contents, as `write.go:32` suggests, its mails cannot be fetched (`OneServer` FALSE).

## Proofs

`tlapm M.tla` checks every obligation of a proof module. Every invariant and action property of the
passing runs is a theorem there, for any number of calls, users, keys and faults and any values of
the bounds, from the named assumptions of the modules alone.

Each component's module holds, after its properties, its inductive invariant `IInv`, a conjunction of named parts; TLC
checked it on the instance of the component's run before it was proved. In the proof module one
lemma per action shows that the step preserves `IInv` (split by part where an action disturbs
several), `Inductive` (`Invariance` in the first two) combines them, and the listed theorems follow from it.

### Assumptions

Beyond the types of the constants the assumptions say:

* `BillingAssumption`: no session JWT in a wallet, an id on every JWT of the exchange;
* `ValueAssumption`: the largest duration is at least a second;
* `IndexAssumption`: a service has at least one cid, a normal form is a cid, there are finitely many
  providers (the limits of a search count them), the ttl and the limit are positive, and the tags
  `"cids"`, `"zset"` and `"none"` of the model are no cid and no service;
* `StreamAssumption`: lifetimes and the bound on time are positive (the clock starts at 1, as the ids
  of Redis begin after 0-0);
* `NamesAssumption` of `Gateway`: accounts with a DID are accounts;
* `UsersAssumption`, `NoCodeAssumption`, `ProcsAssumption`, `TornAssumption`: the value for "nothing" is
  no user and no code, and the states of a key file are no keys;
* `PageAssumption`, `ServerAssumption`: a page has room for a mail; the two endpoints of the mail client
  are one service or not.

### Billing

* `TypeCorrect`, `NoOverservice`, `ExactCharging`, `BoundedCredits` and `BackedSessions` come from
  `IInv`. `NeverOverserved` is not inductive: it needs `FundsInv`, that what
  is left in Redis is covered by what is left of the quota. That needs in turn that only positive
  prices reach `DECRBY` and only for issued JWTs (`CallsInv`), and that those name sessions that were
  credited (`SaltInv`), or a session created in debt could be credited on top. After a loss a quota
  can be credited again, which is why `credited` sums up. `CleanInv` is the equality for
  sessions without faults, `CreditsInv` counts the credits against starts and losses.
* `BalanceNeverRises` is the action property `NoTopUp`, from the same invariant.
* `Refinement` shows that each step is a step of `QuotaLedger` or changes nothing of it.

### Values

* `CreationLifetime` and `ProlongedByTtl`: `IInv` adds to `LifetimeKept` what
  a call knows between `TTL` and `EXPIRE` (`ReadInv`): the ttl it read is the remaining time then, up
  to half a second, and not less than half a second short of the promise of the creation. As a ttl
  asked for is at least one second, the rounding never takes the value below that promise.

### Index

* `Complete` (`SearchComplete`) is about two kinds of calls that overlap, so `IInv` follows both. A
  registration that is under way has kept what it wrote so far (`RegistrationOK`), for each of its
  commands: `Kept` says that a key expires no earlier than the lifetime counted from the beginning of
  the call, or that this lifetime is over, which is what makes it survive the clock. The last command
  therefore leaves an acknowledged registration `Findable` (`AckedInv`), and so is everything a search
  owes (`DueInv`). A search that is under way is still to come to what it owes, has found it, or has
  the limit of its service (`Pending`); `Counted` ties the counter of the code to the number of
  distinct instances found, for which the providers must be finitely many. Nothing is assumed of how
  cids decode: what a search by cid owes are the services whose providers sent the text it looks up.
* `Expires` (`IndexExpires`) is inductive together with the types: each key without a lifetime has a
  registration between its two commands, or one that ended there.

### Streams

* `MissesNothing` (`PagesComplete`) needs that the ids of a stream ascend and lie in the past
  (`OrderInv`), and that the next id `XADD` generates lies beyond every token a reader can hold
  (`TokensInv`), or an entry could appear behind a reader. The token of a page is its last id, as
  `getMaxEntryID` of an ascending page is.
* `Advances` (`PagingAdvances`) follows from the order alone: a page begins at the token, so its second
  entry is beyond it.
* `Retained` (`Retention`): no call under way may trim what is younger than the lifetime
  (`WritersInv`; its `minID` was computed earlier), and a stream outlives its acknowledged entries
  (`AckedInv`).
* `Expires` (`StreamExpires`) is inductive with the types.

### Gateway

The gateway's theorems are mostly about the generated tables. `IInv` says that what travels is what
the client meant (`AsMeant`), and what the interceptors a call has passed made sure of (`Passed`,
`Progress`). The work is in `Route`. A request can match the pattern of at most one
procedure, its `Owner`, which its method, its verb and the length and fixed segments of its path determine.
For each of the twelve calls the lemma `Delivered` shows that the documented request is matched by
the call's own pattern and that the handler assembles the client's message again, whatever stray
field comes in the query or the body; `ProlongValue` under its documented name is the exception and
is shown to match nothing. `ValidIsPriced` says that the price of a valid message can be computed,
without which `GoodCallsServed` would fail at the session interceptor.

### Logins

`OneToken`, `Consented`, `InTime` and `Completes` come from an invariant that says who holds what of a
login: a verifier on offer is in Redis until its end, unless it was asked for or lost
(`VerifiersInv`), and then with one callback, which took it in time (`HoldersInv`); the user of a
callback consented in its login (`ConsentInv`); tokens and callbacks that signed are one to one
(`TokensInv`). For `LoginCompletes` it has to say why a code is spent (`SpentInv`) and what became of a
verifier that was asked for (`AskedInv`): if no callback of another login used the code, and nothing
failed, the exchange cannot refuse. That pkv takes the token needs that as long as no seed was
rotated both processes and every token have the one there is (`SeedsInv`), whatever restarts.

### Mail

`NothingDangles` and `InOrder` need what a run knows between its calls: the names it holds are stored
(`NamesInv`), and before its second entry comes its first (`AnnouncedInv`). `Complete` needs that a
reader's list is as long as a page or as what was there when it looked, whichever is shorter
(`RunsInv`), and stays a prefix of a stream that only grows (`ListsInv`). `Readable` needs the whole life of the keys
(`KeysInv`): without a race one run at a time makes keys, only where there are none, so that every
later run loads the ones every mail was made with.

### Only model-checked

`CallsEnd` of `Billing` and `EveryCallAnswered` of `Gateway` are liveness under fairness, which is out
of the provers' reach. The runs that end in a counterexample have nothing to prove.

## Plan

1. Done: the models of all components, and theorems for every invariant and action property of the
   passing runs.
2. Next: an abstract log that a stream implements for a reader, with the refinement proved from the
   invariant of `StreamProofs`.
3. Next: shorter proofs for `IndexProofs` and `GatewayProofs`, with the lemmas their cases share stated
   once.

## Not modelled

* The gRPC server stubs and the `local_request` functions: generated, and called by nothing in the
  program. `kvstore.pb.binary.go` is the encoding go-redis stores and scans advertisements and
  services with: in `ServiceIndex` a message read is the message stored. The reflection, `Reset`, `String` and descriptor code of the
  messages: no state and no decision of the program's own.
* `GetValue` as a step of `ValueStore`: it is one `GET` and changes nothing. Its validation, with the
  pattern `values/[0-9a-z]{59}` that refuses the names of version-0 CIDs, is in `Gateway`.
* Configuration that does not parse or derive: it ends the process before any request. CORS headers
  and reflection: they change no state and refuse nothing.
* `TokenFromMD` and `ParseHeaderJwt` of `pkg/middleware/utils.go`, which nothing calls.
* The cryptography of JWTs, CIDs, PGP and Merkle trees, which the models take as perfect.
