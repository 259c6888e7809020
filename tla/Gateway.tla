------------------------------ MODULE Gateway ------------------------------
(***************************************************************************)
(* The way of one call through the system: a REST request that             *)
(* cmd/gateway translates into a gRPC call, or a call made to pkv directly, *)
(* the interceptors cmd/pkv puts before its handlers, the handler and the   *)
(* answer.  A field of a message is a sequence of strings, <<>> when it is  *)
(* unset; a resource name is the sequence of its path segments.  What the   *)
(* handlers and the session ledger do is the subject of the other modules. *)
(***************************************************************************)
EXTENDS Naturals, Sequences

CONSTANTS
  Cids,       \* well-formed CIDs
  Accounts,   \* account segments of stream names: DIDs, and others
  Dids,       \* the account segments that start with did:
  Unknown     \* a procedure the service does not have

ASSUME NamesAssumption == Dids \subseteq Accounts

VARIABLES
  pkvUp,      \* the pkv process serves
  chain,      \* its interceptors, built once by main
  gatewayUp,  \* the gateway process serves
  call        \* the call under way

vars == <<pkvUp, chain, gatewayUp, call>>

Unset == <<>>

(***************************************************************************)
(* Message types, with a few values for each field.                         *)
(***************************************************************************)
ValueNames == {<<"values", c>> : c \in Cids \cup {"short"}}

StreamNames == {<<"accounts", a, "streams", "s">> : a \in Accounts}

EntryNames == {p \o <<"values", e>> : p \in StreamNames, e \in {"1-0", "2-0"}}

CidFields == {Unset} \cup {<<c>> : c \in Cids \cup {"short"}}

Durations == {Unset, <<"0s">>, <<"3600s">>}

Bytes == {Unset, <<"bytes">>, <<"large">>}

CreateValueRequest ==
  [codec: {Unset, <<"RAW">>, <<"17">>}, value: Bytes, ttl: Durations]

CreateStreamValueRequest == [parent: StreamNames, value: Bytes]

GetValueRequest == [name: ValueNames]

GetStreamValueRequest == [name: EntryNames, auth_token: {Unset, <<"jwt">>}]

ListStreamValuesRequest ==
  [parent: StreamNames, auth_token: {Unset, <<"jwt">>},
   page_size: {Unset, <<"2">>, <<"-1">>}, page_token: {Unset, <<"1-0">>}]

ProlongValueRequest ==
  [name: ValueNames \cup {<<"accounts", "bob", "values", c>> : c \in Cids},
   ttl: Durations, max_size: {Unset, <<"9">>}]

SearchCidRequest == [cid: CidFields]

SearchInstanceRequest == [virtual_service: {Unset, <<"service">>}]

CreateSessionRequest == [jwt: {Unset, <<"quota">>}]

RegisterInstanceRequest ==
  [advertisement: {Unset, <<"signed">>, <<"no cids">>}]

PingRequest == [dummy: {Unset, <<"1">>}]

DelegatedRoutingRequest == [cid: CidFields \ {Unset}]

RPCs == {"CreateValue", "CreateStreamValue", "GetValue", "GetStreamValue",
         "ListStreamValues", "ProlongValue", "SearchCid", "SearchInstance",
         "CreateSession", "RegisterInstance", "Ping", "DelegatedRouting"}

\* The message type of each procedure; a call of an unknown one carries
\* some other message.
Requests(rpc) ==
  CASE rpc = "CreateValue"       -> CreateValueRequest
    [] rpc = "CreateStreamValue" -> CreateStreamValueRequest
    [] rpc = "GetValue"          -> GetValueRequest
    [] rpc = "GetStreamValue"    -> GetStreamValueRequest
    [] rpc = "ListStreamValues"  -> ListStreamValuesRequest
    [] rpc = "ProlongValue"      -> ProlongValueRequest
    [] rpc = "SearchCid"         -> SearchCidRequest
    [] rpc = "SearchInstance"    -> SearchInstanceRequest
    [] rpc = "CreateSession"     -> CreateSessionRequest
    [] rpc = "RegisterInstance"  -> RegisterInstanceRequest
    [] rpc = "Ping"              -> PingRequest
    [] rpc = "DelegatedRouting"  -> DelegatedRoutingRequest
    [] OTHER                     -> PingRequest

FieldsOf(rpc) == DOMAIN (CHOOSE m \in Requests(rpc) : TRUE)

(***************************************************************************)
(* The validation rules of the descriptor.  The patterns of names are not   *)
(* anchored: a name matches when some part of it does.                      *)
(***************************************************************************)
MatchesValueName(n) ==
  \E i \in 1 .. Len(n) - 1 : n[i] = "values" /\ n[i + 1] \in Cids

MatchesStreamName(n) ==
  \E i \in 1 .. Len(n) - 3 :
    n[i] = "accounts" /\ n[i + 1] \in Dids /\ n[i + 2] = "streams"

ValidTtl(d) == d = <<"3600s">>

ValidCid(f) == f \in {<<c>> : c \in Cids}

Valid(rpc, m) ==
  CASE rpc = "CreateValue" ->
         m.value # Unset /\ ValidTtl(m.ttl) /\ m.codec \in {Unset, <<"RAW">>}
    [] rpc = "CreateStreamValue" ->
         MatchesStreamName(m.parent) /\ m.value = <<"bytes">>
    [] rpc = "GetValue" -> MatchesValueName(m.name)
    [] rpc = "GetStreamValue" ->
         MatchesStreamName(m.name) /\ m.auth_token # Unset
    [] rpc = "ListStreamValues" ->
         /\ MatchesStreamName(m.parent)
         /\ m.auth_token # Unset
         /\ m.page_size # <<"-1">>
    [] rpc = "ProlongValue" ->
         MatchesValueName(m.name) /\ ValidTtl(m.ttl) /\ m.max_size # Unset
    [] rpc = "SearchCid" -> ValidCid(m.cid)
    [] rpc = "SearchInstance" -> m.virtual_service # Unset
    [] rpc = "CreateSession" -> m.jwt # Unset
    [] rpc = "RegisterInstance" -> m.advertisement = <<"signed">>
    [] rpc = "Ping" -> m.dummy # Unset
    [] rpc = "DelegatedRouting" -> ValidCid(m.cid)

(***************************************************************************)
(* The REST form of each call, as the http annotations of the service       *)
(* document it: bound is the field the path carries between before and      *)
(* after, verb what follows the colon, body the field (or "*", all others)  *)
(* the body carries, each "none" where the annotation has none.  What is    *)
(* left goes into the query.                                                *)
(***************************************************************************)
Annotation(method, before, bound, after, verb, body) ==
  [method |-> method, before |-> before, bound |-> bound, after |-> after,
   verb |-> verb, body |-> body]

HttpRule(rpc) ==
  CASE rpc = "CreateValue" ->
         Annotation("POST", <<"v1", "values">>, "none", <<>>, "create", "value")
    [] rpc = "CreateStreamValue" ->
         Annotation("POST", <<"v1">>, "parent", <<"values">>, "create", "value")
    [] rpc = "GetValue" -> Annotation("GET", <<"v1">>, "name", <<>>, "none", "none")
    [] rpc = "GetStreamValue" ->
         Annotation("GET", <<"v1">>, "name", <<>>, "none", "none")
    [] rpc = "ListStreamValues" ->
         Annotation("GET", <<"v1">>, "parent", <<"values">>, "none", "none")
    [] rpc = "ProlongValue" ->
         Annotation("POST", <<"v1">>, "name", <<>>, "prolong", "*")
    [] rpc = "SearchCid" ->
         Annotation("GET", <<"v1", "searchCid">>, "none", <<>>, "none", "none")
    [] rpc = "SearchInstance" ->
         Annotation("GET", <<"v1", "SearchInstance">>, "none", <<>>, "none", "none")
    [] rpc = "CreateSession" ->
         Annotation("POST", <<"v1", "sessions">>, "none", <<>>, "create", "*")
    [] rpc = "RegisterInstance" ->
         Annotation("POST", <<"v1", "instance">>, "none", <<>>, "register", "*")
    [] rpc = "Ping" -> Annotation("GET", <<"v1", "ping">>, "none", <<>>, "none", "none")
    [] rpc = "DelegatedRouting" ->
         Annotation("GET", <<"routing", "v1", "providers">>, "cid", <<>>, "none", "none")

Bound(rpc) == FieldsOf(rpc) \cap {HttpRule(rpc).bound}

InBody(rpc) ==
  IF HttpRule(rpc).body = "*" THEN FieldsOf(rpc) \ Bound(rpc)
  ELSE FieldsOf(rpc) \cap {HttpRule(rpc).body}

InQuery(rpc) == FieldsOf(rpc) \ (Bound(rpc) \cup InBody(rpc))

Only(m, fields) == [f \in DOMAIN m \cap fields |-> m[f]]

Added(given, field, v) ==
  [f \in DOMAIN given \cup {field} |-> IF f = field THEN v ELSE given[f]]

\* The request for message m.  With it may come a field in a place the
\* annotation does not give it (where = "query" or "body"), or a query or a
\* body that does not parse ("badquery", "badbody").
Documented(rpc, m, where, field, v) ==
  LET rule == HttpRule(rpc)
      With(place, given) == IF where = place THEN Added(given, field, v) ELSE given
  IN  [method |-> rule.method,
       path |-> rule.before
                \o (IF Bound(rpc) = {} THEN <<>> ELSE m[rule.bound])
                \o rule.after,
       verb |-> rule.verb,
       query |-> With("query", Only(m, InQuery(rpc))),
       body |-> With("body", Only(m, InBody(rpc))),
       queryOk |-> where # "badquery",
       bodyOk |-> where # "badbody"]

\* The fields that may stray into the query or the body of a request.  A body
\* that carries one field has no room for another.
Strays(rpc) ==
  ({"query"} \X (FieldsOf(rpc) \ InQuery(rpc)))
  \cup ({"body"} \X (IF HttpRule(rpc).body = "value" THEN {}
                     ELSE FieldsOf(rpc) \ InBody(rpc)))

DocumentedRequests(rpc, m) ==
  {Documented(rpc, m, w, "none", Unset) : w \in {"none", "badquery", "badbody"}}
  \cup UNION {{Documented(rpc, m, s[1], s[2], x[s[2]]) : x \in Requests(rpc)} :
                s \in Strays(rpc)}

(***************************************************************************)
(* The generated gateway: the pattern each handler is registered under, and *)
(* the message it assembles from a request that matches.  A pattern         *)
(* captures the segments from .. to of the path as its parameter.           *)
(***************************************************************************)
Pattern(method, segments, verb, param, from, to) ==
  [method |-> method, segments |-> segments, verb |-> verb, param |-> param,
   from |-> from, to |-> to]

pattern(rpc) ==
  CASE rpc = "CreateValue" ->
         Pattern("POST", <<"v1", "values">>, "create", {}, 1, 0)
    [] rpc = "CreateStreamValue" ->
         Pattern("POST", <<"v1", "accounts", "*", "streams", "*", "values">>,
                 "create", {"parent"}, 2, 5)
    [] rpc = "GetValue" ->
         Pattern("GET", <<"v1", "values", "*">>, "none", {"name"}, 2, 3)
    [] rpc = "GetStreamValue" ->
         Pattern("GET", <<"v1", "accounts", "*", "streams", "*", "values", "*">>,
                 "none", {"name"}, 2, 7)
    [] rpc = "ListStreamValues" ->
         Pattern("GET", <<"v1", "accounts", "*", "streams", "*", "values">>,
                 "none", {"parent"}, 2, 5)
    [] rpc = "ProlongValue" ->
         Pattern("POST", <<"v1", "accounts", "*", "values", "*">>,
                 "prolong", {"name"}, 2, 5)
    [] rpc = "SearchCid" ->
         Pattern("GET", <<"v1", "searchCid">>, "none", {}, 1, 0)
    [] rpc = "SearchInstance" ->
         Pattern("GET", <<"v1", "SearchInstance">>, "none", {}, 1, 0)
    [] rpc = "CreateSession" ->
         Pattern("POST", <<"v1", "sessions">>, "create", {}, 1, 0)
    [] rpc = "RegisterInstance" ->
         Pattern("POST", <<"v1", "instance">>, "register", {}, 1, 0)
    [] rpc = "Ping" -> Pattern("GET", <<"v1", "ping">>, "none", {}, 1, 0)
    [] rpc = "DelegatedRouting" ->
         Pattern("GET", <<"routing", "v1", "providers", "*">>, "none", {"cid"}, 4, 4)

Matches(p, q) ==
  /\ p.method = q.method
  /\ p.verb = q.verb
  /\ Len(p.segments) = Len(q.path)
  /\ \A i \in 1 .. Len(q.path) : p.segments[i] \in {"*", q.path[i]}

PathParams(p, q) == [f \in p.param |-> SubSeq(q.path, p.from, p.to)]

Blank(rpc) == [f \in FieldsOf(rpc) |-> Unset]

\* m with the fields of given that it has, except the filtered ones.
Populate(m, given, filter) ==
  [f \in DOMAIN m |-> IF f \in DOMAIN given \ filter THEN given[f] ELSE m[f]]

\* Each handler yields the one message it sends, or none when what it parses
\* is malformed.
Parsed(ok, m) == IF ok THEN {m} ELSE {}

request_CreateValue(q, p) ==
  Parsed(q.bodyOk /\ q.queryOk,
         Populate(Populate(Blank("CreateValue"), q.body, {}), q.query, {"value"}))

request_CreateStreamValue(q, p) ==
  Parsed(q.bodyOk,
         Populate(Populate(Blank("CreateStreamValue"), q.body, {}), p, {}))

request_GetValue(q, p) == {Populate(Blank("GetValue"), p, {})}

\* Mutant of request_GetStreamValue: no filter on the query.
request_GetStreamValueUnfiltered(q, p) ==
  Parsed(q.queryOk,
         Populate(Populate(Blank("GetStreamValue"), p, {}), q.query, {}))

request_GetStreamValue(q, p) ==
  Parsed(q.queryOk,
         Populate(Populate(Blank("GetStreamValue"), p, {}), q.query, {"name"}))

request_ListStreamValues(q, p) ==
  Parsed(q.queryOk,
         Populate(Populate(Blank("ListStreamValues"), p, {}), q.query, {"parent"}))

request_ProlongValue(q, p) ==
  Parsed(q.bodyOk, Populate(Populate(Blank("ProlongValue"), q.body, {}), p, {}))

request_SearchCid(q, p) ==
  Parsed(q.queryOk, Populate(Blank("SearchCid"), q.query, {}))

request_SearchInstance(q, p) ==
  Parsed(q.queryOk, Populate(Blank("SearchInstance"), q.query, {}))

request_CreateSession(q, p) ==
  Parsed(q.bodyOk, Populate(Blank("CreateSession"), q.body, {}))

request_RegisterInstance(q, p) ==
  Parsed(q.bodyOk, Populate(Blank("RegisterInstance"), q.body, {}))

request_Ping(q, p) == Parsed(q.queryOk, Populate(Blank("Ping"), q.query, {}))

request_DelegatedRouting(q, p) == {Populate(Blank("DelegatedRouting"), p, {})}

Assemble(rpc, q, p) ==
  CASE rpc = "CreateValue"       -> request_CreateValue(q, p)
    [] rpc = "CreateStreamValue" -> request_CreateStreamValue(q, p)
    [] rpc = "GetValue"          -> request_GetValue(q, p)
    [] rpc = "GetStreamValue"    -> request_GetStreamValue(q, p)
    [] rpc = "ListStreamValues"  -> request_ListStreamValues(q, p)
    [] rpc = "ProlongValue"      -> request_ProlongValue(q, p)
    [] rpc = "SearchCid"         -> request_SearchCid(q, p)
    [] rpc = "SearchInstance"    -> request_SearchInstance(q, p)
    [] rpc = "CreateSession"     -> request_CreateSession(q, p)
    [] rpc = "RegisterInstance"  -> request_RegisterInstance(q, p)
    [] rpc = "Ping"              -> request_Ping(q, p)
    [] rpc = "DelegatedRouting"  -> request_DelegatedRouting(q, p)

(***************************************************************************)
(* The call: rpc and meant are what its client asks for, q the REST request *)
(* (None for a direct call), procedure and msg what reaches pkv, pos the    *)
(* next interceptor, charged what the session paid for it, ran what         *)
(* handlers ran for it, and calm whether nothing failed meanwhile.          *)
(***************************************************************************)
None == [method |-> "none"]

\* A good token names a session whose balance covers any call of the model;
\* anything else is refused.
Tokens == {"bad", "good"}

NewCall(rpc, m, q, token, pc) ==
  [pc |-> pc, rpc |-> rpc, meant |-> m, q |-> q, procedure |-> rpc, msg |-> m,
   token |-> token, pos |-> 1, charged |-> 0, ran |-> <<>>, answer |-> "none",
   calm |-> TRUE]

NoCall == NewCall("Ping", Blank("Ping"), None, "bad", "idle")

\* Mutant of Chain: validation is installed with the sessions only.
ChainTogether(disableAuth) ==
  IF disableAuth THEN <<>> ELSE <<"session", "validation">>

\* The interceptors of pkv's main: sessions unless DisableAuth is set, and
\* validation after them.
Chain(disableAuth) ==
  (IF disableAuth THEN <<>> ELSE <<"session">>) \o <<"validation">>

Init ==
  /\ pkvUp = TRUE
  /\ chain \in {Chain(d) : d \in BOOLEAN}
  /\ gatewayUp = TRUE
  /\ call = NoCall

\* The client has its answer; one whose connection broke keeps that answer.
Answered(a) ==
  [call EXCEPT !.pc = "answered", !.answer = IF @ = "none" THEN a ELSE @]

\* A client sends a REST request, made as documented but for stray fields.
Rest(rpc, m, q, token) ==
  /\ call.pc = "idle"
  /\ gatewayUp
  /\ call' = NewCall(rpc, m, q, token, "gateway")
  /\ UNCHANGED <<pkvUp, chain, gatewayUp>>

\* A connect or gRPC client calls pkv itself.
Direct(rpc, m, token) ==
  /\ call.pc = "idle"
  /\ call' = NewCall(rpc, m, None, token, "invoke")
  /\ UNCHANGED <<pkvUp, chain, gatewayUp>>

\* The gateway's mux picks the handler, which assembles the message.
Route ==
  /\ call.pc = "gateway"
  /\ LET q == call.q
         handlers == {r \in RPCs : Matches(pattern(r), q)}
     IN  \/ /\ handlers = {}
            /\ call' = Answered("noroute")
         \/ \E r \in handlers :
              LET messages == Assemble(r, q, PathParams(pattern(r), q))
              IN  \/ /\ messages = {}
                     /\ call' = Answered("malformed")
                  \/ \E m \in messages :
                       call' = [call EXCEPT !.pc = "invoke", !.procedure = r,
                                            !.msg = m]
  /\ UNCHANGED <<pkvUp, chain, gatewayUp>>

\* Mutant of Invoke: the call waits until pkv is ready.
InvokeWaits ==
  /\ call.pc = "invoke"
  /\ pkvUp
  /\ call' = IF call.procedure \in RPCs THEN [call EXCEPT !.pc = "pkv"]
             ELSE Answered("notfound")
  /\ UNCHANGED <<pkvUp, chain, gatewayUp>>

\* The gRPC call.  The connection is made when it is needed, and a call fails
\* at once when it cannot be.  pkv dispatches on the procedure.
Invoke ==
  /\ call.pc = "invoke"
  /\ call' = IF ~pkvUp THEN [Answered("unavailable") EXCEPT !.calm = FALSE]
             ELSE IF call.procedure \in RPCs THEN [call EXCEPT !.pc = "pkv"]
             ELSE Answered("notfound")
  /\ UNCHANGED <<pkvUp, chain, gatewayUp>>

AtInterceptor(name) ==
  /\ call.pc = "pkv"
  /\ call.pos <= Len(chain)
  /\ chain[call.pos] = name

\* Mutant of skipAuth: reading a value needs no session.
skipAuthReads == {"CreateSession", "SearchCid", "SearchInstance", "Ping",
                  "DelegatedRouting", "GetValue"}

skipAuth == {"CreateSession", "SearchCid", "SearchInstance", "Ping",
             "DelegatedRouting"}

\* Whether GetPrice asks for anything; a deduction of nothing is refused.
PriceIsPositive(rpc, m) ==
  CASE rpc \in {"CreateValue", "CreateStreamValue"} -> m.value # Unset
    [] rpc = "ProlongValue" -> m.max_size # Unset
    [] rpc = "RegisterInstance" -> m.advertisement = <<"signed">>
    [] OTHER -> TRUE

\* Mutant of Session: a deduction that failed is tried again, paid or not.
SessionRetried ==
  /\ AtInterceptor("session")
  /\ call.procedure \notin skipAuth
  /\ call.token = "good"
  /\ \/ call' = [call EXCEPT !.pos = @ + 1, !.charged = @ + 1]
     \/ \E paid \in {0, 1} : call' = [call EXCEPT !.charged = @ + paid]
  /\ UNCHANGED <<pkvUp, chain, gatewayUp>>

\* The session interceptor.  When Redis fails the session may have paid.
Session ==
  /\ AtInterceptor("session")
  /\ \/ /\ call.procedure \in skipAuth
        /\ call' = [call EXCEPT !.pos = @ + 1]
     \/ /\ call.procedure \notin skipAuth
        /\ call.token = "good"
        /\ PriceIsPositive(call.procedure, call.msg)
        /\ \/ call' = [call EXCEPT !.pos = @ + 1, !.charged = @ + 1]
           \/ \E paid \in {0, 1} :
                call' = [Answered("refused") EXCEPT !.charged = @ + paid,
                                                    !.calm = FALSE]
     \/ /\ call.procedure \notin skipAuth
        /\ \/ call.token = "bad"
           \/ ~PriceIsPositive(call.procedure, call.msg)
        /\ call' = Answered("refused")
  /\ UNCHANGED <<pkvUp, chain, gatewayUp>>

Validation ==
  /\ AtInterceptor("validation")
  /\ call' = IF Valid(call.procedure, call.msg)
             THEN [call EXCEPT !.pos = @ + 1]
             ELSE Answered("invalid")
  /\ UNCHANGED <<pkvUp, chain, gatewayUp>>

\* The handler runs, if it ever comes back.
Handle ==
  /\ call.pc = "pkv"
  /\ call.pos > Len(chain)
  /\ call' = [call EXCEPT !.pc = "reply",
                          !.ran = Append(@, [rpc |-> call.procedure,
                                             msg |-> call.msg])]
  /\ UNCHANGED <<pkvUp, chain, gatewayUp>>

\* Mutant of Reply: a call whose handler failed is tried again.
ReplyRetried ==
  /\ call.pc = "reply"
  /\ \/ call' = Answered("ok")
     \/ call' = [call EXCEPT !.pc = "invoke", !.pos = 1]
  /\ UNCHANGED <<pkvUp, chain, gatewayUp>>

\* The handler's outcome goes back through the gateway to the client.
Reply ==
  /\ call.pc = "reply"
  /\ \E a \in {"ok", "error"} : call' = Answered(a)
  /\ UNCHANGED <<pkvUp, chain, gatewayUp>>

\* The client takes its answer.
Taken ==
  /\ call.pc = "answered"
  /\ call' = NoCall
  /\ UNCHANGED <<pkvUp, chain, gatewayUp>>

\* pkv ends: the connections of the calls it serves break.
Stop ==
  /\ pkvUp
  /\ pkvUp' = FALSE
  /\ call' = IF call.pc \in {"pkv", "reply"}
             THEN [Answered("unavailable") EXCEPT !.calm = FALSE]
             ELSE call
  /\ UNCHANGED <<chain, gatewayUp>>

Start ==
  /\ ~pkvUp
  /\ pkvUp' = TRUE
  /\ \E disableAuth \in BOOLEAN : chain' = Chain(disableAuth)
  /\ UNCHANGED <<gatewayUp, call>>

\* The gateway ends: its client sees the connection break, and a call that
\* reached pkv goes on there with nobody to answer to.
GatewayStop ==
  /\ gatewayUp
  /\ gatewayUp' = FALSE
  /\ call' = IF call.q = None \/ call.pc \in {"idle", "answered"} THEN call
             ELSE IF call.pc \in {"gateway", "invoke"}
             THEN [Answered("broken") EXCEPT !.calm = FALSE]
             ELSE [call EXCEPT !.answer = "broken", !.calm = FALSE]
  /\ UNCHANGED <<pkvUp, chain>>

GatewayStart ==
  /\ ~gatewayUp
  /\ gatewayUp' = TRUE
  /\ UNCHANGED <<pkvUp, chain, call>>

Next ==
  \/ \E rpc \in RPCs, token \in Tokens : \E m \in Requests(rpc) :
       \E q \in DocumentedRequests(rpc, m) : Rest(rpc, m, q, token)
  \/ \E rpc \in RPCs \cup {Unknown}, token \in Tokens : \E m \in Requests(rpc) :
       Direct(rpc, m, token)
  \/ Route \/ Invoke \/ Session \/ Validation \/ Handle \/ Reply \/ Taken
  \/ Stop \/ Start \/ GatewayStop \/ GatewayStart

\* The handler of GetStreamValue waits in an XREAD without a deadline when its
\* stream has nothing after the entry asked for.
MayBlock ==
  call.pc = "pkv" /\ call.pos > Len(chain) /\ call.procedure = "GetStreamValue"

\* Every other step of a call is a step of a running process, which nothing
\* holds up.
Fairness ==
  WF_vars(Route \/ Invoke \/ Session \/ Validation \/ (Handle /\ ~MayBlock) \/ Reply)

Spec == Init /\ [][Next]_vars /\ Fairness

-----------------------------------------------------------------------------

Answers == {"none", "noroute", "malformed", "unavailable", "notfound", "refused",
            "invalid", "ok", "error", "broken"}

\* Every variable holds a value of its type: a call is at one of the places
\* the gateway and pkv can hold it, and carries a message of its procedure.
TypeOK ==
  /\ pkvUp \in BOOLEAN
  /\ gatewayUp \in BOOLEAN
  /\ chain \in {Chain(d) : d \in BOOLEAN}
  /\ call.pc \in {"idle", "gateway", "invoke", "pkv", "reply", "answered"}
  /\ call.rpc \in RPCs \cup {Unknown}
  /\ call.procedure \in RPCs \cup {Unknown}
  /\ DOMAIN call.msg = FieldsOf(call.procedure)
  /\ call.token \in Tokens
  /\ call.pos \in 1 .. Len(chain) + 1 \/ call.pc = "answered"
  /\ call.charged \in {0, 1}
  /\ call.answer \in Answers
  /\ call.calm \in BOOLEAN

\* Whatever a handler runs is the valid call its client meant: the generated
\* request_ functions let nothing that strays into the query or the body
\* replace a field the path or the body binds (the filter_ tables), and no
\* configuration of pkv's main lets a message past validation.
RunsWhatWasMeant ==
  \A i \in DOMAIN call.ran :
    /\ call.ran[i] = [rpc |-> call.rpc, msg |-> call.meant]
    /\ Valid(call.rpc, call.meant)

\* An answer tells what happened: ok and error follow exactly one run of a
\* handler, every refusal follows none.  Only a broken connection leaves it
\* open.
AnswersTellTheTruth ==
  /\ call.answer \in {"ok", "error"} => Len(call.ran) = 1
  /\ call.answer \in {"noroute", "malformed", "notfound", "refused", "invalid"}
       => call.ran = <<>>
  /\ Len(call.ran) <= 1

\* Storing, reading, prolonging and registering are what pkv is paid for: with
\* the session interceptor installed such a call is served only after its
\* session paid for it, once, whichever way it came.
PaidBeforeServed ==
  (call.pc = "reply" /\ chain = Chain(FALSE)) =>
    \/ call.rpc \in {"SearchCid", "SearchInstance", "CreateSession", "Ping",
                     "DelegatedRouting"}
    \/ call.token = "good" /\ call.charged = 1

\* Nothing but the request itself stands between a client and the handler: a
\* valid, well-formed call that can pay and meets no failure is run.  The one
\* exception is ProlongValue over REST: kvstore.proto documents it at
\* values/<cid>:prolong, and the generated pattern is still
\* accounts/*/values/*:prolong, so that the gateway has no route for it.
GoodCallsServed ==
  ( /\ call.pc = "answered"
    /\ call.calm
    /\ call.rpc \in RPCs
    /\ Valid(call.rpc, call.meant)
    /\ call.token = "good"
    /\ call.q # None => call.q.queryOk /\ call.q.bodyOk
    /\ ~(call.q # None /\ call.rpc = "ProlongValue" /\ call.meant.name \in ValueNames) )
  => Len(call.ran) = 1

\* Every call is answered, whichever process ends meanwhile: a broken
\* connection is an answer, and the gateway does not wait for a pkv that is
\* down.  Only a call of GetStreamValue that has passed the interceptors may
\* be kept in its handler.
EveryCallAnswered ==
  call.pc \in {"gateway", "invoke", "pkv", "reply"}
    ~> (call.pc = "answered" \/ MayBlock)
-----------------------------------------------------------------------------
(* The inductive invariant the proofs use                                  *)

CallFields == {"pc", "rpc", "meant", "q", "procedure", "msg", "token", "pos",
               "charged", "ran", "answer", "calm"}

Shape ==
  /\ pkvUp \in BOOLEAN /\ gatewayUp \in BOOLEAN
  /\ chain \in {Chain(d) : d \in BOOLEAN}
  /\ DOMAIN call = CallFields
  /\ call.pc \in {"idle", "gateway", "invoke", "pkv", "reply", "answered"}
  /\ call.rpc \in RPCs \cup {Unknown}
  /\ call.token \in Tokens
  /\ call.pos \in Nat \ {0}
  /\ call.charged \in {0, 1}
  /\ call.answer \in Answers
  /\ call.calm \in BOOLEAN

\* Nothing on the way changes what is called and with what message.
AsMeant ==
  /\ call.meant \in Requests(call.rpc)
  /\ call.procedure = call.rpc
  /\ call.msg = call.meant
  /\ call.pc = "gateway" =>
       call.rpc \in RPCs /\ call.q \in DocumentedRequests(call.rpc, call.meant)

\* What the interceptors a call has passed made sure of.
Passed ==
  /\ call.pos = 1 => call.charged = 0
  /\ chain = Chain(FALSE) /\ call.pos > 1 =>
       call.rpc \in skipAuth \/ (call.token = "good" /\ call.charged = 1)
  /\ call.pos > Len(chain) => Valid(call.rpc, call.meant)

ItsRun == <<[rpc |-> call.rpc, msg |-> call.meant]>>

\* What has happened to a call, by the place it is at.
Progress ==
  /\ call.pc \in {"idle", "gateway", "invoke"} =>
       call.pos = 1 /\ call.charged = 0 /\ call.ran = <<>> /\ call.answer = "none"
  /\ call.pc \in {"pkv", "reply"} =>
       /\ pkvUp
       /\ call.rpc \in RPCs
       /\ call.answer \in {"none", "broken"}
       /\ Passed
  /\ call.pc = "pkv" => call.ran = <<>> /\ call.pos <= Len(chain) + 1
  /\ call.pc = "reply" => call.ran = ItsRun /\ call.pos = Len(chain) + 1
  /\ call.pc = "answered" =>
       /\ call.ran = <<>> \/ (call.ran = ItsRun /\ Valid(call.rpc, call.meant))
       /\ call.answer \in {"ok", "error"} => call.ran = ItsRun
       /\ call.answer \in {"noroute", "malformed", "notfound", "refused", "invalid"} =>
            call.ran = <<>>

IInv == Shape /\ AsMeant /\ Progress /\ GoodCallsServed
=============================================================================
