---------------------------- MODULE GatewayProofs ----------------------------
(***************************************************************************)
(* What Gateway keeps invariant, proved for every value of its constants:  *)
(* the generated handlers assemble the call a client meant, and what the   *)
(* interceptors let through is valid and paid for.                         *)
(***************************************************************************)
EXTENDS Gateway, SequenceTheorems, TLAPS

-----------------------------------------------------------------------------
(* The tables of the service, one row at a time                            *)

LEMMA RequestTable ==
  /\ Requests("CreateValue") = CreateValueRequest
  /\ Requests("CreateStreamValue") = CreateStreamValueRequest
  /\ Requests("GetValue") = GetValueRequest
  /\ Requests("GetStreamValue") = GetStreamValueRequest
  /\ Requests("ListStreamValues") = ListStreamValuesRequest
  /\ Requests("ProlongValue") = ProlongValueRequest
  /\ Requests("SearchCid") = SearchCidRequest
  /\ Requests("SearchInstance") = SearchInstanceRequest
  /\ Requests("CreateSession") = CreateSessionRequest
  /\ Requests("RegisterInstance") = RegisterInstanceRequest
  /\ Requests("Ping") = PingRequest
  /\ Requests("DelegatedRouting") = DelegatedRoutingRequest
BY Zenon DEF Requests

LEMMA RuleTable ==
  /\ HttpRule("CreateValue") =
       Annotation("POST", <<"v1", "values">>, "none", <<>>, "create", "value")
  /\ HttpRule("CreateStreamValue") =
       Annotation("POST", <<"v1">>, "parent", <<"values">>, "create", "value")
  /\ HttpRule("GetValue") = Annotation("GET", <<"v1">>, "name", <<>>, "none", "none")
  /\ HttpRule("GetStreamValue") = Annotation("GET", <<"v1">>, "name", <<>>, "none", "none")
  /\ HttpRule("ListStreamValues") =
       Annotation("GET", <<"v1">>, "parent", <<"values">>, "none", "none")
  /\ HttpRule("ProlongValue") = Annotation("POST", <<"v1">>, "name", <<>>, "prolong", "*")
  /\ HttpRule("SearchCid") =
       Annotation("GET", <<"v1", "searchCid">>, "none", <<>>, "none", "none")
  /\ HttpRule("SearchInstance") =
       Annotation("GET", <<"v1", "SearchInstance">>, "none", <<>>, "none", "none")
  /\ HttpRule("CreateSession") =
       Annotation("POST", <<"v1", "sessions">>, "none", <<>>, "create", "*")
  /\ HttpRule("RegisterInstance") =
       Annotation("POST", <<"v1", "instance">>, "none", <<>>, "register", "*")
  /\ HttpRule("Ping") = Annotation("GET", <<"v1", "ping">>, "none", <<>>, "none", "none")
  /\ HttpRule("DelegatedRouting") =
       Annotation("GET", <<"routing", "v1", "providers">>, "cid", <<>>, "none", "none")
BY Zenon DEF HttpRule

LEMMA PatternTable ==
  /\ pattern("CreateValue") = Pattern("POST", <<"v1", "values">>, "create", {}, 1, 0)
  /\ pattern("CreateStreamValue") =
       Pattern("POST", <<"v1", "accounts", "*", "streams", "*", "values">>, "create",
               {"parent"}, 2, 5)
  /\ pattern("GetValue") = Pattern("GET", <<"v1", "values", "*">>, "none", {"name"}, 2, 3)
  /\ pattern("GetStreamValue") =
       Pattern("GET", <<"v1", "accounts", "*", "streams", "*", "values", "*">>, "none", {"name"}, 2, 7)
  /\ pattern("ListStreamValues") =
       Pattern("GET", <<"v1", "accounts", "*", "streams", "*", "values">>, "none", {"parent"}, 2, 5)
  /\ pattern("ProlongValue") =
       Pattern("POST", <<"v1", "accounts", "*", "values", "*">>, "prolong", {"name"}, 2, 5)
  /\ pattern("SearchCid") = Pattern("GET", <<"v1", "searchCid">>, "none", {}, 1, 0)
  /\ pattern("SearchInstance") = Pattern("GET", <<"v1", "SearchInstance">>, "none", {}, 1, 0)
  /\ pattern("CreateSession") = Pattern("POST", <<"v1", "sessions">>, "create", {}, 1, 0)
  /\ pattern("RegisterInstance") = Pattern("POST", <<"v1", "instance">>, "register", {}, 1, 0)
  /\ pattern("Ping") = Pattern("GET", <<"v1", "ping">>, "none", {}, 1, 0)
  /\ pattern("DelegatedRouting") =
       Pattern("GET", <<"routing", "v1", "providers", "*">>, "none", {"cid"}, 4, 4)
BY Zenon DEF pattern

LEMMA HandlerTable ==
  ASSUME NEW q, NEW p
  PROVE  /\ Assemble("CreateValue", q, p) = request_CreateValue(q, p)
         /\ Assemble("CreateStreamValue", q, p) = request_CreateStreamValue(q, p)
         /\ Assemble("GetValue", q, p) = request_GetValue(q, p)
         /\ Assemble("GetStreamValue", q, p) = request_GetStreamValue(q, p)
         /\ Assemble("ListStreamValues", q, p) = request_ListStreamValues(q, p)
         /\ Assemble("ProlongValue", q, p) = request_ProlongValue(q, p)
         /\ Assemble("SearchCid", q, p) = request_SearchCid(q, p)
         /\ Assemble("SearchInstance", q, p) = request_SearchInstance(q, p)
         /\ Assemble("CreateSession", q, p) = request_CreateSession(q, p)
         /\ Assemble("RegisterInstance", q, p) = request_RegisterInstance(q, p)
         /\ Assemble("Ping", q, p) = request_Ping(q, p)
         /\ Assemble("DelegatedRouting", q, p) = request_DelegatedRouting(q, p)
BY Zenon DEF Assemble

-----------------------------------------------------------------------------
(* Messages and the requests that carry them                               *)

\* Every message of a procedure has the fields of its type.
LEMMA FieldTable ==
  ASSUME NEW rpc, NEW m \in Requests(rpc)
  PROVE  /\ FieldsOf(rpc) = DOMAIN m /\ m = [f \in DOMAIN m |-> m[f]]
         /\ rpc = "CreateValue" => DOMAIN m = {"codec", "value", "ttl"}
         /\ rpc = "CreateStreamValue" => DOMAIN m = {"parent", "value"}
         /\ rpc = "GetValue" => DOMAIN m = {"name"}
         /\ rpc = "GetStreamValue" => DOMAIN m = {"name", "auth_token"}
         /\ rpc = "ListStreamValues" =>
              DOMAIN m = {"parent", "auth_token", "page_size", "page_token"}
         /\ rpc = "ProlongValue" => DOMAIN m = {"name", "ttl", "max_size"}
         /\ rpc = "SearchCid" => DOMAIN m = {"cid"}
         /\ rpc = "SearchInstance" => DOMAIN m = {"virtual_service"}
         /\ rpc = "CreateSession" => DOMAIN m = {"jwt"}
         /\ rpc = "RegisterInstance" => DOMAIN m = {"advertisement"}
         /\ rpc = "Ping" => DOMAIN m = {"dummy"}
         /\ rpc = "DelegatedRouting" => DOMAIN m = {"cid"}
<1> DEFINE Typed(S, F) == \A x \in S : DOMAIN x = F /\ x = [f \in F |-> x[f]]
<1>1. /\ Typed(CreateValueRequest, {"codec", "value", "ttl"})
      /\ Typed(CreateStreamValueRequest, {"parent", "value"})
      /\ Typed(GetValueRequest, {"name"})
      /\ Typed(GetStreamValueRequest, {"name", "auth_token"})
      /\ Typed(ListStreamValuesRequest, {"parent", "auth_token", "page_size", "page_token"})
      /\ Typed(ProlongValueRequest, {"name", "ttl", "max_size"})
      /\ Typed(SearchCidRequest, {"cid"}) /\ Typed(SearchInstanceRequest, {"virtual_service"})
      /\ Typed(CreateSessionRequest, {"jwt"})
      /\ Typed(RegisterInstanceRequest, {"advertisement"})
      /\ Typed(PingRequest, {"dummy"}) /\ Typed(DelegatedRoutingRequest, {"cid"})
  BY DEF CreateValueRequest, CreateStreamValueRequest, GetValueRequest, GetStreamValueRequest,
     ListStreamValuesRequest, ProlongValueRequest, SearchCidRequest, SearchInstanceRequest,
     CreateSessionRequest, RegisterInstanceRequest, PingRequest, DelegatedRoutingRequest
<1>2. rpc \notin RPCs => Requests(rpc) = PingRequest
  BY Zenon DEF Requests, RPCs
<1>3. \E F : Typed(Requests(rpc), F)
  <2>1. CASE rpc \in RPCs
    <3> HIDE DEF Typed
    <3> QED
      BY <1>1, <2>1, RequestTable, Zenon DEF RPCs
  <2> QED
    BY <1>1, <1>2, <2>1
<1>4. FieldsOf(rpc) = DOMAIN m /\ m = [f \in DOMAIN m |-> m[f]]
  <2>1. (CHOOSE x \in Requests(rpc) : TRUE) \in Requests(rpc)
    OBVIOUS
  <2> QED
    BY <1>3, <2>1, Zenon DEF FieldsOf
<1> QED
  BY <1>1, <1>4, RequestTable

PathOf(before, field, after) == before \o field \o after

\* Where the request for m carries what.
Carries(rpc, m, q) ==
  LET rule == HttpRule(rpc)
  IN  /\ q.method = rule.method /\ q.verb = rule.verb
      /\ q.path = PathOf(rule.before, IF Bound(rpc) = {} THEN <<>> ELSE m[rule.bound], rule.after)
      /\ \A f \in InQuery(rpc) : f \in DOMAIN q.query /\ q.query[f] = m[f]
      /\ \A f \in InBody(rpc) : f \in DOMAIN q.body /\ q.body[f] = m[f]
      /\ rule.body = "value" => DOMAIN q.body = InBody(rpc)

LEMMA RequestCarries ==
  ASSUME NEW rpc, NEW m \in Requests(rpc), NEW q \in DocumentedRequests(rpc, m)
  PROVE  Carries(rpc, m, q)
<1>1. DOMAIN m = FieldsOf(rpc)
  BY FieldTable
<1>2. \A f \in InQuery(rpc) : /\ f \in DOMAIN Only(m, InQuery(rpc))
                              /\ Only(m, InQuery(rpc))[f] = m[f]
  BY <1>1 DEF Only, InQuery
<1>3. /\ DOMAIN Only(m, InBody(rpc)) = InBody(rpc)
      /\ \A f \in InBody(rpc) : Only(m, InBody(rpc))[f] = m[f]
  BY <1>1 DEF Only, InBody
<1>4. ASSUME NEW where, NEW field, NEW v, q = Documented(rpc, m, where, field, v),
             where = "query" => field \notin InQuery(rpc),
             where = "body" => field \notin InBody(rpc) /\ HttpRule(rpc).body # "value"
      PROVE  Carries(rpc, m, q)
  <2> DEFINE Q == Only(m, InQuery(rpc))
             B == Only(m, InBody(rpc))
  <2>1. /\ q.method = HttpRule(rpc).method /\ q.verb = HttpRule(rpc).verb
        /\ q.path = HttpRule(rpc).before
                    \o (IF Bound(rpc) = {} THEN <<>> ELSE m[HttpRule(rpc).bound])
                    \o HttpRule(rpc).after
        /\ q.query = (IF where = "query" THEN Added(Q, field, v) ELSE Q)
        /\ q.body = (IF where = "body" THEN Added(B, field, v) ELSE B)
    BY <1>4 DEF Documented
  <2>2. \A f \in InQuery(rpc) : f \in DOMAIN Q /\ Q[f] = m[f]
    BY <1>2
  <2>3. DOMAIN B = InBody(rpc) /\ \A f \in InBody(rpc) : B[f] = m[f]
    BY <1>3
  <2> HIDE DEF Q, B
  <2>4. \A f \in InQuery(rpc) : f \in DOMAIN q.query /\ q.query[f] = m[f]
    BY <1>4, <2>1, <2>2 DEF Added
  <2>5. \A f \in InBody(rpc) : f \in DOMAIN q.body /\ q.body[f] = m[f]
    BY <1>4, <2>1, <2>3 DEF Added
  <2>6. HttpRule(rpc).body = "value" => DOMAIN q.body = InBody(rpc)
    BY <1>4, <2>1, <2>3
  <2> QED
    BY <2>1, <2>4, <2>5, <2>6 DEF Carries, PathOf
<1>5. CASE \E w \in {"none", "badquery", "badbody"} : q = Documented(rpc, m, w, "none", Unset)
  BY <1>4, <1>5
<1>6. CASE \E s \in Strays(rpc), x \in Requests(rpc) : q = Documented(rpc, m, s[1], s[2], x[s[2]])
  <2>1. PICK s \in Strays(rpc), x \in Requests(rpc) : q = Documented(rpc, m, s[1], s[2], x[s[2]])
    BY <1>6
  <2>2. /\ s[1] = "query" => s[2] \notin InQuery(rpc)
        /\ s[1] = "body" => s[2] \notin InBody(rpc) /\ HttpRule(rpc).body # "value"
    BY DEF Strays
  <2> QED
    BY <1>4, <2>1, <2>2
<1> QED
  BY <1>5, <1>6 DEF DocumentedRequests

-----------------------------------------------------------------------------
(* Paths                                                                   *)

\* The segments of a path.
Segments == Cids \cup Accounts \cup
            {"v1", "values", "short", "accounts", "streams", "s", "1-0", "2-0", "bob",
             "searchCid", "SearchInstance", "sessions", "instance", "ping", "routing",
             "providers"}

LEMMA NameShapes ==
  /\ \A n \in ValueNames : n \in Seq(Segments) /\ Len(n) = 2 /\ n[1] = "values"
  /\ \A n \in StreamNames :
       n \in Seq(Segments) /\ Len(n) = 4 /\ n[1] = "accounts" /\ n[3] = "streams"
  /\ \A n \in EntryNames :
       n \in Seq(Segments) /\ Len(n) = 6 /\ n[1] = "accounts" /\ n[3] = "streams" /\ n[5] = "values"
  /\ \A n \in {<<"accounts", "bob", "values", c>> : c \in Cids} :
       n \in Seq(Segments) /\ Len(n) = 4 /\ n[1] = "accounts" /\ n[3] = "values"
  /\ \A n \in CidFields \ {Unset} : n \in Seq(Segments) /\ Len(n) = 1
<1>1. \A n \in ValueNames : n \in Seq(Segments) /\ Len(n) = 2 /\ n[1] = "values"
  <2> TAKE n \in ValueNames
  <2>1. PICK c \in Cids \cup {"short"} : n = <<"values", c>>
    BY DEF ValueNames
  <2>2. c \in Segments /\ "values" \in Segments
    BY DEF Segments
  <2> QED
    BY <2>1, <2>2
<1>2. \A n \in StreamNames :
        n \in Seq(Segments) /\ Len(n) = 4 /\ n[1] = "accounts" /\ n[3] = "streams"
  <2> TAKE n \in StreamNames
  <2>1. PICK a \in Accounts : n = <<"accounts", a, "streams", "s">>
    BY DEF StreamNames
  <2>2. a \in Segments /\ "accounts" \in Segments /\ "streams" \in Segments /\ "s" \in Segments
    BY DEF Segments
  <2> QED
    BY <2>1, <2>2
<1>3. ASSUME NEW n \in EntryNames
      PROVE  /\ n \in Seq(Segments) /\ Len(n) = 6
             /\ n[1] = "accounts" /\ n[3] = "streams" /\ n[5] = "values"
  <2>1. PICK k \in StreamNames, e \in {"1-0", "2-0"} : n = k \o <<"values", e>>
    BY SMTT(30) DEF EntryNames
  <2> DEFINE l == <<"values", e>>
  <2>2. l \in Seq(Segments) /\ Len(l) = 2 /\ l[1] = "values"
    BY DEF Segments
  <2>3. n = k \o l
    BY <2>1
  <2>4. k \in Seq(Segments) /\ Len(k) = 4 /\ k[1] = "accounts" /\ k[3] = "streams"
    BY <1>2
  <2> HIDE DEF l
  <2>5. /\ k \o l \in Seq(Segments) /\ Len(k \o l) = Len(k) + Len(l)
        /\ \A i \in 1..Len(k) + Len(l) :
             (k \o l)[i] = IF i <= Len(k) THEN k[i] ELSE l[i - Len(k)]
    BY <2>2, <2>4, ConcatProperties
  <2> QED
    BY <2>2, <2>3, <2>4, <2>5, SMTT(30)
<1>4. \A n \in {<<"accounts", "bob", "values", c>> : c \in Cids} :
        n \in Seq(Segments) /\ Len(n) = 4 /\ n[1] = "accounts" /\ n[3] = "values"
  <2> TAKE n \in {<<"accounts", "bob", "values", c>> : c \in Cids}
  <2>1. PICK c \in Cids : n = <<"accounts", "bob", "values", c>>
    OBVIOUS
  <2>2. c \in Segments /\ "accounts" \in Segments /\ "bob" \in Segments /\ "values" \in Segments
    BY DEF Segments
  <2> QED
    BY <2>1, <2>2
<1>5. \A n \in CidFields \ {Unset} : n \in Seq(Segments) /\ Len(n) = 1
  BY DEF CidFields, Segments
<1> QED
  BY <1>1, <1>2, <1>3, <1>4, <1>5

\* A field between what an annotation has before and after it.
Joins(a, n, b) ==
  LET p == PathOf(a, n, b)
  IN  /\ Len(p) = Len(a) + Len(n) + Len(b)
      /\ \A i \in 1..Len(a) : p[i] = a[i]
      /\ \A i \in Len(a) + 1..Len(a) + Len(n) : p[i] = n[i - Len(a)]
      /\ \A i \in 1..Len(b) : p[Len(a) + Len(n) + i] = b[i]
      /\ SubSeq(p, Len(a) + 1, Len(a) + Len(n)) = n

LEMMA ConcatHead ==
  ASSUME NEW S, NEW s \in Seq(S), NEW t \in Seq(S)
  PROVE  \A i \in 1..Len(s) : (s \o t)[i] = s[i]
OBVIOUS

LEMMA ConcatTail ==
  ASSUME NEW S, NEW s \in Seq(S), NEW t \in Seq(S)
  PROVE  \A i \in 1..Len(t) : (s \o t)[Len(s) + i] = t[i]
OBVIOUS

LEMMA Middle ==
  ASSUME NEW S, NEW a \in Seq(S), NEW n \in Seq(S), NEW b \in Seq(S)
  PROVE  Joins(a, n, b)
<1> DEFINE c == a \o n
           p == c \o b
           s == SubSeq(p, Len(a) + 1, Len(a) + Len(n))
<1>1. Len(a) \in Nat /\ Len(n) \in Nat /\ Len(b) \in Nat
  OBVIOUS
<1>2. c \in Seq(S) /\ Len(c) = Len(a) + Len(n)
  OBVIOUS
<1>3. (\A i \in 1..Len(a) : c[i] = a[i]) /\ (\A i \in 1..Len(n) : c[Len(a) + i] = n[i])
  OBVIOUS
<1> HIDE DEF c
<1>4. p \in Seq(S) /\ Len(p) = Len(c) + Len(b)
  <2>1. c \in Seq(S)
    BY <1>2
  <2> QED
    BY <2>1, ConcatProperties
<1>5. (\A i \in 1..Len(c) : p[i] = c[i]) /\ (\A i \in 1..Len(b) : p[Len(c) + i] = b[i])
  <2>1. c \in Seq(S)
    BY <1>2
  <2>2. \A i \in 1..Len(c) : p[i] = c[i]
    BY <2>1, ConcatHead
  <2>3. \A i \in 1..Len(b) : p[Len(c) + i] = b[i]
    BY <2>1, ConcatTail
  <2> QED
    BY <2>2, <2>3
<1> HIDE DEF p
<1>6. s \in Seq(S) /\ Len(s) = Len(n)
  BY <1>1, <1>2, <1>4
<1>7. \A i \in 1..Len(n) : s[i] = p[Len(a) + i]
  BY <1>1, <1>2, <1>4, SMTT(30)
<1> HIDE DEF s
<1>8. \A i \in 1..Len(n) : p[Len(a) + i] = n[i]
  BY <1>1, <1>2, <1>3, <1>5
<1>9. s = n
  BY <1>6, <1>7, <1>8, SeqEqual
<1>10. \A i \in Len(a) + 1..Len(a) + Len(n) : p[i] = n[i - Len(a)]
  <2> TAKE i \in Len(a) + 1..Len(a) + Len(n)
  <2> DEFINE j == i - Len(a)
  <2>1. j \in 1..Len(n) /\ Len(a) + j = i
    BY <1>1
  <2> HIDE DEF j
  <2>2. p[i] = n[j]
    BY <1>8, <2>1
  <2> QED
    BY <2>2 DEF j
<1>11. /\ Len(p) = Len(a) + Len(n) + Len(b)
       /\ \A i \in 1..Len(a) : p[i] = a[i]
       /\ \A i \in 1..Len(b) : p[Len(a) + Len(n) + i] = b[i]
  BY <1>1, <1>2, <1>3, <1>4, <1>5
<1> QED
  BY <1>9, <1>10, <1>11 DEF c, p, s, PathOf, Joins

LEMMA FixedPath ==
  ASSUME NEW c, NEW d
  PROVE  LET p == PathOf(<<c, d>>, <<>>, <<>>)
         IN  Len(p) = 2 /\ p[1] = c /\ p[2] = d
<1> DEFINE a == <<c, d>>
           b == <<>>
<1>1. /\ a \in Seq({c, d}) /\ b \in Seq({c, d}) /\ Len(a) = 2 /\ Len(b) = 0
      /\ a[1] = c /\ a[2] = d
  OBVIOUS
<1> HIDE DEF a, b
<1>2. Joins(a, b, b)
  BY <1>1, Middle
<1>3. LET p == PathOf(a, b, b)
      IN  Len(p) = 2 /\ p[1] = c /\ p[2] = d
  BY <1>1, <1>2 DEF Joins
<1> QED
  BY <1>3 DEF a, b

\* A path that is v1, the name n and, for an operation on its values, values.
NamePath(p, n) ==
  /\ Len(p) = 1 + Len(n) /\ SubSeq(p, 2, 1 + Len(n)) = n
  /\ p[1] = "v1" /\ \A i \in 2..Len(n) + 1 : p[i] = n[i - 1]

ParentPath(p, n) ==
  /\ Len(p) = 2 + Len(n) /\ SubSeq(p, 2, 1 + Len(n)) = n
  /\ p[1] = "v1" /\ \A i \in 2..Len(n) + 1 : p[i] = n[i - 1]
  /\ p[Len(n) + 2] = "values"

LEMMA NamePaths ==
  ASSUME NEW n \in Seq(Segments)
  PROVE  NamePath(PathOf(<<"v1">>, n, <<>>), n)
<1> DEFINE a == <<"v1">>
           b == <<>>
<1>1. /\ a \in Seq(Segments) /\ b \in Seq(Segments) /\ Len(a) = 1 /\ Len(b) = 0
      /\ a[1] = "v1" /\ Len(n) \in Nat
  BY DEF Segments
<1> HIDE DEF a, b
<1>2. Joins(a, n, b)
  BY <1>1, Middle
<1>3. NamePath(PathOf(a, n, b), n)
  BY <1>1, <1>2 DEF Joins, NamePath
<1> QED
  BY <1>3 DEF a, b

LEMMA ParentPaths ==
  ASSUME NEW n \in Seq(Segments)
  PROVE  ParentPath(PathOf(<<"v1">>, n, <<"values">>), n)
<1> DEFINE a == <<"v1">>
           b == <<"values">>
<1>1. /\ a \in Seq(Segments) /\ b \in Seq(Segments) /\ Len(a) = 1 /\ Len(b) = 1
      /\ a[1] = "v1" /\ b[1] = "values" /\ Len(n) \in Nat
  BY DEF Segments
<1> HIDE DEF a, b
<1>2. Joins(a, n, b)
  BY <1>1, Middle
<1>3. LET p == PathOf(a, n, b)
      IN  /\ Len(p) = 2 + Len(n) /\ SubSeq(p, 2, 1 + Len(n)) = n
          /\ p[1] = "v1" /\ \A i \in 2..Len(n) + 1 : p[i] = n[i - 1]
  BY <1>1, <1>2 DEF Joins
<1>4. PathOf(a, n, b)[Len(n) + 2] = "values"
  BY <1>1, <1>2 DEF Joins
<1>5. ParentPath(PathOf(a, n, b), n)
  BY <1>3, <1>4 DEF ParentPath
<1> QED
  BY <1>5 DEF a, b

LEMMA CidPath ==
  ASSUME NEW n \in Seq(Segments), Len(n) = 1
  PROVE  LET p == PathOf(<<"routing", "v1", "providers">>, n, <<>>)
         IN  /\ Len(p) = 4 /\ SubSeq(p, 4, 4) = n
             /\ p[1] = "routing" /\ p[2] = "v1" /\ p[3] = "providers"
<1> DEFINE a == <<"routing", "v1", "providers">>
           b == <<>>
<1>1. /\ a \in Seq(Segments) /\ b \in Seq(Segments) /\ Len(a) = 3 /\ Len(b) = 0
      /\ a[1] = "routing" /\ a[2] = "v1" /\ a[3] = "providers"
  BY DEF Segments
<1> HIDE DEF a, b
<1>2. Joins(a, n, b)
  BY <1>1, Middle
<1>3. LET p == PathOf(a, n, b)
      IN  /\ Len(p) = 4 /\ SubSeq(p, 4, 4) = n
          /\ p[1] = "routing" /\ p[2] = "v1" /\ p[3] = "providers"
  BY <1>1, <1>2 DEF Joins
<1> QED
  BY <1>3 DEF a, b

-----------------------------------------------------------------------------
(* Routing                                                                 *)


\* The one procedure whose pattern a request can match.
Owner(q) ==
  IF q.verb = "prolong" THEN "ProlongValue"
  ELSE IF q.verb = "register" THEN "RegisterInstance"
  ELSE IF q.verb = "create"
  THEN IF Len(q.path) = 6 THEN "CreateStreamValue"
       ELSE IF q.path[2] = "values" THEN "CreateValue"
       ELSE "CreateSession"
  ELSE IF Len(q.path) = 3 THEN "GetValue"
  ELSE IF Len(q.path) = 7 THEN "GetStreamValue"
  ELSE IF Len(q.path) = 6 THEN "ListStreamValues"
  ELSE IF Len(q.path) = 4 THEN "DelegatedRouting"
  ELSE IF q.path[2] = "searchCid" THEN "SearchCid"
  ELSE IF q.path[2] = "ping" THEN "Ping"
  ELSE "SearchInstance"

LEMMA PatternOwner ==
  ASSUME NEW r \in RPCs, NEW q, Matches(pattern(r), q)
  PROVE  Owner(q) = r
<1> DEFINE Owned(x) == \A y, p : p = pattern(x) /\ Matches(p, y) => Owner(y) = x
<1>1. Owned("CreateValue")
  <2> SUFFICES ASSUME NEW y, NEW p, p = pattern("CreateValue"), Matches(p, y)
               PROVE  Owner(y) = "CreateValue"
    BY Zenon
  <2>1. p = Pattern("POST", <<"v1", "values">>, "create", {}, 1, 0)
    BY PatternTable, Zenon
  <2>2. /\ y.method = p.method /\ y.verb = p.verb /\ Len(y.path) = Len(p.segments)
        /\ Len(y.path) = 2 => p.segments[2] \in {"*", y.path[2]}
    BY Z3 DEF Matches
  <2>3. p.verb = "create" /\ p.segments = <<"v1", "values">>
    BY <2>1 DEF Pattern
  <2>4. Len(<<"v1", "values">>) = 2 /\ <<"v1", "values">>[2] = "values"
    OBVIOUS
  <2>5. /\ y.verb = "create" /\ Len(y.path) = 2
        /\ Len(y.path) = 2 => y.path[2] = "values"
    BY <2>2, <2>3, <2>4
  <2> QED
    BY <2>5 DEF Owner
<1>2. Owned("CreateStreamValue")
  <2> SUFFICES ASSUME NEW y, NEW p, p = pattern("CreateStreamValue"), Matches(p, y)
               PROVE  Owner(y) = "CreateStreamValue"
    BY Zenon
  <2>1. p = Pattern("POST", <<"v1", "accounts", "*", "streams", "*", "values">>, "create",
                      {"parent"}, 2, 5)
    BY PatternTable, Zenon
  <2>2. /\ y.method = p.method /\ y.verb = p.verb /\ Len(y.path) = Len(p.segments)
        /\ Len(y.path) = 2 => p.segments[2] \in {"*", y.path[2]}
    BY Z3 DEF Matches
  <2>3. p.verb = "create" /\ p.segments = <<"v1", "accounts", "*", "streams", "*", "values">>
    BY <2>1 DEF Pattern
  <2>4. /\ Len(<<"v1", "accounts", "*", "streams", "*", "values">>) = 6
        /\ <<"v1", "accounts", "*", "streams", "*", "values">>[2] = "accounts"
    OBVIOUS
  <2>5. /\ y.verb = "create" /\ Len(y.path) = 6
        /\ Len(y.path) = 2 => y.path[2] = "accounts"
    BY <2>2, <2>3, <2>4
  <2> QED
    BY <2>5 DEF Owner
<1>3. Owned("GetValue")
  <2> SUFFICES ASSUME NEW y, NEW p, p = pattern("GetValue"), Matches(p, y)
               PROVE  Owner(y) = "GetValue"
    BY Zenon
  <2>1. p = Pattern("GET", <<"v1", "values", "*">>, "none", {"name"}, 2, 3)
    BY PatternTable, Zenon
  <2>2. /\ y.method = p.method /\ y.verb = p.verb /\ Len(y.path) = Len(p.segments)
        /\ Len(y.path) = 2 => p.segments[2] \in {"*", y.path[2]}
    BY Z3 DEF Matches
  <2>3. p.verb = "none" /\ p.segments = <<"v1", "values", "*">>
    BY <2>1 DEF Pattern
  <2>4. Len(<<"v1", "values", "*">>) = 3 /\ <<"v1", "values", "*">>[2] = "values"
    OBVIOUS
  <2>5. /\ y.verb = "none" /\ Len(y.path) = 3
        /\ Len(y.path) = 2 => y.path[2] = "values"
    BY <2>2, <2>3, <2>4
  <2> QED
    BY <2>5 DEF Owner
<1>4. Owned("GetStreamValue")
  <2> SUFFICES ASSUME NEW y, NEW p, p = pattern("GetStreamValue"), Matches(p, y)
               PROVE  Owner(y) = "GetStreamValue"
    BY Zenon
  <2>1. p = Pattern("GET", <<"v1", "accounts", "*", "streams", "*", "values", "*">>, "none",
                      {"name"}, 2, 7)
    BY PatternTable, Zenon
  <2>2. /\ y.method = p.method /\ y.verb = p.verb /\ Len(y.path) = Len(p.segments)
        /\ Len(y.path) = 2 => p.segments[2] \in {"*", y.path[2]}
    BY Z3 DEF Matches
  <2>3. p.verb = "none" /\ p.segments = <<"v1", "accounts", "*", "streams", "*", "values", "*">>
    BY <2>1 DEF Pattern
  <2>4. /\ Len(<<"v1", "accounts", "*", "streams", "*", "values", "*">>) = 7
        /\ <<"v1", "accounts", "*", "streams", "*", "values", "*">>[2] = "accounts"
    OBVIOUS
  <2>5. /\ y.verb = "none" /\ Len(y.path) = 7
        /\ Len(y.path) = 2 => y.path[2] = "accounts"
    BY <2>2, <2>3, <2>4
  <2> QED
    BY <2>5 DEF Owner
<1>5. Owned("ListStreamValues")
  <2> SUFFICES ASSUME NEW y, NEW p, p = pattern("ListStreamValues"), Matches(p, y)
               PROVE  Owner(y) = "ListStreamValues"
    BY Zenon
  <2>1. p = Pattern("GET", <<"v1", "accounts", "*", "streams", "*", "values">>, "none",
                      {"parent"}, 2, 5)
    BY PatternTable, Zenon
  <2>2. /\ y.method = p.method /\ y.verb = p.verb /\ Len(y.path) = Len(p.segments)
        /\ Len(y.path) = 2 => p.segments[2] \in {"*", y.path[2]}
    BY Z3 DEF Matches
  <2>3. p.verb = "none" /\ p.segments = <<"v1", "accounts", "*", "streams", "*", "values">>
    BY <2>1 DEF Pattern
  <2>4. /\ Len(<<"v1", "accounts", "*", "streams", "*", "values">>) = 6
        /\ <<"v1", "accounts", "*", "streams", "*", "values">>[2] = "accounts"
    OBVIOUS
  <2>5. /\ y.verb = "none" /\ Len(y.path) = 6
        /\ Len(y.path) = 2 => y.path[2] = "accounts"
    BY <2>2, <2>3, <2>4
  <2> QED
    BY <2>5 DEF Owner
<1>6. Owned("ProlongValue")
  <2> SUFFICES ASSUME NEW y, NEW p, p = pattern("ProlongValue"), Matches(p, y)
               PROVE  Owner(y) = "ProlongValue"
    BY Zenon
  <2>1. p = Pattern("POST", <<"v1", "accounts", "*", "values", "*">>, "prolong",
                      {"name"}, 2, 5)
    BY PatternTable, Zenon
  <2>2. /\ y.method = p.method /\ y.verb = p.verb /\ Len(y.path) = Len(p.segments)
        /\ Len(y.path) = 2 => p.segments[2] \in {"*", y.path[2]}
    BY Z3 DEF Matches
  <2>3. p.verb = "prolong" /\ p.segments = <<"v1", "accounts", "*", "values", "*">>
    BY <2>1 DEF Pattern
  <2>4. /\ Len(<<"v1", "accounts", "*", "values", "*">>) = 5
        /\ <<"v1", "accounts", "*", "values", "*">>[2] = "accounts"
    OBVIOUS
  <2>5. /\ y.verb = "prolong" /\ Len(y.path) = 5
        /\ Len(y.path) = 2 => y.path[2] = "accounts"
    BY <2>2, <2>3, <2>4
  <2> QED
    BY <2>5 DEF Owner
<1>7. Owned("SearchCid")
  <2> SUFFICES ASSUME NEW y, NEW p, p = pattern("SearchCid"), Matches(p, y)
               PROVE  Owner(y) = "SearchCid"
    BY Zenon
  <2>1. p = Pattern("GET", <<"v1", "searchCid">>, "none", {}, 1, 0)
    BY PatternTable, Zenon
  <2>2. /\ y.method = p.method /\ y.verb = p.verb /\ Len(y.path) = Len(p.segments)
        /\ Len(y.path) = 2 => p.segments[2] \in {"*", y.path[2]}
    BY Z3 DEF Matches
  <2>3. p.verb = "none" /\ p.segments = <<"v1", "searchCid">>
    BY <2>1 DEF Pattern
  <2>4. Len(<<"v1", "searchCid">>) = 2 /\ <<"v1", "searchCid">>[2] = "searchCid"
    OBVIOUS
  <2>5. /\ y.verb = "none" /\ Len(y.path) = 2
        /\ Len(y.path) = 2 => y.path[2] = "searchCid"
    BY <2>2, <2>3, <2>4
  <2> QED
    BY <2>5 DEF Owner
<1>8. Owned("SearchInstance")
  <2> SUFFICES ASSUME NEW y, NEW p, p = pattern("SearchInstance"), Matches(p, y)
               PROVE  Owner(y) = "SearchInstance"
    BY Zenon
  <2>1. p = Pattern("GET", <<"v1", "SearchInstance">>, "none", {}, 1, 0)
    BY PatternTable, Zenon
  <2>2. /\ y.method = p.method /\ y.verb = p.verb /\ Len(y.path) = Len(p.segments)
        /\ Len(y.path) = 2 => p.segments[2] \in {"*", y.path[2]}
    BY Z3 DEF Matches
  <2>3. p.verb = "none" /\ p.segments = <<"v1", "SearchInstance">>
    BY <2>1 DEF Pattern
  <2>4. Len(<<"v1", "SearchInstance">>) = 2 /\ <<"v1", "SearchInstance">>[2] = "SearchInstance"
    OBVIOUS
  <2>5. /\ y.verb = "none" /\ Len(y.path) = 2
        /\ Len(y.path) = 2 => y.path[2] = "SearchInstance"
    BY <2>2, <2>3, <2>4
  <2> QED
    BY <2>5 DEF Owner
<1>9. Owned("CreateSession")
  <2> SUFFICES ASSUME NEW y, NEW p, p = pattern("CreateSession"), Matches(p, y)
               PROVE  Owner(y) = "CreateSession"
    BY Zenon
  <2>1. p = Pattern("POST", <<"v1", "sessions">>, "create", {}, 1, 0)
    BY PatternTable, Zenon
  <2>2. /\ y.method = p.method /\ y.verb = p.verb /\ Len(y.path) = Len(p.segments)
        /\ Len(y.path) = 2 => p.segments[2] \in {"*", y.path[2]}
    BY Z3 DEF Matches
  <2>3. p.verb = "create" /\ p.segments = <<"v1", "sessions">>
    BY <2>1 DEF Pattern
  <2>4. Len(<<"v1", "sessions">>) = 2 /\ <<"v1", "sessions">>[2] = "sessions"
    OBVIOUS
  <2>5. /\ y.verb = "create" /\ Len(y.path) = 2
        /\ Len(y.path) = 2 => y.path[2] = "sessions"
    BY <2>2, <2>3, <2>4
  <2> QED
    BY <2>5 DEF Owner
<1>10. Owned("RegisterInstance")
  <2> SUFFICES ASSUME NEW y, NEW p, p = pattern("RegisterInstance"), Matches(p, y)
               PROVE  Owner(y) = "RegisterInstance"
    BY Zenon
  <2>1. p = Pattern("POST", <<"v1", "instance">>, "register", {}, 1, 0)
    BY PatternTable, Zenon
  <2>2. /\ y.method = p.method /\ y.verb = p.verb /\ Len(y.path) = Len(p.segments)
        /\ Len(y.path) = 2 => p.segments[2] \in {"*", y.path[2]}
    BY Z3 DEF Matches
  <2>3. p.verb = "register" /\ p.segments = <<"v1", "instance">>
    BY <2>1 DEF Pattern
  <2>4. Len(<<"v1", "instance">>) = 2 /\ <<"v1", "instance">>[2] = "instance"
    OBVIOUS
  <2>5. /\ y.verb = "register" /\ Len(y.path) = 2
        /\ Len(y.path) = 2 => y.path[2] = "instance"
    BY <2>2, <2>3, <2>4
  <2> QED
    BY <2>5 DEF Owner
<1>11. Owned("Ping")
  <2> SUFFICES ASSUME NEW y, NEW p, p = pattern("Ping"), Matches(p, y)
               PROVE  Owner(y) = "Ping"
    BY Zenon
  <2>1. p = Pattern("GET", <<"v1", "ping">>, "none", {}, 1, 0)
    BY PatternTable, Zenon
  <2>2. /\ y.method = p.method /\ y.verb = p.verb /\ Len(y.path) = Len(p.segments)
        /\ Len(y.path) = 2 => p.segments[2] \in {"*", y.path[2]}
    BY Z3 DEF Matches
  <2>3. p.verb = "none" /\ p.segments = <<"v1", "ping">>
    BY <2>1 DEF Pattern
  <2>4. Len(<<"v1", "ping">>) = 2 /\ <<"v1", "ping">>[2] = "ping"
    OBVIOUS
  <2>5. /\ y.verb = "none" /\ Len(y.path) = 2
        /\ Len(y.path) = 2 => y.path[2] = "ping"
    BY <2>2, <2>3, <2>4
  <2> QED
    BY <2>5 DEF Owner
<1>12. Owned("DelegatedRouting")
  <2> SUFFICES ASSUME NEW y, NEW p, p = pattern("DelegatedRouting"), Matches(p, y)
               PROVE  Owner(y) = "DelegatedRouting"
    BY Zenon
  <2>1. p = Pattern("GET", <<"routing", "v1", "providers", "*">>, "none", {"cid"}, 4, 4)
    BY PatternTable, Zenon
  <2>2. /\ y.method = p.method /\ y.verb = p.verb /\ Len(y.path) = Len(p.segments)
        /\ Len(y.path) = 2 => p.segments[2] \in {"*", y.path[2]}
    BY Z3 DEF Matches
  <2>3. p.verb = "none" /\ p.segments = <<"routing", "v1", "providers", "*">>
    BY <2>1 DEF Pattern
  <2>4. /\ Len(<<"routing", "v1", "providers", "*">>) = 4
        /\ <<"routing", "v1", "providers", "*">>[2] = "v1"
    OBVIOUS
  <2>5. /\ y.verb = "none" /\ Len(y.path) = 4
        /\ Len(y.path) = 2 => y.path[2] = "v1"
    BY <2>2, <2>3, <2>4
  <2> QED
    BY <2>5 DEF Owner
<1> HIDE DEF Owned
<1>13. Owned(r)
  BY <1>1, <1>2, <1>3, <1>4, <1>5, <1>6, <1>7, <1>8, <1>9, <1>10, <1>11, <1>12 DEF RPCs
<1> QED
  BY <1>13 DEF Owned

\* The gateway has no route but the procedure's own, and its handler sends the
\* message the client means and no other; a prolonging by the documented name
\* has no route.
Delivers(rpc, m, q) ==
  /\ Owner(q) = rpc /\ q.method \in {"GET", "POST"}
  /\ \/ /\ Matches(pattern(rpc), q)
        /\ Assemble(rpc, q, PathParams(pattern(rpc), q)) \subseteq {m}
        /\ q.queryOk /\ q.bodyOk => m \in Assemble(rpc, q, PathParams(pattern(rpc), q))
     \/ ~Matches(pattern(rpc), q) /\ rpc = "ProlongValue" /\ m["name"] \in ValueNames

LEMMA Delivered ==
  ASSUME NEW rpc \in RPCs, NEW m \in Requests(rpc), NEW q \in DocumentedRequests(rpc, m)
  PROVE  Delivers(rpc, m, q)
<1> DEFINE All(r) ==
             \A n \in Requests(r) : \A y \in DocumentedRequests(r, n) : Delivers(r, n, y)
<1>1. All("CreateValue")
  <2> SUFFICES ASSUME NEW n \in Requests("CreateValue"),
                      NEW y \in DocumentedRequests("CreateValue", n)
               PROVE  Delivers("CreateValue", n, y)
    OBVIOUS
  <2>0. PICK p : p = pattern("CreateValue")
    OBVIOUS
  <2>1. HttpRule("CreateValue")
          = Annotation("POST", <<"v1", "values">>, "none", <<>>, "create", "value")
    BY RuleTable, Zenon
  <2>2. /\ n \in CreateValueRequest /\ FieldsOf("CreateValue") = DOMAIN n
        /\ n = [f \in DOMAIN n |-> n[f]]
        /\ DOMAIN n = {"codec", "value", "ttl"}
    BY RequestTable, FieldTable
  <2>3. /\ Bound("CreateValue") = {} /\ InBody("CreateValue") = {"value"}
        /\ InQuery("CreateValue") = {"codec", "ttl"}
    BY <2>1, <2>2 DEF Bound, InBody, InQuery, Annotation
  <2>4. Carries("CreateValue", n, y)
    BY RequestCarries
  <2>5. /\ y.method = "POST" /\ y.verb = "create"
        /\ y.path = PathOf(<<"v1", "values">>, <<>>, <<>>)
        /\ \A f \in {"codec", "ttl"} : f \in DOMAIN y.query /\ y.query[f] = n[f]
        /\ \A f \in {"value"} : f \in DOMAIN y.body /\ y.body[f] = n[f]
        /\ DOMAIN y.body = {"value"}
    <3>1. PICK rule : rule = HttpRule("CreateValue")
      OBVIOUS
    <3>2. /\ rule.method = "POST" /\ rule.before = <<"v1", "values">> /\ rule.bound = "none"
          /\ rule.after = <<>> /\ rule.verb = "create" /\ rule.body = "value"
      BY <2>1, <3>1 DEF Annotation
    <3>3. /\ y.method = rule.method /\ y.verb = rule.verb
          /\ y.path = PathOf(rule.before, <<>>, rule.after)
      BY <2>3, <2>4, <3>1 DEF Carries
    <3>4. /\ y.method = "POST" /\ y.verb = "create"
          /\ y.path = PathOf(<<"v1", "values">>, <<>>, <<>>)
      BY <3>2, <3>3, Zenon
    <3> QED
      BY <2>3, <2>4, <3>1, <3>2, <3>4 DEF Carries
  <2>6. p = Pattern("POST", <<"v1", "values">>, "create", {}, 1, 0)
    BY <2>0, PatternTable, Zenon
  <2>7. /\ p.method = "POST" /\ p.verb = "create" /\ p.segments = <<"v1", "values">>
        /\ p.param = {} /\ p.from = 1 /\ p.to = 0
    BY <2>6 DEF Pattern
  <2>8. Len(y.path) = 2 /\ y.path[1] = "v1" /\ y.path[2] = "values"
    BY <2>5, FixedPath
  <2>9. Matches(p, y)
    <3>1. p.method = "POST" /\ p.verb = "create"
      BY <2>7
    <3>2. /\ Len(p.segments) = 2
          /\ p.segments[1] = "v1" /\ p.segments[2] = "values"
      BY <2>7
    <3>3. ASSUME NEW i \in 1..2
          PROVE  p.segments[i] \in {"*", y.path[i]}
      <4>1. i = 1 \/ i = 2
        OBVIOUS
      <4> QED
        BY <2>8, <3>2, <4>1
    <3> QED
      BY <2>5, <2>8, <3>1, <3>2, <3>3 DEF Matches
  <2>10. Owner(y) = "CreateValue"
    BY <2>0, <2>9, PatternOwner DEF RPCs
  <2> DEFINE x == Populate(Populate(Blank("CreateValue"), y.body, {}), y.query, {"value"})
  <2>11. /\ DOMAIN x = DOMAIN n /\ x = [f \in DOMAIN x |-> x[f]]
         /\ x["codec"] = n["codec"] /\ x["value"] = n["value"] /\ x["ttl"] = n["ttl"]
    BY <2>2, <2>5 DEF Populate, Blank
  <2> HIDE DEF x
  <2>12. x = n
    BY <2>2, <2>11
  <2>13. Assemble("CreateValue", y, PathParams(p, y)) = request_CreateValue(y, PathParams(p, y))
    BY HandlerTable, Zenon
  <2>14. /\ Assemble("CreateValue", y, PathParams(p, y)) \subseteq {n}
         /\ y.queryOk /\ y.bodyOk => n \in Assemble("CreateValue", y, PathParams(p, y))
    BY <2>12, <2>13 DEF x, request_CreateValue, Parsed
  <2> QED
    BY <2>0, <2>5, <2>9, <2>10, <2>14 DEF Delivers
<1>2. All("CreateStreamValue")
  <2> SUFFICES ASSUME NEW n \in Requests("CreateStreamValue"),
                      NEW y \in DocumentedRequests("CreateStreamValue", n)
               PROVE  Delivers("CreateStreamValue", n, y)
    OBVIOUS
  <2>0. PICK p : p = pattern("CreateStreamValue")
    OBVIOUS
  <2>1. HttpRule("CreateStreamValue")
          = Annotation("POST", <<"v1">>, "parent", <<"values">>, "create", "value")
    BY RuleTable, Zenon
  <2>2. /\ n \in CreateStreamValueRequest /\ FieldsOf("CreateStreamValue") = DOMAIN n
        /\ n = [f \in DOMAIN n |-> n[f]]
        /\ DOMAIN n = {"parent", "value"}
    BY RequestTable, FieldTable
  <2>3. /\ Bound("CreateStreamValue") = {"parent"} /\ InBody("CreateStreamValue") = {"value"}
        /\ InQuery("CreateStreamValue") = {}
    BY <2>1, <2>2 DEF Bound, InBody, InQuery, Annotation
  <2>4. Carries("CreateStreamValue", n, y)
    BY RequestCarries
  <2>5. /\ y.method = "POST" /\ y.verb = "create"
        /\ y.path = PathOf(<<"v1">>, n["parent"], <<"values">>)
        /\ \A f \in {"value"} : f \in DOMAIN y.body /\ y.body[f] = n[f]
        /\ DOMAIN y.body = {"value"}
    <3>1. PICK rule : rule = HttpRule("CreateStreamValue")
      OBVIOUS
    <3>2. /\ rule.method = "POST" /\ rule.before = <<"v1">> /\ rule.bound = "parent"
          /\ rule.after = <<"values">> /\ rule.verb = "create" /\ rule.body = "value"
      BY <2>1, <3>1 DEF Annotation
    <3>3. /\ y.method = rule.method /\ y.verb = rule.verb
          /\ y.path = PathOf(rule.before, n[rule.bound], rule.after)
      BY <2>3, <2>4, <3>1 DEF Carries
    <3>4. /\ y.method = "POST" /\ y.verb = "create"
          /\ y.path = PathOf(<<"v1">>, n["parent"], <<"values">>)
      BY <3>2, <3>3, Zenon
    <3> QED
      BY <2>3, <2>4, <3>1, <3>2, <3>4 DEF Carries
  <2>6. p = Pattern("POST", <<"v1", "accounts", "*", "streams", "*", "values">>, "create",
                      {"parent"}, 2, 5)
    BY <2>0, PatternTable, Zenon
  <2>7. /\ p.method = "POST" /\ p.verb = "create"
        /\ p.segments = <<"v1", "accounts", "*", "streams", "*", "values">>
        /\ p.param = {"parent"} /\ p.from = 2 /\ p.to = 5
    BY <2>6 DEF Pattern
  <2>8. n["parent"] \in StreamNames
    BY <2>2 DEF CreateStreamValueRequest
  <2>9. /\ n["parent"] \in Seq(Segments) /\ Len(n["parent"]) = 4
        /\ n["parent"][1] = "accounts" /\ n["parent"][3] = "streams"
    BY <2>8, NameShapes
  <2>10. /\ Len(y.path) = 6 /\ y.path[1] = "v1" /\ y.path[2] = "accounts"
         /\ y.path[4] = "streams" /\ y.path[6] = "values"
         /\ SubSeq(y.path, 2, 5) = n["parent"]
    <3>1. PICK k : k = n["parent"]
      OBVIOUS
    <3>2. ParentPath(y.path, k)
      BY <2>5, <2>9, <3>1, ParentPaths
    <3>3. Len(k) = 4 /\ k[1] = "accounts" /\ k[3] = "streams"
      BY <2>9, <3>1
    <3> QED
      BY <3>1, <3>2, <3>3 DEF ParentPath
  <2>11. Matches(p, y)
    <3>1. p.method = "POST" /\ p.verb = "create"
      BY <2>7
    <3>2. /\ Len(p.segments) = 6
          /\ p.segments[1] = "v1" /\ p.segments[2] = "accounts" /\ p.segments[3] = "*"
          /\ p.segments[4] = "streams" /\ p.segments[5] = "*" /\ p.segments[6] = "values"
      BY <2>7
    <3>3. ASSUME NEW i \in 1..6
          PROVE  p.segments[i] \in {"*", y.path[i]}
      <4>1. i = 1 \/ i = 2 \/ i = 3 \/ i = 4 \/ i = 5 \/ i = 6
        OBVIOUS
      <4> QED
        BY <2>10, <3>2, <4>1
    <3> QED
      BY <2>5, <2>10, <3>1, <3>2, <3>3 DEF Matches
  <2>12. Owner(y) = "CreateStreamValue"
    BY <2>0, <2>11, PatternOwner DEF RPCs
  <2>13. /\ DOMAIN PathParams(p, y) = {"parent"}
         /\ PathParams(p, y)["parent"] = n["parent"]
    BY <2>7, <2>10 DEF PathParams
  <2> DEFINE x == Populate(Populate(Blank("CreateStreamValue"), y.body, {}), PathParams(p, y), {})
  <2>14. /\ DOMAIN x = DOMAIN n /\ x = [f \in DOMAIN x |-> x[f]]
         /\ x["parent"] = n["parent"] /\ x["value"] = n["value"]
    BY <2>2, <2>5, <2>13 DEF Populate, Blank
  <2> HIDE DEF x
  <2>15. x = n
    BY <2>2, <2>14
  <2>16. Assemble("CreateStreamValue", y, PathParams(p, y))
           = request_CreateStreamValue(y, PathParams(p, y))
    BY HandlerTable, Zenon
  <2>17. /\ Assemble("CreateStreamValue", y, PathParams(p, y)) \subseteq {n}
         /\ y.queryOk /\ y.bodyOk => n \in Assemble("CreateStreamValue", y, PathParams(p, y))
    BY <2>15, <2>16 DEF x, request_CreateStreamValue, Parsed
  <2> QED
    BY <2>0, <2>5, <2>11, <2>12, <2>17 DEF Delivers
<1>3. All("GetValue")
  <2> SUFFICES ASSUME NEW n \in Requests("GetValue"), NEW y \in DocumentedRequests("GetValue", n)
               PROVE  Delivers("GetValue", n, y)
    OBVIOUS
  <2>0. PICK p : p = pattern("GetValue")
    OBVIOUS
  <2>1. HttpRule("GetValue") = Annotation("GET", <<"v1">>, "name", <<>>, "none", "none")
    BY RuleTable, Zenon
  <2>2. /\ n \in GetValueRequest /\ FieldsOf("GetValue") = DOMAIN n
        /\ n = [f \in DOMAIN n |-> n[f]]
        /\ DOMAIN n = {"name"}
    BY RequestTable, FieldTable
  <2>3. /\ Bound("GetValue") = {"name"} /\ InBody("GetValue") = {}
        /\ InQuery("GetValue") = {}
    BY <2>1, <2>2 DEF Bound, InBody, InQuery, Annotation
  <2>4. Carries("GetValue", n, y)
    BY RequestCarries
  <2>5. /\ y.method = "GET" /\ y.verb = "none" /\ y.path = PathOf(<<"v1">>, n["name"], <<>>)
    <3>1. PICK rule : rule = HttpRule("GetValue")
      OBVIOUS
    <3>2. /\ rule.method = "GET" /\ rule.before = <<"v1">> /\ rule.bound = "name"
          /\ rule.after = <<>> /\ rule.verb = "none" /\ rule.body = "none"
      BY <2>1, <3>1 DEF Annotation
    <3>3. /\ y.method = rule.method /\ y.verb = rule.verb
          /\ y.path = PathOf(rule.before, n[rule.bound], rule.after)
      BY <2>3, <2>4, <3>1 DEF Carries
    <3>4. y.method = "GET" /\ y.verb = "none" /\ y.path = PathOf(<<"v1">>, n["name"], <<>>)
      BY <3>2, <3>3, Zenon
    <3> QED
      BY <2>3, <2>4, <3>1, <3>2, <3>4 DEF Carries
  <2>6. p = Pattern("GET", <<"v1", "values", "*">>, "none", {"name"}, 2, 3)
    BY <2>0, PatternTable, Zenon
  <2>7. /\ p.method = "GET" /\ p.verb = "none" /\ p.segments = <<"v1", "values", "*">>
        /\ p.param = {"name"} /\ p.from = 2 /\ p.to = 3
    BY <2>6 DEF Pattern
  <2>8. n["name"] \in ValueNames
    BY <2>2 DEF GetValueRequest
  <2>9. n["name"] \in Seq(Segments) /\ Len(n["name"]) = 2 /\ n["name"][1] = "values"
    BY <2>8, NameShapes
  <2>10. /\ Len(y.path) = 3 /\ y.path[1] = "v1" /\ y.path[2] = "values"
         /\ SubSeq(y.path, 2, 3) = n["name"]
    <3>1. PICK k : k = n["name"]
      OBVIOUS
    <3>2. NamePath(y.path, k)
      BY <2>5, <2>9, <3>1, NamePaths
    <3>3. Len(k) = 2 /\ k[1] = "values"
      BY <2>9, <3>1
    <3> QED
      BY <3>1, <3>2, <3>3 DEF NamePath
  <2>11. Matches(p, y)
    <3>1. p.method = "GET" /\ p.verb = "none"
      BY <2>7
    <3>2. /\ Len(p.segments) = 3
          /\ p.segments[1] = "v1" /\ p.segments[2] = "values" /\ p.segments[3] = "*"
      BY <2>7
    <3>3. ASSUME NEW i \in 1..3
          PROVE  p.segments[i] \in {"*", y.path[i]}
      <4>1. i = 1 \/ i = 2 \/ i = 3
        OBVIOUS
      <4> QED
        BY <2>10, <3>2, <4>1
    <3> QED
      BY <2>5, <2>10, <3>1, <3>2, <3>3 DEF Matches
  <2>12. Owner(y) = "GetValue"
    BY <2>0, <2>11, PatternOwner DEF RPCs
  <2>13. /\ DOMAIN PathParams(p, y) = {"name"}
         /\ PathParams(p, y)["name"] = n["name"]
    BY <2>7, <2>10 DEF PathParams
  <2> DEFINE x == Populate(Blank("GetValue"), PathParams(p, y), {})
  <2>14. /\ DOMAIN x = DOMAIN n /\ x = [f \in DOMAIN x |-> x[f]]
         /\ x["name"] = n["name"]
    BY <2>2, <2>5, <2>13 DEF Populate, Blank
  <2> HIDE DEF x
  <2>15. x = n
    BY <2>2, <2>14
  <2>16. Assemble("GetValue", y, PathParams(p, y)) = request_GetValue(y, PathParams(p, y))
    BY HandlerTable, Zenon
  <2>17. /\ Assemble("GetValue", y, PathParams(p, y)) \subseteq {n}
         /\ y.queryOk /\ y.bodyOk => n \in Assemble("GetValue", y, PathParams(p, y))
    BY <2>15, <2>16 DEF x, request_GetValue, Parsed
  <2> QED
    BY <2>0, <2>5, <2>11, <2>12, <2>17 DEF Delivers
<1>4. All("GetStreamValue")
  <2> SUFFICES ASSUME NEW n \in Requests("GetStreamValue"),
                      NEW y \in DocumentedRequests("GetStreamValue", n)
               PROVE  Delivers("GetStreamValue", n, y)
    OBVIOUS
  <2>0. PICK p : p = pattern("GetStreamValue")
    OBVIOUS
  <2>1. HttpRule("GetStreamValue") = Annotation("GET", <<"v1">>, "name", <<>>, "none", "none")
    BY RuleTable, Zenon
  <2>2. /\ n \in GetStreamValueRequest /\ FieldsOf("GetStreamValue") = DOMAIN n
        /\ n = [f \in DOMAIN n |-> n[f]]
        /\ DOMAIN n = {"name", "auth_token"}
    BY RequestTable, FieldTable
  <2>3. /\ Bound("GetStreamValue") = {"name"} /\ InBody("GetStreamValue") = {}
        /\ InQuery("GetStreamValue") = {"auth_token"}
    BY <2>1, <2>2 DEF Bound, InBody, InQuery, Annotation
  <2>4. Carries("GetStreamValue", n, y)
    BY RequestCarries
  <2>5. /\ y.method = "GET" /\ y.verb = "none" /\ y.path = PathOf(<<"v1">>, n["name"], <<>>)
        /\ \A f \in {"auth_token"} : f \in DOMAIN y.query /\ y.query[f] = n[f]
    <3>1. PICK rule : rule = HttpRule("GetStreamValue")
      OBVIOUS
    <3>2. /\ rule.method = "GET" /\ rule.before = <<"v1">> /\ rule.bound = "name"
          /\ rule.after = <<>> /\ rule.verb = "none" /\ rule.body = "none"
      BY <2>1, <3>1 DEF Annotation
    <3>3. /\ y.method = rule.method /\ y.verb = rule.verb
          /\ y.path = PathOf(rule.before, n[rule.bound], rule.after)
      BY <2>3, <2>4, <3>1 DEF Carries
    <3>4. y.method = "GET" /\ y.verb = "none" /\ y.path = PathOf(<<"v1">>, n["name"], <<>>)
      BY <3>2, <3>3, Zenon
    <3> QED
      BY <2>3, <2>4, <3>1, <3>2, <3>4 DEF Carries
  <2>6. p = Pattern("GET", <<"v1", "accounts", "*", "streams", "*", "values", "*">>, "none",
                      {"name"}, 2, 7)
    BY <2>0, PatternTable, Zenon
  <2>7. /\ p.method = "GET" /\ p.verb = "none"
        /\ p.segments = <<"v1", "accounts", "*", "streams", "*", "values", "*">>
        /\ p.param = {"name"} /\ p.from = 2 /\ p.to = 7
    BY <2>6 DEF Pattern
  <2>8. n["name"] \in EntryNames
    BY <2>2 DEF GetStreamValueRequest
  <2>9. /\ n["name"] \in Seq(Segments) /\ Len(n["name"]) = 6 /\ n["name"][1] = "accounts"
        /\ n["name"][3] = "streams" /\ n["name"][5] = "values"
    BY <2>8, NameShapes
  <2>10. /\ Len(y.path) = 7 /\ y.path[1] = "v1" /\ y.path[2] = "accounts"
         /\ y.path[4] = "streams" /\ y.path[6] = "values"
         /\ SubSeq(y.path, 2, 7) = n["name"]
    <3>1. PICK k : k = n["name"]
      OBVIOUS
    <3>2. NamePath(y.path, k)
      BY <2>5, <2>9, <3>1, NamePaths
    <3>3. Len(k) = 6 /\ k[1] = "accounts" /\ k[3] = "streams" /\ k[5] = "values"
      BY <2>9, <3>1
    <3> QED
      BY <3>1, <3>2, <3>3 DEF NamePath
  <2>11. Matches(p, y)
    <3>1. p.method = "GET" /\ p.verb = "none"
      BY <2>7
    <3>2. /\ Len(p.segments) = 7
          /\ p.segments[1] = "v1" /\ p.segments[2] = "accounts" /\ p.segments[3] = "*"
          /\ p.segments[4] = "streams" /\ p.segments[5] = "*" /\ p.segments[6] = "values"
          /\ p.segments[7] = "*"
      BY <2>7
    <3>3. ASSUME NEW i \in 1..7
          PROVE  p.segments[i] \in {"*", y.path[i]}
      <4>1. i = 1 \/ i = 2 \/ i = 3 \/ i = 4 \/ i = 5 \/ i = 6 \/ i = 7
        OBVIOUS
      <4> QED
        BY <2>10, <3>2, <4>1
    <3> QED
      BY <2>5, <2>10, <3>1, <3>2, <3>3 DEF Matches
  <2>12. Owner(y) = "GetStreamValue"
    BY <2>0, <2>11, PatternOwner DEF RPCs
  <2>13. /\ DOMAIN PathParams(p, y) = {"name"}
         /\ PathParams(p, y)["name"] = n["name"]
    BY <2>7, <2>10 DEF PathParams
  <2> DEFINE x ==
               Populate(Populate(Blank("GetStreamValue"), PathParams(p, y), {}), y.query, {"name"})
  <2>14. /\ DOMAIN x = DOMAIN n /\ x = [f \in DOMAIN x |-> x[f]]
         /\ x["name"] = n["name"] /\ x["auth_token"] = n["auth_token"]
    BY <2>2, <2>5, <2>13 DEF Populate, Blank
  <2> HIDE DEF x
  <2>15. x = n
    BY <2>2, <2>14
  <2>16. Assemble("GetStreamValue", y, PathParams(p, y))
           = request_GetStreamValue(y, PathParams(p, y))
    BY HandlerTable, Zenon
  <2>17. /\ Assemble("GetStreamValue", y, PathParams(p, y)) \subseteq {n}
         /\ y.queryOk /\ y.bodyOk => n \in Assemble("GetStreamValue", y, PathParams(p, y))
    BY <2>15, <2>16 DEF x, request_GetStreamValue, Parsed
  <2> QED
    BY <2>0, <2>5, <2>11, <2>12, <2>17 DEF Delivers
<1>5. All("ListStreamValues")
  <2> SUFFICES ASSUME NEW n \in Requests("ListStreamValues"),
                      NEW y \in DocumentedRequests("ListStreamValues", n)
               PROVE  Delivers("ListStreamValues", n, y)
    OBVIOUS
  <2>0. PICK p : p = pattern("ListStreamValues")
    OBVIOUS
  <2>1. HttpRule("ListStreamValues")
          = Annotation("GET", <<"v1">>, "parent", <<"values">>, "none", "none")
    BY RuleTable, Zenon
  <2>2. /\ n \in ListStreamValuesRequest /\ FieldsOf("ListStreamValues") = DOMAIN n
        /\ n = [f \in DOMAIN n |-> n[f]]
        /\ DOMAIN n = {"parent", "auth_token", "page_size", "page_token"}
    BY RequestTable, FieldTable
  <2>3. /\ Bound("ListStreamValues") = {"parent"} /\ InBody("ListStreamValues") = {}
        /\ InQuery("ListStreamValues") = {"auth_token", "page_size", "page_token"}
    BY <2>1, <2>2 DEF Bound, InBody, InQuery, Annotation
  <2>4. Carries("ListStreamValues", n, y)
    BY RequestCarries
  <2>5. /\ y.method = "GET" /\ y.verb = "none"
        /\ y.path = PathOf(<<"v1">>, n["parent"], <<"values">>)
        /\ \A f \in {"auth_token", "page_size", "page_token"} :
             f \in DOMAIN y.query /\ y.query[f] = n[f]
    <3>1. PICK rule : rule = HttpRule("ListStreamValues")
      OBVIOUS
    <3>2. /\ rule.method = "GET" /\ rule.before = <<"v1">> /\ rule.bound = "parent"
          /\ rule.after = <<"values">> /\ rule.verb = "none" /\ rule.body = "none"
      BY <2>1, <3>1 DEF Annotation
    <3>3. /\ y.method = rule.method /\ y.verb = rule.verb
          /\ y.path = PathOf(rule.before, n[rule.bound], rule.after)
      BY <2>3, <2>4, <3>1 DEF Carries
    <3>4. /\ y.method = "GET" /\ y.verb = "none"
          /\ y.path = PathOf(<<"v1">>, n["parent"], <<"values">>)
      BY <3>2, <3>3, Zenon
    <3> QED
      BY <2>3, <2>4, <3>1, <3>2, <3>4 DEF Carries
  <2>6. p = Pattern("GET", <<"v1", "accounts", "*", "streams", "*", "values">>, "none",
                      {"parent"}, 2, 5)
    BY <2>0, PatternTable, Zenon
  <2>7. /\ p.method = "GET" /\ p.verb = "none"
        /\ p.segments = <<"v1", "accounts", "*", "streams", "*", "values">>
        /\ p.param = {"parent"} /\ p.from = 2 /\ p.to = 5
    BY <2>6 DEF Pattern
  <2>8. n["parent"] \in StreamNames
    BY <2>2 DEF ListStreamValuesRequest
  <2>9. /\ n["parent"] \in Seq(Segments) /\ Len(n["parent"]) = 4
        /\ n["parent"][1] = "accounts" /\ n["parent"][3] = "streams"
    BY <2>8, NameShapes
  <2>10. /\ Len(y.path) = 6 /\ y.path[1] = "v1" /\ y.path[2] = "accounts"
         /\ y.path[4] = "streams" /\ y.path[6] = "values"
         /\ SubSeq(y.path, 2, 5) = n["parent"]
    <3>1. PICK k : k = n["parent"]
      OBVIOUS
    <3>2. ParentPath(y.path, k)
      BY <2>5, <2>9, <3>1, ParentPaths
    <3>3. Len(k) = 4 /\ k[1] = "accounts" /\ k[3] = "streams"
      BY <2>9, <3>1
    <3> QED
      BY <3>1, <3>2, <3>3 DEF ParentPath
  <2>11. Matches(p, y)
    <3>1. p.method = "GET" /\ p.verb = "none"
      BY <2>7
    <3>2. /\ Len(p.segments) = 6
          /\ p.segments[1] = "v1" /\ p.segments[2] = "accounts" /\ p.segments[3] = "*"
          /\ p.segments[4] = "streams" /\ p.segments[5] = "*" /\ p.segments[6] = "values"
      BY <2>7
    <3>3. ASSUME NEW i \in 1..6
          PROVE  p.segments[i] \in {"*", y.path[i]}
      <4>1. i = 1 \/ i = 2 \/ i = 3 \/ i = 4 \/ i = 5 \/ i = 6
        OBVIOUS
      <4> QED
        BY <2>10, <3>2, <4>1
    <3> QED
      BY <2>5, <2>10, <3>1, <3>2, <3>3 DEF Matches
  <2>12. Owner(y) = "ListStreamValues"
    BY <2>0, <2>11, PatternOwner DEF RPCs
  <2>13. /\ DOMAIN PathParams(p, y) = {"parent"}
         /\ PathParams(p, y)["parent"] = n["parent"]
    BY <2>7, <2>10 DEF PathParams
  <2> DEFINE x ==
               Populate(Populate(Blank("ListStreamValues"), PathParams(p, y), {}), y.query, {"parent"})
  <2>14. /\ DOMAIN x = DOMAIN n /\ x = [f \in DOMAIN x |-> x[f]]
         /\ x["parent"] = n["parent"] /\ x["auth_token"] = n["auth_token"]
         /\ x["page_size"] = n["page_size"] /\ x["page_token"] = n["page_token"]
    BY <2>2, <2>5, <2>13 DEF Populate, Blank
  <2> HIDE DEF x
  <2>15. x = n
    BY <2>2, <2>14
  <2>16. Assemble("ListStreamValues", y, PathParams(p, y))
           = request_ListStreamValues(y, PathParams(p, y))
    BY HandlerTable, Zenon
  <2>17. /\ Assemble("ListStreamValues", y, PathParams(p, y)) \subseteq {n}
         /\ y.queryOk /\ y.bodyOk => n \in Assemble("ListStreamValues", y, PathParams(p, y))
    BY <2>15, <2>16 DEF x, request_ListStreamValues, Parsed
  <2> QED
    BY <2>0, <2>5, <2>11, <2>12, <2>17 DEF Delivers
<1>6. All("ProlongValue")
  <2> SUFFICES ASSUME NEW n \in Requests("ProlongValue"),
                      NEW y \in DocumentedRequests("ProlongValue", n)
               PROVE  Delivers("ProlongValue", n, y)
    OBVIOUS
  <2>0. PICK p : p = pattern("ProlongValue")
    OBVIOUS
  <2>1. HttpRule("ProlongValue") = Annotation("POST", <<"v1">>, "name", <<>>, "prolong", "*")
    BY RuleTable, Zenon
  <2>2. /\ n \in ProlongValueRequest /\ FieldsOf("ProlongValue") = DOMAIN n
        /\ n = [f \in DOMAIN n |-> n[f]]
        /\ DOMAIN n = {"name", "ttl", "max_size"}
    BY RequestTable, FieldTable
  <2>3. /\ Bound("ProlongValue") = {"name"} /\ InBody("ProlongValue") = {"ttl", "max_size"}
        /\ InQuery("ProlongValue") = {}
    BY <2>1, <2>2 DEF Bound, InBody, InQuery, Annotation
  <2>4. Carries("ProlongValue", n, y)
    BY RequestCarries
  <2>5. /\ y.method = "POST" /\ y.verb = "prolong" /\ y.path = PathOf(<<"v1">>, n["name"], <<>>)
        /\ \A f \in {"ttl", "max_size"} : f \in DOMAIN y.body /\ y.body[f] = n[f]
    <3>1. PICK rule : rule = HttpRule("ProlongValue")
      OBVIOUS
    <3>2. /\ rule.method = "POST" /\ rule.before = <<"v1">> /\ rule.bound = "name"
          /\ rule.after = <<>> /\ rule.verb = "prolong" /\ rule.body = "*"
      BY <2>1, <3>1 DEF Annotation
    <3>3. /\ y.method = rule.method /\ y.verb = rule.verb
          /\ y.path = PathOf(rule.before, n[rule.bound], rule.after)
      BY <2>3, <2>4, <3>1 DEF Carries
    <3>4. y.method = "POST" /\ y.verb = "prolong" /\ y.path = PathOf(<<"v1">>, n["name"], <<>>)
      BY <3>2, <3>3, Zenon
    <3> QED
      BY <2>3, <2>4, <3>1, <3>2, <3>4 DEF Carries
  <2>6. p = Pattern("POST", <<"v1", "accounts", "*", "values", "*">>, "prolong",
                      {"name"}, 2, 5)
    BY <2>0, PatternTable, Zenon
  <2>7. /\ p.method = "POST" /\ p.verb = "prolong"
        /\ p.segments = <<"v1", "accounts", "*", "values", "*">>
        /\ p.param = {"name"} /\ p.from = 2 /\ p.to = 5
    BY <2>6 DEF Pattern
  <2>8. \/ n["name"] \in ValueNames
        \/ n["name"] \in {<<"accounts", "bob", "values", c>> : c \in Cids}
    BY <2>2 DEF ProlongValueRequest
  <2>9. CASE n["name"] \in ValueNames
    <3>1. n["name"] \in Seq(Segments) /\ Len(n["name"]) = 2
      BY <2>9, NameShapes
    <3>2. Len(y.path) = 3
      <4>1. PICK k : k = n["name"]
        OBVIOUS
      <4>2. NamePath(y.path, k) /\ Len(k) = 2
        BY <2>5, <3>1, <4>1, NamePaths
      <4> QED
        BY <4>2 DEF NamePath
    <3>3. ~Matches(p, y)
      BY <2>7, <3>2 DEF Matches
    <3>4. Owner(y) = "ProlongValue"
      BY <2>5 DEF Owner
    <3> QED
      BY <2>0, <2>5, <2>9, <3>3, <3>4 DEF Delivers
  <2>10. CASE n["name"] \in {<<"accounts", "bob", "values", c>> : c \in Cids}
    <3>1. /\ n["name"] \in Seq(Segments) /\ Len(n["name"]) = 4
          /\ n["name"][1] = "accounts" /\ n["name"][3] = "values"
      BY <2>10, NameShapes
    <3>2. /\ Len(y.path) = 5 /\ y.path[1] = "v1" /\ y.path[2] = "accounts" /\ y.path[4] = "values"
          /\ SubSeq(y.path, 2, 5) = n["name"]
      <4>1. PICK k : k = n["name"]
        OBVIOUS
      <4>2. NamePath(y.path, k)
        BY <2>5, <3>1, <4>1, NamePaths
      <4>3. Len(k) = 4 /\ k[1] = "accounts" /\ k[3] = "values"
        BY <3>1, <4>1
      <4> QED
        BY <4>1, <4>2, <4>3 DEF NamePath
    <3>3. Matches(p, y)
      <4>1. p.method = "POST" /\ p.verb = "prolong"
        BY <2>7
      <4>2. /\ Len(p.segments) = 5
            /\ p.segments[1] = "v1" /\ p.segments[2] = "accounts" /\ p.segments[3] = "*"
            /\ p.segments[4] = "values" /\ p.segments[5] = "*"
        BY <2>7
      <4>3. ASSUME NEW i \in 1..5
            PROVE  p.segments[i] \in {"*", y.path[i]}
        <5>1. i = 1 \/ i = 2 \/ i = 3 \/ i = 4 \/ i = 5
          OBVIOUS
        <5> QED
          BY <3>2, <4>2, <5>1
      <4> QED
        BY <2>5, <3>2, <4>1, <4>2, <4>3 DEF Matches
    <3>4. Owner(y) = "ProlongValue"
      BY <2>0, <3>3, PatternOwner DEF RPCs
    <3>5. /\ DOMAIN PathParams(p, y) = {"name"}
          /\ PathParams(p, y)["name"] = n["name"]
      BY <2>7, <3>2 DEF PathParams
    <3> DEFINE x == Populate(Populate(Blank("ProlongValue"), y.body, {}), PathParams(p, y), {})
    <3>6. /\ DOMAIN x = DOMAIN n /\ x = [f \in DOMAIN x |-> x[f]]
          /\ x["name"] = n["name"] /\ x["ttl"] = n["ttl"] /\ x["max_size"] = n["max_size"]
      BY <2>2, <2>5, <3>5 DEF Populate, Blank
    <3> HIDE DEF x
    <3>7. x = n
      BY <2>2, <3>6
    <3>8. Assemble("ProlongValue", y, PathParams(p, y))
            = request_ProlongValue(y, PathParams(p, y))
      BY HandlerTable, Zenon
    <3>9. /\ Assemble("ProlongValue", y, PathParams(p, y)) \subseteq {n}
          /\ y.queryOk /\ y.bodyOk => n \in Assemble("ProlongValue", y, PathParams(p, y))
      BY <3>7, <3>8 DEF x, request_ProlongValue, Parsed
    <3> QED
      BY <2>0, <2>5, <3>3, <3>4, <3>9 DEF Delivers
  <2> QED
    BY <2>8, <2>9, <2>10
<1>7. All("SearchCid")
  <2> SUFFICES ASSUME NEW n \in Requests("SearchCid"),
                      NEW y \in DocumentedRequests("SearchCid", n)
               PROVE  Delivers("SearchCid", n, y)
    OBVIOUS
  <2>0. PICK p : p = pattern("SearchCid")
    OBVIOUS
  <2>1. HttpRule("SearchCid")
          = Annotation("GET", <<"v1", "searchCid">>, "none", <<>>, "none", "none")
    BY RuleTable, Zenon
  <2>2. /\ n \in SearchCidRequest /\ FieldsOf("SearchCid") = DOMAIN n
        /\ n = [f \in DOMAIN n |-> n[f]]
        /\ DOMAIN n = {"cid"}
    BY RequestTable, FieldTable
  <2>3. /\ Bound("SearchCid") = {} /\ InBody("SearchCid") = {}
        /\ InQuery("SearchCid") = {"cid"}
    BY <2>1, <2>2 DEF Bound, InBody, InQuery, Annotation
  <2>4. Carries("SearchCid", n, y)
    BY RequestCarries
  <2>5. /\ y.method = "GET" /\ y.verb = "none"
        /\ y.path = PathOf(<<"v1", "searchCid">>, <<>>, <<>>)
        /\ \A f \in {"cid"} : f \in DOMAIN y.query /\ y.query[f] = n[f]
    <3>1. PICK rule : rule = HttpRule("SearchCid")
      OBVIOUS
    <3>2. /\ rule.method = "GET" /\ rule.before = <<"v1", "searchCid">> /\ rule.bound = "none"
          /\ rule.after = <<>> /\ rule.verb = "none" /\ rule.body = "none"
      BY <2>1, <3>1 DEF Annotation
    <3>3. /\ y.method = rule.method /\ y.verb = rule.verb
          /\ y.path = PathOf(rule.before, <<>>, rule.after)
      BY <2>3, <2>4, <3>1 DEF Carries
    <3>4. /\ y.method = "GET" /\ y.verb = "none"
          /\ y.path = PathOf(<<"v1", "searchCid">>, <<>>, <<>>)
      BY <3>2, <3>3, Zenon
    <3> QED
      BY <2>3, <2>4, <3>1, <3>2, <3>4 DEF Carries
  <2>6. p = Pattern("GET", <<"v1", "searchCid">>, "none", {}, 1, 0)
    BY <2>0, PatternTable, Zenon
  <2>7. /\ p.method = "GET" /\ p.verb = "none" /\ p.segments = <<"v1", "searchCid">>
        /\ p.param = {} /\ p.from = 1 /\ p.to = 0
    BY <2>6 DEF Pattern
  <2>8. Len(y.path) = 2 /\ y.path[1] = "v1" /\ y.path[2] = "searchCid"
    BY <2>5, FixedPath
  <2>9. Matches(p, y)
    <3>1. p.method = "GET" /\ p.verb = "none"
      BY <2>7
    <3>2. /\ Len(p.segments) = 2
          /\ p.segments[1] = "v1" /\ p.segments[2] = "searchCid"
      BY <2>7
    <3>3. ASSUME NEW i \in 1..2
          PROVE  p.segments[i] \in {"*", y.path[i]}
      <4>1. i = 1 \/ i = 2
        OBVIOUS
      <4> QED
        BY <2>8, <3>2, <4>1
    <3> QED
      BY <2>5, <2>8, <3>1, <3>2, <3>3 DEF Matches
  <2>10. Owner(y) = "SearchCid"
    BY <2>0, <2>9, PatternOwner DEF RPCs
  <2> DEFINE x == Populate(Blank("SearchCid"), y.query, {})
  <2>11. /\ DOMAIN x = DOMAIN n /\ x = [f \in DOMAIN x |-> x[f]]
         /\ x["cid"] = n["cid"]
    BY <2>2, <2>5 DEF Populate, Blank
  <2> HIDE DEF x
  <2>12. x = n
    BY <2>2, <2>11
  <2>13. Assemble("SearchCid", y, PathParams(p, y)) = request_SearchCid(y, PathParams(p, y))
    BY HandlerTable, Zenon
  <2>14. /\ Assemble("SearchCid", y, PathParams(p, y)) \subseteq {n}
         /\ y.queryOk /\ y.bodyOk => n \in Assemble("SearchCid", y, PathParams(p, y))
    BY <2>12, <2>13 DEF x, request_SearchCid, Parsed
  <2> QED
    BY <2>0, <2>5, <2>9, <2>10, <2>14 DEF Delivers
<1>8. All("SearchInstance")
  <2> SUFFICES ASSUME NEW n \in Requests("SearchInstance"),
                      NEW y \in DocumentedRequests("SearchInstance", n)
               PROVE  Delivers("SearchInstance", n, y)
    OBVIOUS
  <2>0. PICK p : p = pattern("SearchInstance")
    OBVIOUS
  <2>1. HttpRule("SearchInstance")
          = Annotation("GET", <<"v1", "SearchInstance">>, "none", <<>>, "none", "none")
    BY RuleTable, Zenon
  <2>2. /\ n \in SearchInstanceRequest /\ FieldsOf("SearchInstance") = DOMAIN n
        /\ n = [f \in DOMAIN n |-> n[f]]
        /\ DOMAIN n = {"virtual_service"}
    BY RequestTable, FieldTable
  <2>3. /\ Bound("SearchInstance") = {} /\ InBody("SearchInstance") = {}
        /\ InQuery("SearchInstance") = {"virtual_service"}
    BY <2>1, <2>2 DEF Bound, InBody, InQuery, Annotation
  <2>4. Carries("SearchInstance", n, y)
    BY RequestCarries
  <2>5. /\ y.method = "GET" /\ y.verb = "none"
        /\ y.path = PathOf(<<"v1", "SearchInstance">>, <<>>, <<>>)
        /\ \A f \in {"virtual_service"} : f \in DOMAIN y.query /\ y.query[f] = n[f]
    <3>1. PICK rule : rule = HttpRule("SearchInstance")
      OBVIOUS
    <3>2. /\ rule.method = "GET" /\ rule.before = <<"v1", "SearchInstance">>
          /\ rule.bound = "none"
          /\ rule.after = <<>> /\ rule.verb = "none" /\ rule.body = "none"
      BY <2>1, <3>1 DEF Annotation
    <3>3. /\ y.method = rule.method /\ y.verb = rule.verb
          /\ y.path = PathOf(rule.before, <<>>, rule.after)
      BY <2>3, <2>4, <3>1 DEF Carries
    <3>4. /\ y.method = "GET" /\ y.verb = "none"
          /\ y.path = PathOf(<<"v1", "SearchInstance">>, <<>>, <<>>)
      BY <3>2, <3>3, Zenon
    <3> QED
      BY <2>3, <2>4, <3>1, <3>2, <3>4 DEF Carries
  <2>6. p = Pattern("GET", <<"v1", "SearchInstance">>, "none", {}, 1, 0)
    BY <2>0, PatternTable, Zenon
  <2>7. /\ p.method = "GET" /\ p.verb = "none" /\ p.segments = <<"v1", "SearchInstance">>
        /\ p.param = {} /\ p.from = 1 /\ p.to = 0
    BY <2>6 DEF Pattern
  <2>8. Len(y.path) = 2 /\ y.path[1] = "v1" /\ y.path[2] = "SearchInstance"
    BY <2>5, FixedPath
  <2>9. Matches(p, y)
    <3>1. p.method = "GET" /\ p.verb = "none"
      BY <2>7
    <3>2. /\ Len(p.segments) = 2
          /\ p.segments[1] = "v1" /\ p.segments[2] = "SearchInstance"
      BY <2>7
    <3>3. ASSUME NEW i \in 1..2
          PROVE  p.segments[i] \in {"*", y.path[i]}
      <4>1. i = 1 \/ i = 2
        OBVIOUS
      <4> QED
        BY <2>8, <3>2, <4>1
    <3> QED
      BY <2>5, <2>8, <3>1, <3>2, <3>3 DEF Matches
  <2>10. Owner(y) = "SearchInstance"
    BY <2>0, <2>9, PatternOwner DEF RPCs
  <2> DEFINE x == Populate(Blank("SearchInstance"), y.query, {})
  <2>11. /\ DOMAIN x = DOMAIN n /\ x = [f \in DOMAIN x |-> x[f]]
         /\ x["virtual_service"] = n["virtual_service"]
    BY <2>2, <2>5 DEF Populate, Blank
  <2> HIDE DEF x
  <2>12. x = n
    BY <2>2, <2>11
  <2>13. Assemble("SearchInstance", y, PathParams(p, y))
           = request_SearchInstance(y, PathParams(p, y))
    BY HandlerTable, Zenon
  <2>14. /\ Assemble("SearchInstance", y, PathParams(p, y)) \subseteq {n}
         /\ y.queryOk /\ y.bodyOk => n \in Assemble("SearchInstance", y, PathParams(p, y))
    BY <2>12, <2>13 DEF x, request_SearchInstance, Parsed
  <2> QED
    BY <2>0, <2>5, <2>9, <2>10, <2>14 DEF Delivers
<1>9. All("CreateSession")
  <2> SUFFICES ASSUME NEW n \in Requests("CreateSession"),
                      NEW y \in DocumentedRequests("CreateSession", n)
               PROVE  Delivers("CreateSession", n, y)
    OBVIOUS
  <2>0. PICK p : p = pattern("CreateSession")
    OBVIOUS
  <2>1. HttpRule("CreateSession")
          = Annotation("POST", <<"v1", "sessions">>, "none", <<>>, "create", "*")
    BY RuleTable, Zenon
  <2>2. /\ n \in CreateSessionRequest /\ FieldsOf("CreateSession") = DOMAIN n
        /\ n = [f \in DOMAIN n |-> n[f]]
        /\ DOMAIN n = {"jwt"}
    BY RequestTable, FieldTable
  <2>3. /\ Bound("CreateSession") = {} /\ InBody("CreateSession") = {"jwt"}
        /\ InQuery("CreateSession") = {}
    BY <2>1, <2>2 DEF Bound, InBody, InQuery, Annotation
  <2>4. Carries("CreateSession", n, y)
    BY RequestCarries
  <2>5. /\ y.method = "POST" /\ y.verb = "create"
        /\ y.path = PathOf(<<"v1", "sessions">>, <<>>, <<>>)
        /\ \A f \in {"jwt"} : f \in DOMAIN y.body /\ y.body[f] = n[f]
    <3>1. PICK rule : rule = HttpRule("CreateSession")
      OBVIOUS
    <3>2. /\ rule.method = "POST" /\ rule.before = <<"v1", "sessions">> /\ rule.bound = "none"
          /\ rule.after = <<>> /\ rule.verb = "create" /\ rule.body = "*"
      BY <2>1, <3>1 DEF Annotation
    <3>3. /\ y.method = rule.method /\ y.verb = rule.verb
          /\ y.path = PathOf(rule.before, <<>>, rule.after)
      BY <2>3, <2>4, <3>1 DEF Carries
    <3>4. /\ y.method = "POST" /\ y.verb = "create"
          /\ y.path = PathOf(<<"v1", "sessions">>, <<>>, <<>>)
      BY <3>2, <3>3, Zenon
    <3> QED
      BY <2>3, <2>4, <3>1, <3>2, <3>4 DEF Carries
  <2>6. p = Pattern("POST", <<"v1", "sessions">>, "create", {}, 1, 0)
    BY <2>0, PatternTable, Zenon
  <2>7. /\ p.method = "POST" /\ p.verb = "create" /\ p.segments = <<"v1", "sessions">>
        /\ p.param = {} /\ p.from = 1 /\ p.to = 0
    BY <2>6 DEF Pattern
  <2>8. Len(y.path) = 2 /\ y.path[1] = "v1" /\ y.path[2] = "sessions"
    BY <2>5, FixedPath
  <2>9. Matches(p, y)
    <3>1. p.method = "POST" /\ p.verb = "create"
      BY <2>7
    <3>2. /\ Len(p.segments) = 2
          /\ p.segments[1] = "v1" /\ p.segments[2] = "sessions"
      BY <2>7
    <3>3. ASSUME NEW i \in 1..2
          PROVE  p.segments[i] \in {"*", y.path[i]}
      <4>1. i = 1 \/ i = 2
        OBVIOUS
      <4> QED
        BY <2>8, <3>2, <4>1
    <3> QED
      BY <2>5, <2>8, <3>1, <3>2, <3>3 DEF Matches
  <2>10. Owner(y) = "CreateSession"
    BY <2>0, <2>9, PatternOwner DEF RPCs
  <2> DEFINE x == Populate(Blank("CreateSession"), y.body, {})
  <2>11. /\ DOMAIN x = DOMAIN n /\ x = [f \in DOMAIN x |-> x[f]]
         /\ x["jwt"] = n["jwt"]
    BY <2>2, <2>5 DEF Populate, Blank
  <2> HIDE DEF x
  <2>12. x = n
    BY <2>2, <2>11
  <2>13. Assemble("CreateSession", y, PathParams(p, y))
           = request_CreateSession(y, PathParams(p, y))
    BY HandlerTable, Zenon
  <2>14. /\ Assemble("CreateSession", y, PathParams(p, y)) \subseteq {n}
         /\ y.queryOk /\ y.bodyOk => n \in Assemble("CreateSession", y, PathParams(p, y))
    BY <2>12, <2>13 DEF x, request_CreateSession, Parsed
  <2> QED
    BY <2>0, <2>5, <2>9, <2>10, <2>14 DEF Delivers
<1>10. All("RegisterInstance")
  <2> SUFFICES ASSUME NEW n \in Requests("RegisterInstance"),
                      NEW y \in DocumentedRequests("RegisterInstance", n)
               PROVE  Delivers("RegisterInstance", n, y)
    OBVIOUS
  <2>0. PICK p : p = pattern("RegisterInstance")
    OBVIOUS
  <2>1. HttpRule("RegisterInstance")
          = Annotation("POST", <<"v1", "instance">>, "none", <<>>, "register", "*")
    BY RuleTable, Zenon
  <2>2. /\ n \in RegisterInstanceRequest /\ FieldsOf("RegisterInstance") = DOMAIN n
        /\ n = [f \in DOMAIN n |-> n[f]]
        /\ DOMAIN n = {"advertisement"}
    BY RequestTable, FieldTable
  <2>3. /\ Bound("RegisterInstance") = {} /\ InBody("RegisterInstance") = {"advertisement"}
        /\ InQuery("RegisterInstance") = {}
    BY <2>1, <2>2 DEF Bound, InBody, InQuery, Annotation
  <2>4. Carries("RegisterInstance", n, y)
    BY RequestCarries
  <2>5. /\ y.method = "POST" /\ y.verb = "register"
        /\ y.path = PathOf(<<"v1", "instance">>, <<>>, <<>>)
        /\ \A f \in {"advertisement"} : f \in DOMAIN y.body /\ y.body[f] = n[f]
    <3>1. PICK rule : rule = HttpRule("RegisterInstance")
      OBVIOUS
    <3>2. /\ rule.method = "POST" /\ rule.before = <<"v1", "instance">> /\ rule.bound = "none"
          /\ rule.after = <<>> /\ rule.verb = "register" /\ rule.body = "*"
      BY <2>1, <3>1 DEF Annotation
    <3>3. /\ y.method = rule.method /\ y.verb = rule.verb
          /\ y.path = PathOf(rule.before, <<>>, rule.after)
      BY <2>3, <2>4, <3>1 DEF Carries
    <3>4. /\ y.method = "POST" /\ y.verb = "register"
          /\ y.path = PathOf(<<"v1", "instance">>, <<>>, <<>>)
      BY <3>2, <3>3, Zenon
    <3> QED
      BY <2>3, <2>4, <3>1, <3>2, <3>4 DEF Carries
  <2>6. p = Pattern("POST", <<"v1", "instance">>, "register", {}, 1, 0)
    BY <2>0, PatternTable, Zenon
  <2>7. /\ p.method = "POST" /\ p.verb = "register" /\ p.segments = <<"v1", "instance">>
        /\ p.param = {} /\ p.from = 1 /\ p.to = 0
    BY <2>6 DEF Pattern
  <2>8. Len(y.path) = 2 /\ y.path[1] = "v1" /\ y.path[2] = "instance"
    BY <2>5, FixedPath
  <2>9. Matches(p, y)
    <3>1. p.method = "POST" /\ p.verb = "register"
      BY <2>7
    <3>2. /\ Len(p.segments) = 2
          /\ p.segments[1] = "v1" /\ p.segments[2] = "instance"
      BY <2>7
    <3>3. ASSUME NEW i \in 1..2
          PROVE  p.segments[i] \in {"*", y.path[i]}
      <4>1. i = 1 \/ i = 2
        OBVIOUS
      <4> QED
        BY <2>8, <3>2, <4>1
    <3> QED
      BY <2>5, <2>8, <3>1, <3>2, <3>3 DEF Matches
  <2>10. Owner(y) = "RegisterInstance"
    BY <2>0, <2>9, PatternOwner DEF RPCs
  <2> DEFINE x == Populate(Blank("RegisterInstance"), y.body, {})
  <2>11. /\ DOMAIN x = DOMAIN n /\ x = [f \in DOMAIN x |-> x[f]]
         /\ x["advertisement"] = n["advertisement"]
    BY <2>2, <2>5 DEF Populate, Blank
  <2> HIDE DEF x
  <2>12. x = n
    BY <2>2, <2>11
  <2>13. Assemble("RegisterInstance", y, PathParams(p, y))
           = request_RegisterInstance(y, PathParams(p, y))
    BY HandlerTable, Zenon
  <2>14. /\ Assemble("RegisterInstance", y, PathParams(p, y)) \subseteq {n}
         /\ y.queryOk /\ y.bodyOk => n \in Assemble("RegisterInstance", y, PathParams(p, y))
    BY <2>12, <2>13 DEF x, request_RegisterInstance, Parsed
  <2> QED
    BY <2>0, <2>5, <2>9, <2>10, <2>14 DEF Delivers
<1>11. All("Ping")
  <2> SUFFICES ASSUME NEW n \in Requests("Ping"), NEW y \in DocumentedRequests("Ping", n)
               PROVE  Delivers("Ping", n, y)
    OBVIOUS
  <2>0. PICK p : p = pattern("Ping")
    OBVIOUS
  <2>1. HttpRule("Ping") = Annotation("GET", <<"v1", "ping">>, "none", <<>>, "none", "none")
    BY RuleTable, Zenon
  <2>2. /\ n \in PingRequest /\ FieldsOf("Ping") = DOMAIN n /\ n = [f \in DOMAIN n |-> n[f]]
        /\ DOMAIN n = {"dummy"}
    BY RequestTable, FieldTable
  <2>3. /\ Bound("Ping") = {} /\ InBody("Ping") = {}
        /\ InQuery("Ping") = {"dummy"}
    BY <2>1, <2>2 DEF Bound, InBody, InQuery, Annotation
  <2>4. Carries("Ping", n, y)
    BY RequestCarries
  <2>5. /\ y.method = "GET" /\ y.verb = "none" /\ y.path = PathOf(<<"v1", "ping">>, <<>>, <<>>)
        /\ \A f \in {"dummy"} : f \in DOMAIN y.query /\ y.query[f] = n[f]
    <3>1. PICK rule : rule = HttpRule("Ping")
      OBVIOUS
    <3>2. /\ rule.method = "GET" /\ rule.before = <<"v1", "ping">> /\ rule.bound = "none"
          /\ rule.after = <<>> /\ rule.verb = "none" /\ rule.body = "none"
      BY <2>1, <3>1 DEF Annotation
    <3>3. /\ y.method = rule.method /\ y.verb = rule.verb
          /\ y.path = PathOf(rule.before, <<>>, rule.after)
      BY <2>3, <2>4, <3>1 DEF Carries
    <3>4. y.method = "GET" /\ y.verb = "none" /\ y.path = PathOf(<<"v1", "ping">>, <<>>, <<>>)
      BY <3>2, <3>3, Zenon
    <3> QED
      BY <2>3, <2>4, <3>1, <3>2, <3>4 DEF Carries
  <2>6. p = Pattern("GET", <<"v1", "ping">>, "none", {}, 1, 0)
    BY <2>0, PatternTable, Zenon
  <2>7. /\ p.method = "GET" /\ p.verb = "none" /\ p.segments = <<"v1", "ping">>
        /\ p.param = {} /\ p.from = 1 /\ p.to = 0
    BY <2>6 DEF Pattern
  <2>8. Len(y.path) = 2 /\ y.path[1] = "v1" /\ y.path[2] = "ping"
    BY <2>5, FixedPath
  <2>9. Matches(p, y)
    <3>1. p.method = "GET" /\ p.verb = "none"
      BY <2>7
    <3>2. /\ Len(p.segments) = 2
          /\ p.segments[1] = "v1" /\ p.segments[2] = "ping"
      BY <2>7
    <3>3. ASSUME NEW i \in 1..2
          PROVE  p.segments[i] \in {"*", y.path[i]}
      <4>1. i = 1 \/ i = 2
        OBVIOUS
      <4> QED
        BY <2>8, <3>2, <4>1
    <3> QED
      BY <2>5, <2>8, <3>1, <3>2, <3>3 DEF Matches
  <2>10. Owner(y) = "Ping"
    BY <2>0, <2>9, PatternOwner DEF RPCs
  <2> DEFINE x == Populate(Blank("Ping"), y.query, {})
  <2>11. /\ DOMAIN x = DOMAIN n /\ x = [f \in DOMAIN x |-> x[f]]
         /\ x["dummy"] = n["dummy"]
    BY <2>2, <2>5 DEF Populate, Blank
  <2> HIDE DEF x
  <2>12. x = n
    BY <2>2, <2>11
  <2>13. Assemble("Ping", y, PathParams(p, y)) = request_Ping(y, PathParams(p, y))
    BY HandlerTable, Zenon
  <2>14. /\ Assemble("Ping", y, PathParams(p, y)) \subseteq {n}
         /\ y.queryOk /\ y.bodyOk => n \in Assemble("Ping", y, PathParams(p, y))
    BY <2>12, <2>13 DEF x, request_Ping, Parsed
  <2> QED
    BY <2>0, <2>5, <2>9, <2>10, <2>14 DEF Delivers
<1>12. All("DelegatedRouting")
  <2> SUFFICES ASSUME NEW n \in Requests("DelegatedRouting"),
                      NEW y \in DocumentedRequests("DelegatedRouting", n)
               PROVE  Delivers("DelegatedRouting", n, y)
    OBVIOUS
  <2>0. PICK p : p = pattern("DelegatedRouting")
    OBVIOUS
  <2>1. HttpRule("DelegatedRouting")
          = Annotation("GET", <<"routing", "v1", "providers">>, "cid", <<>>, "none", "none")
    BY RuleTable, Zenon
  <2>2. /\ n \in DelegatedRoutingRequest /\ FieldsOf("DelegatedRouting") = DOMAIN n
        /\ n = [f \in DOMAIN n |-> n[f]]
        /\ DOMAIN n = {"cid"}
    BY RequestTable, FieldTable
  <2>3. /\ Bound("DelegatedRouting") = {"cid"} /\ InBody("DelegatedRouting") = {}
        /\ InQuery("DelegatedRouting") = {}
    BY <2>1, <2>2 DEF Bound, InBody, InQuery, Annotation
  <2>4. Carries("DelegatedRouting", n, y)
    BY RequestCarries
  <2>5. /\ y.method = "GET" /\ y.verb = "none"
        /\ y.path = PathOf(<<"routing", "v1", "providers">>, n["cid"], <<>>)
    <3>1. PICK rule : rule = HttpRule("DelegatedRouting")
      OBVIOUS
    <3>2. /\ rule.method = "GET" /\ rule.before = <<"routing", "v1", "providers">>
          /\ rule.bound = "cid"
          /\ rule.after = <<>> /\ rule.verb = "none" /\ rule.body = "none"
      BY <2>1, <3>1 DEF Annotation
    <3>3. /\ y.method = rule.method /\ y.verb = rule.verb
          /\ y.path = PathOf(rule.before, n[rule.bound], rule.after)
      BY <2>3, <2>4, <3>1 DEF Carries
    <3>4. /\ y.method = "GET" /\ y.verb = "none"
          /\ y.path = PathOf(<<"routing", "v1", "providers">>, n["cid"], <<>>)
      BY <3>2, <3>3, Zenon
    <3> QED
      BY <2>3, <2>4, <3>1, <3>2, <3>4 DEF Carries
  <2>6. p = Pattern("GET", <<"routing", "v1", "providers", "*">>, "none", {"cid"}, 4, 4)
    BY <2>0, PatternTable, Zenon
  <2>7. /\ p.method = "GET" /\ p.verb = "none"
        /\ p.segments = <<"routing", "v1", "providers", "*">>
        /\ p.param = {"cid"} /\ p.from = 4 /\ p.to = 4
    BY <2>6 DEF Pattern
  <2>8. n["cid"] \in CidFields \ {Unset}
    BY <2>2 DEF DelegatedRoutingRequest
  <2>9. n["cid"] \in Seq(Segments) /\ Len(n["cid"]) = 1
    BY <2>8, NameShapes
  <2>10. /\ Len(y.path) = 4 /\ y.path[1] = "routing" /\ y.path[2] = "v1"
         /\ y.path[3] = "providers"
         /\ SubSeq(y.path, 4, 4) = n["cid"]
    BY <2>5, <2>9, CidPath
  <2>11. Matches(p, y)
    <3>1. p.method = "GET" /\ p.verb = "none"
      BY <2>7
    <3>2. /\ Len(p.segments) = 4
          /\ p.segments[1] = "routing" /\ p.segments[2] = "v1" /\ p.segments[3] = "providers"
          /\ p.segments[4] = "*"
      BY <2>7
    <3>3. ASSUME NEW i \in 1..4
          PROVE  p.segments[i] \in {"*", y.path[i]}
      <4>1. i = 1 \/ i = 2 \/ i = 3 \/ i = 4
        OBVIOUS
      <4> QED
        BY <2>10, <3>2, <4>1
    <3> QED
      BY <2>5, <2>10, <3>1, <3>2, <3>3 DEF Matches
  <2>12. Owner(y) = "DelegatedRouting"
    BY <2>0, <2>11, PatternOwner DEF RPCs
  <2>13. /\ DOMAIN PathParams(p, y) = {"cid"}
         /\ PathParams(p, y)["cid"] = n["cid"]
    BY <2>7, <2>10 DEF PathParams
  <2> DEFINE x == Populate(Blank("DelegatedRouting"), PathParams(p, y), {})
  <2>14. /\ DOMAIN x = DOMAIN n /\ x = [f \in DOMAIN x |-> x[f]]
         /\ x["cid"] = n["cid"]
    BY <2>2, <2>5, <2>13 DEF Populate, Blank
  <2> HIDE DEF x
  <2>15. x = n
    BY <2>2, <2>14
  <2>16. Assemble("DelegatedRouting", y, PathParams(p, y))
           = request_DelegatedRouting(y, PathParams(p, y))
    BY HandlerTable, Zenon
  <2>17. /\ Assemble("DelegatedRouting", y, PathParams(p, y)) \subseteq {n}
         /\ y.queryOk /\ y.bodyOk => n \in Assemble("DelegatedRouting", y, PathParams(p, y))
    BY <2>15, <2>16 DEF x, request_DelegatedRouting, Parsed
  <2> QED
    BY <2>0, <2>5, <2>11, <2>12, <2>17 DEF Delivers
<1> HIDE DEF All
<1>13. All(rpc)
  BY <1>1, <1>2, <1>3, <1>4, <1>5, <1>6, <1>7, <1>8, <1>9, <1>10, <1>11, <1>12 DEF RPCs
<1> QED
  BY <1>13 DEF All

-----------------------------------------------------------------------------
(* The interceptors                                                        *)

LEMMA ChainShapes ==
  \A ch \in {Chain(d) : d \in BOOLEAN} :
    \/ ch # Chain(FALSE) /\ Len(ch) = 1 /\ ch[1] = "validation"
    \/ ch = Chain(FALSE) /\ Len(ch) = 2 /\ ch[1] = "session" /\ ch[2] = "validation"
<1> DEFINE S == {"session", "validation"}
           e == <<>>
           a == <<"session">>
           b == <<"validation">>
<1>1. /\ a \in Seq(S) /\ Len(a) = 1 /\ a[1] = "session"
      /\ b \in Seq(S) /\ Len(b) = 1 /\ b[1] = "validation"
      /\ e \in Seq(S) /\ Len(e) = 0
  OBVIOUS
<1>2. Chain(TRUE) = e \o b /\ Chain(FALSE) = a \o b
  BY DEF Chain
<1> HIDE DEF a, b, e
<1>3. Len(e \o b) = 1 /\ (e \o b)[1] = "validation"
  BY <1>1
<1>4. Len(a \o b) = 2 /\ (a \o b)[1] = "session" /\ (a \o b)[2] = "validation"
  <2>1. /\ Len(a \o b) = Len(a) + Len(b)
        /\ \A i \in 1..Len(a) + Len(b) :
             (a \o b)[i] = IF i <= Len(a) THEN a[i] ELSE b[i - Len(a)]
    BY <1>1, ConcatProperties
  <2>2. (a \o b)[2] = b[2 - Len(a)]
    BY <1>1, <2>1
  <2> QED
    BY <1>1, <2>1, <2>2
<1> QED
  BY <1>2, <1>3, <1>4

\* What validation lets through has a price.
LEMMA ValidIsPriced ==
  ASSUME NEW rpc \in RPCs, NEW m, Valid(rpc, m)
  PROVE  PriceIsPositive(rpc, m)
<1>1. CASE rpc = "CreateValue"
  <2>1. m.value # Unset
    BY <1>1, Zenon DEF Valid
  <2> QED
    BY <1>1, <2>1, Zenon DEF PriceIsPositive
<1>2. CASE rpc = "CreateStreamValue"
  <2>1. m.value = <<"bytes">>
    BY <1>2, Zenon DEF Valid
  <2>2. m.value # Unset
    BY <2>1 DEF Unset
  <2> QED
    BY <1>2, <2>2, Zenon DEF PriceIsPositive
<1>3. CASE rpc = "ProlongValue"
  <2>1. m.max_size # Unset
    BY <1>3, Zenon DEF Valid
  <2> QED
    BY <1>3, <2>1, Zenon DEF PriceIsPositive
<1>4. CASE rpc = "RegisterInstance"
  <2>1. m.advertisement = <<"signed">>
    BY <1>4, Zenon DEF Valid
  <2> QED
    BY <1>4, <2>1, Zenon DEF PriceIsPositive
<1>5. CASE rpc \notin {"CreateValue", "CreateStreamValue", "ProlongValue", "RegisterInstance"}
  BY <1>5, Zenon DEF PriceIsPositive
<1> QED
  BY <1>1, <1>2, <1>3, <1>4, <1>5

-----------------------------------------------------------------------------
(* The steps of a call                                                     *)

\* d is the call with the answer a, unless its connection broke before.
Ends(d, a) ==
  /\ DOMAIN d = CallFields
  /\ d.pc = "answered"
  /\ d.answer = IF call.answer = "none" THEN a ELSE call.answer
  /\ d.rpc = call.rpc /\ d.meant = call.meant /\ d.q = call.q
  /\ d.procedure = call.procedure /\ d.msg = call.msg /\ d.token = call.token
  /\ d.pos = call.pos /\ d.ran = call.ran

LEMMA AnsweredEnds ==
  ASSUME IInv, NEW a
  PROVE  LET d == Answered(a)
         IN  /\ Ends(d, a) /\ d.charged = call.charged /\ d.calm = call.calm
             /\ Ends([d EXCEPT !.calm = FALSE], a)
             /\ [d EXCEPT !.calm = FALSE].charged = call.charged
             /\ [d EXCEPT !.calm = FALSE].calm = FALSE
<1>1. DOMAIN call = CallFields
  BY DEF IInv, Shape
<1> DEFINE d == Answered(a)
<1>2. Ends(d, a) /\ d.charged = call.charged /\ d.calm = call.calm
  BY <1>1 DEF Answered, Ends, CallFields
<1> HIDE DEF d
<1> DEFINE e == [d EXCEPT !.calm = FALSE]
<1>3. Ends(e, a) /\ e.charged = call.charged /\ e.calm = FALSE
  BY <1>2 DEF Ends, CallFields
<1> QED
  BY <1>2, <1>3 DEF d, e

\* A call that is over keeps the invariant when its answer fits what ran.
LEMMA Over ==
  ASSUME IInv, NEW a, a \in Answers \ {"none"}, Ends(call', a),
         call'.charged \in {0, 1}, call'.calm \in BOOLEAN,
         pkvUp' \in BOOLEAN, gatewayUp' \in BOOLEAN, chain' \in {Chain(d) : d \in BOOLEAN},
         call.ran = <<>> \/ (call.ran = ItsRun /\ Valid(call.rpc, call.meant)),
         call.answer \in {"none", "broken"},
         a \in {"ok", "error"} => call.ran = ItsRun,
         a \in {"noroute", "malformed", "notfound", "refused", "invalid"} => call.ran = <<>>,
         GoodCallsServed'
  PROVE  IInv'
<1>1. call.answer # "none" => call'.answer = "broken"
  BY DEF Ends
<1>2. call.answer = "none" => call'.answer = a
  BY DEF Ends
<1>3. Shape'
  BY <1>1, <1>2 DEF IInv, Shape, Ends, Answers
<1>4. AsMeant'
  BY DEF IInv, AsMeant, Ends
<1>5. ItsRun' = ItsRun
  BY DEF ItsRun, Ends
<1>6. Progress'
  BY <1>1, <1>2, <1>5 DEF Progress, Ends
<1> QED
  BY <1>3, <1>4, <1>6 DEF IInv

LEMMA New ==
  ASSUME IInv, NEW rpc \in RPCs \cup {Unknown}, NEW m \in Requests(rpc), NEW q,
         NEW token \in Tokens, NEW pc \in {"idle", "gateway", "invoke"},
         pc = "gateway" => rpc \in RPCs /\ q \in DocumentedRequests(rpc, m),
         call' = NewCall(rpc, m, q, token, pc), UNCHANGED <<pkvUp, chain, gatewayUp>>
  PROVE  IInv'
<1>1. Shape'
  BY DEF IInv, Shape, NewCall, CallFields, Answers
<1>2. AsMeant'
  BY DEF AsMeant, NewCall
<1>3. Progress'
  BY DEF Progress, NewCall
<1>4. GoodCallsServed'
  BY DEF GoodCallsServed, NewCall
<1> QED
  BY <1>1, <1>2, <1>3, <1>4 DEF IInv

LEMMA BlankPing == "Ping" \in RPCs /\ Blank("Ping") \in Requests("Ping")
<1> DEFINE m == [dummy |-> Unset]
<1>1. m \in Requests("Ping")
  <2>1. m \in PingRequest
    BY DEF PingRequest
  <2> QED
    BY <2>1, RequestTable, Zenon
<1>2. FieldsOf("Ping") = {"dummy"}
  BY <1>1, FieldTable
<1>3. Blank("Ping") = m
  BY <1>2 DEF Blank
<1> QED
  BY <1>1, <1>3 DEF RPCs

LEMMA InitIInv == Init => IInv
<1> SUFFICES ASSUME Init
             PROVE  IInv
  OBVIOUS
<1>1. "Ping" \in RPCs /\ Blank("Ping") \in Requests("Ping")
  BY BlankPing
<1>2. call = NewCall("Ping", Blank("Ping"), None, "bad", "idle")
  BY DEF Init, NoCall
<1>3. Shape
  BY <1>1, <1>2 DEF Init, Shape, NewCall, CallFields, Tokens, Answers
<1>4. AsMeant
  BY <1>1, <1>2 DEF AsMeant, NewCall
<1>5. Progress
  BY <1>2 DEF Progress, NewCall
<1>6. GoodCallsServed
  BY <1>2 DEF GoodCallsServed, NewCall
<1> QED
  BY <1>3, <1>4, <1>5, <1>6 DEF IInv

LEMMA RouteStep == IInv /\ Route => IInv'
<1> SUFFICES ASSUME IInv, Route
             PROVE  IInv'
  OBVIOUS
<1>1. /\ call.pc = "gateway" /\ UNCHANGED <<pkvUp, chain, gatewayUp>>
      /\ call.rpc \in RPCs /\ call.q \in DocumentedRequests(call.rpc, call.meant)
      /\ call.meant \in Requests(call.rpc)
  BY DEF Route, IInv, AsMeant
<1>2. Delivers(call.rpc, call.meant, call.q)
  BY <1>1, Delivered
<1>3. call.q # None
  BY <1>2 DEF Delivers, None
<1>4. \A r \in RPCs : Matches(pattern(r), call.q) => r = call.rpc
  BY <1>2, PatternOwner DEF Delivers
<1>5. /\ pkvUp \in BOOLEAN /\ gatewayUp \in BOOLEAN /\ chain \in {Chain(d) : d \in BOOLEAN}
      /\ call.ran = <<>> /\ call.answer = "none" /\ call.charged \in {0, 1} /\ call.calm \in BOOLEAN
      /\ DOMAIN call = CallFields
  BY <1>1 DEF IInv, Shape, Progress
<1>6. ASSUME NEW a \in {"noroute", "malformed"}, call' = Answered(a),
             \/ call.rpc = "ProlongValue" /\ call.meant.name \in ValueNames
             \/ ~(call.q.queryOk /\ call.q.bodyOk)
      PROVE  IInv'
  <2>1. Ends(call', a) /\ call'.charged = call.charged /\ call'.calm = call.calm
    BY <1>6, AnsweredEnds
  <2>2. GoodCallsServed'
    BY <1>3, <1>6, <2>1 DEF GoodCallsServed, Ends
  <2>3. a \in Answers \ {"none"} /\ a \notin {"ok", "error"}
    BY <1>6 DEF Answers
  <2> QED
    BY <1>1, <1>5, <2>1, <2>2, <2>3, Over
<1>7. CASE {r \in RPCs : Matches(pattern(r), call.q)} = {} /\ call' = Answered("noroute")
  <2>1. call.rpc = "ProlongValue" /\ call.meant.name \in ValueNames
    BY <1>1, <1>2, <1>7 DEF Delivers
  <2> QED
    BY <1>6, <1>7, <2>1
<1>8. ASSUME NEW r \in RPCs, Matches(pattern(r), call.q),
             Assemble(r, call.q, PathParams(pattern(r), call.q)) = {},
             call' = Answered("malformed")
      PROVE  IInv'
  <2>1. ~(call.q.queryOk /\ call.q.bodyOk)
    BY <1>2, <1>4, <1>8 DEF Delivers
  <2> QED
    BY <1>6, <1>8, <2>1
<1>9. ASSUME NEW r \in RPCs, Matches(pattern(r), call.q),
             NEW m \in Assemble(r, call.q, PathParams(pattern(r), call.q)),
             call' = [call EXCEPT !.pc = "invoke", !.procedure = r, !.msg = m]
      PROVE  IInv'
  <2>1. r = call.rpc /\ m = call.meant
    BY <1>2, <1>4, <1>9 DEF Delivers
  <2>2. /\ DOMAIN call' = CallFields /\ call'.pc = "invoke"
        /\ call'.rpc = call.rpc /\ call'.meant = call.meant /\ call'.q = call.q
        /\ call'.procedure = call.rpc /\ call'.msg = call.meant /\ call'.token = call.token
        /\ call'.pos = call.pos /\ call'.charged = call.charged /\ call'.ran = call.ran
        /\ call'.answer = call.answer /\ call'.calm = call.calm
    BY <1>5, <1>9, <2>1 DEF CallFields
  <2>3. Shape'
    BY <1>1, <2>2 DEF IInv, Shape
  <2>4. AsMeant'
    BY <1>1, <2>2 DEF AsMeant
  <2>5. Progress'
    BY <1>1, <2>2 DEF IInv, Progress
  <2>6. GoodCallsServed'
    BY <2>2 DEF GoodCallsServed
  <2> QED
    BY <2>3, <2>4, <2>5, <2>6 DEF IInv
<1> QED
  BY <1>7, <1>8, <1>9 DEF Route

LEMMA InvokeStep == IInv /\ Invoke => IInv'
<1> SUFFICES ASSUME IInv, Invoke
             PROVE  IInv'
  OBVIOUS
<1>1. /\ call.pc = "invoke" /\ UNCHANGED <<pkvUp, chain, gatewayUp>>
      /\ pkvUp \in BOOLEAN /\ gatewayUp \in BOOLEAN /\ chain \in {Chain(d) : d \in BOOLEAN}
      /\ DOMAIN call = CallFields /\ call.charged \in {0, 1} /\ call.calm \in BOOLEAN
      /\ call.ran = <<>> /\ call.answer = "none" /\ call.procedure = call.rpc
  BY DEF Invoke, IInv, Shape, AsMeant, Progress
<1>2. CASE ~pkvUp
  <2>1. call' = [Answered("unavailable") EXCEPT !.calm = FALSE]
    BY <1>2 DEF Invoke
  <2>2. Ends(call', "unavailable") /\ call'.charged = call.charged /\ call'.calm = FALSE
    BY <2>1, AnsweredEnds
  <2>3. GoodCallsServed'
    BY <2>2 DEF GoodCallsServed
  <2>4. "unavailable" \in Answers \ {"none"}
    BY DEF Answers
  <2> QED
    BY <1>1, <2>2, <2>3, <2>4, Over
<1>3. CASE pkvUp /\ call.procedure \in RPCs
  <2>1. call' = [call EXCEPT !.pc = "pkv"]
    BY <1>3 DEF Invoke
  <2>2. /\ DOMAIN call' = CallFields /\ call'.pc = "pkv"
        /\ call'.rpc = call.rpc /\ call'.meant = call.meant /\ call'.q = call.q
        /\ call'.procedure = call.procedure /\ call'.msg = call.msg /\ call'.token = call.token
        /\ call'.pos = call.pos /\ call'.charged = call.charged /\ call'.ran = call.ran
        /\ call'.answer = call.answer /\ call'.calm = call.calm
    BY <1>1, <2>1 DEF CallFields
  <2>3. Shape'
    BY <1>1, <2>2 DEF IInv, Shape
  <2>4. AsMeant'
    BY <2>2 DEF IInv, AsMeant
  <2>5. call.pos = 1 /\ call.charged = 0
    BY <1>1 DEF IInv, Progress
  <2>6. Len(chain) \in {1, 2}
    BY <1>1, ChainShapes
  <2>7. Passed'
    <3>1. chain' = chain /\ call'.pos = 1 /\ call'.charged = 0
      BY <1>1, <2>2, <2>5
    <3>2. PICK k : k = Len(chain')
      OBVIOUS
    <3>3. k \in {1, 2}
      BY <2>6, <3>1, <3>2
    <3>4. ~(1 > 1) /\ ~(1 > k)
      BY <3>3
    <3> QED
      BY <3>1, <3>2, <3>4 DEF Passed
  <2>8. Progress'
    BY <1>1, <1>3, <2>2, <2>5, <2>6, <2>7 DEF Progress
  <2>9. GoodCallsServed'
    BY <2>2 DEF GoodCallsServed
  <2> QED
    BY <2>3, <2>4, <2>8, <2>9 DEF IInv
<1>4. CASE pkvUp /\ call.procedure \notin RPCs
  <2>1. call' = Answered("notfound")
    BY <1>4 DEF Invoke
  <2>2. Ends(call', "notfound") /\ call'.charged = call.charged /\ call'.calm = call.calm
    BY <2>1, AnsweredEnds
  <2>3. GoodCallsServed'
    BY <1>1, <1>4, <2>2 DEF GoodCallsServed, Ends
  <2>4. "notfound" \in Answers \ {"none"}
    BY DEF Answers
  <2> QED
    BY <1>1, <2>2, <2>3, <2>4, Over
<1> QED
  BY <1>1, <1>2, <1>3, <1>4

\* What holds of a call between its interceptors.
LEMMA InPkv ==
  ASSUME IInv, call.pc = "pkv"
  PROVE  /\ pkvUp /\ gatewayUp \in BOOLEAN /\ chain \in {Chain(d) : d \in BOOLEAN}
         /\ DOMAIN call = CallFields /\ call.charged \in {0, 1} /\ call.calm \in BOOLEAN
         /\ call.rpc \in RPCs /\ call.procedure = call.rpc /\ call.msg = call.meant
         /\ call.ran = <<>> /\ call.answer \in {"none", "broken"}
         /\ call.pos \in Nat \ {0} /\ call.pos <= Len(chain) + 1 /\ Passed
BY DEF IInv, Shape, AsMeant, Progress

\* A call passes its interceptor: the next one follows.
LEMMA Passes ==
  ASSUME IInv, call.pc = "pkv", call.pos <= Len(chain), UNCHANGED <<pkvUp, chain, gatewayUp>>,
         NEW paid \in {0, 1}, call.charged + paid \in {0, 1},
         call' = [call EXCEPT !.pos = @ + 1, !.charged = @ + paid]
                 \/ (paid = 0 /\ call' = [call EXCEPT !.pos = @ + 1]),
         chain = Chain(FALSE) /\ call.pos = 1 =>
           call.rpc \in skipAuth \/ (call.token = "good" /\ call.charged + paid = 1),
         call.pos > 1 => paid = 0,
         call.pos = Len(chain) => Valid(call.rpc, call.meant)
  PROVE  IInv'
<1>1. /\ pkvUp /\ chain \in {Chain(d) : d \in BOOLEAN}
      /\ DOMAIN call = CallFields /\ call.rpc \in RPCs /\ call.pos \in Nat \ {0} /\ Passed
  BY InPkv
<1>2. /\ DOMAIN call' = CallFields /\ call'.pc = call.pc
      /\ call'.rpc = call.rpc /\ call'.meant = call.meant /\ call'.q = call.q
      /\ call'.procedure = call.procedure /\ call'.msg = call.msg /\ call'.token = call.token
      /\ call'.pos = call.pos + 1 /\ call'.charged = call.charged + paid
      /\ call'.ran = call.ran /\ call'.answer = call.answer /\ call'.calm = call.calm
  <2>1. call.charged \in {0, 1}
    BY InPkv
  <2>2. CASE call' = [call EXCEPT !.pos = @ + 1, !.charged = @ + paid]
    BY <1>1, <2>2 DEF CallFields
  <2>3. CASE paid = 0 /\ call' = [call EXCEPT !.pos = @ + 1]
    BY <1>1, <2>1, <2>3 DEF CallFields
  <2> QED
    BY <2>2, <2>3
<1>3. Len(chain) \in {1, 2}
  BY <1>1, ChainShapes
<1>4. Shape'
  BY <1>1, <1>2 DEF IInv, Shape
<1>5. AsMeant'
  BY <1>2 DEF IInv, AsMeant
<1>6. Passed'
  <2>1. call'.pos # 1 /\ (call'.pos > Len(chain') => call.pos = Len(chain))
    BY <1>1, <1>2, <1>3
  <2>2. chain = Chain(FALSE) /\ call.pos > 1 =>
          call.rpc \in skipAuth \/ (call.token = "good" /\ call.charged + paid = 1)
    BY <1>1 DEF Passed
  <2>3. /\ chain' = chain /\ call'.rpc = call.rpc /\ call'.meant = call.meant
        /\ call'.token = call.token /\ call'.charged = call.charged + paid
        /\ call.pos = 1 \/ call.pos > 1
    BY <1>1, <1>2
  <2>4. chain' = Chain(FALSE) =>
          call'.rpc \in skipAuth \/ (call'.token = "good" /\ call'.charged = 1)
    BY <2>2, <2>3
  <2>5. call'.pos > Len(chain') => Valid(call'.rpc, call'.meant)
    BY <2>1, <2>3
  <2> QED
    BY <2>1, <2>4, <2>5 DEF Passed
<1>7. Progress'
  BY <1>1, <1>2, <1>3, <1>6 DEF IInv, Progress
<1>8. GoodCallsServed'
  BY <1>2 DEF GoodCallsServed
<1> QED
  BY <1>4, <1>5, <1>7, <1>8 DEF IInv

\* A call is turned away in pkv: nothing ran, and unless something failed it
\* could not pay or was not valid.
LEMMA TurnedAway ==
  ASSUME IInv, call.pc = "pkv", UNCHANGED <<pkvUp, chain, gatewayUp>>,
         NEW a \in {"refused", "invalid"}, Ends(call', a),
         call'.charged \in {0, 1}, call'.calm \in BOOLEAN,
         ~call'.calm \/ call.token # "good" \/ ~Valid(call.rpc, call.meant)
  PROVE  IInv'
<1>1. /\ pkvUp /\ gatewayUp \in BOOLEAN /\ chain \in {Chain(d) : d \in BOOLEAN}
      /\ call.ran = <<>> /\ call.answer \in {"none", "broken"}
  BY InPkv
<1>2. GoodCallsServed'
  BY DEF GoodCallsServed, Ends
<1>3. a \in Answers \ {"none"} /\ a \notin {"ok", "error"}
  BY DEF Answers
<1> QED
  BY <1>1, <1>2, <1>3, Over

LEMMA SessionStep == IInv /\ Session => IInv'
<1> SUFFICES ASSUME IInv, Session
             PROVE  IInv'
  OBVIOUS
<1>1. /\ call.pc = "pkv" /\ call.pos <= Len(chain) /\ chain[call.pos] = "session"
      /\ UNCHANGED <<pkvUp, chain, gatewayUp>>
  BY DEF Session, AtInterceptor
<1>2. /\ chain \in {Chain(d) : d \in BOOLEAN} /\ call.pos \in Nat \ {0} /\ Passed
      /\ DOMAIN call = CallFields /\ call.charged \in {0, 1} /\ call.calm \in BOOLEAN
      /\ call.procedure = call.rpc /\ call.msg = call.meant /\ call.rpc \in RPCs
  BY <1>1, InPkv
<1>3. call.pos = 1 /\ Len(chain) = 2
  <2>1. \/ Len(chain) = 1 /\ chain[1] = "validation"
        \/ Len(chain) = 2 /\ chain[2] = "validation"
    BY <1>2, ChainShapes
  <2>2. call.pos = 1 \/ call.pos = 2
    BY <1>1, <1>2, <2>1
  <2> QED
    BY <1>1, <2>1, <2>2
<1>4. call.charged = 0
  BY <1>2, <1>3 DEF Passed
<1>5. CASE call.procedure \in skipAuth /\ call' = [call EXCEPT !.pos = @ + 1]
  <2>1. 0 \in {0, 1} /\ call.charged + 0 \in {0, 1}
    BY <1>4
  <2>2. ~(call.pos > 1) /\ call.pos # Len(chain)
    BY <1>3
  <2> QED
    BY <1>1, <1>2, <1>3, <1>5, <2>1, <2>2, Passes
<1>6. CASE call.token = "good" /\ call' = [call EXCEPT !.pos = @ + 1, !.charged = @ + 1]
  <2>1. 1 \in {0, 1} /\ call.charged + 1 = 1
    BY <1>4
  <2>2. ~(call.pos > 1) /\ call.pos # Len(chain) /\ call.charged + 1 \in {0, 1}
    BY <1>3, <2>1
  <2> QED
    BY <1>1, <1>3, <1>6, <2>1, <2>2, Passes
<1>7. ASSUME NEW paid \in {0, 1},
             call' = [Answered("refused") EXCEPT !.charged = @ + paid, !.calm = FALSE]
      PROVE  IInv'
  <2> DEFINE d == Answered("refused")
  <2>1. Ends(d, "refused") /\ d.charged = 0
    BY <1>4, AnsweredEnds
  <2>2. call' = [d EXCEPT !.charged = @ + paid, !.calm = FALSE]
    BY <1>7
  <2> HIDE DEF d
  <2>3. Ends(call', "refused") /\ call'.charged = paid /\ call'.calm = FALSE
    BY <2>1, <2>2 DEF Ends, CallFields
  <2> QED
    BY <1>1, <2>3, TurnedAway
<1>8. CASE /\ call.token = "bad" \/ ~PriceIsPositive(call.procedure, call.msg)
           /\ call' = Answered("refused")
  <2>1. Ends(call', "refused") /\ call'.charged = call.charged /\ call'.calm = call.calm
    BY <1>8, AnsweredEnds
  <2>2. call.token # "good" \/ ~Valid(call.rpc, call.meant)
    BY <1>2, <1>8, ValidIsPriced
  <2> QED
    BY <1>1, <1>2, <2>1, <2>2, TurnedAway
<1> QED
  BY <1>5, <1>6, <1>7, <1>8 DEF Session

LEMMA ValidationStep == IInv /\ Validation => IInv'
<1> SUFFICES ASSUME IInv, Validation
             PROVE  IInv'
  OBVIOUS
<1>1. /\ call.pc = "pkv" /\ call.pos <= Len(chain) /\ chain[call.pos] = "validation"
      /\ UNCHANGED <<pkvUp, chain, gatewayUp>>
  BY DEF Validation, AtInterceptor
<1>2. /\ chain \in {Chain(d) : d \in BOOLEAN} /\ call.pos \in Nat \ {0}
      /\ call.charged \in {0, 1} /\ call.calm \in BOOLEAN
      /\ call.procedure = call.rpc /\ call.msg = call.meant
  BY <1>1, InPkv
<1>3. chain = Chain(FALSE) => call.pos # 1
  BY <1>1, <1>2, ChainShapes
<1>4. CASE Valid(call.procedure, call.msg)
  <2>1. call' = [call EXCEPT !.pos = @ + 1]
    BY <1>4 DEF Validation
  <2>2. 0 \in {0, 1} /\ call.charged + 0 \in {0, 1}
    BY <1>2
  <2> QED
    BY <1>1, <1>2, <1>3, <1>4, <2>1, <2>2, Passes
<1>5. CASE ~Valid(call.procedure, call.msg)
  <2>1. call' = Answered("invalid")
    BY <1>5 DEF Validation
  <2>2. Ends(call', "invalid") /\ call'.charged = call.charged /\ call'.calm = call.calm
    BY <2>1, AnsweredEnds
  <2> QED
    BY <1>1, <1>2, <1>5, <2>2, TurnedAway
<1> QED
  BY <1>4, <1>5

LEMMA HandleStep == IInv /\ Handle => IInv'
<1> SUFFICES ASSUME IInv, Handle
             PROVE  IInv'
  OBVIOUS
<1>1. call.pc = "pkv" /\ call.pos > Len(chain) /\ UNCHANGED <<pkvUp, chain, gatewayUp>>
  BY DEF Handle
<1>2. /\ pkvUp /\ DOMAIN call = CallFields /\ call.rpc \in RPCs
      /\ call.procedure = call.rpc /\ call.msg = call.meant
      /\ call.ran = <<>> /\ call.answer \in {"none", "broken"}
      /\ call.pos \in Nat \ {0} /\ call.pos <= Len(chain) + 1 /\ Passed
      /\ chain \in {Chain(d) : d \in BOOLEAN}
  BY <1>1, InPkv
<1>3. Append(call.ran, [rpc |-> call.procedure, msg |-> call.msg]) = ItsRun
  BY <1>2 DEF ItsRun
<1>4. call' = [call EXCEPT !.pc = "reply", !.ran = ItsRun]
  BY <1>3 DEF Handle
<1>5. /\ DOMAIN call' = CallFields /\ call'.pc = "reply"
      /\ call'.rpc = call.rpc /\ call'.meant = call.meant /\ call'.q = call.q
      /\ call'.procedure = call.procedure /\ call'.msg = call.msg /\ call'.token = call.token
      /\ call'.pos = call.pos /\ call'.charged = call.charged /\ call'.ran = ItsRun
      /\ call'.answer = call.answer /\ call'.calm = call.calm
  BY <1>2, <1>4 DEF CallFields
<1>6. Shape'
  BY <1>1, <1>5 DEF IInv, Shape
<1>7. AsMeant'
  BY <1>5 DEF IInv, AsMeant
<1>8. Len(chain) \in {1, 2}
  BY <1>2, ChainShapes
<1>9. Passed' /\ ItsRun' = ItsRun
  BY <1>1, <1>2, <1>5 DEF Passed, ItsRun
<1>10. call'.pos = Len(chain') + 1
  BY <1>1, <1>2, <1>5, <1>8
<1>11. Progress'
  BY <1>1, <1>2, <1>5, <1>9, <1>10 DEF Progress
<1>12. GoodCallsServed'
  BY <1>5 DEF GoodCallsServed
<1> QED
  BY <1>6, <1>7, <1>11, <1>12 DEF IInv

LEMMA ReplyStep == IInv /\ Reply => IInv'
<1> SUFFICES ASSUME IInv, Reply
             PROVE  IInv'
  OBVIOUS
<1>1. PICK a \in {"ok", "error"} : call' = Answered(a)
  BY DEF Reply
<1>2. call.pc = "reply" /\ UNCHANGED <<pkvUp, chain, gatewayUp>>
  BY DEF Reply
<1>3. /\ pkvUp \in BOOLEAN /\ gatewayUp \in BOOLEAN /\ chain \in {Chain(d) : d \in BOOLEAN}
      /\ call.charged \in {0, 1} /\ call.calm \in BOOLEAN
      /\ call.ran = ItsRun /\ call.answer \in {"none", "broken"}
  BY <1>2 DEF IInv, Shape, Progress
<1>4. Valid(call.rpc, call.meant)
  <2>1. Passed /\ call.pos = Len(chain) + 1
    BY <1>2 DEF IInv, Progress
  <2>2. Len(chain) \in {1, 2}
    BY <1>3, ChainShapes
  <2> QED
    BY <2>1, <2>2 DEF Passed
<1>5. Ends(call', a) /\ call'.charged = call.charged /\ call'.calm = call.calm
  BY <1>1, AnsweredEnds
<1>6. Len(ItsRun) = 1
  BY DEF ItsRun
<1>7. GoodCallsServed'
  BY <1>3, <1>5, <1>6 DEF GoodCallsServed, Ends
<1>8. a \in Answers \ {"none"}
  BY DEF Answers
<1> QED
  BY <1>2, <1>3, <1>4, <1>5, <1>7, <1>8, Over

LEMMA StopStep == IInv /\ Stop => IInv'
<1> SUFFICES ASSUME IInv, Stop
             PROVE  IInv'
  OBVIOUS
<1>1. pkvUp' = FALSE /\ UNCHANGED <<chain, gatewayUp>>
  BY DEF Stop
<1>2. /\ gatewayUp \in BOOLEAN /\ chain \in {Chain(d) : d \in BOOLEAN}
      /\ call.charged \in {0, 1} /\ call.calm \in BOOLEAN
  BY DEF IInv, Shape
<1>3. CASE call.pc \in {"pkv", "reply"}
  <2>1. call' = [Answered("unavailable") EXCEPT !.calm = FALSE]
    BY <1>3 DEF Stop
  <2>2. Ends(call', "unavailable") /\ call'.charged = call.charged /\ call'.calm = FALSE
    BY <2>1, AnsweredEnds
  <2>3. GoodCallsServed'
    BY <2>2 DEF GoodCallsServed
  <2>4. "unavailable" \in Answers \ {"none"}
    BY DEF Answers
  <2>5. /\ call.answer \in {"none", "broken"}
        /\ call.ran = <<>> \/ (call.ran = ItsRun /\ Valid(call.rpc, call.meant))
    <3>1. Len(chain) \in {1, 2}
      BY <1>2, ChainShapes
    <3>2. call.pos = Len(chain) + 1 => call.pos > Len(chain)
      BY <3>1
    <3>3. Passed /\ (Passed /\ call.pos > Len(chain) => Valid(call.rpc, call.meant))
      BY <1>3 DEF IInv, Progress, Passed
    <3> QED
      BY <1>3, <3>2, <3>3 DEF IInv, Progress
  <2> QED
    BY <1>1, <1>2, <2>2, <2>3, <2>4, <2>5, Over
<1>4. CASE call.pc \notin {"pkv", "reply"}
  <2>1. call' = call
    BY <1>4 DEF Stop
  <2>2. Shape' /\ AsMeant'
    BY <1>1, <2>1 DEF IInv, Shape, AsMeant
  <2>3. Progress'
    BY <1>1, <1>4, <2>1 DEF IInv, Progress, ItsRun
  <2>4. GoodCallsServed'
    BY <2>1 DEF IInv, GoodCallsServed
  <2> QED
    BY <2>2, <2>3, <2>4 DEF IInv
<1> QED
  BY <1>3, <1>4

LEMMA StartStep == IInv /\ Start => IInv'
<1> SUFFICES ASSUME IInv, Start
             PROVE  IInv'
  OBVIOUS
<1>1. /\ ~pkvUp /\ pkvUp' = TRUE /\ UNCHANGED <<gatewayUp, call>>
      /\ chain' \in {Chain(d) : d \in BOOLEAN}
  BY DEF Start
<1>2. call.pc \notin {"pkv", "reply"}
  BY <1>1 DEF IInv, Progress
<1>3. Shape' /\ AsMeant'
  BY <1>1 DEF IInv, Shape, AsMeant
<1>4. Progress'
  BY <1>1, <1>2 DEF IInv, Progress, ItsRun
<1>5. GoodCallsServed'
  BY <1>1 DEF IInv, GoodCallsServed
<1> QED
  BY <1>3, <1>4, <1>5 DEF IInv

LEMMA GatewayStopStep == IInv /\ GatewayStop => IInv'
<1> SUFFICES ASSUME IInv, GatewayStop
             PROVE  IInv'
  OBVIOUS
<1>1. gatewayUp' = FALSE /\ UNCHANGED <<pkvUp, chain>>
  BY DEF GatewayStop
<1>2. /\ pkvUp \in BOOLEAN /\ chain \in {Chain(d) : d \in BOOLEAN} /\ DOMAIN call = CallFields
      /\ call.charged \in {0, 1} /\ call.calm \in BOOLEAN
      /\ call.pc \in {"idle", "gateway", "invoke", "pkv", "reply", "answered"}
  BY DEF IInv, Shape
<1>3. CASE call' = call
  <2>1. Shape' /\ AsMeant'
    BY <1>1, <1>3 DEF IInv, Shape, AsMeant
  <2>2. Progress'
    BY <1>1, <1>3 DEF IInv, Progress, ItsRun, Passed
  <2>3. GoodCallsServed'
    BY <1>3 DEF IInv, GoodCallsServed
  <2> QED
    BY <2>1, <2>2, <2>3 DEF IInv
<1>4. CASE /\ call.pc \in {"gateway", "invoke"}
           /\ call' = [Answered("broken") EXCEPT !.calm = FALSE]
  <2>1. Ends(call', "broken") /\ call'.charged = call.charged /\ call'.calm = FALSE
    BY <1>4, AnsweredEnds
  <2>2. GoodCallsServed'
    BY <2>1 DEF GoodCallsServed
  <2>3. "broken" \in Answers \ {"none"}
    BY DEF Answers
  <2>4. call.answer \in {"none", "broken"} /\ call.ran = <<>>
    BY <1>4 DEF IInv, Progress
  <2> QED
    BY <1>1, <1>2, <2>1, <2>2, <2>3, <2>4, Over
<1>5. CASE /\ call.pc \in {"pkv", "reply"}
           /\ call' = [call EXCEPT !.answer = "broken", !.calm = FALSE]
  <2>1. /\ DOMAIN call' = CallFields /\ call'.pc = call.pc
        /\ call'.rpc = call.rpc /\ call'.meant = call.meant /\ call'.q = call.q
        /\ call'.procedure = call.procedure /\ call'.msg = call.msg /\ call'.token = call.token
        /\ call'.pos = call.pos /\ call'.charged = call.charged /\ call'.ran = call.ran
        /\ call'.answer = "broken" /\ call'.calm = FALSE
    BY <1>2, <1>5 DEF CallFields
  <2>2. Shape'
    BY <1>1, <2>1 DEF IInv, Shape, Answers
  <2>3. AsMeant'
    BY <2>1 DEF IInv, AsMeant
  <2>4. ItsRun' = ItsRun /\ (Passed => Passed')
    BY <1>1, <2>1 DEF Passed, ItsRun
  <2>5. Progress'
    BY <1>1, <1>5, <2>1, <2>4 DEF IInv, Progress
  <2>6. GoodCallsServed'
    BY <2>1 DEF GoodCallsServed
  <2> QED
    BY <2>2, <2>3, <2>5, <2>6 DEF IInv
<1> QED
  BY <1>2, <1>3, <1>4, <1>5 DEF GatewayStop

LEMMA GatewayStartStep == IInv /\ GatewayStart => IInv'
<1> SUFFICES ASSUME IInv, GatewayStart
             PROVE  IInv'
  OBVIOUS
<1>1. gatewayUp' = TRUE /\ UNCHANGED <<pkvUp, chain, call>>
  BY DEF GatewayStart
<1>2. Shape' /\ AsMeant'
  BY <1>1 DEF IInv, Shape, AsMeant
<1>3. Progress'
  BY <1>1 DEF IInv, Progress, ItsRun, Passed
<1>4. GoodCallsServed'
  BY <1>1 DEF IInv, GoodCallsServed
<1> QED
  BY <1>2, <1>3, <1>4 DEF IInv

LEMMA StutterStep == IInv /\ UNCHANGED vars => IInv'
<1> SUFFICES ASSUME IInv, UNCHANGED vars
             PROVE  IInv'
  OBVIOUS
<1>1. UNCHANGED <<pkvUp, chain, gatewayUp, call>>
  BY DEF vars
<1>2. Shape' /\ AsMeant'
  BY <1>1 DEF IInv, Shape, AsMeant
<1>3. Progress'
  BY <1>1 DEF IInv, Progress, ItsRun, Passed
<1>4. GoodCallsServed'
  BY <1>1 DEF IInv, GoodCallsServed
<1> QED
  BY <1>2, <1>3, <1>4 DEF IInv

LEMMA NextStep == IInv /\ [Next]_vars => IInv'
<1> SUFFICES ASSUME IInv, [Next]_vars
             PROVE  IInv'
  OBVIOUS
<1>1. ASSUME NEW rpc \in RPCs, NEW token \in Tokens, NEW m \in Requests(rpc),
             NEW q \in DocumentedRequests(rpc, m), Rest(rpc, m, q, token)
      PROVE  IInv'
  <2>1. /\ call' = NewCall(rpc, m, q, token, "gateway") /\ UNCHANGED <<pkvUp, chain, gatewayUp>>
        /\ rpc \in RPCs \cup {Unknown} /\ "gateway" \in {"idle", "gateway", "invoke"}
    BY <1>1 DEF Rest
  <2> QED
    BY <2>1, New
<1>2. ASSUME NEW rpc \in RPCs \cup {Unknown}, NEW token \in Tokens, NEW m \in Requests(rpc),
             Direct(rpc, m, token)
      PROVE  IInv'
  <2>1. /\ call' = NewCall(rpc, m, None, token, "invoke") /\ UNCHANGED <<pkvUp, chain, gatewayUp>>
        /\ "invoke" \in {"idle", "gateway", "invoke"} /\ "invoke" # "gateway"
    BY <1>2 DEF Direct
  <2> QED
    BY <2>1, New
<1>3. CASE Taken
  <2>1. /\ call' = NewCall("Ping", Blank("Ping"), None, "bad", "idle")
        /\ UNCHANGED <<pkvUp, chain, gatewayUp>>
        /\ "Ping" \in RPCs \cup {Unknown} /\ Blank("Ping") \in Requests("Ping")
        /\ "bad" \in Tokens /\ "idle" \in {"idle", "gateway", "invoke"} /\ "idle" # "gateway"
    BY <1>3, BlankPing DEF Taken, NoCall, Tokens
  <2> QED
    BY <2>1, New
<1> QED
  BY <1>1, <1>2, <1>3, RouteStep, InvokeStep, SessionStep, ValidationStep, HandleStep, ReplyStep,
     StopStep, StartStep, GatewayStopStep, GatewayStartStep, StutterStep DEF Next

-----------------------------------------------------------------------------
(* Theorems                                                                *)

\* The invariant of the gateway and of pkv's interceptors holds in every
\* reachable state.
THEOREM Inductive == Spec => []IInv
<1> QED
  BY InitIInv, NextStep, PTL DEF Spec

\* Every variable keeps its type, whatever is called: a call is at one of its
\* places and carries a message of its procedure.
THEOREM TypeCorrect == Spec => []TypeOK
<1>1. IInv => TypeOK
  <2> SUFFICES ASSUME IInv
               PROVE  TypeOK
    OBVIOUS
  <2>1. DOMAIN call.msg = FieldsOf(call.procedure)
    BY FieldTable DEF IInv, AsMeant
  <2>2. Len(chain) \in {1, 2}
    BY ChainShapes DEF IInv, Shape
  <2>3. call.pos \in 1..Len(chain) + 1 \/ call.pc = "answered"
    BY <2>2 DEF IInv, Shape, Progress
  <2> QED
    BY <2>1, <2>3 DEF IInv, Shape, AsMeant, TypeOK
<1> QED
  BY <1>1, Inductive, PTL

\* Whatever a handler runs is the valid call its client meant: over REST the
\* generated patterns lead a request to no handler but its own, and the
\* request_ functions and their filters give it the client's message, whatever
\* strays into the query or the body.
THEOREM RunsMeant == Spec => []RunsWhatWasMeant
<1>1. IInv => RunsWhatWasMeant
  <2> SUFFICES ASSUME IInv, NEW i \in DOMAIN call.ran
               PROVE  /\ call.ran[i] = [rpc |-> call.rpc, msg |-> call.meant]
                      /\ Valid(call.rpc, call.meant)
    BY DEF RunsWhatWasMeant
  <2>1. call.ran # <<>>
    OBVIOUS
  <2>2. Len(chain) \in {1, 2}
    BY ChainShapes DEF IInv, Shape
  <2>3. call.pc \in {"reply", "answered"}
    BY <2>1 DEF IInv, Shape, Progress
  <2>4. ASSUME call.pc = "reply"
        PROVE  call.ran = ItsRun /\ Valid(call.rpc, call.meant)
    <3>1. Passed /\ call.pos = Len(chain) + 1 /\ call.ran = ItsRun
      BY <2>4 DEF IInv, Progress
    <3>2. call.pos > Len(chain)
      BY <2>2, <3>1
    <3> QED
      BY <3>1, <3>2 DEF Passed
  <2>5. ASSUME call.pc = "answered"
        PROVE  call.ran = ItsRun /\ Valid(call.rpc, call.meant)
    BY <2>1, <2>5 DEF IInv, Progress
  <2>6. call.ran = ItsRun /\ Valid(call.rpc, call.meant)
    BY <2>3, <2>4, <2>5
  <2> QED
    BY <2>6 DEF ItsRun
<1> QED
  BY <1>1, Inductive, PTL

\* An answer tells what happened: ok and error follow one run of a handler, a
\* refusal of the gateway or of an interceptor follows none.
THEOREM Truthful == Spec => []AnswersTellTheTruth
<1>1. IInv => AnswersTellTheTruth
  <2> SUFFICES ASSUME IInv
               PROVE  AnswersTellTheTruth
    OBVIOUS
  <2>1. Len(ItsRun) = 1 /\ Len(<<>>) = 0
    BY DEF ItsRun
  <2>2. /\ call.answer \in {"ok", "error"} => call.ran = ItsRun
        /\ call.answer \in {"noroute", "malformed", "notfound", "refused", "invalid"} =>
             call.ran = <<>>
        /\ call.ran = <<>> \/ call.ran = ItsRun
    BY DEF IInv, Shape, Progress
  <2> QED
    BY <2>1, <2>2 DEF AnswersTellTheTruth
<1> QED
  BY <1>1, Inductive, PTL

\* With the session interceptor installed, no storing, reading, prolonging or
\* registering is served before its session paid for it, once.
THEOREM Paid == Spec => []PaidBeforeServed
<1>1. IInv => PaidBeforeServed
  <2> SUFFICES ASSUME IInv, call.pc = "reply", chain = Chain(FALSE)
               PROVE  call.rpc \in skipAuth \/ (call.token = "good" /\ call.charged = 1)
    BY DEF PaidBeforeServed, skipAuth
  <2>1. Passed /\ call.pos = Len(chain) + 1
    BY DEF IInv, Progress
  <2>2. Len(chain) \in {1, 2}
    BY ChainShapes DEF IInv, Shape
  <2>3. call.pos > 1
    <3>1. PICK k : k = Len(chain)
      OBVIOUS
    <3>2. k \in {1, 2} /\ call.pos = k + 1
      BY <2>1, <2>2, <3>1, Zenon
    <3> QED
      BY <3>2
  <2> QED
    BY <2>1, <2>3 DEF Passed
<1> QED
  BY <1>1, Inductive, PTL

\* A valid, well-formed call that can pay and meets no failure is run, unless
\* it prolongs a value over REST by the name kvstore.proto documents, for which
\* the generated gateway has no pattern.
THEOREM Served == Spec => []GoodCallsServed
<1>1. IInv => GoodCallsServed
  BY DEF IInv
<1> QED
  BY <1>1, Inductive, PTL
=============================================================================
