----------------------------- MODULE MCBilling -----------------------------
(* Small instances of Billing. *)
EXTENDS Billing, TLC

CONSTANTS c1, c2, j1

Quota(j, n, e) ==
  [alg |-> "EdDSA", trusted |-> TRUE, usage |-> "CREATE_SESSION", jti |-> j,
   sub |-> NoSubject, quantity |-> n, exp |-> e]

\* One usable quota of 2 units, and the JWTs CreateSession must turn away: no
\* quantity, another usage, an unknown issuer, genjwt's login token.
MCWallet ==
  { Quota(j1, 2, 1), Quota(j1, 0, 1),
    [Quota(j1, 2, 1) EXCEPT !.usage = "UNSPECIFIED"],
    [Quota(j1, 2, 1) EXCEPT !.trusted = FALSE],
    [Quota(j1, 0, 1) EXCEPT !.alg = "HS256", !.usage = "UNSPECIFIED"] }

Req(p, n, v) == [proc |-> p, size |-> n, valid |-> v]

\* Price 1, for a handler that comes back and for one that may not, price 2 of
\* a request that fails validation, one out of a counter's range, one that is
\* not positive, and a free call.
MCRequests ==
  { Req("GetValue", 0, TRUE), Req("GetStreamValue", 0, TRUE),
    Req("RegisterInstance", 2, FALSE),
    Req("CreateStreamValue", 1, TRUE), Req("ProlongValue", -1, TRUE),
    Req("Ping", 0, TRUE) }

\* For the runs with a restart: two quotas of the exchange with one jti.
SharedJti == { Quota(j1, 2, 1), Quota(j1, 1, 1) }

FewRequests == { Req("GetValue", 0, TRUE) }

MCMinInt64 == -2

Symmetry == Permutations(Calls)
=============================================================================
