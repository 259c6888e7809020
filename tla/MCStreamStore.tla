--------------------------- MODULE MCStreamStore ---------------------------
(* Small instances of StreamStore. *)
EXTENDS StreamStore, TLC

CONSTANTS w1, w2, q1, bob, eve, did, plain, nested

\* did:    accounts/did:example:bob/streams/s, which no read can parse
\* plain:  accounts/bob/streams/s, which validation refuses
\* nested: accounts/did:example/accounts/bob/streams/s, which passes both, as
\*         neither pattern is anchored
MCMatches(n) == n # plain

MCOwner(n) == IF n = did THEN NoOwner ELSE bob

MCRebuilt(n) == IF n = did THEN did ELSE plain

\* The first entry there may be.
MCAskedIds == {<<1, 0>>}

Symmetry == Permutations(Writers)
=============================================================================
