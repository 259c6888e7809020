--------------------------- MODULE MCServiceIndex ---------------------------
(* Small instances of ServiceIndex. *)
EXTENDS ServiceIndex, TLC

CONSTANTS w1, w2, q1, d1, d2, s1, s2, x1, v0, x2, y2, odd

\* x1:  a CIDv1 in its normal form, and v0, the same in version 0
\* y2:  a CIDv1 in another base, whose normal form is x2
\* odd: a CIDv1 with a codec that is refused
MCDecode(c) ==
  [ok |-> TRUE, version |-> IF c = v0 THEN 0 ELSE 1,
   codec |-> IF c \in {x1, v0} THEN "dag-pb" ELSE IF c = odd THEN "cbor" ELSE "raw",
   hash |-> IF c \in {x1, v0} THEN 1 ELSE 2]

MCString(codec, hash) == IF codec = "dag-pb" THEN x1 ELSE x2

\* Both services serve x1, the second one y2 as well, under that name.
MCCidsOf(s) == IF s = s1 THEN <<x1>> ELSE <<y2, x1>>

Ad(d, s, u) == [did |-> d, svc |-> s, until |-> u, valid |-> TRUE]

\* Two providers of s1, the second of s2 as well, which it registers for at the
\* start only, as its advertisements lapse; one advertisement is refused.
MCAds == { Ad(d1, s1, 9), Ad(d2, s1, 1), Ad(d2, s2, 1),
           [Ad(d1, s2, 9) EXCEPT !.valid = FALSE] }

Symmetry == Permutations(Writers)
=============================================================================
