---------------------------- MODULE MCModelRetry ----------------------------
(* Four attempts, the first retry at once.                                    *)
EXTENDS ModelRetry

MCBackoff == [k \in 1..3 |-> k - 1]
=============================================================================
