----------------------------- MODULE MCApiClient -----------------------------
(* Two goroutines share a small bucket.                                    *)
EXTENDS ApiClient, TLC
CONSTANTS a, b
MCCallers == {a, b}
=============================================================================
