--------------------------- MODULE MCRateLimiter ---------------------------
(* RateLimiter on a small instance: sign-in with two attempts per window   *)
(* and room in memory for two of its keys, guest creation with one.        *)
EXTENDS RateLimiter, TLC

MCLimit == [s \in Scopes |-> IF s = "signin" THEN 2 ELSE 1]
MCBudgets == {CreateGuestKey(o) : o \in Origins}

(* The watched key is counted one past its limit, where every attempt is   *)
(* refused, the others of its limiter up to it, and those of other         *)
(* limiters once in a window.                                              *)
MCMaxCount(k, w) ==
  CASE k = w -> MCLimit[Scope(k)] + 1
    [] k # w /\ Scope(k) = Scope(w) -> MCLimit[Scope(k)]
    [] OTHER -> 1

Symmetry == Permutations(Requests)
=============================================================================
