------------------------------- MODULE Tokens -------------------------------
(***************************************************************************)
(* How many tokens a request is charged for (gateway/tokens.py), and how   *)
(* many the request that is forwarded asks for (gateway/app.py).           *)
(*                                                                         *)
(* Abstractions.  A body is the fields that say how much is generated; the *)
(* tokens of the prompt, which are charged on top, are left out.           *)
(***************************************************************************)
EXTENDS Integers

CONSTANTS Absent, Other,       \* a field that is not there, or not an integer
          Ceiling,             \* rate_limit.max_tokens_ceiling
          DefaultMax,          \* rate_limit.default_max_tokens
          RateLimitEnabled,    \* rate_limit.enabled
          Bodies               \* the bodies that clients send

Amounts == Int \cup {Absent, Other}

\* max_tokens, max_completion_tokens, and the larger of n and best_of, or 1.
Body == [max : Amounts, completion : Amounts, multiple : Nat \ {0}]

ASSUME TokensAssumption ==
    /\ Absent \notin Int /\ Other \notin Int /\ Absent # Other
    /\ Ceiling \in Nat \ {0} /\ DefaultMax \in Nat \ {0}
    /\ RateLimitEnabled \in BOOLEAN
    /\ Bodies \subseteq Body

Positive(amount) == amount \in Int /\ amount > 0

Requested(b) == IF b.max = Absent THEN b.completion ELSE b.max

Smaller(a, b) == IF a <= b THEN a ELSE b

\* estimate: an amount that is missing or makes no sense costs the default.
Charge(b) ==
    Smaller(IF Positive(Requested(b)) THEN Requested(b) ELSE DefaultMax, Ceiling) * b.multiple

\* A bug: the clamp leaves alone what is one above the ceiling.
ForwardedMutant(b) ==
    IF RateLimitEnabled /\ b.max \in Int /\ b.max > Ceiling + 1
    THEN [b EXCEPT !.max = Ceiling]
    ELSE b

\* The body that goes upstream.
Forwarded(b) ==
    IF RateLimitEnabled /\ b.max \in Int /\ b.max > Ceiling
    THEN [b EXCEPT !.max = Ceiling]
    ELSE b

\* What a body with an integer max_tokens lets the engine generate.
Asked(b) == b.max * b.multiple
=============================================================================
