--------------------------- MODULE RefreshContract ---------------------------
(***************************************************************************)
(* What credential refresh promises a component (ADR 0024), without        *)
(* transactions, locks, cached results or statements: a family of refresh  *)
(* tokens is one chain.  Whoever presents token n and is answered receives *)
(* token n + 1, whether the presentation made it or repeated an earlier    *)
(* one, and nobody receives anything once the family has ended.            *)
(***************************************************************************)
EXTENDS Naturals

CONSTANTS Callers,      \* concurrent refresh calls
          MaxTokens     \* bound: length of the chain

VARIABLES tip,          \* the newest token of the chain
          alive,        \* the family has not ended
          answer        \* what each call was last told

vars == <<tip, alive, answer>>

\* What a call is told: a token, or a word.
Issued(n) == <<"issued", n>>
Silence == <<"none", 0>>
Refused == <<"refused", 0>>
Reused == <<"reused", 0>>
Answers == {Issued(n) : n \in 1..MaxTokens} \cup {Silence, Refused, Reused}

TypeOK ==
    /\ tip \in 1..MaxTokens
    /\ alive \in BOOLEAN
    /\ answer \in [Callers -> Answers]

Init ==
    /\ tip = 1
    /\ alive = TRUE
    /\ answer = [c \in Callers |-> Silence]

\* Token n is exchanged for its successor, which exists from now on.
Exchange(c, n) ==
    /\ alive
    /\ n \in 1..tip
    /\ n < MaxTokens
    /\ tip' = IF n = tip THEN tip + 1 ELSE tip
    /\ answer' = [answer EXCEPT ![c] = Issued(n + 1)]
    /\ UNCHANGED alive

\* The exchange was made, its answer was lost.
ExchangeUnheard(c, n) ==
    /\ alive
    /\ n = tip
    /\ n < MaxTokens
    /\ tip' = tip + 1
    /\ answer' = [answer EXCEPT ![c] = Silence]
    /\ UNCHANGED alive

\* A presentation that is no duplicate ends the family.
EndByReuse(c) ==
    /\ alive' = FALSE
    /\ answer' = [answer EXCEPT ![c] = Reused]
    /\ UNCHANGED tip

Refuse(c) ==
    /\ answer' = [answer EXCEPT ![c] = Refused]
    /\ UNCHANGED <<tip, alive>>

Forget(c) ==
    /\ answer' = [answer EXCEPT ![c] = Silence]
    /\ UNCHANGED <<tip, alive>>

\* An administrator, a new session or the end of its lifetime.
End ==
    /\ alive' = FALSE
    /\ UNCHANGED <<tip, answer>>

Next ==
    \/ \E c \in Callers :
        \/ \E n \in 1..MaxTokens : Exchange(c, n) \/ ExchangeUnheard(c, n)
        \/ EndByReuse(c) \/ Refuse(c) \/ Forget(c)
    \/ End

Spec == Init /\ [][Next]_vars
=============================================================================
