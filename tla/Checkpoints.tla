----------------------------- MODULE Checkpoints -----------------------------
(***************************************************************************)
(* The tokens by which the TAGE predictor tells its checkpoints apart,     *)
(* allocate_token in src/src/tomasulo/branchpred.cpp.  An argument n is a  *)
(* record with the fields checkpoints (a queue of records with a token)    *)
(* and next_token.                                                         *)
(***************************************************************************)
EXTENDS Integers, Sequences

CONSTANT MaxToken    \* the last token before the counter wraps (2^32 - 1 in the code)

ASSUME MaxTokenAssumption == MaxToken \in Nat \ {0}

Tokens == 1 .. MaxToken

\* Mutant of TokenAfter: zero is not skipped.
TokenAfterZero(t) == IF t = MaxToken THEN 0 ELSE t + 1

\* next_token++, skipping zero when the counter wraps.
TokenAfter(t) == IF t = MaxToken THEN 1 ELSE t + 1

LiveTokens(n) == {n.checkpoints[k].token : k \in DOMAIN n.checkpoints}

TokenDist(from, t) == IF t >= from THEN t - from ELSE t - from + MaxToken

\* allocate_token: the first candidate from next_token on that is not live.
FreshToken(n) ==
  CHOOSE t \in Tokens \ LiveTokens(n) :
    \A u \in Tokens \ LiveTokens(n) : TokenDist(n.next_token, t) <= TokenDist(n.next_token, u)
============================================================================
