------------------------------ MODULE Sampler ------------------------------
(***************************************************************************)
(* mlmc_sample (src/tokenizer.c): greedy at temperature 0, otherwise a     *)
(* draw among the top_k largest logits by weights exp(difference to the    *)
(* largest / temperature).  Logits are integers, or NaN for one that is    *)
(* not finite; a weight is a whole number of some small unit, and 0 where  *)
(* exp underflows.                                                         *)
(***************************************************************************)
EXTENDS Integers, SequencesExt, FiniteSetsExt

CONSTANTS NaN,         \* an integer that is no other logit
          LogitRows,   \* what the logits may be, one sequence per case
          TopKs,       \* values of top_k
          Weight       \* the weight of each difference to the largest logit

\* exp is positive at 0 and does not grow with the difference of two logits.
ASSUME WeightAssumption ==
  /\ LogitRows \subseteq Seq(Int) /\ TopKs \subseteq Nat
  /\ DOMAIN Weight \subseteq Nat /\ Weight \in [DOMAIN Weight -> Nat]
  /\ 0 \in DOMAIN Weight /\ Weight[0] > 0
  /\ \A d, e \in DOMAIN Weight : d <= e => Weight[e] <= Weight[d]
  /\ \A row \in LogitRows : \A m, n \in 1 .. Len(row) :
       NaN \notin {row[m], row[n]} /\ row[m] >= row[n] => row[m] - row[n] \in DOMAIN Weight

VARIABLES pc,
          logits, temperature, top_k,   \* the arguments; ids count from 1
          i, best,
          candidates,                   \* ids, sorted once all are in
          held,                         \* whether the array is allocated
          draws,                        \* what the generator has given, times the total
          target,
          token_id

args == <<logits, temperature, top_k>>
vars == <<pc, args, i, best, candidates, held, draws, target, token_id>>

Temperatures == {"zero", "positive", "invalid"}

Init == /\ pc = "check"
        /\ logits \in LogitRows /\ temperature \in Temperatures /\ top_k \in TopKs
        /\ i = 1 /\ best = 1 /\ candidates = << >> /\ held = FALSE
        /\ draws = << >> /\ target = 0 /\ token_id = 0

Finite(n) == logits[n] # NaN

Refuse == /\ pc' = "refused" /\ held' = FALSE
          /\ UNCHANGED <<args, i, best, candidates, draws, target, token_id>>

Answer(n) == /\ pc' = "done" /\ token_id' = n /\ held' = FALSE
             /\ UNCHANGED <<args, best, candidates, draws>>

\* A temperature that is negative or not finite, or no logits; the array may
\* also not be had.
Check ==
  /\ pc = "check"
  /\ \/ (temperature = "invalid" \/ logits = << >>) /\ Refuse
     \/ /\ temperature = "zero" /\ logits # << >>
        /\ pc' = "greedy"
        /\ UNCHANGED <<args, i, best, candidates, held, draws, target, token_id>>
     \/ /\ temperature = "positive" /\ logits # << >>
        /\ pc' = "collect" /\ held' = TRUE
        /\ UNCHANGED <<args, i, best, candidates, draws, target, token_id>>
     \/ temperature = "positive" /\ logits # << >> /\ Refuse
-----------------------------------------------------------------------------
Greedy ==
  /\ pc = "greedy" /\ i <= Len(logits) /\ Finite(i)
  /\ i' = i + 1
  /\ best' = IF logits[i] > logits[best] THEN i ELSE best
  /\ UNCHANGED <<pc, args, candidates, held, draws, target, token_id>>

GreedyDone == pc = "greedy" /\ i > Len(logits) /\ Answer(best) /\ UNCHANGED <<i, target>>

\* Mutant: the array is not freed.
NotFiniteLeaks ==
  /\ pc \in {"greedy", "collect"} /\ i <= Len(logits) /\ ~Finite(i)
  /\ pc' = "refused"
  /\ UNCHANGED <<args, i, best, candidates, held, draws, target, token_id>>

NotFinite == pc \in {"greedy", "collect"} /\ i <= Len(logits) /\ ~Finite(i) /\ Refuse

Collect ==
  /\ pc = "collect" /\ i <= Len(logits) /\ Finite(i)
  /\ i' = i + 1
  /\ candidates' = Append(candidates, i)
  /\ UNCHANGED <<pc, args, best, held, draws, target, token_id>>

\* compare_candidates: the larger logit first, the lower id among equals.
Before(m, n) == logits[m] > logits[n] \/ (logits[m] = logits[n] /\ m < n)

\* Mutant: one candidate too many is kept.
RetainedOneMore == IF top_k = 0 \/ top_k >= Len(logits) THEN Len(logits) ELSE top_k + 1

Retained == IF top_k = 0 \/ top_k > Len(logits) THEN Len(logits) ELSE top_k
WeightOf(n) == Weight[logits[candidates[1]] - logits[candidates[n]]]
Total == MapThenSumSet(WeightOf, 1 .. Retained)

Sorted(s) == \A m, n \in DOMAIN s : m < n => Before(s[m], s[n])

Sort ==
  /\ pc = "collect" /\ i > Len(logits)
  /\ candidates' \in {s \in [1 .. Len(logits) -> 1 .. Len(logits)] : Sorted(s)}
  /\ pc' = "draw"
  /\ UNCHANGED <<args, i, best, held, draws, target, token_id>>

\* A number in [0, 1) times the total.  The sums round: total itself stands for
\* a remainder that is still not negative after the last subtraction.
Draw(t) ==
  /\ pc = "draw"
  /\ t \in 0 .. Total
  /\ target' = t /\ draws' = Append(draws, t) /\ i' = 1 /\ pc' = "walk"
  /\ UNCHANGED <<args, best, candidates, held, token_id>>

\* Mutant: <= 0, which takes a token of no weight.
WalkAtZero ==
  /\ pc = "walk" /\ i <= Retained
  /\ target' = target - WeightOf(i)
  /\ \/ target' > 0 /\ i' = i + 1
        /\ UNCHANGED <<pc, args, best, candidates, held, draws, token_id>>
     \/ target' <= 0 /\ Answer(candidates[i]) /\ UNCHANGED i

Walk ==
  /\ pc = "walk" /\ i <= Retained
  /\ target' = target - WeightOf(i)
  /\ \/ target' >= 0 /\ i' = i + 1
        /\ UNCHANGED <<pc, args, best, candidates, held, draws, token_id>>
     \/ target' < 0 /\ Answer(candidates[i]) /\ UNCHANGED i

WalkedOff ==
  /\ pc = "walk" /\ i > Retained
  /\ Answer(candidates[Retained]) /\ UNCHANGED <<i, target>>

Step == \/ Check \/ Greedy \/ GreedyDone \/ NotFinite \/ Collect \/ Sort
        \/ \E t \in 0 .. Len(logits) * Weight[0] : Draw(t)
        \/ Walk \/ WalkedOff
-----------------------------------------------------------------------------
\* The answer is one of the top_k largest logits, equal ones counted by id; greedy
\* and top_k 1 are the same (tokenizer.c:733-744, 762-763).
AmongTopK ==
  pc = "done" =>
    LET larger == {m \in 1 .. Len(logits) : logits[m] > logits[token_id]}
        equal  == {m \in 1 .. token_id - 1 : logits[m] = logits[token_id]}
        kept   == IF temperature = "zero" THEN 1 ELSE IF top_k = 0 THEN Len(logits) ELSE top_k
    IN  Cardinality(larger) + Cardinality(equal) < kept

\* The weight of a token, the tokens before it, and all of theirs.
Odds(n) == Weight[Max(Range(logits)) - logits[n]]
Ahead(n) == {m \in 1 .. Len(logits) : Before(m, n)}
OddsAhead(n) == MapThenSumSet(Odds, Ahead(n))

\* Each token is drawn in proportion to its weight: for exactly the numbers from the
\* weights before it up to its own on top of them, and so never one of weight 0; what
\* rounding leaves over goes to the last one kept (tokenizer.c:766-781).
DrawnByWeight ==
  pc = "done" /\ temperature = "positive" =>
    IF i > Retained
    THEN /\ draws[1] = OddsAhead(token_id) + Odds(token_id)
         /\ Cardinality(Ahead(token_id)) = Retained - 1
    ELSE draws[1] \in OddsAhead(token_id) .. OddsAhead(token_id) + Odds(token_id) - 1

\* Every call ends, with an answer whenever all logits are finite, the temperature
\* is valid and there is memory: refused only otherwise.  The array is freed on every
\* way out, and the generator has moved once for an answer that is drawn and not at
\* all for another, so that later draws do not depend on it (tokenizer.c:727-783).
AnswersOrRefuses ==
  <>(/\ ~held
     /\ \/ /\ pc = "done" /\ NaN \notin Range(logits)
           /\ Len(draws) = IF temperature = "positive" THEN 1 ELSE 0
        \/ /\ pc = "refused" /\ draws = << >>
           /\ temperature = "zero" => logits = << >> \/ NaN \in Range(logits))
=============================================================================
