------------------------------ MODULE Accounting ------------------------------
(***************************************************************************)
(* From what a provider answered to what a trajectory is said to have cost *)
(* and achieved: the classification of failed requests and the usage of    *)
(* the answered ones (llm/v2/providers), the token and dollar cost of a    *)
(* transport record, an attempt and a trajectory (metrics/cost.py,         *)
(* runner.py, state.py), and E(B), the best efficiency a trajectory        *)
(* reached within a budget, with its mean over the operators               *)
(* (metrics/efficiency.py).  Beside what the code records stands what the  *)
(* provider really charged, which the code may know only in part.          *)
(***************************************************************************)
EXTENDS Absence, Sums, Sequences, FiniteSetsExt

CONSTANTS
  Predeclared,    \* the predeclared operators, one representative dtype each
  Providers,      \* subset of {"openai", "anthropic"}
  Usages,         \* token counts a generation may really have: [uncached, cached, output]
  Omittable,      \* fields a provider may leave out of a usage object
  Rules,          \* pricing rules: [provider, tiers, low, high, rates]
  Tiers,          \* service tiers a response may report
  Efficiencies,   \* efficiencies of a valid round
  Budgets,        \* token budgets E(B) is asked for
  Rounds,         \* rounds of a trajectory
  MaxRetries,     \* max_transport_retries
  MaxRequests,    \* bound of the model: requests of one round
  MaxStarted      \* bound of the model: operators that get a trajectory

VARIABLES
  provider,   \* the provider of the campaign's model
  supported,  \* the operators declared supported before generation
  target,     \* which operators have a T_emp
  state       \* the trajectory of each operator: status, rounds, transport rows of the open round, failures of this call

accountingVars == <<provider, supported, target, state>>

OrZero(x) == IF x = None THEN 0 ELSE x
-----------------------------------------------------------------------------
(* The usage object of a response and its logical total *)

Reports == [input : Nat \cup {None}, cached : Nat \cup {None}, output : Nat \cup {None}]
NoTokens == [uncached |-> 0, cached |-> 0, output |-> 0]

\* The predeclared operators are a list of the campaign.
ASSUME PredeclaredAssumption == IsFiniteSet(Predeclared)
\* efficiency_at: a round costs at least one token.
ASSUME UsagesAssumption == Usages \subseteq [uncached : Nat, cached : Nat, output : Nat \ {0}]
ASSUME ReportsAssumption == Providers \subseteq {"openai", "anthropic"} /\ Omittable \subseteq {"input", "cached", "output"}
ASSUME NumbersAssumption ==
  /\ Efficiencies \subseteq Nat /\ Budgets \subseteq Nat
  /\ None \notin Nat /\ None \notin Reports

\* What the provider reports of a generation: OpenAI's input count contains the
\* cached tokens, Anthropic's does not.
Reported(t, omitted) ==
  LET kept(f, n) == IF f \in omitted THEN None ELSE n
  IN [input |-> kept("input", IF provider = "openai" THEN t.uncached + t.cached ELSE t.uncached),
      cached |-> kept("cached", t.cached), output |-> kept("output", t.output)]

LogicalTokens(t) == t.uncached + t.cached + t.output

\* normalize: the logical total, None unless input and output are both reported.
\* An absent Anthropic cache count is taken as 0 and only flagged.
Normalized(u) ==
  IF u = None \/ u.input = None \/ u.output = None THEN None
  ELSE u.input + u.output + (IF provider = "anthropic" THEN OrZero(u.cached) ELSE 0)
-----------------------------------------------------------------------------
(* Dollars: metrics/cost.py *)

\* token_components: absent counts are 0.
Components(u) ==
  [uncached |-> IF provider = "openai" THEN Max({OrZero(u.input) - OrZero(u.cached), 0}) ELSE OrZero(u.input),
   cached |-> OrZero(u.cached), output |-> OrZero(u.output)]

\* _rule: the rules that apply; a price needs exactly one.
RulesOf(name, tier, input) == {r \in Rules : r.provider = name /\ tier \in r.tiers /\ input \in r.low..r.high}
RulesFor(t, tier) == RulesOf(provider, tier, t.uncached + t.cached)

\* validate_pricing: no rate is negative.
ASSUME RatesAssumption == \A r \in Rules : r.rates \in [uncached : Nat, cached : Nat, output : Nat]
\* The snapshot: where fewer input tokens have a price, more have one, and it is
\* no lower (long context).
ASSUME LongContextAssumption ==
  \A name \in Providers, tier \in Tiers, t \in Usages : \A n \in 0 .. t.uncached + t.cached :
    Cardinality(RulesOf(name, tier, n)) = 1 =>
      /\ Cardinality(RulesOf(name, tier, t.uncached + t.cached)) = 1
      /\ \A r \in RulesOf(name, tier, n), q \in RulesOf(name, tier, t.uncached + t.cached) :
           \A kind \in {"uncached", "cached", "output"} : r.rates[kind] <= q.rates[kind]

TheRule(rules) == CHOOSE r \in rules : TRUE
PriceBy(r, t) == t.uncached * r.rates.uncached + t.cached * r.rates.cached + t.output * r.rates.output

Unpriced == [usd |-> None, lower |-> 0]
Free == [usd |-> 0, lower |-> 0]

\* request_cost
RequestCost(u, tier, partial) ==
  IF u = None \/ Cardinality(RulesFor(Components(u), tier)) # 1 THEN Unpriced
  ELSE LET p == PriceBy(TheRule(RulesFor(Components(u), tier)), Components(u))
       IN [usd |-> IF partial THEN None ELSE p, lower |-> p]

\* transport_cost: a partial usage bounds the price from below; a request that
\* never ran costs nothing.
TransportCost(row) ==
  CASE row.outcome = "succeeded" -> RequestCost(row.usage, row.tier, FALSE)
    [] row.outcome # "succeeded" /\ row.charged = "no" -> Free
    [] OTHER -> RequestCost(row.usage, row.tier, TRUE)

\* combine: exact only when every record is.
Combined(rows) ==
  LET costs == [i \in DOMAIN rows |-> TransportCost(rows[i])]
  IN [usd |-> IF \E i \in DOMAIN rows : costs[i].usd = None THEN None ELSE Total([i \in DOMAIN rows |-> costs[i].usd]),
      lower |-> Total([i \in DOMAIN rows |-> costs[i].lower])]

\* attempt_cost: unknown as soon as one request may have been charged unseen.
AttemptCost(rows) ==
  IF \E i \in DOMAIN rows : rows[i].charged = "unknown" THEN None
  ELSE Total([i \in DOMAIN rows |-> IF rows[i].outcome = "succeeded" THEN Normalized(rows[i].usage) ELSE 0])
-----------------------------------------------------------------------------
(* E(B): metrics/efficiency.py *)

\* cumulative_costs: None from the first unknown attempt on.
Cumulative(rounds, i) ==
  IF \E j \in 1..i : rounds[j].cost = None THEN None ELSE Total([j \in 1..i |-> rounds[j].cost])

\* The efficiency a round counts with: valid, and every case of the target timed.
Counted(r) == r.valid /\ r.efficiency # None
Best(rounds, S) == Max({0} \cup {rounds[i].efficiency : i \in {j \in S : Counted(rounds[j])}})

Determinable(op) == op \in target /\ state[op].status = "complete"

\* Mutant of EfficiencyAt: what the rounds of known cost reached, whatever comes later.
EfficiencyOfKnown(op, budget) ==
  LET rounds == state[op].rounds
      known == {i \in DOMAIN rounds : Cumulative(rounds, i) # None}
  IN IF ~Determinable(op) THEN None ELSE Best(rounds, {i \in known : Cumulative(rounds, i) <= budget})

\* efficiency_at: exact up to the last known cumulative cost, and beyond it as
\* long as no later round is valid.
EfficiencyAt(op, budget) ==
  LET rounds == state[op].rounds
      known == {i \in DOMAIN rounds : Cumulative(rounds, i) # None}
      lastKnown == IF known = {} THEN 0 ELSE Cumulative(rounds, Max(known))
      laterValid == \E i \in DOMAIN rounds \ known : Counted(rounds[i]) /\ rounds[i].efficiency > 0
  IN IF ~Determinable(op) \/ (known # DOMAIN rounds /\ budget > lastKnown /\ laterValid) THEN None
     ELSE Best(rounds, {i \in known : Cumulative(rounds, i) <= budget})

\* aggregate: every supported operator stays in the denominator, whatever
\* happened to it; the exact mean exists only when every value does.
Included == supported
ExactMean(budget) ==
  IF Included = {} \/ \E op \in Included : EfficiencyAt(op, budget) = None THEN None
  ELSE [sum |-> Total([op \in Included |-> EfficiencyAt(op, budget)]), over |-> Cardinality(Included)]
LowerBoundMean(budget) ==
  [sum |-> Total([op \in Included |-> OrZero(EfficiencyAt(op, budget))]), over |-> Cardinality(Included)]
-----------------------------------------------------------------------------
(* Requests: providers/*.generate inside _request_with_retries *)

NewTrajectory == [status |-> "missing", rounds |-> <<>>, rows |-> <<>>, failures |-> 0]

AccountingInit ==
  /\ provider \in Providers
  /\ supported \in SUBSET Predeclared
  /\ target \in SUBSET Predeclared
  /\ state = [op \in Predeclared |-> NewTrajectory]

\* A transport row, with what the provider really charged for the request, and
\* whether its usage, if it came with one, told the cached count.
Row(outcome, charged, usage, tier, billed, price) ==
  [outcome |-> outcome, charged |-> charged, usage |-> usage, tier |-> tier, billed |-> billed, price |-> price,
   told |-> usage = None \/ usage.cached # None]

\* What a generation is charged in dollars: the price of the tier's rule.
TruePrice(t, tier) ==
  IF Cardinality(RulesFor(t, tier)) = 1 THEN PriceBy(TheRule(RulesFor(t, tier)), t) ELSE LogicalTokens(t)

\* The attempt record of a round whose rows are done.
RoundRecord(rows, valid, efficiency) ==
  [cost |-> AttemptCost(rows), usd |-> Combined(rows).usd, lower |-> Combined(rows).lower,
   valid |-> valid, efficiency |-> efficiency,
   billed |-> Total([i \in DOMAIN rows |-> rows[i].billed]), price |-> Total([i \in DOMAIN rows |-> rows[i].price]),
   told |-> \A i \in DOMAIN rows : rows[i].told]

Set(op, new) == state' = [state EXCEPT ![op] = new] /\ UNCHANGED <<provider, supported, target>>
Requesting(op) == state[op].status = "in_progress" /\ Len(state[op].rows) < MaxRequests

StartTrajectory(op) ==
  /\ state[op].status = "missing"
  /\ Cardinality({o \in Predeclared : state[o].status # "missing"}) < MaxStarted
  /\ Set(op, [state[op] EXCEPT !.status = "in_progress"])

\* The round ends without a response; the trajectory is incomplete.
GiveUp(op, rows) ==
  Set(op, [status |-> "incomplete", rounds |-> Append(state[op].rounds, RoundRecord(rows, FALSE, None)),
           rows |-> rows, failures |-> 0])

\* A failed request is retried until max_transport_retries failures of this call.
Failed(op, row) ==
  LET rows == Append(state[op].rows, row)
  IN IF state[op].failures + 1 > MaxRetries THEN GiveUp(op, rows)
     ELSE Set(op, [state[op] EXCEPT !.rows = rows, !.failures = @ + 1])

\* 400, 401, 403, 404, 422: ProviderConfigError, never retried.
Refuse(op) ==
  /\ Requesting(op)
  /\ GiveUp(op, Append(state[op].rows, Row("refused", "no", None, None, 0, 0)))

\* A connection error or another status code before the first event: nothing ran.
Reject(op) ==
  /\ Requesting(op)
  /\ Failed(op, Row("failed", "no", None, None, 0, 0))

\* classify_exception and what generate makes of it: once an event arrived, or on
\* a timeout, the generation may have been charged.
ChargeAfter(events, timeout) == IF events > 0 \/ timeout THEN "unknown" ELSE "no"

\* _usage_from_event: the counts the Anthropic stream had announced when it broke;
\* the OpenAI adapter keeps none.
SeenUsages(t) ==
  {None} \cup (IF provider # "anthropic" THEN {}
               ELSE {Reported([t EXCEPT !.output = n], {}) : n \in 0..t.output})

\* A generation that ran and whose answer never arrived: a timeout, or a stream
\* that breaks after some events.
Break(op) ==
  /\ Requesting(op)
  /\ \E t \in Usages, tier \in Tiers, events \in {0, 1}, timeout \in BOOLEAN :
       /\ events > 0 \/ timeout
       /\ \E seen \in IF events > 0 THEN SeenUsages(t) ELSE {None} :
            Failed(op, Row("failed", ChargeAfter(events, timeout), seen, tier, LogicalTokens(t), TruePrice(t, tier)))

\* The process dies between sending and the terminal event: the next process
\* finds an orphan of unknown charge, and its call counts failures anew.
DieSending(op) ==
  /\ Requesting(op)
  /\ \E t \in Usages \cup {NoTokens}, tier \in Tiers :
       Set(op, [state[op] EXCEPT !.failures = 0,
                                 !.rows = Append(@, Row("orphaned", "unknown", None, None, LogicalTokens(t),
                                                        IF t = NoTokens THEN 0 ELSE TruePrice(t, tier)))])

\* The answer arrives, is evaluated, and ends the round; the last one completes
\* the trajectory.
Succeed(op) ==
  /\ Requesting(op)
  /\ \E t \in Usages, tier \in Tiers, omitted \in SUBSET Omittable, present \in BOOLEAN,
        valid \in BOOLEAN, efficiency \in Efficiencies \cup {None} :
       LET usage == IF present THEN Reported(t, omitted) ELSE None
           charged == IF Normalized(usage) = None THEN "unknown" ELSE "known"
           rows == Append(state[op].rows, Row("succeeded", charged, usage, tier, LogicalTokens(t), TruePrice(t, tier)))
           rounds == Append(state[op].rounds, RoundRecord(rows, valid, IF valid THEN efficiency ELSE None))
       IN Set(op, [status |-> IF Len(rounds) = Rounds THEN "complete" ELSE "in_progress",
                   rounds |-> rounds, rows |-> <<>>, failures |-> 0])

\* --resume-transport: the attempt record goes, its transport rows stay in
\* transport.jsonl and count in the new attempt.
Reopen(op) ==
  /\ state[op].status = "incomplete"
  /\ Len(state[op].rows) < MaxRequests
  /\ Set(op, [state[op] EXCEPT !.status = "in_progress", !.rounds = SubSeq(@, 1, Len(@) - 1)])

AccountingNext ==
  \E op \in Predeclared : \/ StartTrajectory(op) \/ Refuse(op) \/ Reject(op) \/ Break(op) \/ DieSending(op)
                        \/ Succeed(op) \/ Reopen(op)

AccountingSpec == AccountingInit /\ [][AccountingNext]_accountingVars
-----------------------------------------------------------------------------
(* What must hold *)

\* E(B) computed from what the provider really charged.
TrueCumulative(rounds, i) == Total([j \in 1..i |-> rounds[j].billed])
TrueEfficiency(op, budget) ==
  LET rounds == state[op].rounds
  IN IF op \notin target THEN 0 ELSE Best(rounds, {i \in DOMAIN rounds : TrueCumulative(rounds, i) <= budget})

\* No token was charged for that a usage left out and normalize took as none: OpenAI's
\* input count contains the cached tokens, Anthropic's does not.
Whole(op) == provider = "openai" \/ \A i \in DOMAIN state[op].rounds : state[op].rounds[i].told

\* Whatever was lost on the way, no figure says more than what it stands on.  An E(B)
\* the code states is the one the real charges give (efficiency_at; also when requests
\* failed with an unknown charge before, between and after the valid rounds), so is a
\* mean, and the lower-bound mean never exceeds the truth over the full predeclared set
\* (aggregate), unless Anthropic left out a cached count, whose tokens then count
\* nowhere; the tokens of a round never exceed those charged, not even then; and
\* the dollar lower bound of a round never exceeds its real price (combine), unless OpenAI
\* left out a cached count, whose tokens are then priced as uncached.
CostsAreSound ==
  /\ \A op \in Predeclared, b \in Budgets : Whole(op) => EfficiencyAt(op, b) \in {None, TrueEfficiency(op, b)}
  /\ (\A op \in supported : Whole(op)) =>
       \A b \in Budgets :
         LET truth == Total([op \in supported |-> TrueEfficiency(op, b)])
             n == Cardinality(supported)
         IN /\ LowerBoundMean(b).sum * n <= truth * LowerBoundMean(b).over
            /\ ExactMean(b) # None => ExactMean(b).sum * n = truth * ExactMean(b).over
  /\ \A op \in Predeclared : \A i \in DOMAIN state[op].rounds :
       LET r == state[op].rounds[i]
       IN /\ r.cost # None => r.cost <= r.billed
          /\ provider = "anthropic" \/ r.told => r.lower <= r.price
-----------------------------------------------------------------------------
(* What comments and documents say and the code does not keep *)

\* usage.py:25-26: of a missing field "nothing is imputed as 0".  It does not hold: normalize
\* adds 0 for a cached count that Anthropic left out, and calls the sum partial; what
\* computes E(B) reads the sum and never that status.
MissingIsNotZero ==
  \A op \in Predeclared : \A i \in DOMAIN state[op].rounds :
    state[op].rounds[i].cost \in {None, state[op].rounds[i].billed}

\* The module comment of cost.py: an exact dollar figure stands on complete usage,
\* so it is the price.
ExactIsComplete ==
  \A op \in Predeclared : \A i \in DOMAIN state[op].rounds :
    state[op].rounds[i].usd \in {None, state[op].rounds[i].price}
=============================================================================
