------------------------------- MODULE Decision ------------------------------
(***************************************************************************)
(* How POST /score turns the scores of its detectors into a decision       *)
(* (ml/models/ensemble.py) and explains it (ml/codes.py): functions of one *)
(* transaction, without state.                                             *)
(*                                                                         *)
(* Scores are integers from 0 to Top.  BLEND_MODE is its default,          *)
(* "escalate".  The features are those the explanation tests: the ones     *)
(* with a threshold are the set of thresholds that are passed, the counts  *)
(* of recent transactions are counts.  Wording is left out.                *)
(***************************************************************************)
EXTENDS Integers, SequencesExt, Call

CONSTANTS
    Detectors,      \* those DETECTOR_LABELS names
    Weight,         \* [Detectors -> Nat], config.ENSEMBLE_WEIGHTS
    Top,            \* the score 1.0
    DetectorHigh,   \* codes.DETECTOR_HIGH
    Cuts            \* Tiering.cuts: [review, unsafe, high]

\* The features that are a signal of their own.
Flags == {"new_beneficiary", "new_location", "new_country", "cross_border",
          "unusual_hour", "night_time", "unusual_day", "shared_counterparty",
          "rare_transaction_type", "new_ip", "hourly_amount_spike"}
\* The others.
DerivedSignals == {"amount_above_historical_max", "amount_at_historical_max",
                   "amount_far_above_usual", "velocity_burst", "recent_activity", "high_fanout"}
Signals == Flags \cup DerivedSignals \cup {"cold_start"}

ASSUME DecisionAssumption ==
    /\ Weight \in [Detectors -> Nat] /\ Top \in Nat /\ DetectorHigh \in Nat
    /\ Cuts \in [review: Nat, unsafe: Nat, high: Nat]
    /\ Cuts.review <= Cuts.unsafe /\ Cuts.unsafe <= Cuts.high
    /\ IsFiniteSet(Detectors)
    /\ Detectors \cap Signals = {}

Scores == UNION {[D -> 0..Top] : D \in (SUBSET Detectors) \ {{}}}

-----------------------------------------------------------------------------
(* Ensemble.blend, of the detectors that ran                               *)

\* A detector has as many votes as its weight, and each of its votes gives as many
\* points as its score: the weighted mean is the points of a vote.
Votes(D)  == UNION {{d} \X (1..Weight[d]) : d \in D}
Points(s) == UNION {{v} \X (1..s[v[1]]) : v \in Votes(DOMAIN s)}

WeightOf(D) == LET w == Cardinality(Votes(D)) IN IF w = 0 THEN 1 ELSE w

SecondHighest(s) ==
    Max({n \in Range(s) : \E d, e \in DOMAIN s : d # e /\ s[d] >= n /\ s[e] >= n})

\* Mutant: the plain weighted mean.
Blend_Mean(s) == Cardinality(Points(s))

\* The risk times WeightOf(DOMAIN s), to stay with integers.
Blend(s) ==
    LET mean == Cardinality(Points(s))
    IN  IF Cardinality(DOMAIN s) = 1 THEN mean
        ELSE Max({mean, WeightOf(DOMAIN s) * SecondHighest(s)})

AtLeast(s, cut) == Blend(s) >= cut * WeightOf(DOMAIN s)

-----------------------------------------------------------------------------
(* Tiering.decide                                                          *)

\* By family: amount, time, location, beneficiary, velocity.
UnsafeCode == <<"BF-301", "BF-302", "BF-303", "BF-304", "BF-305">>

\* The code of the strongest family, the first of equals.
PickUnsafe(strength) ==
    UnsafeCode[CHOOSE i \in 1..5 : \A j \in 1..5 :
                   \/ strength[i] > strength[j]
                   \/ strength[i] = strength[j] /\ i <= j]

Decide(s, strength) ==
    CASE AtLeast(s, Cuts.high)   -> "BF-400"
      [] ~AtLeast(s, Cuts.high) /\ AtLeast(s, Cuts.unsafe)   -> PickUnsafe(strength)
      [] ~AtLeast(s, Cuts.unsafe) /\ AtLeast(s, Cuts.review) -> "BF-200"
      [] ~AtLeast(s, Cuts.review) ->
           IF 2 * Blend(s) < Top * WeightOf(DOMAIN s) THEN "BF-110" ELSE "BF-100"

StatusOf(code) ==
    CASE code \in {"BF-100", "BF-110"} -> "safe"
      [] code = "BF-200" -> "review"
      [] code \in {"BF-400"} \cup Range(UnsafeCode) -> "unsafe"

Tier == [safe |-> 0, review |-> 1, unsafe |-> 2]

-----------------------------------------------------------------------------
(* The features explain and _describe look at                              *)

\* Those that are one together.
FanOut == {"near_total_fanout", "many_recipients"}

\* max is the amount against the historical maximum, times the amount over the
\* median, z the deviation; seen counts the customer's transactions in the one,
\* three and sixty minutes before this one.
Features(flagSets, n) ==
    [flags: flagSets, max: {"none", "at", "exceeds"}, times: {0, 2, 5}, z: {0, 3},
     seen: {c \in [one: 0..n, three: 0..n, hour: 0..n] : c.one <= c.three /\ c.three <= c.hour}]

\* Mutant: the thresholds the comment at codes.py:96 speaks of.
Burst_Early(seen) == seen.three >= 3 \/ seen.one >= 2

\* log1p(n) >= 1.39 first holds at n = 4, and log1p(n) >= 1.10 at n = 3.
Burst(seen) == seen.three >= 4 \/ seen.one >= 3

\* codes._FEATURE_SIGNALS.
FeatureSignals(f) ==
    (f.flags \cap Flags) \cup
    {sig \in DerivedSignals :
        CASE sig = "amount_above_historical_max" -> f.max = "exceeds"
          [] sig = "amount_at_historical_max"    -> f.max = "at"
          [] sig = "amount_far_above_usual"      -> f.z >= 3 \/ f.times >= 5
          [] sig = "velocity_burst"              -> Burst(f.seen)
          [] sig = "recent_activity" ->
               ~Burst(f.seen) /\ f.seen.hour > 0
          [] sig = "high_fanout" -> FanOut \subseteq f.flags}

\* explain: the triggered signals, with the detectors that scored high.
Explain(f, s, cold) ==
    FeatureSignals(f) \cup {d \in DOMAIN s : s[d] >= DetectorHigh}
                      \cup (IF cold THEN {"cold_start"} ELSE {})

\* _describe: what the description says of the amount ..
AmountNoun(f, cold) ==
    LET max == IF cold THEN "none" ELSE f.max
    IN  [times |-> f.times >= 2, max |-> max, said |-> f.times >= 2 \/ max # "none"]

\* .. and of the other features, each item with the signals that speak of it.
Evidence(f) ==
    LET said == [beneficiary |-> {"new_beneficiary"}, location |-> {"new_location", "new_country"},
                 border |-> {"cross_border"}, hour |-> {"unusual_hour"}, type |-> {"rare_transaction_type"},
                 spike |-> {"hourly_amount_spike"}, ip |-> {"new_ip"}]
    IN  {said[e] : e \in {e \in DOMAIN said : said[e] \cap f.flags # {}}}
        \cup (IF "night_time" \in f.flags /\ "unusual_hour" \notin f.flags
              THEN {{"night_time"}} ELSE {})
        \cup (IF f.seen.three >= 4 \/ f.seen.one >= 3 THEN {{"velocity_burst"}}
              ELSE IF f.seen.hour > 0 THEN {{"recent_activity"}} ELSE {})
        \cup (IF FanOut \subseteq f.flags THEN {{"high_fanout"}} ELSE {})

\* The finding that opens the description of a transaction that is not safe.
Lead(status, f, s, cold) ==
    LET behavioural == Cardinality(Evidence(f)) + (IF AmountNoun(f, cold).said THEN 1 ELSE 0)
        dets == {d \in DOMAIN s : s[d] >= DetectorHigh}
    IN  CASE status = "unsafe" /\ behavioural >= 2 -> "multi-signal"
          [] status = "unsafe" /\ ~(behavioural >= 2) ->
               IF dets # {} THEN "ensemble-detected" ELSE "behavioural"
          [] status = "review" ->
               IF behavioural + Cardinality(dets) >= 3 THEN "strong" ELSE "mild"

-----------------------------------------------------------------------------
(* Properties                                                              *)

\* The tier of a decision, and the one a score of n would be given by itself.
TierOf(s)  == Tier[StatusOf(Decide(s, <<0, 0, 0, 0, 0>>))]
Reached(n) == CASE n >= Cuts.unsafe -> 2
                [] n < Cuts.unsafe /\ n >= Cuts.review -> 1
                [] n < Cuts.review -> 0

\* Detectors that agree are never averaged away (ensemble.py:35-39): two that
\* reach a cut carry the decision at least to its tier whatever the others say;
\* raising one score never lowers the tier; and the risk stays between the
\* lowest and the highest score, so that a lone spike does not decide beyond
\* its own height.  (A detector without weight, alone, decides nothing.)
AgreementDecides ==
    LET s == call.arg
    IN  call.fn = "blend" =>
            /\ \A d, e \in DOMAIN s : d # e => TierOf(s) >= Reached(Min({s[d], s[e]}))
            /\ \A d \in DOMAIN s : s[d] < Top => TierOf(s) <= TierOf([s EXCEPT ![d] = @ + 1])
            /\ TierOf(s) <= Reached(Max(Range(s)))
            /\ (\E d \in DOMAIN s : Weight[d] > 0) => TierOf(s) >= Reached(Min(Range(s)))

\* One transaction's description and signals.
OneStory(f, s, cold) ==
    LET signals == Explain(f, s, cold)
        told    == UNION Evidence(f)
        amount  == AmountNoun(f, cold)
    IN  /\ \A e \in Evidence(f) : e \cap signals # {}
        /\ ~({"velocity_burst", "recent_activity"} \subseteq signals)
        /\ amount.max = "exceeds" => "amount_above_historical_max" \in signals
        /\ amount.max = "at" => "amount_at_historical_max" \in signals
        /\ (Flags \cup {"velocity_burst", "recent_activity", "high_fanout"}) \cap signals
              \subseteq told \cup {"unusual_day", "shared_counterparty", "night_time"}
        /\ Lead("unsafe", f, s, cold) = "multi-signal" =>
             Cardinality(FeatureSignals(f) \cup (IF f.times >= 2 THEN {"amount"} ELSE {})) >= 2

\* The description and the triggered signals of one decision are computed from
\* the features twice, with the thresholds written out in both places
\* (codes.py:74-115 and 209-260), and tell one story: what the description says
\* was triggered, a burst and mere recent activity are never both claimed, every
\* signal but the amount's, the day of the week, the shared counterparty and the
\* night is described, and "multi-signal" is said of two findings or more.
DescriptionMatchesSignals ==
    call.fn = "explain" =>
        \A s \in {[d \in Detectors |-> n] : n \in {0, DetectorHigh}}, cold \in BOOLEAN :
            OneStory(call.arg, s, cold)

=============================================================================
