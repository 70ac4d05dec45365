------------------------------- MODULE Training ------------------------------
(***************************************************************************)
(* What a training run learns from (ml/pipeline: ingest.py, validate.py,   *)
(* clean.py): the cached transactions in their order, the weak labels of   *)
(* their status, and the analysts' verdicts.                               *)
(***************************************************************************)
EXTENDS Integers, Sequences, FiniteSetsExt, Call

CONSTANTS
    TrainTxns, Customers,
    Span,               \* the days of the learning window: 0..Span
    MinTxns, MinDays,   \* config.MIN_TXNS_PER_CUSTOMER, MIN_DAYS_ACTIVE
    MaxRows             \* bound: rows of the cache

ASSUME TrainingAssumption == Span \in Nat /\ MinTxns \in Nat /\ MinDays \in Nat

\* day is out of the window when it is negative; sane is a positive amount of
\* a possible size; suspect is blocked, blacklisted or not clean.
CacheRow == [txn: TrainTxns, customer: Customers, day: -1..Span, sane: BOOLEAN, suspect: BOOLEAN]

\* _load_feedback: the verdict of each transaction; a store that cannot be read
\* gives none.
Verdicts == [TrainTxns -> {"none", "genuine", "fraud"}]

-----------------------------------------------------------------------------
\* ingest.load: the window, by customer and date (rows comes in that order).
Load(rows) == {i \in DOMAIN rows : rows[i].day >= 0}

\* validate: the first row of a transaction id, if its amount is sane.
Validate(rows) ==
    {rows[i] : i \in {i \in Load(rows) :
        rows[i].sane /\ \A j \in Load(rows) : j < i => rows[j].txn # rows[i].txn}}

\* Mutant: a verdict only confirms what the status says.
Bad_EitherWay(r, verdicts) == r.suspect \/ verdicts[r.txn] = "fraud"

\* _is_bad, and _apply_feedback over it.
Bad(r, verdicts) ==
    \/ verdicts[r.txn] = "fraud"
    \/ r.suspect /\ verdicts[r.txn] # "genuine"

\* clean: the transactions that are learnt, of customers with enough of them
\* over enough days.
Eligible(good) ==
    {c \in Customers :
        LET days == {r.day : r \in {g \in good : g.customer = c}}
        IN  /\ Cardinality({g \in good : g.customer = c}) >= MinTxns
            /\ days # {} /\ Max(days) - Min(days) >= MinDays}

Learned(rows, verdicts) ==
    LET good == {r \in Validate(rows) : ~Bad(r, verdicts)}
    IN  {r \in good : r.customer \in Eligible(good)}

\* The same rows, had the status of each been a clean one.
Cleared(rows) == [i \in DOMAIN rows |-> [rows[i] EXCEPT !.suspect = FALSE]]

-----------------------------------------------------------------------------
(* Properties                                                              *)

\* The verdicts decide (service.py:579-581): confirmed fraud is never learnt;
\* what is confirmed genuine is, once its customer is; a verdict is what a status
\* cannot do, so that no status changes what is learnt when every transaction
\* has a verdict; and who is learnt has the clean evidence section 1 asks for.
VerdictsDecide ==
    call.fn = "clean" => \A verdicts \in Verdicts :
        LET rows      == call.arg
            learned   == Learned(rows, verdicts)
            customers == {r.customer : r \in learned}
        IN  /\ \A r \in learned : verdicts[r.txn] # "fraud"
            /\ \A r \in Validate(rows) :
                 verdicts[r.txn] = "genuine" /\ r.customer \in customers => r \in learned
            /\ (\A x \in TrainTxns : verdicts[x] # "none") =>
                 {r.txn : r \in learned} =
                 {r.txn : r \in Learned(Cleared(rows), verdicts)}
            /\ \A c \in customers :
                 LET mine == {r \in learned : r.customer = c}
                 IN  /\ Cardinality(mine) >= MinTxns
                     /\ \E r, s \in mine : s.day - r.day >= MinDays
=============================================================================
