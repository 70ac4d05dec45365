-------------------------- MODULE Monitoring_proofs --------------------------
(***************************************************************************)
(* What watches the system, for any transactions, thresholds, numbers of   *)
(* decisions, errors and faults: a state is announced once and a quiet     *)
(* check is explained; an error that goes on is forwarded again and again; *)
(* and the analysts' verdicts decide what a training run learns.           *)
(***************************************************************************)
EXTENDS Alerts, Training, ErrorRelay, FiniteSetTheorems, WellFoundedInduction, TLAPS

-----------------------------------------------------------------------------
(* Types.  A text shows a number.                                          *)

LEMMA PercentIsNat ==
    ASSUME NEW n \in Nat, NEW d \in Nat \ {0}
    PROVE  Percent(n, d) \in Nat
<1>1. 100 * n \in Nat
  OBVIOUS
<1>2. QED
  BY <1>1 DEF Percent

\* Any part of the log can be counted, and what is flagged in it is part of it.
LEMMA RateTyped == TypeOK => RateProblems \subseteq Problem
<1> SUFFICES ASSUME TypeOK PROVE RateProblems \subseteq Problem
  OBVIOUS
<1> DEFINE window == (gone + 1)..Len(log)
           flagged == {i \in window : log[i].flagged}
           total == Cardinality(window)
           flags == Cardinality(flagged)
<1>1. Len(log) \in Nat /\ gone \in Nat
  BY DEF TypeOK
<1>2. IsFiniteSet(window)
  BY <1>1, FS_Interval
<1>3. IsFiniteSet(flagged)
  BY <1>2, FS_Subset
<1>4. total \in Nat /\ flags \in Nat
  BY <1>2, <1>3, FS_CardinalityType
<1>5. CASE total < MinSample
  BY <1>5 DEF RateProblems
<1>6. CASE ~(total < MinSample)
  <2>1. total \in Nat \ {0}
    BY <1>4, <1>6, AlertsAssumption DEF AlertsAssumption
  <2>2. Percent(flags, total) \in Nat
    BY <1>4, <2>1, PercentIsNat
  <2>3. /\ <<"over-flagging", Percent(flags, total)>> \in Problem
        /\ <<"under-flagging", Percent(flags, total)>> \in Problem
    BY <2>2 DEF Problem
  <2>4. QED
    BY <1>6, <2>3 DEF RateProblems
<1>7. QED
  BY <1>5, <1>6

LEMMA PrecisionTyped == TypeOK => PrecisionProblems \subseteq Problem
<1> SUFFICES ASSUME TypeOK PROVE PrecisionProblems \subseteq Problem
  OBVIOUS
<1> DEFINE labelled == {x \in Txns \ old : verdict[x] # "none" /\ x \in Decided}
           flagged  == {x \in labelled : LatestFlagged(x)}
           right    == {x \in flagged : verdict[x] = "fraud"}
<1>1. IsFiniteSet(1..Len(log))
  <2>1. Len(log) \in Nat
    BY DEF TypeOK
  <2>2. QED
    BY <2>1, FS_Interval
<1>2. IsFiniteSet(Decided)
  <2> DEFINE txnAt == [i \in 1..Len(log) |-> log[i].txn]
  <2>1. txnAt \in Surjection(1..Len(log), Decided)
    BY DEF Decided, Surjection
  <2>2. QED
    BY <1>1, <2>1, FS_Surjection
<1>3. IsFiniteSet(flagged) /\ IsFiniteSet(right)
  <2>1. flagged \subseteq Decided /\ right \subseteq Decided
    OBVIOUS
  <2>2. QED
    BY <1>2, <2>1, FS_Subset
<1>4. Cardinality(flagged) \in Nat /\ Cardinality(right) \in Nat
  BY <1>3, FS_CardinalityType
<1>5. CASE flagged # {}
  <2>1. Cardinality(flagged) \in Nat \ {0}
    BY <1>3, <1>4, <1>5, FS_EmptySet
  <2>2. Percent(Cardinality(right), Cardinality(flagged)) \in Nat
    BY <1>4, <2>1, PercentIsNat
  <2>3. <<"precision", Percent(Cardinality(right), Cardinality(flagged))>> \in Problem
    BY <2>2 DEF Problem
  <2>4. QED
    BY <2>3 DEF PrecisionProblems
<1>6. CASE flagged = {}
  BY <1>6 DEF PrecisionProblems
<1>7. QED
  BY <1>5, <1>6

LEMMA DueTyped == TypeOK => Due \subseteq Problem
BY DEF TypeOK, Due, Problem

\* What the scheduler does next is a run of it.
LEMMA OnwardTyped == Onward => run' \in Run
BY DEF Onward, At, Run, Keys

LEMMA SchedulerTyped == TypeOK /\ (Scheduler \/ Die) => TypeOK'
<1> SUFFICES ASSUME TypeOK, Scheduler \/ Die PROVE TypeOK'
  OBVIOUS
<1> USE AlertsAssumption DEF AlertsAssumption, Fault, Fine
<1>1. run.key \in Keys /\ run.sig \subseteq Problem /\ run \in Run
  BY DEF TypeOK, Run
<1>2. faults' \in 0..MaxFaults
  BY DEF TypeOK, Scheduler, Pull, CheckDue, CheckRate, CheckPrecision, Save, Post, Die
<1>3. /\ log' = log /\ gone' = gone /\ verdict' = verdict /\ old' = old
      /\ fresh' \in 0..MaxNew
  <2>1. CASE Pull
    BY <2>1 DEF Pull, TypeOK
  <2>2. CASE ~Pull
    BY <2>2 DEF TypeOK, Scheduler, CheckDue, CheckRate, CheckPrecision, Save, Post, Die, world
  <2>3. QED
    BY <2>1, <2>2
<1>4. run' \in Run
  <2> USE DEF At, Run, Keys
  <2>1. CASE Pull
    BY <1>1, <2>1 DEF Pull
  <2>2. CASE CheckDue
    BY <1>1, <2>2, DueTyped, OnwardTyped DEF CheckDue
  <2>3. CASE CheckRate
    BY <1>1, <2>3, RateTyped DEF CheckRate
  <2>4. CASE CheckPrecision
    BY <1>1, <2>4, PrecisionTyped, OnwardTyped DEF CheckPrecision
  <2>5. CASE Save
    BY <1>1, <2>5, OnwardTyped DEF Save
  <2>6. CASE Post
    BY <2>6, OnwardTyped DEF Post
  <2>7. CASE Die
    BY <2>7 DEF Die
  <2>8. QED
    BY <2>1, <2>2, <2>3, <2>4, <2>5, <2>6, <2>7 DEF Scheduler
<1>5. /\ saved' \in [Keys -> SUBSET Problem]
      /\ told' \in [Keys -> SUBSET SUBSET Problem] /\ lost' \subseteq Keys
  <2>1. CASE Save
    BY <1>1, <2>1 DEF Save, Commit, TypeOK
  <2>2. CASE Post
    BY <1>1, <2>2 DEF Post, TypeOK
  <2>3. CASE Die
    BY <1>1, <2>3 DEF Die, TypeOK
  <2>4. CASE ~Save /\ ~Post /\ ~Die
    BY <2>4 DEF TypeOK, Scheduler, Pull, CheckDue, CheckRate, CheckPrecision
  <2>5. QED
    BY <2>1, <2>2, <2>3, <2>4
<1>6. QED
  BY <1>2, <1>3, <1>4, <1>5 DEF TypeOK

LEMMA WorldTyped == TypeOK /\ World => TypeOK'
<1> SUFFICES ASSUME TypeOK, World PROVE TypeOK'
  OBVIOUS
<1> USE AlertsAssumption DEF AlertsAssumption
<1>1. UNCHANGED <<saved, run, faults, told, lost>>
  BY DEF World
<1>2. ASSUME NEW x \in Txns, NEW flagged \in BOOLEAN, Decide(x, flagged) PROVE TypeOK'
  <2>1. log' \in Seq([txn: Txns, flagged: BOOLEAN]) /\ Len(log') = Len(log) + 1
    BY <1>2 DEF Decide, TypeOK
  <2>2. gone' \in 0..Len(log')
    BY <1>2, <2>1 DEF Decide, TypeOK
  <2>3. QED
    BY <1>1, <1>2, <2>1, <2>2 DEF Decide, TypeOK
<1>3. ASSUME NEW x \in Txns, NEW v \in {"genuine", "fraud"}, Feedback(x, v) PROVE TypeOK'
  BY <1>1, <1>3 DEF Feedback, TypeOK
<1>4. CASE TimePasses
  BY <1>1, <1>4 DEF TimePasses, TypeOK
<1>5. CASE Promoted
  BY <1>1, <1>5 DEF Promoted, TypeOK
<1>6. QED
  BY <1>2, <1>3, <1>4, <1>5 DEF World

-----------------------------------------------------------------------------
(* What is saved, and what was said of it.                                 *)

\* A message about to be posted is of the state saved, and new to Slack.
Unsaid == run.pc = "post" => saved[run.key] = run.sig /\ run.sig \notin told[run.key]

\* A problem saved was told, or its message is lost or about to be posted.
Explained ==
    \A key \in Keys : saved[key] # {} =>
        \/ saved[key] \in told[key]
        \/ key \in lost
        \/ run.pc = "post" /\ run.key = key

AlertInv == TypeOK /\ Unsaid /\ Explained

LEMMA AlertInit == Init => AlertInv
<1> SUFFICES ASSUME Init PROVE AlertInv
  OBVIOUS
<1> USE AlertsAssumption DEF AlertsAssumption, Init
<1>1. log \in Seq([txn: Txns, flagged: BOOLEAN]) /\ gone \in 0..Len(log)
  OBVIOUS
<1>2. run \in Run
  BY DEF Run, Keys
<1>3. TypeOK
  BY <1>1, <1>2 DEF TypeOK
<1>4. Unsaid /\ Explained
  BY DEF Unsaid, Explained
<1>5. QED
  BY <1>3, <1>4 DEF AlertInv

\* Onward is never to a post.
LEMMA OnwardQuiet == Onward => run'.pc # "post"
BY DEF Onward, At

LEMMA SaidStep == AlertInv /\ [Next]_vars => Unsaid' /\ Explained'
<1> SUFFICES ASSUME AlertInv, [Next]_vars PROVE Unsaid' /\ Explained'
  OBVIOUS
<1>1. /\ run.key \in Keys /\ saved \in [Keys -> SUBSET Problem]
      /\ told \in [Keys -> SUBSET SUBSET Problem] /\ Unsaid /\ Explained
  BY DEF AlertInv, TypeOK, Run
<1>2. ASSUME UNCHANGED <<saved, told, lost>>, run.pc # "post" \/ run' = run,
             run'.pc # "post" \/ run' = run
      PROVE  Unsaid' /\ Explained'
  BY <1>1, <1>2 DEF Unsaid, Explained
<1>3. CASE Pull \/ CheckDue \/ CheckRate \/ CheckPrecision
  <2>1. run.pc # "post" /\ UNCHANGED <<saved, told, lost>>
    BY <1>3 DEF Pull, CheckDue, CheckRate, CheckPrecision
  <2>2. run'.pc # "post" \/ run' = run
    BY <1>3, OnwardQuiet DEF Pull, CheckDue, CheckRate, CheckPrecision, At
  <2>3. QED
    BY <1>2, <2>1, <2>2
<1>4. CASE Save
  <2>1. CASE UNCHANGED <<saved, told, lost>> /\ Onward
    BY <1>2, <1>4, <2>1, OnwardQuiet DEF Save
  <2>2. CASE ~Known(run.key, run.sig) /\ Commit
    <3>1. saved' = [saved EXCEPT ![run.key] = run.sig] /\ saved' # saved
      BY <1>1, <2>2 DEF Known, Commit
    <3>2. told' = [told EXCEPT ![run.key] = {}] /\ lost' = lost \ {run.key}
      BY <1>4, <2>2, <3>1 DEF Save
    <3>3. run.pc = "save"
      BY <1>4 DEF Save
    <3>4. CASE run.sig # {}
      <4>1. run'.pc = "post" /\ run'.key = run.key /\ run'.sig = run.sig
        BY <1>4, <2>2, <3>1, <3>4 DEF Save, Spoken, At
      <4>2. QED
        BY <1>1, <3>1, <3>2, <3>3, <4>1 DEF Unsaid, Explained
    <3>5. CASE run.sig = {}
      <4>1. run'.pc # "post"
        BY <1>4, <2>2, <3>1, <3>5, OnwardQuiet DEF Save, Spoken
      <4>2. QED
        BY <1>1, <3>1, <3>2, <3>3, <3>5, <4>1 DEF Unsaid, Explained
    <3>6. QED
      BY <3>4, <3>5
  <2>3. QED
    BY <1>4, <2>1, <2>2 DEF Save
<1>5. CASE Post
  <2>1. /\ run.pc = "post" /\ saved' = saved /\ run'.pc # "post"
        /\ \/ told' = [told EXCEPT ![run.key] = @ \cup {run.sig}] /\ lost' = lost
           \/ lost' = lost \cup {run.key} /\ told' = told
    BY <1>5, OnwardQuiet DEF Post
  <2>2. QED
    BY <1>1, <2>1 DEF Unsaid, Explained
<1>6. CASE Die
  <2>1. /\ saved' = saved /\ told' = told /\ run'.pc # "post"
        /\ lost' = IF run.pc = "post" THEN lost \cup {run.key} ELSE lost
    BY <1>6 DEF Die, At
  <2>2. QED
    BY <1>1, <2>1 DEF Unsaid, Explained
<1>7. CASE World \/ UNCHANGED vars
  BY <1>1, <1>7 DEF World, vars, Unsaid, Explained
<1>8. QED
  BY <1>3, <1>4, <1>5, <1>6, <1>7 DEF Next, Scheduler

LEMMA AlertStep == AlertInv /\ [Next]_vars => AlertInv'
<1> SUFFICES ASSUME AlertInv, [Next]_vars PROVE AlertInv'
  OBVIOUS
<1>1. TypeOK'
  <2>1. CASE Scheduler \/ Die
    BY <2>1, SchedulerTyped DEF AlertInv
  <2>2. CASE World
    BY <2>2, WorldTyped DEF AlertInv
  <2>3. CASE UNCHANGED vars
    BY <2>3 DEF AlertInv, TypeOK, vars, world
  <2>4. QED
    BY <2>1, <2>2, <2>3 DEF Next
<1>2. QED
  BY <1>1, SaidStep DEF AlertInv

-----------------------------------------------------------------------------
(* The theorems.                                                           *)

THEOREM AlertInvariant == Spec => []AlertInv
<1>1. QED
  BY AlertInit, AlertStep, PTL DEF Spec

\* Every variable of the alerts keeps its type: a signature is made of problems
\* with a number, for any decisions and verdicts.
THEOREM TypeCorrect == Spec => []TypeOK
<1>1. AlertInv => TypeOK
  BY DEF AlertInv
<1>2. QED
  BY <1>1, AlertInvariant, PTL

\* A state is announced once, and a check that finds a problem and stays quiet
\* has told Slack of it or lost the message (_alert_once, sync_manager.py:582-603).
THEOREM SaidOnce == Spec => AnnouncedOnce
<1>1. AlertInv /\ [Next]_vars =>
          [run' # run /\ faults' = faults =>
              /\ run.pc = "post" => run.sig \notin told[run.key]
              /\ run.pc = "save" /\ run'.pc # "post" /\ run.sig # {} =>
                     run.sig \in told[run.key] \/ run.key \in lost]_vars
  <2> SUFFICES ASSUME AlertInv, Next, run' # run, faults' = faults
               PROVE  /\ run.pc = "post" => run.sig \notin told[run.key]
                      /\ run.pc = "save" /\ run'.pc # "post" /\ run.sig # {} =>
                             run.sig \in told[run.key] \/ run.key \in lost
    OBVIOUS
  <2>1. run.pc = "post" => run.sig \notin told[run.key]
    BY DEF AlertInv, Unsaid
  <2>2. ASSUME run.pc = "save", run'.pc # "post", run.sig # {}
        PROVE  run.sig \in told[run.key] \/ run.key \in lost
    <3>1. ~Fault
      BY DEF Fault, AlertInv, TypeOK
    <3>2. Save
      BY <2>2, <3>1 DEF Next, Scheduler, Pull, CheckDue, CheckRate, CheckPrecision, Post, Die,
                        World
    <3>3. Known(run.key, run.sig)
      BY <2>2, <3>1, <3>2 DEF Save, Spoken, At
    <3>4. run.key \in Keys
      BY DEF AlertInv, TypeOK, Run
    <3>5. QED
      BY <2>2, <3>3, <3>4 DEF AlertInv, Explained, Known
  <2>3. QED
    BY <2>1, <2>2
<1>2. QED
  BY <1>1, AlertInvariant, PTL DEF Spec, AnnouncedOnce

-----------------------------------------------------------------------------
(* The relay of errors: the throttle holds, of every message that was      *)
(* accepted and not forgotten since, when that was last.                   *)

RelayTyped ==
    /\ RelayTypeOK
    /\ IsFiniteSet(seen) /\ Cardinality(seen) <= MapSize + 1
    /\ Len(queue) <= QueueSize
    /\ \A i \in DOMAIN fates : fates[i].at <= clock

Upcoming == Window(Len(fates) + 1)

SeenIsWindow ==
    /\ \A e, f \in seen : e.msg = f.msg => e = f
    /\ \A e \in seen : \E i \in Upcoming : fates[i].msg = e.msg /\ fates[i].at = e.at
    /\ \A i \in Upcoming : \E e \in seen : e.msg = fates[i].msg /\ fates[i].at <= e.at

RelayInv == RelayTyped /\ SeenIsWindow /\ ErrorsKeepComing

LEMMA RelayStarts == RelayInit => RelayInv
<1> SUFFICES ASSUME RelayInit PROVE RelayInv
  OBVIOUS
<1>1. seen = {} /\ fates = <<>> /\ queue = <<>> /\ clock = 0
  BY DEF RelayInit
<1>2. IsFiniteSet(seen) /\ Cardinality(seen) = 0
  BY <1>1, FS_EmptySet
<1>3. RelayTyped
  BY <1>1, <1>2, RelayAssumption DEF RelayAssumption, RelayTyped, RelayTypeOK
<1>4. Upcoming = {}
  BY <1>1 DEF Upcoming, Window
<1>5. SeenIsWindow
  BY <1>1, <1>4 DEF SeenIsWindow
<1>6. ErrorsKeepComing
  BY <1>1, <1>2, RelayAssumption DEF RelayAssumption, ErrorsKeepComing
<1>7. QED
  BY <1>3, <1>5, <1>6 DEF RelayInv

\* The window of an error is fixed when it comes.
LEMMA WindowStays ==
    ASSUME fates \in Seq(Report), NEW r \in Report, fates' = Append(fates, r),
           NEW j \in 1..(Len(fates) + 1)
    PROVE  /\ Window(j)' = Window(j)
           /\ \A i \in Window(j) : i \in DOMAIN fates /\ fates'[i] = fates[i]
<1>1. \A i \in 1..Len(fates) : fates'[i] = fates[i]
  OBVIOUS
<1>2. Len(fates) \in Nat
  OBVIOUS
<1>3. \A i \in 1..(j - 1) : i \in 1..Len(fates)
  BY <1>2
<1>4. \A i \in 1..(j - 1) : \A k \in (i + 1)..(j - 1) : k \in 1..Len(fates)
  BY <1>2
<1>5. Window(j)' = Window(j)
  BY <1>1, <1>3, <1>4 DEF Window, Accepted
<1>6. QED
  BY <1>1, <1>3, <1>5 DEF Window

\* The window after one more error.
LEMMA WindowGrows ==
    ASSUME fates \in Seq(Report), NEW r \in Report, fates' = Append(fates, r)
    PROVE  Upcoming' = {i \in Upcoming : ~r.forgot}
                       \cup (IF r.fate \in {"queued", "dropped"} THEN {Len(fates) + 1} ELSE {})
<1> DEFINE n == Len(fates) + 1
<1>1. n \in Nat \ {0} /\ Len(fates') = n /\ fates'[n] = r
  OBVIOUS
<1>2. \A i \in 1..(n - 1) : fates'[i] = fates[i]
  OBVIOUS
<1>3. Upcoming' = {i \in 1..n : /\ fates'[i].fate \in {"queued", "dropped"}
                                /\ \A k \in (i + 1)..n : ~fates'[k].forgot}
  BY <1>1 DEF Upcoming, Window, Accepted
<1>4. Upcoming = {i \in 1..(n - 1) : /\ fates[i].fate \in {"queued", "dropped"}
                                     /\ \A k \in (i + 1)..(n - 1) : ~fates[k].forgot}
  BY DEF Upcoming, Window, Accepted
<1>5. ASSUME NEW i \in 1..(n - 1)
      PROVE  i \in Upcoming' <=> i \in Upcoming /\ ~r.forgot
  <2>1. \A k \in (i + 1)..n : k = n \/ k \in (i + 1)..(n - 1)
    BY <1>1
  <2>2. (i + 1)..(n - 1) \subseteq 1..(n - 1) /\ n \in (i + 1)..n
    BY <1>1
  <2>3. (\A k \in (i + 1)..n : ~fates'[k].forgot)
          <=> ~r.forgot /\ \A k \in (i + 1)..(n - 1) : ~fates[k].forgot
    BY <1>1, <1>2, <2>1, <2>2
  <2>4. i \in 1..n
    BY <1>1
  <2>5. QED
    BY <1>2, <1>3, <1>4, <2>3, <2>4
<1>6. n \in Upcoming' <=> r.fate \in {"queued", "dropped"}
  <2>1. (n + 1)..n = {} /\ n \in 1..n
    BY <1>1
  <2>2. QED
    BY <1>1, <1>3, <2>1
<1>7. \A i \in Upcoming' : i = n \/ i \in 1..(n - 1)
  BY <1>1, <1>3
<1>8. Upcoming \subseteq 1..(n - 1)
  BY <1>4
<1>9. QED
  BY <1>5, <1>6, <1>7, <1>8


\* What ErrorsKeepComing says of one error.
RecentOf(j) == {i \in Window(j) : /\ fates[i].msg = fates[j].msg
                                  /\ fates[j].at - fates[i].at < Cooldown}

RightOf(j) ==
    /\ ~Accepted(j) <=> RecentOf(j) # {}
    /\ fates[j].forgot => Cardinality({fates[i].msg : i \in Window(j)}) > MapSize

LEMMA KeepComingByError ==
    ErrorsKeepComing <=> /\ \A j \in DOMAIN fates : RightOf(j)
                         /\ Cardinality(seen) <= MapSize + 1 /\ Len(queue) <= QueueSize
BY DEF ErrorsKeepComing, RightOf, RecentOf

\* What emit reports of a message.
ReportOf(msg) == [msg |-> msg, at |-> clock, fate |-> Fate(msg),
                  forgot |-> ~Throttled(msg) /\ Crowded]

LEMMA ReportTyped ==
    ASSUME RelayTyped, NEW msg \in Messages
    PROVE  /\ ReportOf(msg) \in Report
           /\ ReportOf(msg).fate \in {"queued", "dropped"} <=> ~Throttled(msg)
<1>1. Len(queue) \in Nat /\ QueueSize \in Nat /\ clock \in Nat
  BY RelayAssumption DEF RelayAssumption, RelayTyped, RelayTypeOK
<1>2. CASE Throttled(msg)
  <2>1. Fate(msg) = "throttled"
    BY <1>2 DEF Fate
  <2>2. QED
    BY <1>1, <1>2, <2>1 DEF ReportOf, Report
<1>3. CASE ~Throttled(msg)
  <2>1. Len(queue) >= QueueSize \/ Len(queue) < QueueSize
    BY <1>1
  <2>2. Fate(msg) \in {"queued", "dropped"}
    BY <1>1, <1>3, <2>1 DEF Fate
  <2>3. (~Throttled(msg) /\ Crowded) \in BOOLEAN
    OBVIOUS
  <2>4. QED
    BY <1>1, <1>3, <2>2, <2>3 DEF ReportOf, Report
<1>4. QED
  BY <1>2, <1>3

LEMMA EmitTyped ==
    ASSUME RelayTyped, NEW msg \in Messages, Emit(msg)
    PROVE  RelayTyped'
<1> USE RelayAssumption DEF RelayAssumption
<1>1. fates' = Append(fates, ReportOf(msg)) /\ clock' = clock
  BY DEF Emit, ReportOf
<1>2. fates' \in Seq(Report)
  BY <1>1, ReportTyped DEF RelayTyped, RelayTypeOK
<1>3. \A i \in DOMAIN fates' : fates'[i].at <= clock'
  <2>1. ReportOf(msg).at = clock /\ clock \in Nat
    BY DEF ReportOf, RelayTyped, RelayTypeOK
  <2>2. QED
    BY <1>1, <2>1, ReportTyped DEF RelayTyped, RelayTypeOK
<1>4. queue' \in Seq(Messages) /\ Len(queue') <= QueueSize
  <2>1. CASE Fate(msg) = "queued"
    <3>1. Len(queue) < QueueSize
      BY <2>1 DEF Fate, RelayTyped, RelayTypeOK
    <3>2. QED
      BY <2>1, <3>1 DEF Emit, RelayTyped, RelayTypeOK
  <2>2. CASE Fate(msg) # "queued"
    BY <2>2 DEF Emit, RelayTyped, RelayTypeOK
  <2>3. QED
    BY <2>1, <2>2
<1>5. seen' \subseteq [msg: Messages, at: Nat]
  BY DEF Emit, Remember, RelayTyped, RelayTypeOK
<1>6. IsFiniteSet(seen') /\ Cardinality(seen') <= MapSize + 1
  <2> DEFINE entry == [msg |-> msg, at |-> clock]
             kept  == {e \in seen : e.msg # msg /\ ~Crowded}
  <2>1. CASE Throttled(msg)
    BY <2>1 DEF Emit, Remember, RelayTyped
  <2>2. CASE ~Throttled(msg)
    <3>1. seen' = kept \cup {entry}
      BY <2>2 DEF Emit, Remember
    <3>2. IsFiniteSet(kept) /\ Cardinality(kept) <= Cardinality(seen)
      BY FS_Subset DEF RelayTyped
    <3>3. Cardinality(kept) \in Nat /\ Cardinality(seen) \in Nat
      BY <3>2, FS_CardinalityType DEF RelayTyped
    <3>4. Cardinality(kept) <= MapSize
      <4>1. CASE Crowded
        <5>1. kept = {}
          BY <4>1
        <5>2. Cardinality(kept) = 0
          BY <5>1, FS_EmptySet
        <5>3. QED
          BY <5>2
      <4>2. CASE ~Crowded
        BY <3>2, <3>3, <4>2 DEF Crowded
      <4>3. QED
        BY <4>1, <4>2
    <3>5. /\ IsFiniteSet(kept \cup {entry})
          /\ \/ Cardinality(kept \cup {entry}) = Cardinality(kept)
             \/ Cardinality(kept \cup {entry}) = Cardinality(kept) + 1
      BY <3>2, FS_AddElement
    <3>6. QED
      BY <3>1, <3>3, <3>4, <3>5
  <2>3. QED
    BY <2>1, <2>2
<1>7. QED
  BY <1>1, <1>2, <1>3, <1>4, <1>5, <1>6 DEF RelayTyped, RelayTypeOK

LEMMA EmitRemembers ==
    ASSUME RelayTyped, SeenIsWindow, NEW msg \in Messages, Emit(msg)
    PROVE  SeenIsWindow'
<1> DEFINE r == ReportOf(msg)
           n == Len(fates) + 1
           entry == [msg |-> msg, at |-> clock]
<1>1. /\ fates' = Append(fates, r) /\ fates \in Seq(Report) /\ r \in Report /\ clock \in Nat
      /\ seen \subseteq [msg: Messages, at: Nat]
  BY ReportTyped DEF Emit, ReportOf, RelayTyped, RelayTypeOK
<1>2. Upcoming' = {i \in Upcoming : ~r.forgot}
                  \cup (IF r.fate \in {"queued", "dropped"} THEN {n} ELSE {})
  BY <1>1, WindowGrows
<1>3. \A i \in Upcoming : i \in DOMAIN fates /\ fates'[i] = fates[i]
  <2>1. n \in 1..(Len(fates) + 1)
    BY <1>1
  <2>2. QED
    BY <1>1, <2>1, WindowStays DEF Upcoming
<1>4. \A i \in Upcoming : fates[i].at \in Nat /\ fates[i].at <= clock
  <2>1. \A i \in DOMAIN fates : fates[i] \in Report /\ fates[i].at <= clock
    BY <1>1 DEF RelayTyped
  <2>2. \A q \in Report : q.at \in Nat
    BY DEF Report
  <2>3. QED
    BY <1>3, <2>1, <2>2
<1>5. fates'[n] = r
  BY <1>1
<1>6. r.msg = msg /\ r.at = clock
  BY DEF ReportOf
<1>0. entry.msg = msg /\ entry.at = clock /\ clock <= clock
  BY <1>1
<1> HIDE DEF r, n, entry
<1>7. CASE Throttled(msg)
  <2>1. seen' = seen
    BY <1>7 DEF Emit, Remember
  <2>2. ~r.forgot /\ r.fate \notin {"queued", "dropped"}
    BY <1>7, ReportTyped DEF ReportOf, r
  <2>3. Upcoming' = Upcoming
    BY <1>2, <2>2
  <2>4. QED
    BY <1>3, <2>1, <2>3 DEF SeenIsWindow
<1>8. CASE ~Throttled(msg) /\ Crowded
  <2>1. seen' = {entry}
    BY <1>8 DEF Emit, Remember, entry
  <2>2. r.forgot /\ r.fate \in {"queued", "dropped"}
    BY <1>8, ReportTyped DEF ReportOf, r
  <2>3. Upcoming' = {n}
    BY <1>2, <2>2
  <2>4. QED
    BY <1>5, <1>6, <1>0, <2>1, <2>3 DEF SeenIsWindow
<1>9. CASE ~Throttled(msg) /\ ~Crowded
  <2>1. seen' = {e \in seen : e.msg # msg} \cup {entry}
    BY <1>9 DEF Emit, Remember, entry
  <2>2. ~r.forgot /\ r.fate \in {"queued", "dropped"}
    BY <1>9, ReportTyped DEF ReportOf, r
  <2>3. Upcoming' = Upcoming \cup {n}
    BY <1>2, <2>2
  <2>4. \A e, f \in seen' : e.msg = f.msg => e = f
    BY <1>0, <2>1 DEF SeenIsWindow
  <2>5. ASSUME NEW e \in seen'
        PROVE  \E i \in Upcoming' : fates'[i].msg = e.msg /\ fates'[i].at = e.at
    <3>1. CASE e = entry
      BY <1>5, <1>6, <1>0, <2>3, <3>1
    <3>2. CASE e # entry
      <4>1. e \in seen
        BY <2>1, <3>2
      <4>2. PICK i \in Upcoming : fates[i].msg = e.msg /\ fates[i].at = e.at
        BY <4>1 DEF SeenIsWindow
      <4>3. QED
        BY <1>3, <2>3, <4>2
    <3>3. QED
      BY <3>1, <3>2
  <2>6. ASSUME NEW i \in Upcoming'
        PROVE  \E e \in seen' : e.msg = fates'[i].msg /\ fates'[i].at <= e.at
    <3>1. entry \in seen' /\ entry.msg = msg /\ entry.at = clock
      BY <1>0, <2>1
    <3>2. CASE i = n
      BY <1>5, <1>6, <1>0, <3>1, <3>2
    <3>3. CASE i \in Upcoming /\ fates[i].msg = msg
      <4>1. fates'[i] = fates[i] /\ fates[i].at <= clock
        BY <1>3, <1>4, <3>3
      <4>2. QED
        BY <3>1, <3>3, <4>1
    <3>4. CASE i \in Upcoming /\ fates[i].msg # msg
      <4>1. PICK e \in seen : e.msg = fates[i].msg /\ fates[i].at <= e.at
        BY <3>4 DEF SeenIsWindow
      <4>2. e \in seen'
        BY <2>1, <3>4, <4>1
      <4>3. QED
        BY <1>3, <3>4, <4>1, <4>2
    <3>5. QED
      BY <2>3, <3>2, <3>3, <3>4
  <2>7. QED
    BY <2>4, <2>5, <2>6 DEF SeenIsWindow
<1>10. QED
  BY <1>7, <1>8, <1>9

\* The error that comes is throttled for the right reason, and the throttle is
\* emptied only when it holds too many.
LEMMA EmitIsRight ==
    ASSUME RelayTyped, SeenIsWindow, NEW msg \in Messages, Emit(msg),
           NEW n, n = Len(fates) + 1
    PROVE  RightOf(n)'
<1> DEFINE r == ReportOf(msg)
<1>1. /\ fates' = Append(fates, r) /\ fates \in Seq(Report) /\ r \in Report /\ clock \in Nat
      /\ seen \subseteq [msg: Messages, at: Nat] /\ Cooldown \in Nat
  BY ReportTyped, RelayAssumption DEF Emit, ReportOf, RelayTyped, RelayTypeOK, RelayAssumption
<1>2. /\ Window(n)' = Upcoming
      /\ \A i \in Upcoming : i \in DOMAIN fates /\ fates'[i] = fates[i]
  <2>1. n \in 1..(Len(fates) + 1)
    BY <1>1
  <2>2. QED
    BY <1>1, <2>1, WindowStays DEF Upcoming
<1>3. \A i \in Upcoming : fates[i].at \in Nat
  <2>1. \A i \in DOMAIN fates : fates[i] \in Report
    BY <1>1
  <2>2. \A q \in Report : q.at \in Nat
    BY DEF Report
  <2>3. QED
    BY <1>2, <2>1, <2>2
<1>4. fates'[n] = r
  BY <1>1
<1>5. r.msg = msg /\ r.at = clock /\ (r.forgot <=> ~Throttled(msg) /\ Crowded)
  BY DEF ReportOf
<1>6. r.fate \in {"queued", "dropped"} <=> ~Throttled(msg)
  BY ReportTyped
<1> HIDE DEF r
<1>7. RecentOf(n)' = {i \in Upcoming : fates[i].msg = msg /\ clock - fates[i].at < Cooldown}
  BY <1>2, <1>4, <1>5 DEF RecentOf
<1>8. RecentOf(n)' # {} <=> Throttled(msg)
  <2>1. ASSUME NEW i \in Upcoming, fates[i].msg = msg, clock - fates[i].at < Cooldown
        PROVE  Throttled(msg)
    <3>1. PICK e \in seen : e.msg = fates[i].msg /\ fates[i].at <= e.at
      BY DEF SeenIsWindow
    <3>2. e.at \in Nat
      BY <1>1
    <3>3. clock - e.at < Cooldown
      BY <1>1, <1>3, <2>1, <3>1, <3>2
    <3>4. QED
      BY <2>1, <3>1, <3>3 DEF Throttled
  <2>2. ASSUME Throttled(msg) PROVE RecentOf(n)' # {}
    <3>1. PICK e \in seen : e.msg = msg /\ clock - e.at < Cooldown
      BY <2>2 DEF Throttled
    <3>2. PICK i \in Upcoming : fates[i].msg = e.msg /\ fates[i].at = e.at
      BY DEF SeenIsWindow
    <3>3. QED
      BY <1>7, <3>1, <3>2
  <2>3. QED
    BY <1>7, <2>1, <2>2
<1>9. Accepted(n)' <=> ~Throttled(msg)
  BY <1>4, <1>6 DEF Accepted
<1>10. ASSUME Crowded
       PROVE  Cardinality({fates'[i].msg : i \in Upcoming}) > MapSize
  <2> DEFINE names == {fates'[i].msg : i \in Upcoming}
  <2>1. IsFiniteSet(names)
    <3> DEFINE name == [i \in Upcoming |-> fates'[i].msg]
    <3>1. Upcoming \subseteq 1..Len(fates) /\ Len(fates) \in Nat
      BY <1>1, <1>2
    <3>2. IsFiniteSet(Upcoming)
      <4>1. IsFiniteSet(1..Len(fates))
        BY <3>1, FS_Interval
      <4>2. QED
        BY <3>1, <4>1, FS_Subset
    <3>3. name \in Surjection(Upcoming, names)
      BY DEF Surjection
    <3>4. QED
      BY <3>2, <3>3, FS_Surjection
  <2>2. [e \in seen |-> e.msg] \in Injection(seen, names)
    <3>1. \A e \in seen : e.msg \in names
      BY <1>2 DEF SeenIsWindow
    <3>2. \A e, f \in seen : e.msg = f.msg => e = f
      BY DEF SeenIsWindow
    <3> HIDE DEF names
    <3>3. QED
      BY <3>1, <3>2 DEF Injection, IsInjective
  <2>3. Cardinality(seen) <= Cardinality(names)
    BY <2>1, <2>2, FS_Injection
  <2>4. Cardinality(seen) \in Nat /\ Cardinality(names) \in Nat /\ MapSize \in Nat
    BY <2>1, FS_CardinalityType, RelayAssumption DEF RelayTyped, RelayAssumption
  <2>5. QED
    BY <1>10, <2>3, <2>4 DEF Crowded
<1>11. fates'[n].forgot => Cardinality({fates'[i].msg : i \in Window(n)'}) > MapSize
  BY <1>2, <1>4, <1>5, <1>10
<1>12. QED
  BY <1>8, <1>9, <1>11 DEF RightOf


\* An error that was judged stays so: its window does not change.
LEMMA OthersStayRight ==
    ASSUME RelayTyped, NEW msg \in Messages, Emit(msg), NEW j \in DOMAIN fates, RightOf(j)
    PROVE  RightOf(j)'
<1>1. /\ fates' = Append(fates, ReportOf(msg)) /\ fates \in Seq(Report)
      /\ ReportOf(msg) \in Report
  BY ReportTyped DEF Emit, ReportOf, RelayTyped, RelayTypeOK
<1>2. j \in 1..(Len(fates) + 1) /\ fates'[j] = fates[j]
  BY <1>1
<1>3. /\ Window(j)' = Window(j)
      /\ \A i \in Window(j) : fates'[i] = fates[i]
  BY <1>1, <1>2, WindowStays
<1>4. RecentOf(j)' = RecentOf(j)
  BY <1>2, <1>3 DEF RecentOf
<1>5. {fates'[i].msg : i \in Window(j)'} = {fates[i].msg : i \in Window(j)}
  BY <1>3
<1>6. QED
  BY <1>2, <1>4, <1>5 DEF RightOf, Accepted

\* A step that leaves the throttle and the reports alone.
LEMMA QuietStep ==
    ASSUME RelayInv, UNCHANGED <<seen, fates>>, RelayTyped'
    PROVE  RelayInv'
<1>1. \A j : Window(j)' = Window(j)
  BY DEF Window, Accepted
<1>2. Upcoming' = Upcoming
  BY DEF Upcoming, Window, Accepted
<1>3. SeenIsWindow'
  BY <1>2 DEF RelayInv, SeenIsWindow
<1>4. ASSUME NEW j \in DOMAIN fates PROVE RightOf(j)'
  <2>1. RightOf(j)
    BY KeepComingByError DEF RelayInv
  <2>2. RecentOf(j)' = RecentOf(j)
    BY <1>1 DEF RecentOf
  <2>3. {fates'[i].msg : i \in Window(j)'} = {fates[i].msg : i \in Window(j)}
    BY <1>1
  <2>4. QED
    BY <2>1, <2>2, <2>3 DEF RightOf, Accepted
<1>5. ErrorsKeepComing'
  BY <1>4 DEF RelayTyped, ErrorsKeepComing, RightOf, RecentOf
<1>6. QED
  BY <1>3, <1>5 DEF RelayInv

LEMMA RelayStep == RelayInv /\ [RelayNext]_relayVars => RelayInv'
<1> SUFFICES ASSUME RelayInv, [RelayNext]_relayVars PROVE RelayInv'
  OBVIOUS
<1>1. RelayTyped /\ SeenIsWindow /\ \A j \in DOMAIN fates : RightOf(j)
  BY KeepComingByError DEF RelayInv
<1>2. ASSUME NEW msg \in Messages, Emit(msg) PROVE RelayInv'
  <2>1. RelayTyped'
    BY <1>1, <1>2, EmitTyped
  <2>2. SeenIsWindow'
    BY <1>1, <1>2, EmitRemembers
  <2>3. Len(fates) \in Nat /\ DOMAIN fates = 1..Len(fates) /\ DOMAIN fates' = 1..(Len(fates) + 1)
    BY <1>1, <1>2 DEF Emit, RelayTyped, RelayTypeOK
  <2>4. ASSUME NEW j \in DOMAIN fates' PROVE RightOf(j)'
    <3>1. CASE j \in DOMAIN fates
      BY <1>1, <1>2, <3>1, OthersStayRight
    <3>2. CASE j = Len(fates) + 1
      BY <1>1, <1>2, <3>2, EmitIsRight
    <3>3. QED
      BY <2>3, <3>1, <3>2
  <2>5. ErrorsKeepComing'
    BY <2>1, <2>4 DEF RelayTyped, ErrorsKeepComing, RightOf, RecentOf
  <2>6. QED
    BY <2>1, <2>2, <2>5 DEF RelayInv
<1>3. CASE Take
  <2>1. UNCHANGED <<clock, seen, fates>> /\ queue' \in Seq(Messages) /\ Len(queue') <= Len(queue)
    BY <1>1, <1>3 DEF Take, RelayTyped, RelayTypeOK
  <2>2. Len(queue') <= QueueSize
    BY <1>1, <2>1, RelayAssumption DEF RelayTyped, RelayTypeOK, RelayAssumption
  <2>3. QED
    BY <1>1, <2>1, <2>2, QuietStep DEF RelayTyped, RelayTypeOK
<1>4. CASE Tick
  <2>1. clock' = clock + 1 /\ UNCHANGED <<seen, queue, fates>> /\ clock \in Nat
    BY <1>1, <1>4 DEF Tick, RelayTyped, RelayTypeOK
  <2>2. \A i \in DOMAIN fates : fates[i].at <= clock'
    <3>1. \A i \in DOMAIN fates : fates[i].at \in Nat /\ fates[i].at <= clock
      <4>1. \A i \in DOMAIN fates : fates[i] \in Report
        BY <1>1 DEF RelayTyped, RelayTypeOK
      <4>2. \A q \in Report : q.at \in Nat
        BY DEF Report
      <4>3. QED
        BY <1>1, <4>1, <4>2 DEF RelayTyped
    <3>2. QED
      BY <2>1, <3>1
  <2>3. QED
    BY <1>1, <2>1, <2>2, QuietStep DEF RelayTyped, RelayTypeOK
<1>5. CASE Restart
  <2>1. RelayInit'
    BY <1>5 DEF Restart, RelayInit
  <2>2. QED
    BY <2>1, RelayStarts, PTL
<1>6. CASE UNCHANGED relayVars
  BY <1>1, <1>6, QuietStep DEF relayVars, RelayTyped, RelayTypeOK
<1>7. QED
  BY <1>2, <1>3, <1>4, <1>5, <1>6 DEF RelayNext

\* A message is throttled exactly when it was accepted within a cooldown and not
\* forgotten since, and all are forgotten only when more than MapSize different ones
\* came, for any messages, sizes and number of errors, through every restart
\* (_SlackErrorHandler.emit, audit.py:86-106).
THEOREM ErrorsAreForwarded == RelaySpec => []ErrorsKeepComing
<1>1. RelayInv => ErrorsKeepComing
  BY DEF RelayInv
<1>2. QED
  BY <1>1, RelayStarts, RelayStep, PTL DEF RelaySpec


-----------------------------------------------------------------------------
(* What a training run learns, of any rows and any verdicts.               *)

\* A row of the window.
DayRow == [txn: TrainTxns, customer: Customers, day: 0..Span, sane: BOOLEAN, suspect: BOOLEAN]

Good(rows, verdicts) == {r \in Validate(rows) : ~Bad(r, verdicts)}
Mine(good, c) == {g \in good : g.customer = c}
Days(good, c) == {g.day : g \in Mine(good, c)}

LEMMA LearnedIs ==
    ASSUME NEW rows, NEW verdicts
    PROVE  Learned(rows, verdicts) =
               {r \in Good(rows, verdicts) : r.customer \in Eligible(Good(rows, verdicts))}
BY DEF Learned, Good

LEMMA EligibleIs ==
    ASSUME NEW good, NEW c
    PROVE  c \in Eligible(good) <=>
               /\ c \in Customers /\ Cardinality(Mine(good, c)) >= MinTxns
               /\ Days(good, c) # {} /\ Max(Days(good, c)) - Min(Days(good, c)) >= MinDays
BY DEF Eligible, Mine, Days

\* validate keeps rows of the window, one of each transaction, and finitely many.
LEMMA Validated ==
    ASSUME NEW rows \in Seq(CacheRow)
    PROVE  /\ Validate(rows) \subseteq DayRow /\ IsFiniteSet(Validate(rows))
           /\ \A r, s \in Validate(rows) : r.txn = s.txn => r = s
<1> DEFINE kept == {i \in Load(rows) :
                      rows[i].sane /\ \A j \in Load(rows) : j < i => rows[j].txn # rows[i].txn}
<1>1. Load(rows) \subseteq 1..Len(rows) /\ Len(rows) \in Nat
  BY DEF Load
<1>2. \A i \in Load(rows) : rows[i] \in CacheRow /\ rows[i].day >= 0
  BY DEF Load
<1>3. \A r \in CacheRow : r.day >= 0 => r \in DayRow
  <2>1. \A d \in -1..Span : d >= 0 => d \in 0..Span
    BY TrainingAssumption DEF TrainingAssumption
  <2>2. QED
    BY <2>1 DEF CacheRow, DayRow
<1>4. Validate(rows) = {rows[i] : i \in kept}
  BY DEF Validate
<1>5. Validate(rows) \subseteq DayRow
  BY <1>2, <1>3, <1>4
<1>6. IsFiniteSet(Validate(rows))
  <2> DEFINE rowAt == [i \in kept |-> rows[i]]
  <2>1. kept \subseteq 1..Len(rows)
    BY <1>1
  <2>2. IsFiniteSet(1..Len(rows))
    BY <1>1, FS_Interval
  <2>3. IsFiniteSet(kept)
    BY <2>1, <2>2, FS_Subset
  <2>4. rowAt \in Surjection(kept, Validate(rows))
    BY <1>4 DEF Surjection
  <2>5. QED
    BY <2>3, <2>4, FS_Surjection
<1>7. ASSUME NEW r \in Validate(rows), NEW s \in Validate(rows), r.txn = s.txn
      PROVE  r = s
  <2>1. PICK i \in kept : r = rows[i]
    BY <1>4
  <2>2. PICK j \in kept : s = rows[j]
    BY <1>4
  <2>3. ~(i < j) /\ ~(j < i)
    BY <1>7, <2>1, <2>2
  <2>4. i \in Nat /\ j \in Nat
    BY <1>1
  <2>5. i = j
    BY <2>3, <2>4
  <2>6. QED
    BY <2>1, <2>2, <2>5
<1>8. QED
  BY <1>5, <1>6, <1>7

\* Some days of the window have a last and a first.
LEMMA FirstDay ==
    ASSUME NEW days \in SUBSET Nat, days # {}
    PROVE  Min(days) \in days
<1>1. PICK n \in days : \A m \in days : ~(<<m, n>> \in OpToRel(<, Nat))
  BY WFMin, NatLessThanWellFounded
<1>2. ASSUME NEW m \in days PROVE n =< m
  <2>1. ~(m < n)
    BY <1>1 DEF OpToRel
  <2>2. QED
    BY <2>1
<1>3. QED
  BY <1>2 DEF Min

LEMMA LastDay ==
    ASSUME NEW top \in Nat, NEW days \in SUBSET (0..top), days # {}
    PROVE  Max(days) \in days
<1> DEFINE left == {top - d : d \in days}
<1>1. left \in SUBSET Nat /\ left # {}
  <2>1. \A d \in 0..top : top - d \in Nat
    OBVIOUS
  <2>2. QED
    BY <2>1
<1>2. PICK n \in left : \A m \in left : ~(<<m, n>> \in OpToRel(<, Nat))
  BY <1>1, WFMin, NatLessThanWellFounded
<1>3. PICK last \in days : n = top - last
  BY <1>2
<1>4. ASSUME NEW d \in days PROVE last >= d
  <2>1. top - d \in left /\ top - d \in Nat /\ n \in Nat
    BY <1>1
  <2>2. ~(top - d < n)
    BY <1>2, <2>1 DEF OpToRel
  <2>3. last \in 0..top /\ d \in 0..top
    OBVIOUS
  <2>4. QED
    BY <1>3, <2>2, <2>3
<1>5. QED
  BY <1>4 DEF Max

\* What a customer who is learnt has to show.
LEMMA LearnedEvidence ==
    ASSUME NEW rows \in Seq(CacheRow), NEW verdicts, NEW l \in Learned(rows, verdicts)
    PROVE  LET mine == {r \in Learned(rows, verdicts) : r.customer = l.customer}
           IN  /\ Cardinality(mine) >= MinTxns
               /\ \E r, s \in mine : s.day - r.day >= MinDays
<1> DEFINE good == Good(rows, verdicts)
           c == l.customer
<1>1. l \in good /\ c \in Eligible(good)
  BY LearnedIs
<1>2. {r \in Learned(rows, verdicts) : r.customer = c} = Mine(good, c)
  BY <1>1, LearnedIs DEF Mine
<1>3. Cardinality(Mine(good, c)) >= MinTxns
  BY <1>1, EligibleIs
<1>4. /\ Days(good, c) # {}
      /\ Max(Days(good, c)) - Min(Days(good, c)) >= MinDays
  BY <1>1, EligibleIs
<1>5. Days(good, c) \in SUBSET (0..Span)
  <2>1. \A r \in Validate(rows) : r.day \in 0..Span
    BY Validated DEF DayRow
  <2>2. QED
    BY <2>1 DEF Days, Mine, Good
<1>6. Max(Days(good, c)) \in Days(good, c) /\ Min(Days(good, c)) \in Days(good, c)
  <2>1. Span \in Nat /\ Days(good, c) \in SUBSET Nat
    BY <1>5, TrainingAssumption DEF TrainingAssumption
  <2>2. QED
    BY <1>4, <1>5, <2>1, FirstDay, LastDay
<1>7. PICK s \in Mine(good, c) : s.day = Max(Days(good, c))
  BY <1>6 DEF Days
<1>8. PICK r \in Mine(good, c) : r.day = Min(Days(good, c))
  BY <1>6 DEF Days
<1>9. s.day - r.day >= MinDays
  BY <1>4, <1>7, <1>8
<1>10. QED
  BY <1>2, <1>3, <1>9


\* With a status that says nothing.
Strip(r) == [r EXCEPT !.suspect = FALSE]

LEMMA StripKeeps ==
    ASSUME NEW r \in DayRow
    PROVE  /\ Strip(r) \in DayRow /\ Strip(r).txn = r.txn /\ Strip(r).customer = r.customer
           /\ Strip(r).day = r.day /\ ~Strip(r).suspect
BY DEF Strip, DayRow

LEMMA ClearedValidated ==
    ASSUME NEW rows \in Seq(CacheRow)
    PROVE  /\ Cleared(rows) \in Seq(CacheRow)
           /\ Validate(Cleared(rows)) = {Strip(r) : r \in Validate(rows)}
<1> DEFINE other == Cleared(rows)
<1>1. \A i \in 1..Len(rows) : rows[i] \in CacheRow
  OBVIOUS
<1>2. other = [i \in 1..Len(rows) |-> Strip(rows[i])]
  BY DEF Cleared, Strip
<1>3. \A r \in CacheRow : /\ Strip(r) \in CacheRow /\ Strip(r).txn = r.txn
                          /\ Strip(r).day = r.day /\ Strip(r).sane = r.sane
  BY DEF Strip, CacheRow
<1>4. other \in Seq(CacheRow)
  <2>1. Len(rows) \in Nat
    OBVIOUS
  <2>2. other \in [1..Len(rows) -> CacheRow]
    BY <1>1, <1>2, <1>3
  <2> HIDE DEF other
  <2>3. QED
    BY <2>1, <2>2
<1>5. \A i \in 1..Len(rows) : /\ other[i] = Strip(rows[i]) /\ other[i].txn = rows[i].txn
                              /\ other[i].day = rows[i].day /\ other[i].sane = rows[i].sane
  BY <1>1, <1>2, <1>3
<1>6. DOMAIN other = 1..Len(rows) /\ DOMAIN rows = 1..Len(rows)
  BY <1>2
<1> HIDE DEF other
<1>7. Load(other) = Load(rows) /\ Load(rows) \subseteq 1..Len(rows)
  BY <1>5, <1>6 DEF Load
<1> DEFINE kept == {i \in Load(rows) :
                      rows[i].sane /\ \A j \in Load(rows) : j < i => rows[j].txn # rows[i].txn}
<1>8. {i \in Load(other) :
         other[i].sane /\ \A j \in Load(other) : j < i => other[j].txn # other[i].txn} = kept
  BY <1>5, <1>7
<1>9. Validate(other) = {other[i] : i \in kept} /\ Validate(rows) = {rows[i] : i \in kept}
  BY <1>8 DEF Validate
<1>10. \A i \in kept : other[i] = Strip(rows[i])
  BY <1>5, <1>7
<1> HIDE DEF kept
<1>11. Validate(other) = {Strip(r) : r \in Validate(rows)}
  BY <1>9, <1>10
<1>12. QED
  BY <1>4, <1>11 DEF other

\* When every transaction has a verdict, the status of none matters.
LEMMA VerdictsAlone ==
    ASSUME NEW rows \in Seq(CacheRow), NEW verdicts \in Verdicts,
           \A x \in TrainTxns : verdicts[x] # "none"
    PROVE  {r.txn : r \in Learned(rows, verdicts)} =
               {r.txn : r \in Learned(Cleared(rows), verdicts)}
<1> DEFINE good  == Good(rows, verdicts)
           other == Good(Cleared(rows), verdicts)
<1>1. \A r \in DayRow : Bad(r, verdicts) <=> verdicts[r.txn] = "fraud"
  <2>1. \A x \in TrainTxns : verdicts[x] \in {"none", "genuine", "fraud"}
    BY DEF Verdicts
  <2>2. \A r \in DayRow : r.txn \in TrainTxns
    BY DEF DayRow
  <2>3. QED
    BY <2>1, <2>2 DEF Bad
<1>2. \A r \in DayRow : Bad(Strip(r), verdicts) <=> Bad(r, verdicts)
  BY <1>1, StripKeeps
<1>3. good \subseteq DayRow /\ other = {Strip(r) : r \in good}
  BY <1>2, Validated, ClearedValidated DEF Good
<1>4. IsFiniteSet(good)
  BY Validated, FS_Subset DEF Good
<1>5. \A r, s \in good : r.txn = s.txn => r = s
  BY Validated DEF Good
<1> HIDE DEF good, other
<1>6. ASSUME NEW c
      PROVE  /\ Cardinality(Mine(other, c)) = Cardinality(Mine(good, c))
             /\ Days(other, c) = Days(good, c)
  <2> DEFINE strip == [r \in Mine(good, c) |-> Strip(r)]
  <2>1. Mine(other, c) = {Strip(r) : r \in Mine(good, c)}
    BY <1>3, StripKeeps DEF Mine
  <2>2. Mine(good, c) \subseteq good
    BY DEF Mine
  <2>3. strip \in Surjection(Mine(good, c), Mine(other, c))
    BY <2>1 DEF Surjection
  <2>4. \A r, s \in Mine(good, c) : strip[r] = strip[s] => r = s
    <3>1. \A r \in Mine(good, c) : strip[r].txn = r.txn
      BY <1>3, <2>2, StripKeeps
    <3>2. QED
      BY <1>5, <2>2, <3>1
  <2>5. strip \in Bijection(Mine(good, c), Mine(other, c))
    BY <2>3, <2>4 DEF Bijection, Injection, IsInjective, Surjection
  <2>6. IsFiniteSet(Mine(good, c))
    BY <1>4, <2>2, FS_Subset
  <2>7. Cardinality(Mine(other, c)) = Cardinality(Mine(good, c))
    BY <2>5, <2>6, FS_Bijection DEF ExistsBijection
  <2>8. Days(other, c) = Days(good, c)
    <3>1. \A r \in Mine(good, c) : Strip(r).day = r.day
      BY <1>3, <2>2, StripKeeps
    <3>2. QED
      BY <2>1, <3>1 DEF Days
  <2>9. QED
    BY <2>7, <2>8
<1>7. \A c : c \in Eligible(other) <=> c \in Eligible(good)
  BY <1>6, EligibleIs
<1>8. Learned(rows, verdicts) = {r \in good : r.customer \in Eligible(good)}
  BY LearnedIs DEF good
<1>9. Learned(Cleared(rows), verdicts) = {r \in other : r.customer \in Eligible(other)}
  BY LearnedIs DEF other
<1>10. \A r \in good : Strip(r).txn = r.txn /\ Strip(r).customer = r.customer
  BY <1>3, StripKeeps
<1>11. ASSUME NEW r \in Learned(rows, verdicts)
       PROVE  \E s \in Learned(Cleared(rows), verdicts) : s.txn = r.txn
  <2>1. r \in good /\ Strip(r) \in other
    BY <1>3, <1>8
  <2>2. Strip(r) \in Learned(Cleared(rows), verdicts)
    BY <1>7, <1>8, <1>9, <1>10, <2>1
  <2>3. QED
    BY <1>10, <2>1, <2>2
<1>12. ASSUME NEW s \in Learned(Cleared(rows), verdicts)
       PROVE  \E r \in Learned(rows, verdicts) : s.txn = r.txn
  <2>1. PICK r \in good : s = Strip(r)
    BY <1>3, <1>9
  <2>2. r \in Learned(rows, verdicts)
    BY <1>7, <1>8, <1>9, <1>10, <2>1
  <2>3. QED
    BY <1>10, <2>1, <2>2
<1>13. QED
  BY <1>11, <1>12

\* The analysts' verdicts decide what is learnt, of any rows of the cache
\* (clean.py:59-75, 78-127).
THEOREM VerdictsDecided ==
    ASSUME NEW rows \in Seq(CacheRow), call = [fn |-> "clean", arg |-> rows]
    PROVE  VerdictsDecide
<1> SUFFICES ASSUME NEW verdicts \in Verdicts
             PROVE  LET learned == Learned(rows, verdicts)
                        customers == {r.customer : r \in learned}
                    IN  /\ \A r \in learned : verdicts[r.txn] # "fraud"
                        /\ \A r \in Validate(rows) :
                             verdicts[r.txn] = "genuine" /\ r.customer \in customers =>
                               r \in learned
                        /\ (\A x \in TrainTxns : verdicts[x] # "none") =>
                             {r.txn : r \in learned} =
                             {r.txn : r \in Learned(Cleared(rows), verdicts)}
                        /\ \A c \in customers :
                             LET mine == {r \in learned : r.customer = c}
                             IN  /\ Cardinality(mine) >= MinTxns
                                 /\ \E r, s \in mine : s.day - r.day >= MinDays
  BY DEF VerdictsDecide
<1>1. \A r \in Learned(rows, verdicts) : verdicts[r.txn] # "fraud"
  BY LearnedIs DEF Good, Bad
<1>2. ASSUME NEW r \in Validate(rows), verdicts[r.txn] = "genuine",
             NEW l \in Learned(rows, verdicts), r.customer = l.customer
      PROVE  r \in Learned(rows, verdicts)
  <2>1. r \in Good(rows, verdicts)
    BY <1>2 DEF Good, Bad
  <2>2. r.customer \in Eligible(Good(rows, verdicts))
    BY <1>2, LearnedIs
  <2>3. QED
    BY <2>1, <2>2, LearnedIs
<1>3. (\A x \in TrainTxns : verdicts[x] # "none") =>
          {r.txn : r \in Learned(rows, verdicts)} =
          {r.txn : r \in Learned(Cleared(rows), verdicts)}
  BY VerdictsAlone
<1>4. ASSUME NEW l \in Learned(rows, verdicts)
      PROVE  LET mine == {r \in Learned(rows, verdicts) : r.customer = l.customer}
             IN  /\ Cardinality(mine) >= MinTxns
                 /\ \E r, s \in mine : s.day - r.day >= MinDays
  BY LearnedEvidence
<1>5. QED
  BY <1>1, <1>2, <1>3, <1>4

=============================================================================
