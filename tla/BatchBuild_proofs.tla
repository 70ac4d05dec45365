-------------------------- MODULE BatchBuild_proofs --------------------------
(***************************************************************************)
(* The batch build, for any accounts, currencies, transactions and bounds: *)
(* a run that is marked done can be rolled back to, and after a run the    *)
(* table holds the accounts of its file.                                   *)
(***************************************************************************)
EXTENDS BatchBuild, FiniteSetTheorems, WellFoundedInduction, TLAPS

-----------------------------------------------------------------------------
(* The inductive invariant.                                                *)

Cells == Accounts \X Ccys

\* What a build has left to do it does to the accounts of its snapshots, under
\* its own number.
InOrder ==
    /\ build.upsert \subseteq build.snap
    /\ build.pc # "idle" => build.run \in 1..MaxRuns

\* The snapshot a row would be restored from.
SnapshotOf(x) ==
    [acct |-> x[1], ccy |-> x[2], version |-> profile[x].version, by |-> profile[x].by]

\* A row was written by a run that has begun, and if that run is done it has
\* its snapshot.
Begun(x) ==
    profile[x].by # 0 =>
        /\ profile[x].by \in 1..MaxRuns /\ runs[profile[x].by] # "none"
        /\ runs[profile[x].by] = "done" => SnapshotOf(x) \in history

\* What the run in progress has written it will take a snapshot of, or has.
Pending(x) ==
    profile[x].by = build.run =>
        /\ x[2] = Default /\ profile[x].version = build.fresh[x[1]].version
        /\ x[1] \in build.snap \/ SnapshotOf(x) \in history

SnapshotInv ==
    /\ TypeOK /\ InOrder
    /\ \A x \in Cells : Begun(x)
    /\ build.pc = "write" => /\ runs[build.run] # "done"
                             /\ \A x \in Cells : Pending(x)

-----------------------------------------------------------------------------
(* Types.                                                                  *)

\* The newest of some transactions is one of them, and none is newer.
LEMMA LastIsNewest ==
    ASSUME BuildAssumption, NEW ids \in SUBSET Txns
    PROVE  /\ Last(ids) \in Nat /\ \A u \in ids : u <= Last(ids)
           /\ ids # {} => Last(ids) \in ids
<1>1. CASE ids = {}
  BY <1>1 DEF Last
<1>2. CASE ids # {}
  <2>0. MaxTxns \in Nat
    BY DEF BuildAssumption
  <2> DEFINE after == {MaxTxns - t : t \in ids}
  <2>1. after \subseteq Nat /\ after # {}
    <3>1. \A t \in ids : MaxTxns - t \in Nat
      BY <2>0 DEF Txns
    <3>2. QED
      BY <1>2, <3>1
  <2>2. PICK n \in after : \A m \in after : ~ (<<m, n>> \in OpToRel(<, Nat))
    BY <2>1, WFMin, NatLessThanWellFounded
  <2>3. PICK t \in ids : n = MaxTxns - t
    OBVIOUS
  <2>4. \A u \in ids : t >= u
    <3> TAKE u \in ids
    <3>1. MaxTxns - u \in after /\ MaxTxns - u \in Nat /\ n \in Nat
      BY <2>1
    <3>2. ~ (MaxTxns - u < n)
      <4>1. <<MaxTxns - u, n>> \notin OpToRel(<, Nat)
        BY <2>2, <3>1
      <4>2. QED
        BY <3>1, <4>1 DEF OpToRel
    <3>3. QED
      BY <2>0, <2>3, <3>1, <3>2 DEF Txns
  <2>5. Last(ids) \in ids /\ \A u \in ids : Last(ids) >= u
    BY <1>2, <2>4 DEF Last, Max
  <2>6. \A u \in ids : u \in Nat
    BY <2>0 DEF Txns
  <2>7. QED
    BY <2>5, <2>6
<1>3. QED
  BY <1>1, <1>2

LEMMA CountsAreNat ==
    ASSUME BuildAssumption, NEW ids \in SUBSET Txns PROVE Cardinality(ids) \in Nat
<1>1. IsFiniteSet(Txns)
  BY FS_Interval DEF BuildAssumption, Txns
<1>2. QED
  BY <1>1, FS_Subset, FS_CardinalityType

LEMMA Records ==
    ASSUME BuildAssumption
    PROVE  NoRow \in Row /\ NoBuild \in Build /\ NoRetrain \in Retrain
<1>1. NoRow \in Row
  BY DEF NoRow, Row
<1>2. NoBuild \in Build
  BY <1>1 DEF NoBuild, Build, Status, BuildAssumption
<1>3. NoRetrain \in Retrain
  <2>1. Acct[1] \in Accounts
    BY DEF BuildAssumption, Txns
  <2>2. QED
    BY <1>1, <2>1 DEF NoRetrain, Retrain, Status
<1>4. QED
  BY <1>1, <1>2, <1>3

LEMMA FreshIsRow ==
    ASSUME BuildAssumption, TypeOK, NEW p \in Row, NEW a \in Accounts
    PROVE  FreshRow(csv, p, a) \in Row
<1> DEFINE clean == CleanRows(csv, a)
<1>1. /\ Cardinality(clean) \in Nat /\ Last(clean) \in Nat
      /\ FraudTxns(csv, a) \in Nat
  <2>1. clean \in SUBSET Txns
    BY DEF CleanRows
  <2>2. {t \in Txns : csv[t] = "flagged" /\ Acct[t] = a} \in SUBSET Txns
    OBVIOUS
  <2>3. QED
    BY <2>1, <2>2, CountsAreNat, LastIsNewest DEF FraudTxns
<1>2. HasTenure(a) => tenure[a] \in Nat
  <2>1. CASE tenure \in [Accounts -> Nat]
    BY <2>1
  <2>2. CASE tenure = <<>>
    BY <2>2 DEF HasTenure
  <2>3. QED
    BY <2>1, <2>2 DEF TypeOK
<1>3. /\ p.version + 1 \in Nat /\ now \in Nat
      /\ (IF HasTenure(a) THEN tenure[a] ELSE 0) \in Nat
  BY <1>2 DEF TypeOK, Row
<1>4. QED
  BY <1>1, <1>3 DEF FreshRow, Row

\* The profiles loaded are rows.
LEMMA LoadedAreRows ==
    ASSUME TypeOK, NEW prev \in [Accounts -> {profile[x] : x \in DOMAIN profile}],
           NEW a \in Accounts
    PROVE  prev[a] \in Row
<1>1. PICK x \in DOMAIN profile : prev[a] = profile[x]
  OBVIOUS
<1>2. QED
  BY <1>1 DEF TypeOK

\* What a build begins with: the accounts of the file are rewritten or touched,
\* and those touched have a profile that lacks few of its transactions.
LEMMA ComputeCases ==
    ASSUME BuildAssumption, TypeOK, Compute
    PROVE  \E r \in 1..MaxRuns :
               /\ runs[r] = "none" /\ build' \in Build
               /\ build'.pc = "write" /\ build'.run = r
               /\ build'.upsert = build'.snap
               /\ Seen(build'.rows) = build'.upsert \cup build'.touch
               /\ build'.rows = csv /\ build'.owed = {t \in Txns : csv[t] = "clean"}
               /\ \A a \in build'.upsert :
                      /\ build'.fresh[a].version > 0
                      /\ build'.fresh[a].seen = Last(CleanRows(csv, a))
               /\ \A a \in build'.touch :
                      /\ a \notin build'.upsert /\ build'.fresh[a].version = 0
                      /\ \E c \in Ccys : /\ profile[<<a, c>>].version > 0
                                         /\ NewTxns(csv, profile[<<a, c>>], a) < MinNew
<1>1. PICK r \in 1..MaxRuns, prev \in [Accounts -> {profile[x] : x \in DOMAIN profile}] :
          /\ runs[r] = "none" /\ Loaded(prev)
          /\ \E drifted \in SUBSET MayDrift(csv, prev) :
                 LET due == drifted \cup {a \in Seen(csv) : Due(csv, prev[a], a)}
                 IN  build' = [NoBuild EXCEPT
                         !.pc     = "write", !.run = r, !.rows = csv,
                         !.owed   = {t \in Txns : csv[t] = "clean"},
                         !.upsert = due, !.snap = due, !.touch = Seen(csv) \ due,
                         !.fresh  = [a \in Accounts |-> IF a \in due
                                        THEN FreshRow(csv, prev[a], a) ELSE NoRow]]
  BY Zenon DEF Compute
<1>2. PICK drifted \in SUBSET MayDrift(csv, prev) :
          LET due == drifted \cup {a \in Seen(csv) : Due(csv, prev[a], a)}
          IN  build' = [NoBuild EXCEPT
                  !.pc     = "write", !.run = r, !.rows = csv,
                  !.owed   = {t \in Txns : csv[t] = "clean"},
                  !.upsert = due, !.snap = due, !.touch = Seen(csv) \ due,
                  !.fresh  = [a \in Accounts |-> IF a \in due
                                 THEN FreshRow(csv, prev[a], a) ELSE NoRow]]
  BY <1>1
<1> DEFINE due   == drifted \cup {a \in Seen(csv) : Due(csv, prev[a], a)}
           owed  == {t \in Txns : csv[t] = "clean"}
           fresh == [a \in Accounts |-> IF a \in due
                                        THEN FreshRow(csv, prev[a], a) ELSE NoRow]
<1>3. due \subseteq Seen(csv) /\ Seen(csv) \subseteq Accounts
  BY DEF MayDrift, Seen
<1>4. fresh \in [Accounts -> Row]
  BY LoadedAreRows, FreshIsRow, Records
<1>5. csv \in [Txns -> Status] /\ NoBuild \in Build
  BY Records DEF TypeOK
<1>6. \A a \in due : fresh[a].version > 0 /\ fresh[a].seen = Last(CleanRows(csv, a))
  <2> SUFFICES ASSUME NEW a \in due
               PROVE  fresh[a].version > 0 /\ fresh[a].seen = Last(CleanRows(csv, a))
    OBVIOUS
  <2>1. prev[a] \in Row /\ fresh[a] = FreshRow(csv, prev[a], a)
    BY <1>3, LoadedAreRows
  <2>2. /\ FreshRow(csv, prev[a], a).version = prev[a].version + 1
        /\ FreshRow(csv, prev[a], a).seen = Last(CleanRows(csv, a))
    BY DEF FreshRow
  <2>3. QED
    BY <2>1, <2>2 DEF Row
<1>7. \A a \in Seen(csv) \ due :
          /\ fresh[a].version = 0
          /\ \E c \in Ccys : /\ profile[<<a, c>>].version > 0
                             /\ NewTxns(csv, profile[<<a, c>>], a) < MinNew
  <2> SUFFICES ASSUME NEW a \in Seen(csv), ~Due(csv, prev[a], a)
               PROVE  \E c \in Ccys : /\ profile[<<a, c>>].version > 0
                                      /\ NewTxns(csv, profile[<<a, c>>], a) < MinNew
    BY <1>3 DEF NoRow
  <2>1. prev[a].version # 0 /\ NewTxns(csv, prev[a], a) < MinNew
    <3>1. {t \in CleanRows(csv, a) : t > prev[a].seen} \in SUBSET Txns
      BY DEF CleanRows
    <3>2. NewTxns(csv, prev[a], a) \in Nat /\ MinNew \in Nat
      BY <3>1, CountsAreNat DEF NewTxns, BuildAssumption
    <3>3. QED
      BY <3>2 DEF Due
  <2>2. PICK ccy \in [Accounts -> Ccys] : \A b \in Accounts : prev[b] = profile[<<b, ccy[b]>>]
    BY <1>1, Zenon DEF Loaded
  <2>3. a \in Accounts
    BY <1>3
  <2>4. /\ profile[<<a, ccy[a]>>].version # 0 /\ ccy[a] \in Ccys
        /\ NewTxns(csv, profile[<<a, ccy[a]>>], a) < MinNew
    BY <2>1, <2>2, <2>3
  <2>5. \A c \in Ccys : profile[<<a, c>>].version \in Nat
    <3>1. \A c \in Ccys : profile[<<a, c>>] \in Row
      BY <2>3 DEF TypeOK
    <3>2. QED
      BY <3>1 DEF Row
  <2>6. QED
    BY <2>4, <2>5
<1> HIDE DEF due, fresh, owed
<1>8. build' = [NoBuild EXCEPT !.pc = "write", !.run = r, !.rows = csv,
                    !.owed = owed, !.upsert = due, !.snap = due, !.touch = Seen(csv) \ due,
                    !.fresh = fresh]
  BY <1>2, Zenon DEF due, fresh, owed
<1>9. build' = [pc |-> "write", run |-> r, rows |-> csv, fresh |-> fresh,
                upsert |-> due, touch |-> Seen(csv) \ due, snap |-> due,
                pruned |-> FALSE, owed |-> owed]
  BY <1>8 DEF NoBuild
<1>10. build' \in Build
  <2>1. r \in 0..MaxRuns
    BY DEF BuildAssumption
  <2>2. due \subseteq Accounts /\ Seen(csv) \ due \subseteq Accounts
    BY <1>3
  <2>3. owed \subseteq Txns
    BY DEF owed
  <2>4. QED
    BY <1>4, <1>5, <1>9, <2>1, <2>2, <2>3 DEF Build
<1>11. /\ build'.pc = "write" /\ build'.run = r /\ build'.rows = csv
       /\ build'.upsert = due /\ build'.snap = due
       /\ build'.touch = Seen(csv) \ due /\ build'.fresh = fresh
       /\ build'.owed = {t \in Txns : csv[t] = "clean"}
  BY <1>9 DEF owed
<1>12. \A b \in build'.upsert :
           build'.fresh[b].version > 0 /\ build'.fresh[b].seen = Last(CleanRows(csv, b))
  BY <1>6, <1>11
<1>13. \A b \in build'.touch :
           /\ b \notin build'.upsert /\ build'.fresh[b].version = 0
           /\ \E c \in Ccys : /\ profile[<<b, c>>].version > 0
                              /\ NewTxns(csv, profile[<<b, c>>], b) < MinNew
  BY <1>7, <1>11
<1>14. Seen(build'.rows) = build'.upsert \cup build'.touch
  BY <1>3, <1>11
<1>15. QED
  BY <1>1, <1>10, <1>11, <1>12, <1>13, <1>14, Zenon

LEMMA WriteTypes ==
    ASSUME TypeOK, InOrder, WriteProfiles
    PROVE  profile' \in [Accounts \X Ccys -> Row] /\ build' \in Build
<1>1. PICK chunk \in SUBSET build.upsert :
          /\ profile' = [x \in Accounts \X Ccys |->
                 IF x[1] \in chunk /\ x[2] = Default
                 THEN [build.fresh[x[1]] EXCEPT !.updated = now,
                           !.run = build.run, !.by = build.run]
                 ELSE profile[x]]
          /\ build' = [build EXCEPT !.upsert = @ \ chunk]
  BY DEF WriteProfiles
<1>2. \A a \in Accounts : build.fresh[a] \in Row
  BY DEF TypeOK, Build
<1>3. build.run \in Nat /\ now \in Nat
  BY DEF TypeOK, Build
<1>4. \A x \in Accounts \X Ccys :
          [build.fresh[x[1]] EXCEPT !.updated = now, !.run = build.run, !.by = build.run]
          \in Row
  BY <1>2, <1>3 DEF Row
<1>5. profile' \in [Accounts \X Ccys -> Row]
  BY <1>1, <1>4 DEF TypeOK
<1>6. build' \in Build
  BY <1>1 DEF TypeOK, Build
<1>7. QED
  BY <1>5, <1>6

LEMMA TouchTypes ==
    ASSUME TypeOK, Touch
    PROVE  profile' \in [Accounts \X Ccys -> Row] /\ build' \in Build
<1>1. PICK chunk \in SUBSET build.touch :
          /\ profile' = [x \in Accounts \X Ccys |->
                 IF x[1] \in chunk /\ profile[x].version > 0
                 THEN [profile[x] EXCEPT !.run = build.run, !.updated = now]
                 ELSE profile[x]]
          /\ build' = [build EXCEPT !.touch = @ \ chunk]
  BY DEF Touch
<1>2. build.run \in Nat /\ now \in Nat
  BY DEF TypeOK, Build
<1>3. \A x \in Accounts \X Ccys :
          [profile[x] EXCEPT !.run = build.run, !.updated = now] \in Row
  <2>1. \A x \in Accounts \X Ccys : profile[x] \in Row
    BY DEF TypeOK
  <2>2. QED
    BY <1>2, <2>1 DEF Row
<1>4. profile' \in [Accounts \X Ccys -> Row]
  BY <1>1, <1>3 DEF TypeOK
<1>5. build' \in Build
  BY <1>1 DEF TypeOK, Build
<1>6. QED
  BY <1>4, <1>5

\* A step leaves a run as it is, but for what it owes, which gets no more.
SameBuild ==
    /\ build'.pc = build.pc /\ build'.run = build.run /\ build'.rows = build.rows
    /\ build'.fresh = build.fresh /\ build'.upsert = build.upsert
    /\ build'.touch = build.touch /\ build'.snap = build.snap
    /\ build'.pruned = build.pruned /\ build'.owed \subseteq build.owed

\* What a retrain saves: rows that no run has written, and their snapshots.
LEMMA RetrainCases ==
    ASSUME BuildAssumption, TypeOK, RetrainSaves
    PROVE  /\ profile' \in [Accounts \X Ccys -> Row]
           /\ \A x \in Accounts \X Ccys :
                  \/ profile'[x] = profile[x]
                  \/ /\ profile'[x].by = 0 /\ profile'[x].version > 0
                     /\ profile'[x].run = profile[x].run
           /\ history' \subseteq Snapshot /\ history \subseteq history'
           /\ build' \in Build /\ SameBuild
<1> DEFINE a       == retrain.acct
           live(c) == {t \in CleanRows(retrain.rows, a) : Ccy[t] = c}
           fraud   == FraudTxns(retrain.rows, a)
           life(c) == IF retrain.prev[c].life > 0 THEN retrain.prev[c].life
                                                  ELSE Cardinality(live(c))
           new(c)  == [version |-> retrain.prev[c].version + 1,
                       status  |-> IF life(c) >= MinTxns /\ fraud <= MaxFraud
                                   THEN "active" ELSE "warming_up",
                       fraud |-> fraud, life |-> life(c), seen |-> Last(live(c)),
                       updated |-> now, run |-> profile[<<a, c>>].run, by |-> 0]
           built   == {c \in Ccys : live(c) # {}}
<1>1. /\ profile' = [x \in Accounts \X Ccys |->
             IF x[1] = a /\ x[2] \in built THEN new(x[2]) ELSE profile[x]]
      /\ history' = history \cup
             {[acct |-> a, ccy |-> c, by |-> 0, version |-> new(c).version] : c \in built}
  BY Zenon DEF RetrainSaves
<1>2. a \in Accounts /\ \A c \in Ccys : retrain.prev[c] \in Row
  BY DEF TypeOK, Retrain
<1>3. ASSUME NEW c \in Ccys PROVE new(c) \in Row
  <2>1. /\ live(c) \in SUBSET Txns
        /\ {t \in Txns : retrain.rows[t] = "flagged" /\ Acct[t] = a} \in SUBSET Txns
    BY DEF CleanRows
  <2>2. Cardinality(live(c)) \in Nat /\ Last(live(c)) \in Nat /\ fraud \in Nat
    BY <2>1, CountsAreNat, LastIsNewest DEF FraudTxns
  <2>3. retrain.prev[c].life \in Nat /\ retrain.prev[c].version + 1 \in Nat
    BY <1>2 DEF Row
  <2>4. now \in Nat /\ profile[<<a, c>>].run \in Nat
    BY <1>2 DEF TypeOK, Row
  <2> HIDE DEF live, fraud
  <2>5. life(c) \in Nat
    BY <2>2, <2>3
  <2> HIDE DEF life, a
  <2>6. QED
    BY <2>2, <2>3, <2>4, <2>5 DEF Row
<1>4. \A c \in Ccys : /\ new(c).by = 0 /\ new(c).version \in Nat
                     /\ new(c).run = profile[<<a, c>>].run
  BY <1>3 DEF Row
<1>5. \A c \in Ccys : new(c).version > 0
  BY <1>2 DEF Row
<1>6. built \subseteq Ccys
  OBVIOUS
<1> HIDE DEF new, built, a
<1>7. profile' \in [Accounts \X Ccys -> Row]
  BY <1>1, <1>3 DEF TypeOK
<1>8. \A x \in Accounts \X Ccys :
          \/ profile'[x] = profile[x]
          \/ /\ profile'[x].by = 0 /\ profile'[x].version > 0
             /\ profile'[x].run = profile[x].run
  <2> SUFFICES ASSUME NEW b \in Accounts, NEW c \in Ccys
               PROVE  \/ profile'[<<b, c>>] = profile[<<b, c>>]
                      \/ /\ profile'[<<b, c>>].by = 0 /\ profile'[<<b, c>>].version > 0
                         /\ profile'[<<b, c>>].run = profile[<<b, c>>].run
    OBVIOUS
  <2>1. CASE b = a /\ c \in built
    <3>1. profile'[<<b, c>>] = new(c)
      BY <1>1, <2>1
    <3>2. new(c).by = 0 /\ new(c).version > 0 /\ new(c).run = profile[<<b, c>>].run
      BY <1>4, <1>5, <2>1
    <3>3. QED
      BY <3>1, <3>2, Zenon
  <2>2. CASE ~(b = a /\ c \in built)
    BY <1>1, <2>2
  <2>3. QED
    BY <2>1, <2>2
<1>9. history' \subseteq Snapshot /\ history \subseteq history'
  <2>1. \A c \in built : [acct |-> a, ccy |-> c, by |-> 0, version |-> new(c).version]
                          \in Snapshot
    BY <1>2, <1>4, <1>6 DEF Snapshot, a
  <2>2. history' \subseteq Snapshot
    BY <1>1, <2>1, Zenon DEF TypeOK
  <2>3. history \subseteq history'
    BY <1>1
  <2>4. QED
    BY <2>2, <2>3
<1>10. build' \in Build /\ SameBuild
  <2>1. build' = [build EXCEPT !.owed =
            {t \in build.owed : Acct[t] = a => retrain.rows[t] = "clean"}]
    BY DEF RetrainSaves, a
  <2>2. {t \in build.owed : Acct[t] = a => retrain.rows[t] = "clean"} \subseteq build.owed
    OBVIOUS
  <2>3. build \in Build
    BY DEF TypeOK
  <2>4. QED
    BY <2>1, <2>2, <2>3 DEF Build, SameBuild
<1>11. QED
  BY <1>7, <1>8, <1>9, <1>10

LEMMA TypeStep ==
    ASSUME BuildAssumption, TypeOK, InOrder, [Next]_vars
    PROVE  TypeOK'
<1> USE DEF TypeOK, files, store
<1>1. CASE Compute
  BY <1>1, ComputeCases DEF Compute
<1>2. ASSUME Started, build.pc # "idle"
      PROVE  runs' \in [1..MaxRuns -> {"none", "running", "done"}]
  BY <1>2 DEF Started
<1>3. CASE WriteProfiles
  BY <1>2, <1>3, WriteTypes DEF WriteProfiles
<1>4. CASE Touch
  BY <1>2, <1>4, TouchTypes DEF Touch
<1>5. CASE WriteHistory
  <2>1. PICK chunk \in SUBSET build.snap :
            /\ history' = history \cup
                   {[acct |-> a, ccy |-> Default, by |-> build.run,
                     version |-> build.fresh[a].version] : a \in chunk}
            /\ build' = [build EXCEPT !.snap = @ \ chunk]
    BY <1>5 DEF WriteHistory
  <2>2. \A a \in chunk : a \in Accounts /\ build.fresh[a].version \in Nat
    BY DEF Build, Row
  <2>3. build.run \in Nat /\ Default \in Ccys
    BY DEF Build, BuildAssumption
  <2>4. history' \subseteq Snapshot
    BY <2>1, <2>2, <2>3 DEF Snapshot
  <2>5. build' \in Build
    BY <2>1 DEF Build
  <2>6. QED
    BY <1>5, <2>4, <2>5 DEF WriteHistory
<1>6. CASE Finish
  <2>1. PICK prune \in BOOLEAN :
            /\ profile' = [x \in Accounts \X Ccys |->
                   IF prune /\ profile[x].run \notin {0, build.run}
                   THEN NoRow ELSE profile[x]]
            /\ build' = [build EXCEPT !.pc = "peers", !.pruned = prune]
    BY <1>6 DEF Finish
  <2>2. profile' \in [Accounts \X Ccys -> Row]
    BY <2>1, Records
  <2>3. build' \in Build
    BY <2>1 DEF Build
  <2>4. runs' \in [1..MaxRuns -> {"none", "running", "done"}]
    BY <1>6 DEF Finish
  <2>5. QED
    BY <1>6, <2>2, <2>3, <2>4 DEF Finish
<1>7. CASE WritePeers
  <2>1. build.run \in Nat
    BY DEF Build
  <2>2. QED
    BY <1>7, <2>1, Records DEF WritePeers
<1>8. CASE Interrupted
  BY <1>8, Records DEF Interrupted
<1>9. CASE \E a \in Accounts : RetrainReads(a)
  <2>1. PICK a \in Accounts : RetrainReads(a)
    BY <1>9
  <2>2. [NoRetrain EXCEPT !.pc = "fetch", !.acct = a,
                          !.prev = [c \in Ccys |-> profile[<<a, c>>]]] \in Retrain
    BY Records DEF Retrain
  <2>3. QED
    BY <2>1, <2>2 DEF RetrainReads
<1>14. CASE RetrainFetches
  <2>1. PICK rows \in [Txns -> Status] :
            retrain' = IF CleanRows(rows, retrain.acct) = {} THEN NoRetrain
                       ELSE [retrain EXCEPT !.pc = "save", !.rows = rows]
    BY <1>14 DEF RetrainFetches
  <2>2. [retrain EXCEPT !.pc = "save", !.rows = rows] \in Retrain
    BY DEF Retrain
  <2>3. QED
    BY <1>14, <2>1, <2>2, Records DEF RetrainFetches
<1>10. CASE RetrainSaves
  BY <1>10, RetrainCases, Records DEF RetrainSaves
<1>11. CASE Environment
  <2>1. CASE \E t \in Txns : Arrive(t)
    BY <2>1 DEF Arrive, Status
  <2>2. CASE \E t \in Txns : Flag(t)
    BY <2>2 DEF Flag, Change, Status
  <2>3. CASE LeaveWindow
    BY <2>3 DEF LeaveWindow, Change
  <2>4. CASE Extract
    <3>1. Lifetime \in [Accounts -> Nat]
      <4>1. \A a \in Accounts : CleanRows(prod, a) \in SUBSET Txns
        BY DEF CleanRows
      <4>2. QED
        BY <4>1, CountsAreNat DEF Lifetime
    <3>2. [t \in Txns |-> IF t > gone THEN prod[t] ELSE "none"] \in [Txns -> Status]
      BY DEF Status
    <3>3. csv' \in [Txns -> Status]
      BY <2>4, <3>2 DEF Extract
    <3>4. tenure' \in [Accounts -> Nat] \cup {<<>>}
      BY <2>4, <3>1, Zenon DEF Extract
    <3>5. QED
      BY <2>4, <3>3, <3>4, Zenon DEF Extract
  <2>5. CASE Tick
    BY <2>5 DEF Tick, Change
  <2>6. QED
    BY <1>11, <2>1, <2>2, <2>3, <2>4, <2>5 DEF Environment
<1>12. CASE UNCHANGED vars
  BY <1>12 DEF vars
<1>13. QED
  BY <1>1, <1>3, <1>4, <1>5, <1>6, <1>7, <1>8, <1>9, <1>10, <1>11, <1>12, <1>14
     DEF Next, BuildStep

-----------------------------------------------------------------------------
(* What each step does to the rows and their snapshots.                    *)

\* A step that writes no row and takes no snapshot, and leaves the run where it
\* is, in which case its snapshots to come are the same, or ends it.
LEMMA RowsStay ==
    ASSUME SnapshotInv, TypeOK', UNCHANGED <<profile, runs>>, history \subseteq history',
           build' = build \/ build' = NoBuild
    PROVE  SnapshotInv'
<1>1. build' = NoBuild => /\ build'.pc = "idle" /\ build'.upsert = {}
                          /\ build'.snap = {}
  BY DEF NoBuild
<1>2. InOrder'
  BY <1>1 DEF SnapshotInv, InOrder
<1>3. \A x \in Cells : SnapshotOf(x)' = SnapshotOf(x)
  BY DEF SnapshotOf
<1>4. \A x \in Cells : Begun(x)' /\ (build' = build => (Pending(x) => Pending(x)'))
  BY <1>3 DEF SnapshotInv, Begun, Pending
<1>5. QED
  BY <1>1, <1>2, <1>4 DEF SnapshotInv

\* A run that begins has written no row: its number is new.
LEMMA ComputeStep ==
    ASSUME BuildAssumption, SnapshotInv, TypeOK', Compute
    PROVE  SnapshotInv'
<1>1. PICK r \in 1..MaxRuns :
          /\ runs[r] = "none" /\ build' \in Build
          /\ build'.pc = "write" /\ build'.run = r
          /\ build'.upsert = build'.snap
  BY ComputeCases DEF SnapshotInv
<1>2. UNCHANGED <<profile, runs, history>>
  BY DEF Compute, store
<1>3. \A x \in Cells : SnapshotOf(x)' = SnapshotOf(x)
  BY <1>2 DEF SnapshotOf
<1>4. \A x \in Cells : Begun(x)'
  BY <1>2, <1>3 DEF SnapshotInv, Begun
<1>5. \A x \in Cells : profile[x].by # r
  BY <1>1 DEF SnapshotInv, Begun
<1>6. \A x \in Cells : Pending(x)'
  BY <1>1, <1>2, <1>5 DEF Pending
<1>7. QED
  BY <1>1, <1>2, <1>4, <1>6 DEF SnapshotInv, InOrder

\* A row of the chunk awaits its snapshot; no other row changes.
LEMMA WriteStep ==
    ASSUME BuildAssumption, SnapshotInv, TypeOK', WriteProfiles
    PROVE  SnapshotInv'
<1>1. PICK chunk \in SUBSET build.upsert :
          /\ profile' = [x \in Accounts \X Ccys |->
                 IF x[1] \in chunk /\ x[2] = Default
                 THEN [build.fresh[x[1]] EXCEPT !.updated = now,
                           !.run = build.run, !.by = build.run]
                 ELSE profile[x]]
          /\ build' = [build EXCEPT !.upsert = @ \ chunk]
  BY DEF WriteProfiles
<1>2. /\ build.pc = "write" /\ build.run \in 1..MaxRuns /\ history' = history
      /\ runs' = [runs EXCEPT ![build.run] = "running"]
      /\ runs \in [1..MaxRuns -> {"none", "running", "done"}]
  BY DEF WriteProfiles, Started, SnapshotInv, InOrder, TypeOK
<1>3. /\ build'.pc = "write" /\ build'.run = build.run
      /\ build'.upsert = build.upsert \ chunk /\ build'.snap = build.snap
      /\ build'.fresh = build.fresh
  BY <1>1, <1>2 DEF SnapshotInv, TypeOK, Build
<1>4. \A x \in Cells :
          IF x[1] \in chunk /\ x[2] = Default
          THEN /\ profile'[x].by = build.run
               /\ profile'[x].version = build.fresh[x[1]].version
          ELSE profile'[x] = profile[x]
  <2>1. \A a \in Accounts : build.fresh[a] \in Row
    BY DEF SnapshotInv, TypeOK, Build
  <2>2. \A x \in Cells : x[1] \in Accounts
    BY DEF Cells
  <2>3. QED
    BY <1>1, <2>1, <2>2 DEF Cells, Row
<1>5. \A r \in 1..MaxRuns : runs'[r] = IF r = build.run THEN "running" ELSE runs[r]
  BY <1>2
<1>6. ASSUME NEW x \in Cells PROVE Begun(x)' /\ Pending(x)'
  <2>1. Begun(x) /\ Pending(x) /\ chunk \subseteq build.snap
    BY <1>1, <1>2 DEF SnapshotInv, InOrder
  <2>2. CASE x[1] \in chunk /\ x[2] = Default
    BY <1>2, <1>3, <1>4, <1>5, <2>1, <2>2 DEF Begun, Pending
  <2>3. CASE ~(x[1] \in chunk /\ x[2] = Default)
    <3>1. profile'[x] = profile[x] /\ SnapshotOf(x)' = SnapshotOf(x)
      BY <1>4, <2>3 DEF SnapshotOf
    <3>2. QED
      BY <1>2, <1>3, <1>5, <2>1, <3>1 DEF Begun, Pending
  <2>4. QED
    BY <2>2, <2>3
<1>7. InOrder' /\ runs'[build'.run] # "done"
  BY <1>2, <1>3, <1>5 DEF SnapshotInv, InOrder
<1>8. QED
  BY <1>6, <1>7 DEF SnapshotInv

\* A touch leaves the version and the writer of a row.
LEMMA TouchStep ==
    ASSUME BuildAssumption, SnapshotInv, TypeOK', Touch
    PROVE  SnapshotInv'
<1>1. PICK chunk \in SUBSET build.touch :
          /\ profile' = [x \in Accounts \X Ccys |->
                 IF x[1] \in chunk /\ profile[x].version > 0
                 THEN [profile[x] EXCEPT !.run = build.run, !.updated = now]
                 ELSE profile[x]]
          /\ build' = [build EXCEPT !.touch = @ \ chunk]
  BY DEF Touch
<1>2. /\ build.pc = "write" /\ build.run \in 1..MaxRuns /\ history' = history
      /\ runs' = [runs EXCEPT ![build.run] = "running"]
      /\ runs \in [1..MaxRuns -> {"none", "running", "done"}]
  BY DEF Touch, Started, SnapshotInv, InOrder, TypeOK
<1>3. /\ build'.pc = "write" /\ build'.run = build.run
      /\ build'.upsert = build.upsert /\ build'.snap = build.snap
      /\ build'.fresh = build.fresh
  BY <1>1, <1>2 DEF SnapshotInv, TypeOK, Build
<1>4. \A x \in Cells : /\ profile'[x].by = profile[x].by
                       /\ profile'[x].version = profile[x].version
  <2>1. \A x \in Cells : profile[x] \in Row
    BY DEF SnapshotInv, TypeOK, Cells
  <2>2. QED
    BY <1>1, <2>1 DEF Cells, Row
<1>5. \A r \in 1..MaxRuns : runs'[r] = IF r = build.run THEN "running" ELSE runs[r]
  BY <1>2
<1>6. ASSUME NEW x \in Cells PROVE Begun(x)' /\ Pending(x)'
  <2>1. Begun(x) /\ Pending(x) /\ SnapshotOf(x)' = SnapshotOf(x)
    BY <1>2, <1>4 DEF SnapshotInv, SnapshotOf
  <2>2. QED
    BY <1>2, <1>3, <1>4, <1>5, <2>1 DEF Begun, Pending
<1>7. InOrder' /\ runs'[build'.run] # "done"
  BY <1>2, <1>3, <1>5 DEF SnapshotInv, InOrder
<1>8. QED
  BY <1>6, <1>7 DEF SnapshotInv

\* An account leaves the snapshots to come when its row's snapshot is taken.
LEMMA HistoryStep ==
    ASSUME SnapshotInv, TypeOK', WriteHistory
    PROVE  SnapshotInv'
<1>1. PICK chunk \in SUBSET build.snap :
          /\ history' = history \cup
                 {[acct |-> a, ccy |-> Default, by |-> build.run,
                   version |-> build.fresh[a].version] : a \in chunk}
          /\ build' = [build EXCEPT !.snap = @ \ chunk]
  BY DEF WriteHistory
<1>2. UNCHANGED <<profile, runs>> /\ build.upsert = {} /\ build.pc = "write"
  BY DEF WriteHistory
<1>3. /\ build'.pc = "write" /\ build'.run = build.run /\ build'.upsert = build.upsert
      /\ build'.snap = build.snap \ chunk /\ build'.fresh = build.fresh
  BY <1>1, <1>2 DEF SnapshotInv, TypeOK, Build
<1>4. ASSUME NEW x \in Cells PROVE Begun(x)' /\ Pending(x)'
  <2>1. SnapshotOf(x)' = SnapshotOf(x) /\ Begun(x) /\ Pending(x)
    BY <1>2 DEF SnapshotInv, SnapshotOf
  <2>2. Begun(x)'
    BY <1>1, <1>2, <2>1 DEF Begun
  <2>3. ASSUME profile[x].by = build.run, x[1] \in chunk
        PROVE  SnapshotOf(x) \in history'
    <3>1. x[2] = Default /\ profile[x].version = build.fresh[x[1]].version
      BY <2>1, <2>3 DEF Pending
    <3>2. SnapshotOf(x) = [acct |-> x[1], ccy |-> Default, by |-> build.run,
                           version |-> build.fresh[x[1]].version]
      BY <2>3, <3>1 DEF SnapshotOf
    <3>3. QED
      BY <1>1, <2>3, <3>2
  <2>4. Pending(x)'
    BY <1>1, <1>2, <1>3, <2>1, <2>3 DEF Pending
  <2>5. QED
    BY <2>2, <2>4
<1>5. QED
  BY <1>2, <1>3, <1>4 DEF SnapshotInv, InOrder

\* When the run is marked done, no snapshot of it is to come; the prune only
\* removes rows.
LEMMA FinishStep ==
    ASSUME BuildAssumption, SnapshotInv, TypeOK', Finish
    PROVE  SnapshotInv'
<1>1. PICK prune \in BOOLEAN :
          /\ profile' = [x \in Accounts \X Ccys |->
                 IF prune /\ profile[x].run \notin {0, build.run}
                 THEN NoRow ELSE profile[x]]
          /\ build' = [build EXCEPT !.pc = "peers", !.pruned = prune]
  BY DEF Finish
<1>2. /\ build.pc = "write" /\ build.upsert = {} /\ build.snap = {}
      /\ history' = history /\ build.run \in 1..MaxRuns
      /\ runs' = [runs EXCEPT ![build.run] = "done"]
      /\ runs \in [1..MaxRuns -> {"none", "running", "done"}]
  BY DEF Finish, SnapshotInv, InOrder, TypeOK
<1>3. /\ build'.pc = "peers" /\ build'.run = build.run
      /\ build'.upsert = {} /\ build'.snap = {}
  BY <1>1, <1>2 DEF SnapshotInv, TypeOK, Build
<1>4. \A x \in Cells : profile'[x] = profile[x] \/ profile'[x].by = 0
  BY <1>1 DEF Cells, NoRow
<1>5. \A r \in 1..MaxRuns : runs'[r] = IF r = build.run THEN "done" ELSE runs[r]
  BY <1>2
<1>6. ASSUME NEW x \in Cells, profile'[x] = profile[x] PROVE Begun(x)'
  <2>1. Begun(x) /\ Pending(x) /\ SnapshotOf(x)' = SnapshotOf(x)
    BY <1>2, <1>6 DEF SnapshotInv, SnapshotOf
  <2>2. QED
    BY <1>2, <1>5, <1>6, <2>1 DEF Begun, Pending
<1>7. \A x \in Cells : Begun(x)'
  BY <1>4, <1>6 DEF Begun
<1>8. QED
  BY <1>2, <1>3, <1>7 DEF SnapshotInv, InOrder

LEMMA RetrainStep ==
    ASSUME BuildAssumption, SnapshotInv, TypeOK', RetrainSaves
    PROVE  SnapshotInv'
<1>1. /\ \A x \in Cells : profile'[x] = profile[x] \/ profile'[x].by = 0
      /\ history \subseteq history'
  BY RetrainCases DEF SnapshotInv, Cells
<1>2. UNCHANGED runs /\ SameBuild
  BY RetrainCases DEF RetrainSaves, SnapshotInv
<1> USE DEF SameBuild
<1>3. ASSUME NEW x \in Cells, profile'[x] = profile[x]
      PROVE  Begun(x)' /\ (Pending(x) => Pending(x)')
  <2>1. Begun(x) /\ SnapshotOf(x)' = SnapshotOf(x)
    BY <1>3 DEF SnapshotInv, SnapshotOf
  <2>2. QED
    BY <1>1, <1>2, <1>3, <2>1 DEF Begun, Pending
<1>4. build.pc = "write" => build.run # 0
  BY DEF SnapshotInv, InOrder, BuildAssumption
<1>5. \A x \in Cells : Begun(x)'
  BY <1>1, <1>3 DEF Begun
<1>6. build.pc = "write" => \A x \in Cells : Pending(x)'
  BY <1>1, <1>2, <1>3, <1>4 DEF SnapshotInv, Pending
<1>7. QED
  BY <1>2, <1>5, <1>6 DEF SnapshotInv, InOrder

-----------------------------------------------------------------------------
LEMMA SnapshotInit == BuildAssumption /\ Init => SnapshotInv
<1> SUFFICES ASSUME BuildAssumption, Init PROVE SnapshotInv
  OBVIOUS
<1> USE DEF Init
<1>1. TypeOK
  <2>1. \A x \in Accounts \X Ccys : NoRow \in Row
    BY Records
  <2>2. QED
    BY <2>1, Records DEF TypeOK, Status
<1>2. InOrder /\ build.pc = "idle"
  BY DEF InOrder, NoBuild
<1>3. \A x \in Cells : Begun(x)
  BY DEF Begun, Cells, NoRow
<1>4. QED
  BY <1>1, <1>2, <1>3 DEF SnapshotInv

LEMMA SnapshotStep ==
    ASSUME BuildAssumption, SnapshotInv, [Next]_vars
    PROVE  SnapshotInv'
<1>1. TypeOK'
  BY TypeStep DEF SnapshotInv
<1>2. CASE Compute
  BY <1>1, <1>2, ComputeStep
<1>3. CASE WriteProfiles
  BY <1>1, <1>3, WriteStep
<1>4. CASE Touch
  BY <1>1, <1>4, TouchStep
<1>5. CASE WriteHistory
  BY <1>1, <1>5, HistoryStep
<1>6. CASE Finish
  BY <1>1, <1>6, FinishStep
<1>7. CASE WritePeers \/ Interrupted
  BY <1>1, <1>7, RowsStay DEF WritePeers, Interrupted, store
<1>8. CASE (\E a \in Accounts : RetrainReads(a)) \/ RetrainFetches
  BY <1>1, <1>8, RowsStay DEF RetrainReads, RetrainFetches, store
<1>9. CASE RetrainSaves
  BY <1>1, <1>9, RetrainStep
<1>10. CASE Environment
  <2>1. UNCHANGED <<profile, runs, history, build>>
    BY <1>10, Zenon
       DEF Environment, Arrive, Flag, LeaveWindow, Extract, Tick, store
  <2>2. QED
    BY <1>1, <2>1, RowsStay
<1>11. CASE UNCHANGED vars
  BY <1>1, <1>11, RowsStay DEF vars, store
<1>12. QED
  BY <1>2, <1>3, <1>4, <1>5, <1>6, <1>7, <1>8, <1>9, <1>10, <1>11
     DEF Next, BuildStep

LEMMA SnapshotInvariant == Spec => []SnapshotInv
<1>1. SnapshotInv /\ [Next]_vars => SnapshotInv'
  BY BuildAssumption, SnapshotStep
<1>2. QED
  BY BuildAssumption, SnapshotInit, <1>1, PTL DEF Spec

\* Every variable keeps its type, for any accounts, currencies, transactions,
\* runs, retrains and faults.
THEOREM TypeCorrect == Spec => []TypeOK
<1>1. SnapshotInv => TypeOK
  BY DEF SnapshotInv
<1>2. QED
  BY SnapshotInvariant, <1>1, PTL

\* What a run that is marked done has written has its snapshot, wherever it was
\* interrupted before and whatever other runs and retrains wrote since.
THEOREM DoneSnapshotted == Spec => []DoneRunsAreSnapshotted
<1>1. SnapshotInv => DoneRunsAreSnapshotted
  <2> SUFFICES ASSUME SnapshotInv, NEW a \in Accounts, NEW c \in Rows(a),
                      profile[<<a, c>>].by # 0
               PROVE  /\ runs[profile[<<a, c>>].by] # "none"
                      /\ runs[profile[<<a, c>>].by] = "done" =>
                             [acct |-> a, ccy |-> c,
                              version |-> profile[<<a, c>>].version,
                              by |-> profile[<<a, c>>].by] \in history
    BY DEF DoneRunsAreSnapshotted
  <2>1. <<a, c>> \in Cells /\ <<a, c>>[1] = a /\ <<a, c>>[2] = c
    BY DEF Rows, Cells
  <2>2. Begun(<<a, c>>)
    BY <2>1 DEF SnapshotInv
  <2>3. QED
    BY <2>1, <2>2 DEF Begun, SnapshotOf
<1>2. QED
  BY SnapshotInvariant, <1>1, PTL

-----------------------------------------------------------------------------
(* The population.                                                         *)

\* A row is stamped by a run that has begun, and where there is no row there is
\* no stamp.
Stamped ==
    \A x \in Cells :
        /\ profile[x].run # 0 => /\ profile[x].run \in 1..MaxRuns
                                 /\ runs[profile[x].run] # "none"
        /\ profile[x].version = 0 => profile[x].run = 0

\* The run in progress stamps the accounts of its file and no other; each of
\* them it will rewrite, or will touch and has a row, or it has a row with the
\* stamp, which the prune will spare.
HasRow(a, stamps) ==
    \E c \in Ccys : profile[<<a, c>>].version > 0 /\ profile[<<a, c>>].run \in stamps

Covering ==
    /\ \A x \in Cells : profile[x].run = build.run => InBuild(x[1])
    /\ \A a \in build.upsert : InBuild(a) /\ build.fresh[a].version > 0
    /\ \A a \in build.touch : InBuild(a)
    /\ \A a \in Accounts : InBuild(a) =>
           \/ a \in build.upsert
           \/ a \in build.touch /\ \E c \in Ccys : profile[<<a, c>>].version > 0
           \/ HasRow(a, {build.run})

PopulationInv ==
    /\ Stamped
    /\ build.pc = "write" => Covering
    /\ TableIsPopulation

LEMMA ComputePopulation ==
    ASSUME BuildAssumption, SnapshotInv, PopulationInv, Compute
    PROVE  PopulationInv'
<1>1. PICK r \in 1..MaxRuns :
          /\ runs[r] = "none"
          /\ build'.pc = "write" /\ build'.run = r
          /\ Seen(build'.rows) = build'.upsert \cup build'.touch
          /\ \A a \in build'.upsert : build'.fresh[a].version > 0
          /\ \A a \in build'.touch : \E c \in Ccys : profile[<<a, c>>].version > 0
  BY ComputeCases DEF SnapshotInv
<1>2. UNCHANGED <<profile, runs>>
  BY DEF Compute, store
<1>3. \A a : InBuild(a)' <=> a \in build'.upsert \/ a \in build'.touch
  BY <1>1 DEF InBuild, Seen, CleanRows
<1>4. \A x \in Cells : profile[x].run # r
  BY <1>1 DEF PopulationInv, Stamped, BuildAssumption
<1>5. Stamped'
  BY <1>2 DEF PopulationInv, Stamped
<1>6. Covering'
  BY <1>1, <1>2, <1>3, <1>4 DEF Covering
<1>7. QED
  BY <1>1, <1>5, <1>6 DEF PopulationInv, TableIsPopulation, Finished

LEMMA WritePopulation ==
    ASSUME BuildAssumption, SnapshotInv, PopulationInv, WriteProfiles
    PROVE  PopulationInv'
<1>1. PICK chunk \in SUBSET build.upsert :
          /\ profile' = [x \in Accounts \X Ccys |->
                 IF x[1] \in chunk /\ x[2] = Default
                 THEN [build.fresh[x[1]] EXCEPT !.updated = now,
                           !.run = build.run, !.by = build.run]
                 ELSE profile[x]]
          /\ build' = [build EXCEPT !.upsert = @ \ chunk]
  BY DEF WriteProfiles
<1>2. /\ build.pc = "write" /\ build.run \in 1..MaxRuns
      /\ runs' = [runs EXCEPT ![build.run] = "running"]
      /\ runs \in [1..MaxRuns -> {"none", "running", "done"}]
  BY DEF WriteProfiles, Started, SnapshotInv, InOrder, TypeOK
<1>3. /\ build'.pc = "write" /\ build'.run = build.run /\ build'.rows = build.rows
      /\ build'.upsert = build.upsert \ chunk /\ build'.touch = build.touch
      /\ build'.fresh = build.fresh
  BY <1>1, <1>2 DEF SnapshotInv, TypeOK, Build
<1>4. Covering
  BY <1>2 DEF PopulationInv
<1>5. \A x \in Cells :
          IF x[1] \in chunk /\ x[2] = Default
          THEN profile'[x].run = build.run /\ profile'[x].version > 0
          ELSE profile'[x] = profile[x]
  <2>1. \A a \in Accounts : build.fresh[a] \in Row
    BY DEF SnapshotInv, TypeOK, Build
  <2>2. \A x \in Cells : x[1] \in Accounts
    BY DEF Cells
  <2>3. \A a \in chunk : build.fresh[a].version > 0
    BY <1>1, <1>4 DEF Covering
  <2>4. QED
    BY <1>1, <2>1, <2>2, <2>3 DEF Cells, Row
<1>6. \A r \in 1..MaxRuns : runs'[r] = IF r = build.run THEN "running" ELSE runs[r]
  BY <1>2
<1>7. \A a : InBuild(a)' <=> InBuild(a)
  BY <1>3 DEF InBuild, Seen, CleanRows
<1>8. Stamped'
  BY <1>2, <1>5, <1>6 DEF PopulationInv, Stamped
<1>9. Covering'
  <2>1. \A x \in Cells : profile'[x].run = build.run => InBuild(x[1])
    BY <1>1, <1>4, <1>5 DEF Covering
  <2>2. ASSUME NEW a \in Accounts, InBuild(a)
        PROVE  \/ a \in build.upsert \ chunk
               \/ a \in build.touch /\ \E c \in Ccys : profile'[<<a, c>>].version > 0
               \/ \E c \in Ccys : /\ profile'[<<a, c>>].version > 0
                                  /\ profile'[<<a, c>>].run = build.run
    <3>1. CASE a \in chunk
      <4>1. <<a, Default>> \in Cells /\ Default \in Ccys
        BY DEF Cells, BuildAssumption
      <4>2. profile'[<<a, Default>>].run = build.run /\ profile'[<<a, Default>>].version > 0
        BY <1>5, <3>1, <4>1
      <4>3. QED
        BY <4>1, <4>2
    <3>2. CASE a \notin chunk
      <4>1. \A c \in Ccys : profile'[<<a, c>>] = profile[<<a, c>>]
        BY <1>5, <3>2 DEF Cells
      <4>2. QED
        BY <1>4, <2>2, <3>2, <4>1 DEF Covering, HasRow
    <3>3. QED
      BY <3>1, <3>2
  <2>3. QED
    BY <1>3, <1>4, <1>7, <2>1, <2>2 DEF Covering, HasRow
<1>10. QED
  BY <1>3, <1>8, <1>9 DEF PopulationInv, TableIsPopulation, Finished

LEMMA TouchPopulation ==
    ASSUME BuildAssumption, SnapshotInv, PopulationInv, Touch
    PROVE  PopulationInv'
<1>1. PICK chunk \in SUBSET build.touch :
          /\ profile' = [x \in Accounts \X Ccys |->
                 IF x[1] \in chunk /\ profile[x].version > 0
                 THEN [profile[x] EXCEPT !.run = build.run, !.updated = now]
                 ELSE profile[x]]
          /\ build' = [build EXCEPT !.touch = @ \ chunk]
  BY DEF Touch
<1>2. /\ build.pc = "write" /\ build.upsert = {} /\ build.run \in 1..MaxRuns
      /\ runs' = [runs EXCEPT ![build.run] = "running"]
      /\ runs \in [1..MaxRuns -> {"none", "running", "done"}]
  BY DEF Touch, Started, SnapshotInv, InOrder, TypeOK
<1>3. /\ build'.pc = "write" /\ build'.run = build.run /\ build'.rows = build.rows
      /\ build'.upsert = {} /\ build'.touch = build.touch \ chunk
      /\ build'.fresh = build.fresh
  BY <1>1, <1>2 DEF SnapshotInv, TypeOK, Build
<1>4. Covering
  BY <1>2 DEF PopulationInv
<1>5. \A x \in Cells :
          /\ profile'[x].version = profile[x].version
          /\ IF x[1] \in chunk /\ profile[x].version > 0
             THEN profile'[x].run = build.run ELSE profile'[x].run = profile[x].run
          /\ profile[x].version = 0 => ~(profile[x].version > 0)
  <2> TAKE x \in Cells
  <2>1. profile[x] \in Row
    BY DEF SnapshotInv, TypeOK, Cells
  <2>2. CASE x[1] \in chunk /\ profile[x].version > 0
    <3>1. profile'[x] = [profile[x] EXCEPT !.run = build.run, !.updated = now]
      BY <1>1, <2>2, Zenon DEF Cells
    <3>2. QED
      BY <2>1, <2>2, <3>1 DEF Row
  <2>3. CASE ~(x[1] \in chunk /\ profile[x].version > 0)
    <3>1. profile'[x] = profile[x]
      BY <1>1, <2>3, Zenon DEF Cells
    <3>2. QED
      BY <2>1, <2>3, <3>1 DEF Row
  <2>4. QED
    BY <2>2, <2>3
<1>6. \A r \in 1..MaxRuns : runs'[r] = IF r = build.run THEN "running" ELSE runs[r]
  BY <1>2
<1>7. \A a : InBuild(a)' <=> InBuild(a)
  BY <1>3 DEF InBuild, Seen, CleanRows
<1>8. Stamped'
  BY <1>2, <1>5, <1>6 DEF PopulationInv, Stamped
<1>9. Covering'
  <2>1. \A x \in Cells : profile'[x].run = build.run => InBuild(x[1])
    BY <1>1, <1>4, <1>5 DEF Covering
  <2>2. ASSUME NEW a \in Accounts, InBuild(a)
        PROVE  \/ /\ a \in build.touch \ chunk
                  /\ \E c \in Ccys : profile'[<<a, c>>].version > 0
               \/ \E c \in Ccys : /\ profile'[<<a, c>>].version > 0
                                  /\ profile'[<<a, c>>].run = build.run
    <3>1. PICK c \in Ccys :
              /\ profile[<<a, c>>].version > 0
              /\ a \in build.touch \/ profile[<<a, c>>].run = build.run
      BY <1>2, <1>4, <2>2 DEF Covering, HasRow
    <3>2. <<a, c>> \in Cells /\ <<a, c>>[1] = a
      BY DEF Cells
    <3>3. QED
      BY <1>5, <3>1, <3>2
  <2>3. QED
    BY <1>3, <1>4, <1>7, <2>1, <2>2 DEF Covering, HasRow
<1>10. QED
  BY <1>3, <1>8, <1>9 DEF PopulationInv, TableIsPopulation, Finished

\* The prune spares what the run stamped, which all its accounts have, and what
\* only retrains wrote.
LEMMA FinishPopulation ==
    ASSUME BuildAssumption, SnapshotInv, PopulationInv, Finish
    PROVE  PopulationInv'
<1>1. PICK prune \in BOOLEAN :
          /\ profile' = [x \in Accounts \X Ccys |->
                 IF prune /\ profile[x].run \notin {0, build.run}
                 THEN NoRow ELSE profile[x]]
          /\ build' = [build EXCEPT !.pc = "peers", !.pruned = prune]
  BY DEF Finish
<1>2. /\ build.pc = "write" /\ build.upsert = {} /\ build.touch = {}
      /\ build.run \in 1..MaxRuns
      /\ runs' = [runs EXCEPT ![build.run] = "done"]
      /\ runs \in [1..MaxRuns -> {"none", "running", "done"}]
  BY DEF Finish, SnapshotInv, InOrder, TypeOK
<1>3. /\ build'.pc = "peers" /\ build'.run = build.run /\ build'.rows = build.rows
      /\ build'.pruned = prune
  BY <1>1, <1>2 DEF SnapshotInv, TypeOK, Build
<1>4. Covering
  BY <1>2 DEF PopulationInv
<1>5. \A x \in Cells :
          /\ profile[x].run \in {0, build.run} => profile'[x] = profile[x]
          /\ \/ profile'[x] = profile[x]
             \/ profile'[x].run = 0 /\ profile'[x].version = 0
          /\ prune => profile'[x].run \in {0, build.run}
  BY <1>1 DEF Cells, NoRow
<1>6. \A r \in 1..MaxRuns : runs'[r] = IF r = build.run THEN "done" ELSE runs[r]
  BY <1>2
<1>7. \A a : InBuild(a)' <=> InBuild(a)
  BY <1>3 DEF InBuild, Seen, CleanRows
<1>8. Stamped'
  BY <1>2, <1>5, <1>6 DEF PopulationInv, Stamped
<1>9. ASSUME NEW a \in Accounts, InBuild(a)
      PROVE  \E c \in Ccys : profile'[<<a, c>>].version > 0
  <2>1. PICK c \in Ccys : profile[<<a, c>>].version > 0 /\ profile[<<a, c>>].run = build.run
    BY <1>2, <1>4, <1>9 DEF Covering, HasRow
  <2>2. profile'[<<a, c>>] = profile[<<a, c>>]
    BY <1>5, <2>1 DEF Cells
  <2>3. QED
    BY <2>1, <2>2
<1>10. ASSUME NEW a \in Accounts, NEW c \in Ccys, prune, ~InBuild(a)
       PROVE  profile'[<<a, c>>].run = 0
  <2>1. <<a, c>> \in Cells /\ <<a, c>>[1] = a
    BY DEF Cells
  <2>2. profile[<<a, c>>].run # build.run
    BY <1>4, <1>10, <2>1 DEF Covering
  <2>3. QED
    BY <1>2, <1>5, <1>10, <2>1, <2>2
<1>11. TableIsPopulation'
  BY <1>3, <1>7, <1>9, <1>10 DEF TableIsPopulation, Rows
<1>12. QED
  BY <1>3, <1>8, <1>11 DEF PopulationInv

\* A retrain removes no row and stamps none.
LEMMA RetrainPopulation ==
    ASSUME BuildAssumption, SnapshotInv, PopulationInv, RetrainSaves
    PROVE  PopulationInv'
<1>1. \A x \in Cells :
          \/ profile'[x] = profile[x]
          \/ profile'[x].version > 0 /\ profile'[x].run = profile[x].run
  BY RetrainCases DEF SnapshotInv, Cells
<1>2. UNCHANGED runs /\ SameBuild
  BY RetrainCases DEF RetrainSaves, SnapshotInv
<1> USE DEF SameBuild
<1>3. \A a : InBuild(a)' <=> InBuild(a)
  BY <1>2 DEF InBuild, Seen, CleanRows
<1>4. \A x \in Cells : /\ profile'[x].run = profile[x].run
                       /\ profile[x].version > 0 => profile'[x].version > 0
                       /\ profile'[x].version = 0 => profile[x].version = 0
  BY <1>1
<1>5. Stamped'
  BY <1>2, <1>4 DEF PopulationInv, Stamped
<1>6. \A a \in Accounts, c \in Ccys :
          /\ profile'[<<a, c>>].run = profile[<<a, c>>].run
          /\ profile[<<a, c>>].version > 0 => profile'[<<a, c>>].version > 0
  BY <1>4 DEF Cells
<1>7. Covering => Covering'
  BY <1>2, <1>3, <1>4, <1>6 DEF Covering, HasRow
<1>8. TableIsPopulation'
  <2> SUFFICES ASSUME build.pc = "peers", NEW a \in Accounts
               PROVE  /\ InBuild(a) => \E c \in Ccys : profile'[<<a, c>>].version > 0
                      /\ build.pruned /\ ~InBuild(a) =>
                             \A c \in Ccys : profile'[<<a, c>>].run = 0
    BY <1>2, <1>3 DEF TableIsPopulation, Finished, Rows
  <2>1. /\ InBuild(a) => \E c \in Ccys : profile[<<a, c>>].version > 0
        /\ build.pruned /\ ~InBuild(a) =>
               \A c \in Ccys : profile[<<a, c>>].version > 0 => profile[<<a, c>>].run = 0
    BY DEF PopulationInv, TableIsPopulation, Finished, Rows
  <2>2. \A c \in Ccys : profile[<<a, c>>].version \in Nat
    <3>1. \A c \in Ccys : profile[<<a, c>>] \in Row
      BY DEF SnapshotInv, TypeOK
    <3>2. QED
      BY <3>1 DEF Row
  <2>3. \A c \in Ccys : profile[<<a, c>>].version = 0 => profile[<<a, c>>].run = 0
    BY DEF PopulationInv, Stamped, Cells
  <2>4. QED
    BY <1>6, <2>1, <2>2, <2>3
<1>9. QED
  BY <1>2, <1>5, <1>7, <1>8 DEF PopulationInv

\* The end of a run, or a step of something else.
LEMMA StampsStay ==
    ASSUME PopulationInv, UNCHANGED <<profile, runs>>, build' = build \/ build' = NoBuild
    PROVE  PopulationInv'
<1>1. Stamped'
  BY DEF PopulationInv, Stamped
<1>2. CASE build' = build
  <2>1. \A a : InBuild(a)' <=> InBuild(a)
    BY <1>2 DEF InBuild, Seen, CleanRows
  <2>2. Covering => Covering'
    BY <1>2, <2>1 DEF Covering, HasRow
  <2>3. TableIsPopulation'
    BY <1>2, <2>1 DEF PopulationInv, TableIsPopulation, Finished, Rows
  <2>4. QED
    BY <1>1, <1>2, <2>2, <2>3 DEF PopulationInv
<1>3. CASE build' = NoBuild
  <2>1. build'.pc = "idle"
    BY <1>3 DEF NoBuild
  <2>2. QED
    BY <1>1, <2>1 DEF PopulationInv, TableIsPopulation, Finished
<1>4. QED
  BY <1>2, <1>3

LEMMA PopulationStep ==
    ASSUME BuildAssumption, SnapshotInv, PopulationInv, [Next]_vars
    PROVE  PopulationInv'
<1>1. CASE Compute
  BY <1>1, ComputePopulation
<1>2. CASE WriteProfiles
  BY <1>2, WritePopulation
<1>3. CASE Touch
  BY <1>3, TouchPopulation
<1>4. CASE WriteHistory
  <2>1. /\ build.pc = "write" /\ UNCHANGED <<profile, runs>>
        /\ \E chunk : build' = [build EXCEPT !.snap = @ \ chunk]
    BY <1>4 DEF WriteHistory
  <2>2. /\ build'.pc = "write" /\ build'.run = build.run /\ build'.rows = build.rows
        /\ build'.upsert = build.upsert /\ build'.touch = build.touch
        /\ build'.fresh = build.fresh
    BY <2>1 DEF SnapshotInv, TypeOK, Build
  <2>3. \A a : InBuild(a)' <=> InBuild(a)
    BY <2>2 DEF InBuild, Seen, CleanRows
  <2>4. Stamped' /\ Covering'
    BY <2>1, <2>2, <2>3 DEF PopulationInv, Stamped, Covering, HasRow
  <2>5. QED
    BY <2>2, <2>4 DEF PopulationInv, TableIsPopulation, Finished
<1>5. CASE Finish
  BY <1>5, FinishPopulation
<1>6. CASE WritePeers \/ Interrupted
  BY <1>6, StampsStay DEF WritePeers, Interrupted, store
<1>7. CASE (\E a \in Accounts : RetrainReads(a)) \/ RetrainFetches
  BY <1>7, StampsStay DEF RetrainReads, RetrainFetches, store
<1>8. CASE RetrainSaves
  BY <1>8, RetrainPopulation
<1>9. CASE Environment
  <2>1. UNCHANGED <<profile, runs, build>>
    BY <1>9, Zenon
       DEF Environment, Arrive, Flag, LeaveWindow, Extract, Tick, store
  <2>2. QED
    BY <2>1, StampsStay
<1>10. CASE UNCHANGED vars
  BY <1>10, StampsStay DEF vars, store
<1>11. QED
  BY <1>1, <1>2, <1>3, <1>4, <1>5, <1>6, <1>7, <1>8, <1>9, <1>10
     DEF Next, BuildStep

LEMMA PopulationInvariant == Spec => []PopulationInv
<1>1. Init => PopulationInv
  <2> SUFFICES ASSUME Init PROVE PopulationInv
    OBVIOUS
  <2>1. \A x \in Cells : profile[x].run = 0
    BY DEF Init, Cells, NoRow
  <2>2. build.pc = "idle"
    BY DEF Init, NoBuild
  <2>3. QED
    BY <2>1, <2>2 DEF PopulationInv, Stamped, TableIsPopulation, Finished
<1>2. QED
  BY <1>1, BuildAssumption, PopulationStep, SnapshotInvariant, PTL DEF Spec

\* After a run every account of its file has a profile, and with the prune no
\* row is left of another account that a batch ever stamped (build_profiles.py,
\* write_store), whatever retrains saved between its commits.
THEOREM TableCurrent == Spec => []TableIsPopulation
<1>1. PopulationInv => TableIsPopulation
  BY DEF PopulationInv
<1>2. QED
  BY <1>1, PopulationInvariant, PTL

-----------------------------------------------------------------------------
(* What a run leaves behind.                                               *)

\* The prune of this run spares the row.
Spared(a, c) == profile[<<a, c>>].run \in {0, build.run}

\* The row lacks fewer than the minimum of what the run owes.
Close(a, c) == Cardinality(Lacking(a, c)) < MinNew

\* What is so of an account that is skipped, before and after it is touched.
BarelyBehind(a) ==
    /\ \E c \in Ccys : Close(a, c)
    /\ build.pc = "write" /\ a \notin build.touch => \A c \in Ccys : Spared(a, c)

\* The default row lacks nothing of its currency.
Complete(a) == \A t \in Lacking(a, Default) : Ccy[t] # Default

\* What the run owes an account.
Owed(a) == {t \in build.owed : Acct[t] = a}

\* What is so of an account that is rewritten, before and after.
Rewritten(a) ==
    IF a \in build.upsert
    THEN /\ build.pc = "write"
         /\ \A t \in Owed(a) : ~(t > build.fresh[a].seen)
    ELSE Complete(a) /\ (build.pc = "write" => Spared(a, Default))

Behind(a) == IF Skipped(a) THEN BarelyBehind(a) ELSE Rewritten(a)

BehindInv == build.pc # "idle" => \A a \in Accounts : InBuild(a) => Behind(a)

\* A row that a retrain saves has seen all that is owed in its currency then, and
\* one of the account's rows all that is owed.
LEMMA RetrainSees ==
    ASSUME BuildAssumption, TypeOK, RetrainSaves, NEW a \in Accounts
    PROVE  /\ \A c \in Ccys :
                  \/ profile'[<<a, c>>] = profile[<<a, c>>]
                  \/ \A t \in Owed(a)' : Ccy[t] = c => ~(t > profile'[<<a, c>>].seen)
           /\ \/ \A c \in Ccys : profile'[<<a, c>>] = profile[<<a, c>>]
              \/ \E c \in Ccys : \A t \in Owed(a)' : ~(t > profile'[<<a, c>>].seen)
<1> DEFINE clean   == CleanRows(retrain.rows, a)
           live(c) == {t \in CleanRows(retrain.rows, retrain.acct) : Ccy[t] = c}
<1>1. \A c \in Ccys :
          IF a = retrain.acct /\ live(c) # {}
          THEN profile'[<<a, c>>].seen = Last(live(c))
          ELSE profile'[<<a, c>>] = profile[<<a, c>>]
  BY DEF RetrainSaves
<1>2. \A c \in Ccys : live(c) \in SUBSET Txns
  BY DEF CleanRows
<1>3. \A c \in Ccys : \A t \in live(c) : t <= Last(live(c))
  BY <1>2, LastIsNewest
<1>4. CASE a # retrain.acct \/ clean = {}
  <2>1. \A c \in Ccys : a = retrain.acct => live(c) = {}
    BY <1>4
  <2> HIDE DEF live
  <2>2. \A c \in Ccys : profile'[<<a, c>>] = profile[<<a, c>>]
    BY <1>1, <1>4, <2>1
  <2>3. QED
    BY <2>2
<1>5. CASE a = retrain.acct /\ clean # {}
  <2>0. Owed(a)' \subseteq clean
    <3>1. build' = [build EXCEPT !.owed =
              {t \in build.owed : Acct[t] = retrain.acct => retrain.rows[t] = "clean"}]
      BY DEF RetrainSaves
    <3>2. build.owed \subseteq Txns
          /\ build'.owed = {t \in build.owed : Acct[t] = retrain.acct => retrain.rows[t] = "clean"}
      BY <3>1 DEF TypeOK, Build
    <3>3. QED
      BY <1>5, <3>2 DEF Owed, CleanRows
  <2>1. \A c \in Ccys : live(c) = {t \in clean : Ccy[t] = c}
    BY <1>5
  <2>2. clean \in SUBSET Txns
    BY DEF CleanRows
  <2> HIDE DEF clean
  <2>3. PICK newest \in Txns :
            newest \in clean /\ \A t \in clean : t <= newest
    BY <1>5, <2>2, LastIsNewest
  <2> HIDE DEF live
  <2>4. Ccy[newest] \in Ccys
    BY DEF BuildAssumption
  <2>5. newest \in live(Ccy[newest])
    BY <2>1, <2>3, <2>4
  <2>6. live(Ccy[newest]) # {}
    BY <2>5
  <2>7. /\ newest <= profile'[<<a, Ccy[newest]>>].seen
        /\ profile'[<<a, Ccy[newest]>>].seen \in Nat
    BY <1>1, <1>2, <1>3, <1>5, <2>4, <2>5, <2>6, LastIsNewest
  <2>8. \A t \in Txns : t \in Nat
    BY DEF Txns, BuildAssumption
  <2>9. \A t \in clean : ~(t > profile'[<<a, Ccy[newest]>>].seen)
    BY <2>2, <2>3, <2>7, <2>8
  <2>10. ASSUME NEW c \in Ccys
         PROVE  \/ profile'[<<a, c>>] = profile[<<a, c>>]
                \/ \A t \in clean : Ccy[t] = c => ~(t > profile'[<<a, c>>].seen)
    <3>1. CASE live(c) = {}
      BY <1>1, <3>1
    <3>2. CASE live(c) # {}
      <4>1. profile'[<<a, c>>].seen = Last(live(c)) /\ Last(live(c)) \in Nat
        BY <1>1, <1>2, <1>5, <3>2, LastIsNewest
      <4>2. QED
        BY <1>3, <2>1, <2>2, <2>8, <4>1
    <3>3. QED
      BY <3>1, <3>2
  <2>11. QED
    BY <2>0, <2>4, <2>9, <2>10
<1>6. QED
  BY <1>4, <1>5

\* Of a set of transactions, fewer are no more.
LEMMA FewerLack ==
    ASSUME BuildAssumption, NEW more \in SUBSET Txns, NEW fewer \in SUBSET more
    PROVE  Cardinality(more) < MinNew => Cardinality(fewer) < MinNew
<1>1. IsFiniteSet(Txns)
  BY FS_Interval DEF BuildAssumption, Txns
<1>2. IsFiniteSet(more)
  BY <1>1, FS_Subset
<1>3. /\ Cardinality(more) \in Nat /\ Cardinality(fewer) \in Nat
      /\ Cardinality(fewer) <= Cardinality(more) /\ MinNew \in Nat
  BY <1>2, FS_Subset, FS_CardinalityType DEF BuildAssumption
<1>4. QED
  BY <1>3

\* A row that keeps what it has seen is no further behind, as long as the run is
\* the same.
LEMMA SeenKept ==
    ASSUME BuildAssumption, TypeOK, build'.owed \subseteq build.owed,
           NEW a, NEW c, profile'[<<a, c>>].seen = profile[<<a, c>>].seen
    PROVE  /\ Close(a, c) => Close(a, c)'
           /\ c = Default /\ Complete(a) => Complete(a)'
<1>1. Lacking(a, c)' \subseteq Lacking(a, c) /\ Lacking(a, c) \subseteq Txns
  BY DEF Lacking, TypeOK, Build
<1>2. Close(a, c) => Close(a, c)'
  BY <1>1, FewerLack DEF Close
<1>3. QED
  BY <1>1, <1>2 DEF Complete

LEMMA BehindStays ==
    ASSUME BuildAssumption, TypeOK, BehindInv,
           UNCHANGED profile, build' = build \/ build' = NoBuild
    PROVE  BehindInv'
<1>2. CASE build' = NoBuild
  BY <1>2 DEF BehindInv, NoBuild
<1>3. CASE build' = build
  <2> SUFFICES ASSUME NEW a \in Accounts, InBuild(a), Behind(a)
               PROVE  Behind(a)'
    BY <1>3 DEF BehindInv, InBuild, Seen, CleanRows
  <2>1. (Skipped(a) <=> Skipped(a)') /\ \A c : Spared(a, c) <=> Spared(a, c)'
    BY <1>3 DEF Skipped, InBuild, Seen, CleanRows, Spared
  <2>2. \A c : /\ Close(a, c) => Close(a, c)'
               /\ c = Default /\ Complete(a) => Complete(a)'
    BY <1>3, SeenKept
  <2>3. BarelyBehind(a) => BarelyBehind(a)'
    BY <1>3, <2>1, <2>2 DEF BarelyBehind
  <2>4. Rewritten(a) => Rewritten(a)'
    BY <1>3, <2>1, <2>2 DEF Rewritten, Owed
  <2>5. QED
    BY <2>1, <2>3, <2>4 DEF Behind
<1>4. QED
  BY <1>2, <1>3

\* What is skipped was found to lack few; of what is to be rewritten the new row
\* has seen all.
LEMMA ComputeBehind ==
    ASSUME BuildAssumption, TypeOK, Compute
    PROVE  BehindInv'
<1>1. /\ build'.pc = "write" /\ build'.rows = csv
      /\ build'.owed = {t \in Txns : csv[t] = "clean"}
      /\ Seen(build'.rows) = build'.upsert \cup build'.touch
      /\ \A a \in build'.upsert :
             /\ build'.fresh[a].version > 0
             /\ build'.fresh[a].seen = Last(CleanRows(csv, a))
      /\ \A a \in build'.touch :
             /\ a \notin build'.upsert /\ build'.fresh[a].version = 0
             /\ \E c \in Ccys : NewTxns(csv, profile[<<a, c>>], a) < MinNew
  BY ComputeCases
<1>2. UNCHANGED profile
  BY DEF Compute, store
<1>3. ASSUME NEW a \in build'.upsert PROVE Behind(a)'
  <2>1. build'.fresh[a].version # 0
    BY <1>1
  <2>2. CleanRows(csv, a) \in SUBSET Txns
    BY DEF CleanRows
  <2>3. \A t \in CleanRows(csv, a) : ~(t > build'.fresh[a].seen)
    <3>1. /\ build'.fresh[a].seen \in Nat
          /\ \A t \in CleanRows(csv, a) : t <= build'.fresh[a].seen /\ t \in Nat
      BY <1>1, <2>2, LastIsNewest DEF Txns, BuildAssumption
    <3>2. QED
      BY <3>1
  <2>4. Rewritten(a)'
    BY <1>1, <2>3 DEF Rewritten, Owed, CleanRows
  <2>5. QED
    BY <2>1, <2>4 DEF Behind, Skipped
<1>4. ASSUME NEW a \in build'.touch PROVE Behind(a)'
  <2>1. PICK c \in Ccys : NewTxns(csv, profile[<<a, c>>], a) < MinNew
    BY <1>1
  <2>2. Lacking(a, c)' = {t \in CleanRows(csv, a) : t > profile[<<a, c>>].seen}
    BY <1>1, <1>2 DEF Lacking, CleanRows
  <2>4. Close(a, c)'
    BY <2>1, <2>2 DEF Close, NewTxns
  <2>5. BarelyBehind(a)'
    BY <1>1, <2>4 DEF BarelyBehind
  <2>6. Skipped(a)'
    BY <1>1 DEF Skipped, InBuild, Seen, CleanRows
  <2>7. QED
    BY <2>5, <2>6 DEF Behind
<1>5. \A a : InBuild(a)' => a \in build'.upsert \/ a \in build'.touch
  BY <1>1 DEF InBuild, Seen, CleanRows
<1>6. QED
  BY <1>2, <1>3, <1>4, <1>5 DEF BehindInv

\* The rows of a chunk have seen all that the run has read.
LEMMA WriteBehind ==
    ASSUME BuildAssumption, SnapshotInv, PopulationInv, BehindInv,
           WriteProfiles
    PROVE  BehindInv'
<1>1. PICK chunk \in SUBSET build.upsert :
          /\ profile' = [x \in Accounts \X Ccys |->
                 IF x[1] \in chunk /\ x[2] = Default
                 THEN [build.fresh[x[1]] EXCEPT !.updated = now,
                           !.run = build.run, !.by = build.run]
                 ELSE profile[x]]
          /\ build' = [build EXCEPT !.upsert = @ \ chunk]
  BY DEF WriteProfiles
<1>2. TypeOK /\ build.pc = "write"
  BY DEF SnapshotInv, WriteProfiles
<1>3. /\ build'.pc = "write" /\ build'.run = build.run /\ build'.rows = build.rows
      /\ build'.upsert = build.upsert \ chunk /\ build'.touch = build.touch
      /\ build'.fresh = build.fresh /\ build'.owed = build.owed
  BY <1>1, <1>2 DEF TypeOK, Build
<1>4. \A a \in Accounts, c \in Ccys :
          IF a \in chunk /\ c = Default
          THEN /\ profile'[<<a, c>>].run = build.run
               /\ profile'[<<a, c>>].seen = build.fresh[a].seen
          ELSE profile'[<<a, c>>] = profile[<<a, c>>]
  <2>1. \A a \in Accounts : build.fresh[a] \in Row
    BY <1>2 DEF TypeOK, Build
  <2>2. QED
    BY <1>1, <2>1 DEF Row
<1> SUFFICES ASSUME NEW a \in Accounts, InBuild(a), Behind(a)
             PROVE  Behind(a)'
  BY <1>2, <1>3 DEF BehindInv, InBuild, Seen, CleanRows
<1>5. Skipped(a) <=> Skipped(a)'
  BY <1>3 DEF Skipped, InBuild, Seen, CleanRows
<1>6. CASE Skipped(a)
  <2>1. a \notin chunk
    <3>1. SUFFICES ASSUME a \in build.upsert PROVE FALSE
      BY <1>1
    <3>2. build.fresh[a].version > 0
      BY <1>2, <3>1 DEF PopulationInv, Covering
    <3>3. ~(build.fresh[a].version > 0)
      BY <1>6 DEF Skipped
    <3>4. QED
      BY <3>2, <3>3
  <2>2. \A c \in Ccys : profile'[<<a, c>>] = profile[<<a, c>>]
    BY <1>4, <2>1
  <2>3. \A c \in Ccys : Close(a, c) => Close(a, c)'
    BY <1>2, <1>3, <2>2, SeenKept
  <2>4. \A c \in Ccys : Spared(a, c) => Spared(a, c)'
    BY <1>3, <2>2 DEF Spared
  <2>5. BarelyBehind(a)'
    BY <1>2, <1>3, <1>6, <2>3, <2>4 DEF Behind, BarelyBehind
  <2>6. QED
    BY <1>5, <1>6, <2>5 DEF Behind
<1>7. CASE ~Skipped(a)
  <2>1. Default \in Ccys
    BY DEF BuildAssumption
  <2>2. CASE a \in chunk
    <3>1. /\ profile'[<<a, Default>>].run = build.run
          /\ profile'[<<a, Default>>].seen = build.fresh[a].seen
      BY <1>4, <2>1, <2>2
    <3>2. \A t \in Owed(a) : ~(t > build.fresh[a].seen)
      BY <1>1, <1>7, <2>2 DEF Behind, Rewritten
    <3>3. Lacking(a, Default)' = {}
      BY <1>3, <3>1, <3>2 DEF Lacking, Owed
    <3>4. Complete(a)' /\ Spared(a, Default)'
      BY <1>3, <3>1, <3>3 DEF Complete, Spared
    <3>5. QED
      BY <1>1, <1>3, <1>5, <1>7, <2>2, <3>4 DEF Behind, Rewritten
  <2>3. CASE a \notin chunk
    <3>1. profile'[<<a, Default>>] = profile[<<a, Default>>]
      BY <1>4, <2>1, <2>3
    <3>2. Complete(a) => Complete(a)'
      BY <1>2, <1>3, <3>1, SeenKept
    <3>3. Spared(a, Default) => Spared(a, Default)'
      BY <1>3, <3>1 DEF Spared
    <3>4. Rewritten(a)'
      BY <1>2, <1>3, <1>7, <2>3, <3>2, <3>3 DEF Behind, Rewritten, Owed
    <3>5. QED
      BY <1>5, <1>7, <3>4 DEF Behind
  <2>4. QED
    BY <2>2, <2>3
<1>8. QED
  BY <1>6, <1>7

\* A touch stamps the rows there are: none of the account is pruned then.
LEMMA TouchBehind ==
    ASSUME BuildAssumption, SnapshotInv, PopulationInv, BehindInv, Touch
    PROVE  BehindInv'
<1>1. PICK chunk \in SUBSET build.touch :
          /\ profile' = [x \in Accounts \X Ccys |->
                 IF x[1] \in chunk /\ profile[x].version > 0
                 THEN [profile[x] EXCEPT !.run = build.run, !.updated = now]
                 ELSE profile[x]]
          /\ build' = [build EXCEPT !.touch = @ \ chunk]
  BY DEF Touch
<1>2. TypeOK /\ build.pc = "write" /\ build.upsert = {} /\ Default \in Ccys
  BY DEF SnapshotInv, Touch, BuildAssumption
<1>3. /\ build'.pc = "write" /\ build'.run = build.run /\ build'.rows = build.rows
      /\ build'.upsert = {} /\ build'.touch = build.touch \ chunk
      /\ build'.fresh = build.fresh /\ build'.owed = build.owed
  BY <1>1, <1>2 DEF TypeOK, Build
<1> SUFFICES ASSUME NEW a \in Accounts, InBuild(a), Behind(a)
             PROVE  Behind(a)'
  BY <1>2, <1>3 DEF BehindInv, InBuild, Seen, CleanRows
<1>4. ASSUME NEW c \in Ccys
      PROVE  /\ profile'[<<a, c>>].seen = profile[<<a, c>>].seen
             /\ a \in chunk \/ Spared(a, c) => Spared(a, c)'
  <2>1. profile[<<a, c>>] \in Row
    BY <1>2 DEF TypeOK
  <2>2. CASE a \in chunk /\ profile[<<a, c>>].version > 0
    <3>1. profile'[<<a, c>>] = [profile[<<a, c>>] EXCEPT !.run = build.run, !.updated = now]
      BY <1>1, <2>2
    <3>2. QED
      BY <1>3, <2>1, <3>1 DEF Row, Spared
  <2>3. CASE ~(a \in chunk /\ profile[<<a, c>>].version > 0)
    <3>1. profile'[<<a, c>>] = profile[<<a, c>>]
      BY <1>1, <2>3
    <3>2. a \in chunk => profile[<<a, c>>].version = 0
      BY <2>1, <2>3 DEF Row
    <3>3. profile[<<a, c>>].version = 0 => profile[<<a, c>>].run = 0
      BY DEF PopulationInv, Stamped, Cells
    <3>4. QED
      BY <1>3, <3>1, <3>2, <3>3 DEF Spared
  <2>4. QED
    BY <2>2, <2>3
<1>5. Skipped(a) <=> Skipped(a)'
  BY <1>3 DEF Skipped, InBuild, Seen, CleanRows
<1>6. \A c \in Ccys : /\ Close(a, c) => Close(a, c)'
                      /\ c = Default /\ Complete(a) => Complete(a)'
  BY <1>2, <1>3, <1>4, SeenKept
<1>7. BarelyBehind(a) => BarelyBehind(a)'
  BY <1>2, <1>3, <1>4, <1>6 DEF BarelyBehind
<1>8. Rewritten(a) => Rewritten(a)'
  BY <1>2, <1>3, <1>4, <1>6 DEF Rewritten
<1>9. QED
  BY <1>5, <1>7, <1>8 DEF Behind

\* When the prune comes, all is written and touched.
LEMMA FinishBehind ==
    ASSUME BuildAssumption, SnapshotInv, BehindInv, Finish
    PROVE  BehindInv'
<1>1. PICK prune \in BOOLEAN :
          /\ profile' = [x \in Accounts \X Ccys |->
                 IF prune /\ profile[x].run \notin {0, build.run}
                 THEN NoRow ELSE profile[x]]
          /\ build' = [build EXCEPT !.pc = "peers", !.pruned = prune]
  BY DEF Finish
<1>2. /\ TypeOK /\ Default \in Ccys
      /\ build.pc = "write" /\ build.upsert = {} /\ build.touch = {}
  BY DEF SnapshotInv, Finish, BuildAssumption
<1>3. /\ build'.pc = "peers" /\ build'.run = build.run /\ build'.rows = build.rows
      /\ build'.upsert = {} /\ build'.fresh = build.fresh /\ build'.owed = build.owed
  BY <1>1, <1>2 DEF TypeOK, Build
<1> SUFFICES ASSUME NEW a \in Accounts, InBuild(a), Behind(a)
             PROVE  Behind(a)'
  BY <1>2, <1>3 DEF BehindInv, InBuild, Seen, CleanRows
<1>4. \A c \in Ccys : Spared(a, c) => profile'[<<a, c>>] = profile[<<a, c>>]
  BY <1>1 DEF Spared
<1>5. Skipped(a) <=> Skipped(a)'
  BY <1>3 DEF Skipped, InBuild, Seen, CleanRows
<1>6. \A c \in Ccys : Spared(a, c) =>
          /\ Close(a, c) => Close(a, c)'
          /\ c = Default /\ Complete(a) => Complete(a)'
  BY <1>2, <1>3, <1>4, SeenKept
<1>7. BarelyBehind(a) => BarelyBehind(a)'
  BY <1>2, <1>3, <1>6 DEF BarelyBehind
<1>8. Rewritten(a) => Rewritten(a)'
  BY <1>2, <1>3, <1>6 DEF Rewritten
<1>9. QED
  BY <1>5, <1>7, <1>8 DEF Behind

\* A retrain has seen what is owed still, of the currencies whose rows it writes.
LEMMA RetrainBehind ==
    ASSUME BuildAssumption, SnapshotInv, BehindInv, RetrainSaves
    PROVE  BehindInv'
<1>1. TypeOK /\ SameBuild /\ Default \in Ccys
  BY RetrainCases DEF SnapshotInv, BuildAssumption
<1> USE DEF SameBuild
<1> SUFFICES ASSUME NEW a \in Accounts, InBuild(a), Behind(a)
             PROVE  Behind(a)'
  BY <1>1 DEF BehindInv, InBuild, Seen, CleanRows
<1>2. Skipped(a) <=> Skipped(a)'
  BY <1>1 DEF Skipped, InBuild, Seen, CleanRows
<1>3. \A c \in Ccys : Spared(a, c) => Spared(a, c)'
  <2>1. \A c \in Ccys : profile'[<<a, c>>].run = profile[<<a, c>>].run
    BY <1>1, RetrainCases
  <2>2. QED
    BY <1>1, <2>1 DEF Spared
<1>5. (\E c \in Ccys : Close(a, c)) => \E c \in Ccys : Close(a, c)'
  <2> SUFFICES ASSUME NEW c \in Ccys, Close(a, c) PROVE \E d \in Ccys : Close(a, d)'
    OBVIOUS
  <2>1. CASE \A d \in Ccys : profile'[<<a, d>>] = profile[<<a, d>>]
    BY <1>1, <2>1, SeenKept
  <2>2. ASSUME NEW d \in Ccys, \A t \in Owed(a)' : ~(t > profile'[<<a, d>>].seen)
        PROVE  Close(a, d)'
    <3>1. Lacking(a, d)' = {} /\ Lacking(a, c) \subseteq Txns
      BY <1>1, <2>2 DEF Owed, Lacking, TypeOK, Build
    <3>2. QED
      BY <3>1, FewerLack DEF Close
  <2>3. QED
    BY <1>1, <2>1, <2>2, RetrainSees
<1>6. Complete(a) => Complete(a)'
  <2>1. CASE profile'[<<a, Default>>] = profile[<<a, Default>>]
    BY <1>1, <2>1, SeenKept
  <2>2. CASE \A t \in Owed(a)' : Ccy[t] = Default => ~(t > profile'[<<a, Default>>].seen)
    BY <2>2 DEF Complete, Lacking, Owed
  <2>3. QED
    BY <1>1, <2>1, <2>2, RetrainSees
<1>7. BarelyBehind(a) => BarelyBehind(a)'
  BY <1>1, <1>3, <1>5 DEF BarelyBehind
<1>8. Rewritten(a) => Rewritten(a)'
  BY <1>1, <1>3, <1>6 DEF Rewritten, Owed
<1>9. QED
  BY <1>2, <1>7, <1>8 DEF Behind

LEMMA BehindStep ==
    ASSUME BuildAssumption, SnapshotInv, PopulationInv, BehindInv, [Next]_vars
    PROVE  BehindInv'
<1>0. TypeOK
  BY DEF SnapshotInv
<1>1. CASE Compute
  BY <1>0, <1>1, ComputeBehind
<1>2. CASE WriteProfiles
  BY <1>2, WriteBehind
<1>3. CASE Touch
  BY <1>3, TouchBehind
<1>4. CASE WriteHistory
  <2>1. UNCHANGED profile /\ \E chunk : build' = [build EXCEPT !.snap = @ \ chunk]
    BY <1>4 DEF WriteHistory
  <2>2. /\ build'.pc = build.pc /\ build'.run = build.run /\ build'.rows = build.rows
        /\ build'.upsert = build.upsert /\ build'.touch = build.touch
        /\ build'.fresh = build.fresh /\ build'.owed = build.owed
    BY <1>0, <2>1 DEF TypeOK, Build
  <2> SUFFICES ASSUME NEW a \in Accounts, InBuild(a), Behind(a), build.pc # "idle"
               PROVE  Behind(a)'
    BY <2>2 DEF BehindInv, InBuild, Seen, CleanRows
  <2>4. (Skipped(a) <=> Skipped(a)') /\ \A c : Spared(a, c) <=> Spared(a, c)'
    BY <2>1, <2>2 DEF Skipped, InBuild, Seen, CleanRows, Spared
  <2>5. \A c : /\ Close(a, c) => Close(a, c)'
               /\ c = Default /\ Complete(a) => Complete(a)'
    BY <1>0, <2>1, <2>2, SeenKept
  <2>6. BarelyBehind(a) => BarelyBehind(a)'
    BY <2>2, <2>4, <2>5 DEF BarelyBehind
  <2>7. Rewritten(a) => Rewritten(a)'
    BY <2>2, <2>4, <2>5 DEF Rewritten, Owed
  <2>8. QED
    BY <2>4, <2>6, <2>7 DEF Behind
<1>5. CASE Finish
  BY <1>5, FinishBehind
<1>6. CASE RetrainSaves
  BY <1>6, RetrainBehind
<1>7. CASE ~(Compute \/ WriteProfiles \/ Touch \/ WriteHistory \/ Finish \/ RetrainSaves)
  <2>1. UNCHANGED profile /\ (build' = NoBuild \/ build' = build)
    BY <1>7, Zenon DEF Next, BuildStep, WritePeers, Interrupted, RetrainReads, RetrainFetches,
       Environment, Arrive, Flag, LeaveWindow, Extract, Tick, vars, store
  <2>2. QED
    BY <1>0, <2>1, BehindStays
<1>8. QED
  BY <1>1, <1>2, <1>3, <1>4, <1>5, <1>6, <1>7

\* No account that a run skips is left far behind its file, and the default row of
\* none that it rewrites is (build_profiles.py, the decision of build and
\* write_store), but for what a retrain that saved meanwhile had not found in the
\* cache, for any number of currencies, retrains and runs.
THEOREM NoneFarBehind == Spec => []SkippedBarelyChanged
<1>1. Init => BehindInv
  BY DEF Init, BehindInv, NoBuild
<1>2. BehindInv => SkippedBarelyChanged
  <2> SUFFICES ASSUME BehindInv, Finished, NEW a \in Accounts, InBuild(a)
               PROVE  IF Skipped(a)
                      THEN \E c \in Ccys : Close(a, c)
                      ELSE Complete(a)
    BY DEF SkippedBarelyChanged, Complete, Close
  <2>1. Behind(a)
    BY DEF BehindInv, Finished
  <2>2. QED
    BY <2>1 DEF Behind, BarelyBehind, Rewritten, Finished
<1>3. QED
  BY <1>1, <1>2, BuildAssumption, BehindStep, SnapshotInvariant, PopulationInvariant,
     PTL DEF Spec
=============================================================================
