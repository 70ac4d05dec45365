------------------------- MODULE ModelServing_proofs -------------------------
(***************************************************************************)
(* The registry and the serving of its models, for any number of training  *)
(* runs, rollbacks, workers and versions and any scores: whatever jobs     *)
(* overlap or die, only models that passed the gate are served, and jobs   *)
(* made one after another keep the index sound and never push a worse      *)
(* model.                                                                  *)
(***************************************************************************)
EXTENDS ModelServing, TLAPS

-----------------------------------------------------------------------------
(* The inductive invariant.                                                *)

\* A job that is under way is about a version.
Known == \A j \in Jobs : job[j].pc # "idle" => job[j].v \in Versions

\* A version that the index, or a job's copy of it, names as active or as the
\* one before passed the gate; so did one about to be promoted, and one that a
\* worker serves or loads.
Good == passed \cup {0}

PassedGate ==
    /\ index.active \in Good /\ index.previous \in Good
    /\ \A j \in Jobs :
           /\ job[j].idx.active \in Good /\ job[j].idx.previous \in Good
           /\ job[j].cur \in Good
           /\ job[j].op = "promote" => job[j].v \in passed
    /\ \A w \in Workers : loading[w] \subseteq passed /\ cache[w] \in Good

\* A worker that has dropped its model since has, and loads, the active one only.
UpToDate ==
    \A w \in Workers : current[w] =>
        loading[w] \subseteq {index.active} /\ cache[w] \in {0, index.active}

\* The index names its active and its previous model as it marks them.
Sound(idx) ==
    /\ \A v \in Versions : idx.models[v] = "active" <=> v = idx.active
    /\ idx.previous # 0 => /\ idx.previous # idx.active
                           /\ idx.models[idx.previous] = "previous"

NoWorse(new, old) == IF new.auc # 0 THEN new.auc >= old.auc ELSE new.f1 >= old.f1
Score(v) == IF v = 0 THEN None ELSE made[v]

\* What a job that runs alone knows of the index, by the operation it is in.
Knows(j) ==
    /\ j.pc \in {"open", "write"} => j.idx = index
    /\ j.pc = "gate" => j.op = "register"
    /\ j.op = "register" => ~j.rollback
    /\ j.op = "register" => j.v <= trained /\
           index.models[j.v] = IF j.pc = "gate" THEN "candidate" ELSE "absent"
    /\ j.op = "promote" /\ ~j.rollback =>
           index.models[j.v] = "candidate" /\ NoWorse(made[j.v], Score(index.active))
    /\ j.op = "promote" /\ j.rollback =>
           index.models[j.v] = "previous" /\ j.v = index.previous /\ j.cur = index.active
    /\ j.op = "repair" => j.cur = index.previous

\* As long as no two jobs have been under way at once.
InTurn ==
    ~overlapped =>
        /\ \A j, k \in Jobs : job[j].pc # "idle" /\ job[k].pc # "idle" => j = k
        /\ Sound(index)
        /\ \A v \in Versions : v > trained => index.models[v] = "absent"
        /\ \A j \in Jobs : job[j].pc # "idle" => Knows(job[j])
        /\ whole <=> ~torn /\ \A j \in Jobs : job[j].pc # "write"
        /\ torn => \A j \in Jobs : job[j].pc \in {"idle", "load"}

ServingInv == TypeOK /\ Known /\ PassedGate /\ UpToDate /\ InTurn

-----------------------------------------------------------------------------
(* Types.                                                                  *)

LEMMA Records == NoIndex \in Index /\ NoJob \in Job /\ None \in Manifest
<1> USE RegistryAssumption DEF RegistryAssumption, Versions
<1>1. NoIndex \in Index /\ None \in Manifest
  BY DEF NoIndex, Index, ModelStatus, None, Manifest
<1>2. QED
  BY <1>1 DEF NoJob, Job

\* What a change leaves is an index.
LEMMA ChangedIsIndex ==
    ASSUME NEW j \in Job
    PROVE  Changed(j) \in Index
<1> USE RegistryAssumption DEF RegistryAssumption, Versions
<1>1. j.idx \in Index /\ j.v \in 0..MaxVersions /\ j.cur \in 0..MaxVersions
      /\ j.op \in {"register", "promote", "repair"}
  BY DEF Job
<1>2. CASE j.op = "register"
  BY <1>1, <1>2 DEF Changed, Registered, Index, ModelStatus
<1>3. CASE j.op = "promote"
  BY <1>1, <1>3 DEF Changed, Promoted, Index, ModelStatus
<1>4. CASE j.op = "repair"
  BY <1>1, <1>4 DEF Changed, Index
<1>5. QED
  BY <1>1, <1>2, <1>3, <1>4

\* What a job is after a save.
LEMMA AfterSaveIsJob ==
    ASSUME NEW j \in Job
    PROVE  AfterSave(j) \in Job
<1>1. CASE j.op = "register"
  BY <1>1, Records DEF AfterSave, Job
<1>2. CASE j.op = "promote" /\ j.rollback
  BY <1>2, Records DEF AfterSave, Job
<1>3. CASE ~(j.op = "register") /\ ~(j.op = "promote" /\ j.rollback)
  BY <1>3, Records DEF AfterSave
<1>4. QED
  BY <1>1, <1>2, <1>3

\* It is about the same version, if it is not over.
LEMMA SavedJob ==
    ASSUME NEW j \in Job
    PROVE  LET k == AfterSave(j)
           IN  \/ k = NoJob
               \/ /\ k.v = j.v /\ k.cur = j.cur /\ k.idx = NoIndex
                  /\ k.rollback = j.rollback
                  /\ \/ j.op = "register" /\ k.op = "register" /\ k.pc = "gate"
                     \/ j.op = "promote" /\ j.rollback /\ k.op = "repair" /\ k.pc = "load"
<1>1. CASE j.op = "register"
  BY <1>1 DEF AfterSave, Job
<1>2. CASE j.op = "promote" /\ j.rollback
  BY <1>2 DEF AfterSave, Job
<1>3. CASE ~(j.op = "register") /\ ~(j.op = "promote" /\ j.rollback)
  BY <1>3 DEF AfterSave
<1>4. QED
  BY <1>1, <1>2, <1>3

\* The gate opens or the training run is over.
LEMMA GateCases ==
    ASSUME NEW j \in Jobs, Gate(j), job \in [Jobs -> Job]
    PROVE  /\ job[j].pc = "gate"
           /\ \/ /\ GateOpen(job[j].v, index.active)
                 /\ passed' = passed \cup {job[j].v}
                 /\ job'[j] = [job[j] EXCEPT !.pc = "load", !.op = "promote"]
              \/ passed' = passed /\ job'[j] = NoJob
<1>1. PICK promote \in BOOLEAN :
          IF promote /\ whole /\ GateOpen(job[j].v, index.active)
          THEN /\ passed' = passed \cup {job[j].v}
               /\ Becomes(j, [job[j] EXCEPT !.pc = "load", !.op = "promote"])
          ELSE passed' = passed /\ Becomes(j, NoJob)
  BY DEF Gate
<1>2. CASE promote /\ whole /\ GateOpen(job[j].v, index.active)
  BY <1>1, <1>2 DEF Gate, Becomes
<1>3. CASE ~(promote /\ whole /\ GateOpen(job[j].v, index.active))
  BY <1>1, <1>3 DEF Gate, Becomes
<1>4. QED
  BY <1>2, <1>3

LEMMA RegistryTypes ==
    ASSUME RegistryTypeOK, Known, NEW j \in Jobs, RegistryStep(j)
    PROVE  RegistryTypeOK'
<1> USE RegistryAssumption DEF RegistryAssumption, Becomes, Idle
<1>0. job[j] \in Job
  BY DEF RegistryTypeOK
<1>1. CASE Train(j)
  <2>1. trained + 1 \in Versions /\ trained' \in 0..MaxVersions
    BY <1>1 DEF Train, RegistryTypeOK, Versions
  <2>2. made' \in [Versions -> Manifest]
    BY <1>1, <2>1 DEF Train, RegistryTypeOK, Manifest
  <2>3. [NoJob EXCEPT !.pc = "load", !.v = trained + 1] \in Job
    <3>1. trained + 1 \in 0..MaxVersions
      BY <2>1 DEF RegistryTypeOK, Versions
    <3>2. QED
      BY <3>1, Records DEF Job
  <2>4. QED
    BY <1>1, <2>1, <2>2, <2>3 DEF Train, RegistryTypeOK
<1>2. CASE Rollback(j)
  <2>1. index.previous \in 0..MaxVersions /\ index.active \in 0..MaxVersions
    BY DEF RegistryTypeOK, Index
  <2>2. [NoJob EXCEPT !.pc = "load", !.op = "promote", !.rollback = TRUE,
                      !.v = index.previous, !.cur = index.active] \in Job
    BY <2>1, Records DEF Job
  <2>3. QED
    BY <1>2, <2>2 DEF Rollback, RegistryTypeOK
<1>3. CASE Load(j)
  <2>1. [job[j] EXCEPT !.pc = "open", !.idx = index] \in Job
    BY <1>0 DEF RegistryTypeOK, Job
  <2>2. QED
    BY <1>3, <2>1, Records DEF Load, RegistryTypeOK
<1>4. CASE Open(j)
  <2>1. [job[j] EXCEPT !.pc = "write"] \in Job
    BY <1>0 DEF Job
  <2>2. QED
    BY <1>4, <2>1 DEF Open, RegistryTypeOK
<1>5. CASE Write(j)
  BY <1>0, <1>5, ChangedIsIndex, AfterSaveIsJob DEF Write, RegistryTypeOK
<1>6. CASE Gate(j)
  <2>1. [job[j] EXCEPT !.pc = "load", !.op = "promote"] \in Job
    BY <1>0 DEF Job
  <2>2. job[j].v \in Versions
    BY <1>6 DEF Gate, Known
  <2>3. QED
    BY <1>6, <2>1, <2>2, Records DEF Gate, RegistryTypeOK
<1>7. CASE JobDies(j)
  BY <1>7, Records DEF JobDies, RegistryTypeOK
<1>8. QED
  BY <1>1, <1>2, <1>3, <1>4, <1>5, <1>6, <1>7 DEF RegistryStep

-----------------------------------------------------------------------------
(* What a job's step does to the others, and to the jobs.                  *)

LEMMA OneJobSteps ==
    ASSUME RegistryTypeOK, NEW j \in Jobs, RegistryStep(j)
    PROVE  \A k \in Jobs \ {j} : job'[k] = job[k]
BY DEF RegistryTypeOK, Becomes, RegistryStep, Train, Rollback, Load, Open, Write, Gate,
       JobDies

LEMMA KnownStep ==
    ASSUME RegistryTypeOK, Known, NEW j \in Jobs, RegistryStep(j)
    PROVE  Known'
<1> USE RegistryAssumption DEF RegistryAssumption, Becomes, Idle
<1>0. job[j] \in Job /\ job \in [Jobs -> Job]
  BY DEF RegistryTypeOK
<1>1. \A k \in Jobs \ {j} : job'[k] = job[k]
  BY OneJobSteps
<1>2. job'[j].pc # "idle" => job'[j].v \in Versions
  <2>1. CASE Train(j)
    <3>1. trained + 1 \in Versions
      BY <2>1 DEF Train, RegistryTypeOK, Versions
    <3>2. job'[j].v = trained + 1
      BY <1>0, <2>1 DEF Train, NoJob
    <3>3. QED
      BY <3>1, <3>2
  <2>2. CASE Rollback(j)
    <3>1. index.previous \in Versions
      BY <2>2 DEF Rollback, RegistryTypeOK, Index, Versions
    <3>2. job'[j].v = index.previous
      BY <1>0, <2>2 DEF Rollback, NoJob
    <3>3. QED
      BY <3>1, <3>2
  <2>3. CASE Load(j)
    BY <1>0, <2>3 DEF Load, Job, NoJob, Known
  <2>4. CASE Open(j)
    BY <1>0, <2>4 DEF Open, Job, Known
  <2>5. CASE Write(j)
    <3>1. job'[j] = AfterSave(job[j]) /\ job[j].v \in Versions
      BY <1>0, <2>5 DEF Write, Known
    <3>2. QED
      BY <1>0, <3>1, SavedJob DEF NoJob
  <2>6. CASE Gate(j)
    <3>1. job[j].v \in Versions
      BY <2>6 DEF Gate, Known
    <3>2. job'[j].v = job[j].v \/ job'[j] = NoJob
      BY <1>0, <2>6, GateCases DEF Job
    <3>3. QED
      BY <3>1, <3>2 DEF NoJob
  <2>7. CASE JobDies(j)
    BY <1>0, <2>7 DEF JobDies, NoJob
  <2>8. QED
    BY <2>1, <2>2, <2>3, <2>4, <2>5, <2>6, <2>7 DEF RegistryStep
<1>3. QED
  BY <1>1, <1>2 DEF Known

-----------------------------------------------------------------------------
(* The gate.                                                               *)

\* A change of the index brings no version in that has not passed.
LEMMA ChangedPassed ==
    ASSUME TypeOK, PassedGate, NEW j \in Jobs
    PROVE  Changed(job[j]).active \in Good /\ Changed(job[j]).previous \in Good
<1> USE DEF PassedGate, Good
<1>1. job[j].op \in {"register", "promote", "repair"} /\ job[j].idx \in Index
  BY DEF TypeOK, RegistryTypeOK, Job
<1>2. CASE job[j].op = "register"
  BY <1>1, <1>2 DEF Changed, Registered, Index
<1>3. CASE job[j].op = "promote"
  BY <1>1, <1>3 DEF Changed, Promoted
<1>4. CASE job[j].op = "repair"
  BY <1>1, <1>4 DEF Changed, Index
<1>5. QED
  BY <1>1, <1>2, <1>3, <1>4

LEMMA PassedStep ==
    ASSUME TypeOK, Known, PassedGate, NEW j \in Jobs, JobStep(j)
    PROVE  PassedGate'
<1> USE DEF JobStep, Becomes, Idle
<1>0. job[j] \in Job /\ job \in [Jobs -> Job]
  BY DEF TypeOK, RegistryTypeOK
<1>1. passed \subseteq passed' /\ UNCHANGED <<cache, loading>>
  BY DEF RegistryStep, Train, Rollback, Load, Open, Write, Gate, JobDies
<1>2. index'.active \in Good /\ index'.previous \in Good
  <2>1. CASE Write(j)
    BY <2>1, ChangedPassed DEF Write
  <2>2. CASE ~Write(j)
    <3>1. index' = index
      BY <2>2 DEF RegistryStep, Train, Rollback, Load, Open, Gate, JobDies
    <3>2. QED
      BY <3>1 DEF PassedGate
  <2>3. QED
    BY <2>1, <2>2
<1>3. /\ job'[j].idx.active \in Good /\ job'[j].idx.previous \in Good
      /\ job'[j].cur \in Good
      /\ job'[j].op = "promote" => job'[j].v \in passed'
  <2> USE DEF PassedGate, Good
  <2>0. /\ NoJob.idx.active = 0 /\ NoJob.idx.previous = 0 /\ NoJob.cur = 0
        /\ NoJob.op = "register" /\ NoIndex.active = 0 /\ NoIndex.previous = 0
    BY DEF NoJob, NoIndex
  <2>1. CASE Train(j)
    BY <1>0, <2>1, <2>0, Records DEF Train, Job
  <2>2. CASE Rollback(j)
    BY <1>0, <2>2, <2>0, Records DEF Rollback, Job
  <2>3. CASE Load(j)
    BY <1>0, <2>3, <2>0 DEF Load, Job
  <2>4. CASE Open(j)
    BY <1>0, <2>4 DEF Open, Job
  <2>5. CASE Write(j)
    <3>1. job'[j] = AfterSave(job[j])
      BY <1>0, <2>5 DEF Write
    <3>2. QED
      BY <1>0, <3>1, <2>0, SavedJob
  <2>6. CASE Gate(j)
    BY <1>0, <2>6, <2>0, GateCases DEF Job
  <2>7. CASE JobDies(j)
    BY <1>0, <2>7, <2>0 DEF JobDies
  <2>8. QED
    BY <2>1, <2>2, <2>3, <2>4, <2>5, <2>6, <2>7 DEF RegistryStep
<1>4. \A k \in Jobs \ {j} : job'[k] = job[k]
  BY OneJobSteps DEF TypeOK
<1>5. QED
  BY <1>1, <1>2, <1>3, <1>4 DEF PassedGate, Good

-----------------------------------------------------------------------------
(* The workers.                                                            *)

\* A job's step either leaves the active model or makes no worker up to date.
LEMMA JobKeepsUpToDate ==
    ASSUME TypeOK, UpToDate, NEW j \in Jobs, JobStep(j)
    PROVE  UpToDate'
BY DEF UpToDate, JobStep

\* A worker's step keeps all there is.
LEMMA WorkerStep ==
    ASSUME TypeOK, PassedGate, UpToDate, NEW w \in Workers,
           BeginLoad(w) \/ EndLoad(w) \/ Reload(w) \/ Restart(w)
    PROVE  /\ TypeOK' /\ PassedGate' /\ UpToDate'
           /\ UNCHANGED registryVars
<1> USE RegistryAssumption DEF RegistryAssumption
<1>1. UNCHANGED registryVars
  BY DEF BeginLoad, EndLoad, Reload, Restart
<1>2. UNCHANGED <<index, whole, trained, made, job, faults, torn, passed, overlapped>>
  BY <1>1 DEF registryVars
<1>3. RegistryTypeOK'
  BY <1>2 DEF TypeOK, RegistryTypeOK
<1>4. Loadable \subseteq Versions /\ Loadable \subseteq passed /\ Loadable \subseteq {index.active}
  BY DEF Loadable, TypeOK, RegistryTypeOK, Index, PassedGate, Good, Versions
<1>5. Versions \subseteq 0..MaxVersions
  BY DEF Versions
<1>6. CASE BeginLoad(w)
  <2>1. TypeOK'
    BY <1>3, <1>4, <1>6 DEF BeginLoad, TypeOK
  <2>2. PassedGate' /\ UpToDate'
    BY <1>2, <1>4, <1>6 DEF BeginLoad, TypeOK, PassedGate, UpToDate, Good
  <2>3. QED
    BY <1>1, <2>1, <2>2
<1>7. CASE EndLoad(w)
  <2>1. PICK v \in loading[w] :
           /\ loading' = [loading EXCEPT ![w] = @ \ {v}]
           /\ \/ cache' = [cache EXCEPT ![w] = IF @ = 0 THEN v ELSE @]
              \/ cache' = cache
    BY <1>7 DEF EndLoad
  <2>2. UNCHANGED current /\ v \in Versions
    BY <1>7 DEF EndLoad, TypeOK
  <2>3. TypeOK'
    BY <1>3, <1>5, <2>1, <2>2 DEF TypeOK
  <2>4. PassedGate' /\ UpToDate'
    BY <1>2, <2>1, <2>2 DEF TypeOK, PassedGate, UpToDate, Good
  <2>5. QED
    BY <1>1, <2>3, <2>4
<1>8. CASE Reload(w)
  <2>1. TypeOK'
    BY <1>3, <1>4, <1>8 DEF Reload, TypeOK
  <2>2. PassedGate' /\ UpToDate'
    BY <1>2, <1>4, <1>8 DEF Reload, TypeOK, PassedGate, UpToDate, Good
  <2>3. QED
    BY <1>1, <2>1, <2>2
<1>9. CASE Restart(w)
  <2>1. TypeOK'
    BY <1>3, <1>4, <1>9 DEF Restart, TypeOK
  <2>2. PassedGate' /\ UpToDate'
    BY <1>2, <1>4, <1>9 DEF Restart, TypeOK, PassedGate, UpToDate, Good
  <2>3. QED
    BY <1>1, <2>1, <2>2
<1>10. QED
  BY <1>6, <1>7, <1>8, <1>9

-----------------------------------------------------------------------------
(* Jobs in turn.                                                           *)

\* What a change does to a sound index, by the operation.
LEMMA RegisterSound ==
    ASSUME NEW idx \in Index, Sound(idx), NEW v \in Versions, idx.models[v] = "absent"
    PROVE  LET new == Registered(idx, v)
           IN  /\ Sound(new) /\ new.active = idx.active /\ new.previous = idx.previous
               /\ new.models[v] = "candidate"
               /\ \A u \in Versions \ {v} : new.models[u] = idx.models[u]
BY RegistryAssumption DEF RegistryAssumption, Sound, Registered, Index, ModelStatus, Versions

LEMMA PromoteSound ==
    ASSUME NEW idx \in Index, Sound(idx), NEW v \in Versions,
           idx.models[v] \in {"candidate", "previous"}
    PROVE  LET new == Promoted(idx, v)
           IN  /\ Sound(new) /\ new.active = v /\ new.previous = idx.active
               /\ \A u \in Versions : new.models[u] = "absent" <=> idx.models[u] = "absent"
<1> USE RegistryAssumption DEF RegistryAssumption, Sound, Index, Versions
<1> DEFINE new == Promoted(idx, v)
<1>1. new.active = v /\ new.previous = idx.active
  BY DEF Promoted
<1>2. \A u \in Versions : new.models[u] =
          IF idx.models[u] = "absent" THEN "absent"
          ELSE IF u = v THEN "active"
          ELSE IF u = idx.active THEN "previous" ELSE idx.models[u]
  BY DEF Promoted
<1>3. \A u \in Versions : new.models[u] = "active" <=> u = v
  BY <1>2
<1>4. idx.active # 0 => idx.active # v /\ new.models[idx.active] = "previous"
  BY <1>2
<1>5. \A u \in Versions : new.models[u] = "absent" <=> idx.models[u] = "absent"
  BY <1>2
<1>6. QED
  BY <1>1, <1>3, <1>4, <1>5

\* What replaces the active model, but for the one to go back to, is no worse.
NotWorse ==
    index'.active # index.active =>
        \/ index'.active = index.previous
        \/ NoWorse(made[index'.active], Score(index.active))

\* What a job that runs alone finds, does and knows after its step.
Turn(j) ==
    /\ Sound(index)'
    /\ (\A v \in Versions : v > trained => index.models[v] = "absent")'
    /\ (job[j].pc # "idle" => Knows(job[j]))'
    /\ NotWorse

\* The file, while one job runs alone, is lost if and only if a job died writing.
Readable(j) ==
    /\ whole <=> ~torn /\ job[j].pc # "write"
    /\ torn => job[j].pc \in {"idle", "load"}

LEMMA ReadableInTurn ==
    ASSUME TypeOK, NEW j \in Jobs, Readable(j), RegistryStep(j)
    PROVE  Readable(j)'
<1>1. /\ job[j] \in Job /\ job \in [Jobs -> Job] /\ whole \in BOOLEAN /\ torn \in BOOLEAN
  BY DEF TypeOK, RegistryTypeOK
<1> USE DEF Readable, Becomes, Idle
<1>2. CASE Train(j)
  BY <1>1, <1>2 DEF Train, NoJob
<1>3. CASE Rollback(j)
  BY <1>1, <1>3 DEF Rollback, NoJob
<1>4. CASE Load(j)
  <2>1. job'[j].pc \in {"open", "idle"} /\ (job'[j].pc = "open" => whole)
    BY <1>1, <1>4 DEF Load, NoJob, Job
  <2>2. QED
    BY <1>1, <1>4, <2>1 DEF Load
<1>5. CASE Open(j)
  <2>1. job'[j].pc = "write" /\ ~whole' /\ torn' = torn /\ job[j].pc = "open"
    BY <1>1, <1>5 DEF Open, Job
  <2>2. QED
    BY <1>1, <2>1
<1>6. CASE Write(j)
  <2>1. /\ ~whole /\ ~torn /\ job[j].pc = "write" /\ torn' = torn
        /\ job'[j] = AfterSave(job[j])
    BY <1>1, <1>6 DEF Write
  <2>2. whole' = TRUE
    BY <1>6, <2>1 DEF Write
  <2>3. job'[j].pc # "write"
    <3>1. LET k == AfterSave(job[j])
          IN  k = NoJob \/ k.pc = "gate" \/ k.pc = "load"
      BY <1>1, SavedJob
    <3>2. QED
      BY <2>1, <3>1 DEF NoJob
  <2>4. QED
    BY <2>1, <2>2, <2>3
<1>7. CASE Gate(j)
  <2>1. job[j].pc = "gate" /\ whole' = whole /\ torn' = torn
    BY <1>7 DEF Gate
  <2>2. \/ job'[j] = [job[j] EXCEPT !.pc = "load", !.op = "promote"]
        \/ job'[j] = NoJob
    BY <1>1, <1>7, GateCases
  <2>3. job'[j].pc \in {"load", "idle"}
    <3>1. [job[j] EXCEPT !.pc = "load", !.op = "promote"].pc = "load"
      BY <1>1 DEF Job
    <3>2. NoJob.pc = "idle"
      BY DEF NoJob
    <3>3. QED
      BY <2>2, <3>1, <3>2
  <2>4. QED
    BY <1>1, <2>1, <2>3
<1>8. CASE JobDies(j)
  BY <1>1, <1>8 DEF JobDies, NoJob
<1>9. QED
  BY <1>2, <1>3, <1>4, <1>5, <1>6, <1>7, <1>8 DEF RegistryStep

\* Every operation's save, which is where the index changes.
LEMMA SaveInTurn ==
    ASSUME TypeOK, Known, InTurn, ~overlapped, NEW j \in Jobs, Write(j)
    PROVE  Turn(j)
<1> USE RegistryAssumption DEF RegistryAssumption
<1>1. /\ job[j] \in Job /\ job[j].v \in Versions /\ job[j].idx = index /\ index \in Index
      /\ Sound(index) /\ Knows(job[j]) /\ job[j].pc = "write"
      /\ \A v \in Versions : v > trained => index.models[v] = "absent"
  BY DEF TypeOK, RegistryTypeOK, Known, InTurn, Write, Knows
<1>2. /\ index' = Changed(job[j]) /\ job'[j] = AfterSave(job[j])
      /\ UNCHANGED <<trained, made>>
  BY DEF Write, Becomes, TypeOK, RegistryTypeOK
<1>3. trained \in Nat
  BY DEF TypeOK, RegistryTypeOK
<1> DEFINE v == job[j].v
<1>4. CASE job[j].op = "register"
  <2>1. v <= trained /\ index.models[v] = "absent"
    BY <1>1, <1>4 DEF Knows
  <2>2. index' = Registered(index, v)
    BY <1>1, <1>2, <1>4 DEF Changed
  <2>3. /\ Sound(index') /\ index'.active = index.active /\ index'.models[v] = "candidate"
        /\ \A u \in Versions \ {v} : index'.models[u] = index.models[u]
    BY <1>1, <2>1, <2>2, RegisterSound
  <2>4. \A u \in Versions : u > trained' => index'.models[u] = "absent"
    BY <1>1, <1>2, <1>3, <2>1, <2>3 DEF Versions
  <2>5. job'[j] = [job[j] EXCEPT !.pc = "gate", !.idx = NoIndex]
    BY <1>2, <1>4 DEF AfterSave
  <2>6. /\ job'[j].pc = "gate" /\ job'[j].op = "register" /\ job'[j].v = v
        /\ ~job'[j].rollback
    BY <1>1, <1>4, <2>5 DEF Job, Knows
  <2>7. Knows(job[j])'
    BY <1>2, <2>1, <2>3, <2>6 DEF Knows
  <2>8. QED
    BY <2>3, <2>4, <2>7 DEF Turn, NotWorse, Sound
<1>5. CASE job[j].op = "promote"
  <2>1. index.models[v] \in {"candidate", "previous"}
    BY <1>1, <1>5 DEF Knows, Job
  <2>2. index' = Promoted(index, v)
    BY <1>1, <1>2, <1>5 DEF Changed
  <2>3. /\ Sound(index') /\ index'.active = v /\ index'.previous = index.active
        /\ \A u \in Versions : index'.models[u] = "absent" <=> index.models[u] = "absent"
    BY <1>1, <2>1, <2>2, PromoteSound
  <2>4. \A u \in Versions : u > trained' => index'.models[u] = "absent"
    BY <1>1, <1>2, <2>3
  <2>5. NotWorse
    BY <1>1, <1>5, <2>3 DEF NotWorse, Knows, Job
  <2>6. CASE job[j].rollback
    <3>1. job'[j] = [job[j] EXCEPT !.pc = "load", !.op = "repair", !.idx = NoIndex]
      BY <1>2, <1>5, <2>6 DEF AfterSave
    <3>2. job'[j].pc = "load" /\ job'[j].op = "repair" /\ job'[j].cur = job[j].cur
      BY <1>1, <3>1 DEF Job
    <3>3. job[j].cur = index.active
      BY <1>1, <1>5, <2>6 DEF Knows
    <3>4. Knows(job[j])'
      BY <2>3, <3>2, <3>3 DEF Knows
    <3>5. QED
      BY <2>3, <2>4, <2>5, <3>4 DEF Turn, Sound
  <2>7. CASE ~job[j].rollback
    <3>1. job'[j].pc = "idle"
      BY <1>2, <1>5, <2>7 DEF AfterSave, NoJob
    <3>2. QED
      BY <2>3, <2>4, <2>5, <3>1 DEF Turn, Sound
  <2>8. QED
    BY <2>6, <2>7
<1>6. CASE job[j].op = "repair"
  <2>1. index' = [index EXCEPT !.previous = job[j].cur] /\ job[j].cur = index.previous
    BY <1>1, <1>2, <1>6 DEF Changed, Knows
  <2>2. index' = index
    BY <1>1, <2>1 DEF Index
  <2>3. job'[j].pc = "idle"
    BY <1>2, <1>6 DEF AfterSave, NoJob
  <2>4. QED
    BY <1>1, <1>2, <2>2, <2>3 DEF Turn, Sound, NotWorse
<1>7. QED
  BY <1>1, <1>4, <1>5, <1>6 DEF Job

\* The other steps, which leave the index.
LEMMA StepInTurn ==
    ASSUME TypeOK, Known, InTurn, ~overlapped, NEW j \in Jobs, RegistryStep(j)
    PROVE  Turn(j)
<1> USE RegistryAssumption DEF RegistryAssumption
<1>1. /\ job[j] \in Job /\ job \in [Jobs -> Job] /\ index \in Index /\ trained \in Nat
      /\ Sound(index) /\ (job[j].pc # "idle" => Knows(job[j]))
      /\ \A v \in Versions : v > trained => index.models[v] = "absent"
  BY DEF TypeOK, RegistryTypeOK, InTurn
<1>2. CASE Write(j)
  BY <1>2, SaveInTurn
<1>3. ASSUME UNCHANGED <<index, trained, made>>, (job[j].pc # "idle" => Knows(job[j]))'
      PROVE  Turn(j)
  BY <1>1, <1>3 DEF Turn, Sound, NotWorse
<1>4. CASE Train(j)
  <2>1. /\ trained' = trained + 1 /\ index' = index /\ trained + 1 \in Versions
        /\ job'[j] = [NoJob EXCEPT !.pc = "load", !.v = trained + 1]
    BY <1>1, <1>4 DEF Train, Becomes, Versions
  <2>2. /\ job'[j].pc = "load" /\ job'[j].op = "register" /\ job'[j].v = trained + 1
        /\ ~job'[j].rollback
    BY <2>1 DEF NoJob
  <2>3. index.models[trained + 1] = "absent"
    BY <1>1, <2>1
  <2>4. Knows(job[j])'
    BY <1>1, <2>1, <2>2, <2>3 DEF Knows
  <2>5. \A v \in Versions : v > trained' => index'.models[v] = "absent"
    BY <1>1, <2>1 DEF Versions
  <2>6. QED
    BY <1>1, <2>1, <2>4, <2>5 DEF Turn, Sound, NotWorse
<1>5. CASE Rollback(j)
  <2>1. /\ UNCHANGED <<index, trained, made>> /\ index.previous # 0
        /\ job'[j] = [NoJob EXCEPT !.pc = "load", !.op = "promote", !.rollback = TRUE,
                                    !.v = index.previous, !.cur = index.active]
    BY <1>1, <1>5 DEF Rollback, Becomes
  <2>2. /\ job'[j].pc = "load" /\ job'[j].op = "promote" /\ job'[j].rollback
        /\ job'[j].v = index.previous /\ job'[j].cur = index.active
    BY <2>1 DEF NoJob
  <2>3. Knows(job[j])'
    BY <1>1, <2>1, <2>2 DEF Knows, Sound
  <2>4. QED
    BY <1>3, <2>1, <2>3
<1>6. CASE Load(j)
  <2>1. UNCHANGED <<index, trained, made>> /\ job[j].pc = "load"
    BY <1>6 DEF Load
  <2>2. CASE whole
    <3>1. job'[j] = [job[j] EXCEPT !.pc = "open", !.idx = index]
      BY <1>1, <1>6, <2>2 DEF Load, Becomes
    <3>2. /\ job'[j].pc = "open" /\ job'[j].idx = index
          /\ job'[j].op = job[j].op /\ job'[j].v = job[j].v /\ job'[j].cur = job[j].cur
          /\ job'[j].rollback = job[j].rollback
      BY <1>1, <3>1 DEF Job
    <3>3. Knows(job[j])'
      BY <1>1, <2>1, <3>2 DEF Knows, Score
    <3>4. QED
      BY <1>3, <2>1, <3>3
  <2>3. CASE ~whole
    <3>1. job'[j].pc = "idle"
      BY <1>1, <1>6, <2>3 DEF Load, Becomes, NoJob
    <3>2. QED
      BY <1>3, <2>1, <3>1
  <2>4. QED
    BY <2>2, <2>3
<1>7. CASE Open(j)
  <2>1. /\ UNCHANGED <<index, trained, made>> /\ job[j].pc = "open"
        /\ job'[j] = [job[j] EXCEPT !.pc = "write"]
    BY <1>1, <1>7 DEF Open, Becomes
  <2>2. /\ job'[j].pc = "write" /\ job'[j].idx = job[j].idx
        /\ job'[j].op = job[j].op /\ job'[j].v = job[j].v /\ job'[j].cur = job[j].cur
        /\ job'[j].rollback = job[j].rollback
    BY <1>1, <2>1 DEF Job
  <2>3. Knows(job[j])'
    BY <1>1, <2>1, <2>2 DEF Knows, Score
  <2>4. QED
    BY <1>3, <2>1, <2>3
<1>8. CASE Gate(j)
  <2>1. UNCHANGED <<index, trained, made>> /\ job[j].pc = "gate" /\ job[j].v \in Versions
    BY <1>8 DEF Gate, Known
  <2>2. CASE job'[j] = NoJob
    BY <1>3, <2>1, <2>2 DEF NoJob
  <2>3. CASE /\ GateOpen(job[j].v, index.active)
             /\ job'[j] = [job[j] EXCEPT !.pc = "load", !.op = "promote"]
    <3>1. /\ job'[j].pc = "load" /\ job'[j].op = "promote" /\ job'[j].v = job[j].v
          /\ job'[j].rollback = job[j].rollback
      BY <1>1, <2>3 DEF Job
    <3>2. job[j].op = "register" /\ ~job[j].rollback
      BY <1>1, <2>1 DEF Knows
    <3>3. index.models[job[j].v] = "candidate"
      BY <1>1, <2>1, <3>2 DEF Knows
    <3>4. index.active # 0 => index.models[index.active] # "absent"
      BY <1>1 DEF Sound, Index, Versions
    <3>5. NoWorse(made[job[j].v], Score(index.active))
      BY <2>3, <3>4 DEF GateOpen, NoWorse, Score
    <3>6. Knows(job[j])'
      BY <2>1, <3>1, <3>2, <3>3, <3>5 DEF Knows, Score
    <3>7. QED
      BY <1>3, <2>1, <3>6
  <2>4. QED
    BY <1>1, <1>8, <2>2, <2>3, GateCases
<1>9. CASE JobDies(j)
  <2>1. UNCHANGED <<index, trained, made>> /\ job'[j].pc = "idle"
    BY <1>1, <1>9 DEF JobDies, Becomes, NoJob
  <2>2. QED
    BY <1>3, <2>1
<1>10. QED
  BY <1>2, <1>4, <1>5, <1>6, <1>7, <1>8, <1>9 DEF RegistryStep

\* Jobs that have been made in turn still are after the step of one.
LEMMA InTurnStep ==
    ASSUME TypeOK, Known, InTurn, NEW j \in Jobs, RegistryStep(j)
    PROVE  InTurn' /\ (~overlapped' => NotWorse)
<1> SUFFICES ASSUME ~overlapped'
             PROVE  InTurn' /\ NotWorse
  BY DEF InTurn
<1>1. ~overlapped
  BY DEF RegistryStep, Train, Rollback, Load, Open, Write, Gate, JobDies
<1>2. \A k \in Jobs \ {j} : job[k].pc = "idle"
  <2>1. CASE Idle(j)
    BY <2>1 DEF RegistryStep, Train, Rollback, Load, Open, Write, Gate, JobDies, Idle, Alone
  <2>2. CASE ~Idle(j)
    BY <1>1, <2>2 DEF InTurn, Idle
  <2>3. QED
    BY <2>1, <2>2
<1>3. \A k \in Jobs \ {j} : job'[k].pc = "idle"
  BY <1>2, OneJobSteps DEF TypeOK
<1>4. Turn(j)
  BY <1>1, StepInTurn
<1>5. Readable(j)'
  <2>1. Readable(j)
    BY <1>1, <1>2 DEF InTurn, Readable
  <2>2. QED
    BY <2>1, ReadableInTurn
<1>6. QED
  BY <1>3, <1>4, <1>5 DEF Turn, InTurn, Readable

-----------------------------------------------------------------------------
(* The invariant, and the theorems.                                        *)

LEMMA ServingInit == Init => ServingInv
<1> SUFFICES ASSUME Init PROVE ServingInv
  OBVIOUS
<1> USE RegistryAssumption DEF RegistryAssumption, Init, RegistryInit
<1>1. TypeOK
  <2>1. made \in [Versions -> Manifest] /\ job \in [Jobs -> Job] /\ index \in Index
    BY Records
  <2>2. trained \in 0..MaxVersions /\ faults \in Nat
    OBVIOUS
  <2>3. passed \subseteq Versions
    OBVIOUS
  <2>4. whole \in BOOLEAN /\ overlapped \in BOOLEAN
    OBVIOUS
  <2>5. cache \in [Workers -> 0..MaxVersions] /\ loading \in [Workers -> SUBSET Versions]
        /\ current \in [Workers -> BOOLEAN]
    OBVIOUS
  <2>6. QED
    BY <2>1, <2>2, <2>3, <2>4, <2>5 DEF TypeOK, RegistryTypeOK
<1>2. Known
  BY DEF Known, NoJob
<1>3. PassedGate /\ UpToDate
  BY DEF PassedGate, UpToDate, Good, NoJob, NoIndex
<1>4. InTurn
  BY DEF InTurn, Sound, NoJob, NoIndex, Versions
<1>5. QED
  BY <1>1, <1>2, <1>3, <1>4 DEF ServingInv

LEMMA ServingStep == ServingInv /\ [Next]_vars => ServingInv'
<1> SUFFICES ASSUME ServingInv, [Next]_vars PROVE ServingInv'
  OBVIOUS
<1> USE DEF ServingInv
<1>1. ASSUME NEW j \in Jobs, JobStep(j) PROVE ServingInv'
  <2>1. RegistryStep(j)
    BY <1>1 DEF JobStep
  <2>2. TypeOK'
    <3>1. RegistryTypeOK'
      BY <2>1, RegistryTypes DEF TypeOK
    <3>2. QED
      BY <1>1, <3>1 DEF JobStep, TypeOK
  <2>3. Known'
    BY <2>1, KnownStep DEF TypeOK
  <2>4. PassedGate' /\ UpToDate'
    BY <1>1, PassedStep, JobKeepsUpToDate
  <2>5. InTurn'
    BY <2>1, InTurnStep
  <2>6. QED
    BY <2>2, <2>3, <2>4, <2>5
<1>2. ASSUME NEW w \in Workers, BeginLoad(w) \/ EndLoad(w) \/ Reload(w) \/ Restart(w)
      PROVE  ServingInv'
  <2>1. TypeOK' /\ PassedGate' /\ UpToDate' /\ UNCHANGED registryVars
    BY <1>2, WorkerStep
  <2>2. Known' /\ InTurn'
    BY <2>1 DEF registryVars, Known, InTurn, Sound, Knows, Score
  <2>3. QED
    BY <2>1, <2>2
<1>3. CASE UNCHANGED vars
  BY <1>3 DEF vars, registryVars, TypeOK, RegistryTypeOK, Known, PassedGate, Good, UpToDate,
              InTurn, Sound, Knows, Score
<1>4. QED
  BY <1>1, <1>2, <1>3 DEF Next

THEOREM ServingInvariant == Spec => []ServingInv
<1>1. QED
  BY ServingInit, ServingStep, PTL DEF Spec

\* Every variable of the registry and of the workers keeps its type.
THEOREM TypeCorrect == Spec => []TypeOK
<1>1. ServingInv => TypeOK
  BY DEF ServingInv
<1>2. QED
  BY <1>1, ServingInvariant, PTL

\* While training runs and rollbacks are made one after another, the index is lost
\* exactly if one of them dies between the truncation and the write of a save; at
\* any other step they die in, it can be read and names its models as it marks them.
THEOREM SoundIndex == Spec => []IndexIsSound
<1>1. ServingInv => IndexIsSound
  BY DEF ServingInv, InTurn, Sound, IndexIsSound
<1>2. QED
  BY <1>1, ServingInvariant, PTL

\* No worker ever serves a model that did not pass the promotion gate, for any
\* number of overlapping, dying training runs and rollbacks.
THEOREM OnlyPassedServed == Spec => []ServedPassedGate
<1>1. ServingInv => ServedPassedGate
  BY DEF ServingInv, PassedGate, Good, ServedPassedGate
<1>2. QED
  BY <1>1, ServingInvariant, PTL

\* A worker that was told, or started, since the active model changed serves it,
\* and compares it with another one.
THEOREM ReloadWorks == Spec => []ReloadTakesEffect
<1>1. ServingInv => ReloadTakesEffect
  <2> SUFFICES ASSUME ServingInv, NEW w \in Workers, current[w], cache[w] # 0
               PROVE  /\ cache[w] = index.active
                      /\ ~overlapped => Compared(w)[1] # Compared(w)[2]
    BY DEF ReloadTakesEffect
  <2>1. cache[w] = index.active
    BY DEF ServingInv, UpToDate
  <2>2. ~overlapped => index.previous # index.active
    BY <2>1 DEF ServingInv, InTurn, Sound
  <2>3. QED
    BY <2>1, <2>2 DEF Compared
<1>2. QED
  BY <1>1, ServingInvariant, PTL

\* "So the service can never be pushed a worse model" (README.md:469): while no
\* two jobs are under way at once, only a rollback makes a model active whose
\* score is worse than that of the one it replaces.
THEOREM NeverWorse == Spec => NeverPushedWorse
<1>1. ServingInv /\ [Next]_vars =>
          [index'.active # index.active /\ ~overlapped' =>
              \/ index'.active = index.previous
              \/ LET new == made[index'.active]
                     old == IF index.active = 0 THEN None ELSE made[index.active]
                 IN  IF new.auc # 0 THEN new.auc >= old.auc ELSE new.f1 >= old.f1
          ]_registryVars
  <2> SUFFICES ASSUME ServingInv, [Next]_vars, index'.active # index.active, ~overlapped'
               PROVE  NotWorse
    BY DEF NotWorse, NoWorse, Score
  <2>1. PICK j \in Jobs : JobStep(j)
    <3>1. ASSUME NEW w \in Workers, BeginLoad(w) \/ EndLoad(w) \/ Reload(w) \/ Restart(w)
          PROVE  FALSE
      BY <3>1 DEF BeginLoad, EndLoad, Reload, Restart, registryVars
    <3>2. QED
      BY <3>1 DEF Next, vars, registryVars
  <2>2. QED
    BY <2>1, InTurnStep DEF ServingInv, JobStep
<1>2. QED
  BY <1>1, ServingInvariant, PTL DEF Spec, NeverPushedWorse
=============================================================================
