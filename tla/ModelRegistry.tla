---------------------------- MODULE ModelRegistry ----------------------------
(***************************************************************************)
(* The model registry (ml/registry.py): one JSON index of the trained      *)
(* models, changed by training runs with their promotion gate              *)
(* (ml/train.py) and by rollbacks an operator makes.  Every change loads   *)
(* the file, and later truncates and writes it, without a lock.            *)
(*                                                                         *)
(* A version is a number in order of training, 0 is none.  Of a manifest   *)
(* the model keeps the two scores the gate compares.                       *)
(***************************************************************************)
EXTENDS Naturals, FiniteSets

CONSTANTS
    Jobs,          \* the processes that change the registry, by rollbacks
    Trainers,      \* those of them that train
    MaxVersions,   \* bound of the model: training runs
    Scores,        \* what a training run may score: synthetic_auc (0 none), f1
    MaxFaults      \* bound of the model: jobs that die

Versions == 1..MaxVersions

ASSUME RegistryAssumption ==
    /\ MaxVersions \in Nat /\ MaxFaults \in Nat
    /\ Trainers \subseteq Jobs
    /\ Scores \subseteq [auc: Nat, f1: Nat]

VARIABLES
    index,         \* artifacts/registry/index.json, what was last written to it
    whole,         \* whether it can be read
    trained,       \* how many training runs there have been
    made,          \* their manifests
    job,           \* the jobs
    faults,
    torn,          \* ghost: a job has died between the truncation and the write
    passed,        \* ghost: the versions that passed the gate
    overlapped     \* ghost: two jobs have been under way at once

registryVars ==
    <<index, whole, trained, made, job, faults, torn, passed, overlapped>>

-----------------------------------------------------------------------------
ModelStatus == {"absent", "candidate", "active", "previous"}
Index    == [models: [Versions -> ModelStatus], active: 0..MaxVersions,
             previous: 0..MaxVersions]
Manifest == [auc: Nat, f1: Nat]
Job      == [pc: {"idle", "load", "open", "write", "gate"},
             op: {"register", "promote", "repair"}, v: 0..MaxVersions,
             cur: 0..MaxVersions, idx: Index,
             rollback: BOOLEAN]

\* _load of a file that is not there.
NoIndex == [models |-> [v \in Versions |-> "absent"], active |-> 0, previous |-> 0]
NoJob   == [pc |-> "idle", op |-> "register", v |-> 0, cur |-> 0, idx |-> NoIndex,
            rollback |-> FALSE]
None    == [auc |-> 0, f1 |-> 0]

RegistryTypeOK ==
    /\ index \in Index /\ whole \in BOOLEAN
    /\ trained \in 0..MaxVersions /\ made \in [Versions -> Manifest]
    /\ job \in [Jobs -> Job]
    /\ faults \in Nat /\ torn \in BOOLEAN
    /\ passed \subseteq Versions /\ overlapped \in BOOLEAN

-----------------------------------------------------------------------------
(* The changes to the index.                                               *)

Registered(idx, v) == [idx EXCEPT !.models[v] = "candidate"]

\* Mutant: the model that was active keeps its status.
Promoted_TwoActive(idx, v) ==
    [idx EXCEPT !.models = [m \in Versions |->
                    IF m = v /\ @[m] # "absent" THEN "active" ELSE @[m]],
                !.previous = idx.active, !.active = v]

\* promote; a version that is not in the index becomes active all the same.
Promoted(idx, v) ==
    [models |-> [m \in Versions |->
         IF idx.models[m] = "absent" THEN "absent"
         ELSE IF m = v THEN "active"
         ELSE IF m = idx.active THEN "previous" ELSE idx.models[m]],
     active |-> v, previous |-> idx.active]

\* Mutant: registering a model makes it the active one.
Changed_Eager(j) ==
    IF j.op = "repair" THEN [j.idx EXCEPT !.previous = j.cur]
    ELSE Promoted(Registered(j.idx, j.v), j.v)

Changed(j) ==
    CASE j.op = "register" -> Registered(j.idx, j.v)
      [] j.op = "promote"  -> Promoted(j.idx, j.v)
      [] j.op = "repair"   -> [j.idx EXCEPT !.previous = j.cur]

-----------------------------------------------------------------------------
Idle(j)  == job[j].pc = "idle"
Alone(j) == \A k \in Jobs \ {j} : Idle(k)
Becomes(j, r) == job' = [job EXCEPT ![j] = r]

\* train.run, up to the call of register: the artifacts have been
\* saved.
Train(j) ==
    /\ Idle(j) /\ j \in Trainers
    /\ trained < MaxVersions /\ trained' = trained + 1
    /\ \E s \in Scores : made' = [made EXCEPT ![trained + 1] = s]
    /\ Becomes(j, [NoJob EXCEPT !.pc = "load", !.v = trained + 1])
    /\ overlapped' = (overlapped \/ ~Alone(j))
    /\ UNCHANGED <<index, whole, faults, torn, passed>>

\* rollback, up to the call of promote.
Rollback(j) ==
    /\ Idle(j)
    /\ whole /\ index.previous # 0
    /\ Becomes(j, [NoJob EXCEPT !.pc = "load", !.op = "promote", !.rollback = TRUE,
                                !.v = index.previous, !.cur = index.active])
    /\ overlapped' = (overlapped \/ ~Alone(j))
    /\ UNCHANGED <<index, whole, trained, made, faults, torn, passed>>

\* _load, which raises if the file has been truncated.
Load(j) ==
    /\ job[j].pc = "load"
    /\ Becomes(j, IF whole THEN [job[j] EXCEPT !.pc = "open", !.idx = index] ELSE NoJob)
    /\ UNCHANGED <<index, whole, trained, made, faults, torn, passed, overlapped>>

\* _save: write_text opens the file, which truncates it, and then writes.
Open(j) ==
    /\ job[j].pc = "open"
    /\ whole' = FALSE
    /\ Becomes(j, [job[j] EXCEPT !.pc = "write"])
    /\ UNCHANGED <<index, trained, made, faults, torn, passed, overlapped>>

\* What a job does after a save.
AfterSave(j) ==
    CASE j.op = "register" -> [j EXCEPT !.pc = "gate", !.idx = NoIndex]
      [] j.op = "promote" /\ j.rollback ->
             [j EXCEPT !.pc = "load", !.op = "repair", !.idx = NoIndex]
      [] OTHER -> NoJob

\* If another job has written since this one opened the file, the end of a
\* longer text of that job may remain behind this one's: it does not parse.
Write(j) ==
    /\ job[j].pc = "write"
    /\ index' = Changed(job[j])
    /\ whole' \in (IF whole THEN BOOLEAN ELSE {TRUE})
    /\ Becomes(j, AfterSave(job[j]))
    /\ UNCHANGED <<trained, made, faults, torn, passed, overlapped>>

\* Mutant: the gate takes every model.
GateOpen_Always(v, cur) == TRUE

\* A current model that is missing, or has no such score, counts as 0.
GateOpen(v, cur) ==
    LET curm == IF cur # 0 /\ index.models[cur] # "absent" THEN made[cur] ELSE None
    IN  IF made[v].auc # 0 THEN made[v].auc >= curm.auc ELSE made[v].f1 >= curm.f1

\* The end of a training run: with --promote, the gate.
Gate(j) ==
    /\ job[j].pc = "gate"
    /\ \E promote \in BOOLEAN :
           IF promote /\ whole /\ GateOpen(job[j].v, index.active)
           THEN /\ passed' = passed \cup {job[j].v}
                /\ Becomes(j, [job[j] EXCEPT !.pc = "load", !.op = "promote"])
           ELSE passed' = passed /\ Becomes(j, NoJob)
    /\ UNCHANGED <<index, whole, trained, made, faults, torn, overlapped>>

JobDies(j) ==
    /\ ~Idle(j) /\ faults < MaxFaults
    /\ faults' = faults + 1 /\ torn' = (torn \/ job[j].pc = "write")
    /\ Becomes(j, NoJob)
    /\ UNCHANGED <<index, whole, trained, made, passed, overlapped>>

-----------------------------------------------------------------------------
RegistryInit ==
    /\ index = NoIndex /\ whole = TRUE
    /\ trained = 0 /\ made = [v \in Versions |-> None]
    /\ job = [j \in Jobs |-> NoJob]
    /\ faults = 0 /\ torn = FALSE
    /\ passed = {} /\ overlapped = FALSE

RegistryStep(j) ==
    \/ Train(j) \/ Rollback(j) \/ Load(j) \/ Open(j) \/ Write(j) \/ Gate(j) \/ JobDies(j)

-----------------------------------------------------------------------------
(* What the registry must keep.                                            *)

\* While training runs and rollbacks are made one after another, the index can
\* be read but for the moment between the truncation and the write of a save, and
\* is lost, for good, exactly if a job dies in that moment.  A job that dies at any
\* other step leaves it sound: one model is active, it is the one marked so and it
\* is registered, and the known-good one to go back to is another, marked as such.
IndexIsSound ==
    ~overlapped =>
        /\ whole <=> ~torn /\ \A j \in Jobs : job[j].pc # "write"
        /\ whole =>
               /\ \A v \in Versions : index.models[v] = "active" <=> v = index.active
               /\ index.previous # 0 => /\ index.previous # index.active
                                        /\ index.models[index.previous] = "previous"

\* "So the service can never be pushed a worse model": unless two jobs were
\* under way at once, what replaces the active model, if it is not the one a
\* rollback goes back to, is no worse by the score it was judged by.
NeverPushedWorse ==
    [][index'.active # index.active /\ ~overlapped' =>
          \/ index'.active = index.previous
          \/ LET new == made[index'.active]
                 old == IF index.active = 0 THEN None ELSE made[index.active]
             IN  IF new.auc # 0 THEN new.auc >= old.auc ELSE new.f1 >= old.f1
      ]_registryVars
=============================================================================
