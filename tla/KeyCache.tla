------------------------------- MODULE KeyCache ------------------------------
(***************************************************************************)
(* The key of POST /score: operators rotate and revoke it in bp_api_key    *)
(* (manage_api_key.py), and a worker compares the key of a request with a  *)
(* hash it keeps for a while (service.py).                                 *)
(*                                                                         *)
(* A key is a number in order of issue, 0 is none, and stands for its      *)
(* hash.  The model is one worker of the service, whose requests run in    *)
(* threads of one pool, with the key neither fixed by BP_API_KEY nor       *)
(* disabled.                                                               *)
(***************************************************************************)
EXTENDS Naturals, FiniteSets

CONSTANTS
    Threads,     \* of the worker
    Admins,      \* the runs of manage_api_key.py
    TTL,         \* config.API_KEY_CACHE_TTL
    MaxKeys, MaxTime, MaxFaults   \* bounds of the model

Keys == 1..MaxKeys

ASSUME KeyAssumption ==
    /\ TTL \in Nat \ {0} /\ MaxKeys \in Nat \ {0}
    /\ MaxTime \in Nat /\ MaxFaults \in Nat

VARIABLES
    now,         \* the clock
    active,      \* the keys of the rows of bp_api_key that are active
    issued,      \* how many keys have been inserted
    admin,       \* the command an operator runs
    cache,       \* _key_cache
    thread,      \* the threads
    faults,
    since,       \* ghost: when a key became active
    until,       \* ghost: when it last was active
    dropped      \* ghost: the keys that were inactive at the last /reload that
                 \* no thread had read the key before and not yet stored

keyRows == <<active, issued, since, until>>
vars == <<now, keyRows, admin, cache, thread, faults, dropped>>

-----------------------------------------------------------------------------
\* sure is a ghost: the hash was read from the store by the lookup itself.
Lookup  == [hash: 0..MaxKeys, at: Nat, sure: BOOLEAN]
Thread  == [pc: {"idle", "query", "return"}, look: Lookup]
Command == [pc: {"idle", "wait", "insert"}, op: {"rotate", "revoke"}, row: 0..MaxKeys]

NoLookup  == [hash |-> 0, at |-> 0, sure |-> TRUE]
NoCommand == [pc |-> "idle", op |-> "revoke", row |-> 0]
NoThread  == [pc |-> "idle", look |-> NoLookup]

TypeOK ==
    /\ now \in Nat /\ faults \in Nat
    /\ active \subseteq Keys /\ issued \in 0..MaxKeys
    /\ admin \in [Admins -> Command]
    /\ cache \in Lookup
    /\ thread \in [Threads -> Thread]
    /\ since \in [Keys -> Nat] /\ until \in [Keys -> Nat]
    /\ dropped \subseteq Keys

Newest(S) == CHOOSE k \in S : \A l \in S : l <= k

-----------------------------------------------------------------------------
(* manage_api_key.py                                                       *)

\* Another command holds the row: it has updated it and not yet committed.
Held(row) == row # 0 /\ \E b \in Admins : admin[b].pc = "insert" /\ admin[b].row = row

\* What the UPDATE of a rotation leaves to commit with, and a revocation does.
Updated(a, op, row) ==
    /\ admin' = [admin EXCEPT ![a] = IF op = "revoke" THEN NoCommand
                                     ELSE [pc |-> "insert", op |-> op, row |-> row]]
    /\ active' = IF op = "revoke" THEN active \ {row} ELSE active
    /\ UNCHANGED <<now, issued, since, until, cache, thread, faults, dropped>>

\* UPDATE .. WHERE active, of the rows committed when the statement begins: it
\* waits for a row that another command holds.
Begin(a) ==
    /\ admin[a].pc = "idle"
    /\ \E op \in {"rotate", "revoke"} :
           LET row == IF active = {} THEN 0 ELSE Newest(active)
           IN  \/ ~Held(row) /\ Updated(a, op, row)
               \/ /\ Held(row)
                  /\ admin' = [admin EXCEPT ![a] = [pc |-> "wait", op |-> op, row |-> row]]
                  /\ UNCHANGED <<now, keyRows, cache, thread, faults, dropped>>

\* The wait ends with the other command.  A row that is no longer active is left
\* alone, and one inserted meanwhile is not seen.
EndWait(a) ==
    /\ admin[a].pc = "wait" /\ ~Held(admin[a].row)
    /\ Updated(a, admin[a].op, IF admin[a].row \in active THEN admin[a].row ELSE 0)

\* INSERT and COMMIT.  uq_bp_api_key_one_active refuses a second active row,
\* and the command fails.
Insert(a) ==
    /\ admin[a].pc = "insert" /\ issued < MaxKeys
    /\ IF active \subseteq {admin[a].row}
       THEN /\ active' = {issued + 1}
            /\ issued' = issued + 1
            /\ since' = [since EXCEPT ![issued + 1] = now]
            /\ until' = [until EXCEPT ![issued + 1] = now]
       ELSE UNCHANGED keyRows
    /\ admin' = [admin EXCEPT ![a] = NoCommand]
    /\ UNCHANGED <<now, cache, thread, faults, dropped>>

-----------------------------------------------------------------------------
(* require_api_key, _active_key_hash                                       *)

Fresh == now < cache.at + TTL

\* A request that finds the cache too old begins a lookup, with the time and
\* the hash it has; the others change nothing.
Request(t) ==
    /\ thread[t].pc = "idle" /\ ~Fresh
    /\ thread' = [thread EXCEPT ![t] =
           [pc |-> "query", look |-> [hash |-> cache.hash, at |-> now, sure |-> FALSE]]]
    /\ UNCHANGED <<now, keyRows, admin, cache, faults, dropped>>

Query(t) ==
    /\ thread[t].pc = "query"
    /\ \/ /\ thread' = [thread EXCEPT ![t].pc = "return", ![t].look.sure = TRUE,
                  ![t].look.hash = IF active = {} THEN 0 ELSE Newest(active)]
          /\ faults' = faults
       \/ /\ faults < MaxFaults /\ faults' = faults + 1
          /\ thread' = [thread EXCEPT ![t].pc = "return"]
    /\ UNCHANGED <<now, keyRows, admin, cache, dropped>>

\* Mutant: the cache is stamped with the time of the answer.
Return_StampedLate(t) ==
    /\ thread[t].pc = "return"
    /\ cache' = [thread[t].look EXCEPT !.at = now]
    /\ thread' = [thread EXCEPT ![t] = NoThread]
    /\ UNCHANGED <<now, keyRows, admin, faults, dropped>>

Return(t) ==
    /\ thread[t].pc = "return"
    /\ cache' = thread[t].look
    /\ thread' = [thread EXCEPT ![t] = NoThread]
    /\ UNCHANGED <<now, keyRows, admin, faults, dropped>>

\* What requests that began at a time may be judged by now: the cache, and what
\* the lookups have read.
Judging ==
    (IF Fresh THEN {[look |-> cache, from |-> now]} ELSE {})
    \cup {[look |-> thread[t].look, from |-> thread[t].look.at] :
             t \in {u \in Threads : thread[u].pc = "return"}}

\* require_api_key, of a request with the key k.
Answer(k, look) ==
    IF look.hash = 0 THEN "503" ELSE IF look.hash = k THEN "accepted" ELSE "401"

\* Mutant: /reload forgets the model only.
Reload_ModelOnly ==
    /\ dropped' = IF \E t \in Threads : thread[t].pc = "return" THEN {}
                  ELSE 1..issued \ active
    /\ UNCHANGED <<now, keyRows, admin, cache, thread, faults>>

\* POST /reload.
Reload ==
    /\ cache' = [cache EXCEPT !.at = 0]
    /\ dropped' = IF \E t \in Threads : thread[t].pc = "return" THEN {}
                  ELSE 1..issued \ active
    /\ UNCHANGED <<now, keyRows, admin, thread, faults>>

\* The worker starts again; it only comes up if a key is active.
Restart ==
    /\ active # {}
    /\ cache' = NoLookup
    /\ thread' = [t \in Threads |-> NoThread]
    /\ dropped' = 1..issued \ active
    /\ UNCHANGED <<now, keyRows, admin, faults>>

Tick ==
    /\ now < MaxTime
    /\ now' = now + 1
    /\ until' = [k \in Keys |-> IF k \in active THEN now' ELSE until[k]]
    /\ UNCHANGED <<active, issued, since, admin, cache, thread, faults, dropped>>

-----------------------------------------------------------------------------
\* A key has been issued and the worker has just started; the clock is far from 0.
Init ==
    /\ now = TTL + 1 /\ faults = 0
    /\ active = {1} /\ issued = 1
    /\ admin = [a \in Admins |-> NoCommand]
    /\ cache = NoLookup
    /\ thread = [t \in Threads |-> NoThread]
    /\ since = [k \in Keys |-> now] /\ until = [k \in Keys |-> now]
    /\ dropped = {}

Next ==
    \/ \E a \in Admins : Begin(a) \/ EndWait(a) \/ Insert(a)
    \/ \E t \in Threads : Request(t) \/ Query(t) \/ Return(t)
    \/ Reload \/ Restart \/ Tick

Spec == Init /\ [][Next]_vars

-----------------------------------------------------------------------------
(* What the check of the key must keep.                                    *)

\* "Exactly ONE key is active at a time": never two, however rotations and
\* revocations wait for each other's rows.
OneKeyActive == Cardinality(active) <= 1

\* "rotation is picked up within the TTL": unless the store failed to answer, a
\* key is accepted only if it was active less than a TTL before the request
\* began, and the key that has been the active one for as long as the TTL is not
\* turned away, however late the answers of other threads' lookups come in.
AnswersFollowKey ==
    \A q \in Judging, k \in 1..issued : q.look.sure =>
        IF Answer(k, q.look) = "accepted" THEN q.from < until[k] + TTL
        ELSE k \in active => q.from < since[k] + TTL

\* "or now via POST /reload": a key that was no longer active when the worker
\* was told is not accepted by it again, if no thread had read the key and was
\* about to store it at that moment, and the store answers.
ReloadDropsKey ==
    \A q \in Judging, k \in dropped : q.look.sure => Answer(k, q.look) # "accepted"
=============================================================================
