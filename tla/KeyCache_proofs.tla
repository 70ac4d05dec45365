--------------------------- MODULE KeyCache_proofs ---------------------------
(***************************************************************************)
(* The key cache, for any number of threads and operators, any TTL and any *)
(* bounds: one key is active, a worker's answers follow it by less than a  *)
(* TTL, and /reload drops what was replaced.                               *)
(***************************************************************************)
EXTENDS KeyCache, FiniteSetTheorems, TLAPS

-----------------------------------------------------------------------------
(* The inductive invariant.                                                *)

\* Only keys that were issued are active, read or kept.
Issued ==
    /\ active \subseteq 1..issued
    /\ cache.hash <= issued
    /\ \A t \in Threads : thread[t].look.hash <= issued

Single == \A k, l \in active : k = l

\* Nothing is dated in the future, and an active key is active until now.
Dated ==
    /\ now > TTL
    /\ cache.at <= now /\ \A t \in Threads : thread[t].look.at <= now
    /\ \A k \in Keys : since[k] <= now /\ until[k] <= now
    /\ \A k \in active : until[k] = now

\* What was read from the store at a time not before look.at: the key was active
\* then, and any other that is active now was not.
Read(look) ==
    look.sure => /\ look.hash # 0 => look.at <= until[look.hash]
                 /\ \A k \in active : look.hash = k \/ look.at <= since[k]

Returning(t) == thread[t].pc = "return" /\ thread[t].look.sure

Reads ==
    /\ Read(cache)
    /\ \A t \in Threads : /\ thread[t].pc = "query" => ~thread[t].look.sure
                          /\ Returning(t) => Read(thread[t].look)

\* A key that was dropped is not active, and nobody has read it since.
Gone ==
    /\ dropped \subseteq 1..issued /\ dropped \cap active = {}
    /\ cache.sure /\ Fresh => cache.hash \notin dropped
    /\ \A t \in Threads : Returning(t) => thread[t].look.hash \notin dropped

KeyInv == TypeOK /\ Issued /\ Single /\ Dated /\ Reads /\ Gone

-----------------------------------------------------------------------------
\* The newest of one active key is that key.
LEMMA NewestActive ==
    ASSUME Single, NEW k \in active
    PROVE  active # {} /\ Newest(active) = k
BY DEF Single, Newest

\* The records the actions build are of their types.
LEMMA Records ==
    ASSUME KeyAssumption
    PROVE  NoLookup \in Lookup /\ NoThread \in Thread /\ NoCommand \in Command
BY DEF KeyAssumption, NoLookup, NoThread, NoCommand, Lookup, Thread, Command

\* The invariant holds when the worker has started.
LEMMA KeyInit == Init => KeyInv
<1> SUFFICES ASSUME Init PROVE KeyInv
  OBVIOUS
<1> USE KeyAssumption, Records DEF Init, KeyAssumption, Keys
<1>1. TypeOK
  BY DEF TypeOK
<1>2. Issued /\ Single /\ Dated
  BY DEF Issued, Single, Dated, NoLookup, NoThread
<1>3. Reads /\ Gone
  BY DEF Reads, Read, Returning, Gone, NoLookup, NoThread
<1>4. QED
  BY <1>1, <1>2, <1>3 DEF KeyInv

\* The commands change the rows: what was read stays what it was.
LEMMA CommandStep ==
    ASSUME KeyInv, NEW a \in Admins, Begin(a) \/ EndWait(a) \/ Insert(a)
    PROVE  KeyInv'
<1> USE KeyAssumption DEF KeyInv, KeyAssumption, Keys
<1>0. /\ UNCHANGED <<now, cache, thread, faults, dropped>>
      /\ \/ active' \subseteq active /\ UNCHANGED <<issued, since, until>>
         \/ /\ active' = {issued + 1} /\ issued' = issued + 1 /\ issued < MaxKeys
            /\ since' = [since EXCEPT ![issued + 1] = now]
            /\ until' = [until EXCEPT ![issued + 1] = now]
  <2>1. CASE Begin(a)
    BY <2>1 DEF Begin, Updated, keyRows
  <2>2. CASE EndWait(a)
    BY <2>2 DEF EndWait, Updated, keyRows
  <2>3. CASE Insert(a)
    BY <2>3 DEF Insert, keyRows
  <2>4. QED
    BY <2>1, <2>2, <2>3
<1>1. admin' \in [Admins -> Command]
  <2>1. \A row \in 0..MaxKeys, op \in {"rotate", "revoke"} :
            /\ Updated(a, op, row) => admin' \in [Admins -> Command]
            /\ admin' = [admin EXCEPT ![a] = [pc |-> "wait", op |-> op, row |-> row]]
                  => admin' \in [Admins -> Command]
    <3>1. \A row \in 0..MaxKeys, op \in {"rotate", "revoke"}, pc \in {"wait", "insert"} :
              [pc |-> pc, op |-> op, row |-> row] \in Command
      BY DEF Command
    <3>2. \A c \in Command : admin' = [admin EXCEPT ![a] = c] => admin' \in [Admins -> Command]
      BY DEF TypeOK
    <3>3. TAKE row \in 0..MaxKeys, op \in {"rotate", "revoke"}
    <3> DEFINE new == [pc |-> "insert", op |-> op, row |-> row]
               old == [pc |-> "wait", op |-> op, row |-> row]
    <3>4. new \in Command /\ old \in Command /\ NoCommand \in Command
      BY <3>1, Records
    <3>5. Updated(a, op, row) =>
              admin' = [admin EXCEPT ![a] = IF op = "revoke" THEN NoCommand ELSE new]
      BY DEF Updated
    <3>6. QED
      <4> HIDE DEF new, old
      <4>1. QED
        BY <3>2, <3>4, <3>5 DEF old
  <2>2. (IF active = {} THEN 0 ELSE Newest(active)) \in 0..MaxKeys
    BY NewestActive DEF TypeOK
  <2>3. CASE Begin(a)
    BY <2>1, <2>2, <2>3 DEF Begin
  <2>4. CASE EndWait(a)
    <3>1. /\ admin[a].op \in {"rotate", "revoke"}
          /\ (IF admin[a].row \in active THEN admin[a].row ELSE 0) \in 0..MaxKeys
      BY DEF TypeOK, Command
    <3>2. QED
      BY <2>1, <2>4, <3>1 DEF EndWait
  <2>5. CASE Insert(a)
    BY <2>5, Records DEF Insert, TypeOK
  <2>6. QED
    BY <2>3, <2>4, <2>5
<1>2. ASSUME NEW look \in Lookup, look.hash <= issued, look.at <= now, Read(look)
      PROVE  Read(look)'
  <2>1. CASE active' \subseteq active /\ UNCHANGED <<issued, since, until>>
    BY <1>2, <2>1 DEF Read
  <2>2. CASE active' = {issued + 1} /\ until' = [until EXCEPT ![issued + 1] = now]
             /\ since' = [since EXCEPT ![issued + 1] = now] /\ issued < MaxKeys
    BY <1>2, <2>2 DEF Read, TypeOK, Lookup
  <2>3. QED
    BY <1>0, <2>1, <2>2
<1>3. cache \in Lookup /\ \A t \in Threads : thread[t].look \in Lookup
  BY DEF TypeOK, Thread
<1>4. Reads'
  BY <1>0, <1>2, <1>3 DEF Reads, Returning, Issued, Dated, Read
<1>5. CASE active' \subseteq active /\ UNCHANGED <<issued, since, until>>
  <2>1. TypeOK'
    BY <1>0, <1>1, <1>5 DEF TypeOK
  <2>2. Issued' /\ Single' /\ Dated' /\ Gone'
    BY <1>0, <1>5 DEF Issued, Single, Dated, Gone, Fresh, Returning
  <2>3. QED
    BY <1>4, <2>1, <2>2
<1>6. CASE /\ active' = {issued + 1} /\ issued' = issued + 1 /\ issued < MaxKeys
           /\ since' = [since EXCEPT ![issued + 1] = now]
           /\ until' = [until EXCEPT ![issued + 1] = now]
  <2>1. TypeOK'
    BY <1>0, <1>1, <1>6 DEF TypeOK
  <2>2. Issued' /\ Single'
    BY <1>0, <1>3, <1>6 DEF TypeOK, Issued, Single, Lookup
  <2>3. Dated'
    BY <1>0, <1>6 DEF TypeOK, Dated
  <2>4. Gone'
    BY <1>0, <1>6 DEF TypeOK, Gone, Fresh, Returning
  <2>5. QED
    BY <1>4, <2>1, <2>2, <2>3, <2>4
<1>7. QED
  BY <1>0, <1>5, <1>6

\* The lookups: what one reads is the key that is active.
LEMMA LookupStep ==
    ASSUME KeyInv, NEW t \in Threads, Request(t) \/ Query(t) \/ Return(t)
    PROVE  KeyInv'
<1> USE KeyAssumption DEF KeyInv, KeyAssumption, Keys, keyRows
<1>0. thread[t] \in Thread /\ thread[t].look \in Lookup /\ cache \in Lookup
  BY DEF TypeOK, Thread
<1>1. CASE Request(t)
  <2> DEFINE new == [pc |-> "query", look |-> [hash |-> cache.hash, at |-> now, sure |-> FALSE]]
  <2>1. new \in Thread
    BY <1>0 DEF TypeOK, Thread, Lookup
  <2>2. TypeOK'
    BY <1>1, <2>1 DEF Request, TypeOK
  <2>3. Issued' /\ Single' /\ Dated'
    BY <1>0, <1>1 DEF Request, TypeOK, Issued, Single, Dated, Lookup
  <2>4. Reads' /\ Gone'
    BY <1>1 DEF Request, TypeOK, Reads, Read, Returning, Gone, Fresh
  <2>5. QED
    BY <2>2, <2>3, <2>4
<1>2. CASE Query(t)
  <2> DEFINE hash == IF active = {} THEN 0 ELSE Newest(active)
             new  == [pc |-> "return", look |-> [hash |-> hash, at |-> thread[t].look.at,
                                                 sure |-> TRUE]]
             same == [pc |-> "return", look |-> thread[t].look]
  <2>1. /\ hash \in 0..issued /\ issued <= MaxKeys
        /\ hash # 0 => hash \in active
        /\ \A k \in active : hash = k
    BY NewestActive DEF TypeOK, Issued
  <2> HIDE DEF hash
  <2>2. /\ UNCHANGED <<now, keyRows, admin, cache, dropped>>
        /\ faults' \in Nat
        /\ thread' = [thread EXCEPT ![t] = new] \/ thread' = [thread EXCEPT ![t] = same]
    BY <1>0, <1>2 DEF Query, TypeOK, Thread, Lookup, hash
  <2>3. CASE thread' = [thread EXCEPT ![t] = new]
    <3>1. new \in Thread
      BY <1>0, <2>1 DEF TypeOK, Thread, Lookup
    <3>2. TypeOK'
      BY <2>2, <2>3, <3>1 DEF TypeOK
    <3>3. Issued' /\ Single' /\ Dated'
      BY <1>0, <2>1, <2>2, <2>3 DEF TypeOK, Issued, Single, Dated, Lookup
    <3>4. Reads'
      BY <1>0, <2>1, <2>2, <2>3 DEF TypeOK, Reads, Read, Returning, Dated, Lookup
    <3>5. Gone'
      BY <1>0, <2>1, <2>2, <2>3 DEF TypeOK, Gone, Fresh, Returning, Issued
    <3>6. QED
      BY <3>2, <3>3, <3>4, <3>5
  <2>4. CASE thread' = [thread EXCEPT ![t] = same]
    <3>0. ~thread[t].look.sure
      BY <1>2 DEF Query, Reads
    <3>1. same \in Thread
      BY <1>0 DEF Thread
    <3>2. TypeOK'
      BY <2>2, <2>4, <3>1 DEF TypeOK
    <3>3. Issued' /\ Single' /\ Dated'
      BY <1>0, <2>2, <2>4 DEF TypeOK, Issued, Single, Dated, Lookup
    <3>4. Reads' /\ Gone'
      BY <1>0, <2>2, <2>4, <3>0 DEF TypeOK, Reads, Read, Returning, Gone, Fresh
    <3>5. QED
      BY <3>2, <3>3, <3>4
  <2>5. QED
    BY <2>2, <2>3, <2>4
<1>3. CASE Return(t)
  <2>1. TypeOK'
    BY <1>0, <1>3, Records DEF Return, TypeOK
  <2>2. Issued' /\ Single' /\ Dated'
    BY <1>0, <1>3 DEF Return, TypeOK, Issued, Single, Dated, Lookup, NoThread, NoLookup
  <2>3. Reads' /\ Gone'
    BY <1>0, <1>3 DEF Return, TypeOK, Reads, Lookup, Read, Returning, Gone, Fresh, NoThread, NoLookup
  <2>4. QED
    BY <2>1, <2>2, <2>3
<1>4. QED
  BY <1>1, <1>2, <1>3

\* /reload leaves nothing in the cache that is fresh; a restart, nothing at all.
LEMMA WorkerStep ==
    ASSUME KeyInv, Reload \/ Restart
    PROVE  KeyInv'
<1> USE KeyAssumption DEF KeyInv, KeyAssumption, Keys, keyRows
<1>1. CASE Reload
  <2>1. TypeOK'
    BY <1>1 DEF Reload, TypeOK, Lookup
  <2>2. Issued' /\ Single' /\ Dated'
    BY <1>1 DEF Reload, TypeOK, Issued, Single, Dated, Lookup
  <2>3. Reads'
    BY <1>1 DEF Reload, TypeOK, Reads, Read, Returning, Lookup
  <2>4. Gone'
    <3>1. ~Fresh'
      BY <1>1 DEF Reload, TypeOK, Fresh, Dated, Lookup
    <3>2. QED
      BY <1>1, <3>1 DEF Reload, TypeOK, Gone, Returning
  <2>5. QED
    BY <2>1, <2>2, <2>3, <2>4
<1>2. CASE Restart
  <2>1. TypeOK'
    BY <1>2, Records DEF Restart, TypeOK
  <2>2. active' = active /\ issued' = issued /\ since' = since /\ until' = until /\ now' = now
    BY <1>2 DEF Restart
  <2>3. /\ cache'.at = 0 /\ cache'.hash = 0
        /\ \A t \in Threads : thread'[t].look.at = 0 /\ thread'[t].look.hash = 0
    BY <1>2 DEF Restart, NoLookup, NoThread
  <2>4. Issued' /\ Single'
    <3>1. issued \in Nat
      BY DEF TypeOK
    <3>2. cache'.hash <= issued' /\ \A t \in Threads : thread'[t].look.hash <= issued'
      BY <2>2, <2>3, <3>1
    <3>3. active' \subseteq 1..issued' /\ Single'
      BY <2>2 DEF Issued, Single
    <3>4. QED
      BY <3>2, <3>3 DEF Issued
  <2>5. Dated'
    BY <2>2, <2>3 DEF TypeOK, Dated
  <2>6. Reads' /\ Gone'
    BY <1>2 DEF Restart, TypeOK, Reads, Read, Returning, Gone, NoLookup, NoThread
  <2>7. QED
    BY <2>1, <2>4, <2>5, <2>6
<1>3. QED
  BY <1>1, <1>2

\* Time only takes freshness away.
LEMMA TickStep == KeyInv /\ Tick => KeyInv'
<1> SUFFICES ASSUME KeyInv, Tick PROVE KeyInv'
  OBVIOUS
<1> USE KeyAssumption DEF KeyInv, KeyAssumption, Keys, keyRows, Tick
<1>1. TypeOK'
  BY DEF TypeOK
<1>2. Issued' /\ Single'
  BY DEF Issued, Single
<1>3. Dated'
  BY DEF TypeOK, Dated, Lookup, Thread
<1>4. \A k \in 1..MaxKeys : until'[k] >= until[k]
  BY DEF TypeOK, Dated
<1>5. ASSUME NEW look \in Lookup, look.hash <= issued, Read(look) PROVE Read(look)'
  BY <1>4, <1>5 DEF Read, TypeOK, Lookup
<1>6. Reads'
  BY <1>5 DEF Reads, Read, Returning, TypeOK, Issued, Thread
<1>7. Gone'
  BY DEF TypeOK, Gone, Fresh, Returning, Lookup
<1>8. QED
  BY <1>1, <1>2, <1>3, <1>6, <1>7

\* Every step keeps the invariant.
LEMMA KeyStep == KeyInv /\ [Next]_vars => KeyInv'
<1> SUFFICES ASSUME KeyInv, [Next]_vars PROVE KeyInv'
  OBVIOUS
<1>1. CASE \E a \in Admins : Begin(a) \/ EndWait(a) \/ Insert(a)
  BY <1>1, CommandStep
<1>2. CASE \E t \in Threads : Request(t) \/ Query(t) \/ Return(t)
  BY <1>2, LookupStep
<1>3. CASE Reload \/ Restart
  BY <1>3, WorkerStep
<1>4. CASE Tick
  BY <1>4, TickStep
<1>5. CASE UNCHANGED vars
  BY <1>5 DEF vars, keyRows, KeyInv, TypeOK, Issued, Single, Dated, Reads, Read, Returning,
              Gone, Fresh
<1>6. QED
  BY <1>1, <1>2, <1>3, <1>4, <1>5 DEF Next

-----------------------------------------------------------------------------
(* The theorems.                                                           *)

THEOREM KeyInvariant == Spec => []KeyInv
<1>1. Init => KeyInv
  BY KeyInit
<1>2. QED
  BY <1>1, KeyStep, PTL DEF Spec

\* Every variable of the key cache keeps its type.
THEOREM TypeCorrect == Spec => []TypeOK
<1>1. KeyInv => TypeOK
  BY DEF KeyInv
<1>2. QED
  BY <1>1, KeyInvariant, PTL

\* "Exactly ONE key is active at a time" (manage_api_key.py:5): never two, however
\* rotations and revocations wait for each other's rows.
THEOREM OneActive == Spec => []OneKeyActive
<1>1. KeyInv => OneKeyActive
  <2> SUFFICES ASSUME Single PROVE Cardinality(active) <= 1
    BY DEF KeyInv, OneKeyActive
  <2>1. CASE active = {}
    BY <2>1, FS_EmptySet
  <2>2. ASSUME NEW k \in active PROVE Cardinality(active) <= 1
    <3>1. active = {k}
      BY <2>2 DEF Single
    <3>2. QED
      BY <3>1, FS_Singleton
  <2>3. QED
    BY <2>1, <2>2
<1>2. QED
  BY <1>1, KeyInvariant, PTL

\* While the store answers, a worker's answers follow the key by less than a
\* TTL, in both directions.
THEOREM AnswersFollow == Spec => []AnswersFollowKey
<1>1. KeyInv => AnswersFollowKey
  <2> SUFFICES ASSUME KeyInv, NEW q \in Judging, NEW k \in 1..issued, q.look.sure
               PROVE  IF Answer(k, q.look) = "accepted" THEN q.from < until[k] + TTL
                      ELSE k \in active => q.from < since[k] + TTL
    BY DEF AnswersFollowKey
  <2> USE KeyAssumption DEF KeyAssumption, KeyInv, Keys
  <2>1. /\ q.look \in Lookup /\ q.from \in Nat
        /\ Read(q.look) /\ q.from < q.look.at + TTL
    <3>1. CASE Fresh /\ q = [look |-> cache, from |-> now]
      BY <3>1 DEF TypeOK, Reads, Fresh
    <3>2. ASSUME NEW t \in Threads, thread[t].pc = "return",
                 q = [look |-> thread[t].look, from |-> thread[t].look.at]
          PROVE  <2>1
      <4>1. thread[t].look \in Lookup /\ q.look = thread[t].look /\ q.from = thread[t].look.at
        BY <3>2 DEF TypeOK, Thread
      <4>2. Read(thread[t].look)
        BY <3>2, <4>1 DEF Reads, Returning
      <4>3. q.from \in Nat /\ q.from < q.look.at + TTL
        BY <4>1 DEF Lookup
      <4>4. QED
        BY <4>1, <4>2, <4>3
    <3>3. QED
      BY <3>1, <3>2 DEF Judging
  <2>2. k \in 1..MaxKeys /\ until[k] \in Nat /\ since[k] \in Nat /\ k # 0
    BY DEF TypeOK
  <2>3. QED
    BY <2>1, <2>2 DEF Answer, Read, Lookup
<1>2. QED
  BY <1>1, KeyInvariant, PTL

\* What /reload dropped stays dropped, as long as the store answers.
THEOREM ReloadDrops == Spec => []ReloadDropsKey
<1>1. KeyInv => ReloadDropsKey
  <2> SUFFICES ASSUME KeyInv, NEW q \in Judging, NEW k \in dropped, q.look.sure
               PROVE  Answer(k, q.look) # "accepted"
    BY DEF ReloadDropsKey
  <2>1. q.look.hash # k
    BY DEF Judging, KeyInv, Gone, Returning
  <2>2. QED
    BY <2>1 DEF Answer
<1>2. QED
  BY <1>1, KeyInvariant, PTL
=============================================================================
