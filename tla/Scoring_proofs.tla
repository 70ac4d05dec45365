---------------------------- MODULE Scoring_proofs ----------------------------
(***************************************************************************)
(* The state of POST /score, for any requests, transactions, dates and     *)
(* windows: it is well typed, every transaction is scored with the         *)
(* velocity it should have, and no request reports a speed that is not one.*)
(* The functions it calls, for any argument: the description and the       *)
(* signals of a decision agree, and so do the two location waterfalls;     *)
(* detectors that agree decide; and a short plus code is completed to the  *)
(* nearest.                                                                *)
(***************************************************************************)
EXTENDS Scoring, Decision, PlusCode, Geo, FiniteSetTheorems, WellFoundedInduction, TLAPS

Came(r) == req[r].pc # "idle"

-----------------------------------------------------------------------------
(* Types, and what a request and the stores are made of                    *)

\* A transaction is synced once, and the stores are finite, so that they can
\* be counted.
StoresInv ==
    /\ IsFiniteSet(cache) /\ IsFiniteSet(live)
    /\ \A a, b \in cache : a.id = b.id => a = b

\* The history of a request is what the cache holds of the day before it.
RequestInv ==
    \A r \in Requests :
        /\ Came(r) => req[r].row \in Row
        /\ IsFiniteSet(req[r].known)
        /\ req[r].hist \subseteq cache
        /\ req[r].pc \in {"idle", "ask", "query"} => req[r].hist = {}
        /\ \A row \in req[r].hist : row.at < At(r) /\ row.at >= At(r) - Day

TInv == TypeOK /\ StoresInv /\ RequestInv

LEMMA RowIsDated ==
    ASSUME NEW row \in Row
    PROVE  /\ row \in [id: Txns, at: Times] /\ row.at \in TimesOf[row.id]
           /\ row.id \in Txns /\ row.at \in Nat
<1>1. row.id \in Txns /\ row.at \in TimesOf[row.id]
  BY DEF Row
<1>2. TimesOf[row.id] \subseteq Nat
  BY <1>1, ScoringAssumption DEF ScoringAssumption
<1>3. QED
  BY <1>1, <1>2 DEF Row

\* A row is its transaction and its date, and nothing else.
LEMMA RowIsPair ==
    ASSUME NEW row \in Rows
    PROVE  row = [id |-> row.id, at |-> row.at] /\ row.at \in Nat
<1>1. CASE row \in Row
  BY <1>1, RowIsDated
<1>2. CASE row \in Before
  BY <1>2, ScoringAssumption DEF ScoringAssumption
<1>3. QED
  BY <1>1, <1>2 DEF Rows

LEMMA WindowsAreNat ==
    /\ Window \in Nat /\ Day \in Nat /\ Retain \in Nat /\ MaxFaults \in Nat
    /\ Window <= Day /\ Day <= Retain
BY ScoringAssumption DEF ScoringAssumption

\* One request moves: the others keep what they have.
LEMMA OneMoves ==
    ASSUME TypeOK, NEW r \in Requests, NEW v, req' = [req EXCEPT ![r] = v]
    PROVE  /\ req'[r] = v
           /\ \A q \in Requests \ {r} : req'[q] = req[q]
           /\ v \in Request => req' \in [Requests -> Request]
BY DEF TypeOK

\* Every request's part of the invariant is its own, as long as the cache grows.
LEMMA RequestKept ==
    ASSUME TInv, NEW q \in Requests, req'[q] = req[q], cache \subseteq cache'
    PROVE  /\ (Came(q) => req[q].row \in Row)'
           /\ (IsFiniteSet(req[q].known))'
           /\ (req[q].hist \subseteq cache)'
           /\ (req[q].pc \in {"idle", "ask", "query"} => req[q].hist = {})'
           /\ (\A row \in req[q].hist : row.at < At(q) /\ row.at >= At(q) - Day)'
BY DEF TInv, RequestInv, Came, At

LEMMA InitTyped == Init => TInv
<1> SUFFICES ASSUME Init PROVE TInv
  OBVIOUS
<1>1. TypeOK
  BY WindowsAreNat DEF Init, TypeOK, NoRequest, Request, Rows
<1>2. StoresInv
  <2>1. IsFiniteSet(live)
    BY FS_Subset, ScoringAssumption DEF Init, ScoringAssumption
  <2>2. QED
    BY <2>1, FS_EmptySet DEF Init, StoresInv
<1>3. RequestInv
  BY FS_EmptySet DEF Init, RequestInv, NoRequest, Came
<1>4. QED
  BY <1>1, <1>2, <1>3 DEF TInv

\* What is looked at is part of the stores.
LEMMA CountsAreNat ==
    ASSUME NEW rows, IsFiniteSet(rows), NEW t, NEW n \in Counts(rows, t)
    PROVE  n \in Nat
<1> DEFINE newer == {row \in rows : row.at < t /\ row.at >= t - Window}
           same  == {row \in rows : row.at = t}
<1>1. IsFiniteSet(newer) /\ IsFiniteSet(same)
  BY FS_Subset
<1>2. Newer(rows, t) \in Nat /\ SameAs(rows, t) \in Nat
  BY <1>1, FS_CardinalityType DEF Newer, SameAs
<1>3. QED
  BY <1>2 DEF Counts

LEMMA ReceiveTyped ==
    ASSUME TInv, NEW r \in Requests, Receive(r)
    PROVE  TInv'
<1> PICK row \in Row :
      req' = [req EXCEPT ![r] = [@ EXCEPT !.pc = "ask", !.row = row,
                                         !.known = cache \cup live]]
  BY DEF Receive
<1> DEFINE v == [req[r] EXCEPT !.pc = "ask", !.row = row, !.known = cache \cup live]
<1>1. /\ req'[r] = v /\ (\A q \in Requests \ {r} : req'[q] = req[q])
      /\ v \in Request => req' \in [Requests -> Request]
  <2>1. req' = [req EXCEPT ![r] = v]
    OBVIOUS
  <2>2. TypeOK
    BY DEF TInv
  <2>3. QED
    BY <2>1, <2>2, OneMoves
<1>2. v \in Request
  BY DEF TInv, TypeOK, Request, Rows
<1>3. TypeOK'
  BY <1>1, <1>2 DEF TInv, TypeOK, Receive
<1>4. StoresInv'
  BY DEF TInv, StoresInv, Receive
<1>5. req[r].hist = {} /\ req[r] \in Request
  BY DEF TInv, TypeOK, RequestInv, Receive
<1>6. v.hist = {} /\ v.row = row /\ v.known = cache \cup live /\ v.pc = "ask"
  BY <1>5 DEF Request
<1>7. IsFiniteSet(v.known)
  <2>1. IsFiniteSet(cache \cup live)
    BY FS_Union DEF TInv, StoresInv
  <2>2. QED
    BY <1>6, <2>1
<1>8. RequestInv'
  BY <1>1, <1>6, <1>7, RequestKept DEF TInv, RequestInv, Receive, Came, At
<1>9. QED
  BY <1>3, <1>4, <1>8 DEF TInv

LEMMA HistoryTyped ==
    ASSUME TInv, NEW r \in Requests, LockHistory(r) \/ QueryHistory(r)
    PROVE  TInv'
<1> DEFINE ask == [req[r] EXCEPT !.pc = "query"]
           got == [req[r] EXCEPT !.pc = "live", !.hist = Earlier(r)]
           not == [req[r] EXCEPT !.pc = "live", !.sure = FALSE]
<1>1. /\ req[r] \in Request /\ TypeOK /\ Earlier(r) \subseteq cache
      /\ req[r].pc \in {"ask", "query"} /\ cache \subseteq Rows
  BY DEF TInv, TypeOK, Earlier, LockHistory, QueryHistory, Rows
<1>2. PICK v : /\ req' = [req EXCEPT ![r] = v]
               /\ \/ v = ask
                  \/ v = got
                  \/ v = not
  BY DEF LockHistory, QueryHistory
<1>3. v \in Request /\ v.row = req[r].row /\ v.known = req[r].known /\ v.pc # "idle"
  BY <1>1, <1>2 DEF Request
<1>4. v.hist = req[r].hist \/ (v.hist = Earlier(r) /\ v.pc = "live")
  BY <1>1, <1>2 DEF Request
<1>5. /\ req'[r] = v /\ (\A q \in Requests \ {r} : req'[q] = req[q])
      /\ req' \in [Requests -> Request]
  BY <1>1, <1>2, <1>3, OneMoves
<1>6. /\ faults' \in 0..MaxFaults /\ histLock' \in Requests \cup {Free}
      /\ UNCHANGED <<cache, live, last, backoff>>
  BY WindowsAreNat DEF TInv, TypeOK, LockHistory, QueryHistory, Unlock
<1>7. TypeOK' /\ StoresInv'
  BY <1>5, <1>6 DEF TInv, TypeOK, StoresInv
<1>8. RequestInv'
  <2>1. req[r].hist = {} /\ req[r].row \in Row /\ IsFiniteSet(req[r].known)
    BY <1>1 DEF TInv, RequestInv, Came
  <2>2. /\ v.hist \subseteq cache
        /\ \A row \in v.hist : row.at < v.row.at /\ row.at >= v.row.at - Day
    BY <1>3, <1>4, <2>1 DEF Earlier, At
  <2>3. \A q \in Requests \ {r} : req'[q] = req[q]
    BY <1>5
  <2>4. QED
    BY <1>3, <1>4, <1>5, <1>6, <2>1, <2>2, <2>3, RequestKept
    DEF RequestInv, Came, At
<1>9. QED
  BY <1>7, <1>8 DEF TInv

\* What is counted is of the two stores.
LEMMA DeduplicatedIsFinite ==
    ASSUME TInv, NEW r \in Requests
    PROVE  /\ IsFiniteSet(req[r].hist) /\ IsFiniteSet(Recent(r))
           /\ IsFiniteSet(Deduplicated(req[r].hist, Recent(r)))
<1>1. IsFiniteSet(req[r].hist) /\ IsFiniteSet(Recent(r))
  BY FS_Subset DEF TInv, StoresInv, RequestInv, Recent
<1>2. IsFiniteSet(req[r].hist \cup Recent(r))
  BY <1>1, FS_Union
<1>3. Deduplicated(req[r].hist, Recent(r)) \subseteq req[r].hist \cup Recent(r)
  BY DEF Deduplicated
<1>4. QED
  BY <1>1, <1>2, <1>3, FS_Subset

LEMMA ScoreTyped ==
    ASSUME TInv, NEW r \in Requests, Score(r)
    PROVE  TInv'
<1>1. /\ faults' \in 0..MaxFaults /\ backoff' \subseteq {"velocity", "geo"}
      /\ UNCHANGED <<cache, live, last, histLock>>
  <2>1. Up("velocity") \/ Skip("velocity") \/ Fail("velocity")
    BY DEF Score
  <2>2. UNCHANGED <<cache, live, last, histLock>>
    BY DEF Score
  <2>3. faults \in 0..MaxFaults /\ backoff \subseteq {"velocity", "geo"}
    BY DEF TInv, TypeOK
  <2>4. faults' \in 0..MaxFaults /\ backoff' \subseteq {"velocity", "geo"}
    <3>1. CASE Up("velocity") \/ Skip("velocity")
      BY <2>3, <3>1 DEF Up, Skip
    <3>2. CASE Fail("velocity")
      BY <2>3, <3>2, WindowsAreNat DEF Fail
    <3>3. QED
      BY <2>1, <3>1, <3>2
  <2>5. QED
    BY <2>2, <2>4
<1>2. PICK n \in Nat, sure \in BOOLEAN :
         req' = [req EXCEPT ![r] = [@ EXCEPT !.pc = "geo", !.count = n, !.sure = sure]]
  <2>1. \E n \in Counts(Deduplicated(req[r].hist, Recent(r)), At(r)) \cup
               Counts(req[r].hist, At(r)) :
          \/ req' = [req EXCEPT ![r] = [@ EXCEPT !.pc = "geo", !.count = n]]
          \/ req' = [req EXCEPT ![r] = [@ EXCEPT !.pc = "geo", !.count = n, !.sure = FALSE]]
    BY DEF Score
  <2>2. \A n \in Counts(Deduplicated(req[r].hist, Recent(r)), At(r)) \cup
                Counts(req[r].hist, At(r)) : n \in Nat
    BY DeduplicatedIsFinite, CountsAreNat
  <2>3. req[r] \in Request /\ req[r].sure \in BOOLEAN
    BY DEF TInv, TypeOK, Request
  <2>4. \A n \in Nat :
          [req[r] EXCEPT !.pc = "geo", !.count = n] =
          [req[r] EXCEPT !.pc = "geo", !.count = n, !.sure = req[r].sure]
    BY <2>3 DEF Request
  <2>5. PICK n \in Nat :
          \/ req' = [req EXCEPT ![r] = [@ EXCEPT !.pc = "geo", !.count = n]]
          \/ req' = [req EXCEPT ![r] = [@ EXCEPT !.pc = "geo", !.count = n, !.sure = FALSE]]
    BY <2>1, <2>2
  <2>6. req' = [req EXCEPT ![r] = [@ EXCEPT !.pc = "geo", !.count = n, !.sure = req[r].sure]]
        \/ req' = [req EXCEPT ![r] = [@ EXCEPT !.pc = "geo", !.count = n, !.sure = FALSE]]
    BY <2>4, <2>5
  <2>7. QED
    BY <2>3, <2>6
<1> DEFINE v == [req[r] EXCEPT !.pc = "geo", !.count = n, !.sure = sure]
<1>3. req[r] \in Request /\ TypeOK
  BY DEF TInv, TypeOK
<1>4. /\ v \in Request /\ v.row = req[r].row /\ v.known = req[r].known
      /\ v.hist = req[r].hist /\ v.pc = "geo"
  BY <1>3 DEF Request
<1>5. /\ req'[r] = v /\ (\A q \in Requests \ {r} : req'[q] = req[q])
      /\ req' \in [Requests -> Request]
  BY <1>2, <1>3, <1>4, OneMoves
<1>6. TypeOK' /\ StoresInv'
  BY <1>1, <1>5 DEF TInv, TypeOK, StoresInv
<1>7. RequestInv'
  <2>1. req[r].pc = "live" /\ \A q \in Requests \ {r} : req'[q] = req[q]
    BY <1>5 DEF Score
  <2>2. QED
    BY <1>1, <1>4, <1>5, <2>1, RequestKept DEF TInv, RequestInv, Came, At
<1>8. QED
  BY <1>6, <1>7 DEF TInv

\* Past the scoring nothing is left of it.
LEMMA PastTyped ==
    ASSUME TypeOK, NEW r \in Requests, NEW pc \in {"place", "record"}
    PROVE  /\ Past(r, pc) \in Request /\ Past(r, pc).pc = pc
           /\ Past(r, pc).row = req[r].row /\ Past(r, pc).sure = req[r].sure
           /\ Past(r, pc).speed = req[r].speed /\ Past(r, pc).prev = NoLast
           /\ Past(r, pc).hist = {} /\ Past(r, pc).known = {}
BY DEF TypeOK, Past, Request

LEMMA GeoReadTyped ==
    ASSUME TInv, NEW r \in Requests, GeoRead(r)
    PROVE  TInv'
<1>1. TypeOK /\ req[r].pc = "geo"
  BY DEF TInv, GeoRead
<1>2. PICK v : /\ req' = [req EXCEPT ![r] = v]
               /\ \/ v = Past(r, "record") \/ v = Past(r, "place")
                  \/ v = [Past(r, "place") EXCEPT !.prev = last]
  BY DEF GeoRead
<1>3. /\ v \in Request /\ v.row = req[r].row /\ v.known = {}
      /\ v.hist = {} /\ v.pc \in {"place", "record"}
  BY <1>1, <1>2, PastTyped DEF Request, TypeOK
<1>4. /\ req'[r] = v /\ (\A q \in Requests \ {r} : req'[q] = req[q])
      /\ req' \in [Requests -> Request]
  BY <1>1, <1>2, <1>3, OneMoves
<1>5. /\ faults' \in 0..MaxFaults /\ backoff' \subseteq {"velocity", "geo"}
      /\ UNCHANGED <<cache, live, last, histLock>>
  BY WindowsAreNat DEF TInv, TypeOK, GeoRead, Up, Skip, Fail
<1>6. TypeOK' /\ StoresInv'
  BY <1>4, <1>5 DEF TInv, TypeOK, StoresInv
<1>7. RequestInv'
  <2>1. \A q \in Requests \ {r} : req'[q] = req[q]
    BY <1>4
  <2>2. QED
    BY <1>1, <1>3, <1>4, <1>5, <2>1, FS_EmptySet, RequestKept
    DEF TInv, RequestInv, Came, At
<1>8. QED
  BY <1>6, <1>7 DEF TInv

LEMMA GeoRecordTyped ==
    ASSUME TInv, NEW r \in Requests, GeoRecord(r)
    PROVE  TInv'
<1> DEFINE v == [Past(r, "record") EXCEPT !.speed = Moved(req[r].prev, req[r].row)]
<1>1. TypeOK /\ req[r].pc = "place" /\ req[r].row \in Row
  BY DEF TInv, GeoRecord, RequestInv, Came
<1>2. req' = [req EXCEPT ![r] = v]
  BY DEF GeoRecord
<1>3. /\ v \in Request /\ v.row = req[r].row /\ v.known = {}
      /\ v.hist = {} /\ v.pc = "record"
  BY <1>1, PastTyped DEF Request, Moved
<1>4. /\ req'[r] = v /\ (\A q \in Requests \ {r} : req'[q] = req[q])
      /\ req' \in [Requests -> Request]
  BY <1>1, <1>2, <1>3, OneMoves
<1>5. Here(r) \in Point
  BY <1>1, RowIsDated DEF Here, At, Point
<1>6. /\ faults' \in 0..MaxFaults /\ backoff' \subseteq {"velocity", "geo"}
      /\ last' \in Point \cup {NoLast}
      /\ UNCHANGED <<cache, live, histLock>>
  BY <1>5, WindowsAreNat DEF TInv, TypeOK, GeoRecord, Up, Skip, Fail
<1>7. TypeOK' /\ StoresInv'
  BY <1>4, <1>6 DEF TInv, TypeOK, StoresInv
<1>8. RequestInv'
  <2>1. \A q \in Requests \ {r} : req'[q] = req[q]
    BY <1>4
  <2>2. QED
    BY <1>1, <1>3, <1>4, <1>6, <2>1, FS_EmptySet, RequestKept
    DEF TInv, RequestInv, Came, At
<1>9. QED
  BY <1>7, <1>8 DEF TInv

LEMMA LiveRecordTyped ==
    ASSUME TInv, NEW r \in Requests, LiveRecord(r)
    PROVE  TInv'
<1> DEFINE v == [req[r] EXCEPT !.pc = "done"]
<1>1. /\ TypeOK /\ req[r].pc = "record" /\ req[r].row \in Row
      /\ req[r] \in Request /\ live \subseteq Rows
  BY DEF TInv, TypeOK, LiveRecord, RequestInv, Came
<1>2. req' = [req EXCEPT ![r] = v]
  BY DEF LiveRecord
<1>3. /\ v \in Request /\ v.row = req[r].row /\ v.known = req[r].known
      /\ v.hist = req[r].hist /\ v.pc = "done"
  BY <1>1 DEF Request
<1>4. /\ req'[r] = v /\ (\A q \in Requests \ {r} : req'[q] = req[q])
      /\ req' \in [Requests -> Request]
  BY <1>1, <1>2, <1>3, OneMoves
<1>5. WithRow(req[r].row) \subseteq Rows /\ IsFiniteSet(WithRow(req[r].row))
  <2>1. WithRow(req[r].row) \subseteq live \cup {req[r].row}
    BY DEF WithRow, Pruned
  <2>2. IsFiniteSet(live \cup {req[r].row})
    BY FS_AddElement DEF TInv, StoresInv
  <2>3. QED
    BY <1>1, <2>1, <2>2, FS_Subset DEF Rows
<1>6. /\ faults' \in 0..MaxFaults /\ backoff' \subseteq {"velocity", "geo"}
      /\ live' \in {live, WithRow(req[r].row)}
      /\ UNCHANGED <<cache, last, histLock>>
  BY WindowsAreNat DEF TInv, TypeOK, LiveRecord, Up, Skip, Fail
<1>7. TypeOK' /\ StoresInv'
  BY <1>1, <1>4, <1>5, <1>6 DEF TInv, TypeOK, StoresInv
<1>8. RequestInv'
  <2>1. \A q \in Requests \ {r} : req'[q] = req[q]
    BY <1>4
  <2>2. QED
    BY <1>1, <1>3, <1>4, <1>6, <2>1, RequestKept DEF TInv, RequestInv, Came, At
<1>9. QED
  BY <1>7, <1>8 DEF TInv

LEMMA AroundTyped ==
    ASSUME TInv, Reconnect \/ \E row \in Row : Sync(row)
    PROVE  TInv'
<1>1. CASE Reconnect
  BY <1>1, RequestKept DEF Reconnect, TInv, TypeOK, StoresInv, RequestInv, Came, At
<1>2. ASSUME NEW row \in Row, Sync(row)
      PROVE  TInv'
  <2>1. cache' = cache \cup {row} /\ UNCHANGED <<live, last, backoff, histLock, req, faults>>
    BY <1>2 DEF Sync
  <2>2. TypeOK'
    BY <2>1 DEF TInv, TypeOK
  <2>3. StoresInv'
    BY <1>2, <2>1, FS_AddElement DEF TInv, StoresInv, Sync
  <2>4. RequestInv'
    BY <2>1, RequestKept DEF RequestInv, Came, At
  <2>5. QED
    BY <2>2, <2>3, <2>4 DEF TInv
<1>3. QED
  BY <1>1, <1>2

\* Forgetting the live window, the requests forget it too.
LEMMA ForgetTyped ==
    ASSUME TInv, Forget
    PROVE  TInv'
<1>1. /\ faults' \in 0..MaxFaults /\ live' \in {live, {}} /\ last' \in {last, NoLast}
      /\ UNCHANGED <<cache, backoff, histLock>>
  BY WindowsAreNat DEF Forget, TInv, TypeOK
<1>2. \A q \in Requests :
        \E kept \in SUBSET req[q].known : req'[q] = [req[q] EXCEPT !.known = kept]
  <2> TAKE q \in Requests
  <2>1. CASE live' = live
    <3>1. req[q] = [req[q] EXCEPT !.known = req[q].known]
      BY DEF TInv, TypeOK, Request
    <3>2. req'[q] = req[q]
      BY <2>1 DEF Forget
    <3>3. QED
      BY <3>1, <3>2
  <2>2. CASE live' # live
    BY <2>2 DEF Forget
  <2>3. QED
    BY <2>1, <2>2
<1>3. req' = [q \in Requests |-> req'[q]]
  BY DEF Forget, TInv, TypeOK
<1>4. \A q \in Requests :
        /\ req'[q] \in Request /\ req'[q].pc = req[q].pc /\ req'[q].row = req[q].row
        /\ req'[q].hist = req[q].hist /\ req'[q].known \subseteq req[q].known
  <2> TAKE q \in Requests
  <2>1. PICK kept \in SUBSET req[q].known : req'[q] = [req[q] EXCEPT !.known = kept]
    BY <1>2
  <2>2. req[q] \in Request
    BY DEF TInv, TypeOK
  <2>3. QED
    BY <2>1, <2>2 DEF Request
<1>5. TypeOK'
  BY <1>1, <1>3, <1>4 DEF TInv, TypeOK
<1>6. StoresInv'
  BY <1>1, FS_EmptySet DEF TInv, StoresInv
<1>7. RequestInv'
  <2>1. \A q \in Requests : IsFiniteSet(req'[q].known)
    BY <1>4, FS_Subset DEF TInv, RequestInv
  <2>2. QED
    BY <1>1, <1>4, <2>1 DEF TInv, RequestInv, Came, At
<1>8. QED
  BY <1>5, <1>6, <1>7 DEF TInv

LEMMA TypedStep == TInv /\ [Next]_vars => TInv'
<1> SUFFICES ASSUME TInv, [Next]_vars PROVE TInv'
  OBVIOUS
<1>1. ASSUME NEW r \in Requests, Receive(r) \/ Step(r)
      PROVE  TInv'
  BY <1>1, ReceiveTyped, HistoryTyped, ScoreTyped, GeoReadTyped, GeoRecordTyped,
     LiveRecordTyped DEF Step
<1>2. CASE Forget
  BY <1>2, ForgetTyped
<1>3. CASE Reconnect \/ \E row \in Row : Sync(row)
  BY <1>3, AroundTyped
<1>4. CASE UNCHANGED vars
  BY <1>4, RequestKept DEF vars, TInv, TypeOK, StoresInv, RequestInv, Came, At
<1>5. QED
  BY <1>1, <1>2, <1>3, <1>4 DEF Next

\* Every variable keeps its type, for any requests, dates and faults.
THEOREM TypeCorrect == Spec => []TypeOK
<1>1. Spec => []TInv
  BY InitTyped, TypedStep, PTL DEF Spec
<1>2. TInv => TypeOK
  BY DEF TInv
<1>3. QED
  BY <1>1, <1>2, PTL

-----------------------------------------------------------------------------
(* The last point is where a request was that has recorded it              *)

Placed(q, p) ==
    /\ req[q].pc \in {"record", "done"}
    /\ p.at = At(q) /\ p.point = PointOf[req[q].row.id]

\* So is the point that another request has read and not used yet.
PlaceInv ==
    /\ last # NoLast => \E q \in Requests : Placed(q, last)
    /\ \A r \in Requests : req[r].prev # NoLast =>
         /\ req[r].pc = "place"
         /\ \E q \in Requests \ {r} : Placed(q, req[r].prev)
    /\ \A r \in Requests : req[r].speed => req[r].pc \in {"record", "done"}

GInv == TInv /\ PlaceInv /\ GeoIsHonest

\* The steps but GeoRead and GeoRecord leave the places alone, and a request
\* keeps its row once it came in.
LEMMA OtherSteps ==
    ASSUME TInv, [Next]_vars, \A r \in Requests : ~GeoRead(r) /\ ~GeoRecord(r),
           NEW q \in Requests
    PROVE  /\ req'[q].prev = req[q].prev /\ req'[q].speed = req[q].speed
           /\ Came(q) => req'[q].row = req[q].row /\ req'[q].pc # "idle"
           /\ req[q].pc = "place" => req'[q].pc = "place"
           /\ req[q].pc \in {"record", "done"} => req'[q].pc \in {"record", "done"}
<1> DEFINE Same == /\ req'[q].prev = req[q].prev /\ req'[q].speed = req[q].speed
                   /\ Came(q) => req'[q].row = req[q].row /\ req'[q].pc # "idle"
                   /\ req[q].pc = "place" => req'[q].pc = "place"
                   /\ req[q].pc \in {"record", "done"} => req'[q].pc \in {"record", "done"}
<1>1. TypeOK /\ req[q] \in Request /\ req \in [Requests -> Request]
  BY DEF TInv, TypeOK
<1>2. ASSUME NEW r \in Requests,
             Receive(r) \/ LockHistory(r) \/ QueryHistory(r) \/ Score(r) \/ LiveRecord(r)
      PROVE  Same
  <2>2. CASE Receive(r)
    BY <1>1, <2>2 DEF Receive, Request, Came
  <2>3. CASE LockHistory(r)
    BY <1>1, <2>3 DEF LockHistory, Request, Came
  <2>4. CASE QueryHistory(r)
    BY <1>1, <2>4 DEF QueryHistory, Request, Came
  <2>5. CASE Score(r)
    <3>1. req[r].pc = "live"
      BY <2>5 DEF Score
    <3>2. PICK n :
            \/ req' = [req EXCEPT ![r] = [@ EXCEPT !.pc = "geo", !.count = n]]
            \/ req' = [req EXCEPT ![r] = [@ EXCEPT !.pc = "geo", !.count = n, !.sure = FALSE]]
      BY <2>5 DEF Score
    <3>3. CASE req' = [req EXCEPT ![r] = [@ EXCEPT !.pc = "geo", !.count = n]]
      BY <1>1, <3>1, <3>3 DEF Request, Came
    <3>4. CASE req' = [req EXCEPT ![r] = [@ EXCEPT !.pc = "geo", !.count = n, !.sure = FALSE]]
      BY <1>1, <3>1, <3>4 DEF Request, Came
    <3>5. QED
      BY <3>2, <3>3, <3>4
  <2>6. CASE LiveRecord(r)
    BY <1>1, <2>6 DEF LiveRecord, Request, Came
  <2>7. QED
    BY <1>2, <2>2, <2>3, <2>4, <2>5, <2>6
<1>3. CASE Forget
  <2>1. req'[q] = req[q] \/ \E kept : req'[q] = [req[q] EXCEPT !.known = kept]
    BY <1>3 DEF Forget
  <2>2. QED
    BY <1>1, <2>1 DEF Request, Came
<1>4. CASE Reconnect \/ (\E row \in Row : Sync(row)) \/ UNCHANGED vars
  BY <1>4 DEF Reconnect, Sync, vars, Came
<1>5. QED
  BY <1>2, <1>3, <1>4 DEF Next, Step

LEMMA OtherStepsLast ==
    ASSUME [Next]_vars, \A r \in Requests : ~GeoRead(r) /\ ~GeoRecord(r)
    PROVE  last' \in {last, NoLast}
BY DEF Next, Step, Receive, LockHistory, QueryHistory, Score, LiveRecord,
       Reconnect, Forget, Sync, vars

LEMMA OtherStepsHonest ==
    ASSUME GInv, [Next]_vars, \A r \in Requests : ~GeoRead(r) /\ ~GeoRecord(r)
    PROVE  PlaceInv' /\ GeoIsHonest'
<1>1. TInv /\ PlaceInv /\ GeoIsHonest
  BY DEF GInv
<1>2. \A q \in Requests :
        /\ req'[q].prev = req[q].prev /\ req'[q].speed = req[q].speed
        /\ Came(q) => req'[q].row = req[q].row
        /\ req[q].pc = "place" => req'[q].pc = "place"
        /\ req[q].pc \in {"record", "done"} => req'[q].pc \in {"record", "done"}
  BY <1>1, OtherSteps
<1>3. \A q \in Requests : \A p : Placed(q, p) => Placed(q, p)'
  BY <1>2 DEF Placed, Came, At
<1>4. (last # NoLast => \E q \in Requests : Placed(q, last))'
  <2> SUFFICES ASSUME last' # NoLast PROVE \E q \in Requests : Placed(q, last)'
    OBVIOUS
  <2>1. PICK q \in Requests : Placed(q, last)
    BY <1>1, OtherStepsLast DEF PlaceInv
  <2>2. last' = last
    BY OtherStepsLast
  <2>3. Placed(q, last)'
    BY <1>2, <2>1, <2>2 DEF Placed, Came, At
  <2>4. QED
    BY <2>3
<1>5. ASSUME NEW r \in Requests, req'[r].prev # NoLast
      PROVE  /\ req'[r].pc = "place"
             /\ \E q \in Requests \ {r} : Placed(q, req[r].prev)'
  <2>1. PICK q \in Requests \ {r} : req[r].pc = "place" /\ Placed(q, req[r].prev)
    BY <1>1, <1>2, <1>5 DEF PlaceInv
  <2>2. Placed(q, req[r].prev)'
    BY <1>2, <2>1 DEF Placed, Came, At
  <2>3. req'[r].pc = "place"
    BY <1>2, <2>1
  <2>4. QED
    BY <2>2, <2>3
<1>6. ASSUME NEW r \in Requests, req'[r].speed
      PROVE  \E q \in Requests \ {r} :
               /\ req'[q].pc \in {"record", "done"} /\ At(q)' < At(r)'
               /\ PointOf[req'[q].row.id] # PointOf[req'[r].row.id]
  <2>1. PICK q \in Requests \ {r} :
          /\ req[q].pc \in {"record", "done"} /\ At(q) < At(r)
          /\ PointOf[req[q].row.id] # PointOf[req[r].row.id]
    BY <1>1, <1>2, <1>6 DEF GeoIsHonest
  <2>2. Came(q) /\ Came(r)
    BY <1>1, <1>2, <1>6, <2>1 DEF PlaceInv, Came
  <2>3. QED
    BY <1>2, <2>1, <2>2 DEF At, Came
<1>7. (\A r \in Requests : req[r].speed => req[r].pc \in {"record", "done"})'
  BY <1>1, <1>2 DEF PlaceInv
<1>8. PlaceInv'
  BY <1>4, <1>5, <1>7 DEF PlaceInv
<1>9. GeoIsHonest'
  BY <1>6 DEF GeoIsHonest
<1>10. QED
  BY <1>8, <1>9

LEMMA GeoReadHonest ==
    ASSUME GInv, NEW r \in Requests, GeoRead(r)
    PROVE  PlaceInv' /\ GeoIsHonest'
<1>1. /\ TypeOK /\ PlaceInv /\ GeoIsHonest /\ req[r].pc = "geo" /\ last' = last
      /\ req[r].speed = FALSE
  BY DEF GInv, TInv, TypeOK, Request, PlaceInv, GeoRead
<1>2. PICK v : /\ req' = [req EXCEPT ![r] = v]
               /\ \/ v = Past(r, "record") \/ v = Past(r, "place")
                  \/ v = [Past(r, "place") EXCEPT !.prev = last]
  BY DEF GeoRead
<1>3. /\ v.row = req[r].row /\ v.speed = FALSE
      /\ v.prev # NoLast => v.pc = "place" /\ v.prev = last
  BY <1>1, <1>2, PastTyped DEF Request, TypeOK
<1>4. req'[r] = v /\ \A q \in Requests : q # r => req'[q] = req[q]
  BY <1>1, <1>2 DEF TypeOK
<1>5. \A q \in Requests : \A p : Placed(q, p) => q # r /\ Placed(q, p)'
  BY <1>1, <1>4 DEF Placed, At
<1>6. PlaceInv'
  <2>1. (last # NoLast => \E q \in Requests : Placed(q, last))'
    <3> SUFFICES ASSUME last' # NoLast PROVE \E q \in Requests : Placed(q, last)'
      OBVIOUS
    <3>1. PICK q \in Requests : Placed(q, last)
      BY <1>1 DEF PlaceInv
    <3>2. Placed(q, last)'
      BY <1>1, <1>4, <1>5, <3>1 DEF Placed, At
    <3>3. QED
      BY <3>2
  <2>2. ASSUME NEW s \in Requests, req'[s].prev # NoLast
        PROVE  /\ req'[s].pc = "place"
               /\ \E q \in Requests \ {s} : Placed(q, req[s].prev)'
    <3>1. CASE s = r
      <4>1. v.pc = "place" /\ v.prev = last /\ last # NoLast
        BY <1>3, <1>4, <2>2, <3>1
      <4>2. PICK q \in Requests : Placed(q, last)
        BY <1>1, <4>1 DEF PlaceInv
      <4>3. q # r /\ Placed(q, req[r].prev)'
        BY <1>1, <1>4, <1>5, <4>1, <4>2 DEF Placed, At
      <4>4. QED
        BY <1>4, <3>1, <4>1, <4>3
    <3>2. CASE s # r
      <4>1. PICK q \in Requests \ {s} : Placed(q, req[s].prev)
        BY <1>1, <1>4, <2>2, <3>2 DEF PlaceInv
      <4>2. Placed(q, req[s].prev)'
        BY <1>1, <1>4, <3>2, <4>1 DEF Placed, At
      <4>3. QED
        BY <1>1, <1>4, <2>2, <3>2, <4>2 DEF PlaceInv
    <3>3. QED
      BY <3>1, <3>2
  <2>3. ASSUME NEW s \in Requests, req'[s].speed
        PROVE  req'[s].pc \in {"record", "done"}
    BY <1>1, <1>3, <1>4, <2>3 DEF PlaceInv
  <2>4. QED
    BY <2>1, <2>2, <2>3 DEF PlaceInv
<1>7. ASSUME NEW s \in Requests, req'[s].speed
      PROVE  \E q \in Requests \ {s} :
               /\ req'[q].pc \in {"record", "done"} /\ At(q)' < At(s)'
               /\ PointOf[req'[q].row.id] # PointOf[req'[s].row.id]
  <2>1. s # r /\ req[s].speed
    BY <1>3, <1>4, <1>7
  <2>2. PICK q \in Requests \ {s} :
          /\ req[q].pc \in {"record", "done"} /\ At(q) < At(s)
          /\ PointOf[req[q].row.id] # PointOf[req[s].row.id]
    BY <1>1, <2>1 DEF GeoIsHonest
  <2>3. q # r
    BY <1>1, <2>2
  <2>4. QED
    BY <1>4, <2>1, <2>2, <2>3 DEF At
<1>8. GeoIsHonest'
  BY <1>7 DEF GeoIsHonest
<1>9. QED
  BY <1>6, <1>8

LEMMA GeoRecordHonest ==
    ASSUME GInv, NEW r \in Requests, GeoRecord(r)
    PROVE  PlaceInv' /\ GeoIsHonest'
<1> DEFINE v == [Past(r, "record") EXCEPT !.speed = Moved(req[r].prev, req[r].row)]
<1>1. /\ TypeOK /\ PlaceInv /\ GeoIsHonest /\ req[r].pc = "place"
      /\ last' \in {last, Here(r)}
  BY DEF GInv, TInv, GeoRecord
<1>2. /\ v.row = req[r].row /\ v.pc = "record" /\ v.prev = NoLast
      /\ v.speed = Moved(req[r].prev, req[r].row)
  BY <1>1, PastTyped DEF Request, Moved
<1>3. req'[r] = v /\ \A q \in Requests : q # r => req'[q] = req[q]
  BY <1>1 DEF TypeOK, GeoRecord
<1>4. \A q \in Requests : \A p : Placed(q, p) => q # r
  BY <1>1 DEF Placed
<1>5. PlaceInv'
  <2>1. (last # NoLast => \E q \in Requests : Placed(q, last))'
    <3> SUFFICES ASSUME last' # NoLast PROVE \E q \in Requests : Placed(q, last)'
      OBVIOUS
    <3>1. CASE last' = Here(r)
      <4>1. last'.at = At(r) /\ last'.point = PointOf[req[r].row.id]
        BY <3>1 DEF Here
      <4>2. Placed(r, last)'
        BY <1>2, <1>3, <4>1 DEF Placed, At
      <4>3. QED
        BY <4>2
    <3>2. CASE last' = last
      <4>1. PICK q \in Requests : Placed(q, last)
        BY <1>1, <3>2 DEF PlaceInv
      <4>2. Placed(q, last)'
        BY <1>3, <1>4, <3>2, <4>1 DEF Placed, At
      <4>3. QED
        BY <4>2
    <3>3. QED
      BY <1>1, <3>1, <3>2
  <2>2. ASSUME NEW s \in Requests, req'[s].prev # NoLast
        PROVE  /\ req'[s].pc = "place"
               /\ \E q \in Requests \ {s} : Placed(q, req[s].prev)'
    <3>1. s # r
      BY <1>2, <1>3, <2>2
    <3>2. PICK q \in Requests \ {s} : Placed(q, req[s].prev)
      BY <1>1, <1>3, <2>2, <3>1 DEF PlaceInv
    <3>3. Placed(q, req[s].prev)'
      BY <1>3, <1>4, <3>1, <3>2 DEF Placed, At
    <3>4. QED
      BY <1>1, <1>3, <2>2, <3>1, <3>3 DEF PlaceInv
  <2>3. ASSUME NEW s \in Requests, req'[s].speed
        PROVE  req'[s].pc \in {"record", "done"}
    BY <1>1, <1>2, <1>3, <2>3 DEF PlaceInv
  <2>4. QED
    BY <2>1, <2>2, <2>3 DEF PlaceInv
<1>6. ASSUME NEW s \in Requests, req'[s].speed
      PROVE  \E q \in Requests \ {s} :
               /\ req'[q].pc \in {"record", "done"} /\ At(q)' < At(s)'
               /\ PointOf[req'[q].row.id] # PointOf[req'[s].row.id]
  <2>1. CASE s = r
    <3>1. Moved(req[r].prev, req[r].row)
      BY <1>2, <1>3, <1>6, <2>1
    <3>2. PICK q \in Requests \ {r} : Placed(q, req[r].prev)
      BY <1>1, <3>1 DEF Moved, PlaceInv
    <3>3. /\ req[q].pc \in {"record", "done"} /\ At(q) < At(r)
          /\ PointOf[req[q].row.id] # PointOf[req[r].row.id]
      BY <3>1, <3>2 DEF Placed, Moved, At
    <3>4. QED
      BY <1>2, <1>3, <2>1, <3>3 DEF At
  <2>2. CASE s # r
    <3>1. PICK q \in Requests \ {s} :
            /\ req[q].pc \in {"record", "done"} /\ At(q) < At(s)
            /\ PointOf[req[q].row.id] # PointOf[req[s].row.id]
      BY <1>1, <1>3, <1>6, <2>2 DEF GeoIsHonest
    <3>2. q # r
      BY <1>1, <3>1
    <3>3. QED
      BY <1>3, <2>2, <3>1, <3>2 DEF At
  <2>3. QED
    BY <2>1, <2>2
<1>7. GeoIsHonest'
  BY <1>6 DEF GeoIsHonest
<1>8. QED
  BY <1>5, <1>7

LEMMA HonestStep == GInv /\ [Next]_vars => GInv'
<1> SUFFICES ASSUME GInv, [Next]_vars PROVE GInv'
  OBVIOUS
<1>1. TInv'
  BY TypedStep DEF GInv
<1>2. CASE \A r \in Requests : ~GeoRead(r) /\ ~GeoRecord(r)
  BY <1>1, <1>2, OtherStepsHonest DEF GInv
<1>3. ASSUME NEW r \in Requests, GeoRead(r) \/ GeoRecord(r)
      PROVE  PlaceInv' /\ GeoIsHonest'
  BY <1>3, GeoReadHonest, GeoRecordHonest
<1>4. QED
  BY <1>1, <1>2, <1>3 DEF GInv

\* A reported speed is against another request's earlier point elsewhere, in
\* whatever order requests read and replace the last point and Redis fails.
THEOREM SpeedHonest == Spec => []GeoIsHonest
<1>1. Init => GInv
  <2> SUFFICES ASSUME Init PROVE GInv
    OBVIOUS
  <2>1. TInv
    BY InitTyped
  <2>2. PlaceInv /\ GeoIsHonest
    BY DEF Init, PlaceInv, GeoIsHonest, NoRequest
  <2>3. QED
    BY <2>1, <2>2 DEF GInv
<1>2. GInv => GeoIsHonest
  BY DEF GInv
<1>3. QED
  BY <1>1, <1>2, HonestStep, PTL DEF Spec

-----------------------------------------------------------------------------
(* What the stores held when a request came in                             *)

\* Another request is dated so far ahead that it prunes row.
Pruner(r, row) == \E q \in Requests \ {r} : Came(q) /\ At(q) >= row.at + Retain

\* A row that a request knows of stays in one of the stores until it has asked
\* both, unless such a request prunes it; and once it has asked the cache, what
\* it has not got from there is in the live window.
HeldInv ==
    \A r \in Requests : \A row \in req[r].known :
        /\ req[r].pc \in {"ask", "query"} => row \in cache \cup live \/ Pruner(r, row)
        /\ req[r].pc = "live" /\ req[r].sure /\ row.at < At(r) /\ row.at >= At(r) - Day =>
               row \in req[r].hist \cup live \/ Pruner(r, row)

LEMMA CameStays ==
    ASSUME TInv, [Next]_vars, NEW q \in Requests, Came(q)
    PROVE  Came(q)' /\ req'[q].row = req[q].row
<1>1. TypeOK /\ req[q] \in Request /\ req \in [Requests -> Request] /\ req[q].pc # "idle"
  BY DEF TInv, TypeOK, Came
<1>2. ASSUME \A r \in Requests : ~GeoRead(r) /\ ~GeoRecord(r)
      PROVE  req'[q].pc # "idle" /\ req'[q].row = req[q].row
  BY <1>2, OtherSteps
<1>3. ASSUME NEW r \in Requests, GeoRead(r) \/ GeoRecord(r)
      PROVE  req'[q].pc # "idle" /\ req'[q].row = req[q].row
  <2> DEFINE at == [Past(r, "place") EXCEPT !.prev = last]
             on == [Past(r, "record") EXCEPT !.speed = Moved(req[r].prev, req[r].row)]
  <2>1. PICK v \in {Past(r, "record"), Past(r, "place"), at, on} : req' = [req EXCEPT ![r] = v]
    BY <1>3 DEF GeoRead, GeoRecord
  <2>2. v.row = req[r].row /\ v.pc \in {"place", "record"}
    BY <1>1, <2>1, PastTyped DEF Request
  <2>3. QED
    BY <1>1, <2>1, <2>2
<1>4. QED
  BY <1>2, <1>3 DEF Came

LEMMA PrunerStays ==
    ASSUME TInv, [Next]_vars, NEW r, NEW row, Pruner(r, row)
    PROVE  Pruner(r, row)'
<1>1. PICK q \in Requests \ {r} : Came(q) /\ At(q) >= row.at + Retain
  BY DEF Pruner
<1>2. Came(q)' /\ At(q)' = At(q)
  BY <1>1, CameStays DEF At
<1>3. QED
  BY <1>1, <1>2 DEF Pruner

HInv == TInv /\ HeldInv

\* What HeldInv says of one request and one row.
HeldRow(r, row) ==
    /\ req[r].pc \in {"ask", "query"} => row \in cache \cup live \/ Pruner(r, row)
    /\ req[r].pc = "live" /\ req[r].sure /\ row.at < At(r) /\ row.at >= At(r) - Day =>
           row \in req[r].hist \cup live \/ Pruner(r, row)

\* A request that does not move, while the stores lose nothing but what another
\* request prunes.
LEMMA HeldKept ==
    ASSUME HInv, [Next]_vars, NEW r \in Requests, req'[r] = req[r], cache \subseteq cache',
           \A row \in live : row \in live' \/ Pruner(r, row)',
           NEW row \in req'[r].known
    PROVE  HeldRow(r, row)'
<1>1. HeldRow(r, row)
  BY DEF HInv, HeldInv, HeldRow
<1>2. Pruner(r, row) => Pruner(r, row)'
  BY PrunerStays DEF HInv
<1>3. QED
  BY <1>1, <1>2 DEF HeldRow, At

LEMMA ReceiveHeld ==
    ASSUME HInv, NEW r \in Requests, Receive(r), NEW row \in req'[r].known
    PROVE  HeldRow(r, row)'
<1>1. req \in [Requests -> Request] /\ req[r] \in Request
  BY DEF HInv, TInv, TypeOK
<1>2. /\ req'[r].pc = "ask" /\ req'[r].known = cache \cup live
      /\ cache' = cache /\ live' = live
  BY <1>1 DEF Receive, Request
<1>3. QED
  BY <1>2 DEF HeldRow

LEMMA HistoryHeld ==
    ASSUME HInv, [Next]_vars, NEW r \in Requests, LockHistory(r) \/ QueryHistory(r),
           NEW row \in req'[r].known
    PROVE  HeldRow(r, row)'
<1>1. req \in [Requests -> Request] /\ req[r] \in Request /\ cache' = cache /\ live' = live
  BY DEF HInv, TInv, TypeOK, LockHistory, QueryHistory
<1>2. Pruner(r, row) => Pruner(r, row)'
  BY PrunerStays DEF HInv
<1>3. CASE LockHistory(r)
  <2>1. req'[r].pc = "query" /\ req'[r].known = req[r].known /\ req[r].pc = "ask"
    BY <1>1, <1>3 DEF LockHistory, Request
  <2>2. row \in cache \cup live \/ Pruner(r, row)
    BY <2>1 DEF HInv, HeldInv
  <2>3. QED
    BY <1>1, <1>2, <2>1, <2>2 DEF HeldRow
<1>4. CASE QueryHistory(r)
  <2>1. /\ req'[r].pc = "live" /\ req'[r].known = req[r].known /\ req[r].pc = "query"
        /\ req'[r].row = req[r].row
        /\ req'[r].sure = FALSE \/ req'[r].hist = Earlier(r)
    BY <1>1, <1>4 DEF QueryHistory, Request
  <2>2. row \in cache \cup live \/ Pruner(r, row)
    BY <2>1 DEF HInv, HeldInv
  <2>3. row \in cache /\ row.at < At(r) /\ row.at >= At(r) - Day => row \in Earlier(r)
    BY DEF Earlier
  <2>4. QED
    BY <1>1, <1>2, <2>1, <2>2, <2>3 DEF HeldRow, At
<1>5. QED
  BY <1>3, <1>4

\* Past the scoring there is nothing to hold.
LEMMA PastHeld ==
    ASSUME HInv, NEW r \in Requests,
           Score(r) \/ GeoRead(r) \/ GeoRecord(r) \/ LiveRecord(r)
    PROVE  req'[r].pc \notin {"ask", "query", "live"}
<1>1. req \in [Requests -> Request] /\ req[r] \in Request /\ TypeOK
  BY DEF HInv, TInv, TypeOK
<1>2. CASE Score(r)
  <2>1. PICK n :
          \/ req' = [req EXCEPT ![r] = [@ EXCEPT !.pc = "geo", !.count = n]]
          \/ req' = [req EXCEPT ![r] = [@ EXCEPT !.pc = "geo", !.count = n, !.sure = FALSE]]
    BY <1>2 DEF Score
  <2> DEFINE sure == [req[r] EXCEPT !.pc = "geo", !.count = n]
             off  == [req[r] EXCEPT !.pc = "geo", !.count = n, !.sure = FALSE]
  <2>2. sure.pc = "geo" /\ off.pc = "geo"
    BY <1>1 DEF Request
  <2>3. req' = [req EXCEPT ![r] = sure] \/ req' = [req EXCEPT ![r] = off]
    BY <2>1
  <2> HIDE DEF sure, off
  <2>4. req'[r] = sure \/ req'[r] = off
    BY <1>1, <2>3
  <2>5. QED
    BY <2>2, <2>4
<1>3. CASE GeoRead(r) \/ GeoRecord(r)
  <2> DEFINE at == [Past(r, "place") EXCEPT !.prev = last]
             on == [Past(r, "record") EXCEPT !.speed = Moved(req[r].prev, req[r].row)]
  <2>1. PICK v \in {Past(r, "record"), Past(r, "place"), at, on} : req' = [req EXCEPT ![r] = v]
    BY <1>3 DEF GeoRead, GeoRecord
  <2>2. v.pc \in {"place", "record"}
    BY <1>1, <2>1, PastTyped DEF Request
  <2>3. QED
    BY <1>1, <2>1, <2>2
<1>4. CASE LiveRecord(r)
  BY <1>1, <1>4 DEF LiveRecord, Request
<1>5. QED
  BY <1>2, <1>3, <1>4

\* A request that records its row prunes what it is far ahead of.
LEMMA PrunedHeld ==
    ASSUME HInv, [Next]_vars, NEW q \in Requests, Receive(q) \/ Step(q),
           NEW r \in Requests \ {q}, NEW row \in req'[r].known
    PROVE  HeldRow(r, row)'
<1>1. TypeOK /\ cache' = cache
  BY DEF HInv, TInv, Step, Receive, LockHistory, QueryHistory, Score, GeoRead,
         GeoRecord, LiveRecord
<1>2. req'[r] = req[r]
  <2>1. \E v : req' = [req EXCEPT ![q] = v]
    BY DEF Step, Receive, LockHistory, QueryHistory, Score, GeoRead, GeoRecord, LiveRecord
  <2>2. QED
    BY <1>1, <2>1 DEF TypeOK
<1>3. ASSUME NEW old \in live, old \notin live'
      PROVE  Pruner(r, old)'
  <2>1. live' = WithRow(req[q].row) /\ req[q].pc = "record"
    BY <1>3 DEF Step, Receive, LockHistory, QueryHistory, Score, GeoRead, GeoRecord,
               LiveRecord
  <2>2. ~(old.at > At(q) - Retain)
    BY <1>3, <2>1 DEF WithRow, Pruned, At
  <2>3. Came(q) /\ req[q].row \in Row /\ old \in Rows
    BY <1>1, <2>1 DEF Came, HInv, TInv, RequestInv, TypeOK
  <2>4. At(q) \in Nat /\ old.at \in Nat /\ Retain \in Nat
    BY <2>3, RowIsDated, RowIsPair, WindowsAreNat DEF At
  <2>5. At(q) >= old.at + Retain
    BY <2>2, <2>4
  <2>6. Pruner(r, old)
    BY <2>3, <2>5 DEF Pruner
  <2>7. QED
    BY <2>6, PrunerStays DEF HInv
<1>4. \A old \in live : old \in live' \/ Pruner(r, old)'
  BY <1>3
<1>5. QED
  BY <1>1, <1>2, <1>4, HeldKept

LEMMA ForgetHeld ==
    ASSUME HInv, [Next]_vars, Forget, NEW r \in Requests, NEW row \in req'[r].known
    PROVE  HeldRow(r, row)'
<1>1. CASE live' = live
  <2>1. req' = req /\ cache' = cache
    BY <1>1 DEF Forget
  <2>2. QED
    BY <1>1, <2>1, HeldKept
<1>2. CASE live' # live
  <2>1. /\ req'[r] = [req[r] EXCEPT !.known = @ \cap
                        IF req[r].pc = "live" THEN req[r].hist ELSE cache]
        /\ cache' = cache /\ req[r] \in Request
    BY <1>2 DEF Forget, HInv, TInv, TypeOK
  <2>2. /\ req'[r].pc = req[r].pc /\ req'[r].hist = req[r].hist
        /\ req'[r].known = req[r].known \cap
                        IF req[r].pc = "live" THEN req[r].hist ELSE cache
    BY <2>1 DEF Request
  <2>3. QED
    BY <2>1, <2>2 DEF HeldRow
<1>3. QED
  BY <1>1, <1>2

LEMMA HeldStep == HInv /\ [Next]_vars => HInv'
<1> SUFFICES ASSUME HInv, [Next]_vars PROVE HInv'
  OBVIOUS
<1>1. TInv'
  BY TypedStep DEF HInv
<1>2. ASSUME NEW r \in Requests, NEW row \in req'[r].known
      PROVE  HeldRow(r, row)'
  <2>1. ASSUME NEW q \in Requests, Receive(q) \/ Step(q)
        PROVE  HeldRow(r, row)'
    <3>1. CASE q = r
      <4>1. CASE Receive(r)
        BY <1>2, <4>1, ReceiveHeld
      <4>2. CASE LockHistory(r) \/ QueryHistory(r)
        BY <1>2, <4>2, HistoryHeld
      <4>3. CASE Score(r) \/ GeoRead(r) \/ GeoRecord(r) \/ LiveRecord(r)
        BY <4>3, PastHeld DEF HeldRow
      <4>4. QED
        BY <2>1, <3>1, <4>1, <4>2, <4>3 DEF Step
    <3>2. CASE q # r
      BY <1>2, <2>1, <3>2, PrunedHeld
    <3>3. QED
      BY <3>1, <3>2
  <2>2. CASE Forget
    BY <1>2, <2>2, ForgetHeld
  <2>3. CASE Reconnect \/ (\E new \in Row : Sync(new)) \/ UNCHANGED vars
    <3>1. req' = req /\ live' = live /\ cache \subseteq cache'
      BY <2>3 DEF Reconnect, Sync, vars
    <3>2. QED
      BY <1>2, <3>1, HeldKept
  <2>4. QED
    BY <2>1, <2>2, <2>3 DEF Next
<1>3. HeldInv'
  BY <1>2 DEF HeldInv, HeldRow
<1>4. QED
  BY <1>1, <1>3 DEF HInv

LEMMA HeldInvariant == Spec => []HInv
<1>1. Init => HInv
  <2> SUFFICES ASSUME Init PROVE HInv
    OBVIOUS
  <2>1. TInv
    BY InitTyped
  <2>2. HeldInv
    BY DEF Init, HeldInv, NoRequest
  <2>3. QED
    BY <2>1, <2>2 DEF HInv
<1>2. QED
  BY <1>1, HeldStep, PTL DEF Spec

-----------------------------------------------------------------------------
(* The velocity                                                            *)

\* Of some rows up to a time, one has the latest date.
LEMMA LatestExists ==
    ASSUME NEW rows \in SUBSET Rows, rows # {}, NEW t \in Nat, \A row \in rows : row.at <= t
    PROVE  \E row \in rows : \A other \in rows : other.at <= row.at
<1> DEFINE ago == {t - row.at : row \in rows}
<1>1. \A row \in rows : row.at \in Nat
  BY RowIsPair
<1>2. ago \subseteq Nat /\ ago # {}
  BY <1>1
<1>3. PICK n \in ago : \A m \in ago : ~(<<m, n>> \in OpToRel(<, Nat))
  BY <1>2, WFMin, NatLessThanWellFounded
<1>4. ASSUME NEW m \in ago
      PROVE  n <= m
  <2>1. m \in Nat /\ n \in Nat
    BY <1>2
  <2>2. <<m, n>> \notin OpToRel(<, Nat)
    BY <1>3
  <2>3. ~(m < n)
    BY <2>1, <2>2 DEF OpToRel
  <2>4. QED
    BY <2>1, <2>3
<1>5. PICK row \in rows : n = t - row.at
  BY <1>3
<1>6. \A other \in rows : t - row.at <= t - other.at
  BY <1>4, <1>5
<1>7. \A other \in rows : other.at <= row.at
  BY <1>1, <1>6
<1>8. QED
  BY <1>7

\* A feature counts at least the rows strictly in its window, and at most those
\* of the scored time too.
LEMMA CountsBounds ==
    ASSUME NEW rows \in SUBSET Rows, IsFiniteSet(rows), NEW t \in Nat, NEW n \in Counts(rows, t)
    PROVE  /\ n >= Cardinality({row \in rows : row.at < t /\ row.at >= t - Window})
           /\ n <= Cardinality({row \in rows : row.at <= t /\ row.at >= t - Window})
<1> DEFINE newer == {row \in rows : row.at < t /\ row.at >= t - Window}
           same  == {row \in rows : row.at = t}
           all   == {row \in rows : row.at <= t /\ row.at >= t - Window}
<1>1. IsFiniteSet(newer) /\ IsFiniteSet(same)
  BY FS_Subset
<1>2. Cardinality(newer) \in Nat /\ Cardinality(same) \in Nat
  BY <1>1, FS_CardinalityType
<1>3. \A row \in rows : row.at \in Nat
  BY RowIsPair
<1>4. all = newer \cup same
  BY <1>3, WindowsAreNat
<1>5. newer \cap same = {}
  BY <1>3
<1>6. Cardinality(newer \cap same) = 0
  BY <1>5, FS_EmptySet
<1>7. Cardinality(all) = Cardinality(newer) + Cardinality(same)
  <2> HIDE DEF newer, same, all
  <2>1. Cardinality(newer \cup same) =
          Cardinality(newer) + Cardinality(same) - Cardinality(newer \cap same)
    BY <1>1, FS_Union
  <2>2. QED
    BY <1>2, <1>4, <1>6, <2>1
<1>8. n \in Cardinality(newer)..(Cardinality(newer) + Cardinality(same))
  BY <1>2 DEF Counts, Newer, SameAs
<1>9. QED
  BY <1>2, <1>7, <1>8

LEMMA ThereIsFinite ==
    ASSUME TInv, NEW r \in Requests
    PROVE  IsFiniteSet(There(r))
<1> DEFINE held == cache \cup live \cup req[r].known
           ids  == {row.id : row \in held}
           id   == [row \in held |-> row.id]
<1>1. IsFiniteSet(held)
  BY FS_Union DEF TInv, StoresInv, RequestInv
<1>2. id \in Surjection(held, ids)
  BY DEF Surjection
<1>3. IsFiniteSet(ids)
  BY <1>1, <1>2, FS_Surjection
<1>4. There(r) \subseteq ids
  BY DEF There, Dates
<1>5. QED
  BY <1>3, <1>4, FS_Subset

\* Rows of the stores, one a transaction: no more than the transactions there.
LEMMA NoMoreThanThere ==
    ASSUME TInv, NEW r \in Requests, req[r].pc = "live",
           NEW rows \in SUBSET (cache \cup live), \A a, b \in rows : a.id = b.id => a = b,
           NEW n \in Counts(rows, At(r))
    PROVE  n <= Cardinality(There(r))
<1> DEFINE t   == At(r)
           all == {row \in rows : row.at <= t /\ row.at >= t - Window}
           id  == [row \in all |-> row.id]
<1>1. rows \in SUBSET Rows /\ IsFiniteSet(rows) /\ t \in Nat
  <2>1. IsFiniteSet(cache \cup live) /\ cache \cup live \subseteq Rows
    BY FS_Union DEF TInv, StoresInv, TypeOK, Rows
  <2>2. req[r].row \in Row
    BY DEF TInv, RequestInv, Came
  <2>3. QED
    BY <2>1, <2>2, FS_Subset, RowIsDated DEF At
<1>2. n <= Cardinality(all)
  BY <1>1, CountsBounds
<1>3. \A row \in all : row.id \in There(r)
  <2> TAKE row \in all
  <2>1. row \in Rows /\ row \in cache \cup live /\ row.at \in Nat
    BY <1>1, RowIsPair
  <2>2. row.at \in Dates(r, row.id)
    BY <2>1 DEF Dates
  <2>3. row.at \in (t - Window)..t
    BY <1>1, <2>1, WindowsAreNat
  <2>4. QED
    BY <2>1, <2>2, <2>3 DEF There
<1>4. id \in Injection(all, There(r))
  BY <1>3 DEF Injection, IsInjective
<1>5. Cardinality(all) <= Cardinality(There(r))
  BY <1>4, ThereIsFinite, FS_Injection
<1>6. /\ Cardinality(all) \in Nat /\ Cardinality(There(r)) \in Nat /\ n \in Nat
  <2>1. IsFiniteSet(all)
    BY <1>1, FS_Subset
  <2>2. QED
    BY <1>1, <2>1, ThereIsFinite, FS_CardinalityType, CountsAreNat
<1>7. QED
  BY <1>2, <1>5, <1>6

\* What is counted is of the stores, and has a transaction once.
LEMMA DeduplicatedOnce ==
    ASSUME TInv, NEW r \in Requests
    PROVE  LET rows == Deduplicated(req[r].hist, Recent(r))
           IN  /\ rows \subseteq cache \cup live
               /\ \A a, b \in rows : a.id = b.id => a = b
<1> DEFINE rows == Deduplicated(req[r].hist, Recent(r))
<1>1. req[r].hist \subseteq cache /\ Recent(r) \subseteq live /\ live \subseteq Rows
  BY DEF TInv, RequestInv, Recent, TypeOK
<1>2. rows \subseteq cache \cup live
  BY <1>1 DEF Deduplicated
<1>3. ASSUME NEW a \in rows, NEW b \in rows, a.id = b.id
      PROVE  a = b
  <2>1. CASE a \in Recent(r) /\ b \in Recent(r)
    <3>1. a \in Rows /\ b \in Rows
      BY <1>1, <2>1
    <3>2. (a \notin req[r].hist => a.at >= b.at) /\ (b \notin req[r].hist => b.at >= a.at)
          /\ (\A other \in Recent(r) : other.id # a.id) = FALSE
      BY <1>3, <2>1 DEF Deduplicated
    <3>3. a.at >= b.at /\ b.at >= a.at
      BY <1>3, <2>1 DEF Deduplicated
    <3>4. QED
      BY <1>3, <3>1, <3>3, RowIsPair
  <2>2. CASE a \in req[r].hist /\ b \in req[r].hist
    BY <1>1, <1>3, <2>2 DEF TInv, StoresInv
  <2>3. a \in Recent(r) \cup req[r].hist /\ b \in Recent(r) \cup req[r].hist
    BY DEF Deduplicated
  <2>4. CASE a \in Recent(r) /\ b \notin Recent(r)
    BY <1>3, <2>4 DEF Deduplicated
  <2>5. CASE a \notin Recent(r) /\ b \in Recent(r)
    BY <1>3, <2>5 DEF Deduplicated
  <2>6. QED
    BY <2>1, <2>2, <2>3, <2>4, <2>5
<1>4. QED
  BY <1>2, <1>3

\* A transaction that the scoring owes is counted, if no request is dated so far
\* ahead that it pruned it.
LEMMA OwedIsCounted ==
    ASSUME HInv, NEW r \in Requests, req[r].pc = "live", req[r].sure,
           \A q \in Requests \ {r} : Came(q) => At(q) < At(r) + Retain - Window,
           NEW x \in Owed(r)
    PROVE  \E row \in Deduplicated(req[r].hist, Recent(r)) :
               row.id = x /\ row.at < At(r) /\ row.at >= At(r) - Window
<1> DEFINE t      == At(r)
           recent == {row \in Recent(r) : row.id = x}
<1>1. /\ t \in Nat /\ live \subseteq Rows /\ cache \subseteq Rows /\ req[r].known \subseteq Rows
      /\ req[r].hist \subseteq cache
  <2>1. req[r].row \in Row /\ req[r] \in Request
    BY DEF HInv, TInv, RequestInv, TypeOK, Came
  <2>2. QED
    BY <2>1, RowIsDated DEF HInv, TInv, TypeOK, RequestInv, Rows, Request, At
<1>2. PICK row \in req[r].known : row.id = x /\ row.at <= t
  BY DEF Owed
<1>3. \A s \in cache \cup live \cup req[r].known :
        s.id = x /\ s.at <= t => s.at < t /\ s.at >= t - Window
  <2> TAKE s \in cache \cup live \cup req[r].known
  <2> HAVE s.id = x /\ s.at <= t
  <2>1. s.at \in Dates(r, x)
    BY DEF Dates
  <2>2. s.at \in (t - Window)..(t - 1)
    BY <2>1 DEF Owed
  <2>3. s.at \in Nat
    BY <1>1, RowIsPair
  <2>4. QED
    BY <1>1, <2>2, <2>3, WindowsAreNat
<1>4. row.at \in Nat /\ row.at < t /\ row.at >= t - Window /\ row.at >= t - Day
  <2>1. row.at \in Nat
    BY <1>1, RowIsPair
  <2>2. QED
    BY <1>1, <1>2, <1>3, <2>1, WindowsAreNat
<1>5. ~Pruner(r, row)
  <2>1. ASSUME NEW q \in Requests \ {r}, Came(q), At(q) >= row.at + Retain
        PROVE  FALSE
    <3>1. At(q) \in Nat
      BY <2>1, RowIsDated DEF HInv, TInv, RequestInv, At
    <3>2. At(q) < t + Retain - Window
      BY <2>1
    <3>3. QED
      BY <1>1, <1>4, <2>1, <3>1, <3>2, WindowsAreNat
  <2>2. QED
    BY <2>1 DEF Pruner
<1>6. row \in req[r].hist \cup live
  BY <1>4, <1>5 DEF HInv, HeldInv
<1>7. CASE recent # {}
  <2>1. recent \in SUBSET Rows /\ \A other \in recent : other.at <= t
    BY <1>1 DEF Recent
  <2>2. PICK newest \in recent : \A other \in recent : other.at <= newest.at
    BY <1>1, <1>7, <2>1, LatestExists
  <2>3. newest \in Deduplicated(req[r].hist, Recent(r))
    BY <2>2 DEF Deduplicated
  <2>4. newest \in live /\ newest.id = x /\ newest.at <= t
    BY <2>2 DEF Recent
  <2>5. QED
    BY <1>3, <2>3, <2>4
<1>8. CASE recent = {}
  <2>1. row \notin live
    BY <1>1, <1>2, <1>4, <1>8 DEF Recent
  <2>2. row \in req[r].hist /\ \A other \in Recent(r) : other.id # row.id
    BY <1>2, <1>6, <1>8, <2>1
  <2>3. row \in Deduplicated(req[r].hist, Recent(r))
    BY <2>2 DEF Deduplicated
  <2>4. QED
    BY <1>2, <1>4, <2>3
<1>9. QED
  BY <1>7, <1>8

LEMMA NoLessThanOwed ==
    ASSUME HInv, NEW r \in Requests, req[r].pc = "live", req[r].sure,
           \A q \in Requests \ {r} : Came(q) => At(q) < At(r) + Retain - Window,
           NEW n \in Counts(Deduplicated(req[r].hist, Recent(r)), At(r))
    PROVE  n >= Cardinality(Owed(r))
<1> DEFINE rows  == Deduplicated(req[r].hist, Recent(r))
           newer == {row \in rows : row.at < At(r) /\ row.at >= At(r) - Window}
           owed  == {row \in newer : row.id \in Owed(r)}
           id    == [row \in owed |-> row.id]
<1>1. TInv /\ req[r].row \in Row /\ cache \cup live \subseteq Rows
  BY DEF HInv, TInv, RequestInv, Came, TypeOK, Rows
<1>2. rows \in SUBSET Rows /\ IsFiniteSet(rows) /\ At(r) \in Nat
  BY <1>1, DeduplicatedOnce, DeduplicatedIsFinite, RowIsDated DEF At
<1>3. n >= Cardinality(newer) /\ n \in Nat
  BY <1>2, CountsBounds, CountsAreNat
<1>4. IsFiniteSet(newer) /\ IsFiniteSet(owed)
  BY <1>2, FS_Subset
<1>5. id \in Surjection(owed, Owed(r))
  <2>1. \A x \in Owed(r) : \E row \in owed : row.id = x
    BY OwedIsCounted
  <2>2. QED
    BY <2>1 DEF Surjection
<1>6. Cardinality(Owed(r)) <= Cardinality(owed) /\ IsFiniteSet(Owed(r))
  BY <1>4, <1>5, FS_Surjection
<1>7. Cardinality(owed) <= Cardinality(newer)
  BY <1>4, FS_Subset
<1>8. /\ Cardinality(owed) \in Nat /\ Cardinality(newer) \in Nat
      /\ Cardinality(Owed(r)) \in Nat
  BY <1>4, <1>6, FS_CardinalityType
<1>9. QED
  BY <1>3, <1>6, <1>7, <1>8

\* Only the scoring of a request takes it on.
LEMMA OnlyScores ==
    ASSUME TInv, [Next]_vars, NEW r \in Requests, req[r].pc = "live", req'[r].pc = "geo"
    PROVE  Score(r)
<1>1. TypeOK /\ req[r] \in Request /\ req \in [Requests -> Request]
  BY DEF TInv, TypeOK
<1>2. ASSUME NEW q \in Requests, Receive(q) \/ Step(q)
      PROVE  Score(r)
  <2>1. q = r
    <3>1. \E v : req' = [req EXCEPT ![q] = v]
      BY <1>2 DEF Step, Receive, LockHistory, QueryHistory, Score, GeoRead, GeoRecord,
                  LiveRecord
    <3>2. QED
      BY <1>1, <3>1
  <2>2. QED
    BY <1>2, <2>1 DEF Step, Receive, LockHistory, QueryHistory, GeoRead, GeoRecord, LiveRecord
<1>3. CASE Forget
  <2>1. req'[r] = req[r] \/ \E kept : req'[r] = [req[r] EXCEPT !.known = kept]
    BY <1>3 DEF Forget
  <2>2. req'[r].pc = req[r].pc
    BY <1>1, <2>1 DEF Request
  <2>3. QED
    BY <2>2
<1>4. CASE Reconnect \/ (\E row \in Row : Sync(row)) \/ UNCHANGED vars
  <2>1. req' = req
    BY <1>4 DEF Reconnect, Sync, vars
  <2>2. QED
    BY <2>1
<1>5. QED
  BY <1>2, <1>3, <1>4 DEF Next

\* The count of a scoring, and whether it asked the live window.
LEMMA ScoreCounts ==
    ASSUME TInv, NEW r \in Requests, Score(r)
    PROVE  \/ /\ req'[r].count \in Counts(Deduplicated(req[r].hist, Recent(r)), At(r))
              /\ req'[r].sure = req[r].sure
           \/ /\ req'[r].count \in Counts(req[r].hist, At(r))
              /\ req'[r].sure = FALSE
<1>1. req[r] \in Request /\ req \in [Requests -> Request]
  BY DEF TInv, TypeOK
<1>2. CASE Up("velocity")
  <2>1. PICK n \in Counts(Deduplicated(req[r].hist, Recent(r)), At(r)) \cup
                   Counts(req[r].hist, At(r)) :
          \/ /\ n \in Counts(Deduplicated(req[r].hist, Recent(r)), At(r))
             /\ req' = [req EXCEPT ![r] = [@ EXCEPT !.pc = "geo", !.count = n]]
          \/ /\ n \in Counts(req[r].hist, At(r))
             /\ req' = [req EXCEPT ![r] = [@ EXCEPT !.pc = "geo", !.count = n, !.sure = FALSE]]
    BY DEF Score
  <2>2. QED
    BY <1>1, <2>1 DEF Request
<1>3. CASE ~Up("velocity")
  <2>1. PICK n \in Counts(req[r].hist, At(r)) :
          req' = [req EXCEPT ![r] = [@ EXCEPT !.pc = "geo", !.count = n, !.sure = FALSE]]
    BY <1>3 DEF Score
  <2>2. QED
    BY <1>1, <2>1 DEF Request
<1>4. QED
  BY <1>2, <1>3

\* A transaction is scored with no less than the other transactions it is owed,
\* and no more than those there are, for any requests, dates, windows and
\* failures, whatever the sync moves and the requests prune in between.
THEOREM VelocityExact == Spec => VelocityIsExact
<1> DEFINE Exact(r) == /\ req'[r].sure /\ ~Ahead(r) => req'[r].count >= Cardinality(Owed(r))
                       /\ req'[r].count <= Cardinality(There(r))
<1>1. ASSUME HInv, [Next]_vars, NEW r \in Requests, req[r].pc = "live", req'[r].pc = "geo"
      PROVE  Exact(r)
  <2>1. TInv /\ Score(r)
    BY <1>1, OnlyScores DEF HInv
  <2>2. req'[r].count <= Cardinality(There(r))
    <3>1. CASE req'[r].count \in Counts(Deduplicated(req[r].hist, Recent(r)), At(r))
      BY <1>1, <2>1, <3>1, DeduplicatedOnce, NoMoreThanThere
    <3>2. CASE req'[r].count \in Counts(req[r].hist, At(r))
      <4>1. /\ req[r].hist \subseteq cache \cup live
            /\ \A a, b \in req[r].hist : a.id = b.id => a = b
        BY <2>1 DEF TInv, RequestInv, StoresInv
      <4>2. QED
        BY <1>1, <2>1, <3>2, <4>1, NoMoreThanThere
    <3>3. QED
      BY <2>1, <3>1, <3>2, ScoreCounts
  <2>3. ASSUME req'[r].sure, ~Ahead(r)
        PROVE  req'[r].count >= Cardinality(Owed(r))
    <3>1. /\ req'[r].count \in Counts(Deduplicated(req[r].hist, Recent(r)), At(r))
          /\ req[r].sure
      BY <2>1, <2>3, ScoreCounts
    <3>2. ASSUME NEW q \in Requests \ {r}, Came(q)
          PROVE  At(q) < At(r) + Retain - Window
      <4>1. At(q) \in Nat /\ At(r) \in Nat
        BY <1>1, <2>1, <3>2, RowIsDated DEF TInv, RequestInv, Came, At
      <4>2. ~(At(q) >= At(r) + Retain - Window)
        BY <2>3, <3>2 DEF Came, Ahead
      <4>3. QED
        BY <4>1, <4>2, WindowsAreNat
    <3>3. QED
      BY <1>1, <3>1, <3>2, NoLessThanOwed
  <2>4. QED
    BY <2>2, <2>3
<1>2. HInv /\ [Next]_vars =>
        [\A r \in Requests : req[r].pc = "live" /\ req'[r].pc = "geo" => Exact(r)]_vars
  BY <1>1
<1>3. QED
  BY <1>2, HeldInvariant, PTL DEF Spec, VelocityIsExact

-----------------------------------------------------------------------------
(* The description of a decision                                           *)

LEMMA DerivedSignal ==
    ASSUME NEW f
    PROVE  /\ "amount_above_historical_max" \in FeatureSignals(f) <=> f.max = "exceeds"
           /\ "amount_at_historical_max" \in FeatureSignals(f) <=> f.max = "at"
           /\ "velocity_burst" \in FeatureSignals(f) <=> Burst(f.seen)
           /\ "recent_activity" \in FeatureSignals(f) <=> ~Burst(f.seen) /\ f.seen.hour > 0
           /\ "high_fanout" \in FeatureSignals(f) <=> FanOut \subseteq f.flags
           /\ \A flag \in Flags : flag \in FeatureSignals(f) <=> flag \in f.flags
           /\ FeatureSignals(f) \subseteq Flags \cup DerivedSignals
BY DEF FeatureSignals, DerivedSignals, Flags

\* The items of the description.
Said == {{"new_beneficiary"}, {"new_location", "new_country"}, {"cross_border"},
         {"unusual_hour"}, {"rare_transaction_type"}, {"hourly_amount_spike"}, {"new_ip"}}

LEMMA EvidenceItems ==
    ASSUME NEW f
    PROVE  \A item : item \in Evidence(f) <=>
             \/ item \in Said /\ item \cap f.flags # {}
             \/ item = {"night_time"} /\ "night_time" \in f.flags /\ "unusual_hour" \notin f.flags
             \/ item = {"velocity_burst"} /\ Burst(f.seen)
             \/ item = {"recent_activity"} /\ ~Burst(f.seen) /\ f.seen.hour > 0
             \/ item = {"high_fanout"} /\ FanOut \subseteq f.flags
<1> DEFINE said == [beneficiary |-> {"new_beneficiary"}, location |-> {"new_location", "new_country"},
                 border |-> {"cross_border"}, hour |-> {"unusual_hour"}, type |-> {"rare_transaction_type"},
                 spike |-> {"hourly_amount_spike"}, ip |-> {"new_ip"}]
           items == {said[e] : e \in {e \in DOMAIN said : said[e] \cap f.flags # {}}}
           night == IF "night_time" \in f.flags /\ "unusual_hour" \notin f.flags
                    THEN {{"night_time"}} ELSE {}
           recent == IF f.seen.three >= 4 \/ f.seen.one >= 3 THEN {{"velocity_burst"}}
                     ELSE IF f.seen.hour > 0 THEN {{"recent_activity"}} ELSE {}
           fanout == IF FanOut \subseteq f.flags THEN {{"high_fanout"}} ELSE {}
<1>1. Evidence(f) = items \cup night \cup recent \cup fanout
  BY DEF Evidence
<1>2. DOMAIN said = {"beneficiary", "location", "border", "hour", "type", "spike", "ip"}
  OBVIOUS
<1>3. {said[e] : e \in DOMAIN said} = Said
  BY <1>2 DEF Said
<1> HIDE DEF said
<1>4. \A item : item \in items <=> item \in Said /\ item \cap f.flags # {}
  BY <1>3
<1>5. \A item : item \in night <=>
        item = {"night_time"} /\ "night_time" \in f.flags /\ "unusual_hour" \notin f.flags
  OBVIOUS
<1>6. \A item : item \in recent <=>
        \/ item = {"velocity_burst"} /\ Burst(f.seen)
        \/ item = {"recent_activity"} /\ ~Burst(f.seen) /\ f.seen.hour > 0
  BY DEF Burst
<1>7. \A item : item \in fanout <=> item = {"high_fanout"} /\ FanOut \subseteq f.flags
  OBVIOUS
<1> HIDE DEF items, night, recent, fanout
<1>8. QED
  BY <1>1, <1>4, <1>5, <1>6, <1>7
LEMMA EvidenceIsSignal ==
    ASSUME NEW f, NEW item \in Evidence(f)
    PROVE  /\ item \cap FeatureSignals(f) # {}
           /\ item \subseteq Flags \cup {"velocity_burst", "recent_activity", "high_fanout"}
<1>1. \/ item \in Said /\ item \cap f.flags # {}
      \/ item = {"night_time"} /\ "night_time" \in f.flags
      \/ item = {"velocity_burst"} /\ Burst(f.seen)
      \/ item = {"recent_activity"} /\ ~Burst(f.seen) /\ f.seen.hour > 0
      \/ item = {"high_fanout"} /\ FanOut \subseteq f.flags
  BY EvidenceItems
<1>2. CASE item \in Said /\ item \cap f.flags # {}
  <2>1. item \subseteq Flags
    BY <1>2 DEF Said, Flags
  <2>2. QED
    BY <1>2, <2>1, DerivedSignal
<1>3. CASE item = {"night_time"} /\ "night_time" \in f.flags
  BY <1>3, DerivedSignal DEF Flags
<1>4. CASE item \in {{"velocity_burst"}, {"recent_activity"}, {"high_fanout"}}
  BY <1>1, <1>4, DerivedSignal DEF Said
<1>5. QED
  BY <1>1, <1>2, <1>3, <1>4

\* No two items speak of one signal.
LEMMA EvidenceIsDisjoint ==
    ASSUME NEW f, NEW a \in Evidence(f), NEW b \in Evidence(f), a # b
    PROVE  a \cap b = {}
<1> DEFINE of(sig) == IF sig \in {"new_location", "new_country"}
                      THEN {"new_location", "new_country"} ELSE {sig}
<1>1. \A item \in Evidence(f) :
        \/ item \in Said
        \/ item \in {{"night_time"}, {"velocity_burst"}, {"recent_activity"}, {"high_fanout"}}
  BY EvidenceItems
<1>2. \A item \in Said : \A sig \in item : item = of(sig)
  BY DEF Said
<1>3. \A item \in {{"night_time"}, {"velocity_burst"}, {"recent_activity"}, {"high_fanout"}} :
        \A sig \in item : item = of(sig)
  OBVIOUS
<1>4. \A item \in Evidence(f) : \A sig \in item : item = of(sig)
  BY <1>1, <1>2, <1>3
<1> HIDE DEF of
<1>5. QED
  BY <1>4

\* What is a signal and is not described is one of those that are left out.
LEMMA SignalIsTold ==
    ASSUME NEW f, NEW sig \in FeatureSignals(f),
           sig \in Flags \cup {"velocity_burst", "recent_activity", "high_fanout"},
           sig \notin {"unusual_day", "shared_counterparty", "night_time"}
    PROVE  \E item \in Evidence(f) : sig \in item
<1>1. CASE sig \in Flags
  <2>1. sig \in f.flags
    BY <1>1, DerivedSignal
  <2>2. \E item \in Said : sig \in item
    BY <1>1 DEF Flags, Said
  <2>3. QED
    BY <2>1, <2>2, EvidenceItems
<1>2. CASE sig \in {"velocity_burst", "recent_activity", "high_fanout"}
  <2>1. {sig} \in Evidence(f)
    BY <1>2, DerivedSignal, EvidenceItems
  <2>2. QED
    BY <2>1
<1>3. QED
  BY <1>1, <1>2

LEMMA FourAreFinite ==
    ASSUME NEW a, NEW b, NEW c, NEW d
    PROVE  IsFiniteSet({a, b, c, d})
<1>1. IsFiniteSet({a} \cup {b}) /\ IsFiniteSet({c} \cup {d})
  BY FS_Singleton, FS_Union
<1>2. IsFiniteSet(({a} \cup {b}) \cup ({c} \cup {d}))
  BY <1>1, FS_Union
<1>3. {a, b, c, d} = ({a} \cup {b}) \cup ({c} \cup {d})
  OBVIOUS
<1>4. QED
  BY <1>2, <1>3

LEMMA SignalsAreFinite == IsFiniteSet(Flags \cup DerivedSignals \cup {"amount"})
<1> DEFINE one   == {"new_beneficiary", "new_location", "new_country", "cross_border"}
           two   == {"unusual_hour", "night_time", "unusual_day", "shared_counterparty"}
           three == {"rare_transaction_type", "new_ip", "hourly_amount_spike", "amount"}
           four  == {"amount_above_historical_max", "amount_at_historical_max",
                     "amount_far_above_usual", "velocity_burst"}
           five  == {"recent_activity", "high_fanout", "recent_activity", "high_fanout"}
<1>1. /\ IsFiniteSet(one) /\ IsFiniteSet(two) /\ IsFiniteSet(three)
      /\ IsFiniteSet(four) /\ IsFiniteSet(five)
  BY FourAreFinite
<1>2. Flags \cup DerivedSignals \cup {"amount"} = one \cup two \cup three \cup four \cup five
  BY DEF Flags, DerivedSignals
<1> HIDE DEF one, two, three, four, five
<1>3. IsFiniteSet(one \cup two)
  BY <1>1, FS_Union
<1>4. IsFiniteSet(one \cup two \cup three)
  BY <1>1, <1>3, FS_Union
<1>5. IsFiniteSet(one \cup two \cup three \cup four)
  BY <1>1, <1>4, FS_Union
<1>6. IsFiniteSet(one \cup two \cup three \cup four \cup five)
  BY <1>1, <1>5, FS_Union
<1>7. QED
  BY <1>2, <1>6

\* At least two, in the two ways one says it.
LEMMA TwoDiffer ==
    ASSUME NEW S
    PROVE  /\ Cardinality(S) >= 1 => \E a \in S : TRUE
           /\ Cardinality(S) >= 2 => \E a, b \in S : a # b
           /\ IsFiniteSet(S) /\ (\E a, b \in S : a # b) => Cardinality(S) >= 2
<1>1. Cardinality(S) >= 1 => \E a \in S : TRUE
  <2> SUFFICES ASSUME Cardinality(S) >= 1, ~(\E a \in S : TRUE) PROVE FALSE
    OBVIOUS
  <2>1. S = {}
    OBVIOUS
  <2>2. Cardinality(S) = 0
    BY <2>1, FS_EmptySet
  <2>3. QED
    BY <2>2
<1>2. Cardinality(S) >= 2 => \E a, b \in S : a # b
  <2> SUFFICES ASSUME Cardinality(S) >= 2, \A a, b \in S : a = b
               PROVE  FALSE
    OBVIOUS
  <2>1. PICK a \in S : TRUE
    <3>1. S # {}
      BY FS_EmptySet
    <3>2. QED
      BY <3>1
  <2>2. S = {a}
    BY <2>1
  <2>3. Cardinality(S) = 1
    BY <2>2, FS_Singleton
  <2>4. QED
    BY <2>3
<1>3. ASSUME IsFiniteSet(S), NEW a \in S, NEW b \in S, a # b
      PROVE  Cardinality(S) >= 2
  <2>1. Cardinality({a} \cup {b}) = 2
    <3>1. IsFiniteSet({a}) /\ Cardinality({a}) = 1 /\ b \notin {a}
      BY <1>3, FS_Singleton
    <3>2. QED
      BY <3>1, FS_AddElement
  <2>2. {a} \cup {b} \in SUBSET S
    OBVIOUS
  <2>3. Cardinality({a} \cup {b}) <= Cardinality(S)
    BY <1>3, <2>2, FS_Subset
  <2>4. Cardinality(S) \in Nat
    BY <1>3, FS_CardinalityType
  <2>5. QED
    BY <2>1, <2>3, <2>4
<1>4. QED
  BY <1>1, <1>2, <1>3

\* Two findings of the description are two of the features.
LEMMA TwoFindings ==
    ASSUME NEW f, f.times \in Nat, f.max \in {"none", "at", "exceeds"}, NEW cold,
           Cardinality(Evidence(f)) + (IF AmountNoun(f, cold).said THEN 1 ELSE 0) >= 2
    PROVE  Cardinality(FeatureSignals(f) \cup (IF f.times >= 2 THEN {"amount"} ELSE {})) >= 2
<1> DEFINE found == FeatureSignals(f) \cup (IF f.times >= 2 THEN {"amount"} ELSE {})
<1>1. IsFiniteSet(found)
  <2>1. found \subseteq Flags \cup DerivedSignals \cup {"amount"}
    BY DerivedSignal
  <2>2. QED
    BY <2>1, SignalsAreFinite, FS_Subset
<1>2. CASE AmountNoun(f, cold).said
  <2>1. PICK sig \in found : sig \in {"amount", "amount_above_historical_max",
                                      "amount_at_historical_max"}
    <3>1. f.times >= 2 \/ f.max \in {"at", "exceeds"}
      BY <1>2 DEF AmountNoun
    <3>2. QED
      BY <3>1, DerivedSignal
  <2>2. Evidence(f) # {}
    <3>1. Evidence(f) = {} => Cardinality(Evidence(f)) = 0
      BY FS_EmptySet
    <3>2. Evidence(f) = {} => 0 + 1 >= 2
      BY <1>2, <3>1
    <3>3. QED
      BY <3>2
  <2>3. PICK item \in Evidence(f) : TRUE
    BY <2>2
  <2>4. PICK other \in item : other \in FeatureSignals(f)
    BY <2>3, EvidenceIsSignal
  <2>5. other \in Flags \cup {"velocity_burst", "recent_activity", "high_fanout"}
    BY <2>3, <2>4, EvidenceIsSignal
  <2>6. other # sig
    BY <2>1, <2>5 DEF Flags
  <2>7. QED
    BY <1>1, <2>1, <2>4, <2>6, TwoDiffer
<1>3. CASE ~AmountNoun(f, cold).said
  <2>1. Cardinality(Evidence(f)) + 0 >= 2
    BY <1>3
  <2>2. PICK a \in Evidence(f), b \in Evidence(f) : a # b
    <3>1. \E a, b \in Evidence(f) : a # b
      <4> SUFFICES ASSUME \A a, b \in Evidence(f) : a = b PROVE FALSE
        OBVIOUS
      <4>1. CASE Evidence(f) = {}
        <5>1. Cardinality(Evidence(f)) = 0
          BY <4>1, FS_EmptySet
        <5>2. QED
          BY <2>1, <5>1
      <4>2. CASE Evidence(f) # {}
        <5>1. PICK a \in Evidence(f) : Evidence(f) = {a}
          BY <4>2
        <5>2. Cardinality(Evidence(f)) = 1
          BY <5>1, FS_Singleton
        <5>3. QED
          BY <2>1, <5>2
      <4>3. QED
        BY <4>1, <4>2
    <3>2. QED
      BY <3>1
  <2>3. PICK x \in a : x \in FeatureSignals(f)
    BY EvidenceIsSignal
  <2>4. PICK y \in b : y \in FeatureSignals(f)
    BY EvidenceIsSignal
  <2>5. x # y
    BY <2>2, <2>3, <2>4, EvidenceIsDisjoint
  <2>6. QED
    BY <1>1, <2>3, <2>4, <2>5, TwoDiffer
<1>4. QED
  BY <1>2, <1>3

\* One of the settings of the detectors and of the cold start.
LEMMA DescriptionMatches ==
    ASSUME NEW n \in Nat, NEW f \in Features(SUBSET (Flags \cup FanOut), n),
           NEW s \in [Detectors -> Nat], NEW cold
    PROVE  OneStory(f, s, cold)
<1>0. f.times \in Nat /\ f.max \in {"none", "at", "exceeds"}
  <2>1. f.times \in {0, 2, 5} /\ f.max \in {"none", "at", "exceeds"}
    BY DEF Features
  <2>2. QED
    BY <2>1
<1> DEFINE signals == Explain(f, s, cold)
           amount  == AmountNoun(f, cold)
<1>1. FeatureSignals(f) \subseteq signals
  BY DEF Explain
<1>2. \A sig \in Flags \cup DerivedSignals : sig \in signals => sig \in FeatureSignals(f)
  <2>1. signals \subseteq FeatureSignals(f) \cup Detectors \cup {"cold_start"}
    BY DEF Explain
  <2>2. Detectors \cap (Flags \cup DerivedSignals) = {}
    BY DecisionAssumption DEF DecisionAssumption, Signals
  <2>3. "cold_start" \notin Flags \cup DerivedSignals
    BY DEF Flags, DerivedSignals
  <2>4. QED
    BY <2>1, <2>2, <2>3
<1>3. \A e \in Evidence(f) : e \cap signals # {}
  BY <1>1, EvidenceIsSignal
<1>4. ~({"velocity_burst", "recent_activity"} \subseteq signals)
  BY <1>2, DerivedSignal DEF DerivedSignals
<1>5. /\ amount.max = "exceeds" => "amount_above_historical_max" \in signals
      /\ amount.max = "at" => "amount_at_historical_max" \in signals
  <2>1. amount.max # "none" => amount.max = f.max
    BY DEF AmountNoun
  <2>2. QED
    BY <1>1, <2>1, DerivedSignal
<1> DEFINE spoken == Flags \cup {"velocity_burst", "recent_activity", "high_fanout"}
           told   == UNION Evidence(f)
           left   == {"unusual_day", "shared_counterparty", "night_time"}
<1>6. spoken \cap signals \subseteq told \cup left
  <2>1. \A sig \in spoken : sig \in signals => sig \in FeatureSignals(f)
    BY <1>2 DEF DerivedSignals
  <2>2. ASSUME NEW sig \in spoken, sig \in signals, sig \notin left
        PROVE  sig \in told
    <3>1. PICK item \in Evidence(f) : sig \in item
      BY <2>1, <2>2, SignalIsTold
    <3>2. QED
      BY <3>1
  <2> HIDE DEF spoken, told, left, signals
  <2>3. QED
    BY <2>2
<1>7. Lead("unsafe", f, s, cold) = "multi-signal" =>
        Cardinality(Evidence(f)) + (IF amount.said THEN 1 ELSE 0) >= 2
  BY DEF Lead
<1>8. Lead("unsafe", f, s, cold) = "multi-signal" =>
        Cardinality(FeatureSignals(f) \cup (IF f.times >= 2 THEN {"amount"} ELSE {})) >= 2
  BY <1>0, <1>7, TwoFindings
<1> HIDE DEF signals, amount, spoken, told, left
<1>9. /\ \A e \in Evidence(f) : e \cap signals # {}
      /\ ~({"velocity_burst", "recent_activity"} \subseteq signals)
      /\ amount.max = "exceeds" => "amount_above_historical_max" \in signals
      /\ amount.max = "at" => "amount_at_historical_max" \in signals
      /\ spoken \cap signals \subseteq told \cup left
  BY <1>3, <1>4, <1>5, <1>6
<1>10. QED
  BY <1>8, <1>9, Zenon DEF OneStory, signals, amount, spoken, told, left

\* The description and the signals of a transaction tell one story, for any
\* flags, any counts of recent transactions and any detectors.
THEOREM DescriptionsMatch ==
    ASSUME NEW n \in Nat, NEW f \in Features(SUBSET (Flags \cup FanOut), n),
           call = [fn |-> "explain", arg |-> f]
    PROVE  DescriptionMatchesSignals
<1>1. call.arg = f
  OBVIOUS
<1>2. \A k \in {0, DetectorHigh} : [d \in Detectors |-> k] \in [Detectors -> Nat]
  BY DecisionAssumption DEF DecisionAssumption
<1>3. \A s \in {[d \in Detectors |-> k] : k \in {0, DetectorHigh}} : s \in [Detectors -> Nat]
  BY <1>2
<1>4. \A s \in [Detectors -> Nat], cold \in BOOLEAN : OneStory(f, s, cold)
  BY DescriptionMatches
<1>5. QED
  BY <1>1, <1>3, <1>4 DEF DescriptionMatchesSignals

-----------------------------------------------------------------------------
(* The waterfall of location evidence                                      *)

LEMMA FirstOfFour ==
    ASSUME NEW hits \in SUBSET (1..4), hits # {}
    PROVE  Min(hits) \in hits /\ \A i \in hits : Min(hits) <= i
<1>1. \E m \in hits : \A i \in hits : m <= i
  <2>1. CASE 1 \in hits
    BY <2>1
  <2>2. CASE 1 \notin hits /\ 2 \in hits
    BY <2>2
  <2>3. CASE 1 \notin hits /\ 2 \notin hits /\ 3 \in hits
    BY <2>3
  <2>4. CASE 1 \notin hits /\ 2 \notin hits /\ 3 \notin hits
    <3>1. \A i \in hits : i = 4
      BY <2>4
    <3>2. PICK m \in hits : TRUE
      OBVIOUS
    <3>3. QED
      BY <3>1, <3>2
  <2>5. QED
    BY <2>1, <2>2, <2>3, <2>4
<1>2. QED
  BY <1>1 DEF Min

LEMMA CoordsAreFirst ==
    ASSUME NEW e \in Payloads, NEW locHook \in Hook, NEW ipHook \in Hook
    PROVE  LET plus == ResolvePlusCode(e.location)
               loc  == ResolveLocation(e.location, locHook)
               ip   == ResolveIp(e.ip, ipHook)
               c    == ResolveCoords(e, locHook, ipHook)
           IN  /\ e.coords => c.source = "coordinates" /\ c.point = [kind |-> "given"]
               /\ ~e.coords /\ plus # Nowhere => c.source = "plus_code" /\ c.point = plus
               /\ ~e.coords /\ plus = Nowhere /\ loc # Nowhere =>
                    c.source = "location_registry" /\ c.point = loc
               /\ ~e.coords /\ plus = Nowhere /\ loc = Nowhere /\ ip # Nowhere =>
                    c.source = "ip" /\ c.point = ip
               /\ ~e.coords /\ plus = Nowhere /\ loc = Nowhere /\ ip = Nowhere =>
                    c.source = "unavailable" /\ c.point = Nowhere
<1> DEFINE given == IF e.coords THEN [kind |-> "given"] ELSE Nowhere
           plus  == ResolvePlusCode(e.location)
           loc   == ResolveLocation(e.location, locHook)
           ip    == ResolveIp(e.ip, ipHook)
           tries == << [source |-> "coordinates", point |-> given],
                       [source |-> "plus_code", point |-> plus],
                       [source |-> "location_registry", point |-> loc],
                       [source |-> "ip", point |-> ip] >>
           hits  == {i \in 1..4 : tries[i].point # Nowhere}
           c     == ResolveCoords(e, locHook, ipHook)
<1>1. c = IF hits = {} THEN [source |-> "unavailable", point |-> Nowhere] ELSE tries[Min(hits)]
  BY DEF ResolveCoords
<1>2. /\ e.coords => given = [kind |-> "given"] /\ given # Nowhere
      /\ ~e.coords => given = Nowhere
  BY DEF Nowhere
<1>3. /\ 1 \in hits <=> given # Nowhere
      /\ 2 \in hits <=> plus # Nowhere
      /\ 3 \in hits <=> loc # Nowhere
      /\ 4 \in hits <=> ip # Nowhere
  OBVIOUS
<1>4. hits \in SUBSET (1..4) /\ (hits # {} => Min(hits) \in hits /\ \A i \in hits : Min(hits) <= i)
  BY FirstOfFour
<1>5. /\ tries[1].source = "coordinates" /\ tries[1].point = given
      /\ tries[2].source = "plus_code" /\ tries[2].point = plus
      /\ tries[3].source = "location_registry" /\ tries[3].point = loc
      /\ tries[4].source = "ip" /\ tries[4].point = ip
  OBVIOUS
<1> HIDE DEF c, hits, plus, loc, ip, given, tries
<1>6. ASSUME NEW i \in hits, \A j \in hits : i <= j
      PROVE  c = tries[i]
  <2>1. hits # {} /\ i \in 1..4
    BY <1>4, <1>6
  <2>2. Min(hits) \in hits /\ Min(hits) <= i /\ Min(hits) \in 1..4
    BY <1>4, <1>6, <2>1
  <2>3. i <= Min(hits)
    BY <1>6, <2>2
  <2>4. Min(hits) = i
    BY <2>1, <2>2, <2>3
  <2>5. QED
    BY <1>1, <2>1, <2>4
<1>7. e.coords => c = tries[1]
  BY <1>2, <1>3, <1>4, <1>6
<1>8. ~e.coords /\ plus # Nowhere => c = tries[2]
  BY <1>2, <1>3, <1>4, <1>6
<1>9. ~e.coords /\ plus = Nowhere /\ loc # Nowhere => c = tries[3]
  BY <1>2, <1>3, <1>4, <1>6
<1>10. ~e.coords /\ plus = Nowhere /\ loc = Nowhere /\ ip # Nowhere => c = tries[4]
  BY <1>2, <1>3, <1>4, <1>6
<1>11. ~e.coords /\ plus = Nowhere /\ loc = Nowhere /\ ip = Nowhere => hits = {}
  BY <1>2, <1>3, <1>4
<1>12. hits = {} => c.source = "unavailable" /\ c.point = Nowhere
  BY <1>1
<1>13. QED
  BY <1>2, <1>5, <1>7, <1>8, <1>9, <1>10, <1>11, <1>12 DEF c, plus, loc, ip
\* The two copies of the waterfall agree on every payload and every setting of
\* the hooks, for any registry, and the telemetry credits what resolved.
THEOREM DetailsAgree ==
    ASSUME NEW e \in Payloads, call = [fn |-> "resolve", arg |-> e]
    PROVE  DetailAgrees
<1>1. call.arg = e
  OBVIOUS
<1>2. ASSUME NEW locHook \in Hook, NEW ipHook \in Hook
      PROVE  LET d == ResolveDetail(e, locHook, ipHook)
                 c == ResolveCoords(e, locHook, ipHook)
             IN  /\ d.source = c.source /\ d.point = c.point
                 /\ (d.reason # "none") = (d.source = "unavailable")
                 /\ d.locResolved = (d.source \in {"plus_code", "location_registry"})
                 /\ d.ipResolved = (d.source = "ip")
                 /\ (d.reason = "no_evidence") => (e.location.text # "address" /\ e.ip # "private")
  <2> DEFINE plus   == ResolvePlusCode(e.location)
             loc    == ResolveLocation(e.location, locHook)
             ip     == ResolveIp(e.ip, ipHook)
             viaLoc == IF locHook # "unset" THEN loc
                       ELSE IF e.location.text = "address" THEN Lookup(e.location) ELSE Nowhere
             why    == IF e.location.text = "address" THEN "unknown_location"
                       ELSE IF e.ip = "private" THEN "private_or_malformed_ip" ELSE "no_evidence"
             found(source, point, viaL, viaI) ==
               [source |-> source, point |-> point, locResolved |-> viaL,
                ipResolved |-> viaI, reason |-> "none"]
             d      == ResolveDetail(e, locHook, ipHook)
             c      == ResolveCoords(e, locHook, ipHook)
  <2>1. viaLoc = loc
    BY DEF ResolveLocation, Lookup, Hook
  <2>2. /\ e.coords => d = found("coordinates", [kind |-> "given"], FALSE, FALSE)
        /\ ~e.coords /\ plus # Nowhere => d = found("plus_code", plus, TRUE, FALSE)
        /\ ~e.coords /\ plus = Nowhere /\ viaLoc # Nowhere =>
             d = found("location_registry", viaLoc, TRUE, FALSE)
        /\ ~e.coords /\ plus = Nowhere /\ viaLoc = Nowhere /\ ip # Nowhere =>
             d = found("ip", ip, FALSE, TRUE)
        /\ ~e.coords /\ plus = Nowhere /\ viaLoc = Nowhere /\ ip = Nowhere =>
             d = [found("unavailable", Nowhere, FALSE, FALSE) EXCEPT !.reason = why]
    BY DEF ResolveDetail
  <2>3. /\ e.coords => c.source = "coordinates" /\ c.point = [kind |-> "given"]
        /\ ~e.coords /\ plus # Nowhere => c.source = "plus_code" /\ c.point = plus
        /\ ~e.coords /\ plus = Nowhere /\ loc # Nowhere =>
             c.source = "location_registry" /\ c.point = loc
        /\ ~e.coords /\ plus = Nowhere /\ loc = Nowhere /\ ip # Nowhere =>
             c.source = "ip" /\ c.point = ip
        /\ ~e.coords /\ plus = Nowhere /\ loc = Nowhere /\ ip = Nowhere =>
             c.source = "unavailable" /\ c.point = Nowhere
    BY CoordsAreFirst
  <2> HIDE DEF plus, loc, ip, viaLoc, d, c, why
  <2> SUFFICES /\ d.source = c.source /\ d.point = c.point
               /\ (d.reason # "none") = (d.source = "unavailable")
               /\ d.locResolved = (d.source \in {"plus_code", "location_registry"})
               /\ d.ipResolved = (d.source = "ip")
               /\ (d.reason = "no_evidence") => (e.location.text # "address" /\ e.ip # "private")
    BY DEF d, c
  <2>4. CASE e.coords
    <3>1. /\ d.source = "coordinates" /\ d.point = [kind |-> "given"] /\ d.locResolved = FALSE
          /\ d.ipResolved = FALSE /\ d.reason = "none"
      BY <2>2, <2>4
    <3>2. c.source = "coordinates" /\ c.point = [kind |-> "given"]
      BY <2>3, <2>4
    <3>3. /\ (d.source \in {"plus_code", "location_registry"}) = FALSE
          /\ (d.source = "ip") = FALSE /\ (d.source = "unavailable") = FALSE
          /\ (d.reason # "none") = FALSE
      BY <3>1
    <3>4. QED
      BY <3>1, <3>2, <3>3
  <2>5. CASE ~e.coords /\ plus # Nowhere
    <3>1. /\ d.source = "plus_code" /\ d.point = plus /\ d.locResolved = TRUE
          /\ d.ipResolved = FALSE /\ d.reason = "none"
      BY <2>2, <2>5
    <3>2. c.source = "plus_code" /\ c.point = plus
      BY <2>3, <2>5
    <3>3. /\ (d.source \in {"plus_code", "location_registry"}) = TRUE
          /\ (d.source = "ip") = FALSE /\ (d.source = "unavailable") = FALSE
          /\ (d.reason # "none") = FALSE
      BY <3>1
    <3>4. QED
      BY <3>1, <3>2, <3>3
  <2>6. CASE ~e.coords /\ plus = Nowhere /\ loc # Nowhere
    <3>1. /\ d.source = "location_registry" /\ d.point = loc /\ d.locResolved = TRUE
          /\ d.ipResolved = FALSE /\ d.reason = "none"
      BY <2>1, <2>2, <2>6
    <3>2. c.source = "location_registry" /\ c.point = loc
      BY <2>3, <2>6
    <3>3. /\ (d.source \in {"plus_code", "location_registry"}) = TRUE
          /\ (d.source = "ip") = FALSE /\ (d.source = "unavailable") = FALSE
          /\ (d.reason # "none") = FALSE
      BY <3>1
    <3>4. QED
      BY <3>1, <3>2, <3>3
  <2>7. CASE ~e.coords /\ plus = Nowhere /\ loc = Nowhere /\ ip # Nowhere
    <3>1. /\ d.source = "ip" /\ d.point = ip /\ d.locResolved = FALSE
          /\ d.ipResolved = TRUE /\ d.reason = "none"
      BY <2>1, <2>2, <2>7
    <3>2. c.source = "ip" /\ c.point = ip
      BY <2>3, <2>7
    <3>3. /\ (d.source \in {"plus_code", "location_registry"}) = FALSE
          /\ (d.source = "ip") = TRUE /\ (d.source = "unavailable") = FALSE
          /\ (d.reason # "none") = FALSE
      BY <3>1
    <3>4. QED
      BY <3>1, <3>2, <3>3
  <2>8. CASE ~e.coords /\ plus = Nowhere /\ loc = Nowhere /\ ip = Nowhere
    <3>1. /\ d.source = "unavailable" /\ d.point = Nowhere /\ d.locResolved = FALSE
          /\ d.ipResolved = FALSE /\ d.reason = why
      BY <2>1, <2>2, <2>8
    <3>2. c.source = "unavailable" /\ c.point = Nowhere
      BY <2>3, <2>8
    <3>3. /\ (d.source \in {"plus_code", "location_registry"}) = FALSE
          /\ (d.source = "ip") = FALSE /\ (d.source = "unavailable") = TRUE
          /\ (d.reason # "none") = TRUE
      BY <3>1 DEF why
    <3>4. QED
      BY <3>1, <3>2, <3>3 DEF why
  <2>9. QED
    BY <2>4, <2>5, <2>6, <2>7, <2>8
<1>3. QED
  BY <1>1, <1>2 DEF DetailAgrees


-----------------------------------------------------------------------------
(* The blend of the detectors                                              *)

\* Multiplication by a number of votes keeps the order of scores.
LEMMA TimesKeeps ==
    ASSUME NEW a \in Nat, NEW b \in Nat, a <= b, NEW w \in Nat
    PROVE  a * w <= b * w
<1>1. PICK c \in Nat : b = a + c
  <2>1. b - a \in Nat /\ b = a + (b - a)
    OBVIOUS
  <2>2. QED
    BY <2>1
<1>2. (a + c) * w = a * w + c * w
  OBVIOUS
<1>3. a * w \in Nat /\ c * w \in Nat
  OBVIOUS
<1>4. QED
  BY <1>1, <1>2, <1>3

LEMMA TimesCancels ==
    ASSUME NEW a \in Nat, NEW b \in Nat, NEW w \in Nat \ {0}, a * w <= b * w
    PROVE  a <= b
<1>1. CASE a <= b
  BY <1>1
<1>2. CASE ~(a <= b)
  <2>1. b + 1 <= a
    BY <1>2
  <2>2. (b + 1) * w <= a * w
    BY <2>1, TimesKeeps
  <2>3. (b + 1) * w = b * w + w
    OBVIOUS
  <2>4. a * w \in Nat /\ b * w \in Nat
    OBVIOUS
  <2>5. QED
    BY <2>2, <2>3, <2>4
<1>3. QED
  BY <1>1, <1>2

LEMMA LowestIs ==
    ASSUME NEW set \in SUBSET Nat, set # {}
    PROVE  Min(set) \in set /\ \A n \in set : Min(set) <= n
<1>1. PICK m \in set : \A n \in set : ~(<<n, m>> \in OpToRel(<, Nat))
  BY WFMin, NatLessThanWellFounded
<1>2. ASSUME NEW n \in set PROVE m =< n
  <2>1. ~(n < m)
    BY <1>1 DEF OpToRel
  <2>2. QED
    BY <2>1
<1>3. QED
  BY <1>2 DEF Min

LEMMA HighestIs ==
    ASSUME NEW top \in Nat, NEW set \in SUBSET (0..top), set # {}
    PROVE  Max(set) \in set /\ \A n \in set : n <= Max(set)
<1> DEFINE left == {top - n : n \in set}
<1>1. \A n \in 0..top : top - n \in Nat
  OBVIOUS
<1>2. left \in SUBSET Nat /\ left # {}
  BY <1>1
<1>3. PICK l \in left : \A n \in left : ~(<<n, l>> \in OpToRel(<, Nat))
  BY <1>2, WFMin, NatLessThanWellFounded
<1>4. PICK m \in set : l = top - m
  BY <1>3
<1>5. ASSUME NEW n \in set PROVE m >= n
  <2>1. top - n \in left /\ top - n \in Nat /\ l \in Nat
    BY <1>2
  <2>2. ~(top - n < l)
    BY <1>3, <2>1 DEF OpToRel
  <2>3. m \in 0..top /\ n \in 0..top
    OBVIOUS
  <2>4. QED
    BY <1>4, <2>2, <2>3
<1>6. Max(set) \in set /\ \A n \in set : Max(set) >= n
  BY <1>5 DEF Max
<1>7. \A n \in 0..top : n \in Nat
  OBVIOUS
<1>8. \A n \in set : n \in Nat /\ Max(set) \in Nat
  BY <1>6, <1>7
<1>9. \A n \in set : n <= Max(set)
  BY <1>6, <1>8
<1>10. QED
  BY <1>6, <1>9

LEMMA HigherOfTwo ==
    ASSUME NEW a \in Nat, NEW b \in Nat
    PROVE  Max({a, b}) \in {a, b} /\ a <= Max({a, b}) /\ b <= Max({a, b})
<1>1. a + b \in Nat /\ a \in 0..(a + b) /\ b \in 0..(a + b)
  OBVIOUS
<1>2. {a, b} \in SUBSET (0..(a + b)) /\ {a, b} # {}
  BY <1>1
<1>3. QED
  BY <1>1, <1>2, HighestIs

\* The scores of the detectors that ran.
LEMMA ScoresAre ==
    ASSUME NEW s \in Scores
    PROVE  /\ DOMAIN s \in SUBSET Detectors /\ DOMAIN s # {} /\ IsFiniteSet(DOMAIN s)
           /\ \A d \in DOMAIN s : s[d] \in 0..Top
           /\ Range(s) \in SUBSET (0..Top) /\ Range(s) # {}
<1>1. PICK D \in (SUBSET Detectors) \ {{}} : s \in [D -> 0..Top]
  BY DEF Scores
<1>2. IsFiniteSet(D)
  BY FS_Subset, DecisionAssumption DEF DecisionAssumption
<1>3. DOMAIN s = D /\ \A d \in D : s[d] \in 0..Top
  BY <1>1
<1>4. Range(s) = {s[d] : d \in D}
  BY <1>3 DEF Range
<1>5. D \in SUBSET Detectors /\ D # {}
  BY <1>1
<1>6. \A n \in Range(s) : n \in 0..Top
  BY <1>3, <1>4
<1>7. Range(s) # {}
  BY <1>4, <1>5
<1> HIDE <1>1
<1>8. QED
  BY <1>2, <1>3, <1>5, <1>6, <1>7

LEMMA VotesFinite ==
    ASSUME NEW D \in SUBSET Detectors
    PROVE  IsFiniteSet(Votes(D)) /\ Cardinality(Votes(D)) \in Nat
<1> DEFINE of == [d \in D |-> {d} \X (1..Weight[d])]
           all == {{d} \X (1..Weight[d]) : d \in D}
<1>1. IsFiniteSet(D)
  BY FS_Subset, DecisionAssumption DEF DecisionAssumption
<1>2. of \in Surjection(D, all)
  BY DEF Surjection
<1>3. IsFiniteSet(all)
  BY <1>1, <1>2, FS_Surjection
<1>4. ASSUME NEW d \in D PROVE IsFiniteSet({d} \X (1..Weight[d]))
  <2>1. Weight[d] \in Nat
    BY DecisionAssumption DEF DecisionAssumption
  <2>2. IsFiniteSet({d})
    BY FS_Singleton
  <2>3. IsFiniteSet(1..Weight[d])
    BY <2>1, FS_Interval
  <2>4. QED
    BY <2>2, <2>3, FS_Product
<1>5. \A set \in all : IsFiniteSet(set)
  BY <1>4
<1>6. IsFiniteSet(UNION all)
  <2> HIDE DEF all
  <2>1. QED
    BY <1>3, <1>5, FS_UNION
<1>7. Votes(D) = UNION all
  BY DEF Votes
<1>8. QED
  BY <1>6, <1>7, FS_CardinalityType

LEMMA VoteOf ==
    ASSUME NEW D \in SUBSET Detectors, NEW v \in Votes(D)
    PROVE  v[1] \in D
BY DEF Votes

\* A vote of a detector that has some.
LEMMA SomeVote ==
    ASSUME NEW D \in SUBSET Detectors, NEW d \in D, Weight[d] > 0
    PROVE  Cardinality(Votes(D)) # 0
<1>1. Weight[d] \in Nat
  BY DecisionAssumption DEF DecisionAssumption
<1>2. <<d, 1>> \in Votes(D)
  BY <1>1 DEF Votes
<1>3. QED
  BY <1>2, VotesFinite, FS_EmptySet

LEMMA WeightPositive ==
    ASSUME NEW D \in SUBSET Detectors
    PROVE  WeightOf(D) \in Nat \ {0} /\ Cardinality(Votes(D)) <= WeightOf(D)
BY VotesFinite DEF WeightOf

\* Every vote gives between the lowest and the highest score.
LEMMA PointsBetween ==
    ASSUME NEW s \in Scores, NEW lo \in Nat, NEW hi \in Nat,
           \A d \in DOMAIN s : lo <= s[d] /\ s[d] <= hi
    PROVE  /\ IsFiniteSet(Points(s)) /\ Cardinality(Points(s)) \in Nat
           /\ lo * Cardinality(Votes(DOMAIN s)) <= Cardinality(Points(s))
           /\ Cardinality(Points(s)) <= hi * Cardinality(Votes(DOMAIN s))
<1> DEFINE votes == Votes(DOMAIN s)
           least == votes \X (1..lo)
           most  == votes \X (1..hi)
<1>1. IsFiniteSet(votes) /\ Cardinality(votes) \in Nat
  BY ScoresAre, VotesFinite
<1>2. /\ IsFiniteSet(1..lo) /\ Cardinality(1..lo) = lo
      /\ IsFiniteSet(1..hi) /\ Cardinality(1..hi) = hi
  BY FS_Interval
<1>3. /\ IsFiniteSet(least) /\ Cardinality(least) = Cardinality(votes) * lo
      /\ IsFiniteSet(most) /\ Cardinality(most) = Cardinality(votes) * hi
  BY <1>1, <1>2, FS_Product
<1>4. \A v \in votes : v[1] \in DOMAIN s /\ s[v[1]] \in Nat
  BY ScoresAre, VoteOf
<1> HIDE DEF votes
<1>5. Points(s) = UNION {{v} \X (1..s[v[1]]) : v \in votes}
  BY DEF Points, votes
<1>6. least \subseteq Points(s)
  <2>1. \A v \in votes : \A p \in 1..lo : p \in 1..s[v[1]]
    BY <1>4
  <2>2. QED
    BY <1>5, <2>1
<1>7. Points(s) \subseteq most
  <2>1. \A v \in votes : \A p \in 1..s[v[1]] : p \in 1..hi
    BY <1>4
  <2>2. QED
    BY <1>5, <2>1
<1>8. /\ IsFiniteSet(Points(s)) /\ Cardinality(Points(s)) <= Cardinality(most)
      /\ Cardinality(least) <= Cardinality(Points(s))
  BY <1>3, <1>6, <1>7, FS_Subset
<1>9. Cardinality(Points(s)) \in Nat
  BY <1>8, FS_CardinalityType
<1>10. Cardinality(votes) * lo = lo * Cardinality(votes)
       /\ Cardinality(votes) * hi = hi * Cardinality(votes)
  BY <1>1
<1>11. QED
  BY <1>3, <1>8, <1>9, <1>10 DEF votes


Together(s) == {n \in Range(s) : \E d, e \in DOMAIN s : d # e /\ s[d] >= n /\ s[e] >= n}

\* What two detectors both reach, the second highest reaches.
LEMMA SecondAtLeast ==
    ASSUME NEW s \in Scores, NEW d \in DOMAIN s, NEW e \in DOMAIN s, d # e
    PROVE  /\ SecondHighest(s) \in Together(s)
           /\ \A n \in 0..Top : n <= s[d] /\ n <= s[e] => n <= SecondHighest(s)
<1>1. /\ \A c \in DOMAIN s : s[c] \in 0..Top /\ s[c] \in Range(s)
      /\ Range(s) \in SUBSET (0..Top) /\ Top \in Nat
  BY ScoresAre, DecisionAssumption DEF Range, DecisionAssumption
<1>2. PICK low \in Together(s) : \A n \in 0..Top : n <= s[d] /\ n <= s[e] => n <= low
  <2>1. CASE s[d] <= s[e]
    <3>1. s[d] \in Together(s)
      BY <1>1, <2>1 DEF Together
    <3>2. QED
      BY <3>1
  <2>2. CASE s[e] <= s[d]
    <3>1. s[e] \in Together(s)
      BY <1>1, <2>2 DEF Together
    <3>2. QED
      BY <3>1
  <2>3. s[d] <= s[e] \/ s[e] <= s[d]
    BY <1>1
  <2>4. QED
    BY <2>1, <2>2, <2>3
<1>3. Together(s) \in SUBSET (0..Top) /\ Together(s) # {}
  BY <1>1, <1>2 DEF Together
<1>4. SecondHighest(s) = Max(Together(s))
  BY DEF SecondHighest, Together
<1>5. SecondHighest(s) \in Together(s) /\ low <= SecondHighest(s)
  BY <1>1, <1>2, <1>3, <1>4, HighestIs
<1>6. ASSUME NEW n \in 0..Top, n <= s[d], n <= s[e] PROVE n <= SecondHighest(s)
  <2>1. low \in 0..Top /\ SecondHighest(s) \in 0..Top /\ n <= low
    BY <1>2, <1>3, <1>5, <1>6
  <2>2. QED
    BY <1>5, <2>1
<1>7. QED
  BY <1>5, <1>6

LEMMA TwoRan ==
    ASSUME NEW s \in Scores, Cardinality(DOMAIN s) # 1
    PROVE  \E d, e \in DOMAIN s : d # e
<1>1. PICK d \in DOMAIN s : TRUE
  BY ScoresAre
<1>2. DOMAIN s # {d}
  BY FS_Singleton
<1>3. QED
  BY <1>1, <1>2

\* The risk of several detectors is what their votes give or the second highest
\* score, whichever is more.
LEMMA BlendIs ==
    ASSUME NEW s \in Scores
    PROVE  /\ Blend(s) \in Nat
           /\ Cardinality(Points(s)) <= Blend(s)
           /\ Cardinality(DOMAIN s) # 1 =>
                SecondHighest(s) \in 0..Top /\ SecondHighest(s) * WeightOf(DOMAIN s) <= Blend(s)
           /\ \/ Blend(s) = Cardinality(Points(s))
              \/ /\ Cardinality(DOMAIN s) # 1
                 /\ Blend(s) = SecondHighest(s) * WeightOf(DOMAIN s)
<1> DEFINE mean == Cardinality(Points(s))
           w == WeightOf(DOMAIN s)
<1>1. mean \in Nat
  <2>1. \A d \in DOMAIN s : 0 <= s[d] /\ s[d] <= Top
    BY ScoresAre
  <2>2. 0 \in Nat /\ Top \in Nat
    BY DecisionAssumption DEF DecisionAssumption
  <2>3. QED
    BY <2>1, <2>2, PointsBetween
<1>2. w \in Nat
  BY ScoresAre, WeightPositive
<1> HIDE DEF mean, w
<1>3. CASE Cardinality(DOMAIN s) = 1
  BY <1>1, <1>3 DEF Blend, mean
<1>4. CASE Cardinality(DOMAIN s) # 1
  <2>1. SecondHighest(s) \in 0..Top
    <3>1. SecondHighest(s) \in Together(s)
      BY <1>4, TwoRan, SecondAtLeast
    <3>2. QED
      BY <3>1, ScoresAre DEF Together
  <2>2. w * SecondHighest(s) \in Nat /\ w * SecondHighest(s) = SecondHighest(s) * w
    BY <1>2, <2>1
  <2>3. Blend(s) = Max({mean, w * SecondHighest(s)})
    BY <1>4 DEF Blend, mean, w
  <2> DEFINE second == w * SecondHighest(s)
  <2> HIDE DEF second
  <2>4. /\ Max({mean, second}) \in {mean, second} /\ mean <= Max({mean, second})
        /\ second <= Max({mean, second})
    BY <1>1, <2>2, HigherOfTwo DEF second
  <2>5. Blend(s) \in {mean, second} /\ mean <= Blend(s) /\ second <= Blend(s)
    BY <2>3, <2>4 DEF second
  <2>6. second = SecondHighest(s) * w /\ second \in Nat
    BY <2>2 DEF second
  <2>7. QED
    BY <1>1, <1>4, <2>1, <2>5, <2>6 DEF mean, w
<1>5. QED
  BY <1>3, <1>4

\* The tier of a risk.
LEMMA TierIs ==
    ASSUME NEW s, AtLeast(s, Cuts.high) => AtLeast(s, Cuts.unsafe),
           AtLeast(s, Cuts.unsafe) => AtLeast(s, Cuts.review)
    PROVE  TierOf(s) = IF AtLeast(s, Cuts.unsafe) THEN 2
                       ELSE IF AtLeast(s, Cuts.review) THEN 1 ELSE 0
<1> DEFINE strength == <<0, 0, 0, 0, 0>>
<1>1. PickUnsafe(strength) \in Range(UnsafeCode)
  <2>1. \A i \in 1..5 : strength[i] = 0
    OBVIOUS
  <2>2. \E i \in 1..5 : \A j \in 1..5 : \/ strength[i] > strength[j]
                                        \/ strength[i] = strength[j] /\ i <= j
    BY <2>1
  <2>3. PICK i \in 1..5 : PickUnsafe(strength) = UnsafeCode[i]
    BY <2>2 DEF PickUnsafe
  <2>4. DOMAIN UnsafeCode = 1..5
    BY DEF UnsafeCode
  <2>5. QED
    BY <2>3, <2>4 DEF Range
<1>2. Range(UnsafeCode) = {"BF-301", "BF-302", "BF-303", "BF-304", "BF-305"}
  <2>1. DOMAIN UnsafeCode = 1..5
    BY DEF UnsafeCode
  <2>2. 1..5 = {1, 2, 3, 4, 5}
    OBVIOUS
  <2>3. QED
    BY <2>1, <2>2 DEF Range, UnsafeCode
<1>3. StatusOf(PickUnsafe(strength)) = "unsafe"
  BY <1>1, <1>2 DEF StatusOf
<1>4. /\ StatusOf("BF-100") = "safe" /\ StatusOf("BF-110") = "safe"
      /\ StatusOf("BF-200") = "review" /\ StatusOf("BF-400") = "unsafe"
  BY <1>2 DEF StatusOf
<1>5. Tier["safe"] = 0 /\ Tier["review"] = 1 /\ Tier["unsafe"] = 2
  BY DEF Tier
<1> DEFINE code == Decide(s, strength)
<1>6. CASE AtLeast(s, Cuts.high)
  <2>1. code = "BF-400"
    BY <1>6 DEF Decide
  <2>2. QED
    BY <1>4, <1>5, <1>6, <2>1 DEF TierOf
<1>7. CASE ~AtLeast(s, Cuts.high) /\ AtLeast(s, Cuts.unsafe)
  <2>1. code = PickUnsafe(strength)
    BY <1>7 DEF Decide
  <2>2. QED
    BY <1>3, <1>5, <1>7, <2>1 DEF TierOf
<1>8. CASE ~AtLeast(s, Cuts.unsafe) /\ AtLeast(s, Cuts.review)
  <2>1. code = "BF-200"
    BY <1>8 DEF Decide
  <2>2. QED
    BY <1>4, <1>5, <1>8, <2>1 DEF TierOf
<1>9. CASE ~AtLeast(s, Cuts.review)
  <2>1. code \in {"BF-110", "BF-100"}
    BY <1>9 DEF Decide
  <2>2. QED
    BY <1>4, <1>5, <1>9, <2>1 DEF TierOf
<1>10. QED
  BY <1>6, <1>7, <1>8, <1>9

LEMMA TierOfRisk ==
    ASSUME NEW s \in Scores
    PROVE  TierOf(s) = IF AtLeast(s, Cuts.unsafe) THEN 2
                       ELSE IF AtLeast(s, Cuts.review) THEN 1 ELSE 0
<1> DEFINE w == WeightOf(DOMAIN s)
<1>1. w \in Nat /\ Blend(s) \in Nat
  BY ScoresAre, WeightPositive, BlendIs
<1>2. /\ Cuts.review \in Nat /\ Cuts.unsafe \in Nat /\ Cuts.high \in Nat
      /\ Cuts.review <= Cuts.unsafe /\ Cuts.unsafe <= Cuts.high
  BY DecisionAssumption DEF DecisionAssumption
<1> HIDE DEF w
<1>3. Cuts.review * w <= Cuts.unsafe * w /\ Cuts.unsafe * w <= Cuts.high * w
  BY <1>1, <1>2, TimesKeeps
<1>4. Cuts.review * w \in Nat /\ Cuts.unsafe * w \in Nat /\ Cuts.high * w \in Nat
  BY <1>1, <1>2
<1>5. /\ AtLeast(s, Cuts.high) <=> Cuts.high * w <= Blend(s)
      /\ AtLeast(s, Cuts.unsafe) <=> Cuts.unsafe * w <= Blend(s)
      /\ AtLeast(s, Cuts.review) <=> Cuts.review * w <= Blend(s)
  BY <1>1, <1>4 DEF AtLeast, w
<1>6. /\ AtLeast(s, Cuts.high) => AtLeast(s, Cuts.unsafe)
      /\ AtLeast(s, Cuts.unsafe) => AtLeast(s, Cuts.review)
  BY <1>1, <1>3, <1>4, <1>5
<1>7. QED
  BY <1>6, TierIs

\* The tier is bounded by those of the scores the risk is between.
LEMMA TierFollows ==
    ASSUME NEW s \in Scores, NEW n \in Nat
    PROVE  /\ n * WeightOf(DOMAIN s) <= Blend(s) => Reached(n) <= TierOf(s)
           /\ Blend(s) <= n * WeightOf(DOMAIN s) => TierOf(s) <= Reached(n)
<1> DEFINE w == WeightOf(DOMAIN s)
           b == Blend(s)
<1>1. w \in Nat \ {0} /\ b \in Nat
  BY ScoresAre, WeightPositive, BlendIs
<1>2. /\ Cuts.review \in Nat /\ Cuts.unsafe \in Nat /\ Cuts.review <= Cuts.unsafe
  BY DecisionAssumption DEF DecisionAssumption
<1>3. \A cut \in Nat : AtLeast(s, cut) <=> cut * w <= b
  BY <1>1 DEF AtLeast
<1> HIDE DEF w, b
<1>4. \A cut \in Nat : cut * w \in Nat
  BY <1>1
<1>5. TierOf(s) = IF AtLeast(s, Cuts.unsafe) THEN 2
                  ELSE IF AtLeast(s, Cuts.review) THEN 1 ELSE 0
  BY TierOfRisk
<1>6. Reached(n) = IF Cuts.unsafe <= n THEN 2 ELSE IF Cuts.review <= n THEN 1 ELSE 0
  BY <1>2 DEF Reached
<1>7. ASSUME n * w <= b, NEW cut \in Nat, cut <= n PROVE AtLeast(s, cut)
  <2>1. cut * w <= n * w
    BY <1>1, <1>7, TimesKeeps
  <2>2. cut * w \in Nat /\ n * w \in Nat
    BY <1>4
  <2>3. QED
    BY <1>1, <1>3, <1>7, <2>1, <2>2
<1>8. ASSUME b <= n * w, NEW cut \in Nat, AtLeast(s, cut) PROVE cut <= n
  <2>1. cut * w \in Nat /\ n * w \in Nat /\ cut * w <= b
    BY <1>3, <1>4, <1>8
  <2>2. cut * w <= n * w
    BY <1>1, <1>8, <2>1
  <2>3. QED
    BY <1>1, <2>2, TimesCancels
<1>9. n * w <= b => Reached(n) <= TierOf(s)
  BY <1>2, <1>5, <1>6, <1>7
<1>10. b <= n * w => TierOf(s) <= Reached(n)
  BY <1>2, <1>5, <1>6, <1>8
<1>11. QED
  BY <1>9, <1>10 DEF w, b


\* One score more: the same detectors, as many points or more, and a second highest
\* score that is no lower.
LEMMA RaisedBlend ==
    ASSUME NEW s \in Scores, NEW d \in DOMAIN s, s[d] < Top,
           NEW t, t = [s EXCEPT ![d] = @ + 1]
    PROVE  t \in Scores /\ DOMAIN t = DOMAIN s /\ Blend(s) <= Blend(t)
<1>1. Top \in Nat /\ \A c \in DOMAIN s : s[c] \in 0..Top
  BY ScoresAre, DecisionAssumption DEF DecisionAssumption
<1>2. /\ DOMAIN t = DOMAIN s
      /\ \A c \in DOMAIN s : t[c] \in 0..Top /\ s[c] <= t[c]
  BY <1>1
<1>3. t \in Scores
  <2>1. t = [c \in DOMAIN s |-> t[c]]
    OBVIOUS
  <2>2. t \in [DOMAIN s -> 0..Top]
    BY <1>2, <2>1
  <2>3. DOMAIN s \in (SUBSET Detectors) \ {{}}
    BY ScoresAre
  <2>4. QED
    BY <2>2, <2>3 DEF Scores
<1>4. Cardinality(Points(s)) <= Cardinality(Points(t))
  <2> DEFINE votes == Votes(DOMAIN s)
  <2>1. /\ Points(s) = UNION {{v} \X (1..s[v[1]]) : v \in votes}
        /\ Points(t) = UNION {{v} \X (1..t[v[1]]) : v \in votes}
    BY <1>2 DEF Points
  <2>2. \A v \in votes : v[1] \in DOMAIN s
    BY ScoresAre, VoteOf
  <2>3. \A v \in votes : \A p \in 1..s[v[1]] : p \in 1..t[v[1]]
    BY <1>1, <1>2, <2>2
  <2> HIDE DEF votes
  <2>4. Points(s) \subseteq Points(t)
    <3>1. ASSUME NEW q \in Points(s) PROVE q \in Points(t)
      <4>1. PICK v \in votes : q \in {v} \X (1..s[v[1]])
        BY <2>1
      <4>2. q \in {v} \X (1..t[v[1]])
        BY <2>3, <4>1
      <4>3. QED
        BY <2>1, <4>2
    <3>2. QED
      BY <3>1
  <2>5. IsFiniteSet(Points(t))
    <3>1. \A c \in DOMAIN t : 0 <= t[c] /\ t[c] <= Top
      BY <1>2
    <3>2. 0 \in Nat
      OBVIOUS
    <3>3. QED
      BY <1>1, <1>3, <3>1, <3>2, PointsBetween
  <2>6. QED
    BY <2>4, <2>5, FS_Subset
<1>5. ASSUME Cardinality(DOMAIN s) # 1
      PROVE  SecondHighest(s) * WeightOf(DOMAIN s) <= SecondHighest(t) * WeightOf(DOMAIN s)
  <2>1. SecondHighest(s) \in Together(s)
    BY <1>5, TwoRan, SecondAtLeast
  <2>2. PICK a \in DOMAIN s, b \in DOMAIN s :
               a # b /\ s[a] >= SecondHighest(s) /\ s[b] >= SecondHighest(s)
    BY <2>1 DEF Together
  <2>3. SecondHighest(s) \in 0..Top /\ SecondHighest(t) \in 0..Top
    BY <1>2, <1>3, <1>5, BlendIs
  <2>4. SecondHighest(s) <= t[a] /\ SecondHighest(s) <= t[b]
    <3>1. /\ s[a] \in 0..Top /\ t[a] \in 0..Top /\ s[a] <= t[a]
          /\ s[b] \in 0..Top /\ t[b] \in 0..Top /\ s[b] <= t[b]
      BY <1>1, <1>2
    <3>2. QED
      BY <2>2, <2>3, <3>1
  <2>5. SecondHighest(s) <= SecondHighest(t)
    BY <1>2, <1>3, <2>2, <2>3, <2>4, SecondAtLeast
  <2>6. WeightOf(DOMAIN s) \in Nat
    BY ScoresAre, WeightPositive
  <2>7. QED
    BY <2>3, <2>5, <2>6, TimesKeeps
<1>6. Blend(s) <= Blend(t)
  <2>1. /\ Blend(s) \in Nat /\ Blend(t) \in Nat
        /\ Cardinality(Points(t)) <= Blend(t)
        /\ Cardinality(DOMAIN s) # 1 =>
             SecondHighest(t) \in 0..Top /\ SecondHighest(t) * WeightOf(DOMAIN s) <= Blend(t)
    BY <1>2, <1>3, BlendIs
  <2>2. CASE Blend(s) = Cardinality(Points(s))
    <3>1. Cardinality(Points(t)) \in Nat
      <4>1. \A c \in DOMAIN t : 0 <= t[c] /\ t[c] <= Top
        BY <1>2
      <4>2. 0 \in Nat
        OBVIOUS
      <4>3. QED
        BY <1>1, <1>3, <4>1, <4>2, PointsBetween
    <3>2. QED
      BY <1>4, <2>1, <2>2, <3>1
  <2>3. CASE Cardinality(DOMAIN s) # 1 /\ Blend(s) = SecondHighest(s) * WeightOf(DOMAIN s)
    <3> DEFINE after == SecondHighest(t) * WeightOf(DOMAIN s)
    <3>1. after \in Nat
      <4>1. WeightOf(DOMAIN s) \in Nat /\ SecondHighest(t) \in Nat
        BY <1>1, <2>1, <2>3, ScoresAre, WeightPositive
      <4>2. QED
        BY <4>1
    <3>2. Blend(s) <= after /\ after <= Blend(t)
      BY <1>5, <2>1, <2>3
    <3> HIDE DEF after
    <3>3. QED
      BY <2>1, <3>1, <3>2
  <2>4. QED
    BY <2>2, <2>3, BlendIs
<1>7. QED
  BY <1>2, <1>3, <1>6

LEMMA TierGrows ==
    ASSUME NEW s \in Scores, NEW t \in Scores, DOMAIN t = DOMAIN s, Blend(s) <= Blend(t)
    PROVE  TierOf(s) <= TierOf(t)
<1> DEFINE w == WeightOf(DOMAIN s)
<1>1. w \in Nat /\ Blend(s) \in Nat /\ Blend(t) \in Nat
  BY ScoresAre, WeightPositive, BlendIs
<1>2. Cuts.review \in Nat /\ Cuts.unsafe \in Nat
  BY DecisionAssumption DEF DecisionAssumption
<1>3. ASSUME NEW cut \in Nat, AtLeast(s, cut) PROVE AtLeast(t, cut)
  <2>1. cut * w \in Nat /\ cut * w <= Blend(s)
    BY <1>1, <1>3 DEF AtLeast
  <2> DEFINE bar == cut * w
  <2>2. bar \in Nat /\ bar <= Blend(s)
    BY <2>1
  <2> HIDE DEF bar
  <2>3. Blend(t) >= bar
    BY <1>1, <2>2
  <2>4. QED
    BY <2>3 DEF AtLeast, bar
<1>4. QED
  BY <1>2, <1>3, TierOfRisk

\* Detectors that agree are never averaged away, for any detectors, weights, scores
\* and cuts: two that reach a cut decide at least its tier, a higher score never
\* lowers the tier, and the risk is between the lowest and the highest score
\* (Ensemble.blend, ensemble.py:35-49, and Tiering.decide, codes.py:172-190).
THEOREM AgreementWins ==
    ASSUME NEW s \in Scores, call = [fn |-> "blend", arg |-> s]
    PROVE  AgreementDecides
<1> DEFINE w == WeightOf(DOMAIN s)
<1>1. /\ Top \in Nat /\ \A d \in DOMAIN s : s[d] \in 0..Top
      /\ \A d \in DOMAIN s : s[d] \in Range(s)
      /\ Range(s) \in SUBSET (0..Top) /\ Range(s) # {}
  BY ScoresAre, DecisionAssumption DEF DecisionAssumption, Range
<1>2. w \in Nat \ {0} /\ Blend(s) \in Nat /\ Cardinality(Votes(DOMAIN s)) \in Nat
  BY ScoresAre, WeightPositive, BlendIs, VotesFinite
<1>3. ASSUME NEW d \in DOMAIN s, NEW e \in DOMAIN s, d # e
      PROVE  Reached(Min({s[d], s[e]})) <= TierOf(s)
  <2> DEFINE n == Min({s[d], s[e]})
  <2>1. n \in 0..Top /\ n <= s[d] /\ n <= s[e]
    <3>1. {s[d], s[e]} \in SUBSET Nat /\ {s[d], s[e]} # {}
      BY <1>1
    <3>2. n \in {s[d], s[e]} /\ \A m \in {s[d], s[e]} : n <= m
      BY <3>1, LowestIs
    <3>3. QED
      BY <1>1, <3>2
  <2> HIDE DEF n
  <2>2. n <= SecondHighest(s)
    BY <1>3, <2>1, SecondAtLeast
  <2>3. Cardinality(DOMAIN s) # 1
    BY <1>3, ScoresAre, FS_Singleton
  <2>4. SecondHighest(s) \in Nat /\ SecondHighest(s) * w <= Blend(s)
    BY <1>1, <2>3, BlendIs
  <2>5. n * w <= SecondHighest(s) * w
    BY <1>2, <2>1, <2>2, <2>4, TimesKeeps
  <2>6. n * w \in Nat /\ SecondHighest(s) * w \in Nat
    BY <1>2, <2>1, <2>4
  <2> HIDE DEF w
  <2>7. n * w <= Blend(s)
    BY <1>2, <2>4, <2>5, <2>6
  <2>8. n \in Nat
    BY <2>1
  <2>9. QED
    BY <2>7, <2>8, TierFollows DEF n, w
<1>4. ASSUME NEW d \in DOMAIN s, s[d] < Top
      PROVE  TierOf(s) <= TierOf([s EXCEPT ![d] = @ + 1])
  BY <1>4, RaisedBlend, TierGrows
<1>5. TierOf(s) <= Reached(Max(Range(s)))
  <2> DEFINE hi == Max(Range(s))
  <2>1. hi \in 0..Top /\ \A n \in Range(s) : n <= hi
    BY <1>1, HighestIs
  <2> HIDE DEF hi
  <2>2. \A d \in DOMAIN s : 0 <= s[d] /\ s[d] <= hi
    BY <1>1, <2>1
  <2>3. hi \in Nat /\ 0 \in Nat
    BY <2>1
  <2> DEFINE votes == Cardinality(Votes(DOMAIN s))
             points == Cardinality(Points(s))
  <2>4. points \in Nat /\ points <= hi * votes
    BY <2>2, <2>3, PointsBetween
  <2>5. votes \in Nat /\ votes <= w
    BY <1>2, ScoresAre, WeightPositive
  <2> HIDE DEF votes, w
  <2>6. hi * votes <= hi * w
    <3>1. votes * hi <= w * hi
      BY <1>2, <2>3, <2>5, TimesKeeps
    <3>2. votes * hi = hi * votes /\ w * hi = hi * w
      BY <1>2, <2>3, <2>5
    <3>3. QED
      BY <3>1, <3>2
  <2>7. hi * votes \in Nat /\ hi * w \in Nat
    BY <1>2, <2>3, <2>5
  <2>8. CASE Blend(s) = points
    <3>1. Blend(s) <= hi * w
      BY <2>4, <2>6, <2>7, <2>8
    <3>2. QED
      BY <2>3, <3>1, TierFollows DEF hi, w
  <2>9. CASE Cardinality(DOMAIN s) # 1 /\ Blend(s) = SecondHighest(s) * w
    <3>1. SecondHighest(s) \in Range(s)
      BY <2>9, TwoRan, SecondAtLeast DEF Together
    <3>2. SecondHighest(s) \in Nat /\ SecondHighest(s) <= hi
      BY <1>1, <2>1, <3>1
    <3>3. SecondHighest(s) * w <= hi * w
      BY <1>2, <2>3, <3>2, TimesKeeps
    <3>4. QED
      BY <2>3, <2>9, <3>3, TierFollows DEF hi, w
  <2>10. QED
    BY <2>8, <2>9, BlendIs DEF points, w
<1>6. ASSUME NEW c \in DOMAIN s, Weight[c] > 0
      PROVE  Reached(Min(Range(s))) <= TierOf(s)
  <2> DEFINE lo == Min(Range(s))
             votes == Cardinality(Votes(DOMAIN s))
             points == Cardinality(Points(s))
  <2>1. lo \in Range(s) /\ \A n \in Range(s) : lo <= n
    <3>1. Range(s) \in SUBSET Nat
      BY <1>1
    <3>2. QED
      BY <1>1, <3>1, LowestIs
  <2>2. lo \in Nat
    BY <1>1, <2>1
  <2> HIDE DEF lo
  <2>3. \A d \in DOMAIN s : lo <= s[d] /\ s[d] <= Top
    BY <1>1, <2>1
  <2>4. lo * votes <= points /\ points \in Nat
    BY <1>1, <2>2, <2>3, PointsBetween
  <2>5. votes # 0
    BY <1>6, ScoresAre, SomeVote
  <2>6. w = votes
    BY <2>5 DEF WeightOf
  <2>7. points <= Blend(s)
    BY BlendIs
  <2>8. lo * votes \in Nat
    BY <1>2, <2>2
  <2> HIDE DEF votes, points, w
  <2>9. lo * w <= Blend(s)
    BY <1>2, <2>4, <2>6, <2>7, <2>8
  <2>10. QED
    BY <2>2, <2>9, TierFollows DEF lo, w
<1>7. QED
  BY <1>3, <1>4, <1>5, <1>6 DEF AgreementDecides

-----------------------------------------------------------------------------
(* PlusCode: recursive functions.  No induction: a least counterexample.   *)

\* f has base first, and each next value by a step from the one before.
Recurs(f, n, base, step) ==
    f = [k \in 0..n |-> IF k = 0 THEN base ELSE step[k][f[k - 1]]]

\* From a first value and a step, each value can be had from the one before.
LEMMA RecursionExists ==
    ASSUME NEW n \in Nat, NEW V, NEW base \in V, NEW step \in [1..n -> [V -> V]]
    PROVE  \E f \in [0..n -> V] : Recurs(f, n, base, step)
<1> USE DEF Recurs
<1> DEFINE Has(m) == \E f \in [0..m -> V] :
               f = [k \in 0..m |-> IF k = 0 THEN base ELSE step[k][f[k - 1]]]
           stuck == {m \in 0..n : ~Has(m)}
<1>1. SUFFICES ASSUME stuck # {} PROVE FALSE
  <2>1. n \in 0..n
    OBVIOUS
  <2>2. stuck = {} => Has(n)
    BY <2>1
  <2>3. QED
    BY <2>2
<1>2. PICK m \in 0..n : ~Has(m) /\ \A k \in 0..n : ~Has(k) => m <= k
  <2>1. stuck \in SUBSET Nat
    OBVIOUS
  <2> HIDE DEF Reached
  <2>2. Min(stuck) \in stuck /\ \A k \in stuck : Min(stuck) <= k
    BY <1>1, <2>1, LowestIs
  <2>3. QED
    BY <2>2
<1>3. CASE m = 0
  <2> DEFINE f == [k \in 0..0 |-> base]
  <2>1. f \in [0..0 -> V]
    OBVIOUS
  <2>2. f = [k \in 0..0 |-> IF k = 0 THEN base ELSE step[k][f[k - 1]]]
    OBVIOUS
  <2>3. Has(0)
    BY <2>1, <2>2
  <2>4. QED
    BY <1>2, <1>3, <2>3
<1>4. CASE m # 0
  <2>1. m - 1 \in 0..n /\ ~(m <= m - 1)
    BY <1>4
  <2>2. Has(m - 1)
    BY <1>2, <2>1
  <2>3. PICK f \in [0..(m - 1) -> V] :
           f = [k \in 0..(m - 1) |-> IF k = 0 THEN base ELSE step[k][f[k - 1]]]
    BY <2>2
  <2>4. f[m - 1] \in V /\ step[m][f[m - 1]] \in V
    BY <1>4, <2>1, <2>3
  <2> DEFINE g == [k \in 0..m |-> IF k = m THEN step[m][f[m - 1]] ELSE f[k]]
  <2>5. g \in [0..m -> V]
    <3>1. \A k \in 0..m : k # m => k \in 0..(m - 1)
      OBVIOUS
    <3>2. \A k \in 0..(m - 1) : f[k] \in V
      BY <2>3
    <3>3. QED
      BY <2>4, <3>1, <3>2
  <2>6. \A k \in 0..m : g[k] = IF k = 0 THEN base ELSE step[k][g[k - 1]]
    <3>1. ASSUME NEW k \in 0..m, k # m
          PROVE  g[k] = IF k = 0 THEN base ELSE step[k][g[k - 1]]
      <4>1. k \in 0..(m - 1) /\ g[k] = f[k]
        BY <3>1
      <4>2. k # 0 => k - 1 \in 0..m /\ k - 1 # m /\ g[k - 1] = f[k - 1]
        BY <3>1
      <4>3. QED
        BY <2>3, <4>1, <4>2
    <3>2. g[m] = step[m][g[m - 1]]
      <4>1. m \in 0..m /\ m - 1 \in 0..m /\ m - 1 # m
        BY <1>4
      <4>2. g[m] = step[m][f[m - 1]] /\ g[m - 1] = f[m - 1]
        BY <4>1
      <4>3. QED
        BY <4>2
    <3>3. QED
      BY <1>4, <3>1, <3>2
  <2> HIDE DEF g
  <2>7. g = [k \in 0..m |-> IF k = 0 THEN base ELSE step[k][g[k - 1]]]
    BY <2>5, <2>6
  <2>8. QED
    BY <1>2, <2>5, <2>7
<1>5. QED
  BY <1>3, <1>4

-----------------------------------------------------------------------------
(* PlusCode: the values of the digits.                                     *)

LEMMA RadixPositive ==
    ASSUME NEW ax \in Axis, NEW i \in Nat
    PROVE  Radix(ax, i) \in Nat \ {0}
BY PlusCodeAssumption DEF Radix, Axis

\* The last digit counts units, and every other as many as the next has values.
LEMMA ValuesAre ==
    ASSUME NEW ax \in Axis
    PROVE  /\ Values(ax) \in [0..(Digits - 1) -> Nat \ {0}]
           /\ Values(ax)[0] = 1
           /\ \A k \in 1..(Digits - 1) :
                Values(ax)[k] = Radix(ax, Digits - k + 1) * Values(ax)[k - 1]
<1> DEFINE n == Digits - 1
           V == Nat \ {0}
           step == [k \in 1..n |-> [x \in V |-> Radix(ax, Digits - k + 1) * x]]
           Fits(f) == f = [k \in 0..n |->
                             IF k = 0 THEN 1 ELSE Radix(ax, Digits - k + 1) * f[k - 1]]
<1>1. n \in Nat /\ Digits \in Nat
  BY PlusCodeAssumption DEF Digits
<1>2. ASSUME NEW k \in 1..n, NEW x \in V
      PROVE  Radix(ax, Digits - k + 1) * x \in V
  <2>1. Digits - k + 1 \in Nat
    BY <1>1
  <2>2. Radix(ax, Digits - k + 1) \in Nat \ {0}
    BY <2>1, RadixPositive
  <2>3. \A a, b \in Nat \ {0} : a * b \in Nat \ {0}
    OBVIOUS
  <2>4. QED
    BY <2>2, <2>3
<1>3. step \in [1..n -> [V -> V]]
  BY <1>2
<1>4. PICK f \in [0..n -> V] : Recurs(f, n, 1, step)
  <2>1. 1 \in V
    OBVIOUS
  <2> HIDE DEF n, V, step
  <2>2. QED
    BY <1>1, <1>3, <2>1, RecursionExists
<1>5. \A k \in 1..n : step[k][f[k - 1]] = Radix(ax, Digits - k + 1) * f[k - 1]
  <2>1. \A k \in 1..n : k - 1 \in 0..n
    BY <1>1
  <2>2. QED
    BY <1>4, <2>1
<1>6. Fits(f)
  <2> HIDE DEF step
  <2>1. \A k \in 0..n : k # 0 => k \in 1..n
    BY <1>1
  <2>2. QED
    BY <1>4, <1>5, <2>1 DEF Recurs
<1>7. Fits(Values(ax))
  <2>1. Values(ax) = CHOOSE g : Fits(g)
    BY DEF Values
  <2> HIDE DEF Fits
  <2>2. QED
    BY <1>6, <2>1
<1>8. ASSUME NEW g, Fits(g)
      PROVE  g[0] = 1 /\ \A k \in 1..n : g[k] = Radix(ax, Digits - k + 1) * g[k - 1]
  <2>1. 0 \in 0..n /\ \A k \in 1..n : k \in 0..n /\ k # 0
    BY <1>1
  <2>2. \A k \in 0..n : g[k] = IF k = 0 THEN 1 ELSE Radix(ax, Digits - k + 1) * g[k - 1]
    BY <1>8
  <2>3. QED
    BY <2>1, <2>2
<1>9. \A k \in 0..n : Values(ax)[k] \in V
  <2> DEFINE bad == {k \in 0..n : Values(ax)[k] \notin V}
  <2>1. SUFFICES ASSUME bad # {} PROVE FALSE
    OBVIOUS
  <2>2. bad \in SUBSET Nat
    OBVIOUS
  <2>3. PICK k \in bad : \A l \in bad : k <= l
    BY <2>1, <2>2, LowestIs
  <2>4. k # 0
    BY <1>7, <1>8
  <2>5. k \in 1..n /\ k - 1 \in 0..n /\ ~(k <= k - 1)
    BY <1>1, <2>4
  <2>6. Values(ax)[k - 1] \in V
    BY <2>3, <2>5
  <2>7. QED
    BY <1>2, <1>7, <1>8, <2>5, <2>6
<1>10. Values(ax) \in [0..n -> V]
  <2>1. Values(ax) = [k \in 0..n |-> Values(ax)[k]]
    BY <1>7
  <2>2. QED
    BY <1>9, <2>1
<1>11. QED
  BY <1>7, <1>8, <1>10

\* Each place value is that of the next digit as many times as that has values.
LEMMA PlacesAre ==
    ASSUME NEW ax \in Axis
    PROVE  /\ \A i \in 1..Digits : Place(ax, i) \in Nat \ {0} /\ Radix(ax, i) \in Nat \ {0}
           /\ \A i \in 1..(Digits - 1) :
                Place(ax, i) = Radix(ax, i + 1) * Place(ax, i + 1)
<1>1. Digits \in Nat \ {0}
  BY PlusCodeAssumption DEF Digits
<1>2. ASSUME NEW i \in 1..Digits
      PROVE  Place(ax, i) \in Nat \ {0} /\ Radix(ax, i) \in Nat \ {0}
  <2>1. Digits - i \in 0..(Digits - 1) /\ i \in Nat
    BY <1>1
  <2>2. QED
    BY <2>1, ValuesAre, RadixPositive DEF Place
<1>3. ASSUME NEW i \in 1..(Digits - 1)
      PROVE  Place(ax, i) = Radix(ax, i + 1) * Place(ax, i + 1)
  <2> DEFINE k == Digits - i
  <2>1. k \in 1..(Digits - 1) /\ Digits - k + 1 = i + 1 /\ k - 1 = Digits - (i + 1)
    BY <1>1
  <2>2. Values(ax)[k] = Radix(ax, Digits - k + 1) * Values(ax)[k - 1]
    BY <2>1, ValuesAre
  <2>3. QED
    BY <2>1, <2>2 DEF Place
<1>4. QED
  BY <1>2, <1>3

\* So the place value of a digit is a multiple of those after it.
LEMMA PlaceDivides ==
    ASSUME NEW ax \in Axis, NEW j \in 1..Digits, NEW i \in 1..j
    PROVE  \E t \in Nat \ {0} : Place(ax, i) = t * Place(ax, j)
<1> DEFINE Multiple(k) == \E t \in Nat \ {0} : Place(ax, i) = t * Place(ax, k)
           bad == {k \in i..j : ~Multiple(k)}
<1>1. SUFFICES ASSUME bad # {} PROVE FALSE
  <2>1. j \in i..j
    OBVIOUS
  <2>2. bad = {} => Multiple(j)
    BY <2>1
  <2>3. QED
    BY <2>2
<1>2. bad \in SUBSET Nat
  OBVIOUS
<1>3. PICK k \in i..j : ~Multiple(k) /\ \A l \in i..j : ~Multiple(l) => k <= l
  <2> HIDE DEF Multiple
  <2>1. Min(bad) \in bad /\ \A l \in bad : Min(bad) <= l
    BY <1>1, <1>2, LowestIs
  <2>2. QED
    BY <2>1
<1>4. \A l \in 1..Digits : Place(ax, l) \in Nat \ {0} /\ Radix(ax, l) \in Nat \ {0}
  BY PlacesAre
<1>5. Digits \in Nat
  BY PlusCodeAssumption DEF Digits
<1>6. k # i
  <2>1. Place(ax, i) = 1 * Place(ax, i)
    BY <1>4, <1>5
  <2>2. QED
    BY <1>3, <2>1
<1>7. k - 1 \in i..j /\ ~(k <= k - 1) /\ k - 1 \in 1..(Digits - 1) /\ (k - 1) + 1 = k
      /\ k \in 1..Digits
  BY <1>5, <1>6
<1>8. PICK t \in Nat \ {0} : Place(ax, i) = t * Place(ax, k - 1)
  BY <1>3, <1>7
<1>9. Place(ax, k - 1) = Radix(ax, k) * Place(ax, k)
  BY <1>7, PlacesAre
<1>10. t * Radix(ax, k) \in Nat \ {0} /\ Place(ax, i) = (t * Radix(ax, k)) * Place(ax, k)
  <2>1. \A a, b, c \in Nat \ {0} : a * (b * c) = (a * b) * c /\ a * b \in Nat \ {0}
    OBVIOUS
  <2>2. QED
    BY <1>4, <1>7, <1>8, <1>9, <2>1
<1>11. QED
  BY <1>3, <1>10

-----------------------------------------------------------------------------
(* PlusCode: division.                                                     *)

LEMMA DivIs ==
    ASSUME NEW m \in Nat \ {0}, NEW k \in Int, NEW r \in 0..(m - 1)
    PROVE  (k * m + r) \div m = k /\ (k * m + r) % m = r
<1> DEFINE x == k * m + r
           q == x \div m
           s == x % m
<1>1. x \in Int /\ q \in Int /\ s \in 0..(m - 1) /\ x = q * m + s
  OBVIOUS
<1>2. x = k * m + r
  OBVIOUS
<1> HIDE DEF x, q, s
<1>3. ASSUME NEW a \in Int, NEW b \in Int, a < b PROVE a * m + m <= b * m
  <2>1. b - a - 1 \in Nat /\ b = a + 1 + (b - a - 1)
    BY <1>3
  <2>2. PICK c \in Nat : b = a + 1 + c
    BY <2>1
  <2>3. (a + 1 + c) * m = a * m + m + c * m
    OBVIOUS
  <2>4. c * m \in Nat /\ a * m \in Int
    OBVIOUS
  <2>5. QED
    BY <2>2, <2>3, <2>4
<1>4. k * m \in Int /\ q * m \in Int
  BY <1>1
<1>5. k = q
  <2>1. ~(k < q)
    <3>1. k < q => k * m + m <= q * m
      BY <1>1, <1>3
    <3>2. QED
      BY <1>1, <1>2, <1>4, <3>1
  <2>2. ~(q < k)
    <3>1. q < k => q * m + m <= k * m
      BY <1>1, <1>3
    <3>2. QED
      BY <1>1, <1>2, <1>4, <3>1
  <2>3. QED
    BY <1>1, <2>1, <2>2
<1>6. s = r
  BY <1>1, <1>2, <1>4, <1>5
<1>7. QED
  BY <1>5, <1>6 DEF x, q, s

LEMMA DivSplit ==
    ASSUME NEW x \in Nat, NEW m \in Nat \ {0}
    PROVE  /\ x \div m \in Nat /\ x % m \in 0..(m - 1)
           /\ x = (x \div m) * m + (x % m)
<1>1. x \div m \in Nat /\ x % m \in 0..(m - 1)
  OBVIOUS
<1>2. x = m * (x \div m) + (x % m)
  OBVIOUS
<1>3. m * (x \div m) = (x \div m) * m
  BY <1>1
<1>4. QED
  BY <1>1, <1>2, <1>3

\* What is less than a times b has a b less than a times.
LEMMA DivBelow ==
    ASSUME NEW x \in Nat, NEW a \in Nat, NEW m \in Nat \ {0}, x < a * m
    PROVE  x \div m \in 0..(a - 1)
<1> DEFINE q == x \div m
           r == x % m
<1>1. q \in Nat /\ q * m <= x
  <2>1. r \in Nat /\ q \in Nat /\ x = q * m + r
    BY DivSplit
  <2> HIDE DEF q, r
  <2>2. q * m \in Nat
    BY <2>1
  <2>3. QED
    BY <2>1, <2>2
<1> HIDE DEF q
<1>2. ASSUME a <= q PROVE FALSE
  <2>1. a * m <= q * m
    BY <1>1, <1>2, TimesKeeps
  <2>2. a * m \in Nat /\ q * m \in Nat
    BY <1>1
  <2>3. QED
    BY <1>1, <2>1, <2>2
<1>3. QED
  BY <1>1, <1>2 DEF q

\* A remainder and a whole number of parts.
LEMMA InParts ==
    ASSUME NEW a \in Nat \ {0}, NEW b \in Nat \ {0},
           NEW s \in 0..(a - 1), NEW r \in 0..(b - 1)
    PROVE  s * b + r \in 0..(a * b - 1)
<1>1. s * b <= (a - 1) * b
  BY TimesKeeps
<1>2. (a - 1) * b = a * b - b
  OBVIOUS
<1>3. s * b \in Nat /\ a * b \in Nat
  OBVIOUS
<1>4. QED
  BY <1>1, <1>2, <1>3

LEMMA DivDiv ==
    ASSUME NEW x \in Nat, NEW a \in Nat \ {0}, NEW b \in Nat \ {0}
    PROVE  x \div (a * b) = (x \div b) \div a
<1> DEFINE q == x \div b
           k == q \div a
           s == q % a
           r == x % b
<1>1. q \in Nat /\ r \in 0..(b - 1) /\ x = q * b + r
  BY DivSplit
<1>2. k \in Nat /\ s \in 0..(a - 1) /\ q = k * a + s
  <2> HIDE DEF q
  <2>1. QED
    BY <1>1, DivSplit
<1> HIDE DEF q, k, s, r
<1>3. s * b + r \in 0..(a * b - 1) /\ a * b \in Nat \ {0}
  <2>1. \A m, n \in Nat \ {0} : m * n \in Nat \ {0}
    OBVIOUS
  <2>2. QED
    BY <1>1, <1>2, <2>1, InParts
<1>4. x = k * (a * b) + (s * b + r)
  <2>1. (k * a + s) * b = k * (a * b) + s * b
    BY <1>2
  <2>2. k * (a * b) \in Nat /\ s * b \in Nat
    BY <1>2
  <2>3. QED
    BY <1>1, <1>2, <2>1, <2>2
<1>5. x \div (a * b) = k
  BY <1>2, <1>3, <1>4, DivIs
<1>6. QED
  BY <1>5 DEF k, q

\* x and y are at the same part of p, of m parts.
Alike(x, y, m, p) == (x \div p) % m = (y \div p) % m

\* Whole blocks make no difference to what is left of one, in parts of a block.
LEMMA ModBlocks ==
    ASSUME NEW k \in Nat, NEW t \in Nat, NEW r \in Nat,
           NEW m \in Nat \ {0}, NEW p \in Nat \ {0}
    PROVE  Alike(k * (t * (m * p)) + r, r, m, p)
<1> DEFINE q == r \div p
           e == r % p
           j == q \div m
           d == q % m
           h == k * t
<1>1. q \in Nat /\ e \in 0..(p - 1) /\ r = q * p + e
  BY DivSplit
<1>2. j \in Nat /\ d \in 0..(m - 1) /\ q = j * m + d
  <2> HIDE DEF q
  <2>1. QED
    BY <1>1, DivSplit
<1>3. h \in Nat /\ k * (t * (m * p)) = (h * m) * p
  <2>1. \A a, b, c, f \in Nat : a * (b * (c * f)) = ((a * b) * c) * f
    OBVIOUS
  <2>2. QED
    BY <2>1
<1>4. (q % m = d) /\ r \div p = q
  OBVIOUS
<1> HIDE DEF q, e, j, d, h
<1>5. (h * m) * p + r = (h * m + q) * p + e
  <2>1. (h * m + q) * p = (h * m) * p + q * p
    BY <1>1, <1>3
  <2>2. (h * m) * p \in Nat /\ q * p \in Nat /\ (h * m + q) * p \in Nat
    BY <1>1, <1>3
  <2>3. QED
    BY <1>1, <2>1, <2>2
<1>6. h * m + q = (h + j) * m + d
  <2>1. (h + j) * m = h * m + j * m
    BY <1>2, <1>3
  <2>2. h * m \in Nat /\ j * m \in Nat /\ (h + j) * m \in Nat
    BY <1>2, <1>3
  <2>3. QED
    BY <1>2, <2>1, <2>2
<1>7. ((h * m + q) * p + e) \div p = h * m + q
  <2>1. h * m + q \in Int
    BY <1>1, <1>3
  <2>2. QED
    BY <1>1, <2>1, DivIs
<1>8. ((h + j) * m + d) % m = d
  <2>1. h + j \in Int
    BY <1>2, <1>3
  <2>2. QED
    BY <1>2, <2>1, DivIs
<1>9. QED
  BY <1>3, <1>4, <1>5, <1>6, <1>7, <1>8 DEF Alike

-----------------------------------------------------------------------------
(* PlusCode: codes.                                                        *)

LEMMA DigitsPositive == Digits \in Nat \ {0}
BY PlusCodeAssumption DEF Digits

LEMMA CodeTyped ==
    ASSUME NEW ax \in Axis, NEW v \in Nat, NEW n \in 1..Digits
    PROVE  /\ Encode(ax, v, n) \in [1..n -> Nat] /\ Encode(ax, v, n) \in Seq(Nat)
           /\ Len(Encode(ax, v, n)) = n
           /\ \A i \in 1..n :
                /\ Encode(ax, v, n)[i] = (v \div Place(ax, i)) % Radix(ax, i)
                /\ Encode(ax, v, n)[i] \in Nat
<1>1. n \in Nat /\ \A i \in 1..n : i \in 1..Digits
  BY DigitsPositive
<1>2. \A i \in 1..n : (v \div Place(ax, i)) % Radix(ax, i) \in Nat
  <2> TAKE i \in 1..n
  <2>1. Place(ax, i) \in Nat \ {0} /\ Radix(ax, i) \in Nat \ {0}
    BY <1>1, PlacesAre
  <2> DEFINE q == v \div Place(ax, i)
             m == Radix(ax, i)
  <2>2. q \in Nat /\ m \in Nat \ {0}
    BY <2>1, DivSplit
  <2> HIDE DEF q, m
  <2>3. q % m \in Nat
    BY <2>2
  <2>4. QED
    BY <2>3 DEF q, m
<1>3. Encode(ax, v, n) \in [1..n -> Nat]
  BY <1>2 DEF Encode
<1>4. QED
  BY <1>1, <1>3 DEF Encode

\* The digits of a code tell the cell a place is in, and nothing else.
LEMMA SameCell ==
    ASSUME NEW ax \in Axis, NEW x \in Nat, NEW y \in Nat, NEW n \in 1..Digits,
           x \div Place(ax, n) = y \div Place(ax, n)
    PROVE  Encode(ax, x, n) = Encode(ax, y, n)
<1>1. ASSUME NEW i \in 1..n PROVE x \div Place(ax, i) = y \div Place(ax, i)
  <2>1. PICK t \in Nat \ {0} : Place(ax, i) = t * Place(ax, n)
    BY PlaceDivides
  <2>2. Place(ax, n) \in Nat \ {0}
    BY PlacesAre
  <2>3. QED
    BY <2>1, <2>2, DivDiv
<1>2. QED
  BY <1>1 DEF Encode

\* A digit after the first missing ones does not depend on the block.
LEMMA BlockIsFirst ==
    ASSUME NEW ax \in Axis, NEW missing \in 1..(Digits - 1), NEW i \in (missing + 1)..Digits,
           NEW k \in Nat, NEW r \in Nat
    PROVE  ((k * Place(ax, missing) + r) \div Place(ax, i)) % Radix(ax, i)
             = (r \div Place(ax, i)) % Radix(ax, i)
<1>1. i - 1 \in 1..(Digits - 1) /\ (i - 1) + 1 = i /\ missing \in 1..(i - 1) /\ i \in 1..Digits
      /\ i - 1 \in 1..Digits
  BY DigitsPositive
<1>2. Place(ax, i - 1) = Radix(ax, i) * Place(ax, i)
  BY <1>1, PlacesAre
<1>3. PICK t \in Nat \ {0} : Place(ax, missing) = t * Place(ax, i - 1)
  BY <1>1, PlaceDivides
<1>4. Place(ax, i) \in Nat \ {0} /\ Radix(ax, i) \in Nat \ {0} /\ t \in Nat
  BY <1>1, PlacesAre
<1>5. Place(ax, missing) = t * (Radix(ax, i) * Place(ax, i))
  BY <1>2, <1>3
<1> DEFINE m == Radix(ax, i)
           p == Place(ax, i)
<1>6. m \in Nat \ {0} /\ p \in Nat \ {0} /\ Place(ax, missing) = t * (m * p)
  BY <1>4, <1>5
<1> HIDE DEF m, p
<1>7. Alike(k * (t * (m * p)) + r, r, m, p)
  BY <1>4, <1>6, ModBlocks
<1>8. QED
  BY <1>6, <1>7 DEF m, p, Alike

LEMMA SumsAre ==
    ASSUME NEW ax \in Axis, NEW n \in 1..Digits, NEW code \in Seq(Nat), Len(code) = n
    PROVE  /\ Sums(ax, code)[0] = 0
           /\ \A i \in 0..n : Sums(ax, code)[i] \in Nat
           /\ \A i \in 1..n :
                Sums(ax, code)[i] = Sums(ax, code)[i - 1] + code[i] * Place(ax, i)
<1> DEFINE step == [k \in 1..n |-> [x \in Nat |-> x + code[k] * Place(ax, k)]]
           Fits(f) == f = [i \in 0..n |-> IF i = 0 THEN 0 ELSE f[i - 1] + code[i] * Place(ax, i)]
<1>1. n \in Nat /\ \A i \in 1..n : i \in 1..Digits /\ i \in 0..n /\ i - 1 \in 0..n /\ i # 0
  BY DigitsPositive
<1>2. ASSUME NEW i \in 1..n, NEW x \in Nat
      PROVE  x + code[i] * Place(ax, i) \in Nat
  <2>1. code[i] \in Nat
    OBVIOUS
  <2>2. Place(ax, i) \in Nat
    BY <1>1, PlacesAre
  <2>3. QED
    BY <2>1, <2>2
<1>3. step \in [1..n -> [Nat -> Nat]]
  BY <1>2
<1>4. PICK f \in [0..n -> Nat] : Recurs(f, n, 0, step)
  <2>1. 0 \in Nat
    OBVIOUS
  <2> HIDE DEF step
  <2>2. QED
    BY <1>1, <1>3, <2>1, RecursionExists
<1>5. \A i \in 1..n : step[i][f[i - 1]] = f[i - 1] + code[i] * Place(ax, i)
  BY <1>1, <1>4
<1>6. Fits(f)
  <2> HIDE DEF step
  <2>1. \A i \in 0..n : i # 0 => i \in 1..n
    BY <1>1
  <2>2. QED
    BY <1>4, <1>5, <2>1 DEF Recurs
<1>7. Fits(Sums(ax, code))
  <2>1. Sums(ax, code) = CHOOSE g : Fits(g)
    BY DEF Sums
  <2> HIDE DEF Fits
  <2>2. QED
    BY <1>6, <2>1
<1>8. ASSUME NEW g, Fits(g)
      PROVE  g[0] = 0 /\ \A i \in 1..n : g[i] = g[i - 1] + code[i] * Place(ax, i)
  <2>1. \A i \in 0..n : g[i] = IF i = 0 THEN 0 ELSE g[i - 1] + code[i] * Place(ax, i)
    BY <1>8
  <2>2. 0 \in 0..n
    BY <1>1
  <2>3. QED
    BY <1>1, <2>1, <2>2
<1>9. \A i \in 0..n : Sums(ax, code)[i] \in Nat
  <2> DEFINE bad == {i \in 0..n : Sums(ax, code)[i] \notin Nat}
  <2>1. SUFFICES ASSUME bad # {} PROVE FALSE
    OBVIOUS
  <2>2. bad \in SUBSET Nat
    OBVIOUS
  <2>3. PICK i \in bad : \A l \in bad : i <= l
    BY <2>1, <2>2, LowestIs
  <2>4. i # 0
    BY <1>7, <1>8
  <2>5. i \in 1..n /\ i - 1 \in 0..n /\ ~(i <= i - 1)
    BY <1>1, <2>4
  <2>6. Sums(ax, code)[i - 1] \in Nat
    BY <2>3, <2>5
  <2>7. Sums(ax, code)[i] = Sums(ax, code)[i - 1] + code[i] * Place(ax, i)
    BY <1>7, <1>8, <2>5
  <2>8. Sums(ax, code)[i] \in Nat
    BY <1>2, <2>5, <2>6, <2>7
  <2>9. QED
    BY <2>3, <2>8
<1>10. QED
  BY <1>7, <1>8, <1>9

\* The places before a digit and its own, of a place.
LEMMA NextPlace ==
    ASSUME NEW q \in Nat, NEW m \in Nat \ {0}, NEW p \in Nat
    PROVE  (q \div m) * (m * p) + (q % m) * p = q * p
<1> DEFINE k == q \div m
           d == q % m
<1>1. k \in Nat /\ d \in Nat /\ q = k * m + d
  BY DivSplit
<1> HIDE DEF k, d
<1>2. (k * m + d) * p = k * (m * p) + d * p
  BY <1>1
<1>3. QED
  BY <1>1, <1>2 DEF k, d

\* The area of a place's code is the cell the place is in.
LEMMA CellDecoded ==
    ASSUME NEW ax \in Axis, NEW v \in Places(ax), NEW n \in 1..Digits
    PROVE  Decode(ax, Encode(ax, v, n))
             = [lo |-> (v \div Place(ax, n)) * Place(ax, n), size |-> Place(ax, n)]
<1> DEFINE code == Encode(ax, v, n)
           Floor(i) == (v \div Place(ax, i)) * Place(ax, i)
           bad == {i \in 1..n : Sums(ax, code)[i] # Floor(i)}
<1>1. Place(ax, 1) \in Nat \ {0} /\ ax.blocks \in 1..Base /\ ax.blocks \in Nat /\ Base \in Nat
  BY DigitsPositive, PlacesAre, PlusCodeAssumption DEF Axis
<1>2. v \in Nat /\ v < ax.blocks * Place(ax, 1)
  <2>1. ax.blocks * Place(ax, 1) \in Nat
    BY <1>1
  <2>2. QED
    BY <2>1 DEF Places, Size
<1>3. /\ code \in Seq(Nat) /\ Len(code) = n
      /\ \A i \in 1..n : code[i] = (v \div Place(ax, i)) % Radix(ax, i)
  BY <1>2, CodeTyped
<1>4. /\ Sums(ax, code)[0] = 0
      /\ \A i \in 1..n : Sums(ax, code)[i] = Sums(ax, code)[i - 1] + code[i] * Place(ax, i)
  BY <1>3, SumsAre
<1>5. n \in Nat /\ n \in 1..n /\ \A i \in 1..n : i \in 1..Digits
  BY DigitsPositive
<1> HIDE DEF code
<1>6. bad = {}
  <2>1. SUFFICES ASSUME bad # {} PROVE FALSE
    OBVIOUS
  <2>2. bad \in SUBSET Nat
    OBVIOUS
  <2>3. PICK i \in 1..n : Sums(ax, code)[i] # Floor(i) /\ \A l \in bad : i <= l
    <3> HIDE DEF Floor
    <3>1. Min(bad) \in bad /\ \A l \in bad : Min(bad) <= l
      BY <2>1, <2>2, LowestIs
    <3>2. QED
      BY <3>1
  <2>4. CASE i = 1
    <3> DEFINE q == v \div Place(ax, 1)
    <3>1. q \in 0..(ax.blocks - 1)
      BY <1>1, <1>2, DivBelow
    <3>2. Radix(ax, 1) = Base
      BY PlusCodeAssumption DEF Radix
    <3>3. code[1] = q % Base
      BY <1>3, <2>4, <3>2
    <3> HIDE DEF q
    <3>4. q \in Nat /\ q < Base
      BY <1>1, <3>1
    <3>5. q % Base = q
      BY <1>1, <3>4
    <3>6. Sums(ax, code)[1] = 0 + q * Place(ax, 1)
      BY <1>4, <2>4, <3>3, <3>5
    <3>7. QED
      BY <1>1, <2>3, <2>4, <3>4, <3>6 DEF q
  <2>5. CASE i # 1
    <3> DEFINE p == Place(ax, i)
               m == Radix(ax, i)
               q == v \div p
    <3>1. i - 1 \in 1..n /\ i - 1 \in 1..(Digits - 1) /\ (i - 1) + 1 = i /\ ~(i <= i - 1)
      BY <2>5, DigitsPositive
    <3>2. Sums(ax, code)[i - 1] = Floor(i - 1)
      BY <2>3, <3>1
    <3>3. p \in Nat \ {0} /\ m \in Nat \ {0} /\ Place(ax, i - 1) = m * p
      BY <1>5, <3>1, PlacesAre
    <3>4. q \in Nat
      BY <1>2, <3>3, DivSplit
    <3>5. v \div (m * p) = q \div m
      <4> HIDE DEF p, m
      <4>1. QED
        BY <1>2, <3>3, DivDiv
    <3>6. Sums(ax, code)[i] = (q \div m) * (m * p) + (q % m) * p
      BY <1>3, <1>4, <3>2, <3>3, <3>5
    <3>7. (q \div m) * (m * p) + (q % m) * p = q * p
      <4> HIDE DEF p, m, q
      <4>1. QED
        BY <3>3, <3>4, NextPlace
    <3>8. QED
      BY <2>3, <3>6, <3>7
  <2>6. QED
    BY <2>4, <2>5
<1>7. Sums(ax, code)[n] = Floor(n)
  BY <1>5, <1>6
<1>8. QED
  BY <1>3, <1>7 DEF Decode, code

LEMMA ConcatIs ==
    ASSUME NEW s \in Seq(Nat), NEW t \in Seq(Nat)
    PROVE  /\ s \o t \in Seq(Nat) /\ Len(s \o t) = Len(s) + Len(t)
           /\ \A i \in 1..(Len(s) + Len(t)) :
                (s \o t)[i] = IF i <= Len(s) THEN s[i] ELSE t[i - Len(s)]
<1>1. s \o t \in Seq(Nat) /\ Len(s \o t) = Len(s) + Len(t)
  OBVIOUS
<1>2. ASSUME NEW i \in 1..(Len(s) + Len(t))
      PROVE  (s \o t)[i] = IF i <= Len(s) THEN s[i] ELSE t[i - Len(s)]
  OBVIOUS
<1>3. QED
  BY <1>1, <1>2

\* A block from its missing digits, and the rest from the others.
LEMMA Joined ==
    ASSUME NEW ax \in Axis, NEW v \in Nat, NEW missing \in 1..(Digits - 1),
           NEW n \in (missing + 1)..Digits, NEW w \in 0..(Place(ax, missing) - 1)
    PROVE  Encode(ax, v, missing) \o SubSeq(Encode(ax, w, n), missing + 1, n)
             = Encode(ax, (v \div Place(ax, missing)) * Place(ax, missing) + w, n)
<1> DEFINE B == Place(ax, missing)
           k == v \div B
           u == k * B + w
           front == Encode(ax, v, missing)
           tail == SubSeq(Encode(ax, w, n), missing + 1, n)
           whole == Encode(ax, u, n)
<1>1. /\ missing \in 1..Digits /\ n \in 1..Digits /\ n \in Nat /\ missing \in Nat
      /\ missing < n /\ missing + 1 \in 1..(n + 1)
  BY DigitsPositive
<1>2. B \in Nat \ {0}
  BY <1>1, PlacesAre
<1>3. k \in Nat /\ w \in Nat
  BY <1>2, DivSplit
<1>4. u \in Nat /\ u \div B = k
  <2>1. k * B \in Nat
    BY <1>2, <1>3
  <2> HIDE DEF k, B
  <2>2. (k * B + w) \div B = k
    BY <1>2, <1>3, DivIs DEF B
  <2>3. QED
    BY <1>3, <2>1, <2>2
<1>5. front = Encode(ax, u, missing)
  BY <1>1, <1>4, SameCell
<1>6. /\ front \in Seq(Nat) /\ Len(front) = missing
      /\ Encode(ax, w, n) \in Seq(Nat) /\ Len(Encode(ax, w, n)) = n
      /\ whole \in [1..n -> Nat] /\ \A i \in 1..missing : front[i] = whole[i]
  <2>1. front \in Seq(Nat) /\ Len(front) = missing
    BY <1>1, CodeTyped
  <2>2. Encode(ax, w, n) \in Seq(Nat) /\ Len(Encode(ax, w, n)) = n
    BY <1>1, <1>3, CodeTyped
  <2>3. whole \in [1..n -> Nat]
    BY <1>1, <1>4, CodeTyped
  <2>4. \A i \in 1..missing : front[i] = whole[i]
    <3>1. \A i \in 1..missing : i \in 1..n
      BY <1>1
    <3>2. QED
      BY <1>5, <3>1 DEF Encode
  <2>5. QED
    BY <2>1, <2>2, <2>3, <2>4
<1>7. \A i \in (missing + 1)..n : Encode(ax, w, n)[i] = whole[i]
  <2> TAKE i \in (missing + 1)..n
  <2>1. i \in (missing + 1)..Digits /\ i \in 1..n
    BY <1>1, DigitsPositive
  <2>2. ((k * Place(ax, missing) + w) \div Place(ax, i)) % Radix(ax, i)
          = (w \div Place(ax, i)) % Radix(ax, i)
    <3> HIDE DEF k
    <3>1. QED
      BY <1>3, <2>1, BlockIsFirst
  <2>3. QED
    BY <2>1, <2>2 DEF Encode
<1> HIDE DEF front, whole, u
<1>8. /\ tail \in Seq(Nat) /\ Len(tail) = n - missing
      /\ \A i \in 1..(n - missing) : tail[i] = Encode(ax, w, n)[missing + i]
  <2> DEFINE code == Encode(ax, w, n)
  <2>1. code \in Seq(Nat) /\ Len(code) = n
    BY <1>6
  <2> HIDE DEF code
  <2>2. /\ SubSeq(code, missing + 1, n) \in Seq(Nat)
        /\ Len(SubSeq(code, missing + 1, n)) = n - missing
        /\ \A i \in 1..(n - missing) : SubSeq(code, missing + 1, n)[i] = code[missing + i]
    BY <1>1, <2>1
  <2>3. QED
    BY <2>2 DEF code
<1> HIDE DEF tail
<1> DEFINE both == front \o tail
<1>9. /\ both \in [1..n -> Nat]
      /\ \A i \in 1..n : both[i] = IF i <= missing THEN front[i] ELSE tail[i - missing]
  <2>1. Len(front) + Len(tail) = n
    BY <1>1, <1>6, <1>8
  <2>2. both \in Seq(Nat) /\ Len(both) = n
    BY <1>6, <1>8, <2>1, ConcatIs
  <2>3. \A i \in 1..n : both[i] = IF i <= Len(front) THEN front[i] ELSE tail[i - Len(front)]
    BY <1>6, <1>8, <2>1, ConcatIs
  <2> HIDE DEF both
  <2>4. both \in [1..n -> Nat]
    BY <2>2
  <2>5. \A i \in 1..n : both[i] = IF i <= missing THEN front[i] ELSE tail[i - missing]
    BY <1>6, <2>3
  <2>6. QED
    BY <2>4, <2>5
<1> HIDE DEF both
<1>10. ASSUME NEW i \in 1..n PROVE both[i] = whole[i]
  <2>1. CASE i <= missing
    <3>1. i \in 1..missing /\ both[i] = front[i]
      BY <1>1, <1>9, <2>1
    <3>2. QED
      BY <1>6, <3>1
  <2>2. CASE ~(i <= missing)
    <3>1. /\ i - missing \in 1..(n - missing) /\ missing + (i - missing) = i
          /\ i \in (missing + 1)..n
      BY <1>1, <2>2
    <3>2. both[i] = tail[i - missing]
      BY <1>9, <2>2
    <3>3. QED
      BY <1>7, <1>8, <3>1, <3>2
  <2>3. QED
    BY <2>1, <2>2
<1>11. both = whole
  BY <1>6, <1>9, <1>10
<1>12. QED
  BY <1>11 DEF both, front, tail, whole, u

\* The digits after the missing ones are those of the place in its block.
LEMMA Suffix ==
    ASSUME NEW ax \in Axis, NEW missing \in 1..(Digits - 1), NEW n \in (missing + 1)..Digits,
           NEW k \in Nat, NEW r \in Nat
    PROVE  SubSeq(Encode(ax, k * Place(ax, missing) + r, n), missing + 1, n)
             = SubSeq(Encode(ax, r, n), missing + 1, n)
<1>1. /\ missing \in 1..Digits /\ n \in 1..Digits /\ n \in Nat /\ missing \in Nat
      /\ missing + 1 \in 1..(n + 1)
  BY DigitsPositive
<1> DEFINE u == k * Place(ax, missing) + r
           whole == Encode(ax, u, n)
           code == Encode(ax, r, n)
<1>2. \A i \in (missing + 1)..n : whole[i] = code[i]
  <2> TAKE i \in (missing + 1)..n
  <2>1. i \in (missing + 1)..Digits /\ i \in 1..n
    BY <1>1, DigitsPositive
  <2>2. (u \div Place(ax, i)) % Radix(ax, i) = (r \div Place(ax, i)) % Radix(ax, i)
    BY <2>1, BlockIsFirst
  <2>3. QED
    BY <2>1, <2>2 DEF Encode
<1>3. u \in Nat
  <2>1. Place(ax, missing) \in Nat
    BY <1>1, PlacesAre
  <2>2. QED
    BY <2>1
<1>4. whole \in Seq(Nat) /\ Len(whole) = n /\ code \in Seq(Nat) /\ Len(code) = n
  <2> HIDE DEF u
  <2>1. QED
    BY <1>1, <1>3, CodeTyped
<1> HIDE DEF whole, code
<1>5. SubSeq(whole, missing + 1, n) = SubSeq(code, missing + 1, n)
  <2>1. \A i \in 1..(n - missing) : missing + i \in (missing + 1)..n
    BY <1>1
  <2>2. \A s \in Seq(Nat) : Len(s) = n =>
          SubSeq(s, missing + 1, n) = [i \in 1..(n - missing) |-> s[missing + i]]
    BY <1>1
  <2>3. SubSeq(whole, missing + 1, n) = [i \in 1..(n - missing) |-> whole[missing + i]]
    BY <1>4, <2>2
  <2>4. SubSeq(code, missing + 1, n) = [i \in 1..(n - missing) |-> code[missing + i]]
    BY <1>4, <2>2
  <2>5. QED
    BY <1>2, <2>1, <2>3, <2>4
<1>6. QED
  BY <1>5 DEF whole, code

-----------------------------------------------------------------------------
(* PlusCode: blocks.                                                       *)

LEMMA TimesApart ==
    ASSUME NEW m \in Nat, NEW a \in Int, NEW b \in Int, a < b
    PROVE  a * m + m <= b * m
<1>1. b - a - 1 \in Nat /\ b = a + 1 + (b - a - 1)
  OBVIOUS
<1>2. PICK c \in Nat : b = a + 1 + c
  BY <1>1
<1>3. (a + 1 + c) * m = a * m + m + c * m
  OBVIOUS
<1>4. c * m \in Nat /\ a * m \in Int
  OBVIOUS
<1>5. QED
  BY <1>2, <1>3, <1>4

\* The cells of a place in any block: the same part of it, p wide.
LEMMA CellInBlock ==
    ASSUME NEW t \in Nat \ {0}, NEW p \in Nat \ {0}, NEW k \in Nat, NEW r \in 0..(t * p - 1)
    PROVE  /\ ((k * (t * p) + r) \div p) * p = k * (t * p) + (r \div p) * p
           /\ (r \div p) * p \in Nat /\ (r \div p) * p + p <= t * p
<1> DEFINE q == r \div p
           e == r % p
<1>1. t * p \in Nat /\ r \in Nat /\ r < t * p
  <2>1. t * p \in Nat
    OBVIOUS
  <2>2. QED
    BY <2>1
<1>2. q \in Nat /\ e \in 0..(p - 1) /\ r = q * p + e
  BY <1>1, DivSplit
<1>3. q \in 0..(t - 1)
  BY <1>1, DivBelow
<1> HIDE DEF q, e
<1>4. q * p + p <= t * p
  BY <1>3, TimesApart
<1>5. (k * t + q) * p = k * (t * p) + q * p
  BY <1>2
<1>6. k * t + q \in Int /\ k * (t * p) \in Nat /\ q * p \in Nat /\ (k * t + q) * p \in Nat
  BY <1>1, <1>2
<1>7. k * (t * p) + r = (k * t + q) * p + e
  BY <1>2, <1>5, <1>6
<1>8. ((k * t + q) * p + e) \div p = k * t + q
  BY <1>2, <1>6, DivIs
<1>9. ((k * (t * p) + r) \div p) * p = k * (t * p) + q * p
  BY <1>5, <1>7, <1>8
<1>10. QED
  BY <1>4, <1>6, <1>9 DEF q

\* An axis is whole blocks, of digit missing; and what is in one of them is on it.
LEMMA BlocksFit ==
    ASSUME NEW ax \in Axis, NEW missing \in 1..Digits
    PROVE  LET B == Place(ax, missing)
               K == Size(ax) \div B
           IN  /\ B \in Nat \ {0} /\ K \in Nat \ {0} /\ Size(ax) = K * B
               /\ \A k \in 0..(K - 1), r \in 0..(B - 1) : k * B + r \in Places(ax)
               /\ \A v \in Places(ax) : v \in Nat /\ v \div B \in 0..(K - 1)
<1> DEFINE B == Place(ax, missing)
           K == Size(ax) \div B
<1>1. B \in Nat \ {0} /\ ax.blocks \in Nat \ {0}
  BY PlacesAre DEF Axis
<1>2. PICK t \in Nat \ {0} : Place(ax, 1) = t * B
  <2>1. 1 \in 1..missing
    BY DigitsPositive
  <2>2. QED
    BY <2>1, PlaceDivides
<1> HIDE DEF B
<1>3. ax.blocks * t \in Nat \ {0} /\ Size(ax) = (ax.blocks * t) * B
  <2>1. \A a, b, c \in Nat \ {0} : a * b \in Nat \ {0} /\ a * (b * c) = (a * b) * c
    OBVIOUS
  <2>2. QED
    BY <1>1, <1>2, <2>1 DEF Size
<1> DEFINE n == ax.blocks * t
<1>4. K = n
  <2>1. n \in Int /\ 0 \in 0..(B - 1)
    BY <1>1, <1>3
  <2> HIDE DEF n
  <2>2. (n * B + 0) \div B = n
    BY <1>1, <2>1, DivIs
  <2>3. n * B + 0 = n * B
    BY <1>1, <2>1
  <2>4. QED
    BY <1>3, <2>2, <2>3 DEF n
<1> HIDE DEF K, n
<1>5. K \in Nat \ {0} /\ Size(ax) = K * B /\ K * B \in Nat
  <2>1. K \in Nat \ {0} /\ Size(ax) = K * B
    BY <1>3, <1>4 DEF n
  <2>2. QED
    BY <1>1, <2>1
<1>6. ASSUME NEW k \in 0..(K - 1), NEW r \in 0..(B - 1) PROVE k * B + r \in Places(ax)
  <2>1. k * B + r \in 0..(K * B - 1)
    BY <1>1, <1>5, InParts
  <2>2. QED
    BY <1>5, <2>1 DEF Places
<1>7. ASSUME NEW v \in Places(ax) PROVE v \in Nat /\ v \div B \in 0..(K - 1)
  <2>1. v \in Nat /\ v < K * B
    BY <1>5 DEF Places
  <2>2. QED
    BY <1>1, <1>5, <2>1, DivBelow
<1>8. QED
  BY <1>1, <1>5, <1>6, <1>7 DEF B, K

\* The centre of a place's code, n digits long, in each of the blocks: as far from
\* the block's first place, twice, and never past its end.
LEMMA CentreInBlock ==
    ASSUME NEW ax \in Axis, NEW missing \in 1..(Digits - 1), NEW n \in (missing + 1)..Digits,
           NEW r \in 0..(Place(ax, missing) - 1)
    PROVE  LET B == Place(ax, missing)
               K == Size(ax) \div B
               p == Place(ax, n)
               o == 2 * ((r \div p) * p) + p
           IN  /\ o \in 1..(2 * B - 1)
               /\ o \div 2 \in 0..(B - 1) /\ (o \div 2) \div p = r \div p
               /\ \A k \in 0..(K - 1) :
                    Centre(Decode(ax, Encode(ax, k * B + r, n))) = 2 * (k * B) + o
<1> DEFINE B == Place(ax, missing)
           K == Size(ax) \div B
           p == Place(ax, n)
           f == (r \div p) * p
           o == 2 * f + p
<1>1. missing \in 1..Digits /\ n \in 1..Digits /\ missing \in 1..n
  BY DigitsPositive
<1>2. B \in Nat \ {0} /\ p \in Nat \ {0}
  BY <1>1, PlacesAre
<1>3. PICK t \in Nat \ {0} : B = t * p
  BY <1>1, PlaceDivides
<1>4. r \in 0..(t * p - 1)
  BY <1>3
<1>5. f \in Nat /\ f + p <= B
  <2> HIDE DEF p
  <2>1. (r \div p) * p \in Nat /\ (r \div p) * p + p <= t * p
    BY <1>2, <1>4, CellInBlock
  <2>2. QED
    BY <1>3, <2>1
<1>6. ASSUME NEW k \in 0..(K - 1)
      PROVE  Centre(Decode(ax, Encode(ax, k * B + r, n))) = 2 * (k * B) + o
  <2>1. k * B + r \in Places(ax)
    BY <1>1, BlocksFit
  <2>2. Decode(ax, Encode(ax, k * B + r, n))
          = [lo |-> ((k * B + r) \div p) * p, size |-> p]
    BY <1>1, <2>1, CellDecoded
  <2>3. k \in Nat
    OBVIOUS
  <2>4. ((k * B + r) \div p) * p = k * B + f
    <3> HIDE DEF p, B
    <3>1. ((k * (t * p) + r) \div p) * p = k * (t * p) + (r \div p) * p
      BY <1>2, <1>4, <2>3, CellInBlock
    <3>2. QED
      BY <1>3, <3>1
  <2>5. Centre(Decode(ax, Encode(ax, k * B + r, n))) = 2 * (k * B + f) + p
    BY <2>2, <2>4 DEF Centre
  <2>6. k * B \in Nat
    BY <1>2, <2>3
  <2> HIDE DEF p, B, f
  <2>7. 2 * (k * B + f) + p = 2 * (k * B) + (2 * f + p)
    BY <1>2, <1>5, <2>6
  <2>8. QED
    BY <2>5, <2>7
<1>7. o \in 1..(2 * B - 1)
  <2> HIDE DEF f, B, p
  <2>1. QED
    BY <1>2, <1>5
<1>8. o \div 2 = f + p \div 2 /\ p \div 2 \in 0..(p - 1)
  <2> HIDE DEF f, p
  <2>1. QED
    BY <1>2, <1>5
<1>9. o \div 2 \in 0..(B - 1)
  <2> HIDE DEF f, B, p, o
  <2>1. QED
    BY <1>2, <1>5, <1>8
<1>10. (o \div 2) \div p = r \div p
  <2> DEFINE q == r \div p
             h == p \div 2
  <2>1. q \in Int
    <3>1. r \in Nat
      BY <1>2
    <3> HIDE DEF p
    <3>2. QED
      BY <1>2, <3>1
  <2>2. h \in 0..(p - 1)
    BY <1>8
  <2> HIDE DEF q, h, p
  <2>3. (q * p + h) \div p = q
    BY <1>2, <2>1, <2>2, DivIs
  <2>4. QED
    BY <1>8, <2>3 DEF q, h
<1>11. QED
  BY <1>6, <1>7, <1>9, <1>10

\* How far a centre is from a reference.
Apart(ax, ref, c) ==
    LET d == IF c > 2*ref THEN c - 2*ref ELSE 2*ref - c
    IN  IF ax.circular THEN Min({d, 2*Size(ax) - d}) ELSE d

LEMMA LesserOfTwo ==
    ASSUME NEW a \in Nat, NEW b \in Nat
    PROVE  Min({a, b}) = IF a <= b THEN a ELSE b
<1>1. {a, b} \in SUBSET Nat /\ {a, b} # {}
  OBVIOUS
<1>2. Min({a, b}) \in {a, b} /\ \A n \in {a, b} : Min({a, b}) <= n
  BY <1>1, LowestIs
<1>3. QED
  BY <1>2

\* From block k0 the centre settles in block k, o after its first place.
SettlesIn(ax, v, B, K, k0, o, k) ==
    LET c == 2 * (k * B) + o
    IN  /\ Settle(ax, v, 2 * (k0 * B) + o, B) = c
        /\ \/ c - 2 * v <= B /\ 2 * v - c <= B
           \/ ~ax.circular /\ k = 0 /\ c > 2 * v
           \/ ~ax.circular /\ k = K - 1 /\ c < 2 * v
        /\ ~ax.circular => k \in 0..(K - 1)

\* Block k, taken back to the axis, is j.
WrapsTo(B, K, o, k, j) ==
    /\ ((2 * (k * B) + o) % (2 * (K * B))) \div 2 = j * B + o \div 2
    /\ \/ j = k
       \/ k = -1 /\ j * B = k * B + K * B
       \/ k = K /\ j * B = k * B - K * B

\* The centre settles at most half a block away from the reference, in a block of
\* the axis or, on a circle, in one just past its ends; or the axis ends before.
LEMMA SettledNear ==
    ASSUME NEW ax \in Axis, NEW B \in Nat \ {0}, NEW K \in Nat \ {0}, Size(ax) = K * B,
           NEW k0 \in 0..(K - 1), NEW v \in Nat, k0 * B <= v, v < k0 * B + B,
           NEW o \in 1..(2 * B - 1)
    PROVE  \E k \in -1..K : SettlesIn(ax, v, B, K, k0, o, k)
<1> DEFINE X == k0 * B
           S == K * B
           c0 == 2 * X + o
           Good(k) ==
             LET c == 2 * (k * B) + o
             IN  /\ Settle(ax, v, c0, B) = c
                 /\ \/ c - 2 * v <= B /\ 2 * v - c <= B
                    \/ ~ax.circular /\ k = 0 /\ c > 2 * v
                    \/ ~ax.circular /\ k = K - 1 /\ c < 2 * v
                 /\ ~ax.circular => k \in 0..(K - 1)
<1>1. /\ X \in Nat /\ S \in Nat /\ X + B <= S
      /\ (k0 - 1) * B = X - B /\ (k0 + 1) * B = X + B
  <2>1. \A k \in Nat, b \in Nat : (k - 1) * b = k * b - b /\ (k + 1) * b = k * b + b
                                  /\ k * b \in Nat
    OBVIOUS
  <2>2. X + B <= S
    BY TimesApart
  <2>3. QED
    BY <2>1, <2>2
<1>2. k0 # 0 => B <= X
  <2>1. k0 # 0 => 0 * B + B <= k0 * B
    BY TimesApart
  <2>2. QED
    BY <2>1
<1>3. k0 # K - 1 => X + 2 * B <= S
  <2>1. k0 # K - 1 => (k0 + 1) * B + B <= K * B
    <3>1. k0 # K - 1 => k0 + 1 < K /\ k0 + 1 \in Int
      OBVIOUS
    <3>2. QED
      BY <3>1, TimesApart
  <2>2. QED
    BY <1>1, <2>1
<1>4. k0 = 0 => X = 0
  OBVIOUS
<1>5. k0 = K - 1 => X + B = S
  <2>1. (K - 1) * B = K * B - B /\ K * B \in Nat
    OBVIOUS
  <2>2. QED
    BY <2>1
<1>6. X <= v /\ v < X + B
  OBVIOUS
<1>7. Settle(ax, v, c0, B) =
        CASE 2*v + B < c0 /\ (ax.circular \/ c0 - 2*B >= 0) -> c0 - 2*B
          [] 2*v - B > c0 /\ (ax.circular \/ c0 + 2*B <= 2*S) -> c0 + 2*B
          [] OTHER -> c0
  BY DEF Settle
<1>8. \E k \in -1..K : Good(k)
  <2>1. CASE 2*v + B < c0 /\ (ax.circular \/ c0 - 2*B >= 0)
    <3> DEFINE k == k0 - 1
    <3>1. k * B = X - B /\ k \in -1..K
      BY <1>1
    <3> HIDE DEF X, S
    <3>2. Settle(ax, v, c0, B) = c0 - 2*B /\ c0 - 2*B = 2 * (k * B) + o
      <4>1. ~(2*v - B > c0)
        BY <1>1, <2>1
      <4>2. Settle(ax, v, c0, B) = c0 - 2*B
        BY <1>7, <2>1, <4>1
      <4>3. c0 - 2*B = 2 * (X - B) + o
        BY <1>1
      <4>4. QED
        BY <3>1, <4>2, <4>3
    <3>3. ~ax.circular => k0 # 0
      BY <1>1, <1>4, <2>1
    <3>4. ~ax.circular => k \in 0..(K - 1)
      BY <3>3
    <3>5. 2 * (k * B) + o - 2 * v <= B /\ 2 * v - (2 * (k * B) + o) <= B
      <4>1. 2 * (X - B) + o - 2 * v <= B /\ 2 * v - (2 * (X - B) + o) <= B
        BY <1>1, <1>6, <2>1
      <4>2. QED
        BY <3>1, <4>1
    <3>6. Good(k)
      BY <3>2, <3>4, <3>5
    <3>7. QED
      BY <3>1, <3>6
  <2>2. CASE /\ ~(2*v + B < c0 /\ (ax.circular \/ c0 - 2*B >= 0))
             /\ 2*v - B > c0 /\ (ax.circular \/ c0 + 2*B <= 2*S)
    <3> DEFINE k == k0 + 1
    <3>1. k * B = X + B /\ k \in -1..K
      BY <1>1
    <3> HIDE DEF X, S
    <3>2. Settle(ax, v, c0, B) = c0 + 2*B /\ c0 + 2*B = 2 * (k * B) + o
      <4>1. Settle(ax, v, c0, B) = c0 + 2*B
        BY <1>7, <2>2
      <4>2. c0 + 2*B = 2 * (X + B) + o
        BY <1>1
      <4>3. QED
        BY <3>1, <4>1, <4>2
    <3>3. ~ax.circular => k0 # K - 1
      BY <1>1, <1>5, <2>2
    <3>4. ~ax.circular => k \in 0..(K - 1)
      BY <3>3
    <3>5. 2 * (k * B) + o - 2 * v <= B /\ 2 * v - (2 * (k * B) + o) <= B
      <4>1. 2 * (X + B) + o - 2 * v <= B /\ 2 * v - (2 * (X + B) + o) <= B
        BY <1>1, <1>6, <2>2
      <4>2. QED
        BY <3>1, <4>1
    <3>6. Good(k)
      BY <3>2, <3>4, <3>5
    <3>7. QED
      BY <3>1, <3>6
  <2>3. CASE /\ ~(2*v + B < c0 /\ (ax.circular \/ c0 - 2*B >= 0))
             /\ ~(2*v - B > c0 /\ (ax.circular \/ c0 + 2*B <= 2*S))
    <3>1. k0 \in -1..K /\ Settle(ax, v, c0, B) = c0
      BY <1>7, <2>3
    <3> HIDE DEF X, S
    <3>2. \/ c0 - 2 * v <= B /\ 2 * v - c0 <= B
          \/ ~ax.circular /\ 2*v + B < c0 /\ c0 - 2*B < 0
          \/ ~ax.circular /\ 2*v - B > c0 /\ c0 + 2*B > 2*S
      BY <1>1, <2>3
    <3>3. c0 - 2*B < 0 => k0 = 0
      BY <1>1, <1>2
    <3>4. c0 + 2*B > 2*S => k0 = K - 1
      BY <1>1, <1>3
    <3>5. \/ c0 - 2 * v <= B /\ 2 * v - c0 <= B
          \/ ~ax.circular /\ k0 = 0 /\ c0 > 2 * v
          \/ ~ax.circular /\ k0 = K - 1 /\ c0 < 2 * v
      BY <1>1, <3>2, <3>3, <3>4
    <3>6. Good(k0)
      BY <3>1, <3>5 DEF X
    <3>7. QED
      BY <3>1, <3>6
  <2>4. QED
    BY <2>1, <2>2, <2>3
<1>9. QED
  BY <1>8 DEF SettlesIn

\* Encoding a centre takes it back to the axis: in a block of it, at the same part.
LEMMA Wrapped ==
    ASSUME NEW B \in Nat \ {0}, NEW K \in Nat \ {0}, NEW k \in -1..K,
           NEW o \in 1..(2 * B - 1)
    PROVE  \E j \in 0..(K - 1) : WrapsTo(B, K, o, k, j)
<1> DEFINE S == K * B
           M == 2 * S
           Back(j) == /\ ((2 * (k * B) + o) % M) \div 2 = j * B + o \div 2
                      /\ \/ j = k
                         \/ k = -1 /\ j * B = k * B + S
                         \/ k = K /\ j * B = k * B - S
<1>1. S \in Nat /\ M \in Nat \ {0} /\ B <= S
  <2>1. 0 * B + B <= K * B
    BY TimesApart
  <2>2. S \in Nat
    OBVIOUS
  <2>3. QED
    BY <2>1, <2>2
<1>2. ASSUME NEW j \in 0..(K - 1)
      PROVE  /\ j * B \in Nat /\ 2 * (j * B) + o \in 0..(M - 1)
             /\ (2 * (j * B) + o) \div 2 = j * B + o \div 2
  <2> DEFINE X == j * B
  <2>1. X \in Nat /\ X + B <= S
    BY TimesApart
  <2> HIDE DEF X, S
  <2>2. 2 * X + o \in 0..(M - 1)
    BY <1>1, <2>1
  <2>3. (2 * X + o) \div 2 = X + o \div 2
    BY <1>1, <2>1
  <2>4. QED
    BY <2>1, <2>2, <2>3 DEF X
<1>3. ASSUME NEW j \in 0..(K - 1), NEW h \in Int,
             2 * (k * B) + o = h * M + (2 * (j * B) + o)
      PROVE  ((2 * (k * B) + o) % M) \div 2 = j * B + o \div 2
  <2> DEFINE y == 2 * (j * B) + o
  <2>1. y \in 0..(M - 1)
    BY <1>2
  <2> HIDE DEF y, M
  <2>2. (h * M + y) % M = y
    BY <1>1, <2>1, DivIs
  <2>3. (2 * (k * B) + o) % M = y
    BY <1>3, <2>2 DEF y
  <2>4. y \div 2 = j * B + o \div 2
    BY <1>2 DEF y
  <2>5. QED
    BY <2>3, <2>4
<1>4. CASE k \in 0..(K - 1)
  <2>1. 2 * (k * B) + o = 0 * M + (2 * (k * B) + o)
    BY <1>1, <1>2, <1>4
  <2>2. Back(k)
    <3> HIDE DEF M, S
    <3>1. QED
      BY <1>3, <1>4, <2>1
  <2>3. QED
    BY <1>4, <2>2 DEF WrapsTo
<1>5. CASE k = -1
  <2> DEFINE j == K - 1
  <2>1. j * B = S - B /\ k * B = 0 - B
    BY <1>5
  <2>2. j \in 0..(K - 1) /\ -1 \in Int
    OBVIOUS
  <2>3. 2 * (k * B) + o = (-1) * M + (2 * (j * B) + o)
    <3> HIDE DEF S, j
    <3>1. (-1) * M = 0 - 2 * S
      BY <1>1
    <3>2. QED
      BY <1>1, <2>1, <3>1
  <2>4. ((2 * (k * B) + o) % M) \div 2 = j * B + o \div 2
    <3> HIDE DEF M, S, j
    <3>1. QED
      BY <1>3, <2>2, <2>3
  <2>5. j * B = k * B + S
    <3> HIDE DEF S, j
    <3>1. QED
      BY <1>1, <2>1
  <2>6. QED
    BY <1>5, <2>2, <2>4, <2>5 DEF WrapsTo
<1>6. CASE k = K
  <2> DEFINE j == 0
  <2>1. j * B = 0 /\ k * B = S
    BY <1>6
  <2>2. j \in 0..(K - 1) /\ 1 \in Int
    OBVIOUS
  <2>3. 2 * (k * B) + o = 1 * M + (2 * (j * B) + o)
    <3> HIDE DEF S, j
    <3>1. QED
      BY <1>1, <2>1
  <2>4. ((2 * (k * B) + o) % M) \div 2 = j * B + o \div 2
    <3> HIDE DEF M, S, j
    <3>1. QED
      BY <1>3, <2>2, <2>3
  <2>5. j * B = k * B - S
    <3> HIDE DEF S, j
    <3>1. QED
      BY <1>1, <2>1
  <2>6. QED
    BY <1>6, <2>2, <2>4, <2>5 DEF WrapsTo
<1>7. QED
  BY <1>4, <1>5, <1>6 DEF WrapsTo

\* No other block has its centre nearer to the reference than the one settled on,
\* taken back to the axis.
LEMMA NoneNearer ==
    ASSUME NEW ax \in Axis, NEW B \in Nat \ {0}, NEW K \in Nat \ {0}, Size(ax) = K * B,
           NEW v \in 0..(K * B - 1), NEW o \in 1..(2 * B - 1), NEW k \in -1..K,
           NEW k0, SettlesIn(ax, v, B, K, k0, o, k),
           NEW j \in 0..(K - 1), WrapsTo(B, K, o, k, j),
           NEW i \in 0..(K - 1)
    PROVE  Apart(ax, v, 2 * (j * B) + o) <= Apart(ax, v, 2 * (i * B) + o)
<1> DEFINE S == K * B
           X == k * B
           Y == j * B
           Z == i * B
           c == 2 * X + o
           Off(z) == IF 2 * z + o > 2*v THEN 2 * z + o - 2*v ELSE 2*v - (2 * z + o)
<1>1. /\ S \in Nat /\ X \in Int /\ Y \in Nat /\ Z \in Nat
      /\ Y + B <= S /\ Z + B <= S /\ v \in Nat /\ v < S
  <2>1. Y + B <= S /\ Z + B <= S
    BY TimesApart
  <2>2. S \in Nat /\ X \in Int /\ Y \in Nat /\ Z \in Nat
    OBVIOUS
  <2>3. QED
    BY <2>1, <2>2
<1>2. ASSUME NEW a \in Int PROVE a * B = X \/ a * B + B <= X \/ X + B <= a * B
  <2>1. CASE a = k
    BY <2>1
  <2>2. CASE a < k
    BY <2>2, TimesApart
  <2>3. CASE k < a
    BY <2>3, TimesApart
  <2>4. QED
    BY <2>1, <2>2, <2>3
\* The centre's distance on the line to the settled one and, on a circle, the other way.
<1>3. /\ Z = X \/ Z + B <= X \/ X + B <= Z
      /\ Z - S = X \/ Z - S + B <= X \/ X + B <= Z - S
      /\ Z + S = X \/ Z + S + B <= X \/ X + B <= Z + S
  <2>1. i \in Int /\ i - K \in Int /\ i + K \in Int
    OBVIOUS
  <2>2. (i - K) * B = Z - S /\ (i + K) * B = Z + S
    OBVIOUS
  <2>3. QED
    BY <1>2, <2>1, <2>2
<1>4. k = 0 => X = 0
  OBVIOUS
<1>5. k = K - 1 => X + B = S
  <2>1. (K - 1) * B = S - B
    BY <1>1
  <2>2. QED
    BY <1>1, <2>1
<1>6. \/ Y = X
      \/ k = -1 /\ Y = X + S
      \/ k = K /\ Y = X - S
  BY DEF WrapsTo
<1>7. ~ax.circular => Y = X
  BY <1>6 DEF SettlesIn
<1>8. \/ c - 2 * v <= B /\ 2 * v - c <= B
      \/ ~ax.circular /\ X = 0 /\ c > 2 * v
      \/ ~ax.circular /\ X + B = S /\ c < 2 * v
  BY <1>4, <1>5 DEF SettlesIn
<1>9. ax.circular \in BOOLEAN
  BY DEF Axis
<1>10. ASSUME NEW z \in Nat, z + B <= S
       PROVE  /\ Off(z) \in Nat /\ 2 * S - Off(z) \in Nat
              /\ Apart(ax, v, 2 * z + o) =
                   IF ax.circular /\ 2 * S - Off(z) < Off(z) THEN 2 * S - Off(z) ELSE Off(z)
  <2> HIDE DEF S
  <2>1. Off(z) \in Nat /\ 2 * S - Off(z) \in Nat
    BY <1>1, <1>10
  <2>2. Apart(ax, v, 2 * z + o) =
          IF ax.circular THEN Min({Off(z), 2 * S - Off(z)}) ELSE Off(z)
    BY DEF Apart, S
  <2> HIDE DEF Off
  <2>3. Min({Off(z), 2 * S - Off(z)}) =
          IF Off(z) <= 2 * S - Off(z) THEN Off(z) ELSE 2 * S - Off(z)
    BY <2>1, LesserOfTwo
  <2>4. QED
    BY <2>1, <2>2, <2>3
<1> HIDE DEF S, X, Y, Z
<1>11. CASE ~ax.circular
  <2>1. Off(Y) <= Off(Z)
    <3>1. CASE c - 2 * v <= B /\ 2 * v - c <= B
      BY <1>1, <1>3, <1>7, <1>11, <3>1
    <3>2. CASE X = 0 /\ c > 2 * v
      BY <1>1, <1>7, <1>11, <3>2
    <3>3. CASE X + B = S /\ c < 2 * v
      BY <1>1, <1>7, <1>11, <3>3
    <3>4. QED
      BY <1>8, <3>1, <3>2, <3>3
  <2>2. Apart(ax, v, 2 * Y + o) = Off(Y) /\ Apart(ax, v, 2 * Z + o) = Off(Z)
    BY <1>1, <1>10, <1>11
  <2>3. QED
    BY <2>1, <2>2 DEF Y, Z
<1>12. CASE ax.circular
  <2> DEFINE e == IF c > 2 * v THEN c - 2 * v ELSE 2 * v - c
  <2>1. c - 2 * v <= B /\ 2 * v - c <= B
    BY <1>8, <1>12
  <2>2. e \in Nat /\ e <= B
    BY <1>1, <2>1
  <2>3. Off(Y) = e \/ 2 * S - Off(Y) = e
    BY <1>1, <1>6, <2>1
  <2>4. e <= Off(Z)
    BY <1>1, <1>3, <2>1
  <2>5. e <= 2 * S - Off(Z)
    BY <1>1, <1>3, <2>1
  <2> HIDE DEF e, Off
  <2>6. Apart(ax, v, 2 * Y + o) <= e
    BY <1>1, <1>10, <1>12, <2>2, <2>3
  <2>7. e <= Apart(ax, v, 2 * Z + o)
    BY <1>1, <1>10, <1>12, <2>2, <2>4, <2>5
  <2>8. Apart(ax, v, 2 * Y + o) \in Nat /\ Apart(ax, v, 2 * Z + o) \in Nat
    BY <1>1, <1>10
  <2>9. QED
    BY <2>2, <2>6, <2>7, <2>8 DEF Y, Z
<1>13. QED
  BY <1>9, <1>11, <1>12

\* The recovered code is that of some place which has the same part of a block.
LEMMA RecoveredIs ==
    ASSUME NEW ax \in Axis, NEW v \in Places(ax), NEW missing \in 1..(Digits - 1),
           NEW n \in (missing + 1)..Digits, NEW w \in 0..(Place(ax, missing) - 1)
    PROVE  LET B == Place(ax, missing)
               K == Size(ax) \div B
               code == Recover(ax, v, missing, SubSeq(Encode(ax, w, n), missing + 1, n))
           IN  /\ SubSeq(code, missing + 1, n) = SubSeq(Encode(ax, w, n), missing + 1, n)
               /\ \A i \in 0..(K - 1) :
                    Distance(ax, v, code) <= Distance(ax, v, Encode(ax, i * B + w, n))
<1> DEFINE B == Place(ax, missing)
           K == Size(ax) \div B
           p == Place(ax, n)
           o == 2 * ((w \div p) * p) + p
           k0 == v \div B
           suffix == SubSeq(Encode(ax, w, n), missing + 1, n)
           code == Recover(ax, v, missing, suffix)
<1>1. missing \in 1..Digits /\ n \in 1..Digits /\ n \in Nat
  BY DigitsPositive
<1>2. /\ B \in Nat \ {0} /\ K \in Nat \ {0} /\ Size(ax) = K * B
      /\ v \in Nat /\ k0 \in 0..(K - 1)
      /\ \A k \in 0..(K - 1), r \in 0..(B - 1) : k * B + r \in Places(ax)
  BY <1>1, BlocksFit
<1>3. /\ o \in 1..(2 * B - 1) /\ o \div 2 \in 0..(B - 1) /\ (o \div 2) \div p = w \div p
      /\ \A k \in 0..(K - 1) : Centre(Decode(ax, Encode(ax, k * B + w, n))) = 2 * (k * B) + o
  BY CentreInBlock
<1>4. /\ o \div 2 \in 0..(B - 1)
      /\ \A k \in 0..(K - 1) :
           Centre(Decode(ax, Encode(ax, k * B + o \div 2, n))) = 2 * (k * B) + o
  <2> DEFINE r == o \div 2
             or == 2 * ((r \div p) * p) + p
  <2>1. r \in 0..(B - 1)
    BY <1>3
  <2>2. r \div p = w \div p
    BY <1>3
  <2> HIDE DEF r
  <2>3. \A k \in 0..(K - 1) : Centre(Decode(ax, Encode(ax, k * B + r, n))) = 2 * (k * B) + or
    BY <2>1, CentreInBlock
  <2>4. or = o
    BY <2>2
  <2>5. QED
    BY <2>1, <2>3, <2>4 DEF r
<1>5. k0 * B <= v /\ v < k0 * B + B /\ v \in 0..(K * B - 1)
  <2>1. v % B \in 0..(B - 1) /\ v = k0 * B + (v % B) /\ k0 \in Nat
    BY <1>2, DivSplit
  <2>2. k0 * B \in Nat
    <3>1. B \in Nat
      BY <1>2
    <3> HIDE DEF k0, B
    <3>2. QED
      BY <2>1, <3>1
  <2>3. v \in 0..(K * B - 1)
    BY <1>2 DEF Places
  <2> DEFINE e == v % B
  <2>4. e \in 0..(B - 1) /\ v = k0 * B + e
    BY <2>1
  <2> HIDE DEF e, k0, B
  <2>5. QED
    BY <1>2, <2>2, <2>3, <2>4
<1>6. /\ Encode(ax, v, missing) \o suffix = Encode(ax, k0 * B + w, n)
      /\ Len(Encode(ax, k0 * B + w, n)) = n
  <2>1. Encode(ax, v, missing) \o suffix = Encode(ax, k0 * B + w, n)
    BY <1>2, Joined
  <2>2. k0 * B + w \in Nat
    BY <1>2
  <2>3. QED
    BY <1>1, <2>1, <2>2, CodeTyped
<1> DEFINE c == Settle(ax, v, 2 * (k0 * B) + o, B)
<1>7. code = Encode(ax, (c % (2 * (K * B))) \div 2, n)
  BY <1>2, <1>3, <1>6 DEF Recover
<1> HIDE DEF B, K, p, o, k0, suffix, code
<1>8. PICK k \in -1..K : SettlesIn(ax, v, B, K, k0, o, k)
  BY <1>2, <1>3, <1>5, SettledNear
<1>9. PICK j \in 0..(K - 1) : WrapsTo(B, K, o, k, j)
  BY <1>2, <1>3, Wrapped
<1>10. code = Encode(ax, j * B + o \div 2, n)
  BY <1>7, <1>8, <1>9 DEF SettlesIn, WrapsTo
<1>11. SubSeq(code, missing + 1, n) = suffix
  <2> DEFINE r == o \div 2
  <2>1. r \in Nat /\ j \in Nat /\ w \in Nat
    BY <1>2, <1>3 DEF B
  <2> HIDE DEF r
  <2>2. SubSeq(Encode(ax, j * B + r, n), missing + 1, n)
          = SubSeq(Encode(ax, r, n), missing + 1, n)
    BY <2>1, Suffix DEF B
  <2>3. Encode(ax, r, n) = Encode(ax, w, n)
    <3>1. r \div Place(ax, n) = w \div Place(ax, n)
      BY <1>3 DEF r, p
    <3>2. QED
      BY <1>1, <2>1, <3>1, SameCell
  <2>4. QED
    BY <1>10, <2>2, <2>3 DEF suffix, r
<1>12. ASSUME NEW i \in 0..(K - 1)
       PROVE  Distance(ax, v, code) <= Distance(ax, v, Encode(ax, i * B + w, n))
  <2>1. Apart(ax, v, 2 * (j * B) + o) <= Apart(ax, v, 2 * (i * B) + o)
    BY <1>2, <1>3, <1>5, <1>8, <1>9, NoneNearer
  <2>2. Distance(ax, v, code) = Apart(ax, v, 2 * (j * B) + o)
    BY <1>4, <1>10 DEF Distance, Apart
  <2>3. Distance(ax, v, Encode(ax, i * B + w, n)) = Apart(ax, v, 2 * (i * B) + o)
    BY <1>3 DEF Distance, Apart
  <2>4. QED
    BY <2>1, <2>2, <2>3
<1>13. QED
  BY <1>11, <1>12 DEF code, suffix, B, K

\* A code's area holds the place it was made from, and a shortened code comes back
\* as the nearest of those that end in its digits, for any base, digits and axis, and
\* at the poles and the antimeridian too (encode, decode and recover_nearest,
\* pluscode.py:94-204).
THEOREM NearestRecovered ==
    ASSUME NEW ax \in Axis, NEW v \in Places(ax),
           call = [fn |-> "recover", arg |-> [axis |-> ax, place |-> v]]
    PROVE  RecoversNearest
<1>1. call.arg.axis = ax /\ call.arg.place = v
  OBVIOUS
<1>2. ASSUME NEW n \in 1..Digits
      PROVE  LET area == Decode(ax, Encode(ax, v, n))
             IN  area.lo <= v /\ v < area.lo + area.size
  <2> DEFINE p == Place(ax, n)
             q == v \div p
             e == v % p
  <2>1. p \in Nat \ {0} /\ v \in Nat
    BY DigitsPositive, PlacesAre, BlocksFit DEF Places
  <2>2. q \in Nat /\ e \in 0..(p - 1) /\ v = q * p + e
    <3> HIDE DEF p
    <3>1. QED
      BY <2>1, DivSplit
  <2>3. Decode(ax, Encode(ax, v, n)) = [lo |-> q * p, size |-> p]
    BY CellDecoded
  <2> HIDE DEF p, q, e
  <2>4. q * p \in Nat
    BY <2>1, <2>2
  <2>5. QED
    BY <2>1, <2>2, <2>3, <2>4
<1>3. ASSUME NEW missing \in 1..(PairDigits - 1), NEW n \in (missing + 1)..(Digits - 1),
             NEW w \in 0..(Place(ax, missing) - 1)
      PROVE  LET suffix(x) == SubSeq(Encode(ax, x, n), missing + 1, n)
                 code == Recover(ax, v, missing, suffix(w))
             IN  /\ SubSeq(code, missing + 1, n) = suffix(w)
                 /\ \A block \in 0..(Size(ax) \div Place(ax, missing) - 1) :
                      Distance(ax, v, code) <=
                        Distance(ax, v, Encode(ax, block * Place(ax, missing) + w, n))
  <2>1. missing \in 1..(Digits - 1) /\ n \in (missing + 1)..Digits
    BY PlusCodeAssumption DEF Digits
  <2>2. QED
    BY <2>1, RecoveredIs
<1>4. QED
  BY <1>1, <1>2, <1>3 DEF RecoversNearest

=============================================================================
