------------------------------- MODULE Scoring -------------------------------
(***************************************************************************)
(* The state POST /score reads and writes while it scores (ml/serve.py):   *)
(* the synced transactions, the live window in Redis                       *)
(* (ml/live_velocity.py) and the customer's last point, also in Redis      *)
(* (ml/geo_state.py), shared by concurrent requests for one customer.      *)
(*                                                                         *)
(* A row is a transaction and the time it is dated, which comes from the   *)
(* payload, or from the clock when the payload has none: a retry may date  *)
(* the same transaction differently.  The requests are those of one worker *)
(* with a model loaded, for one customer; a timestamp that cannot be       *)
(* parsed, which has no history at all, is left out.                       *)
(***************************************************************************)
EXTENDS Integers, FiniteSets

CONSTANTS
    Requests,
    Txns,           \* that come in
    TimesOf,        \* [Txns -> SUBSET Nat], the dates a transaction comes with
    Before,         \* rows of other transactions, recorded earlier
    PointOf,        \* [Txns -> points], where it resolves to (Geo), if it does
    Window,         \* of a vel_ feature
    Day,            \* of both history reads
    Retain,         \* config.VELOCITY_RETAIN_HOURS
    MaxFaults       \* bound: how often a store fails

ASSUME ScoringAssumption ==
    /\ TimesOf \in [Txns -> SUBSET Nat]
    /\ IsFiniteSet(Before)
    /\ \A row \in Before : /\ row = [id |-> row.id, at |-> row.at]
                           /\ row.id \notin Txns /\ row.at \in Nat
    /\ Window \in Nat /\ Day \in Nat /\ Retain \in Nat
    /\ Window <= Day /\ Day <= Retain /\ MaxFaults \in Nat

VARIABLES
    cache,          \* the customer's rows of bp_transactions_cache
    live,           \* vel:{customer}, a sorted set
    last,           \* geo:{customer}
    backoff,        \* the modules whose client is dropped and cooling down
    histLock,       \* _hist_lock, free or the request that holds it
    req,
    faults

vars == <<cache, live, last, backoff, histLock, req, faults>>

-----------------------------------------------------------------------------
Times == UNION {TimesOf[x] : x \in Txns}
Row   == {row \in [id: Txns, at: Times] : row.at \in TimesOf[row.id]}
Rows  == Row \cup Before
Point == [at: Times, point: {PointOf[x] : x \in Txns}]
Free  == [free |-> TRUE]
NoLast == [none |-> TRUE]

\* hist and count are local to score_payload, speed goes to the compliance log;
\* sure and known are ghosts: no read failed, and the rows that the stores held
\* when the request came in and have not been told to forget.
Request ==
    [pc: {"idle", "ask", "query", "live", "geo", "place", "record", "done"},
     row: Row \cup {Free}, hist: SUBSET Rows, count: Nat,
     prev: Point \cup {NoLast}, speed: BOOLEAN, sure: BOOLEAN, known: SUBSET Rows]

NoRequest == [pc |-> "idle", row |-> Free, hist |-> {}, count |-> 0,
              prev |-> NoLast, speed |-> FALSE, sure |-> TRUE, known |-> {}]

TypeOK ==
    /\ cache \subseteq Row /\ live \subseteq Rows
    /\ last \in Point \cup {NoLast}
    /\ backoff \subseteq {"velocity", "geo"}
    /\ histLock \in Requests \cup {Free}
    /\ req \in [Requests -> Request] /\ faults \in 0..MaxFaults

At(r) == req[r].row.at

-----------------------------------------------------------------------------
(* Redis: an operation may fail, and a module that saw one fail does not   *)
(* try again for a while                                                   *)

Fail(module) ==
    /\ faults < MaxFaults
    /\ faults' = faults + 1 /\ backoff' = backoff \cup {module}

Up(module) == module \notin backoff /\ UNCHANGED <<faults, backoff>>

\* The module skips Redis.
Skip(module) == module \in backoff /\ UNCHANGED <<faults, backoff>>

-----------------------------------------------------------------------------
(* The request                                                             *)

Receive(r) ==
    /\ req[r].pc = "idle"
    /\ \E row \in Row :
         req' = [req EXCEPT ![r] = [@ EXCEPT !.pc = "ask", !.row = row,
                                             !.known = cache \cup live]]
    /\ UNCHANGED <<cache, live, last, backoff, histLock, faults>>

\* _recent_history: one connection of the worker, under a lock.
LockHistory(r) ==
    /\ req[r].pc = "ask" /\ histLock = Free
    /\ histLock' = r
    /\ req' = [req EXCEPT ![r].pc = "query"]
    /\ UNCHANGED <<cache, live, last, backoff, faults>>

\* Mutant: a failed lookup leaves the lock taken.
Unlock_OnSuccess(r) == histLock' = IF req'[r].sure THEN Free ELSE r

Unlock(r) == histLock' = Free

Earlier(r) == {row \in cache : row.at < At(r) /\ row.at >= At(r) - Day}

QueryHistory(r) ==
    /\ req[r].pc = "query"
    /\ \/ /\ req' = [req EXCEPT ![r].pc = "live", ![r].hist = Earlier(r)]
          /\ UNCHANGED faults
       \/ /\ faults < MaxFaults /\ faults' = faults + 1
          /\ req' = [req EXCEPT ![r].pc = "live", ![r].sure = FALSE]
    /\ Unlock(r)
    /\ UNCHANGED <<cache, live, last, backoff>>

\* live_velocity.recent: unlike the history, up to the time itself.
Recent(r) == {row \in live : row.at <= At(r) /\ row.at >= At(r) - Day}

\* Mutant: a synced transaction is in both and counted twice.
Deduplicated_Not(hist, recent) == recent \cup hist

\* drop_duplicates(keep="last"): the live rows come after the history, in the
\* order of their dates.
Deduplicated(hist, recent) ==
    {row \in recent : \A other \in recent : other.id = row.id => other.at <= row.at}
    \cup {row \in hist : \A other \in recent : other.id # row.id}

Newer(rows, t)  == Cardinality({row \in rows : row.at < t /\ row.at >= t - Window})
SameAs(rows, t) == Cardinality({row \in rows : row.at = t})

\* A vel_ feature of the scored row, the last of the frame: argsort is not
\* stable, so a row of the same time may come before it or after.
Counts(rows, t) == {Newer(rows, t) + tie : tie \in 0..SameAs(rows, t)}

\* ml.fb.transform and the decision, with what the live window gives.
Score(r) ==
    /\ req[r].pc = "live"
    /\ \/ /\ Up("velocity")
          /\ \E n \in Counts(Deduplicated(req[r].hist, Recent(r)), At(r)) :
               req' = [req EXCEPT ![r] = [@ EXCEPT !.pc = "geo", !.count = n]]
       \/ /\ Skip("velocity") \/ Fail("velocity")
          /\ \E n \in Counts(req[r].hist, At(r)) :
               req' = [req EXCEPT ![r] = [@ EXCEPT !.pc = "geo", !.count = n, !.sure = FALSE]]
    /\ UNCHANGED <<cache, live, last, histLock>>

\* Mutant: does not ask whether any time has passed.
Moved_Backwards(prev, row) == prev # NoLast /\ prev.point # PointOf[row.id]

\* geo.geo_velocity_kmh is positive.
Moved(prev, row) ==
    prev # NoLast /\ prev.at < row.at /\ prev.point # PointOf[row.id]

\* The local variables of the scoring are gone.
Past(r, pc) == [req[r] EXCEPT !.pc = pc, !.hist = {}, !.count = 0, !.known = {}, !.prev = NoLast]

\* _geo_shadow: geo_state.previous, unless the place is not resolved or the
\* customer is cold to the model that is loaded.
GeoRead(r) ==
    /\ req[r].pc = "geo"
    /\ \/ /\ req' = [req EXCEPT ![r] = Past(r, "record")]
          /\ UNCHANGED <<faults, backoff>>
       \/ /\ Up("geo")
          /\ req' = [req EXCEPT ![r] = [Past(r, "place") EXCEPT !.prev = last]]
       \/ /\ Skip("geo") \/ Fail("geo")
          /\ req' = [req EXCEPT ![r] = Past(r, "place")]
    /\ UNCHANGED <<cache, live, last, histLock>>

\* Mutant: stores the row, without its point.
Here_Row(r) == req[r].row

Here(r) == [at |-> At(r), point |-> PointOf[req[r].row.id]]

\* _geo_shadow: the speed and geo_state.record, which may fail before or after
\* Redis has done it.
GeoRecord(r) ==
    /\ req[r].pc = "place"
    /\ \/ Up("geo") /\ last' = Here(r)
       \/ Skip("geo") /\ UNCHANGED last
       \/ Fail("geo") /\ last' \in {last, Here(r)}
    /\ req' = [req EXCEPT ![r] = [Past(r, "record") EXCEPT !.speed = Moved(req[r].prev, req[r].row)]]
    /\ UNCHANGED <<cache, live, histLock>>

\* The pipeline of live_velocity.record, one MULTI/EXEC.
Pruned(rows, t) == {row \in rows : row.at > t - Retain}
WithRow(row) == Pruned(live \cup {row}, row.at)

LiveRecord(r) ==
    /\ req[r].pc = "record"
    /\ \/ Up("velocity") /\ live' = WithRow(req[r].row)
       \/ Skip("velocity") /\ UNCHANGED live
       \/ Fail("velocity") /\ live' \in {live, WithRow(req[r].row)}
    /\ req' = [req EXCEPT ![r].pc = "done"]
    /\ UNCHANGED <<cache, last, histLock>>

-----------------------------------------------------------------------------
(* Around it                                                               *)

\* The cooldown is over and Redis answers.
Reconnect ==
    /\ \E module \in backoff : backoff' = backoff \ {module}
    /\ UNCHANGED <<cache, live, last, histLock, req, faults>>

\* A key expires, or Redis comes back without its data.
Forget ==
    /\ faults < MaxFaults /\ faults' = faults + 1
    /\ \/ live' = {} /\ UNCHANGED last
       \/ last' = NoLast /\ UNCHANGED live
    /\ req' = IF live' = live THEN req
              ELSE [r \in Requests |-> [req[r] EXCEPT !.known = @ \cap
                       IF req[r].pc = "live" THEN req[r].hist ELSE cache]]
    /\ UNCHANGED <<cache, backoff, histLock>>

\* The sync stores a transaction (SyncManager).
Sync(row) ==
    /\ row.id \notin {c.id : c \in cache}
    /\ cache' = cache \cup {row}
    /\ UNCHANGED <<live, last, backoff, histLock, req, faults>>

Init ==
    /\ cache = {} /\ live \in SUBSET Before /\ last = NoLast
    /\ backoff = {} /\ histLock = Free /\ faults = 0
    /\ req = [r \in Requests |-> NoRequest]

Step(r) ==
    \/ LockHistory(r) \/ QueryHistory(r) \/ Score(r)
    \/ GeoRead(r) \/ GeoRecord(r) \/ LiveRecord(r)

Next ==
    \/ \E r \in Requests : Receive(r) \/ Step(r)
    \/ Reconnect \/ Forget
    \/ \E row \in Row : Sync(row)

Spec == Init /\ [][Next]_vars

\* A thread of the worker goes on with its request: Redis has a timeout.  The
\* history query has none, nor has its connection (ml/config.py:56-59): nothing
\* is assumed of a request that is there, with the lock.
Fairness == \A r \in Requests : WF_vars(req[r].pc # "query" /\ Step(r))

FairSpec == Spec /\ Fairness

-----------------------------------------------------------------------------
(* Properties                                                              *)

\* The dates of a transaction, in any store, up to the scored one.
Dates(r, x) == {row.at : row \in {s \in cache \cup live \cup req[r].known :
                                     s.id = x /\ s.at <= At(r)}}

\* The other transactions that the stores held when r came in, and the
\* transactions there are, that are dated in its window.
Owed(r)  == {x \in {row.id : row \in Rows} \ {req[r].row.id} :
                /\ \E row \in req[r].known : row.id = x /\ row.at <= At(r)
                /\ Dates(r, x) \subseteq (At(r) - Window)..(At(r) - 1)}
There(r) == {x \in {row.id : row \in Rows} :
                Dates(r, x) \cap (At(r) - Window)..At(r) # {}}

\* Another request is dated so far ahead that it prunes the window of r.
Ahead(r) == \E q \in Requests \ {r} :
                req[q].pc # "idle" /\ At(q) >= At(r) + Retain - Window

\* The velocity a transaction is scored with, when both stores answered.  No
\* less than the other transactions that the stores held when it came in and
\* that are dated in its window: also those the sync moved in between, and
\* those that newer requests pruned from the live window, as long as none of
\* them is dated far ahead.  No more than the transactions there are dated in
\* the window, each once although it may be in both stores and under two dates
\* (serve.py:157-166).
VelocityIsExact ==
    [][\A r \in Requests : req[r].pc = "live" /\ req'[r].pc = "geo" =>
          /\ req'[r].sure /\ ~Ahead(r) => req'[r].count >= Cardinality(Owed(r))
          /\ req'[r].count <= Cardinality(There(r))]_vars

\* A request reports a speed only against another request's point that is
\* elsewhere and dated before its own, in whatever order the two read and
\* replaced the last point.
GeoIsHonest ==
    \A r \in Requests : req[r].speed =>
        \E q \in Requests \ {r} :
            /\ req[q].pc \in {"record", "done"} /\ At(q) < At(r)
            /\ PointOf[req[q].row.id] # PointOf[req[r].row.id]

\* No query goes on for ever.
QueriesEnd == \A q \in Requests : []<>(req[q].pc # "query")

\* "Scoring must never fail on a history miss": a request that has been through
\* the history is answered, and so is every request that came in unless the
\* store keeps a query without an answer: a lookup that fails, or that finds
\* Redis gone, leaves nobody waiting for the lock.
Answered ==
    \A r \in Requests : /\ (req[r].pc = "live") ~> (req[r].pc = "done")
                        /\ QueriesEnd => (req[r].pc = "ask") ~> (req[r].pc = "done")

=============================================================================
