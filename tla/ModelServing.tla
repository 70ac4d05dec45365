----------------------------- MODULE ModelServing ----------------------------
(***************************************************************************)
(* What the registry's models are for: the API workers serve the active    *)
(* one from a cache of their own until POST /reload drops it (ml/serve.py, *)
(* service.py).                                                            *)
(***************************************************************************)
EXTENDS ModelRegistry

CONSTANT Workers   \* the API processes

VARIABLES
    cache,         \* _active's lru_cache, by worker; 0 if empty
    loading,       \* the versions threads of the worker are loading
    current        \* ghost: the worker has dropped its model, while no thread
                   \* of it was loading one, since the active one changed

vars == <<registryVars, cache, loading, current>>

-----------------------------------------------------------------------------
TypeOK ==
    /\ RegistryTypeOK
    /\ cache \in [Workers -> 0..MaxVersions]
    /\ loading \in [Workers -> SUBSET Versions]
    /\ current \in [Workers -> BOOLEAN]

-----------------------------------------------------------------------------
(* Serving.                                                                *)

\* What _active would load now: nothing if there is no model or no index.
Loadable == IF whole /\ index.active # 0 THEN {index.active} ELSE {}

\* A request, or the start of the worker, finds no model and begins to load.
BeginLoad(w) ==
    /\ cache[w] = 0
    /\ loading' = [loading EXCEPT ![w] = @ \cup Loadable]
    /\ UNCHANGED <<registryVars, cache, current>>

\* _Model(v) is done, or raises: an artifact is missing or was made for other
\* features.  An lru_cache keeps the first result that comes in, and no
\* exception.
EndLoad(w) ==
    /\ \E v \in loading[w] :
           /\ loading' = [loading EXCEPT ![w] = @ \ {v}]
           /\ \/ cache' = [cache EXCEPT ![w] = IF @ = 0 THEN v ELSE @]
              \/ cache' = cache
    /\ UNCHANGED <<registryVars, current>>

\* Mutant: /reload loads the model and does not drop the old one.
Reload_Keeps(w) ==
    /\ loading' = [loading EXCEPT ![w] = @ \cup Loadable]
    /\ current' = [current EXCEPT ![w] = loading[w] = {}]
    /\ UNCHANGED <<registryVars, cache>>

\* POST /reload reaches one worker: cache_clear, and _active.
Reload(w) ==
    /\ cache' = [cache EXCEPT ![w] = 0]
    /\ loading' = [loading EXCEPT ![w] = @ \cup Loadable]
    /\ current' = [current EXCEPT ![w] = loading[w] = {}]
    /\ UNCHANGED registryVars

Restart(w) ==
    /\ cache' = [cache EXCEPT ![w] = 0]
    /\ loading' = [loading EXCEPT ![w] = Loadable]
    /\ current' = [current EXCEPT ![w] = TRUE]
    /\ UNCHANGED registryVars

\* The two models of behaviour_change: the one served and the index's previous.
Compared(w) == <<index.previous, cache[w]>>

-----------------------------------------------------------------------------
Init ==
    /\ RegistryInit
    /\ cache = [w \in Workers |-> 0]
    /\ loading = [w \in Workers |-> {}]
    /\ current = [w \in Workers |-> TRUE]

\* A job's step; the model served is out of date if it has changed the active one.
JobStep(j) ==
    /\ RegistryStep(j)
    /\ current' = [w \in Workers |-> current[w] /\ index'.active = index.active]
    /\ UNCHANGED <<cache, loading>>

Next ==
    \/ \E j \in Jobs : JobStep(j)
    \/ \E w \in Workers : BeginLoad(w) \/ EndLoad(w) \/ Reload(w) \/ Restart(w)

Spec == Init /\ [][Next]_vars

-----------------------------------------------------------------------------
(* What serving must keep.                                                 *)

\* No worker ever serves a model that did not pass the promotion gate, however
\* jobs overlap, die or write over each other's index.
ServedPassedGate ==
    \A w \in Workers : cache[w] # 0 => cache[w] \in passed

\* "/reload (or a restart) is what makes a newly-promoted model take effect": a
\* worker that did either since the active model last changed, with no thread
\* still loading at that moment, serves the active model from then on, and
\* behaviour_change compares it with another one.
ReloadTakesEffect ==
    \A w \in Workers : current[w] /\ cache[w] # 0 =>
        /\ cache[w] = index.active
        /\ ~overlapped => Compared(w)[1] # Compared(w)[2]
=============================================================================
