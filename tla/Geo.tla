--------------------------------- MODULE Geo ---------------------------------
(***************************************************************************)
(* Where a transaction was made: the waterfall of ml/geo.py over the       *)
(* coordinates, the location and the IP address of a payload, and the      *)
(* local registry of ml/geo_registry.py.                                   *)
(*                                                                         *)
(* A location is what the code takes from the string: the plus code in it, *)
(* whether it is a placeholder, and the names of its segments once cleaned *)
(* and without the country.  A point is named by where it comes from.      *)
(***************************************************************************)
EXTENDS SequencesExt, Call

CONSTANTS Cities, States   \* the names ng_locations.json knows

Nowhere == [kind |-> "nowhere"]

\* The internal hooks of config.GEO_LOCATION_REGISTRY and GEO_IP_RESOLVER:
\* unset, set to what cannot be loaded, or a function that answers or does not.
Hook == {"unset", "broken", "silent", "answers"}

AnyPayload ==
    [coords: BOOLEAN,                       \* valid ones
     location: [text: {"address", "placeholder", "missing"}, plus: {"none", "full", "short"},
                segs: {<<>>} \cup {<<a>> : a \in Cities \cup States \cup {"elsewhere"}}
                      \cup ((Cities \cup States \cup {"elsewhere"})
                            \X (Cities \cup States \cup {"elsewhere"}))],
     ip: {"none", "private", "public"}]

\* A placeholder ("unknown", "n/a", ..) has no code in it, and at most its own
\* word as a segment.
Payloads == {e \in AnyPayload :
    /\ e.location.text = "placeholder" =>
         e.location.plus = "none" /\ e.location.segs \in {<<>>, <<"elsewhere">>}
    /\ e.location.text = "missing" => e.location.plus = "none" /\ e.location.segs = <<>>}

-----------------------------------------------------------------------------
\* geo_registry.lookup: the second last segment and the last, as a city before
\* a state.
Lookup(loc) ==
    LET state == Last(loc.segs)
        city  == IF Len(loc.segs) >= 2 THEN loc.segs[Len(loc.segs) - 1] ELSE state
        hits  == SelectSeq(<< <<city, "city">>, <<state, "city">>,
                              <<state, "state">>, <<city, "state">> >>,
                           LAMBDA c : c[1] \in (IF c[2] = "city" THEN Cities ELSE States))
    IN  IF loc.text # "address" \/ loc.segs = <<>> \/ hits = <<>> THEN Nowhere
        ELSE [kind |-> "registry", name |-> hits[1][1], level |-> hits[1][2]]

ResolvePlusCode(loc) ==
    CASE loc.plus = "full" -> [kind |-> "plus_code"]
      [] loc.plus = "short" /\ Lookup(loc) # Nowhere ->
           [kind |-> "plus_code", near |-> Lookup(loc)]
      [] OTHER -> Nowhere

\* Mutant: as the comment at geo.py:16 has it, nothing but the hook.
ResolveLocation_HookOnly(loc, hook) ==
    IF hook = "answers" /\ loc.text # "missing" THEN [kind |-> "hook"] ELSE Nowhere

\* A hook that cannot be loaded is as if unset.
ResolveLocation(loc, hook) ==
    CASE hook \in {"unset", "broken"} -> Lookup(loc)
      [] hook = "answers" /\ loc.text # "missing" -> [kind |-> "hook"]
      [] OTHER -> Nowhere

ResolveIp(ip, hook) ==
    IF ip = "public" /\ hook = "answers" THEN [kind |-> "ip"] ELSE Nowhere

\* resolve_coords: the first that resolves.
ResolveCoords(e, locHook, ipHook) ==
    LET tries == << [source |-> "coordinates", point |-> IF e.coords THEN [kind |-> "given"] ELSE Nowhere],
                    [source |-> "plus_code", point |-> ResolvePlusCode(e.location)],
                    [source |-> "location_registry", point |-> ResolveLocation(e.location, locHook)],
                    [source |-> "ip", point |-> ResolveIp(e.ip, ipHook)] >>
        hits  == {i \in 1..4 : tries[i].point # Nowhere}
    IN  IF hits = {} THEN [source |-> "unavailable", point |-> Nowhere] ELSE tries[Min(hits)]

\* resolve_detail, the same once more with the telemetry of the coverage report.
ResolveDetail(e, locHook, ipHook) ==
    LET plus   == ResolvePlusCode(e.location)
        viaLoc == IF locHook # "unset" THEN ResolveLocation(e.location, locHook)
                  ELSE IF e.location.text = "address" THEN Lookup(e.location) ELSE Nowhere
        viaIp  == ResolveIp(e.ip, ipHook)
        found(source, point, loc, ip) ==
            [source |-> source, point |-> point, locResolved |-> loc, ipResolved |-> ip, reason |-> "none"]
    IN  CASE e.coords -> found("coordinates", [kind |-> "given"], FALSE, FALSE)
          [] ~e.coords /\ plus # Nowhere -> found("plus_code", plus, TRUE, FALSE)
          [] ~e.coords /\ plus = Nowhere /\ viaLoc # Nowhere ->
               found("location_registry", viaLoc, TRUE, FALSE)
          [] ~e.coords /\ plus = Nowhere /\ viaLoc = Nowhere /\ viaIp # Nowhere ->
               found("ip", viaIp, FALSE, TRUE)
          [] OTHER ->
               [found("unavailable", Nowhere, FALSE, FALSE) EXCEPT !.reason =
                   IF e.location.text = "address" THEN "unknown_location"
                   ELSE IF e.ip = "private" THEN "private_or_malformed_ip" ELSE "no_evidence"]

-----------------------------------------------------------------------------
(* Properties                                                              *)

\* The waterfall is written twice, once for the coordinates and once for the
\* telemetry of every /score, and both answer alike for every payload and every
\* setting of the hooks; a reason is given exactly when nothing resolved, and
\* the report credits the evidence that did resolve and no other.
DetailAgrees ==
    call.fn = "resolve" => \A locHook, ipHook \in Hook :
        LET e == call.arg
            d == ResolveDetail(e, locHook, ipHook)
            c == ResolveCoords(e, locHook, ipHook)
        IN  /\ d.source = c.source /\ d.point = c.point
            /\ (d.reason # "none") = (d.source = "unavailable")
            /\ d.locResolved = (d.source \in {"plus_code", "location_registry"})
            /\ d.ipResolved = (d.source = "ip")
            /\ (d.reason = "no_evidence") => (e.location.text # "address" /\ e.ip # "private")

=============================================================================
