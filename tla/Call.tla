--------------------------------- MODULE Call --------------------------------
(***************************************************************************)
(* The functions without state of their own are called with one argument   *)
(* after another: call is the function and the argument, or no call.       *)
(***************************************************************************)
VARIABLE call

NoCall == [fn |-> "none"]
Idle   == call.fn = "none"

\* One of these functions, fn, is called with one of args.
Calls(fn, args) == \E a \in args : call' = [fn |-> fn, arg |-> a]

Return == ~Idle /\ call' = NoCall
=============================================================================
