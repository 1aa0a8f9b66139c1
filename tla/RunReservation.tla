--------------------------- MODULE RunReservation ---------------------------
(***************************************************************************)
(* What a parallel run promises to its Flow, to the exports it holds and   *)
(* to whoever stops it (docs/flow_workers.md, "Parallel downloads within a *)
(* Flow"): an export is leased at most once and only while its run is      *)
(* open, a run that is being stopped only loses leases, a run ends once,   *)
(* without a lease, and succeeds only when every export was delivered.     *)
(***************************************************************************)
CONSTANTS
  Runs, Exports,
  RunOf          \* export -> its run

VARIABLES
  run,     \* run -> "idle", "open", "stopping", "succeeded" or "lost"
  export   \* export -> "waiting", "leased", "done" or "over"

vars == <<run, export>>

ExportsOf(r) == {x \in Exports : RunOf[x] = r}

Init ==
  /\ run = [r \in Runs |-> "idle"]
  /\ export = [x \in Exports |-> "waiting"]

-----------------------------------------------------------------------------
(* What one transaction does to one run. *)

Keeps(S) == \A x \in S : export'[x] = export[x]

Rests(r) ==
  /\ run'[r] = run[r]
  /\ Keeps(ExportsOf(r))

\* The Flow is queued.
Opens(r) ==
  /\ run[r] = "idle" /\ run'[r] = "open"
  /\ Keeps(ExportsOf(r))

\* Some exports need no lease, their result is at hand.
Carries(r) ==
  /\ run[r] = "open" /\ run'[r] = "open"
  /\ \A x \in ExportsOf(r) : export[x] = "waiting" /\ export'[x] \in {"waiting", "done"}

Leases(r, x) ==
  /\ run[r] = "open" /\ run'[r] = "open"
  /\ export[x] = "waiting" /\ export'[x] = "leased"
  /\ Keeps(ExportsOf(r) \ {x})

Delivers(r, x) ==
  /\ run[r] = "open" /\ run'[r] = "open"
  /\ export[x] = "leased" /\ export'[x] = "done"
  /\ Keeps(ExportsOf(r) \ {x})

Succeeds(r) ==
  /\ run[r] = "open" /\ run'[r] = "succeeded"
  /\ \A x \in ExportsOf(r) : export[x] = "done"
  /\ Keeps(ExportsOf(r))

\* A stop, a failure, a silent or a restarted worker: nothing is given any
\* more, and the run is lost once nothing is held.
Withdraws(r) ==
  /\ run[r] \in {"open", "stopping"} /\ run'[r] \in {"stopping", "lost"}
  /\ \A x \in ExportsOf(r) :
       \/ export'[x] = export[x]
       \/ export[x] \in {"waiting", "leased"} /\ export'[x] = "over"
  /\ run'[r] = "lost" => \A x \in ExportsOf(r) : export'[x] # "leased"

Acts(r) ==
  \/ Opens(r) \/ Carries(r) \/ Succeeds(r) \/ Withdraws(r)
  \/ \E x \in ExportsOf(r) : Leases(r, x) \/ Delivers(r, x)

-----------------------------------------------------------------------------
\* A transaction serves one run; it may find others overdue and withdraw them.
Next == \E r \in Runs : Acts(r) /\ \A q \in Runs \ {r} : Rests(q) \/ Withdraws(q)

Spec == Init /\ [][Next]_vars
=============================================================================
