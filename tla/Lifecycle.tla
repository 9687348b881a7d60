----------------------------- MODULE Lifecycle -----------------------------
(***************************************************************************)
(* What the lifecycle orchestrator promises (spec.md, C9 and "Exit codes"): *)
(* the process starts, and either fails to start (exit status 1, no        *)
(* listener left bound) or serves; it stops serving only once the          *)
(* cancellation token is set, and then closes its listeners and exits 0.   *)
(* The cancellation token may be set at any time before the process ends.  *)
(* Startup is shown to implement this specification.                       *)
(***************************************************************************)

VARIABLES
  phase,      \* "starting", "serving" or "down"
  bound,      \* some proxy listener is bound
  cancelled,  \* the cancellation token is set
  exitCode    \* "none" while the process runs, then "0", "1", or
              \*   "signal" when a signal's default action ended it

avars == <<phase, bound, cancelled, exitCode>>

AInit ==
  /\ phase     = "starting"
  /\ bound     = FALSE
  /\ cancelled = FALSE
  /\ exitCode  = "none"

\* SIGINT or SIGTERM reaches the orchestrator.
ACancel ==
  /\ ~cancelled
  /\ phase # "down"
  /\ cancelled' = TRUE
  /\ UNCHANGED <<phase, bound, exitCode>>

\* The tunnel is up and the listeners are bound.
AServe ==
  /\ phase = "starting"
  /\ phase' = "serving"
  /\ bound' = TRUE
  /\ UNCHANGED <<cancelled, exitCode>>

\* An unrecoverable startup error: nothing stays bound, the exit status is 1.
AFailStart ==
  /\ phase = "starting"
  /\ phase' = "down"
  /\ exitCode' = "1"
  /\ UNCHANGED <<bound, cancelled>>

\* On cancel the listeners are closed and the process exits 0.
AShutdown ==
  /\ phase = "serving"
  /\ cancelled
  /\ phase' = "down"
  /\ bound' = FALSE
  /\ exitCode' = "0"
  /\ UNCHANGED cancelled

\* SIGINT or SIGTERM before the token is wired to the signals: the process
\* is terminated by the signal, with nothing bound and no status of its own.
AKilled ==
  /\ phase = "starting"
  /\ ~bound /\ ~cancelled
  /\ phase' = "down"
  /\ exitCode' = "signal"
  /\ UNCHANGED <<bound, cancelled>>

ANext == ACancel \/ AServe \/ AFailStart \/ AShutdown \/ AKilled

\* A process that serves shuts down once the token is set; one that starts
\* eventually serves or fails.
ASpec == /\ AInit /\ [][ANext]_avars
         /\ WF_avars(AServe \/ AFailStart) /\ WF_avars(AShutdown)

=============================================================================
