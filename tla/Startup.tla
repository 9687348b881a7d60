------------------------------ MODULE Startup ------------------------------
(***************************************************************************)
(* Bringing the tunnel up and the proxy online, and shutting down.         *)
(*                                                                         *)
(*   main (src/unnamed/part_004) parses its flags and the configuration,  *)
(*   wires the signals, and calls WireSocks.Run (src/unnamed/part_000),    *)
(*   which calls createWireguardDevice                                     *)
(*   (src/unnamed/part_002): netstack.CreateNetTUN, establishWireguard     *)
(*   (IpcSet, Up, then waitHandshake under a 15 s deadline derived from    *)
(*   context.Background()), then connectivityTest under a 10 s deadline   *)
(*   derived from the WireSocks context.  Then ProxyServer.Start opens the *)
(*   listeners, Run waits for the context to be cancelled, calls           *)
(*   ProxyServer.Stop and returns; the deferred dev.Close runs and main    *)
(*   exits 0.  Any startup error goes to log.Fatalf, i.e. os.Exit(1),      *)
(*   which skips deferred functions.                                       *)
(*                                                                         *)
(*   Concurrently: main's signal goroutine calls WireSocks.Stop (cancels   *)
(*   the context) on SIGINT/SIGTERM; peers complete handshakes; time       *)
(*   passes.  Time is counted in whole seconds since the current deadline  *)
(*   was armed.                                                            *)
(***************************************************************************)
EXTENDS Naturals

CONSTANTS
  Peers,          \* the configured WireGuard peers (model values)
  HsDeadline,     \* waitHandshake deadline in seconds (15 in the code)
  ProbeDeadline,  \* connectivityTest deadline in seconds (10 in the code)
  Configured      \* the listeners given on the command line

ASSUME Peers # {}
ASSUME HsDeadline \in Nat \ {0} /\ ProbeDeadline \in Nat \ {0}
ASSUME Configured \subseteq {"socks", "http"}

Listeners == {"socks", "http"}

\* Time is not counted past the longer deadline: nothing depends on it.
MaxElapsed == IF HsDeadline > ProbeDeadline THEN HsDeadline ELSE ProbeDeadline

VARIABLES
  pc,             \* where Run's goroutine is
  elapsed,        \* seconds since the current deadline was armed
  cancelled,      \* the WireSocks (and so ProxyServer) context is done
  hs,             \* hs[p]: peer p has completed a handshake
  dev,            \* the WireGuard device: "none", "down", "up", "closed"
  lns,            \* lns[l]: listener l: "none", "open", "closed"
  exitCode,       \* the process exit status, "none" while running
  vtg,            \* Start's context goroutine: "none", "wait" (blocked on
                  \*   ctx.Done()), "done" (it has called vt.Stop)
  sawHs           \* history: a successful IpcGet was taken while some peer
                  \*   had handshaken

vars == <<pc, elapsed, cancelled, hs, dev, lns, exitCode, vtg, sawHs>>

RunStates == {"main", "create", "hs_check", "hs_ipc", "hs_sleep", "hs_fail",
              "probe_check", "probe_do", "start", "running", "exited"}

\* States in which Run is inside a deadline-bounded wait.
Timed == {"hs_check", "hs_ipc", "hs_sleep", "probe_check", "probe_do"}

\* log.Fatalf: os.Exit(1); deferred functions do not run.
Fatal ==
  /\ pc'       = "exited"
  /\ exitCode' = "1"

-----------------------------------------------------------------------------
(* Run's goroutine.                                                        *)

\* main before ws.Run: the logger (os.Exit(1) on error), the required -c
\* flag and ParseConfig, NewWireSocks, and the -s and -h addresses; any
\* error is fatal.  Then signal.Notify and the signal goroutine, and Run.
MainSetup(ok) ==
  /\ pc = "main"
  /\ IF ok THEN pc' = "create" /\ UNCHANGED exitCode
           ELSE Fatal
  /\ UNCHANGED <<elapsed, cancelled, hs, dev, lns, vtg, sawHs>>

\* establishWireguard: NewDevice creates the device, which is up only when
\* IpcSet and Up both succeed; an error returns with the device left down.
EstablishWireguard(outcome) == IF outcome = "ok" THEN "up" ELSE "down"

\* createWireguardDevice up to waitHandshake: CreateNetTUN, then
\* establishWireguard; any error is fatal.
CreateDevice(outcome) ==
  /\ pc = "create"
  /\ \/ /\ outcome = "tunErr"
        /\ Fatal
        /\ UNCHANGED <<dev, elapsed>>
     \/ /\ outcome \in {"ipcErr", "upErr"}
        /\ dev' = EstablishWireguard(outcome)
        /\ Fatal
        /\ UNCHANGED elapsed
     \/ /\ outcome = "ok"
        /\ dev'     = EstablishWireguard(outcome)
        /\ pc'      = "hs_check"
        /\ elapsed' = 0
        /\ UNCHANGED exitCode
  /\ UNCHANGED <<cancelled, hs, lns, vtg, sawHs>>

\* Fault variant: the loop's select has no deadline case.
HsCheckNoDeadline ==
  /\ pc = "hs_check"
  /\ pc' = "hs_ipc"
  /\ UNCHANGED <<elapsed, cancelled, hs, dev, lns, exitCode, vtg, sawHs>>

\* waitHandshake, top of the loop: its context is the 15 s deadline of
\* context.Background(), which Stop does not cancel.
HsCheck ==
  /\ pc = "hs_check"
  /\ pc' = IF elapsed >= HsDeadline THEN "hs_fail" ELSE "hs_ipc"
  /\ UNCHANGED <<elapsed, cancelled, hs, dev, lns, exitCode, vtg, sawHs>>

\* Fault variant: an IpcGet error breaks out of the loop (nil error)
\* instead of continuing it.
HsPollErrorBreaks(ipcOk, first) ==
  /\ pc = "hs_ipc"
  /\ \/ /\ ~ipcOk
        /\ pc' = "probe_check" /\ elapsed' = 0
        /\ UNCHANGED sawHs
     \/ /\ ipcOk
        /\ sawHs' = (sawHs \/ \E q \in Peers : hs[q])
        /\ IF hs[first]
             THEN pc' = "probe_check" /\ elapsed' = 0
             ELSE pc' = "hs_sleep" /\ UNCHANGED elapsed
  /\ UNCHANGED <<cancelled, hs, dev, lns, exitCode, vtg>>

\* dev.IpcGet, then the scan of its lines: an error loops back at once,
\* without sleeping.  Otherwise the scan stops at the first
\* last_handshake_time_sec line, which belongs to the first peer the device
\* lists (`first`: the device walks its peer map in no fixed order).
HsPoll(ipcOk, first) ==
  /\ pc = "hs_ipc"
  /\ \/ /\ ~ipcOk
        /\ pc' = "hs_check"
        /\ UNCHANGED <<elapsed, sawHs>>
     \/ /\ ipcOk
        /\ sawHs' = (sawHs \/ \E q \in Peers : hs[q])
        /\ IF hs[first]
             THEN pc' = "probe_check" /\ elapsed' = 0
             ELSE pc' = "hs_sleep" /\ UNCHANGED elapsed
  /\ UNCHANGED <<cancelled, hs, dev, lns, exitCode, vtg>>

\* time.Sleep(1 * time.Second)
HsSleep ==
  /\ pc = "hs_sleep"
  /\ pc' = "hs_check"
  /\ elapsed' = IF elapsed < MaxElapsed THEN elapsed + 1 ELSE elapsed
  /\ UNCHANGED <<cancelled, hs, dev, lns, exitCode, vtg, sawHs>>

\* establishWireguard after waitHandshake failed: BindClose, Close, error;
\* Run's log.Fatalf follows.
HsFail ==
  /\ pc = "hs_fail"
  /\ dev' = "closed"
  /\ Fatal
  /\ UNCHANGED <<elapsed, cancelled, hs, lns, vtg, sawHs>>

\* connectivityTest, top of the loop: the deadline context is derived from
\* the WireSocks context, so it is done on Stop or after 10 s; then
\* createWireguardDevice closes the device and Run exits fatally.
ProbeCheck ==
  /\ pc = "probe_check"
  /\ IF cancelled \/ elapsed >= ProbeDeadline
       THEN dev' = "closed" /\ Fatal
       ELSE pc' = "probe_do" /\ UNCHANGED <<dev, exitCode>>
  /\ UNCHANGED <<elapsed, cancelled, hs, lns, vtg, sawHs>>

\* client.Do of the HEAD request: an error or a non-200 status retries at
\* once; 200 ends the test and Run starts the proxy.
ProbeDo(status) ==
  /\ pc = "probe_do"
  /\ pc' = IF status = "200" THEN "start" ELSE "probe_check"
  /\ UNCHANGED <<elapsed, cancelled, hs, dev, lns, exitCode, vtg, sawHs>>

\* Fault variant: the SOCKS listener is left open when the HTTP listen
\* fails.
StartNoCleanup(socksOk, httpOk) ==
  /\ pc = "start"
  /\ LET socks == "socks" \in Configured
         http  == "http" \in Configured
     IN \/ /\ socks /\ ~socksOk
           /\ Fatal
           /\ UNCHANGED lns
        \/ /\ ~socks \/ socksOk
           /\ http /\ ~httpOk
           /\ lns' = [lns EXCEPT !["socks"] = IF socks THEN "open" ELSE @]
           /\ Fatal
        \/ /\ ~socks /\ ~http
           /\ Fatal
           /\ UNCHANGED lns
        \/ /\ socks \/ http
           /\ ~socks \/ socksOk
           /\ ~http \/ httpOk
           /\ lns' = [l \in Listeners |-> IF l \in Configured THEN "open"
                                                               ELSE "none"]
           /\ pc' = "running"
           /\ UNCHANGED exitCode
  /\ vtg' = IF pc' = "running" THEN "wait" ELSE vtg
  /\ UNCHANGED <<elapsed, cancelled, hs, dev, sawHs>>

\* ProxyServer.Start: listen on the SOCKS address, then on the HTTP address
\* (closing the SOCKS listener if that fails), fail if neither is
\* configured, else start the accept loops and the goroutine that calls
\* vt.Stop once the context is done.  Errors are fatal in Run.
Start(socksOk, httpOk) ==
  /\ pc = "start"
  /\ LET socks == "socks" \in Configured
         http  == "http" \in Configured
     IN \/ /\ socks /\ ~socksOk
           /\ Fatal
           /\ UNCHANGED lns
        \/ /\ ~socks \/ socksOk
           /\ http /\ ~httpOk
           /\ lns' = [lns EXCEPT !["socks"] = IF socks THEN "closed" ELSE @]
           /\ Fatal
        \/ /\ ~socks /\ ~http
           /\ Fatal
           /\ UNCHANGED lns
        \/ /\ socks \/ http
           /\ ~socks \/ socksOk
           /\ ~http \/ httpOk
           /\ lns' = [l \in Listeners |-> IF l \in Configured THEN "open"
                                                               ELSE "none"]
           /\ pc' = "running"
           /\ UNCHANGED exitCode
  /\ vtg' = IF pc' = "running" THEN "wait" ELSE vtg
  /\ UNCHANGED <<elapsed, cancelled, hs, dev, sawHs>>

\* Fault variant: vt is built with the device.
VtHasDevSet == TRUE

\* Start builds vt with Dev: nil.
VtHasDev == FALSE

\* Start's goroutine: <-s.ctx.Done(), then vt.Stop(), which calls
\* vt.Dev.Down() when Dev is set and otherwise only logs.  It dies with
\* the process.
VtStop ==
  /\ vtg = "wait"
  /\ cancelled
  /\ pc # "exited"
  /\ vtg' = "done"
  /\ IF VtHasDev /\ dev = "up" THEN dev' = "down" ELSE UNCHANGED dev
  /\ UNCHANGED <<pc, elapsed, cancelled, hs, lns, exitCode, sawHs>>

\* Fault variant: Run does not wait for the context before stopping.
ShutdownNoWait ==
  /\ pc = "running"
  /\ lns' = [l \in Listeners |-> IF lns[l] = "open" THEN "closed" ELSE lns[l]]
  /\ dev' = "closed"
  /\ pc' = "exited"
  /\ exitCode' = "0"
  /\ UNCHANGED <<elapsed, cancelled, hs, vtg, sawHs>>

\* Run: <-s.ctx.Done(); proxy.Stop() cancels and closes the listeners; Run
\* returns nil, its deferred dev.Close runs and main returns (exit 0).
Shutdown ==
  /\ pc = "running"
  /\ cancelled
  /\ lns' = [l \in Listeners |-> IF lns[l] = "open" THEN "closed" ELSE lns[l]]
  /\ dev' = "closed"
  /\ pc' = "exited"
  /\ exitCode' = "0"
  /\ UNCHANGED <<elapsed, cancelled, hs, vtg, sawHs>>

-----------------------------------------------------------------------------
(* The environment.                                                        *)

\* SIGINT or SIGTERM before main's signal.Notify: the default action of
\* the Go runtime terminates the process; nothing is bound yet.
SignalKill ==
  /\ pc = "main"
  /\ pc' = "exited"
  /\ exitCode' = "signal"
  /\ UNCHANGED <<elapsed, cancelled, hs, dev, lns, vtg, sawHs>>

\* main's signal goroutine: SIGINT or SIGTERM, then WireSocks.Stop.  It
\* receives once: a later signal fills or is dropped by the one-slot
\* sigChan and changes nothing.
Signal ==
  /\ ~cancelled
  /\ pc \notin {"main", "exited"}
  /\ cancelled' = TRUE
  /\ UNCHANGED <<pc, elapsed, hs, dev, lns, exitCode, vtg, sawHs>>

\* Peer p answers a handshake of the device.
Handshake(p) ==
  /\ dev = "up"
  /\ ~hs[p]
  /\ hs' = [hs EXCEPT ![p] = TRUE]
  /\ UNCHANGED <<pc, elapsed, cancelled, dev, lns, exitCode, vtg, sawHs>>

\* A second passes while Run is in a timed wait.
Tick ==
  /\ pc \in Timed
  /\ elapsed < MaxElapsed
  /\ elapsed' = elapsed + 1
  /\ UNCHANGED <<pc, cancelled, hs, dev, lns, exitCode, vtg, sawHs>>

-----------------------------------------------------------------------------

Init ==
  /\ pc            = "main"
  /\ elapsed       = 0
  /\ cancelled     = FALSE
  /\ hs            = [p \in Peers |-> FALSE]
  /\ dev           = "none"
  /\ lns           = [l \in Listeners |-> "none"]
  /\ exitCode      = "none"
  /\ vtg           = "none"
  /\ sawHs         = FALSE

RunStep ==
  \/ \E ok \in BOOLEAN : MainSetup(ok)
  \/ \E o \in {"tunErr", "ipcErr", "upErr", "ok"} : CreateDevice(o)
  \/ HsCheck
  \/ \E ok \in BOOLEAN, p \in Peers : HsPoll(ok, p)
  \/ HsSleep
  \/ HsFail
  \/ ProbeCheck
  \/ \E s \in {"err", "503", "200"} : ProbeDo(s)
  \/ \E sOk, hOk \in BOOLEAN : Start(sOk, hOk)
  \/ Shutdown

Next ==
  \/ RunStep
  \/ SignalKill
  \/ Signal
  \/ VtStop
  \/ \E p \in Peers : Handshake(p)
  \/ Tick

\* Run's goroutine and Start's context goroutine are scheduled fairly and
\* wall-clock time advances; the operator (signals) and the peers are not
\* obliged to do anything.
Spec == Init /\ [][Next]_vars /\ WF_vars(RunStep) /\ WF_vars(VtStop)
        /\ WF_vars(Tick)

-----------------------------------------------------------------------------
(* Properties.                                                             *)

TypeOK ==
  /\ pc            \in RunStates
  /\ elapsed       \in 0..MaxElapsed
  /\ cancelled     \in BOOLEAN
  /\ hs            \in [Peers -> BOOLEAN]
  /\ dev           \in {"none", "down", "up", "closed"}
  /\ lns           \in [Listeners -> {"none", "open", "closed"}]
  /\ exitCode      \in {"none", "0", "1", "signal"}
  /\ vtg           \in {"none", "wait", "done"}
  /\ sawHs         \in BOOLEAN

(* The proxy accepts clients only over a live tunnel: a listener is open  *)
(* only once some peer has completed a handshake (waitHandshake) and the  *)
(* device is up.                                                          *)
ListenersOnlyOverLiveTunnel ==
  \A l \in Listeners :
    lns[l] = "open" => dev = "up" /\ \E p \in Peers : hs[p]

(* Spec scenario 6: a failed startup leaves no listener bound; when the   *)
(* HTTP listen fails, ProxyServer.Start closes the SOCKS listener it had   *)
(* already opened.                                                         *)
NoListenerLeftOnFailure ==
  exitCode = "1" => \A l \in Listeners : lns[l] # "open"

(* Startup always ends, running or exited, even when IpcGet keeps failing *)
(* (a loop without sleep) or no peer ever answers: both waits are bounded *)
(* by their deadlines.                                                     *)
StartupTerminates == <>(pc \in {"running", "exited"})

(* The orchestrator implements its lifecycle promise: Run's phase is     *)
(* "serving" while the listeners are up, and the process is down once it  *)
(* exited.  Shutdown happens only after the signal goroutine's             *)
(* WireSocks.Stop, closes every listener, and exits 0; any startup failure *)
(* exits 1 with nothing bound; and, under fairness of Run's goroutine,     *)
(* startup ends and a cancelled running proxy shuts down.                  *)
LC == INSTANCE Lifecycle
        WITH phase     <- CASE pc = "running" -> "serving"
                            [] pc = "exited"  -> "down"
                            [] OTHER          -> "starting",
             bound     <- \E l \in Listeners : lns[l] = "open",
             cancelled <- cancelled,
             exitCode  <- exitCode

LifecycleRefinement == LC!ASpec

(* Spec 4.2 step 5: the handshake wait succeeds as soon as any peer        *)
(* reports a non-zero last_handshake_time_sec; it never fails after a poll *)
(* that saw a handshaken peer.                                             *)
HandshakeAnyPeer == pc = "hs_fail" => ~sawHs

=============================================================================
