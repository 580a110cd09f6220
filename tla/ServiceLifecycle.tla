-------------------------- MODULE ServiceLifecycle --------------------------
(***************************************************************************)
(* How one replica of the service starts, waits and stops: run (main.go),  *)
(* Run and Close (service/service.go), ExternalServiceList                 *)
(* (service/initialise.go).                                                *)
(*                                                                         *)
(* Three goroutines: main, which starts the service, waits for a signal or *)
(* a server error and closes the service; server, which runs               *)
(* ListenAndServe and reports its error; closer, started by Close.  They   *)
(* meet in the channels svcErrors and signals, in Close's context, and in  *)
(* the HTTP server.                                                        *)
(***************************************************************************)
EXTENDS Naturals

CONSTANT MaxRequests    (* bound on the requests served at one time *)

ASSUME LifecycleAssumption == MaxRequests \in Nat

VARIABLES
  main,           (* what main does next                                  *)
  outcome,        (* how the process ended                                *)
  serviceList,    (* ExternalServiceList: the flags that are set          *)
  healthCheck,    (* the life of the health checker                       *)
  server,         (* what the server goroutine does next                  *)
  listeners,      (* the HTTP server's, which Shutdown closes             *)
  requests,       (* how many requests are being served                   *)
  svcErrors,      (* how many errors are in the channel svcErrors         *)
  signals,        (* how many signals are in the channel signals          *)
  closer,         (* what Close's goroutine does next                     *)
  ctx,            (* Close's context                                      *)
  hasShutdownError

startVars  == <<serviceList, healthCheck>>
serverVars == <<server, listeners, requests>>
closeVars  == <<closer, ctx, hasShutdownError>>
vars == <<main, outcome, serviceList, healthCheck, server, listeners, requests,
          svcErrors, signals, closer, ctx, hasShutdownError>>

(* The capacities of the two channels.                                     *)
UnbufferedErrors == 0
SvcErrorsCap == 1
SignalsCap == 1

MainTypes ==
  /\ main \in {"config", "uploaded", "static", "health", "checkers", "serve",
               "select", "closing", "exited"}
  /\ outcome \in {"none", "run failed", "service error", "clean", "timed out",
                  "not graceful"}
  /\ serviceList \subseteq {"S3Uploaded", "HealthCheck"}
  /\ healthCheck \in {"none", "created", "started", "stopped"}

ServerTypes ==
  /\ server \in {"none", "start", "listening", "send", "done"}
  /\ listeners \in {"open", "closed"}
  /\ requests \in 0 .. MaxRequests
  /\ svcErrors \in 0 .. 1
  /\ signals \in 0 .. SignalsCap

CloserTypes ==
  /\ closer \in {"none", "healthcheck", "shutdown", "draining", "cancel", "done"}
  /\ ctx \in {"none", "open", "cancelled", "expired"}
  /\ hasShutdownError \in BOOLEAN

TypeOK == MainTypes /\ ServerTypes /\ CloserTypes

Init ==
  /\ main = "config"
  /\ outcome = "none"
  /\ serviceList = {}
  /\ healthCheck = "none"
  /\ server = "none"
  /\ listeners = "open"
  /\ requests = 0
  /\ svcErrors = 0
  /\ signals = 0
  /\ closer = "none"
  /\ ctx = "none"
  /\ hasShutdownError = FALSE

Running == main # "exited"

Exit(how) == main' = "exited" /\ outcome' = how

-----------------------------------------------------------------------------
(* service.Run: each call it makes may fail, and then Run returns at once. *)

Continue(from, to) == main = from /\ main' = to /\ UNCHANGED outcome

RunFails ==
  /\ main \in {"config", "uploaded", "static", "health", "checkers"}
  /\ Exit("run failed")
  /\ UNCHANGED <<startVars, serverVars, svcErrors, signals, closeVars>>

GetConfig ==
  /\ Continue("config", "uploaded")
  /\ UNCHANGED <<startVars, serverVars, svcErrors, signals, closeVars>>

GetS3Uploaded ==
  /\ Continue("uploaded", "static")
  /\ serviceList' = serviceList \cup {"S3Uploaded"}
  /\ UNCHANGED <<healthCheck, serverVars, svcErrors, signals, closeVars>>

GetS3StaticFileUploader ==
  /\ Continue("static", "health")
  /\ UNCHANGED <<startVars, serverVars, svcErrors, signals, closeVars>>

(* As if the flag were forgotten.                                          *)
GetHealthCheckUnflagged ==
  /\ Continue("health", "checkers")
  /\ healthCheck' = "created"
  /\ UNCHANGED <<serviceList, serverVars, svcErrors, signals, closeVars>>

GetHealthCheck ==
  /\ Continue("health", "checkers")
  /\ serviceList' = serviceList \cup {"HealthCheck"}
  /\ healthCheck' = "created"
  /\ UNCHANGED <<serverVars, svcErrors, signals, closeVars>>

RegisterCheckers ==
  /\ Continue("checkers", "serve")
  /\ UNCHANGED <<startVars, serverVars, svcErrors, signals, closeVars>>

(* hc.Start, and ListenAndServe in a goroutine of its own.                 *)
StartService ==
  /\ Continue("serve", "select")
  /\ healthCheck' = "started"
  /\ server' = "start"
  /\ UNCHANGED <<serviceList, listeners, requests, svcErrors, signals, closeVars>>

-----------------------------------------------------------------------------
(* The server goroutine, and the requests it accepts.                      *)

Listen ==
  /\ Running /\ server = "start" /\ listeners = "open"
  /\ server' = "listening"
  /\ UNCHANGED <<main, outcome, startVars, listeners, requests, svcErrors, signals,
                 closeVars>>

(* ListenAndServe always returns an error: the address is taken, accepting *)
(* fails, or the server was shut down, before it listened or after.        *)
ListenAndServeReturns ==
  /\ Running /\ server \in {"start", "listening"}
  /\ server' = "send"
  /\ UNCHANGED <<main, outcome, startVars, listeners, requests, svcErrors, signals,
                 closeVars>>

(* As if the error were logged and not reported.                           *)
ErrorNotSent ==
  /\ Running /\ server = "send"
  /\ server' = "done"
  /\ UNCHANGED <<main, outcome, startVars, listeners, requests, svcErrors, signals,
                 closeVars>>

SendError ==
  /\ Running /\ server = "send"
  /\ svcErrors < SvcErrorsCap
  /\ svcErrors' = svcErrors + 1
  /\ server' = "done"
  /\ UNCHANGED <<main, outcome, startVars, listeners, requests, signals, closeVars>>

Arrive ==
  /\ Running /\ server = "listening" /\ listeners = "open"
  /\ requests < MaxRequests
  /\ requests' = requests + 1
  /\ UNCHANGED <<main, outcome, startVars, server, listeners, svcErrors, signals,
                 closeVars>>

Finish ==
  /\ Running /\ requests > 0
  /\ requests' = requests - 1
  /\ UNCHANGED <<main, outcome, startVars, server, listeners, svcErrors, signals,
                 closeVars>>

-----------------------------------------------------------------------------
(* run: the signals it is notified of, and its select.                     *)

(* signal.Notify does not wait: a signal that finds the channel full is    *)
(* dropped.                                                                *)
Signal ==
  /\ Running /\ signals < SignalsCap
  /\ signals' = signals + 1
  /\ UNCHANGED <<main, outcome, startVars, serverVars, svcErrors, closeVars>>

ReceiveError ==
  /\ main = "select" /\ svcErrors > 0
  /\ svcErrors' = svcErrors - 1
  /\ Exit("service error")
  /\ UNCHANGED <<startVars, serverVars, signals, closeVars>>

(* Close makes its context and starts its goroutine.                       *)
ReceiveSignal ==
  /\ main = "select" /\ signals > 0
  /\ signals' = signals - 1
  /\ main' = "closing"
  /\ closer' = "healthcheck"
  /\ ctx' = "open"
  /\ UNCHANGED <<outcome, startVars, serverVars, svcErrors, hasShutdownError>>

-----------------------------------------------------------------------------
(* Close's goroutine, and Close waiting for its context.                   *)

(* As if the health check were left to stop with the process.              *)
StopNoHealthCheck ==
  /\ Running /\ closer = "healthcheck"
  /\ closer' = "shutdown"
  /\ UNCHANGED <<main, outcome, startVars, serverVars, svcErrors, signals, ctx,
                 hasShutdownError>>

StopHealthCheck ==
  /\ Running /\ closer = "healthcheck"
  /\ healthCheck' = IF "HealthCheck" \in serviceList THEN "stopped" ELSE healthCheck
  /\ closer' = "shutdown"
  /\ UNCHANGED <<main, outcome, serviceList, serverVars, svcErrors, signals, ctx,
                 hasShutdownError>>

(* Shutdown closes the listeners; then it waits for the requests.          *)
Shutdown ==
  /\ Running /\ closer = "shutdown"
  /\ listeners' = "closed"
  /\ closer' = "draining"
  /\ UNCHANGED <<main, outcome, startVars, server, requests, svcErrors, signals, ctx,
                 hasShutdownError>>

ShutdownReturns ==
  /\ Running /\ closer = "draining"
  /\ requests = 0
  /\ closer' = "cancel"
  /\ UNCHANGED <<main, outcome, startVars, serverVars, svcErrors, signals, ctx,
                 hasShutdownError>>

(* As if the error of Shutdown were only logged.                           *)
ShutdownErrorLogged ==
  /\ Running /\ closer = "draining"
  /\ closer' = "cancel"
  /\ UNCHANGED <<main, outcome, startVars, serverVars, svcErrors, signals, ctx,
                 hasShutdownError>>

(* A listener that does not close, or anything else Shutdown may refuse.   *)
ShutdownFails ==
  /\ Running /\ closer = "draining"
  /\ hasShutdownError' = TRUE
  /\ closer' = "cancel"
  /\ UNCHANGED <<main, outcome, startVars, serverVars, svcErrors, signals, ctx>>

(* The deferred cancel; it does nothing to a context that has expired.     *)
Cancel ==
  /\ Running /\ closer = "cancel"
  /\ ctx' = IF ctx = "open" THEN "cancelled" ELSE ctx
  /\ closer' = "done"
  /\ UNCHANGED <<main, outcome, startVars, serverVars, svcErrors, signals,
                 hasShutdownError>>

(* GracefulShutdownTimeout is over.                                        *)
Timeout ==
  /\ Running /\ ctx = "open"
  /\ ctx' = "expired"
  /\ UNCHANGED <<main, outcome, startVars, serverVars, svcErrors, signals, closer,
                 hasShutdownError>>

(* As if Close waited for its goroutine and not for its context.           *)
CloseAfterGoroutine ==
  /\ main = "closing" /\ closer = "done"
  /\ Exit(IF ctx = "expired" THEN "timed out"
          ELSE IF hasShutdownError THEN "not graceful" ELSE "clean")
  /\ UNCHANGED <<startVars, serverVars, svcErrors, signals, closeVars>>

CloseReturns ==
  /\ main = "closing" /\ ctx # "open"
  /\ Exit(IF ctx = "expired" THEN "timed out"
          ELSE IF hasShutdownError THEN "not graceful" ELSE "clean")
  /\ UNCHANGED <<startVars, serverVars, svcErrors, signals, closeVars>>

-----------------------------------------------------------------------------
Run ==
  \/ GetConfig \/ GetS3Uploaded \/ GetS3StaticFileUploader \/ GetHealthCheck
  \/ RegisterCheckers \/ StartService \/ RunFails

Serve == Listen \/ ListenAndServeReturns \/ SendError

Select == ReceiveError \/ ReceiveSignal

Closer ==
  \/ StopHealthCheck \/ Shutdown \/ ShutdownReturns \/ ShutdownFails \/ Cancel

Next ==
  \/ Run \/ Serve \/ Arrive \/ Finish
  \/ Signal \/ Select
  \/ Closer \/ Timeout \/ CloseReturns

Spec == Init /\ [][Next]_vars

-----------------------------------------------------------------------------
(* Safety.                                                                 *)

(* A Close that returns nil has closed everything: the health check it     *)
(* started is stopped, no request was cut off, and its goroutine is        *)
(* through, so that hasShutdownError was settled when Close read it.       *)
CleanExitIsDrained ==
  outcome = "clean" =>
    /\ healthCheck = "stopped"
    /\ listeners = "closed" /\ requests = 0
    /\ closer = "done" /\ ~hasShutdownError

(* "In the required order": the server is not told to shut down while the  *)
(* health check still calls what the service depends on.                   *)
HealthCheckStopsFirst == listeners = "closed" => healthCheck = "stopped"

(* A Run that returns an error has started nothing: no server goroutine    *)
(* and no health check outlive it.                                         *)
FailedRunStartsNothing ==
  outcome = "run failed" => server = "none" /\ healthCheck # "started"

(* The server goroutine never waits to report its error, whether main      *)
(* still selects or has long stopped listening for errors.                 *)
SendNeverBlocks == server = "send" => svcErrors < SvcErrorsCap

(* Who has done what, by what main and the closer do next.                 *)
Order ==
  /\ main # "exited" => outcome = "none"
  /\ main \in {"config", "uploaded", "static", "health", "checkers", "serve"}
       => server = "none" /\ healthCheck \in {"none", "created"}
  /\ main \in {"checkers", "serve", "select", "closing"}
       => "HealthCheck" \in serviceList
  /\ main # "closing" /\ main # "exited" => closer = "none" /\ ctx = "none"
  /\ main = "closing" => closer # "none" /\ ctx # "none"
  /\ server \in {"none", "start", "listening", "send"} => svcErrors = 0
  /\ closer \in {"none", "healthcheck"} => listeners = "open"
  /\ closer = "shutdown" => healthCheck = "stopped"
  /\ closer \in {"draining", "cancel", "done"} => listeners = "closed"
  /\ closer \in {"cancel", "done"} => requests = 0 \/ hasShutdownError
  /\ ctx = "cancelled" => closer = "done"

(* The inductive invariant.                                                *)
Inv ==
  /\ TypeOK
  /\ Order
  /\ HealthCheckStopsFirst
  /\ CleanExitIsDrained
  /\ FailedRunStartsNothing

-----------------------------------------------------------------------------
(* What the process promises, and that it keeps it.                        *)

Starting == {"config", "uploaded", "static", "health", "checkers", "serve"}

Phase ==
  CASE main = "exited"   -> "ended"
    [] main \in Starting -> "starting"
    [] OTHER             -> IF listeners = "open" THEN "serving" ELSE "draining"

Verdict ==
  CASE outcome = "none"  -> "none"
    [] outcome = "clean" -> "graceful"
    [] OTHER             -> "failed"

Promise == INSTANCE GracefulProcess WITH
             phase <- Phase, open <- requests, verdict <- Verdict,
             watch <- IF healthCheck = "started" THEN "on" ELSE "off"

(* "Close gracefully shuts the service down in the required order"         *)
(* (service/service.go:117): the health check stops while requests are     *)
(* still admitted, which they are only from a Run that succeeds until      *)
(* Shutdown closes the listeners (:129-134), and a process whose Close     *)
(* returns nil has answered each of them.                                  *)
ImplementsProcess == Promise!Spec

-----------------------------------------------------------------------------
(* Liveness.                                                               *)

(* A service told to stop is gone, at the latest when the timeout is over, *)
(* though requests, health checks or Shutdown hang.                        *)
SignalledServiceExits == main = "select" /\ signals > 0 ~> main = "exited"

(* A process whose server has stopped does not linger as if it were well.  *)
DeadServerEndsProcess == server \in {"send", "done"} ~> main = "exited"

=============================================================================
