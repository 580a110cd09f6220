--------------------------- MODULE GracefulProcess ---------------------------
(***************************************************************************)
(* What a replica promises to those who send it requests, and to the       *)
(* scheduler that starts and stops it, with nothing of how: it admits      *)
(* requests from when it serves until it drains, its health check is on    *)
(* when it starts to serve and off before it drains, admission going on in *)
(* between, and it says that it ended gracefully only when every request   *)
(* it admitted has been answered.                                          *)
(* ServiceLifecycle implements it, and so does Replica, process by process.*)
(***************************************************************************)
EXTENDS Naturals

VARIABLES
  phase,          (* of the process that is running, or ran last          *)
  open,           (* how many requests it admitted and has not answered   *)
  watch,          (* "on" while the health check runs                     *)
  verdict         (* how the process says it ended                        *)

state == <<phase, open, watch, verdict>>

Init == phase = "starting" /\ open = 0 /\ watch = "off" /\ verdict = "none"

Serve ==
  /\ phase = "starting" /\ phase' = "serving"
  /\ watch = "off" /\ watch' = "on"
  /\ UNCHANGED <<open, verdict>>

Admit ==
  /\ phase = "serving"
  /\ open' = open + 1
  /\ UNCHANGED <<phase, watch, verdict>>

Answer ==
  /\ phase # "ended" /\ open > 0
  /\ open' = open - 1
  /\ UNCHANGED <<phase, watch, verdict>>

(* The health check goes first, for it depends on everything else.         *)
StopWatching ==
  /\ phase = "serving" /\ watch = "on"
  /\ watch' = "off"
  /\ UNCHANGED <<phase, open, verdict>>

(* From here on nothing is admitted.                                       *)
Drain ==
  /\ phase = "serving" /\ watch = "off"
  /\ phase' = "draining"
  /\ UNCHANGED <<open, watch, verdict>>

EndGracefully ==
  /\ phase = "draining" /\ open = 0 /\ watch = "off"
  /\ phase' = "ended" /\ verdict' = "graceful"
  /\ UNCHANGED <<open, watch>>

Fail ==
  /\ phase # "ended"
  /\ phase' = "ended" /\ verdict' = "failed"
  /\ UNCHANGED <<open, watch>>

StartAgain ==
  /\ phase = "ended"
  /\ phase' = "starting" /\ open' = 0 /\ watch' = "off" /\ verdict' = "none"

Next ==
  \/ Serve \/ Admit \/ Answer
  \/ StopWatching \/ Drain
  \/ EndGracefully \/ Fail \/ StartAgain

Spec == Init /\ [][Next]_state

=============================================================================
