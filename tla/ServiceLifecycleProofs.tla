----------------------- MODULE ServiceLifecycleProofs -----------------------
(***************************************************************************)
(* Proofs about ServiceLifecycle, for every number of requests.            *)
(***************************************************************************)
EXTENDS ServiceLifecycle, TLAPS

USE DEF Continue, Exit, Running, startVars, serverVars, closeVars, SignalsCap,
        SvcErrorsCap

Rest == Order /\ HealthCheckStopsFirst /\ CleanExitIsDrained /\ FailedRunStartsNothing

-----------------------------------------------------------------------------
(* Types.                                                                  *)

LEMMA InitType == Init => TypeOK
<1>1. Init => MainTypes
  BY DEF Init, MainTypes
<1>2. Init => ServerTypes
  BY LifecycleAssumption DEF Init, ServerTypes
<1>3. Init => CloserTypes
  BY DEF Init, CloserTypes
<1>4. QED
  BY <1>1, <1>2, <1>3 DEF TypeOK

(* What a receive leaves in a channel that holds one value at most.        *)
LEMMA Received ==
  ASSUME NEW n \in 0 .. 1, n > 0
  PROVE  n - 1 = 0
OBVIOUS

LEMMA MainTypesStep ==
  ASSUME TypeOK, [Next]_vars
  PROVE  MainTypes'
<1> USE LifecycleAssumption
    DEF TypeOK, MainTypes
<1>1. CASE RunFails \/ GetConfig \/ GetS3Uploaded \/ GetS3StaticFileUploader
  BY <1>1 DEF RunFails, GetConfig, GetS3Uploaded, GetS3StaticFileUploader
<1>2. CASE GetHealthCheck \/ RegisterCheckers \/ StartService
  BY <1>2 DEF GetHealthCheck, RegisterCheckers, StartService
<1>3. CASE Listen \/ ListenAndServeReturns \/ SendError \/ Arrive \/ Finish
  BY <1>3 DEF Listen, ListenAndServeReturns, SendError, Arrive, Finish
<1>4. CASE Signal \/ ReceiveError \/ ReceiveSignal
  <2>1. CASE Signal
    BY <2>1 DEF Signal
  <2>2. CASE ReceiveError
    <3>1. svcErrors' = 0
      BY <2>2, Received DEF ReceiveError, ServerTypes
    <3>2. QED
      BY <2>2, <3>1 DEF ReceiveError
  <2>3. CASE ReceiveSignal
    BY <2>3 DEF ReceiveSignal
  <2>4. QED
    BY <1>4, <2>1, <2>2, <2>3
<1>5. CASE StopHealthCheck \/ Shutdown
  BY <1>5 DEF StopHealthCheck, Shutdown
<1>6. CASE ShutdownReturns \/ ShutdownFails \/ Cancel
  BY <1>6 DEF ShutdownReturns, ShutdownFails, Cancel
<1>7. CASE Timeout \/ CloseReturns
  BY <1>7 DEF Timeout, CloseReturns
<1>8. CASE UNCHANGED vars
  BY <1>8 DEF vars
<1>9. QED
  BY <1>1, <1>2, <1>3, <1>4, <1>5, <1>6, <1>7, <1>8
     DEF Next, Run, Serve, Select, Closer

LEMMA ServerTypesStep ==
  ASSUME TypeOK, [Next]_vars
  PROVE  ServerTypes'
<1> USE LifecycleAssumption
    DEF TypeOK, ServerTypes
<1>1. CASE RunFails \/ GetConfig \/ GetS3Uploaded \/ GetS3StaticFileUploader
  BY <1>1 DEF RunFails, GetConfig, GetS3Uploaded, GetS3StaticFileUploader
<1>2. CASE GetHealthCheck \/ RegisterCheckers \/ StartService
  BY <1>2 DEF GetHealthCheck, RegisterCheckers, StartService
<1>3. CASE Listen \/ ListenAndServeReturns \/ SendError \/ Arrive \/ Finish
  BY <1>3 DEF Listen, ListenAndServeReturns, SendError, Arrive, Finish
<1>4. CASE Signal \/ ReceiveError \/ ReceiveSignal
  <2>1. CASE Signal
    BY <2>1 DEF Signal
  <2>2. CASE ReceiveError
    <3>1. svcErrors' = 0
      BY <2>2, Received DEF ReceiveError, ServerTypes
    <3>2. UNCHANGED <<server, listeners, requests, signals>>
      BY <2>2 DEF ReceiveError
    <3>3. svcErrors' \in 0 .. 1
      BY <3>1
    <3>4. QED
      BY <3>2, <3>3
  <2>3. CASE ReceiveSignal
    BY <2>3 DEF ReceiveSignal
  <2>4. QED
    BY <1>4, <2>1, <2>2, <2>3
<1>5. CASE StopHealthCheck \/ Shutdown
  BY <1>5 DEF StopHealthCheck, Shutdown
<1>6. CASE ShutdownReturns \/ ShutdownFails \/ Cancel
  BY <1>6 DEF ShutdownReturns, ShutdownFails, Cancel
<1>7. CASE Timeout \/ CloseReturns
  BY <1>7 DEF Timeout, CloseReturns
<1>8. CASE UNCHANGED vars
  BY <1>8 DEF vars
<1>9. QED
  BY <1>1, <1>2, <1>3, <1>4, <1>5, <1>6, <1>7, <1>8
     DEF Next, Run, Serve, Select, Closer

LEMMA CloserTypesStep ==
  ASSUME TypeOK, [Next]_vars
  PROVE  CloserTypes'
<1> USE LifecycleAssumption
    DEF TypeOK, CloserTypes
<1>1. CASE RunFails \/ GetConfig \/ GetS3Uploaded \/ GetS3StaticFileUploader
  BY <1>1 DEF RunFails, GetConfig, GetS3Uploaded, GetS3StaticFileUploader
<1>2. CASE GetHealthCheck \/ RegisterCheckers \/ StartService
  BY <1>2 DEF GetHealthCheck, RegisterCheckers, StartService
<1>3. CASE Listen \/ ListenAndServeReturns \/ SendError \/ Arrive \/ Finish
  BY <1>3 DEF Listen, ListenAndServeReturns, SendError, Arrive, Finish
<1>4. CASE Signal \/ ReceiveError \/ ReceiveSignal
  BY <1>4 DEF Signal, ReceiveError, ReceiveSignal
<1>5. CASE StopHealthCheck \/ Shutdown
  BY <1>5 DEF StopHealthCheck, Shutdown
<1>6. CASE ShutdownReturns \/ ShutdownFails \/ Cancel
  BY <1>6 DEF ShutdownReturns, ShutdownFails, Cancel
<1>7. CASE Timeout \/ CloseReturns
  BY <1>7 DEF Timeout, CloseReturns
<1>8. CASE UNCHANGED vars
  BY <1>8 DEF vars
<1>9. QED
  BY <1>1, <1>2, <1>3, <1>4, <1>5, <1>6, <1>7, <1>8
     DEF Next, Run, Serve, Select, Closer

-----------------------------------------------------------------------------
(* The order of things.                                                    *)

LEMMA InitRest == Init => Rest
BY DEF Init, Rest, Order, HealthCheckStopsFirst, CleanExitIsDrained, FailedRunStartsNothing

(* A request that ends was being served.                                   *)
LEMMA FinishFinds ==
  ASSUME requests \in 0 .. MaxRequests, Finish
  PROVE  requests # 0
BY LifecycleAssumption DEF Finish

(* The closer cancels last, the server goroutine sends once, and nothing    *)
(* comes in once the listeners are closed.                                 *)
LEMMA RestStep ==
  ASSUME TypeOK, Rest, [Next]_vars
  PROVE  Rest'
<1> USE LifecycleAssumption
    DEF TypeOK, Rest, Order, HealthCheckStopsFirst, CleanExitIsDrained,
        FailedRunStartsNothing
<1>1. CASE RunFails
  BY <1>1 DEF RunFails
<1>2. CASE GetConfig
  BY <1>2 DEF GetConfig
<1>3. CASE GetS3Uploaded
  BY <1>3 DEF GetS3Uploaded
<1>4. CASE GetS3StaticFileUploader
  BY <1>4 DEF GetS3StaticFileUploader
<1>5. CASE GetHealthCheck
  BY <1>5 DEF GetHealthCheck
<1>6. CASE RegisterCheckers
  BY <1>6 DEF RegisterCheckers
<1>7. CASE StartService
  BY <1>7 DEF StartService
<1>8. CASE Listen
  BY <1>8 DEF Listen
<1>9. CASE ListenAndServeReturns
  BY <1>9 DEF ListenAndServeReturns
<1>10. CASE SendError
  BY <1>10 DEF SendError
<1>11. CASE Arrive
  BY <1>11 DEF Arrive
<1>12. CASE Finish
  <2>1. requests # 0
    BY <1>12, FinishFinds DEF ServerTypes
  <2>2. /\ outcome # "clean"
        /\ closer \in {"cancel", "done"} => hasShutdownError
    BY <1>12, <2>1 DEF Finish
  <2>3. /\ UNCHANGED <<main, outcome, startVars, server, listeners, closeVars>>
        /\ UNCHANGED svcErrors
    BY <1>12 DEF Finish
  <2>4. QED
    BY <2>2, <2>3
<1>13. CASE Signal
  BY <1>13 DEF Signal
<1>14. CASE ReceiveError
  <2>1. svcErrors' = 0
    BY <1>14, Received DEF ReceiveError, ServerTypes
  <2>2. /\ main = "select"
        /\ main' = "exited" /\ outcome' = "service error"
        /\ UNCHANGED <<startVars, serverVars, closeVars>>
    BY <1>14 DEF ReceiveError
  <2>3. QED
    BY <2>1, <2>2
<1>15. CASE ReceiveSignal
  BY <1>15 DEF ReceiveSignal
<1>16. CASE StopHealthCheck
  BY <1>16 DEF StopHealthCheck
<1>17. CASE Shutdown
  BY <1>17 DEF Shutdown
<1>18. CASE ShutdownReturns
  BY <1>18 DEF ShutdownReturns
<1>19. CASE ShutdownFails
  BY <1>19 DEF ShutdownFails
<1>20. CASE Cancel
  BY <1>20 DEF Cancel
<1>21. CASE Timeout
  BY <1>21 DEF Timeout
<1>22. CASE CloseReturns
  <2>1. /\ main = "closing" /\ ctx # "open"
        /\ main' = "exited"
        /\ UNCHANGED <<startVars, serverVars, svcErrors, closeVars>>
    BY <1>22 DEF CloseReturns
  <2>2. outcome' \in {"timed out", "not graceful", "clean"}
    BY <1>22 DEF CloseReturns
  <2>3. outcome' = "clean" => ctx # "expired" /\ ~hasShutdownError
    BY <1>22 DEF CloseReturns
  <2>4. outcome' = "clean" => closer = "done" /\ listeners = "closed" /\ requests = 0
    BY <2>1, <2>3 DEF CloserTypes
  <2>5. CleanExitIsDrained'
    BY <2>1, <2>3, <2>4
  <2>6. Order' /\ HealthCheckStopsFirst' /\ FailedRunStartsNothing'
    BY <2>1, <2>2
  <2>7. QED
    BY <2>5, <2>6
<1>23. CASE UNCHANGED vars
  BY <1>23 DEF vars
<1>24. QED
  BY <1>1, <1>2, <1>3, <1>4, <1>5, <1>6, <1>7, <1>8, <1>9, <1>10, <1>11, <1>12,
     <1>13, <1>14, <1>15, <1>16, <1>17, <1>18, <1>19, <1>20, <1>21, <1>22, <1>23
     DEF Next, Run, Serve, Select, Closer

LEMMA InvStep == Inv /\ [Next]_vars => Inv'
BY MainTypesStep, ServerTypesStep, CloserTypesStep, RestStep DEF Inv, TypeOK, Rest

-----------------------------------------------------------------------------
(* The theorems.                                                           *)

(* The inductive invariant holds in every reachable state.                 *)
THEOREM InvCorrect == Spec => []Inv
<1>1. Init => Inv
  BY InitType, InitRest DEF Inv, Rest
<1>2. QED
  BY <1>1, InvStep, PTL DEF Spec

(* A Close that returns nil has stopped the health check, drained the      *)
(* server and waited for its goroutine, whatever the timer did meanwhile.  *)
THEOREM CleanExitCorrect == Spec => []CleanExitIsDrained
<1>1. Inv => CleanExitIsDrained
  BY DEF Inv
<1>2. QED
  BY <1>1, InvCorrect, PTL

(* Close stops the health check before it shuts the server down.           *)
THEOREM HealthCheckFirstCorrect == Spec => []HealthCheckStopsFirst
<1>1. Inv => HealthCheckStopsFirst
  BY DEF Inv
<1>2. QED
  BY <1>1, InvCorrect, PTL

(* A Run that fails leaves neither a server nor a health check running.    *)
THEOREM FailedRunCorrect == Spec => []FailedRunStartsNothing
<1>1. Inv => FailedRunStartsNothing
  BY DEF Inv
<1>2. QED
  BY <1>1, InvCorrect, PTL

(* The goroutine of ListenAndServe always finds room for its one error.    *)
THEOREM SendNeverBlocksCorrect == Spec => []SendNeverBlocks
<1>1. Inv => SendNeverBlocks
  BY DEF Inv, Order, SendNeverBlocks
<1>2. QED
  BY <1>1, InvCorrect, PTL

-----------------------------------------------------------------------------
(* The process implements GracefulProcess.                                 *)

Watch == IF healthCheck = "started" THEN "on" ELSE "off"

LEMMA PromiseInit == Init => Promise!Init
BY DEF Init, Promise!Init, Phase, Starting, Verdict

(* Steps that nobody outside sees.                                         *)
LEMMA Hidden ==
  ASSUME UNCHANGED <<Phase, requests, Watch, Verdict>>
  PROVE  [Promise!Next]_(Promise!state)
BY DEF Promise!state, Watch

LEMMA RunPromised ==
  ASSUME Inv, Run
  PROVE  [Promise!Next]_(Promise!state)
<1> USE DEF Inv, Order, Phase, Starting, Verdict
<1>1. CASE RunFails
  <2>1. Promise!Fail
    BY <1>1 DEF RunFails, Promise!Fail
  <2>2. QED
    BY <2>1 DEF Promise!Next
<1>2. CASE StartService
  <2>1. Promise!Serve
    BY <1>2 DEF StartService, Promise!Serve
  <2>2. QED
    BY <2>1 DEF Promise!Next
<1>3. CASE GetConfig \/ GetS3Uploaded \/ GetS3StaticFileUploader
  <2>1. UNCHANGED <<Phase, requests, Watch, Verdict>>
    BY <1>3 DEF GetConfig, GetS3Uploaded, GetS3StaticFileUploader, Watch
  <2>2. QED
    BY <2>1, Hidden
<1>4. CASE GetHealthCheck \/ RegisterCheckers
  <2>1. UNCHANGED <<Phase, requests, Watch, Verdict>>
    BY <1>4 DEF GetHealthCheck, RegisterCheckers, Watch
  <2>2. QED
    BY <2>1, Hidden
<1>5. QED
  BY <1>1, <1>2, <1>3, <1>4 DEF Run

LEMMA RequestsPromised ==
  ASSUME Inv, Arrive \/ Finish
  PROVE  [Promise!Next]_(Promise!state)
<1> USE DEF Inv, Order, Phase, Starting, Verdict
<1>1. CASE Arrive
  <2>1. main \notin Starting
    BY <1>1 DEF Arrive
  <2>2. Promise!Admit
    BY <1>1, <2>1 DEF Arrive, Promise!Admit
  <2>3. QED
    BY <2>2 DEF Promise!Next
<1>2. CASE Finish
  <2>1. Promise!Answer
    BY <1>2 DEF Finish, Promise!Answer
  <2>2. QED
    BY <2>1 DEF Promise!Next
<1>3. QED
  BY <1>1, <1>2

LEMMA ClosePromised ==
  ASSUME Inv, Closer \/ Timeout \/ CloseReturns
  PROVE  [Promise!Next]_(Promise!state)
<1> USE DEF Inv, Order, Phase, Starting, Verdict
<1>1. CASE StopHealthCheck
  <2>1. Phase = "serving" /\ healthCheck' = "stopped"
    BY <1>1 DEF StopHealthCheck, TypeOK, MainTypes
  <2>2. Promise!StopWatching \/ UNCHANGED <<Phase, requests, Watch, Verdict>>
    BY <1>1, <2>1 DEF StopHealthCheck, Promise!StopWatching, Watch
  <2>3. QED
    BY <2>2, Hidden DEF Promise!Next
<1>2. CASE Shutdown
  <2>1. main = "closing" /\ healthCheck = "stopped"
    BY <1>2 DEF Shutdown, TypeOK, MainTypes
  <2>2. Promise!Drain \/ UNCHANGED <<Phase, requests, Watch, Verdict>>
    BY <1>2, <2>1 DEF Shutdown, Promise!Drain, Watch
  <2>3. QED
    BY <2>2, Hidden DEF Promise!Next
<1>3. CASE ShutdownReturns \/ ShutdownFails \/ Cancel \/ Timeout
  <2>1. UNCHANGED <<Phase, requests, Watch, Verdict>>
    BY <1>3 DEF ShutdownReturns, ShutdownFails, Cancel, Timeout, Watch
  <2>2. QED
    BY <2>1, Hidden
<1>4. CASE CloseReturns /\ outcome' = "clean"
  <2>1. main = "closing" /\ main' = "exited" /\ ctx = "cancelled" /\ ~ hasShutdownError
    BY <1>4 DEF CloseReturns, TypeOK, CloserTypes
  <2>2. listeners = "closed" /\ requests = 0 /\ healthCheck = "stopped"
    BY <2>1 DEF HealthCheckStopsFirst
  <2>3. Promise!EndGracefully
    BY <1>4, <2>1, <2>2 DEF CloseReturns, Promise!EndGracefully
  <2>4. QED
    BY <2>3 DEF Promise!Next
<1>5. CASE CloseReturns /\ outcome' # "clean"
  <2>1. Promise!Fail
    BY <1>5 DEF CloseReturns, Promise!Fail
  <2>2. QED
    BY <2>1 DEF Promise!Next
<1>6. QED
  BY <1>1, <1>2, <1>3, <1>4, <1>5 DEF Closer

LEMMA PromiseStep ==
  ASSUME Inv, [Next]_vars
  PROVE  [Promise!Next]_(Promise!state)
<1> USE DEF Inv, Order, Phase, Starting, Verdict
<1>1. CASE ReceiveError
  <2>1. Promise!Fail
    BY <1>1 DEF ReceiveError, Promise!Fail
  <2>2. QED
    BY <2>1 DEF Promise!Next
<1>2. CASE Serve \/ Signal \/ ReceiveSignal \/ UNCHANGED vars
  <2>1. UNCHANGED <<Phase, requests, Watch, Verdict>>
    BY <1>2 DEF Serve, Listen, ListenAndServeReturns, SendError, Signal,
       ReceiveSignal, vars, Watch
  <2>2. QED
    BY <2>1, Hidden
<1>3. QED
  BY <1>1, <1>2, RunPromised, RequestsPromised, ClosePromised DEF Next, Select

(* To clients and scheduler the three goroutines, their channels and the   *)
(* timer are a process that admits, drains and ends as it promises.        *)
THEOREM ProcessImplemented == Spec => ImplementsProcess
<1>1. Inv /\ [Next]_vars => [Promise!Next]_(Promise!state)
  BY PromiseStep
<1>2. QED
  BY PromiseInit, InvCorrect, <1>1, PTL DEF Spec, ImplementsProcess, Promise!Spec

=============================================================================
