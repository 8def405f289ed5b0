------------------------ MODULE ServerLifecycleProofs ------------------------
(***************************************************************************)
(* Theorems about the server process: its types, the order in which the    *)
(* bootstrap statements reach the database over any number of starts, and  *)
(* the calls that an orderly shutdown does not lose.                       *)
(***************************************************************************)
EXTENDS ServerLifecycle, TLAPS

(* While the bootstrap runs the table is there, and every statement before *)
(* the next one was executed, in this start or in an earlier one.          *)
BootstrapProgress ==
  /\ stage \in {"telemetry", "database"} => statement = 1
  /\ stage = "bootstrap" =>
       /\ statement =< Statements
       /\ table
       /\ 1..(statement - 1) \subseteq applied

LEMMA InitTyped == Init => TypeOK
<1> USE DEF StartStages, StopStages, Stages, ServerStates, Telemetry, NoExit
<1> SUFFICES ASSUME Init PROVE TypeOK
  OBVIOUS
<1>1. boots \in 0..MaxBoots /\ statement \in 1..(Statements + 1)
  BY StatementsAssumption, MaxBootsAssumption DEF Init
<1>2. config \in Config
  BY DEF Init, Config
<1>3. calls \in [Calls -> {"none", "running", "answered", "failed", "cut"}]
  BY DEF Init
<1> QED
  BY <1>1, <1>2, <1>3 DEF Init, TypeOK

LEMMA StepTyped == TypeOK /\ BootstrapProgress /\ [Next]_vars => TypeOK'
<1> SUFFICES ASSUME TypeOK, BootstrapProgress, [Next]_vars PROVE TypeOK'
  OBVIOUS
<1> USE DEF StartStages, StopStages, Stages, ServerStates, Telemetry, NoExit
<1> USE StatementsAssumption, MaxBootsAssumption DEF TypeOK, startup, servers
<1>1. CASE Boot
  <2>1. boots' \in 0..MaxBoots /\ statement' \in 1..(Statements + 1)
    BY <1>1 DEF Boot
  <2>2. config' \in Config
    BY <1>1 DEF Boot
  <2>3. calls' \in [Calls -> {"none", "running", "answered", "failed", "cut"}]
    BY <1>1 DEF Boot
  <2> QED
    BY <1>1, <2>1, <2>2, <2>3 DEF Boot
<1>2. CASE OpenInMemory
  BY <1>2 DEF OpenInMemory
<1>3. CASE Migrate
  BY <1>3 DEF Migrate
<1>4. CASE SkipAdmin
  BY <1>4 DEF SkipAdmin
<1>5. CASE Connect
  BY <1>5 DEF Connect
<1>6. CASE Listen
  BY <1>6 DEF Listen
<1>7. CASE BootstrapStatement
  <2>1. stage' \in Stages /\ UNCHANGED <<boots, config, telemetry, table, db,
          servers, signalled, calls, disrupted, exitCode>>
    BY <1>7 DEF BootstrapStatement
  <2>2. stage = "bootstrap" /\ statement \in 1..Statements
    BY <1>7 DEF BootstrapStatement, BootstrapProgress
  <2>3. CASE applied' = applied \cup {statement} /\ statement' = statement + 1
    <3>1. statement' \in 1..(Statements + 1)
      BY <2>2, <2>3
    <3>2. applied' \subseteq 1..Statements
      BY <2>2, <2>3
    <3> QED
      BY <2>1, <3>1, <3>2
  <2>4. CASE UNCHANGED <<applied, statement>>
    BY <2>1, <2>4
  <2> QED
    BY <1>7, <2>3, <2>4 DEF BootstrapStatement
<1>8. CASE StartFails
  BY <1>8 DEF StartFails
<1>9. CASE ServeError
  BY <1>9 DEF ServeError
<1>10. CASE BeginShutdown
  BY <1>10 DEF BeginShutdown
<1>11. CASE Signal
  BY <1>11 DEF Signal
<1>12. CASE HttpDrained
  BY <1>12 DEF HttpDrained, StopHttp
<1>13. CASE HttpDeadline
  BY <1>13 DEF HttpDeadline, StopHttp
<1>14. CASE GrpcDrained
  BY <1>14 DEF GrpcDrained
<1>15. CASE GrpcDeadline
  BY <1>15 DEF GrpcDeadline
<1>16. CASE CloseDB
  BY <1>16 DEF CloseDB
<1>17. CASE Exit
  BY <1>17 DEF Exit, GoDown
<1>18. CASE Kill
  BY <1>18 DEF Kill, GoDown
<1>19. CASE HttpListens
  BY <1>19 DEF HttpListens
<1>20. CASE HttpFails
  BY <1>20 DEF HttpFails
<1>21. CASE GrpcFails
  BY <1>21 DEF GrpcFails
<1>22. ASSUME NEW c \in Calls, Arrive(c) PROVE TypeOK'
  BY <1>22 DEF Arrive
<1>23. ASSUME NEW c \in Calls, Finish(c) PROVE TypeOK'
  BY <1>23 DEF Finish
<1>24. CASE SkipTelemetry
  BY <1>24 DEF SkipTelemetry
<1>25. CASE InstallTracing
  BY <1>25 DEF InstallTracing
<1>26. CASE InstallMetrics
  BY <1>26 DEF InstallMetrics
<1>27. CASE TelemetryFails
  BY <1>27 DEF TelemetryFails
<1>28. CASE FlushTelemetry
  BY <1>28 DEF FlushTelemetry
<1>29. CASE UNCHANGED vars
  BY <1>29 DEF vars
<1> QED
  BY <1>1, <1>2, <1>3, <1>4, <1>5, <1>6, <1>7, <1>8, <1>9, <1>10, <1>11,
     <1>12, <1>13, <1>14, <1>15, <1>16, <1>17, <1>18, <1>19, <1>20,
     <1>21, <1>22, <1>23, <1>24, <1>25,
     <1>26, <1>27, <1>28, <1>29
     DEF Next, Main, Starting, Finishing

LEMMA StepOrdered ==
  TypeOK /\ BootstrapIsPrefix /\ BootstrapProgress /\ [Next]_vars
    => (BootstrapIsPrefix /\ BootstrapProgress)'
<1> SUFFICES ASSUME TypeOK, BootstrapIsPrefix, BootstrapProgress, [Next]_vars
             PROVE  (BootstrapIsPrefix /\ BootstrapProgress)'
  OBVIOUS
<1> USE DEF BootstrapIsPrefix, BootstrapProgress, startup
<1>1. CASE Boot
  BY <1>1 DEF Boot
<1>2. CASE Migrate
  <2>1. statement = 1 /\ statement' = statement /\ 1 =< Statements
    BY <1>2, StatementsAssumption DEF Migrate
  <2>2. 1..(statement - 1) = {}
    BY <2>1
  <2>3. table' /\ stage' = "bootstrap" /\ applied' = applied
    BY <1>2 DEF Migrate
  <2> QED
    BY <2>1, <2>2, <2>3
<1>3. CASE BootstrapStatement
  <2>1. /\ statement \in Nat \ {0} /\ Statements \in Nat
        /\ statement =< Statements /\ 1..(statement - 1) \subseteq applied
        /\ stage' \in {"bootstrap", "connect"}
        /\ stage' = "bootstrap" => statement # Statements
        /\ table /\ UNCHANGED table
    BY <1>3, StatementsAssumption DEF BootstrapStatement, TypeOK
  <2>2. CASE applied' = applied \cup {statement} /\ statement' = statement + 1
    BY <1>3, <2>1, <2>2 DEF BootstrapStatement
  <2>3. CASE UNCHANGED <<applied, statement>> /\ stage' = "connect"
    BY <1>3, <2>1, <2>3
  <2> QED
    BY <1>3, <2>2, <2>3 DEF BootstrapStatement
<1>4. CASE OpenInMemory \/ SkipAdmin \/ Connect \/ Listen \/ StartFails
  BY <1>4 DEF OpenInMemory, SkipAdmin, Connect, Listen, StartFails
<1>5. CASE ServeError \/ BeginShutdown \/ GrpcDrained \/ GrpcDeadline
  BY <1>5 DEF ServeError, BeginShutdown, GrpcDrained, GrpcDeadline
<1>6. CASE HttpDrained \/ HttpDeadline
  BY <1>6 DEF HttpDrained, HttpDeadline, StopHttp
<1>7. CASE CloseDB \/ Exit \/ Kill
  BY <1>7 DEF CloseDB, Exit, Kill, GoDown
<1>8. CASE Signal \/ HttpListens \/ HttpFails \/ GrpcFails
  BY <1>8 DEF Signal, HttpListens, HttpFails, GrpcFails
<1>9. ASSUME NEW c \in Calls, Arrive(c) \/ Finish(c)
        PROVE  (BootstrapIsPrefix /\ BootstrapProgress)'
  BY <1>9 DEF Arrive, Finish
<1>10. CASE SkipTelemetry \/ InstallTracing \/ InstallMetrics \/ TelemetryFails
  BY <1>10 DEF SkipTelemetry, InstallTracing, InstallMetrics, TelemetryFails
<1>11. CASE FlushTelemetry
  BY <1>11 DEF FlushTelemetry
<1>12. CASE UNCHANGED vars
  BY <1>12 DEF vars
<1> QED
  BY <1>1, <1>2, <1>3, <1>4, <1>5, <1>6, <1>7, <1>8, <1>9, <1>10, <1>11,
     <1>12
     DEF Next, Main, Starting, Finishing

LEMMA Inductive == Spec => [](TypeOK /\ BootstrapIsPrefix /\ BootstrapProgress)
<1>1. Init => BootstrapIsPrefix /\ BootstrapProgress
  BY DEF Init, BootstrapIsPrefix, BootstrapProgress
<1> QED
  BY <1>1, InitTyped, StepTyped, StepOrdered, PTL DEF Spec

(* Every variable keeps its type, whatever the number of calls, statements *)
(* and starts (cmd/server/main.go:35-166).                                 *)
THEOREM TypeCorrect == Spec => []TypeOK
  BY Inductive, PTL

(* The executed bootstrap statements are always a prefix of the list, and  *)
(* the table exists before the first: BootstrapSQL stops at the first      *)
(* failure, and the next start begins again at the REVOKE                  *)
(* (main.go:77-84, event_repository.go:253-273).                           *)
THEOREM BootstrapOrdered == Spec => []BootstrapIsPrefix
  BY Inductive, PTL

-----------------------------------------------------------------------------
(* What an undisturbed shutdown relies on: the servers are off until run() *)
(* serves; while it serves or drains, the connection is open; HTTP is      *)
(* drained before gRPC, and after that nothing runs that a closed          *)
(* connection or the end of the process could hurt.                        *)
ServersOffAtStart ==
  stage \in StartStages \cup {"down"} =>
    /\ grpc = "off" /\ http = "off"
    /\ Running(Calls) = {}

ConnectionOpen ==
  stage \in {"listen", "serve", "drainHttp", "drainGrpc"} => db # "closed"

HttpStopsFirst ==
  /\ stage = "drainHttp" => http \notin {"starting", "serving"}
  /\ stage = "drainGrpc" =>
       /\ http \in {"stopped", "failed"} /\ grpc # "serving"
       /\ ~disrupted => Running(HttpCalls) = {}

QuietAtEnd ==
  stage \in {"close", "flush", "exit"} /\ ~disrupted =>
    /\ {grpc, http} \cap {"starting", "serving"} = {}
    /\ Running(Calls) = {}

ErrorsAreKnown == errCh # {} => disrupted

OrderlyShutdown ==
  /\ ShutdownLosesNoCall /\ ServersOffAtStart /\ ConnectionOpen
  /\ HttpStopsFirst /\ QuietAtEnd /\ ErrorsAreKnown

LEMMA StepOrderly == TypeOK /\ OrderlyShutdown /\ [Next]_vars => OrderlyShutdown'
<1> SUFFICES ASSUME TypeOK, OrderlyShutdown, [Next]_vars PROVE OrderlyShutdown'
  OBVIOUS
<1> USE DEF OrderlyShutdown, ShutdownLosesNoCall, ServersOffAtStart,
            ConnectionOpen, HttpStopsFirst, QuietAtEnd, ErrorsAreKnown,
            Running, Calls, StartStages, startup, servers
<1>1. CASE Boot
  BY <1>1 DEF Boot
<1>2. CASE OpenInMemory
  BY <1>2 DEF OpenInMemory
<1>3. CASE Migrate
  BY <1>3 DEF Migrate
<1>4. CASE SkipAdmin
  BY <1>4 DEF SkipAdmin
<1>5. CASE BootstrapStatement
  BY <1>5 DEF BootstrapStatement
<1>6. CASE Connect
  BY <1>6 DEF Connect
<1>7. CASE Listen
  BY <1>7 DEF Listen
<1>8. CASE Signal
  BY <1>8 DEF Signal
<1>9. CASE StartFails
  BY <1>9 DEF StartFails
<1>10. CASE ServeError
  BY <1>10 DEF ServeError
<1>11. CASE BeginShutdown
  BY <1>11 DEF BeginShutdown
<1>12. CASE HttpDrained
  BY <1>12 DEF HttpDrained, StopHttp
<1>13. CASE HttpDeadline
  BY <1>13 DEF HttpDeadline, StopHttp
<1>14. CASE GrpcDrained
  BY <1>14 DEF GrpcDrained
<1>15. CASE GrpcDeadline
  BY <1>15 DEF GrpcDeadline
<1>16. CASE CloseDB
  BY <1>16 DEF CloseDB
<1>17. CASE Exit
  BY <1>17 DEF Exit, GoDown
<1>18. CASE Kill
  BY <1>18 DEF Kill, GoDown
<1>19. CASE HttpListens
  BY <1>19 DEF HttpListens
<1>20. CASE HttpFails
  BY <1>20 DEF HttpFails
<1>21. CASE GrpcFails
  BY <1>21 DEF GrpcFails
<1>22. ASSUME NEW c \in Calls, Arrive(c) PROVE OrderlyShutdown'
  BY <1>22 DEF Arrive, Alive, TypeOK
<1>23. ASSUME NEW c \in Calls, Finish(c) PROVE OrderlyShutdown'
  BY <1>23 DEF Finish, Alive, TypeOK, Stages, StopStages
<1>24. CASE SkipTelemetry \/ InstallTracing \/ InstallMetrics \/ TelemetryFails
  BY <1>24 DEF SkipTelemetry, InstallTracing, InstallMetrics, TelemetryFails
<1>25. CASE FlushTelemetry
  BY <1>25 DEF FlushTelemetry
<1>26. CASE UNCHANGED vars
  BY <1>26 DEF vars
<1> QED
  BY <1>1, <1>2, <1>3, <1>4, <1>5, <1>6, <1>7, <1>8, <1>9, <1>10, <1>11,
     <1>12, <1>13, <1>14, <1>15, <1>16, <1>17, <1>18, <1>19, <1>20,
     <1>21, <1>22, <1>23, <1>24, <1>25,
     <1>26
     DEF Next, Main, Starting, Finishing

(* A shutdown that no deadline, server failure or kill disturbs answers    *)
(* every call that was accepted, with the connection open, for any number  *)
(* of calls of either kind: HTTP drains, then gRPC, then the deferred      *)
(* Close (main.go:91-95, 143-162).                                         *)
THEOREM ShutdownSafe == Spec => []ShutdownLosesNoCall
<1>1. Init => OrderlyShutdown
  BY DEF Init, OrderlyShutdown, ShutdownLosesNoCall, ServersOffAtStart,
         ConnectionOpen, HttpStopsFirst, QuietAtEnd, ErrorsAreKnown, Running,
         StartStages
<1>2. OrderlyShutdown => ShutdownLosesNoCall
  BY DEF OrderlyShutdown
<1> QED
  BY <1>1, <1>2, StepOrderly, TypeCorrect, PTL DEF Spec

-----------------------------------------------------------------------------
(* The providers are installed before the process does anything else, one  *)
(* after the other, and shut down only when nothing else is left to do.    *)
ProvidersTracked ==
  /\ telemetry = "tracing" => stage \in {"telemetry", "down"} /\ config.otel
  /\ telemetry = "installed" => stage \notin {"telemetry", "exit"}
  /\ telemetry \in {"closed", "cut"} => stage \in {"exit", "down"}

(* A run() that was killed leaves its providers as they were, but runs     *)
(* nothing any more.                                                       *)
LEMMA StepTracked ==
  TypeOK /\ ProvidersTracked /\ [Next]_vars => ProvidersTracked'
<1> SUFFICES ASSUME TypeOK, ProvidersTracked, [Next]_vars PROVE ProvidersTracked'
  OBVIOUS
<1> USE DEF ProvidersTracked, TypeOK, Telemetry
<1>1. CASE Boot
  BY <1>1 DEF Boot
<1>2. CASE SkipTelemetry \/ InstallTracing \/ InstallMetrics \/ TelemetryFails
  BY <1>2 DEF SkipTelemetry, InstallTracing, InstallMetrics, TelemetryFails
<1>3. CASE OpenInMemory \/ Migrate \/ SkipAdmin \/ BootstrapStatement \/ Connect
  BY <1>3 DEF OpenInMemory, Migrate, SkipAdmin, BootstrapStatement, Connect
<1>4. CASE Listen \/ StartFails \/ ServeError \/ BeginShutdown
  BY <1>4 DEF Listen, StartFails, StartStages, ServeError, BeginShutdown
<1>5. CASE HttpDrained \/ HttpDeadline \/ GrpcDrained \/ GrpcDeadline
  BY <1>5 DEF HttpDrained, HttpDeadline, StopHttp, GrpcDrained, GrpcDeadline
<1>6. CASE CloseDB
  BY <1>6 DEF CloseDB
<1>7. CASE FlushTelemetry
  BY <1>7 DEF FlushTelemetry
<1>8. CASE Exit \/ Kill
  BY <1>8 DEF Exit, Kill, GoDown
<1>9. CASE Signal \/ HttpListens \/ HttpFails \/ GrpcFails
  BY <1>9 DEF Signal, HttpListens, HttpFails, GrpcFails
<1>10. ASSUME NEW c \in Calls, Arrive(c) \/ Finish(c) PROVE ProvidersTracked'
  BY <1>10 DEF Arrive, Finish
<1>11. CASE UNCHANGED vars
  BY <1>11 DEF vars
<1> QED
  BY <1>1, <1>2, <1>3, <1>4, <1>5, <1>6, <1>7, <1>8, <1>9, <1>10, <1>11
     DEF Next, Main, Starting, Finishing

LEMMA Tracked == Spec => [](ProvidersTracked /\ OrderlyShutdown)
<1>1. Init => ProvidersTracked /\ OrderlyShutdown
  BY DEF Init, ProvidersTracked, OrderlyShutdown, ShutdownLosesNoCall,
         ServersOffAtStart, ConnectionOpen, HttpStopsFirst, QuietAtEnd,
         ErrorsAreKnown, Running, StartStages
<1> QED
  BY <1>1, StepTracked, StepOrderly, TypeCorrect, PTL DEF Spec

(* However a start or a shutdown fails, run() returns only when no         *)
(* provider is left waiting to be shut down, and an undisturbed one shuts  *)
(* them down after the last call: the telemetry shutdown is deferred       *)
(* before everything else (main.go:42-52, telemetry.go:62-84).             *)
THEOREM TelemetryLast == Spec => []TelemetryEndsLast
<1>1. ProvidersTracked /\ OrderlyShutdown => TelemetryEndsLast
  BY DEF ProvidersTracked, OrderlyShutdown, QuietAtEnd, ServersOffAtStart,
         TelemetryEndsLast
<1> QED
  BY <1>1, Tracked, PTL
=============================================================================
