--------------------------- MODULE ServerLifecycle ---------------------------
(***************************************************************************)
(* The server process (cmd/server/main.go): its telemetry, the choice and  *)
(* the bootstrap of the database, the two servers over it, and the         *)
(* shutdown, with its deadlines and its deferred calls.  The process may   *)
(* be killed at any time and started again; the table and the bootstrap    *)
(* statements that were executed stay.                                     *)
(***************************************************************************)
EXTENDS Naturals

CONSTANTS
  GrpcCalls,    \* calls that arrive at the gRPC server
  HttpCalls,    \* requests that arrive at the HTTP server
  Statements,   \* number of statements of BootstrapSQL, REVOKE first
  MaxBoots      \* bound on the times the process is started

ASSUME StatementsAssumption == Statements \in Nat \ {0}
ASSUME MaxBootsAssumption == MaxBoots \in Nat
ASSUME CallsAssumption == GrpcCalls \cap HttpCalls = {}

Calls == GrpcCalls \cup HttpCalls

VARIABLES
  stage,        \* where run() is
  boots,        \* times the process was started
  config,       \* whether DB_DSN, DB_ADMIN_DSN and OTEL_ENABLED are set
  telemetry,    \* which of its providers are installed, or how they ended
  table,        \* audit_events exists in the database of DB_DSN
  applied,      \* the bootstrap statements executed there
  statement,    \* the next one to execute
  db,           \* the connection the handlers use
  grpc, http,   \* the two servers
  errCh,        \* servers that have reported an error
  signalled,    \* SIGINT or SIGTERM has arrived
  calls,        \* what has become of each call
  disrupted,    \* a deadline passed, a server failed or the process was killed
  exitCode      \* of the last run, NoExit before and during it

startup == <<table, applied, statement>>
servers == <<grpc, http, errCh>>
vars == <<stage, boots, config, telemetry, startup, db, servers, signalled, calls,
          disrupted, exitCode>>

NoExit == 2

StartStages == {"telemetry", "database", "bootstrap", "connect", "listen"}
StopStages == {"drainHttp", "drainGrpc", "close", "flush", "exit"}
Stages == StartStages \cup StopStages \cup {"down", "serve"}
ServerStates == {"off", "starting", "serving", "draining", "stopped", "failed"}

(* What config.Get loads, once, from a file and the environment. *)
Config == [dsn : BOOLEAN, admin : BOOLEAN, otel : BOOLEAN]

Telemetry == {"off", "tracing", "installed", "closed", "cut"}

Init ==
  /\ stage = "down"
  /\ boots = 0
  /\ config = [dsn |-> FALSE, admin |-> FALSE, otel |-> FALSE]
  /\ telemetry = "off"
  /\ table = FALSE
  /\ applied = {}
  /\ statement = 1
  /\ db = "closed"
  /\ grpc = "off" /\ http = "off"
  /\ errCh = {}
  /\ signalled = FALSE
  /\ calls = [c \in Calls |-> "none"]
  /\ disrupted = FALSE
  /\ exitCode = NoExit

-----------------------------------------------------------------------------
(* Startup. *)

Boot ==
  /\ stage = "down" /\ boots < MaxBoots
  /\ boots' = boots + 1
  /\ stage' = "telemetry"
  /\ config' \in Config
  /\ telemetry' = "off"
  /\ statement' = 1
  /\ db' = "closed"
  /\ grpc' = "off" /\ http' = "off" /\ errCh' = {}
  /\ signalled' = FALSE /\ disrupted' = FALSE /\ exitCode' = NoExit
  /\ calls' = [c \in Calls |-> "none"]
  /\ UNCHANGED <<table, applied>>

(* telemetry.Install: the trace provider, then the metric provider.        *)
SkipTelemetry ==
  /\ stage = "telemetry" /\ ~config.otel
  /\ stage' = "database"
  /\ UNCHANGED <<boots, config, telemetry, startup, db, servers, signalled,
                 calls, disrupted, exitCode>>

InstallTracing ==
  /\ stage = "telemetry" /\ config.otel /\ telemetry = "off"
  /\ telemetry' = "tracing"
  /\ UNCHANGED <<stage, boots, config, startup, db, servers, signalled, calls,
                 disrupted, exitCode>>

InstallMetrics ==
  /\ stage = "telemetry" /\ telemetry = "tracing"
  /\ telemetry' = "installed"
  /\ stage' = "database"
  /\ UNCHANGED <<boots, config, startup, db, servers, signalled, calls,
                 disrupted, exitCode>>

(* Mutation of TelemetryFails: the trace provider is left to itself.       *)
TelemetryFailsOpen ==
  /\ stage = "telemetry" /\ config.otel
  /\ stage' = "exit" /\ exitCode' = 1
  /\ UNCHANGED <<boots, config, telemetry, startup, db, servers, signalled,
                 calls, disrupted>>

(* An exporter cannot be made: the trace provider is shut down if it was   *)
(* installed, and run() returns before anything was deferred.              *)
TelemetryFails ==
  /\ stage = "telemetry" /\ config.otel
  /\ telemetry' = IF telemetry = "tracing" THEN "closed" ELSE telemetry
  /\ stage' = "exit" /\ exitCode' = 1
  /\ UNCHANGED <<boots, config, startup, db, servers, signalled, calls,
                 disrupted>>

(* No DSN: SQLite in memory, with its table. *)
OpenInMemory ==
  /\ stage = "database" /\ ~config.dsn
  /\ db' = "memory"
  /\ stage' = "listen"
  /\ UNCHANGED <<boots, config, telemetry, startup, servers, signalled, calls,
                 disrupted, exitCode>>

(* The admin connection migrates the schema before the bootstrap. *)
Migrate ==
  /\ stage = "database" /\ config.dsn /\ config.admin
  /\ table' = TRUE
  /\ stage' = "bootstrap"
  /\ UNCHANGED <<boots, config, telemetry, applied, statement, db, servers, signalled,
                 calls, disrupted, exitCode>>

SkipAdmin ==
  /\ stage = "database" /\ config.dsn /\ ~config.admin
  /\ stage' = "connect"
  /\ UNCHANGED <<boots, config, telemetry, startup, db, servers, signalled, calls,
                 disrupted, exitCode>>

(* Mutations of BootstrapStatement: one statement too many; a failing one  *)
(* is skipped.                                                             *)
BootstrapPastEnd ==
  /\ stage = "bootstrap"
  /\ applied' = applied \cup {statement}
  /\ statement' = statement + 1
  /\ stage' = IF statement > Statements THEN "connect" ELSE "bootstrap"
  /\ UNCHANGED <<boots, config, telemetry, table, db, servers, signalled, calls,
                 disrupted, exitCode>>

BootstrapSkipping ==
  /\ stage = "bootstrap"
  /\ applied' \in {applied, applied \cup {statement}}
  /\ statement' = statement + 1
  /\ stage' = IF statement = Statements THEN "connect" ELSE "bootstrap"
  /\ UNCHANGED <<boots, config, telemetry, table, db, servers, signalled, calls,
                 disrupted, exitCode>>

(* One statement after the other; the first that fails ends the bootstrap, *)
(* and run() only warns of it.                                             *)
BootstrapStatement ==
  /\ stage = "bootstrap"
  /\ \/ /\ applied' = applied \cup {statement}
        /\ statement' = statement + 1
        /\ stage' = IF statement = Statements THEN "connect" ELSE "bootstrap"
     \/ /\ stage' = "connect"
        /\ UNCHANGED <<applied, statement>>
  /\ UNCHANGED <<boots, config, telemetry, table, db, servers, signalled, calls,
                 disrupted, exitCode>>

Connect ==
  /\ stage = "connect"
  /\ db' = "dsn"
  /\ stage' = "listen"
  /\ UNCHANGED <<boots, config, telemetry, startup, servers, signalled, calls,
                 disrupted, exitCode>>

(* The gRPC port is bound here, the HTTP port in a goroutine of its own. *)
Listen ==
  /\ stage = "listen"
  /\ stage' = "serve"
  /\ grpc' = "serving" /\ http' = "starting"
  /\ UNCHANGED <<boots, config, telemetry, startup, db, errCh, signalled, calls,
                 disrupted, exitCode>>

(* Any error before the servers start makes run() return it. *)
StartFails ==
  /\ stage \in StartStages \ {"telemetry", "bootstrap"}
  /\ stage' = "close"
  /\ exitCode' = 1
  /\ UNCHANGED <<boots, config, telemetry, startup, db, servers, signalled, calls,
                 disrupted>>

-----------------------------------------------------------------------------
(* The servers and their calls.  They run while run() waits. *)

Alive == stage \notin {"down"} \cup StartStages

HttpListens ==
  /\ Alive /\ http = "starting"
  /\ http' = "serving"
  /\ UNCHANGED <<stage, boots, config, telemetry, startup, db, grpc, errCh, signalled,
                 calls, disrupted, exitCode>>

HttpFails ==
  /\ Alive /\ http \in {"starting", "serving"}
  /\ http' = "failed"
  /\ errCh' = errCh \cup {"http"}
  /\ disrupted' = TRUE
  /\ UNCHANGED <<stage, boots, config, telemetry, startup, db, grpc, signalled, calls,
                 exitCode>>

GrpcFails ==
  /\ Alive /\ grpc = "serving"
  /\ grpc' = "failed"
  /\ errCh' = errCh \cup {"grpc"}
  /\ disrupted' = TRUE
  /\ UNCHANGED <<stage, boots, config, telemetry, startup, db, http, signalled, calls,
                 exitCode>>

Arrive(c) ==
  /\ Alive /\ calls[c] = "none"
  /\ \/ c \in GrpcCalls /\ grpc = "serving"
     \/ c \in HttpCalls /\ http = "serving"
  /\ calls' = [calls EXCEPT ![c] = "running"]
  /\ UNCHANGED <<stage, boots, config, telemetry, startup, db, servers, signalled,
                 disrupted, exitCode>>

(* A handler that finds the connection closed answers with an error. *)
Finish(c) ==
  /\ Alive /\ calls[c] = "running"
  /\ calls' = [calls EXCEPT ![c] = IF db = "closed" THEN "failed" ELSE "answered"]
  /\ UNCHANGED <<stage, boots, config, telemetry, startup, db, servers, signalled,
                 disrupted, exitCode>>

-----------------------------------------------------------------------------
(* Shutdown. *)

(* The context of NotifyContext is looked at only once run() serves.       *)
(* Before it is made a signal kills the process.                           *)
Signal ==
  /\ stage \notin {"down", "telemetry"} /\ ~signalled
  /\ signalled' = TRUE
  /\ UNCHANGED <<stage, boots, config, telemetry, startup, db, servers, calls,
                 disrupted, exitCode>>

(* errCh wins the select: run() returns and only the deferred calls follow. *)
ServeError ==
  /\ stage = "serve" /\ errCh # {}
  /\ stage' = "close"
  /\ exitCode' = 1
  /\ UNCHANGED <<boots, config, telemetry, startup, db, servers, signalled, calls,
                 disrupted>>

(* The signal wins it: HTTP stops accepting first, gRPC still accepts. *)
BeginShutdown ==
  /\ stage = "serve" /\ signalled
  /\ stage' = "drainHttp"
  /\ http' = IF http = "serving" THEN "draining" ELSE
             IF http = "starting" THEN "stopped" ELSE http
  /\ UNCHANGED <<boots, config, telemetry, startup, db, grpc, errCh, signalled, calls,
                 disrupted, exitCode>>

(* httpSrv.Shutdown has returned: GracefulStop follows. *)
StopHttp ==
  /\ stage = "drainHttp"
  /\ stage' = "drainGrpc"
  /\ http' = IF http = "failed" THEN http ELSE "stopped"
  /\ grpc' = IF grpc = "serving" THEN "draining" ELSE grpc
  /\ UNCHANGED <<boots, config, telemetry, startup, db, errCh, signalled, calls, exitCode>>

Running(kind) == {c \in kind : calls[c] = "running"}

(* Mutation of HttpDrained: it does not wait for its requests. *)
HttpDropped == StopHttp /\ UNCHANGED disrupted

HttpDrained == Running(HttpCalls) = {} /\ StopHttp /\ UNCHANGED disrupted

HttpDeadline == Running(HttpCalls) # {} /\ StopHttp /\ disrupted' = TRUE

GrpcDrained ==
  /\ stage = "drainGrpc" /\ Running(GrpcCalls) = {}
  /\ stage' = "close"
  /\ grpc' = IF grpc = "failed" THEN grpc ELSE "stopped"
  /\ exitCode' = 0
  /\ UNCHANGED <<boots, config, telemetry, startup, db, http, errCh, signalled, calls,
                 disrupted>>

(* Mutation of GrpcDeadline: no timer, run() waits for GracefulStop alone. *)
NoGrpcDeadline == FALSE /\ UNCHANGED vars

(* Stop closes the connections of the calls that still run. *)
GrpcDeadline ==
  /\ stage = "drainGrpc" /\ Running(GrpcCalls) # {}
  /\ stage' = "close"
  /\ grpc' = IF grpc = "failed" THEN grpc ELSE "stopped"
  /\ calls' = [c \in Calls |-> IF c \in Running(GrpcCalls) THEN "cut" ELSE calls[c]]
  /\ disrupted' = TRUE
  /\ exitCode' = 0
  /\ UNCHANGED <<boots, config, telemetry, startup, db, http, errCh, signalled>>

(* defer sqlDB.Close runs before the telemetry shutdown deferred earlier.  *)
CloseDB ==
  /\ stage = "close"
  /\ db' = "closed"
  /\ stage' = "flush"
  /\ UNCHANGED <<boots, config, telemetry, startup, servers, signalled, calls,
                 disrupted, exitCode>>

(* The providers are shut down, unless their deadline passes first. *)
FlushTelemetry ==
  /\ stage = "flush"
  /\ telemetry' \in IF telemetry = "installed" THEN {"closed", "cut"}
                    ELSE {telemetry}
  /\ stage' = "exit"
  /\ UNCHANGED <<boots, config, startup, db, servers, signalled, calls,
                 disrupted, exitCode>>

GoDown ==
  /\ stage' = "down"
  /\ db' = "closed"
  /\ grpc' = "off" /\ http' = "off" /\ errCh' = {}
  /\ calls' = [c \in Calls |-> IF calls[c] = "running" THEN "cut" ELSE calls[c]]
  /\ UNCHANGED <<boots, config, telemetry, startup, signalled>>

Exit ==
  /\ stage = "exit"
  /\ GoDown
  /\ UNCHANGED <<disrupted, exitCode>>

Kill ==
  /\ stage # "down"
  /\ GoDown
  /\ disrupted' = TRUE
  /\ exitCode' = 1

-----------------------------------------------------------------------------
(* What run() does by itself: first it starts, *)
Starting ==
  \/ SkipTelemetry \/ InstallTracing \/ InstallMetrics \/ TelemetryFails
  \/ OpenInMemory \/ Migrate \/ SkipAdmin \/ BootstrapStatement \/ Connect
  \/ Listen \/ StartFails

(* and then it waits, stops both servers, at a deadline if they do not     *)
(* stop, and runs what was deferred.                                       *)
Finishing ==
  \/ ServeError \/ BeginShutdown
  \/ HttpDrained \/ HttpDeadline \/ GrpcDrained \/ GrpcDeadline
  \/ CloseDB \/ FlushTelemetry \/ Exit

Main == Starting \/ Finishing

Next ==
  \/ Boot \/ Main \/ Signal \/ Kill
  \/ HttpListens \/ HttpFails \/ GrpcFails
  \/ \E c \in Calls : Arrive(c) \/ Finish(c)

Spec == Init /\ [][Next]_vars

(* Once it serves, run() and its timers go on.  Nothing is asked of        *)
(* handlers or clients, nor of the database while the process starts:      *)
(* migration, bootstrap and connection take neither the signal's context   *)
(* nor a deadline and may wait for a lock for ever (main.go:57-89).        *)
FairSpec == Spec /\ WF_vars(Finishing)

-----------------------------------------------------------------------------
(* Every variable keeps its type. *)
TypeOK ==
  /\ stage \in Stages
  /\ boots \in 0..MaxBoots
  /\ config \in Config
  /\ telemetry \in Telemetry
  /\ table \in BOOLEAN
  /\ applied \subseteq 1..Statements
  /\ statement \in 1..(Statements + 1)
  /\ db \in {"closed", "memory", "dsn"}
  /\ grpc \in ServerStates /\ http \in ServerStates
  /\ errCh \subseteq {"grpc", "http"}
  /\ signalled \in BOOLEAN /\ disrupted \in BOOLEAN
  /\ calls \in [Calls -> {"none", "running", "answered", "failed", "cut"}]
  /\ exitCode \in {0, 1, NoExit}

(* Unless a deadline passes, a server fails or the process is killed, no   *)
(* call that was accepted loses its answer or finds the connection closed: *)
(* both servers are drained before the deferred Close (main.go:95,143-162). *)
ShutdownLosesNoCall ==
  ~disrupted => \A c \in Calls : calls[c] \notin {"failed", "cut"}

(* A signal ends a process that serves, or that is already stopping, even  *)
(* if a handler never returns (main.go:143-166).  One that arrives during  *)
(* the start counts from when run() serves, if it ever does.               *)
SignalEndsProcess ==
  signalled /\ stage \in {"serve"} \cup StopStages ~> stage = "down"

(* Over any number of starts that fail half-way, the statements executed   *)
(* are a prefix of the list, and the table they are about exists: no index *)
(* is there without the REVOKE (main.go:77-84, event_repository.go:253).   *)
BootstrapIsPrefix ==
  /\ \A k \in applied : 1..k \subseteq applied
  /\ applied # {} => table

(* run() never returns with a provider that nobody has told to shut down,  *)
(* however it fails, and unless the shutdown was disturbed the providers   *)
(* outlive every call (main.go:42-52, telemetry.go:62-84).                 *)
TelemetryEndsLast ==
  /\ stage = "exit" => telemetry \notin {"tracing", "installed"}
  /\ ~disrupted /\ telemetry \in {"closed", "cut"} => Running(Calls) = {}

(* docs/superpowers/specs/2026-04-02-audit-log-design.md:237: the runtime  *)
(* connection "physically cannot UPDATE or DELETE".                        *)
AppendOnlyEnforced == stage = "serve" /\ db = "dsn" => 1 \in applied
=============================================================================
