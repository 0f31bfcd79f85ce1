------------------------------ MODULE Platform ------------------------------
(***************************************************************************)
(* The AnchorOS kernel: startup.boot, the module manager and its lifecycle *)
(* manager, the service registry, the event bus with its audit and health  *)
(* subscribers, the platform manifest and the boot pipeline.               *)
(*                                                                         *)
(* A handler of the bus runs inside publish, so a module's start or stop   *)
(* is one step together with the events it publishes.                      *)
(***************************************************************************)
EXTENDS Naturals, Sequences, SequencesExt

CONSTANTS
  Services,     \* the platform services, in the order discovery finds them
  Frameworks,   \* the frameworks, in that order
  Unstable,     \* modules whose start() or stop() may raise
  MaxCommands   \* bound: commands given to the module manager after boot()

Modules == ToSet(Services) \cup ToSet(Frameworks)
IsFramework(m) == m \in ToSet(Frameworks)

ASSUME PlatformAssumption ==
  /\ Services \in Seq(Modules) /\ Frameworks \in Seq(Modules)
  /\ IsInjective(Services \o Frameworks)
  /\ Unstable \subseteq Modules
  /\ MaxCommands \in Nat

VARIABLES
  doing,         \* what boot() or the module manager is in the middle of
  at,            \* the position its loop over the modules has reached
  order,         \* ModuleManager.modules, in insertion order
  lifecycle,     \* LifecycleManager._states
  status,        \* Module.status of each module
  subscribed,    \* boot() has subscribed Audit and Health
  healthStates,  \* Health.framework_states: the frameworks it says are Running
  manifest,      \* PlatformManifest.frameworks
  audit,         \* Audit.records
  bootPassed,    \* stages of BootPipeline.results that passed
  declared,      \* boot() has declared the platform operational
  commands       \* commands given to the module manager since

platformVars == <<doing, at, order, lifecycle, status, subscribed, healthStates,
                  manifest, audit, bootPassed, declared, commands>>

BootStages == 8

Event(kind, source, stage) == [event |-> kind, source |-> source, stage |-> stage]

PlatformInit ==
  /\ doing = "services"
  /\ at = 0
  /\ order = <<>>
  /\ lifecycle = [m \in Modules |-> "Created"]
  /\ status = [m \in Modules |-> "Offline"]
  /\ subscribed = FALSE
  /\ healthStates = {}
  /\ manifest = {}
  /\ audit = <<>>
  /\ bootPassed = 0
  /\ declared = FALSE
  /\ commands = 0

-----------------------------------------------------------------------------
(* boot(), up to the first start *)

\* ModuleManager.register: discovered and registered in one call.
Register(m) ==
  /\ order' = Append(order, m)
  /\ lifecycle' = [lifecycle EXCEPT ![m] = "Registered"]
  /\ UNCHANGED <<at, status, healthStates, audit, bootPassed, declared, commands>>

DiscoverService ==
  /\ doing = "services"
  /\ Len(order) < Len(Services)
  /\ Register(Services[Len(order) + 1])
  /\ UNCHANGED <<doing, subscribed, manifest>>

ConfigureSubscriptions ==
  /\ doing = "services"
  /\ Len(order) = Len(Services)
  /\ subscribed' = TRUE
  /\ doing' = "frameworks"
  /\ UNCHANGED <<at, order, lifecycle, status, healthStates, manifest, audit,
                 bootPassed, declared, commands>>

DiscoverFramework ==
  /\ doing = "frameworks"
  /\ Len(order) < Len(Services) + Len(Frameworks)
  /\ Register(Frameworks[Len(order) - Len(Services) + 1])
  /\ UNCHANGED <<doing, subscribed, manifest>>

RecordFrameworks ==
  /\ doing = "frameworks"
  /\ Len(order) = Len(Services) + Len(Frameworks)
  /\ manifest' = ToSet(Frameworks)
  /\ doing' = "boot"
  /\ at' = 1
  /\ UNCHANGED <<order, lifecycle, status, subscribed, healthStates, audit,
                 bootPassed, declared, commands>>

-----------------------------------------------------------------------------
(* LifecycleManager.start and .stop of one module *)

\* Audit handles both events of a framework, Health only the first; a
\* subscriber that raises comes after them.
Announce(kind, m) ==
  /\ audit' = IF subscribed /\ IsFramework(m)
                THEN Append(audit, Event(kind, m, 0)) ELSE audit
  /\ healthStates' =
       IF subscribed /\ IsFramework(m) /\ kind = "framework.started"
         THEN healthStates \cup {m} ELSE healthStates

MayStart(m) == lifecycle[m] \in {"Registered", "Stopped"}
MayStop(m) == lifecycle[m] = "Running"

Started(m) ==
  /\ MayStart(m)
  /\ lifecycle' = [lifecycle EXCEPT ![m] = "Running"]
  /\ status' = [status EXCEPT ![m] = "Running"]
  /\ Announce("framework.started", m)

\* A framework is Running before it publishes; a service raises before it is.
StartRaises(m) ==
  /\ MayStart(m)
  /\ m \in Unstable
  /\ lifecycle' = [lifecycle EXCEPT ![m] = "Failed"]
  /\ status' = [status EXCEPT ![m] = IF IsFramework(m) THEN "Running" ELSE @]
  /\ Announce("framework.started", m)

Stopped(m) ==
  /\ MayStop(m)
  /\ lifecycle' = [lifecycle EXCEPT ![m] = "Stopped"]
  /\ status' = [status EXCEPT ![m] = "Stopped"]
  /\ Announce("framework.stopping", m)

\* The module is still Running when its last event or its clean-up raises.
StopRaises(m) ==
  /\ MayStop(m)
  /\ m \in Unstable
  /\ lifecycle' = [lifecycle EXCEPT ![m] = "Failed"]
  /\ UNCHANGED status
  /\ Announce("framework.stopping", m)

Refused(may) ==
  /\ ~may
  /\ UNCHANGED <<lifecycle, status, audit, healthStates>>

-----------------------------------------------------------------------------
(* ModuleManager.start_all and .stop_all, a module at a time: the first      *)
(* exception leaves the loop                                                 *)

Advance(next) == at' = next /\ UNCHANGED doing
Raise == doing' = "idle" /\ at' = 0

StartNext ==
  /\ doing \in {"boot", "start_all"}
  /\ at <= Len(order)
  /\ \/ Started(order[at]) /\ Advance(at + 1)
     \/ StartRaises(order[at]) /\ Raise
     \/ Refused(MayStart(order[at])) /\ Raise
  /\ UNCHANGED <<order, subscribed, manifest, bootPassed, declared, commands>>

StopNext ==
  /\ doing = "stop_all"
  /\ at >= 1
  /\ \/ Stopped(order[at]) /\ Advance(at - 1)
     \/ StopRaises(order[at]) /\ Raise
     \/ Refused(MayStop(order[at])) /\ Raise
  /\ UNCHANGED <<order, subscribed, manifest, bootPassed, declared, commands>>

LoopDone ==
  /\ \/ doing = "start_all" /\ at > Len(order)
     \/ doing = "stop_all" /\ at = 0
  /\ Raise
  /\ UNCHANGED <<order, lifecycle, status, subscribed, healthStates, manifest,
                 audit, bootPassed, declared, commands>>

\* The end of boot(): the pipeline runs, and the platform is declared
\* operational only when every module reports and is recorded Running.
VerifyBoot ==
  /\ doing = "boot"
  /\ at > Len(order)
  /\ bootPassed' = BootStages
  /\ declared' = \A m \in ToSet(order) :
                   status[m] = "Running" /\ lifecycle[m] = "Running"
  /\ Raise
  /\ UNCHANGED <<order, lifecycle, status, subscribed, healthStates, manifest,
                 audit, commands>>

-----------------------------------------------------------------------------
(* commands to the manager once boot() has returned or raised *)

Command ==
  /\ doing = "idle"
  /\ commands < MaxCommands
  /\ commands' = commands + 1
  /\ UNCHANGED <<order, subscribed, manifest, bootPassed, declared>>

StartAll ==
  /\ Command
  /\ doing' = "start_all" /\ at' = 1
  /\ UNCHANGED <<lifecycle, status, audit, healthStates>>

StopAll ==
  /\ Command
  /\ doing' = "stop_all" /\ at' = Len(order)
  /\ UNCHANGED <<lifecycle, status, audit, healthStates>>

\* LifecycleManager.restart is a stop, then a start.
Restart(k) ==
  /\ Command
  /\ \/ Stopped(order[k]) /\ doing' = "restart" /\ at' = k
     \/ StopRaises(order[k]) /\ UNCHANGED <<doing, at>>
     \/ Refused(MayStop(order[k])) /\ UNCHANGED <<doing, at>>

\* Mutant: the module is started past the lifecycle manager.
RestartStartUnrecorded ==
  /\ doing = "restart"
  /\ status' = [status EXCEPT ![order[at]] = "Running"]
  /\ UNCHANGED <<lifecycle, audit, healthStates>>
  /\ Raise
  /\ UNCHANGED <<order, subscribed, manifest, bootPassed, declared, commands>>

RestartStart ==
  /\ doing = "restart"
  /\ Started(order[at]) \/ StartRaises(order[at])
  /\ Raise
  /\ UNCHANGED <<order, subscribed, manifest, bootPassed, declared, commands>>

\* LifecycleManager.fail
MarkFailed(m) ==
  /\ Command
  /\ lifecycle' = [lifecycle EXCEPT ![m] = "Failed"]
  /\ UNCHANGED <<doing, at, status, audit, healthStates>>

PlatformNext ==
  \/ DiscoverService \/ ConfigureSubscriptions
  \/ DiscoverFramework \/ RecordFrameworks
  \/ StartNext \/ StopNext \/ LoopDone \/ VerifyBoot
  \/ StartAll \/ StopAll
  \/ \E k \in 1..Len(order) : Restart(k)
  \/ RestartStart
  \/ \E m \in ToSet(order) : MarkFailed(m)
=============================================================================
