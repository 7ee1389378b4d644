------------------------- MODULE SessionRegistration -------------------------
(* How a Pi Session gets its Postbox client, and keeps one (index.ts): a      *)
(* start registers at once, or leaves a supervisor behind that asks for the   *)
(* server again and again; an agent's call registers on its own account; and  *)
(* each of them is suspended at awaits, during which sessions end and start   *)
(* and the others go on.  What PostboxClient does with its server is in       *)
(* PostboxClient; here a client is connected or not.                          *)
EXTENDS Naturals

CONSTANTS
  MaxStarts,      \* session_start events of the process (model checking only)
  MaxCalls,       \* calls that want a registration (model checking only)
  MaxOutages,     \* times the server goes away (model checking only)
  PostboxCommand  \* calls also while there is a client: the /postbox command

ASSUME RegistrationAssumption ==
  MaxStarts \in Nat /\ MaxCalls \in Nat /\ MaxOutages \in Nat /\ PostboxCommand \in BOOLEAN

VARIABLES
  scope,        \* the session whose UI scope is active, by its number
  started,      \* session_start events so far
  installed,    \* the variable `client`, by its number
  running,      \* clients that are not stopped
  linked,       \* clients with a connection
  asking,       \* clients with pending asks
  made,         \* clients made so far
  supervisor,   \* the supervisor's session and whether it waits or resolves
  tasks,        \* registrations suspended at an await
  polling,      \* a call polls in waitForRegistration
  regServer,    \* what a probe of the profile's server finds
  calls, outages,
  skipped,      \* history: sessions told "registration skipped"
  dismissed     \* history: sessions a call left without client or supervisor

registrationVars == <<scope, started, installed, running, linked, asking, made, supervisor,
                      tasks, polling, regServer, calls, outages, skipped, dismissed>>
environment == <<regServer, outages>>
fleet == <<installed, running, linked, asking, made>>

\* Definitions named Slip... are faulty variants of the one that follows, used
\* by no specification: a property has to notice each of them.

NoSession == 0
NoClient == 0
NoSupervisor == [session |-> NoSession, stage |-> "none"]
SupervisorOf(s) == [session |-> s, stage |-> "timer"]
Task(kind, s, stage, target, seen) ==
  [kind |-> kind, session |-> s, stage |-> stage, target |-> target, seen |-> seen]

\* resolveServerTarget: configured URL or profile metadata, then a health check.
Available == regServer = "up"

RegistrationInit ==
  /\ scope = NoSession /\ started = 0
  /\ installed = NoClient /\ running = {} /\ linked = {} /\ asking = {} /\ made = 0
  /\ supervisor = NoSupervisor /\ tasks = {} /\ polling = FALSE
  /\ regServer \in {"up", "down", "incompatible"} /\ calls = 0 /\ outages = 0
  /\ skipped = {} /\ dismissed = {}

Stop(c) == running' = running \ {c} /\ linked' = linked \ {c} /\ asking' = asking \ {c}

SessionStart ==
  /\ scope = NoSession /\ started < MaxStarts
  /\ started' = started + 1 /\ scope' = started + 1
  /\ supervisor' = NoSupervisor
  /\ tasks' = tasks \cup {Task("start", started + 1, "resolve", FALSE, NoClient)}
  /\ UNCHANGED <<fleet, polling, environment, calls, skipped, dismissed>>

SessionShutdown ==
  /\ scope # NoSession /\ scope' = NoSession
  /\ supervisor' = NoSupervisor
  /\ Stop(installed) /\ installed' = NoClient
  /\ polling' = FALSE
  /\ UNCHANGED <<started, made, tasks, environment, calls, skipped, dismissed>>

-----------------------------------------------------------------------------
(* startRegistration and the supervisor.                                     *)

\* startNoClientProfileSupervisor
Supervise ==
  IF supervisor # NoSupervisor \/ installed # NoClient THEN supervisor ELSE SupervisorOf(scope)

StartResolved(t) ==
  /\ t \in tasks /\ t.kind = "start" /\ t.stage = "resolve"
  /\ \/ /\ t.session # scope /\ tasks' = tasks \ {t} /\ UNCHANGED supervisor
     \/ /\ t.session = scope /\ ~Available
        /\ tasks' = tasks \ {t} /\ supervisor' = Supervise
     \/ /\ t.session = scope /\ Available
        /\ tasks' = (tasks \ {t}) \cup {Task("start", scope, "collect", TRUE, installed)}
        /\ UNCHANGED supervisor
  /\ UNCHANGED <<scope, started, fleet, polling, environment, calls, skipped, dismissed>>

SupervisorTick ==
  /\ supervisor.stage = "timer"
  /\ supervisor' = IF installed # NoClient THEN NoSupervisor
                   ELSE [supervisor EXCEPT !.stage = "resolving"]
  /\ UNCHANGED <<scope, started, fleet, tasks, polling, environment, calls, skipped, dismissed>>

SupervisorResolved ==
  /\ supervisor.stage = "resolving"
  /\ \/ /\ installed # NoClient /\ supervisor' = NoSupervisor /\ UNCHANGED tasks
     \/ /\ installed = NoClient /\ ~Available
        /\ supervisor' = SupervisorOf(supervisor.session) /\ UNCHANGED tasks
     \/ /\ installed = NoClient /\ Available /\ supervisor' = NoSupervisor
        /\ tasks' = tasks \cup {Task("tick", supervisor.session, "collect", TRUE, NoClient)}
  /\ UNCHANGED <<scope, started, fleet, polling, environment, calls, skipped, dismissed>>

\* registerResolvedTarget, once the registration payload has been collected:
\* a client that came meanwhile is kept.
SlipOutdated(t) == installed # NoClient /\ installed # t.seen
Outdated(t) == t.session # scope \/ (installed # NoClient /\ installed # t.seen)

RegisterTarget(t) ==
  /\ t \in tasks /\ t.stage = "collect" /\ tasks' = tasks \ {t}
  /\ \/ Outdated(t) /\ UNCHANGED <<fleet, polling, skipped>>
     \/ /\ ~Outdated(t) /\ skipped' = skipped \cup {scope}         \* collecting threw
        /\ UNCHANGED <<fleet, polling>>
     \/ /\ ~Outdated(t)
        /\ made' = made + 1 /\ installed' = made + 1
        /\ running' = (running \ {installed}) \cup {made + 1}
        /\ linked' = linked \ {installed} /\ asking' = asking \ {installed}
        /\ polling' = FALSE /\ UNCHANGED skipped
  /\ UNCHANGED <<scope, started, supervisor, environment, calls, dismissed>>

-----------------------------------------------------------------------------
(* retryRegistrationForMutatingCaller, on behalf of ensureRegistration... or  *)
(* of the poll in waitForRegistration.                                        *)

Call ==
  /\ scope # NoSession /\ calls < MaxCalls /\ calls' = calls + 1
  /\ installed = NoClient \/ PostboxCommand
  /\ tasks' = tasks \cup {Task("retry", scope, "resolve", FALSE, NoClient)}
  /\ UNCHANGED <<scope, started, fleet, supervisor, polling, environment, skipped, dismissed>>

PollForRegistration ==
  /\ polling /\ installed = NoClient /\ scope # NoSession
  /\ \A t \in tasks : t.kind # "poll"
  /\ tasks' = tasks \cup {Task("poll", scope, "resolve", FALSE, NoClient)}
  /\ UNCHANGED <<scope, started, fleet, supervisor, polling, environment, calls, skipped, dismissed>>

\* Without a target the call starts a server, unless that is switched off or an
\* incompatible one is running, and polls for the registration.
Unregistered(t) ==
  /\ tasks' = tasks \ {t}
  /\ \/ polling' = (polling \/ (t.kind = "retry" /\ regServer # "incompatible"))
     \/ UNCHANGED polling

\* What follows the last await of the retry; the client it finds not connected
\* is whichever is installed by then.
KeepsClient(t) == installed # NoClient /\ installed \in asking

RetryWith(t, target) ==
  \/ /\ KeepsClient(t) /\ tasks' = tasks \ {t}
     /\ UNCHANGED <<fleet, supervisor, polling, dismissed>>
  \/ /\ ~KeepsClient(t)
     /\ Stop(installed) /\ installed' = NoClient /\ UNCHANGED made
     /\ dismissed' = IF (installed # NoClient /\ ~target) \/ t.session # scope
                     THEN dismissed \cup {scope} ELSE dismissed
     /\ IF target
        THEN /\ supervisor' = NoSupervisor /\ UNCHANGED polling
             /\ tasks' = (tasks \ {t}) \cup {Task(t.kind, t.session, "collect", TRUE, NoClient)}
        ELSE UNCHANGED supervisor /\ Unregistered(t)

RetryResolved(t) ==
  /\ t \in tasks /\ t.kind \in {"retry", "poll"} /\ t.stage = "resolve"
  /\ \/ /\ t.session # scope /\ Unregistered(t) /\ UNCHANGED <<fleet, supervisor, dismissed>>
     \/ /\ t.session = scope /\ installed # NoClient
        /\ tasks' = (tasks \ {t}) \cup {Task(t.kind, t.session, "probe", Available, installed)}
        /\ UNCHANGED <<fleet, supervisor, polling, dismissed>>
     \/ t.session = scope /\ installed = NoClient /\ RetryWith(t, Available)
  /\ UNCHANGED <<scope, started, environment, calls, skipped>>

\* isCurrentClientConnected
RetryProbed(t) ==
  /\ t \in tasks /\ t.stage = "probe"
  /\ \/ /\ t.seen \in linked /\ tasks' = tasks \ {t}
        /\ UNCHANGED <<fleet, supervisor, polling, dismissed>>
     \/ t.seen \notin linked /\ RetryWith(t, t.target)
  /\ UNCHANGED <<scope, started, environment, calls, skipped>>

PollTimesOut ==
  /\ polling /\ polling' = FALSE
  /\ UNCHANGED <<scope, started, fleet, supervisor, tasks, environment, calls, skipped, dismissed>>

-----------------------------------------------------------------------------
(* The client and its server.                                                *)

Link(c) ==
  /\ c \in running \ linked /\ regServer = "up" /\ linked' = linked \cup {c}
  /\ UNCHANGED <<scope, started, installed, running, asking, made, supervisor, tasks,
                 polling, environment, calls, skipped, dismissed>>

Ask(c) ==
  /\ c \in running
  /\ \/ c \in linked \ asking /\ asking' = asking \cup {c}
     \/ c \in asking /\ asking' = asking \ {c}
  /\ UNCHANGED <<scope, started, installed, running, linked, made, supervisor, tasks,
                 polling, environment, calls, skipped, dismissed>>

ServerChanges ==
  /\ \/ regServer = "up" /\ outages < MaxOutages /\ outages' = outages + 1
        /\ regServer' \in {"down", "incompatible"} /\ linked' = {}
     \/ regServer # "up" /\ regServer' = "up" /\ UNCHANGED <<outages, linked>>
  /\ UNCHANGED <<scope, started, installed, running, asking, made, supervisor, tasks,
                 polling, calls, skipped, dismissed>>

RegistrationNext ==
  \/ SessionStart \/ SessionShutdown \/ SupervisorTick \/ SupervisorResolved
  \/ \E t \in tasks : StartResolved(t) \/ RegisterTarget(t) \/ RetryResolved(t) \/ RetryProbed(t)
  \/ Call \/ PollForRegistration \/ PollTimesOut \/ ServerChanges
  \/ \E c \in running : Link(c) \/ Ask(c)

RegistrationSpec == RegistrationInit /\ [][RegistrationNext]_registrationVars

-----------------------------------------------------------------------------

\* A process has one client at a time, and it is the active session's, however
\* many registrations were under way (registerResolvedTarget, session_shutdown).
OneClient == running = {installed} \ {NoClient} /\ (installed # NoClient => scope # NoSession)

\* Something will connect the active session: a client, which reconnects by
\* itself, the supervisor, or a registration under way; unless the human was
\* told that registration was skipped.
WillConnect ==
  \/ installed # NoClient \/ supervisor # NoSupervisor \/ polling
  \/ \E t \in tasks : t.session = scope

\* That holds for every session that no call has left without its client.
SessionIsServed == scope \notin skipped \cup dismissed \cup {NoSession} => WillConnect

\* The active session, and no other, is connected or going to be.
RegistrationSound == OneClient /\ SessionIsServed
=============================================================================
