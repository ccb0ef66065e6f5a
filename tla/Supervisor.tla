----------------------------- MODULE Supervisor -----------------------------
(***************************************************************************)
(* The macOS application's BridgeService                                   *)
(* (macOS/BrowserMCPApp/Model/BridgeService.swift) and the bridge process  *)
(* it owns (bridge/src/cli.ts): start, stop, restart, the ready line, the  *)
(* startup deadline, the escalation to SIGKILL, the requests to the        *)
(* bridge, and quitting.                                                   *)
(*                                                                         *)
(* The service lives on the main actor, so a method runs to its end or to  *)
(* its next await.  What the operating system reports (a chunk of stdout,  *)
(* the termination of a child) becomes a task of the main actor; such      *)
(* tasks are not ordered among each other.  A launch is its generation.    *)
(***************************************************************************)
EXTENDS Naturals, FiniteSets

CONSTANT MaxGenerations  \* bound: values of generation in one behaviour

ASSUME SupervisorAssumption == MaxGenerations \in Nat

NoLaunch == 0
Generations == 1..MaxGenerations

VARIABLES
    svc,       \* the fields of BridgeService
    resolving, \* launches whose runtime and script are being looked for
    child,     \* what the process of each launch does
    status,    \* TRUE: it ended with status 0
    mail,      \* reports of the system that the main actor has not handled
    kills,     \* the launches whose escalation to SIGKILL sleeps
    asked      \* requests in flight, with the generation that sent them

serviceVars == <<svc, resolving, child, status, mail, kills, asked>>

Requests == {"pair", "decide", "refresh", "poll"}

ServiceInit ==
    /\ svc = [state |-> "stopped", generation |-> 0, process |-> NoLaunch,
              restart |-> FALSE, polling |-> FALSE, deadline |-> NoLaunch,
              endpoints |-> NoLaunch, pairings |-> {}, metrics |-> NoLaunch,
              open |-> TRUE]
    /\ resolving = {}
    /\ child = [g \in Generations |-> "none"]
    /\ status = [g \in Generations |-> FALSE]
    /\ mail = {}
    /\ kills = {}
    /\ asked = [r \in Requests |-> NoLaunch]

Alive(g) == child[g] \in {"starting", "ready", "closing"}
IsRunning(s) == s.process # NoLaunch /\ Alive(s.process)

-----------------------------------------------------------------------------
(* What a launch needs.                                                     *)

\* normalizedPort, and a certificate with its key.
Settings == [port : BOOLEAN, certificate : BOOLEAN, key : BOOLEAN]
Launchable(s) == s.port /\ (s.certificate <=> s.key)
Fit == {Launchable(s) : s \in Settings}

\* The first candidate that answers --version in time with version 24 or
\* later is taken; the others only leave a diagnostic.
NodeCandidates == {<<>>, <<"absent", "old", "fits">>, <<"hangs">>}
ResolvesNode(candidates) == \E i \in DOMAIN candidates : candidates[i] = "fits"

\* A selected script overrides the defaults, even when it is not valid.
ScriptChoices == [selected : {"none", "valid", "invalid"}, bundled : BOOLEAN]
ResolvesScript(s) == s.selected = "valid" \/ (s.selected = "none" /\ s.bundled)
Resolutions == {ResolvesNode(n) /\ ResolvesScript(s) : n \in NodeCandidates, s \in ScriptChoices}

-----------------------------------------------------------------------------
(* Parts of the service.                                                    *)

ClearSensitive(s) ==
    [s EXCEPT !.endpoints = NoLaunch, !.pairings = {}, !.metrics = NoLaunch]
ClearRuntime(s) == [ClearSensitive(s) EXCEPT !.deadline = NoLaunch, !.process = NoLaunch]
FailWith(s) == [s EXCEPT !.deadline = NoLaunch, !.state = "failed"]
StopPolling(s) == [s EXCEPT !.polling = FALSE]
Unpolled == [asked EXCEPT !["poll"] = NoLaunch]

\* Slip: a failed launch is forgotten while its process still runs.
CanStart_WhileRunning(s) == s.state \in {"stopped", "failed"}
CanStart(s) == s.process = NoLaunch /\ s.state \in {"stopped", "failed"}
CanStop(s) == s.state \in {"starting", "running"}

\* start: nothing but a failure comes of settings that do not fit.
Started(s, fit) ==
    IF ~CanStart(s) THEN s
    ELSE IF ~fit THEN FailWith(s)
    ELSE [s EXCEPT !.state = "starting", !.endpoints = NoLaunch, !.pairings = {},
                   !.metrics = NoLaunch, !.generation = @ + 1]
Resolving(before, after) ==
    IF after.state = "starting" /\ after.generation > before.generation
    THEN resolving \cup {after.generation}
    ELSE resolving

\* The bridge stops on the first SIGTERM once it listens for signals, which
\* it does when it has printed its ready line; before, and on a second one,
\* the signal ends the process.
Terminated(g) ==
    IF child[g] = "ready" THEN [child EXCEPT ![g] = "closing"]
                          ELSE [child EXCEPT ![g] = "dead"]
Exits(c) ==
    {[of |-> "exit", gen |-> g] : g \in {h \in Generations : Alive(h) /\ c[h] = "dead"}}

-----------------------------------------------------------------------------
(* The operator.                                                            *)

InBound == svc'.generation <= MaxGenerations
Pristine == UNCHANGED <<child, status, mail, kills, asked>>

Start ==
    /\ CanStart(svc)
    /\ \E fit \in Fit : svc' = Started(svc, fit)
    /\ InBound
    /\ resolving' = Resolving(svc, svc')
    /\ Pristine

\* stopPreservingRestartIntent, on the service s.
StopProcess(s) ==
    LET quiet == [StopPolling(s) EXCEPT !.deadline = NoLaunch]
    IN /\ asked' = Unpolled
       /\ UNCHANGED status
       /\ \/ /\ ~IsRunning(s)
             /\ LET stopped == [ClearRuntime(quiet) EXCEPT
                                    !.generation = @ + 1, !.restart = FALSE,
                                    !.state = "stopped"]
                IN IF ~s.restart
                   THEN svc' = stopped /\ UNCHANGED resolving
                   ELSE /\ \E fit \in Fit : svc' = Started(stopped, fit)
                        /\ resolving' = Resolving(stopped, svc')
             /\ InBound
             /\ UNCHANGED <<child, mail, kills>>
          \/ /\ IsRunning(s)
             /\ svc' = ClearSensitive([quiet EXCEPT !.state = "stopping"])
             /\ child' = Terminated(s.process)
             /\ mail' = mail \cup Exits(child')
             /\ kills' = kills \cup {s.generation}
             /\ UNCHANGED resolving

\* The buttons are enabled by canStop and by the state running.
Stop == CanStop(svc) /\ StopProcess([svc EXCEPT !.restart = FALSE])

Restart ==
    /\ svc.state = "running"
    /\ IF svc.process # NoLaunch
       THEN StopProcess([svc EXCEPT !.restart = TRUE])
       ELSE UNCHANGED serviceVars    \* start refuses: the state is running

\* shutdownSynchronously, before the application ends: it waits for the
\* process and kills it after three seconds.
Quit ==
    /\ svc.open
    /\ svc' = [StopPolling(ClearRuntime(svc)) EXCEPT
                   !.restart = FALSE, !.open = FALSE,
                   !.generation = IF IsRunning(svc) THEN @ ELSE @ + 1,
                   !.state = IF IsRunning(svc) THEN @ ELSE "stopped"]
    /\ child' = IF IsRunning(svc) THEN [child EXCEPT ![svc.process] = "dead"]
                                  ELSE child
    /\ resolving' = {}
    /\ mail' = {}
    /\ kills' = {}
    /\ asked' = [r \in Requests |-> NoLaunch]
    /\ UNCHANGED status

-----------------------------------------------------------------------------
(* Tasks of the main actor.                                                 *)

\* The runtime and the script have been found, or not, and the process runs,
\* or cannot be run.
Launch(g, found, runs) ==
    /\ g \in resolving
    /\ resolving' = resolving \ {g}
    /\ IF svc.generation # g THEN UNCHANGED <<svc, child>>
       ELSE IF ~found THEN svc' = FailWith(svc) /\ UNCHANGED child
       ELSE IF svc.state # "starting" THEN UNCHANGED <<svc, child>>
       ELSE IF ~runs THEN svc' = FailWith(svc) /\ UNCHANGED child
       ELSE /\ svc' = [svc EXCEPT !.process = g, !.deadline = g]
            /\ child' = [child EXCEPT ![g] = "starting"]
    /\ UNCHANGED <<status, mail, kills, asked>>

\* Slip: a line of an earlier process is handled.
Current_Any(g) == TRUE
Current(g) == svc.generation = g

\* consumeStdout, handleReady: whatever the state, the service is running.
ReadyLine(g) ==
    /\ [of |-> "ready", gen |-> g] \in mail
    /\ mail' = mail \ {[of |-> "ready", gen |-> g]}
    /\ IF Current(g)
       THEN /\ svc' = [svc EXCEPT !.deadline = NoLaunch, !.endpoints = g,
                                  !.pairings = {g}, !.state = "running",
                                  !.polling = TRUE]
            /\ asked' = Unpolled
       ELSE UNCHANGED <<svc, asked>>
    /\ UNCHANGED <<resolving, child, status, kills>>

ProcessTerminated(g) ==
    /\ [of |-> "exit", gen |-> g] \in mail
    /\ mail' = mail \ {[of |-> "exit", gen |-> g]}
    /\ IF ~Current(g) THEN UNCHANGED <<svc, resolving, asked>>
       ELSE LET cleared == [ClearRuntime(StopPolling(svc)) EXCEPT !.restart = FALSE]
            IN /\ asked' = Unpolled
               /\ IF svc.restart
                  THEN /\ \E fit \in Fit : svc' = Started(cleared, fit)
                       /\ InBound
                       /\ resolving' = Resolving(cleared, svc')
                  ELSE /\ svc' = IF svc.state = "failed" THEN cleared
                                 ELSE IF svc.state = "stopping" \/ status[g]
                                 THEN [cleared EXCEPT !.state = "stopped"]
                                 ELSE [cleared EXCEPT !.state = "failed"]
                       /\ UNCHANGED resolving
    /\ UNCHANGED <<child, status, kills>>

\* No ready line within ten seconds.
StartupDeadline ==
    /\ svc.deadline # NoLaunch
    /\ IF svc.generation = svc.deadline /\ svc.state = "starting" /\ IsRunning(svc)
       THEN /\ svc' = FailWith(svc)
            /\ child' = Terminated(svc.process)
            /\ mail' = mail \cup Exits(child')
            /\ kills' = kills \cup {svc.deadline}
       ELSE /\ svc' = [svc EXCEPT !.deadline = NoLaunch]
            /\ UNCHANGED <<child, mail, kills>>
    /\ UNCHANGED <<resolving, status, asked>>

\* Slip: only a service that is still stopping kills.
Escalates_OnlyStopping(g) ==
    svc.generation = g /\ IsRunning(svc) /\ svc.state = "stopping"
Escalates(g) == svc.generation = g /\ IsRunning(svc)

\* Four seconds after a stop, two after the deadline.
KillTimer(g) ==
    /\ g \in kills
    /\ kills' = kills \ {g}
    /\ child' = IF Escalates(g) THEN [child EXCEPT ![svc.process] = "dead"]
                                ELSE child
    /\ mail' = mail \cup Exits(child')
    /\ UNCHANGED <<svc, resolving, status, asked>>

-----------------------------------------------------------------------------
(* Requests to the bridge.                                                  *)

\* A pairing token, a decision, or the poll of every two seconds.
Ask(r) ==
    /\ asked[r] = NoLaunch /\ svc.endpoints # NoLaunch
    /\ CASE r = "poll" -> svc.polling
         [] r = "refresh" -> FALSE
         [] OTHER -> svc.state = "running"
    /\ asked' = [asked EXCEPT ![r] = svc.generation]
    /\ UNCHANGED <<svc, resolving, child, status, mail, kills>>

\* The service asks again after the answer: the same bridge still runs.
StillWanted(r) ==
    /\ svc.generation = asked[r] /\ svc.state = "running"
    /\ svc.endpoints = asked[r]

\* A decision is followed by a refresh of the metrics that nothing cancels;
\* neither it nor a poll checks whose answer it takes.
Answer(r) ==
    /\ asked[r] # NoLaunch
    /\ CASE r = "pair" /\ StillWanted(r) ->
              /\ svc' = [svc EXCEPT !.pairings = @ \cup {asked[r]}]
              /\ asked' = [asked EXCEPT ![r] = NoLaunch]
         [] r = "decide" /\ StillWanted(r) ->
              /\ asked' = [asked EXCEPT ![r] = NoLaunch, !["refresh"] = svc.generation]
              /\ UNCHANGED svc
         [] r \in {"refresh", "poll"} ->
              /\ svc' = [svc EXCEPT !.metrics = asked[r]]
              /\ asked' = [asked EXCEPT ![r] = NoLaunch]
         [] OTHER -> asked' = [asked EXCEPT ![r] = NoLaunch] /\ UNCHANGED svc
    /\ UNCHANGED <<resolving, child, status, mail, kills>>

NoAnswer(r) ==
    /\ asked[r] # NoLaunch
    /\ asked' = [asked EXCEPT ![r] = NoLaunch]
    /\ UNCHANGED <<svc, resolving, child, status, mail, kills>>

-----------------------------------------------------------------------------
(* The bridge process.                                                      *)

\* It listens, issues the pairing tokens and prints the ready line.
Listens(g) ==
    /\ child[g] = "starting"
    /\ child' = [child EXCEPT ![g] = "ready"]
    /\ mail' = mail \cup {[of |-> "ready", gen |-> g]}
    /\ UNCHANGED <<svc, resolving, status, kills, asked>>

\* It cannot listen, it fails, or it has closed; closing may never end.
Ends(g) ==
    /\ Alive(g)
    /\ child' = [child EXCEPT ![g] = "dead"]
    /\ status' = [status EXCEPT ![g] = child[g] = "closing"]
    /\ mail' = mail \cup Exits(child')
    /\ UNCHANGED <<svc, resolving, kills, asked>>

-----------------------------------------------------------------------------
Tasks(g) ==
    \/ \E found \in Resolutions, runs \in BOOLEAN : Launch(g, found, runs)
    \/ ReadyLine(g) \/ ProcessTerminated(g)
Timers == StartupDeadline \/ \E g \in kills : KillTimer(g)
Operator == Start \/ Stop \/ Restart

ServiceNext ==
    \/ svc.open /\ \/ Operator \/ Quit \/ Timers
                   \/ \E g \in Generations : Tasks(g)
                   \/ \E r \in Requests : Ask(r) \/ Answer(r) \/ NoAnswer(r)
    \/ \E g \in Generations : Listens(g) \/ Ends(g)

ServiceSpec == ServiceInit /\ [][ServiceNext]_serviceVars

\* The main actor runs its tasks and the timers fire; nothing is assumed of
\* the operator or of the bridge process.
ServiceFairness ==
    /\ WF_serviceVars(svc.open /\ Timers)
    /\ \A g \in Generations : WF_serviceVars(svc.open /\ Tasks(g))
ServiceFairSpec == ServiceSpec /\ ServiceFairness

-----------------------------------------------------------------------------
(* Properties.                                                              *)

\* There is never a second bridge process, and the one there is can be
\* reached: process names it, and the reports of its generation are heard.
\* NoLaunch is left when the application ends.
OneReachableBridge ==
    \A g \in Generations :
        Alive(g) => svc.open /\ svc.process = g /\ svc.generation = g

\* Endpoints and pairing credentials on display are those of the launch that
\* is current, although answers and lines of earlier ones arrive late.
CredentialsAreCurrent ==
    /\ svc.endpoints \in {NoLaunch, svc.generation}
    /\ svc.pairings \subseteq {svc.endpoints}

\* A process that has been told to end ends, whether it listens to SIGTERM or
\* not and whatever line it still prints.
ToldToEndEnds ==
    \A g \in Generations : g \in kills ~> ~Alive(g)

\* A restart that no stop revokes ends the old process and then launches a
\* fresh one, or says why not, as macOS/README.md describes.
RestartStartsAgain ==
    svc.restart ~> (svc.state # "stopping")

=============================================================================
