------------------------------- MODULE SetupPage -------------------------------
(***************************************************************************)
(* The local setup page (setup_ui, setup_wizard, setup, codegraph_         *)
(* installer): writing the configuration and the files of the HTTPS        *)
(* bridge, installing CodeGraph first, and starting and stopping the       *)
(* service and the bridge.                                                 *)
(*                                                                         *)
(* SetupUIServer is a ThreadingHTTPServer, so every request is a thread of *)
(* its own and nothing orders them: each `pc` names what the thread does   *)
(* next.  A request's identity also stands for what it makes, its service  *)
(* process, its bearer token and the content of its files.                 *)
(***************************************************************************)
EXTENDS ProjectConfig, FiniteSets

CONSTANTS Requests,   \* the requests the page gets
          Asked,      \* what they may ask for
          Root, Ops, Work,   \* the project, its ops repository, its code repositories
          Files,      \* what the file system says of them
          Nothing,    \* no such file, process or container
          User, Partial,   \* a configuration the user wrote; a file cut short
          MaxFaults   \* bound: calls that fail, and restarts of the page

Artifacts == {"env", "token_file", "caddyfile", "compose"}
Services == {"start", "stop"}

ASSUME SetupAssumption ==
    /\ \A a \in Asked :
          a \in [op : {"write"}, confirm : BOOLEAN, bridge : {"off", "on", "unacknowledged"},
                 idSafe : BOOLEAN]
             \cup [op : Services \cup {"up", "down"}]
    /\ MaxFaults \in Nat
    /\ Len(Work) \in Nat /\ DOMAIN Work = 1..Len(Work)
    /\ Requests \cap {Nothing, User, Partial} = {} /\ Nothing \notin {User, Partial}
    /\ Nothing \notin {"ok", "invalid"}   \* no answer yet is no answer

VARIABLES
    config,       \* project.yaml: who wrote it
    cli,          \* the local CodeGraph installation
    initialized,  \* the code repositories CodeGraph has initialized
    bridge,       \* the bridge's files: whose content each has
    caddy,        \* the token the bridge's container was started with
    process,      \* the service processes, by the request that started them
    tracked,      \* LocalServiceManager.process
    pc, asked, todo, answer,   \* the threads; todo is the next code repository
    found,        \* whether a configuration existed when the request arrived
    overlapped,   \* which of "write" and "service" requests were ever handled two at once
    restarted,    \* the page was stopped and started again
    faults

vars == <<config, cli, initialized, bridge, caddy, process, tracked, pc, asked, todo, answer,
          found, overlapped, restarted, faults>>

\* What a write changes, and what the other requests change.
written == <<config, cli, initialized, bridge>>
running == <<process, tracked, caddy>>
history == <<found, overlapped, restarted>>

Live == {p \in Requests : process[p] \in {"starting", "serving", "stopping"}}
Kind(op) == IF op \in Services THEN "service" ELSE op
Active(kind) == {r \in Requests : pc[r] \notin {"idle", "done"} /\ Kind(asked[r].op) = kind}

Goto(r, label) ==
    /\ pc' = [pc EXCEPT ![r] = label]
    /\ UNCHANGED <<asked, answer, history, faults>>

Answer(r, code) ==
    /\ pc' = [pc EXCEPT ![r] = "done"]
    /\ answer' = [answer EXCEPT ![r] = code]
    /\ UNCHANGED <<asked, history>>

Says(r, code) == Answer(r, code) /\ UNCHANGED faults

\* A call that fails; an exception do_POST does not catch ends the thread with
\* no answer, which the page sees as a dropped connection.
Fails(r, code) ==
    /\ faults < MaxFaults
    /\ faults' = faults + 1
    /\ Answer(r, code)

----------------------------------------------------------------------------
Init ==
    /\ config \in {Nothing, User}
    /\ cli \in {"absent", "working"} /\ initialized = {}
    /\ bridge = [a \in Artifacts |-> Nothing] /\ caddy = Nothing
    /\ process = [r \in Requests |-> "none"] /\ tracked = Nothing
    /\ pc = [r \in Requests |-> "idle"]
    /\ asked = [r \in Requests |-> Nothing]
    /\ todo = [r \in Requests |-> 1]
    /\ answer = [r \in Requests |-> Nothing]
    /\ found = [r \in Requests |-> FALSE]
    /\ overlapped = {} /\ restarted = FALSE /\ faults = 0

First(op) == CASE op = "write" -> "plan" [] op = "start" -> "validate" [] OTHER -> op

\* do_POST: the request's thread.
Arrive(r) ==
    /\ pc[r] = "idle"
    /\ \E a \in Asked :
          /\ asked' = [asked EXCEPT ![r] = a]
          /\ pc' = [pc EXCEPT ![r] = First(a.op)]
          /\ overlapped' = overlapped \cup
                {k \in {"write", "service"} \cap {Kind(a.op)} : Active(k) # {}}
    /\ found' = [found EXCEPT ![r] = config # Nothing]
    /\ UNCHANGED <<written, running, todo, answer, restarted, faults>>

----------------------------------------------------------------------------
(* POST /api/write.                                                        *)

NeedsConfirmationAnyway(r) == config \notin {Nothing, User} /\ ~asked[r].confirm

\* The configuration exists and its replacement was not confirmed.
NeedsConfirmation(r) == config # Nothing /\ ~asked[r].confirm

\* build_guided_setup_state, then the refusals of write_guided_setup_config.
Plan(r) ==
    /\ pc[r] = "plan"
    /\ IF asked[r].bridge = "unacknowledged" THEN Says(r, "SETUP_INPUT_INVALID")
       ELSE IF NeedsConfirmation(r) THEN Says(r, "OVERWRITE_CONFIRMATION_REQUIRED")
       ELSE Goto(r, "check")
    /\ UNCHANGED <<written, running, todo>>

\* A Git check of a chosen folder that fails or times out makes it "not a Git
\* repository" (_is_git_worktree).
PlanFails(r) ==
    /\ pc[r] = "plan"
    /\ Fails(r, "SETUP_INPUT_INVALID")
    /\ UNCHANGED <<written, running, todo>>

\* write_setup_artifacts looks once more.
Check(r) ==
    /\ pc[r] = "check"
    /\ IF NeedsConfirmation(r) THEN Says(r, "OVERWRITE_CONFIRMATION_REQUIRED")
       ELSE Goto(r, IF Work = <<>> THEN "truncate" ELSE "codegraph")
    /\ UNCHANGED <<written, running, todo>>

\* ensure_codegraph_configured(install=True): the planned command, the one on
\* PATH or the local installation, whichever answers --version.
FindCli(r) ==
    /\ pc[r] = "codegraph" /\ cli = "working"
    /\ Goto(r, "init")
    /\ UNCHANGED <<written, running, todo>>

\* None does, or a --version timed out (_command_healthy): npm installs one, if
\* there is an npm.
NoCli(r) ==
    /\ pc[r] = "codegraph"
    /\ cli = "working" => faults < MaxFaults
    /\ faults' = IF cli = "working" THEN faults + 1 ELSE faults
    /\ \/ pc' = [pc EXCEPT ![r] = "npm"] /\ UNCHANGED <<asked, answer, history>>
       \/ Answer(r, "CODEGRAPH_INSTALL_FAILED")
    /\ UNCHANGED <<written, running, todo>>

\* npm install, and the verification of what it installed.
Install(r) ==
    /\ pc[r] = "npm"
    /\ cli' = "working"
    /\ Goto(r, "init")
    /\ UNCHANGED <<config, initialized, bridge, running, todo>>

\* Only a failure is handled: a timeout is dropped.
InstallFails(r) ==
    /\ pc[r] = "npm"
    /\ cli' \in {cli, "broken"}
    /\ \E code \in {"CODEGRAPH_INSTALL_FAILED", "dropped"} : Fails(r, code)
    /\ UNCHANGED <<config, initialized, bridge, running, todo>>

InitRepoPast(r) ==
    /\ pc[r] = "init" /\ todo[r] <= Len(Work) + 1
    /\ initialized' = initialized \cup {todo[r]}
    /\ todo' = [todo EXCEPT ![r] = @ + 1]
    /\ Goto(r, "init")
    /\ UNCHANGED <<config, cli, bridge, running>>

\* _initialize_code_repos: one repository after the other.  One whose status does
\* not say that it is initialized is initialized (again).
InitRepo(r) ==
    /\ pc[r] = "init" /\ todo[r] <= Len(Work)
    /\ initialized' = initialized \cup {todo[r]}
    /\ todo' = [todo EXCEPT ![r] = @ + 1]
    /\ Goto(r, "init")
    /\ UNCHANGED <<config, cli, bridge, running>>

\* A timeout may come after the work was done.
InitRepoFails(r) ==
    /\ pc[r] = "init" /\ todo[r] <= Len(Work)
    /\ initialized' \in {initialized, initialized \cup {todo[r]}}
    /\ Fails(r, "CODEGRAPH_INSTALL_FAILED")
    /\ UNCHANGED <<config, cli, bridge, running, todo>>

InitDoneEarly(r) ==
    /\ pc[r] = "init"
    /\ Goto(r, "truncate")
    /\ UNCHANGED <<written, running, todo>>

InitDone(r) ==
    /\ pc[r] = "init" /\ todo[r] > Len(Work)
    /\ Goto(r, "truncate")
    /\ UNCHANGED <<written, running, todo>>

\* config_path.write_text opens the file, which empties it, and then fills it.
Truncate(r) ==
    /\ pc[r] = "truncate"
    /\ config' = Partial
    /\ Goto(r, "fill")
    /\ UNCHANGED <<cli, initialized, bridge, running, todo>>

Fill(r) ==
    /\ pc[r] = "fill"
    /\ config' = r
    /\ Goto(r, IF asked[r].bridge = "on" THEN "env" ELSE "report")
    /\ UNCHANGED <<cli, initialized, bridge, running, todo>>

After == [env |-> "token_file", token_file |-> "caddyfile", caddyfile |-> "compose",
          compose |-> "report"]

\* The token file is only made when there is none.
TokenKept(r) ==
    /\ pc[r] \in Artifacts
    /\ bridge' = IF pc[r] = "token_file" /\ bridge.token_file # Nothing THEN bridge
                 ELSE [bridge EXCEPT ![pc[r]] = r]
    /\ Goto(r, After[pc[r]])
    /\ UNCHANGED <<config, cli, initialized, running, todo>>

\* _write_remote_bridge_artifacts: a new token, and one file after the other.
WriteArtifact(r) ==
    /\ pc[r] \in Artifacts
    /\ bridge' = [bridge EXCEPT ![pc[r]] = r]
    /\ Goto(r, After[pc[r]])
    /\ UNCHANGED <<config, cli, initialized, running, todo>>

\* A full disk: the file is cut short and the OSError is not caught.
WriteFails(r) ==
    /\ pc[r] \in {"fill"} \cup Artifacts
    /\ bridge' = IF pc[r] = "fill" THEN bridge ELSE [bridge EXCEPT ![pc[r]] = Partial]
    /\ Fails(r, "dropped")
    /\ UNCHANGED <<config, cli, initialized, running, todo>>

\* What the file that `writer` left says; one cut short does not load.
Content(writer) ==
    Generated(Root, Ops, Work, IF writer = User THEN TRUE ELSE asked[writer].idSafe)
Valid == config \notin {Nothing, Partial} /\ Accepted(Content(config), Files)

\* validate_project_config decides between the two answers of a finished write.
Report(r) ==
    /\ pc[r] = "report"
    /\ Says(r, IF Valid THEN "ok" ELSE "invalid")
    /\ UNCHANGED <<written, running, todo>>

ReportFails(r) ==
    /\ pc[r] = "report"
    /\ Fails(r, "invalid")
    /\ UNCHANGED <<written, running, todo>>

Write(r) ==
    \/ Plan(r) \/ PlanFails(r) \/ Check(r)
    \/ FindCli(r) \/ NoCli(r) \/ Install(r) \/ InstallFails(r)
    \/ InitRepo(r) \/ InitRepoFails(r) \/ InitDone(r)
    \/ Truncate(r) \/ Fill(r) \/ WriteArtifact(r) \/ WriteFails(r)
    \/ Report(r) \/ ReportFails(r)

----------------------------------------------------------------------------
(* POST /api/service/start and /api/service/stop (LocalServiceManager).    *)

\* start: the configuration must be valid.
Validate(r) ==
    /\ pc[r] = "validate"
    /\ IF Valid THEN Goto(r, "look") ELSE Says(r, "CONFIG_INVALID")
    /\ UNCHANGED <<written, running, todo>>

ValidateFails(r) ==
    /\ pc[r] = "validate"
    /\ Fails(r, "CONFIG_INVALID")
    /\ UNCHANGED <<written, running, todo>>

LookNowhere(r) ==
    /\ pc[r] = "look"
    /\ Goto(r, "spawn")
    /\ UNCHANGED <<written, running, todo>>

\* A process of this page that still runs is the answer.
Look(r) ==
    /\ pc[r] = "look"
    /\ IF tracked \in Live THEN Says(r, "running") ELSE Goto(r, "spawn")
    /\ UNCHANGED <<written, running, todo>>

Spawn(r) ==
    /\ pc[r] = "spawn"
    /\ process' = [process EXCEPT ![r] = "starting"]
    /\ tracked' = r
    /\ Goto(r, "sleep")
    /\ UNCHANGED <<written, caddy, todo>>

\* After 0.2 s it looks at whichever process is tracked by then.
Slept(r) ==
    /\ pc[r] = "sleep"
    /\ Says(r, IF tracked \in Live THEN "running" ELSE "SERVICE_START_FAILED")
    /\ UNCHANGED <<written, running, todo>>

\* stop: nothing to do, or SIGTERM to the process group.
Terminate(r) ==
    /\ pc[r] = "stop"
    /\ IF tracked \in Live
       THEN /\ process' = [process EXCEPT ![tracked] = "stopping"]
            /\ Goto(r, "wait")
       ELSE Says(r, "stopped") /\ UNCHANGED process
    /\ UNCHANGED <<written, tracked, caddy, todo>>

\* process.wait(timeout=5) returns.
Stopped(r) ==
    /\ pc[r] = "wait" /\ tracked \notin Live
    /\ Says(r, "stopped")
    /\ UNCHANGED <<written, running, todo>>

GiveUp(r) ==
    /\ pc[r] = "wait" /\ tracked \in Live
    /\ Says(r, "stopped")
    /\ UNCHANGED <<written, running, todo>>

\* It does not return in time: SIGKILL, again to whichever process is tracked.
Kill(r) ==
    /\ pc[r] = "wait" /\ tracked \in Live
    /\ process' = [process EXCEPT ![tracked] = "dead"]
    /\ Says(r, "stopped")
    /\ UNCHANGED <<written, tracked, caddy, todo>>

Service(r) ==
    \/ Validate(r) \/ ValidateFails(r) \/ Look(r) \/ Spawn(r) \/ Slept(r)
    \/ Terminate(r) \/ Stopped(r) \/ Kill(r)

\* The service process: the port is one process's; it may die of its own.
Bind(p) ==
    /\ process[p] = "starting"
    /\ process' = [process EXCEPT ![p] =
                      IF \E q \in Requests \ {p} : process[q] \in {"serving", "stopping"}
                      THEN "dead" ELSE "serving"]
    /\ UNCHANGED <<written, tracked, caddy, pc, asked, todo, answer, history, faults>>

Exit(p) ==
    /\ process[p] = "stopping"
    /\ process' = [process EXCEPT ![p] = "dead"]
    /\ UNCHANGED <<written, tracked, caddy, pc, asked, todo, answer, history, faults>>

Die(p) ==
    /\ process[p] \in {"starting", "serving"} /\ faults < MaxFaults
    /\ process' = [process EXCEPT ![p] = "dead"]
    /\ faults' = faults + 1
    /\ UNCHANGED <<written, tracked, caddy, pc, asked, todo, answer, history>>

----------------------------------------------------------------------------
(* POST /api/remote-bridge/start and stop (_run_remote_bridge_compose).    *)

\* docker compose up gives the container the env file as it is now.
Compose(r) ==
    /\ pc[r] \in {"up", "down"}
    /\ IF bridge.compose = Nothing
       THEN Says(r, "REMOTE_BRIDGE_NOT_CONFIGURED") /\ UNCHANGED caddy
       ELSE /\ caddy' = IF pc[r] = "up" THEN bridge.env ELSE Nothing
            /\ Says(r, "ok")
    /\ UNCHANGED <<written, process, tracked, todo>>

\* No Docker, or a nonzero exit; a timeout is not caught and may come after.
ComposeFails(r) ==
    /\ pc[r] \in {"up", "down"} /\ bridge.compose # Nothing
    /\ \/ Fails(r, "REMOTE_BRIDGE_DOCKER_FAILED") /\ UNCHANGED caddy
       \/ /\ Fails(r, "dropped")
          /\ caddy' \in {caddy, IF pc[r] = "up" THEN bridge.env ELSE Nothing}
    /\ UNCHANGED <<written, process, tracked, todo>>

----------------------------------------------------------------------------
(* Around the page.                                                        *)

\* The user writes a configuration by hand while there is none.
UserWrites ==
    /\ config = Nothing
    /\ config' = User
    /\ UNCHANGED <<cli, initialized, bridge, running, pc, asked, todo, answer, history, faults>>

\* The page is stopped and started again: its threads end, the service it
\* started does not (start_new_session), and the new page knows of none.
Restart ==
    /\ faults < MaxFaults /\ faults' = faults + 1
    /\ restarted' = TRUE
    /\ pc' = [r \in Requests |-> IF pc[r] = "idle" THEN "idle" ELSE "done"]
    /\ answer' = [r \in Requests |-> IF pc[r] \in {"idle", "done"} THEN answer[r] ELSE "dropped"]
    /\ tracked' = Nothing
    /\ UNCHANGED <<written, process, caddy, asked, todo, found, overlapped>>

\* GET / and /api/service/status change nothing; the page waits for requests.
Wait ==
    /\ \A r \in Requests : pc[r] = "done"
    /\ UNCHANGED vars

Next ==
    \/ \E r \in Requests :
          \/ Arrive(r) \/ Write(r) \/ Service(r) \/ Compose(r) \/ ComposeFails(r)
          \/ Bind(r) \/ Exit(r) \/ Die(r)
    \/ UserWrites \/ Restart \/ Wait

Spec == Init /\ [][Next]_vars

----------------------------------------------------------------------------
(* Properties.                                                             *)

Codes == {"ok", "invalid", "SETUP_INPUT_INVALID", "OVERWRITE_CONFIRMATION_REQUIRED",
          "CODEGRAPH_INSTALL_FAILED", "CONFIG_INVALID", "running", "SERVICE_START_FAILED",
          "stopped", "REMOTE_BRIDGE_NOT_CONFIGURED", "REMOTE_BRIDGE_DOCKER_FAILED", "dropped"}
Labels == {"idle", "plan", "check", "codegraph", "npm", "init", "truncate", "fill", "report",
           "validate", "look", "spawn", "sleep", "stop", "wait", "up", "down", "done"} \cup Artifacts

\* The type of every variable: nothing but a configured code repository is ever
\* initialized, and every thread ends in an answer do_POST knows.
TypeOK ==
    /\ config \in Requests \cup {Nothing, User, Partial}
    /\ cli \in {"absent", "working", "broken"}
    /\ initialized \subseteq DOMAIN Work
    /\ bridge \in [Artifacts -> Requests \cup {Nothing, Partial}]
    /\ caddy \in Requests \cup {Nothing, Partial}
    /\ process \in [Requests -> {"none", "starting", "serving", "stopping", "dead"}]
    /\ tracked \in Requests \cup {Nothing}
    /\ pc \in [Requests -> Labels]
    /\ asked \in [Requests -> Asked \cup {Nothing}]
    /\ todo \in [Requests -> 1..(Len(Work) + 1)]
    /\ answer \in [Requests -> Codes \cup {Nothing}]
    /\ found \in [Requests -> BOOLEAN]
    /\ overlapped \subseteq {"write", "service"}
    /\ restarted \in BOOLEAN /\ faults \in 0..MaxFaults

\* The manager's promise of a single service process: as long as starts and stops
\* come one at a time and the page stays up, no process lives but the one it
\* tracks (LocalServiceManager.start).
SingleService ==
    "service" \notin overlapped /\ ~restarted => Live \subseteq {tracked}

\* Under the same conditions a stop that answers has ended every process, also
\* one that was still starting or that ignored SIGTERM (LocalServiceManager.stop).
StopLeavesNothing ==
    [][\A r \in Requests :
          /\ answer[r] # "stopped" /\ answer'[r] = "stopped"
          /\ "service" \notin overlapped /\ ~restarted
          => Live' = {}]_vars

\* A configuration that setup wrote names a CodeGraph that was installed, and every
\* code repository in it is initialized: a failed installation leaves no
\* configuration that points at it, however requests interleave
\* (write_setup_artifacts installs before it writes).
ConfigIsBacked ==
    config \in Requests =>
        /\ initialized = DOMAIN Work
        /\ Work # <<>> => cli # "absent"

\* What is left of a write that answered: its four bridge files are of one
\* writing, so the token a user copies is the token the bridge asks for, as long
\* as no two writes overlapped and no later one began on the files
\* (_write_remote_bridge_artifacts).
TokensAgree ==
    "write" \notin overlapped =>
        \A r \in Requests :
            answer[r] \in {"ok", "invalid"} /\ bridge.env = r =>
                \A a \in Artifacts : bridge[a] = r

\* An unconfirmed write never touches a configuration that was there when it was
\* asked for; what it may still lose is one that appeared while it was at work
\* (write_guided_setup_config and write_setup_artifacts).
NoUnconfirmedOverwrite ==
    [][\A r \in Requests :
          pc[r] = "truncate" /\ pc'[r] = "fill" =>
              \/ asked[r].confirm
              \/ config = Nothing
              \/ ~found[r]]_vars
=============================================================================
