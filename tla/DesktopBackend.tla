--------------------------- MODULE DesktopBackend ---------------------------
(***************************************************************************)
(* The desktop client and the backend on the same machine: the containers  *)
(* and their images (docker_manager.py), the worker thread that starts     *)
(* them, the health worker that polls both (health_worker.py) and the main *)
(* window that reacts to its samples (main_window.py), whose questions run *)
(* a nested event loop: samples go on being delivered while one is open.   *)
(***************************************************************************)
EXTENDS Integers, FiniteSets

CONSTANTS LastVersion,    \* bound: versions 1 .. LastVersion have been released
          MaxWaits,       \* bound: rounds of each waiting loop (20, 3 and 18 in the code)
          MaxSetbacks,    \* bound: failures of the machine or the network
          NoStart, NoSample

ASSUME DesktopBackendAssumption ==
  LastVersion \in Nat \ {0} /\ MaxWaits \in Nat \ {0} /\ MaxSetbacks \in Nat

VARIABLES engine,    \* the container runtime, the containers, the images, the API
          window,    \* the main window and the version it runs
          starter,   \* the start_containers call in progress
          sample,    \* a status emitted and not yet handled
          checkout,  \* the version of the code on disk
          setbacks   \* failures so far

backendVars == <<engine, window, starter, sample, checkout, setbacks>>

Versions == 1 .. LastVersion
OwnImage == LastVersion + 1     \* the tag of an image that is no release
Images == Versions \cup {OwnImage}
ClosedWindow == [open |-> FALSE, client |-> 0, override |-> 1, remote |-> FALSE, loadDone |-> FALSE,
                 loaded |-> FALSE, prompted |-> FALSE, asks |-> {}, rest |-> "none",
                 accepted |-> FALSE, aborted |-> FALSE]

BackendInit ==
  /\ \E d \in {"missing", "off", "on"} :
       engine = [daemon |-> d, db |-> FALSE, app |-> FALSE, image |-> 0, api |-> "unreachable"]
  /\ window = ClosedWindow /\ starter = NoStart /\ sample = NoSample
  /\ checkout = 1 /\ setbacks = 0

-----------------------------------------------------------------------------
\* The machine.

Setback == setbacks < MaxSetbacks /\ setbacks' = setbacks + 1
NoSetback == UNCHANGED setbacks

Down(e) == [e EXCEPT !.db = FALSE, !.app = FALSE, !.api = "unreachable"]
Up(e, v) == [e EXCEPT !.db = TRUE, !.app = TRUE, !.image = v, !.api = "unreachable"]

\* _resolve_app_image: APP_IMAGE as the installer of another release left it is
\* stale and gives way to the image of this version, as does none (modelled alike);
\* another image is kept.
Stale(override) == override \in Versions
Wanted == IF Stale(window.override) THEN window.client ELSE window.override

\* get_container_status: a runtime that does not answer runs nothing.
Running == engine.daemon = "on" /\ engine.db /\ engine.app
DbRunning == engine.daemon = "on" /\ engine.db

RuntimeComesUp ==
  /\ engine.daemon = "booting" /\ engine' = [engine EXCEPT !.daemon = "on"]
  /\ UNCHANGED <<window, starter, sample, checkout, setbacks>>

DaemonStops ==
  /\ engine.daemon = "on" /\ Setback
  /\ engine' = [Down(engine) EXCEPT !.daemon = "off"]
  /\ UNCHANGED <<window, starter, sample, checkout>>

AppExits ==
  /\ engine.app /\ Setback
  /\ engine' = [engine EXCEPT !.app = FALSE, !.api = "unreachable"]
  /\ UNCHANGED <<window, starter, sample, checkout>>

ApiProgresses ==
  /\ Running /\ engine.api # "healthy"
  /\ engine' = [engine EXCEPT !.api = IF @ = "initializing" THEN "healthy" ELSE "initializing"]
  /\ UNCHANGED <<window, starter, sample, checkout, setbacks>>

-----------------------------------------------------------------------------
\* DockerManager.start_containers, by the worker thread ("worker") or by the
\* Settings tab on the UI thread ("ui").

StartCall(by, pull) == [by |-> by, pull |-> pull, at |-> "connect", tries |-> 0, ok |-> FALSE]
Goto(place) == starter' = [starter EXCEPT !.at = place, !.tries = 0]
Again == starter' = [starter EXCEPT !.tries = @ + 1]
\* The worker answers with a signal, the UI thread just returns.
AnswerCall(ok) == starter' = [starter EXCEPT !.at = "done", !.ok = ok]

AtStart(place) ==
  /\ starter # NoStart /\ starter.at = place
  /\ UNCHANGED <<window, sample, checkout>>

Connected == Goto(IF starter.pull THEN "pull" ELSE "look")

ConnectRuntime ==
  /\ AtStart("connect")
  /\ \/ engine.daemon = "on" /\ Connected /\ UNCHANGED engine
     \/ engine.daemon # "on" /\ AnswerCall(FALSE) /\ UNCHANGED engine
     \/ /\ engine.daemon \in {"off", "booting"} /\ Goto("waiting")
        /\ engine' = [engine EXCEPT !.daemon = "booting"]
  /\ NoSetback

\* Up to 20 looks at the daemon, five seconds apart.
AwaitRuntime ==
  /\ AtStart("waiting")
  /\ IF starter.tries = MaxWaits THEN AnswerCall(FALSE)
     ELSE IF engine.daemon = "on" THEN Connected ELSE Again
  /\ NoSetback /\ UNCHANGED engine

\* pull_images: failures, timeouts and exceptions are tried again; a pull that
\* keeps failing is a warning: compose up will take the cached image or download it.
Pull ==
  /\ AtStart("pull")
  /\ \/ Goto("look") /\ NoSetback
     \/ (IF starter.tries + 1 < MaxWaits THEN Again ELSE Goto("look")) /\ Setback
  /\ UNCHANGED engine

\* Whether running containers are left as they are.
MutLeftAlone == Running
LeftAlone == Running /\ ~starter.pull

Look ==
  /\ AtStart("look")
  /\ IF LeftAlone THEN AnswerCall(TRUE) ELSE Goto("up")
  /\ NoSetback /\ UNCHANGED engine

\* docker compose up -d [--force-recreate]: what is to be replaced stops first.
Replace ==
  /\ AtStart("up") /\ engine.daemon = "on"
  /\ Goto("create") /\ NoSetback
  /\ engine' = IF starter.pull \/ engine.image # Wanted THEN Down(engine) ELSE engine

Create ==
  /\ AtStart("create") /\ engine.daemon = "on"
  /\ Goto("healthy") /\ NoSetback
  /\ engine' = Up(engine, Wanted)

\* Every way out of a compose command that failed: its return code, the
\* timeout of the command, any other exception.
MutRaised == Goto("lost")
Raised == AnswerCall(FALSE)
ComposeFails ==
  /\ AtStart("up") \/ AtStart("create")
  /\ \/ engine.daemon # "on" /\ NoSetback
     \/ Setback
  /\ Raised /\ UNCHANGED engine

\* 18 looks at the containers, which must have been up for three of them.
AwaitContainers ==
  /\ AtStart("healthy")
  /\ IF starter.tries < MaxWaits
     THEN IF Running /\ starter.tries > 0 THEN AnswerCall(TRUE) ELSE Again
     ELSE AnswerCall(DbRunning)
  /\ NoSetback /\ UNCHANGED engine

StartStep == ConnectRuntime \/ AwaitRuntime \/ Pull \/ Look \/ Replace \/ Create
             \/ ComposeFails \/ AwaitContainers

\* docker_start_finished, or the return to the Settings tab.
StartFinished ==
  /\ starter # NoStart /\ starter.at = "done" /\ window.open
  /\ starter' = NoStart
  /\ UNCHANGED <<engine, window, sample, checkout, setbacks>>

-----------------------------------------------------------------------------
\* The main window.

UiBusy == starter # NoStart /\ starter.by = "ui"
Busy == starter # NoStart \/ window.asks # {}

OpenWindow ==
  /\ ~window.open /\ ~window.aborted
  /\ \E remote \in BOOLEAN, override \in {1, OwnImage} :
       window' = [ClosedWindow EXCEPT !.open = TRUE, !.client = checkout,
                                      !.override = override, !.remote = remote]
  /\ UNCHANGED <<engine, starter, sample, checkout, setbacks>>

\* closeEvent waits for the health worker; what it emitted is not handled.
Shut ==
  /\ window.open /\ ~Busy
  /\ window' = ClosedWindow /\ sample' = NoSample
  /\ UNCHANGED <<engine, starter, checkout, setbacks>>

\* _start_docker_internal keeps the worker in one attribute: a second start drops
\* the only reference to the running thread, and Qt aborts the process.
Begin(w, by, pull) ==
  IF starter = NoStart
  THEN window' = w /\ starter' = StartCall(by, pull) /\ UNCHANGED sample
  ELSE window' = [ClosedWindow EXCEPT !.aborted = TRUE]
       /\ starter' = NoStart /\ sample' = NoSample

\* on_api_ready: true when the backend is older than the app, in local mode.
Outdated(w) == ~w.remote /\ engine.app /\ engine.image < w.client
LoadFlagged(w) == [w EXCEPT !.loadDone = TRUE]
\* _register_client and the loads of the tabs: each failure is only logged.
Loaded(w) == [w EXCEPT !.loaded = TRUE]

\* The second half of on_health_status_updated, after a question has been answered.
ApiPart(w, api) ==
  IF api # "healthy" \/ w.loadDone THEN w
  ELSE IF Outdated(w) THEN [LoadFlagged(w) EXCEPT !.asks = @ \cup {"update"}]
  ELSE Loaded(LoadFlagged(w))

\* HealthCheckWorker.run: one sample every three seconds; the exception handler
\* reports everything as down.
Poll ==
  /\ window.open /\ sample = NoSample
  /\ \/ /\ sample' = [db |-> window.remote \/ DbRunning,
                      api |-> IF window.remote THEN "healthy" ELSE engine.api]
        /\ NoSetback
     \/ sample' = [db |-> window.remote, api |-> "unhealthy"] /\ Setback
  /\ UNCHANGED <<engine, window, starter, checkout>>

HealthStatusUpdated ==
  /\ window.open /\ sample # NoSample /\ ~UiBusy
  /\ sample' = NoSample
  /\ window' = IF ~window.remote /\ ~sample.db /\ ~window.prompted
               THEN [window EXCEPT !.prompted = TRUE, !.asks = @ \cup {"start"},
                                   !.rest = sample.api]
               ELSE ApiPart(window, sample.api)
  /\ UNCHANGED <<engine, starter, checkout, setbacks>>

\* "Start Containers?": whatever the answer, the rest of the handler follows.
AnswerStart ==
  /\ "start" \in window.asks /\ ~UiBusy
  /\ LET w == ApiPart([window EXCEPT !.asks = @ \ {"start"}, !.rest = "none"], window.rest) IN
     \/ Begin(w, "worker", FALSE)
     \/ window' = w /\ UNCHANGED <<starter, sample>>
  /\ UNCHANGED <<engine, checkout, setbacks>>

\* "Backend Update Available": yes starts the update and returns, no goes on loading.
AnswerUpdate ==
  /\ "update" \in window.asks /\ ~UiBusy
  /\ LET w == [window EXCEPT !.asks = @ \ {"update"}] IN
     \/ Begin([w EXCEPT !.accepted = TRUE], "worker", TRUE)
     \/ window' = Loaded(w) /\ UNCHANGED <<starter, sample>>
  /\ UNCHANGED <<engine, checkout, setbacks>>

\* toggle_docker, the update button.
PressStart ==
  /\ window.open /\ ~Busy /\ ~window.remote
  /\ \/ ~Running /\ Begin(window, "worker", FALSE)
     \/ ~DbRunning /\ Begin(window, "worker", TRUE)
  /\ UNCHANGED <<engine, checkout, setbacks>>

\* stop_docker; the first half of restart_containers.
TakenDown(then) ==
  \/ engine.daemon = "on" /\ engine' = Down(engine) /\ NoSetback /\ then
  \/ Setback /\ UNCHANGED <<engine, starter, window, sample>>

PressStop ==
  /\ window.open /\ ~Busy /\ ~window.remote /\ Running
  /\ TakenDown(UNCHANGED <<starter, window, sample>>) /\ UNCHANGED checkout

\* SettingsTab.restart_containers, update_backend (git pull, then a forced start).
Restart ==
  /\ window.open /\ ~Busy
  /\ TakenDown(Begin(window, "ui", FALSE)) /\ UNCHANGED checkout

UpdateEverything ==
  /\ window.open /\ ~Busy
  /\ checkout' \in {checkout, LastVersion}
  /\ Begin(window, "ui", TRUE)
  /\ UNCHANGED <<engine, setbacks>>

\* _on_backend_settings_changed.
ChangeMode ==
  /\ window.open /\ ~Busy /\ Setback
  /\ window' = [window EXCEPT !.remote = ~@]
  /\ UNCHANGED <<engine, starter, sample, checkout>>

BackendNext ==
  \/ RuntimeComesUp \/ DaemonStops \/ AppExits \/ ApiProgresses
  \/ StartStep \/ StartFinished
  \/ OpenWindow \/ Shut \/ Poll \/ HealthStatusUpdated \/ AnswerStart \/ AnswerUpdate
  \/ PressStart \/ PressStop \/ Restart \/ UpdateEverything \/ ChangeMode

BackendSpec == BackendInit /\ [][BackendNext]_backendVars

\* Threads and the event loop run; the user and the machine owe nothing.
BackendFairness ==
  /\ WF_backendVars(StartStep) /\ WF_backendVars(StartFinished)
  /\ WF_backendVars(Poll) /\ WF_backendVars(HealthStatusUpdated)

-----------------------------------------------------------------------------
\* The variables have their types.
BackendTypeOK ==
  /\ engine.daemon \in {"missing", "off", "booting", "on"}
  /\ engine.image \in Images \cup {0}
  /\ engine.api \in {"unreachable", "initializing", "healthy"}
  /\ engine.app => engine.image # 0
  /\ window.asks \subseteq {"start", "update"} /\ window.client \in Versions \cup {0}
  /\ window.loaded => window.loadDone
  /\ starter # NoStart => starter.tries \in 0 .. MaxWaits
  /\ checkout \in Versions /\ setbacks \in 0 .. MaxSetbacks

\* A forced start that reports success leaves the image of this version of the
\* app running, or the image of no release that the user named, unless the app
\* has since exited: also when the containers of an older version were running,
\* when the pull failed and when APP_IMAGE still names an older release
\* (start_containers, _resolve_app_image, docker_manager.py).
UpdateTakesEffect ==
  starter # NoStart /\ starter.at = "done" /\ starter.ok /\ starter.pull /\ engine.app
    => engine.image \in {window.client, OwnImage}

\* The progress dialog has no cancel button: whatever fails on the way, and
\* however often, start_containers answers and the dialog closes.
StartIsAnswered == starter # NoStart ~> starter = NoStart
=============================================================================
