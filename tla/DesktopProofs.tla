--------------------------- MODULE DesktopProofs ----------------------------
(***************************************************************************)
(* Proofs about the programs of a user's machine: the installer, the       *)
(* window that runs the containers, the dialog that narrows a search, the  *)
(* uploads and the setup wizard.                                           *)
(***************************************************************************)
EXTENDS MCDesktop, FiniteSetTheorems, SequenceTheorems, WellFoundedInduction, TLAPS

-----------------------------------------------------------------------------
(***************************************************************************)
(* The installer: an installation that says it is complete is whole,       *)
(* wherever the runs that led to it began. What a step is reached with is  *)
(* what the steps before it brought, and what is kept for a restart says   *)
(* where it may go on.                                                     *)
(***************************************************************************)

Tools == {"python", "git", "wsl", "runtime"}
GuiStates ==
  [window : {"closed", "ready", "running", "failed", "reboot", "virtualization", "done"},
   step : 0 .. 8, reboot : BOOLEAN, version : Releases \cup {NoTag},
   image : Releases \cup {Custom, NoTag}, asked : BOOLEAN]
Memos == [from : {4, 5}, version : Releases, fresh : BOOLEAN]

PlaceTypes ==
  /\ machine \subseteq Tools /\ booted \subseteq machine
  /\ up \in BOOLEAN /\ virtual \in BOOLEAN /\ (up => "runtime" \in booted)
  /\ repo \in Releases \cup {NoTag} /\ venv \in {"none", "torn", "ok"}
  /\ images \subseteq Releases \cup {Custom}
  /\ memo \in Memos \cup {NoState}

InstallerTypes == PlaceTypes /\ gui \in GuiStates

\* What is there when a run is about to take a step, wherever it began.
Reached(n) ==
  /\ n > 2 => "python" \in machine
  /\ n > 3 => "git" \in machine
  /\ n > 4 => "runtime" \in machine
  /\ n > 6 => repo = gui.version /\ venv # "none"
  /\ n > 7 => gui.image \in images

\* The image is of the program's version, or the one a developer asked for.
RightImage(g) ==
  /\ g.version \in Releases /\ g.image \in {g.version, Custom}
  /\ g.image = Custom => g.asked

\* What is there when the file that resumes a run was written.
MemoKept ==
  memo # NoState =>
    {"python", "git"} \subseteq machine /\ (memo.from = 5 => "runtime" \in machine)

GuiKept ==
  /\ gui.window # "closed" => RightImage(gui)
  /\ gui.window = "running" => gui.step \in Steps /\ Reached(gui.step)
  /\ gui.window = "done" => Reached(8)

InstallerInv == InstallerTypes /\ GuiKept /\ MemoKept

\* A window that is not open.
LEMMA InstallerClosedTyped == Closed \in GuiStates /\ Closed.window = "closed"
  BY DEF Closed, GuiStates

\* The image is of the version, unless a developer set another.
LEMMA ImageIsRight ==
  ASSUME NEW v \in Releases, NEW process \in Releases \cup {Custom, NoTag},
         NEW registry \in Releases \cup {Custom, NoTag}
  PROVE  LET i == ImageOf(v, process, registry)
         IN  i \in {v, Custom} /\ (i = Custom => process = Custom)
  BY InstallerAssumption DEF ImageOf

\* No step uninstalls anything.
LEMMA MemoStays ==
  ASSUME InstallerInv, machine \subseteq machine', memo' \in {NoState, memo}
  PROVE  MemoKept' /\ memo' \in Memos \cup {NoState}
  BY DEF InstallerInv, InstallerTypes, PlaceTypes, MemoKept

\* The window is closed, whatever else happens.
LEMMA ClosedSteps ==
  ASSUME InstallerInv, gui' = Closed, InstallerTypes', UNCHANGED machine,
         memo' \in {NoState, memo}
  PROVE  InstallerInv'
<1>1. MemoKept'
  BY MemoStays
<1>2. GuiKept'
  BY InstallerClosedTyped DEF GuiKept
<1> QED BY <1>1, <1>2 DEF InstallerInv

\* Steps of the computer beside the window.
LEMMA OutsideSteps ==
  ASSUME InstallerInv, InstallerTypes', MemoKept',
         UNCHANGED <<machine, repo, venv, images, gui>>
  PROVE  InstallerInv'
  BY DEF InstallerInv, GuiKept, Reached, RightImage

\* The window opens and chooses version and image.
LEMMA Opening ==
  ASSUME InstallerInv, NEW v \in Releases, Open(v)
  PROVE  InstallerInv'
<1>1. PICK process \in Releases \cup {Custom, NoTag}, registry \in Releases \cup {Custom, NoTag} :
        gui' = [Closed EXCEPT !.window = "ready", !.version = v,
                  !.image = ImageOf(v, process, registry), !.asked = process = Custom]
  BY DEF Open
<1> DEFINE i == ImageOf(v, process, registry)
           a == process = Custom
<1>2. i \in {v, Custom} /\ (i = Custom => a) /\ a \in BOOLEAN
  BY ImageIsRight
<1>3. gui' = [window |-> "ready", step |-> 0, reboot |-> FALSE, version |-> v,
              image |-> i, asked |-> a]
  BY <1>1 DEF Closed
<1> HIDE DEF i, a
<1>4. gui' \in GuiStates /\ gui'.window = "ready" /\ RightImage(gui')
  BY <1>2, <1>3 DEF GuiStates, RightImage
<1>5. MemoKept' /\ InstallerTypes'
  BY <1>4, MemoStays DEF Open, ClearState, OnMachine, InstallerInv, InstallerTypes, PlaceTypes
<1> QED BY <1>4, <1>5 DEF InstallerInv, GuiKept

\* A run begins where what the file says is there allows it to.
LEMMA InstallerRuns ==
  ASSUME InstallerInv, Install
  PROVE  InstallerInv'
<1>0. ResumesAt \in Steps /\ Reached(ResumesAt)
  BY DEF ResumesAt, Fits, Reached, Memos, Steps, InstallerInv, InstallerTypes, PlaceTypes, MemoKept
<1>1. PICK n \in Steps : n = ResumesAt /\ Reached(n)
  BY <1>0
<1> DEFINE g == [gui EXCEPT !.window = "running"]
<1>2. /\ g \in GuiStates /\ g.window = "running"
      /\ g.version = gui.version /\ g.image = gui.image /\ g.asked = gui.asked
  BY DEF GuiStates, InstallerInv, InstallerTypes, PlaceTypes
<1>3. gui' = [g EXCEPT !.step = n]
  BY <1>1 DEF Install
<1> HIDE DEF g
<1>4. /\ gui' \in GuiStates /\ gui'.window = "running" /\ gui'.step = n
      /\ gui'.version = gui.version /\ gui'.image = gui.image /\ gui'.asked = gui.asked
  BY <1>1, <1>2, <1>3 DEF GuiStates, Steps
<1>5. UNCHANGED OnMachine /\ memo' \in {NoState, memo}
  BY DEF Install, LoadState, ClearState
<1>6. MemoKept' /\ InstallerTypes'
  BY <1>4, <1>5, MemoStays DEF OnMachine, InstallerInv, InstallerTypes, PlaceTypes
<1>7. RightImage(gui') /\ Reached(n)'
  BY <1>1, <1>4, <1>5
     DEF Install, RightImage, Reached, OnMachine, InstallerInv, GuiKept
<1> QED BY <1>1, <1>4, <1>6, <1>7 DEF InstallerInv, GuiKept

\* What the user and the machine do between runs.
LEMMA BetweenRuns ==
  ASSUME InstallerInv,
         \/ StartFresh \/ Close \/ Reboot \/ EnableVirtualization \/ DayPasses
         \/ RuntimeStarts \/ RuntimeStops \/ CloseDone
  PROVE  InstallerInv'
<1>1. CASE StartFresh
  <2>1. InstallerTypes' /\ MemoKept'
    BY <1>1, MemoStays
       DEF StartFresh, ClearState, OnMachine, InstallerInv, InstallerTypes, PlaceTypes
  <2> QED BY <1>1, <2>1, OutsideSteps DEF StartFresh, OnMachine
<1>2. CASE Close
  <2>1. /\ repo' \in Releases \cup {NoTag} /\ venv' \in {"none", "torn", "ok"}
        /\ memo' \in {NoState, memo}
    BY <1>2 DEF Close, InDirectory, InstallerInv, InstallerTypes, PlaceTypes, GuiKept, Working,
                RightImage
  <2>2. InstallerTypes'
    BY <1>2, <2>1, InstallerClosedTyped DEF Close, InstallerInv, InstallerTypes, PlaceTypes
  <2> QED BY <1>2, <2>1, <2>2, ClosedSteps DEF Close
<1>3. CASE Reboot
  <2>1. InstallerTypes'
    BY <1>3, InstallerClosedTyped DEF Reboot, InstallerInv, InstallerTypes, PlaceTypes
  <2> QED BY <1>3, <2>1, ClosedSteps DEF Reboot
<1>4. CASE EnableVirtualization
  <2>1. InstallerTypes'
    BY <1>4, InstallerClosedTyped DEF EnableVirtualization, InstallerInv, InstallerTypes, PlaceTypes
  <2> QED BY <1>4, <2>1, ClosedSteps DEF EnableVirtualization
<1>5. CASE DayPasses
  <2>1. memo' \in Memos /\ memo'.from = memo.from
    BY <1>5 DEF DayPasses, Memos, InstallerInv, InstallerTypes, PlaceTypes
  <2>2. InstallerTypes' /\ MemoKept'
    BY <1>5, <2>1 DEF DayPasses, OnMachine, InstallerInv, InstallerTypes, PlaceTypes, MemoKept
  <2> QED BY <1>5, <2>2, OutsideSteps DEF DayPasses, OnMachine
<1>6. CASE RuntimeStarts \/ RuntimeStops
  <2>1. InstallerTypes' /\ MemoKept'
    BY <1>6, MemoStays DEF RuntimeStarts, RuntimeStops, InstallerInv, InstallerTypes, PlaceTypes
  <2> QED BY <1>6, <2>1, OutsideSteps DEF RuntimeStarts, RuntimeStops
<1>7. CASE CloseDone
  <2>1. InstallerTypes'
    BY <1>7, InstallerClosedTyped DEF CloseDone, OnMachine, InstallerInv, InstallerTypes, PlaceTypes
  <2> QED BY <1>7, <2>1, ClosedSteps DEF CloseDone, OnMachine
<1> QED BY <1>1, <1>2, <1>3, <1>4, <1>5, <1>6, <1>7

-----------------------------------------------------------------------------
\* A run goes on to the next step once what that step builds on is there.
LEMMA ToNextStep ==
  ASSUME InstallerInv, NEW n \in 1 .. 7, Working(n), NextStep,
         PlaceTypes', machine \subseteq machine', memo' \in {NoState, memo}, Reached(n + 1)'
  PROVE  InstallerInv'
<1>1. gui \in GuiStates /\ gui.step = n /\ gui.window = "running" /\ n + 1 \in Steps
  BY DEF Working, InstallerInv, InstallerTypes, PlaceTypes, Steps
<1>2. /\ gui' \in GuiStates /\ gui'.step = n + 1 /\ gui'.window = "running"
      /\ gui'.version = gui.version /\ gui'.image = gui.image /\ gui'.asked = gui.asked
  BY <1>1 DEF NextStep, GuiStates, Steps
<1>3. RightImage(gui')
  BY <1>1, <1>2 DEF InstallerInv, GuiKept, RightImage
<1>4. MemoKept'
  BY MemoStays
<1>5. InstallerTypes'
  BY <1>2 DEF InstallerTypes, PlaceTypes
<1>6. GuiKept'
  BY <1>1, <1>2, <1>3 DEF GuiKept
<1> QED BY <1>4, <1>5, <1>6 DEF InstallerInv

\* A run ends with a failure or a question.
LEMMA Stopping ==
  ASSUME InstallerInv, NEW w \in {"failed", "virtualization"}, NEW s \in 0 .. 8,
         gui' = [gui EXCEPT !.window = w, !.step = s], gui.window = "running",
         UNCHANGED OnMachine, memo' \in {NoState, memo}
  PROVE  InstallerInv'
<1> DEFINE g == [gui EXCEPT !.window = w]
<1>1. /\ g \in GuiStates /\ g.window = w
      /\ g.version = gui.version /\ g.image = gui.image /\ g.asked = gui.asked
  BY DEF GuiStates, InstallerInv, InstallerTypes, PlaceTypes
<1>2. gui' = [g EXCEPT !.step = s]
  OBVIOUS
<1> HIDE DEF g
<1>3. /\ gui' \in GuiStates /\ gui'.window = w
      /\ gui'.version = gui.version /\ gui'.image = gui.image /\ gui'.asked = gui.asked
  BY <1>1, <1>2 DEF GuiStates
<1>4. RightImage(gui')
  BY <1>3 DEF InstallerInv, GuiKept, RightImage
<1>5. MemoKept' /\ InstallerTypes'
  BY <1>3, MemoStays DEF OnMachine, InstallerInv, InstallerTypes, PlaceTypes
<1> QED BY <1>3, <1>4, <1>5 DEF InstallerInv, GuiKept

\* A run asks for a restart, after which it goes on with step 4 or 5.
LEMMA Restarting ==
  ASSUME InstallerInv, NEW from \in {4, 5}, RequestReboot(from), gui.window = "running",
         machine \subseteq machine', machine' \subseteq Tools,
         {"python", "git"} \subseteq machine', from = 5 => "runtime" \in machine',
         UNCHANGED <<booted, up, virtual, repo, venv, images>>
  PROVE  InstallerInv'
<1> DEFINE g == [gui EXCEPT !.reboot = TRUE]
<1>1. /\ g \in GuiStates
      /\ g.version = gui.version /\ g.image = gui.image /\ g.asked = gui.asked
  BY DEF GuiStates, InstallerInv, InstallerTypes, PlaceTypes
<1>2. gui' = [g EXCEPT !.window = "reboot"]
  BY DEF RequestReboot
<1> HIDE DEF g
<1>3. /\ gui' \in GuiStates /\ gui'.window = "reboot"
      /\ gui'.version = gui.version /\ gui'.image = gui.image /\ gui'.asked = gui.asked
  BY <1>1, <1>2 DEF GuiStates
<1>4. RightImage(gui') /\ gui.version \in Releases
  BY <1>3 DEF InstallerInv, GuiKept, RightImage
<1>5. memo' \in Memos /\ memo'.from = from
  BY <1>4 DEF RequestReboot, Memos
<1>6. InstallerTypes'
  BY <1>3, <1>5 DEF InstallerInv, InstallerTypes, PlaceTypes
<1> QED BY <1>3, <1>4, <1>5, <1>6 DEF InstallerInv, GuiKept, MemoKept

\* A step that succeeds has brought what the next ones count on.
LEMMA Advancing ==
  ASSUME InstallerInv, NEW n \in Steps, Advance(n)
  PROVE  InstallerInv'
<1>1. InstallerTypes /\ RightImage(gui) /\ gui.window = "running" /\ gui.step = n /\ Reached(n)
  BY DEF Advance, Working, InstallerInv, GuiKept, CheckSystem, InstallTool, FindRuntime,
         InstallWsl, InstallRuntime, RuntimeReady, SetupApplication, PullImages, UseLocalImages,
         Finalize
<1>2. ASSUME NextStep
      PROVE  gui'.version = gui.version /\ gui'.image = gui.image
  BY <1>1, <1>2 DEF NextStep, InstallerTypes, PlaceTypes, GuiStates
<1>3. CASE n = 1 /\ CheckSystem
  <2>1. /\ PlaceTypes' /\ machine \subseteq machine' /\ memo' \in {NoState, memo}
        /\ Working(1) /\ NextStep /\ Reached(2)'
    BY <1>1, <1>3 DEF CheckSystem, OnMachine, Reached, InstallerTypes, PlaceTypes, Tools
  <2> QED BY <2>1, ToNextStep
<1>4. CASE n = 2 /\ InstallTool(2, "python")
  <2>1. /\ PlaceTypes' /\ machine \subseteq machine' /\ memo' \in {NoState, memo}
        /\ Working(2) /\ NextStep /\ Reached(3)'
    BY <1>1, <1>4 DEF InstallTool, Reached, InstallerTypes, PlaceTypes, Tools
  <2> QED BY <2>1, ToNextStep
<1>5. CASE n = 3 /\ InstallTool(3, "git")
  <2>1. /\ PlaceTypes' /\ machine \subseteq machine' /\ memo' \in {NoState, memo}
        /\ Working(3) /\ NextStep /\ Reached(4)'
    BY <1>1, <1>5 DEF InstallTool, Reached, InstallerTypes, PlaceTypes, Tools
  <2> QED BY <2>1, ToNextStep
<1>6. CASE n = 4 /\ FindRuntime
  <2>1. /\ PlaceTypes' /\ machine \subseteq machine' /\ memo' \in {NoState, memo}
        /\ Working(4) /\ NextStep /\ Reached(5)'
    BY <1>1, <1>6
       DEF FindRuntime, RuntimeThere, OnMachine, Reached, InstallerTypes, PlaceTypes, Tools
  <2> QED BY <2>1, ToNextStep
<1>7. CASE n = 4 /\ InstallWsl
  <2>1. /\ RequestReboot(4) /\ machine \subseteq machine' /\ machine' \subseteq Tools
        /\ {"python", "git"} \subseteq machine'
        /\ UNCHANGED <<booted, up, virtual, repo, venv, images>>
    BY <1>1, <1>7 DEF InstallWsl, WslResume, Reached, InstallerTypes, PlaceTypes, Tools
  <2> QED BY <1>1, <2>1, Restarting
<1>8. CASE n = 4 /\ InstallRuntime
  <2>1. /\ RequestReboot(5) /\ machine \subseteq machine' /\ machine' \subseteq Tools
        /\ {"python", "git"} \subseteq machine' /\ "runtime" \in machine'
        /\ UNCHANGED <<booted, up, virtual, repo, venv, images>>
    BY <1>1, <1>8 DEF InstallRuntime, Reached, InstallerTypes, PlaceTypes, Tools
  <2> QED BY <1>1, <2>1, Restarting
<1>9. CASE n = 5 /\ RuntimeReady
  <2>1. /\ PlaceTypes' /\ machine \subseteq machine' /\ memo' \in {NoState, memo}
        /\ Working(5) /\ NextStep /\ Reached(6)'
    BY <1>1, <1>9 DEF RuntimeReady, Reached, InstallerTypes, PlaceTypes, Tools
  <2> QED BY <2>1, ToNextStep
<1>10. CASE n = 6 /\ SetupApplication
  <2>1. /\ PlaceTypes' /\ machine \subseteq machine' /\ memo' \in {NoState, memo}
        /\ Working(6) /\ NextStep /\ Reached(7)'
    BY <1>1, <1>2, <1>10
       DEF SetupApplication, InDirectory, RightImage, Reached, InstallerTypes, PlaceTypes, Tools
  <2> QED BY <2>1, ToNextStep
<1>11. CASE n = 7 /\ PullImages
  <2>1. /\ PlaceTypes' /\ machine \subseteq machine' /\ memo' \in {NoState, memo}
        /\ Working(7) /\ NextStep /\ Reached(8)'
    BY <1>1, <1>2, <1>11 DEF PullImages, RightImage, Reached, InstallerTypes, PlaceTypes, Tools
  <2> QED BY <2>1, ToNextStep
<1>12. CASE n = 7 /\ UseLocalImages
  <2>1. /\ PlaceTypes' /\ machine \subseteq machine' /\ memo' \in {NoState, memo}
        /\ Working(7) /\ NextStep /\ Reached(8)'
    BY <1>1, <1>2, <1>12
       DEF UseLocalImages, LocalImage, OnMachine, Reached, InstallerTypes, PlaceTypes, Tools
  <2> QED BY <2>1, ToNextStep
<1>13. CASE n = 8 /\ Finalize
  <2> DEFINE g == [gui EXCEPT !.window = "done"]
  <2>1. /\ g \in GuiStates /\ g.window = "done"
        /\ g.version = gui.version /\ g.image = gui.image /\ g.asked = gui.asked
    BY <1>1 DEF GuiStates, InstallerTypes
  <2>2. gui' = [g EXCEPT !.step = 0]
    BY <1>13 DEF Finalize
  <2> HIDE DEF g
  <2>3. /\ gui' \in GuiStates /\ gui'.window = "done"
        /\ gui'.version = gui.version /\ gui'.image = gui.image /\ gui'.asked = gui.asked
    BY <2>1, <2>2 DEF GuiStates
  <2>4. RightImage(gui') /\ Reached(8)'
    BY <1>1, <1>13, <2>3 DEF RightImage, Reached, Finalize, OnMachine
  <2>5. InstallerTypes' /\ MemoKept'
    BY <1>13, <2>3, MemoStays DEF Finalize, OnMachine, ClearState, InstallerInv,
           InstallerTypes, PlaceTypes
  <2> QED BY <2>3, <2>4, <2>5 DEF InstallerInv, GuiKept
<1> QED BY <1>3, <1>4, <1>5, <1>6, <1>7, <1>8, <1>9, <1>10, <1>11, <1>12, <1>13 DEF Advance

\* A step that fails stops the run.
LEMMA GivingUp ==
  ASSUME InstallerInv, NoVirtualization \/ StepFails \/ CloneFails \/ RuntimeNotReady
  PROVE  InstallerInv'
<1>1. InstallerTypes /\ gui \in GuiStates /\ gui.window = "running" /\ Reached(gui.step)
  BY DEF NoVirtualization, StepFails, CloneFails, RuntimeNotReady, Working, InstallerInv,
         GuiKept, InstallerTypes, PlaceTypes
<1>2. CASE NoVirtualization
  <2>1. gui' = [gui EXCEPT !.window = "virtualization", !.step = gui.step] /\ gui.step \in 0 .. 8
    BY <1>1, <1>2 DEF NoVirtualization, GuiStates
  <2> QED BY <1>1, <1>2, <2>1, Stopping DEF NoVirtualization
<1>3. CASE StepFails
  BY <1>1, <1>3, Stopping DEF StepFails, Fail
<1>4. CASE CloneFails
  BY <1>1, <1>4, Stopping DEF CloneFails, Fail, InDirectory
<1>5. CASE RuntimeNotReady
  BY <1>1, <1>5, Restarting
     DEF RuntimeNotReady, Working, Reached, OnMachine, InstallerTypes, PlaceTypes
<1> QED BY <1>2, <1>3, <1>4, <1>5

\* The invariant holds.
LEMMA InstallerInvHolds == InstallerSpec => []InstallerInv
<1>1. InstallerInit => InstallerInv
  BY InstallerClosedTyped
     DEF InstallerInit, InstallerInv, InstallerTypes, PlaceTypes, GuiKept, MemoKept, Tools
<1>2. InstallerInv /\ [InstallerNext]_installerVars => InstallerInv'
  <2> SUFFICES ASSUME InstallerInv, [InstallerNext]_installerVars PROVE InstallerInv'
    OBVIOUS
  <2>1. CASE UNCHANGED installerVars
    BY <2>1
       DEF installerVars, InstallerInv, InstallerTypes, PlaceTypes, GuiKept, MemoKept, Reached,
           RightImage
  <2>2. CASE InstallerNext
    BY <2>2, Opening, InstallerRuns, BetweenRuns, Advancing, GivingUp DEF InstallerNext
  <2> QED BY <2>1, <2>2
<1> QED BY <1>1, <1>2, PTL DEF InstallerSpec

\* Machine, checkout, images, resume file and window of the installer keep their shape
\* over any number of runs, restarts and mishaps (installer_logic.py).
THEOREM InstallerTyped == InstallerSpec => []InstallerTypeOK
<1>1. InstallerInv => InstallerTypeOK
  BY DEF InstallerInv, InstallerTypes, PlaceTypes, InstallerTypeOK, GuiKept, GuiStates, Memos,
         Tools, Steps
<1> QED BY <1>1, InstallerInvHolds, PTL

\* For any releases and any number of mishaps, restarts and runs that begin in the
\* middle: an installation that says it is complete is whole (run of installer_logic.py
\* and its resume file).
THEOREM CompleteIsWholeHolds == InstallerSpec => []CompleteIsWhole
<1>1. InstallerInv => CompleteIsWhole
  BY DEF InstallerInv, GuiKept, CompleteIsWhole, Reached, RightImage
<1> QED BY <1>1, InstallerInvHolds, PTL

-----------------------------------------------------------------------------
(***************************************************************************)
(* The containers: a forced start that reports success leaves the image    *)
(* that was wanted, as nothing but the start itself makes a container      *)
(* while it is under way.                                                  *)
(***************************************************************************)

EngineStates ==
  [daemon : {"missing", "off", "booting", "on"}, db : BOOLEAN, app : BOOLEAN,
   image : Images \cup {0}, api : {"unreachable", "initializing", "healthy"}]
ApiAnswers == {"none", "unreachable", "initializing", "healthy", "unhealthy"}
WindowStates ==
  [open : BOOLEAN, client : Versions \cup {0}, override : {1, OwnImage}, remote : BOOLEAN,
   loadDone : BOOLEAN, loaded : BOOLEAN, prompted : BOOLEAN, asks : SUBSET {"start", "update"},
   rest : ApiAnswers, accepted : BOOLEAN, aborted : BOOLEAN]
Places == {"connect", "waiting", "pull", "look", "up", "create", "healthy", "done"}
StartStates ==
  [by : {"worker", "ui"}, pull : BOOLEAN, at : Places, tries : 0 .. MaxWaits, ok : BOOLEAN]
Samples == [db : BOOLEAN, api : ApiAnswers]

EngineOK(e) == e \in EngineStates /\ (e.app => e.image # 0)

\* The question about an update comes once the tabs may load, and only an open
\* window asks.
WindowOK(w) ==
  /\ w \in WindowStates
  /\ w.loaded => w.loadDone
  /\ "update" \in w.asks => w.loadDone
  /\ w.open => w.client \in Versions
  /\ w.asks # {} => w.open

\* From the moment the containers are created until the start is answered, a
\* container of a forced start has the image that was wanted.
PullKept(s, e, w) ==
  s # NoStart /\ s.pull /\ (s.at = "healthy" \/ (s.at = "done" /\ s.ok)) /\ e.app
    => e.image \in {w.client, OwnImage}

BackendInv ==
  /\ EngineOK(engine) /\ WindowOK(window)
  /\ starter \in StartStates \cup {NoStart} /\ (starter # NoStart => window.open)
  /\ sample \in Samples \cup {NoSample}
  /\ checkout \in Versions /\ setbacks \in 0 .. MaxSetbacks
  /\ PullKept(starter, engine, window)

\* Setbacks are counted up to their bound.
LEMMA SetbackTyped ==
  ASSUME setbacks \in 0 .. MaxSetbacks, Setback \/ NoSetback
  PROVE  setbacks' \in 0 .. MaxSetbacks
  BY DesktopBackendAssumption DEF Setback, NoSetback

\* No container runs after the project is taken down.
LEMMA DownTyped ==
  ASSUME NEW e, EngineOK(e)
  PROVE  EngineOK(Down(e)) /\ ~Down(e).app
  BY DEF EngineOK, Down, EngineStates

\* A step of the machine: no container starts and no image changes.
LEMMA MachineSteps ==
  ASSUME BackendInv, RuntimeComesUp \/ DaemonStops \/ AppExits \/ ApiProgresses
  PROVE  BackendInv'
<1>1. EngineOK(engine)
  BY DEF BackendInv
<1>2. EngineOK(engine') /\ engine'.image = engine.image /\ (engine'.app => engine.app)
  <2>1. CASE RuntimeComesUp
    BY <1>1, <2>1 DEF RuntimeComesUp, EngineOK, EngineStates
  <2>2. CASE DaemonStops
    <3>1. EngineOK(Down(engine)) /\ ~Down(engine).app /\ Down(engine).image = engine.image
      BY <1>1, DownTyped DEF Down, EngineOK, EngineStates
    <3> QED BY <2>2, <3>1 DEF DaemonStops, EngineOK, EngineStates
  <2>3. CASE AppExits
    BY <1>1, <2>3 DEF AppExits, EngineOK, EngineStates
  <2>4. CASE ApiProgresses
    BY <1>1, <2>4 DEF ApiProgresses, EngineOK, EngineStates
  <2> QED BY <2>1, <2>2, <2>3, <2>4
<1>3. UNCHANGED <<window, starter, sample, checkout>> /\ setbacks' \in 0 .. MaxSetbacks
  BY SetbackTyped
     DEF RuntimeComesUp, DaemonStops, AppExits, ApiProgresses, BackendInv, NoSetback
<1> QED BY <1>2, <1>3 DEF BackendInv, PullKept

\* The image a start wants is of the version of the window, or its override.
LEMMA WantedImage ==
  ASSUME WindowOK(window), window.open
  PROVE  Wanted \in Images /\ Wanted \in {window.client, OwnImage}
  BY DesktopBackendAssumption
     DEF WindowOK, WindowStates, Wanted, Stale, Images, Versions, OwnImage

\* A round of a waiting loop, and the way to the next place.
LEMMA Moves ==
  ASSUME starter \in StartStates
  PROVE  /\ \A p \in Places : [starter EXCEPT !.at = p, !.tries = 0] \in StartStates
         /\ \A ok \in BOOLEAN : [starter EXCEPT !.at = "done", !.ok = ok] \in StartStates
         /\ starter.tries < MaxWaits => [starter EXCEPT !.tries = @ + 1] \in StartStates
<1>1. ASSUME NEW p \in Places PROVE [starter EXCEPT !.at = p, !.tries = 0] \in StartStates
  <2> DEFINE s == [starter EXCEPT !.at = p]
  <2>1. s \in StartStates /\ 0 \in 0 .. MaxWaits
    BY <1>1, DesktopBackendAssumption DEF StartStates
  <2> HIDE DEF s
  <2>2. [s EXCEPT !.tries = 0] \in StartStates
    BY <2>1 DEF StartStates
  <2>3. [starter EXCEPT !.at = p, !.tries = 0] = [s EXCEPT !.tries = 0]
    BY DEF s
  <2> QED BY <2>2, <2>3
<1>2. ASSUME NEW ok \in BOOLEAN PROVE [starter EXCEPT !.at = "done", !.ok = ok] \in StartStates
  BY DEF StartStates, Places
<1>3. ASSUME starter.tries < MaxWaits PROVE [starter EXCEPT !.tries = @ + 1] \in StartStates
  BY <1>3, DesktopBackendAssumption DEF StartStates
<1> QED BY <1>1, <1>2, <1>3

\* A start goes on by a step.
LEMMA StartSteps ==
  ASSUME BackendInv, StartStep
  PROVE  BackendInv'
<1>1. /\ starter \in StartStates /\ starter # NoStart /\ window.open
      /\ UNCHANGED <<window, sample, checkout>>
      /\ starter.tries \in 0 .. MaxWaits
  BY DEF BackendInv, StartStep, ConnectRuntime, AwaitRuntime, Pull, Look, Replace, Create,
         ComposeFails, AwaitContainers, AtStart, StartStates
<1>2. setbacks' \in 0 .. MaxSetbacks
  BY SetbackTyped
     DEF BackendInv, StartStep, ConnectRuntime, AwaitRuntime, Pull, Look, Replace, Create,
         ComposeFails, AwaitContainers, NoSetback, Setback
<1>3. ASSUME NEW p \in Places, p \notin {"healthy", "done"}, EngineOK(engine'), Goto(p)
      PROVE  BackendInv'
  <2>1. starter' \in StartStates /\ starter'.at = p
    BY <1>1, <1>3, Moves DEF Goto, StartStates
  <2> QED BY <1>1, <1>2, <1>3, <2>1 DEF BackendInv, PullKept
<1>4. ASSUME starter.tries < MaxWaits, UNCHANGED engine, Again
      PROVE  BackendInv'
  <2>1. starter' \in StartStates /\ starter'.at = starter.at /\ starter'.pull = starter.pull
        /\ starter'.ok = starter.ok
    BY <1>1, <1>4, Moves DEF Again, StartStates
  <2> QED BY <1>1, <1>2, <1>4, <2>1 DEF BackendInv, PullKept
<1>5. ASSUME NEW ok \in BOOLEAN, UNCHANGED engine, AnswerCall(ok),
             ok => ~starter.pull \/ starter.at = "healthy"
      PROVE  BackendInv'
  <2>1. starter' \in StartStates /\ starter'.at = "done" /\ starter'.ok = ok
        /\ starter'.pull = starter.pull
    BY <1>1, <1>5, Moves DEF AnswerCall, StartStates
  <2> QED BY <1>1, <1>2, <1>5, <2>1 DEF BackendInv, PullKept
<1>6. ASSUME UNCHANGED engine, Connected PROVE BackendInv'
  BY <1>3, <1>6 DEF Connected, Places, BackendInv
<1>7. CASE ConnectRuntime
  <2>1. EngineOK([engine EXCEPT !.daemon = "booting"])
    BY DEF BackendInv, EngineOK, EngineStates
  <2>2. CASE engine' = [engine EXCEPT !.daemon = "booting"] /\ Goto("waiting")
    BY <1>3, <2>1, <2>2 DEF Places
  <2> QED BY <1>5, <1>6, <1>7, <2>2 DEF ConnectRuntime
<1>8. CASE AwaitRuntime
  <2>1. starter.tries # MaxWaits => starter.tries < MaxWaits
    BY <1>1, DesktopBackendAssumption
  <2> QED BY <1>4, <1>5, <1>6, <1>8, <2>1 DEF AwaitRuntime
<1>9. CASE Pull
  <2>1. starter.tries + 1 < MaxWaits => starter.tries < MaxWaits
    BY <1>1, DesktopBackendAssumption
  <2>2. EngineOK(engine') /\ UNCHANGED engine
    BY <1>9 DEF BackendInv, Pull
  <2> QED BY <1>3, <1>4, <1>9, <2>1, <2>2 DEF Pull, Places
<1>10. CASE Look
  <2>1. EngineOK(engine') /\ UNCHANGED engine
    BY <1>10 DEF BackendInv, Look
  <2> QED BY <1>3, <1>5, <1>10, <2>1 DEF Look, LeftAlone, Places
<1>11. CASE Replace
  <2>1. EngineOK(engine')
    BY <1>11, DownTyped DEF BackendInv, Replace
  <2> QED BY <1>3, <1>11, <2>1 DEF Replace, Places
<1>12. CASE Create
  <2>1. Wanted \in Images /\ Wanted \in {window.client, OwnImage}
    BY <1>1, WantedImage DEF BackendInv
  <2>2. Wanted # 0
    BY <2>1, DesktopBackendAssumption DEF Images, Versions, OwnImage
  <2>3. engine' = Up(engine, Wanted) /\ Goto("healthy")
    BY <1>12 DEF Create
  <2> HIDE DEF Wanted
  <2>4. EngineOK(engine') /\ engine'.image = Wanted
    BY <2>1, <2>2, <2>3 DEF BackendInv, EngineOK, EngineStates, Up
  <2>5. starter' \in StartStates
    BY <1>1, <2>3, Moves DEF Goto, Places
  <2> QED BY <1>1, <1>2, <2>1, <2>4, <2>5 DEF BackendInv, PullKept
<1>13. CASE ComposeFails
  BY <1>5, <1>13 DEF ComposeFails, Raised
<1>14. CASE AwaitContainers
  <2>1. starter.at = "healthy" /\ DbRunning \in BOOLEAN /\ UNCHANGED engine
    BY <1>14 DEF AwaitContainers, AtStart, DbRunning, BackendInv, EngineOK, EngineStates
  <2> HIDE DEF DbRunning
  <2> QED BY <1>4, <1>5, <1>14, <2>1 DEF AwaitContainers
<1> QED BY <1>7, <1>8, <1>9, <1>10, <1>11, <1>12, <1>13, <1>14 DEF StartStep

-----------------------------------------------------------------------------
\* A window that is not open.
LEMMA NoWindowTyped == WindowOK(ClosedWindow) /\ ~ClosedWindow.open
  BY DesktopBackendAssumption
     DEF ClosedWindow, WindowOK, WindowStates, ApiAnswers, Versions, OwnImage

\* A start begins before anything is pulled, or ends the process.
LEMMA Beginning ==
  ASSUME BackendInv, NEW w, WindowOK(w), w.open, NEW by \in {"worker", "ui"},
         NEW pull \in BOOLEAN, Begin(w, by, pull), EngineOK(engine'),
         checkout' \in Versions, setbacks' \in 0 .. MaxSetbacks
  PROVE  BackendInv'
<1>1. CASE starter = NoStart
  <2>1. starter' \in StartStates /\ starter'.at = "connect"
    <3>1. StartCall(by, pull) \in StartStates /\ StartCall(by, pull).at = "connect"
      BY DesktopBackendAssumption DEF StartCall, StartStates, Places
    <3> QED BY <1>1, <3>1 DEF Begin
  <2> QED BY <1>1, <2>1 DEF Begin, BackendInv, PullKept
<1>2. CASE starter # NoStart
  <2>1. WindowOK([ClosedWindow EXCEPT !.aborted = TRUE])
    BY NoWindowTyped DEF ClosedWindow, WindowOK, WindowStates
  <2> QED BY <1>2, <2>1 DEF Begin, BackendInv, PullKept
<1> QED BY <1>1, <1>2

\* The loads of the tabs leave the window as it is but for their flags.
LEMMA ApiPartTyped ==
  ASSUME NEW w, WindowOK(w), w.open, NEW api
  PROVE  WindowOK(ApiPart(w, api)) /\ ApiPart(w, api).open /\ ApiPart(w, api).client = w.client
  BY DEF ApiPart, Outdated, LoadFlagged, Loaded, WindowOK, WindowStates

\* A step that leaves the start alone and the version of the window, if one is in progress.
LEMMA BackendWindowSteps ==
  ASSUME BackendInv, WindowOK(window'), UNCHANGED <<engine, starter, checkout>>,
         sample' \in Samples \cup {NoSample}, setbacks' \in 0 .. MaxSetbacks,
         starter # NoStart => window'.open /\ window'.client = window.client
  PROVE  BackendInv'
  BY DEF BackendInv, PullKept

\* The poll takes a sample, and its answer is shown.
LEMMA Sampling ==
  ASSUME BackendInv, Poll \/ HealthStatusUpdated
  PROVE  BackendInv'
<1>1. WindowOK(window) /\ engine.api \in ApiAnswers
  BY DEF BackendInv, EngineOK, EngineStates, ApiAnswers
<1>2. CASE Poll
  <2>1. sample' \in Samples
    BY <1>1, <1>2
       DEF Poll, Samples, DbRunning, BackendInv, EngineOK, EngineStates, WindowOK, WindowStates,
           ApiAnswers
  <2>2. setbacks' \in 0 .. MaxSetbacks
    BY <1>2, SetbackTyped DEF Poll, BackendInv
  <2> QED BY <1>1, <1>2, <2>1, <2>2, BackendWindowSteps DEF Poll, BackendInv
<1>3. CASE HealthStatusUpdated
  <2>1. sample \in Samples /\ window.open
    BY <1>3 DEF HealthStatusUpdated, BackendInv
  <2> DEFINE asked == [window EXCEPT !.prompted = TRUE, !.asks = @ \cup {"start"},
                                     !.rest = sample.api]
  <2>2. sample.api \in ApiAnswers
    BY <2>1 DEF Samples
  <2>3. WindowOK(asked) /\ asked.open /\ asked.client = window.client
    BY <1>1, <2>1, <2>2 DEF WindowOK, WindowStates
  <2>4. window' = asked \/ window' = ApiPart(window, sample.api)
    BY <1>3 DEF HealthStatusUpdated
  <2> HIDE DEF asked
  <2>5. WindowOK(window') /\ window'.open /\ window'.client = window.client
    BY <1>1, <2>1, <2>3, <2>4, ApiPartTyped
  <2> QED BY <1>3, <2>5, BackendWindowSteps DEF HealthStatusUpdated, BackendInv
<1> QED BY <1>2, <1>3

\* The user answers a question.
LEMMA Answers ==
  ASSUME BackendInv, AnswerStart \/ AnswerUpdate
  PROVE  BackendInv'
<1>1. WindowOK(window) /\ window.open
  BY DEF BackendInv, WindowOK, AnswerStart, AnswerUpdate
<1>2. CASE AnswerStart
  <2> DEFINE v == [window EXCEPT !.asks = @ \ {"start"}, !.rest = "none"]
             w == ApiPart(v, window.rest)
  <2>1. WindowOK(v) /\ v.open /\ v.client = window.client
    BY <1>1 DEF WindowOK, WindowStates, ApiAnswers
  <2> HIDE DEF v
  <2>2. WindowOK(w) /\ w.open /\ w.client = window.client
    BY <2>1, ApiPartTyped
  <2>3. /\ UNCHANGED <<engine, checkout, setbacks>>
        /\ Begin(w, "worker", FALSE) \/ (window' = w /\ UNCHANGED <<starter, sample>>)
    BY <1>2 DEF AnswerStart, v
  <2> HIDE DEF w
  <2>4. CASE Begin(w, "worker", FALSE)
    BY <2>2, <2>3, <2>4, Beginning DEF BackendInv
  <2>5. CASE window' = w /\ UNCHANGED <<starter, sample>>
    BY <2>2, <2>3, <2>5, BackendWindowSteps DEF BackendInv
  <2> QED BY <2>3, <2>4, <2>5
<1>3. CASE AnswerUpdate
  <2> DEFINE w == [window EXCEPT !.asks = @ \ {"update"}]
             yes == [w EXCEPT !.accepted = TRUE]
             no == Loaded(w)
  <2>1. WindowOK(w) /\ w.open /\ w.client = window.client /\ w.loadDone
    BY <1>1, <1>3 DEF WindowOK, WindowStates, AnswerUpdate
  <2>2. /\ UNCHANGED <<engine, checkout, setbacks>>
        /\ Begin(yes, "worker", TRUE) \/ (window' = no /\ UNCHANGED <<starter, sample>>)
    BY <1>3 DEF AnswerUpdate
  <2> HIDE DEF w
  <2>3. WindowOK(yes) /\ yes.open
    BY <2>1 DEF WindowOK, WindowStates
  <2>4. WindowOK(no) /\ no.open /\ no.client = window.client
    BY <2>1 DEF WindowOK, WindowStates, Loaded
  <2> HIDE DEF yes, no
  <2>5. CASE Begin(yes, "worker", TRUE)
    BY <2>2, <2>3, <2>5, Beginning DEF BackendInv
  <2>6. CASE window' = no /\ UNCHANGED <<starter, sample>>
    BY <2>2, <2>4, <2>6, BackendWindowSteps DEF BackendInv
  <2> QED BY <2>2, <2>5, <2>6
<1> QED BY <1>2, <1>3

\* The user presses a button that starts, stops or updates.
LEMMA Pressing ==
  ASSUME BackendInv, PressStart \/ PressStop \/ Restart \/ UpdateEverything
  PROVE  BackendInv'
<1>1. /\ WindowOK(window) /\ window.open /\ EngineOK(engine) /\ EngineOK(Down(engine))
      /\ starter = NoStart
  BY DownTyped DEF BackendInv, PressStart, PressStop, Restart, UpdateEverything, Busy
<1>2. CASE PressStart
  BY <1>1, <1>2, Beginning DEF PressStart, BackendInv
<1>3. CASE PressStop
  BY <1>1, <1>3, SetbackTyped DEF PressStop, TakenDown, NoSetback, BackendInv, PullKept
<1>4. CASE Restart
  BY <1>1, <1>4, Beginning, SetbackTyped
     DEF Restart, TakenDown, NoSetback, BackendInv, PullKept
<1>5. CASE UpdateEverything
  <2>1. LastVersion \in Versions
    BY DesktopBackendAssumption DEF Versions
  <2> QED BY <1>1, <1>5, <2>1, Beginning DEF UpdateEverything, BackendInv
<1> QED BY <1>2, <1>3, <1>4, <1>5

\* The window opens and closes, and a start is answered.
LEMMA OpeningAndClosing ==
  ASSUME BackendInv, OpenWindow \/ Shut \/ StartFinished \/ ChangeMode
  PROVE  BackendInv'
<1>1. CASE OpenWindow
  <2>1. PICK remote \in BOOLEAN, override \in {1, OwnImage} :
          window' = [ClosedWindow EXCEPT !.open = TRUE, !.client = checkout,
                                         !.override = override, !.remote = remote]
    BY <1>1 DEF OpenWindow
  <2>2. WindowOK(window')
    BY <2>1, NoWindowTyped DEF BackendInv, ClosedWindow, WindowOK, WindowStates
  <2>3. starter = NoStart
    BY <1>1 DEF OpenWindow, BackendInv
  <2> QED BY <1>1, <2>2, <2>3, BackendWindowSteps DEF OpenWindow, BackendInv
<1>2. CASE Shut
  BY <1>2, NoWindowTyped, BackendWindowSteps DEF Shut, Busy, BackendInv
<1>3. CASE StartFinished
  BY <1>3 DEF StartFinished, BackendInv, PullKept
<1>4. CASE ChangeMode
  <2>1. WindowOK(window')
    BY <1>4 DEF ChangeMode, BackendInv, WindowOK, WindowStates
  <2> QED BY <1>4, <2>1, BackendWindowSteps, SetbackTyped DEF ChangeMode, Busy, BackendInv
<1> QED BY <1>1, <1>2, <1>3, <1>4

\* The invariant holds.
LEMMA BackendInvHolds == BackendSpec => []BackendInv
<1>1. BackendInit => BackendInv
  <2> SUFFICES ASSUME BackendInit PROVE BackendInv
    OBVIOUS
  <2>1. EngineOK(engine)
    BY DEF BackendInit, EngineOK, EngineStates
  <2> QED BY <2>1, NoWindowTyped, DesktopBackendAssumption
          DEF BackendInit, BackendInv, PullKept, Versions
<1>2. BackendInv /\ [BackendNext]_backendVars => BackendInv'
  BY MachineSteps, StartSteps, Sampling, Answers, Pressing, OpeningAndClosing
     DEF BackendNext, backendVars, BackendInv, PullKept
<1> QED BY <1>1, <1>2, PTL DEF BackendSpec

\* Containers, window, start and sample keep their shape: there is a start only in an
\* open window (docker_manager.py, main_window.py).
THEOREM BackendTyped == BackendSpec => []BackendTypeOK
<1>1. BackendInv => BackendTypeOK
  BY DEF BackendInv, BackendTypeOK, EngineOK, WindowOK, EngineStates, WindowStates, StartStates
<1> QED BY <1>1, BackendInvHolds, PTL

\* For any number of releases, rounds of waiting and failures: a forced start that
\* reports success has left the image of this version, or the user's own, running
\* (start_containers).
THEOREM UpdateTakesEffectHolds == BackendSpec => []UpdateTakesEffect
<1>1. BackendInv => UpdateTakesEffect
  BY DEF BackendInv, PullKept, UpdateTakesEffect
<1> QED BY <1>1, BackendInvHolds, PTL

-----------------------------------------------------------------------------
(***************************************************************************)
(* The list of documents: it asks for one page at a time, whatever is      *)
(* deleted, sorted, resized or signed in while a page is under way, and is *)
(* loading exactly until the answer comes.                                 *)
(***************************************************************************)

\* What the list is, and what may be in flight for it.
Listings ==
  [offset : Nat, size : Sizes, pending : Nat, loading : BOOLEAN, total : Nat, count : Nat,
   rows : Readers \cup {NoRows}, prev : BOOLEAN, next : BOOLEAN]
PageAnswers ==
  [ok : {FALSE}] \cup [ok : {TRUE}, who : Readers, count : Nat, total : Nat]
ListJobs ==
  [kind : {"list"}, what : [offset : Nat, size : Sizes], answer : {NoRows} \cup PageAnswers]
DeleteJobs ==
  [kind : {"delete"}, what : {NoRows}, answer : {NoRows} \cup [ok : BOOLEAN]]

\* A list asks for one page at a time, and is loading while it waits for it.
OnePage(l, js) ==
  /\ \A i, j \in js : i.kind = "list" /\ j.kind = "list" => i = j
  /\ l.loading = (\E j \in js : j.kind = "list")

ListInv ==
  /\ reader \in Readers
  /\ library \in [total : 0 .. MaxDocs, estimates : BOOLEAN]
  /\ listing \in Listings /\ jobs \subseteq ListJobs \cup DeleteJobs
  /\ OnePage(listing, jobs) /\ troubles \in 0 .. MaxTroubles

\* Failures and changes of the library are counted up to their bound.
LEMMA TroubleTyped ==
  ASSUME troubles \in 0 .. MaxTroubles, Trouble \/ NoTrouble
  PROVE  troubles' \in 0 .. MaxTroubles
BY DocumentListAssumption DEF Trouble, NoTrouble

\* The larger of a number and a natural number is natural.
LEMMA LargerTyped ==
  ASSUME NEW a \in Nat, NEW b \in Int
  PROVE  Larger(a, b) \in Nat /\ Larger(b, a) \in Nat
BY DEF Larger

\* A load begins with a list that is not loading and has nothing in flight.
LEMMA LoadKeeps ==
  ASSUME ListInv, NEW l \in Listings, NEW rest \in SUBSET (ListJobs \cup DeleteJobs),
         OnePage(l, rest), Load(l, rest), reader' \in Readers, UNCHANGED library
  PROVE  ListInv'
<1>1. troubles' \in 0 .. MaxTroubles
  BY TroubleTyped DEF Load, ListInv
<1>2. CASE listing' = l /\ jobs' = rest
  BY <1>1, <1>2 DEF ListInv
<1>3. CASE /\ ~l.loading
           /\ listing' = [l EXCEPT !.loading = TRUE, !.pending = l.offset,
                                   !.prev = FALSE, !.next = FALSE]
           /\ jobs' = rest \cup {Ask("list", Query(l))}
  <2>1. Ask("list", Query(l)) \in ListJobs /\ Ask("list", Query(l)).kind = "list"
    BY DEF Ask, Query, ListJobs, Listings
  <2>2. listing' \in Listings /\ listing'.loading = TRUE
    BY <1>3 DEF Listings
  <2>3. ~ \E j \in rest : j.kind = "list"
    BY <1>3 DEF OnePage
  <2>4. OnePage(listing', jobs')
    BY <1>3, <2>1, <2>2, <2>3 DEF OnePage
  <2> QED BY <1>1, <1>3, <2>1, <2>2, <2>4 DEF ListInv
<1> QED BY <1>2, <1>3 DEF Load

\* An answer comes for a request: the request stays what it was.
LEMMA RepliedKeeps ==
  ASSUME ListInv, NEW j \in Asked, NEW answer, Replied(j, answer),
         j.kind = "list" => answer \in PageAnswers,
         j.kind = "delete" => answer \in [ok : BOOLEAN]
  PROVE  jobs' \in SUBSET (ListJobs \cup DeleteJobs) /\ OnePage(listing, jobs')
<1> DEFINE i == [j EXCEPT !.answer = answer]
<1>1. j \in jobs /\ j \in ListJobs \cup DeleteJobs /\ jobs' = (jobs \ {j}) \cup {i}
  BY DEF Asked, Replied, ListInv
<1>2. i \in ListJobs \cup DeleteJobs /\ i.kind = j.kind
  <2>1. CASE j \in ListJobs
    <3>1. j.kind = "list"
      BY <2>1 DEF ListJobs
    <3> QED BY <2>1, <3>1 DEF ListJobs
  <2>2. CASE j \in DeleteJobs
    <3>1. j.kind = "delete"
      BY <2>2 DEF DeleteJobs
    <3> QED BY <2>2, <3>1 DEF DeleteJobs
  <2> QED BY <1>1, <2>1, <2>2
<1> HIDE DEF i
<1>3. OnePage(listing, jobs')
  <2>1. \A m, n \in jobs' : m.kind = "list" /\ n.kind = "list" => m = n
    BY <1>1, <1>2 DEF ListInv, OnePage
  <2>2. (\E m \in jobs' : m.kind = "list") <=> (\E m \in jobs : m.kind = "list")
    BY <1>1, <1>2
  <2> QED BY <2>1, <2>2 DEF ListInv, OnePage
<1> QED BY <1>1, <1>2, <1>3 DEF ListInv

\* A page of the library.
LEMMA PageTyped ==
  ASSUME ListInv, NEW q \in [offset : Nat, size : Sizes]
  PROVE  AnswerTo(q) \in PageAnswers
<1>1. /\ library.total \in Nat /\ library.estimates \in BOOLEAN /\ reader \in Readers
      /\ q.size \in Nat /\ q.offset \in Nat
  BY DocumentListAssumption DEF ListInv, Sizes
<1>2. PageOf(q) \in Nat
  BY <1>1 DEF PageOf, Smaller, Larger
<1> QED BY <1>1, <1>2 DEF AnswerTo, PageAnswers

\* An empty list has asked for nothing.
LEMMA ListInitially == ListInit => ListInv
<1> SUFFICES ASSUME ListInit PROVE ListInv
  OBVIOUS
<1>1. MaxDocs \in 0 .. MaxDocs /\ 0 \in 0 .. MaxTroubles
  BY DocumentListAssumption
<1>2. library \in [total : 0 .. MaxDocs, estimates : BOOLEAN]
  BY <1>1 DEF ListInit
<1>3. listing \in Listings /\ listing.loading = FALSE /\ jobs = {}
  BY DEF ListInit, Listings, Sizes
<1> QED BY <1>1, <1>2, <1>3 DEF ListInit, ListInv, OnePage

\* A request that is answered leaves, and the list is idle if it was for a page.
LEMMA HandledKeeps ==
  ASSUME ListInv, NEW j \in jobs
  PROVE  /\ jobs \ {j} \in SUBSET (ListJobs \cup DeleteJobs)
         /\ j.kind = "list" => OnePage(Idle(listing), jobs \ {j})
         /\ j.kind # "list" => OnePage(listing, jobs \ {j})
         /\ Idle(listing) \in Listings
<1>1. jobs \subseteq ListJobs \cup DeleteJobs /\ OnePage(listing, jobs) /\ listing \in Listings
  BY DEF ListInv
<1>2. /\ Idle(listing) \in Listings /\ Idle(listing).loading = FALSE
  BY <1>1 DEF Idle, Listings
<1>3. CASE j.kind = "list"
  <2>1. ~ \E i \in jobs \ {j} : i.kind = "list"
    BY <1>1, <1>3 DEF OnePage
  <2>2. OnePage(Idle(listing), jobs \ {j})
    BY <1>2, <2>1 DEF OnePage
  <2> QED BY <1>1, <1>2, <1>3, <2>2
<1>4. CASE j.kind # "list"
  <2>1. (\E i \in jobs \ {j} : i.kind = "list") <=> (\E i \in jobs : i.kind = "list")
    BY <1>4
  <2>2. OnePage(listing, jobs \ {j})
    BY <1>1, <2>1 DEF OnePage
  <2> QED BY <1>1, <1>2, <1>4, <2>2
<1> QED BY <1>3, <1>4

\* A page comes: it is shown, or an earlier one is asked for.
LEMMA LoadedKeeps == ASSUME ListInv, DocumentsLoaded PROVE ListInv'
<1>1. PICK j \in Answered("list") :
        LET a == j.answer  l == Idle(listing)  rest == jobs \ {j}
            total == IF library.estimates THEN Larger(a.total, l.pending + a.count) ELSE a.total
            shown == [l EXCEPT !.offset = l.pending, !.size = j.what.size, !.total = total,
                               !.count = a.count, !.rows = a.who, !.prev = l.pending > 0,
                               !.next = IF library.estimates THEN a.count >= j.what.size
                                        ELSE l.pending + a.count < total]
        IN
        IF ~a.ok
        THEN /\ listing' = [l EXCEPT !.prev = FALSE, !.next = FALSE]
             /\ jobs' = rest /\ NoTrouble
        ELSE IF library.estimates /\ l.pending > 0 /\ a.count = 0
        THEN Load([l EXCEPT !.offset = Earlier(l.pending, j.what.size)], rest)
        ELSE IF /\ ~library.estimates /\ total > 0 /\ l.pending >= total /\ l.pending # 0
                /\ Larger(0, LastPage(total, j.what.size)) # l.offset
        THEN Load([l EXCEPT !.offset = Larger(0, LastPage(total, j.what.size))], rest)
        ELSE listing' = shown /\ jobs' = rest /\ NoTrouble
  BY DEF DocumentsLoaded
<1> DEFINE a == j.answer
           l == Idle(listing)
           rest == jobs \ {j}
           total == IF library.estimates THEN Larger(a.total, l.pending + a.count) ELSE a.total
           shown == [l EXCEPT !.offset = l.pending, !.size = j.what.size, !.total = total,
                              !.count = a.count, !.rows = a.who, !.prev = l.pending > 0,
                              !.next = IF library.estimates THEN a.count >= j.what.size
                                       ELSE l.pending + a.count < total]
           earlier == [l EXCEPT !.offset = Earlier(l.pending, j.what.size)]
           last == [l EXCEPT !.offset = Larger(0, LastPage(total, j.what.size))]
<1>2. /\ j \in jobs /\ j.kind = "list" /\ a # NoRows /\ UNCHANGED <<reader, library>>
      /\ reader \in Readers /\ troubles \in 0 .. MaxTroubles
      /\ library \in [total : 0 .. MaxDocs, estimates : BOOLEAN]
  BY DEF Answered, DocumentsLoaded, OthersUnchanged, ListInv
<1>3. l \in Listings /\ OnePage(l, rest) /\ rest \in SUBSET (ListJobs \cup DeleteJobs)
  BY <1>2, HandledKeeps
<1>4. a \in PageAnswers /\ j.what \in [offset : Nat, size : Sizes]
  BY <1>2 DEF ListInv, ListJobs, DeleteJobs
<1>5. \/ ~a.ok /\ listing' = [l EXCEPT !.prev = FALSE, !.next = FALSE]
         /\ jobs' = rest /\ NoTrouble
      \/ a.ok /\ Load(earlier, rest)
      \/ a.ok /\ Load(last, rest)
      \/ a.ok /\ listing' = shown /\ jobs' = rest /\ NoTrouble
  BY <1>1
<1> HIDE DEF l, rest, a
<1>6. CASE ~a.ok /\ listing' = [l EXCEPT !.prev = FALSE, !.next = FALSE]
           /\ jobs' = rest /\ NoTrouble
  <2>1. listing' \in Listings /\ listing'.loading = l.loading
    BY <1>3, <1>6 DEF Listings
  <2> QED BY <1>2, <1>3, <1>6, <2>1 DEF ListInv, OnePage, NoTrouble
<1>7. CASE a.ok
  <2>1. a.total \in Nat /\ a.count \in Nat /\ a.who \in Readers
    BY <1>4, <1>7 DEF PageAnswers
  <2>2. l.pending \in Nat /\ j.what.size \in {1, 2}
    BY <1>3, <1>4 DEF Listings, Sizes
  <2>3. total \in Nat
    BY <2>1, <2>2 DEF Larger
  <2> HIDE DEF total
  <2>4. Earlier(l.pending, j.what.size) \in Nat
    BY <2>2 DEF Earlier, Larger
  <2>5. Larger(0, LastPage(total, j.what.size)) \in Nat
    <3>1. (total + j.what.size - 1) \div j.what.size \in Int
      BY <2>2, <2>3
    <3>2. LastPage(total, j.what.size) \in Int
      BY <2>2, <3>1 DEF LastPage
    <3> QED BY <3>2 DEF Larger
  <2>6. earlier \in Listings /\ earlier.loading = l.loading
    BY <1>3, <2>4 DEF Listings
  <2>7. last \in Listings /\ last.loading = l.loading
    BY <1>3, <2>5 DEF Listings
  <2>8. shown \in Listings /\ shown.loading = l.loading
    <3> DEFINE prev == l.pending > 0
               next == IF library.estimates THEN a.count >= j.what.size
                       ELSE l.pending + a.count < total
    <3>1. prev \in BOOLEAN /\ next \in BOOLEAN
      <4>1. prev \in BOOLEAN
        OBVIOUS
      <4>2. CASE library.estimates
        BY <4>1, <4>2
      <4>3. CASE ~library.estimates
        BY <4>1, <4>3
      <4> QED BY <4>2, <4>3
    <3>2. j.what.size \in Sizes
      BY <1>4
    <3>3. shown = [l EXCEPT !.offset = l.pending, !.size = j.what.size, !.total = total,
                            !.count = a.count, !.rows = a.who, !.prev = prev, !.next = next]
      OBVIOUS
    <3> HIDE DEF prev, next
    <3> QED BY <1>3, <2>1, <2>2, <2>3, <3>1, <3>2, <3>3 DEF Listings
  <2> HIDE DEF earlier, last, shown
  <2>9. OnePage(earlier, rest) /\ OnePage(last, rest) /\ OnePage(shown, rest)
    BY <1>3, <2>6, <2>7, <2>8 DEF OnePage
  <2>10. CASE Load(earlier, rest)
    BY <1>2, <1>3, <2>6, <2>9, <2>10, LoadKeeps
  <2>11. CASE Load(last, rest)
    BY <1>2, <1>3, <2>7, <2>9, <2>11, LoadKeeps
  <2>12. CASE listing' = shown /\ jobs' = rest /\ NoTrouble
    BY <1>2, <1>3, <2>8, <2>9, <2>12 DEF ListInv, NoTrouble
  <2> QED BY <1>5, <1>7, <2>10, <2>11, <2>12
<1> QED BY <1>5, <1>6, <1>7

\* The worker and the server answer.
LEMMA ServingKeeps == ASSUME ListInv, ServeList \/ ServeDelete PROVE ListInv'
<1>1. CASE ServeList
  <2>1. PICK j \in Asked : /\ j.kind = "list"
                           /\ \/ Replied(j, AnswerTo(j.what)) /\ NoTrouble
                              \/ Replied(j, [ok |-> FALSE]) /\ Trouble
    BY <1>1 DEF ServeList
  <2>2. j.what \in [offset : Nat, size : Sizes]
    BY <2>1 DEF Asked, ListInv, ListJobs, DeleteJobs
  <2>3. AnswerTo(j.what) \in PageAnswers /\ [ok |-> FALSE] \in PageAnswers
    BY <2>2, PageTyped DEF PageAnswers
  <2>4. jobs' \in SUBSET (ListJobs \cup DeleteJobs) /\ OnePage(listing, jobs')
    BY <2>1, <2>3, RepliedKeeps
  <2>5. troubles' \in 0 .. MaxTroubles
    BY <2>1, TroubleTyped DEF ListInv
  <2> QED BY <1>1, <2>4, <2>5 DEF ServeList, ListInv
<1>2. CASE ServeDelete
  <2>1. PICK j \in Asked :
          /\ j.kind = "delete"
          /\ \/ /\ library.total > 0 /\ Replied(j, [ok |-> TRUE]) /\ NoTrouble
                /\ library' = [library EXCEPT !.total = @ - 1]
             \/ Replied(j, [ok |-> FALSE]) /\ NoTrouble /\ UNCHANGED library
    BY <1>2 DEF ServeDelete
  <2>2. jobs' \in SUBSET (ListJobs \cup DeleteJobs) /\ OnePage(listing, jobs')
    BY <2>1, RepliedKeeps
  <2>3. library' \in [total : 0 .. MaxDocs, estimates : BOOLEAN]
    BY <2>1, DocumentListAssumption DEF ListInv
  <2> QED BY <1>2, <2>1, <2>2, <2>3 DEF ServeDelete, ListInv, NoTrouble
<1> QED BY <1>1, <1>2

\* A change of the list that is none of its loading, and perhaps a load.
LEMMA ReloadKeeps ==
  ASSUME ListInv, NEW l \in Listings, l.loading = listing.loading, Load(l, jobs),
         reader' \in Readers, UNCHANGED library
  PROVE  ListInv'
<1>1. OnePage(l, jobs) /\ jobs \in SUBSET (ListJobs \cup DeleteJobs)
  BY DEF ListInv, OnePage
<1> QED BY <1>1, LoadKeeps

\* The user turns the page, resizes or sorts it, refreshes it or signs in as another.
LEMMA PagingKeeps ==
  ASSUME ListInv, ChangePage \/ PageSizeChanged \/ HeaderClicked \/ PressRefresh \/ AccountChanged
  PROVE  ListInv'
<1>1. /\ listing \in Listings /\ listing.offset \in Nat /\ listing.size \in {1, 2}
      /\ reader \in Readers
  BY DEF ListInv, Listings, Sizes
<1>2. CASE ChangePage
  <2>1. PICK step \in {-1, 1} :
          Load([listing EXCEPT !.offset = Larger(0, listing.offset + step * listing.size)], jobs)
    BY <1>2 DEF ChangePage
  <2>2. listing.offset + step * listing.size \in Int
    BY <1>1
  <2>3. Larger(0, listing.offset + step * listing.size) \in Nat
    BY <2>2, LargerTyped
  <2> DEFINE to == Larger(0, listing.offset + step * listing.size)
             l == [listing EXCEPT !.offset = to]
  <2> HIDE DEF to
  <2>4. l \in Listings /\ l.loading = listing.loading
    BY <1>1, <2>3 DEF Listings, to
  <2>5. Load(l, jobs)
    BY <2>1 DEF to
  <2> HIDE DEF l
  <2> QED BY <1>1, <1>2, <2>4, <2>5, ReloadKeeps DEF ChangePage, OthersUnchanged
<1>3. CASE PageSizeChanged
  <2>1. PICK s \in Sizes : Load([listing EXCEPT !.size = s, !.offset = 0], jobs)
    BY <1>3 DEF PageSizeChanged
  <2> DEFINE l == [listing EXCEPT !.size = s, !.offset = 0]
  <2>2. l \in Listings /\ l.loading = listing.loading
    BY <1>1 DEF Listings
  <2> QED BY <1>1, <1>3, <2>1, <2>2, ReloadKeeps DEF PageSizeChanged, OthersUnchanged
<1>4. CASE HeaderClicked
  <2> DEFINE l == [listing EXCEPT !.offset = 0]
  <2>1. l \in Listings /\ l.loading = listing.loading
    BY <1>1 DEF Listings
  <2> QED BY <1>1, <1>4, <2>1, ReloadKeeps DEF HeaderClicked, OthersUnchanged
<1>5. CASE PressRefresh
  BY <1>1, <1>5, ReloadKeeps DEF PressRefresh, OthersUnchanged
<1>6. CASE AccountChanged
  <2> DEFINE l == [listing EXCEPT !.rows = NoRows, !.count = 0]
  <2>1. l \in Listings /\ l.loading = listing.loading
    BY <1>1 DEF Listings
  <2> QED BY <1>6, <2>1, ReloadKeeps DEF AccountChanged
<1> QED BY <1>2, <1>3, <1>4, <1>5, <1>6

\* A document is deleted, and the page is asked for again.
LEMMA DeletingKeeps == ASSUME ListInv, DeleteDocument \/ DeleteFinished PROVE ListInv'
<1>1. CASE DeleteDocument
  <2> DEFINE j == Ask("delete", NoRows)
  <2>1. j \in DeleteJobs /\ j.kind = "delete"
    BY DEF Ask, DeleteJobs
  <2>2. jobs' = jobs \cup {j} /\ UNCHANGED <<reader, library, listing, troubles>>
    BY <1>1 DEF DeleteDocument
  <2> HIDE DEF j
  <2>3. OnePage(listing, jobs')
    BY <2>1, <2>2 DEF ListInv, OnePage
  <2> QED BY <2>1, <2>2, <2>3 DEF ListInv
<1>2. CASE DeleteFinished
  <2>1. PICK j \in Answered("delete") :
          IF ~j.answer.ok THEN jobs' = jobs \ {j} /\ UNCHANGED listing /\ NoTrouble
          ELSE Load(IF listing.total > 0 /\ listing.count <= 1 /\ listing.offset > 0
                    THEN [listing EXCEPT !.offset = Larger(0, listing.offset - listing.size)]
                    ELSE listing, jobs \ {j})
    BY <1>2 DEF DeleteFinished
  <2>2. j \in jobs /\ j.kind = "delete" /\ UNCHANGED <<reader, library>>
    BY <1>2 DEF Answered, DeleteFinished, OthersUnchanged
  <2>3. jobs \ {j} \in SUBSET (ListJobs \cup DeleteJobs) /\ OnePage(listing, jobs \ {j})
    BY <2>2, HandledKeeps
  <2>4. listing \in Listings /\ listing.offset \in Nat /\ listing.size \in {1, 2}
        /\ reader \in Readers
    BY DEF ListInv, Listings, Sizes
  <2>5. CASE jobs' = jobs \ {j} /\ UNCHANGED listing /\ NoTrouble
    BY <2>2, <2>3, <2>5 DEF ListInv, NoTrouble
  <2>6. CASE Load(listing, jobs \ {j})
    BY <2>2, <2>3, <2>4, <2>6, LoadKeeps
  <2> DEFINE offset == Larger(0, listing.offset - listing.size)
             l == [listing EXCEPT !.offset = offset]
  <2>7. offset \in Nat
    BY <2>4 DEF Larger
  <2> HIDE DEF offset
  <2>8. l \in Listings /\ l.loading = listing.loading
    BY <2>4, <2>7 DEF Listings
  <2>9. CASE Load([listing EXCEPT !.offset = Larger(0, listing.offset - listing.size)], jobs \ {j})
    <3>1. Load(l, jobs \ {j})
      BY <2>9 DEF offset
    <3> HIDE DEF l
    <3>2. OnePage(l, jobs \ {j})
      BY <2>3, <2>8 DEF OnePage
    <3> QED BY <2>2, <2>3, <2>4, <2>8, <3>1, <3>2, LoadKeeps
  <2> QED BY <2>1, <2>5, <2>6, <2>9
<1> QED BY <1>1, <1>2

\* For any number of documents, readers and answers in flight: the list asks for one page
\* at a time, and the flag that keeps it from asking for another is set exactly while the
\* answer is under way; no answer, failure or delete beside it leaves a list that refuses
\* to load (load_documents, documents_loaded, delete_finished).
THEOREM ListTyped == ListSpec => []ListTypeOK
<1>1. ListInv /\ [ListNext]_listVars => ListInv'
  <2> SUFFICES ASSUME ListInv, [ListNext]_listVars PROVE ListInv'
    OBVIOUS
  <2>1. CASE LibraryChanges
    <3>1. troubles' \in 0 .. MaxTroubles
      BY <2>1, TroubleTyped DEF LibraryChanges, ListInv
    <3>2. library' \in [total : 0 .. MaxDocs, estimates : BOOLEAN]
      BY <2>1 DEF LibraryChanges, ListInv
    <3> QED BY <2>1, <3>1, <3>2 DEF LibraryChanges, ListInv
  <2>2. CASE UNCHANGED listVars
    BY <2>2 DEF listVars, ListInv
  <2> QED BY <2>1, <2>2, ServingKeeps, LoadedKeeps, PagingKeeps, DeletingKeeps DEF ListNext
<1>2. ListInv => ListTypeOK
  BY DEF ListInv, ListTypeOK, OnePage, Listings
<1> QED BY <1>1, <1>2, ListInitially, PTL DEF ListSpec

-----------------------------------------------------------------------------
(***************************************************************************)
(* The tree of documents: one that shows itself as loading has been asked  *)
(* for, so that an answer will end it, whatever source is chosen           *)
(* meanwhile; and one search runs at a time.                               *)
(***************************************************************************)

\* What the tree is, and what may be in flight for it.
Trees ==
  [source : Sources, combo : Sources, fetched : BOOLEAN, fetching : BOOLEAN,
   shown : Viewers \cup {Blank}]
Refusals == [ok : {FALSE}]
ViewCalls ==
  [kind : {"tree", "search"}, answer : {Blank} \cup [ok : {TRUE}, who : Viewers] \cup Refusals]
StatsCalls ==
  [kind : {"stats"},
   answer : {Blank} \cup [ok : {TRUE}, ldb : {"behind", "equal", "ahead", "none"}] \cup Refusals]

\* A tree that waits has been asked for.
TreeAsked(t, cs) == t \in Trees /\ (t.fetching => \E c \in cs : c.kind = "tree")
\* One search runs at a time, and the Search tab is busy just as long.
OneSearch(f, cs) ==
  /\ \A b, c \in cs : b.kind = "search" /\ c.kind = "search" => b = c
  /\ f.busy = (\E c \in cs : c.kind = "search")

TreeInv ==
  /\ viewer \in Viewers /\ stores \in {"behind", "equal", "ahead", "none"}
  /\ found \in [busy : BOOLEAN, who : Viewers \cup {Blank}]
  /\ calls \subseteq ViewCalls \cup StatsCalls
  /\ TreeAsked(tree, calls) /\ OneSearch(found, calls) /\ grumbles \in 0 .. MaxGrumbles

\* Another request that is no search keeps what is in flight in order.
LEMMA AskingMore ==
  ASSUME NEW kind \in {"tree", "stats"}, NEW f, NEW cs \in SUBSET (ViewCalls \cup StatsCalls)
  PROVE  /\ cs \cup {TreeCall(kind)} \in SUBSET (ViewCalls \cup StatsCalls)
         /\ \A t : TreeAsked(t, cs) => TreeAsked(t, cs \cup {TreeCall(kind)})
         /\ \A t \in Trees : kind = "tree" => TreeAsked(t, cs \cup {TreeCall(kind)})
         /\ OneSearch(f, cs) => OneSearch(f, cs \cup {TreeCall(kind)})
<1>1. /\ TreeCall(kind) \in ViewCalls \cup StatsCalls /\ TreeCall(kind).kind = kind
      /\ kind # "search"
  BY DEF TreeCall, ViewCalls, StatsCalls
<1> QED BY <1>1 DEF TreeAsked, OneSearch

\* So does one that is given up for another source of the tree.
LEMMA ChoosingKeeps ==
  ASSUME TreeInv, NEW source \in Sources, NEW cs \in SUBSET (ViewCalls \cup StatsCalls),
         TreeAsked(tree, cs), OneSearch(found, cs), Choose(source, cs),
         UNCHANGED <<viewer, stores, found, grumbles>>
  PROVE  TreeInv'
<1> DEFINE t == [tree EXCEPT !.combo = source]
           asked == IF tree.combo = source THEN cs ELSE StatsAsked(cs)
           reset == [ResetRoot(t) EXCEPT !.source = source]
<1>1. t \in Trees /\ t.fetching = tree.fetching /\ reset \in Trees
  BY DEF TreeAsked, Trees, ResetRoot
<1>2. /\ asked \in SUBSET (ViewCalls \cup StatsCalls) /\ OneSearch(found, asked)
      /\ TreeAsked(tree, asked)
  BY AskingMore DEF StatsAsked
<1>3. TreeAsked(t, asked)
  BY <1>1, <1>2 DEF TreeAsked
<1>4. \/ tree' = t /\ calls' = asked
      \/ tree' = reset /\ calls' = asked \cup {TreeCall("tree")}
  BY DEF Choose, SetSource
<1> HIDE DEF t, asked, reset
<1>5. CASE tree' = t /\ calls' = asked
  BY <1>2, <1>3, <1>5 DEF TreeInv
<1>6. CASE tree' = reset /\ calls' = asked \cup {TreeCall("tree")}
  <2>1. /\ calls' \in SUBSET (ViewCalls \cup StatsCalls) /\ OneSearch(found, calls')
        /\ TreeAsked(tree', calls')
    BY <1>1, <1>2, <1>6, AskingMore
  <2> QED BY <2>1 DEF TreeInv
<1> QED BY <1>4, <1>5, <1>6

\* A tree that is drawn anew is asked for, with a comparison or without.
LEMMA RefreshingKeeps ==
  ASSUME TreeInv, found' \in [busy : BOOLEAN, who : Viewers \cup {Blank}],
         found'.busy = found.busy, viewer' \in Viewers, UNCHANGED <<stores, grumbles>>,
         \/ tree' = ResetRoot(tree) /\ calls' = calls \cup {TreeCall("tree")}
         \/ RefreshTree
         \/ UNCHANGED tree /\ calls' = StatsAsked(calls)
         \/ UNCHANGED <<tree, calls>>
  PROVE  TreeInv'
<1>1. ResetRoot(tree) \in Trees
  BY DEF TreeInv, TreeAsked, Trees, ResetRoot
<1>2. /\ TreeAsked(tree, calls) /\ OneSearch(found, calls)
      /\ calls \in SUBSET (ViewCalls \cup StatsCalls)
  BY DEF TreeInv
<1> DEFINE asked == calls \cup {TreeCall("tree")}
           compared == calls \cup {TreeCall("stats")}
           both == asked \cup {TreeCall("stats")}
<1>3. /\ asked \in SUBSET (ViewCalls \cup StatsCalls) /\ OneSearch(found, asked)
      /\ TreeAsked(ResetRoot(tree), asked)
  BY <1>1, <1>2, AskingMore
<1>4. /\ compared \in SUBSET (ViewCalls \cup StatsCalls) /\ OneSearch(found, compared)
      /\ TreeAsked(tree, compared)
  BY <1>2, AskingMore
<1> HIDE DEF asked, compared
<1>5. /\ both \in SUBSET (ViewCalls \cup StatsCalls) /\ OneSearch(found, both)
      /\ TreeAsked(ResetRoot(tree), both)
  BY <1>3, AskingMore
<1> HIDE DEF both
<1>6. \/ tree' = ResetRoot(tree) /\ calls' = asked
      \/ tree' = ResetRoot(tree) /\ calls' = both
      \/ tree' = tree /\ calls' = compared
      \/ tree' = tree /\ calls' = calls
  BY DEF RefreshTree, StatsAsked, asked, both, compared
<1>7. /\ calls' \in SUBSET (ViewCalls \cup StatsCalls) /\ OneSearch(found, calls')
      /\ TreeAsked(tree', calls')
  BY <1>2, <1>3, <1>4, <1>5, <1>6
<1> QED BY <1>7 DEF TreeInv, OneSearch

\* A request is answered and stays what it was.
LEMMA ServedKeeps == ASSUME TreeInv, NEW kind \in Calls, ServeCall(kind) PROVE TreeInv'
<1>1. PICK a \in {TreeAnswer(kind), [ok |-> FALSE]} :
        /\ IF a.ok THEN Content ELSE Grumble
        /\ calls' = (calls \ {TreeCall(kind)}) \cup {[TreeCall(kind) EXCEPT !.answer = a]}
  BY DEF ServeCall
<1> DEFINE b == TreeCall(kind)
           c == [TreeCall(kind) EXCEPT !.answer = a]
<1>2. b \in calls /\ b.kind = kind /\ c.kind = kind
  BY DEF ServeCall, TreeCall
<1>3. c \in ViewCalls \cup StatsCalls
  <2>1. CASE kind = "stats"
    <3>1. a \in [ok : {TRUE}, ldb : {"behind", "equal", "ahead", "none"}] \cup Refusals
      <4>1. CASE a = [ok |-> FALSE]
        BY <4>1 DEF Refusals
      <4>2. CASE a = [ok |-> TRUE, ldb |-> stores]
        BY <4>2 DEF TreeInv
      <4> QED BY <2>1, <4>1, <4>2 DEF TreeAnswer
    <3> QED BY <2>1, <3>1 DEF TreeCall, StatsCalls
  <2>2. CASE kind # "stats"
    <3>1. a \in [ok : {TRUE}, who : Viewers] \cup Refusals
      <4>1. CASE a = [ok |-> FALSE]
        BY <4>1 DEF Refusals
      <4>2. CASE a = [ok |-> TRUE, who |-> viewer]
        BY <4>2 DEF TreeInv
      <4> QED BY <2>2, <4>1, <4>2 DEF TreeAnswer
    <3>2. kind \in {"tree", "search"}
      BY <2>2 DEF Calls
    <3> QED BY <3>1, <3>2 DEF TreeCall, ViewCalls
  <2> QED BY <2>1, <2>2
<1>4. calls' = (calls \ {b}) \cup {c}
  BY <1>1
<1> HIDE DEF b, c
<1>5. /\ calls' \subseteq ViewCalls \cup StatsCalls
      /\ (\E d \in calls' : d.kind = "tree") <=> (\E d \in calls : d.kind = "tree")
      /\ (\E d \in calls' : d.kind = "search") <=> (\E d \in calls : d.kind = "search")
      /\ \A d, e \in calls' : d.kind = "search" /\ e.kind = "search" => d = e
  BY <1>2, <1>3, <1>4 DEF TreeInv, OneSearch
<1>6. grumbles' \in 0 .. MaxGrumbles
  BY <1>1, DocumentTreeAssumption DEF Content, Grumble, TreeInv
<1> QED BY <1>5, <1>6 DEF ServeCall, TreeInv, TreeAsked, OneSearch

\* What the threads of the tree have found is shown, or another source chosen.
LEMMA LoadingKeeps == ASSUME TreeInv, ChildrenLoaded \/ TreeStatsLoaded PROVE TreeInv'
<1>1. CASE ChildrenLoaded
  <2>1. PICK c \in Replies("tree") :
          /\ tree' = [tree EXCEPT !.fetching = FALSE, !.fetched = TRUE,
                                  !.shown = IF c.answer.ok THEN c.answer.who ELSE @]
          /\ calls' = calls \ {c}
    BY <1>1 DEF ChildrenLoaded
  <2>2. c \in ViewCalls /\ c.answer # Blank /\ c.kind = "tree"
    BY DEF Replies, TreeInv, ViewCalls, StatsCalls
  <2> DEFINE who == IF c.answer.ok THEN c.answer.who ELSE tree.shown
  <2>3. tree.shown \in Viewers \cup {Blank} /\ tree \in Trees
    BY DEF TreeInv, TreeAsked, Trees
  <2>4. who \in Viewers \cup {Blank}
    BY <2>2, <2>3 DEF ViewCalls, Refusals
  <2>5. tree' = [tree EXCEPT !.fetching = FALSE, !.fetched = TRUE, !.shown = who]
    BY <2>1
  <2> HIDE DEF who
  <2>6. tree' \in Trees /\ tree'.fetching = FALSE
    BY <2>3, <2>4, <2>5 DEF Trees
  <2>7. OneSearch(found, calls')
    BY <2>1, <2>2 DEF TreeInv, OneSearch
  <2> QED BY <1>1, <2>1, <2>6, <2>7 DEF ChildrenLoaded, TreeInv, TreeAsked
<1>2. CASE TreeStatsLoaded
  <2>1. PICK c \in Replies("stats") :
          \/ calls' = calls \ {c} /\ UNCHANGED tree
          \/ \E s \in Sources : Choose(s, calls \ {c})
    BY <1>2 DEF TreeStatsLoaded, Sources
  <2>2. /\ TreeAsked(tree, calls \ {c}) /\ OneSearch(found, calls \ {c})
        /\ calls \ {c} \in SUBSET (ViewCalls \cup StatsCalls)
    BY DEF Replies, TreeInv, TreeAsked, OneSearch
  <2>3. CASE calls' = calls \ {c} /\ UNCHANGED tree
    BY <1>2, <2>2, <2>3 DEF TreeStatsLoaded, TreeInv
  <2>4. CASE \E s \in Sources : Choose(s, calls \ {c})
    BY <1>2, <2>2, <2>4, ChoosingKeeps DEF TreeStatsLoaded
  <2> QED BY <2>1, <2>3, <2>4
<1> QED BY <1>1, <1>2

\* The Search tab asks once and waits.
LEMMA SearchingKeeps == ASSUME TreeInv, PerformSearch \/ SearchFinished PROVE TreeInv'
<1>1. CASE PerformSearch
  <2>1. TreeCall("search") \in ViewCalls /\ TreeCall("search").kind = "search"
    BY DEF TreeCall, ViewCalls
  <2>2. found.busy = FALSE /\ ~ \E c \in calls : c.kind = "search"
    BY <1>1 DEF PerformSearch, TreeInv, OneSearch
  <2>3. found'.busy = TRUE /\ found' \in [busy : BOOLEAN, who : Viewers \cup {Blank}]
    BY <1>1 DEF PerformSearch, TreeInv
  <2>4. OneSearch(found', calls') /\ calls' \subseteq ViewCalls \cup StatsCalls
    BY <1>1, <2>1, <2>2, <2>3 DEF PerformSearch, TreeInv, OneSearch
  <2>5. TreeAsked(tree', calls')
    BY <1>1 DEF PerformSearch, TreeInv, TreeAsked
  <2> QED BY <1>1, <2>3, <2>4, <2>5 DEF PerformSearch, TreeInv
<1>2. CASE SearchFinished
  <2>1. PICK c \in Replies("search") :
          /\ found' = [busy |-> FALSE, who |-> IF c.answer.ok THEN c.answer.who ELSE found.who]
          /\ calls' = calls \ {c}
    BY <1>2 DEF SearchFinished
  <2>2. c \in ViewCalls /\ c.answer # Blank /\ c.kind = "search" /\ c \in calls
    BY DEF Replies, TreeInv, ViewCalls, StatsCalls
  <2>3. found'.busy = FALSE /\ found' \in [busy : BOOLEAN, who : Viewers \cup {Blank}]
    BY <2>1, <2>2 DEF TreeInv, ViewCalls, Refusals
  <2>4. OneSearch(found', calls')
    BY <2>1, <2>2, <2>3 DEF TreeInv, OneSearch
  <2>5. TreeAsked(tree, calls')
    BY <2>1, <2>2 DEF TreeInv, TreeAsked
  <2> QED BY <1>2, <2>1, <2>3, <2>4, <2>5 DEF SearchFinished, TreeInv
<1> QED BY <1>1, <1>2

\* The invariant holds from the start and through every step.
LEMMA TreeInvHolds == TreeSpec => []TreeInv
<1>1. TreeInit => TreeInv
  <2> SUFFICES ASSUME TreeInit PROVE TreeInv
    OBVIOUS
  <2>1. tree \in Trees /\ tree.fetching = FALSE /\ calls = {} /\ found.busy = FALSE
    BY DEF TreeInit, Trees, Sources
  <2>2. grumbles \in 0 .. MaxGrumbles
    BY DocumentTreeAssumption DEF TreeInit
  <2> QED BY <2>1, <2>2 DEF TreeInit, TreeInv, TreeAsked, OneSearch
<1>2. TreeInv /\ [TreeNext]_treeVars => TreeInv'
  <2> SUFFICES ASSUME TreeInv, [TreeNext]_treeVars PROVE TreeInv'
    OBVIOUS
  <2>1. found \in [busy : BOOLEAN, who : Viewers \cup {Blank}] /\ viewer \in Viewers
    BY DEF TreeInv
  <2>2. CASE PollStats
    BY <2>1, <2>2, RefreshingKeeps DEF PollStats
  <2>3. CASE DbSourceChanged
    BY <2>3, ChoosingKeeps DEF DbSourceChanged, TreeInv
  <2>4. CASE FetchRoot
    BY <2>1, <2>4, RefreshingKeeps DEF FetchRoot
  <2>5. CASE PressTreeRefresh
    BY <2>1, <2>5, RefreshingKeeps DEF PressTreeRefresh, RefreshView
  <2>6. CASE SetViewMode
    BY <2>1, <2>6, RefreshingKeeps DEF SetViewMode
  <2>7. CASE ViewerChanged
    <3>1. /\ found' \in [busy : BOOLEAN, who : Viewers \cup {Blank}]
          /\ found'.busy = found.busy /\ viewer' \in Viewers
      BY <2>1, <2>7 DEF ViewerChanged
    <3> QED BY <2>7, <3>1, RefreshingKeeps DEF ViewerChanged, RefreshView
  <2>8. CASE HideOrShow
    BY <2>8 DEF HideOrShow, TreeInv
  <2>9. CASE StoresChange
    BY <2>9, DocumentTreeAssumption DEF StoresChange, Grumble, TreeInv
  <2>10. CASE UNCHANGED treeVars
    BY <2>10 DEF treeVars, TreeInv
  <2> QED BY <2>2, <2>3, <2>4, <2>5, <2>6, <2>7, <2>8, <2>9, <2>10, ServedKeeps, LoadingKeeps,
             SearchingKeeps DEF TreeNext
<1> QED BY <1>1, <1>2, PTL DEF TreeSpec

\* For any identities and any number of requests in flight: a tree that shows itself as
\* loading has been asked for, so that an answer will end it, and the Search tab is busy
\* exactly while its one search runs (fetchMore, _on_children_loaded, search_finished).
THEOREM TreeTyped == TreeSpec => []TreeTypeOK
<1>1. TreeInv => TreeTypeOK
  BY DEF TreeInv, TreeAsked, OneSearch, TreeTypeOK, Trees
<1> QED BY <1>1, TreeInvHolds, PTL

-----------------------------------------------------------------------------
(***************************************************************************)
(* The dialog of folders: what it shows for a folder is what the search    *)
(* will do there. The decisions are kept so that a folder inside an        *)
(* excluded one is never included, hence the nearest decision is to check  *)
(* only when every one above is.                                           *)
(***************************************************************************)

\* The folders a folder is in, itself included.
UpTo(f) == Above[f] \cup {f}

\* A folder and those above it are finitely many folders.
LEMMA UpToFolders ==
  ASSUME NEW f \in Folders
  PROVE  UpTo(f) \in SUBSET Folders /\ IsFiniteSet(UpTo(f)) /\ Above[f] \in SUBSET Folders
<1>1. IsFiniteSet(Above[f])
  BY ScopeAssumption
<1> QED BY <1>1, FS_AddElement, ScopeAssumption DEF UpTo

\* Of some subsets of a finite set one has no other of them in it.
LEMMA MinimalSet ==
  ASSUME NEW A, IsFiniteSet(A), NEW N \in SUBSET (SUBSET A), N # {}
  PROVE  \E X \in N : \A Y \in N : Y \subseteq X => Y = X
<1>1. IsWellFoundedOn(StrictSubsetOrdering(A), SUBSET A)
  BY FS_StrictSubsetOrderingWellFounded, FS_FiniteSubsetsOfFinite
<1>2. PICK X \in N : \A Y \in N : ~ (<<Y, X>> \in StrictSubsetOrdering(A))
  BY <1>1, WFMin
<1>3. ASSUME NEW Y \in N, Y \subseteq X, Y # X PROVE FALSE
  BY <1>2, <1>3 DEF StrictSubsetOrdering
<1> QED BY <1>3

\* Two folders above a folder, or that folder, are in line.
LEMMA InLine ==
  ASSUME NEW f \in Folders, NEW g \in UpTo(f), NEW h \in UpTo(f), g # h
  PROVE  /\ g \in Above[h] \/ h \in Above[g]
         /\ g \in Above[h] => Above[g] \subseteq Above[h]
         /\ g \notin Above[g]
  BY ScopeAssumption DEF UpTo

\* Of some folders in line one is the lowest.
LEMMA Lowest ==
  ASSUME NEW f \in Folders, NEW S \in SUBSET UpTo(f), S # {}
  PROVE  \E g \in S : S \subseteq UpTo(g)
<1> DEFINE N == {UpTo(f) \ Above[g] : g \in S}
<1>1. PICK X \in N : \A Y \in N : Y \subseteq X => Y = X
  <2>1. N \in SUBSET (SUBSET UpTo(f)) /\ N # {}
    OBVIOUS
  <2> HIDE DEF N
  <2> QED BY <2>1, MinimalSet, UpToFolders
<1>2. PICK g \in S : X = UpTo(f) \ Above[g]
  BY <1>1
<1>3. ASSUME NEW h \in S, h # g, h \notin Above[g] PROVE FALSE
  <2>1. g \in Above[h] /\ Above[g] \subseteq Above[h] /\ g \notin Above[g]
    BY <1>3, InLine
  <2>2. g \in X /\ g \notin UpTo(f) \ Above[h] /\ UpTo(f) \ Above[h] \subseteq X
    BY <1>2, <2>1
  <2> QED BY <1>1, <2>2
<1> QED BY <1>3 DEF UpTo

\* ... and one the highest.
LEMMA Highest ==
  ASSUME NEW f \in Folders, NEW S \in SUBSET UpTo(f), S # {}
  PROVE  \E g \in S : S \cap Above[g] = {}
<1> DEFINE N == {Above[g] : g \in S}
<1>1. N \in SUBSET (SUBSET UpTo(f)) /\ N # {}
  BY ScopeAssumption DEF UpTo
<1>2. PICK X \in N : \A Y \in N : Y \subseteq X => Y = X
  <2> HIDE DEF N
  <2> QED BY <1>1, MinimalSet, UpToFolders
<1>3. PICK g \in S : X = Above[g]
  BY <1>2
<1>4. ASSUME NEW h \in S, h \in Above[g] PROVE FALSE
  <2>1. Above[h] \subseteq Above[g] /\ h \notin Above[h]
    BY <1>4, UpToFolders, ScopeAssumption
  <2> QED BY <1>2, <1>3, <1>4, <2>1
<1> QED BY <1>4

\* The nearest of the folders that decide about a folder.
LEMMA NearestIsLowest ==
  ASSUME NEW f \in Folders, NEW S \in SUBSET UpTo(f), S # {}
  PROVE  Nearest(S) \in S /\ S \subseteq UpTo(Nearest(S))
  BY Lowest DEF Nearest, UpTo

-----------------------------------------------------------------------------
Decisions == UNION {[S -> BOOLEAN] : S \in SUBSET Folders}
Dialogs == [open : BOOLEAN, mode : {"all", "selected"}, overrides : Decisions]
Scopes == [includes : SUBSET Folders, excludes : SUBSET Folders]

\* A folder that is checked is in no folder that is unchecked.
ExclusionsWin(o) == \A f \in DOMAIN o : o[f] => \A g \in DOMAIN o \cap Above[f] : o[g]

Alive(s) == \A f \in s.includes : ~Within(f, s.excludes)

ScopeInv ==
  /\ chips \in Scopes /\ dialog \in Dialogs
  /\ Alive(chips) /\ ExclusionsWin(dialog.overrides)

\* Decisions are functions on some of the folders.
LEMMA DecisionsTyped ==
  /\ \A o \in Decisions : /\ DOMAIN o \in SUBSET Folders /\ \A f \in DOMAIN o : o[f] \in BOOLEAN
                          /\ o \in [DOMAIN o -> BOOLEAN]
  /\ \A S \in SUBSET Folders : \A o : o \in [S -> BOOLEAN] => o \in Decisions /\ DOMAIN o = S
  BY DEF Decisions

\* What is decided for a folder: every decision on the way to it is to check when the
\* last one is.
LEMMA Decided ==
  ASSUME NEW d \in Dialogs, ExclusionsWin(d.overrides), NEW f \in Folders,
         NEW S \in SUBSET UpTo(f), NEW T \in SUBSET S, T = DOMAIN d.overrides \cap S
  PROVE  /\ T = {} => StateOf(d, T) = Default(d)
         /\ T # {} => (StateOf(d, T) <=> \A g \in T : d.overrides[g])
         /\ StateOf(d, T) \in BOOLEAN
<1> DEFINE o == d.overrides
<1>1. o \in Decisions
  BY DEF Dialogs
<1>2. /\ DOMAIN o \in SUBSET Folders /\ \A g \in DOMAIN o : o[g] \in BOOLEAN
  BY <1>1, DecisionsTyped
<1> HIDE DEF o
<1>3. CASE T = {}
  BY <1>3 DEF StateOf, Default
<1>4. CASE T # {}
  <2>1. PICK n \in T : n = Nearest(T) /\ T \subseteq UpTo(n)
    BY <1>4, NearestIsLowest
  <2>2. StateOf(d, T) = o[n] /\ n \in DOMAIN o
    BY <1>4, <2>1 DEF StateOf, o
  <2>3. o[n] => \A g \in T : o[g]
    BY <2>1, <2>2 DEF ExclusionsWin, UpTo, o
  <2> QED BY <1>2, <1>4, <2>1, <2>2, <2>3 DEF o
<1> QED BY <1>3, <1>4

\* When exclusions win, a folder is checked if every decision on the way to it says so.
LEMMA EffectiveIs ==
  ASSUME NEW d \in Dialogs, ExclusionsWin(d.overrides), NEW f \in Folders
  PROVE  /\ DOMAIN d.overrides \cap UpTo(f) = {} => Effective(d, f) = Default(d)
         /\ DOMAIN d.overrides \cap UpTo(f) # {} =>
              (Effective(d, f) <=> \A g \in DOMAIN d.overrides \cap UpTo(f) : d.overrides[g])
         /\ DOMAIN d.overrides \cap Above[f] = {} => Inherited(d, f) = Default(d)
         /\ DOMAIN d.overrides \cap Above[f] # {} =>
              (Inherited(d, f) <=> \A g \in DOMAIN d.overrides \cap Above[f] : d.overrides[g])
         /\ Effective(d, f) \in BOOLEAN /\ Inherited(d, f) \in BOOLEAN
<1>1. Above[f] \in SUBSET UpTo(f)
  BY DEF UpTo
<1> QED BY <1>1, Decided, SMTT(30) DEF Effective, Inherited, UpTo

-----------------------------------------------------------------------------
\* On opening, the dialog shows what the chips select.
LEMMA OpensHonest ==
  ASSUME NEW s \in Scopes, Alive(s)
  PROVE  /\ FromScope(s) \in Dialogs /\ ExclusionsWin(FromScope(s).overrides)
         /\ \A f \in Folders : Effective(FromScope(s), f) <=> Searched(s, f)
<1> DEFINE I == s.includes
           E == s.excludes
           o == [f \in I \cup E |-> f \notin E]
           d == FromScope(s)
<1>1. I \in SUBSET Folders /\ E \in SUBSET Folders
  BY DEF Scopes
<1>2. o \in Decisions /\ DOMAIN o = I \cup E /\ \A f \in I \cup E : o[f] <=> f \notin E
  BY <1>1, DecisionsTyped
<1>3. /\ d \in Dialogs /\ d.overrides = o
      /\ Default(d) <=> I = {}
  BY <1>2 DEF FromScope, Dialogs, Default
<1> HIDE DEF d, o
<1>4. ASSUME NEW f \in I \cup E, f \notin E, NEW g \in E PROVE g \notin UpTo(f)
  BY <1>4 DEF Alive, Within, UpTo
<1>5. ExclusionsWin(o)
  BY <1>2, <1>4 DEF ExclusionsWin, UpTo
<1>6. ASSUME NEW f \in Folders PROVE Effective(d, f) <=> Searched(s, f)
  <2>1. Searched(s, f) <=> (I = {} \/ I \cap UpTo(f) # {}) /\ E \cap UpTo(f) = {}
    BY DEF Searched, Within, UpTo
  <2>2. CASE (I \cup E) \cap UpTo(f) = {}
    BY <1>2, <1>3, <1>5, <2>1, <2>2, EffectiveIs
  <2>3. CASE (I \cup E) \cap UpTo(f) # {}
    <3>1. Effective(d, f) <=> \A g \in (I \cup E) \cap UpTo(f) : o[g]
      BY <1>2, <1>3, <1>5, <2>3, EffectiveIs
    <3>2. Effective(d, f) <=> E \cap UpTo(f) = {}
      BY <1>2, <3>1
    <3> QED BY <2>1, <2>3, <3>2
  <2> QED BY <2>2, <2>3
<1> QED BY <1>3, <1>5, <1>6 DEF d

\* On accepting, the prefix lists select what the dialog shows.
LEMMA CompilesHonest ==
  ASSUME NEW d \in Dialogs, ExclusionsWin(d.overrides)
  PROVE  /\ Compile(d) \in Scopes /\ Alive(Compile(d))
         /\ ~IsEmptySelection(d) =>
              \A f \in Folders : Effective(d, f) <=> Searched(Compile(d), f)
<1> DEFINE o == d.overrides
           s == Compile(d)
           In == s.includes
           Ex == s.excludes
<1>1. o \in Decisions /\ d.mode \in {"all", "selected"}
  BY DEF Dialogs
<1>2. DOMAIN o \in SUBSET Folders /\ \A g \in DOMAIN o : o[g] \in BOOLEAN
  BY <1>1, DecisionsTyped
<1>3. /\ \A f : f \in In <=> f \in DOMAIN o /\ o[f] /\ o[f] # Inherited(d, f)
      /\ \A f : f \in Ex <=> f \in DOMAIN o /\ ~o[f] /\ o[f] # Inherited(d, f)
      /\ s = [includes |-> In, excludes |-> Ex]
  BY DEF Compile
<1> HIDE DEF s, o
<1>4. /\ \A f : f \in In <=> f \in DOMAIN o /\ o[f] /\ ~Inherited(d, f)
      /\ \A f : f \in Ex <=> f \in DOMAIN o /\ ~o[f] /\ Inherited(d, f)
  BY <1>2, <1>3, EffectiveIs
<1>5. s \in Scopes
  BY <1>2, <1>3, <1>4 DEF Scopes
<1>6. Alive(s)
  <2> SUFFICES ASSUME NEW f \in In, NEW g \in Ex, g \in UpTo(f) PROVE FALSE
    BY DEF Alive, Within, UpTo
  <2> QED BY <1>4 DEF ExclusionsWin, UpTo, o
\* A folder is checked by the highest decision to check above it when nothing is the default.
<1>7. ASSUME d.mode = "selected", NEW f \in Folders, NEW t \in DOMAIN o \cap UpTo(f), o[t]
      PROVE  In \cap UpTo(f) # {}
  <2> DEFINE T == {g \in DOMAIN o \cap UpTo(f) : o[g]}
  <2>1. PICK g \in T : T \cap Above[g] = {}
    <3>1. T \in SUBSET UpTo(f) /\ T # {}
      BY <1>7
    <3> HIDE DEF T
    <3> QED BY <3>1, Highest
  <2>2. DOMAIN o \cap Above[g] = {}
    BY <2>1, ScopeAssumption DEF ExclusionsWin, UpTo, o
  <2>3. ~Inherited(d, g)
    BY <1>2, <1>7, <2>1, <2>2, EffectiveIs DEF Default, o
  <2> QED BY <1>4, <2>1, <2>3
\* A folder is unchecked by the highest decision not to check it.
<1>8. ASSUME NEW f \in Folders, NEW e \in DOMAIN o \cap UpTo(f), ~o[e],
             d.mode = "all" \/ \E t \in DOMAIN o \cap UpTo(f) : o[t]
      PROVE  Ex \cap UpTo(f) # {}
  <2> DEFINE T == {g \in DOMAIN o \cap UpTo(f) : ~o[g]}
  <2>1. PICK g \in T : T \cap Above[g] = {}
    <3>1. T \in SUBSET UpTo(f) /\ T # {}
      BY <1>8
    <3> HIDE DEF T
    <3> QED BY <3>1, Highest
  <2>2. Above[g] \subseteq UpTo(f) /\ g \in Folders
    BY <1>2, <2>1, ScopeAssumption DEF UpTo
  <2>3. \A h \in DOMAIN o \cap Above[g] : o[h]
    BY <2>1, <2>2
  <2>4. CASE DOMAIN o \cap Above[g] # {}
    BY <1>4, <2>1, <2>2, <2>3, <2>4, EffectiveIs DEF o
  <2>5. CASE DOMAIN o \cap Above[g] = {}
    <3>1. d.mode = "all"
      <4> SUFFICES ASSUME NEW t \in DOMAIN o \cap UpTo(f), o[t] PROVE FALSE
        BY <1>8
      <4>1. t # g /\ t \notin Above[g]
        BY <2>1, <2>5
      <4>2. g \in Above[t]
        BY <2>1, <4>1, InLine
      <4> QED BY <2>1, <4>2 DEF ExclusionsWin, o
    <3>2. Inherited(d, g)
      BY <2>2, <2>5, <3>1, EffectiveIs DEF Default, o
    <3> QED BY <1>4, <2>1, <3>2
  <2> QED BY <2>4, <2>5
<1>9. d.mode = "all" => In = {}
  <2> SUFFICES ASSUME d.mode = "all", NEW f \in In PROVE FALSE
    OBVIOUS
  <2>1. f \in DOMAIN o /\ o[f] /\ ~Inherited(d, f) /\ f \in Folders
    BY <1>2, <1>4
  <2> QED BY <2>1, EffectiveIs DEF Default, ExclusionsWin, o
<1>10. ASSUME ~IsEmptySelection(d), NEW f \in Folders
       PROVE  Effective(d, f) <=> Searched(s, f)
  <2>1. Searched(s, f) <=> (In = {} \/ In \cap UpTo(f) # {}) /\ Ex \cap UpTo(f) = {}
    BY DEF Searched, Within, UpTo
  <2>2. d.mode = "selected" => In # {}
    <3> SUFFICES ASSUME d.mode = "selected" PROVE In # {}
      OBVIOUS
    <3>1. PICK t \in DOMAIN o : o[t]
      BY <1>10 DEF IsEmptySelection, o
    <3>2. t \in Folders /\ t \in DOMAIN o \cap UpTo(t)
      BY <1>2 DEF UpTo
    <3> QED BY <1>7, <3>1, <3>2
  <2>3. CASE DOMAIN o \cap UpTo(f) = {}
    <3>1. Effective(d, f) <=> d.mode = "all"
      BY <2>3, EffectiveIs DEF Default, o
    <3>2. In \cap UpTo(f) = {} /\ Ex \cap UpTo(f) = {}
      BY <1>4, <2>3
    <3> QED BY <1>1, <1>9, <2>1, <2>2, <3>1, <3>2
  <2>4. CASE DOMAIN o \cap UpTo(f) # {}
    <3>1. Effective(d, f) <=> \A g \in DOMAIN o \cap UpTo(f) : o[g]
      BY <2>4, EffectiveIs DEF o
    <3>2. CASE \A g \in DOMAIN o \cap UpTo(f) : o[g]
      <4>1. Ex \cap UpTo(f) = {}
        BY <1>4, <3>2
      <4>2. In = {} \/ In \cap UpTo(f) # {}
        BY <1>1, <1>7, <1>9, <2>4, <3>2
      <4> QED BY <2>1, <3>1, <3>2, <4>1, <4>2
    <3>3. CASE ~ \A g \in DOMAIN o \cap UpTo(f) : o[g]
      <4>1. PICK e \in DOMAIN o \cap UpTo(f) : ~o[e]
        BY <3>3
      <4>2. CASE d.mode = "all" \/ \E t \in DOMAIN o \cap UpTo(f) : o[t]
        BY <1>8, <2>1, <3>1, <3>3, <4>1, <4>2
      <4>3. CASE ~(d.mode = "all" \/ \E t \in DOMAIN o \cap UpTo(f) : o[t])
        <5>1. In \cap UpTo(f) = {}
          BY <1>4, <4>3
        <5> QED BY <1>1, <2>1, <2>2, <3>1, <3>3, <4>3, <5>1
      <4> QED BY <4>2, <4>3
    <3> QED BY <3>2, <3>3
  <2> QED BY <2>3, <2>4
<1> QED BY <1>5, <1>6, <1>10 DEF s

-----------------------------------------------------------------------------
\* No decision at all.
LEMMA NothingDecided ==
  /\ NoOverrides \in Decisions /\ DOMAIN NoOverrides = {} /\ ExclusionsWin(NoOverrides)
<1>1. NoOverrides \in [{} -> BOOLEAN] /\ DOMAIN NoOverrides = {}
  BY DEF NoOverrides
<1> QED BY <1>1, DecisionsTyped DEF ExclusionsWin

\* The chips of the search page are edited.
LEMMA EditingChips ==
  ASSUME ScopeInv, EditChips
  PROVE  chips' \in Scopes /\ Alive(chips')
<1>1. chips \in Scopes /\ Alive(chips)
  BY DEF ScopeInv
<1>2. ASSUME NEW f \in Folders PROVE Included(chips, f) \in Scopes /\ Alive(Included(chips, f))
  BY <1>1, <1>2 DEF Scopes, Included, Alive, Within
<1>3. ASSUME NEW f \in Folders PROVE Excluded(chips, f) \in Scopes /\ Alive(Excluded(chips, f))
  BY <1>1, <1>3 DEF Scopes, Excluded, Alive, Within, Below
<1>4. ASSUME NEW f, NEW e \in BOOLEAN
      PROVE  Removed(chips, f, e) \in Scopes /\ Alive(Removed(chips, f, e))
  BY <1>1, <1>4 DEF Scopes, Removed, Alive, Within
<1>5. [includes |-> {}, excludes |-> {}] \in Scopes /\ Alive([includes |-> {}, excludes |-> {}])
  BY DEF Scopes, Alive
<1> QED BY <1>2, <1>3, <1>4, <1>5 DEF EditChips

\* What was decided below a folder goes with the decision that is taken for it.
LEMMA Toggling ==
  ASSUME ScopeInv, NEW f \in Folders, ~Blocked(dialog, f)
  PROVE  Toggled(dialog, f) \in Dialogs /\ ExclusionsWin(Toggled(dialog, f).overrides)
<1> DEFINE o == dialog.overrides
           kept == DOMAIN o \ (Below(f) \cup {f})
           now == IF Desired(dialog, f) = Inherited(dialog, f) THEN kept ELSE kept \cup {f}
           p == [g \in now |-> IF g = f THEN Desired(dialog, f) ELSE o[g]]
<1>1. dialog \in Dialogs /\ o \in Decisions /\ ExclusionsWin(o)
  BY DEF ScopeInv, Dialogs
<1>2. DOMAIN o \in SUBSET Folders /\ \A g \in DOMAIN o : o[g] \in BOOLEAN
  BY <1>1, DecisionsTyped
<1>3. Desired(dialog, f) \in BOOLEAN
  BY DEF Desired
<1>4. now \in SUBSET Folders /\ now \subseteq kept \cup {f}
  BY <1>2
<1>5. Desired(dialog, f) => \A g \in DOMAIN o \cap Above[f] : o[g]
  <2> SUFFICES ASSUME Desired(dialog, f), DOMAIN o \cap Above[f] # {}
               PROVE  \A g \in DOMAIN o \cap Above[f] : o[g]
    OBVIOUS
  <2>1. Inherited(dialog, f)
    BY DEF Blocked, Inherited, StateOf
  <2> QED BY <1>1, <2>1, EffectiveIs
<1>6. Toggled(dialog, f) = [dialog EXCEPT !.overrides = p]
  BY DEF Toggled
<1>7. p \in [now -> BOOLEAN]
  BY <1>2, <1>3, <1>4
<1>8. p \in Decisions /\ DOMAIN p = now
  <2> HIDE DEF p, now
  <2> QED BY <1>4, <1>7, DecisionsTyped
<1>9. \A g \in now : p[g] = IF g = f THEN Desired(dialog, f) ELSE o[g]
  OBVIOUS
<1> HIDE DEF p, now, o
<1>10. Toggled(dialog, f) \in Dialogs /\ Toggled(dialog, f).overrides = p
  BY <1>1, <1>6, <1>8 DEF Dialogs
<1>11. ExclusionsWin(p)
  <2> SUFFICES ASSUME NEW h \in now, p[h], NEW g \in now \cap Above[h] PROVE p[g]
    BY <1>8 DEF ExclusionsWin
  <2>1. CASE h = f
    <3>1. g # f /\ g \in DOMAIN o
      BY <1>4, <2>1, ScopeAssumption
    <3> QED BY <1>5, <1>9, <2>1, <3>1
  <2>2. CASE h # f
    <3>1. h \in DOMAIN o /\ f \notin Above[h]
      BY <1>2, <1>4, <2>2 DEF Below
    <3>2. g # f /\ g \in DOMAIN o
      BY <1>4, <3>1
    <3> QED BY <1>1, <1>9, <2>2, <3>1, <3>2 DEF ExclusionsWin
  <2> QED BY <2>1, <2>2
<1> QED BY <1>10, <1>11

\* The invariant holds.
LEMMA ScopeInvHolds == ScopeSpec => []ScopeInv
<1>1. ScopeInit => ScopeInv
  BY NothingDecided DEF ScopeInit, ScopeInv, Scopes, Dialogs, Alive
<1>2. ScopeInv /\ [ScopeNext]_scopeVars => ScopeInv'
  <2> SUFFICES ASSUME ScopeInv, [ScopeNext]_scopeVars PROVE ScopeInv'
    OBVIOUS
  <2>1. CASE EditChips
    BY <2>1, EditingChips DEF EditChips, ScopeInv
  <2>2. CASE OpenScopeDialog
    BY <2>2, OpensHonest DEF OpenScopeDialog, ScopeInv
  <2>3. CASE Toggle
    BY <2>3, Toggling DEF Toggle, ScopeInv
  <2>4. CASE SetMode \/ Reset
    <3>1. PICK m \in {"all", "selected"} :
            dialog' = [dialog EXCEPT !.mode = m, !.overrides = NoOverrides]
      <4>1. CASE SetMode
        BY <4>1 DEF SetMode
      <4>2. CASE Reset
        <5>1. dialog \in Dialogs
          BY DEF ScopeInv
        <5>2. dialog' = [dialog EXCEPT !.mode = dialog.mode, !.overrides = NoOverrides]
          BY <4>2, <5>1 DEF Reset, Dialogs
        <5> QED BY <5>1, <5>2 DEF Dialogs
      <4> QED BY <2>4, <4>1, <4>2
    <3> DEFINE d == [dialog EXCEPT !.mode = m]
    <3>2. d \in Dialogs /\ dialog' = [d EXCEPT !.overrides = NoOverrides]
      BY <3>1 DEF ScopeInv, Dialogs
    <3> HIDE DEF d
    <3>3. dialog' \in Dialogs /\ dialog'.overrides = NoOverrides
      BY <3>2, NothingDecided DEF Dialogs
    <3> QED BY <2>4, <3>3, NothingDecided DEF SetMode, Reset, ScopeInv
  <2>5. CASE CloseScopeDialog
    <3>1. dialog' \in Dialogs /\ dialog'.overrides = NoOverrides
      BY <2>5, NothingDecided DEF CloseScopeDialog, Dialogs
    <3>2. chips' \in Scopes /\ Alive(chips')
      BY <2>5, CompilesHonest DEF CloseScopeDialog, ScopeInv
    <3> QED BY <3>1, <3>2, NothingDecided DEF ScopeInv
  <2>6. CASE UNCHANGED scopeVars
    BY <2>6 DEF scopeVars, ScopeInv
  <2> QED BY <2>1, <2>2, <2>3, <2>4, <2>5, <2>6 DEF ScopeNext
<1> QED BY <1>1, <1>2, PTL DEF ScopeSpec

\* Chips and dialog keep their shape: decisions are about folders that exist
\* (search_scope_dialog.py).
THEOREM ScopeTyped == ScopeSpec => []ScopeTypeOK
<1>1. ScopeInv => ScopeTypeOK
  BY DecisionsTyped DEF ScopeInv, ScopeTypeOK, Scopes, Dialogs
<1> QED BY <1>1, ScopeInvHolds, PTL

\* For any tree of folders: the chips never show a scope that matches nothing, and the
\* check marks of the dialog are the folders that are searched (search_scope_dialog.py).
THEOREM ScopeIsHonestHolds == ScopeSpec => []ScopeIsHonest
<1>1. ScopeInv => ChipsAreAlive
  BY DEF ScopeInv, Alive, ChipsAreAlive
<1>2. ScopeInv => DialogIsHonest
  BY OpensHonest, CompilesHonest DEF ScopeInv, DialogIsHonest
<1>3. ScopeInv => ScopeIsHonest
  BY <1>1, <1>2 DEF ScopeIsHonest
<1> QED BY <1>3, ScopeInvHolds, PTL

-----------------------------------------------------------------------------
(***************************************************************************)
(* Uploads: a file the upload has called done is indexed with a content no *)
(* older than the one it had when the upload began. The disk only moves    *)
(* on, and of two writers of a document neither sends what is older than   *)
(* that.                                                                   *)
(***************************************************************************)

Rows == [edition : -1 .. MaxEdits, type : DocTypes]
Uploads == [at : {"idle", "next", "hash", "send"}, left : SUBSET Files, file : Files \cup {NoFile},
            remote : Rows, sent : -1 .. MaxEdits, force : BOOLEAN, type : DocTypes,
            cancelled : BOOLEAN, begun : [Files -> 0 .. MaxEdits], done : SUBSET Files]

\* What is on the disk, on the server and with the worker.
UploadTypes ==
  /\ disk \in [Files -> 0 .. MaxEdits] /\ server \in [Files -> Rows]
  /\ upload \in Uploads /\ chosen \subseteq Files
  /\ upload.at \in {"hash", "send"} => upload.file \in Files

\* The server has no document of the file, or one no older than the file was when the
\* upload began.
NoOlder(f, u) == server[f] = NoRow \/ server[f].edition >= u.begun[f]

\* The reindexer has its fields, and sends a file no older than the upload beside it
\* began with.
ReindexTyped ==
  /\ reindex = [at |-> reindex.at, left |-> reindex.left, file |-> reindex.file,
                type |-> reindex.type, sent |-> reindex.sent]
  /\ reindex.at = "send" /\ reindex.file \in Files =>
       /\ reindex.sent \in 0 .. MaxEdits /\ reindex.type \in DocTypes
       /\ reindex.sent >= upload.begun[reindex.file]

\* The disk only moves on, so what is read from it after the beginning is no older; the
\* document whose hash was fetched is there still, unless one no older has replaced it.
FreshEnough ==
  /\ \A f \in Files : upload.begun[f] <= disk[f]
  /\ upload.at = "send" => upload.sent >= upload.begun[upload.file]
  /\ upload.at = "hash" => NoOlder(upload.file, upload) \/ server[upload.file] = upload.remote

UploadInv == UploadTypes /\ ReindexTyped /\ FreshEnough /\ DoneIsIndexed

\* The document of one file after a request: what was sent, or what was there.
LEMMA StoredRows ==
  ASSUME NEW f \in Files, NEW e \in -1 .. MaxEdits, NEW t \in DocTypes, NEW force,
         server \in [Files -> Rows], Stored(f, e, t, force)
  PROVE  /\ server' \in [Files -> Rows]
         /\ \A g \in Files : server'[g] = server[g] \/ (g = f /\ server'[g].edition = e)
         /\ server'[f].edition = e
<1> PICK r : r = [edition |-> e, type |-> t]
  OBVIOUS
<1>1. r \in Rows /\ r.edition = e
  BY DEF Rows
<1>2. server' = server \/ server' = [server EXCEPT ![f] = r]
  BY DEF Stored
<1>3. server' = server => server[f].edition = e \/ server' = [server EXCEPT ![f] = r]
  BY DEF Stored
<1> QED BY <1>1, <1>2, <1>3

\* A request for a file outside the library changes nothing there.
LEMMA StoredElsewhere ==
  ASSUME NEW f, f \notin Files, NEW e, NEW t, NEW force,
         server \in [Files -> Rows], Stored(f, e, t, force)
  PROVE  server' = server
BY DEF Stored

\* A server that keeps each document, or takes one no older, keeps what is claimed of it.
LEMMA NewerServer ==
  ASSUME UploadInv, UNCHANGED <<disk, upload, chosen>>, server' \in [Files -> Rows],
         \A f \in Files : \/ server'[f] = server[f] \/ server'[f] = NoRow
                          \/ server'[f].edition >= upload.begun[f],
         ReindexTyped'
  PROVE  UploadInv'
<1>1. UploadTypes'
  BY DEF UploadInv, UploadTypes
<1>2. FreshEnough'
  BY DEF UploadInv, UploadTypes, FreshEnough, NoOlder
<1>3. upload.done \subseteq Files
  BY DEF UploadInv, UploadTypes, Uploads
<1>4. DoneIsIndexed'
  BY <1>3 DEF UploadInv, DoneIsIndexed
<1> QED BY <1>1, <1>2, <1>4 DEF UploadInv

\* Nothing that is claimed has changed.
LEMMA UploadsStay ==
  ASSUME UploadInv, UNCHANGED <<disk, server, upload, chosen, reindex>>
  PROVE  UploadInv'
BY DEF UploadInv, UploadTypes, ReindexTyped, FreshEnough, NoOlder, DoneIsIndexed

\* What happens outside the client.
LEMMA OutsideUploads ==
  ASSUME UploadInv, ClientUploadsAssumption, EditFile \/ DeletedElsewhere
  PROVE  UploadInv'
<1>1. CASE EditFile
  <2> PICK f \in Files : disk[f] < MaxEdits /\ disk' = [disk EXCEPT ![f] = @ + 1]
    BY <1>1 DEF EditFile
  <2>1. /\ disk' \in [Files -> 0 .. MaxEdits] /\ \A g \in Files : disk[g] <= disk'[g]
        /\ upload.begun \in [Files -> 0 .. MaxEdits]
        /\ UNCHANGED <<server, upload, chosen, reindex>>
    BY <1>1 DEF UploadInv, UploadTypes, Uploads, ClientUploadsAssumption, EditFile
  <2>2. \A g \in Files : disk[g] \in Int /\ disk'[g] \in Int /\ upload.begun[g] \in Int
    BY <2>1 DEF UploadInv, UploadTypes
  <2>3. \A g \in Files : upload.begun[g] <= disk'[g]
    BY <2>1, <2>2 DEF UploadInv, FreshEnough
  <2> QED BY <2>1, <2>3 DEF UploadInv, UploadTypes, ReindexTyped, FreshEnough, NoOlder,
                            DoneIsIndexed
<1>2. CASE DeletedElsewhere
  <2>1. NoRow \in Rows
    BY DEF NoRow, Rows, DocTypes, ClientUploadsAssumption
  <2>2. PICK f \in Files : server' = [server EXCEPT ![f] = NoRow]
    BY <1>2 DEF DeletedElsewhere
  <2>3. UNCHANGED <<disk, upload, chosen, reindex>>
    BY <1>2 DEF DeletedElsewhere
  <2>4. server \in [Files -> Rows] /\ ReindexTyped'
    BY <2>3 DEF UploadInv, UploadTypes, ReindexTyped
  <2> QED BY <2>1, <2>2, <2>3, <2>4, NewerServer
<1> QED BY <1>1, <1>2
\* What the reindexer asks of the server, and what comes of it.
LEMMA Reindexes ==
  ASSUME UploadInv, ClientUploadsAssumption,
         \/ ProcessQueue \/ ReindexNow \/ FetchType \/ FinishReindex \/ QueueProcessed
  PROVE  UploadInv'
<1> USE DEF Reindexer
<1>0. /\ server \in [Files -> Rows] /\ disk \in [Files -> 0 .. MaxEdits]
      /\ upload.begun \in [Files -> 0 .. MaxEdits] /\ MaxEdits \in Nat
  BY DEF UploadInv, UploadTypes, Uploads, ClientUploadsAssumption
<1>1. CASE ProcessQueue \/ ReindexNow \/ QueueProcessed
  <2>1. UNCHANGED <<disk, upload, chosen, server>>
    BY <1>1 DEF ProcessQueue, ReindexNow, QueueProcessed
  <2>2. reindex' = NoReindex \/ \E S : reindex' = [NoReindex EXCEPT !.at = "next", !.left = S]
    BY <1>1 DEF ProcessQueue, ReindexNow, QueueProcessed
  <2>3. ReindexTyped'
    <3>1. CASE reindex' = NoReindex
      BY <3>1 DEF ReindexTyped, NoReindex
    <3>2. CASE \E S : reindex' = [NoReindex EXCEPT !.at = "next", !.left = S]
      <4> PICK S : reindex' = [NoReindex EXCEPT !.at = "next", !.left = S]
        BY <3>2
      <4>1. reindex' = [at |-> "next", left |-> S, file |-> NoFile, type |-> "none", sent |-> -1]
        BY DEF NoReindex
      <4> QED BY <4>1 DEF ReindexTyped
    <3> QED BY <2>2, <3>1, <3>2
  <2> QED BY <2>1, <2>3, <1>0, NewerServer
<1>2. CASE FetchType
  <2>1. PICK f \in reindex.left :
             \E t : /\ reindex' = [reindex EXCEPT !.at = "send", !.left = @ \ {f}, !.file = f,
                                                 !.sent = disk[f], !.type = t]
                    /\ t = server[f].type \/ t = "none"
    <3>1. PICK f \in reindex.left :
               LET r == [reindex EXCEPT !.at = "send", !.left = @ \ {f}, !.file = f,
                                        !.sent = disk[f]] IN
               \/ reindex' = [r EXCEPT !.type = server[f].type]
               \/ reindex' = [r EXCEPT !.type = "none"]
      BY <1>2 DEF FetchType
    <3> QED BY <3>1
  <2>2. UNCHANGED <<disk, upload, chosen, server>>
    BY <1>2 DEF FetchType
  <2> SUFFICES ASSUME reindex'.at = "send", reindex'.file \in Files
               PROVE  /\ reindex'.sent \in 0 .. MaxEdits /\ reindex'.type \in DocTypes
                      /\ reindex'.sent >= upload.begun[reindex'.file]
    <3>1. reindex' = [at |-> reindex'.at, left |-> reindex'.left, file |-> reindex'.file,
                      type |-> reindex'.type, sent |-> reindex'.sent]
      BY <2>1 DEF UploadInv, ReindexTyped
    <3> QED BY <3>1, <2>2, <1>0, NewerServer DEF ReindexTyped
  <2> QED BY <2>1, <1>0 DEF UploadInv, FreshEnough, Rows, DocTypes
<1>3. CASE FinishReindex
  <2>1. /\ UNCHANGED <<disk, upload, chosen>> /\ reindex.at = "send"
        /\ reindex' = [reindex EXCEPT !.at = "next"]
        /\ server' = server \/ Stored(reindex.file, reindex.sent, reindex.type, TRUE)
    BY <1>3 DEF FinishReindex
  <2>4. ReindexTyped'
    BY <2>1 DEF UploadInv, ReindexTyped
  <2>2. CASE server' = server \/ reindex.file \notin Files
    BY <2>1, <2>2, <2>4, <1>0, StoredElsewhere, NewerServer
  <2>3. CASE /\ Stored(reindex.file, reindex.sent, reindex.type, TRUE)
             /\ reindex.file \in Files
    <3>1. /\ reindex.sent \in -1 .. MaxEdits /\ reindex.type \in DocTypes
          /\ reindex.sent >= upload.begun[reindex.file]
      BY <2>1, <2>3, <1>0 DEF UploadInv, ReindexTyped
    <3>2. /\ server' \in [Files -> Rows]
          /\ \A f \in Files : \/ server'[f] = server[f]
                              \/ f = reindex.file /\ server'[f].edition = reindex.sent
      BY <3>1, <2>3, <1>0, StoredRows
    <3> QED BY <3>1, <3>2, <2>4, <2>1, NewerServer
  <2> QED BY <2>1, <2>2, <2>3
<1> QED BY <1>1, <1>2, <1>3

\* The selection, the beginning and the end of an upload.
LEMMA UploadBeginsAndEnds ==
  ASSUME UploadInv, ClientUploadsAssumption,
         SelectFiles \/ UploadFile \/ CancelUpload \/ AllFinished
  PROVE  UploadInv'
<1>0. /\ UNCHANGED <<disk, server>> /\ disk \in [Files -> 0 .. MaxEdits]
      /\ chosen' \subseteq Files
  BY DEF SelectFiles, UploadFile, CancelUpload, AllFinished, Worker, UploadInv, UploadTypes
<1>1. CASE SelectFiles
  BY <1>0, <1>1 DEF SelectFiles, UploadInv, UploadTypes, ReindexTyped, FreshEnough, NoOlder,
                    DoneIsIndexed
<1>2. CASE UploadFile \/ AllFinished
  <2>1. reindex'.at # "send" /\ UNCHANGED reindex
    BY <1>2 DEF UploadFile, AllFinished, UploadInv, UploadTypes
  <2>2. /\ upload' \in Uploads /\ upload'.at \notin {"hash", "send"} /\ upload'.done = {}
        /\ upload'.begun = disk \/ upload'.begun = [f \in Files |-> 0]
    <3>1. NoRow \in Rows /\ MaxEdits \in Nat
      BY DEF Rows, NoRow, DocTypes, ClientUploadsAssumption
    <3>2. [f \in Files |-> 0] \in [Files -> 0 .. MaxEdits]
      BY <3>1
    <3>3. CASE AllFinished
      <4>1. upload' = Quiet
        BY <3>3 DEF AllFinished
      <4> QED BY <3>1, <3>2, <4>1 DEF Quiet, Uploads, DocTypes
    <3>4. CASE UploadFile
      <4>1. PICK force \in BOOLEAN, type \in DocTypes :
                 upload' = [Quiet EXCEPT !.at = "next", !.left = chosen, !.force = force,
                                         !.type = type, !.begun = disk]
        BY <3>4 DEF UploadFile
      <4>2. upload' = [at |-> "next", left |-> chosen, file |-> NoFile, remote |-> NoRow,
                       sent |-> -1, force |-> force, type |-> type, cancelled |-> FALSE,
                       begun |-> disk, done |-> {}]
        BY <4>1 DEF Quiet
      <4>3. chosen \subseteq Files
        BY DEF UploadInv, UploadTypes
      <4> QED BY <3>1, <4>2, <4>3, <1>0 DEF Uploads
    <3> QED BY <1>2, <3>3, <3>4
  <2> QED BY <1>0, <2>1, <2>2 DEF UploadInv, UploadTypes, ReindexTyped, FreshEnough, DoneIsIndexed
<1>3. CASE CancelUpload
  <2>1. /\ UNCHANGED reindex /\ upload' = [upload EXCEPT !.cancelled = TRUE]
    BY <1>3 DEF CancelUpload, Worker
  <2>2. /\ upload' \in Uploads
        /\ \A field \in {"at", "file", "remote", "sent", "begun", "done"} :
             upload'[field] = upload[field]
    BY <2>1 DEF UploadInv, UploadTypes, Uploads
  <2>3. /\ upload'.at = upload.at /\ upload'.file = upload.file /\ upload'.sent = upload.sent
        /\ upload'.begun = upload.begun /\ upload'.done = upload.done
        /\ upload'.remote = upload.remote
    BY <2>2
  <2> HIDE DEF Uploads
  <2> QED BY <1>0, <2>1, <2>2, <2>3 DEF UploadInv, UploadTypes, ReindexTyped, FreshEnough,
                                        NoOlder, DoneIsIndexed
<1> QED BY <1>1, <1>2, <1>3
\* The worker with its record changed: what has to be shown of a step of its own.
LEMMA WorkerMoves ==
  ASSUME UploadInv, NEW u, Worker(u), u \in Uploads, server' \in [Files -> Rows],
         u.begun = upload.begun, u.at # "idle",
         u.at \in {"hash", "send"} => u.file \in Files,
         u.at = "send" => u.sent >= upload.begun[u.file],
         u.at = "hash" => server'[u.file] = u.remote,
         \A f \in u.done : server'[f] = NoRow \/ server'[f].edition >= upload.begun[f]
  PROVE  UploadInv'
<1>1. upload' = u /\ UNCHANGED <<disk, chosen, reindex>>
  BY DEF Worker
<1>2. UploadTypes'
  BY <1>1 DEF UploadInv, UploadTypes
<1>3. ReindexTyped'
  BY <1>1 DEF UploadInv, ReindexTyped
<1>4. FreshEnough'
  BY <1>1 DEF UploadInv, FreshEnough, NoOlder
<1>5. DoneIsIndexed'
  BY <1>1 DEF DoneIsIndexed
<1> QED BY <1>2, <1>3, <1>4, <1>5 DEF UploadInv

\* What is reported of a file, and the record with which one is sent.
LEMMA ReportedTyped ==
  ASSUME UploadInv, ClientUploadsAssumption, NEW f \in Files, NEW ok \in BOOLEAN
  PROVE  /\ Reported(f, ok) \in Uploads /\ Reported(f, ok).at = "next"
         /\ Reported(f, ok).begun = upload.begun
         /\ Reported(f, ok).done = IF ok THEN upload.done \cup {f} ELSE upload.done
         /\ Sends(f) \in Uploads /\ Sends(f).at = "send" /\ Sends(f).file = f
         /\ Sends(f).sent = disk[f] /\ Sends(f).begun = upload.begun
         /\ Sends(f).done = upload.done
<1>1. /\ NoRow \in Rows /\ upload \in Uploads /\ disk[f] \in -1 .. MaxEdits
      /\ -1 \in -1 .. MaxEdits
  BY DEF NoRow, Rows, DocTypes, ClientUploadsAssumption, UploadInv, UploadTypes
<1> QED BY <1>1 DEF Reported, Sends, Uploads

\* The steps of the worker.
LEMMA WorkerSteps ==
  ASSUME UploadInv, ClientUploadsAssumption, TakeNext \/ CompareHash \/ FinishFile
  PROVE  UploadInv'
<1>0. /\ server \in [Files -> Rows] /\ disk \in [Files -> 0 .. MaxEdits] /\ upload \in Uploads
      /\ MaxEdits \in Nat /\ upload.begun \in [Files -> 0 .. MaxEdits]
      /\ upload.done \subseteq Files /\ upload.left \subseteq Files
      /\ \A f \in Files : upload.begun[f] <= disk[f]
      /\ \A f \in upload.done : server[f] = NoRow \/ server[f].edition >= upload.begun[f]
  BY DEF UploadInv, UploadTypes, FreshEnough, DoneIsIndexed, Uploads, ClientUploadsAssumption
<1>1. CASE TakeNext
  <2> PICK f \in upload.left :
        LET u == [upload EXCEPT !.left = @ \ {f}, !.file = f] IN
        \/ Worker([u EXCEPT !.at = "send", !.sent = disk[f]])
        \/ Worker([u EXCEPT !.at = "hash", !.remote = server[f]])
        \/ Worker([u EXCEPT !.at = "next", !.file = NoFile])
    BY <1>1 DEF TakeNext
  <2>0. UNCHANGED server /\ f \in Files
    BY <1>0, <1>1 DEF TakeNext
  <2> PICK g : g = [upload EXCEPT !.left = @ \ {f}, !.file = f]
    OBVIOUS
  <2>1. g \in Uploads /\ g.file = f /\ g.begun = upload.begun /\ g.done = upload.done
    BY <1>0, <2>0 DEF Uploads
  <2>2. CASE Worker([g EXCEPT !.at = "send", !.sent = disk[f]])
    <3> PICK u : u = [g EXCEPT !.at = "send", !.sent = disk[f]]
      OBVIOUS
    <3>0. disk[f] \in -1 .. MaxEdits
      BY <1>0, <2>0
    <3>1. /\ u \in Uploads /\ u.at = "send" /\ u.file = f /\ u.sent = disk[f]
          /\ u.begun = upload.begun /\ u.done = upload.done
      BY <2>0, <2>1, <3>0 DEF Uploads
    <3> QED BY <1>0, <2>0, <2>2, <3>1, WorkerMoves
  <2>3. CASE Worker([g EXCEPT !.at = "hash", !.remote = server[f]])
    <3> PICK u : u = [g EXCEPT !.at = "hash", !.remote = server[f]]
      OBVIOUS
    <3>1. /\ u \in Uploads /\ u.at = "hash" /\ u.file = f /\ u.remote = server[f]
          /\ u.begun = upload.begun /\ u.done = upload.done
      BY <1>0, <2>0, <2>1 DEF Uploads
    <3> QED BY <1>0, <2>0, <2>3, <3>1, WorkerMoves
  <2>4. CASE Worker([g EXCEPT !.at = "next", !.file = NoFile])
    <3> PICK u : u = [g EXCEPT !.at = "next", !.file = NoFile]
      OBVIOUS
    <3>1. /\ u \in Uploads /\ u.at = "next" /\ u.begun = upload.begun /\ u.done = upload.done
      BY <1>0, <2>0, <2>1 DEF Uploads
    <3> QED BY <1>0, <2>0, <2>4, <3>1, WorkerMoves
  <2> QED BY <2>2, <2>3, <2>4
<1>2. CASE CompareHash
  <2> PICK f : f = upload.file
    OBVIOUS
  <2>1. f \in Files /\ UNCHANGED server /\ upload.at = "hash"
    BY <1>2 DEF CompareHash, UploadInv, UploadTypes
  <2>2. CASE Unchanged(f) /\ Worker(Reported(f, TRUE))
    <3>1. server[f] = NoRow \/ server[f].edition >= upload.begun[f]
      BY <1>0, <2>1, <2>2 DEF UploadInv, FreshEnough, NoOlder, Unchanged
    <3> PICK u : u = Reported(f, TRUE)
      OBVIOUS
    <3>2. /\ u \in Uploads /\ u.at = "next" /\ u.begun = upload.begun
          /\ u.done = upload.done \cup {f} /\ Worker(u) /\ server' = server
      BY <2>1, <2>2, ReportedTyped
    <3> QED BY <1>0, <3>1, <3>2, WorkerMoves
  <2>3. CASE Worker(Sends(f))
    <3> PICK u : u = Sends(f)
      OBVIOUS
    <3>1. /\ u \in Uploads /\ u.at = "send" /\ u.file = f /\ u.sent = disk[f]
          /\ u.begun = upload.begun /\ u.done = upload.done
      BY <2>1, ReportedTyped
    <3>2. Worker(u) /\ server' = server /\ u.sent >= upload.begun[u.file]
      BY <1>0, <2>1, <2>3, <3>1
    <3> QED BY <1>0, <2>1, <3>1, <3>2, WorkerMoves
  <2> QED BY <1>2, <2>2, <2>3 DEF CompareHash
<1>3. CASE FinishFile
  <2> PICK f : f = upload.file
    OBVIOUS
  <2> PICK force : force = (upload.force \/ upload.remote # NoRow)
    OBVIOUS
  <2>1. /\ f \in Files /\ upload.sent \in -1 .. MaxEdits /\ upload.type \in DocTypes
        /\ upload.sent >= upload.begun[f]
    BY <1>0, <1>3 DEF FinishFile, UploadInv, UploadTypes, FreshEnough, Uploads
  <2>2. CASE /\ Stored(f, upload.sent, upload.type, force)
             /\ \E ok \in BOOLEAN : Worker(Reported(f, ok))
    <3>1. /\ server' \in [Files -> Rows] /\ server'[f].edition = upload.sent
          /\ \A g \in Files : server'[g] = server[g] \/ g = f
      BY <1>0, <2>1, <2>2, StoredRows
    <3>2. \A g \in upload.done \cup {f} :
             server'[g] = NoRow \/ server'[g].edition >= upload.begun[g]
      BY <1>0, <2>1, <3>1
    <3> PICK ok \in BOOLEAN : Worker(Reported(f, ok))
      BY <2>2
    <3> PICK u : u = Reported(f, ok)
      OBVIOUS
    <3>3. /\ u \in Uploads /\ u.at = "next" /\ u.begun = upload.begun
          /\ u.done \subseteq upload.done \cup {f}
      <4>1. CASE ok = TRUE
        BY <2>1, <4>1, ReportedTyped, ZenonT(40)
      <4>2. CASE ok = FALSE
        BY <2>1, <4>2, ReportedTyped
      <4> QED BY <4>1, <4>2
    <3>4. Worker(u)
      OBVIOUS
    <3> QED BY <3>1, <3>2, <3>3, <3>4, WorkerMoves
  <2>3. CASE Worker(Reported(f, FALSE)) /\ UNCHANGED server
    <3> PICK u : u = Reported(f, FALSE)
      OBVIOUS
    <3>1. u \in Uploads /\ u.at = "next" /\ u.begun = upload.begun /\ u.done = upload.done
      BY <2>1, ReportedTyped
    <3>2. Worker(u) /\ server' = server
      BY <2>3
    <3> QED BY <1>0, <3>1, <3>2, WorkerMoves
  <2> QED BY <1>3, <2>2, <2>3 DEF FinishFile, Fails
<1> QED BY <1>1, <1>2, <1>3

\* The invariant of the uploads.
LEMMA UploadInvHolds == UploadSpec => []UploadInv
<1> USE ClientUploadsAssumption
<1>1. UploadInit => UploadInv
  <2> SUFFICES ASSUME UploadInit  PROVE UploadInv
    OBVIOUS
  <2>1. NoRow \in Rows /\ MaxEdits \in Nat
    BY DEF Rows, NoRow, DocTypes, ClientUploadsAssumption
  <2>2. [f \in Files |-> 0] \in [Files -> 0 .. MaxEdits]
    BY <2>1
  <2>3. /\ Quiet \in Uploads /\ Quiet.at = "idle" /\ Quiet.done = {}
        /\ Quiet.begun = [f \in Files |-> 0]
    BY <2>1, <2>2 DEF Quiet, Uploads, DocTypes
  <2>4. ReindexTyped
    BY DEF UploadInit, NoReindex, ReindexTyped
  <2> QED BY <2>1, <2>2, <2>3, <2>4 
         DEF UploadInit, UploadInv, UploadTypes, FreshEnough, DoneIsIndexed
<1>2. UploadInv /\ [UploadNext]_uploadVars => UploadInv'
  <2> SUFFICES ASSUME UploadInv, [UploadNext]_uploadVars  PROVE UploadInv'
    OBVIOUS
  <2>1. CASE EditFile \/ DeletedElsewhere
    BY <2>1, OutsideUploads
  <2>2. CASE SelectFiles \/ UploadFile \/ CancelUpload \/ AllFinished
    BY <2>2, UploadBeginsAndEnds
  <2>3. CASE TakeNext \/ CompareHash \/ FinishFile
    BY <2>3, WorkerSteps
  <2>4. CASE OpenPath \/ QueueEntry \/ RemoveEntry \/ ClearQueue \/ ClearList
    BY <2>4, UploadsStay DEF OpenPath, QueueEntry, RemoveEntry, ClearQueue, ClearList, Panel
  <2>5. CASE \/ ProcessQueue \/ ReindexNow \/ FetchType \/ FinishReindex \/ QueueProcessed
    BY <2>5, Reindexes
  <2>6. CASE UNCHANGED uploadVars
    BY <2>6, UploadsStay DEF uploadVars
  <2> QED BY <2>1, <2>2, <2>3, <2>4, <2>5, <2>6 DEF UploadNext
<1> QED BY <1>1, <1>2, PTL DEF UploadSpec

\* For any files, edits and lost requests, beside a reindexer of the same documents: a
\* file the upload reports as done is on the server in the content it had when the upload
\* began, or a later one, unless its document was deleted since (UploadWorker.run,
\* process_queue).
THEOREM DoneIsIndexedHolds == UploadSpec => []DoneIsIndexed
<1>1. UploadInv => DoneIsIndexed
  BY DEF UploadInv
<1> QED BY <1>1, UploadInvHolds, PTL

-----------------------------------------------------------------------------
(* The recent files and the selection.                                      *)

RecentEntry == [path : Files, queued : BOOLEAN]

\* No path is twice in the list r.
Distinct(r) == \A i, k \in 1 .. Len(r) : r[i].path = r[k].path => i = k

RecentOK(r) == r \in Seq(RecentEntry) /\ Len(r) <= MaxRecent /\ Distinct(r)

\* What is left of an upload has not been done, and there is a selection while one runs.
SelectionKept ==
  /\ upload.done \cap upload.left = {} /\ (upload.at # "idle" => chosen # {})
  /\ upload.at \in {"hash", "send"} => upload.file \notin upload.left

\* A sequence without the member at a place.
LEMMA RemovedIs ==
  ASSUME NEW S, NEW s \in Seq(S), NEW n \in Nat, n = Len(s), NEW k \in 1 .. n,
         NEW m \in Nat, n = m + 1
  PROVE  /\ RemoveAt(s, k) \in Seq(S) /\ Len(RemoveAt(s, k)) = m
         /\ \A i \in 1 .. m : /\ i < k => RemoveAt(s, k)[i] = s[i]
                              /\ i >= k => RemoveAt(s, k)[i] = s[i + 1]
<1>0. /\ k \in Int /\ k - 1 \in Nat /\ n - k \in Nat
      /\ \A i \in 1 .. n : s[i] \in S
  <2>1. \A i \in 1 .. n : s[i] \in S
    BY ElementOfSeq
  <2>2. k \in Int /\ k - 1 \in Nat /\ n - k \in Nat
    OBVIOUS
  <2> QED BY <2>1, <2>2
<1> PICK a, b : a = SubSeq(s, 1, k - 1) /\ b = SubSeq(s, k + 1, n)
  OBVIOUS
<1>1. a = [i \in 1 .. k - 1 |-> s[i]]
  BY <1>0
<1>2. b = [i \in 1 .. n - k |-> s[k + i]]
  BY <1>0
<1>3. a \in Seq(S) /\ Len(a) = k - 1
  BY <1>0, <1>1
<1>4. b \in Seq(S) /\ Len(b) = n - k
  BY <1>0, <1>2
<1>5. \A t \in Seq(S), u \in Seq(S) :
        /\ t \o u \in Seq(S) /\ Len(t \o u) = Len(t) + Len(u)
        /\ \A i \in 1 .. Len(t) + Len(u) :
             (t \o u)[i] = IF i <= Len(t) THEN t[i] ELSE u[i - Len(t)]
  BY ConcatProperties
<1> PICK w : w = a \o b
  OBVIOUS
<1> PICK p, q : p = k - 1 /\ q = n - k
  OBVIOUS
<1>6. /\ w \in Seq(S) /\ Len(w) = p + q
      /\ \A i \in 1 .. p + q : w[i] = IF i <= p THEN a[i] ELSE b[i - p]
  <2>1. a \in Seq(S) /\ b \in Seq(S) /\ Len(a) = p /\ Len(b) = q
    BY <1>3, <1>4
  <2>2. /\ a \o b \in Seq(S) /\ Len(a \o b) = Len(a) + Len(b)
        /\ \A i \in 1 .. Len(a) + Len(b) :
             (a \o b)[i] = IF i <= Len(a) THEN a[i] ELSE b[i - Len(a)]
    BY <1>5, <2>1, Zenon
  <2> QED BY <2>1, <2>2, Zenon
<1>7. RemoveAt(s, k) = w
  BY DEF RemoveAt
<1>8. p + q = m /\ p = k - 1
  BY <1>0
<1>9. ASSUME NEW i \in 1 .. m
      PROVE  (i < k => w[i] = s[i]) /\ (i >= k => w[i] = s[i + 1])
  <2>0. w[i] = IF i <= k - 1 THEN a[i] ELSE b[i - (k - 1)]
    BY <1>6, <1>8
  <2>1. CASE i <= k - 1
    <3>1. i \in 1 .. k - 1 /\ ~(i >= k)
      BY <1>0, <2>1
    <3>2. w[i] = s[i]
      BY <1>1, <2>0, <2>1, <3>1
    <3> QED BY <3>1, <3>2
  <2>2. CASE ~(i <= k - 1)
    <3>1. i - (k - 1) \in 1 .. n - k /\ k + (i - (k - 1)) = i + 1 /\ ~(i < k)
      BY <1>0, <2>2
    <3>2. b[i - (k - 1)] = s[k + (i - (k - 1))]
      BY <1>2, <3>1
    <3>3. w[i] = s[i + 1]
      BY <2>0, <2>2, <3>1, <3>2
    <3> QED BY <3>1, <3>3
  <2> QED BY <2>1, <2>2
<1>10. w \in Seq(S) /\ Len(w) = m
  BY <1>6, <1>8
<1> QED BY <1>7, <1>9, <1>10

\* The first members of a sequence.
LEMMA FirstMembers ==
  ASSUME NEW S, NEW s \in Seq(S), NEW n \in Nat, n = Len(s), NEW m \in 0 .. n
  PROVE  /\ SubSeq(s, 1, m) \in Seq(S) /\ Len(SubSeq(s, 1, m)) = m
         /\ \A i \in 1 .. m : SubSeq(s, 1, m)[i] = s[i]
<1>0. m \in Nat /\ \A i \in 1 .. m : s[i] \in S
  OBVIOUS
<1> PICK a : a = SubSeq(s, 1, m)
  OBVIOUS
<1>1. a = [i \in 1 .. m |-> s[i]]
  BY <1>0
<1> QED BY <1>0, <1>1

\* A list with other marks at the same paths.
LEMMA SamePaths ==
  ASSUME NEW r, RecentOK(r), NEW s \in Seq(RecentEntry), Len(s) = Len(r),
         \A i \in 1 .. Len(r) : s[i].path = r[i].path
  PROVE  RecentOK(s)
BY DEF RecentOK, Distinct

\* A list with one more entry in front.
LEMMA EntryInFront ==
  ASSUME NEW r \in Seq(RecentEntry), Distinct(r), NEW e \in RecentEntry,
         \A i \in 1 .. Len(r) : r[i].path # e.path
  PROVE  /\ <<e>> \o r \in Seq(RecentEntry) /\ Len(<<e>> \o r) = Len(r) + 1
         /\ Distinct(<<e>> \o r)
<1>1. <<e>> \in Seq(RecentEntry) /\ Len(<<e>>) = 1 /\ <<e>>[1] = e /\ Len(r) \in Nat
  BY LenProperties
<1> PICK s : s = <<e>> \o r
  OBVIOUS
<1>2. /\ s \in Seq(RecentEntry) /\ Len(s) = Len(r) + 1
      /\ \A i \in 1 .. Len(r) + 1 : s[i] = IF i = 1 THEN e ELSE r[i - 1]
  BY <1>1, ConcatProperties
<1>3. ASSUME NEW i \in 1 .. Len(s), NEW k \in 1 .. Len(s), s[i].path = s[k].path
      PROVE  i = k
  <2>1. CASE i = 1 /\ k # 1
    BY <1>1, <1>2, <1>3, <2>1
  <2>2. CASE k = 1 /\ i # 1
    BY <1>1, <1>2, <1>3, <2>2
  <2>3. CASE i # 1 /\ k # 1
    <3>1. i - 1 \in 1 .. Len(r) /\ k - 1 \in 1 .. Len(r)
      BY <1>1, <1>2, <2>3
    <3>2. r[i - 1].path = r[k - 1].path
      BY <1>2, <1>3, <2>3
    <3> QED BY <3>1, <3>2 DEF Distinct
  <2> QED BY <2>1, <2>2, <2>3
<1> QED BY <1>2, <1>3 DEF Distinct

\* The list without an entry it has.
LEMMA WithoutIs ==
  ASSUME RecentOK(recent), NEW f \in Files, Listed(f)
  PROVE  /\ Without(f) \in Seq(RecentEntry) /\ Distinct(Without(f))
         /\ Len(Without(f)) = Len(recent) - 1
         /\ \A i \in 1 .. Len(Without(f)) : Without(f)[i].path # f
<1>1. /\ recent \in Seq(RecentEntry) /\ Len(recent) \in Nat
      /\ DOMAIN recent = 1 .. Len(recent)
      /\ \A i \in 1 .. Len(recent) : recent[i] \in RecentEntry
  BY LenProperties, ElementOfSeq DEF RecentOK
<1>2. PICK k, n, w : /\ k = CHOOSE i \in DOMAIN recent : recent[i].path = f
                     /\ n = Len(recent) /\ w = Without(f)
  OBVIOUS
<1>0. n = Len(recent) /\ w = Without(f)
  BY <1>2
<1>4. n \in Nat /\ k \in 1 .. n /\ recent[k].path = f
  BY <1>1, <1>2 DEF Listed, Entries
<1>5. PICK l \in Nat : n = l + 1
  <2>1. n - 1 \in Nat /\ n = (n - 1) + 1
    BY <1>4
  <2> QED BY <2>1
<1>3. w = RemoveAt(recent, k)
  BY <1>2 DEF Without
<1>6. /\ w \in Seq(RecentEntry) /\ Len(w) = l
      /\ \A i \in 1 .. l : (i < k => w[i] = recent[i]) /\ (i >= k => w[i] = recent[i + 1])
  <2>1. recent \in Seq(RecentEntry) /\ n \in Nat /\ n = Len(recent) /\ k \in 1 .. n
    BY <1>0, <1>1, <1>4
  <2>2. /\ RemoveAt(recent, k) \in Seq(RecentEntry) /\ Len(RemoveAt(recent, k)) = l
        /\ \A i \in 1 .. l : /\ i < k => RemoveAt(recent, k)[i] = recent[i]
                             /\ i >= k => RemoveAt(recent, k)[i] = recent[i + 1]
    BY <1>5, <2>1, RemovedIs, Zenon
  <2> QED BY <1>3, <2>2, Zenon
<1>7. ASSUME NEW i \in 1 .. l
      PROVE  \E m \in 1 .. n : /\ m # k /\ w[i] = recent[m]
                               /\ m = IF i < k THEN i ELSE i + 1
  <2>1. CASE i < k
    <3>1. i \in 1 .. n /\ i # k /\ w[i] = recent[i]
      BY <1>4, <1>5, <1>6, <2>1
    <3> QED BY <2>1, <3>1
  <2>2. CASE ~(i < k)
    <3>1. i + 1 \in 1 .. n /\ i + 1 # k /\ i >= k
      BY <1>4, <1>5, <2>2
    <3>2. w[i] = recent[i + 1]
      BY <1>6, <3>1
    <3> QED BY <2>2, <3>1, <3>2
  <2> QED BY <2>1, <2>2
<1>8. \A i \in 1 .. l : w[i].path # f
  BY <1>0, <1>4, <1>7 DEF RecentOK, Distinct
<1>9. ASSUME NEW i \in 1 .. l, NEW j \in 1 .. l, w[i].path = w[j].path
      PROVE  i = j
  <2> PICK m \in 1 .. n : w[i] = recent[m] /\ m = IF i < k THEN i ELSE i + 1
    BY <1>7
  <2> PICK h \in 1 .. n : w[j] = recent[h] /\ h = IF j < k THEN j ELSE j + 1
    BY <1>7
  <2>1. m = h
    BY <1>0, <1>9 DEF RecentOK, Distinct
  <2> QED BY <1>4, <1>5, <2>1
<1>10. Distinct(w)
  BY <1>6, <1>9 DEF Distinct
<1>11. l = Len(recent) - 1
  BY <1>0, <1>4, <1>5
<1> QED BY <1>0, <1>6, <1>8, <1>10, <1>11

\* A file that is opened is at the front, once.
LEMMA TrackedIs ==
  ASSUME RecentOK(recent), NEW f \in Files
  PROVE  RecentOK(Tracked(f)) /\ Tracked(f) # <<>>
<1>1. /\ recent \in Seq(RecentEntry) /\ Len(recent) \in Nat /\ Len(recent) <= MaxRecent
      /\ DOMAIN recent = 1 .. Len(recent) /\ MaxRecent \in Nat \ {0}
      /\ \A i \in 1 .. Len(recent) : recent[i] \in RecentEntry
  BY ClientUploadsAssumption, LenProperties, ElementOfSeq DEF RecentOK
<1>2. CASE Listed(f)
  <2>1. EntryOf(f) \in Entries /\ EntryOf(f).path = f
    BY <1>2 DEF Listed, EntryOf
  <2>2. EntryOf(f) \in RecentEntry
    BY <1>1, <2>1 DEF Entries
  <2> PICK e, w : e = EntryOf(f) /\ w = Without(f)
    OBVIOUS
  <2>3. /\ w \in Seq(RecentEntry) /\ Distinct(w) /\ Len(w) = Len(recent) - 1
        /\ \A i \in 1 .. Len(w) : w[i].path # f
    BY <1>2, WithoutIs
  <2> PICK t : t = <<e>> \o w
    OBVIOUS
  <2> PICK n \in Nat : n = Len(recent)
    BY <1>1
  <2>4. t \in Seq(RecentEntry) /\ Len(t) = n /\ Distinct(t)
    <3>1. t \in Seq(RecentEntry) /\ Len(t) = Len(w) + 1 /\ Distinct(t)
      BY <2>1, <2>2, <2>3, EntryInFront
    <3>2. Len(w) = n - 1
      BY <2>3
    <3> QED BY <3>1, <3>2
  <2>5. Len(recent) # 0
    BY <1>1, <1>2 DEF Listed, Entries
  <2>6. Tracked(f) = t
    BY <1>2 DEF Tracked
  <2> QED BY <1>1, <2>4, <2>5, <2>6 DEF RecentOK
<1>3. CASE ~Listed(f)
  <2> PICK e : e = [path |-> f, queued |-> FALSE]
    OBVIOUS
  <2>1. e \in RecentEntry /\ e.path = f
    BY DEF RecentEntry
  <2>2. \A i \in 1 .. Len(recent) : recent[i].path # f
    BY <1>1, <1>3 DEF Listed, Entries
  <2> PICK t : t = <<e>> \o recent
    OBVIOUS
  <2>3. t \in Seq(RecentEntry) /\ Len(t) = Len(recent) + 1 /\ Distinct(t)
    BY <1>1, <2>1, <2>2, EntryInFront DEF RecentOK
  <2>9. PICK n, h, m : /\ n = Len(recent) /\ h = Len(t)
                       /\ m = IF n < MaxRecent THEN n + 1 ELSE MaxRecent
    OBVIOUS
  <2>0. PICK s : s = SubSeq(t, 1, m)
    OBVIOUS
  <2>4. h \in Nat /\ m \in 0 .. h /\ m \in 1 .. h /\ m <= MaxRecent
    BY <1>1, <2>3, <2>9
  <2>5. s \in Seq(RecentEntry) /\ Len(s) = m /\ \A i \in 1 .. m : s[i] = t[i]
    <3>1. /\ t \in Seq(RecentEntry) /\ h \in Nat /\ h = Len(t) /\ m \in 0 .. h
      BY <2>3, <2>4, <2>9
    <3>2. /\ SubSeq(t, 1, m) \in Seq(RecentEntry) /\ Len(SubSeq(t, 1, m)) = m
          /\ \A i \in 1 .. m : SubSeq(t, 1, m)[i] = t[i]
      BY <3>1, FirstMembers, Zenon
    <3> QED BY <2>0, <3>2, Zenon
  <2>6. Distinct(s)
    <3> SUFFICES ASSUME NEW i \in 1 .. Len(s), NEW k \in 1 .. Len(s), s[i].path = s[k].path
                 PROVE  i = k
      BY DEF Distinct
    <3>1. i \in 1 .. m /\ k \in 1 .. m
      BY <2>5
    <3>2. s[i] = t[i] /\ s[k] = t[k]
      BY <2>5, <3>1
    <3>3. i \in 1 .. Len(t) /\ k \in 1 .. Len(t)
      BY <2>4, <2>9, <3>1
    <3>4. t[i].path = t[k].path
      BY <3>2
    <3> QED BY <2>3, <3>3, <3>4, Zenon DEF Distinct
  <2>7. Tracked(f) = s
    BY <1>3, <2>0, <2>9 DEF Tracked
  <2>8. s # <<>> /\ Len(s) <= MaxRecent
    <3>1. Len(s) # 0 /\ Len(s) <= MaxRecent
      BY <2>4, <2>5
    <3> QED BY <3>1
  <2> QED BY <2>5, <2>6, <2>7, <2>8 DEF RecentOK
<1> QED BY <1>2, <1>3

\* The mark of the entry in front.
LEMMA QueuedIs ==
  ASSUME NEW r, RecentOK(r), r # <<>>, NEW queued \in BOOLEAN
  PROVE  RecentOK(Queued(r, queued))
<1>1. /\ r \in Seq(RecentEntry) /\ Len(r) \in Nat /\ DOMAIN r = 1 .. Len(r) /\ 1 \in DOMAIN r
      /\ \A i \in 1 .. Len(r) : r[i] \in RecentEntry
  BY LenProperties, ElementOfSeq DEF RecentOK
<1> PICK e : e = [r[1] EXCEPT !.queued = queued]
  OBVIOUS
<1>2. e \in RecentEntry /\ e.path = r[1].path
  BY <1>1 DEF RecentEntry
<1> PICK s : s = [r EXCEPT ![1] = e]
  OBVIOUS
<1>3. /\ s \in Seq(RecentEntry) /\ Len(s) = Len(r)
      /\ \A i \in 1 .. Len(r) : s[i] = IF i = 1 THEN e ELSE r[i]
  BY <1>1, <1>2
<1>4. \A i \in 1 .. Len(r) : s[i].path = r[i].path
  BY <1>2, <1>3
<1>5. Queued(r, queued) = s
  BY DEF Queued
<1> QED BY <1>3, <1>4, <1>5, SamePaths

\* The entries of the list are entries of files, each found by its path.
LEMMA EntriesAre ==
  ASSUME RecentOK(recent), NEW e \in Entries
  PROVE  e \in RecentEntry /\ e.path \in Files /\ Listed(e.path)
<1>1. DOMAIN recent = 1 .. Len(recent) /\ \A i \in 1 .. Len(recent) : recent[i] \in RecentEntry
  BY LenProperties, ElementOfSeq DEF RecentOK
<1>2. e \in RecentEntry
  BY <1>1 DEF Entries
<1> QED BY <1>2 DEF RecentEntry, Listed

\* New marks for some of the entries.
LEMMA MarksOnly ==
  ASSUME RecentOK(recent), NEW s, DOMAIN s = DOMAIN recent,
         s = [i \in DOMAIN recent |-> s[i]],
         \A i \in DOMAIN recent : \E q \in BOOLEAN :
           s[i] = recent[i] \/ s[i] = [recent[i] EXCEPT !.queued = q]
  PROVE  RecentOK(s)
<1>1. /\ recent \in Seq(RecentEntry) /\ Len(recent) \in Nat
      /\ DOMAIN recent = 1 .. Len(recent)
      /\ \A i \in 1 .. Len(recent) : recent[i] \in RecentEntry
  BY LenProperties, ElementOfSeq DEF RecentOK
<1>2. ASSUME NEW i \in 1 .. Len(recent)
      PROVE  s[i] \in RecentEntry /\ s[i].path = recent[i].path
  <2> PICK q \in BOOLEAN : s[i] = recent[i] \/ s[i] = [recent[i] EXCEPT !.queued = q]
    BY <1>1
  <2> QED BY <1>1 DEF RecentEntry
<1>3. s \in Seq(RecentEntry) /\ Len(s) = Len(recent)
  BY <1>1, <1>2
<1> QED BY <1>2, <1>3, SamePaths

\* Every step keeps the list of recent files in order.
LEMMA RecentSteps ==
  ASSUME RecentOK(recent), [UploadNext]_uploadVars
  PROVE  RecentOK(recent')
<1>1. CASE UNCHANGED recent
  BY <1>1
<1>2. CASE OpenPath
  <2>1. PICK f \in Files : recent' = Queued(Tracked(f), TRUE) \/ recent' = Tracked(f)
    BY <1>2 DEF OpenPath, Panel
  <2>2. RecentOK(Tracked(f)) /\ Tracked(f) # <<>>
    BY TrackedIs
  <2> QED BY <2>1, <2>2, QueuedIs
<1>3. CASE QueueEntry
  <2>1. PICK e \in Entries : recent' = Queued(Tracked(e.path), ~e.queued)
    BY <1>3 DEF QueueEntry, Panel
  <2>2. e.path \in Files /\ (~e.queued) \in BOOLEAN
    BY EntriesAre
  <2>3. RecentOK(Tracked(e.path)) /\ Tracked(e.path) # <<>>
    BY <2>2, TrackedIs
  <2> QED BY <2>1, <2>2, <2>3, QueuedIs
<1>4. CASE RemoveEntry
  <2>1. PICK e \in Entries : recent' = Without(e.path)
    BY <1>4 DEF RemoveEntry, Panel
  <2>2. e.path \in Files /\ Listed(e.path)
    BY EntriesAre
  <2>3. /\ recent' \in Seq(RecentEntry) /\ Distinct(recent')
        /\ Len(recent') = Len(recent) - 1
    BY <2>1, <2>2, WithoutIs
  <2>4. Len(recent) \in Nat /\ Len(recent) <= MaxRecent /\ MaxRecent \in Nat
    BY LenProperties, ClientUploadsAssumption DEF RecentOK
  <2> QED BY <2>3, <2>4 DEF RecentOK
<1>5. CASE ClearQueue
  <2>1. recent' = [i \in DOMAIN recent |-> [recent[i] EXCEPT !.queued = FALSE]]
    BY <1>5 DEF ClearQueue, Panel
  <2> QED BY <2>1, MarksOnly
<1>6. CASE ClearList
  <2>1. recent' = <<>> /\ MaxRecent \in Nat
    BY <1>6, ClientUploadsAssumption DEF ClearList, Panel
  <2> QED BY <2>1 DEF RecentOK, Distinct
<1>7. CASE ReindexNow
  BY <1>7, TrackedIs DEF ReindexNow
<1>8. CASE FinishReindex
  <2>1. PICK ok \in BOOLEAN : recent' = Marked(reindex.file, ok)
    BY <1>8 DEF FinishReindex
  <2>2. recent' = [i \in DOMAIN recent |-> IF recent[i].path # reindex.file THEN recent[i]
                     ELSE [recent[i] EXCEPT !.queued = ~ok]]
    BY <2>1 DEF Marked
  <2>3. (~ok) \in BOOLEAN
    OBVIOUS
  <2> QED BY <2>2, <2>3, MarksOnly
<1> QED BY <1>1, <1>2, <1>3, <1>4, <1>5, <1>6, <1>7, <1>8
       DEF UploadNext, EditFile, DeletedElsewhere, SelectFiles, UploadFile, CancelUpload,
           TakeNext, CompareHash, FinishFile, Fails, AllFinished, Worker, ProcessQueue,
           FetchType, QueueProcessed, uploadVars

\* Every step keeps what is left of an upload apart from what is done.
LEMMA SelectionSteps ==
  ASSUME UploadInv, SelectionKept, [UploadNext]_uploadVars
  PROVE  SelectionKept'
<1>0. upload \in Uploads
  BY DEF UploadInv, UploadTypes
<1>1. CASE UNCHANGED <<upload, chosen>>
  BY <1>1 DEF SelectionKept
<1>2. CASE SelectFiles
  BY <1>2 DEF SelectFiles, SelectionKept
<1>3. CASE UploadFile
  <2>1. PICK force \in BOOLEAN, type \in DocTypes :
          upload' = [Quiet EXCEPT !.at = "next", !.left = chosen, !.force = force,
                                  !.type = type, !.begun = disk]
    BY <1>3 DEF UploadFile
  <2>2. upload'.at = "next" /\ upload'.done = {} /\ chosen' = chosen /\ chosen # {}
    BY <1>3, <2>1 DEF UploadFile, Quiet
  <2> QED BY <2>2 DEF SelectionKept
<1>4. CASE CancelUpload
  BY <1>0, <1>4 DEF CancelUpload, Worker, SelectionKept, Uploads
<1>5. CASE TakeNext
  <2> PICK f \in upload.left :
        LET u == [upload EXCEPT !.left = @ \ {f}, !.file = f] IN
        \/ Worker([u EXCEPT !.at = "send", !.sent = disk[f]])
        \/ Worker([u EXCEPT !.at = "hash", !.remote = server[f]])
        \/ Worker([u EXCEPT !.at = "next", !.file = NoFile])
    BY <1>5 DEF TakeNext
  <2>1. /\ upload'.left = upload.left \ {f} /\ upload'.done = upload.done
        /\ upload'.at \in {"hash", "send"} => upload'.file = f
        /\ UNCHANGED chosen
    BY <1>0 DEF Worker, Uploads
  <2>2. chosen # {}
    BY <1>5 DEF TakeNext, SelectionKept
  <2> QED BY <2>1, <2>2 DEF SelectionKept
<1>6. ASSUME NEW ok \in BOOLEAN, Worker(Reported(upload.file, ok)),
             upload.at \in {"hash", "send"}
      PROVE  SelectionKept'
  <2>1. /\ upload'.at = "next" /\ upload'.left = upload.left /\ UNCHANGED chosen
        /\ upload'.done \subseteq upload.done \cup {upload.file}
    BY <1>0, <1>6 DEF Worker, Reported, Uploads
  <2>2. chosen # {} /\ upload.file \notin upload.left
    BY <1>6 DEF SelectionKept
  <2> QED BY <2>1, <2>2 DEF SelectionKept
<1>7. CASE CompareHash
  <2>1. CASE Worker(Reported(upload.file, TRUE))
    BY <1>6, <1>7, <2>1 DEF CompareHash
  <2>2. CASE Worker(Sends(upload.file))
    <3>1. /\ upload'.left = upload.left /\ upload'.done = upload.done
          /\ upload'.file = upload.file /\ UNCHANGED chosen
      BY <1>0, <2>2 DEF Worker, Sends, Uploads
    <3>2. chosen # {} /\ upload.file \notin upload.left
      BY <1>7 DEF CompareHash, SelectionKept
    <3> QED BY <3>1, <3>2 DEF SelectionKept
  <2> QED BY <1>7, <2>1, <2>2 DEF CompareHash
<1>8. CASE FinishFile
  BY <1>6, <1>8 DEF FinishFile, Fails
<1>9. CASE AllFinished
  BY <1>9 DEF AllFinished, Quiet, SelectionKept
<1> QED BY <1>1, <1>2, <1>3, <1>4, <1>5, <1>7, <1>8, <1>9
       DEF UploadNext, EditFile, DeletedElsewhere, OpenPath, QueueEntry, RemoveEntry,
           ClearQueue, ClearList, Panel, ProcessQueue, ReindexNow, FetchType,
           FinishReindex, QueueProcessed, Reindexer, uploadVars

\* As many paths as entries.
LEMMA PathsCounted ==
  ASSUME RecentOK(recent)
  PROVE  Cardinality({e.path : e \in Entries}) = Len(recent)
<1> PICK n : n = Len(recent)
  OBVIOUS
<1> DEFINE I == 1 .. n
           paths == {e.path : e \in Entries}
           f == [i \in I |-> recent[i].path]
<1>1. n \in Nat /\ DOMAIN recent = I
  BY LenProperties DEF RecentOK
<1>2. f \in Bijection(I, paths)
  <2>1. \A i \in I : recent[i] \in Entries
    BY <1>1 DEF Entries
  <2>2. f \in [I -> paths]
    BY <2>1
  <2>3. \A i, k \in I : f[i] = f[k] => i = k
    BY DEF RecentOK, Distinct
  <2>4. \A p \in paths : \E i \in I : f[i] = p
    BY <1>1 DEF Entries
  <2> QED BY <2>2, <2>3, <2>4 DEF Bijection, Injection, Surjection, IsInjective
<1>3. IsFiniteSet(I) /\ Cardinality(I) = n
  <2>1. 1 \in Int /\ n \in Int /\ ~(1 > n + 1) /\ (n = 0 \/ ~(1 > n))
    BY <1>1
  <2>2. /\ IsFiniteSet(1 .. n)
        /\ Cardinality(1 .. n) = IF 1 > n THEN 0 ELSE n - 1 + 1
    BY <2>1, FS_Interval
  <2> QED BY <1>1, <2>2
<1> HIDE DEF I, paths, f
<1>4. ExistsBijection(I, paths)
  BY <1>2 DEF ExistsBijection
<1> QED BY <1>3, <1>4, FS_Bijection DEF paths

\* The variables of the uploads have their types, for any files and any length of the
\* list: no file is twice among the recent ones, none is both done and still to do, and
\* an upload has files (SourceOpenManager._track_recent, UploadTab).
THEOREM UploadsTyped == UploadSpec => []UploadTypeOK
<1>1. UploadInit => RecentOK(recent) /\ SelectionKept
  <2> SUFFICES ASSUME UploadInit  PROVE RecentOK(recent) /\ SelectionKept
    OBVIOUS
  <2>1. recent = <<>> /\ MaxRecent \in Nat
    BY ClientUploadsAssumption DEF UploadInit
  <2>2. RecentOK(recent)
    BY <2>1 DEF RecentOK, Distinct
  <2>3. SelectionKept
    BY DEF UploadInit, SelectionKept, Quiet
  <2> QED BY <2>2, <2>3
<1>2. RecentOK(recent) /\ [UploadNext]_uploadVars => RecentOK(recent)'
  BY RecentSteps DEF RecentOK, Distinct
<1>3. UploadInv /\ RecentOK(recent) /\ SelectionKept => UploadTypeOK
  <2> SUFFICES ASSUME UploadInv, RecentOK(recent), SelectionKept  PROVE UploadTypeOK
    OBVIOUS
  <2>1. Cardinality({e.path : e \in Entries}) = Len(recent)
    BY PathsCounted
  <2> QED BY <2>1 DEF UploadInv, UploadTypes, Rows, RecentOK, SelectionKept, UploadTypeOK
<1> QED BY <1>1, <1>2, <1>3, UploadInvHolds, SelectionSteps, PTL DEF UploadSpec

-----------------------------------------------------------------------------
(***************************************************************************)
(* The wizard: there is at most one thread of each kind, as a button that  *)
(* starts one is enabled only while none runs.                             *)
(***************************************************************************)

WizardStates ==
  [open : BOOLEAN, page : WizardPages, next : BOOLEAN, retry : BOOLEAN, verified : BOOLEAN,
   indexed : BOOLEAN, indexBtn : BOOLEAN, searchBtn : BOOLEAN]
WorkerStates ==
  [verify : [at : {"none", "started", "asked"}, asked : Backends \cup {NoBackend}],
   indexing : Nat, searching : Nat]

\* A button of an open wizard is enabled only when its thread is not running.
ButtonsTell ==
  /\ wizard.indexBtn => workers.indexing = 0
  /\ wizard.searchBtn => workers.searching = 0

WizardInv ==
  /\ wizard \in WizardStates /\ workers \in WorkerStates /\ backend \in Backends
  /\ wizard.open => ButtonsTell
  /\ OneWorkerOfAKind

\* Navigation touches neither the two buttons nor their threads.
LEMMA GoingToPage ==
  ASSUME WizardInv, NEW w \in WizardStates, NEW p \in WizardPages, GoToPage(w, p),
         w.open = wizard.open, w.indexBtn = wizard.indexBtn, w.searchBtn = wizard.searchBtn,
         backend' \in Backends
  PROVE  WizardInv'
<1>1. /\ wizard' \in WizardStates /\ wizard'.open = wizard.open
      /\ wizard'.indexBtn = wizard.indexBtn /\ wizard'.searchBtn = wizard.searchBtn
  BY DEF GoToPage, Page, WizardStates
<1>2. /\ workers' \in WorkerStates
      /\ workers'.indexing = workers.indexing /\ workers'.searching = workers.searching
  BY DEF GoToPage, Verifying, WorkerStates, WizardInv
<1> QED BY <1>1, <1>2 DEF WizardInv, ButtonsTell, OneWorkerOfAKind

\* A wizard that is closed has no buttons to press.
LEMMA Shutting ==
  ASSUME WizardInv, wizard' = ShutWizard(wizard), workers' \in {Stopped, workers},
         UNCHANGED backend
  PROVE  WizardInv'
<1>1. wizard' \in WizardStates /\ wizard'.open = FALSE
  BY DEF ShutWizard, WizardStates, WizardInv
<1>2. workers' \in WorkerStates /\ OneWorkerOfAKind'
  BY DEF Stopped, WorkerStates, WizardInv, OneWorkerOfAKind
<1> QED BY <1>1, <1>2 DEF WizardInv

\* The buttons of the frame turn the pages.
LEMMA WizardNavigates ==
  ASSUME WizardInv, PressNext \/ PressBack \/ PressSkip \/ RetryVerify
  PROVE  WizardInv'
<1> USE DEF Welcome, ConnectPage, Verify, License, Index, Search, WizardPages
<1>1. wizard \in WizardStates /\ wizard.page \in WizardPages
  BY DEF WizardInv, WizardStates
<1>2. ASSUME Finish PROVE WizardInv'
  BY <1>2, Shutting DEF Finish
<1>3. ASSUME NEW p \in WizardPages, GoToPage(wizard, p), backend' \in Backends PROVE WizardInv'
  BY <1>1, <1>3, GoingToPage
<1>4. CASE PressNext
  BY <1>1, <1>2, <1>3, <1>4 DEF PressNext, WizardInv
<1>5. CASE PressBack
  BY <1>1, <1>3, <1>5 DEF PressBack, WizardInv
<1>6. CASE PressSkip
  <2>1. CASE wizard.page = Welcome /\ Finish
    BY <2>1, <1>2
  <2>2. CASE /\ wizard.page \in ConnectPage .. Index /\ UNCHANGED backend
             /\ GoToPage([wizard EXCEPT !.verified = @ \/ wizard.page = Verify,
                                        !.indexed = @ \/ wizard.page = Index], wizard.page + 1)
    <3> DEFINE w == [wizard EXCEPT !.verified = @ \/ wizard.page = Verify,
                                   !.indexed = @ \/ wizard.page = Index]
    <3>1. /\ w \in WizardStates /\ w.open = wizard.open
          /\ w.indexBtn = wizard.indexBtn /\ w.searchBtn = wizard.searchBtn
      BY <1>1 DEF WizardStates
    <3>2. wizard.page + 1 \in WizardPages /\ backend' \in Backends
      BY <1>1, <2>2 DEF WizardInv
    <3> HIDE DEF w
    <3> QED BY <2>2, <3>1, <3>2, GoingToPage DEF w
  <2> QED BY <1>6, <2>1, <2>2 DEF PressSkip
<1>7. CASE RetryVerify
  BY <1>1, <1>3, <1>7 DEF RetryVerify, WizardInv
<1> QED BY <1>4, <1>5, <1>6, <1>7

\* The threads ask, index and search, and answer.
LEMMA WizardWorks ==
  ASSUME WizardInv,
         \/ AskHealth \/ VerifyResult \/ StartIndex \/ IndexFinished
         \/ RunSearch \/ SearchAnswered
  PROVE  WizardInv'
<1> USE DEF WizardStates, WorkerStates
<1>1. CASE AskHealth
  BY <1>1 DEF AskHealth, WizardInv, ButtonsTell, OneWorkerOfAKind
<1>2. CASE VerifyResult
  <2>1. workers' \in WorkerStates /\ UNCHANGED <<workers.indexing, workers.searching>>
    BY <1>2 DEF VerifyResult, Stopped, WizardInv
  <2>2. wizard' \in WizardStates /\ UNCHANGED <<wizard.open, wizard.indexBtn, wizard.searchBtn>>
    BY <1>2 DEF VerifyResult, WizardInv
  <2> QED BY <1>2, <2>1, <2>2 DEF VerifyResult, WizardInv, ButtonsTell, OneWorkerOfAKind
<1>3. CASE StartIndex
  <2>1. /\ workers' \in WorkerStates /\ workers'.indexing = 1 /\ UNCHANGED workers.searching
    BY <1>3 DEF StartIndex, WizardInv, OneWorkerOfAKind, ButtonsTell
  <2>2. /\ wizard' \in WizardStates /\ wizard'.indexBtn = FALSE /\ UNCHANGED wizard.searchBtn
    BY <1>3 DEF StartIndex, IndexStarted, WizardInv
  <2> QED BY <1>3, <2>1, <2>2 DEF StartIndex, WizardInv, ButtonsTell, OneWorkerOfAKind
<1>4. CASE IndexFinished
  <2>1. /\ workers' \in WorkerStates /\ workers'.indexing = 0 /\ UNCHANGED workers.searching
    BY <1>4 DEF IndexFinished, WizardInv, OneWorkerOfAKind, ButtonsTell
  <2>2. /\ wizard' \in WizardStates /\ UNCHANGED wizard.searchBtn
    BY <1>4 DEF IndexFinished, WizardInv
  <2> QED BY <1>4, <2>1, <2>2 DEF IndexFinished, WizardInv, ButtonsTell, OneWorkerOfAKind
<1>5. CASE RunSearch
  <2>1. /\ workers' \in WorkerStates /\ workers'.searching = 1 /\ UNCHANGED workers.indexing
    BY <1>5 DEF RunSearch, WizardInv, OneWorkerOfAKind, ButtonsTell
  <2>2. /\ wizard' \in WizardStates /\ wizard'.searchBtn = FALSE /\ UNCHANGED wizard.indexBtn
    BY <1>5 DEF RunSearch, WizardInv
  <2> QED BY <1>5, <2>1, <2>2 DEF RunSearch, WizardInv, ButtonsTell, OneWorkerOfAKind
<1>6. CASE SearchAnswered
  <2>1. /\ workers' \in WorkerStates /\ workers'.searching = 0 /\ UNCHANGED workers.indexing
    BY <1>6 DEF SearchAnswered, WizardInv, OneWorkerOfAKind, ButtonsTell
  <2>2. /\ wizard' \in WizardStates /\ UNCHANGED wizard.indexBtn
    BY <1>6 DEF SearchAnswered, AfterSearch, WizardInv
  <2> QED BY <1>6, <2>1, <2>2 DEF SearchAnswered, WizardInv, ButtonsTell, OneWorkerOfAKind
<1> QED BY <1>1, <1>2, <1>3, <1>4, <1>5, <1>6

\* The invariant holds.
LEMMA WizardInvHolds == WizardSpec => []WizardInv
<1>1. WizardInit => WizardInv
  BY DEF WizardInit, WizardInv, WizardStates, WorkerStates, WizardPages, Welcome, Search,
         ButtonsTell, OneWorkerOfAKind
<1>2. WizardInv /\ [WizardNext]_wizardVars => WizardInv'
  <2> SUFFICES ASSUME WizardInv, [WizardNext]_wizardVars PROVE WizardInv'
    OBVIOUS
  <2>1. CASE PressNext \/ PressBack \/ PressSkip \/ RetryVerify
    BY <2>1, WizardNavigates
  <2>2. CASE \/ AskHealth \/ VerifyResult \/ StartIndex \/ IndexFinished
             \/ RunSearch \/ SearchAnswered
    BY <2>2, WizardWorks
  <2>3. CASE CloseWizard
    BY <2>3, Shutting DEF CloseWizard
  <2>4. CASE UNCHANGED wizardVars
    BY <2>4 DEF wizardVars, WizardInv, ButtonsTell, OneWorkerOfAKind
  <2> QED BY <2>1, <2>2, <2>3, <2>4 DEF WizardNext
<1> QED BY <1>1, <1>2, PTL DEF WizardSpec

\* Pages, buttons and threads of the wizard keep their shape (onboarding_wizard.py).
THEOREM WizardTyped == WizardSpec => []WizardTypeOK
<1>1. WizardInv => WizardTypeOK
  BY DEF WizardInv, WizardTypeOK, WizardStates, WorkerStates
<1> QED BY <1>1, WizardInvHolds, PTL

\* Whatever the user presses and in whatever order the threads answer, there is at most
\* one thread that indexes and one that searches (onboarding_wizard.py).
THEOREM OneWorkerOfAKindHolds == WizardSpec => []OneWorkerOfAKind
<1>1. WizardInv => OneWorkerOfAKind
  BY DEF WizardInv
<1> QED BY <1>1, WizardInvHolds, PTL

-----------------------------------------------------------------------------
(***************************************************************************)
(* The programs together, as the runs have them: each of their behaviours  *)
(* is one of every part, so that what holds of the parts holds of them.    *)
(***************************************************************************)

\* Every part starts as it does by itself, and every step is one of each part or leaves
\* it as it is.
LEMMA DesktopSteps ==
  /\ Init => /\ InstallerInit /\ BackendInit /\ ListInit /\ TreeInit /\ ScopeInit
             /\ UploadInit /\ WizardInit
  /\ [Next]_vars => /\ [InstallerNext]_installerVars /\ [BackendNext]_backendVars
                    /\ [ListNext]_listVars /\ [TreeNext]_treeVars /\ [ScopeNext]_scopeVars
                    /\ [UploadNext]_uploadVars /\ [WizardNext]_wizardVars
<1>1. Init => /\ InstallerInit /\ BackendInit /\ ListInit /\ TreeInit /\ ScopeInit
              /\ UploadInit /\ WizardInit
  BY DEF Init
<1>2. UNCHANGED vars => UNCHANGED <<installerVars, backendVars, listVars, treeVars, scopeVars,
                                    uploadVars, wizardVars>>
  BY DEF vars
<1>3. Installing => InstallerNext /\ UNCHANGED <<backendVars, listVars, treeVars, scopeVars,
                                                 uploadVars, wizardVars>>
  BY DEF Installing, Others
<1>4. Hosting => BackendNext /\ UNCHANGED <<installerVars, listVars, treeVars, scopeVars,
                                            uploadVars, wizardVars>>
  BY DEF Hosting, Others
<1>5. Listing => ListNext /\ UNCHANGED <<installerVars, backendVars, treeVars, scopeVars,
                                         uploadVars, wizardVars>>
  BY DEF Listing, Others
<1>6. Browsing => TreeNext /\ UNCHANGED <<installerVars, backendVars, listVars, scopeVars,
                                          uploadVars, wizardVars>>
  BY DEF Browsing, Others
<1>7. Scoping => ScopeNext /\ UNCHANGED <<installerVars, backendVars, listVars, treeVars,
                                          uploadVars, wizardVars>>
  BY DEF Scoping, Others
<1>8. Uploading => UploadNext /\ UNCHANGED <<installerVars, backendVars, listVars, treeVars,
                                             scopeVars, wizardVars>>
  BY DEF Uploading, Others
<1>9. Welcoming => WizardNext /\ UNCHANGED <<installerVars, backendVars, listVars, treeVars,
                                             scopeVars, uploadVars>>
  BY DEF Welcoming, Others
<1> QED BY <1>1, <1>2, <1>3, <1>4, <1>5, <1>6, <1>7, <1>8, <1>9 DEF Next

\* The programs of a user's machine implement each of their parts: a behaviour of all of
\* them is, of the variables of a part, one of the part.
THEOREM DesktopImplementsParts ==
  Spec => /\ InstallerSpec /\ BackendSpec /\ ListSpec /\ TreeSpec /\ ScopeSpec
          /\ UploadSpec /\ WizardSpec
BY DesktopSteps, PTL
   DEF Spec, InstallerSpec, BackendSpec, ListSpec, TreeSpec, ScopeSpec, UploadSpec, WizardSpec

\* The variables of every part have their types in every state the programs reach, for
\* any values of the constants.
THEOREM DesktopTyped == Spec => []DesktopTypeOK
<1>1. /\ InstallerTypeOK /\ BackendTypeOK /\ ListTypeOK /\ TreeTypeOK /\ ScopeTypeOK
      /\ UploadTypeOK /\ WizardTypeOK
      => DesktopTypeOK
  BY DEF DesktopTypeOK
<1> QED BY <1>1, DesktopImplementsParts, InstallerTyped, BackendTyped, ListTyped, TreeTyped,
           ScopeTyped, UploadsTyped, WizardTyped, PTL

\* What is proved of the parts holds of the programs together: an installation that says
\* it is complete is whole, an update takes effect, the scope of a search is what the
\* dialog shows, what an upload calls done is indexed, and a wizard has one worker of a kind.
THEOREM DesktopIsSafe ==
  Spec => [](/\ CompleteIsWhole /\ UpdateTakesEffect /\ ScopeIsHonest /\ DoneIsIndexed
             /\ OneWorkerOfAKind)
BY DesktopImplementsParts, CompleteIsWholeHolds, UpdateTakesEffectHolds, ScopeIsHonestHolds,
   DoneIsIndexedHolds, OneWorkerOfAKindHolds, PTL

=============================================================================
