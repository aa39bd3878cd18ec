----------------------------- MODULE Installer -----------------------------
(***************************************************************************)
(* The Windows installer: eight steps run by a background thread           *)
(* (installer_logic.py), the window that starts it (installer_gui.py), and *)
(* the file that carries it over a restart of the computer.  A step finds  *)
(* out what is on the machine for itself, so a run may begin anywhere; the *)
(* thread is a daemon, so closing the window stops it within a step.       *)
(* Downloads, winget and the container runtime may fail at any time.       *)
(***************************************************************************)
EXTENDS Integers, FiniteSets

CONSTANTS Releases,     \* installer versions, each with its backend ref and image
          Custom,       \* an image tag that is no release
          MaxMishaps,   \* bound: steps that fail, runs that are cancelled, days that pass
          NoTag, NoState

ASSUME InstallerAssumption == MaxMishaps \in Nat /\ Custom \notin Releases

VARIABLES machine,      \* python, git, wsl, runtime: what is installed
          booted,       \* what of it the last start of Windows has activated
          up,           \* docker ps answers
          virtual,      \* virtualization is enabled in the BIOS
          repo, venv,   \* INSTALL_DIR: the version checked out, the environment
          images,       \* backend images on the machine
          memo,         \* install_state.json
          gui,          \* the window, the thread's step, the version of the program,
                        \* the image it takes and whether a developer asked for another
          mishaps       \* how much has gone wrong

installerVars == <<machine, booted, up, virtual, repo, venv, images, memo, gui, mishaps>>

Steps == 1 .. 8
Closed == [window |-> "closed", step |-> 0, reboot |-> FALSE, version |-> NoTag,
            image |-> NoTag, asked |-> FALSE]
Working(n) == gui.window = "running" /\ gui.step = n /\ ~gui.reboot

InstallerInit ==
  /\ machine \in {{}, {"runtime"}} /\ booted = machine
  /\ up = FALSE /\ virtual \in BOOLEAN
  /\ repo = NoTag /\ venv = "none" /\ images = {}
  /\ memo = NoState /\ gui = Closed /\ mishaps = 0

-----------------------------------------------------------------------------
\* _resolve_app_image of a release: the registry does not move it, and neither
\* does the tag of another release.
ImageOf(v, process, registry) ==
  LET o == IF process # NoTag THEN process ELSE registry IN
  IF o \in {NoTag, registry} \cup Releases THEN v ELSE o

Mishap == mishaps < MaxMishaps /\ mishaps' = mishaps + 1

\* _load_state: a file of another version or older than a day is removed.
Fits(v) == memo # NoState /\ memo.version = v /\ memo.fresh
ClearState == memo' = NoState
LoadState == IF memo = NoState \/ Fits(gui.version) THEN UNCHANGED memo ELSE ClearState
ResumesAt == IF Fits(gui.version) THEN memo.from ELSE 1

OnMachine == <<machine, booted, up, virtual, repo, venv, images>>

\* The program is started, by the user or at logon; check_resume_state.
Open(v) ==
  /\ gui.window = "closed"
  /\ \E process, registry \in Releases \cup {Custom, NoTag} :
       gui' = [Closed EXCEPT !.window = "ready", !.version = v,
                             !.image = ImageOf(v, process, registry), !.asked = process = Custom]
  /\ IF memo = NoState \/ Fits(v) THEN UNCHANGED memo ELSE ClearState
  /\ UNCHANGED <<OnMachine, mishaps>>

StartFresh ==
  /\ gui.window = "ready" /\ memo # NoState /\ ClearState /\ Mishap
  /\ UNCHANGED <<OnMachine, gui>>

\* Install, Resume and Retry all call run().
Install ==
  /\ gui.window \in {"ready", "failed"}
  /\ gui' = [gui EXCEPT !.window = "running", !.step = ResumesAt]
  /\ LoadState /\ UNCHANGED <<OnMachine, mishaps>>

\* The file is in INSTALL_DIR, which step 6 removes, or beside the installer.
InDirectory == {NoState, memo}

\* Cancel, or the window is closed: the thread goes with the process, and the
\* environment it was building stays as it is.
Close ==
  /\ gui.window \notin {"closed", "done"} /\ Mishap
  /\ gui' = Closed
  /\ \/ UNCHANGED <<repo, venv, memo>>
     \/ /\ Working(6) /\ repo' = gui.version /\ venv' = IF venv = "none" THEN "torn" ELSE venv
        /\ memo' \in (IF repo = NoTag THEN InDirectory ELSE {memo})
  /\ UNCHANGED <<machine, booted, up, virtual, images>>

\* request_reboot: the file, and a task that opens the program at logon.
RequestReboot(from) ==
  /\ memo' = [from |-> from, version |-> gui.version, fresh |-> TRUE]
  /\ gui' = [gui EXCEPT !.reboot = TRUE, !.window = "reboot"]

MutWslResume == 5
WslResume == 4

\* The countdown ends or the button is pressed, or the user restarts later.
Reboot ==
  /\ gui.window \in {"reboot", "closed"} /\ memo # NoState
  /\ gui' = Closed /\ booted' = machine /\ up' = FALSE
  /\ UNCHANGED <<machine, virtual, repo, venv, images, memo, mishaps>>

EnableVirtualization ==
  /\ gui.window = "virtualization"
  /\ virtual' = TRUE /\ gui' = Closed
  /\ UNCHANGED <<machine, booted, up, repo, venv, images, memo, mishaps>>

\* STATE_MAX_AGE_HOURS pass.
DayPasses ==
  /\ memo # NoState /\ memo.fresh /\ Mishap /\ memo' = [memo EXCEPT !.fresh = FALSE]
  /\ UNCHANGED <<OnMachine, gui>>

\* The runtime starts beside the installer, and stops between two runs of it.
RuntimeStarts == /\ "runtime" \in booted /\ ~up /\ up' = TRUE
                 /\ UNCHANGED <<machine, booted, virtual, repo, venv, images, memo, gui, mishaps>>
RuntimeStops == /\ up /\ gui.window # "running" /\ up' = FALSE
                /\ UNCHANGED <<machine, booted, virtual, repo, venv, images, memo, gui, mishaps>>

-----------------------------------------------------------------------------
NextStep == gui' = [gui EXCEPT !.step = @ + 1]
Fail == Mishap /\ gui' = [gui EXCEPT !.window = "failed", !.step = 0]

CheckSystem ==
  /\ Working(1) /\ NextStep /\ UNCHANGED <<OnMachine, memo, mishaps>>

\* Steps 2 and 3: winget, then a direct download.
InstallTool(n, tool) ==
  /\ Working(n) /\ machine' = machine \cup {tool}
  /\ booted' = booted \cup {tool} /\ NextStep
  /\ UNCHANGED <<up, virtual, repo, venv, images, memo, mishaps>>

\* Step 4: a runtime that is there is left to step 5.
\* docker ps, Docker Desktop, the docker command, rdctl, Podman with compose.
RuntimeThere == "runtime" \in machine
FindRuntime ==
  /\ Working(4) /\ RuntimeThere /\ NextStep /\ UNCHANGED <<OnMachine, memo, mishaps>>
NoVirtualization ==
  /\ Working(4) /\ ~RuntimeThere /\ ~virtual
  /\ gui' = [gui EXCEPT !.window = "virtualization"] /\ UNCHANGED <<OnMachine, memo, mishaps>>
InstallWsl ==
  /\ Working(4) /\ ~RuntimeThere /\ virtual /\ "wsl" \notin booted
  /\ machine' = machine \cup {"wsl"}
  /\ RequestReboot(WslResume)
  /\ UNCHANGED <<booted, up, virtual, repo, venv, images, mishaps>>
InstallRuntime ==
  /\ Working(4) /\ ~RuntimeThere /\ virtual /\ "wsl" \in booted
  /\ machine' = machine \cup {"runtime"}
  /\ RequestReboot(5)
  /\ UNCHANGED <<booted, up, virtual, repo, venv, images, mishaps>>

\* Step 5: start it and wait five minutes for docker ps.
RuntimeReady ==
  /\ Working(5) /\ "runtime" \in booted
  /\ up' = TRUE /\ NextStep
  /\ UNCHANGED <<machine, booted, virtual, repo, venv, images, memo, mishaps>>
RuntimeNotReady ==
  /\ Working(5) /\ ~up
  /\ IF "runtime" \in booted THEN Mishap ELSE UNCHANGED mishaps
  /\ RequestReboot(5) /\ UNCHANGED OnMachine

\* Step 6: a directory without .git is removed, the file in it included, and
\* cloned anew; else the checkout is reset and moved to the ref.
SetupApplication ==
  /\ Working(6) /\ {"git", "python"} \subseteq machine
  /\ repo' = gui.version
  /\ memo' \in (IF repo = NoTag THEN InDirectory ELSE {memo})
  /\ venv' = IF venv = "none" THEN "ok" ELSE venv
  /\ NextStep /\ UNCHANGED <<machine, booted, up, virtual, images, mishaps>>
CloneFails ==
  /\ Working(6) /\ Fail
  /\ memo' \in (IF repo = NoTag THEN InDirectory ELSE {memo})
  /\ UNCHANGED OnMachine

\* Step 7: pull and start, or go on with what is on the machine.
MutLocalImage(tag) == up
LocalImage(tag) == up /\ tag \in images
PullImages ==
  /\ Working(7) /\ up /\ images' = images \cup {gui.image} /\ NextStep
  /\ UNCHANGED <<machine, booted, up, virtual, repo, venv, memo, mishaps>>
UseLocalImages ==
  /\ Working(7) /\ LocalImage(gui.image) /\ NextStep /\ UNCHANGED <<OnMachine, memo, mishaps>>

\* Step 8, and the end of run().
Finalize ==
  /\ Working(8) /\ gui' = [gui EXCEPT !.window = "done", !.step = 0]
  /\ ClearState /\ UNCHANGED <<OnMachine, mishaps>>

StepFails == /\ \E n \in {2, 3, 4, 7} : Working(n) /\ (n = 4 => "runtime" \notin machine)
             /\ Fail /\ UNCHANGED <<OnMachine, memo>>

\* Later the user installs another version over this one.
CloseDone == gui.window = "done" /\ gui' = Closed /\ UNCHANGED <<OnMachine, memo, mishaps>>

Advance(n) ==
  \/ n = 1 /\ CheckSystem
  \/ n = 2 /\ InstallTool(2, "python")
  \/ n = 3 /\ InstallTool(3, "git")
  \/ n = 4 /\ (FindRuntime \/ InstallWsl \/ InstallRuntime)
  \/ n = 5 /\ RuntimeReady
  \/ n = 6 /\ SetupApplication
  \/ n = 7 /\ (PullImages \/ UseLocalImages)
  \/ n = 8 /\ Finalize

InstallerNext ==
  \/ \E v \in Releases : Open(v)
  \/ StartFresh \/ Install \/ Close \/ Reboot \/ EnableVirtualization \/ DayPasses
  \/ RuntimeStarts \/ RuntimeStops \/ CloseDone
  \/ \E n \in Steps : Advance(n)
  \/ NoVirtualization \/ StepFails \/ CloneFails
  \/ RuntimeNotReady

InstallerSpec == InstallerInit /\ [][InstallerNext]_installerVars

\* The user comes back, clicks, restarts when asked; a step ends.
InstallerFairness ==
  /\ WF_installerVars(\E v \in Releases : Open(v)) /\ WF_installerVars(Install)
  /\ WF_installerVars(Reboot /\ gui.window = "reboot") /\ WF_installerVars(EnableVirtualization)
  /\ WF_installerVars(NoVirtualization \/ RuntimeNotReady \/ \E n \in Steps : Advance(n))

-----------------------------------------------------------------------------
(* An installation that says it is complete is whole, whatever restarts,    *)
(* cancellations and versions lie behind it: the tools are there, the       *)
(* checkout is the installer's version, and the image of that version (or   *)
(* the one a developer asked for) is on the machine                         *)
(* (installer_logic.py:1556, 1405).                                         *)
CompleteIsWhole ==
  gui.window = "done" =>
    /\ {"python", "git", "runtime"} \subseteq machine
    /\ repo = gui.version /\ venv # "none"
    /\ gui.image \in images
    /\ gui.image \in {gui.version, Custom} /\ (gui.image = Custom => gui.asked)

(* A restart is never the end of it: the resumed run starts early enough to *)
(* finish what the restart interrupted, so that an installation once begun  *)
(* completes (installer_logic.py:744, 1592).                                *)
EventuallyInstalled == gui.window = "running" ~> gui.window = "done"

\* The variables have their types.
InstallerTypeOK ==
  /\ machine \subseteq {"python", "git", "wsl", "runtime"} /\ booted \subseteq machine
  /\ up => "runtime" \in booted
  /\ venv \in {"none", "torn", "ok"} /\ images \subseteq Releases \cup {Custom}
  /\ memo # NoState => memo.from \in {4, 5}
  /\ gui.step \in 0 .. 8
  /\ (gui.window = "running") => gui.step \in Steps
=============================================================================
