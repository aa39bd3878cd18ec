----------------------------- MODULE FolderScans -----------------------------
(***************************************************************************)
(* The scans of one watched path and what they do to the index.            *)
(*                                                                         *)
(* server_scheduler.py runs scan_folder in worker threads for the loop     *)
(* ("sched") and for the scan-now endpoint ("now"); the endpoint of        *)
(* watched folders ("api") runs it on the event loop itself, which holds   *)
(* up every coroutine of the process.  stop() cancels the loop's           *)
(* coroutine, not its thread ("orphan").  A scan walks the directory,      *)
(* indexes each file, closes its run, lists the indexed files with their   *)
(* quarantine marks and then checks and marks them one after the other,    *)
(* while files come and go, an admin restores, and the retention purges.   *)
(*                                                                         *)
(* A document is the version that is indexed and the age of its mark.  The *)
(* two stores behind it are DualStore's.  Canonical keys, the full-text    *)
(* index, the row of a run and its other counters are left out.           *)
(***************************************************************************)
EXTENDS WatchedFolders

CONSTANTS Files,       \* files under the path
          Unreadable,  \* those document processing fails on
          MaxVer,      \* bound: contents of a file, 0 is no file
          Retention,   \* QUARANTINE_RETENTION_DAYS, in ticks
          NotMarked,   \* NULL
          MaxEvents    \* bound: changes of the disk, faults, stops, requests

ASSUME ScanAssumption ==
  /\ MaxVer \in Nat \ {0} /\ Retention \in Nat \ {0} /\ NotMarked \notin Nat
  /\ Unreadable \subseteq Files /\ MaxEvents \in Nat

VARIABLES disk,     \* content of each file
          doc,      \* the document of each file
          scan,     \* scans in progress
          co,       \* coroutines of _run_scan: root and step
          active,   \* _active_scans
          poll,     \* a row _run_pending_scans read and has not come to
          looping,  \* _running
          events    \* bounded events so far

scanVars == <<disk, doc, scan, co, active, poll, looping, events>>
allVars == <<folderVars, scanVars>>

Slots == {"sched", "now", "api", "orphan"}
Coroutines == {"sched", "now"}

Document == [ver : 0..MaxVer, mark : 0..Retention \cup {NotMarked}]
NoDocument == [ver |-> 0, mark |-> NotMarked]
Idle == [pc |-> "off", todo |-> {}, held |-> <<>>, ok |-> FALSE,
         quiet |-> FALSE]
NoPoll == [id |-> NoRoot, scanAge |-> 0]

OnDisk(f) == dir /\ disk[f] # 0
Readable(f) == OnDisk(f) /\ f \notin Unreadable
EventLoopFree == scan["api"].pc = "off"
Event == events < MaxEvents /\ events' = events + 1

\* Files hold content v.
ScanVarsInit(v) ==
  /\ disk = [f \in Files |-> v]
  /\ doc = [f \in Files |-> NoDocument]
  /\ scan = [k \in Slots |-> Idle]
  /\ co = [k \in Coroutines |-> [step |-> "off", id |-> NoRoot]]
  /\ active = 0
  /\ poll = NoPoll
  /\ looping = TRUE
  /\ events = 0

ScanInit ==
  /\ root = [r \in Roots |-> IF r = CHOOSE i \in Roots : TRUE
                            THEN Fresh("server", NoExecutor) ELSE NoRoot]
  /\ adding = [c \in Callers |-> NotAdding] /\ dir = TRUE /\ edits = 0
  /\ ScanVarsInit(1)

-----------------------------------------------------------------------------
\* A slip for each of the properties below.

\* The pass after the walk quarantines and never restores.
MutToMark(f, marked) == ~OnDisk(f) /\ ~marked

\* Cancelling a scan skips the finally that counts it off.
MutCountedOff == active

\* stop() counts a scan off whether or not one runs.
MutCountedTwice == active - 1

\* A streak of failures is never looked at again.
MutSkipped(row) == row.paused \/ row.failures >= MaxStreak

-----------------------------------------------------------------------------
\* A scan, from here on k's.  Some steps may fail for a fault of the database.

At(k, pc) == scan[k].pc = pc
Began == [Idle EXCEPT !.pc = "start", !.quiet = TRUE]

\* What k did no longer follows from the disk alone, nor does what others did.
Unquiet(s) == [j \in Slots |-> [s[j] EXCEPT !.quiet = FALSE]]
Faulted(s, k) == [s EXCEPT ![k].quiet = FALSE]

\* A write of k disturbs the others unless k itself is undisturbed.
Wrote(s, k) == IF scan[k].quiet THEN s ELSE Unquiet(s)

\* start_run, isdir and os.walk.
Walk(k) ==
  /\ At(k, "start")
  /\ IF dir
     THEN scan' = [scan EXCEPT ![k].pc = "walk",
                     ![k].todo = {<<f, FALSE>> : f \in {g \in Files : OnDisk(g)}}]
     ELSE scan' = [scan EXCEPT ![k].pc = "done", ![k].quiet = FALSE]
  /\ UNCHANGED <<folderVars, disk, doc, co, active, poll, looping, events>>

\* index_document reads the file; one that cannot be read is an error it returns.
IndexRead(k) ==
  /\ At(k, "walk")
  /\ \E x \in scan[k].todo :
       LET f == x[1] IN
       scan' = [scan EXCEPT ![k].todo = @ \ {x},
                            ![k].pc = IF Readable(f) THEN "index" ELSE @,
                            ![k].held = IF Readable(f) THEN <<f, disk[f]>> ELSE @]
  /\ UNCHANGED <<folderVars, disk, doc, co, active, poll, looping, events>>

\* ... and writes the document unless it has this hash already, in which case a
\* quarantine mark stays.
IndexWrite(k) ==
  LET f == scan[k].held[1]
      s == [scan EXCEPT ![k].pc = "walk", ![k].held = <<>>]
  IN /\ At(k, "index")
     /\ IF doc[f].ver = scan[k].held[2]
        THEN doc' = doc /\ scan' = s
        ELSE /\ doc' = [doc EXCEPT ![f] = [ver |-> scan[k].held[2], mark |-> NotMarked]]
             /\ scan' = Wrote(s, k)
     /\ UNCHANGED <<folderVars, disk, co, active, poll, looping, events>>

\* The write fails and puts the old version back, maybe without its mark; the
\* error is a result, not an exception.
IndexFails(k) ==
  LET f == scan[k].held[1] IN
  /\ At(k, "index") /\ doc[f].ver # scan[k].held[2] /\ Event
  /\ doc' \in {doc, [doc EXCEPT ![f].mark = NotMarked]}
  /\ scan' = Unquiet([scan EXCEPT ![k].pc = "walk", ![k].held = <<>>])
  /\ UNCHANGED <<folderVars, disk, co, active, poll, looping>>

\* complete_run, as a success: files_failed counts what index_document raised,
\* which is nothing.
Report(k) ==
  /\ At(k, "walk") /\ scan[k].todo = {}
  /\ scan' = [scan EXCEPT ![k].pc = "list", ![k].ok = TRUE]
  /\ UNCHANGED <<folderVars, disk, doc, co, active, poll, looping, events>>

\* _quarantine_missing_sources: the indexed files and their marks; a fault here
\* ends the scan, as a success.
ListIndexed(k) ==
  /\ At(k, "list")
  /\ \/ /\ scan' = [scan EXCEPT ![k].pc = "check",
             ![k].todo = {<<f, doc[f].mark # NotMarked>> :
                            f \in {g \in Files : doc[g].ver # 0}}]
        /\ UNCHANGED events
     \/ /\ scan' = Faulted([scan EXCEPT ![k].pc = "done"], k) /\ Event
  /\ UNCHANGED <<folderVars, disk, doc, co, active, poll, looping>>

\* The file's state on disk and the mark that was listed: is there a mark to change?
ToMark(f, marked) == OnDisk(f) = marked

CheckSource(k) ==
  /\ At(k, "check")
  /\ \E x \in scan[k].todo :
       scan' = [scan EXCEPT ![k].todo = @ \ {x},
                  ![k].pc = IF ToMark(x[1], x[2]) THEN "mark" ELSE @,
                  ![k].held = IF ToMark(x[1], x[2]) THEN x ELSE @]
  /\ UNCHANGED <<folderVars, disk, doc, co, active, poll, looping, events>>

\* quarantine_chunks marks what has no mark; restore_chunks clears one.
Marked(f) == IF doc[f].ver # 0 /\ doc[f].mark = NotMarked
             THEN [doc EXCEPT ![f].mark = 0] ELSE doc
Restored(f) == [doc EXCEPT ![f].mark = NotMarked]

MarkSource(k) ==
  LET f == scan[k].held[1]
      s == [scan EXCEPT ![k].pc = "check", ![k].held = <<>>]
  IN /\ At(k, "mark")
     /\ \/ /\ doc' = IF scan[k].held[2] THEN Restored(f) ELSE Marked(f)
           /\ scan' = Wrote(s, k)
           /\ UNCHANGED events
        \/ doc' = doc /\ scan' = Faulted(s, k) /\ Event
     /\ UNCHANGED <<folderVars, disk, co, active, poll, looping>>

EndScan(k) ==
  /\ At(k, "check") /\ scan[k].todo = {}
  /\ scan' = [scan EXCEPT ![k].pc = "done"]
  /\ UNCHANGED <<folderVars, disk, doc, co, active, poll, looping, events>>

ThreadStep(k) ==
  \/ Walk(k) \/ IndexRead(k) \/ IndexWrite(k) \/ IndexFails(k) \/ Report(k)
  \/ ListIndexed(k) \/ CheckSource(k) \/ MarkSource(k) \/ EndScan(k)

-----------------------------------------------------------------------------
\* The coroutines around the threads.

\* What _run_pending_scans passes over.
Skipped(row) == row.paused \/ InBackoff(row)

\* It reads all the rows and may come to this one much later.
Poll ==
  /\ looping /\ EventLoopFree /\ poll = NoPoll /\ co["sched"].step = "off"
  /\ \E r \in ServerRoots :
       ~Skipped(root[r]) /\ poll' = [id |-> r, scanAge |-> root[r].scanAge]
  /\ UNCHANGED <<folderVars, disk, doc, scan, co, active, looping, events>>

Launch(k, r) ==
  /\ scan[k].pc = "off" /\ co[k].step = "off" /\ EventLoopFree
  /\ scan' = [scan EXCEPT ![k] = Began]
  /\ co' = [co EXCEPT ![k] = [step |-> "thread", id |-> r]]
  /\ active' = active + 1
  /\ UNCHANGED <<folderVars, disk, doc, looping>>

LaunchDue ==
  /\ poll # NoPoll /\ poll.scanAge >= Interval
  /\ Launch("sched", poll.id) /\ poll' = NoPoll /\ UNCHANGED events

PassOver ==
  /\ poll # NoPoll /\ poll.scanAge < Interval /\ EventLoopFree
  /\ poll' = NoPoll
  /\ UNCHANGED <<folderVars, disk, doc, scan, co, active, looping, events>>

\* scan_root_now: not the loop, and not asked whether the root is due or paused.
ScanRootNow(r) ==
  /\ r \in Rows /\ root[r].scope = "server"
  /\ Launch("now", r) /\ Event /\ UNCHANGED poll

\* The thread's result comes back: the watermarks, then last_scanned_at.
TakeResult(k) ==
  /\ co[k].step = "thread" /\ At(k, "done") /\ EventLoopFree
  /\ \/ root' = Watermarked(co[k].id, scan[k].ok) /\ UNCHANGED events
     \/ root' = root /\ Event
  /\ co' = [co EXCEPT ![k].step = "mark"]
  /\ scan' = [scan EXCEPT ![k] = Idle]
  /\ UNCHANGED <<adding, dir, edits, disk, doc, active, poll, looping>>

EndCoroutine(k) ==
  /\ co[k].step = "mark" /\ EventLoopFree
  /\ \/ root' = Scanned(co[k].id) /\ UNCHANGED events
     \/ root' = root /\ Event
  /\ co' = [co EXCEPT ![k] = [step |-> "off", id |-> NoRoot]]
  /\ active' = active - 1
  /\ UNCHANGED <<adding, dir, edits, disk, doc, scan, poll, looping>>

\* The folder's own scan endpoint: no watermarks, no count, and the event loop
\* does nothing else until it returns.
ScanWatchedFolder(r) ==
  /\ r \in Rows /\ scan["api"].pc = "off" /\ Event
  /\ scan' = [scan EXCEPT !["api"] = Began]
  /\ UNCHANGED <<folderVars, disk, doc, co, active, poll, looping>>

EndApiScan ==
  /\ At("api", "done")
  /\ \E r \in Roots : root' = Scanned(r)
  /\ scan' = [scan EXCEPT !["api"] = Idle]
  /\ UNCHANGED <<adding, dir, edits, disk, doc, co, active, poll, looping, events>>

\* The count after the loop's coroutine was cancelled: its finally ran.
CountedOff == IF co["sched"].step = "off" THEN active ELSE active - 1

\* stop() cancels the coroutine; a thread that runs is on its own.
Stop ==
  /\ looping /\ EventLoopFree /\ At("orphan", "off") /\ Event
  /\ looping' = FALSE /\ poll' = NoPoll
  /\ active' = CountedOff
  /\ co' = [co EXCEPT !["sched"] = [step |-> "off", id |-> NoRoot]]
  /\ scan' = [scan EXCEPT !["sched"] = Idle, !["orphan"] = scan["sched"]]
  /\ UNCHANGED <<folderVars, disk, doc>>

EndOrphan ==
  /\ At("orphan", "done")
  /\ scan' = [scan EXCEPT !["orphan"] = Idle]
  /\ UNCHANGED <<folderVars, disk, doc, co, active, poll, looping, events>>

Start ==
  /\ ~looping
  /\ looping' = TRUE
  /\ UNCHANGED <<folderVars, disk, doc, scan, co, active, poll, events>>

\* The process dies; a document that was being replaced may be gone, and runs
\* that were open stay so.
Crash ==
  /\ Event
  /\ \E lost \in SUBSET {scan[k].held[1] : k \in {j \in Slots : At(j, "index")}} :
       doc' = [f \in Files |-> IF f \in lost THEN NoDocument ELSE doc[f]]
  /\ scan' = [k \in Slots |-> Idle]
  /\ co' = [k \in Coroutines |-> [step |-> "off", id |-> NoRoot]]
  /\ active' = 0 /\ poll' = NoPoll /\ looping' = FALSE
  /\ UNCHANGED <<folderVars, disk>>

-----------------------------------------------------------------------------
\* The rest of the world.

ChangeFile(f) ==
  /\ Event
  /\ \E v \in 0..MaxVer : v # disk[f] /\ disk' = [disk EXCEPT ![f] = v]
  /\ scan' = Unquiet(scan)
  /\ UNCHANGED <<folderVars, doc, co, active, poll, looping>>

\* The volume of the path is unmounted or mounted.
Mount ==
  /\ Event /\ dir' = ~dir /\ scan' = Unquiet(scan)
  /\ UNCHANGED <<root, adding, edits, disk, doc, co, active, poll, looping>>

RestoreQuarantined(f) ==
  /\ doc[f].mark # NotMarked /\ Event
  /\ doc' = Restored(f) /\ scan' = Unquiet(scan)
  /\ UNCHANGED <<folderVars, disk, co, active, poll, looping>>

\* purge_expired, from the scheduler, the retention runner or an endpoint.  One
\* that deletes the document of a file that is back undoes what a scan skipped.
Expired == {f \in Files : doc[f].mark = Retention}

PurgeExpired ==
  /\ Expired # {}
  /\ doc' = [f \in Files |-> IF f \in Expired THEN NoDocument ELSE doc[f]]
  /\ scan' = IF \E f \in Expired : OnDisk(f) THEN Unquiet(scan) ELSE scan
  /\ UNCHANGED <<folderVars, disk, co, active, poll, looping, events>>

Tick ==
  /\ root' = Aged
  /\ doc' = [f \in Files |-> IF doc[f].mark = NotMarked THEN doc[f]
                             ELSE [doc[f] EXCEPT !.mark = Older(@, Retention)]]
  /\ poll' = IF poll = NoPoll THEN poll
             ELSE [poll EXCEPT !.scanAge = Older(@, Interval)]
  /\ UNCHANGED <<adding, dir, edits, disk, scan, co, active, looping, events>>

Loop == Poll \/ LaunchDue \/ PassOver
Ended == EndApiScan \/ EndOrphan \/ \E k \in Coroutines : TakeResult(k) \/ EndCoroutine(k)

ScanNext ==
  \/ Loop \/ Ended \/ Stop \/ Start \/ Crash
  \/ Mount \/ PurgeExpired \/ Tick
  \/ \E k \in Slots : ThreadStep(k)
  \/ \E r \in Roots : ScanRootNow(r) \/ ScanWatchedFolder(r)
  \/ \E f \in Files : ChangeFile(f) \/ RestoreQuarantined(f)
  \/ FolderEdit /\ UNCHANGED scanVars

ScanSpec == ScanInit /\ [][ScanNext]_allVars

\* The loop polls, threads run, the container is restarted, time passes, and the
\* retention runner comes round.
ScanFairness ==
  /\ WF_allVars(Loop) /\ WF_allVars(Ended) /\ WF_allVars(Start)
  /\ WF_allVars(Tick) /\ WF_allVars(PurgeExpired)
  /\ \A k \in Slots : WF_allVars(ThreadStep(k))

-----------------------------------------------------------------------------
InStep(f) == IF Readable(f) THEN doc[f] = [ver |-> disk[f], mark |-> NotMarked]
             ELSE ~OnDisk(f) /\ doc[f].ver # 0 => doc[f].mark # NotMarked

\* A scan that nothing disturbed leaves the index as the disk is: every file
\* that can be read at its content and unmarked, every other document marked.
\* Scans that overlap do not count as a disturbance, nor does a purge of what
\* is missing.
QuietScanMatchesDisk ==
  \A k \in Slots : At(k, "done") /\ scan[k].quiet => \A f \in Files : InStep(f)

\* The count the admin endpoint shows is the number of coroutines scanning,
\* through cancellation, crash and failure.
ActiveScansExact == active = Cardinality({k \in Coroutines : co[k].step # "off"})

Watched == dir /\ \E r \in ServerRoots : ~root[r].paused
Settled(f) == IF OnDisk(f) THEN Readable(f) => InStep(f) ELSE doc[f].ver = 0

\* If the path keeps an enabled server root that is not paused, and its
\* directory, the index comes to hold the files on disk and nothing else, after
\* whatever faults, crashes and overlaps.
EventuallyInStep == <>[]Watched => <>[](\A f \in Files : Settled(f))

\* The variables have their types.
ScanTypeOK ==
  /\ disk \in [Files -> 0..MaxVer] /\ doc \in [Files -> Document]
  /\ active \in 0..2 /\ events \in 0..MaxEvents /\ looping \in BOOLEAN
  /\ poll.id \in Roots \/ poll = NoPoll
  /\ \A k \in Slots : /\ scan[k].todo \subseteq Files \X BOOLEAN
                      /\ At(k, "off") => scan[k] = Idle
  /\ \A k \in Coroutines : co[k].step = "thread" => ~At(k, "off")
==============================================================================
