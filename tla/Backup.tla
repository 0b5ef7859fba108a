------------------------------- MODULE Backup -------------------------------
(***************************************************************************)
(* The daily backup of the database, and what the pages say of it.  A run   *)
(* takes a snapshot, checks it, copies it into the backup folder under a    *)
(* temporary name, renames it, prunes the old ones, and writes a status     *)
(* file; a day that has a snapshot is left alone.  The broker reads the     *)
(* status file every few minutes and tells the pages when its verdict       *)
(* changes.  The process may be killed at any point.                       *)
(*                                                                         *)
(* Time is counted in half days.                                           *)
(*                                                                         *)
(* Sources: scripts/backup-db.ts, broker/backup-health.ts,                 *)
(* web/components/BackupHealthBanner.tsx.                                  *)
(***************************************************************************)
EXTENDS Integers, FiniteSets, Basics

CONSTANTS
    Run,          \* processes of the script
    Keep, Period, \* KEEP_GENERATIONS, ARCHIVE_EVERY_DAYS
    StaleAfter,   \* BACKUP_STALE_AFTER_HOURS, in half days
    MaxTime,      \* bound: half days
    None,
    BackupEnvs    \* possible environments, see BackupEnvKind

(***************************************************************************)
(* "killed":   the process is killed, or the machine loses power.          *)
(* "refused":  the backup folder refuses a rename.                         *)
(* "full":     a copy fails on the way.                                    *)
(* "twice":    a second run starts, by hand, while one is under way.       *)
(* "asleep":   the machine sleeps in a run for longer than half a day.     *)
(* "backward": the date of the machine moves back by a day.                *)
(***************************************************************************)
BackupEnvKind == {"killed", "refused", "full", "twice", "asleep", "backward"}

VARIABLES
    env,
    now,
    shift,      \* days the date of the machine is behind
    files,      \* the snapshots by the day in their name
    partial,    \* the files with the temporary name, by day
    runs,       \* the processes
    status,     \* backup-status.json
    verdict,    \* what the broker made of it last
    page,       \* what a page holds; None while it is not connected
    judged,     \* the broker has looked since the status or the time changed
    published   \* days that ever had a snapshot under its final name

bvars == <<env, now, shift, files, partial, runs, status, verdict, page, judged, published>>
health == <<verdict, page, judged>>

Day == 0 .. MaxTime \div 2
Day_(t) == (t \div 2) - shift
today == IF Day_(now) < 0 THEN 0 ELSE Day_(now)

File == {"absent", "torn", "whole"}
Step == {"none", "snapshot", "copying", "rename", "fallback", "direct", "prune", "report"}

\* started: the time it started; ok: what it will report.
Process == [at : Step, day : Day, started : 0 .. MaxTime, ok : BOOLEAN]
Idle == [at |-> "none", day |-> 0, started |-> 0, ok |-> FALSE]

Verdict == {"none", "unreadable", "failed", "stale", "ok"}

BackupTypeOK ==
    /\ env \in BackupEnvs /\ now \in 0 .. MaxTime /\ shift \in 0 .. 1
    /\ files \in [Day -> File] /\ partial \in [Day -> File]
    /\ runs \in [Run -> Process]
    /\ status \in [is : {"none", "torn", "done"}, ok : BOOLEAN, finished : 0 .. MaxTime]
    /\ verdict \in Verdict /\ page \in Verdict \cup {None} /\ judged \in BOOLEAN
    /\ published \subseteq Day

BackupInit ==
    /\ env \in BackupEnvs
    /\ now = 0 /\ shift = 0
    /\ files = [d \in Day |-> "absent"] /\ partial = files
    /\ runs = [r \in Run |-> Idle]
    /\ status = [is |-> "none", ok |-> FALSE, finished |-> 0]
    /\ verdict = "none" /\ page = None /\ judged = TRUE
    /\ published = {}

-----------------------------------------------------------------------------
(* The script *)

Goes(r, step)  == runs' = [runs EXCEPT ![r].at = step]
Fails(r)       == runs' = [runs EXCEPT ![r].at = "report", ![r].ok = FALSE]

\* runBackup: today's snapshot is taken unless there is a file of its name.
runBackup(r) ==
    /\ runs[r].at = "none"
    /\ "twice" \in env \/ \A o \in Run : runs[o].at = "none"
    /\ runs' = [runs EXCEPT ![r] =
                  [at |-> IF files[today] = "absent" THEN "snapshot" ELSE "prune",
                   day |-> today, started |-> now, ok |-> TRUE]]
    /\ UNCHANGED <<env, now, shift, files, partial, status, health, published>>

\* No folder, no database, or a snapshot that cannot be taken or is not whole.
snapshotFails(r) ==
    /\ runs[r].at = "snapshot" /\ Fails(r)
    /\ UNCHANGED <<env, now, shift, files, partial, status, health, published>>

\* (Mutation: the copy goes straight to the final name.)
copyToFinal(r) ==
    LET d == runs[r].day IN
    /\ runs[r].at = "snapshot" /\ files[d] = "absent"
    /\ files' = [files EXCEPT ![d] = "torn"]
    /\ published' = published \cup {d}
    /\ Goes(r, "direct")
    /\ UNCHANGED <<env, now, shift, partial, status, health>>

\* The snapshot is taken and is whole, and publishSnapshot begins to copy it.
copyToPartial(r) ==
    /\ runs[r].at = "snapshot"
    /\ partial' = [partial EXCEPT ![runs[r].day] = "torn"]
    /\ Goes(r, "copying")
    /\ UNCHANGED <<env, now, shift, files, status, health, published>>

\* The copy ends; what it was writing may have been renamed meanwhile.
copied(r) ==
    LET d == runs[r].day IN
    /\ runs[r].at = "copying"
    /\ \/ /\ Goes(r, "rename")
          /\ IF partial[d] = "torn"
             THEN partial' = [partial EXCEPT ![d] = "whole"] /\ UNCHANGED files
             ELSE /\ files' = [files EXCEPT ![d] = IF @ = "torn" THEN "whole" ELSE @]
                  /\ UNCHANGED partial
       \/ "full" \in env /\ Goes(r, "fallback") /\ UNCHANGED <<partial, files>>
    /\ UNCHANGED <<env, now, shift, status, health, published>>

\* The size is compared at the end.
rename(r) ==
    LET d == runs[r].day IN
    /\ runs[r].at = "rename"
    /\ \/ /\ partial[d] # "absent"
          /\ files' = [files EXCEPT ![d] = partial[d]]
          /\ partial' = [partial EXCEPT ![d] = "absent"]
          /\ published' = published \cup {d}
          /\ IF partial[d] = "whole" THEN Goes(r, "prune") ELSE Fails(r)
       \/ /\ partial[d] = "absent" \/ "refused" \in env
          /\ Goes(r, "fallback")
          /\ UNCHANGED <<files, partial, published>>
    /\ UNCHANGED <<env, now, shift, status, health>>

\* Without a rename, the copy is made under the final name.
fallback(r) ==
    LET d == runs[r].day IN
    /\ runs[r].at = "fallback"
    /\ partial' = [partial EXCEPT ![d] = "absent"]
    /\ IF files[d] # "absent"
       THEN Fails(r) /\ UNCHANGED <<files, published>>
       ELSE /\ files' = [files EXCEPT ![d] = "torn"]
            /\ published' = published \cup {d}
            /\ Goes(r, "direct")
    /\ UNCHANGED <<env, now, shift, status, health>>

directCopied(r) ==
    /\ runs[r].at = "direct"
    /\ \/ files' = [files EXCEPT ![runs[r].day] = "whole"] /\ Goes(r, "prune")
       \/ "full" \in env /\ Fails(r) /\ UNCHANGED files
    /\ UNCHANGED <<env, now, shift, partial, status, health, published>>

There == {d \in Day : files[d] # "absent"}

\* (Mutation: the archive is counted from the newest snapshot.)
planPruneFromNewest ==
    {d \in There : /\ Cardinality({e \in There : e >= d}) > Keep
                   /\ (Max(There) - d) % Period # 0}

\* The newest are kept, and every Period days one is kept for good.
planPrune ==
    {d \in There : /\ Cardinality({e \in There : e >= d}) > Keep
                   /\ (d - Min(There)) % Period # 0}

\* A file that cannot be removed is counted, and stays.
prune(r) ==
    /\ runs[r].at = "prune"
    /\ \E gone \in SUBSET planPrune :
         files' = [d \in Day |-> IF d \in gone THEN "absent" ELSE files[d]]
    /\ Goes(r, "report")
    /\ UNCHANGED <<env, now, shift, partial, status, health, published>>

\* The status is replaced as a whole, or written in place and found half written.
writeStatus(r) ==
    /\ runs[r].at = "report"
    /\ \/ \E is \in {"done", "torn"} :
            status' = [is |-> is, ok |-> runs[r].ok, finished |-> now] /\ judged' = FALSE
       \/ UNCHANGED <<status, judged>>
    /\ runs' = [runs EXCEPT ![r] = Idle]
    /\ UNCHANGED <<env, now, shift, files, partial, verdict, page, published>>

kill(r) ==
    /\ "killed" \in env /\ runs[r].at # "none"
    /\ runs' = [runs EXCEPT ![r] = Idle]
    /\ UNCHANGED <<env, now, shift, files, partial, status, health, published>>

-----------------------------------------------------------------------------
(* The broker and the page *)

evaluateBackupHealth ==
    CASE status.is = "none" -> "none"
      [] status.is = "torn" -> "unreadable"
      [] OTHER -> IF ~status.ok THEN "failed"
                  ELSE IF now - status.finished > StaleAfter THEN "stale" ELSE "ok"

\* The poll, which tells the pages when the verdict changes.
refreshBackupHealth ==
    /\ verdict' = evaluateBackupHealth
    /\ page' = IF page # None /\ verdict' # verdict THEN verdict' ELSE page
    /\ judged' = TRUE
    /\ UNCHANGED <<env, now, shift, files, partial, runs, status, published>>

\* A page that connects asks, and the broker looks again.
handleGetBackupHealth ==
    /\ page = None
    /\ verdict' = evaluateBackupHealth /\ page' = verdict' /\ judged' = TRUE
    /\ UNCHANGED <<env, now, shift, files, partial, runs, status, published>>

disconnect ==
    /\ page # None /\ page' = None
    /\ UNCHANGED <<env, now, shift, files, partial, runs, status, verdict, judged, published>>

Tick ==
    /\ now < MaxTime /\ now' = now + 1
    /\ "asleep" \in env \/ \A r \in Run : runs[r].at # "none" => runs[r].started = now
    /\ judged' = FALSE
    /\ UNCHANGED <<env, shift, files, partial, runs, status, verdict, page, published>>

turnBack ==
    /\ "backward" \in env /\ shift = 0 /\ shift' = 1
    /\ UNCHANGED <<env, now, files, partial, runs, status, health, published>>

BackupNext ==
    \/ \E r \in Run : \/ runBackup(r) \/ snapshotFails(r) \/ copyToPartial(r) \/ copied(r)
                      \/ rename(r) \/ fallback(r) \/ directCopied(r) \/ prune(r)
                      \/ writeStatus(r) \/ kill(r)
    \/ refreshBackupHealth \/ handleGetBackupHealth \/ disconnect
    \/ Tick \/ turnBack

BackupSpec == BackupInit /\ [][BackupNext]_bvars

-----------------------------------------------------------------------------
(* Properties *)

\* A page that shows no warning means what it says: there is a whole snapshot
\* that is no older than the verdict allows, and a run that straddles midnight;
\* whatever runs were killed on the way (publishSnapshot, the same-day rule,
\* evaluateBackupHealth).
QuietMeansBackedUp ==
    page = "ok" /\ judged =>
      \E d \in Day : files[d] = "whole" /\ now - 2 * d =< StaleAfter + 2

\* The first snapshot and every Period-th day from it stay for good, and so do
\* the newest; whatever days had no run, were killed, or could not be pruned
\* (planPrune: "the phase is stable").
Anchor(days, d) == \/ (d - Min(days)) % Period = 0
                   \/ Cardinality({e \in days : e >= d}) =< Keep
AnchorsStay == \A d \in published : Anchor(published, d) => files[d] # "absent"

-----------------------------------------------------------------------------
(* The inductive invariants *)

Active(r) == runs[r].at # "none"

\* One run at a time, on a date that only moves on.
InTurn ==
    /\ shift = 0
    /\ \A r, o \in Run : Active(r) /\ Active(o) => r = o
    /\ \A d \in published : 2 * d =< now
    /\ \A r \in Run : Active(r) => 2 * runs[r].day =< now /\ \A d \in published : d =< runs[r].day
    /\ \A d \in Day : files[d] # "absent" => d \in published
    /\ \A r \in Run : runs[r].at = "direct" => runs[r].day \in published

AnchorInv == BackupTypeOK /\ InTurn /\ AnchorsStay

\* Where a run is says what it has done: nothing is left half written.
WorkIsWhole ==
    /\ \A r \in Run :
         /\ runs[r].at \in {"snapshot", "copying", "rename", "fallback"} => files[runs[r].day] = "absent"
         /\ runs[r].at = "copying" => partial[runs[r].day] = "torn"
         /\ runs[r].at = "rename" => partial[runs[r].day] = "whole"
         /\ runs[r].at \in {"fallback", "direct"} => "refused" \in env
         /\ runs[r].at = "prune" \/ (runs[r].at = "report" /\ runs[r].ok) => files[runs[r].day] = "whole"
         /\ Active(r) => now =< runs[r].started + 1 /\ runs[r].started =< 2 * runs[r].day + 1
    /\ \A d \in Day : files[d] = "torn" => \E r \in Run : runs[r].at = "direct" /\ runs[r].day = d

\* A good status speaks of a snapshot that is there, or of an older one.
StatusHolds ==
    status.is = "done" /\ status.ok => \E d \in Day : files[d] = "whole" /\ status.finished =< 2 * d + 2

PageFollows == (judged => verdict = evaluateBackupHealth) /\ (page # None => page = verdict)

QuietInv == BackupTypeOK /\ InTurn /\ WorkIsWhole /\ StatusHolds /\ PageFollows
=============================================================================
