------------------------------ MODULE GeoUpdate ------------------------------
(***************************************************************************)
(* The update of geo data (sb-ppgw/geo.rs) and the cold restart of clash   *)
(* that follows it (sniffbox/web_geo.rs), asked for by the web interface   *)
(* or by the daily timer (sniffbox/geo_cron.rs), with the supervisor of    *)
(* clash (ClashCtl).                                                       *)
(*                                                                         *)
(* A release is a number; its files, and their sha256, are told apart by   *)
(* it.  The feed names the latest release.  A source of files serves the   *)
(* latest one, or an earlier one when it lags behind the feed.             *)
(***************************************************************************)
EXTENDS ClashCtl

CONSTANTS
  GeoFiles,      \* GEO_FILES
  Nothing,       \* no version, no hash
  MaxReleases, MaxDays, MaxUpdates, MaxEnds   \* bounds

ASSUME GeoConstants ==
  /\ Nothing \notin Nat
  /\ {MaxReleases, MaxDays, MaxUpdates, MaxEnds} \subseteq Nat

VARIABLES
  release,   \* the latest release
  disk,      \* per file: the release that it is of
  updateLog, \* update.log: the version recorded of each file, 0 for none
  upd,       \* who holds WebGeo.updating: the step, the feed's version, whether the timer asked
  job,     \* per file: the step of update_one; while it is got, its hash and whether the
           \* source that announced it lagged behind the feed then
  lagged,  \* history: the files on disk that were taken, or found right, by such a hash
  loadedGeo,    \* per pid: what that clash found on disk when it started
  clock,     \* the day, and whether it is the hour of restart_cron
  marker,    \* the marker file: the day of the last restart
  fired,     \* history: restarts of the timer on each day
  updates, ends

geoVars == <<release, disk, updateLog, upd, job, lagged, loadedGeo, clock, marker, fired, updates, ends>>
-----------------------------------------------------------------------------
Unasked == [f \in GeoFiles |-> [st |-> "todo", sha |-> Nothing, lag |-> FALSE]]
NoUpdate == [pc |-> "rest", rv |-> Nothing, timer |-> FALSE]

GeoInit ==
  /\ ClashInit
  /\ release = 1
  /\ disk = [f \in GeoFiles |-> 1]
  /\ updateLog \in {[f \in GeoFiles |-> v] : v \in {0, 1}}
  /\ upd = NoUpdate
  /\ job = Unasked /\ lagged = {}
  /\ loadedGeo = [p \in ClashPids |-> disk]
  /\ clock = [day |-> 1, hour |-> FALSE]
  /\ marker = 0
  /\ fired = [d \in 1 .. MaxDays |-> 0]
  /\ updates = 0 /\ ends = 0

Asking == <<clock, marker, fired, updates, ends>>
-----------------------------------------------------------------------------
(* The two who ask. *)

WebUpdates ==
  /\ upd.pc = "rest" /\ updates < MaxUpdates
  /\ upd' = [NoUpdate EXCEPT !.pc = "feed"]
  /\ updates' = updates + 1
  /\ UNCHANGED <<clashVars, release, disk, updateLog, job, lagged, loadedGeo, clock, marker, fired, ends>>

\* should_fire; the marker is written before anything else.
ShouldFire == clock.hour /\ marker # clock.day

\* The marker is written when the restart is done.
TimerFiresUnmarked ==
  /\ upd.pc = "rest" /\ ShouldFire
  /\ fired' = [fired EXCEPT ![clock.day] = @ + 1]
  /\ upd' = [NoUpdate EXCEPT !.pc = "feed", !.timer = TRUE]
  /\ UNCHANGED <<clashVars, release, disk, updateLog, job, lagged, loadedGeo, clock, marker, updates, ends>>

TimerFires ==
  /\ upd.pc = "rest" /\ ShouldFire
  /\ marker' = clock.day
  /\ fired' = [fired EXCEPT ![clock.day] = @ + 1]
  /\ upd' = [NoUpdate EXCEPT !.pc = "feed", !.timer = TRUE]
  /\ UNCHANGED <<clashVars, release, disk, updateLog, job, lagged, loadedGeo, clock, updates, ends>>
-----------------------------------------------------------------------------
(* geo::update *)

\* remote_version: what the feed says, or nothing when no source answers.
AsksVersion ==
  /\ upd.pc = "feed"
  /\ \E v \in {release, Nothing} : upd' = [upd EXCEPT !.pc = "files", !.rv = v]
  /\ UNCHANGED <<clashVars, release, disk, updateLog, job, lagged, loadedGeo, Asking>>

UpToDate(f) == upd.rv # Nothing /\ updateLog[f] = upd.rv

\* What a source says of release r: its hash is that of the file, or the file is to be got.
Announced(f, r) ==
  IF disk[f] = r THEN [Unasked[f] EXCEPT !.st = "right"] ELSE [st |-> "get", sha |-> r, lag |-> r < release]

Marked(f, lag) == IF lag THEN lagged \cup {f} ELSE lagged \ {f}

\* What update_one ends with: the file as it was ("kept"), found right or got.
Outcome(f, st) == [job EXCEPT ![f] = [Unasked[f] EXCEPT !.st = st]]

\* update_one, up to the comparison with the file, which is kept when it is up to date or
\* no source answers.
AsksSha(f) ==
  /\ upd.pc = "files" /\ job[f].st = "todo"
  /\ \/ job' = Outcome(f, "kept") /\ UNCHANGED lagged
     \/ /\ ~UpToDate(f)
        /\ \E r \in 1 .. release :
             /\ job' = [job EXCEPT ![f] = Announced(f, r)]
             /\ lagged' = IF disk[f] = r THEN Marked(f, r < release) ELSE lagged
  /\ UNCHANGED <<clashVars, release, disk, updateLog, upd, loadedGeo, Asking>>

\* download_verified: over the proxy, then directly; a body is taken when its hash
\* is the one that was announced, and renamed over the file.
Downloads(f) ==
  /\ upd.pc = "files" /\ job[f].st = "get"
  /\ \/ /\ disk' = [disk EXCEPT ![f] = job[f].sha]
        /\ job' = Outcome(f, "got")
        /\ lagged' = Marked(f, job[f].lag)
     \/ job' = Outcome(f, "kept") /\ UNCHANGED <<disk, lagged>>
  /\ UNCHANGED <<clashVars, release, updateLog, upd, loadedGeo, Asking>>

Committed(f) == job[f].st \in {"right", "got"} /\ upd.rv # Nothing

Changed == \E f \in GeoFiles : job[f].st = "got"

\* write_update_log, then the restart: always for the timer, otherwise when a file changed.
WritesLog ==
  /\ upd.pc = "files"
  /\ \A f \in GeoFiles : job[f].st \notin {"todo", "get"}
  /\ updateLog' = [f \in GeoFiles |-> IF Committed(f) THEN upd.rv ELSE updateLog[f]]
  /\ upd' = IF upd.timer \/ Changed THEN [upd EXCEPT !.pc = "restart"] ELSE NoUpdate
  /\ job' = Unasked
  /\ UNCHANGED <<clashVars, release, disk, lagged, loadedGeo, Asking>>

\* restart_clash
AsksRestart ==
  /\ upd.pc = "restart"
  /\ RestartBegins
  /\ upd' = [upd EXCEPT !.pc = "restarting"]
  /\ UNCHANGED <<release, disk, updateLog, job, lagged, loadedGeo, Asking>>

RestartDone ==
  /\ upd.pc = "restarting" /\ sup = "free"
  /\ upd' = NoUpdate
  /\ UNCHANGED <<clashVars, release, disk, updateLog, job, lagged, loadedGeo, Asking>>
-----------------------------------------------------------------------------
\* A clash that starts reads the files.
ClashReadsGeo == loadedGeo' = [p \in ClashPids |-> IF proc[p] = "none" /\ proc'[p] = "run" THEN disk ELSE loadedGeo[p]]

SupMoves ==
  /\ SupStep \/ EnsureUp \/ ClashSurroundings
  /\ ClashReadsGeo
  /\ UNCHANGED <<release, disk, updateLog, upd, job, lagged, Asking>>

Released ==
  /\ release < MaxReleases
  /\ release' = release + 1
  /\ UNCHANGED <<clashVars, disk, updateLog, upd, job, lagged, loadedGeo, Asking>>

HourStrikes ==
  /\ clock' = IF clock.hour THEN [day |-> clock.day + 1, hour |-> FALSE] ELSE [clock EXCEPT !.hour = TRUE]
  /\ clock'.day <= MaxDays
  /\ UNCHANGED <<clashVars, release, disk, updateLog, upd, job, lagged, loadedGeo, marker, fired, updates, ends>>

\* sniffbox ends anywhere; clash goes on, and the files and the marker stay.
SniffboxEnds ==
  /\ ends < MaxEnds
  /\ ends' = ends + 1
  /\ ClashAdopted
  /\ upd' = NoUpdate
  /\ job' = Unasked
  /\ UNCHANGED <<release, disk, updateLog, lagged, loadedGeo, clock, marker, fired, updates>>

GeoNext ==
  \/ WebUpdates \/ TimerFires \/ AsksVersion \/ WritesLog \/ AsksRestart \/ RestartDone
  \/ \E f \in GeoFiles : AsksSha(f) \/ Downloads(f)
  \/ SupMoves \/ Released \/ HourStrikes \/ SniffboxEnds
-----------------------------------------------------------------------------
\* The log says of a file that it is of a later release than it is only when the data
\* was last taken, or found right, by the hash of a source that lagged behind the feed
\* (write_update_log records the feed's version whatever the source served), wherever an
\* update is interrupted, and never that it is of one that is to come; and the timer
\* restarts clash at most once a day, across restarts of sniffbox.
LogNotAhead ==
  /\ \A f \in GeoFiles : updateLog[f] <= (IF f \in lagged THEN release ELSE disk[f])
  /\ \A d \in 1 .. MaxDays : fired[d] <= 1

\* Once an update is over, the clash that runs has loaded the files that are on disk,
\* unless sniffbox was stopped between the two.
LoadedWhatIsOnDisk ==
  upd.pc = "rest" /\ ends = 0 =>
    \A p \in ClashPids : proc[p] = "run" => loadedGeo[p] = disk

\* There is one clash, the log is ahead of the data only after a source that lagged,
\* and clash runs with the data that is on disk.
ClashSafe == OneClash /\ LogNotAhead /\ LoadedWhatIsOnDisk

=============================================================================
